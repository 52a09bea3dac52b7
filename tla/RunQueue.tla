------------------------------ MODULE RunQueue ------------------------------
(***************************************************************************)
(* The durable run queue: the PostgreSQL table `runs`, the workers that    *)
(* claim and execute runs, the drain that hands a run back at shutdown and *)
(* the reapers that retire runs whose lease lapsed.  A step is one SQL     *)
(* statement, or one piece of code between two awaits, of one process.     *)
(*                                                                         *)
(* Clock readings are abstracted to what the statements compare:           *)
(*   lapsed    lease_expires_at <= now;                                    *)
(*   due       the sweeps whose `now`, read once, is >= lease_expires_at;  *)
(*   delayed   retry_after > now.                                          *)
(* A lease token (randomUUID) is the number of the lease among those       *)
(* issued for its run, which is as unique; 0 is NULL.  Every statement     *)
(* compares a token together with the id of the run.                       *)
(***************************************************************************)
EXTENDS Naturals

CONSTANTS
  RunIds,              \* ids a caller may enqueue
  Sessions,            \* session_id: the thread a run belongs to
  Keys,                \* idempotency keys
  Texts,               \* request texts
  Workers,             \* worker loops, and inline drivers of a request
  Reapers,             \* processes that may be inside reapExpired
  Nil,                 \* SQL NULL
  MaxAttempts,         \* max_attempts of a run
  MaxClaims,           \* MAX_CLAIMS of the deployment
  LeaseLostLimit,      \* LEASE_LOST_CONSECUTIVE
  MaxHandbacks,        \* bound: leases handed back by draining workers
  MaxStalls            \* bound: reapers dying in a sweep or outlasting FENCE_HOLD_MS

ASSUME NilAssumption == Nil \notin Keys \cup Texts \cup Sessions \cup RunIds

ASSUME BoundAssumption ==
  /\ MaxAttempts \in Nat \ {0}
  /\ MaxClaims \in Nat \ {0}
  /\ LeaseLostLimit \in Nat \ {0}
  /\ MaxHandbacks \in Nat
  /\ MaxStalls \in Nat

VARIABLES
  runs,                \* the table, one row per id
  worker,              \* processRun and the loop around it
  drain,               \* releaseInFlight of each worker
  reaper,              \* reapExpired of each reaper
  handbacks,           \* leases handed back so far
  stalls,              \* reapers that died or outlasted their fence so far
  serial               \* the sequence behind the column seq

vars == <<runs, worker, drain, reaper, handbacks, stalls, serial>>

Statuses == {"absent", "pending", "running", "done", "failed", "deleted"}

Terminal == {"done", "failed"}

(* `leases` counts the lease tokens issued while the run is unfinished;    *)
(* `asked` is the key the run was enqueued with, kept when the column is   *)
(* cleared.                                                                *)
Row == [status: Statuses, session: Sessions \cup {Nil}, key: Keys \cup {Nil},
        asked: Keys \cup {Nil}, text: Texts \cup {Nil}, seq: Nat,
        attempts: Nat, errors: Nat, leases: Nat, token: Nat,
        lapsed: BOOLEAN, due: SUBSET Reapers, delayed: BOOLEAN,
        result: {Nil, "ok", "busy", "failed"}]

NoRow == [status |-> "absent", session |-> Nil, key |-> Nil, asked |-> Nil,
          text |-> Nil, seq |-> 0, attempts |-> 0, errors |-> 0, leases |-> 0, token |-> 0,
          lapsed |-> FALSE, due |-> {}, delayed |-> FALSE, result |-> Nil]

LostCounts == 0..LeaseLostLimit

WorkerState == [pc: {"idle", "claimed", "turn", "completing", "failing", "retiring"},
                run: RunIds \cup {Nil}, token: Nat, text: Texts \cup {Nil},
                outcome: {Nil, "ok", "busy", "error", "fatal"}, lost: LostCounts,
                attempts: Nat, errors: Nat]

IdleWorker == [pc |-> "idle", run |-> Nil, token |-> 0, text |-> Nil,
               outcome |-> Nil, lost |-> 0, attempts |-> 0, errors |-> 0]

DrainState == [pc: {"none", "beaten", "unlocked"}, run: RunIds \cup {Nil}, token: Nat]

NoDrain == [pc |-> "none", run |-> Nil, token |-> 0]

(* What reapExpired remembers of a row it selected; `retry` is !tooOld.    *)
Snapshot == [run: RunIds, token: Nat, attempts: Nat, errors: Nat, retry: BOOLEAN]

ReaperState == [pc: {"idle", "sweeping", "fenced", "unlocked"}, todo: SUBSET Snapshot,
                run: RunIds \cup {Nil}, token: Nat,
                attempts: Nat, errors: Nat, retry: BOOLEAN]

IdleReaper == [pc |-> "idle", todo |-> {}, run |-> Nil, token |-> 0,
               attempts |-> 0, errors |-> 0, retry |-> FALSE]

TypeOK ==
  /\ runs \in [RunIds -> Row]
  /\ worker \in [Workers -> WorkerState]
  /\ drain \in [Workers -> DrainState]
  /\ reaper \in [Reapers -> ReaperState]
  /\ handbacks \in Nat
  /\ stalls \in Nat
  /\ serial \in Nat

Init ==
  /\ runs = [r \in RunIds |-> NoRow]
  /\ worker = [w \in Workers |-> IdleWorker]
  /\ drain = [w \in Workers |-> NoDrain]
  /\ reaper = [p \in Reapers |-> IdleReaper]
  /\ handbacks = 0
  /\ stalls = 0
  /\ serial = 0

-----------------------------------------------------------------------------
(* What each statement makes of the row it inserts, updates or deletes.    *)

Submitted(s, k, x, n) ==
  [NoRow EXCEPT !.status = "pending", !.session = s, !.key = k, !.asked = k, !.text = x, !.seq = n]

Deleted == [NoRow EXCEPT !.status = "deleted"]

Edited(row, x) == [row EXCEPT !.text = x]

Claimed(row) ==
  [row EXCEPT !.status = "running", !.leases = @ + 1, !.token = row.leases + 1,
              !.lapsed = FALSE, !.due = {}, !.attempts = @ + 1]

Renewed(row) == [row EXCEPT !.lapsed = FALSE, !.due = {}]

HandedBack(row) == [row EXCEPT !.status = "pending", !.token = 0, !.lapsed = FALSE, !.due = {}]

(* Mutant of Completed: every outcome gives the key back.                  *)
CompletedKeyless(row, o) ==
  [row EXCEPT !.status = "done", !.result = o, !.token = 0, !.leases = 0,
              !.lapsed = FALSE, !.due = {}, !.key = Nil]

Completed(row, o) ==
  [row EXCEPT !.status = "done", !.result = o, !.token = 0, !.leases = 0,
              !.lapsed = FALSE, !.due = {}, !.key = IF o = "busy" THEN Nil ELSE @]

(* The two statements of retire.                                           *)
Requeued(row, counted) ==
  [row EXCEPT !.status = "pending", !.token = 0, !.lapsed = FALSE, !.due = {},
              !.errors = @ + counted, !.delayed = (counted > 0)]

Parked(row, counted) ==
  [row EXCEPT !.status = "failed", !.result = "failed", !.token = 0, !.leases = 0,
              !.lapsed = FALSE, !.due = {}, !.errors = @ + counted]

(* Mutants of Retired: each budget off by one.                             *)
RetiredLateError(row, counted, attempts, errors, retry) ==
  IF retry /\ errors + counted <= MaxAttempts /\ attempts < MaxClaims
  THEN Requeued(row, counted)
  ELSE Parked(row, counted)

(* retire: requeue or park, decided on the counters the caller read.       *)
Retired(row, counted, attempts, errors, retry) ==
  IF retry /\ errors + counted < MaxAttempts /\ attempts < MaxClaims
  THEN Requeued(row, counted)
  ELSE Parked(row, counted)

Fenced(row) ==
  [row EXCEPT !.leases = @ + 1, !.token = row.leases + 1, !.lapsed = FALSE, !.due = {}]

(* What the clock, and a sweep reading it, make of a row.                  *)

Overdue(row) == [row EXCEPT !.lapsed = TRUE]

Undelayed(row) == [row EXCEPT !.delayed = FALSE]

Seen(row, p) == [row EXCEPT !.due = @ \cup {p}]

Unseen(row, p) == [row EXCEPT !.due = @ \ {p}]

-----------------------------------------------------------------------------
(* The conditions of those statements.                                     *)

Exists(r) == runs[r].status \notin {"absent", "deleted"}

(* The row a statement with WHERE id AND lease_token AND status='running'  *)
(* would update.                                                           *)
Leased(r, t) == runs[r].token = t /\ runs[r].status = "running"

(* A process presents the token that the row carries now.                  *)

WorkerHolds(w, r) == worker[w].run = r /\ worker[w].token > 0 /\ worker[w].token = runs[r].token

ReaperHolds(p, r) == reaper[p].run = r /\ reaper[p].token > 0 /\ reaper[p].token = runs[r].token

(* Mutants of Eligible: the order forgotten; every pending sibling blocks. *)
EligibleAnyOrder(r) ==
  /\ runs[r].status = "pending"
  /\ ~runs[r].delayed
  /\ ~\E q \in RunIds :
        /\ runs[q].session = runs[r].session
        /\ runs[q].status = "running" \/ (runs[q].status = "pending" /\ runs[q].delayed)

(* claim's candidate: nothing of the session is running, delayed or        *)
(* earlier.  SKIP LOCKED lets concurrent claims take any candidate.        *)
Eligible(r) ==
  /\ runs[r].status = "pending"
  /\ ~runs[r].delayed
  /\ ~\E q \in RunIds :
        /\ runs[q].session = runs[r].session
        /\ \/ runs[q].status = "running"
           \/ runs[q].status = "pending" /\ (runs[q].delayed \/ runs[q].seq < runs[r].seq)

-----------------------------------------------------------------------------
(* Callers of the API.                                                     *)

Enqueue(r, s, k, x) ==
  /\ runs[r].status = "absent"
  /\ k # Nil => \A q \in RunIds : runs[q].key # k
  /\ runs' = [runs EXCEPT ![r] = Submitted(s, k, x, serial + 1)]
  /\ serial' = serial + 1
  /\ UNCHANGED <<worker, drain, reaper, handbacks, stalls>>

(* Mutant of EditPendingText: attempts = 0 forgotten.                      *)
EditRetriedText(r, x) ==
  /\ runs[r].status = "pending"
  /\ runs[r].text # x
  /\ runs' = [runs EXCEPT ![r] = Edited(@, x)]
  /\ UNCHANGED <<worker, drain, reaper, handbacks, stalls, serial>>

EditPendingText(r, x) ==
  /\ runs[r].status = "pending" /\ runs[r].attempts = 0
  /\ runs[r].text # x
  /\ runs' = [runs EXCEPT ![r] = Edited(@, x)]
  /\ UNCHANGED <<worker, drain, reaper, handbacks, stalls, serial>>

Withdraw(r, unstartedOnly) ==
  /\ runs[r].status = "pending"
  /\ unstartedOnly => runs[r].attempts = 0
  /\ runs' = [runs EXCEPT ![r] = Deleted]
  /\ UNCHANGED <<worker, drain, reaper, handbacks, stalls, serial>>

(* The queued run becomes a signal to a live run of the same thread.       *)
SteerQueued(q, target) ==
  /\ q # target
  /\ runs[target].status \in {"pending", "running"}
  /\ runs[q].status = "pending"
  /\ runs[q].session = runs[target].session
  /\ runs' = [runs EXCEPT ![q] = Deleted]
  /\ UNCHANGED <<worker, drain, reaper, handbacks, stalls, serial>>

-----------------------------------------------------------------------------
(* Workers: the loop of createWorker, and processRun.                      *)

Claim(w, r) ==
  /\ worker[w].pc = "idle"
  /\ Eligible(r)
  /\ runs' = [runs EXCEPT ![r] = Claimed(@)]
  /\ worker' = [worker EXCEPT ![w] = [IdleWorker EXCEPT
                  !.pc = "claimed", !.run = r, !.token = runs[r].leases + 1, !.text = runs[r].text]]
  /\ UNCHANGED <<drain, reaper, handbacks, stalls, serial>>

(* The loop saw stop (or lost canClaim) while the claim was in flight.     *)
HandBack(w) ==
  /\ worker[w].pc = "claimed"
  /\ handbacks < MaxHandbacks
  /\ IF Leased(worker[w].run, worker[w].token)
     THEN /\ runs' = [runs EXCEPT ![worker[w].run] = HandedBack(@)]
          /\ handbacks' = handbacks + 1
     ELSE UNCHANGED <<runs, handbacks>>
  /\ worker' = [worker EXCEPT ![w] = IdleWorker]
  /\ UNCHANGED <<drain, reaper, stalls, serial>>

StartTurn(w) ==
  /\ worker[w].pc = "claimed"
  /\ worker' = [worker EXCEPT ![w].pc = "turn"]
  /\ UNCHANGED <<runs, drain, reaper, handbacks, stalls, serial>>

(* One beat of the interval.                                               *)
Heartbeat(w) ==
  /\ worker[w].pc = "turn"
  /\ worker[w].lost < LeaseLostLimit
  /\ IF Leased(worker[w].run, worker[w].token)
     THEN /\ runs' = [runs EXCEPT ![worker[w].run] = Renewed(@)]
          /\ worker' = [worker EXCEPT ![w].lost = 0]
     ELSE /\ worker' = [worker EXCEPT ![w].lost = @ + 1]
          /\ UNCHANGED runs
  /\ UNCHANGED <<drain, reaper, handbacks, stalls, serial>>

(* A beat sent before stopBeat lands after it; nobody counts it any more.  *)
LateHeartbeat(w) ==
  /\ worker[w].pc \in {"completing", "failing", "retiring"}
  /\ Leased(worker[w].run, worker[w].token)
  /\ runs' = [runs EXCEPT ![worker[w].run] = Renewed(@)]
  /\ UNCHANGED <<worker, drain, reaper, handbacks, stalls, serial>>

(* The statement fails: the beat says nothing about the lease.             *)
HeartbeatError(w) ==
  /\ worker[w].pc = "turn"
  /\ worker[w].lost < LeaseLostLimit
  /\ worker' = [worker EXCEPT ![w].lost = 0]
  /\ UNCHANGED <<runs, drain, reaper, handbacks, stalls, serial>>

(* handleTurn returns a result (busy: refused as session_busy) or throws   *)
(* (fatal: NonRetryableTurnError).                                         *)
FinishTurn(w, o) ==
  /\ worker[w].pc = "turn"
  /\ worker' = [worker EXCEPT ![w].outcome = o, ![w].lost = 0,
                  ![w].pc = IF o \in {"ok", "busy"} THEN "completing" ELSE "failing"]
  /\ UNCHANGED <<runs, drain, reaper, handbacks, stalls, serial>>

(* Mutant of Complete: the token forgotten.                                *)
CompleteUnfenced(w) ==
  /\ worker[w].pc = "completing"
  /\ runs' = [runs EXCEPT ![worker[w].run] = Completed(@, worker[w].outcome)]
  /\ worker' = [worker EXCEPT ![w] = IdleWorker]
  /\ UNCHANGED <<drain, reaper, handbacks, stalls, serial>>

(* complete() has no status condition: the token alone decides.            *)
Complete(w) ==
  /\ worker[w].pc = "completing"
  /\ IF runs[worker[w].run].token = worker[w].token
     THEN /\ runs' = [runs EXCEPT ![worker[w].run] = Completed(@, worker[w].outcome)]
          /\ worker' = [worker EXCEPT ![w] = IdleWorker]
     ELSE /\ worker' = [worker EXCEPT ![w].pc = "failing", ![w].outcome = "error"]
          /\ UNCHANGED runs
  /\ UNCHANGED <<drain, reaper, handbacks, stalls, serial>>

(* The statement fails, or succeeds and its reply is lost.                 *)
CompleteError(w) ==
  /\ worker[w].pc = "completing"
  /\ \/ UNCHANGED runs
     \/ /\ runs[worker[w].run].token = worker[w].token
        /\ runs' = [runs EXCEPT ![worker[w].run] = Completed(@, worker[w].outcome)]
  /\ worker' = [worker EXCEPT ![w].pc = "failing", ![w].outcome = "error"]
  /\ UNCHANGED <<drain, reaper, handbacks, stalls, serial>>

(* fail(): getRun, then retire in a second statement.                      *)
FailRead(w) ==
  /\ worker[w].pc = "failing"
  /\ LET r == worker[w].run IN
     worker' = [worker EXCEPT ![w] =
       IF Exists(r) /\ runs[r].token = worker[w].token
       THEN [@ EXCEPT !.pc = "retiring", !.attempts = runs[r].attempts, !.errors = runs[r].errors]
       ELSE IdleWorker]
  /\ UNCHANGED <<runs, drain, reaper, handbacks, stalls, serial>>

FailRetire(w) ==
  /\ worker[w].pc = "retiring"
  /\ LET me == worker[w] IN
     runs' = IF Leased(me.run, me.token)
             THEN [runs EXCEPT ![me.run] = Retired(@, 1, me.attempts, me.errors, me.outcome = "error")]
             ELSE runs
  /\ worker' = [worker EXCEPT ![w] = IdleWorker]
  /\ UNCHANGED <<drain, reaper, handbacks, stalls, serial>>

(* The process dies, or a statement of the failure path throws.            *)
WorkerCrash(w) ==
  /\ worker[w].pc # "idle"
  /\ worker' = [worker EXCEPT ![w] = IdleWorker]
  /\ UNCHANGED <<runs, drain, reaper, handbacks, stalls, serial>>

-----------------------------------------------------------------------------
(* releaseInFlight: beat, release the session's write lock, hand back.  It *)
(* runs beside processRun, on the lease it saw when it started.            *)

DrainBeat(w) ==
  /\ drain[w].pc = "none"
  /\ worker[w].pc \notin {"idle", "claimed"}
  /\ handbacks < MaxHandbacks
  /\ Leased(worker[w].run, worker[w].token)
  /\ runs' = [runs EXCEPT ![worker[w].run] = Renewed(@)]
  /\ drain' = [drain EXCEPT ![w] = [pc |-> "beaten", run |-> worker[w].run, token |-> worker[w].token]]
  /\ UNCHANGED <<worker, reaper, handbacks, stalls, serial>>

DrainUnlock(w) ==
  /\ drain[w].pc = "beaten"
  /\ drain' = [drain EXCEPT ![w].pc = "unlocked"]
  /\ UNCHANGED <<runs, worker, reaper, handbacks, stalls, serial>>

DrainRelease(w) ==
  /\ drain[w].pc = "unlocked"
  /\ handbacks < MaxHandbacks
  /\ IF Leased(drain[w].run, drain[w].token)
     THEN /\ runs' = [runs EXCEPT ![drain[w].run] = HandedBack(@)]
          /\ handbacks' = handbacks + 1
     ELSE UNCHANGED <<runs, handbacks>>
  /\ drain' = [drain EXCEPT ![w] = NoDrain]
  /\ UNCHANGED <<worker, reaper, stalls, serial>>

DrainError(w) ==
  /\ drain[w].pc # "none"
  /\ drain' = [drain EXCEPT ![w] = NoDrain]
  /\ UNCHANGED <<runs, worker, reaper, handbacks, stalls, serial>>

-----------------------------------------------------------------------------
(* reapExpired: select the lapsed rows, then for each one take its lease   *)
(* with a fence token, release the session's write lock, retire the run.   *)

Expired == {r \in RunIds : runs[r].status = "running" /\ runs[r].lapsed}

SnapshotOf(r, retry) == [run |-> r, token |-> runs[r].token, attempts |-> runs[r].attempts,
                         errors |-> runs[r].errors, retry |-> retry]

SweepPc(todo) == IF todo = {} THEN "idle" ELSE "sweeping"

(* `old` are the runs past the age cap at the scan.                        *)
ReapScan(p, old) ==
  /\ reaper[p].pc = "idle"
  /\ Expired # {}
  /\ old \subseteq Expired
  /\ reaper' = [reaper EXCEPT ![p] = [IdleReaper EXCEPT
                  !.pc = "sweeping", !.todo = {SnapshotOf(r, r \notin old) : r \in Expired}]]
  /\ runs' = [r \in RunIds |-> IF r \in Expired THEN Seen(runs[r], p) ELSE runs[r]]
  /\ UNCHANGED <<worker, drain, handbacks, stalls, serial>>

(* Mutants of ReapFence: the dead worker's token stays valid; the lease    *)
(* taken is not the one the scan saw.                                      *)
ReapFenceShared(p, s) ==
  /\ reaper[p].pc = "sweeping"
  /\ s \in reaper[p].todo
  /\ Leased(s.run, s.token) /\ p \in runs[s.run].due
  /\ runs' = [runs EXCEPT ![s.run] = Renewed(@)]
  /\ reaper' = [reaper EXCEPT ![p] =
       [pc |-> "fenced", todo |-> @.todo \ {s}, run |-> s.run, token |-> s.token,
        attempts |-> s.attempts, errors |-> s.errors, retry |-> s.retry]]
  /\ UNCHANGED <<worker, drain, handbacks, stalls, serial>>

ReapFence(p, s) ==
  /\ reaper[p].pc = "sweeping"
  /\ s \in reaper[p].todo
  /\ Leased(s.run, s.token) /\ p \in runs[s.run].due
  /\ runs' = [runs EXCEPT ![s.run] = Fenced(@)]
  /\ reaper' = [reaper EXCEPT ![p] =
       [pc |-> "fenced", todo |-> @.todo \ {s}, run |-> s.run, token |-> runs[s.run].leases + 1,
        attempts |-> s.attempts, errors |-> s.errors, retry |-> s.retry]]
  /\ UNCHANGED <<worker, drain, handbacks, stalls, serial>>

ReapSkip(p, s) ==
  /\ reaper[p].pc = "sweeping"
  /\ s \in reaper[p].todo
  /\ ~(Leased(s.run, s.token) /\ p \in runs[s.run].due)
  /\ reaper' = [reaper EXCEPT ![p].todo = @ \ {s}, ![p].pc = SweepPc(reaper[p].todo \ {s})]
  /\ UNCHANGED <<runs, worker, drain, handbacks, stalls, serial>>

(* onRetired: releaseStrandedSessionLeases.                                *)
ReapUnlock(p) ==
  /\ reaper[p].pc = "fenced"
  /\ reaper' = [reaper EXCEPT ![p].pc = "unlocked"]
  /\ UNCHANGED <<runs, worker, drain, handbacks, stalls, serial>>

ReapRetire(p) ==
  /\ reaper[p].pc = "unlocked"
  /\ LET me == reaper[p] IN
     /\ runs' = IF Leased(me.run, me.token)
                THEN [runs EXCEPT ![me.run] = Retired(@, 0, me.attempts, me.errors, me.retry)]
                ELSE runs
     /\ reaper' = [reaper EXCEPT ![p] = [IdleReaper EXCEPT !.pc = SweepPc(me.todo), !.todo = me.todo]]
  /\ UNCHANGED <<worker, drain, handbacks, stalls, serial>>

(* The process dies, or onRetired or a statement throws: the sweep ends.   *)
ReaperCrash(p) ==
  /\ reaper[p].pc # "idle"
  /\ stalls < MaxStalls
  /\ stalls' = stalls + 1
  /\ reaper' = [reaper EXCEPT ![p] = IdleReaper]
  /\ runs' = [r \in RunIds |-> IF runs[r].status = "running" THEN Unseen(runs[r], p) ELSE runs[r]]
  /\ UNCHANGED <<worker, drain, handbacks, serial>>

-----------------------------------------------------------------------------
(* The clock passes lease_expires_at, or retry_after.                      *)

Lapse(r) ==
  /\ runs[r].status = "running" /\ ~runs[r].lapsed
  /\ ~\E p \in Reapers : ReaperHolds(p, r)
  /\ runs' = [runs EXCEPT ![r] = Overdue(@)]
  /\ UNCHANGED <<worker, drain, reaper, handbacks, stalls, serial>>

(* A reaper is still at work on the run when its fence runs out.           *)
FenceLapse(r) ==
  /\ runs[r].status = "running" /\ ~runs[r].lapsed
  /\ \E p \in Reapers : ReaperHolds(p, r)
  /\ stalls < MaxStalls
  /\ stalls' = stalls + 1
  /\ runs' = [runs EXCEPT ![r] = Overdue(@)]
  /\ UNCHANGED <<worker, drain, reaper, handbacks, serial>>

DelayOver(r) ==
  /\ runs[r].status = "pending" /\ runs[r].delayed
  /\ runs' = [runs EXCEPT ![r] = Undelayed(@)]
  /\ UNCHANGED <<worker, drain, reaper, handbacks, stalls, serial>>

-----------------------------------------------------------------------------
ApiStep ==
  \/ \E r \in RunIds, s \in Sessions, k \in Keys \cup {Nil}, x \in Texts : Enqueue(r, s, k, x)
  \/ \E r \in RunIds, x \in Texts : EditPendingText(r, x)
  \/ \E r \in RunIds, unstartedOnly \in BOOLEAN : Withdraw(r, unstartedOnly)
  \/ \E q, target \in RunIds : SteerQueued(q, target)

ClaimStep(w) == \E r \in RunIds : Claim(w, r)

TurnEnds(w) == \E o \in {"ok", "busy", "error", "fatal"} : FinishTurn(w, o)

WorkerStep(w) ==
  \/ ClaimStep(w)
  \/ HandBack(w)
  \/ StartTurn(w)
  \/ Heartbeat(w)
  \/ LateHeartbeat(w)
  \/ HeartbeatError(w)
  \/ TurnEnds(w)
  \/ Complete(w)
  \/ CompleteError(w)
  \/ FailRead(w)
  \/ FailRetire(w)
  \/ WorkerCrash(w)

DrainStep(w) == DrainBeat(w) \/ DrainUnlock(w) \/ DrainRelease(w) \/ DrainError(w)

SweepStep(p) ==
  \/ \E old \in SUBSET RunIds : ReapScan(p, old)
  \/ \E s \in reaper[p].todo : ReapFence(p, s) \/ ReapSkip(p, s)
  \/ ReapUnlock(p)
  \/ ReapRetire(p)

ClockStep(r) == Lapse(r) \/ FenceLapse(r) \/ DelayOver(r)

Next ==
  \/ ApiStep
  \/ \E w \in Workers : WorkerStep(w) \/ DrainStep(w)
  \/ \E p \in Reapers : SweepStep(p) \/ ReaperCrash(p)
  \/ \E r \in RunIds : ClockStep(r)

Spec == Init /\ [][Next]_vars

(* Workers keep polling and finish what they start, one reaper keeps       *)
(* sweeping, and the clock moves on.  Crashes, beats, drains and API calls *)
(* are not required to happen.                                             *)
Fairness ==
  /\ \A w \in Workers :
       /\ WF_vars(ClaimStep(w))
       /\ WF_vars(StartTurn(w))
       /\ WF_vars(TurnEnds(w))
       /\ WF_vars(Complete(w))
       /\ WF_vars(FailRead(w))
       /\ WF_vars(FailRetire(w))
  /\ \A p \in Reapers : WF_vars(SweepStep(p))
  /\ \A r \in RunIds : WF_vars(Lapse(r)) /\ WF_vars(DelayOver(r))

FairSpec == Spec /\ Fairness

-----------------------------------------------------------------------------
(* A run is in the hands of one process at a time: whatever stalled, was   *)
(* reaped or was handed back, no two of the workers and reapers hold a     *)
(* token that a heartbeat, complete, fail or retire would still accept for *)
(* the same run.                                                           *)
LeaseExclusive ==
  \A r \in RunIds :
    /\ \A v, w \in Workers : WorkerHolds(v, r) /\ WorkerHolds(w, r) => v = w
    /\ \A p, q \in Reapers : ReaperHolds(p, r) /\ ReaperHolds(q, r) => p = q
    /\ \A w \in Workers, p \in Reapers : ~(WorkerHolds(w, r) /\ ReaperHolds(p, r))

(* A session's runs execute one at a time and in the order they were sent: *)
(* while a run executes, every other unfinished run of its session is      *)
(* pending and was enqueued later, through retries, hand-backs and reaps.  *)
SessionFifo ==
  \A r, q \in RunIds :
    (/\ r # q
     /\ runs[r].status = "running"
     /\ runs[q].status \in {"pending", "running"}
     /\ runs[q].session = runs[r].session)
    => runs[q].status = "pending" /\ runs[r].seq < runs[q].seq

(* retire decides on counters read by an earlier statement; while its      *)
(* token is still the row's, those counters are the row's.                 *)
SnapshotsCurrent ==
  /\ \A w \in Workers :
       (worker[w].pc = "retiring" /\ worker[w].token = runs[worker[w].run].token)
       => /\ worker[w].attempts = runs[worker[w].run].attempts
          /\ worker[w].errors = runs[worker[w].run].errors
  /\ \A p \in Reapers :
       /\ (reaper[p].pc \in {"fenced", "unlocked"} /\ reaper[p].token = runs[reaper[p].run].token)
          => /\ reaper[p].attempts = runs[reaper[p].run].attempts
             /\ reaper[p].errors = runs[reaper[p].run].errors
       /\ \A s \in reaper[p].todo :
            s.token = runs[s.run].token
            => s.attempts = runs[s.run].attempts /\ s.errors = runs[s.run].errors

(* No run that may still execute has used up its error budget, although    *)
(* fail() reads the budget and spends it in separate statements.           *)
ErrorBudget ==
  \A r \in RunIds :
    /\ runs[r].status \in {"pending", "running"} => runs[r].errors < MaxAttempts
    /\ runs[r].errors <= MaxAttempts

(* A run that keeps killing its workers is claimed at most MaxClaims       *)
(* times, plus once for every lease handed back by a drain.                *)
ClaimBudget ==
  \A r \in RunIds : runs[r].attempts <= MaxClaims + handbacks

(* Two submissions with one idempotency key never both succeed, although   *)
(* a refused, withdrawn or steered run gives its key back.                 *)
OneSuccessPerKey ==
  \A r, q \in RunIds :
    (/\ r # q
     /\ runs[r].asked # Nil /\ runs[r].asked = runs[q].asked)
    => ~(runs[r].result = "ok" /\ runs[q].result = "ok")

(* An edit never changes a message under an attempt: every process that    *)
(* still executes a run, even one whose lease is gone, executes the text   *)
(* the row shows.                                                          *)
TextAgrees ==
  \A w \in Workers :
    worker[w].pc # "idle" /\ Exists(worker[w].run) => worker[w].text = runs[worker[w].run].text

(* Beats are counted as lost, and the turn cancelled, only when the lease  *)
(* is really gone.                                                         *)
LostMeansLost ==
  \A w \in Workers : worker[w].lost > 0 => ~WorkerHolds(w, worker[w].run)

(* A finished run stays as it finished, whichever late complete, fail,     *)
(* hand-back or reap arrives.                                              *)
TerminalIsFinal ==
  [][\A r \in RunIds :
       runs[r].status \in Terminal => runs'[r] = runs[r]]_vars

(* Every accepted run is eventually finished or withdrawn, whatever the    *)
(* workers that claim it do.                                               *)
EventuallySettled ==
  \A r \in RunIds :
    runs[r].status \in {"pending", "running"} ~> runs[r].status \in Terminal \cup {"deleted"}

-----------------------------------------------------------------------------
(* The abstract state a row stands for.                                    *)

RunState(r) ==
  CASE runs[r].status = "absent" -> "unknown"
    [] runs[r].status = "pending" -> "waiting"
    [] runs[r].status = "running" -> "executing"
    [] runs[r].status = "deleted" -> "withdrawn"
    [] OTHER -> runs[r].result

Queue == INSTANCE SessionQueue WITH
  state   <- [r \in RunIds |-> RunState(r)],
  session <- [r \in RunIds |-> runs[r].session],
  ticket  <- [r \in RunIds |-> runs[r].seq],
  issued  <- serial

(* The table, its workers, drains and reapers implement a line per session *)
(* of which only the head executes; a reap, a retry or a hand-back puts    *)
(* the run back in its old place, and late statements change nothing.      *)
ImplementsSessionQueue == Queue!Spec
=============================================================================
