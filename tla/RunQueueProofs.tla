--------------------------- MODULE RunQueueProofs ---------------------------
(***************************************************************************)
(* Proofs about RunQueue, for any sets of runs, sessions, keys, texts,     *)
(* workers and reapers and any budgets.                                    *)
(*                                                                         *)
(* The argument goes through the table.  TableStep lists the changes a     *)
(* step may make to it, and NextTableStep shows that no process makes      *)
(* another.  The invariants of the table, the order of a session and the   *)
(* refinement follow from TableStep alone; those about tokens and          *)
(* snapshots also look at the processes that remember them.                *)
(***************************************************************************)
EXTENDS RunQueue, TLAPS

-----------------------------------------------------------------------------
(* What each statement does to a row, and type correctness.                *)

(* The fields that only the clock and the sweeps look at aside, two rows   *)
(* agree.                                                                  *)
Same(row, new) ==
  /\ new.status = row.status /\ new.session = row.session /\ new.key = row.key
  /\ new.asked = row.asked /\ new.text = row.text /\ new.seq = row.seq
  /\ new.attempts = row.attempts /\ new.errors = row.errors
  /\ new.leases = row.leases /\ new.token = row.token /\ new.result = row.result

(* The same for a row that changes its status.                             *)
SameRun(row, new) ==
  /\ new.session = row.session /\ new.asked = row.asked /\ new.seq = row.seq

SameCounts(row, new) == new.attempts = row.attempts /\ new.errors = row.errors

SubmittedAs(new, s, k, n) ==
  /\ new.status = "pending" /\ new.session = s /\ new.key = k /\ new.asked = k /\ new.seq = n
  /\ new.token = 0 /\ new.leases = 0 /\ new.attempts = 0 /\ new.errors = 0 /\ new.result = Nil

DeletedAs(new) ==
  /\ new.status = "deleted" /\ new.session = Nil /\ new.key = Nil /\ new.asked = Nil /\ new.seq = 0
  /\ new.token = 0 /\ new.leases = 0 /\ new.attempts = 0 /\ new.errors = 0 /\ new.result = Nil

EditedTo(row, new) ==
  /\ SameRun(row, new) /\ SameCounts(row, new)
  /\ new.status = row.status /\ new.key = row.key /\ new.result = row.result
  /\ new.leases = row.leases /\ new.token = row.token

ClaimedTo(row, new) ==
  /\ SameRun(row, new)
  /\ new.status = "running" /\ new.key = row.key /\ new.result = row.result /\ new.text = row.text
  /\ new.leases = row.leases + 1 /\ new.token = row.leases + 1
  /\ new.attempts = row.attempts + 1 /\ new.errors = row.errors

HandedBackTo(row, new) ==
  /\ SameRun(row, new) /\ SameCounts(row, new)
  /\ new.status = "pending" /\ new.key = row.key /\ new.result = row.result /\ new.text = row.text
  /\ new.leases = row.leases /\ new.token = 0

RequeuedTo(row, new, counted) ==
  /\ SameRun(row, new)
  /\ new.status = "pending" /\ new.key = row.key /\ new.result = row.result /\ new.text = row.text
  /\ new.leases = row.leases /\ new.token = 0
  /\ new.attempts = row.attempts /\ new.errors = row.errors + counted

ParkedTo(row, new, counted) ==
  /\ SameRun(row, new)
  /\ new.status = "failed" /\ new.key = row.key /\ new.result = "failed" /\ new.text = row.text
  /\ new.leases = 0 /\ new.token = 0
  /\ new.attempts = row.attempts /\ new.errors = row.errors + counted

CompletedTo(row, new, o) ==
  /\ SameRun(row, new) /\ SameCounts(row, new)
  /\ new.status = "done" /\ new.result = o /\ new.text = row.text
  /\ new.key = IF o = "busy" THEN Nil ELSE row.key
  /\ new.leases = 0 /\ new.token = 0

FencedTo(row, new) ==
  /\ SameRun(row, new) /\ SameCounts(row, new)
  /\ new.status = row.status /\ new.key = row.key /\ new.result = row.result /\ new.text = row.text
  /\ new.leases = row.leases + 1 /\ new.token = row.leases + 1

LEMMA SubmittedRow ==
  ASSUME NEW s \in Sessions, NEW k \in Keys \cup {Nil}, NEW x \in Texts, NEW n \in Nat
  PROVE  Submitted(s, k, x, n) \in Row /\ SubmittedAs(Submitted(s, k, x, n), s, k, n)
  BY ZenonT(40) DEF Submitted, SubmittedAs, NoRow, Row, Statuses

LEMMA DeletedRow == Deleted \in Row /\ DeletedAs(Deleted)
  BY ZenonT(40) DEF Deleted, DeletedAs, NoRow, Row, Statuses

LEMMA EditedRow ==
  ASSUME NEW row \in Row, NEW x \in Texts
  PROVE  Edited(row, x) \in Row /\ EditedTo(row, Edited(row, x))
<1>1. Edited(row, x) \in Row
  BY DEF Edited, Row
<1> QED
  BY <1>1 DEF Edited, EditedTo, Row, SameRun, SameCounts

LEMMA ClaimedRow ==
  ASSUME NEW row \in Row
  PROVE  Claimed(row) \in Row /\ ClaimedTo(row, Claimed(row))
<1>1. row.leases + 1 \in Nat /\ row.attempts + 1 \in Nat
  BY DEF Row
<1>2. \A n, m \in Nat :
        [row EXCEPT !.status = "running", !.leases = n, !.token = n,
                    !.lapsed = FALSE, !.due = {}, !.attempts = m] \in Row
  BY ZenonT(40) DEF Row, Statuses
<1>3. Claimed(row) \in Row
  BY <1>1, <1>2, ZenonT(40) DEF Claimed
<1> QED
  BY <1>3 DEF Row, Claimed, ClaimedTo, SameRun

LEMMA HandedBackRow ==
  ASSUME NEW row \in Row
  PROVE  HandedBack(row) \in Row /\ HandedBackTo(row, HandedBack(row))
<1>1. HandedBack(row) \in Row
  BY ZenonT(40) DEF HandedBack, Row, Statuses
<1> QED
  BY <1>1 DEF HandedBack, HandedBackTo, Row, SameRun, SameCounts

LEMMA CompletedRow ==
  ASSUME NEW row \in Row, NEW o \in {"ok", "busy"}
  PROVE  Completed(row, o) \in Row /\ CompletedTo(row, Completed(row, o), o)
<1>1. \A k \in Keys \cup {Nil} :
        [row EXCEPT !.status = "done", !.result = o, !.token = 0, !.leases = 0,
                    !.lapsed = FALSE, !.due = {}, !.key = k] \in Row
  BY ZenonT(40) DEF Row, Statuses
<1>2. (IF o = "busy" THEN Nil ELSE row.key) \in Keys \cup {Nil}
  BY DEF Row
<1>3. Completed(row, o) \in Row
  BY <1>1, <1>2, ZenonT(40) DEF Completed
<1> QED
  BY <1>3 DEF Completed, CompletedTo, Row, SameRun, SameCounts

LEMMA RequeuedRow ==
  ASSUME NEW row \in Row, NEW counted \in {0, 1}
  PROVE  Requeued(row, counted) \in Row /\ RequeuedTo(row, Requeued(row, counted), counted)
<1>1. row.errors + counted \in Nat /\ (counted > 0) \in BOOLEAN
  BY DEF Row
<1>2. \A n \in Nat, b \in BOOLEAN :
        [row EXCEPT !.status = "pending", !.token = 0, !.lapsed = FALSE, !.due = {},
                    !.errors = n, !.delayed = b] \in Row
  BY ZenonT(40) DEF Row, Statuses
<1>3. Requeued(row, counted) \in Row
  BY <1>1, <1>2, ZenonT(40) DEF Requeued
<1> QED
  BY <1>3 DEF Requeued, RequeuedTo, Row, SameRun

LEMMA ParkedRow ==
  ASSUME NEW row \in Row, NEW counted \in {0, 1}
  PROVE  Parked(row, counted) \in Row /\ ParkedTo(row, Parked(row, counted), counted)
<1>1. row.errors + counted \in Nat
  BY DEF Row
<1>2. \A n \in Nat :
        [row EXCEPT !.status = "failed", !.result = "failed", !.token = 0, !.leases = 0,
                    !.lapsed = FALSE, !.due = {}, !.errors = n] \in Row
  BY ZenonT(40) DEF Row, Statuses
<1>3. Parked(row, counted) \in Row
  BY <1>1, <1>2, ZenonT(40) DEF Parked
<1> QED
  BY <1>3 DEF Parked, ParkedTo, Row, SameRun

LEMMA FencedRow ==
  ASSUME NEW row \in Row
  PROVE  Fenced(row) \in Row /\ FencedTo(row, Fenced(row))
<1>1. row.leases + 1 \in Nat
  BY DEF Row
<1>2. \A n \in Nat :
        [row EXCEPT !.leases = n, !.token = n, !.lapsed = FALSE, !.due = {}] \in Row
  BY ZenonT(40) DEF Row
<1>3. Fenced(row) \in Row
  BY <1>1, <1>2, ZenonT(40) DEF Fenced
<1> QED
  BY <1>3 DEF Fenced, FencedTo, Row, SameRun, SameCounts

LEMMA ClockRow ==
  ASSUME NEW row \in Row
  PROVE  /\ Renewed(row) \in Row /\ Same(row, Renewed(row))
         /\ Overdue(row) \in Row /\ Same(row, Overdue(row))
         /\ Undelayed(row) \in Row /\ Same(row, Undelayed(row))
<1>1. Renewed(row) \in Row /\ Same(row, Renewed(row))
  BY ZenonT(40) DEF Renewed, Row, Same
<1>2. Overdue(row) \in Row /\ Same(row, Overdue(row))
  BY ZenonT(40) DEF Overdue, Row, Same
<1>3. Undelayed(row) \in Row /\ Same(row, Undelayed(row))
  BY ZenonT(40) DEF Undelayed, Row, Same
<1> QED
  BY <1>1, <1>2, <1>3

LEMMA SweptRow ==
  ASSUME NEW row \in Row, NEW p \in Reapers
  PROVE  /\ Seen(row, p) \in Row /\ Same(row, Seen(row, p))
         /\ Unseen(row, p) \in Row /\ Same(row, Unseen(row, p))
<1>1. Seen(row, p) \in Row /\ Same(row, Seen(row, p))
  BY DEF Seen, Row, Same
<1>2. Unseen(row, p) \in Row /\ Same(row, Unseen(row, p))
  BY DEF Unseen, Row, Same
<1> QED
  BY <1>1, <1>2

LEMMA RetiredRow ==
  ASSUME NEW row \in Row, NEW counted \in {0, 1}, NEW attempts, NEW errors, NEW retry
  PROVE  Retired(row, counted, attempts, errors, retry) \in Row
  BY RequeuedRow, ParkedRow DEF Retired

-----------------------------------------------------------------------------
(* Type correctness.                                                       *)

(* A worker or a drain at work has a run, and a turn that is being         *)
(* completed returned a result.                                            *)
AtWork ==
  \A w \in Workers :
    /\ worker[w].pc # "idle" => worker[w].run \in RunIds
    /\ drain[w].pc # "none" => drain[w].run \in RunIds
    /\ worker[w].pc = "completing" => worker[w].outcome \in {"ok", "busy"}

LEMMA InitTypeOK == Init => TypeOK /\ AtWork
<1> SUFFICES ASSUME Init PROVE TypeOK /\ AtWork
  OBVIOUS
<1>1. NoRow \in Row
  BY DEF NoRow, Row, Statuses
<1>2. 0 \in LostCounts
  BY BoundAssumption DEF LostCounts
<1>3. IdleWorker \in WorkerState
  BY <1>2 DEF IdleWorker, WorkerState
<1>4. NoDrain \in DrainState /\ IdleReaper \in ReaperState
  BY DEF NoDrain, DrainState, IdleReaper, ReaperState
<1>5. TypeOK
  BY <1>1, <1>3, <1>4 DEF Init, TypeOK
<1>6. AtWork
  BY DEF Init, IdleWorker, NoDrain, AtWork
<1> QED
  BY <1>5, <1>6

LEMMA NextAtWork == TypeOK /\ AtWork /\ [Next]_vars => AtWork'
<1> SUFFICES ASSUME TypeOK, AtWork, [Next]_vars PROVE AtWork'
  OBVIOUS
<1>1. ASSUME NEW w \in Workers, WorkerStep(w) PROVE AtWork'
  <2>1. worker \in [Workers -> WorkerState]
    BY DEF TypeOK
  <2>2. ASSUME NEW r \in RunIds, Claim(w, r) PROVE AtWork'
    BY <2>1, <2>2 DEF Claim, IdleWorker, AtWork
  <2>3. CASE HandBack(w) \/ WorkerCrash(w) \/ FailRetire(w)
    BY <2>1, <2>3 DEF HandBack, WorkerCrash, FailRetire, IdleWorker, AtWork
  <2>4. CASE StartTurn(w) \/ CompleteError(w)
    BY <2>1, <2>4 DEF StartTurn, CompleteError, WorkerState, AtWork
  <2>5. CASE Heartbeat(w) \/ LateHeartbeat(w) \/ HeartbeatError(w)
    BY <2>1, <2>5 DEF Heartbeat, LateHeartbeat, HeartbeatError, WorkerState, AtWork
  <2>6. ASSUME NEW o \in {"ok", "busy", "error", "fatal"}, FinishTurn(w, o) PROVE AtWork'
    BY <2>1, <2>6 DEF FinishTurn, WorkerState, AtWork
  <2>7. CASE Complete(w)
    BY <2>1, <2>7 DEF Complete, IdleWorker, WorkerState, AtWork
  <2>8. CASE FailRead(w)
    BY <2>1, <2>8 DEF FailRead, IdleWorker, WorkerState, AtWork
  <2> QED  BY <1>1, <2>2, <2>3, <2>4, <2>5, <2>6, <2>7, <2>8 DEF WorkerStep, ClaimStep, TurnEnds
<1>2. CASE UNCHANGED <<worker, drain>>
  BY <1>2 DEF AtWork
<1>3. ASSUME NEW w \in Workers, DrainStep(w) PROVE AtWork'
  <2>1. drain \in [Workers -> DrainState] /\ UNCHANGED worker
    BY <1>3 DEF TypeOK, DrainStep, DrainBeat, DrainUnlock, DrainRelease, DrainError
  <2> QED  BY <1>3, <2>1 DEF DrainStep, DrainBeat, DrainUnlock, DrainRelease, DrainError, DrainState,
             NoDrain, AtWork
<1>4. CASE ApiStep
  BY <1>2, <1>4, SMTT(30) DEF ApiStep, Enqueue, EditPendingText, Withdraw, SteerQueued
<1>5. CASE \E p \in Reapers : SweepStep(p) \/ ReaperCrash(p)
  BY <1>2, <1>5, ZenonT(40)
  DEF SweepStep, ReapScan, ReapFence, ReapSkip, ReapUnlock, ReapRetire, ReaperCrash
<1>6. CASE \E r \in RunIds : ClockStep(r)
  BY <1>2, <1>6 DEF ClockStep, Lapse, FenceLapse, DelayOver
<1> QED  BY <1>1, <1>2, <1>3, <1>4, <1>5, <1>6 DEF Next, vars

LEMMA NextTypeOK == TypeOK /\ AtWork /\ [Next]_vars => TypeOK'
<1> SUFFICES ASSUME TypeOK, AtWork, [Next]_vars PROVE TypeOK'
  OBVIOUS
<1> USE DEF TypeOK
<1>a. 0 \in LostCounts /\ \A n \in LostCounts : n < LeaseLostLimit => n + 1 \in LostCounts
  BY BoundAssumption DEF LostCounts
<1>b. IdleWorker \in WorkerState
  BY <1>a DEF IdleWorker, WorkerState
<1>c. NoDrain \in DrainState
  BY DEF NoDrain, DrainState
<1>d. IdleReaper \in ReaperState
  BY DEF IdleReaper, ReaperState
<1>e. \A w \in Workers : /\ worker[w].run \in RunIds \cup {Nil}
                         /\ worker[w].token \in Nat
                         /\ worker[w].lost \in LostCounts
  BY DEF WorkerState
<1>f. \A r \in RunIds : /\ runs[r].leases + 1 \in Nat /\ runs[r].token \in Nat
                        /\ runs[r].attempts \in Nat /\ runs[r].errors \in Nat
                        /\ runs[r].text \in Texts \cup {Nil}
  BY DEF Row
<1>g. serial + 1 \in Nat /\ handbacks + 1 \in Nat /\ stalls + 1 \in Nat
  OBVIOUS
<1>1. CASE ApiStep
  <2>1. ASSUME NEW r \in RunIds, NEW s \in Sessions, NEW k \in Keys \cup {Nil}, NEW x \in Texts,
               Enqueue(r, s, k, x)
        PROVE  TypeOK'
    BY <2>1, <1>g, SubmittedRow, ZenonT(40) DEF Enqueue
  <2>2. ASSUME NEW r \in RunIds, NEW x \in Texts, EditPendingText(r, x) PROVE TypeOK'
    BY <2>2, EditedRow DEF EditPendingText
  <2>3. ASSUME NEW r \in RunIds, NEW unstartedOnly \in BOOLEAN, Withdraw(r, unstartedOnly) PROVE TypeOK'
    BY <2>3, DeletedRow DEF Withdraw
  <2>4. ASSUME NEW q \in RunIds, NEW target \in RunIds, SteerQueued(q, target) PROVE TypeOK'
    BY <2>4, DeletedRow, SMTT(30) DEF SteerQueued
  <2> QED  BY <1>1, <2>1, <2>2, <2>3, <2>4, ZenonT(40) DEF ApiStep
<1>2. ASSUME NEW w \in Workers, WorkerStep(w) PROVE TypeOK'
  <2>1. ASSUME NEW r \in RunIds, Claim(w, r) PROVE TypeOK'
    <3>1. \A n \in Nat, x \in Texts \cup {Nil} :
            [IdleWorker EXCEPT !.pc = "claimed", !.run = r, !.token = n, !.text = x] \in WorkerState
      BY <1>a, ZenonT(40) DEF IdleWorker, WorkerState
    <3> QED  BY <2>1, <3>1, <1>f, ClaimedRow, ZenonT(40) DEF Claim
  <2>2. CASE HandBack(w)
    BY <2>2, <1>b, HandedBackRow DEF HandBack
  <2>3. CASE StartTurn(w)
    <3>1. [worker[w] EXCEPT !.pc = "turn"] \in WorkerState
      BY DEF WorkerState
    <3> QED  BY <2>3, <3>1 DEF StartTurn
  <2>4. CASE Heartbeat(w)
    <3>1. \A n \in LostCounts : [worker[w] EXCEPT !.lost = n] \in WorkerState
      BY DEF WorkerState
    <3> QED  BY <2>4, <3>1, <1>a, <1>e, ClockRow DEF Heartbeat
  <2>5. CASE LateHeartbeat(w)
    BY <2>5, ClockRow, ZenonT(40) DEF LateHeartbeat
  <2>6. CASE HeartbeatError(w)
    <3>1. \A n \in LostCounts : [worker[w] EXCEPT !.lost = n] \in WorkerState
      BY DEF WorkerState
    <3> QED  BY <2>6, <3>1, <1>a DEF HeartbeatError
  <2>7. ASSUME NEW o \in {"ok", "busy", "error", "fatal"}, FinishTurn(w, o) PROVE TypeOK'
    <3>1. \A pc \in {"completing", "failing"}, n \in LostCounts :
            [worker[w] EXCEPT !.outcome = o, !.lost = n, !.pc = pc] \in WorkerState
      BY ZenonT(40) DEF WorkerState
    <3> QED  BY <2>7, <3>1, <1>a, ZenonT(40) DEF FinishTurn
  <2>8. [worker[w] EXCEPT !.pc = "failing", !.outcome = "error"] \in WorkerState
    BY ZenonT(40) DEF WorkerState
  <2>9. CASE Complete(w)
    <3>1. CASE runs[worker[w].run].token = worker[w].token
      <4>1. Completed(runs[worker[w].run], worker[w].outcome) \in Row
        BY <2>9, CompletedRow DEF Complete, AtWork
      <4> QED  BY <2>9, <3>1, <4>1, <1>b DEF Complete
    <3>2. CASE runs[worker[w].run].token # worker[w].token
      BY <2>8, <2>9, <3>2, ZenonT(40) DEF Complete
    <3> QED  BY <3>1, <3>2
  <2>10. CASE CompleteError(w)
    BY <2>8, <2>10, CompletedRow DEF CompleteError, AtWork
  <2>11. CASE FailRead(w)
    <3>1. \A n, m \in Nat :
            [worker[w] EXCEPT !.pc = "retiring", !.attempts = n, !.errors = m] \in WorkerState
      BY ZenonT(40) DEF WorkerState
    <3>2. worker[w].run \in RunIds
      BY <2>11 DEF FailRead, AtWork
    <3> QED  BY <2>11, <3>1, <3>2, <1>b, <1>f, ZenonT(40) DEF FailRead
  <2>12. CASE FailRetire(w)
    BY <2>12, <1>b, RetiredRow, ZenonT(40) DEF FailRetire
  <2>13. CASE WorkerCrash(w)
    BY <2>13, <1>b DEF WorkerCrash
  <2> QED  BY <1>2, <2>1, <2>2, <2>3, <2>4, <2>5, <2>6, <2>7, <2>9, <2>10, <2>11, <2>12, <2>13, SMTT(30)
             DEF WorkerStep, ClaimStep, TurnEnds
<1>3. ASSUME NEW w \in Workers, DrainStep(w) PROVE TypeOK'
  <2>1. CASE DrainBeat(w)
    <3>1. \A r \in RunIds \cup {Nil}, n \in Nat : [pc |-> "beaten", run |-> r, token |-> n] \in DrainState
      BY DEF DrainState
    <3> QED  BY <2>1, <3>1, <1>e, ClockRow, ZenonT(40) DEF DrainBeat
  <2>2. CASE DrainUnlock(w)
    <3>1. [drain[w] EXCEPT !.pc = "unlocked"] \in DrainState
      BY DEF DrainState
    <3> QED  BY <2>2, <3>1 DEF DrainUnlock
  <2>3. CASE DrainRelease(w)
    BY <2>3, <1>c, <1>g, HandedBackRow DEF DrainRelease
  <2>4. CASE DrainError(w)
    BY <2>4, <1>c DEF DrainError
  <2> QED  BY <1>3, <2>1, <2>2, <2>3, <2>4 DEF DrainStep
<1>4. ASSUME NEW p \in Reapers, SweepStep(p) \/ ReaperCrash(p) PROVE TypeOK'
  <2>1. ASSUME NEW old \in SUBSET RunIds, ReapScan(p, old) PROVE TypeOK'
    <3>1. \A r \in RunIds : SnapshotOf(r, r \notin old) \in Snapshot
      BY <1>f DEF SnapshotOf, Snapshot
    <3>2. \A todo \in SUBSET Snapshot :
            [IdleReaper EXCEPT !.pc = "sweeping", !.todo = todo] \in ReaperState
      BY ZenonT(40) DEF IdleReaper, ReaperState
    <3>3. {SnapshotOf(r, r \notin old) : r \in Expired} \in SUBSET Snapshot
      BY <3>1 DEF Expired
    <3> QED  BY <2>1, <3>2, <3>3, SweptRow, ZenonT(40) DEF ReapScan
  <2>2. ASSUME NEW s \in reaper[p].todo, ReapFence(p, s) PROVE TypeOK'
    <3>1. reaper[p].todo \subseteq Snapshot
      BY DEF ReaperState
    <3>2. /\ s.run \in RunIds /\ s.attempts \in Nat /\ s.errors \in Nat /\ s.retry \in BOOLEAN
      BY <3>1 DEF Snapshot
    <3>3. \A n \in Nat :
            [pc |-> "fenced", todo |-> reaper[p].todo \ {s}, run |-> s.run, token |-> n,
             attempts |-> s.attempts, errors |-> s.errors, retry |-> s.retry] \in ReaperState
      BY <3>1, <3>2 DEF ReaperState
    <3> QED  BY <2>2, <3>2, <3>3, <1>f, FencedRow DEF ReapFence
  <2>3. ASSUME NEW s \in reaper[p].todo, ReapSkip(p, s) PROVE TypeOK'
    <3>1. \A todo \in SUBSET Snapshot, pc \in {"idle", "sweeping"} :
            [reaper[p] EXCEPT !.todo = todo, !.pc = pc] \in ReaperState
      BY ZenonT(40) DEF ReaperState
    <3>2. reaper[p].todo \ {s} \in SUBSET Snapshot /\ SweepPc(reaper[p].todo \ {s}) \in {"idle", "sweeping"}
      BY DEF ReaperState, SweepPc
    <3> QED  BY <2>3, <3>1, <3>2, ZenonT(40) DEF ReapSkip
  <2>4. CASE ReapUnlock(p)
    BY <2>4, SMTT(30) DEF ReapUnlock, ReaperState
  <2>5. CASE ReapRetire(p)
    <3>1. [IdleReaper EXCEPT !.pc = SweepPc(reaper[p].todo), !.todo = reaper[p].todo] \in ReaperState
      BY ZenonT(40) DEF IdleReaper, SweepPc, ReaperState
    <3> QED  BY <2>5, <3>1, RetiredRow, ZenonT(40) DEF ReapRetire
  <2>6. CASE ReaperCrash(p)
    BY <2>6, <1>d, <1>g, SweptRow DEF ReaperCrash
  <2> QED  BY <1>4, <2>1, <2>2, <2>3, <2>4, <2>5, <2>6 DEF SweepStep
<1>5. ASSUME NEW r \in RunIds, ClockStep(r) PROVE TypeOK'
  BY <1>5, <1>g, ClockRow DEF ClockStep, Lapse, FenceLapse, DelayOver
<1>6. CASE UNCHANGED vars
  BY <1>6 DEF vars
<1> QED  BY <1>1, <1>2, <1>3, <1>4, <1>5, <1>6 DEF Next

(* Every row, worker, drain and sweep stays in its type: counters never go *)
(* below zero, an outcome is one complete() or retire() writes, and the    *)
(* interval stops at LEASE_LOST_CONSECUTIVE lost beats.                    *)
THEOREM TypeCorrect == Spec => []TypeOK
<1>1. Init => TypeOK /\ AtWork
  BY InitTypeOK
<1>2. TypeOK /\ AtWork /\ [Next]_vars => (TypeOK /\ AtWork)'
  BY NextTypeOK, NextAtWork
<1> QED  BY <1>1, <1>2, PTL DEF Spec

-----------------------------------------------------------------------------
(* The inductive invariant.                                                *)

(* What a row says of itself when `last` is the last place given out and   *)
(* `back` counts the runs handed back.                                     *)
RowOK(row, last, back) ==
  /\ row.token > 0 <=> row.status = "running"
  /\ row.status \in {"pending", "running"} =>
       /\ row.token <= row.leases
       /\ row.errors < MaxAttempts
       /\ row.key = row.asked
       /\ row.result = Nil
  /\ row.status = "pending" => row.attempts < MaxClaims + back
  /\ row.status = "running" => row.attempts > 0
  /\ row.status = "done" => row.result \in {"ok", "busy"}
  /\ row.status = "failed" => row.result = "failed"
  /\ row.status \in {"absent", "deleted"} =>
       /\ row.session = Nil /\ row.seq = 0 /\ row.result = Nil
       /\ row.key = Nil /\ row.asked = Nil
  /\ row.result = "ok" => row.key = row.asked
  /\ row.attempts <= MaxClaims + back
  /\ row.errors <= MaxAttempts
  /\ row.seq <= last

RowInv(r) == RowOK(runs[r], serial, handbacks)

(* No two runs share a place in the order or an idempotency key.           *)
Distinct ==
  \A r, q \in RunIds :
    r # q /\ Exists(r) /\ Exists(q) =>
      /\ runs[r].seq # runs[q].seq
      /\ runs[r].key # Nil => runs[r].key # runs[q].key

(* A token that some process remembers was issued: every later one is      *)
(* larger.                                                                 *)
Issued(r, t) ==
  /\ r \in RunIds /\ t \in Nat /\ t > 0
  /\ runs[r].status # "absent"
  /\ runs[r].status \in {"pending", "running"} => t <= runs[r].leases

ReaperBusy(p) == reaper[p].pc \in {"fenced", "unlocked"}

(* Each process has a token of its own.                                    *)
Tokens ==
  /\ \A w \in Workers :
       IF worker[w].pc = "idle" THEN worker[w].token = 0 ELSE Issued(worker[w].run, worker[w].token)
  /\ \A p \in Reapers :
       /\ IF ReaperBusy(p) THEN Issued(reaper[p].run, reaper[p].token) ELSE reaper[p].token = 0
       /\ \A s \in reaper[p].todo : Issued(s.run, s.token)
  /\ \A v, w \in Workers :
       v # w /\ worker[v].pc # "idle" /\ worker[v].run = worker[w].run => worker[v].token # worker[w].token
  /\ \A p, q \in Reapers :
       p # q /\ ReaperBusy(p) /\ reaper[p].run = reaper[q].run => reaper[p].token # reaper[q].token
  /\ \A w \in Workers, p \in Reapers :
       worker[w].pc # "idle" /\ worker[w].run = reaper[p].run => worker[w].token # reaper[p].token

(* What an attempt executes is what the row says.                          *)
Texted ==
  \A w \in Workers :
    worker[w].pc # "idle" /\ Exists(worker[w].run) =>
      runs[worker[w].run].attempts > 0 /\ worker[w].text = runs[worker[w].run].text

(* Beats are lost only on a lease that is gone.                            *)
LostBeats ==
  \A w \in Workers :
    worker[w].lost > 0 => worker[w].pc # "idle" /\ runs[worker[w].run].token # worker[w].token

TableInv == (\A r \in RunIds : RowInv(r)) /\ Distinct /\ SessionFifo

IInv == TypeOK /\ AtWork /\ TableInv /\ Tokens /\ SnapshotsCurrent /\ Texted /\ LostBeats

-----------------------------------------------------------------------------
(* Row by row: what each statement keeps of RowOK, and what it does to the *)
(* token and the counters.                                                 *)

Counted(row) ==
  /\ row.seq \in Nat /\ row.attempts \in Nat /\ row.errors \in Nat
  /\ row.leases \in Nat /\ row.token \in Nat

Fate(row, new) ==
  /\ new.token \in {0, row.token} \/
       (row.status \in {"pending", "running"} /\ new.token = row.leases + 1)
  /\ new.token = row.token /\ row.token > 0 => new.attempts = row.attempts /\ new.errors = row.errors
  /\ row.status # "absent" =>
       /\ new.status # "absent"
       /\ new.status \in {"pending", "running"} =>
            row.status \in {"pending", "running"} /\ row.leases <= new.leases
       /\ new.status \notin {"absent", "deleted"} =>
            /\ row.status \notin {"absent", "deleted"}
            /\ row.attempts <= new.attempts
            /\ row.attempts > 0 => new.text = row.text

LEMMA CountedRow == \A row \in Row : Counted(row)
  BY DEF Row, Counted

LEMMA RowOKGrows ==
  ASSUME NEW row, NEW last \in Nat, NEW back \in Nat, NEW last2 \in Nat, NEW back2 \in Nat,
         last <= last2, back <= back2, Counted(row), RowOK(row, last, back)
  PROVE  RowOK(row, last2, back2)
  BY BoundAssumption, SMTT(30) DEF Counted, RowOK

LEMMA SameRowOK ==
  ASSUME NEW row, NEW new, NEW last, NEW back, Same(row, new), RowOK(row, last, back)
  PROVE  RowOK(new, last, back)
  BY SMTT(30) DEF Same, RowOK

LEMMA AbsentOK == RowOK(NoRow, 0, 0)
  BY BoundAssumption DEF NoRow, RowOK

LEMMA SubmittedOK ==
  ASSUME NEW new, NEW s, NEW k, NEW n \in Nat, NEW last \in Nat, NEW back \in Nat, n <= last,
         SubmittedAs(new, s, k, n)
  PROVE  RowOK(new, last, back)
  BY BoundAssumption, SMTT(30) DEF SubmittedAs, RowOK

LEMMA RowSurvives ==
  ASSUME NEW row, NEW new, NEW last \in Nat, NEW back \in Nat, NEW counted \in {0, 1}, NEW o \in {"ok", "busy"},
         Counted(row), RowOK(row, last, back)
  PROVE  /\ DeletedAs(new) => RowOK(new, last, back)
         /\ EditedTo(row, new) => RowOK(new, last, back)
         /\ row.status = "pending" /\ ClaimedTo(row, new) => RowOK(new, last, back)
         /\ row.status = "running" /\ HandedBackTo(row, new) => RowOK(new, last, back + 1)
         /\ /\ row.status = "running" /\ RequeuedTo(row, new, counted)
            /\ row.errors + counted < MaxAttempts /\ row.attempts < MaxClaims
            => RowOK(new, last, back)
         /\ row.status = "running" /\ ParkedTo(row, new, counted) => RowOK(new, last, back)
         /\ row.status = "running" /\ CompletedTo(row, new, o) => RowOK(new, last, back)
         /\ row.status = "running" /\ FencedTo(row, new) => RowOK(new, last, back)
<1> USE BoundAssumption DEF Counted, RowOK
<1>1. DeletedAs(new) => RowOK(new, last, back)
  BY SMTT(30) DEF DeletedAs
<1>2. EditedTo(row, new) => RowOK(new, last, back)
  BY SMTT(30) DEF EditedTo, SameRun, SameCounts
<1>3. row.status = "pending" /\ ClaimedTo(row, new) => RowOK(new, last, back)
  BY SMTT(30) DEF ClaimedTo, SameRun
<1>4. row.status = "running" /\ HandedBackTo(row, new) => RowOK(new, last, back + 1)
  BY SMTT(30) DEF HandedBackTo, SameRun, SameCounts
<1>5. /\ row.status = "running" /\ RequeuedTo(row, new, counted)
      /\ row.errors + counted < MaxAttempts /\ row.attempts < MaxClaims
      => RowOK(new, last, back)
  BY SMTT(30) DEF RequeuedTo, SameRun
<1>6. row.status = "running" /\ ParkedTo(row, new, counted) => RowOK(new, last, back)
  BY SMTT(30) DEF ParkedTo, SameRun
<1>7. row.status = "running" /\ CompletedTo(row, new, o) => RowOK(new, last, back)
  BY SMTT(30) DEF CompletedTo, SameRun, SameCounts
<1>8. row.status = "running" /\ FencedTo(row, new) => RowOK(new, last, back)
  BY SMTT(30) DEF FencedTo, SameRun, SameCounts
<1> HIDE DEF Counted, RowOK
<1> QED  BY <1>1, <1>2, <1>3, <1>4, <1>5, <1>6, <1>7, <1>8

LEMMA RowFates ==
  ASSUME NEW row, NEW new, NEW counted \in {0, 1}, NEW o \in {"ok", "busy"}, NEW s, NEW k, NEW n,
         Counted(row), row.token > 0 <=> row.status = "running"
  PROVE  /\ row.status = "absent" /\ SubmittedAs(new, s, k, n) => Fate(row, new)
         /\ Same(row, new) => Fate(row, new)
         /\ DeletedAs(new) => Fate(row, new)
         /\ row.status = "pending" /\ row.attempts = 0 /\ EditedTo(row, new) => Fate(row, new)
         /\ row.status = "pending" /\ ClaimedTo(row, new) => Fate(row, new)
         /\ row.status = "running" /\ HandedBackTo(row, new) => Fate(row, new)
         /\ row.status = "running" /\ RequeuedTo(row, new, counted) => Fate(row, new)
         /\ row.status = "running" /\ ParkedTo(row, new, counted) => Fate(row, new)
         /\ row.status = "running" /\ CompletedTo(row, new, o) => Fate(row, new)
         /\ row.status = "running" /\ FencedTo(row, new) => Fate(row, new)
<1> USE DEF Counted, Fate
<1>0. row.status = "absent" /\ SubmittedAs(new, s, k, n) => Fate(row, new)
  BY SMTT(30) DEF SubmittedAs
<1>1. Same(row, new) => Fate(row, new)
  BY SMTT(30) DEF Same
<1>2. DeletedAs(new) => Fate(row, new)
  BY SMTT(30) DEF DeletedAs
<1>3. row.status = "pending" /\ row.attempts = 0 /\ EditedTo(row, new) => Fate(row, new)
  BY SMTT(30) DEF EditedTo, SameRun, SameCounts
<1>4. row.status = "pending" /\ ClaimedTo(row, new) => Fate(row, new)
  BY SMTT(30) DEF ClaimedTo, SameRun
<1>5. row.status = "running" /\ HandedBackTo(row, new) => Fate(row, new)
  BY SMTT(30) DEF HandedBackTo, SameRun, SameCounts
<1>6. row.status = "running" /\ RequeuedTo(row, new, counted) => Fate(row, new)
  BY SMTT(30) DEF RequeuedTo, SameRun
<1>7. row.status = "running" /\ ParkedTo(row, new, counted) => Fate(row, new)
  BY SMTT(30) DEF ParkedTo, SameRun
<1>8. row.status = "running" /\ CompletedTo(row, new, o) => Fate(row, new)
  BY SMTT(30) DEF CompletedTo, SameRun, SameCounts
<1>9. row.status = "running" /\ FencedTo(row, new) => Fate(row, new)
  BY SMTT(30) DEF FencedTo, SameRun, SameCounts
<1> HIDE DEF Counted, Fate
<1> QED  BY <1>0, <1>1, <1>2, <1>3, <1>4, <1>5, <1>6, <1>7, <1>8, <1>9
-----------------------------------------------------------------------------
(* The changes a step may make to the table.                               *)

RowChange(r) ==
  \/ \E s \in Sessions, k \in Keys \cup {Nil} :
       /\ runs[r].status = "absent"
       /\ k # Nil => \A q \in RunIds : runs[q].key # k
       /\ SubmittedAs(runs'[r], s, k, serial + 1)
       /\ serial' = serial + 1 /\ UNCHANGED handbacks
  \/ /\ runs[r].status = "running" /\ HandedBackTo(runs[r], runs'[r])
     /\ handbacks' = handbacks + 1 /\ UNCHANGED serial
  \/ /\ UNCHANGED <<serial, handbacks>>
     /\ \/ runs[r].status = "pending" /\ DeletedAs(runs'[r])
        \/ runs[r].status = "pending" /\ runs[r].attempts = 0 /\ EditedTo(runs[r], runs'[r])
        \/ Eligible(r) /\ ClaimedTo(runs[r], runs'[r])
        \/ \E counted \in {0, 1} :
             /\ runs[r].status = "running" /\ RequeuedTo(runs[r], runs'[r], counted)
             /\ runs[r].errors + counted < MaxAttempts /\ runs[r].attempts < MaxClaims
        \/ \E counted \in {0, 1} : runs[r].status = "running" /\ ParkedTo(runs[r], runs'[r], counted)
        \/ \E o \in {"ok", "busy"} : runs[r].status = "running" /\ CompletedTo(runs[r], runs'[r], o)
        \/ runs[r].status = "running" /\ FencedTo(runs[r], runs'[r])

(* Only the clock fields of an unfinished row change.                      *)
Touched(r) == Same(runs[r], runs'[r]) /\ (runs[r].status \in Terminal => runs'[r] = runs[r])

TableStep ==
  \/ /\ \A q \in RunIds : Touched(q)
     /\ UNCHANGED <<serial, handbacks>>
  \/ \E r \in RunIds : RowChange(r) /\ \A q \in RunIds \ {r} : runs'[q] = runs[q]

(* Retiring a leased run with the counters its row has.                    *)
LEMMA RetireIsTableStep ==
  ASSUME IInv, NEW r \in RunIds, NEW counted \in {0, 1}, NEW retry,
         runs[r].status = "running", UNCHANGED <<serial, handbacks>>,
         runs' = [runs EXCEPT ![r] = Retired(@, counted, runs[r].attempts, runs[r].errors, retry)]
  PROVE  TableStep
<1>1. runs'[r] = Retired(runs[r], counted, runs[r].attempts, runs[r].errors, retry)
  BY DEF IInv, TypeOK
<1>2. RowChange(r)
  <2>1. runs[r] \in Row
    BY DEF IInv, TypeOK
  <2> QED  BY <1>1, <2>1, RequeuedRow, ParkedRow DEF RowChange, Retired
<1> QED
  BY <1>2 DEF TableStep, IInv, TypeOK

LEMMA NextTableStep == IInv /\ [Next]_vars => TableStep
<1> SUFFICES ASSUME IInv, [Next]_vars PROVE TableStep
  OBVIOUS
<1>a. runs \in [RunIds -> Row]
  BY DEF IInv, TypeOK
<1>b. CASE UNCHANGED <<runs, serial, handbacks>>
  BY <1>b DEF TableStep, Touched, Same
<1>c. \A r \in RunIds : RowInv(r)
  BY DEF IInv, TableInv
<1>1. CASE ApiStep
  <2>1. ASSUME NEW r \in RunIds, NEW s \in Sessions, NEW k \in Keys \cup {Nil}, NEW x \in Texts,
               Enqueue(r, s, k, x)
        PROVE  TableStep
    <3>1. RowChange(r)
      <4>1. serial + 1 \in Nat
        BY DEF IInv, TypeOK
      <4> QED  BY <1>a, <2>1, <4>1, SubmittedRow DEF Enqueue, RowChange
    <3> QED  BY <1>a, <2>1, <3>1 DEF Enqueue, TableStep
  <2>2. ASSUME NEW r \in RunIds, NEW x \in Texts, EditPendingText(r, x) PROVE TableStep
    <3>1. RowChange(r)
      BY <1>a, <2>2, EditedRow DEF EditPendingText, RowChange
    <3> QED  BY <1>a, <2>2, <3>1 DEF EditPendingText, TableStep
  <2>3. ASSUME NEW r \in RunIds, NEW unstartedOnly \in BOOLEAN, Withdraw(r, unstartedOnly) PROVE TableStep
    <3>1. RowChange(r)
      BY <1>a, <2>3, DeletedRow DEF Withdraw, RowChange
    <3> QED  BY <1>a, <2>3, <3>1 DEF Withdraw, TableStep
  <2>4. ASSUME NEW q \in RunIds, NEW target \in RunIds, SteerQueued(q, target) PROVE TableStep
    <3>1. RowChange(q)
      BY <1>a, <2>4, DeletedRow DEF SteerQueued, RowChange
    <3> QED  BY <1>a, <2>4, <3>1 DEF SteerQueued, TableStep
  <2> QED  BY <1>1, <2>1, <2>2, <2>3, <2>4 DEF ApiStep
<1>2. ASSUME NEW w \in Workers, WorkerStep(w) PROVE TableStep
  <2>a. /\ worker[w].pc # "idle" => worker[w].run \in RunIds
        /\ worker[w].pc # "idle" => worker[w].token > 0
        /\ worker[w].pc = "completing" => worker[w].outcome \in {"ok", "busy"}
    BY ZenonT(40) DEF IInv, AtWork, Tokens, Issued
  <2>1. ASSUME NEW r \in RunIds, Claim(w, r) PROVE TableStep
    <3>1. RowChange(r)
      BY <1>a, <2>1, ClaimedRow DEF Claim, RowChange
    <3> QED  BY <1>a, <2>1, <3>1 DEF Claim, TableStep
  <2>2. CASE HandBack(w)
    <3>1. CASE Leased(worker[w].run, worker[w].token)
      <4>1. RowChange(worker[w].run)
        BY <1>a, <2>a, <2>2, <3>1, HandedBackRow, ZenonT(40) DEF HandBack, Leased, RowChange
      <4> QED  BY <1>a, <2>a, <2>2, <3>1, <4>1, SMTT(30) DEF HandBack, TableStep
    <3> QED  BY <1>b, <2>2, <3>1 DEF HandBack
  <2>3. CASE StartTurn(w) \/ HeartbeatError(w) \/ TurnEnds(w) \/ FailRead(w) \/ WorkerCrash(w)
    BY <1>b, <2>3 DEF StartTurn, HeartbeatError, TurnEnds, FinishTurn, FailRead, WorkerCrash
  <2>4. CASE Heartbeat(w) \/ LateHeartbeat(w)
    <3>3. /\ worker[w].run \in RunIds /\ UNCHANGED <<serial, handbacks>>
          /\ Leased(worker[w].run, worker[w].token) \/ UNCHANGED runs
      BY <2>a, <2>4, SMTT(30) DEF Heartbeat, LateHeartbeat
    <3>1. CASE runs' = [runs EXCEPT ![worker[w].run] = Renewed(@)]
      <4>1. CASE Leased(worker[w].run, worker[w].token)
        <5>1. /\ runs[worker[w].run].status = "running"
              /\ runs'[worker[w].run] = Renewed(runs[worker[w].run])
              /\ \A q \in RunIds : q # worker[w].run => runs'[q] = runs[q]
          BY <1>a, <3>1, <3>3, <4>1 DEF Leased
        <5>2. Same(runs[worker[w].run], runs'[worker[w].run])
          BY <1>a, <3>3, <5>1, ClockRow, ZenonT(40)
        <5>3. \A q \in RunIds : Touched(q)
          BY <5>1, <5>2, ZenonT(40) DEF Terminal, Touched, Same
        <5> QED  BY <3>3, <5>3 DEF TableStep
      <4> QED  BY <1>b, <3>3, <4>1
    <3>2. CASE UNCHANGED runs
      BY <1>b, <2>4, <3>2, SMTT(30) DEF Heartbeat, LateHeartbeat
    <3> QED  BY <2>4, <3>1, <3>2 DEF Heartbeat, LateHeartbeat
  <2>5. CASE Complete(w) \/ CompleteError(w)
    <3>1. CASE /\ runs[worker[w].run].token = worker[w].token
               /\ runs' = [runs EXCEPT ![worker[w].run] = Completed(@, worker[w].outcome)]
      <4>1. worker[w].pc = "completing" /\ UNCHANGED <<serial, handbacks>>
        BY <2>5, SMTT(30) DEF Complete, CompleteError
      <4>2. runs[worker[w].run].status = "running"
        BY <1>c, <2>a, <3>1, <4>1, ZenonT(40) DEF RowInv, RowOK
      <4>3. RowChange(worker[w].run)
        BY <1>a, <2>a, <3>1, <4>1, <4>2, CompletedRow, ZenonT(40) DEF RowChange
      <4> QED  BY <1>a, <2>a, <3>1, <4>1, <4>3, SMTT(30) DEF TableStep
    <3>2. CASE UNCHANGED runs
      BY <1>b, <2>5, <3>2 DEF Complete, CompleteError
    <3> QED  BY <2>5, <3>1, <3>2 DEF Complete, CompleteError
  <2>6. CASE FailRetire(w)
    <3>1. CASE Leased(worker[w].run, worker[w].token)
      <4>1. /\ worker[w].attempts = runs[worker[w].run].attempts
            /\ worker[w].errors = runs[worker[w].run].errors
        BY <2>6, <3>1, ZenonT(40) DEF FailRetire, Leased, IInv, SnapshotsCurrent
      <4> QED  BY <2>a, <2>6, <3>1, <4>1, RetireIsTableStep, ZenonT(40) DEF FailRetire, Leased
    <3> QED  BY <1>b, <2>6, <3>1, SMTT(30) DEF FailRetire
  <2> QED  BY <1>2, <2>1, <2>2, <2>3, <2>4, <2>5, <2>6, SMTT(30) DEF WorkerStep, ClaimStep
<1>3. ASSUME NEW w \in Workers, DrainStep(w) PROVE TableStep
  <2>1. CASE DrainBeat(w)
    <3>1. worker[w].run \in RunIds
      BY <2>1 DEF DrainBeat, IInv, AtWork
    <3>2. /\ runs[worker[w].run].status = "running"
          /\ runs'[worker[w].run] = Renewed(runs[worker[w].run])
          /\ \A q \in RunIds : q # worker[w].run => runs'[q] = runs[q]
      BY <1>a, <2>1, <3>1 DEF DrainBeat, Leased
    <3>3. Same(runs[worker[w].run], runs'[worker[w].run])
      BY <1>a, <3>1, <3>2, ClockRow, ZenonT(40)
    <3>4. \A q \in RunIds : Touched(q)
      BY <3>2, <3>3, ZenonT(40) DEF Terminal, Touched, Same
    <3> QED  BY <2>1, <3>4, ZenonT(40) DEF DrainBeat, TableStep
  <2>2. CASE DrainUnlock(w) \/ DrainError(w)
    BY <1>b, <2>2 DEF DrainUnlock, DrainError
  <2>3. CASE DrainRelease(w)
    <3>1. drain[w].run \in RunIds
      BY <2>3 DEF DrainRelease, IInv, AtWork
    <3>2. CASE Leased(drain[w].run, drain[w].token)
      <4>1. RowChange(drain[w].run)
        BY <1>a, <2>3, <3>1, <3>2, HandedBackRow, ZenonT(40) DEF DrainRelease, Leased, RowChange
      <4> QED  BY <1>a, <2>3, <3>1, <3>2, <4>1, SMTT(30) DEF DrainRelease, TableStep
    <3> QED  BY <1>b, <2>3, <3>2 DEF DrainRelease
  <2> QED  BY <1>3, <2>1, <2>2, <2>3 DEF DrainStep
<1>4. ASSUME NEW p \in Reapers, SweepStep(p) \/ ReaperCrash(p) PROVE TableStep
  <2>1. ASSUME NEW old \in SUBSET RunIds, ReapScan(p, old) PROVE TableStep
    BY <1>a, <2>1, SweptRow, SMTT(30) DEF ReapScan, Expired, Terminal, TableStep, Touched, Same
  <2>2. ASSUME NEW s \in reaper[p].todo, ReapFence(p, s) PROVE TableStep
    <3>1. s.run \in RunIds
      BY ZenonT(40) DEF IInv, Tokens, Issued
    <3>2. RowChange(s.run)
      BY <1>a, <2>2, <3>1, FencedRow, ZenonT(40) DEF ReapFence, Leased, RowChange
    <3> QED  BY <1>a, <2>2, <3>1, <3>2, SMTT(30) DEF ReapFence, TableStep
  <2>3. CASE (\E s \in reaper[p].todo : ReapSkip(p, s)) \/ ReapUnlock(p)
    BY <1>b, <2>3, ZenonT(40) DEF ReapSkip, ReapUnlock
  <2>4. CASE ReapRetire(p)
    <3>1. reaper[p].run \in RunIds
      BY <2>4 DEF ReapRetire, IInv, Tokens, ReaperBusy, Issued
    <3>2. CASE Leased(reaper[p].run, reaper[p].token)
      <4>1. /\ reaper[p].attempts = runs[reaper[p].run].attempts
            /\ reaper[p].errors = runs[reaper[p].run].errors
        BY <2>4, <3>2 DEF ReapRetire, Leased, IInv, SnapshotsCurrent
      <4> QED  BY <2>4, <3>1, <3>2, <4>1, RetireIsTableStep, ZenonT(40) DEF ReapRetire, Leased
    <3> QED  BY <1>b, <2>4, <3>2 DEF ReapRetire
  <2>5. CASE ReaperCrash(p)
    BY <1>a, <2>5, SweptRow DEF ReaperCrash, Terminal, TableStep, Touched, Same
  <2> QED  BY <1>4, <2>1, <2>2, <2>3, <2>4, <2>5, SMTT(30) DEF SweepStep
<1>5. ASSUME NEW r \in RunIds, ClockStep(r) PROVE TableStep
  <2>1. /\ runs[r].status \in {"pending", "running"}
        /\ runs' = [runs EXCEPT ![r] = Overdue(@)] \/ runs' = [runs EXCEPT ![r] = Undelayed(@)]
        /\ UNCHANGED <<serial, handbacks>>
    BY <1>5, ZenonT(40) DEF ClockStep, Lapse, FenceLapse, DelayOver
  <2>2. /\ runs'[r] = Overdue(runs[r]) \/ runs'[r] = Undelayed(runs[r])
        /\ \A q \in RunIds : q # r => runs'[q] = runs[q]
    BY <1>a, <2>1
  <2>3. Same(runs[r], runs'[r])
    BY <1>a, <2>2, ClockRow, ZenonT(40)
  <2>4. \A q \in RunIds : Touched(q)
    BY <2>1, <2>2, <2>3 DEF Terminal, Touched, Same
  <2> QED  BY <2>1, <2>4 DEF TableStep
<1>6. CASE UNCHANGED vars
  BY <1>b, <1>6 DEF vars
<1> QED  BY <1>1, <1>2, <1>3, <1>4, <1>5, <1>6 DEF Next

-----------------------------------------------------------------------------
(* The table's part of the invariant.                                      *)

(* What every change but a submission does to a run's place: the run keeps *)
(* it while it exists, and only an eligible run starts.                    *)
Kept(r) ==
  /\ Exists(r)' =>
       /\ Exists(r)
       /\ runs'[r].seq = runs[r].seq /\ runs'[r].session = runs[r].session
       /\ runs'[r].key \in {runs[r].key, Nil}
  /\ runs'[r].status = "running" => runs[r].status = "running" \/ Eligible(r)
  /\ runs'[r].status = "pending" => runs[r].status \in {"pending", "running"}

(* Numbers, for the leaves that do no arithmetic themselves.               *)
LEMMA Numbers ==
  /\ ~(0 > 0) /\ \A t : t > 0 => t # 0
  /\ \A n \in Nat : n + 1 \in Nat /\ n + 1 > 0 /\ n + 1 <= n + 1 /\ n + 1 # 0
  /\ \A n, t \in Nat : t <= n => t # n + 1
  /\ \A n, t \in Nat : t # n /\ ~(t < n) => n < t
  BY SMT

LEMMA KeptKeepsOrder ==
  ASSUME TableInv, NEW r \in RunIds, Kept(r), \A q \in RunIds \ {r} : runs'[q] = runs[q],
         \A q \in RunIds : runs[q].seq \in Nat
  PROVE  Distinct' /\ SessionFifo'
<1>1. Distinct'
  BY SMTT(30) DEF TableInv, Distinct, Kept, Exists
<1>2. SessionFifo'
  <2> SUFFICES ASSUME NEW x \in RunIds, NEW y \in RunIds, x # y,
                      runs'[x].status = "running", runs'[y].status \in {"pending", "running"},
                      runs'[y].session = runs'[x].session
               PROVE  runs'[y].status = "pending" /\ runs'[x].seq < runs'[y].seq
    BY DEF SessionFifo
  <2>1. /\ Exists(x) /\ Exists(y) /\ runs[x].session = runs[y].session
        /\ runs'[x].seq = runs[x].seq /\ runs'[y].seq = runs[y].seq
        /\ runs[x].status = "running" \/ (x = r /\ Eligible(x))
        /\ runs[y].status \in {"pending", "running"}
    BY SMTT(30) DEF Kept, Exists, Eligible
  <2>2. runs[x].seq # runs[y].seq
    BY <2>1, ZenonT(40) DEF TableInv, Distinct
  <2>3. CASE runs[x].status = "running"
    <3>1. runs[y].status = "pending" /\ runs[x].seq < runs[y].seq
      BY <2>1, <2>3, ZenonT(40) DEF TableInv, SessionFifo
    <3>2. runs'[y].status = "pending"
      BY <2>1, <2>3, <3>1, ZenonT(40) DEF Kept, Eligible
    <3> QED  BY <2>1, <3>1, <3>2, ZenonT(40)
  <2>4. CASE x = r /\ Eligible(x)
    <3>1. runs[y].status = "pending" /\ ~(runs[y].seq < runs[x].seq)
      BY <2>1, <2>4, ZenonT(40) DEF Eligible
    <3>2. runs'[y].status = "pending"
      BY <2>4, <3>1
    <3>3. runs[x].seq < runs[y].seq
      BY <2>2, <3>1, Numbers, ZenonT(40)
    <3> QED  BY <2>1, <3>2, <3>3, ZenonT(40)
  <2> QED  BY <2>1, <2>3, <2>4
<1> QED  BY <1>1, <1>2

LEMMA TableInvStep == IInv /\ TypeOK' /\ TableStep => TableInv'
<1> SUFFICES ASSUME IInv, TypeOK', TableStep PROVE TableInv'
  OBVIOUS
<1>a. /\ runs \in [RunIds -> Row] /\ runs' \in [RunIds -> Row]
      /\ serial \in Nat /\ handbacks \in Nat
  BY DEF IInv, TypeOK
<1>b. \A r \in RunIds : Counted(runs[r])
  BY <1>a, CountedRow
<1>d. \A r \in RunIds : runs[r].seq \in Nat
  BY <1>b DEF Counted
<1>c. TableInv
  BY DEF IInv
<1>1. CASE (\A q \in RunIds : Touched(q)) /\ UNCHANGED <<serial, handbacks>>
  <2>1. \A r \in RunIds : Same(runs[r], runs'[r])
    BY <1>1 DEF Touched
  <2>2. \A r \in RunIds : RowInv(r)'
    BY <1>1, <1>c, <2>1, SameRowOK DEF TableInv, RowInv
  <2>3. \A r \in RunIds :
          /\ runs'[r].status = runs[r].status /\ runs'[r].session = runs[r].session
          /\ runs'[r].seq = runs[r].seq /\ runs'[r].key = runs[r].key
    BY <2>1 DEF Same
  <2>4. Distinct'
    BY <1>c, <2>3 DEF TableInv, Distinct, Exists
  <2>5. SessionFifo'
    BY <1>c, <2>3 DEF TableInv, SessionFifo
  <2> QED  BY <2>2, <2>4, <2>5 DEF TableInv
<1>2. ASSUME NEW r \in RunIds, RowChange(r), \A q \in RunIds \ {r} : runs'[q] = runs[q]
      PROVE  TableInv'
  <2>a. runs[r] \in Row /\ RowInv(r)
    BY <1>a, <1>c DEF TableInv
  <2>b. /\ serial' \in Nat /\ handbacks' \in Nat
        /\ serial <= serial' /\ handbacks <= handbacks'
    BY <1>a, <1>2 DEF RowChange
  <2>c. ASSUME NEW q \in RunIds \ {r} PROVE RowInv(q)'
    <3>1. RowOK(runs[q], serial, handbacks) /\ Counted(runs[q]) /\ runs'[q] = runs[q]
      BY <1>b, <1>c, <1>2 DEF TableInv, RowInv
    <3>2. RowOK(runs[q], serial', handbacks')
      BY <1>a, <2>b, <3>1, RowOKGrows
    <3> QED  BY <3>1, <3>2 DEF RowInv
  <2>d. RowOK(runs[r], serial, handbacks) /\ Counted(runs[r]) /\ serial \in Nat /\ handbacks \in Nat
    BY <1>a, <1>b, <2>a DEF RowInv
  <2>1. RowInv(r)' /\ Distinct' /\ SessionFifo'
    <3>1. ASSUME NEW s \in Sessions, NEW k \in Keys \cup {Nil},
                 runs[r].status = "absent", k # Nil => \A q \in RunIds : runs[q].key # k,
                 SubmittedAs(runs'[r], s, k, serial + 1), serial' = serial + 1, UNCHANGED handbacks
          PROVE  RowInv(r)' /\ Distinct' /\ SessionFifo'
      <4>1. RowInv(r)'
        <5>1. serial + 1 \in Nat /\ serial + 1 <= serial'
          BY <1>a, <3>1
        <5> QED  BY <2>b, <3>1, <5>1, SubmittedOK DEF RowInv
      <4>4. /\ runs'[r].status = "pending" /\ runs'[r].session = s
            /\ runs'[r].seq = serial + 1 /\ runs'[r].key = k
        BY <3>1 DEF SubmittedAs
      <4>5. \A q \in RunIds : runs[q].seq < serial + 1
        BY <1>a, <1>c, <1>d DEF TableInv, RowInv, RowOK
      <4>2. Distinct'
        <5> SUFFICES ASSUME NEW x \in RunIds, NEW y \in RunIds, x # y, Exists(x)', Exists(y)'
                     PROVE  /\ runs'[x].seq # runs'[y].seq
                            /\ runs'[x].key # Nil => runs'[x].key # runs'[y].key
          BY DEF Distinct
        <5>1. CASE x # r /\ y # r
          BY <1>c, <1>2, <5>1, ZenonT(40) DEF TableInv, Distinct, Exists
        <5>2. CASE x = r
          <6>1. runs'[y].seq = runs[y].seq /\ runs'[y].key = runs[y].key
            BY <1>2, <5>2
          <6> QED  BY <1>a, <1>d, <3>1, <4>4, <4>5, <5>2, <6>1
        <5>3. CASE y = r
          <6>1. runs'[x].seq = runs[x].seq /\ runs'[x].key = runs[x].key
            BY <1>2, <5>3
          <6> QED  BY <1>a, <1>d, <3>1, <4>4, <4>5, <5>3, <6>1
        <5> QED  BY <5>1, <5>2, <5>3
      <4>3. SessionFifo'
        BY <1>c, <1>2, <4>4, <4>5, ZenonT(40) DEF TableInv, SessionFifo
      <4> QED  BY <4>1, <4>2, <4>3
    <3>2. CASE runs[r].status = "pending" /\ DeletedAs(runs'[r]) /\ UNCHANGED <<serial, handbacks>>
      <4>1. RowInv(r)'
        BY <2>d, <3>2, RowSurvives, ZenonT(40) DEF RowInv
      <4>2. Kept(r)
        BY <3>2 DEF DeletedAs, Kept, Exists
      <4> QED  BY <1>c, <1>d, <1>2, <4>1, <4>2, KeptKeepsOrder, ZenonT(40)
    <3>3. CASE runs[r].status = "pending" /\ EditedTo(runs[r], runs'[r]) /\ UNCHANGED <<serial, handbacks>>
      <4>1. RowInv(r)'
        BY <2>d, <3>3, RowSurvives, ZenonT(40) DEF RowInv
      <4>2. Kept(r)
        BY <3>3, ZenonT(40) DEF EditedTo, SameRun, Kept, Exists
      <4> QED  BY <1>c, <1>d, <1>2, <4>1, <4>2, KeptKeepsOrder
    <3>4. CASE Eligible(r) /\ ClaimedTo(runs[r], runs'[r]) /\ UNCHANGED <<serial, handbacks>>
      <4>1. RowInv(r)'
        <5>1. runs[r].status = "pending"
          BY <3>4 DEF Eligible
        <5> QED  BY <2>d, <3>4, <5>1, RowSurvives, ZenonT(40) DEF RowInv
      <4>2. Kept(r)
        BY <3>4, ZenonT(40) DEF ClaimedTo, SameRun, Eligible, Kept, Exists
      <4> QED  BY <1>c, <1>d, <1>2, <4>1, <4>2, KeptKeepsOrder
    <3>5. CASE /\ runs[r].status = "running" /\ HandedBackTo(runs[r], runs'[r])
               /\ handbacks' = handbacks + 1 /\ UNCHANGED serial
      <4>1. RowInv(r)'
        BY <2>d, <3>5, RowSurvives, ZenonT(40) DEF RowInv
      <4>2. Kept(r)
        BY <3>5, ZenonT(40) DEF HandedBackTo, SameRun, Kept, Exists
      <4> QED  BY <1>c, <1>d, <1>2, <4>1, <4>2, KeptKeepsOrder
    <3>6. ASSUME NEW counted \in {0, 1}, runs[r].status = "running", UNCHANGED <<serial, handbacks>>,
                 RequeuedTo(runs[r], runs'[r], counted),
                 runs[r].errors + counted < MaxAttempts, runs[r].attempts < MaxClaims
          PROVE  RowInv(r)' /\ Distinct' /\ SessionFifo'
      <4>1. RowInv(r)'
        BY <2>d, <3>6, RowSurvives, ZenonT(40) DEF RowInv
      <4>2. Kept(r)
        BY <3>6 DEF RequeuedTo, SameRun, Kept, Exists
      <4> QED  BY <1>c, <1>d, <1>2, <4>1, <4>2, KeptKeepsOrder, ZenonT(40)
    <3>7. ASSUME NEW counted \in {0, 1}, runs[r].status = "running", UNCHANGED <<serial, handbacks>>,
                 ParkedTo(runs[r], runs'[r], counted)
          PROVE  RowInv(r)' /\ Distinct' /\ SessionFifo'
      <4>1. RowInv(r)'
        BY <2>d, <3>7, RowSurvives, ZenonT(40) DEF RowInv
      <4>2. Kept(r)
        BY <3>7, ZenonT(40) DEF ParkedTo, SameRun, Kept, Exists
      <4> QED  BY <1>c, <1>d, <1>2, <4>1, <4>2, KeptKeepsOrder, ZenonT(40)
    <3>8. ASSUME NEW o \in {"ok", "busy"}, runs[r].status = "running", UNCHANGED <<serial, handbacks>>,
                 CompletedTo(runs[r], runs'[r], o)
          PROVE  RowInv(r)' /\ Distinct' /\ SessionFifo'
      <4>1. RowInv(r)'
        BY <2>d, <3>8, RowSurvives, ZenonT(40) DEF RowInv
      <4>2. Kept(r)
        BY <3>8, ZenonT(40) DEF CompletedTo, SameRun, Kept, Exists
      <4> QED  BY <1>c, <1>d, <1>2, <4>1, <4>2, KeptKeepsOrder, ZenonT(40)
    <3>9. CASE runs[r].status = "running" /\ FencedTo(runs[r], runs'[r]) /\ UNCHANGED <<serial, handbacks>>
      <4>1. RowInv(r)'
        BY <2>d, <3>9, RowSurvives, ZenonT(40) DEF RowInv
      <4>2. Kept(r)
        BY <3>9, ZenonT(40) DEF FencedTo, SameRun, Kept, Exists
      <4> QED  BY <1>c, <1>d, <1>2, <4>1, <4>2, KeptKeepsOrder
    <3> QED  BY <1>2, <3>1, <3>2, <3>3, <3>4, <3>5, <3>6, <3>7, <3>8, <3>9, ZenonT(40) DEF RowChange
  <2> QED  BY <2>c, <2>1 DEF TableInv
<1> QED  BY <1>1, <1>2 DEF TableStep

-----------------------------------------------------------------------------
(* What becomes of a token that somebody remembers: it stays issued, and   *)
(* if the row carries it after the step then it did before, with the same  *)
(* counters.                                                               *)

LEMMA RowFate ==
  ASSUME IInv, TableStep, NEW r \in RunIds
  PROVE  Fate(runs[r], runs'[r])
<1>a. /\ Counted(runs[r])
      /\ runs[r].token > 0 <=> runs[r].status = "running"
  BY CountedRow DEF IInv, TypeOK, TableInv, RowInv, RowOK
<1>1. CASE Same(runs[r], runs'[r])
  BY <1>a, <1>1, RowFates, ZenonT(40)
<1>2. CASE RowChange(r)
  BY <1>a, <1>2, RowFates, ZenonT(40) DEF RowChange, Eligible
<1>3. CASE runs'[r] = runs[r]
  BY <1>1, <1>3 DEF Same
<1> QED  BY <1>1, <1>2, <1>3, ZenonT(40) DEF TableStep, Touched

LEMMA IssuedFate ==
  ASSUME NEW row, NEW new, NEW t \in Nat, t > 0, Counted(row), Counted(new),
         row.status # "absent", row.status \in {"pending", "running"} => t <= row.leases, Fate(row, new)
  PROVE  /\ new.status # "absent"
         /\ new.status \in {"pending", "running"} => t <= new.leases
         /\ t = new.token =>
              t = row.token /\ new.attempts = row.attempts /\ new.errors = row.errors
<1>1. new.status # "absent"
  BY DEF Fate
<1>2. new.status \in {"pending", "running"} => t <= new.leases
  BY DEF Fate, Counted
<1>3. t = new.token => t = row.token
  BY DEF Fate, Counted
<1>4. t = new.token => new.attempts = row.attempts /\ new.errors = row.errors
  BY <1>3 DEF Fate
<1> QED  BY <1>1, <1>2, <1>3, <1>4

LEMMA IssuedStep ==
  ASSUME IInv, TypeOK', TableStep, NEW r, NEW t, Issued(r, t)
  PROVE  /\ Issued(r, t)'
         /\ t = runs'[r].token =>
              /\ t = runs[r].token
              /\ runs'[r].attempts = runs[r].attempts /\ runs'[r].errors = runs[r].errors
<1>1. r \in RunIds /\ t \in Nat /\ t > 0 /\ runs[r] \in Row /\ runs'[r] \in Row
  BY DEF Issued, IInv, TypeOK
<1>2. Fate(runs[r], runs'[r]) /\ Counted(runs[r]) /\ Counted(runs'[r])
  BY <1>1, RowFate, CountedRow, ZenonT(40)
<1> QED  BY <1>1, <1>2, IssuedFate, ZenonT(40) DEF Issued

-----------------------------------------------------------------------------
(* What a step does to the processes.                                      *)

(* w keeps its run, its token and its text.                                *)
Keeps(w) ==
  /\ worker[w].pc # "idle" /\ worker'[w].pc # "idle"
  /\ worker'[w].run = worker[w].run /\ worker'[w].token = worker[w].token
  /\ worker'[w].text = worker[w].text

Others(w) == \A v \in Workers \ {w} : worker'[v] = worker[v]

WorkerMove(w) ==
  /\ UNCHANGED reaper
  /\ Others(w)
  /\ \/ Keeps(w) /\ worker'[w].pc # "retiring" /\ worker'[w].lost \in {0, worker[w].lost}
     \/ Keeps(w) /\ worker'[w].pc # "retiring" /\ worker[w].token # runs[worker[w].run].token /\ UNCHANGED runs
     \/ /\ Keeps(w) /\ worker'[w].pc = "retiring" /\ worker'[w].lost = worker[w].lost
        /\ worker'[w].attempts = runs[worker[w].run].attempts
        /\ worker'[w].errors = runs[worker[w].run].errors
        /\ UNCHANGED runs
     \/ worker'[w] = worker[w]
     \/ worker'[w] = IdleWorker
     \/ \E r \in RunIds :
          /\ worker[w].pc = "idle" /\ Eligible(r) /\ ClaimedTo(runs[r], runs'[r])
          /\ worker'[w] = [IdleWorker EXCEPT !.pc = "claimed", !.run = r,
                             !.token = runs[r].leases + 1, !.text = runs[r].text]

LEMMA WorkerStepMove == \A w \in Workers : IInv /\ WorkerStep(w) => WorkerMove(w)
<1> SUFFICES ASSUME NEW w \in Workers, IInv, WorkerStep(w) PROVE WorkerMove(w)
  OBVIOUS
<1>a. worker \in [Workers -> WorkerState] /\ worker[w] \in WorkerState /\ runs \in [RunIds -> Row]
  BY SMTT(30) DEF IInv, TypeOK
<1>1. ASSUME NEW r \in RunIds, Claim(w, r) PROVE WorkerMove(w)
  <2>1. ClaimedTo(runs[r], runs'[r])
    BY <1>1, <1>a, ClaimedRow, SMTT(30) DEF Claim
  <2> QED  BY <1>1, <1>a, <2>1, ZenonT(40) DEF Claim, WorkerMove, Others
<1>2. CASE HandBack(w) \/ FailRetire(w) \/ WorkerCrash(w)
  BY <1>2, <1>a, ZenonT(40) DEF HandBack, FailRetire, WorkerCrash, WorkerMove, Others
<1>3. CASE StartTurn(w)
  BY <1>3, <1>a DEF StartTurn, WorkerMove, Others, Keeps, WorkerState
<1>4. CASE Heartbeat(w)
  <2>1. CASE Leased(worker[w].run, worker[w].token)
    BY <1>4, <1>a, <2>1 DEF Heartbeat, WorkerMove, Others, Keeps, WorkerState
  <2>2. CASE ~Leased(worker[w].run, worker[w].token)
    <3>1. worker[w].token # runs[worker[w].run].token
      BY <1>4, <2>2, ZenonT(40) DEF Heartbeat, Leased, IInv, TableInv, RowInv, RowOK, Tokens, Issued
    <3> QED  BY <1>4, <1>a, <2>2, <3>1, SMTT(30) DEF Heartbeat, WorkerMove, Others, Keeps, WorkerState
  <2> QED  BY <2>1, <2>2
<1>5. CASE LateHeartbeat(w)
  BY <1>5 DEF LateHeartbeat, WorkerMove, Others
<1>9. CASE HeartbeatError(w)
  BY <1>9, <1>a DEF HeartbeatError, WorkerMove, Others, Keeps, WorkerState
<1>6. ASSUME NEW o \in {"ok", "busy", "error", "fatal"}, FinishTurn(w, o) PROVE WorkerMove(w)
  BY <1>6, <1>a DEF FinishTurn, WorkerMove, Others, Keeps, WorkerState
<1>7. CASE Complete(w) \/ CompleteError(w)
  <2>1. CASE worker' = [worker EXCEPT ![w] = IdleWorker]
    BY <1>7, <1>a, <2>1 DEF Complete, CompleteError, WorkerMove, Others
  <2>2. CASE worker' = [worker EXCEPT ![w].pc = "failing", ![w].outcome = "error"]
    <3>1. Keeps(w) /\ worker'[w].pc # "retiring" /\ worker'[w].lost = worker[w].lost
      BY <1>7, <1>a, <2>2, SMTT(30) DEF Complete, CompleteError, Keeps, WorkerState
    <3> QED  BY <1>7, <1>a, <2>2, <3>1 DEF Complete, CompleteError, WorkerMove, Others
  <2> QED  BY <1>7, <2>1, <2>2 DEF Complete, CompleteError
<1>8. CASE FailRead(w)
  BY <1>8, <1>a, ZenonT(40) DEF FailRead, WorkerMove, Others, Keeps, WorkerState
<1> QED  BY <1>1, <1>2, <1>3, <1>4, <1>5, <1>6, <1>7, <1>8, <1>9 DEF WorkerStep, ClaimStep, TurnEnds

Spared(p) == \A q \in Reapers \ {p} : reaper'[q] = reaper[q]

ReaperMove(p) ==
  /\ UNCHANGED worker
  /\ Spared(p)
  /\ \/ /\ ~ReaperBusy(p)' /\ reaper'[p].token = 0
        /\ \A s \in reaper'[p].todo :
             /\ s.run \in RunIds /\ runs[s.run].status = "running" /\ s.token = runs[s.run].token
             /\ s.attempts = runs[s.run].attempts /\ s.errors = runs[s.run].errors
        /\ \A r \in RunIds : Same(runs[r], runs'[r])
     \/ /\ ReaperBusy(p)' <=> ReaperBusy(p)
        /\ reaper'[p].run = reaper[p].run /\ reaper'[p].token = reaper[p].token
        /\ reaper'[p].attempts = reaper[p].attempts /\ reaper'[p].errors = reaper[p].errors
        /\ reaper'[p].todo \subseteq reaper[p].todo
     \/ ~ReaperBusy(p)' /\ reaper'[p].token = 0 /\ reaper'[p].todo \subseteq reaper[p].todo
     \/ \E s \in reaper[p].todo :
          /\ runs[s.run].status = "running" /\ s.token = runs[s.run].token
          /\ FencedTo(runs[s.run], runs'[s.run])
          /\ ReaperBusy(p)' /\ reaper'[p].run = s.run /\ reaper'[p].token = runs[s.run].leases + 1
          /\ reaper'[p].attempts = s.attempts /\ reaper'[p].errors = s.errors
          /\ reaper'[p].todo \subseteq reaper[p].todo

LEMMA SweepStepMove == \A p \in Reapers : IInv /\ (SweepStep(p) \/ ReaperCrash(p)) => ReaperMove(p)
<1> SUFFICES ASSUME NEW p \in Reapers, IInv, SweepStep(p) \/ ReaperCrash(p) PROVE ReaperMove(p)
  OBVIOUS
<1>a. reaper \in [Reapers -> ReaperState] /\ reaper[p] \in ReaperState /\ runs \in [RunIds -> Row]
  BY DEF IInv, TypeOK
<1>1. ASSUME NEW old \in SUBSET RunIds, ReapScan(p, old) PROVE ReaperMove(p)
  <2>1. \A r \in RunIds : Same(runs[r], runs'[r])
    BY <1>1, <1>a, SweptRow DEF ReapScan, Same
  <2>2. /\ ~ReaperBusy(p)' /\ reaper'[p].token = 0
        /\ reaper'[p].todo = {SnapshotOf(r, r \notin old) : r \in Expired}
    BY <1>1, <1>a, SMTT(30) DEF ReapScan, ReaperBusy, IdleReaper
  <2>3. \A s \in reaper'[p].todo :
             /\ s.run \in RunIds /\ runs[s.run].status = "running" /\ s.token = runs[s.run].token
             /\ s.attempts = runs[s.run].attempts /\ s.errors = runs[s.run].errors
    BY <2>2, SMTT(30) DEF SnapshotOf, Expired
  <2> QED  BY <1>1, <1>a, <2>1, <2>2, <2>3 DEF ReapScan, ReaperMove, Spared
<1>2. ASSUME NEW s \in reaper[p].todo, ReapFence(p, s) PROVE ReaperMove(p)
  <2>1. s.run \in RunIds
    BY ZenonT(40) DEF IInv, Tokens, Issued
  <2>2. /\ runs[s.run].status = "running" /\ s.token = runs[s.run].token
        /\ FencedTo(runs[s.run], runs'[s.run])
    BY <1>2, <1>a, <2>1, FencedRow, ZenonT(40) DEF ReapFence, Leased
  <2>3. /\ ReaperBusy(p)' /\ reaper'[p].run = s.run /\ reaper'[p].token = runs[s.run].leases + 1
        /\ reaper'[p].attempts = s.attempts /\ reaper'[p].errors = s.errors
        /\ reaper'[p].todo \subseteq reaper[p].todo
    <3> DEFINE st == reaper'[p]
               left == reaper[p].todo \ {s}
               n == runs[s.run].leases + 1
    <3>1. st = [pc |-> "fenced", todo |-> left, run |-> s.run, token |-> n,
                attempts |-> s.attempts, errors |-> s.errors, retry |-> s.retry]
      BY <1>2, <1>a, ZenonT(40) DEF ReapFence
    <3>2. left \subseteq reaper[p].todo
      OBVIOUS
    <3> HIDE DEF st, left, n
    <3>3. /\ st.pc = "fenced" /\ st.run = s.run /\ st.token = n
          /\ st.attempts = s.attempts /\ st.errors = s.errors /\ st.todo = left
      BY <3>1, ZenonT(40)
    <3> QED  BY <3>2, <3>3, ZenonT(40) DEF st, n, ReaperBusy
  <2> QED  BY <1>2, <1>a, <2>2, <2>3, ZenonT(40) DEF ReapFence, ReaperMove, Spared
<1>3. ASSUME NEW s \in reaper[p].todo, ReapSkip(p, s) PROVE ReaperMove(p)
  BY <1>3, <1>a DEF ReapSkip, SweepPc, ReaperMove, Spared, ReaperBusy, ReaperState
<1>4. CASE ReapUnlock(p)
  BY <1>4, <1>a DEF ReapUnlock, ReaperMove, Spared, ReaperBusy, ReaperState
<1>5. CASE ReapRetire(p)
  BY <1>5, <1>a, SMTT(30) DEF ReapRetire, SweepPc, IdleReaper, ReaperMove, Spared, ReaperBusy
<1>6. CASE ReaperCrash(p)
  <2>1. reaper'[p] = IdleReaper /\ Spared(p) /\ UNCHANGED worker
    BY <1>6, <1>a DEF ReaperCrash, Spared
  <2>2. ~ReaperBusy(p)' /\ reaper'[p].token = 0 /\ reaper'[p].todo \subseteq reaper[p].todo
    <3> DEFINE st == reaper'[p]
    <3>1. st = IdleReaper
      BY <2>1
    <3> HIDE DEF st
    <3>2. st.pc = "idle" /\ st.token = 0 /\ st.todo = {}
      BY <3>1 DEF IdleReaper
    <3> QED  BY <3>2, ZenonT(40) DEF st, ReaperBusy
  <2> QED  BY <2>1, <2>2, ZenonT(40) DEF ReaperMove
<1> QED  BY <1>1, <1>2, <1>3, <1>4, <1>5, <1>6, ZenonT(40) DEF SweepStep

(* Every step is a step of one worker, of one reaper, or of neither.       *)
LEMMA Movers ==
  ASSUME IInv, [Next]_vars
  PROVE  \/ \E w \in Workers : WorkerMove(w)
         \/ \E p \in Reapers : ReaperMove(p)
         \/ UNCHANGED <<worker, reaper>>
<1>1. CASE ApiStep
  BY <1>1 DEF ApiStep, Enqueue, EditPendingText, Withdraw, SteerQueued
<1>2. CASE \E w \in Workers : WorkerStep(w)
  BY <1>2, WorkerStepMove
<1>3. CASE \E w \in Workers : DrainStep(w)
  BY <1>3 DEF DrainStep, DrainBeat, DrainUnlock, DrainRelease, DrainError
<1>4. CASE \E p \in Reapers : SweepStep(p) \/ ReaperCrash(p)
  BY <1>4, SweepStepMove, SMTT(30)
<1>5. CASE \E r \in RunIds : ClockStep(r)
  BY <1>5 DEF ClockStep, Lapse, FenceLapse, DelayOver
<1> QED  BY <1>1, <1>2, <1>3, <1>4, <1>5, SMTT(30) DEF Next, vars


-----------------------------------------------------------------------------
(* The invariant, regrouped by process.                                    *)

WorkerOK(w) ==
  LET me == worker[w] IN
  /\ IF me.pc = "idle" THEN me.token = 0 ELSE Issued(me.run, me.token)
  /\ me.pc = "retiring" /\ me.token = runs[me.run].token =>
       me.attempts = runs[me.run].attempts /\ me.errors = runs[me.run].errors
  /\ me.pc # "idle" /\ Exists(me.run) => runs[me.run].attempts > 0 /\ me.text = runs[me.run].text
  /\ me.lost > 0 => me.pc # "idle" /\ runs[me.run].token # me.token

SweepOK(s) ==
  /\ Issued(s.run, s.token)
  /\ s.token = runs[s.run].token => s.attempts = runs[s.run].attempts /\ s.errors = runs[s.run].errors

ReaperOK(p) ==
  /\ IF ReaperBusy(p) THEN SweepOK(reaper[p]) ELSE reaper[p].token = 0
  /\ \A s \in reaper[p].todo : SweepOK(s)

Apart ==
  /\ \A v, w \in Workers :
       v # w /\ worker[v].pc # "idle" /\ worker[v].run = worker[w].run => worker[v].token # worker[w].token
  /\ \A p, q \in Reapers :
       p # q /\ ReaperBusy(p) /\ reaper[p].run = reaper[q].run => reaper[p].token # reaper[q].token
  /\ \A w \in Workers, p \in Reapers :
       worker[w].pc # "idle" /\ worker[w].run = reaper[p].run => worker[w].token # reaper[p].token

LEMMA Regrouped ==
  /\ IInv => (\A w \in Workers : WorkerOK(w)) /\ (\A p \in Reapers : ReaperOK(p)) /\ Apart
  /\ /\ TypeOK' /\ AtWork' /\ TableInv' /\ Apart'
     /\ (\A w \in Workers : WorkerOK(w)') /\ (\A p \in Reapers : ReaperOK(p)')
     => IInv'
<1>1. ASSUME IInv PROVE Apart
  BY <1>1, ZenonT(40) DEF IInv, Tokens, Apart
<1>2. ASSUME IInv, NEW w \in Workers PROVE WorkerOK(w)
  BY <1>2, ZenonT(40) DEF IInv, Tokens, SnapshotsCurrent, Texted, LostBeats, WorkerOK
<1>3. ASSUME IInv, NEW p \in Reapers PROVE ReaperOK(p)
  BY <1>3, ZenonT(40) DEF IInv, Tokens, SnapshotsCurrent, ReaperBusy, ReaperOK, SweepOK
<1>4. ASSUME TypeOK', AtWork', TableInv', Apart',
             \A w \in Workers : WorkerOK(w)', \A p \in Reapers : ReaperOK(p)'
      PROVE  IInv'
  <2>1. Tokens'
    BY <1>4, ZenonT(40) DEF Tokens, Apart, WorkerOK, ReaperOK, SweepOK
  <2>2. SnapshotsCurrent'
    BY <1>4, ZenonT(40) DEF SnapshotsCurrent, WorkerOK, ReaperOK, ReaperBusy, SweepOK
  <2>3. Texted' /\ LostBeats'
    BY <1>4, ZenonT(40) DEF Texted, LostBeats, WorkerOK
  <2> QED  BY <1>4, <2>1, <2>2, <2>3, SMTT(30) DEF IInv
<1> QED  BY <1>1, <1>2, <1>3, <1>4

-----------------------------------------------------------------------------
(* What a process remembers of a run stays true while others move.         *)

LEMMA SweepCarried ==
  ASSUME IInv, TypeOK', TableStep, NEW s, SweepOK(s)
  PROVE  SweepOK(s)'
  BY IssuedStep, ZenonT(40) DEF SweepOK

LEMMA TextCarried ==
  ASSUME IInv, TypeOK', TableStep, NEW r \in RunIds, runs[r].status # "absent", Exists(r)'
  PROVE  Exists(r) /\ (runs[r].attempts > 0 => runs'[r].attempts > 0 /\ runs'[r].text = runs[r].text)
<1>1. runs[r].attempts \in Nat /\ runs'[r].attempts \in Nat
  BY DEF IInv, TypeOK, Row
<1>2. Fate(runs[r], runs'[r])
  BY RowFate, ZenonT(40)
<1>3. /\ runs[r].status \notin {"absent", "deleted"} /\ runs[r].attempts <= runs'[r].attempts
      /\ runs[r].attempts > 0 => runs'[r].text = runs[r].text
  BY <1>2, ZenonT(40) DEF Fate, Exists
<1> QED  BY <1>1, <1>3 DEF Exists

LEMMA IdleFields == IdleWorker.pc = "idle" /\ IdleWorker.token = 0 /\ IdleWorker.lost = 0
  BY DEF IdleWorker

LEMMA WorkerCarried ==
  ASSUME IInv, TypeOK', TableStep, NEW w \in Workers,
         worker[w].pc # "idle" => /\ Keeps(w)
                                  /\ worker'[w].lost \in {0, worker[w].lost}
                                  /\ worker'[w].pc = "retiring" =>
                                       /\ worker[w].pc = "retiring"
                                       /\ worker'[w].attempts = worker[w].attempts
                                       /\ worker'[w].errors = worker[w].errors,
         worker[w].pc = "idle" => worker'[w] = worker[w]
  PROVE  WorkerOK(w)'
<1>a. WorkerOK(w)
  BY Regrouped, ZenonT(40)
<1>1. CASE worker[w].pc = "idle"
  BY <1>1, <1>a, ZenonT(40) DEF WorkerOK
<1>2. CASE worker[w].pc # "idle"
  <2>a. PICK r, t : r = worker[w].run /\ t = worker[w].token
    BY ZenonT(40)
  <2>1. Issued(r, t) /\ worker'[w].run = r /\ worker'[w].token = t /\ worker'[w].pc # "idle"
    BY <1>2, <1>a, <2>a, ZenonT(40) DEF WorkerOK, Keeps
  <2>2. /\ Issued(r, t)'
        /\ t = runs'[r].token =>
             t = runs[r].token /\ runs'[r].attempts = runs[r].attempts /\ runs'[r].errors = runs[r].errors
    BY <2>1, IssuedStep, ZenonT(40)
  <2>3. Exists(r)' => runs'[r].attempts > 0 /\ worker[w].text = runs'[r].text
    <3>1. r \in RunIds /\ runs[r].status # "absent"
      BY <2>1, ZenonT(40) DEF Issued
    <3> QED  BY <1>2, <1>a, <2>a, <3>1, TextCarried, ZenonT(40) DEF WorkerOK
  <2>4. worker'[w].lost > 0 => runs'[r].token # t
    BY <1>2, <1>a, <2>a, <2>2, Numbers, ZenonT(40) DEF WorkerOK
  <2>5. worker'[w].pc = "retiring" /\ t = runs'[r].token =>
          worker'[w].attempts = runs'[r].attempts /\ worker'[w].errors = runs'[r].errors
    BY <1>2, <1>a, <2>a, <2>2, ZenonT(40) DEF WorkerOK
  <2> QED  BY <1>2, <2>a, <2>1, <2>2, <2>3, <2>4, <2>5, ZenonT(40) DEF WorkerOK, Keeps, Exists
<1> QED  BY <1>1, <1>2

LEMMA ReaperCarried ==
  ASSUME IInv, TypeOK', TableStep, NEW p \in Reapers, reaper'[p] = reaper[p]
  PROVE  ReaperOK(p)'
  BY Regrouped, SweepCarried, ZenonT(40) DEF ReaperOK, ReaperBusy

-----------------------------------------------------------------------------
(* A step of a worker.                                                     *)

LEMMA WorkerMoveOK ==
  ASSUME IInv, TypeOK', TableStep, NEW w \in Workers, WorkerMove(w)
  PROVE  WorkerOK(w)'
<1>a. WorkerOK(w)
  BY Regrouped, ZenonT(40)
<1>1. CASE Keeps(w) /\ worker'[w].pc # "retiring" /\ worker'[w].lost \in {0, worker[w].lost}
  BY <1>1, WorkerCarried, ZenonT(40) DEF Keeps
<1>2. CASE Keeps(w) /\ worker'[w].pc # "retiring" /\ worker[w].token # runs[worker[w].run].token
           /\ UNCHANGED runs
  BY <1>2, <1>a, ZenonT(40) DEF WorkerOK, Keeps, Issued, Exists
<1>3. CASE /\ Keeps(w) /\ worker'[w].pc = "retiring" /\ worker'[w].lost = worker[w].lost
           /\ worker'[w].attempts = runs[worker[w].run].attempts
           /\ worker'[w].errors = runs[worker[w].run].errors
           /\ UNCHANGED runs
  BY <1>3, <1>a, ZenonT(40) DEF WorkerOK, Keeps, Issued, Exists
<1>4. CASE worker'[w] = worker[w]
  BY <1>4, WorkerCarried, ZenonT(40) DEF Keeps
<1>5. CASE worker'[w] = IdleWorker
  BY <1>5, IdleFields, Numbers, ZenonT(40) DEF WorkerOK
<1>6. ASSUME NEW r \in RunIds, Eligible(r), ClaimedTo(runs[r], runs'[r]),
             worker'[w] = [IdleWorker EXCEPT !.pc = "claimed", !.run = r,
                             !.token = runs[r].leases + 1, !.text = runs[r].text]
      PROVE  WorkerOK(w)'
  <2>0. PICK t \in Nat : t = runs[r].leases + 1 /\ t > 0 /\ t <= t
    BY Numbers, ZenonT(40) DEF IInv, TypeOK, Row
  <2>1. /\ worker'[w].pc = "claimed" /\ worker'[w].run = r /\ worker'[w].token = t
        /\ worker'[w].text = runs[r].text /\ worker'[w].lost = 0
    BY <1>6, <2>0 DEF IdleWorker
  <2>2. runs[r].attempts \in Nat
    BY DEF IInv, TypeOK, Row
  <2>3. /\ runs'[r].status = "running" /\ runs'[r].leases = t
        /\ runs'[r].attempts > 0 /\ runs'[r].text = runs[r].text
    BY <1>6, <2>0, <2>2 DEF ClaimedTo
  <2>4. Issued(r, t)'
    BY <2>0, <2>3, ZenonT(40) DEF Issued
  <2> QED  BY <2>1, <2>3, <2>4, Numbers, ZenonT(40) DEF WorkerOK
<1> QED  BY <1>1, <1>2, <1>3, <1>4, <1>5, <1>6, ZenonT(40) DEF WorkerMove

(* A token that is issued now differs from every one remembered.           *)
LEMMA FreshToken ==
  ASSUME IInv, NEW r \in RunIds, runs[r].status \in {"pending", "running"}
  PROVE  /\ \A v \in Workers : worker[v].run = r => worker[v].token # runs[r].leases + 1
         /\ \A p \in Reapers : reaper[p].run = r => reaper[p].token # runs[r].leases + 1
<1>1. runs[r].leases \in Nat
  BY SMTT(30) DEF IInv, TypeOK, Row
<1>2. ASSUME NEW v \in Workers, worker[v].run = r PROVE worker[v].token # runs[r].leases + 1
  BY <1>1, <1>2, Regrouped, Numbers, ZenonT(40) DEF WorkerOK, Issued
<1>3. ASSUME NEW p \in Reapers, reaper[p].run = r PROVE reaper[p].token # runs[r].leases + 1
  BY <1>1, <1>3, Regrouped, Numbers, ZenonT(40) DEF ReaperOK, SweepOK, Issued
<1> QED  BY <1>2, <1>3

(* The token a worker has next differs from those of the others.          *)
WorkerAlone(w) ==
  /\ \A v \in Workers \ {w} :
       (worker'[w].pc # "idle" \/ worker[v].pc # "idle") /\ worker[v].run = worker'[w].run
         => worker[v].token # worker'[w].token
  /\ \A p \in Reapers :
       worker'[w].pc # "idle" /\ reaper[p].run = worker'[w].run => reaper[p].token # worker'[w].token

LEMMA WorkerAloneApart ==
  ASSUME Apart, NEW w \in Workers, UNCHANGED reaper, Others(w), WorkerAlone(w)
  PROVE  Apart'
<1>1. ASSUME NEW v \in Workers, NEW u \in Workers,
             v # u, worker'[v].pc # "idle", worker'[v].run = worker'[u].run
      PROVE  worker'[v].token # worker'[u].token
  <2>1. CASE v = w
    BY <1>1, <2>1, ZenonT(40) DEF Others, WorkerAlone
  <2>2. CASE u = w
    BY <1>1, <2>2, ZenonT(40) DEF Others, WorkerAlone
  <2>3. CASE v # w /\ u # w
    BY <1>1, <2>3, ZenonT(120) DEF Others, Apart
  <2> QED  BY <2>1, <2>2, <2>3, ZenonT(40)
<1>2. ASSUME NEW v \in Workers, NEW p \in Reapers,
             worker'[v].pc # "idle", worker'[v].run = reaper[p].run
      PROVE  worker'[v].token # reaper[p].token
  <2>1. CASE v = w
    BY <1>2, <2>1, ZenonT(40) DEF WorkerAlone
  <2>2. CASE v # w
    BY <1>2, <2>2, ZenonT(120) DEF Others, Apart
  <2> QED  BY <2>1, <2>2, ZenonT(40)
<1> QED  BY <1>1, <1>2, ZenonT(40) DEF Apart, ReaperBusy

LEMMA WorkerMoveApart ==
  ASSUME IInv, TypeOK', TableStep, NEW w \in Workers, WorkerMove(w)
  PROVE  Apart'
<1>a. Apart /\ \A v \in Workers : worker[v].pc # "idle" => worker[v].token > 0
  BY Regrouped, ZenonT(40) DEF WorkerOK, Issued
<1>b. UNCHANGED reaper /\ Others(w)
  BY ZenonT(40) DEF WorkerMove
<1>1. ASSUME Keeps(w) \/ worker'[w] = worker[w] PROVE WorkerAlone(w)
  <2>1. /\ worker'[w].run = worker[w].run /\ worker'[w].token = worker[w].token
        /\ worker'[w].pc # "idle" <=> worker[w].pc # "idle"
    BY <1>1, ZenonT(40) DEF Keeps
  <2> QED  BY <1>a, <2>1, ZenonT(40) DEF Apart, WorkerAlone
<1>2. ASSUME worker'[w] = IdleWorker PROVE WorkerAlone(w)
  BY <1>2, <1>a, IdleFields, Numbers, ZenonT(40) DEF WorkerAlone
<1>3. ASSUME NEW r \in RunIds, Eligible(r),
             worker'[w] = [IdleWorker EXCEPT !.pc = "claimed", !.run = r,
                             !.token = runs[r].leases + 1, !.text = runs[r].text]
      PROVE  WorkerAlone(w)
  <2>1. worker'[w].run = r /\ worker'[w].token = runs[r].leases + 1
    BY <1>3 DEF IdleWorker
  <2>2. /\ \A v \in Workers : worker[v].run = r => worker[v].token # runs[r].leases + 1
        /\ \A p \in Reapers : reaper[p].run = r => reaper[p].token # runs[r].leases + 1
    BY <1>3, FreshToken, SMTT(30) DEF Eligible
  <2> QED  BY <2>1, <2>2, ZenonT(40) DEF WorkerAlone
<1>4. WorkerAlone(w)
  BY <1>1, <1>2, <1>3, ZenonT(40) DEF WorkerMove
<1> QED  BY <1>a, <1>b, <1>4, WorkerAloneApart

-----------------------------------------------------------------------------
(* A step of a reaper.                                                     *)

LEMMA ReaperMoveOK ==
  ASSUME IInv, TypeOK', TableStep, NEW p \in Reapers, ReaperMove(p)
  PROVE  ReaperOK(p)'
<1>a. ReaperOK(p)
  BY Regrouped
<1>b. \A s \in reaper[p].todo : SweepOK(s)'
  BY <1>a, SweepCarried, SMTT(30) DEF ReaperOK
<1>c. \A r \in RunIds : runs[r].status = "running" => runs[r].token > 0 /\ runs[r].token <= runs[r].leases
  BY ZenonT(40) DEF IInv, TableInv, RowInv, RowOK
<1>d. \A r \in RunIds : runs[r].token \in Nat /\ runs[r].leases \in Nat
  BY ZenonT(40) DEF IInv, TypeOK, Row
<1>1. CASE /\ ~ReaperBusy(p)' /\ reaper'[p].token = 0
           /\ \A s \in reaper'[p].todo :
                /\ s.run \in RunIds /\ runs[s.run].status = "running" /\ s.token = runs[s.run].token
                /\ s.attempts = runs[s.run].attempts /\ s.errors = runs[s.run].errors
  <2>1. \A s \in reaper'[p].todo : SweepOK(s)
    BY <1>1, <1>c, <1>d, ZenonT(40) DEF SweepOK, Issued
  <2> QED  BY <1>1, <2>1, SweepCarried, ZenonT(40) DEF ReaperOK
<1>2. CASE /\ ReaperBusy(p)' <=> ReaperBusy(p)
           /\ reaper'[p].run = reaper[p].run /\ reaper'[p].token = reaper[p].token
           /\ reaper'[p].attempts = reaper[p].attempts /\ reaper'[p].errors = reaper[p].errors
           /\ reaper'[p].todo \subseteq reaper[p].todo
  <2>1. CASE ReaperBusy(p)
    <3>1. PICK s : s = reaper[p]
      OBVIOUS
    <3>2. SweepOK(s)'
      BY <1>a, <2>1, <3>1, SweepCarried, ZenonT(40) DEF ReaperOK
    <3>3. SweepOK(reaper[p])'
      BY <1>2, <3>1, <3>2, ZenonT(40) DEF SweepOK, Issued
    <3> QED  BY <1>2, <1>b, <2>1, <3>3, ZenonT(40) DEF ReaperOK
  <2> QED  BY <1>2, <1>a, <1>b, <2>1, ZenonT(40) DEF ReaperOK
<1>3. CASE ~ReaperBusy(p)' /\ reaper'[p].token = 0 /\ reaper'[p].todo \subseteq reaper[p].todo
  BY <1>3, <1>b DEF ReaperOK
<1>4. ASSUME NEW s \in reaper[p].todo,
             runs[s.run].status = "running", s.token = runs[s.run].token,
             FencedTo(runs[s.run], runs'[s.run]),
             ReaperBusy(p)', reaper'[p].run = s.run, reaper'[p].token = runs[s.run].leases + 1,
             reaper'[p].attempts = s.attempts, reaper'[p].errors = s.errors,
             reaper'[p].todo \subseteq reaper[p].todo
      PROVE  ReaperOK(p)'
  <2>1. s.run \in RunIds /\ s.attempts = runs[s.run].attempts /\ s.errors = runs[s.run].errors
    <3>1. SweepOK(s)
      BY <1>a, ZenonT(40) DEF ReaperOK
    <3> QED  BY <1>4, <3>1, ZenonT(40) DEF SweepOK, Issued
  <2>2. PICK t \in Nat : t = runs[s.run].leases + 1 /\ t > 0 /\ t <= t
    BY <1>d, <2>1, Numbers, ZenonT(40)
  <2>3. /\ runs'[s.run].status = "running" /\ runs'[s.run].leases = t
        /\ runs'[s.run].attempts = s.attempts /\ runs'[s.run].errors = s.errors
    BY <1>4, <2>1, <2>2, ZenonT(40) DEF FencedTo, SameCounts
  <2>4. SweepOK(reaper[p])'
    BY <1>4, <2>1, <2>2, <2>3, ZenonT(40) DEF SweepOK, Issued
  <2> QED  BY <1>4, <1>b, <2>4, ZenonT(40) DEF ReaperOK
<1> QED  BY <1>1, <1>2, <1>3, <1>4, ZenonT(40) DEF ReaperMove

ReaperAlone(p) ==
  /\ \A q \in Reapers \ {p} :
       (ReaperBusy(p)' \/ ReaperBusy(q)) /\ reaper[q].run = reaper'[p].run
         => reaper[q].token # reaper'[p].token
  /\ \A w \in Workers :
       worker[w].pc # "idle" /\ worker[w].run = reaper'[p].run => worker[w].token # reaper'[p].token

LEMMA ReaperAloneApart ==
  ASSUME Apart, NEW p \in Reapers, UNCHANGED worker, Spared(p), ReaperAlone(p)
  PROVE  Apart'
<1>a. \A q \in Reapers \ {p} : ReaperBusy(q)' <=> ReaperBusy(q)
  BY ZenonT(40) DEF Spared, ReaperBusy
<1>1. ASSUME NEW q \in Reapers, NEW u \in Reapers,
             q # u, ReaperBusy(q)', reaper'[q].run = reaper'[u].run
      PROVE  reaper'[q].token # reaper'[u].token
  <2>1. CASE q = p
    BY <1>1, <2>1, ZenonT(40) DEF Spared, ReaperAlone
  <2>2. CASE u = p
    BY <1>a, <1>1, <2>2, ZenonT(40) DEF Spared, ReaperAlone
  <2>3. CASE q # p /\ u # p
    BY <1>a, <1>1, <2>3, ZenonT(120) DEF Spared, Apart
  <2> QED  BY <2>1, <2>2, <2>3, ZenonT(40)
<1>2. ASSUME NEW w \in Workers, NEW q \in Reapers,
             worker[w].pc # "idle", worker[w].run = reaper'[q].run
      PROVE  worker[w].token # reaper'[q].token
  <2>1. CASE q = p
    BY <1>2, <2>1, ZenonT(40) DEF ReaperAlone
  <2>2. CASE q # p
    BY <1>2, <2>2, ZenonT(40) DEF Spared, Apart
  <2> QED  BY <2>1, <2>2, ZenonT(40)
<1>3. \A v, u \in Workers :
        v # u /\ worker[v].pc # "idle" /\ worker[v].run = worker[u].run => worker[v].token # worker[u].token
  BY ZenonT(40) DEF Apart
<1> QED  BY <1>1, <1>2, <1>3, ZenonT(40) DEF Apart

LEMMA ReaperMoveApart ==
  ASSUME IInv, TypeOK', TableStep, NEW p \in Reapers, ReaperMove(p)
  PROVE  Apart'
<1>a. Apart
  BY Regrouped, ZenonT(40)
<1>b. UNCHANGED worker /\ Spared(p)
  BY ZenonT(40) DEF ReaperMove
<1>c. /\ \A w \in Workers : worker[w].pc # "idle" => worker[w].token > 0
      /\ \A q \in Reapers : ReaperBusy(q) => reaper[q].token > 0
  BY Regrouped, ZenonT(40) DEF WorkerOK, ReaperOK, SweepOK, Issued
<1>1. ASSUME ~ReaperBusy(p)', reaper'[p].token = 0 PROVE ReaperAlone(p)
  BY <1>1, <1>c, Numbers, ZenonT(40) DEF ReaperAlone
<1>2. ASSUME ReaperBusy(p)' <=> ReaperBusy(p),
             reaper'[p].run = reaper[p].run, reaper'[p].token = reaper[p].token
      PROVE  ReaperAlone(p)
  BY <1>2, <1>a, ZenonT(40) DEF Apart, ReaperAlone
<1>3. ASSUME NEW s \in reaper[p].todo, runs[s.run].status = "running",
             reaper'[p].run = s.run, reaper'[p].token = runs[s.run].leases + 1
      PROVE  ReaperAlone(p)
  <2>1. s.run \in RunIds
    BY Regrouped, ZenonT(40) DEF ReaperOK, SweepOK, Issued
  <2>2. /\ \A v \in Workers : worker[v].run = s.run => worker[v].token # runs[s.run].leases + 1
        /\ \A q \in Reapers : reaper[q].run = s.run => reaper[q].token # runs[s.run].leases + 1
    BY <1>3, <2>1, FreshToken, ZenonT(40)
  <2> QED  BY <1>3, <2>2, ZenonT(40) DEF ReaperAlone
<1>4. ReaperAlone(p)
  BY <1>1, <1>2, <1>3, ZenonT(40) DEF ReaperMove
<1> QED  BY <1>a, <1>b, <1>4, ReaperAloneApart, ZenonT(40)

-----------------------------------------------------------------------------
(* The invariant is inductive.                                             *)

LEMMA InitIInv == Init => IInv
<1> SUFFICES ASSUME Init PROVE IInv
  OBVIOUS
<1>1. TypeOK /\ AtWork
  BY InitTypeOK, SMTT(30)
<1>2. TableInv
  <2>1. handbacks = 0 /\ serial = 0 /\ \A r \in RunIds : runs[r] = NoRow
    BY ZenonT(40) DEF Init
  <2>2. NoRow.status = "absent"
    BY ZenonT(40) DEF NoRow
  <2> QED  BY <2>1, <2>2, AbsentOK, ZenonT(40) DEF TableInv, RowInv, Distinct, SessionFifo, Exists
<1>3. /\ \A w \in Workers : worker[w].pc = "idle" /\ worker[w].token = 0 /\ worker[w].lost = 0
      /\ \A p \in Reapers : reaper[p].pc = "idle" /\ reaper[p].token = 0 /\ reaper[p].todo = {}
  BY ZenonT(40) DEF Init, IdleWorker, IdleReaper
<1>4. Tokens
  BY <1>3, ZenonT(40) DEF Tokens, ReaperBusy
<1>5. SnapshotsCurrent
  BY <1>3, ZenonT(40) DEF SnapshotsCurrent
<1>6. Texted /\ LostBeats
  BY <1>3 DEF Texted, LostBeats
<1> QED  BY <1>1, <1>2, <1>4, <1>5, <1>6 DEF IInv

LEMMA NextIInv == IInv /\ [Next]_vars => IInv'
<1> SUFFICES ASSUME IInv, [Next]_vars PROVE IInv'
  OBVIOUS
<1>1. TypeOK' /\ AtWork'
  BY NextTypeOK, NextAtWork DEF IInv
<1>2. TableStep
  BY NextTableStep
<1>3. TableInv'
  BY <1>1, <1>2, TableInvStep, SMTT(30)
<1>a. \A w \in Workers : worker'[w] = worker[w] => WorkerOK(w)'
  BY <1>1, <1>2, WorkerCarried, ZenonT(40) DEF Keeps
<1>b. \A p \in Reapers : reaper'[p] = reaper[p] => ReaperOK(p)'
  BY <1>1, <1>2, ReaperCarried, SMTT(30)
<1>4. ASSUME NEW w \in Workers, WorkerMove(w)
      PROVE  Apart' /\ (\A v \in Workers : WorkerOK(v)') /\ (\A p \in Reapers : ReaperOK(p)')
  BY <1>1, <1>2, <1>4, <1>a, <1>b, WorkerMoveOK, WorkerMoveApart, ZenonT(40) DEF WorkerMove, Others
<1>5. ASSUME NEW p \in Reapers, ReaperMove(p)
      PROVE  Apart' /\ (\A v \in Workers : WorkerOK(v)') /\ (\A q \in Reapers : ReaperOK(q)')
  BY <1>1, <1>2, <1>5, <1>a, <1>b, ReaperMoveOK, ReaperMoveApart, ZenonT(40) DEF ReaperMove, Spared
<1>6. CASE UNCHANGED <<worker, reaper>>
  <2>1. Apart'
    BY <1>6, Regrouped, ZenonT(40) DEF Apart, ReaperBusy
  <2> QED  BY <1>1, <1>3, <1>6, <1>a, <1>b, <2>1, Regrouped, SMTT(30)
<1> QED  BY <1>1, <1>3, <1>4, <1>5, <1>6, Movers, Regrouped, SMTT(30)

(* The invariant holds in every reachable state: tokens that processes     *)
(* still remember are distinct and were issued, and what they remember of  *)
(* a row is the row's while the token is.                                  *)
THEOREM Invariance == Spec => []IInv
<1>1. Init => IInv
  BY InitIInv
<1>2. IInv /\ [Next]_vars => IInv'
  BY NextIInv
<1> QED  BY <1>1, <1>2, PTL DEF Spec

-----------------------------------------------------------------------------
(* A run is in the hands of one process at a time: heartbeat, complete,    *)
(* fail and retire accept the token of at most one of them.                *)
THEOREM LeaseIsExclusive == Spec => []LeaseExclusive
<1>1. IInv => LeaseExclusive
  <2> SUFFICES ASSUME IInv PROVE LeaseExclusive
    OBVIOUS
  <2>1. Apart /\ (\A w \in Workers : WorkerOK(w)) /\ (\A p \in Reapers : ReaperOK(p))
    BY Regrouped, SMTT(30)
  <2>2. \A w \in Workers : worker[w].token > 0 => worker[w].pc # "idle"
    BY <2>1, Numbers, ZenonT(40) DEF WorkerOK
  <2>3. \A p \in Reapers : reaper[p].token > 0 => ReaperBusy(p)
    BY <2>1, Numbers, ZenonT(40) DEF ReaperOK
  <2>4. \A r \in RunIds, v, w \in Workers : WorkerHolds(v, r) /\ WorkerHolds(w, r) => v = w
    BY <2>1, <2>2, ZenonT(120) DEF Apart, WorkerHolds
  <2>5. \A r \in RunIds, p, q \in Reapers : ReaperHolds(p, r) /\ ReaperHolds(q, r) => p = q
    BY <2>1, <2>3, ZenonT(40) DEF Apart, ReaperHolds
  <2>6. \A r \in RunIds, w \in Workers, p \in Reapers : ~ (WorkerHolds(w, r) /\ ReaperHolds(p, r))
    BY <2>1, <2>2, ZenonT(40) DEF Apart, WorkerHolds, ReaperHolds
  <2> QED  BY <2>4, <2>5, <2>6, ZenonT(40) DEF LeaseExclusive
<1> QED  BY <1>1, Invariance, PTL

(* claim keeps a session's runs in the order they were sent, one at a      *)
(* time, through retries, hand-backs and reaps.                            *)
THEOREM SessionsAreFifo == Spec => []SessionFifo
<1>1. IInv => SessionFifo
  BY DEF IInv, TableInv
<1> QED  BY <1>1, Invariance, PTL

(* The counters on which retire decides are never stale when its UPDATE    *)
(* matches a row.                                                          *)
THEOREM SnapshotsAreCurrent == Spec => []SnapshotsCurrent
<1>1. IInv => SnapshotsCurrent
  BY DEF IInv
<1> QED  BY <1>1, Invariance, PTL

(* retire never lets a run exceed max_attempts errors or MAX_CLAIMS claims *)
(* (beyond the leases that were handed back).                              *)
THEOREM BudgetsHold == Spec => [](ErrorBudget /\ ClaimBudget)
<1>1. IInv => ErrorBudget /\ ClaimBudget
  BY ZenonT(40) DEF IInv, TableInv, RowInv, RowOK, ErrorBudget, ClaimBudget
<1> QED  BY <1>1, Invariance, PTL

(* An idempotency key succeeds once, although complete gives the key of a  *)
(* refused run back.                                                       *)
THEOREM OneSuccess == Spec => []OneSuccessPerKey
<1>1. IInv => OneSuccessPerKey
  <2> SUFFICES ASSUME IInv, NEW r \in RunIds, NEW q \in RunIds, r # q,
                      runs[r].asked # Nil, runs[r].asked = runs[q].asked,
                      runs[r].result = "ok", runs[q].result = "ok"
               PROVE  FALSE
    BY SMTT(30) DEF OneSuccessPerKey
  <2>1. RowInv(r) /\ RowInv(q) /\ Distinct
    BY SMTT(30) DEF IInv, TableInv
  <2>2. Exists(r) /\ Exists(q)
    BY <2>1, ZenonT(40) DEF RowInv, RowOK, Exists
  <2> QED  BY <2>1, <2>2, ZenonT(40) DEF RowInv, RowOK, Distinct
<1> QED  BY <1>1, Invariance, PTL

(* editPendingText never changes a message under an attempt.               *)
THEOREM TextsAgree == Spec => []TextAgrees
<1>1. IInv => TextAgrees
  BY SMTT(30) DEF IInv, Texted, TextAgrees
<1> QED  BY <1>1, Invariance, PTL

(* processRun cancels a turn for lost beats only when its lease is gone.   *)
THEOREM LostBeatsAreLost == Spec => []LostMeansLost
<1>1. IInv => LostMeansLost
  BY DEF IInv, LostBeats, LostMeansLost, WorkerHolds
<1> QED  BY <1>1, Invariance, PTL

(* No statement changes a finished row.                                    *)
THEOREM TerminalStays == Spec => TerminalIsFinal
<1>1. IInv /\ [Next]_vars => (\A r \in RunIds : runs[r].status \in Terminal => runs'[r] = runs[r]) \/ UNCHANGED vars
  BY NextTableStep, ZenonT(40) DEF TableStep, Touched, RowChange, Eligible, Terminal
<1> QED  BY <1>1, Invariance, PTL DEF Spec, TerminalIsFinal

-----------------------------------------------------------------------------
(* RunQueue implements SessionQueue: every change a step may make to the   *)
(* table (TableStep) is a step of the abstract queue or leaves it alone.   *)

AbstractState == [r \in RunIds |-> RunState(r)]

AbstractSession == [r \in RunIds |-> runs[r].session]

AbstractTicket == [r \in RunIds |-> runs[r].seq]

LEMMA StateOfRow ==
  ASSUME NEW r \in RunIds
  PROVE  /\ runs[r].status = "absent" => RunState(r) = "unknown"
         /\ runs[r].status = "pending" => RunState(r) = "waiting"
         /\ runs[r].status = "running" => RunState(r) = "executing"
         /\ runs[r].status = "deleted" => RunState(r) = "withdrawn"
         /\ runs[r].status \in Terminal => RunState(r) = runs[r].result
  BY DEF RunState, Terminal

LEMMA StateOfRowNext ==
  ASSUME NEW r \in RunIds
  PROVE  /\ runs'[r].status = "absent" => RunState(r)' = "unknown"
         /\ runs'[r].status = "pending" => RunState(r)' = "waiting"
         /\ runs'[r].status = "running" => RunState(r)' = "executing"
         /\ runs'[r].status = "deleted" => RunState(r)' = "withdrawn"
         /\ runs'[r].status \in Terminal => RunState(r)' = runs'[r].result
  BY DEF RunState, Terminal

(* Only one row changes.                                                   *)
LEMMA OneRow ==
  ASSUME NEW r \in RunIds, \A q \in RunIds \ {r} : runs'[q] = runs[q]
  PROVE  /\ AbstractState' = [AbstractState EXCEPT ![r] = RunState(r)']
         /\ AbstractSession' = [AbstractSession EXCEPT ![r] = runs'[r].session]
         /\ AbstractTicket' = [AbstractTicket EXCEPT ![r] = runs'[r].seq]
<1>1. \A q \in RunIds \ {r} : RunState(q)' = RunState(q)
  BY DEF RunState
<1> QED  BY <1>1, ZenonT(40) DEF AbstractState, AbstractSession, AbstractTicket

LEMMA SameRows ==
  ASSUME \A r \in RunIds : runs'[r].session = runs[r].session /\ runs'[r].seq = runs[r].seq,
         \A r \in RunIds : RunState(r)' = RunState(r)
  PROVE  UNCHANGED <<AbstractState, AbstractSession, AbstractTicket>>
  BY DEF AbstractState, AbstractSession, AbstractTicket

LEMMA RowChangeImplements ==
  ASSUME IInv, NEW r \in RunIds, RowChange(r), \A q \in RunIds \ {r} : runs'[q] = runs[q]
  PROVE  Queue!Next \/ UNCHANGED Queue!queueVars
<1>a. RowInv(r) /\ runs[r].status \in Statuses
  BY ZenonT(40) DEF IInv, TableInv, TypeOK, Row
<1> USE DEF AbstractState, AbstractSession, AbstractTicket
<1>b. /\ AbstractState[r] = RunState(r)
      /\ \A q \in RunIds : /\ AbstractState[q] = RunState(q)
                           /\ AbstractSession[q] = runs[q].session
                           /\ AbstractTicket[q] = runs[q].seq
  BY ZenonT(40)
<1> HIDE DEF AbstractState, AbstractSession, AbstractTicket
<1>1. ASSUME NEW s \in Sessions, NEW k, runs[r].status = "absent",
             SubmittedAs(runs'[r], s, k, serial + 1), serial' = serial + 1
      PROVE  Queue!Next
  <2>1. RunState(r) = "unknown" /\ RunState(r)' = "waiting" /\ runs'[r].session = s /\ runs'[r].seq = serial + 1
    BY <1>1, StateOfRow, StateOfRowNext, ZenonT(40) DEF SubmittedAs
  <2>2. Queue!Submit(r, s)
    BY <1>1, <1>b, <2>1, OneRow, ZenonT(40) DEF Queue!Submit, AbstractState, AbstractSession, AbstractTicket
  <2> QED  BY <2>2 DEF Queue!Next
<1>2. ASSUME runs[r].status = "running", runs'[r].status = "pending", SameRun(runs[r], runs'[r]),
             UNCHANGED serial
      PROVE  Queue!Next
  <2>1. RunState(r) = "executing" /\ RunState(r)' = "waiting"
    BY <1>2, StateOfRow, StateOfRowNext, ZenonT(40)
  <2>2. UNCHANGED <<AbstractSession, AbstractTicket>>
    BY <1>2 DEF SameRun, AbstractSession, AbstractTicket
  <2>3. Queue!Stop(r)
    BY <1>2, <1>b, <2>1, <2>2, OneRow, ZenonT(40) DEF Queue!Stop, AbstractState, AbstractSession, AbstractTicket
  <2> QED  BY <2>3 DEF Queue!Next
<1>3. ASSUME runs[r].status = "pending", DeletedAs(runs'[r]), UNCHANGED serial
      PROVE  Queue!Next
  <2>1. RunState(r) = "waiting" /\ RunState(r)' = "withdrawn" /\ runs'[r].session = Nil /\ runs'[r].seq = 0
    BY <1>3, StateOfRow, StateOfRowNext, ZenonT(40) DEF DeletedAs
  <2>2. Queue!Withdraw(r)
    BY <1>3, <1>b, <2>1, OneRow, ZenonT(40) DEF Queue!Withdraw, AbstractState, AbstractSession, AbstractTicket
  <2> QED  BY <2>2, ZenonT(40) DEF Queue!Next
<1>4. ASSUME Eligible(r), ClaimedTo(runs[r], runs'[r]), UNCHANGED serial
      PROVE  Queue!Next
  <2>1. RunState(r) = "waiting" /\ RunState(r)' = "executing" /\ SameRun(runs[r], runs'[r])
    BY <1>4, StateOfRow, StateOfRowNext, ZenonT(40) DEF ClaimedTo, Eligible
  <2>2. UNCHANGED <<AbstractSession, AbstractTicket>>
    BY <1>4, <2>1, ZenonT(40) DEF SameRun, AbstractSession, AbstractTicket
  <2>3. ASSUME NEW q \in RunIds, runs[q].session = runs[r].session
        PROVE  RunState(q) # "executing" /\ (RunState(q) = "waiting" => runs[r].seq <= runs[q].seq)
    <3>1. /\ RowInv(q) /\ runs[q].status \in Statuses
          /\ runs[q].seq \in Nat /\ runs[r].seq \in Nat
      BY ZenonT(40) DEF IInv, TableInv, TypeOK, Row
    <3>2. runs[q].status # "running" /\ (runs[q].status = "pending" => ~(runs[q].seq < runs[r].seq))
      BY <1>4, <2>3, ZenonT(40) DEF Eligible
    <3>3. RunState(q) = "waiting" => runs[q].status = "pending"
      BY <3>1, <3>2, StateOfRow, ZenonT(40) DEF RowInv, RowOK, Statuses, Terminal
    <3>4. RunState(q) # "executing"
      BY <3>1, <3>2, StateOfRow, ZenonT(40) DEF RowInv, RowOK, Statuses, Terminal
    <3> QED  BY <3>1, <3>2, <3>3, <3>4
  <2>4. Queue!Start(r)
    BY <1>4, <1>b, <2>1, <2>2, <2>3, OneRow, ZenonT(40)
    DEF Queue!Start, AbstractState, AbstractSession, AbstractTicket
  <2> QED  BY <2>4, ZenonT(40) DEF Queue!Next
<1>5. ASSUME NEW o \in {"ok", "busy", "failed"}, runs[r].status = "running", runs'[r].status \in Terminal,
             runs'[r].result = o, SameRun(runs[r], runs'[r]), UNCHANGED serial
      PROVE  Queue!Next
  <2>1. RunState(r) = "executing" /\ RunState(r)' = o
    BY <1>5, StateOfRow, StateOfRowNext, ZenonT(40)
  <2>2. UNCHANGED <<AbstractSession, AbstractTicket>>
    BY <1>5 DEF SameRun, AbstractSession, AbstractTicket
  <2>3. Queue!Finish(r, o)
    BY <1>5, <1>b, <2>1, <2>2, OneRow, ZenonT(40) DEF Queue!Finish, AbstractState, AbstractSession, AbstractTicket
  <2> QED  BY <2>3, ZenonT(40) DEF Queue!Next, Queue!Outcomes
<1>6. ASSUME runs'[r].status = runs[r].status, runs[r].status \in {"pending", "running"},
             SameRun(runs[r], runs'[r]), UNCHANGED serial
      PROVE  UNCHANGED Queue!queueVars
  <2>1. \A q \in RunIds : /\ RunState(q)' = RunState(q)
                          /\ runs'[q].session = runs[q].session /\ runs'[q].seq = runs[q].seq
    <3>1. \A q \in RunIds \ {r} : runs'[q] = runs[q]
      OBVIOUS
    <3>2. RunState(r)' = RunState(r)
      BY <1>6, StateOfRow, StateOfRowNext, ZenonT(40)
    <3>3. runs'[r].session = runs[r].session /\ runs'[r].seq = runs[r].seq
      BY <1>6 DEF SameRun
    <3> QED  BY <3>1, <3>2, <3>3, ZenonT(40) DEF RunState
  <2> QED  BY <1>6, <2>1, SameRows, ZenonT(40) DEF Queue!queueVars, AbstractState, AbstractSession, AbstractTicket
<1>7. CASE \E s \in Sessions, k \in Keys \cup {Nil} :
             /\ runs[r].status = "absent" /\ SubmittedAs(runs'[r], s, k, serial + 1)
             /\ serial' = serial + 1
  BY <1>1, <1>7, ZenonT(40)
<1>8. CASE runs[r].status = "running" /\ UNCHANGED serial /\ HandedBackTo(runs[r], runs'[r])
  BY <1>2, <1>8, ZenonT(40) DEF HandedBackTo
<1>9. CASE runs[r].status = "pending" /\ UNCHANGED serial /\ EditedTo(runs[r], runs'[r])
  BY <1>6, <1>9, ZenonT(40) DEF EditedTo
<1>10. CASE \E counted \in {0, 1} :
              /\ runs[r].status = "running" /\ UNCHANGED serial
              /\ RequeuedTo(runs[r], runs'[r], counted) \/ ParkedTo(runs[r], runs'[r], counted)
  BY <1>2, <1>5, <1>10, ZenonT(40) DEF RequeuedTo, ParkedTo, Terminal
<1>11. CASE \E o \in {"ok", "busy"} :
              runs[r].status = "running" /\ UNCHANGED serial /\ CompletedTo(runs[r], runs'[r], o)
  BY <1>5, <1>11, ZenonT(40) DEF CompletedTo, Terminal
<1>12. CASE runs[r].status = "running" /\ UNCHANGED serial /\ FencedTo(runs[r], runs'[r])
  BY <1>6, <1>12, ZenonT(40) DEF FencedTo
<1> QED  BY <1>3, <1>4, <1>7, <1>8, <1>9, <1>10, <1>11, <1>12, ZenonT(40) DEF RowChange

(* The table, its workers, drains and reapers implement SessionQueue: one  *)
(* line per session, of which only the head executes, and outcomes that    *)
(* last.                                                                   *)
THEOREM QueueImplemented == Spec => ImplementsSessionQueue
<1>1. Init => Queue!Init
  BY DEF Init, NoRow, RunState, Queue!Init
<1>2. IInv /\ [Next]_vars => [Queue!Next]_(Queue!queueVars)
  <2> SUFFICES ASSUME IInv, [Next]_vars PROVE Queue!Next \/ UNCHANGED Queue!queueVars
    OBVIOUS
  <2>1. TableStep
    BY NextTableStep
  <2>2. CASE (\A q \in RunIds : Touched(q)) /\ UNCHANGED serial
    <3>1. \A q \in RunIds : /\ RunState(q)' = RunState(q)
                            /\ runs'[q].session = runs[q].session /\ runs'[q].seq = runs[q].seq
      BY <2>2 DEF Touched, Same, RunState
    <3> QED  BY <2>2, <3>1, SameRows, ZenonT(40) DEF Queue!queueVars, AbstractState, AbstractSession, AbstractTicket
  <2> QED  BY <2>1, <2>2, RowChangeImplements DEF TableStep
<1> QED  BY <1>1, <1>2, Invariance, PTL DEF Spec, ImplementsSessionQueue, Queue!Spec
=============================================================================
