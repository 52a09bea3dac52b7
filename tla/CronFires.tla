----------------------------- MODULE CronFires -----------------------------
(***************************************************************************)
(* The fires of one cron.  Three kinds of tasks fire it: callbacks of the  *)
(* job queue (Workers), ticks of the interval scheduler (Tickers, the      *)
(* peer of an older deployment or the fallback) and runs on demand         *)
(* (Manuals).  They share fire(): the cron's lifecycle lock, the           *)
(* idempotency record of the fire key, the run that key names, and the     *)
(* fire journal.                                                           *)
(*                                                                         *)
(* A slot is the time it is scheduled for, 0 is "none".  The key of a      *)
(* scheduled fire is its slot, the key of a run on demand the task itself. *)
(*                                                                         *)
(*   cron       enabled, nextFireAt, lastFiredAt, deferUntil               *)
(*   jobs       queued job of a slot: its start time                       *)
(*   task       of each task: pc, slot, the time it fires for (at), the    *)
(*              lastFiredAt it read (prior), its result and whether a      *)
(*              pause has outdated it (fenced)                             *)
(*   journal    the row of each key: status, and whether the row has been  *)
(*              running for longer than staleRunningMs                     *)
(*   committed  keys in the idempotency store                              *)
(*   runs       the run of each key; turns counts how often its turn ran   *)
(*   lock       the task in cron-lifecycle; lease: holder of the tick lease*)
(***************************************************************************)
EXTENDS Integers, FiniteSets

CONSTANTS
    Workers, Tickers, Manuals,
    None,          \* no holder of a lock
    Schedule,      \* "interval", "calendar" or "oneshot"
    Every,         \* the interval
    DeferBy,       \* BUSY_DEFER_MS
    MaxLate,       \* BUSY_DEFER_MAX_LATE_MS
    MaxTime,       \* bound: the clock
    Faults,        \* kinds of faults that occur
    MaxFaults,     \* bound: faults
    Events,        \* kinds of what users, deployments and time do to it
    MaxEdits       \* bound: changes by users, and pauses

VARIABLES clock, cron, jobs, task, journal, committed, runs, turns, lock, lease, paused, faults, edits

vars == <<clock, cron, jobs, task, journal, committed, runs, turns, lock, lease, paused, faults, edits>>

Tasks == Workers \cup Tickers \cup Manuals
Slots == 1..(MaxTime + Every)
Keys == Slots \cup Manuals

Idle == [pc |-> "idle", slot |-> 0, at |-> 0, prior |-> 0, res |-> "none", fenced |-> FALSE]

Init ==
    /\ clock = 1
    /\ cron = [enabled |-> TRUE, next |-> 1, last |-> 0, defer |-> 0]
    /\ jobs = [s \in Slots |-> 0]
    /\ task = [t \in Tasks |-> Idle]
    /\ journal = [k \in Keys |-> [status |-> "none", stale |-> FALSE]]
    /\ committed = {}
    /\ runs = [k \in Keys |-> "none"]
    /\ turns = [k \in Keys |-> 0]
    /\ lock = None /\ lease = None
    /\ paused = {}
    /\ faults = 0 /\ edits = 0

Fault(kind) == kind \in Faults /\ faults < MaxFaults /\ faults' = faults + 1

Event(kind) == kind \in Events /\ edits < MaxEdits /\ edits' = edits + 1

Later(a, b) == IF a > b THEN a ELSE b

\* advanceNextFireAt, as markFired and claimSlot call it.
Advance(slot, at) ==
    CASE Schedule = "oneshot" -> 0
      [] Schedule = "calendar" -> slot + Every
      [] Schedule = "interval" -> at + Every

isDeferred == clock < cron.defer

Key(t) == IF t \in Manuals THEN t ELSE task[t].slot

Row(status) == [status |-> status, stale |-> FALSE]

Goto(t, pc) == task' = [task EXCEPT ![t].pc = pc]
Ends(t) == task' = [task EXCEPT ![t] = Idle]

(***************************************************************************)
(* The job queue: one queued job for each slot.                            *)
(***************************************************************************)

\* enqueueFire: a job that is already queued for the slot stays as it is.
EnqueueFire(js, slot, notBefore) ==
    IF js[slot] = 0 THEN [js EXCEPT ![slot] = Later(slot, notBefore)] ELSE js

\* Mutant of NextJob: a cron with a deferral is left to its own callback.
NextJobUndeferred(js, c) ==
    IF c.enabled /\ c.next # 0 /\ c.defer = 0 THEN EnqueueFire(js, c.next, c.defer) ELSE js

\* nextJob, for enqueueNext and reconcile.
NextJob(js, c) ==
    IF c.enabled /\ c.next # 0 THEN EnqueueFire(js, c.next, c.defer) ELSE js

\* notifyChanged, which whatever process serves the change calls.
Notify(c) == jobs' = IF Workers \subseteq paused THEN jobs ELSE NextJob(jobs, c)

Reconcile(w) ==
    /\ w \notin paused
    /\ jobs' = NextJob(jobs, cron)
    /\ UNCHANGED <<clock, cron, task, journal, committed, runs, turns, lock, lease, paused, faults, edits>>

(***************************************************************************)
(* fireJob up to the fire, and what follows it.                            *)
(***************************************************************************)

\* The callback reads the cron: a job of another slot is dropped, a deferred
\* one queued again.
Take(w) ==
    /\ w \notin paused /\ task[w].pc = "idle"
    /\ \E s \in Slots :
          /\ jobs[s] # 0 /\ jobs[s] <= clock
          /\ LET rest == [jobs EXCEPT ![s] = 0]
             IN \/ /\ ~(cron.enabled /\ cron.next = s)
                   /\ jobs' = rest /\ UNCHANGED task
                \/ /\ cron.enabled /\ cron.next = s /\ isDeferred
                   /\ jobs' = EnqueueFire(rest, s, cron.defer) /\ UNCHANGED task
                \/ /\ cron.enabled /\ cron.next = s /\ ~isDeferred
                   /\ jobs' = rest
                   /\ task' = [task EXCEPT ![w] = [Idle EXCEPT !.pc = "claim", !.slot = s,
                                                               !.at = clock, !.prior = cron.last]]
    /\ UNCHANGED <<clock, cron, journal, committed, runs, turns, lock, lease, paused, faults, edits>>

\* claimSlot, one transaction: the slot must still be the next one.
Claim(w) ==
    /\ w \in Workers /\ task[w].pc = "claim"
    /\ IF task[w].fenced \/ ~cron.enabled \/ cron.next # task[w].slot
         THEN Ends(w) /\ UNCHANGED cron
         ELSE /\ cron' = [cron EXCEPT !.last = task[w].at, !.defer = 0,
                                      !.next = Advance(task[w].slot, task[w].at)]
              /\ Goto(w, "claimed")
    /\ UNCHANGED <<clock, jobs, journal, committed, runs, turns, lock, lease, paused, faults, edits>>

\* A claim that a pause has outdated goes back.
Claimed(w) ==
    /\ task[w].pc = "claimed"
    /\ Goto(w, IF task[w].fenced THEN "unclaim" ELSE "lock")
    /\ UNCHANGED <<clock, cron, jobs, journal, committed, runs, turns, lock, lease, paused, faults, edits>>

\* unclaimSlot, one transaction: only if no later claim has been made.
Unclaim(w) ==
    /\ task[w].pc = "unclaim"
    /\ cron' = IF cron.last = task[w].at
                 THEN [cron EXCEPT !.last = task[w].prior, !.next = task[w].slot] ELSE cron
    /\ IF task[w].res = "deferred" THEN Goto(w, "requeue") ELSE Ends(w)
    /\ UNCHANGED <<clock, jobs, journal, committed, runs, turns, lock, lease, paused, faults, edits>>

\* enqueueNext; a queue that has been stopped takes no job.
Requeue(w) ==
    /\ task[w].pc = "requeue"
    /\ jobs' = IF w \in paused THEN jobs ELSE NextJob(jobs, cron)
    /\ Ends(w)
    /\ UNCHANGED <<clock, cron, journal, committed, runs, turns, lock, lease, paused, faults, edits>>

(***************************************************************************)
(* The interval scheduler's tick, under the tick lease.  A process whose   *)
(* job queue is healthy holds the same lease, so that no peer ticks.       *)
(***************************************************************************)
Guard(w) ==
    /\ w \in Workers \ paused /\ lease = None
    /\ lease' = w
    /\ UNCHANGED <<clock, cron, jobs, task, journal, committed, runs, turns, lock, paused, faults, edits>>

Due(k) ==
    /\ k \notin paused /\ task[k].pc = "idle" /\ lease = None
    /\ cron.enabled /\ ~isDeferred /\ cron.next # 0 /\ cron.next <= clock
    /\ lease' = k
    /\ task' = [task EXCEPT ![k] = [Idle EXCEPT !.pc = "due", !.slot = cron.next, !.at = clock]]
    /\ UNCHANGED <<clock, cron, jobs, journal, committed, runs, turns, lock, paused, faults, edits>>

\* Each cron of the batch is fired unless the scheduler has been stopped.
FireDue(k) ==
    /\ task[k].pc = "due"
    /\ Goto(k, IF task[k].fenced THEN "tickend" ELSE "lock")
    /\ UNCHANGED <<clock, cron, jobs, journal, committed, runs, turns, lock, lease, paused, faults, edits>>

MarkFired(k) ==
    /\ task[k].pc = "mark"
    /\ cron' = [cron EXCEPT !.last = task[k].at, !.defer = 0, !.next = Advance(task[k].slot, task[k].at)]
    /\ Goto(k, "tickend")
    /\ UNCHANGED <<clock, jobs, journal, committed, runs, turns, lock, lease, paused, faults, edits>>

TickEnds(k) ==
    /\ task[k].pc = "tickend"
    /\ lease' = IF lease = k THEN None ELSE lease
    /\ Ends(k)
    /\ UNCHANGED <<clock, cron, jobs, journal, committed, runs, turns, lock, paused, faults, edits>>

(***************************************************************************)
(* runNow: the journal row is the claim of a run on demand.                *)
(***************************************************************************)

\* beginExclusive: no other fire is running, unless its row has gone stale.
MayBegin(m) ==
    \A k \in Keys \ {m} : ~(journal[k].status = "running" /\ ~journal[k].stale)

RunNow(m) ==
    /\ task[m].pc = "idle" /\ journal[m].status = "none"
    /\ cron.enabled /\ MayBegin(m)
    /\ journal' = [journal EXCEPT ![m] = Row("running")]
    /\ task' = [task EXCEPT ![m] = [Idle EXCEPT !.pc = "lock", !.at = clock]]
    /\ UNCHANGED <<clock, cron, jobs, committed, runs, turns, lock, lease, paused, faults, edits>>

(***************************************************************************)
(* fire(): what the three kinds of tasks have in common.                   *)
(***************************************************************************)

\* Where a task goes on when fire() has returned or thrown.
After(t, res) ==
    CASE t \in Workers -> IF res \in {"authz", "thrown", "deferred"} THEN "unclaim" ELSE "requeue"
      [] t \in Tickers -> IF res \in {"authz", "thrown", "deferred"} THEN "tickend" ELSE "mark"
      [] t \in Manuals -> "idle"

Returns(t, res) == task' = [task EXCEPT ![t].pc = After(t, res), ![t].res = res]

\* The lock is granted and the cron read again: it may have been disabled.
Lock(t) ==
    /\ task[t].pc = "lock" /\ lock = None
    /\ IF cron.enabled
         THEN lock' = t /\ Goto(t, "trigger") /\ UNCHANGED journal
         ELSE /\ journal' = [journal EXCEPT ![Key(t)] = Row("silent")]
              /\ Returns(t, "authz") /\ UNCHANGED lock
    /\ UNCHANGED <<clock, cron, jobs, committed, runs, turns, lease, paused, faults, edits>>

\* The wait for the lock of another fire times out, and fire() throws.
LockTimeout(t) ==
    /\ task[t].pc = "lock" /\ lock # None
    /\ Returns(t, "thrown")
    /\ UNCHANGED <<clock, cron, jobs, journal, committed, runs, turns, lock, lease, paused, faults, edits>>

\* runTrigger refuses an owner who is gone; the cron will be disabled.
AuthzFails(t) ==
    /\ task[t].pc = "trigger" /\ Fault("authz")
    /\ journal' = [journal EXCEPT ![Key(t)] = Row("refused")]
    /\ task' = [task EXCEPT ![t].pc = "disable", ![t].res = "authz"]
    /\ UNCHANGED <<clock, cron, jobs, committed, runs, turns, lock, lease, paused, edits>>

\* once: a key that is on record is not fired again; otherwise onClaimed
\* writes the running row, with the time the task fires for.
Once(t) ==
    /\ task[t].pc = "trigger"
    /\ IF Key(t) \in committed
         THEN /\ task' = [task EXCEPT ![t].res = "skipped",
                                      ![t].pc = IF Schedule = "oneshot" THEN "disable" ELSE "release"]
              /\ UNCHANGED journal
         ELSE /\ Goto(t, "turn")
              /\ journal' = [journal EXCEPT ![Key(t)] =
                                [status |-> "running", stale |-> t \in Manuals /\ journal[t].stale]]
    /\ UNCHANGED <<clock, cron, jobs, committed, runs, turns, lock, lease, paused, faults, edits>>

\* Mutant of NewRun: every fire starts a run of its own.
NewRunAlways(k, out) ==
    /\ runs' = [runs EXCEPT ![k] = IF out = "busy" THEN @ ELSE out]
    /\ turns' = [turns EXCEPT ![k] = IF out = "busy" THEN @ ELSE @ + 1]

\* The run that a fire key names: a key that has a run gets that run's
\* result, and a refusal of a busy session gives the key back.
NewRun(k, out) ==
    IF runs[k] # "none"
      THEN out = runs[k] /\ UNCHANGED <<runs, turns>>
      ELSE /\ runs' = [runs EXCEPT ![k] = IF out = "busy" THEN @ ELSE out]
           /\ turns' = [turns EXCEPT ![k] = IF out = "busy" THEN @ ELSE @ + 1]

\* A scheduled fire that is not too late may wait for a busy session.
deferWhenBusy(t) == t \notin Manuals /\ task[t].at - task[t].slot <= MaxLate

TurnReturns(t) ==
    /\ task[t].pc = "turn"
    /\ \E out \in {"ok", "failed", "busy"} :
          /\ NewRun(Key(t), out)
          /\ task' = [task EXCEPT
                ![t].pc = IF out = "busy" /\ deferWhenBusy(t) THEN "record" ELSE "commit",
                ![t].res = CASE out # "busy" -> out
                             [] out = "busy" /\ deferWhenBusy(t) -> "deferred"
                             [] OTHER -> "refused"]
    /\ UNCHANGED <<clock, cron, jobs, journal, committed, lock, lease, paused, faults, edits>>

\* The call fails, while its run may have gone through or not.
TurnThrows(t) ==
    /\ task[t].pc = "turn" /\ Fault("throw")
    /\ \/ NewRun(Key(t), "ok") \/ UNCHANGED <<runs, turns>>
    /\ task' = [task EXCEPT ![t].pc = "record", ![t].res = "thrown"]
    /\ UNCHANGED <<clock, cron, jobs, journal, committed, lock, lease, paused, edits>>

Commit(t) ==
    /\ task[t].pc = "commit"
    /\ committed' = committed \cup {Key(t)}
    /\ Goto(t, "record")
    /\ UNCHANGED <<clock, cron, jobs, journal, runs, turns, lock, lease, paused, faults, edits>>

RecordFire(t) ==
    /\ task[t].pc = "record"
    /\ journal' = [journal EXCEPT ![Key(t)] = Row(IF task[t].res = "thrown" THEN "failed" ELSE task[t].res)]
    /\ Goto(t, CASE task[t].res = "deferred" -> "defer"
                 [] task[t].res = "thrown" -> "release"
                 [] OTHER -> IF Schedule = "oneshot" THEN "disable" ELSE "release")
    /\ UNCHANGED <<clock, cron, jobs, committed, runs, turns, lock, lease, paused, faults, edits>>

Defer(t) ==
    /\ task[t].pc = "defer"
    /\ cron' = [cron EXCEPT !.defer = clock + DeferBy]
    /\ Goto(t, "release")
    /\ UNCHANGED <<clock, jobs, journal, committed, runs, turns, lock, lease, paused, faults, edits>>

\* setEnabled(false): after a refusal, and after the fire of a one-shot.
Disable(t) ==
    /\ task[t].pc = "disable"
    /\ cron' = [cron EXCEPT !.enabled = FALSE]
    /\ Goto(t, "release")
    /\ UNCHANGED <<clock, jobs, journal, committed, runs, turns, lock, lease, paused, faults, edits>>

Release(t) ==
    /\ task[t].pc = "release"
    /\ lock' = IF lock = t THEN None ELSE lock
    /\ Returns(t, task[t].res)
    /\ UNCHANGED <<clock, cron, jobs, journal, committed, runs, turns, lease, paused, faults, edits>>

(***************************************************************************)
(* Sweeps, users, pauses and faults.                                       *)
(***************************************************************************)

\* A running row passes staleRunningMs.
Ages(k) ==
    /\ "ageing" \in Events
    /\ journal[k].status = "running" /\ ~journal[k].stale
    /\ journal' = [journal EXCEPT ![k].stale = TRUE]
    /\ UNCHANGED <<clock, cron, jobs, task, committed, runs, turns, lock, lease, paused, faults, edits>>

Stranded(k) == journal[k].status = "running" /\ journal[k].stale

SweepStranded ==
    /\ \E k \in Keys : Stranded(k)
    /\ journal' = [k \in Keys |-> IF Stranded(k) THEN [journal[k] EXCEPT !.status = "failed"] ELSE journal[k]]
    /\ UNCHANGED <<clock, cron, jobs, task, committed, runs, turns, lock, lease, paused, faults, edits>>

\* A user switches the cron on or off.
SetEnabled ==
    /\ Event("enable")
    /\ cron' = [cron EXCEPT !.enabled = ~@]
    /\ Notify(cron')
    /\ UNCHANGED <<clock, task, journal, committed, runs, turns, lock, lease, paused, faults>>

\* A user gives the cron a new schedule, which starts one interval from now.
Reschedule ==
    /\ Event("reschedule")
    /\ cron' = [cron EXCEPT !.next = clock + Every]
    /\ Notify(cron')
    /\ UNCHANGED <<clock, task, journal, committed, runs, turns, lock, lease, paused, faults>>

\* stopClaims, then start: what was under way belongs to an older epoch.
Pause(p) ==
    /\ p \in (Workers \cup Tickers) \ paused
    /\ Event("pause")
    /\ paused' = paused \cup {p}
    /\ lease' = IF lease = p /\ p \in Workers THEN None ELSE lease
    /\ task' = [task EXCEPT ![p].fenced = task[p].pc # "idle"]
    /\ UNCHANGED <<clock, cron, jobs, journal, committed, runs, turns, lock, faults>>

Resume(p) ==
    /\ p \in paused
    /\ paused' = paused \ {p}
    /\ UNCHANGED <<clock, cron, jobs, task, journal, committed, runs, turns, lock, lease, faults, edits>>

\* The process dies: its locks go with its connections, its run may finish.
Crash(t) ==
    /\ task[t].pc # "idle" /\ Fault("crash")
    /\ lock' = IF lock = t THEN None ELSE lock
    /\ lease' = IF lease = t THEN None ELSE lease
    /\ \/ UNCHANGED <<runs, turns>>
       \/ task[t].pc = "turn" /\ \E out \in {"ok", "failed"} : NewRun(Key(t), out)
    /\ Ends(t)
    /\ UNCHANGED <<clock, cron, jobs, journal, committed, paused, edits>>

\* The connection that holds the lock dies under a fire that goes on.
LockLost ==
    /\ lock # None /\ Fault("lock")
    /\ lock' = None
    /\ UNCHANGED <<clock, cron, jobs, task, journal, committed, runs, turns, lease, paused, edits>>

LeaseLost ==
    /\ lease # None /\ Fault("lease")
    /\ lease' = None
    /\ UNCHANGED <<clock, cron, jobs, task, journal, committed, runs, turns, lock, paused, edits>>

Tick ==
    /\ clock < MaxTime
    /\ clock' = clock + 1
    /\ UNCHANGED <<cron, jobs, task, journal, committed, runs, turns, lock, lease, paused, faults, edits>>

(***************************************************************************)
(* The specification.                                                      *)
(***************************************************************************)
Fire(t) ==
    \/ Lock(t) \/ LockTimeout(t) \/ AuthzFails(t) \/ Once(t) \/ TurnReturns(t) \/ TurnThrows(t)
    \/ Commit(t) \/ RecordFire(t) \/ Defer(t) \/ Disable(t) \/ Release(t)

WorkerStep(w) == Take(w) \/ Claim(w) \/ Claimed(w) \/ Unclaim(w) \/ Requeue(w) \/ Fire(w)

TickerStep(k) == Due(k) \/ FireDue(k) \/ MarkFired(k) \/ TickEnds(k) \/ Fire(k)

Next ==
    \/ \E w \in Workers : WorkerStep(w) \/ Reconcile(w) \/ Guard(w)
    \/ \E k \in Tickers : TickerStep(k)
    \/ \E m \in Manuals : RunNow(m) \/ Fire(m)
    \/ \E k \in Keys : Ages(k)
    \/ SweepStranded \/ SetEnabled \/ Reschedule
    \/ \E p \in Workers \cup Tickers : Pause(p) \/ Resume(p)
    \/ \E t \in Tasks : Crash(t)
    \/ LockLost \/ LeaseLost \/ Tick

Spec == Init /\ [][Next]_vars

\* Polling, ticks and sweeps go on for ever, a started fire takes its next
\* step, a pause ends, and no lock stays taken for ever by a live task.
FairSpec ==
    /\ Spec
    /\ \A w \in Workers : WF_vars(WorkerStep(w)) /\ WF_vars(Reconcile(w)) /\ WF_vars(Resume(w))
    /\ \A w \in Workers : SF_vars(Lock(w))
    /\ \A m \in Manuals : WF_vars(Fire(m))
    /\ \A k \in Keys : WF_vars(Ages(k))
    /\ WF_vars(SweepStranded) /\ WF_vars(Tick)

(***************************************************************************)
(* Properties.                                                             *)
(***************************************************************************)

TaskState ==
    [pc : {"idle", "claim", "claimed", "unclaim", "requeue", "due", "mark", "tickend", "lock", "trigger",
           "turn", "commit", "record", "defer", "disable", "release"},
     slot : Slots \cup {0}, at : 0..MaxTime, prior : 0..MaxTime,
     res : {"none", "ok", "failed", "refused", "deferred", "thrown", "authz", "skipped"}, fenced : BOOLEAN]

\* Every variable keeps its type, and a next fire is a slot of the schedule.
TypeOK ==
    /\ clock \in 1..MaxTime
    /\ cron \in [enabled : BOOLEAN, next : Slots \cup {0}, last : 0..MaxTime, defer : 0..(MaxTime + DeferBy)]
    /\ \A s \in Slots : jobs[s] = 0 \/ jobs[s] >= s
    /\ task \in [Tasks -> TaskState]
    /\ journal \in [Keys -> [status : {"none", "running", "silent", "ok", "failed", "refused", "deferred"},
                             stale : BOOLEAN]]
    /\ committed \subseteq Keys
    /\ runs \in [Keys -> {"none", "ok", "failed"}] /\ turns \in [Keys -> Nat]
    /\ lock \in Tasks \cup {None} /\ lease \in Workers \cup Tickers \cup {None}
    /\ paused \subseteq Workers \cup Tickers

\* A slot's turn runs at most once, whatever is retried, whichever of the
\* queue and the ticking peer fires it, and also when a lock is lost.
OneTurnPerSlot == \A k \in Keys : turns[k] <= 1

\* No two runs on demand are under way at once, unless one has gone stale.
ManualExclusive ==
    Cardinality({m \in Manuals : journal[m].status = "running" /\ ~journal[m].stale}) <= 1

\* Unless its process died, a slot of a calendar schedule that was claimed
\* has been fired when the schedule moves on: no pause, refusal, timeout or
\* failure between the claim and the fire uses the slot up.
ClaimsAreFired ==
    (Schedule = "calendar" /\ cron.next > Every /\ \A t \in Workers \cup Tickers : task[t].pc = "idle")
        => journal[cron.next - Every].status \in {"ok", "failed", "refused"}

\* A one-shot that no user has touched is never enabled with nothing left to
\* fire, once no fire of it is under way: it has fired and is disabled, or it
\* will fire.
OneShotEnds ==
    (Schedule = "oneshot" /\ edits = 0 /\ cron.enabled /\ \A t \in Workers \cup Tickers : task[t].pc = "idle")
        => cron.next # 0

\* A busy fire releases its slot: the cron's next fire is the deferred slot
\* again when the fire goes on to queue it.
DeferredReleases ==
    [][\A w \in Workers : task[w].pc = "unclaim" /\ task'[w].pc = "requeue" => cron'.next = task[w].slot]_task

\* A fire that throws is journaled as failed: a running row that is not stale
\* belongs to a fire that is under way.
RunningIsUnderWay ==
    \A k \in Keys : journal[k].status = "running" /\ ~journal[k].stale
        => \E t \in Tasks : task[t].pc # "idle" /\ Key(t) = k

\* A rescheduled cron is not immediately due: no step of a fire moves the
\* next fire that a new schedule has set back to an earlier slot.
RescheduleHolds ==
    [][(edits > 0 /\ edits' = edits /\ cron.next > clock) => (cron'.next = 0 \/ cron'.next >= cron.next)]_cron

\* A slot of a calendar schedule that is due is fired, however long its
\* session stays busy and whatever holds the lock, as long as the cron is not
\* switched off and the model's clock does not end before its deferral.
DueSlotFires ==
    Schedule = "calendar" => \A s \in 1..MaxTime :
        (cron.next = s /\ clock >= s)
            ~> (journal[s].status \in {"ok", "failed", "refused"} \/ ~cron.enabled \/ cron.defer > MaxTime)

=============================================================================
