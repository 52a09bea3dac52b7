--------------------------- MODULE WebTranscript ---------------------------
(***************************************************************************)
(* What a web conversation's transcript says about one run that ended      *)
(* while nobody was watching.  Three kinds of writers may record its       *)
(* outcome: the turn itself, the listener for ended runs (which records a  *)
(* failure) and the drains of the outbox (which record what the outbox row *)
(* says before they show the row to the web UI).  All of them write under  *)
(* the session's lease, look at the tail of the transcript first and must  *)
(* not repeat one another.                                                 *)
(*                                                                         *)
(*   run      running, in the reaper's hands ("fenced", "unlocked"), or    *)
(*            how it ended: "replied" (its own reply is in the             *)
(*            transcript), "lost" (it is not), "failed"                    *)
(*   turn     the lease token the turn works under, 0 when it is over      *)
(*   entries  the transcript: "own" (the turn's reply), "reply" (recorded  *)
(*            from the outbox), "failure" and "other" entries              *)
(*   lease    the token of the session's lease, 0 when it is free          *)
(*   hook     the listener's progress, dr[i] that of instance i's drain:   *)
(*            pc, token, and whether the scan found nothing                *)
(*   known    instances that remember the row as recorded                  *)
(*   shown    the web UI has been given the row; overdue: it may be given  *)
(*            without a record                                             *)
(*                                                                         *)
(* One attempt of the run is modelled, the session exists, and the reply   *)
(* has no attachments.  Fewer than ScanLimit entries follow a record: see  *)
(* the assumption.                                                         *)
(***************************************************************************)
EXTENDS DeliveryStore, Sequences, SequencesExt

CONSTANTS
    Instances,     \* core processes that serve GET /v1/deliveries?type=web
    ScanLimit,     \* DEDUPE_SCAN_LIMIT and FAILURE_RECORD_SCAN_LIMIT
    MaxOther,      \* bound: entries of other turns
    MaxLeases,     \* bound: leases issued
    MaxFaults,     \* bound: failed writes and restarts
    GoesOverdue    \* whether the row outlives WRITE_GIVEUP_MS

VARIABLES run, turn, entries, lease, issued, row, hook, dr, known, shown, overdue, faults

vars == <<run, turn, entries, lease, issued, row, hook, dr, known, shown, overdue, faults>>

Off == [pc |-> "off", token |-> 0]

Init ==
    /\ run = "running" /\ turn = 1 /\ lease = 1 /\ issued = 1
    /\ entries = <<>>
    /\ row = NoRow
    /\ hook = Off
    /\ dr = [i \in Instances |-> Off]
    /\ known = {} /\ shown = FALSE /\ overdue = FALSE
    /\ faults = 0

Fault == faults < MaxFaults /\ faults' = faults + 1

Count(what) == Len(SelectSeq(entries, LAMBDA e : e = what))

\* The part of the transcript that a scan reads.
Tail200 == IF Len(entries) > ScanLimit
             THEN SubSeq(entries, Len(entries) - ScanLimit + 1, Len(entries)) ELSE entries

InTail(what) == what \in ToSet(Tail200)

(***************************************************************************)
(* The turn.  An append under a lease that is no longer the session's is   *)
(* refused; the turn swallows a failed failure record.                     *)
(***************************************************************************)

\* The turn ends and the worker reports it: with its reply recorded, with a
\* reply that did not get recorded, or failed with or without a record.
TurnEnds ==
    /\ run = "running" /\ turn # 0
    /\ \/ /\ run' = "replied" /\ turn = lease /\ entries' = Append(entries, "own")
       \/ /\ run' = "lost" /\ UNCHANGED entries
       \/ /\ run' = "failed" /\ entries' = IF turn = lease THEN Append(entries, "failure") ELSE entries
       \/ /\ run' = "failed" /\ UNCHANGED entries
    /\ lease' = IF lease = turn THEN 0 ELSE lease
    /\ turn' = 0
    /\ UNCHANGED <<issued, row, hook, dr, known, shown, overdue, faults>>

\* The run's lease lapsed: the reaper fences the worker off the run, ...
ReapFences ==
    /\ run = "running"
    /\ run' = "fenced"
    /\ UNCHANGED <<turn, entries, lease, issued, row, hook, dr, known, shown, overdue, faults>>

\* ... deletes the session's lease, whoever holds it, ...
ReapUnlocks ==
    /\ run = "fenced"
    /\ run' = "unlocked" /\ lease' = 0
    /\ UNCHANGED <<turn, entries, issued, row, hook, dr, known, shown, overdue, faults>>

\* ... and parks the run as failed.
Parked ==
    /\ run = "unlocked"
    /\ run' = "failed"
    /\ UNCHANGED <<turn, entries, lease, issued, row, hook, dr, known, shown, overdue, faults>>

\* The turn of a fenced worker ends: while it still has the session's lease
\* its reply or its failure is recorded; its report of the run is refused.
ZombieEnds ==
    /\ run \in {"fenced", "unlocked", "failed"} /\ turn # 0
    /\ \/ turn = lease /\ \E e \in {"own", "failure"} : entries' = Append(entries, e)
       \/ UNCHANGED entries
    /\ lease' = IF lease = turn THEN 0 ELSE lease
    /\ turn' = 0
    /\ UNCHANGED <<run, issued, row, hook, dr, known, shown, overdue, faults>>

\* Any other writer of the session: takes the free lease, appends, releases.
OtherEntry ==
    /\ lease = 0 /\ Count("other") < MaxOther /\ issued < MaxLeases
    /\ issued' = issued + 1
    /\ entries' = Append(entries, "other")
    /\ UNCHANGED <<run, turn, lease, row, hook, dr, known, shown, overdue, faults>>

\* The lease runs out under its holder.
LeaseExpires ==
    /\ lease # 0
    /\ lease' = 0
    /\ UNCHANGED <<run, turn, entries, issued, row, hook, dr, known, shown, overdue, faults>>

(***************************************************************************)
(* The listener for ended runs: the outbox row, and the failure record.    *)
(***************************************************************************)

\* runResultDelivery: a failed run and a reply get a row.
EnqueueResult ==
    /\ run \in {"replied", "lost", "failed"} /\ row.status = "none"
    /\ row' = Enqueue(row)
    /\ UNCHANGED <<run, turn, entries, lease, issued, hook, dr, known, shown, overdue, faults>>

\* A free lease is granted under a fresh token.  When MaxLeases are used up
\* the session stands for one that is busy whenever it is asked for.
Granted == lease = 0 /\ issued < MaxLeases /\ issued' = issued + 1 /\ lease' = issued + 1

\* recordRunFailureEntry waits for the lease; after ten minutes it gives up.
HookStarts ==
    /\ run = "failed" /\ hook.pc = "off"
    /\ \/ Granted /\ hook' = [pc |-> "scan", token |-> issued + 1] /\ UNCHANGED faults
       \/ lease # 0 /\ Fault /\ hook' = [Off EXCEPT !.pc = "done"] /\ UNCHANGED <<lease, issued>>
    /\ UNCHANGED <<run, turn, entries, row, dr, known, shown, overdue>>

\* Any failure entry of this run in the tail is recognised, whoever wrote it.
HookScans ==
    /\ hook.pc = "scan"
    /\ hook' = [hook EXCEPT !.pc = IF InTail("failure") THEN "release" ELSE "append"]
    /\ UNCHANGED <<run, turn, entries, lease, issued, row, dr, known, shown, overdue, faults>>

\* The append is fenced; what it throws, the listener reports and forgets.
HookAppends ==
    /\ hook.pc = "append"
    /\ \/ hook.token = lease /\ entries' = Append(entries, "failure") /\ UNCHANGED faults
       \/ hook.token # lease /\ UNCHANGED <<entries, faults>>
       \/ Fault /\ UNCHANGED entries
    /\ hook' = [hook EXCEPT !.pc = "release"]
    /\ UNCHANGED <<run, turn, lease, issued, row, dr, known, shown, overdue>>

HookReleases ==
    /\ hook.pc = "release"
    /\ lease' = IF lease = hook.token THEN 0 ELSE lease
    /\ hook' = [Off EXCEPT !.pc = "done"]
    /\ UNCHANGED <<run, turn, entries, issued, row, dr, known, shown, overdue, faults>>

(***************************************************************************)
(* The drain of one instance, which runs inside every read of the outbox.  *)
(***************************************************************************)
Release(i) == lease' = IF lease = dr[i].token THEN 0 ELSE lease

\* classify: the reply that the turn has recorded itself needs no delivery.
Settled == run = "replied"

\* pending("web"): a settled row is acknowledged, a recorded or overdue one
\* is shown, any other needs the lease before it can be recorded.
DrainReads(i) ==
    /\ row.status = "open" /\ dr[i].pc = "off"
    /\ \/ /\ Settled
          /\ row' = Ack(row)
          /\ UNCHANGED <<lease, issued, dr, known, shown>>
       \/ /\ ~Settled /\ (i \in known \/ overdue)
          /\ shown' = TRUE /\ known' = known \cup {i}
          /\ UNCHANGED <<row, lease, issued, dr>>
       \/ /\ ~Settled /\ i \notin known /\ ~overdue
          /\ Granted
          /\ dr' = [dr EXCEPT ![i] = [pc |-> "scan", token |-> issued + 1]]
          /\ UNCHANGED <<row, known, shown>>
    /\ UNCHANGED <<run, turn, entries, hook, overdue, faults>>

\* Mutant of Repeats: the drain looks for its own entry only.
RepeatsOwn == InTail("reply")

\* The entry carries the row's key, or is a failure record of this run.
Repeats == IF run = "failed" THEN InTail("failure") ELSE InTail("reply")

DrainScans(i) ==
    /\ dr[i].pc = "scan"
    /\ dr' = [dr EXCEPT ![i].pc = IF Repeats THEN "found" ELSE "append"]
    /\ UNCHANGED <<run, turn, entries, lease, issued, row, hook, known, shown, overdue, faults>>

\* appendEntryOutsideTurn: refused under a stale lease; the tape row after
\* the entry may fail, and then the whole write counts as failed.
DrainAppends(i) ==
    /\ dr[i].pc = "append"
    /\ LET written == entries' = Append(entries, IF run = "failed" THEN "failure" ELSE "reply")
       IN \/ /\ dr[i].token = lease /\ written /\ UNCHANGED faults
             /\ dr' = [dr EXCEPT ![i].pc = "found"]
          \/ /\ dr[i].token = lease /\ written /\ Fault
             /\ dr' = [dr EXCEPT ![i].pc = "release"]
          \/ /\ dr[i].token # lease /\ UNCHANGED <<entries, faults>>
             /\ dr' = [dr EXCEPT ![i].pc = "release"]
          \/ /\ Fault /\ UNCHANGED entries
             /\ dr' = [dr EXCEPT ![i].pc = "release"]
    /\ UNCHANGED <<run, turn, lease, issued, row, hook, known, shown, overdue>>

\* The lease goes back; a recorded row is remembered and shown, a failed
\* write is tried again by the next read.
DrainReleases(i) ==
    /\ dr[i].pc \in {"found", "release"}
    /\ Release(i)
    /\ dr' = [dr EXCEPT ![i] = Off]
    /\ IF dr[i].pc = "found"
         THEN known' = known \cup {i} /\ shown' = TRUE ELSE UNCHANGED <<known, shown>>
    /\ UNCHANGED <<run, turn, entries, issued, row, hook, overdue, faults>>

\* The web UI server pushes the row to its clients, or gives up waiting for
\* one, and acknowledges it.
Nudge ==
    /\ shown /\ row.status = "open"
    /\ row' = Ack(row)
    /\ UNCHANGED <<run, turn, entries, lease, issued, hook, dr, known, shown, overdue, faults>>

Overdue ==
    /\ GoesOverdue /\ ~overdue /\ row.status = "open"
    /\ overdue' = TRUE
    /\ UNCHANGED <<run, turn, entries, lease, issued, row, hook, dr, known, shown, faults>>

\* An instance dies with its lease held and comes back without its memory.
Restart(i) ==
    /\ Fault
    /\ dr' = [dr EXCEPT ![i] = Off]
    /\ known' = known \ {i}
    /\ UNCHANGED <<run, turn, entries, lease, issued, row, hook, shown, overdue>>

Drain(i) == DrainReads(i) \/ DrainScans(i) \/ DrainAppends(i) \/ DrainReleases(i)

Next ==
    \/ TurnEnds \/ ReapFences \/ ReapUnlocks \/ Parked \/ ZombieEnds \/ OtherEntry \/ LeaseExpires
    \/ EnqueueResult \/ HookStarts \/ HookScans \/ HookAppends \/ HookReleases
    \/ Nudge \/ Overdue
    \/ \E i \in Instances : Drain(i) \/ Restart(i)

Spec == Init /\ [][Next]_vars

\* The web UI polls for ever, an abandoned lease expires, a turn ends.
FairSpec ==
    /\ Spec
    /\ WF_vars(TurnEnds) /\ WF_vars(ZombieEnds) /\ WF_vars(EnqueueResult) /\ WF_vars(LeaseExpires)
    /\ WF_vars(HookStarts) /\ WF_vars(HookScans) /\ WF_vars(HookAppends) /\ WF_vars(HookReleases)
    /\ WF_vars(Nudge) /\ WF_vars(Overdue)
    /\ \A i \in Instances : WF_vars(Drain(i))

(***************************************************************************)
(* Properties.                                                             *)
(***************************************************************************)

\* Every variable keeps its type; no holder has a token that was not issued.
TypeOK ==
    /\ run \in {"running", "fenced", "unlocked", "replied", "lost", "failed"}
    /\ turn \in 0..1 /\ issued \in 1..MaxLeases /\ lease \in 0..issued
    /\ entries \in Seq({"own", "reply", "failure", "other"})
    /\ row \in RowType
    /\ hook.pc \in {"off", "scan", "append", "release", "done"} /\ hook.token \in 0..issued
    /\ \A i \in Instances :
          dr[i].pc \in {"off", "scan", "append", "found", "release"} /\ dr[i].token \in 0..issued
    /\ known \subseteq Instances /\ shown \in BOOLEAN /\ overdue \in BOOLEAN
    /\ faults \in 0..MaxFaults

\* The transcript never says twice that this run failed, whichever of the
\* turn, the listener and the drains of several instances got to say it.
OneFailure == Count("failure") <= 1

\* The transcript never holds the reply twice: a recorded reply is not
\* recorded again after a restart, a failed write or a lost lease.
OneReply == Count("own") + Count("reply") <= 1

\* The web UI is told of the row only after the transcript says what the row
\* says, except when the write has been given up as overdue.
ShownMeansRecorded == shown => overdue \/ Count("failure") > 0 \/ Count("reply") > 0

\* The row is in the end acknowledged, also when the session stays busy.
RowSettles == row.status = "open" ~> row.status = "delivered"

=============================================================================
