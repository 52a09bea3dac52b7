----------------------------- MODULE RunSignals -----------------------------
(***************************************************************************)
(* Messages sent to a run that already exists.  A client aborts the run or *)
(* steers it, with a new message or with one that waits in the queue as a  *)
(* run of its own (signalRun, steerQueued).  The signal is a row; the      *)
(* attempt that executes the run polls the rows and hands them to the      *)
(* model (startSignalPoll); the rows that are left when the run is over    *)
(* become runs of their own (replayOrphanedRunSignals), which the caller,  *)
(* the hook on the end of the run and a sweeper may all do at once.        *)
(*                                                                         *)
(* The model follows the signals of one run.  Every message is signalled   *)
(* once; a pending row is read in the order of the inserts.                *)
(***************************************************************************)
EXTENDS Naturals, Sequences, SequencesExt

CONSTANTS Steers,       \* messages meant for the model
          Waiting,      \* the steers that are queued as runs of their own
          Aborts,       \* requests to abort the run
          Sweepers,     \* processes that replay: the terminal hook, the sweeper
          Subagent,     \* is the run's thread a subagent thread?
          Declines,     \* does the harness refuse steers once the model is done?
          DrainOnStop,  \* does the poll drain once more when it is stopped?
          MaxAttempts,  \* attempts of the run
          MaxFaults     \* bound on crashes and failing calls

Msgs == Steers \cup Aborts
Attempts == 1 .. MaxAttempts
Drainers == Msgs \cup Sweepers

VARIABLES
    target,     \* the run: its status and the attempt that holds its lease
    queued,     \* a waiting steer's own run: "waiting", "moved" or "started"
    rows,       \* run_signals: "none", "pending" or "consumed" per message
    order,      \* the messages in the order of their rows
    calls,      \* signalRun, per message: where it is and what it answered
    poll,       \* startSignalPoll, per attempt
    hands,      \* replayOrphanedRunSignals, per process
    delivered,  \* how often a steer was given to the model
    replays,    \* how many runs were made of a steer
    refused,    \* steers whose replay was refused for good
    dropped,    \* steers consumed by a replay that failed
    lost,       \* did an attempt lose the run while it executed it?
    blocked,    \* does a pending approval block the thread?
    faults

vars == <<target, queued, rows, order, calls, poll, hands, delivered, replays,
          refused, dropped, lost, blocked, faults>>
fates == <<delivered, replays, refused, dropped>>

IdlePoll == [live |-> FALSE, streaming |-> FALSE, accepting |-> FALSE,
             draining |-> "no", redrain |-> FALSE, list |-> <<>>,
             given |-> FALSE, declined |-> {}]
IdleHand == [pc |-> "idle", items |-> <<>>, own |-> "none"]

TypeOK ==
    /\ target \in [status : {"pending", "running", "terminal"}, owner : 0 .. MaxAttempts]
    /\ queued \in [Waiting -> {"waiting", "moved", "started"}]
    /\ rows \in [Msgs -> {"none", "pending", "consumed"}]
    /\ order \in Seq(Msgs)
    /\ calls \in [Msgs -> {"idle", "checked", "sent", "draining", "accepted",
                           "terminal", "replayed", "started"}]
    /\ poll \in [Attempts ->
          [live : BOOLEAN, streaming : BOOLEAN, accepting : BOOLEAN,
           draining : {"no", "asked", "busy"}, redrain : BOOLEAN,
           list : Seq(Msgs), given : BOOLEAN, declined : SUBSET Steers]]
    /\ hands \in [Drainers ->
          [pc : {"idle", "item", "refused", "enqueued"}, items : Seq(Msgs),
           own : {"none", "replayed", "lost"}]]
    /\ delivered \in [Steers -> Nat] /\ replays \in [Steers -> Nat]
    /\ refused \subseteq Steers /\ dropped \subseteq Steers
    /\ lost \in BOOLEAN /\ blocked \in BOOLEAN /\ faults \in 0 .. MaxFaults

Init ==
    /\ target = [status |-> "pending", owner |-> 0]
    /\ queued = [m \in Waiting |-> "waiting"]
    /\ rows = [m \in Msgs |-> "none"] /\ order = <<>>
    /\ calls = [m \in Msgs |-> "idle"]
    /\ poll = [a \in Attempts |-> IdlePoll]
    /\ hands = [d \in Drainers |-> IdleHand]
    /\ delivered = [m \in Steers |-> 0] /\ replays = [m \in Steers |-> 0]
    /\ refused = {} /\ dropped = {} /\ lost = FALSE
    /\ blocked = FALSE /\ faults = 0

Terminal == target.status = "terminal"

Fault == faults < MaxFaults /\ faults' = faults + 1

\* pending(): the rows not consumed, in the order of their ids.
pending == SelectSeq(order, LAMBDA m : rows[m] = "pending")

-----------------------------------------------------------------------------
(* The client's call.                                                      *)

\* signalRun up to the statement that stores the signal: a run that is over
\* takes no signals, and a waiting message must still wait.
SignalRun(m) ==
    /\ calls[m] = "idle"
    /\ calls' = [calls EXCEPT ![m] =
          IF Terminal THEN "terminal"
          ELSE IF m \in Waiting /\ queued[m] # "waiting" THEN "started"
          ELSE "checked"]
    /\ UNCHANGED <<target, queued, rows, order, poll, hands, fates, lost, blocked, faults>>

Insert(m) ==
    /\ rows' = [rows EXCEPT ![m] = "pending"]
    /\ order' = Append(order, m)

\* The insert does not look at the run, which may be over by now.
Send(m) ==
    /\ calls[m] = "checked" /\ m \notin Waiting
    /\ Insert(m)
    /\ calls' = [calls EXCEPT ![m] = "sent"]
    /\ UNCHANGED <<target, queued, poll, hands, fates, lost, blocked, faults>>

\* One statement deletes the waiting run and stores the signal, provided that
\* the run still waits and the target is not over.
SteerQueued(m) ==
    /\ calls[m] = "checked" /\ m \in Waiting
    /\ IF queued[m] = "waiting" /\ ~Terminal
       THEN /\ Insert(m)
            /\ queued' = [queued EXCEPT ![m] = "moved"]
            /\ calls' = [calls EXCEPT ![m] = "sent"]
       ELSE /\ calls' = [calls EXCEPT ![m] = "started"]
            /\ UNCHANGED <<queued, rows, order>>
    /\ UNCHANGED <<target, poll, hands, fates, lost, blocked, faults>>

\* The second look at the run: if it is over the caller replays what is left.
LookAgain(m) ==
    /\ calls[m] = "sent"
    /\ calls' = [calls EXCEPT ![m] = IF Terminal THEN "draining" ELSE "accepted"]
    /\ UNCHANGED <<target, queued, rows, order, poll, hands, fates, lost, blocked, faults>>

\* The answer after the caller's own replay.
Answer(m) ==
    /\ calls[m] = "draining" /\ hands[m].pc = "item" /\ hands[m].items = <<>>
    /\ calls' = [calls EXCEPT ![m] =
          IF m \in Aborts \/ hands[m].own = "lost" THEN "terminal" ELSE "replayed"]
    /\ hands' = [hands EXCEPT ![m] = IdleHand]
    /\ UNCHANGED <<target, queued, rows, order, poll, fates, lost, blocked, faults>>

\* A waiting run is claimed as soon as the target no longer blocks its thread.
StartWaiting(m) ==
    /\ Terminal /\ queued[m] = "waiting"
    /\ queued' = [queued EXCEPT ![m] = "started"]
    /\ UNCHANGED <<target, rows, order, calls, poll, hands, fates, lost, blocked, faults>>

-----------------------------------------------------------------------------
(* The run and its attempts.                                               *)

\* An attempt claims the run, streams from the model and starts its poll.
Claim ==
    /\ target.status = "pending"
    /\ target' = [status |-> "running", owner |-> target.owner + 1]
    /\ poll' = [poll EXCEPT ![target.owner + 1] =
          [IdlePoll EXCEPT !.live = TRUE, !.streaming = TRUE, !.accepting = TRUE]]
    /\ UNCHANGED <<queued, rows, order, calls, hands, fates, lost, blocked, faults>>

ModelDone(a) ==
    /\ poll[a].live /\ poll[a].streaming
    /\ poll' = [poll EXCEPT ![a].streaming = FALSE]
    /\ UNCHANGED <<target, queued, rows, order, calls, hands, fates, lost, blocked, faults>>

\* drain() while the poll accepts calls: by the timer, or for a notification.
Asked(p) == IF p.draining = "no" THEN [p EXCEPT !.draining = "asked"]
                                 ELSE [p EXCEPT !.redrain = TRUE]

Ring(a) ==
    /\ poll[a].live /\ poll[a].accepting
    /\ poll' = [poll EXCEPT ![a] = Asked(@)]
    /\ UNCHANGED <<target, queued, rows, order, calls, hands, fates, lost, blocked, faults>>

ReadPending(a) ==
    /\ poll[a].live /\ poll[a].draining = "asked"
    /\ poll' = [poll EXCEPT ![a].draining = "busy", ![a].list = pending]
    /\ UNCHANGED <<target, queued, rows, order, calls, hands, fates, lost, blocked, faults>>

AtItem(a) == poll[a].live /\ poll[a].draining = "busy" /\ poll[a].list # <<>>
Handled(a) == [poll[a] EXCEPT !.list = Tail(@), !.given = FALSE]

\* An abort interrupts the model and is not acknowledged.
HandleAbort(a) ==
    /\ AtItem(a) /\ Head(poll[a].list) \in Aborts
    /\ poll' = [poll EXCEPT ![a] = [Handled(a) EXCEPT !.streaming = FALSE]]
    /\ UNCHANGED <<target, queued, rows, order, calls, hands, fates, lost, blocked, faults>>

AtSteer(a) == AtItem(a) /\ Head(poll[a].list) \in Steers /\ ~poll[a].given

\* onSteer gives the text to the model.
GiveSteer(a) ==
    /\ AtSteer(a)
    /\ LET m == Head(poll[a].list) IN
       /\ m \notin poll[a].declined
       /\ Declines => poll[a].streaming
       /\ delivered' = [delivered EXCEPT ![m] = @ + 1]
    /\ poll' = [poll EXCEPT ![a].given = TRUE]
    /\ UNCHANGED <<target, queued, rows, order, calls, hands, replays, refused,
                   dropped, lost, blocked, faults>>

\* onSteer returns false, or declined the steer before: the row stays pending.
DeclineSteer(a) ==
    /\ AtSteer(a)
    /\ LET m == Head(poll[a].list) IN
       /\ m \in poll[a].declined \/ (Declines /\ ~poll[a].streaming)
       /\ poll' = [poll EXCEPT ![a] = [Handled(a) EXCEPT !.declined = @ \cup {m}]]
    /\ UNCHANGED <<target, queued, rows, order, calls, hands, fates, lost, blocked, faults>>

Acknowledge(a) ==
    /\ AtItem(a) /\ poll[a].given
    /\ rows' = [rows EXCEPT ![Head(poll[a].list)] = "consumed"]
    /\ poll' = [poll EXCEPT ![a] = Handled(a)]
    /\ UNCHANGED <<target, queued, order, calls, hands, fates, lost, blocked, faults>>

\* A handler or the acknowledgement fails; the poll goes on with the next row.
SignalError(a) ==
    /\ AtItem(a) /\ Fault
    /\ poll' = [poll EXCEPT ![a] = Handled(a)]
    /\ UNCHANGED <<target, queued, rows, order, calls, hands, fates, lost, blocked>>

\* The end of a drain: another one if asked for and the poll still accepts.
EndDrain(a) ==
    /\ poll[a].live /\ poll[a].draining = "busy" /\ poll[a].list = <<>>
    /\ poll' = [poll EXCEPT ![a].redrain = FALSE, ![a].draining =
          IF poll[a].redrain /\ poll[a].accepting THEN "asked" ELSE "no"]
    /\ UNCHANGED <<target, queued, rows, order, calls, hands, fates, lost, blocked, faults>>

StopPoll(a) ==
    /\ poll[a].live /\ ~poll[a].streaming /\ poll[a].accepting
    /\ LET closed == [poll[a] EXCEPT !.accepting = FALSE]
       IN poll' = [poll EXCEPT ![a] = IF DrainOnStop THEN Asked(closed) ELSE closed]
    /\ UNCHANGED <<target, queued, rows, order, calls, hands, fates, lost, blocked, faults>>

\* stop() returned once no drain was under way; the attempt completes the run,
\* if it still holds it.
Stopped(a) == ~poll[a].accepting /\ poll[a].draining = "no"

CompleteRun(a) ==
    /\ poll[a].live /\ Stopped(a)
    /\ poll' = [poll EXCEPT ![a] = IdlePoll]
    /\ target' = IF target = [status |-> "running", owner |-> a]
                 THEN [target EXCEPT !.status = "terminal"] ELSE target
    /\ UNCHANGED <<queued, rows, order, calls, hands, fates, lost, blocked, faults>>

\* The attempt's process dies.
AttemptCrash(a) ==
    /\ poll[a].live /\ Fault
    /\ poll' = [poll EXCEPT ![a] = IdlePoll]
    /\ UNCHANGED <<target, queued, rows, order, calls, hands, fates, lost, blocked>>

\* The lease lapsed, whether or not the attempt is alive: the run is queued
\* again, or parked after its last attempt.
Reap(a) ==
    /\ target = [status |-> "running", owner |-> a]
    /\ IF poll[a].live THEN Fault ELSE UNCHANGED faults
    /\ target' = [target EXCEPT !.status =
          IF a = MaxAttempts THEN "terminal" ELSE "pending"]
    /\ lost' = TRUE
    /\ UNCHANGED <<queued, rows, order, calls, poll, hands, fates, blocked>>

-----------------------------------------------------------------------------
(* The replay of what the run left.                                        *)

MayDrain(d) ==
    /\ hands[d].pc = "idle"
    /\ d \in Msgs => calls[d] = "draining"
    /\ Terminal

\* Ordinary threads: takePending consumes the rows and then replays them.
TakePending(d) ==
    /\ ~Subagent /\ MayDrain(d)
    /\ d \in Sweepers => pending # <<>>
    /\ hands' = [hands EXCEPT ![d] = [IdleHand EXCEPT !.pc = "item", !.items = pending]]
    /\ rows' = [m \in Msgs |-> IF rows[m] = "pending" THEN "consumed" ELSE rows[m]]
    /\ UNCHANGED <<target, queued, order, calls, poll, fates, lost, blocked, faults>>

\* Mutant of ListPending: the acknowledgement precedes the enqueue.
AcknowledgeFirst(d) ==
    /\ Subagent /\ MayDrain(d)
    /\ d \in Sweepers => pending # <<>>
    /\ hands' = [hands EXCEPT ![d] = [IdleHand EXCEPT !.pc = "item", !.items = pending]]
    /\ rows' = [m \in Msgs |-> IF rows[m] = "pending" THEN "consumed" ELSE rows[m]]
    /\ UNCHANGED <<target, queued, order, calls, poll, fates, lost, blocked, faults>>

\* Subagent threads: the rows are read, and acknowledged one by one.
ListPending(d) ==
    /\ Subagent /\ MayDrain(d)
    /\ d \in Sweepers => pending # <<>>
    /\ hands' = [hands EXCEPT ![d] = [IdleHand EXCEPT !.pc = "item", !.items = pending]]
    /\ UNCHANGED <<target, queued, rows, order, calls, poll, fates, lost, blocked, faults>>

Item(d) == Head(hands[d].items)
AtReplay(d, pc) == hands[d].pc = pc /\ hands[d].items # <<>>

\* On to the next row; a caller remembers what became of its own message.
NextItem(d, fate) ==
    [hands EXCEPT ![d] = [pc |-> "item", items |-> Tail(@.items),
                          own |-> IF Item(d) = d THEN fate ELSE @.own]]

\* An abort needs no replay; only subagent threads still have its row pending.
ReplayAbort(d) ==
    /\ AtReplay(d, "item") /\ Item(d) \in Aborts
    /\ rows' = [rows EXCEPT ![Item(d)] = "consumed"]
    /\ hands' = NextItem(d, "none")
    /\ UNCHANGED <<target, queued, order, calls, poll, fates, lost, blocked, faults>>

\* The message is submitted as a turn.  It becomes a run, is answered without one,
\* or the call fails.
ReplaySteer(d) ==
    /\ ~Subagent /\ AtReplay(d, "item") /\ Item(d) \in Steers
    /\ \/ /\ replays' = [replays EXCEPT ![Item(d)] = @ + 1]
          /\ hands' = NextItem(d, "replayed")
          /\ UNCHANGED <<dropped, faults>>
       \/ /\ hands' = [hands EXCEPT ![d].pc = "refused"]
          /\ UNCHANGED <<replays, dropped, faults>>
       \/ /\ Fault
          /\ dropped' = dropped \cup {Item(d)}
          /\ hands' = NextItem(d, "lost")
          /\ UNCHANGED replays
    /\ UNCHANGED <<target, queued, rows, order, calls, poll, delivered, refused, lost, blocked>>

\* A message answered without a run becomes one with the request of the run that is over.
ReplayRefused(d) ==
    /\ ~Subagent /\ AtReplay(d, "refused")
    /\ \/ /\ replays' = [replays EXCEPT ![Item(d)] = @ + 1]
          /\ hands' = NextItem(d, "replayed")
          /\ UNCHANGED <<dropped, faults>>
       \/ /\ Fault
          /\ dropped' = dropped \cup {Item(d)}
          /\ hands' = NextItem(d, "lost")
          /\ UNCHANGED replays
    /\ UNCHANGED <<target, queued, rows, order, calls, poll, delivered, refused, lost, blocked>>

\* Somebody is asked for an approval in the thread, or the last one is answered.
\* Only the replay of a subagent's signal looks.
ApprovalChanges ==
    /\ Subagent /\ Terminal
    /\ blocked' = ~blocked
    /\ UNCHANGED <<target, queued, rows, order, calls, poll, hands, fates, lost, faults>>

\* A turn is answered without a run while an approval blocks the thread, and when
\* the run its key finds has ended, which any replay before may have.
Runless(m) == blocked \/ replays[m] > 0

\* Subagent threads enqueue under a key made of the run and the row, so that a
\* second replay finds the first one's run.  The message may also be refused; or
\* it is answered without a run, and its row stays; or the call fails: then the
\* drain ends and the row stays.  (A signal that carries a whole request is
\* enqueued without the turn's checks: blocked or not, it becomes a run.)
EnqueueReplay(d) ==
    /\ Subagent /\ AtReplay(d, "item") /\ Item(d) \in Steers
    /\ \/ /\ replays' = [replays EXCEPT ![Item(d)] = IF @ = 0 THEN 1 ELSE @]
          /\ hands' = [hands EXCEPT ![d].pc = "enqueued"]
          /\ UNCHANGED <<refused, faults>>
       \/ /\ refused' = refused \cup {Item(d)}
          /\ hands' = [hands EXCEPT ![d].pc = "refused"]
          /\ UNCHANGED <<replays, faults>>
       \/ /\ Runless(Item(d))
          /\ hands' = NextItem(d, "none")
          /\ UNCHANGED <<replays, refused, faults>>
       \/ /\ Fault
          /\ hands' = [hands EXCEPT ![d] = [pc |-> "item", items |-> <<>>, own |-> @.own]]
          /\ UNCHANGED <<replays, refused>>
    /\ UNCHANGED <<target, queued, rows, order, calls, poll, delivered, dropped, lost, blocked>>

AcknowledgeReplay(d) ==
    /\ Subagent
    /\ AtReplay(d, "enqueued") \/ AtReplay(d, "refused")
    /\ rows' = [rows EXCEPT ![Item(d)] = "consumed"]
    /\ hands' = NextItem(d, IF hands[d].pc = "refused" THEN "lost" ELSE "replayed")
    /\ UNCHANGED <<target, queued, order, calls, poll, fates, lost, blocked, faults>>

EndReplay(d) ==
    /\ d \in Sweepers /\ hands[d].pc = "item" /\ hands[d].items = <<>>
    /\ hands' = [hands EXCEPT ![d] = IdleHand]
    /\ UNCHANGED <<target, queued, rows, order, calls, poll, fates, lost, blocked, faults>>

\* The replaying process dies with what it had taken.
ReplayCrash(d) ==
    /\ d \in Sweepers /\ hands[d].items # <<>> /\ Fault
    /\ dropped' = IF Subagent THEN dropped
                  ELSE dropped \cup (Steers \cap ToSet(hands[d].items))
    /\ hands' = [hands EXCEPT ![d] = IdleHand]
    /\ UNCHANGED <<target, queued, rows, order, calls, poll, delivered, replays,
                   refused, lost, blocked>>

-----------------------------------------------------------------------------
Client(m) == SignalRun(m) \/ Send(m) \/ SteerQueued(m) \/ LookAgain(m) \/ Answer(m)

Polling(a) ==
    \/ ReadPending(a) \/ HandleAbort(a) \/ GiveSteer(a) \/ DeclineSteer(a)
    \/ Acknowledge(a) \/ EndDrain(a)

Replaying(d) ==
    \/ TakePending(d) \/ ListPending(d) \/ ReplayAbort(d) \/ ReplaySteer(d)
    \/ ReplayRefused(d) \/ EnqueueReplay(d) \/ AcknowledgeReplay(d) \/ EndReplay(d)

Next ==
    \/ \E m \in Msgs : Client(m)
    \/ \E m \in Waiting : StartWaiting(m)
    \/ Claim
    \/ \E a \in Attempts :
          \/ Polling(a) \/ Ring(a) \/ SignalError(a) \/ ModelDone(a) \/ StopPoll(a)
          \/ CompleteRun(a) \/ AttemptCrash(a) \/ Reap(a)
    \/ \E d \in Drainers : Replaying(d) \/ ReplayCrash(d)
    \/ ApprovalChanges

Spec == Init /\ [][Next]_vars

\* The lease of an attempt that has stopped is reaped.
ReapStopped(a) == ~poll[a].live /\ Reap(a)

\* Attempts are claimed and end (a turn has a wall-clock limit), a drain goes
\* through its rows, a lapsed lease is reaped, and the sweeper keeps sweeping.
\* Clients, approvals, notifications and faults are not assumed.
FairSpec ==
    /\ Spec
    /\ WF_vars(Claim)
    /\ \A a \in Attempts :
          /\ WF_vars(Polling(a)) /\ WF_vars(ModelDone(a)) /\ WF_vars(StopPoll(a))
          /\ WF_vars(CompleteRun(a)) /\ WF_vars(ReapStopped(a))
    /\ \A d \in Drainers : WF_vars(Replaying(d))

-----------------------------------------------------------------------------
(* Properties.                                                             *)

InHand(m) == \E d \in Drainers : m \in ToSet(hands[d].items)

\* A steer whose row is consumed reached the model or became a run (or was
\* refused), whoever crashed or failed in between.  Subagent threads
\* acknowledge after the enqueue and keep this promise without exception;
\* takePending gives it up for a replay that fails half-way.
NothingVanishes ==
    \A m \in Steers : rows[m] = "consumed" =>
        \/ delivered[m] > 0 \/ replays[m] > 0 \/ m \in refused
        \/ ~Subagent /\ (InHand(m) \/ (m \in dropped /\ faults > 0))

\* However many processes replay, a steer becomes at most one run; and while no
\* call fails and no attempt loses its lease, a message is used once: by the
\* model, by a replay, or by its own run in the queue.  stop() must wait for
\* the drain under way for this.
UsedOnce ==
    \A m \in Steers :
        /\ replays[m] <= 1
        /\ (faults = 0 /\ ~lost) =>
              delivered[m] + replays[m]
                + (IF m \in Waiting /\ queued[m] = "started" THEN 1 ELSE 0) <= 1

\* An abort is never used up by an attempt that did not end the run: the next
\* attempt finds it.
AbortSticks ==
    \A m \in Aborts : rows[m] = "consumed" => Terminal

\* What signalRun's comment says of its answer: a steer answered with
\* replayed: true has been or will be replayed as a run of its own.
ReplayedMeansReplayed ==
    \A m \in Steers : calls[m] = "replayed" =>
        replays[m] > 0 \/ rows[m] = "pending" \/ InHand(m)

\* Unless approvals keep blocking the thread, every stored signal is used up or
\* has become a run in the end: the polls, the end of the run and the sweeper
\* together miss none, although stop() drops a requested drain.  (The row of a
\* replay that was never acknowledged may stay pending once that replay has ended:
\* every later one is answered without a run.)
SignalsSettle ==
    <>[](~blocked) =>
        \A m \in Msgs : rows[m] = "pending" ~>
            (rows[m] = "consumed" \/ (m \in Steers /\ replays[m] > 0))
=============================================================================
