--------------------------- MODULE MessageIntake ---------------------------
(***************************************************************************)
(* One Slack message on its way into the system.  Slack sends it again     *)
(* until it is acknowledged; the receiver holds the acknowledgement back   *)
(* until the message is accepted, and when that takes too long stores the  *)
(* envelope and acknowledges then (src/slack/deferred-ack.ts,              *)
(* envelope-staging.ts).  Each instance remembers the messages it took     *)
(* (dispatch).  Core takes the message as a run of its own or as a steer   *)
(* of the thread's live run, and knows a redelivery by its key (app.turn). *)
(*                                                                         *)
(*   acked, sends   Slack: is the message acknowledged, how often was it   *)
(*                  sent                                                   *)
(*   hs             the handlers of deliveries and replays                 *)
(*   seen           the instances whose deduper holds the message          *)
(*   staged         the stored envelope, and whether one was dropped, a    *)
(*                  day old                                                *)
(*   live           the thread's live run: "none", "steerable", "busy" (a  *)
(*                  run a message may not join), "over"                    *)
(*   run, signal    the run and the steer that carry the message's key     *)
(*   told           was the sender told that the message failed?           *)
(***************************************************************************)
EXTENDS Integers, FiniteSets

CONSTANTS Instances, Slots,
          Staging,       \* is there a store for envelopes?
          Unprompted,    \* does the message address nobody?
          Timely,        \* do handlers end within a minute (a claim lasts five)?
          MaxSends,      \* Slack's deliveries of one event
          MaxReplays,    \* replays of one envelope
          MaxFaults      \* bound: crashes and failing calls

VARIABLES acked, sends, hs, seen, staged, live, run, signal, told, faults

vars == <<acked, sends, hs, seen, staged, live, run, signal, told, faults>>

core == <<live, run, signal>>

Idle == [pc |-> "idle", inst |-> {}, src |-> "none", gate |-> "none", write |-> "no", bad |-> FALSE, clear |-> FALSE]

TypeOK ==
    /\ {acked, told} \subseteq BOOLEAN /\ sends \in 0..MaxSends /\ faults \in 0..MaxFaults
    /\ seen \subseteq Instances
    /\ \A h \in Slots :
        /\ hs[h].pc \in {"idle", "seen", "prep", "look", "look2", "active", "steer", "after", "enqueue", "return", "over"}
        /\ hs[h].gate \in {"none", "open", "acked", "withheld"}
        /\ hs[h].write \in {"no", "trying", "late", "wrote", "failed"}
    /\ staged \in [there : BOOLEAN, attempts : 0..MaxReplays, claimed : BOOLEAN, dropped : BOOLEAN]
    /\ live \in {"none", "steerable", "busy", "over"}
    /\ run \in {"none", "queued", "over"}
    /\ signal \in {"none", "pending", "consumed", "replayed"}
    /\ signal = "replayed" => live = "over"

Init ==
    /\ acked = FALSE /\ sends = 0 /\ told = FALSE /\ faults = 0
    /\ hs = [h \in Slots |-> Idle] /\ seen = {}
    /\ staged = [there |-> FALSE, attempts |-> 0, claimed |-> FALSE, dropped |-> FALSE]
    /\ live \in {"none", "steerable", "busy"}
    /\ run = "none" /\ signal = "none"

Fault == faults < MaxFaults /\ faults' = faults + 1

-----------------------------------------------------------------------------
(***************************************************************************)
(* The gate of an envelope                                                 *)
(***************************************************************************)

\* finish(true): the acknowledgement goes out, once.
Acked(k) == IF k.gate = "open" THEN [k EXCEPT !.gate = "acked"] ELSE k

Withheld(k) == IF k.gate = "open" THEN [k EXCEPT !.gate = "withheld"] ELSE k

Answers(k) == acked' = (acked \/ k.gate = "open")

\* gate.persisted: answer, and clear the stored envelope unless the handler
\* failed.
Persisted(k) ==
    [Acked(k) EXCEPT !.clear = ~k.bad /\ (k.src = "replay" \/ k.write # "no")]

\* gate.failed: no answer, so that Slack sends it again.
Failed(k) == [Withheld(k) EXCEPT !.bad = TRUE]

\* After 2.5 s the envelope is stored, or, with no store, acknowledged.
Cap(h) ==
    /\ hs[h].gate = "open" /\ hs[h].write = "no" /\ hs[h].pc \notin {"idle", "over"}
    /\ IF Staging
       THEN hs' = [hs EXCEPT ![h].write = "trying"] /\ UNCHANGED acked
       ELSE hs' = [hs EXCEPT ![h] = Acked(@)] /\ Answers(hs[h])
    /\ UNCHANGED <<sends, seen, staged, core, told, faults>>

\* The key's row is written, or deleted.
Envelope(there) == [staged EXCEPT !.there = there, !.attempts = 0, !.claimed = FALSE]

Writing(h) == hs[h].write \in {"trying", "late"}

\* putIfAbsent lands; in time, it is the reason to acknowledge.
StageWrite(h) ==
    /\ Writing(h)
    /\ staged' = IF staged.there THEN staged ELSE Envelope(TRUE)
    /\ IF hs[h].write = "trying"
       THEN hs' = [hs EXCEPT ![h] = [Acked(@) EXCEPT !.write = "wrote"]] /\ Answers(hs[h])
       ELSE hs' = [hs EXCEPT ![h].write = "wrote"] /\ UNCHANGED acked
    /\ UNCHANGED <<sends, seen, core, told, faults>>

\* 300 ms pass, or the write fails: no acknowledgement.
StageLate(h) ==
    /\ \/ hs[h].write = "trying" /\ hs' = [hs EXCEPT ![h] = [Withheld(@) EXCEPT !.write = "late"]] /\ UNCHANGED faults
       \/ Writing(h) /\ Fault /\ hs' = [hs EXCEPT ![h] = [Withheld(@) EXCEPT !.write = "failed"]]
    /\ UNCHANGED <<acked, sends, seen, staged, core, told>>

\* clear: the envelope goes once the write is through; failing is ignored.
Clear(h) ==
    /\ hs[h].clear /\ ~Writing(h)
    /\ \/ staged' = Envelope(FALSE) /\ UNCHANGED faults
       \/ Fault /\ UNCHANGED staged
    /\ hs' = [hs EXCEPT ![h].clear = FALSE]
    /\ UNCHANGED <<acked, sends, seen, core, told>>

Gate(h) == Cap(h) \/ StageWrite(h) \/ StageLate(h) \/ Clear(h)

-----------------------------------------------------------------------------
(***************************************************************************)
(* A delivery, and a replay                                                *)
(***************************************************************************)

Free(h) == hs[h].pc \in {"idle", "over"} /\ ~hs[h].clear /\ ~Writing(h)

\* A minute later a timely handler is through.
Later == Timely => \A h \in Slots : Free(h)

\* The first retry comes at once, the next ones after minutes.
Deliver(h, i) ==
    /\ ~acked /\ sends < MaxSends /\ Free(h) /\ (sends < 2 \/ Later)
    /\ \A g \in Slots : hs[g].gate # "open"
    /\ sends' = sends + 1
    /\ hs' = [hs EXCEPT ![h] = [Idle EXCEPT !.pc = "seen", !.inst = i, !.src = "slack", !.gate = "open"]]
    /\ UNCHANGED <<acked, seen, staged, core, told, faults>>

\* sweep: a stale envelope nobody has claimed is replayed.
Sweep(h, i) ==
    /\ staged.there /\ ~staged.claimed /\ staged.attempts < MaxReplays /\ Free(h) /\ Later
    /\ staged' = [staged EXCEPT !.attempts = @ + 1, !.claimed = TRUE]
    /\ hs' = [hs EXCEPT ![h] = [Idle EXCEPT !.pc = "seen", !.inst = i, !.src = "replay"]]
    /\ UNCHANGED <<acked, sends, seen, core, told, faults>>

\* sweep: an envelope that is a day old is dropped, accepted or not.
Abandon ==
    /\ staged.there /\ Later
    /\ staged' = [Envelope(FALSE) EXCEPT !.dropped = TRUE]
    /\ UNCHANGED <<acked, sends, hs, seen, core, told, faults>>

\* The claim lapses after five minutes.
Unclaim ==
    /\ staged.claimed /\ Later
    /\ staged' = [staged EXCEPT !.claimed = FALSE]
    /\ UNCHANGED <<acked, sends, hs, seen, core, told, faults>>

\* dispatch: a message this instance holds is not taken twice, and not
\* acknowledged.
Dispatch(h) ==
    LET k == hs[h] IN
    /\ k.pc = "seen"
    /\ IF k.inst \in seen
       THEN hs' = [hs EXCEPT ![h] = [Failed(k) EXCEPT !.pc = "return"]] /\ UNCHANGED seen
       ELSE hs' = [hs EXCEPT ![h].pc = "prep"] /\ seen' = seen \cup {k.inst}
    /\ UNCHANGED <<acked, sends, staged, core, told, faults>>

\* The handler failed: the instance forgets the message.
Fails(h) ==
    /\ hs' = [hs EXCEPT ![h] = [Failed(@) EXCEPT !.pc = "return"]]
    /\ seen' = seen \ {hs[h].inst}
    /\ UNCHANGED <<acked, told>>

\* Core accepted the message, or knows it.
Accepts(h) ==
    /\ hs' = [hs EXCEPT ![h] = [Persisted(@) EXCEPT !.pc = "over"]]
    /\ Answers(hs[h])
    /\ UNCHANGED <<seen, told>>

\* The call to core failed: a sender who addressed the bot is told so.
CoreFails(h) ==
    IF Unprompted THEN Fails(h)
    ELSE /\ told' = TRUE
         /\ hs' = [hs EXCEPT ![h] = [Persisted(@) EXCEPT !.pc = "over"]]
         /\ Answers(hs[h])
         /\ UNCHANGED seen

Goto(h, pc) == hs' = [hs EXCEPT ![h].pc = pc] /\ UNCHANGED <<acked, seen, told>>

\* What the handler reads from Slack before it calls core; it may throw.
Prep(h) ==
    /\ hs[h].pc = "prep"
    /\ \/ Goto(h, "look") /\ UNCHANGED faults
       \/ Fails(h) /\ Fault
    /\ UNCHANGED <<sends, staged, core>>

\* The receiver reports that the event was processed.
Return(h) ==
    /\ hs[h].pc = "return"
    /\ hs' = [hs EXCEPT ![h] = [Persisted(@) EXCEPT !.pc = "over"]]
    /\ Answers(hs[h])
    /\ UNCHANGED <<sends, seen, staged, core, told, faults>>

-----------------------------------------------------------------------------
(***************************************************************************)
(* app.turn with a redelivery key                                          *)
(***************************************************************************)

\* Is there a run with the key?
Look(h) ==
    /\ hs[h].pc = "look"
    /\ IF run # "none" THEN Accepts(h) ELSE Goto(h, "look2")
    /\ UNCHANGED <<sends, staged, core, faults>>

\* Is there a steer with the key?
LookSignal(h) ==
    /\ hs[h].pc = "look2"
    /\ IF signal # "none" THEN Accepts(h) ELSE Goto(h, "active")
    /\ UNCHANGED <<sends, staged, core, faults>>

\* activeForThread: a live run is joined if it may be; the message's own run
\* is left alone.
Active(h) ==
    /\ hs[h].pc = "active"
    /\ \/ live = "steerable" /\ Goto(h, "steer")
       \/ live \in {"none", "over"} /\ run = "queued" /\ Accepts(h)
       \/ live = "busy" /\ Goto(h, "enqueue")
       \/ live \in {"none", "over"} /\ run # "queued" /\ Goto(h, "enqueue")
    /\ UNCHANGED <<sends, staged, core, faults>>

\* signals.send, unique by the key.
Steer(h) ==
    /\ hs[h].pc = "steer"
    /\ \/ /\ signal' = IF signal = "none" THEN "pending" ELSE signal
          /\ IF signal = "none" THEN Goto(h, "after") ELSE Accepts(h)
          /\ UNCHANGED faults
       \/ /\ Fault /\ signal' \in {signal, IF signal = "none" THEN "pending" ELSE signal}
          /\ CoreFails(h)
    /\ UNCHANGED <<sends, staged, live, run>>

\* A steer of a run that is over by now becomes a run.
After(h) ==
    /\ hs[h].pc = "after"
    /\ signal' = IF live = "over" /\ signal = "pending" THEN "replayed" ELSE signal
    /\ Accepts(h)
    /\ UNCHANGED <<sends, staged, live, run, faults>>

\* runs.enqueue, unique by the key.
Enqueue(h) ==
    /\ hs[h].pc = "enqueue"
    /\ \/ /\ run' = IF run = "none" THEN "queued" ELSE run
          /\ Accepts(h)
          /\ UNCHANGED faults
       \/ /\ Fault /\ run' \in {run, IF run = "none" THEN "queued" ELSE run}
          /\ CoreFails(h)
    /\ UNCHANGED <<sends, staged, live, signal>>

Handle(h) ==
    \/ Dispatch(h) \/ Prep(h) \/ Return(h) \/ Look(h) \/ LookSignal(h) \/ Active(h)
    \/ Steer(h) \/ After(h) \/ Enqueue(h)

-----------------------------------------------------------------------------
\* The live run takes the steer,
Consume ==
    /\ live = "steerable" /\ signal = "pending"
    /\ signal' = "consumed"
    /\ UNCHANGED <<acked, sends, hs, seen, staged, live, run, told, faults>>

\* ends,
LiveEnds ==
    /\ live \in {"steerable", "busy"}
    /\ live' = "over"
    /\ UNCHANGED <<acked, sends, hs, seen, staged, run, signal, told, faults>>

\* and leaves a steer to the sweeper.
Orphan ==
    /\ live = "over" /\ signal = "pending"
    /\ signal' = "replayed"
    /\ UNCHANGED <<acked, sends, hs, seen, staged, live, run, told, faults>>

RunEnds ==
    /\ run = "queued" /\ live \in {"none", "over"}
    /\ run' = "over"
    /\ UNCHANGED <<acked, sends, hs, seen, staged, live, signal, told, faults>>

Crash(i) ==
    /\ Fault
    /\ hs' = [h \in Slots |-> IF hs[h].inst = i THEN Idle ELSE hs[h]]
    /\ seen' = seen \ {i}
    /\ UNCHANGED <<acked, sends, staged, core, told>>

Next ==
    \/ \E h \in Slots, i \in Instances : Deliver(h, i) \/ Sweep(h, i)
    \/ \E h \in Slots : Gate(h) \/ Handle(h)
    \/ \E i \in Instances : Crash(i)
    \/ Abandon \/ Unclaim \/ Consume \/ LiveEnds \/ Orphan \/ RunEnds

Spec == Init /\ [][Next]_vars

-----------------------------------------------------------------------------
Kept == run # "none" \/ signal # "none" \/ told

\* What Slack was told is received is a run or a steer, or stored, or its
\* sender knows that it failed; only an envelope that is a day old is lost.
AckedIsKept == acked => Kept \/ staged.there \/ staged.dropped

\* A message is taken as a run of its own or as a steer, not as both.
HandledOnce == ~(run # "none" /\ signal # "none")

=============================================================================
