------------------------------ MODULE LoopWork -----------------------------
(***************************************************************************)
(* One work item of a loop, from intake to its end: fires work it in       *)
(* attempts, each attempt captures outputs, and people, agents or the      *)
(* loop's own policy ship them, return them or send the item's draft,      *)
(* while source events refresh the item.                                   *)
(*                                                                         *)
(* Fires and the decisions of people in the portal (Locked) hold the       *)
(* loop-lifecycle lock; decisions through an agent's capability do not,    *)
(* and neither do the ingest of items, edits, dismissals and reopenings.   *)
(*                                                                         *)
(* An attempt is the number of its claim, its outputs are <<attempt,       *)
(* ordinal>>.  The run of a ship turn is keyed by the output.              *)
(*                                                                         *)
(*   item, out   the durable records of the item and of its outputs        *)
(*   act         of each fire, decider and ingress source: where it is     *)
(*               (pc), its attempt, attempts of the item at its claim (n), *)
(*               how many outputs it captured (made), what it does after   *)
(*               an intermediate step (then), the outputs left to ship on  *)
(*               its own (todo), how many were promoted and shipped, the   *)
(*               output and the draft it decides about, and the result     *)
(*   runs, turns the ship run of each output, and how often one started    *)
(*   committed   ship keys in the idempotency store                        *)
(*   sent        how often each version of the draft was sent              *)
(*   lock        holder of loop-lifecycle                                  *)
(*   loop        runnable, and whether a grant ships outputs on its own    *)
(***************************************************************************)
EXTENDS Integers, FiniteSets

CONSTANTS
    Fires, Deciders, Ingress,
    Locked,        \* the deciders that act in the portal
    Decisions,     \* what deciders do: "ship", "return", "send"
    AutoGate,      \* a standing grant covers the loop's outputs
    MaxAttempts,   \* maxItemAttempts
    MaxOpen,       \* maxOpenOutputs, 0: no cap
    MaxOut,        \* bound: outputs of an attempt
    MaxAttempted,  \* bound: attempts
    MaxDecisions,  \* bound: decisions taken up
    Faults,        \* kinds of faults, and leases that run out
    MaxFaults,     \* bound: faults
    Events,        \* what agents and users do to the item
    MaxEvents,     \* bound: events
    None           \* nobody holds the decision, nobody ships

(***************************************************************************)
(* The durable records of a loop: a work item of the item ledger and the   *)
(* outputs its attempts produce.  Every operation of the two stores is one *)
(* atomic update of one record; an operator here maps the record before to *)
(* the record after and leaves it alone where the operation refuses.       *)
(*                                                                         *)
(* item   status; attempts; claim: the token of the worker that holds it   *)
(*        (0: none) and whether its lease has run out (stale); decision:   *)
(*        who holds the decision and whether that lease has run out        *)
(*        (lapsed); run: the last of runIds; outputs: outputIds; proposal: *)
(*        whose draft it holds; draft: the version of that draft           *)
(*        (proposal.at); source: sourceAt                                  *)
(* output state; claim: who ships it; stale: its ship lease has run out    *)
(***************************************************************************)

Absent == [status |-> "absent", attempts |-> 0, claim |-> 0, stale |-> FALSE,
           decision |-> None, lapsed |-> FALSE, run |-> 0, outputs |-> {},
           proposal |-> "none", draft |-> 0, source |-> 0]

Statuses == {"absent", "queued", "in_progress", "ready", "shipped", "skipped", "failed"}
Proposals == {"none", "agent", "human"}

Claimless(it) == [it EXCEPT !.claim = 0, !.stale = FALSE]

isResolved(it) == it.status \in {"shipped", "skipped"}

Deciding(it) == it.decision # None /\ ~it.lapsed

(***************************************************************************)
(* Intake.                                                                 *)
(***************************************************************************)

enqueue(it) == IF it.status = "absent" THEN [it EXCEPT !.status = "queued"] ELSE it

nextIngestStatus(it, proposal) ==
    CASE it.status = "in_progress" -> "in_progress"
      [] it.status # "in_progress" /\ proposal # "none" -> "ready"
      [] OTHER -> IF isResolved(it) THEN "queued" ELSE it.status

\* A newer source event without a draft starts the item over.
Refreshes(it, at, drafted) ==
    it.status # "absent" /\ at > it.source /\ ~drafted

\* mergeIngest throws: a refresh waits for the decision under way.
IngestRefused(it, at, drafted) == Refreshes(it, at, drafted) /\ Deciding(it)

Skipped(it, at, drafted) ==
    at <= it.source /\ (isResolved(it) \/ ~drafted)

Refreshed(it, at) ==
    [Claimless(it) EXCEPT !.status = "queued", !.source = at, !.proposal = "none",
                          !.draft = 0, !.outputs = {}, !.attempts = 0]

\* A human draft survives a sync that brings no newer event.
Drafted(it, at, draft) ==
    LET newer == at > it.source
        keep == it.proposal = "human" /\ ~newer
        p == IF keep THEN "human" ELSE "agent"
    IN [it EXCEPT !.status = nextIngestStatus(it, p), !.proposal = p,
                  !.draft = IF keep THEN @ ELSE draft,
                  !.source = IF newer THEN at ELSE @]

\* ingest of one entry, an agent draft included or not.
ingest(it, at, drafted, draft) ==
    CASE it.status = "absent" ->
            [Absent EXCEPT !.status = IF drafted THEN "ready" ELSE "queued", !.source = at,
                           !.proposal = IF drafted THEN "agent" ELSE "none",
                           !.draft = IF drafted THEN draft ELSE 0]
      [] it.status # "absent" /\ Skipped(it, at, drafted) -> it
      [] Refreshes(it, at, drafted) /\ ~Skipped(it, at, drafted) -> Refreshed(it, at)
      [] OTHER -> Drafted(it, at, draft)

(***************************************************************************)
(* Drafts, and what a person does to an item.                              *)
(***************************************************************************)

setProposal(it, by, draft) ==
    IF it.status \in {"absent", "shipped"} THEN it
    ELSE [it EXCEPT !.proposal = by, !.draft = draft,
                    !.status = IF @ = "queued" THEN "ready" ELSE @]

\* recordAction: "shipped" when actioned, "skipped" when dismissed.
recordAction(it, status) ==
    IF it.status \in {"absent", "shipped"} THEN it ELSE [Claimless(it) EXCEPT !.status = status]

reopen(it) ==
    IF it.status \notin {"skipped", "failed"} THEN it
    ELSE [it EXCEPT !.status = IF it.proposal # "none" THEN "ready" ELSE "queued"]

\* ... to reply to a chat that was sent: an empty draft of the person's own.
reopenReply(it, draft) ==
    IF it.status \notin {"shipped", "skipped", "failed"} THEN it
    ELSE [it EXCEPT !.status = "ready", !.proposal = "human", !.draft = draft]

(***************************************************************************)
(* The worker's claim, and the decision.                                   *)
(***************************************************************************)

Claimable(it) == it.status = "queued" \/ (it.status = "in_progress" /\ it.stale)

claim(it, token) ==
    [it EXCEPT !.status = "in_progress", !.attempts = @ + 1, !.claim = token, !.stale = FALSE]

\* Mutant of transition: a claim that was taken over still counts.
transitionUnfenced(it, allowed, token) == it.status \in allowed

\* transition: the operation applies.
transition(it, allowed, token) ==
    /\ it.status \in allowed
    /\ it.status = "in_progress" => it.claim = token

recordRun(it, attempt, token) ==
    IF transition(it, {"in_progress"}, token) THEN [it EXCEPT !.run = attempt] ELSE it

markReady(it, outputs, token) ==
    IF transition(it, {"in_progress"}, token)
    THEN [Claimless(it) EXCEPT !.status = "ready", !.outputs = @ \cup outputs] ELSE it

\* A caller without a claim passes token 0: it never matches a claim.
markShipped(it, token) ==
    IF transition(it, {"ready", "in_progress"}, token)
    THEN [Claimless(it) EXCEPT !.status = "shipped"] ELSE it

returnToWork(it, token) ==
    IF transition(it, {"ready", "in_progress"}, token)
    THEN [Claimless(it) EXCEPT !.status = "queued"] ELSE it

park(it, token) ==
    IF transition(it, {"queued", "in_progress", "ready"}, token)
    THEN [Claimless(it) EXCEPT !.status = IF @ = "ready" THEN "ready" ELSE "failed"] ELSE it

\* Mutant of MayDecide: a decision does not exclude another.
MayDecideAlways(it) == it.status # "absent"

MayDecide(it) == it.status # "absent" /\ ~Deciding(it)

acquireDecision(it, who) == [it EXCEPT !.decision = who, !.lapsed = FALSE]

releaseDecision(it, who) ==
    IF it.decision = who THEN [it EXCEPT !.decision = None, !.lapsed = FALSE] ELSE it

(***************************************************************************)
(* Outputs.                                                                *)
(***************************************************************************)

NoOutput == [state |-> "none", claim |-> None, stale |-> FALSE]

OutputStates == {"none", "staged", "ready", "shipping", "unconfirmed", "shipped", "returned", "superseded"}

unresolvedOutput(o) == o.state \in {"ready", "shipping", "unconfirmed"}

To(state) == [NoOutput EXCEPT !.state = state]

capture(o) == IF o.state = "none" THEN To("staged") ELSE o

promote(o) == IF o.state = "staged" THEN To("ready") ELSE o

\* supersedeAttempt leaves an output that is being shipped alone.
supersede(o) == IF o.state \in {"staged", "ready"} THEN To("superseded") ELSE o

\* supersedeActiveSiblings does not.
supersedeActive(o) == IF o.state = "staged" \/ unresolvedOutput(o) THEN To("superseded") ELSE o

MayShip(o) == o.state = "ready" \/ (o.state = "shipping" /\ o.stale)

claimShipping(o, who) == [state |-> "shipping", claim |-> who, stale |-> FALSE]

\* The guard of beginShipAttempt, markUnconfirmed, completeShipping and
\* failShipping.
Holds(o, who) == o.state = "shipping" /\ o.claim = who

Settle(o, who, state) == IF Holds(o, who) THEN To(state) ELSE o

MayReturn(o) == o.state \in {"ready", "unconfirmed"}


VARIABLES item, out, act, runs, turns, committed, sent, lock, loop, attempts, decisions, faults, events

vars == <<item, out, act, runs, turns, committed, sent, lock, loop, attempts, decisions, faults, events>>

counters == <<attempts, decisions, faults, events>>
ships == <<runs, turns, committed>>

Actors == Fires \cup Deciders \cup Ingress
Attempts == 1..MaxAttempted
Outputs == Attempts \X (1..MaxOut)
Drafts == 0..(MaxAttempted + MaxEvents)
NoOut == <<0, 0>>

Idle == [pc |-> "idle", att |-> 0, n |-> 0, made |-> 0, then |-> "none", todo |-> {},
         ready |-> 0, shipped |-> 0, o |-> NoOut, draft |-> 0, res |-> "none"]

Init ==
    /\ item = Absent
    /\ out = [o \in Outputs |-> NoOutput]
    /\ act = [a \in Actors |-> Idle]
    /\ runs = [o \in Outputs |-> "none"]
    /\ turns = [o \in Outputs |-> 0]
    /\ committed = {}
    /\ sent = [d \in Drafts |-> 0]
    /\ lock = None
    /\ loop = [runnable |-> TRUE, granted |-> AutoGate]
    /\ attempts = 0 /\ decisions = 0 /\ faults = 0 /\ events = 0

Fault(kind) == kind \in Faults /\ faults < MaxFaults /\ faults' = faults + 1

Event(kind) == kind \in Events /\ events < MaxEvents /\ events' = events + 1

Goto(a, pc) == act' = [act EXCEPT ![a].pc = pc]

\* Supersede the attempt's outputs, then go on with `then`.
Abandons(f, then) == act' = [act EXCEPT ![f].pc = "abandon", ![f].then = then]

Of(attempt) == {o \in Outputs : o[1] = attempt}

\* The version of a draft: an attempt's own, or the one an event brings.
EventDraft == MaxAttempted + events + 1

SomeState(states) == \E o \in Outputs : out[o].state \in states

(***************************************************************************)
(* A fire: runLoopFire, under the lifecycle lock.                          *)
(***************************************************************************)

\* A scheduled or manual fire, and one the ingress asks for when work is
\* queued: it enumerates nothing and sweeps the item's outputs first.
FireStart(f) ==
    /\ act[f].pc = "idle" /\ attempts < MaxAttempted /\ lock = None /\ loop.runnable
    /\ lock' = f
    /\ \/ /\ IF MaxOpen > 0 /\ Cardinality({o \in Outputs : unresolvedOutput(out[o])}) >= MaxOpen
             THEN act' = [act EXCEPT ![f].pc = "end"]
             ELSE act' = [act EXCEPT ![f].pc = "intake"]
       \/ /\ Ingress # {} /\ Claimable(item)
          /\ Goto(f, IF SomeState({"shipping", "unconfirmed"}) THEN "end" ELSE "sweep")
    /\ UNCHANGED <<item, out, ships, sent, loop, counters>>

Sweep(f) ==
    /\ act[f].pc = "sweep"
    /\ out' = [o \in Outputs |-> supersedeActive(out[o])]
    /\ Goto(f, "claim")
    /\ UNCHANGED <<item, ships, sent, lock, loop, counters>>

\* The intake turn finds the item, finds nothing or fails: a failed intake
\* still drains what is queued.
Intake(f) ==
    /\ act[f].pc = "intake"
    /\ item' \in {item, enqueue(item)}
    /\ Goto(f, "claim")
    /\ UNCHANGED <<out, ships, sent, lock, loop, counters>>

Claim(f) ==
    /\ act[f].pc = "claim"
    /\ IF Claimable(item) /\ attempts < MaxAttempted
       THEN /\ attempts' = attempts + 1
            /\ item' = claim(item, attempts + 1)
            /\ act' = [act EXCEPT ![f].pc = "work", ![f].att = attempts + 1, ![f].n = item.attempts + 1]
       ELSE Goto(f, "end") /\ UNCHANGED <<item, attempts>>
    /\ UNCHANGED <<out, ships, sent, lock, loop, decisions, faults, events>>

\* The work turn ends; a draft in its reply is kept while the claim holds.
Work(f) ==
    /\ act[f].pc = "work"
    /\ \/ /\ Goto(f, "record") /\ UNCHANGED <<item, faults>>
       \/ /\ Goto(f, "record") /\ UNCHANGED faults
          /\ item' = IF item.claim = act[f].att THEN setProposal(item, "agent", act[f].att) ELSE item
       \/ Fault("turn") /\ Goto(f, "catch") /\ UNCHANGED item
    /\ UNCHANGED <<out, ships, sent, lock, loop, attempts, decisions, events>>

\* recordRun: a claim that was taken over ends here.  The reply names the
\* outputs.
Record(f) ==
    /\ act[f].pc = "record"
    /\ item' = recordRun(item, act[f].att, act[f].att)
    /\ IF transition(item, {"in_progress"}, act[f].att)
       THEN \E k \in 0..MaxOut : act' = [act EXCEPT ![f].pc = IF k = 0 THEN "held" ELSE "capture",
                                                    ![f].made = k]
       ELSE Goto(f, "end")
    /\ UNCHANGED <<out, ships, sent, lock, loop, counters>>

Capture(f) ==
    /\ act[f].pc = "capture"
    /\ LET left == {o \in Of(act[f].att) : o[2] <= act[f].made /\ out[o].state = "none"}
       IN \E o \in left :
             /\ \A q \in left : o[2] <= q[2]
             /\ out' = [out EXCEPT ![o] = capture(@)]
             /\ Goto(f, IF left = {o} THEN "held" ELSE "capture")
    /\ UNCHANGED <<item, ships, sent, lock, loop, counters>>

\* The claim is read again; an action the playbook does not declare parks.
Held(f) ==
    /\ act[f].pc = "held"
    /\ IF item.status = "in_progress" /\ item.claim = act[f].att
       THEN \/ Goto(f, "judge") /\ UNCHANGED faults
            \/ act[f].made > 0 /\ Fault("undeclared") /\ Abandons(f, "park")
       ELSE Abandons(f, "end") /\ UNCHANGED faults
    /\ UNCHANGED <<item, out, ships, sent, lock, loop, attempts, decisions, events>>

\* The judge's turn: met, not met (parked at the attempt cap), park, failed.
Judge(f) ==
    /\ act[f].pc = "judge"
    /\ \/ Goto(f, "publish") /\ UNCHANGED faults
       \/ Abandons(f, IF act[f].n >= MaxAttempts THEN "park" ELSE "return") /\ UNCHANGED faults
       \/ Abandons(f, "park") /\ UNCHANGED faults
       \/ Fault("turn") /\ Goto(f, "catch")
    /\ UNCHANGED <<item, out, ships, sent, lock, loop, attempts, decisions, events>>

\* supersedeAttempt.
Abandon(f) ==
    /\ act[f].pc = "abandon"
    /\ out' = [o \in Outputs |-> IF o \in Of(act[f].att) THEN supersede(out[o]) ELSE out[o]]
    /\ Goto(f, act[f].then)
    /\ UNCHANGED <<item, ships, sent, lock, loop, counters>>

Park(f) ==
    /\ act[f].pc = "park"
    /\ item' = park(item, act[f].att)
    /\ Goto(f, "end")
    /\ UNCHANGED <<out, ships, sent, lock, loop, counters>>

Return(f) ==
    /\ act[f].pc = "return"
    /\ item' = returnToWork(item, act[f].att)
    /\ Goto(f, "end")
    /\ UNCHANGED <<out, ships, sent, lock, loop, counters>>

\* An attempt without outputs: the item is read, then held for its draft or
\* closed.
Publish(f) ==
    /\ act[f].pc = "publish"
    /\ IF act[f].made = 0
       THEN /\ Goto(f, IF item.proposal # "none" THEN "hold" ELSE "close")
            /\ UNCHANGED item
       ELSE LET ids == {o \in Of(act[f].att) : o[2] <= act[f].made}
            IN /\ item' = markReady(item, ids, act[f].att)
               /\ IF transition(item, {"in_progress"}, act[f].att)
                  THEN Goto(f, "promote") ELSE Abandons(f, "end")
    /\ UNCHANGED <<out, ships, sent, lock, loop, counters>>

Hold(f) ==
    /\ act[f].pc = "hold"
    /\ item' = markReady(item, {}, act[f].att)
    /\ Goto(f, "end")
    /\ UNCHANGED <<out, ships, sent, lock, loop, counters>>

Close(f) ==
    /\ act[f].pc = "close"
    /\ item' = markShipped(item, act[f].att)
    /\ Goto(f, "end")
    /\ UNCHANGED <<out, ships, sent, lock, loop, counters>>

\* promoteAttempt, one output at a time.  The outputs it promoted are the
\* ones the policy may ship.
Promote(f) ==
    /\ act[f].pc = "promote"
    /\ LET todo == {o \in Of(act[f].att) : out[o].state = "staged"}
       IN IF todo = {} THEN Goto(f, "auto") /\ UNCHANGED out
          ELSE \E o \in todo :
                  /\ \A q \in todo : o[2] <= q[2]
                  /\ out' = [out EXCEPT ![o] = promote(@)]
                  /\ act' = [act EXCEPT ![f].ready = @ + 1,
                                        ![f].todo = IF AutoGate THEN @ \cup {o} ELSE @]
    /\ UNCHANGED <<item, ships, sent, lock, loop, counters>>

\* authorizeAutoShip rereads the loop and its grants.
Auto(f) ==
    /\ act[f].pc = "auto"
    /\ IF act[f].todo = {} THEN Goto(f, "done")
       ELSE \E o \in act[f].todo :
               /\ \A q \in act[f].todo : o[2] <= q[2]
               /\ act' = [act EXCEPT ![f].todo = @ \ {o}, ![f].o = o, ![f].res = "none",
                                     ![f].pc = IF loop.runnable /\ loop.granted THEN "decide" ELSE "auto"]
    /\ UNCHANGED <<item, out, ships, sent, lock, loop, counters>>

\* Everything that was promoted has shipped.
Done(f) ==
    /\ act[f].pc = "done"
    /\ item' = IF act[f].shipped = act[f].ready THEN markShipped(item, 0) ELSE item
    /\ Goto(f, "end")
    /\ UNCHANGED <<out, ships, sent, lock, loop, counters>>

\* The catch: after a partial auto-ship the item is parked for a person,
\* otherwise the latest attempt of the item is read ...
Catch(f) ==
    /\ act[f].pc = "catch"
    /\ IF act[f].shipped > 0
       THEN item' = park(item, 0) /\ Goto(f, "end")
       ELSE /\ act' = [act EXCEPT ![f].pc = "undo", ![f].o = <<item.run, 0>>]
            /\ UNCHANGED item
    /\ UNCHANGED <<out, ships, sent, lock, loop, counters>>

\* ... and superseded, and the item goes back to the queue or is parked.
Undo(f) ==
    /\ act[f].pc = "undo"
    /\ out' = [o \in Outputs |-> IF o \in Of(act[f].o[1]) THEN supersede(out[o]) ELSE out[o]]
    /\ act' = [act EXCEPT ![f].pc = IF act[f].n >= MaxAttempts THEN "park" ELSE "return", ![f].o = NoOut]
    /\ UNCHANGED <<item, ships, sent, lock, loop, counters>>

\* The fire, or a decision or delivery under the lock, is over.
End(a) ==
    /\ act[a].pc = "end"
    /\ act' = [act EXCEPT ![a] = Idle]
    /\ lock' = IF lock = a THEN None ELSE lock
    /\ UNCHANGED <<item, out, ships, sent, loop, counters>>

FireStep(f) ==
    \/ FireStart(f) \/ Sweep(f) \/ Intake(f) \/ Claim(f) \/ Work(f) \/ Record(f) \/ Capture(f) \/ Held(f)
    \/ Judge(f) \/ Abandon(f) \/ Park(f) \/ Return(f) \/ Publish(f) \/ Hold(f) \/ Close(f)
    \/ Promote(f) \/ Auto(f) \/ Done(f) \/ Catch(f) \/ Undo(f)

(***************************************************************************)
(* shipOutput: by a decider, or by a fire for an output of its attempt.    *)
(***************************************************************************)

Takes(d, what) ==
    /\ act[d].pc = "idle" /\ decisions < MaxDecisions /\ what \in Decisions
    /\ d \in Locked => lock = None
    /\ lock' = IF d \in Locked THEN d ELSE lock
    /\ decisions' = decisions + 1

ShipStart(d) ==
    /\ Takes(d, "ship")
    /\ \E o \in Outputs :
          /\ out[o].state \in {"ready", "shipping", "unconfirmed"}
          /\ act' = [act EXCEPT ![d].pc = "decide", ![d].o = o]
    /\ UNCHANGED <<item, out, ships, sent, loop, attempts, faults, events>>

\* An output that has shipped is the answer; otherwise the item's decision
\* is acquired.
Decide(a) ==
    /\ act[a].pc = "decide"
    /\ CASE out[act[a].o].state = "shipped" ->
               act' = [act EXCEPT ![a].pc = "back", ![a].res = "shipped"] /\ UNCHANGED item
         [] out[act[a].o].state # "shipped" /\ MayDecide(item) ->
               Goto(a, "check") /\ item' = acquireDecision(item, a)
         [] OTHER -> Goto(a, "back") /\ UNCHANGED item
    /\ UNCHANGED <<out, ships, sent, lock, loop, counters>>

\* The item is ready and holds the output.
Published(o) == item.status = "ready" /\ o \in item.outputs

Check(a) ==
    /\ act[a].pc = "check"
    /\ LET ok == Published(act[a].o) /\ loop.runnable /\ (a \in Fires => loop.granted)
       IN Goto(a, CASE ~ok -> "release"
                    [] ok /\ out[act[a].o].state = "unconfirmed" -> "confirm"
                    [] OTHER -> "claimship")
    /\ UNCHANGED <<item, out, ships, sent, lock, loop, counters>>

\* confirmShipped: a person says that the turn did ship it.
Confirm(a) ==
    /\ act[a].pc = "confirm"
    /\ IF out[act[a].o].state = "unconfirmed"
       THEN /\ out' = [out EXCEPT ![act[a].o] = To("shipped")]
            /\ act' = [act EXCEPT ![a].pc = "settle", ![a].res = "shipped"]
       ELSE Goto(a, "release") /\ UNCHANGED out
    /\ UNCHANGED <<item, ships, sent, lock, loop, counters>>

ClaimShip(a) ==
    /\ act[a].pc = "claimship"
    /\ IF MayShip(out[act[a].o])
       THEN out' = [out EXCEPT ![act[a].o] = claimShipping(@, a)] /\ Goto(a, "begin")
       ELSE Goto(a, "release") /\ UNCHANGED out
    /\ UNCHANGED <<item, ships, sent, lock, loop, counters>>

\* beginShipAttempt writes the fire key.
Begin(a) ==
    /\ act[a].pc = "begin"
    /\ Goto(a, IF Holds(out[act[a].o], a) THEN "turn" ELSE "release")
    /\ UNCHANGED <<item, out, ships, sent, lock, loop, counters>>

Outcome(a, res) == act' = [act EXCEPT ![a].pc = "outcome", ![a].res = res]

\* The run store knows the key of the ship turn.
NewRun(o) == runs[o] = "none"

\* stageTurn and once: a refused turn, a key that is on record or in flight
\* in this process, or the run the key names.
Turn(a) ==
    /\ act[a].pc = "turn"
    /\ LET o == act[a].o
       IN \/ /\ Fault("authz") /\ Outcome(a, "refused") /\ UNCHANGED <<runs, turns>>
          \/ /\ o \in committed \/ (\E b \in Actors \ {a} : act[b].pc = "await" /\ act[b].o = o)
             /\ Outcome(a, "notrun") /\ UNCHANGED <<runs, turns, faults>>
          \/ /\ o \notin committed
             /\ IF NewRun(o)
                THEN runs' = [runs EXCEPT ![o] = "running"] /\ turns' = [turns EXCEPT ![o] = @ + 1]
                ELSE UNCHANGED <<runs, turns>>
             /\ Goto(a, "await") /\ UNCHANGED faults
    /\ UNCHANGED <<item, out, committed, sent, lock, loop, attempts, decisions, events>>

\* A ship run ends, on whatever worker runs it.
RunEnds(o) ==
    /\ runs[o] = "running"
    /\ \/ runs' = [runs EXCEPT ![o] = "ok"] /\ UNCHANGED faults
       \/ Fault("turn") /\ runs' = [runs EXCEPT ![o] = "failed"]
    /\ UNCHANGED <<item, out, act, turns, committed, sent, lock, loop, attempts, decisions, events>>

\* The answer of the run: once commits the key, whatever the answer.  A
\* call that throws leaves the output as it is.
Await(a) ==
    /\ act[a].pc = "await"
    /\ \/ /\ runs[act[a].o] \in {"ok", "failed"}
          /\ committed' = committed \cup {act[a].o}
          /\ Outcome(a, runs[act[a].o]) /\ UNCHANGED faults
       \/ /\ Fault("throw")
          /\ act' = [act EXCEPT ![a].pc = "release", ![a].res = "thrown"]
          /\ UNCHANGED committed
    /\ UNCHANGED <<item, out, runs, turns, sent, lock, loop, attempts, decisions, events>>

\* completeShipping, markUnconfirmed, or failShipping and a thrown error.
OutcomeState(res) ==
    CASE res = "ok" -> "shipped" [] res = "notrun" -> "unconfirmed" [] res \in {"failed", "refused"} -> "ready"

Applies(a) ==
    /\ act[a].pc = "outcome"
    /\ LET o == act[a].o
           to == OutcomeState(act[a].res)
       IN /\ out' = [out EXCEPT ![o] = Settle(@, a, to)]
          /\ act' = [act EXCEPT ![a].pc = IF to = "shipped" /\ Holds(out[o], a) THEN "settle" ELSE "release",
                                ![a].res = CASE to = "ready" -> "thrown"
                                             [] to = "shipped" /\ Holds(out[o], a) -> "shipped"
                                             [] OTHER -> "none"]
    /\ UNCHANGED <<item, ships, sent, lock, loop, counters>>

\* settleItem: every output of the item is resolved.
Settled == \A o \in Outputs : ~unresolvedOutput(out[o])

SettleItem(a) ==
    /\ act[a].pc = "settle"
    /\ Goto(a, IF item.status = "ready" /\ Settled THEN "markshipped" ELSE "release")
    /\ UNCHANGED <<item, out, ships, sent, lock, loop, counters>>

MarkShipped(a) ==
    /\ act[a].pc = "markshipped"
    /\ item' = markShipped(item, 0)
    /\ Goto(a, "release")
    /\ UNCHANGED <<out, ships, sent, lock, loop, counters>>

Release(a) ==
    /\ act[a].pc = "release"
    /\ item' = releaseDecision(item, a)
    /\ Goto(a, "back")
    /\ UNCHANGED <<out, ships, sent, lock, loop, counters>>

\* Back to the fire, or to the caller.
Back(a) ==
    /\ act[a].pc = "back"
    /\ act' = [act EXCEPT ![a].pc = CASE a \notin Fires -> "end"
                                      [] a \in Fires /\ act[a].res = "thrown" -> "catch"
                                      [] OTHER -> "auto",
                          ![a].shipped = IF act[a].res = "shipped" THEN @ + 1 ELSE @,
                          ![a].o = NoOut, ![a].res = "none"]
    /\ UNCHANGED <<item, out, ships, sent, lock, loop, counters>>

ShipStep(a) ==
    \/ Decide(a) \/ Check(a) \/ Confirm(a) \/ ClaimShip(a) \/ Begin(a) \/ Turn(a) \/ Await(a)
    \/ Applies(a) \/ SettleItem(a) \/ MarkShipped(a) \/ Release(a) \/ Back(a) \/ End(a)

(***************************************************************************)
(* returnOutput, and sending the draft.                                    *)
(***************************************************************************)

ReturnStart(d) ==
    /\ Takes(d, "return")
    /\ \E o \in Outputs :
          /\ MayReturn(out[o])
          /\ act' = [act EXCEPT ![d].pc = "rdecide", ![d].o = o]
    /\ UNCHANGED <<item, out, ships, sent, loop, attempts, faults, events>>

ReturnDecide(d) ==
    /\ act[d].pc = "rdecide"
    /\ IF MayDecide(item) THEN Goto(d, "rcheck") /\ item' = acquireDecision(item, d)
       ELSE Goto(d, "back") /\ UNCHANGED item
    /\ UNCHANGED <<out, ships, sent, lock, loop, counters>>

ReturnCheck(d) ==
    /\ act[d].pc = "rcheck"
    /\ Goto(d, IF SomeState({"shipping"}) THEN "release" ELSE "returns")
    /\ UNCHANGED <<item, out, ships, sent, lock, loop, counters>>

ReturnOutput(d) ==
    /\ act[d].pc = "returns"
    /\ IF MayReturn(out[act[d].o])
       THEN out' = [out EXCEPT ![act[d].o] = To("returned")] /\ Goto(d, "siblings")
       ELSE Goto(d, "release") /\ UNCHANGED out
    /\ UNCHANGED <<item, ships, sent, lock, loop, counters>>

\* supersedeActiveSiblings.
Siblings(d) ==
    /\ act[d].pc = "siblings"
    /\ out' = [o \in Outputs |-> IF o = act[d].o THEN out[o] ELSE supersedeActive(out[o])]
    /\ Goto(d, "requeue")
    /\ UNCHANGED <<item, ships, sent, lock, loop, counters>>

Requeue(d) ==
    /\ act[d].pc = "requeue"
    /\ item' = returnToWork(item, 0)
    /\ Goto(d, "release")
    /\ UNCHANGED <<out, ships, sent, lock, loop, counters>>

\* actOnItem with kind "send": the item and its draft are read ...
SendStart(d) ==
    /\ Takes(d, "send")
    /\ item.status = "ready" /\ item.proposal # "none"
    /\ act' = [act EXCEPT ![d].pc = "sdecide", ![d].draft = item.draft]
    /\ UNCHANGED <<item, out, ships, sent, loop, attempts, faults, events>>

SendDecide(d) ==
    /\ act[d].pc = "sdecide"
    /\ IF MayDecide(item) THEN Goto(d, "scheck") /\ item' = acquireDecision(item, d)
       ELSE Goto(d, "back") /\ UNCHANGED item
    /\ UNCHANGED <<out, ships, sent, lock, loop, counters>>

\* ... and read again once the decision is held.
SendCheck(d) ==
    /\ act[d].pc = "scheck"
    /\ Goto(d, IF item.status # "shipped" /\ item.draft = act[d].draft THEN "act" ELSE "release")
    /\ UNCHANGED <<item, out, ships, sent, lock, loop, counters>>

\* The source adapter posts the draft, or the source refuses it.
Act(d) ==
    /\ act[d].pc = "act"
    /\ \/ sent' = [sent EXCEPT ![act[d].draft] = @ + 1] /\ Goto(d, "acted") /\ UNCHANGED faults
       \/ Fault("turn") /\ Goto(d, "release") /\ UNCHANGED sent
    /\ UNCHANGED <<item, out, ships, lock, loop, attempts, decisions, events>>

RecordSent(d) ==
    /\ act[d].pc = "acted"
    /\ item' = recordAction(item, "shipped")
    /\ Goto(d, "release")
    /\ UNCHANGED <<out, ships, sent, lock, loop, counters>>

DeciderStep(d) ==
    \/ ShipStart(d) \/ ReturnStart(d) \/ ReturnDecide(d) \/ ReturnCheck(d) \/ ReturnOutput(d)
    \/ Siblings(d) \/ Requeue(d) \/ SendStart(d) \/ SendDecide(d) \/ SendCheck(d) \/ Act(d) \/ RecordSent(d)

(***************************************************************************)
(* The ingress: a delivery refreshes the item under the lifecycle lock,    *)
(* which it only tries for, once no output is being shipped or waits to be *)
(* confirmed, and supersedes the outputs.                                  *)
(***************************************************************************)

Deliver(g) ==
    /\ act[g].pc = "idle" /\ lock = None /\ loop.runnable /\ Event("ingest")
    /\ \/ Refreshes(item, item.source + 1, FALSE) /\ SomeState({"shipping", "unconfirmed"})
          /\ UNCHANGED <<act, lock>>
       \/ ~(Refreshes(item, item.source + 1, FALSE) /\ SomeState({"shipping", "unconfirmed"}))
          /\ lock' = g /\ Goto(g, "ingest")
    /\ UNCHANGED <<item, out, ships, sent, loop, attempts, decisions, faults>>

DeliverIngest(g) ==
    /\ act[g].pc = "ingest"
    /\ IF IngestRefused(item, item.source + 1, FALSE) THEN Goto(g, "end") /\ UNCHANGED item
       ELSE item' = ingest(item, item.source + 1, FALSE, 0) /\ Goto(g, "clear")
    /\ UNCHANGED <<out, ships, sent, lock, loop, counters>>

DeliverClear(g) ==
    /\ act[g].pc = "clear"
    /\ out' = [o \in Outputs |-> supersedeActive(out[o])]
    /\ Goto(g, "end")
    /\ UNCHANGED <<item, ships, sent, lock, loop, counters>>

(***************************************************************************)
(* What agents and users do outside the lock.                              *)
(***************************************************************************)

Changes(kind, new) ==
    /\ Event(kind) /\ item' = new /\ item' # item
    /\ UNCHANGED <<out, act, ships, sent, lock, loop, attempts, decisions, faults>>

\* ingestItems, and a message the inbox hears of: a newer source event.
IngestItem ==
    /\ ~IngestRefused(item, item.source + 1, FALSE)
    /\ Changes("ingest", ingest(item, item.source + 1, FALSE, 0))

\* ... with a draft, for a newer event or the same one.
IngestDraft ==
    \E at \in {item.source, item.source + 1} : Changes("draft", ingest(item, at, TRUE, EventDraft))

EditDraft == Changes("edit", setProposal(item, "human", EventDraft))

Dismiss == Changes("dismiss", recordAction(item, "skipped"))

Reopen == Changes("reopen", reopen(item))

\* The item of a chat that was sent is opened for one more reply.
Reply == Changes("reply", reopenReply(item, EventDraft))

\* A user pauses or resumes the loop, or revokes the grant.
SetLoop ==
    /\ \/ Event("pause") /\ loop' = [loop EXCEPT !.runnable = ~@]
       \/ Event("revoke") /\ loop.granted /\ loop' = [loop EXCEPT !.granted = FALSE]
    /\ UNCHANGED <<item, out, act, ships, sent, lock, attempts, decisions, faults>>

(***************************************************************************)
(* Faults.                                                                 *)
(***************************************************************************)

\* A lease runs out: CLAIM_LEASE_MS, DECISION_LEASE_MS, SHIP_LEASE_MS.  The
\* claim of a fire that is gone always does.
Lapse ==
    /\ \/ /\ item.status = "in_progress" /\ ~item.stale
          /\ \/ Fault("claim")
             \/ (\A f \in Fires : act[f].att # item.claim) /\ UNCHANGED faults
          /\ item' = [item EXCEPT !.stale = TRUE] /\ UNCHANGED out
       \/ /\ Fault("decision") /\ Deciding(item)
          /\ item' = [item EXCEPT !.lapsed = TRUE] /\ UNCHANGED out
       \/ /\ Fault("ship") /\ UNCHANGED item
          /\ \E o \in Outputs : /\ out[o].state = "shipping" /\ ~out[o].stale
                                /\ out' = [out EXCEPT ![o].stale = TRUE]
    /\ UNCHANGED <<act, ships, sent, lock, loop, attempts, decisions, events>>

\* The connection that holds the lock is gone, its holder is not.
LockLost ==
    /\ Fault("lock") /\ lock # None
    /\ lock' = None
    /\ UNCHANGED <<item, out, act, ships, sent, loop, attempts, decisions, events>>

\* The process of an actor dies; its records stay as they are.
Crash(a) ==
    /\ Fault("crash") /\ act[a].pc # "idle"
    /\ act' = [act EXCEPT ![a] = Idle]
    /\ lock' = IF lock = a THEN None ELSE lock
    /\ UNCHANGED <<item, out, ships, sent, loop, attempts, decisions, events>>

Next ==
    \/ \E f \in Fires : FireStep(f)
    \/ \E a \in Actors : ShipStep(a) \/ Crash(a)
    \/ \E d \in Deciders : DeciderStep(d)
    \/ \E g \in Ingress : Deliver(g) \/ DeliverIngest(g) \/ DeliverClear(g)
    \/ \E o \in Outputs : RunEnds(o)
    \/ IngestItem \/ IngestDraft \/ EditDraft \/ Dismiss \/ Reopen \/ Reply \/ SetLoop
    \/ Lapse \/ LockLost

Spec == Init /\ [][Next]_vars

(***************************************************************************)
(* Properties.                                                             *)
(***************************************************************************)

PCs == {"idle", "sweep", "intake", "claim", "work", "record", "capture", "held", "judge", "abandon", "park",
        "return", "publish", "hold", "close", "promote", "auto", "done", "catch", "undo", "end", "decide",
        "check", "confirm", "claimship", "begin", "turn", "await", "outcome", "settle", "markshipped",
        "release", "back", "rdecide", "rcheck", "returns", "siblings", "requeue", "sdecide", "scheck",
        "act", "acted", "ingest", "clear"}

\* Types of the records, the actors' places and the counters.
TypeOK ==
    /\ item.status \in Statuses /\ item.attempts \in 0..MaxAttempted /\ item.claim \in 0..MaxAttempted
    /\ item.stale \in BOOLEAN /\ item.decision \in Actors \cup {None} /\ item.lapsed \in BOOLEAN
    /\ item.run \in 0..MaxAttempted /\ item.outputs \subseteq Outputs /\ item.proposal \in Proposals
    /\ item.draft \in Drafts /\ item.source \in 0..MaxEvents
    /\ item.claim # 0 <=> item.status = "in_progress"
    /\ \A o \in Outputs : out[o].state \in OutputStates /\ (out[o].claim # None <=> out[o].state = "shipping")
    /\ \A a \in Actors : act[a].pc \in PCs /\ act[a].made \in 0..MaxOut
    /\ \A f \in Fires : act[f].shipped <= act[f].ready
    /\ lock \in Actors \cup {None}

\* A ship turn is started at most once for an output, whoever asks for it
\* again after a failure, a lapsed lease or a crash.
OneShipTurn == \A o \in Outputs : turns[o] <= 1

\* A ship turn starts only for an output that the item holds, while the item
\* waits for a decision: not for one of an attempt that a refresh or a return
\* has discarded.  (A dismissal does not wait for the decision.)
ShipsPublishedStep ==
    \A o \in Outputs : turns'[o] > turns[o] => o \in item.outputs /\ item.status \in {"ready", "skipped"}

ShipsPublished == [][ShipsPublishedStep]_vars

\* An output is offered for review only once its attempt has published it on
\* the item, and it publishes them only while it holds the claim: an attempt
\* that was taken over offers nothing.
FencedAttemptsStep ==
    /\ \A o \in Outputs : out[o].state = "staged" /\ out'[o].state = "ready" => o \in item.outputs
    /\ \A o \in item'.outputs \ item.outputs : item.claim = o[1]

FencedAttempts == [][FencedAttemptsStep]_vars

\* While an output is being shipped its item is not sent back to the queue,
\* and none of its outputs is returned.
ShippingHoldsItemStep ==
    SomeState({"shipping"})
      => /\ ~(item.status = "ready" /\ item'.status = "queued")
         /\ \A o \in Outputs : out'[o].state = "returned" => out[o].state = "returned"

ShippingHoldsItem == [][ShippingHoldsItemStep]_vars

\* When nobody is at work on it, an item that is ready holds a draft or an
\* output a person can still decide about.
ReadyIsActionable ==
    (item.status = "ready" /\ \A a \in Actors : act[a].pc = "idle")
        => item.proposal # "none" \/ \E o \in item.outputs : unresolvedOutput(out[o])

\* An item that is closed leaves no output behind that waits for a decision.
ShippedIsSettled ==
    (item.status = "shipped" /\ \A a \in Actors : act[a].pc = "idle")
        => ~SomeState({"ready", "shipping", "unconfirmed"})

\* No version of a draft is sent twice.
SendsOnce == \A d \in Drafts : sent[d] <= 1

\* test: an item that keeps failing is parked at its attempt cap, as failed.
ParkedIsFailed ==
    [][\A f \in Fires : act[f].pc = "park" /\ act'[f].pc # "park" => item'.status = "failed"]_vars

\* docs: a conversation refreshes only when nothing of it is being shipped or
\* waits to be confirmed.
RefreshWaits ==
    [][(item.source # item'.source /\ item'.status = "queued" /\ item.outputs # {})
          => ~SomeState({"shipping", "unconfirmed"})]_vars

\* docs: held outputs of the old conversation are gone before the new one is
\* worked.
StartsClean ==
    [][(item.status = "queued" /\ item'.status = "in_progress")
          => ~SomeState({"ready"})]_vars
=============================================================================
