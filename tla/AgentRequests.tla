--------------------------- MODULE AgentRequests ---------------------------
(***************************************************************************)
(* A channel agent asks a person's own agent (src/slack/approvals.ts).  A  *)
(* status goes to the origin thread and a message with two buttons to the  *)
(* person; a record in core's store ties them together.  A click takes the *)
(* record; Run starts a turn as that person, whose result replaces the     *)
(* status.  A turn that needs a command approved puts the record back and  *)
(* the approval card, once clicked, goes on with it.                       *)
(*                                                                         *)
(*   rec     the stored record: "none", "plain" or "linked" (to a card)    *)
(*   old     requests older than their seven days                          *)
(*   origin  what the origin thread shows, "none" before anything          *)
(*   dm      what the person's message shows                               *)
(*   card    the approval card: "none", "ready", "busy"                    *)
(*   mem     requests whose card is in the plugin's registry               *)
(*   poster  the handler that sends the request: "none", "dm", "put",      *)
(*           "settle", "tell", "done"                                      *)
(*   hands   the handlers of clicks                                        *)
(*   turns   how many turns each request started (a history)               *)
(***************************************************************************)
EXTENDS Integers, FiniteSets

CONSTANTS Requests, Hands,
          Faults,       \* which happen: "call", "restart", "expiry"
          MaxFaults     \* bound: how many

VARIABLES rec, old, origin, dm, card, mem, poster, hands, turns, faults

vars == <<rec, old, origin, dm, card, mem, poster, hands, turns, faults>>

shown == <<origin, dm>>

NoHand == [pc |-> "none", req |-> {}, yes |-> FALSE, kind |-> "none"]

Finals == {"declined", "failed", "done"}

TypeOK ==
    /\ rec \in [Requests -> {"none", "plain", "linked"}]
    /\ old \subseteq Requests /\ mem \subseteq Requests
    /\ origin \in [Requests -> {"none", "waiting", "running", "asking"} \cup Finals]
    /\ dm \in [Requests -> {"none", "buttons", "running", "asking", "expired"} \cup Finals]
    /\ card \in [Requests -> {"none", "ready", "busy"}]
    /\ poster \in [Requests -> {"none", "dm", "put", "settle", "tell", "done"}]
    /\ \A h \in Hands : hands[h].pc \in {"none", "fetch", "claim", "decline", "approve", "run", "wait", "ask",
                                         "card", "resume", "settle", "tell"}
    /\ turns \in [Requests -> Nat]
    /\ faults \in 0..MaxFaults
    /\ \A r \in Requests : rec[r] = "linked" => turns[r] > 0
    /\ \A r \in mem : card[r] # "none"

Init ==
    /\ rec = [r \in Requests |-> "none"] /\ old = {}
    /\ origin = [r \in Requests |-> "none"] /\ dm = [r \in Requests |-> "none"]
    /\ card = [r \in Requests |-> "none"] /\ mem = {}
    /\ poster = [r \in Requests |-> "none"]
    /\ hands = [h \in Hands |-> NoHand]
    /\ turns = [r \in Requests |-> 0]
    /\ faults = 0

Fault(kind) == kind \in Faults /\ faults < MaxFaults /\ faults' = faults + 1

Fresh(r) == rec[r] # "none" /\ r \notin old

\* putAgentRequest: store, then sweep the expired ones.
Stored(r, how) == [q \in Requests |-> IF q = r THEN how ELSE IF q \in old THEN "none" ELSE rec[q]]

-----------------------------------------------------------------------------
(***************************************************************************)
(* The request is sent                                                     *)
(***************************************************************************)

\* The status is posted; when that fails, only a note is, and nothing waits.
PostStatus(r) ==
    /\ poster[r] = "none"
    /\ \/ /\ origin' = [origin EXCEPT ![r] = "waiting"]
          /\ poster' = [poster EXCEPT ![r] = "dm"]
          /\ UNCHANGED faults
       \/ /\ Fault("call")
          /\ poster' = [poster EXCEPT ![r] = "done"]
          /\ UNCHANGED origin
    /\ UNCHANGED <<rec, old, dm, card, mem, hands, turns>>

PostDM(r) ==
    /\ poster[r] = "dm"
    /\ \/ /\ dm' = [dm EXCEPT ![r] = "buttons"]
          /\ poster' = [poster EXCEPT ![r] = "put"]
          /\ UNCHANGED faults
       \/ /\ Fault("call")
          /\ poster' = [poster EXCEPT ![r] = "settle"]
          /\ UNCHANGED dm
    /\ UNCHANGED <<rec, old, origin, card, mem, hands, turns>>

\* putAgentRequest; a failed call may still have stored the record.
Put(r) ==
    /\ poster[r] = "put"
    /\ \/ /\ rec' = Stored(r, "plain")
          /\ poster' = [poster EXCEPT ![r] = "done"]
          /\ UNCHANGED faults
       \/ /\ Fault("call")
          /\ rec' \in {rec, Stored(r, "plain")}
          /\ poster' = [poster EXCEPT ![r] = "settle"]
    /\ UNCHANGED <<old, shown, card, mem, hands, turns>>

\* failAgentRequest of a request that could not be sent: the record goes
\* (a failure to take it is ignored),
SettleSent(r) ==
    /\ poster[r] = "settle"
    /\ \/ rec' = [rec EXCEPT ![r] = "none"] /\ UNCHANGED faults
       \/ Fault("call") /\ UNCHANGED rec
    /\ poster' = [poster EXCEPT ![r] = "tell"]
    /\ UNCHANGED <<old, shown, card, mem, hands, turns>>

\* and then both messages say so.
TellSent(r) ==
    /\ poster[r] = "tell"
    /\ origin' = [origin EXCEPT ![r] = "failed"]
    /\ dm' = [dm EXCEPT ![r] = IF @ = "none" THEN "none" ELSE "failed"]
    /\ poster' = [poster EXCEPT ![r] = "done"]
    /\ UNCHANGED <<rec, old, card, mem, hands, turns, faults>>

-----------------------------------------------------------------------------
(***************************************************************************)
(* The person clicks                                                       *)
(***************************************************************************)

Step(h, pc) == hands' = [hands EXCEPT ![h].pc = pc]

Done(h) == hands' = [hands EXCEPT ![h] = NoHand]

Click(h, r, yes) ==
    /\ hands[h] = NoHand /\ dm[r] = "buttons"
    /\ hands' = [hands EXCEPT ![h] = [pc |-> "fetch", req |-> r, yes |-> yes, kind |-> "handoff"]]
    /\ UNCHANGED <<rec, old, shown, card, mem, poster, turns, faults>>

\* fetchAgentRequest: one that is gone turns the message into a notice; a
\* failed call leaves it to be tried again.
Fetch(h) ==
    LET r == hands[h].req IN
    /\ hands[h].pc = "fetch"
    /\ \/ Fresh(r) /\ Step(h, "claim") /\ UNCHANGED <<dm, faults>>
       \/ ~Fresh(r) /\ dm' = [dm EXCEPT ![r] = "expired"] /\ Done(h) /\ UNCHANGED faults
       \/ Fault("call") /\ Done(h) /\ UNCHANGED dm
    /\ UNCHANGED <<rec, old, origin, card, mem, poster, turns>>

\* takeAgentRequest: only one taker gets the record.  A failed call may have
\* taken it.
Claim(h) ==
    LET r == hands[h].req IN
    /\ hands[h].pc = "claim"
    /\ \/ /\ rec' = [rec EXCEPT ![r] = "none"]
          /\ IF Fresh(r) THEN Step(h, IF hands[h].yes THEN "approve" ELSE "decline") ELSE Done(h)
          /\ UNCHANGED faults
       \/ Fault("call") /\ rec' \in {rec, [rec EXCEPT ![r] = "none"]} /\ Done(h)
    /\ UNCHANGED <<old, shown, card, mem, poster, turns>>

Decline(h) ==
    LET r == hands[h].req IN
    /\ hands[h].pc = "decline"
    /\ dm' = [dm EXCEPT ![r] = "declined"]
    /\ origin' = [origin EXCEPT ![r] = "declined"]
    /\ Done(h)
    /\ UNCHANGED <<rec, old, card, mem, poster, turns, faults>>

\* Both messages say it runs; a failed update fails the request.
Approve(h) ==
    LET r == hands[h].req IN
    /\ hands[h].pc = "approve"
    /\ \/ /\ dm' = [dm EXCEPT ![r] = "running"]
          /\ origin' = [origin EXCEPT ![r] = "running"]
          /\ Step(h, "run")
          /\ UNCHANGED faults
       \/ /\ Fault("call") /\ UNCHANGED shown
          /\ hands' = [hands EXCEPT ![h].pc = "settle", ![h].yes = FALSE]
    /\ UNCHANGED <<rec, old, card, mem, poster, turns>>

\* runTurn, in the person's own conversation.
Run(h) ==
    /\ hands[h].pc = "run"
    /\ turns' = [turns EXCEPT ![hands[h].req] = @ + 1]
    /\ Step(h, "wait")
    /\ UNCHANGED <<rec, old, shown, card, mem, poster, faults>>

-----------------------------------------------------------------------------
(***************************************************************************)
(* The turn's result                                                       *)
(***************************************************************************)

\* handleAgentRequestResult: approvals, a reply, or neither.
Result(h) ==
    /\ hands[h].pc = "wait"
    /\ \/ Step(h, "ask")
       \/ hands' = [hands EXCEPT ![h].pc = "settle", ![h].yes = TRUE]
       \/ hands' = [hands EXCEPT ![h].pc = "settle", ![h].yes = FALSE]
    /\ UNCHANGED <<rec, old, shown, card, mem, poster, turns, faults>>

\* The record is put back, tied to the approval; without it the request fails.
Ask(h) ==
    LET r == hands[h].req IN
    /\ hands[h].pc = "ask"
    /\ \/ rec' = Stored(r, "linked") /\ Step(h, "card") /\ UNCHANGED faults
       \/ /\ Fault("call")
          /\ rec' \in {rec, Stored(r, "linked")}
          /\ hands' = [hands EXCEPT ![h].pc = "settle", ![h].yes = FALSE]
    /\ UNCHANGED <<old, shown, card, mem, poster, turns>>

\* The card goes to the person; both messages say what is awaited.
PostCard(h) ==
    LET r == hands[h].req IN
    /\ hands[h].pc = "card"
    /\ card' = [card EXCEPT ![r] = "ready"] /\ mem' = mem \cup {r}
    /\ origin' = [origin EXCEPT ![r] = "asking"]
    /\ dm' = [dm EXCEPT ![r] = "asking"]
    /\ Done(h)
    /\ UNCHANGED <<rec, old, poster, turns, faults>>

\* A click on the approval card.  The registry knows the request; after a
\* restart agentRequestForApproval finds it by the link, and without it the
\* approval is an ordinary one.
CardClick(h, r, yes) ==
    /\ hands[h] = NoHand /\ card[r] = "ready"
    /\ card' = [card EXCEPT ![r] = "busy"] /\ mem' = mem \cup {r}
    /\ hands' = [hands EXCEPT ![h] = [pc |-> "resume", req |-> r, yes |-> yes,
                     kind |-> IF r \in mem \/ (rec[r] = "linked" /\ r \notin old) THEN "approval" ELSE "plain"]]
    /\ UNCHANGED <<rec, old, shown, poster, turns, faults>>

\* The approved turn goes on, or the denied one ends, and the card is
\* settled; when the wait for it fails the buttons come back.
Resume(h) ==
    LET r == hands[h].req IN
    /\ hands[h].pc = "resume"
    /\ \/ /\ card' = [card EXCEPT ![r] = "none"] /\ mem' = mem \ {r}
          /\ IF hands[h].kind = "plain" THEN Done(h)
             ELSE Step(h, IF hands[h].yes THEN "wait" ELSE "settle")
          /\ UNCHANGED faults
       \/ /\ Fault("call") /\ UNCHANGED mem
          /\ card' = [card EXCEPT ![r] = "ready"]
          /\ Done(h)
    /\ UNCHANGED <<rec, old, shown, poster, turns>>

\* completeAgentRequest and failAgentRequest first take the record,
Settle(h) ==
    /\ hands[h].pc = "settle"
    /\ \/ rec' = [rec EXCEPT ![hands[h].req] = "none"] /\ UNCHANGED faults
       \/ Fault("call") /\ UNCHANGED rec
    /\ Step(h, "tell")
    /\ UNCHANGED <<old, shown, card, mem, poster, turns>>

\* then post the result, or the failure, where the status was.
Tell(h) ==
    LET r == hands[h].req
        said == IF hands[h].yes THEN "done" ELSE "failed" IN
    /\ hands[h].pc = "tell"
    /\ origin' = [origin EXCEPT ![r] = said]
    /\ dm' = [dm EXCEPT ![r] = said]
    /\ Done(h)
    /\ UNCHANGED <<rec, old, card, mem, poster, turns, faults>>

-----------------------------------------------------------------------------
(***************************************************************************)
(* Faults                                                                  *)
(***************************************************************************)

\* The plugin restarts: its handlers and its registry are gone.  A card whose
\* command was allowed has lost its buttons.
Restart ==
    /\ Fault("restart")
    /\ hands' = [h \in Hands |-> NoHand]
    /\ poster' = [r \in Requests |-> IF poster[r] = "none" THEN "none" ELSE "done"]
    /\ mem' = {}
    /\ card' = [r \in Requests |->
                   IF card[r] # "busy" THEN card[r]
                   ELSE IF \E h \in Hands : hands[h].pc = "resume" /\ hands[h].req = r /\ hands[h].yes THEN "none"
                   ELSE "ready"]
    /\ UNCHANGED <<rec, old, shown, turns>>

Expire(r) ==
    /\ rec[r] # "none" /\ r \notin old /\ Fault("expiry")
    /\ old' = old \cup {r}
    /\ UNCHANGED <<rec, shown, card, mem, poster, hands, turns>>

Send(r) == PostStatus(r) \/ PostDM(r) \/ Put(r) \/ SettleSent(r) \/ TellSent(r)

Handle(h) ==
    \/ Fetch(h) \/ Claim(h) \/ Decline(h) \/ Approve(h) \/ Run(h) \/ Result(h)
    \/ Ask(h) \/ PostCard(h) \/ Resume(h) \/ Settle(h) \/ Tell(h)

Next ==
    \/ \E r \in Requests : Send(r) \/ Expire(r)
    \/ \E h \in Hands : Handle(h)
    \/ \E h \in Hands, r \in Requests, yes \in BOOLEAN : Click(h, r, yes) \/ CardClick(h, r, yes)
    \/ Restart

Spec == Init /\ [][Next]_vars

\* The plugin's handlers run to their end.
FairSpec ==
    /\ Spec
    /\ \A r \in Requests : WF_vars(Send(r))
    /\ \A h \in Hands : WF_vars(Handle(h))

-----------------------------------------------------------------------------
Holding(h, r) ==
    hands[h].req = r /\ hands[h].kind = "handoff" /\ hands[h].pc \in {"approve", "decline", "run", "wait", "ask"}

\* Of the clicks on one request, a single one acts on it at a time.
OneHolder ==
    \A r \in Requests, g, h \in Hands : Holding(g, r) /\ Holding(h, r) => g = h

\* A handoff that ended leaves no record another click could take.
FinalHasNoRecord ==
    \A r \in Requests :
        origin[r] \in Finals /\ poster[r] = "done" /\ (\A h \in Hands : hands[h].req # r) => rec[r] = "none"

\* An approval met after a restart reports to the origin as long as the
\* record ties it there.
LinkedReportsBack ==
    \A h \in Hands, r \in Requests :
        hands[h].req = r /\ hands[h].kind = "plain" => rec[r] # "linked" \/ r \in old

\* What a person lets run comes to an end the origin thread is told of, or
\* waits for them to approve a command.
HandoffAnswered ==
    \A r \in Requests : origin[r] = "running" ~> origin[r] \in Finals \cup {"asking"}

\* A person is only told a request expired when it has.
ExpiredIsOld == \A r \in Requests : dm[r] = "expired" => r \in old

\* A request starts one turn.
OneTurn == \A r \in Requests : turns[r] <= 1

=============================================================================
