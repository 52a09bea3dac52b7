----------------------------- MODULE Approvals -----------------------------
(***************************************************************************)
(* Command approvals of one conversation: a turn that meets a gated        *)
(* command records a request; the requester decides with a button, which   *)
(* submits another turn; that turn consumes the request and goes on with   *)
(* the command allowed.                                                    *)
(*                                                                         *)
(* The id of a request is a hash of conversation and command: a command    *)
(* has one request at a time, and a later one has the same id.  Requests   *)
(* are told apart here by the number of their raising, which the code      *)
(* does not have.                                                          *)
(*                                                                         *)
(*   pending   of each command: the number of its request, 0 if none       *)
(*   blocking  the commands whose request seals the conversation           *)
(*   grants    commands with a standing grant for the conversation         *)
(*   runs      the turns, in the order they were queued                    *)
(*   work      the workers: attempt, place, request found, standing grants *)
(*             read at the start, uses left of the decided command, and    *)
(*             the commands to ask for                                     *)
(*   tape      approval_resolved entries: run, request, decision           *)
(*   ran       executions of a run that no standing grant covered          *)
(*   clicks    the handler of a button, of each surface                    *)
(*   card      Slack's registry: of each command none, ready or busy       *)
(*   shown     commands with buttons in Slack                              *)
(***************************************************************************)
EXTENDS Naturals, FiniteSets, FiniteSetsExt

CONSTANTS
    Commands, Workers, Surfaces,
    Slack,         \* the surface with a registry
    Scopes,        \* those offered: "once", "session"
    MaxRuns,       \* bound: turns
    MaxAttempts,   \* of a run
    MaxCalls,      \* bound: gated calls of an attempt
    MaxFaults      \* bound: crashes and failed waits

VARIABLES pending, raised, blocking, grants, runs, work, tape, ran, clicks, card, shown, faults

vars == <<pending, raised, blocking, grants, runs, work, tape, ran, clicks, card, shown, faults>>
requests == <<pending, raised, blocking>>
buttons == <<clicks, card, shown>>

Ids == 1..MaxRuns
NoRun == [kind |-> "none", cmd |-> {}, yes |-> FALSE, scope |-> "once", about |-> 0, status |-> "none", attempts |-> 0, asked |-> {}]
NoWork == [pc |-> "idle", run |-> 0, attempt |-> 0, found |-> 0, may |-> {}, uses |-> {}, calls |-> 0, asks |-> {}]
NoClick == [pc |-> "none", cmd |-> {}, yes |-> FALSE, scope |-> "once", run |-> 0]

Init ==
    /\ pending = [c \in Commands |-> 0] /\ raised = 0 /\ blocking = {}
    /\ grants = {}
    /\ runs = [r \in Ids |-> NoRun]
    /\ work = [w \in Workers |-> NoWork]
    /\ tape = {} /\ ran = [r \in Ids |-> 0]
    /\ clicks = [s \in Surfaces |-> NoClick]
    /\ card = [c \in Commands |-> "none"] /\ shown = {}
    /\ faults = 0

Fault == faults < MaxFaults /\ faults' = faults + 1

(***************************************************************************)
(* Submission: turn of the API.                                            *)
(***************************************************************************)

Free == {r \in Ids : runs[r].kind = "none"}

Enqueued(run) == [runs EXCEPT ![Min(Free)] = run]

\* The conversation is sealed.
Sealed == blocking # {}

\* A message; a conversation that is sealed takes none.
Say ==
    /\ Free # {} /\ ~Sealed
    /\ runs' = Enqueued([NoRun EXCEPT !.kind = "message", !.status = "pending"])
    /\ UNCHANGED <<requests, grants, work, tape, ran, buttons, faults>>

\* Slack answers a message to a sealed conversation with the buttons.
SaySealed ==
    /\ Sealed
    /\ shown' = shown \cup blocking
    /\ card' = [c \in Commands |-> IF c \in blocking THEN "ready" ELSE card[c]]
    /\ UNCHANGED <<requests, grants, runs, work, tape, ran, clicks, faults>>

\* Slack posts the reply of a message, and buttons for what it asks.
Post(r) ==
    /\ runs[r].kind = "message" /\ runs[r].asked # {}
    /\ shown' = shown \cup runs[r].asked
    /\ card' = [c \in Commands |-> IF c \in runs[r].asked THEN "ready" ELSE card[c]]
    /\ runs' = [runs EXCEPT ![r].asked = {}]
    /\ UNCHANGED <<requests, grants, work, tape, ran, clicks, faults>>

\* approvalResumable; while the conversation is sealed only a blocking
\* request can be decided.
Resumable(c) == pending[c] # 0 /\ (Sealed => c \in blocking)

DecisionRun(k) ==
    [NoRun EXCEPT !.kind = "decision", !.cmd = k.cmd, !.yes = k.yes, !.scope = k.scope,
                  !.about = pending[k.cmd], !.status = "pending"]

\* A web button submits the decision.
WebClick(s, c, yes, scope) ==
    /\ s # Slack /\ Free # {} /\ Resumable(c)
    /\ runs' = Enqueued(DecisionRun([NoClick EXCEPT !.cmd = c, !.yes = yes, !.scope = scope]))
    /\ UNCHANGED <<requests, grants, work, tape, ran, buttons, faults>>

(***************************************************************************)
(* Slack's button: handleApprovalAction.                                   *)
(***************************************************************************)

\* The handler looks whether the request is being resolved, and fetches it;
\* one that is gone is forgotten.
Fetch(c, yes, scope) ==
    /\ clicks[Slack].pc = "none" /\ c \in shown /\ card[c] # "busy"
    /\ IF pending[c] = 0
       THEN /\ card' = [card EXCEPT ![c] = "none"] /\ shown' = shown \ {c}
            /\ UNCHANGED clicks
       ELSE /\ card' = [card EXCEPT ![c] = "ready"]
            /\ clicks' = [clicks EXCEPT ![Slack] = [NoClick EXCEPT !.pc = "fetched", !.cmd = c, !.yes = yes, !.scope = scope]]
            /\ UNCHANGED shown
    /\ UNCHANGED <<requests, grants, runs, work, tape, ran, faults>>

\* begin, and the turn is submitted.  Refused, it leaves no buttons; sealed
\* out, it leaves those that seal the conversation.
Begin ==
    LET k == clicks[Slack] IN
    /\ k.pc = "fetched" /\ card[k.cmd] = "ready" /\ Free # {}
    /\ IF Resumable(k.cmd)
       THEN /\ runs' = Enqueued(DecisionRun(k))
            /\ card' = [card EXCEPT ![k.cmd] = "busy"]
            /\ shown' = shown \ {k.cmd}
            /\ clicks' = [clicks EXCEPT ![Slack].pc = "waiting", ![Slack].run = Min(Free)]
       ELSE LET back == IF pending[k.cmd] = 0 THEN {} ELSE blocking IN
            /\ card' = [c \in Commands |-> IF c \in back THEN "ready" ELSE IF c = k.cmd THEN "none" ELSE card[c]]
            /\ shown' = (shown \ {k.cmd}) \cup back
            /\ clicks' = [clicks EXCEPT ![Slack] = NoClick]
            /\ UNCHANGED runs
    /\ UNCHANGED <<requests, grants, work, tape, ran, faults>>

Over(r) == runs[r].status \in {"ok", "asked", "refused", "failed"}

\* The card after a turn; only a turn that paused brings buttons.
Brought(r) == IF runs[r].status = "asked" THEN runs[r].asked ELSE {}

\* The turn ended: the card is settled; new requests are remembered.
Settle ==
    LET k == clicks[Slack] IN
    /\ k.pc = "waiting" /\ Over(k.run)
    /\ shown' = shown \cup Brought(k.run)
    /\ card' = [c \in Commands |-> IF c \in Brought(k.run) THEN "ready" ELSE IF c = k.cmd THEN "none" ELSE card[c]]
    /\ clicks' = [clicks EXCEPT ![Slack] = NoClick]
    /\ UNCHANGED <<requests, grants, runs, work, tape, ran, faults>>

\* The wait fails though the turn is queued: the buttons come back.
Release ==
    LET k == clicks[Slack] IN
    /\ k.pc = "waiting" /\ Fault
    /\ card' = [card EXCEPT ![k.cmd] = "ready"] /\ shown' = shown \cup {k.cmd}
    /\ clicks' = [clicks EXCEPT ![Slack] = NoClick]
    /\ UNCHANGED <<requests, grants, runs, work, tape, ran>>

\* The plugin restarts: its registry was in memory.
Restart ==
    /\ Fault
    /\ card' = [c \in Commands |-> "none"]
    /\ clicks' = [clicks EXCEPT ![Slack] = NoClick]
    /\ UNCHANGED <<requests, grants, runs, work, tape, ran, shown>>

(***************************************************************************)
(* The turn: handleTurn.                                                   *)
(***************************************************************************)

\* The queue serves a conversation one run at a time, in order.
Claim(w) ==
    /\ work[w].pc = "idle"
    /\ \A r \in Ids : runs[r].status # "running"
    /\ LET due == {r \in Ids : runs[r].status = "pending"} IN
       /\ due # {}
       /\ LET r == Min(due) IN
          /\ runs' = [runs EXCEPT ![r].status = "running", ![r].attempts = @ + 1]
          /\ work' = [work EXCEPT ![w] = [NoWork EXCEPT !.run = r, !.attempt = runs[r].attempts + 1, !.may = grants,
                                              !.pc = IF runs[r].kind = "decision" THEN "look" ELSE "agent"]]
    /\ UNCHANGED <<requests, grants, tape, ran, buttons, faults>>

Goto(w, pc) == work' = [work EXCEPT ![w].pc = pc]

Ended(w, status) == [runs EXCEPT ![work[w].run].status = status]

\* Mutant of Look: a retried run takes its request to be there still.
LookOnce(w) ==
    /\ work[w].pc = "look"
    /\ LET c == runs[work[w].run].cmd IN
       IF pending[c] = 0 /\ work[w].attempt = 1
       THEN runs' = Ended(w, "refused") /\ work' = [work EXCEPT ![w] = NoWork]
       ELSE work' = [work EXCEPT ![w].pc = "append", ![w].found = pending[c]] /\ UNCHANGED runs
    /\ UNCHANGED <<requests, grants, tape, ran, buttons, faults>>

\* Mutant of Look: a denial is not written to the conversation.
LookSilent(w) ==
    /\ work[w].pc = "look"
    /\ LET run == runs[work[w].run] IN
       IF pending[run.cmd] = 0
       THEN runs' = Ended(w, "refused") /\ work' = [work EXCEPT ![w] = NoWork]
       ELSE /\ work' = [work EXCEPT ![w].pc = IF run.yes THEN "append" ELSE "delete", ![w].found = pending[run.cmd]]
            /\ UNCHANGED runs
    /\ UNCHANGED <<requests, grants, tape, ran, buttons, faults>>

\* A decision without a request is refused.
Look(w) ==
    /\ work[w].pc = "look"
    /\ LET c == runs[work[w].run].cmd IN
       IF pending[c] = 0
       THEN runs' = Ended(w, "refused") /\ work' = [work EXCEPT ![w] = NoWork]
       ELSE work' = [work EXCEPT ![w].pc = "append", ![w].found = pending[c]] /\ UNCHANGED runs
    /\ UNCHANGED <<requests, grants, tape, ran, buttons, faults>>

\* The decision is written to the conversation.
Append(w) ==
    /\ work[w].pc = "append"
    /\ tape' = tape \cup {[run |-> work[w].run, about |-> work[w].found, yes |-> runs[work[w].run].yes]}
    /\ Goto(w, "delete")
    /\ UNCHANGED <<requests, grants, runs, ran, buttons, faults>>

\* The request is consumed; a denial ends the turn.
Delete(w) ==
    /\ work[w].pc = "delete"
    /\ LET c == runs[work[w].run].cmd IN
       /\ pending' = [pending EXCEPT ![c] = 0]
       /\ blocking' = blocking \ {c}
       /\ IF runs[work[w].run].yes
          THEN work' = [work EXCEPT ![w].pc = "grant", ![w].uses = {c}] /\ UNCHANGED runs
          ELSE runs' = Ended(w, "refused") /\ work' = [work EXCEPT ![w] = NoWork]
    /\ UNCHANGED <<raised, grants, tape, ran, buttons, faults>>

\* A decision for the conversation leaves a standing grant.
Grant(w) ==
    /\ work[w].pc = "grant"
    /\ LET run == runs[work[w].run] IN
       IF run.scope = "session"
       THEN /\ grants' = grants \cup {run.cmd}
            /\ work' = [work EXCEPT ![w].pc = "agent", ![w].may = @ \cup {run.cmd}, ![w].uses = {}]
       ELSE Goto(w, "agent") /\ UNCHANGED grants
    /\ UNCHANGED <<requests, runs, tape, ran, buttons, faults>>

\* authorizeCommand counts a use.
Uses(w, c) == work[w].uses \ {c}

\* The agent calls a gated command: allowed, or to be asked for.
Call(w, c) ==
    /\ work[w].pc = "agent" /\ work[w].calls < MaxCalls /\ work[w].asks = {}
    /\ work' = [work EXCEPT ![w].calls = @ + 1,
                            ![w].uses = Uses(w, c),
                            ![w].asks = IF c \in work[w].may \cup work[w].uses THEN {} ELSE {c}]
    /\ ran' = IF c \in work[w].uses \ work[w].may THEN [ran EXCEPT ![work[w].run] = @ + 1] ELSE ran
    /\ UNCHANGED <<requests, grants, runs, tape, buttons, faults>>

\* The turn ends; a command asked for gets a request, which seals the
\* conversation unless the turn has a reply.
End(w) ==
    /\ work[w].pc = "agent"
    /\ IF work[w].asks = {}
       THEN runs' = Ended(w, "ok") /\ UNCHANGED requests
       ELSE \E c \in work[w].asks, seals \in BOOLEAN :
              /\ raised' = raised + 1
              /\ pending' = [pending EXCEPT ![c] = raised + 1]
              /\ blocking' = IF seals THEN blocking \cup {c} ELSE blocking \ {c}
              /\ runs' = [runs EXCEPT ![work[w].run].status = IF seals THEN "asked" ELSE "ok", ![work[w].run].asked = {c}]
    /\ work' = [work EXCEPT ![w] = NoWork]
    /\ UNCHANGED <<grants, tape, ran, buttons, faults>>

\* The worker dies or the turn throws: the run is retried, or it failed.  An
\* attempt whose lease lapsed is taken to stop by then.
Crash(w) ==
    /\ work[w].pc # "idle" /\ Fault
    /\ work' = [work EXCEPT ![w] = NoWork]
    /\ runs' = Ended(w, IF work[w].attempt < MaxAttempts THEN "pending" ELSE "failed")
    /\ UNCHANGED <<requests, grants, tape, ran, buttons>>

Turn(w) ==
    \/ Claim(w) \/ Look(w) \/ Append(w) \/ Delete(w) \/ Grant(w) \/ End(w)
    \/ \E c \in Commands : Call(w, c)

Next ==
    \/ Say \/ SaySealed \/ Begin \/ Settle \/ Release \/ Restart
    \/ \E c \in Commands, yes \in BOOLEAN, scope \in Scopes :
         \/ \E s \in Surfaces : WebClick(s, c, yes, scope)
         \/ Fetch(c, yes, scope)
    \/ \E r \in Ids : Post(r)
    \/ \E w \in Workers : Turn(w) \/ Crash(w)

Spec == Init /\ [][Next]_vars

\* Workers and the plugin's handlers make progress.
FairSpec == Spec /\ WF_vars(Begin) /\ WF_vars(Settle) /\ \A w \in Workers : WF_vars(Turn(w))

(***************************************************************************)
(* Properties.                                                             *)
(***************************************************************************)

\* The types; a request that seals the conversation is pending.
TypeOK ==
    /\ pending \in [Commands -> 0..raised]
    /\ blocking \subseteq {c \in Commands : pending[c] # 0}
    /\ grants \subseteq Commands
    /\ card \in [Commands -> {"none", "ready", "busy"}]

\* "Allow once" allows one execution, over all attempts of its turn; a
\* denial, a message and a grant allow none of their own.
OnceRunsOnce ==
    \A r \in Ids : ran[r] <= IF runs[r].kind = "decision" /\ runs[r].yes /\ runs[r].scope = "once" THEN 1 ELSE 0

\* A request is decided one way only, unless the turn that decided it first
\* failed for good; a standing grant stands for a decision on the tape.
DecidedOneWay ==
    /\ \A d, e \in tape : d.about = e.about => d.yes = e.yes \/ "failed" \in {runs[d.run].status, runs[e.run].status}
    /\ \A c \in grants : \E d \in tape : d.yes /\ runs[d.run].cmd = c

\* A request leaves only by its decision or for a newer one.
RequestsWait ==
    [][\A c \in Commands : pending[c] # 0 /\ pending'[c] = 0 => \E d \in tape : d.about = pending[c]]_vars

\* A Slack card is not left in flight, and a decision's turn ends.
CardsComeBack ==
    /\ \A c \in Commands : card[c] = "busy" ~> card[c] # "busy"
    /\ \A r \in Ids : runs[r].status = "pending" ~> runs[r].status \notin {"pending", "running"}

\* A second click on a request that another decision consumed is refused.
ConsumedIsRefused ==
    \A d, e \in tape : d.run # e.run /\ d.yes /\ runs[d.run].about = e.about => d.about = e.about

\* When nothing is under way, a request of a Slack conversation has buttons.
RequestsHaveButtons ==
    /\ Surfaces = {Slack} /\ clicks[Slack].pc = "none"
    /\ \A r \in Ids : runs[r].status \in {"none", "ok", "asked", "refused", "failed"}
    /\ \A r \in Ids : runs[r].kind = "message" => runs[r].asked = {}
    => \A c \in Commands : pending[c] # 0 => c \in shown

\* A turn whose approval was recorded goes on with its command allowed.
ApprovedTurnResumes ==
    \A r \in Ids : (\E d \in tape : d.run = r /\ d.yes) ~>
                   (\E w \in Workers : work[w].run = r /\ work[w].pc = "agent")
=============================================================================
