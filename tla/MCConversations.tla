--------------------------- MODULE MCConversations ---------------------------
(***************************************************************************)
(* A session's lease, transcript and tape, at four scales, and the           *)
(* components a message passes through on its way to a turn: the intake of   *)
(* Slack messages, command approvals, requests from one agent to another and *)
(* the web transcript. A behaviour is of one part, and the others stay as    *)
(* they start, so that the state spaces add up and do not multiply.          *)
(***************************************************************************)
EXTENDS SessionTape, TLC

CONSTANTS h1, h2, i1, i2, push, r1, r2, slack, w1, web

VARIABLES
    part,      \* the component a behaviour is of; the others stay as they start
    acked, sends, hs, seen, staged, live, intakeRun, signal, told, intakeFaults,
    pending, raised, blocking, grants, runs, work, approvalTape, ran, clicks, approvalCard,
    approvalShown, approvalFaults,
    rec, old, origin, dm, handoffCard, mem, poster, hands, turns, handoffFaults,
    webRun, turn, webEntries, webLease, webIssued, row, hook, dr, known, webShown, overdue,
    webFaults

\* What a behaviour of the session may use: its scale.
Scale == [
    lease   |-> [writers |-> 2, activities |-> {"turn", "backfill"}, entries |-> 2, leases |-> 2,
                 turns |-> 2, tape |-> 3],
    plan    |-> [writers |-> 2, activities |-> {"turn", "compaction"}, entries |-> 3, leases |-> 2,
                 turns |-> 2, tape |-> 2],
    outside |-> [writers |-> 1, activities |-> {"turn", "revision", "backfill"}, entries |-> 3, leases |-> 2,
                 turns |-> 2, tape |-> 4],
    fold    |-> [writers |-> 1, activities |-> {"turn", "compaction"}, entries |-> 4, leases |-> 3,
                 turns |-> 1, tape |-> 7]]

Doing(w) ==
    UNION {{writer[w].kind},
           IF writer[w].kind = "turn" /\ writer[w].pc \in OutsidePcs THEN {"revision"} ELSE {},
           IF writer[w].pc \in CompactionPcs \cup {"planned"} THEN {"compaction"} ELSE {}}

Within(scale) ==
    /\ Cardinality({w \in Writers : writer[w].pc # "idle"}) <= scale.writers
    /\ \A w \in Writers : Doing(w) \subseteq scale.activities
    /\ \A w \in Writers : 
        writer[w].kind = "turn" /\ writer[w].pc # "release" => writer[w].token <= scale.turns
    /\ Len(entries) <= scale.entries /\ issued <= scale.leases /\ Len(tape) <= scale.tape

SessionNext(scale) == Next /\ Within(scale)'

\* The writers of a session are only compared for equality.
Symmetry == Permutations(Writers)

intakeVars ==
    <<acked, sends, hs, seen, staged, live, intakeRun, signal, told, intakeFaults>>

approvalVars ==
    <<pending, raised, blocking, grants, runs, work, approvalTape, ran, clicks, approvalCard,
      approvalShown, approvalFaults>>

handoffVars ==
    <<rec, old, origin, dm, handoffCard, mem, poster, hands, turns, handoffFaults>>

webVars ==
    <<webRun, turn, webEntries, webLease, webIssued, row, hook, dr, known, webShown, overdue,
      webFaults>>

\* Two instances that handle one copy of a message each, in a channel where nobody mentions the
\* agent.
Intake == INSTANCE MessageIntake WITH
    Instances <- {i1, i2}, Slots <- {h1}, Staging <- TRUE, Unprompted <- TRUE, Timely <- FALSE,
    MaxSends <- 2, MaxReplays <- 1, MaxFaults <- 1, run <- intakeRun, faults <- intakeFaults

\* Two instances and a message that mentions the agent, sent once.
Told == INSTANCE MessageIntake WITH
    Instances <- {i1, i2}, Slots <- {h1, h2}, Staging <- TRUE, Unprompted <- FALSE,
    Timely <- FALSE, MaxSends <- 1, MaxReplays <- 1, MaxFaults <- 1, run <- intakeRun,
    faults <- intakeFaults

\* One instance that handles two copies at once.
One == INSTANCE MessageIntake WITH
    Instances <- {i1}, Slots <- {h1, h2}, Staging <- TRUE, Unprompted <- TRUE, Timely <- FALSE,
    MaxSends <- 2, MaxReplays <- 1, MaxFaults <- 1, run <- intakeRun, faults <- intakeFaults

\* A command that is asked for in three runs, and a fault.
Approval == INSTANCE Approvals WITH
    Commands <- {push}, Workers <- {w1}, Surfaces <- {slack, web}, Slack <- slack,
    Scopes <- {"once", "session"}, MaxRuns <- 3, MaxAttempts <- 2, MaxCalls <- 1,
    MaxFaults <- 1, tape <- approvalTape, card <- approvalCard, shown <- approvalShown,
    faults <- approvalFaults

\* One request and two clicks, with three faults.
Handoff == INSTANCE AgentRequests WITH
    Requests <- {r1}, Hands <- {h1, h2}, Faults <- {"call", "restart", "expiry"},
    MaxFaults <- 3, card <- handoffCard, faults <- handoffFaults

\* Two instances, a transcript that is longer than a scan, and a fault.
Web == INSTANCE WebTranscript WITH
    Instances <- {i1, i2}, ScanLimit <- 3, MaxOther <- 2, MaxLeases <- 4, MaxFaults <- 1,
    GoesOverdue <- TRUE, run <- webRun, entries <- webEntries, lease <- webLease,
    issued <- webIssued, shown <- webShown, faults <- webFaults

\* Two requests, one of them on behalf of the other.
Linked == INSTANCE AgentRequests WITH
    Requests <- {r1, r2}, Hands <- {h1}, Faults <- {"restart", "expiry"}, MaxFaults <- 3,
    card <- handoffCard, faults <- handoffFaults

\* A behaviour is of one part.
InitParts ==
    /\ part \in {"lease", "plan", "outside", "fold", "intake", "told", "one", "approval",
                 "handoff", "web", "linked"}
    /\ Init
    /\ IF part = "told" THEN Told!Init ELSE IF part = "one" THEN One!Init ELSE Intake!Init
    /\ part \notin {"intake", "told", "one"} => live = "none"
    /\ Approval!Init
    /\ IF part = "linked" THEN Linked!Init ELSE Handoff!Init
    /\ Web!Init

\* Only its component takes steps.
NextParts ==
    \/ /\ part = "lease" /\ SessionNext(Scale.lease)
       /\ UNCHANGED <<part, intakeVars, approvalVars, handoffVars, webVars>>
    \/ /\ part = "plan" /\ SessionNext(Scale.plan)
       /\ UNCHANGED <<part, intakeVars, approvalVars, handoffVars, webVars>>
    \/ /\ part = "outside" /\ SessionNext(Scale.outside)
       /\ UNCHANGED <<part, intakeVars, approvalVars, handoffVars, webVars>>
    \/ /\ part = "fold" /\ SessionNext(Scale.fold)
       /\ UNCHANGED <<part, intakeVars, approvalVars, handoffVars, webVars>>
    \/ /\ part = "intake" /\ Intake!Next
       /\ UNCHANGED <<part, vars, approvalVars, handoffVars, webVars>>
    \/ /\ part = "told" /\ Told!Next
       /\ UNCHANGED <<part, vars, approvalVars, handoffVars, webVars>>
    \/ /\ part = "one" /\ One!Next
       /\ UNCHANGED <<part, vars, approvalVars, handoffVars, webVars>>
    \/ /\ part = "approval" /\ Approval!Next
       /\ UNCHANGED <<part, vars, intakeVars, handoffVars, webVars>>
    \/ /\ part = "handoff" /\ Handoff!Next
       /\ UNCHANGED <<part, vars, intakeVars, approvalVars, webVars>>
    \/ /\ part = "web" /\ Web!Next
       /\ UNCHANGED <<part, vars, intakeVars, approvalVars, handoffVars>>
    \/ /\ part = "linked" /\ Linked!Next
       /\ UNCHANGED <<part, vars, intakeVars, approvalVars, webVars>>

allVars ==
    <<part, vars, intakeVars, approvalVars, handoffVars, webVars>>

SpecParts == InitParts /\ [][NextParts]_allVars

\* A message that Slack was told is accepted is kept until a turn has it or it is a day old, and
\* one instance handles it once; of a run the web transcript shows one reply or one failure, and
\* shows nothing that is not recorded.
MessagesKept ==
    /\ part = "intake" => Intake!TypeOK /\ Intake!AckedIsKept
    /\ part = "told" => Told!TypeOK /\ Told!AckedIsKept
    /\ part = "one" => One!TypeOK /\ One!HandledOnce
    /\ part = "web" => Web!TypeOK /\ Web!OneFailure /\ Web!OneReply /\ Web!ShownMeansRecorded

\* A command approved once runs once, and a request is decided one way; a request to another
\* agent is held by one click at a time, is forgotten once it is over, and one made on behalf of
\* another reports back to it.
DecisionsHold ==
    /\ part = "approval" => Approval!TypeOK /\ Approval!OnceRunsOnce /\ Approval!DecidedOneWay
    /\ part = "handoff" => Handoff!TypeOK /\ Handoff!OneHolder
    /\ part = "linked" => Linked!TypeOK /\ Linked!FinalHasNoRecord /\ Linked!LinkedReportsBack

\* A request for approval leaves only by its decision or for a newer one.
RequestsWait == Approval!RequestsWait
=============================================================================
