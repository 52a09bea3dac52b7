----------------------------- MODULE MCArrivals ------------------------------
(***************************************************************************)
(* What must eventually reach whoever waits for it: requests, results,       *)
(* messages, tokens and logins, and the leader leases they rest on, under    *)
(* the fairness each component states. A behaviour is of one part, and the   *)
(* others stay as they start; a step is fair only in the behaviours of its   *)
(* part.                                                                     *)
(***************************************************************************)
EXTENDS LeaderLease, Integers, TLC

CONSTANTS c1, c2, d1, h1, h2, h3, h4, i1, i2, k1, k2, p1, p2, push, q1, r1, r2, slack, t1, w1, web

VARIABLES
    part,      \* the component a behaviour is of; the others stay as they start
    handoffRec, old, origin, dm, handoffCard, mem, poster, hands, turns, handoffFaults,
    members, messages, requests, count, expired, box, session, swarmRuns, call, swarmRec, del,
    swarmCalls, swarmFaults,
    mailbox, gone, floor, receipts, acked, items, cursor, enabled, running, mailboxWork,
    toggles, mailboxFaults,
    rows, live, result, ended, poll, resultDr, lock, fails, posted, dead, posts, edited, files,
    resultNoted, resultFaults,
    run, webTurn, entries, lease, webIssued, row, hook, webDr, known, webShown, overdue,
    webFaults,
    cred, tokensIssued, valid, flight, caller, clock, tokensCalls, expiries, outages, owner,
    pending, raised, blocking, grants, cardRuns, cardWork, tape, ran, clicks, cardCard,
    cardShown, cardFaults,
    home, loginNoted, record, versions, loginTurn, events, failures

\* Two holds of one process, of different keys, and one of another process.
LeaseProcess == [h \in Holds |-> IF h = h4 THEN p2 ELSE p1]
LeaseKey == [h \in Holds |-> IF h = h3 THEN k2 ELSE k1]

TwoProcesses == (c1 :> p1) @@ (c2 :> p2)

\* The first event is of one thread, the two after it of another.
Threads == [e \in 1 .. 3 |-> IF e = 1 THEN "old" ELSE "new"]

HomeFirst == (k1 :> r1)

handoffVars ==
    <<handoffRec, old, origin, dm, handoffCard, mem, poster, hands, turns, handoffFaults>>

swarmVars ==
    <<members, messages, requests, count, expired, box, session, swarmRuns, call, swarmRec, del,
      swarmCalls, swarmFaults>>

mailboxVars ==
    <<mailbox, gone, floor, receipts, acked, items, cursor, enabled, running, mailboxWork,
      toggles, mailboxFaults>>

resultVars ==
    <<rows, live, result, ended, poll, resultDr, lock, fails, posted, dead, posts, edited, files,
      resultNoted, resultFaults>>

webVars ==
    <<run, webTurn, entries, lease, webIssued, row, hook, webDr, known, webShown, overdue,
      webFaults>>

tokensVars ==
    <<cred, tokensIssued, valid, flight, caller, clock, tokensCalls, expiries, outages, owner>>

cardVars ==
    <<pending, raised, blocking, grants, cardRuns, cardWork, tape, ran, clicks, cardCard,
      cardShown, cardFaults>>

loginVars ==
    <<home, loginNoted, record, versions, loginTurn, events, failures>>

\* A request, two clicks and a fault.
Handoff == INSTANCE AgentRequests WITH
    Requests <- {r1}, Hands <- {h1, h2}, Faults <- {"call", "expiry"}, MaxFaults <- 1,
    rec <- handoffRec, card <- handoffCard, faults <- handoffFaults

\* A swarm of three agents and a fault.
Swarm == INSTANCE Swarms WITH
    Callers <- {c1}, Reconcilers <- {r1, r2}, Deliverers <- {d1}, Spawns <- {q1}, Sends <- {},
    Agents <- 3, Depth <- 2, Notifications <- 4, Messages <- 1, SpawnRequests <- 2,
    MaxAttempts <- 2, MaxCalls <- 1, Faults <- {"provision", "late", "deadline", "store",
    "crash", "expire", "cleanup"}, MaxFaults <- 1, runs <- swarmRuns, rec <- swarmRec,
    calls <- swarmCalls, faults <- swarmFaults

\* A mailbox of three messages.
Mailbox == INSTANCE LoopIngress WITH
    Workers <- {w1}, kind <- "gmail", ThreadOf <- Threads, First <- 1, Last <- 3, PageSize <- 2,
    Toggles <- 0, MaxFaults <- 0, work <- mailboxWork, faults <- mailboxFaults

\* Pushed events and a fault.
Push == INSTANCE LoopIngress WITH
    Workers <- {w1}, kind <- "push", ThreadOf <- Threads, First <- 0, Last <- 2, PageSize <- 2,
    Toggles <- 0, MaxFaults <- 1, work <- mailboxWork, faults <- mailboxFaults

\* The result of a run, one relay and a fault.
Result == INSTANCE SlackDelivery WITH
    Relays <- {r1}, Runs <- {k1}, Posts <- {}, Principals <- {}, InPlace <- {},
    WithFiles <- {k1}, Bare <- {k1}, Eager <- {}, Whispered <- {}, Results <- {"ok", "failed"},
    Home <- HomeFirst, MayFail <- {"crash", "lock", "ack"}, MaxFaults <- 1, MaxAttempts <- 2,
    Slow <- TRUE, Expires <- TRUE, dr <- resultDr, noted <- resultNoted, faults <- resultFaults

\* A reply in the web transcript and a fault.
Web == INSTANCE WebTranscript WITH
    Instances <- {i1, i2}, ScanLimit <- 3, MaxOther <- 0, MaxLeases <- 3, MaxFaults <- 1,
    GoesOverdue <- TRUE, turn <- webTurn, issued <- webIssued, dr <- webDr, shown <- webShown,
    faults <- webFaults

\* Two processes that use one connector.
Tokens == INSTANCE ConnectorTokens WITH
    Processes <- {p1, p2}, Callers <- {c1, c2}, ProcessOf <- TwoProcesses, MaxExpiries <- 2,
    MaxOutages <- 1, MaxOwner <- 0, MaxCalls <- 4, issued <- tokensIssued, calls <- tokensCalls

\* A command, two runs and a fault.
Card == INSTANCE Approvals WITH
    Commands <- {push}, Workers <- {w1}, Surfaces <- {slack, web}, Slack <- slack,
    Scopes <- {"once"}, MaxRuns <- 2, MaxAttempts <- 2, MaxCalls <- 2, MaxFaults <- 1,
    runs <- cardRuns, work <- cardWork, card <- cardCard, shown <- cardShown,
    faults <- cardFaults

\* A turn with a capture that fails, and a login over the caps.
Login == INSTANCE DeviceLogins WITH
    Turns <- {t1}, MaxVersions <- 4, MaxEvents <- 0, MaxFailures <- 1, Builtin <- TRUE,
    Oversized <- {2}, noted <- loginNoted, turn <- loginTurn

\* A behaviour is of one part.
InitParts ==
    /\ part \in {"leader", "handoff", "swarm", "mailbox", "push", "result", "web", "tokens",
                 "card", "login"}
    /\ Init
    /\ Handoff!Init
    /\ Swarm!Init
    /\ IF part = "push" THEN Push!Init ELSE Mailbox!Init
    /\ Result!Init
    /\ Web!Init
    /\ Tokens!Init
    /\ Card!Init
    /\ Login!Init

\* Only its component takes steps.
NextParts ==
    \/ /\ part = "leader" /\ Next
       /\ UNCHANGED <<part, handoffVars, swarmVars, mailboxVars, resultVars, webVars,
                     tokensVars, cardVars, loginVars>>
    \/ /\ part = "handoff" /\ Handoff!Next
       /\ UNCHANGED <<part, vars, swarmVars, mailboxVars, resultVars, webVars, tokensVars,
                     cardVars, loginVars>>
    \/ /\ part = "swarm" /\ Swarm!Next
       /\ UNCHANGED <<part, vars, handoffVars, mailboxVars, resultVars, webVars, tokensVars,
                     cardVars, loginVars>>
    \/ /\ part = "mailbox" /\ Mailbox!Next
       /\ UNCHANGED <<part, vars, handoffVars, swarmVars, resultVars, webVars, tokensVars,
                     cardVars, loginVars>>
    \/ /\ part = "push" /\ Push!Next
       /\ UNCHANGED <<part, vars, handoffVars, swarmVars, resultVars, webVars, tokensVars,
                     cardVars, loginVars>>
    \/ /\ part = "result" /\ Result!Next
       /\ UNCHANGED <<part, vars, handoffVars, swarmVars, mailboxVars, webVars, tokensVars,
                     cardVars, loginVars>>
    \/ /\ part = "web" /\ Web!Next
       /\ UNCHANGED <<part, vars, handoffVars, swarmVars, mailboxVars, resultVars,
                     tokensVars, cardVars, loginVars>>
    \/ /\ part = "tokens" /\ Tokens!Next
       /\ UNCHANGED <<part, vars, handoffVars, swarmVars, mailboxVars, resultVars, webVars,
                     cardVars, loginVars>>
    \/ /\ part = "card" /\ Card!Next
       /\ UNCHANGED <<part, vars, handoffVars, swarmVars, mailboxVars, resultVars, webVars,
                     tokensVars, loginVars>>
    \/ /\ part = "login" /\ Login!Next
       /\ UNCHANGED <<part, vars, handoffVars, swarmVars, mailboxVars, resultVars, webVars,
                     tokensVars, cardVars>>

allVars ==
    <<part, vars, handoffVars, swarmVars, mailboxVars, resultVars, webVars, tokensVars,
      cardVars, loginVars>>

\* The fairness of the parts, each as its module states it.
SpecParts ==
    /\ InitParts /\ [][NextParts]_allVars
    /\ \A h \in Holds : WF_vars(part = "leader" /\ CallStep(h))
    /\ \A e \in Conns :
          /\ WF_vars(part = "leader" /\ Opened(e))
          /\ WF_vars(part = "leader" /\ ErrorEvent(e))
    /\ \A r \in {r1} :
          /\ WF_handoffVars(part = "handoff" /\ Handoff!Send(r))
    /\ \A h \in {h1, h2} :
          /\ WF_handoffVars(part = "handoff" /\ Handoff!Handle(h))
    /\ \A r \in {r1, r2} :
          /\ WF_swarmVars(part = "swarm" /\ Swarm!Reconcile(r))
    /\ \A d \in {d1} :
          /\ WF_swarmVars(part = "swarm" /\ Swarm!Dispatch(d))
    /\ \A w \in {w1} :
          /\ WF_mailboxVars(part = "mailbox" /\ Mailbox!Process(w))
    /\ WF_mailboxVars(part = "mailbox" /\ Mailbox!Reconcile)
    /\ \A w \in {w1} :
          /\ WF_mailboxVars(part = "push" /\ Push!Process(w))
    /\ WF_mailboxVars(part = "push" /\ Push!Reconcile)
    /\ \A k \in {k1} :
          /\ WF_resultVars(part = "result" /\ Result!Handler(k))
          /\ WF_resultVars(part = "result" /\ Result!EnqueueResult(k))
          /\ WF_resultVars(part = "result" /\ Result!Lapse(k))
          /\ WF_resultVars(part = "result" /\ Result!FirstAge(k))
    /\ \A r \in {r1} :
          /\ WF_resultVars(part = "result" /\ Result!Poll(r))
          /\ WF_resultVars(part = "result" /\ Result!CycleEnds(r))
          /\ WF_resultVars(part = "result" /\ Result!LockLost(r))
          /\ WF_resultVars(part = "result" /\ Result!Rested(r, k1))
    /\ \A l \in Result!Loops :
          /\ WF_resultVars(part = "result" /\ Result!Drain(r1, l))
    /\ WF_webVars(part = "web" /\ Web!TurnEnds)
    /\ WF_webVars(part = "web" /\ Web!ZombieEnds)
    /\ WF_webVars(part = "web" /\ Web!EnqueueResult)
    /\ WF_webVars(part = "web" /\ Web!LeaseExpires)
    /\ WF_webVars(part = "web" /\ Web!HookStarts)
    /\ WF_webVars(part = "web" /\ Web!HookScans)
    /\ WF_webVars(part = "web" /\ Web!HookAppends)
    /\ WF_webVars(part = "web" /\ Web!HookReleases)
    /\ WF_webVars(part = "web" /\ Web!Nudge)
    /\ WF_webVars(part = "web" /\ Web!Overdue)
    /\ \A i \in {i1, i2} :
          /\ WF_webVars(part = "web" /\ Web!Drain(i))
    /\ \A c \in {c1, c2} :
          /\ WF_tokensVars(part = "tokens" /\ Tokens!CallerStep(c))
    /\ \A p \in {p1, p2} :
          /\ WF_tokensVars(part = "tokens" /\ Tokens!FlightStep(p))
    /\ WF_cardVars(part = "card" /\ Card!Begin)
    /\ WF_cardVars(part = "card" /\ Card!Settle)
    /\ \A w \in {w1} :
          /\ WF_cardVars(part = "card" /\ Card!Turn(w))
    /\ \A t \in {t1} :
          /\ WF_loginVars(part = "login" /\ Login!Captures(t))

\* A holder that lost its lease is told, a click on a handoff is answered, a swarm's
\* reservations and cleanups end, a caller gets its token or an error, a card comes back, and a
\* login within the size caps is captured as long as turns go on.
RequestsEnd ==
    /\ part = "leader" => LosersAreTold
    /\ part = "handoff" => Handoff!HandoffAnswered
    /\ part = "swarm" => Swarm!ReservationsEnd
    /\ part = "swarm" => Swarm!CleanupEnds
    /\ part = "tokens" => Tokens!CallersAnswered
    /\ part = "card" => Card!CardsComeBack
    /\ part = "login" => Login!Captured

\* A message of the inbox and an event that was acknowledged reach the ledger, and the row of a
\* result or of a reply is settled.
MessagesLand ==
    /\ part = "mailbox" => Mailbox!MessagesArrive
    /\ part = "push" => Push!AcknowledgedArrives
    /\ part = "result" => Result!RowsSettle
    /\ part = "web" => Web!RowSettles
=============================================================================
