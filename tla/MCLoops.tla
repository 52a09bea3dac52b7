------------------------------- MODULE MCLoops -------------------------------
(***************************************************************************)
(* What runs without a person waiting for it: the schedule that fires runs,  *)
(* the work of a loop on an item and the intake of a loop's source events,   *)
(* of a mailbox or pushed. A behaviour is of one part, and the others stay   *)
(* as they start.                                                            *)
(***************************************************************************)
EXTENDS LoopIngress, Integers

CONSTANTS None, d1, d2, f1, f2, g1, k1, m1, m2, w1, w2

VARIABLES
    part,      \* the component a behaviour is of; the others stay as they start
    clock, cron, jobs, task, journal, calendarCommitted, calendarRuns, calendarTurns,
    calendarLock, lease, paused, calendarFaults, edits,
    item, out, act, autoRuns, autoTurns, autoCommitted, sent, autoLock, loop, attempts,
    decisions, autoFaults, events

\* Two threads, whose events alternate.
Alternating == [e \in 1 .. 3 |-> IF e % 2 = 0 THEN "even" ELSE "odd"]

calendarVars ==
    <<clock, cron, jobs, task, journal, calendarCommitted, calendarRuns, calendarTurns,
      calendarLock, lease, paused, calendarFaults, edits>>

autoVars ==
    <<item, out, act, autoRuns, autoTurns, autoCommitted, sent, autoLock, loop, attempts,
      decisions, autoFaults, events>>

\* A calendar schedule that is paused or enabled while it fires.
Calendar == INSTANCE CronFires WITH
    Workers <- {w1}, Tickers <- {}, Manuals <- {}, Schedule <- "calendar", Every <- 1,
    DeferBy <- 1, MaxLate <- 0, MaxTime <- 2, Faults <- {"authz", "throw"}, MaxFaults <- 1,
    Events <- {"enable", "pause"}, MaxEdits <- 1, committed <- calendarCommitted,
    runs <- calendarRuns, turns <- calendarTurns, lock <- calendarLock, faults <- calendarFaults

\* Two people who start a cron by hand, and a fault.
Manual == INSTANCE CronFires WITH
    Workers <- {}, Tickers <- {}, Manuals <- {m1, m2}, Schedule <- "interval", Every <- 1,
    DeferBy <- 1, MaxLate <- 0, MaxTime <- 1, Faults <- {"crash", "lock"}, MaxFaults <- 1,
    Events <- {"ageing"}, MaxEdits <- 0, committed <- calendarCommitted, runs <- calendarRuns,
    turns <- calendarTurns, lock <- calendarLock, faults <- calendarFaults

\* A worker and a ticker of one interval over two slots.
Mixed == INSTANCE CronFires WITH
    Workers <- {w1}, Tickers <- {k1}, Manuals <- {}, Schedule <- "interval", Every <- 1,
    DeferBy <- 1, MaxLate <- 0, MaxTime <- 2, Faults <- {"crash", "lock", "lease"},
    MaxFaults <- 0, Events <- {}, MaxEdits <- 0, committed <- calendarCommitted,
    runs <- calendarRuns, turns <- calendarTurns, lock <- calendarLock, faults <- calendarFaults

\* A worker and a ticker of one slot, and a fault.
Faulty == INSTANCE CronFires WITH
    Workers <- {w1}, Tickers <- {k1}, Manuals <- {}, Schedule <- "interval", Every <- 1,
    DeferBy <- 1, MaxLate <- 0, MaxTime <- 1, Faults <- {"crash", "lock", "lease"},
    MaxFaults <- 1, Events <- {}, MaxEdits <- 0, committed <- calendarCommitted,
    runs <- calendarRuns, turns <- calendarTurns, lock <- calendarLock, faults <- calendarFaults

\* A schedule that fires once, started by hand, rescheduled or enabled.
OneShot == INSTANCE CronFires WITH
    Workers <- {w1}, Tickers <- {}, Manuals <- {m1}, Schedule <- "oneshot", Every <- 1,
    DeferBy <- 1, MaxLate <- 1, MaxTime <- 2, Faults <- {"lock", "throw"}, MaxFaults <- 0,
    Events <- {"reschedule", "enable"}, MaxEdits <- 1, committed <- calendarCommitted,
    runs <- calendarRuns, turns <- calendarTurns, lock <- calendarLock, faults <- calendarFaults

\* A loop whose outputs are shipped on its own, until the grant is revoked.
Auto == INSTANCE LoopWork WITH
    Fires <- {f1, f2}, Deciders <- {d1}, Ingress <- {}, Locked <- {d1}, Decisions <- {"ship",
    "return"}, AutoGate <- TRUE, MaxAttempts <- 3, MaxOpen <- 2, MaxOut <- 2, MaxAttempted <- 2,
    MaxDecisions <- 2, Faults <- {"turn", "authz"}, MaxFaults <- 2, Events <- {"pause",
    "revoke"}, MaxEvents <- 1, runs <- autoRuns, turns <- autoTurns, committed <- autoCommitted,
    lock <- autoLock, faults <- autoFaults

\* Two fires whose leases may run out.
Fence == INSTANCE LoopWork WITH
    Fires <- {f1, f2}, Deciders <- {}, Ingress <- {}, Locked <- {}, Decisions <- {"ship",
    "return"}, AutoGate <- TRUE, MaxAttempts <- 2, MaxOpen <- 0, MaxOut <- 1, MaxAttempted <- 3,
    MaxDecisions <- 0, Faults <- {"claim", "lock", "crash", "turn"}, MaxFaults <- 2,
    Events <- {}, MaxEvents <- 1, runs <- autoRuns, turns <- autoTurns,
    committed <- autoCommitted, lock <- autoLock, faults <- autoFaults

\* Two people who decide in the portal, and two faults.
Review == INSTANCE LoopWork WITH
    Fires <- {f1}, Deciders <- {d1, d2}, Ingress <- {}, Locked <- {d1, d2},
    Decisions <- {"ship", "return"}, AutoGate <- FALSE, MaxAttempts <- 2, MaxOpen <- 0,
    MaxOut <- 2, MaxAttempted <- 2, MaxDecisions <- 2, Faults <- {"turn", "throw", "authz",
    "undeclared", "ship", "decision"}, MaxFaults <- 2, Events <- {}, MaxEvents <- 1,
    runs <- autoRuns, turns <- autoTurns, committed <- autoCommitted, lock <- autoLock,
    faults <- autoFaults

\* Two decisions to send the draft that others refresh, edit and dismiss.
Send == INSTANCE LoopWork WITH
    Fires <- {f1}, Deciders <- {d1, d2}, Ingress <- {}, Locked <- {}, Decisions <- {"send"},
    AutoGate <- FALSE, MaxAttempts <- 2, MaxOpen <- 0, MaxOut <- 1, MaxAttempted <- 1,
    MaxDecisions <- 2, Faults <- {}, MaxFaults <- 1, Events <- {"ingest", "draft", "edit",
    "dismiss", "reopen", "reply"}, MaxEvents <- 2, runs <- autoRuns, turns <- autoTurns,
    committed <- autoCommitted, lock <- autoLock, faults <- autoFaults

\* Two decisions through an agent, and an ingest.
Ships == INSTANCE LoopWork WITH
    Fires <- {f1}, Deciders <- {d1, d2}, Ingress <- {g1}, Locked <- {}, Decisions <- {"ship",
    "return"}, AutoGate <- FALSE, MaxAttempts <- 2, MaxOpen <- 0, MaxOut <- 1,
    MaxAttempted <- 2, MaxDecisions <- 2, Faults <- {"turn", "authz"}, MaxFaults <- 0,
    Events <- {"ingest"}, MaxEvents <- 1, runs <- autoRuns, turns <- autoTurns,
    committed <- autoCommitted, lock <- autoLock, faults <- autoFaults

\* A behaviour is of one part.
InitParts ==
    /\ part \in {"calendar", "manual", "mixed", "faulty", "one_shot", "auto", "fence",
                 "review", "send", "ships", "intake"}
    /\ IF part = "manual" THEN Manual!Init ELSE IF part = "mixed" THEN Mixed!Init ELSE IF part = "faulty" THEN Faulty!Init ELSE IF part = "one_shot" THEN OneShot!Init ELSE Calendar!Init
    /\ IF part = "fence" THEN Fence!Init ELSE IF part = "review" THEN Review!Init ELSE IF part = "send" THEN Send!Init ELSE IF part = "ships" THEN Ships!Init ELSE Auto!Init
    /\ Init
    /\ part # "intake" => kind = "push"

\* Only its component takes steps.
NextParts ==
    \/ /\ part = "calendar" /\ Calendar!Next
       /\ UNCHANGED <<part, autoVars, vars>>
    \/ /\ part = "manual" /\ Manual!Next
       /\ UNCHANGED <<part, autoVars, vars>>
    \/ /\ part = "mixed" /\ Mixed!Next
       /\ UNCHANGED <<part, autoVars, vars>>
    \/ /\ part = "faulty" /\ Faulty!Next
       /\ UNCHANGED <<part, autoVars, vars>>
    \/ /\ part = "one_shot" /\ OneShot!Next
       /\ UNCHANGED <<part, autoVars, vars>>
    \/ /\ part = "auto" /\ Auto!Next
       /\ UNCHANGED <<part, calendarVars, vars>>
    \/ /\ part = "fence" /\ Fence!Next
       /\ UNCHANGED <<part, calendarVars, vars>>
    \/ /\ part = "review" /\ Review!Next
       /\ UNCHANGED <<part, calendarVars, vars>>
    \/ /\ part = "send" /\ Send!Next
       /\ UNCHANGED <<part, calendarVars, vars>>
    \/ /\ part = "ships" /\ Ships!Next
       /\ UNCHANGED <<part, calendarVars, vars>>
    \/ /\ part = "intake" /\ Next
       /\ UNCHANGED <<part, calendarVars, autoVars>>

allVars ==
    <<part, calendarVars, autoVars, vars>>

SpecParts == InitParts /\ [][NextParts]_allVars

\* A slot of a schedule starts one turn, a claimed slot was fired or is under way, a manual
\* start excludes another, and a schedule that fires once ends.
SlotsFireOnce ==
    /\ part = "calendar" => Calendar!TypeOK /\ Calendar!OneTurnPerSlot /\ Calendar!ClaimsAreFired
    /\ part = "manual" => Manual!TypeOK /\ Manual!ManualExclusive
    /\ part = "mixed" => Mixed!TypeOK /\ Mixed!OneTurnPerSlot
    /\ part = "faulty" => Faulty!TypeOK /\ Faulty!OneTurnPerSlot
    /\ part = "one_shot" => OneShot!TypeOK /\ OneShot!OneTurnPerSlot /\ OneShot!OneShotEnds

\* An output has one ship turn at a time and is sent once; a ready item has something to decide
\* on, and a shipped one is settled.
WorkShipsOnce ==
    /\ part = "auto" => Auto!TypeOK /\ Auto!ReadyIsActionable /\ Auto!ShippedIsSettled
    /\ part = "review" => Review!TypeOK /\ Review!OneShipTurn /\ Review!ReadyIsActionable /\ Review!ShippedIsSettled
    /\ part = "send" => Send!TypeOK /\ Send!SendsOnce

\* An attempt whose claim was taken over changes its item no more, only published outputs are
\* shipped, and an item that is being shipped stays.
AttemptsAreFenced == [][
    /\ part = "fence" => Fence!FencedAttemptsStep
    /\ part = "ships" => Ships!ShipsPublishedStep /\ Ships!ShippingHoldsItemStep]_autoVars
=============================================================================
