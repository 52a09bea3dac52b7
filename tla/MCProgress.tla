----------------------------- MODULE MCProgress ------------------------------
(***************************************************************************)
(* What the processes of a deployment must eventually do, under the fairness *)
(* each component states. A behaviour is of one part, and the others stay as *)
(* they start; a step is fair only in the behaviours of its part.            *)
(***************************************************************************)
EXTENDS Naturals, TLC

CONSTANTS Nil, NoDeployment, NoRequest, None, b1, b2, blue, c1, c2, c3, green, new1, newTask, old1,
          oldTask, p1, p2, r1, r2, s1, sweeper, t1, w1, x1

VARIABLES
    part,      \* the component a behaviour is of; the others stay as they start
    queueRuns, queueWorker, drain, reaper, handbacks, stalls, serial,
    target, queued, rows, order, signalsCalls, poll, hands, delivered, replays, signalsRefused,
    dropped, lost, blocked, signalsFaults,
    up, fresh, superseded, sweep, on, notes, protected, drainWorker, queue,
    own, life, ctl, handoverPc, drains, work, handoverFaults,
    job, row, watch, watches, crashes, quiets, recent, expired, done, watchTurns, told,
    watchRefused, missed, access, repeated, poller,
    clock, cron, jobs, task, journal, committed, cronRuns, cronTurns, cronLock, lease, paused,
    cronFaults, edits,
    rec, runtime, op, warmLock, published, warmCalls, warmFaults,
    state, lockPc, mode, before, arrived

\* The old process goes first and may die; the new one is of another build.
DrainBuild == (p1 :> b1) @@ (p2 :> b2)
DrainStart == (p1 :> 1) @@ (p2 :> 2)

\* One process of the old deployment, which boots with background work on, and one of the new.
FleetDeployment == (old1 :> blue) @@ (new1 :> green)
FleetTask == (old1 :> oldTask) @@ (new1 :> newTask)

queueVars ==
    <<queueRuns, queueWorker, drain, reaper, handbacks, stalls, serial>>

signalsVars ==
    <<target, queued, rows, order, signalsCalls, poll, hands, delivered, replays,
      signalsRefused, dropped, lost, blocked, signalsFaults>>

drainVars ==
    <<up, fresh, superseded, sweep, on, notes, protected, drainWorker, queue>>

handoverVars ==
    <<own, life, ctl, handoverPc, drains, work, handoverFaults>>

watchVars ==
    <<job, row, watch, watches, crashes, quiets, recent, expired, done, watchTurns, told,
      watchRefused, missed, access, repeated, poller>>

cronVars ==
    <<clock, cron, jobs, task, journal, committed, cronRuns, cronTurns, cronLock, lease, paused,
      cronFaults, edits>>

warmVars ==
    <<rec, runtime, op, warmLock, published, warmCalls, warmFaults>>

lockVars ==
    <<state, lockPc, mode, before, arrived>>

\* Two runs of a session, a worker and a reaper.
Queue == INSTANCE RunQueue WITH
    RunIds <- {r1, r2}, Sessions <- {t1}, Keys <- {}, Texts <- {x1}, Workers <- {w1},
    Reapers <- {p1}, MaxAttempts <- 1, MaxClaims <- 2, LeaseLostLimit <- 1, MaxHandbacks <- 0,
    MaxStalls <- 0, runs <- queueRuns, worker <- queueWorker

\* A steer of a subagent's run, with a fault.
Signals == INSTANCE RunSignals WITH
    Steers <- {s1}, Waiting <- {}, Aborts <- {}, Sweepers <- {sweeper}, Subagent <- TRUE,
    Declines <- FALSE, DrainOnStop <- FALSE, MaxAttempts <- 2, MaxFaults <- 1,
    calls <- signalsCalls, refused <- signalsRefused, faults <- signalsFaults

\* A rollout: two runs, an old process that may die and a new one.
Drain == INSTANCE DeployDrain WITH
    Procs <- {p1, p2}, Build <- DrainBuild, StartedAt <- DrainStart, Mortal <- {p1}, Runs <- 2,
    worker <- drainWorker

\* A hand-over from one deployment to the next.
Handover == INSTANCE BackgroundOwnership WITH
    Instances <- {old1, new1}, Deployment <- FleetDeployment, Task <- FleetTask,
    Legacy <- {blue}, MayFail <- {"register", "get", "ready", "relinquished"}, Stops <- FALSE,
    Crashes <- FALSE, MaxGeneration <- 1, MaxFaults <- 0, pc <- handoverPc,
    faults <- handoverFaults

\* A watch of a job that prints a line and ends, and a poller that dies once.
Watch == INSTANCE JobWatch WITH
    MaxLines <- 1, MaxRead <- 1, Matches <- {1}, MaxWatches <- 1, MaxCrashes <- 1,
    MaxQuiet <- 1, Rewatches <- FALSE, Lapses <- FALSE, RowsVanish <- TRUE, turns <- watchTurns,
    refused <- watchRefused

\* A calendar schedule of two slots, one of them late, and a pause.
Cron == INSTANCE CronFires WITH
    Workers <- {w1}, Tickers <- {}, Manuals <- {}, Schedule <- "calendar", Every <- 1,
    DeferBy <- 1, MaxLate <- 1, MaxTime <- 2, Faults <- {}, MaxFaults <- 0, Events <- {"pause"},
    MaxEdits <- 1, runs <- cronRuns, turns <- cronTurns, lock <- cronLock, faults <- cronFaults

\* An app that starts always on, two callers and a fault.
Warm == INSTANCE Deployments WITH
    Callers <- {c1, c2}, MaxVersions <- 2, MaxCalls <- 2, MaxFaults <- 1, Kinds <- {"redeploy",
    "archive", "reap", "always_on", "reach", "warm"}, Addresses <- {1}, StartsOn <- TRUE,
    Creating <- FALSE, lock <- warmLock, calls <- warmCalls, faults <- warmFaults

\* Three callers of a lock.
Lock == INSTANCE MemoryLock WITH
    Callers <- {c1, c2, c3}, pc <- lockPc

\* A behaviour is of one part.
InitParts ==
    /\ part \in {"queue", "signals", "drain", "handover", "watch", "cron", "warm", "lock"}
    /\ Queue!Init
    /\ Signals!Init
    /\ Drain!Init
    /\ Handover!Init
    /\ Watch!Init
    /\ Cron!Init
    /\ Warm!Init
    /\ Lock!Init

\* Only its component takes steps.
NextParts ==
    \/ /\ part = "queue" /\ Queue!Next
       /\ UNCHANGED <<part, signalsVars, drainVars, handoverVars, watchVars, cronVars,
                     warmVars, lockVars>>
    \/ /\ part = "signals" /\ Signals!Next
       /\ UNCHANGED <<part, queueVars, drainVars, handoverVars, watchVars, cronVars,
                     warmVars, lockVars>>
    \/ /\ part = "drain" /\ Drain!Next
       /\ UNCHANGED <<part, queueVars, signalsVars, handoverVars, watchVars, cronVars,
                     warmVars, lockVars>>
    \/ /\ part = "handover" /\ Handover!Next
       /\ UNCHANGED <<part, queueVars, signalsVars, drainVars, watchVars, cronVars, warmVars,
                     lockVars>>
    \/ /\ part = "watch" /\ Watch!Next
       /\ UNCHANGED <<part, queueVars, signalsVars, drainVars, handoverVars, cronVars,
                     warmVars, lockVars>>
    \/ /\ part = "cron" /\ Cron!Next
       /\ UNCHANGED <<part, queueVars, signalsVars, drainVars, handoverVars, watchVars,
                     warmVars, lockVars>>
    \/ /\ part = "warm" /\ Warm!Next
       /\ UNCHANGED <<part, queueVars, signalsVars, drainVars, handoverVars, watchVars,
                     cronVars, lockVars>>
    \/ /\ part = "lock" /\ Lock!Next
       /\ UNCHANGED <<part, queueVars, signalsVars, drainVars, handoverVars, watchVars,
                     cronVars, warmVars>>

allVars ==
    <<part, queueVars, signalsVars, drainVars, handoverVars, watchVars, cronVars,
      warmVars, lockVars>>

\* The fairness of the parts, each as its module states it.
SpecParts ==
    /\ InitParts /\ [][NextParts]_allVars
    /\ \A w \in {w1} :
          /\ WF_queueVars(part = "queue" /\ Queue!ClaimStep(w))
          /\ WF_queueVars(part = "queue" /\ Queue!StartTurn(w))
          /\ WF_queueVars(part = "queue" /\ Queue!TurnEnds(w))
          /\ WF_queueVars(part = "queue" /\ Queue!Complete(w))
          /\ WF_queueVars(part = "queue" /\ Queue!FailRead(w))
          /\ WF_queueVars(part = "queue" /\ Queue!FailRetire(w))
    /\ \A p \in {p1} :
          /\ WF_queueVars(part = "queue" /\ Queue!SweepStep(p))
    /\ \A r \in {r1, r2} :
          /\ WF_queueVars(part = "queue" /\ Queue!Lapse(r))
          /\ WF_queueVars(part = "queue" /\ Queue!DelayOver(r))
    /\ WF_signalsVars(part = "signals" /\ Signals!Claim)
    /\ \A a \in Signals!Attempts :
          /\ WF_signalsVars(part = "signals" /\ Signals!Polling(a))
          /\ WF_signalsVars(part = "signals" /\ Signals!ModelDone(a))
          /\ WF_signalsVars(part = "signals" /\ Signals!StopPoll(a))
          /\ WF_signalsVars(part = "signals" /\ Signals!CompleteRun(a))
          /\ WF_signalsVars(part = "signals" /\ Signals!ReapStopped(a))
    /\ \A d \in Signals!Drainers :
          /\ WF_signalsVars(part = "signals" /\ Signals!Replaying(d))
    /\ \A p \in {p1, p2} :
          /\ WF_drainVars(part = "drain" /\ Drain!Start(p))
          /\ WF_drainVars(part = "drain" /\ Drain!Sweep(p))
          /\ WF_drainVars(part = "drain" /\ Drain!SweepSets(p))
          /\ WF_drainVars(part = "drain" /\ Drain!NoteLands(p))
          /\ WF_drainVars(part = "drain" /\ Drain!BeatExpires(p))
          /\ WF_drainVars(part = "drain" /\ Drain!Claim(p))
          /\ WF_drainVars(part = "drain" /\ Drain!ClaimSettles(p))
    /\ \A i \in {old1, new1} :
          /\ WF_handoverVars(part = "handover" /\ Handover!Boot(i))
          /\ WF_handoverVars(part = "handover" /\ Handover!Controller(i))
          /\ WF_handoverVars(part = "handover" /\ Handover!RefreshApply(i))
          /\ WF_handoverVars(part = "handover" /\ Handover!Drained(i))
          /\ WF_handoverVars(part = "handover" /\ Handover!AckDrained(i))
          /\ WF_handoverVars(part = "handover" /\ Handover!Claimed(i))
          /\ WF_handoverVars(part = "handover" /\ Handover!Finish(i))
    /\ WF_watchVars(part = "watch" /\ Watch!Polls)
    /\ WF_watchVars(part = "watch" /\ Watch!MinutePasses)
    /\ \A w \in {w1} :
          /\ WF_cronVars(part = "cron" /\ Cron!WorkerStep(w))
          /\ WF_cronVars(part = "cron" /\ Cron!Reconcile(w))
          /\ WF_cronVars(part = "cron" /\ Cron!Resume(w))
          /\ WF_cronVars(part = "cron" /\ Cron!Lock(w))
    /\ \A k \in Cron!Keys :
          /\ WF_cronVars(part = "cron" /\ Cron!Ages(k))
    /\ WF_cronVars(part = "cron" /\ Cron!SweepStranded)
    /\ WF_cronVars(part = "cron" /\ Cron!Tick)
    /\ \A c \in {c1, c2} :
          /\ WF_warmVars(part = "warm" /\ Warm!Works(c))
          /\ WF_warmVars(part = "warm" /\ Warm!KeepWarm(c))
    /\ \A c \in {c1, c2, c3} :
          /\ WF_lockVars(part = "lock" /\ Lock!Start(c))
          /\ WF_lockVars(part = "lock" /\ Lock!Finish(c))

\* Every run settles, its signals are used or refused unless approvals block the thread, a
\* rollout takes the waiting runs and protects the process that works on one, and a deployment
\* hands its background work over, drained, to the next.
RunsEnd ==
    /\ part = "queue" => Queue!EventuallySettled
    /\ part = "signals" => Signals!SignalsSettle
    /\ part = "drain" => Drain!RunsAreTaken
    /\ part = "drain" => Drain!BusyGetsProtected
    /\ part = "handover" => Handover!HandoverCompletes
    /\ part = "handover" => Handover!DrainCompletes

\* The end of a watched job is reported, a slot that is due fires, an app that is to be
\* always on is warm again, and a caller of a lock is served.
WaitsEnd ==
    /\ part = "watch" => Watch!EndReported
    /\ part = "cron" => Cron!DueSlotFires
    /\ part = "warm" => Warm!WarmAgain
    /\ part = "lock" => Lock!Served
=============================================================================
