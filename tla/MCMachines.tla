----------------------------- MODULE MCMachines ------------------------------
(***************************************************************************)
(* The lock of a key and the components that run things on machines, each on *)
(* a small instance: swarms, the computers of a scope and their migration,   *)
(* background jobs and their watches, published apps. A behaviour is of one  *)
(* part, and the others stay as they start, so that the state spaces add up  *)
(* and do not multiply.                                                      *)
(***************************************************************************)
EXTENDS MemoryLock

CONSTANTS A, B, Null, Unset, c1, c2, c3, c4, d1, m1, p1, p2, p3, q1, q2, r1, r2, s1, w1, w2, w3

VARIABLES
    part,      \* the component a behaviour is of; the others stay as they start
    members, messages, requests, count, poolsExpired, box, session, runs, call, poolsRec, del,
    poolsCalls, poolsFaults,
    lifeRec, default, lifeRoute, activated, known, machine, jobs, lifeOp, ops, lifeFaults,
    home, migrationRoute, mig, turn, early, blobs, tries,
    proc, rows, old, caller, reaper, recon, overlap, left, jobsCrashes,
    job, row, watch, watches, watchCrashes, quiets, recent, watchExpired, done, turns, told,
    refused, missed, access, repeated, poller,
    appRec, runtime, appOp, lock, published, appCalls, appFaults

poolsVars ==
    <<members, messages, requests, count, poolsExpired, box, session, runs, call, poolsRec, del,
      poolsCalls, poolsFaults>>

lifeVars ==
    <<lifeRec, default, lifeRoute, activated, known, machine, jobs, lifeOp, ops, lifeFaults>>

migrationVars ==
    <<home, migrationRoute, mig, turn, early, blobs, tries>>

jobsVars ==
    <<proc, rows, old, caller, reaper, recon, overlap, left, jobsCrashes>>

watchVars ==
    <<job, row, watch, watches, watchCrashes, quiets, recent, watchExpired, done, turns, told,
      refused, missed, access, repeated, poller>>

appVars ==
    <<appRec, runtime, appOp, lock, published, appCalls, appFaults>>

\* Two callers and the limits of a swarm, without faults.
Pools == INSTANCE Swarms WITH
    Callers <- {c1, c2}, Reconcilers <- {r1}, Deliverers <- {d1}, Spawns <- {q1, q2},
    Sends <- {}, Agents <- 3, Depth <- 1, Notifications <- 3, Messages <- 3, SpawnRequests <- 2,
    MaxAttempts <- 2, MaxCalls <- 3, Faults <- {}, MaxFaults <- 0, expired <- poolsExpired,
    rec <- poolsRec, calls <- poolsCalls, faults <- poolsFaults

\* One spawn and one message, with two faults of any kind.
Work == INSTANCE Swarms WITH
    Callers <- {c1}, Reconcilers <- {r1, r2}, Deliverers <- {d1}, Spawns <- {q1}, Sends <- {s1},
    Agents <- 2, Depth <- 1, Notifications <- 4, Messages <- 3, SpawnRequests <- 2,
    MaxAttempts <- 2, MaxCalls <- 2, Faults <- {"provision", "late", "deadline", "store",
    "crash", "expire", "cleanup"}, MaxFaults <- 2, expired <- poolsExpired, rec <- poolsRec,
    calls <- poolsCalls, faults <- poolsFaults

\* Two processes and a computer created, used and retired.
Life == INSTANCE SandboxResources WITH
    Procs <- {p1, p2}, Enabled <- {p1, p2}, Backends <- {A, B}, Managed <- {m1},
    DefaultBackend <- A, Operations <- {"activate", "use", "job", "create", "retire",
    "default"}, MaxOps <- 4, MaxFaults <- 1, rec <- lifeRec, route <- lifeRoute, op <- lifeOp,
    faults <- lifeFaults

\* The feature is on in two processes of three.
Rollout == INSTANCE SandboxResources WITH
    Procs <- {p1, p2, p3}, Enabled <- {p1, p2}, Backends <- {A, B}, Managed <- {},
    DefaultBackend <- A, Operations <- {"activate", "legacy", "migrate", "retire", "default"},
    MaxOps <- 6, MaxFaults <- 1, rec <- lifeRec, route <- lifeRoute, op <- lifeOp,
    faults <- lifeFaults

\* Three writes while a home moves.
Migration == INSTANCE SandboxMigration WITH
    Writes <- {w1, w2, w3}, Strategies <- {"copy", "snapshot"}, MaxTries <- 2,
    route <- migrationRoute

\* Two calls at once.
Jobs == INSTANCE BackgroundJobs WITH
    Callers <- {c1, c2}, Operations <- {"start", "stop", "reconcile"}, Secret <- FALSE,
    MaxJobs <- 2, MaxCrashes <- 0, crashes <- jobsCrashes

\* One call at a time, of a command with a secret, and a death.
JobsOne == INSTANCE BackgroundJobs WITH
    Callers <- {c1}, Operations <- {"start", "poll", "stop", "reap", "reconcile"},
    Secret <- TRUE, MaxJobs <- 2, MaxCrashes <- 1, crashes <- jobsCrashes

\* A watch that is set, removed and set again.
Watch == INSTANCE JobWatch WITH
    MaxLines <- 2, MaxRead <- 2, Matches <- {1, 2}, MaxWatches <- 2, MaxCrashes <- 0,
    MaxQuiet <- 0, Rewatches <- FALSE, Lapses <- FALSE, RowsVanish <- FALSE, crashes <- watchCrashes,
    expired <- watchExpired

\* A watch whose owner loses and regains access to the conversation.
WatchLapse == INSTANCE JobWatch WITH
    MaxLines <- 2, MaxRead <- 2, Matches <- {1, 2}, MaxWatches <- 1, MaxCrashes <- 0,
    MaxQuiet <- 0, Rewatches <- FALSE, Lapses <- TRUE, RowsVanish <- FALSE,
    crashes <- watchCrashes, expired <- watchExpired

\* The poller dies once.
WatchCrash == INSTANCE JobWatch WITH
    MaxLines <- 2, MaxRead <- 2, Matches <- {1, 2}, MaxWatches <- 1, MaxCrashes <- 1,
    MaxQuiet <- 0, Rewatches <- FALSE, Lapses <- FALSE, RowsVanish <- TRUE, crashes <- watchCrashes,
    expired <- watchExpired

\* Calls of two processes that take the lock, and a fault.
App == INSTANCE Deployments WITH
    Callers <- {c1, c2}, MaxVersions <- 2, MaxCalls <- 3, MaxFaults <- 1, Kinds <- {"redeploy",
    "push", "rollback", "archive", "restore", "reap", "always_on", "rename"}, Addresses <- {1,
    2}, StartsOn <- FALSE, Creating <- FALSE, rec <- appRec, op <- appOp, calls <- appCalls, faults <- appFaults

\* One call at a time of every kind, with two faults.
AppOne == INSTANCE Deployments WITH
    Callers <- {c1}, MaxVersions <- 2, MaxCalls <- 3, MaxFaults <- 2, Kinds <- {"redeploy",
    "push", "rollback", "archive", "restore", "reap", "always_on", "rename", "reach", "warm", "update", "image"},
    Addresses <- {1, 2}, StartsOn <- FALSE, Creating <- FALSE, rec <- appRec, op <- appOp, calls <- appCalls,
    faults <- appFaults

\* A behaviour is of one part.
InitParts ==
    /\ part \in {"lock", "swarm_pools", "swarm_work", "life", "rollout", "migration",
                 "jobs", "jobs_one", "watch", "watch_lapse", "watch_crash", "app", "app_one"}
    /\ Init
    /\ IF part = "swarm_work" THEN Work!Init ELSE Pools!Init
    /\ IF part = "rollout" THEN Rollout!Init ELSE Life!Init
    /\ part \notin {"life", "rollout"} => lifeRoute = Unset /\ ~known
    /\ Migration!Init
    /\ IF part = "jobs_one" THEN JobsOne!Init ELSE Jobs!Init
    /\ IF part = "watch_crash" THEN WatchCrash!Init ELSE Watch!Init
    /\ IF part = "app_one" THEN AppOne!Init ELSE App!Init

\* Only its component takes steps.
NextParts ==
    \/ /\ part = "lock" /\ Next
       /\ UNCHANGED <<part, poolsVars, lifeVars, migrationVars, jobsVars, watchVars, appVars>>
    \/ /\ part = "swarm_pools" /\ Pools!Next
       /\ UNCHANGED <<part, vars, lifeVars, migrationVars, jobsVars, watchVars, appVars>>
    \/ /\ part = "swarm_work" /\ Work!Next
       /\ UNCHANGED <<part, vars, lifeVars, migrationVars, jobsVars, watchVars, appVars>>
    \/ /\ part = "life" /\ Life!Next
       /\ UNCHANGED <<part, vars, poolsVars, migrationVars, jobsVars, watchVars, appVars>>
    \/ /\ part = "rollout" /\ Rollout!Next
       /\ UNCHANGED <<part, vars, poolsVars, migrationVars, jobsVars, watchVars, appVars>>
    \/ /\ part = "migration" /\ Migration!Next
       /\ UNCHANGED <<part, vars, poolsVars, lifeVars, jobsVars, watchVars, appVars>>
    \/ /\ part = "jobs" /\ Jobs!Next
       /\ UNCHANGED <<part, vars, poolsVars, lifeVars, migrationVars, watchVars, appVars>>
    \/ /\ part = "jobs_one" /\ JobsOne!Next
       /\ UNCHANGED <<part, vars, poolsVars, lifeVars, migrationVars, watchVars, appVars>>
    \/ /\ part = "watch" /\ Watch!Next
       /\ UNCHANGED <<part, vars, poolsVars, lifeVars, migrationVars, jobsVars, appVars>>
    \/ /\ part = "watch_lapse" /\ WatchLapse!Next
       /\ UNCHANGED <<part, vars, poolsVars, lifeVars, migrationVars, jobsVars, appVars>>
    \/ /\ part = "watch_crash" /\ WatchCrash!Next
       /\ UNCHANGED <<part, vars, poolsVars, lifeVars, migrationVars, jobsVars, appVars>>
    \/ /\ part = "app" /\ App!Next
       /\ UNCHANGED <<part, vars, poolsVars, lifeVars, migrationVars, jobsVars, watchVars>>
    \/ /\ part = "app_one" /\ AppOne!Next
       /\ UNCHANGED <<part, vars, poolsVars, lifeVars, migrationVars, jobsVars, watchVars>>

allVars ==
    <<part, vars, poolsVars, lifeVars, migrationVars, jobsVars, watchVars, appVars>>

SpecParts == InitParts /\ [][NextParts]_allVars

\* What is on record about computers is so: a swarm counts a request once, its ready agents have
\* a computer and the cleaned ones none, and work reaches agents that are ready; a scope's
\* default can be used, a computer with jobs is kept and a retired one is gone; a migration that
\* is done, and was not resumed from an older snapshot, has the writes made before its last copy.
ComputersTracked ==
    /\ part = "swarm_pools" => Pools!TypeOK /\ Pools!RequestsCountOnce
    /\ part = "swarm_work" => Work!TypeOK /\ Work!ReadyHasComputer /\ Work!WorkReachesReady /\ Work!CleanedIsGone
    /\ part = "life" => Life!TypeOK /\ Life!DefaultIsUsable /\ Life!JobsKeepComputer /\ Life!RetiredIsGone
    /\ part = "rollout" => Rollout!TypeOK /\ Rollout!DefaultIsUsable /\ Rollout!BackfilledHasDefault
    /\ part = "migration" => Migration!EarlyWritesArrive

\* What is on record about processes is so: a command without a secret has one process unless two
\* starts overlapped, none runs unregistered, and an ended row's process has ended; a watch
\* reports no line twice, passes over none while its owner has access, and is silent once it is
\* removed; a running app has an endpoint, a failed restore leaves nothing behind, and an app
\* that is always on is not stopped for being idle.
ProcessesTracked ==
    /\ part = "jobs" => Jobs!TypeOK /\ Jobs!EndedRowsEnded /\ Jobs!NoneUnregistered /\ Jobs!OneProcess
    /\ part = "jobs_one" => JobsOne!TypeOK /\ JobsOne!EndedRowsEnded /\ JobsOne!NoneUnregistered
    /\ part = "watch" => Watch!TypeOK /\ Watch!NoLineSkipped /\ Watch!ExitTellsAll /\ Watch!UnwatchHonored
    /\ part = "watch_lapse" => WatchLapse!TypeOK /\ WatchLapse!NoLineSkipped /\ WatchLapse!ExitTellsAll
    /\ part = "watch_crash" => WatchCrash!TypeOK /\ WatchCrash!NoLineTwice
    /\ part = "app" => App!TypeOK /\ App!RunningHasEndpoint /\ App!FailedRestoreIsClean /\ App!AlwaysOnSpared

\* Records move one way: a route is settled once defaults are explicit and moves to a home that
\* has what the old one, or the snapshot resumed from, had; versions of an app are only appended, the applied one is the one
\* that is served, and an archived app runs again only when it is published.
RecordsAdvance ==
    /\ Rollout!RouteIsSettled
    /\ Migration!RoutedHasHome
    /\ App!AppendOnly
    /\ App!AppliedIsServed
    /\ AppOne!ArchivedStays
=============================================================================
