# A verification project for qm

qm runs agent turns for chat threads.  A message becomes a *run*, a row of a
PostgreSQL table; worker processes claim runs under a lease, execute the turn
and record its result; reapers recover the runs of dead workers.  Around that
core are the session store with its transcript and tape, the outbox that carries
results to Slack and the web, schedules and loops that start runs on their own,
credentials, machines and published apps, and the deployments that hand all this
over from one build to the next.  This directory holds TLA+ specifications of
those parts, TLC models of small instances, and TLAPS proofs of the main results
for every instance.

Paths are relative to the repository; `runs/worker.ts` stands for
`src/runs/worker.ts`.  `PROJECT.json` maps every definition to its source lines
and lists the runs, the theorems, the hazards of the code and the properties
that would catch them.

## The system and its parts

| part | what several actors share | what makes it hard |
| --- | --- | --- |
| run queue, workers, reapers (`runs/`) | the table `runs` | single statements of many processes; reads that are acted on later; leases that lapse under a live worker |
| run signals (`runs/*signal-store.ts`, `api/app-turn.ts`) | rows addressed to a run | a steer for a run that is ending; three replayers at once |
| sessions (`sessions/`, `core/`, `harness/`) | write lease, transcript, tape | a lease deleted under its holder; a crash between entries and checkpoint; stale plans |
| intake and decisions (`slack/`, `api/`) | envelopes, requests, cards | deliveries repeated to two instances; two clicks; restarts |
| delivery (`delivery/`, `slack/`) | outbox rows, the dispatch lease | posts whose answer is lost; claims that expire; a live handler beside the poller |
| fleet (`runs/background-*.ts`, `runs/drain.ts`, `persistence/`) | ownership record, leader leases, locks, channels | two generations alive; connections that die silently |
| schedules and loops (`cron/`, `loops/`) | slots, fire journal, item ledger, cursors | two schedulers; decisions beside fires; history that expires |
| credentials (`credentials/`) | grants, asks, tokens, login archives | check and write in separate calls of a store |
| machines (`swarms/`, `sandbox/`, `connectors/`, `monitors/`, `deploy/`) | inventory, jobs, watches, apps | providers that fail half-way; processes that die between two calls |
| durable maps (`persistence/durable-map.ts`) | documents, a version, a cache per process | a cache filled by a listing that began earlier |

A message goes through intake (`MessageIntake`), becomes a run (`RunQueue`) or a
signal to one (`RunSignals`), is executed under the session's lease
(`SessionTape`), may stop for an approval (`Approvals`, `AgentRequests`,
`KeychainAsks`), and its result goes out through the outbox (`SlackDelivery`,
`WebTranscript`, both on `DeliveryStore`).  Most stores are durable maps
(`DurableMap`), most critical sections advisory locks (`MemoryLock`,
`SessionLocks`), and most sweeps run under a leader lease (`LeaderLease`) in the
deployment that owns the background work (`BackgroundOwnership`).

## Modules and the code

In every module a step is one SQL statement, one call of a store or of a
provider, or one piece of code between two awaits, of one process.  Where code
reads in one call and acts in another, there are two actions and the value read
is kept by the process.  A call that can fail has an action for it, bounded by
`MaxFaults`; where the failure may hide an effect, both outcomes are possible.  A
process that dies loses what it keeps in memory and nothing else.  Clock readings
are abstracted to what the code compares (lapsed, due, delayed, old).  Random
identifiers are numbers of their issue: the code only compares them for equality.

### Runs

| module | state | actions and code |
| --- | --- | --- |
| `RunQueue` | rows, workers, drains, reapers | `enqueue`, `editPendingText`, `withdraw`, `steerQueued`: the actions of those names.  Worker: `Claim`, `HandBack`, `StartTurn` (`loop`); `Heartbeat`, `HeartbeatError`, `LateHeartbeat`, `FinishTurn`, `Complete`, `CompleteError`, `FailRead`, `FailRetire` (`processRun`).  `DrainBeat`, `DrainUnlock`, `DrainRelease`, `DrainError` (`releaseInFlight`).  `ReapScan`, `ReapFence` or `ReapSkip`, `ReapUnlock`, `ReapRetire` (`reapExpired` with `releaseStrandedSessionLeases`).  Clock: `Lapse`, `FenceLapse`, `DelayOver`.  Death: `WorkerCrash`, `ReaperCrash` |
| `SessionQueue` | a line of runs per session | the abstract specification: `Submit`, `Start`, `Stop`, `Finish`, `Withdraw` |
| `RunSignals` | rows of one run, attempts, replayers | `SignalRun`, `Send`, `LookAgain`, `Answer` (`signalRun`); `SteerQueued`; `ReadPending`, `HandleAbort`, `GiveSteer`, `DeclineSteer`, `Acknowledge`, `EndDrain`, `StopPoll` (`startSignalPoll`); `ListPending`, `ReplaySteer`, `EnqueueReplay`, `TakePending`, ... (`replayOrphanedRunSignals`) |

A row of `RunQueue` has the columns that decide what may happen to the run:
status, session, `seq`, key, text, lease token and whether it has lapsed,
`attempts`, `errors`, whether `retry_after` lies ahead, and the result.  The model
allows more than the code in some places: `SKIP LOCKED` lets `claim` return any
eligible run; the age limit of a sweep is free; nothing assumes that a leader
lease keeps reapers apart; a lease may lapse at any time, whatever the beats did.
One assumption goes the other way: runs are ordered by `(created_at, seq)`, and
the model takes a single clock, so that this is the order of the inserts.

### Conversations

| module | state | actions and code |
| --- | --- | --- |
| `SessionTape` | lease, entries, tape, writers | `AcquireLease`, `ReleaseLease`, `ForceReleaseLease`, `Lapse`; every append is guarded by `Held`, `Rejected` otherwise (`withLease`).  A turn: `PreAppend`, `PreTape`, `ReadWindow`, `Heal`, `EmitUser`, `TapeUser`, `EmitWork`, `TapeWork`, `LatchCoverage`, `EndTurn`, `Fail`, `RecordFailure`.  `appendEntryOutsideTurn`: `ReadCoverage`, `ReadLatest`, `AppendOutside`, `TapeOutside`, `CheckpointOutside`.  Compaction: `PlanCompaction`, `AcquireCompaction`, `CheckSince`, `AppendSummary`, `TapeCompaction`, `ReadLatch`, `CheckpointSummary`.  Operators `tapeCoverage`, `foldTape`, `ModelContext` |
| `MessageIntake` | one Slack message, its handlers, the deduper, the run or steer with its key | `Deliver`, `Cap`, `StageWrite`, `StageLate`, `Sweep`, `Abandon`, `Clear` (acknowledgement and staging); `Dispatch`; `Look`, `LookSignal`, `Active`, `Steer`, `Enqueue` (`app.turn`); `Orphan`, `Consume` |
| `Approvals` | requests, grants, turns, cards | `Call` (`blockOnApproval`); `Fetch`, `Begin`, `Settle`, `Release`, `WebClick` (clicks); `Look`, `Append`, `Delete`, `Grant`, `End` (the resumed turn) |
| `AgentRequests` | record, messages, cards, clicks | `PostStatus`, `PostDM`, `Put`, `SettleSent`; `Click`, `Fetch`, `Claim`, `Decline`, `Approve`, `Run`, `Result`; `Ask`, `PostCard`, `CardClick`, `Resume`; `Settle`, `Tell` |
| `WebTranscript` | lease, transcript, hook, drains | `HookStarts`, `HookScans`, `HookAppends`, `HookReleases` (`recordRunFailureEntry`); `DrainReads`, `DrainScans`, `DrainAppends`, `DrainReleases` (`withWebTranscriptDeliveries`); `ReapFences`, `ReapUnlocks`, `Parked` |

Sequence numbers of `SessionTape` start at 1, and 0 stands for the code's -1.  The
tape keeps the rows that `tapeCoverage` and `foldTape` read: messages, `turnEnd`
checkpoints, imports and compactions.  A text is identified by the lease it was
written under and a number, which lets a property compare transcript and fold.
Renewals have no action: a lapse is possible at any moment, and the code never
renews a lapsed lease.  A rejected append may be swallowed and the turn may go on
for a while; since every later append is rejected too, `Rejected` goes straight to
the release.  How much a compaction summarises, and whether an import is possible,
are free choices.

### Delivery

| module | state | actions and code |
| --- | --- | --- |
| `DeliveryStore` | operators on outbox rows | `Enqueue`, `ExpireOveraged`, `ClaimPending`, `Ack`, `AckByKey`: what a call of either store leaves behind |
| `SlackDelivery` | rows, turn handlers, poll cycles and drains, the dispatch lease, what Slack shows | `LiveHears`, `LiveFiles`, `LiveFinalize`, `LivePost`, `LiveWhisper`, `LiveAck` (`handleIncoming`, its failed and refused results included); `LiveCard` (the turn of a click); `EnqueueResult` (`wireRunResultDeliveries`); `Poll`, `ClaimBatch`, `TakeRow`, `Verify`, `Post`, `Update`, `Upload`, `AckRow`, `CycleEnds` (`pollDeliveries`); `LockDies`, `LockLost` |
| `MapPromise` | a map, calls under way | the in-memory map as a specification: every call takes effect in one step between call and answer |
| `DurableMap` | table, version, row lock, caches | `Bump`, `Write`, `Commit`, `CommitUnseen`, `Rollback` (`withBump`); `ReadVersion`, `Hit`, `Fetch`, `Store` (`snapshot`); `Get`, `Select`; `Crash` |

### Fleet

| module | state | actions and code |
| --- | --- | --- |
| `BackgroundOwnership` | the shared record, controllers, claims | `Register`, `Transition`, `Admit`, `MarkReady`, `Acknowledge`, `Retire` on the record; `Reconcile`, `RegisterSelf`, `Look`, `AdmitSelf`, `StartLoops`, `Ready`, `Expire`, `Release`, `AckRelinquished`, `Drained`, `AckDrained`, `Stop` (`createBackgroundController`); `Claim`, `Claimed`, `Finish` (the worker); `HandOver`, `RetireDead` (the operator) |
| `DeployDrain` | beats, flags, protection | `Sweep`, `SweepSets` (`createDrainController`); `Claimed` with `noteBusy`; `NoteLands`; `BeatExpires` |
| `LeaderLease` | the shared connection, holds | `HoldOpens`, `HoldJoins`, `HoldTwice`, `Asks`, `Won`, `NotWon`, `Ends`, `Unlocked`, `Leaves` (`hold`); `Break`, `ErrorEvent`, `Drop` |
| `LockPromise` | who is inside | what a reader-writer lock promises: `Enter`, `Leave` |
| `MemoryLock` | state object with tail, readers, pending | `Ask`, `Start`, `Finish`, `Try`, `Refuse` (`createMemoryAdvisoryLock`) |
| `SessionLocks` | sessions of a pool, reservations | `Call`, `Reserved`, `Connect`, `Reuse`, `Locked`, `NotLocked`, `GiveUp`, `Unlock`, `Release`, `Break` (`createPostgresAdvisoryLock`) |
| `ChannelListener` | subscriptions, LISTENs, connection | `Subscribe`, `Unsubscribe`, `Publish`; `BeginPlan`, `Execute`, `Answered`, `Deliver`, `Retry` (`reconcile`); `Break`, `Disconnected` |

### Schedules, loops

| module | state | actions and code |
| --- | --- | --- |
| `CronFires` | one cron, its jobs, journal, runs, lock | `Take`, `Claimed`, `Requeue` (`fireJob`); `FireDue`, `MarkFired` (ticks); `RunNow`; `Lock`, `Once`, `TurnReturns`, `RecordFire`, `Unclaim`, `Defer` (`fire`); `SweepStranded`; `SetEnabled`, `Reschedule`, `Pause`, `Resume` |
| `LoopWork` | one item, its outputs, the draft | `Intake`, `Claim`, `Capture`, `Judge`, `Publish`, `Promote`, `Hold`, `Park`, `Catch`, `Undo` (`runLoopFire`); `Decide`, `Check`, `ClaimShip`, `Begin`, `Turn`, `Confirm`, `SettleItem` (`shipOutput`); `ReturnStart` ... `Requeue` (`returnOutput`); `SendStart` ... `RecordSent` (`actOnItem`); `Deliver` ... `DeliverClear` (ingress); `EditDraft`, `Dismiss`, `Reopen`, `Reply` |
| `LoopIngress` | kind of source, receipts, cursor, ledger, workers | `Receive`; `Begin`, `Take`, `Profile`, `Page`, `Import`, `Save`, `Complete` (`process` with Gmail's history); `Renew`, `Reconcile`, `Cleanup` (`maintain`) |

### Credentials

| module | state | actions and code |
| --- | --- | --- |
| `KeychainGrants` | grants, loads, revocations, a removal | `MintLooks`, `MintPuts`; `Looks`, `Loads`, `ServeStanding`, `ClaimOnce`, `ClaimRefused` (`materialize`); `RevokeLooks`, `RevokeMerges`; `RemoveLists`, `RemoveRevokes`, `RemoveDeletes` |
| `KeychainAsks` | asks, creators, deciders, the sweep | `CreateCheck`, `CreatePut`; `Decide`, `Mint`, `MergeApproved`, `MergeDeclined`, `MergeAdopted`, `Fire`, `Note`; `SweepLooks`, `SweepFreshens`, `SweepFires`, `SweepNotes`, `Prune`; both fire by `FireResolution`, which tells nobody once the task that asked `GoesAway` |
| `ConnectorTokens` | the record, flights, callers, the provider's current token | `Read`, `Serve`, `Join`, `Launch`; `Refreshed`, `Refused`, `Outage`, `CompareWon`, `CompareLost`, `Put`, `MarkWon`, `MarkLost`, `Mark`; `Connect`, `Disconnect` |
| `DeviceLogins` | home, note, record, turns | `List`, `Archive`, `SaveUpdates` or `SaveInserts`, `Rehash`, `Commit` (capture; a login over the size caps is noted and not saved); `RestoreReads`, `RestorePlaces`; `LogIn`, `ReplaceMachine`, `OperatorSaves` |

### Machines

| module | state | actions and code |
| --- | --- | --- |
| `Swarms` | one swarm record, reconcilers, deliveries | `SpawnRead`, `SpawnWrite`, `SendRead`, `SendWrite`; `Create`, `Session`, `Ready`, `Catch`, `Clean`, `Retire`, `Cleaned` (phase resources); `Enqueue`, `Acknowledge` (phase delivery) |
| `SandboxResources` | inventory, default, route, operations | `Activate` ... `Mark` (`initialize`); `LegacyPick`, `LegacyProvision`, `RecordLegacy`; `Migrate`; `Use`; `Create`; `RetireStart` ... `Destroy`; `SetDefault` |
| `SandboxMigration` | two homes, a route, staged snapshots, turns | `Begin`, `Resume` (from a snapshot that an earlier try staged), `Pack`, `Extract`, `Adopt`, `FlipCopy`, `FlipSnapshot`, `Check`, `Park`, `Fail`; `Pick`, `Write` |
| `BackgroundJobs` | processes and their rows | `StartFinds`, `Probe`, `Launch`, `Register`, `Reread` (a command with a secret is not looked for); `Poll`, `Term`, `Kill`; `Sweep`, `ReapTerm`, `ReapKill`, `ReapMark`; `ReconcileLists`, `ReconcileLooks`, `ReconcileMarks` (`reconcileProcesses`) |
| `JobWatch` | one watch, its poller, the job | `Watch`, `Rewatch`, `Unwatch`; `Tick`, `LookUp`, `ReadLines`, `FireClaims`, `RunTurn`, `RunRefused`, `RunBarred`, `FireRefused` (`runTrigger`), `Advance`, `MarkExited` (`poll`); `AccessChanges` |
| `Deployments` | one app's row, the provider, calls | `Redeploy`, `PushGit`, `Rollback`, `Archive`, `Restore`, `AlwaysOn`, `Rename`, `Reap`, `Relaunch`; `CallReach` (a visitor) and `KeepWarm` (the sweep), both by `LiveEndpoint`; built from the steps `Get`, `Put`, `Merge`, `Apply`, `Destroy` of store and provider |

What each module leaves out of its component is said in `PROJECT.json`
("components") and, where it matters to a property, in the module's comment.

## What TLC checks

A suite (`MC*.tla`) extends one component and instantiates others.  The variable
`part` says which component, and at which scale, a behaviour is of; the other
variables stay as they start, so state spaces add up and do not multiply.  Of
the extended module (`RunQueue`, `SessionTape`, `BackgroundOwnership`,
`DurableMap`) several scales are explored: `Within(Scale.x)` bounds what a
behaviour may use, each bound being monotone along a behaviour, or a limit on
how many actors are busy at once.  Properties of a suite that join several
components are conjunctions `part = "x" => X!Property`; the properties
themselves are defined, and explained, in the component's module.

| run | parts | checks |
| --- | --- | --- |
| `runs` | `RunQueue` at seven scales (reap, stall, budget, edit, order, pair, keys), `RunSignals` | `LeaseExclusive`, `SessionFifo`, `ErrorBudget`, `OneSuccessPerKey`, `TextAgrees`, `TerminalIsFinal`, `ImplementsSessionQueue`; `SignalsUsedOnce` |
| `conversations` | `SessionTape` at four scales (lease, plan, outside, fold), `MessageIntake`, `Approvals`, `AgentRequests`, `WebTranscript` | `WritesInLeaseOrder`, `FoldIsHonest`, `SummariesAdvance`; `MessagesKept`, `DecisionsHold`, `RequestsWait` |
| `fleet` | `BackgroundOwnership` at three scales (deaths, faults, rollback), `LeaderLease`, `ChannelListener`, `SessionLocks` | `OneOwner`, `ClaimsAdmitted`; `HeldThenFreed`, `ReadyIsHeard`, `LocksKeepPromise` |
| `credentials` | `KeychainGrants`, `KeychainAsks`, `ConnectorTokens`, `DeviceLogins` | `OnceIsOnce`, `RevokedStays`; `AnswersHold`, `NewestStays` |
| `delivery` | `DurableMap` at two scales (crowd, pair), `SlackDelivery` | `ListingIsRecent`, `KeepsPromise`; `ResultsPostedOnce` |
| `machines` | `MemoryLock`, `Swarms`, `SandboxResources`, `SandboxMigration`, `BackgroundJobs`, `JobWatch`, `Deployments` | `NoOvertaking`, `KeepsPromise`; `ComputersTracked`, `ProcessesTracked`, `RecordsAdvance` |
| `loops` | `CronFires`, `LoopWork`, `LoopIngress` | `SlotsFireOnce`, `WorkShipsOnce`, `MailIsCovered`, `AttemptsAreFenced` |
| `progress` | liveness of eight components | `RunsEnd`, `WaitsEnd` |
| `arrivals` | liveness of nine components, among them `LeaderLease` | `OneLeader`; `RequestsEnd`, `MessagesLand` |
| `deployments_reach`, `job_watch_lost` | `Deployments`, `JobWatch` | two disagreements, see below |

What the properties say, and why they are not obvious:

* `LeaseExclusive`: no two processes hold a token that a statement would still
  accept for the same run.  `complete` has no condition on the status, so the
  token alone keeps a late worker out.
* `ErrorBudget` (with the claim budget): `fail` and `reapExpired` decide on
  counters read earlier; while their token is valid those counters are the row's.
* `SessionFifo`, `ImplementsSessionQueue`: neither delays, retries, reaps nor
  hand-backs let a later message of a session overtake an earlier one.
* `OneSuccessPerKey`: a refused, withdrawn or steered run gives its key back; the
  next submission may use it, and still at most one of them succeeds.
* `TextAgrees`: an edit never changes a message that an attempt, even a superseded
  one, is executing.  `TerminalIsFinal`: late statements change no finished run.
* `SignalsUsedOnce`: a consumed steer reached the model, became a run or was
  refused (a replay that uses `takePending` and fails half-way may lose it); it
  becomes at most one run however many replay it, and while nothing fails it is
  used once; an abort is not used up by an attempt that did not end the run.
* `WritesInLeaseOrder`: a superseded writer of a session writes nothing, however
  its lease was lost.  `SummariesAdvance`: a compaction planned before it held the
  lease does not undo a later one.
* `FoldIsHonest`: turns are served from the tape when its coverage reaches the
  last entry.  Every message up to the coverage that no summary replaced is then
  in the folded context exactly once, a covered summary comes first, and the cut
  of a compaction leaves nothing behind that a checkpoint since the last import
  separates.  (Without a checkpoint the fold keeps the messages beside their
  summary, and after an import an older summary: it prefers repetition to loss.)
* `MessagesKept`: an acknowledged Slack message is a run, a steer or a staged
  envelope, or its sender was told, unless the envelope grew a day old and the
  sweep dropped it; the web transcript shows a run's reply or failure once.
* `DecisionsHold`, `RequestsWait`: an approval for once runs the command once,
  also when the attempt dies; a handoff is one click's at a time.
* `OneOwner`, `ClaimsAdmitted`: a process that may claim background work is on
  record as admitted, and all that may are of one generation and deployment: the
  local fence and the shared record never disagree in the dangerous direction.
* `OneLeader`, `HeldThenFreed`, `LocksKeepPromise`, `ReadyIsHeard`: what a
  broken connection may not do: leave two leaders, return to its pool with a lock
  on it, let a second body in, or leave a subscriber that was told it is ready
  without a listener or a resync.
* `OnceIsOnce`, `RevokedStays`: the claim of a one-time grant is atomic, all the
  rest of the keychain is read, compare and write in separate calls; a one-time
  grant still serves once, and a revocation is never undone.
* `AnswersHold`, `NewestStays`: an ask is answered one way, and an approval noted
  as told was told, unless the task that asked has gone (its cron archived,
  disabled or another's, its conversation no longer visible); the stored token of a
  connector can be used, a noted login within the size caps is the saved one, and
  the newest token and login stay.  (`NewerStays` with two processes and
  `NotedIsSaved` with two turns fail, see below.)
* `ListingIsRecent`, `KeepsPromise` (maps): a cached listing shows the table at a
  moment since its call, whoever filled the cache, and the map refines the
  in-memory one.
* `ResultsPostedOnce`: handler, pollers of two relays, crashes between a post and
  its acknowledgement and lost answers never post a row twice.  A row marked as
  delivered is shown, with two exceptions in the code: the turn of a click is
  acknowledged when its result is heard, beside the card that shows it, and a
  failure or refusal that only the requester is to see may fail to be posted.
* `NoOvertaking`, `KeepsPromise` (locks): the in-memory lock is a reader-writer
  lock in which a conflicting later caller never goes first.
* `ComputersTracked`, `ProcessesTracked`, `RecordsAdvance`: records of computers,
  migrations, jobs, watches and apps agree with what the provider runs, in the
  instances where the code promises it.  A migration that is not resumed from an
  older snapshot has every write made before its last copy, and a resumed one
  routes to what that snapshot had.  A command without a secret has one process,
  with two callers, unless two starts overlapped between look-up and registration.
  A watch passes over no matching line, except while its owner may not read the
  conversation, or may not be sent the notice of a refused turn.
* `SlotsFireOnce`: a slot's turn runs at most once whichever of queue, ticker and
  person fires it, also when a lock is lost; a claimed slot is not used up by a
  pause or a failure.  `WorkShipsOnce`, `AttemptsAreFenced`: an output has one
  ship turn, a draft is sent once, a taken-over attempt offers nothing.
  `MailIsCovered`: the cursor never passes a message the ledger lacks, and an event
  answered 202 is in the ledger or will be read again, with two workers, a source
  that is switched off, lost notices, expired history and a death at any step.

Deadlock is not checked: all instances end when their runs are finished, or their
faults, calls or leases are used up.  The type invariant of every component is
part of its suite's composite property.

### Bounds

The limits that the code has are given small values that leave a case on each
side: two errors and three claims leave room for a claim that ends in neither an
error nor the last claim, which an off-by-one needs to show; a page of two and
three messages give a full and a partial page; a scan of three entries with two
others makes the tail just long enough.  The other bounds (`MaxFaults`,
`MaxCrashes`, `MaxCalls`, `MaxLeases`, `MaxEntries`, `MaxHandbacks`, `MaxStalls`,
`MaxGeneration`, ...) are the model's.  Two actors of a kind are enough where a
rule relates a pair: two runs for the order in a session, two relays for a
double post, two fires for a taken-over attempt, two leases for one superseded
writer.  One fault, in most parts, is what the code claims to recover from; where
it handles a second one during recovery (drafts, swarms, results edited in place)
there are two or three.  Four entries and three leases of `fold` allow a second
compaction of what the first left, which a wrong shift of the checkpoints needs.
Symmetry is used only for sets whose members are compared for equality alone and
only in suites without liveness.

The scales were chosen by reach: each disjunct of each next-state relation is
taken in some part, and each property has a plausible mutation of the code
(`PROJECT.json`, "mutants") that breaks it at the very bounds it is checked with.

### Fairness

`progress` and `arrivals` check liveness.  In each part the fairness is that of
the component's `FairSpec`, restricted to the part.  All of it is weak fairness of
steps that code takes by itself:

| part | fair steps | justified by |
| --- | --- | --- |
| queue | polling for a claim, the turn's end, the statement that follows, the sweep, the clock | `loop` runs until stopped, a turn has a wall-clock limit, the sweep is an interval; crashes, beats, drains and outcomes are not assumed, and the reaper of this part does not die in a sweep |
| signals | claim, poll, the model's end, `stop`, replay by hook and sweeper | poll and sweeper are timers; the property is conditional: approvals do not block the thread for ever |
| drain | start, sweep, the request in flight, the expiry of a beat, the claim | `setInterval`; a beat has a time to live |
| handover | boot, the controller's loop, drained work, its acknowledgement | the reconcile loop; runs end |
| watch, cron | the poller, the worker, the reconciler, ageing, the stranded sweep | timers; `pg-boss` retries |
| warm | the handler's next call, `KeepWarm` | awaited promises settle; `keepAlwaysOnWarm` is an interval, and `WarmAgain` is about the apps it looks after.  Visitors (`CallReach`) come or do not |
| lock | start and finish of a body | awaited promises settle |
| leader, handoff, swarm, tokens, card | the handler's next call, the sweep of a swarm | as above; calls have timeouts |
| login | the next call of a capture that began | as above; that turns go on is a premise of `Captured` (`MoreTurns`), not fairness |
| mailbox, push, result, web | the worker, `maintain`, the poll cycle, drains, expiry of claims and leases | intervals; leases have a time to live |

Calls by people and agents, faults, deaths and restarts are never fair, except
where the component needs a restart to be said to go on (`Boot`, `Resume`).  The
bounded faults of these parts mean: after the last fault, progress is made.

## What is proved

The theorems hold for every value of the constants, under the assumptions of the
module that declares them: limits are natural numbers (budgets positive), NULL is
none of the values, `Home` maps callers to processes, a hold has a process and a
key, the callers of a lock are finitely many, a page holds at least one message.
TLC evaluates these assumptions in the suite that extends the module.
`SessionLocks` is only instantiated, so its theorems carry their assumption
(`CallsAssumed`): finitely many calls, each with a key and at most one call around
it, and a NULL that is none of the values, as in the instance of run `fleet`.
Each inductive invariant was first checked as an invariant by TLC.

| component | theorems | states |
| --- | --- | --- |
| `RunQueue` (`RunQueueProofs`) | `TypeCorrect`, `Invariance` | `[]TypeOK`, `[]IInv` |
| | `LeaseIsExclusive`, `SessionsAreFifo`, `BudgetsHold`, `OneSuccess`, `TextsAgree`, `TerminalStays` | the properties of run `runs` |
| | `SnapshotsAreCurrent`, `LostBeatsAreLost` | copies are current while their token is; a beat is counted as lost only when the lease is gone |
| | `QueueImplemented` | the queue implements `SessionQueue` |
| `SessionTape` (`SessionTapeProofs`) | `SessionTyped`, `LeaseOrderHolds`, `SummariesAlwaysAdvance` | `[]TypeOK`, `WritesInLeaseOrder`, `SummariesAdvance` |
| | `CoverageExists` | the coverage never passes the end of the transcript |
| `BackgroundOwnership` (`OwnershipProofs`) | `OwnershipTyped`, `ClaimsAreAdmitted`, `OneOwnerHolds` | `[]TypeOK`, `ClaimsAdmitted`, `OneOwner` |
| `LeaderLease` (`LeaderLeaseProofs`) | `LeaseTyped`, `OneLeaderHolds` | `[]TypeOK`, `OneLeader` |
| | `ReturnedCleanHolds`, `NoneHoardedHolds` | the lease's part of `HeldThenFreed`: connections go back clean, and none is kept for nothing |
| `KeychainGrants` | `GrantsTyped`, `OnceHolds`, `RevocationHolds`, `RevokedIsDead` | `[]TypeOK`, `OnceIsOnce`, `RevokedStays`; a revoked one-time grant serves nothing more |
| `DurableMap` | `CachesAreHonest`, `ListingsAreRecent`, `ImplementsPromise` | a cache of the current version is the table; `ListingIsRecent`; the map implements `MapPromise` |
| `LoopIngress` (`LoopIngressProofs`) | `NoMailIsLost`, `Invariance` | `MailIsCovered`, `[]IInv` |
| | `CursorOnlyAdvances` | the cursor of a mailbox stays, or moves over covered messages only |
| `MemoryLock` (`AdvisoryLockProofs`) | `NobodyOvertakes`, `StateIsUsedAlways`, `ImplementsPromise` | `NoOvertaking`; a state object exists exactly while it is used; the lock implements `LockPromise` |
| `SessionLocks` (`AdvisoryLockProofs`) | `AdvisoryLockKeepsPromise` | the lock implements `LockPromise` for every key (`LocksKeepPromise` of run `fleet`) |
| | `BodiesHoldLocks`, `CallsAreCounted` | the locks' part of `HeldThenFreed`: a body has its lock, connections go back clean; the inductive invariant |

### The arguments

**RunQueue.**  `LeaseExclusive` is not inductive: it says nothing about tokens
remembered by processes that no longer hold a lease, which might become valid
again.  `IInv` adds what the code relies on: how a row's columns agree with its
status, and that keys and sequence numbers differ (`TableInv`); that a remembered
token was issued, so that every later one differs from it, and that no two
processes remember the same token of a run (`Tokens`); that what a process copied
from the row agrees with it as long as it matters (`SnapshotsCurrent`, `Texted`,
`LostBeats`).  The proof separates the table from the processes.
Its first part shows once for each kind of row update which relation it is an
instance of, and `NextTableStep` that every step is the clock or one such update
of one row; the table's invariant needs nothing else.  The second part shows that
processes that do not move keep their part of the invariant under any such step,
and that the one that moves establishes its own.  The refinement uses the same
relations: each update of a row is a step of `SessionQueue` or none.

**SessionTape.**  `WritesInLeaseOrder` compares rows with rows and is silent
about who may write next.  The invariant adds that the lease's token is the newest
one granted or none, that a writer's token is at most that and no two writers
share one, and that rows carry granted tokens; so whoever passes `Held` writes
under the newest token, and a row at the end is in order.  `SummariesAdvance`
needs two facts about a compaction, which runs over five awaits: the summary it
planned reaches further than all summaries *of its snapshot* (a lemma about
`Plans`, from `planCompaction`), and, once `CheckSince` found no newer one, than
all summaries *as long as it holds the lease*, since only the holder appends.
`TapeStep`, `EntryStep` and `GrantedStep` prove this per kind of table change,
and `LocalStep` for all steps that change no table, so the actions only show which
kind they are.  `CoverageExists` follows from `RowsOK`, where every checkpoint,
import and compaction points at an existing entry.

**BackgroundOwnership.**  The first part treats the record as data: `RecordOK`
says that admitted members are of one generation and, once the protocol is on, of
one deployment, and each of the six operations keeps it.  The step that matters is
`Admit`, which waits until no member is admitted in another generation.
The second part adds `ControllerOK`: an activation that has not been aborted,
and a claim under way, belong to an admission that the record still holds.  It is
kept because `release()` aborts first, waits for claims, and tells the record
last, because no operation of another process withdraws an admission except
`Retire` of a dead one, and because an answer that is lost never makes a
controller believe it is admitted.  The two together give `OneOwner`.

**LeaderLease.**  `OneLeader` compares two bodies; what they share is a chain:
call, key, connection entry, session, lock.  The invariant pins each link.
`KeysHeld`: the keys a process holds are those of its calls under way, one call
for each key.  `EntriesUsed`: such a call uses its process's present entry or one
that is gone, and a present entry has a call that will look after it, unless the
process lost another.  `LocksOwned`: a lock is of one live session and of a call
that has not given it back.  `LeadersKnown`: a body was told, or is on the list to
tell and has its lock, or lost it with a session whose end is not noticed yet.  Two
untold bodies on live sessions would both have the lock, so share a session and a
process, so have different keys.  That a returned connection is clean follows from
the test in `hold`'s last step: with no key held there is no call under way, so no
lock of one.

**KeychainGrants.**  `OnceIsOnce` counts loads, so the invariant says that a
one-time grant that is still active, or not minted, has not been loaded
(`ClaimOnce` checks and sets the status in one update), and that minting is over
before anybody can revoke or remove a grant: otherwise the unconditional put of
`mintGrant` could bring a revoked grant back.

**DurableMap.**  The version's row lock makes what a transaction staged still
right when it commits.  A listing under a version is the table as every call that
read that version could have seen it, whether the listing is cached or still on
its way; this is what lets a cache filled by one call serve another.  The
refinement maps a call to the abstract one that takes effect at the commit, or,
for a listing, at a moment since its call.

**LoopIngress.**  `MailIsCovered` says nothing of a worker that has read part of
the history when its process dies, or that goes on while notices come in.  The
invariant follows the worker's record from step to step (`Sound`): its copy of the
cursor is the cursor, because one worker at a time is at work (`Alone`); every
event between the cursor and the end of the page it read is covered (in the
ledger, or out of the inbox) or among the messages it has yet to import
(`CoveredTo`); and the id it will save is not older than the notice it answers.
The last is why the profile is read before the history: when the history has
expired and the inbox is listed instead, the profile's id is saved, and messages
that arrived during the listing are after it.  `Receipts` says what a completed
receipt stands for, so that deleting it thirty days later loses nothing.  Coverage
only grows (`Grow`), so steps of others keep all of this (`QuietStep`,
`WorkerStep`), and an action only shows what its own record says afterwards.

**MemoryLock.**  Callers are ordered by their arrival; a caller awaits only
earlier ones, and awaits, directly or through the tail, every earlier one that
conflicts with it and is not done (`AwaitsEarlier`, `StartedInOrder`).

**SessionLocks.**  The promise compares bodies; the code never does, it counts.
So the invariant (`CallInv`) says that every count is the calls it stands for: a
connection's references are the calls that use it (`RefCount`), a reservation
counts the calls that made it, which are one call or all shared (`KeyCount`), and
Postgres counts for a session the calls between lock and unlock, or nothing once
the connection broke (`LockCount`).  Then two bodies of one key are kept apart for
one of two reasons: on one connection by the reservation, which Postgres would not
do, and on two connections by Postgres' counts, which say of another session
exactly whether such a call is there.  A broken connection counts as up again only
when its last call has dropped it, so no body takes part in the promise a second
time.  A step that grants a lock is an `Enter`; in every other step no body begins
(`NoneEnters`), which is a `Leave` of those that ended or lost their connection,
perhaps of none.

### What is only model-checked

* Liveness (`RunsEnd`, `WaitsEnd`, `RequestsEnd`, `MessagesLand`): the prover does
  not handle liveness under fairness.
* `FoldIsHonest`: what `foldTape` computes needs induction over the tape, which
  the prover's back ends cannot do.  That the coverage exists is its first
  conjunct, and proved.
* The safety properties of the components without a proof above: signals, intake,
  approvals, requests, web transcript, listener, asks, tokens, logins, Slack
  delivery, schedules, the work of loops, swarms, machines, jobs, watches and apps.
  Many of them hold only in the instances given, because the code promises them only
  there; the others have invariants of their own that are not written down yet.

## Where code and documents disagree

Two disagreements are runs of the project, whose counterexamples TLC reproduces:

* `deployments_reach`: "versions are append-only" (test/deploy-store.test.ts:34).
  `liveEndpoint` (deploy/deploy-service.ts:212) stores a changed endpoint outside
  the deploy lock by reading the whole row and writing it back; a version
  published in between is lost and its number used again.
* `job_watch_lost`: after "a crash between fire and cursor-advance" that "refires
  the same key and is deduped" (test/monitor-poller.test.ts:236), the key of a
  wake is the cursor it read from, whatever it read up to; lines printed since are
  in the skipped wake, though "buffered output rides the next fire"
  (test/monitor-poller.test.ts:436).

The following properties are stated in the modules, with what the repository says
of the behaviour in their comment, and TLC refutes them in the instance named.
(Constants not named are as in the suites; a cfg needs the module, the constants
and the property.)

| property | instance | what the code does |
| --- | --- | --- |
| `RunSignals!ReplayedMeansReplayed` | one steer, `Declines` | `signalRun` answers `replayed` also for a steer the attempt took (api/app-turn.ts:794) |
| `BackgroundOwnership!DrainedMeansIdle` | two deployments, no fault | `acknowledge("drained")` is sent after a check that may be stale (runs/background-controller.ts:49) |
| `BackgroundOwnership!HandoverCompletes` | `MayFail = {"admit"}` | an admission whose answer is lost is never released (runs/background-controller.ts:41) |
| `DeployDrain!RunsAreTaken` | the newer process dies | a worker that hands a claim back leaves its loop for good (runs/worker.ts:203) |
| `DeployDrain!BusyIsProtected` | one process, two runs | `noteBusy` sees protection on while the request to lift it is under way (runs/drain.ts:55) |
| `SlackDelivery!FilesLand` | a crash, `WithFiles` | a poller that finds the text takes the reply as delivered, files included (slack/deliveries.ts:337) |
| `SlackDelivery!ResultsLand` | a crash | the row is enqueued after the run is done; nothing looks for a run without one (delivery/run-result-delivery.ts:141) |
| `CronFires!RunningIsUnderWay` | a worker and a manual start | a manual fire that times out on the lock stays `running` until the stranded sweep (cron/scheduler.ts:219) |
| `CronFires!RescheduleHolds` | a reschedule, a throw | `unclaimSlot` restores the old slot over a new schedule (cron/cron-store.ts:255) |
| `CronFires!DeferredReleases` | two workers | a deferred slot is not given back once the next is claimed (cron/cron-store.ts:257) |
| `LoopWork!RefreshWaits`, `StartsClean` | an ingest | a refresh does not wait for an unconfirmed output; a fire does not supersede old outputs (loops/item-ledger.ts:151, loops/runner.ts:101) |
| `LoopWork!ParkedIsFailed` | `AutoGate`, a failing ship turn | `park` keeps a ready item ready (loops/item-ledger.ts:566) |
| `SandboxResources!RetiredIsGone` | a process without the feature | a legacy provisioning may bring up a retired computer (sandbox/sandbox-routing.ts:177) |
| `Approvals!ConsumedIsRefused` | two clicks, a second request | the id of a request is the same for the next one (core/orchestrator.ts:1790) |
| `Approvals!ApprovedTurnResumes` | an attempt dies | the request is deleted before the turn goes on (core/orchestrator.ts:1899) |
| `Approvals!RequestsHaveButtons` | Slack only | requests of a turn resumed by a click get no buttons (slack/approvals.ts:762) |
| `AgentRequests!ExpiredIsOld`, `OneTurn` | one or two clicks, no fault | the message is posted before the record is stored; the record is stored again under the same id (slack/approvals.ts:493, 330) |
| `MessageIntake!HandledOnce` | two instances | run and steer of one key are not exclusive (api/app-turn.ts:399) |
| `ConnectorTokens!NewerStays` | two processes | comparison and write are separate calls (credentials/keychain.ts:743) |
| `ConnectorTokens!LostMeansRotated` | an outage | a failure mark is taken for a rotation (credentials/keychain.ts:775) |
| `KeychainAsks!RefusalTold` | fairness, a fault | `declineAsk` does not clear `notifiedAt` (credentials/keychain.ts:1223) |
| `KeychainAsks!OnePending` | two creators | search and put are separate calls (credentials/keychain.ts:1169) |
| `DeviceLogins!NotedIsSaved` | two turns | save and note are written by each turn on its own (credentials/device-flow-persist.ts:403) |
| `JobWatch!NoLineSkipped` | `Rewatches` | a poll's final advance overwrites a cursor set meanwhile (monitors/monitor-poller.ts:251) |
| `JobWatch!ExitTellsAll` | `MaxRead = 1` | the exit is reported with the first part of a longer output (monitors/monitor-poller.ts:252) |
| `JobWatch!UnwatchHonored` | `RowsVanish` | the loss of a job is reported without `stillLive` (monitors/monitor-poller.ts:275) |
| `BackgroundJobs!OneProcess` without `~overlap` | two callers | look-up and launch are separate calls (connectors/background-exec-broker.ts:101) |
| `BackgroundJobs!ReapedStays` | one caller | `markStatus` replaces `reaped` (processes/process-registry.ts:184) |
| `Deployments!AppendOnly` | `update` beside `redeploy` | a rename without the lock writes the row back (deploy/deploy-service.ts:654) |
| `Deployments!ArchivedStays` | `reach` beside `archive` | the status is not read again under the lock (deploy/deploy-service.ts:223) |
| `Deployments!AppliedIsServed` | `Creating` | the first deploy runs without the lock (deploy/deploy-service.ts:373) |
| `Deployments!WarmAgain` | `archive` beside `reach`, two addresses | the write-back restores `running` without an endpoint (deploy/deploy-service.ts:212) |

Where such a property also appears in a suite, it is in an instance without the
cause named here, where it holds.

Smaller things the models show, which no property speaks against: the row of a
subagent's steer stays pending when its replay became a run but was never
acknowledged, and that run has ended (every later replay is answered without a
run); a start whose first matching row is of a dead process launches without
trying the other rows.

## What is not modelled

`PROJECT.json` lists every part of the system.  Left out as a whole are:

* the in-memory twins of the run and session stores, which run on one event loop;
* surfaces, sandboxes and model providers, tools, policy and authorisation: I/O
  with external services, or decisions computed from one request;
* stores of user content (memory, skills, files, projects, tasks), whose rows are
  independent, and rate limits, which count per key;
* turn streams and presence, which never decide what a run does;
* schema migrations (a list walked under one lock at start-up) and connection
  pools (resources of one process);
* the lock file and the refresh of the codex login: file-system locking between
  processes on one machine, and the refresh of `ConnectorTokens` once more;
* wiring and tooling: configuration, provisioning, user interface back ends.

Of the parts that are modelled, left out are columns that no statement of the life
cycle reads (`delivery_state`, `returned_at`, `worker_id`, timestamps), read-only
queries, clock skew between processes, `tryWithLocks`, audience filters, taint
clearing, forks, the order of messages within the fold, and the texts of prompts,
cards and notices.  `releaseInFlight` remembers the last token it handed back and
does nothing for it again; the model lets it try, and the fenced statements
refuse.  The modules are composed by `part` and not by product: a fault of one
component during a step of another is covered only where a module contains both
(runs with their leases, transcript with outbox, fires with runs and locks).
