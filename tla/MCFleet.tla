------------------------------- MODULE MCFleet -------------------------------
(***************************************************************************)
(* The processes of a deployment and what they share: the hand-over of       *)
(* background work from one deployment to the next, at three scales, the     *)
(* leases that elect a leader, the listener of the notification channels and *)
(* the session locks. A behaviour is of one part, and the others stay as     *)
(* they start.                                                               *)
(***************************************************************************)
EXTENDS BackgroundOwnership, TLC

CONSTANTS None, b1, b2, b3, bell, blue, c1, c2, c3, cast, green, h1, h2, h3, h4, k1, k2, kid, late,
          new1, newTask, none, old1, oldTask, p1, p2, root, s1, s2

VARIABLES
    part,      \* the component a behaviour is of; the others stay as they start
    held, conn, state, leaderLocks, lost, leaderPc, entry, told, leaderFaults,
    local, stop, current, opened, lst, heard, inflight, stale, turns, listenerFaults,
    locksPc, kind, lease, references, keys, locksLocks, alive, breaks

\* What a behaviour of the hand-over may use: transitions of the record, failing calls, and
\* whether every process stays alive.
Scale == [
    deaths   |-> [generation |-> 1, faults |-> 0, alive |-> FALSE],
    faults   |-> [generation |-> 1, faults |-> 1, alive |-> TRUE],
    rollback |-> [generation |-> 2, faults |-> 0, alive |-> TRUE]]

Within(scale) ==
    /\ own.generation <= scale.generation /\ faults <= scale.faults
    /\ scale.alive => \A i \in Instances : life[i] # "down" /\ (life[i] = "up" => ctl[i].running)

FleetNext(scale) == Next /\ Within(scale)'

\* One process of the old deployment, which boots with background work on, and one of the new.
MCDeployment == (old1 :> blue) @@ (new1 :> green)
MCTask == (old1 :> oldTask) @@ (new1 :> newTask)

\* Three holds of one process, two of them of the same key, and one of another process.
LeaseProcess == [h \in {h1, h2, h3, h4} |-> IF h = h4 THEN p2 ELSE p1]
LeaseKey == [h \in {h1, h2, h3, h4} |-> IF h = h3 THEN k2 ELSE k1]

\* Two buses that share a channel and one that has its own, each with a client.
ListenerChannel == [b \in {b1, b2, b3} |-> IF b = b3 THEN bell ELSE cast]
ListenerBus == (c1 :> b1) @@ (c2 :> b2) @@ (c3 :> b3)

\* A root caller, and two callers nested in it that want another key, one of them
\* awaited.
LockParent == [c \in {root, kid, late} |-> IF c \in {kid, late} THEN root ELSE none]
LockKey == [c \in {root, kid, late} |-> IF c = root THEN k1 ELSE k2]

leaderVars ==
    <<held, conn, state, leaderLocks, lost, leaderPc, entry, told, leaderFaults>>

listenerVars ==
    <<local, stop, current, opened, lst, heard, inflight, stale, turns, listenerFaults>>

locksVars ==
    <<locksPc, kind, lease, references, keys, locksLocks, alive, breaks>>

\* Two processes, two keys, two connections in the pool and a fault.
Leader == INSTANCE LeaderLease WITH
    Processes <- {p1, p2}, LeaseKeys <- {k1, k2}, Holds <- {h1, h2, h3, h4},
    ProcessOf <- LeaseProcess, KeyOf <- LeaseKey, MaxConns <- 2, MaxFaults <- 1,
    locks <- leaderLocks, pc <- leaderPc, faults <- leaderFaults

\* Three buses over two channels, two listeners at most, and a fault.
Listener == INSTANCE ChannelListener WITH
    Buses <- {b1, b2, b3}, Clients <- {c1, c2, c3}, Channels <- {cast, bell},
    ChannelOf <- ListenerChannel, BusOf <- ListenerBus, MaxListeners <- 2, MaxTurns <- 4,
    MaxFaults <- 1, faults <- listenerFaults

\* Three callers, a pool of two sessions, and one connection that breaks.
Locks == INSTANCE SessionLocks WITH
    Callers <- {root, kid, late}, Sessions <- {s1, s2}, Keys <- {k1, k2}, Parent <- LockParent,
    KeyOf <- LockKey, Awaited <- {kid}, None <- none, MaxBreaks <- 1, pc <- locksPc,
    locks <- locksLocks

\* A behaviour is of one part.
InitParts ==
    /\ part \in {"deaths", "faults", "rollback", "leader", "listener", "locks"}
    /\ Init
    /\ Leader!Init
    /\ Listener!Init
    /\ Locks!Init

\* Only its component takes steps.
NextParts ==
    \/ /\ part = "deaths" /\ FleetNext(Scale.deaths)
       /\ UNCHANGED <<part, leaderVars, listenerVars, locksVars>>
    \/ /\ part = "faults" /\ FleetNext(Scale.faults)
       /\ UNCHANGED <<part, leaderVars, listenerVars, locksVars>>
    \/ /\ part = "rollback" /\ FleetNext(Scale.rollback)
       /\ UNCHANGED <<part, leaderVars, listenerVars, locksVars>>
    \/ /\ part = "leader" /\ Leader!Next
       /\ UNCHANGED <<part, vars, listenerVars, locksVars>>
    \/ /\ part = "listener" /\ Listener!Next
       /\ UNCHANGED <<part, vars, leaderVars, locksVars>>
    \/ /\ part = "locks" /\ Locks!Next
       /\ UNCHANGED <<part, vars, leaderVars, listenerVars>>

allVars ==
    <<part, vars, leaderVars, listenerVars, locksVars>>

SpecParts == InitParts /\ [][NextParts]_allVars

\* Whoever leads, or runs the body of a lock, holds its key while its connection lives; a
\* connection goes back to its pool without a lock, a lease or a listener on it, none is kept
\* that nobody uses, and a closed listener's connection is given up.
HeldThenFreed ==
    /\ part = "leader" => Leader!TypeOK /\ Leader!OneLeader /\ Leader!ReturnedClean /\ Leader!NoneHoarded
    /\ part = "listener" => Listener!TypeOK /\ Listener!ClosedIsFreed
    /\ part = "locks" => Locks!TypeOK /\ Locks!BodyHoldsLock /\ Locks!CleanPool

\* A subscription that was told it is ready is listened for, or is told again once it is.
ReadyIsHeard ==
    /\ part = "listener" => Listener!TypeOK /\ Listener!ReadyIsHeard

\* The session locks implement the reader-writer lock their callers rely on.
LocksKeepPromise == Locks!KeepsPromise
=============================================================================
