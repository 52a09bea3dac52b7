---------------------------- MODULE SessionLocks ----------------------------
(***************************************************************************)
(* createPostgresAdvisoryLock (src/persistence/advisory-lock.ts).  A call    *)
(* takes a connection of the session pool, or, when it is made inside         *)
(* another call's body, shares that call's connection.  Postgres grants a     *)
(* session a lock it already holds, so calls that share a connection keep     *)
(* each other out with reservations in memory.                             *)
(***************************************************************************)
EXTENDS Naturals, FiniteSets

CONSTANTS
    Callers,       \* the calls of run
    Sessions,      \* the connections the pools may open
    Keys,          \* the locks' keys
    Parent,        \* Parent[c]: the call in whose body c is made, or None
    KeyOf,         \* KeyOf[c]: the key it asks for
    Awaited,       \* the calls their parent's body awaits; the others may outlive it
    None,          \* no call, no connection, no reservation
    MaxBreaks      \* bound: how many connections break

VARIABLES
    pc,            \* pc[c]: where the call is
    kind,          \* kind[c]: withLock, withSharedLock or tryWithLock
    lease,         \* lease[c]: the connection of the call's attempt, or None
    references,    \* references[s]: the attempts that use the connection; 0 when the pool has it
    keys,          \* keys[s][k]: the reservation of k among the connection's calls, or None
    locks,         \* locks[s][k]: what Postgres counts for the session
    alive,         \* alive[s]: the connection is up
    breaks         \* connections that broke

vars == <<pc, kind, lease, references, keys, locks, alive, breaks>>

Kinds == {"lock", "shared", "try"}

Mode(c) == IF kind[c] = "shared" THEN "shared" ELSE "exclusive"

Free == [shared |-> 0, exclusive |-> 0]

\* Every variable has a value of its type.
TypeOK ==
    /\ pc \in [Callers -> {"idle", "asked", "reserved", "inside", "unlocking", "unlocked",
                           "done", "refused", "failed"}]
    /\ kind \in [Callers -> Kinds]
    /\ lease \in [Callers -> Sessions \cup {None}]
    /\ references \in [Sessions -> 0 .. Cardinality(Callers)]
    /\ \A s \in Sessions, k \in Keys :
        /\ keys[s][k] # None => /\ keys[s][k].mode \in {"shared", "exclusive"}
                                /\ keys[s][k].count \in 1 .. Cardinality(Callers)
        /\ locks[s][k].shared \in 0 .. Cardinality(Callers)
        /\ locks[s][k].exclusive \in 0 .. Cardinality(Callers)
    /\ alive \in [Sessions -> BOOLEAN]
    /\ breaks \in 0 .. MaxBreaks

Init ==
    /\ pc = [c \in Callers |-> "idle"]
    /\ kind = [c \in Callers |-> "lock"]
    /\ lease = [c \in Callers |-> None]
    /\ references = [s \in Sessions |-> 0]
    /\ keys = [s \in Sessions |-> [k \in Keys |-> None]]
    /\ locks = [s \in Sessions |-> [k \in Keys |-> Free]]
    /\ alive = [s \in Sessions |-> TRUE]
    /\ breaks = 0

\* A body runs, or ran, with the call's lease in its async context.
Entered(p) == pc[p] \in {"inside", "unlocking", "unlocked", "done"}

\* lease.active of the call a body inherits: its attempt is not over.
Active(p) == p # None /\ pc[p] \in {"inside", "unlocking", "unlocked"}

\* withLock, withSharedLock or tryWithLock is called, from a body or after it.
Call(c, kd) ==
    /\ pc[c] = "idle"
    /\ Parent[c] # None => Entered(Parent[c])
    /\ pc' = [pc EXCEPT ![c] = "asked"]
    /\ kind' = [kind EXCEPT ![c] = kd]
    /\ UNCHANGED <<lease, references, keys, locks, alive, breaks>>

\* The reservation the connection's calls have, with one more call in it.
Reserved(r, m) == IF r = None THEN [mode |-> m, count |-> 1] ELSE [r EXCEPT !.count = @ + 1]

\* Mutant of Taken: the lock is left to Postgres, which grants it to the session again.
TakenByOthers(s, k, m) == FALSE

\* keys.get(key) keeps this call out: it is not shared with shared.
Taken(s, k, m) == keys[s][k] # None /\ ~(m = "shared" /\ keys[s][k].mode = "shared")

\* An attempt begins on a connection: it is referenced and the key reserved.
Begin(c, s) ==
    /\ pc' = [pc EXCEPT ![c] = "reserved"]
    /\ lease' = [lease EXCEPT ![c] = s]
    /\ references' = [references EXCEPT ![s] = @ + 1]
    /\ keys' = [keys EXCEPT ![s][KeyOf[c]] = Reserved(@, Mode(c))]
    /\ UNCHANGED <<kind, locks, alive, breaks>>

\* An attempt inside an active body uses that body's connection.
Reuse(c) ==
    /\ pc[c] = "asked"
    /\ Active(Parent[c])
    /\ ~Taken(lease[Parent[c]], KeyOf[c], Mode(c))
    /\ Begin(c, lease[Parent[c]])

\* What the caller does after an attempt that did not get the lock: poll again, or answer null.
Missed(c) == IF kind[c] = "try" THEN "refused" ELSE "asked"

\* A sibling on the connection has the key: the attempt ends without asking Postgres.
ReuseTaken(c) ==
    /\ pc[c] = "asked"
    /\ Active(Parent[c])
    /\ Taken(lease[Parent[c]], KeyOf[c], Mode(c))
    /\ pc' = [pc EXCEPT ![c] = Missed(c)]
    /\ UNCHANGED <<kind, lease, references, keys, locks, alive, breaks>>

\* Any other attempt takes a connection from the pool.
Connect(c) ==
    /\ pc[c] = "asked"
    /\ ~Active(Parent[c])
    /\ \E s \in Sessions :
        /\ references[s] = 0
        /\ Begin(c, s)

\* The pool has none to give within its timeout: the call throws.
ConnectTimesOut(c) ==
    /\ pc[c] = "asked"
    /\ ~Active(Parent[c])
    /\ \A s \in Sessions : references[s] > 0
    /\ pc' = [pc EXCEPT ![c] = "failed"]
    /\ UNCHANGED <<kind, lease, references, keys, locks, alive, breaks>>

\* pg_try_advisory_lock, pg_try_advisory_lock_shared: another session's lock is in the way.
Blocked(s, k, m) ==
    \E t \in Sessions \ {s} :
        locks[t][k].exclusive > 0 \/ (m = "exclusive" /\ locks[t][k].shared > 0)

\* The attempt ends: the reservation is dropped, and the last reference returns the connection.
Drop(c, to) ==
    LET s == lease[c]
        r == keys[s][KeyOf[c]]
    IN  /\ pc' = [pc EXCEPT ![c] = to]
        /\ lease' = [lease EXCEPT ![c] = None]
        /\ references' = [references EXCEPT ![s] = @ - 1]
        /\ keys' = [keys EXCEPT ![s][KeyOf[c]] =
                        IF r.count = 1 THEN None ELSE [r EXCEPT !.count = @ - 1]]
        /\ alive' = [alive EXCEPT ![s] = @ \/ references[s] = 1]
        /\ UNCHANGED <<kind, breaks>>

\* Postgres grants the lock: the body runs.
Locked(c) ==
    LET s == lease[c]
    IN  /\ pc[c] = "reserved"
        /\ alive[s]
        /\ ~Blocked(s, KeyOf[c], Mode(c))
        /\ pc' = [pc EXCEPT ![c] = "inside"]
        /\ locks' = [locks EXCEPT ![s][KeyOf[c]][Mode(c)] = @ + 1]
        /\ UNCHANGED <<kind, lease, references, keys, alive, breaks>>

\* Postgres refuses it.
NotLocked(c) ==
    /\ pc[c] = "reserved"
    /\ alive[lease[c]]
    /\ Blocked(lease[c], KeyOf[c], Mode(c))
    /\ Drop(c, Missed(c))
    /\ UNCHANGED locks

\* The connection broke before the answer: the call throws.
AskFails(c) ==
    /\ pc[c] = "reserved"
    /\ ~alive[lease[c]]
    /\ Drop(c, "failed")
    /\ UNCHANGED locks

\* The deadline passed while the lock was not to be had.
GiveUp(c) ==
    /\ pc[c] = "asked"
    /\ kind[c] # "try"
    /\ pc' = [pc EXCEPT ![c] = "failed"]
    /\ UNCHANGED <<kind, lease, references, keys, locks, alive, breaks>>

Underway(c) == pc[c] \in {"asked", "reserved", "inside", "unlocking", "unlocked"}

\* The body returns or throws, after the calls it awaits.
End(c) ==
    /\ pc[c] = "inside"
    /\ \A d \in Awaited : Parent[d] = c => ~Underway(d)
    /\ pc' = [pc EXCEPT ![c] = "unlocking"]
    /\ UNCHANGED <<kind, lease, references, keys, locks, alive, breaks>>

\* Mutant of Unlock: a shared lock is unlocked as an exclusive one, which Postgres ignores.
UnlockExclusive(c) ==
    /\ pc[c] = "unlocking"
    /\ alive[lease[c]]
    /\ pc' = [pc EXCEPT ![c] = "unlocked"]
    /\ locks' = IF Mode(c) = "shared" THEN locks
                ELSE [locks EXCEPT ![lease[c]][KeyOf[c]].exclusive = @ - 1]
    /\ UNCHANGED <<kind, lease, references, keys, alive, breaks>>

\* pg_advisory_unlock: one count less for the session.
Unlock(c) ==
    /\ pc[c] = "unlocking"
    /\ alive[lease[c]]
    /\ pc' = [pc EXCEPT ![c] = "unlocked"]
    /\ locks' = [locks EXCEPT ![lease[c]][KeyOf[c]][Mode(c)] = @ - 1]
    /\ UNCHANGED <<kind, lease, references, keys, alive, breaks>>

\* The unlock fails because the connection broke; Postgres had already freed the session's locks.
UnlockFails(c) ==
    /\ pc[c] = "unlocking"
    /\ ~alive[lease[c]]
    /\ pc' = [pc EXCEPT ![c] = "unlocked"]
    /\ UNCHANGED <<kind, lease, references, keys, locks, alive, breaks>>

\* The attempt is over: its lease is no longer active.
Release(c) ==
    /\ pc[c] = "unlocked"
    /\ Drop(c, "done")
    /\ UNCHANGED locks

\* A connection in use breaks: Postgres ends the session and frees its locks.
Break(s) ==
    /\ breaks < MaxBreaks
    /\ references[s] > 0 /\ alive[s]
    /\ breaks' = breaks + 1
    /\ alive' = [alive EXCEPT ![s] = FALSE]
    /\ locks' = [locks EXCEPT ![s] = [k \in Keys |-> Free]]
    /\ UNCHANGED <<pc, kind, lease, references, keys>>

Step(c) ==
    \/ Reuse(c) \/ ReuseTaken(c) \/ Connect(c) \/ ConnectTimesOut(c)
    \/ Locked(c) \/ NotLocked(c) \/ AskFails(c)
    \/ End(c) \/ Unlock(c) \/ UnlockFails(c) \/ Release(c)

Next ==
    \/ \E c \in Callers : (\E kd \in Kinds : Call(c, kd)) \/ Step(c) \/ GiveUp(c)
    \/ \E s \in Sessions : Break(s)

Spec == Init /\ [][Next]_vars

(* ---- properties --------------------------------------------------------- *)

\* How the calls hold key k now; a call whose connection broke holds nothing any more.
Holds(k) ==
    [c \in Callers |->
        IF pc[c] = "inside" /\ KeyOf[c] = k /\ alive[lease[c]] THEN Mode(c) ELSE "none"]

Promise(k) == INSTANCE LockPromise WITH holds <- Holds(k)

\* For every key the calls implement what an advisory lock promises: across connections, between
\* siblings on one connection, and for work that outlives the body it was started in.
KeepsPromise ==
    /\ \A k \in Keys : Promise(k)!Init
    /\ [][\A k \in Keys : UNCHANGED Holds(k) \/ Promise(k)!Next]_vars

\* A body's connection is out of the pool and holds its lock in Postgres, also when the body
\* that opened the connection ended before it.
BodyHoldsLock ==
    \A c \in Callers :
        pc[c] = "inside" /\ alive[lease[c]]
            => references[lease[c]] > 0 /\ locks[lease[c]][KeyOf[c]][Mode(c)] > 0

\* A connection goes back to the pool without locks and without reservations.
CleanPool ==
    \A s \in Sessions :
        references[s] = 0 => /\ alive[s]
                             /\ \A k \in Keys : locks[s][k] = Free /\ keys[s][k] = None
=============================================================================
