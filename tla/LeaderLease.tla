----------------------------- MODULE LeaderLease ----------------------------
(***************************************************************************)
(* createPostgresLeaderLease (src/persistence/leader-lease.ts).  All the      *)
(* leases a process holds live on one connection of the session pool, opened   *)
(* for the first and given back after the last.  When the connection breaks,   *)
(* every body that runs under it is told.                                    *)
(***************************************************************************)
EXTENDS Naturals, FiniteSets

CONSTANTS
    Processes,
    LeaseKeys,
    Holds,         \* the calls of hold
    ProcessOf,     \* ProcessOf[h], KeyOf[h]: who calls, for which lease
    KeyOf,
    MaxConns,      \* bound: connections a process opens
    MaxFaults,     \* bound: connections that break or cannot be opened
    None           \* no connection

Conns == Processes \X (1 .. MaxConns)

\* Every call is of a process and about a key, and None is not a connection.
ASSUME LeaseAssumption ==
    /\ ProcessOf \in [Holds -> Processes] /\ KeyOf \in [Holds -> LeaseKeys]
    /\ MaxConns \in Nat /\ MaxFaults \in Nat /\ None \notin Conns

VARIABLES
    held,          \* held[p]: the keys the process's calls are about
    conn,          \* conn[p]: the connection entry in use, or None
    state,         \* state[e]: the life of a connection
    locks,         \* locks[e]: the keys Postgres holds for its session
    lost,          \* lost[e]: the calls to tell when it breaks
    pc,            \* pc[h]: where the call is
    entry,         \* entry[h]: the connection entry it took
    told,          \* told[h]: its body was told that the lease is lost
    faults

vars == <<held, conn, state, locks, lost, pc, entry, told, faults>>

\* Every variable has a value of its type.
TypeOK ==
    /\ held \in [Processes -> SUBSET LeaseKeys]
    /\ conn \in [Processes -> Conns \cup {None}] /\ \A p \in Processes : conn[p] # None => conn[p][1] = p
    /\ state \in [Conns -> {"unused", "opening", "up", "broken", "returned", "gone"}]
    /\ locks \in [Conns -> SUBSET LeaseKeys]
    /\ lost \in [Conns -> SUBSET Holds]
    /\ pc \in [Holds -> {"idle", "opening", "asking", "inside", "unlocking", "leaving", "left", "over"}]
    /\ entry \in [Holds -> Conns \cup {None}]
    /\ told \in [Holds -> BOOLEAN]
    /\ faults \in 0 .. MaxFaults

Init ==
    /\ held = [p \in Processes |-> {}]
    /\ conn = [p \in Processes |-> None]
    /\ state = [e \in Conns |-> "unused"]
    /\ locks = [e \in Conns |-> {}]
    /\ lost = [e \in Conns |-> {}]
    /\ pc = [h \in Holds |-> "idle"]
    /\ entry = [h \in Holds |-> None]
    /\ told = [h \in Holds |-> FALSE]
    /\ faults = 0

Go(h, to) == pc' = [pc EXCEPT ![h] = to]

\* The key is already held in this process: the answer is null.
HoldTwice(h) ==
    /\ pc[h] = "idle"
    /\ KeyOf[h] \in held[ProcessOf[h]]
    /\ Go(h, "over")
    /\ UNCHANGED <<held, conn, state, locks, lost, entry, told, faults>>

\* hold and client: the call joins the process's connection.
HoldJoins(h) ==
    LET p == ProcessOf[h]
    IN  /\ pc[h] = "idle"
        /\ KeyOf[h] \notin held[p]
        /\ conn[p] # None
        /\ held' = [held EXCEPT ![p] = @ \cup {KeyOf[h]}]
        /\ entry' = [entry EXCEPT ![h] = conn[p]]
        /\ Go(h, "opening")
        /\ UNCHANGED <<conn, state, locks, lost, told, faults>>

\* hold and client: there is none, so one is opened.
HoldOpens(h) ==
    LET p == ProcessOf[h]
    IN  /\ pc[h] = "idle"
        /\ KeyOf[h] \notin held[p]
        /\ conn[p] = None
        /\ \E e \in Conns :
            /\ e[1] = p /\ state[e] = "unused"
            /\ \A f \in Conns : f[1] = p /\ state[f] = "unused" => e[2] <= f[2]
            /\ conn' = [conn EXCEPT ![p] = e]
            /\ state' = [state EXCEPT ![e] = "opening"]
            /\ entry' = [entry EXCEPT ![h] = e]
        /\ held' = [held EXCEPT ![p] = @ \cup {KeyOf[h]}]
        /\ Go(h, "opening")
        /\ UNCHANGED <<locks, lost, told, faults>>

\* The pool hands out the connection.
Opened(e) ==
    /\ state[e] = "opening"
    /\ state' = [state EXCEPT ![e] = "up"]
    /\ UNCHANGED <<held, conn, locks, lost, pc, entry, told, faults>>

\* It cannot: the entry is forgotten and the calls that await it throw.
OpenFails(e) ==
    /\ faults < MaxFaults /\ faults' = faults + 1
    /\ state[e] = "opening"
    /\ state' = [state EXCEPT ![e] = "gone"]
    /\ conn' = [p \in Processes |-> IF conn[p] = e THEN None ELSE conn[p]]
    /\ pc' = [h \in Holds |-> IF pc[h] = "opening" /\ entry[h] = e THEN "leaving" ELSE pc[h]]
    /\ UNCHANGED <<held, locks, lost, entry, told>>

\* The call has its client and sends pg_try_advisory_lock.
Asks(h) ==
    /\ pc[h] = "opening"
    /\ state[entry[h]] \notin {"opening", "unused"}
    /\ Go(h, "asking")
    /\ UNCHANGED <<held, conn, state, locks, lost, entry, told, faults>>

\* Mutant of Drop: the bodies under the connection are not told.
DropSilent(e, destroy) ==
    IF conn[e[1]] = e
    THEN /\ conn' = [conn EXCEPT ![e[1]] = None]
         /\ lost' = [lost EXCEPT ![e] = {}]
         /\ state' = [state EXCEPT ![e] = IF destroy THEN "gone" ELSE "returned"]
         /\ locks' = [locks EXCEPT ![e] = IF destroy THEN {} ELSE @]
         /\ UNCHANGED told
    ELSE UNCHANGED <<conn, told, lost, state, locks>>

\* drop: the process lets go of the entry, tells the bodies under it, and ends or returns the client.
Drop(e, destroy) ==
    IF conn[e[1]] = e
    THEN /\ conn' = [conn EXCEPT ![e[1]] = None]
         /\ told' = [h \in Holds |-> told[h] \/ h \in lost[e]]
         /\ lost' = [lost EXCEPT ![e] = {}]
         /\ state' = [state EXCEPT ![e] = IF destroy THEN "gone" ELSE "returned"]
         /\ locks' = [locks EXCEPT ![e] = IF destroy THEN {} ELSE @]
    ELSE UNCHANGED <<conn, told, lost, state, locks>>

\* Postgres grants the lease: the body runs, registered to be told.
Won(h) ==
    LET e == entry[h]
    IN  /\ pc[h] = "asking" /\ state[e] = "up"
        /\ \A f \in Conns \ {e} : KeyOf[h] \notin locks[f]
        /\ locks' = [locks EXCEPT ![e] = @ \cup {KeyOf[h]}]
        /\ lost' = [lost EXCEPT ![e] = @ \cup {h}]
        /\ Go(h, "inside")
        /\ UNCHANGED <<held, conn, state, entry, told, faults>>

\* Another process has it.
NotWon(h) ==
    /\ pc[h] = "asking" /\ state[entry[h]] = "up"
    /\ \E f \in Conns \ {entry[h]} : KeyOf[h] \in locks[f]
    /\ Go(h, "leaving")
    /\ UNCHANGED <<held, conn, state, locks, lost, entry, told, faults>>

\* The query fails with its connection, which is dropped.
AskFails(h) ==
    /\ pc[h] = "asking" /\ state[entry[h]] \in {"broken", "gone", "returned"}
    /\ Drop(entry[h], TRUE)
    /\ Go(h, "leaving")
    /\ UNCHANGED <<held, entry, faults>>

\* The body ends.
Ends(h) ==
    /\ pc[h] = "inside"
    /\ lost' = [lost EXCEPT ![entry[h]] = @ \ {h}]
    /\ Go(h, "unlocking")
    /\ UNCHANGED <<held, conn, state, locks, entry, told, faults>>

\* pg_advisory_unlock frees the lease.
Unlocked(h) ==
    /\ pc[h] = "unlocking" /\ state[entry[h]] = "up"
    /\ locks' = [locks EXCEPT ![entry[h]] = @ \ {KeyOf[h]}]
    /\ Go(h, "leaving")
    /\ UNCHANGED <<held, conn, state, lost, entry, told, faults>>

\* The unlock fails with its connection, which is dropped.
UnlockFails(h) ==
    /\ pc[h] = "unlocking" /\ state[entry[h]] \in {"broken", "gone", "returned"}
    /\ Drop(entry[h], TRUE)
    /\ Go(h, "leaving")
    /\ UNCHANGED <<held, entry, faults>>

\* held.delete(key), and the check of the connection is scheduled.
Leaves(h) ==
    /\ pc[h] = "leaving"
    /\ held' = [held EXCEPT ![ProcessOf[h]] = @ \ {KeyOf[h]}]
    /\ Go(h, "left")
    /\ UNCHANGED <<conn, state, locks, lost, entry, told, faults>>

\* With nothing held any more the connection goes back to the pool.
Tidies(h) ==
    /\ pc[h] = "left"
    /\ IF held[ProcessOf[h]] = {} /\ state[entry[h]] # "gone"
       THEN Drop(entry[h], FALSE)
       ELSE UNCHANGED <<conn, told, lost, state, locks>>
    /\ Go(h, "over")
    /\ UNCHANGED <<held, entry, faults>>

\* Postgres ends the session; the process has not heard of it yet.
Break(e) ==
    /\ faults < MaxFaults /\ faults' = faults + 1
    /\ state[e] = "up"
    /\ state' = [state EXCEPT ![e] = "broken"]
    /\ locks' = [locks EXCEPT ![e] = {}]
    /\ UNCHANGED <<held, conn, lost, pc, entry, told>>

\* The client's error event.
ErrorEvent(e) ==
    /\ state[e] = "broken" /\ conn[e[1]] = e
    /\ Drop(e, TRUE)
    /\ UNCHANGED <<held, pc, entry, faults>>

CallStep(h) ==
    \/ Asks(h) \/ Won(h) \/ NotWon(h) \/ AskFails(h) \/ Unlocked(h) \/ UnlockFails(h) \/ Leaves(h) \/ Tidies(h)

Next ==
    \/ \E h \in Holds : HoldTwice(h) \/ HoldJoins(h) \/ HoldOpens(h) \/ CallStep(h) \/ Ends(h)
    \/ \E e \in Conns : Opened(e) \/ OpenFails(e) \/ Break(e) \/ ErrorEvent(e)

Spec == Init /\ [][Next]_vars

\* Connections open or fail, queries are answered and a broken socket is noticed.
FairSpec ==
    /\ Spec
    /\ \A h \in Holds : WF_vars(CallStep(h))
    /\ \A e \in Conns : WF_vars(Opened(e)) /\ WF_vars(ErrorEvent(e))

(* ---- properties --------------------------------------------------------- *)

\* Two bodies run under one lease only when the connection of one of them is gone: it has been
\* told, or its process has yet to notice.
OneLeader ==
    \A g, h \in Holds :
        g # h /\ pc[g] = "inside" /\ pc[h] = "inside" /\ KeyOf[g] = KeyOf[h]
            => \E x \in {g, h} : told[x] \/ state[entry[x]] = "broken"

\* No connection goes back to the pool with a lease on it, nor under a body that relies on it.
ReturnedClean ==
    \A e \in Conns :
        state[e] = "returned" => locks[e] = {} /\ \A h \in Holds : entry[h] = e => pc[h] # "inside"

\* A process that holds nothing keeps no connection, so idle leaders do not drain the pool; only a
\* process that lost another connection meanwhile may keep one until its next call.
NoneHoarded ==
    \A p \in Processes :
        (\A h \in Holds : ProcessOf[h] = p => pc[h] \in {"idle", "over"})
            => conn[p] = None \/ \E e \in Conns : e[1] = p /\ state[e] = "gone"

\* A body whose connection broke ends or is told.
LosersAreTold ==
    \A h \in Holds :
        pc[h] = "inside" /\ state[entry[h]] = "broken" ~> told[h] \/ pc[h] # "inside"
=============================================================================
