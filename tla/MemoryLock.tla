----------------------------- MODULE MemoryLock -----------------------------
(***************************************************************************)
(* createMemoryAdvisoryLock (src/persistence/advisory-lock.ts), for one     *)
(* key.  A state object holds the promise of the last exclusive caller       *)
(* (tail), the promises of the shared callers that are not done (readers),   *)
(* and how many callers hold on to it (pending); the last one out deletes    *)
(* it.  A caller takes what it must await when it asks, in one step.        *)
(***************************************************************************)
EXTENDS Naturals, FiniteSets

CONSTANTS
    Callers,     \* the calls of run: each asks once
    None         \* no state object; a tail that is resolved from the start

ASSUME CallersAssumption == IsFiniteSet(Callers)

\* The state objects of a key: states in createMemoryAdvisoryLock.
States == [tail : Callers \cup {None}, readers : SUBSET Callers, pending : Nat]

ASSUME NoneAssumption == None \notin Callers /\ None \notin States

VARIABLES
    state,       \* the key's state object, or None
    pc,          \* pc[c]: where the call is
    mode,        \* mode[c]: how it asked
    before,      \* before[c]: the callers whose promises it awaits
    arrived      \* history: the callers that asked before this one

vars == <<state, pc, mode, before, arrived>>

Modes == {"shared", "exclusive"}

Unfinished == {c \in Callers : pc[c] \in {"waiting", "inside"}}

Readers == {c \in Unfinished : mode[c] = "shared"}

\* Every variable has a value of its type.
TypeOK ==
    /\ state \in States \cup {None}
    /\ pc \in [Callers -> {"idle", "waiting", "inside", "done", "refused"}]
    /\ mode \in [Callers -> Modes]
    /\ before \in [Callers -> SUBSET Callers]
    /\ arrived \in [Callers -> SUBSET Callers]

Init ==
    /\ state = None
    /\ pc = [c \in Callers |-> "idle"]
    /\ mode = [c \in Callers |-> "shared"]
    /\ before = [c \in Callers |-> {}]
    /\ arrived = [c \in Callers |-> {}]

Fresh == [tail |-> None, readers |-> {}, pending |-> 0]

Found == IF state = None THEN Fresh ELSE state

\* Mutant of Before: a shared caller awaits nobody.
BeforeEager(m, s) == IF m = "exclusive" THEN ({s.tail} \cup s.readers) \ {None} ELSE {}

\* Mutant of Before: an exclusive caller forgets the readers.
BeforeTail(m, s) == {s.tail} \ {None}

\* The promises a new caller awaits.
Before(m, s) == ({s.tail} \cup (IF m = "exclusive" THEN s.readers ELSE {})) \ {None}

\* The state object with the new caller in it.
Joined(c, m, s) ==
    [tail |-> IF m = "exclusive" THEN c ELSE s.tail,
     readers |-> IF m = "shared" THEN s.readers \cup {c} ELSE s.readers,
     pending |-> s.pending + 1]

\* The state object without a caller that is done; a resolved tail stays.
Departed(c, s) == [tail |-> s.tail, readers |-> s.readers \ {c}, pending |-> s.pending - 1]

\* withLock and withSharedLock, up to the await.
Ask(c, m) ==
    /\ pc[c] = "idle"
    /\ pc' = [pc EXCEPT ![c] = "waiting"]
    /\ mode' = [mode EXCEPT ![c] = m]
    /\ before' = [before EXCEPT ![c] = Before(m, Found)]
    /\ state' = Joined(c, m, Found)
    /\ arrived' = [arrived EXCEPT ![c] = {d \in Callers : pc[d] # "idle"}]

\* tryWithLock finds the key in use.
Refuse(c) ==
    /\ pc[c] = "idle"
    /\ state # None
    /\ pc' = [pc EXCEPT ![c] = "refused"]
    /\ UNCHANGED <<state, mode, before, arrived>>

\* tryWithLock finds the key free.
Try(c) ==
    /\ state = None
    /\ Ask(c, "exclusive")

\* What it awaited is resolved: the body runs.
Start(c) ==
    /\ pc[c] = "waiting"
    /\ before[c] \cap Unfinished = {}
    /\ pc' = [pc EXCEPT ![c] = "inside"]
    /\ UNCHANGED <<state, mode, before, arrived>>

\* The body returned or threw: the promise resolves, and the last caller deletes the state.
Finish(c) ==
    /\ pc[c] = "inside"
    /\ pc' = [pc EXCEPT ![c] = "done"]
    /\ state' = IF state.pending = 1 THEN None ELSE Departed(c, state)
    /\ UNCHANGED <<mode, before, arrived>>

Next == \E c \in Callers : (\E m \in Modes : Ask(c, m)) \/ Refuse(c) \/ Try(c) \/ Start(c) \/ Finish(c)

Spec == Init /\ [][Next]_vars

\* A resolved promise's continuation runs, and the bodies end.
FairSpec == Spec /\ \A c \in Callers : WF_vars(Start(c)) /\ WF_vars(Finish(c))

(* ---- properties --------------------------------------------------------- *)

Holds == [c \in Callers |-> IF pc[c] = "inside" THEN mode[c] ELSE "none"]

Promise == INSTANCE LockPromise WITH holds <- Holds

\* The in-memory lock implements what an advisory lock promises.
KeepsPromise == Promise!Spec

\* A caller that asked is not overtaken by a conflicting caller that asked later: bodies start in
\* the order of their calls, so a stream of readers cannot keep a writer out.
NoOvertaking ==
    \A c, d \in Callers :
        pc[c] = "waiting" /\ pc[d] \in {"inside", "done"} /\ c \in arrived[d]
            => mode[c] = "shared" /\ mode[d] = "shared"

\* The state object is there exactly while somebody uses it: it is neither lost nor left behind.
StateIsUsed == (state # None) <=> (Unfinished # {})

\* Every caller that asked gets the lock.
Served == \A c \in Callers : pc[c] = "waiting" ~> pc[c] = "done"
=============================================================================
