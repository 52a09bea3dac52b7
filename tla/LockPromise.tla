----------------------------- MODULE LockPromise ----------------------------
(***************************************************************************)
(* What an advisory lock promises (AdvisoryLock of                          *)
(* src/persistence/advisory-lock.ts), for one key: a body runs alone, or     *)
(* with other bodies that all asked for the lock shared.                   *)
(***************************************************************************)
CONSTANT Callers

VARIABLE holds      \* holds[c]: how the caller's body holds the lock now

Modes == {"shared", "exclusive"}

\* withLock's bodies run alone; withSharedLock's run together.
Compatible(a, b) == a = "shared" /\ b = "shared"

Init == holds = [c \in Callers |-> "none"]

Enter(c, mode) ==
    /\ holds[c] = "none"
    /\ \A d \in Callers : holds[d] # "none" => Compatible(mode, holds[d])
    /\ holds' = [holds EXCEPT ![c] = mode]

\* Bodies stop holding the lock: one that ends, or all that shared a connection that broke.
Leave(S) ==
    /\ \A c \in S : holds[c] # "none"
    /\ holds' = [c \in Callers |-> IF c \in S THEN "none" ELSE holds[c]]

Next ==
    \/ \E c \in Callers, mode \in Modes : Enter(c, mode)
    \/ \E S \in SUBSET Callers : Leave(S)

Spec == Init /\ [][Next]_holds
=============================================================================
