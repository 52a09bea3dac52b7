-------------------------- MODULE SandboxMigration -------------------------
(***************************************************************************)
(* Moving the home of a scope from one backend to another (migrateScope),  *)
(* by copying it or through a snapshot, while turns of the scope go on.    *)
(* A turn works on the computer it got when it began; it may have picked   *)
(* the old one through a cached route.                                     *)
(*                                                                         *)
(* A home is the set of the writes it holds.                               *)
(*                                                                         *)
(*   home    of "from" and "to";  route: where new turns go                *)
(*   mig     the migration: its place, its strategy, what it has packed,   *)
(*           the home when it began, whether this is the second pass, and  *)
(*           whether it resumes from a snapshot staged by an earlier try   *)
(*   turn    of each write: waiting, the computer it works on, or done     *)
(*   early   history: writes made before the last look at the old home     *)
(*   blobs   the snapshots staged so far                                   *)
(***************************************************************************)
EXTENDS Naturals, FiniteSets

CONSTANTS Writes, Strategies, MaxTries

VARIABLES home, route, mig, turn, early, blobs, tries

vars == <<home, route, mig, turn, early, blobs, tries>>

NoMigration == [pc |-> "idle", strategy |-> "copy", packed |-> {}, base |-> {}, again |-> FALSE,
                resume |-> FALSE]

Init ==
    /\ home = [b \in {"from", "to"} |-> {}]
    /\ route = "from"
    /\ mig = NoMigration
    /\ turn = [w \in Writes |-> "waiting"]
    /\ early = {} /\ blobs = {}
    /\ tries = 0

Goto(pc) == mig' = [mig EXCEPT !.pc = pc]

\* A turn provisions its computer.
Pick(w) ==
    /\ turn[w] = "waiting"
    /\ \E b \in {route, "from"} : turn' = [turn EXCEPT ![w] = b]
    /\ UNCHANGED <<home, route, mig, early, blobs, tries>>

Write(w) ==
    /\ turn[w] \in {"from", "to"}
    /\ home' = [home EXCEPT ![turn[w]] = @ \cup {w}]
    /\ turn' = [turn EXCEPT ![w] = "done"]
    /\ early' = IF turn[w] = "from" /\ mig.pc \notin {"park", "done"} /\ ~mig.again THEN early \cup {w} ELSE early
    /\ UNCHANGED <<route, mig, blobs, tries>>

\* The guards of migrate; refused when the scope is already there.
Begin ==
    /\ mig.pc = "idle" /\ route = "from" /\ tries < MaxTries
    /\ tries' = tries + 1
    /\ \E s \in Strategies : mig' = [NoMigration EXCEPT !.pc = "pack", !.strategy = s, !.base = home["from"]]
    /\ UNCHANGED <<home, route, turn, early, blobs>>

\* An administrator names a snapshot that an earlier try staged: nothing is packed.
Resume ==
    /\ mig.pc = "idle" /\ route = "from" /\ tries < MaxTries /\ "snapshot" \in Strategies
    /\ tries' = tries + 1
    /\ \E b \in blobs : mig' = [NoMigration EXCEPT !.pc = "extract", !.strategy = "snapshot", !.packed = b,
                                                   !.base = home["from"], !.resume = TRUE]
    /\ UNCHANGED <<home, route, turn, early, blobs>>

\* The old home is packed, and a snapshot of it staged.
Pack ==
    /\ mig.pc = "pack"
    /\ mig' = [mig EXCEPT !.pc = "extract", !.packed = home["from"]]
    /\ blobs' = IF mig.strategy = "snapshot" THEN blobs \cup {home["from"]} ELSE blobs
    /\ UNCHANGED <<home, route, turn, early, tries>>

\* The copy is verified and unpacked over the new home.
Extract ==
    /\ mig.pc = "extract" /\ mig.strategy = "copy"
    /\ home' = [home EXCEPT !["to"] = @ \cup mig.packed]
    /\ Goto("flip")
    /\ UNCHANGED <<route, turn, early, blobs, tries>>

\* The snapshot becomes the new home, which is counted and kept; a resumed one is not looked behind.
Adopt ==
    /\ mig.pc = "extract" /\ mig.strategy = "snapshot"
    /\ home' = [home EXCEPT !["to"] = mig.packed]
    /\ Goto(IF mig.again \/ mig.resume THEN "flip" ELSE "check")
    /\ UNCHANGED <<route, turn, early, blobs, tries>>

\* A copy is routed to before the old home is looked at again.
FlipCopy ==
    /\ mig.pc = "flip" /\ mig.strategy = "copy"
    /\ route' = "to"
    /\ Goto(IF mig.again THEN "park" ELSE "check")
    /\ UNCHANGED <<home, turn, early, blobs, tries>>

\* A snapshot is routed to last.
FlipSnapshot ==
    /\ mig.pc = "flip" /\ mig.strategy = "snapshot"
    /\ route' = "to"
    /\ Goto("park")
    /\ UNCHANGED <<home, turn, early, blobs, tries>>

\* Something on the old computer is newer than the migration.
Changed == home["from"] \ mig.base # {}

\* What was written meanwhile is copied again.
Check ==
    /\ mig.pc = "check"
    /\ mig' = [mig EXCEPT !.again = TRUE,
                  !.pc = IF Changed THEN "pack" ELSE IF mig.strategy = "copy" THEN "park" ELSE "flip"]
    /\ UNCHANGED <<home, route, turn, early, blobs, tries>>

Park ==
    /\ mig.pc = "park"
    /\ Goto("done")
    /\ UNCHANGED <<home, route, turn, early, blobs, tries>>

\* A step fails: an unverified snapshot target is destroyed.
Fail ==
    /\ mig.pc \in {"pack", "extract", "flip", "check"}
    /\ mig' = NoMigration
    /\ home' = IF mig.strategy = "snapshot" /\ mig.pc = "extract" THEN [home EXCEPT !["to"] = {}] ELSE home
    /\ UNCHANGED <<route, turn, early, blobs, tries>>

Next ==
    \/ \E w \in Writes : Pick(w) \/ Write(w)
    \/ Begin \/ Resume \/ Pack \/ Extract \/ Adopt \/ FlipCopy \/ FlipSnapshot \/ Check \/ Park \/ Fail

Spec == Init /\ [][Next]_vars

\* New turns are routed to a home that has what the old one had when the
\* migration began, or what the snapshot had that was resumed from.
RoutedHasHome ==
    [][route' # route => (IF mig.resume THEN mig.packed ELSE mig.base) \subseteq home'["to"]]_vars

\* A migration that completes has every write that was made on the old
\* computer before the last copy, unless it was resumed.
EarlyWritesArrive == mig.pc = "done" /\ ~mig.resume => early \subseteq home["to"]
=============================================================================
