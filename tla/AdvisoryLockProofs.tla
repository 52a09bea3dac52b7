------------------------- MODULE AdvisoryLockProofs -------------------------
(***************************************************************************)
(* Both advisory locks implement LockPromise.                              *)
(*                                                                         *)
(* The lock in memory (MemoryLock), for any number of callers: bodies start *)
(* in the order of their calls.  The inductive invariant says which callers *)
(* the state object names and whom a waiting caller awaits.                 *)
(*                                                                         *)
(* The lock in Postgres (SessionLocks), for any calls, keys and connections: *)
(* the inductive invariant says that what a connection and Postgres count   *)
(* is the calls that are there.                                            *)
(***************************************************************************)
EXTENDS MemoryLock, FiniteSetTheorems, TLAPS

\* Counting up, down and within a range.
LEMMA Arithmetic ==
  /\ \A n \in Nat : n + 1 # 0 /\ n + 1 \in Nat
  /\ \A n \in Nat : n > 0 => n - 1 \in Nat /\ (n - 1 = 0 => n = 1)
  /\ \A n, max \in Nat : 0 \in 0..max /\ (n <= max => n \in 0..max)
  /\ 0 + 1 = 1
OBVIOUS

\* A function with one value replaced.
LEMMA Replaced ==
  ASSUME NEW S, NEW T, NEW f \in [S -> T], NEW x \in S, NEW v \in T, NEW g, g = [f EXCEPT ![x] = v]
  PROVE  g \in [S -> T] /\ g[x] = v /\ \A y \in S \ {x} : g[y] = f[y]
OBVIOUS

(* ---- the lock in memory: any number of callers -------------------------- *)

Conflict(a, b) == mode[a] = "exclusive" \/ mode[b] = "exclusive"

\* Callers asked one after the other, and only callers that asked came before.
ArrivalOrder ==
    /\ \A a \in Callers : a \notin arrived[a]
    /\ \A a, b \in Callers : a \in arrived[b] => pc[a] # "idle" /\ pc[b] # "idle" /\ b \notin arrived[a]
    /\ \A a, b \in Unfinished : a # b => a \in arrived[b] \/ b \in arrived[a]
    /\ \A a, b, c \in Callers : a \in arrived[b] /\ b \in arrived[c] => a \in arrived[c]

\* The state object names the callers that use it.
StateNames ==
    /\ state = None <=> Unfinished = {}
    /\ state # None =>
        /\ state.pending = Cardinality(Unfinished)
        /\ state.readers = Readers
        /\ state.tail # None => pc[state.tail] # "idle" /\ mode[state.tail] = "exclusive"
        /\ \A a \in Unfinished : mode[a] = "exclusive" =>
            \/ a = state.tail
            \/ state.tail \in Unfinished /\ a \in arrived[state.tail]

\* A waiting caller awaits, for each earlier conflicting one, that one or an exclusive caller behind it.
AwaitsEarlier ==
    \A a, b \in Callers :
        pc[b] = "waiting" /\ a \in Unfinished /\ a \in arrived[b] /\ Conflict(a, b)
            => \E x \in before[b] \cap Unfinished : x = a \/ (mode[x] = "exclusive" /\ a \in arrived[x])

\* A body that started left no earlier conflicting caller unfinished.
StartedInOrder ==
    \A a, b \in Callers :
        a \in Unfinished /\ pc[b] \in {"inside", "done"} /\ a \in arrived[b] => ~Conflict(a, b)

IInv == TypeOK /\ ArrivalOrder /\ StateNames /\ AwaitsEarlier /\ StartedInOrder


\* The state object a new caller finds has nothing in it that the callers do not account for.
LEMMA FoundNames ==
    ASSUME IInv
    PROVE  /\ Found \in States
           /\ Found.pending = Cardinality(Unfinished)
           /\ Found.readers = Readers
           /\ Found.tail # None => pc[Found.tail] # "idle" /\ mode[Found.tail] = "exclusive"
           /\ \A a \in Unfinished : mode[a] = "exclusive" =>
                \/ a = Found.tail
                \/ Found.tail \in Unfinished /\ a \in arrived[Found.tail]
<1>1. CASE state = None
  <2>1. Unfinished = {} /\ Readers = {}
    BY <1>1 DEF IInv, StateNames, Readers
  <2>2. Found = [tail |-> None, readers |-> {}, pending |-> 0]
    BY <1>1 DEF Found, Fresh
  <2> QED  BY <2>1, <2>2, FS_EmptySet DEF States
<1>2. CASE state # None
  BY <1>2 DEF Found, IInv, TypeOK, StateNames
<1> QED  BY <1>1, <1>2

\* The callers that use the state object are finitely many.
LEMMA UnfinishedFinite == IsFiniteSet(Unfinished)
BY CallersAssumption, FS_Subset DEF Unfinished

\* The invariant holds initially.
LEMMA InitIInv == Init => IInv
<1> SUFFICES ASSUME Init PROVE IInv
  OBVIOUS
<1>1. Unfinished = {}
  BY DEF Init, Unfinished
<1> QED  BY <1>1 DEF Init, IInv, TypeOK, Modes, ArrivalOrder, StateNames, AwaitsEarlier, StartedInOrder

\* Asking keeps the invariant.
LEMMA AskIInv ==
    ASSUME IInv, NEW c \in Callers, NEW m \in Modes, Ask(c, m)
    PROVE  IInv'
<1> DEFINE s == Found
<1>1. /\ s \in States
      /\ s.pending = Cardinality(Unfinished)
      /\ s.readers = Readers
      /\ s.tail # None => pc[s.tail] # "idle" /\ mode[s.tail] = "exclusive"
      /\ \A a \in Unfinished : mode[a] = "exclusive" =>
            \/ a = s.tail
            \/ s.tail \in Unfinished /\ a \in arrived[s.tail]
  BY FoundNames
<1> HIDE DEF s
<1>2. /\ pc[c] = "idle"
      /\ pc' = [pc EXCEPT ![c] = "waiting"]
      /\ mode' = [mode EXCEPT ![c] = m]
      /\ before' = [before EXCEPT ![c] = Before(m, s)]
      /\ state' = Joined(c, m, s)
      /\ arrived' = [arrived EXCEPT ![c] = {d \in Callers : pc[d] # "idle"}]
  BY DEF Ask, s
<1>3. Before(m, s) \subseteq Callers
  BY <1>1, NoneAssumption DEF Before, States
<1>4. Joined(c, m, s) \in States
  BY <1>1 DEF Joined, States
<1>5. TypeOK'
  BY <1>2, <1>3, <1>4 DEF IInv, TypeOK
<1>6. Unfinished' = Unfinished \cup {c} /\ c \notin Unfinished
  BY <1>2 DEF Unfinished, IInv, TypeOK
<1>7. ArrivalOrder'
  BY <1>2, <1>6 DEF ArrivalOrder, IInv, TypeOK, Unfinished
<1>8. StateNames'
  <2>1. state' = Joined(c, m, s) /\ Joined(c, m, s) # None
    BY <1>2, <1>4, NoneAssumption
  <2>2. state'.pending = Cardinality(Unfinished')
    BY <1>1, <1>6, <2>1, UnfinishedFinite, FS_AddElement, ZenonT(40) DEF Joined
  <2>3. state'.readers = Readers'
    BY <1>1, <1>2, <1>6, <2>1 DEF Joined, Readers, IInv, TypeOK, Modes, Unfinished
  <2>4. state'.tail # None => pc'[state'.tail] # "idle" /\ mode'[state'.tail] = "exclusive"
    BY <1>1, <1>2, <2>1 DEF Joined, IInv, TypeOK, Modes
  <2>5. ASSUME NEW a \in Unfinished', mode'[a] = "exclusive"
        PROVE  a = state'.tail \/ (state'.tail \in Unfinished' /\ a \in arrived'[state'.tail])
    BY <1>1, <1>2, <1>6, <2>1, <2>5 DEF Joined, IInv, TypeOK, Modes, Unfinished
  <2> QED  BY <1>6, <2>1, <2>2, <2>3, <2>4, <2>5 DEF StateNames
<1>9. AwaitsEarlier'
  <2> SUFFICES ASSUME NEW a \in Callers, NEW b \in Callers,
                      pc'[b] = "waiting", a \in Unfinished', a \in arrived'[b], Conflict(a, b)'
               PROVE  \E x \in before'[b] \cap Unfinished' :
                          x = a \/ (mode'[x] = "exclusive" /\ a \in arrived'[x])
    BY DEF AwaitsEarlier
  <2>1. a # c
    BY <1>2 DEF IInv, ArrivalOrder, TypeOK
  <2>2. a \in Unfinished /\ mode'[a] = mode[a] /\ arrived'[a] = arrived[a]
    BY <1>2, <1>6, <2>1 DEF IInv, TypeOK
  <2>3. CASE b # c
    <3>1. PICK x \in before[b] \cap Unfinished : x = a \/ (mode[x] = "exclusive" /\ a \in arrived[x])
      BY <1>2, <2>2, <2>3 DEF IInv, AwaitsEarlier, Conflict, TypeOK
    <3> QED  BY <1>2, <1>6, <2>3, <3>1 DEF IInv, TypeOK
  <2>4. CASE b = c /\ mode[a] = "exclusive"
    <3>1. s.tail \in Unfinished /\ (a = s.tail \/ a \in arrived[s.tail])
      BY <1>1, <2>2, <2>4
    <3>2. s.tail \in Before(m, s) /\ mode[s.tail] = "exclusive" /\ s.tail \in Callers
      BY <1>1, <3>1, NoneAssumption DEF Before, Unfinished
    <3> QED  BY <1>2, <1>6, <2>4, <3>1, <3>2 DEF IInv, TypeOK
  <2>5. CASE b = c /\ mode[a] # "exclusive"
    <3>1. m = "exclusive"
      BY <1>2, <2>2, <2>5 DEF Conflict, IInv, TypeOK
    <3>2. a \in s.readers /\ a # None
      BY <1>1, <2>2, <2>5, NoneAssumption DEF Readers, IInv, TypeOK, Modes
    <3> QED  BY <1>2, <1>6, <2>2, <2>5, <3>1, <3>2 DEF Before, IInv, TypeOK
  <2> QED  BY <2>3, <2>4, <2>5
<1>10. StartedInOrder'
  BY <1>2, <1>6 DEF StartedInOrder, Conflict, IInv, TypeOK, ArrivalOrder
<1> QED  BY <1>5, <1>7, <1>8, <1>9, <1>10 DEF IInv


\* A refused tryWithLock keeps the invariant.
LEMMA RefuseIInv ==
    ASSUME IInv, NEW c \in Callers, Refuse(c)
    PROVE  IInv'
<1>1. Unfinished' = Unfinished /\ Readers' = Readers
  BY DEF Refuse, Unfinished, Readers, IInv, TypeOK
<1>2. TypeOK' /\ ArrivalOrder'
  BY <1>1 DEF Refuse, IInv, TypeOK, ArrivalOrder
<1>3. StateNames'
  BY <1>1 DEF Refuse, IInv, TypeOK, StateNames, States
<1>4. AwaitsEarlier' /\ StartedInOrder'
  BY <1>1 DEF Refuse, IInv, TypeOK, AwaitsEarlier, StartedInOrder, Conflict
<1> QED  BY <1>2, <1>3, <1>4 DEF IInv

\* A body that starts has no earlier conflicting caller before it.
LEMMA StartIInv ==
    ASSUME IInv, NEW c \in Callers, Start(c)
    PROVE  /\ IInv'
           /\ \A a \in Unfinished : a \in arrived[c] => ~Conflict(a, c)
<1>1. Unfinished' = Unfinished /\ Readers' = Readers
  BY DEF Start, Unfinished, Readers, IInv, TypeOK
<1>2. \A a \in Unfinished : a \in arrived[c] => ~Conflict(a, c)
  BY DEF Start, IInv, AwaitsEarlier, Unfinished
<1>3. TypeOK' /\ ArrivalOrder'
  BY <1>1 DEF Start, IInv, TypeOK, ArrivalOrder
<1>4. StateNames'
  BY <1>1 DEF Start, IInv, TypeOK, StateNames, States
<1>5. AwaitsEarlier'
  BY <1>1 DEF Start, IInv, TypeOK, AwaitsEarlier, Conflict
<1>6. StartedInOrder'
  BY <1>1, <1>2 DEF Start, IInv, TypeOK, StartedInOrder, Conflict
<1> QED  BY <1>2, <1>3, <1>4, <1>5, <1>6 DEF IInv

\* A body that ends keeps the invariant: nobody behind it loses what it must still await.
LEMMA FinishIInv ==
    ASSUME IInv, NEW c \in Callers, Finish(c)
    PROVE  IInv'
<1>1. Unfinished' = Unfinished \ {c} /\ c \in Unfinished /\ Readers' = Readers \ {c}
  BY DEF Finish, Unfinished, Readers, IInv, TypeOK
<1>2. state \in States /\ state.pending = Cardinality(Unfinished)
  BY <1>1 DEF IInv, TypeOK, StateNames
<1>3. Cardinality(Unfinished') = Cardinality(Unfinished) - 1 /\ Cardinality(Unfinished) \in Nat \ {0}
  BY <1>1, UnfinishedFinite, FS_RemoveElement, FS_EmptySet, FS_CardinalityType
<1>4. Unfinished' = {} <=> state.pending = 1
  BY <1>1, <1>2, <1>3, UnfinishedFinite, FS_RemoveElement, FS_EmptySet
<1>5. /\ state.pending = 1 => state' = None
      /\ state.pending # 1 =>
            /\ state' \in States
            /\ state'.tail = state.tail
            /\ state'.readers = state.readers \ {c}
            /\ state'.pending = state.pending - 1
  BY <1>2, <1>3 DEF Finish, Departed, States
<1>6. TypeOK'
  BY <1>5 DEF Finish, IInv, TypeOK
<1>7. ArrivalOrder'
  BY <1>1 DEF Finish, IInv, TypeOK, ArrivalOrder
<1>8. ASSUME NEW x \in Callers, NEW a \in Unfinished', a \in arrived[x], mode[x] = "exclusive"
      PROVE  x # c
  BY <1>1, <1>8 DEF Finish, IInv, StartedInOrder, Conflict, Unfinished
<1>9. StateNames'
  <2>1. CASE state.pending = 1
    BY <1>4, <1>5, <2>1 DEF StateNames
  <2>2. CASE state.pending # 1
    <3>1. state' # None /\ Unfinished' # {}
      BY <1>4, <1>5, <2>2, NoneAssumption
    <3>2. state # None
      BY <1>2, NoneAssumption
    <3>3. state'.pending = Cardinality(Unfinished') /\ state'.readers = Readers'
      BY <1>1, <1>2, <1>3, <1>5, <2>2, <3>2 DEF IInv, StateNames
    <3>4. state'.tail # None => pc'[state'.tail] # "idle" /\ mode'[state'.tail] = "exclusive"
      BY <1>2, <1>5, <2>2, <3>2 DEF Finish, IInv, TypeOK, StateNames, States
    <3>5. ASSUME NEW a \in Unfinished', mode'[a] = "exclusive"
          PROVE  a = state'.tail \/ (state'.tail \in Unfinished' /\ a \in arrived'[state'.tail])
      <4>1. a \in Unfinished /\ mode[a] = "exclusive"
        BY <1>1, <3>5 DEF Finish
      <4>2. CASE a = state.tail
        BY <1>5, <2>2, <4>2
      <4>3. CASE state.tail \in Unfinished /\ a \in arrived[state.tail]
        <5>1. state.tail \in Callers /\ state.tail # None /\ mode[state.tail] = "exclusive"
          BY <3>2, <4>3, NoneAssumption DEF Unfinished, IInv, StateNames
        <5>2. state.tail # c
          BY <1>8, <4>3, <5>1
        <5> QED  BY <1>1, <1>5, <2>2, <4>3, <5>2 DEF Finish
      <4> QED  BY <3>2, <4>1, <4>2, <4>3 DEF IInv, StateNames
    <3> QED  BY <3>1, <3>3, <3>4, <3>5 DEF StateNames
  <2> QED  BY <2>1, <2>2
<1>10. AwaitsEarlier'
  <2> SUFFICES ASSUME NEW a \in Callers, NEW b \in Callers,
                      pc'[b] = "waiting", a \in Unfinished', a \in arrived'[b], Conflict(a, b)'
               PROVE  \E x \in before'[b] \cap Unfinished' :
                          x = a \/ (mode'[x] = "exclusive" /\ a \in arrived'[x])
    BY DEF AwaitsEarlier
  <2>1. PICK x \in before[b] \cap Unfinished : x = a \/ (mode[x] = "exclusive" /\ a \in arrived[x])
    BY <1>1 DEF Finish, IInv, TypeOK, AwaitsEarlier, Conflict
  <2>2. x # c
    BY <1>1, <1>8, <2>1 DEF Unfinished
  <2> QED  BY <1>1, <2>1, <2>2 DEF Finish
<1>11. StartedInOrder'
  BY <1>1 DEF Finish, IInv, TypeOK, StartedInOrder, Conflict
<1> QED  BY <1>6, <1>7, <1>9, <1>10, <1>11 DEF IInv

\* IInv is inductive.
THEOREM Inductive == Spec => []IInv
<1>1. Init => IInv
  BY InitIInv
<1>2. IInv /\ [Next]_vars => IInv'
  <2> SUFFICES ASSUME IInv, [Next]_vars PROVE IInv'
    OBVIOUS
  <2>1. ASSUME NEW c \in Callers, NEW m \in Modes, Ask(c, m) PROVE IInv'
    BY <2>1, AskIInv
  <2>2. ASSUME NEW c \in Callers, Refuse(c) PROVE IInv'
    BY <2>2, RefuseIInv
  <2>3. ASSUME NEW c \in Callers, Try(c) PROVE IInv'
    BY <2>3, AskIInv DEF Try, Modes
  <2>4. ASSUME NEW c \in Callers, Start(c) PROVE IInv'
    BY <2>4, StartIInv
  <2>5. ASSUME NEW c \in Callers, Finish(c) PROVE IInv'
    BY <2>5, FinishIInv
  <2>6. CASE UNCHANGED vars
    BY <2>6 DEF vars, IInv, TypeOK, ArrivalOrder, StateNames, AwaitsEarlier, StartedInOrder, Conflict,
                Unfinished, Readers
  <2> QED  BY <2>1, <2>2, <2>3, <2>4, <2>5, <2>6 DEF Next
<1> QED  BY <1>1, <1>2, PTL DEF Spec

\* A caller that asked is never overtaken by a later conflicting caller (the promises run awaits).
THEOREM NobodyOvertakes == Spec => []NoOvertaking
<1>1. IInv => NoOvertaking
  BY DEF IInv, TypeOK, Modes, StartedInOrder, NoOvertaking, Unfinished, Conflict
<1> QED  BY <1>1, Inductive, PTL

\* The key's state object exists exactly while some caller uses it (states.delete in run).
THEOREM StateIsUsedAlways == Spec => []StateIsUsed
<1>1. IInv => StateIsUsed
  BY DEF IInv, StateNames, StateIsUsed
<1> QED  BY <1>1, Inductive, PTL

\* The in-memory lock implements the abstract lock, whatever the number of callers.
THEOREM ImplementsPromise == Spec => KeepsPromise
<1>1. Init => Promise!Init
  BY DEF Init, Promise!Init, Holds
<1>2. IInv /\ [Next]_vars => [Promise!Next]_Holds
  <2> SUFFICES ASSUME IInv, [Next]_vars PROVE [Promise!Next]_Holds
    OBVIOUS
  <2>1. ASSUME NEW c \in Callers, NEW m \in Modes, Ask(c, m) PROVE Holds' = Holds
    BY <2>1 DEF Ask, Holds, IInv, TypeOK
  <2>2. ASSUME NEW c \in Callers, Refuse(c) PROVE Holds' = Holds
    BY <2>2 DEF Refuse, Holds, IInv, TypeOK
  <2>3. ASSUME NEW c \in Callers, Try(c) PROVE Holds' = Holds
    BY <2>1, <2>3 DEF Try, Modes
  <2>4. ASSUME NEW c \in Callers, Start(c) PROVE Promise!Next
    <3>1. Holds' = [Holds EXCEPT ![c] = mode[c]] /\ Holds[c] = "none" /\ mode[c] \in Promise!Modes
      BY <2>4, ZenonT(40) DEF Start, Holds, IInv, TypeOK, Modes, Promise!Modes
    <3>2. ASSUME NEW d \in Callers, Holds[d] # "none" PROVE Promise!Compatible(mode[c], Holds[d])
      <4>1. pc[d] = "inside" /\ d # c /\ Holds[d] = mode[d] /\ d \in Unfinished /\ c \in Unfinished
        BY <2>4, <3>2 DEF Start, Holds, Unfinished
      <4>2. ~Conflict(d, c) /\ ~Conflict(c, d)
        BY <2>4, <4>1, StartIInv DEF IInv, ArrivalOrder, StartedInOrder, Conflict
      <4> QED  BY <4>1, <4>2 DEF Conflict, IInv, TypeOK, Modes, Promise!Compatible
    <3>3. Promise!Enter(c, mode[c])
      BY <3>1, <3>2 DEF Promise!Enter
    <3> QED  BY <3>1, <3>3 DEF Promise!Next
  <2>5. ASSUME NEW c \in Callers, Finish(c) PROVE Promise!Next
    <3>1. Holds[c] # "none" /\ Holds' = [d \in Callers |-> IF d \in {c} THEN "none" ELSE Holds[d]]
      BY <2>5 DEF Finish, Holds, IInv, TypeOK, Modes
    <3>2. Promise!Leave({c})
      BY <3>1 DEF Promise!Leave
    <3> QED  BY <3>2 DEF Promise!Next
  <2>6. CASE UNCHANGED vars
    BY <2>6 DEF vars, Holds
  <2> QED  BY <2>1, <2>2, <2>3, <2>4, <2>5, <2>6 DEF Next
<1> QED  BY <1>1, <1>2, Inductive, PTL DEF Spec, KeepsPromise, Promise!Spec

(* ---- the lock in Postgres: calls nested in any way, on connections that break *)

CONSTANTS Sessions, Keys, Parent, CallKey, Awaited, MaxBreaks
VARIABLES callPc, kind, lease, references, keys, sessionLocks, alive, breaks

Locks == INSTANCE SessionLocks WITH KeyOf <- CallKey, pc <- callPc, locks <- sessionLocks

Reservation == [mode : Modes, count : Nat \ {0}]

\* A call is finite work of a program: finitely many calls, each with a
\* key and at most one call in whose body it is made.
CallsAssumed ==
  /\ IsFiniteSet(Callers) /\ MaxBreaks \in Nat
  /\ Parent \in [Callers -> Callers \cup {None}] /\ CallKey \in [Callers -> Keys]
  /\ None \notin Callers /\ None \notin Sessions /\ None \notin Reservation

\* The calls that use a connection, those that reserved a key there, and
\* those for which Postgres counts the key's lock.
Users(s) == {c \in Callers : lease[c] = s}
Reserving(s, k) == {c \in Callers : lease[c] = s /\ CallKey[c] = k}
HoldsPlace(c) == callPc[c] = "inside" \/ callPc[c] = "unlocking"
Lockers(s, k, m) == {c \in Reserving(s, k) : HoldsPlace(c) /\ Locks!Mode(c) = m}

Using == {"reserved", "inside", "unlocking", "unlocked"}

CallTypes ==
  /\ callPc \in [Callers -> {"idle", "asked", "reserved", "inside", "unlocking", "unlocked",
                             "done", "refused", "failed"}]
  /\ kind \in [Callers -> {"lock", "shared", "try"}]
  /\ lease \in [Callers -> Sessions \cup {None}]
  /\ references \in [Sessions -> Nat]
  /\ keys \in [Sessions -> [Keys -> Reservation \cup {None}]]
  /\ sessionLocks \in [Sessions -> [Keys -> [shared : Nat, exclusive : Nat]]]
  /\ alive \in [Sessions -> BOOLEAN] /\ breaks \in 0..MaxBreaks

Leased == \A c \in Callers : lease[c] # None <=> callPc[c] \in Using

\* What a connection counts is what its calls are.
RefCount(s) == references[s] = Cardinality(Users(s)) /\ (references[s] = 0 => alive[s])

KeyCount(s, k) ==
  /\ keys[s][k] = None <=> Reserving(s, k) = {}
  /\ keys[s][k] # None => /\ keys[s][k].count = Cardinality(Reserving(s, k))
                          /\ \A c \in Reserving(s, k) : Locks!Mode(c) = keys[s][k].mode
  /\ \A c, d \in Reserving(s, k) : c = d \/ Locks!Mode(c) = "shared"

LockCount(s, k, m) == sessionLocks[s][k][m] = IF alive[s] THEN Cardinality(Lockers(s, k, m)) ELSE 0

\* Two calls between lock and unlock, on connections that are up.
Apart(c, d) ==
  HoldsPlace(c) /\ HoldsPlace(d) /\ CallKey[c] = CallKey[d] /\ alive[lease[c]] /\ alive[lease[d]] /\ c # d
    => Locks!Mode(c) = "shared" /\ Locks!Mode(d) = "shared"

\* A body whose connection is up, and steps in which none begins.
Inside(c) == callPc[c] = "inside" /\ alive[lease[c]]
NoneEnters == \A d \in Callers : Inside(d)' => Inside(d) /\ Locks!Mode(d)' = Locks!Mode(d)

CallInv ==
  /\ CallTypes /\ Leased
  /\ \A s \in Sessions : RefCount(s)
  /\ \A s \in Sessions, k \in Keys : KeyCount(s, k)
  /\ \A s \in Sessions, k \in Keys, m \in Modes : LockCount(s, k, m)
  /\ \A c, d \in Callers : Apart(c, d)

-----------------------------------------------------------------------------

\* Cardinalities of sets of calls.
LEMMA Counting ==
  ASSUME IsFiniteSet(Callers), NEW A \in SUBSET Callers
  PROVE  /\ Cardinality(A) \in Nat /\ Cardinality(A) <= Cardinality(Callers) /\ Cardinality(Callers) \in Nat
         /\ Cardinality(A) = 0 <=> A = {}
         /\ \A x \in Callers \ A : Cardinality(A \cup {x}) = Cardinality(A) + 1
         /\ \A x \in A : Cardinality(A \ {x}) = Cardinality(A) - 1 /\ Cardinality(A) > 0
         /\ \A x \in A : Cardinality(A) = 1 => A = {x}
<1>1. /\ IsFiniteSet(A) /\ Cardinality(A) \in Nat /\ Cardinality(A) <= Cardinality(Callers)
      /\ Cardinality(Callers) \in Nat
  BY FS_Subset, FS_CardinalityType
<1>2. Cardinality(A) = 0 <=> A = {}
  BY <1>1, FS_EmptySet
<1>3. \A x \in Callers \ A : Cardinality(A \cup {x}) = Cardinality(A) + 1
  BY <1>1, FS_AddElement, ZenonT(40)
<1>4. ASSUME NEW x \in A
      PROVE  /\ Cardinality(A \ {x}) = Cardinality(A) - 1 /\ Cardinality(A) > 0
             /\ Cardinality(A) = 1 => A = {x}
  <2>1. IsFiniteSet(A \ {x}) /\ Cardinality(A \ {x}) = Cardinality(A) - 1
    BY <1>1, FS_RemoveElement
  <2>2. Cardinality(A \ {x}) = 0 <=> A \ {x} = {}
    BY <2>1, FS_EmptySet, ZenonT(40)
  <2>3. Cardinality(A) > 0
    BY <1>1, <1>2
  <2> QED  BY <1>1, <2>1, <2>2, <2>3
<1> QED  BY <1>1, <1>2, <1>3, <1>4, ZenonT(40)

\* Postgres counts n for one lock of a session, and no other changes.
LockSet(s, k, m, n) ==
  /\ sessionLocks' \in [Sessions -> [Keys -> [shared : Nat, exclusive : Nat]]]
  /\ sessionLocks'[s][k][m] = n
  /\ \A t \in Sessions, j \in Keys, i \in Modes :
       t # s \/ j # k \/ i # m => sessionLocks'[t][j][i] = sessionLocks[t][j][i]

\* The model's update of a session's count is that.
LEMMA LockUpdate ==
  ASSUME CallTypes, NEW s \in Sessions, NEW k \in Keys, NEW m \in Modes, NEW n \in Nat,
         sessionLocks' = [sessionLocks EXCEPT ![s][k][m] = n]
  PROVE  LockSet(s, k, m, n)
<1>0. sessionLocks \in [Sessions -> [Keys -> [shared : Nat, exclusive : Nat]]]
  BY ZenonT(40) DEF CallTypes
<1>1. CASE m = "shared"
  BY <1>0, <1>1 DEF Modes, LockSet
<1>2. CASE m = "exclusive"
  BY <1>0, <1>2 DEF Modes, LockSet
<1> QED  BY <1>1, <1>2 DEF Modes

\* The sets are sets of calls, each within the one before.
LEMMA Sets ==
  ASSUME CallsAssumed
  PROVE  /\ \A s, k : /\ Reserving(s, k) \in SUBSET Callers /\ Users(s) \in SUBSET Callers
                     /\ Reserving(s, k) \subseteq Users(s)
         /\ \A s, k, m : Lockers(s, k, m) \in SUBSET Callers /\ Lockers(s, k, m) \subseteq Reserving(s, k)
         /\ IsFiniteSet(Callers)
  BY DEF Reserving, Users, Lockers, CallsAssumed

\* The conjuncts of CallInv.
LEMMA Parts ==
  ASSUME CallInv
  PROVE  /\ CallTypes /\ Leased
         /\ \A s \in Sessions : RefCount(s)
         /\ \A s \in Sessions, k \in Keys : KeyCount(s, k)
         /\ \A s \in Sessions, k \in Keys, m \in Modes : LockCount(s, k, m)
         /\ \A c, d \in Callers : Apart(c, d)
  BY ZenonT(40) DEF CallInv

\* A set of calls with one call more.
LEMMA Added ==
  ASSUME CallsAssumed, NEW A, A \subseteq Callers, NEW x \in Callers, x \notin A, NEW B, B = A \cup {x}
  PROVE  Cardinality(B) = Cardinality(A) + 1
<1>1. A \in SUBSET Callers /\ x \in Callers \ A /\ IsFiniteSet(Callers)
  BY ZenonT(40) DEF CallsAssumed
<1> QED  BY <1>1, Counting, ZenonT(40)

\* A set of calls with one call less.
LEMMA Removed ==
  ASSUME CallsAssumed, NEW A, A \subseteq Callers, NEW x \in A, NEW B, B = A \ {x}
  PROVE  Cardinality(B) = Cardinality(A) - 1 /\ Cardinality(A) > 0 /\ (Cardinality(A) = 1 => A = {x})
<1>1. A \in SUBSET Callers /\ IsFiniteSet(Callers)
  BY ZenonT(40) DEF CallsAssumed
<1> QED  BY <1>1, Counting, ZenonT(40)

\* The size of a set of calls.
LEMMA Counted ==
  ASSUME CallsAssumed, NEW A, A \subseteq Callers
  PROVE  Cardinality(A) \in Nat /\ Cardinality(A) <= Cardinality(Callers) /\ (Cardinality(A) = 0 <=> A = {})
<1>1. A \in SUBSET Callers /\ IsFiniteSet(Callers)
  BY ZenonT(40) DEF CallsAssumed
<1> QED  BY <1>1, Counting, ZenonT(40)

\* A reservation that does not change, of calls that do not.
LEMMA SameKeyCount ==
  ASSUME NEW s \in Sessions, NEW k \in Keys, KeyCount(s, k), keys'[s][k] = keys[s][k],
         Reserving(s, k)' = Reserving(s, k), \A c \in Reserving(s, k) : Locks!Mode(c)' = Locks!Mode(c)
  PROVE  KeyCount(s, k)'
  BY ZenonT(40) DEF KeyCount

\* A call asks for its lock shared or exclusive.
LEMMA ModeType ==
  ASSUME CallTypes, NEW c \in Callers
  PROVE  Locks!Mode(c) \in Modes
  BY ZenonT(40) DEF Locks!Mode, Modes

\* A step that moves calls and touches no connection.
LEMMA QuietCalls ==
  ASSUME CallsAssumed, CallInv, CallTypes', UNCHANGED <<lease, references, keys, sessionLocks, alive>>,
         \A c \in Callers : lease[c] = None => callPc'[c] \notin Using,
         \A c \in Callers : lease[c] # None =>
            /\ callPc'[c] \in Using /\ kind'[c] = kind[c]
            /\ alive[lease[c]] => (HoldsPlace(c)' <=> HoldsPlace(c))
  PROVE  CallInv'
<1>a. CallTypes /\ None \notin Sessions
  BY Parts, ZenonT(40) DEF CallsAssumed
<1>1. Leased'
  BY ZenonT(40) DEF Leased
<1>2. \A s \in Sessions, k \in Keys : /\ Users(s)' = Users(s) /\ Reserving(s, k)' = Reserving(s, k)
                                      /\ \A c \in Reserving(s, k) : Locks!Mode(c)' = Locks!Mode(c)
  <2>1. \A s, k : Users(s)' = Users(s) /\ Reserving(s, k)' = Reserving(s, k)
    BY ZenonT(40) DEF Users, Reserving
  <2>2. \A s \in Sessions, k \in Keys : \A c \in Reserving(s, k) : kind'[c] = kind[c]
    BY <1>a, ZenonT(40) DEF Reserving
  <2> QED  BY <2>1, <2>2, ZenonT(40) DEF Locks!Mode
<1>3. \A s \in Sessions : RefCount(s)'
  <2>1. \A s \in Sessions : Users(s)' = Users(s)
    BY ZenonT(40) DEF Users
  <2> QED  BY <2>1, Parts, ZenonT(40) DEF RefCount
<1>4. \A s \in Sessions, k \in Keys : KeyCount(s, k)'
  BY <1>2, Parts, SameKeyCount, ZenonT(40)
<1>5. ASSUME NEW s \in Sessions, NEW k \in Keys, NEW m \in Modes PROVE LockCount(s, k, m)'
  <2>1. LockCount(s, k, m)
    BY Parts, ZenonT(40)
  <2>2. CASE alive[s]
    <3>1. \A c \in Reserving(s, k) : HoldsPlace(c)' <=> HoldsPlace(c)
      BY <1>a, <2>2, ZenonT(40) DEF Reserving
    <3>2. Lockers(s, k, m)' = Lockers(s, k, m)
      BY <1>2, <3>1, ZenonT(40) DEF Lockers
    <3> QED  BY <2>1, <3>2, ZenonT(40) DEF LockCount
  <2>3. CASE ~alive[s]
    BY <2>1, <2>3, ZenonT(40) DEF LockCount
  <2> QED  BY <2>2, <2>3
<1>6. ASSUME NEW c \in Callers, NEW d \in Callers PROVE Apart(c, d)'
  <2>1. Apart(c, d)
    BY Parts, ZenonT(40)
  <2>2. ASSUME NEW x \in Callers, HoldsPlace(x)' PROVE lease[x] # None
    BY <2>2, ZenonT(40) DEF HoldsPlace, Using
  <2>3. ASSUME NEW x \in Callers, HoldsPlace(x)', alive'[lease'[x]]
        PROVE  HoldsPlace(x) /\ alive[lease[x]] /\ Locks!Mode(x)' = Locks!Mode(x)
    BY <2>2, <2>3, ZenonT(40) DEF Locks!Mode
  <2> QED  BY <2>1, <2>3, ZenonT(40) DEF Apart
<1> QED  BY <1>1, <1>3, <1>4, <1>5, <1>6, ZenonT(40) DEF CallInv

\* An attempt begins on a connection on which its key is not taken.
LEMMA BeginCall ==
  ASSUME CallsAssumed, CallInv, NEW c \in Callers, NEW s \in Sessions, callPc[c] = "asked",
         ~Locks!Taken(s, CallKey[c], Locks!Mode(c)), Locks!Begin(c, s)
  PROVE  CallInv'
<1>a. CallTypes /\ Leased /\ None \notin Sessions /\ CallKey[c] \in Keys /\ None \notin Reservation
  BY Parts, ZenonT(40) DEF CallsAssumed
<1>b. /\ callPc' = [callPc EXCEPT ![c] = "reserved"] /\ lease' = [lease EXCEPT ![c] = s]
      /\ references' = [references EXCEPT ![s] = references[s] + 1]
      /\ keys' = [keys EXCEPT ![s][CallKey[c]] = Locks!Reserved(keys[s][CallKey[c]], Locks!Mode(c))]
      /\ kind' = kind /\ sessionLocks' = sessionLocks /\ alive' = alive /\ breaks' = breaks
  BY DEF Locks!Begin
<1>c. PICK k \in Keys : k = CallKey[c]
  BY <1>a
<1>d. PICK m \in Modes : m = Locks!Mode(c)
  BY <1>a, ModeType
<1>e. PICK r : r = keys[s][k] /\ r \in Reservation \cup {None}
  BY <1>a, <1>c DEF CallTypes
<1>f. PICK q : q = Locks!Reserved(r, m)
  BY Zenon
<1>g. /\ q \in Reservation
      /\ r = None => q.mode = m /\ q.count = 1
      /\ r # None => r.mode = m /\ m = "shared" /\ q.mode = m /\ q.count = r.count + 1 /\ r.count \in Nat
  <2>1. r # None => m = "shared" /\ r.mode = "shared"
    BY <1>c, <1>d, <1>e, ZenonT(40) DEF Locks!Taken
  <2>2. CASE r = None
    BY <1>d, <1>f, <2>2 DEF Locks!Reserved, Reservation
  <2>3. CASE r # None
    BY <1>a, <1>e, <1>f, <2>1, <2>3 DEF Locks!Reserved, Reservation
  <2> QED  BY <2>2, <2>3
<1>h. lease[c] = None /\ ~HoldsPlace(c) /\ ~HoldsPlace(c)'
  <2>1. "asked" \notin Using /\ callPc'[c] = "reserved"
    BY <1>a, <1>b DEF Using, CallTypes
  <2> QED  BY <1>a, <2>1, ZenonT(40) DEF Leased, HoldsPlace
<1>i. /\ lease'[c] = s /\ callPc'[c] = "reserved"
      /\ \A d \in Callers \ {c} : lease'[d] = lease[d] /\ callPc'[d] = callPc[d]
      /\ \A d \in Callers : Locks!Mode(d)' = Locks!Mode(d) /\ (HoldsPlace(d)' <=> HoldsPlace(d))
  <2>1. /\ lease'[c] = s /\ callPc'[c] = "reserved"
        /\ \A d \in Callers \ {c} : lease'[d] = lease[d] /\ callPc'[d] = callPc[d]
    BY <1>a, <1>b DEF CallTypes
  <2>2. \A d \in Callers : Locks!Mode(d)' = Locks!Mode(d)
    BY <1>b, ZenonT(40) DEF Locks!Mode
  <2>3. \A d \in Callers : HoldsPlace(d)' <=> HoldsPlace(d)
    BY <1>h, <2>1, ZenonT(40) DEF HoldsPlace
  <2> QED  BY <2>1, <2>2, <2>3, ZenonT(40)
<1>j. /\ keys'[s][k] = q /\ keys' \in [Sessions -> [Keys -> Reservation \cup {None}]]
      /\ \A t \in Sessions, j \in Keys : t # s \/ j # k => keys'[t][j] = keys[t][j]
  BY <1>a, <1>b, <1>c, <1>d, <1>e, <1>f, <1>g, ZenonT(40) DEF CallTypes
<1>k. /\ Users(s)' = Users(s) \cup {c} /\ c \notin Users(s)
      /\ \A t \in Sessions \ {s} : Users(t)' = Users(t)
  BY <1>a, <1>h, <1>i, ZenonT(40) DEF Users
<1>l. /\ Reserving(s, k)' = Reserving(s, k) \cup {c} /\ c \notin Reserving(s, k)
      /\ \A t \in Sessions, j \in Keys : t # s \/ j # k => Reserving(t, j)' = Reserving(t, j)
  BY <1>a, <1>c, <1>h, <1>i, ZenonT(40) DEF Reserving
<1>1. CallTypes'
  <2>1. callPc' \in [Callers -> {"idle", "asked", "reserved", "inside", "unlocking", "unlocked",
                             "done", "refused", "failed"}] /\ lease' \in [Callers -> Sessions \cup {None}]
    BY <1>a, <1>b DEF CallTypes
  <2>2. references' \in [Sessions -> Nat]
    BY <1>a, <1>b DEF CallTypes
  <2> QED  BY <1>a, <1>b, <1>j, <2>1, <2>2, ZenonT(40) DEF CallTypes
<1>2. Leased'
  BY <1>a, <1>i, ZenonT(40) DEF Leased, Using
<1>3. ASSUME NEW t \in Sessions PROVE RefCount(t)'
  <2>1. RefCount(t) /\ references[t] \in Nat
    BY <1>a, Parts DEF CallTypes
  <2>2. CASE t = s
    <3>1. Cardinality(Users(t)') = Cardinality(Users(t)) + 1
      BY <1>k, <2>2, Sets, Added, ZenonT(40)
    <3>2. references'[t] = references[t] + 1
      BY <1>a, <1>b, <2>2 DEF CallTypes
    <3>3. references'[t] # 0
      BY <2>1, <3>2, Arithmetic, ZenonT(40)
    <3> QED  BY <2>1, <3>1, <3>2, <3>3, ZenonT(40) DEF RefCount
  <2>3. CASE t # s
    <3>1. references'[t] = references[t] /\ Users(t)' = Users(t) /\ alive' = alive
      BY <1>a, <1>b, <1>k, <2>3 DEF CallTypes
    <3> QED  BY <2>1, <3>1, ZenonT(40) DEF RefCount
  <2> QED  BY <2>2, <2>3, ZenonT(40)
<1>4. ASSUME NEW t \in Sessions, NEW j \in Keys PROVE KeyCount(t, j)'
  <2>0. KeyCount(t, j)
    BY Parts, ZenonT(40)
  <2>1. CASE t = s /\ j = k
    <3>1. /\ Cardinality(Reserving(s, k)') = Cardinality(Reserving(s, k)) + 1
          /\ Reserving(s, k) = {} => Cardinality(Reserving(s, k)) = 0
      BY <1>l, Sets, Added, Counted, ZenonT(40)
    <3>2. /\ r = None <=> Reserving(s, k) = {}
          /\ r # None => /\ r.count = Cardinality(Reserving(s, k))
                         /\ \A d \in Reserving(s, k) : Locks!Mode(d) = r.mode
      BY <1>e, <2>0, <2>1, ZenonT(40) DEF KeyCount
    <3>3. q.count = Cardinality(Reserving(s, k)')
      BY <1>g, <3>1, <3>2, Arithmetic, ZenonT(40)
    <3>4. \A d \in Reserving(s, k)' : Locks!Mode(d)' = q.mode /\ (d = c \/ q.mode = "shared")
      BY <1>d, <1>g, <1>i, <1>l, <3>2, Sets, ZenonT(40)
    <3>5. q # None /\ Reserving(s, k)' # {}
      BY <1>a, <1>g, <1>l, ZenonT(40)
    <3>6. \A d, e \in Reserving(s, k)' : d = e \/ Locks!Mode(d)' = "shared"
      BY <3>4, ZenonT(40)
    <3> QED  BY <1>j, <2>1, <3>3, <3>4, <3>5, <3>6, ZenonT(40) DEF KeyCount
  <2>2. CASE t # s \/ j # k
    <3>1. keys'[t][j] = keys[t][j] /\ Reserving(t, j)' = Reserving(t, j)
      BY <1>j, <1>l, <2>2, ZenonT(40)
    <3>2. \A d \in Reserving(t, j) : Locks!Mode(d)' = Locks!Mode(d)
      BY <1>i, Sets, ZenonT(40)
    <3> QED  BY <2>0, <3>1, <3>2, SameKeyCount, ZenonT(40)
  <2> QED  BY <2>1, <2>2, ZenonT(40)
<1>5. ASSUME NEW t \in Sessions, NEW j \in Keys, NEW i \in Modes PROVE LockCount(t, j, i)'
  <2>1. LockCount(t, j, i)
    BY Parts, ZenonT(40)
  <2>2. Lockers(t, j, i)' = Lockers(t, j, i)
    <3>1. c \notin Lockers(t, j, i) /\ c \notin Lockers(t, j, i)'
      BY <1>h, ZenonT(40) DEF Lockers
    <3>2. ASSUME NEW d \in Callers, d # c PROVE d \in Lockers(t, j, i)' <=> d \in Lockers(t, j, i)
      <4>1. d \in Reserving(t, j)' <=> d \in Reserving(t, j)
        BY <1>i, <3>2, ZenonT(40) DEF Reserving
      <4> QED  BY <1>i, <4>1, ZenonT(40) DEF Lockers
    <3>3. Lockers(t, j, i) \subseteq Callers /\ Lockers(t, j, i)' \subseteq Callers
      BY ZenonT(40) DEF Lockers, Reserving
    <3> QED  BY <3>1, <3>2, <3>3
  <2> QED  BY <1>b, <2>1, <2>2, ZenonT(40) DEF LockCount
<1>6. ASSUME NEW d \in Callers, NEW e \in Callers PROVE Apart(d, e)'
  <2>1. Apart(d, e)
    BY Parts, ZenonT(40)
  <2> QED  BY <1>b, <1>h, <1>i, <2>1, ZenonT(40) DEF Apart
<1> QED  BY <1>1, <1>2, <1>3, <1>4, <1>5, <1>6, ZenonT(40) DEF CallInv

\* Only the locks Postgres counts for c's connection and key change.
LEMMA CountedStep ==
  ASSUME CallsAssumed, CallInv, NEW c \in Callers, NEW s \in Sessions, NEW k \in Keys, NEW m \in Modes,
         s = lease[c], k = CallKey[c], m = Locks!Mode(c), alive[s],
         UNCHANGED <<kind, lease, references, keys, alive, breaks>>,
         NEW to \in {"inside", "unlocked"}, callPc' = [callPc EXCEPT ![c] = to],
         NEW n \in Nat, sessionLocks' = [sessionLocks EXCEPT ![s][k][m] = n],
         n = Cardinality(Lockers(s, k, m)'),
         to = "inside" => \A d \in Callers : Apart(c, d)' /\ Apart(d, c)'
  PROVE  CallInv'
<1>a. CallTypes /\ Leased /\ None \notin Sessions
  BY Parts DEF CallsAssumed
<1>b. callPc'[c] = to /\ \A d \in Callers \ {c} : callPc'[d] = callPc[d]
  BY <1>a DEF CallTypes
<1>c. LockSet(s, k, m, n)
  BY <1>a, LockUpdate, ZenonT(40)
<1>d. /\ \A d \in Callers : Locks!Mode(d)' = Locks!Mode(d)
      /\ \A d \in Callers \ {c} : HoldsPlace(d)' <=> HoldsPlace(d)
  BY <1>b, ZenonT(40) DEF Locks!Mode, HoldsPlace
<1>e. \A t, j : Users(t)' = Users(t) /\ Reserving(t, j)' = Reserving(t, j)
  BY ZenonT(40) DEF Users, Reserving
<1>1. CallTypes'
  <2>1. callPc' \in [Callers -> {"idle", "asked", "reserved", "inside", "unlocking", "unlocked",
                                 "done", "refused", "failed"}]
    BY <1>a, ZenonT(40) DEF CallTypes
  <2> QED  BY <1>a, <1>c, <2>1, ZenonT(40) DEF CallTypes, LockSet
<1>2. Leased'
  <2>1. lease[c] # None /\ to \in Using
    BY <1>a, ZenonT(40) DEF Using
  <2> QED  BY <1>a, <1>b, <2>1, ZenonT(40) DEF Leased
<1>3. \A t \in Sessions : RefCount(t)'
  BY <1>e, Parts, ZenonT(40) DEF RefCount
<1>4. \A t \in Sessions, j \in Keys : KeyCount(t, j)'
  BY <1>d, <1>e, Parts, Sets, SameKeyCount, ZenonT(40)
<1>5. ASSUME NEW t \in Sessions, NEW j \in Keys, NEW i \in Modes PROVE LockCount(t, j, i)'
  <2>1. CASE t = s /\ j = k /\ i = m
    BY <1>c, <2>1, ZenonT(40) DEF LockCount, LockSet
  <2>2. CASE t # s \/ j # k \/ i # m
    <3>1. Lockers(t, j, i)' = Lockers(t, j, i)
      <4>1. c \notin Reserving(t, j) \/ Locks!Mode(c) # i
        BY <2>2, ZenonT(40) DEF Reserving
      <4> QED  BY <1>d, <1>e, <4>1, Sets, ZenonT(40) DEF Lockers
    <3>2. LockCount(t, j, i)
      BY Parts, ZenonT(40)
    <3>3. sessionLocks'[t][j][i] = sessionLocks[t][j][i]
      <4>1. \A u \in Sessions, l \in Keys, o \in Modes :
              u # s \/ l # k \/ o # m => sessionLocks'[u][l][o] = sessionLocks[u][l][o]
        BY <1>c, ZenonT(40) DEF LockSet
      <4> QED  BY <2>2, <4>1, ZenonT(40)
    <3> QED  BY <3>1, <3>2, <3>3, ZenonT(40) DEF LockCount
  <2> QED  BY <2>1, <2>2, ZenonT(40)
<1>6. ASSUME NEW d \in Callers, NEW e \in Callers PROVE Apart(d, e)'
  <2>1. Apart(d, e)
    BY Parts
  <2>2. CASE d # c /\ e # c
    BY <1>d, <2>1, <2>2, ZenonT(40) DEF Apart
  <2>3. CASE (d = c \/ e = c) /\ to = "unlocked"
    <3>1. ~HoldsPlace(c)'
      BY <1>b, <2>3, ZenonT(40) DEF HoldsPlace
    <3> QED  BY <2>3, <3>1, ZenonT(40) DEF Apart
  <2>4. CASE (d = c \/ e = c) /\ to = "inside"
    BY <2>4, ZenonT(40)
  <2> QED  BY <2>2, <2>3, <2>4
<1> QED  BY <1>1, <1>2, <1>3, <1>4, <1>5, <1>6, ZenonT(40) DEF CallInv

\* A call in an attempt has a connection, and is counted there.
LEMMA InUse ==
  ASSUME CallsAssumed, CallInv, NEW c \in Callers, callPc[c] \in Using
  PROVE  /\ lease[c] \in Sessions /\ CallKey[c] \in Keys /\ Locks!Mode(c) \in Modes
         /\ c \in Users(lease[c]) /\ c \in Reserving(lease[c], CallKey[c])
         /\ HoldsPlace(c) => c \in Lockers(lease[c], CallKey[c], Locks!Mode(c))
<1>1. CallTypes /\ Leased /\ CallKey[c] \in Keys
  BY Parts, ZenonT(40) DEF CallsAssumed
<1>2. lease[c] \in Sessions
  BY <1>1 DEF CallTypes, Leased
<1>3. c \in Users(lease[c]) /\ c \in Reserving(lease[c], CallKey[c])
  BY ZenonT(40) DEF Users, Reserving
<1> QED  BY <1>1, <1>2, <1>3, ModeType, ZenonT(40) DEF Lockers

\* Postgres grants a lock only when no other session's is in the way.
LEMMA LockedCall ==
  ASSUME CallsAssumed, CallInv, NEW c \in Callers, Locks!Locked(c)
  PROVE  CallInv'
<1>a. callPc[c] = "reserved" /\ "reserved" \in Using /\ CallTypes
  BY Parts, ZenonT(40) DEF Locks!Locked, Using
<1>b. PICK s \in Sessions : s = lease[c] /\ c \in Users(s)
  BY <1>a, InUse, ZenonT(40)
<1>c. PICK k \in Keys : k = CallKey[c] /\ c \in Reserving(s, k)
  BY <1>a, <1>b, InUse, ZenonT(40)
<1>d. PICK m \in Modes : m = Locks!Mode(c)
  BY <1>a, InUse, ZenonT(40)
<1>e. /\ alive[s] /\ ~Locks!Blocked(s, k, m) /\ callPc' = [callPc EXCEPT ![c] = "inside"]
      /\ sessionLocks' = [sessionLocks EXCEPT ![s][k][m] = sessionLocks[s][k][m] + 1]
      /\ UNCHANGED <<kind, lease, references, keys, alive, breaks>>
  BY <1>b, <1>c, <1>d, ZenonT(40) DEF Locks!Locked
<1>f. sessionLocks[s][k][m] = Cardinality(Lockers(s, k, m)) /\ sessionLocks[s][k][m] \in Nat
  <2>1. LockCount(s, k, m)
    BY Parts
  <2> QED  BY <1>e, <2>1, Sets, Counted, ZenonT(40) DEF LockCount
<1>g. callPc'[c] = "inside" /\ \A d \in Callers \ {c} : callPc'[d] = callPc[d]
  BY <1>a, <1>e, ZenonT(40) DEF CallTypes
<1>1. Lockers(s, k, m)' = Lockers(s, k, m) \cup {c} /\ c \notin Lockers(s, k, m)
  <2>1. Reserving(s, k)' = Reserving(s, k)
    BY <1>e, ZenonT(40) DEF Reserving
  <2>2. /\ \A d \in Callers : Locks!Mode(d)' = Locks!Mode(d)
        /\ \A d \in Callers \ {c} : HoldsPlace(d)' <=> HoldsPlace(d)
    BY <1>e, <1>g, ZenonT(40) DEF Locks!Mode, HoldsPlace
  <2>3. HoldsPlace(c)' /\ ~HoldsPlace(c)
    BY <1>a, <1>g DEF HoldsPlace
  <2> QED  BY <1>c, <1>d, <2>1, <2>2, <2>3, Sets DEF Lockers
<1>2. PICK n \in Nat : n = sessionLocks[s][k][m] + 1
  BY <1>f
<1>3. n = Cardinality(Lockers(s, k, m)')
  <2>1. Cardinality(Lockers(s, k, m)') = Cardinality(Lockers(s, k, m)) + 1
    BY <1>1, Sets, Added, ZenonT(40)
  <2> QED  BY <1>f, <1>2, <2>1, ZenonT(40)
<1>4. ASSUME NEW d \in Callers, d # c, HoldsPlace(d), CallKey[d] = k, alive[lease[d]]
      PROVE  m = "shared" /\ Locks!Mode(d) = "shared"
  <2>0. callPc[d] \in Using
    BY <1>4 DEF HoldsPlace, Using
  <2>1. PICK t \in Sessions : t = lease[d]
    BY <2>0, InUse, ZenonT(40)
  <2>2. PICK i \in Modes : i = Locks!Mode(d) /\ d \in Lockers(t, k, i) /\ d \in Reserving(t, k)
    BY <1>4, <2>0, <2>1, InUse, ZenonT(40)
  <2>3. CASE t = s
    <3>1. KeyCount(s, k)
      BY Parts
    <3>2. m = "shared" /\ i = "shared"
      BY <1>4, <1>c, <1>d, <2>2, <2>3, <3>1, ZenonT(40) DEF KeyCount
    <3> QED  BY <2>2, <3>2
  <2>4. CASE t # s
    <3>1. LockCount(t, k, i) /\ alive[t]
      BY <1>4, <2>1, Parts, ZenonT(40)
    <3>2. Cardinality(Lockers(t, k, i)) \in Nat /\ Cardinality(Lockers(t, k, i)) # 0
      BY <2>2, Sets, Counted, ZenonT(40)
    <3>3. sessionLocks[t][k][i] > 0
      BY <3>1, <3>2 DEF LockCount
    <3>4. ~(sessionLocks[t][k].exclusive > 0) /\ ~(m = "exclusive" /\ sessionLocks[t][k].shared > 0)
      BY <1>e, <2>4 DEF Locks!Blocked
    <3> QED  BY <2>2, <3>3, <3>4 DEF Modes
  <2> QED  BY <2>3, <2>4
<1>5. ASSUME NEW d \in Callers PROVE Apart(c, d)' /\ Apart(d, c)'
  <2>1. \A x \in Callers : Locks!Mode(x)' = Locks!Mode(x)
    BY <1>e, ZenonT(40) DEF Locks!Mode
  <2>2. d # c => (HoldsPlace(d)' <=> HoldsPlace(d))
    BY <1>g, ZenonT(40) DEF HoldsPlace
  <2>3. UNCHANGED <<alive, lease>>
    BY <1>e, ZenonT(40)
  <2> QED  BY <1>4, <1>c, <1>d, <2>1, <2>2, <2>3, ZenonT(40) DEF Apart
<1> QED  BY <1>b, <1>c, <1>d, <1>e, <1>2, <1>3, <1>5, CountedStep, ZenonT(40)

\* Postgres takes a lock back.
LEMMA UnlockCall ==
  ASSUME CallsAssumed, CallInv, NEW c \in Callers, Locks!Unlock(c)
  PROVE  CallInv'
<1>a. callPc[c] = "unlocking" /\ "unlocking" \in Using /\ CallTypes
  BY Parts, ZenonT(40) DEF Locks!Unlock, Using
<1>a1. HoldsPlace(c)
  BY <1>a DEF HoldsPlace
<1>b. PICK s \in Sessions : s = lease[c]
  BY <1>a, InUse, ZenonT(40)
<1>c. PICK k \in Keys : k = CallKey[c]
  BY <1>a, InUse, ZenonT(40)
<1>d. PICK m \in Modes : m = Locks!Mode(c) /\ c \in Lockers(s, k, m)
  BY <1>a, <1>a1, <1>b, <1>c, InUse, ZenonT(40)
<1>e. /\ alive[s] /\ callPc' = [callPc EXCEPT ![c] = "unlocked"]
      /\ sessionLocks' = [sessionLocks EXCEPT ![s][k][m] = sessionLocks[s][k][m] - 1]
      /\ UNCHANGED <<kind, lease, references, keys, alive, breaks>>
  BY <1>b, <1>c, <1>d, ZenonT(40) DEF Locks!Unlock
<1>f. sessionLocks[s][k][m] = Cardinality(Lockers(s, k, m)) /\ sessionLocks[s][k][m] \in Nat
  <2>1. LockCount(s, k, m)
    BY Parts
  <2> QED  BY <1>e, <2>1, Sets, Counted, ZenonT(40) DEF LockCount
<1>g. callPc'[c] = "unlocked" /\ \A d \in Callers \ {c} : callPc'[d] = callPc[d]
  BY <1>a, <1>e, ZenonT(40) DEF CallTypes
<1>1. Lockers(s, k, m)' = Lockers(s, k, m) \ {c}
  <2>1. Reserving(s, k)' = Reserving(s, k)
    BY <1>e, ZenonT(40) DEF Reserving
  <2>2. /\ \A d \in Callers : Locks!Mode(d)' = Locks!Mode(d)
        /\ \A d \in Callers \ {c} : HoldsPlace(d)' <=> HoldsPlace(d)
    BY <1>e, <1>g, ZenonT(40) DEF Locks!Mode, HoldsPlace
  <2>3. ~HoldsPlace(c)'
    BY <1>g DEF HoldsPlace
  <2> QED  BY <2>1, <2>2, <2>3, Sets DEF Lockers
<1>2. Cardinality(Lockers(s, k, m)') = Cardinality(Lockers(s, k, m)) - 1 /\ Cardinality(Lockers(s, k, m)) > 0
  BY <1>1, <1>d, Sets, Removed, ZenonT(40)
<1>3. PICK n \in Nat : n = sessionLocks[s][k][m] - 1
  BY <1>f, <1>2, Arithmetic, ZenonT(40)
<1>4. n = Cardinality(Lockers(s, k, m)')
  BY <1>f, <1>2, <1>3
<1> QED  BY <1>b, <1>c, <1>d, <1>e, <1>3, <1>4, CountedStep, ZenonT(40)

\* The attempt ends, and the last one returns the connection.
LEMMA DropCall ==
  ASSUME CallsAssumed, CallInv, NEW c \in Callers, callPc[c] \in {"reserved", "unlocked"},
         NEW to \in {"asked", "refused", "failed", "done"}, Locks!Drop(c, to), UNCHANGED sessionLocks
  PROVE  CallInv' /\ NoneEnters
<1>a. callPc[c] \in Using /\ ~HoldsPlace(c) /\ CallTypes /\ Leased /\ None \notin Sessions /\ None \notin Reservation
  BY Parts, ZenonT(40) DEF Using, HoldsPlace, CallsAssumed
<1>b. PICK s \in Sessions : s = lease[c] /\ c \in Users(s)
  BY <1>a, InUse, ZenonT(40)
<1>c. PICK k \in Keys : k = CallKey[c] /\ c \in Reserving(s, k)
  BY <1>a, <1>b, InUse, ZenonT(40)
<1>d. PICK r : r = keys[s][k] /\ r \in Reservation \cup {None}
  BY <1>a DEF CallTypes
<1>e. PICK q : q = IF r.count = 1 THEN None ELSE [r EXCEPT !.count = r.count - 1]
  BY Zenon
<1>f. /\ callPc' = [callPc EXCEPT ![c] = to] /\ lease' = [lease EXCEPT ![c] = None]
      /\ references' = [references EXCEPT ![s] = references[s] - 1]
      /\ keys' = [keys EXCEPT ![s][k] = q]
      /\ alive' = [alive EXCEPT ![s] = alive[s] \/ references[s] = 1]
      /\ kind' = kind /\ breaks' = breaks
  BY <1>b, <1>c, <1>d, <1>e, ZenonT(40) DEF Locks!Drop
<1>g. /\ KeyCount(s, k) /\ r # None /\ r \in Reservation /\ r.count = Cardinality(Reserving(s, k))
      /\ \A d \in Reserving(s, k) : Locks!Mode(d) = r.mode
  <2>1. KeyCount(s, k)
    BY Parts
  <2>2. r # None
    BY <1>c, <1>d, <2>1, ZenonT(40) DEF KeyCount
  <2> QED  BY <1>d, <2>1, <2>2, ZenonT(40) DEF KeyCount
<1>h. /\ lease'[c] = None /\ callPc'[c] = to /\ ~HoldsPlace(c)'
      /\ \A d \in Callers \ {c} : lease'[d] = lease[d] /\ callPc'[d] = callPc[d]
      /\ \A d \in Callers : Locks!Mode(d)' = Locks!Mode(d) /\ (HoldsPlace(d)' <=> HoldsPlace(d))
  <2>1. /\ lease'[c] = None /\ callPc'[c] = to
        /\ \A d \in Callers \ {c} : lease'[d] = lease[d] /\ callPc'[d] = callPc[d]
    BY <1>a, <1>f, ZenonT(40) DEF CallTypes
  <2>2. ~HoldsPlace(c)'
    BY <2>1, ZenonT(40) DEF HoldsPlace
  <2>3. \A d \in Callers : Locks!Mode(d)' = Locks!Mode(d)
    BY <1>f, ZenonT(40) DEF Locks!Mode
  <2>4. \A d \in Callers : HoldsPlace(d)' <=> HoldsPlace(d)
    BY <1>a, <2>1, <2>2, ZenonT(40) DEF HoldsPlace
  <2> QED  BY <2>1, <2>2, <2>3, <2>4, ZenonT(40)
<1>i. /\ Users(s)' = Users(s) \ {c} /\ \A t \in Sessions \ {s} : Users(t)' = Users(t)
  BY <1>a, <1>b, <1>h, ZenonT(40) DEF Users
<1>j. /\ Reserving(s, k)' = Reserving(s, k) \ {c}
      /\ \A t \in Sessions, j \in Keys : t # s \/ j # k => Reserving(t, j)' = Reserving(t, j)
  BY <1>a, <1>b, <1>c, <1>h, ZenonT(40) DEF Reserving
<1>k. /\ Cardinality(Users(s)') = Cardinality(Users(s)) - 1 /\ Cardinality(Users(s)) > 0
      /\ Cardinality(Users(s)) = 1 => Users(s) = {c}
  BY <1>b, <1>i, Sets, Removed, ZenonT(40)
<1>l. /\ Cardinality(Reserving(s, k)') = Cardinality(Reserving(s, k)) - 1
      /\ Cardinality(Reserving(s, k)) = 1 => Reserving(s, k) = {c}
  BY <1>c, <1>j, Sets, Removed, ZenonT(40)
<1>m. /\ r.count = 1 => q = None
      /\ r.count # 1 => q \in Reservation /\ q.mode = r.mode /\ q.count = r.count - 1
  BY <1>e, <1>g DEF Reservation
<1>n. /\ keys'[s][k] = q /\ keys' \in [Sessions -> [Keys -> Reservation \cup {None}]]
      /\ \A t \in Sessions, j \in Keys : t # s \/ j # k => keys'[t][j] = keys[t][j]
  BY <1>a, <1>f, <1>m, ZenonT(40) DEF CallTypes
<1>o. /\ references[s] = Cardinality(Users(s)) /\ Cardinality(Users(s)) \in Nat
      /\ alive'[s] <=> alive[s] \/ references[s] = 1
      /\ \A t \in Sessions \ {s} : alive'[t] = alive[t]
  <2>1. RefCount(s)
    BY Parts
  <2>2. /\ alive'[s] <=> alive[s] \/ references[s] = 1
        /\ \A t \in Sessions \ {s} : alive'[t] = alive[t]
    BY <1>a, <1>f, ZenonT(40) DEF CallTypes
  <2> QED  BY <2>1, <2>2, Sets, Counted, ZenonT(40) DEF RefCount
<1>p. /\ references'[s] = references[s] - 1 /\ references' \in [Sessions -> Nat]
      /\ \A t \in Sessions \ {s} : references'[t] = references[t]
  <2>1. references \in [Sessions -> Nat] /\ references[s] - 1 \in Nat
    BY <1>a, <1>k, <1>o, Arithmetic, ZenonT(40) DEF CallTypes
  <2> QED  BY <1>f, <2>1, Replaced, ZenonT(40)
<1>q. ASSUME NEW x \in Callers, HoldsPlace(x)', alive'[lease'[x]]
      PROVE  HoldsPlace(x) /\ alive[lease[x]]
  <2>1. x # c /\ HoldsPlace(x) /\ lease'[x] = lease[x]
    BY <1>h, <1>q, ZenonT(40)
  <2>2. PICK t \in Sessions : t = lease[x] /\ x \in Users(t)
    <3>1. callPc[x] \in Using
      BY <2>1 DEF HoldsPlace, Using
    <3> QED  BY <3>1, InUse, ZenonT(40)
  <2>3. CASE t # s
    BY <1>o, <1>q, <2>1, <2>2, <2>3, ZenonT(40)
  <2>4. CASE t = s
    <3>1. Users(s) # {c}
      BY <2>1, <2>2, <2>4
    <3> QED  BY <1>k, <1>o, <1>q, <2>1, <2>2, <2>4, <3>1, ZenonT(40)
  <2> QED  BY <2>3, <2>4
<1>1. CallTypes'
  <2>1. callPc' \in [Callers -> {"idle", "asked", "reserved", "inside", "unlocking", "unlocked",
                                 "done", "refused", "failed"}] /\ lease' \in [Callers -> Sessions \cup {None}]
    BY <1>a, <1>f DEF CallTypes
  <2>2. alive' \in [Sessions -> BOOLEAN]
    BY <1>a, <1>f DEF CallTypes
  <2> QED  BY <1>a, <1>f, <1>n, <1>p, <2>1, <2>2, ZenonT(40) DEF CallTypes
<1>2. Leased'
  <2>1. to \notin Using
    BY DEF Using
  <2> QED  BY <1>a, <1>h, <2>1, ZenonT(40) DEF Leased
<1>3. ASSUME NEW t \in Sessions PROVE RefCount(t)'
  <2>1. CASE t = s
    <3>1. references'[s] = Cardinality(Users(s)')
      BY <1>k, <1>o, <1>p, ZenonT(40)
    <3>2. references'[s] = 0 => alive'[s]
      BY <1>k, <1>o, <1>p, Arithmetic, ZenonT(40)
    <3> QED  BY <2>1, <3>1, <3>2, ZenonT(40) DEF RefCount
  <2>2. CASE t # s
    <3>1. RefCount(t)
      BY Parts
    <3> QED  BY <1>i, <1>o, <1>p, <2>2, <3>1, ZenonT(40) DEF RefCount
  <2> QED  BY <2>1, <2>2
<1>4. ASSUME NEW t \in Sessions, NEW j \in Keys PROVE KeyCount(t, j)'
  <2>0. KeyCount(t, j)
    BY Parts
  <2>1. CASE t = s /\ j = k /\ r.count = 1
    <3>1. Reserving(s, k)' = {} /\ keys'[s][k] = None
      BY <1>g, <1>j, <1>l, <1>m, <1>n, <2>1, ZenonT(40)
    <3> QED  BY <2>1, <3>1, ZenonT(40) DEF KeyCount
  <2>2. CASE t = s /\ j = k /\ r.count # 1
    <3>1. q # None /\ q.count = Cardinality(Reserving(s, k)') /\ q.mode = r.mode
      BY <1>a, <1>g, <1>l, <1>m, <2>2
    <3>2. Reserving(s, k)' # {}
      <4>1. Cardinality(Reserving(s, k)') # 0
        BY <1>m, <2>2, <3>1 DEF Reservation
      <4>2. Reserving(s, k)' \subseteq Callers
        BY <1>j, Sets, ZenonT(40)
      <4> QED  BY <4>1, <4>2, Counted
    <3>3. \A d \in Reserving(s, k)' : d \in Reserving(s, k) /\ Locks!Mode(d)' = Locks!Mode(d)
      BY <1>h, <1>j, Sets, ZenonT(40)
    <3>4. \A d \in Reserving(s, k)' : Locks!Mode(d)' = q.mode
      BY <1>g, <3>1, <3>3, ZenonT(40)
    <3>5. \A d, e \in Reserving(s, k)' : d = e \/ Locks!Mode(d)' = "shared"
      BY <1>g, <3>3, ZenonT(40) DEF KeyCount
    <3> QED  BY <1>n, <2>2, <3>1, <3>2, <3>4, <3>5, ZenonT(40) DEF KeyCount
  <2>3. CASE t # s \/ j # k
    <3>1. keys'[t][j] = keys[t][j] /\ Reserving(t, j)' = Reserving(t, j)
      BY <1>j, <1>n, <2>3, ZenonT(40)
    <3>2. \A d \in Reserving(t, j) : Locks!Mode(d)' = Locks!Mode(d)
      BY <1>h, Sets, ZenonT(40)
    <3> QED  BY <2>0, <3>1, <3>2, SameKeyCount, ZenonT(40)
  <2> QED  BY <2>1, <2>2, <2>3, ZenonT(40)
<1>5. ASSUME NEW t \in Sessions, NEW j \in Keys, NEW i \in Modes PROVE LockCount(t, j, i)'
  <2>1. LockCount(t, j, i)
    BY Parts
  <2>2. Lockers(t, j, i)' = Lockers(t, j, i)
    <3>1. \A d \in Callers : d \in Reserving(t, j)' /\ d # c <=> d \in Reserving(t, j) /\ d # c
      BY <1>j
    <3>2. Reserving(t, j)' \subseteq Callers
      BY ZenonT(40) DEF Reserving
    <3> QED  BY <1>a, <1>h, <3>1, <3>2, Sets, ZenonT(40) DEF Lockers
  <2>3. CASE alive'[t] <=> alive[t]
    BY <2>1, <2>2, <2>3, ZenonT(40) DEF LockCount
  <2>4. CASE ~(alive'[t] <=> alive[t])
    <3>0. t = s
      BY <1>o, <2>4, ZenonT(40)
    <3>1. t = s /\ ~alive[t] /\ alive'[t] /\ Users(s) = {c}
      BY <1>k, <1>o, <2>4, <3>0, ZenonT(40)
    <3>2. Lockers(t, j, i) = {}
      BY <1>a, <3>1, Sets, ZenonT(40) DEF Lockers
    <3>3. Cardinality(Lockers(t, j, i)') = 0
      BY <2>2, <3>2, Counted
    <3> QED  BY <2>1, <3>1, <3>3, ZenonT(40) DEF LockCount
  <2> QED  BY <2>3, <2>4, ZenonT(40)
<1>6. ASSUME NEW d \in Callers, NEW e \in Callers PROVE Apart(d, e)'
  <2>1. Apart(d, e)
    BY Parts
  <2> QED  BY <1>h, <1>q, <2>1, ZenonT(40) DEF Apart
<1>7. NoneEnters
  <2>1. ASSUME NEW d \in Callers, Inside(d)' PROVE Inside(d) /\ Locks!Mode(d)' = Locks!Mode(d)
    <3>1. callPc'[d] = "inside" /\ alive'[lease'[d]] /\ HoldsPlace(d)'
      BY <2>1, ZenonT(40) DEF Inside, HoldsPlace
    <3>2. d # c
      BY <1>h, <3>1, ZenonT(40)
    <3> QED  BY <1>h, <1>q, <3>1, <3>2, ZenonT(40) DEF Inside
  <2> QED  BY <2>1, ZenonT(40) DEF NoneEnters
<1> QED  BY <1>1, <1>2, <1>3, <1>4, <1>5, <1>6, <1>7, ZenonT(40) DEF CallInv

\* A connection breaks: Postgres frees its locks.
LEMMA BreakCall ==
  ASSUME CallsAssumed, CallInv, NEW s \in Sessions, Locks!Break(s)
  PROVE  CallInv'
<1>a. CallTypes /\ breaks + 1 \in 0..MaxBreaks /\ references[s] > 0 /\ references[s] \in Nat
  <2>1. CallTypes /\ breaks \in 0..MaxBreaks /\ breaks < MaxBreaks /\ references[s] > 0
    BY Parts, ZenonT(40) DEF Locks!Break, CallTypes
  <2>2. references[s] \in Nat
    BY <2>1 DEF CallTypes
  <2>3. breaks + 1 \in 0..MaxBreaks
    BY <2>1 DEF CallsAssumed
  <2> QED  BY <2>1, <2>2, <2>3
<1>b. /\ breaks' = breaks + 1 /\ alive' = [alive EXCEPT ![s] = FALSE]
      /\ sessionLocks' = [sessionLocks EXCEPT ![s] = [k \in Keys |-> Locks!Free]]
      /\ UNCHANGED <<callPc, kind, lease, references, keys>>
  BY DEF Locks!Break
<1>c. /\ alive' \in [Sessions -> BOOLEAN] /\ ~alive'[s] /\ \A t \in Sessions \ {s} : alive'[t] = alive[t]
  BY <1>a, <1>b DEF CallTypes
<1>d. Locks!Free \in [shared : Nat, exclusive : Nat] /\ \A m \in Modes : Locks!Free[m] = 0
  BY DEF Locks!Free, Modes
<1>e. /\ sessionLocks' \in [Sessions -> [Keys -> [shared : Nat, exclusive : Nat]]]
      /\ \A k \in Keys : sessionLocks'[s][k] = Locks!Free
      /\ \A t \in Sessions \ {s}, k \in Keys : sessionLocks'[t][k] = sessionLocks[t][k]
  BY <1>a, <1>b, <1>d, ZenonT(40) DEF CallTypes
<1>f. /\ \A t, k : Users(t)' = Users(t) /\ Reserving(t, k)' = Reserving(t, k)
      /\ \A c : Locks!Mode(c)' = Locks!Mode(c) /\ (HoldsPlace(c)' <=> HoldsPlace(c))
  BY <1>b, ZenonT(40) DEF Users, Reserving, Locks!Mode, HoldsPlace
<1>1. CallTypes'
  BY <1>a, <1>b, <1>c, <1>e, ZenonT(40) DEF CallTypes
<1>2. Leased'
  BY <1>b, Parts, ZenonT(40) DEF Leased
<1>3. ASSUME NEW t \in Sessions PROVE RefCount(t)'
  <2>1. RefCount(t)
    BY Parts
  <2>2. references[s] # 0
    BY <1>a
  <2> QED  BY <1>b, <1>c, <1>f, <2>1, <2>2, ZenonT(40) DEF RefCount
<1>4. \A t \in Sessions, k \in Keys : KeyCount(t, k)'
  <2>1. keys' = keys
    BY <1>b
  <2> QED  BY <1>f, <2>1, Parts, SameKeyCount, ZenonT(40)
<1>5. ASSUME NEW t \in Sessions, NEW k \in Keys, NEW m \in Modes PROVE LockCount(t, k, m)'
  <2>1. LockCount(t, k, m)
    BY Parts
  <2>2. CASE t = s
    BY <1>c, <1>d, <1>e, <2>2, ZenonT(40) DEF LockCount
  <2>3. CASE t # s
    <3>1. Lockers(t, k, m)' = Lockers(t, k, m)
      BY <1>f, ZenonT(40) DEF Lockers
    <3> QED  BY <1>c, <1>e, <2>1, <2>3, <3>1, ZenonT(40) DEF LockCount
  <2> QED  BY <2>2, <2>3
<1>6. ASSUME NEW c \in Callers, NEW d \in Callers PROVE Apart(c, d)'
  <2>1. Apart(c, d)
    BY Parts
  <2>2. \A x \in Callers : HoldsPlace(x) /\ alive'[lease[x]] => alive[lease[x]]
    <3>1. ASSUME NEW x \in Callers, HoldsPlace(x), alive'[lease[x]] PROVE alive[lease[x]]
      <4>1. callPc[x] \in Using
        BY <3>1 DEF HoldsPlace, Using
      <4>2. lease[x] \in Sessions
        BY <4>1, InUse, ZenonT(40)
      <4> QED  BY <1>c, <3>1, <4>2, ZenonT(40)
    <3> QED  BY <3>1
  <2> QED  BY <1>b, <1>f, <2>1, <2>2, ZenonT(40) DEF Apart
<1> QED  BY <1>1, <1>2, <1>3, <1>4, <1>5, <1>6, ZenonT(40) DEF CallInv

\* A call moves, and its connection does not change.
LEMMA MoveCall ==
  ASSUME CallsAssumed, CallInv, NEW c \in Callers,
         UNCHANGED <<lease, references, keys, sessionLocks, alive, breaks>>,
         NEW to \in {"asked", "refused", "failed", "unlocking", "unlocked"}, callPc' = [callPc EXCEPT ![c] = to],
         NEW kd \in {"lock", "shared", "try"}, kind' = [kind EXCEPT ![c] = kd],
         \/ callPc[c] \notin Using /\ to \notin Using
         \/ callPc[c] = "inside" /\ to = "unlocking" /\ kd = kind[c]
         \/ callPc[c] = "unlocking" /\ to = "unlocked" /\ kd = kind[c] /\ ~alive[lease[c]]
  PROVE  CallInv' /\ NoneEnters
<1>a. CallTypes /\ Leased
  BY Parts, ZenonT(40)
<1>b. /\ callPc'[c] = to /\ kind'[c] = kd
      /\ \A d \in Callers \ {c} : callPc'[d] = callPc[d] /\ kind'[d] = kind[d]
  BY <1>a DEF CallTypes
<1>c. "inside" \in Using /\ "unlocking" \in Using /\ "unlocked" \in Using
  BY DEF Using
<1>1. CallTypes'
  <2>1. /\ callPc' \in [Callers -> {"idle", "asked", "reserved", "inside", "unlocking", "unlocked",
                                    "done", "refused", "failed"}]
        /\ kind' \in [Callers -> {"lock", "shared", "try"}]
    BY <1>a DEF CallTypes
  <2> QED  BY <1>a, <2>1, ZenonT(40) DEF CallTypes
<1>2. ASSUME NEW d \in Callers, lease[d] = None PROVE callPc'[d] \notin Using
  BY <1>a, <1>b, <1>c, <1>2, ZenonT(40) DEF Leased
<1>3. ASSUME NEW d \in Callers, lease[d] # None
      PROVE  /\ callPc'[d] \in Using /\ kind'[d] = kind[d]
             /\ alive[lease[d]] => (HoldsPlace(d)' <=> HoldsPlace(d))
  <2>1. callPc[d] \in Using
    BY <1>a, <1>3, ZenonT(40) DEF Leased
  <2>2. CASE d # c
    BY <1>b, <2>1, <2>2, ZenonT(40) DEF HoldsPlace
  <2>3. CASE d = c /\ to = "unlocking"
    BY <1>b, <1>c, <2>1, <2>3, ZenonT(40) DEF HoldsPlace
  <2>4. CASE d = c /\ to = "unlocked"
    BY <1>b, <1>c, <2>1, <2>4, ZenonT(40)
  <2>5. d = c => to = "unlocking" \/ to = "unlocked"
    BY <2>1, ZenonT(40)
  <2> QED  BY <2>2, <2>3, <2>4, <2>5, ZenonT(40)
<1>4. CallInv'
  BY <1>1, <1>2, <1>3, QuietCalls, ZenonT(40)
<1>5. NoneEnters
  <2>1. ASSUME NEW d \in Callers, Inside(d)' PROVE Inside(d) /\ Locks!Mode(d)' = Locks!Mode(d)
    <3>1. callPc'[d] = "inside" /\ alive[lease[d]]
      BY <2>1, ZenonT(40) DEF Inside
    <3>2. d # c
      BY <1>b, <3>1, ZenonT(40)
    <3> QED  BY <1>b, <3>1, <3>2, ZenonT(40) DEF Inside, Locks!Mode
  <2> QED  BY <2>1, ZenonT(40) DEF NoneEnters
<1> QED  BY <1>4, <1>5

\* A call that keeps its kind.
LEMMA SameKind ==
  ASSUME CallTypes, NEW c \in Callers
  PROVE  kind = [kind EXCEPT ![c] = kind[c]] /\ kind[c] \in {"lock", "shared", "try"}
  BY DEF CallTypes

\* The calls' steps, one by one.
LEMMA WaitingCall ==
  ASSUME CallsAssumed, CallInv, NEW c \in Callers,
         \/ \E kd \in Locks!Kinds : Locks!Call(c, kd)
         \/ Locks!ReuseTaken(c) \/ Locks!ConnectTimesOut(c) \/ Locks!GiveUp(c) \/ Locks!End(c) \/ Locks!UnlockFails(c)
  PROVE  CallInv' /\ NoneEnters
<1>a. CallTypes /\ Leased
  BY Parts
<1>b. kind = [kind EXCEPT ![c] = kind[c]] /\ kind[c] \in {"lock", "shared", "try"}
  BY <1>a, SameKind, ZenonT(40)
<1>c. "asked" \notin Using /\ "refused" \notin Using /\ "failed" \notin Using /\ "idle" \notin Using
  BY DEF Using
<1>1. ASSUME NEW kd \in Locks!Kinds, Locks!Call(c, kd) PROVE CallInv' /\ NoneEnters
  <2>1. /\ callPc[c] = "idle" /\ callPc' = [callPc EXCEPT ![c] = "asked"] /\ kind' = [kind EXCEPT ![c] = kd]
        /\ UNCHANGED <<lease, references, keys, sessionLocks, alive, breaks>> /\ kd \in {"lock", "shared", "try"}
    BY <1>1, ZenonT(40) DEF Locks!Call, Locks!Kinds
  <2> QED  BY <1>c, <2>1, MoveCall, ZenonT(40)
<1>2. ASSUME Locks!ReuseTaken(c) \/ Locks!ConnectTimesOut(c) \/ Locks!GiveUp(c) PROVE CallInv' /\ NoneEnters
  <2>1. PICK to \in {"asked", "refused", "failed"} : callPc' = [callPc EXCEPT ![c] = to]
    BY <1>2, ZenonT(40) DEF Locks!ReuseTaken, Locks!ConnectTimesOut, Locks!GiveUp, Locks!Missed
  <2>2. callPc[c] = "asked" /\ UNCHANGED <<kind, lease, references, keys, sessionLocks, alive, breaks>>
    BY <1>2, ZenonT(40) DEF Locks!ReuseTaken, Locks!ConnectTimesOut, Locks!GiveUp
  <2>3. kind' = [kind EXCEPT ![c] = kind[c]] /\ to \notin Using
    BY <1>b, <1>c, <2>1, <2>2
  <2> QED  BY <1>b, <1>c, <2>1, <2>2, <2>3, MoveCall, ZenonT(40)
<1>3. ASSUME Locks!End(c) PROVE CallInv' /\ NoneEnters
  <2>1. /\ callPc[c] = "inside" /\ callPc' = [callPc EXCEPT ![c] = "unlocking"]
        /\ UNCHANGED <<kind, lease, references, keys, sessionLocks, alive, breaks>>
    BY <1>3, ZenonT(40) DEF Locks!End
  <2>2. kind' = [kind EXCEPT ![c] = kind[c]]
    BY <1>b, <2>1
  <2> QED  BY <1>b, <2>1, <2>2, MoveCall, ZenonT(40)
<1>4. ASSUME Locks!UnlockFails(c) PROVE CallInv' /\ NoneEnters
  <2>1. /\ callPc[c] = "unlocking" /\ ~alive[lease[c]] /\ callPc' = [callPc EXCEPT ![c] = "unlocked"]
        /\ UNCHANGED <<kind, lease, references, keys, sessionLocks, alive, breaks>>
    BY <1>4, ZenonT(40) DEF Locks!UnlockFails
  <2>2. kind' = [kind EXCEPT ![c] = kind[c]]
    BY <1>b, <2>1
  <2> QED  BY <1>b, <2>1, <2>2, MoveCall, ZenonT(40)
<1> QED  BY <1>1, <1>2, <1>3, <1>4, ZenonT(40)

\* An attempt begins, on the connection of the body around it or on a free one.
LEMMA StartingCall ==
  ASSUME CallsAssumed, CallInv, NEW c \in Callers, Locks!Reuse(c) \/ Locks!Connect(c)
  PROVE  CallInv' /\ NoneEnters
<1>a. CallTypes /\ Leased /\ CallKey[c] \in Keys /\ callPc[c] = "asked"
  BY Parts, ZenonT(40) DEF CallsAssumed, Locks!Reuse, Locks!Connect
<1>1. PICK s \in Sessions : ~Locks!Taken(s, CallKey[c], Locks!Mode(c)) /\ Locks!Begin(c, s)
  <2>1. CASE Locks!Reuse(c)
    <3>1. PICK p : p = Parent[c] /\ p # None /\ callPc[p] \in Using
      BY <2>1, ZenonT(40) DEF Locks!Reuse, Locks!Active, Using
    <3>2. p \in Callers
      BY <3>1 DEF CallsAssumed
    <3>3. lease[p] \in Sessions
      BY <3>1, <3>2, InUse, ZenonT(40)
    <3> QED  BY <2>1, <3>1, <3>3, ZenonT(40) DEF Locks!Reuse
  <2>2. CASE Locks!Connect(c)
    <3>1. PICK s \in Sessions : references[s] = 0 /\ Locks!Begin(c, s)
      BY <2>2, ZenonT(40) DEF Locks!Connect
    <3>2. RefCount(s) /\ KeyCount(s, CallKey[c])
      BY <1>a, Parts, ZenonT(40)
    <3>3. Users(s) = {}
      BY <3>1, <3>2, Sets, Counted, ZenonT(40) DEF RefCount
    <3>4. Reserving(s, CallKey[c]) = {}
      BY <3>3, Sets
    <3> QED  BY <3>1, <3>2, <3>4, ZenonT(40) DEF KeyCount, Locks!Taken
  <2> QED  BY <2>1, <2>2
<1>2. CallInv'
  BY <1>a, <1>1, BeginCall, ZenonT(40)
<1>3. NoneEnters
  <2>0. /\ callPc' = [callPc EXCEPT ![c] = "reserved"] /\ lease' = [lease EXCEPT ![c] = s]
        /\ kind' = kind /\ alive' = alive
    BY <1>1, ZenonT(40) DEF Locks!Begin
  <2>1. callPc'[c] = "reserved" /\ \A d \in Callers \ {c} : lease'[d] = lease[d] /\ callPc'[d] = callPc[d]
    BY <1>a, <2>0 DEF CallTypes
  <2>2. ASSUME NEW d \in Callers, Inside(d)' PROVE Inside(d) /\ Locks!Mode(d)' = Locks!Mode(d)
    <3>1. d # c
      BY <2>1, <2>2 DEF Inside
    <3> QED  BY <2>0, <2>1, <2>2, <3>1, ZenonT(40) DEF Inside, Locks!Mode
  <2> QED  BY <2>2, ZenonT(40) DEF NoneEnters
<1> QED  BY <1>2, <1>3

\* An attempt ends, with the lock refused, with an error or after the body.
LEMMA EndingCall ==
  ASSUME CallsAssumed, CallInv, NEW c \in Callers, Locks!NotLocked(c) \/ Locks!AskFails(c) \/ Locks!Release(c)
  PROVE  CallInv' /\ NoneEnters
<1>1. PICK to \in {"asked", "refused", "failed", "done"} : Locks!Drop(c, to)
  BY ZenonT(40) DEF Locks!NotLocked, Locks!AskFails, Locks!Release, Locks!Missed
<1>2. callPc[c] \in {"reserved", "unlocked"} /\ UNCHANGED sessionLocks
  BY ZenonT(40) DEF Locks!NotLocked, Locks!AskFails, Locks!Release
<1> QED  BY <1>1, <1>2, DropCall, ZenonT(40)

\* Locks are freed, by an unlock or with the connection.
LEMMA FreeingCall ==
  ASSUME CallsAssumed, CallInv, \/ \E c \in Callers : Locks!Unlock(c)
                                \/ \E s \in Sessions : Locks!Break(s)
  PROVE  CallInv' /\ NoneEnters
<1>a. CallTypes
  BY Parts
<1>1. ASSUME NEW c \in Callers, Locks!Unlock(c) PROVE NoneEnters
  <2>0. callPc' = [callPc EXCEPT ![c] = "unlocked"] /\ UNCHANGED <<kind, lease, alive>>
    BY <1>1, ZenonT(40) DEF Locks!Unlock
  <2>1. callPc'[c] = "unlocked" /\ \A d \in Callers \ {c} : callPc'[d] = callPc[d]
    BY <1>a, <2>0 DEF CallTypes
  <2>2. ASSUME NEW d \in Callers, Inside(d)' PROVE Inside(d) /\ Locks!Mode(d)' = Locks!Mode(d)
    <3>1. d # c
      BY <2>1, <2>2 DEF Inside
    <3> QED  BY <2>0, <2>1, <2>2, <3>1, ZenonT(40) DEF Inside, Locks!Mode
  <2> QED  BY <2>2, ZenonT(40) DEF NoneEnters
<1>2. ASSUME NEW s \in Sessions, Locks!Break(s) PROVE NoneEnters
  <2>0. alive' = [alive EXCEPT ![s] = FALSE] /\ UNCHANGED <<callPc, kind, lease>>
    BY <1>2, ZenonT(40) DEF Locks!Break
  <2>1. ASSUME NEW d \in Callers, Inside(d)' PROVE Inside(d) /\ Locks!Mode(d)' = Locks!Mode(d)
    <3>1. callPc[d] = "inside" /\ alive'[lease[d]]
      BY <2>0, <2>1, ZenonT(40) DEF Inside
    <3>2. callPc[d] \in Using
      BY <3>1 DEF Using
    <3>3. lease[d] \in Sessions
      BY <3>2, InUse, ZenonT(40)
    <3>4. alive[lease[d]]
      BY <1>a, <2>0, <3>1, <3>3 DEF CallTypes
    <3> QED  BY <2>0, <3>1, <3>4, ZenonT(40) DEF Inside, Locks!Mode
  <2> QED  BY <2>1, ZenonT(40) DEF NoneEnters
<1> QED  BY <1>1, <1>2, UnlockCall, BreakCall, ZenonT(40)

\* At the start there is nothing to count.
LEMMA InitCalls == ASSUME CallsAssumed, Locks!Init PROVE CallInv
<1>1. CallTypes
  <2>1. Locks!Free \in [shared : Nat, exclusive : Nat] /\ breaks \in 0..MaxBreaks /\ 0 \in Nat
    BY DEF Locks!Init, Locks!Free, CallsAssumed
  <2>2. /\ callPc \in [Callers -> {"idle", "asked", "reserved", "inside", "unlocking", "unlocked",
                                   "done", "refused", "failed"}]
        /\ kind \in [Callers -> {"lock", "shared", "try"}]
    BY ZenonT(40) DEF Locks!Init
  <2>3. lease \in [Callers -> Sessions \cup {None}] /\ references \in [Sessions -> Nat]
    BY <2>1, ZenonT(40) DEF Locks!Init
  <2>4. /\ keys \in [Sessions -> [Keys -> Reservation \cup {None}]]
        /\ sessionLocks \in [Sessions -> [Keys -> [shared : Nat, exclusive : Nat]]]
    BY <2>1, ZenonT(40) DEF Locks!Init
  <2>5. alive \in [Sessions -> BOOLEAN]
    BY ZenonT(40) DEF Locks!Init
  <2> QED  BY <2>1, <2>2, <2>3, <2>4, <2>5, ZenonT(40) DEF CallTypes
<1>2. /\ \A c \in Callers : lease[c] = None /\ callPc[c] = "idle"
      /\ \A s \in Sessions : references[s] = 0 /\ alive[s]
      /\ \A s \in Sessions, k \in Keys : keys[s][k] = None
      /\ \A s \in Sessions, k \in Keys, m \in Modes : sessionLocks[s][k][m] = 0
  <2>1. \A m \in Modes : Locks!Free[m] = 0
    BY DEF Locks!Free, Modes
  <2>2. \A s \in Sessions, k \in Keys : keys[s][k] = None /\ sessionLocks[s][k] = Locks!Free
    BY ZenonT(40) DEF Locks!Init
  <2>3. /\ \A c \in Callers : lease[c] = None /\ callPc[c] = "idle"
        /\ \A s \in Sessions : references[s] = 0 /\ alive[s]
    BY ZenonT(40) DEF Locks!Init
  <2> QED  BY <2>1, <2>2, <2>3, ZenonT(40)
<1>3. \A s \in Sessions : Users(s) = {}
  <2>1. ASSUME NEW s \in Sessions, NEW c \in Callers PROVE lease[c] # s
    BY <1>2 DEF CallsAssumed
  <2> QED  BY <2>1, ZenonT(40) DEF Users
<1>4. \A s \in Sessions, k \in Keys : Reserving(s, k) = {} /\ \A m \in Modes : Lockers(s, k, m) = {}
  BY <1>2, ZenonT(40) DEF Reserving, Lockers, CallsAssumed
<1>5. Cardinality({}) = 0
  BY FS_EmptySet
<1>6. Leased
  BY <1>2 DEF Leased, Using
<1>7. \A s \in Sessions : RefCount(s)
  BY <1>2, <1>3, <1>5, ZenonT(40) DEF RefCount
<1>8. \A s \in Sessions, k \in Keys : KeyCount(s, k)
  BY <1>2, <1>4, ZenonT(40) DEF KeyCount
<1>9. \A s \in Sessions, k \in Keys, m \in Modes : LockCount(s, k, m)
  BY <1>2, <1>4, <1>5, ZenonT(40) DEF LockCount
<1>10. \A c, d \in Callers : Apart(c, d)
  BY <1>2 DEF Apart, HoldsPlace
<1> QED  BY <1>1, <1>6, <1>7, <1>8, <1>9, <1>10, ZenonT(40) DEF CallInv

\* Every step keeps what the calls are, and either a body is granted its
\* lock or none begins.
LEMMA NextCalls ==
  ASSUME CallsAssumed, CallInv, [Locks!Next]_(Locks!vars)
  PROVE  CallInv' /\ (NoneEnters \/ \E c \in Callers : Locks!Locked(c))
<1>1. ASSUME UNCHANGED Locks!vars PROVE CallInv' /\ NoneEnters
  <2>1. UNCHANGED <<callPc, kind, lease, references, keys, sessionLocks, alive, breaks>>
    BY <1>1 DEF Locks!vars
  <2>2. CallInv'
    <3>1. CallTypes' /\ Leased'
      BY <2>1, Parts, ZenonT(40) DEF CallTypes, Leased
    <3>2. \A d \in Callers : /\ lease[d] = None => callPc'[d] \notin Using
                             /\ lease[d] # None => callPc'[d] \in Using /\ kind'[d] = kind[d]
                             /\ HoldsPlace(d)' <=> HoldsPlace(d)
      BY <2>1, Parts, ZenonT(40) DEF Leased, HoldsPlace
    <3> QED  BY <2>1, <3>1, <3>2, QuietCalls, ZenonT(40)
  <2>3. NoneEnters
    BY <2>1, ZenonT(40) DEF NoneEnters, Inside, Locks!Mode
  <2> QED  BY <2>2, <2>3
<1>2. ASSUME NEW c \in Callers, Locks!Step(c) PROVE CallInv' /\ (NoneEnters \/ Locks!Locked(c))
  BY <1>2, WaitingCall, StartingCall, EndingCall, FreeingCall, LockedCall, ZenonT(40) DEF Locks!Step
<1>3. ASSUME Locks!Next PROVE CallInv' /\ (NoneEnters \/ \E c \in Callers : Locks!Locked(c))
  BY <1>2, <1>3, WaitingCall, FreeingCall, ZenonT(40) DEF Locks!Next
<1> QED  BY <1>1, <1>3

\* withClient and run of createPostgresAdvisoryLock: a connection's references
\* are the calls that use it, a reservation counts the calls that made it,
\* Postgres counts the calls between lock and unlock on a connection that
\* is up, and two such calls with one key are both shared, on whatever
\* connections they are.
THEOREM CallsAreCounted == ASSUME CallsAssumed PROVE Locks!Spec => []CallInv
<1>1. Locks!Init => CallInv
  BY InitCalls
<1>2. CallInv /\ [Locks!Next]_(Locks!vars) => CallInv'
  BY NextCalls
<1> QED  BY <1>1, <1>2, PTL DEF Locks!Spec

\* The counts are within the number of calls.
LEMMA CountsAreTyped == ASSUME CallsAssumed, CallInv PROVE Locks!TypeOK
<1>1. CallTypes
  BY Parts
<1>2. ASSUME NEW s \in Sessions PROVE references[s] \in 0 .. Cardinality(Callers)
  <2>1. /\ references[s] = Cardinality(Users(s)) /\ Cardinality(Users(s)) \in Nat
        /\ Cardinality(Users(s)) <= Cardinality(Callers) /\ Cardinality(Callers) \in Nat
    <3>1. RefCount(s) /\ Users(s) \subseteq Callers /\ Callers \subseteq Callers
      BY Parts, Sets, ZenonT(40)
    <3> QED  BY <3>1, Counted, ZenonT(40) DEF RefCount
  <2> QED  BY <2>1
<1>3. ASSUME NEW s \in Sessions, NEW k \in Keys, NEW m \in Modes
      PROVE  sessionLocks[s][k][m] \in 0 .. Cardinality(Callers)
  <2>1. LockCount(s, k, m) /\ Lockers(s, k, m) \subseteq Callers /\ Callers \subseteq Callers
    BY Parts, Sets, ZenonT(40)
  <2>2. PICK n : n = Cardinality(Lockers(s, k, m)) /\ n \in Nat
                 /\ n <= Cardinality(Callers) /\ Cardinality(Callers) \in Nat
    BY <2>1, Counted, ZenonT(40)
  <2>3. sessionLocks[s][k][m] = n \/ sessionLocks[s][k][m] = 0
    BY <2>1, <2>2, ZenonT(40) DEF LockCount
  <2> QED  BY <2>2, <2>3, Arithmetic, ZenonT(40)
<1>4. ASSUME NEW s \in Sessions, NEW k \in Keys, keys[s][k] # None
      PROVE  keys[s][k].mode \in Modes /\ keys[s][k].count \in 1 .. Cardinality(Callers)
  <2>1. KeyCount(s, k) /\ Reserving(s, k) \subseteq Callers /\ Callers \subseteq Callers
    BY Parts, Sets, ZenonT(40)
  <2>2. PICK r \in Reservation : r = keys[s][k]
    BY <1>1, <1>4 DEF CallTypes
  <2>3. r.mode \in Modes /\ r.count \in Nat \ {0}
    BY <2>2 DEF Reservation
  <2>4. r.count = Cardinality(Reserving(s, k))
    BY <1>4, <2>1, <2>2, ZenonT(40) DEF KeyCount
  <2>5. Cardinality(Reserving(s, k)) <= Cardinality(Callers) /\ Cardinality(Callers) \in Nat
    BY <2>1, Counted, ZenonT(40)
  <2>6. r.count \in 1 .. Cardinality(Callers)
    BY <2>3, <2>4, <2>5
  <2> QED  BY <2>2, <2>3, <2>6, ZenonT(40)
<1>5. references \in [Sessions -> 0 .. Cardinality(Callers)]
  BY <1>1, <1>2 DEF CallTypes
<1>6. ASSUME NEW s \in Sessions, NEW k \in Keys
      PROVE  /\ sessionLocks[s][k].shared \in 0 .. Cardinality(Callers)
             /\ sessionLocks[s][k].exclusive \in 0 .. Cardinality(Callers)
  BY <1>3, ZenonT(40) DEF Modes
<1>7. \A s \in Sessions, k \in Keys :
        /\ keys[s][k] # None => /\ keys[s][k].mode \in {"shared", "exclusive"}
                                /\ keys[s][k].count \in 1 .. Cardinality(Callers)
        /\ sessionLocks[s][k].shared \in 0 .. Cardinality(Callers)
        /\ sessionLocks[s][k].exclusive \in 0 .. Cardinality(Callers)
  BY <1>4, <1>6, ZenonT(40) DEF Modes
<1>8. /\ callPc \in [Callers -> {"idle", "asked", "reserved", "inside", "unlocking", "unlocked",
                                 "done", "refused", "failed"}]
      /\ kind \in [Callers -> Locks!Kinds] /\ lease \in [Callers -> Sessions \cup {None}]
      /\ alive \in [Sessions -> BOOLEAN] /\ breaks \in 0 .. MaxBreaks
  BY <1>1, ZenonT(40) DEF CallTypes, Locks!Kinds
<1>9. Locks!Cardinality(Callers) = Cardinality(Callers)
  BY DEF Locks!Cardinality, Cardinality
<1> QED  BY <1>5, <1>7, <1>8, <1>9, ZenonT(40) DEF Locks!TypeOK

\* A body is counted among the users and among the lockers.
LEMMA CountsHold == ASSUME CallsAssumed, CallInv PROVE Locks!BodyHoldsLock
<1> SUFFICES ASSUME NEW c \in Callers, callPc[c] = "inside", alive[lease[c]]
             PROVE  references[lease[c]] > 0 /\ sessionLocks[lease[c]][CallKey[c]][Locks!Mode(c)] > 0
  BY ZenonT(40) DEF Locks!BodyHoldsLock
<1>1. callPc[c] \in Using /\ HoldsPlace(c)
  BY DEF Using, HoldsPlace
<1>2. PICK s \in Sessions, k \in Keys, m \in Modes :
        /\ s = lease[c] /\ k = CallKey[c] /\ m = Locks!Mode(c)
        /\ c \in Users(s) /\ c \in Lockers(s, k, m)
  BY <1>1, InUse, ZenonT(40)
<1>3. /\ RefCount(s) /\ LockCount(s, k, m) /\ Users(s) \subseteq Callers /\ Lockers(s, k, m) \subseteq Callers
      /\ Users(s) # {} /\ Lockers(s, k, m) # {}
  BY <1>2, Parts, Sets, ZenonT(40)
<1>4. references[s] \in Nat /\ references[s] # 0
  BY <1>3, Counted, ZenonT(40) DEF RefCount
<1>5. sessionLocks[s][k][m] \in Nat /\ sessionLocks[s][k][m] # 0
  BY <1>2, <1>3, Counted, ZenonT(40) DEF LockCount
<1>6. references[s] > 0 /\ sessionLocks[s][k][m] > 0
  BY <1>4, <1>5
<1> QED  BY <1>2, <1>6, ZenonT(40)

\* A connection nobody uses has nothing to count.
LEMMA CountsClean == ASSUME CallsAssumed, CallInv PROVE Locks!CleanPool
<1> SUFFICES ASSUME NEW s \in Sessions, references[s] = 0, NEW k \in Keys
             PROVE  alive[s] /\ sessionLocks[s][k] = Locks!Free /\ keys[s][k] = None
  <2>1. ASSUME NEW s \in Sessions, references[s] = 0 PROVE alive[s]
    BY <2>1, Parts, ZenonT(40) DEF RefCount
  <2> QED  BY <2>1, ZenonT(40) DEF Locks!CleanPool
<1>1. RefCount(s) /\ KeyCount(s, k) /\ Users(s) \subseteq Callers /\ CallTypes
  BY Parts, Sets, ZenonT(40)
<1>2. alive[s] /\ Users(s) = {}
  BY <1>1, Counted, ZenonT(40) DEF RefCount
<1>3. Reserving(s, k) = {} /\ \A m \in Modes : Lockers(s, k, m) = {}
  BY <1>2, Sets, ZenonT(40)
<1>4. keys[s][k] = None
  BY <1>1, <1>3, ZenonT(40) DEF KeyCount
<1>5. Cardinality({}) = 0
  BY FS_EmptySet
<1>6. ASSUME NEW m \in Modes PROVE sessionLocks[s][k][m] = 0
  <2>1. LockCount(s, k, m) /\ Lockers(s, k, m) = {}
    BY <1>3, Parts, ZenonT(40)
  <2> QED  BY <1>2, <1>5, <2>1, ZenonT(40) DEF LockCount
<1>7. sessionLocks[s][k] \in [shared : Nat, exclusive : Nat]
  BY <1>1 DEF CallTypes
<1>8. sessionLocks[s][k] = Locks!Free
  BY <1>6, <1>7, ZenonT(40) DEF Modes, Locks!Free
<1> QED  BY <1>2, <1>4, <1>8

\* The same two, as a caller sees them: a body whose connection is up has
\* it out of the pool with its lock counted in Postgres, and a connection
\* goes back to the pool up, without a lock and without a reservation.
THEOREM BodiesHoldLocks ==
  ASSUME CallsAssumed
  PROVE  Locks!Spec => [](Locks!TypeOK /\ Locks!BodyHoldsLock /\ Locks!CleanPool)
<1>1. CallInv => Locks!TypeOK /\ Locks!BodyHoldsLock /\ Locks!CleanPool
  BY CountsAreTyped, CountsHold, CountsClean
<1> QED  BY <1>1, CallsAreCounted, PTL

\* Bodies that end, or lose their connection, leave the abstract lock.
LEMMA BodiesLeave ==
  ASSUME NoneEnters, NEW k PROVE Locks!Promise(k)!Next
<1> DEFINE S == {d \in Callers : Inside(d) /\ CallKey[d] = k /\ ~(Inside(d)')}
<1>1. \A d \in Callers : Locks!Holds(k)[d] = IF Inside(d) /\ CallKey[d] = k THEN Locks!Mode(d) ELSE "none"
  BY ZenonT(40) DEF Locks!Holds, Inside
<1>2. Locks!Holds(k)' = [d \in Callers |-> IF Inside(d)' /\ CallKey[d] = k THEN Locks!Mode(d)' ELSE "none"]
  BY DEF Locks!Holds, Inside
<1>3. \A d \in Callers : Locks!Mode(d) # "none"
  BY DEF Locks!Mode
<1>4. \A d \in S : Locks!Holds(k)[d] # "none"
  BY <1>1, <1>3, ZenonT(40)
<1>5. ASSUME NEW d \in Callers
      PROVE (IF Inside(d)' /\ CallKey[d] = k THEN Locks!Mode(d)' ELSE "none")
              = IF d \in S THEN "none" ELSE Locks!Holds(k)[d]
  <2>1. Inside(d)' => Inside(d) /\ Locks!Mode(d)' = Locks!Mode(d)
    BY DEF NoneEnters
  <2> QED  BY <1>1, <2>1, ZenonT(40)
<1>6. Locks!Holds(k)' = [d \in Callers |-> IF d \in S THEN "none" ELSE Locks!Holds(k)[d]]
  BY <1>2, <1>5, ZenonT(40)
<1>7. Locks!Promise(k)!Leave(S) /\ S \in SUBSET Callers
  BY <1>4, <1>6, ZenonT(40) DEF Locks!Promise!Leave
<1> QED  BY <1>7, ZenonT(40) DEF Locks!Promise!Next

\* A body that is granted its lock enters the abstract one.
LEMMA BodyEnters ==
  ASSUME CallsAssumed, CallInv, CallInv', NEW c \in Callers, Locks!Locked(c), NEW k
  PROVE  UNCHANGED Locks!Holds(k) \/ Locks!Promise(k)!Next
<1>a. CallTypes /\ callPc[c] = "reserved" /\ alive[lease[c]] /\ UNCHANGED <<kind, lease, alive>>
      /\ callPc' = [callPc EXCEPT ![c] = "inside"]
  BY Parts, ZenonT(40) DEF Locks!Locked
<1>b. callPc'[c] = "inside" /\ \A d \in Callers \ {c} : callPc'[d] = callPc[d]
  BY <1>a DEF CallTypes
<1>c. ~Inside(c) /\ Inside(c)' /\ \A d \in Callers \ {c} : Inside(d)' <=> Inside(d)
  BY <1>a, <1>b, ZenonT(40) DEF Inside
<1>d. \A d \in Callers : Locks!Mode(d)' = Locks!Mode(d)
  BY <1>a, ZenonT(40) DEF Locks!Mode
<1>1. Locks!Holds(k) = [d \in Callers |-> IF Inside(d) /\ CallKey[d] = k THEN Locks!Mode(d) ELSE "none"]
  BY DEF Locks!Holds, Inside
<1>2. Locks!Holds(k)' = [d \in Callers |-> IF Inside(d)' /\ CallKey[d] = k THEN Locks!Mode(d)' ELSE "none"]
  BY DEF Locks!Holds, Inside
<1>3. CASE CallKey[c] # k
  <2>1. \A d \in Callers : (IF Inside(d)' /\ CallKey[d] = k THEN Locks!Mode(d)' ELSE "none")
                             = IF Inside(d) /\ CallKey[d] = k THEN Locks!Mode(d) ELSE "none"
    BY <1>c, <1>d, <1>3, ZenonT(40)
  <2> QED  BY <1>1, <1>2, <2>1, ZenonT(40)
<1>4. CASE CallKey[c] = k
  <2>1. Locks!Holds(k)[c] = "none"
    BY <1>1, <1>c
  <2>2. ASSUME NEW d \in Callers, Locks!Holds(k)[d] # "none"
        PROVE  Locks!Mode(c) = "shared" /\ Locks!Holds(k)[d] = "shared"
    <3>1. Inside(d) /\ CallKey[d] = k /\ Locks!Holds(k)[d] = Locks!Mode(d)
      BY <1>1, <2>2
    <3>2. d # c /\ Inside(d)'
      BY <1>c, <3>1, ZenonT(40)
    <3>3. Apart(c, d)'
      BY Parts DEF CallInv
    <3>4. /\ HoldsPlace(c)' /\ alive'[lease'[c]] /\ HoldsPlace(d)' /\ alive'[lease'[d]]
      BY <1>c, <3>2, ZenonT(40) DEF HoldsPlace, Inside
    <3>5. Locks!Mode(c)' = "shared" /\ Locks!Mode(d)' = "shared"
      BY <1>4, <3>1, <3>2, <3>3, <3>4, ZenonT(40) DEF Apart
    <3> QED  BY <1>d, <3>1, <3>5, ZenonT(40)
  <2>3. Locks!Holds(k)' = [Locks!Holds(k) EXCEPT ![c] = Locks!Mode(c)]
    <3>1. \A d \in Callers : (IF Inside(d)' /\ CallKey[d] = k THEN Locks!Mode(d)' ELSE "none")
                               = IF d = c THEN Locks!Mode(c) ELSE Locks!Holds(k)[d]
      <4>1. ASSUME NEW d \in Callers, d # c
            PROVE  (IF Inside(d)' /\ CallKey[d] = k THEN Locks!Mode(d)' ELSE "none") = Locks!Holds(k)[d]
        <5>1. Locks!Holds(k)[d] = IF Inside(d) /\ CallKey[d] = k THEN Locks!Mode(d) ELSE "none"
          BY <1>1, ZenonT(40)
        <5> QED  BY <1>c, <1>d, <4>1, <5>1, ZenonT(40)
      <4> QED  BY <1>c, <1>d, <1>4, <4>1, ZenonT(40)
    <3> HIDE DEF Locks!Holds
    <3>2. Locks!Holds(k)' = [d \in Callers |-> IF d = c THEN Locks!Mode(c) ELSE Locks!Holds(k)[d]]
      BY <1>2, <3>1, ZenonT(40)
    <3> QED  BY <1>1, <3>2
  <2>4. Locks!Mode(c) \in {"shared", "exclusive"}
    BY DEF Locks!Mode
  <2>5. Locks!Promise(k)!Enter(c, Locks!Mode(c))
    BY <2>1, <2>2, <2>3, ZenonT(40) DEF Locks!Promise!Enter, Locks!Promise!Compatible
  <2> QED  BY <2>4, <2>5, ZenonT(40) DEF Locks!Promise!Next, Locks!Promise!Modes
<1> QED  BY <1>3, <1>4

\* createPostgresAdvisoryLock implements the lock it promises, for every
\* key: a body is let in alone or among bodies that all share, whether the
\* others are on its own connection or on another, and whether or not the
\* body that opened the connection has ended.
THEOREM AdvisoryLockKeepsPromise == ASSUME CallsAssumed PROVE Locks!Spec => Locks!KeepsPromise
<1>1. ASSUME Locks!Init, NEW k \in Keys PROVE Locks!Promise(k)!Init
  BY <1>1 DEF Locks!Promise!Init, Locks!Holds, Locks!Init
<1>2. ASSUME CallInv, [Locks!Next]_(Locks!vars), NEW k \in Keys
      PROVE  UNCHANGED Locks!Holds(k) \/ Locks!Promise(k)!Next
  BY <1>2, NextCalls, BodiesLeave, BodyEnters, ZenonT(40)
<1>3. Locks!Init => \A k \in Keys : Locks!Promise(k)!Init
  BY <1>1
<1>4. CallInv /\ [Locks!Next]_(Locks!vars)
        => [\A k \in Keys : UNCHANGED Locks!Holds(k) \/ Locks!Promise(k)!Next]_(Locks!vars)
  BY <1>2, ZenonT(40)
<1> QED  BY <1>3, <1>4, CallsAreCounted, PTL DEF Locks!Spec, Locks!KeepsPromise
=============================================================================
