-------------------------- MODULE LeaderLeaseProofs --------------------------
(***************************************************************************)
(* For any number of processes, leases, calls and connections: two bodies run *)
(* under one lease only after one of them was told, or before its process    *)
(* noticed; connections go back to the pool clean; and an idle process keeps *)
(* none.  The inductive invariant says which calls a held key, a connection  *)
(* entry and a lock in Postgres belong to.                                   *)
(***************************************************************************)
EXTENDS LeaderLease, TLAPS

\* A call in these places has its key in held.
Active == {"opening", "asking", "inside", "unlocking", "leaving"}

\* held[p] is the keys of the calls under way in the process, one call for each key.
KeysHeld ==
    /\ \A h \in Holds : pc[h] \in Active => KeyOf[h] \in held[ProcessOf[h]]
    /\ \A g, h \in Holds :
          g # h /\ pc[g] \in Active /\ pc[h] \in Active /\ ProcessOf[g] = ProcessOf[h] => KeyOf[g] # KeyOf[h]
    /\ \A p \in Processes : \A k \in held[p] :
          \E h \in Holds : pc[h] \in Active /\ ProcessOf[h] = p /\ KeyOf[h] = k

\* A call under way uses its process's present connection entry, or one that is gone.  A present
\* entry has a client or waits for one, and a call that will look after it, unless a loss came between.
EntriesUsed ==
    /\ \A h \in Holds : pc[h] \notin {"idle", "over"} => entry[h] \in Conns /\ entry[h][1] = ProcessOf[h]
    /\ \A h \in Holds : pc[h] \in Active => conn[ProcessOf[h]] = entry[h] \/ state[entry[h]] = "gone"
    /\ \A p \in Processes : conn[p] # None =>
          /\ state[conn[p]] \in {"opening", "up", "broken"}
          /\ \/ \E h \in Holds : entry[h] = conn[p] /\ pc[h] \notin {"idle", "over"}
             \/ \E e \in Conns : e[1] = p /\ state[e] = "gone"

\* A lock in Postgres is of a live session, of one session, and of a call that runs its body or
\* gives the lock back.
LocksOwned ==
    /\ \A e \in Conns : locks[e] # {} => state[e] = "up"
    /\ \A e \in Conns : \A k \in locks[e] :
          \E h \in Holds : entry[h] = e /\ KeyOf[h] = k /\ pc[h] \in {"inside", "unlocking"}
    /\ \A e, f \in Conns : e # f => locks[e] \cap locks[f] = {}

\* A body was told, or it is on the list to tell and its lock is there or died with the session.
LeadersKnown ==
    \A h \in Holds : pc[h] = "inside" =>
        \/ told[h]
        \/ /\ h \in lost[entry[h]]
           /\ state[entry[h]] = "broken" \/ (state[entry[h]] = "up" /\ KeyOf[h] \in locks[entry[h]])

\* The inductive invariant.
IInv == TypeOK /\ KeysHeld /\ EntriesUsed /\ LocksOwned /\ LeadersKnown

\* The first part of a connection entry is its process.
LEMMA ConnsOfProcesses == \A e \in Conns : e[1] \in Processes
BY DEF Conns

\* Locks that are left, on sessions that stay, with their calls where they were, are owned as before.
LEMMA LocksStay ==
    ASSUME LocksOwned,
           \A f \in Conns : locks'[f] \subseteq locks[f] /\ (locks'[f] # {} => state'[f] = state[f]),
           \A g \in Holds : /\ pc[g] \in {"inside", "unlocking"} /\ entry[g] \in Conns
                             /\ KeyOf[g] \in locks'[entry[g]]
                             => pc'[g] = pc[g] /\ entry'[g] = entry[g]
    PROVE  LocksOwned'
<1>1. \A f \in Conns : locks'[f] # {} => state'[f] = "up"
  BY DEF LocksOwned
<1>2. \A f \in Conns : \A k \in locks'[f] :
          \E g \in Holds : entry'[g] = f /\ KeyOf[g] = k /\ pc'[g] \in {"inside", "unlocking"}
  <2> TAKE f \in Conns
  <2> TAKE k \in locks'[f]
  <2>1. k \in locks[f]
    OBVIOUS
  <2>2. PICK g \in Holds : entry[g] = f /\ KeyOf[g] = k /\ pc[g] \in {"inside", "unlocking"}
    BY <2>1 DEF LocksOwned
  <2> QED  BY <2>1, <2>2, ZenonT(40)
<1>3. \A f, g \in Conns : f # g => locks'[f] \cap locks'[g] = {}
  BY DEF LocksOwned
<1> QED  BY <1>1, <1>2, <1>3, ZenonT(40) DEF LocksOwned

\* KeysHeld is about held and the calls' places only.
LEMMA KeysStay == ASSUME KeysHeld, UNCHANGED <<held, pc>> PROVE KeysHeld'
  BY DEF KeysHeld

\* A leader that was not told now, on an entry that did not change, is known as before.
LEMMA LeadersStay ==
    ASSUME LeadersKnown,
           \A g \in Holds : pc'[g] = "inside" =>
              /\ pc[g] = "inside" /\ entry'[g] = entry[g]
              /\ told[g] => told'[g]
              /\ g \in lost[entry[g]] =>
                    \/ told'[g]
                    \/ /\ lost'[entry[g]] = lost[entry[g]] /\ state'[entry[g]] = state[entry[g]]
                       /\ locks'[entry[g]] = locks[entry[g]]
    PROVE  LeadersKnown'
  BY ZenonT(40) DEF LeadersKnown

\* With no call made the invariant holds.
LEMMA Starts == Init => IInv
<1> SUFFICES ASSUME Init PROVE IInv
  OBVIOUS
<1> USE LeaseAssumption DEF Init
<1>1. TypeOK
  BY DEF TypeOK
<1>2. KeysHeld
  BY DEF KeysHeld, Active
<1>3. EntriesUsed
  BY DEF EntriesUsed, Active
<1>4. LocksOwned /\ LeadersKnown
  BY DEF LocksOwned, LeadersKnown
<1> QED  BY <1>1, <1>2, <1>3, <1>4 DEF IInv

\* A call that fails at once.
LEMMA TwiceKeeps == ASSUME IInv, NEW h \in Holds, HoldTwice(h) PROVE IInv'
<1> USE LeaseAssumption DEF HoldTwice, Go
<1>1. /\ TypeOK /\ pc[h] = "idle" /\ pc'[h] = "over" /\ \A g \in Holds : g # h => pc'[g] = pc[g]
  BY DEF IInv, TypeOK
<1>2. TypeOK'
  BY DEF IInv, TypeOK
<1>3. KeysHeld'
  BY <1>1 DEF IInv, KeysHeld, Active
<1>4. EntriesUsed'
  BY <1>1 DEF IInv, EntriesUsed, Active
<1>5. LocksOwned' /\ LeadersKnown'
  BY <1>1 DEF IInv, LocksOwned, LeadersKnown
<1> QED  BY <1>2, <1>3, <1>4, <1>5 DEF IInv

\* A call joins the connection: its key is new in held, and its entry is the present one.
LEMMA JoinKeeps == ASSUME IInv, NEW h \in Holds, HoldJoins(h) PROVE IInv'
<1> DEFINE p == ProcessOf[h]
<1> USE LeaseAssumption DEF HoldJoins, Go
<1>1. /\ TypeOK /\ p \in Processes /\ KeyOf[h] \in LeaseKeys
      /\ pc[h] = "idle" /\ pc'[h] = "opening" /\ \A g \in Holds : g # h => pc'[g] = pc[g]
      /\ entry'[h] = conn[p] /\ conn[p] \in Conns /\ conn[p][1] = p /\ \A g \in Holds : g # h => entry'[g] = entry[g]
      /\ KeyOf[h] \notin held[p] /\ held'[p] = held[p] \cup {KeyOf[h]}
      /\ \A q \in Processes : q # p => held'[q] = held[q]
  BY ZenonT(40) DEF IInv, TypeOK
<1>2. TypeOK'
  BY <1>1 DEF TypeOK
<1>3. KeysHeld'
  BY <1>1 DEF IInv, KeysHeld, Active
<1>4. EntriesUsed'
  BY <1>1 DEF IInv, EntriesUsed, Active
<1>5. LocksOwned' /\ LeadersKnown'
  BY <1>1 DEF IInv, LocksOwned, LeadersKnown
<1> QED  BY <1>2, <1>3, <1>4, <1>5 DEF IInv

\* A call opens one: no call under way relied on a present entry, so theirs are gone.
LEMMA OpenKeeps == ASSUME IInv, NEW h \in Holds, HoldOpens(h) PROVE IInv'
<1> DEFINE p == ProcessOf[h]
<1> USE LeaseAssumption DEF Go
<1> PICK e \in Conns : /\ e[1] = p /\ state[e] = "unused"
                       /\ conn' = [conn EXCEPT ![p] = e]
                       /\ state' = [state EXCEPT ![e] = "opening"]
                       /\ entry' = [entry EXCEPT ![h] = e]
  BY ZenonT(40) DEF HoldOpens
<1>1. /\ TypeOK /\ p \in Processes /\ KeyOf[h] \in LeaseKeys
      /\ pc[h] = "idle" /\ pc'[h] = "opening" /\ \A g \in Holds : g # h => pc'[g] = pc[g]
      /\ entry'[h] = e /\ \A g \in Holds : g # h => entry'[g] = entry[g]
      /\ conn[p] = None /\ conn'[p] = e /\ \A q \in Processes : q # p => conn'[q] = conn[q]
      /\ state'[e] = "opening" /\ \A f \in Conns : f # e => state'[f] = state[f]
      /\ KeyOf[h] \notin held[p] /\ held'[p] = held[p] \cup {KeyOf[h]}
      /\ \A q \in Processes : q # p => held'[q] = held[q]
      /\ UNCHANGED <<locks, lost, told>>
  BY ZenonT(40) DEF IInv, TypeOK, HoldOpens
<1>2. TypeOK'
  BY <1>1 DEF TypeOK, HoldOpens
<1>3. KeysHeld'
  BY <1>1 DEF IInv, KeysHeld, Active
<1>4. EntriesUsed'
  BY <1>1 DEF IInv, EntriesUsed, Active, TypeOK
<1>5. LocksOwned' /\ LeadersKnown'
  BY <1>1 DEF IInv, LocksOwned, LeadersKnown, EntriesUsed
<1> QED  BY <1>2, <1>3, <1>4, <1>5 DEF IInv

\* The pool hands the client out.
LEMMA OpenedKeeps == ASSUME IInv, NEW e \in Conns, Opened(e) PROVE IInv'
<1> USE LeaseAssumption DEF Opened
<1>1. /\ TypeOK /\ state[e] = "opening" /\ state'[e] = "up" /\ \A f \in Conns : f # e => state'[f] = state[f]
  BY DEF IInv, TypeOK
<1>2. TypeOK'
  BY <1>1 DEF TypeOK
<1>3. KeysHeld'
  BY DEF IInv, KeysHeld
<1>4. EntriesUsed'
  BY <1>1 DEF IInv, EntriesUsed, TypeOK, Active
<1>5. LocksOwned'
  BY <1>1 DEF IInv, LocksOwned
<1>6. LeadersKnown'
  BY <1>1 DEF IInv, LeadersKnown, EntriesUsed
<1> QED  BY <1>2, <1>3, <1>4, <1>5, <1>6 DEF IInv

\* It cannot: the calls that await the client leave.
LEMMA OpenFailsKeeps == ASSUME IInv, NEW e \in Conns, OpenFails(e) PROVE IInv'
<1> USE LeaseAssumption DEF OpenFails
<1>1. /\ TypeOK /\ state[e] = "opening" /\ state'[e] = "gone" /\ \A f \in Conns : f # e => state'[f] = state[f]
      /\ \A p \in Processes : conn'[p] = IF conn[p] = e THEN None ELSE conn[p]
      /\ \A h \in Holds : pc'[h] = IF pc[h] = "opening" /\ entry[h] = e THEN "leaving" ELSE pc[h]
  BY DEF IInv, TypeOK
<1>2. TypeOK'
  BY <1>1 DEF TypeOK
<1>3. KeysHeld'
  BY <1>1 DEF IInv, KeysHeld, Active
<1>4. EntriesUsed'
  <2>1. \A h \in Holds : pc'[h] \notin {"idle", "over"} => entry'[h] \in Conns /\ entry'[h][1] = ProcessOf[h]
    BY <1>1 DEF IInv, EntriesUsed
  <2>2. \A h \in Holds : pc'[h] \in Active => conn'[ProcessOf[h]] = entry'[h] \/ state'[entry'[h]] = "gone"
    BY <1>1 DEF IInv, EntriesUsed, Active
  <2>3. ASSUME NEW p \in Processes, conn'[p] # None
        PROVE  /\ state'[conn'[p]] \in {"opening", "up", "broken"}
               /\ \/ \E h \in Holds : entry'[h] = conn'[p] /\ pc'[h] \notin {"idle", "over"}
                  \/ \E f \in Conns : f[1] = p /\ state'[f] = "gone"
    <3>1. conn'[p] = conn[p] /\ conn[p] # e /\ conn[p] \in Conns
      BY <1>1, <2>3 DEF TypeOK
    <3> QED  BY <1>1, <3>1 DEF IInv, EntriesUsed
  <2> QED  BY <2>1, <2>2, <2>3, ZenonT(40) DEF EntriesUsed
<1>5. LocksOwned'
  BY <1>1 DEF IInv, LocksOwned
<1>6. LeadersKnown'
  BY <1>1 DEF IInv, LeadersKnown, EntriesUsed
<1> QED  BY <1>2, <1>3, <1>4, <1>5, <1>6 DEF IInv

\* The call sends its query.
LEMMA AsksKeeps == ASSUME IInv, NEW h \in Holds, Asks(h) PROVE IInv'
<1> USE LeaseAssumption DEF Asks, Go
<1>1. /\ TypeOK /\ pc[h] = "opening" /\ pc'[h] = "asking" /\ \A g \in Holds : g # h => pc'[g] = pc[g]
  BY DEF IInv, TypeOK
<1>2. TypeOK'
  BY DEF IInv, TypeOK
<1>3. KeysHeld'
  BY <1>1 DEF IInv, KeysHeld, Active
<1>4. EntriesUsed'
  BY <1>1 DEF IInv, EntriesUsed, Active
<1>5. LocksOwned' /\ LeadersKnown'
  BY <1>1 DEF IInv, LocksOwned, LeadersKnown
<1> QED  BY <1>2, <1>3, <1>4, <1>5 DEF IInv

\* Another session has the lock.
LEMMA NotWonKeeps == ASSUME IInv, NEW h \in Holds, NotWon(h) PROVE IInv'
<1> USE LeaseAssumption DEF NotWon, Go
<1>1. /\ TypeOK /\ pc[h] = "asking" /\ pc'[h] = "leaving" /\ \A g \in Holds : g # h => pc'[g] = pc[g]
  BY DEF IInv, TypeOK
<1>2. TypeOK'
  BY DEF IInv, TypeOK
<1>3. KeysHeld'
  BY <1>1 DEF IInv, KeysHeld, Active
<1>4. EntriesUsed'
  BY <1>1 DEF IInv, EntriesUsed, Active
<1>5. LocksOwned' /\ LeadersKnown'
  BY <1>1 DEF IInv, LocksOwned, LeadersKnown
<1> QED  BY <1>2, <1>3, <1>4, <1>5 DEF IInv

\* The lock is the session's, and the body is on the list to tell.
LEMMA WonKeeps == ASSUME IInv, NEW h \in Holds, Won(h) PROVE IInv'
<1> DEFINE e == entry[h]
<1> USE LeaseAssumption DEF Go
<1>1. /\ TypeOK /\ pc[h] = "asking" /\ pc'[h] = "inside" /\ \A g \in Holds : g # h => pc'[g] = pc[g]
      /\ state[e] = "up" /\ KeyOf[h] \in LeaseKeys
      /\ \A f \in Conns : f # e => KeyOf[h] \notin locks[f]
      /\ UNCHANGED <<held, conn, state, entry, told>>
  BY ZenonT(40) DEF IInv, TypeOK, Won
<1>2. e \in Conns
  BY <1>1 DEF IInv, EntriesUsed
<1>3. /\ locks'[e] = locks[e] \cup {KeyOf[h]} /\ \A f \in Conns : f # e => locks'[f] = locks[f]
      /\ lost'[e] = lost[e] \cup {h} /\ \A f \in Conns : f # e => lost'[f] = lost[f]
  BY <1>1, <1>2 DEF TypeOK, Won
<1>4. TypeOK'
  BY <1>1, <1>2, <1>3 DEF TypeOK, Won
<1>5. KeysHeld'
  BY <1>1 DEF IInv, KeysHeld, Active
<1>6. EntriesUsed'
  BY <1>1 DEF IInv, EntriesUsed, Active
<1>7. LocksOwned'
  BY <1>1, <1>2, <1>3 DEF IInv, LocksOwned
<1>8. LeadersKnown'
  BY <1>1, <1>2, <1>3 DEF IInv, LeadersKnown, EntriesUsed
<1> QED  BY <1>4, <1>5, <1>6, <1>7, <1>8 DEF IInv

\* The body is over and off the list; its lock is still there.
LEMMA EndsKeeps == ASSUME IInv, NEW h \in Holds, Ends(h) PROVE IInv'
<1> DEFINE e == entry[h]
<1> USE LeaseAssumption DEF Go
<1>1. /\ TypeOK /\ pc[h] = "inside" /\ pc'[h] = "unlocking" /\ \A g \in Holds : g # h => pc'[g] = pc[g]
      /\ UNCHANGED <<held, conn, state, entry, told, locks>>
  BY DEF IInv, TypeOK, Ends
<1>2. e \in Conns
  BY <1>1 DEF IInv, EntriesUsed
<1>3. lost'[e] = lost[e] \ {h} /\ \A f \in Conns : f # e => lost'[f] = lost[f]
  BY <1>1, <1>2 DEF TypeOK, Ends
<1>4. TypeOK'
  BY <1>1, <1>2, <1>3 DEF TypeOK, Ends
<1>5. KeysHeld'
  BY <1>1 DEF IInv, KeysHeld, Active
<1>6. EntriesUsed'
  BY <1>1 DEF IInv, EntriesUsed, Active
<1>7. LocksOwned'
  BY <1>1, <1>2, <1>3 DEF IInv, LocksOwned
<1>8. LeadersKnown'
  BY <1>1, <1>2, <1>3 DEF IInv, LeadersKnown, EntriesUsed
<1> QED  BY <1>4, <1>5, <1>6, <1>7, <1>8 DEF IInv

\* An unlock frees the call's key only: the other bodies on the session have other keys.
LEMMA UnlockedKeeps == ASSUME IInv, NEW h \in Holds, Unlocked(h) PROVE IInv'
<1> DEFINE e == entry[h]
<1> USE LeaseAssumption DEF Go
<1>1. /\ TypeOK /\ pc[h] = "unlocking" /\ pc'[h] = "leaving" /\ \A g \in Holds : g # h => pc'[g] = pc[g]
      /\ UNCHANGED <<held, conn, state, entry, told, lost>>
  BY DEF IInv, TypeOK, Unlocked
<1>2. e \in Conns /\ e[1] = ProcessOf[h]
  BY <1>1 DEF IInv, EntriesUsed
<1>3. locks'[e] = locks[e] \ {KeyOf[h]} /\ \A f \in Conns : f # e => locks'[f] = locks[f]
  BY <1>1, <1>2 DEF TypeOK, Unlocked
<1>4. TypeOK'
  BY <1>1, <1>2, <1>3 DEF TypeOK, Unlocked
<1>5. KeysHeld'
  BY <1>1 DEF IInv, KeysHeld, Active
<1>6. EntriesUsed'
  BY <1>1 DEF IInv, EntriesUsed, Active
<1>7. LocksOwned'
  <2>1. \A f \in Conns : locks'[f] \subseteq locks[f] /\ state'[f] = state[f]
    BY <1>1, <1>3
  <2>2. KeyOf[h] \notin locks'[e]
    BY <1>3
  <2> QED  BY <1>1, <2>1, <2>2, LocksStay, ZenonT(40) DEF IInv
<1>8. LeadersKnown'
  <2> SUFFICES ASSUME NEW g \in Holds, pc'[g] = "inside"
               PROVE  \/ told'[g]
                      \/ /\ g \in lost'[entry'[g]]
                         /\ \/ state'[entry'[g]] = "broken"
                            \/ state'[entry'[g]] = "up" /\ KeyOf[g] \in locks'[entry'[g]]
    BY DEF LeadersKnown
  <2>1. g # h /\ pc[g] = "inside" /\ entry[g] \in Conns /\ entry[g][1] = ProcessOf[g]
    BY <1>1 DEF IInv, EntriesUsed
  <2>2. entry[g] = e => KeyOf[g] # KeyOf[h]
    BY <1>1, <1>2, <2>1 DEF IInv, KeysHeld, Active
  <2> QED  BY <1>1, <1>2, <1>3, <2>1, <2>2 DEF IInv, LeadersKnown
<1> QED  BY <1>4, <1>5, <1>6, <1>7, <1>8 DEF IInv

\* The key leaves held with its only call.
LEMMA LeavesKeeps == ASSUME IInv, NEW h \in Holds, Leaves(h) PROVE IInv'
<1> DEFINE p == ProcessOf[h]
<1> USE LeaseAssumption DEF Leaves, Go
<1>1. /\ TypeOK /\ p \in Processes /\ pc[h] = "leaving" /\ pc'[h] = "left"
      /\ \A g \in Holds : g # h => pc'[g] = pc[g]
      /\ held'[p] = held[p] \ {KeyOf[h]} /\ \A q \in Processes : q # p => held'[q] = held[q]
  BY ZenonT(40) DEF IInv, TypeOK
<1>2. TypeOK'
  BY <1>1 DEF TypeOK
<1>3. KeysHeld'
  BY <1>1 DEF IInv, KeysHeld, Active
<1>4. EntriesUsed'
  BY <1>1 DEF IInv, EntriesUsed, Active
<1>5. LocksOwned' /\ LeadersKnown'
  BY <1>1 DEF IInv, LocksOwned, LeadersKnown
<1> QED  BY <1>2, <1>3, <1>4, <1>5 DEF IInv

\* The session ends with its locks; the list of those to tell stays.
LEMMA BreakKeeps == ASSUME IInv, NEW e \in Conns, Break(e) PROVE IInv'
<1> USE LeaseAssumption DEF Break
<1>1. /\ TypeOK /\ state[e] = "up" /\ state'[e] = "broken" /\ \A f \in Conns : f # e => state'[f] = state[f]
      /\ locks'[e] = {} /\ \A f \in Conns : f # e => locks'[f] = locks[f]
  BY DEF IInv, TypeOK
<1>2. TypeOK'
  BY <1>1 DEF TypeOK
<1>3. KeysHeld'
  BY DEF IInv, KeysHeld
<1>4. EntriesUsed'
  BY <1>1 DEF IInv, EntriesUsed, TypeOK, Active
<1>5. LocksOwned'
  <2>1. \A f \in Conns : locks'[f] \subseteq locks[f] /\ (locks'[f] # {} => state'[f] = state[f])
    BY <1>1
  <2>2. UNCHANGED <<pc, entry>>
    OBVIOUS
  <2> QED  BY <2>1, <2>2, LocksStay DEF IInv
<1>6. LeadersKnown'
  <2>1. UNCHANGED <<pc, entry, told, lost>>
    OBVIOUS
  <2>2. ASSUME NEW h \in Holds, pc[h] = "inside" PROVE entry[h] \in Conns
    BY <2>2 DEF IInv, EntriesUsed
  <2> HIDE DEF Break
  <2> QED  BY <1>1, <2>1, <2>2, ZenonT(40) DEF IInv, LeadersKnown
<1> QED  BY <1>2, <1>3, <1>4, <1>5, <1>6 DEF IInv

\* drop forgets the entry wherever it is the present one, and tells everybody on its list.
LEMMA DropFacts ==
    ASSUME TypeOK, NEW e \in Conns, NEW destroy \in BOOLEAN, Drop(e, destroy)
    PROVE  /\ conn' \in [Processes -> Conns \cup {None}] /\ \A p \in Processes : conn'[p] # None => conn'[p][1] = p
           /\ state' \in [Conns -> {"unused", "opening", "up", "broken", "returned", "gone"}]
           /\ locks' \in [Conns -> SUBSET LeaseKeys] /\ lost' \in [Conns -> SUBSET Holds]
           /\ told' \in [Holds -> BOOLEAN]
           /\ \A h \in Holds : told[h] => told'[h]
           /\ \A p \in Processes : conn'[p] = IF conn[p] = e THEN None ELSE conn[p]
           /\ \A f \in Conns : f # e \/ conn[e[1]] # e =>
                 state'[f] = state[f] /\ locks'[f] = locks[f] /\ lost'[f] = lost[f]
           /\ conn[e[1]] = e =>
                 /\ destroy => state'[e] = "gone" /\ locks'[e] = {}
                 /\ locks'[e] = {} \/ locks'[e] = locks[e]
                 /\ \A h \in lost[e] : told'[h]
<1> USE LeaseAssumption
<1>1. e[1] \in Processes
  BY ConnsOfProcesses
<1>2. CASE conn[e[1]] = e
  <2>1. /\ conn' = [conn EXCEPT ![e[1]] = None]
        /\ told' = [h \in Holds |-> told[h] \/ h \in lost[e]]
        /\ lost' = [lost EXCEPT ![e] = {}]
        /\ state' = [state EXCEPT ![e] = IF destroy THEN "gone" ELSE "returned"]
        /\ locks' = [locks EXCEPT ![e] = IF destroy THEN {} ELSE @]
    BY <1>2 DEF Drop
  <2>2. told' \in [Holds -> BOOLEAN] /\ \A h \in Holds : told'[h] <=> told[h] \/ h \in lost[e]
    BY <2>1, ZenonT(40) DEF TypeOK
  <2> QED  BY <1>1, <1>2, <2>1, <2>2 DEF TypeOK
<1>3. CASE conn[e[1]] # e
  <2>1. UNCHANGED <<conn, told, lost, state, locks>>
    BY <1>3 DEF Drop
  <2> QED  BY <1>1, <1>3, <2>1 DEF TypeOK
<1> QED  BY <1>2, <1>3, ZenonT(40)

\* What a drop does whether it destroys the client or returns it.
DropKept(e) ==
    /\ conn' \in [Processes -> Conns \cup {None}] /\ \A p \in Processes : conn'[p] # None => conn'[p][1] = p
    /\ state' \in [Conns -> {"unused", "opening", "up", "broken", "returned", "gone"}]
    /\ locks' \in [Conns -> SUBSET LeaseKeys] /\ lost' \in [Conns -> SUBSET Holds]
    /\ told' \in [Holds -> BOOLEAN]
    /\ \A h \in Holds : told[h] => told'[h]
    /\ \A p \in Processes : conn'[p] = IF conn[p] = e THEN None ELSE conn[p]
    /\ \A f \in Conns : f # e \/ conn[e[1]] # e =>
          state'[f] = state[f] /\ locks'[f] = locks[f] /\ lost'[f] = lost[f]
    /\ conn[e[1]] = e => locks'[e] = {} \/ locks'[e] = locks[e]

LEMMA DropsSoundly ==
    ASSUME TypeOK, NEW e \in Conns, NEW destroy \in BOOLEAN, Drop(e, destroy)
    PROVE  DropKept(e)
<1> HIDE DEF Drop
<1> QED  BY DropFacts DEF DropKept

\* A query that fails drops its entry for every call that uses it.
LEMMA FailsKeeps == ASSUME IInv, NEW h \in Holds, AskFails(h) \/ UnlockFails(h) PROVE IInv'
<1> DEFINE e == entry[h]
<1> USE LeaseAssumption
<1>1. /\ TypeOK /\ pc[h] \in {"asking", "unlocking"} /\ state[e] \in {"broken", "gone", "returned"}
      /\ Drop(e, TRUE) /\ Go(h, "leaving") /\ UNCHANGED <<held, entry, faults>>
  BY ZenonT(40) DEF IInv, AskFails, UnlockFails
<1>2. e \in Conns /\ e[1] = ProcessOf[h]
  BY <1>1 DEF IInv, EntriesUsed
<1>3. pc' \in [Holds -> {"idle", "opening", "asking", "inside", "unlocking", "leaving", "left", "over"}]
      /\ pc'[h] = "leaving" /\ \A g \in Holds : g # h => pc'[g] = pc[g]
  BY <1>1 DEF Go, TypeOK
<1>4. /\ conn' \in [Processes -> Conns \cup {None}] /\ \A p \in Processes : conn'[p] # None => conn'[p][1] = p
      /\ state' \in [Conns -> {"unused", "opening", "up", "broken", "returned", "gone"}]
      /\ locks' \in [Conns -> SUBSET LeaseKeys] /\ lost' \in [Conns -> SUBSET Holds]
      /\ told' \in [Holds -> BOOLEAN]
      /\ \A g \in Holds : told[g] => told'[g]
      /\ \A p \in Processes : conn'[p] = IF conn[p] = e THEN None ELSE conn[p]
      /\ \A f \in Conns : f # e \/ conn[e[1]] # e =>
            state'[f] = state[f] /\ locks'[f] = locks[f] /\ lost'[f] = lost[f]
      /\ conn[e[1]] = e => state'[e] = "gone" /\ locks'[e] = {} /\ \A g \in lost[e] : told'[g]
  <2> HIDE DEF e
  <2> QED  BY <1>1, <1>2, DropFacts, ZenonT(40)
<1>5. TypeOK'
  BY <1>1, <1>3, <1>4 DEF TypeOK
<1>6. KeysHeld'
  BY <1>1, <1>3 DEF IInv, KeysHeld, Active
<1> HIDE DEF e
<1>7. EntriesUsed'
  <2>1. \A g \in Holds : pc'[g] \notin {"idle", "over"} => entry'[g] \in Conns /\ entry'[g][1] = ProcessOf[g]
    BY <1>1, <1>3 DEF IInv, EntriesUsed
  <2>2. \A g \in Holds : pc'[g] \in Active => conn'[ProcessOf[g]] = entry'[g] \/ state'[entry'[g]] = "gone"
    <3> TAKE g \in Holds
    <3> HAVE pc'[g] \in Active
    <3>1. pc[g] \in Active /\ entry'[g] = entry[g] /\ entry[g] \in Conns /\ entry[g][1] = ProcessOf[g]
      BY <1>1, <1>3 DEF IInv, EntriesUsed, Active
    <3>2. ProcessOf[g] \in Processes /\ (conn[ProcessOf[g]] = entry[g] \/ state[entry[g]] = "gone")
      BY <3>1, ZenonT(40) DEF IInv, EntriesUsed
    <3> QED  BY <1>2, <1>4, <3>1, <3>2
  <2>3. \A p \in Processes : conn'[p] # None => state'[conn'[p]] \in {"opening", "up", "broken"}
    BY <1>2, <1>4 DEF IInv, EntriesUsed, TypeOK
  <2>4. \A f \in Conns : state[f] = "gone" => state'[f] = "gone"
    BY <1>4
  <2>5. \A p \in Processes : conn'[p] # None =>
            \/ \E g \in Holds : entry'[g] = conn'[p] /\ pc'[g] \notin {"idle", "over"}
            \/ \E f \in Conns : f[1] = p /\ state'[f] = "gone"
    <3> TAKE p \in Processes
    <3> HAVE conn'[p] # None
    <3>1. conn'[p] = conn[p] /\ conn[p] # None
      BY <1>4
    <3>2. CASE \E g \in Holds : entry[g] = conn[p] /\ pc[g] \notin {"idle", "over"}
      BY <1>1, <1>3, <3>1, <3>2
    <3>3. CASE \E f \in Conns : f[1] = p /\ state[f] = "gone"
      BY <2>4, <3>3
    <3> QED  BY <3>1, <3>2, <3>3 DEF IInv, EntriesUsed
  <2> QED  BY <2>1, <2>2, <2>3, <2>5, ZenonT(40) DEF EntriesUsed
<1>8. locks[e] = {}
  BY <1>1, <1>2 DEF IInv, LocksOwned, TypeOK, e
<1>9. LocksOwned'
  <2>1. \A f \in Conns : locks'[f] = locks[f]
    BY <1>4, <1>8, ZenonT(40)
  <2>2. \A f \in Conns : locks[f] # {} => state'[f] = state[f]
    BY <1>4, <1>8, ZenonT(40)
  <2>3. \A g \in Holds : entry'[g] = entry[g] /\ (pc[g] \in {"inside", "unlocking"} /\ entry[g] # e => pc'[g] = pc[g])
    BY <1>1, <1>3, ZenonT(40) DEF e
  <2>4. \A g \in Holds : pc[g] \in {"inside", "unlocking"} /\ KeyOf[g] \in locks[entry[g]] =>
            pc'[g] = pc[g] /\ entry'[g] = entry[g]
    BY <1>8, <2>3, ZenonT(40)
  <2> QED  BY <2>1, <2>2, <2>4, LocksStay, ZenonT(40) DEF IInv
<1>10. LeadersKnown'
  <2>1. ASSUME NEW g \in Holds, pc'[g] = "inside"
        PROVE  pc[g] = "inside" /\ entry'[g] = entry[g] /\ entry[g] \in Conns
    BY <1>1, <1>3, <2>1, ZenonT(40) DEF IInv, EntriesUsed
  <2>2. ASSUME NEW g \in Holds, NEW f \in Conns, g \in lost[f]
        PROVE  \/ told'[g]
               \/ lost'[f] = lost[f] /\ state'[f] = state[f] /\ locks'[f] = locks[f]
    BY <1>4, <2>2, ZenonT(40)
  <2> QED  BY <1>4, <2>1, <2>2, LeadersStay, ZenonT(40) DEF IInv
<1> QED  BY <1>5, <1>6, <1>7, <1>9, <1>10 DEF IInv

\* So does the error event.
LEMMA EventKeeps == ASSUME IInv, NEW e \in Conns, ErrorEvent(e) PROVE IInv'
<1> USE LeaseAssumption
<1>1. /\ TypeOK /\ e[1] \in Processes /\ state[e] = "broken" /\ conn[e[1]] = e
      /\ Drop(e, TRUE) /\ UNCHANGED <<held, pc, entry, faults>>
  BY ConnsOfProcesses, ZenonT(40) DEF IInv, ErrorEvent
<1>2. /\ conn' \in [Processes -> Conns \cup {None}] /\ \A p \in Processes : conn'[p] # None => conn'[p][1] = p
      /\ state' \in [Conns -> {"unused", "opening", "up", "broken", "returned", "gone"}]
      /\ locks' \in [Conns -> SUBSET LeaseKeys] /\ lost' \in [Conns -> SUBSET Holds]
      /\ told' \in [Holds -> BOOLEAN]
      /\ \A g \in Holds : told[g] => told'[g]
      /\ \A p \in Processes : conn'[p] = IF conn[p] = e THEN None ELSE conn[p]
      /\ \A f \in Conns : f # e => state'[f] = state[f] /\ locks'[f] = locks[f] /\ lost'[f] = lost[f]
      /\ state'[e] = "gone" /\ locks'[e] = {} /\ \A g \in lost[e] : told'[g]
  BY <1>1, DropFacts, ZenonT(40)
<1>3. TypeOK'
  BY <1>1, <1>2 DEF TypeOK
<1>4. KeysHeld'
  BY <1>1, KeysStay, ZenonT(40) DEF IInv
<1>5. EntriesUsed'
  <2>1. \A f \in Conns : state[f] = "gone" => state'[f] = "gone"
    BY <1>1, <1>2, ZenonT(40)
  <2>2. \A g \in Holds : pc[g] \in Active =>
            /\ entry[g] \in Conns /\ entry[g][1] = ProcessOf[g] /\ ProcessOf[g] \in Processes
            /\ conn[ProcessOf[g]] = entry[g] \/ state[entry[g]] = "gone"
    BY ZenonT(40) DEF IInv, EntriesUsed, Active
  <2>3. \A g \in Holds : pc'[g] \in Active => conn'[ProcessOf[g]] = entry'[g] \/ state'[entry'[g]] = "gone"
    BY <1>1, <1>2, <2>1, <2>2, ZenonT(40)
  <2>4. \A p \in Processes : conn'[p] # None => conn'[p] = conn[p] /\ conn[p] # e /\ conn[p] \in Conns
    BY <1>2, ZenonT(40) DEF TypeOK
  <2>5. \A p \in Processes : conn'[p] # None => state'[conn'[p]] \in {"opening", "up", "broken"}
    <3>1. \A p \in Processes : conn[p] # None => state[conn[p]] \in {"opening", "up", "broken"}
      BY DEF IInv, EntriesUsed
    <3> QED  BY <1>2, <2>4, <3>1, ZenonT(40)
  <2>6. \A p \in Processes : conn'[p] # None =>
            \/ \E g \in Holds : entry'[g] = conn'[p] /\ pc'[g] \notin {"idle", "over"}
            \/ \E f \in Conns : f[1] = p /\ state'[f] = "gone"
    BY <1>1, <2>1, <2>4 DEF IInv, EntriesUsed
  <2>7. \A g \in Holds : pc'[g] \notin {"idle", "over"} => entry'[g] \in Conns /\ entry'[g][1] = ProcessOf[g]
    BY <1>1, ZenonT(40) DEF IInv, EntriesUsed
  <2> QED  BY <2>3, <2>5, <2>6, <2>7, ZenonT(40) DEF EntriesUsed
<1>6. LocksOwned'
  <2>1. locks[e] = {}
    BY <1>1, ZenonT(40) DEF IInv, LocksOwned
  <2>2. \A f \in Conns : locks'[f] = locks[f] /\ (locks[f] # {} => state'[f] = state[f])
    BY <1>2, <2>1, ZenonT(40)
  <2> QED  BY <1>1, <2>2, LocksStay, ZenonT(40) DEF IInv
<1>7. LeadersKnown'
  <2>1. ASSUME NEW g \in Holds, pc'[g] = "inside"
        PROVE  pc[g] = "inside" /\ entry'[g] = entry[g] /\ entry[g] \in Conns
    BY <1>1, <2>1, ZenonT(40) DEF IInv, EntriesUsed
  <2>2. ASSUME NEW g \in Holds, NEW f \in Conns, g \in lost[f]
        PROVE  \/ told'[g]
               \/ lost'[f] = lost[f] /\ state'[f] = state[f] /\ locks'[f] = locks[f]
    BY <1>2, <2>2, ZenonT(40)
  <2> QED  BY <1>2, <2>1, <2>2, LeadersStay, ZenonT(40) DEF IInv
<1> QED  BY <1>3, <1>4, <1>5, <1>6, <1>7 DEF IInv

\* The entry goes back to the pool only when no key is held, so no call under way uses it and no lock
\* is left on it; otherwise another call is there to look after it, or it was lost.
LEMMA TidiesKeeps == ASSUME IInv, NEW h \in Holds, Tidies(h) PROVE IInv'
<1> DEFINE e == entry[h]
           p == ProcessOf[h]
<1> USE LeaseAssumption
<1>1. /\ TypeOK /\ pc[h] = "left" /\ Go(h, "over") /\ UNCHANGED <<held, entry, faults>>
  BY DEF IInv, Tidies
<1>2. e \in Conns /\ e[1] = p /\ p \in Processes
  BY <1>1 DEF IInv, EntriesUsed
<1>3. pc' \in [Holds -> {"idle", "opening", "asking", "inside", "unlocking", "leaving", "left", "over"}]
      /\ pc'[h] = "over" /\ \A g \in Holds : g # h => pc'[g] = pc[g]
  BY <1>1 DEF Go, TypeOK
<1>4. KeysHeld'
  BY <1>1, <1>3 DEF IInv, KeysHeld, Active
<1>5. \A g \in Holds : /\ entry'[g] = entry[g] /\ (pc'[g] \in Active <=> pc[g] \in Active)
                       /\ pc'[g] \notin {"idle", "over"} <=> g # h /\ pc[g] \notin {"idle", "over"}
  BY <1>1, <1>3 DEF Active
<1>6. \A g \in Holds : pc'[g] \notin {"idle", "over"} => entry'[g] \in Conns /\ entry'[g][1] = ProcessOf[g]
  BY <1>5 DEF IInv, EntriesUsed
<1>7. \A g \in Holds : pc[g] \in Active =>
          /\ entry[g] \in Conns /\ entry[g][1] = ProcessOf[g] /\ ProcessOf[g] \in Processes
          /\ KeyOf[g] \in held[ProcessOf[g]]
          /\ conn[ProcessOf[g]] = entry[g] \/ state[entry[g]] = "gone"
  <2>1. \A g \in Holds : pc[g] \in Active => entry[g] \in Conns /\ entry[g][1] = ProcessOf[g]
    BY DEF IInv, EntriesUsed, Active
  <2>2. \A g \in Holds : ProcessOf[g] \in Processes
    BY ZenonT(40)
  <2> QED  BY <2>1, <2>2, ZenonT(40) DEF IInv, EntriesUsed, KeysHeld
<1> HIDE DEF e, p
<1>8. CASE held[p] = {} /\ state[e] # "gone"
  <2>1. PICK destroy \in BOOLEAN : Drop(e, destroy)
    BY <1>8, ZenonT(40) DEF Tidies, e, p
  <2>2. /\ conn' \in [Processes -> Conns \cup {None}] /\ \A q \in Processes : conn'[q] # None => conn'[q][1] = q
        /\ state' \in [Conns -> {"unused", "opening", "up", "broken", "returned", "gone"}]
        /\ locks' \in [Conns -> SUBSET LeaseKeys] /\ lost' \in [Conns -> SUBSET Holds]
        /\ told' \in [Holds -> BOOLEAN]
        /\ \A g \in Holds : told[g] => told'[g]
        /\ \A q \in Processes : conn'[q] = IF conn[q] = e THEN None ELSE conn[q]
        /\ \A f \in Conns : f # e \/ conn[e[1]] # e =>
              state'[f] = state[f] /\ locks'[f] = locks[f] /\ lost'[f] = lost[f]
        /\ conn[e[1]] = e => locks'[e] = {} \/ locks'[e] = locks[e]
    BY <1>1, <1>2, <2>1, DropsSoundly, ZenonT(40) DEF DropKept
  <2>3. \A g \in Holds : pc[g] \in Active => entry[g] # e
    BY <1>2, <1>7, <1>8, ZenonT(40)
  <2>4. locks[e] = {}
    BY <1>1, <1>2, <2>3 DEF IInv, LocksOwned, TypeOK, Active
  <2>5. TypeOK'
    BY <1>1, <1>3, <2>2 DEF TypeOK
  <2>6. \A g \in Holds : pc'[g] \in Active => conn'[ProcessOf[g]] = entry'[g] \/ state'[entry'[g]] = "gone"
    BY <1>5, <1>7, <2>2, <2>3
  <2>7. \A q \in Processes : conn'[q] # None => conn'[q] = conn[q] /\ conn[q] # e /\ conn[q] \in Conns
    BY <1>1, <2>2 DEF TypeOK
  <2>8. \A q \in Processes : conn'[q] # None => state'[conn'[q]] \in {"opening", "up", "broken"}
    <3>1. \A q \in Processes : conn[q] # None => state[conn[q]] \in {"opening", "up", "broken"}
      BY ZenonT(40) DEF IInv, EntriesUsed
    <3> QED  BY <2>2, <2>7, <3>1, ZenonT(40)
  <2>9. \A q \in Processes : conn'[q] # None =>
            \/ \E g \in Holds : entry'[g] = conn'[q] /\ pc'[g] \notin {"idle", "over"}
            \/ \E f \in Conns : f[1] = q /\ state'[f] = "gone"
    <3> TAKE q \in Processes
    <3> HAVE conn'[q] # None
    <3>1. CASE \E g \in Holds : entry[g] = conn[q] /\ pc[g] \notin {"idle", "over"}
      BY <1>5, <2>7, <3>1, ZenonT(40) DEF e
    <3>2. CASE \E f \in Conns : f[1] = q /\ state[f] = "gone"
      BY <1>8, <2>2, <3>2, ZenonT(40)
    <3> QED  BY <2>7, <3>1, <3>2, ZenonT(40) DEF IInv, EntriesUsed
  <2>10. EntriesUsed'
    BY <1>6, <2>6, <2>8, <2>9, ZenonT(40) DEF EntriesUsed
  <2>11. LocksOwned'
    <3>1. locks'[e] = locks[e]
      BY <1>2, <2>2, <2>4, ZenonT(40)
    <3>2. \A f \in Conns : locks'[f] = locks[f] /\ (locks[f] # {} => state'[f] = state[f])
      BY <2>2, <2>4, <3>1, ZenonT(40)
    <3>3. \A g \in Holds : pc[g] \in {"inside", "unlocking"} => pc'[g] = pc[g]
      BY <1>1, <1>3
    <3> QED  BY <1>5, <3>2, <3>3, LocksStay, ZenonT(40) DEF IInv
  <2>12. LeadersKnown'
    <3>1. ASSUME NEW g \in Holds, pc'[g] = "inside" PROVE pc[g] = "inside" /\ pc[g] \in Active
      BY <1>3, <3>1 DEF Active
    <3>2. ASSUME NEW g \in Holds, pc'[g] = "inside"
          PROVE  entry'[g] = entry[g] /\ entry[g] \in Conns /\ entry[g] # e
      BY <1>5, <1>7, <2>3, <3>1, <3>2, ZenonT(40)
    <3> QED  BY <2>2, <3>1, <3>2, LeadersStay, ZenonT(40) DEF IInv
  <2> QED  BY <1>4, <2>5, <2>10, <2>11, <2>12 DEF IInv
<1>9. CASE ~ (held[p] = {} /\ state[e] # "gone")
  <2>1. UNCHANGED <<conn, told, lost, state, locks>>
    BY <1>9, ZenonT(40) DEF Tidies, e, p
  <2>2. TypeOK'
    BY <1>1, <1>3, <2>1 DEF TypeOK
  <2>3. conn[p] = e => (\E g \in Holds : entry'[g] = e /\ pc'[g] \notin {"idle", "over"})
                       \/ \E f \in Conns : f[1] = p /\ state[f] = "gone"
    <3> SUFFICES ASSUME conn[p] = e, state[e] # "gone"
                 PROVE  (\E g \in Holds : entry'[g] = e /\ pc'[g] \notin {"idle", "over"})
                        \/ \E f \in Conns : f[1] = p /\ state[f] = "gone"
      BY <1>2
    <3>1. PICK g \in Holds : pc[g] \in Active /\ ProcessOf[g] = p
      BY <1>2, <1>9 DEF IInv, KeysHeld
    <3>2. pc'[g] \notin {"idle", "over"} /\ entry'[g] = entry[g]
      BY <1>1, <1>5, <3>1 DEF Active
    <3> QED  BY <1>7, <3>1, <3>2, ZenonT(40)
  <2>4. \A q \in Processes : conn[q] # None =>
            \/ \E g \in Holds : entry'[g] = conn[q] /\ pc'[g] \notin {"idle", "over"}
            \/ \E f \in Conns : f[1] = q /\ state[f] = "gone"
    <3> TAKE q \in Processes
    <3> HAVE conn[q] # None
    <3>1. CASE conn[q] = e
      BY <1>1, <1>2, <2>3, <3>1 DEF TypeOK
    <3>2. CASE conn[q] # e
      BY <1>5, <3>2 DEF IInv, EntriesUsed, e
    <3> QED  BY <3>1, <3>2
  <2>5. EntriesUsed'
    <3>1. \A g \in Holds : pc'[g] \in Active => conn'[ProcessOf[g]] = entry'[g] \/ state'[entry'[g]] = "gone"
      BY <1>5, <1>7, <2>1, ZenonT(40)
    <3>2. \A q \in Processes : conn'[q] # None => state'[conn'[q]] \in {"opening", "up", "broken"}
      BY <2>1, ZenonT(40) DEF IInv, EntriesUsed
    <3> QED  BY <1>6, <2>1, <2>4, <3>1, <3>2, ZenonT(40) DEF EntriesUsed
  <2>6. \A g \in Holds : pc[g] \in {"inside", "unlocking"} \/ pc'[g] = "inside" => pc'[g] = pc[g]
    BY <1>1, <1>3
  <2>7. LocksOwned'
    BY <1>5, <2>1, <2>6, LocksStay, ZenonT(40) DEF IInv
  <2>8. LeadersKnown'
    BY <1>5, <2>1, <2>6, LeadersStay, ZenonT(40) DEF IInv
  <2> QED  BY <1>4, <2>2, <2>5, <2>7, <2>8 DEF IInv
<1> QED  BY <1>8, <1>9

\* Every step keeps the invariant.
LEMMA Inductive == IInv /\ [Next]_vars => IInv'
<1> SUFFICES ASSUME IInv, [Next]_vars PROVE IInv'
  OBVIOUS
<1>1. CASE UNCHANGED vars
  <2> USE <1>1 DEF vars
  <2>1. TypeOK'
    BY DEF IInv, TypeOK
  <2>2. KeysHeld'
    BY KeysStay DEF IInv
  <2>3. EntriesUsed'
    BY DEF IInv, EntriesUsed
  <2>4. LocksOwned'
    BY LocksStay DEF IInv
  <2>5. LeadersKnown'
    BY DEF IInv, LeadersKnown
  <2> QED  BY <2>1, <2>2, <2>3, <2>4, <2>5 DEF IInv
<1>2. ASSUME NEW h \in Holds, HoldTwice(h) \/ HoldJoins(h) \/ HoldOpens(h) \/ CallStep(h) \/ Ends(h)
      PROVE  IInv'
  BY <1>2, TwiceKeeps, JoinKeeps, OpenKeeps, AsksKeeps, WonKeeps, NotWonKeeps, FailsKeeps,
     UnlockedKeeps, LeavesKeeps, TidiesKeeps, EndsKeeps DEF CallStep
<1>3. ASSUME NEW e \in Conns, Opened(e) \/ OpenFails(e) \/ Break(e) \/ ErrorEvent(e)
      PROVE  IInv'
  BY <1>3, OpenedKeeps, OpenFailsKeeps, BreakKeeps, EventKeeps
<1> QED  BY <1>1, <1>2, <1>3 DEF Next

\* It holds always.
LEMMA Invariant == Spec => []IInv
BY Starts, Inductive, PTL DEF Spec

\* Two untold bodies on live sessions both have the lock: one session, so one process, so two keys.
LEMMA IInvOneLeader == IInv => OneLeader
<1> SUFFICES ASSUME IInv, NEW g \in Holds, NEW h \in Holds, g # h, pc[g] = "inside", pc[h] = "inside",
                    KeyOf[g] = KeyOf[h],
                    ~ told[g], ~ told[h], state[entry[g]] # "broken", state[entry[h]] # "broken"
             PROVE  FALSE
  BY DEF OneLeader
<1>1. /\ entry[g] \in Conns /\ entry[g][1] = ProcessOf[g] /\ KeyOf[g] \in locks[entry[g]]
      /\ entry[h] \in Conns /\ entry[h][1] = ProcessOf[h] /\ KeyOf[h] \in locks[entry[h]]
  BY ZenonT(40) DEF IInv, EntriesUsed, LeadersKnown
<1>2. entry[g] = entry[h]
  BY <1>1 DEF IInv, LocksOwned
<1>3. pc[g] \in Active /\ pc[h] \in Active /\ ProcessOf[g] = ProcessOf[h]
  BY <1>1, <1>2 DEF Active
<1> QED  BY <1>3 DEF IInv, KeysHeld

\* A returned entry is not the present one of any process, and a body relies on no other.
LEMMA IInvReturnedClean == IInv => ReturnedClean
<1> SUFFICES ASSUME IInv, NEW e \in Conns, state[e] = "returned"
             PROVE  locks[e] = {} /\ \A h \in Holds : entry[h] = e => pc[h] # "inside"
  BY DEF ReturnedClean
<1>1. locks[e] = {}
  BY DEF IInv, LocksOwned
<1>2. ASSUME NEW h \in Holds, entry[h] = e, pc[h] = "inside" PROVE FALSE
  <2>1. pc[h] \in Active /\ ProcessOf[h] \in Processes /\ conn[ProcessOf[h]] = e
    BY <1>2, LeaseAssumption DEF IInv, EntriesUsed, Active
  <2>2. conn[ProcessOf[h]] # None
    BY <2>1, LeaseAssumption
  <2> QED  BY <2>1, <2>2 DEF IInv, EntriesUsed
<1> QED  BY <1>1, <1>2

\* A present entry has a call that looks after it, or there was a loss.
LEMMA IInvNoneHoarded == IInv => NoneHoarded
<1> SUFFICES ASSUME IInv, NEW p \in Processes, conn[p] # None,
                    \A h \in Holds : ProcessOf[h] = p => pc[h] \in {"idle", "over"}
             PROVE  \E e \in Conns : e[1] = p /\ state[e] = "gone"
  BY DEF NoneHoarded
<1>1. ASSUME NEW h \in Holds, entry[h] = conn[p], pc[h] \notin {"idle", "over"} PROVE FALSE
  BY <1>1 DEF IInv, TypeOK, EntriesUsed
<1> QED  BY <1>1 DEF IInv, EntriesUsed

\* What createPostgresLeaderLease keeps (held, the entry, its lost callbacks) and what Postgres keeps
\* for its sessions have their types always.
THEOREM LeaseTyped == Spec => []TypeOK
<1>1. IInv => TypeOK
  BY DEF IInv
<1> QED  BY <1>1, Invariant, PTL

\* Two bodies of hold never run under one lease unless one of them was told that it is lost, or its
\* connection broke and the error event has not come: pg_try_advisory_lock elects one leader.
THEOREM OneLeaderHolds == Spec => []OneLeader
BY Invariant, IInvOneLeader, PTL

\* The check that hold schedules when it ends gives the client back only without a lease on it, and
\* never under a body that relies on it.
THEOREM ReturnedCleanHolds == Spec => []ReturnedClean
BY Invariant, IInvReturnedClean, PTL

\* Once the calls of hold in a process are over it keeps no connection of the session pool, unless it
\* lost one meanwhile.
THEOREM NoneHoardedHolds == Spec => []NoneHoarded
BY Invariant, IInvNoneHoarded, PTL
=============================================================================
