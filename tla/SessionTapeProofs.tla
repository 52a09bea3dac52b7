-------------------------- MODULE SessionTapeProofs --------------------------
(***************************************************************************)
(* Proofs about SessionTape, for any writers and bounds: every variable    *)
(* keeps its type, both tables are written in the order of the leases, a   *)
(* summary reaches further than the ones before it, and the tape never     *)
(* claims to cover an entry that does not exist.                           *)
(*                                                                         *)
(* The invariant says of the lease that it is the newest one granted or    *)
(* none, and that no two writers have one token, so that whoever holds the *)
(* lease writes under the newest token.  It says of a compaction that its  *)
(* summary reaches further than the summaries of its snapshot, and than    *)
(* all summaries once it has looked for newer ones, as long as it holds    *)
(* the lease.                                                              *)
(***************************************************************************)
EXTENDS SessionTape, WellFoundedInduction, TLAPS

(* A set of numbers that is not empty has a least element.                 *)
LEMMA LeastExists ==
  ASSUME NEW S \in SUBSET Nat, S # {}
  PROVE  \E x \in S : \A y \in S : x <= y
<1> DEFINE R == OpToRel(<, Nat)
<1>1. PICK x \in S : \A y \in S : <<y, x>> \notin R
  <2>1. IsWellFoundedOn(R, Nat)
    BY NatLessThanWellFounded, ZenonT(40)
  <2> HIDE DEF R
  <2> QED
    BY <2>1, WFMin, ZenonT(40)
<1>2. \A y \in S : ~(y < x)
  BY <1>1, ZenonT(40) DEF OpToRel
<1> QED
  BY <1>2

(* Max finds the largest number of a bounded set.                          *)
LEMMA MaxIsMax ==
  ASSUME NEW S \in SUBSET Nat, S # {}, NEW n \in Nat, \A x \in S : x <= n
  PROVE  Max(S) \in S /\ \A y \in S : y <= Max(S)
<1> DEFINE T == {n - x : x \in S}
<1>1. \A y \in S : n - y \in Nat /\ n - y \in T
  OBVIOUS
<1>2. T \in SUBSET Nat /\ T # {}
  <2>1. PICK y : y \in S
    OBVIOUS
  <2>2. \A t \in T : t \in Nat
    BY <1>1
  <2> QED
    BY <1>1, <2>1, <2>2
<1>3. PICK m \in T : \A y \in T : m <= y
  <2> HIDE DEF T
  <2> QED
    BY <1>2, LeastExists
<1>4. PICK x \in S : m = n - x
  OBVIOUS
<1> HIDE DEF T
<1>5. ASSUME NEW y \in S PROVE x >= y
  <2>1. m <= n - y
    BY <1>1, <1>3
  <2> QED
    BY <1>4, <2>1
<1> QED
  BY <1>5, ZenonT(40) DEF Max

-----------------------------------------------------------------------------
(* The invariant.                                                          *)

(* The steps in which a writer has a token and no summary to write.        *)
Plain == (TurnPcs \cup OutsidePcs \cup CompactionPcs \cup {"release"}) \ {"check", "summary"}

(* The summaries among the first n entries end before t.                   *)
Beyond(t, n) == \A i \in 1..n : entries[i].kind = "summary" => entries[i].through < t

WriterOK(w) ==
  LET r == writer[w] IN
  /\ r.token = 0 <=> r.pc \in {"idle", "planned"}
  /\ r.token <= issued /\ r.last <= Len(entries) /\ r.snap <= Len(entries)
  /\ r.pc \in {"planned", "check"} => Beyond(r.through, r.snap)
  /\ r.pc = "summary" /\ r.token = lease.token => Beyond(r.through, Len(entries))

TokensDiffer ==
  \A v, w \in Writers : v # w /\ writer[v].token # 0 => writer[v].token # writer[w].token

(* No row was written under a lease that is still to be granted, and no    *)
(* checkpoint or import claims more than the entries there are.            *)
RowsOK ==
  /\ \A i \in 1..Len(entries) : entries[i].by <= issued
  /\ \A i \in 1..Len(tape) : tape[i].by <= issued /\ Covers(tape[i]) <= Len(entries)

IInv ==
  /\ TypeOK
  /\ lease.token \in {0, issued}
  /\ \A w \in Writers : WriterOK(w)
  /\ TokensDiffer /\ RowsOK
  /\ WritesInLeaseOrder /\ SummariesAdvance

-----------------------------------------------------------------------------
(* Reading the two tables.                                                 *)

LEMMA CoverageBounded ==
  ASSUME TypeOK, RowsOK
  PROVE  tapeCoverage \in Nat /\ tapeCoverage <= Len(entries)
<1> DEFINE S == {0} \cup {Covers(tape[i]) : i \in DOMAIN tape}
<1>1. ASSUME NEW i \in DOMAIN tape PROVE Covers(tape[i]) \in Nat /\ Covers(tape[i]) <= Len(entries)
  <2>1. tape[i] \in TapeRow /\ i \in 1..Len(tape)
    BY DEF TypeOK
  <2> QED
    BY <2>1 DEF Covers, TapeRow, RowsOK
<1>2. S \in SUBSET Nat /\ S # {} /\ Len(entries) \in Nat /\ \A x \in S : x <= Len(entries)
  BY <1>1 DEF TypeOK
<1>3. Max(S) \in S
  <2> HIDE DEF S
  <2> QED
    BY <1>2, MaxIsMax, ZenonT(40)
<1>4. tapeCoverage = Max(S)
  BY DEF tapeCoverage
<1> HIDE DEF S
<1> QED
  BY <1>2, <1>3, <1>4, ZenonT(40)

LEMMA NewestSummary ==
  ASSUME NEW n \in Nat
  PROVE  /\ LatestSummary(n) \in 0..n
         /\ LatestSummary(n) # 0 => entries[LatestSummary(n)].kind = "summary"
         /\ \A i \in 1..n : entries[i].kind = "summary" => i <= LatestSummary(n)
<1> DEFINE S == {0} \cup {i \in 1..n : entries[i].kind = "summary"}
<1>1. S \in SUBSET Nat /\ S # {} /\ \A x \in S : x <= n
  OBVIOUS
<1>2. Max(S) \in S /\ \A y \in S : y <= Max(S)
  <2> HIDE DEF S
  <2> QED
    BY <1>1, MaxIsMax
<1>3. LatestSummary(n) = Max(S)
  BY DEF LatestSummary
<1> QED
  BY <1>2, <1>3

(* What is planned on the entries there are reaches beyond every summary.  *)
LEMMA PlansBeyond ==
  ASSUME TypeOK, SummariesAdvance, NEW t \in Plans(Len(entries))
  PROVE  t \in Nat /\ Beyond(t, Len(entries))
<1> DEFINE n == Len(entries)
           last == LatestSummary(n)
<1>1. n \in Nat /\ entries \in Seq(Entry) /\ DOMAIN entries = 1..n
  BY DEF TypeOK
<1>2. \A i \in 1..n : entries[i].through \in Nat
  <2>1. \A i \in 1..n : entries[i] \in Entry
    BY <1>1
  <2> QED
    BY <2>1 DEF Entry
<1>3. /\ last \in 0..n
      /\ last # 0 => entries[last].kind = "summary"
      /\ \A i \in 1..n : entries[i].kind = "summary" => i <= last
  BY <1>1, NewestSummary
<1> HIDE DEF last
<1>4. ThroughSeq(n) = IF last = 0 THEN 0 ELSE entries[last].through
  BY DEF ThroughSeq, last
<1>5. t \in ThroughSeq(n) + 1 .. n
  BY DEF Plans
<1>6. ThroughSeq(n) \in Nat
  BY <1>2, <1>3, <1>4
<1>7. t \in Nat /\ ThroughSeq(n) < t
  BY <1>1, <1>5, <1>6
<1>8. ASSUME NEW i \in 1..n, entries[i].kind = "summary" PROVE entries[i].through <= ThroughSeq(n)
  <2>1. i <= last /\ last \in 1..n /\ last # 0
    BY <1>3, <1>8
  <2>2. CASE i = last
    BY <1>2, <1>4, <2>1, <2>2
  <2>3. CASE i < last
    <3>1. entries[i].through < entries[last].through
      BY <1>1, <1>3, <1>8, <2>1, <2>3 DEF SummariesAdvance
    <3> QED
      BY <1>2, <1>4, <2>1, <3>1
  <2> QED
    BY <2>1, <2>2, <2>3
<1> QED
  BY <1>2, <1>6, <1>7, <1>8 DEF Beyond

-----------------------------------------------------------------------------
(* The steps by what they do to the tables.                                *)

(* A writer goes on under the token it has, or had none.                   *)
Others(w) == \A v \in Writers \ {w} : writer'[v] = writer[v]

(* A writer's step that needs no argument about summaries.                 *)
Moves(w) ==
  /\ writer' \in [Writers -> WriterState] /\ Others(w)
  /\ writer'[w].pc \in Plain /\ writer'[w].token = writer[w].token /\ writer[w].token # 0
  /\ writer'[w].last <= Len(entries') /\ writer'[w].snap <= Len(entries')

(* Such a step keeps the writer in order.                                  *)
LEMMA MovesOK ==
  ASSUME NEW w \in Writers, WriterOK(w), Moves(w), issued' = issued
  PROVE  WriterOK(w)'
<1>1. writer'[w].pc \notin {"idle", "planned", "check", "summary"}
  BY DEF Moves, Plain, TurnPcs, OutsidePcs, CompactionPcs
<1>2. writer'[w].token <= issued'
  BY DEF WriterOK, Moves
<1> QED
  BY <1>1, <1>2 DEF WriterOK, Moves

(* Nothing but the writer changes.                                         *)
LEMMA LocalStep ==
  ASSUME IInv, NEW w \in Writers, writer' \in [Writers -> WriterState], Others(w), WriterOK(w)',
         writer'[w].token \in {0, writer[w].token}, UNCHANGED <<lease, issued, entries, tape>>
  PROVE  IInv'
<1>1. TypeOK' /\ RowsOK' /\ WritesInLeaseOrder' /\ SummariesAdvance' /\ lease'.token \in {0, issued'}
  BY DEF IInv, TypeOK, RowsOK, WritesInLeaseOrder, SummariesAdvance, Covers
<1>2. ASSUME NEW v \in Writers \ {w} PROVE WriterOK(v)'
  BY DEF IInv, WriterOK, Beyond, Others
<1>3. TokensDiffer'
  BY DEF IInv, TokensDiffer, Others
<1> QED
  BY <1>1, <1>2, <1>3 DEF IInv

(* The lease is deleted or lapses.                                         *)
LEMMA LeaseLost ==
  ASSUME IInv, lease' \in [token : Nat, lapsed : BOOLEAN], lease'.token \in {0, lease.token},
         UNCHANGED <<issued, entries, tape, writer>>
  PROVE  IInv'
<1>1. TypeOK' /\ RowsOK' /\ WritesInLeaseOrder' /\ SummariesAdvance' /\ lease'.token \in {0, issued'}
  BY DEF IInv, TypeOK, RowsOK, WritesInLeaseOrder, SummariesAdvance, Covers
<1>2. ASSUME NEW v \in Writers PROVE WriterOK(v)'
  <2>1. writer[v].pc = "summary" => writer[v].token # 0
    BY DEF IInv, WriterOK
  <2> QED
    BY <2>1 DEF IInv, WriterOK, Beyond
<1>3. TokensDiffer'
  BY DEF IInv, TokensDiffer
<1> QED
  BY <1>1, <1>2, <1>3 DEF IInv

(* What holding the lease means: the token is the newest, and nobody       *)
(* else's.                                                                 *)
LEMMA HolderIsNewest ==
  ASSUME IInv, NEW w \in Writers, Held(w), writer[w].token # 0
  PROVE  /\ writer[w].token = issued /\ writer[w].token = lease.token
         /\ \A v \in Writers \ {w} : writer[v].token # lease.token
BY DEF IInv, Held, TokensDiffer

(* A tape row is appended under the lease.                                 *)
LEMMA TapeStep ==
  ASSUME IInv, NEW w \in Writers, NEW row, row \in TapeRow, PutTape(w, row), Moves(w),
         row.by = writer[w].token, Covers(row) <= Len(entries)
  PROVE  IInv'
<1>1. Held(w) /\ tape' = Append(tape, row) /\ UNCHANGED <<lease, issued, entries>> /\ writer[w].token # 0
  BY DEF PutTape, Moves
<1>2. row.by = issued
  BY <1>1, HolderIsNewest
<1>3. /\ tape \in Seq(TapeRow) /\ tape' \in Seq(TapeRow) /\ Len(tape') = Len(tape) + 1
      /\ tape'[Len(tape) + 1] = row /\ \A i \in 1..Len(tape) : tape'[i] = tape[i]
      /\ DOMAIN tape' = 1..Len(tape) + 1 /\ DOMAIN tape = 1..Len(tape) /\ Len(tape) \in Nat
  BY <1>1 DEF IInv, TypeOK
<1>4. TypeOK'
  BY <1>1, <1>3 DEF IInv, TypeOK, Moves
<1>5. RowsOK'
  <2>1. \A i \in 1..Len(entries') : entries'[i].by <= issued'
    BY <1>1 DEF IInv, RowsOK
  <2>2. ASSUME NEW i \in 1..Len(tape') PROVE tape'[i].by <= issued' /\ Covers(tape'[i]) <= Len(entries')
    <3>1. CASE i = Len(tape) + 1
      BY <1>1, <1>2, <1>3, <3>1 DEF IInv, TypeOK
    <3>2. CASE i \in 1..Len(tape)
      BY <1>1, <1>3, <3>2 DEF IInv, RowsOK
    <3> QED
      BY <1>3, <3>1, <3>2
  <2> QED
    BY <2>1, <2>2 DEF RowsOK, Covers
<1>6. WritesInLeaseOrder'
  <2>1. ASSUME NEW i \in DOMAIN tape', NEW j \in DOMAIN tape', i < j PROVE tape'[i].by <= tape'[j].by
    <3>1. i \in 1..Len(tape) /\ tape'[i] = tape[i] /\ tape[i].by <= issued
      BY <1>3, <2>1 DEF IInv, RowsOK
    <3>2. CASE j = Len(tape) + 1
      BY <1>2, <1>3, <3>1, <3>2
    <3>3. CASE j \in 1..Len(tape)
      BY <1>3, <2>1, <3>1, <3>3 DEF IInv, WritesInLeaseOrder
    <3> QED
      BY <1>3, <3>2, <3>3
  <2> QED
    BY <1>1, <2>1 DEF IInv, WritesInLeaseOrder
<1>7. SummariesAdvance' /\ lease'.token \in {0, issued'}
  BY <1>1 DEF IInv, SummariesAdvance
<1>8. ASSUME NEW v \in Writers PROVE WriterOK(v)'
  <2>1. CASE v = w
    BY <1>1, <2>1, MovesOK DEF IInv
  <2>2. CASE v # w
    BY <1>1, <2>2 DEF IInv, WriterOK, Beyond, Moves, Others
  <2> QED
    BY <2>1, <2>2
<1>9. TokensDiffer'
  BY DEF IInv, TokensDiffer, Moves, Others
<1> QED
  BY <1>4, <1>5, <1>6, <1>7, <1>8, <1>9 DEF IInv

(* An entry is appended under the lease.                                   *)
LEMMA EntryStep ==
  ASSUME IInv, NEW w \in Writers, NEW kind \in {"message", "summary", "note"}, NEW msg \in Nat,
         NEW through \in Nat, PutEntry(w, kind, msg, through), Moves(w),
         kind = "summary" => Beyond(through, Len(entries))
  PROVE  IInv'
<1> DEFINE e == [kind |-> kind, by |-> writer[w].token, msg |-> msg, through |-> through]
<1>1. Held(w) /\ entries' = Append(entries, e) /\ UNCHANGED <<lease, issued, tape>> /\ writer[w].token # 0
  BY DEF PutEntry, Moves
<1>2. e.by = issued /\ \A v \in Writers \ {w} : writer[v].token # lease.token
  BY <1>1, HolderIsNewest
<1>3. e \in Entry /\ e.kind = kind /\ e.through = through
  BY <1>1, <1>2 DEF IInv, TypeOK, Entry
<1> HIDE DEF e
<1>4. /\ entries \in Seq(Entry) /\ entries' \in Seq(Entry) /\ Len(entries') = Len(entries) + 1
      /\ entries'[Len(entries) + 1] = e /\ \A i \in 1..Len(entries) : entries'[i] = entries[i]
      /\ DOMAIN entries' = 1..Len(entries) + 1 /\ DOMAIN entries = 1..Len(entries)
      /\ Len(entries) \in Nat
  BY <1>1, <1>3 DEF IInv, TypeOK
<1>5. TypeOK'
  BY <1>1, <1>4 DEF IInv, TypeOK, Moves
<1>6. RowsOK'
  <2>1. ASSUME NEW i \in 1..Len(tape') PROVE tape'[i].by <= issued' /\ Covers(tape'[i]) <= Len(entries')
    <3>1. tape[i] \in TapeRow /\ tape[i].by <= issued /\ Covers(tape[i]) <= Len(entries) /\ tape' = tape
      BY <1>1 DEF IInv, TypeOK, RowsOK
    <3>2. Covers(tape[i]) \in Nat
      BY <3>1 DEF Covers, TapeRow
    <3> QED
      BY <1>1, <1>4, <3>1, <3>2
  <2>2. ASSUME NEW i \in 1..Len(entries') PROVE entries'[i].by <= issued'
    <3>1. CASE i = Len(entries) + 1
      BY <1>1, <1>2, <1>4, <3>1 DEF IInv, TypeOK
    <3>2. CASE i \in 1..Len(entries)
      BY <1>1, <1>4, <3>2 DEF IInv, RowsOK
    <3> QED
      BY <1>4, <3>1, <3>2
  <2> QED
    BY <2>1, <2>2 DEF RowsOK, Covers
<1>7. WritesInLeaseOrder'
  <2>1. ASSUME NEW i \in DOMAIN entries', NEW j \in DOMAIN entries', i < j
        PROVE  entries'[i].by <= entries'[j].by
    <3>1. i \in 1..Len(entries) /\ entries'[i] = entries[i] /\ entries[i].by <= issued
      BY <1>4, <2>1 DEF IInv, RowsOK
    <3>2. CASE j = Len(entries) + 1
      BY <1>2, <1>4, <3>1, <3>2
    <3>3. CASE j \in 1..Len(entries)
      BY <1>4, <2>1, <3>1, <3>3 DEF IInv, WritesInLeaseOrder
    <3> QED
      BY <1>4, <3>2, <3>3
  <2> QED
    BY <1>1, <2>1 DEF IInv, WritesInLeaseOrder
<1>8. SummariesAdvance'
  <2>1. ASSUME NEW i \in DOMAIN entries', NEW j \in DOMAIN entries', i < j,
               entries'[i].kind = "summary", entries'[j].kind = "summary"
        PROVE  entries'[i].through < entries'[j].through
    <3>1. i \in 1..Len(entries) /\ entries'[i] = entries[i]
      BY <1>4, <2>1
    <3>2. CASE j = Len(entries) + 1
      BY <1>3, <1>4, <2>1, <3>1, <3>2 DEF Beyond
    <3>3. CASE j \in 1..Len(entries)
      BY <1>4, <2>1, <3>1, <3>3 DEF IInv, SummariesAdvance
    <3> QED
      BY <1>4, <3>2, <3>3
  <2> QED
    BY <2>1 DEF SummariesAdvance
<1>9. ASSUME NEW v \in Writers PROVE WriterOK(v)'
  <2>1. CASE v = w
    BY <1>1, <2>1, MovesOK DEF IInv
  <2>2. CASE v # w
    <3>1. writer'[v] = writer[v] /\ writer[v].token # lease'.token /\ writer[v] \in WriterState /\ WriterOK(v)
      BY <1>1, <1>2, <2>2 DEF IInv, TypeOK, Moves, Others
    <3>2. writer[v].snap \in Nat /\ writer[v].last \in Nat
      BY <3>1 DEF WriterState
    <3>3. \A i \in 1..writer[v].snap : entries'[i] = entries[i]
      BY <1>4, <3>1, <3>2 DEF WriterOK
    <3>4. writer[v].pc \in {"planned", "check"} => Beyond(writer[v].through, writer[v].snap)'
      BY <3>1, <3>3 DEF WriterOK, Beyond
    <3>5. writer'[v].last <= Len(entries') /\ writer'[v].snap <= Len(entries')
      BY <1>4, <3>1, <3>2 DEF WriterOK
    <3> QED
      BY <1>1, <3>1, <3>4, <3>5 DEF WriterOK
  <2> QED
    BY <2>1, <2>2
<1>10. TokensDiffer' /\ lease'.token \in {0, issued'}
  BY <1>1 DEF IInv, TokensDiffer, Moves, Others
<1> QED
  BY <1>5, <1>6, <1>7, <1>8, <1>9, <1>10 DEF IInv

(* A new lease is granted: its token is nobody's yet.                      *)
LEMMA GrantedStep ==
  ASSUME IInv, NEW w \in Writers, NEW kind \in Kinds, NEW pc \in {"turn", "coverage", "check"},
         Granted(w, kind, pc), pc = "check" => writer[w].pc = "planned"
  PROVE  IInv'
<1>1. /\ issued' = issued + 1 /\ lease' = [token |-> issued + 1, lapsed |-> FALSE]
      /\ UNCHANGED <<entries, tape>> /\ issued \in Nat
      /\ writer' = [writer EXCEPT ![w].pc = pc, ![w].kind = kind, ![w].token = issued + 1]
  BY DEF Granted, IInv, TypeOK
<1>2. writer \in [Writers -> WriterState] /\ writer[w] \in WriterState
  BY DEF IInv, TypeOK
<1> DEFINE d == writer'[w]
<1>3. /\ d \in WriterState /\ d.pc = pc /\ d.token = issued + 1 /\ d.last = writer[w].last
      /\ d.snap = writer[w].snap /\ d.through = writer[w].through /\ Others(w)
      /\ writer' \in [Writers -> WriterState]
  <2>1. d = [writer[w] EXCEPT !.pc = pc, !.kind = kind, !.token = issued + 1]
    BY <1>1, <1>2
  <2>2. pc \in TurnPcs \cup OutsidePcs \cup CompactionPcs /\ issued + 1 \in Nat
    BY <1>1 DEF TurnPcs, OutsidePcs, CompactionPcs
  <2>3. /\ d \in WriterState /\ d.pc = pc /\ d.token = issued + 1 /\ d.last = writer[w].last
        /\ d.snap = writer[w].snap /\ d.through = writer[w].through
    <3> HIDE DEF d
    <3> QED
      BY <1>2, <2>1, <2>2, ZenonT(40) DEF WriterState
  <2>4. Others(w) /\ writer' \in [Writers -> WriterState]
    <3>1. writer' = [writer EXCEPT ![w] = d]
      BY <1>1, <1>2, ZenonT(40)
    <3> HIDE DEF d
    <3> QED
      BY <1>2, <2>3, <3>1 DEF Others
  <2> QED
    BY <2>3, <2>4
<1> HIDE DEF d
<1>4. TypeOK' /\ lease'.token \in {0, issued'}
  BY <1>1, <1>3 DEF IInv, TypeOK
<1>5. RowsOK'
  <2>1. ASSUME NEW i \in 1..Len(entries) PROVE entries[i].by <= issued + 1
    <3>1. entries[i] \in Entry /\ entries[i].by <= issued
      BY DEF IInv, RowsOK, TypeOK
    <3> QED
      BY <1>1, <3>1 DEF Entry
  <2>2. ASSUME NEW i \in 1..Len(tape) PROVE tape[i].by <= issued + 1
    <3>1. tape[i] \in TapeRow /\ tape[i].by <= issued
      BY DEF IInv, RowsOK, TypeOK
    <3> QED
      BY <1>1, <3>1 DEF TapeRow
  <2> QED
    BY <1>1, <2>1, <2>2 DEF IInv, RowsOK, Covers
<1>6. WritesInLeaseOrder' /\ SummariesAdvance'
  BY <1>1 DEF IInv, WritesInLeaseOrder, SummariesAdvance
<1>7. ASSUME NEW v \in Writers, v # w PROVE WriterOK(v)' /\ writer'[v].token # issued + 1
  <2>1. writer'[v] = writer[v] /\ WriterOK(v) /\ writer[v].token \in Nat
    BY <1>2, <1>3, <1>7 DEF IInv, Others, WriterState
  <2>2. writer[v].token <= issued
    BY <2>1 DEF WriterOK
  <2>3. writer[v].token # lease'.token /\ writer[v].token <= issued'
    BY <1>1, <2>1, <2>2
  <2> QED
    BY <1>1, <2>1, <2>2, <2>3, ZenonT(40) DEF WriterOK, Beyond
<1>8. WriterOK(w)'
  <2>1. WriterOK(w)
    BY DEF IInv
  <2>2. pc \notin {"idle", "planned", "summary"}
    OBVIOUS
  <2> QED
    BY <1>1, <1>3, <2>1, <2>2 DEF WriterOK, Beyond, d
<1>9. TokensDiffer'
  <2>1. writer'[w].token = issued + 1
    BY <1>3 DEF d
  <2>2. \A u, v \in Writers \ {w} : u # v /\ writer'[u].token # 0 => writer'[u].token # writer'[v].token
    BY <1>3 DEF IInv, TokensDiffer, Others
  <2> QED
    BY <1>7, <2>1, <2>2 DEF TokensDiffer
<1> QED
  BY <1>4, <1>5, <1>6, <1>7, <1>8, <1>9 DEF IInv

-----------------------------------------------------------------------------
(* The steps of a writer.                                                  *)

(* What a writer in the middle of its work has.                            *)
LEMMA AtWork ==
  ASSUME IInv, NEW w \in Writers
  PROVE  /\ writer \in [Writers -> WriterState] /\ writer[w] \in WriterState
         /\ writer[w].made \in Nat /\ writer[w].last \in Nat /\ writer[w].snap \in Nat
         /\ writer[w].through \in Nat /\ writer[w].token \in Nat
         /\ writer[w].last <= Len(entries) /\ writer[w].snap <= Len(entries)
         /\ Len(entries) \in Nat /\ entries \in Seq(Entry)
         /\ writer[w].pc \notin {"idle", "planned"} => writer[w].token # 0
<1>1. writer[w] \in WriterState /\ WriterOK(w)
  BY DEF IInv, TypeOK
<1> QED
  BY <1>1 DEF IInv, TypeOK, WriterOK, WriterState

LEMMA HasToken ==
  ASSUME IInv, NEW w \in Writers, writer[w].pc \notin {"idle", "planned"}
  PROVE  writer[w].token # 0
BY AtWork

LEMMA Moved ==
  ASSUME IInv, NEW w \in Writers, NEW d \in WriterState, writer' = [writer EXCEPT ![w] = d],
         d.pc \in Plain, d.token = writer[w].token, d.token # 0,
         d.last <= Len(entries'), d.snap <= Len(entries')
  PROVE  Moves(w)
BY AtWork DEF Moves, Others

(* Goto, and what a turn does on its way out.                              *)
LEMMA GotoMoves ==
  ASSUME IInv, NEW w \in Writers, NEW p \in Plain, Goto(w, p), writer[w].token # 0,
         Len(entries') \in Nat, Len(entries) <= Len(entries')
  PROVE  Moves(w)
<1> DEFINE d == IF p = "release" THEN Leaving(w) ELSE [writer[w] EXCEPT !.pc = p]
<1>1. writer' = [writer EXCEPT ![w] = d]
  BY AtWork DEF Goto
<1>2. p \in TurnPcs \cup OutsidePcs \cup CompactionPcs \cup {"idle", "planned", "release"} /\ "turn" \in Kinds
  BY DEF Plain, Kinds
<1>3. CASE p = "release"
  <2>1. /\ d \in WriterState /\ d.pc = p /\ d.token = writer[w].token /\ d.last = 0 /\ d.snap = 0
    <3>1. /\ d = [pc |-> p, kind |-> "turn", token |-> writer[w].token, snap |-> 0, through |-> 0,
                  last |-> 0, made |-> 0, pre |-> {}, covered |-> FALSE]
          /\ 0 \in Nat /\ {} \in SUBSET Nat /\ FALSE \in BOOLEAN /\ writer[w].token \in Nat
      BY <1>3, AtWork, ZenonT(40) DEF Leaving, IdleWriter
    <3> HIDE DEF d
    <3> QED
      BY <1>2, <3>1, ZenonT(40) DEF WriterState
  <2> HIDE DEF d
  <2>2. 0 <= Len(entries')
    OBVIOUS
  <2>3. d.last <= Len(entries') /\ d.snap <= Len(entries')
    BY <2>1, <2>2, ZenonT(40)
  <2> QED
    BY <1>1, <2>1, <2>3, Moved, ZenonT(40)
<1>4. CASE p # "release"
  <2>1. d = [writer[w] EXCEPT !.pc = p] /\ writer[w] \in WriterState
    BY <1>4, AtWork
  <2> HIDE DEF d
  <2>2. /\ d \in WriterState /\ d.pc = p /\ d.token = writer[w].token /\ d.last = writer[w].last
        /\ d.snap = writer[w].snap
    BY <1>2, <2>1, ZenonT(40) DEF WriterState
  <2>3. d.last <= Len(entries') /\ d.snap <= Len(entries')
    BY <2>2, AtWork
  <2> QED
    BY <1>1, <2>2, <2>3, Moved, ZenonT(40)
<1> QED
  BY <1>3, <1>4

LEMMA FinishMoves ==
  ASSUME IInv, NEW w \in Writers, Finish(w), writer[w].token # 0,
         Len(entries') \in Nat, Len(entries) <= Len(entries')
  PROVE  Moves(w)
<1>1. "release" \in Plain /\ "coverage" \in Plain
  BY DEF Plain, TurnPcs, OutsidePcs, CompactionPcs
<1> QED
  BY <1>1, GotoMoves DEF Finish

(* A step in which the tables stay as they are.                            *)
LEMMA Aside ==
  ASSUME IInv, NEW w \in Writers, Moves(w), UNCHANGED <<lease, issued, entries, tape>>
  PROVE  IInv'
<1>1. WriterOK(w)'
  BY MovesOK DEF IInv
<1> QED
  BY <1>1, LocalStep DEF Moves

(* The tape rows the writers make.                                         *)
LEMMA TextRowMade ==
  ASSUME IInv, NEW w \in Writers, NEW n \in Nat
  PROVE  LET row == TextRow(w, n) IN
         row \in TapeRow /\ row.by = writer[w].token /\ Covers(row) <= Len(entries)
<1>1. writer[w].token \in Nat /\ 0 <= Len(entries)
  BY AtWork
<1> QED
  BY <1>1 DEF TextRow, TapeRow, Covers

LEMMA EndRowMade ==
  ASSUME IInv, NEW w \in Writers, NEW s \in Nat, s <= Len(entries)
  PROVE  LET row == [TextRow(w, 0) EXCEPT !.kind = "end", !.seq = s] IN
         row \in TapeRow /\ row.by = writer[w].token /\ Covers(row) <= Len(entries)
<1>1. writer[w].token \in Nat /\ 0 <= Len(entries)
  BY AtWork
<1> QED
  BY <1>1, ZenonT(40) DEF TextRow, TapeRow, Covers

LEMMA ImportRowMade ==
  ASSUME IInv, NEW w \in Writers, NEW s \in Nat, s <= Len(entries)
  PROVE  LET row == [TextRow(w, 0) EXCEPT !.kind = "import", !.covers = s] IN
         row \in TapeRow /\ row.by = writer[w].token /\ Covers(row) <= Len(entries)
<1>1. writer[w].token \in Nat /\ 0 <= Len(entries)
  BY AtWork
<1> QED
  BY <1>1, ZenonT(40) DEF TextRow, TapeRow, Covers

LEMMA CompactionRowMade ==
  ASSUME IInv, NEW w \in Writers, NEW n \in Nat, NEW s \in Nat, NEW c \in Nat
  PROVE  LET row == [TextRow(w, n) EXCEPT !.kind = "compaction", !.seq = s, !.covers = c] IN
         row \in TapeRow /\ row.by = writer[w].token /\ Covers(row) <= Len(entries)
<1>1. writer[w].token \in Nat /\ 0 <= Len(entries)
  BY AtWork
<1> QED
  BY <1>1, ZenonT(40) DEF TextRow, TapeRow, Covers

(* A text, or any entry but a summary.                                     *)
LEMMA Longer ==
  ASSUME IInv, NEW w \in Writers, NEW kind \in {"message", "summary", "note"}, NEW msg \in Nat,
         NEW through \in Nat, PutEntry(w, kind, msg, through), writer[w].token # 0
  PROVE  Len(entries') = Len(entries) + 1
BY AtWork DEF PutEntry

(* A text becomes an entry: a message, or a summary.                       *)
LEMMA TextStep ==
  ASSUME IInv, NEW w \in Writers, NEW p \in Plain, NEW kind \in {"message", "summary"}, NEW through \in Nat,
         PutEntry(w, kind, writer[w].made + 1, through),
         writer' = [writer EXCEPT ![w].pc = p, ![w].last = Len(entries) + 1, ![w].made = @ + 1],
         kind = "summary" => Beyond(through, Len(entries)), writer[w].token # 0
  PROVE  IInv'
<1> DEFINE n == Len(entries) + 1
           m == writer[w].made + 1
           d == [writer[w] EXCEPT !.pc = p, !.last = n, !.made = m]
<1>1. /\ m \in Nat /\ n \in Nat /\ writer[w] \in WriterState
      /\ p \in TurnPcs \cup OutsidePcs \cup CompactionPcs \cup {"idle", "planned", "release"}
  BY AtWork DEF Plain
<1>2. writer' = [writer EXCEPT ![w] = d]
  BY AtWork, ZenonT(40)
<1>3. Len(entries') = n
  BY <1>1, Longer
<1> HIDE DEF n, m
<1>4. /\ d \in WriterState /\ d.pc = p /\ d.token = writer[w].token /\ d.last = n
      /\ d.snap = writer[w].snap
  BY <1>1, ZenonT(40) DEF WriterState
<1> HIDE DEF d
<1>5. d.last <= Len(entries') /\ d.snap <= Len(entries')
  BY <1>1, <1>3, <1>4, AtWork DEF n
<1>6. Moves(w)
  BY <1>2, <1>4, <1>5, Moved, ZenonT(40)
<1> QED
  BY <1>1, <1>6, EntryStep DEF m

-----------------------------------------------------------------------------
(* A turn.                                                                 *)

LEMMA PlainNames ==
  /\ {"turn", "pretape", "heal", "prompt", "user", "usertape", "work", "worktape", "workentry",
      "failuser", "failnote", "coverage", "latest", "append", "text", "textend", "event", "latch",
      "summaryend", "release"} = Plain
  /\ Plain \subseteq TurnPcs \cup OutsidePcs \cup CompactionPcs \cup {"idle", "planned", "release"}
BY DEF Plain, TurnPcs, OutsidePcs, CompactionPcs

LEMMA PreAppendKeeps ==
  ASSUME IInv, NEW w \in Writers, PreAppend(w)
  PROVE  IInv'
<1> DEFINE n == Len(entries) + 1
           m == writer[w].made + 1
           q == writer[w].pre \cup {n}
           d == [writer[w] EXCEPT !.pc = "pretape", !.last = n, !.made = m, !.pre = q]
<1>1. writer[w].pc = "turn" /\ PutEntry(w, "message", m, 0) /\ writer[w].token # 0
  BY AtWork DEF PreAppend
<1>2. writer' = [writer EXCEPT ![w] = d]
  BY AtWork, ZenonT(40) DEF PreAppend
<1>3. writer[w] \in WriterState /\ m \in Nat /\ n \in Nat
  BY AtWork
<1>4. q \in SUBSET Nat
  BY <1>3, ZenonT(40) DEF WriterState
<1>5. Len(entries') = n
  BY <1>1, <1>3, Longer
<1>6. "pretape" \in TurnPcs \cup OutsidePcs \cup CompactionPcs \cup {"idle", "planned", "release"} /\ "pretape" \in Plain
  BY PlainNames
<1> HIDE DEF n, m, q
<1>7. /\ d \in WriterState /\ d.pc = "pretape" /\ d.token = writer[w].token /\ d.last = n
      /\ d.snap = writer[w].snap
  BY <1>3, <1>4, <1>6, ZenonT(40) DEF WriterState
<1> HIDE DEF d
<1>8. d.last <= Len(entries') /\ d.snap <= Len(entries')
  BY <1>3, <1>5, <1>7, AtWork DEF n
<1>9. Moves(w)
  BY <1>1, <1>2, <1>6, <1>7, <1>8, Moved, ZenonT(40)
<1> QED
  BY <1>1, <1>3, <1>9, EntryStep

LEMMA ReadWindowKeeps ==
  ASSUME IInv, NEW w \in Writers, ReadWindow(w)
  PROVE  IInv'
<1> DEFINE n == Len(entries)
           c == tapeCoverage >= Max({0} \cup (1..n \ writer[w].pre))
           d == [writer[w] EXCEPT !.pc = "heal", !.snap = n, !.pre = {}, !.covered = c]
<1>1. c \in BOOLEAN
  OBVIOUS
<1>2. writer' = [writer EXCEPT ![w] = d]
  BY AtWork, ZenonT(40) DEF ReadWindow, latestEntrySeq
<1>3. writer[w] \in WriterState /\ n \in Nat /\ {} \in SUBSET Nat /\ writer[w].token # 0
  BY AtWork DEF ReadWindow
<1>4. "heal" \in TurnPcs \cup OutsidePcs \cup CompactionPcs \cup {"idle", "planned", "release"} /\ "heal" \in Plain
  BY PlainNames
<1>5. UNCHANGED <<lease, issued, entries, tape>>
  BY DEF ReadWindow
<1> HIDE DEF n, c
<1>6. /\ d \in WriterState /\ d.pc = "heal" /\ d.token = writer[w].token /\ d.snap = n
      /\ d.last = writer[w].last
  BY <1>1, <1>3, <1>4, ZenonT(40) DEF WriterState
<1> HIDE DEF d
<1>7. d.last <= Len(entries') /\ d.snap <= Len(entries')
  BY <1>5, <1>6, AtWork DEF n
<1>8. Moves(w)
  BY <1>2, <1>3, <1>4, <1>6, <1>7, Moved, ZenonT(40)
<1> QED
  BY <1>5, <1>8, Aside

LEMMA HealKeeps ==
  ASSUME IInv, NEW w \in Writers, Heal(w)
  PROVE  IInv'
<1> DEFINE row == [TextRow(w, 0) EXCEPT !.kind = "import", !.covers = writer[w].snap]
           d == [writer[w] EXCEPT !.pc = "prompt", !.covered = TRUE]
<1>1. writer[w].token # 0 /\ "prompt" \in Plain /\ writer[w] \in WriterState /\ TRUE \in BOOLEAN
  BY AtWork, PlainNames DEF Heal
<1>2. CASE PutTape(w, row) /\ writer' = [writer EXCEPT ![w].pc = "prompt", ![w].covered = TRUE]
  <2>1. writer' = [writer EXCEPT ![w] = d] /\ entries' = entries
    BY <1>2, AtWork, ZenonT(40) DEF PutTape
  <2>2. /\ d \in WriterState /\ d.pc = "prompt" /\ d.token = writer[w].token
        /\ d.snap = writer[w].snap /\ d.last = writer[w].last
    BY <1>1, PlainNames, ZenonT(40) DEF WriterState
  <2> HIDE DEF d
  <2>3. d.last <= Len(entries') /\ d.snap <= Len(entries')
    BY <2>1, <2>2, AtWork
  <2>4. Moves(w)
    BY <1>1, <2>1, <2>2, <2>3, Moved, ZenonT(40)
  <2>5. row \in TapeRow /\ row.by = writer[w].token /\ Covers(row) <= Len(entries)
    BY ImportRowMade, AtWork, ZenonT(40)
  <2> HIDE DEF row
  <2> QED
    BY <1>2, <2>4, <2>5, TapeStep
<1>3. CASE Goto(w, "prompt") /\ UNCHANGED <<lease, issued, entries, tape>>
  BY <1>1, <1>3, GotoMoves, Aside, AtWork
<1> QED
  BY <1>2, <1>3 DEF Heal

(* A row for the newest text, and on.                                      *)
LEMMA TapeText ==
  ASSUME IInv, NEW w \in Writers, NEW p \in Plain, writer[w].token # 0,
         PutTape(w, TextRow(w, writer[w].made)), Goto(w, p)
  PROVE  IInv'
<1> DEFINE row == TextRow(w, writer[w].made)
<1>1. row \in TapeRow /\ row.by = writer[w].token /\ Covers(row) <= Len(entries)
  BY TextRowMade, AtWork, ZenonT(40)
<1>2. Moves(w)
  BY GotoMoves, AtWork DEF PutTape
<1> HIDE DEF row
<1>3. PutTape(w, row)
  BY DEF row
<1> QED
  BY <1>1, <1>2, <1>3, TapeStep

(* A checkpoint for the newest entry.                                      *)
LEMMA TapeEnd ==
  ASSUME IInv, NEW w \in Writers, writer[w].token # 0, PutEnd(w, writer[w].last), Moves(w)
  PROVE  IInv'
<1> DEFINE row == [TextRow(w, 0) EXCEPT !.kind = "end", !.seq = writer[w].last]
<1>1. row \in TapeRow /\ row.by = writer[w].token /\ Covers(row) <= Len(entries)
  BY EndRowMade, AtWork, ZenonT(40)
<1>2. PutTape(w, row)
  BY DEF PutEnd
<1> HIDE DEF row
<1> QED
  BY <1>1, <1>2, TapeStep

(* An entry whose number is remembered, at p.                              *)
LEMMA LastMoves ==
  ASSUME IInv, NEW w \in Writers, NEW p \in Plain, writer[w].token # 0, Len(entries') = Len(entries) + 1,
         writer' = [writer EXCEPT ![w].pc = p, ![w].last = Len(entries) + 1]
  PROVE  Moves(w)
<1> DEFINE n == Len(entries) + 1
           d == [writer[w] EXCEPT !.pc = p, !.last = n]
<1>1. n \in Nat /\ writer[w] \in WriterState
  BY AtWork
<1>2. writer' = [writer EXCEPT ![w] = d]
  BY AtWork, ZenonT(40)
<1> HIDE DEF n
<1>3. /\ d \in WriterState /\ d.pc = p /\ d.token = writer[w].token /\ d.last = n
      /\ d.snap = writer[w].snap
  BY <1>1, PlainNames, ZenonT(40) DEF WriterState
<1> HIDE DEF d
<1>4. d.last <= Len(entries') /\ d.snap <= Len(entries')
  BY <1>1, <1>3, AtWork DEF n
<1> QED
  BY <1>2, <1>3, <1>4, Moved, ZenonT(40)

LEMMA WorkKeeps ==
  ASSUME IInv, NEW w \in Writers, EmitWork(w) \/ TapeWork(w) \/ LatchCoverage(w) \/ EndTurn(w)
  PROVE  IInv'
<1>1. writer[w].token # 0 /\ writer[w] \in WriterState
  BY HasToken, AtWork, ZenonT(40) DEF EmitWork, TapeWork, LatchCoverage, EndTurn
<1>2. CASE PutText(w, "worktape")
  BY <1>1, <1>2, PlainNames, TextStep, ZenonT(40) DEF PutText
<1>3. CASE /\ writer[w].pc = "workentry" /\ PutEntry(w, "message", writer[w].made, 0)
           /\ writer' = [writer EXCEPT ![w].pc = "work", ![w].last = Len(entries) + 1]
  <2>1. writer[w].made \in Nat /\ "work" \in Plain
    BY AtWork, PlainNames
  <2>2. Moves(w)
    BY <1>1, <1>3, <2>1, LastMoves, Longer, ZenonT(40)
  <2> QED
    BY <1>3, <2>1, <2>2, EntryStep
<1>4. CASE /\ writer[w].pc = "work" /\ PutEntry(w, "note", 0, 0)
           /\ writer' = [writer EXCEPT ![w].last = Len(entries) + 1]
  <2>1. Len(entries') = Len(entries) + 1 /\ "work" \in Plain
    BY <1>1, <1>4, Longer, PlainNames, ZenonT(40)
  <2>2. writer' = [writer EXCEPT ![w].pc = "work", ![w].last = Len(entries) + 1]
    BY <1>4, AtWork DEF WriterState
  <2>3. Moves(w)
    BY <1>1, <2>1, <2>2, LastMoves, ZenonT(40)
  <2> QED
    BY <1>4, <2>3, EntryStep, ZenonT(40)
<1>5. CASE PutTape(w, TextRow(w, writer[w].made)) /\ Goto(w, "work")
  BY <1>1, <1>5, PlainNames, TapeText
<1>6. CASE /\ PutTape(w, TextRow(w, writer[w].made + 1))
           /\ writer' = [writer EXCEPT ![w].pc = "workentry", ![w].made = @ + 1]
  <2> DEFINE m == writer[w].made + 1
             row == TextRow(w, m)
             d == [writer[w] EXCEPT !.pc = "workentry", !.made = m]
  <2>1. m \in Nat /\ "workentry" \in Plain
    BY AtWork, PlainNames
  <2>2. writer' = [writer EXCEPT ![w] = d] /\ entries' = entries
    BY <1>6, AtWork, ZenonT(40) DEF PutTape
  <2>3. PutTape(w, row)
    BY <1>6
  <2> HIDE DEF m
  <2>4. row \in TapeRow /\ row.by = writer[w].token /\ Covers(row) <= Len(entries)
    BY <2>1, TextRowMade, ZenonT(40)
  <2>5. /\ d \in WriterState /\ d.pc = "workentry" /\ d.token = writer[w].token
        /\ d.snap = writer[w].snap /\ d.last = writer[w].last
    BY <1>1, <2>1, PlainNames, ZenonT(40) DEF WriterState
  <2> HIDE DEF d, row
  <2>6. d.last <= Len(entries') /\ d.snap <= Len(entries')
    BY <2>2, <2>5, AtWork
  <2>7. Moves(w)
    BY <1>1, <2>1, <2>2, <2>5, <2>6, Moved, ZenonT(40)
  <2> QED
    BY <2>3, <2>4, <2>7, TapeStep
<1>7. CASE writer[w].pc = "work" /\ PutEnd(w, writer[w].last) /\ UNCHANGED writer
  <2>1. "work" \in Plain /\ entries' = entries
    BY <1>7, PlainNames DEF PutEnd, PutTape
  <2>2. Moves(w)
    BY <1>1, <1>7, <2>1, AtWork DEF Moves, Others
  <2> QED
    BY <1>1, <1>7, <2>2, TapeEnd
<1>8. CASE Finish(w) /\ UNCHANGED <<lease, issued, entries, tape>>
  BY <1>1, <1>8, FinishMoves, Aside, AtWork
<1> QED
  BY <1>2, <1>3, <1>4, <1>5, <1>6, <1>7, <1>8 DEF EmitWork, TapeWork, LatchCoverage, EndTurn

LEMMA TurnKeeps ==
  ASSUME IInv, NEW w \in Writers, TurnStep(w)
  PROVE  IInv'
<1>1. CASE PreTape(w) \/ TapeUser(w)
  <2>1. writer[w].token # 0
    BY <1>1, HasToken, ZenonT(40) DEF PreTape, TapeUser
  <2> QED
    BY <1>1, <2>1, PlainNames, TapeText DEF PreTape, TapeUser
<1>2. CASE EmitUser(w)
  <2>1. writer[w].token # 0
    BY <1>2, HasToken, ZenonT(40) DEF EmitUser
  <2> QED
    BY <1>2, <2>1, PlainNames, TextStep, ZenonT(40) DEF EmitUser, PutText
<1>3. CASE RecordFailure(w)
  <2>1. writer[w].token # 0 /\ "failnote" \in Plain
    BY <1>3, HasToken, PlainNames, ZenonT(40) DEF RecordFailure
  <2>2. CASE PutText(w, "failnote")
    BY <2>1, <2>2, TextStep, ZenonT(40) DEF PutText
  <2>3. CASE Goto(w, "failnote") /\ UNCHANGED <<lease, issued, entries, tape>>
    BY <2>1, <2>3, GotoMoves, Aside, AtWork
  <2>4. CASE PutEntry(w, "note", 0, 0) /\ Finish(w)
    <3>1. Len(entries') = Len(entries) + 1
      BY <2>1, <2>4, Longer
    <3>2. Moves(w)
      BY <2>1, <2>4, <3>1, FinishMoves, AtWork
    <3> QED
      BY <2>4, <3>2, EntryStep
  <2> QED
    BY <1>3, <2>2, <2>3, <2>4 DEF RecordFailure
<1> QED
  BY <1>1, <1>2, <1>3, PreAppendKeeps, ReadWindowKeeps, HealKeeps, WorkKeeps DEF TurnStep

-----------------------------------------------------------------------------
(* Appends outside a turn.                                                 *)

LEMMA ReadsKeep ==
  ASSUME IInv, NEW w \in Writers, ReadCoverage(w) \/ ReadLatest(w)
  PROVE  IInv'
<1>1. writer[w].token # 0 /\ writer[w] \in WriterState /\ UNCHANGED <<lease, issued, entries, tape>>
  BY HasToken, AtWork, ZenonT(40) DEF ReadCoverage, ReadLatest
<1>2. CASE ReadCoverage(w)
  <2> DEFINE c == tapeCoverage
             d == [writer[w] EXCEPT !.pc = "latest", !.snap = c]
  <2>1. c \in Nat /\ c <= Len(entries)
    BY CoverageBounded DEF IInv
  <2>2. writer' = [writer EXCEPT ![w] = d]
    BY <1>2, AtWork, ZenonT(40) DEF ReadCoverage
  <2>3. "latest" \in Plain
    BY PlainNames
  <2> HIDE DEF c
  <2>4. /\ d \in WriterState /\ d.pc = "latest" /\ d.token = writer[w].token
        /\ d.snap = c /\ d.last = writer[w].last
    BY <1>1, <2>1, <2>3, PlainNames, ZenonT(40) DEF WriterState
  <2> HIDE DEF d
  <2>5. d.last <= Len(entries') /\ d.snap <= Len(entries')
    BY <1>1, <2>1, <2>4, AtWork
  <2> QED
    BY <1>1, <2>2, <2>3, <2>4, <2>5, Moved, Aside, ZenonT(40)
<1>3. CASE ReadLatest(w)
  <2> DEFINE c == writer[w].snap = latestEntrySeq
             d == [writer[w] EXCEPT !.pc = "append", !.covered = c]
  <2>1. c \in BOOLEAN /\ "append" \in Plain
    BY PlainNames
  <2>2. writer' = [writer EXCEPT ![w] = d]
    BY <1>3, AtWork, ZenonT(40) DEF ReadLatest
  <2> HIDE DEF c
  <2>3. /\ d \in WriterState /\ d.pc = "append" /\ d.token = writer[w].token
        /\ d.snap = writer[w].snap /\ d.last = writer[w].last
    BY <1>1, <2>1, PlainNames, ZenonT(40) DEF WriterState
  <2> HIDE DEF d
  <2>4. d.last <= Len(entries') /\ d.snap <= Len(entries')
    BY <1>1, <2>3, AtWork
  <2> QED
    BY <1>1, <2>1, <2>2, <2>3, <2>4, Moved, Aside, ZenonT(40)
<1> QED
  BY <1>2, <1>3

LEMMA AppendOutsideKeeps ==
  ASSUME IInv, NEW w \in Writers, AppendOutside(w)
  PROVE  IInv'
<1>1. writer[w].token # 0 /\ {"text", "coverage", "textend", "release"} \subseteq Plain
  BY HasToken, PlainNames, ZenonT(40) DEF AppendOutside
<1>2. CASE PutText(w, "text") \/ PutText(w, "coverage")
  BY <1>1, <1>2, TextStep, ZenonT(40) DEF PutText
<1>3. CASE PutEntry(w, "message", writer[w].made + 1, 0) /\ Goto(w, "release")
  <2>1. writer[w].made + 1 \in Nat
    BY AtWork
  <2>2. Len(entries') = Len(entries) + 1
    BY <1>1, <1>3, <2>1, Longer
  <2>3. Moves(w)
    BY <1>1, <1>3, <2>2, GotoMoves, AtWork
  <2> QED
    BY <1>3, <2>1, <2>3, EntryStep
<1>4. CASE /\ PutEntry(w, "note", 0, 0)
           /\ writer' = [writer EXCEPT ![w] = IF writer[w].covered
                                              THEN [@ EXCEPT !.pc = "textend", !.last = Len(entries) + 1]
                                              ELSE Leaving(w)]
  <2>1. Len(entries') = Len(entries) + 1
    BY <1>1, <1>4, Longer, ZenonT(40)
  <2>2. CASE writer[w].covered
    <3>1. writer' = [writer EXCEPT ![w].pc = "textend", ![w].last = Len(entries) + 1]
      BY <1>4, <2>2, AtWork, ZenonT(40)
    <3> QED
      BY <1>1, <1>4, <2>1, <3>1, LastMoves, EntryStep, ZenonT(40)
  <2>3. CASE ~writer[w].covered
    <3>1. Goto(w, "release")
      BY <1>4, <2>3, AtWork, ZenonT(40) DEF Goto
    <3>2. Moves(w)
      BY <1>1, <2>1, <3>1, GotoMoves, AtWork
    <3> QED
      BY <1>4, <3>2, EntryStep
  <2> QED
    BY <2>2, <2>3
<1> QED
  BY <1>2, <1>3, <1>4 DEF AppendOutside

LEMMA OutsideKeeps ==
  ASSUME IInv, NEW w \in Writers, OutsideStep(w)
  PROVE  IInv'
<1>1. CASE TapeOutside(w)
  BY <1>1, HasToken, PlainNames, TapeText, ZenonT(40) DEF TapeOutside
<1>2. CASE CheckpointOutside(w)
  <2>1. writer[w].token # 0 /\ entries' = entries
    BY <1>2, HasToken, ZenonT(40) DEF CheckpointOutside, PutEnd, PutTape
  <2>2. Moves(w)
    BY <1>2, <2>1, FinishMoves, AtWork DEF CheckpointOutside
  <2> QED
    BY <1>2, <2>1, <2>2, TapeEnd DEF CheckpointOutside
<1> QED
  BY <1>1, <1>2, ReadsKeep, AppendOutsideKeeps DEF OutsideStep

-----------------------------------------------------------------------------
(* Compaction.                                                             *)

LEMMA PlanKeeps ==
  ASSUME IInv, NEW w \in Writers, PlanCompaction(w)
  PROVE  IInv'
<1> DEFINE n == Len(entries)
           p == IF writer[w].pc = "idle" THEN "planned" ELSE "summary"
<1>1. PICK t \in Plans(n) :
        writer' = [writer EXCEPT ![w].snap = n, ![w].through = t,
                     ![w].pc = IF @ = "idle" THEN "planned" ELSE "summary"]
  BY ZenonT(40) DEF PlanCompaction, latestEntrySeq
<1>2. t \in Nat /\ Beyond(t, n)
  BY PlansBeyond DEF IInv
<1> DEFINE d == [writer[w] EXCEPT !.snap = n, !.through = t, !.pc = p]
<1>3. writer' = [writer EXCEPT ![w] = d]
  BY <1>1, AtWork, ZenonT(40)
<1>4. /\ UNCHANGED <<lease, issued, entries, tape>> /\ writer[w].pc \in {"idle", "prompt"}
      /\ n \in Nat /\ writer[w] \in WriterState /\ WriterOK(w)
      /\ writer \in [Writers -> WriterState] /\ writer[w].last <= n
  BY AtWork, ZenonT(40) DEF PlanCompaction, IInv
<1>5. p \in {"planned", "summary"} /\ p \in TurnPcs \cup OutsidePcs \cup CompactionPcs \cup {"idle", "planned", "release"}
  BY DEF CompactionPcs
<1>6. p = "planned" <=> writer[w].token = 0
  BY <1>4 DEF WriterOK
<1> HIDE DEF n, p
<1>7. /\ d \in WriterState /\ d.pc = p /\ d.token = writer[w].token /\ d.snap = n /\ d.through = t
      /\ d.last = writer[w].last
  BY <1>2, <1>4, <1>5, ZenonT(40) DEF WriterState
<1> HIDE DEF d
<1>8. /\ writer' \in [Writers -> WriterState] /\ Others(w) /\ writer'[w] = d
  BY <1>3, <1>4, <1>7, ZenonT(40) DEF Others
<1>9. WriterOK(w)'
  <2>1. d.token <= issued /\ d.last <= n /\ d.snap <= n
    BY <1>4, <1>7 DEF WriterOK
  <2>2. Beyond(t, n)'
    BY <1>2, <1>4 DEF Beyond, n
  <2>3. d.token = 0 <=> d.pc \in {"idle", "planned"}
    BY <1>5, <1>6, <1>7
  <2> QED
    BY <1>4, <1>5, <1>7, <1>8, <2>1, <2>2, <2>3 DEF WriterOK, n
<1> QED
  BY <1>4, <1>7, <1>8, <1>9, LocalStep

(* The plan reaches further than any summary: there is none the plan has   *)
(* not seen.                                                               *)
LEMMA CheckKeeps ==
  ASSUME IInv, NEW w \in Writers, CheckSince(w)
  PROVE  IInv'
<1>1. writer[w].token # 0 /\ writer[w].pc = "check" /\ UNCHANGED <<lease, issued, entries, tape>>
  BY HasToken, ZenonT(40) DEF CheckSince
<1>2. CASE LatestSummary(Len(entries)) > writer[w].snap
  <2>1. Goto(w, "release") /\ "release" \in Plain
    BY <1>2, PlainNames DEF CheckSince, latestEntrySeq
  <2> QED
    BY <1>1, <2>1, GotoMoves, Aside, AtWork
<1>3. CASE ~(LatestSummary(Len(entries)) > writer[w].snap)
  <2> DEFINE d == [writer[w] EXCEPT !.pc = "summary"]
  <2>1. Goto(w, "summary")
    BY <1>3, ZenonT(40) DEF CheckSince, latestEntrySeq
  <2>2. writer' = [writer EXCEPT ![w] = d] /\ writer[w] \in WriterState /\ writer \in [Writers -> WriterState]
    BY <2>1, AtWork, ZenonT(40) DEF Goto
  <2>3. "summary" \in TurnPcs \cup OutsidePcs \cup CompactionPcs \cup {"idle", "planned", "release"}
    BY DEF CompactionPcs
  <2>4. /\ d \in WriterState /\ d.pc = "summary" /\ d.token = writer[w].token /\ d.snap = writer[w].snap
        /\ d.through = writer[w].through /\ d.last = writer[w].last
    BY <2>2, <2>3, ZenonT(40) DEF WriterState
  <2> HIDE DEF d
  <2>5. /\ writer' \in [Writers -> WriterState] /\ Others(w) /\ writer'[w] = d
    BY <2>2, <2>4, ZenonT(40) DEF Others
  <2>6. Beyond(writer[w].through, Len(entries))
    <3>1. Beyond(writer[w].through, writer[w].snap) /\ writer[w].snap \in Nat /\ Len(entries) \in Nat
      BY <1>1, AtWork, ZenonT(40) DEF IInv, WriterOK
    <3> DEFINE last == LatestSummary(Len(entries))
    <3>2. last \in Nat /\ \A i \in 1..Len(entries) : entries[i].kind = "summary" => i <= last
      BY <3>1, NewestSummary
    <3>3. \A i \in 1..Len(entries) : entries[i].kind = "summary" => i <= writer[w].snap
      <4> HIDE DEF last
      <4>1. ~(last > writer[w].snap)
        BY <1>3 DEF last
      <4> QED
        BY <3>1, <3>2, <4>1
    <3> QED
      BY <3>1, <3>3 DEF Beyond
  <2>7. WriterOK(w)'
    <3>1. WriterOK(w)
      BY DEF IInv
    <3>2. Beyond(writer[w].through, Len(entries))'
      <4>1. writer'[w].through = writer[w].through /\ entries' = entries
        BY <1>1, <2>4, <2>5, ZenonT(40)
      <4> QED
        BY <2>6, <4>1 DEF Beyond
    <3>3. d.token <= issued /\ d.last <= Len(entries) /\ d.snap <= Len(entries) /\ d.token # 0
      BY <1>1, <2>4, <3>1, ZenonT(40) DEF WriterOK
    <3> QED
      BY <1>1, <2>4, <2>5, <3>2, <3>3 DEF WriterOK
  <2> QED
    BY <1>1, <2>4, <2>5, <2>7, LocalStep, ZenonT(40)
<1> QED
  BY <1>2, <1>3

LEMMA CompactionKeeps ==
  ASSUME IInv, NEW w \in Writers, CompactionStep(w)
  PROVE  IInv'
<1>1. CASE AcquireCompaction(w)
  BY <1>1, GrantedStep DEF AcquireCompaction, Kinds
<1>2. CASE AppendSummary(w)
  <2>1. writer[w].token # 0 /\ Held(w) /\ writer[w].pc = "summary"
    BY <1>2, HasToken, ZenonT(40) DEF AppendSummary, PutEntry
  <2>2. Beyond(writer[w].through, Len(entries)) /\ writer[w].through \in Nat
    BY <2>1, AtWork DEF IInv, WriterOK, Held
  <2>3. "event" \in Plain
    BY PlainNames
  <2> QED
    BY <1>2, <2>1, <2>2, <2>3, TextStep, ZenonT(40) DEF AppendSummary
<1>3. CASE TapeCompaction(w)
  <2> DEFINE row == [TextRow(w, writer[w].made) EXCEPT !.kind = "compaction", !.seq = writer[w].last,
                                                      !.covers = writer[w].through]
  <2>1. writer[w].token # 0 /\ "latch" \in Plain /\ entries' = entries /\ PutTape(w, row)
    BY <1>3, HasToken, PlainNames, ZenonT(40) DEF TapeCompaction, PutTape
  <2>2. row \in TapeRow /\ row.by = writer[w].token /\ Covers(row) <= Len(entries)
    BY CompactionRowMade, AtWork, ZenonT(40)
  <2> HIDE DEF row
  <2>3. Moves(w)
    BY <1>3, <2>1, GotoMoves, AtWork DEF TapeCompaction
  <2> QED
    BY <2>1, <2>2, <2>3, TapeStep
<1>4. AfterCompaction(w) \in Plain /\ "summaryend" \in Plain
  BY PlainNames DEF AfterCompaction
<1>5. CASE ReadLatch(w)
  <2>1. writer[w].token # 0 /\ UNCHANGED <<lease, issued, entries, tape>>
    BY <1>5, HasToken, ZenonT(40) DEF ReadLatch
  <2>2. PICK p \in Plain : Goto(w, p)
    BY <1>4, <1>5, ZenonT(40) DEF ReadLatch
  <2> QED
    BY <2>1, <2>2, GotoMoves, Aside, AtWork
<1>6. CASE CheckpointSummary(w)
  <2>1. writer[w].token # 0 /\ entries' = entries
    BY <1>6, HasToken, ZenonT(40) DEF CheckpointSummary, PutEnd, PutTape
  <2>2. Moves(w)
    BY <1>4, <1>6, <2>1, GotoMoves, AtWork DEF CheckpointSummary
  <2> QED
    BY <1>6, <2>1, <2>2, TapeEnd DEF CheckpointSummary
<1> QED
  BY <1>1, <1>2, <1>3, <1>5, <1>6, PlanKeeps, CheckKeeps DEF CompactionStep

-----------------------------------------------------------------------------
(* The lease, failures and crashes.                                        *)

(* A writer that has left, or is gone.                                     *)
LEMMA IdleOK ==
  ASSUME IInv, NEW w \in Writers, writer' = [writer EXCEPT ![w] = IdleWriter], UNCHANGED <<issued, entries>>
  PROVE  /\ writer' \in [Writers -> WriterState] /\ Others(w) /\ WriterOK(w)' /\ writer'[w].token = 0
<1>1. IdleWriter \in WriterState
  BY ZenonT(40) DEF IdleWriter, WriterState, Kinds
<1>2. writer' \in [Writers -> WriterState] /\ Others(w) /\ writer'[w] = IdleWriter
  BY <1>1, AtWork DEF Others
<1>3. IdleWriter.pc = "idle" /\ IdleWriter.token = 0 /\ IdleWriter.last = 0 /\ IdleWriter.snap = 0
  BY DEF IdleWriter
<1>4. 0 <= issued' /\ 0 <= Len(entries')
  BY DEF IInv, TypeOK
<1> HIDE DEF IdleWriter
<1> QED
  BY <1>2, <1>3, <1>4, ZenonT(40) DEF WriterOK

(* The lease is given back: a step of the writer and one of the lease.     *)
LEMMA ReleaseKeeps ==
  ASSUME IInv, NEW w \in Writers, ReleaseLease(w)
  PROVE  IInv'
<1>1. /\ UNCHANGED <<issued, entries, tape>> /\ writer' = [writer EXCEPT ![w] = IdleWriter]
      /\ lease' = IF lease.token = writer[w].token THEN NoLease ELSE lease
  BY DEF ReleaseLease
<1>2. /\ writer' \in [Writers -> WriterState] /\ Others(w) /\ WriterOK(w)' /\ writer'[w].token = 0
  BY <1>1, IdleOK, ZenonT(40)
<1>3. lease' \in [token : Nat, lapsed : BOOLEAN] /\ lease'.token \in {0, lease.token}
  BY <1>1 DEF IInv, TypeOK, NoLease
<1>4. TypeOK' /\ RowsOK' /\ WritesInLeaseOrder' /\ SummariesAdvance' /\ lease'.token \in {0, issued'}
  BY <1>1, <1>2, <1>3 DEF IInv, TypeOK, RowsOK, WritesInLeaseOrder, SummariesAdvance, Covers
<1>5. ASSUME NEW v \in Writers \ {w} PROVE WriterOK(v)'
  <2>1. WriterOK(v) /\ writer'[v] = writer[v]
    BY <1>2 DEF IInv, Others
  <2>2. writer[v].pc = "summary" => writer[v].token # 0
    BY <2>1 DEF WriterOK
  <2> QED
    BY <1>1, <1>3, <2>1, <2>2, ZenonT(40) DEF WriterOK, Beyond
<1>6. TokensDiffer'
  BY <1>2 DEF IInv, TokensDiffer, Others
<1> QED
  BY <1>2, <1>4, <1>5, <1>6 DEF IInv

LEMMA FailKeeps ==
  ASSUME IInv, NEW w \in Writers, Fail(w) \/ Rejected(w)
  PROVE  IInv'
<1>1. writer[w].pc \in TurnPcs \cup OutsidePcs \cup CompactionPcs /\ UNCHANGED <<lease, issued, entries, tape>>
  BY ZenonT(40) DEF Fail, Rejected
<1>2. writer[w].token # 0
  BY <1>1, HasToken DEF TurnPcs, OutsidePcs, CompactionPcs
<1>3. CASE Finish(w)
  BY <1>1, <1>2, <1>3, FinishMoves, Aside, AtWork
<1>4. CASE \E p \in Plain : Goto(w, p)
  BY <1>1, <1>2, <1>4, GotoMoves, Aside, AtWork
<1>5. Finish(w) \/ \E p \in Plain : Goto(w, p)
  BY PlainNames, ZenonT(40) DEF Fail, Rejected
<1> QED
  BY <1>3, <1>4, <1>5

(* Every step keeps the invariant.                                         *)
LEMMA Inductive == IInv /\ [Next]_vars => IInv'
<1> SUFFICES ASSUME IInv, [Next]_vars PROVE IInv'
  OBVIOUS
<1>1. CASE Lapse \/ ForceReleaseLease
  <2>1. lease' \in [token : Nat, lapsed : BOOLEAN] /\ lease'.token \in {0, lease.token}
    <3>1. lease \in [token : Nat, lapsed : BOOLEAN] /\ TRUE \in BOOLEAN
      BY DEF IInv, TypeOK
    <3>2. CASE lease' = [lease EXCEPT !.lapsed = TRUE]
      BY <3>1, <3>2, ZenonT(40)
    <3>3. CASE lease' = NoLease
      BY <3>3 DEF NoLease
    <3> QED
      BY <1>1, <3>2, <3>3 DEF Lapse, ForceReleaseLease
  <2> QED
    BY <1>1, <2>1, LeaseLost DEF Lapse, ForceReleaseLease
<1>2. CASE \E w \in Writers : AcquireLease(w)
  BY <1>2, GrantedStep DEF AcquireLease, Kinds
<1>3. CASE \E w \in Writers : Crash(w)
  <2>1. PICK w \in Writers : Crash(w)
    BY <1>3
  <2> QED
    BY <2>1, IdleOK, LocalStep, ZenonT(40) DEF Crash
<1>4. CASE vars' = vars
  BY <1>4 DEF vars, IInv, TypeOK, WriterOK, Beyond, TokensDiffer, RowsOK, Covers, WritesInLeaseOrder,
              SummariesAdvance
<1> QED
  BY <1>1, <1>2, <1>3, <1>4, ReleaseKeeps, FailKeeps, TurnKeeps, OutsideKeeps, CompactionKeeps, ZenonT(40) DEF Next

LEMMA Starts == Init => IInv
<1> SUFFICES ASSUME Init PROVE IInv
  OBVIOUS
<1>1. IdleWriter \in WriterState /\ IdleWriter.pc = "idle" /\ IdleWriter.token = 0 /\ IdleWriter.last = 0 /\ IdleWriter.snap = 0
  BY DEF IdleWriter, WriterState, Kinds
<1>2. lease = NoLease /\ issued = 0 /\ entries = <<>> /\ tape = <<>> /\ writer = [w \in Writers |-> IdleWriter]
  BY DEF Init
<1> HIDE DEF IdleWriter
<1>3. TypeOK /\ lease.token \in {0, issued} /\ Len(entries) = 0 /\ Len(tape) = 0
  BY <1>1, <1>2 DEF TypeOK, NoLease
<1>4. ASSUME NEW w \in Writers PROVE WriterOK(w)
  <2>1. writer[w] = IdleWriter
    BY <1>2
  <2> QED
    BY <1>1, <1>2, <1>3, <2>1 DEF WriterOK
<1>5. TokensDiffer
  BY <1>1, <1>2 DEF TokensDiffer
<1>6. RowsOK /\ WritesInLeaseOrder /\ SummariesAdvance
  BY <1>2 DEF RowsOK, WritesInLeaseOrder, SummariesAdvance
<1> QED
  BY <1>3, <1>4, <1>5, <1>6 DEF IInv

-----------------------------------------------------------------------------
(* Every variable of a session keeps its type: what a turn, an append      *)
(* outside a turn or a compaction leaves in the tables is always a row of  *)
(* session_entries or session_tape, whichever step it stopped at.          *)
THEOREM SessionTyped == Spec => []TypeOK
<1>1. IInv => TypeOK
  BY DEF IInv
<1> QED
  BY Starts, Inductive, <1>1, PTL DEF Spec

(* A lease that was lost writes nothing more: however many writers there   *)
(* are, and whenever they crash, lapse or are forced out, the rows of both *)
(* tables stand in the order in which their leases were granted.           *)
THEOREM LeaseOrderHolds == Spec => []WritesInLeaseOrder
<1>1. IInv => WritesInLeaseOrder
  BY DEF IInv
<1> QED
  BY Starts, Inductive, <1>1, PTL DEF Spec

(* A compaction planned on an old snapshot never undoes a later one: each  *)
(* summary reaches further than the summaries before it.                   *)
THEOREM SummariesAlwaysAdvance == Spec => []SummariesAdvance
<1>1. IInv => SummariesAdvance
  BY DEF IInv
<1> QED
  BY Starts, Inductive, <1>1, PTL DEF Spec

(* The coverage that tapeCoverage reads off the checkpoints and imports is *)
(* never past the transcript: the tape claims no entry that does not       *)
(* exist.                                                                  *)
THEOREM CoverageExists == Spec => [](tapeCoverage <= latestEntrySeq)
<1>1. IInv => tapeCoverage <= latestEntrySeq
  BY CoverageBounded DEF IInv, latestEntrySeq
<1> QED
  BY Starts, Inductive, <1>1, PTL DEF Spec

=============================================================================
