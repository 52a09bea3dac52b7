------------------------- MODULE LoopIngressProofs -------------------------
(***************************************************************************)
(* Proofs about LoopIngress, for sources of either kind, any number of     *)
(* workers, events and conversations, and any page size.                   *)
(*                                                                         *)
(* The argument is about what a worker still has to import.  Its copy of   *)
(* the cursor is the cursor, since one worker at a time is at work on the  *)
(* source; every event between the cursor and the id it will save left the *)
(* inbox, is in the ledger, or is among the messages it has yet to import; *)
(* and the id it will save is not older than the notice it answers, which  *)
(* is why that notice may be completed.                                    *)
(***************************************************************************)
EXTENDS LoopIngress, TLAPS

-----------------------------------------------------------------------------
(* The inductive invariant.                                                *)

Covered(e) == e \in gone \/ Held(e)

(* What a completed delivery stands for.                                   *)
Handled(d) == IF kind = "gmail" THEN d <= cursor ELSE d \in Events /\ Held(d)

(* Every event after the cursor, up to n, is covered or in msgs.           *)
CoveredTo(n, msgs) ==
  /\ cursor <= n
  /\ \A e \in (cursor + 1)..n : Covered(e) \/ e \in msgs

(* What a worker's record says of the source.                              *)
Sound(k) ==
  /\ k.pc # "idle" => k.copy = cursor
  /\ k.pc \in {"profile", "page", "save"} => kind = "gmail"
  /\ k.pc \in {"page", "import"} /\ kind = "gmail" => k.at <= k.profile /\ cursor <= k.profile
  /\ k.pc = "page" => CoveredTo(k.page, {})
  /\ k.pc = "import" /\ kind = "gmail" =>
       /\ k.more => CoveredTo(k.page, k.msgs)
       /\ ~k.more => k.at <= k.latest /\ CoveredTo(k.latest, k.msgs)
  /\ k.pc = "import" /\ kind = "push" =>
       ~k.more /\ k.at \in Events /\ (k.at \in k.msgs \/ Held(k.at))
  /\ k.pc = "save" => k.at <= k.latest /\ CoveredTo(k.latest, {})
  /\ k.pc = "complete" => Handled(k.at)
  /\ kind = "push" => 0 \notin k.todo

Alone == \A v, w \in Workers : work[v].pc # "idle" /\ work[w].pc # "idle" => v = w

(* A receipt is of an event that happened, and a completed one is handled. *)
Receipts ==
  /\ \A d \in Events : receipts[d] # "none" => d <= mailbox
  /\ \A d \in Events : receipts[d] = "done" => Handled(d)
  /\ kind = "push" => gone = {} /\ receipts[0] = "none"

IInv == MailIsCovered /\ Alone /\ Receipts /\ \A w \in Workers : Sound(work[w])

-----------------------------------------------------------------------------
(* Types.                                                                  *)

LEMMA Sizes ==
  ASSUME TypeOK
  PROVE  /\ mailbox \in Nat /\ cursor \in Nat /\ floor \in Nat
         /\ First <= mailbox /\ mailbox <= Last /\ First <= cursor /\ cursor <= mailbox
         /\ \A e \in 1..mailbox : e \in Events /\ ThreadOf[e] \in Threads
  BY IngressAssumption DEF TypeOK, Events, Threads

LEMMA Fields ==
  ASSUME NEW n \in Nat, NEW k \in WorkStates(n)
  PROVE  /\ k.todo \subseteq 0..n /\ k.msgs \subseteq 1..n /\ k.more \in BOOLEAN
         /\ k.at \in 0..n /\ k.copy \in 0..n /\ k.profile \in 0..n /\ k.page \in 0..n /\ k.latest \in 0..n
  BY DEF WorkStates

LEMMA WorkGrows ==
  ASSUME NEW n \in Nat, NEW m \in Nat, n <= m
  PROVE  WorkStates(n) \subseteq WorkStates(m)
<1>1. 0..n \subseteq 0..m /\ 1..n \subseteq 1..m
  OBVIOUS
<1>2. SUBSET (0..n) \subseteq SUBSET (0..m) /\ SUBSET (1..n) \subseteq SUBSET (1..m)
  BY <1>1
<1> QED  BY <1>1, <1>2, ZenonT(40) DEF WorkStates

LEMMA IdleState == ASSUME NEW n \in Nat PROVE Idle \in WorkStates(n)
  BY DEF Idle, WorkStates

LEMMA ImportedItem ==
  ASSUME TypeOK, NEW e \in 1..mailbox
  PROVE  /\ Imported(e) \in [Threads -> 0..mailbox]
         /\ \A t \in Threads : items[t] <= Imported(e)[t]
         /\ Imported(e)[ThreadOf[e]] >= e
<1>1. ThreadOf[e] \in Threads /\ mailbox \in Nat /\ e \in Nat /\ e \in 0..mailbox
  BY Sizes
<1>2. items \in [Threads -> 0..mailbox] /\ \A t \in Threads : items[t] \in Nat
  BY <1>1 DEF TypeOK
<1> QED  BY <1>1, <1>2 DEF Imported

-----------------------------------------------------------------------------
(* What is covered stays covered.                                          *)

Grow ==
  /\ kind' = kind /\ mailbox <= mailbox' /\ gone \subseteq gone'
  /\ \A t \in Threads : items[t] <= items'[t]

LEMMA CoveredStays ==
  ASSUME TypeOK, TypeOK', Grow, NEW e \in Events
  PROVE  (Held(e) => Held(e)') /\ (Covered(e) => Covered(e)')
<1>1. ThreadOf[e] \in Threads /\ e \in Nat /\ mailbox \in Nat /\ mailbox' \in Nat
  BY IngressAssumption DEF Threads, Events, TypeOK
<1>2. items[ThreadOf[e]] \in Nat /\ items'[ThreadOf[e]] \in Nat /\ items[ThreadOf[e]] <= items'[ThreadOf[e]]
  BY <1>1 DEF TypeOK, Grow
<1>3. Held(e) => Held(e)'
  BY <1>1, <1>2 DEF Held
<1> QED  BY <1>3, ZenonT(40) DEF Covered, Grow

LEMMA CoveredToStays ==
  ASSUME TypeOK, TypeOK', Grow, UNCHANGED cursor, NEW n \in 0..mailbox, NEW msgs, CoveredTo(n, msgs)
  PROVE  CoveredTo(n, msgs)'
<1>1. \A e \in (cursor + 1)..n : e \in Events
  BY Sizes DEF Events
<1> QED  BY <1>1, CoveredStays, ZenonT(40) DEF CoveredTo

LEMMA HandledStays ==
  ASSUME TypeOK, TypeOK', Grow, cursor <= cursor', NEW d \in Nat, Handled(d)
  PROVE  Handled(d)'
<1>1. CASE kind = "gmail"
  <2>1. d <= cursor'
    BY <1>1, Sizes DEF Handled, TypeOK
  <2> QED  BY <1>1, <2>1 DEF Handled, Grow
<1>2. CASE kind # "gmail"
  BY <1>2, CoveredStays, ZenonT(40) DEF Handled, Grow
<1> QED  BY <1>1, <1>2

LEMMA SoundStays ==
  ASSUME TypeOK, TypeOK', Grow, UNCHANGED cursor, NEW k \in WorkStates(mailbox), Sound(k)
  PROVE  Sound(k)'
<1>1. kind' = kind
  BY DEF Grow
<1>2. /\ k.page \in 0..mailbox /\ k.latest \in 0..mailbox /\ k.at \in Nat
      /\ cursor <= cursor'
  BY Sizes, Fields
<1>3. CoveredTo(k.page, {}) => CoveredTo(k.page, {})'
  BY <1>2, CoveredToStays, ZenonT(40)
<1>4. CoveredTo(k.page, k.msgs) => CoveredTo(k.page, k.msgs)'
  BY <1>2, CoveredToStays, ZenonT(40)
<1>5. CoveredTo(k.latest, {}) => CoveredTo(k.latest, {})'
  BY <1>2, CoveredToStays, ZenonT(40)
<1>6. CoveredTo(k.latest, k.msgs) => CoveredTo(k.latest, k.msgs)'
  BY <1>2, CoveredToStays, ZenonT(40)
<1>7. Handled(k.at) => Handled(k.at)'
  BY <1>2, HandledStays, ZenonT(40)
<1>8. k.at \in Events /\ Held(k.at) => Held(k.at)'
  BY CoveredStays, ZenonT(40)
<1> QED  BY <1>1, <1>3, <1>4, <1>5, <1>6, <1>7, <1>8, ZenonT(40) DEF Sound

-----------------------------------------------------------------------------
(* What the source was told of stays kept, whatever a step does to the     *)
(* receipts.                                                               *)

ReceiptsMove ==
  /\ \A d \in Events :
       \/ receipts'[d] = receipts[d]
       \/ receipts'[d] = "pending" /\ d <= mailbox
       \/ receipts'[d] = "none" /\ receipts[d] = "done"
       \/ receipts'[d] = "done" /\ d <= mailbox /\ Handled(d)
  /\ \A e \in acked' : e \in acked \/ receipts'[e] # "none"
  /\ kind = "push" => receipts'[0] = receipts[0] /\ gone' = gone

LEMMA ReceiptsStay ==
  ASSUME IInv, TypeOK', Grow, cursor <= cursor', ReceiptsMove
  PROVE  Receipts' /\ AcknowledgedIsKept'
<1>a. TypeOK /\ Receipts /\ AcknowledgedIsKept
  BY ZenonT(40) DEF IInv, MailIsCovered
<1>b. kind \in {"gmail", "push"} /\ kind' = kind
  BY <1>a, ZenonT(40) DEF TypeOK, Grow
<1>c. \A d \in Events : d \in Nat /\ (Handled(d) => Handled(d)')
  BY <1>a, HandledStays DEF Events
<1>d. \A d \in Events : d <= mailbox => d <= mailbox'
  BY <1>a, Sizes DEF TypeOK, Grow, Events
<1>1. ASSUME NEW d \in Events
      PROVE  (receipts'[d] # "none" => d <= mailbox') /\ (receipts'[d] = "done" => Handled(d)')
  BY <1>a, <1>c, <1>d, ZenonT(40) DEF ReceiptsMove, Receipts
<1>2. kind' = "push" => gone' = {} /\ receipts'[0] = "none"
  BY <1>a, <1>b, ZenonT(40) DEF ReceiptsMove, Receipts
<1>3. Receipts'
  BY <1>1, <1>2, ZenonT(40) DEF Receipts
<1>4. ASSUME NEW e \in acked' PROVE receipts'[e] = "pending" \/ Handled(e)'
  <2>0. e \in Events /\ receipts'[e] \in {"none", "pending", "done"}
    BY DEF TypeOK
  <2>1. CASE receipts'[e] # "none"
    BY <1>1, <2>0, <2>1, ZenonT(40)
  <2>2. CASE receipts'[e] = "none"
    <3>1. e \in acked /\ (receipts[e] = "none" \/ receipts[e] = "done")
      BY <2>0, <2>2, ZenonT(40) DEF ReceiptsMove
    <3>2. CASE receipts[e] = "done"
      BY <1>a, <1>c, <2>0, <3>2, ZenonT(40) DEF Receipts
    <3>3. CASE receipts[e] = "none"
      <4>1. IF kind = "gmail" THEN cursor >= e ELSE Held(e)
        BY <1>a, <3>1, <3>3, ZenonT(40) DEF AcknowledgedIsKept
      <4>2. Handled(e)
        BY <1>a, <1>c, <2>0, <4>1, Sizes DEF Handled
      <4> QED  BY <1>c, <2>0, <4>2, ZenonT(40)
    <3> QED  BY <3>1, <3>2, <3>3, ZenonT(40)
  <2> QED  BY <2>1, <2>2
<1>5. ASSUME NEW e \in acked' PROVE receipts'[e] = "pending" \/ (IF kind' = "gmail" THEN cursor' >= e ELSE Held(e)')
  <2>0. e \in Nat /\ cursor' \in Nat
    BY IngressAssumption DEF TypeOK, Events
  <2> QED  BY <1>4, <1>5, <2>0 DEF Handled
<1> QED  BY <1>3, <1>5, ZenonT(40) DEF AcknowledgedIsKept

LEMMA CursorStays ==
  ASSUME IInv, TypeOK', Grow, cursor <= cursor',
         kind = "gmail" => \A e \in (cursor + 1)..cursor' : Covered(e)
  PROVE  CursorIsCovered'
<1>a. TypeOK /\ CursorIsCovered
  BY ZenonT(40) DEF IInv, MailIsCovered
<1> SUFFICES ASSUME kind' = "gmail", NEW e \in (First + 1)..cursor' PROVE Covered(e)'
  BY ZenonT(40) DEF CursorIsCovered, Covered
<1>1. kind = "gmail"
  BY ZenonT(40) DEF Grow
<1>2. e \in Events /\ (e \in (First + 1)..cursor \/ e \in (cursor + 1)..cursor')
  BY <1>a, IngressAssumption DEF TypeOK, Events
<1>3. Covered(e)
  BY <1>a, <1>1, <1>2, ZenonT(40) DEF CursorIsCovered, Covered
<1> QED  BY <1>a, <1>2, <1>3, CoveredStays, ZenonT(40)

(* A step that leaves the workers where they are.                          *)
LEMMA QuietStep ==
  ASSUME IInv, TypeOK', Grow, UNCHANGED <<cursor, work>>, ReceiptsMove
  PROVE  IInv'
<1>a. TypeOK /\ cursor <= cursor' /\ \A e \in (cursor + 1)..cursor' : Covered(e)
  BY Sizes DEF IInv, MailIsCovered
<1>1. CursorIsCovered' /\ AcknowledgedIsKept' /\ Receipts'
  BY <1>a, ReceiptsStay, CursorStays, ZenonT(40)
<1>2. ASSUME NEW w \in Workers PROVE Sound(work[w])'
  <2>1. PICK k : k = work[w] /\ k \in WorkStates(mailbox)
    BY <1>a, ZenonT(40) DEF TypeOK
  <2>2. Sound(k)
    BY <2>1, ZenonT(40) DEF IInv
  <2>3. Sound(k)'
    BY <1>a, <2>1, <2>2, SoundStays
  <2>4. work'[w] = k
    BY <2>1
  <2> QED  BY <2>3, <2>4, ZenonT(40) DEF Sound
<1>3. Alone'
  BY ZenonT(40) DEF IInv, Alone
<1> QED  BY <1>1, <1>2, <1>3, ZenonT(40) DEF IInv, MailIsCovered

LEMMA IdleSound ==
  ASSUME NEW k, k.pc = "idle", kind' = "push" => 0 \notin k.todo
  PROVE  Sound(k)'
<1>1. k.pc \notin {"next", "profile", "page", "import", "save", "complete"}
  OBVIOUS
<1> QED  BY <1>1 DEF Sound

(* A step of a worker that was at work, or found the lock free.            *)
LEMMA WorkerStep ==
  ASSUME IInv, TypeOK', Grow, cursor <= cursor', ReceiptsMove,
         kind = "gmail" => \A e \in (cursor + 1)..cursor' : Covered(e),
         NEW w \in Workers, work[w].pc # "idle" \/ LockFree, NEW k, work' = [work EXCEPT ![w] = k], Sound(k)'
  PROVE  IInv'
<1>a. TypeOK /\ kind' = kind
  BY ZenonT(40) DEF IInv, MailIsCovered, Grow
<1>b. work'[w] = k /\ \A v \in Workers \ {w} : work'[v] = work[v]
  BY <1>a DEF TypeOK
<1>1. CursorIsCovered' /\ AcknowledgedIsKept' /\ Receipts'
  BY ReceiptsStay, CursorStays, ZenonT(40)
<1>2. \A v \in Workers \ {w} : work[v].pc = "idle"
  BY ZenonT(40) DEF IInv, Alone, LockFree
<1>3. Alone'
  <2>1. \A v \in Workers \ {w} : work'[v].pc = "idle"
    BY <1>b, <1>2
  <2> QED  BY <2>1 DEF Alone
<1>4. ASSUME NEW v \in Workers \ {w} PROVE Sound(work[v])'
  <2>1. PICK i : i = work[v] /\ i.pc = "idle"
    BY <1>2, ZenonT(40)
  <2>2. kind' = "push" => 0 \notin i.todo
    BY <1>a, <2>1, ZenonT(40) DEF IInv, Sound
  <2>3. Sound(i)'
    BY <2>1, <2>2, IdleSound
  <2> QED  BY <1>b, <2>1, <2>3, ZenonT(40) DEF Sound
<1>5. Sound(work[w])'
  BY <1>b, ZenonT(40) DEF Sound
<1>6. \A v \in Workers : Sound(work[v])'
  BY <1>4, <1>5, ZenonT(40)
<1> QED  BY <1>1, <1>3, <1>6, ZenonT(40) DEF IInv, MailIsCovered

-----------------------------------------------------------------------------
(* The steps of the outside, of the receipts and of the switches.          *)

LEMMA SameGrow == TypeOK /\ UNCHANGED <<kind, mailbox, gone, items>> => Grow
<1>1. TypeOK => mailbox \in Nat /\ \A t \in Threads : items[t] \in Nat
  BY Sizes DEF TypeOK
<1> QED  BY <1>1 DEF Grow

LEMMA ArriveStep == IInv /\ Arrive => IInv'
<1> SUFFICES ASSUME IInv, Arrive PROVE IInv'
  OBVIOUS
<1>a. TypeOK
  BY ZenonT(40) DEF IInv, MailIsCovered
<1>b. /\ mailbox' = mailbox + 1 /\ mailbox < Last
      /\ kind' = kind /\ gone' = gone /\ floor' = floor /\ receipts' = receipts /\ acked' = acked
      /\ items' = items /\ cursor' = cursor /\ work' = work
  BY ZenonT(40) DEF Arrive
<1>c. /\ mailbox \in Nat /\ mailbox' \in Nat /\ mailbox <= mailbox' /\ mailbox' \in First..Last
      /\ 0..mailbox \subseteq 0..mailbox' /\ First..mailbox \subseteq First..mailbox'
  BY <1>a, <1>b, Sizes, IngressAssumption
<1>d. WorkStates(mailbox) \subseteq WorkStates(mailbox')
  BY <1>c, WorkGrows, ZenonT(40)
<1>1. TypeOK'
  <2>1. items \in [Threads -> 0..mailbox'] /\ work \in [Workers -> WorkStates(mailbox')]
    BY <1>a, <1>c, <1>d DEF TypeOK
  <2>2. floor \in 0..mailbox' /\ cursor \in First..mailbox'
    BY <1>a, <1>c DEF TypeOK
  <2> QED  BY <1>a, <1>b, <1>c, <2>1, <2>2, ZenonT(40) DEF TypeOK
<1>2. Grow
  BY <1>a, <1>b, <1>c DEF Grow, TypeOK
<1>3. ReceiptsMove
  BY <1>b, ZenonT(40) DEF ReceiptsMove
<1> QED  BY <1>b, <1>1, <1>2, <1>3, QuietStep, ZenonT(40)

LEMMA LeaveStep == IInv /\ (Leave \/ ExpireHistory) => IInv'
<1> SUFFICES ASSUME IInv, Leave \/ ExpireHistory PROVE IInv'
  OBVIOUS
<1>a. TypeOK
  BY ZenonT(40) DEF IInv, MailIsCovered
<1>b. /\ kind = "gmail" /\ kind' = kind /\ mailbox' = mailbox /\ receipts' = receipts /\ acked' = acked
      /\ items' = items /\ cursor' = cursor /\ work' = work
  BY ZenonT(40) DEF Leave, ExpireHistory
<1>c. gone \subseteq gone' /\ gone' \subseteq Events /\ floor' \in 0..mailbox
  <2>1. CASE Leave
    <3>1. PICK e \in 1..mailbox : gone' = gone \cup {e}
      BY <2>1, ZenonT(40) DEF Leave
    <3>2. floor' = floor
      BY <2>1, ZenonT(40) DEF Leave
    <3> QED  BY <1>a, <3>1, <3>2, Sizes DEF TypeOK
  <2>2. CASE ExpireHistory
    BY <1>a, <2>2, Sizes DEF ExpireHistory, TypeOK
  <2> QED  BY <2>1, <2>2
<1>1. TypeOK'
  BY <1>a, <1>b, <1>c, ZenonT(40) DEF TypeOK
<1>2. Grow
  BY <1>a, <1>b, <1>c DEF Grow, TypeOK
<1>3. ReceiptsMove
  BY <1>b DEF ReceiptsMove
<1> QED  BY <1>b, <1>1, <1>2, <1>3, QuietStep, ZenonT(40)

(* Steps that change nothing but the receipts, what was answered and the   *)
(* switches.                                                               *)
LEMMA ReceiptStep ==
  ASSUME IInv, UNCHANGED <<kind, mailbox, gone, floor, items, cursor, work>>,
         NEW d \in {0} \cup Events, NEW x \in {"pending", "none", "done"},
         receipts' = [receipts EXCEPT ![d] = x],
         \/ x = "pending" /\ d <= mailbox /\ (d = 0 => kind = "gmail")
         \/ x = "none" /\ receipts[d] = "done"
         \/ x = receipts[d],
         acked' \subseteq Events, \A e \in acked' : e \in acked \/ (e = d /\ x # "none")
  PROVE  IInv'
<1>a. TypeOK /\ Receipts
  BY ZenonT(40) DEF IInv, MailIsCovered
<1>b. /\ receipts' \in [{0} \cup Events -> {"none", "pending", "done"}]
      /\ receipts'[d] = x /\ \A e \in ({0} \cup Events) \ {d} : receipts'[e] = receipts[e]
  BY <1>a DEF TypeOK
<1>1. TypeOK'
  BY <1>a, <1>b, ZenonT(40) DEF TypeOK
<1>2. Grow
  BY <1>a, SameGrow, ZenonT(40)
<1>3. kind = "push" => receipts'[0] = receipts[0] /\ gone' = gone
  BY <1>a, <1>b DEF Receipts
<1>4. ReceiptsMove
  BY <1>b, <1>3 DEF ReceiptsMove
<1> QED  BY <1>1, <1>2, <1>4, QuietStep, ZenonT(40)

LEMMA SwitchStep ==
  ASSUME IInv, UNCHANGED <<kind, mailbox, gone, floor, receipts, acked, items, cursor, work>>
  PROVE  IInv'
<1>a. TypeOK
  BY ZenonT(40) DEF IInv, MailIsCovered
<1>1. TypeOK'
  BY <1>a, ZenonT(40) DEF TypeOK
<1>2. Grow
  BY <1>a, SameGrow, ZenonT(40)
<1>3. ReceiptsMove
  BY ZenonT(40) DEF ReceiptsMove
<1> QED  BY <1>1, <1>2, <1>3, QuietStep, ZenonT(40)

LEMMA MaintenanceStep ==
  IInv /\ (\/ \E e \in Events : Receive(e)
           \/ \E d \in {0} \cup Events : Cleanup(d)
           \/ Renew \/ Reconcile \/ SetEnabled \/ SetLoop) => IInv'
<1>a. IInv => TypeOK
  BY ZenonT(40) DEF IInv, MailIsCovered
<1>1. ASSUME IInv, NEW e \in Events, Receive(e) PROVE IInv'
  <2>a. /\ UNCHANGED <<kind, mailbox, gone, floor, items, cursor, work>>
        /\ e \in (First + 1)..mailbox /\ receipts' = Received(e) /\ acked' \in {acked, acked \cup {e}}
    BY <1>1, ZenonT(40) DEF Receive, mail
  <2>b. e <= mailbox /\ e # 0 /\ receipts \in [{0} \cup Events -> {"none", "pending", "done"}] /\ acked \subseteq Events
    BY <1>1, <1>a, <2>a, IngressAssumption DEF TypeOK
  <2>1. PICK x \in {"pending", "none", "done"} :
          /\ x # "none" /\ receipts' = [receipts EXCEPT ![e] = x]
          /\ x = "pending" \/ x = receipts[e]
    <3>1. CASE receipts[e] = "none"
      BY <2>a, <3>1, ZenonT(40) DEF Received
    <3>2. CASE receipts[e] # "none"
      <4>1. receipts' = [receipts EXCEPT ![e] = receipts[e]]
        BY <2>a, <2>b, <3>2 DEF Received
      <4>2. receipts[e] \in {"pending", "none", "done"}
        BY <2>b
      <4> QED  BY <3>2, <4>1, <4>2, ZenonT(40)
    <3> QED  BY <3>1, <3>2
  <2>2. acked' \subseteq Events /\ \A y \in acked' : y \in acked \/ y = e
    BY <2>a, <2>b
  <2> QED  BY <1>1, <2>a, <2>b, <2>1, <2>2, ReceiptStep, ZenonT(40)
<1>2. ASSUME IInv, NEW d \in {0} \cup Events, Cleanup(d) PROVE IInv'
  <2>1. /\ UNCHANGED <<kind, mailbox, gone, floor, items, cursor, work>>
        /\ receipts' = [receipts EXCEPT ![d] = "none"] /\ receipts[d] = "done" /\ acked' = acked
    BY <1>2, ZenonT(40) DEF Cleanup, mail
  <2>2. acked' \subseteq Events
    BY <1>2, <1>a, <2>1, ZenonT(40) DEF TypeOK
  <2> QED  BY <1>2, <2>1, <2>2, ReceiptStep, ZenonT(40)
<1>3. ASSUME IInv, Renew \/ Reconcile PROVE IInv'
  <2>1. /\ UNCHANGED <<kind, mailbox, gone, floor, items, cursor, work>>
        /\ receipts' = [receipts EXCEPT ![0] = "pending"] /\ kind = "gmail" /\ acked' = acked
    BY <1>3, ZenonT(40) DEF Renew, Reconcile, mail
  <2>2. acked' \subseteq Events /\ 0 <= mailbox
    BY <1>3, <1>a, <2>1, Sizes DEF TypeOK
  <2> QED  BY <1>3, <2>1, <2>2, ReceiptStep, ZenonT(40)
<1>4. ASSUME IInv, SetEnabled \/ SetLoop PROVE IInv'
  BY <1>4, SwitchStep, ZenonT(40) DEF SetEnabled, SetLoop, mail
<1> QED  BY <1>1, <1>2, <1>3, <1>4, ZenonT(40)

-----------------------------------------------------------------------------
(* The steps of a worker.                                                  *)

(* A step that changes the worker's own record only.                       *)
LEMMA TurnStep ==
  ASSUME IInv, UNCHANGED <<kind, mailbox, gone, floor, receipts, acked, items, cursor>>,
         NEW w \in Workers, work[w].pc # "idle" \/ LockFree,
         NEW k \in WorkStates(mailbox), work' = [work EXCEPT ![w] = k], Sound(k)
  PROVE  IInv'
<1>a. TypeOK
  BY ZenonT(40) DEF IInv, MailIsCovered
<1>1. work' \in [Workers -> WorkStates(mailbox)]
  BY <1>a DEF TypeOK
<1>2. TypeOK'
  BY <1>a, <1>1, ZenonT(40) DEF TypeOK
<1>3. Grow
  BY <1>a, SameGrow, ZenonT(40)
<1>4. ReceiptsMove
  BY ZenonT(40) DEF ReceiptsMove
<1>5. cursor <= cursor' /\ \A e \in (cursor + 1)..cursor' : Covered(e)
  BY <1>a, Sizes
<1>6. Sound(k)'
  BY <1>a, <1>2, <1>3, SoundStays, ZenonT(40)
<1> QED  BY <1>2, <1>3, <1>4, <1>5, <1>6, WorkerStep, ZenonT(40)

LEMMA IdleStep ==
  ASSUME IInv, UNCHANGED <<kind, mailbox, gone, floor, receipts, acked, items, cursor>>,
         NEW w \in Workers, work[w].pc # "idle", work' = [work EXCEPT ![w] = Idle]
  PROVE  IInv'
<1>a. TypeOK /\ mailbox \in Nat
  BY Sizes, ZenonT(40) DEF IInv, MailIsCovered
<1>1. Idle \in WorkStates(mailbox) /\ Idle.pc = "idle" /\ Idle.todo = {}
  BY <1>a, IdleState DEF Idle
<1>2. Sound(Idle)
  BY <1>1 DEF Sound
<1> QED  BY <1>1, <1>2, TurnStep, ZenonT(40)

LEMMA BeginStep ==
  ASSUME IInv, NEW w \in Workers, Begin(w)
  PROVE  IInv'
<1>a. TypeOK /\ Receipts
  BY ZenonT(40) DEF IInv, MailIsCovered
<1>b. /\ UNCHANGED <<kind, mailbox, gone, floor, receipts, acked, items, cursor>> /\ LockFree
      /\ work' = [work EXCEPT ![w] = [Idle EXCEPT !.pc = "next", !.todo = Pending, !.copy = cursor]]
  BY ZenonT(40) DEF Begin, Become, mail
<1>c. PICK k : k = [Idle EXCEPT !.pc = "next", !.todo = Pending, !.copy = cursor]
  OBVIOUS
<1>1. Pending \subseteq 0..mailbox /\ (kind = "push" => 0 \notin Pending) /\ cursor \in 0..mailbox
  BY <1>a, Sizes DEF Pending, Receipts, Events
<1>2. k \in WorkStates(mailbox)
  BY <1>a, <1>c, <1>1, IdleState, Sizes, ZenonT(40) DEF WorkStates
<1>3. k.pc = "next" /\ k.todo = Pending /\ k.copy = cursor
  BY <1>c DEF Idle
<1>4. Sound(k)
  BY <1>1, <1>3 DEF Sound
<1> QED  BY <1>b, <1>c, <1>2, <1>4, TurnStep, ZenonT(40)

LEMMA TakeStep ==
  ASSUME IInv, NEW w \in Workers, Take(w)
  PROVE  IInv'
<1>a. TypeOK /\ work[w].pc = "next" /\ work[w].pc # "idle"
  BY ZenonT(40) DEF IInv, MailIsCovered, Take
<1>b. UNCHANGED <<kind, mailbox, gone, floor, receipts, acked, items, cursor>>
  BY ZenonT(40) DEF Take, mail
<1>c. PICK j : j = work[w] /\ j \in WorkStates(mailbox) /\ Sound(j) /\ j.pc = "next"
  BY <1>a, ZenonT(40) DEF TypeOK, IInv
<1>d. mailbox \in Nat /\ kind \in {"gmail", "push"}
  BY <1>a, Sizes DEF TypeOK
<1>1. CASE work' = [work EXCEPT ![w] = Idle]
  BY <1>a, <1>b, <1>1, IdleStep, ZenonT(40)
<1>2. ASSUME NEW d \in work[w].todo,
             NEW pc, pc = IF kind = "push" THEN "import"
                          ELSE IF d = 0 \/ d > work[w].copy THEN "profile" ELSE "complete",
             NEW msgs, msgs = IF kind = "push" THEN {d} ELSE {},
             work' = [work EXCEPT ![w] = [work[w] EXCEPT !.pc = pc, !.at = d, !.todo = @ \ {d},
                                                         !.msgs = msgs, !.more = FALSE]]
      PROVE  IInv'
  <2>a. PICK k : k = [j EXCEPT !.pc = pc, !.at = d, !.todo = @ \ {d}, !.msgs = msgs, !.more = FALSE]
    OBVIOUS
  <2>b. /\ d \in 0..mailbox /\ (kind = "push" => d # 0 /\ 0 \notin j.todo) /\ j.copy = cursor
        /\ j.todo \subseteq 0..mailbox
    BY <1>c, <1>d, <1>2, Fields DEF Sound
  <2>c. pc \in {"import", "profile", "complete"} /\ msgs \subseteq 1..mailbox
    BY <1>d, <1>2, <2>b
  <2>1. k \in WorkStates(mailbox)
    BY <1>c, <2>a, <2>b, <2>c, ZenonT(40) DEF WorkStates
  <2>2. /\ k.pc = pc /\ k.at = d /\ k.todo = j.todo \ {d} /\ k.msgs = msgs /\ k.more = FALSE
        /\ k.copy = cursor
    BY <1>c, <2>a, <2>b DEF WorkStates
  <2>3. Sound(k)
    <3>1. CASE kind = "push"
      <4>1. k.pc = "import" /\ k.at \in k.msgs /\ k.at \in Events /\ 0 \notin k.todo
        BY <1>2, <2>b, <2>2, <3>1, <1>a, Sizes
      <4> QED  BY <2>2, <3>1, <4>1 DEF Sound
    <3>2. CASE kind = "gmail" /\ pc = "profile"
      BY <2>2, <3>2 DEF Sound
    <3>3. CASE kind = "gmail" /\ pc = "complete"
      <4>1. d <= cursor
        BY <1>a, <1>c, <1>2, <2>b, <3>3, Sizes
      <4> QED  BY <2>2, <3>3, <4>1 DEF Sound, Handled
    <3> QED  BY <1>d, <1>2, <3>1, <3>2, <3>3
  <2> QED  BY <1>a, <1>b, <1>c, <1>2, <2>a, <2>1, <2>3, TurnStep, ZenonT(40)
<1> QED  BY <1>1, <1>2, ZenonT(40) DEF Take, Become

LEMMA ProfileStep ==
  ASSUME IInv, NEW w \in Workers, Profile(w)
  PROVE  IInv'
<1>a. TypeOK /\ work[w].pc = "profile" /\ work[w].pc # "idle"
  BY ZenonT(40) DEF IInv, MailIsCovered, Profile
<1>b. /\ UNCHANGED <<kind, mailbox, gone, floor, receipts, acked, items, cursor>>
      /\ work' = [work EXCEPT ![w] = [work[w] EXCEPT !.pc = "page", !.profile = mailbox, !.page = work[w].copy]]
  BY ZenonT(40) DEF Profile, Become, mail
<1>c. PICK j : j = work[w] /\ j \in WorkStates(mailbox) /\ Sound(j) /\ j.pc = "profile"
  BY <1>a, ZenonT(40) DEF TypeOK, IInv
<1>d. PICK k : k = [j EXCEPT !.pc = "page", !.profile = mailbox, !.page = j.copy]
  BY Zenon
<1>e. /\ mailbox \in Nat /\ mailbox \in 0..mailbox /\ cursor \in Nat /\ cursor <= mailbox
      /\ j.copy = cursor /\ j.copy \in 0..mailbox /\ j.at \in 0..mailbox /\ kind = "gmail"
  BY <1>a, <1>c, Sizes, Fields DEF Sound
<1>1. k \in WorkStates(mailbox)
  BY <1>c, <1>d, <1>e, ZenonT(40) DEF WorkStates
<1>2. k.pc = "page" /\ k.profile = mailbox /\ k.page = cursor /\ k.copy = cursor /\ k.at = j.at
  BY <1>c, <1>d, <1>e DEF WorkStates
<1>3. CoveredTo(cursor, {}) /\ j.at <= mailbox
  BY <1>e DEF CoveredTo
<1>4. Sound(k)
  BY <1>e, <1>2, <1>3 DEF Sound
<1> QED  BY <1>a, <1>b, <1>c, <1>d, <1>1, <1>4, TurnStep, ZenonT(40)

LEMMA PageStep ==
  ASSUME IInv, NEW w \in Workers, Page(w)
  PROVE  IInv'
<1>a. TypeOK /\ work[w].pc = "page" /\ work[w].pc # "idle"
  BY ZenonT(40) DEF IInv, MailIsCovered, Page
<1>b. UNCHANGED <<kind, mailbox, gone, floor, receipts, acked, items, cursor>>
  BY ZenonT(40) DEF Page, mail
<1>c. PICK j : j = work[w] /\ j \in WorkStates(mailbox) /\ Sound(j) /\ j.pc = "page"
  BY <1>a, ZenonT(40) DEF TypeOK, IInv
<1>d. /\ mailbox \in Nat /\ cursor \in Nat /\ cursor <= mailbox /\ j.copy = cursor /\ kind = "gmail"
      /\ j.page \in 0..mailbox /\ j.profile \in 0..mailbox /\ j.at \in 0..mailbox
      /\ j.at <= j.profile /\ cursor <= j.profile /\ CoveredTo(j.page, {})
  BY <1>a, <1>c, Sizes, Fields DEF Sound
<1>1. ASSUME work' = [work EXCEPT ![w] = [work[w] EXCEPT !.pc = "import", !.msgs = (1..mailbox) \ gone,
                                                         !.more = FALSE, !.latest = work[w].profile]]
      PROVE  IInv'
  <2>a. PICK k : k = [j EXCEPT !.pc = "import", !.msgs = (1..mailbox) \ gone, !.more = FALSE, !.latest = j.profile]
    BY Zenon
  <2>1. k \in WorkStates(mailbox)
    BY <1>c, <1>d, <2>a, ZenonT(40) DEF WorkStates
  <2>2. /\ k.pc = "import" /\ k.msgs = (1..mailbox) \ gone /\ k.more = FALSE /\ k.latest = j.profile
        /\ k.copy = cursor /\ k.at = j.at /\ k.profile = j.profile
    BY <1>c, <1>d, <2>a DEF WorkStates
  <2>3. CoveredTo(j.profile, (1..mailbox) \ gone)
    BY <1>d DEF CoveredTo, Covered
  <2>4. Sound(k)
    BY <1>d, <2>2, <2>3 DEF Sound
  <2> QED  BY <1>a, <1>b, <1>c, <1>1, <2>a, <2>1, <2>4, TurnStep, ZenonT(40)
<1>2. ASSUME NEW to, to = IF work[w].page + PageSize < mailbox THEN work[w].page + PageSize ELSE mailbox,
             work' = [work EXCEPT ![w] = [work[w] EXCEPT !.pc = "import", !.msgs = (work[w].page + 1)..to,
                                            !.page = to, !.more = to < mailbox, !.latest = mailbox]]
      PROVE  IInv'
  <2>a. PICK k : k = [j EXCEPT !.pc = "import", !.msgs = (j.page + 1)..to, !.page = to,
                               !.more = to < mailbox, !.latest = mailbox]
    BY Zenon
  <2>b. /\ to \in 0..mailbox /\ j.page <= to /\ (j.page + 1)..to \subseteq 1..mailbox
        /\ mailbox \in 0..mailbox /\ (to < mailbox) \in BOOLEAN
    BY <1>c, <1>d, <1>2, IngressAssumption
  <2>1. k \in WorkStates(mailbox)
    BY <1>c, <2>a, <2>b, ZenonT(40) DEF WorkStates
  <2>2. /\ k.pc = "import" /\ k.msgs = (j.page + 1)..to /\ k.page = to /\ k.latest = mailbox
        /\ k.copy = cursor /\ k.at = j.at /\ k.profile = j.profile
    BY <1>c, <1>d, <2>a DEF WorkStates
  <2>3. k.more <=> to < mailbox
    BY <1>c, <2>a, <2>b, ZenonT(40) DEF WorkStates
  <2>4. CoveredTo(to, (j.page + 1)..to)
    BY <1>d, <2>b DEF CoveredTo
  <2>5. ~k.more => to = mailbox /\ j.at <= mailbox
    BY <1>d, <2>b, <2>3
  <2>6. Sound(k)
    BY <1>d, <2>2, <2>4, <2>5 DEF Sound
  <2> QED  BY <1>a, <1>b, <1>c, <1>2, <2>a, <2>1, <2>6, TurnStep, ZenonT(40)
<1> QED  BY <1>1, <1>2, ZenonT(40) DEF Page, Become

LEMMA ImportStep ==
  ASSUME IInv, NEW w \in Workers, Import(w)
  PROVE  IInv'
<1>a. TypeOK /\ Receipts /\ work[w].pc = "import" /\ work[w].pc # "idle"
  BY ZenonT(40) DEF IInv, MailIsCovered, Import
<1>b. UNCHANGED <<kind, mailbox, gone, floor, receipts, acked, cursor>>
  BY ZenonT(40) DEF Import, mail
<1>c. PICK j : j = work[w] /\ j \in WorkStates(mailbox) /\ Sound(j) /\ j.pc = "import"
  BY <1>a, ZenonT(40) DEF TypeOK, IInv
<1>d. mailbox \in Nat /\ kind \in {"gmail", "push"} /\ j.msgs \subseteq 1..mailbox /\ j.copy = cursor
  BY <1>a, <1>c, Sizes, Fields DEF TypeOK, Sound
<1>1. ASSUME NEW pc, pc = IF work[w].more THEN "page" ELSE IF kind = "gmail" THEN "save" ELSE "complete",
             work[w].msgs = {}, work' = [work EXCEPT ![w] = [work[w] EXCEPT !.pc = pc]], UNCHANGED items
      PROVE  IInv'
  <2>a. PICK k : k = [j EXCEPT !.pc = pc]
    BY Zenon
  <2>1. pc \in {"page", "save", "complete"}
    BY <1>1, ZenonT(40)
  <2>2. k \in WorkStates(mailbox)
    BY <1>c, <2>a, <2>1, ZenonT(40) DEF WorkStates
  <2>3. /\ k.pc = pc /\ k.copy = cursor /\ k.at = j.at /\ k.profile = j.profile /\ k.page = j.page
        /\ k.latest = j.latest /\ k.todo = j.todo
    BY <1>c, <1>d, <2>a DEF WorkStates
  <2>4. Sound(k)
    <3>1. CASE kind = "push"
      <4>1. k.pc = "complete" /\ Handled(k.at) /\ 0 \notin k.todo
        BY <1>c, <1>1, <2>3, <3>1, ZenonT(40) DEF Sound, Handled
      <4> QED  BY <2>3, <3>1, <4>1 DEF Sound
    <3>2. CASE kind = "gmail" /\ j.more
      <4>1. k.pc = "page" /\ k.at <= k.profile /\ cursor <= k.profile /\ CoveredTo(k.page, {})
        BY <1>c, <1>1, <2>3, <3>2, ZenonT(40) DEF Sound
      <4> QED  BY <2>3, <3>2, <4>1 DEF Sound
    <3>3. CASE kind = "gmail" /\ ~j.more
      <4>1. k.pc = "save" /\ k.at <= k.latest /\ CoveredTo(k.latest, {})
        BY <1>c, <1>1, <2>3, <3>3, ZenonT(40) DEF Sound
      <4> QED  BY <2>3, <3>3, <4>1 DEF Sound
    <3> QED  BY <1>d, <3>1, <3>2, <3>3, ZenonT(40)
  <2> QED  BY <1>a, <1>b, <1>c, <1>1, <2>a, <2>2, <2>4, TurnStep, ZenonT(40)
<1>2. ASSUME NEW e \in work[w].msgs, items' = IF e \in gone THEN items ELSE Imported(e),
             work' = [work EXCEPT ![w] = [work[w] EXCEPT !.msgs = @ \ {e}]]
      PROVE  IInv'
  <2>a. PICK k : k = [j EXCEPT !.msgs = @ \ {e}]
    BY Zenon
  <2>b. e \in 1..mailbox /\ e \in Events /\ j.msgs \ {e} \subseteq 1..mailbox
    BY <1>a, <1>c, <1>d, <1>2, Sizes
  <2>1. k \in WorkStates(mailbox)
    BY <1>c, <2>a, <2>b, ZenonT(40) DEF WorkStates
  <2>2. /\ k.pc = "import" /\ k.copy = cursor /\ k.at = j.at /\ k.profile = j.profile /\ k.page = j.page
        /\ k.latest = j.latest /\ k.todo = j.todo /\ k.more = j.more /\ k.msgs = j.msgs \ {e}
    BY <1>c, <1>d, <2>a DEF WorkStates
  <2>3. items' \in [Threads -> 0..mailbox] /\ \A t \in Threads : items[t] <= items'[t]
    <3>1. items \in [Threads -> 0..mailbox] /\ \A t \in Threads : items[t] <= items[t]
      BY <1>a, <1>d DEF TypeOK
    <3> QED  BY <1>a, <1>2, <2>b, <3>1, ImportedItem, ZenonT(40)
  <2>4. TypeOK'
    <3>1. work' \in [Workers -> WorkStates(mailbox)]
      BY <1>a, <1>c, <1>2, <2>a, <2>1 DEF TypeOK
    <3> QED  BY <1>a, <1>b, <2>3, <3>1, ZenonT(40) DEF TypeOK
  <2>5. Grow
    BY <1>b, <1>d, <2>3 DEF Grow
  <2>6. Covered(e)' /\ (kind = "push" => Held(e)')
    <3>1. CASE e \in gone
      BY <1>a, <1>b, <3>1, ZenonT(40) DEF Covered, Receipts
    <3>2. CASE e \notin gone
      BY <1>a, <1>2, <2>b, <3>2, ImportedItem, ZenonT(40) DEF Covered, Held
    <3> QED  BY <3>1, <3>2
  <2>7. \A n \in 0..mailbox : CoveredTo(n, j.msgs) => CoveredTo(n, j.msgs \ {e})'
    <3>1. ASSUME NEW n \in 0..mailbox, CoveredTo(n, j.msgs) PROVE CoveredTo(n, j.msgs)'
      BY <1>a, <1>b, <2>4, <2>5, <3>1, CoveredToStays, ZenonT(40)
    <3>2. ASSUME NEW n \in 0..mailbox, CoveredTo(n, j.msgs)' PROVE CoveredTo(n, j.msgs \ {e})'
      BY <2>6, <3>2, ZenonT(40) DEF CoveredTo
    <3> QED  BY <3>1, <3>2, ZenonT(40)
  <2>8. Sound(k)'
    <3>1. CASE kind = "push"
      <4>1. ~k.more /\ k.at \in Events /\ (k.at \in k.msgs \/ Held(k.at)') /\ 0 \notin k.todo
        <5>1. ~j.more /\ j.at \in Events /\ (j.at \in j.msgs \/ Held(j.at)) /\ 0 \notin j.todo
          BY <1>c, <3>1, ZenonT(40) DEF Sound
        <5>2. Held(j.at) => Held(j.at)'
          BY <1>a, <2>4, <2>5, <5>1, CoveredStays, ZenonT(40)
        <5> QED  BY <2>2, <2>6, <3>1, <5>1, <5>2, ZenonT(40)
      <4>2. kind' = "push" /\ cursor' = cursor
        BY <1>b, <3>1
      <4> QED  BY <2>2, <4>1, <4>2 DEF Sound
    <3>2. CASE kind = "gmail"
      <4>1. /\ j.at <= j.profile /\ cursor <= j.profile
            /\ j.more => CoveredTo(j.page, j.msgs)
            /\ ~j.more => j.at <= j.latest /\ CoveredTo(j.latest, j.msgs)
        BY <1>c, <3>2, ZenonT(40) DEF Sound
      <4>2. j.page \in 0..mailbox /\ j.latest \in 0..mailbox
        BY <1>c, <1>d, Fields, ZenonT(40)
      <4>3. /\ k.more => CoveredTo(k.page, k.msgs)'
            /\ ~k.more => k.at <= k.latest /\ CoveredTo(k.latest, k.msgs)'
        BY <2>2, <2>7, <4>1, <4>2, ZenonT(40)
      <4>4. kind' = "gmail" /\ cursor' = cursor
        BY <1>b, <3>2
      <4> QED  BY <2>2, <4>1, <4>3, <4>4 DEF Sound
    <3> QED  BY <1>d, <3>1, <3>2
  <2>9. ReceiptsMove
    BY <1>b, ZenonT(40) DEF ReceiptsMove
  <2>10. cursor <= cursor' /\ \A x \in (cursor + 1)..cursor' : Covered(x)
    BY <1>a, <1>b, Sizes
  <2> QED  BY <1>a, <1>c, <1>2, <2>a, <2>4, <2>5, <2>8, <2>9, <2>10, WorkerStep, ZenonT(40)
<1> QED  BY <1>1, <1>2, ZenonT(40) DEF Import, Become

LEMMA SaveStep ==
  ASSUME IInv, NEW w \in Workers, Save(w)
  PROVE  IInv'
<1>a. TypeOK /\ work[w].pc = "save" /\ work[w].pc # "idle"
  BY ZenonT(40) DEF IInv, MailIsCovered, Save
<1>b. /\ UNCHANGED <<kind, mailbox, gone, floor, receipts, acked, items>> /\ cursor' = work[w].latest
      /\ work' = [work EXCEPT ![w] = [work[w] EXCEPT !.pc = "complete", !.copy = work[w].latest]]
  BY ZenonT(40) DEF Save, Become, mail
<1>c. PICK j : j = work[w] /\ j \in WorkStates(mailbox) /\ Sound(j) /\ j.pc = "save"
  BY <1>a, ZenonT(40) DEF TypeOK, IInv
<1>d. PICK k : k = [j EXCEPT !.pc = "complete", !.copy = j.latest]
  BY Zenon
<1>e. kind = "gmail" /\ j.at <= j.latest /\ CoveredTo(j.latest, {})
  BY <1>c, ZenonT(40) DEF Sound
<1>f. /\ j.latest \in 0..mailbox /\ cursor <= j.latest /\ cursor' = j.latest /\ cursor' \in First..mailbox
      /\ \A e \in (cursor + 1)..j.latest : Covered(e)
  BY <1>a, <1>b, <1>c, <1>e, Sizes, Fields, IngressAssumption DEF CoveredTo
<1>1. k \in WorkStates(mailbox)
  BY <1>c, <1>d, <1>f, ZenonT(40) DEF WorkStates
<1>2. k.pc = "complete" /\ k.copy = j.latest /\ k.at = j.at
  BY <1>c, <1>d DEF WorkStates
<1>3. TypeOK'
  <2>1. work' \in [Workers -> WorkStates(mailbox)]
    BY <1>a, <1>b, <1>c, <1>d, <1>1 DEF TypeOK
  <2> QED  BY <1>a, <1>b, <1>f, <2>1, ZenonT(40) DEF TypeOK
<1>4. Grow
  BY <1>a, <1>b, SameGrow, ZenonT(40)
<1>5. Sound(k)'
  <2>1. kind' = "gmail" /\ Handled(k.at)'
    BY <1>b, <1>e, <1>f, <1>2, ZenonT(40) DEF Handled
  <2> QED  BY <1>f, <1>2, <2>1 DEF Sound
<1>6. ReceiptsMove
  BY <1>b, ZenonT(40) DEF ReceiptsMove
<1> QED  BY <1>a, <1>b, <1>c, <1>d, <1>f, <1>3, <1>4, <1>5, <1>6, WorkerStep, ZenonT(40)

LEMMA CompleteStep ==
  ASSUME IInv, NEW w \in Workers, Complete(w)
  PROVE  IInv'
<1>a. TypeOK /\ Receipts /\ work[w].pc = "complete" /\ work[w].pc # "idle"
  BY ZenonT(40) DEF IInv, MailIsCovered, Complete
<1>b. /\ UNCHANGED <<kind, mailbox, gone, floor, acked, items, cursor>>
      /\ receipts' = [receipts EXCEPT ![work[w].at] = "done"]
      /\ work' = [work EXCEPT ![w] = [work[w] EXCEPT !.pc = "next"]]
  BY ZenonT(40) DEF Complete, Become, mail
<1>c. PICK j : j = work[w] /\ j \in WorkStates(mailbox) /\ Sound(j) /\ j.pc = "complete"
  BY <1>a, ZenonT(40) DEF TypeOK, IInv
<1>d. PICK k : k = [j EXCEPT !.pc = "next"]
  BY Zenon
<1>e. Handled(j.at) /\ j.copy = cursor /\ (kind = "push" => 0 \notin j.todo)
  BY <1>c, ZenonT(40) DEF Sound
<1>f. j.at \in {0} \cup Events /\ j.at <= mailbox /\ (kind = "push" => j.at # 0)
  BY <1>a, <1>c, <1>e, Sizes, Fields DEF Handled, Events
<1>g. /\ receipts' \in [{0} \cup Events -> {"none", "pending", "done"}]
      /\ receipts'[j.at] = "done" /\ \A d \in ({0} \cup Events) \ {j.at} : receipts'[d] = receipts[d]
  BY <1>a, <1>b, <1>c, <1>f DEF TypeOK
<1>1. k \in WorkStates(mailbox)
  BY <1>c, <1>d, ZenonT(40) DEF WorkStates
<1>2. k.pc = "next" /\ k.copy = cursor /\ k.todo = j.todo
  BY <1>c, <1>d, <1>e DEF WorkStates
<1>3. TypeOK'
  <2>1. work' \in [Workers -> WorkStates(mailbox)]
    BY <1>a, <1>b, <1>c, <1>d, <1>1 DEF TypeOK
  <2> QED  BY <1>a, <1>b, <1>g, <2>1, ZenonT(40) DEF TypeOK
<1>4. Grow
  BY <1>a, <1>b, SameGrow, ZenonT(40)
<1>5. Sound(k)'
  BY <1>b, <1>e, <1>2 DEF Sound
<1>6. ReceiptsMove
  <2>1. ASSUME NEW d \in Events
        PROVE  receipts'[d] = receipts[d] \/ (receipts'[d] = "done" /\ d <= mailbox /\ Handled(d))
    BY <1>e, <1>f, <1>g, ZenonT(40)
  <2>2. \A e \in acked' : e \in acked
    BY <1>b
  <2>3. kind = "push" => receipts'[0] = receipts[0] /\ gone' = gone
    BY <1>b, <1>f, <1>g, ZenonT(40)
  <2> QED  BY <2>1, <2>2, <2>3, ZenonT(40) DEF ReceiptsMove
<1>7. cursor <= cursor' /\ \A e \in (cursor + 1)..cursor' : Covered(e)
  BY <1>a, <1>b, Sizes
<1> QED  BY <1>a, <1>b, <1>c, <1>d, <1>3, <1>4, <1>5, <1>6, <1>7, WorkerStep, ZenonT(40)

LEMMA FailStep ==
  ASSUME IInv, NEW w \in Workers, Fail(w)
  PROVE  IInv'
<1>1. UNCHANGED <<kind, mailbox, gone, floor, receipts, acked, items, cursor>> /\ work' = [work EXCEPT ![w] = Idle]
  BY ZenonT(40) DEF Fail, Become, mail
<1>2. work[w].pc # "idle"
  BY DEF Fail
<1> QED  BY <1>1, <1>2, IdleStep, ZenonT(40)

-----------------------------------------------------------------------------
(* The theorems.                                                           *)

LEMMA InitIInv == Init => IInv
<1> SUFFICES ASSUME Init PROVE IInv
  OBVIOUS
<1>a. /\ kind \in {"gmail", "push"} /\ mailbox = First /\ gone = {} /\ floor = 0 /\ acked = {} /\ cursor = First
      /\ receipts = [d \in {0} \cup Events |-> "none"] /\ items = [t \in Threads |-> 0]
      /\ work = [w \in Workers |-> Idle]
  BY ZenonT(40) DEF Init
<1>b. First \in Nat /\ First \in First..Last /\ First \in First..First /\ 0 \in 0..First
  BY IngressAssumption
<1>c. Idle.pc = "idle" /\ Idle.todo = {}
  BY DEF Idle
<1>1. TypeOK
  <2>1. work \in [Workers -> WorkStates(mailbox)] /\ items \in [Threads -> 0..mailbox]
    BY <1>a, <1>b, IdleState
  <2>2. receipts \in [{0} \cup Events -> {"none", "pending", "done"}] /\ gone \subseteq Events /\ acked \subseteq Events
    BY <1>a
  <2> QED  BY <1>a, <1>b, <2>1, <2>2, ZenonT(40) DEF TypeOK
<1>2. CursorIsCovered /\ AcknowledgedIsKept
  <2>1. (First + 1)..cursor = {}
    BY <1>a, <1>b
  <2> QED  BY <1>a, <2>1 DEF CursorIsCovered, AcknowledgedIsKept
<1>3. Alone
  BY <1>a, <1>c DEF Alone
<1>4. Receipts
  BY <1>a DEF Receipts
<1>5. ASSUME NEW w \in Workers PROVE Sound(work[w])
  <2>1. work[w].pc = "idle" /\ work[w].todo = {}
    BY <1>a, <1>c
  <2> QED  BY <2>1 DEF Sound
<1> QED  BY <1>1, <1>2, <1>3, <1>4, <1>5, ZenonT(40) DEF IInv, MailIsCovered

LEMMA NextIInv == IInv /\ [Next]_vars => IInv'
<1>1. ASSUME IInv, NEW w \in Workers, Process(w) PROVE IInv'
  BY <1>1, BeginStep, TakeStep, ProfileStep, PageStep, ImportStep, SaveStep, CompleteStep, ZenonT(40) DEF Process
<1>2. ASSUME IInv, UNCHANGED vars PROVE IInv'
  <2>1. UNCHANGED <<kind, mailbox, gone, floor, receipts, acked, items, cursor, work>>
    BY <1>2, ZenonT(40) DEF vars
  <2> QED  BY <1>2, <2>1, SwitchStep, ZenonT(40)
<1>3. ASSUME IInv, Next PROVE IInv'
  BY <1>1, <1>3, ArriveStep, LeaveStep, MaintenanceStep, FailStep, ZenonT(40) DEF Next
<1> QED  BY <1>2, <1>3, ZenonT(40)

(* The inductive invariant holds in every behaviour: one worker at a time  *)
(* works on a source, and it has covered, or still holds, every message up *)
(* to the id it will save (process in ingress.ts, under its lock).         *)
THEOREM Invariance == Spec => []IInv
  BY InitIInv, NextIInv, PTL DEF Spec

(* Whatever requests fail, processes die, notices are lost and histories   *)
(* expire, and however the deliveries are ordered: the saved cursor of a   *)
(* mailbox never passes a message that is in the inbox and not in the      *)
(* ledger, and an event that was answered 202 is in the ledger, is behind  *)
(* the cursor, or still has its receipt (receive, process and maintain in  *)
(* ingress.ts, changes in gmail-push.ts).                                  *)
THEOREM NoMailIsLost == Spec => []MailIsCovered
<1>1. IInv => MailIsCovered
  BY ZenonT(40) DEF IInv
<1> QED  BY <1>1, Invariance, PTL

(* The cursor of a mailbox only moves forward, and only over messages that *)
(* are in the ledger or left the inbox: no renewed watch, no late notice   *)
(* and no second worker takes it back or makes it jump.                    *)
CursorAdvances ==
  /\ cursor <= cursor'
  /\ kind = "gmail" => \A e \in (cursor + 1)..cursor' : Covered(e)

LEMMA NextAdvances == IInv /\ [Next]_vars => CursorAdvances
<1>a. IInv => cursor \in Nat
  BY Sizes, SMT DEF IInv, MailIsCovered
<1>1. ASSUME IInv, NEW w \in Workers, Save(w) PROVE CursorAdvances
  <2>1. PICK j : j = work[w] /\ Sound(j) /\ j.pc = "save" /\ cursor' = j.latest
    BY <1>1, ZenonT(40) DEF IInv, Save
  <2>2. CoveredTo(j.latest, {})
    BY <2>1, ZenonT(40) DEF Sound
  <2> QED  BY <2>1, <2>2 DEF CoveredTo, CursorAdvances
<1>2. ASSUME IInv, cursor' = cursor PROVE CursorAdvances
  BY <1>a, <1>2 DEF CursorAdvances
<1>3. [Next]_vars => cursor' = cursor \/ \E w \in Workers : Save(w)
  BY ZenonT(60) DEF Next, vars, Arrive, Leave, ExpireHistory, Receive, Process, Fail, Cleanup, Renew, Reconcile,
     SetEnabled, SetLoop, Begin, Take, Profile, Page, Import, Complete
<1> QED  BY <1>1, <1>2, <1>3, ZenonT(40)

(* In every step of every behaviour the cursor of a mailbox stays or moves *)
(* over covered messages only (process and maintain in ingress.ts, changes *)
(* in gmail-push.ts).                                                      *)
THEOREM CursorOnlyAdvances == Spec => [][CursorAdvances]_vars
<1> QED  BY Invariance, NextAdvances, PTL DEF Spec
=============================================================================
