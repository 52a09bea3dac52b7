---------------------------- MODULE LoopIngress ----------------------------
(***************************************************************************)
(* An event source of a loop: the receipts of its deliveries, and the      *)
(* worker that transfers them to the loop's ledger.  A push source         *)
(* (webhook, Slack) delivers the events themselves; a Gmail source only    *)
(* hears that the mailbox changed, and reads the history from a saved      *)
(* cursor on.                                                              *)
(*                                                                         *)
(* An event is its position in the mailbox, or in the sender's sequence;   *)
(* it is also its time and its history id.  Delivery 0 is reconciliation.  *)
(*                                                                         *)
(*   kind      of the source: gmail, or push                               *)
(*   mailbox   events so far;  gone: those that left the inbox             *)
(*   floor     history older than this has expired                         *)
(*   receipts  of each delivery: none, pending or done                     *)
(*   acked     deliveries that were answered 202                           *)
(*   items     of each conversation: the newest event in the ledger        *)
(*   cursor    source.gmail.historyId                                      *)
(*   enabled   the source;  running: the loop                              *)
(*   work      a worker: its place, its snapshot of pending deliveries,    *)
(*             its copy of the cursor, the profile's history id, the page  *)
(*             it reads, the messages to import and the id it will save    *)
(***************************************************************************)
EXTENDS Naturals

CONSTANTS
    Workers,
    ThreadOf,     \* the conversation of an event
    First,        \* events before the source was created
    Last,         \* bound: events
    PageSize,
    Toggles,      \* bound: changes of enabled and running
    MaxFaults     \* bound: failures, crashes, losses and expiries

ASSUME IngressAssumption ==
    /\ First \in Nat /\ Last \in Nat /\ First <= Last
    /\ PageSize \in Nat \ {0}

VARIABLES kind, mailbox, gone, floor, receipts, acked, items, cursor, enabled, running, work, toggles, faults

vars == <<kind, mailbox, gone, floor, receipts, acked, items, cursor, enabled, running, work, toggles, faults>>
mail == <<kind, mailbox, gone, floor>>
switches == <<enabled, running, toggles>>

Events == 1..Last
Threads == {ThreadOf[e] : e \in Events}
Idle == [pc |-> "idle", todo |-> {}, at |-> 0, copy |-> 0, profile |-> 0, page |-> 0, msgs |-> {}, more |-> FALSE, latest |-> 0]

\* The states of a worker when there are n events.
WorkStates(n) ==
    [pc : {"idle", "next", "profile", "page", "import", "save", "complete"}, todo : SUBSET (0..n),
     at : 0..n, copy : 0..n, profile : 0..n, page : 0..n, msgs : SUBSET (1..n), more : BOOLEAN, latest : 0..n]

Init ==
    /\ kind \in {"gmail", "push"}
    /\ mailbox = First /\ gone = {} /\ floor = 0
    /\ receipts = [d \in {0} \cup Events |-> "none"]
    /\ acked = {}
    /\ items = [t \in Threads |-> 0]
    /\ cursor = First
    /\ enabled = TRUE /\ running = TRUE
    /\ work = [w \in Workers |-> Idle]
    /\ toggles = 0 /\ faults = 0

Fault == faults < MaxFaults /\ faults' = faults + 1

(***************************************************************************)
(* The outside: the mailbox, or the sender of events.                      *)
(***************************************************************************)

Arrive ==
    /\ mailbox < Last
    /\ mailbox' = mailbox + 1
    /\ UNCHANGED <<kind, gone, floor, receipts, acked, items, cursor, switches, work, faults>>

Leave ==
    /\ kind = "gmail" /\ Fault
    /\ \E e \in 1..mailbox : e \notin gone /\ gone' = gone \cup {e}
    /\ UNCHANGED <<kind, mailbox, floor, receipts, acked, items, cursor, switches, work>>

ExpireHistory ==
    /\ kind = "gmail" /\ floor < mailbox /\ Fault
    /\ floor' = mailbox
    /\ UNCHANGED <<kind, mailbox, gone, receipts, acked, items, cursor, switches, work>>

\* putIfAbsent.
Received(d) == IF receipts[d] = "none" THEN [receipts EXCEPT ![d] = "pending"] ELSE receipts

\* receive and enqueue: an enabled source stores the receipt, then answers.
\* A sender that hears nothing may send again; a notification may be lost.
Receive(e) ==
    /\ e \in (First + 1)..mailbox /\ enabled
    /\ receipts' = Received(e)
    /\ acked' \in {acked, acked \cup {e}}
    /\ UNCHANGED <<mail, items, cursor, switches, work, faults>>

(***************************************************************************)
(* The worker: process, under the lock of the source.                      *)
(***************************************************************************)

LockFree == \A w \in Workers : work[w].pc = "idle"

Pending == {d \in {0} \cup Events : receipts[d] = "pending"}

Become(w, k) == work' = [work EXCEPT ![w] = k]

Begin(w) ==
    /\ LockFree /\ enabled /\ running /\ Pending # {}
    /\ Become(w, [Idle EXCEPT !.pc = "next", !.todo = Pending, !.copy = cursor])
    /\ UNCHANGED <<mail, receipts, acked, items, cursor, switches, faults>>

\* The snapshot's deliveries, in any order: they need not come in in the
\* order of the events.  Gmail reads the history unless the notice is older
\* than the cursor.
Take(w) ==
    /\ work[w].pc = "next"
    /\ \/ work[w].todo = {} /\ Become(w, Idle)
       \/ \E d \in work[w].todo :
            LET pc == IF kind = "push" THEN "import"
                      ELSE IF d = 0 \/ d > work[w].copy THEN "profile" ELSE "complete"
                msgs == IF kind = "push" THEN {d} ELSE {}
            IN Become(w, [work[w] EXCEPT !.pc = pc, !.at = d, !.todo = @ \ {d}, !.msgs = msgs, !.more = FALSE])
    /\ UNCHANGED <<mail, receipts, acked, items, cursor, switches, faults>>

Profile(w) ==
    /\ work[w].pc = "profile"
    /\ Become(w, [work[w] EXCEPT !.pc = "page", !.profile = mailbox, !.page = work[w].copy])
    /\ UNCHANGED <<mail, receipts, acked, items, cursor, switches, faults>>

\* A page of the history from the cursor on; an expired cursor leads to a
\* listing of the inbox.
Page(w) ==
    /\ work[w].pc = "page"
    /\ LET from == work[w].page
           to == IF from + PageSize < mailbox THEN from + PageSize ELSE mailbox
       IN \/ /\ work[w].copy < floor
             /\ Become(w, [work[w] EXCEPT !.pc = "import", !.msgs = (1..mailbox) \ gone, !.more = FALSE,
                                          !.latest = work[w].profile])
          \/ /\ work[w].copy >= floor
             /\ Become(w, [work[w] EXCEPT !.pc = "import", !.msgs = (from + 1)..to, !.page = to,
                                          !.more = to < mailbox, !.latest = mailbox])
    /\ UNCHANGED <<mail, receipts, acked, items, cursor, switches, faults>>

\* Mutant of Imported: an item keeps the first event of its conversation.
ImportedFirst(e) == IF items[ThreadOf[e]] = 0 THEN [items EXCEPT ![ThreadOf[e]] = e] ELSE items

\* The ledger's ingest: a newer event refreshes the item.
Imported(e) == IF e > items[ThreadOf[e]] THEN [items EXCEPT ![ThreadOf[e]] = e] ELSE items

\* Messages are imported one by one; one that left the inbox is passed over.
Import(w) ==
    /\ work[w].pc = "import"
    /\ \/ LET pc == IF work[w].more THEN "page" ELSE IF kind = "gmail" THEN "save" ELSE "complete"
          IN work[w].msgs = {} /\ Become(w, [work[w] EXCEPT !.pc = pc]) /\ UNCHANGED items
       \/ \E e \in work[w].msgs :
            /\ items' = IF e \in gone THEN items ELSE Imported(e)
            /\ Become(w, [work[w] EXCEPT !.msgs = @ \ {e}])
    /\ UNCHANGED <<mail, receipts, acked, cursor, switches, faults>>

Save(w) ==
    /\ work[w].pc = "save"
    /\ cursor' = work[w].latest
    /\ Become(w, [work[w] EXCEPT !.pc = "complete", !.copy = work[w].latest])
    /\ UNCHANGED <<mail, receipts, acked, items, switches, faults>>

Complete(w) ==
    /\ work[w].pc = "complete"
    /\ receipts' = [receipts EXCEPT ![work[w].at] = "done"]
    /\ Become(w, [work[w] EXCEPT !.pc = "next"])
    /\ UNCHANGED <<mail, acked, items, cursor, switches, faults>>

\* A request fails, an import fails (an output of the conversation still
\* ships), or the process dies: the delivery stays and is tried again.
Fail(w) ==
    /\ work[w].pc \in {"profile", "page", "import", "save", "complete"} /\ Fault
    /\ Become(w, Idle)
    /\ UNCHANGED <<mail, receipts, acked, items, cursor, switches>>

Process(w) == Begin(w) \/ Take(w) \/ Profile(w) \/ Page(w) \/ Import(w) \/ Save(w) \/ Complete(w)

(***************************************************************************)
(* Maintenance and switches.                                               *)
(***************************************************************************)

\* Mutant of Renew: the watch's history id becomes the cursor.
RenewJumps ==
    /\ kind = "gmail" /\ enabled /\ LockFree
    /\ cursor' = mailbox
    /\ receipts' = [receipts EXCEPT ![0] = "pending"]
    /\ UNCHANGED <<mail, acked, items, switches, work, faults>>

\* The watch is renewed under the lock; the cursor is kept.  The delivery it
\* enqueues names the watch's history id, which only spares a read when
\* nothing is newer: it is a reconciliation too.
Renew ==
    /\ kind = "gmail" /\ enabled /\ LockFree
    /\ receipts' = [receipts EXCEPT ![0] = "pending"]
    /\ UNCHANGED <<mail, acked, items, cursor, switches, work, faults>>

\* Every ten minutes a new reconciliation is enqueued.
Reconcile ==
    /\ kind = "gmail" /\ enabled /\ receipts[0] # "pending"
    /\ receipts' = [receipts EXCEPT ![0] = "pending"]
    /\ UNCHANGED <<mail, acked, items, cursor, switches, work, faults>>

\* A receipt that was completed thirty days ago is deleted.
Cleanup(d) ==
    /\ receipts[d] = "done"
    /\ receipts' = [receipts EXCEPT ![d] = "none"]
    /\ UNCHANGED <<mail, acked, items, cursor, switches, work, faults>>

\* setEnabled, under the lock; a renewed watch keeps the cursor.
SetEnabled ==
    /\ toggles < Toggles /\ LockFree
    /\ enabled' = ~enabled
    /\ toggles' = toggles + 1
    /\ UNCHANGED <<mail, receipts, acked, items, cursor, running, work, faults>>

SetLoop ==
    /\ toggles < Toggles
    /\ running' = ~running
    /\ toggles' = toggles + 1
    /\ UNCHANGED <<mail, receipts, acked, items, cursor, enabled, work, faults>>

Next ==
    \/ Arrive \/ Leave \/ ExpireHistory
    \/ \E e \in Events : Receive(e)
    \/ \E w \in Workers : Process(w) \/ Fail(w)
    \/ \E d \in {0} \cup Events : Cleanup(d)
    \/ Renew \/ Reconcile \/ SetEnabled \/ SetLoop

Spec == Init /\ [][Next]_vars

\* Every process maintains its sources again and again.
FairSpec == Spec /\ \A w \in Workers : WF_vars(Process(w)) /\ WF_vars(Reconcile)

(***************************************************************************)
(* Properties.                                                             *)
(***************************************************************************)

\* The types.
TypeOK ==
    /\ kind \in {"gmail", "push"}
    /\ mailbox \in First..Last /\ gone \subseteq Events /\ floor \in 0..mailbox
    /\ receipts \in [{0} \cup Events -> {"none", "pending", "done"}]
    /\ acked \subseteq Events
    /\ items \in [Threads -> 0..mailbox]
    /\ cursor \in First..mailbox
    /\ work \in [Workers -> WorkStates(mailbox)]

Held(e) == items[ThreadOf[e]] >= e

\* An event that was answered 202 is in the ledger, or its receipt is kept.
AcknowledgedIsKept ==
    \A e \in acked : receipts[e] = "pending" \/ (IF kind = "gmail" THEN cursor >= e ELSE Held(e))

\* The cursor never passes a message that is in the inbox and not in the
\* ledger.
CursorIsCovered ==
    kind = "gmail" => \A e \in (First + 1)..cursor : e \in gone \/ Held(e)

\* Whatever fails and whoever takes over, what a source was told of is in the
\* ledger, or will be read again: receipts of the pushed events, the cursor
\* of the mailbox.
MailIsCovered == TypeOK /\ CursorIsCovered /\ AcknowledgedIsKept

\* An event that was answered 202 reaches the ledger.
AcknowledgedArrives == \A e \in Events : e \in acked ~> Held(e) \/ e \in gone

\* A message reaches the ledger though its notification is lost.
MessagesArrive == \A e \in Events : (e > First /\ e <= mailbox) ~> (Held(e) \/ e \in gone)
=============================================================================
