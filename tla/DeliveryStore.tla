---------------------------- MODULE DeliveryStore ----------------------------
(***************************************************************************)
(* The outbox: one row per idempotency key, as both delivery stores keep   *)
(* it (src/src/delivery/delivery-store.ts and postgres-delivery-store.ts). *)
(* Every operator maps a row, or all rows, to what one call of the store   *)
(* leaves behind; the modules that use the outbox put them in actions.     *)
(*                                                                         *)
(* Time is abstract. age says which of the two thresholds the row has      *)
(* passed: 1 is older than one claim (and than the grace a run's own       *)
(* handler gets, the same fifteen seconds), 2 is older than the maximum    *)
(* age.  claimed says that claim_expires_at lies in the future.  Shadow    *)
(* rows, which no poller ever sees, are left out.                          *)
(***************************************************************************)
EXTENDS Naturals

Statuses == {"none", "open", "expired", "delivered"}

RowType == [status : Statuses, claimed : BOOLEAN, age : 0..2]

NoRow == [status |-> "none", claimed |-> FALSE, age |-> 0]

NewRow == [status |-> "open", claimed |-> FALSE, age |-> 0]

\* enqueue: the first call inserts, one that finds the row expired revives it
\* with a fresh age and no claim, any other leaves the row as it is.
Enqueue(row) == IF row.status \in {"none", "expired"} THEN NewRow ELSE row

\* expireOveraged: an undelivered row past its age expires unless it is claimed.
ExpireOveraged(row) ==
    IF row.status = "open" /\ ~row.claimed /\ row.age = 2
      THEN [row EXCEPT !.status = "expired"] ELSE row

Claimable(row) == row.status = "open" /\ ~row.claimed

\* claimPending: overaged rows of every type expire first, then the
\* unclaimed rows of the asked type are claimed.
ClaimedBy(rows, type) == {k \in type : Claimable(ExpireOveraged(rows[k]))}

ClaimPending(rows, type) ==
    [k \in DOMAIN rows |->
        LET row == ExpireOveraged(rows[k])
        IN IF k \in ClaimedBy(rows, type) THEN [row EXCEPT !.claimed = TRUE] ELSE row]

\* ack, and recordRecipientThread before it: delivered once, never unmarked.
Ack(row) ==
    IF row.status \in {"open", "expired"} THEN [row EXCEPT !.status = "delivered"] ELSE row

\* ackByKey: a key without a row gets a tombstone, so that a later enqueue adds nothing.
AckByKey(row) ==
    IF row.status = "none" THEN [NewRow EXCEPT !.status = "delivered"] ELSE Ack(row)

=============================================================================
