--------------------------- MODULE ConnectorTokens --------------------------
(***************************************************************************)
(* The OAuth token of one connector in the keychain                          *)
(* (src/credentials/keychain.ts).  A token near its end is refreshed by the    *)
(* process that needs it, one flight at a time per process; the provider        *)
(* rotates the refresh token with every use.  The record is read, compared and   *)
(* written in separate calls of the credential store, while other processes do   *)
(* the same and the owner reconnects or disconnects.                          *)
(***************************************************************************)
EXTENDS Naturals

CONSTANTS
    Processes,
    Callers,
    ProcessOf,       \* ProcessOf[c]: the process the caller is in
    MaxExpiries,     \* bound: times a stored token comes near its end
    MaxOutages,      \* bound: refreshes that fail at the provider for another reason
    MaxOwner,        \* bound: the owner's connects and disconnects
    MaxCalls,        \* bound: calls of connectorAccessToken
    None

VARIABLES
    cred,        \* the stored record, or None
    issued,      \* how many tokens the provider issued; token n is the n-th, access and refresh
    valid,       \* the refresh tokens the provider would take
    flight,      \* flight[p]: the entry of inflightRefreshes, or None
    caller,      \* caller[c]: a call of connectorAccessToken
    clock,       \* the time of the last write
    calls, expiries, outages, owner

vars == <<cred, issued, valid, flight, caller, clock, calls, expiries, outages, owner>>

Idle == [pc |-> "idle", rec |-> None, result |-> None]

\* Every variable has a value of its type; a caller goes on only with a record.
TypeOK ==
    /\ cred # None =>
        /\ cred.access \in 1 .. issued /\ cred.refresh \in 1 .. issued
        /\ cred.stamp \in 0 .. clock
        /\ cred.failed \in BOOLEAN /\ cred.due \in BOOLEAN
    /\ issued \in Nat /\ clock \in Nat
    /\ valid \subseteq 1 .. issued
    /\ \A p \in Processes : flight[p] # None =>
        /\ flight[p].pc \in {"calling", "comparing", "putting", "failing", "marking"}
        /\ flight[p].fresh \in 0 .. issued
    /\ \A c \in Callers :
        /\ caller[c].pc \in {"idle", "holding", "waiting", "done"}
        /\ caller[c].pc = "holding" => caller[c].rec # None
        /\ caller[c].pc = "waiting" => flight[ProcessOf[c]] # None

Stored(n, at) == [access |-> n, refresh |-> n, stamp |-> at, failed |-> FALSE, due |-> FALSE]

Init ==
    /\ cred = Stored(1, 0)
    /\ issued = 1 /\ valid = {1}
    /\ flight = [p \in Processes |-> None]
    /\ caller = [c \in Callers |-> Idle]
    /\ clock = 0
    /\ calls = 0 /\ expiries = 0 /\ outages = 0 /\ owner = 0

Faults == <<expiries, outages, owner>>

Bounds == <<calls, Faults>>

\* The record is still the one the flight began with: same updatedAt and fingerprint.
Same(r) == cred.stamp = r.stamp /\ cred.access = r.access

(* ---- a caller ----------------------------------------------------------- *)

\* connectorAccessToken reads the record; without one there is no token.
Read(c) ==
    /\ calls < MaxCalls /\ calls' = calls + 1
    /\ caller[c].pc \in {"idle", "done"}
    /\ caller' = [caller EXCEPT ![c] =
            IF cred = None THEN [Idle EXCEPT !.pc = "done"] ELSE [Idle EXCEPT !.pc = "holding", !.rec = cred]]
    /\ UNCHANGED <<cred, issued, valid, flight, clock, Faults>>

\* connectorTokenForRecord: the token is far from its end.
Serve(c) ==
    /\ caller[c].pc = "holding" /\ ~caller[c].rec.due
    /\ caller' = [caller EXCEPT ![c] = [Idle EXCEPT !.pc = "done", !.result = caller[c].rec.access]]
    /\ UNCHANGED <<cred, issued, valid, flight, clock, Bounds>>

\* A refresh of this process is in flight: the caller waits for it.
Join(c) ==
    /\ caller[c].pc = "holding" /\ caller[c].rec.due /\ flight[ProcessOf[c]] # None
    /\ caller' = [caller EXCEPT ![c] = [Idle EXCEPT !.pc = "waiting"]]
    /\ UNCHANGED <<cred, issued, valid, flight, clock, Bounds>>

\* None is: the caller begins one with the record it read.
Launch(c) ==
    LET p == ProcessOf[c]
    IN  /\ caller[c].pc = "holding" /\ caller[c].rec.due /\ flight[p] = None
        /\ flight' = [flight EXCEPT ![p] = [pc |-> "calling", rec |-> caller[c].rec, fresh |-> 0]]
        /\ caller' = [caller EXCEPT ![c] = [Idle EXCEPT !.pc = "waiting"]]
        /\ UNCHANGED <<cred, issued, valid, clock, Bounds>>

(* ---- a flight: refreshAndStore ------------------------------------------ *)

\* Mutant of Settle: a flight that fails leaves its callers waiting.
SettleOnSuccess(p, answer) ==
    /\ flight' = [flight EXCEPT ![p] = None]
    /\ caller' = [c \in Callers |->
            IF ProcessOf[c] = p /\ caller[c].pc = "waiting" /\ answer # None
            THEN [Idle EXCEPT !.pc = "done", !.result = answer] ELSE caller[c]]

\* The flight settles: its callers have their answer and the entry is deleted.
Settle(p, answer) ==
    /\ flight' = [flight EXCEPT ![p] = None]
    /\ caller' = [c \in Callers |->
            IF ProcessOf[c] = p /\ caller[c].pc = "waiting"
            THEN [Idle EXCEPT !.pc = "done", !.result = answer] ELSE caller[c]]

\* The provider takes the refresh token and issues the next pair.
Refreshed(p) ==
    /\ flight[p] # None /\ flight[p].pc = "calling"
    /\ flight[p].rec.refresh \in valid
    /\ issued' = issued + 1
    /\ valid' = (valid \ {flight[p].rec.refresh}) \cup {issued + 1}
    /\ flight' = [flight EXCEPT ![p].pc = "comparing", ![p].fresh = issued + 1]
    /\ UNCHANGED <<cred, caller, clock, Bounds>>

\* It refuses a token that was used before.
Refused(p) ==
    /\ flight[p] # None /\ flight[p].pc = "calling"
    /\ flight[p].rec.refresh \notin valid
    /\ flight' = [flight EXCEPT ![p].pc = "failing"]
    /\ UNCHANGED <<cred, issued, valid, caller, clock, Bounds>>

\* It cannot be reached.
Outage(p) ==
    /\ outages < MaxOutages /\ outages' = outages + 1
    /\ flight[p] # None /\ flight[p].pc = "calling"
    /\ flight' = [flight EXCEPT ![p].pc = "failing"]
    /\ UNCHANGED <<cred, issued, valid, caller, clock, calls, expiries, owner>>

\* The record is read again, and is another: its token is the answer.
CompareLost(p) ==
    /\ flight[p] # None /\ flight[p].pc = "comparing"
    /\ cred # None /\ ~Same(flight[p].rec)
    /\ Settle(p, cred.access)
    /\ UNCHANGED <<cred, issued, valid, clock, Bounds>>

\* It is the same, or there is none any more: the flight goes on to write.
CompareWon(p) ==
    /\ flight[p] # None /\ flight[p].pc = "comparing"
    /\ cred # None => Same(flight[p].rec)
    /\ flight' = [flight EXCEPT ![p].pc = "putting"]
    /\ UNCHANGED <<cred, issued, valid, caller, clock, Bounds>>

\* putConnectorToken replaces the record.
Put(p) ==
    /\ flight[p] # None /\ flight[p].pc = "putting"
    /\ clock' = clock + 1
    /\ cred' = Stored(flight[p].fresh, clock + 1)
    /\ Settle(p, flight[p].fresh)
    /\ UNCHANGED <<issued, valid, Bounds>>

\* markConnectorRefreshFailure finds another record, or none, and leaves it alone.
MarkLost(p) ==
    /\ flight[p] # None /\ flight[p].pc = "failing"
    /\ cred # None => ~Same(flight[p].rec)
    /\ Settle(p, None)
    /\ UNCHANGED <<cred, issued, valid, clock, Bounds>>

\* Mutant of MarkWon: the record is not compared.
MarkWonAny(p) ==
    /\ flight[p] # None /\ flight[p].pc = "failing"
    /\ cred # None
    /\ flight' = [flight EXCEPT ![p].pc = "marking"]
    /\ UNCHANGED <<cred, issued, valid, caller, clock, Bounds>>

\* It finds the same record.
MarkWon(p) ==
    /\ flight[p] # None /\ flight[p].pc = "failing"
    /\ cred # None /\ Same(flight[p].rec)
    /\ flight' = [flight EXCEPT ![p].pc = "marking"]
    /\ UNCHANGED <<cred, issued, valid, caller, clock, Bounds>>

\* The failure is merged in, with the refresh token that was read; a record that is gone stays so.
Mark(p) ==
    /\ flight[p] # None /\ flight[p].pc = "marking"
    /\ IF cred = None THEN UNCHANGED <<cred, clock>>
       ELSE /\ clock' = clock + 1
            /\ cred' = [cred EXCEPT !.refresh = flight[p].rec.refresh, !.failed = TRUE, !.stamp = clock + 1]
    /\ Settle(p, None)
    /\ UNCHANGED <<issued, valid, Bounds>>

(* ---- time and the owner ------------------------------------------------- *)

\* The stored token comes within oauthRefreshMargin of its end.
Expire ==
    /\ expiries < MaxExpiries /\ expiries' = expiries + 1
    /\ cred # None /\ ~cred.due
    /\ cred' = [cred EXCEPT !.due = TRUE]
    /\ UNCHANGED <<issued, valid, flight, caller, clock, calls, outages, owner>>

\* The owner connects: setConnectorToken stores a new grant's tokens.
Connect ==
    /\ owner < MaxOwner /\ owner' = owner + 1
    /\ issued' = issued + 1 /\ valid' = valid \cup {issued + 1}
    /\ clock' = clock + 1
    /\ cred' = Stored(issued + 1, clock + 1)
    /\ UNCHANGED <<flight, caller, calls, expiries, outages>>

\* The owner disconnects: deleteConnectorToken.
Disconnect ==
    /\ owner < MaxOwner /\ owner' = owner + 1
    /\ cred # None
    /\ cred' = None
    /\ UNCHANGED <<issued, valid, flight, caller, clock, calls, expiries, outages>>

CallerStep(c) == Serve(c) \/ Join(c) \/ Launch(c)

FlightStep(p) ==
    \/ Refreshed(p) \/ Refused(p)
    \/ CompareLost(p) \/ CompareWon(p) \/ Put(p)
    \/ MarkLost(p) \/ MarkWon(p) \/ Mark(p)

Next ==
    \/ \E c \in Callers : Read(c) \/ CallerStep(c)
    \/ \E p \in Processes : FlightStep(p) \/ Outage(p)
    \/ Expire \/ Connect \/ Disconnect

Spec == Init /\ [][Next]_vars

\* The provider and the credential store answer.
FairSpec ==
    /\ Spec
    /\ \A c \in Callers : WF_vars(CallerStep(c))
    /\ \A p \in Processes : WF_vars(FlightStep(p))

(* ---- properties --------------------------------------------------------- *)

\* With no refresh under way, the stored refresh token is one the provider takes: refused
\* refreshes, and refreshes begun with a record read too early, do not put a used one back.
StoredIsUsable ==
    cred # None /\ (\A p \in Processes : flight[p] = None) => cred.refresh \in valid

\* A record is marked as failed only while its own token is near its end: needsReconnect does not
\* stick to a token that was refreshed meanwhile.
FailedIsDue == cred # None /\ cred.failed => cred.due

\* A newer refresh token is never replaced by an older one.
NewerStays == [][cred # None /\ cred' # None => cred'.refresh >= cred.refresh]_vars

\* A flight drops the tokens it was issued only for a record that another flight rotated.
LostMeansRotated ==
    [][\A p \in Processes :
        flight[p] # None /\ flight'[p] = None /\ flight[p].pc = "comparing" => cred.refresh # flight[p].rec.refresh]_vars

\* Every caller is answered, by its own flight or the one it joined.
CallersAnswered == \A c \in Callers : caller[c].pc \in {"holding", "waiting"} ~> caller[c].pc = "done"
=============================================================================
