---------------------------- MODULE KeychainAsks ----------------------------
(***************************************************************************)
(* Asks for a credential (src/credentials/keychain.ts) and the turns that tell  *)
(* the requester how they ended (src/triggers/keychain-ask.ts).  The asks are     *)
(* those of one task for one credential.  The owner approves or declines under     *)
(* the ask's lock, an in-room grant adopts what is pending, every reader expires   *)
(* asks whose time is over, and a sweep fires what was not told yet and prunes     *)
(* what was told long ago.                                                   *)
(***************************************************************************)
EXTENDS Naturals, FiniteSets

CONSTANTS
    MaxAsks,       \* bound: asks of the task
    Creators,      \* calls of createAsk
    Triggered,     \* the creators that are triggered turns
    Deciders,      \* calls of approveAsk, declineAsk and resolveAsksForGrant
    MaxFaults,     \* bound: handlers that die and resolution turns that fail
    None

Asks == 1 .. MaxAsks

VARIABLES
    ask,           \* ask[a]: the record, in the order of createdAt
    gone,          \* gone[a]: the record was pruned; its fields stay as history
    granted,       \* granted[a]: the grant whose id is derived from the ask exists
    late,          \* late[a]: now is past expiresAt
    lock,          \* lock[a]: the decider that has the ask's lock, or None
    creator,       \* creator[c]: "idle", "checked", "refused", "joined" or "done"
    decider,       \* decider[d]
    sweep,         \* the sweep at one ask
    delivered,     \* the resolutions the requester was told, <<ask, status>>
    away,          \* the task can be told nothing any more
    faults

vars == <<ask, gone, granted, late, lock, creator, decider, sweep, delivered, away, faults>>

Statuses == {"none", "pending", "approved", "declined", "expired"}

NoAsk == [status |-> "none", notified |-> FALSE, by |-> None]

Resting == [pc |-> "idle", kind |-> None, ask |-> 0, late |-> FALSE, found |-> FALSE]

Asleep == [pc |-> "idle", ask |-> 0, late |-> FALSE, found |-> FALSE, status |-> "none"]

\* Every variable has a value of its type; a decider in its handler has the lock.
TypeOK ==
    /\ \A a \in Asks :
        /\ ask[a].status \in Statuses /\ ask[a].notified \in BOOLEAN
        /\ ask[a].by \in {None, "ask", "room"}
        /\ lock[a] \in Deciders \cup {None}
        /\ a + 1 \in Asks /\ ask[a + 1].status # "none" => ask[a].status # "none"
    /\ gone \in [Asks -> BOOLEAN] /\ granted \in [Asks -> BOOLEAN] /\ late \in [Asks -> BOOLEAN]
    /\ creator \in [Creators -> {"idle", "checked", "refused", "joined", "done"}]
    /\ \A d \in Deciders :
        /\ decider[d].pc \in {"idle", "read", "mint", "merge", "fire", "note", "over"}
        /\ decider[d].pc \in {"read", "mint", "merge"} => lock[decider[d].ask] = d
    /\ sweep.pc \in {"idle", "looked", "fire", "note"}
    /\ delivered \subseteq Asks \X Statuses
    /\ away \in BOOLEAN /\ faults \in 0 .. MaxFaults

Init ==
    /\ ask = [a \in Asks |-> NoAsk]
    /\ gone = [a \in Asks |-> FALSE]
    /\ granted = [a \in Asks |-> FALSE]
    /\ late = [a \in Asks |-> FALSE]
    /\ lock = [a \in Asks |-> None]
    /\ creator = [c \in Creators |-> "idle"]
    /\ decider = [d \in Deciders |-> Resting]
    /\ sweep = Asleep
    /\ delivered = {}
    /\ away = FALSE /\ faults = 0

Exists(a) == ask[a].status # "none" /\ ~gone[a]

Made == {a \in Asks : ask[a].status # "none"}

\* expiresAt passes.
Time(a) ==
    /\ ask[a].status = "pending" /\ ~late[a]
    /\ late' = [late EXCEPT ![a] = TRUE]
    /\ UNCHANGED <<ask, gone, granted, lock, creator, decider, sweep, delivered, away, faults>>

(* ---- freshAsk ----------------------------------------------------------- *)

\* freshAsk on the record as the update finds it: the grant of an approval that died is adopted,
\* and a pending ask whose time is over expires.
Fresh(r, found, isLate) ==
    IF found /\ r.status \in {"pending", "expired"}
    THEN [status |-> "approved", notified |-> FALSE, by |-> "ask"]
    ELSE IF ~found /\ r.status = "pending" /\ isLate THEN [r EXCEPT !.status = "expired"] ELSE r

\* Any reader of the ask: getAsk, listAsks, createAsk.
Freshen(a) ==
    /\ Exists(a) /\ Fresh(ask[a], granted[a], late[a]) # ask[a]
    /\ ask' = [ask EXCEPT ![a] = Fresh(@, granted[a], late[a])]
    /\ UNCHANGED <<gone, granted, late, lock, creator, decider, sweep, delivered, away, faults>>

(* ---- createAsk ---------------------------------------------------------- *)

\* From the newest ask to the oldest: a pending one is the answer; an approved one ends the search;
\* a decision against the task refuses a triggered turn.
Verdict(c) ==
    LET have == {a \in Asks : Exists(a)}
        stops == {a \in have : \/ ask[a].status \in {"pending", "approved"}
                               \/ c \in Triggered}
    IN  IF stops = {} THEN "checked"
        ELSE LET a == CHOOSE m \in stops : \A n \in stops : n <= m
             IN  CASE ask[a].status = "pending" -> "joined"
                   [] ask[a].status = "approved" -> "checked"
                   [] OTHER -> "refused"

\* createAsk reads the asks of the task, each of them fresh.
CreateCheck(c) ==
    /\ creator[c] = "idle"
    /\ \A a \in Asks : Exists(a) => Fresh(ask[a], granted[a], late[a]) = ask[a]
    /\ creator' = [creator EXCEPT ![c] = Verdict(c)]
    /\ UNCHANGED <<ask, gone, granted, late, lock, decider, sweep, delivered, away, faults>>

\* The new ask is stored.
CreatePut(c) ==
    LET a == Cardinality(Made) + 1
    IN  /\ creator[c] = "checked" /\ a \in Asks
        /\ ask' = [ask EXCEPT ![a] = [NoAsk EXCEPT !.status = "pending"]]
        /\ creator' = [creator EXCEPT ![c] = "done"]
        /\ UNCHANGED <<gone, granted, late, lock, decider, sweep, delivered, away, faults>>

(* ---- approveAsk, declineAsk, resolveAsksForGrant ------------------------ *)

\* Under the lock: the record, the time, and whether the ask's grant exists.
Decide(d, a, kind) ==
    /\ decider[d].pc = "idle" /\ Exists(a) /\ lock[a] = None
    /\ lock' = [lock EXCEPT ![a] = d]
    /\ decider' = [decider EXCEPT ![d] = [pc |-> "read", kind |-> kind, ask |-> a, late |-> late[a],
                                          found |-> granted[a]]]
    /\ UNCHANGED <<ask, gone, granted, late, creator, sweep, delivered, away, faults>>

Unlock(d) == lock' = [lock EXCEPT ![decider[d].ask] = IF @ = d THEN None ELSE @]

\* freshAsk, and the refusal of an ask that is no longer pending.
Decided(d) ==
    LET a == decider[d].ask
        fresh == Fresh(ask[a], decider[d].found, decider[d].late)
    IN  /\ decider[d].pc = "read"
        /\ ask' = [ask EXCEPT ![a] = fresh]
        /\ IF fresh.status = "pending"
              THEN /\ decider' = [decider EXCEPT ![d].pc = IF decider[d].kind = "approve" THEN "mint" ELSE "merge"]
                   /\ UNCHANGED lock
              ELSE decider' = [decider EXCEPT ![d].pc = "over"] /\ Unlock(d)
        /\ UNCHANGED <<gone, granted, late, creator, sweep, delivered, away, faults>>

\* mintGrant: putIfAbsent under the id derived from the ask.
Mint(d) ==
    /\ decider[d].pc = "mint"
    /\ granted' = [granted EXCEPT ![decider[d].ask] = TRUE]
    /\ decider' = [decider EXCEPT ![d].pc = "merge"]
    /\ UNCHANGED <<ask, gone, late, lock, creator, sweep, delivered, away, faults>>

\* mintGrant refuses: the credential is gone or expired.
MintRefused(d) ==
    /\ decider[d].pc = "mint"
    /\ decider' = [decider EXCEPT ![d].pc = "over"]
    /\ Unlock(d)
    /\ UNCHANGED <<ask, gone, granted, late, creator, sweep, delivered, away, faults>>

\* The approval is merged into the record, to be told.
MergeApproved(d) ==
    /\ decider[d].pc = "merge" /\ decider[d].kind = "approve"
    /\ ask' = [ask EXCEPT ![decider[d].ask] = [status |-> "approved", notified |-> FALSE, by |-> "ask"]]
    /\ decider' = [decider EXCEPT ![d].pc = "fire"]
    /\ Unlock(d)
    /\ UNCHANGED <<gone, granted, late, creator, sweep, delivered, away, faults>>

\* The refusal is merged; whether the ask was told stays as it is.
MergeDeclined(d) ==
    /\ decider[d].pc = "merge" /\ decider[d].kind = "decline"
    /\ ask' = [ask EXCEPT ![decider[d].ask].status = "declined"]
    /\ decider' = [decider EXCEPT ![d].pc = "fire"]
    /\ Unlock(d)
    /\ UNCHANGED <<gone, granted, late, creator, sweep, delivered, away, faults>>

\* An in-room grant adopts the ask: the conversation knows already.
MergeAdopted(d) ==
    /\ decider[d].pc = "merge" /\ decider[d].kind = "adopt"
    /\ ask' = [ask EXCEPT ![decider[d].ask] = [status |-> "approved", notified |-> TRUE, by |-> "room"]]
    /\ decider' = [decider EXCEPT ![d].pc = "over"]
    /\ Unlock(d)
    /\ UNCHANGED <<gone, granted, late, creator, sweep, delivered, away, faults>>

\* The cron that asked is archived, disabled, another's or refused, or the place the ask came from
\* is no longer visible to the requester.
GoesAway ==
    /\ ~away /\ away' = TRUE
    /\ UNCHANGED <<ask, gone, granted, late, lock, creator, decider, sweep, delivered, faults>>

\* fireAskResolution: the turn of the resolution, or the fallback message, tells the requester.  For
\* a task that is away it returns, having told nobody; the caller cannot tell the difference.
FireResolution(a, status) == delivered' = IF away THEN delivered ELSE delivered \cup {<<a, status>>}

\* What the decider's own request tells.
Outcome(d) == IF decider[d].kind = "approve" THEN "approved" ELSE "declined"

\* The route fires the resolution turn.
Fire(d) ==
    /\ decider[d].pc = "fire"
    /\ FireResolution(decider[d].ask, Outcome(d))
    /\ decider' = [decider EXCEPT ![d].pc = "note"]
    /\ UNCHANGED <<ask, gone, granted, late, lock, creator, sweep, away, faults>>

\* markAskNotified, as the record is then: only the status that was told counts.
Notified(a, status) == ask' = [ask EXCEPT ![a].notified = @ \/ ask[a].status = status]

\* The route notes it.
Note(d) ==
    /\ decider[d].pc = "note"
    /\ Notified(decider[d].ask, Outcome(d))
    /\ decider' = [decider EXCEPT ![d].pc = "over"]
    /\ UNCHANGED <<gone, granted, late, lock, creator, sweep, delivered, away, faults>>

\* The conversation is busy, or the process dies: the sweep is to retry.
DeciderDies(d) ==
    /\ faults < MaxFaults /\ faults' = faults + 1
    /\ decider[d].pc \in {"read", "mint", "merge", "fire", "note"}
    /\ decider' = [decider EXCEPT ![d].pc = "over"]
    /\ Unlock(d)
    /\ UNCHANGED <<ask, gone, granted, late, creator, sweep, delivered, away>>

(* ---- the sweep ---------------------------------------------------------- *)

\* unnotifiedResolvedAsks takes up an ask: the record, the time, and the grant.  It goes over all
\* asks; only those it changes or tells are taken up here.
SweepLooks(a) ==
    /\ sweep.pc = "idle" /\ Exists(a)
    /\ \/ Fresh(ask[a], granted[a], late[a]) # ask[a]
       \/ ask[a].status # "pending" /\ ~ask[a].notified
    /\ sweep' = [Asleep EXCEPT !.pc = "looked", !.ask = a, !.late = late[a], !.found = granted[a]]
    /\ UNCHANGED <<ask, gone, granted, late, lock, creator, decider, delivered, away, faults>>

\* freshAsk writes; what is resolved and not told goes on to be fired.
SweepFreshens ==
    LET a == sweep.ask
        fresh == Fresh(ask[a], sweep.found, sweep.late)
    IN  /\ sweep.pc = "looked"
        /\ ask' = [ask EXCEPT ![a] = fresh]
        /\ sweep' = IF fresh.status # "pending" /\ ~fresh.notified
                    THEN [sweep EXCEPT !.pc = "fire", !.status = fresh.status] ELSE Asleep
        /\ UNCHANGED <<gone, granted, late, lock, creator, decider, delivered, away, faults>>

\* The resolution turn of the status that was read.
SweepFires ==
    /\ sweep.pc = "fire"
    /\ FireResolution(sweep.ask, sweep.status)
    /\ sweep' = [sweep EXCEPT !.pc = "note"]
    /\ UNCHANGED <<ask, gone, granted, late, lock, creator, decider, away, faults>>

\* markAskNotified with the status that was fired.
SweepNotes ==
    /\ sweep.pc = "note"
    /\ Notified(sweep.ask, sweep.status)
    /\ sweep' = Asleep
    /\ UNCHANGED <<gone, granted, late, lock, creator, decider, delivered, away, faults>>

\* The turn fails or waits, or the process dies: the next tick tries again.
SweepFails ==
    /\ faults < MaxFaults /\ faults' = faults + 1
    /\ sweep.pc \in {"fire", "note"}
    /\ sweep' = Asleep
    /\ UNCHANGED <<ask, gone, granted, late, lock, creator, decider, delivered, away>>

\* An ask that was told long ago is deleted, unless it is the latest of its task.  No handler of
\* it lasts as long as ASK_PRUNE_AFTER_MS.
Prune(a) ==
    /\ Exists(a) /\ ask[a].status # "pending" /\ ask[a].notified
    /\ \E n \in Asks : n > a /\ Exists(n)
    /\ lock[a] = None /\ sweep.ask # a
    /\ gone' = [gone EXCEPT ![a] = TRUE]
    /\ UNCHANGED <<ask, granted, late, lock, creator, decider, sweep, delivered, away, faults>>

DeciderStep(d) ==
    \/ Decided(d) \/ Mint(d) \/ MintRefused(d)
    \/ MergeApproved(d) \/ MergeDeclined(d) \/ MergeAdopted(d) \/ Fire(d) \/ Note(d)

SweepStep == (\E a \in Asks : SweepLooks(a)) \/ SweepFreshens \/ SweepFires \/ SweepNotes

Next ==
    \/ \E a \in Asks : Time(a) \/ Freshen(a) \/ Prune(a)
    \/ \E c \in Creators : CreateCheck(c) \/ CreatePut(c)
    \/ \E d \in Deciders : \/ \E a \in Asks, kind \in {"approve", "decline", "adopt"} : Decide(d, a, kind)
                           \/ DeciderStep(d) \/ DeciderDies(d)
    \/ SweepStep \/ SweepFails \/ GoesAway

Spec == Init /\ [][Next]_vars

\* Handlers go on, and the scheduler sweeps every ask again and again.
FairSpec ==
    /\ Spec
    /\ \A d \in Deciders : WF_vars(DeciderStep(d))
    /\ WF_vars(SweepFreshens) /\ WF_vars(SweepFires) /\ WF_vars(SweepNotes)
    /\ \A a \in Asks : SF_vars(SweepLooks(a))

(* ---- properties --------------------------------------------------------- *)

\* The owner's answers agree: an ask with a grant of its own is never declined, and an approved
\* ask has its grant, however approvals, refusals, expiry and a death in between interleave.
OneAnswer ==
    \A a \in Asks :
        /\ granted[a] => ask[a].status # "declined"
        /\ ask[a].status = "approved" /\ ask[a].by = "ask" => granted[a]

\* A triggered turn never asks again after the task's latest ask was declined or expired, pruned
\* asks included.
NoNagging ==
    [][\A c \in Triggered :
        creator[c] = "idle" /\ creator'[c] = "checked" =>
            Made = {} \/ ask[Cardinality(Made)].status = "approved"]_vars

\* An approval that was noted as told was told, unless the task had gone away meanwhile: whatever
\* status a reader, the route and the sweep saw when they fired.
NotedIsTold ==
    \A a \in Asks :
        ask[a].notified /\ ask[a].status = "approved" /\ ask[a].by = "ask" =>
            away \/ <<a, "approved">> \in delivered

\* The task has at most one pending ask.
OnePending == Cardinality({a \in Asks : ask[a].status = "pending"}) <= 1

\* The requester of an ask that was declined is told so in the end, unless the task goes away.
RefusalTold == \A a \in Asks : ask[a].status = "declined" ~> away \/ <<a, "declined">> \in delivered
=============================================================================
