--------------------------- MODULE ChannelListener --------------------------
(***************************************************************************)
(* The notification channels of a process (src/persistence/                 *)
(* postgres-notify-bus.ts and postgres-listener.ts).  Local clients subscribe  *)
(* to a bus; a bus with clients subscribes its channel to the process's        *)
(* listener, which keeps one connection and reconciles its LISTENs with what    *)
(* is wanted, one reconciliation after the other.  A notification is a hint     *)
(* to read again; a resync stands for the hints a lost connection swallowed.   *)
(***************************************************************************)
EXTENDS Naturals, FiniteSets

CONSTANTS
    Buses,
    Clients,
    Channels,
    ChannelOf,       \* ChannelOf[b]: the bus's channel
    BusOf,           \* BusOf[c]: the bus a client subscribes to
    MaxListeners,    \* bound: listeners opened one after the other
    MaxTurns,        \* bound: subscriptions and unsubscriptions of all clients
    MaxFaults,       \* bound: connections that break or cannot be opened
    None

Listeners == 1 .. MaxListeners

VARIABLES
    local,       \* local[b]: the bus's clients
    stop,        \* stop[b]: the listener the bus is subscribed with (stopListening), or None
    current,     \* the listener in the map of listeners, or None
    opened,      \* how many listeners were created
    lst,         \* lst[l]: the listener's own state
    heard,       \* heard[l]: the channels Postgres delivers to its connection
    inflight,    \* inflight[l]: the channels with a notification on the way
    stale,       \* stale[c]: something was published that the client has no hint of
    turns, faults

vars == <<local, stop, current, opened, lst, heard, inflight, stale, turns, faults>>

Idle == [pc |-> "idle", channel |-> None, client |-> FALSE, broken |-> FALSE, closed |-> FALSE, retry |-> FALSE,
         subscriptions |-> {}, ready |-> {}, channels |-> {}, wanted |-> {}, pending |-> 0]

\* Every variable has a value of its type.
TypeOK ==
    /\ local \in [Buses -> SUBSET Clients]
    /\ stop \in [Buses -> Listeners \cup {None}]
    /\ current \in Listeners \cup {None}
    /\ opened \in 0 .. MaxListeners
    /\ \A l \in Listeners :
        /\ lst[l].pc \in {"idle", "connecting", "sent", "done"}
        /\ lst[l].ready \subseteq lst[l].subscriptions /\ lst[l].subscriptions \subseteq Buses
        /\ lst[l].channels \cup lst[l].wanted \subseteq Channels
    /\ heard \in [Listeners -> SUBSET Channels]
    /\ inflight \in [Listeners -> SUBSET Channels]
    /\ stale \in [Clients -> BOOLEAN]

Init ==
    /\ local = [b \in Buses |-> {}]
    /\ stop = [b \in Buses |-> None]
    /\ current = None
    /\ opened = 0
    /\ lst = [l \in Listeners |-> Idle]
    /\ heard = [l \in Listeners |-> {}]
    /\ inflight = [l \in Listeners |-> {}]
    /\ stale = [c \in Clients |-> FALSE]
    /\ turns = 0 /\ faults = 0

Subscribed(c) == c \in local[BusOf[c]]

(* ---- buses -------------------------------------------------------------- *)

\* subscribePostgresChannel: the bus joins the listener, and a reconciliation is queued.
Joined(r, b) == [r EXCEPT !.subscriptions = @ \cup {b}, !.pending = @ + 1]

\* EventBus.subscribe: the client reads what there is; the bus's first client makes it listen.
Subscribe(c) ==
    LET b == BusOf[c]
    IN  /\ turns < MaxTurns /\ turns' = turns + 1
        /\ ~Subscribed(c)
        /\ local' = [local EXCEPT ![b] = @ \cup {c}]
        /\ stale' = [stale EXCEPT ![c] = FALSE]
        /\ \/ /\ stop[b] # None
              /\ UNCHANGED <<stop, current, opened, lst>>
           \/ /\ stop[b] = None /\ current # None
              /\ stop' = [stop EXCEPT ![b] = current]
              /\ lst' = [lst EXCEPT ![current] = Joined(@, b)]
              /\ UNCHANGED <<current, opened>>
           \/ /\ stop[b] = None /\ current = None /\ opened < MaxListeners
              /\ opened' = opened + 1
              /\ current' = opened'
              /\ stop' = [stop EXCEPT ![b] = opened']
              /\ lst' = [lst EXCEPT ![opened'] = Joined(@, b)]
        /\ UNCHANGED <<heard, inflight, faults>>

\* A subscription's stop: the last one closes the listener.
Parted(r, b) ==
    LET left == r.subscriptions \ {b}
    IN  [r EXCEPT !.subscriptions = left, !.ready = @ \ {b}, !.pending = @ + 1,
                  !.closed = left = {}, !.retry = @ /\ left # {}]

\* The client leaves; the bus's last client makes it stop listening.
Unsubscribe(c) ==
    LET b == BusOf[c]
        l == stop[b]
    IN  /\ turns < MaxTurns /\ turns' = turns + 1
        /\ Subscribed(c)
        /\ local' = [local EXCEPT ![b] = @ \ {c}]
        /\ stale' = [stale EXCEPT ![c] = FALSE]
        /\ IF local[b] = {c}
           THEN /\ lst' = [lst EXCEPT ![l] = Parted(@, b)]
                /\ stop' = [stop EXCEPT ![b] = None]
                /\ current' = IF Parted(lst[l], b).closed THEN None ELSE current
           ELSE UNCHANGED <<lst, stop, current>>
        /\ UNCHANGED <<opened, heard, inflight, faults>>

\* Somebody publishes on a channel: Postgres sends it to the connections that listen.
Publish(ch) ==
    /\ \E c \in Clients : Subscribed(c) /\ ChannelOf[BusOf[c]] = ch
    /\ stale' = [c \in Clients |-> stale[c] \/ (Subscribed(c) /\ ChannelOf[BusOf[c]] = ch)]
    /\ inflight' = [l \in Listeners |-> IF ch \in heard[l] THEN inflight[l] \cup {ch} ELSE inflight[l]]
    /\ UNCHANGED <<local, stop, current, opened, lst, heard, turns, faults>>

(* ---- the listener ------------------------------------------------------- *)

\* The clients of these buses have a hint or a resync.
Fresh(S) == stale' = [c \in Clients |-> stale[c] /\ ~(BusOf[c] \in S /\ Subscribed(c))]

\* drop: the connection is released and what it listened to forgotten.
Dropped(r) == [r EXCEPT !.client = FALSE, !.broken = FALSE, !.channels = {}, !.ready = {}]

\* scheduleRetry, unless the listener is closed.
Retried(r) == [r EXCEPT !.retry = ~r.closed]

\* The connection's end at Postgres goes with it.
Disconnect(l) ==
    /\ heard' = [heard EXCEPT ![l] = {}]
    /\ inflight' = [inflight EXCEPT ![l] = {}]

\* Mutant of NowReady: also those that subscribed while the queries ran.
NowReadyAll(r) == r.subscriptions \ r.ready

\* The subscriptions that become ready at the end of a reconciliation.
NowReady(r) == {b \in r.subscriptions \ r.ready : ChannelOf[b] \in r.channels}

\* reconcile goes on: the next UNLISTEN, then the next LISTEN, then the resyncs.
Continue(l, r) ==
    LET extra == r.channels \ r.wanted
        missing == r.wanted \ r.channels
    IN  \/ /\ extra # {}
           /\ \E ch \in extra : lst' = [lst EXCEPT ![l] = [r EXCEPT !.pc = "sent", !.channel = ch]]
           /\ UNCHANGED stale
        \/ /\ extra = {} /\ missing # {}
           /\ \E ch \in missing : lst' = [lst EXCEPT ![l] = [r EXCEPT !.pc = "sent", !.channel = ch]]
           /\ UNCHANGED stale
        \/ /\ extra = {} /\ missing = {}
           /\ lst' = [lst EXCEPT ![l] = [r EXCEPT !.pc = "idle", !.channel = None, !.ready = @ \cup NowReady(r)]]
           /\ Fresh(NowReady(r))

\* What the subscriptions want when the reconciliation has its client.
Planned(r) == [r EXCEPT !.client = TRUE, !.wanted = {ChannelOf[b] : b \in r.subscriptions}]

\* The next reconciliation starts: a closed listener lets go of its connection.
BeginClosed(l) ==
    /\ lst[l].pc = "idle" /\ lst[l].pending > 0 /\ lst[l].closed
    /\ lst' = [lst EXCEPT ![l] = [Dropped(@) EXCEPT !.pending = @ - 1]]
    /\ Disconnect(l)
    /\ UNCHANGED <<local, stop, current, opened, stale, turns, faults>>

\* The next reconciliation starts without a connection: it asks the pool for one.
BeginConnect(l) ==
    /\ lst[l].pc = "idle" /\ lst[l].pending > 0 /\ ~lst[l].closed /\ ~lst[l].client
    /\ lst' = [lst EXCEPT ![l] = [@ EXCEPT !.pending = @ - 1, !.pc = "connecting"]]
    /\ UNCHANGED <<local, stop, current, opened, heard, inflight, stale, turns, faults>>

\* The next reconciliation starts with the connection it has.
BeginPlan(l) ==
    /\ lst[l].pc = "idle" /\ lst[l].pending > 0 /\ ~lst[l].closed /\ lst[l].client
    /\ Continue(l, Planned([lst[l] EXCEPT !.pending = @ - 1]))
    /\ UNCHANGED <<local, stop, current, opened, heard, inflight, turns, faults>>

\* The connection is there; a listener closed meanwhile releases it at once.
Connected(l) ==
    /\ lst[l].pc = "connecting"
    /\ \/ /\ lst[l].closed
          /\ lst' = [lst EXCEPT ![l].pc = "idle"]
          /\ UNCHANGED stale
       \/ /\ ~lst[l].closed
          /\ Continue(l, Planned(lst[l]))
    /\ UNCHANGED <<local, stop, current, opened, heard, inflight, turns, faults>>

\* The pool cannot connect: sync's catch drops and retries.
ConnectFails(l) ==
    /\ faults < MaxFaults /\ faults' = faults + 1
    /\ lst[l].pc = "connecting"
    /\ lst' = [lst EXCEPT ![l] = [Retried(Dropped(@)) EXCEPT !.pc = "idle"]]
    /\ UNCHANGED <<local, stop, current, opened, heard, inflight, stale, turns>>

\* Postgres executes the LISTEN or the UNLISTEN.
Execute(l) ==
    /\ lst[l].pc = "sent" /\ lst[l].client /\ ~lst[l].broken
    /\ heard' = [heard EXCEPT ![l] = IF lst[l].channel \in lst[l].wanted THEN @ \cup {lst[l].channel}
                                     ELSE @ \ {lst[l].channel}]
    /\ lst' = [lst EXCEPT ![l].pc = "done"]
    /\ UNCHANGED <<local, stop, current, opened, inflight, stale, turns, faults>>

\* Its answer: a listener closed or disconnected meanwhile leaves it at that.
Answered(l) ==
    LET r == lst[l]
        ch == r.channel
    IN  /\ r.pc = "done"
        /\ \/ /\ r.closed \/ ~r.client
              /\ lst' = [lst EXCEPT ![l].pc = "idle"]
              /\ UNCHANGED stale
           \/ /\ ~r.closed /\ r.client
              /\ Continue(l, [r EXCEPT !.channels = IF ch \in r.wanted THEN @ \cup {ch} ELSE @ \ {ch}])
        /\ UNCHANGED <<local, stop, current, opened, heard, inflight, turns, faults>>

\* The query fails with its connection: sync's catch drops and retries.
QueryFails(l) ==
    /\ lst[l].pc \in {"sent", "done"} /\ (lst[l].broken \/ ~lst[l].client)
    /\ lst' = [lst EXCEPT ![l] = [Retried(Dropped(@)) EXCEPT !.pc = "idle"]]
    /\ Disconnect(l)
    /\ UNCHANGED <<local, stop, current, opened, stale, turns, faults>>

\* The connection breaks: what was on the way is lost.
Break(l) ==
    /\ faults < MaxFaults /\ faults' = faults + 1
    /\ lst[l].client /\ ~lst[l].broken
    /\ lst' = [lst EXCEPT ![l].broken = TRUE]
    /\ Disconnect(l)
    /\ UNCHANGED <<local, stop, current, opened, stale, turns>>

\* The client's error or end event.
Disconnected(l) ==
    /\ lst[l].client /\ lst[l].broken
    /\ lst' = [lst EXCEPT ![l] = Retried(Dropped(@))]
    /\ Disconnect(l)
    /\ UNCHANGED <<local, stop, current, opened, stale, turns, faults>>

\* The retry timer queues a reconciliation.
Retry(l) ==
    /\ lst[l].retry
    /\ lst' = [lst EXCEPT ![l] = [@ EXCEPT !.retry = FALSE, !.pending = @ + 1]]
    /\ UNCHANGED <<local, stop, current, opened, heard, inflight, stale, turns, faults>>

\* A notification arrives: every subscription of the channel gets it.
Deliver(l, ch) ==
    /\ ch \in inflight[l] /\ lst[l].client
    /\ inflight' = [inflight EXCEPT ![l] = @ \ {ch}]
    /\ Fresh({b \in lst[l].subscriptions : ChannelOf[b] = ch})
    /\ UNCHANGED <<local, stop, current, opened, lst, heard, turns, faults>>

Reconcile(l) ==
    \/ BeginClosed(l) \/ BeginConnect(l) \/ BeginPlan(l) \/ Connected(l)
    \/ Execute(l) \/ Answered(l) \/ QueryFails(l)

Next ==
    \/ \E c \in Clients : Subscribe(c) \/ Unsubscribe(c)
    \/ \E ch \in Channels : Publish(ch)
    \/ \E l \in Listeners :
        \/ Reconcile(l) \/ ConnectFails(l) \/ Break(l) \/ Disconnected(l) \/ Retry(l)
        \/ \E ch \in Channels : Deliver(l, ch)

Spec == Init /\ [][Next]_vars

(* ---- properties --------------------------------------------------------- *)

\* A subscription that was resynchronised is listened to, as long as its connection holds: no
\* client believes itself up to date on a channel that Postgres does not deliver.
ReadyIsHeard ==
    \A l \in Listeners : \A b \in lst[l].ready : lst[l].broken \/ ChannelOf[b] \in heard[l]

\* Between two reconciliations a listener that nobody wants any more keeps no connection.
ClosedIsFreed ==
    \A l \in Listeners :
        lst[l].closed /\ lst[l].pc = "idle" /\ lst[l].pending = 0 => ~lst[l].client /\ heard[l] = {}
=============================================================================
