------------------------------- MODULE Swarms ------------------------------
(***************************************************************************)
(* An agent swarm: a root session that reserves pools of workers and posts *)
(* messages, and the outbox sweep of every process, which turns reserved   *)
(* workers into ready or failed ones under one lock (reconcile, phase      *)
(* "resources") and pending notifications into runs under another (phase   *)
(* "delivery").  The swarm is one record that is updated atomically.       *)
(*                                                                         *)
(* Member 0 is the root.  A message is the position it has in the record.  *)
(*                                                                         *)
(*   members    of each: state, attempts, cleanup (cleanupPending), depth  *)
(*   messages   of each: the notification of every member                  *)
(*   requests   of each requestId: the members or the message it made      *)
(*   count      notificationCount                                          *)
(*   expired    the work window is over                                    *)
(*   box        the worker's computer; session: its session exists         *)
(*   runs       how many runs were made for a message and a recipient      *)
(*   call       a caller: what it read, before it writes                   *)
(*   rec        a reconciler: its place, its member, the members its       *)
(*              snapshot holds reserved, whether its deadline has passed   *)
(*              (over), whether provisioning timed out (slow), and the     *)
(*              operations that go on after their timeout (late)           *)
(*   del        a delivery: its place and the notifications it has left    *)
(***************************************************************************)
EXTENDS Integers, Sequences, FiniteSets, FiniteSetsExt

CONSTANTS
    None,
    Callers, Reconcilers, Deliverers,
    Spawns, Sends,     \* request ids of each kind
    Agents,            \* settings.agents, the root included
    Depth,             \* settings.depth
    Notifications,     \* settings.notifications
    Messages,          \* settings.messages
    SpawnRequests,     \* settings.spawnRequests
    MaxAttempts,       \* attempts of a provisioning
    MaxCalls,          \* bound: calls
    Faults,            \* kinds of faults
    MaxFaults          \* bound: faults

VARIABLES members, messages, requests, count, expired, box, session, runs, call, rec, del, calls, faults

vars == <<members, messages, requests, count, expired, box, session, runs, call, rec, del, calls, faults>>
record == <<members, messages, requests, count>>
world == <<box, session, runs>>

Requests == Spawns \cup Sends
Members == 0..(Agents - 1)
Workers == Members \ {0}
Slots == 1..Messages

NoMember == [state |-> "none", attempts |-> 0, cleanup |-> FALSE, depth |-> 0]
NoCall == [req |-> None, from |-> 0, pool |-> 0, to |-> {}]
NoRec == [pc |-> "idle", m |-> 0, todo |-> {}, over |-> FALSE, slow |-> FALSE, late |-> {}]
NoDel == [pc |-> "idle", todo |-> {}, at |-> <<0, 0>>]

Fault(kind) == kind \in Faults /\ faults < MaxFaults /\ faults' = faults + 1

Init ==
    /\ members = [m \in Members |-> NoMember]
    /\ messages = <<>>
    /\ requests = [q \in Requests |-> {}]
    /\ count = 0
    /\ expired = FALSE
    /\ box = [m \in Workers |-> "none"]
    /\ session = [m \in Workers |-> FALSE]
    /\ runs = [s \in Slots, m \in Members |-> 0]
    /\ call = [c \in Callers |-> NoCall]
    /\ rec = [r \in Reconcilers |-> NoRec]
    /\ del = [d \in Deliverers |-> NoDel]
    /\ calls = 0 /\ faults = 0

Exists == members[0].state = "ready"
Known == {m \in Members : members[m].state # "none"}

(***************************************************************************)
(* Callers.                                                                *)
(***************************************************************************)

\* A call reads the swarm; a request on record is answered from it.
SpawnRead(c) ==
    /\ call[c] = NoCall /\ calls < MaxCalls
    /\ calls' = calls + 1
    /\ \E q \in Spawns, from \in {m \in Known : members[m].state = "ready"} \cup {0}, k \in 1..(Agents - 1) :
          call' = IF requests[q] # {} THEN call
                  ELSE [call EXCEPT ![c] = [req |-> q, from |-> from, pool |-> k, to |-> {}]]
    /\ UNCHANGED <<record, expired, world, rec, del, faults>>

\* reserve: the request, the window and the budgets are looked at again.
Reservable(q, from, k) ==
    /\ requests[q] = {}
    /\ ~expired
    /\ members[from].depth < Depth
    /\ Cardinality(Known \cup {0}) + k <= Agents
    /\ Cardinality({p \in Spawns : requests[p] # {}}) < SpawnRequests
    /\ Len(messages) < Messages /\ count + k <= Notifications

\* create, or update: the pool and its first message are reserved at once.
SpawnWrite(c) ==
    /\ call[c].req \in Spawns
    /\ call' = [call EXCEPT ![c] = NoCall]
    /\ LET q == call[c].req
           from == call[c].from
           first == Max(Known \cup {0}) + 1
           pool == first..(first + call[c].pool - 1)
       IN IF Reservable(q, from, call[c].pool)
          THEN /\ members' = [m \in Members |->
                     CASE m = 0 -> [members[0] EXCEPT !.state = "ready"]
                       [] m \in pool -> [NoMember EXCEPT !.state = "reserved", !.depth = members[from].depth + 1]
                       [] OTHER -> members[m]]
               /\ messages' = Append(messages, [m \in Members |-> IF m \in pool THEN "pending" ELSE "none"])
               /\ requests' = [requests EXCEPT ![q] = @ \cup pool]
               /\ count' = count + call[c].pool
          ELSE UNCHANGED record
    /\ UNCHANGED <<expired, world, rec, del, calls, faults>>

\* The audience is chosen among the members that are ready.
SendRead(c) ==
    /\ call[c] = NoCall /\ calls < MaxCalls /\ Exists
    /\ calls' = calls + 1
    /\ \E q \in Sends, from \in {m \in Known : members[m].state = "ready"},
          to \in SUBSET {m \in Known : members[m].state = "ready"} :
          call' = IF requests[q] # {} THEN call
                  ELSE [call EXCEPT ![c] = [req |-> q, from |-> from, pool |-> 0, to |-> to \ {from}]]
    /\ UNCHANGED <<record, expired, world, rec, del, faults>>

SendWrite(c) ==
    /\ call[c].req \in Sends
    /\ call' = [call EXCEPT ![c] = NoCall]
    /\ LET q == call[c].req
           to == call[c].to
       IN IF /\ requests[q] = {} /\ ~expired
             /\ Len(messages) < Messages /\ count + Cardinality(to) <= Notifications
          THEN /\ messages' = Append(messages, [m \in Members |-> IF m \in to THEN "pending" ELSE "none"])
               /\ requests' = [requests EXCEPT ![q] = {Len(messages) + 1}]
               /\ count' = count + Cardinality(to)
               /\ UNCHANGED members
          ELSE UNCHANGED record
    /\ UNCHANGED <<expired, world, rec, del, calls, faults>>

\* The answer does not arrive, or the caller is refused.
CallLost(c) ==
    /\ call[c] # NoCall
    /\ call' = [call EXCEPT ![c] = NoCall]
    /\ UNCHANGED <<record, expired, world, rec, del, calls, faults>>

(***************************************************************************)
(* Resources: reserved members become ready or failed, under swarm-        *)
(* reconcile.                                                              *)
(***************************************************************************)

Reserved == {m \in Workers : members[m].state = "reserved"}
Unclean == {m \in Workers : members[m].cleanup}

Step(r, pc) == rec' = [rec EXCEPT ![r].pc = pc]

\* What reconcileBatch looks for in a swarm.
HasWork == Reserved \cup Unclean # {}

\* A sweep takes the lock if it is free, and reads the swarm.
Begin(r) ==
    /\ \A q \in Reconcilers : rec[q].pc = "idle"
    /\ HasWork
    /\ rec' = [rec EXCEPT ![r] = [NoRec EXCEPT !.pc = "next", !.todo = Reserved]]
    /\ UNCHANGED <<record, expired, world, call, del, calls, faults>>

\* The next member of the snapshot; its attempts are counted first.  When
\* the deadline has passed the step is rejected.
Next1(r) ==
    /\ rec[r].pc = "next"
    /\ IF rec[r].todo = {} THEN Step(r, "sweep") /\ UNCHANGED members
       ELSE LET m == Min(rec[r].todo)
                ok == ~expired /\ ~rec[r].over
            IN /\ rec' = [rec EXCEPT ![r].pc = IF ok THEN "create" ELSE "catch",
                                     ![r].m = m, ![r].todo = @ \ {m}, ![r].slow = FALSE]
               /\ members' = IF ok THEN [members EXCEPT ![m].attempts = @ + 1] ELSE members
    /\ UNCHANGED <<messages, requests, count, expired, world, call, del, calls, faults>>

\* sandboxes.create: provisioned, failed, or still under way when its time
\* is up.
Create(r) ==
    /\ rec[r].pc = "create"
    /\ LET m == rec[r].m
       IN \/ /\ box[m] # "retired" /\ ~rec[r].over
             /\ box' = [box EXCEPT ![m] = "ready"] /\ Step(r, "session") /\ UNCHANGED faults
          \/ /\ box[m] = "retired" \/ rec[r].over
             /\ Step(r, "catch") /\ UNCHANGED <<box, faults>>
          \/ /\ box[m] \notin {"ready", "retired"} /\ Fault("provision")
             /\ box' = [box EXCEPT ![m] = "failed"] /\ Step(r, "catch")
          \/ /\ box[m] \notin {"ready", "retired"} /\ Fault("late")
             /\ box' \in {box, [box EXCEPT ![m] = "provisioning"]}
             /\ rec' = [rec EXCEPT ![r].pc = "catch", ![r].slow = TRUE, ![r].late = {"box"}]
    /\ UNCHANGED <<record, expired, session, runs, call, del, calls>>

\* The session, its participants and its title.
Session(r) ==
    /\ rec[r].pc = "session"
    /\ LET m == rec[r].m
       IN \/ /\ ~rec[r].over /\ session' = [session EXCEPT ![m] = TRUE] /\ Step(r, "ready") /\ UNCHANGED faults
          \/ /\ rec[r].over /\ Step(r, "catch") /\ UNCHANGED <<session, faults>>
          \/ /\ Fault("provision")
             /\ session' \in {session, [session EXCEPT ![m] = TRUE]}
             /\ Step(r, "catch")
          \/ /\ Fault("late") /\ UNCHANGED session
             /\ rec' = [rec EXCEPT ![r].pc = "catch", ![r].over = TRUE, ![r].late = {"session"}]
    /\ UNCHANGED <<record, expired, box, runs, call, del, calls>>

\* The update looks at the deadline and the window itself; its answer may
\* come too late.
Ready(r) ==
    /\ rec[r].pc = "ready"
    /\ LET m == rec[r].m
       IN \/ /\ expired \/ rec[r].over
             /\ Step(r, "catch") /\ UNCHANGED <<members, faults>>
          \/ /\ ~expired /\ ~rec[r].over /\ UNCHANGED faults
             /\ members' = [members EXCEPT ![m].state = "ready"] /\ Step(r, "next")
          \/ /\ ~expired /\ ~rec[r].over /\ Fault("late")
             /\ members' = [members EXCEPT ![m].state = "ready"]
             /\ rec' = [rec EXCEPT ![r].pc = "catch", ![r].over = TRUE]
    /\ UNCHANGED <<messages, requests, count, expired, world, call, del, calls>>

\* A member fails for good after a timeout, at the attempt cap or when the
\* window is over, if it is still reserved.
MayFail(r) ==
    /\ members[rec[r].m].state = "reserved"
    /\ rec[r].over \/ rec[r].slow \/ members[rec[r].m].attempts >= MaxAttempts \/ expired

\* Mutant of CatchTo: the sweep goes on while an operation is under way.
CatchToNext(r) == IF rec[r].over THEN "end" ELSE "next"

\* After the catch, the sweep ends while an operation is under way.
CatchTo(r) == IF rec[r].over \/ rec[r].late # {} THEN "end" ELSE "next"

Catch(r) ==
    /\ rec[r].pc = "catch"
    /\ members' = IF MayFail(r) THEN [members EXCEPT ![rec[r].m].state = "failed", ![rec[r].m].cleanup = TRUE]
                  ELSE members
    /\ Step(r, CatchTo(r))
    /\ UNCHANGED <<messages, requests, count, expired, world, call, del, calls, faults>>

\* deleteSessionIfEmpty: a session a run was made for is kept.
Emptied(m) == session[m] => \A i \in 1..Len(messages) : runs[<<i, m>>] = 0

\* Members that failed: the empty session goes, then the computer, then the
\* mark.  One whose session is not empty is passed over and stays marked.  A
\* step that fails ends the sweep.
Clean(r) ==
    /\ rec[r].pc = "sweep"
    /\ LET next == {m \in Unclean : Emptied(m)}
       IN IF next = {} \/ rec[r].over THEN Step(r, "end") /\ UNCHANGED session
          ELSE \E m \in next :
                  /\ session' = [session EXCEPT ![m] = FALSE]
                  /\ rec' = [rec EXCEPT ![r].pc = "retire", ![r].m = m]
    /\ UNCHANGED <<record, expired, box, runs, call, del, calls, faults>>

Retire(r) ==
    /\ rec[r].pc = "retire"
    /\ \/ /\ ~rec[r].over /\ UNCHANGED faults
          /\ box' = [box EXCEPT ![rec[r].m] = IF @ = "none" THEN "none" ELSE "retired"]
          /\ Step(r, "cleaned")
       \/ rec[r].over /\ Step(r, "end") /\ UNCHANGED <<box, faults>>
       \/ Fault("cleanup") /\ Step(r, "end") /\ UNCHANGED box
    /\ UNCHANGED <<record, expired, session, runs, call, del, calls>>

Cleaned(r) ==
    /\ rec[r].pc = "cleaned"
    /\ members' = [members EXCEPT ![rec[r].m].cleanup = FALSE]
    /\ Step(r, "sweep")
    /\ UNCHANGED <<messages, requests, count, expired, world, call, del, calls, faults>>

\* An operation settles after its timeout.
Settles(r) ==
    /\ LET m == rec[r].m
       IN \/ /\ "box" \in rec[r].late
             /\ box' = [box EXCEPT ![m] = IF @ = "retired" THEN @ ELSE "ready"]
             /\ rec' = [rec EXCEPT ![r].late = @ \ {"box"}] /\ UNCHANGED session
          \/ /\ "session" \in rec[r].late
             /\ session' = [session EXCEPT ![m] = TRUE]
             /\ rec' = [rec EXCEPT ![r].late = @ \ {"session"}] /\ UNCHANGED box
    /\ UNCHANGED <<record, expired, runs, call, del, calls, faults>>

\* The lock is held until every operation has settled.
Ends(r) ==
    /\ rec[r].pc = "end" /\ rec[r].late = {}
    /\ rec' = [rec EXCEPT ![r] = NoRec]
    /\ UNCHANGED <<record, expired, world, call, del, calls, faults>>

Reconcile(r) ==
    \/ Begin(r) \/ Next1(r) \/ Create(r) \/ Session(r) \/ Ready(r) \/ Catch(r)
    \/ Clean(r) \/ Retire(r) \/ Cleaned(r) \/ Settles(r) \/ Ends(r)

(***************************************************************************)
(* Delivery: pending notifications become runs, under swarm-delivery.      *)
(***************************************************************************)

Pending == {n \in (1..Len(messages)) \X Members : messages[n[1]][n[2]] = "pending"}

Goto(d, pc) == del' = [del EXCEPT ![d].pc = pc]

\* The snapshot: recipients that are still reserved wait for a later sweep.
Deliver(d) ==
    /\ \A e \in Deliverers : del[e].pc = "idle"
    /\ Pending # {}
    /\ del' = [del EXCEPT ![d] = [pc |-> "next", at |-> <<0, 0>>,
                  todo |-> {n \in Pending : members[n[2]].state # "reserved"}]]
    /\ UNCHANGED <<record, expired, world, call, rec, calls, faults>>

\* The recipient has failed, or the work window is over.
Lost(n) == members[n[2]].state = "failed" \/ expired

\* The dedup key of the run is new to the run store.
NewRun(n) == runs[n] = 0

Enqueue(d) ==
    /\ del[d].pc = "next"
    /\ IF del[d].todo = {} THEN del' = [del EXCEPT ![d] = NoDel] /\ UNCHANGED runs
       ELSE \E n \in del[d].todo :
               /\ del' = [del EXCEPT ![d].pc = IF Lost(n) THEN "fail" ELSE "ack", ![d].at = n, ![d].todo = @ \ {n}]
               /\ runs' = IF ~Lost(n) /\ NewRun(n) THEN [runs EXCEPT ![n] = @ + 1] ELSE runs
    /\ UNCHANGED <<record, expired, box, session, call, rec, calls, faults>>

Acknowledge(d) ==
    /\ del[d].pc \in {"ack", "fail"}
    /\ messages' = [messages EXCEPT ![del[d].at[1]][del[d].at[2]] = IF del[d].pc = "ack" THEN "queued" ELSE "failed"]
    /\ Goto(d, "next")
    /\ UNCHANGED <<members, requests, count, expired, world, call, rec, calls, faults>>

Dispatch(d) == Deliver(d) \/ Enqueue(d) \/ Acknowledge(d)

(***************************************************************************)
(* Faults, and the end of the work window.                                 *)
(***************************************************************************)

\* The deadline of a sweep passes: the steps that follow are rejected.
Deadline ==
    /\ Fault("deadline")
    /\ \/ \E r \in Reconcilers : /\ rec[r].pc \notin {"idle", "end"} /\ ~rec[r].over
                                 /\ rec' = [rec EXCEPT ![r].over = TRUE] /\ UNCHANGED del
       \/ \E d \in Deliverers : del[d].pc # "idle" /\ del' = [del EXCEPT ![d] = NoDel] /\ UNCHANGED rec
    /\ UNCHANGED <<record, expired, world, call, calls>>

\* An update fails: before the catch it leads there, later it ends the sweep.
StoreFails ==
    /\ Fault("store")
    /\ \/ \E r \in Reconcilers : /\ rec[r].pc = "ready" /\ Step(r, "catch") /\ UNCHANGED del
       \/ \E r \in Reconcilers : /\ rec[r].pc \in {"catch", "sweep", "cleaned"} /\ Step(r, "end") /\ UNCHANGED del
       \/ \E d \in Deliverers : del[d].pc \in {"ack", "fail"} /\ del' = [del EXCEPT ![d] = NoDel] /\ UNCHANGED rec
    /\ UNCHANGED <<record, expired, world, call, calls>>

\* A process dies: its locks go with it, and what it had under way.
Crash ==
    /\ Fault("crash")
    /\ \/ \E r \in Reconcilers : rec[r].pc # "idle" /\ rec' = [rec EXCEPT ![r] = NoRec] /\ UNCHANGED del
       \/ \E d \in Deliverers : del[d].pc # "idle" /\ del' = [del EXCEPT ![d] = NoDel] /\ UNCHANGED rec
    /\ UNCHANGED <<record, expired, world, call, calls>>

Expire ==
    /\ Exists /\ ~expired /\ Fault("expire")
    /\ expired' = TRUE
    /\ UNCHANGED <<record, world, call, rec, del, calls>>

Next ==
    \/ \E c \in Callers : SpawnRead(c) \/ SpawnWrite(c) \/ SendRead(c) \/ SendWrite(c) \/ CallLost(c)
    \/ \E r \in Reconcilers : Reconcile(r)
    \/ \E d \in Deliverers : Dispatch(d)
    \/ Deadline \/ StoreFails \/ Crash \/ Expire

Spec == Init /\ [][Next]_vars

\* Every process sweeps again and again, and an operation settles.
FairSpec ==
    /\ Spec
    /\ \A r \in Reconcilers : WF_vars(Reconcile(r))
    /\ \A d \in Deliverers : WF_vars(Dispatch(d))

(***************************************************************************)
(* Properties.                                                             *)
(***************************************************************************)

\* The types of the record and of the world around it.
TypeOK ==
    /\ \A m \in Members : /\ members[m].state \in {"none", "reserved", "ready", "failed"}
                          /\ members[m].depth \in 0..Depth /\ members[m].cleanup \in BOOLEAN
    /\ Len(messages) <= Messages
    /\ \A s \in 1..Len(messages), m \in Members : messages[s][m] \in {"none", "pending", "queued", "failed"}
    /\ \A m \in Workers : box[m] \in {"none", "provisioning", "ready", "failed", "retired"}

\* A worker that is ready has its session and its computer.
ReadyHasComputer ==
    \A m \in Workers : members[m].state = "ready" => box[m] = "ready" /\ session[m]

\* A notification is run at most once, and only by a worker that is ready:
\* one that timed out or failed receives no work.
WorkReachesReady ==
    \A n \in Slots \X Members : runs[n] <= 1 /\ (runs[n] = 1 => members[n[2]].state = "ready")

\* A worker that failed and is cleaned up leaves nothing behind.
CleanedIsGone ==
    \A m \in Workers : (members[m].state = "failed" /\ ~members[m].cleanup)
        => box[m] \in {"none", "retired"} /\ ~session[m]

\* A request makes one pool or one message, and what is made belongs to one
\* request; the budgets count all of it.
RequestsCountOnce ==
    /\ \A q, p \in Spawns : q # p => requests[q] \cap requests[p] = {}
    /\ Len(messages) = Cardinality({q \in Requests : requests[q] # {}})
    /\ Cardinality(Known) <= Agents /\ count <= Notifications
    /\ count = Cardinality({n \in (1..Len(messages)) \X Members : messages[n[1]][n[2]] # "none"})

\* A reserved worker becomes ready or fails.
ReservationsEnd == \A m \in Workers : members[m].state = "reserved" ~> members[m].state # "reserved"

\* What a failed worker leaves is cleaned up.
CleanupEnds == \A m \in Workers : members[m].cleanup ~> ~members[m].cleanup
=============================================================================
