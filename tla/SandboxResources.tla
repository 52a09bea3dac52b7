-------------------------- MODULE SandboxResources -------------------------
(***************************************************************************)
(* The computers of one scope: the inventory (sandbox_resources), the      *)
(* scope's default, the activation that turns legacy computers (one per    *)
(* backend, found through the route) into recorded ones, and what the      *)
(* router does with them.  Processes with the feature on and off run side  *)
(* by side.                                                                *)
(*                                                                         *)
(* The id of a legacy computer is its backend.                             *)
(*                                                                         *)
(*   rec        of each id: its state, and whether cleanup is left over    *)
(*   default    Unset, Null or an id;  route: a backend or Unset           *)
(*   activated  the durable marker "explicit-defaults"                     *)
(*   known      the scope has a session, so the backfill finds it          *)
(*   machine    the provider has a machine for the id                      *)
(*   jobs       ids with a live background job                             *)
(*   op         the operation of a process and its place; the locks held   *)
(*              follow from it                                             *)
(***************************************************************************)
EXTENDS Naturals, FiniteSets

CONSTANTS
    Procs, Enabled,     \* processes, and those with the feature on
    Backends, Managed,  \* legacy and created computers
    DefaultBackend,
    Unset, Null, None,
    Operations,         \* kinds of operations that are started
    MaxOps,             \* bound: operations
    MaxFaults           \* bound: crashes and provider failures

VARIABLES rec, default, route, activated, known, machine, jobs, op, ops, faults

vars == <<rec, default, route, activated, known, machine, jobs, op, ops, faults>>
budget == <<ops, faults>>

Ids == Backends \cup Managed
NoRec == [state |-> "none", left |-> FALSE]
NoOp == [kind |-> "none", pc |-> "idle", id |-> None, found |-> {}]

Init ==
    /\ rec = [i \in Ids |-> NoRec]
    /\ default = Unset
    /\ route \in {Unset} \cup Backends
    /\ activated = FALSE
    /\ known \in BOOLEAN
    /\ machine = {} /\ jobs = {}
    /\ op = [p \in Procs |-> NoOp]
    /\ ops = 0 /\ faults = 0

Routed == IF route = Unset THEN DefaultBackend ELSE route

PutIfAbsent(i, state) == IF rec[i].state = "none" THEN [rec EXCEPT ![i].state = state] ELSE rec

(***************************************************************************)
(* Locks.  An operation holds a lock while it is at one of these places.   *)
(***************************************************************************)

Inside == {"records", "defaults", "mark", "publish", "publishdefault", "moving"}

ActivationFree == \A p \in Procs : op[p].pc \notin Inside

ResourceFree(i) == \A p \in Procs : ~(op[p].id = i /\ op[p].pc \in {"using", "provisioning", "retiring", "destroying"})

DefaultFree == \A p \in Procs : op[p].pc \notin {"choosing", "retiring", "destroying"}

Start(p, kind, pc, i) ==
    /\ op[p] = NoOp /\ kind \in Operations /\ ops < MaxOps
    /\ ops' = ops + 1
    /\ op' = [op EXCEPT ![p] = [kind |-> kind, pc |-> pc, id |-> i,
                                 found |-> IF kind = "activate" THEN machine \cap Backends ELSE {}]]

At(p, kind, pc) == op[p].kind = kind /\ op[p].pc = pc

Goto(p, pc) == op' = [op EXCEPT ![p].pc = pc]

Done(p) == op' = [op EXCEPT ![p] = NoOp]

\* What get and requireEnabled wait for.
Initialized(p) == activated \/ p \notin Enabled

(***************************************************************************)
(* Activation: records, then defaults, then the marker.                    *)
(***************************************************************************)

\* The routes and the scopes are read under the activation lock.
Activate(p) ==
    /\ p \in Enabled /\ ~activated /\ ActivationFree
    /\ Start(p, "activate", "records", IF known \/ route # Unset \/ machine # {} THEN Routed ELSE None)
    /\ UNCHANGED <<rec, default, route, activated, known, machine, jobs, faults>>

\* The routed computer and those the providers know.
BackfillRecords(p) ==
    /\ At(p, "activate", "records")
    /\ rec' = [i \in Ids |->
                 IF rec[i].state = "none" /\ i \in op[p].found \cup {op[p].id}
                 THEN [rec[i] EXCEPT !.state = "unverified"] ELSE rec[i]]
    /\ Goto(p, "defaults")
    /\ UNCHANGED <<default, route, activated, known, machine, jobs, budget>>

BackfillDefault(p) ==
    /\ At(p, "activate", "defaults")
    /\ LET i == op[p].id
       IN default' = IF i = None \/ default # Unset THEN default
                     ELSE IF rec[i].state = "retired" THEN Null ELSE i
    /\ Goto(p, "mark")
    /\ UNCHANGED <<rec, route, activated, known, machine, jobs, budget>>

Mark(p) ==
    /\ At(p, "activate", "mark")
    /\ activated' = TRUE
    /\ Done(p)
    /\ UNCHANGED <<rec, default, route, known, machine, jobs, budget>>

(***************************************************************************)
(* Before activation: the router picks by route, and records what it got.  *)
(***************************************************************************)

\* A turn of the scope; its session exists from then on.
LegacyPick(p) ==
    /\ p \notin Enabled /\ default = Unset /\ ~activated
    /\ Start(p, "legacy", "provision", Routed)
    /\ known' = TRUE
    /\ UNCHANGED <<rec, default, route, activated, machine, jobs, faults>>

\* The machine is provisioned without a lock.
LegacyProvision(p) ==
    /\ At(p, "legacy", "provision")
    /\ machine' = machine \cup {op[p].id}
    /\ Goto(p, "record")
    /\ UNCHANGED <<rec, default, route, activated, known, jobs, budget>>

RecordLegacy(p) ==
    /\ At(p, "legacy", "record") /\ ActivationFree
    /\ rec' = PutIfAbsent(op[p].id, "ready")
    /\ Goto(p, "publishdefault")
    /\ UNCHANGED <<default, route, activated, known, machine, jobs, budget>>

\* After activation a missing default is filled, under the same lock.
RecordDefault(p) ==
    /\ At(p, "legacy", "publishdefault")
    /\ default' = IF activated /\ default = Unset THEN op[p].id ELSE default
    /\ Done(p)
    /\ UNCHANGED <<rec, route, activated, known, machine, jobs, budget>>

\* withLegacyMutation: refused once defaults are explicit.
MigrateStart(p) ==
    /\ Initialized(p) /\ ActivationFree
    /\ ~activated /\ default = Unset
    /\ \E b \in Backends \ {Routed} : Start(p, "migrate", "moving", b)
    /\ UNCHANGED <<rec, default, route, activated, known, machine, jobs, faults>>

\* The copy is made and the route moved; see SandboxMigration.
Migrate(p) ==
    /\ At(p, "migrate", "moving")
    /\ route' = op[p].id
    /\ machine' = machine \cup {op[p].id}
    /\ Done(p)
    /\ UNCHANGED <<rec, default, activated, known, jobs, budget>>

(***************************************************************************)
(* Recorded computers.                                                     *)
(***************************************************************************)

\* A turn on the default or on a named computer, or a job on it.
UseStart(p) ==
    /\ Initialized(p)
    /\ \E kind \in {"use", "job"}, i \in Ids :
          /\ rec[i].state # "none"
          /\ kind = "use" => i = default \/ p \in Enabled
          /\ Start(p, kind, "waiting", i)
    /\ UNCHANGED <<rec, default, route, activated, known, machine, jobs, faults>>

\* use: the state is read again under the lock.
UseEnter(p) ==
    /\ op[p].kind \in {"use", "job"} /\ op[p].pc = "waiting" /\ ResourceFree(op[p].id)
    /\ IF rec[op[p].id].state = "retired" THEN Done(p) ELSE Goto(p, "using")
    /\ UNCHANGED <<rec, default, route, activated, known, machine, jobs, budget>>

\* The provider brings the machine up; a job is registered before the lock
\* is given back.
Use(p) ==
    /\ op[p].pc = "using"
    /\ machine' = machine \cup {op[p].id}
    /\ jobs' = IF op[p].kind = "job" THEN jobs \cup {op[p].id} ELSE jobs
    /\ Done(p)
    /\ UNCHANGED <<rec, default, route, activated, known, budget>>

JobEnds ==
    /\ \E i \in jobs : jobs' = jobs \ {i}
    /\ UNCHANGED <<rec, default, route, activated, known, machine, op, budget>>

CreateStart(p) ==
    /\ p \in Enabled /\ activated
    /\ \E i \in Managed : Start(p, "create", "waiting", i)
    /\ UNCHANGED <<rec, default, route, activated, known, machine, jobs, faults>>

\* A reservation that is ready is returned, one that is retired refused.
CreateEnter(p) ==
    /\ At(p, "create", "waiting") /\ ResourceFree(op[p].id)
    /\ IF rec[op[p].id].state \in {"ready", "retired"} THEN Done(p) /\ UNCHANGED rec
       ELSE /\ rec' = [rec EXCEPT ![op[p].id].state = "provisioning"]
            /\ Goto(p, "provisioning")
    /\ UNCHANGED <<default, route, activated, known, machine, jobs, budget>>

Create(p) ==
    /\ At(p, "create", "provisioning")
    /\ \/ /\ machine' = machine \cup {op[p].id}
          /\ rec' = [rec EXCEPT ![op[p].id].state = "ready"] /\ UNCHANGED faults
       \/ /\ faults < MaxFaults /\ faults' = faults + 1
          /\ machine' \in {machine, machine \cup {op[p].id}}
          /\ rec' = [rec EXCEPT ![op[p].id].state = "failed"]
    /\ Done(p)
    /\ UNCHANGED <<default, route, activated, known, jobs, ops>>

RetireStart(p) ==
    /\ p \in Enabled /\ activated
    /\ \E i \in Ids : rec[i].state # "none" /\ Start(p, "retire", "waiting", i)
    /\ UNCHANGED <<rec, default, route, activated, known, machine, jobs, faults>>

\* A computer that is the default, or the implicit one, or has work, stays.
MayRetire(i) ==
    /\ ~(rec[i].state = "retired" /\ ~rec[i].left)
    /\ default # i /\ ~(default = Unset /\ i = Routed)
    /\ i \notin jobs

\* The lock of the computer, then the lock of the default.
RetireEnter(p) ==
    /\ At(p, "retire", "waiting") /\ ResourceFree(op[p].id) /\ DefaultFree
    /\ IF MayRetire(op[p].id) THEN Goto(p, "retiring") ELSE Done(p)
    /\ UNCHANGED <<rec, default, route, activated, known, machine, jobs, budget>>

Retire(p) ==
    /\ At(p, "retire", "retiring")
    /\ rec' = [rec EXCEPT ![op[p].id] = [state |-> "retired", left |-> TRUE]]
    /\ Goto(p, "destroying")
    /\ UNCHANGED <<default, route, activated, known, machine, jobs, budget>>

\* destroyScope; a failure leaves the cleanup to another retire.
Destroy(p) ==
    /\ At(p, "retire", "destroying")
    /\ \/ /\ machine' = machine \ {op[p].id}
          /\ rec' = [rec EXCEPT ![op[p].id].left = FALSE] /\ UNCHANGED faults
       \/ /\ faults < MaxFaults /\ faults' = faults + 1
          /\ machine' \in {machine, machine \ {op[p].id}}
          /\ UNCHANGED rec
    /\ Done(p)
    /\ UNCHANGED <<default, route, activated, known, jobs, ops>>

DefaultStart(p) ==
    /\ p \in Enabled /\ activated
    /\ \E i \in Ids \cup {Null} :
          /\ i # Null => rec[i].state # "none"
          /\ Start(p, "default", "waiting", i)
    /\ UNCHANGED <<rec, default, route, activated, known, machine, jobs, faults>>

DefaultEnter(p) ==
    /\ At(p, "default", "waiting") /\ DefaultFree
    /\ IF op[p].id # Null /\ rec[op[p].id].state = "retired" THEN Done(p) ELSE Goto(p, "choosing")
    /\ UNCHANGED <<rec, default, route, activated, known, machine, jobs, budget>>

SetDefault(p) ==
    /\ At(p, "default", "choosing")
    /\ default' = op[p].id
    /\ Done(p)
    /\ UNCHANGED <<rec, route, activated, known, machine, jobs, budget>>

\* A process dies; its locks are freed.
Crash(p) ==
    /\ op[p] # NoOp /\ faults < MaxFaults
    /\ faults' = faults + 1
    /\ Done(p)
    /\ UNCHANGED <<rec, default, route, activated, known, machine, jobs, ops>>

Next ==
    \/ \E p \in Procs :
          \/ Activate(p) \/ BackfillRecords(p) \/ BackfillDefault(p) \/ Mark(p)
          \/ LegacyPick(p) \/ LegacyProvision(p) \/ RecordLegacy(p) \/ RecordDefault(p)
          \/ MigrateStart(p) \/ Migrate(p)
          \/ UseStart(p) \/ UseEnter(p) \/ Use(p)
          \/ CreateStart(p) \/ CreateEnter(p) \/ Create(p)
          \/ RetireStart(p) \/ RetireEnter(p) \/ Retire(p) \/ Destroy(p)
          \/ DefaultStart(p) \/ DefaultEnter(p) \/ SetDefault(p)
          \/ Crash(p)
    \/ JobEnds

Spec == Init /\ [][Next]_vars

(***************************************************************************)
(* Properties.                                                             *)
(***************************************************************************)

TypeOK ==
    /\ \A i \in Ids : /\ rec[i].state \in {"none", "unverified", "provisioning", "ready", "failed", "retired"}
                      /\ rec[i].left => rec[i].state = "retired"
    /\ default \in {Unset, Null} \cup Ids /\ route \in {Unset} \cup Backends
    /\ machine \subseteq Ids /\ jobs \subseteq Ids

\* The default of a scope is a computer that is on record and not retired.
DefaultIsUsable == default \in Ids => rec[default].state \notin {"none", "retired"}

\* A computer is not retired while background work runs on it.
JobsKeepComputer == \A i \in jobs : rec[i].state # "retired"

\* A computer whose retirement is complete has no machine.
RetiredIsGone == \A i \in Ids : rec[i].state = "retired" /\ ~rec[i].left => i \notin machine

\* The route is settled once defaults are explicit, and the default that the
\* backfill chose is the computer the scope was routed to.
RouteIsSettled ==
    [][/\ activated => route' = route
       /\ ~activated /\ activated' => default' \in {Unset, Null, Routed}]_vars

\* A scope whose computers the backfill recorded has a default, or an
\* explicit null, once the marker is written; an interrupted backfill is
\* done again.
BackfilledHasDefault ==
    (activated /\ \E b \in Backends : rec[b].state = "unverified") => default # Unset
=============================================================================
