------------------------- MODULE BackgroundOwnership -------------------------
(***************************************************************************)
(* The hand-over of background work from one deployment to another.  Each  *)
(* core process runs a controller (createBackgroundController) that polls  *)
(* a shared record of the owner: it admits the process, starts the         *)
(* background loops, fences them when the record moves on, and tells the   *)
(* record when it has stopped claiming and when the claimed work is over.  *)
(* An operator moves the record from one deployment to the next.           *)
(*                                                                         *)
(* A call to the record is one step of the controller; what happens to the *)
(* answer (a conflict, or an error that may hide a commit) is part of it.  *)
(* The claims are those of the process's worker (worker.ts).               *)
(***************************************************************************)
EXTENDS Naturals, FiniteSets

CONSTANTS Instances,     \* processes, each with an identity of its own
          Deployment,    \* the deployment of each instance
          Task,          \* the infrastructure task each instance runs in
          Legacy,        \* deployments booted with BACKGROUND_WORK_ENABLED
          NoDeployment,  \* desiredDeploymentId = null
          NoRequest,     \* lastRequestId = null
          MayFail,       \* calls to the record that may fail or lose their answer
          Stops,         \* may a process be shut down?
          Crashes,       \* may a process die?
          MaxGeneration, \* transitions of the record
          MaxFaults      \* failing calls, expired watchdogs, failing starts

Calls == {"register", "get", "admit", "ready", "relinquished", "drained"}

ASSUME OwnershipAssumption ==
    /\ MayFail \subseteq Calls /\ {Stops, Crashes} \subseteq BOOLEAN
    /\ {MaxGeneration, MaxFaults} \subseteq Nat

VARIABLES
    own,      \* the shared record
    life,     \* "new", "up" or "down" per process
    ctl,      \* the controller's variables
    pc,       \* where its reconcile() is
    drains,   \* the promises of release() that wait for claimed work to end
    work,     \* the worker: "none", "claiming" or "running"
    faults

vars == <<own, life, ctl, pc, drains, work, faults>>

-----------------------------------------------------------------------------
(* The shared record that says which deployment may do background work     *)
(* (createBackgroundOwnershipStore).  Every operation is one atomic update *)
(* of the record, so each is a pair of operators here: when the update     *)
(* goes through (otherwise it throws BackgroundOwnershipConflict and       *)
(* leaves the record alone), and the record it leaves.                     *)

Deployments == {Deployment[i] : i \in Instances}
Tasks == {Task[i] : i \in Instances}
Members == [generation : Nat, state : {"admitted", "relinquished", "drained"},
            retired : BOOLEAN, ready : BOOLEAN]

(* Nobody is enrolled and the protocol is off: the boot flag decides.      *)
InitialRecord ==
    [enabled |-> FALSE, generation |-> 0, desired |-> NoDeployment,
     last |-> NoRequest, members |-> [i \in {} |-> 0]]

Enrolled(rec) == DOMAIN rec.members
Present(rec) == {i \in Enrolled(rec) : ~rec.members[i].retired}
WithMember(rec, i, m) ==
    [rec EXCEPT !.members = [j \in Enrolled(rec) \cup {i} |->
                                IF j = i THEN m ELSE rec.members[j]]]

(* Is the instance one that the record wants to work?                      *)
Wanted(rec, i) ==
    IF rec.enabled THEN rec.desired = Deployment[i] ELSE Deployment[i] \in Legacy

CanRegister(rec, i) ==
    ~\E j \in Enrolled(rec) : Task[j] = Task[i] /\ rec.members[j].retired

Register(rec, i) ==
    IF i \in Enrolled(rec) THEN rec
    ELSE WithMember(rec, i, [generation |-> rec.generation, state |-> "drained",
                             retired |-> FALSE, ready |-> FALSE])

(* A request is a record with an id, the generation it expects, and either *)
(* the deployment it wants, with the tasks of a bootstrap and with the id  *)
(* a compensation wants to come after (both sets, empty when not given),   *)
(* or the members it retires.                                              *)
LastId(rec) == IF rec.last = NoRequest THEN NoRequest ELSE rec.last.id
Replayed(rec, q) == LastId(rec) = q.id

CanTransition(rec, q) ==
    IF Replayed(rec, q)
    THEN rec.last = q /\ rec.generation = q.expected + 1 /\ rec.desired = q.desired
    ELSE /\ rec.generation = q.expected
         /\ q.after \in {{}, {LastId(rec)}}
         /\ IF rec.enabled THEN q.bootstrap = {}
            ELSE q.bootstrap # {} /\ q.bootstrap = {Task[i] : i \in Present(rec)}
         /\ q.desired = NoDeployment
              \/ \E i \in Present(rec) : Deployment[i] = q.desired

Transition(rec, q) ==
    IF Replayed(rec, q) THEN rec
    ELSE [rec EXCEPT !.enabled = TRUE, !.generation = @ + 1,
                     !.desired = q.desired, !.last = q]

(* No member of another generation may still be admitted.                  *)
Clear(rec) ==
    \A j \in Enrolled(rec) : rec.members[j].state = "admitted"
                                => rec.members[j].generation = rec.generation

\* Mutant of CanAdmit: the previous owners are not waited for.
CanAdmitAtOnce(rec, i, generation) ==
    rec.generation = generation /\ i \in Present(rec) /\ Wanted(rec, i)

CanAdmit(rec, i, generation) ==
    /\ rec.generation = generation /\ i \in Present(rec)
    /\ Wanted(rec, i) /\ (rec.enabled => Clear(rec))

Admit(rec, i) ==
    WithMember(rec, i, [generation |-> rec.generation, state |-> "admitted",
                        retired |-> FALSE, ready |-> FALSE])

CanMarkReady(rec, i, generation) ==
    /\ rec.generation = generation /\ i \in Present(rec)
    /\ rec.members[i].generation = generation /\ rec.members[i].state = "admitted"
    /\ rec.enabled => rec.desired = Deployment[i]

MarkReady(rec, i) == WithMember(rec, i, [rec.members[i] EXCEPT !.ready = TRUE])

\* Mutant of CanAcknowledge: refused once the record has moved on.
CanAcknowledgeCurrent(rec, i, generation, next) ==
    /\ i \in Present(rec) /\ rec.members[i].generation = generation
    /\ rec.generation = generation
    /\ next = "drained" => rec.members[i].state # "admitted"

CanAcknowledge(rec, i, generation, next) ==
    /\ i \in Present(rec) /\ rec.members[i].generation = generation
    /\ next = "drained" => rec.members[i].state # "admitted"

Acknowledge(rec, i, next) ==
    IF rec.members[i].state \in {"drained", next} THEN rec
    ELSE WithMember(rec, i, [rec.members[i] EXCEPT !.state = next, !.ready = FALSE])

CanRetire(rec, q) ==
    /\ rec.generation = q.expected
    /\ IF Replayed(rec, q) THEN rec.last = q
       ELSE /\ q.gone # {}
            /\ \A p \in q.gone : /\ p.instance \in Enrolled(rec)
                                 /\ rec.members[p.instance].generation = p.generation

Retire(rec, q) ==
    IF Replayed(rec, q) THEN rec
    ELSE [rec EXCEPT !.last = q,
            !.members = [i \in Enrolled(rec) |->
                IF \E p \in q.gone : p.instance = i
                THEN [rec.members[i] EXCEPT !.state = "drained", !.retired = TRUE,
                                            !.ready = FALSE]
                ELSE rec.members[i]]]

-----------------------------------------------------------------------------
NoAdmission == MaxGeneration + 1

Booted == [running |-> FALSE, registered |-> FALSE, admission |-> NoAdmission,
           epoch |-> 0, aborted |-> FALSE, valid |-> FALSE, on |-> FALSE,
           seen |-> 0, then |-> "idle", refresh |-> "none"]

Controls ==
    [running : BOOLEAN, registered : BOOLEAN, admission : 0 .. NoAdmission,
     epoch : Nat, aborted : BOOLEAN, valid : BOOLEAN, on : BOOLEAN,
     seen : 0 .. MaxGeneration, then : {"idle", "admit", "caught", "exit"},
     refresh : {"none", "renew", "fence", "stale"}]

Places == {"idle", "register", "get", "admit", "start", "starting", "ready", "relinquish",
           "relinquished", "exit"}

Drains == [epoch : Nat, generation : 0 .. MaxGeneration, acking : BOOLEAN]

TypeOK ==
    /\ own.enabled \in BOOLEAN /\ own.generation \in 0 .. MaxGeneration
    /\ own.desired \in Deployments \cup {NoDeployment}
    /\ Enrolled(own) \subseteq Instances
    /\ \A i \in Enrolled(own) : own.members[i] \in Members
    /\ life \in [Instances -> {"new", "up", "down"}]
    /\ ctl \in [Instances -> Controls]
    /\ pc \in [Instances -> Places]
    /\ drains \in [Instances -> SUBSET Drains]
    /\ work \in [Instances -> {"none", "claiming", "running"}]
    /\ faults \in 0 .. MaxFaults

Init ==
    /\ own = InitialRecord
    /\ life = [i \in Instances |-> "new"]
    /\ ctl = [i \in Instances |-> Booted]
    /\ pc = [i \in Instances |-> "idle"]
    /\ drains = [i \in Instances |-> {}]
    /\ work = [i \in Instances |-> "none"]
    /\ faults = 0

CanClaim(i) ==
    /\ life[i] = "up" /\ ctl[i].running /\ ctl[i].admission # NoAdmission
    /\ ~ctl[i].aborted /\ ctl[i].valid

Fault == faults < MaxFaults /\ faults' = faults + 1

At(i, here) == life[i] = "up" /\ pc[i] = here
Goto(i, there) == pc' = [pc EXCEPT ![i] = there]

(* fence(): the validity ends, the activation is aborted, and the loops    *)
(* and the worker are told to stop.                                        *)
Fenced(c) == [c EXCEPT !.valid = FALSE, !.aborted = TRUE, !.on = FALSE]
Renewed(c) == [c EXCEPT !.valid = TRUE]

(* release(), up to its first await; next is where its caller goes on      *)
(* ("caught" is the catch block of reconcile, which then returns).         *)
Resume(next) == IF next = "caught" THEN "idle" ELSE next

Release(i, c, next) ==
    /\ ctl' = [ctl EXCEPT ![i] = [Fenced(c) EXCEPT !.then = next]]
    /\ Goto(i, IF c.admission = NoAdmission THEN Resume(next) ELSE "relinquish")

(* A call throws: the catch block releases, a release that throws there is *)
(* only reported, and one that throws in stop() ends the process.          *)
Throw(i) ==
    IF pc[i] = "relinquished" /\ ctl[i].then \in {"caught", "exit"}
    THEN ctl' = [ctl EXCEPT ![i] = Fenced(@)] /\ Goto(i, Resume(ctl[i].then))
    ELSE Release(i, ctl[i], "caught")

(* A call fails; its update may have been committed all the same.          *)
CallFails(i, call, committed) ==
    /\ call \in MayFail /\ Fault /\ own' \in {own, committed}
    /\ Throw(i) /\ UNCHANGED <<life, drains, work>>

Conflict(i) == Throw(i) /\ UNCHANGED <<own, life, drains, work, faults>>

-----------------------------------------------------------------------------
(* The process and its controller.                                         *)

Boot(i) ==
    /\ life[i] = "new" /\ life' = [life EXCEPT ![i] = "up"]
    /\ ctl' = [ctl EXCEPT ![i].running = TRUE]
    /\ UNCHANGED <<own, pc, drains, work, faults>>

(* A tick of the poller, when no reconcile is pending.                     *)
Reconcile(i) ==
    /\ At(i, "idle") /\ ctl[i].running
    /\ ctl' = [ctl EXCEPT ![i].then = "idle"]
    /\ Goto(i, IF ctl[i].registered THEN "get" ELSE "register")
    /\ UNCHANGED <<own, life, drains, work, faults>>

RegisterSelf(i) ==
    /\ At(i, "register")
    /\ \/ /\ CanRegister(own, i) /\ own' = Register(own, i)
          /\ ctl' = [ctl EXCEPT ![i].registered = TRUE] /\ Goto(i, "get")
          /\ UNCHANGED <<life, drains, work, faults>>
       \/ ~CanRegister(own, i) /\ Conflict(i)
       \/ CallFails(i, "register", IF CanRegister(own, i) THEN Register(own, i) ELSE own)

(* The record is read and, before anything else can run, acted upon.       *)
Look(i) ==
    LET c == ctl[i]
        desired == c.running /\ i \in Present(own) /\ Wanted(own, i)
        held == c.admission # NoAdmission
    IN  /\ At(i, "get")
        /\ \/ /\ \/ /\ held /\ (~desired \/ own.generation # c.admission \/ c.aborted)
                    /\ Release(i, [c EXCEPT !.seen = own.generation],
                               IF desired THEN "admit" ELSE "idle")
                 \/ /\ ~held /\ desired /\ Goto(i, "admit")
                    /\ ctl' = [ctl EXCEPT ![i].seen = own.generation]
                 \/ /\ ~held /\ ~desired /\ Goto(i, "idle") /\ UNCHANGED ctl
                 \/ /\ held /\ desired /\ own.generation = c.admission /\ ~c.aborted
                    /\ ctl' = [ctl EXCEPT ![i] = Renewed(@)] /\ Goto(i, "idle")
              /\ UNCHANGED <<own, life, drains, work, faults>>
           \/ CallFails(i, "get", own)

Activated(c) ==
    Renewed([c EXCEPT !.admission = c.seen, !.epoch = @ + 1, !.aborted = FALSE,
                      !.refresh = IF @ = "none" THEN "none" ELSE "stale"])

(* admit() with the generation that was read; the activation begins.       *)
AdmitSelf(i) ==
    LET may == CanAdmit(own, i, ctl[i].seen)
        c == Activated(ctl[i])
    IN  /\ At(i, "admit")
        /\ \/ /\ may /\ own' = Admit(own, i)
              /\ \/ c.running /\ ctl' = [ctl EXCEPT ![i] = c] /\ Goto(i, "start")
                 \/ ~c.running /\ Release(i, c, "idle")
              /\ UNCHANGED <<life, drains, work, faults>>
           \/ ~may /\ Conflict(i)
           \/ CallFails(i, "admit", IF may THEN Admit(own, i) ELSE own)

(* deps.start(): nothing when the activation was aborted; otherwise the    *)
(* loops and the worker are started, and their readiness is awaited.       *)
StartLoops(i) ==
    /\ At(i, "start") /\ Goto(i, "starting")
    /\ ctl' = [ctl EXCEPT ![i].on = ~ctl[i].aborted]
    /\ UNCHANGED <<own, life, drains, work, faults>>

Started(i) ==
    /\ At(i, "starting")
    /\ \/ /\ (ctl[i].aborted \/ ~ctl[i].running) /\ Release(i, ctl[i], "idle")
       \/ /\ ~ctl[i].aborted /\ ctl[i].running /\ Goto(i, "ready") /\ UNCHANGED ctl
    /\ UNCHANGED <<own, life, drains, work, faults>>

StartFails(i) ==
    /\ At(i, "starting") /\ Fault /\ Throw(i) /\ UNCHANGED <<own, life, drains, work>>

Ready(i) ==
    LET may == CanMarkReady(own, i, ctl[i].seen)
    IN  /\ At(i, "ready")
        /\ \/ /\ may /\ own' = MarkReady(own, i) /\ Goto(i, "idle")
              /\ UNCHANGED <<life, ctl, drains, work, faults>>
           \/ ~may /\ Conflict(i)
           \/ CallFails(i, "ready", IF may THEN MarkReady(own, i) ELSE own)

(* refreshStartup(): a tick of the poller while the start is pending reads *)
(* the record; what it finds is applied to the same activation only.       *)
Starting(i) == life[i] = "up" /\ pc[i] \in {"start", "starting"}

RefreshRead(i) ==
    LET good == /\ own.generation = ctl[i].admission /\ i \in Present(own)
                /\ own.members[i].state = "admitted"
                /\ own.members[i].generation = ctl[i].admission /\ Wanted(own, i)
    IN  /\ Starting(i) /\ ctl[i].running /\ ~ctl[i].aborted /\ ctl[i].refresh = "none"
        /\ \/ /\ ctl' = [ctl EXCEPT ![i].refresh = IF good THEN "renew" ELSE "fence"]
              /\ UNCHANGED faults
           \/ "get" \in MayFail /\ Fault /\ ctl' = [ctl EXCEPT ![i].refresh = "fence"]
        /\ UNCHANGED <<own, life, pc, drains, work>>

RefreshApply(i) ==
    LET c == [ctl[i] EXCEPT !.refresh = "none"]
        current == Starting(i) /\ c.running /\ ~c.aborted
    IN  /\ life[i] = "up" /\ ctl[i].refresh # "none"
        /\ ctl' = [ctl EXCEPT ![i] =
                     IF current /\ ctl[i].refresh = "renew" THEN Renewed(c)
                     ELSE IF current /\ ctl[i].refresh = "fence" THEN Fenced(c) ELSE c]
        /\ UNCHANGED <<own, life, pc, drains, work, faults>>

(* The validity watchdog, or the deadline of a start, fires.               *)
Expire(i) ==
    /\ life[i] = "up" /\ ctl[i].admission # NoAdmission /\ ctl[i].valid
    /\ Fault /\ ctl' = [ctl EXCEPT ![i] = Fenced(@)]
    /\ UNCHANGED <<own, life, pc, drains, work>>

\* Mutant of Relinquish: a claim in flight is not awaited.
RelinquishAtOnce(i) ==
    /\ At(i, "relinquish") /\ Goto(i, "relinquished")
    /\ UNCHANGED <<own, life, ctl, drains, work, faults>>

(* deps.relinquish() is over when no claim is in flight any more.          *)
Relinquish(i) ==
    /\ At(i, "relinquish") /\ work[i] # "claiming" /\ Goto(i, "relinquished")
    /\ UNCHANGED <<own, life, ctl, drains, work, faults>>

AckRelinquished(i) ==
    LET c == ctl[i]
        may == CanAcknowledge(own, i, c.admission, "relinquished")
        acked == Acknowledge(own, i, "relinquished")
    IN  /\ At(i, "relinquished")
        /\ \/ /\ may /\ own' = acked
              /\ ctl' = [ctl EXCEPT ![i].admission = NoAdmission]
              /\ drains' = [drains EXCEPT ![i] = @ \cup
                    {[epoch |-> c.epoch, generation |-> c.admission, acking |-> FALSE]}]
              /\ Goto(i, Resume(c.then)) /\ UNCHANGED <<life, work, faults>>
           \/ ~may /\ Conflict(i)
           \/ CallFails(i, "relinquished", IF may THEN acked ELSE own)

(* The promise of release(): once the work is over and nothing has been    *)
(* admitted since, the record is told.                                     *)
Drained(i) ==
    \E d \in drains[i] :
        /\ life[i] = "up" /\ ~d.acking /\ work[i] = "none"
        /\ drains' = [drains EXCEPT ![i] = (@ \ {d}) \cup
              (IF ctl[i].admission = NoAdmission /\ ctl[i].epoch = d.epoch
               THEN {[d EXCEPT !.acking = TRUE]} ELSE {})]
        /\ UNCHANGED <<own, life, ctl, pc, work, faults>>

AckDrained(i) ==
    \E d \in drains[i] :
        LET acked == IF CanAcknowledge(own, i, d.generation, "drained")
                     THEN Acknowledge(own, i, "drained") ELSE own
        IN  /\ life[i] = "up" /\ d.acking
            /\ \/ own' = acked /\ UNCHANGED faults
               \/ "drained" \in MayFail /\ Fault /\ own' \in {own, acked}
            /\ drains' = [drains EXCEPT ![i] = @ \ {d}]
            /\ UNCHANGED <<life, ctl, pc, work>>

(* stop(): the pending reconcile is awaited, then the admission released.  *)
Stop(i) ==
    /\ Stops /\ life[i] = "up" /\ ctl[i].running
    /\ ctl' = [ctl EXCEPT ![i] = [Fenced(@) EXCEPT !.running = FALSE]]
    /\ UNCHANGED <<own, life, pc, drains, work, faults>>

StopRelease(i) ==
    /\ At(i, "idle") /\ ~ctl[i].running /\ Release(i, ctl[i], "exit")
    /\ UNCHANGED <<own, life, drains, work, faults>>

(* The process ends: after stop(), or by a crash at any moment.            *)
Die(i) ==
    /\ life[i] = "up" /\ (pc[i] = "exit" \/ Crashes)
    /\ life' = [life EXCEPT ![i] = "down"] /\ ctl' = [ctl EXCEPT ![i] = Booted]
    /\ pc' = [pc EXCEPT ![i] = "idle"] /\ drains' = [drains EXCEPT ![i] = {}]
    /\ work' = [work EXCEPT ![i] = "none"] /\ UNCHANGED <<own, faults>>

-----------------------------------------------------------------------------
(* The worker of the process.                                              *)

Claim(i) ==
    /\ ctl[i].on /\ CanClaim(i) /\ work[i] = "none"
    /\ work' = [work EXCEPT ![i] = "claiming"]
    /\ UNCHANGED <<own, life, ctl, pc, drains, faults>>

(* A run was claimed, or there was none; a claim that comes back too late  *)
(* is given back.                                                          *)
Claimed(i) ==
    /\ work[i] = "claiming"
    /\ \E w \in {"none"} \cup (IF ctl[i].on /\ CanClaim(i) THEN {"running"} ELSE {}) :
          work' = [work EXCEPT ![i] = w]
    /\ UNCHANGED <<own, life, ctl, pc, drains, faults>>

Finish(i) ==
    /\ work[i] = "running" /\ work' = [work EXCEPT ![i] = "none"]
    /\ UNCHANGED <<own, life, ctl, pc, drains, faults>>

-----------------------------------------------------------------------------
(* The operator: a hand-over to another deployment or a pause, and the     *)
(* retirement of a process whose task is known to have stopped.            *)

HandOver(d) ==
    LET q == [id |-> <<"transition", own.generation>>, expected |-> own.generation,
              desired |-> d, after |-> {},
              bootstrap |-> IF own.enabled THEN {} ELSE {Task[i] : i \in Present(own)}]
    IN  /\ own.generation < MaxGeneration /\ (own.enabled => own.desired # d)
        /\ CanTransition(own, q) /\ own' = Transition(own, q)
        /\ UNCHANGED <<life, ctl, pc, drains, work, faults>>

RetireDead(i) ==
    LET q == [id |-> <<"retire", own.generation, i>>, expected |-> own.generation,
              gone |-> {[instance |-> i, generation |-> own.members[i].generation]}]
    IN  /\ life[i] = "down" /\ i \in Present(own)
        /\ CanRetire(own, q) /\ own' = Retire(own, q)
        /\ UNCHANGED <<life, ctl, pc, drains, work, faults>>

-----------------------------------------------------------------------------
Controller(i) ==
    \/ Reconcile(i) \/ RegisterSelf(i) \/ Look(i) \/ AdmitSelf(i) \/ StartLoops(i)
    \/ Started(i) \/ Ready(i) \/ Relinquish(i) \/ AckRelinquished(i) \/ StopRelease(i)

Next ==
    \/ \E i \in Instances :
          \/ Boot(i) \/ Controller(i) \/ StartFails(i) \/ RefreshRead(i)
          \/ RefreshApply(i) \/ Expire(i) \/ Drained(i) \/ AckDrained(i)
          \/ Stop(i) \/ Die(i) \/ Claim(i) \/ Claimed(i) \/ Finish(i) \/ RetireDead(i)
    \/ \E d \in Deployments \cup {NoDeployment} : HandOver(d)

Spec == Init /\ [][Next]_vars

(* Timers fire, calls return, and claimed work ends; nothing obliges the   *)
(* operator to act or a process to stop.                                   *)
FairSpec ==
    /\ Spec
    /\ \A i \in Instances :
          /\ WF_vars(Boot(i)) /\ WF_vars(Controller(i)) /\ WF_vars(RefreshApply(i))
          /\ WF_vars(Drained(i)) /\ WF_vars(AckDrained(i))
          /\ WF_vars(Claimed(i)) /\ WF_vars(Finish(i))

-----------------------------------------------------------------------------
(* Properties.                                                             *)

Claims(i) == CanClaim(i) \/ work[i] = "claiming"

(* Two processes that may claim background work, or have a claim under way,*)
(* were admitted in the same generation, and belong to one deployment once *)
(* the protocol is on (generation 0 is the boot flag's): a hand-over never *)
(* has both deployments claiming (canClaim, admit, release).               *)
OneOwner ==
    \A i, j \in Instances : Claims(i) /\ Claims(j) =>
        /\ ctl[i].admission = ctl[j].admission
        /\ ctl[i].admission > 0 => Deployment[i] = Deployment[j]

(* Whoever may claim is on record as admitted, in the generation it was    *)
(* admitted in: the record never says "relinquished", "drained" or retired *)
(* of a process that still claims, so what the operator reads can be       *)
(* trusted (awaitBackgroundWork).                                          *)
ClaimsAdmitted ==
    \A i \in Instances : Claims(i) =>
        /\ i \in Present(own) /\ own.members[i].state = "admitted"
        /\ own.members[i].generation = ctl[i].admission

(* A live process on record as drained has no claimed work any more        *)
(* (docs/background-ownership.md, "drained").                              *)
DrainedMeansIdle ==
    \A i \in Enrolled(own) :
        life[i] = "up" /\ own.members[i].state = "drained" => work[i] = "none"

Settled ==
    \A i \in Instances :
        IF own.desired = Deployment[i]
        THEN /\ i \in Present(own) /\ own.members[i].state = "admitted"
             /\ own.members[i].generation = own.generation /\ own.members[i].ready
        ELSE i \in Present(own) => own.members[i].state # "admitted"

(* Every transition is carried out, unless another one follows: the old    *)
(* owners relinquish, and every process of the desired deployment is       *)
(* admitted and ready, in the face of expired watchdogs and failing calls. *)
HandoverCompletes ==
    \A g \in 1 .. MaxGeneration :
        own.generation = g ~> (own.generation # g \/ Settled)

(* A process that gave up its admission is eventually on record as drained,*)
(* unless it is admitted again.                                            *)
DrainCompletes ==
    \A i \in Instances :
        LET undrained == i \in Enrolled(own) /\ own.members[i].state = "relinquished"
        IN  undrained ~> ~undrained
=============================================================================
