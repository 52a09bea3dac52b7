--------------------------- MODULE OwnershipProofs ---------------------------
(***************************************************************************)
(* Proofs about BackgroundOwnership, for any processes, deployments and    *)
(* bounds: every variable keeps its type, whoever may claim is on record   *)
(* as admitted, and two that may claim are of one generation and of one    *)
(* deployment.                                                             *)
(*                                                                         *)
(* The invariant has two halves.  RecordOK is about the record alone: its  *)
(* admitted members are of one generation and, once the protocol is on, of *)
(* one deployment; each operation of the record keeps that, which is where *)
(* admit() waiting for the previous owners matters, and takes no admission *)
(* but the one it is about.                                                *)
(* ControllerOK ties a process to the record: an activation that has not   *)
(* been aborted, and a claim under way, belong to an admission that the    *)
(* record still holds; it is kept because release() aborts first, waits    *)
(* for claims, and tells the record last.                                  *)
(***************************************************************************)
EXTENDS BackgroundOwnership, TLAPS

(* ---- the record ------------------------------------------------------- *)

(* The record is a record; whatever request came last, its members are     *)
(* processes.                                                              *)
RecordTyped(rec) ==
    /\ rec \in [enabled : BOOLEAN, generation : 0 .. MaxGeneration,
                desired : Deployments \cup {NoDeployment}, last : {rec.last},
                members : [Enrolled(rec) -> Members]]
    /\ Enrolled(rec) \subseteq Instances

Admitted(rec, i) == i \in Enrolled(rec) /\ rec.members[i].state = "admitted"

(* The generations count the transitions of a protocol that is on; what is *)
(* admitted is present, of one generation, and in the current generation   *)
(* of the desired deployment, and so of one deployment.                    *)
RecordOK(rec) ==
    /\ RecordTyped(rec)
    /\ rec.enabled <=> rec.generation > 0
    /\ \A i \in Enrolled(rec) : rec.members[i].generation <= rec.generation
    /\ \A i \in Instances : Admitted(rec, i) => ~rec.members[i].retired
    /\ \A i \in Instances :
         Admitted(rec, i) /\ rec.enabled /\ rec.members[i].generation = rec.generation
           => Deployment[i] = rec.desired
    /\ \A i, j \in Instances : Admitted(rec, i) /\ Admitted(rec, j) =>
         /\ rec.members[i].generation = rec.members[j].generation
         /\ rec.members[i].generation > 0 => Deployment[i] = Deployment[j]

(* What putting a member into the record does.                             *)
LEMMA WithMemberIs ==
  ASSUME NEW rec, RecordTyped(rec), NEW i \in Instances, NEW m \in Members
  PROVE  /\ RecordTyped(WithMember(rec, i, m))
         /\ Enrolled(WithMember(rec, i, m)) = Enrolled(rec) \cup {i}
         /\ WithMember(rec, i, m).members[i] = m
         /\ \A j \in Enrolled(rec) \ {i} : WithMember(rec, i, m).members[j] = rec.members[j]
         /\ WithMember(rec, i, m).enabled = rec.enabled
         /\ WithMember(rec, i, m).generation = rec.generation
         /\ WithMember(rec, i, m).desired = rec.desired
<1> DEFINE new == WithMember(rec, i, m)
           ms == [j \in Enrolled(rec) \cup {i} |-> IF j = i THEN m ELSE rec.members[j]]
<1>1. new = [enabled |-> rec.enabled, generation |-> rec.generation, desired |-> rec.desired,
             last |-> rec.last, members |-> ms]
  BY DEF WithMember, RecordTyped
<1>2. new.members = ms /\ Enrolled(new) = Enrolled(rec) \cup {i} /\ new.last = rec.last
  BY <1>1 DEF Enrolled
<1>3. ms \in [Enrolled(rec) \cup {i} -> Members]
  BY DEF RecordTyped
<1>4. RecordTyped(new)
  <2> HIDE DEF ms
  <2> QED
    BY <1>1, <1>2, <1>3 DEF RecordTyped
<1> HIDE DEF new
<1> QED
  BY <1>1, <1>2, <1>4 DEF new

(* Putting in a member that is not admitted keeps the record in order.     *)
LEMMA PutIdle ==
  ASSUME NEW rec, RecordOK(rec), NEW i \in Instances, NEW m \in Members,
         m.state # "admitted", m.generation <= rec.generation
  PROVE  RecordOK(WithMember(rec, i, m))
<1> DEFINE new == WithMember(rec, i, m)
<1>1. /\ RecordTyped(new) /\ Enrolled(new) = Enrolled(rec) \cup {i} /\ new.members[i] = m
      /\ \A j \in Enrolled(rec) \ {i} : new.members[j] = rec.members[j]
      /\ new.enabled = rec.enabled /\ new.generation = rec.generation /\ new.desired = rec.desired
  BY WithMemberIs DEF RecordOK
<1> HIDE DEF new
<1>2. \A j \in Instances : Admitted(new, j) => Admitted(rec, j) /\ new.members[j] = rec.members[j]
  BY <1>1 DEF Admitted
<1> QED
  BY <1>1, <1>2 DEF RecordOK, new

(* register() enrols the process as drained.                               *)
LEMMA RegisterKeeps ==
  ASSUME NEW rec, RecordOK(rec), NEW i \in Instances
  PROVE  /\ RecordOK(Register(rec, i))
         /\ \A j \in Enrolled(rec) : j \in Enrolled(Register(rec, i))
                                       /\ Register(rec, i).members[j] = rec.members[j]
<1> DEFINE m == [generation |-> rec.generation, state |-> "drained", retired |-> FALSE, ready |-> FALSE]
<1>1. m \in Members /\ m.state # "admitted" /\ m.generation <= rec.generation
  BY DEF Members, RecordOK, RecordTyped
<1>2. CASE i \in Enrolled(rec)
  BY <1>2 DEF Register
<1>3. CASE i \notin Enrolled(rec)
  <2>1. Register(rec, i) = WithMember(rec, i, m)
    BY <1>3 DEF Register
  <2> HIDE DEF m
  <2>2. RecordOK(WithMember(rec, i, m))
    BY <1>1, PutIdle
  <2> QED
    BY <1>1, <1>3, <2>1, <2>2, WithMemberIs DEF RecordOK
<1> QED
  BY <1>2, <1>3

(* admit() waits until nobody of another generation is admitted.           *)
LEMMA AdmitKeeps ==
  ASSUME NEW rec, RecordOK(rec), NEW i \in Instances, NEW g \in Nat, CanAdmit(rec, i, g)
  PROVE  /\ RecordOK(Admit(rec, i))
         /\ Enrolled(Admit(rec, i)) = Enrolled(rec)
         /\ Admit(rec, i).members[i] = [generation |-> g, state |-> "admitted", retired |-> FALSE,
                                        ready |-> FALSE]
         /\ \A j \in Enrolled(rec) \ {i} : Admit(rec, i).members[j] = rec.members[j]
<1> DEFINE m == [generation |-> rec.generation, state |-> "admitted", retired |-> FALSE, ready |-> FALSE]
           new == WithMember(rec, i, m)
<1>1. m \in Members /\ m.state = "admitted" /\ m.generation = rec.generation /\ ~m.retired
  BY DEF Members, RecordOK, RecordTyped
<1>2. Admit(rec, i) = new /\ rec.generation = g /\ i \in Enrolled(rec)
  BY DEF Admit, CanAdmit, Present
<1>3. /\ RecordTyped(new) /\ Enrolled(new) = Enrolled(rec) /\ new.members[i] = m
      /\ \A j \in Enrolled(rec) \ {i} : new.members[j] = rec.members[j]
      /\ new.enabled = rec.enabled /\ new.generation = rec.generation /\ new.desired = rec.desired
  <2> HIDE DEF m
  <2>1. RecordTyped(rec)
    BY DEF RecordOK
  <2>2. /\ RecordTyped(new) /\ Enrolled(new) = Enrolled(rec) \cup {i} /\ new.members[i] = m
        /\ \A j \in Enrolled(rec) \ {i} : new.members[j] = rec.members[j]
        /\ new.enabled = rec.enabled /\ new.generation = rec.generation /\ new.desired = rec.desired
    BY <1>1, <2>1, WithMemberIs
  <2> HIDE DEF new
  <2> QED
    BY <1>2, <2>2
<1>4. rec.enabled => rec.desired = Deployment[i] /\ Clear(rec)
  BY DEF CanAdmit, Wanted
<1>5. rec.generation \in Nat /\ \A j \in Enrolled(rec) : rec.members[j].generation \in Nat
  BY DEF RecordOK, RecordTyped, Members
<1>6. ASSUME NEW j \in Instances, Admitted(new, j), j # i
      PROVE  /\ Admitted(rec, j) /\ new.members[j] = rec.members[j]
             /\ rec.members[j].generation = rec.generation
  <2>1. Admitted(rec, j) /\ new.members[j] = rec.members[j]
    BY <1>3, <1>6, ZenonT(40) DEF Admitted
  <2>2. CASE rec.enabled
    BY <1>4, <2>1, <2>2 DEF Clear, Admitted
  <2>3. CASE ~rec.enabled
    BY <1>5, <2>1, <2>3 DEF RecordOK, Admitted
  <2> QED
    BY <2>1, <2>2, <2>3 DEF RecordOK, RecordTyped
<1>7. RecordOK(new)
  <2> HIDE DEF m, new
  <2>1. \A j \in Instances : Admitted(new, j) =>
          /\ new.members[j].generation = new.generation /\ ~new.members[j].retired
          /\ new.enabled => Deployment[j] = new.desired
    BY <1>1, <1>3, <1>4, <1>6 DEF RecordOK
  <2>2. \A j \in Enrolled(new) : new.members[j].generation <= new.generation
    BY <1>1, <1>3, <1>5 DEF RecordOK
  <2>3. new.enabled <=> new.generation > 0
    BY <1>3 DEF RecordOK
  <2>4. ASSUME NEW j \in Instances, NEW k \in Instances, Admitted(new, j), Admitted(new, k)
        PROVE  /\ new.members[j].generation = new.members[k].generation
               /\ new.members[j].generation > 0 => Deployment[j] = Deployment[k]
    <3>1. new.members[j].generation = new.generation /\ new.members[k].generation = new.generation
      BY <2>1, <2>4
    <3>2. CASE new.enabled
      BY <2>1, <2>4, <3>1, <3>2
    <3>3. CASE ~new.enabled
      BY <2>3, <3>1, <3>3
    <3> QED
      BY <3>2, <3>3
  <2>5. RecordTyped(new)
    BY <1>3
  <2> QED
    BY <2>1, <2>2, <2>3, <2>4, <2>5 DEF RecordOK
<1> QED
  BY <1>2, <1>3, <1>7, ZenonT(40)

(* A process is on record as admitted in a generation.                     *)
Holds(rec, i, g) ==
    i \in Present(rec) /\ rec.members[i].state = "admitted" /\ rec.members[i].generation = g

(* markReady() and acknowledge() put the member back in its generation,    *)
(* never more admitted than it was.                                        *)
LEMMA PutBack ==
  ASSUME NEW rec, RecordOK(rec), NEW i \in Enrolled(rec), NEW m \in Members,
         m.generation = rec.members[i].generation, m.retired = rec.members[i].retired,
         m.state = "admitted" => rec.members[i].state = "admitted"
  PROVE  /\ RecordOK(WithMember(rec, i, m))
         /\ \A j, g : j # i /\ Holds(rec, j, g) => Holds(WithMember(rec, i, m), j, g)
         /\ m.state = "admitted" => \A g : Holds(rec, i, g) => Holds(WithMember(rec, i, m), i, g)
<1> DEFINE new == WithMember(rec, i, m)
<1>1. i \in Instances /\ RecordTyped(rec)
  BY DEF RecordOK, RecordTyped
<1>2. /\ RecordTyped(new) /\ Enrolled(new) = Enrolled(rec) \cup {i} /\ new.members[i] = m
      /\ \A j \in Enrolled(rec) \ {i} : new.members[j] = rec.members[j]
      /\ new.enabled = rec.enabled /\ new.generation = rec.generation /\ new.desired = rec.desired
  BY <1>1, WithMemberIs
<1> HIDE DEF new
<1>3. \A j \in Enrolled(new) : /\ j \in Enrolled(rec)
                               /\ new.members[j].generation = rec.members[j].generation
                               /\ new.members[j].retired = rec.members[j].retired
                               /\ Admitted(new, j) => Admitted(rec, j)
  BY <1>2 DEF Admitted
<1>4. RecordOK(new)
  BY <1>2, <1>3 DEF RecordOK, Admitted
<1>5. \A j, g : j # i /\ Holds(rec, j, g) => Holds(new, j, g)
  BY <1>2 DEF Holds, Present
<1>6. m.state = "admitted" => \A g : Holds(rec, i, g) => Holds(new, i, g)
  BY <1>2 DEF Holds, Present
<1> QED
  BY <1>4, <1>5, <1>6 DEF new

(* markReady() changes nobody's admission.                                 *)
LEMMA MarkReadyKeeps ==
  ASSUME NEW rec, RecordOK(rec), NEW i \in Present(rec)
  PROVE  /\ RecordOK(MarkReady(rec, i))
         /\ \A j, g : Holds(rec, j, g) => Holds(MarkReady(rec, i), j, g)
<1> DEFINE m == [rec.members[i] EXCEPT !.ready = TRUE]
<1>1. i \in Enrolled(rec) /\ rec.members[i] \in Members
  BY DEF Present, RecordOK, RecordTyped
<1>2. /\ m \in Members /\ m.generation = rec.members[i].generation
      /\ m.retired = rec.members[i].retired /\ m.state = rec.members[i].state
  BY <1>1, ZenonT(40) DEF Members
<1>3. MarkReady(rec, i) = WithMember(rec, i, m)
  BY DEF MarkReady
<1> HIDE DEF m
<1>4. RecordOK(WithMember(rec, i, m)) /\ \A j, g : j # i /\ Holds(rec, j, g) => Holds(WithMember(rec, i, m), j, g)
  BY <1>1, <1>2, PutBack
<1>5. \A g : Holds(rec, i, g) => Holds(WithMember(rec, i, m), i, g)
  BY <1>1, <1>2, PutBack DEF Holds
<1> QED
  BY <1>3, <1>4, <1>5

(* acknowledge() changes no other process's admission, and drained() not   *)
(* even the process's own, which it finds given up.                        *)
LEMMA AcknowledgeKeeps ==
  ASSUME NEW rec, RecordOK(rec), NEW i \in Instances, NEW next \in {"relinquished", "drained"}, NEW g0,
         CanAcknowledge(rec, i, g0, next)
  PROVE  /\ RecordOK(Acknowledge(rec, i, next))
         /\ \A j, g : j # i \/ next = "drained" => (Holds(rec, j, g) => Holds(Acknowledge(rec, i, next), j, g))
<1> DEFINE m == [rec.members[i] EXCEPT !.state = next, !.ready = FALSE]
<1>1. i \in Enrolled(rec) /\ rec.members[i] \in Members
  BY DEF CanAcknowledge, Present, RecordOK, RecordTyped
<1>2. CASE rec.members[i].state \in {"drained", next}
  BY <1>2 DEF Acknowledge
<1>3. CASE rec.members[i].state \notin {"drained", next}
  <2>1. Acknowledge(rec, i, next) = WithMember(rec, i, m)
    BY <1>3 DEF Acknowledge
  <2>2. /\ m \in Members /\ m.generation = rec.members[i].generation
        /\ m.retired = rec.members[i].retired /\ m.state # "admitted"
    BY <1>1, ZenonT(40) DEF Members
  <2> HIDE DEF m
  <2>3. RecordOK(WithMember(rec, i, m)) /\ \A j, g : j # i /\ Holds(rec, j, g) => Holds(WithMember(rec, i, m), j, g)
    BY <1>1, <2>2, PutBack
  <2>4. next = "drained" => \A g : ~Holds(rec, i, g)
    BY DEF CanAcknowledge, Holds
  <2> QED
    BY <2>1, <2>3, <2>4
<1> QED
  BY <1>2, <1>3

(* A transition leaves the members alone: it only makes their generation   *)
(* an earlier one.                                                         *)
LEMMA TransitionKeeps ==
  ASSUME NEW rec, RecordOK(rec), NEW q, rec.generation < MaxGeneration, CanTransition(rec, q),
         q.desired \in Deployments \cup {NoDeployment}
  PROVE  /\ RecordOK(Transition(rec, q))
         /\ \A j, g : Holds(rec, j, g) => Holds(Transition(rec, q), j, g)
<1> DEFINE new == [rec EXCEPT !.enabled = TRUE, !.generation = @ + 1, !.desired = q.desired, !.last = q]
<1>1. CASE Replayed(rec, q)
  BY <1>1 DEF Transition
<1>2. CASE ~Replayed(rec, q)
  <2>1. Transition(rec, q) = new
    BY <1>2 DEF Transition
  <2>2. rec.generation \in Nat /\ rec.generation + 1 \in 0 .. MaxGeneration
    BY OwnershipAssumption DEF RecordOK, RecordTyped
  <2>3. /\ new.enabled = TRUE /\ new.generation = rec.generation + 1
        /\ new.desired = q.desired /\ new.members = rec.members /\ Enrolled(new) = Enrolled(rec)
        /\ RecordTyped(new)
    BY <2>2, ZenonT(40) DEF RecordOK, RecordTyped, Enrolled
  <2> HIDE DEF new
  <2>4. \A j \in Enrolled(rec) : rec.members[j].generation \in Nat
    BY DEF RecordOK, RecordTyped, Members
  <2>5. RecordOK(new)
    BY <2>2, <2>3, <2>4 DEF RecordOK, Admitted
  <2>6. \A j, g : Holds(rec, j, g) => Holds(new, j, g)
    BY <2>3 DEF Holds, Present
  <2> QED
    BY <2>1, <2>5, <2>6
<1> QED
  BY <1>1, <1>2

(* A retirement takes the admission of the processes that are gone.        *)
LEMMA RetireKeeps ==
  ASSUME NEW rec, RecordOK(rec), NEW q, CanRetire(rec, q)
  PROVE  /\ RecordOK(Retire(rec, q))
         /\ \A j, g : (~\E p \in q.gone : p.instance = j) /\ Holds(rec, j, g) => Holds(Retire(rec, q), j, g)
<1> DEFINE out(i) == [rec.members[i] EXCEPT !.state = "drained", !.retired = TRUE, !.ready = FALSE]
           gone(i) == \E p \in q.gone : p.instance = i
           ms == [i \in Enrolled(rec) |-> IF gone(i) THEN out(i) ELSE rec.members[i]]
           new == [rec EXCEPT !.last = q, !.members = ms]
<1>1. CASE Replayed(rec, q)
  BY <1>1 DEF Retire
<1>2. CASE ~Replayed(rec, q)
  <2>1. Retire(rec, q) = new
    BY <1>2 DEF Retire
  <2>2. ASSUME NEW i \in Enrolled(rec)
        PROVE  /\ out(i) \in Members /\ out(i).generation = rec.members[i].generation
               /\ out(i).state = "drained"
    <3>1. rec.members[i] \in Members
      BY DEF RecordOK, RecordTyped
    <3> QED
      BY <3>1, ZenonT(40) DEF Members
  <2> HIDE DEF out, gone
  <2>3. ms \in [Enrolled(rec) -> Members]
    BY <2>2 DEF RecordOK, RecordTyped
  <2>4. \A i \in Enrolled(rec) : ms[i] = IF gone(i) THEN out(i) ELSE rec.members[i]
    OBVIOUS
  <2> HIDE DEF ms
  <2>5. /\ new.enabled = rec.enabled /\ new.generation = rec.generation /\ new.desired = rec.desired
        /\ new.members = ms /\ Enrolled(new) = Enrolled(rec) /\ RecordTyped(new)
    BY <2>3, ZenonT(40) DEF RecordOK, RecordTyped, Enrolled
  <2> HIDE DEF new
  <2>6. \A i \in Instances : Admitted(new, i) => Admitted(rec, i) /\ new.members[i] = rec.members[i]
    BY <2>2, <2>4, <2>5 DEF Admitted
  <2>7. \A i \in Enrolled(new) : new.members[i].generation = rec.members[i].generation
    BY <2>2, <2>4, <2>5
  <2>8. RecordOK(new)
    BY <2>5, <2>6, <2>7 DEF RecordOK
  <2>9. \A j, g : ~gone(j) /\ Holds(rec, j, g) => Holds(new, j, g)
    BY <2>4, <2>5 DEF Holds, Present
  <2> QED
    BY <2>1, <2>8, <2>9 DEF gone
<1> QED
  BY <1>1, <1>2

(* ---- the processes ---------------------------------------------------- *)

(* A process that is not up has no admission and no work; an activation    *)
(* that is not aborted, and a claim under way, are of an admission the     *)
(* record holds; the record is asked for an admission only without one;    *)
(* and release() has aborted the activation, and seen the last claim come  *)
(* back, before it tells the record.                                       *)
ProcessOK(i) ==
    /\ life[i] # "up" => ctl[i].admission = NoAdmission /\ work[i] = "none"
    /\ ctl[i].admission # NoAdmission /\ ~ctl[i].aborted => Holds(own, i, ctl[i].admission)
    /\ work[i] = "claiming" => /\ ctl[i].admission # NoAdmission /\ pc[i] # "relinquished"
                               /\ Holds(own, i, ctl[i].admission)
    /\ pc[i] = "admit" => ctl[i].admission = NoAdmission
    /\ pc[i] \in {"relinquish", "relinquished"} => ctl[i].aborted

ControllerOK == \A i \in Instances : ProcessOK(i)

ProcessesTyped ==
    /\ life \in [Instances -> {"new", "up", "down"}]
    /\ ctl \in [Instances -> Controls]
    /\ pc \in [Instances -> Places]
    /\ drains \in [Instances -> SUBSET Drains]
    /\ work \in [Instances -> {"none", "claiming", "running"}]
    /\ faults \in 0 .. MaxFaults

(* The inductive invariant.                                                *)
IInv == RecordOK(own) /\ ProcessesTyped /\ ControllerOK

(* Everything about a process but the record.                              *)
Same(j) == life'[j] = life[j] /\ ctl'[j] = ctl[j] /\ pc'[j] = pc[j] /\ work'[j] = work[j]

(* A step of one process leaves the others as they were, provided that the *)
(* record keeps their admissions.                                          *)
LEMMA OthersKept ==
  ASSUME NEW i \in Instances, ControllerOK,
         \A j \in Instances \ {i} : Same(j) /\ \A g : Holds(own, j, g) => Holds(own', j, g),
         ProcessOK(i)'
  PROVE  ControllerOK'
<1> SUFFICES ASSUME NEW j \in Instances \ {i} PROVE ProcessOK(j)'
  BY DEF ControllerOK
<1>1. ProcessOK(j) /\ Same(j) /\ \A g : Holds(own, j, g) => Holds(own', j, g)
  BY DEF ControllerOK
<1> QED
  BY <1>1 DEF ProcessOK, Same

(* What fence(), a renewal and a new activation do to the variables.       *)
LEMMA FencedIs ==
  ASSUME NEW c \in Controls
  PROVE  Fenced(c) \in Controls /\ Fenced(c).aborted /\ Fenced(c).admission = c.admission
BY ZenonT(40) DEF Controls, Fenced

LEMMA RenewedIs ==
  ASSUME NEW c \in Controls
  PROVE  Renewed(c) \in Controls /\ Renewed(c).aborted = c.aborted /\ Renewed(c).admission = c.admission
BY ZenonT(40) DEF Controls, Renewed

LEMMA ActivatedIs ==
  ASSUME NEW c \in Controls
  PROVE  /\ Activated(c) \in Controls /\ ~Activated(c).aborted
         /\ Activated(c).admission = c.seen /\ c.seen # NoAdmission
<1>1. c.seen \in 0 .. NoAdmission /\ c.seen # NoAdmission
  BY OwnershipAssumption DEF Controls, NoAdmission
<1>2. c.epoch + 1 \in Nat
  BY DEF Controls
<1> DEFINE r == IF c.refresh = "none" THEN "none" ELSE "stale"
           a == [c EXCEPT !.admission = c.seen, !.epoch = @ + 1, !.aborted = FALSE, !.refresh = r]
<1>3. r \in {"none", "renew", "fence", "stale"}
  OBVIOUS
<1>4. Activated(c) = Renewed(a)
  BY ZenonT(40) DEF Activated, Controls
<1> HIDE DEF r
<1>5. a \in Controls /\ a.aborted = FALSE /\ a.admission = c.seen
  BY <1>1, <1>2, <1>3, ZenonT(40) DEF Controls
<1> HIDE DEF a
<1> QED
  BY <1>1, <1>4, <1>5, RenewedIs

LEMMA ReleasedIs ==
  ASSUME NEW c \in Controls, NEW next \in {"idle", "admit", "caught", "exit"}
  PROVE  /\ [Fenced(c) EXCEPT !.then = next] \in Controls
         /\ [Fenced(c) EXCEPT !.then = next].aborted
         /\ [Fenced(c) EXCEPT !.then = next].admission = c.admission
<1> DEFINE f == Fenced(c)
<1>1. f \in Controls /\ f.aborted /\ f.admission = c.admission
  BY FencedIs
<1> HIDE DEF f
<1>2. /\ [f EXCEPT !.then = next] \in Controls
      /\ [f EXCEPT !.then = next].aborted /\ [f EXCEPT !.then = next].admission = f.admission
  BY <1>1, ZenonT(40) DEF Controls
<1> QED
  BY <1>1, <1>2 DEF f

(* release() aborts the activation, and keeps the admission for the record *)
(* to be told, if there is one.                                            *)
LEMMA ReleaseDoes ==
  ASSUME ProcessesTyped, NEW i \in Instances, NEW c \in Controls,
         NEW next \in {"idle", "admit", "caught", "exit"}, Release(i, c, next)
  PROVE  /\ ctl' \in [Instances -> Controls] /\ pc' \in [Instances -> Places]
         /\ ctl'[i].aborted /\ ctl'[i].admission = c.admission
         /\ pc'[i] = IF c.admission = NoAdmission THEN Resume(next) ELSE "relinquish"
         /\ \A j \in Instances \ {i} : ctl'[j] = ctl[j] /\ pc'[j] = pc[j]
<1> DEFINE d == [Fenced(c) EXCEPT !.then = next]
<1>1. d \in Controls /\ d.aborted /\ d.admission = c.admission
  BY ReleasedIs, ZenonT(40)
<1>2. Resume(next) \in Places
  BY DEF Resume, Places
<1>3. ctl' = [ctl EXCEPT ![i] = d]
  BY DEF Release
<1>4. pc' = [pc EXCEPT ![i] = IF c.admission = NoAdmission THEN Resume(next) ELSE "relinquish"]
  BY DEF Release, Goto
<1>5. "relinquish" \in Places
  BY DEF Places
<1> HIDE DEF d
<1> QED
  BY <1>1, <1>2, <1>3, <1>4, <1>5 DEF ProcessesTyped

(* A call that throws leaves the activation aborted and the admission as   *)
(* it is, and leads neither to another admission nor, at once, to telling  *)
(* the record.                                                             *)
LEMMA ThrowDoes ==
  ASSUME ProcessesTyped, NEW i \in Instances, Throw(i)
  PROVE  /\ ctl' \in [Instances -> Controls] /\ pc' \in [Instances -> Places]
         /\ ctl'[i].aborted /\ ctl'[i].admission = ctl[i].admission
         /\ pc'[i] \in {"relinquish", "idle", "exit"}
         /\ \A j \in Instances \ {i} : ctl'[j] = ctl[j] /\ pc'[j] = pc[j]
<1>1. ctl[i] \in Controls /\ ctl[i].then \in {"idle", "admit", "caught", "exit"}
  BY DEF ProcessesTyped, Controls
<1>2. CASE pc[i] = "relinquished" /\ ctl[i].then \in {"caught", "exit"}
  <2>1. Fenced(ctl[i]) \in Controls /\ Fenced(ctl[i]).aborted /\ Fenced(ctl[i]).admission = ctl[i].admission
    BY <1>1, FencedIs
  <2>2. Resume(ctl[i].then) \in {"idle", "exit"} /\ {"idle", "exit"} \subseteq Places
    BY <1>2 DEF Resume, Places
  <2>3. ctl' = [ctl EXCEPT ![i] = Fenced(ctl[i])] /\ pc' = [pc EXCEPT ![i] = Resume(ctl[i].then)]
    BY <1>2 DEF Throw, Goto, ProcessesTyped
  <2> QED
    BY <2>1, <2>2, <2>3 DEF ProcessesTyped
<1>3. CASE ~(pc[i] = "relinquished" /\ ctl[i].then \in {"caught", "exit"})
  <2>1. Release(i, ctl[i], "caught")
    BY <1>3 DEF Throw
  <2>2. Resume("caught") = "idle"
    BY DEF Resume
  <2> QED
    BY <1>1, <2>1, <2>2, ReleaseDoes
<1> QED
  BY <1>2, <1>3

(* A step of one process keeps the invariant, if it leaves the other       *)
(* processes alone and takes no admission from them.                       *)
LEMMA OneProcess ==
  ASSUME NEW i \in Instances, IInv, RecordOK(own'), ProcessesTyped',
         \A j \in Instances \ {i} : Same(j) /\ \A g : Holds(own, j, g) => Holds(own', j, g),
         ProcessOK(i)'
  PROVE  IInv'
<1>1. ControllerOK'
  BY OthersKept DEF IInv
<1> QED
  BY <1>1 DEF IInv

(* release() as a step: what it needs of the record is that no admission   *)
(* is lost, but its own when no claim is under way.                        *)
LEMMA ReleaseKeeps ==
  ASSUME IInv, NEW i \in Instances, NEW c \in Controls, NEW next \in {"idle", "admit", "caught", "exit"},
         Release(i, c, next), life[i] = "up", RecordOK(own'),
         \A j \in Instances \ {i} : \A g : Holds(own, j, g) => Holds(own', j, g),
         work[i] = "claiming" => /\ c.admission = ctl[i].admission
                                 /\ \A g : Holds(own, i, g) => Holds(own', i, g),
         UNCHANGED <<life, drains, work>>, faults' \in 0 .. MaxFaults
  PROVE  IInv'
<1>1. ProcessesTyped /\ ProcessOK(i)
  BY DEF IInv, ControllerOK
<1>2. /\ ctl' \in [Instances -> Controls] /\ pc' \in [Instances -> Places]
      /\ ctl'[i].aborted /\ ctl'[i].admission = c.admission
      /\ pc'[i] = IF c.admission = NoAdmission THEN Resume(next) ELSE "relinquish"
      /\ \A j \in Instances \ {i} : ctl'[j] = ctl[j] /\ pc'[j] = pc[j]
  BY <1>1, ReleaseDoes
<1>3. Resume(next) # "relinquished" /\ Resume(next) # "relinquish"
  BY DEF Resume
<1>4. ProcessesTyped'
  BY <1>1, <1>2 DEF ProcessesTyped
<1>5. ProcessOK(i)'
  BY <1>1, <1>2, <1>3, ZenonT(40) DEF ProcessOK
<1>6. \A j \in Instances \ {i} : Same(j)
  BY <1>2 DEF Same
<1> QED
  BY <1>4, <1>5, <1>6, OneProcess

(* The same of a call that throws.                                         *)
LEMMA ThrowKeeps ==
  ASSUME IInv, NEW i \in Instances, Throw(i), life[i] = "up", RecordOK(own'),
         \A j \in Instances \ {i} : \A g : Holds(own, j, g) => Holds(own', j, g),
         work[i] = "claiming" => \A g : Holds(own, i, g) => Holds(own', i, g),
         UNCHANGED <<life, drains, work>>, faults' \in 0 .. MaxFaults
  PROVE  IInv'
<1>1. ProcessesTyped /\ ProcessOK(i)
  BY DEF IInv, ControllerOK
<1>2. /\ ctl' \in [Instances -> Controls] /\ pc' \in [Instances -> Places]
      /\ ctl'[i].aborted /\ ctl'[i].admission = ctl[i].admission
      /\ pc'[i] \in {"relinquish", "idle", "exit"}
      /\ \A j \in Instances \ {i} : ctl'[j] = ctl[j] /\ pc'[j] = pc[j]
  BY <1>1, ThrowDoes
<1>3. ProcessesTyped'
  BY <1>1, <1>2 DEF ProcessesTyped
<1>4. ProcessOK(i)'
  BY <1>1, <1>2, ZenonT(40) DEF ProcessOK
<1>5. \A j \in Instances \ {i} : Same(j)
  BY <1>2, ZenonT(40) DEF Same
<1> QED
  BY <1>3, <1>4, <1>5, OneProcess

(* A conflict, and a call that fails though its update may be committed.   *)
LEMMA CallKeeps ==
  ASSUME IInv, NEW i \in Instances, life[i] = "up", NEW call, NEW committed,
         Conflict(i) \/ CallFails(i, call, committed), RecordOK(committed),
         \A j \in Instances \ {i} : \A g : Holds(own, j, g) => Holds(committed, j, g),
         work[i] = "claiming" => \A g : Holds(own, i, g) => Holds(committed, i, g)
  PROVE  IInv'
<1>1. RecordOK(own) /\ faults \in 0 .. MaxFaults
  BY DEF IInv, ProcessesTyped
<1>2. CASE Conflict(i)
  <2>1. Throw(i) /\ own' = own /\ faults' = faults /\ UNCHANGED <<life, drains, work>>
    BY <1>2 DEF Conflict
  <2> QED
    BY <1>1, <2>1, ThrowKeeps
<1>3. CASE CallFails(i, call, committed)
  <2>1. Throw(i) /\ own' \in {own, committed} /\ Fault /\ UNCHANGED <<life, drains, work>>
    BY <1>3 DEF CallFails
  <2>2. faults' \in 0 .. MaxFaults
    BY <1>1, <2>1, OwnershipAssumption DEF Fault
  <2>3. RecordOK(own')
    BY <1>1, <2>1
  <2> QED
    BY <2>1, <2>2, <2>3, ThrowKeeps
<1> QED
  BY <1>2, <1>3

(* A step that leaves the record alone, other than a release or a throw.   *)
LEMMA LocalKeeps ==
  ASSUME IInv, NEW i \in Instances, own' = own, ProcessesTyped',
         \A j \in Instances \ {i} : Same(j), ProcessOK(i)'
  PROVE  IInv'
<1>1. RecordOK(own')
  BY DEF IInv
<1> QED
  BY <1>1, OneProcess

(* A step of the controller alone: the admission stays, the abortion is    *)
(* never taken back, and it goes where ProcessOK lets it.                  *)
LEMMA ControlKeeps ==
  ASSUME IInv, NEW i \in Instances, NEW c \in Controls, NEW p \in Places,
         ctl' = [ctl EXCEPT ![i] = c], pc' = [pc EXCEPT ![i] = p],
         c.admission = ctl[i].admission, ctl[i].aborted => c.aborted,
         p = "admit" => c.admission = NoAdmission,
         p \in {"relinquish", "relinquished"} => c.aborted,
         p = "relinquished" => work[i] # "claiming",
         UNCHANGED <<own, life, drains, work>>, faults' \in 0 .. MaxFaults
  PROVE  IInv'
<1>1. ProcessesTyped /\ ProcessOK(i)
  BY DEF IInv, ControllerOK
<1>2. ctl'[i] = c /\ pc'[i] = p /\ \A j \in Instances \ {i} : Same(j)
  BY <1>1 DEF ProcessesTyped, Same
<1>3. ProcessesTyped'
  BY <1>1 DEF ProcessesTyped
<1>4. ProcessOK(i)'
  BY <1>1, <1>2 DEF ProcessOK
<1> QED
  BY <1>2, <1>3, <1>4, LocalKeeps

(* The same when the controller stays where it is.                         *)
LEMMA ControlStays ==
  ASSUME IInv, NEW i \in Instances, NEW c \in Controls,
         ctl' = [ctl EXCEPT ![i] = c], pc' = pc,
         c.admission = ctl[i].admission, ctl[i].aborted => c.aborted,
         UNCHANGED <<own, life, drains, work>>, faults' \in 0 .. MaxFaults
  PROVE  IInv'
<1>1. ProcessesTyped /\ ProcessOK(i)
  BY DEF IInv, ControllerOK
<1>2. pc[i] \in Places /\ pc' = [pc EXCEPT ![i] = pc[i]]
  BY <1>1 DEF ProcessesTyped
<1>3. /\ pc[i] = "admit" => c.admission = NoAdmission
      /\ pc[i] \in {"relinquish", "relinquished"} => c.aborted
      /\ pc[i] = "relinquished" => work[i] # "claiming"
  BY <1>1 DEF ProcessOK
<1> QED
  BY <1>2, <1>3, ControlKeeps, ZenonT(40)

LEMMA PlacesAre ==
  /\ {"idle", "admit", "get", "register", "starting", "ready", "relinquished"} \subseteq Places
  /\ {"idle", "admit", "exit"} \subseteq {"idle", "admit", "caught", "exit"}
BY DEF Places

LEMMA FaultCounts == faults \in 0 .. MaxFaults /\ Fault => faults' \in 0 .. MaxFaults
BY OwnershipAssumption DEF Fault

(* A tick of the poller.                                                   *)
LEMMA Polled ==
  ASSUME IInv, NEW i \in Instances, Reconcile(i)
  PROVE  IInv'
<1> DEFINE c == ctl[i]
<1>1. ProcessesTyped /\ ProcessOK(i) /\ RecordOK(own)
  BY DEF IInv, ControllerOK
<1>2. /\ life \in [Instances -> {"new", "up", "down"}] /\ ctl \in [Instances -> Controls]
      /\ pc \in [Instances -> Places] /\ drains \in [Instances -> SUBSET Drains]
      /\ work \in [Instances -> {"none", "claiming", "running"}] /\ faults \in 0 .. MaxFaults
      /\ ctl[i] \in Controls /\ pc[i] \in Places
  BY <1>1 DEF ProcessesTyped
<1> DEFINE d == [c EXCEPT !.then = "idle"]
           p == IF c.registered THEN "get" ELSE "register"
<1>3. d \in Controls /\ d.admission = c.admission /\ d.aborted = c.aborted
  BY <1>2, ZenonT(40) DEF Controls
<1>4. ctl' = [ctl EXCEPT ![i] = d] /\ pc' = [pc EXCEPT ![i] = p] /\ UNCHANGED <<own, life, drains, work, faults>>
  BY <1>2 DEF Reconcile, Goto
<1>5. p \in Places /\ p # "admit" /\ p \notin {"relinquish", "relinquished"}
  BY PlacesAre
<1> HIDE DEF d, p
<1> QED
  BY <1>2, <1>3, <1>4, <1>5, ControlKeeps, ZenonT(40)

(* The loops are started.                                                  *)
LEMMA LoopsStarted ==
  ASSUME IInv, NEW i \in Instances, StartLoops(i)
  PROVE  IInv'
<1> DEFINE c == ctl[i]
<1>1. ProcessesTyped /\ ProcessOK(i) /\ RecordOK(own)
  BY DEF IInv, ControllerOK
<1>2. /\ life \in [Instances -> {"new", "up", "down"}] /\ ctl \in [Instances -> Controls]
      /\ pc \in [Instances -> Places] /\ drains \in [Instances -> SUBSET Drains]
      /\ work \in [Instances -> {"none", "claiming", "running"}] /\ faults \in 0 .. MaxFaults
      /\ ctl[i] \in Controls /\ pc[i] \in Places
  BY <1>1 DEF ProcessesTyped
<1> DEFINE d == [c EXCEPT !.on = ~c.aborted]
<1>3. d \in Controls /\ d.admission = c.admission /\ d.aborted = c.aborted
  BY <1>2, ZenonT(40) DEF Controls
<1>4. ctl' = [ctl EXCEPT ![i] = d] /\ pc' = [pc EXCEPT ![i] = "starting"] /\ UNCHANGED <<own, life, drains, work, faults>>
  BY <1>2 DEF StartLoops, Goto
<1> HIDE DEF d
<1> QED
  BY <1>2, PlacesAre, <1>3, <1>4, ControlKeeps, ZenonT(40)

(* The start is over.                                                      *)
LEMMA StartEnds ==
  ASSUME IInv, NEW i \in Instances, Started(i)
  PROVE  IInv'
<1> DEFINE c == ctl[i]
<1>1. ProcessesTyped /\ ProcessOK(i) /\ RecordOK(own)
  BY DEF IInv, ControllerOK
<1>2. /\ life \in [Instances -> {"new", "up", "down"}] /\ ctl \in [Instances -> Controls]
      /\ pc \in [Instances -> Places] /\ drains \in [Instances -> SUBSET Drains]
      /\ work \in [Instances -> {"none", "claiming", "running"}] /\ faults \in 0 .. MaxFaults
      /\ ctl[i] \in Controls /\ pc[i] \in Places
  BY <1>1 DEF ProcessesTyped
<1>3. CASE Release(i, c, "idle")
  <2>1. life[i] = "up" /\ UNCHANGED <<own, life, drains, work, faults>>
    BY DEF Started, At
  <2> QED
    BY <1>1, <1>2, <1>3, <2>1, ReleaseKeeps
<1>4. CASE Goto(i, "ready") /\ UNCHANGED ctl
  <2>1. ctl' = [ctl EXCEPT ![i] = c] /\ pc' = [pc EXCEPT ![i] = "ready"] /\ UNCHANGED <<own, life, drains, work, faults>>
    BY <1>2, <1>4 DEF Started, Goto
  <2> QED
    BY <1>2, PlacesAre, <2>1, ControlKeeps, ZenonT(40)
<1> QED
  BY <1>3, <1>4 DEF Started

(* No claim is under way any more.                                         *)
LEMMA Relinquishes ==
  ASSUME IInv, NEW i \in Instances, Relinquish(i)
  PROVE  IInv'
<1> DEFINE c == ctl[i]
<1>1. ProcessesTyped /\ ProcessOK(i) /\ RecordOK(own)
  BY DEF IInv, ControllerOK
<1>2. /\ life \in [Instances -> {"new", "up", "down"}] /\ ctl \in [Instances -> Controls]
      /\ pc \in [Instances -> Places] /\ drains \in [Instances -> SUBSET Drains]
      /\ work \in [Instances -> {"none", "claiming", "running"}] /\ faults \in 0 .. MaxFaults
      /\ ctl[i] \in Controls /\ pc[i] \in Places
  BY <1>1 DEF ProcessesTyped
<1>3. /\ ctl' = [ctl EXCEPT ![i] = c] /\ pc' = [pc EXCEPT ![i] = "relinquished"]
      /\ UNCHANGED <<own, life, drains, work, faults>> /\ work[i] # "claiming" /\ pc[i] = "relinquish"
  BY <1>2 DEF Relinquish, Goto, At
<1>4. c.aborted
  BY <1>1, <1>3 DEF ProcessOK
<1> QED
  BY <1>2, PlacesAre, <1>3, <1>4, ControlKeeps, ZenonT(40)

(* stop() releases the admission.                                          *)
LEMMA StopReleases ==
  ASSUME IInv, NEW i \in Instances, StopRelease(i)
  PROVE  IInv'
<1> DEFINE c == ctl[i]
<1>1. ProcessesTyped /\ ProcessOK(i) /\ RecordOK(own)
  BY DEF IInv, ControllerOK
<1>2. /\ life \in [Instances -> {"new", "up", "down"}] /\ ctl \in [Instances -> Controls]
      /\ pc \in [Instances -> Places] /\ drains \in [Instances -> SUBSET Drains]
      /\ work \in [Instances -> {"none", "claiming", "running"}] /\ faults \in 0 .. MaxFaults
      /\ ctl[i] \in Controls /\ pc[i] \in Places
  BY <1>1 DEF ProcessesTyped
<1>3. Release(i, c, "exit") /\ life[i] = "up" /\ UNCHANGED <<own, life, drains, work, faults>>
  BY DEF StopRelease, At
<1> QED
  BY <1>1, <1>2, <1>3, ReleaseKeeps

(* A start fails.                                                          *)
LEMMA StartThrows ==
  ASSUME IInv, NEW i \in Instances, StartFails(i)
  PROVE  IInv'
<1>1. ProcessesTyped /\ ProcessOK(i) /\ RecordOK(own)
  BY DEF IInv, ControllerOK
<1>2. /\ life \in [Instances -> {"new", "up", "down"}] /\ ctl \in [Instances -> Controls]
      /\ pc \in [Instances -> Places] /\ drains \in [Instances -> SUBSET Drains]
      /\ work \in [Instances -> {"none", "claiming", "running"}] /\ faults \in 0 .. MaxFaults
      /\ ctl[i] \in Controls /\ pc[i] \in Places
  BY <1>1 DEF ProcessesTyped
<1>3. Throw(i) /\ life[i] = "up" /\ Fault /\ UNCHANGED <<own, life, drains, work>>
  BY DEF StartFails, At
<1> QED
  BY <1>1, <1>2, <1>3, FaultCounts, ThrowKeeps

(* The record is read while a start is pending.                            *)
LEMMA RefreshReads ==
  ASSUME IInv, NEW i \in Instances, RefreshRead(i)
  PROVE  IInv'
<1> DEFINE c == ctl[i]
<1>1. ProcessesTyped /\ ProcessOK(i) /\ RecordOK(own)
  BY DEF IInv, ControllerOK
<1>2. /\ life \in [Instances -> {"new", "up", "down"}] /\ ctl \in [Instances -> Controls]
      /\ pc \in [Instances -> Places] /\ drains \in [Instances -> SUBSET Drains]
      /\ work \in [Instances -> {"none", "claiming", "running"}] /\ faults \in 0 .. MaxFaults
      /\ ctl[i] \in Controls /\ pc[i] \in Places
  BY <1>1 DEF ProcessesTyped
<1>3. PICK r \in {"renew", "fence"} :
        ctl' = [ctl EXCEPT ![i].refresh = r] /\ (Fault \/ faults' = faults) /\ UNCHANGED <<own, life, pc, drains, work>>
  BY DEF RefreshRead
<1> DEFINE d == [c EXCEPT !.refresh = r]
<1>4. d \in Controls /\ d.admission = c.admission /\ d.aborted = c.aborted
  BY <1>2, ZenonT(40) DEF Controls
<1>5. ctl' = [ctl EXCEPT ![i] = d]
  BY <1>2, <1>3
<1> HIDE DEF d
<1> QED
  BY <1>2, FaultCounts, <1>3, <1>4, <1>5, ControlStays, ZenonT(120)

(* What was read is applied.                                               *)
LEMMA RefreshApplies ==
  ASSUME IInv, NEW i \in Instances, RefreshApply(i)
  PROVE  IInv'
<1> DEFINE c == ctl[i]
<1>1. ProcessesTyped /\ ProcessOK(i) /\ RecordOK(own)
  BY DEF IInv, ControllerOK
<1>2. /\ life \in [Instances -> {"new", "up", "down"}] /\ ctl \in [Instances -> Controls]
      /\ pc \in [Instances -> Places] /\ drains \in [Instances -> SUBSET Drains]
      /\ work \in [Instances -> {"none", "claiming", "running"}] /\ faults \in 0 .. MaxFaults
      /\ ctl[i] \in Controls /\ pc[i] \in Places
  BY <1>1 DEF ProcessesTyped
<1> DEFINE d == [c EXCEPT !.refresh = "none"]
<1>3. d \in Controls /\ d.admission = c.admission /\ d.aborted = c.aborted
  BY <1>2, ZenonT(40) DEF Controls
<1>4. PICK e \in {d, Renewed(d), Fenced(d)} :
        ctl' = [ctl EXCEPT ![i] = e] /\ UNCHANGED <<own, life, pc, drains, work, faults>>
  BY ZenonT(40) DEF RefreshApply
<1> HIDE DEF d
<1>5. e \in Controls /\ e.admission = c.admission /\ (c.aborted => e.aborted)
  BY <1>3, <1>4, RenewedIs, FencedIs
<1> QED
  BY <1>2, <1>4, <1>5, ControlStays, ZenonT(40)

(* The validity watchdog fires.                                            *)
LEMMA Expires ==
  ASSUME IInv, NEW i \in Instances, Expire(i)
  PROVE  IInv'
<1> DEFINE c == ctl[i]
<1>1. ProcessesTyped /\ ProcessOK(i) /\ RecordOK(own)
  BY DEF IInv, ControllerOK
<1>2. /\ life \in [Instances -> {"new", "up", "down"}] /\ ctl \in [Instances -> Controls]
      /\ pc \in [Instances -> Places] /\ drains \in [Instances -> SUBSET Drains]
      /\ work \in [Instances -> {"none", "claiming", "running"}] /\ faults \in 0 .. MaxFaults
      /\ ctl[i] \in Controls /\ pc[i] \in Places
  BY <1>1 DEF ProcessesTyped
<1>3. ctl' = [ctl EXCEPT ![i] = Fenced(c)] /\ Fault /\ UNCHANGED <<own, life, pc, drains, work>>
  BY <1>2 DEF Expire
<1>4. Fenced(c) \in Controls /\ Fenced(c).aborted /\ Fenced(c).admission = c.admission
  BY <1>2, FencedIs
<1> QED
  BY <1>2, FaultCounts, <1>3, <1>4, ControlStays, ZenonT(40)

(* stop() fences the activation.                                           *)
LEMMA Stopped ==
  ASSUME IInv, NEW i \in Instances, Stop(i)
  PROVE  IInv'
<1> DEFINE c == ctl[i]
<1>1. ProcessesTyped /\ ProcessOK(i) /\ RecordOK(own)
  BY DEF IInv, ControllerOK
<1>2. /\ life \in [Instances -> {"new", "up", "down"}] /\ ctl \in [Instances -> Controls]
      /\ pc \in [Instances -> Places] /\ drains \in [Instances -> SUBSET Drains]
      /\ work \in [Instances -> {"none", "claiming", "running"}] /\ faults \in 0 .. MaxFaults
      /\ ctl[i] \in Controls /\ pc[i] \in Places
  BY <1>1 DEF ProcessesTyped
<1> DEFINE f == Fenced(c)
           d == [f EXCEPT !.running = FALSE]
<1>3. f \in Controls /\ f.aborted /\ f.admission = c.admission
  BY <1>2, FencedIs
<1>4. ctl' = [ctl EXCEPT ![i] = d] /\ UNCHANGED <<own, life, pc, drains, work, faults>>
  BY <1>2 DEF Stop
<1> HIDE DEF f
<1>5. d \in Controls /\ d.aborted = f.aborted /\ d.admission = f.admission
  BY <1>3, ZenonT(40) DEF Controls
<1> HIDE DEF d
<1> QED
  BY <1>2, <1>3, <1>4, <1>5, ControlStays, ZenonT(40)

(* The record is read and acted upon.                                      *)
LEMMA Looked ==
  ASSUME IInv, NEW i \in Instances, Look(i)
  PROVE  IInv'
<1> DEFINE c == ctl[i]
<1>1. ProcessesTyped /\ ProcessOK(i) /\ RecordOK(own)
  BY DEF IInv, ControllerOK
<1>2. /\ life \in [Instances -> {"new", "up", "down"}] /\ ctl \in [Instances -> Controls]
      /\ pc \in [Instances -> Places] /\ drains \in [Instances -> SUBSET Drains]
      /\ work \in [Instances -> {"none", "claiming", "running"}] /\ faults \in 0 .. MaxFaults
      /\ ctl[i] \in Controls /\ pc[i] \in Places
  BY <1>1 DEF ProcessesTyped
<1> DEFINE d == [c EXCEPT !.seen = own.generation]
<1>3. own.generation \in 0 .. MaxGeneration
  BY <1>1 DEF RecordOK, RecordTyped
<1>4. d \in Controls /\ d.admission = c.admission /\ d.aborted = c.aborted
  BY <1>2, <1>3, ZenonT(40) DEF Controls
<1>5. life[i] = "up"
  BY DEF Look, At
<1>6. CASE /\ \E next \in {"admit", "idle"} : Release(i, d, next)
           /\ UNCHANGED <<own, life, drains, work, faults>>
  <2> HIDE DEF d
  <2> QED
    BY <1>1, <1>2, <1>4, <1>5, <1>6, ReleaseKeeps
<1>7. CASE /\ c.admission = NoAdmission /\ Goto(i, "admit") /\ ctl' = [ctl EXCEPT ![i].seen = own.generation]
           /\ UNCHANGED <<own, life, drains, work, faults>>
  <2>1. ctl' = [ctl EXCEPT ![i] = d] /\ pc' = [pc EXCEPT ![i] = "admit"]
    BY <1>2, <1>7 DEF Goto
  <2> HIDE DEF d
  <2> QED
    BY <1>2, PlacesAre, <1>4, <1>7, <2>1, ControlKeeps, ZenonT(120)
<1>8. CASE Goto(i, "idle") /\ UNCHANGED <<ctl, own, life, drains, work, faults>>
  <2>1. ctl' = [ctl EXCEPT ![i] = c] /\ pc' = [pc EXCEPT ![i] = "idle"]
    BY <1>2, <1>8 DEF Goto
  <2> QED
    BY <1>2, PlacesAre, <1>8, <2>1, ControlKeeps, ZenonT(40)
<1>9. CASE /\ ctl' = [ctl EXCEPT ![i] = Renewed(@)] /\ Goto(i, "idle")
           /\ UNCHANGED <<own, life, drains, work, faults>>
  <2>1. ctl' = [ctl EXCEPT ![i] = Renewed(c)] /\ pc' = [pc EXCEPT ![i] = "idle"]
    BY <1>2, <1>9 DEF Goto
  <2>2. Renewed(c) \in Controls /\ Renewed(c).aborted = c.aborted /\ Renewed(c).admission = c.admission
    BY <1>2, RenewedIs
  <2> QED
    BY <1>2, PlacesAre, <1>9, <2>1, <2>2, ControlKeeps, ZenonT(40)
<1>10. CASE CallFails(i, "get", own)
  BY <1>1, <1>5, <1>10, CallKeeps
<1> QED
  BY <1>6, <1>7, <1>8, <1>9, <1>10 DEF Look

(* The steps of the controller that leave the record alone.                *)
LEMMA ControllerStep ==
  ASSUME IInv, NEW i \in Instances,
         \/ Reconcile(i) \/ Look(i) \/ StartLoops(i) \/ Started(i) \/ Relinquish(i) \/ StopRelease(i)
         \/ StartFails(i) \/ RefreshRead(i) \/ RefreshApply(i) \/ Expire(i) \/ Stop(i)
  PROVE  IInv'
BY Polled, LoopsStarted, StartEnds, Relinquishes, StopReleases, StartThrows, RefreshReads, RefreshApplies, Expires, Stopped, Looked

(* The process and its worker.  A claim starts only in an activation that  *)
(* is not aborted.                                                         *)
LEMMA WorkerStep ==
  ASSUME IInv, NEW i \in Instances,
         Boot(i) \/ Die(i) \/ Drained(i) \/ Claim(i) \/ Claimed(i) \/ Finish(i)
  PROVE  IInv'
<1>1. ProcessesTyped /\ ProcessOK(i)
  BY DEF IInv, ControllerOK
<1>2. /\ life \in [Instances -> {"new", "up", "down"}] /\ ctl \in [Instances -> Controls]
      /\ pc \in [Instances -> Places] /\ drains \in [Instances -> SUBSET Drains]
      /\ work \in [Instances -> {"none", "claiming", "running"}]
  BY <1>1 DEF ProcessesTyped
<1>3. own' = own /\ faults' = faults
  BY DEF Boot, Die, Drained, Claim, Claimed, Finish
<1>4. CASE Boot(i)
  <2> DEFINE c == ctl[i]
             d == [c EXCEPT !.running = TRUE]
  <2>1. d \in Controls /\ d.admission = c.admission /\ d.aborted = c.aborted
    BY <1>2, ZenonT(120) DEF Controls
  <2>2. /\ life' = [life EXCEPT ![i] = "up"] /\ ctl' = [ctl EXCEPT ![i] = d]
        /\ UNCHANGED <<pc, drains, work>> /\ life[i] = "new"
    BY <1>2, <1>4 DEF Boot
  <2> HIDE DEF d
  <2>3. ProcessesTyped'
    BY <1>1, <1>3, <2>1, <2>2 DEF ProcessesTyped
  <2>4. ProcessOK(i)'
    BY <1>1, <1>2, <1>3, <2>1, <2>2 DEF ProcessOK
  <2>5. \A j \in Instances \ {i} : Same(j)
    BY <1>2, <2>2 DEF Same
  <2> QED
    BY <1>3, <2>3, <2>4, <2>5, LocalKeeps
<1>5. CASE Die(i)
  <2>1. Booted \in Controls /\ Booted.admission = NoAdmission /\ "idle" \in Places
    BY OwnershipAssumption DEF Booted, Controls, Places, NoAdmission
  <2>2. /\ life' = [life EXCEPT ![i] = "down"] /\ ctl' = [ctl EXCEPT ![i] = Booted]
        /\ pc' = [pc EXCEPT ![i] = "idle"] /\ drains' = [drains EXCEPT ![i] = {}]
        /\ work' = [work EXCEPT ![i] = "none"]
    BY <1>5 DEF Die
  <2>3. ProcessesTyped'
    BY <1>1, <1>3, <2>1, <2>2 DEF ProcessesTyped
  <2>4. ProcessOK(i)'
    BY <1>2, <2>1, <2>2 DEF ProcessOK
  <2>5. \A j \in Instances \ {i} : Same(j)
    BY <1>2, <2>2 DEF Same
  <2> QED
    BY <1>3, <2>3, <2>4, <2>5, LocalKeeps
<1>6. CASE Drained(i)
  <2>1. UNCHANGED <<life, ctl, pc, work>>
    BY <1>6 DEF Drained
  <2>2. PICK d \in drains[i] :
          drains' = [drains EXCEPT ![i] = (@ \ {d}) \cup
              (IF ctl[i].admission = NoAdmission /\ ctl[i].epoch = d.epoch
               THEN {[d EXCEPT !.acking = TRUE]} ELSE {})]
    BY <1>6, ZenonT(40) DEF Drained
  <2>3. d \in Drains
    BY <1>2
  <2>4. [d EXCEPT !.acking = TRUE] \in Drains
    BY <2>3, ZenonT(40) DEF Drains
  <2>5. ProcessesTyped'
    BY <1>1, <1>2, <1>3, <2>1, <2>2, <2>3, <2>4, ZenonT(40) DEF ProcessesTyped
  <2>6. ProcessOK(i)' /\ \A j \in Instances \ {i} : Same(j)
    BY <1>1, <1>3, <2>1 DEF ProcessOK, Same
  <2> QED
    BY <1>3, <2>5, <2>6, LocalKeeps
<1>7. ASSUME NEW w \in {"none", "claiming", "running"}, work' = [work EXCEPT ![i] = w],
             w # "none" => life[i] = "up",
             w = "claiming" => ctl[i].admission # NoAdmission /\ ~ctl[i].aborted,
             UNCHANGED <<life, ctl, pc, drains>>
      PROVE  IInv'
  <2>1. ProcessesTyped'
    BY <1>1, <1>3, <1>7 DEF ProcessesTyped
  <2>2. ProcessOK(i)'
    BY <1>1, <1>2, <1>3, <1>7 DEF ProcessOK
  <2>3. \A j \in Instances \ {i} : Same(j)
    BY <1>2, <1>7 DEF Same
  <2> QED
    BY <1>3, <2>1, <2>2, <2>3, LocalKeeps
<1>8. CASE Claim(i)
  BY <1>7, <1>8 DEF Claim, CanClaim
<1>9. CASE Claimed(i)
  <2>1. life[i] = "up"
    BY <1>1, <1>9, ZenonT(40) DEF Claimed, ProcessOK
  <2> QED
    BY <1>7, <1>9, <2>1, ZenonT(40) DEF Claimed
<1>10. CASE Finish(i)
  BY <1>7, <1>10 DEF Finish
<1> QED
  BY <1>4, <1>5, <1>6, <1>8, <1>9, <1>10

(* The process registers.                                                  *)
LEMMA Registers ==
  ASSUME IInv, NEW i \in Instances, RegisterSelf(i)
  PROVE  IInv'
<1> DEFINE c == ctl[i]
<1>1. ProcessesTyped /\ ProcessOK(i) /\ RecordOK(own)
  BY DEF IInv, ControllerOK
<1>2. /\ life \in [Instances -> {"new", "up", "down"}] /\ ctl \in [Instances -> Controls]
      /\ pc \in [Instances -> Places] /\ drains \in [Instances -> SUBSET Drains]
      /\ work \in [Instances -> {"none", "claiming", "running"}] /\ faults \in 0 .. MaxFaults
      /\ ctl[i] \in Controls /\ pc[i] \in Places
  BY <1>1 DEF ProcessesTyped
<1> DEFINE new == Register(own, i)
<1>3. life[i] = "up"
  BY DEF RegisterSelf, At
<1>4. RecordOK(new) /\ \A j \in Enrolled(own) : j \in Enrolled(new) /\ new.members[j] = own.members[j]
  BY <1>1, RegisterKeeps
<1> HIDE DEF new
<1>5. \A j, g : Holds(own, j, g) => Holds(new, j, g)
  BY <1>4 DEF Holds, Present
<1>6. CASE /\ own' = new /\ ctl' = [ctl EXCEPT ![i].registered = TRUE] /\ Goto(i, "get")
           /\ UNCHANGED <<life, drains, work, faults>>
  <2> DEFINE d == [c EXCEPT !.registered = TRUE]
  <2>1. d \in Controls /\ d.admission = c.admission /\ d.aborted = c.aborted
    BY <1>2, ZenonT(40) DEF Controls
  <2>2. ctl' = [ctl EXCEPT ![i] = d] /\ pc' = [pc EXCEPT ![i] = "get"] /\ "get" \in Places
    BY <1>2, <1>6 DEF Goto, Places
  <2> HIDE DEF d
  <2>3. ProcessesTyped'
    BY <1>1, <1>6, <2>1, <2>2, ZenonT(40) DEF ProcessesTyped
  <2>4. ProcessOK(i)'
    BY <1>1, <1>2, <1>5, <1>6, <2>1, <2>2 DEF ProcessOK
  <2>5. \A j \in Instances \ {i} : Same(j)
    BY <1>2, <1>6, <2>2 DEF Same
  <2> QED
    BY <1>4, <1>5, <1>6, <2>3, <2>4, <2>5, OneProcess
<1>7. CASE Conflict(i)
  BY <1>1, <1>3, <1>7, CallKeeps
<1>8. CASE CallFails(i, "register", new)
  BY <1>3, <1>4, <1>5, <1>8, CallKeeps
<1>9. CASE CallFails(i, "register", own)
  BY <1>1, <1>3, <1>9, CallKeeps, ZenonT(40)
<1> QED
  BY <1>6, <1>7, <1>8, <1>9 DEF RegisterSelf, new

(* The process is admitted, unless the previous owners are still admitted. *)
LEMMA IsAdmitted ==
  ASSUME IInv, NEW i \in Instances, AdmitSelf(i)
  PROVE  IInv'
<1> DEFINE c == ctl[i]
<1>1. ProcessesTyped /\ ProcessOK(i) /\ RecordOK(own)
  BY DEF IInv, ControllerOK
<1>2. /\ life \in [Instances -> {"new", "up", "down"}] /\ ctl \in [Instances -> Controls]
      /\ pc \in [Instances -> Places] /\ drains \in [Instances -> SUBSET Drains]
      /\ work \in [Instances -> {"none", "claiming", "running"}] /\ faults \in 0 .. MaxFaults
      /\ ctl[i] \in Controls /\ pc[i] \in Places
  BY <1>1 DEF ProcessesTyped
<1> DEFINE new == Admit(own, i)
           d == Activated(c)
           m == [generation |-> c.seen, state |-> "admitted", retired |-> FALSE, ready |-> FALSE]
<1>3. life[i] = "up" /\ pc[i] = "admit"
  BY ZenonT(40) DEF AdmitSelf, At
<1>4. c.admission = NoAdmission /\ work[i] # "claiming"
  BY <1>1, <1>3, ZenonT(40) DEF ProcessOK
<1>5. c.seen \in Nat
  BY <1>2 DEF Controls
<1>6. ASSUME CanAdmit(own, i, c.seen)
      PROVE  /\ RecordOK(new) /\ Holds(new, i, c.seen)
             /\ \A j \in Instances \ {i} : \A g : Holds(own, j, g) => Holds(new, j, g)
  <2>1. /\ RecordOK(new) /\ Enrolled(new) = Enrolled(own) /\ new.members[i] = m
        /\ \A j \in Enrolled(own) \ {i} : new.members[j] = own.members[j]
    BY <1>1, <1>5, <1>6, AdmitKeeps, ZenonT(40)
  <2>2. i \in Enrolled(own)
    BY <1>6, ZenonT(40) DEF CanAdmit, Present
  <2>3. m.state = "admitted" /\ ~m.retired /\ m.generation = c.seen
    OBVIOUS
  <2> HIDE DEF new, m
  <2>4. Holds(new, i, c.seen)
    BY <2>1, <2>2, <2>3, ZenonT(40) DEF Holds, Present
  <2>5. \A j \in Instances \ {i} : \A g : Holds(own, j, g) => Holds(new, j, g)
    BY <2>1, ZenonT(40) DEF Holds, Present
  <2> QED
    BY <2>1, <2>4, <2>5, ZenonT(40)
<1>7. /\ d \in Controls /\ ~d.aborted /\ d.admission = c.seen /\ c.seen # NoAdmission
  BY <1>2, ActivatedIs, ZenonT(40)
<1> HIDE DEF new, d
<1>8. CASE CanAdmit(own, i, c.seen) /\ own' = new /\ UNCHANGED <<life, drains, work, faults>>
           /\ ctl' = [ctl EXCEPT ![i] = d] /\ Goto(i, "start")
  <2>1. pc' = [pc EXCEPT ![i] = "start"] /\ "start" \in Places
    BY <1>8 DEF Goto, Places
  <2>2. ProcessesTyped'
    BY <1>1, <1>7, <1>8, <2>1, ZenonT(40) DEF ProcessesTyped
  <2>3. ProcessOK(i)'
    BY <1>2, <1>3, <1>4, <1>6, <1>7, <1>8, <2>1, ZenonT(40) DEF ProcessOK
  <2>4. \A j \in Instances \ {i} : Same(j)
    BY <1>2, <1>8, <2>1 DEF Same
  <2> QED
    BY <1>6, <1>8, <2>2, <2>3, <2>4, OneProcess, ZenonT(40)
<1>9. CASE CanAdmit(own, i, c.seen) /\ own' = new /\ UNCHANGED <<life, drains, work, faults>>
           /\ Release(i, d, "idle")
  BY <1>2, <1>3, <1>4, <1>6, <1>7, <1>9, ReleaseKeeps, ZenonT(40)
<1>10. CASE Conflict(i)
  BY <1>1, <1>3, <1>10, CallKeeps, ZenonT(40)
<1>11. CASE CanAdmit(own, i, c.seen) /\ CallFails(i, "admit", new)
  BY <1>3, <1>4, <1>6, <1>11, CallKeeps, ZenonT(40)
<1>12. CASE CallFails(i, "admit", own)
  BY <1>1, <1>3, <1>12, CallKeeps
<1> QED
  BY <1>8, <1>9, <1>10, <1>11, <1>12 DEF AdmitSelf, new, d

(* The process is on record as ready.                                      *)
LEMMA BecomesReady ==
  ASSUME IInv, NEW i \in Instances, Ready(i)
  PROVE  IInv'
<1> DEFINE c == ctl[i]
<1>1. ProcessesTyped /\ ProcessOK(i) /\ RecordOK(own)
  BY DEF IInv, ControllerOK
<1>2. /\ life \in [Instances -> {"new", "up", "down"}] /\ ctl \in [Instances -> Controls]
      /\ pc \in [Instances -> Places] /\ drains \in [Instances -> SUBSET Drains]
      /\ work \in [Instances -> {"none", "claiming", "running"}] /\ faults \in 0 .. MaxFaults
      /\ ctl[i] \in Controls /\ pc[i] \in Places
  BY <1>1 DEF ProcessesTyped
<1> DEFINE new == MarkReady(own, i)
<1>3. life[i] = "up"
  BY ZenonT(40) DEF Ready, At
<1>4. ASSUME CanMarkReady(own, i, c.seen)
      PROVE  RecordOK(new) /\ \A j, g : Holds(own, j, g) => Holds(new, j, g)
  BY <1>1, <1>4, MarkReadyKeeps DEF CanMarkReady
<1> HIDE DEF new
<1>5. CASE CanMarkReady(own, i, c.seen) /\ own' = new /\ Goto(i, "idle") /\ UNCHANGED <<life, ctl, drains, work, faults>>
  <2>1. pc' = [pc EXCEPT ![i] = "idle"] /\ "idle" \in Places
    BY <1>5 DEF Goto, Places
  <2>2. ProcessesTyped'
    BY <1>1, <1>5, <2>1 DEF ProcessesTyped
  <2>3. ProcessOK(i)'
    BY <1>1, <1>2, <1>4, <1>5, <2>1 DEF ProcessOK
  <2>4. \A j \in Instances \ {i} : Same(j)
    BY <1>2, <1>5, <2>1 DEF Same
  <2> QED
    BY <1>4, <1>5, <2>2, <2>3, <2>4, OneProcess
<1>6. CASE Conflict(i)
  BY <1>1, <1>3, <1>6, CallKeeps
<1>7. CASE CanMarkReady(own, i, c.seen) /\ CallFails(i, "ready", new)
  BY <1>3, <1>4, <1>7, CallKeeps
<1>8. CASE CallFails(i, "ready", own)
  BY <1>1, <1>3, <1>8, CallKeeps, ZenonT(40)
<1> QED
  BY <1>5, <1>6, <1>7, <1>8 DEF Ready, new

(* The acknowledgement of a release gives up the admission, when the       *)
(* activation is aborted and no claim is under way.                        *)
LEMMA AckRelinquishes ==
  ASSUME IInv, NEW i \in Instances, AckRelinquished(i)
  PROVE  IInv'
<1> DEFINE c == ctl[i]
<1>1. ProcessesTyped /\ ProcessOK(i) /\ RecordOK(own)
  BY DEF IInv, ControllerOK
<1>2. /\ life \in [Instances -> {"new", "up", "down"}] /\ ctl \in [Instances -> Controls]
      /\ pc \in [Instances -> Places] /\ drains \in [Instances -> SUBSET Drains]
      /\ work \in [Instances -> {"none", "claiming", "running"}] /\ faults \in 0 .. MaxFaults
      /\ ctl[i] \in Controls /\ pc[i] \in Places
  BY <1>1 DEF ProcessesTyped
<1> DEFINE new == Acknowledge(own, i, "relinquished")
           may == CanAcknowledge(own, i, c.admission, "relinquished")
<1>3. life[i] = "up" /\ pc[i] = "relinquished"
  BY DEF AckRelinquished, At
<1>4. work[i] # "claiming"
  BY <1>1, <1>3, ZenonT(40) DEF ProcessOK
<1>5. ASSUME may
      PROVE  RecordOK(new) /\ \A j \in Instances \ {i} : \A g : Holds(own, j, g) => Holds(new, j, g)
  BY <1>1, <1>5, AcknowledgeKeeps
<1> HIDE DEF new
<1>6. CASE /\ may /\ own' = new /\ ctl' = [ctl EXCEPT ![i].admission = NoAdmission]
           /\ drains' = [drains EXCEPT ![i] = @ \cup
                  {[epoch |-> c.epoch, generation |-> c.admission, acking |-> FALSE]}]
           /\ Goto(i, Resume(c.then)) /\ UNCHANGED <<life, work, faults>>
  <2> DEFINE d == [c EXCEPT !.admission = NoAdmission]
             e == [epoch |-> c.epoch, generation |-> c.admission, acking |-> FALSE]
  <2>1. NoAdmission \in 0 .. NoAdmission
    BY OwnershipAssumption DEF NoAdmission
  <2>2. d \in Controls /\ d.admission = NoAdmission
    BY <1>2, <2>1, ZenonT(40) DEF Controls
  <2>3. ctl' = [ctl EXCEPT ![i] = d] /\ pc' = [pc EXCEPT ![i] = Resume(c.then)]
    BY <1>2, <1>6 DEF Goto
  <2>4. Resume(c.then) \in {"idle", "admit", "exit"} /\ {"idle", "admit", "exit"} \subseteq Places
    BY <1>2 DEF Controls, Resume, Places
  <2>5. c.admission \in 0 .. MaxGeneration
    BY <1>1, <1>6, OwnershipAssumption DEF CanAcknowledge, Present, RecordOK, RecordTyped, Members
  <2>6. e \in Drains
    BY <1>2, <2>5 DEF Drains, Controls
  <2> HIDE DEF d, e
  <2>7. drains' \in [Instances -> SUBSET Drains]
    BY <1>2, <1>6, <2>6, ZenonT(40) DEF e
  <2>8. ProcessesTyped'
    BY <1>1, <1>6, <2>2, <2>3, <2>4, <2>7 DEF ProcessesTyped
  <2>9. ProcessOK(i)'
    BY <1>2, <1>3, <1>4, <1>6, <2>2, <2>3, <2>4 DEF ProcessOK
  <2>10. \A j \in Instances \ {i} : Same(j)
    BY <1>2, <1>6, <2>3 DEF Same
  <2> QED
    BY <1>5, <1>6, <2>8, <2>9, <2>10, OneProcess
<1>7. CASE Conflict(i)
  BY <1>1, <1>3, <1>7, CallKeeps, ZenonT(40)
<1>8. CASE may /\ CallFails(i, "relinquished", new)
  BY <1>3, <1>4, <1>5, <1>8, CallKeeps, ZenonT(40)
<1>9. CASE CallFails(i, "relinquished", own)
  BY <1>1, <1>3, <1>9, CallKeeps, ZenonT(40)
<1> QED
  BY <1>6, <1>7, <1>8, <1>9 DEF AckRelinquished, new

(* The record is told that the work is over; an admission is not touched.  *)
LEMMA AckDrains ==
  ASSUME IInv, NEW i \in Instances, AckDrained(i)
  PROVE  IInv'
<1>1. ProcessesTyped /\ ProcessOK(i) /\ RecordOK(own)
  BY DEF IInv, ControllerOK
<1>2. /\ life \in [Instances -> {"new", "up", "down"}] /\ ctl \in [Instances -> Controls]
      /\ pc \in [Instances -> Places] /\ drains \in [Instances -> SUBSET Drains]
      /\ work \in [Instances -> {"none", "claiming", "running"}] /\ faults \in 0 .. MaxFaults
      /\ ctl[i] \in Controls /\ pc[i] \in Places
  BY <1>1 DEF ProcessesTyped
<1> DEFINE acked(d) == IF CanAcknowledge(own, i, d.generation, "drained")
                       THEN Acknowledge(own, i, "drained") ELSE own
<1>3. PICK d \in drains[i] : /\ own' \in {own, acked(d)} /\ (Fault \/ faults' = faults)
                             /\ drains' = [drains EXCEPT ![i] = @ \ {d}]
                             /\ UNCHANGED <<life, ctl, pc, work>>
  BY ZenonT(40) DEF AckDrained
<1>4. RecordOK(acked(d)) /\ \A j, g : Holds(own, j, g) => Holds(acked(d), j, g)
  <2>1. CASE CanAcknowledge(own, i, d.generation, "drained")
    <3>1. acked(d) = Acknowledge(own, i, "drained")
      BY <2>1
    <3> HIDE DEF acked
    <3> QED
      BY <1>1, <2>1, <3>1, AcknowledgeKeeps, ZenonT(40)
  <2>2. CASE ~CanAcknowledge(own, i, d.generation, "drained")
    BY <1>1, <2>2
  <2> QED
    BY <2>1, <2>2, ZenonT(40)
<1> HIDE DEF acked
<1>5. RecordOK(own') /\ \A j, g : Holds(own, j, g) => Holds(own', j, g)
  BY <1>1, <1>3, <1>4
<1>6. faults' \in 0 .. MaxFaults
  BY <1>2, <1>3, OwnershipAssumption DEF Fault
<1>7. ProcessesTyped'
  BY <1>1, <1>3, <1>6 DEF ProcessesTyped
<1>8. ProcessOK(i)' /\ \A j \in Instances \ {i} : Same(j)
  BY <1>1, <1>3, <1>5, ZenonT(40) DEF ProcessOK, Same
<1> QED
  BY <1>5, <1>7, <1>8, OneProcess

(* The operator retires a process that is gone.                            *)
LEMMA Retires ==
  ASSUME IInv, NEW i \in Instances, RetireDead(i)
  PROVE  IInv'
<1>1. ProcessesTyped /\ ProcessOK(i) /\ RecordOK(own)
  BY DEF IInv, ControllerOK
<1>2. /\ life \in [Instances -> {"new", "up", "down"}] /\ ctl \in [Instances -> Controls]
      /\ pc \in [Instances -> Places] /\ drains \in [Instances -> SUBSET Drains]
      /\ work \in [Instances -> {"none", "claiming", "running"}] /\ faults \in 0 .. MaxFaults
      /\ ctl[i] \in Controls /\ pc[i] \in Places
  BY <1>1 DEF ProcessesTyped
<1> DEFINE q == [id |-> <<"retire", own.generation, i>>, expected |-> own.generation,
                 gone |-> {[instance |-> i, generation |-> own.members[i].generation]}]
<1>3. /\ life[i] = "down" /\ CanRetire(own, q) /\ own' = Retire(own, q)
      /\ UNCHANGED <<life, ctl, pc, drains, work, faults>>
  BY ZenonT(40) DEF RetireDead
<1>4. \A j : j # i => ~\E p \in q.gone : p.instance = j
  OBVIOUS
<1> HIDE DEF q
<1>5. RecordOK(own') /\ \A j, g : j # i /\ Holds(own, j, g) => Holds(own', j, g)
  BY <1>1, <1>3, <1>4, RetireKeeps, ZenonT(40)
<1>6. ProcessesTyped'
  BY <1>1, <1>3 DEF ProcessesTyped
<1>7. ProcessOK(i)' /\ \A j \in Instances \ {i} : Same(j)
  BY <1>1, <1>3, ZenonT(40) DEF ProcessOK, Same
<1> QED
  BY <1>5, <1>6, <1>7, OneProcess

(* The steps that tell the record something.  Only the acknowledgement of  *)
(* a release gives up the process's own admission, and it comes when the   *)
(* activation is aborted and no claim is under way.                        *)
LEMMA RecordStep ==
  ASSUME IInv, NEW i \in Instances,
         RegisterSelf(i) \/ AdmitSelf(i) \/ Ready(i) \/ AckRelinquished(i) \/ AckDrained(i) \/ RetireDead(i)
  PROVE  IInv'
BY Registers, IsAdmitted, BecomesReady, AckRelinquishes, AckDrains, Retires

(* A hand-over changes the record, and no admission.                       *)
LEMMA HandOverStep ==
  ASSUME IInv, NEW d \in Deployments \cup {NoDeployment}, HandOver(d)
  PROVE  IInv'
<1> DEFINE q == [id |-> <<"transition", own.generation>>, expected |-> own.generation,
                 desired |-> d, after |-> {},
                 bootstrap |-> IF own.enabled THEN {} ELSE {Task[i] : i \in Present(own)}]
<1>1. /\ own.generation < MaxGeneration /\ CanTransition(own, q) /\ own' = Transition(own, q)
      /\ UNCHANGED <<life, ctl, pc, drains, work, faults>> /\ q.desired = d
  BY ZenonT(40) DEF HandOver
<1> HIDE DEF q
<1>2. RecordOK(own') /\ \A j, g : Holds(own, j, g) => Holds(own', j, g)
  BY <1>1, TransitionKeeps DEF IInv
<1>3. ProcessesTyped'
  BY <1>1 DEF IInv, ProcessesTyped
<1>4. ControllerOK'
  BY <1>1, <1>2, ZenonT(40) DEF IInv, ControllerOK, ProcessOK
<1> QED
  BY <1>2, <1>3, <1>4 DEF IInv

-----------------------------------------------------------------------------
(* The theorems.                                                           *)

LEMMA InitOK == Init => IInv
<1> SUFFICES ASSUME Init PROVE IInv
  OBVIOUS
<1>1. own = InitialRecord /\ Enrolled(own) = {} /\ own.members \in [Enrolled(own) -> Members]
  BY DEF Init, InitialRecord, Enrolled
<1>2. RecordOK(own)
  <2>1. own.enabled = FALSE /\ own.generation = 0 /\ own.generation \in 0 .. MaxGeneration
    BY <1>1, OwnershipAssumption DEF InitialRecord
  <2>2. own.desired = NoDeployment /\ own.last = NoRequest
    BY <1>1 DEF InitialRecord
  <2> DEFINE ms == own.members
             last == own.last
  <2>3. own = [enabled |-> FALSE, generation |-> 0, desired |-> NoDeployment, last |-> last, members |-> ms]
    BY <1>1, <2>2 DEF InitialRecord
  <2>4. own \in [enabled : BOOLEAN, generation : 0 .. MaxGeneration, desired : Deployments \cup {NoDeployment},
                 last : {last}, members : [Enrolled(own) -> Members]]
    <3>1. ms \in [Enrolled(own) -> Members] /\ 0 \in 0 .. MaxGeneration
      BY <1>1, <2>1
    <3> HIDE DEF ms, last
    <3> DEFINE D == Enrolled(own)
    <3>2. [enabled |-> FALSE, generation |-> 0, desired |-> NoDeployment, last |-> last, members |-> ms]
          \in [enabled : BOOLEAN, generation : 0 .. MaxGeneration, desired : Deployments \cup {NoDeployment},
               last : {last}, members : [D -> Members]]
      <4> HIDE DEF D
      <4> QED
        BY <3>1 DEF D
    <3> QED
      BY <2>3, <3>2, ZenonT(40)
  <2>5. RecordTyped(own)
    BY <1>1, <2>4 DEF RecordTyped
  <2> QED
    BY <1>1, <2>1, <2>5 DEF RecordOK, Admitted
<1>3. /\ Booted \in Controls /\ Booted.admission = NoAdmission /\ "idle" \in Places
  BY OwnershipAssumption DEF Booted, Controls, Places, NoAdmission
<1>4. ProcessesTyped
  BY <1>3, OwnershipAssumption DEF Init, ProcessesTyped
<1>5. ControllerOK
  BY <1>3 DEF Init, ControllerOK, ProcessOK
<1> QED
  BY <1>2, <1>4, <1>5 DEF IInv

LEMMA NextOK == IInv /\ [Next]_vars => IInv'
<1> SUFFICES ASSUME IInv, [Next]_vars PROVE IInv'
  OBVIOUS
<1>1. ASSUME NEW i \in Instances,
             \/ Reconcile(i) \/ Look(i) \/ StartLoops(i) \/ Started(i) \/ Relinquish(i) \/ StopRelease(i)
             \/ StartFails(i) \/ RefreshRead(i) \/ RefreshApply(i) \/ Expire(i) \/ Stop(i)
      PROVE  IInv'
  BY <1>1, ControllerStep
<1>2. ASSUME NEW i \in Instances,
             Boot(i) \/ Die(i) \/ Drained(i) \/ Claim(i) \/ Claimed(i) \/ Finish(i)
      PROVE  IInv'
  BY <1>2, WorkerStep
<1>3. ASSUME NEW i \in Instances,
             RegisterSelf(i) \/ AdmitSelf(i) \/ Ready(i) \/ AckRelinquished(i) \/ AckDrained(i) \/ RetireDead(i)
      PROVE  IInv'
  BY <1>3, RecordStep
<1>4. ASSUME NEW d \in Deployments \cup {NoDeployment}, HandOver(d) PROVE IInv'
  BY <1>4, HandOverStep
<1>5. CASE UNCHANGED vars
  BY <1>5, ZenonT(40) DEF vars, IInv, ProcessesTyped, ControllerOK, ProcessOK
<1> QED
  BY <1>1, <1>2, <1>3, <1>4, <1>5 DEF Next, Controller

(* Whoever may claim, or has a claim under way, holds its admission.       *)
LEMMA ClaimsHold ==
  ASSUME IInv, NEW i \in Instances, Claims(i)
  PROVE  Holds(own, i, ctl[i].admission)
BY ZenonT(40) DEF IInv, ControllerOK, ProcessOK, Claims, CanClaim

(* The record and the controllers' variables keep their types.             *)
THEOREM OwnershipTyped == Spec => []TypeOK
<1>1. IInv => TypeOK
  BY DEF IInv, RecordOK, RecordTyped, ProcessesTyped, TypeOK
<1> QED
  BY <1>1, InitOK, NextOK, PTL DEF Spec

(* The record never says "relinquished", "drained" or retired of a process *)
(* that may still claim (canClaim, release, acknowledge).                  *)
THEOREM ClaimsAreAdmitted == Spec => []ClaimsAdmitted
<1>1. IInv => ClaimsAdmitted
  BY ClaimsHold, ZenonT(40) DEF ClaimsAdmitted, Holds
<1> QED
  BY <1>1, InitOK, NextOK, PTL DEF Spec

(* Two processes that may claim are of one generation and, once the        *)
(* protocol is on, of one deployment, however calls fail, processes die    *)
(* and hand-overs follow each other.                                       *)
THEOREM OneOwnerHolds == Spec => []OneOwner
<1>1. ASSUME IInv, NEW i \in Instances, NEW j \in Instances, Claims(i), Claims(j)
      PROVE  /\ ctl[i].admission = ctl[j].admission
             /\ ctl[i].admission > 0 => Deployment[i] = Deployment[j]
  <2>1. Holds(own, i, ctl[i].admission) /\ Holds(own, j, ctl[j].admission)
    BY <1>1, ClaimsHold
  <2>2. /\ Admitted(own, i) /\ own.members[i].generation = ctl[i].admission
        /\ Admitted(own, j) /\ own.members[j].generation = ctl[j].admission
    BY <2>1 DEF Holds, Present, Admitted
  <2>3. RecordOK(own)
    BY <1>1 DEF IInv
  <2> QED
    BY <2>2, <2>3, ZenonT(40) DEF RecordOK
<1>2. IInv => OneOwner
  BY <1>1 DEF OneOwner
<1> QED
  BY <1>2, InitOK, NextOK, PTL DEF Spec

=============================================================================
