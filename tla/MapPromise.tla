----------------------------- MODULE MapPromise -----------------------------
(***************************************************************************)
(* What a durable map promises its callers, as createMemoryMap             *)
(* (src/persistence/durable-map.ts) gives it: every operation takes effect  *)
(* in one step between its call and its answer.  A listing (all, entries)   *)
(* may be as old as its call: it shows the map at some moment since.  A      *)
(* call may also fail, and a call that fails may have taken effect.         *)
(*                                                                         *)
(* A document is a counter, which update bumps, and a tag, which merge      *)
(* sets or removes.                                                        *)
(***************************************************************************)
EXTENDS Naturals

CONSTANTS
    Callers,     \* the calls in flight, one caller each
    Ids,         \* the ids of the map
    Tags,        \* the values of the field merge sets
    Unset,       \* the tag of a document without one
    Absent,      \* an id that has no document
    Yes, No,     \* whether a conditional write wrote
    Failed,      \* the answer of a call that threw
    MaxHits      \* update's function throws at this count

VARIABLES
    m,           \* the map
    call,        \* call[c]: the caller's call, pending or answered
    seen         \* seen[c]: the maps there were since the call began

vars == <<m, call, seen>>

Docs == [hits : 0 .. MaxHits, tag : Tags \cup {Unset}]

Results == Docs \cup {Absent, Failed, Yes, No}

Maps == [Ids -> Docs \cup {Absent}]

Reads == {"get", "select", "all"}

Writes == {"put", "putIfAbsent", "insertIfAbsent", "merge", "update", "deleteIf", "delete", "take"}

Tagless == {"get", "all", "update", "delete", "take"}

\* A call names its id and a tag: the tag of the document it puts, of the patch, or the predicate's.
Ops ==
    {op \in [kind : Reads \cup Writes, id : Ids, tag : Tags \cup {Unset}] : op.kind \in Tagless => op.tag = Unset}

Fresh(op) == [hits |-> 0, tag |-> op.tag]

Put(op, d) == [map |-> Fresh(op), res |-> Fresh(op)]

PutIfAbsent(op, d) == IF d # Absent THEN [map |-> d, res |-> d] ELSE [map |-> Fresh(op), res |-> Fresh(op)]

InsertIfAbsent(op, d) ==
    IF d # Absent THEN [map |-> d, res |-> No] ELSE [map |-> Fresh(op), res |-> Yes]

Merge(op, d) ==
    IF d = Absent THEN [map |-> d, res |-> Absent]
    ELSE LET merged == [d EXCEPT !.tag = op.tag] IN [map |-> merged, res |-> merged]

Update(op, d) ==
    IF d = Absent THEN [map |-> d, res |-> Absent]
    ELSE IF d.hits = MaxHits THEN [map |-> d, res |-> Failed]
    ELSE LET next == [d EXCEPT !.hits = d.hits + 1] IN [map |-> next, res |-> next]

DeleteIf(op, d) ==
    IF d = Absent \/ d.tag # op.tag THEN [map |-> d, res |-> No] ELSE [map |-> Absent, res |-> Yes]

Delete(op, d) == [map |-> Absent, res |-> Absent]

Take(op, d) == [map |-> Absent, res |-> d]

\* What a writing call does to its id's document, and its answer.
Outcome(op, d) ==
    CASE op.kind = "put" -> Put(op, d)
      [] op.kind = "putIfAbsent" -> PutIfAbsent(op, d)
      [] op.kind = "insertIfAbsent" -> InsertIfAbsent(op, d)
      [] op.kind = "merge" -> Merge(op, d)
      [] op.kind = "update" -> Update(op, d)
      [] op.kind = "deleteIf" -> DeleteIf(op, d)
      [] op.kind = "delete" -> Delete(op, d)
      [] op.kind = "take" -> Take(op, d)

\* What select answers: the documents of the ids whose tag is the call's.
Selected(op, map) == [i \in Ids |-> IF map[i] # Absent /\ map[i].tag = op.tag THEN map[i] ELSE Absent]

Idle == [op |-> Absent, res |-> Absent, done |-> TRUE]

Calling(op) == [op |-> op, res |-> Absent, done |-> FALSE]

Answer(c, res) == call' = [call EXCEPT ![c] = [op |-> call[c].op, res |-> res, done |-> TRUE]]

\* The map is now `map`, and every call in flight has seen it.
Becomes(map) ==
    /\ m' = map
    /\ seen' = [c \in Callers |-> seen[c] \cup {map}]

Init ==
    /\ m \in Maps
    /\ call = [c \in Callers |-> Idle]
    /\ seen = [c \in Callers |-> {}]

Call(c, op) ==
    /\ call[c].done
    /\ call' = [call EXCEPT ![c] = Calling(op)]
    /\ seen' = [seen EXCEPT ![c] = {m}]
    /\ UNCHANGED m

Write(c) ==
    /\ ~call[c].done
    /\ call[c].op.kind \in Writes
    /\ LET op == call[c].op
           out == Outcome(op, m[op.id])
       IN Becomes([m EXCEPT ![op.id] = out.map]) /\ Answer(c, out.res)

Read(c) ==
    /\ ~call[c].done
    /\ \/ call[c].op.kind = "get" /\ Answer(c, m[call[c].op.id])
       \/ call[c].op.kind = "select" /\ Answer(c, Selected(call[c].op, m))
       \/ call[c].op.kind = "all" /\ \E map \in seen[c] : Answer(c, map)
    /\ UNCHANGED <<m, seen>>

\* The call throws, before or after it took effect.
Fail(c) ==
    /\ ~call[c].done
    /\ Answer(c, Failed)
    /\ \/ UNCHANGED <<m, seen>>
       \/ /\ call[c].op.kind \in Writes
          /\ Becomes([m EXCEPT ![call[c].op.id] = Outcome(call[c].op, m[call[c].op.id]).map])

\* The process of some callers dies: their calls are over, without effect.
Drop(S) ==
    /\ call' = [c \in Callers |->
                 IF c \in S /\ ~call[c].done THEN [op |-> call[c].op, res |-> Failed, done |-> TRUE] ELSE call[c]]
    /\ UNCHANGED <<m, seen>>

Next ==
    \/ \E S \in SUBSET Callers : Drop(S)
    \/ \E c \in Callers : Write(c) \/ Read(c) \/ Fail(c) \/ \E op \in Ops : Call(c, op)

Spec == Init /\ [][Next]_vars
=============================================================================
