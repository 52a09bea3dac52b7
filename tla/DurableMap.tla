----------------------------- MODULE DurableMap -----------------------------
(***************************************************************************)
(* The Postgres durable map (src/persistence/durable-map.ts): one table of  *)
(* documents and one row that holds the table's version.  Every write is a   *)
(* transaction that first bumps the version, so the version's row lock       *)
(* makes the writers of a table take turns.  Listings are served from a      *)
(* cache each process keeps: a listing reads the version, and reads the      *)
(* table only if the cache is of another version or has aged.               *)
(*                                                                         *)
(* Processes share nothing but the database; the calls of one process share  *)
(* its cache, and interleave at every await.                               *)
(***************************************************************************)
EXTENDS Naturals, TLAPS

CONSTANTS
    Procs,       \* the processes
    Callers,     \* the calls: each is made once, so they also bound a run
    Home,        \* Home[c]: the process that makes the call
    Ids, Tags, Unset, Absent, Yes, No, Failed, MaxHits,
    Kinds        \* the operations the callers use

ASSUME HomeAssumption == Home \in [Callers -> Procs]

ASSUME MaxHitsAssumption == MaxHits \in Nat

ASSUME AbsentAssumption == Absent \notin Callers

VARIABLES
    rows,        \* the table: a document or Absent for each id
    version,     \* the committed version
    lock,        \* the caller whose transaction holds the version's row, or Absent
    call,        \* call[c]: the call, and its answer
    pc,          \* pc[c]: where the call is
    local,       \* local[c]: what a pending call holds
    cache,       \* cache[p]: the process's cached listing, or Absent
    window       \* history: the tables there were since the call began

vars == <<rows, version, lock, call, pc, local, cache, window>>

Promise == INSTANCE MapPromise WITH m <- rows, seen <- window

Docs == Promise!Docs

Maps == Promise!Maps

Ops == Promise!Ops

Writes == Promise!Writes

Reads == Promise!Reads

Nothing == [v |-> 0, table |-> Absent, res |-> Absent]

\* Every variable has a value of its type.
TypeOK ==
    /\ rows \in Maps
    /\ version \in Nat
    /\ lock \in Callers \cup {Absent}
    /\ call = [c \in Callers |-> call[c]]
    /\ \A c \in Callers : call[c].done = (pc[c] = "idle") /\ (pc[c] # "idle" => call[c].op \in Ops)
    /\ pc \in [Callers -> {"idle", "called", "bumped", "written", "checked", "fetched"}]
    /\ local \in [Callers -> [v : Nat, table : Maps \cup {Absent}, res : Promise!Results]]
    /\ \A c \in Callers : pc[c] = "written" \/ pc[c] = "fetched" => local[c].table \in Maps
    /\ cache = [p \in Procs |-> cache[p]]
    /\ \A p \in Procs : cache[p] = Absent \/ (cache[p].v \in Nat /\ cache[p].entries \in Maps)
    /\ window \in [Callers -> SUBSET Maps]

\* The table is as earlier processes left it; versions are counted from here.
Init ==
    /\ rows \in Maps
    /\ version = 0
    /\ lock = Absent
    /\ call = [c \in Callers |-> Promise!Idle]
    /\ pc = [c \in Callers |-> "idle"]
    /\ local = [c \in Callers |-> Nothing]
    /\ cache = [p \in Procs |-> Absent]
    /\ window = [c \in Callers |-> {}]

Go(c, from, to) ==
    /\ pc[c] = from
    /\ pc' = [pc EXCEPT ![c] = to]

\* The call is answered and holds nothing any more.
Answer(c, res) ==
    /\ call' = [call EXCEPT ![c] = [op |-> call[c].op, res |-> res, done |-> TRUE]]
    /\ local' = [local EXCEPT ![c] = Nothing]

Call(c, op) ==
    /\ op.kind \in Kinds
    /\ call[c].op = Absent
    /\ Go(c, "idle", "called")
    /\ call' = [call EXCEPT ![c] = Promise!Calling(op)]
    /\ window' = [window EXCEPT ![c] = {rows}]
    /\ UNCHANGED <<rows, version, lock, local, cache>>

(* ---- the statements of a write ----------------------------------------- *)

Fresh(op) == [hits |-> 0, tag |-> op.tag]

\* INSERT ... ON CONFLICT (id) DO UPDATE SET json = EXCLUDED.json
Put(op, d) == [row |-> Fresh(op), res |-> Fresh(op)]

\* INSERT ... ON CONFLICT (id) DO UPDATE SET json = the row's json RETURNING json
PutIfAbsent(op, d) == LET kept == IF d = Absent THEN Fresh(op) ELSE d IN [row |-> kept, res |-> kept]

\* INSERT ... ON CONFLICT (id) DO NOTHING, and the number of rows it inserted.
InsertIfAbsent(op, d) == [row |-> IF d = Absent THEN Fresh(op) ELSE d, res |-> IF d = Absent THEN Yes ELSE No]

\* UPDATE ... SET json = (json - removed keys) || set WHERE id RETURNING json
Merge(op, d) ==
    LET merged == IF d = Absent THEN Absent ELSE [d EXCEPT !.tag = op.tag]
    IN [row |-> merged, res |-> merged]

\* SELECT ... FOR UPDATE, the caller's function, UPDATE.  The function throws at MaxHits.
Update(op, d) ==
    LET next == IF d = Absent THEN Absent ELSE [d EXCEPT !.hits = d.hits + 1]
    IN IF d # Absent /\ d.hits = MaxHits THEN [row |-> d, res |-> Failed] ELSE [row |-> next, res |-> next]

\* SELECT ... FOR UPDATE, the caller's predicate, DELETE.
DeleteIf(op, d) ==
    LET hit == d # Absent /\ d.tag = op.tag IN [row |-> IF hit THEN Absent ELSE d, res |-> IF hit THEN Yes ELSE No]

\* DELETE ... WHERE id
Delete(op, d) == [row |-> Absent, res |-> Absent]

\* DELETE ... WHERE id RETURNING json
Take(op, d) == [row |-> Absent, res |-> d]

Statement(op, d) ==
    CASE op.kind = "put" -> Put(op, d)
      [] op.kind = "putIfAbsent" -> PutIfAbsent(op, d)
      [] op.kind = "insertIfAbsent" -> InsertIfAbsent(op, d)
      [] op.kind = "merge" -> Merge(op, d)
      [] op.kind = "update" -> Update(op, d)
      [] op.kind = "deleteIf" -> DeleteIf(op, d)
      [] op.kind = "delete" -> Delete(op, d)
      [] op.kind = "take" -> Take(op, d)

(* ---- withBump ---------------------------------------------------------- *)

\* Mutant of Bump: the version is bumped after the statement, so nothing makes the writers take turns.
BumpLast(c) ==
    /\ Go(c, "called", "bumped")
    /\ call[c].op.kind \in Writes
    /\ UNCHANGED <<rows, version, lock, call, local, cache, window>>

\* BEGIN and the bump, which waits for the version's row.
Bump(c) ==
    /\ Go(c, "called", "bumped")
    /\ call[c].op.kind \in Writes
    /\ lock = Absent
    /\ lock' = c
    /\ UNCHANGED <<rows, version, call, local, cache, window>>

\* The statement, against the committed table: nobody else writes it now.
Write(c) ==
    /\ Go(c, "bumped", "written")
    /\ LET op == call[c].op
           out == Statement(op, rows[op.id])
       IN local' = [local EXCEPT ![c] =
              [v |-> version, table |-> [rows EXCEPT ![op.id] = out.row], res |-> out.res]]
    /\ UNCHANGED <<rows, version, lock, call, cache, window>>

\* The caller's function threw.
Threw(c) == local[c].res = Failed

Install(c) ==
    /\ rows' = local[c].table
    /\ version' = version + 1
    /\ window' = [d \in Callers |-> window[d] \cup {local[c].table}]
    /\ lock' = Absent

Commit(c) ==
    /\ ~Threw(c)
    /\ Go(c, "written", "idle")
    /\ Install(c)
    /\ Answer(c, local[c].res)
    /\ UNCHANGED cache

\* COMMIT took effect and its answer was lost.
CommitUnseen(c) ==
    /\ ~Threw(c)
    /\ Go(c, "written", "idle")
    /\ Install(c)
    /\ Answer(c, Failed)
    /\ UNCHANGED cache

\* A statement failed or the caller's function threw: ROLLBACK takes the bump back too.
Rollback(c) ==
    /\ pc[c] \in {"bumped", "written"}
    /\ pc' = [pc EXCEPT ![c] = "idle"]
    /\ lock' = Absent
    /\ Answer(c, Failed)
    /\ UNCHANGED <<rows, version, cache, window>>

(* ---- reads -------------------------------------------------------------- *)

Get(c) ==
    /\ Go(c, "called", "idle")
    /\ call[c].op.kind = "get"
    /\ Answer(c, rows[call[c].op.id])
    /\ UNCHANGED <<rows, version, lock, cache, window>>

Matching(op) == [i \in Ids |-> IF rows[i] # Absent /\ rows[i].tag = op.tag THEN rows[i] ELSE Absent]

Select(c) ==
    /\ Go(c, "called", "idle")
    /\ call[c].op.kind = "select"
    /\ Answer(c, Matching(call[c].op))
    /\ UNCHANGED <<rows, version, lock, cache, window>>

\* snapshot reads the version.
ReadVersion(c) ==
    /\ Go(c, "called", "checked")
    /\ call[c].op.kind = "all"
    /\ local' = [local EXCEPT ![c] = [Nothing EXCEPT !.v = version]]
    /\ UNCHANGED <<rows, version, lock, call, cache, window>>

\* Mutant of Cached: a cache that has not aged is served without comparing versions.
CachedYoung(c) == cache[Home[c]] # Absent

Cached(c) == cache[Home[c]] # Absent /\ cache[Home[c]].v = local[c].v

Hit(c) ==
    /\ Cached(c)
    /\ Go(c, "checked", "idle")
    /\ Answer(c, cache[Home[c]].entries)
    /\ UNCHANGED <<rows, version, lock, cache, window>>

\* The database answers the SELECT.  A cache of this version is read past too: it may be too old.
Fetch(c) ==
    /\ Go(c, "checked", "fetched")
    /\ local' = [local EXCEPT ![c].table = rows]
    /\ UNCHANGED <<rows, version, lock, call, cache, window>>

\* The answer arrives: it replaces the cache, under the version read before it.
Store(c) ==
    /\ Go(c, "fetched", "idle")
    /\ cache' = [cache EXCEPT ![Home[c]] = [v |-> local[c].v, entries |-> local[c].table]]
    /\ Answer(c, local[c].table)
    /\ UNCHANGED <<rows, version, lock, window>>

\* A query of a read failed.
ReadFails(c) ==
    /\ pc[c] \in {"called", "checked"}
    /\ call[c].op.kind \in Reads
    /\ pc' = [pc EXCEPT ![c] = "idle"]
    /\ Answer(c, Failed)
    /\ UNCHANGED <<rows, version, lock, cache, window>>

\* A process dies: its cache and its calls are gone, its transactions roll back.
Crash(p) ==
    LET mine == {c \in Callers : Home[c] = p} IN
    /\ cache' = [cache EXCEPT ![p] = Absent]
    /\ lock' = IF lock \in mine THEN Absent ELSE lock
    /\ call' = [c \in Callers |->
                 IF c \in mine /\ ~call[c].done THEN [op |-> call[c].op, res |-> Failed, done |-> TRUE] ELSE call[c]]
    /\ pc' = [c \in Callers |-> IF c \in mine THEN "idle" ELSE pc[c]]
    /\ local' = [c \in Callers |-> IF c \in mine THEN Nothing ELSE local[c]]
    /\ UNCHANGED <<rows, version, window>>

Step(c) ==
    \/ Bump(c) \/ Write(c) \/ Commit(c) \/ CommitUnseen(c) \/ Rollback(c)
    \/ Get(c) \/ Select(c) \/ ReadVersion(c) \/ Hit(c) \/ Fetch(c) \/ Store(c) \/ ReadFails(c)

Next ==
    \/ \E c \in Callers : (\E op \in Ops : Call(c, op)) \/ Step(c)
    \/ \E p \in Procs : Crash(p)

Spec == Init /\ [][Next]_vars

(* ---- properties --------------------------------------------------------- *)

\* A cached listing of the current version is the current table: snapshot reads the version before
\* the table, so an entry is never stored under a version newer than it.
CacheIsHonest ==
    \A p \in Procs : cache[p] # Absent /\ cache[p].v = version => cache[p].entries = rows

\* A listing shows the table at some moment since its call, also when it was served from a cache
\* that other calls of the process filled.
ListingIsRecent ==
    \A c \in Callers :
        call[c].done /\ call[c].op # Absent /\ call[c].op.kind = "all" /\ call[c].res # Failed
            => call[c].res \in window[c]

\* The Postgres map implements what the in-memory map promises: each statement does to the table
\* what the in-memory operation does, at one moment, and no concurrent write is lost.
KeepsPromise == Promise!Spec

(* ---- proofs, for any processes, callers, ids and tags -------------------- *)
(* The invariant has two halves.  The version's row lock makes what a       *)
(* transaction staged still right when it commits.  And a listing under a    *)
(* version is the table as every call that read that version could have      *)
(* seen it, whether the listing is cached or still on its way.              *)

Transacting(c) == pc[c] \in {"bumped", "written"}

Listing(c) == pc[c] \in {"checked", "fetched"}

\* A transaction holds the lock, and what it staged is its statement on the committed table.
StagedIsCurrent ==
    \A c \in Callers :
        /\ Transacting(c) => lock = c /\ call[c].op.kind \in Writes
        /\ pc[c] = "written" =>
               LET op == call[c].op
                   out == Statement(op, rows[op.id])
               IN /\ local[c].table = [rows EXCEPT ![op.id] = out.row]
                  /\ local[c].res = out.res

\* Versions are never ahead of the table, and a pending call has seen the current table.
VersionsBehind ==
    /\ \A p \in Procs : cache[p] # Absent => cache[p].v <= version
    /\ \A c \in Callers :
        /\ Listing(c) => local[c].v <= version /\ call[c].op.kind = "all"
        /\ pc[c] # "idle" => rows \in window[c]

\* Rows that were fetched under the current version are the current rows.
FetchedIsHonest ==
    \A c \in Callers : pc[c] = "fetched" /\ local[c].v = version => local[c].table = rows

\* Whatever is kept under the version a listing read, the listing may answer with.
SharedIsRecent ==
    \A c \in Callers : Listing(c) =>
        /\ \A p \in Procs : cache[p] # Absent /\ cache[p].v = local[c].v => cache[p].entries \in window[c]
        /\ \A d \in Callers : pc[d] = "fetched" /\ local[d].v = local[c].v => local[d].table \in window[c]

IInv ==
    /\ TypeOK
    /\ StagedIsCurrent
    /\ VersionsBehind
    /\ FetchedIsHonest
    /\ SharedIsRecent
    /\ CacheIsHonest
    /\ ListingIsRecent

\* A statement leaves a document, or no document, and has an answer.
LEMMA StatementTyped ==
    ASSUME NEW op \in Ops, op.kind \in Writes, NEW d \in Docs \cup {Absent}
    PROVE  Statement(op, d).row \in Docs \cup {Absent} /\ Statement(op, d).res \in Promise!Results
<1> USE DEF Promise!Results, Docs
<1>1. op.tag \in Tags \cup {Unset}
  BY DEF Ops, Promise!Ops
<1>2. Fresh(op) \in Docs
  BY <1>1, MaxHitsAssumption DEF Fresh, Docs, Promise!Docs
<1>3. d # Absent => [d EXCEPT !.tag = op.tag] \in Docs
  BY <1>1 DEF Docs, Promise!Docs
<1>4. d # Absent /\ d.hits # MaxHits => [d EXCEPT !.hits = d.hits + 1] \in Docs
  BY MaxHitsAssumption DEF Docs, Promise!Docs
<1>5. CASE op.kind = "put"
  BY <1>5, <1>2 DEF Statement, Put
<1>6. CASE op.kind = "putIfAbsent"
  BY <1>6, <1>2 DEF Statement, PutIfAbsent
<1>7. CASE op.kind = "insertIfAbsent"
  BY <1>7, <1>2 DEF Statement, InsertIfAbsent
<1>8. CASE op.kind = "merge"
  BY <1>8, <1>3 DEF Statement, Merge
<1>9. CASE op.kind = "update"
  BY <1>9, <1>4 DEF Statement, Update
<1>10. CASE op.kind = "deleteIf"
  BY <1>10 DEF Statement, DeleteIf
<1>11. CASE op.kind = "delete"
  BY <1>11 DEF Statement, Delete
<1>12. CASE op.kind = "take"
  BY <1>12 DEF Statement, Take
<1> QED
  BY <1>5, <1>6, <1>7, <1>8, <1>9, <1>10, <1>11, <1>12 DEF Writes, Promise!Writes

\* Each SQL statement does to a document, and answers, what the in-memory operation does.
LEMMA StatementMatches ==
    ASSUME NEW op, op.kind \in Writes, NEW d
    PROVE  /\ Statement(op, d).row = Promise!Outcome(op, d).map
           /\ Statement(op, d).res = Promise!Outcome(op, d).res
<1> USE DEF Statement, Promise!Outcome
<1>1. CASE op.kind = "put"
  BY <1>1 DEF Put, Promise!Put, Fresh, Promise!Fresh
<1>2. CASE op.kind = "putIfAbsent"
  BY <1>2 DEF PutIfAbsent, Promise!PutIfAbsent, Fresh, Promise!Fresh
<1>3. CASE op.kind = "insertIfAbsent"
  BY <1>3 DEF InsertIfAbsent, Promise!InsertIfAbsent, Fresh, Promise!Fresh
<1>4. CASE op.kind = "merge"
  BY <1>4 DEF Merge, Promise!Merge
<1>5. CASE op.kind = "update"
  BY <1>5 DEF Update, Promise!Update
<1>6. CASE op.kind = "deleteIf"
  BY <1>6 DEF DeleteIf, Promise!DeleteIf
<1>7. CASE op.kind = "delete"
  BY <1>7 DEF Delete, Promise!Delete
<1>8. CASE op.kind = "take"
  BY <1>8 DEF Take, Promise!Take
<1> QED
  BY <1>1, <1>2, <1>3, <1>4, <1>5, <1>6, <1>7, <1>8, ZenonT(40) DEF Writes, Promise!Writes

\* The invariant holds before anything happens.
LEMMA InitIInv == Init => IInv
<1> SUFFICES ASSUME Init PROVE IInv
  OBVIOUS
<1>1. TypeOK
  <2>1. window \in [Callers -> SUBSET Maps] /\ rows \in Maps /\ version \in Nat /\ lock \in Callers \cup {Absent}
    BY DEF Init, Maps
  <2>2. \A c \in Callers : pc[c] = "idle" /\ call[c].done = TRUE
    BY DEF Init, Promise!Idle
  <2>3. local \in [Callers -> [v : Nat, table : Maps \cup {Absent}, res : Promise!Results]]
    BY DEF Init, Nothing, Promise!Results
  <2>4. call = [c \in Callers |-> call[c]] /\ cache = [q \in Procs |-> cache[q]] /\ \A q \in Procs : cache[q] = Absent
    BY DEF Init
  <2>5. pc \in [Callers -> {"idle", "called", "bumped", "written", "checked", "fetched"}]
    BY DEF Init
  <2> QED
    BY <2>1, <2>2, <2>3, <2>4, <2>5, ZenonT(40) DEF TypeOK
<1>2. StagedIsCurrent /\ VersionsBehind /\ FetchedIsHonest /\ SharedIsRecent /\ CacheIsHonest
  BY DEF Init, StagedIsCurrent, VersionsBehind, FetchedIsHonest, SharedIsRecent, CacheIsHonest, Transacting,
     Listing
<1>3. ListingIsRecent
  BY DEF Init, ListingIsRecent, Promise!Idle
<1> QED
  BY <1>1, <1>2, <1>3 DEF IInv

\* Every step keeps the invariant.
LEMMA NextIInv == IInv /\ [Next]_vars => IInv'
<1> SUFFICES ASSUME IInv, [Next]_vars PROVE IInv'
  OBVIOUS
<1> USE HomeAssumption, AbsentAssumption
<1>1. ASSUME NEW c \in Callers, NEW op \in Ops, Call(c, op) PROVE IInv'
  <2>1. TypeOK'
    BY <1>1, ZenonT(40) DEF IInv, TypeOK, Promise!Results, Call, Go, Promise!Calling
  <2>2. StagedIsCurrent'
    BY <1>1, ZenonT(40) DEF IInv, TypeOK, StagedIsCurrent, Transacting, Call, Go, Promise!Calling
  <2>3. VersionsBehind'
    BY <1>1 DEF IInv, TypeOK, VersionsBehind, Listing, Call, Go, Promise!Calling
  <2>4. FetchedIsHonest'
    BY <1>1 DEF IInv, TypeOK, VersionsBehind, Listing, FetchedIsHonest, Call, Go, Promise!Calling
  <2>5. SharedIsRecent'
    BY <1>1 DEF IInv, TypeOK, VersionsBehind, Listing, SharedIsRecent, FetchedIsHonest, CacheIsHonest, Call,
       Go, Promise!Calling
  <2>6. CacheIsHonest'
    BY <1>1 DEF IInv, TypeOK, VersionsBehind, Listing, CacheIsHonest, FetchedIsHonest, Call, Go, Promise!Calling
  <2>7. ListingIsRecent'
    BY <1>1 DEF IInv, TypeOK, ListingIsRecent, SharedIsRecent, Listing, VersionsBehind, Call, Go,
       Promise!Calling
  <2> QED
    BY <2>1, <2>2, <2>3, <2>4, <2>5, <2>6, <2>7 DEF IInv
<1>2. ASSUME NEW c \in Callers, Bump(c) PROVE IInv'
  <2>1. TypeOK'
    BY <1>2 DEF IInv, TypeOK, Promise!Results, Bump, Go
  <2>2. StagedIsCurrent'
    BY <1>2, ZenonT(40) DEF IInv, TypeOK, StagedIsCurrent, Transacting, Bump, Go
  <2>3. VersionsBehind'
    BY <1>2 DEF IInv, TypeOK, VersionsBehind, Listing, Bump, Go
  <2>4. FetchedIsHonest'
    BY <1>2 DEF IInv, TypeOK, VersionsBehind, Listing, FetchedIsHonest, Bump, Go
  <2>5. SharedIsRecent'
    BY <1>2 DEF IInv, TypeOK, VersionsBehind, Listing, SharedIsRecent, FetchedIsHonest, CacheIsHonest, Bump, Go
  <2>6. CacheIsHonest'
    BY <1>2 DEF IInv, TypeOK, VersionsBehind, Listing, CacheIsHonest, FetchedIsHonest, Bump, Go
  <2>7. ListingIsRecent'
    BY <1>2 DEF IInv, TypeOK, ListingIsRecent, SharedIsRecent, Listing, VersionsBehind, Bump, Go
  <2> QED
    BY <2>1, <2>2, <2>3, <2>4, <2>5, <2>6, <2>7 DEF IInv
<1>3. ASSUME NEW c \in Callers, Write(c) PROVE IInv'
  <2>1. TypeOK'
    <3> DEFINE op == call[c].op
               out == Statement(op, rows[op.id])
    <3>1. op \in Ops /\ op.kind \in Writes /\ op.id \in Ids
      BY <1>3, ZenonT(40) DEF IInv, TypeOK, StagedIsCurrent, Transacting, Write, Go, Ops, Promise!Ops
    <3>2. rows[op.id] \in Docs \cup {Absent}
      BY <3>1 DEF IInv, TypeOK, Maps, Promise!Maps, Docs
    <3>3. out.row \in Docs \cup {Absent} /\ out.res \in Promise!Results
      BY <3>1, <3>2, StatementTyped
    <3>4. [rows EXCEPT ![op.id] = out.row] \in Maps
      BY <3>1, <3>3 DEF IInv, TypeOK, Maps, Promise!Maps, Docs
    <3> HIDE DEF op, out
    <3>5. local' = [local EXCEPT ![c] = [v |-> version, table |-> [rows EXCEPT ![op.id] = out.row], res |-> out.res]]
      BY <1>3 DEF Write, op, out
    <3>6. local' \in [Callers -> [v : Nat, table : Maps \cup {Absent}, res : Promise!Results]] /\ local'[c].table \in Maps
      BY <3>3, <3>4, <3>5 DEF IInv, TypeOK
    <3>7. \A d \in Callers : pc'[d] = "written" \/ pc'[d] = "fetched" => local'[d].table \in Maps
      BY <1>3, <3>5, <3>6, ZenonT(40) DEF IInv, TypeOK, Write, Go
    <3>8. \A d \in Callers : call'[d].done = (pc'[d] = "idle") /\ (pc'[d] # "idle" => call'[d].op \in Ops)
      BY <1>3 DEF IInv, TypeOK, Write, Go
    <3> QED
      BY <1>3, <3>6, <3>7, <3>8, ZenonT(40) DEF IInv, TypeOK, Write, Go
  <2>2. StagedIsCurrent'
    BY <1>3, ZenonT(40) DEF IInv, TypeOK, StagedIsCurrent, Transacting, Write, Go
  <2>3. VersionsBehind'
    BY <1>3 DEF IInv, TypeOK, VersionsBehind, Listing, Write, Go
  <2>4. FetchedIsHonest'
    BY <1>3 DEF IInv, TypeOK, VersionsBehind, Listing, FetchedIsHonest, Write, Go
  <2>5. SharedIsRecent'
    BY <1>3, ZenonT(40) DEF IInv, TypeOK, VersionsBehind, Listing, SharedIsRecent, FetchedIsHonest, CacheIsHonest, Write, Go
  <2>6. CacheIsHonest'
    BY <1>3 DEF IInv, TypeOK, VersionsBehind, Listing, CacheIsHonest, FetchedIsHonest, Write, Go
  <2>7. ListingIsRecent'
    BY <1>3 DEF IInv, TypeOK, ListingIsRecent, SharedIsRecent, Listing, VersionsBehind, Write, Go
  <2> QED
    BY <2>1, <2>2, <2>3, <2>4, <2>5, <2>6, <2>7 DEF IInv
<1>4. ASSUME NEW c \in Callers, Commit(c) PROVE IInv'
  <2>1. TypeOK'
    <3>1. local[c].table \in Maps /\ rows' = local[c].table /\ rows' \in Maps
      BY <1>4 DEF IInv, TypeOK, Commit, Go, Install
    <3>2. window' \in [Callers -> SUBSET Maps]
      BY <1>4, <3>1 DEF IInv, TypeOK, Commit, Install
    <3>3. /\ local' \in [Callers -> [v : Nat, table : Maps \cup {Absent}, res : Promise!Results]]
          /\ \A d \in Callers : d # c => local'[d] = local[d]
      BY <1>4 DEF IInv, TypeOK, Commit, Answer, Nothing, Promise!Results
    <3>4. /\ call' = [d \in Callers |-> call'[d]]
          /\ call'[c].done = TRUE
          /\ \A d \in Callers : d # c => call'[d] = call[d]
      BY <1>4, ZenonT(40) DEF IInv, TypeOK, Commit, Answer
    <3>5. /\ pc' \in [Callers -> {"idle", "called", "bumped", "written", "checked", "fetched"}]
          /\ pc'[c] = "idle"
          /\ \A d \in Callers : d # c => pc'[d] = pc[d]
      BY <1>4 DEF IInv, TypeOK, Commit, Go
    <3>6. \A d \in Callers : call'[d].done = (pc'[d] = "idle") /\ (pc'[d] # "idle" => call'[d].op \in Ops)
      <4> TAKE d \in Callers
      <4>1. CASE d = c
        BY <3>4, <3>5, <4>1, ZenonT(40)
      <4>2. CASE d # c
        <5>1. call[d].done = (pc[d] = "idle") /\ (pc[d] # "idle" => call[d].op \in Ops)
          BY ZenonT(40) DEF IInv, TypeOK
        <5> QED  BY <3>4, <3>5, <4>2, <5>1, ZenonT(40)
      <4> QED  BY <4>1, <4>2
    <3>7. \A d \in Callers : pc'[d] = "written" \/ pc'[d] = "fetched" => local'[d].table \in Maps
      BY <3>3, <3>5 DEF IInv, TypeOK
    <3>8. version' \in Nat /\ lock' \in Callers \cup {Absent} /\ cache' = cache
      BY <1>4 DEF IInv, TypeOK, Commit, Install
    <3> QED
      BY <3>1, <3>2, <3>3, <3>4, <3>5, <3>6, <3>7, <3>8 DEF IInv, TypeOK
  <2>2. StagedIsCurrent'
    BY <1>4, ZenonT(40) DEF IInv, TypeOK, StagedIsCurrent, Transacting, Commit, Go, Install, Answer, Nothing
  <2>3. VersionsBehind'
    BY <1>4 DEF IInv, TypeOK, VersionsBehind, Listing, Commit, Go, Install, Answer, Nothing
  <2>4. FetchedIsHonest'
    BY <1>4 DEF IInv, TypeOK, VersionsBehind, Listing, FetchedIsHonest, Commit, Go, Install, Answer, Nothing
  <2>5. SharedIsRecent'
    BY <1>4 DEF IInv, TypeOK, VersionsBehind, Listing, SharedIsRecent, FetchedIsHonest, CacheIsHonest,
       Commit, Go, Install, Answer, Nothing
  <2>6. CacheIsHonest'
    BY <1>4 DEF IInv, TypeOK, VersionsBehind, Listing, CacheIsHonest, FetchedIsHonest, Commit, Go, Install,
       Answer, Nothing
  <2>7. ListingIsRecent'
    <3>1. call[c].op.kind # "all"
      BY <1>4, ZenonT(40) DEF IInv, StagedIsCurrent, Transacting, Commit, Go, Writes, Promise!Writes
    <3> QED
      BY <1>4, <3>1 DEF IInv, TypeOK, ListingIsRecent, Commit, Install, Answer
  <2> QED
    BY <2>1, <2>2, <2>3, <2>4, <2>5, <2>6, <2>7 DEF IInv
<1>5. ASSUME NEW c \in Callers, CommitUnseen(c) PROVE IInv'
  <2>1. TypeOK'
    <3>1. local[c].table \in Maps /\ rows' = local[c].table /\ rows' \in Maps
      BY <1>5 DEF IInv, TypeOK, CommitUnseen, Go, Install
    <3>2. window' \in [Callers -> SUBSET Maps]
      BY <1>5, <3>1 DEF IInv, TypeOK, CommitUnseen, Install
    <3>3. /\ local' \in [Callers -> [v : Nat, table : Maps \cup {Absent}, res : Promise!Results]]
          /\ \A d \in Callers : d # c => local'[d] = local[d]
      BY <1>5 DEF IInv, TypeOK, CommitUnseen, Answer, Nothing, Promise!Results
    <3>4. /\ call' = [d \in Callers |-> call'[d]]
          /\ call'[c].done = TRUE
          /\ \A d \in Callers : d # c => call'[d] = call[d]
      BY <1>5, ZenonT(40) DEF IInv, TypeOK, CommitUnseen, Answer
    <3>5. /\ pc' \in [Callers -> {"idle", "called", "bumped", "written", "checked", "fetched"}]
          /\ pc'[c] = "idle"
          /\ \A d \in Callers : d # c => pc'[d] = pc[d]
      BY <1>5 DEF IInv, TypeOK, CommitUnseen, Go
    <3>6. \A d \in Callers : call'[d].done = (pc'[d] = "idle") /\ (pc'[d] # "idle" => call'[d].op \in Ops)
      <4> TAKE d \in Callers
      <4>1. CASE d = c
        BY <3>4, <3>5, <4>1, ZenonT(40)
      <4>2. CASE d # c
        <5>1. call[d].done = (pc[d] = "idle") /\ (pc[d] # "idle" => call[d].op \in Ops)
          BY ZenonT(40) DEF IInv, TypeOK
        <5> QED  BY <3>4, <3>5, <4>2, <5>1, ZenonT(40)
      <4> QED  BY <4>1, <4>2
    <3>7. \A d \in Callers : pc'[d] = "written" \/ pc'[d] = "fetched" => local'[d].table \in Maps
      BY <3>3, <3>5 DEF IInv, TypeOK
    <3>8. version' \in Nat /\ lock' \in Callers \cup {Absent} /\ cache' = cache
      BY <1>5 DEF IInv, TypeOK, CommitUnseen, Install
    <3> QED
      BY <3>1, <3>2, <3>3, <3>4, <3>5, <3>6, <3>7, <3>8 DEF IInv, TypeOK
  <2>2. StagedIsCurrent'
    BY <1>5, ZenonT(40) DEF IInv, TypeOK, StagedIsCurrent, Transacting, CommitUnseen, Go, Install, Answer, Nothing
  <2>3. VersionsBehind'
    BY <1>5 DEF IInv, TypeOK, VersionsBehind, Listing, CommitUnseen, Go, Install, Answer, Nothing
  <2>4. FetchedIsHonest'
    BY <1>5 DEF IInv, TypeOK, VersionsBehind, Listing, FetchedIsHonest, CommitUnseen, Go, Install, Answer,
       Nothing
  <2>5. SharedIsRecent'
    BY <1>5 DEF IInv, TypeOK, VersionsBehind, Listing, SharedIsRecent, FetchedIsHonest, CacheIsHonest,
       CommitUnseen, Go, Install, Answer, Nothing
  <2>6. CacheIsHonest'
    BY <1>5 DEF IInv, TypeOK, VersionsBehind, Listing, CacheIsHonest, FetchedIsHonest, CommitUnseen, Go,
       Install, Answer, Nothing
  <2>7. ListingIsRecent'
    BY <1>5 DEF IInv, TypeOK, ListingIsRecent, SharedIsRecent, Listing, VersionsBehind, CommitUnseen, Go,
       Install, Answer, Nothing
  <2> QED
    BY <2>1, <2>2, <2>3, <2>4, <2>5, <2>6, <2>7 DEF IInv
<1>6. ASSUME NEW c \in Callers, Rollback(c) PROVE IInv'
  <2>1. TypeOK'
    BY <1>6, ZenonT(40) DEF IInv, TypeOK, Promise!Results, Rollback, Answer, Nothing
  <2>2. StagedIsCurrent'
    BY <1>6, ZenonT(40) DEF IInv, TypeOK, StagedIsCurrent, Transacting, Rollback, Answer, Nothing
  <2>3. VersionsBehind'
    BY <1>6 DEF IInv, TypeOK, VersionsBehind, Listing, Rollback, Answer, Nothing
  <2>4. FetchedIsHonest'
    BY <1>6 DEF IInv, TypeOK, VersionsBehind, Listing, FetchedIsHonest, Rollback, Answer, Nothing
  <2>5. SharedIsRecent'
    BY <1>6 DEF IInv, TypeOK, VersionsBehind, Listing, SharedIsRecent, FetchedIsHonest, CacheIsHonest,
       Rollback, Answer, Nothing
  <2>6. CacheIsHonest'
    BY <1>6 DEF IInv, TypeOK, VersionsBehind, Listing, CacheIsHonest, FetchedIsHonest, Rollback, Answer, Nothing
  <2>7. ListingIsRecent'
    BY <1>6 DEF IInv, TypeOK, ListingIsRecent, SharedIsRecent, Listing, VersionsBehind, Rollback, Answer,
       Nothing
  <2> QED
    BY <2>1, <2>2, <2>3, <2>4, <2>5, <2>6, <2>7 DEF IInv
<1>7. ASSUME NEW c \in Callers, Get(c) PROVE IInv'
  <2>1. TypeOK'
    BY <1>7, ZenonT(40) DEF IInv, TypeOK, Promise!Results, Get, Go, Answer, Nothing
  <2>2. StagedIsCurrent'
    BY <1>7, ZenonT(40) DEF IInv, TypeOK, StagedIsCurrent, Transacting, Get, Go, Answer, Nothing
  <2>3. VersionsBehind'
    BY <1>7 DEF IInv, TypeOK, VersionsBehind, Listing, Get, Go, Answer, Nothing
  <2>4. FetchedIsHonest'
    BY <1>7 DEF IInv, TypeOK, VersionsBehind, Listing, FetchedIsHonest, Get, Go, Answer, Nothing
  <2>5. SharedIsRecent'
    BY <1>7 DEF IInv, TypeOK, VersionsBehind, Listing, SharedIsRecent, FetchedIsHonest, CacheIsHonest, Get,
       Go, Answer, Nothing
  <2>6. CacheIsHonest'
    BY <1>7 DEF IInv, TypeOK, VersionsBehind, Listing, CacheIsHonest, FetchedIsHonest, Get, Go, Answer, Nothing
  <2>7. ListingIsRecent'
    BY <1>7 DEF IInv, TypeOK, ListingIsRecent, SharedIsRecent, Listing, VersionsBehind, Get, Go, Answer, Nothing
  <2> QED
    BY <2>1, <2>2, <2>3, <2>4, <2>5, <2>6, <2>7 DEF IInv
<1>8. ASSUME NEW c \in Callers, Select(c) PROVE IInv'
  <2>1. TypeOK'
    BY <1>8, ZenonT(40) DEF IInv, TypeOK, Promise!Results, Select, Go, Answer, Nothing
  <2>2. StagedIsCurrent'
    BY <1>8, ZenonT(40) DEF IInv, TypeOK, StagedIsCurrent, Transacting, Select, Go, Answer, Nothing
  <2>3. VersionsBehind'
    BY <1>8 DEF IInv, TypeOK, VersionsBehind, Listing, Select, Go, Answer, Nothing
  <2>4. FetchedIsHonest'
    BY <1>8 DEF IInv, TypeOK, VersionsBehind, Listing, FetchedIsHonest, Select, Go, Answer, Nothing
  <2>5. SharedIsRecent'
    BY <1>8 DEF IInv, TypeOK, VersionsBehind, Listing, SharedIsRecent, FetchedIsHonest, CacheIsHonest,
       Select, Go, Answer, Nothing
  <2>6. CacheIsHonest'
    BY <1>8 DEF IInv, TypeOK, VersionsBehind, Listing, CacheIsHonest, FetchedIsHonest, Select, Go, Answer,
       Nothing
  <2>7. ListingIsRecent'
    BY <1>8 DEF IInv, TypeOK, ListingIsRecent, SharedIsRecent, Listing, VersionsBehind, Select, Go, Answer,
       Nothing
  <2> QED
    BY <2>1, <2>2, <2>3, <2>4, <2>5, <2>6, <2>7 DEF IInv
<1>9. ASSUME NEW c \in Callers, ReadVersion(c) PROVE IInv'
  <2>1. TypeOK'
    BY <1>9 DEF IInv, TypeOK, Promise!Results, ReadVersion, Go, Nothing
  <2>2. StagedIsCurrent'
    BY <1>9, ZenonT(40) DEF IInv, TypeOK, StagedIsCurrent, Transacting, ReadVersion, Go, Nothing
  <2>3. VersionsBehind'
    BY <1>9 DEF IInv, TypeOK, VersionsBehind, Listing, ReadVersion, Go, Nothing
  <2>4. FetchedIsHonest'
    BY <1>9 DEF IInv, TypeOK, VersionsBehind, Listing, FetchedIsHonest, ReadVersion, Go, Nothing
  <2>5. SharedIsRecent'
    BY <1>9 DEF IInv, TypeOK, VersionsBehind, Listing, SharedIsRecent, FetchedIsHonest, CacheIsHonest,
       ReadVersion, Go, Nothing
  <2>6. CacheIsHonest'
    BY <1>9 DEF IInv, TypeOK, VersionsBehind, Listing, CacheIsHonest, FetchedIsHonest, ReadVersion, Go, Nothing
  <2>7. ListingIsRecent'
    BY <1>9 DEF IInv, TypeOK, ListingIsRecent, SharedIsRecent, Listing, VersionsBehind, ReadVersion, Go, Nothing
  <2> QED
    BY <2>1, <2>2, <2>3, <2>4, <2>5, <2>6, <2>7 DEF IInv
<1>10. ASSUME NEW c \in Callers, Hit(c) PROVE IInv'
  <2>1. TypeOK'
    BY <1>10, ZenonT(40) DEF IInv, TypeOK, Promise!Results, Hit, Cached, Go, Answer, Nothing
  <2>2. StagedIsCurrent'
    BY <1>10, ZenonT(40) DEF IInv, TypeOK, StagedIsCurrent, Transacting, Hit, Cached, Go, Answer, Nothing
  <2>3. VersionsBehind'
    BY <1>10 DEF IInv, TypeOK, VersionsBehind, Listing, Hit, Cached, Go, Answer, Nothing
  <2>4. FetchedIsHonest'
    BY <1>10 DEF IInv, TypeOK, VersionsBehind, Listing, FetchedIsHonest, Hit, Cached, Go, Answer, Nothing
  <2>5. SharedIsRecent'
    BY <1>10 DEF IInv, TypeOK, VersionsBehind, Listing, SharedIsRecent, FetchedIsHonest, CacheIsHonest, Hit,
       Cached, Go, Answer, Nothing
  <2>6. CacheIsHonest'
    BY <1>10 DEF IInv, TypeOK, VersionsBehind, Listing, CacheIsHonest, FetchedIsHonest, Hit, Cached, Go,
       Answer, Nothing
  <2>7. ListingIsRecent'
    BY <1>10 DEF IInv, TypeOK, ListingIsRecent, SharedIsRecent, Listing, VersionsBehind, Hit, Cached, Go,
       Answer, Nothing
  <2> QED
    BY <2>1, <2>2, <2>3, <2>4, <2>5, <2>6, <2>7 DEF IInv
<1>11. ASSUME NEW c \in Callers, Fetch(c) PROVE IInv'
  <2>1. TypeOK'
    <3>1. /\ local' \in [Callers -> [v : Nat, table : Maps \cup {Absent}, res : Promise!Results]]
          /\ local'[c].v = local[c].v /\ local'[c].table = rows
          /\ \A d \in Callers : d # c => local'[d] = local[d]
      BY <1>11 DEF IInv, TypeOK, Fetch
    <3> QED
      BY <1>11, <3>1 DEF IInv, TypeOK, Fetch, Go
  <2>2. StagedIsCurrent'
    BY <1>11, ZenonT(40) DEF IInv, TypeOK, StagedIsCurrent, Transacting, Fetch, Go
  <2>3. VersionsBehind'
    BY <1>11 DEF IInv, TypeOK, VersionsBehind, Listing, Fetch, Go
  <2>4. FetchedIsHonest'
    BY <1>11 DEF IInv, TypeOK, VersionsBehind, Listing, FetchedIsHonest, Fetch, Go
  <2>5. SharedIsRecent'
    BY <1>11 DEF IInv, TypeOK, VersionsBehind, Listing, SharedIsRecent, FetchedIsHonest, CacheIsHonest,
       Fetch, Go
  <2>6. CacheIsHonest'
    BY <1>11 DEF IInv, TypeOK, VersionsBehind, Listing, CacheIsHonest, FetchedIsHonest, Fetch, Go
  <2>7. ListingIsRecent'
    BY <1>11 DEF IInv, TypeOK, ListingIsRecent, SharedIsRecent, Listing, VersionsBehind, Fetch, Go
  <2> QED
    BY <2>1, <2>2, <2>3, <2>4, <2>5, <2>6, <2>7 DEF IInv
<1>12. ASSUME NEW c \in Callers, Store(c) PROVE IInv'
  <2>1. TypeOK'
    BY <1>12, ZenonT(40) DEF IInv, TypeOK, Promise!Results, Store, Go, Answer, Nothing
  <2>2. StagedIsCurrent'
    BY <1>12, ZenonT(40) DEF IInv, TypeOK, StagedIsCurrent, Transacting, Store, Go, Answer, Nothing
  <2>3. VersionsBehind'
    BY <1>12 DEF IInv, TypeOK, VersionsBehind, Listing, Store, Go, Answer, Nothing
  <2>4. FetchedIsHonest'
    BY <1>12 DEF IInv, TypeOK, VersionsBehind, Listing, FetchedIsHonest, Store, Go, Answer, Nothing
  <2>5. SharedIsRecent'
    BY <1>12 DEF IInv, TypeOK, VersionsBehind, Listing, SharedIsRecent, FetchedIsHonest, CacheIsHonest,
       Store, Go, Answer, Nothing
  <2>6. CacheIsHonest'
    BY <1>12 DEF IInv, TypeOK, VersionsBehind, Listing, CacheIsHonest, FetchedIsHonest, Store, Go, Answer,
       Nothing
  <2>7. ListingIsRecent'
    BY <1>12 DEF IInv, TypeOK, ListingIsRecent, SharedIsRecent, Listing, VersionsBehind, Store, Go, Answer,
       Nothing
  <2> QED
    BY <2>1, <2>2, <2>3, <2>4, <2>5, <2>6, <2>7 DEF IInv
<1>13. ASSUME NEW c \in Callers, ReadFails(c) PROVE IInv'
  <2>1. TypeOK'
    BY <1>13, ZenonT(40) DEF IInv, TypeOK, Promise!Results, ReadFails, Answer, Nothing
  <2>2. StagedIsCurrent'
    BY <1>13, ZenonT(40) DEF IInv, TypeOK, StagedIsCurrent, Transacting, ReadFails, Answer, Nothing
  <2>3. VersionsBehind'
    BY <1>13 DEF IInv, TypeOK, VersionsBehind, Listing, ReadFails, Answer, Nothing
  <2>4. FetchedIsHonest'
    BY <1>13 DEF IInv, TypeOK, VersionsBehind, Listing, FetchedIsHonest, ReadFails, Answer, Nothing
  <2>5. SharedIsRecent'
    BY <1>13 DEF IInv, TypeOK, VersionsBehind, Listing, SharedIsRecent, FetchedIsHonest, CacheIsHonest,
       ReadFails, Answer, Nothing
  <2>6. CacheIsHonest'
    BY <1>13 DEF IInv, TypeOK, VersionsBehind, Listing, CacheIsHonest, FetchedIsHonest, ReadFails, Answer,
       Nothing
  <2>7. ListingIsRecent'
    BY <1>13 DEF IInv, TypeOK, ListingIsRecent, SharedIsRecent, Listing, VersionsBehind, ReadFails, Answer,
       Nothing
  <2> QED
    BY <2>1, <2>2, <2>3, <2>4, <2>5, <2>6, <2>7 DEF IInv
<1>14. ASSUME NEW p \in Procs, Crash(p) PROVE IInv'
  <2>1. TypeOK'
    BY <1>14, ZenonT(40) DEF IInv, TypeOK, Promise!Results, Crash, Nothing
  <2>2. StagedIsCurrent'
    BY <1>14, ZenonT(40) DEF IInv, TypeOK, StagedIsCurrent, Transacting, Crash, Nothing
  <2>3. VersionsBehind'
    BY <1>14 DEF IInv, TypeOK, VersionsBehind, Listing, Crash, Nothing
  <2>4. FetchedIsHonest'
    BY <1>14 DEF IInv, TypeOK, VersionsBehind, Listing, FetchedIsHonest, Crash, Nothing
  <2>5. SharedIsRecent'
    BY <1>14 DEF IInv, TypeOK, VersionsBehind, Listing, SharedIsRecent, FetchedIsHonest, CacheIsHonest,
       Crash, Nothing
  <2>6. CacheIsHonest'
    BY <1>14 DEF IInv, TypeOK, VersionsBehind, Listing, CacheIsHonest, FetchedIsHonest, Crash, Nothing
  <2>7. ListingIsRecent'
    BY <1>14 DEF IInv, TypeOK, ListingIsRecent, SharedIsRecent, Listing, VersionsBehind, Crash, Nothing
  <2> QED
    BY <2>1, <2>2, <2>3, <2>4, <2>5, <2>6, <2>7 DEF IInv
<1>15. CASE UNCHANGED vars
  BY <1>15, ZenonT(40) DEF vars, IInv, TypeOK, StagedIsCurrent, VersionsBehind, FetchedIsHonest, SharedIsRecent,
     CacheIsHonest,
     ListingIsRecent, Transacting, Listing
<1> QED
  BY <1>1, <1>2, <1>3, <1>4, <1>5, <1>6, <1>7, <1>8, <1>9, <1>10, <1>11, <1>12, <1>13, <1>14, <1>15 DEF Next,
     Step

\* The invariant holds in every reachable state.
THEOREM Inductive == Spec => []IInv
<1>1. IInv /\ [Next]_vars => IInv'
  BY NextIInv
<1> QED
  BY <1>1, InitIInv, PTL DEF Spec

\* In every reachable state a cache of the current version is the current table (snapshot).
THEOREM CachesAreHonest == Spec => []CacheIsHonest
<1>1. IInv => CacheIsHonest
  BY DEF IInv
<1> QED
  BY <1>1, Inductive, PTL

\* In every reachable state an answered listing shows the table at a moment since its call.
THEOREM ListingsAreRecent == Spec => []ListingIsRecent
<1>1. IInv => ListingIsRecent
  BY DEF IInv
<1> QED
  BY <1>1, Inductive, PTL

\* The first states are first states of the promise.
LEMMA InitPromise == Init => Promise!Init
BY DEF Init, Promise!Init, Maps

\* A committed statement is the in-memory operation on the map.
LEMMA CommitMatches ==
    ASSUME IInv, NEW c \in Callers, Commit(c) \/ CommitUnseen(c)
    PROVE  LET op == call[c].op
               out == Promise!Outcome(op, rows[op.id])
           IN /\ ~call[c].done
              /\ op.kind \in Promise!Writes
              /\ Promise!Becomes([rows EXCEPT ![op.id] = out.map])
              /\ local[c].res = out.res
<1> DEFINE op == call[c].op
<1>1. pc[c] = "written" /\ rows' = local[c].table
  BY DEF Commit, CommitUnseen, Go, Install
<1>2. ~call[c].done
  BY <1>1, ZenonT(40) DEF IInv, TypeOK
<1>3. op.kind \in Writes /\ local[c].table = [rows EXCEPT ![op.id] = Statement(op, rows[op.id]).row]
      /\ local[c].res = Statement(op, rows[op.id]).res
  BY <1>1, ZenonT(40) DEF IInv, StagedIsCurrent, Transacting
<1>4. /\ Statement(op, rows[op.id]).row = Promise!Outcome(op, rows[op.id]).map
      /\ Statement(op, rows[op.id]).res = Promise!Outcome(op, rows[op.id]).res
  BY <1>3, StatementMatches, ZenonT(40)
<1>5. window' = [d \in Callers |-> window[d] \cup {local[c].table}]
  BY DEF Commit, CommitUnseen, Install
<1> QED
  BY <1>1, <1>2, <1>3, <1>4, <1>5, ZenonT(40) DEF Promise!Becomes, Writes

\* Every step is a step of the promise, or changes nothing it sees.
LEMMA NextPromise == IInv /\ [Next]_vars => [Promise!Next]_Promise!vars
<1> SUFFICES ASSUME IInv, [Next]_vars PROVE [Promise!Next]_Promise!vars
  OBVIOUS
<1>1. ASSUME NEW c \in Callers, NEW op \in Ops, Call(c, op) PROVE Promise!Next
  <2>1. call[c].done
    BY <1>1, ZenonT(40) DEF Call, Go, IInv, TypeOK
  <2>2. Promise!Call(c, op)
    BY <1>1, <2>1 DEF Call, Promise!Call
  <2> QED
    BY <2>2 DEF Promise!Next, Ops
<1>2. ASSUME NEW c \in Callers, Bump(c) \/ Write(c) \/ ReadVersion(c) \/ Fetch(c) PROVE UNCHANGED Promise!vars
  BY <1>2 DEF Bump, Write, ReadVersion, Fetch, Promise!vars
<1>3. ASSUME NEW c \in Callers, Commit(c) PROVE Promise!Next
  <2>1. Promise!Answer(c, local[c].res)
    BY <1>3 DEF Commit, Answer, Promise!Answer
  <2>2. Promise!Write(c)
    BY <1>3, <2>1, CommitMatches, ZenonT(40) DEF Promise!Write
  <2> QED
    BY <2>2 DEF Promise!Next
<1>4. ASSUME NEW c \in Callers, CommitUnseen(c) PROVE Promise!Next
  <2>1. Promise!Answer(c, Failed)
    BY <1>4 DEF CommitUnseen, Answer, Promise!Answer
  <2>2. Promise!Fail(c)
    BY <1>4, <2>1, CommitMatches, ZenonT(40) DEF Promise!Fail
  <2> QED
    BY <2>2 DEF Promise!Next
<1>5. ASSUME NEW c \in Callers, Rollback(c) \/ ReadFails(c) PROVE Promise!Next
  <2>1. ~call[c].done
    BY <1>5, ZenonT(40) DEF Rollback, ReadFails, IInv, TypeOK
  <2>2. Promise!Fail(c)
    BY <1>5, <2>1 DEF Rollback, ReadFails, Answer, Promise!Fail, Promise!Answer
  <2> QED
    BY <2>2 DEF Promise!Next
<1>6. ASSUME NEW c \in Callers, Get(c) \/ Select(c) \/ Hit(c) \/ Store(c) PROVE Promise!Next
  <2>1. ~call[c].done
    BY <1>6, ZenonT(40) DEF Get, Select, Hit, Store, Go, IInv, TypeOK
  <2>2. Get(c) => Promise!Read(c)
    BY <2>1 DEF Get, Answer, Promise!Read, Promise!Answer
  <2>3. Select(c) => Promise!Read(c)
    BY <2>1 DEF Select, Matching, Answer, Promise!Read, Promise!Answer, Promise!Selected
  <2>4. ASSUME Hit(c) PROVE Promise!Read(c)
    <3>1. call[c].op.kind = "all" /\ cache[Home[c]].entries \in window[c]
      BY <2>4, HomeAssumption DEF Hit, Cached, Go, IInv, VersionsBehind, SharedIsRecent, Listing
    <3> QED
      BY <2>1, <2>4, <3>1, ZenonT(40) DEF Hit, Answer, Promise!Read, Promise!Answer
  <2>5. ASSUME Store(c) PROVE Promise!Read(c)
    <3>1. call[c].op.kind = "all" /\ local[c].table \in window[c]
      BY <2>5 DEF Store, Go, IInv, VersionsBehind, SharedIsRecent, Listing
    <3> QED
      BY <2>1, <2>5, <3>1, ZenonT(40) DEF Store, Answer, Promise!Read, Promise!Answer
  <2>6. Promise!Read(c)
    BY <1>6, <2>2, <2>3, <2>4, <2>5
  <2> QED
    BY <2>6 DEF Promise!Next
<1>7. ASSUME NEW p \in Procs, Crash(p) PROVE Promise!Next
  <2> DEFINE mine == {c \in Callers : Home[c] = p}
  <2>1. mine \in SUBSET Callers
    OBVIOUS
  <2>2. Promise!Drop(mine)
    BY <1>7 DEF Crash, Promise!Drop
  <2> QED
    BY <2>1, <2>2 DEF Promise!Next
<1>8. CASE UNCHANGED vars
  BY <1>8 DEF vars, Promise!vars
<1> QED
  BY <1>1, <1>2, <1>3, <1>4, <1>5, <1>6, <1>7, <1>8 DEF Next, Step

\* The Postgres map implements the in-memory map's promise: every operation takes effect at one
\* moment between its call and its answer, whatever the processes do and whenever one dies.
THEOREM ImplementsPromise == Spec => KeepsPromise
<1>1. IInv /\ [Next]_vars => [Promise!Next]_Promise!vars
  BY NextPromise
<1> QED
  BY <1>1, InitPromise, Inductive, PTL DEF Spec, KeepsPromise, Promise!Spec
=============================================================================
