---------------------------- MODULE Deployments ----------------------------
(***************************************************************************)
(* A published app (src/deploy/deploy-service.ts, deploy-store.ts).  Its record, one JSON   *)
(* row, holds its versions, the current and the applied one, its status and its         *)
(* endpoint; a provider runs it.  Publishing, rollback, archive, restore and the idle     *)
(* reaper hold the deployment's lock for a row of store and provider calls.  Every          *)
(* setter of the store reads the row and writes it back.  The first deploy, a rename       *)
(* or transfer, and the refresh of an endpoint run without the lock.                       *)
(***************************************************************************)
EXTENDS Naturals, Sequences, SequencesExt

CONSTANTS
    Callers,         \* calls that run at once
    MaxVersions,     \* bound: contents ever published
    MaxCalls,        \* bound: calls
    MaxFaults,       \* bound: failed calls, machines torn down, processes that die
    Kinds,           \* which calls are made, and "image": the provider may build a new one
    Addresses,       \* where the provider may run it; 1 is one of them
    StartsOn,        \* whether the app is to be always on from the start
    Creating,        \* whether the first deploy still runs
    None

VARIABLES
    rec,             \* the row
    runtime,         \* what the provider runs: a content (0: nothing), and its address
    op,              \* each caller: its call, the steps left, the row it read, its version
    lock,            \* who holds the deployment's lock
    published,       \* contents published
    calls, faults

vars == <<rec, runtime, op, lock, published, calls, faults>>

Publishing == {"redeploy", "push", "rollback", "restore"}
AllKinds == Publishing \cup {"archive", "reap", "reach", "rename", "update", "always_on"}

NoOp == [kind |-> "none", pc |-> "idle", todo |-> <<>>, copy |-> None, v |-> 0, content |-> 0, addr |-> 0,
         failed |-> FALSE]

Step(what, arg) == [what |-> what, arg |-> arg]

\* Every variable has a value of its type.
TypeOK ==
    /\ rec.versions \in Seq(1 .. MaxVersions) /\ rec.current \in 1 .. Len(rec.versions)
    /\ rec.applied \in 0 .. Len(rec.versions)
    /\ rec.status \in {"running", "stopped", "archived"} /\ rec.endpoint \in {0} \cup Addresses
    /\ runtime \in [content : 0 .. MaxVersions, addr : Addresses]
    /\ lock \in {None} \cup Callers
    /\ \A c \in Callers :
          /\ op[c].kind \in {"none", "create"} \cup AllKinds /\ op[c].pc \in {"idle", "wait", "steps"}
          /\ op[c].pc = "idle" <=> op[c].kind = "none"

\* The steps after an application: setEndpoint, setStatus, setAppliedVersion.
MarkVersionRunning(v) == <<Step("endpoint", 1), Step("status", "running"), Step("applied", v)>>

\* The row as create wrote it; the first deploy goes on to apply it, or has done so.
Init ==
    /\ published = 1 /\ calls = 0 /\ faults = 0 /\ lock = None
    /\ IF Creating
       THEN /\ rec = [versions |-> <<1>>, current |-> 1, applied |-> 0, status |-> "stopped", endpoint |-> 0,
                      name |-> 0, alwaysOn |-> StartsOn]
            /\ runtime = [content |-> 0, addr |-> 1]
            /\ \E c \in Callers :
                  op = [d \in Callers |-> IF d # c THEN NoOp
                            ELSE [NoOp EXCEPT !.kind = "create", !.pc = "steps", !.v = 1, !.content = 1,
                                              !.todo = <<Step("apply", 1)>> \o MarkVersionRunning(1)]]
       ELSE /\ rec = [versions |-> <<1>>, current |-> 1, applied |-> 1, status |-> "running", endpoint |-> 1,
                      name |-> 0, alwaysOn |-> StartsOn]
            /\ runtime = [content |-> 1, addr |-> 1]
            /\ op = [c \in Callers |-> NoOp]

(* ---- calls -------------------------------------------------------------- *)

Becomes(c, o) == op' = [op EXCEPT ![c] = o]
Calls(c, kind) == op[c].pc = "idle" /\ kind \in Kinds /\ calls < MaxCalls /\ calls' = calls + 1

\* Calls that take the lock first: the reaper only for a row it listed as running and not always on.
CallLocked(c, kind) ==
    /\ Calls(c, kind) /\ kind \notin {"redeploy", "push", "update", "reach"}
    /\ kind = "reap" => rec.status = "running" /\ ~rec.alwaysOn
    /\ Becomes(c, [NoOp EXCEPT !.kind = kind, !.pc = "wait"])
    /\ UNCHANGED <<rec, runtime, lock, published, faults>>

\* Publishing brings new contents.
CallPublish(c, kind) ==
    /\ Calls(c, kind) /\ kind \in {"redeploy", "push"}
    /\ published < MaxVersions /\ published' = published + 1
    /\ Becomes(c, [NoOp EXCEPT !.kind = kind, !.pc = "wait", !.content = published + 1])
    /\ UNCHANGED <<rec, runtime, lock, faults>>

\* A rename within deployOrUpdate, or a transfer: a setter, without the lock.
CallUpdate(c) ==
    /\ Calls(c, "update")
    /\ Becomes(c, [NoOp EXCEPT !.kind = "update", !.pc = "steps", !.todo = <<Step("name", 1)>>])
    /\ UNCHANGED <<rec, runtime, lock, published, faults>>

\* liveEndpoint: the provider resolves the address, which is stored when it changed; an app that is
\* not up is looked after under the lock.
LiveEndpoint(c) ==
    /\ op[c].pc = "idle" /\ rec.status = "running" /\ rec.endpoint # 0
    /\ Becomes(c, IF runtime.content = 0 THEN [NoOp EXCEPT !.kind = "reach", !.pc = "wait"]
                  ELSE IF runtime.addr = rec.endpoint THEN NoOp
                  ELSE [NoOp EXCEPT !.kind = "reach", !.pc = "steps", !.addr = runtime.addr,
                                     !.todo = <<Step("endpoint", 1)>>])
    /\ UNCHANGED <<rec, runtime, lock, published, calls, faults>>

\* A visitor reaches the app.
CallReach(c) == "reach" \in Kinds /\ LiveEndpoint(c)

\* keepAlwaysOnWarm: the sweep asks for every running app that is to be always on.
KeepWarm(c) == "warm" \in Kinds /\ rec.alwaysOn /\ LiveEndpoint(c)

Current == rec.versions[rec.current]

\* What a call does once it has the lock and has read the row.
Take(c, kind) == op[c].pc = "wait" /\ op[c].kind = kind /\ lock = None /\ lock' = c

Plans(c, steps, v, content) ==
    Becomes(c, [op[c] EXCEPT !.pc = "steps", !.todo = steps, !.v = v, !.content = content, !.addr = runtime.addr])

\* Mutant of Redeploy: the version is marked before it is applied.
RedeployMarks(c) ==
    /\ Take(c, "redeploy")
    /\ Plans(c, <<Step("version", op[c].content)>> \o MarkVersionRunning(0) \o <<Step("apply", 0)>>, 0, op[c].content)
    /\ UNCHANGED <<rec, runtime, published, calls, faults>>

\* redeploy: a new version is added, applied and marked.
Redeploy(c) ==
    /\ Take(c, "redeploy")
    /\ Plans(c, <<Step("version", op[c].content), Step("apply", 0)>> \o MarkVersionRunning(0), 0, op[c].content)
    /\ UNCHANGED <<rec, runtime, published, calls, faults>>

\* pushGit: so is the commit that was pushed.
PushGit(c) ==
    /\ Take(c, "push")
    /\ Plans(c, <<Step("version", op[c].content), Step("apply", 0)>> \o MarkVersionRunning(0), 0, op[c].content)
    /\ UNCHANGED <<rec, runtime, published, calls, faults>>

\* rollbackDeployment: the current version is set, applied and marked.
Rollback(c) ==
    /\ Take(c, "rollback")
    /\ \E v \in 1 .. Len(rec.versions) :
          Plans(c, <<Step("current", v), Step("apply", v)>> \o MarkVersionRunning(v), v, rec.versions[v])
    /\ UNCHANGED <<rec, runtime, published, calls, faults>>

\* archiveDeployment: the app is destroyed, then marked.
Archive(c) ==
    /\ Take(c, "archive")
    /\ Plans(c, <<Step("destroy", 0), Step("status", "archived"), Step("endpoint", 0)>>, 0, 0)
    /\ UNCHANGED <<rec, runtime, published, calls, faults>>

\* restoreDeployment: an archived app's current version is applied and marked.
Restore(c) ==
    /\ Take(c, "restore")
    /\ IF rec.status = "archived"
       THEN Plans(c, <<Step("apply", rec.current)>> \o MarkVersionRunning(rec.current), rec.current, Current)
       ELSE Plans(c, <<>>, 0, 0)
    /\ UNCHANGED <<rec, runtime, published, calls, faults>>

\* reapIdleDeployments: the row is read again; an app still running and not always on is stopped.
Reap(c) ==
    /\ Take(c, "reap")
    /\ Plans(c, IF rec.status = "running" /\ ~rec.alwaysOn
                THEN <<Step("destroy", 0), Step("status", "stopped"), Step("endpoint", 0)>> ELSE <<>>, 0, 0)
    /\ UNCHANGED <<rec, runtime, published, calls, faults>>

\* liveEndpoint under the lock: the provider is asked again, and the current version applied.
Relaunch(c) ==
    /\ Take(c, "reach")
    /\ IF runtime.content # 0
       THEN Plans(c, IF runtime.addr = rec.endpoint THEN <<>> ELSE <<Step("endpoint", 1)>>, 0, 0)
       ELSE Plans(c, <<Step("apply", rec.current)>> \o MarkVersionRunning(rec.current), rec.current, Current)
    /\ UNCHANGED <<rec, runtime, published, calls, faults>>

\* setDeploymentAlwaysOn: the provider is told, and the flag merged into the row.
AlwaysOn(c) ==
    /\ Take(c, "always_on")
    /\ Plans(c, <<Step("always_on", ~rec.alwaysOn)>>, 0, 0)
    /\ UNCHANGED <<rec, runtime, published, calls, faults>>

\* renameDeployment: the name is set.
Rename(c) ==
    /\ Take(c, "rename")
    /\ Plans(c, <<Step("name", 1)>>, 0, 0)
    /\ UNCHANGED <<rec, runtime, published, calls, faults>>

(* ---- steps -------------------------------------------------------------- *)

Head1(c) == Head(op[c].todo)
Doing(c, what) == op[c].pc = "steps" /\ op[c].todo # <<>> /\ Head1(c).what \in what
Setters == {"version", "current", "status", "endpoint", "applied", "name", "image"}

\* A setter reads the row.
Get(c) ==
    /\ Doing(c, Setters) /\ op[c].copy = None
    /\ Becomes(c, [op[c] EXCEPT !.copy = rec])
    /\ UNCHANGED <<rec, runtime, lock, published, calls, faults>>

\* The row with the field set: addVersion appends, and points the current version at it; the image
\* of a version is left out.
With(r, s, o) ==
    CASE s.what = "version" -> [r EXCEPT !.versions = Append(@, s.arg), !.current = Len(r.versions) + 1]
      [] s.what = "current" -> [r EXCEPT !.current = s.arg]
      [] s.what = "status" -> [r EXCEPT !.status = s.arg]
      [] s.what = "endpoint" -> [r EXCEPT !.endpoint = IF s.arg = 0 THEN 0 ELSE o.addr]
      [] s.what = "applied" -> [r EXCEPT !.applied = o.v]
      [] s.what = "image" -> r
      [] s.what = "name" -> [r EXCEPT !.name = s.arg]

\* A restore that fails destroys what it started, and marks the app archived again.
Cleanup == <<Step("destroy", 0), Step("status", "archived"), Step("endpoint", 0)>>

\* A step throws: the call ends there, a restore with its cleanup; a step of the cleanup is skipped.
Throws(c) ==
    Becomes(c, IF op[c].kind # "restore" THEN [op[c] EXCEPT !.todo = <<>>, !.copy = None]
               ELSE IF op[c].failed THEN [op[c] EXCEPT !.todo = Tail(@), !.copy = None]
               ELSE [op[c] EXCEPT !.todo = Cleanup, !.copy = None, !.failed = TRUE])

\* It writes the row it read back, with the field set; setAppliedVersion and setVersionImage of a
\* version not in it throw.
Put(c) ==
    /\ Doing(c, Setters) /\ op[c].copy # None
    /\ IF Head1(c).what \in {"applied", "image"} /\ op[c].v > Len(op[c].copy.versions)
       THEN Throws(c) /\ UNCHANGED rec
       ELSE /\ rec' = With(op[c].copy, Head1(c), op[c])
            /\ Becomes(c, [op[c] EXCEPT !.copy = None, !.todo = Tail(@),
                                !.v = IF Head1(c).what = "version" THEN Len(op[c].copy.versions) + 1 ELSE @])
    /\ UNCHANGED <<runtime, lock, published, calls, faults>>

\* setAlwaysOn merges the flag in one statement.
Merge(c) ==
    /\ Doing(c, {"always_on"})
    /\ rec' = [rec EXCEPT !.alwaysOn = Head1(c).arg]
    /\ Becomes(c, [op[c] EXCEPT !.todo = Tail(@)])
    /\ UNCHANGED <<runtime, lock, published, calls, faults>>

\* What applyVersion does after the provider ran the version: redeploy and rollback may have been
\* asked to change the flag, and an image that was built is noted.
Afters(c) ==
    LET flags  == IF op[c].kind \in {"redeploy", "rollback"} /\ "always_on" \in Kinds
                  THEN {<<>>, <<Step("always_on", ~rec.alwaysOn)>>} ELSE {<<>>}
        images == IF "image" \in Kinds THEN {<<>>, <<Step("image", 0)>>} ELSE {<<>>}
    IN  {f \o i : f \in flags, i \in images}

\* applyVersion: the provider runs the version, at an address of its choice.
Apply(c) ==
    /\ Doing(c, {"apply"})
    /\ \E a \in Addresses, after \in Afters(c) :
          /\ runtime' = [content |-> op[c].content, addr |-> a]
          /\ Becomes(c, [op[c] EXCEPT !.todo = after \o Tail(@), !.addr = a])
    /\ UNCHANGED <<rec, lock, published, calls, faults>>

Destroy(c) ==
    /\ Doing(c, {"destroy"})
    /\ runtime' = [runtime EXCEPT !.content = 0]
    /\ Becomes(c, [op[c] EXCEPT !.todo = Tail(@)])
    /\ UNCHANGED <<rec, lock, published, calls, faults>>

\* A store or provider call fails.
Fails(c) ==
    /\ op[c].pc = "steps" /\ op[c].todo # <<>> /\ faults < MaxFaults
    /\ faults' = faults + 1
    /\ Throws(c)
    /\ UNCHANGED <<rec, runtime, lock, published, calls>>

\* The call returns, and the lock is free.
Return(c) ==
    /\ op[c].pc = "steps" /\ op[c].todo = <<>>
    /\ lock' = IF lock = c THEN None ELSE lock
    /\ Becomes(c, NoOp)
    /\ UNCHANGED <<rec, runtime, published, calls, faults>>

\* The process dies, and its connection's lock goes with it.
Dies(c) ==
    /\ op[c].pc # "idle" /\ faults < MaxFaults
    /\ faults' = faults + 1
    /\ lock' = IF lock = c THEN None ELSE lock
    /\ Becomes(c, NoOp)
    /\ UNCHANGED <<rec, runtime, published, calls>>

\* The platform tears the app down, or moves it.
TornDown ==
    /\ runtime.content # 0 /\ faults < MaxFaults /\ faults' = faults + 1
    /\ \E r \in {[runtime EXCEPT !.content = 0]} \cup {[runtime EXCEPT !.addr = a] : a \in Addresses} :
          r # runtime /\ runtime' = r
    /\ UNCHANGED <<rec, op, lock, published, calls>>

Works(c) ==
    \/ Redeploy(c) \/ PushGit(c) \/ Rollback(c) \/ Archive(c) \/ Restore(c) \/ Reap(c) \/ Relaunch(c) \/ AlwaysOn(c)
    \/ Rename(c)
    \/ Get(c) \/ Put(c) \/ Merge(c) \/ Apply(c) \/ Destroy(c) \/ Return(c)

Next ==
    \/ \E c \in Callers :
          \/ CallUpdate(c) \/ CallReach(c) \/ KeepWarm(c)
          \/ \E kind \in AllKinds : CallLocked(c, kind) \/ CallPublish(c, kind)
          \/ Works(c) \/ Fails(c) \/ Dies(c)
    \/ TornDown

Spec == Init /\ [][Next]_vars

\* Calls are carried out, and the sweep that keeps apps warm comes back; visitors need not.
FairSpec == Spec /\ \A c \in Callers : WF_vars(Works(c)) /\ WF_vars(KeepWarm(c))

(* ---- properties --------------------------------------------------------- *)

\* Versions are append-only: none is dropped or replaced, whoever writes the row.
AppendOnly == [][IsPrefix(rec.versions, rec'.versions)]_vars

\* The applied version is set to the one the provider runs, or last ran.
AppliedIsServed ==
    [][rec'.applied # rec.applied =>
           rec'.applied # 0 /\ runtime.content \in {0, rec'.versions[rec'.applied]}]_vars

\* An app whose status is running has an endpoint to reach it at.
RunningHasEndpoint == rec.status = "running" => rec.endpoint # 0

\* An archived app runs again only when it is published, rolled back or restored.
ArchivedStays ==
    [][rec.status = "archived" /\ rec'.status = "running" =>
           lock # None /\ op[lock].kind \in Publishing]_vars

\* A restore that fails leaves the app archived, with no endpoint and nothing running.
FailedRestoreIsClean ==
    \A c \in Callers : op[c].failed /\ op[c].todo = <<>> /\ faults <= 1 =>
        rec.status = "archived" /\ rec.endpoint = 0 /\ runtime.content = 0

\* The reaper destroys no app that is to be always on, whatever it listed.
AlwaysOnSpared ==
    \A c \in Callers : op[c].kind = "reap" /\ op[c].pc = "steps" /\ op[c].todo # <<>> => ~rec.alwaysOn

\* An app that is to be always on and is not up is brought up again, whatever tore it down, or is
\* no longer to be.
WarmAgain ==
    (rec.status = "running" /\ rec.alwaysOn /\ runtime.content = 0)
        ~> (rec.status # "running" \/ ~rec.alwaysOn \/ runtime.content # 0)
=============================================================================
