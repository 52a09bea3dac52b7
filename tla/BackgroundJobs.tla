--------------------------- MODULE BackgroundJobs ---------------------------
(***************************************************************************)
(* Background jobs (src/connectors/background-exec-broker.ts, src/processes/).  An agent starts a     *)
(* command that outlives its turn, polls it and stops it; a registry keeps a row     *)
(* for each job, and a reaper kills the jobs whose time is over.  The jobs here all      *)
(* run one command on one sandbox, so that a second start should find the first,           *)
(* unless the command holds a secret.  A turn that begins reconciles the rows.                *)
(* A process may end, or vanish with its machine, at any time.                       *)
(***************************************************************************)
EXTENDS Naturals, FiniteSets

CONSTANTS
    Callers,         \* tool calls that run at once
    Operations,      \* what happens, of "start", "poll" and "stop", "reap" and "reconcile"
    Secret,          \* the command holds a secret of its environment, and its row a redacted one
    MaxJobs,         \* bound: processes ever launched
    MaxCrashes       \* bound: deaths of a caller or of the reaper

VARIABLES
    proc,            \* what becomes of each process
    rows,            \* the registry: the status in each process's row
    old,             \* rows whose time is over
    caller,          \* where each call is, and the process it is about
    reaper,          \* the reaper: where it is, the rows it listed, the one it is at
    recon,           \* a turn that reconciles: where it is, and the rows it is about
    overlap,         \* history: a start looked while another was under way
    left,            \* processes left without a row by a failure that was reported, or a death
    crashes

vars == <<proc, rows, old, caller, reaper, recon, overlap, left, crashes>>

Jobs == 1 .. MaxJobs
Idle == [pc |-> "idle", p |-> 0]
Asleep == [pc |-> "idle", list |-> {}, p |-> 0]
Settled == [pc |-> "idle", list |-> {}]

\* Every variable has a value of its type.
TypeOK ==
    /\ proc \in [Jobs -> {"none", "running", "exited", "gone"}]
    /\ rows \in [Jobs -> {"none", "running", "exited", "reaped"}]
    /\ old \subseteq Jobs /\ left \subseteq Jobs /\ crashes \in 0 .. MaxCrashes
    /\ caller \in [Callers -> [pc : {"idle", "probe", "probeMark", "drop", "reread", "launch", "register",
                                     "poll", "term", "kill", "mark"}, p : 0 .. MaxJobs]]
    /\ reaper \in [pc : {"idle", "next", "term", "kill", "mark"}, list : SUBSET Jobs, p : 0 .. MaxJobs]
    /\ recon \in [pc : {"idle", "look", "mark"}, list : SUBSET Jobs] /\ overlap \in BOOLEAN
    /\ \A p \in Jobs : proc[p] = "none" => rows[p] = "none"

Init ==
    /\ proc = [p \in Jobs |-> "none"] /\ rows = [p \in Jobs |-> "none"]
    /\ old = {} /\ left = {} /\ crashes = 0
    /\ caller = [c \in Callers |-> Idle] /\ reaper = Asleep
    /\ recon = Settled /\ overlap = FALSE

At(c, pc) == caller[c].pc = pc
Goes(c, pc, p) == caller' = [caller EXCEPT ![c] = [pc |-> pc, p |-> p]]
Rests(c) == caller' = [caller EXCEPT ![c] = Idle]

\* markStatus: the row takes the status, if there is one, whatever its status was.
MarkStatus(p, status) == rows' = IF rows[p] = "none" THEN rows ELSE [rows EXCEPT ![p] = status]

(* ---- start -------------------------------------------------------------- *)

\* A start that has looked and has not registered its process.
Starting(c) == caller[c].pc \in {"probe", "probeMark", "drop", "launch", "register"}

\* The scope's rows: a running one with the same command is probed, otherwise a process is launched.
\* A command that is redacted is not looked for.
StartFinds(c) ==
    /\ At(c, "idle") /\ "start" \in Operations
    /\ overlap' = (overlap \/ \E d \in Callers : Starting(d))
    /\ \/ ~Secret /\ \E p \in Jobs : rows[p] = "running" /\ Goes(c, "probe", p)
       \/ (Secret \/ \A p \in Jobs : rows[p] # "running") /\ Goes(c, "launch", 0)
    /\ UNCHANGED <<proc, rows, old, reaper, left, crashes, recon>>

\* The process is read: it ended, it is not there, or it runs.
Probe(c) ==
    /\ At(c, "probe")
    /\ LET p == caller[c].p IN
       Goes(c, IF proc[p] = "exited" THEN "probeMark" ELSE IF proc[p] = "gone" THEN "drop" ELSE "reread", p)
    /\ UNCHANGED <<proc, rows, old, reaper, left, crashes, recon, overlap>>

\* An ended one is marked and a missing one's row deleted, and a new process is launched.
ProbeMark(c) ==
    /\ At(c, "probeMark")
    /\ MarkStatus(caller[c].p, "exited")
    /\ Goes(c, "launch", 0)
    /\ UNCHANGED <<proc, old, reaper, left, crashes, recon, overlap>>

Drop(c) ==
    /\ At(c, "drop")
    /\ rows' = [rows EXCEPT ![caller[c].p] = "none"]
    /\ Goes(c, "launch", 0)
    /\ UNCHANGED <<proc, old, reaper, left, crashes, recon, overlap>>

\* The call attaches to the running process and reads its output; a read of a missing one throws.
Reread(c) ==
    /\ At(c, "reread")
    /\ IF proc[caller[c].p] = "exited" THEN Goes(c, "mark", caller[c].p) ELSE Rests(c)
    /\ UNCHANGED <<proc, rows, old, reaper, left, crashes, recon, overlap>>

\* A new process is started, under an identity of its own.
Launch(c) ==
    /\ At(c, "launch")
    /\ \E p \in Jobs :
          /\ proc[p] = "none" /\ \A q \in 1 .. p - 1 : proc[q] # "none"
          /\ proc' = [proc EXCEPT ![p] = "running"]
          /\ Goes(c, "register", p)
    /\ UNCHANGED <<rows, old, reaper, left, crashes, recon, overlap>>

Register(c) ==
    /\ At(c, "register")
    /\ rows' = [rows EXCEPT ![caller[c].p] = "running"]
    /\ Goes(c, "poll", caller[c].p)
    /\ UNCHANGED <<proc, old, reaper, left, crashes, recon, overlap>>

\* startRegisteredProcess: the row cannot be written, and the process is killed.
RegisterFails(c) ==
    /\ At(c, "register")
    /\ proc' = [proc EXCEPT ![caller[c].p] = IF @ = "running" THEN "exited" ELSE @]
    /\ Rests(c)
    /\ UNCHANGED <<rows, old, reaper, left, crashes, recon, overlap>>

\* Nor can it be killed: the caller is told of both.
CleanupFails(c) ==
    /\ At(c, "register")
    /\ left' = left \cup {caller[c].p}
    /\ Rests(c)
    /\ UNCHANGED <<proc, rows, old, reaper, crashes, recon, overlap>>

(* ---- poll, write and stop ----------------------------------------------- *)

\* poll and write ask for the row, whatever its status, and read the process.
PollStarts(c, p) ==
    /\ At(c, "idle") /\ "poll" \in Operations /\ rows[p] # "none"
    /\ Goes(c, "poll", p)
    /\ UNCHANGED <<proc, rows, old, reaper, left, crashes, recon, overlap>>

\* A process that was read as ended is marked so; a read of a missing one throws.
Poll(c) ==
    /\ At(c, "poll")
    /\ IF proc[caller[c].p] = "exited" THEN Goes(c, "mark", caller[c].p) ELSE Rests(c)
    /\ UNCHANGED <<proc, rows, old, reaper, left, crashes, recon, overlap>>

Mark(c) ==
    /\ At(c, "mark")
    /\ MarkStatus(caller[c].p, "exited")
    /\ Rests(c)
    /\ UNCHANGED <<proc, old, reaper, left, crashes, recon, overlap>>

StopStarts(c, p) ==
    /\ At(c, "idle") /\ "stop" \in Operations /\ rows[p] # "none"
    /\ Goes(c, "term", p)
    /\ UNCHANGED <<proc, rows, old, reaper, left, crashes, recon, overlap>>

\* What a signal does to a process: it ends it, or does not.
Signalled(p) ==
    \/ proc' = [proc EXCEPT ![p] = IF @ = "running" THEN "exited" ELSE @]
    \/ proc[p] = "running" /\ UNCHANGED proc

\* The signal, then the wait for the exit.
Term(c) ==
    /\ At(c, "term")
    /\ LET p == caller[c].p IN
       /\ Signalled(p)
       /\ IF proc'[p] = "exited" THEN Goes(c, "mark", p) ELSE IF proc[p] = "gone" THEN Rests(c) ELSE Goes(c, "kill", p)
    /\ UNCHANGED <<rows, old, reaper, left, crashes, recon, overlap>>

Kill(c) ==
    /\ At(c, "kill")
    /\ LET p == caller[c].p IN
       /\ Signalled(p)
       /\ IF proc'[p] = "exited" THEN Goes(c, "mark", p) ELSE Rests(c)
    /\ UNCHANGED <<rows, old, reaper, left, crashes, recon, overlap>>

(* ---- the reaper --------------------------------------------------------- *)

\* listExpired.
Listed == {p \in Jobs : rows[p] = "running" /\ p \in old}

Sweep ==
    /\ reaper.pc = "idle" /\ "reap" \in Operations /\ Listed # {}
    /\ reaper' = [pc |-> "next", list |-> Listed, p |-> 0]
    /\ UNCHANGED <<proc, rows, old, caller, left, crashes, recon, overlap>>

Take ==
    /\ reaper.pc = "next"
    /\ reaper' = IF reaper.list = {} THEN Asleep
                 ELSE LET p == CHOOSE p \in reaper.list : TRUE IN
                      [pc |-> "term", list |-> reaper.list \ {p}, p |-> p]
    /\ UNCHANGED <<proc, rows, old, caller, left, crashes, recon, overlap>>

\* The kill hook: a signal to end, one to die; a process that is not there counts as killed.
ReapTerm ==
    /\ reaper.pc = "term"
    /\ Signalled(reaper.p)
    /\ reaper' = [reaper EXCEPT !.pc = IF proc'[reaper.p] = "running" THEN "kill" ELSE "mark"]
    /\ UNCHANGED <<rows, old, caller, left, crashes, recon, overlap>>

\* One that outlives both is left for the next sweep.
ReapKill ==
    /\ reaper.pc = "kill"
    /\ Signalled(reaper.p)
    /\ reaper' = [reaper EXCEPT !.pc = IF proc'[reaper.p] = "running" THEN "next" ELSE "mark"]
    /\ UNCHANGED <<rows, old, caller, left, crashes, recon, overlap>>

ReapMark ==
    /\ reaper.pc = "mark"
    /\ MarkStatus(reaper.p, "reaped")
    /\ reaper' = [reaper EXCEPT !.pc = "next"]
    /\ UNCHANGED <<proc, old, caller, left, crashes, recon, overlap>>

(* ---- reconcileProcesses: a turn of the scope begins --------------------- *)

ReconcileLists ==
    /\ recon.pc = "idle" /\ "reconcile" \in Operations /\ \E p \in Jobs : rows[p] = "running"
    /\ recon' = [pc |-> "look", list |-> {p \in Jobs : rows[p] = "running"}]
    /\ UNCHANGED <<proc, rows, old, caller, reaper, overlap, left, crashes>>

\* The processes of the machine: the rows of those that are not there, or have ended, are marked.
ReconcileLooks ==
    /\ recon.pc = "look"
    /\ recon' = [pc |-> "mark", list |-> {p \in recon.list : proc[p] # "running"}]
    /\ UNCHANGED <<proc, rows, old, caller, reaper, overlap, left, crashes>>

ReconcileMarks(p) ==
    /\ recon.pc = "mark" /\ p \in recon.list
    /\ MarkStatus(p, "exited")
    /\ recon' = [recon EXCEPT !.list = @ \ {p}]
    /\ UNCHANGED <<proc, old, caller, reaper, overlap, left, crashes>>

\* It is through, or one of its calls throws; the turn goes on either way.
ReconcileEnds ==
    /\ recon.pc # "idle"
    /\ recon' = Settled
    /\ UNCHANGED <<proc, rows, old, caller, reaper, overlap, left, crashes>>

(* ---- processes, time and deaths ----------------------------------------- *)

Exits(p) ==
    /\ proc[p] = "running" /\ proc' = [proc EXCEPT ![p] = "exited"]
    /\ UNCHANGED <<rows, old, caller, reaper, left, crashes, recon, overlap>>

\* The machine is replaced, and its processes with it.
Vanishes(p) ==
    /\ proc[p] \in {"running", "exited"} /\ proc' = [proc EXCEPT ![p] = "gone"]
    /\ UNCHANGED <<rows, old, caller, reaper, left, crashes, recon, overlap>>

Ages(p) ==
    /\ "reap" \in Operations /\ rows[p] = "running" /\ p \notin old /\ old' = old \cup {p}
    /\ UNCHANGED <<proc, rows, caller, reaper, left, crashes, recon, overlap>>

CallerDies(c) ==
    /\ caller[c].pc # "idle" /\ crashes < MaxCrashes
    /\ crashes' = crashes + 1
    /\ left' = IF At(c, "register") THEN left \cup {caller[c].p} ELSE left
    /\ Rests(c)
    /\ UNCHANGED <<proc, rows, old, reaper, recon, overlap>>

ReaperDies ==
    /\ reaper.pc # "idle" /\ crashes < MaxCrashes
    /\ crashes' = crashes + 1
    /\ reaper' = Asleep
    /\ UNCHANGED <<proc, rows, old, caller, left, recon, overlap>>

Calls(c) ==
    \/ StartFinds(c) \/ Probe(c) \/ ProbeMark(c) \/ Drop(c) \/ Reread(c) \/ Launch(c)
    \/ Register(c) \/ RegisterFails(c) \/ CleanupFails(c)
    \/ Poll(c) \/ Mark(c) \/ Term(c) \/ Kill(c)
    \/ \E p \in Jobs : PollStarts(c, p) \/ StopStarts(c, p)

Reaps == Sweep \/ Take \/ ReapTerm \/ ReapKill \/ ReapMark

Reconciles == ReconcileLists \/ ReconcileLooks \/ (\E p \in Jobs : ReconcileMarks(p)) \/ ReconcileEnds

Next ==
    \/ \E c \in Callers : Calls(c) \/ CallerDies(c)
    \/ Reaps \/ ReaperDies \/ Reconciles
    \/ \E p \in Jobs : Exits(p) \/ Vanishes(p) \/ Ages(p)

Spec == Init /\ [][Next]_vars

(* ---- properties --------------------------------------------------------- *)

\* A row that says its job ended, or was reaped, is the row of a process that runs no more.
EndedRowsEnded == \A p \in Jobs : rows[p] \in {"exited", "reaped"} => proc[p] # "running"

\* A process runs with a row the reaper will find, or while its row is being written, unless the
\* failure to write it, and to kill it, was reported, or its caller died in between.
NoneUnregistered ==
    \A p \in Jobs : proc[p] = "running" =>
        \/ rows[p] = "running" \/ p \in left
        \/ \E c \in Callers : caller[c] = [pc |-> "register", p |-> p]

\* A command without a secret is run once at a time: a start attaches to the process that runs it,
\* whatever polls, stops, reaps and reconciles meanwhile, unless two starts overlapped.
OneProcess ==
    ~Secret /\ ~overlap => Cardinality({p \in Jobs : proc[p] = "running" /\ rows[p] = "running"}) <= 1

\* A row that says its job was reaped goes on saying so.
ReapedStays == [][\A p \in Jobs : rows[p] = "reaped" => rows'[p] # "exited"]_vars
=============================================================================
