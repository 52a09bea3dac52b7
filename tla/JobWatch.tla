------------------------------ MODULE JobWatch ------------------------------
(***************************************************************************)
(* A watch on a background job (src/monitors/monitor-poller.ts, monitor-broker.ts,  *)
(* monitor-store.ts).  A poller reads the job's output from the watch's cursor, wakes   *)
(* the conversation with what is new by firing a turn once for a key, and moves the       *)
(* cursor on.  Meanwhile the job prints, ends or vanishes, and the agent watches           *)
(* again or stops watching.  Output is a sequence of lines, known by their numbers;          *)
(* the part of a line read before its end is left out.                             *)
(***************************************************************************)
EXTENDS Naturals, FiniteSets, FiniteSetsExt

CONSTANTS
    MaxLines,        \* bound: lines the job prints
    MaxRead,         \* lines one read returns at most (64 KiB)
    Matches,         \* the lines the watch's pattern takes
    MaxWatches,      \* bound: calls of watch
    MaxCrashes,      \* bound: deaths of the poller
    MaxQuiet,        \* bound: heartbeats
    Rewatches,       \* whether watch is called with a cursor on a watched job
    Lapses,          \* whether the owner may lose access to the conversation
    RowsVanish,      \* whether a vanished job's row is deleted
    None

VARIABLES
    job,             \* its state and the lines it printed
    row,             \* its row in the registry: "running", "exited" or "none"
    watch,           \* the watch, or None
    watches, crashes, quiets,
    recent,          \* the watch fired less than a minute ago
    expired,         \* the watch's time is over
    done,            \* keys committed as fired
    turns,           \* keys a turn was run for
    told,            \* lines the agent was told, by a turn that ran
    refused,         \* lines of a turn that could not run, of which the conversation gets a notice
    missed,          \* lines of a wake nobody could be told of
    access,          \* the owner may read the conversation and write to it, only read, or neither
    repeated,        \* lines a wake for new output told again
    poller

vars == <<job, row, watch, watches, crashes, quiets, recent, expired, done, turns, told, refused, missed, access, repeated, poller>>

Lines == 1 .. MaxLines

\* A fire key: what the wake is about, and the cursor or the time of the last fire it is for.
Key(m, kind, n) == [watch |-> m.id, kind |-> kind, n |-> n]

\* m: the watch as the tick found it; to: the cursor read; lines: what the wake tells;
\* late: the watch was removed before the poll looked at it.
Idle == [pc |-> "idle", m |-> None, kind |-> "none", to |-> 0, lines |-> {}, key |-> None, access |-> "full",
         late |-> FALSE]

Final(kind) == kind \in {"exited", "expired"}

\* Every variable has a value of its type.
TypeOK ==
    /\ job.state \in {"running", "exited", "gone"} /\ job.out \in 0 .. MaxLines
    /\ row \in {"running", "exited", "none"}
    /\ watch # None => watch.cursor \in 0 .. MaxLines /\ watch.from \in 0 .. MaxLines /\ watch.id \in 1 .. MaxWatches
    /\ watches \in 0 .. MaxWatches /\ crashes \in 0 .. MaxCrashes
    /\ told \subseteq Lines /\ refused \subseteq Lines /\ repeated \subseteq told
    /\ missed \subseteq Lines /\ access \in {"full", "read", "none"}
    /\ poller.pc \in {"idle", "row", "poll", "read", "fire", "running", "ran", "fired", "disarm", "mark"}
    /\ poller.pc # "idle" => poller.m # None
    /\ poller.kind \in {"none", "output", "exited", "expired", "lost", "quiet"}

Init ==
    /\ job = [state |-> "running", out |-> 0]
    /\ row = "running" /\ watch = None
    /\ watches = 0 /\ crashes = 0 /\ quiets = 0
    /\ recent = FALSE /\ expired = FALSE
    /\ done = {} /\ turns = {} /\ told = {} /\ refused = {} /\ missed = {} /\ repeated = {}
    /\ access = "full"
    /\ poller = Idle

(* ---- the agent ---------------------------------------------------------- *)

Enabled == watch # None /\ watch.on

\* The job runs and is not watched: a watch is created, from the cursor the agent has.
Watch(c) ==
    /\ watches < MaxWatches /\ watches' = watches + 1
    /\ row = "running" /\ ~Enabled
    /\ watch' = [id |-> watches + 1, on |-> TRUE, cursor |-> c, from |-> c, fired |-> 0]
    /\ recent' = FALSE /\ expired' = FALSE
    /\ UNCHANGED <<job, row, crashes, quiets, done, turns, told, refused, missed, access, repeated, poller>>

\* It is watched: the watch is moved to the cursor given.
Rewatch(c) ==
    /\ Rewatches /\ watches < MaxWatches /\ watches' = watches + 1
    /\ row = "running" /\ Enabled
    /\ watch' = [watch EXCEPT !.cursor = c, !.from = c]
    /\ UNCHANGED <<job, row, crashes, quiets, recent, expired, done, turns, told, refused, missed, access, repeated, poller>>

\* The watch is deleted.
Unwatch ==
    /\ watch # None
    /\ watch' = None
    /\ poller' = [poller EXCEPT !.late = @ \/ (poller.pc \in {"row", "poll"} /\ poller.m.id = watch.id)]
    /\ UNCHANGED <<job, row, watches, crashes, quiets, recent, expired, done, turns, told, refused, missed, access, repeated>>

\* A watch long turned off is deleted.
DeleteDefunct ==
    /\ watch # None /\ ~watch.on
    /\ watch' = None
    /\ UNCHANGED <<job, row, watches, crashes, quiets, recent, expired, done, turns, told, refused, missed, access, repeated, poller>>

(* ---- the poller --------------------------------------------------------- *)

\* A tick lists the watches that are on.
Tick ==
    /\ poller.pc = "idle" /\ Enabled
    /\ poller' = [Idle EXCEPT !.pc = "row", !.m = watch]
    /\ UNCHANGED <<job, row, watch, watches, crashes, quiets, recent, expired, done, turns, told, refused, missed, access, repeated>>

\* The job's row: without one the job is reported lost.
LookUp ==
    /\ poller.pc = "row"
    /\ poller' = IF row = "none" THEN [poller EXCEPT !.pc = "fire", !.kind = "lost", !.key = Key(poller.m, "lost", 0)]
                 ELSE [poller EXCEPT !.pc = "poll"]
    /\ UNCHANGED <<job, row, watch, watches, crashes, quiets, recent, expired, done, turns, told, refused, missed, access, repeated>>

\* stillLive: the watch is looked up again.
StillLive ==
    /\ poller.pc = "poll"
    /\ poller' = IF Enabled /\ watch.id = poller.m.id THEN [poller EXCEPT !.pc = "read"] ELSE Idle
    /\ UNCHANGED <<job, row, watch, watches, crashes, quiets, recent, expired, done, turns, told, refused, missed, access, repeated>>

\* The job is not on the machine.
ReadGone ==
    /\ poller.pc = "read" /\ job.state = "gone"
    /\ poller' = [poller EXCEPT !.pc = "fire", !.kind = "lost", !.key = Key(poller.m, "lost", 0)]
    /\ UNCHANGED <<job, row, watch, watches, crashes, quiets, recent, expired, done, turns, told, refused, missed, access, repeated>>

\* What a read from the watch's cursor returns, and what of it the pattern takes.
ReadTo == IF poller.m.cursor > job.out THEN job.out ELSE Min({job.out, poller.m.cursor + MaxRead})
ReadLines == (poller.m.cursor + 1 .. ReadTo) \cap Matches

Ending ==
    IF job.state = "exited" THEN "exited" ELSE IF expired THEN "expired" ELSE "output"

\* Nothing to tell: the cursor moves on without a wake.
ReadNothing ==
    /\ poller.pc = "read" /\ job.state # "gone"
    /\ ReadLines = {} /\ ~Final(Ending)
    /\ watch' = IF watch # None /\ watch.id = poller.m.id THEN [watch EXCEPT !.cursor = ReadTo] ELSE watch
    /\ poller' = Idle
    /\ UNCHANGED <<job, row, watches, crashes, quiets, recent, expired, done, turns, told, refused, missed, access, repeated>>

\* Nothing to tell for long: a heartbeat, once for the time of the last fire.
ReadQuiet ==
    /\ poller.pc = "read" /\ job.state # "gone" /\ quiets < MaxQuiet
    /\ ReadLines = {} /\ ~Final(Ending) /\ ~recent
    /\ quiets' = quiets + 1
    /\ poller' = [poller EXCEPT !.pc = "fire", !.kind = "quiet", !.to = ReadTo,
                                !.key = Key(poller.m, "quiet", poller.m.fired)]
    /\ UNCHANGED <<job, row, watch, watches, crashes, recent, expired, done, turns, told, refused, missed, access, repeated>>

\* New lines less than a minute after the last fire wait.
ReadWaits ==
    /\ poller.pc = "read" /\ job.state # "gone"
    /\ ReadLines # {} /\ ~Final(Ending) /\ recent
    /\ poller' = Idle
    /\ UNCHANGED <<job, row, watch, watches, crashes, quiets, recent, expired, done, turns, told, refused, missed, access, repeated>>

\* New lines, the job's end or the watch's: a wake, under the cursor it read from, or once for an end.
ReadFires ==
    /\ poller.pc = "read" /\ job.state # "gone"
    /\ Final(Ending) \/ ReadLines # {}
    /\ Final(Ending) \/ ~recent
    /\ poller' = [poller EXCEPT !.pc = "fire", !.kind = Ending, !.to = ReadTo, !.lines = ReadLines,
                                !.key = Key(poller.m, Ending, IF Final(Ending) THEN 0 ELSE poller.m.cursor)]
    /\ UNCHANGED <<job, row, watch, watches, crashes, quiets, recent, expired, done, turns, told, refused, missed, access, repeated>>

(* ---- runTrigger --------------------------------------------------------- *)

\* idempotency.once: the key was committed, so nothing runs.
FireSkips ==
    /\ poller.pc = "fire" /\ poller.key \in done
    /\ poller' = [poller EXCEPT !.pc = "fired"]
    /\ UNCHANGED <<job, row, watch, watches, crashes, quiets, recent, expired, done, turns, told, refused, missed, access, repeated>>

\* It was not, and a wake begins; who may be told was looked up before.
FireClaims ==
    /\ poller.pc = "fire" /\ poller.key \notin done
    /\ poller' = [poller EXCEPT !.pc = "running", !.access = access]
    /\ UNCHANGED <<job, row, watch, watches, crashes, quiets, recent, expired, done, turns, told, refused, missed, access, repeated>>

\* What the wake tells the agent.
Tells ==
    /\ told' = told \cup poller.lines
    /\ repeated' = repeated \cup (IF poller.kind = "output" THEN poller.lines \cap told ELSE {})

\* Mutant of RunTurn: the turn has no key of its own.
RunTurnAgain ==
    /\ poller.pc = "running" /\ poller.access # "none"
    /\ turns' = turns \cup {poller.key}
    /\ Tells
    /\ poller' = [poller EXCEPT !.pc = "ran"]
    /\ UNCHANGED <<job, row, watch, watches, crashes, quiets, recent, expired, done, refused, missed, access>>

\* The turn runs, once for its key, and the agent is told.
RunTurn ==
    /\ poller.pc = "running" /\ poller.access # "none"
    /\ turns' = turns \cup {poller.key}
    /\ IF poller.key \in turns THEN UNCHANGED <<told, repeated>> ELSE Tells
    /\ poller' = [poller EXCEPT !.pc = "ran"]
    /\ UNCHANGED <<job, row, watch, watches, crashes, quiets, recent, expired, done, refused, missed, access>>

\* The turn is refused or fails: the conversation is given a notice in its place, if it can be.
RunRefused ==
    /\ poller.pc = "running" /\ poller.access # "none" /\ poller.key \notin turns
    /\ turns' = turns \cup {poller.key}
    /\ IF poller.access = "full" THEN refused' = refused \cup poller.lines /\ UNCHANGED missed
       ELSE missed' = missed \cup poller.lines /\ UNCHANGED refused
    /\ poller' = [poller EXCEPT !.pc = "ran"]
    /\ UNCHANGED <<job, row, watch, watches, crashes, quiets, recent, expired, done, told, access, repeated>>

\* The owner may not read the conversation: no turn, no notice, and the wake counts as run.
RunBarred ==
    /\ poller.pc = "running" /\ poller.access = "none"
    /\ missed' = missed \cup poller.lines
    /\ poller' = [poller EXCEPT !.pc = "ran"]
    /\ UNCHANGED <<job, row, watch, watches, crashes, quiets, recent, expired, done, turns, told, refused, access, repeated>>

CommitKey ==
    /\ poller.pc = "ran"
    /\ done' = done \cup {poller.key}
    /\ poller' = [poller EXCEPT !.pc = "fired"]
    /\ UNCHANGED <<job, row, watch, watches, crashes, quiets, recent, expired, turns, told, refused, missed, access, repeated>>

\* The owner is not an internal principal any more: the watch is turned off, and no turn runs.
FireRefused ==
    /\ poller.pc = "fire"
    /\ poller' = [poller EXCEPT !.pc = "disarm", !.kind = IF poller.kind = "lost" THEN "lost" ELSE "none"]
    /\ UNCHANGED <<job, row, watch, watches, crashes, quiets, recent, expired, done, turns, told, refused, missed, access, repeated>>

(* ---- after the fire ----------------------------------------------------- *)

Mine == watch # None /\ watch.id = poller.m.id

\* The cursor moves to what was read, and the time of the fire is noted, if the watch is there.
Advance ==
    /\ poller.pc = "fired" /\ poller.kind # "lost"
    /\ watch' = IF Mine THEN [watch EXCEPT !.cursor = poller.to, !.fired = @ + 1] ELSE watch
    /\ recent' = (IF Mine THEN TRUE ELSE recent)
    /\ poller' = IF Final(poller.kind) THEN [poller EXCEPT !.pc = IF Mine THEN "disarm" ELSE "mark"] ELSE Idle
    /\ UNCHANGED <<job, row, watches, crashes, quiets, expired, done, turns, told, refused, missed, access, repeated>>

ReportedLost ==
    /\ poller.pc = "fired" /\ poller.kind = "lost"
    /\ poller' = [poller EXCEPT !.pc = "disarm"]
    /\ UNCHANGED <<job, row, watch, watches, crashes, quiets, recent, expired, done, turns, told, refused, missed, access, repeated>>

\* The watch is turned off.
Disarm ==
    /\ poller.pc = "disarm"
    /\ watch' = IF Mine THEN [watch EXCEPT !.on = FALSE] ELSE watch
    /\ poller' = IF poller.kind = "exited" THEN [poller EXCEPT !.pc = "mark"] ELSE Idle
    /\ UNCHANGED <<job, row, watches, crashes, quiets, recent, expired, done, turns, told, refused, missed, access, repeated>>

\* An exited job's row is marked.
MarkExited ==
    /\ poller.pc = "mark"
    /\ row' = IF poller.kind = "exited" /\ row # "none" THEN "exited" ELSE row
    /\ poller' = Idle
    /\ UNCHANGED <<job, watch, watches, crashes, quiets, recent, expired, done, turns, told, refused, missed, access, repeated>>

\* The poller's process dies, or a call of it throws.
Crash ==
    /\ poller.pc # "idle" /\ crashes < MaxCrashes
    /\ crashes' = crashes + 1
    /\ poller' = Idle
    /\ UNCHANGED <<job, row, watch, watches, quiets, recent, expired, done, turns, told, refused, missed, access, repeated>>

(* ---- the job and the clock ---------------------------------------------- *)

PrintLine ==
    /\ job.state = "running" /\ job.out < MaxLines
    /\ job' = [job EXCEPT !.out = @ + 1]
    /\ UNCHANGED <<row, watch, watches, crashes, quiets, recent, expired, done, turns, told, refused, missed, access, repeated, poller>>

Exit ==
    /\ job.state = "running"
    /\ job' = [job EXCEPT !.state = "exited"]
    /\ UNCHANGED <<row, watch, watches, crashes, quiets, recent, expired, done, turns, told, refused, missed, access, repeated, poller>>

\* The machine restarts, and the job is gone.
Vanish ==
    /\ job.state = "running"
    /\ job' = [job EXCEPT !.state = "gone"]
    /\ UNCHANGED <<row, watch, watches, crashes, quiets, recent, expired, done, turns, told, refused, missed, access, repeated, poller>>

\* A start of the same command finds it gone, and deletes its row.
RowDeleted ==
    /\ RowsVanish /\ job.state = "gone" /\ row # "none"
    /\ row' = "none"
    /\ UNCHANGED <<job, watch, watches, crashes, quiets, recent, expired, done, turns, told, refused, missed, access, repeated, poller>>

MinutePasses ==
    /\ recent /\ recent' = FALSE
    /\ UNCHANGED <<job, row, watch, watches, crashes, quiets, expired, done, turns, told, refused, missed, access, repeated, poller>>

WatchExpires ==
    /\ watch # None /\ ~expired /\ expired' = TRUE
    /\ UNCHANGED <<job, row, watch, watches, crashes, quiets, recent, done, turns, told, refused, missed, access, repeated, poller>>

\* The owner, or the conversation's audience, changes.
AccessChanges ==
    /\ Lapses
    /\ access' \in {"full", "read", "none"} \ {access}
    /\ UNCHANGED <<job, row, watch, watches, crashes, quiets, recent, expired, done, turns, told, refused, missed, repeated, poller>>

Polls ==
    \/ Tick \/ LookUp \/ StillLive \/ ReadGone \/ ReadNothing \/ ReadQuiet \/ ReadWaits \/ ReadFires
    \/ FireSkips \/ FireClaims \/ RunTurn \/ RunRefused \/ RunBarred \/ CommitKey \/ FireRefused
    \/ Advance \/ ReportedLost \/ Disarm \/ MarkExited

Next ==
    \/ \E c \in 0 .. job.out : Watch(c) \/ Rewatch(c)
    \/ Unwatch \/ DeleteDefunct \/ Polls \/ Crash
    \/ PrintLine \/ Exit \/ Vanish \/ RowDeleted \/ MinutePasses \/ WatchExpires \/ AccessChanges

Spec == Init /\ [][Next]_vars

\* The poller ticks on, and minutes pass.
FairSpec == Spec /\ WF_vars(Polls) /\ WF_vars(MinutePasses)

(* ---- properties --------------------------------------------------------- *)

\* The cursor never leaves a line behind that nobody was told of: what the pattern takes between
\* where the watch was set and its cursor was in a wake, or in one refused with a notice, or in one
\* for which the owner had no access to the conversation.
NoLineSkipped ==
    watch # None => (watch.from + 1 .. watch.cursor) \cap Matches \subseteq told \cup refused \cup missed

\* No line told once is told again as new output, whatever the poller's deaths.
NoLineTwice == repeated = {}

\* A watch removed before the poll looks at it wakes nobody.
UnwatchHonored == poller.pc = "running" => ~poller.late

\* The wake that reports a job's exit has told the rest of its output, unless it was refused or the
\* owner had no access.
ExitTellsAll ==
    poller.pc = "mark" /\ Mine => (watch.from + 1 .. job.out) \cap Matches \subseteq told \cup refused \cup missed

\* A watched job's exit, or its loss, is reported in the end, unless the agent stops watching, or
\* the watch is turned off, because its time was over or its owner may not be told.
EndReported ==
    \A w \in 1 .. MaxWatches :
        (Enabled /\ watch.id = w /\ job.state # "running")
            ~> (\E k \in turns : k.watch = w /\ k.kind \in {"exited", "lost"}) \/ ~Enabled \/ watch.id # w
=============================================================================
