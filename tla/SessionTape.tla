----------------------------- MODULE SessionTape -----------------------------
(***************************************************************************)
(* One session of the session store: its write lease, the transcript       *)
(* (session_entries) and the tape from which a turn's model context is     *)
(* folded.  Turns, appends outside a turn (backfills and message           *)
(* revisions) and background compaction write under the lease; reapers and *)
(* drains delete it; the clock lets it lapse.                              *)
(*                                                                         *)
(* Sequence numbers start at 1 here, and 0 is "none" (the code's -1).  A   *)
(* lease token is the number of the lease among those granted.  A row of   *)
(* either table keeps the token it was written under in `by`; a text is    *)
(* identified by that token and its number `msg` among the holder's texts. *)
(***************************************************************************)
EXTENDS Naturals, Sequences, FiniteSets, FiniteSetsExt

CONSTANTS
  Writers,             \* processes that write the session
  Activities,          \* what they do: a subset of AllActivities
  MaxEntries,          \* bound: rows of session_entries
  MaxLeases            \* bound: leases granted

ASSUME TapeBounds == MaxEntries \in Nat /\ MaxLeases \in Nat

VARIABLES
  lease,               \* the row of session_leases; token 0: no row
  issued,              \* leases granted so far
  entries,             \* the rows of session_entries, by seq
  tape,                \* the rows of session_tape that coverage and the fold read
  writer               \* where each process is, and what it remembers

vars == <<lease, issued, entries, tape, writer>>

Kinds == {"turn", "backfill", "compaction"}

(* "revision": a turn catching up with edits of earlier messages.          *)
AllActivities == Kinds \cup {"revision"}

ASSUME ActivitiesKnown == Activities \subseteq AllActivities

(* An entry is a message, the summary of the entries up to `through`, or a *)
(* note the model never sees (thinking, turn failures, file events).       *)
Entry == [kind: {"message", "summary", "note"}, by: Nat, msg: Nat, through: Nat]

(* `end` is a turnEnd checkpoint for `seq`; `import` is a legacy_import of *)
(* the context up to `covers` (no entry ever changes, so its copy of the   *)
(* messages is the entries'); `compaction` puts the summary of entry `seq` *)
(* in place of the entries up to `covers`.                                 *)
TapeRow == [kind: {"message", "end", "import", "compaction"}, by: Nat, msg: Nat, seq: Nat,
            covers: Nat]

TextRow(w, n) == [kind |-> "message", by |-> writer[w].token, msg |-> n, seq |-> 0,
                  covers |-> 0]

(* The steps of a turn, of an append outside a turn and of a compaction.   *)
TurnPcs == {"turn", "pretape", "heal", "prompt", "user", "usertape", "work", "worktape",
            "workentry", "failuser", "failnote"}
OutsidePcs == {"coverage", "latest", "append", "text", "textend"}
CompactionPcs == {"check", "summary", "event", "latch", "summaryend"}

(* last: the newest entry this writer appended; made: its texts so far.    *)
WriterState == [pc: TurnPcs \cup OutsidePcs \cup CompactionPcs \cup {"idle", "planned", "release"},
                kind: Kinds, token: Nat, snap: Nat, through: Nat, last: Nat, made: Nat,
                pre: SUBSET Nat, covered: BOOLEAN]

IdleWriter == [pc |-> "idle", kind |-> "turn", token |-> 0, snap |-> 0, through |-> 0,
               last |-> 0, made |-> 0, pre |-> {}, covered |-> FALSE]

NoLease == [token |-> 0, lapsed |-> FALSE]

TypeOK ==
  /\ lease \in [token: Nat, lapsed: BOOLEAN]
  /\ issued \in Nat
  /\ entries \in Seq(Entry)
  /\ tape \in Seq(TapeRow)
  /\ writer \in [Writers -> WriterState]

Init ==
  /\ lease = NoLease
  /\ issued = 0
  /\ entries = <<>>
  /\ tape = <<>>
  /\ writer = [w \in Writers |-> IdleWriter]

-----------------------------------------------------------------------------
(* Reading the two tables.                                                 *)

latestEntrySeq == Len(entries)

Covers(row) == CASE row.kind = "end" -> row.seq
                 [] row.kind = "import" -> row.covers
                 [] OTHER -> 0

tapeCoverage == Max({0} \cup {Covers(tape[i]) : i \in DOMAIN tape})

LatestSummary(n) == Max({0} \cup {i \in 1..n : entries[i].kind = "summary"})

ThroughSeq(n) == IF LatestSummary(n) = 0 THEN 0 ELSE entries[LatestSummary(n)].through

ItemOf(n) == [kind |-> entries[n].kind, by |-> entries[n].by, msg |-> entries[n].msg]

(* forModelContext: the newest summary, then the messages after it.        *)
ModelContext(n) ==
  LET recent == SelectSeq([i \in 1..n |-> i],
                          LAMBDA i : entries[i].kind = "message" /\ i > ThroughSeq(n))
      shown == IF LatestSummary(n) = 0 THEN recent ELSE <<LatestSummary(n)>> \o recent
  IN [i \in DOMAIN shown |-> ItemOf(shown[i])]

(* Mutant of FoldRow: the summary itself is not counted when boundaries   *)
(* are moved.                                                              *)
FoldRowUnshifted(f, row) ==
  LET boundary == [pos |-> Len(f.out), seq |-> row.seq]
      cuts == {i \in DOMAIN f.bounds : f.bounds[i].seq <= row.covers}
      cut == IF cuts = {} THEN 0 ELSE f.bounds[Max(cuts)].pos
      kept == SelectSeq(f.bounds, LAMBDA b : b.pos >= cut)
      context == ModelContext(row.covers)
      text(kind) == [kind |-> kind, by |-> row.by, msg |-> row.msg]
  IN CASE row.kind = "message" -> [f EXCEPT !.out = Append(@, text("message"))]
       [] row.kind = "end" -> [f EXCEPT !.bounds = Append(@, boundary)]
       [] row.kind = "import" ->
            [out |-> context, bounds |-> <<[pos |-> Len(context), seq |-> row.covers]>>]
       [] row.kind = "compaction" ->
            [out |-> <<text("summary")>> \o SubSeq(f.out, cut + 1, Len(f.out)),
             bounds |-> [i \in DOMAIN kept |-> [kept[i] EXCEPT !.pos = @ - cut]]]

(* foldTape: the model context the tape stands for, and the checkpoints in *)
(* it at which a compaction may cut.                                       *)
FoldRow(f, row) ==
  LET boundary == [pos |-> Len(f.out), seq |-> row.seq]
      cuts == {i \in DOMAIN f.bounds : f.bounds[i].seq <= row.covers}
      cut == IF cuts = {} THEN 0 ELSE f.bounds[Max(cuts)].pos
      kept == SelectSeq(f.bounds, LAMBDA b : b.pos >= cut)
      context == ModelContext(row.covers)
      text(kind) == [kind |-> kind, by |-> row.by, msg |-> row.msg]
  IN CASE row.kind = "message" -> [f EXCEPT !.out = Append(@, text("message"))]
       [] row.kind = "end" -> [f EXCEPT !.bounds = Append(@, boundary)]
       [] row.kind = "import" ->
            [out |-> context, bounds |-> <<[pos |-> Len(context), seq |-> row.covers]>>]
       [] row.kind = "compaction" ->
            [out |-> <<text("summary")>> \o SubSeq(f.out, cut + 1, Len(f.out)),
             bounds |-> [i \in DOMAIN kept |-> [kept[i] EXCEPT !.pos = @ - cut + 1]]]

foldTape ==
  LET fold[i \in 0..Len(tape)] == IF i = 0 THEN [out |-> <<>>, bounds |-> <<>>]
                                  ELSE FoldRow(fold[i - 1], tape[i])
  IN fold[Len(tape)].out

-----------------------------------------------------------------------------
(* The lease.                                                              *)

(* Mutant of Held: any unexpired lease will do.                            *)
HeldByAnyone(w) == lease.token # 0 /\ ~lease.lapsed

(* withLease's condition.                                                  *)
Held(w) == lease.token = writer[w].token /\ ~lease.lapsed

Granted(w, kind, pc) ==
  /\ lease.token = 0 \/ lease.lapsed
  /\ issued < MaxLeases
  /\ issued' = issued + 1
  /\ lease' = [token |-> issued + 1, lapsed |-> FALSE]
  /\ writer' = [writer EXCEPT ![w].pc = pc, ![w].kind = kind, ![w].token = issued + 1]
  /\ UNCHANGED <<entries, tape>>

AcquireLease(w) ==
  /\ writer[w].pc = "idle"
  /\ \/ "turn" \in Activities /\ Granted(w, "turn", "turn")
     \/ "backfill" \in Activities /\ Granted(w, "backfill", "coverage")

(* The keepalive fell behind, or the process holding the lease is gone.    *)
Lapse ==
  /\ lease.token # 0 /\ ~lease.lapsed
  /\ lease' = [lease EXCEPT !.lapsed = TRUE]
  /\ UNCHANGED <<issued, entries, tape, writer>>

(* A reaper or a drain releases the lease of a run it takes over.          *)
ForceReleaseLease ==
  /\ lease.token # 0
  /\ lease' = NoLease
  /\ UNCHANGED <<issued, entries, tape, writer>>

ReleaseLease(w) ==
  /\ writer[w].pc = "release"
  /\ lease' = IF lease.token = writer[w].token THEN NoLease ELSE lease
  /\ writer' = [writer EXCEPT ![w] = IdleWriter]
  /\ UNCHANGED <<issued, entries, tape>>

(* append and appendTape: rejected unless the lease is held.               *)
PutEntry(w, kind, msg, through) ==
  /\ Held(w)
  /\ Len(entries) < MaxEntries
  /\ entries' = Append(entries, [kind |-> kind, by |-> writer[w].token, msg |-> msg,
                                 through |-> through])
  /\ UNCHANGED <<lease, issued, tape>>

PutTape(w, row) ==
  /\ Held(w)
  /\ tape' = Append(tape, row)
  /\ UNCHANGED <<lease, issued, entries>>

(* The turnEnd checkpoint for an entry.                                    *)
PutEnd(w, seq) == PutTape(w, [TextRow(w, 0) EXCEPT !.kind = "end", !.seq = seq])

(* A new text as the next entry, to be followed by its tape row.           *)
PutText(w, pc) ==
  /\ PutEntry(w, "message", writer[w].made + 1, 0)
  /\ writer' = [writer EXCEPT ![w].pc = pc, ![w].last = Len(entries) + 1, ![w].made = @ + 1]

(* On its way out a writer only needs its token.                           *)
Leaving(w) == [IdleWriter EXCEPT !.pc = "release", !.token = writer[w].token]

Goto(w, pc) ==
  writer' = [writer EXCEPT ![w] = IF pc = "release" THEN Leaving(w) ELSE [@ EXCEPT !.pc = pc]]

(* A turn looks for message revisions to record before it releases its     *)
(* lease, however it ended (catchUpMessageRevisions); others just release. *)
Finish(w) ==
  \/ Goto(w, "release")
  \/ "revision" \in Activities /\ writer[w].kind = "turn" /\ Goto(w, "coverage")

(* The append throws: nothing more this writer sends is accepted, and it   *)
(* releases its lease on the way out.                                      *)
Rejected(w) ==
  /\ writer[w].pc \in TurnPcs \cup OutsidePcs \cup CompactionPcs
  /\ ~Held(w)
  /\ Goto(w, "release")
  /\ UNCHANGED <<lease, issued, entries, tape>>

Crash(w) ==
  /\ writer[w].pc # "idle"
  /\ writer' = [writer EXCEPT ![w] = IdleWriter]
  /\ UNCHANGED <<lease, issued, entries, tape>>

-----------------------------------------------------------------------------
(* A turn.  Overheard messages are recorded first, each with its tape row. *)

PreAppend(w) ==
  /\ writer[w].pc = "turn"
  /\ PutEntry(w, "message", writer[w].made + 1, 0)
  /\ writer' = [writer EXCEPT ![w].pc = "pretape", ![w].last = Len(entries) + 1,
                  ![w].made = @ + 1, ![w].pre = @ \cup {Len(entries) + 1}]

PreTape(w) ==
  /\ writer[w].pc = "pretape"
  /\ PutTape(w, TextRow(w, writer[w].made))
  /\ Goto(w, "turn")

(* The context window and the coverage are read; nothing the turn writes   *)
(* later is accepted unless its lease, and so both, stayed as they were.   *)
ReadWindow(w) ==
  /\ writer[w].pc = "turn"
  /\ LET prior == Max({0} \cup (1..latestEntrySeq \ writer[w].pre)) IN
     writer' = [writer EXCEPT ![w].pc = "heal", ![w].snap = latestEntrySeq,
                  ![w].pre = {}, ![w].covered = (tapeCoverage >= prior)]
  /\ UNCHANGED <<lease, issued, entries, tape>>

(* appendCoverageImport replaces an incomplete tape, or one imported       *)
(* without scopes, by the transcript where that is possible; otherwise the *)
(* turn goes on with the tape it found.                                    *)
Heal(w) ==
  /\ writer[w].pc = "heal"
  /\ \/ /\ writer[w].snap > 0
        /\ PutTape(w, [TextRow(w, 0) EXCEPT !.kind = "import", !.covers = writer[w].snap])
        /\ writer' = [writer EXCEPT ![w].pc = "prompt", ![w].covered = TRUE]
     \/ /\ Goto(w, "prompt")
        /\ UNCHANGED <<lease, issued, entries, tape>>

(* The user's message; its tape row follows when the model consumes it.    *)
EmitUser(w) == writer[w].pc \in {"prompt", "user"} /\ PutText(w, "usertape")

TapeUser(w) ==
  /\ writer[w].pc = "usertape"
  /\ PutTape(w, TextRow(w, writer[w].made))
  /\ Goto(w, "work")

(* A step of the model or a tool: its entry and its tape row are written   *)
(* by two subscribers, in either order.                                    *)
EmitWork(w) ==
  \/ writer[w].pc = "work" /\ PutText(w, "worktape")
  \/ /\ writer[w].pc = "workentry"
     /\ PutEntry(w, "message", writer[w].made, 0)
     /\ writer' = [writer EXCEPT ![w].pc = "work", ![w].last = Len(entries) + 1]
  \/ /\ writer[w].pc = "work"
     /\ PutEntry(w, "note", 0, 0)
     /\ writer' = [writer EXCEPT ![w].last = Len(entries) + 1]

TapeWork(w) ==
  \/ /\ writer[w].pc = "worktape"
     /\ PutTape(w, TextRow(w, writer[w].made))
     /\ Goto(w, "work")
  \/ /\ writer[w].pc = "work"
     /\ PutTape(w, TextRow(w, writer[w].made + 1))
     /\ writer' = [writer EXCEPT ![w].pc = "workentry", ![w].made = @ + 1]

(* The checkpoint, at the turn's end and before a nudge.                   *)
LatchCoverage(w) ==
  /\ writer[w].pc = "work"
  /\ writer[w].covered
  /\ tapeCoverage < writer[w].last
  /\ PutEnd(w, writer[w].last)
  /\ UNCHANGED writer

(* The turn ends; one stopped halfway ends without a checkpoint.           *)
EndTurn(w) ==
  /\ writer[w].pc = "work"
  /\ Finish(w)
  /\ UNCHANGED <<lease, issued, entries, tape>>

(* A call fails although the lease is held.  A last attempt of a turn      *)
(* records the user's message, if it has not been recorded yet, and the    *)
(* failure, in the transcript alone; errors on the way out are swallowed.  *)
Fail(w) ==
  /\ \/ writer[w].pc \in OutsidePcs /\ Goto(w, "release")
     \/ writer[w].pc \in TurnPcs \cup CompactionPcs /\ Finish(w)
     \/ /\ writer[w].kind = "turn"
        /\ writer[w].pc \in (TurnPcs \ {"failuser", "failnote"}) \cup CompactionPcs
        /\ Goto(w, IF writer[w].pc \in {"prompt", "user"} THEN "failuser" ELSE "failnote")
  /\ UNCHANGED <<lease, issued, entries, tape>>

RecordFailure(w) ==
  \/ writer[w].pc = "failuser" /\ PutText(w, "failnote")
  \/ /\ writer[w].pc = "failuser"
     /\ Goto(w, "failnote")
     /\ UNCHANGED <<lease, issued, entries, tape>>
  \/ writer[w].pc = "failnote" /\ PutEntry(w, "note", 0, 0) /\ Finish(w)

-----------------------------------------------------------------------------
(* appendEntryOutsideTurn.                                                 *)

ReadCoverage(w) ==
  /\ writer[w].pc = "coverage"
  /\ writer' = [writer EXCEPT ![w].pc = "latest", ![w].snap = tapeCoverage]
  /\ UNCHANGED <<lease, issued, entries, tape>>

ReadLatest(w) ==
  /\ writer[w].pc = "latest"
  /\ writer' = [writer EXCEPT ![w].pc = "append", ![w].covered = (writer[w].snap = latestEntrySeq)]
  /\ UNCHANGED <<lease, issued, entries, tape>>

(* A failure record has no text for the model; a revision always has one.  *)
AppendOutside(w) ==
  /\ writer[w].pc = "append"
  /\ \/ writer[w].covered /\ PutText(w, "text")
     \/ ~writer[w].covered /\ writer[w].kind = "turn" /\ PutText(w, "coverage")
     \/ /\ ~writer[w].covered
        /\ PutEntry(w, "message", writer[w].made + 1, 0)
        /\ Goto(w, "release")
     \/ /\ writer[w].kind = "backfill"
        /\ PutEntry(w, "note", 0, 0)
        /\ writer' = [writer EXCEPT ![w] = IF writer[w].covered
                                           THEN [@ EXCEPT !.pc = "textend", !.last = Len(entries) + 1]
                                           ELSE Leaving(w)]

TapeOutside(w) ==
  /\ writer[w].pc = "text"
  /\ PutTape(w, TextRow(w, writer[w].made))
  /\ Goto(w, "textend")

CheckpointOutside(w) ==
  /\ writer[w].pc = "textend"
  /\ PutEnd(w, writer[w].last)
  /\ Finish(w)

-----------------------------------------------------------------------------
(* Compaction.  In the background the plan is made on a snapshot, before   *)
(* the lease; in a turn, under it.                                         *)

Plans(n) == {t \in ThroughSeq(n) + 1 .. n : entries[t].kind = "message"}

PlanCompaction(w) ==
  /\ "compaction" \in Activities
  /\ \/ writer[w].pc = "idle" /\ issued < MaxLeases
     \/ writer[w].pc = "prompt"
  /\ \E t \in Plans(latestEntrySeq) :
       writer' = [writer EXCEPT ![w].snap = latestEntrySeq, ![w].through = t,
                    ![w].pc = IF @ = "idle" THEN "planned" ELSE "summary"]
  /\ UNCHANGED <<lease, issued, entries, tape>>

AcquireCompaction(w) ==
  /\ writer[w].pc = "planned"
  /\ Granted(w, "compaction", "check")

(* Mutant of CheckSince: a newer summary is not looked for.                *)
CheckNothing(w) ==
  /\ writer[w].pc = "check"
  /\ Goto(w, "summary")
  /\ UNCHANGED <<lease, issued, entries, tape>>

CheckSince(w) ==
  /\ writer[w].pc = "check"
  /\ Goto(w, IF LatestSummary(latestEntrySeq) > writer[w].snap THEN "release" ELSE "summary")
  /\ UNCHANGED <<lease, issued, entries, tape>>

AppendSummary(w) ==
  /\ writer[w].pc = "summary"
  /\ PutEntry(w, "summary", writer[w].made + 1, writer[w].through)
  /\ writer' = [writer EXCEPT ![w].pc = "event", ![w].last = Len(entries) + 1, ![w].made = @ + 1]

TapeCompaction(w) ==
  /\ writer[w].pc = "event"
  /\ PutTape(w, [TextRow(w, writer[w].made) EXCEPT !.kind = "compaction", !.seq = writer[w].last,
                                                    !.covers = writer[w].through])
  /\ Goto(w, "latch")

AfterCompaction(w) == IF writer[w].kind = "turn" THEN "user" ELSE "release"

ReadLatch(w) ==
  /\ writer[w].pc = "latch"
  /\ Goto(w, IF tapeCoverage = writer[w].last - 1 THEN "summaryend" ELSE AfterCompaction(w))
  /\ UNCHANGED <<lease, issued, entries, tape>>

CheckpointSummary(w) ==
  /\ writer[w].pc = "summaryend"
  /\ PutEnd(w, writer[w].last)
  /\ Goto(w, AfterCompaction(w))

-----------------------------------------------------------------------------
TurnStep(w) ==
  \/ PreAppend(w) \/ PreTape(w) \/ ReadWindow(w) \/ Heal(w)
  \/ EmitUser(w) \/ TapeUser(w) \/ EmitWork(w) \/ TapeWork(w)
  \/ LatchCoverage(w) \/ EndTurn(w) \/ RecordFailure(w)

OutsideStep(w) ==
  \/ ReadCoverage(w) \/ ReadLatest(w) \/ AppendOutside(w) \/ TapeOutside(w) \/ CheckpointOutside(w)

CompactionStep(w) ==
  \/ PlanCompaction(w) \/ AcquireCompaction(w) \/ CheckSince(w) \/ AppendSummary(w)
  \/ TapeCompaction(w) \/ ReadLatch(w) \/ CheckpointSummary(w)

Next ==
  \/ Lapse
  \/ ForceReleaseLease
  \/ \E w \in Writers :
       \/ AcquireLease(w) \/ ReleaseLease(w) \/ Rejected(w) \/ Fail(w) \/ Crash(w)
       \/ TurnStep(w) \/ OutsideStep(w) \/ CompactionStep(w)

Spec == Init /\ [][Next]_vars

-----------------------------------------------------------------------------
(* A lease that was lost writes nothing more: in both tables the rows      *)
(* appear in the order in which the leases they were written under were    *)
(* granted, however long a superseded turn keeps running.                  *)
WritesInLeaseOrder ==
  /\ \A i, j \in DOMAIN entries : i < j => entries[i].by <= entries[j].by
  /\ \A i, j \in DOMAIN tape : i < j => tape[i].by <= tape[j].by

(* What coverage claims, the fold contains: every message up to the        *)
(* coverage that no summary replaced is in the folded context exactly      *)
(* once, and the newest summary, when covered, comes first.  Crashed       *)
(* turns, lost leases, appends outside a turn and compactions included.    *)
CoverageIsHonest ==
  LET out == foldTape
      covered == tapeCoverage
      last == LatestSummary(latestEntrySeq)
      through == ThroughSeq(latestEntrySeq)
  IN /\ covered <= latestEntrySeq
     /\ \A n \in through + 1 .. covered :
          entries[n].kind = "message" => Cardinality({i \in DOMAIN out : out[i] = ItemOf(n)}) = 1
     /\ last \in 1..covered => out[1] = ItemOf(last)

(* What a summary replaced is gone: when the newest summary is covered,    *)
(* the fold holds no text, older summaries included, that a checkpoint     *)
(* made since the last import places at or before the summary's through.   *)
SummaryReplaces ==
  LET out == foldTape
      last == LatestSummary(latestEntrySeq)
      imported == Max({0} \cup {i \in DOMAIN tape : tape[i].kind = "import"})
      ends == {tape[i].seq : i \in {i \in imported + 1 .. Len(tape) : tape[i].kind = "end"}}
  IN last \in 1..tapeCoverage =>
       \A b \in ends : b <= entries[last].through =>
         \A n \in 1..b : \A i \in DOMAIN out : out[i] # ItemOf(n)

(* The folded context is what coverage claims, and nothing a summary       *)
(* replaced.                                                               *)
FoldIsHonest == CoverageIsHonest /\ SummaryReplaces

(* A compaction planned on an old snapshot never undoes a later one: each  *)
(* summary reaches further than the summaries before it.                   *)
SummariesAdvance ==
  \A i, j \in DOMAIN entries :
    (i < j /\ entries[i].kind = "summary" /\ entries[j].kind = "summary")
    => entries[i].through < entries[j].through
=============================================================================
