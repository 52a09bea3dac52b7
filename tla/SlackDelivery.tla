--------------------------- MODULE SlackDelivery ---------------------------
(***************************************************************************)
(* How a reply reaches Slack: the handler of a turn posts it, and an       *)
(* outbox row per run (or per message of the agent) lets any relay's       *)
(* poller post it when the handler did not live to see the end.            *)
(*                                                                         *)
(*   live[k]    the turn handler of run k, in the process Home[k]          *)
(*   result[k]  how run k ended: "ok", "failed", "refused" (there is no    *)
(*              row for it), "quarantined" (refused, for all to see), or   *)
(*              "ignored" (failed or refused, and nobody had asked)        *)
(*   ended[k]   the process whose run store reported run k as ended and    *)
(*              that has still to enqueue the result, or a bare state      *)
(*   poll[r]    relay r's poll cycle: its drains and whether it has heard  *)
(*              that the dispatch lease is lost                            *)
(*   dr[r][l]   one drain of the cycle: the queue, the rows it has seen,   *)
(*              the claims that it holds unexpired, the row in hand        *)
(*   lock       who holds the dispatch lease in Postgres                   *)
(*   fails, posted, dead   the delivery tracker of each relay              *)
(*   posts, edited, files, noted   what Slack shows: messages that carry   *)
(*              the key, the run's task message rewritten in place, files  *)
(*              uploaded, a note that says an upload failed                *)
(***************************************************************************)
EXTENDS DeliveryStore, FiniteSets

CONSTANTS
    Relays,        \* core processes, each with a Slack plugin
    Runs,          \* rows "run:<id>"
    Posts,         \* rows of messages the agent posts to a conversation
    Principals,    \* rows of direct messages to a person
    InPlace,       \* runs whose handler has checkpointed a task-list message (editRef)
    WithFiles,     \* rows with attachments
    Bare,          \* rows with attachments and no text
    Eager,         \* runs that a click started: acknowledged without deferral
    Whispered,     \* runs whose failure only the requester is shown
    Results,       \* how runs end
    Home,          \* Home[k]: the relay whose handler waits for run k
    None,          \* no relay, no row
    MayFail,       \* the kinds of fault that happen
    MaxFaults,     \* how many faults in a behaviour
    MaxAttempts,   \* DELIVERY_MAX_ATTEMPTS
    Slow,          \* whether a post outlives its claim or its grace
    Expires        \* whether a row gets as old as the outbox allows

Keys == Runs \cup Posts \cup Principals
Loops == {"conversations", "principals"}
RowsOf(l) == IF l = "principals" THEN Principals ELSE Runs \cup Posts

VARIABLES rows, live, result, ended, poll, dr, lock, fails, posted, dead,
          posts, edited, files, noted, faults

tracker == <<fails, posted, dead>>
shown == <<posts, edited, files, noted>>
vars == <<rows, live, result, ended, poll, dr, lock, tracker, shown, faults>>

Idle == [pc |-> "off", queue |-> {}, seen |-> {}, own |-> {}, cur |-> None]

\* The steps of a drain, and of a handler, between deciding to post and having posted.
MidPost == {"verify", "post", "again", "limited", "probe", "update", "rewrite", "files"}
LiveMidPost == {"turn", "files", "finalize", "whisper", "post", "again", "cards", "card", "convey"}

\* A failure has a text, and no attachments.
HasFiles(k) == k \in WithFiles /\ (k \in Runs => result[k] = "ok")
IsBare(k) == k \in Bare /\ (k \in Runs => result[k] = "ok")

Init ==
    /\ rows = [k \in Keys |-> NoRow]
    /\ live = [k \in Runs |-> "turn"]
    /\ result = [k \in Runs |-> "ok"]
    /\ ended = [k \in Runs |-> "running"]
    /\ poll = [r \in Relays |-> [on |-> FALSE, lost |-> FALSE]]
    /\ dr = [r \in Relays |-> [l \in Loops |-> Idle]]
    /\ lock = None
    /\ fails = [r \in Relays |-> [k \in Keys |-> 0]]
    /\ posted = [r \in Relays |-> {}]
    /\ dead = [r \in Relays |-> {}]
    /\ posts = [k \in Keys |-> 0]
    /\ edited = [k \in Keys |-> "no"]
    /\ files = [k \in Keys |-> 0]
    /\ noted = [k \in Keys |-> FALSE]
    /\ faults = 0

Fault(kind) == kind \in MayFail /\ faults < MaxFaults /\ faults' = faults + 1
NoFault == UNCHANGED faults

(***************************************************************************)
(* The run ends; the process that ran it enqueues the result.              *)
(***************************************************************************)

\* complete() commits, and the run store tells the listeners of this process.
RunEnds(k, r) ==
    /\ ended[k] = "running"
    /\ ended' = [ended EXCEPT ![k] = r]
    /\ \E how \in Results : result' = [result EXCEPT ![k] = how]
    /\ UNCHANGED <<rows, live, poll, dr, lock, tracker, shown, faults>>

\* runResultDelivery: a refusal, and a failure nobody asked for, have no row.
EnqueueResult(k) ==
    /\ ended[k] \in Relays
    /\ rows' = IF result[k] \in {"refused", "ignored"} THEN rows
               ELSE [rows EXCEPT ![k] = Enqueue(@)]
    /\ ended' = [ended EXCEPT ![k] = "enqueued"]
    /\ UNCHANGED <<live, result, poll, dr, lock, tracker, shown, faults>>

\* A surface tool of the agent enqueues a message; a retried turn does so
\* again under the same key.
EnqueuePost(k) ==
    /\ k \in Posts \cup Principals
    /\ Enqueue(rows[k]) # rows[k]
    /\ rows' = [rows EXCEPT ![k] = Enqueue(@)]
    /\ UNCHANGED <<live, result, ended, poll, dr, lock, tracker, shown, faults>>

Pinned(r, k) == k \in Runs /\ Home[k] = r /\ live[k] \notin {"card", "gone"}

\* The mutable part of a handler's step: where it goes next.
Goes(k, pc) == live' = [live EXCEPT ![k] = pc]

\* The handler of a message defers the acknowledgement: it posts the reply, or
\* the failure, and then acknowledges.  Nobody is told of a failure nobody asked
\* for, and the pin stays.  The handler of a click does not defer, except for a
\* quarantined turn, which it acknowledges when its card says so.
LiveHears(k) ==
    /\ live[k] = "turn" /\ ended[k] # "running"
    /\ Goes(k, CASE k \in Eager -> IF result[k] = "quarantined" THEN "convey" ELSE "cards"
                 [] k \notin Eager /\ result[k] = "ok" -> IF k \in WithFiles THEN "files" ELSE "finalize"
                 [] k \notin Eager /\ result[k] = "ignored" -> "muted"
                 [] OTHER -> IF k \in Whispered /\ result[k] # "quarantined" THEN "whisper" ELSE "post")
    /\ UNCHANGED <<rows, result, ended, poll, dr, lock, tracker, shown, faults>>

\* The click's handler writes the result over the card, without the key, while
\* the acknowledgement is under way.  (Its uploads are not modelled.)
LiveCard(k) ==
    /\ live[k] \in {"cards", "card", "convey"}
    /\ \/ NoFault /\ edited' = [edited EXCEPT ![k] = "plain"]
          /\ Goes(k, IF live[k] = "card" THEN "gone" ELSE "ack")
       \/ Fault("update") /\ UNCHANGED edited
          /\ Goes(k, CASE live[k] = "cards" -> "ack" [] live[k] = "card" -> "gone"
                      [] live[k] = "convey" -> "muted")
    /\ UNCHANGED <<rows, result, ended, poll, dr, lock, tracker, posts, files, noted>>

\* postEphemeral: only the requester sees the failure, and an error is swallowed.
LiveWhisper(k) ==
    /\ live[k] = "whisper"
    /\ Goes(k, "ack")
    /\ UNCHANGED <<rows, result, ended, poll, dr, lock, tracker, shown, faults>>

\* uploadAttachments first; a failure becomes a note below the reply.
LiveFiles(k) ==
    /\ live[k] = "files"
    /\ Goes(k, IF k \in Bare THEN "ack" ELSE "finalize")
    /\ \/ NoFault /\ files' = [files EXCEPT ![k] = @ + 1] /\ UNCHANGED noted
       \/ Fault("upload") /\ noted' = [noted EXCEPT ![k] = TRUE] /\ UNCHANGED files
    /\ UNCHANGED <<rows, result, ended, poll, dr, lock, tracker, posts, edited>>

\* taskList.finalize rewrites the task message and marks it with the key;
\* without one, or when that fails, the reply is a message of its own.
LiveFinalize(k) ==
    /\ live[k] = "finalize"
    /\ \/ /\ k \in InPlace /\ NoFault
          /\ edited' = [edited EXCEPT ![k] = "marked"] /\ Goes(k, "ack")
       \/ k \notin InPlace /\ NoFault /\ Goes(k, "post") /\ UNCHANGED edited
       \/ k \in InPlace /\ Fault("update") /\ Goes(k, "post") /\ UNCHANGED edited
    /\ UNCHANGED <<rows, result, ended, poll, dr, lock, tracker, posts, files, noted>>

\* postWithVerify without a verification before the first try.
LivePost(k) ==
    /\ live[k] = "post"
    /\ \/ NoFault /\ posts' = [posts EXCEPT ![k] = @ + 1] /\ Goes(k, "ack")
       \/ Fault("postlost") /\ posts' = [posts EXCEPT ![k] = @ + 1] /\ Goes(k, "again")
       \/ Fault("post") /\ UNCHANGED posts /\ Goes(k, "again")
       \/ Fault("platform") /\ UNCHANGED posts /\ Goes(k, "gone")
    /\ UNCHANGED <<rows, result, ended, poll, dr, lock, tracker, edited, files, noted>>

\* A message carries the key in its metadata, and so does a task message
\* that the handler has rewritten.
Found(k) == posts[k] > 0 \/ edited[k] = "marked"

\* After an ambiguous error: the post is looked up, and sent again if it is
\* not there; a failed lookup gives up, and the row is left to the pollers.
LiveAgain(k) ==
    /\ live[k] = "again"
    /\ \/ NoFault /\ Goes(k, IF Found(k) THEN "ack" ELSE "post")
       \/ Fault("verify") /\ Goes(k, "gone")
    /\ UNCHANGED <<rows, result, ended, poll, dr, lock, tracker, shown>>

\* ackRunDelivery: on the last failure the handler stops trying.
LiveAck(k) ==
    /\ live[k] \in {"cards", "ack"}
    /\ Goes(k, IF live[k] = "cards" THEN "card" ELSE "gone")
    /\ \/ NoFault /\ rows' = [rows EXCEPT ![k] = AckByKey(@)]
       \/ Fault("ack") /\ UNCHANGED rows
    /\ UNCHANGED <<result, ended, poll, dr, lock, tracker, shown>>

\* waitRun fails (the store, or a run without progress for too long).
LiveGivesUp(k) ==
    /\ live[k] = "turn"
    /\ Fault("live")
    /\ Goes(k, "gone")
    /\ UNCHANGED <<rows, result, ended, poll, dr, lock, tracker, shown>>

(***************************************************************************)
(* The poller: one cycle under the dispatch lease runs both drains.        *)
(***************************************************************************)
At(r, l, pc) == dr[r][l].pc = pc
Cur(r, l) == dr[r][l].cur

\* The drain's own part of a step.
To(r, l, d) == dr' = [dr EXCEPT ![r][l] = d]
Moves(r, l, pc) == To(r, l, [dr[r][l] EXCEPT !.pc = pc])

Poll(r) ==
    /\ ~poll[r].on /\ lock = None
    /\ lock' = r
    /\ poll' = [poll EXCEPT ![r] = [on |-> TRUE, lost |-> FALSE]]
    /\ dr' = [dr EXCEPT ![r] = [l \in Loops |-> [Idle EXCEPT !.pc = "claim"]]]
    /\ UNCHANGED <<rows, live, result, ended, tracker, shown, faults>>

\* The first claim of a drain.  A claim whose answer is lost has claimed the
\* rows for nobody; they come back when it expires.
ClaimBatch(r, l) ==
    /\ At(r, l, "claim")
    /\ rows' = ClaimPending(rows, RowsOf(l))
    /\ LET got == ClaimedBy(rows, RowsOf(l))
       IN \/ NoFault /\ To(r, l, [pc |-> "next", queue |-> got, seen |-> got, own |-> got, cur |-> None])
          \/ Fault("claim") /\ Moves(r, l, "next")
    /\ UNCHANGED <<live, result, ended, poll, lock, tracker, shown>>

\* Mutant of VerifyFirst: a run's reply is posted without a look.
VerifyOthers(k) == k \notin Runs /\ rows[k].age > 0

\* verifyFirst: a run's reply, and any row that an earlier claim may have posted.
VerifyFirst(k) == k \in Runs \/ rows[k].age > 0

\* Where deliver(d) takes row k before its first await.
DeliverTo(r, k) ==
    CASE Pinned(r, k) \/ (k \in Runs /\ rows[k].age = 0) \/ k \in dead[r] -> "next"
      [] OTHER ->
           IF k \in posted[r] THEN "ack"
           ELSE IF IsBare(k) THEN "files"
           ELSE IF k \in InPlace THEN (IF HasFiles(k) THEN "probe" ELSE "update")
           ELSE IF VerifyFirst(k) THEN "verify" ELSE "post"

\* The next row of the queue: delivered under an unexpired claim, else claimed again.
TakeRow(r, l) ==
    /\ At(r, l, "next") /\ ~poll[r].lost
    /\ \E k \in dr[r][l].queue :
          To(r, l, [dr[r][l] EXCEPT !.queue = @ \ {k}, !.cur = k,
                       !.pc = IF k \in dr[r][l].own THEN DeliverTo(r, k) ELSE "reclaim"])
    /\ UNCHANGED <<rows, live, result, ended, poll, lock, tracker, shown, faults>>

\* The queue is empty, or the lease is lost: the drain returns.
DrainEnds(r, l) ==
    /\ At(r, l, "next") /\ (dr[r][l].queue = {} \/ poll[r].lost)
    /\ To(r, l, Idle)
    /\ UNCHANGED <<rows, live, result, ended, poll, lock, tracker, shown, faults>>

\* reclaimOwnership: one more claim of the type, whose other rows are
\* absorbed.  Without the row it tries again, and after the third time drops it.
Reclaim(r, l) ==
    /\ At(r, l, "reclaim")
    /\ LET d == dr[r][l]
           k == Cur(r, l)
           got == ClaimedBy(rows, RowsOf(l))
           absorbed == [d EXCEPT !.queue = @ \cup (got \ d.seen), !.seen = @ \cup got,
                                 !.own = @ \cup got]
       IN IF poll[r].lost
            THEN /\ To(r, l, [d EXCEPT !.pc = "next", !.seen = @ \ {k}])
                 /\ NoFault /\ UNCHANGED rows
            ELSE /\ rows' = ClaimPending(rows, RowsOf(l))
                 /\ \/ /\ NoFault /\ k \in got
                       /\ To(r, l, [absorbed EXCEPT !.pc = DeliverTo(r, k)])
                    \/ /\ NoFault /\ k \notin got
                       /\ \/ To(r, l, absorbed)
                          \/ To(r, l, [absorbed EXCEPT !.pc = "next", !.seen = @ \ {k}])
                    \/ Fault("claim") /\ UNCHANGED dr
    /\ UNCHANGED <<live, result, ended, poll, lock, tracker, shown>>

\* recordFailure: the last allowed failure forgets that the row was posted
\* and rests the row for a while.
RecordFailure(r, k) ==
    LET last == fails[r][k] + 1 >= MaxAttempts
    IN /\ fails' = [fails EXCEPT ![r][k] = IF last THEN 0 ELSE @ + 1]
       /\ posted' = [posted EXCEPT ![r] = IF last THEN @ \ {k} ELSE @]
       /\ dead' = [dead EXCEPT ![r] = IF last THEN @ \cup {k} ELSE @]

\* post() threw: the failure is counted and the drain goes on.
PostFailed(r, l) == RecordFailure(r, Cur(r, l)) /\ Moves(r, l, "next")

\* post() returned: the row is remembered as posted until it is acknowledged.
PostReturned(r, l) ==
    /\ posted' = [posted EXCEPT ![r] = @ \cup {Cur(r, l)}]
    /\ UNCHANGED <<fails, dead>>
    /\ Moves(r, l, "ack")

\* The message is in Slack; its attachments follow.
PostLanded(r, l) ==
    IF HasFiles(Cur(r, l)) THEN Moves(r, l, "files") /\ UNCHANGED tracker ELSE PostReturned(r, l)

\* findPostedByKey before the first try: a message that is there is reused,
\* and its attachments are taken to be there too.
Verify(r, l) ==
    /\ At(r, l, "verify")
    /\ \/ NoFault /\ Found(Cur(r, l)) /\ PostReturned(r, l)
       \/ NoFault /\ ~Found(Cur(r, l)) /\ Moves(r, l, "post") /\ UNCHANGED tracker
       \/ Fault("verify") /\ PostFailed(r, l)
    /\ UNCHANGED <<rows, live, result, ended, poll, lock, shown>>

Post(r, l) ==
    /\ At(r, l, "post")
    /\ LET sent == posts' = [posts EXCEPT ![Cur(r, l)] = @ + 1]
       IN \/ NoFault /\ sent /\ PostLanded(r, l)
          \/ Fault("postlost") /\ sent /\ Moves(r, l, "again") /\ UNCHANGED tracker
          \/ Fault("post") /\ UNCHANGED posts /\ Moves(r, l, "again") /\ UNCHANGED tracker
          \/ Fault("limit") /\ UNCHANGED posts /\ Moves(r, l, "limited") /\ UNCHANGED tracker
          \/ Fault("platform") /\ UNCHANGED posts /\ PostFailed(r, l)
    /\ UNCHANGED <<rows, live, result, ended, poll, lock, edited, files, noted>>

\* After an ambiguous error the post is looked up before it is sent again.
Again(r, l) ==
    /\ At(r, l, "again")
    /\ \/ NoFault /\ Found(Cur(r, l)) /\ PostLanded(r, l)
       \/ NoFault /\ ~Found(Cur(r, l)) /\ Moves(r, l, "post") /\ UNCHANGED tracker
       \/ NoFault /\ ~Found(Cur(r, l)) /\ PostFailed(r, l)
       \/ Fault("verify") /\ PostFailed(r, l)
    /\ UNCHANGED <<rows, live, result, ended, poll, lock, shown>>

\* After the wait that a rate limit asks for, the lookup is best effort.
Limited(r, l) ==
    /\ At(r, l, "limited")
    /\ \/ NoFault /\ Found(Cur(r, l)) /\ PostReturned(r, l)
       \/ NoFault /\ ~Found(Cur(r, l)) /\ Moves(r, l, "post") /\ UNCHANGED tracker
       \/ Fault("verify") /\ Moves(r, l, "post") /\ UNCHANGED tracker
    /\ UNCHANGED <<rows, live, result, ended, poll, lock, shown>>

\* A run with a task message: the reply is written over it.  With
\* attachments the marker is looked up first, to know whether they went out;
\* the poller's own rewriting leaves no marker.
Probe(r, l) ==
    /\ At(r, l, "probe")
    /\ \/ NoFault /\ Moves(r, l, IF Found(Cur(r, l)) THEN "rewrite" ELSE "update")
       \/ Fault("verify") /\ Moves(r, l, "update")
    /\ UNCHANGED <<rows, live, result, ended, poll, lock, tracker, shown>>

Update(r, l) ==
    /\ dr[r][l].pc \in {"update", "rewrite"}
    /\ LET done == edited' = [edited EXCEPT ![Cur(r, l)] = IF @ = "no" THEN "plain" ELSE @]
       IN \/ NoFault /\ At(r, l, "update") /\ done /\ PostLanded(r, l)
          \/ NoFault /\ At(r, l, "rewrite") /\ done /\ PostReturned(r, l)
          \/ Fault("update") /\ UNCHANGED edited /\ UNCHANGED tracker
             /\ Moves(r, l, IF VerifyFirst(Cur(r, l)) THEN "verify" ELSE "post")
    /\ UNCHANGED <<rows, live, result, ended, poll, lock, posts, files, noted>>

\* replayAttachments: a failed upload is swallowed into a note.
Upload(r, l) ==
    /\ At(r, l, "files")
    /\ PostReturned(r, l)
    /\ \/ NoFault /\ files' = [files EXCEPT ![Cur(r, l)] = @ + 1] /\ UNCHANGED noted
       \/ Fault("upload") /\ noted' = [noted EXCEPT ![Cur(r, l)] = TRUE] /\ UNCHANGED files
    /\ UNCHANGED <<rows, live, result, ended, poll, lock, posts, edited>>

AckRow(r, l) ==
    /\ At(r, l, "ack")
    /\ LET k == Cur(r, l)
           acked == rows' = [rows EXCEPT ![k] = Ack(@)]
       IN \/ /\ NoFault /\ acked
             /\ fails' = [fails EXCEPT ![r][k] = 0]
             /\ posted' = [posted EXCEPT ![r] = @ \ {k}]
             /\ dead' = [dead EXCEPT ![r] = @ \ {k}]
          \/ Fault("acklost") /\ acked /\ RecordFailure(r, k)
          \/ Fault("ack") /\ UNCHANGED rows /\ RecordFailure(r, k)
    /\ Moves(r, l, "next")
    /\ UNCHANGED <<live, result, ended, poll, lock, shown>>

\* Both drains have returned: the lease is given back.
CycleEnds(r) ==
    /\ poll[r].on /\ \A l \in Loops : At(r, l, "off")
    /\ poll' = [poll EXCEPT ![r] = [on |-> FALSE, lost |-> FALSE]]
    /\ lock' = IF lock = r THEN None ELSE lock
    /\ UNCHANGED <<rows, live, result, ended, dr, tracker, shown, faults>>

(***************************************************************************)
(* Time and failures.                                                      *)
(***************************************************************************)
Posting(k) ==
    \/ \E r \in Relays, l \in Loops : Cur(r, l) = k /\ dr[r][l].pc \in MidPost
    \/ k \in Runs /\ live[k] \in LiveMidPost /\ ended[k] # "running"

\* The row grows older than a claim, and in the end older than the outbox keeps it.
Age(k) ==
    /\ rows[k].status = "open" /\ rows[k].age < IF Expires THEN 2 ELSE 1
    /\ Slow \/ ~Posting(k)
    /\ rows' = [rows EXCEPT ![k].age = @ + 1]
    /\ UNCHANGED <<live, result, ended, poll, dr, lock, tracker, shown, faults>>

\* The claim expires, for the store and for the relay that holds it, which
\* leaves a margin for the difference.  The claim began after the row.
Lapse(k) ==
    /\ rows[k].claimed /\ rows[k].age > 0
    /\ Slow \/ ~Posting(k)
    /\ rows' = [rows EXCEPT ![k].claimed = FALSE]
    /\ dr' = [r \in Relays |-> [l \in Loops |-> [dr[r][l] EXCEPT !.own = @ \ {k}]]]
    /\ UNCHANGED <<live, result, ended, poll, lock, tracker, shown, faults>>

\* The give-up window of a row is over.
Rested(r, k) ==
    /\ k \in dead[r]
    /\ dead' = [dead EXCEPT ![r] = @ \ {k}]
    /\ UNCHANGED <<rows, live, result, ended, poll, dr, lock, fails, posted, shown, faults>>

\* The lock connection dies: Postgres frees the lock, the relay hears of it later.
LockDies(r) ==
    /\ lock = r
    /\ Fault("lock")
    /\ lock' = None
    /\ UNCHANGED <<rows, live, result, ended, poll, dr, tracker, shown>>

LockLost(r) ==
    /\ poll[r].on /\ ~poll[r].lost /\ lock # r
    /\ poll' = [poll EXCEPT ![r].lost = TRUE]
    /\ UNCHANGED <<rows, live, result, ended, dr, lock, tracker, shown, faults>>

\* The process dies and comes back with nothing in memory.
Crash(r) ==
    /\ Fault("crash")
    /\ live' = [k \in Runs |-> IF Home[k] = r THEN "gone" ELSE live[k]]
    /\ ended' = [k \in Runs |-> IF ended[k] = r THEN "forgotten" ELSE ended[k]]
    /\ poll' = [poll EXCEPT ![r] = [on |-> FALSE, lost |-> FALSE]]
    /\ dr' = [dr EXCEPT ![r] = [l \in Loops |-> Idle]]
    /\ lock' = IF lock = r THEN None ELSE lock
    /\ fails' = [fails EXCEPT ![r] = [k \in Keys |-> 0]]
    /\ posted' = [posted EXCEPT ![r] = {}]
    /\ dead' = [dead EXCEPT ![r] = {}]
    /\ UNCHANGED <<rows, result, shown>>

Drain(r, l) ==
    \/ ClaimBatch(r, l) \/ TakeRow(r, l) \/ DrainEnds(r, l) \/ Reclaim(r, l)
    \/ Verify(r, l) \/ Post(r, l) \/ Again(r, l) \/ Limited(r, l)
    \/ Probe(r, l) \/ Update(r, l) \/ Upload(r, l) \/ AckRow(r, l)

Handler(k) ==
    \/ LiveHears(k) \/ LiveCard(k) \/ LiveWhisper(k) \/ LiveFiles(k) \/ LiveFinalize(k) \/ LivePost(k)
    \/ LiveAgain(k) \/ LiveAck(k) \/ LiveGivesUp(k)

Next ==
    \/ \E k \in Runs : Handler(k) \/ EnqueueResult(k) \/ \E r \in Relays : RunEnds(k, r)
    \/ \E k \in Keys : EnqueuePost(k) \/ Age(k) \/ Lapse(k)
    \/ \E r \in Relays :
          \/ Poll(r) \/ CycleEnds(r) \/ LockDies(r) \/ LockLost(r) \/ Crash(r)
          \/ \E k \in Keys : Rested(r, k)
          \/ \E l \in Loops : Drain(r, l)

Spec == Init /\ [][Next]_vars

\* The row gets older than one claim.
FirstAge(k) == rows[k].age = 0 /\ Age(k)

\* Timers and promises: every process goes on with what it has begun, some
\* relay polls again while the lease is free, claims and windows run out.
\* No relay must crash, and no row must reach its maximum age.
FairSpec ==
    /\ Spec
    /\ \A k \in Runs : WF_vars(Handler(k)) /\ WF_vars(EnqueueResult(k))
    /\ \A k \in Keys : WF_vars(Lapse(k)) /\ WF_vars(FirstAge(k))
    /\ WF_vars(\E r \in Relays : Poll(r))
    /\ \A r \in Relays :
          /\ WF_vars(CycleEnds(r)) /\ WF_vars(LockLost(r))
          /\ \A l \in Loops : WF_vars(Drain(r, l))
          /\ \A k \in Keys : WF_vars(Rested(r, k))

(***************************************************************************)
(* Properties.                                                             *)
(***************************************************************************)

\* Every variable keeps its type; a tracker never counts up to the limit at
\* which it gives a row up.
TypeOK ==
    /\ rows \in [Keys -> RowType]
    /\ live \in [Runs -> LiveMidPost \cup {"ack", "muted", "gone"}]
    /\ result \in [Runs -> {"ok"} \cup Results]
    /\ ended \in [Runs -> Relays \cup {"running", "enqueued", "forgotten"}]
    /\ poll \in [Relays -> [on : BOOLEAN, lost : BOOLEAN]]
    /\ \A r \in Relays, l \in Loops :
          /\ dr[r][l].pc \in MidPost \cup {"off", "claim", "next", "reclaim", "ack"}
          /\ dr[r][l].queue \cup dr[r][l].own \cup dr[r][l].seen \subseteq RowsOf(l)
          /\ Cur(r, l) \in RowsOf(l) \cup {None}
    /\ lock \in Relays \cup {None}
    /\ fails \in [Relays -> [Keys -> 0..(MaxAttempts - 1)]]
    /\ posted \in [Relays -> SUBSET Keys] /\ dead \in [Relays -> SUBSET Keys]
    /\ posts \in [Keys -> Nat] /\ files \in [Keys -> Nat]
    /\ edited \in [Keys -> {"no", "plain", "marked"}] /\ noted \in [Keys -> BOOLEAN]
    /\ faults \in 0..MaxFaults

\* While no post outlives its claim, and no row is enqueued again after the
\* outbox expired it, no row is ever posted twice: not by the
\* handler and a poller, not by two relays, not after a crash between the
\* post and its acknowledgement, not after an answer that was lost.
PostedOnce == \A k \in Keys : posts[k] <= 1

\* A row is marked as delivered only when Slack shows it: as a message, as
\* the rewritten task message, or (without text) as files or the note that
\* they could not be uploaded.  Two handlers acknowledge what may not show: that
\* of a click, whose card is written beside the acknowledgement, and a failure
\* whispered to the requester.
Unseen(k) ==
    \/ k \in Eager /\ result[k] # "quarantined"
    \/ k \in Whispered /\ result[k] \in {"failed", "refused"}

AckedMeansShown ==
    \A k \in Keys :
        rows[k].status = "delivered" /\ ~Unseen(k) =>
            IF IsBare(k) THEN files[k] > 0 \/ noted[k] ELSE posts[k] > 0 \/ edited[k] # "no"

\* The row of a delivered reply with attachments has had them uploaded, or
\* says that they could not be.
FilesLand ==
    \A k \in WithFiles : rows[k].status = "delivered" /\ HasFiles(k) => files[k] > 0 \/ noted[k]

\* Every row of the outbox is in the end delivered or expired, however the
\* relays crash, lose the lease or fail to post.
RowsSettle == \A k \in Keys : rows[k].status = "open" ~> rows[k].status # "open"

\* The reply of every run that ends is shown by its handler, or gets a row in
\* the outbox from which a poller will show it (or expire it).
ResultsLand ==
    \A k \in Runs : ended[k] # "running" ~> posts[k] > 0 \/ rows[k].status # "none"

=============================================================================
