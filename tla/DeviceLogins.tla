---------------------------- MODULE DeviceLogins ----------------------------
(***************************************************************************)
(* The logins people make on an agent's machine (src/credentials/                *)
(* device-flow-persist.ts).  The end of a turn captures a changed login from the     *)
(* home into its owner's keychain, and notes its hash in a state file in the home; a   *)
(* later turn ships what the note does not match.  A machine without the login gets      *)
(* it back from the keychain.  One service; its contents are a version.  Turns of          *)
(* several sessions run on one machine.                                        *)
(***************************************************************************)
EXTENDS Naturals

CONSTANTS
    Turns,
    MaxVersions,     \* bound: logins, rotations and credentials saved
    MaxEvents,       \* bound: machines replaced, logins reset, records removed
    MaxFailures,     \* bound: captures that fail, and state files not written
    Builtin,         \* the service's path is swept for everyone
    Oversized,       \* the versions of more files or bytes than a capture takes
    None

VARIABLES
    home,            \* the version in the home, or 0
    noted,           \* the version whose hash .cred-state has, or 0
    record,          \* the keychain's record: its version and origin, or None
    versions,        \* versions that exist
    turn,            \* turn[t]
    events, failures

vars == <<home, noted, record, versions, turn, events, failures>>

Versions == 1 .. MaxVersions

Records == [v : Versions, origin : {"device-flow", "operator"}]

\* gate: an ordinary capture, which ships what changed; print: the record's version as listed;
\* before: the hash taken first; got: what the archive has; tries: of the save.
Idle == [pc |-> "idle", gate |-> TRUE, print |-> 0, before |-> 0, got |-> 0, tries |-> 0, ok |-> FALSE]

\* Every variable has a value of its type.
TypeOK ==
    /\ home \in 0 .. versions /\ noted \in 0 .. versions
    /\ record = None \/ record \in Records
    /\ versions \in 0 .. MaxVersions
    /\ \A t \in Turns :
        /\ turn[t].pc \in {"idle", "listed", "hashed", "archived", "saving", "inserting", "paths", "commit", "placing"}
        /\ turn[t].tries \in 0 .. 2
        /\ turn[t].pc \in {"saving", "inserting"} => turn[t].got # 0
    /\ events \in 0 .. MaxEvents /\ failures \in 0 .. MaxFailures

Init ==
    /\ home = 0 /\ noted = 0 /\ record = None /\ versions = 0
    /\ turn = [t \in Turns |-> Idle]
    /\ events = 0 /\ failures = 0

(* ---- captureDeviceFlowLogins -------------------------------------------- *)

\* A login taken by an earlier capture is swept; so is a path everyone has, and one registered now.
Swept(gate) == Builtin \/ ~gate \/ (record # None /\ record.origin = "device-flow")

\* The owner's records are listed, and say what is swept; an ordinary capture (gate), or one for
\* register_login, which refuses a service whose record no capture made.
List(t, gate) ==
    /\ turn[t].pc = "idle"
    /\ ~gate => home # 0 /\ (record # None => record.origin = "device-flow")
    /\ turn' = [turn EXCEPT ![t] = [Idle EXCEPT !.pc = IF Swept(gate) THEN "listed" ELSE "commit",
                                                !.gate = gate,
                                                !.print = IF record = None THEN 0 ELSE record.v]]
    /\ UNCHANGED <<home, noted, record, versions, events, failures>>

\* The script hashes the login: there is none, or the note matches and it is kept, or it ships.
Hash(t) ==
    /\ turn[t].pc = "listed"
    /\ LET kept == home # 0 /\ turn[t].gate /\ noted = home
       IN  turn' = [turn EXCEPT ![t].before = home, ![t].ok = kept,
                                ![t].pc = IF home = 0 \/ kept THEN "commit" ELSE "hashed"]
    /\ UNCHANGED <<home, noted, record, versions, events, failures>>

\* It archives the login.
Archive(t) ==
    /\ turn[t].pc = "hashed"
    /\ turn' = [turn EXCEPT ![t].pc = "archived", ![t].got = home]
    /\ UNCHANGED <<home, noted, record, versions, events, failures>>

\* It hashes it again: a login that changed meanwhile, or that the archive lacks, is left for the
\* next turn; one over the caps, or whose contents the record had, is dealt with and not saved.
Rehash(t) ==
    /\ turn[t].pc = "archived"
    /\ LET steady == home = turn[t].before /\ turn[t].got # 0
           skip   == turn[t].got \in Oversized \/ turn[t].print = turn[t].got
       IN  turn' = [turn EXCEPT ![t].pc = IF steady /\ ~skip THEN "saving" ELSE "commit",
                                ![t].ok = steady /\ skip]
    /\ UNCHANGED <<home, noted, record, versions, events, failures>>

(* ---- saveCredential, guarded by the origin ------------------------------ *)

\* After the save a registration records its paths; an ordinary capture writes the note.
Then(t) == IF turn[t].gate THEN "commit" ELSE "paths"

\* There is a record: a capture's is replaced, another's makes the save fail with 409, after
\* which the login counts as dealt with.
SaveUpdates(t) ==
    /\ turn[t].pc = "saving" /\ record # None
    /\ record' = IF record.origin = "device-flow" THEN [v |-> turn[t].got, origin |-> "device-flow"] ELSE record
    /\ turn' = [turn EXCEPT ![t].pc = Then(t), ![t].ok = TRUE]
    /\ UNCHANGED <<home, noted, versions, events, failures>>

\* There is none to update.
SaveMisses(t) ==
    /\ turn[t].pc = "saving" /\ record = None
    /\ turn' = [turn EXCEPT ![t].pc = "inserting"]
    /\ UNCHANGED <<home, noted, record, versions, events, failures>>

\* insertIfAbsent
SaveInserts(t) ==
    /\ turn[t].pc = "inserting" /\ record = None
    /\ record' = [v |-> turn[t].got, origin |-> "device-flow"]
    /\ turn' = [turn EXCEPT ![t].pc = Then(t), ![t].ok = TRUE]
    /\ UNCHANGED <<home, noted, versions, events, failures>>

\* Another wrote one meanwhile: it is tried again, and after the third time the login is left
\* for the next turn.
SaveRaced(t) ==
    /\ turn[t].pc = "inserting" /\ record # None
    /\ turn' = IF turn[t].tries < 2 THEN [turn EXCEPT ![t].pc = "saving", ![t].tries = @ + 1]
               ELSE [turn EXCEPT ![t].pc = Then(t)]
    /\ UNCHANGED <<home, noted, record, versions, events, failures>>

\* setCapturePaths: they go on the record, if there is one that a capture made.
SetCapturePaths(t) ==
    /\ turn[t].pc = "paths"
    /\ turn' = [turn EXCEPT ![t] = Idle]
    /\ UNCHANGED <<home, noted, record, versions, events, failures>>

\* The state file gets the hash of what was kept or dealt with, and loses any other.
Commit(t) ==
    /\ turn[t].pc = "commit"
    /\ noted' = IF ~turn[t].gate THEN noted ELSE IF turn[t].ok THEN turn[t].before ELSE 0
    /\ turn' = [turn EXCEPT ![t] = Idle]
    /\ UNCHANGED <<home, record, versions, events, failures>>

\* The capture fails at some point, or the state file is not written.
Fail(t) ==
    /\ turn[t].pc # "idle" /\ failures < MaxFailures
    /\ failures' = failures + 1
    /\ turn' = [turn EXCEPT ![t] = Idle]
    /\ UNCHANGED <<home, noted, record, versions, events>>

(* ---- materializeDeviceFlowLogins ---------------------------------------- *)

\* The record a capture made is read, and the home has no login.
RestoreReads(t) ==
    /\ turn[t].pc = "idle" /\ record # None /\ record.origin = "device-flow" /\ home = 0
    /\ turn' = [turn EXCEPT ![t] = [Idle EXCEPT !.pc = "placing", !.got = record.v]]
    /\ UNCHANGED <<home, noted, record, versions, events, failures>>

\* The script puts it there, unless there is one by now.
RestorePlaces(t) ==
    /\ turn[t].pc = "placing"
    /\ home' = IF home = 0 THEN turn[t].got ELSE home
    /\ turn' = [turn EXCEPT ![t] = Idle]
    /\ UNCHANGED <<noted, record, versions, events, failures>>

(* ---- what happens meanwhile --------------------------------------------- *)

\* Someone logs in on the machine, or a tool rotates its token.
LogIn ==
    /\ versions < MaxVersions /\ versions' = versions + 1
    /\ home' = versions + 1
    /\ UNCHANGED <<noted, record, turn, events, failures>>

\* The machine is replaced; turns on it fail.
ReplaceMachine ==
    /\ events < MaxEvents /\ events' = events + 1
    /\ home' = 0 /\ noted' = 0
    /\ turn' = [t \in Turns |-> Idle]
    /\ UNCHANGED <<record, versions, failures>>

\* removeDeviceFlowLogins: the record's files leave the home.
RemoveResident ==
    /\ events < MaxEvents /\ events' = events + 1
    /\ record # None /\ record.origin = "device-flow"
    /\ home' = 0
    /\ UNCHANGED <<noted, record, versions, turn, failures>>

\* The owner saves the credential themself.
OperatorSaves ==
    /\ versions < MaxVersions /\ versions' = versions + 1
    /\ record' = [v |-> versions + 1, origin |-> "operator"]
    /\ UNCHANGED <<home, noted, turn, events, failures>>

\* The owner removes the record.
OperatorRemoves ==
    /\ events < MaxEvents /\ events' = events + 1
    /\ record # None /\ record' = None
    /\ UNCHANGED <<home, noted, versions, turn, failures>>

Captures(t) ==
    \/ Hash(t) \/ Archive(t) \/ Rehash(t) \/ SaveUpdates(t) \/ SaveMisses(t) \/ SaveInserts(t) \/ SaveRaced(t)
    \/ SetCapturePaths(t) \/ Commit(t) \/ RestorePlaces(t)

Next ==
    \/ \E t \in Turns :
        \/ Captures(t) \/ Fail(t) \/ RestoreReads(t)
        \/ \E gate \in BOOLEAN : List(t, gate)
    \/ LogIn \/ ReplaceMachine \/ RemoveResident \/ OperatorSaves \/ OperatorRemoves

Spec == Init /\ [][Next]_vars

\* A capture or a restore that began goes on.
FairSpec == Spec /\ \A t \in Turns : WF_vars(Captures(t))

(* ---- properties --------------------------------------------------------- *)

\* What a restore puts on a machine never replaces a login made there meanwhile: the version in a
\* home only goes up while there is one.
LiveLoginWins == [][home # 0 /\ home' # 0 => home' >= home]_vars

\* A capture never replaces a credential its owner saved.
OperatorStays ==
    [][record # None /\ record.origin = "operator" /\ record' # None => record'.origin = "operator"]_vars

\* What the note says is in the keychain is there: between captures, a login within the caps whose
\* hash is noted is the record's contents, unless the owner saved another or removed it.
NotedIsSaved ==
    (\A t \in Turns : turn[t].pc = "idle") /\ home \notin Oversized \cup {0} /\ noted = home
        => record = None \/ record.origin = "operator" \/ record.v = home

\* Nobody but the people of the session starts a turn: this one has another, again and again.
MoreTurns(t) == []<><<List(t, TRUE)>>_vars

\* A login within the caps that stays on the machine reaches the keychain as long as turns go on,
\* unless the owner's own record is there.
Captured ==
    \A t \in Turns, v \in Versions \ Oversized : MoreTurns(t) =>
        home = v ~> home # v \/ (record # None /\ (record.v = v \/ record.origin = "operator"))
=============================================================================
