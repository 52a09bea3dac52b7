----------------------------- MODULE MCDelivery ------------------------------
(***************************************************************************)
(* What leaves a run: the durable map the stores are built on, at two        *)
(* scales, and the delivery of results to Slack. A behaviour is of one part, *)
(* and the others stay as they start.                                        *)
(***************************************************************************)
EXTENDS DurableMap, FiniteSets, TLC

CONSTANTS None, c1, c2, c3, c4, k1, k2, p1, p2, r1, r2

VARIABLES
    part,      \* the component a behaviour is of; the others stay as they start
    relayRows, live, result, ended, poll, dr, relayLock, fails, posted, dead, posts, edited,
    files, noted, faults

\* Three calls of one process and one of another that list and delete, and one call of any
\* kind in each process.
Scale == [
    crowd |-> [calls |-> 3, kinds |-> {"delete", "all"}],
    pair  |-> [calls |-> 1, kinds |-> Kinds]]

Called == {c \in Callers : call[c].op # Absent}

Within(scale) ==
    /\ \A c \in Called : call[c].op.kind \in scale.kinds
    /\ \A p \in Procs : Cardinality({c \in Called : Home[c] = p}) <= scale.calls

MapNext(scale) == Next /\ Within(scale)'

\* The crowd starts from a row nobody has hit, and the other parts with an empty table.
MapInit ==
    /\ Init
    /\ part = "crowd" => \A i \in Ids : rows[i] # Absent => rows[i].hits = 0
    /\ part \notin {"crowd", "pair"} => \A i \in Ids : rows[i] = Absent

\* The calls that share a process can be swapped.
Symmetry == Permutations({c1, c2, c4})

MCHome == [c \in Callers |-> IF c = c3 THEN p2 ELSE p1]

HomeFirst == (k1 :> r1)
NoHome == [k \in {} |-> r1]

relayVars ==
    <<relayRows, live, result, ended, poll, dr, relayLock, fails, posted, dead, posts, edited,
      files, noted, faults>>

\* A scheduled post and a message to a person, two relays and a fault.
Relay == INSTANCE SlackDelivery WITH
    Relays <- {r1, r2}, Runs <- {}, Posts <- {k1}, Principals <- {k2}, InPlace <- {},
    WithFiles <- {}, Bare <- {}, Eager <- {}, Whispered <- {}, Results <- {"ok"},
    Home <- NoHome, MayFail <- {"crash", "claim", "verify", "post",
    "postlost", "ack", "acklost"}, MaxFaults <- 1, MaxAttempts <- 1, Slow <- FALSE,
    Expires <- FALSE, rows <- relayRows, lock <- relayLock

\* The result of a run, with a file, and a fault of any kind.
Result == INSTANCE SlackDelivery WITH
    Relays <- {r1, r2}, Runs <- {k1}, Posts <- {}, Principals <- {}, InPlace <- {},
    WithFiles <- {k1}, Bare <- {}, Eager <- {}, Whispered <- {},
    Results <- {"ok", "failed", "quarantined"}, Home <- HomeFirst, MayFail <- {"crash", "lock", "claim",
    "verify", "post", "postlost", "limit", "platform", "upload", "ack", "acklost", "live"},
    MaxFaults <- 1, MaxAttempts <- 2, Slow <- FALSE, Expires <- TRUE, rows <- relayRows,
    lock <- relayLock

\* The result of a run that replaces the message of its progress.
Edited == INSTANCE SlackDelivery WITH
    Relays <- {r1, r2}, Runs <- {k1}, Posts <- {}, Principals <- {}, InPlace <- {k1},
    WithFiles <- {k1}, Bare <- {}, Eager <- {}, Whispered <- {}, Results <- {"ok"},
    Home <- HomeFirst, MayFail <- {"crash", "claim", "verify",
    "update", "upload", "ack", "live"}, MaxFaults <- 2, MaxAttempts <- 2, Slow <- FALSE,
    Expires <- TRUE, rows <- relayRows, lock <- relayLock

\* A run that fails in a channel, or that nobody asked for, and a fault.
Failure == INSTANCE SlackDelivery WITH
    Relays <- {r1, r2}, Runs <- {k1}, Posts <- {}, Principals <- {}, InPlace <- {},
    WithFiles <- {}, Bare <- {}, Eager <- {}, Whispered <- {k1},
    Results <- {"failed", "refused", "quarantined", "ignored"}, Home <- HomeFirst,
    MayFail <- {"crash", "claim", "verify", "post", "postlost", "ack"}, MaxFaults <- 1,
    MaxAttempts <- 2, Slow <- FALSE, Expires <- TRUE, rows <- relayRows, lock <- relayLock

\* A run that a click started, and two faults.
Clicked == INSTANCE SlackDelivery WITH
    Relays <- {r1, r2}, Runs <- {k1}, Posts <- {}, Principals <- {}, InPlace <- {},
    WithFiles <- {}, Bare <- {}, Eager <- {k1}, Whispered <- {},
    Results <- {"ok", "quarantined"}, Home <- HomeFirst, MayFail <- {"crash", "update", "ack"},
    MaxFaults <- 2, MaxAttempts <- 2, Slow <- FALSE, Expires <- TRUE, rows <- relayRows,
    lock <- relayLock

\* A behaviour is of one part.
InitParts ==
    /\ part \in {"crowd", "pair", "posts", "run", "in_place", "failure", "clicked"}
    /\ MapInit
    /\ CASE part = "run" -> Result!Init
         [] part = "in_place" -> Edited!Init
         [] part = "failure" -> Failure!Init
         [] part = "clicked" -> Clicked!Init
         [] OTHER -> Relay!Init

\* Only its component takes steps.
NextParts ==
    \/ /\ part = "crowd" /\ MapNext(Scale.crowd)
       /\ UNCHANGED <<part, relayVars>>
    \/ /\ part = "pair" /\ MapNext(Scale.pair)
       /\ UNCHANGED <<part, relayVars>>
    \/ /\ part = "posts" /\ Relay!Next
       /\ UNCHANGED <<part, vars>>
    \/ /\ part = "run" /\ Result!Next
       /\ UNCHANGED <<part, vars>>
    \/ /\ part = "in_place" /\ Edited!Next
       /\ UNCHANGED <<part, vars>>
    \/ /\ part = "failure" /\ Failure!Next
       /\ UNCHANGED <<part, vars>>
    \/ /\ part = "clicked" /\ Clicked!Next
       /\ UNCHANGED <<part, vars>>

allVars ==
    <<part, vars, relayVars>>

SpecParts == InitParts /\ [][NextParts]_allVars

\* A result is posted once, and its row is acknowledged only when Slack shows it or was told
\* that it failed; not so for a click's turn, and for a failure that only the requester is shown.
ResultsPostedOnce ==
    /\ part = "posts" => Relay!TypeOK /\ Relay!PostedOnce /\ Relay!AckedMeansShown
    /\ part = "run" => Result!TypeOK /\ Result!PostedOnce /\ Result!AckedMeansShown
    /\ part = "in_place" => Edited!TypeOK /\ Edited!AckedMeansShown
    /\ part = "failure" => Failure!TypeOK /\ Failure!PostedOnce /\ Failure!AckedMeansShown
    /\ part = "clicked" => Clicked!TypeOK /\ Clicked!PostedOnce /\ Clicked!AckedMeansShown
=============================================================================
