---------------------------- MODULE SessionQueue ----------------------------
(***************************************************************************)
(* What the run queue promises: the runs of a session execute one at a     *)
(* time, in the order they were submitted.  A run that stops without an    *)
(* outcome keeps its place; a run with an outcome never executes again.    *)
(* Leases, retries, crashes and clocks are below this level.               *)
(***************************************************************************)
EXTENDS Naturals

CONSTANTS RunIds, Sessions, Nil

VARIABLES
  state,               \* what became of each run
  session,             \* the session it was submitted to
  ticket,              \* its place in the order of submission
  issued               \* tickets handed out so far

queueVars == <<state, session, ticket, issued>>

Outcomes == {"ok", "busy", "failed"}

States == {"unknown", "waiting", "executing", "withdrawn"} \cup Outcomes

Init ==
  /\ state = [r \in RunIds |-> "unknown"]
  /\ session = [r \in RunIds |-> Nil]
  /\ ticket = [r \in RunIds |-> 0]
  /\ issued = 0

Submit(r, s) ==
  /\ state[r] = "unknown"
  /\ state' = [state EXCEPT ![r] = "waiting"]
  /\ session' = [session EXCEPT ![r] = s]
  /\ ticket' = [ticket EXCEPT ![r] = issued + 1]
  /\ issued' = issued + 1

(* r is at the head of its session's line, and nothing of it executes.     *)
Start(r) ==
  /\ state[r] = "waiting"
  /\ \A q \in RunIds :
       session[q] = session[r] =>
         /\ state[q] # "executing"
         /\ state[q] = "waiting" => ticket[r] <= ticket[q]
  /\ state' = [state EXCEPT ![r] = "executing"]
  /\ UNCHANGED <<session, ticket, issued>>

Stop(r) ==
  /\ state[r] = "executing"
  /\ state' = [state EXCEPT ![r] = "waiting"]
  /\ UNCHANGED <<session, ticket, issued>>

Finish(r, o) ==
  /\ state[r] = "executing"
  /\ state' = [state EXCEPT ![r] = o]
  /\ UNCHANGED <<session, ticket, issued>>

Withdraw(r) ==
  /\ state[r] = "waiting"
  /\ state' = [state EXCEPT ![r] = "withdrawn"]
  /\ session' = [session EXCEPT ![r] = Nil]
  /\ ticket' = [ticket EXCEPT ![r] = 0]
  /\ UNCHANGED issued

Next ==
  \E r \in RunIds :
    \/ \E s \in Sessions : Submit(r, s)
    \/ Start(r)
    \/ Stop(r)
    \/ \E o \in Outcomes : Finish(r, o)
    \/ Withdraw(r)

Spec == Init /\ [][Next]_queueVars
=============================================================================
