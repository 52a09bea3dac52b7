------------------------------- MODULE MCRuns --------------------------------
(***************************************************************************)
(* The run queue, at four scales, and the signals to a run, each on a small  *)
(* instance. A behaviour is of one part, and the others stay as they start,  *)
(* so that the state spaces add up and do not multiply.                      *)
(***************************************************************************)
EXTENDS RunQueue, FiniteSetsExt, TLC

CONSTANTS a1, k1, s1, s2, sweeper, x1, x2

VARIABLES
    part,      \* the component a behaviour is of; the others stay as they start
    target, queued, rows, order, calls, poll, hands, delivered, replays, refused, dropped, lost,
    blocked, faults

\* What a behaviour of the queue may use: its scale.
Scale == [
    reap   |-> [runs |-> 1, claims |-> 2, workers |-> 2, reapers |-> 2, handbacks |-> 0,
                stalls |-> 0, keys |-> {}, texts |-> {x1}],
    stall  |-> [runs |-> 1, claims |-> 2, workers |-> 1, reapers |-> 2, handbacks |-> 0,
                stalls |-> 1, keys |-> {}, texts |-> {x1}],
    budget |-> [runs |-> 1, claims |-> 5, workers |-> 1, reapers |-> 1, handbacks |-> 1,
                stalls |-> 0, keys |-> {}, texts |-> {x1}],
    edit   |-> [runs |-> 1, claims |-> 2, workers |-> 2, reapers |-> 1, handbacks |-> 1,
                stalls |-> 0, keys |-> {}, texts |-> {x1, x2}],
    order  |-> [runs |-> 2, claims |-> 3, workers |-> 1, reapers |-> 1, handbacks |-> 0,
                stalls |-> 0, keys |-> {}, texts |-> {x1}],
    pair   |-> [runs |-> 2, claims |-> 3, workers |-> 2, reapers |-> 0, handbacks |-> 0,
                stalls |-> 0, keys |-> {}, texts |-> {x1}],
    keys   |-> [runs |-> 2, claims |-> 2, workers |-> 1, reapers |-> 1, handbacks |-> 0,
                stalls |-> 0, keys |-> {k1}, texts |-> {x1}]]

Within(scale) ==
    /\ Cardinality({r \in RunIds : runs[r].status # "absent"}) <= scale.runs
    /\ Cardinality({w \in Workers : worker[w].pc # "idle" \/ drain[w].pc # "none"}) <= scale.workers
    /\ Cardinality({p \in Reapers : reaper[p].pc # "idle"}) <= scale.reapers
    /\ handbacks <= scale.handbacks /\ stalls <= scale.stalls
    /\ MapThenSumSet(LAMBDA r : runs[r].attempts, RunIds) <= scale.claims
    /\ \A r \in RunIds : /\ runs[r].key \in scale.keys \cup {Nil}
                         /\ runs[r].text \in scale.texts \cup {Nil}

QueueNext(scale) == Next /\ Within(scale)'

\* Ids of runs and processes are only compared for equality.
Symmetry == Permutations(RunIds) \cup Permutations(Workers) \cup Permutations(Reapers)

steerVars ==
    <<target, queued, rows, order, calls, poll, hands, delivered, replays, refused, dropped,
      lost, blocked, faults>>

\* A subagent's run, a steer that waits as a run of its own, and a fault.
Steer == INSTANCE RunSignals WITH
    Steers <- {s1}, Waiting <- {s1}, Aborts <- {}, Sweepers <- {sweeper}, Subagent <- TRUE,
    Declines <- TRUE, DrainOnStop <- FALSE, MaxAttempts <- 2, MaxFaults <- 1

\* A subagent's run, an abort and a fault.
Abort == INSTANCE RunSignals WITH
    Steers <- {}, Waiting <- {}, Aborts <- {a1}, Sweepers <- {sweeper}, Subagent <- TRUE,
    Declines <- TRUE, DrainOnStop <- FALSE, MaxAttempts <- 2, MaxFaults <- 1

\* A steer and an abort, without faults.
Both == INSTANCE RunSignals WITH
    Steers <- {s1}, Waiting <- {s1}, Aborts <- {a1}, Sweepers <- {sweeper}, Subagent <- TRUE,
    Declines <- TRUE, DrainOnStop <- FALSE, MaxAttempts <- 2, MaxFaults <- 0

\* A thread's own run, with a fault.
Thread == INSTANCE RunSignals WITH
    Steers <- {s1}, Waiting <- {s1}, Aborts <- {}, Sweepers <- {sweeper}, Subagent <- FALSE,
    Declines <- FALSE, DrainOnStop <- TRUE, MaxAttempts <- 2, MaxFaults <- 1

\* Two steers, without faults.
ThreadTwo == INSTANCE RunSignals WITH
    Steers <- {s1, s2}, Waiting <- {s2}, Aborts <- {}, Sweepers <- {sweeper}, Subagent <- FALSE,
    Declines <- FALSE, DrainOnStop <- TRUE, MaxAttempts <- 2, MaxFaults <- 0

\* A behaviour is of one part.
InitParts ==
    /\ part \in {"reap", "stall", "budget", "edit", "order", "pair", "keys", "steer",
                 "abort", "both", "thread", "thread_two"}
    /\ Init
    /\ IF part = "abort" THEN Abort!Init ELSE IF part = "both" THEN Both!Init ELSE IF part = "thread" THEN Thread!Init ELSE IF part = "thread_two" THEN ThreadTwo!Init ELSE Steer!Init

\* Only its component takes steps.
NextParts ==
    \/ /\ part = "reap" /\ QueueNext(Scale.reap)
       /\ UNCHANGED <<part, steerVars>>
    \/ /\ part = "stall" /\ QueueNext(Scale.stall)
       /\ UNCHANGED <<part, steerVars>>
    \/ /\ part = "budget" /\ QueueNext(Scale.budget)
       /\ UNCHANGED <<part, steerVars>>
    \/ /\ part = "edit" /\ QueueNext(Scale.edit)
       /\ UNCHANGED <<part, steerVars>>
    \/ /\ part = "order" /\ QueueNext(Scale.order)
       /\ UNCHANGED <<part, steerVars>>
    \/ /\ part = "pair" /\ QueueNext(Scale.pair)
       /\ UNCHANGED <<part, steerVars>>
    \/ /\ part = "keys" /\ QueueNext(Scale.keys)
       /\ UNCHANGED <<part, steerVars>>
    \/ /\ part = "steer" /\ Steer!Next
       /\ UNCHANGED <<part, vars>>
    \/ /\ part = "abort" /\ Abort!Next
       /\ UNCHANGED <<part, vars>>
    \/ /\ part = "both" /\ Both!Next
       /\ UNCHANGED <<part, vars>>
    \/ /\ part = "thread" /\ Thread!Next
       /\ UNCHANGED <<part, vars>>
    \/ /\ part = "thread_two" /\ ThreadTwo!Next
       /\ UNCHANGED <<part, vars>>

allVars ==
    <<part, vars, steerVars>>

SpecParts == InitParts /\ [][NextParts]_allVars

\* A signal to a run does not vanish and is used once: a steer is told to the model, replayed as
\* a run of its own or refused, and never twice, whichever of the poll, the reaper and the
\* sweeper gets hold of it; an abort stays in force for every later attempt.
SignalsUsedOnce ==
    /\ part = "steer" => Steer!TypeOK /\ Steer!NothingVanishes /\ Steer!UsedOnce
    /\ part = "abort" => Abort!TypeOK /\ Abort!AbortSticks
    /\ part = "both" => Both!TypeOK /\ Both!NothingVanishes /\ Both!UsedOnce /\ Both!AbortSticks
    /\ part = "thread" => Thread!TypeOK /\ Thread!UsedOnce
    /\ part = "thread_two" => ThreadTwo!TypeOK /\ ThreadTwo!UsedOnce
=============================================================================
