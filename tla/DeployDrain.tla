----------------------------- MODULE DeployDrain -----------------------------
(***************************************************************************)
(* What a process does with its worker while a newer build is rolled out   *)
(* next to it (createDrainController, createPostgresInstanceRegistry).     *)
(* Every process beats; one that sees the beat of a newer build stops      *)
(* claiming runs and finishes the one it has, and resumes when the newer   *)
(* build is gone.  The same sweep keeps the task protected from scale-in   *)
(* while a run executes (createEcsTaskProtection); the claim of a run      *)
(* (onClaimed) does so at once.                                            *)
(*                                                                         *)
(* The queue is a number of runs; one worker per process.                  *)
(***************************************************************************)
EXTENDS Naturals

CONSTANTS Procs,      \* processes
          Build,      \* the build of each process
          StartedAt,  \* when each process was started
          Mortal,     \* processes that may die
          Runs        \* runs that are enqueued

VARIABLES
    up,          \* "new", "up" or "down"
    fresh,       \* processes whose last beat is younger than the liveness window
    superseded,  \* the drain controller's flag, per process
    sweep,       \* the protection requests of sweeps that are under way
    on,          \* protectionOn, per process
    notes,       \* processes whose noteBusy() request is under way
    protected,   \* what the agent last did, per process
    worker,      \* "poll", "claiming", "running" or "ended", per process
    queue        \* runs that wait

vars == <<up, fresh, superseded, sweep, on, notes, protected, worker, queue>>

TypeOK ==
    /\ up \in [Procs -> {"new", "up", "down"}] /\ fresh \subseteq Procs
    /\ superseded \in [Procs -> BOOLEAN]
    /\ sweep \in [Procs -> SUBSET {"protect", "unprotect"}]
    /\ on \in [Procs -> BOOLEAN] /\ notes \subseteq Procs
    /\ protected \in [Procs -> BOOLEAN]
    /\ worker \in [Procs -> {"off", "poll", "claiming", "running", "ended"}]
    /\ queue \in 0 .. Runs

Init ==
    /\ up = [p \in Procs |-> "new"] /\ fresh = {}
    /\ superseded = [p \in Procs |-> FALSE] /\ sweep = [p \in Procs |-> {}]
    /\ on = [p \in Procs |-> FALSE] /\ notes = {}
    /\ protected = [p \in Procs |-> FALSE]
    /\ worker = [p \in Procs |-> "off"] /\ queue = Runs

Alive(p) == up[p] = "up"
Busy(p) == worker[p] = "running"

Start(p) ==
    /\ up[p] = "new" /\ up' = [up EXCEPT ![p] = "up"]
    /\ \A q \in Procs : StartedAt[q] < StartedAt[p] => up[q] # "new"
    /\ worker' = [worker EXCEPT ![p] = "poll"]
    /\ UNCHANGED <<fresh, superseded, sweep, on, notes, protected, queue>>

(* The registry's answer to a beat.                                        *)
NewerBuild(p) == \E q \in fresh : Build[q] # Build[p] /\ StartedAt[q] > StartedAt[p]

(* A sweep up to the protection request that it may send.  Sweeps are not  *)
(* serialized: one may begin while the request of another is under way.    *)
Sweep(p) ==
    /\ Alive(p)
    /\ fresh' = fresh \cup {p}
    /\ superseded' = [superseded EXCEPT ![p] = NewerBuild(p)]
    /\ sweep' = [sweep EXCEPT ![p] = @ \cup
          (IF Busy(p) THEN {"protect"} ELSE IF on[p] THEN {"unprotect"} ELSE {})]
    /\ UNCHANGED <<up, on, notes, protected, worker, queue>>

(* The request is answered; set() reports a failure to nobody.             *)
SweepSets(p) ==
    \E r \in sweep[p] :
        /\ Alive(p) /\ sweep' = [sweep EXCEPT ![p] = @ \ {r}]
        /\ protected' = [protected EXCEPT ![p] = r = "protect"]
        /\ on' = [on EXCEPT ![p] = r = "protect"]
        /\ UNCHANGED <<up, fresh, superseded, notes, worker, queue>>

NoteLands(p) ==
    /\ Alive(p) /\ p \in notes /\ notes' = notes \ {p}
    /\ protected' = [protected EXCEPT ![p] = TRUE]
    /\ UNCHANGED <<up, fresh, superseded, sweep, on, worker, queue>>

(* A beat that is not renewed grows old.                                   *)
BeatExpires(p) ==
    /\ up[p] = "down" /\ p \in fresh /\ fresh' = fresh \ {p}
    /\ UNCHANGED <<up, superseded, sweep, on, notes, protected, worker, queue>>

(* The process dies; the run it held is queued again by the reaper.        *)
Die(p) ==
    /\ p \in Mortal /\ Alive(p) /\ up' = [up EXCEPT ![p] = "down"]
    /\ worker' = [worker EXCEPT ![p] = "off"]
    /\ queue' = queue + (IF worker[p] \in {"claiming", "running"} THEN 1 ELSE 0)
    /\ UNCHANGED <<fresh, superseded, sweep, on, notes, protected>>

-----------------------------------------------------------------------------
(* The worker's loop.                                                      *)

Claim(p) ==
    /\ worker[p] = "poll" /\ ~superseded[p] /\ queue > 0
    /\ worker' = [worker EXCEPT ![p] = "claiming"] /\ queue' = queue - 1
    /\ UNCHANGED <<up, fresh, superseded, sweep, on, notes, protected>>

(* The claim comes back; noteBusy() asks for protection unless it is on.   *)
Claimed(p) ==
    /\ worker[p] = "claiming" /\ ~superseded[p]
    /\ worker' = [worker EXCEPT ![p] = "running"]
    /\ on' = [on EXCEPT ![p] = TRUE]
    /\ notes' = IF on[p] THEN notes ELSE notes \cup {p}
    /\ UNCHANGED <<up, fresh, superseded, sweep, protected, queue>>

(* Superseded meanwhile: the run is given back, and the loop ends.         *)
HandBack(p) ==
    /\ worker[p] = "claiming" /\ superseded[p]
    /\ worker' = [worker EXCEPT ![p] = "ended"] /\ queue' = queue + 1
    /\ UNCHANGED <<up, fresh, superseded, sweep, on, notes, protected>>

Finish(p) ==
    /\ worker[p] = "running" /\ worker' = [worker EXCEPT ![p] = "poll"]
    /\ UNCHANGED <<up, fresh, superseded, sweep, on, notes, protected, queue>>

-----------------------------------------------------------------------------
Next ==
    \E p \in Procs :
        \/ Start(p) \/ Sweep(p) \/ SweepSets(p) \/ NoteLands(p) \/ BeatExpires(p)
        \/ Die(p) \/ Claim(p) \/ Claimed(p) \/ HandBack(p) \/ Finish(p)

Spec == Init /\ [][Next]_vars

\* A claim in flight becomes work or is handed back.
ClaimSettles(p) == Claimed(p) \/ HandBack(p)

(* Sweeps and requests go on, and a worker that can proceed does.  Finish  *)
(* is not fair: a run may take any time.                                   *)
FairSpec ==
    /\ Spec
    /\ \A p \in Procs :
          /\ WF_vars(Start(p)) /\ WF_vars(Sweep(p)) /\ WF_vars(SweepSets(p))
          /\ WF_vars(NoteLands(p)) /\ WF_vars(BeatExpires(p))
          /\ WF_vars(Claim(p)) /\ WF_vars(ClaimSettles(p))

-----------------------------------------------------------------------------
(* Properties.                                                             *)

(* A run that waits is claimed for good by some process, unless a worker   *)
(* is busy with another: a rollout never leaves a run that no process      *)
(* would take ("claiming resumes when the newer build dies",               *)
(* test/deploy-drain.test.ts).                                             *)
RunsAreTaken == (queue > 0) ~> (queue = 0 \/ \E p \in Procs : Busy(p))

(* A process that executes a run is protected, or the request is on its    *)
(* way ("noteBusy asserts protection at the idle->busy edge").             *)
BusyIsProtected ==
    \A p \in Procs : Busy(p) => protected[p] \/ p \in notes \/ "protect" \in sweep[p]

(* The sweep makes up for whatever noteBusy() missed.                      *)
BusyGetsProtected ==
    \A p \in Procs : Busy(p) ~> (protected[p] \/ ~Busy(p))
=============================================================================
