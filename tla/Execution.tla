----------------------------- MODULE Execution -----------------------------
(***************************************************************************)
(* What the workflow commands look at and act on: one execution record of  *)
(* the control plane and the engine runs behind it.  The engine (Temporal) *)
(* may run the same workflow id again after a run has closed, and the      *)
(* record may come to stand for the new incarnation; the commands must not *)
(* follow it there.  All of this is outside the repository and modelled    *)
(* from what cmd/workflow_execution.go and its tests expect of it.         *)
(*                                                                         *)
(* Resource cleanup is tracked apart from closure: it may not be required, *)
(* and where it is it goes on after the run has closed, fails, and is      *)
(* retried by the platform.                                                *)
(***************************************************************************)
EXTENDS Naturals, Functions

CONSTANTS
  MaxRuns,      \* bound: incarnations under the one workflow id
  MaxStages     \* bound: stages the incarnations record between them

ASSUME RunBounds == MaxRuns \in Nat \ {0} /\ MaxStages \in Nat

VARIABLES
  state,        \* engine: the status of every incarnation
  cleanup,      \* the cleanup status of every incarnation
  stages,       \* how many stages every incarnation has recorded
  bound,        \* the incarnation the record stands for
  seen          \* the control plane can observe the engine

engine == <<state, cleanup, stages>>
record == <<bound, seen>>
world == <<engine, record>>

Runs == 1 .. MaxRuns
Closed == {"completed", "failed", "cancelled"}
Done == {"completed", "not_required"}

(* The run that a request by workflow id alone reaches. *)
Newest == CHOOSE r \in Runs :
  /\ state[r] # "none"
  /\ \A q \in Runs : state[q] # "none" => q <= r

WorldInit ==
  /\ state = [r \in Runs |-> IF r = 1 THEN "running" ELSE "none"]
  /\ cleanup \in [Runs -> {"not_requested", "not_required"}]
  /\ stages = [r \in Runs |-> 0]
  /\ bound = 1 /\ seen \in BOOLEAN

Stage ==
  /\ state[Newest] = "running"
  /\ SumFunction(stages) < MaxStages
  /\ stages' = [stages EXCEPT ![Newest] = @ + 1]
  /\ UNCHANGED <<state, cleanup, record>>

(* A run closes, cancelled by whomever or on its own; what it owns is then *)
(* to be cleaned up.                                                       *)
Close(status) ==
  /\ state[Newest] = "running"
  /\ state' = [state EXCEPT ![Newest] = status]
  /\ cleanup' = [cleanup EXCEPT ![Newest] = IF @ = "not_required" THEN @ ELSE "pending"]
  /\ UNCHANGED <<stages, record>>

Clean ==
  \E r \in Runs :
    /\ cleanup[r] = "pending"
    /\ cleanup' = [cleanup EXCEPT ![r] = "completed"]
    /\ UNCHANGED <<state, stages, record>>

CleanupFails ==
  \E r \in Runs :
    /\ cleanup[r] = "pending"
    /\ cleanup' = [cleanup EXCEPT ![r] = "failed"]
    /\ UNCHANGED <<state, stages, record>>

RetryCleanup(r) ==
  /\ cleanup[r] = "failed"
  /\ cleanup' = [cleanup EXCEPT ![r] = "pending"]
  /\ UNCHANGED <<state, stages, record>>

(* The workflow id is run again, and the record is rebound to that run.    *)
Restart ==
  /\ state[Newest] \in Closed /\ Newest < MaxRuns
  /\ state' = [state EXCEPT ![Newest + 1] = "running"]
  /\ UNCHANGED <<cleanup, stages, record>>

Rebind ==
  /\ bound < Newest
  /\ bound' = Newest
  /\ UNCHANGED <<engine, seen>>

Reachable ==
  /\ seen' = ~seen
  /\ UNCHANGED <<engine, bound>>

WorldNext ==
  \/ Stage
  \/ \E status \in Closed : Close(status)
  \/ Clean
  \/ CleanupFails
  \/ \E r \in Runs : RetryCleanup(r)
  \/ Restart
  \/ Rebind
  \/ Reachable

WorldTypeOK ==
  /\ state \in [Runs -> Closed \cup {"none", "running"}]
  /\ cleanup \in [Runs -> {"not_requested", "not_required", "pending", "failed", "completed"}]
  /\ stages \in [Runs -> 0 .. MaxStages]
  /\ bound \in Runs /\ seen \in BOOLEAN

(* The execution has closed, is cleaned up, and can be seen to have.       *)
Over == seen /\ state[bound] \in Closed /\ cleanup[bound] \in Done

(* What the control plane has recorded of the run lags behind the engine.  *)
Recorded == {"running", state[bound]}

(* The answer to a reading of the execution.  Without the engine it is the *)
(* recorded state, marked unverified, perhaps without the engine's ids.    *)
Unknown == 0
Rows ==
  IF seen
  THEN {[run |-> bound, status |-> state[bound], cleanup |-> cleanup[bound], ok |-> TRUE]}
  ELSE {[run |-> r, status |-> s, cleanup |-> cleanup[bound], ok |-> FALSE] :
          r \in {Unknown, bound}, s \in Recorded}
=============================================================================
