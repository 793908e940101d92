---------------------------- MODULE PlanExecutor ----------------------------
(***************************************************************************)
(* core/planning/_executor.py: execute, which runs a plan step by step and *)
(* replans a failed step, on a plan it mutates in place.  A caller may     *)
(* execute the same plan again, after a failure or a cancellation.         *)
(*                                                                         *)
(* execute awaits in two places, the tool or router call of a step         *)
(* ("step") and the planner ("planner"); an action is the code from one    *)
(* await to the next, the head of the loop included.                       *)
(*                                                                         *)
(* A step keeps its status and whether result and error are set; its       *)
(* description is abstracted to the step of the caller's plan it comes     *)
(* from, since replanning hands the planner the failed step's description. *)
(***************************************************************************)
EXTENDS Naturals, Sequences

CONSTANTS NumSteps,    \* steps of the plan the caller builds
          HasPlanner,  \* whether execute is given a planner
          MaxReplan,   \* max_replan
          MaxNew,      \* bound on the steps of a replacement plan
          MaxRuns      \* bound on the executions of the plan

ASSUME ExecutorAssumption ==
    /\ NumSteps \in Nat /\ MaxReplan \in Nat
    /\ MaxNew \in Nat \ {0} /\ MaxRuns \in Nat
    /\ HasPlanner \in BOOLEAN

VARIABLES steps,    \* plan.steps
          status,   \* plan.status
          pc,       \* what execute awaits, or "idle" when it is not running
          i,        \* the loop index, from 1
          budget,   \* replan_budget
          span,     \* status of the "plan:execute" span of the last run
          runs      \* executions started

vars == <<steps, status, pc, i, budget, span, runs>>

Statuses == {"pending", "running", "done", "failed"}
Origins == 1..NumSteps
Steps == [origin : Origins, status : Statuses,
          result : BOOLEAN, error : BOOLEAN]

NewStep(o) == [origin |-> o, status |-> "pending",
               result |-> FALSE, error |-> FALSE]

TypeOK == /\ steps \in Seq(Steps)
          /\ status \in Statuses
          /\ pc \in {"idle", "step", "planner"}
          /\ i \in Nat \ {0}
          /\ budget \in 0..MaxReplan
          /\ span \in {"none", "open", "OK", "ERROR"}
          /\ runs \in 0..MaxRuns

Init == /\ steps = [o \in Origins |-> NewStep(o)]
        /\ status = "pending"
        /\ pc = "idle"
        /\ i = 1
        /\ budget = 0
        /\ span = "none"
        /\ runs = 0

-----------------------------------------------------------------------------
(* The head of the loop: begin step j of s, or finish when there is none.  *)
BeginStep(s, j) ==
    IF j <= Len(s)
    THEN /\ steps' = [s EXCEPT ![j].status = "running"]
         /\ status' = "running"
         /\ pc' = "step"
         /\ span' = "open"
    ELSE /\ steps' = s
         /\ status' = "done"
         /\ pc' = "idle"
         /\ span' = "OK"

(* Bug: the span is left without a status when the plan fails, hence OK.   *)
HaltSilently == /\ status' = "failed"
                /\ pc' = "idle"
                /\ span' = "OK"

Halt == /\ status' = "failed"
        /\ pc' = "idle"
        /\ span' = "ERROR"

Execute == /\ pc = "idle"
           /\ runs < MaxRuns
           /\ runs' = runs + 1
           /\ budget' = MaxReplan
           /\ i' = 1
           /\ BeginStep(steps, 1)

(* Bug: the step's status is not updated.                                  *)
SucceededWithoutStatus(s) == [s EXCEPT ![i].result = TRUE]

Succeeded(s) == [s EXCEPT ![i].status = "done", ![i].result = TRUE]

StepSucceeds == /\ pc = "step"
                /\ i' = i + 1
                /\ BeginStep(Succeeded(steps), i + 1)
                /\ UNCHANGED <<budget, runs>>

Failed(s) == [s EXCEPT ![i].status = "failed", ![i].error = TRUE]

(* Bug: the budget is not looked at.                                       *)
CanAlwaysReplan == HasPlanner

CanReplan == HasPlanner /\ budget > 0

(* Bug: the budget is not decremented.                                     *)
StepFailsAndReplansForFree ==
    /\ pc = "step"
    /\ CanReplan
    /\ steps' = Failed(steps)
    /\ pc' = "planner"
    /\ UNCHANGED <<status, i, span, runs, budget>>

(* The failed step's description goes to the planner.                      *)
StepFailsAndReplans ==
    /\ pc = "step"
    /\ CanReplan
    /\ steps' = Failed(steps)
    /\ budget' = budget - 1
    /\ pc' = "planner"
    /\ UNCHANGED <<status, i, span, runs>>

StepFailsAndHalts ==
    /\ pc = "step"
    /\ ~CanReplan
    /\ steps' = Failed(steps)
    /\ Halt
    /\ UNCHANGED <<i, budget, runs>>

(* Bug: the splice drops the steps after the failed one.                   *)
SpliceDropsTail(s, j, new) == SubSeq(s, 1, j - 1) \o new

(* plan.steps[i : i + 1] = new_plan.steps, then the same index again.      *)
Splice(s, j, new) == SubSeq(s, 1, j - 1) \o new \o SubSeq(s, j + 1, Len(s))

(* A planner's plan for the description o: never an empty one, since the   *)
(* planners fall back to a single step.                                    *)
NewSteps(n, o) == [m \in 1..n |-> NewStep(o)]

(* Bug: after a replanning the plan starts over.                           *)
PlannerAnswersFromStart ==
    /\ pc = "planner"
    /\ \E n \in 1..MaxNew :
          BeginStep(Splice(steps, i, NewSteps(n, steps[i].origin)), 1)
    /\ i' = 1
    /\ UNCHANGED <<budget, runs>>

PlannerAnswers ==
    /\ pc = "planner"
    /\ \E n \in 1..MaxNew :
          BeginStep(Splice(steps, i, NewSteps(n, steps[i].origin)), i)
    /\ UNCHANGED <<i, budget, runs>>

PlannerRaises == /\ pc = "planner"
                 /\ Halt
                 /\ UNCHANGED <<steps, i, budget, runs>>

(* CancelledError at either await: the span closes, the plan stays as is.  *)
Cancel == /\ pc # "idle"
          /\ pc' = "idle"
          /\ span' = "ERROR"
          /\ UNCHANGED <<steps, status, i, budget, runs>>

Progress == \/ StepSucceeds \/ StepFailsAndReplans \/ StepFailsAndHalts
            \/ PlannerAnswers \/ PlannerRaises

NoMoreRuns == pc = "idle" /\ runs = MaxRuns /\ UNCHANGED vars

Next == Execute \/ Progress \/ Cancel \/ NoMoreRuns

Safety == Init /\ [][Next]_vars

(* The tool, the router and the planner come back, with a result or not.   *)
Spec == Safety /\ WF_vars(Progress)

-----------------------------------------------------------------------------
(* While execute runs, and when it has halted, everything before the index *)
(* is done and the step at the index is the one in trouble or in progress; *)
(* a plan is reported done only when each of its steps is, also after      *)
(* replanning spliced steps in and after earlier runs of the same plan.    *)
DoneUpTo(j) == \A k \in 1..(j - 1) : steps[k].status = "done"

StatusTellsProgress ==
    /\ pc = "step"       => DoneUpTo(i) /\ steps[i].status = "running"
    /\ pc = "planner"    => DoneUpTo(i) /\ steps[i].status = "failed"
    /\ status = "failed" => DoneUpTo(i) /\ steps[i].status = "failed"
    /\ status = "done"   => DoneUpTo(Len(steps) + 1)

(* The plan is never left short of a step of the caller's: every original  *)
(* step is still there, itself or as its replacements, in the order given. *)
NoStepLost ==
    /\ {steps[k].origin : k \in DOMAIN steps} = Origins
    /\ \A j, k \in DOMAIN steps : j < k => steps[j].origin <= steps[k].origin

(* Work that is done stays done while the plan runs: a failure, a splice   *)
(* or a halt changes no step before the index, and none is run again.      *)
DoneWorkIsKept ==
    [][pc # "idle" => /\ i' >= i
                      /\ \A k \in 1..(i - 1) : steps'[k] = steps[k]]_vars

(* The span agrees with what the caller got: OK for a plan that is done,   *)
(* ERROR for one that failed or was cancelled.                             *)
SpanTellsOutcome ==
    pc = "idle" /\ runs > 0 => /\ span = "OK" <=> status = "done"
                               /\ span = "ERROR" <=> status \in {"failed", "running"}

(* Every continuation of the loop uses up something finite: a step, or one *)
(* of the replannings, each worth the steps its plan may add.              *)
Fuel == budget * (MaxNew + 1) + (IF pc = "planner" THEN MaxNew ELSE 0)
          + (Len(steps) - i)

LoopUsesFuel == [][pc # "idle" /\ pc' # "idle" => Fuel' < Fuel]_vars

(* An execution ends, although every replanning can add steps.             *)
ExecutionEnds == pc # "idle" ~> pc = "idle"
=============================================================================
