----------------------------- MODULE Supervisor -----------------------------
(***************************************************************************)
(* core/hierarchical_agents/_supervisor.py: one Supervisor.run, which has  *)
(* a planner make steps and delegates them round-robin to workers, one     *)
(* after the other or, through asyncio.gather, all at once; with the       *)
(* workers (_agent.py) and the dispatcher of their tools                   *)
(* (core/tool_orchestration/_dispatcher.py).                               *)
(*                                                                         *)
(* A worker calls the LLM router, or a tool: an async one is awaited on    *)
(* the loop, a sync one runs in the loop's thread pool (asyncio.to_thread),*)
(* which a cancellation reaches only as long as the job is queued.  An     *)
(* action is the code between two awaits of one task, or one step of the   *)
(* pool.  How the supervisor is set up is chosen by the initial state.     *)
(***************************************************************************)
EXTENDS Naturals, Sequences, FiniteSets

CONSTANTS NumWorkers,  \* len(workers)
          MaxSteps,    \* bound on the steps of a plan
          PoolSize     \* threads of the event loop's default executor

ASSUME SupervisorAssumption == /\ NumWorkers \in Nat \ {0}
                               /\ MaxSteps \in Nat \ {0}
                               /\ PoolSize \in Nat \ {0}

VARIABLES parallel,  \* the parallel flag
          kind,      \* what each worker uses, see Kinds
          sup,       \* where run is, or how it ended
          task,      \* where the delegation of each step is, or how it ended
          job,       \* the thread pool's job for each step
          results,   \* SupervisorResult.results: "ok" or "err" of each step
          failed,    \* SupervisorResult.failed_count
          span       \* status of the "supervisor:run" span

config == <<parallel, kind>>
vars == <<parallel, kind, sup, task, job, results, failed, span>>

(* A "bad" worker's tool is unknown or refuses the arguments.              *)
Kinds == {"llm", "async", "thread", "bad"}
Jobs == {"none", "queued", "running", "ok", "err", "dropped"}
Settled == {"ok", "err", "raised", "cancelled"}
Over == {"returned", "raised", "cancelled"}

TypeOK ==
    /\ parallel \in BOOLEAN
    /\ kind \in [1..NumWorkers -> Kinds]
    /\ sup \in {"idle", "planning", "working", "cancelling"} \cup Over
    /\ task \in Seq({"none", "ready", "awaiting"} \cup Settled)
    /\ job \in Seq(Jobs) /\ Len(job) = Len(task) /\ Len(task) <= MaxSteps
    /\ results \in Seq({"ok", "err"})
    /\ failed \in 0..MaxSteps
    /\ span \in {"none", "open", "OK", "ERROR"}

Init == /\ parallel \in BOOLEAN
        /\ kind \in [1..NumWorkers -> Kinds]
        /\ sup = "idle"
        /\ task = <<>> /\ job = <<>>
        /\ results = <<>> /\ failed = 0
        /\ span = "none"

-----------------------------------------------------------------------------
Steps == DOMAIN task

KindOf(i) == kind[((i - 1) % NumWorkers) + 1]

AllSettled == \A i \in Steps : task[i] \in Settled

End(outcome, status) == sup' = outcome /\ span' = status

(* Bug: the next step is begun only after a success.                       *)
FinishWaitsForSuccess(i, outcome) ==
    task' = [k \in Steps |->
                IF k = i THEN outcome
                ELSE IF k = i + 1 /\ ~parallel /\ outcome = "ok" THEN "ready"
                ELSE task[k]]

(* The worker's result is there; a sequential run goes on to the next step.*)
Finish(i, outcome) ==
    task' = [k \in Steps |-> IF k = i THEN outcome
                             ELSE IF k = i + 1 /\ ~parallel THEN "ready"
                             ELSE task[k]]

-----------------------------------------------------------------------------
(* The supervisor.                                                         *)

Run == /\ sup = "idle"
       /\ sup' = "planning"
       /\ span' = "open"
       /\ UNCHANGED <<config, task, job, results, failed>>

(* Bug: all the steps are begun, also in a sequential run.                 *)
DelegateAll == /\ sup = "planning"
               /\ sup' = "working"
               /\ \E n \in 1..MaxSteps :
                     /\ task' = [i \in 1..n |-> "ready"]
                     /\ job' = [i \in 1..n |-> "none"]
               /\ UNCHANGED <<config, results, failed, span>>

(* The planner's steps are delegated: all of them, or the first.           *)
Delegate == /\ sup = "planning"
            /\ sup' = "working"
            /\ \E n \in 1..MaxSteps :
                  /\ task' = [i \in 1..n |-> IF parallel \/ i = 1 THEN "ready"
                                                                  ELSE "none"]
                  /\ job' = [i \in 1..n |-> "none"]
            /\ UNCHANGED <<config, results, failed, span>>

PlannerRaises == /\ sup = "planning"
                 /\ End("raised", "ERROR")
                 /\ UNCHANGED <<config, task, job, results, failed>>

(* Bug: only what a worker reports as an error counts, not what it raised. *)
ReturnCountsReported ==
    /\ sup = "working"
    /\ AllSettled
    /\ results' = [i \in Steps |-> IF task[i] = "ok" THEN "ok" ELSE "err"]
    /\ failed' = Cardinality({i \in Steps : task[i] = "err"})
    /\ End("returned", IF failed' = 0 THEN "OK" ELSE "ERROR")
    /\ UNCHANGED <<config, task, job>>

(* Every delegation is over; what gather caught becomes an error result.   *)
Return ==
    /\ sup = "working"
    /\ AllSettled
    /\ results' = [i \in Steps |-> IF task[i] = "ok" THEN "ok" ELSE "err"]
    /\ failed' = Cardinality({i \in Steps : task[i] # "ok"})
    /\ End("returned", IF failed' = 0 THEN "OK" ELSE "ERROR")
    /\ UNCHANGED <<config, task, job>>

-----------------------------------------------------------------------------
(* The workers and the tools.                                              *)

(* A worker's coroutine starts; a bad tool call is an error without await. *)
Begin(i) ==
    /\ sup = "working"
    /\ task[i] = "ready"
    /\ IF KindOf(i) = "bad"
       THEN Finish(i, "err") /\ UNCHANGED job
       ELSE /\ task' = [task EXCEPT ![i] = "awaiting"]
            /\ job' = [job EXCEPT ![i] = IF KindOf(i) = "thread" THEN "queued" ELSE @]
    /\ UNCHANGED <<config, sup, results, failed, span>>

PoolStarts(i) ==
    /\ job[i] = "queued"
    /\ Cardinality({k \in Steps : job[k] = "running"}) < PoolSize
    /\ job' = [job EXCEPT ![i] = "running"]
    /\ UNCHANGED <<config, sup, task, results, failed, span>>

PoolFinishes(i) ==
    /\ job[i] = "running"
    /\ \E outcome \in {"ok", "err"} : job' = [job EXCEPT ![i] = outcome]
    /\ UNCHANGED <<config, sup, task, results, failed, span>>

CanReply(i) == /\ sup = "working"
               /\ task[i] = "awaiting"
               /\ KindOf(i) = "thread" => job[i] \in {"ok", "err"}

(* The router or the tool returns, or raises an Exception, which worker or *)
(* dispatcher turn into an error.                                          *)
Reply(i) ==
    /\ CanReply(i)
    /\ \E outcome \in {"ok", "err"} :
          /\ KindOf(i) = "thread" => outcome = job[i]
          /\ Finish(i, outcome)
    /\ UNCHANGED <<config, sup, job, results, failed, span>>

(* CancelledError comes out of the router or an async tool by itself: no   *)
(* `except Exception` stops it; gather does, the sequential loop does not. *)
Escapes(i) ==
    /\ CanReply(i)
    /\ KindOf(i) # "thread"
    /\ task' = [task EXCEPT ![i] = "raised"]
    /\ IF parallel THEN UNCHANGED <<sup, span>> ELSE End("raised", "ERROR")
    /\ UNCHANGED <<config, job, results, failed>>

-----------------------------------------------------------------------------
(* Cancellation of the task that runs run.                                 *)

(* Bug: a worker that is cancelled leaves its job in the pool's queue.     *)
CancelTasksOnly(S) ==
    /\ task' = [i \in Steps |-> IF i \in S THEN "cancelled" ELSE task[i]]
    /\ UNCHANGED job

CancelTasks(S) ==
    /\ task' = [i \in Steps |-> IF i \in S THEN "cancelled" ELSE task[i]]
    /\ job' = [i \in Steps |-> IF i \in S /\ job[i] = "queued" THEN "dropped"
                                                               ELSE job[i]]

Unsettled == {i \in Steps : task[i] \in {"ready", "awaiting"}}

(* A sequential run is cancelled inside the planner or inside a worker.    *)
Cancel == /\ \/ sup = "planning"
             \/ sup = "working" /\ ~parallel /\ \E i \in Steps : task[i] = "awaiting"
          /\ CancelTasks(Unsettled)
          /\ End("cancelled", "ERROR")
          /\ UNCHANGED <<config, results, failed>>

(* A parallel one cancels its gather, which cancels each worker's task.    *)
CancelGather == /\ sup = "working" /\ parallel
                /\ sup' = "cancelling"
                /\ UNCHANGED <<config, task, job, results, failed, span>>

WorkerCancelled(i) == /\ sup = "cancelling"
                      /\ i \in Unsettled
                      /\ CancelTasks({i})
                      /\ UNCHANGED <<config, sup, results, failed, span>>

GatherCancelled == /\ sup = "cancelling"
                   /\ AllSettled
                   /\ End("cancelled", "ERROR")
                   /\ UNCHANGED <<config, task, job, results, failed>>

-----------------------------------------------------------------------------
TaskStep(i) == Begin(i) \/ Reply(i) \/ Escapes(i) \/ WorkerCancelled(i)

PoolStep(i) == PoolStarts(i) \/ PoolFinishes(i)

SupervisorStep == Run \/ Delegate \/ PlannerRaises \/ Return \/ GatherCancelled

Finished == /\ sup \in Over
            /\ \A i \in Steps : job[i] \notin {"queued", "running"}
            /\ UNCHANGED vars

Next == \/ SupervisorStep
        \/ \E i \in Steps : TaskStep(i) \/ PoolStep(i)
        \/ Cancel \/ CancelGather
        \/ Finished

(* The loop resumes ready tasks, the pool serves its queue; planner, router*)
(* and tools return.  Nobody has to cancel.                                *)
Spec == /\ Init /\ [][Next]_vars
        /\ WF_vars(SupervisorStep)
        /\ \A i \in 1..MaxSteps : /\ WF_vars(i \in Steps /\ TaskStep(i))
                                  /\ WF_vars(i \in Steps /\ PoolStep(i))

-----------------------------------------------------------------------------
(* The result has one entry per step, in order, and every step was really  *)
(* tried: a failure, or an exception that gather caught, neither hides nor *)
(* prevents another step; a step is "ok" only if its tool ended well.  The *)
(* count of failures and the span say the same as the list.                *)
ResultsTellEveryStep ==
    sup = "returned" =>
        /\ DOMAIN results = Steps
        /\ \A i \in Steps :
              /\ KindOf(i) = "thread" => job[i] \in {"ok", "err"} /\ results[i] = job[i]
              /\ KindOf(i) = "bad" \/ task[i] = "raised" => results[i] = "err"
        /\ failed = Cardinality({i \in Steps : results[i] = "err"})
        /\ span = "OK" <=> \A i \in Steps : results[i] = "ok"

(* A sequential run has at most one step under way, on the loop and in the *)
(* thread pool together, and those before it are over; so a tool never     *)
(* overlaps with the one of another step of the run.                       *)
Busy == {i \in Steps : task[i] = "awaiting" \/ job[i] \in {"queued", "running"}}

OneAtATime ==
    ~parallel => \A i \in Busy, k \in Steps :
                     k # i => /\ k \notin Busy
                              /\ k < i <=> task[k] \in Settled

(* When the run is over, in whatever way, none of its steps is started any *)
(* more, on the loop or in the pool; only a sync tool that was running     *)
(* already goes on to its end.                                             *)
NothingStartsAfterwards ==
    [][(sup \in Over) =>
          \A i \in Steps : /\ task'[i] = task[i]
                           /\ job[i] # "running" => job'[i] = job[i]]_vars

(* The run ends, also with more sync tools than threads.                   *)
RunEnds == <>(sup \in Over)
=============================================================================
