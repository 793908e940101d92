--------------------------- MODULE SupervisorProofs --------------------------
(***************************************************************************)
(* Proofs about Supervisor.tla for any number of workers of any kind, any  *)
(* plan and any thread pool: a sequential run has one step under way, the  *)
(* result tells every step, and nothing starts once the run is over.       *)
(***************************************************************************)
EXTENDS Supervisor, TLAPS, FiniteSetTheorems

TaskStates == {"none", "ready", "awaiting"} \cup Settled

Typed == /\ parallel \in BOOLEAN
         /\ sup \in {"idle", "planning", "working", "cancelling"} \cup Over
         /\ \E n \in 0..MaxSteps : task \in [1..n -> TaskStates] /\ job \in [1..n -> Jobs]

(* Where the run is bounds where its steps can be.                         *)
Phases == /\ sup \in {"idle", "planning"} => Steps = {}
          /\ sup \in {"working", "returned"} => \A i \in Steps : task[i] # "cancelled"
          /\ sup \in Over => \A i \in Steps : task[i] \notin {"ready", "awaiting"}

(* A sequential run begins a step when those before it have ended by       *)
(* themselves.                                                             *)
InOrder == ~parallel => \A i, k \in Steps :
                            i < k /\ task[k] # "none" => task[i] \in {"ok", "err"}

(* A job is in the pool only for a worker that waits for it, or did when   *)
(* it was cancelled; and such a worker ends as its job does.               *)
JobsFollowTasks ==
    \A i \in Steps :
      /\ KindOf(i) # "thread" \/ task[i] \in {"none", "ready"} => job[i] = "none"
      /\ job[i] = "queued" => task[i] = "awaiting"
      /\ job[i] = "running" => task[i] \in {"awaiting", "cancelled"}
      /\ KindOf(i) = "thread" /\ task[i] \in {"ok", "err"} => job[i] = task[i]
      /\ KindOf(i) = "thread" => task[i] # "raised"
      /\ KindOf(i) = "bad" => task[i] \notin {"awaiting", "ok", "raised"}

(* What Return puts together stays.                                        *)
Returned ==
    sup = "returned" =>
      /\ AllSettled
      /\ results = [i \in Steps |-> IF task[i] = "ok" THEN "ok" ELSE "err"]
      /\ failed = Cardinality({i \in Steps : task[i] # "ok"})
      /\ span = IF failed = 0 THEN "OK" ELSE "ERROR"

IInv == Typed /\ Phases /\ InOrder /\ JobsFollowTasks /\ Returned

LEMMA IInvInit == Init => IInv
<1> SUFFICES ASSUME Init PROVE IInv
  OBVIOUS
<1>1. task \in [1..0 -> TaskStates] /\ job \in [1..0 -> Jobs] /\ 0 \in 0..MaxSteps /\ Steps = {}
  BY SupervisorAssumption DEF Init, Steps
<1> QED
  BY <1>1 DEF Init, IInv, Typed, Phases, InOrder, JobsFollowTasks, Returned, Over

(* The steps of a typed state.                                             *)
LEMMA StepsAre ==
  ASSUME Typed
  PROVE  \E n \in 0..MaxSteps : /\ Steps = 1..n
                                /\ task \in [1..n -> TaskStates] /\ job \in [1..n -> Jobs]
  BY DEF Typed, Steps

LEMMA KindsStay == ASSUME UNCHANGED config, NEW i PROVE KindOf(i)' = KindOf(i)
  BY DEF config, KindOf

-----------------------------------------------------------------------------
LEMMA Delegates ==
  ASSUME IInv, Delegate
  PROVE  IInv'
<1>1. PICK n \in 1..MaxSteps :
         /\ task' = [i \in 1..n |-> IF parallel \/ i = 1 THEN "ready" ELSE "none"]
         /\ job' = [i \in 1..n |-> "none"]
  BY DEF Delegate
<1>2. sup' = "working" /\ UNCHANGED parallel /\ Steps' = 1..n
  BY <1>1 DEF Delegate, config, Steps
<1>3. Typed'
  BY <1>1, <1>2, SupervisorAssumption DEF IInv, Typed, TaskStates, Jobs
<1>4. Phases' /\ InOrder' /\ Returned'
  BY <1>1, <1>2 DEF Phases, InOrder, Returned, Over
<1>5. JobsFollowTasks'
  BY <1>1, <1>2 DEF JobsFollowTasks
<1> QED
  BY <1>3, <1>4, <1>5 DEF IInv

(* The supervisor ends while no step is ready or under way.                *)
LEMMA EndsQuietly ==
  ASSUME IInv, UNCHANGED <<config, task, job>>,
         \/ sup = "idle" /\ sup' = "planning"
         \/ sup \in {"planning", "cancelling"} /\ sup' \in {"raised", "cancelled"} /\ AllSettled
         \/ sup = "working" /\ sup' = "cancelling"
  PROVE  IInv'
<1>1. Steps' = Steps /\ UNCHANGED parallel
  BY DEF Steps, config
<1>2. \A i \in Steps : KindOf(i)' = KindOf(i)
  BY KindsStay
<1>3. Typed' /\ InOrder' /\ Returned'
  BY <1>1 DEF IInv, Typed, InOrder, Returned, Over
<1>4. Phases'
  BY <1>1 DEF IInv, Phases, Over, AllSettled, Settled
<1>5. JobsFollowTasks'
  BY <1>1, <1>2 DEF IInv, JobsFollowTasks
<1> QED
  BY <1>3, <1>4, <1>5 DEF IInv

LEMMA Returns ==
  ASSUME IInv, Return
  PROVE  IInv'
<1>1. /\ sup = "working" /\ sup' = "returned" /\ AllSettled
      /\ Steps' = Steps /\ UNCHANGED <<parallel, task, job>>
      /\ results' = [i \in Steps |-> IF task[i] = "ok" THEN "ok" ELSE "err"]
      /\ failed' = Cardinality({i \in Steps : task[i] # "ok"})
      /\ span' = IF failed' = 0 THEN "OK" ELSE "ERROR"
  BY DEF Return, End, Steps, config
<1>2. \A i \in Steps : KindOf(i)' = KindOf(i)
  BY KindsStay DEF Return
<1>3. Typed' /\ InOrder' /\ Returned'
  BY <1>1 DEF IInv, Typed, InOrder, Returned, Over, AllSettled
<1>4. Phases'
  BY <1>1 DEF IInv, Phases, Over, AllSettled, Settled
<1>5. JobsFollowTasks'
  BY <1>1, <1>2 DEF IInv, JobsFollowTasks
<1> QED
  BY <1>3, <1>4, <1>5 DEF IInv

-----------------------------------------------------------------------------
(* One step moves on, and after its end the next one of a sequential run.  *)
LEMMA TaskMoves ==
  ASSUME IInv, NEW i \in Steps, NEW to \in {"awaiting", "ok", "err", "raised"}, NEW j \in Jobs,
         UNCHANGED <<config, results, failed>>, sup = "working",
         task[i] \in {"ready", "awaiting"},
         task' = [k \in Steps |-> IF k = i THEN to
                                  ELSE IF k = i + 1 /\ ~parallel /\ to \in {"ok", "err"}
                                       THEN "ready" ELSE task[k]],
         job' = [job EXCEPT ![i] = j],
         sup' \in {"working", "raised"},
         sup' = "raised" => ~parallel /\ to = "raised",
         KindOf(i) # "thread" => j = "none",
         KindOf(i) = "thread" => /\ to # "raised"
                                 /\ j = "running" \/ j = "queued" => to = "awaiting"
                                 /\ to \in {"ok", "err"} => j = to,
         KindOf(i) = "bad" => to = "err"
  PROVE  IInv'
<1>1. PICK n \in 0..MaxSteps : /\ Steps = 1..n
                               /\ task \in [1..n -> TaskStates] /\ job \in [1..n -> Jobs]
  BY StepsAre DEF IInv
<1>2. /\ Steps' = Steps /\ UNCHANGED parallel
      /\ \A k \in Steps : job'[k] = IF k = i THEN j ELSE job[k]
      /\ task'[i] = to
      /\ \A k \in Steps \ {i} : task'[k] = IF k = i + 1 /\ ~parallel /\ to \in {"ok", "err"}
                                           THEN "ready" ELSE task[k]
  BY <1>1 DEF Steps, config
<1>3. Typed'
  BY <1>1, <1>2 DEF IInv, Typed, TaskStates, Settled, Over
<1>4. ~parallel => \A k \in Steps : /\ i < k => task[k] = "none"
                                    /\ k < i => task[k] \in {"ok", "err"}
  BY DEF IInv, InOrder
<1>5. Phases'
  BY <1>1, <1>2, <1>4 DEF IInv, Phases, Over
<1>6. InOrder'
  <2> SUFFICES ASSUME ~parallel, NEW a \in Steps, NEW b \in Steps, a < b, task'[b] # "none"
               PROVE  task'[a] \in {"ok", "err"}
    BY <1>2 DEF InOrder
  <2>1. CASE b = i
    BY <1>1, <1>2, <1>4, <2>1
  <2>2. CASE b < i
    BY <1>1, <1>2, <1>4, <2>2
  <2>3. CASE i < b
    <3>1. b = i + 1 /\ to \in {"ok", "err"}
      BY <1>1, <1>2, <1>4, <2>3
    <3> QED
      BY <1>1, <1>2, <1>4, <3>1
  <2> QED
    BY <1>1, <2>1, <2>2, <2>3
<1>7. JobsFollowTasks'
  <2> SUFFICES ASSUME NEW k \in Steps
               PROVE  /\ KindOf(k) # "thread" \/ task'[k] \in {"none", "ready"} => job'[k] = "none"
                      /\ job'[k] = "queued" => task'[k] = "awaiting"
                      /\ job'[k] = "running" => task'[k] \in {"awaiting", "cancelled"}
                      /\ KindOf(k) = "thread" /\ task'[k] \in {"ok", "err"} => job'[k] = task'[k]
                      /\ KindOf(k) = "thread" => task'[k] # "raised"
                      /\ KindOf(k) = "bad" => task'[k] \notin {"awaiting", "ok", "raised"}
    BY <1>2, KindsStay DEF JobsFollowTasks
  <2>1. CASE k = i
    BY <1>1, <1>2, <2>1
  <2>2. CASE k # i /\ task'[k] = task[k]
    BY <1>1, <1>2, <2>2 DEF IInv, JobsFollowTasks
  <2>3. CASE k # i /\ task'[k] # task[k]
    <3>1. k = i + 1 /\ ~parallel /\ task'[k] = "ready" /\ task[k] = "none"
      BY <1>1, <1>2, <1>4, <2>3
    <3> QED
      BY <1>1, <1>2, <2>3, <3>1 DEF IInv, JobsFollowTasks
  <2> QED
    BY <2>1, <2>2, <2>3
<1>8. Returned'
  BY DEF Returned
<1> QED
  BY <1>3, <1>5, <1>6, <1>7, <1>8 DEF IInv

LEMMA Begins ==
  ASSUME IInv, NEW i \in Steps, Begin(i)
  PROVE  IInv'
<1>1. PICK n \in 0..MaxSteps : /\ Steps = 1..n
                               /\ task \in [1..n -> TaskStates] /\ job \in [1..n -> Jobs]
  BY StepsAre DEF IInv
<1>2. /\ sup = "working" /\ task[i] = "ready" /\ job[i] = "none"
      /\ UNCHANGED <<config, results, failed>> /\ sup' = "working"
  BY DEF Begin, IInv, JobsFollowTasks
<1>3. CASE KindOf(i) = "bad"
  <2>1. task' = [k \in Steps |-> IF k = i THEN "err"
                                 ELSE IF k = i + 1 /\ ~parallel THEN "ready" ELSE task[k]]
    BY <1>3 DEF Begin, Finish
  <2>2. job' = [job EXCEPT ![i] = "none"]
    BY <1>1, <1>2, <1>3 DEF Begin
  <2> QED
    BY <1>2, <1>3, <2>1, <2>2, TaskMoves DEF Jobs
<1>4. CASE KindOf(i) # "bad"
  <2> DEFINE j == IF KindOf(i) = "thread" THEN "queued" ELSE "none"
  <2>1. task' = [k \in Steps |-> IF k = i THEN "awaiting" ELSE task[k]]
    BY <1>1, <1>4 DEF Begin
  <2>2. job' = [job EXCEPT ![i] = j]
    BY <1>1, <1>2, <1>4 DEF Begin
  <2> QED
    BY <1>2, <1>4, <2>1, <2>2, TaskMoves DEF Jobs
<1> QED
  BY <1>3, <1>4

LEMMA Replies ==
  ASSUME IInv, NEW i \in Steps, Reply(i)
  PROVE  IInv'
<1>1. PICK n \in 0..MaxSteps : /\ Steps = 1..n
                               /\ task \in [1..n -> TaskStates] /\ job \in [1..n -> Jobs]
  BY StepsAre DEF IInv
<1>2. PICK outcome \in {"ok", "err"} : /\ KindOf(i) = "thread" => outcome = job[i]
                                       /\ Finish(i, outcome)
  BY DEF Reply
<1>3. /\ sup = "working" /\ task[i] = "awaiting" /\ KindOf(i) # "bad"
      /\ UNCHANGED <<config, results, failed>> /\ sup' = "working"
      /\ job' = [job EXCEPT ![i] = job[i]] /\ job[i] \in Jobs
      /\ KindOf(i) # "thread" => job[i] = "none"
      /\ KindOf(i) = "thread" => job[i] \in {"ok", "err"}
  BY <1>1 DEF Reply, CanReply, IInv, JobsFollowTasks
<1>4. task' = [k \in Steps |-> IF k = i THEN outcome
                               ELSE IF k = i + 1 /\ ~parallel THEN "ready" ELSE task[k]]
  BY <1>2 DEF Finish
<1> QED
  BY <1>2, <1>3, <1>4, TaskMoves

LEMMA Raises ==
  ASSUME IInv, NEW i \in Steps, Escapes(i)
  PROVE  IInv'
<1>1. PICK n \in 0..MaxSteps : /\ Steps = 1..n
                               /\ task \in [1..n -> TaskStates] /\ job \in [1..n -> Jobs]
  BY StepsAre DEF IInv
<1>2. /\ sup = "working" /\ task[i] = "awaiting" /\ KindOf(i) \notin {"bad", "thread"}
      /\ UNCHANGED <<config, results, failed>> /\ sup' \in {"working", "raised"}
      /\ sup' = "raised" => ~parallel
      /\ job' = [job EXCEPT ![i] = "none"]
  BY <1>1 DEF Escapes, CanReply, End, IInv, JobsFollowTasks
<1>3. task' = [k \in Steps |-> IF k = i THEN "raised" ELSE task[k]]
  BY <1>1 DEF Escapes
<1> QED
  BY <1>2, <1>3, TaskMoves DEF Jobs

-----------------------------------------------------------------------------
(* A thread of the pool takes a job that a worker waits for, or ends one.  *)
LEMMA PoolMoves ==
  ASSUME IInv, NEW i \in Steps, PoolStep(i)
  PROVE  IInv'
<1>1. PICK n \in 0..MaxSteps : /\ Steps = 1..n
                               /\ task \in [1..n -> TaskStates] /\ job \in [1..n -> Jobs]
  BY StepsAre DEF IInv
<1>2. PICK to \in {"running", "ok", "err"} :
         /\ job' = [job EXCEPT ![i] = to] /\ UNCHANGED <<config, sup, task, results, failed, span>>
         /\ job[i] = IF to = "running" THEN "queued" ELSE "running"
  BY DEF PoolStep, PoolStarts, PoolFinishes
<1>3. /\ Steps' = Steps /\ UNCHANGED parallel
      /\ \A k \in Steps : job'[k] = IF k = i THEN to ELSE job[k]
  BY <1>1, <1>2 DEF Steps, config
<1>4. Typed'
  BY <1>1, <1>2, <1>3 DEF IInv, Typed, Jobs
<1>5. Phases' /\ InOrder' /\ Returned'
  BY <1>2, <1>3 DEF IInv, Phases, InOrder, Returned, AllSettled
<1>6. \A k \in Steps : KindOf(k)' = KindOf(k)
  BY <1>2, KindsStay
<1>7. JobsFollowTasks'
  BY <1>2, <1>3, <1>6 DEF IInv, JobsFollowTasks
<1> QED
  BY <1>4, <1>5, <1>7 DEF IInv

(* Cancelled workers take their queued jobs out of the pool.               *)
LEMMA Cancels ==
  ASSUME IInv, NEW S \in SUBSET Unsettled, CancelTasks(S), UNCHANGED <<config, results, failed>>,
         \/ sup \in {"planning", "working"} /\ sup' = "cancelled" /\ S = Unsettled
         \/ sup = "cancelling" /\ sup' = "cancelling"
  PROVE  IInv'
<1>1. PICK n \in 0..MaxSteps : /\ Steps = 1..n
                               /\ task \in [1..n -> TaskStates] /\ job \in [1..n -> Jobs]
  BY StepsAre DEF IInv
<1>2. /\ Steps' = Steps /\ UNCHANGED parallel
      /\ \A k \in Steps : /\ task'[k] = IF k \in S THEN "cancelled" ELSE task[k]
                          /\ job'[k] = IF k \in S /\ job[k] = "queued" THEN "dropped" ELSE job[k]
  BY <1>1 DEF CancelTasks, Steps, config
<1>3. \A k \in S : k \in Steps /\ task[k] \in {"ready", "awaiting"}
  BY DEF Unsettled
<1>4. Typed'
  BY <1>1, <1>2 DEF IInv, Typed, TaskStates, Settled, Jobs, CancelTasks, Over
<1>5. Phases'
  BY <1>2 DEF IInv, Phases, Over, Unsettled
<1>6. InOrder' /\ Returned'
  BY <1>1, <1>2, <1>3 DEF IInv, InOrder, Returned
<1>7. \A k \in Steps : KindOf(k)' = KindOf(k)
  BY KindsStay
<1>8. JobsFollowTasks'
  BY <1>2, <1>3, <1>7 DEF IInv, JobsFollowTasks
<1> QED
  BY <1>4, <1>5, <1>6, <1>8 DEF IInv

-----------------------------------------------------------------------------
LEMMA IInvNext == IInv /\ [Next]_vars => IInv'
<1> SUFFICES ASSUME IInv, [Next]_vars PROVE IInv'
  OBVIOUS
<1>1. CASE Run \/ PlannerRaises \/ GatherCancelled \/ CancelGather
  <2>1. CASE PlannerRaises
    <3>1. AllSettled
      BY <2>1 DEF PlannerRaises, IInv, Phases, AllSettled
    <3> QED
      BY <2>1, <3>1, EndsQuietly DEF PlannerRaises, End
  <2> QED
    BY <1>1, <2>1, EndsQuietly DEF Run, GatherCancelled, CancelGather, End
<1>2. CASE Cancel
  BY <1>2, Cancels DEF Cancel, End
<1>3. ASSUME NEW i \in Steps, WorkerCancelled(i) PROVE IInv'
  BY <1>3, Cancels DEF WorkerCancelled
<1>4. CASE Finished \/ UNCHANGED vars
  <2>1. UNCHANGED vars
    BY <1>4 DEF Finished
  <2>2. Steps' = Steps /\ \A i \in Steps : KindOf(i)' = KindOf(i)
    BY <2>1, KindsStay DEF vars, config, Steps
  <2> QED
    BY <2>1, <2>2 DEF vars, IInv, Typed, Phases, InOrder, JobsFollowTasks, Returned, AllSettled
<1> QED
  BY <1>1, <1>2, <1>3, <1>4, Delegates, Returns, Begins, Replies, Raises, PoolMoves
     DEF Next, SupervisorStep, TaskStep

LEMMA Invariant == Spec => []IInv
  BY IInvInit, IInvNext, PTL DEF Spec

(* A sequential run never has two steps under way, on the loop and in the  *)
(* thread pool together, for any plan and any workers.                     *)
THEOREM StepsDoNotOverlap == Spec => []OneAtATime
<1>1. IInv => OneAtATime
  <2> SUFFICES ASSUME IInv, ~parallel, NEW i \in Busy, NEW k \in Steps, k # i
               PROVE  k \notin Busy /\ (k < i <=> task[k] \in Settled)
    BY DEF OneAtATime
  <2>1. PICK n \in 0..MaxSteps : Steps = 1..n
    BY StepsAre DEF IInv
  <2>2. \A s \in Busy : s \in Steps /\ task[s] \in {"awaiting", "cancelled"}
    BY DEF Busy, IInv, JobsFollowTasks
  <2>3. CASE k < i
    BY <2>1, <2>2, <2>3 DEF IInv, InOrder, Settled
  <2>4. CASE i < k
    BY <2>1, <2>2, <2>4 DEF IInv, InOrder, Settled
  <2> QED
    BY <2>1, <2>2, <2>3, <2>4
<1> QED
  BY <1>1, Invariant, PTL

(* A returned result has an entry for each step that tells how the step    *)
(* really ended, and count of failures and span say the same.              *)
THEOREM ResultsAreTrue == Spec => []ResultsTellEveryStep
<1>1. IInv => ResultsTellEveryStep
  <2> SUFFICES ASSUME IInv, sup = "returned" PROVE ResultsTellEveryStep
    BY DEF ResultsTellEveryStep
  <2>1. PICK n \in 0..MaxSteps : Steps = 1..n
    BY StepsAre DEF IInv
  <2> DEFINE bad == {i \in Steps : results[i] = "err"}
  <2>2. /\ DOMAIN results = Steps
        /\ \A i \in Steps : results[i] = IF task[i] = "ok" THEN "ok" ELSE "err"
        /\ failed = Cardinality({i \in Steps : task[i] # "ok"})
        /\ span = IF failed = 0 THEN "OK" ELSE "ERROR"
    BY DEF IInv, Returned
  <2>3. failed = Cardinality(bad)
    <3>1. bad = {i \in Steps : task[i] # "ok"}
      BY <2>2
    <3> QED
      BY <2>2, <3>1
  <2>4. failed = 0 <=> bad = {}
    <3>1. IsFiniteSet(bad)
      <4>1. IsFiniteSet(1..n)
        BY FS_Interval
      <4> QED
        BY <2>1, <4>1, FS_Subset
    <3> QED
      BY <2>3, <3>1, FS_EmptySet
  <2>5. span = "OK" <=> \A i \in Steps : results[i] = "ok"
    BY <2>2, <2>4
  <2>6. ASSUME NEW i \in Steps
        PROVE  /\ KindOf(i) = "thread" => job[i] \in {"ok", "err"} /\ results[i] = job[i]
               /\ KindOf(i) = "bad" \/ task[i] = "raised" => results[i] = "err"
    <3>1. task[i] \in {"ok", "err", "raised"}
      BY DEF IInv, Returned, AllSettled, Settled, Phases
    <3> QED
      BY <2>2, <3>1 DEF IInv, JobsFollowTasks
  <2> QED
    BY <2>2, <2>3, <2>5, <2>6 DEF ResultsTellEveryStep
<1> QED
  BY <1>1, Invariant, PTL

(* Once the run is over, in whatever way, no step of it starts any more.   *)
THEOREM OverIsOver == Spec => NothingStartsAfterwards
<1>1. IInv /\ [Next]_vars =>
        [(sup \in Over) => \A i \in Steps : /\ task'[i] = task[i]
                                            /\ job[i] # "running" => job'[i] = job[i]]_vars
  <2> SUFFICES ASSUME IInv, Next, sup \in Over, NEW i \in Steps
               PROVE  task'[i] = task[i] /\ (job[i] # "running" => job'[i] = job[i])
    BY DEF vars
  <2>1. PICK n \in 0..MaxSteps : /\ Steps = 1..n
                                 /\ task \in [1..n -> TaskStates] /\ job \in [1..n -> Jobs]
    BY StepsAre DEF IInv
  <2>2. \A k \in Steps : job[k] # "queued"
    BY DEF IInv, Phases, JobsFollowTasks
  <2>3. Finished \/ \E k \in Steps : PoolStep(k)
    BY DEF Next, SupervisorStep, TaskStep, Over, Run, Delegate, PlannerRaises, Return,
           GatherCancelled, Begin, Reply, CanReply, Escapes, WorkerCancelled, Cancel, CancelGather
  <2>4. CASE Finished
    BY <2>4 DEF Finished, vars
  <2>5. ASSUME NEW k \in Steps, PoolStep(k)
        PROVE  task'[i] = task[i] /\ (job[i] # "running" => job'[i] = job[i])
    <3>1. job[k] = "running" /\ UNCHANGED task
      BY <2>2, <2>5 DEF PoolStep, PoolStarts, PoolFinishes
    <3>2. \E o \in {"ok", "err"} : job' = [job EXCEPT ![k] = o]
      BY <2>2, <2>5 DEF PoolStep, PoolStarts, PoolFinishes
    <3> QED
      BY <2>1, <3>1, <3>2
  <2> QED
    BY <2>3, <2>4, <2>5
<1> QED
  BY <1>1, Invariant, PTL DEF NothingStartsAfterwards, Spec
=============================================================================
