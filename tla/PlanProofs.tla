----------------------------- MODULE PlanProofs -----------------------------
(***************************************************************************)
(* Proofs about PlanExecutor.tla for plans and replannings of any length:  *)
(* the statuses tell how far the execution got, and the loop uses up a     *)
(* natural number, so it ends although replanning adds steps.              *)
(***************************************************************************)
EXTENDS PlanExecutor, SequenceTheorems, TLAPS

-----------------------------------------------------------------------------
(* What the splice and the head of the loop do to the list of steps.       *)

LEMMA NewStepType ==
  ASSUME NEW o \in Origins
  PROVE  NewStep(o) \in Steps
  BY DEF NewStep, Steps, Statuses

(* Where the elements of three sequences are in their concatenation.       *)
LEMMA ConcatThree ==
  ASSUME NEW S, NEW a \in Seq(S), NEW b \in Seq(S), NEW c \in Seq(S),
         NEW t, t = a \o b \o c
  PROVE  /\ t \in Seq(S)
         /\ Len(t) = Len(a) + Len(b) + Len(c)
         /\ \A k \in 1..Len(a) : t[k] = a[k]
         /\ \A k \in 1..Len(b) : t[Len(a) + k] = b[k]
         /\ \A k \in 1..Len(c) : t[Len(a) + Len(b) + k] = c[k]
<1>0. Len(a) \in Nat /\ Len(b) \in Nat /\ Len(c) \in Nat
  OBVIOUS
<1>1. /\ a \o b \in Seq(S) /\ Len(a \o b) = Len(a) + Len(b)
      /\ \A k \in 1..(Len(a) + Len(b)) :
            (a \o b)[k] = IF k <= Len(a) THEN a[k] ELSE b[k - Len(a)]
  BY ConcatProperties
<1>2. /\ a \o b \o c \in Seq(S)
      /\ Len(a \o b \o c) = Len(a \o b) + Len(c)
      /\ \A k \in 1..(Len(a \o b) + Len(c)) : (a \o b \o c)[k] =
            IF k <= Len(a \o b) THEN (a \o b)[k] ELSE c[k - Len(a \o b)]
  BY <1>1, ConcatProperties
<1> QED
  BY <1>0, <1>1, <1>2

(* t is s with step j replaced by n new ones of the same origin.            *)
Spliced(s, j, n, o, t) ==
    /\ t \in Seq(Steps)
    /\ Len(t) = Len(s) + n - 1
    /\ \A k \in 1..(j - 1) : t[k] = s[k]
    /\ \A k \in j..(j + n - 1) : t[k] = NewStep(o)
    /\ \A k \in (j + n)..Len(t) : t[k] = s[k - n + 1]

LEMMA SpliceFacts ==
  ASSUME NEW s \in Seq(Steps), NEW j \in 1..Len(s),
         NEW n \in 1..MaxNew, NEW o \in Origins,
         NEW t, t = Splice(s, j, NewSteps(n, o))
  PROVE  Spliced(s, j, n, o, t)
<1>0. /\ n \in Nat \ {0} /\ Len(s) \in Nat /\ j \in Nat \ {0} /\ j <= Len(s)
  BY ExecutorAssumption
<1>1. PICK head \in Seq(Steps) :
        /\ head = SubSeq(s, 1, j - 1) /\ Len(head) = j - 1
        /\ \A k \in 1..(j - 1) : head[k] = s[k]
  <2> DEFINE u == SubSeq(s, 1, j - 1)
  <2>1. \A k \in 1..(j - 1) : s[k] \in Steps
    BY <1>0
  <2>2. u \in Seq(Steps) /\ Len(u) = j - 1 /\ \A k \in 1..(j - 1) : u[k] = s[k]
    BY <1>0, <2>1, SubSeqProperties
  <2> HIDE DEF u
  <2>3. u = SubSeq(s, 1, j - 1)
    BY DEF u
  <2> QED
    BY <2>2, <2>3, Zenon
<1>2. PICK new \in Seq(Steps) :
        /\ new = NewSteps(n, o) /\ Len(new) = n
        /\ \A k \in 1..n : new[k] = NewStep(o)
  BY <1>0, NewStepType DEF NewSteps
<1>3. PICK tail \in Seq(Steps) :
        /\ tail = SubSeq(s, j + 1, Len(s)) /\ Len(tail) = Len(s) - j
        /\ \A k \in 1..(Len(s) - j) : tail[k] = s[j + k]
  <2> DEFINE u == SubSeq(s, j + 1, Len(s))
  <2>1. \A k \in (j + 1)..Len(s) : s[k] \in Steps
    BY <1>0
  <2>2. /\ u \in Seq(Steps)
        /\ Len(u) = IF j + 1 <= Len(s) THEN Len(s) - (j + 1) + 1 ELSE 0
        /\ \A k \in 1..(Len(s) - (j + 1) + 1) : u[k] = s[j + 1 + k - 1]
    BY <1>0, <2>1, SubSeqProperties
  <2>3. /\ u \in Seq(Steps) /\ Len(u) = Len(s) - j
        /\ \A k \in 1..(Len(s) - j) : u[k] = s[j + k]
    BY <1>0, <2>2
  <2> HIDE DEF u
  <2>4. u = SubSeq(s, j + 1, Len(s))
    BY DEF u
  <2> QED
    BY <2>3, <2>4, Zenon
<1>4. t = head \o new \o tail
  BY <1>1, <1>2, <1>3 DEF Splice
<1>5. /\ t \in Seq(Steps)
      /\ Len(t) = Len(head) + Len(new) + Len(tail)
      /\ \A k \in 1..Len(head) : t[k] = head[k]
      /\ \A k \in 1..Len(new) : t[Len(head) + k] = new[k]
      /\ \A k \in 1..Len(tail) : t[Len(head) + Len(new) + k] = tail[k]
  BY <1>4, ConcatThree
<1>6. t \in Seq(Steps) /\ Len(t) = Len(s) + n - 1
  BY <1>0, <1>1, <1>2, <1>3, <1>5
<1>7. \A k \in 1..(j - 1) : t[k] = s[k]
  BY <1>1, <1>5
<1>8. \A k \in j..(j + n - 1) : t[k] = NewStep(o)
  <2> SUFFICES ASSUME NEW k \in j..(j + n - 1) PROVE t[k] = NewStep(o)
    OBVIOUS
  <2>1. k - j + 1 \in 1..n /\ (j - 1) + (k - j + 1) = k
    BY <1>0
  <2>2. t[j - 1 + (k - j + 1)] = new[k - j + 1]
    BY <1>1, <1>2, <1>5, <2>1
  <2> QED
    BY <1>2, <2>1, <2>2
<1>9. \A k \in (j + n)..Len(t) : t[k] = s[k - n + 1]
  <2> SUFFICES ASSUME NEW k \in (j + n)..Len(t) PROVE t[k] = s[k - n + 1]
    OBVIOUS
  <2> DEFINE m == k - (j - 1 + n)
  <2>1. m \in 1..(Len(s) - j) /\ j - 1 + n + m = k /\ j + m = k - n + 1
    BY <1>0, <1>6
  <2>2. t[j - 1 + n + m] = tail[m]
    BY <1>1, <1>2, <1>3, <1>5, <2>1
  <2> QED
    BY <1>3, <2>1, <2>2
<1> QED
  BY <1>6, <1>7, <1>8, <1>9 DEF Spliced

(* One step of a plan takes a status; the others stay as they are.         *)
Marked(s, j, st, t) ==
    /\ t \in Seq(Steps) /\ Len(t) = Len(s)
    /\ t[j].status = st /\ t[j].origin = s[j].origin
    /\ \A k \in 1..Len(s) : k # j => t[k] = s[k]

LEMMA UpdateFacts ==
  ASSUME NEW s \in Seq(Steps), NEW j \in 1..Len(s), NEW e \in Steps,
         NEW t, t = [s EXCEPT ![j] = e]
  PROVE  /\ t \in Seq(Steps) /\ Len(t) = Len(s) /\ t[j] = e
         /\ \A k \in 1..Len(s) : k # j => t[k] = s[k]
  OBVIOUS

(* A step begins: only its status changes.                                 *)
LEMMA BegunFacts ==
  ASSUME NEW s \in Seq(Steps), NEW j \in 1..Len(s),
         NEW t, t = [s EXCEPT ![j].status = "running"]
  PROVE  Marked(s, j, "running", t)
<1>1. PICK e \in Steps :
        /\ e = [s[j] EXCEPT !.status = "running"]
        /\ e.status = "running" /\ e.origin = s[j].origin
  <2>1. s[j] \in Steps
    OBVIOUS
  <2> QED
    BY <2>1 DEF Steps, Statuses
<1>2. t = [s EXCEPT ![j] = e]
  BY <1>1
<1> QED
  BY <1>1, <1>2, UpdateFacts DEF Marked

(* A step at the loop index succeeds.                                      *)
LEMMA SucceededFacts ==
  ASSUME NEW s \in Seq(Steps), i \in 1..Len(s), NEW t, t = Succeeded(s)
  PROVE  Marked(s, i, "done", t)
<1>1. PICK e \in Steps :
        /\ e = [s[i] EXCEPT !.status = "done", !.result = TRUE]
        /\ e.status = "done" /\ e.origin = s[i].origin
  <2> DEFINE d == [s[i] EXCEPT !.status = "done", !.result = TRUE]
  <2>1. s[i] \in Steps
    OBVIOUS
  <2>2. d \in Steps /\ d.status = "done" /\ d.origin = s[i].origin
    BY <2>1 DEF Steps, Statuses
  <2> QED
    BY <2>2, Zenon
<1>2. t = [s EXCEPT ![i] = e]
  BY <1>1 DEF Succeeded
<1> QED
  BY <1>1, <1>2, UpdateFacts DEF Marked

(* A step at the loop index fails.                                         *)
LEMMA FailedFacts ==
  ASSUME NEW s \in Seq(Steps), i \in 1..Len(s), NEW t, t = Failed(s)
  PROVE  Marked(s, i, "failed", t)
<1>1. PICK e \in Steps :
        /\ e = [s[i] EXCEPT !.status = "failed", !.error = TRUE]
        /\ e.status = "failed" /\ e.origin = s[i].origin
  <2> DEFINE d == [s[i] EXCEPT !.status = "failed", !.error = TRUE]
  <2>1. s[i] \in Steps
    OBVIOUS
  <2>2. d \in Steps /\ d.status = "failed" /\ d.origin = s[i].origin
    BY <2>1 DEF Steps, Statuses
  <2> QED
    BY <2>2, Zenon
<1>2. t = [s EXCEPT ![i] = e]
  BY <1>1 DEF Failed
<1> QED
  BY <1>1, <1>2, UpdateFacts DEF Marked

-----------------------------------------------------------------------------
(* Where the loop is while it runs: at a step of a plan under way.         *)
LoopPosition == pc # "idle" => status = "running" /\ i <= Len(steps)

IndInv == TypeOK /\ LoopPosition /\ StatusTellsProgress /\ SpanTellsOutcome

(* The plan after the head of the loop was entered with s and index j.     *)
Entered(s, j) == /\ Len(steps') = Len(s)
                 /\ \A k \in 1..(j - 1) : steps'[k] = s[k]
                 /\ \A k \in 1..Len(s) : steps'[k].origin = s[k].origin
                 /\ pc' \in {"idle", "step"}

(* The head of the loop establishes the invariant for the index it is      *)
(* entered with, whatever led to it, when all before that index is done.   *)
LEMMA BeginStepFacts ==
  ASSUME NEW s \in Seq(Steps), NEW j \in 1..(Len(s) + 1),
         \A k \in 1..(j - 1) : s[k].status = "done",
         BeginStep(s, j), i' = j,
         budget' \in 0..MaxReplan, runs' \in 0..MaxRuns
  PROVE  IndInv' /\ Entered(s, j)
<1>0. Len(s) \in Nat /\ j \in Nat \ {0}
  OBVIOUS
<1>1. CASE j <= Len(s)
  <2>1. /\ steps' = [s EXCEPT ![j].status = "running"]
        /\ status' = "running" /\ pc' = "step" /\ span' = "open"
    BY <1>1 DEF BeginStep
  <2>2. /\ steps' \in Seq(Steps) /\ Len(steps') = Len(s)
        /\ steps'[j].status = "running" /\ steps'[j].origin = s[j].origin
        /\ \A k \in 1..Len(s) : k # j => steps'[k] = s[k]
    <3>1. j \in 1..Len(s)
      BY <1>0, <1>1
    <3>2. Marked(s, j, "running", steps')
      BY <2>1, <3>1, BegunFacts
    <3> QED
      BY <3>2 DEF Marked
  <2>3. \A k \in 1..(j - 1) : steps'[k] = s[k]
    BY <1>0, <1>1, <2>2
  <2>4. \A k \in 1..Len(s) : steps'[k].origin = s[k].origin
    BY <2>2
  <2>5. TypeOK' /\ LoopPosition'
    BY <1>0, <1>1, <2>1, <2>2 DEF TypeOK, LoopPosition, Statuses
  <2>6. DoneUpTo(i)' /\ (steps[i].status = "running")'
    BY <2>2, <2>3 DEF DoneUpTo
  <2>7. StatusTellsProgress' /\ SpanTellsOutcome'
    BY <2>1, <2>6 DEF StatusTellsProgress, SpanTellsOutcome
  <2> QED
    BY <2>1, <2>2, <2>3, <2>4, <2>5, <2>7 DEF IndInv, Entered
<1>2. CASE j = Len(s) + 1
  <2>1. steps' = s /\ status' = "done" /\ pc' = "idle" /\ span' = "OK"
    BY <1>0, <1>2 DEF BeginStep
  <2>2. TypeOK' /\ LoopPosition'
    BY <1>0, <2>1 DEF TypeOK, LoopPosition, Statuses
  <2>3. DoneUpTo(Len(steps) + 1)'
    BY <1>2, <2>1 DEF DoneUpTo
  <2>4. StatusTellsProgress' /\ SpanTellsOutcome'
    BY <2>1, <2>3 DEF StatusTellsProgress, SpanTellsOutcome
  <2> QED
    BY <2>1, <2>2, <2>4 DEF IndInv, Entered
<1> QED
  BY <1>0, <1>1, <1>2

LEMMA InitInv == Init => IndInv
<1> SUFFICES ASSUME Init PROVE IndInv
  OBVIOUS
<1>1. steps \in Seq(Steps)
  BY NewStepType, ExecutorAssumption DEF Init, Origins
<1> QED
  BY <1>1, ExecutorAssumption
     DEF Init, IndInv, TypeOK, LoopPosition, StatusTellsProgress,
         SpanTellsOutcome, Statuses

-----------------------------------------------------------------------------
(* What each continuation of the loop does, for the theorems below.        *)
LEMMA RunningFacts ==
  ASSUME IndInv, pc # "idle"
  PROVE  /\ steps \in Seq(Steps) /\ Len(steps) \in Nat /\ i \in 1..Len(steps)
         /\ status = "running"
         /\ \A k \in 1..(i - 1) : steps[k].status = "done"
         /\ budget \in 0..MaxReplan /\ runs \in 0..MaxRuns
         /\ pc = "planner" => steps[i].status = "failed"
  BY DEF IndInv, TypeOK, LoopPosition, StatusTellsProgress, DoneUpTo

LEMMA ExecuteFacts ==
  ASSUME IndInv, Execute
  PROVE  /\ IndInv'
         /\ Len(steps') = Len(steps)
         /\ \A k \in 1..Len(steps) : steps'[k].origin = steps[k].origin
<1>1. /\ steps \in Seq(Steps) /\ runs' \in 0..MaxRuns /\ budget' \in 0..MaxReplan
      /\ i' = 1 /\ BeginStep(steps, 1)
  BY ExecutorAssumption DEF IndInv, TypeOK, Execute
<1>2. 1 \in 1..(Len(steps) + 1) /\ \A k \in 1..(1 - 1) : steps[k].status = "done"
  BY <1>1
<1> QED
  BY <1>1, <1>2, BeginStepFacts DEF Entered

LEMMA StepSucceedsFacts ==
  ASSUME IndInv, StepSucceeds
  PROVE  /\ IndInv'
         /\ Len(steps') = Len(steps)
         /\ \A k \in 1..(i - 1) : steps'[k] = steps[k]
         /\ \A k \in 1..Len(steps) : steps'[k].origin = steps[k].origin
         /\ pc' \in {"idle", "step"}
<1> DEFINE done == Succeeded(steps)
<1>1. pc = "step" /\ i' = i + 1 /\ BeginStep(done, i + 1)
      /\ budget' = budget /\ runs' = runs
  BY DEF StepSucceeds
<1>2. /\ steps \in Seq(Steps) /\ Len(steps) \in Nat /\ i \in 1..Len(steps)
      /\ \A k \in 1..(i - 1) : steps[k].status = "done"
      /\ budget \in 0..MaxReplan /\ runs \in 0..MaxRuns
  BY <1>1, RunningFacts
<1>3. PICK t : t = done /\ Marked(steps, i, "done", t)
  BY <1>2, SucceededFacts
<1>4. /\ t \in Seq(Steps) /\ Len(t) = Len(steps)
      /\ i + 1 \in 1..(Len(t) + 1)
      /\ \A k \in 1..((i + 1) - 1) : t[k].status = "done"
  <2>1. /\ t \in Seq(Steps) /\ Len(t) = Len(steps) /\ i + 1 \in 1..(Len(t) + 1)
    BY <1>2, <1>3 DEF Marked
  <2>2. ASSUME NEW k \in 1..((i + 1) - 1) PROVE t[k].status = "done"
    <3>1. CASE k = i
      BY <1>3, <3>1 DEF Marked
    <3>2. CASE k \in 1..(i - 1)
      BY <1>2, <1>3, <3>2 DEF Marked
    <3> QED
      BY <1>2, <3>1, <3>2
  <2> QED
    BY <2>1, <2>2
<1>5. /\ IndInv'
      /\ Len(steps') = Len(t)
      /\ \A k \in 1..((i + 1) - 1) : steps'[k] = t[k]
      /\ \A k \in 1..Len(t) : steps'[k].origin = t[k].origin
      /\ pc' \in {"idle", "step"}
  <2>1. BeginStep(t, i + 1) /\ budget' \in 0..MaxReplan /\ runs' \in 0..MaxRuns
    BY <1>1, <1>2, <1>3
  <2>2. IndInv' /\ Entered(t, i + 1)
    BY <1>1, <1>4, <2>1, BeginStepFacts
  <2> QED
    BY <2>2 DEF Entered
<1>6. \A k \in 1..(i - 1) : steps'[k] = steps[k]
  BY <1>2, <1>3, <1>4, <1>5 DEF Marked
<1>7. \A k \in 1..Len(steps) : steps'[k].origin = steps[k].origin
  BY <1>2, <1>3, <1>4, <1>5 DEF Marked
<1> QED
  BY <1>4, <1>5, <1>6, <1>7

LEMMA StepFailsFacts ==
  ASSUME IndInv, StepFailsAndReplans \/ StepFailsAndHalts
  PROVE  /\ IndInv'
         /\ i' = i /\ Len(steps') = Len(steps)
         /\ \A k \in 1..(i - 1) : steps'[k] = steps[k]
         /\ \A k \in 1..Len(steps) : steps'[k].origin = steps[k].origin
<1>1. pc = "step" /\ steps' = Failed(steps) /\ i' = i /\ runs' = runs
  BY DEF StepFailsAndReplans, StepFailsAndHalts
<1>2. /\ steps \in Seq(Steps) /\ Len(steps) \in Nat /\ i \in 1..Len(steps)
      /\ \A k \in 1..(i - 1) : steps[k].status = "done"
      /\ budget \in 0..MaxReplan /\ runs \in 0..MaxRuns /\ status = "running"
  BY <1>1, RunningFacts
<1>3. /\ steps' \in Seq(Steps) /\ Len(steps') = Len(steps)
      /\ steps'[i].status = "failed" /\ steps'[i].origin = steps[i].origin
      /\ \A k \in 1..Len(steps) : k # i => steps'[k] = steps[k]
  <2>1. Marked(steps, i, "failed", steps')
    BY <1>1, <1>2, FailedFacts
  <2> QED
    BY <2>1 DEF Marked
<1>4. /\ \A k \in 1..(i - 1) : steps'[k] = steps[k]
      /\ \A k \in 1..Len(steps) : steps'[k].origin = steps[k].origin
  BY <1>2, <1>3
<1>5. DoneUpTo(i)' /\ (steps[i].status = "failed")'
  BY <1>1, <1>2, <1>3, <1>4 DEF DoneUpTo
<1>6. CASE StepFailsAndReplans
  <2>1. /\ pc' = "planner" /\ status' = "running" /\ span' = span
        /\ budget' \in 0..MaxReplan
    BY <1>2, <1>6, ExecutorAssumption DEF StepFailsAndReplans, CanReplan
  <2>2. TypeOK' /\ LoopPosition'
    BY <1>1, <1>2, <1>3, <2>1 DEF IndInv, TypeOK, LoopPosition
  <2>3. StatusTellsProgress' /\ SpanTellsOutcome'
    BY <1>5, <2>1 DEF StatusTellsProgress, SpanTellsOutcome
  <2> QED
    BY <1>1, <1>3, <1>4, <2>2, <2>3 DEF IndInv
<1>7. CASE StepFailsAndHalts
  <2>1. pc' = "idle" /\ status' = "failed" /\ span' = "ERROR" /\ budget' = budget
    BY <1>7 DEF StepFailsAndHalts, Halt
  <2>2. TypeOK' /\ LoopPosition'
    BY <1>1, <1>2, <1>3, <2>1 DEF IndInv, TypeOK, LoopPosition, Statuses
  <2>3. StatusTellsProgress' /\ SpanTellsOutcome'
    BY <1>5, <2>1 DEF StatusTellsProgress, SpanTellsOutcome
  <2> QED
    BY <1>1, <1>3, <1>4, <2>2, <2>3 DEF IndInv
<1> QED
  BY <1>6, <1>7

(* Which step of the old plan the step k comes from after a splice at i.   *)
Before(k, n) == IF k < i THEN k ELSE IF k < i + n THEN i ELSE k - n + 1

LEMMA PlannerAnswersFacts ==
  ASSUME IndInv, PlannerAnswers
  PROVE  /\ IndInv'
         /\ \A k \in 1..(i - 1) : steps'[k] = steps[k]
         /\ pc' \in {"idle", "step"}
         /\ \E n \in 1..MaxNew :
               /\ Len(steps') = Len(steps) + n - 1
               /\ \A k \in 1..Len(steps') :
                     steps'[k].origin = steps[Before(k, n)].origin
<1>1. /\ pc = "planner" /\ i' = i /\ budget' = budget /\ runs' = runs
  BY DEF PlannerAnswers
<1>2. /\ steps \in Seq(Steps) /\ Len(steps) \in Nat /\ i \in 1..Len(steps)
      /\ \A k \in 1..(i - 1) : steps[k].status = "done"
      /\ budget \in 0..MaxReplan /\ runs \in 0..MaxRuns
  BY <1>1, RunningFacts
<1>3. PICK n \in 1..MaxNew :
        BeginStep(Splice(steps, i, NewSteps(n, steps[i].origin)), i)
  BY DEF PlannerAnswers
<1>4. PICK o \in Origins : o = steps[i].origin
  <2>1. steps[i] \in Steps
    BY <1>2
  <2> QED
    BY <2>1 DEF Steps
<1>5. n \in Nat \ {0}
  BY ExecutorAssumption
<1>6. PICK t :
        /\ t = Splice(steps, i, NewSteps(n, o))
        /\ t \in Seq(Steps)
        /\ Len(t) = Len(steps) + n - 1
        /\ \A k \in 1..(i - 1) : t[k] = steps[k]
        /\ \A k \in i..(i + n - 1) : t[k] = NewStep(o)
        /\ \A k \in (i + n)..Len(t) : t[k] = steps[k - n + 1]
  <2>1. PICK t :
          t = Splice(steps, i, NewSteps(n, o)) /\ Spliced(steps, i, n, o, t)
    BY <1>2, SpliceFacts
  <2> QED
    BY <2>1, Zenon DEF Spliced
<1>7. i \in 1..(Len(t) + 1) /\ \A k \in 1..(i - 1) : t[k].status = "done"
  BY <1>2, <1>5, <1>6
<1>8. /\ IndInv'
      /\ Len(steps') = Len(t)
      /\ \A k \in 1..(i - 1) : steps'[k] = t[k]
      /\ \A k \in 1..Len(t) : steps'[k].origin = t[k].origin
      /\ pc' \in {"idle", "step"}
  <2>1. BeginStep(t, i) /\ budget' \in 0..MaxReplan /\ runs' \in 0..MaxRuns
    BY <1>1, <1>2, <1>3, <1>4, <1>6
  <2>2. IndInv' /\ Entered(t, i)
    BY <1>1, <1>6, <1>7, <2>1, BeginStepFacts
  <2> QED
    BY <2>2 DEF Entered
<1>9. \A k \in 1..(i - 1) : steps'[k] = steps[k]
  BY <1>6, <1>8
<1>10. \A k \in 1..Len(steps') : steps'[k].origin = steps[Before(k, n)].origin
  <2> SUFFICES ASSUME NEW k \in 1..Len(t)
               PROVE  t[k].origin = steps[Before(k, n)].origin
    BY <1>8
  <2>0. NewStep(o).origin = o
    BY DEF NewStep
  <2>1. CASE k < i
    BY <1>2, <1>6, <2>1 DEF Before
  <2>2. CASE ~(k < i) /\ k < i + n
    <3>1. k \in i..(i + n - 1) /\ Before(k, n) = i
      BY <1>2, <1>5, <2>2 DEF Before
    <3> QED
      BY <1>4, <1>6, <2>0, <3>1
  <2>3. CASE ~(k < i) /\ ~(k < i + n)
    <3>1. k \in (i + n)..Len(t) /\ Before(k, n) = k - n + 1
      BY <1>2, <1>5, <1>6, <2>3 DEF Before
    <3> QED
      BY <1>6, <3>1
  <2> QED
    BY <2>1, <2>2, <2>3
<1> QED
  BY <1>6, <1>8, <1>9, <1>10

LEMMA NextInv == IndInv /\ [Next]_vars => IndInv'
<1> SUFFICES ASSUME IndInv, [Next]_vars PROVE IndInv'
  OBVIOUS
<1>1. CASE Execute
  BY <1>1, ExecuteFacts
<1>2. CASE StepSucceeds
  BY <1>2, StepSucceedsFacts
<1>3. CASE StepFailsAndReplans
  BY <1>3, StepFailsFacts
<1>4. CASE StepFailsAndHalts
  BY <1>4, StepFailsFacts
<1>5. CASE PlannerAnswers
  BY <1>5, PlannerAnswersFacts
<1>6. CASE PlannerRaises
  <2>1. /\ status' = "failed" /\ pc' = "idle" /\ span' = "ERROR"
        /\ steps' = steps /\ i' = i /\ budget' = budget /\ runs' = runs
    BY <1>6 DEF PlannerRaises, Halt
  <2>2. DoneUpTo(i) /\ steps[i].status = "failed"
    BY <1>6, RunningFacts DEF PlannerRaises, DoneUpTo
  <2>3. (DoneUpTo(i))' /\ (steps[i].status = "failed")'
    BY <2>1, <2>2 DEF DoneUpTo
  <2> QED
    BY <2>1, <2>3
       DEF IndInv, TypeOK, LoopPosition, StatusTellsProgress, SpanTellsOutcome, Statuses
<1>7. CASE Cancel
  <2>1. /\ pc' = "idle" /\ span' = "ERROR" /\ status = "running"
        /\ steps' = steps /\ status' = status /\ i' = i
        /\ budget' = budget /\ runs' = runs
    BY <1>7, RunningFacts DEF Cancel
  <2> QED
    BY <2>1
       DEF IndInv, TypeOK, LoopPosition, StatusTellsProgress, SpanTellsOutcome, Statuses
<1>8. CASE UNCHANGED vars
  BY <1>8 DEF IndInv, vars, TypeOK, LoopPosition, StatusTellsProgress, DoneUpTo,
              SpanTellsOutcome
<1> QED
  BY <1>1, <1>2, <1>3, <1>4, <1>5, <1>6, <1>7, <1>8 DEF Next, Progress, NoMoreRuns

(* The invariant holds throughout: the variables stay in their types, the  *)
(* loop stays inside the plan, and statuses and span tell what happened.   *)
THEOREM PlanInvariant == Spec => []IndInv
<1> QED
  BY InitInv, NextInv, PTL DEF Spec, Safety

(* Every variable keeps its type, for plans of any length.                 *)
THEOREM PlanTypes == Spec => []TypeOK
<1>1. IndInv => TypeOK
  BY DEF IndInv
<1> QED
  BY <1>1, PlanInvariant, PTL

(* For every plan, planner and budget, the statuses tell how far execute   *)
(* got: a plan reported done has only done steps, a failed one stopped at  *)
(* a failed step with everything before it done.                           *)
THEOREM StatusesTellProgress == Spec => []StatusTellsProgress
<1>1. IndInv => StatusTellsProgress
  BY DEF IndInv
<1> QED
  BY <1>1, PlanInvariant, PTL

(* The span of an ended execution is OK exactly when the plan is done.     *)
THEOREM SpansTellOutcome == Spec => []SpanTellsOutcome
<1>1. IndInv => SpanTellsOutcome
  BY DEF IndInv
<1> QED
  BY <1>1, PlanInvariant, PTL

-----------------------------------------------------------------------------
(* Whatever fails, is replanned or is cancelled, no step before the index  *)
(* changes while the plan runs, and the index does not go back.            *)
THEOREM DoneWorkStays == Spec => DoneWorkIsKept
<1> DEFINE Kept == pc # "idle" => /\ i' >= i
                                  /\ \A k \in 1..(i - 1) : steps'[k] = steps[k]
<1>1. IndInv /\ [Next]_vars => [Kept]_vars
  <2> SUFFICES ASSUME IndInv, [Next]_vars, pc # "idle" PROVE Kept
    BY DEF vars
  <2>0. i \in Nat
    BY RunningFacts
  <2>1. CASE StepSucceeds
    <3>1. i' = i + 1
      BY <2>1 DEF StepSucceeds
    <3> QED
      BY <2>0, <2>1, <3>1, StepSucceedsFacts
  <2>2. CASE StepFailsAndReplans \/ StepFailsAndHalts
    BY <2>0, <2>2, StepFailsFacts
  <2>3. CASE PlannerAnswers
    <3>1. i' = i
      BY <2>3 DEF PlannerAnswers
    <3> QED
      BY <2>0, <2>3, <3>1, PlannerAnswersFacts
  <2>4. CASE PlannerRaises \/ Cancel \/ UNCHANGED vars
    BY <2>0, <2>4 DEF PlannerRaises, Cancel, vars
  <2> QED
    BY <2>1, <2>2, <2>3, <2>4 DEF Next, Progress, Execute, NoMoreRuns
<1> QED
  BY <1>1, PlanInvariant, PTL DEF Spec, Safety, DoneWorkIsKept

(* A replanning costs one of the budget, which is worth MaxNew + 1.        *)
LEMMA OneReplanning ==
  ASSUME NEW b \in Nat, NEW m \in Nat, b > 0
  PROVE  /\ b * m \in Nat /\ (b - 1) * m \in Nat
         /\ (b - 1) * m = b * m - m
  OBVIOUS

(* The measure is a natural number while the loop runs, so that it cannot  *)
(* decrease for ever.                                                      *)
THEOREM FuelIsNatural == Spec => [](pc # "idle" => Fuel \in Nat)
<1>1. IndInv => (pc # "idle" => Fuel \in Nat)
  <2> SUFFICES ASSUME IndInv, pc # "idle" PROVE Fuel \in Nat
    OBVIOUS
  <2>1. Len(steps) - i \in Nat /\ budget \in Nat /\ MaxNew \in Nat
    BY RunningFacts, ExecutorAssumption
  <2>2. budget * (MaxNew + 1) \in Nat
    BY <2>1
  <2> QED
    BY <2>1, <2>2 DEF Fuel
<1> QED
  BY <1>1, PlanInvariant, PTL

(* Every continuation of the loop decreases the measure: with FuelIsNatural*)
(* an execution has finitely many steps, whatever the planner answers.     *)
THEOREM LoopsUseFuel == Spec => LoopUsesFuel
<1> DEFINE Down == pc # "idle" /\ pc' # "idle" => Fuel' < Fuel
<1>1. IndInv /\ [Next]_vars => [Down]_vars
  <2> SUFFICES ASSUME IndInv, Next, pc # "idle", pc' # "idle" PROVE Fuel' < Fuel
    BY DEF vars
  <2> DEFINE worth == budget * (MaxNew + 1)
  <2>0. /\ Len(steps) \in Nat /\ i \in 1..Len(steps) /\ budget \in Nat
        /\ MaxNew \in Nat \ {0} /\ worth \in Nat
    <3>1. budget \in Nat /\ MaxNew \in Nat \ {0}
      BY RunningFacts, ExecutorAssumption
    <3>2. worth \in Nat
      BY <3>1
    <3> QED
      BY <3>1, <3>2, RunningFacts
  <2>1. CASE StepSucceeds
    <3>1. /\ pc = "step" /\ pc' = "step" /\ i' = i + 1 /\ budget' = budget
          /\ Len(steps') = Len(steps)
      BY <2>1, StepSucceedsFacts DEF StepSucceeds
    <3>2. Fuel = worth + (Len(steps) - i) /\ Fuel' = worth + (Len(steps) - (i + 1))
      BY <2>0, <3>1 DEF Fuel
    <3> HIDE DEF worth
    <3> QED
      BY <2>0, <3>2
  <2>2. CASE StepFailsAndReplans
    <3>1. /\ pc = "step" /\ pc' = "planner" /\ i' = i /\ budget' = budget - 1
          /\ Len(steps') = Len(steps)
      BY <2>2, StepFailsFacts DEF StepFailsAndReplans
    <3>2. budget > 0
      BY <2>2 DEF StepFailsAndReplans, CanReplan
    <3>3. (budget - 1) * (MaxNew + 1) = worth - (MaxNew + 1)
      BY <2>0, <3>2, OneReplanning
    <3>4. /\ Fuel = worth + (Len(steps) - i)
          /\ Fuel' = worth - (MaxNew + 1) + MaxNew + (Len(steps) - i)
      BY <2>0, <3>1, <3>3 DEF Fuel
    <3> HIDE DEF worth
    <3> QED
      BY <2>0, <3>4
  <2>3. CASE PlannerAnswers
    <3>1. PICK n \in 1..MaxNew : Len(steps') = Len(steps) + n - 1
      BY <2>3, PlannerAnswersFacts
    <3>2. pc = "planner" /\ pc' = "step" /\ i' = i /\ budget' = budget
      BY <2>3, PlannerAnswersFacts DEF PlannerAnswers
    <3>3. /\ Fuel = worth + MaxNew + (Len(steps) - i)
          /\ Fuel' = worth + (Len(steps) + n - 1 - i)
      BY <2>0, <3>1, <3>2 DEF Fuel
    <3> HIDE DEF worth
    <3> QED
      BY <2>0, <3>3
  <2>4. CASE Execute \/ StepFailsAndHalts \/ PlannerRaises \/ Cancel \/ NoMoreRuns
    BY <2>4 DEF Execute, StepFailsAndHalts, PlannerRaises, Halt, Cancel, NoMoreRuns
  <2> QED
    BY <2>1, <2>2, <2>3, <2>4 DEF Next, Progress
<1> QED
  BY <1>1, PlanInvariant, PTL DEF Spec, Safety, LoopUsesFuel

-----------------------------------------------------------------------------
(* NoStepLost, without set comprehensions: each step of the caller's plan  *)
(* is the origin of some step, each step has one, and they are in order.   *)
InOrder == /\ \A k \in 1..Len(steps) : steps[k].origin \in Origins
           /\ \A o \in Origins : \E k \in 1..Len(steps) : steps[k].origin = o
           /\ \A j, k \in 1..Len(steps) :
                 j < k => steps[j].origin <= steps[k].origin

LEMMA InitInOrder == Init => InOrder
<1> SUFFICES ASSUME Init PROVE InOrder
  OBVIOUS
<1>1. Len(steps) = NumSteps /\ \A k \in 1..NumSteps : steps[k].origin = k
  BY ExecutorAssumption DEF Init, Origins, NewStep
<1> QED
  BY <1>1, ExecutorAssumption DEF InOrder, Origins

(* A splice at i keeps the order, since Before is monotonic and onto.      *)
LEMMA SpliceInOrder ==
  ASSUME InOrder, NEW n \in 1..MaxNew, i \in 1..Len(steps), Len(steps) \in Nat,
         Len(steps') = Len(steps) + n - 1,
         \A k \in 1..Len(steps') : steps'[k].origin = steps[Before(k, n)].origin
  PROVE  InOrder'
<1>0. n \in Nat \ {0}
  BY ExecutorAssumption
<1>1. \A k \in 1..Len(steps') : Before(k, n) \in 1..Len(steps)
  BY <1>0 DEF Before
<1>2. \A j, k \in 1..Len(steps') :
         j < k => Before(j, n) < Before(k, n) \/ Before(j, n) = Before(k, n)
  BY <1>0 DEF Before
<1>3. \A k \in 1..Len(steps') : steps'[k].origin \in Origins
  BY <1>1 DEF InOrder
<1>4. ASSUME NEW o \in Origins
      PROVE  \E k \in 1..Len(steps') : steps'[k].origin = o
  <2>1. PICK k \in 1..Len(steps) : steps[k].origin = o
    BY DEF InOrder
  <2>2. CASE k <= i
    <3>1. k \in 1..Len(steps') /\ Before(k, n) = k
      BY <1>0, <2>2 DEF Before
    <3> QED
      BY <2>1, <3>1
  <2>3. CASE k > i
    <3>1. k + n - 1 \in 1..Len(steps') /\ Before(k + n - 1, n) = k
      BY <1>0, <2>3 DEF Before
    <3> QED
      BY <2>1, <3>1
  <2> QED
    BY <2>2, <2>3
<1>5. ASSUME NEW j \in 1..Len(steps'), NEW k \in 1..Len(steps'), j < k
      PROVE  steps'[j].origin <= steps'[k].origin
  <2> DEFINE p == Before(j, n)
             q == Before(k, n)
  <2>1. /\ p \in 1..Len(steps) /\ q \in 1..Len(steps) /\ (p < q \/ p = q)
    BY <1>1, <1>2, <1>5
  <2>2. steps[p].origin \in Nat
    BY <2>1, ExecutorAssumption DEF InOrder, Origins
  <2>3. steps[p].origin <= steps[q].origin
    <3> HIDE DEF p, q
    <3>1. CASE p < q
      BY <2>1, <3>1 DEF InOrder
    <3>2. CASE p = q
      BY <2>2, <3>2
    <3> QED
      BY <2>1, <3>1, <3>2
  <2> QED
    BY <2>3
<1> QED
  BY <1>3, <1>4, <1>5 DEF InOrder

LEMMA NextInOrder == IndInv /\ InOrder /\ [Next]_vars => InOrder'
<1> SUFFICES ASSUME IndInv, InOrder, [Next]_vars PROVE InOrder'
  OBVIOUS
<1>1. CASE /\ Len(steps') = Len(steps)
           /\ \A k \in 1..Len(steps) : steps'[k].origin = steps[k].origin
  BY <1>1 DEF InOrder
<1>2. CASE Execute
  BY <1>1, <1>2, ExecuteFacts
<1>3. CASE StepSucceeds
  BY <1>1, <1>3, StepSucceedsFacts
<1>4. CASE StepFailsAndReplans \/ StepFailsAndHalts
  BY <1>1, <1>4, StepFailsFacts
<1>5. CASE PlannerAnswers
  <2>1. pc # "idle"
    BY <1>5 DEF PlannerAnswers
  <2> QED
    BY <1>5, <2>1, PlannerAnswersFacts, RunningFacts, SpliceInOrder
<1>6. CASE PlannerRaises \/ Cancel \/ UNCHANGED vars
  BY <1>1, <1>6 DEF PlannerRaises, Cancel, vars
<1> QED
  BY <1>2, <1>3, <1>4, <1>5, <1>6 DEF Next, Progress, NoMoreRuns

(* However often steps fail and are replaced, every step of the caller's   *)
(* plan stays represented, in the order the caller gave.                   *)
THEOREM NoStepIsLost == Spec => []NoStepLost
<1>1. IndInv /\ InOrder => NoStepLost
  <2> SUFFICES ASSUME IndInv, InOrder PROVE NoStepLost
    OBVIOUS
  <2>1. DOMAIN steps = 1..Len(steps)
    BY DEF IndInv, TypeOK
  <2>2. {steps[k].origin : k \in DOMAIN steps} = Origins
    BY <2>1, Zenon DEF InOrder
  <2> QED
    BY <2>1, <2>2 DEF InOrder, NoStepLost
<1> QED
  BY <1>1, InitInOrder, NextInOrder, PlanInvariant, PTL DEF Spec, Safety
=============================================================================
