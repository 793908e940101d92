---------------------------- MODULE ServingProofs ----------------------------
(***************************************************************************)
(* Proofs about Serving.tla for any apps, clients, parts of the batch and  *)
(* candidates, whoever is cancelled and whoever changes the collector.     *)
(***************************************************************************)
EXTENDS Serving, FiniteSetTheorems, WellFoundedInduction, TLAPS

-----------------------------------------------------------------------------
(***************************************************************************)
(* Traces.  The invariant says of every task which spans it has open and   *)
(* where they hang, by the place it is at; and of every finished span that *)
(* its task is past it.                                                    *)
(***************************************************************************)
Callers == Clients \cup Parts
Places == {"idle", "ready", "calling", "waiting", "cancelling", "done"}
Runs == {"waiting", "cancelling"}

Typed == /\ pc \in [Tasks -> Places]
         /\ open \in [Tasks -> Seq(Spans)]
         /\ birth \in [Tasks -> Spans \cup {NoSpan}]

(* The two spans of a call: the routing span hangs where the task began,   *)
(* the attempt's hangs on it.                                              *)
CallSpans(r, a, t, outer) ==
    /\ r.id = RoutingId(t)
    /\ r.parent = IF outer = NoSpan THEN NoSpan ELSE outer.id
    /\ r.trace = IF outer = NoSpan THEN r.id ELSE outer.trace
    /\ a.id[1] = t /\ a.id[2] # 0
    /\ a.parent = r.id /\ a.trace = r.trace

CallerOK(t) ==
    /\ pc[t] \in {"idle", "ready", "calling", "done"}
    /\ pc[t] # "calling" => open[t] = <<>>
    /\ pc[t] = "calling" => /\ Len(open[t]) = 2
                            /\ CallSpans(open[t][1], open[t][2], t, birth[t])
    /\ t \in Clients => birth[t] = NoSpan /\ pc[t] # "ready"
    /\ t \in Parts /\ pc[t] \in {"ready", "calling"} =>
         pc[Job] \in Runs /\ birth[t] = open[Job][1]
    /\ t \in Parts /\ pc[Job] = "idle" => pc[t] = "idle"

JobOK ==
    /\ pc[Job] \in Runs \cup {"idle", "done"}
    /\ birth[Job] = NoSpan
    /\ pc[Job] \notin Runs => open[Job] = <<>>
    /\ pc[Job] \in Runs => /\ Len(open[Job]) = 1
                           /\ open[Job][1].id = RoutingId(Job)
                           /\ open[Job][1].parent = NoSpan
                           /\ open[Job][1].trace = RoutingId(Job)

(* The task at the root of the trace of t.                                 *)
Home(t) == IF t \in Parts THEN Job ELSE t

CollectedOK(s) ==
    /\ s.id \in SpanIds
    /\ s.trace[1] = Home(s.id[1])
    /\ \/ pc[s.id[1]] = "done"
       \/ /\ s.id[1] \in Callers /\ pc[s.id[1]] = "calling"
          /\ s.id[2] # 0 /\ s.id[2] < Attempt(s.id[1])

TreeInv == /\ Typed /\ JobOK
           /\ \A t \in Callers : CallerOK(t)
           /\ \A s \in collected : CollectedOK(s)

-----------------------------------------------------------------------------
LEMMA TaskFacts ==
  /\ Job \in Tasks /\ Job \notin Callers /\ Callers \subseteq Tasks
  /\ Tasks = Callers \cup {Job} /\ Clients \cap Parts = {}
  /\ \A t \in Tasks, n \in Nat : <<t, n>> \in SpanIds
  BY ServingAssumption DEF Tasks, Callers, SpanIds

LEMMA NewSpanType ==
  ASSUME NEW outer \in Spans \cup {NoSpan}, NEW id \in SpanIds,
         NEW kind \in {"agent", "llm", "internal"}, NEW model \in ToSet(Models) \cup {Nothing}
  PROVE  LET s == NewSpan(outer, id, kind, model)
         IN  /\ s \in Spans /\ s # NoSpan /\ s.id = id
             /\ s.parent = IF outer = NoSpan THEN NoSpan ELSE outer.id
             /\ s.trace = IF outer = NoSpan THEN id ELSE outer.trace
  BY ServingAssumption DEF NewSpan, Spans

LEMMA ModelOf ==
  ASSUME NEW a \in 1..Len(Models)
  PROVE  Models[a] \in ToSet(Models)
  BY ServingAssumption DEF ToSet

LEMMA FirstModel == Models[1] \in ToSet(Models) /\ Len(Models) \in Nat
<1>1. Models \in Seq(ToSet(Models)) /\ Models # <<>>
  BY ServingAssumption
<1>2. Len(Models) \in Nat /\ 1 \in 1..Len(Models)
  BY <1>1
<1> QED
  BY <1>2, ModelOf

LEMMA TreeInvInit == Init => TreeInv
<1> SUFFICES ASSUME Init PROVE TreeInv
  OBVIOUS
<1>1. \A t \in Tasks : pc[t] = "idle" /\ open[t] = <<>> /\ birth[t] = NoSpan
  BY DEF Init
<1>2. Typed
  BY DEF Init, Typed, Places
<1>3. JobOK
  BY <1>1, TaskFacts DEF JobOK, Runs
<1>4. ASSUME NEW t \in Callers PROVE CallerOK(t)
  BY <1>1, TaskFacts DEF CallerOK
<1> QED
  BY <1>2, <1>3, <1>4 DEF TreeInv, Init

(* A task whose own state, creator and finished spans stay is still fine.  *)
LEMMA OthersStay ==
  ASSUME TreeInv, NEW t \in Callers, pc'[t] = pc[t], open'[t] = open[t], birth'[t] = birth[t],
         pc'[Job] = pc[Job] \/ {pc[Job], pc'[Job]} \subseteq Runs, open'[Job] = open[Job]
  PROVE  CallerOK(t)'
  BY DEF TreeInv, CallerOK, Runs

LEMMA JobStays ==
  ASSUME TreeInv, pc'[Job] = pc[Job], open'[Job] = open[Job], birth'[Job] = birth[Job]
  PROVE  JobOK'
  BY DEF TreeInv, JobOK

LEMMA CollectedStays ==
  ASSUME TreeInv, NEW s \in collected, pc'[s.id[1]] = pc[s.id[1]], open'[s.id[1]] = open[s.id[1]]
  PROVE  CollectedOK(s)'
  BY DEF TreeInv, CollectedOK, Attempt

LEMMA CollectedDone ==
  ASSUME TreeInv, NEW s \in collected, pc'[s.id[1]] = "done"
  PROVE  CollectedOK(s)'
  BY DEF TreeInv, CollectedOK

(* A call begins: its spans hang where the task does.                      *)
LEMMA CallBegins ==
  ASSUME TreeInv, NEW t \in Callers, pc[t] \in {"idle", "ready"},
         t \in Parts => pc[t] = "ready", BeginCall(t), UNCHANGED <<birth, collected>>
  PROVE  TreeInv'
<1> DEFINE r == NewSpan(birth[t], RoutingId(t), "agent", Nothing)
           a == NewSpan(r, AttemptId(t, 1), "llm", Models[1])
<1>1. CallerOK(t) /\ open[t] = <<>> /\ t \in Tasks /\ t # Job
  BY TaskFacts DEF TreeInv, CallerOK
<1>2. /\ open' = [open EXCEPT ![t] = <<r, a>>] /\ pc' = [pc EXCEPT ![t] = "calling"]
  BY <1>1 DEF BeginCall, Current
<1>3. birth[t] \in Spans \cup {NoSpan}
  BY <1>1 DEF TreeInv, Typed
<1>4. RoutingId(t) \in SpanIds /\ AttemptId(t, 1) \in SpanIds
  BY <1>1, TaskFacts DEF RoutingId, AttemptId
<1>5. /\ r \in Spans /\ r # NoSpan /\ r.id = RoutingId(t)
      /\ r.parent = IF birth[t] = NoSpan THEN NoSpan ELSE birth[t].id
      /\ r.trace = IF birth[t] = NoSpan THEN r.id ELSE birth[t].trace
  BY <1>3, <1>4, NewSpanType
<1> HIDE DEF r
<1>6. /\ a \in Spans /\ a.id = AttemptId(t, 1) /\ a.parent = r.id /\ a.trace = r.trace
  BY <1>4, <1>5, FirstModel, NewSpanType
<1> HIDE DEF a
<1>7. /\ <<r, a>> \in Seq(Spans) /\ Len(<<r, a>>) = 2 /\ <<r, a>>[1] = r /\ <<r, a>>[2] = a
  BY <1>5, <1>6
<1>8. /\ pc'[t] = "calling" /\ open'[t] = <<r, a>> /\ birth' = birth
      /\ \A u \in Tasks \ {t} : pc'[u] = pc[u] /\ open'[u] = open[u]
  BY <1>1, <1>2 DEF TreeInv, Typed
<1>9. Typed'
  BY <1>1, <1>2, <1>7 DEF TreeInv, Typed, Places
<1>10. JobOK'
  BY <1>1, <1>8, TaskFacts, JobStays
<1>11. ASSUME NEW u \in Callers PROVE CallerOK(u)'
  <2>1. CASE u = t
    <3>1. a.id[1] = t /\ a.id[2] # 0
      BY <1>6 DEF AttemptId
    <3>2. CallSpans(r, a, t, birth[t])
      BY <1>5, <1>6, <3>1 DEF CallSpans
    <3>3. CallSpans(open'[t][1], open'[t][2], t, birth'[t]) /\ Len(open'[t]) = 2
      BY <1>7, <1>8, <3>2
    <3>4. pc'[Job] = pc[Job] /\ open'[Job] = open[Job]
      BY <1>1, <1>8, TaskFacts
    <3>5. t \in Parts => pc[Job] \in Runs /\ birth[t] = open[Job][1]
      BY <1>1 DEF CallerOK
    <3>6. t \in Clients => birth[t] = NoSpan
      BY <1>1 DEF CallerOK
    <3>7. "idle" \notin Runs
      BY DEF Runs
    <3> HIDE DEF CallSpans, Runs
    <3> QED
      BY <1>8, <2>1, <3>3, <3>4, <3>5, <3>6, <3>7 DEF CallerOK
  <2>2. CASE u # t
    BY <1>1, <1>8, <2>2, TaskFacts, OthersStay
  <2> QED
    BY <2>1, <2>2
<1>12. ASSUME NEW s \in collected PROVE CollectedOK(s)'
  <2>1. s.id[1] \in Tasks /\ s.id[1] # t
    BY <1>1 DEF TreeInv, CollectedOK, SpanIds
  <2> QED
    BY <1>8, <2>1, CollectedStays
<1> QED
  BY <1>9, <1>10, <1>11, <1>12 DEF TreeInv

(* The spans of a call that is under way.                                  *)
LEMMA SpansOfCall ==
  ASSUME TreeInv, NEW t \in Callers, pc[t] = "calling"
  PROVE  /\ t \in Tasks /\ t # Job /\ Len(open[t]) = 2 /\ open[t] \in Seq(Spans)
         /\ open[t][1] \in Spans /\ open[t][2] \in Spans
         /\ CallSpans(open[t][1], open[t][2], t, birth[t])
         /\ open[t][2].id = <<t, Attempt(t)>> /\ Attempt(t) \in Nat \ {0}
         /\ open[t][1].trace[1] = Home(t) /\ open[t][2].trace[1] = Home(t)
<1>1. t \in Tasks /\ t # Job /\ open[t] \in Seq(Spans) /\ Len(open[t]) = 2
      /\ CallSpans(open[t][1], open[t][2], t, birth[t])
  BY TaskFacts DEF TreeInv, Typed, CallerOK
<1>2. open[t][1] \in Spans /\ open[t][2] \in Spans
  BY <1>1
<1>3. open[t][2].id \in SpanIds /\ open[t][2].id[1] = t /\ open[t][2].id[2] # 0
  BY <1>1, <1>2 DEF Spans, CallSpans
<1>4. open[t][2].id = <<t, Attempt(t)>> /\ Attempt(t) \in Nat \ {0}
  BY <1>3 DEF SpanIds, Attempt
<1>5. open[t][1].trace[1] = Home(t)
  <2>1. CASE t \in Clients
    BY <1>1, <2>1, TaskFacts DEF TreeInv, CallerOK, CallSpans, RoutingId, Home
  <2>2. CASE t \in Parts
    <3>1. birth[t] = open[Job][1] /\ pc[Job] \in Runs
      BY <2>2, TaskFacts DEF TreeInv, CallerOK
    <3>2. birth[t].trace = RoutingId(Job)
      BY <3>1 DEF TreeInv, JobOK
    <3>3. birth[t] # NoSpan
      <4>1. open[Job] \in Seq(Spans) /\ Len(open[Job]) = 1
        BY <3>1, TaskFacts DEF TreeInv, Typed, JobOK
      <4> QED
        BY <3>1, <4>1, ServingAssumption
    <3> QED
      BY <1>1, <2>2, <3>2, <3>3 DEF CallSpans, RoutingId, Home
  <2> QED
    BY <2>1, <2>2 DEF Callers
<1>6. open[t][2].trace = open[t][1].trace
  BY <1>1 DEF CallSpans
<1> QED
  BY <1>1, <1>2, <1>4, <1>5, <1>6

(* A call ends: both spans are collected.                                  *)
LEMMA CallEnds ==
  ASSUME TreeInv, NEW t \in Callers, pc[t] = "calling", NEW status, NEW tokens,
         EndCall(t, status, tokens), UNCHANGED birth
  PROVE  TreeInv'
<1> DEFINE f == Finished(open[t][2], status, tokens)
           g == Finished(open[t][1], status, Absent)
<1>1. /\ collected' = collected \cup {f, g}
      /\ open' = [open EXCEPT ![t] = <<>>] /\ pc' = [pc EXCEPT ![t] = "done"]
  BY DEF EndCall
<1>2. /\ f.id = open[t][2].id /\ f.trace = open[t][2].trace
      /\ g.id = open[t][1].id /\ g.trace = open[t][1].trace
  BY DEF Finished
<1> HIDE DEF f, g
<1>3. t \in Tasks /\ t # Job /\ CallerOK(t)
  BY SpansOfCall DEF TreeInv
<1>4. /\ pc'[t] = "done" /\ open'[t] = <<>> /\ birth' = birth
      /\ \A u \in Tasks \ {t} : pc'[u] = pc[u] /\ open'[u] = open[u]
  BY <1>1, <1>3 DEF TreeInv, Typed
<1>5. Typed'
  BY <1>1, <1>3 DEF TreeInv, Typed, Places
<1>6. JobOK'
  BY <1>3, <1>4, TaskFacts, JobStays
<1>7. ASSUME NEW u \in Callers PROVE CallerOK(u)'
  <2>1. CASE u = t
    <3>1. pc'[Job] = pc[Job] /\ (t \in Parts => pc[Job] # "idle")
      BY <1>3, <1>4, TaskFacts DEF CallerOK
    <3>2. t \in Clients => birth[t] = NoSpan
      BY <1>3 DEF CallerOK
    <3> QED
      BY <1>4, <2>1, <3>1, <3>2 DEF CallerOK
  <2>2. CASE u # t
    BY <1>3, <1>4, <2>2, TaskFacts, OthersStay
  <2> QED
    BY <2>1, <2>2
<1>8. ASSUME NEW s \in collected PROVE CollectedOK(s)'
  <2>1. s.id[1] \in Tasks
    BY DEF TreeInv, CollectedOK, SpanIds
  <2>2. CASE s.id[1] = t
    BY <1>4, <2>2, CollectedDone
  <2>3. CASE s.id[1] # t
    BY <1>4, <2>1, <2>3, CollectedStays
  <2> QED
    BY <2>2, <2>3
<1>9. ASSUME NEW s \in {f, g} PROVE CollectedOK(s)'
  <2>1. s.id \in SpanIds /\ s.id[1] = t /\ s.trace[1] = Home(t)
    <3>1. open[t][1].id = <<t, 0>>
      BY SpansOfCall DEF CallSpans, RoutingId
    <3>2. <<t, 0>> \in SpanIds
      BY <1>3, TaskFacts
    <3>3. open[t][2].id \in SpanIds
      BY SpansOfCall DEF Spans
    <3>4. open[t][2].id[1] = t
      BY SpansOfCall
    <3>5. open[t][1].trace[1] = Home(t) /\ open[t][2].trace[1] = Home(t)
      BY SpansOfCall
    <3> QED
      BY <1>2, <3>1, <3>2, <3>3, <3>4, <3>5
  <2> QED
    BY <1>4, <2>1 DEF CollectedOK
<1> QED
  BY <1>1, <1>5, <1>6, <1>7, <1>8, <1>9 DEF TreeInv

(* The next candidate is tried: one span is collected, another one opens.  *)
LEMMA NextIsTried ==
  ASSUME TreeInv, NEW t \in Callers, TryNext(t)
  PROVE  TreeInv'
<1> DEFINE r == open[t][1]
           n == Attempt(t) + 1
           b == NewSpan(r, AttemptId(t, n), "llm", Models[n])
           f == Finished(open[t][2], "ERROR", Absent)
<1>1. /\ pc[t] = "calling" /\ Attempt(t) < Len(Models) /\ UNCHANGED <<pc, birth>>
      /\ collected' = collected \cup {f} /\ open' = [open EXCEPT ![t][2] = b]
  BY DEF TryNext, Collect
<1>2. /\ t \in Tasks /\ t # Job /\ Len(open[t]) = 2 /\ open[t] \in Seq(Spans)
      /\ r \in Spans /\ open[t][2] \in Spans /\ CallSpans(r, open[t][2], t, birth[t])
      /\ open[t][2].id = <<t, Attempt(t)>> /\ Attempt(t) \in Nat \ {0}
      /\ open[t][2].trace[1] = Home(t)
  BY <1>1, SpansOfCall
<1>3. f.id = open[t][2].id /\ f.trace = open[t][2].trace
  BY DEF Finished
<1> HIDE DEF f
<1>4. n \in 1..Len(Models) /\ n \in Nat /\ n # 0 /\ Attempt(t) < n
  BY <1>1, <1>2, FirstModel
<1>5. b \in Spans /\ b.id = <<t, n>> /\ b.parent = r.id /\ b.trace = r.trace
  <2>1. r # NoSpan
    BY <1>2, ServingAssumption
  <2>2. AttemptId(t, n) \in SpanIds /\ Models[n] \in ToSet(Models)
    BY <1>2, <1>4, TaskFacts, ModelOf DEF AttemptId
  <2> QED
    BY <1>2, <2>1, <2>2, NewSpanType DEF AttemptId
<1> HIDE DEF b
<1>6. /\ open'[t] \in Seq(Spans) /\ Len(open'[t]) = 2 /\ open'[t][1] = r /\ open'[t][2] = b
      /\ open' \in [Tasks -> Seq(Spans)]
      /\ \A u \in Tasks \ {t} : open'[u] = open[u]
  <2>1. [open[t] EXCEPT ![2] = b] \in Seq(Spans) /\ Len([open[t] EXCEPT ![2] = b]) = 2
        /\ [open[t] EXCEPT ![2] = b][1] = r /\ [open[t] EXCEPT ![2] = b][2] = b
    BY <1>2, <1>5
  <2>2. open \in [Tasks -> Seq(Spans)]
    BY DEF TreeInv, Typed
  <2>3. open' = [open EXCEPT ![t] = [open[t] EXCEPT ![2] = b]]
    BY <1>1
  <2> QED
    BY <1>2, <2>1, <2>2, <2>3
<1>7. Typed'
  BY <1>1, <1>6 DEF TreeInv, Typed
<1>8. JobOK'
  BY <1>1, <1>2, <1>6, TaskFacts, JobStays
<1>9. ASSUME NEW u \in Callers PROVE CallerOK(u)'
  <2>1. CASE u = t
    <3>1. CallSpans(r, b, t, birth[t])
      BY <1>2, <1>4, <1>5 DEF CallSpans
    <3>2. CallSpans(open'[t][1], open'[t][2], t, birth'[t])
      BY <1>1, <1>6, <3>1
    <3>3. open'[Job] = open[Job]
      BY <1>2, <1>6, TaskFacts
    <3> HIDE DEF CallSpans
    <3> QED
      BY <1>1, <1>6, <2>1, <3>2, <3>3 DEF TreeInv, CallerOK
  <2>2. CASE u # t
    BY <1>1, <1>2, <1>6, <2>2, TaskFacts, OthersStay
  <2> QED
    BY <2>1, <2>2
<1>10. Attempt(t)' = n
  BY <1>5, <1>6 DEF Attempt
<1>11. ASSUME NEW s \in collected PROVE CollectedOK(s)'
  <2>1. s.id[1] \in Tasks /\ CollectedOK(s) /\ s.id[2] \in Nat
    BY DEF TreeInv, CollectedOK, SpanIds
  <2>2. CASE s.id[1] = t
    BY <1>1, <1>2, <1>4, <1>10, <2>1, <2>2 DEF CollectedOK
  <2>3. CASE s.id[1] # t
    BY <1>1, <1>6, <2>1, <2>3, CollectedStays
  <2> QED
    BY <2>2, <2>3
<1>12. ASSUME NEW s \in {f} PROVE CollectedOK(s)'
  <2>1. s.id = <<t, Attempt(t)>> /\ s.id \in SpanIds /\ s.trace[1] = Home(t)
    BY <1>2, <1>3, TaskFacts
  <2>2. s.id[1] = t /\ s.id[2] = Attempt(t)
    BY <2>1
  <2> QED
    BY <1>1, <1>2, <1>4, <1>10, <2>1, <2>2 DEF CollectedOK
<1> QED
  BY <1>1, <1>3, <1>7, <1>8, <1>9, <1>11, <1>12 DEF TreeInv

(* A task that has no span open goes on or ends without one.               *)
LEMMA MovesWithoutSpans ==
  ASSUME TreeInv, NEW t \in Callers, pc[t] \in {"idle", "ready"},
         t \in Parts => pc[t] = "ready", Done(t), UNCHANGED <<open, birth, collected>>
  PROVE  TreeInv'
<1>1. t \in Tasks /\ t # Job /\ pc' = [pc EXCEPT ![t] = "done"] /\ CallerOK(t)
  BY TaskFacts DEF Done, TreeInv
<1>2. pc'[t] = "done" /\ \A u \in Tasks \ {t} : pc'[u] = pc[u]
  BY <1>1 DEF TreeInv, Typed
<1>3. Typed'
  BY <1>1 DEF TreeInv, Typed, Places
<1>4. JobOK'
  BY <1>1, <1>2, TaskFacts, JobStays
<1>5. ASSUME NEW u \in Callers PROVE CallerOK(u)'
  <2>1. CASE u = t
    <3>1. pc'[Job] = pc[Job] /\ (t \in Parts => pc[Job] # "idle")
      BY <1>1, <1>2, TaskFacts DEF CallerOK
    <3> QED
      BY <1>1, <1>2, <2>1, <3>1 DEF CallerOK
  <2>2. CASE u # t
    BY <1>1, <1>2, <2>2, TaskFacts, OthersStay
  <2> QED
    BY <2>1, <2>2
<1>6. ASSUME NEW s \in collected PROVE CollectedOK(s)'
  <2>1. s.id[1] \in Tasks
    BY DEF TreeInv, CollectedOK, SpanIds
  <2> QED
    BY <1>2, <2>1, CollectedStays, CollectedDone
<1> QED
  BY <1>3, <1>4, <1>5, <1>6 DEF TreeInv

(* The batch begins: its parts inherit the job's span.                     *)
LEMMA JobStarts ==
  ASSUME TreeInv, StartJob
  PROVE  TreeInv'
<1> DEFINE s == NewSpan(Current(Job), RoutingId(Job), "internal", Nothing)
<1>1. /\ pc[Job] = "idle" /\ open' = [open EXCEPT ![Job] = <<s>>]
      /\ birth' = [t \in Tasks |-> IF t \in Parts THEN s ELSE birth[t]]
      /\ pc' = [t \in Tasks |-> IF t = Job THEN "waiting"
                                ELSE IF t \in Parts THEN "ready" ELSE pc[t]]
      /\ UNCHANGED collected
  BY DEF StartJob
<1>2. Current(Job) = NoSpan
  BY <1>1 DEF TreeInv, JobOK, Current, Runs
<1>3. /\ s \in Spans /\ s.id = RoutingId(Job) /\ s.parent = NoSpan /\ s.trace = RoutingId(Job)
      /\ RoutingId(Job) = <<Job, 0>>
  BY <1>2, TaskFacts, NewSpanType DEF RoutingId
<1> HIDE DEF s
<1>4. /\ <<s>> \in Seq(Spans) /\ Len(<<s>>) = 1 /\ <<s>>[1] = s
  BY <1>3
<1>5. /\ pc'[Job] = "waiting" /\ open'[Job] = <<s>> /\ birth'[Job] = NoSpan
      /\ \A t \in Callers : open'[t] = open[t]
      /\ \A t \in Parts : pc'[t] = "ready" /\ birth'[t] = s
      /\ \A t \in Clients : pc'[t] = pc[t] /\ birth'[t] = birth[t]
  BY <1>1, TaskFacts DEF TreeInv, Typed, JobOK, Callers
<1>6. Typed'
  BY <1>1, <1>3, <1>4, TaskFacts DEF TreeInv, Typed, Places
<1>7. JobOK'
  BY <1>3, <1>4, <1>5 DEF JobOK, Runs
<1>8. ASSUME NEW t \in Callers PROVE CallerOK(t)'
  <2>1. CASE t \in Parts
    <3>1. pc[t] = "idle" /\ open[t] = <<>> /\ t \notin Clients
      BY <1>1, <2>1, TaskFacts DEF TreeInv, CallerOK
    <3> QED
      BY <1>4, <1>5, <2>1, <3>1 DEF CallerOK, Runs
  <2>2. CASE t \in Clients
    BY <1>5, <2>2, TaskFacts DEF TreeInv, CallerOK
  <2> QED
    BY <2>1, <2>2 DEF Callers
<1>9. ASSUME NEW x \in collected PROVE CollectedOK(x)'
  <2>1. CollectedOK(x) /\ x.id[1] \in Tasks
    BY DEF TreeInv, CollectedOK, SpanIds
  <2>2. x.id[1] \notin Parts /\ x.id[1] # Job
    BY <1>1, <2>1, TaskFacts DEF TreeInv, CollectedOK, CallerOK, Callers
  <2>3. x.id[1] \in Clients /\ x.id[1] \in Callers
    BY <2>1, <2>2, TaskFacts DEF Callers
  <2> QED
    BY <1>5, <2>3, CollectedStays
<1> QED
  BY <1>1, <1>6, <1>7, <1>8, <1>9 DEF TreeInv

LEMMA JobIsCancelled ==
  ASSUME TreeInv, CancelJob
  PROVE  TreeInv'
<1>1. pc[Job] = "waiting" /\ pc' = [pc EXCEPT ![Job] = "cancelling"]
      /\ UNCHANGED <<open, birth, collected>>
  BY DEF CancelJob, traces
<1>2. /\ pc'[Job] = "cancelling" /\ \A t \in Tasks \ {Job} : pc'[t] = pc[t]
      /\ {pc[Job], pc'[Job]} \subseteq Runs
  BY <1>1, TaskFacts DEF TreeInv, Typed, Runs
<1>3. Typed'
  BY <1>1 DEF TreeInv, Typed, Places
<1>4. JobOK'
  BY <1>1, <1>2 DEF TreeInv, JobOK, Runs
<1>5. ASSUME NEW t \in Callers PROVE CallerOK(t)'
  BY <1>1, <1>2, TaskFacts, OthersStay
<1>6. ASSUME NEW s \in collected PROVE CollectedOK(s)'
  <2>1. s.id[1] \in Tasks /\ s.id[1] # Job
    BY <1>1, TaskFacts DEF TreeInv, CollectedOK, SpanIds
  <2> QED
    BY <1>1, <1>2, <2>1, CollectedStays
<1> QED
  BY <1>1, <1>3, <1>4, <1>5, <1>6 DEF TreeInv

LEMMA JobEnds ==
  ASSUME TreeInv, EndJob
  PROVE  TreeInv'
<1> DEFINE f == Finished(open[Job][1], IF pc[Job] = "cancelling" THEN "ERROR" ELSE "OK", Absent)
<1>1. /\ pc[Job] \in Runs /\ \A t \in Parts : pc[t] = "done"
      /\ collected' = collected \cup {f} /\ open' = [open EXCEPT ![Job] = <<>>]
      /\ pc' = [pc EXCEPT ![Job] = "done"] /\ UNCHANGED birth
  BY DEF EndJob, Collect, Done, Runs
<1>2. f.id = open[Job][1].id /\ f.trace = open[Job][1].trace
  BY DEF Finished
<1> HIDE DEF f
<1>3. /\ pc'[Job] = "done" /\ open'[Job] = <<>> /\ birth'[Job] = birth[Job]
      /\ \A t \in Tasks \ {Job} : pc'[t] = pc[t] /\ open'[t] = open[t]
  BY <1>1, TaskFacts DEF TreeInv, Typed
<1>4. Typed'
  BY <1>1, TaskFacts DEF TreeInv, Typed, Places
<1>5. JobOK'
  BY <1>3 DEF TreeInv, JobOK, Runs
<1>6. ASSUME NEW t \in Callers PROVE CallerOK(t)'
  <2>1. CallerOK(t) /\ t \in Tasks \ {Job}
    BY TaskFacts DEF TreeInv
  <2>2. t \in Parts => pc'[t] = "done"
    BY <1>1, <1>3, <2>1
  <2>3. pc'[t] = pc[t] /\ open'[t] = open[t] /\ birth'[t] = birth[t]
    BY <1>1, <1>3, <2>1
  <2> QED
    BY <1>3, <2>1, <2>2, <2>3 DEF CallerOK
<1>7. ASSUME NEW s \in collected PROVE CollectedOK(s)'
  <2>1. s.id[1] \in Tasks /\ s.id[1] # Job
    BY <1>1, TaskFacts DEF TreeInv, CollectedOK, SpanIds, Runs
  <2> QED
    BY <1>3, <2>1, CollectedStays
<1>8. ASSUME NEW s \in {f} PROVE CollectedOK(s)'
  <2>1. s.id = <<Job, 0>> /\ s.trace = <<Job, 0>> /\ <<Job, 0>> \in SpanIds
    BY <1>1, <1>2, TaskFacts DEF TreeInv, JobOK, RoutingId
  <2>2. Home(Job) = Job
    BY TaskFacts DEF Home, Callers
  <2> QED
    BY <1>3, <2>1, <2>2 DEF CollectedOK
<1> QED
  BY <1>1, <1>2, <1>4, <1>5, <1>6, <1>7, <1>8 DEF TreeInv

LEMMA TreeInvNext == TreeInv /\ [Next]_vars => TreeInv'
<1> SUFFICES ASSUME TreeInv, [Next]_vars PROVE TreeInv'
  OBVIOUS
<1>1. ASSUME UNCHANGED <<pc, open, birth>>, collected' = collected \/ collected' = {}
      PROVE  TreeInv'
  <2>1. Typed' /\ JobOK'
    BY <1>1 DEF TreeInv, Typed, JobOK
  <2>2. ASSUME NEW t \in Callers PROVE CallerOK(t)'
    BY <1>1 DEF TreeInv, CallerOK
  <2>3. ASSUME NEW s \in collected' PROVE CollectedOK(s)'
    BY <1>1, <2>3, CollectedStays
  <2> QED
    BY <2>1, <2>2, <2>3 DEF TreeInv
<1>2. ASSUME NEW t \in Clients, NEW q, pc[t] = "idle", Done(t), UNCHANGED traces
      PROVE  TreeInv'
  BY <1>2, MovesWithoutSpans, TaskFacts DEF traces, Callers
<1>3. ASSUME NEW t \in Clients, NEW q,
             \/ Unconfigured(t, q) \/ Blocked(t, q) \/ GuardFails(t, q) \/ RagAnswer(t, q)
      PROVE  TreeInv'
  <2>1. pc[t] = "idle" /\ Done(t) /\ UNCHANGED traces
    BY <1>3 DEF Unconfigured, Blocked, GuardFails, RagAnswer, Cleared, Begins
  <2> QED
    BY <1>2, <2>1
<1>4. ASSUME NEW t \in Clients, NEW q, Chat(t, q) PROVE TreeInv'
  <2>1. pc[t] = "idle" /\ BeginCall(t) /\ UNCHANGED <<birth, collected>>
    BY <1>4 DEF Chat, Cleared, Begins
  <2> QED
    BY <2>1, CallBegins, TaskFacts DEF Callers
<1>5. ASSUME NEW t \in Callers, GiveUp(t) \/ Cancelled(t) PROVE TreeInv'
  <2>1. pc[t] = "calling" /\ EndCall(t, "ERROR", Absent) /\ UNCHANGED birth
    BY <1>5 DEF GiveUp, Cancelled
  <2> QED
    BY <2>1, CallEnds
<1>6. ASSUME NEW t \in Callers, NEW tokens, ProviderAnswers(t, tokens) PROVE TreeInv'
  <2>1. pc[t] = "calling" /\ EndCall(t, "OK", tokens) /\ UNCHANGED birth
    BY <1>6 DEF ProviderAnswers
  <2> QED
    BY <2>1, CallEnds
<1>7. ASSUME NEW t \in Parts, StartPart(t) PROVE TreeInv'
  <2>1. pc[t] = "ready" /\ BeginCall(t) /\ UNCHANGED <<birth, collected>>
    BY <1>7 DEF StartPart
  <2> QED
    BY <2>1, CallBegins DEF Callers
<1>8. ASSUME NEW t \in Parts, DropPart(t) PROVE TreeInv'
  <2>1. pc[t] = "ready" /\ Done(t) /\ UNCHANGED <<open, birth, collected>>
    BY <1>8 DEF DropPart, traces
  <2> QED
    BY <2>1, MovesWithoutSpans DEF Callers
<1>9. CASE NewRouter \/ SetHook \/ ResetCollector \/ ResetRegistry
  <2>1. UNCHANGED <<pc, open, birth>> /\ (collected' = collected \/ collected' = {})
    BY <1>9 DEF NewRouter, SetHook, ResetCollector, ResetRegistry, Meddle
  <2> QED
    BY <1>1, <2>1
<1>10. CASE Terminated \/ UNCHANGED vars
  BY <1>1, <1>10 DEF Terminated, vars, traces
<1> QED
  BY <1>3, <1>4, <1>5, <1>6, <1>7, <1>8, <1>9, <1>10, NextIsTried,
     JobStarts, JobIsCancelled, JobEnds DEF Next, Callers

(* Traces are trees because of where each task's spans hang.               *)
LEMMA TreeInvGivesTrees == TreeInv => TracesAreTrees
<1> SUFFICES ASSUME TreeInv PROVE TracesAreTrees
  OBVIOUS
<1>1. ASSUME NEW s \in OpenSpans
      PROVE  \/ \E t \in Callers : /\ pc[t] = "calling" /\ Len(open[t]) = 2
                                   /\ s = open[t][1] \/ s = open[t][2]
             \/ pc[Job] \in Runs /\ Len(open[Job]) = 1 /\ s = open[Job][1]
  <2>1. PICK t \in Tasks : s \in ToSet(open[t])
    BY DEF OpenSpans
  <2>2. PICK i \in DOMAIN open[t] : s = open[t][i]
    BY <2>1 DEF ToSet
  <2>3. open[t] # <<>> /\ open[t] \in Seq(Spans) /\ i \in 1..Len(open[t])
    BY <2>2 DEF TreeInv, Typed
  <2>4. CASE t = Job
    BY <2>2, <2>3, <2>4 DEF TreeInv, JobOK
  <2>5. CASE t \in Callers
    BY <2>2, <2>3, <2>5 DEF TreeInv, CallerOK
  <2> QED
    BY <2>4, <2>5, TaskFacts
<1>2. ASSUME NEW t \in Tasks, NEW i \in 1..Len(open[t]) PROVE open[t][i] \in OpenSpans
  <2>1. i \in DOMAIN open[t]
    BY DEF TreeInv, Typed
  <2> QED
    BY <2>1 DEF OpenSpans, ToSet
<1>3. ASSUME pc[Job] \in Runs
      PROVE  /\ open[Job][1] \in Spans /\ open[Job][1] # NoSpan
             /\ open[Job][1] \in OpenSpans /\ Len(open[Job]) = 1
             /\ open[Job][1].id = <<Job, 0>> /\ open[Job][1].parent = NoSpan
             /\ open[Job][1].trace = <<Job, 0>>
  <2>1. open[Job] \in Seq(Spans) /\ Len(open[Job]) = 1
    BY <1>3, TaskFacts DEF TreeInv, Typed, JobOK
  <2>2. open[Job][1] \in Spans /\ 1 \in 1..Len(open[Job])
    BY <2>1
  <2> QED
    BY <1>2, <1>3, <2>1, <2>2, TaskFacts, ServingAssumption DEF TreeInv, JobOK, RoutingId
<1>4. ASSUME NEW s \in OpenSpans
      PROVE  IF s.parent = NoSpan
             THEN s.trace = s.id
             ELSE \E p \in OpenSpans : /\ p.id = s.parent /\ p.trace = s.trace
                                       /\ p.id[1] \in {s.id[1], Job}
  <2>1. CASE pc[Job] \in Runs /\ s = open[Job][1]
    BY <1>3, <2>1
  <2>2. ASSUME NEW t \in Callers, pc[t] = "calling", Len(open[t]) = 2, s = open[t][1]
        PROVE  IF s.parent = NoSpan
               THEN s.trace = s.id
               ELSE \E p \in OpenSpans : /\ p.id = s.parent /\ p.trace = s.trace
                                         /\ p.id[1] \in {s.id[1], Job}
    <3>1. CallSpans(s, open[t][2], t, birth[t])
      BY <2>2, SpansOfCall
    <3>2. CASE t \in Clients
      BY <3>1, <3>2 DEF CallSpans, TreeInv, CallerOK
    <3>3. CASE t \in Parts
      <4>1. pc[Job] \in Runs /\ birth[t] = open[Job][1]
        BY <2>2, <3>3 DEF TreeInv, CallerOK
      <4>2. /\ open[Job][1] \in OpenSpans /\ open[Job][1].id = <<Job, 0>>
            /\ open[Job][1] # NoSpan
        BY <1>3, <4>1
      <4>3. s.parent = open[Job][1].id /\ s.trace = open[Job][1].trace
        BY <3>1, <4>1, <4>2 DEF CallSpans
      <4>4. s.parent # NoSpan
        BY <4>2, <4>3, TaskFacts, ServingAssumption
      <4> QED
        BY <4>2, <4>3, <4>4
    <3> QED
      BY <3>2, <3>3 DEF Callers
  <2>3. ASSUME NEW t \in Callers, pc[t] = "calling", Len(open[t]) = 2, s = open[t][2]
        PROVE  /\ s.parent # NoSpan
               /\ \E p \in OpenSpans : /\ p.id = s.parent /\ p.trace = s.trace
                                       /\ p.id[1] \in {s.id[1], Job}
    <3>1. CallSpans(open[t][1], s, t, birth[t]) /\ t \in Tasks
      BY <2>3, SpansOfCall
    <3>2. open[t][1] \in OpenSpans
      BY <1>2, <2>3, <3>1
    <3>3. /\ s.parent = <<t, 0>> /\ open[t][1].id = <<t, 0>> /\ s.trace = open[t][1].trace
          /\ s.id[1] = t
      BY <3>1 DEF CallSpans, RoutingId
    <3>4. s.parent # NoSpan
      BY <3>1, <3>3, TaskFacts, ServingAssumption
    <3> QED
      BY <3>2, <3>3, <3>4
  <2> QED
    BY <1>1, <2>1, <2>2, <2>3
<1>5. ASSUME NEW s \in OpenSpans PROVE s.trace[1] = Home(s.id[1])
  <2>1. CASE pc[Job] \in Runs /\ s = open[Job][1]
    <3>1. s.id[1] = Job /\ s.trace[1] = Job
      BY <1>3, <2>1
    <3> QED
      BY <3>1, TaskFacts DEF Home, Callers
  <2>2. ASSUME NEW t \in Callers, pc[t] = "calling", s = open[t][1] \/ s = open[t][2]
        PROVE  s.trace[1] = Home(s.id[1])
    <3>1. open[t][1].id[1] = t /\ open[t][2].id[1] = t
      BY <2>2, SpansOfCall DEF CallSpans, RoutingId
    <3>2. open[t][1].trace[1] = Home(t) /\ open[t][2].trace[1] = Home(t)
      BY <2>2, SpansOfCall
    <3> QED
      BY <2>2, <3>1, <3>2
  <2> QED
    BY <1>1, <2>1, <2>2
<1>6. ASSUME NEW t \in Tasks, pc[t] = "done" PROVE open[t] = <<>>
  BY <1>6, TaskFacts DEF TreeInv, JobOK, CallerOK, Runs
<1>7. ASSUME NEW s \in collected, NEW p \in OpenSpans, p.id = s.id PROVE FALSE
  <2>1. CollectedOK(s) /\ s.id[1] \in Tasks
    BY DEF TreeInv, CollectedOK, SpanIds
  <2>2. CASE pc[Job] \in Runs /\ p = open[Job][1]
    <3>1. s.id[1] = Job
      BY <1>3, <1>7, <2>2
    <3> QED
      BY <2>1, <2>2, <3>1, TaskFacts DEF CollectedOK, Runs
  <2>3. ASSUME NEW t \in Callers, pc[t] = "calling", p = open[t][1] \/ p = open[t][2]
        PROVE  FALSE
    <3>1. open[t][1].id = <<t, 0>> /\ open[t][2].id = <<t, Attempt(t)>> /\ Attempt(t) \in Nat
      BY <2>3, SpansOfCall DEF CallSpans, RoutingId
    <3>2. s.id[1] = t /\ s.id[2] \in {0, Attempt(t)}
      BY <1>7, <2>3, <3>1
    <3> QED
      BY <2>1, <2>3, <3>1, <3>2 DEF CollectedOK
  <2> QED
    BY <1>1, <2>2, <2>3
<1>8. ASSUME NEW s \in collected PROVE s.trace[1] = Home(s.id[1])
  BY DEF TreeInv, CollectedOK
<1> QED
  BY <1>4, <1>5, <1>6, <1>7, <1>8 DEF TracesAreTrees, Home

(* Traces are trees that do not mix, for any tasks and candidates, however *)
(* requests and the batch overlap, fail and are cancelled, and whoever     *)
(* resets the collector: spans hang on open spans of their own trace, and  *)
(* no task leaves one open.                                                *)
THEOREM TracesStayTrees == Spec => []TracesAreTrees
  BY TreeInvInit, TreeInvNext, TreeInvGivesTrees, PTL DEF Spec

-----------------------------------------------------------------------------
(***************************************************************************)
(* The chain of guards, of any length.                                     *)
(***************************************************************************)
(* Induction over the naturals, of a set instead of a predicate.           *)
LEMMA SetInduction ==
  ASSUME NEW S, 0 \in S, \A n \in Nat : n \in S => n + 1 \in S
  PROVE  Nat \subseteq S
<1> SUFFICES ASSUME Nat \ S # {} PROVE FALSE
  OBVIOUS
<1> DEFINE R == {ss \in Nat \X Nat : ss[1] < ss[2]}
<1>1. IsWellFoundedOn(R, Nat)
  BY NatLessThanWellFounded DEF OpToRel
<1> HIDE DEF R
<1>2. PICK m \in Nat \ S : \A k \in Nat \ S : <<k, m>> \notin R
  BY <1>1, WFMin
<1>3. ASSUME NEW k \in Nat, k < m PROVE k \in S
  <2>1. <<k, m>> \in R
    BY <1>2, <1>3 DEF R
  <2> QED
    BY <1>2, <2>1
<1>4. m # 0 /\ m - 1 \in Nat /\ m - 1 < m
  BY <1>2
<1>5. (m - 1) + 1 \in S
  BY <1>3, <1>4
<1> QED
  BY <1>2, <1>5

(* What each guard has made of the chain's result, from none to all.       *)
IsRun(f, guards, t, n) ==
    f = [k \in 0..n |-> IF k = 0 THEN {[result |-> PassText(t), by |-> 0]}
                        ELSE UNION {GuardApplied(guards[k], k, o) : o \in f[k - 1]}]

LEMMA RunExists ==
  ASSUME NEW guards, NEW t
  PROVE  \A n \in Nat : \E f : IsRun(f, guards, t, n)
<1> DEFINE S == {n \in Nat : \E f : IsRun(f, guards, t, n)}
           Start == {[result |-> PassText(t), by |-> 0]}
<1>1. 0 \in S
  <2>1. IsRun([k \in 0..0 |-> Start], guards, t, 0)
    BY DEF IsRun
  <2> QED
    BY <2>1
<1>2. ASSUME NEW n \in Nat, n \in S PROVE n + 1 \in S
  <2>1. PICK f : IsRun(f, guards, t, n)
    BY <1>2
  <2> DEFINE last == UNION {GuardApplied(guards[n + 1], n + 1, o) : o \in f[n]}
             g == [k \in 0..(n + 1) |-> IF k = n + 1 THEN last ELSE f[k]]
  <2>2. \A k \in 0..n : g[k] = f[k]
    OBVIOUS
  <2>3. \A k \in 0..(n + 1) :
          g[k] = IF k = 0 THEN Start
                 ELSE UNION {GuardApplied(guards[k], k, o) : o \in g[k - 1]}
    <3> SUFFICES ASSUME NEW k \in 0..(n + 1)
                 PROVE  g[k] = IF k = 0 THEN Start
                               ELSE UNION {GuardApplied(guards[k], k, o) : o \in g[k - 1]}
      OBVIOUS
    <3>1. CASE k = n + 1
      <4>1. k # 0 /\ k - 1 = n /\ n \in 0..n
        BY <3>1
      <4>2. g[k] = last /\ g[k - 1] = f[n]
        BY <3>1, <4>1, <2>2
      <4> QED
        BY <3>1, <4>1, <4>2
    <3>2. CASE k # n + 1
      <4>1. k \in 0..n /\ (k # 0 => k - 1 \in 0..n)
        BY <3>2
      <4>2. f[k] = IF k = 0 THEN Start
                   ELSE UNION {GuardApplied(guards[k], k, o) : o \in f[k - 1]}
        BY <2>1, <4>1 DEF IsRun
      <4>3. g[k] = f[k] /\ (k # 0 => g[k - 1] = f[k - 1])
        BY <2>2, <4>1
      <4> HIDE DEF g, Start
      <4> QED
        BY <4>2, <4>3
    <3> QED
      BY <3>1, <3>2
  <2>4. g = [k \in 0..(n + 1) |-> g[k]]
    OBVIOUS
  <2> HIDE DEF g
  <2>5. IsRun(g, guards, t, n + 1)
    BY <2>3, <2>4 DEF IsRun
  <2> QED
    BY <2>5
<1>3. Nat \subseteq S
  <2> HIDE DEF S
  <2> QED
    BY <1>1, <1>2, SetInduction
<1> QED
  BY <1>3

(* The results after k guards: those of k - 1 guards, as the next sees it. *)
LEMMA RunOfChain ==
  ASSUME NEW guards \in Seq(Guards), NEW t
  PROVE  \E f : /\ RunChain(guards, t) = f[Len(guards)]
                /\ f[0] = {[result |-> PassText(t), by |-> 0]}
                /\ \A k \in 1..Len(guards) :
                       f[k] = UNION {GuardApplied(guards[k], k, o) : o \in f[k - 1]}
<1> DEFINE f == CHOOSE f : IsRun(f, guards, t, Len(guards))
<1>1. Len(guards) \in Nat
  OBVIOUS
<1>2. IsRun(f, guards, t, Len(guards))
  BY <1>1, RunExists
<1>3. RunChain(guards, t) = f[Len(guards)]
  BY DEF RunChain, IsRun
<1> HIDE DEF f
<1>4. f[0] = {[result |-> PassText(t), by |-> 0]}
  BY <1>1, <1>2 DEF IsRun
<1>5. ASSUME NEW k \in 1..Len(guards)
      PROVE  f[k] = UNION {GuardApplied(guards[k], k, o) : o \in f[k - 1]}
  <2>1. k \in 0..Len(guards) /\ k # 0
    BY <1>1
  <2>2. f[k] = IF k = 0 THEN {[result |-> PassText(t), by |-> 0]}
               ELSE UNION {GuardApplied(guards[k], k, o) : o \in f[k - 1]}
    BY <1>2, <2>1 DEF IsRun
  <2> QED
    BY <2>1, <2>2
<1> QED
  BY <1>3, <1>4, <1>5

(* What a guard does: it lets a text pass only as it is and if it does not *)
(* object, and it blocks or redacts one only if it does.                   *)
LEMMA CheckFacts ==
  ASSUME NEW g \in Guards, NEW t, NEW r \in Checks(g, t)
  PROVE  /\ r.action = "PASS" => r = PassText(t) /\ ~Objects(g, t)
         /\ Violation(r) => Objects(g, t) \/ g.type = "nemo"
<1>1. g.type \in GuardTypes
  BY DEF Guards
<1> USE DEF Checks, Objects, Violation, PassText, BlockText, RedactText, GuardRaised
<1>2. CASE g.type \in {"regex", "keyword"}
  BY <1>2 DEF Filtered
<1>3. CASE g.type = "redact"
  BY <1>3 DEF Redacted
<1>4. CASE g.type = "embedding"
  BY <1>4 DEF Scored
<1>5. CASE g.type = "nemo"
  BY <1>5 DEF Railed
<1> QED
  BY <1>1, <1>2, <1>3, <1>4, <1>5 DEF GuardTypes

(* Which guards a result of the first k guards speaks for.                 *)
SpeaksFor(o, guards, t, k) ==
    /\ o.by \in 0..k
    /\ o.by = 0 => o.result = PassText(t) /\ \A i \in 1..k : ~Objects(guards[i], t)
    /\ o.by # 0 => /\ o.result.action # "PASS"
                   /\ \A i \in 1..(o.by - 1) : ~Objects(guards[i], t)
                   /\ Violation(o.result) =>
                          Objects(guards[o.by], t) \/ guards[o.by].type = "nemo"

LEMMA GuardAppliedFacts ==
  ASSUME NEW guards \in Seq(Guards), NEW t, NEW k \in 1..Len(guards),
         NEW o, SpeaksFor(o, guards, t, k - 1), NEW p \in GuardApplied(guards[k], k, o)
  PROVE  SpeaksFor(p, guards, t, k)
<1>1. CASE o.by # 0
  <2>1. p = o
    BY <1>1 DEF GuardApplied
  <2>2. o.by \in 0..k
    BY DEF SpeaksFor
  <2> QED
    BY <1>1, <2>1, <2>2 DEF SpeaksFor
<1>2. CASE o.by = 0
  <2>1. o.result = PassText(t) /\ \A i \in 1..(k - 1) : ~Objects(guards[i], t)
    BY <1>2 DEF SpeaksFor
  <2>2. o.result.text = t
    BY <2>1 DEF PassText
  <2>3. PICK r \in Checks(guards[k], t) :
          p = [result |-> r, by |-> IF r.action = "PASS" THEN 0 ELSE k]
    BY <1>2, <2>2 DEF GuardApplied
  <2>4. guards[k] \in Guards /\ k \in Nat /\ k # 0
    OBVIOUS
  <2>5. /\ r.action = "PASS" => r = PassText(t) /\ ~Objects(guards[k], t)
        /\ Violation(r) => Objects(guards[k], t) \/ guards[k].type = "nemo"
    BY <2>4, CheckFacts
  <2>6. CASE r.action = "PASS"
    <3>1. p.by = 0 /\ p.result = PassText(t)
      BY <2>3, <2>5, <2>6
    <3>2. \A i \in 1..k : ~Objects(guards[i], t)
      BY <2>1, <2>4, <2>5, <2>6
    <3> QED
      BY <2>4, <3>1, <3>2 DEF SpeaksFor
  <2>7. CASE r.action # "PASS"
    <3>1. p.by = k /\ p.result = r
      BY <2>3, <2>7
    <3> QED
      BY <2>1, <2>4, <2>5, <2>7, <3>1 DEF SpeaksFor
  <2> QED
    BY <2>6, <2>7
<1> QED
  BY <1>1, <1>2

(* A chain that passes a text has changed nothing in it and has no guard   *)
(* that objects to it; one that ends at a guard has none before it that    *)
(* does.                                                                   *)
LEMMA ChainFacts ==
  ASSUME NEW guards \in Seq(Guards), NEW t, NEW g \in RunChain(guards, t)
  PROVE  SpeaksFor(g, guards, t, Len(guards))
<1>1. PICK f : /\ RunChain(guards, t) = f[Len(guards)]
               /\ f[0] = {[result |-> PassText(t), by |-> 0]}
               /\ \A k \in 1..Len(guards) :
                      f[k] = UNION {GuardApplied(guards[k], k, o) : o \in f[k - 1]}
  BY RunOfChain
<1> DEFINE S == {n \in Nat : n <= Len(guards) => \A o \in f[n] : SpeaksFor(o, guards, t, n)}
<1>2. 0 \in S
  <2>1. SpeaksFor([result |-> PassText(t), by |-> 0], guards, t, 0)
    BY DEF SpeaksFor
  <2> QED
    BY <1>1, <2>1
<1>3. ASSUME NEW n \in Nat, n \in S PROVE n + 1 \in S
  <2>1. SUFFICES ASSUME n + 1 <= Len(guards), NEW p \in f[n + 1]
                 PROVE  SpeaksFor(p, guards, t, n + 1)
    OBVIOUS
  <2>2. n + 1 \in 1..Len(guards) /\ (n + 1) - 1 = n
    BY <2>1
  <2>3. PICK o \in f[n] : p \in GuardApplied(guards[n + 1], n + 1, o)
    BY <1>1, <2>1, <2>2
  <2>4. SpeaksFor(o, guards, t, n)
    BY <1>3, <2>1
  <2> QED
    BY <2>2, <2>3, <2>4, GuardAppliedFacts
<1>4. Nat \subseteq S
  <2> HIDE DEF S
  <2> QED
    BY <1>2, <1>3, SetInduction
<1>5. Len(guards) \in S
  BY <1>4
<1> QED
  BY <1>1, <1>5

-----------------------------------------------------------------------------
(***************************************************************************)
(* Responses.  A client that is idle has nothing to its name yet; one that *)
(* was turned away has no span, and as it is over it never gets one.       *)
(***************************************************************************)
Unserved(t) == sent[t] = Nothing /\ cited[t] = <<>> /\ audit[t] = <<>> /\ outcome[t] = 0

NoSpansOf(t) == \A s \in collected : s.id[1] # t

ClientOK(t) ==
    /\ pc[t] = "idle" => Unserved(t)
    /\ SentIsCleared(t) /\ AuditIsTrue(t)
    /\ outcome[t] \in {400, 503} => /\ pc[t] = "done" /\ NoSpansOf(t)
                                    /\ sent[t] = Nothing /\ cited[t] = <<>>
    /\ outcome[t] = 400 => audit[t] # <<>> \/ app.audit = "none"
    /\ outcome[t] = 503 => ~Configured(ask[t])

JustInv ==
    /\ TreeInv /\ TypeOK
    /\ \A t \in Clients : ClientOK(t)

LEMMA NothingOf ==
  ASSUME TreeInv, NEW t \in Clients, pc[t] = "idle"
  PROVE  NoSpansOf(t)
<1>1. t \in Callers /\ CallerOK(t)
  BY DEF TreeInv, Callers
<1> QED
  BY <1>1 DEF TreeInv, CollectedOK, NoSpansOf

LEMMA TurnedAway ==
  ASSUME JustInv, NEW t \in Clients
  PROVE  TurnedAwayForAReason(t)
<1>1. ClientOK(t) /\ (pc[t] = "done" => open[t] = <<>>)
  BY DEF JustInv, TreeInv, CallerOK, Callers
<1>2. ToSet(<<>>) = {}
  BY DEF ToSet
<1>3. pc[t] = "done" /\ NoSpansOf(t) => SpansOf(t) = {}
  BY <1>1, <1>2 DEF SpansOf, NoSpansOf
<1> QED
  BY <1>1, <1>3 DEF ClientOK, TurnedAwayForAReason

LEMMA JustInvInit == Init => JustInv
<1> SUFFICES ASSUME Init PROVE JustInv
  OBVIOUS
<1>1. ASSUME NEW t \in Clients PROVE ClientOK(t)
  BY DEF Init, ClientOK, Unserved, SentIsCleared, AuditIsTrue
<1>2. TypeOK
  BY ServingAssumption DEF Init, TypeOK
<1> QED
  BY <1>1, <1>2, TreeInvInit DEF JustInv, Init

(* A client keeps what it has been told while other tasks move, and these  *)
(* leave no span to it.                                                    *)
LEMMA ClientStays ==
  ASSUME NEW t \in Clients, ClientOK(t), app' = app, pc'[t] = pc[t], ask'[t] = ask[t],
         sent'[t] = sent[t], cited'[t] = cited[t], audit'[t] = audit[t],
         outcome'[t] = outcome[t],
         pc[t] = "done" /\ NoSpansOf(t) => NoSpansOf(t)'
  PROVE  ClientOK(t)'
<1>1. SentIsCleared(t)'
  BY DEF ClientOK, SentIsCleared, Objects, Matched
<1>2. AuditIsTrue(t)'
  BY DEF ClientOK, AuditIsTrue, Objects, Matched
<1>3. Configured(ask[t])' <=> Configured(ask[t])
  BY DEF Configured
<1> QED
  BY <1>1, <1>2, <1>3 DEF ClientOK, Unserved

(* What a step of task t is to the clients: none but t is touched, and the *)
(* spans that it collects are of t.                                        *)
Spares(t) ==
    /\ app' = app
    /\ \A u \in Clients \ {t} :
         /\ pc'[u] = pc[u] /\ ask'[u] = ask[u] /\ sent'[u] = sent[u]
         /\ cited'[u] = cited[u] /\ audit'[u] = audit[u] /\ outcome'[u] = outcome[u]
    /\ \A s \in collected' \ collected : s.id[1] = t

LEMMA SparedClientsStay ==
  ASSUME JustInv, TreeInv', TypeOK', NEW t \in Tasks, Spares(t),
         t \in Clients => ClientOK(t)'
  PROVE  JustInv'
<1>1. ASSUME NEW u \in Clients \ {t} PROVE ClientOK(u)'
  <2>1. NoSpansOf(u) => NoSpansOf(u)'
    BY DEF Spares, NoSpansOf
  <2> QED
    BY <2>1, ClientStays DEF JustInv, Spares
<1>2. ASSUME NEW u \in Clients PROVE ClientOK(u)'
  BY <1>1, <1>2
<1> QED
  BY <1>2 DEF JustInv

(* A request begins at a client that has nothing to its name.              *)
LEMMA FirstStep ==
  ASSUME JustInv, NEW t \in Clients, NEW q \in Prompts \cup Queries, Begins(t, q)
  PROVE  /\ t \in Tasks /\ pc[t] = "idle" /\ Unserved(t) /\ NoSpansOf(t)
         /\ ask' \in [Clients -> Prompts \cup Queries \cup {Nothing}]
         /\ ask'[t] = q /\ \A u \in Clients \ {t} : ask'[u] = ask[u]
         /\ app.guards \in Seq(Guards) /\ q.text \in Texts
<1>1. pc[t] = "idle" /\ ask' = [ask EXCEPT ![t] = q] /\ t \in Tasks
  BY DEF Begins, Tasks
<1>2. Unserved(t) /\ NoSpansOf(t)
  BY <1>1, NothingOf DEF JustInv, ClientOK
<1>3. ask \in [Clients -> Prompts \cup Queries \cup {Nothing}]
  BY DEF JustInv, TypeOK
<1>4. app.guards \in Seq(Guards) /\ q.text \in Texts
  BY ServingAssumption DEF JustInv, TypeOK
<1> QED
  BY <1>1, <1>2, <1>3, <1>4

(* A request ends in its first step, without a span, and is answered code. *)
LEMMA EndsAtOnce ==
  ASSUME JustInv, TreeInv', NEW t \in Clients, NEW q \in Prompts \cup Queries, Begins(t, q),
         NEW code \in {200, 400, 500, 503}, Responds(t, code), Done(t),
         UNCHANGED <<setup, collected>>,
         sent' \in [Clients -> Texts \cup {Nothing}],
         DOMAIN cited' = Clients, DOMAIN audit' = Clients,
         \A u \in Clients \ {t} : /\ sent'[u] = sent[u] /\ cited'[u] = cited[u]
                                  /\ audit'[u] = audit[u],
         SentIsCleared(t)', AuditIsTrue(t)',
         code \in {400, 503} => sent'[t] = Nothing /\ cited'[t] = <<>>,
         code = 400 => audit'[t] # <<>> \/ app.audit = "none",
         code = 503 => ~Configured(q)
  PROVE  JustInv'
<1>1. /\ t \in Tasks /\ NoSpansOf(t)
      /\ ask' \in [Clients -> Prompts \cup Queries \cup {Nothing}]
      /\ ask'[t] = q /\ \A u \in Clients \ {t} : ask'[u] = ask[u]
  BY FirstStep
<1>2. /\ outcome \in [Clients -> {0, 200, 400, 500, 503}]
      /\ outcome' = [outcome EXCEPT ![t] = code]
  BY DEF Responds, JustInv, TypeOK
<1>3. pc' = [pc EXCEPT ![t] = "done"] /\ pc \in [Tasks -> Places]
  BY DEF Done, JustInv, TreeInv, Typed
<1>4. /\ outcome'[t] = code /\ pc'[t] = "done"
      /\ \A u \in Clients \ {t} : outcome'[u] = outcome[u] /\ pc'[u] = pc[u]
  BY <1>1, <1>2, <1>3 DEF Tasks
<1>5. app' = app /\ hook' = hook /\ meddled' = meddled /\ collected' = collected
  BY DEF setup
<1>6. TypeOK'
  BY <1>1, <1>2, <1>5 DEF JustInv, TypeOK, TreeInv, Typed, Places
<1>7. Spares(t)
  BY <1>1, <1>4, <1>5 DEF Spares
<1>8. ~Configured(q) => ~Configured(ask[t])'
  BY <1>1, <1>5 DEF Configured
<1>9. NoSpansOf(t)'
  BY <1>1, <1>5 DEF NoSpansOf
<1>10. ClientOK(t)'
  BY <1>4, <1>5, <1>8, <1>9 DEF ClientOK
<1> QED
  BY <1>1, <1>6, <1>7, <1>10, SparedClientsStay

LEMMA UnconfiguredJustified ==
  ASSUME JustInv, TreeInv', NEW t \in Clients, NEW q \in Prompts \cup Queries,
         Unconfigured(t, q)
  PROVE  JustInv'
<1>1. /\ Begins(t, q) /\ Responds(t, 503) /\ Done(t) /\ ~Configured(q)
      /\ UNCHANGED <<setup, collected, sent, cited, audit>>
  BY DEF Unconfigured, traces
<1>2. Unserved(t)
  BY <1>1, FirstStep
<1>3. SentIsCleared(t)' /\ AuditIsTrue(t)'
  BY <1>1, <1>2 DEF Unserved, SentIsCleared, AuditIsTrue
<1> QED
  BY <1>1, <1>2, <1>3, EndsAtOnce DEF Unserved, JustInv, TypeOK

LEMMA BlockedJustified ==
  ASSUME JustInv, TreeInv', NEW t \in Clients, NEW q \in Prompts \cup Queries,
         Blocked(t, q)
  PROVE  JustInv'
<1>1. /\ Begins(t, q) /\ Done(t) /\ UNCHANGED <<setup, collected, sent, cited>>
      /\ Responds(t, IF app.audit = "raises" THEN 500 ELSE 400)
  BY DEF Blocked, traces
<1>2. PICK g \in RunChain(app.guards, q.text) :
        /\ Violation(g.result)
        /\ audit' = IF app.audit = "none" THEN audit
                    ELSE [audit EXCEPT ![t] = Append(@, g)]
  BY DEF Blocked
<1>3. Unserved(t) /\ ask'[t] = q /\ app.guards \in Seq(Guards) /\ app' = app
  BY <1>1, FirstStep DEF setup
<1>4. SpeaksFor(g, app.guards, q.text, Len(app.guards))
  BY <1>3, ChainFacts
<1>5. /\ \A i \in 1..(g.by - 1) : ~Objects(app.guards[i], q.text)
      /\ Objects(app.guards[g.by], q.text) \/ app.guards[g.by].type = "nemo"
  <2>1. g.by # 0
    BY <1>2, <1>4 DEF SpeaksFor, Violation, PassText
  <2> QED
    BY <1>2, <1>4, <2>1 DEF SpeaksFor
<1>6. /\ audit'[t] = IF app.audit = "none" THEN <<>> ELSE <<g>>
      /\ DOMAIN audit' = Clients /\ \A u \in Clients \ {t} : audit'[u] = audit[u]
  BY <1>2, <1>3 DEF Unserved, JustInv, TypeOK
<1>7. SentIsCleared(t)'
  BY <1>1, <1>3 DEF Unserved, SentIsCleared
<1>8. AuditIsTrue(t)'
  <2>1. CASE app.audit = "none"
    BY <1>6, <2>1 DEF AuditIsTrue
  <2>2. CASE app.audit # "none"
    <3>1. audit'[t] = <<g>>
      BY <1>6, <2>2
    <3>2. ASSUME NEW a \in DOMAIN audit'[t] PROVE a = 1 /\ audit'[t][a] = g
      BY <3>1
    <3> QED
      BY <1>3, <1>5, <3>2 DEF AuditIsTrue, Objects, Matched
  <2> QED
    BY <2>1, <2>2
<1>9. audit'[t] # <<>> \/ app.audit = "none"
  BY <1>6
<1>10. /\ sent'[t] = Nothing /\ cited'[t] = <<>>
       /\ sent' \in [Clients -> Texts \cup {Nothing}] /\ DOMAIN cited' = Clients
  BY <1>1, <1>3 DEF Unserved, JustInv, TypeOK
<1> QED
  BY <1>1, <1>6, <1>7, <1>8, <1>9, <1>10, EndsAtOnce

LEMMA GuardFailsJustified ==
  ASSUME JustInv, TreeInv', NEW t \in Clients, NEW q \in Prompts \cup Queries,
         GuardFails(t, q)
  PROVE  JustInv'
<1>1. /\ Begins(t, q) /\ Responds(t, 500) /\ Done(t)
      /\ UNCHANGED <<setup, collected, sent, cited, audit>>
  BY DEF GuardFails, traces
<1>2. Unserved(t)
  BY <1>1, FirstStep
<1>3. SentIsCleared(t)' /\ AuditIsTrue(t)'
  BY <1>1, <1>2 DEF Unserved, SentIsCleared, AuditIsTrue
<1> QED
  BY <1>1, <1>2, <1>3, EndsAtOnce DEF Unserved, JustInv, TypeOK

(* A cleared text is the one of the request, and no guard objects to it.   *)
LEMMA ClearedFacts ==
  ASSUME JustInv, NEW t \in Clients, NEW q \in Prompts \cup Queries, Cleared(t, q),
         app' = app, audit' = audit
  PROVE  /\ Begins(t, q) /\ sent' \in [Clients -> Texts \cup {Nothing}]
         /\ \A u \in Clients \ {t} : sent'[u] = sent[u]
         /\ SentIsCleared(t)' /\ AuditIsTrue(t)'
<1>1. Begins(t, q)
  BY DEF Cleared
<1>2. PICK g \in RunChain(app.guards, q.text) :
        g.by = 0 /\ sent' = [sent EXCEPT ![t] = g.result.text]
  BY DEF Cleared
<1>3. Unserved(t) /\ ask'[t] = q /\ app.guards \in Seq(Guards) /\ q.text \in Texts
  BY <1>1, FirstStep
<1>4. SpeaksFor(g, app.guards, q.text, Len(app.guards))
  BY <1>3, ChainFacts
<1>5. g.result.text = q.text /\ \A i \in DOMAIN app.guards : ~Objects(app.guards[i], q.text)
  BY <1>2, <1>3, <1>4 DEF SpeaksFor, PassText
<1>6. sent \in [Clients -> Texts \cup {Nothing}]
  BY DEF JustInv, TypeOK
<1>7. sent'[t] = q.text /\ audit'[t] = <<>>
  BY <1>2, <1>3, <1>5, <1>6 DEF Unserved
<1>8. SentIsCleared(t)'
  BY <1>3, <1>5, <1>7 DEF SentIsCleared, Objects, Matched
<1>9. AuditIsTrue(t)'
  BY <1>7 DEF AuditIsTrue
<1> QED
  BY <1>1, <1>2, <1>3, <1>5, <1>6, <1>8, <1>9

LEMMA RagAnswerJustified ==
  ASSUME JustInv, TreeInv', NEW t \in Clients, NEW q \in Prompts \cup Queries,
         RagAnswer(t, q)
  PROVE  JustInv'
<1>1. /\ Cleared(t, q) /\ Done(t) /\ UNCHANGED <<setup, collected, audit>> /\ app' = app
      /\ Responds(t, 200) \/ Responds(t, 500)
      /\ cited' = [cited EXCEPT ![t] =
                     Grounding(app.pipeline, app.pipeline.hits, q.topK, Unset, q.filter)]
  BY DEF RagAnswer, traces, setup
<1>2. /\ Begins(t, q) /\ sent' \in [Clients -> Texts \cup {Nothing}]
      /\ \A u \in Clients \ {t} : sent'[u] = sent[u]
      /\ SentIsCleared(t)' /\ AuditIsTrue(t)'
  BY <1>1, ClearedFacts
<1>3. /\ DOMAIN cited' = Clients /\ \A u \in Clients \ {t} : cited'[u] = cited[u]
      /\ DOMAIN audit' = Clients /\ \A u \in Clients \ {t} : audit'[u] = audit[u]
  BY <1>1 DEF JustInv, TypeOK
<1> QED
  BY <1>1, <1>2, <1>3, EndsAtOnce

LEMMA ChatJustified ==
  ASSUME JustInv, TreeInv', NEW t \in Clients, NEW q \in Prompts \cup Queries, Chat(t, q)
  PROVE  JustInv'
<1>1. /\ Cleared(t, q) /\ pc' = [pc EXCEPT ![t] = "calling"]
      /\ UNCHANGED <<app, hook, meddled, collected, cited, outcome, audit>>
  BY DEF Chat, BeginCall, setup
<1>2. /\ Begins(t, q) /\ sent' \in [Clients -> Texts \cup {Nothing}]
      /\ \A u \in Clients \ {t} : sent'[u] = sent[u]
      /\ SentIsCleared(t)' /\ AuditIsTrue(t)'
  BY <1>1, ClearedFacts
<1>3. /\ t \in Tasks /\ Unserved(t)
      /\ ask' \in [Clients -> Prompts \cup Queries \cup {Nothing}]
      /\ \A u \in Clients \ {t} : ask'[u] = ask[u]
  BY <1>2, FirstStep
<1>4. pc'[t] = "calling" /\ \A u \in Clients \ {t} : pc'[u] = pc[u]
  BY <1>1, <1>3 DEF JustInv, TreeInv, Typed, Tasks
<1>5. TypeOK'
  BY <1>1, <1>2, <1>3 DEF JustInv, TypeOK, TreeInv, Typed, Places
<1>6. Spares(t)
  BY <1>1, <1>2, <1>3, <1>4 DEF Spares
<1>7. outcome'[t] = 0
  BY <1>1, <1>3 DEF Unserved
<1>8. ClientOK(t)'
  BY <1>2, <1>4, <1>7 DEF ClientOK
<1> QED
  BY <1>3, <1>5, <1>6, <1>8, SparedClientsStay

(* A step of a call: it leaves the request as it is, and ends it, if it    *)
(* does, with a 200 or a 500.                                              *)
LEMMA CallStepJustified ==
  ASSUME JustInv, TreeInv', NEW t \in Callers, pc[t] = "calling",
         UNCHANGED <<setup, ask, sent, cited, audit>>,
         \/ pc' = pc
         \/ pc' = [pc EXCEPT ![t] = "done"],
         \/ outcome' = outcome
         \/ \E code \in {200, 500} : t \in Clients /\ outcome' = [outcome EXCEPT ![t] = code],
         \A s \in collected' \ collected : s.id[1] = t
  PROVE  JustInv'
<1>1. t \in Tasks /\ pc \in [Tasks -> Places] /\ Clients \subseteq Tasks
  BY DEF Callers, Tasks, JustInv, TreeInv, Typed
<1>2. pc'[t] \in {"calling", "done"} /\ \A u \in Clients \ {t} : pc'[u] = pc[u]
  BY <1>1
<1>3. outcome \in [Clients -> {0, 200, 400, 500, 503}]
  BY DEF JustInv, TypeOK
<1>4. /\ outcome' \in [Clients -> {0, 200, 400, 500, 503}]
      /\ \A u \in Clients \ {t} : outcome'[u] = outcome[u]
      /\ t \in Clients => outcome'[t] = outcome[t] \/ outcome'[t] \in {200, 500}
  BY <1>3
<1>5. app' = app /\ hook' = hook /\ meddled' = meddled
  BY DEF setup
<1>6. TypeOK'
  BY <1>4, <1>5 DEF JustInv, TypeOK, TreeInv, Typed, Places
<1>7. Spares(t)
  BY <1>2, <1>4, <1>5 DEF Spares
<1>8. ASSUME t \in Clients PROVE ClientOK(t)'
  <2>1. ClientOK(t) /\ outcome[t] \notin {400, 503}
    BY <1>8 DEF JustInv, ClientOK
  <2>2. SentIsCleared(t)' /\ AuditIsTrue(t)'
    BY <1>5, <2>1 DEF ClientOK, SentIsCleared, AuditIsTrue, Objects, Matched
  <2>3. outcome'[t] \notin {400, 503}
    BY <1>4, <1>8, <2>1
  <2> QED
    BY <1>2, <2>2, <2>3 DEF ClientOK
<1> QED
  BY <1>1, <1>6, <1>7, <1>8, SparedClientsStay

(* The spans that a step collects are of the task that takes it.           *)
LEMMA EndCallCollects ==
  ASSUME TreeInv, NEW t \in Callers, pc[t] = "calling", NEW status, NEW tokens,
         EndCall(t, status, tokens)
  PROVE  /\ \A s \in collected' \ collected : s.id[1] = t
         /\ pc' = [pc EXCEPT ![t] = "done"]
<1> DEFINE f == Finished(open[t][2], status, tokens)
           g == Finished(open[t][1], status, Absent)
<1>1. collected' = collected \cup {f, g} /\ pc' = [pc EXCEPT ![t] = "done"]
  BY DEF EndCall
<1>2. f.id[1] = t /\ g.id[1] = t
  BY SpansOfCall DEF Finished, CallSpans, RoutingId
<1> QED
  BY <1>1, <1>2

LEMMA TryNextCollects ==
  ASSUME TreeInv, NEW t \in Callers, TryNext(t)
  PROVE  \A s \in collected' \ collected : s.id[1] = t
<1> DEFINE f == Finished(open[t][2], "ERROR", Absent)
<1>1. collected' = collected \cup {f} /\ pc[t] = "calling"
  BY DEF TryNext, Collect
<1>2. f.id[1] = t
  BY <1>1, SpansOfCall DEF Finished, CallSpans
<1> QED
  BY <1>1, <1>2

LEMMA EndJobCollects ==
  ASSUME TreeInv, EndJob
  PROVE  \A s \in collected' \ collected : s.id[1] = Job
<1> DEFINE f == Finished(open[Job][1], IF pc[Job] = "cancelling" THEN "ERROR" ELSE "OK", Absent)
<1>1. collected' = collected \cup {f} /\ pc[Job] \in Runs
  BY DEF EndJob, Collect, Runs
<1>2. f.id[1] = Job
  BY <1>1 DEF Finished, TreeInv, JobOK, RoutingId
<1> QED
  BY <1>1, <1>2

(* The steps of the batch and of whoever meddles pass the clients by.      *)
LEMMA BatchStepJustified ==
  ASSUME JustInv, TreeInv', NEW t \in Tasks \ Clients, UNCHANGED <<app, web>>,
         hook' \in {"bridge", "other", "none"}, meddled' \in 0..MaxMeddling,
         \A u \in Clients : pc'[u] = pc[u],
         \A s \in collected' \ collected : s.id[1] = t
  PROVE  JustInv'
<1>1. TypeOK'
  BY DEF JustInv, TypeOK, TreeInv, Typed, Places, web
<1>2. Spares(t)
  BY DEF Spares, web
<1> QED
  BY <1>1, <1>2, SparedClientsStay

LEMMA JustInvNext == JustInv /\ [Next]_vars => JustInv'
<1> SUFFICES ASSUME JustInv, [Next]_vars PROVE JustInv'
  OBVIOUS
<1>1. TreeInv /\ TreeInv'
  BY TreeInvNext DEF JustInv
<1>2. /\ hook \in {"bridge", "other", "none"} /\ meddled \in 0..MaxMeddling
      /\ pc \in [Tasks -> Places] /\ Job \in Tasks \ Clients
  BY TaskFacts DEF JustInv, TypeOK, TreeInv, Typed, Callers
<1>3. ASSUME NEW t \in Clients, NEW q \in Prompts \cup Queries,
             \/ Unconfigured(t, q) \/ Blocked(t, q) \/ GuardFails(t, q)
             \/ Chat(t, q) \/ RagAnswer(t, q)
      PROVE  JustInv'
  BY <1>1, <1>3, UnconfiguredJustified, BlockedJustified, GuardFailsJustified,
     ChatJustified, RagAnswerJustified
<1>4. ASSUME NEW t \in Callers, TryNext(t) PROVE JustInv'
  <2>1. /\ pc[t] = "calling" /\ pc' = pc /\ outcome' = outcome
        /\ UNCHANGED <<setup, ask, sent, cited, audit>>
    BY <1>4 DEF TryNext, web
  <2> QED
    BY <1>1, <1>4, <2>1, TryNextCollects, CallStepJustified
<1>5. ASSUME NEW t \in Callers, GiveUp(t) PROVE JustInv'
  <2>1. /\ pc[t] = "calling" /\ EndCall(t, "ERROR", Absent)
        /\ UNCHANGED <<setup, ask, sent, cited, audit>>
        /\ outcome' = outcome \/ (t \in Clients /\ outcome' = [outcome EXCEPT ![t] = 500])
    BY <1>5 DEF GiveUp, Responds
  <2> QED
    BY <1>1, <2>1, EndCallCollects, CallStepJustified
<1>6. ASSUME NEW t \in Callers, Cancelled(t) PROVE JustInv'
  <2>1. /\ pc[t] = "calling" /\ EndCall(t, "ERROR", Absent) /\ outcome' = outcome
        /\ UNCHANGED <<setup, ask, sent, cited, audit>>
    BY <1>6 DEF Cancelled, web
  <2> QED
    BY <1>1, <2>1, EndCallCollects, CallStepJustified
<1>7. ASSUME NEW t \in Callers, NEW tokens, ProviderAnswers(t, tokens) PROVE JustInv'
  <2>1. /\ pc[t] = "calling" /\ EndCall(t, "OK", tokens)
        /\ UNCHANGED <<setup, ask, sent, cited, audit>>
        /\ \/ outcome' = outcome
           \/ t \in Clients /\ outcome' = [outcome EXCEPT ![t] = AnswerCode(tokens)]
    BY <1>7 DEF ProviderAnswers, Responds
  <2>2. AnswerCode(tokens) \in {200, 500}
    BY DEF AnswerCode
  <2> QED
    BY <1>1, <2>1, <2>2, EndCallCollects, CallStepJustified
<1>8. ASSUME NEW t \in Parts, StartPart(t) \/ DropPart(t) PROVE JustInv'
  <2>1. t \in Tasks \ Clients
    BY TaskFacts DEF Callers
  <2>2. /\ UNCHANGED <<app, web, hook, meddled, collected>>
        /\ \E l : pc' = [pc EXCEPT ![t] = l]
    BY <1>8 DEF StartPart, DropPart, BeginCall, Done, setup, traces
  <2>3. \A u \in Clients : pc'[u] = pc[u]
    BY <1>2, <2>1, <2>2
  <2> QED
    BY <1>1, <1>2, <2>1, <2>2, <2>3, BatchStepJustified
<1>9. CASE StartJob
  <2>1. /\ UNCHANGED <<app, web, hook, meddled, collected>>
        /\ pc' = [t \in Tasks |-> IF t = Job THEN "waiting"
                                  ELSE IF t \in Parts THEN "ready" ELSE pc[t]]
    BY <1>9 DEF StartJob, setup
  <2>2. \A u \in Clients : pc'[u] = pc[u]
    BY <1>2, <2>1, TaskFacts DEF Tasks
  <2> QED
    BY <1>1, <1>2, <2>1, <2>2, BatchStepJustified
<1>10. CASE CancelJob
  <2>1. /\ UNCHANGED <<app, web, hook, meddled, collected>>
        /\ pc' = [pc EXCEPT ![Job] = "cancelling"]
    BY <1>10 DEF CancelJob, setup, traces
  <2> QED
    BY <1>1, <1>2, <2>1, BatchStepJustified
<1>11. CASE EndJob
  <2>1. /\ UNCHANGED <<app, web, hook, meddled>> /\ pc' = [pc EXCEPT ![Job] = "done"]
    BY <1>11 DEF EndJob, Done, setup
  <2> QED
    BY <1>1, <1>2, <1>11, <2>1, EndJobCollects, BatchStepJustified
<1>12. CASE NewRouter \/ SetHook \/ ResetCollector \/ ResetRegistry
  <2>1. /\ UNCHANGED <<app, web, pc>> /\ meddled' = meddled + 1 /\ meddled < MaxMeddling
        /\ hook' \in {"bridge", "other", "none"} /\ collected' \subseteq collected
    BY <1>2, <1>12 DEF NewRouter, SetHook, ResetCollector, ResetRegistry, Meddle
  <2>2. meddled' \in 0..MaxMeddling
    BY <1>2, <2>1, ServingAssumption
  <2> QED
    BY <1>1, <1>2, <2>1, <2>2, BatchStepJustified
<1>13. CASE Terminated \/ UNCHANGED vars
  <2>1. UNCHANGED <<app, web, pc, hook, meddled, collected>>
    BY <1>13 DEF Terminated, vars, setup, traces
  <2> QED
    BY <1>1, <1>2, <2>1, BatchStepJustified
<1> QED
  BY <1>3, <1>4, <1>5, <1>6, <1>7, <1>8, <1>9, <1>10, <1>11, <1>12, <1>13 DEF Next, Callers

(* Every variable keeps to its type.                                       *)
THEOREM ServingTypes == Spec => []TypeOK
<1>1. JustInv => TypeOK
  BY DEF JustInv
<1> QED
  BY <1>1, JustInvInit, JustInvNext, PTL DEF Spec

(* Whatever guards a chain has and in whatever order, whoever meddles and  *)
(* whatever fails: what gets to a provider or a generator is the text of   *)
(* the request and no guard objects to it; a 400 or a 503 has a reason and *)
(* leaves nothing behind; and the audit names the first guard that objects.*)
THEOREM ResponsesJustified == Spec => []ResponsesAreJustified
<1>1. JustInv => ResponsesAreJustified
  BY TurnedAway DEF JustInv, ClientOK, ResponsesAreJustified
<1> QED
  BY <1>1, JustInvInit, JustInvNext, PTL DEF Spec
-----------------------------------------------------------------------------
(***************************************************************************)
(* Answers.  First Python's sort: the places that SortedAt counts are      *)
(* 1 to n, each taken once, and they follow the order.                     *)
(***************************************************************************)
IsOrder(R, n) == /\ \A i \in 1..n : <<i, i>> \notin R
                 /\ \A i, j \in 1..n : i = j \/ <<i, j>> \in R \/ <<j, i>> \in R
                 /\ \A i, j, k \in 1..n : <<i, j>> \in R /\ <<j, k>> \in R => <<i, k>> \in R

PlacesIn(R, n) == [i \in 1..n |-> Cardinality({j \in 1..n : j = i \/ <<j, i>> \in R})]

LEMMA PlacesAreTaken ==
  ASSUME NEW n \in Nat, NEW R, IsOrder(R, n)
  PROVE  LET place == PlacesIn(R, n)
         IN  /\ \A i \in 1..n : place[i] \in 1..n
             /\ \A i, j \in 1..n : <<i, j>> \in R => place[i] < place[j]
             /\ \A k \in 1..n : \E i \in 1..n : place[i] = k
<1> DEFINE place == PlacesIn(R, n)
           Upto(i) == {j \in 1..n : j = i \/ <<j, i>> \in R}
<1>1. IsFiniteSet(1..n) /\ Cardinality(1..n) = n
  BY FS_Interval
<1>2. \A i \in 1..n : Upto(i) \in SUBSET (1..n) /\ i \in Upto(i)
  OBVIOUS
<1>3. \A i \in 1..n : /\ IsFiniteSet(Upto(i)) /\ Cardinality(Upto(i)) \in Nat
                      /\ Cardinality(Upto(i)) <= n /\ Cardinality(Upto(i)) # 0
  <2> SUFFICES ASSUME NEW i \in 1..n
               PROVE  /\ IsFiniteSet(Upto(i)) /\ Cardinality(Upto(i)) \in Nat
                      /\ Cardinality(Upto(i)) <= n /\ Cardinality(Upto(i)) # 0
    OBVIOUS
  <2>1. Upto(i) \in SUBSET (1..n) /\ Upto(i) # {}
    BY <1>2
  <2> HIDE DEF Upto
  <2>2. IsFiniteSet(Upto(i)) /\ Cardinality(Upto(i)) <= Cardinality(1..n)
    BY <1>1, <2>1, FS_Subset
  <2> QED
    BY <1>1, <2>1, <2>2, FS_EmptySet, FS_CardinalityType
<1>4. ASSUME NEW i \in 1..n, NEW j \in 1..n, <<i, j>> \in R
      PROVE  Cardinality(Upto(i)) < Cardinality(Upto(j))
  <2>1. Upto(i) \in SUBSET Upto(j) /\ j \in Upto(j) /\ j \notin Upto(i)
    BY <1>4 DEF IsOrder
  <2> HIDE DEF Upto
  <2>2. /\ Cardinality(Upto(i)) <= Cardinality(Upto(j))
        /\ Cardinality(Upto(i)) # Cardinality(Upto(j))
    BY <1>3, <2>1, FS_Subset
  <2> QED
    BY <1>3, <2>2
<1>5. /\ \A i \in 1..n : place[i] = Cardinality(Upto(i))
      /\ place = [i \in 1..n |-> place[i]]
  BY DEF PlacesIn
<1> HIDE DEF Upto, place
<1>6. \A i \in 1..n : place[i] \in 1..n
  BY <1>3, <1>5
<1>7. \A i, j \in 1..n : <<i, j>> \in R => place[i] < place[j]
  BY <1>4, <1>5
<1>8. place \in Injection(1..n, 1..n)
  <2>1. place \in [1..n -> 1..n]
    BY <1>5, <1>6
  <2>2. ASSUME NEW i \in 1..n, NEW j \in 1..n, place[i] = place[j] PROVE i = j
    <3>1. ~(place[i] < place[j]) /\ ~(place[j] < place[i])
      BY <1>6, <2>2
    <3> QED
      BY <1>7, <3>1 DEF IsOrder
  <2> QED
    BY <2>1, <2>2 DEF Injection, IsInjective
<1>9. place \in Surjection(1..n, 1..n)
  BY <1>1, <1>8, FS_Injection
<1> QED
  BY <1>6, <1>7, <1>9 DEF Surjection, place

Distinct(s) == \A i, j \in DOMAIN s : s[i] = s[j] => i = j

(* The passages by score: the same ones, each once, the best first.        *)
LEMMA ByScoreSorts ==
  ASSUME NEW X, \A x \in X : x.rescore \in Int, NEW ps \in Seq(X), Distinct(ps)
  PROVE  /\ ByScore(ps) \in Seq(X) /\ Len(ByScore(ps)) = Len(ps) /\ Distinct(ByScore(ps))
         /\ ToSet(ByScore(ps)) = ToSet(ps)
         /\ \A k, l \in DOMAIN ps : k <= l => ByScore(ps)[k].rescore >= ByScore(ps)[l].rescore
<1> DEFINE n == Len(ps)
           Before(i, j) == \/ ps[i].rescore > ps[j].rescore
                           \/ ps[i].rescore = ps[j].rescore /\ i < j
           R == {ij \in (1..n) \X (1..n) : Before(ij[1], ij[2])}
           place == PlacesIn(R, n)
           at(k) == CHOOSE i \in 1..n : place[i] = k
<1>1. n \in Nat /\ DOMAIN ps = 1..n /\ \A i \in 1..n : ps[i] \in X /\ ps[i].rescore \in Int
  OBVIOUS
<1>2. \A i, j \in 1..n : <<i, j>> \in R <=> Before(i, j)
  OBVIOUS
<1>3. IsOrder(R, n)
  <2> HIDE DEF R
  <2> QED
    BY <1>1, <1>2 DEF IsOrder
<1>4. \A i, j \in 1..n : /\ ps[j].rescore > ps[i].rescore \/ (j <= i /\ ~(ps[i].rescore > ps[j].rescore))
                            <=> j = i \/ <<j, i>> \in R
  <2> HIDE DEF R
  <2> QED
    BY <1>1, <1>2
<1>5. ByScore(ps) = [k \in 1..n |-> ps[at(k)]]
  <2> DEFINE Place(i) == Cardinality({j \in DOMAIN ps : \/ ps[j].rescore > ps[i].rescore
                                                        \/ j <= i /\ ~(ps[i].rescore > ps[j].rescore)})
         at2(k) == CHOOSE i \in DOMAIN ps : Place(i) = k
  <2>1. ByScore(ps) = [k \in 1..Cardinality(DOMAIN ps) |-> ps[at2(k)]]
    BY DEF ByScore, StableSort, SortedAt
  <2>2. ASSUME NEW i \in 1..n PROVE Place(i) = place[i]
    <3>1. {j \in DOMAIN ps : \/ ps[j].rescore > ps[i].rescore
                             \/ j <= i /\ ~(ps[i].rescore > ps[j].rescore)}
          = {j \in 1..n : j = i \/ <<j, i>> \in R}
      <4> HIDE DEF R
      <4> QED
        BY <1>1, <1>4
    <3> QED
      BY <3>1 DEF PlacesIn
  <2> HIDE DEF Place, place, n
  <2>3. ASSUME NEW k PROVE at2(k) = at(k)
    BY <1>1, <2>2
  <2>4. Cardinality(1..n) = n
    BY <1>1, FS_Interval
  <2> HIDE DEF at, at2
  <2> QED
    BY <1>1, <2>1, <2>3, <2>4
<1> DEFINE s == ByScore(ps)
<1>6. /\ \A i \in 1..n : place[i] \in 1..n
      /\ \A i, j \in 1..n : <<i, j>> \in R => place[i] < place[j]
      /\ \A k \in 1..n : \E i \in 1..n : place[i] = k
  <2> HIDE DEF n, R
  <2> QED
    BY <1>1, <1>3, PlacesAreTaken
<1> HIDE DEF R, place
<1>7. \A k \in 1..n : at(k) \in 1..n /\ place[at(k)] = k
  BY <1>6
<1>8. \A i \in 1..n : at(place[i]) = i
  <2> SUFFICES ASSUME NEW i \in 1..n PROVE at(place[i]) = i
    OBVIOUS
  <2>1. place[i] \in 1..n /\ at(place[i]) \in 1..n /\ place[at(place[i])] = place[i]
    BY <1>6, <1>7
  <2> HIDE DEF at
  <2>2. ~(place[i] < place[at(place[i])]) /\ ~(place[at(place[i])] < place[i])
    BY <1>1, <2>1
  <2> QED
    BY <1>3, <1>6, <2>1, <2>2 DEF IsOrder
<1> HIDE DEF at, n
<1>9. DOMAIN s = 1..n /\ \A k \in 1..n : s[k] = ps[at(k)]
  BY <1>5
<1>10. s \in Seq(X) /\ Len(s) = n
  <2>1. s \in [1..n -> X]
    BY <1>1, <1>5, <1>7
  <2> QED
    BY <1>1, <2>1
<1>11. Distinct(s)
  BY <1>1, <1>7, <1>9 DEF Distinct
<1>12. ToSet(s) = ToSet(ps)
  <2>1. ToSet(s) \subseteq ToSet(ps)
    BY <1>1, <1>7, <1>9 DEF ToSet
  <2>2. ASSUME NEW i \in 1..n PROVE ps[i] \in ToSet(s)
    BY <1>6, <1>8, <1>9 DEF ToSet
  <2> QED
    BY <1>1, <2>1, <2>2 DEF ToSet
<1>13. ASSUME NEW k \in 1..n, NEW l \in 1..n, k <= l PROVE s[k].rescore >= s[l].rescore
  <2>1. at(k) \in 1..n /\ at(l) \in 1..n /\ ~(place[at(l)] < place[at(k)])
    BY <1>1, <1>7, <1>13
  <2>2. ~Before(at(l), at(k))
    BY <1>2, <1>6, <2>1
  <2> QED
    BY <1>1, <1>9, <2>1, <2>2
<1> QED
  BY <1>1, <1>10, <1>11, <1>12, <1>13 DEF n

(* The hits that are kept of the first n, for each n.                      *)
IsFilter(f, top, filter, n) ==
    f = [k \in 0..n |-> IF k = 0 THEN <<>>
                        ELSE IF MatchesFilter(top[k], filter) THEN Append(f[k - 1], top[k])
                        ELSE f[k - 1]]

LEMMA FilterExists ==
  ASSUME NEW top, NEW filter
  PROVE  \A n \in Nat : \E f : IsFilter(f, top, filter, n)
<1> DEFINE S == {n \in Nat : \E f : IsFilter(f, top, filter, n)}
<1>1. 0 \in S
  <2>1. IsFilter([k \in 0..0 |-> <<>>], top, filter, 0)
    BY DEF IsFilter
  <2> QED
    BY <2>1
<1>2. ASSUME NEW n \in Nat, n \in S PROVE n + 1 \in S
  <2>1. PICK f : IsFilter(f, top, filter, n)
    BY <1>2
  <2> DEFINE last == IF MatchesFilter(top[n + 1], filter) THEN Append(f[n], top[n + 1]) ELSE f[n]
             g == [k \in 0..(n + 1) |-> IF k = n + 1 THEN last ELSE f[k]]
  <2>2. \A k \in 0..n : g[k] = f[k]
    OBVIOUS
  <2>3. \A k \in 0..(n + 1) :
          g[k] = IF k = 0 THEN <<>>
                 ELSE IF MatchesFilter(top[k], filter) THEN Append(g[k - 1], top[k])
                 ELSE g[k - 1]
    <3> SUFFICES ASSUME NEW k \in 0..(n + 1)
                 PROVE  g[k] = IF k = 0 THEN <<>>
                               ELSE IF MatchesFilter(top[k], filter)
                                    THEN Append(g[k - 1], top[k]) ELSE g[k - 1]
      OBVIOUS
    <3>1. CASE k = n + 1
      <4>1. k # 0 /\ k - 1 = n /\ n \in 0..n
        BY <3>1
      <4>2. g[k] = last /\ g[k - 1] = f[n]
        BY <3>1, <4>1, <2>2
      <4> QED
        BY <3>1, <4>1, <4>2
    <3>2. CASE k # n + 1
      <4>1. k \in 0..n /\ (k # 0 => k - 1 \in 0..n)
        BY <3>2
      <4>2. f[k] = IF k = 0 THEN <<>>
                   ELSE IF MatchesFilter(top[k], filter) THEN Append(f[k - 1], top[k])
                   ELSE f[k - 1]
        BY <2>1, <4>1 DEF IsFilter
      <4>3. g[k] = f[k] /\ (k # 0 => g[k - 1] = f[k - 1])
        BY <2>2, <4>1
      <4> HIDE DEF g
      <4> QED
        BY <4>2, <4>3
    <3> QED
      BY <3>1, <3>2
  <2>4. g = [k \in 0..(n + 1) |-> g[k]]
    OBVIOUS
  <2> HIDE DEF g
  <2>5. IsFilter(g, top, filter, n + 1)
    BY <2>3, <2>4 DEF IsFilter
  <2> QED
    BY <2>5
<1>3. Nat \subseteq S
  <2> HIDE DEF S
  <2> QED
    BY <1>1, <1>2, SetInduction
<1> QED
  BY <1>3

(* What ps has of the first n of top: those that match, each once.         *)
Sifted(ps, top, filter, n) ==
    /\ Distinct(ps)
    /\ \A i \in DOMAIN ps : \E j \in 1..n : ps[i] = top[j] /\ MatchesFilter(top[j], filter)
    /\ \A j \in 1..n : MatchesFilter(top[j], filter) => \E i \in DOMAIN ps : ps[i] = top[j]

LEMMA OneMoreSifted ==
  ASSUME NEW X, NEW top \in Seq(X), Distinct(top), NEW filter, NEW n \in 0..(Len(top) - 1),
         NEW ps \in Seq(X), Sifted(ps, top, filter, n), NEW qs,
         qs = IF MatchesFilter(top[n + 1], filter) THEN Append(ps, top[n + 1]) ELSE ps
  PROVE  qs \in Seq(X) /\ Sifted(qs, top, filter, n + 1)
<1>1. /\ n \in Nat /\ n + 1 \in 1..Len(top) /\ top[n + 1] \in X /\ Len(ps) \in Nat
      /\ 1..n \subseteq DOMAIN top /\ DOMAIN top = 1..Len(top) /\ n + 1 \notin 1..n
      /\ \A j \in 1..(n + 1) : j \in 1..n \/ j = n + 1
      /\ 1..n \subseteq 1..(n + 1) /\ n + 1 \in 1..(n + 1)
  OBVIOUS
<1>2. CASE MatchesFilter(top[n + 1], filter)
  <2>1. /\ qs \in Seq(X) /\ DOMAIN qs = 1..(Len(ps) + 1) /\ DOMAIN ps = 1..Len(ps)
        /\ \A i \in 1..Len(ps) : qs[i] = ps[i]
        /\ qs[Len(ps) + 1] = top[n + 1]
    BY <1>1, <1>2
  <2>2. \A i \in 1..(Len(ps) + 1) : i \in 1..Len(ps) \/ i = Len(ps) + 1
    BY <1>1
  <2>3. ASSUME NEW i \in DOMAIN ps PROVE ps[i] # top[n + 1]
    <3>1. PICK j \in 1..n : ps[i] = top[j]
      BY DEF Sifted
    <3>2. j \in DOMAIN top /\ n + 1 \in DOMAIN top /\ j # n + 1
      BY <1>1
    <3> QED
      BY <3>1, <3>2 DEF Distinct
  <2>4. Distinct(qs)
    BY <2>1, <2>2, <2>3 DEF Sifted, Distinct
  <2>5. ASSUME NEW i \in DOMAIN qs
        PROVE  \E j \in 1..(n + 1) : qs[i] = top[j] /\ MatchesFilter(top[j], filter)
    BY <1>1, <1>2, <2>1, <2>2 DEF Sifted
  <2>6. ASSUME NEW j \in 1..(n + 1), MatchesFilter(top[j], filter)
        PROVE  \E i \in DOMAIN qs : qs[i] = top[j]
    <3>1. CASE j = n + 1
      <4>1. Len(ps) + 1 \in DOMAIN qs
        BY <1>1, <2>1
      <4> QED
        BY <2>1, <3>1, <4>1
    <3>2. CASE j \in 1..n
      <4>1. PICK i \in DOMAIN ps : ps[i] = top[j]
        BY <2>6, <3>2 DEF Sifted
      <4>2. i \in DOMAIN qs /\ qs[i] = ps[i]
        BY <1>1, <2>1
      <4> QED
        BY <4>1, <4>2
    <3> QED
      BY <1>1, <3>1, <3>2
  <2> QED
    BY <2>1, <2>4, <2>5, <2>6 DEF Sifted
<1>3. CASE ~MatchesFilter(top[n + 1], filter)
  BY <1>1, <1>3 DEF Sifted
<1> QED
  BY <1>2, <1>3

(* Retrieval keeps those of the first k hits that match, each once.        *)
LEMMA RetrieveSifts ==
  ASSUME NEW X, NEW hits \in Seq(X), Distinct(hits), NEW k \in Nat, NEW filter
  PROVE  LET top == SearchTop(hits, k)
             ps == Retrieve(hits, k, filter)
         IN  /\ ps \in Seq(X) /\ Distinct(ps)
             /\ ToSet(ps) = {p \in ToSet(top) : MatchesFilter(p, filter)}
<1> DEFINE top == SearchTop(hits, k)
           n == Len(top)
           f == CHOOSE f : IsFilter(f, top, filter, n)
<1>1. top \in Seq(X) /\ Distinct(top) /\ n \in Nat
  <2>1. Smaller(k, Len(hits)) \in 0..Len(hits)
    BY DEF Smaller
  <2>2. /\ top \in Seq(X) /\ Len(top) = Smaller(k, Len(hits))
        /\ \A i \in 1..Len(top) : top[i] = hits[i] /\ i \in 1..Len(hits)
    BY <2>1 DEF SearchTop
  <2> HIDE DEF top
  <2> QED
    BY <2>1, <2>2 DEF Distinct
<1> HIDE DEF top
<1>2. IsFilter(f, top, filter, n)
  BY <1>1, FilterExists
<1>3. Retrieve(hits, k, filter) = f[n]
  BY DEF Retrieve, IsFilter, top
<1> HIDE DEF f, n
<1>4. f[0] = <<>>
  BY <1>1, <1>2 DEF IsFilter
<1>5. ASSUME NEW i \in 0..(n - 1)
      PROVE  f[i + 1] = IF MatchesFilter(top[i + 1], filter) THEN Append(f[i], top[i + 1])
                        ELSE f[i]
  <2>1. i + 1 \in 0..n /\ i + 1 # 0 /\ (i + 1) - 1 = i
    BY <1>1
  <2>2. f[i + 1] = IF i + 1 = 0 THEN <<>>
                   ELSE IF MatchesFilter(top[i + 1], filter)
                        THEN Append(f[(i + 1) - 1], top[i + 1]) ELSE f[(i + 1) - 1]
    BY <1>2, <2>1 DEF IsFilter
  <2> QED
    BY <2>1, <2>2
<1> DEFINE S == {i \in Nat : i <= n => f[i] \in Seq(X) /\ Sifted(f[i], top, filter, i)}
<1>6. 0 \in S
  <2>1. <<>> \in Seq(X) /\ DOMAIN <<>> = {} /\ 1..0 = {}
    OBVIOUS
  <2> QED
    BY <1>4, <2>1 DEF Sifted, Distinct
<1>7. ASSUME NEW i \in Nat, i \in S PROVE i + 1 \in S
  <2>1. SUFFICES ASSUME i + 1 <= n
                 PROVE  f[i + 1] \in Seq(X) /\ Sifted(f[i + 1], top, filter, i + 1)
    OBVIOUS
  <2>2. i \in 0..(n - 1) /\ f[i] \in Seq(X) /\ Sifted(f[i], top, filter, i)
    BY <1>1, <1>7, <2>1
  <2>3. f[i + 1] = IF MatchesFilter(top[i + 1], filter) THEN Append(f[i], top[i + 1]) ELSE f[i]
    BY <1>5, <2>2
  <2> QED
    BY <1>1, <2>2, <2>3, OneMoreSifted DEF n
<1>8. Nat \subseteq S
  <2> HIDE DEF S
  <2> QED
    BY <1>6, <1>7, SetInduction
<1>9. f[n] \in Seq(X) /\ Sifted(f[n], top, filter, n)
  BY <1>1, <1>8
<1>10. ToSet(f[n]) = {p \in ToSet(top) : MatchesFilter(p, filter)}
  <2>1. DOMAIN top = 1..n
    BY <1>1 DEF n
  <2>2. \A p \in ToSet(f[n]) : p \in ToSet(top) /\ MatchesFilter(p, filter)
    BY <1>9, <2>1 DEF Sifted, ToSet
  <2>3. \A p \in ToSet(top) : MatchesFilter(p, filter) => p \in ToSet(f[n])
    BY <1>9, <2>1 DEF Sifted, ToSet
  <2> QED
    BY <2>2, <2>3
<1> QED
  BY <1>3, <1>9, <1>10 DEF top, Sifted

LEMMA DistinctSize ==
  ASSUME NEW X, NEW s \in Seq(X), Distinct(s)
  PROVE  IsFiniteSet(ToSet(s)) /\ Cardinality(ToSet(s)) = Len(s)
<1>1. DOMAIN s = 1..Len(s) /\ Len(s) \in Nat /\ s = [i \in 1..Len(s) |-> s[i]]
  OBVIOUS
<1>2. s \in Bijection(1..Len(s), ToSet(s))
  BY <1>1 DEF Distinct, ToSet, Bijection, Injection, IsInjective, Surjection
<1>3. ExistsBijection(1..Len(s), ToSet(s))
  BY <1>2 DEF ExistsBijection
<1>4. \A n \in Nat : IsFiniteSet(1..n) /\ Cardinality(1..n) = n
  BY FS_Interval
<1>5. IsFiniteSet(1..Len(s)) /\ Cardinality(1..Len(s)) = Len(s)
  BY <1>1, <1>4
<1> QED
  BY <1>3, <1>5, FS_Bijection

LEMMA FirstNFacts ==
  ASSUME NEW X, NEW ps \in Seq(X), Distinct(ps), NEW n \in Nat \cup {Unset}
  PROVE  LET qs == FirstN(ps, n)
         IN  /\ qs \in Seq(X) /\ Distinct(qs)
             /\ Len(qs) = IF n = Unset THEN Len(ps) ELSE Smaller(n, Len(ps))
             /\ Len(qs) <= Len(ps)
             /\ \A i \in 1..Len(qs) : i \in 1..Len(ps) /\ qs[i] = ps[i]
<1>1. CASE n = Unset
  BY <1>1 DEF FirstN
<1>2. CASE n # Unset
  <2> DEFINE m == Smaller(n, Len(ps))
             qs == FirstN(ps, n)
  <2>1. m \in 0..Len(ps)
    BY <1>2 DEF Smaller
  <2>2. qs = SubSeq(ps, 1, m)
    BY <1>2 DEF FirstN
  <2> HIDE DEF m
  <2>3. /\ qs \in Seq(X) /\ Len(qs) = m
        /\ \A i \in 1..m : i \in 1..Len(ps) /\ qs[i] = ps[i]
    BY <2>1, <2>2
  <2> HIDE DEF qs
  <2>4. Distinct(qs)
    BY <2>1, <2>3 DEF Distinct
  <2> QED
    BY <1>2, <2>1, <2>3, <2>4 DEF qs, m
<1> QED
  BY <1>1, <1>2

LEMMA ReverseFacts ==
  ASSUME NEW X, NEW ps \in Seq(X), Distinct(ps)
  PROVE  /\ Reverse(ps) \in Seq(X) /\ Distinct(Reverse(ps)) /\ Len(Reverse(ps)) = Len(ps)
         /\ ToSet(Reverse(ps)) = ToSet(ps)
<1> DEFINE n == Len(ps)
           r == Reverse(ps)
<1>1. n \in Nat /\ DOMAIN ps = 1..n /\ \A i \in 1..n : n - i + 1 \in 1..n
  OBVIOUS
<1>2. r = [i \in 1..n |-> ps[n - i + 1]]
  BY DEF Reverse
<1> HIDE DEF n, r
<1>3. r \in Seq(X) /\ Len(r) = n /\ DOMAIN r = 1..n
  <2>1. r \in [1..n -> X]
    BY <1>1, <1>2
  <2> QED
    BY <1>1, <2>1
<1>4. \A i \in 1..n : r[i] = ps[n - i + 1]
  BY <1>2
<1>5. Distinct(r)
  BY <1>1, <1>3, <1>4 DEF Distinct
<1>6. ToSet(r) = ToSet(ps)
  <2>1. ToSet(r) \subseteq ToSet(ps)
    BY <1>1, <1>3, <1>4 DEF ToSet
  <2>2. ASSUME NEW i \in 1..n PROVE ps[i] \in ToSet(r)
    <3>1. n - i + 1 \in 1..n /\ n - (n - i + 1) + 1 = i
      BY <1>1
    <3>2. r[n - i + 1] = ps[i]
      BY <1>4, <3>1
    <3> QED
      BY <1>3, <3>1, <3>2 DEF ToSet
  <2> QED
    BY <1>1, <2>1, <2>2 DEF ToSet
<1> QED
  BY <1>3, <1>5, <1>6 DEF n, r

(* What the pipeline gives the generator is what the query may get.        *)
LEMMA GroundingIsSound ==
  ASSUME app \in Apps, app.pipeline # Nothing, NEW q \in Queries
  PROVE  WellGrounded(Grounding(app.pipeline, app.pipeline.hits, q.topK, Unset, q.filter), q)
<1> DEFINE P == app.pipeline
           X == ToSet(P.hits)
           n == Limit(P.topN, P.reranker.topN)
           rs == Retrieve(P.hits, q.topK, q.filter)
           all == IF P.reranker.type = "none" THEN rs
                  ELSE IF P.reranker.type = "fake" THEN Reverse(rs) ELSE ByScore(rs)
           m == IF P.reranker.type = "none" THEN Unset ELSE n
           ps == Grounding(P, P.hits, q.topK, Unset, q.filter)
           C == Candidates(q)
<1>1. /\ SoundPipeline(P) /\ q.topK \in Nat /\ Unset \notin Nat
  BY ServingAssumption
<1>2. /\ P.hits \in Seq(X) /\ Distinct(P.hits) /\ n \in Nat \cup {Unset}
      /\ \A x \in X : x.rescore \in Int
      /\ P.reranker.type \in {"none", "fake", "score"}
  BY <1>1 DEF SoundPipeline, Distinct, Limit
<1>3. rs \in Seq(X) /\ Distinct(rs) /\ ToSet(rs) = C
  <2> HIDE DEF X, P
  <2>1. rs \in Seq(X) /\ Distinct(rs)
        /\ ToSet(rs) = {p \in ToSet(SearchTop(P.hits, q.topK)) : MatchesFilter(p, q.filter)}
    BY <1>1, <1>2, RetrieveSifts
  <2> QED
    BY <2>1 DEF Candidates, Pipeline, P
<1>4. ps = FirstN(all, m) /\ m \in Nat \cup {Unset}
  <2>1. ps = Rerank(P.reranker, rs, P.topN)
    BY <1>1 DEF Grounding, Limit
  <2> HIDE DEF P, rs, ps
  <2> QED
    BY <1>2, <2>1 DEF Rerank, FirstN
<1> HIDE DEF rs
<1>5. /\ all \in Seq(X) /\ Distinct(all) /\ Len(all) = Len(rs) /\ ToSet(all) = C
      /\ P.reranker.type = "score" =>
           \A k, l \in 1..Len(all) : k <= l => all[k].rescore >= all[l].rescore
  <2> HIDE DEF X, P, C
  <2>1. CASE P.reranker.type = "none"
    BY <1>3, <2>1
  <2>2. CASE P.reranker.type = "fake"
    BY <1>3, <2>2, ReverseFacts
  <2>3. CASE P.reranker.type = "score"
    <3>1. /\ ByScore(rs) \in Seq(X) /\ Len(ByScore(rs)) = Len(rs) /\ Distinct(ByScore(rs))
          /\ ToSet(ByScore(rs)) = ToSet(rs)
          /\ \A k, l \in DOMAIN rs : k <= l => ByScore(rs)[k].rescore >= ByScore(rs)[l].rescore
      BY <1>2, <1>3, ByScoreSorts
    <3>2. all = ByScore(rs) /\ DOMAIN rs = 1..Len(rs)
      BY <1>3, <2>3
    <3> HIDE DEF all
    <3> QED
      BY <1>3, <3>1, <3>2
  <2> QED
    BY <1>2, <2>1, <2>2, <2>3
<1>6. Cardinality(C) = Len(all)
  BY <1>5, DistinctSize
<1> HIDE DEF all
<1>7. /\ ps \in Seq(X) /\ Distinct(ps)
      /\ Len(ps) = IF m = Unset THEN Len(all) ELSE Smaller(m, Len(all))
      /\ Len(ps) <= Len(all)
      /\ \A i \in 1..Len(ps) : i \in 1..Len(all) /\ ps[i] = all[i]
  BY <1>4, <1>5, FirstNFacts
<1>8. Cap(q) = IF m = Unset THEN Cardinality(C) ELSE Smaller(m, Cardinality(C))
  BY DEF Cap, Pipeline, Limit
<1> HIDE DEF ps, P, X, C, m, n
<1>9. Len(ps) = Cap(q) /\ Cardinality(ToSet(ps)) = Cap(q)
  BY <1>6, <1>7, <1>8, DistinctSize
<1>10. ToSet(ps) \subseteq C
  <2>1. DOMAIN ps = 1..Len(ps) /\ DOMAIN all = 1..Len(all)
    BY <1>5, <1>7
  <2> QED
    BY <1>5, <1>7, <2>1 DEF ToSet
<1>11. ASSUME P.reranker.type = "score", NEW a \in DOMAIN ps
       PROVE  /\ \A b \in a..Len(ps) : ps[a].rescore >= ps[b].rescore
              /\ \A p \in C \ ToSet(ps) : ps[a].rescore >= p.rescore
  <2>1. /\ DOMAIN ps = 1..Len(ps) /\ DOMAIN all = 1..Len(all)
        /\ Len(ps) \in Nat /\ Len(all) \in Nat
    BY <1>5, <1>7
  <2>2. ASSUME NEW b \in a..Len(ps) PROVE ps[a].rescore >= ps[b].rescore
    <3>1. a \in 1..Len(ps) /\ b \in 1..Len(ps) /\ a <= b
      BY <2>1
    <3> QED
      BY <1>5, <1>7, <1>11, <3>1
  <2>3. ASSUME NEW p \in C \ ToSet(ps) PROVE ps[a].rescore >= p.rescore
    <3>1. PICK l \in 1..Len(all) : p = all[l]
      BY <1>5, <2>1 DEF ToSet
    <3>2. l \notin 1..Len(ps)
      BY <1>7, <2>1, <3>1 DEF ToSet
    <3>3. a \in 1..Len(ps) /\ a \in 1..Len(all) /\ a <= l
      BY <1>7, <2>1, <3>2
    <3> QED
      BY <1>5, <1>7, <1>11, <3>1, <3>3
  <2> QED
    BY <2>2, <2>3
<1> QED
  BY <1>9, <1>10, <1>11 DEF WellGrounded, Pipeline, P, C, ps, X

(* A client that waits for a provider has asked for a chat, so an answer   *)
(* to a query is one that the pipeline has grounded in its only step.      *)
GroundedOK(t) ==
    /\ pc[t] = "calling" => ask[t] \in Prompts
    /\ ask[t] \in Queries /\ outcome[t] = 200 =>
         /\ app.pipeline # Nothing
         /\ cited[t] = Grounding(app.pipeline, app.pipeline.hits,
                                 ask[t].topK, Unset, ask[t].filter)

GroundInv == JustInv /\ \A t \in Clients : GroundedOK(t)

LEMMA GroundInvInit == Init => GroundInv
<1> SUFFICES ASSUME Init PROVE GroundInv
  OBVIOUS
<1>1. ASSUME NEW t \in Clients PROVE GroundedOK(t)
  BY DEF Init, GroundedOK, Tasks
<1> QED
  BY <1>1, JustInvInit DEF GroundInv

LEMMA SparedStayGrounded ==
  ASSUME GroundInv, JustInv', NEW t \in Tasks, app' = app,
         \A u \in Clients \ {t} : /\ pc'[u] = pc[u] /\ ask'[u] = ask[u]
                                  /\ cited'[u] = cited[u] /\ outcome'[u] = outcome[u],
         t \in Clients => GroundedOK(t)'
  PROVE  GroundInv'
<1>1. ASSUME NEW u \in Clients \ {t} PROVE GroundedOK(u)'
  BY DEF GroundInv, GroundedOK
<1> QED
  BY <1>1 DEF GroundInv

(* A request that is turned away in its first step.                        *)
LEMMA TurnedAwayGrounded ==
  ASSUME GroundInv, JustInv', NEW t \in Clients, NEW q \in Prompts \cup Queries,
         Unconfigured(t, q) \/ Blocked(t, q) \/ GuardFails(t, q)
  PROVE  GroundInv'
<1>1. /\ Begins(t, q) /\ Done(t) /\ UNCHANGED <<app, cited>>
      /\ \E code \in {400, 500, 503} : Responds(t, code)
  BY DEF Unconfigured, Blocked, GuardFails, setup
<1>2. PICK code \in {400, 500, 503} : Responds(t, code)
  BY <1>1
<1>3. /\ t \in Tasks /\ ask'[t] = q /\ \A u \in Clients \ {t} : ask'[u] = ask[u]
      /\ outcome'[t] = code /\ \A u \in Clients \ {t} : outcome'[u] = outcome[u]
      /\ pc'[t] = "done" /\ \A u \in Clients \ {t} : pc'[u] = pc[u]
  BY <1>1, <1>2, FirstStep DEF Responds, Done, GroundInv, JustInv, TypeOK
<1> QED
  BY <1>1, <1>3, SparedStayGrounded DEF GroundedOK

LEMMA RagAnswerGrounded ==
  ASSUME GroundInv, JustInv', NEW t \in Clients, NEW q \in Queries, RagAnswer(t, q)
  PROVE  GroundInv'
<1>1. /\ Begins(t, q) /\ Configured(q) /\ Done(t) /\ app' = app
      /\ Responds(t, 200) \/ Responds(t, 500)
      /\ cited' = [cited EXCEPT ![t] =
                     Grounding(app.pipeline, app.pipeline.hits, q.topK, Unset, q.filter)]
  BY DEF RagAnswer, Cleared, setup
<1>2. app.pipeline # Nothing
  BY <1>1, ServingAssumption DEF Configured
<1>3. /\ t \in Tasks /\ ask'[t] = q /\ \A u \in Clients \ {t} : ask'[u] = ask[u]
      /\ \A u \in Clients \ {t} : outcome'[u] = outcome[u]
      /\ pc'[t] = "done" /\ \A u \in Clients \ {t} : pc'[u] = pc[u]
      /\ cited'[t] = Grounding(app.pipeline, app.pipeline.hits, q.topK, Unset, q.filter)
      /\ \A u \in Clients \ {t} : cited'[u] = cited[u]
  BY <1>1, FirstStep DEF Responds, Done, GroundInv, JustInv, TypeOK
<1>4. GroundedOK(t)'
  BY <1>1, <1>2, <1>3 DEF GroundedOK
<1> QED
  BY <1>1, <1>3, <1>4, SparedStayGrounded

LEMMA ChatGrounded ==
  ASSUME GroundInv, JustInv', NEW t \in Clients, NEW q \in Prompts, Chat(t, q)
  PROVE  GroundInv'
<1>1. /\ Begins(t, q) /\ UNCHANGED <<app, cited, outcome>>
      /\ pc' = [pc EXCEPT ![t] = "calling"]
  BY DEF Chat, Cleared, BeginCall, setup
<1>2. /\ t \in Tasks /\ ask'[t] = q /\ \A u \in Clients \ {t} : ask'[u] = ask[u]
      /\ pc'[t] = "calling" /\ \A u \in Clients \ {t} : pc'[u] = pc[u]
  BY <1>1, FirstStep DEF GroundInv, JustInv, TypeOK
<1>3. GroundedOK(t)'
  BY <1>2, ServingAssumption DEF GroundedOK
<1> QED
  BY <1>1, <1>2, <1>3, SparedStayGrounded

LEMMA CallStepGrounded ==
  ASSUME GroundInv, JustInv', NEW t \in Callers, NEW tokens,
         TryNext(t) \/ GiveUp(t) \/ Cancelled(t) \/ ProviderAnswers(t, tokens)
  PROVE  GroundInv'
<1>1. /\ pc[t] = "calling" /\ UNCHANGED <<app, ask, cited>>
      /\ pc' = pc \/ pc' = [pc EXCEPT ![t] = "done"]
      /\ outcome' = outcome \/ \E code : outcome' = [outcome EXCEPT ![t] = code]
  BY DEF TryNext, GiveUp, Cancelled, ProviderAnswers, EndCall, Responds, setup, web
<1>2. /\ t \in Tasks /\ Clients \subseteq Tasks
      /\ DOMAIN pc = Tasks /\ DOMAIN outcome = Clients
  BY TaskFacts DEF Callers, GroundInv, JustInv, TypeOK
<1>3. /\ pc'[t] \in {"calling", "done"}
      /\ \A u \in Clients \ {t} : pc'[u] = pc[u] /\ outcome'[u] = outcome[u]
  BY <1>1, <1>2
<1>4. t \in Clients => GroundedOK(t)'
  BY <1>1, ServingAssumption DEF GroundInv, GroundedOK
<1> QED
  BY <1>1, <1>2, <1>3, <1>4, SparedStayGrounded

LEMMA BatchStepGrounded ==
  ASSUME GroundInv, JustInv',
         \/ \E t \in Parts : StartPart(t) \/ DropPart(t)
         \/ StartJob \/ CancelJob \/ EndJob
         \/ NewRouter \/ SetHook \/ ResetCollector \/ ResetRegistry
         \/ Terminated \/ UNCHANGED vars
  PROVE  GroundInv'
<1>1. UNCHANGED <<app, ask, cited, outcome>>
  BY DEF StartPart, DropPart, StartJob, CancelJob, EndJob, NewRouter, SetHook, ResetCollector,
         ResetRegistry, Meddle, Terminated, vars, setup, web
<1>2. pc \in [Tasks -> Places] /\ Clients \subseteq Tasks /\ Job \in Tasks \ Clients
  BY TaskFacts DEF GroundInv, JustInv, TreeInv, Typed, Callers
<1>3. \A u \in Clients : u \notin Parts
  BY TaskFacts
<1>4. \A u \in Clients : pc'[u] = pc[u]
  BY <1>2, <1>3 DEF StartPart, DropPart, BeginCall, Done, StartJob, CancelJob, EndJob, NewRouter,
         SetHook, ResetCollector, ResetRegistry, Meddle, Terminated, vars
<1> QED
  BY <1>1, <1>2, <1>4, SparedStayGrounded

LEMMA GroundInvNext == GroundInv /\ [Next]_vars => GroundInv'
<1> SUFFICES ASSUME GroundInv, [Next]_vars PROVE GroundInv'
  OBVIOUS
<1>1. JustInv'
  BY JustInvNext DEF GroundInv
<1> QED
  BY <1>1, TurnedAwayGrounded, ChatGrounded, RagAnswerGrounded, CallStepGrounded,
     BatchStepGrounded DEF Next, Callers

(* Whatever the hits of a query, the filter, the reranker and the limits,  *)
(* a RAG answer cites different passages among the top_k, all of which     *)
(* match the filter, as many as the limits allow, and the best of them by  *)
(* the reranker's scores.                                                  *)
THEOREM AnswersStayGrounded == Spec => []AnswersAreGrounded
<1>1. GroundInv => AnswersAreGrounded
  <2> SUFFICES ASSUME GroundInv, NEW t \in Clients, ask[t] \in Queries, outcome[t] = 200
               PROVE  WellGrounded(cited[t], ask[t])
    BY DEF AnswersAreGrounded
  <2>1. app \in Apps /\ GroundedOK(t)
    BY DEF GroundInv, JustInv, TypeOK
  <2> QED
    BY <2>1, GroundingIsSound DEF GroundedOK
<1> QED
  BY <1>1, GroundInvInit, GroundInvNext, PTL DEF Spec

-----------------------------------------------------------------------------
(***************************************************************************)
(* Metrics.  Sums first.  The sum over a finite set is taken through sets: *)
(* if C[x] has as many elements as x counts for, and different x have      *)
(* nothing in common, then the sum is the size of their union.             *)
(***************************************************************************)
Disjoint(T, C) ==
    /\ IsFiniteSet(T)
    /\ \A x \in T : IsFiniteSet(C[x])
    /\ \A x, y \in T : x # y => C[x] \cap C[y] = {}

AllOf(s, C) == UNION {C[x] : x \in s}

LEMMA OneIsLeft ==
  ASSUME NEW T, NEW C, Disjoint(T, C), NEW s \in SUBSET T
  PROVE  /\ IsFiniteSet(s) /\ IsFiniteSet(AllOf(s, C)) /\ Cardinality(AllOf(s, C)) \in Nat
         /\ s = {} => Cardinality(AllOf(s, C)) = 0
         /\ \A x \in s : Cardinality(AllOf(s, C))
                           = Cardinality(C[x]) + Cardinality(AllOf(s \ {x}, C))
<1>1. IsFiniteSet(s)
  BY FS_Subset DEF Disjoint
<1>2. ASSUME NEW r \in SUBSET s PROVE IsFiniteSet(AllOf(r, C)) /\ Cardinality(AllOf(r, C)) \in Nat
  <2> DEFINE parts == {C[x] : x \in r}
  <2>1. IsFiniteSet(r)
    BY <1>1, FS_Subset
  <2>2. IsFiniteSet(parts)
    <3> DEFINE F == [x \in r |-> C[x]]
    <3>1. F \in Surjection(r, parts)
      BY DEF Surjection
    <3> QED
      BY <2>1, <3>1, FS_Surjection
  <2>3. \A p \in parts : IsFiniteSet(p)
    BY DEF Disjoint
  <2> HIDE DEF parts
  <2>4. IsFiniteSet(UNION parts)
    BY <2>2, <2>3, FS_UNION
  <2> QED
    BY <2>4, FS_CardinalityType DEF AllOf, parts
<1>3. s = {} => AllOf(s, C) = {}
  BY DEF AllOf
<1>4. ASSUME NEW x \in s
      PROVE  Cardinality(AllOf(s, C)) = Cardinality(C[x]) + Cardinality(AllOf(s \ {x}, C))
  <2>1. AllOf(s, C) = C[x] \cup AllOf(s \ {x}, C)
    BY DEF AllOf
  <2>2. C[x] \cap AllOf(s \ {x}, C) = {}
    BY DEF AllOf, Disjoint
  <2>3. IsFiniteSet(C[x]) /\ IsFiniteSet(AllOf(s \ {x}, C))
    BY <1>2 DEF Disjoint
  <2>4. Cardinality(C[x] \cup AllOf(s \ {x}, C))
          = Cardinality(C[x]) + Cardinality(AllOf(s \ {x}, C)) - Cardinality({})
    BY <2>2, <2>3, FS_Union
  <2>5. Cardinality(C[x]) \in Nat /\ Cardinality(AllOf(s \ {x}, C)) \in Nat
    BY <2>3, FS_CardinalityType
  <2> QED
    BY <2>1, <2>4, <2>5, FS_EmptySet
<1> QED
  BY <1>1, <1>2, <1>3, <1>4, FS_EmptySet

(* Adding up as SumFunctionOnSet does.                                     *)
OneOf(s) == CHOOSE x \in s : TRUE

IsSum(g, f, T) ==
    g = [s \in SUBSET T |-> IF s = {} THEN 0 ELSE f[OneOf(s)] + g[s \ {OneOf(s)}]]

(* There is one way to add up, and it gives the size of the union.         *)
LEMMA SumIsSize ==
  ASSUME NEW T, NEW C, Disjoint(T, C), NEW f, \A x \in T : f[x] = Cardinality(C[x]),
         NEW g, IsSum(g, f, T)
  PROVE  g[T] = Cardinality(AllOf(T, C))
<1> DEFINE S == {n \in Nat : \A s \in SUBSET T :
                    Cardinality(s) = n => g[s] = Cardinality(AllOf(s, C))}
<1>0. ASSUME NEW s \in SUBSET T
      PROVE  g[s] = IF s = {} THEN 0 ELSE f[OneOf(s)] + g[s \ {OneOf(s)}]
  BY DEF IsSum
<1>1. 0 \in S
  <2> SUFFICES ASSUME NEW s \in SUBSET T, Cardinality(s) = 0
               PROVE  g[s] = Cardinality(AllOf(s, C))
    OBVIOUS
  <2>1. s = {}
    BY OneIsLeft, FS_EmptySet
  <2>2. g[s] = 0
    BY <1>0, <2>1
  <2> QED
    BY <2>1, <2>2, OneIsLeft
<1>2. ASSUME NEW n \in Nat, n \in S PROVE n + 1 \in S
  <2> SUFFICES ASSUME NEW s \in SUBSET T, Cardinality(s) = n + 1
               PROVE  g[s] = Cardinality(AllOf(s, C))
    OBVIOUS
  <2> HIDE DEF S
  <2>1. IsFiniteSet(s) /\ s # {}
    <3>1. n + 1 # 0
      OBVIOUS
    <3> QED
      BY <3>1, OneIsLeft, FS_EmptySet
  <2>2. OneOf(s) \in s
    BY <2>1 DEF OneOf
  <2>3. s \ {OneOf(s)} \in SUBSET T /\ Cardinality(s \ {OneOf(s)}) = n
    <3>1. Cardinality(s \ {OneOf(s)}) = Cardinality(s) - 1
      BY <2>1, <2>2, FS_RemoveElement
    <3> QED
      BY <3>1
  <2>4. g[s \ {OneOf(s)}] = Cardinality(AllOf(s \ {OneOf(s)}, C))
    BY <1>2, <2>3 DEF S
  <2>5. g[s] = f[OneOf(s)] + g[s \ {OneOf(s)}]
    BY <1>0, <2>1
  <2>6. f[OneOf(s)] = Cardinality(C[OneOf(s)])
    BY <2>2
  <2> QED
    BY <2>2, <2>4, <2>5, <2>6, OneIsLeft
<1>3. Nat \subseteq S
  <2> HIDE DEF S
  <2> QED
    BY <1>1, <1>2, SetInduction
<1>4. Cardinality(T) \in Nat
  BY FS_CardinalityType DEF Disjoint
<1> QED
  BY <1>3, <1>4

LEMMA SumExists ==
  ASSUME NEW T, NEW C, Disjoint(T, C), NEW f, \A x \in T : f[x] = Cardinality(C[x])
  PROVE  \E g : IsSum(g, f, T)
<1> DEFINE g == [s \in SUBSET T |-> Cardinality(AllOf(s, C))]
<1>1. ASSUME NEW s \in SUBSET T
      PROVE  g[s] = IF s = {} THEN 0 ELSE f[OneOf(s)] + g[s \ {OneOf(s)}]
  <2>1. CASE s = {}
    BY <2>1, OneIsLeft
  <2>2. CASE s # {}
    <3>1. OneOf(s) \in s /\ s \ {OneOf(s)} \in SUBSET T
      BY <2>2 DEF OneOf
    <3> QED
      BY <2>2, <3>1, OneIsLeft
  <2> QED
    BY <2>1, <2>2
<1>2. g = [s \in SUBSET T |-> g[s]]
  OBVIOUS
<1> HIDE DEF g
<1>3. IsSum(g, f, T)
  BY <1>1, <1>2 DEF IsSum
<1> QED
  BY <1>3

LEMMA SizeOfCells ==
  ASSUME NEW x, NEW n \in Nat
  PROVE  IsFiniteSet({x} \X (1..n)) /\ Cardinality({x} \X (1..n)) = n
<1>1. IsFiniteSet(1..n) /\ Cardinality(1..n) = n
  BY FS_Interval
<1>2. IsFiniteSet({x}) /\ Cardinality({x}) = 1
  BY FS_Singleton
<1>3. IsFiniteSet({x} \X (1..n)) /\ Cardinality({x} \X (1..n)) = 1 * n
  BY <1>1, <1>2, FS_Product
<1> QED
  BY <1>3

LEMMA SumHasSize ==
  ASSUME NEW T, NEW C, Disjoint(T, C), NEW f, \A x \in T : f[x] = Cardinality(C[x])
  PROVE  SumFunctionOnSet(f, T) = Cardinality(AllOf(T, C))
<1> DEFINE g == CHOOSE g : IsSum(g, f, T)
<1>1. IsSum(g, f, T)
  BY SumExists
<1>2. SumFunctionOnSet(f, T) = g[T]
  BY DEF SumFunctionOnSet, FoldFunctionOnSet, MapThenFoldSet, IsSum, OneOf
<1> HIDE DEF g
<1> QED
  BY <1>1, <1>2, SumIsSize

(***************************************************************************)
(* The registry.  The tally of a set of metrics is what they have counted, *)
(* for a histogram its count; a metric that is not there has counted       *)
(* nothing.                                                                *)
(***************************************************************************)
Kinds == {"agent", "llm", "internal"}
Statuses == {"OK", "ERROR"}
ModelNames == ToSet(Models) \cup {Nothing}
Histograms == {"span_duration_seconds", "latency_seconds"}

Keys == ({"spans_total"} \X Kinds \X Statuses) \cup ({"requests_total"} \X ModelNames \X Statuses)
          \cup ({"span_duration_seconds"} \X Kinds)
          \cup ({"errors_total", "latency_seconds", "prompt_tokens_total",
                 "completion_tokens_total", "cost_usd_total"} \X ModelNames)

Value(reg, k) == IF k[1] \in Histograms THEN reg[k].count ELSE reg[k]

RegOK(reg) ==
    /\ IsFiniteSet(DOMAIN reg) /\ DOMAIN reg \subseteq Keys
    /\ \A k \in DOMAIN reg : /\ Value(reg, k) \in Nat
                             /\ k[1] \in Histograms => reg[k].inf = reg[k].count

Cells(reg) == [k \in DOMAIN reg |-> {k} \X (1..Value(reg, k))]

Tally(reg, W) == Cardinality(AllOf(W \cap DOMAIN reg, Cells(reg)))

LEMMA CellsAreDisjoint ==
  ASSUME NEW reg, RegOK(reg), NEW s \in SUBSET DOMAIN reg
  PROVE  /\ Disjoint(s, Cells(reg))
         /\ \A k \in s : Cardinality(Cells(reg)[k]) = Value(reg, k)
<1>1. ASSUME NEW k \in DOMAIN reg
      PROVE  IsFiniteSet(Cells(reg)[k]) /\ Cardinality(Cells(reg)[k]) = Value(reg, k)
  <2>1. Value(reg, k) \in Nat
    BY DEF RegOK
  <2>2. /\ IsFiniteSet({k} \X (1..Value(reg, k)))
        /\ Cardinality({k} \X (1..Value(reg, k))) = Value(reg, k)
    BY <2>1, SizeOfCells
  <2> QED
    BY <2>2 DEF Cells
<1>2. \A k, l \in DOMAIN reg : k # l => Cells(reg)[k] \cap Cells(reg)[l] = {}
  BY DEF Cells
<1>3. IsFiniteSet(s)
  BY FS_Subset DEF RegOK
<1> QED
  BY <1>1, <1>2, <1>3 DEF Disjoint

LEMMA TallyType ==
  ASSUME NEW reg, RegOK(reg), NEW W
  PROVE  Tally(reg, W) \in Nat
<1>1. W \cap DOMAIN reg \in SUBSET DOMAIN reg
  OBVIOUS
<1> QED
  BY <1>1, CellsAreDisjoint, OneIsLeft DEF Tally

LEMMA TallyOfOne ==
  ASSUME NEW reg, RegOK(reg), NEW k
  PROVE  Tally(reg, {k}) = IF k \in DOMAIN reg THEN Value(reg, k) ELSE 0
<1>1. CASE k \in DOMAIN reg
  <2>1. {k} \cap DOMAIN reg = {k} /\ {k} \in SUBSET DOMAIN reg /\ {k} \ {k} = {}
    BY <1>1
  <2>2. Disjoint({k}, Cells(reg)) /\ Cardinality(Cells(reg)[k]) = Value(reg, k)
    BY <2>1, CellsAreDisjoint
  <2>3. Cardinality(AllOf({k}, Cells(reg)))
          = Cardinality(Cells(reg)[k]) + Cardinality(AllOf({}, Cells(reg)))
    BY <2>1, <2>2, OneIsLeft
  <2>4. Cardinality(AllOf({}, Cells(reg))) = 0
    BY <2>2, OneIsLeft
  <2>5. Value(reg, k) \in Nat
    BY <1>1 DEF RegOK
  <2> QED
    BY <1>1, <2>1, <2>2, <2>3, <2>4, <2>5 DEF Tally
<1>2. CASE k \notin DOMAIN reg
  <2>1. {k} \cap DOMAIN reg = {} /\ {} \in SUBSET DOMAIN reg
    BY <1>2
  <2>2. Cardinality(AllOf({}, Cells(reg))) = 0
    BY <2>1, CellsAreDisjoint, OneIsLeft
  <2> QED
    BY <1>2, <2>1, <2>2 DEF Tally
<1> QED
  BY <1>1, <1>2

(* The sum of the counters of a set.                                       *)
LEMMA TallyOfCounters ==
  ASSUME NEW reg, RegOK(reg), NEW s \in SUBSET DOMAIN reg, \A k \in s : k[1] \notin Histograms
  PROVE  SumFunctionOnSet(reg, s) = Tally(reg, s)
<1>1. Disjoint(s, Cells(reg)) /\ \A k \in s : Cardinality(Cells(reg)[k]) = Value(reg, k)
  BY CellsAreDisjoint
<1>2. \A k \in s : reg[k] = Cardinality(Cells(reg)[k])
  BY <1>1 DEF Value
<1>3. SumFunctionOnSet(reg, s) = Cardinality(AllOf(s, Cells(reg)))
  BY <1>1, <1>2, SumHasSize
<1>4. s \cap DOMAIN reg = s
  OBVIOUS
<1> QED
  BY <1>3, <1>4 DEF Tally

(* One metric goes up by n, the others stay as they are.                   *)
LEMMA OneGoesUp ==
  ASSUME NEW reg, RegOK(reg), NEW new, RegOK(new), NEW key, NEW n \in Nat,
         DOMAIN new = DOMAIN reg \cup {key}, \A k \in DOMAIN reg \ {key} : new[k] = reg[k],
         Value(new, key) = (IF key \in DOMAIN reg THEN Value(reg, key) ELSE 0) + n,
         NEW W
  PROVE  Tally(new, W) = Tally(reg, W) + (IF key \in W THEN n ELSE 0)
<1> DEFINE rest == (W \cap DOMAIN reg) \ {key}
<1>1. AllOf(rest, Cells(new)) = AllOf(rest, Cells(reg))
  <2>1. \A k \in rest : Cells(new)[k] = Cells(reg)[k]
    BY DEF Cells, Value
  <2> HIDE DEF rest
  <2> QED
    BY <2>1 DEF AllOf
<1>2. Disjoint(W \cap DOMAIN new, Cells(new)) /\ Disjoint(W \cap DOMAIN reg, Cells(reg))
  BY CellsAreDisjoint
<1>3. CASE key \in W
  <2>1. key \in W \cap DOMAIN new /\ (W \cap DOMAIN new) \ {key} = rest
    BY <1>3
  <2>2. Cardinality(Cells(new)[key]) = Value(new, key)
    BY <2>1, CellsAreDisjoint
  <2>3. Tally(new, W) = Value(new, key) + Cardinality(AllOf(rest, Cells(new)))
    BY <1>2, <2>1, <2>2, OneIsLeft DEF Tally
  <2>4. CASE key \in DOMAIN reg
    <3>1. key \in W \cap DOMAIN reg
      BY <1>3, <2>4
    <3>2. Cardinality(Cells(reg)[key]) = Value(reg, key)
      BY <2>4, CellsAreDisjoint
    <3>3. Tally(reg, W) = Value(reg, key) + Cardinality(AllOf(rest, Cells(reg)))
      BY <1>2, <3>1, <3>2, OneIsLeft DEF Tally
    <3>4. rest \in SUBSET (W \cap DOMAIN reg)
      OBVIOUS
    <3>5. Cardinality(AllOf(rest, Cells(reg))) \in Nat
      BY <1>2, <3>4, CellsAreDisjoint, OneIsLeft
    <3>6. Value(reg, key) \in Nat
      BY <2>4 DEF RegOK
    <3> HIDE DEF rest
    <3> QED
      BY <1>1, <1>3, <2>3, <2>4, <3>3, <3>5, <3>6
  <2>5. CASE key \notin DOMAIN reg
    <3>1. rest = W \cap DOMAIN reg
      BY <2>5
    <3>2. Tally(reg, W) = Cardinality(AllOf(rest, Cells(reg))) /\ Tally(reg, W) \in Nat
      BY <3>1, TallyType DEF Tally
    <3> HIDE DEF rest
    <3> QED
      BY <1>1, <1>3, <2>3, <2>5, <3>2
  <2> QED
    BY <2>4, <2>5
<1>4. CASE key \notin W
  <2>1. W \cap DOMAIN new = rest /\ W \cap DOMAIN reg = rest
    BY <1>4
  <2>2. Tally(new, W) = Tally(reg, W)
    BY <1>1, <2>1 DEF Tally
  <2> QED
    BY <1>4, <2>2, TallyType
<1> QED
  BY <1>3, <1>4

(* What each update makes of the registry.                                 *)
UpdateOK(up) ==
    /\ up.type \in {"inc", "observe", "fails"} /\ up.key \in Keys
    /\ up.type = "observe" <=> up.key[1] \in Histograms
    /\ up.type = "inc" => up.by \in Nat

Amount(up) == IF up.type = "inc" THEN up.by ELSE IF up.type = "observe" THEN 1 ELSE 0

LEMMA ApplyCounts ==
  ASSUME NEW reg, RegOK(reg), NEW up, UpdateOK(up)
  PROVE  /\ RegOK(Apply(reg, up)) /\ Amount(up) \in Nat
         /\ \A W : Tally(Apply(reg, up), W)
                     = Tally(reg, W) + (IF up.key \in W THEN Amount(up) ELSE 0)
<1> DEFINE key == up.key
           value == IF up.type = "observe" THEN [count |-> HistogramOf(reg, key).count + 1,
                                                 inf |-> HistogramOf(reg, key).inf + 1]
                    ELSE CounterOf(reg, key) + Amount(up)
           new == Put(reg, key, value)
<1>1. Amount(up) \in Nat
  BY DEF UpdateOK, Amount
<1>2. Apply(reg, up) = new
  BY DEF UpdateOK, Apply, Observe, Inc, Amount
<1>3. DOMAIN new = DOMAIN reg \cup {key} /\ \A k \in DOMAIN reg \ {key} : new[k] = reg[k]
  BY DEF Put
<1>4. new[key] = value
  BY DEF Put
<1>5. /\ Value(new, key) = (IF key \in DOMAIN reg THEN Value(reg, key) ELSE 0) + Amount(up)
      /\ key[1] \in Histograms => new[key].inf = new[key].count
  <2> HIDE DEF new
  <2>1. CASE up.type = "observe"
    <3>1. key[1] \in Histograms /\ Amount(up) = 1
      BY <2>1 DEF UpdateOK, Amount
    <3>2. /\ HistogramOf(reg, key).count = IF key \in DOMAIN reg THEN Value(reg, key) ELSE 0
          /\ HistogramOf(reg, key).inf = HistogramOf(reg, key).count
      BY <3>1 DEF HistogramOf, RegOK, Value
    <3> QED
      BY <1>4, <2>1, <3>1, <3>2 DEF Value
  <2>2. CASE up.type # "observe"
    <3>1. key[1] \notin Histograms
      BY <2>2 DEF UpdateOK
    <3>2. CounterOf(reg, key) = IF key \in DOMAIN reg THEN Value(reg, key) ELSE 0
      BY <3>1 DEF CounterOf, Value
    <3> QED
      BY <1>4, <2>2, <3>1, <3>2 DEF Value
  <2> QED
    BY <2>1, <2>2
<1> HIDE DEF new, value
<1>6. RegOK(new)
  <2>1. IsFiniteSet(DOMAIN new)
    BY <1>3, FS_AddElement DEF RegOK
  <2>2. DOMAIN new \subseteq Keys
    BY <1>3 DEF RegOK, UpdateOK
  <2>3. Value(new, key) \in Nat
    BY <1>1, <1>5 DEF RegOK
  <2>4. ASSUME NEW k \in DOMAIN new, k # key
        PROVE  Value(new, k) \in Nat /\ (k[1] \in Histograms => new[k].inf = new[k].count)
    BY <1>3, <2>4 DEF RegOK, Value
  <2> QED
    BY <1>5, <2>1, <2>2, <2>3, <2>4 DEF RegOK
<1>7. ASSUME NEW W
      PROVE  Tally(new, W) = Tally(reg, W) + (IF key \in W THEN Amount(up) ELSE 0)
  BY <1>1, <1>3, <1>5, <1>6, OneGoesUp
<1> QED
  BY <1>1, <1>2, <1>6, <1>7

(***************************************************************************)
(* bridge_span: the registry after each update, or, if one has failed, as  *)
(* it was left.                                                            *)
(***************************************************************************)
Onward(last, up) ==
    IF last.failed THEN last
    ELSE [reg |-> Apply(last.reg, up), failed |-> up.type = "fails"]

IsBridging(f, reg, ups, n) ==
    f = [k \in 0..n |-> IF k = 0 THEN [reg |-> reg, failed |-> FALSE]
                        ELSE Onward(f[k - 1], ups[k])]

LEMMA BridgingExists ==
  ASSUME NEW reg, NEW ups
  PROVE  \A n \in Nat : \E f : IsBridging(f, reg, ups, n)
<1> DEFINE S == {n \in Nat : \E f : IsBridging(f, reg, ups, n)}
           Start == [reg |-> reg, failed |-> FALSE]
<1>1. 0 \in S
  <2>1. IsBridging([k \in 0..0 |-> Start], reg, ups, 0)
    BY DEF IsBridging
  <2> QED
    BY <2>1
<1>2. ASSUME NEW n \in Nat, n \in S PROVE n + 1 \in S
  <2>1. PICK f : IsBridging(f, reg, ups, n)
    BY <1>2
  <2> DEFINE g == [k \in 0..(n + 1) |-> IF k = n + 1 THEN Onward(f[n], ups[n + 1]) ELSE f[k]]
  <2>2. \A k \in 0..n : g[k] = f[k]
    OBVIOUS
  <2>3. ASSUME NEW k \in 0..(n + 1)
        PROVE  g[k] = IF k = 0 THEN Start ELSE Onward(g[k - 1], ups[k])
    <3>1. CASE k = n + 1
      <4>1. k # 0 /\ k - 1 = n /\ n \in 0..n
        BY <3>1
      <4>2. g[k] = Onward(f[n], ups[n + 1]) /\ g[k - 1] = f[n]
        BY <3>1, <4>1, <2>2
      <4> QED
        BY <3>1, <4>1, <4>2
    <3>2. CASE k # n + 1
      <4>1. k \in 0..n /\ (k # 0 => k - 1 \in 0..n)
        BY <3>2
      <4>2. f[k] = IF k = 0 THEN Start ELSE Onward(f[k - 1], ups[k])
        BY <2>1, <4>1 DEF IsBridging
      <4>3. g[k] = f[k] /\ (k # 0 => g[k - 1] = f[k - 1])
        BY <2>2, <4>1
      <4> HIDE DEF g, Start
      <4> QED
        BY <4>2, <4>3
    <3> QED
      BY <3>1, <3>2
  <2>4. g = [k \in 0..(n + 1) |-> g[k]]
    OBVIOUS
  <2> HIDE DEF g
  <2>5. IsBridging(g, reg, ups, n + 1)
    BY <2>3, <2>4 DEF IsBridging
  <2> QED
    BY <2>5
<1>3. Nat \subseteq S
  <2> HIDE DEF S
  <2> QED
    BY <1>1, <1>2, SetInduction
<1> QED
  BY <1>3

LEMMA BridgingOf ==
  ASSUME NEW reg, NEW s, Len(BridgeUpdates(s)) \in Nat
  PROVE  \E f : /\ BridgeSpan(reg, s) = f[Len(BridgeUpdates(s))].reg
                /\ f[0] = [reg |-> reg, failed |-> FALSE]
                /\ \A k \in 1..Len(BridgeUpdates(s)) :
                       f[k] = Onward(f[k - 1], BridgeUpdates(s)[k])
<1> DEFINE ups == BridgeUpdates(s)
           n == Len(ups)
           f == CHOOSE f : IsBridging(f, reg, ups, n)
<1>1. IsBridging(f, reg, ups, n)
  BY BridgingExists
<1>2. BridgeSpan(reg, s) = f[n].reg
  BY DEF BridgeSpan, IsBridging, Onward
<1> HIDE DEF f
<1>3. f[0] = [reg |-> reg, failed |-> FALSE]
  BY <1>1 DEF IsBridging
<1>4. ASSUME NEW k \in 1..n PROVE f[k] = Onward(f[k - 1], ups[k])
  <2>1. k \in 0..n /\ k # 0
    OBVIOUS
  <2> QED
    BY <1>1, <2>1 DEF IsBridging
<1> QED
  BY <1>2, <1>3, <1>4

(* What a span may be when it is collected, and the updates it then makes. *)
CollectedSpanOK(s) ==
    /\ s.kind \in Kinds /\ s.status \in Statuses /\ s.model \in ModelNames
    /\ s.tokens # Absent => /\ s.status = "OK"
                            /\ s.tokens.prompt \in Counts /\ s.tokens.completion \in Counts

LEMMA UpdatesOf ==
  ASSUME NEW s, CollectedSpanOK(s)
  PROVE  LET ups == BridgeUpdates(s)
         IN  /\ Len(ups) = IF s.kind # "llm" THEN 2 ELSE IF s.status = "ERROR" THEN 4
                           ELSE IF s.tokens = Absent THEN 3 ELSE 7
             /\ ups[1] = Update("inc", <<"spans_total", s.kind, s.status>>, 1)
             /\ ups[2] = Update("observe", <<"span_duration_seconds", s.kind>>, 1)
             /\ s.kind = "llm" =>
                  /\ ups[3] = Update("inc", <<"requests_total", s.model, s.status>>, 1)
                  /\ s.status = "ERROR" => ups[4] = Update("inc", <<"errors_total", s.model>>, 1)
                  /\ s.tokens # Absent =>
                       /\ ups[4] = Update("observe", <<"latency_seconds", s.model>>, 1)
                       /\ ups[5] = TokenUpdate(<<"prompt_tokens_total", s.model>>,
                                               s.tokens.prompt)
                       /\ ups[6] = TokenUpdate(<<"completion_tokens_total", s.model>>,
                                               s.tokens.completion)
                       /\ ups[7] = Update("inc", <<"cost_usd_total", s.model>>, 1)
<1>1. CASE s.kind # "llm"
  BY <1>1 DEF BridgeUpdates, CommonUpdates
<1>2. CASE s.kind = "llm" /\ s.status = "ERROR"
  <2>1. s.tokens = Absent
    BY <1>2 DEF CollectedSpanOK
  <2> QED
    BY <1>2, <2>1 DEF BridgeUpdates, CommonUpdates, RequestUpdates, ErrorUpdates,
                      ResponseUpdates
<1>3. CASE s.kind = "llm" /\ s.status # "ERROR" /\ s.tokens = Absent
  BY <1>3 DEF BridgeUpdates, CommonUpdates, RequestUpdates, ErrorUpdates, ResponseUpdates
<1>4. CASE s.kind = "llm" /\ s.status # "ERROR" /\ s.tokens # Absent
  BY <1>4 DEF BridgeUpdates, CommonUpdates, RequestUpdates, ErrorUpdates, ResponseUpdates
<1> QED
  BY <1>1, <1>2, <1>3, <1>4

LEMMA UpdatesAreOK ==
  ASSUME NEW s, CollectedSpanOK(s), NEW k \in 1..Len(BridgeUpdates(s))
  PROVE  UpdateOK(BridgeUpdates(s)[k])
<1> DEFINE ups == BridgeUpdates(s)
<1>1. /\ <<"spans_total", s.kind, s.status>> \in Keys
      /\ <<"requests_total", s.model, s.status>> \in Keys
      /\ <<"span_duration_seconds", s.kind>> \in Keys
      /\ \A name \in {"errors_total", "latency_seconds", "prompt_tokens_total",
                      "completion_tokens_total", "cost_usd_total"} :
             <<name, s.model>> \in Keys
  BY DEF Keys, CollectedSpanOK
<1>2. ASSUME NEW n \in Counts, NEW name \in {"prompt_tokens_total", "completion_tokens_total"}
      PROVE  UpdateOK(TokenUpdate(<<name, s.model>>, n))
  BY <1>1 DEF TokenUpdate, Update, UpdateOK, Histograms, Counts
<1>3. /\ UpdateOK(Update("inc", <<"spans_total", s.kind, s.status>>, 1))
      /\ UpdateOK(Update("observe", <<"span_duration_seconds", s.kind>>, 1))
      /\ UpdateOK(Update("inc", <<"requests_total", s.model, s.status>>, 1))
      /\ UpdateOK(Update("inc", <<"errors_total", s.model>>, 1))
      /\ UpdateOK(Update("observe", <<"latency_seconds", s.model>>, 1))
      /\ UpdateOK(Update("inc", <<"cost_usd_total", s.model>>, 1))
  BY <1>1 DEF Update, UpdateOK, Histograms
<1>4. s.tokens # Absent => s.tokens.prompt \in Counts /\ s.tokens.completion \in Counts
  BY DEF CollectedSpanOK
<1> HIDE DEF ups
<1>5. CASE s.kind # "llm"
  <2>1. k \in {1, 2}
    <3>1. Len(BridgeUpdates(s)) = 2
      BY <1>5, UpdatesOf
    <3> QED
      BY <3>1
  <2> QED
    BY <1>3, <2>1, UpdatesOf
<1>6. CASE s.kind = "llm" /\ s.status = "ERROR"
  <2>1. k \in {1, 2, 3, 4}
    <3>1. Len(BridgeUpdates(s)) = 4
      BY <1>6, UpdatesOf
    <3> QED
      BY <3>1
  <2> QED
    BY <1>3, <1>6, <2>1, UpdatesOf
<1>7. CASE s.kind = "llm" /\ s.status # "ERROR" /\ s.tokens = Absent
  <2>1. k \in {1, 2, 3}
    <3>1. Len(BridgeUpdates(s)) = 3
      BY <1>7, UpdatesOf
    <3> QED
      BY <3>1
  <2> QED
    BY <1>3, <1>7, <2>1, UpdatesOf
<1>8. CASE s.kind = "llm" /\ s.status # "ERROR" /\ s.tokens # Absent
  <2>1. k \in {1, 2, 3, 4, 5, 6, 7}
    <3>1. Len(BridgeUpdates(s)) = 7
      BY <1>8, UpdatesOf
    <3> QED
      BY <3>1
  <2> QED
    BY <1>2, <1>3, <1>4, <1>8, <2>1, UpdatesOf
<1> QED
  BY <1>5, <1>6, <1>7, <1>8

(* The effect of an update on what an earlier one has left.                *)
LEMMA OnwardCounts ==
  ASSUME NEW last, RegOK(last.reg), last.failed \in BOOLEAN, NEW up, UpdateOK(up)
  PROVE  LET next == Onward(last, up)
         IN  /\ RegOK(next.reg) /\ next.failed \in BOOLEAN
             /\ next.failed <=> last.failed \/ up.type = "fails"
             /\ \A W : Tally(next.reg, W) = Tally(last.reg, W)
                         + (IF ~last.failed /\ up.key \in W THEN Amount(up) ELSE 0)
<1>1. CASE last.failed
  <2>1. Onward(last, up) = last
    BY <1>1 DEF Onward
  <2>2. ASSUME NEW W PROVE Tally(last.reg, W) = Tally(last.reg, W) + 0
    BY TallyType
  <2> QED
    BY <1>1, <2>1, <2>2
<1>2. CASE ~last.failed
  <2>1. /\ Onward(last, up).reg = Apply(last.reg, up)
        /\ Onward(last, up).failed = (up.type = "fails")
    BY <1>2 DEF Onward
  <2>2. /\ RegOK(Apply(last.reg, up))
        /\ \A W : Tally(Apply(last.reg, up), W)
                    = Tally(last.reg, W) + (IF up.key \in W THEN Amount(up) ELSE 0)
    BY ApplyCounts
  <2> QED
    BY <1>2, <2>1, <2>2
<1> QED
  BY <1>1, <1>2

(* What a span adds to a set of metrics in any case: one for each metric   *)
(* that counts spans and calls.                                            *)
Usages == {"latency_seconds", "prompt_tokens_total", "completion_tokens_total", "cost_usd_total"}

One(k, W) == IF k \in W THEN 1 ELSE 0

Gain(s, W) ==
    One(<<"spans_total", s.kind, s.status>>, W) + One(<<"span_duration_seconds", s.kind>>, W)
      + (IF s.kind = "llm"
         THEN One(<<"requests_total", s.model, s.status>>, W)
                + (IF s.status = "ERROR" THEN One(<<"errors_total", s.model>>, W) ELSE 0)
         ELSE 0)

Named(name) == {k \in Keys : k[1] = name}

NumbersOf(s) == HasTokens(s) => s.tokens.prompt # Malformed /\ s.tokens.completion # Malformed

LEMMA BridgeCounts ==
  ASSUME NEW reg, RegOK(reg), NEW s, CollectedSpanOK(s)
  PROVE  LET new == BridgeSpan(reg, s)
         IN  /\ RegOK(new)
             /\ \A W : (\A k \in W : k[1] \notin Usages)
                         => Tally(new, W) = Tally(reg, W) + Gain(s, W)
             /\ s.kind # "llm" =>
                  \A name \in {"prompt_tokens_total", "completion_tokens_total"} :
                      Tally(new, Named(name)) = Tally(reg, Named(name))
             /\ s.kind = "llm" /\ NumbersOf(s) =>
                  /\ Tally(new, Named("prompt_tokens_total"))
                       = Tally(reg, Named("prompt_tokens_total")) + PromptOf(s)
                  /\ Tally(new, Named("completion_tokens_total"))
                       = Tally(reg, Named("completion_tokens_total")) + CompletionOf(s)
<1> DEFINE ups == BridgeUpdates(s)
           n == Len(ups)
<1>1. n \in {2, 3, 4, 7}
  BY UpdatesOf
<1>2. PICK f : /\ BridgeSpan(reg, s) = f[n].reg
               /\ f[0] = [reg |-> reg, failed |-> FALSE]
               /\ \A k \in 1..n : f[k] = Onward(f[k - 1], ups[k])
  BY <1>1, BridgingOf
<1>3. \A k \in 1..n : UpdateOK(ups[k])
  BY UpdatesAreOK
<1> DEFINE S == {k \in Nat : k <= n => RegOK(f[k].reg) /\ f[k].failed \in BOOLEAN}
<1>4. Nat \subseteq S
  <2>1. 0 \in S
    <3>1. f[0].reg = reg /\ f[0].failed = FALSE
      BY <1>2
    <3> QED
      BY <3>1
  <2>2. ASSUME NEW k \in Nat, k \in S PROVE k + 1 \in S
    <3> SUFFICES ASSUME k + 1 <= n PROVE RegOK(f[k + 1].reg) /\ f[k + 1].failed \in BOOLEAN
      OBVIOUS
    <3>1. k + 1 \in 1..n /\ (k + 1) - 1 = k /\ k <= n
      BY <1>1
    <3>2. f[k + 1] = Onward(f[k], ups[k + 1]) /\ UpdateOK(ups[k + 1])
      BY <1>2, <1>3, <3>1
    <3>3. RegOK(f[k].reg) /\ f[k].failed \in BOOLEAN
      BY <2>2, <3>1
    <3> QED
      BY <3>2, <3>3, OnwardCounts
  <2> HIDE DEF S
  <2> QED
    BY <2>1, <2>2, SetInduction
<1>5. ASSUME NEW k \in 1..n
      PROVE  /\ f[k].failed <=> f[k - 1].failed \/ ups[k].type = "fails"
             /\ \A W : Tally(f[k].reg, W) = Tally(f[k - 1].reg, W)
                         + (IF ~f[k - 1].failed /\ ups[k].key \in W THEN Amount(ups[k]) ELSE 0)
  <2>1. k - 1 \in Nat /\ k - 1 <= n
    BY <1>1
  <2>2. RegOK(f[k - 1].reg) /\ f[k - 1].failed \in BOOLEAN
    BY <1>4, <2>1
  <2>3. f[k] = Onward(f[k - 1], ups[k]) /\ UpdateOK(ups[k])
    BY <1>2, <1>3
  <2> HIDE DEF ups, n, S
  <2>4. LET next == Onward(f[k - 1], ups[k])
        IN  /\ next.failed <=> f[k - 1].failed \/ ups[k].type = "fails"
            /\ \A W : Tally(next.reg, W) = Tally(f[k - 1].reg, W)
                        + (IF ~f[k - 1].failed /\ ups[k].key \in W THEN Amount(ups[k]) ELSE 0)
    BY <2>2, <2>3, OnwardCounts
  <2> QED
    BY <2>3, <2>4
<1>6. RegOK(f[n].reg)
  <2>1. n \in Nat /\ n <= n
    BY <1>1
  <2> QED
    BY <1>4, <2>1
<1>7. \A k \in 0..n : \A W : Tally(f[k].reg, W) \in Nat
  <2>1. ASSUME NEW k \in 0..n, NEW W PROVE Tally(f[k].reg, W) \in Nat
    <3>1. k \in Nat /\ k <= n
      BY <1>1
    <3>2. RegOK(f[k].reg)
      BY <1>4, <3>1
    <3> QED
      BY <3>2, TallyType
  <2> QED
    BY <2>1
<1> HIDE DEF S
<1>8. /\ ~f[0].failed /\ f[0].reg = reg
      /\ ~f[1].failed
      /\ \A W : Tally(f[1].reg, W) = Tally(f[0].reg, W)
                                       + One(<<"spans_total", s.kind, s.status>>, W)
  <2>1. ups[1] = Update("inc", <<"spans_total", s.kind, s.status>>, 1)
    BY UpdatesOf
  <2> HIDE DEF ups, n
  <2>2. 1 \in 1..n /\ 1 - 1 = 0
    BY <1>1
  <2> QED
    BY <1>2, <1>5, <2>1, <2>2 DEF Update, Amount, One
<1>9. /\ ~f[2].failed
      /\ \A W : Tally(f[2].reg, W) = Tally(f[1].reg, W)
                                       + One(<<"span_duration_seconds", s.kind>>, W)
  <2>1. ups[2] = Update("observe", <<"span_duration_seconds", s.kind>>, 1)
    BY UpdatesOf
  <2> HIDE DEF ups, n
  <2>2. 2 \in 1..n /\ 2 - 1 = 1
    BY <1>1
  <2> QED
    BY <1>5, <1>8, <2>1, <2>2 DEF Update, Amount, One
<1>10. ASSUME s.kind = "llm"
       PROVE  /\ ~f[3].failed
              /\ \A W : Tally(f[3].reg, W) = Tally(f[2].reg, W)
                                               + One(<<"requests_total", s.model, s.status>>, W)
  <2>1. 3 \in 1..n /\ 3 - 1 = 2
    <3>1. n = IF s.status = "ERROR" THEN 4 ELSE IF s.tokens = Absent THEN 3 ELSE 7
      BY <1>10, UpdatesOf
    <3> QED
      BY <3>1
  <2>2. ups[3] = Update("inc", <<"requests_total", s.model, s.status>>, 1)
    BY <1>10, UpdatesOf
  <2> HIDE DEF ups, n
  <2> QED
    BY <1>5, <1>9, <2>1, <2>2 DEF Update, Amount, One
<1>11. ASSUME NEW name \in {"prompt_tokens_total", "completion_tokens_total"}
       PROVE  /\ One(<<"spans_total", s.kind, s.status>>, Named(name)) = 0
              /\ One(<<"span_duration_seconds", s.kind>>, Named(name)) = 0
              /\ One(<<"requests_total", s.model, s.status>>, Named(name)) = 0
              /\ One(<<"errors_total", s.model>>, Named(name)) = 0
  BY DEF One, Named
<1>12. \A k \in Keys : \A W : One(k, W) \in {0, 1}
  BY DEF One
<1> DEFINE T(k, W) == Tally(f[k].reg, W)
<1>13. ASSUME NEW W
       PROVE  /\ T(0, W) = Tally(reg, W)
              /\ T(1, W) = T(0, W) + One(<<"spans_total", s.kind, s.status>>, W)
              /\ T(2, W) = T(1, W) + One(<<"span_duration_seconds", s.kind>>, W)
              /\ s.kind = "llm" =>
                   T(3, W) = T(2, W) + One(<<"requests_total", s.model, s.status>>, W)
  BY <1>8, <1>9, <1>10
<1>14. ASSUME NEW W
       PROVE  /\ T(0, W) \in Nat /\ One(<<"spans_total", s.kind, s.status>>, W) \in Nat
              /\ One(<<"span_duration_seconds", s.kind>>, W) \in Nat
              /\ One(<<"requests_total", s.model, s.status>>, W) \in Nat
              /\ One(<<"errors_total", s.model>>, W) \in Nat
  <2> HIDE DEF ups, n
  <2>1. 0 \in 0..n
    BY <1>1
  <2> QED
    BY <1>7, <2>1 DEF One
<1>15. CASE s.kind # "llm"
  <2>1. n = 2
    BY <1>15, UpdatesOf
  <2>2. BridgeSpan(reg, s) = f[2].reg /\ RegOK(f[2].reg)
    BY <1>2, <1>6, <2>1
  <2> HIDE DEF ups, n, T
  <2>3. ASSUME NEW W PROVE T(2, W) = Tally(reg, W) + Gain(s, W)
    BY <1>13, <1>14, <1>15 DEF Gain
  <2>4. ASSUME NEW name \in {"prompt_tokens_total", "completion_tokens_total"}
        PROVE  T(2, Named(name)) = Tally(reg, Named(name))
    BY <1>11, <1>13, <1>14
  <2> QED
    BY <1>15, <2>2, <2>3, <2>4 DEF T
<1>16. CASE s.kind = "llm" /\ s.status = "ERROR"
  <2>1. n = 4 /\ ups[4] = Update("inc", <<"errors_total", s.model>>, 1)
    BY <1>16, UpdatesOf
  <2>2. BridgeSpan(reg, s) = f[4].reg /\ RegOK(f[4].reg)
    BY <1>2, <1>6, <2>1
  <2>3. 4 \in 1..n /\ 4 - 1 = 3 /\ ~f[3].failed
    BY <1>10, <1>16, <2>1
  <2> HIDE DEF ups, n
  <2>4. ASSUME NEW W PROVE T(4, W) = T(3, W) + One(<<"errors_total", s.model>>, W)
    BY <1>5, <2>1, <2>3 DEF Update, Amount, One
  <2> HIDE DEF T
  <2>5. ASSUME NEW W PROVE T(4, W) = Tally(reg, W) + Gain(s, W)
    BY <1>13, <1>14, <1>16, <2>4 DEF Gain
  <2>6. ASSUME NEW name \in {"prompt_tokens_total", "completion_tokens_total"}
        PROVE  T(4, Named(name)) = Tally(reg, Named(name)) + 0
    BY <1>11, <1>13, <1>14, <1>16, <2>4
  <2>7. PromptOf(s) = 0 /\ CompletionOf(s) = 0
    BY <1>16 DEF CollectedSpanOK, PromptOf, CompletionOf, HasTokens
  <2> QED
    BY <1>16, <2>2, <2>5, <2>6, <2>7 DEF T
<1>17. CASE s.kind = "llm" /\ s.status # "ERROR" /\ s.tokens = Absent
  <2>1. n = 3
    BY <1>17, UpdatesOf
  <2>2. BridgeSpan(reg, s) = f[3].reg /\ RegOK(f[3].reg)
    BY <1>2, <1>6, <2>1
  <2> HIDE DEF ups, n, T
  <2>3. ASSUME NEW W PROVE T(3, W) = Tally(reg, W) + Gain(s, W)
    BY <1>13, <1>14, <1>17 DEF Gain
  <2>4. ASSUME NEW name \in {"prompt_tokens_total", "completion_tokens_total"}
        PROVE  T(3, Named(name)) = Tally(reg, Named(name)) + 0
    BY <1>11, <1>13, <1>14, <1>17
  <2>5. PromptOf(s) = 0 /\ CompletionOf(s) = 0
    BY <1>17 DEF PromptOf, CompletionOf, HasTokens
  <2> QED
    BY <1>17, <2>2, <2>3, <2>4, <2>5 DEF T
<1>18. CASE s.kind = "llm" /\ s.status # "ERROR" /\ s.tokens # Absent
  <2>1. n = 7
    BY <1>18, UpdatesOf
  <2>2. BridgeSpan(reg, s) = f[7].reg /\ RegOK(f[7].reg)
    BY <1>2, <1>6, <2>1
  <2>3. /\ ups[4] = Update("observe", <<"latency_seconds", s.model>>, 1)
        /\ ups[5] = TokenUpdate(<<"prompt_tokens_total", s.model>>, s.tokens.prompt)
        /\ ups[6] = TokenUpdate(<<"completion_tokens_total", s.model>>, s.tokens.completion)
        /\ ups[7] = Update("inc", <<"cost_usd_total", s.model>>, 1)
    BY <1>18, UpdatesOf
  <2>4. /\ {4, 5, 6, 7} \subseteq 1..n
        /\ 4 - 1 = 3 /\ 5 - 1 = 4 /\ 6 - 1 = 5 /\ 7 - 1 = 6 /\ ~f[3].failed
    BY <1>10, <1>18, <2>1
  <2> HIDE DEF ups, n
  <2>5. /\ \A k \in {4, 5, 6, 7} : ups[k].key[1] \in Usages
        /\ ups[4].key = <<"latency_seconds", s.model>>
        /\ ups[5].key = <<"prompt_tokens_total", s.model>>
        /\ ups[6].key = <<"completion_tokens_total", s.model>>
        /\ ups[7].key = <<"cost_usd_total", s.model>>
    BY <2>3 DEF Update, TokenUpdate, Usages
  <2>6. ASSUME NEW W, NEW k \in {4, 5, 6, 7}, ups[k].key \notin W
        PROVE  T(k, W) = T(k - 1, W) + 0
    BY <1>5, <2>4, <2>6
  <2>7. ASSUME NEW W, \A k \in W : k[1] \notin Usages
        PROVE  T(7, W) = Tally(reg, W) + Gain(s, W)
    <3>1. \A k \in {4, 5, 6, 7} : ups[k].key \notin W
      BY <2>5, <2>7
    <3>2. T(4, W) = T(3, W) + 0 /\ T(5, W) = T(4, W) + 0 /\ T(6, W) = T(5, W) + 0
          /\ T(7, W) = T(6, W) + 0
      BY <2>4, <2>6, <3>1
    <3> HIDE DEF T
    <3> QED
      BY <1>13, <1>14, <1>18, <3>2 DEF Gain
  <2>8. ASSUME NumbersOf(s)
        PROVE  /\ ~f[4].failed /\ ~f[5].failed
               /\ s.tokens.prompt \in Nat /\ s.tokens.completion \in Nat
               /\ ups[5].type = "inc" /\ ups[5].by = s.tokens.prompt
               /\ ups[6].type = "inc" /\ ups[6].by = s.tokens.completion
    <3>1. s.tokens.prompt \in Nat /\ s.tokens.completion \in Nat
      BY <1>18, <2>8 DEF NumbersOf, HasTokens, CollectedSpanOK, Counts
    <3>2. /\ ups[5].type = "inc" /\ ups[5].by = s.tokens.prompt
          /\ ups[6].type = "inc" /\ ups[6].by = s.tokens.completion
      BY <1>18, <2>3, <2>8 DEF Update, TokenUpdate, NumbersOf, HasTokens
    <3>3. ~f[4].failed
      BY <1>5, <2>3, <2>4 DEF Update
    <3>4. ~f[5].failed
      BY <1>5, <2>4, <3>2, <3>3
    <3> QED
      BY <3>1, <3>2, <3>3, <3>4
  <2>9. ASSUME NumbersOf(s), NEW name \in {"prompt_tokens_total", "completion_tokens_total"}
        PROVE  T(7, Named(name))
                 = Tally(reg, Named(name))
                     + (IF name = "prompt_tokens_total" THEN s.tokens.prompt
                                                        ELSE s.tokens.completion)
    <3> DEFINE W == Named(name)
    <3>1. ups[4].key \notin W /\ ups[7].key \notin W
      BY <2>5 DEF Named
    <3>2. /\ ups[5].key \in W <=> name = "prompt_tokens_total"
          /\ ups[6].key \in W <=> name = "completion_tokens_total"
      <4>1. ups[5].key \in Keys /\ ups[6].key \in Keys
        BY <1>3, <2>4 DEF UpdateOK
      <4> QED
        BY <2>5, <4>1 DEF Named
    <3> HIDE DEF W
    <3>3. T(4, W) = T(3, W) + 0 /\ T(7, W) = T(6, W) + 0
      BY <2>4, <2>6, <3>1
    <3>4. T(5, W) = T(4, W) + (IF name = "prompt_tokens_total" THEN s.tokens.prompt ELSE 0)
      BY <1>5, <2>4, <2>8, <2>9, <3>2 DEF Amount
    <3>5. T(6, W) = T(5, W)
                      + (IF name = "completion_tokens_total" THEN s.tokens.completion ELSE 0)
      BY <1>5, <2>4, <2>8, <2>9, <3>2 DEF Amount
    <3>6. T(3, W) = Tally(reg, W) + 0
      <4> HIDE DEF T
      <4> QED
        BY <1>11, <1>13, <1>14, <1>18 DEF W
    <3>7. T(0, W) \in Nat /\ T(0, W) = Tally(reg, W)
      BY <1>13, <1>14
    <3>8. s.tokens.prompt \in Nat /\ s.tokens.completion \in Nat
      BY <2>8, <2>9
    <3> HIDE DEF T
    <3>9. T(7, W) = Tally(reg, W) + (IF name = "prompt_tokens_total" THEN s.tokens.prompt
                                                                     ELSE s.tokens.completion)
      BY <3>3, <3>4, <3>5, <3>6, <3>7, <3>8
    <3> QED
      BY <3>9 DEF W
  <2>10. PromptOf(s) = s.tokens.prompt /\ CompletionOf(s) = s.tokens.completion
    BY <1>18 DEF PromptOf, CompletionOf, HasTokens
  <2> QED
    BY <1>18, <2>2, <2>7, <2>9, <2>10 DEF T
<1> QED
  BY <1>15, <1>16, <1>17, <1>18

(***************************************************************************)
(* The invariant of the metrics.  Without reference to the traces: each    *)
(* metric that counts calls adds up with the one that counts spans.  As    *)
(* long as nobody interferes, moreover: they count what is collected.      *)
(***************************************************************************)
RequestsWith(st) == {k \in Named("requests_total") : k[3] = st}
SpansOfKind(kind) == {k \in Named("spans_total") : k[2] = kind}
SpansWith(st) == {k \in Named("spans_total") : k[3] = st}

Adds(reg) ==
    /\ RegOK(reg)
    /\ \A st \in Statuses :
         Tally(reg, RequestsWith(st)) = Tally(reg, {<<"spans_total", "llm", st>>})
    /\ \A m \in ModelNames :
         Tally(reg, {<<"errors_total", m>>}) = Tally(reg, {<<"requests_total", m, "ERROR">>})
    /\ \A kind \in Kinds :
         Tally(reg, {<<"span_duration_seconds", kind>>}) = Tally(reg, SpansOfKind(kind))

AllPrompts(C) == UNION {{s} \X (1..PromptOf(s)) : s \in LlmSpans(C)}
AllCompletions(C) == UNION {{s} \X (1..CompletionOf(s)) : s \in LlmSpans(C)}

Failed(C) == {s \in C : s.status = "ERROR"}

Tells(reg, C) ==
    /\ Tally(reg, Named("requests_total")) = Cardinality(LlmSpans(C))
    /\ Tally(reg, SpansWith("ERROR")) = Cardinality(Failed(C))
    /\ (\A s \in LlmSpans(C) : NumbersOf(s)) =>
         /\ IsFiniteSet(AllPrompts(C)) /\ IsFiniteSet(AllCompletions(C))
         /\ Tally(reg, Named("prompt_tokens_total")) = Cardinality(AllPrompts(C))
         /\ Tally(reg, Named("completion_tokens_total")) = Cardinality(AllCompletions(C))

SpansAreOK(C) == IsFiniteSet(C) /\ \A s \in C : CollectedSpanOK(s)

LEMMA GainsAgree ==
  ASSUME NEW s, CollectedSpanOK(s)
  PROVE  /\ \A st \in Statuses : Gain(s, RequestsWith(st)) = Gain(s, {<<"spans_total", "llm", st>>})
         /\ \A m \in ModelNames :
              Gain(s, {<<"errors_total", m>>}) = Gain(s, {<<"requests_total", m, "ERROR">>})
         /\ \A kind \in Kinds :
              Gain(s, {<<"span_duration_seconds", kind>>}) = Gain(s, SpansOfKind(kind))
         /\ Gain(s, Named("requests_total")) = IF s.kind = "llm" THEN 1 ELSE 0
         /\ Gain(s, SpansWith("ERROR")) = IF s.status = "ERROR" THEN 1 ELSE 0
<1> DEFINE spans == <<"spans_total", s.kind, s.status>>
           dur == <<"span_duration_seconds", s.kind>>
           req == <<"requests_total", s.model, s.status>>
           err == <<"errors_total", s.model>>
<1>1. /\ spans[1] = "spans_total" /\ spans[2] = s.kind /\ spans[3] = s.status
      /\ dur[1] = "span_duration_seconds" /\ dur[2] = s.kind
      /\ req[1] = "requests_total" /\ req[2] = s.model /\ req[3] = s.status
      /\ err[1] = "errors_total" /\ err[2] = s.model
  OBVIOUS
<1>2. spans \in Keys /\ dur \in Keys /\ req \in Keys /\ err \in Keys
  BY DEF Keys, CollectedSpanOK
<1>3. \A W : Gain(s, W) = One(spans, W) + One(dur, W)
                 + (IF s.kind = "llm"
                    THEN One(req, W) + (IF s.status = "ERROR" THEN One(err, W) ELSE 0) ELSE 0)
  BY DEF Gain
<1>4. ASSUME NEW st \in Statuses
      PROVE  Gain(s, RequestsWith(st)) = Gain(s, {<<"spans_total", "llm", st>>})
  <2> DEFINE R == RequestsWith(st)
             S == {<<"spans_total", "llm", st>>}
  <2>1. /\ One(spans, R) = 0 /\ One(dur, R) = 0 /\ One(err, R) = 0
        /\ One(req, R) = IF s.status = st THEN 1 ELSE 0
    BY <1>1, <1>2 DEF One, RequestsWith, Named
  <2>2. /\ One(dur, S) = 0 /\ One(err, S) = 0 /\ One(req, S) = 0
        /\ One(spans, S) = IF s.kind = "llm" /\ s.status = st THEN 1 ELSE 0
    BY DEF One
  <2> HIDE DEF R, S, spans, dur, req, err
  <2> QED
    BY <1>3, <2>1, <2>2 DEF R, S
<1>5. ASSUME NEW m \in ModelNames
      PROVE  Gain(s, {<<"errors_total", m>>}) = Gain(s, {<<"requests_total", m, "ERROR">>})
  <2> DEFINE R == {<<"errors_total", m>>}
             S == {<<"requests_total", m, "ERROR">>}
  <2>1. /\ One(spans, R) = 0 /\ One(dur, R) = 0 /\ One(req, R) = 0
        /\ One(err, R) = IF s.model = m THEN 1 ELSE 0
    BY DEF One
  <2>2. /\ One(spans, S) = 0 /\ One(dur, S) = 0 /\ One(err, S) = 0
        /\ One(req, S) = IF s.model = m /\ s.status = "ERROR" THEN 1 ELSE 0
    BY DEF One
  <2> HIDE DEF R, S, spans, dur, req, err
  <2> QED
    BY <1>3, <2>1, <2>2 DEF R, S
<1>6. ASSUME NEW kind \in Kinds
      PROVE  Gain(s, {<<"span_duration_seconds", kind>>}) = Gain(s, SpansOfKind(kind))
  <2> DEFINE R == {<<"span_duration_seconds", kind>>}
             S == SpansOfKind(kind)
  <2>1. /\ One(spans, R) = 0 /\ One(err, R) = 0 /\ One(req, R) = 0
        /\ One(dur, R) = IF s.kind = kind THEN 1 ELSE 0
    BY DEF One
  <2>2. /\ One(req, S) = 0 /\ One(dur, S) = 0 /\ One(err, S) = 0
        /\ One(spans, S) = IF s.kind = kind THEN 1 ELSE 0
    BY <1>1, <1>2 DEF One, SpansOfKind, Named
  <2> HIDE DEF R, S, spans, dur, req, err
  <2> QED
    BY <1>3, <2>1, <2>2 DEF R, S
<1>7. Gain(s, Named("requests_total")) = IF s.kind = "llm" THEN 1 ELSE 0
  <2> DEFINE R == Named("requests_total")
  <2>1. One(spans, R) = 0 /\ One(dur, R) = 0 /\ One(err, R) = 0 /\ One(req, R) = 1
    BY <1>1, <1>2 DEF One, Named
  <2> HIDE DEF R, spans, dur, req, err
  <2> QED
    BY <1>3, <2>1 DEF R
<1>8. Gain(s, SpansWith("ERROR")) = IF s.status = "ERROR" THEN 1 ELSE 0
  <2> DEFINE R == SpansWith("ERROR")
  <2>1. /\ One(req, R) = 0 /\ One(dur, R) = 0 /\ One(err, R) = 0
        /\ One(spans, R) = IF s.status = "ERROR" THEN 1 ELSE 0
    BY <1>1, <1>2 DEF One, SpansWith, Named
  <2> HIDE DEF R, spans, dur, req, err
  <2> QED
    BY <1>3, <2>1 DEF R
<1> QED
  BY <1>4, <1>5, <1>6, <1>7, <1>8

LEMMA BridgeAdds ==
  ASSUME NEW reg, Adds(reg), NEW s, CollectedSpanOK(s)
  PROVE  Adds(BridgeSpan(reg, s))
<1> DEFINE new == BridgeSpan(reg, s)
<1>1. RegOK(reg)
  BY DEF Adds
<1>2. /\ RegOK(new)
      /\ \A W : (\A k \in W : k[1] \notin Usages) => Tally(new, W) = Tally(reg, W) + Gain(s, W)
  BY <1>1, BridgeCounts
<1> HIDE DEF new
<1>3. ASSUME NEW st \in Statuses
      PROVE  Tally(new, RequestsWith(st)) = Tally(new, {<<"spans_total", "llm", st>>})
  <2>1. /\ \A k \in RequestsWith(st) : k[1] \notin Usages
        /\ \A k \in {<<"spans_total", "llm", st>>} : k[1] \notin Usages
    BY DEF RequestsWith, Named, Usages
  <2> QED
    BY <1>2, <2>1, GainsAgree DEF Adds
<1>4. ASSUME NEW m \in ModelNames
      PROVE  Tally(new, {<<"errors_total", m>>}) = Tally(new, {<<"requests_total", m, "ERROR">>})
  <2>1. /\ \A k \in {<<"errors_total", m>>} : k[1] \notin Usages
        /\ \A k \in {<<"requests_total", m, "ERROR">>} : k[1] \notin Usages
    BY DEF Usages
  <2> QED
    BY <1>2, <2>1, GainsAgree DEF Adds
<1>5. ASSUME NEW kind \in Kinds
      PROVE  Tally(new, {<<"span_duration_seconds", kind>>}) = Tally(new, SpansOfKind(kind))
  <2>1. /\ \A k \in {<<"span_duration_seconds", kind>>} : k[1] \notin Usages
        /\ \A k \in SpansOfKind(kind) : k[1] \notin Usages
    BY DEF SpansOfKind, Named, Usages
  <2> QED
    BY <1>2, <2>1, GainsAgree DEF Adds
<1> QED
  BY <1>2, <1>3, <1>4, <1>5 DEF Adds, new

(* One more span is collected and counted.                                 *)
LEMMA OneMoreCell ==
  ASSUME NEW A, IsFiniteSet(A), NEW s, NEW n \in Nat, \A c \in A : c[1] # s
  PROVE  /\ IsFiniteSet(A \cup ({s} \X (1..n)))
         /\ Cardinality(A \cup ({s} \X (1..n))) = Cardinality(A) + n
<1>1. IsFiniteSet({s} \X (1..n)) /\ Cardinality({s} \X (1..n)) = n
  BY SizeOfCells
<1>2. A \cap ({s} \X (1..n)) = {}
  OBVIOUS
<1>3. /\ IsFiniteSet(A \cup ({s} \X (1..n)))
      /\ Cardinality(A \cup ({s} \X (1..n)))
           = Cardinality(A) + Cardinality({s} \X (1..n)) - Cardinality({})
  BY <1>1, <1>2, FS_Union
<1>4. Cardinality(A) \in Nat /\ Cardinality({}) = 0
  BY FS_CardinalityType, FS_EmptySet
<1> QED
  BY <1>1, <1>3, <1>4

LEMMA BridgeTells ==
  ASSUME NEW reg, RegOK(reg), NEW C, SpansAreOK(C), Tells(reg, C),
         NEW s, s \notin C, CollectedSpanOK(s)
  PROVE  Tells(BridgeSpan(reg, s), C \cup {s})
<1> DEFINE new == BridgeSpan(reg, s)
           D == C \cup {s}
<1>1. \A W : (\A k \in W : k[1] \notin Usages) => Tally(new, W) = Tally(reg, W) + Gain(s, W)
  BY BridgeCounts
<1>2. /\ s.kind # "llm" => \A name \in {"prompt_tokens_total", "completion_tokens_total"} :
                              Tally(new, Named(name)) = Tally(reg, Named(name))
      /\ s.kind = "llm" /\ NumbersOf(s) =>
           /\ Tally(new, Named("prompt_tokens_total"))
                = Tally(reg, Named("prompt_tokens_total")) + PromptOf(s)
           /\ Tally(new, Named("completion_tokens_total"))
                = Tally(reg, Named("completion_tokens_total")) + CompletionOf(s)
  BY BridgeCounts
<1> HIDE DEF new
<1>3. LlmSpans(D) = IF s.kind = "llm" THEN LlmSpans(C) \cup {s} ELSE LlmSpans(C)
  BY DEF LlmSpans
<1>4. Failed(D) = IF s.status = "ERROR" THEN Failed(C) \cup {s} ELSE Failed(C)
  BY DEF Failed
<1>5. /\ IsFiniteSet(LlmSpans(C)) /\ s \notin LlmSpans(C)
      /\ IsFiniteSet(Failed(C)) /\ s \notin Failed(C)
  BY FS_Subset DEF LlmSpans, Failed, SpansAreOK
<1>6. Tally(new, Named("requests_total")) = Cardinality(LlmSpans(D))
  <2>1. \A k \in Named("requests_total") : k[1] \notin Usages
    BY DEF Named, Usages
  <2>2. Tally(new, Named("requests_total"))
          = Cardinality(LlmSpans(C)) + (IF s.kind = "llm" THEN 1 ELSE 0)
    BY <1>1, <2>1, GainsAgree DEF Tells
  <2>3. Cardinality(LlmSpans(C)) \in Nat
    BY <1>5, FS_CardinalityType
  <2>4. Cardinality(LlmSpans(C) \cup {s}) = Cardinality(LlmSpans(C)) + 1
    BY <1>5, FS_AddElement
  <2> HIDE DEF D
  <2> QED
    BY <1>3, <2>2, <2>3, <2>4
<1>7. Tally(new, SpansWith("ERROR")) = Cardinality(Failed(D))
  <2>1. \A k \in SpansWith("ERROR") : k[1] \notin Usages
    BY DEF SpansWith, Named, Usages
  <2>2. Tally(new, SpansWith("ERROR"))
          = Cardinality(Failed(C)) + (IF s.status = "ERROR" THEN 1 ELSE 0)
    BY <1>1, <2>1, GainsAgree DEF Tells
  <2>3. Cardinality(Failed(C)) \in Nat
    BY <1>5, FS_CardinalityType
  <2>4. Cardinality(Failed(C) \cup {s}) = Cardinality(Failed(C)) + 1
    BY <1>5, FS_AddElement
  <2> HIDE DEF D
  <2> QED
    BY <1>4, <2>2, <2>3, <2>4
<1>8. ASSUME \A x \in LlmSpans(D) : NumbersOf(x)
      PROVE  /\ IsFiniteSet(AllPrompts(D)) /\ IsFiniteSet(AllCompletions(D))
             /\ Tally(new, Named("prompt_tokens_total")) = Cardinality(AllPrompts(D))
             /\ Tally(new, Named("completion_tokens_total")) = Cardinality(AllCompletions(D))
  <2>1. \A x \in LlmSpans(C) : NumbersOf(x)
    BY <1>3, <1>8
  <2>2. /\ IsFiniteSet(AllPrompts(C)) /\ IsFiniteSet(AllCompletions(C))
        /\ Tally(reg, Named("prompt_tokens_total")) = Cardinality(AllPrompts(C))
        /\ Tally(reg, Named("completion_tokens_total")) = Cardinality(AllCompletions(C))
    BY <2>1 DEF Tells
  <2>3. CASE s.kind # "llm"
    <3>1. AllPrompts(D) = AllPrompts(C) /\ AllCompletions(D) = AllCompletions(C)
      BY <1>3, <2>3 DEF AllPrompts, AllCompletions
    <3> HIDE DEF D
    <3> QED
      BY <1>2, <2>2, <2>3, <3>1
  <2>4. CASE s.kind = "llm"
    <3>1. /\ AllPrompts(D) = AllPrompts(C) \cup ({s} \X (1..PromptOf(s)))
          /\ AllCompletions(D) = AllCompletions(C) \cup ({s} \X (1..CompletionOf(s)))
      BY <1>3, <2>4 DEF AllPrompts, AllCompletions
    <3>2. (\A c \in AllPrompts(C) : c[1] # s) /\ (\A c \in AllCompletions(C) : c[1] # s)
      BY <1>5 DEF AllPrompts, AllCompletions
    <3>3. NumbersOf(s)
      BY <1>3, <1>8, <2>4
    <3>4. PromptOf(s) \in Nat /\ CompletionOf(s) \in Nat
      BY <3>3 DEF NumbersOf, PromptOf, CompletionOf, HasTokens, CollectedSpanOK, Counts
    <3> HIDE DEF D
    <3>5. IsFiniteSet(AllPrompts(D)) /\ Cardinality(AllPrompts(D))
                                          = Cardinality(AllPrompts(C)) + PromptOf(s)
      <4>1. /\ IsFiniteSet(AllPrompts(C) \cup ({s} \X (1..PromptOf(s))))
            /\ Cardinality(AllPrompts(C) \cup ({s} \X (1..PromptOf(s))))
                 = Cardinality(AllPrompts(C)) + PromptOf(s)
        BY <2>2, <3>2, <3>4, OneMoreCell
      <4> QED
        BY <3>1, <4>1
    <3>6. IsFiniteSet(AllCompletions(D)) /\ Cardinality(AllCompletions(D))
                                              = Cardinality(AllCompletions(C)) + CompletionOf(s)
      <4>1. /\ IsFiniteSet(AllCompletions(C) \cup ({s} \X (1..CompletionOf(s))))
            /\ Cardinality(AllCompletions(C) \cup ({s} \X (1..CompletionOf(s))))
                 = Cardinality(AllCompletions(C)) + CompletionOf(s)
        BY <2>2, <3>2, <3>4, OneMoreCell
      <4> QED
        BY <3>1, <4>1
    <3> QED
      BY <1>2, <2>2, <2>4, <3>3, <3>5, <3>6
  <2> QED
    BY <2>3, <2>4
<1> QED
  BY <1>6, <1>7, <1>8 DEF Tells, new

CountsAreOK(reg, C) == Adds(reg) /\ SpansAreOK(C) /\ (Steady => Tells(reg, C))

LEMMA ExportCounts ==
  ASSUME NEW reg, NEW C, CountsAreOK(reg, C), NEW s, s \notin C, CollectedSpanOK(s)
  PROVE  CountsAreOK(Exported(reg, s), C \cup {s})
<1>1. SpansAreOK(C \cup {s})
  BY FS_AddElement DEF CountsAreOK, SpansAreOK
<1>2. CASE hook = "bridge"
  <2>1. Exported(reg, s) = BridgeSpan(reg, s)
    BY <1>2 DEF Exported
  <2>2. Adds(BridgeSpan(reg, s))
    BY BridgeAdds DEF CountsAreOK
  <2>3. Steady => Tells(BridgeSpan(reg, s), C \cup {s})
    BY BridgeTells DEF CountsAreOK, Adds
  <2> QED
    BY <1>1, <2>1, <2>2, <2>3 DEF CountsAreOK
<1>3. CASE hook # "bridge"
  BY <1>1, <1>3 DEF CountsAreOK, Exported, Steady
<1> QED
  BY <1>2, <1>3

MetricInv == TreeInv /\ meddled \in Nat /\ CountsAreOK(metrics, collected)

(* An empty registry adds up.                                              *)
LEMMA NoMetricsAdd ==
  /\ Adds(NoMetrics)
  /\ \A W : Tally(NoMetrics, W) = 0
<1>1. DOMAIN NoMetrics = {}
  BY DEF NoMetrics
<1>2. RegOK(NoMetrics)
  BY <1>1, FS_EmptySet DEF RegOK
<1>3. ASSUME NEW W PROVE Tally(NoMetrics, W) = 0
  <2>1. {} \in SUBSET DOMAIN NoMetrics /\ W \cap DOMAIN NoMetrics = {}
    BY <1>1
  <2> QED
    BY <1>2, <2>1, CellsAreDisjoint, OneIsLeft DEF Tally
<1> QED
  BY <1>2, <1>3 DEF Adds

LEMMA MetricInvInit == Init => MetricInv
<1> SUFFICES ASSUME Init PROVE MetricInv
  OBVIOUS
<1>1. meddled = 0 /\ metrics = NoMetrics /\ collected = {}
  BY DEF Init
<1>2. Adds(metrics)
  BY <1>1, NoMetricsAdd
<1>3. SpansAreOK(collected)
  BY <1>1, FS_EmptySet DEF SpansAreOK
<1>4. Tells(metrics, collected)
  <2>1. LlmSpans({}) = {} /\ Failed({}) = {}
    BY DEF LlmSpans, Failed
  <2>2. AllPrompts({}) = {} /\ AllCompletions({}) = {}
    BY <2>1 DEF AllPrompts, AllCompletions
  <2> QED
    BY <1>1, <2>1, <2>2, NoMetricsAdd, FS_EmptySet DEF Tells
<1> QED
  BY <1>1, <1>2, <1>3, <1>4, TreeInvInit DEF MetricInv, CountsAreOK

(* The steps that collect a span have not collected it before.             *)
LEMMA FinishedIsOK ==
  ASSUME NEW s \in Spans, NEW status \in Statuses, NEW tokens,
         tokens # Absent => status = "OK" /\ tokens \in Usage
  PROVE  CollectedSpanOK(Finished(s, status, tokens))
  BY ServingAssumption DEF CollectedSpanOK, Finished, Spans, Kinds, ModelNames

LEMMA EndCallCounts ==
  ASSUME MetricInv, NEW t \in Callers, pc[t] = "calling", NEW status \in Statuses, NEW tokens,
         tokens # Absent => status = "OK" /\ tokens \in Usage,
         EndCall(t, status, tokens), UNCHANGED <<hook, meddled>>
  PROVE  CountsAreOK(metrics, collected)'
<1> DEFINE f == Finished(open[t][2], status, tokens)
           g == Finished(open[t][1], status, Absent)
<1>1. TreeInv
  BY DEF MetricInv
<1>2. CollectedSpanOK(f) /\ CollectedSpanOK(g)
  BY <1>1, SpansOfCall, FinishedIsOK
<1>3. /\ f.id = <<t, Attempt(t)>> /\ g.id = <<t, 0>> /\ Attempt(t) \in Nat \ {0}
      /\ t \in Tasks /\ t # Job
  BY <1>1, SpansOfCall DEF Finished, CallSpans, RoutingId
<1>4. collected' = collected \cup {f, g} /\ metrics' = Exported(Exported(metrics, f), g)
  BY DEF EndCall
<1> HIDE DEF f, g
<1>5. f \notin collected /\ g \notin collected /\ f # g
  BY <1>1, <1>3 DEF TreeInv, CollectedOK
<1>6. CountsAreOK(Exported(metrics, f), collected \cup {f})
  BY <1>2, <1>5, ExportCounts DEF MetricInv
<1>7. CountsAreOK(Exported(Exported(metrics, f), g), (collected \cup {f}) \cup {g})
  BY <1>2, <1>5, <1>6, ExportCounts
<1>8. (collected \cup {f}) \cup {g} = collected'
  BY <1>4
<1>9. CountsAreOK(metrics', collected')
  BY <1>4, <1>7, <1>8
<1> QED
  BY <1>9 DEF CountsAreOK, Steady

LEMMA TryNextCounts ==
  ASSUME MetricInv, NEW t \in Callers, TryNext(t)
  PROVE  CountsAreOK(metrics, collected)'
<1> DEFINE f == Finished(open[t][2], "ERROR", Absent)
<1>1. TreeInv /\ pc[t] = "calling" /\ UNCHANGED <<hook, meddled>>
  BY DEF MetricInv, TryNext, setup
<1>2. CollectedSpanOK(f)
  BY <1>1, SpansOfCall, FinishedIsOK DEF Statuses
<1>3. f.id = <<t, Attempt(t)>> /\ Attempt(t) \in Nat \ {0}
  BY <1>1, SpansOfCall DEF Finished
<1>4. collected' = collected \cup {f} /\ metrics' = Exported(metrics, f)
  BY DEF TryNext, Collect
<1> HIDE DEF f
<1>5. f \notin collected
  BY <1>1, <1>3 DEF TreeInv, CollectedOK
<1>6. CountsAreOK(metrics', collected')
  BY <1>2, <1>4, <1>5, ExportCounts DEF MetricInv
<1> QED
  BY <1>1, <1>6 DEF CountsAreOK, Steady

LEMMA EndJobCounts ==
  ASSUME MetricInv, EndJob
  PROVE  CountsAreOK(metrics, collected)'
<1> DEFINE f == Finished(open[Job][1], IF pc[Job] = "cancelling" THEN "ERROR" ELSE "OK", Absent)
<1>1. TreeInv /\ pc[Job] \in Runs /\ UNCHANGED <<hook, meddled>>
  BY DEF MetricInv, EndJob, Runs, setup
<1>2. open[Job] \in Seq(Spans) /\ Len(open[Job]) = 1 /\ open[Job][1].id = <<Job, 0>>
  BY <1>1, TaskFacts DEF TreeInv, Typed, JobOK, RoutingId
<1>3. CollectedSpanOK(f)
  <2>1. open[Job][1] \in Spans
    BY <1>2
  <2> QED
    BY <2>1, FinishedIsOK DEF Statuses
<1>4. f.id = <<Job, 0>>
  BY <1>2 DEF Finished
<1>5. collected' = collected \cup {f} /\ metrics' = Exported(metrics, f)
  BY DEF EndJob, Collect
<1> HIDE DEF f
<1>6. f \notin collected
  BY <1>1, <1>4, TaskFacts DEF TreeInv, CollectedOK, Runs
<1>7. CountsAreOK(metrics', collected')
  BY <1>3, <1>5, <1>6, ExportCounts DEF MetricInv
<1> QED
  BY <1>1, <1>7 DEF CountsAreOK, Steady

LEMMA MetricInvNext == MetricInv /\ [Next]_vars => MetricInv'
<1> SUFFICES ASSUME MetricInv, [Next]_vars PROVE MetricInv'
  OBVIOUS
<1>1. TreeInv'
  BY TreeInvNext DEF MetricInv
<1>2. ASSUME UNCHANGED <<collected, metrics, hook, meddled>>
      PROVE  meddled' \in Nat /\ CountsAreOK(metrics, collected)'
  <2>1. CountsAreOK(metrics', collected')
    BY <1>2 DEF MetricInv
  <2> QED
    BY <1>2, <2>1 DEF MetricInv, CountsAreOK, Steady
<1>3. ASSUME NEW t \in Clients, NEW q,
             \/ Unconfigured(t, q) \/ Blocked(t, q) \/ GuardFails(t, q)
             \/ RagAnswer(t, q) \/ Chat(t, q)
      PROVE  UNCHANGED <<collected, metrics, hook, meddled>>
  BY <1>3 DEF Unconfigured, Blocked, GuardFails, RagAnswer, Chat, setup, traces
<1>4. ASSUME NEW t \in Callers, GiveUp(t) \/ Cancelled(t)
      PROVE  meddled' \in Nat /\ CountsAreOK(metrics, collected)'
  <2>1. pc[t] = "calling" /\ EndCall(t, "ERROR", Absent) /\ UNCHANGED <<hook, meddled>>
    BY <1>4 DEF GiveUp, Cancelled, setup
  <2> QED
    BY <2>1, EndCallCounts DEF MetricInv, Statuses
<1>5. ASSUME NEW t \in Callers, NEW tokens \in Usage, ProviderAnswers(t, tokens)
      PROVE  meddled' \in Nat /\ CountsAreOK(metrics, collected)'
  <2>1. pc[t] = "calling" /\ EndCall(t, "OK", tokens) /\ UNCHANGED <<hook, meddled>>
    BY <1>5 DEF ProviderAnswers, setup
  <2> QED
    BY <2>1, EndCallCounts DEF MetricInv, Statuses
<1>6. ASSUME NEW t \in Callers, TryNext(t)
      PROVE  meddled' \in Nat /\ CountsAreOK(metrics, collected)'
  BY <1>6, TryNextCounts DEF TryNext, setup, MetricInv
<1>7. CASE EndJob
  <2>1. CountsAreOK(metrics, collected)'
    BY <1>7, EndJobCounts
  <2>2. meddled' = meddled
    BY <1>7 DEF EndJob, setup
  <2> QED
    BY <1>1, <2>1, <2>2 DEF MetricInv
<1>8. ASSUME NEW t \in Parts, StartPart(t) \/ DropPart(t)
      PROVE  UNCHANGED <<collected, metrics, hook, meddled>>
  BY <1>8 DEF StartPart, DropPart, setup, traces
<1>9. CASE StartJob \/ CancelJob
  <2>1. UNCHANGED <<collected, metrics, hook, meddled>>
    BY <1>9 DEF StartJob, CancelJob, setup, traces
  <2> QED
    BY <1>1, <1>2, <2>1 DEF MetricInv
<1>10. CASE NewRouter \/ SetHook \/ ResetCollector \/ ResetRegistry
  <2>1. meddled' = meddled + 1 /\ meddled \in Nat
    BY <1>10 DEF NewRouter, SetHook, ResetCollector, ResetRegistry, Meddle, MetricInv
  <2>2. /\ collected' = collected \/ collected' = {}
        /\ metrics' = metrics \/ metrics' = NoMetrics
    BY <1>10 DEF NewRouter, SetHook, ResetCollector, ResetRegistry
  <2>3. Adds(metrics')
    BY <2>2, NoMetricsAdd DEF MetricInv, CountsAreOK
  <2>4. SpansAreOK(collected')
    BY <2>2, FS_EmptySet DEF MetricInv, CountsAreOK, SpansAreOK
  <2>5. ~Steady'
    BY <2>1 DEF Steady
  <2> QED
    BY <1>1, <2>1, <2>3, <2>4, <2>5 DEF MetricInv, CountsAreOK
<1>11. CASE Terminated \/ UNCHANGED vars
  BY <1>1, <1>2, <1>11 DEF Terminated, vars, setup, traces, MetricInv
<1> QED
  BY <1>1, <1>2, <1>3, <1>4, <1>5, <1>6, <1>7, <1>8, <1>9, <1>10, <1>11
     DEF Next, Callers, MetricInv

(* From tallies to totals, and from traces to all that is collected.       *)
LEMMA TotalIsTally ==
  ASSUME NEW reg, RegOK(reg), NEW W, NEW s, s = W \cap DOMAIN reg,
         \A k \in W : k[1] \notin Histograms
  PROVE  SumFunctionOnSet(reg, s) = Tally(reg, W)
<1>1. s \in SUBSET DOMAIN reg /\ \A k \in s : k[1] \notin Histograms
  OBVIOUS
<1>2. SumFunctionOnSet(reg, s) = Tally(reg, s)
  BY <1>1, TallyOfCounters
<1>3. s \cap DOMAIN reg = s
  OBVIOUS
<1> QED
  BY <1>2, <1>3 DEF Tally

LEMMA TracesPartition ==
  ASSUME IsFiniteSet(collected)
  PROVE  /\ IsFiniteSet(TracesCollected)
         /\ \A tr \in TracesCollected : tr \subseteq collected /\ IsFiniteSet(tr)
         /\ \A a, b \in TracesCollected : a # b => a \cap b = {}
         /\ UNION TracesCollected = collected
<1> DEFINE F == [x \in collected |-> {s \in collected : s.trace = x.trace}]
<1>1. TracesCollected = {F[x] : x \in collected}
  BY DEF TracesCollected
<1>2. F \in Surjection(collected, TracesCollected)
  BY <1>1 DEF Surjection
<1>3. IsFiniteSet(TracesCollected)
  BY <1>2, FS_Surjection
<1>4. \A tr \in TracesCollected : tr \subseteq collected
  BY DEF TracesCollected
<1>5. \A tr \in TracesCollected : IsFiniteSet(tr)
  BY <1>4, FS_Subset
<1>6. \A a, b \in TracesCollected : a # b => a \cap b = {}
  BY DEF TracesCollected
<1>7. UNION TracesCollected = collected
  BY DEF TracesCollected
<1> QED
  BY <1>3, <1>4, <1>5, <1>6, <1>7

(* What is counted trace by trace is the size of the whole.                *)
LEMMA SumOverTraces ==
  ASSUME IsFiniteSet(collected), NEW C, NEW f, DOMAIN f = TracesCollected,
         \A tr \in TracesCollected : IsFiniteSet(C[tr]) /\ f[tr] = Cardinality(C[tr]),
         \A a, b \in TracesCollected : a # b => C[a] \cap C[b] = {}
  PROVE  SumFunction(f) = Cardinality(AllOf(TracesCollected, C))
<1>1. Disjoint(TracesCollected, C)
  BY TracesPartition DEF Disjoint
<1>2. SumFunctionOnSet(f, TracesCollected) = Cardinality(AllOf(TracesCollected, C))
  BY <1>1, SumHasSize
<1> QED
  BY <1>2 DEF SumFunction

(* The tokens that the replay analysis adds up.                            *)
LEMMA TokensOfTrace ==
  ASSUME NEW S, IsFiniteSet(S), NEW f, DOMAIN f = S, \A s \in S : f[s] \in Nat
  PROVE  LET cells == UNION {{s} \X (1..f[s]) : s \in S}
         IN  IsFiniteSet(cells) /\ SumFunction(f) = Cardinality(cells)
<1> DEFINE C == [s \in S |-> {s} \X (1..f[s])]
<1>1. ASSUME NEW s \in S PROVE IsFiniteSet(C[s]) /\ f[s] = Cardinality(C[s])
  <2>1. IsFiniteSet({s} \X (1..f[s])) /\ Cardinality({s} \X (1..f[s])) = f[s]
    BY SizeOfCells
  <2> QED
    BY <2>1
<1>2. \A s, u \in S : s # u => C[s] \cap C[u] = {}
  OBVIOUS
<1>3. AllOf(S, C) = UNION {{s} \X (1..f[s]) : s \in S}
  BY DEF AllOf
<1> HIDE DEF C
<1>4. Disjoint(S, C)
  BY <1>1, <1>2 DEF Disjoint
<1>5. SumFunctionOnSet(f, S) = Cardinality(AllOf(S, C))
  BY <1>1, <1>4, SumHasSize
<1>6. IsFiniteSet(AllOf(S, C))
  BY <1>4, OneIsLeft
<1> QED
  BY <1>3, <1>5, <1>6 DEF SumFunction

LEMMA MetricInvAddsUp == MetricInv => CountersAddUp
<1> SUFFICES ASSUME MetricInv PROVE CountersAddUp
  OBVIOUS
<1> DEFINE D == DOMAIN metrics
<1>1. RegOK(metrics) /\ Adds(metrics) /\ SpansAreOK(collected) /\ IsFiniteSet(collected)
  BY DEF MetricInv, CountsAreOK, Adds, SpansAreOK
<1>2. D \subseteq Keys
  BY <1>1 DEF RegOK
<1>3. ASSUME NEW k, k[1] \notin Histograms PROVE CounterOf(metrics, k) = Tally(metrics, {k})
  BY <1>1, <1>3, TallyOfOne DEF CounterOf, Value
<1>4. ASSUME NEW st \in {"OK", "ERROR"}
      PROVE  Total(metrics, LAMBDA k : k[1] = "requests_total" /\ k[3] = st)
               = CounterOf(metrics, <<"spans_total", "llm", st>>)
  <2> DEFINE s == {k \in D : k[1] = "requests_total" /\ k[3] = st}
  <2>1. s = RequestsWith(st) \cap D
    BY <1>2 DEF RequestsWith, Named
  <2>2. \A k \in RequestsWith(st) : k[1] \notin Histograms
    BY DEF RequestsWith, Named, Histograms
  <2>3. SumFunctionOnSet(metrics, s) = Tally(metrics, RequestsWith(st))
    BY <1>1, <2>1, <2>2, TotalIsTally
  <2>4. CounterOf(metrics, <<"spans_total", "llm", st>>)
          = Tally(metrics, {<<"spans_total", "llm", st>>})
    BY <1>3 DEF Histograms
  <2>5. Tally(metrics, RequestsWith(st)) = Tally(metrics, {<<"spans_total", "llm", st>>})
    BY <1>1 DEF Adds, Statuses
  <2>6. Total(metrics, LAMBDA k : k[1] = "requests_total" /\ k[3] = st)
          = SumFunctionOnSet(metrics, s)
    BY DEF Total
  <2> QED
    BY <2>3, <2>4, <2>5, <2>6
<1>5. ASSUME NEW m \in ToSet(Models)
      PROVE  CounterOf(metrics, <<"errors_total", m>>)
               = CounterOf(metrics, <<"requests_total", m, "ERROR">>)
  <2>1. /\ CounterOf(metrics, <<"errors_total", m>>) = Tally(metrics, {<<"errors_total", m>>})
        /\ CounterOf(metrics, <<"requests_total", m, "ERROR">>)
             = Tally(metrics, {<<"requests_total", m, "ERROR">>})
    BY <1>3 DEF Histograms
  <2> QED
    BY <1>1, <2>1 DEF Adds, ModelNames
<1>6. ASSUME NEW kind \in {"llm", "agent", "internal"}
      PROVE  HistogramOf(metrics, <<"span_duration_seconds", kind>>).count
               = Total(metrics, LAMBDA k : k[1] = "spans_total" /\ k[2] = kind)
  <2> DEFINE s == {k \in D : k[1] = "spans_total" /\ k[2] = kind}
             dur == <<"span_duration_seconds", kind>>
  <2>1. s = SpansOfKind(kind) \cap D
    BY <1>2 DEF SpansOfKind, Named
  <2>2. \A k \in SpansOfKind(kind) : k[1] \notin Histograms
    BY DEF SpansOfKind, Named, Histograms
  <2>3. SumFunctionOnSet(metrics, s) = Tally(metrics, SpansOfKind(kind))
    BY <1>1, <2>1, <2>2, TotalIsTally
  <2>4. HistogramOf(metrics, dur).count = Tally(metrics, {dur})
    <3>1. dur[1] \in Histograms
      BY DEF Histograms
    <3> HIDE DEF dur
    <3> QED
      BY <1>1, <3>1, TallyOfOne DEF HistogramOf, Value
  <2>5. Tally(metrics, {dur}) = Tally(metrics, SpansOfKind(kind))
    BY <1>1 DEF Adds, Kinds
  <2>6. Total(metrics, LAMBDA k : k[1] = "spans_total" /\ k[2] = kind)
          = SumFunctionOnSet(metrics, s)
    BY DEF Total
  <2> QED
    BY <2>3, <2>4, <2>5, <2>6
<1>7. ASSUME NEW k \in D, k[1] \in {"span_duration_seconds", "latency_seconds"}
      PROVE  metrics[k].count = metrics[k].inf
  BY <1>1, <1>7 DEF RegOK, Histograms
<1>8. ASSUME NEW name \in {"requests_total", "prompt_tokens_total", "completion_tokens_total"}
      PROVE  Total(metrics, LAMBDA k : k[1] = name) = Tally(metrics, Named(name))
  <2> DEFINE s == {k \in D : k[1] = name}
  <2>1. s = Named(name) \cap D
    BY <1>2 DEF Named
  <2>2. \A k \in Named(name) : k[1] \notin Histograms
    BY DEF Named, Histograms
  <2>3. SumFunctionOnSet(metrics, s) = Tally(metrics, Named(name))
    BY <1>1, <2>1, <2>2, TotalIsTally
  <2>4. Total(metrics, LAMBDA k : k[1] = name) = SumFunctionOnSet(metrics, s)
    BY DEF Total
  <2> QED
    BY <2>3, <2>4
<1>9. Total(metrics, LAMBDA k : k[1] = "spans_total" /\ k[3] = "ERROR")
        = Tally(metrics, SpansWith("ERROR"))
  <2> DEFINE s == {k \in D : k[1] = "spans_total" /\ k[3] = "ERROR"}
  <2>1. s = SpansWith("ERROR") \cap D
    BY <1>2 DEF SpansWith, Named
  <2>2. \A k \in SpansWith("ERROR") : k[1] \notin Histograms
    BY DEF SpansWith, Named, Histograms
  <2>3. SumFunctionOnSet(metrics, s) = Tally(metrics, SpansWith("ERROR"))
    BY <1>1, <2>1, <2>2, TotalIsTally
  <2>4. Total(metrics, LAMBDA k : k[1] = "spans_total" /\ k[3] = "ERROR")
          = SumFunctionOnSet(metrics, s)
    BY DEF Total
  <2> QED
    BY <2>3, <2>4
<1> HIDE DEF D
<1> DEFINE TC == TracesCollected
<1>10. /\ \A tr \in TC : tr \subseteq collected /\ IsFiniteSet(tr)
       /\ \A a, b \in TC : a # b => a \cap b = {}
       /\ UNION TC = collected
  BY <1>1, TracesPartition
<1>11. SumFunction([tr \in TC |-> Cardinality(LlmSpans(tr))]) = Cardinality(LlmSpans(collected))
  <2> DEFINE f == [tr \in TC |-> Cardinality(LlmSpans(tr))]
             C == [tr \in TC |-> LlmSpans(tr)]
  <2>1. \A tr \in TC : IsFiniteSet(C[tr]) /\ f[tr] = Cardinality(C[tr])
    BY <1>10, FS_Subset DEF LlmSpans
  <2>2. \A a, b \in TC : a # b => C[a] \cap C[b] = {}
    BY <1>10 DEF LlmSpans
  <2>3. AllOf(TC, C) = LlmSpans(collected)
    BY <1>10 DEF AllOf, LlmSpans
  <2>4. DOMAIN f = TracesCollected
    OBVIOUS
  <2> HIDE DEF f, C, TC
  <2>5. SumFunction(f) = Cardinality(AllOf(TC, C))
    BY <1>1, <2>1, <2>2, <2>4, SumOverTraces DEF TC
  <2> QED
    BY <2>3, <2>5 DEF f
<1>12. SumFunction([tr \in TC |-> Analyze(tr).errors]) = Cardinality(Failed(collected))
  <2> DEFINE f == [tr \in TC |-> Analyze(tr).errors]
             C == [tr \in TC |-> Failed(tr)]
  <2>1. \A tr \in TC : IsFiniteSet(C[tr]) /\ f[tr] = Cardinality(C[tr])
    BY <1>10, FS_Subset DEF Failed, Analyze
  <2>2. \A a, b \in TC : a # b => C[a] \cap C[b] = {}
    BY <1>10 DEF Failed
  <2>3. AllOf(TC, C) = Failed(collected)
    BY <1>10 DEF AllOf, Failed
  <2>4. DOMAIN f = TracesCollected
    OBVIOUS
  <2> HIDE DEF f, C, TC
  <2>5. SumFunction(f) = Cardinality(AllOf(TC, C))
    BY <1>1, <2>1, <2>2, <2>4, SumOverTraces DEF TC
  <2> QED
    BY <2>3, <2>5 DEF f
<1>13. ASSUME \A tr \in TC : Analyzable(tr)
       PROVE  /\ \A s \in LlmSpans(collected) :
                   NumbersOf(s) /\ PromptOf(s) \in Nat /\ CompletionOf(s) \in Nat
              /\ SumFunction([tr \in TC |-> Analyze(tr).prompt])
                   = Cardinality(AllPrompts(collected))
              /\ SumFunction([tr \in TC |-> Analyze(tr).completion])
                   = Cardinality(AllCompletions(collected))
  <2>1. ASSUME NEW s \in LlmSpans(collected)
        PROVE  NumbersOf(s) /\ PromptOf(s) \in Nat /\ CompletionOf(s) \in Nat
    <3>1. PICK tr \in TC : s \in tr
      BY <1>10 DEF LlmSpans
    <3>2. NumbersOf(s)
      BY <1>13, <3>1 DEF Analyzable, LlmSpans, NumbersOf
    <3>3. CollectedSpanOK(s)
      BY <1>1 DEF SpansAreOK, LlmSpans
    <3> QED
      BY <3>2, <3>3 DEF NumbersOf, PromptOf, CompletionOf, HasTokens, CollectedSpanOK, Counts
  <2>2. ASSUME NEW tr \in TC
        PROVE  /\ IsFiniteSet(AllPrompts(tr)) /\ IsFiniteSet(AllCompletions(tr))
               /\ Analyze(tr).prompt = Cardinality(AllPrompts(tr))
               /\ Analyze(tr).completion = Cardinality(AllCompletions(tr))
    <3> DEFINE S == LlmSpans(tr)
               f == [s \in S |-> PromptOf(s)]
               g == [s \in S |-> CompletionOf(s)]
    <3>1. IsFiniteSet(S)
      BY <1>10, FS_Subset DEF LlmSpans
    <3>2. \A s \in S : f[s] \in Nat /\ g[s] \in Nat
      BY <1>10, <2>1 DEF LlmSpans
    <3>3. /\ UNION {{s} \X (1..f[s]) : s \in S} = AllPrompts(tr)
          /\ UNION {{s} \X (1..g[s]) : s \in S} = AllCompletions(tr)
      BY DEF AllPrompts, AllCompletions
    <3>4. Analyze(tr).prompt = SumFunction(f) /\ Analyze(tr).completion = SumFunction(g)
      BY DEF Analyze
    <3>5. DOMAIN f = S /\ DOMAIN g = S
      OBVIOUS
    <3> HIDE DEF f, g, S
    <3> QED
      BY <3>1, <3>2, <3>3, <3>4, <3>5, TokensOfTrace
  <2>3. SumFunction([tr \in TC |-> Analyze(tr).prompt]) = Cardinality(AllPrompts(collected))
    <3> DEFINE f == [tr \in TC |-> Analyze(tr).prompt]
               C == [tr \in TC |-> AllPrompts(tr)]
    <3>1. \A tr \in TC : IsFiniteSet(C[tr]) /\ f[tr] = Cardinality(C[tr])
      BY <2>2
    <3>2. \A a, b \in TC : a # b => C[a] \cap C[b] = {}
      BY <1>10 DEF AllPrompts, LlmSpans
    <3>3. AllOf(TC, C) = AllPrompts(collected)
      BY <1>10 DEF AllOf, AllPrompts, LlmSpans
    <3>4. DOMAIN f = TracesCollected
      OBVIOUS
    <3> HIDE DEF f, C, TC
    <3>5. SumFunction(f) = Cardinality(AllOf(TC, C))
      BY <1>1, <3>1, <3>2, <3>4, SumOverTraces DEF TC
    <3> QED
      BY <3>3, <3>5 DEF f
  <2>4. SumFunction([tr \in TC |-> Analyze(tr).completion])
          = Cardinality(AllCompletions(collected))
    <3> DEFINE f == [tr \in TC |-> Analyze(tr).completion]
               C == [tr \in TC |-> AllCompletions(tr)]
    <3>1. \A tr \in TC : IsFiniteSet(C[tr]) /\ f[tr] = Cardinality(C[tr])
      BY <2>2
    <3>2. \A a, b \in TC : a # b => C[a] \cap C[b] = {}
      BY <1>10 DEF AllCompletions, LlmSpans
    <3>3. AllOf(TC, C) = AllCompletions(collected)
      BY <1>10 DEF AllOf, AllCompletions, LlmSpans
    <3>4. DOMAIN f = TracesCollected
      OBVIOUS
    <3> HIDE DEF f, C, TC
    <3>5. SumFunction(f) = Cardinality(AllOf(TC, C))
      BY <1>1, <3>1, <3>2, <3>4, SumOverTraces DEF TC
    <3> QED
      BY <3>3, <3>5 DEF f
  <2> QED
    BY <2>1, <2>3, <2>4
<1>14. ASSUME Steady PROVE Tells(metrics, collected)
  BY <1>14 DEF MetricInv, CountsAreOK
<1>15. ASSUME Steady
       PROVE  Total(metrics, LAMBDA k : k[1] = "requests_total")
                = SumFunction([tr \in TC |-> Cardinality(LlmSpans(tr))])
  BY <1>8, <1>11, <1>14, <1>15 DEF Tells
<1>16. ASSUME Steady, \A tr \in TC : Analyzable(tr)
       PROVE  /\ Total(metrics, LAMBDA k : k[1] = "spans_total" /\ k[3] = "ERROR")
                   = SumFunction([tr \in TC |-> Analyze(tr).errors])
              /\ Total(metrics, LAMBDA k : k[1] = "prompt_tokens_total")
                   = SumFunction([tr \in TC |-> Analyze(tr).prompt])
              /\ Total(metrics, LAMBDA k : k[1] = "completion_tokens_total")
                   = SumFunction([tr \in TC |-> Analyze(tr).completion])
  <2>1. /\ Tally(metrics, SpansWith("ERROR")) = Cardinality(Failed(collected))
        /\ Tally(metrics, Named("prompt_tokens_total")) = Cardinality(AllPrompts(collected))
        /\ Tally(metrics, Named("completion_tokens_total"))
             = Cardinality(AllCompletions(collected))
    BY <1>13, <1>14, <1>16 DEF Tells
  <2> QED
    BY <1>8, <1>9, <1>12, <1>13, <1>16, <2>1
<1> QED
  BY <1>4, <1>5, <1>6, <1>7, <1>15, <1>16 DEF CountersAddUp, D

(* The metrics add up: whatever number of clients and parts call whatever  *)
(* candidates, whoever is cancelled, whichever token counts are none, and  *)
(* whoever changes the hook or clears collector or registry; and if nobody *)
(* does, they are what the replay analysis finds in the traces.            *)
THEOREM MetricsAddUp == Spec => []CountersAddUp
  BY MetricInvInit, MetricInvNext, MetricInvAddsUp, PTL DEF Spec
=============================================================================
