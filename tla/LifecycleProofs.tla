--------------------------- MODULE LifecycleProofs ---------------------------
(***************************************************************************)
(* Proofs about Lifecycle.tla, for any number of tuners, models, versions  *)
(* and operations and each kind of tracker: a tracked run belongs to the   *)
(* call of FineTuner.run that opened it and is ended with that call, and   *)
(* the hub and its log tell one story.  And about AgentMemory.tla and      *)
(* Evaluation.tla, which the same run checks, for any lengths, budgets and *)
(* limits: a short-term memory keeps the latest items that fit, a          *)
(* long-term one finds the best, a summary is one of the whole text, and   *)
(* the reports of comparisons and benchmarks are of every call.            *)
(***************************************************************************)
EXTENDS Lifecycle, Evaluation, AgentMemory, SequenceTheorems,
        FiniteSetTheorems, WellFoundedInduction, TLAPS

Places == {"idle", "making", "training", "log", "ending", "failing"}
RunRecords == [owner : Tuners, ended : BOOLEAN, metrics : SUBSET Tuners, excused : BOOLEAN]

(* What tracking and tuning need of the types.                             *)
Typed == /\ tracker \in Trackers
         /\ runs \in Seq(RunRecords)
         /\ current \in 0..Len(runs)
         /\ pc \in [Tuners -> Places]
         /\ mine \in [Tuners -> 0..Len(runs)]

(* A tuner that is not running has no run; only MLflow has an active one.  *)
RunsHaveOwners ==
    /\ \A t \in Tuners : pc[t] = "idle" => mine[t] = 0
    /\ tracker = "none" => \A t \in Tuners : mine[t] = 0
    /\ current # 0 => tracker = "mlflow"

IInv == Typed /\ RunsHaveOwners /\ TrackedRunsAreEnded

LEMMA IInvInit == Init => IInv
  BY DEF Init, IInv, Typed, RunsHaveOwners, TrackedRunsAreEnded, Places

(* A step of a tuner that leaves the trackers alone.                       *)
LEMMA Moves ==
  ASSUME IInv, NEW t \in Tuners, NEW at \in Places \ {"idle"}, pc[t] # "idle",
         Goes(t, at), UNCHANGED <<tracker, tracking, mine>>
  PROVE  IInv'
  BY DEF IInv, Typed, RunsHaveOwners, TrackedRunsAreEnded, Goes, Places, tracking

(* Whoever opens a run is the only one to own it.                          *)
LEMMA Opens ==
  ASSUME IInv, NEW t \in Tuners, Start(t)
  PROVE  IInv'
<1> USE DEF IInv, Typed
<1>1. /\ pc[t] = "idle" /\ mine[t] = 0 /\ pc' = [pc EXCEPT ![t] = "making"]
      /\ UNCHANGED tracker /\ (tracker = "mlflow" => current = 0)
      /\ current' = IF tracker = "mlflow" THEN Len(runs') ELSE 0
  BY DEF Start, Goes, RunsHaveOwners
<1>2. CASE tracker = "none"
  <2>1. UNCHANGED <<runs, mine>>
    BY <1>2 DEF Start
  <2> QED
    BY <1>1, <1>2, <2>1 DEF RunsHaveOwners, TrackedRunsAreEnded, Places
<1>3. CASE tracker # "none"
  <2> DEFINE r == [owner |-> t, ended |-> FALSE, metrics |-> {}, excused |-> FALSE]
             n == Len(runs) + 1
  <2>1. runs' = Append(runs, r) /\ mine' = [mine EXCEPT ![t] = Len(runs')]
    BY <1>3 DEF Start, Open
  <2>2. /\ r \in RunRecords /\ runs' \in Seq(RunRecords) /\ Len(runs') = n /\ runs'[n] = r
        /\ \A i \in 1..Len(runs) : runs'[i] = runs[i]
    BY <2>1 DEF RunRecords
  <2>3. Typed'
    BY <1>1, <2>1, <2>2 DEF Places
  <2>4. RunsHaveOwners'
    BY <1>1, <1>3, <2>1, <2>2 DEF RunsHaveOwners
  <2>5. ASSUME NEW s \in Tuners, pc'[s] # "idle"
        PROVE  /\ mine'[s] # 0 /\ runs'[mine'[s]].owner = s /\ ~runs'[mine'[s]].ended
               /\ tracker = "mlflow" => current' = mine'[s]
    <3>1. CASE s = t
      BY <1>1, <2>1, <2>2, <3>1
    <3>2. CASE s # t
      BY <1>1, <1>3, <2>1, <2>2, <2>5, <3>2 DEF TrackedRunsAreEnded
    <3> QED
      BY <3>1, <3>2
  <2>6. ASSUME NEW i \in DOMAIN runs'
        PROVE  /\ runs'[i].metrics \subseteq {runs'[i].owner}
               /\ runs'[i].ended \/ runs'[i].excused \/ mine'[runs'[i].owner] = i
               /\ current' = i => ~runs'[i].ended
    <3>1. CASE i = n
      BY <1>1, <2>1, <2>2, <3>1
    <3>2. CASE i \in 1..Len(runs)
      BY <1>1, <2>1, <2>2, <3>2 DEF TrackedRunsAreEnded, RunRecords
    <3> QED
      BY <2>2, <2>6, <3>1, <3>2
  <2> QED
    BY <1>1, <2>3, <2>4, <2>5, <2>6 DEF TrackedRunsAreEnded
<1> QED
  BY <1>2, <1>3

(* MLflow opens a run and raises: no tuner has it, but it stays active.    *)
LEMMA OpensForNobody ==
  ASSUME IInv, NEW t \in Tuners, StartRaisesLate(t)
  PROVE  IInv'
<1> USE DEF IInv, Typed
<1> DEFINE r == [owner |-> t, ended |-> FALSE, metrics |-> {}, excused |-> TRUE]
           n == Len(runs) + 1
<1>1. /\ tracker = "mlflow" /\ current = 0 /\ UNCHANGED <<tracker, pc, mine>>
      /\ runs' = Append(runs, r) /\ current' = Len(runs')
  BY DEF StartRaisesLate
<1>2. /\ r \in RunRecords /\ runs' \in Seq(RunRecords) /\ Len(runs') = n /\ runs'[n] = r
      /\ \A i \in 1..Len(runs) : runs'[i] = runs[i]
  BY <1>1 DEF RunRecords
<1>3. Typed' /\ RunsHaveOwners'
  BY <1>1, <1>2 DEF RunsHaveOwners
<1>4. \A s \in Tuners : pc[s] = "idle"
  BY <1>1 DEF TrackedRunsAreEnded
<1>5. ASSUME NEW i \in DOMAIN runs'
      PROVE  /\ runs'[i].metrics \subseteq {runs'[i].owner}
             /\ runs'[i].ended \/ runs'[i].excused \/ mine'[runs'[i].owner] = i
             /\ current' = i => ~runs'[i].ended
  <2>1. CASE i = n
    BY <1>1, <1>2, <2>1
  <2>2. CASE i \in 1..Len(runs)
    BY <1>1, <1>2, <2>2 DEF TrackedRunsAreEnded
  <2> QED
    BY <1>2, <1>5, <2>1, <2>2
<1> QED
  BY <1>1, <1>3, <1>4, <1>5 DEF TrackedRunsAreEnded

(* The run that a tuner writes to or ends is its own.                      *)
LEMMA TargetIsMine ==
  ASSUME IInv, NEW t \in Tuners, pc[t] # "idle", tracker # "none"
  PROVE  /\ Target(t) = mine[t] /\ mine[t] \in 1..Len(runs)
         /\ runs[mine[t]] \in RunRecords /\ runs[mine[t]].owner = t /\ ~runs[mine[t]].ended
         /\ \A s \in Tuners : s # t /\ pc[s] # "idle" => mine[s] # mine[t] /\ tracker # "mlflow"
  BY DEF IInv, Typed, TrackedRunsAreEnded, Target

LEMMA OneRunChanges ==
  ASSUME runs \in Seq(RunRecords), NEW k \in 1..Len(runs), NEW r \in RunRecords,
         runs' = [runs EXCEPT ![k] = r]
  PROVE  /\ runs' \in Seq(RunRecords) /\ Len(runs') = Len(runs)
         /\ \A i \in 1..Len(runs) : runs'[i] = IF i = k THEN r ELSE runs[i]
  OBVIOUS

LEMMA Logs ==
  ASSUME IInv, NEW t \in Tuners, LogMetrics(t)
  PROVE  IInv'
<1>1. pc[t] # "idle" /\ UNCHANGED <<tracker, current, mine>>
  BY DEF LogMetrics
<1>2. CASE UNCHANGED runs
  <2>1. Goes(t, "ending") \/ Goes(t, "failing")
    BY DEF LogMetrics
  <2> QED
    BY <1>1, <1>2, <2>1, Moves DEF tracking, Places
<1>3. CASE runs' # runs
  <2>1. /\ tracker # "none" /\ pc' = [pc EXCEPT ![t] = "ending"]
        /\ runs' = [runs EXCEPT ![mine[t]].metrics = @ \cup {t}]
    BY <1>1, <1>3, TargetIsMine DEF LogMetrics, Goes
  <2>2. /\ runs' \in Seq(RunRecords) /\ Len(runs') = Len(runs)
        /\ \A i \in 1..Len(runs) :
             /\ runs'[i].owner = runs[i].owner /\ runs'[i].ended = runs[i].ended
             /\ runs'[i].excused = runs[i].excused
             /\ runs'[i].metrics = IF i = mine[t] THEN runs[i].metrics \cup {t}
                                                  ELSE runs[i].metrics
    <3> DEFINE r == [runs[mine[t]] EXCEPT !.metrics = @ \cup {t}]
    <3>1. /\ mine[t] \in 1..Len(runs) /\ runs[mine[t]] \in RunRecords /\ runs \in Seq(RunRecords)
          /\ runs' = [runs EXCEPT ![mine[t]] = r]
      BY <1>1, <2>1, TargetIsMine DEF IInv, Typed
    <3>2. /\ r \in RunRecords /\ r.metrics = runs[mine[t]].metrics \cup {t}
          /\ r.owner = runs[mine[t]].owner /\ r.ended = runs[mine[t]].ended /\ r.excused = runs[mine[t]].excused
      BY <3>1 DEF RunRecords
    <3>3. /\ runs' \in Seq(RunRecords) /\ Len(runs') = Len(runs)
          /\ \A i \in 1..Len(runs) : runs'[i] = IF i = mine[t] THEN r ELSE runs[i]
      <4> HIDE DEF r
      <4> QED
        BY <3>1, <3>2, OneRunChanges
    <3> HIDE DEF r
    <3> QED
      BY <3>2, <3>3
  <2>3. Typed' /\ RunsHaveOwners'
    BY <1>1, <2>1, <2>2 DEF IInv, Typed, RunsHaveOwners, Places
  <2>4. TrackedRunsAreEnded'
    BY <1>1, <2>1, <2>2, TargetIsMine DEF IInv, Typed, TrackedRunsAreEnded
  <2> QED
    BY <2>3, <2>4 DEF IInv
<1> QED
  BY <1>2, <1>3

LEMMA Finishes ==
  ASSUME IInv, NEW t \in Tuners, EndRun(t)
  PROVE  IInv'
<1>1. /\ pc[t] # "idle" /\ UNCHANGED tracker /\ current' = 0
      /\ mine' = [mine EXCEPT ![t] = 0] /\ pc' = [pc EXCEPT ![t] = "idle"]
  BY DEF EndRun, Ends, Goes
<1>2. CASE tracker = "none"
  <2>1. UNCHANGED runs
    BY <1>2 DEF EndRun
  <2> QED
    BY <1>1, <1>2, <2>1 DEF IInv, Typed, RunsHaveOwners, TrackedRunsAreEnded, Places
<1>3. CASE tracker # "none"
  <2>1. runs' = [runs EXCEPT ![mine[t]].ended = TRUE]
    <3>1. Target(t) = mine[t] /\ Target(t) # 0
      BY <1>1, <1>3, TargetIsMine
    <3>2. runs' = [runs EXCEPT ![Target(t)].ended = TRUE]
      BY <1>3, <3>1 DEF EndRun
    <3> QED
      BY <3>1, <3>2
  <2>2. /\ runs' \in Seq(RunRecords) /\ Len(runs') = Len(runs)
        /\ \A i \in 1..Len(runs) :
             /\ runs'[i].owner = runs[i].owner /\ runs'[i].metrics = runs[i].metrics
             /\ runs'[i].excused = runs[i].excused
             /\ runs'[i].ended = IF i = mine[t] THEN TRUE ELSE runs[i].ended
    <3> DEFINE r == [runs[mine[t]] EXCEPT !.ended = TRUE]
    <3>1. /\ mine[t] \in 1..Len(runs) /\ runs[mine[t]] \in RunRecords /\ runs \in Seq(RunRecords)
          /\ runs' = [runs EXCEPT ![mine[t]] = r]
      BY <1>1, <1>3, <2>1, TargetIsMine DEF IInv, Typed
    <3>2. /\ r \in RunRecords /\ r.ended = TRUE
          /\ r.owner = runs[mine[t]].owner /\ r.metrics = runs[mine[t]].metrics /\ r.excused = runs[mine[t]].excused
      BY <3>1 DEF RunRecords
    <3>3. /\ runs' \in Seq(RunRecords) /\ Len(runs') = Len(runs)
          /\ \A i \in 1..Len(runs) : runs'[i] = IF i = mine[t] THEN r ELSE runs[i]
      <4> HIDE DEF r
      <4> QED
        BY <3>1, <3>2, OneRunChanges
    <3> HIDE DEF r
    <3> QED
      BY <3>2, <3>3
  <2>3. Typed' /\ RunsHaveOwners'
    BY <1>1, <2>2 DEF IInv, Typed, RunsHaveOwners, Places
  <2>4. TrackedRunsAreEnded'
    <3>1. ASSUME NEW s \in Tuners, pc'[s] # "idle"
          PROVE  /\ mine'[s] # 0 /\ runs'[mine'[s]].owner = s /\ ~runs'[mine'[s]].ended
                 /\ tracker = "mlflow" => current' = mine'[s]
      <4>1. s # t /\ pc[s] # "idle" /\ mine'[s] = mine[s]
        BY <1>1, <3>1 DEF IInv, Typed
      <4>2. mine[s] \in 1..Len(runs) /\ mine[s] # mine[t] /\ tracker # "mlflow"
            /\ runs[mine[s]].owner = s /\ ~runs[mine[s]].ended
        BY <1>1, <1>3, <4>1, TargetIsMine
      <4>3. runs'[mine[s]].ended = runs[mine[s]].ended /\ runs'[mine[s]].owner = s
        BY <2>2, <4>2
      <4>4. mine'[s] # 0
        BY <4>1, <4>2
      <4> QED
        BY <4>1, <4>2, <4>3, <4>4
    <3>2. ASSUME NEW i \in 1..Len(runs)
          PROVE  /\ runs'[i].metrics \subseteq {runs'[i].owner}
                 /\ runs'[i].ended \/ runs'[i].excused \/ mine'[runs'[i].owner] = i
                 /\ current' = i => ~runs'[i].ended
      <4>1. /\ runs[i].metrics \subseteq {runs[i].owner} /\ runs[i].owner \in Tuners
            /\ runs[i].ended \/ runs[i].excused \/ mine[runs[i].owner] = i
        <5>1. runs[i] \in RunRecords /\ i \in DOMAIN runs
          BY DEF IInv, Typed
        <5>2. runs[i].owner \in Tuners
          BY <5>1 DEF RunRecords
        <5>3. /\ runs[i].metrics \subseteq {runs[i].owner}
              /\ runs[i].ended \/ runs[i].excused \/ mine[runs[i].owner] = i
          BY <5>1 DEF IInv, TrackedRunsAreEnded
        <5> QED
          BY <5>2, <5>3
      <4>2. runs[i].owner # t => mine'[runs[i].owner] = mine[runs[i].owner]
        BY <1>1, <4>1 DEF IInv, Typed
      <4>3. current' # i
        BY <1>1
      <4> QED
        BY <2>2, <4>1, <4>2, <4>3
    <3>3. DOMAIN runs' = 1..Len(runs)
      BY <2>2
    <3> QED
      BY <1>1, <3>1, <3>2, <3>3 DEF TrackedRunsAreEnded
  <2> QED
    BY <2>3, <2>4 DEF IInv
<1> QED
  BY <1>2, <1>3

LEMMA EndsBadly ==
  ASSUME IInv, NEW t \in Tuners, EndFails(t)
  PROVE  IInv'
<1>1. /\ pc[t] # "idle" /\ tracker = "mlflow" /\ UNCHANGED <<tracker, current>>
      /\ mine' = [mine EXCEPT ![t] = 0] /\ pc' = [pc EXCEPT ![t] = "idle"]
      /\ runs' = [runs EXCEPT ![mine[t]].excused = TRUE]
  BY TargetIsMine DEF EndFails, Ends, Goes, Target
<1>2. /\ runs' \in Seq(RunRecords) /\ Len(runs') = Len(runs)
      /\ \A i \in 1..Len(runs) :
           /\ runs'[i].owner = runs[i].owner /\ runs'[i].metrics = runs[i].metrics
           /\ runs'[i].ended = runs[i].ended
           /\ runs'[i].excused = IF i = mine[t] THEN TRUE ELSE runs[i].excused
  <2> DEFINE r == [runs[mine[t]] EXCEPT !.excused = TRUE]
  <2>1. /\ mine[t] \in 1..Len(runs) /\ runs[mine[t]] \in RunRecords /\ runs \in Seq(RunRecords)
        /\ runs' = [runs EXCEPT ![mine[t]] = r]
    BY <1>1, TargetIsMine DEF IInv, Typed
  <2>2. /\ r \in RunRecords /\ r.excused = TRUE
        /\ r.owner = runs[mine[t]].owner /\ r.ended = runs[mine[t]].ended /\ r.metrics = runs[mine[t]].metrics
    BY <2>1 DEF RunRecords
  <2>3. /\ runs' \in Seq(RunRecords) /\ Len(runs') = Len(runs)
        /\ \A i \in 1..Len(runs) : runs'[i] = IF i = mine[t] THEN r ELSE runs[i]
    <3> HIDE DEF r
    <3> QED
      BY <2>1, <2>2, OneRunChanges
  <2> HIDE DEF r
  <2> QED
    BY <2>2, <2>3
<1>3. Typed' /\ RunsHaveOwners'
  BY <1>1, <1>2 DEF IInv, Typed, RunsHaveOwners, Places
<1>4. TrackedRunsAreEnded'
  BY <1>1, <1>2, TargetIsMine DEF IInv, Typed, TrackedRunsAreEnded
<1> QED
  BY <1>3, <1>4 DEF IInv

LEMMA IInvNext == IInv /\ [Next]_vars => IInv'
<1> SUFFICES ASSUME IInv, [Next]_vars PROVE IInv'
  OBVIOUS
<1>1. ASSUME UNCHANGED <<tracker, tracking, pc, mine>> PROVE IInv'
  BY <1>1 DEF IInv, Typed, RunsHaveOwners, TrackedRunsAreEnded, tracking
<1>2. ASSUME NEW n \in Names, NEW b \in Builds, NEW v \in Versions,
             Register(n, b) \/ RegisterVersion(n, v, b) \/ Rollback(n, v)
      PROVE  IInv'
  <2>1. UNCHANGED <<tracker, tracking, tuning>>
    BY <1>2 DEF Register, RegisterVersion, Rollback
  <2> QED
    BY <1>1, <2>1 DEF tuning
<1>3. ASSUME NEW t \in Tuners, MakeTrainer(t) \/ Train(t) PROVE IInv'
  <2>1. /\ pc[t] # "idle" /\ UNCHANGED <<tracker, tracking, mine>>
        /\ Goes(t, "training") \/ Goes(t, "log") \/ Goes(t, "failing")
    BY <1>3 DEF MakeTrainer, Train
  <2> QED
    BY <2>1, Moves DEF Places
<1>4. ASSUME NEW t \in Tuners, StartFails(t) PROVE IInv'
  BY <1>1, <1>4 DEF StartFails
<1>5. CASE UNCHANGED vars
  BY <1>1, <1>5 DEF vars, tuning
<1>6. ASSUME NEW n \in Names, NEW b \in Builds, Register(n, b) PROVE IInv'
  BY <1>1, <1>6 DEF Register, tuning
<1>7. ASSUME NEW n \in Names, NEW v \in Versions, Rollback(n, v) PROVE IInv'
  BY <1>1, <1>7 DEF Rollback, tuning
<1> QED
  BY <1>2, <1>3, <1>4, <1>5, <1>6, <1>7, Opens, OpensForNobody, Logs, Finishes, EndsBadly DEF Next

(* A tracked run takes the metrics of the call that opened it only, and is *)
(* ended with it, whatever the trainer and the tracker raise, unless       *)
(* MLflow itself raised while it opened or ended the run.                  *)
THEOREM TrackedRunsEnd == Spec => []TrackedRunsAreEnded
<1>1. Spec => []IInv
  BY IInvInit, IInvNext, PTL DEF Spec
<1> QED
  BY <1>1, PTL DEF IInv

-----------------------------------------------------------------------------
(***************************************************************************)
(* The hub.  The invariant is inductive with the types alone.              *)
(***************************************************************************)
ChangeRecords == [name : Names, from : Versions \cup {None}, to : Versions, logged : BOOLEAN]

HubTyped ==
    /\ backends \in [Names -> Builds \cup {None}]
    /\ versions \in [Names -> Seq(Versions)]
    /\ builds \in [Names -> [Versions -> Builds \cup {None}]]
    /\ active \in [Names -> Versions \cup {None}]
    /\ changes \in Seq(ChangeRecords)

HubInv == HubTyped /\ HubAndLogAgree

LEMMA HubInvInit == Init => HubInv
<1> SUFFICES ASSUME Init PROVE HubInv
  OBVIOUS
<1>1. HubTyped
  BY DEF Init, HubTyped
<1>2. ASSUME NEW n \in Names
      PROVE  /\ ChangesOf(n) = {} /\ ListVersions(n) = <<>> /\ ActiveVersion(n) = None
             /\ Get(n) = None /\ \A v \in Versions : GetVersion(n, v) = None
  BY DEF Init, ChangesOf, ListVersions, ActiveVersion, Get, GetVersion
<1>3. ToSet(<<>>) = {}
  BY DEF ToSet
<1>4. ASSUME NEW n \in Names
      PROVE  /\ ActiveIsLastTold(n) /\ ChangesChain(n) /\ ListedAreTold(n)
             /\ ListedAsFirstTold(n) /\ ActiveIsServed(n)
  BY <1>2, <1>3 DEF ActiveIsLastTold, ChangesChain, ListedAreTold, ListedAsFirstTold, ActiveIsServed
<1> QED
  BY <1>1, <1>4 DEF HubInv, HubAndLogAgree

(* What a change of name m adds to the log, and what it leaves of it.      *)
LEMMA ChangeIsLast ==
  ASSUME HubTyped, NEW m \in Names, NEW from \in Versions \cup {None}, NEW to \in Versions,
         Tells(m, from, to)
  PROVE  /\ changes' \in Seq(ChangeRecords) /\ Len(changes') = Len(changes) + 1
         /\ \A i \in 1..Len(changes) : changes'[i] = changes[i]
         /\ changes'[Len(changes) + 1].name = m
         /\ changes'[Len(changes) + 1].from = from
         /\ changes'[Len(changes) + 1].to = to
<1>1. PICK l \in BOOLEAN : Told(m, from, to, l)
  BY DEF Tells
<1> DEFINE c == [name |-> m, from |-> from, to |-> to, logged |-> l]
<1>2. c \in ChangeRecords /\ c.name = m /\ c.from = from /\ c.to = to
  BY DEF ChangeRecords
<1>3. changes' = Append(changes, c) /\ changes \in Seq(ChangeRecords)
  BY <1>1 DEF Told, HubTyped
<1> HIDE DEF c
<1> QED
  BY <1>2, <1>3

LEMMA ChangesAfter ==
  ASSUME HubTyped, NEW m \in Names, NEW from \in Versions \cup {None}, NEW to \in Versions,
         Tells(m, from, to), NEW n \in Names
  PROVE  ChangesOf(n)' = IF n = m THEN ChangesOf(n) \cup {Len(changes) + 1} ELSE ChangesOf(n)
<1>1. /\ DOMAIN changes = 1..Len(changes) /\ DOMAIN changes' = 1..(Len(changes) + 1)
      /\ Len(changes) \in Nat
  BY ChangeIsLast DEF HubTyped
<1>2. /\ ChangesOf(n) = {i \in 1..Len(changes) : changes[i].name = n}
      /\ ChangesOf(n)' = {i \in 1..(Len(changes) + 1) : changes'[i].name = n}
  BY <1>1 DEF ChangesOf
<1>3. \A i \in 1..(Len(changes) + 1) :
        changes'[i].name = IF i = Len(changes) + 1 THEN m ELSE changes[i].name
  BY <1>1, ChangeIsLast
<1>4. \A i : i \in 1..(Len(changes) + 1) <=> i \in 1..Len(changes) \/ i = Len(changes) + 1
  BY <1>1
<1>5. Len(changes) + 1 \notin 1..Len(changes)
  BY <1>1
<1> HIDE DEF Tells
<1> QED
  BY <1>2, <1>3, <1>4, <1>5

LEMMA ChangesArePositions ==
  ASSUME HubTyped, NEW n
  PROVE  ChangesOf(n) \subseteq 1..Len(changes) /\ Len(changes) \in Nat
  BY DEF HubTyped, ChangesOf

(* The parts of the invariant that are about the log, for the name of the  *)
(* change and for the others.                                              *)
LEMMA LogOfOthers ==
  ASSUME HubTyped, NEW m \in Names, NEW from \in Versions \cup {None}, NEW to \in Versions,
         Tells(m, from, to), NEW n \in Names, n # m,
         active'[n] = active[n], versions'[n] = versions[n], builds'[n] = builds[n],
         ActiveIsLastTold(n), ChangesChain(n), ListedAreTold(n), ListedAsFirstTold(n)
  PROVE  (ActiveIsLastTold(n) /\ ChangesChain(n) /\ ListedAreTold(n) /\ ListedAsFirstTold(n))'
<1>1. ChangesOf(n)' = ChangesOf(n) /\ ChangesOf(n) \subseteq 1..Len(changes) /\ Len(changes) \in Nat
  BY ChangesAfter, ChangesArePositions
<1>2. \A i \in ChangesOf(n) : changes'[i] = changes[i]
  BY <1>1, ChangeIsLast
<1>3. Len(changes') = Len(changes) + 1
  BY ChangeIsLast
<1>4. \A j \in ChangesOf(n), i \in Nat : LastBefore(n, j, i)' <=> LastBefore(n, j, i)
  BY <1>1 DEF LastBefore
<1>5. /\ ActiveVersion(n)' = ActiveVersion(n) /\ ListVersions(n)' = ListVersions(n)
      /\ \A v \in Versions : GetVersion(n, v)' = GetVersion(n, v)
  BY DEF ActiveVersion, ListVersions, GetVersion
<1>6. ActiveIsLastTold(n)'
  <2>1. CASE ChangesOf(n) = {}
    BY <1>1, <1>5, <2>1 DEF ActiveIsLastTold
  <2>2. CASE ChangesOf(n) # {}
    <3>1. PICK j \in ChangesOf(n) : /\ LastBefore(n, j, Len(changes) + 1)
                                    /\ ActiveVersion(n) = changes[j].to
      BY <2>2 DEF ActiveIsLastTold
    <3>2. LastBefore(n, j, Len(changes) + 1 + 1)
      BY <1>1, <3>1 DEF LastBefore
    <3>3. LastBefore(n, j, Len(changes) + 1 + 1)'
      BY <1>1, <1>3, <3>2 DEF LastBefore
    <3> QED
      BY <1>1, <1>2, <1>3, <1>5, <2>2, <3>1, <3>3 DEF ActiveIsLastTold, LastBefore
  <2> QED
    BY <2>1, <2>2
<1>7. ChangesChain(n)'
  <2> SUFFICES ASSUME NEW i \in ChangesOf(n), changes[i].from # None
               PROVE  \E j \in ChangesOf(n) : LastBefore(n, j, i)' /\ changes'[i].from = changes'[j].to
    BY <1>1, <1>2 DEF ChangesChain
  <2>1. PICK j \in ChangesOf(n) : LastBefore(n, j, i) /\ changes[i].from = changes[j].to
    BY DEF ChangesChain
  <2> QED
    BY <1>1, <1>2, <1>4, <2>1
<1>8. ListedAreTold(n)'
  BY <1>1, <1>2, <1>5 DEF ListedAreTold
<1>9. ListedAsFirstTold(n)'
  BY <1>1, <1>2, <1>5 DEF ListedAsFirstTold
<1> QED
  BY <1>6, <1>7, <1>8, <1>9

LEMMA LogOfChanged ==
  ASSUME HubTyped, NEW n \in Names, NEW from \in Versions \cup {None}, NEW to \in Versions,
         Tells(n, from, to), from # None => from = active[n], active'[n] = to,
         ActiveIsLastTold(n), ChangesChain(n)
  PROVE  ActiveIsLastTold(n)' /\ ChangesChain(n)'
<1> DEFINE new == Len(changes) + 1
<1>1. /\ ChangesOf(n)' = ChangesOf(n) \cup {new}
      /\ ChangesOf(n) \subseteq 1..Len(changes) /\ Len(changes) \in Nat
  BY ChangesAfter, ChangesArePositions
<1>2. \A i \in ChangesOf(n) : changes'[i] = changes[i]
  BY <1>1, ChangeIsLast
<1>3. /\ Len(changes') = new
      /\ changes'[new].from = from
      /\ changes'[new].to = to
  <2> HIDE DEF Tells
  <2> QED
    BY ChangeIsLast
<1>4. ActiveIsLastTold(n)'
  <2>1. new \in ChangesOf(n)' /\ \A k \in ChangesOf(n)' : k <= new /\ k < new + 1
    BY <1>1
  <2>2. \E j \in ChangesOf(n)' : /\ LastBefore(n, j, Len(changes) + 1)'
                                /\ ActiveVersion(n)' = changes'[j].to
    BY <1>1, <1>3, <2>1 DEF LastBefore, ActiveVersion
  <2> QED
    BY <2>1, <2>2 DEF ActiveIsLastTold
<1>5. \A j \in ChangesOf(n), i \in 1..new : LastBefore(n, j, i) => LastBefore(n, j, i)'
  BY <1>1 DEF LastBefore
<1>6. ChangesChain(n)'
  <2> SUFFICES ASSUME NEW i \in ChangesOf(n) \cup {new}, changes'[i].from # None
               PROVE  \E j \in ChangesOf(n) \cup {new} :
                         LastBefore(n, j, i)' /\ changes'[i].from = changes'[j].to
    BY <1>1 DEF ChangesChain
  <2>1. CASE i = new
    <3>1. from = active[n] /\ ActiveVersion(n) # None
      BY <1>3, <2>1 DEF ActiveVersion
    <3>2. PICK j \in ChangesOf(n) : LastBefore(n, j, new) /\ ActiveVersion(n) = changes[j].to
      BY <3>1 DEF ActiveIsLastTold
    <3> QED
      BY <1>1, <1>2, <1>3, <1>5, <2>1, <3>1, <3>2 DEF ActiveVersion
  <2>2. CASE i \in ChangesOf(n)
    <3>1. PICK j \in ChangesOf(n) : LastBefore(n, j, i) /\ changes[i].from = changes[j].to
      BY <1>2, <2>2 DEF ChangesChain
    <3> QED
      BY <1>1, <1>2, <1>5, <2>2, <3>1
  <2> QED
    BY <2>1, <2>2
<1> QED
  BY <1>4, <1>6

(* The versions of a name, when one is told that is listed already ...     *)
LEMMA ListedAgain ==
  ASSUME HubTyped, NEW n \in Names, NEW from \in Versions \cup {None}, NEW v \in Versions,
         Tells(n, from, v), builds[n][v] # None, builds'[n][v] # None,
         \A w \in Versions \ {v} : builds'[n][w] = builds[n][w],
         versions'[n] = versions[n], ListedAreTold(n), ListedAsFirstTold(n)
  PROVE  ListedAreTold(n)' /\ ListedAsFirstTold(n)'
<1> DEFINE new == Len(changes) + 1
<1>1. /\ ChangesOf(n)' = ChangesOf(n) \cup {new}
      /\ ChangesOf(n) \subseteq 1..Len(changes) /\ Len(changes) \in Nat
  BY ChangesAfter, ChangesArePositions
<1>2. \A i \in ChangesOf(n) : changes'[i] = changes[i]
  BY <1>1, ChangeIsLast
<1>3. changes'[new].to = v
  BY ChangeIsLast
<1>4. ListVersions(n)' = ListVersions(n)
  BY DEF ListVersions
<1>5. {changes'[i].to : i \in ChangesOf(n) \cup {new}}
        = {changes[i].to : i \in ChangesOf(n)} \cup {v}
  BY <1>2, <1>3
<1>6. v \in ToSet(ListVersions(n))
  BY DEF ListedAreTold, GetVersion
<1>7. {w \in Versions : GetVersion(n, w)' # None} = {w \in Versions : GetVersion(n, w) # None}
  BY DEF GetVersion
<1>8. ListedAreTold(n)'
  BY <1>1, <1>4, <1>5, <1>6, <1>7 DEF ListedAreTold
<1>9. ListedAsFirstTold(n)'
  BY <1>1, <1>2, <1>4 DEF ListedAsFirstTold
<1> QED
  BY <1>8, <1>9

(* ... and when it is the first one of its name.                           *)
LEMMA ListedFirst ==
  ASSUME HubTyped, NEW n \in Names, NEW from \in Versions \cup {None}, NEW v \in Versions,
         Tells(n, from, v), builds[n][v] = None, builds'[n][v] # None,
         \A w \in Versions \ {v} : builds'[n][w] = builds[n][w],
         versions'[n] = Append(versions[n], v), ListedAreTold(n), ListedAsFirstTold(n)
  PROVE  ListedAreTold(n)' /\ ListedAsFirstTold(n)'
<1> DEFINE new == Len(changes) + 1
<1>1. /\ ChangesOf(n)' = ChangesOf(n) \cup {new}
      /\ ChangesOf(n) \subseteq 1..Len(changes) /\ Len(changes) \in Nat
  BY ChangesAfter, ChangesArePositions
<1>2. \A i \in ChangesOf(n) : changes'[i] = changes[i]
  BY <1>1, ChangeIsLast
<1>3. changes'[new].to = v
  BY ChangeIsLast
<1> DEFINE vs == ListVersions(n)
           n1 == Len(vs) + 1
<1>4. /\ vs \in Seq(Versions) /\ ListVersions(n)' = Append(vs, v)
      /\ Len(vs) \in Nat
  BY DEF ListVersions, HubTyped
<1> HIDE DEF vs
<1>5. /\ DOMAIN vs = 1..Len(vs) /\ DOMAIN Append(vs, v) = 1..n1
      /\ \A a \in 1..Len(vs) : Append(vs, v)[a] = vs[a]
      /\ Append(vs, v)[n1] = v
  BY <1>4
<1>6. /\ ToSet(vs) = {vs[a] : a \in 1..Len(vs)}
      /\ ToSet(Append(vs, v)) = {Append(vs, v)[a] : a \in 1..n1}
  BY <1>5 DEF ToSet
<1>7. ToSet(Append(vs, v)) = ToSet(vs) \cup {v}
  <2>1. \A a : a \in 1..n1 <=> a \in 1..Len(vs) \/ a = n1
    BY <1>4
  <2> QED
    BY <1>5, <1>6, <2>1
<1>8. {changes'[i].to : i \in ChangesOf(n) \cup {new}}
        = {changes[i].to : i \in ChangesOf(n)} \cup {v}
  BY <1>2, <1>3
<1>9. {w \in Versions : GetVersion(n, w)' # None} = {w \in Versions : GetVersion(n, w) # None} \cup {v}
  BY DEF GetVersion
<1>10. ToSet(vs) = {changes[i].to : i \in ChangesOf(n)}
       /\ ToSet(vs) = {w \in Versions : GetVersion(n, w) # None}
  BY DEF ListedAreTold, vs
<1>11. ListedAreTold(n)'
  BY <1>1, <1>4, <1>7, <1>8, <1>9, <1>10 DEF ListedAreTold
<1>12. v \notin ToSet(vs)
  BY <1>10 DEF GetVersion
<1> DEFINE ws == Append(vs, v)
<1>13. ws[n1] = v /\ \A a \in 1..Len(vs) : ws[a] = vs[a]
  BY <1>5
<1> HIDE DEF ws
<1>14. ASSUME NEW a \in 1..n1, NEW b \in 1..n1, a < b
       PROVE  \E i \in ChangesOf(n) \cup {new} :
                /\ changes'[i].to = ws[a]
                /\ \A j \in ChangesOf(n) \cup {new} : j <= i => changes'[j].to # ws[b]
  <2>1. a \in 1..Len(vs) /\ ws[a] = vs[a]
    <3>1. a \in 1..Len(vs)
      BY <1>4, <1>14
    <3> QED
      BY <1>13, <3>1
  <2>2. CASE b = n1
    <3>0. vs[a] \in ToSet(vs)
      BY <1>5, <2>1 DEF ToSet
    <3>1. PICK i \in ChangesOf(n) : changes[i].to = vs[a]
      BY <1>10, <3>0
    <3>2. \A j \in ChangesOf(n) : changes[j].to # v
      BY <1>10, <1>12
    <3>3. ~(new <= i)
      BY <1>1
    <3> QED
      BY <1>2, <1>13, <2>1, <2>2, <3>1, <3>2, <3>3
  <2>3. CASE b \in 1..Len(vs)
    <3>1. PICK i \in ChangesOf(n) :
             /\ changes[i].to = vs[a]
             /\ \A j \in ChangesOf(n) : j <= i => changes[j].to # vs[b]
      BY <1>5, <1>14, <2>1, <2>3 DEF ListedAsFirstTold, vs
    <3>2. ~(new <= i)
      BY <1>1
    <3> QED
      BY <1>2, <1>13, <2>1, <2>3, <3>1, <3>2
  <2> QED
    BY <1>4, <2>2, <2>3
<1>15. ListedAsFirstTold(n)'
  BY <1>1, <1>4, <1>5, <1>14 DEF ListedAsFirstTold, ws
<1> QED
  BY <1>11, <1>15

(* Without a change, the log goes on agreeing with what it agreed with.    *)
LEMMA LogStays ==
  ASSUME UNCHANGED <<versions, builds, active, changes>>, NEW n \in Names,
         ActiveIsLastTold(n), ChangesChain(n), ListedAreTold(n), ListedAsFirstTold(n)
  PROVE  (ActiveIsLastTold(n) /\ ChangesChain(n) /\ ListedAreTold(n) /\ ListedAsFirstTold(n))'
<1>1. /\ ChangesOf(n)' = ChangesOf(n) /\ ActiveVersion(n)' = ActiveVersion(n)
      /\ ListVersions(n)' = ListVersions(n) /\ \A v : GetVersion(n, v)' = GetVersion(n, v)
      /\ changes' = changes
  BY DEF ChangesOf, ActiveVersion, ListVersions, GetVersion
<1>2. \A i, j : LastBefore(n, j, i)' <=> LastBefore(n, j, i)
  BY <1>1 DEF LastBefore
<1>3. ActiveIsLastTold(n)'
  BY <1>1, <1>2 DEF ActiveIsLastTold
<1>4. ChangesChain(n)'
  BY <1>1, <1>2 DEF ChangesChain
<1>5. ListedAreTold(n)'
  BY <1>1 DEF ListedAreTold
<1>6. ListedAsFirstTold(n)'
  BY <1>1 DEF ListedAsFirstTold
<1> QED
  BY <1>3, <1>4, <1>5, <1>6

LEMMA HubInvNext == HubInv /\ [Next]_vars => HubInv'
<1> SUFFICES ASSUME HubInv, [Next]_vars PROVE HubInv'
  OBVIOUS
<1> USE DEF HubInv
<1>1. ASSUME UNCHANGED hub PROVE HubInv'
  <2>1. HubTyped'
    BY <1>1 DEF hub, HubTyped
  <2>2. ASSUME NEW n \in Names
        PROVE  (ActiveIsLastTold(n) /\ ChangesChain(n) /\ ListedAreTold(n) /\ ListedAsFirstTold(n))'
    BY <1>1, LogStays DEF hub, HubAndLogAgree
  <2>3. ASSUME NEW n \in Names PROVE ActiveIsServed(n)'
    BY <1>1 DEF hub, HubAndLogAgree, ActiveIsServed, ActiveVersion, GetVersion, Get
  <2> QED
    BY <2>1, <2>2, <2>3 DEF HubAndLogAgree
<1>2. ASSUME NEW m \in Names, NEW b \in Builds, Register(m, b) PROVE HubInv'
  <2>1. UNCHANGED <<versions, builds, active, changes>> /\ plain' = plain \cup {m}
        /\ backends' = [backends EXCEPT ![m] = b]
    BY <1>2 DEF Register
  <2>2. HubTyped'
    BY <2>1 DEF HubTyped
  <2>3. ASSUME NEW n \in Names
        PROVE  (ActiveIsLastTold(n) /\ ChangesChain(n) /\ ListedAreTold(n) /\ ListedAsFirstTold(n))'
    BY <2>1, LogStays DEF HubAndLogAgree
  <2>4. ASSUME NEW n \in Names PROVE ActiveIsServed(n)'
    BY <2>1 DEF HubTyped, HubAndLogAgree, ActiveIsServed, ActiveVersion, GetVersion, Get
  <2> QED
    BY <2>2, <2>3, <2>4 DEF HubAndLogAgree
<1>3. ASSUME NEW m \in Names, NEW v \in Versions, NEW b \in Builds, RegisterVersion(m, v, b)
      PROVE  HubInv'
  <2>1. /\ builds' = [builds EXCEPT ![m][v] = b] /\ active' = [active EXCEPT ![m] = v]
        /\ backends' = [backends EXCEPT ![m] = b] /\ plain' = plain \ {m}
        /\ Tells(m, None, v)
    BY <1>3 DEF RegisterVersion
  <2>2. versions' = IF builds[m][v] = None THEN [versions EXCEPT ![m] = Append(@, v)] ELSE versions
    BY <1>3 DEF RegisterVersion
  <2>3. /\ active'[m] = v /\ backends'[m] = b /\ builds'[m][v] = b
        /\ \A w \in Versions \ {v} : builds'[m][w] = builds[m][w]
        /\ \A n \in Names \ {m} : /\ builds'[n] = builds[n] /\ active'[n] = active[n]
                                   /\ backends'[n] = backends[n] /\ versions'[n] = versions[n]
    BY <2>1, <2>2 DEF HubTyped
  <2>4. b # None /\ v # None
    BY LifecycleAssumption
  <2>5. HubTyped'
    <3>1. versions' \in [Names -> Seq(Versions)]
      BY <2>2 DEF HubTyped
    <3>2. changes' \in Seq(ChangeRecords)
      BY <2>1, ChangeIsLast
    <3> QED
      BY <2>1, <3>1, <3>2 DEF HubTyped
  <2>6. ASSUME NEW n \in Names \ {m}
        PROVE  (ActiveIsLastTold(n) /\ ChangesChain(n) /\ ListedAreTold(n) /\ ListedAsFirstTold(n))'
    BY <2>1, <2>3, LogOfOthers DEF HubAndLogAgree
  <2>7. ActiveIsLastTold(m)' /\ ChangesChain(m)'
    BY <2>1, <2>3, LogOfChanged DEF HubAndLogAgree
  <2>8. ListedAreTold(m)' /\ ListedAsFirstTold(m)'
    <3>1. CASE builds[m][v] = None
      <4>1. versions'[m] = Append(versions[m], v)
        BY <2>2, <3>1 DEF HubTyped
      <4> QED
        BY <2>1, <2>3, <2>4, <3>1, <4>1, ListedFirst DEF HubAndLogAgree
    <3>2. CASE builds[m][v] # None
      BY <2>1, <2>2, <2>3, <2>4, <3>2, ListedAgain DEF HubAndLogAgree
    <3> QED
      BY <3>1, <3>2
  <2>9. ASSUME NEW n \in Names PROVE ActiveIsServed(n)'
    BY <2>1, <2>3, <2>4 DEF HubAndLogAgree, ActiveIsServed, ActiveVersion, GetVersion, Get
  <2> QED
    BY <2>5, <2>6, <2>7, <2>8, <2>9 DEF HubAndLogAgree
<1>4. ASSUME NEW m \in Names, NEW v \in Versions, Rollback(m, v) PROVE HubInv'
  <2>1. /\ builds[m][v] # None /\ active' = [active EXCEPT ![m] = v]
        /\ backends' = [backends EXCEPT ![m] = builds[m][v]] /\ plain' = plain \ {m}
        /\ UNCHANGED <<versions, builds>> /\ Tells(m, active[m], v)
    BY <1>4 DEF Rollback
  <2>2. /\ active'[m] = v /\ backends'[m] = builds[m][v] /\ active[m] \in Versions \cup {None}
        /\ \A n \in Names \ {m} : active'[n] = active[n] /\ backends'[n] = backends[n]
    BY <2>1 DEF HubTyped
  <2>3. HubTyped'
    <3>1. changes' \in Seq(ChangeRecords)
      BY <2>1, <2>2, ChangeIsLast
    <3> QED
      BY <2>1, <3>1 DEF HubTyped
  <2>4. ASSUME NEW n \in Names \ {m}
        PROVE  (ActiveIsLastTold(n) /\ ChangesChain(n) /\ ListedAreTold(n) /\ ListedAsFirstTold(n))'
    BY <2>1, <2>2, LogOfOthers DEF HubAndLogAgree
  <2>5. ActiveIsLastTold(m)' /\ ChangesChain(m)'
    BY <2>1, <2>2, LogOfChanged DEF HubAndLogAgree
  <2>6. ListedAreTold(m)' /\ ListedAsFirstTold(m)'
    BY <2>1, <2>2, ListedAgain DEF HubAndLogAgree
  <2>7. v # None
    BY LifecycleAssumption
  <2>8. ASSUME NEW n \in Names PROVE ActiveIsServed(n)'
    BY <2>1, <2>2, <2>7 DEF HubAndLogAgree, ActiveIsServed, ActiveVersion, GetVersion, Get
  <2> QED
    BY <2>3, <2>4, <2>5, <2>6, <2>8 DEF HubAndLogAgree
<1>5. ASSUME NEW t \in Tuners,
             \/ Start(t) \/ StartFails(t) \/ StartRaisesLate(t) \/ MakeTrainer(t)
             \/ Train(t) \/ LogMetrics(t) \/ EndRun(t) \/ EndFails(t)
      PROVE  HubInv'
  <2>1. UNCHANGED hub
    BY <1>5 DEF Start, StartFails, StartRaisesLate, MakeTrainer, Train, LogMetrics, EndRun, EndFails
  <2> QED
    BY <1>1, <2>1
<1>6. CASE UNCHANGED vars
  BY <1>1, <1>6 DEF vars
<1> QED
  BY <1>2, <1>3, <1>4, <1>5, <1>6 DEF Next

(* The versions of a name, its active version, the back end it is served   *)
(* from and the log of its changes tell one story, for any names, versions *)
(* and operations and however often the logger raises.                     *)
THEOREM HubTellsOneStory == Spec => []HubAndLogAgree
<1>1. Spec => []HubInv
  BY HubInvInit, HubInvNext, PTL DEF Spec
<1> QED
  BY <1>1, PTL DEF HubInv

-----------------------------------------------------------------------------
(***************************************************************************)
(* Induction and sums.                                                     *)
(***************************************************************************)
LEMMA LeastNatural ==
  ASSUME NEW S, S \subseteq Nat, S # {}
  PROVE  \E m \in S : \A k \in S : m <= k
<1> DEFINE R == {ss \in Nat \X Nat : ss[1] < ss[2]}
<1>1. IsWellFoundedOn(R, Nat)
  BY NatLessThanWellFounded DEF OpToRel
<1> HIDE DEF R
<1>2. PICK m \in S : \A k \in S : ~(<<k, m>> \in R)
  BY <1>1, WFMin
<1>3. ASSUME NEW k \in S, k < m PROVE FALSE
  <2>1. k \in Nat /\ m \in Nat
    OBVIOUS
  <2>2. <<k, m>> \in R
    BY <1>3, <2>1 DEF R
  <2> QED
    BY <1>2, <2>2
<1> QED
  BY <1>2, <1>3

(* Induction over the naturals, of a set instead of a predicate.           *)
LEMMA SetInduction ==
  ASSUME NEW S, 0 \in S, \A n \in Nat : n \in S => n + 1 \in S
  PROVE  Nat \subseteq S
<1> SUFFICES ASSUME Nat \ S # {} PROVE FALSE
  OBVIOUS
<1>1. PICK m \in Nat \ S : \A k \in Nat \ S : m <= k
  BY LeastNatural
<1>2. m # 0 /\ m - 1 \in Nat /\ ~(m <= m - 1)
  BY <1>1
<1>3. (m - 1) + 1 \in S
  BY <1>1, <1>2
<1> QED
  BY <1>1, <1>3

(* The sums of the first 0, 1, ... elements of s.                          *)
AddsUp(f, s, n) ==
    /\ f \in [0..n -> Nat] /\ f[0] = 0
    /\ \A k \in 1..n : f[k] = f[k - 1] + s[k]

LEMMA SumsExist ==
  ASSUME NEW s \in Seq(Nat)
  PROVE  \E f : AddsUp(f, s, Len(s))
<1> DEFINE S == {n \in Nat : n <= Len(s) => \E f : AddsUp(f, s, n)}
<1>1. 0 \in S
  <2>1. AddsUp([k \in 0..0 |-> 0], s, 0)
    BY DEF AddsUp
  <2> QED
    BY <2>1
<1>2. ASSUME NEW n \in Nat, n \in S PROVE n + 1 \in S
  <2> SUFFICES ASSUME n + 1 <= Len(s) PROVE \E g : AddsUp(g, s, n + 1)
    OBVIOUS
  <2>1. PICK f : AddsUp(f, s, n)
    BY <1>2
  <2> DEFINE g == [k \in 0..(n + 1) |-> IF k = n + 1 THEN f[n] + s[n + 1] ELSE f[k]]
  <2>2. f[n] \in Nat /\ s[n + 1] \in Nat
    BY <2>1 DEF AddsUp
  <2>3. g \in [0..(n + 1) -> Nat]
    BY <2>1, <2>2 DEF AddsUp
  <2>4. g[0] = 0
    BY <2>1 DEF AddsUp
  <2>5. ASSUME NEW k \in 1..(n + 1) PROVE g[k] = g[k - 1] + s[k]
    <3>1. k - 1 \in 0..n /\ g[k - 1] = f[k - 1]
      OBVIOUS
    <3>2. CASE k = n + 1
      BY <3>1, <3>2
    <3>3. CASE k # n + 1
      <4>1. k \in 1..n /\ g[k] = f[k]
        BY <3>3
      <4> QED
        BY <2>1, <3>1, <4>1 DEF AddsUp
    <3> QED
      BY <3>2, <3>3
  <2> HIDE DEF g
  <2> QED
    BY <2>3, <2>4, <2>5 DEF AddsUp
<1>3. Nat \subseteq S
  <2> HIDE DEF S
  <2> QED
    BY <1>1, <1>2, SetInduction
<1> QED
  BY <1>3

(* There is one way only to add up.                                        *)
LEMMA SumsAgree ==
  ASSUME NEW s \in Seq(Nat), NEW f, NEW g, AddsUp(f, s, Len(s)), AddsUp(g, s, Len(s))
  PROVE  \A n \in 0..Len(s) : f[n] = g[n]
<1> DEFINE S == {n \in Nat : n <= Len(s) => f[n] = g[n]}
<1>1. 0 \in S
  BY DEF AddsUp
<1>2. ASSUME NEW n \in Nat, n \in S PROVE n + 1 \in S
  <2> SUFFICES ASSUME n + 1 <= Len(s) PROVE f[n + 1] = g[n + 1]
    OBVIOUS
  <2>1. n + 1 \in 1..Len(s) /\ (n + 1) - 1 = n /\ f[n] = g[n]
    BY <1>2
  <2> QED
    BY <2>1 DEF AddsUp
<1>3. Nat \subseteq S
  <2> HIDE DEF S
  <2> QED
    BY <1>1, <1>2, SetInduction
<1> QED
  BY <1>3

(* Sum computes what adds up.                                              *)
LEMMA SumIs ==
  ASSUME NEW s \in Seq(Nat), NEW f, AddsUp(f, s, Len(s))
  PROVE  Sum(s) = f[Len(s)]
<1> DEFINE Total(g) == g = [n \in 0..Len(s) |-> IF n = 0 THEN 0 ELSE g[n - 1] + s[n]]
           h == CHOOSE g : Total(g)
<1>1. Sum(s) = h[Len(s)]
  BY DEF Sum
<1>2. Total(f)
  <2>1. f = [n \in 0..Len(s) |-> f[n]]
    BY DEF AddsUp
  <2>2. ASSUME NEW n \in 0..Len(s)
        PROVE  f[n] = IF n = 0 THEN 0 ELSE f[n - 1] + s[n]
    BY DEF AddsUp
  <2> QED
    BY <2>1, <2>2
<1>3. Total(h)
  BY <1>2
<1> HIDE DEF h
<1>4. \A n \in 0..Len(s) : h[n] = IF n = 0 THEN 0 ELSE h[n - 1] + s[n]
  BY <1>3
<1> HIDE DEF Total
<1> DEFINE S == {n \in Nat : n <= Len(s) => h[n] = f[n]}
<1>5. 0 \in S
  BY <1>4 DEF AddsUp
<1>6. ASSUME NEW n \in Nat, n \in S PROVE n + 1 \in S
  <2> SUFFICES ASSUME n + 1 <= Len(s) PROVE h[n + 1] = f[n + 1]
    OBVIOUS
  <2>1. n + 1 \in 1..Len(s) /\ n + 1 \in 0..Len(s) /\ n + 1 # 0 /\ (n + 1) - 1 = n /\ h[n] = f[n]
    BY <1>6
  <2>2. h[n + 1] = h[n] + s[n + 1]
    BY <1>4, <2>1
  <2> QED
    BY <2>1, <2>2 DEF AddsUp
<1>7. Nat \subseteq S
  <2> HIDE DEF S
  <2> QED
    BY <1>5, <1>6, SetInduction
<1> QED
  BY <1>1, <1>7

(* What a part of a sequence holds, and what one item more makes of it.    *)
LEMMA PartOf ==
  ASSUME NEW s \in Seq(Nat), NEW a \in Nat, NEW b \in Nat,
         1 <= a, a <= b + 1, b <= Len(s)
  PROVE  /\ SubSeq(s, a, b) \in Seq(Nat) /\ Len(SubSeq(s, a, b)) = b - a + 1
         /\ \A i \in 1..(b - a + 1) : SubSeq(s, a, b)[i] = s[a + i - 1]
OBVIOUS

LEMMA EndOf ==
  ASSUME NEW s \in Seq(Nat), NEW a \in 0..Len(s)
  PROVE  /\ SubSeq(s, a + 1, Len(s)) \in Seq(Nat)
         /\ Len(SubSeq(s, a + 1, Len(s))) = Len(s) - a
         /\ \A i \in 1..(Len(s) - a) : SubSeq(s, a + 1, Len(s))[i] = s[a + i]
<1> DEFINE c == a + 1
           b == Len(s)
           x == SubSeq(s, c, b)
<1>1. /\ c \in Nat /\ b \in Nat /\ 1 <= c /\ c <= b + 1 /\ b <= Len(s)
      /\ b - c + 1 = b - a /\ \A i \in Nat : c + i - 1 = a + i
  OBVIOUS
<1> HIDE DEF c
<1>2. /\ x \in Seq(Nat) /\ Len(x) = b - c + 1
      /\ \A i \in 1..(b - c + 1) : x[i] = s[c + i - 1]
  BY <1>1, PartOf
<1> HIDE DEF b, x
<1>3. ASSUME NEW i \in 1..(b - a) PROVE x[i] = s[a + i]
  <2>1. i \in 1..(b - c + 1) /\ c + i - 1 = a + i
    BY <1>1
  <2>2. x[i] = s[c + i - 1]
    BY <1>2, <2>1
  <2> QED
    BY <2>1, <2>2
<1>4. x \in Seq(Nat) /\ Len(x) = b - a
  BY <1>1, <1>2
<1> QED
  BY <1>3, <1>4 DEF b, c, x

LEMMA OneMore ==
  ASSUME NEW s \in Seq(Nat), NEW n \in Nat
  PROVE  /\ Append(s, n) \in Seq(Nat) /\ Len(Append(s, n)) = Len(s) + 1
         /\ Append(s, n)[Len(s) + 1] = n
         /\ \A i \in 1..Len(s) : Append(s, n)[i] = s[i]
OBVIOUS

(* A sum of a part is a difference of two sums of beginnings.              *)
LEMMA SumOfParts ==
  ASSUME NEW s \in Seq(Nat)
  PROVE  \E P : /\ AddsUp(P, s, Len(s))
                /\ \A a, b \in Nat : 1 <= a /\ a <= b + 1 /\ b <= Len(s)
                                     => Sum(SubSeq(s, a, b)) = P[b] - P[a - 1]
<1>1. PICK P : AddsUp(P, s, Len(s))
  BY SumsExist
<1>2. ASSUME NEW a \in Nat, NEW b \in Nat, 1 <= a, a <= b + 1, b <= Len(s)
      PROVE  Sum(SubSeq(s, a, b)) = P[b] - P[a - 1]
  <2> DEFINE t == SubSeq(s, a, b)
  <2>1. t \in Seq(Nat) /\ Len(t) = b - a + 1 /\ b - a + 1 \in Nat
    BY <1>2
  <2>2. \A k \in 1..Len(t) : t[k] = s[a + k - 1]
    BY <1>2
  <2>3. PICK Q : AddsUp(Q, t, Len(t))
    BY <2>1, SumsExist
  <2>4. Sum(t) = Q[Len(t)]
    BY <2>1, <2>3, SumIs
  <2> HIDE DEF t
  <2> DEFINE S == {n \in Nat : n <= Len(t) => Q[n] = P[a - 1 + n] - P[a - 1]}
  <2>5. 0 \in S
    <3>1. P[a - 1] \in Nat /\ a - 1 + 0 = a - 1
      BY <1>1, <1>2 DEF AddsUp
    <3>2. Q[0] = 0
      BY <2>3 DEF AddsUp
    <3> QED
      BY <3>1, <3>2
  <2>6. ASSUME NEW n \in Nat, n \in S PROVE n + 1 \in S
    <3> SUFFICES ASSUME n + 1 <= Len(t) PROVE Q[n + 1] = P[a - 1 + (n + 1)] - P[a - 1]
      OBVIOUS
    <3>1. Q[n] = P[a - 1 + n] - P[a - 1]
      BY <2>1, <2>6
    <3>2. n + 1 \in 1..Len(t) /\ (n + 1) - 1 = n /\ t[n + 1] = s[a + (n + 1) - 1]
      BY <2>1, <2>2
    <3>3. Q[n + 1] = Q[n] + t[n + 1]
      BY <2>3, <3>2 DEF AddsUp
    <3>4. /\ a + n \in 1..Len(s) /\ a + (n + 1) - 1 = a + n /\ a - 1 + (n + 1) = a + n
          /\ (a + n) - 1 = a - 1 + n /\ a - 1 \in 0..Len(s) /\ a - 1 + n \in 0..Len(s)
      BY <1>2, <2>1
    <3>5. P[a + n] = P[a - 1 + n] + s[a + n]
      BY <1>1, <3>4 DEF AddsUp
    <3>6. P[a - 1] \in Nat /\ P[a - 1 + n] \in Nat
      <4>1. P \in [0..Len(s) -> Nat]
        BY <1>1 DEF AddsUp
      <4> QED
        BY <3>4, <4>1
    <3> s[a + n] \in Nat
      BY <3>4
    <3>7. Q[n + 1] = (P[a - 1 + n] - P[a - 1]) + s[a + n]
      BY <3>1, <3>2, <3>3, <3>4
    <3>8. P[a - 1 + (n + 1)] = P[a - 1 + n] + s[a + n]
      BY <3>4, <3>5
    <3> QED
      BY <3>6, <3>7, <3>8
  <2>7. Nat \subseteq S
    <3> HIDE DEF S
    <3> QED
      BY <2>5, <2>6, SetInduction
  <2>8. Q[Len(t)] = P[a - 1 + Len(t)] - P[a - 1]
    BY <2>1, <2>7
  <2>9. a - 1 + Len(t) = b
    BY <1>2, <2>1
  <2> QED
    BY <2>4, <2>8, <2>9 DEF t
<1> QED
  BY <1>1, <1>2

(* What one more number adds.                                              *)
LEMMA SumAppend ==
  ASSUME NEW s \in Seq(Nat), NEW n \in Nat
  PROVE  Sum(Append(s, n)) = Sum(s) + n
<1> DEFINE t == Append(s, n)
<1>1. t \in Seq(Nat) /\ Len(t) = Len(s) + 1 /\ t[Len(s) + 1] = n /\ Len(s) \in Nat
  OBVIOUS
<1>2. \A k \in 1..Len(s) : t[k] = s[k]
  OBVIOUS
<1> HIDE DEF t
<1>3. PICK Q : AddsUp(Q, t, Len(t))
  BY <1>1, SumsExist
<1>4. Sum(t) = Q[Len(s) + 1]
  BY <1>1, <1>3, SumIs
<1> DEFINE P == [k \in 0..Len(s) |-> Q[k]]
<1>5. AddsUp(P, s, Len(s))
  <2>1. P \in [0..Len(s) -> Nat] /\ P[0] = 0
    BY <1>1, <1>3 DEF AddsUp
  <2>2. ASSUME NEW k \in 1..Len(s) PROVE P[k] = P[k - 1] + s[k]
    <3>1. k \in 0..Len(s) /\ k - 1 \in 0..Len(s) /\ k \in 1..Len(t)
      BY <1>1
    <3>2. Q[k] = Q[k - 1] + t[k]
      BY <1>3, <3>1 DEF AddsUp
    <3> QED
      BY <1>2, <3>1, <3>2
  <2> HIDE DEF P
  <2> QED
    BY <2>1, <2>2 DEF AddsUp
<1>6. Sum(s) = P[Len(s)]
  <2> HIDE DEF P
  <2> QED
    BY <1>5, SumIs
<1>7. P[Len(s)] = Q[Len(s)]
  BY <1>1
<1>8. Len(s) + 1 \in 1..Len(t) /\ (Len(s) + 1) - 1 = Len(s)
  BY <1>1
<1>9. Q[Len(s) + 1] = Q[Len(s)] + t[Len(s) + 1]
  BY <1>3, <1>8 DEF AddsUp
<1> QED
  BY <1>1, <1>4, <1>6, <1>7, <1>9 DEF t

-----------------------------------------------------------------------------
(***************************************************************************)
(* What a short-term memory holds.                                         *)
(***************************************************************************)
Forgotten == Len(added) - Len(buffer)

(* The buffer is the end of what was added.                                *)
HoldsTheEnd ==
    /\ buffer \in Seq(Nat) /\ added \in Seq(Nat) /\ Len(buffer) <= Len(added)
    /\ \A i \in 1..Len(buffer) : buffer[i] = added[Forgotten + i]
    /\ added # <<>> => buffer # <<>>

(* It fits, as far as a single item can, and one item more would not.      *)
FitsAndIsFull ==
    /\ total = Sum(buffer)
    /\ Sum(buffer) <= Budget \/ Len(buffer) = 1
    /\ \A j \in 1..Forgotten : ~(Sum(SubSeq(added, j, Len(added))) <= Budget)

MemInv == /\ class \in {"short", "long"}
          /\ class = "short" => HoldsTheEnd /\ FitsAndIsFull

LEMMA NothingSumsToZero == Sum(<<>>) = 0
<1> DEFINE f == [k \in 0..0 |-> 0]
<1>1. <<>> \in Seq(Nat) /\ Len(<<>>) = 0
  OBVIOUS
<1>2. AddsUp(f, <<>>, Len(<<>>)) /\ f[0] = 0
  BY <1>1 DEF AddsUp
<1> HIDE DEF f
<1>3. Sum(<<>>) = f[Len(<<>>)]
  BY <1>1, <1>2, SumIs
<1> QED
  BY <1>1, <1>2, <1>3

LEMMA EmptyMemory ==
  ASSUME buffer = <<>>, added = <<>>, total = 0
  PROVE  HoldsTheEnd /\ FitsAndIsFull
<1>1. Forgotten = 0 /\ Len(buffer) = 0
  BY DEF Forgotten
<1>2. HoldsTheEnd
  BY <1>1 DEF HoldsTheEnd
<1>3. Budget \in Nat /\ Sum(buffer) = 0
  BY NothingSumsToZero, MemoryAssumption
<1>4. FitsAndIsFull
  BY <1>1, <1>3 DEF FitsAndIsFull
<1> QED
  BY <1>2, <1>4

(* add evicts until the new item fits, and not one item longer.            *)
LEMMA EvictsEnough ==
  ASSUME NEW n \in Nat, buffer \in Seq(Nat)
  PROVE  /\ Evicted(n) \in 0..Len(buffer)
         /\ \/ Evicted(n) = Len(buffer)
            \/ total - Sum(SubSeq(buffer, 1, Evicted(n))) + n <= Budget
         /\ \A k \in 0..(Evicted(n) - 1) :
                ~(total - Sum(SubSeq(buffer, 1, k)) + n <= Budget)
<1> DEFINE Fits(k) == k = Len(buffer) \/ total - Sum(SubSeq(buffer, 1, k)) + n <= Budget
           S == {k \in Nat : k <= Len(buffer) /\ Fits(k)}
           Least(k) == Fits(k) /\ \A j \in 0..(k - 1) : ~Fits(j)
           e == CHOOSE k \in 0..Len(buffer) : Least(k)
<1>1. Len(buffer) \in Nat /\ Len(buffer) \in S
  OBVIOUS
<1>2. S \subseteq Nat /\ S # {}
  BY <1>1
<1>3. PICK m \in S : \A k \in S : m <= k
  <2> HIDE DEF S
  <2> QED
    BY <1>2, LeastNatural
<1>4. m \in 0..Len(buffer) /\ Fits(m)
  BY <1>1, <1>3
<1>5. ASSUME NEW j \in 0..(m - 1) PROVE ~Fits(j)
  <2> SUFFICES ASSUME Fits(j) PROVE FALSE
    OBVIOUS
  <2>1. j \in Nat /\ j <= Len(buffer) /\ ~(m <= j)
    BY <1>1, <1>4
  <2>2. j \in S
    BY <2>1
  <2> QED
    BY <1>3, <2>1, <2>2
<1>6. \E k \in 0..Len(buffer) : Least(k)
  <2> HIDE DEF Fits
  <2> QED
    BY <1>4, <1>5
<1>7. e \in 0..Len(buffer) /\ Least(e)
  <2> HIDE DEF Least
  <2> QED
    BY <1>6
<1>8. Evicted(n) = e
  BY DEF Evicted
<1> HIDE DEF e
<1>9. \A k \in 0..(e - 1) : ~Fits(k)
  BY <1>7
<1>10. Fits(e)
  BY <1>7
<1> QED
  BY <1>7, <1>8, <1>9, <1>10

(* The end of the buffer from the next item but k is one of what was added.*)
LEMMA EndsOfTheBuffer ==
  ASSUME HoldsTheEnd, NEW k \in 0..Len(buffer)
  PROVE  SubSeq(buffer, k + 1, Len(buffer))
           = SubSeq(added, Forgotten + k + 1, Len(added))
<1>1. /\ buffer \in Seq(Nat) /\ added \in Seq(Nat) /\ Len(buffer) <= Len(added)
      /\ Forgotten = Len(added) - Len(buffer) /\ Len(buffer) \in Nat /\ Len(added) \in Nat
      /\ \A i \in 1..Len(buffer) : buffer[i] = added[Forgotten + i]
  BY DEF HoldsTheEnd, Forgotten
<1> DEFINE x == SubSeq(buffer, k + 1, Len(buffer))
           y == SubSeq(added, Forgotten + k + 1, Len(added))
<1>2. x \in Seq(Nat) /\ Len(x) = Len(buffer) - k
      /\ \A i \in 1..(Len(buffer) - k) : x[i] = buffer[k + i]
  BY <1>1, EndOf
<1>3. y \in Seq(Nat) /\ Len(y) = Len(buffer) - k
      /\ \A i \in 1..(Len(buffer) - k) : y[i] = added[Forgotten + k + i]
  <2>1. /\ Forgotten + k + 1 \in Nat /\ 1 <= Forgotten + k + 1
        /\ Forgotten + k + 1 <= Len(added) + 1
        /\ Len(added) - (Forgotten + k + 1) + 1 = Len(buffer) - k
    BY <1>1
  <2>2. y \in Seq(Nat) /\ Len(y) = Len(buffer) - k
        /\ \A i \in 1..(Len(buffer) - k) : y[i] = added[Forgotten + k + 1 + i - 1]
    <3>1. /\ y \in Seq(Nat) /\ Len(y) = Len(added) - (Forgotten + k + 1) + 1
          /\ \A i \in 1..(Len(added) - (Forgotten + k + 1) + 1) :
                 y[i] = added[Forgotten + k + 1 + i - 1]
      <4> DEFINE a == Forgotten + k + 1
      <4>1. y = SubSeq(added, a, Len(added))
        OBVIOUS
      <4>2. a \in Nat /\ 1 <= a /\ a <= Len(added) + 1 /\ Len(added) <= Len(added)
        BY <1>1, <2>1
      <4> HIDE DEF a, y
      <4>3. /\ y \in Seq(Nat) /\ Len(y) = Len(added) - a + 1
            /\ \A i \in 1..(Len(added) - a + 1) : y[i] = added[a + i - 1]
        BY <1>1, <4>1, <4>2, PartOf
      <4> QED
        BY <4>3 DEF a
    <3> HIDE DEF y
    <3> QED
      BY <2>1, <3>1
  <2>3. \A i \in 1..(Len(buffer) - k) : Forgotten + k + 1 + i - 1 = Forgotten + k + i
    BY <1>1
  <2> HIDE DEF y
  <2> QED
    BY <2>2, <2>3
<1> HIDE DEF x, y
<1>4. ASSUME NEW i \in 1..Len(x) PROVE x[i] = y[i]
  <2>1. /\ i \in 1..(Len(buffer) - k) /\ k + i \in 1..Len(buffer)
        /\ Forgotten + (k + i) = Forgotten + k + i
    <3>1. /\ i \in Nat /\ 1 <= i /\ i <= Len(buffer) - k
          /\ k \in Nat /\ k <= Len(buffer) /\ Len(buffer) \in Nat /\ Forgotten \in Int
      BY <1>1, <1>2
    <3> QED
      BY <3>1
  <2>2. buffer[k + i] = added[Forgotten + (k + i)]
    BY <1>1, <2>1
  <2> QED
    BY <1>2, <1>3, <2>1, <2>2
<1>5. x = y
  BY <1>2, <1>3, <1>4, SeqEqual
<1> QED
  BY <1>5 DEF x, y

LEMMA AddKeepsTheEnd ==
  ASSUME HoldsTheEnd, NEW n \in Nat, NEW e \in 0..Len(buffer),
         buffer' = Append(SubSeq(buffer, e + 1, Len(buffer)), n),
         added' = Append(added, n)
  PROVE  HoldsTheEnd' /\ Forgotten' = Forgotten + e /\ Len(buffer') = Len(buffer) - e + 1
<1>1. /\ buffer \in Seq(Nat) /\ added \in Seq(Nat) /\ Len(buffer) <= Len(added)
      /\ Len(buffer) \in Nat /\ Len(added) \in Nat
      /\ \A i \in 1..Len(buffer) : buffer[i] = added[Forgotten + i]
  BY DEF HoldsTheEnd
<1> DEFINE x == SubSeq(buffer, e + 1, Len(buffer))
<1>2. x \in Seq(Nat) /\ Len(x) = Len(buffer) - e
      /\ \A i \in 1..(Len(buffer) - e) : x[i] = buffer[e + i]
  BY <1>1, EndOf
<1>3. buffer' = Append(x, n)
  OBVIOUS
<1> HIDE DEF x
<1>4. /\ buffer' \in Seq(Nat) /\ Len(buffer') = Len(buffer) - e + 1
      /\ buffer'[Len(buffer) - e + 1] = n
      /\ \A i \in 1..(Len(buffer) - e) : buffer'[i] = x[i]
  <2>1. /\ buffer' \in Seq(Nat) /\ Len(buffer') = Len(x) + 1
        /\ buffer'[Len(x) + 1] = n /\ \A i \in 1..Len(x) : buffer'[i] = x[i]
    <3>1. /\ Append(x, n) \in Seq(Nat) /\ Len(Append(x, n)) = Len(x) + 1
          /\ Append(x, n)[Len(x) + 1] = n
          /\ \A i \in 1..Len(x) : Append(x, n)[i] = x[i]
      BY <1>2, OneMore
    <3> QED
      BY <1>3, <3>1, Zenon
  <2> QED
    BY <1>2, <2>1
<1>5. \A i \in 1..(Len(buffer) - e) : buffer'[i] = buffer[e + i]
  BY <1>2, <1>4
<1>6. /\ added' \in Seq(Nat) /\ Len(added') = Len(added) + 1 /\ added'[Len(added) + 1] = n
      /\ \A i \in 1..Len(added) : added'[i] = added[i]
  BY <1>1, OneMore
<1>7. Forgotten = Len(added) - Len(buffer) /\ Forgotten' = Forgotten + e
  <2>1. /\ Len(buffer') = Len(buffer) - e + 1 /\ Len(added') = Len(added) + 1
        /\ Len(buffer) \in Nat /\ Len(added) \in Nat /\ e \in Nat
    BY <1>1, <1>4, <1>6
  <2>2. Forgotten = Len(added) - Len(buffer) /\ Forgotten' = Len(added') - Len(buffer')
    BY DEF Forgotten
  <2> QED
    BY <2>1, <2>2
<1>8. ASSUME NEW i \in 1..Len(buffer') PROVE buffer'[i] = added'[Forgotten' + i]
  <2>1. CASE i = Len(buffer) - e + 1
    <3>1. Forgotten' + i = Len(added) + 1
      BY <1>1, <1>7, <2>1
    <3> QED
      BY <1>4, <1>6, <2>1, <3>1
  <2>2. CASE i # Len(buffer) - e + 1
    <3>1. /\ i \in 1..(Len(buffer) - e) /\ e + i \in 1..Len(buffer)
          /\ Forgotten + (e + i) \in 1..Len(added) /\ Forgotten' + i = Forgotten + (e + i)
      <4>1. /\ Len(buffer) \in Nat /\ Len(added) \in Nat /\ Len(buffer) <= Len(added)
            /\ Forgotten = Len(added) - Len(buffer) /\ Forgotten' = Forgotten + e
            /\ i \in Nat /\ 1 <= i /\ i <= Len(buffer) - e + 1
            /\ e \in Nat /\ e <= Len(buffer)
        BY <1>1, <1>4, <1>7
      <4> QED
        BY <2>2, <4>1
    <3>2. buffer'[i] = buffer[e + i]
      BY <1>5, <3>1
    <3>3. buffer[e + i] = added[Forgotten + (e + i)]
      BY <1>1, <3>1
    <3>4. added'[Forgotten + (e + i)] = added[Forgotten + (e + i)]
      BY <1>6, <3>1
    <3> QED
      BY <3>1, <3>2, <3>3, <3>4
  <2> QED
    BY <2>1, <2>2
<1>9. Len(buffer') <= Len(added') /\ buffer' # <<>>
  <2>1. /\ Len(buffer') = Len(buffer) - e + 1 /\ Len(added') = Len(added) + 1
        /\ Len(buffer) \in Nat /\ Len(added) \in Nat /\ Len(buffer) <= Len(added)
    BY <1>1, <1>4, <1>6
  <2>2. Len(buffer') <= Len(added') /\ Len(buffer') # 0
    BY <2>1
  <2> QED
    BY <2>2
<1>10. HoldsTheEnd'
  BY <1>4, <1>6, <1>8, <1>9 DEF HoldsTheEnd
<1> QED
  BY <1>4, <1>7, <1>10

LEMMA AddStaysFull ==
  ASSUME MemInv, NEW n \in Nat, AddShort(n)
  PROVE  HoldsTheEnd' /\ FitsAndIsFull'
<1> DEFINE e == Evicted(n)
<1>1. HoldsTheEnd /\ FitsAndIsFull /\ buffer \in Seq(Nat) /\ added \in Seq(Nat)
      /\ Len(buffer) \in Nat /\ Len(added) \in Nat /\ Len(buffer) <= Len(added)
  BY DEF MemInv, AddShort, HoldsTheEnd
<1>2. /\ e \in 0..Len(buffer)
      /\ e = Len(buffer) \/ total - Sum(SubSeq(buffer, 1, e)) + n <= Budget
      /\ \A k \in 0..(e - 1) : ~(total - Sum(SubSeq(buffer, 1, k)) + n <= Budget)
  BY <1>1, EvictsEnough
<1>3. /\ buffer' = Append(SubSeq(buffer, e + 1, Len(buffer)), n)
      /\ total' = total - Sum(SubSeq(buffer, 1, e)) + n
      /\ added' = Append(added, n)
  BY DEF AddShort
<1> HIDE DEF e
<1>4. HoldsTheEnd' /\ Forgotten' = Forgotten + e /\ Len(buffer') = Len(buffer) - e + 1
  BY <1>1, <1>2, <1>3, AddKeepsTheEnd
<1>5. PICK P : /\ AddsUp(P, buffer, Len(buffer))
               /\ \A a, b \in Nat : 1 <= a /\ a <= b + 1 /\ b <= Len(buffer)
                                    => Sum(SubSeq(buffer, a, b)) = P[b] - P[a - 1]
  BY <1>1, SumOfParts
<1>6. \A k \in 0..Len(buffer) : P[k] \in Nat
  BY <1>5 DEF AddsUp
<1>7. \A k \in 0..Len(buffer) :
         /\ Sum(SubSeq(buffer, 1, k)) = P[k]
         /\ Sum(SubSeq(buffer, k + 1, Len(buffer))) = total - P[k]
  <2>1. P[0] = 0
    BY <1>5 DEF AddsUp
  <2>2. \A k \in 0..Len(buffer) : Sum(SubSeq(buffer, 1, k)) = P[k] - P[0]
    <3> TAKE k \in 0..Len(buffer)
    <3>1. 1 \in Nat /\ k \in Nat /\ 1 <= k + 1 /\ k <= Len(buffer) /\ 1 - 1 = 0
      BY <1>1
    <3>2. Sum(SubSeq(buffer, 1, k)) = P[k] - P[1 - 1]
      BY <1>5, <3>1
    <3> QED
      BY <3>1, <3>2
  <2>3. total = P[Len(buffer)]
    <3>1. SubSeq(buffer, 1, Len(buffer)) = buffer
      BY <1>1
    <3>2. total = Sum(buffer)
      BY <1>1 DEF FitsAndIsFull
    <3>3. Len(buffer) \in 0..Len(buffer)
      BY <1>1
    <3>4. Sum(SubSeq(buffer, 1, Len(buffer))) = P[Len(buffer)] - P[0]
      BY <2>2, <3>3
    <3>5. P[Len(buffer)] \in Nat
      BY <1>6, <3>3
    <3>6. Sum(SubSeq(buffer, 1, Len(buffer))) = total
      BY <3>1, <3>2
    <3> QED
      BY <2>1, <3>4, <3>5, <3>6
  <2>4. \A k \in 0..Len(buffer) :
            Sum(SubSeq(buffer, k + 1, Len(buffer))) = P[Len(buffer)] - P[k]
    <3> TAKE k \in 0..Len(buffer)
    <3>1. /\ k + 1 \in Nat /\ Len(buffer) \in Nat /\ 1 <= k + 1 /\ k + 1 <= Len(buffer) + 1
          /\ Len(buffer) <= Len(buffer) /\ (k + 1) - 1 = k
      BY <1>1
    <3>2. Sum(SubSeq(buffer, k + 1, Len(buffer))) = P[Len(buffer)] - P[(k + 1) - 1]
      BY <1>5, <3>1
    <3> QED
      BY <3>1, <3>2
  <2> QED
    BY <1>6, <2>1, <2>2, <2>3, <2>4
<1>8. Sum(buffer') = total'
  <2>1. SubSeq(buffer, e + 1, Len(buffer)) \in Seq(Nat)
    BY <1>1, <1>2
  <2>2. Sum(buffer') = Sum(SubSeq(buffer, e + 1, Len(buffer))) + n
    BY <1>3, <2>1, SumAppend
  <2> QED
    BY <1>2, <1>3, <1>7, <2>2
<1>9. Sum(buffer') <= Budget \/ Len(buffer') = 1
  <2>1. CASE e = Len(buffer)
    BY <1>1, <1>4, <2>1
  <2>2. CASE e # Len(buffer)
    BY <1>2, <1>3, <1>8, <2>2
  <2> QED
    BY <2>1, <2>2
<1>10. ASSUME NEW j \in 1..Forgotten'
       PROVE  ~(Sum(SubSeq(added', j, Len(added'))) <= Budget)
  <2> DEFINE x == SubSeq(added, j, Len(added))
  <2>1. Forgotten \in Nat /\ Forgotten' = Forgotten + e /\ Forgotten + e <= Len(added)
    BY <1>1, <1>2, <1>4 DEF Forgotten
  <2>2. x \in Seq(Nat) /\ SubSeq(added', j, Len(added')) = Append(x, n)
    <3>1. j \in 1..Len(added)
      BY <1>1, <2>1
    <3>2. /\ x \in Seq(Nat) /\ Len(x) = Len(added) - j + 1
          /\ \A i \in 1..(Len(added) - j + 1) : x[i] = added[j + i - 1]
      BY <1>1, <3>1
    <3>3. /\ added' \in Seq(Nat) /\ Len(added') = Len(added) + 1
          /\ added'[Len(added) + 1] = n /\ \A i \in 1..Len(added) : added'[i] = added[i]
      BY <1>1, <1>3, OneMore
    <3> DEFINE y == SubSeq(added', j, Len(added'))
               z == Append(x, n)
    <3>4. /\ y \in Seq(Nat) /\ Len(y) = Len(added) + 1 - j + 1
          /\ \A i \in 1..(Len(added) + 1 - j + 1) : y[i] = added'[j + i - 1]
      <4>1. /\ j \in Nat /\ Len(added') \in Nat /\ 1 <= j /\ j <= Len(added') + 1
            /\ Len(added') <= Len(added') /\ Len(added') = Len(added) + 1
        BY <1>1, <3>1, <3>3
      <4> QED
        BY <3>3, <4>1, PartOf
    <3> HIDE DEF x
    <3>5. /\ z \in Seq(Nat) /\ Len(z) = Len(added) - j + 2 /\ z[Len(added) - j + 2] = n
          /\ \A i \in 1..(Len(added) - j + 1) : z[i] = x[i]
      <4>1. Len(x) + 1 = Len(added) - j + 2
        BY <1>1, <3>1, <3>2
      <4>2. /\ z \in Seq(Nat) /\ Len(z) = Len(x) + 1 /\ z[Len(x) + 1] = n
            /\ \A i \in 1..Len(x) : z[i] = x[i]
        BY <3>2, OneMore
      <4> HIDE DEF z
      <4> QED
        BY <3>2, <4>1, <4>2
    <3> HIDE DEF y, z
    <3>6. ASSUME NEW i \in 1..Len(y) PROVE y[i] = z[i]
      <4>1. CASE i = Len(added) - j + 2
        <5>1. j + i - 1 = Len(added) + 1 /\ i \in 1..(Len(added) + 1 - j + 1)
          BY <1>1, <3>1, <4>1
        <5> QED
          BY <3>3, <3>4, <3>5, <4>1, <5>1
      <4>2. CASE i # Len(added) - j + 2
        <5>1. /\ i \in 1..(Len(added) - j + 1) /\ j + i - 1 \in 1..Len(added)
              /\ i \in 1..(Len(added) + 1 - j + 1)
          <6>1. Len(added) \in Nat /\ i \in 1..(Len(added) + 1 - j + 1)
            BY <1>1, <3>4
          <6> QED
            BY <3>1, <4>2, <6>1
        <5> QED
          BY <3>2, <3>3, <3>4, <3>5, <5>1
      <4> QED
        BY <4>1, <4>2
    <3>7. Len(y) = Len(z)
      BY <1>1, <3>1, <3>4, <3>5
    <3>8. y = z
      BY <3>4, <3>5, <3>6, <3>7, SeqEqual
    <3> QED
      BY <3>2, <3>8 DEF x, y, z
  <2>3. Sum(SubSeq(added', j, Len(added'))) = Sum(x) + n
    <3> HIDE DEF x
    <3> QED
      BY <2>2, SumAppend
  <2>4. CASE j <= Forgotten
    <3>1. ~(Sum(x) <= Budget)
      BY <1>1, <2>1, <2>4 DEF FitsAndIsFull
    <3>2. Sum(x) \in Nat /\ Budget \in Nat
      <4> HIDE DEF x
      <4>1. PICK f : AddsUp(f, x, Len(x))
        BY <2>2, SumsExist
      <4>2. Sum(x) = f[Len(x)] /\ Len(x) \in Nat
        BY <2>2, <4>1, SumIs
      <4> QED
        BY <4>1, <4>2, MemoryAssumption DEF AddsUp
    <3> HIDE DEF x
    <3> QED
      BY <2>3, <3>1, <3>2
  <2>5. CASE ~(j <= Forgotten)
    <3> DEFINE k == j - Forgotten - 1
    <3>1. /\ k \in 0..(e - 1) /\ k \in 0..Len(buffer) /\ Forgotten + k + 1 = j
      BY <1>1, <1>2, <2>1, <2>5
    <3> HIDE DEF k
    <3>2. SubSeq(buffer, k + 1, Len(buffer)) = x
      BY <1>1, <3>1, EndsOfTheBuffer
    <3>3. ~(total - P[k] + n <= Budget)
      BY <1>2, <1>7, <3>1
    <3>4. Sum(x) = total - P[k]
      BY <1>7, <3>1, <3>2
    <3> HIDE DEF x
    <3> QED
      BY <2>3, <3>3, <3>4
  <2> QED
    BY <2>4, <2>5
<1>11. FitsAndIsFull'
  BY <1>8, <1>9, <1>10 DEF FitsAndIsFull
<1> QED
  BY <1>4, <1>11

LEMMA MemInvInit == MemoryInit => MemInv
<1> SUFFICES ASSUME MemoryInit PROVE MemInv
  OBVIOUS
<1> QED
  BY EmptyMemory DEF MemoryInit, MemInv

LEMMA MemInvNext == MemInv /\ [MemoryNext]_mvars => MemInv'
<1> SUFFICES ASSUME MemInv, [MemoryNext]_mvars PROVE MemInv'
  OBVIOUS
<1>1. ASSUME NEW l \in Lengths, NEW g \in Given, AddShort(TokenCount(l, g)) PROVE MemInv'
  <2>1. TokenCount(l, g) \in Nat
    BY MemoryAssumption DEF TokenCount, Estimate
  <2>2. HoldsTheEnd' /\ FitsAndIsFull'
    BY <1>1, <2>1, AddStaysFull
  <2>3. class' = class
    BY <1>1 DEF AddShort
  <2> QED
    BY <2>2, <2>3 DEF MemInv
<1>2. ASSUME NEW ws \in SUBSET Words, NEW t \in Times, AddLong(ws, t) PROVE MemInv'
  BY <1>2 DEF AddLong, MemInv
<1>3. CASE ClearMemory
  <2>1. buffer' = <<>> /\ added' = <<>> /\ total' = 0 /\ class' = class
    BY <1>3 DEF ClearMemory
  <2>2. (HoldsTheEnd /\ FitsAndIsFull)'
    <3>1. Forgotten' = 0 /\ Len(buffer') = 0
      BY <2>1 DEF Forgotten
    <3>2. HoldsTheEnd'
      BY <2>1, <3>1 DEF HoldsTheEnd
    <3>3. Budget \in Nat /\ Sum(buffer') = 0
      BY <2>1, NothingSumsToZero, MemoryAssumption
    <3>4. FitsAndIsFull'
      BY <2>1, <3>1, <3>3 DEF FitsAndIsFull
    <3> QED
      BY <3>2, <3>4
  <2> QED
    BY <2>1, <2>2 DEF MemInv
<1>4. CASE UNCHANGED mvars
  BY <1>4 DEF mvars, MemInv, HoldsTheEnd, FitsAndIsFull, Forgotten
<1> QED
  BY <1>1, <1>2, <1>3, <1>4 DEF MemoryNext

LEMMA EndOfWhatWasAdded ==
  ASSUME HoldsTheEnd
  PROVE  buffer = SubSeq(added, Forgotten + 1, Len(added))
<1>1. buffer \in Seq(Nat) /\ 0 \in 0..Len(buffer) /\ SubSeq(buffer, 1, Len(buffer)) = buffer
  BY DEF HoldsTheEnd
<1>2. SubSeq(buffer, 0 + 1, Len(buffer)) = SubSeq(added, Forgotten + 0 + 1, Len(added))
  BY <1>1, EndsOfTheBuffer
<1>3. Forgotten \in Nat
  BY DEF HoldsTheEnd, Forgotten
<1>4. 0 + 1 = 1 /\ Forgotten + 0 + 1 = Forgotten + 1
  BY <1>3
<1> QED
  BY <1>1, <1>2, <1>4

LEMMA MemInvIsEnough == MemInv => LatestThatFit
<1> SUFFICES ASSUME MemInv, class = "short" PROVE LatestThatFit
  BY DEF LatestThatFit
<1> DEFINE From(k) == SubSeq(added, k, Len(added))
           Fit(k) == k = Len(added) \/ Sum(From(k)) <= Budget
<1>1. HoldsTheEnd /\ FitsAndIsFull
  BY DEF MemInv
<1>2. /\ buffer \in Seq(Nat) /\ added \in Seq(Nat) /\ Len(buffer) <= Len(added)
      /\ Len(buffer) \in Nat /\ Len(added) \in Nat
      /\ Forgotten = Len(added) - Len(buffer) /\ (added # <<>> => buffer # <<>>)
  BY <1>1 DEF HoldsTheEnd, Forgotten
<1>3. total = Sum(buffer)
  BY <1>1 DEF FitsAndIsFull
<1>4. added = <<>> => buffer = <<>>
  BY <1>2
<1>5. ASSUME NEW k \in DOMAIN added, Fit(k), \A j \in 1..(k - 1) : ~Fit(j)
      PROVE  buffer = From(k)
  <2>1. k \in 1..Len(added) /\ k \in Nat /\ added # <<>>
    BY <1>2
  <2>2. Forgotten + 1 \in 1..Len(added) /\ Forgotten \in Nat
    BY <1>2, <2>1
  <2>3. buffer = From(Forgotten + 1)
    BY <1>1, EndOfWhatWasAdded
  <2>4. Fit(Forgotten + 1)
    <3>1. CASE Sum(buffer) <= Budget
      BY <2>3, <3>1
    <3>2. CASE Len(buffer) = 1
      <4>1. Forgotten + 1 = Len(added)
        BY <1>2, <3>2
      <4> QED
        BY <4>1
    <3> QED
      BY <1>1, <3>1, <3>2 DEF FitsAndIsFull
  <2>5. ~(Forgotten + 1 < k)
    <3> HIDE DEF Fit
    <3>1. Forgotten + 1 < k => Forgotten + 1 \in 1..(k - 1)
      BY <2>1, <2>2
    <3> QED
      BY <1>5, <2>4, <3>1
  <2>6. ~(k <= Forgotten)
    <3> SUFFICES ASSUME k <= Forgotten PROVE FALSE
      OBVIOUS
    <3>1. k \in 1..Forgotten /\ k # Len(added)
      BY <2>1, <2>2
    <3>2. ~(Sum(From(k)) <= Budget)
      BY <1>1, <3>1 DEF FitsAndIsFull
    <3> QED
      BY <1>5, <3>1, <3>2
  <2>7. k = Forgotten + 1
    BY <2>1, <2>2, <2>5, <2>6
  <2> QED
    BY <2>3, <2>7
<1> QED
  BY <1>3, <1>4, <1>5 DEF LatestThatFit

(* A short-term memory of any budget holds, after any sequence of calls of *)
(* add and clear, the longest run of the latest items that fits, or the    *)
(* last one alone, and counts its tokens right (ShortTermMemory.add).      *)
THEOREM MemoryKeepsTheLatest == MemorySpec => []LatestThatFit
<1>1. MemorySpec => []MemInv
  BY MemInvInit, MemInvNext, PTL DEF MemorySpec
<1> QED
  BY <1>1, MemInvIsEnough, PTL

-----------------------------------------------------------------------------
(***************************************************************************)
(* Cutting a text into chunks.                                             *)
(***************************************************************************)
(* The sequences in the first 1, 2, ... elements of ss, one after another. *)
Flattens(f, ss, n) ==
    f = [i \in 1..n |-> IF i = 1 THEN ss[i] ELSE f[i - 1] \o ss[i]]

LEMMA FlattensExist ==
  ASSUME NEW ss \in Seq(Seq(Nat))
  PROVE  \E f : Flattens(f, ss, Len(ss))
<1> DEFINE S == {n \in Nat : \E f : Flattens(f, ss, n)}
<1>1. 0 \in S
  <2>1. Flattens([i \in 1..0 |-> 0], ss, 0)
    BY DEF Flattens
  <2> QED
    BY <2>1
<1>2. ASSUME NEW n \in Nat, n \in S PROVE n + 1 \in S
  <2>1. PICK f : Flattens(f, ss, n)
    BY <1>2
  <2> DEFINE Next1(g, i) == IF i = 1 THEN ss[i] ELSE g[i - 1] \o ss[i]
             g == [i \in 1..(n + 1) |-> IF i = n + 1 THEN Next1(f, i) ELSE f[i]]
  <2>2. \A i \in 1..n : f[i] = Next1(f, i)
    BY <2>1 DEF Flattens
  <2>3. ASSUME NEW i \in 1..(n + 1) PROVE g[i] = Next1(g, i)
    <3>1. i = 1 \/ (i # 1 /\ i - 1 \in 1..n /\ i - 1 \in 1..(n + 1) /\ i - 1 # n + 1)
      OBVIOUS
    <3>2. i = 1 \/ g[i - 1] = f[i - 1]
      BY <3>1
    <3>3. Next1(g, i) = Next1(f, i)
      <4> HIDE DEF g
      <4> QED
        BY <3>2
    <3>4. CASE i = n + 1
      BY <3>3, <3>4
    <3>5. CASE i # n + 1
      <4>1. i \in 1..n /\ g[i] = f[i]
        BY <3>5
      <4> QED
        BY <2>2, <3>3, <4>1
    <3> QED
      BY <3>4, <3>5
  <2>4. g = [i \in 1..(n + 1) |-> g[i]]
    OBVIOUS
  <2> HIDE DEF g
  <2>5. g = [i \in 1..(n + 1) |-> Next1(g, i)]
    BY <2>3, <2>4
  <2>6. Flattens(g, ss, n + 1)
    BY <2>5 DEF Flattens
  <2> QED
    BY <2>6
<1>3. Nat \subseteq S
  <2> HIDE DEF S
  <2> QED
    BY <1>1, <1>2, SetInduction
<1>4. Len(ss) \in S
  BY <1>3
<1> QED
  BY <1>4

(* FlattenSeq puts them one after another.                                 *)
LEMMA FlattenIs ==
  ASSUME NEW ss \in Seq(Seq(Nat)), NEW f, Flattens(f, ss, Len(ss)), ss # <<>>
  PROVE  FlattenSeq(ss) = f[Len(ss)]
<1> DEFINE h == CHOOSE g : Flattens(g, ss, Len(ss))
           n == Len(ss)
<1>1. n \in Nat /\ n # 0
  OBVIOUS
<1>2. FlattenSeq(ss) = h[n]
  BY <1>1 DEF FlattenSeq, Flattens
<1>3. Flattens(h, ss, n)
  OBVIOUS
<1> HIDE DEF h, n
<1>4. \A i \in 1..n : h[i] = IF i = 1 THEN ss[i] ELSE h[i - 1] \o ss[i]
  BY <1>3 DEF Flattens
<1>5. \A i \in 1..n : f[i] = IF i = 1 THEN ss[i] ELSE f[i - 1] \o ss[i]
  BY DEF Flattens, n
<1> DEFINE S == {i \in Nat : i + 1 <= n => h[i + 1] = f[i + 1]}
<1>6. 0 \in S
  <2>1. 0 + 1 = 1 /\ 1 \in 1..n
    BY <1>1
  <2>2. h[1] = ss[1] /\ f[1] = ss[1]
    BY <1>4, <1>5, <2>1
  <2> QED
    BY <2>1, <2>2
<1>7. ASSUME NEW i \in Nat, i \in S PROVE i + 1 \in S
  <2> SUFFICES ASSUME (i + 1) + 1 <= n PROVE h[(i + 1) + 1] = f[(i + 1) + 1]
    OBVIOUS
  <2> DEFINE k == (i + 1) + 1
  <2>1. k \in 1..n /\ k # 1 /\ k - 1 = i + 1 /\ i + 1 <= n
    BY <1>1
  <2>2. h[i + 1] = f[i + 1]
    BY <1>7, <2>1
  <2> HIDE DEF k
  <2>3. h[k] = h[k - 1] \o ss[k] /\ f[k] = f[k - 1] \o ss[k]
    BY <1>4, <1>5, <2>1
  <2>4. h[k] = f[k]
    BY <2>1, <2>2, <2>3
  <2> QED
    BY <2>4 DEF k
<1>8. Nat \subseteq S
  <2> HIDE DEF S
  <2> QED
    BY <1>6, <1>7, SetInduction
<1>9. n - 1 \in Nat /\ (n - 1) + 1 = n
  BY <1>1
<1>10. h[n] = f[n]
  <2>1. n - 1 \in S
    BY <1>8, <1>9
  <2> QED
    BY <1>1, <1>9, <2>1
<1> QED
  BY <1>2, <1>10 DEF n

(* One sequence more comes last.                                           *)
LEMMA FlattenAppend ==
  ASSUME NEW ss \in Seq(Seq(Nat)), NEW x \in Seq(Nat)
  PROVE  FlattenSeq(Append(ss, x)) = FlattenSeq(ss) \o x
<1> DEFINE tt == Append(ss, x)
<1>1. /\ tt \in Seq(Seq(Nat)) /\ tt # <<>> /\ Len(tt) = Len(ss) + 1
      /\ tt[Len(ss) + 1] = x /\ \A i \in 1..Len(ss) : tt[i] = ss[i]
  BY AppendProperties
<1>2. Len(ss) \in Nat
  OBVIOUS
<1> HIDE DEF tt
<1>3. PICK f : Flattens(f, tt, Len(tt))
  BY <1>1, FlattensExist
<1>4. FlattenSeq(tt) = f[Len(ss) + 1]
  BY <1>1, <1>3, FlattenIs
<1>5. \A i \in 1..(Len(ss) + 1) : f[i] = IF i = 1 THEN tt[i] ELSE f[i - 1] \o tt[i]
  BY <1>1, <1>3 DEF Flattens
<1>6. CASE ss = <<>>
  <2>1. Len(ss) + 1 = 1 /\ 1 \in 1..(Len(ss) + 1)
    BY <1>6
  <2>2. f[1] = tt[1]
    BY <1>5, <2>1
  <2>3. FlattenSeq(tt) = x
    BY <1>1, <1>4, <2>1, <2>2
  <2>4. FlattenSeq(ss) = <<>>
    BY <1>6 DEF FlattenSeq
  <2>5. <<>> \o x = x
    BY ConcatEmptySeq
  <2> QED
    BY <2>3, <2>4, <2>5 DEF tt
<1>7. CASE ss # <<>>
  <2> DEFINE n == Len(ss)
             g == [i \in 1..n |-> f[i]]
  <2>1. n \in Nat /\ n # 0
    BY <1>2, <1>7
  <2>2. ASSUME NEW i \in 1..n PROVE g[i] = IF i = 1 THEN ss[i] ELSE g[i - 1] \o ss[i]
    <3>1. i \in 1..(Len(ss) + 1) /\ (i = 1 \/ i - 1 \in 1..n)
      BY <2>1
    <3>2. tt[i] = ss[i]
      BY <1>1
    <3> QED
      BY <1>5, <3>1, <3>2
  <2>3. g = [i \in 1..n |-> g[i]]
    OBVIOUS
  <2>4. f[n] = g[n]
    BY <2>1
  <2> HIDE DEF g
  <2>5. Flattens(g, ss, Len(ss))
    BY <2>2, <2>3 DEF Flattens
  <2>6. FlattenSeq(ss) = g[n]
    BY <1>7, <2>5, FlattenIs
  <2>7. n + 1 \in 1..(Len(ss) + 1) /\ n + 1 # 1 /\ (n + 1) - 1 = n
    BY <2>1
  <2>8. f[n + 1] = f[n] \o tt[n + 1]
    BY <1>5, <2>7
  <2> QED
    BY <1>1, <1>4, <2>4, <2>6, <2>8 DEF tt
<1> QED
  BY <1>6, <1>7

LEMMA FlattenIsText ==
  ASSUME NEW ss \in Seq(Seq(Nat))
  PROVE  FlattenSeq(ss) \in Seq(Nat)
<1>1. CASE ss = <<>>
  <2>1. FlattenSeq(ss) = <<>>
    BY <1>1 DEF FlattenSeq
  <2> QED
    BY <2>1
<1>2. CASE ss # <<>>
  <2>1. PICK f : Flattens(f, ss, Len(ss))
    BY FlattensExist
  <2> DEFINE n == Len(ss)
             S == {i \in Nat : i + 1 <= n => f[i + 1] \in Seq(Nat)}
  <2>2. n \in Nat /\ n # 0 /\ \A i \in 1..n : ss[i] \in Seq(Nat)
    BY <1>2
  <2>3. \A i \in 1..n : f[i] = IF i = 1 THEN ss[i] ELSE f[i - 1] \o ss[i]
    BY <2>1 DEF Flattens
  <2>4. FlattenSeq(ss) = f[n]
    BY <1>2, <2>1, FlattenIs
  <2> HIDE DEF n
  <2>5. 0 \in S
    <3>1. 0 + 1 = 1 /\ 1 \in 1..n
      BY <2>2
    <3>2. f[1] = ss[1]
      BY <2>3, <3>1
    <3>3. f[1] \in Seq(Nat)
      BY <2>2, <3>1, <3>2
    <3> QED
      BY <3>1, <3>3
  <2>6. ASSUME NEW i \in Nat, i \in S PROVE i + 1 \in S
    <3> SUFFICES ASSUME (i + 1) + 1 <= n PROVE f[(i + 1) + 1] \in Seq(Nat)
      OBVIOUS
    <3> DEFINE k == (i + 1) + 1
    <3>1. k \in 1..n /\ k # 1 /\ k - 1 = i + 1 /\ i + 1 <= n
      BY <2>2
    <3>2. f[i + 1] \in Seq(Nat)
      BY <2>6, <3>1
    <3> HIDE DEF k
    <3>3. f[k] = f[i + 1] \o ss[k] /\ ss[k] \in Seq(Nat)
      BY <2>2, <2>3, <3>1
    <3>4. f[k] \in Seq(Nat)
      BY <3>2, <3>3, ConcatProperties
    <3> QED
      BY <3>4 DEF k
  <2>7. Nat \subseteq S
    <3> HIDE DEF S
    <3> QED
      BY <2>5, <2>6, SetInduction
  <2>8. n - 1 \in Nat /\ (n - 1) + 1 = n
    BY <2>2
  <2>9. n - 1 \in S
    <3> HIDE DEF S
    <3> QED
      BY <2>7, <2>8
  <2> QED
    BY <2>2, <2>4, <2>8, <2>9
<1> QED
  BY <1>1, <1>2

LEMMA SumIsNatural ==
  ASSUME NEW s \in Seq(Nat)
  PROVE  Sum(s) \in Nat
<1>1. PICK f : AddsUp(f, s, Len(s))
  BY SumsExist
<1>2. Sum(s) = f[Len(s)] /\ Len(s) \in 0..Len(s)
  BY <1>1, SumIs
<1>3. f \in [0..Len(s) -> Nat]
  BY <1>1 DEF AddsUp
<1> QED
  BY <1>2, <1>3

LEMMA TokensAreNatural ==
  ASSUME NEW s \in Seq(Nat)
  PROVE  CountTokens(Joined(s)) \in Nat
<1>1. Joined(s) \in Nat
  <2>1. CASE s = <<>>
    BY <2>1 DEF Joined
  <2>2. CASE s # <<>>
    <3>1. Sum(s) \in Nat /\ Len(s) \in Nat /\ Len(s) # 0
      BY <2>2, SumIsNatural
    <3>2. Joined(s) = Sum(s) + Len(s) - 1
      BY <2>2 DEF Joined
    <3> QED
      BY <3>1, <3>2
  <2> QED
    BY <2>1, <2>2
<1> DEFINE n == Joined(s)
<1> HIDE DEF n
<1>2. n \in Nat => CountTokens(n) \in Nat
  BY DEF CountTokens, Estimate
<1> QED
  BY <1>1, <1>2 DEF n

-----------------------------------------------------------------------------
(***************************************************************************)
(* The chunks of a text.                                                   *)
(***************************************************************************)
Cost(words) == CountTokens(Joined(words))

(* The chunks of the first n words of a text: no chunk is larger than the  *)
(* limit unless it is one word, and the next word would not have fitted.   *)
Cuts(cs, text, n, max) ==
    /\ cs \in Seq(Seq(Nat)) /\ FlattenSeq(cs) = SubSeq(text, 1, n)
    /\ \A k \in 1..Len(cs) : /\ cs[k] # <<>>
                             /\ Cost(cs[k]) <= max \/ Len(cs[k]) = 1
    /\ \A k \in 2..Len(cs) : Cost(Append(cs[k - 1], cs[k][1])) > max

(* What chunk has collected after the first n words.                       *)
Collected(acc, text, n, max) ==
    /\ acc.chunks \in Seq(Seq(Nat)) /\ acc.current \in Seq(Nat)
    /\ acc.current = <<>> => n = 0 /\ acc.chunks = <<>>
    /\ Cuts(Flushed(acc), text, n, max)

LEMMA NothingIsCut ==
  ASSUME NEW text \in Seq(Nat), NEW max \in Nat
  PROVE  Collected([chunks |-> <<>>, current |-> <<>>], text, 0, max)
<1> DEFINE acc == [chunks |-> <<>>, current |-> <<>>]
<1>1. acc.chunks = <<>> /\ acc.current = <<>>
  OBVIOUS
<1> HIDE DEF acc
<1>2. Flushed(acc) = <<>> /\ <<>> \in Seq(Seq(Nat)) /\ <<>> \in Seq(Nat) /\ Len(<<>>) = 0
  BY <1>1 DEF Flushed
<1>3. FlattenSeq(<<>>) = <<>>
  BY DEF FlattenSeq
<1>4. SubSeq(text, 1, 0) = <<>>
  OBVIOUS
<1>5. Cuts(<<>>, text, 0, max)
  <2>1. (\A k \in 1..Len(<<>>) : FALSE) /\ (\A k \in 2..Len(<<>>) : FALSE)
    BY <1>2
  <2> QED
    BY <1>2, <1>3, <1>4, <2>1, Zenon DEF Cuts
<1> QED
  BY <1>1, <1>2, <1>5 DEF Collected, acc

LEMMA OneWordMore ==
  ASSUME NEW text \in Seq(Nat), NEW n \in Nat, n + 1 <= Len(text)
  PROVE  /\ text[n + 1] \in Nat
         /\ SubSeq(text, 1, n + 1) = SubSeq(text, 1, n) \o <<text[n + 1]>>
<1>1. n + 1 \in 1..Len(text) /\ 1 \in 1..Len(text) /\ (n + 1) - 1 = n
  OBVIOUS
<1>2. SubSeq(text, 1, n + 1) = SubSeq(text, 1, (n + 1) - 1) \o <<text[n + 1]>>
  BY <1>1, SubSeqRecursiveSecond
<1> QED
  BY <1>1, <1>2

LEMMA Associates ==
  \A a, b, c \in Seq(Nat) : (a \o b) \o c = a \o (b \o c)
BY ConcatAssociative

(* The last chunk takes the word.                                          *)
LEMMA GrowsTheLast ==
  ASSUME NEW text \in Seq(Nat), NEW n \in Nat, n + 1 <= Len(text), NEW max \in Nat,
         NEW cs \in Seq(Seq(Nat)), NEW last \in Seq(Nat), last # <<>>,
         Cuts(Append(cs, last), text, n, max),
         Cost(Append(last, text[n + 1])) <= max
  PROVE  Cuts(Append(cs, Append(last, text[n + 1])), text, n + 1, max)
<1> DEFINE w == text[n + 1]
           more == Append(last, w)
           old == Append(cs, last)
           new == Append(cs, more)
           m == Len(cs) + 1
<1>1. w \in Nat /\ SubSeq(text, 1, n + 1) = SubSeq(text, 1, n) \o <<w>>
  BY OneWordMore
<1>2. Cuts(old, text, n, max) /\ Cost(more) <= max
  OBVIOUS
<1>3. m \in Nat /\ m - 1 = Len(cs)
  OBVIOUS
<1>4. <<w>> \in Seq(Nat)
  BY <1>1
<1> HIDE DEF w
<1>5. /\ more \in Seq(Nat) /\ more # <<>> /\ more[1] = last[1] /\ more = last \o <<w>>
  <2>1. last[1] = Append(last, w)[1]
    BY <1>1
  <2> QED
    BY <1>1, <2>1, AppendProperties, AppendIsConcat
<1> HIDE DEF more
<1>6. /\ old \in Seq(Seq(Nat)) /\ Len(old) = m /\ old[m] = last
      /\ \A k \in 1..Len(cs) : old[k] = cs[k]
  BY AppendProperties
<1>7. /\ new \in Seq(Seq(Nat)) /\ Len(new) = m /\ new[m] = more
      /\ \A k \in 1..Len(cs) : new[k] = cs[k]
  BY <1>5, AppendProperties
<1>8. FlattenSeq(new) = SubSeq(text, 1, n + 1)
  <2>1. FlattenSeq(old) = FlattenSeq(cs) \o last /\ FlattenSeq(new) = FlattenSeq(cs) \o more
    BY <1>5, FlattenAppend
  <2>2. FlattenSeq(cs) \in Seq(Nat)
    BY FlattenIsText
  <2>3. (FlattenSeq(cs) \o last) \o <<w>> = FlattenSeq(cs) \o (last \o <<w>>)
    BY <1>4, <2>2, Associates, Zenon
  <2>4. FlattenSeq(old) = SubSeq(text, 1, n)
    BY <1>2 DEF Cuts
  <2> HIDE DEF old, new
  <2> QED
    BY <1>1, <1>5, <2>1, <2>3, <2>4
<1> HIDE DEF old, new, m
<1>9. ASSUME NEW k \in 1..Len(new)
      PROVE  new[k] # <<>> /\ (Cost(new[k]) <= max \/ Len(new[k]) = 1)
  <2>1. CASE k = m
    BY <1>2, <1>5, <1>7, <2>1
  <2>2. CASE k # m
    <3>1. k \in 1..Len(cs) /\ k \in 1..Len(old)
      BY <1>3, <1>6, <1>7, <2>2
    <3>2. new[k] = old[k]
      BY <1>6, <1>7, <3>1
    <3> QED
      BY <1>2, <3>1, <3>2 DEF Cuts
  <2> QED
    BY <2>1, <2>2
<1>10. ASSUME NEW k \in 2..Len(new)
       PROVE  Cost(Append(new[k - 1], new[k][1])) > max
  <2>1. k \in 2..Len(old) /\ k - 1 \in 1..Len(cs)
    BY <1>3, <1>6, <1>7
  <2>2. new[k - 1] = old[k - 1]
    BY <1>6, <1>7, <2>1
  <2>3. new[k][1] = old[k][1]
    <3>1. CASE k = m
      BY <1>5, <1>6, <1>7, <3>1
    <3>2. CASE k # m
      <4>1. k \in 1..Len(cs)
        <5>1. k \in Nat /\ 2 <= k /\ k <= m /\ m \in Nat /\ m - 1 = Len(cs)
          BY <1>3, <1>6, <2>1
        <5>2. k <= Len(cs) /\ 1 <= k
          BY <3>2, <5>1
        <5> QED
          BY <1>3, <5>1, <5>2
      <4> QED
        BY <1>6, <1>7, <4>1
    <3> QED
      BY <3>1, <3>2
  <2>4. Cost(Append(old[k - 1], old[k][1])) > max
    BY <1>2, <2>1 DEF Cuts
  <2> QED
    BY <2>2, <2>3, <2>4
<1>11. Cuts(new, text, n + 1, max)
  BY <1>7, <1>8, <1>9, <1>10 DEF Cuts
<1> QED
  BY <1>11 DEF new, more, w

(* The word begins a chunk.                                                *)
LEMMA BeginsAnother ==
  ASSUME NEW text \in Seq(Nat), NEW n \in Nat, n + 1 <= Len(text), NEW max \in Nat,
         NEW cs, Cuts(cs, text, n, max),
         cs # <<>> => Cost(Append(cs[Len(cs)], text[n + 1])) > max
  PROVE  Cuts(Append(cs, <<text[n + 1]>>), text, n + 1, max)
<1> DEFINE w == text[n + 1]
           new == Append(cs, <<w>>)
           m == Len(cs) + 1
<1>1. w \in Nat /\ SubSeq(text, 1, n + 1) = SubSeq(text, 1, n) \o <<w>>
  BY OneWordMore
<1>2. <<w>> \in Seq(Nat) /\ <<w>> # <<>> /\ Len(<<w>>) = 1 /\ <<w>>[1] = w
  BY <1>1
<1>3. cs \in Seq(Seq(Nat)) /\ FlattenSeq(cs) = SubSeq(text, 1, n)
  BY DEF Cuts
<1>4. m \in Nat /\ m - 1 = Len(cs) /\ Len(cs) \in Nat
  BY <1>3
<1>5. cs # <<>> => Cost(Append(cs[Len(cs)], w)) > max
  OBVIOUS
<1> HIDE DEF w
<1>6. /\ new \in Seq(Seq(Nat)) /\ Len(new) = m /\ new[m] = <<w>>
      /\ \A k \in 1..Len(cs) : new[k] = cs[k]
  BY <1>2, <1>3, AppendProperties
<1>7. FlattenSeq(new) = SubSeq(text, 1, n + 1)
  <2>1. FlattenSeq(new) = FlattenSeq(cs) \o <<w>>
    BY <1>2, <1>3, FlattenAppend
  <2> QED
    BY <1>1, <1>3, <2>1
<1> HIDE DEF new, m
<1>8. ASSUME NEW k \in 1..Len(new)
      PROVE  new[k] # <<>> /\ (Cost(new[k]) <= max \/ Len(new[k]) = 1)
  <2>1. CASE k = m
    BY <1>2, <1>6, <2>1
  <2>2. CASE k # m
    <3>1. k \in 1..Len(cs)
      BY <1>4, <1>6, <2>2
    <3>2. new[k] = cs[k]
      BY <1>6, <3>1
    <3> QED
      BY <3>1, <3>2 DEF Cuts
  <2> QED
    BY <2>1, <2>2
<1>9. ASSUME NEW k \in 2..Len(new)
      PROVE  Cost(Append(new[k - 1], new[k][1])) > max
  <2>1. k - 1 \in 1..Len(cs)
    BY <1>4, <1>6
  <2>2. new[k - 1] = cs[k - 1]
    BY <1>6, <2>1
  <2>3. CASE k = m
    <3>1. new[k][1] = w /\ new[k - 1] = cs[Len(cs)]
      BY <1>2, <1>4, <1>6, <2>2, <2>3
    <3>2. cs # <<>>
      BY <2>1
    <3> QED
      BY <1>5, <3>1, <3>2
  <2>4. CASE k # m
    <3>1. k \in 2..Len(cs) /\ k \in 1..Len(cs)
      BY <1>4, <1>6, <2>4
    <3>2. new[k] = cs[k]
      BY <1>6, <3>1
    <3>3. Cost(Append(cs[k - 1], cs[k][1])) > max
      BY <3>1 DEF Cuts
    <3> QED
      BY <2>2, <3>2, <3>3
  <2> QED
    BY <2>3, <2>4
<1>10. Cuts(new, text, n + 1, max)
  BY <1>6, <1>7, <1>8, <1>9 DEF Cuts
<1> QED
  BY <1>10 DEF new, w

LEMMA TakenCollects ==
  ASSUME NEW text \in Seq(Nat), NEW n \in Nat, n + 1 <= Len(text), NEW max \in Nat,
         NEW acc, Collected(acc, text, n, max)
  PROVE  Collected(Taken(acc, text[n + 1], max), text, n + 1, max)
<1> DEFINE w == text[n + 1]
           tokens == Cost(Append(acc.current, w))
           new == Taken(acc, w, max)
<1>1. w \in Nat /\ n + 1 # 0
  BY OneWordMore
<1>2. /\ acc.chunks \in Seq(Seq(Nat)) /\ acc.current \in Seq(Nat)
      /\ (acc.current = <<>> => n = 0 /\ acc.chunks = <<>>)
      /\ Cuts(Flushed(acc), text, n, max)
  BY DEF Collected
<1>3. new = IF acc.current # <<>> /\ tokens > max
            THEN [chunks |-> Append(acc.chunks, acc.current), current |-> <<w>>]
            ELSE [chunks |-> acc.chunks, current |-> Append(acc.current, w)]
  BY DEF Taken, Placed, Cost
<1>4. Append(acc.current, w) \in Seq(Nat) /\ Append(acc.current, w) # <<>>
  BY <1>1, <1>2, AppendProperties
<1>5. tokens \in Nat
  BY <1>4, TokensAreNatural DEF Cost
<1>6. <<w>> \in Seq(Nat) /\ <<w>> # <<>>
  BY <1>1
<1>7. ASSUME NEW cs \in Seq(Seq(Nat)), NEW x \in Seq(Nat), x # <<>>,
             new = [chunks |-> cs, current |-> x], Cuts(Append(cs, x), text, n + 1, max)
      PROVE  Collected(new, text, n + 1, max)
  <2>1. new.chunks = cs /\ new.current = x
    BY <1>7
  <2> HIDE DEF new
  <2>2. Flushed(new) = Append(cs, x)
    BY <1>7, <2>1 DEF Flushed
  <2> QED
    BY <1>7, <2>1, <2>2 DEF Collected
<1> HIDE DEF new, tokens
<1>8. CASE acc.current # <<>> /\ tokens > max
  <2> DEFINE cs == Append(acc.chunks, acc.current)
  <2>1. Flushed(acc) = cs
    BY <1>8 DEF Flushed
  <2>2. cs \in Seq(Seq(Nat)) /\ cs[Len(cs)] = acc.current
    BY <1>2, AppendProperties
  <2>3. new = [chunks |-> cs, current |-> <<w>>]
    BY <1>3, <1>8
  <2> HIDE DEF cs
  <2>4. Cuts(cs, text, n, max) /\ Cost(Append(cs[Len(cs)], w)) > max
    BY <1>2, <1>8, <2>1, <2>2 DEF tokens
  <2>5. Cuts(Append(cs, <<w>>), text, n + 1, max)
    BY <2>4, BeginsAnother
  <2> HIDE DEF w
  <2> QED
    BY <1>6, <1>7, <2>2, <2>3, <2>5 DEF new, w
<1>9. CASE acc.current = <<>>
  <2>1. Flushed(acc) = <<>> /\ acc.chunks = <<>> /\ <<>> \in Seq(Seq(Nat))
    BY <1>2, <1>9 DEF Flushed
  <2>2. Append(acc.current, w) = <<w>>
    BY <1>9
  <2>3. new = [chunks |-> <<>>, current |-> <<w>>]
    BY <1>3, <1>9, <2>1, <2>2
  <2>4. Cuts(<<>>, text, n, max)
    BY <1>2, <2>1
  <2>5. Cuts(Append(<<>>, <<w>>), text, n + 1, max)
    BY <2>4, BeginsAnother
  <2> HIDE DEF w
  <2> QED
    BY <1>6, <1>7, <2>1, <2>3, <2>5 DEF new, w
<1>10. CASE acc.current # <<>> /\ ~(tokens > max)
  <2> DEFINE more == Append(acc.current, w)
  <2>1. Flushed(acc) = Append(acc.chunks, acc.current)
    BY <1>10 DEF Flushed
  <2>2. new = [chunks |-> acc.chunks, current |-> more]
    BY <1>3, <1>10
  <2>3. tokens <= max
    BY <1>5, <1>10
  <2>4. Cost(more) <= max /\ Cuts(Append(acc.chunks, acc.current), text, n, max)
    BY <1>2, <2>1, <2>3 DEF tokens
  <2>5. Cuts(Append(acc.chunks, more), text, n + 1, max)
    BY <1>2, <1>10, <2>4, GrowsTheLast
  <2> HIDE DEF more
  <2>6. more \in Seq(Nat) /\ more # <<>>
    BY <1>4 DEF more
  <2> HIDE DEF w
  <2> QED
    BY <1>2, <1>7, <2>2, <2>5, <2>6 DEF new, w
<1> QED
  BY <1>8, <1>9, <1>10 DEF new, w

(* What chunk has after each word.                                         *)
IsAfter(f, text, max, n) ==
    f = [k \in 0..n |-> IF k = 0 THEN [chunks |-> <<>>, current |-> <<>>]
                                 ELSE Taken(f[k - 1], text[k], max)]

LEMMA AfterExists ==
  ASSUME NEW text \in Seq(Nat), NEW max
  PROVE  \E f : IsAfter(f, text, max, Len(text))
<1> DEFINE S == {n \in Nat : \E f : IsAfter(f, text, max, n)}
           Step(g, k) == IF k = 0 THEN [chunks |-> <<>>, current |-> <<>>]
                                  ELSE Taken(g[k - 1], text[k], max)
<1>1. 0 \in S
  <2> DEFINE f == [k \in 0..0 |-> [chunks |-> <<>>, current |-> <<>>]]
  <2>1. f = [k \in 0..0 |-> Step(f, k)]
    OBVIOUS
  <2>2. IsAfter(f, text, max, 0)
    BY <2>1 DEF IsAfter
  <2> QED
    BY <2>2
<1>2. ASSUME NEW n \in Nat, n \in S PROVE n + 1 \in S
  <2>1. PICK f : IsAfter(f, text, max, n)
    BY <1>2
  <2> DEFINE g == [k \in 0..(n + 1) |-> IF k = n + 1 THEN Step(f, k) ELSE f[k]]
  <2>2. \A k \in 0..n : f[k] = Step(f, k)
    BY <2>1 DEF IsAfter
  <2>3. ASSUME NEW k \in 0..(n + 1) PROVE g[k] = Step(g, k)
    <3>1. k = 0 \/ (k # 0 /\ k - 1 \in 0..n /\ k - 1 \in 0..(n + 1) /\ k - 1 # n + 1)
      OBVIOUS
    <3>2. k = 0 \/ g[k - 1] = f[k - 1]
      BY <3>1
    <3>3. Step(g, k) = Step(f, k)
      <4> HIDE DEF g
      <4> QED
        BY <3>2
    <3> HIDE DEF Step
    <3>4. CASE k = n + 1
      BY <3>3, <3>4
    <3>5. CASE k # n + 1
      <4>1. k \in 0..n /\ g[k] = f[k]
        BY <3>5
      <4> QED
        BY <2>2, <3>3, <4>1
    <3> QED
      BY <3>4, <3>5
  <2>4. g = [k \in 0..(n + 1) |-> g[k]]
    OBVIOUS
  <2> HIDE DEF g
  <2>5. g = [k \in 0..(n + 1) |-> Step(g, k)]
    BY <2>3, <2>4
  <2>6. IsAfter(g, text, max, n + 1)
    BY <2>5 DEF IsAfter
  <2> QED
    BY <2>6
<1>3. Nat \subseteq S
  <2> HIDE DEF S
  <2> QED
    BY <1>1, <1>2, SetInduction
<1>4. Len(text) \in S
  <2> HIDE DEF S
  <2> QED
    BY <1>3
<1> QED
  BY <1>4

LEMMA ChunkCuts ==
  ASSUME NEW text \in Seq(Nat), NEW max \in Nat
  PROVE  Cuts(Chunk(text, max), text, Len(text), max)
<1> DEFINE h == CHOOSE f : IsAfter(f, text, max, Len(text))
           m == Len(text)
<1>1. IsAfter(h, text, max, m)
  BY AfterExists
<1>2. Chunk(text, max) = Flushed(h[m])
  BY DEF Chunk, IsAfter
<1>3. m \in Nat
  OBVIOUS
<1> HIDE DEF h
<1>4. \A k \in 0..m : h[k] = IF k = 0 THEN [chunks |-> <<>>, current |-> <<>>]
                                      ELSE Taken(h[k - 1], text[k], max)
  BY <1>1 DEF IsAfter
<1> DEFINE S == {n \in Nat : n <= m => Collected(h[n], text, n, max)}
<1>5. 0 \in S
  <2>1. 0 \in 0..m
    BY <1>3
  <2>2. h[0] = [chunks |-> <<>>, current |-> <<>>]
    BY <1>4, <2>1
  <2>3. Collected(h[0], text, 0, max)
    BY <2>2, NothingIsCut
  <2> QED
    BY <2>3
<1>6. ASSUME NEW n \in Nat, n \in S PROVE n + 1 \in S
  <2> SUFFICES ASSUME n + 1 <= m PROVE Collected(h[n + 1], text, n + 1, max)
    OBVIOUS
  <2>1. n <= m /\ n + 1 \in 0..m /\ n + 1 # 0 /\ (n + 1) - 1 = n
    BY <1>3
  <2>2. Collected(h[n], text, n, max)
    BY <1>6, <2>1
  <2>3. h[n + 1] = Taken(h[n], text[n + 1], max)
    BY <1>4, <2>1
  <2>4. Collected(Taken(h[n], text[n + 1], max), text, n + 1, max)
    BY <2>2, TakenCollects
  <2> QED
    BY <2>3, <2>4
<1>7. Nat \subseteq S
  <2> HIDE DEF S
  <2> QED
    BY <1>5, <1>6, SetInduction
<1>8. m \in S /\ m <= m
  <2> HIDE DEF S
  <2> QED
    BY <1>3, <1>7
<1>9. Collected(h[m], text, m, max)
  BY <1>8
<1> QED
  BY <1>2, <1>9 DEF Collected

-----------------------------------------------------------------------------
(***************************************************************************)
(* A summary under way.                                                    *)
(***************************************************************************)
Asked == [variant : {1}, item : Seq(Nat), raised : {FALSE}, answer : {0}]

(* The chunks asked so far are the first ones, each asked once.            *)
AsksInOrder ==
    /\ job.text \in Texts /\ job.items = Chunk(job.text, ChunkTokens) /\ job.repeat = 1
    /\ outcome \in {"running", "done"} =>
         /\ reports = <<>>
         /\ results \in Seq(Seq(Nat)) /\ calls \in Seq(Asked)
         /\ Len(results) <= Len(job.items) /\ Len(calls) = Len(results)
         /\ \A k \in 1..Len(results) : /\ results[k] = job.items[k]
                                       /\ calls[k].item = results[k]
    /\ outcome = "running" => Len(results) < Len(job.items)
    /\ outcome = "done" => Len(results) = Len(job.items)

SummaryInv ==
    /\ outcome = "none" => /\ job = NoJob /\ results = <<>>
                           /\ reports = <<>> /\ calls = <<>>
    /\ job.kind = "summarize" => AsksInOrder

LEMMA SummaryInvInit == EvalInit => SummaryInv
<1> SUFFICES ASSUME EvalInit PROVE SummaryInv
  OBVIOUS
<1>1. job.kind = "none"
  BY DEF EvalInit, NoJob
<1> QED
  BY <1>1 DEF EvalInit, SummaryInv

LEMMA FrontAndLast ==
  ASSUME NEW cs \in Seq(Seq(Nat)), NEW n \in Nat, n + 1 = Len(cs)
  PROVE  SubSeq(cs, 1, n) \in Seq(Seq(Nat)) /\ cs = Append(SubSeq(cs, 1, n), cs[Len(cs)])
<1> DEFINE rest == SubSeq(cs, 1, n)
           x == cs[Len(cs)]
           all == Append(rest, x)
<1>1. rest \in Seq(Seq(Nat)) /\ Len(rest) = n /\ \A i \in 1..n : rest[i] = cs[i]
  OBVIOUS
<1>2. x \in Seq(Nat)
  OBVIOUS
<1> HIDE DEF rest, x
<1>3. /\ all \in Seq(Seq(Nat)) /\ Len(all) = n + 1 /\ all[n + 1] = x
      /\ \A i \in 1..n : all[i] = rest[i]
  BY <1>1, <1>2, AppendProperties
<1> HIDE DEF all
<1>4. ASSUME NEW i \in 1..Len(cs) PROVE cs[i] = all[i]
  <2>1. CASE i = n + 1
    BY <1>3, <2>1 DEF x
  <2>2. CASE i # n + 1
    <3>1. i \in 1..n
      BY <2>2
    <3> QED
      BY <1>1, <1>3, <3>1
  <2> QED
    BY <2>1, <2>2
<1>5. cs = all
  BY <1>3, <1>4, SeqEqual
<1> QED
  BY <1>1, <1>5 DEF rest, x, all

LEMMA SummaryStarts ==
  ASSUME SummaryInv, NEW text \in Texts, StartSummary(text)
  PROVE  SummaryInv'
<1>1. outcome = "none" /\ job = NoJob /\ results = <<>> /\ reports = <<>> /\ calls = <<>>
  BY DEF StartSummary, SummaryInv
<1> DEFINE cs == Chunk(text, ChunkTokens)
<1>2. /\ job' = [NoJob EXCEPT !.kind = "summarize", !.items = cs, !.text = text]
      /\ outcome' = IF text = <<>> THEN "done" ELSE "running"
      /\ results' = <<>> /\ reports' = <<>> /\ calls' = <<>>
  BY <1>1 DEF StartSummary
<1>3. text \in Seq(Nat) /\ ChunkTokens \in Nat
  BY EvaluationAssumption
<1>4. Cuts(cs, text, Len(text), ChunkTokens)
  BY <1>3, ChunkCuts
<1>5. cs \in Seq(Seq(Nat)) /\ FlattenSeq(cs) = text
  <2>1. SubSeq(text, 1, Len(text)) = text
    BY <1>3
  <2> QED
    BY <1>4, <2>1 DEF Cuts
<1> HIDE DEF cs
<1>6. job'.kind = "summarize" /\ job'.items = cs /\ job'.text = text /\ job'.repeat = 1
  BY <1>2 DEF NoJob
<1>7. text = <<>> <=> Len(cs) = 0
  <2>1. CASE text = <<>>
    <3>1. SUFFICES ASSUME Len(cs) # 0 PROVE FALSE
      BY <2>1
    <3>2. Len(cs) \in Nat /\ Len(cs) \in 1..Len(cs)
      BY <1>5, <3>1
    <3>3. cs[Len(cs)] \in Seq(Nat) /\ cs[Len(cs)] # <<>>
      BY <1>4, <1>5, <3>2 DEF Cuts
    <3> DEFINE n == Len(cs) - 1
               rest == SubSeq(cs, 1, n)
    <3>4. n \in Nat /\ n + 1 = Len(cs)
      BY <3>2
    <3>5. rest \in Seq(Seq(Nat)) /\ cs = Append(rest, cs[Len(cs)])
      BY <1>5, <3>2, <3>4, FrontAndLast
    <3> HIDE DEF rest
    <3>6. FlattenSeq(cs) = FlattenSeq(rest) \o cs[Len(cs)]
      BY <3>3, <3>5, FlattenAppend
    <3>7. FlattenSeq(rest) \in Seq(Nat)
      BY <3>5, FlattenIsText
    <3>8. Len(FlattenSeq(rest) \o cs[Len(cs)]) = Len(FlattenSeq(rest)) + Len(cs[Len(cs)])
      BY <3>3, <3>7, ConcatProperties
    <3>9. Len(FlattenSeq(rest)) \in Nat /\ Len(cs[Len(cs)]) \in Nat /\ Len(cs[Len(cs)]) # 0
      BY <3>3, <3>7
    <3>10. Len(text) = 0
      BY <2>1
    <3> QED
      BY <1>5, <3>6, <3>8, <3>9, <3>10
  <2>2. CASE text # <<>>
    <3>1. cs # <<>>
      BY <1>5, <2>2 DEF FlattenSeq
    <3> QED
      BY <1>5, <2>2, <3>1
  <2> QED
    BY <2>1, <2>2
<1>8. Len(results') = 0 /\ Len(calls') = 0 /\ Len(cs) \in Nat
      /\ results' \in Seq(Seq(Nat)) /\ calls' \in Seq(Asked)
  BY <1>2, <1>5
<1>9. \A k \in 1..Len(results') : FALSE
  BY <1>8
<1>10. AsksInOrder'
  BY <1>2, <1>6, <1>7, <1>8, <1>9 DEF AsksInOrder, cs
<1>11. outcome' # "none"
  BY <1>2
<1> QED
  BY <1>10, <1>11 DEF SummaryInv

LEMMA SummaryProceeds ==
  ASSUME SummaryInv, RouterSummarizes
  PROVE  SummaryInv'
<1> DEFINE n == Len(results) + 1
           x == job.items[n]
<1>1. /\ outcome = "running" /\ job.kind = "summarize" /\ job' = job /\ reports' = reports
      /\ outcome' = IF Len(results') = Len(job.items) THEN "done" ELSE "running"
      /\ results' = Append(results, ItemOf(n))
      /\ calls' = Append(calls, [variant |-> Variant, item |-> ItemOf(n),
                                 raised |-> FALSE, answer |-> 0])
  BY DEF RouterSummarizes, Awaits, Called
<1>2. /\ job.text \in Texts /\ job.items = Chunk(job.text, ChunkTokens) /\ job.repeat = 1
      /\ reports = <<>> /\ results \in Seq(Seq(Nat)) /\ calls \in Seq(Asked)
      /\ Len(results) < Len(job.items) /\ Len(calls) = Len(results)
      /\ \A k \in 1..Len(results) : results[k] = job.items[k] /\ calls[k].item = results[k]
  BY <1>1 DEF SummaryInv, AsksInOrder
<1>3. job.items \in Seq(Seq(Nat))
  <2>1. job.text \in Seq(Nat) /\ ChunkTokens \in Nat
    BY <1>2, EvaluationAssumption
  <2>2. Cuts(Chunk(job.text, ChunkTokens), job.text, Len(job.text), ChunkTokens)
    BY <2>1, ChunkCuts
  <2> QED
    BY <1>2, <2>2 DEF Cuts
<1>4. n \in 1..Len(job.items) /\ n \in Nat /\ Len(results) \in Nat
  BY <1>2, <1>3
<1>5. x \in Seq(Nat)
  BY <1>3, <1>4
<1>6. ItemOf(n) = x
  <2>1. (n - 1) \div job.repeat + 1 = n
    BY <1>2, <1>4
  <2> QED
    BY <2>1 DEF ItemOf
<1>7. Variant = 1
  BY <1>2 DEF Variant
<1> DEFINE c == [variant |-> 1, item |-> x, raised |-> FALSE, answer |-> 0]
<1>8. c \in Asked /\ c.item = x
  BY <1>5 DEF Asked
<1>9. results' = Append(results, x) /\ calls' = Append(calls, c)
  BY <1>1, <1>6, <1>7
<1> HIDE DEF c
<1>10. /\ results' \in Seq(Seq(Nat)) /\ Len(results') = n /\ results'[n] = x
       /\ \A k \in 1..Len(results) : results'[k] = results[k]
  BY <1>2, <1>5, <1>9, AppendProperties
<1>11. /\ calls' \in Seq(Asked) /\ Len(calls') = n /\ calls'[n] = c
       /\ \A k \in 1..Len(results) : calls'[k] = calls[k]
  BY <1>2, <1>8, <1>9, AppendProperties
<1>12. ASSUME NEW k \in 1..Len(results')
       PROVE  results'[k] = job.items[k] /\ calls'[k].item = results'[k]
  <2>1. CASE k = n
    BY <1>8, <1>10, <1>11, <2>1
  <2>2. CASE k # n
    <3>1. k \in 1..Len(results)
      BY <1>4, <1>10, <2>2
    <3> QED
      BY <1>2, <1>10, <1>11, <3>1
  <2> QED
    BY <2>1, <2>2
<1>13. n <= Len(job.items) /\ (n # Len(job.items) => n < Len(job.items))
  BY <1>3, <1>4
<1> HIDE DEF n, x
<1>14. AsksInOrder'
  BY <1>1, <1>2, <1>10, <1>11, <1>12, <1>13 DEF AsksInOrder
<1>15. outcome' # "none"
  BY <1>1
<1> QED
  BY <1>14, <1>15 DEF SummaryInv

LEMMA SummaryInvNext == SummaryInv /\ [EvalNext]_evars => SummaryInv'
<1> SUFFICES ASSUME SummaryInv, [EvalNext]_evars PROVE SummaryInv'
  OBVIOUS
<1>1. ASSUME NEW text \in Texts, StartSummary(text) PROVE SummaryInv'
  BY <1>1, SummaryStarts
<1>2. CASE RouterSummarizes
  BY <1>2, SummaryProceeds
<1>3. ASSUME NEW vs, NEW cs, NEW n, NEW t, StartCompare(vs, cs, n, t) PROVE SummaryInv'
  <2>1. job'.kind = "compare" /\ outcome' # "none"
    BY <1>3 DEF StartCompare, NoJob
  <2> QED
    BY <2>1 DEF SummaryInv
<1>4. ASSUME NEW n, StartBenchmark(n) PROVE SummaryInv'
  <2>1. job'.kind = "benchmark" /\ outcome' # "none"
    BY <1>4 DEF StartBenchmark, NoJob
  <2> QED
    BY <2>1 DEF SummaryInv
<1>5. CASE AgentAnswers \/ AgentRaises
  <2>1. job.kind = "compare" /\ job' = job /\ outcome = "running"
    BY <1>5 DEF AgentAnswers, AgentRaises, Awaits
  <2>2. outcome' # "none"
    BY <1>5, <2>1 DEF AgentAnswers, AgentRaises, Collects
  <2> QED
    BY <2>1, <2>2 DEF SummaryInv
<1>6. CASE TaskAnswers \/ TaskRaises
  <2>1. job.kind = "benchmark" /\ job' = job /\ outcome = "running"
    BY <1>6 DEF TaskAnswers, TaskRaises, TaskDone, Awaits
  <2>2. outcome' # "none"
    BY <1>6, <2>1 DEF TaskAnswers, TaskRaises, TaskDone
  <2> QED
    BY <2>1, <2>2 DEF SummaryInv
<1>7. CASE Escapes
  <2>1. outcome' = "raised" /\ job' = job /\ outcome = "running"
    BY <1>7 DEF Escapes
  <2> QED
    BY <2>1 DEF SummaryInv, AsksInOrder
<1>8. CASE UNCHANGED evars
  BY <1>8 DEF evars, SummaryInv, AsksInOrder
<1> QED
  BY <1>1, <1>2, <1>3, <1>4, <1>5, <1>6, <1>7, <1>8 DEF EvalNext

LEMMA SummaryInvIsEnough == SummaryInv => SummaryCoversText
<1> SUFFICES ASSUME SummaryInv, job.kind = "summarize", outcome = "done"
             PROVE  /\ FlattenSeq(results) = job.text
                    /\ [k \in DOMAIN calls |-> calls[k].item] = results
                    /\ \A k \in DOMAIN results :
                         /\ results[k] # <<>>
                         /\ CountTokens(Joined(results[k])) <= ChunkTokens \/ Len(results[k]) = 1
                         /\ k > 1 => CountTokens(Joined(Append(results[k - 1], results[k][1])))
                                       > ChunkTokens
  BY DEF SummaryCoversText
<1>1. /\ job.text \in Texts /\ job.items = Chunk(job.text, ChunkTokens)
      /\ results \in Seq(Seq(Nat)) /\ calls \in Seq(Asked)
      /\ Len(calls) = Len(results) /\ Len(results) = Len(job.items)
      /\ \A k \in 1..Len(results) : results[k] = job.items[k] /\ calls[k].item = results[k]
  BY DEF SummaryInv, AsksInOrder
<1>2. job.text \in Seq(Nat) /\ ChunkTokens \in Nat
  BY <1>1, EvaluationAssumption
<1>3. Cuts(Chunk(job.text, ChunkTokens), job.text, Len(job.text), ChunkTokens)
  BY <1>2, ChunkCuts
<1>4. job.items \in Seq(Seq(Nat))
  BY <1>1, <1>3 DEF Cuts
<1>5. results = job.items
  BY <1>1, <1>4, SeqEqual
<1>6. Cuts(results, job.text, Len(job.text), ChunkTokens)
  BY <1>1, <1>3, <1>5
<1>7. FlattenSeq(results) = job.text
  <2>1. SubSeq(job.text, 1, Len(job.text)) = job.text
    BY <1>2
  <2> QED
    BY <1>6, <2>1 DEF Cuts
<1>8. [k \in DOMAIN calls |-> calls[k].item] = results
  <2> DEFINE items == [k \in DOMAIN calls |-> calls[k].item]
  <2>1. DOMAIN calls = 1..Len(results) /\ Len(results) \in Nat
    BY <1>1
  <2>2. results = [k \in 1..Len(results) |-> results[k]]
    BY <1>1
  <2>3. \A k \in 1..Len(results) : items[k] = results[k]
    BY <1>1, <2>1
  <2> QED
    BY <2>1, <2>2, <2>3
<1>9. ASSUME NEW k \in DOMAIN results
      PROVE  /\ results[k] # <<>>
             /\ CountTokens(Joined(results[k])) <= ChunkTokens \/ Len(results[k]) = 1
             /\ k > 1 => CountTokens(Joined(Append(results[k - 1], results[k][1])))
                           > ChunkTokens
  <2>1. k \in 1..Len(results) /\ (k > 1 => k \in 2..Len(results))
    BY <1>1
  <2> QED
    BY <1>6, <2>1 DEF Cuts, Cost
<1> QED
  BY <1>7, <1>8, <1>9

(* A summary of any text, cut by any limit, asks for each of its chunks    *)
(* once and in order, and the chunks are the text, none too large unless   *)
(* it is one word and none needlessly small (chunk, Summarizer.summarize). *)
THEOREM SummaryIsOfTheText == EvalSpec => []SummaryCoversText
<1>1. EvalSpec => []SummaryInv
  BY SummaryInvInit, SummaryInvNext, PTL DEF EvalSpec
<1> QED
  BY <1>1, SummaryInvIsEnough, PTL

-----------------------------------------------------------------------------
(***************************************************************************)
(* Python's sort: the places that SortedAt counts are 1 to the number of   *)
(* elements, each taken once, and they follow the order.                   *)
(***************************************************************************)
IsOrder(R, K) == /\ \A i \in K : <<i, i>> \notin R
                 /\ \A i, j \in K : i = j \/ <<i, j>> \in R \/ <<j, i>> \in R
                 /\ \A i, j, k \in K : <<i, j>> \in R /\ <<j, k>> \in R => <<i, k>> \in R

PlacesIn(R, K) == [i \in K |-> Cardinality({j \in K : j = i \/ <<j, i>> \in R})]

LEMMA PlacesAreTaken ==
  ASSUME NEW K, IsFiniteSet(K), NEW R, IsOrder(R, K)
  PROVE  LET place == PlacesIn(R, K)
             n == Cardinality(K)
         IN  /\ n \in Nat
             /\ \A i \in K : place[i] \in 1..n
             /\ \A i, j \in K : <<i, j>> \in R => place[i] < place[j]
             /\ \A k \in 1..n : \E i \in K : place[i] = k
<1> DEFINE place == PlacesIn(R, K)
           n == Cardinality(K)
           Upto(i) == {j \in K : j = i \/ <<j, i>> \in R}
<1>1. n \in Nat /\ IsFiniteSet(1..n) /\ Cardinality(1..n) = n
  BY FS_CardinalityType, FS_Interval
<1>2. \A i \in K : Upto(i) \in SUBSET K /\ i \in Upto(i)
  OBVIOUS
<1>3. \A i \in K : /\ IsFiniteSet(Upto(i)) /\ Cardinality(Upto(i)) \in Nat
                   /\ Cardinality(Upto(i)) <= n /\ Cardinality(Upto(i)) # 0
  <2> SUFFICES ASSUME NEW i \in K
               PROVE  /\ IsFiniteSet(Upto(i)) /\ Cardinality(Upto(i)) \in Nat
                      /\ Cardinality(Upto(i)) <= n /\ Cardinality(Upto(i)) # 0
    OBVIOUS
  <2>1. Upto(i) \in SUBSET K /\ Upto(i) # {}
    BY <1>2
  <2> HIDE DEF Upto
  <2>2. IsFiniteSet(Upto(i)) /\ Cardinality(Upto(i)) <= Cardinality(K)
    BY <2>1, FS_Subset
  <2> QED
    BY <2>1, <2>2, FS_EmptySet, FS_CardinalityType
<1>4. ASSUME NEW i \in K, NEW j \in K, <<i, j>> \in R
      PROVE  Cardinality(Upto(i)) < Cardinality(Upto(j))
  <2>1. Upto(i) \in SUBSET Upto(j) /\ j \in Upto(j) /\ j \notin Upto(i)
    BY <1>4 DEF IsOrder
  <2> HIDE DEF Upto
  <2>2. /\ Cardinality(Upto(i)) <= Cardinality(Upto(j))
        /\ Cardinality(Upto(i)) # Cardinality(Upto(j))
    BY <1>3, <2>1, FS_Subset
  <2> QED
    BY <1>3, <2>2
<1>5. /\ \A i \in K : place[i] = Cardinality(Upto(i))
      /\ place = [i \in K |-> place[i]]
  BY DEF PlacesIn
<1> HIDE DEF Upto, place, n
<1>6. \A i \in K : place[i] \in 1..n
  BY <1>1, <1>3, <1>5
<1>7. \A i, j \in K : <<i, j>> \in R => place[i] < place[j]
  BY <1>4, <1>5
<1>8. place \in Injection(K, 1..n)
  <2>1. place \in [K -> 1..n]
    BY <1>5, <1>6
  <2>2. ASSUME NEW i \in K, NEW j \in K, place[i] = place[j] PROVE i = j
    <3>1. ~(place[i] < place[j]) /\ ~(place[j] < place[i])
      BY <1>6, <2>2
    <3> QED
      BY <1>7, <3>1 DEF IsOrder
  <2> QED
    BY <2>1, <2>2 DEF Injection, IsInjective
<1>9. place \in Surjection(K, 1..n)
  BY <1>1, <1>8, FS_Injection DEF n
<1> QED
  BY <1>1, <1>6, <1>7, <1>9 DEF Surjection, place, n

Placing(R, K) == [k \in 1..Cardinality(K) |-> CHOOSE i \in K : PlacesIn(R, K)[i] = k]

LEMMA PlacingSorts ==
  ASSUME NEW K, IsFiniteSet(K), NEW R, IsOrder(R, K), NEW n, n = Cardinality(K)
  PROVE  LET at == Placing(R, K)
         IN  /\ at \in [1..n -> K]
             /\ \A k, l \in 1..n : k < l => <<at[k], at[l]>> \in R /\ at[k] # at[l]
             /\ \A i \in K : \E k \in 1..n : at[k] = i
<1> DEFINE at == Placing(R, K)
           place == PlacesIn(R, K)
<1>1. /\ n \in Nat
      /\ \A i \in K : place[i] \in 1..n
      /\ \A i, j \in K : <<i, j>> \in R => place[i] < place[j]
      /\ \A k \in 1..n : \E i \in K : place[i] = k
  BY PlacesAreTaken
<1> HIDE DEF place
<1>2. \A k \in 1..n : at[k] \in K /\ place[at[k]] = k
  BY <1>1 DEF Placing, place
<1>3. at = [k \in 1..n |-> at[k]]
  BY DEF Placing
<1> HIDE DEF at
<1>4. at \in [1..n -> K]
  BY <1>2, <1>3
<1>5. ASSUME NEW k \in 1..n, NEW l \in 1..n, k < l
      PROVE  <<at[k], at[l]>> \in R /\ at[k] # at[l]
  <2>1. at[k] \in K /\ at[l] \in K /\ ~(place[at[l]] < place[at[k]])
    BY <1>2, <1>5
  <2>2. at[k] # at[l]
    BY <1>2, <1>5
  <2>3. <<at[l], at[k]>> \notin R
    BY <1>1, <2>1
  <2> QED
    BY <2>1, <2>2, <2>3 DEF IsOrder
<1>6. ASSUME NEW i \in K PROVE \E k \in 1..n : at[k] = i
  <2>1. place[i] \in 1..n /\ at[place[i]] \in K /\ place[at[place[i]]] = place[i]
    BY <1>1, <1>2
  <2>2. ~(place[i] < place[at[place[i]]]) /\ ~(place[at[place[i]]] < place[i])
    BY <2>1
  <2>3. at[place[i]] = i
    BY <1>1, <2>1, <2>2 DEF IsOrder
  <2> QED
    BY <2>1, <2>3
<1> QED
  BY <1>4, <1>5, <1>6 DEF at

(* All the elements of a sequence are sorted.                              *)
LEMMA PlacingSortsAll ==
  ASSUME NEW n \in Nat, NEW R, IsOrder(R, 1..n)
  PROVE  LET at == Placing(R, 1..n)
         IN  /\ Cardinality(1..n) = n
             /\ at \in [1..n -> 1..n]
             /\ \A k, l \in 1..n : k < l => <<at[k], at[l]>> \in R /\ at[k] # at[l]
             /\ \A i \in 1..n : \E k \in 1..n : at[k] = i
<1> DEFINE K == 1..n
<1>1. IsFiniteSet(K) /\ n = Cardinality(K)
  BY FS_Interval
<1> HIDE DEF K
<1>2. IsOrder(R, K)
  BY DEF K
<1>3. LET at == Placing(R, K)
      IN  /\ at \in [1..n -> K]
          /\ \A k, l \in 1..n : k < l => <<at[k], at[l]>> \in R /\ at[k] # at[l]
          /\ \A i \in K : \E k \in 1..n : at[k] = i
  BY <1>1, <1>2, PlacingSorts
<1> QED
  BY <1>1, <1>3 DEF K

(* The reports rps, from the best to the worst, are ranked.                *)
ByMean(ranked, rps, at, n) ==
    /\ ranked = [k \in 1..n |-> rps[at[k]]]
    /\ \A i \in 1..n : \E k \in 1..n : at[k] = i
    /\ \A k, l \in 1..n : k < l => \/ rps[at[k]].sum > rps[at[l]].sum
                                   \/ rps[at[k]].sum = rps[at[l]].sum /\ at[k] < at[l]

LEMMA RankedSorts ==
  ASSUME NEW X, \A x \in X : x.sum \in Nat, NEW n \in Nat, NEW rps \in [1..n -> X]
  PROVE  \E at \in [1..n -> 1..n] : ByMean(Ranked(rps), rps, at, n)
<1> DEFINE Before(i, j) == \/ rps[i].sum > rps[j].sum
                           \/ rps[i].sum = rps[j].sum /\ i < j
           R == {ij \in (1..n) \X (1..n) : Before(ij[1], ij[2])}
           at == Placing(R, 1..n)
<1>1. DOMAIN rps = 1..n /\ \A i \in 1..n : rps[i].sum \in Nat
  OBVIOUS
<1>2. \A i, j \in 1..n : <<i, j>> \in R <=> Before(i, j)
  OBVIOUS
<1>3. IsOrder(R, 1..n)
  <2>1. \A i \in 1..n : ~Before(i, i)
    BY <1>1
  <2>2. \A i, j \in 1..n : i = j \/ Before(i, j) \/ Before(j, i)
    BY <1>1
  <2>3. \A i, j, k \in 1..n : Before(i, j) /\ Before(j, k) => Before(i, k)
    BY <1>1
  <2> HIDE DEF R, Before
  <2> QED
    BY <1>2, <2>1, <2>2, <2>3 DEF IsOrder
<1>4. Ranked(rps) = [k \in 1..n |-> rps[at[k]]]
  <2> DEFINE Place(i) == Cardinality({j \in DOMAIN rps : \/ rps[j].sum > rps[i].sum
                                                         \/ j <= i /\ ~(rps[i].sum > rps[j].sum)})
             first(k) == CHOOSE i \in DOMAIN rps : Place(i) = k
  <2>1. Ranked(rps) = [k \in 1..Cardinality(DOMAIN rps) |-> rps[first(k)]]
    BY DEF Ranked, StableSort, SortedAt
  <2>2. ASSUME NEW i \in 1..n PROVE Place(i) = PlacesIn(R, 1..n)[i]
    <3>1. \A j \in 1..n : (rps[j].sum > rps[i].sum \/ (j <= i /\ ~(rps[i].sum > rps[j].sum)))
                           <=> (j = i \/ <<j, i>> \in R)
      <4> HIDE DEF R
      <4> QED
        BY <1>1, <1>2
    <3>2. {j \in DOMAIN rps : \/ rps[j].sum > rps[i].sum
                              \/ j <= i /\ ~(rps[i].sum > rps[j].sum)}
          = {j \in 1..n : j = i \/ <<j, i>> \in R}
      <4> HIDE DEF R
      <4> QED
        BY <1>1, <3>1
    <3> QED
      BY <3>2 DEF PlacesIn
  <2> HIDE DEF Place, R
  <2>3. Cardinality(1..n) = n
    BY FS_Interval
  <2>4. ASSUME NEW k \in 1..n PROVE first(k) = at[k]
    BY <1>1, <2>2, <2>3 DEF Placing
  <2> HIDE DEF at, first
  <2> QED
    BY <1>1, <2>1, <2>3, <2>4
<1>5. /\ at \in [1..n -> 1..n]
      /\ \A k, l \in 1..n : k < l => <<at[k], at[l]>> \in R /\ at[k] # at[l]
      /\ \A i \in 1..n : \E k \in 1..n : at[k] = i
  <2> HIDE DEF R
  <2> QED
    BY <1>3, PlacingSortsAll
<1>6. \A k, l \in 1..n : k < l => Before(at[k], at[l])
  <2> HIDE DEF at, R
  <2> QED
    BY <1>2, <1>5
<1> HIDE DEF at
<1> QED
  BY <1>4, <1>5, <1>6 DEF ByMean

-----------------------------------------------------------------------------
(***************************************************************************)
(* The calls of a loop by variant and run, and the item of each.           *)
(***************************************************************************)
LEMMA Quotient ==
  ASSUME NEW a \in Nat, NEW r \in Nat \ {0}
  PROVE  a \div r \in Nat /\ r * (a \div r) <= a /\ a < r * (a \div r) + r
  OBVIOUS

LEMMA QuotientOf ==
  ASSUME NEW a \in Nat, NEW r \in Nat \ {0}
  PROVE  (a * r) \div r = a
  OBVIOUS

LEMMA TimesGrows ==
  ASSUME NEW a \in Nat, NEW b \in Nat, NEW r \in Nat, a <= b
  PROVE  a * r <= b * r /\ a * r \in Nat /\ b * r \in Nat
  OBVIOUS

LEMMA TimesCancels ==
  ASSUME NEW a \in Nat, NEW b \in Nat, NEW r \in Nat \ {0}, r * a < b * r
  PROVE  a < b
  OBVIOUS

LEMMA TimesNext ==
  ASSUME NEW a \in Nat, NEW r \in Nat
  PROVE  (a + 1) * r = a * r + r /\ a * r \in Nat
  OBVIOUS

(* The k-th run of the v-th of m variants is among their calls.            *)
LEMMA CallIsMade ==
  ASSUME NEW n \in Nat, NEW m \in Nat, NEW v \in 1..m, NEW k \in 1..n
  PROVE  (v - 1) * n + k \in 1..(m * n)
<1>1. v - 1 \in Nat /\ v \in Nat /\ v <= m /\ (v - 1) + 1 = v
  OBVIOUS
<1>2. v * n = (v - 1) * n + n /\ (v - 1) * n \in Nat
  BY <1>1, TimesNext
<1>3. v * n <= m * n /\ m * n \in Nat
  BY <1>1, TimesGrows
<1> QED
  BY <1>2, <1>3

(* The runs go through all the items, and through nothing else.            *)
LEMMA RunsCoverItems ==
  ASSUME NEW l \in Nat, NEW r \in Nat
  PROVE  /\ \A k \in 1..(l * r) : (k - 1) \div r + 1 \in 1..l
         /\ l * r # 0 => \A i \in 1..l : \E k \in 1..(l * r) : (k - 1) \div r + 1 = i
<1>1. CASE r = 0
  <2>1. l * r = 0
    BY <1>1
  <2> QED
    BY <2>1
<1>2. CASE r # 0
  <2>1. ASSUME NEW k \in 1..(l * r) PROVE (k - 1) \div r + 1 \in 1..l
    <3> DEFINE q == (k - 1) \div r
    <3>1. k - 1 \in Nat /\ l * r \in Nat /\ k - 1 < l * r
      OBVIOUS
    <3>2. q \in Nat /\ r * q <= k - 1
      BY <1>2, <3>1, Quotient
    <3> HIDE DEF q
    <3>3. r * q \in Nat
      BY <3>2
    <3>4. r * q < l * r
      BY <3>1, <3>2, <3>3
    <3>5. q < l
      BY <1>2, <3>2, <3>4, TimesCancels
    <3> QED
      BY <3>2, <3>5 DEF q
  <2>2. ASSUME NEW i \in 1..l PROVE \E k \in 1..(l * r) : (k - 1) \div r + 1 = i
    <3>1. i - 1 \in Nat /\ i \in Nat /\ i <= l /\ (i - 1) + 1 = i
      OBVIOUS
    <3>2. i * r = (i - 1) * r + r /\ (i - 1) * r \in Nat /\ i * r <= l * r /\ l * r \in Nat
      BY <3>1, TimesNext, TimesGrows
    <3>3. ((i - 1) * r) \div r = i - 1
      BY <1>2, <3>1, QuotientOf
    <3> DEFINE k == (i - 1) * r + 1
    <3>4. k - 1 = (i - 1) * r /\ k \in 1..(l * r)
      BY <1>2, <3>2
    <3>5. (k - 1) \div r + 1 = i
      BY <3>1, <3>3, <3>4
    <3> QED
      BY <3>4, <3>5
  <2> QED
    BY <2>1, <2>2
<1> QED
  BY <1>1, <1>2

-----------------------------------------------------------------------------
(***************************************************************************)
(* A comparison.  The invariant says of each report so far, and of the     *)
(* results collected for the next, what calls they tell of.                *)
(***************************************************************************)
Items == ToSet(job.items)
ResultRecords == [case : Items, score : 0..Top, error : BOOLEAN, success : BOOLEAN,
                  run_index : {RunIndex(k) : k \in Nat}]
CallRecords == [variant : Nat, item : Items, raised : BOOLEAN, answer : 0..Top]
ReportRecords == {Aggregate(v, rs) : v \in Nat, rs \in Seq(ResultRecords)}

CallOf(v, k) == calls[(v - 1) * Runs(job) + k]
PointsOf(v, k) == IF CallOf(v, k).raised THEN 0 ELSE CallOf(v, k).answer
MeanOf(v) == Sum([k \in 1..Runs(job) |-> PointsOf(v, k)])
PassedOf(v) == Cardinality({k \in 1..Runs(job) : PointsOf(v, k) >= job.threshold})

(* The results rs are those of the first calls of variant v.               *)
TellsCalls(rs, v) ==
    \A k \in 1..Len(rs) : /\ CallOf(v, k).variant = v /\ CallOf(v, k).item = ItemOf(k)
                          /\ rs[k].case = ItemOf(k) /\ rs[k].score = PointsOf(v, k)
                          /\ rs[k].error <=> CallOf(v, k).raised

ReportTells(r, v) ==
    \E rs \in Seq(ResultRecords) :
      r = Aggregate(v, rs) /\ Len(rs) = Runs(job) /\ TellsCalls(rs, v)

Accounted(rps, rs) ==
    /\ rps \in Seq(ReportRecords) /\ rs \in Seq(ResultRecords) /\ calls \in Seq(CallRecords)
    /\ Len(calls) = Len(rps) * Runs(job) + Len(rs)
    /\ TellsCalls(rs, Len(rps) + 1)
    /\ \A v \in 1..Len(rps) : ReportTells(rps[v], v)

CompareJob == /\ job.items \in Seq(Items) /\ job.repeat \in Nat /\ job.variants \in Nat
              /\ job.threshold \in Nat

Comparing == /\ Accounted(reports, results)
             /\ Len(reports) < job.variants /\ Len(results) < Runs(job)

Compared == \E rps : /\ Accounted(rps, <<>>) /\ Len(rps) = job.variants
                     /\ reports = Ranked(rps) \/ (Runs(job) = 0 /\ reports = rps)

CompareInv ==
    /\ outcome = "none" => job = NoJob /\ results = <<>> /\ reports = <<>> /\ calls = <<>>
    /\ job.kind = "compare" /\ outcome \in {"running", "done"} => CompareJob
    /\ job.kind = "compare" /\ outcome = "running" => Comparing
    /\ job.kind = "compare" /\ outcome = "done" => Compared

LEMMA CompareInvInit == EvalInit => CompareInv
  BY DEF EvalInit, CompareInv, NoJob

LEMMA ItemsOfRuns ==
  ASSUME CompareJob
  PROVE  /\ Runs(job) \in Nat
         /\ \A k \in 1..Runs(job) : ItemOf(k) \in Items
         /\ Runs(job) # 0 => Items = {ItemOf(k) : k \in 1..Runs(job)}
<1> DEFINE l == Len(job.items)
           at(k) == (k - 1) \div job.repeat + 1
<1>1. /\ l \in Nat /\ job.repeat \in Nat /\ Runs(job) = l * job.repeat
      /\ DOMAIN job.items = 1..l /\ Items = {job.items[i] : i \in 1..l}
  BY DEF CompareJob, Runs, Items, ToSet
<1>2. /\ \A k \in 1..Runs(job) : at(k) \in 1..l
      /\ Runs(job) # 0 => \A i \in 1..l : \E k \in 1..Runs(job) : at(k) = i
  <2> DEFINE r == job.repeat
  <2>1. l \in Nat /\ r \in Nat /\ Runs(job) = l * r
    BY <1>1
  <2> HIDE DEF l, r
  <2>2. /\ \A k \in 1..(l * r) : (k - 1) \div r + 1 \in 1..l
        /\ l * r # 0 => \A i \in 1..l : \E k \in 1..(l * r) : (k - 1) \div r + 1 = i
    BY <2>1, RunsCoverItems
  <2> QED
    BY <2>1, <2>2 DEF r
<1>3. \A k : ItemOf(k) = job.items[at(k)]
  BY DEF ItemOf
<1> HIDE DEF at, l
<1>4. \A k \in 1..Runs(job) : ItemOf(k) \in Items
  BY <1>1, <1>2, <1>3
<1>5. ASSUME Runs(job) # 0 PROVE Items \subseteq {ItemOf(k) : k \in 1..Runs(job)}
  BY <1>1, <1>2, <1>3, <1>5
<1>6. Runs(job) \in Nat
  BY <1>1
<1> QED
  BY <1>4, <1>5, <1>6

(* One more call and its result.                                           *)
LEMMA OneMoreCounts ==
  ASSUME CompareJob, NEW rps, NEW rs, Accounted(rps, rs), Len(rs) < Runs(job),
         NEW c \in CallRecords, NEW x \in ResultRecords,
         c.variant = Len(rps) + 1, c.item = ItemOf(Len(rs) + 1), x.case = ItemOf(Len(rs) + 1),
         x.score = (IF c.raised THEN 0 ELSE c.answer), x.error <=> c.raised,
         NEW a, a = Aggregate(Len(rps) + 1, Append(rs, x)),
         job' = job, calls' = Append(calls, c)
  PROVE  LET all == Append(rs, x)
             more == Append(rps, a)
         IN  /\ all \in Seq(ResultRecords) /\ Len(all) = Len(rs) + 1
             /\ Accounted(rps, all)'
             /\ Len(all) = Runs(job) => Accounted(more, <<>>)' /\ Len(more) = Len(rps) + 1
<1> DEFINE n == Runs(job)
           m == Len(rps)
           h == Len(rs)
           all == Append(rs, x)
           more == Append(rps, a)
<1>1. /\ rps \in Seq(ReportRecords) /\ rs \in Seq(ResultRecords) /\ calls \in Seq(CallRecords)
      /\ n \in Nat /\ m \in Nat /\ h \in Nat /\ h < n
      /\ m * n \in Nat /\ Len(calls) = m * n + h
      /\ TellsCalls(rs, m + 1)
      /\ \A v \in 1..m : ReportTells(rps[v], v)
  BY ItemsOfRuns DEF Accounted
<1>2. /\ all \in Seq(ResultRecords) /\ Len(all) = h + 1 /\ all[h + 1] = x
      /\ \A k \in 1..h : all[k] = rs[k]
  BY <1>1, AppendProperties
<1>3. /\ calls' \in Seq(CallRecords) /\ Len(calls') = m * n + h + 1
      /\ calls'[m * n + h + 1] = c
      /\ \A k \in 1..(m * n + h) : calls'[k] = calls[k]
  BY <1>1, AppendProperties
<1>4. a \in ReportRecords
  <2>1. m + 1 \in Nat /\ all \in Seq(ResultRecords) /\ a = Aggregate(m + 1, all)
    BY <1>1, <1>2
  <2> HIDE DEF m, all
  <2> QED
    BY <2>1 DEF ReportRecords
<1>5. /\ ResultRecords' = ResultRecords /\ CallRecords' = CallRecords
      /\ ReportRecords' = ReportRecords /\ Runs(job)' = n
      /\ \A k : ItemOf(k)' = ItemOf(k)
      /\ \A v, ss : Aggregate(v, ss)' = Aggregate(v, ss)
  BY DEF ResultRecords, CallRecords, ReportRecords, Items, RunIndex, Runs, ItemOf, Aggregate
<1> HIDE DEF n, m, h, all
<1>6. ASSUME NEW v \in 1..m, NEW k \in 1..n PROVE CallOf(v, k)' = CallOf(v, k)
  <2>1. (v - 1) * n + k \in 1..(m * n)
    BY <1>1, CallIsMade
  <2>2. (v - 1) * n + k \in 1..(m * n + h)
    BY <1>1, <2>1
  <2>3. CallOf(v, k)' = calls'[(v - 1) * n + k] /\ CallOf(v, k) = calls[(v - 1) * n + k]
    BY <1>5 DEF CallOf, n
  <2> QED
    BY <1>3, <2>2, <2>3
<1>7. ASSUME NEW v \in 1..m PROVE ReportTells(rps[v], v)'
  <2>1. PICK ss \in Seq(ResultRecords) :
          rps[v] = Aggregate(v, ss) /\ Len(ss) = n /\ TellsCalls(ss, v)
    BY <1>1 DEF ReportTells, n
  <2>2. TellsCalls(ss, v)'
    BY <1>5, <1>6, <2>1 DEF TellsCalls, PointsOf
  <2> QED
    BY <1>5, <2>1, <2>2 DEF ReportTells
<1>8. TellsCalls(all, m + 1)'
  <2> SUFFICES ASSUME NEW k \in 1..(h + 1)
               PROVE  /\ CallOf(m + 1, k)'.variant = m + 1 /\ CallOf(m + 1, k)'.item = ItemOf(k)
                      /\ all[k].case = ItemOf(k) /\ all[k].score = PointsOf(m + 1, k)'
                      /\ all[k].error <=> CallOf(m + 1, k)'.raised
    BY <1>2, <1>5 DEF TellsCalls
  <2>1. (m + 1) - 1 = m
    BY <1>1
  <2>2. CallOf(m + 1, k)' = calls'[m * n + k] /\ CallOf(m + 1, k) = calls[m * n + k]
    BY <1>5, <2>1 DEF CallOf, n
  <2>3. CASE k = h + 1
    <3>1. CallOf(m + 1, k)' = c
      <4>1. m * n + k = m * n + h + 1
        BY <1>1, <2>3
      <4> QED
        BY <1>3, <2>2, <4>1
    <3>2. all[k] = x
      BY <1>2, <2>3
    <3>3. PointsOf(m + 1, k)' = IF c.raised THEN 0 ELSE c.answer
      BY <3>1 DEF PointsOf
    <3> QED
      BY <2>3, <3>1, <3>2, <3>3 DEF m, h
  <2>4. CASE k # h + 1
    <3>1. k \in 1..h /\ m * n + k \in 1..(m * n + h)
      <4>1. k \in 1..h
        BY <1>1, <2>4
      <4>2. \A p \in Nat : p + k \in 1..(p + h)
        BY <1>1, <4>1
      <4> QED
        BY <1>1, <4>1, <4>2
    <3>2. CallOf(m + 1, k)' = CallOf(m + 1, k) /\ all[k] = rs[k]
      BY <1>2, <1>3, <2>2, <3>1
    <3> QED
      BY <1>1, <3>1, <3>2 DEF TellsCalls, PointsOf, h
  <2> QED
    BY <2>3, <2>4
<1>9. Accounted(rps, all)'
  BY <1>1, <1>2, <1>3, <1>5, <1>7, <1>8 DEF Accounted, m
<1>10. ASSUME Len(all) = n PROVE Accounted(more, <<>>)' /\ Len(more) = m + 1
  <2>1. /\ more \in Seq(ReportRecords) /\ Len(more) = m + 1 /\ more[m + 1] = a
        /\ \A v \in 1..m : more[v] = rps[v]
    BY <1>1, <1>4, AppendProperties DEF m
  <2>2. (m + 1) * n = m * n + n
    BY <1>1, TimesNext
  <2>3. Len(calls') = (m + 1) * n + 0
    BY <1>1, <1>2, <1>3, <1>10, <2>2
  <2>4. ReportTells(a, m + 1)'
    BY <1>2, <1>5, <1>8, <1>10 DEF ReportTells, all, m, n
  <2> HIDE DEF more
  <2>5. ASSUME NEW v \in 1..(m + 1) PROVE ReportTells(more[v], v)'
    <3>1. CASE v = m + 1
      BY <2>1, <2>4, <3>1
    <3>2. CASE v # m + 1
      <4>1. v \in 1..m
        BY <1>1, <3>2
      <4> QED
        BY <1>7, <2>1, <4>1
    <3> QED
      BY <3>1, <3>2
  <2>6. TellsCalls(<<>>, m + 2)' /\ <<>> \in Seq(ResultRecords) /\ Len(<<>>) = 0
    BY DEF TellsCalls
  <2>7. Len(more) + 1 = m + 2
    BY <1>1, <2>1
  <2> QED
    BY <1>3, <1>5, <2>1, <2>3, <2>5, <2>6, <2>7 DEF Accounted, n
<1> QED
  BY <1>2, <1>9, <1>10 DEF n, m, h, all

LEMMA NothingAccounted ==
  ASSUME Runs(job)' \in Nat, calls' = <<>>
  PROVE  Accounted(<<>>, <<>>)'
<1>1. Len(<<>>) = 0 /\ 0 * Runs(job)' = 0
  OBVIOUS
<1>2. TellsCalls(<<>>, 1)'
  BY DEF TellsCalls
<1> QED
  BY <1>1, <1>2 DEF Accounted

LEMMA CompareStarts ==
  ASSUME CompareInv, NEW vs \in 0..MaxVariants, NEW cs \in CaseLists, NEW n \in 0..MaxRepeat,
         NEW t \in 0..Top, StartCompare(vs, cs, n, t)
  PROVE  CompareInv'
<1>1. outcome = "none" /\ job = NoJob /\ results = <<>> /\ reports = <<>> /\ calls = <<>>
  BY DEF StartCompare, CompareInv
<1> DEFINE none == [v \in 1..vs |-> Aggregate(v, <<>>)]
<1>2. /\ job' = [NoJob EXCEPT !.kind = "compare", !.items = cs, !.repeat = n,
                              !.variants = vs, !.threshold = t]
      /\ reports' = IF Runs(job)' = 0 THEN none ELSE <<>>
      /\ outcome' = IF Runs(job)' = 0 \/ vs = 0 THEN "done" ELSE "running"
      /\ results' = <<>> /\ calls' = <<>>
  BY <1>1 DEF StartCompare, Runs
<1>3. /\ vs \in Nat /\ n \in Nat /\ t \in Nat /\ cs \in Seq(ToSet(cs)) /\ Len(cs) \in Nat
  BY EvaluationAssumption
<1>4. /\ job'.kind = "compare" /\ job'.items = cs /\ job'.repeat = n /\ job'.variants = vs
      /\ job'.threshold = t
  BY <1>2 DEF NoJob
<1>5. CompareJob' /\ Runs(job)' = Len(cs) * n /\ Runs(job)' \in Nat
  <2>1. Len(cs) * n \in Nat
    BY <1>3
  <2> QED
    BY <1>3, <1>4, <2>1 DEF CompareJob, Runs, Items
<1>6. outcome' # "none"
  BY <1>2
<1>7. Accounted(<<>>, <<>>)'
  BY <1>2, <1>5, NothingAccounted
<1>8. CASE Runs(job)' = 0
  <2>1. \A v : Aggregate(v, <<>>)' = Aggregate(v, <<>>)
    BY DEF Aggregate
  <2>2. <<>> \in Seq(ResultRecords)' /\ Len(<<>>) = 0
    OBVIOUS
  <2> PICK rps : rps = none
    OBVIOUS
  <2> HIDE DEF none
  <2>3. rps = [v \in 1..vs |-> Aggregate(v, <<>>)]
    BY DEF none
  <2>4. \A v \in 1..vs : TellsCalls(<<>>, v)'
    BY DEF TellsCalls
  <2>5. \A v \in 1..vs : rps[v] = Aggregate(v, <<>>)' /\ v \in Nat
    BY <2>1, <2>3
  <2>6. \A v \in 1..vs : ReportTells(rps[v], v)'
    <3> SUFFICES ASSUME NEW v \in 1..vs
                 PROVE  \E rs \in Seq(ResultRecords)' :
                          /\ rps[v] = Aggregate(v, rs)' /\ Len(rs) = Runs(job)'
                          /\ TellsCalls(rs, v)'
      BY DEF ReportTells
    <3>1. /\ <<>> \in Seq(ResultRecords)' /\ rps[v] = Aggregate(v, <<>>)'
          /\ Len(<<>>) = Runs(job)' /\ TellsCalls(<<>>, v)'
      BY <1>8, <2>2, <2>4, <2>5
    <3> WITNESS <<>> \in Seq(ResultRecords)'
    <3> QED
      BY <3>1
  <2>7. ASSUME NEW v \in 1..vs PROVE rps[v] \in ReportRecords'
    <3>1. v \in Nat /\ rps[v] = Aggregate(v, <<>>)' /\ <<>> \in Seq(ResultRecords)'
      BY <2>2, <2>5
    <3>2. \E w \in Nat, rs \in Seq(ResultRecords)' : rps[v] = Aggregate(w, rs)'
      BY <3>1
    <3> QED
      BY <3>2 DEF ReportRecords
  <2>8. rps \in Seq(ReportRecords)' /\ Len(rps) = vs
    BY <1>3, <2>3, <2>7
  <2>9. TellsCalls(<<>>, vs + 1)'
    BY DEF TellsCalls
  <2>10. vs * Runs(job)' = 0 /\ Len(calls') = 0 /\ calls' \in Seq(CallRecords)'
    BY <1>2, <1>3, <1>8
  <2>11. Accounted(rps, <<>>)'
    BY <2>2, <2>6, <2>8, <2>9, <2>10 DEF Accounted
  <2>12. Compared'
    BY <1>2, <1>4, <1>8, <2>8, <2>11, <2>3 DEF Compared, none
  <2> QED
    BY <1>2, <1>5, <1>6, <1>8, <2>12 DEF CompareInv
<1>9. CASE Runs(job)' # 0 /\ vs = 0
  <2>1. Ranked(<<>>) = <<>>
    <3>1. DOMAIN <<>> = {} /\ Cardinality({}) = 0 /\ 1..0 = {}
      BY FS_EmptySet
    <3> QED
      BY <3>1 DEF Ranked, StableSort, SortedAt
  <2>2. Compared'
    BY <1>2, <1>4, <1>7, <1>9, <2>1 DEF Compared
  <2> QED
    BY <1>2, <1>5, <1>6, <1>9, <2>2 DEF CompareInv
<1>10. CASE Runs(job)' # 0 /\ vs # 0
  <2>1. Comparing'
    BY <1>2, <1>3, <1>4, <1>5, <1>7, <1>10 DEF Comparing
  <2> QED
    BY <1>2, <1>5, <1>6, <1>10, <2>1 DEF CompareInv
<1> QED
  BY <1>8, <1>9, <1>10

LEMMA CompareProceeds ==
  ASSUME CompareInv, AgentAnswers \/ AgentRaises
  PROVE  CompareInv'
<1>1. /\ outcome = "running" /\ job.kind = "compare" /\ job' = job
  BY DEF AgentAnswers, AgentRaises, Awaits
<1>2. \E raised \in BOOLEAN, answer \in 0..Top, score \in 0..Top :
        /\ Called(raised, answer) /\ Collects(EvalResult(score, raised))
        /\ raised => score = 0
        /\ ~raised => score = answer
  <2>1. CASE AgentAnswers
    <3>1. PICK s \in 0..Top : Called(FALSE, s) /\ Collects(EvalResult(s, FALSE))
      BY <2>1 DEF AgentAnswers
    <3> WITNESS FALSE \in BOOLEAN, s \in 0..Top, s \in 0..Top
    <3> QED
      BY <3>1
  <2>2. CASE AgentRaises
    <3>1. Called(TRUE, 0) /\ Collects(EvalResult(0, TRUE))
      BY <2>2 DEF AgentRaises
    <3>2. 0 \in 0..Top
      BY EvaluationAssumption
    <3> WITNESS TRUE \in BOOLEAN, 0 \in 0..Top, 0 \in 0..Top
    <3> QED
      BY <3>1
  <2> QED
    BY <2>1, <2>2
<1> PICK raised \in BOOLEAN, answer \in 0..Top, score \in 0..Top :
        /\ Called(raised, answer) /\ Collects(EvalResult(score, raised))
        /\ raised => score = 0
        /\ ~raised => score = answer
  BY <1>2
<1>3. CompareJob /\ Comparing
  BY <1>1 DEF CompareInv
<1> PICK rps, rs : rps = reports /\ rs = results
  OBVIOUS
<1> PICK x : x = EvalResult(score, raised)
  OBVIOUS
<1> PICK c : c = [variant |-> Variant, item |-> ItemOf(Len(results) + 1),
                  raised |-> raised, answer |-> answer]
  OBVIOUS
<1> PICK a : a = Aggregate(Variant, Append(results, x))
  OBVIOUS
<1> DEFINE n == Runs(job)
           all == Append(rs, x)
           more == Append(rps, a)
<1>4. /\ Accounted(rps, rs) /\ Len(rps) < job.variants /\ Len(rs) < n
      /\ n \in Nat /\ Len(rps) \in Nat /\ Len(rs) \in Nat /\ job.variants \in Nat
  BY <1>3, ItemsOfRuns DEF Comparing, CompareJob, Accounted
<1>5. ItemOf(Len(rs) + 1) \in Items
  <2>1. Len(rs) + 1 \in 1..n
    BY <1>4
  <2> QED
    BY <1>3, <2>1, ItemsOfRuns
<1>6. /\ c \in CallRecords /\ c.variant = Len(rps) + 1 /\ c.item = ItemOf(Len(rs) + 1)
      /\ c.raised = raised /\ c.answer = answer
  BY <1>4, <1>5 DEF CallRecords, Variant
<1>7. /\ x \in ResultRecords /\ x.case = ItemOf(Len(rs) + 1) /\ x.error = raised
      /\ x.score = IF raised THEN 0 ELSE answer
  <2>1. Len(rs) + 1 \in Nat
    BY <1>4
  <2> QED
    BY <1>5, <2>1 DEF ResultRecords, EvalResult
<1>8. a = Aggregate(Len(rps) + 1, Append(rs, x)) /\ calls' = Append(calls, c)
  BY DEF Variant, Called
<1>9. /\ Len(all) = Len(rs) + 1 /\ Accounted(rps, all)'
      /\ Len(all) = n => Accounted(more, <<>>)' /\ Len(more) = Len(rps) + 1
  BY <1>1, <1>3, <1>4, <1>6, <1>7, <1>8, OneMoreCounts
<1>10. IF Len(all) < n
       THEN results' = all /\ reports' = rps /\ outcome' = outcome
       ELSE /\ results' = <<>>
            /\ reports' = IF Len(more) < job.variants THEN more ELSE Ranked(more)
            /\ outcome' = IF Len(more) < job.variants THEN "running" ELSE "done"
  BY DEF Collects
<1>11. CompareJob' /\ Runs(job)' = n /\ job'.variants = job.variants
  BY <1>1, <1>3 DEF CompareJob, Runs, Items
<1> HIDE DEF n, all, more
<1>12. CASE Len(all) < n
  <2>1. Comparing'
    BY <1>4, <1>9, <1>10, <1>11, <1>12 DEF Comparing
  <2> QED
    BY <1>1, <1>10, <1>11, <1>12, <2>1 DEF CompareInv
<1>13. CASE ~(Len(all) < n)
  <2>1. Len(all) = n /\ Accounted(more, <<>>)' /\ Len(more) = Len(rps) + 1
    BY <1>4, <1>9, <1>13
  <2>2. CASE Len(more) < job.variants
    <3>1. reports' = more /\ results' = <<>> /\ outcome' = "running" /\ 0 < n
      BY <1>4, <1>10, <1>13, <2>2
    <3>2. Comparing'
      BY <1>11, <2>1, <2>2, <3>1 DEF Comparing
    <3> QED
      BY <1>11, <3>1, <3>2 DEF CompareInv
  <2>3. CASE ~(Len(more) < job.variants)
    <3>1. reports' = Ranked(more) /\ outcome' = "done" /\ Len(more) = job.variants
      BY <1>4, <1>10, <1>13, <2>1, <2>3
    <3>2. Compared'
      BY <1>11, <2>1, <3>1 DEF Compared
    <3> QED
      BY <1>11, <3>1, <3>2 DEF CompareInv
  <2> QED
    BY <2>2, <2>3
<1> QED
  BY <1>12, <1>13

LEMMA AccountsStay ==
  ASSUME UNCHANGED <<job, calls>>
  PROVE  \A rps, rs : Accounted(rps, rs)' <=> Accounted(rps, rs)
<1>1. /\ ResultRecords' = ResultRecords /\ CallRecords' = CallRecords
      /\ ReportRecords' = ReportRecords /\ Runs(job)' = Runs(job)
      /\ \A k : ItemOf(k)' = ItemOf(k)
      /\ \A v, ss : Aggregate(v, ss)' = Aggregate(v, ss)
  BY DEF ResultRecords, CallRecords, ReportRecords, Items, RunIndex, Runs, ItemOf, Aggregate
<1>2. \A v, k : CallOf(v, k)' = CallOf(v, k) /\ PointsOf(v, k)' = PointsOf(v, k)
  BY <1>1 DEF CallOf, PointsOf
<1>3. \A v, ss : TellsCalls(ss, v)' <=> TellsCalls(ss, v)
  BY <1>1, <1>2 DEF TellsCalls
<1>4. \A r, v : ReportTells(r, v)' <=> ReportTells(r, v)
  BY <1>1, <1>3 DEF ReportTells
<1> QED
  BY <1>1, <1>3, <1>4 DEF Accounted

LEMMA CompareInvNext == CompareInv /\ [EvalNext]_evars => CompareInv'
<1> SUFFICES ASSUME CompareInv, [EvalNext]_evars PROVE CompareInv'
  OBVIOUS
<1>1. ASSUME NEW vs \in 0..MaxVariants, NEW cs \in CaseLists, NEW n \in 0..MaxRepeat,
             NEW t \in 0..Top, StartCompare(vs, cs, n, t)
      PROVE  CompareInv'
  BY <1>1, CompareStarts
<1>2. CASE AgentAnswers \/ AgentRaises
  BY <1>2, CompareProceeds
<1>3. ASSUME NEW n, StartBenchmark(n) PROVE CompareInv'
  <2>1. job'.kind = "benchmark" /\ outcome' # "none"
    BY <1>3 DEF StartBenchmark, NoJob
  <2> QED
    BY <2>1 DEF CompareInv
<1>4. ASSUME NEW text, StartSummary(text) PROVE CompareInv'
  <2>1. job'.kind = "summarize" /\ outcome' # "none"
    BY <1>4 DEF StartSummary, NoJob
  <2> QED
    BY <2>1 DEF CompareInv
<1>5. CASE TaskAnswers \/ TaskRaises \/ RouterSummarizes
  <2>1. job.kind # "compare" /\ job' = job /\ outcome = "running"
    BY <1>5 DEF TaskAnswers, TaskRaises, TaskDone, RouterSummarizes, Awaits
  <2>2. outcome' # "none"
    BY <1>5, <2>1 DEF TaskAnswers, TaskRaises, TaskDone, RouterSummarizes
  <2> QED
    BY <2>1, <2>2 DEF CompareInv
<1>6. CASE Escapes
  BY <1>6 DEF Escapes, CompareInv
<1>7. CASE UNCHANGED evars
  <2>1. UNCHANGED <<job, results, reports, outcome, calls>>
    BY <1>7 DEF evars
  <2>2. Comparing' <=> Comparing
    BY <2>1, AccountsStay DEF Comparing, Runs
  <2>3. Compared' <=> Compared
    BY <2>1, AccountsStay DEF Compared, Runs
  <2>4. CompareJob' <=> CompareJob
    BY <2>1 DEF CompareJob, Items
  <2> QED
    BY <2>1, <2>2, <2>3, <2>4 DEF CompareInv
<1> QED
  BY <1>1, <1>2, <1>3, <1>4, <1>5, <1>6, <1>7 DEF EvalNext

LEMMA LeastAndGreatest ==
  ASSUME NEW t \in Nat, NEW S \in SUBSET (0..t), S # {}
  PROVE  \A x \in S : Min(S) <= x /\ x <= Max(S)
<1>1. S \subseteq Nat
  OBVIOUS
<1>2. PICK m \in S : \A y \in S : m <= y
  BY <1>1, LeastNatural
<1>3. \E g \in S : \A y \in S : g >= y
  <2> DEFINE T == {t - x : x \in S}
  <2>1. T \subseteq Nat /\ T # {}
    OBVIOUS
  <2>2. PICK d \in T : \A y \in T : d <= y
    BY <2>1, LeastNatural
  <2>3. PICK g \in S : d = t - g
    OBVIOUS
  <2>4. ASSUME NEW y \in S PROVE g >= y
    <3>1. d <= t - y
      BY <2>2
    <3> QED
      BY <2>3, <3>1
  <2> QED
    BY <2>4
<1> QED
  BY <1>2, <1>3 DEF Min, Max

(* What a report says of the calls of its variant.                         *)
LEMMA ReportFacts ==
  ASSUME CompareJob, NEW r, NEW v, ReportTells(r, v)
  PROVE  /\ r.variant = v /\ r.total_runs = Runs(job)
         /\ Runs(job) > 0 => r.total_cases = Cardinality(Items)
         /\ r.sum = MeanOf(v) /\ r.sum \in Nat /\ r.passed = PassedOf(v)
         /\ \A k \in 1..Runs(job) :
              /\ CallOf(v, k).variant = v /\ CallOf(v, k).item = ItemOf(k)
              /\ r.results[k].case = ItemOf(k) /\ r.results[k].score = PointsOf(v, k)
              /\ r.results[k].error <=> CallOf(v, k).raised
              /\ r.min <= PointsOf(v, k) /\ PointsOf(v, k) <= r.max
<1> DEFINE n == Runs(job)
<1>1. PICK rs \in Seq(ResultRecords) :
        r = Aggregate(v, rs) /\ Len(rs) = n /\ TellsCalls(rs, v)
  BY DEF ReportTells
<1>2. n \in Nat /\ DOMAIN rs = 1..n /\ (n # 0 => Items = {ItemOf(k) : k \in 1..n})
  BY <1>1, ItemsOfRuns
<1>3. \A k \in 1..n : /\ CallOf(v, k).variant = v /\ CallOf(v, k).item = ItemOf(k)
                      /\ rs[k].case = ItemOf(k) /\ rs[k].score = PointsOf(v, k)
                      /\ rs[k].error <=> CallOf(v, k).raised
  BY <1>1 DEF TellsCalls
<1> HIDE DEF n
<1>4. \A k \in 1..n : rs[k].score \in 0..Top
  <2> SUFFICES ASSUME NEW k \in 1..n PROVE rs[k].score \in 0..Top
    OBVIOUS
  <2>1. rs[k] \in ResultRecords
    BY <1>1, <1>2
  <2> QED
    BY <2>1 DEF ResultRecords
<1>5. /\ r.variant = v /\ r.results = rs /\ r.total_runs = n /\ r.sum = Sum(Scores(rs))
      /\ r.total_cases = Cardinality({rs[k].case : k \in DOMAIN rs})
      /\ r.min = IF rs = <<>> THEN 0 ELSE Min(ToSet(Scores(rs)))
      /\ r.max = IF rs = <<>> THEN 0 ELSE Max(ToSet(Scores(rs)))
      /\ r.passed = Cardinality({k \in DOMAIN rs : rs[k].score >= job.threshold})
  BY <1>1 DEF Aggregate
<1>6. Scores(rs) = [k \in 1..n |-> PointsOf(v, k)] /\ Scores(rs) = [k \in 1..n |-> rs[k].score]
  BY <1>2, <1>3 DEF Scores
<1>7. Scores(rs) \in Seq(Nat)
  <2>1. \A k \in 1..n : rs[k].score \in Nat
    BY <1>4
  <2> QED
    BY <1>2, <1>6, <2>1
<1>8. r.sum \in Nat
  BY <1>5, <1>7, SumIsNatural
<1>9. n > 0 => r.total_cases = Cardinality(Items)
  <2>1. {rs[k].case : k \in DOMAIN rs} = {ItemOf(k) : k \in 1..n}
    BY <1>2, <1>3
  <2>2. n > 0 => {rs[k].case : k \in DOMAIN rs} = Items
    BY <1>2, <2>1
  <2> QED
    BY <1>5, <2>2
<1>10. r.passed = Cardinality({k \in 1..n : PointsOf(v, k) >= job.threshold})
  <2>1. {k \in DOMAIN rs : rs[k].score >= job.threshold}
        = {k \in 1..n : PointsOf(v, k) >= job.threshold}
    BY <1>2, <1>3
  <2> QED
    BY <1>5, <2>1
<1>11. ASSUME NEW k \in 1..n PROVE r.min <= PointsOf(v, k) /\ PointsOf(v, k) <= r.max
  <2> DEFINE S == ToSet(Scores(rs))
  <2>1. S = {rs[i].score : i \in 1..n}
    BY <1>6 DEF ToSet
  <2>2. S \in SUBSET (0..Top) /\ rs[k].score \in S /\ Top \in Nat
    BY <1>4, <2>1, EvaluationAssumption
  <2>3. rs # <<>>
    BY <1>2
  <2> HIDE DEF S
  <2>4. Min(S) <= rs[k].score /\ rs[k].score <= Max(S)
    BY <2>2, LeastAndGreatest
  <2> QED
    BY <1>3, <1>5, <2>3, <2>4 DEF S
<1> QED
  BY <1>3, <1>5, <1>6, <1>8, <1>9, <1>10, <1>11 DEF n, MeanOf, PassedOf

(* The reports of a comparison that is over, by falling mean score.        *)
LEMMA ComparedInOrder ==
  ASSUME CompareJob, Compared
  PROVE  LET m == job.variants IN
         \E rps : /\ Accounted(rps, <<>>) /\ Len(rps) = m
                  /\ \E at \in [1..m -> 1..m] : ByMean(reports, rps, at, m)
<1> DEFINE m == job.variants
<1>1. PICK rps : /\ Accounted(rps, <<>>) /\ Len(rps) = m
                 /\ reports = Ranked(rps) \/ (Runs(job) = 0 /\ reports = rps)
  BY DEF Compared
<1>2. /\ rps \in Seq(ReportRecords) /\ m \in Nat /\ DOMAIN rps = 1..m
      /\ \A v \in 1..m : ReportTells(rps[v], v)
  BY <1>1 DEF Accounted, CompareJob
<1> HIDE DEF m
<1>3. \A v \in 1..m : rps[v].sum \in Nat /\ rps[v].sum = MeanOf(v)
  BY <1>2, ReportFacts
<1>4. ASSUME reports = Ranked(rps)
      PROVE  \E at \in [1..m -> 1..m] : ByMean(reports, rps, at, m)
  <2> DEFINE X == {rps[v] : v \in 1..m}
  <2>1. \A x \in X : x.sum \in Nat
    BY <1>3
  <2>2. rps \in [1..m -> X]
    <3>1. \A v \in 1..m : rps[v] \in X
      OBVIOUS
    <3> HIDE DEF X
    <3>2. rps = [v \in 1..m |-> rps[v]]
      BY <1>2
    <3> QED
      BY <3>1, <3>2
  <2> HIDE DEF X
  <2>3. m \in Nat
    BY <1>2
  <2>4. \E at \in [1..m -> 1..m] : ByMean(Ranked(rps), rps, at, m)
    BY <2>1, <2>2, <2>3, RankedSorts
  <2> QED
    BY <1>4, <2>4
<1>5. ASSUME Runs(job) = 0, reports = rps
      PROVE  \E at \in [1..m -> 1..m] : ByMean(reports, rps, at, m)
  <2> DEFINE at == [k \in 1..m |-> k]
  <2>1. at \in [1..m -> 1..m] /\ \A i \in 1..m : at[i] = i
    OBVIOUS
  <2>2. reports = [k \in 1..m |-> rps[at[k]]]
    BY <1>2, <1>5, <2>1
  <2>3. \A k, l \in 1..m : rps[k].sum = rps[l].sum
    <3> SUFFICES ASSUME NEW k \in 1..m, NEW l \in 1..m PROVE rps[k].sum = rps[l].sum
      OBVIOUS
    <3>1. 1..Runs(job) = {}
      BY <1>5
    <3>2. [i \in 1..Runs(job) |-> PointsOf(k, i)] = [i \in 1..Runs(job) |-> PointsOf(l, i)]
      BY <3>1
    <3>3. MeanOf(k) = MeanOf(l)
      BY <3>2 DEF MeanOf
    <3> QED
      BY <1>3, <3>3
  <2> HIDE DEF at
  <2>4. \A k, l \in 1..m : k < l => rps[at[k]].sum = rps[at[l]].sum /\ at[k] < at[l]
    BY <2>1, <2>3
  <2>5. ByMean(reports, rps, at, m)
    BY <2>1, <2>2, <2>4 DEF ByMean
  <2> QED
    BY <2>1, <2>5
<1>6. \E at \in [1..m -> 1..m] : ByMean(reports, rps, at, m)
  BY <1>1, <1>4, <1>5
<1> QED
  BY <1>1, <1>6 DEF m

LEMMA CompareInvIsEnough == CompareInv => ComparisonTellsEveryCall
<1> SUFFICES ASSUME CompareInv, job.kind = "compare", outcome = "done"
             PROVE  ComparisonTellsEveryCall
  BY DEF ComparisonTellsEveryCall
<1> DEFINE n == Runs(job)
           m == job.variants
<1>1. CompareJob /\ Compared
  BY DEF CompareInv
<1>2. PICK rps : /\ Accounted(rps, <<>>) /\ Len(rps) = m
                 /\ \E at \in [1..m -> 1..m] : ByMean(reports, rps, at, m)
  BY <1>1, ComparedInOrder
<1>3. PICK at \in [1..m -> 1..m] : ByMean(reports, rps, at, m)
  BY <1>2
<1>4. m \in Nat /\ n \in Nat /\ Len(calls) = n * m /\ \A v \in 1..m : ReportTells(rps[v], v)
  <2>1. Len(calls) = m * n + 0 /\ m \in Nat /\ n \in Nat
    BY <1>1, <1>2, ItemsOfRuns DEF Accounted, CompareJob
  <2>2. m * n = n * m /\ m * n \in Nat
    BY <2>1
  <2> QED
    BY <1>2, <2>1, <2>2 DEF Accounted
<1>5. \A v \in 1..m : rps[v].variant = v /\ rps[v].sum = MeanOf(v) /\ MeanOf(v) \in Nat
  BY <1>1, <1>4, ReportFacts
<1> HIDE DEF n, m
<1>6. DOMAIN reports = 1..m /\ \A i \in 1..m : reports[i] = rps[at[i]] /\ at[i] \in 1..m
  BY <1>3 DEF ByMean
<1>7. Len(reports) = m
  BY <1>3, <1>4 DEF ByMean
<1>8. \A i \in 1..m : reports[i].variant = at[i]
  BY <1>5, <1>6
<1>9. {reports[i].variant : i \in DOMAIN reports} = 1..m
  <2>1. \A v \in 1..m : \E i \in 1..m : at[i] = v
    BY <1>3 DEF ByMean
  <2>2. {reports[i].variant : i \in DOMAIN reports} = {at[i] : i \in 1..m}
    BY <1>6, <1>8
  <2>3. \A i \in 1..m : at[i] \in 1..m
    BY <1>6
  <2> QED
    BY <2>1, <2>2, <2>3
<1>10. \A k, l \in 1..m : k < l =>
          MeanOf(at[k]) > MeanOf(at[l]) \/ (MeanOf(at[k]) = MeanOf(at[l]) /\ at[k] < at[l])
  <2>1. \A k, l \in 1..m : k < l => \/ rps[at[k]].sum > rps[at[l]].sum
                                    \/ rps[at[k]].sum = rps[at[l]].sum /\ at[k] < at[l]
    BY <1>3 DEF ByMean
  <2>2. \A k \in 1..m : rps[at[k]].sum = MeanOf(at[k])
    BY <1>5, <1>6
  <2> QED
    BY <2>1, <2>2
<1>11. ASSUME m > 0, NEW v \in 1..m
       PROVE  MeanOf(Winner) >= MeanOf(v) /\ (MeanOf(Winner) = MeanOf(v) => Winner <= v)
  <2>1. 1 \in 1..m /\ reports # <<>>
    BY <1>4, <1>7, <1>11
  <2>2. Winner = at[1]
    BY <1>8, <2>1 DEF Winner
  <2>3. PICK l \in 1..m : at[l] = v
    BY <1>3 DEF ByMean
  <2>4. l = 1 \/ 1 < l
    BY <1>4
  <2>5. MeanOf(at[1]) \in Nat /\ MeanOf(v) \in Nat /\ at[1] \in Nat
    BY <1>5, <1>6, <2>1
  <2>6. CASE l = 1
    BY <2>2, <2>3, <2>5, <2>6
  <2>7. CASE 1 < l
    <3>1. MeanOf(at[1]) > MeanOf(v) \/ (MeanOf(at[1]) = MeanOf(v) /\ at[1] < v)
      BY <1>10, <2>1, <2>3, <2>7
    <3> QED
      BY <2>2, <2>5, <3>1
  <2> QED
    BY <2>4, <2>6, <2>7
<1>12. ASSUME NEW i \in DOMAIN reports, i > 1
       PROVE  \/ MeanOf(reports[i - 1].variant) > MeanOf(reports[i].variant)
              \/ /\ MeanOf(reports[i - 1].variant) = MeanOf(reports[i].variant)
                 /\ reports[i - 1].variant < reports[i].variant
  <2>1. i \in 1..m /\ i - 1 \in 1..m /\ i - 1 < i
    BY <1>4, <1>6, <1>12
  <2> QED
    BY <1>8, <1>10, <2>1
<1>13. ASSUME NEW i \in DOMAIN reports
       PROVE  /\ reports[i].total_runs = n
              /\ n > 0 => reports[i].total_cases = Cardinality(Items)
              /\ reports[i].passed = PassedOf(reports[i].variant)
              /\ \A k \in 1..n :
                   /\ CallOf(reports[i].variant, k).variant = reports[i].variant
                   /\ CallOf(reports[i].variant, k).item = reports[i].results[k].case
                   /\ reports[i].results[k].case = ItemOf(k)
                   /\ reports[i].results[k].score = PointsOf(reports[i].variant, k)
                   /\ reports[i].results[k].error <=> CallOf(reports[i].variant, k).raised
                   /\ reports[i].min <= PointsOf(reports[i].variant, k)
                   /\ PointsOf(reports[i].variant, k) <= reports[i].max
  <2>1. reports[i] = rps[at[i]] /\ at[i] \in 1..m /\ reports[i].variant = at[i]
    BY <1>6, <1>8
  <2>2. ReportTells(reports[i], reports[i].variant)
    BY <1>4, <2>1
  <2> QED
    BY <1>1, <2>2, ReportFacts DEF n
<1> QED
  BY <1>4, <1>7, <1>9, <1>11, <1>12, <1>13
     DEF ComparisonTellsEveryCall, CallOf, PointsOf, ItemOf, Items, n, m, MeanOf, PassedOf

(* A comparison that is over has one report per variant, of every one of   *)
(* its calls in order and by falling mean score, for any numbers of        *)
(* variants, cases and repetitions (EvalHarness.run, aggregate, compare).  *)
THEOREM ComparisonIsOfTheCalls == EvalSpec => []ComparisonTellsEveryCall
<1>1. EvalSpec => []CompareInv
  BY CompareInvInit, CompareInvNext, PTL DEF EvalSpec
<1> QED
  BY <1>1, CompareInvIsEnough, PTL

-----------------------------------------------------------------------------
(***************************************************************************)
(* A benchmark.  The 95th percentile of n latencies is the one that the    *)
(* rank names, once they are sorted.                                       *)
(***************************************************************************)
LEMMA RankIsEnough ==
  ASSUME NEW n \in Nat \ {0}
  PROVE  LET r == PercentileRank(n, 95)
         IN  r \in 1..n /\ 100 * r >= 95 * n /\ 100 * (r - 1) < 95 * n
<1> DEFINE a == 10 * 95 * n + 999
           q == a \div 1000
<1>1. a = 950 * n + 999 /\ a \in Nat
  OBVIOUS
<1>2. q \in Nat /\ 1000 * q <= a /\ a < 1000 * q + 1000
  BY <1>1, Quotient
<1>3. PercentileRank(n, 95) = IF q = 0 THEN 1 ELSE IF q > n THEN n ELSE q
  BY DEF PercentileRank
<1> HIDE DEF a, q
<1>4. q >= 1 /\ q <= n
  BY <1>1, <1>2
<1>5. PercentileRank(n, 95) = q
  BY <1>2, <1>3, <1>4
<1> QED
  BY <1>1, <1>2, <1>4, <1>5

LEMMA RisingOrder ==
  ASSUME NEW n \in Nat, NEW s \in [1..n -> Nat]
  PROVE  \E at \in [1..n -> 1..n] :
           /\ StableSort(s, LAMBDA a, b : a < b) = [k \in 1..n |-> s[at[k]]]
           /\ \A k, l \in 1..n : k < l => s[at[k]] <= s[at[l]] /\ at[k] # at[l]
           /\ \A i \in 1..n : \E k \in 1..n : at[k] = i
<1> DEFINE Before(i, j) == s[i] < s[j] \/ (s[i] = s[j] /\ i < j)
           R == {ij \in (1..n) \X (1..n) : Before(ij[1], ij[2])}
           at == Placing(R, 1..n)
<1>1. DOMAIN s = 1..n /\ \A i \in 1..n : s[i] \in Nat
  OBVIOUS
<1>2. \A i, j \in 1..n : <<i, j>> \in R <=> Before(i, j)
  OBVIOUS
<1>3. IsOrder(R, 1..n)
  <2> HIDE DEF R
  <2> QED
    BY <1>1, <1>2 DEF IsOrder
<1>4. StableSort(s, LAMBDA a, b : a < b) = [k \in 1..n |-> s[at[k]]]
  <2> DEFINE Place(i) == Cardinality({j \in DOMAIN s : \/ s[j] < s[i]
                                                       \/ j <= i /\ ~(s[i] < s[j])})
             first(k) == CHOOSE i \in DOMAIN s : Place(i) = k
  <2>1. StableSort(s, LAMBDA a, b : a < b) = [k \in 1..Cardinality(DOMAIN s) |-> s[first(k)]]
    BY DEF StableSort, SortedAt
  <2>2. ASSUME NEW i \in 1..n PROVE Place(i) = PlacesIn(R, 1..n)[i]
    <3> HIDE DEF R
    <3>1. \A j \in 1..n : (s[j] < s[i] \/ (j <= i /\ ~(s[i] < s[j]))) <=> (j = i \/ <<j, i>> \in R)
      BY <1>1, <1>2
    <3>2. {j \in DOMAIN s : \/ s[j] < s[i]
                            \/ j <= i /\ ~(s[i] < s[j])} = {j \in 1..n : j = i \/ <<j, i>> \in R}
      BY <1>1, <3>1
    <3> QED
      BY <3>2 DEF PlacesIn
  <2> HIDE DEF Place, R
  <2>3. Cardinality(1..n) = n
    BY FS_Interval
  <2>4. ASSUME NEW k \in 1..n PROVE first(k) = at[k]
    BY <1>1, <2>2, <2>3 DEF Placing
  <2> HIDE DEF at, first
  <2> QED
    BY <1>1, <2>1, <2>3, <2>4
<1>5. /\ at \in [1..n -> 1..n]
      /\ \A k, l \in 1..n : k < l => <<at[k], at[l]>> \in R /\ at[k] # at[l]
      /\ \A i \in 1..n : \E k \in 1..n : at[k] = i
  <2> HIDE DEF R
  <2> QED
    BY <1>3, PlacingSortsAll
<1>6. ASSUME NEW k \in 1..n, NEW l \in 1..n, k < l
      PROVE  s[at[k]] <= s[at[l]] /\ at[k] # at[l]
  <2> HIDE DEF at, R
  <2>1. <<at[k], at[l]>> \in R /\ at[k] # at[l] /\ at[k] \in 1..n /\ at[l] \in 1..n
    BY <1>5, <1>6
  <2>2. Before(at[k], at[l]) /\ s[at[k]] \in Nat /\ s[at[l]] \in Nat
    BY <1>1, <1>2, <2>1
  <2> QED
    BY <2>1, <2>2
<1> HIDE DEF at
<1> QED
  BY <1>4, <1>5, <1>6

LEMMA LessIsOther ==
  ASSUME NEW a \in Nat, NEW b \in Nat, a < b
  PROVE  a # b /\ ~(b <= a)
  OBVIOUS

(* At least r of the n values are at most the r-th, and fewer are smaller. *)
LEMMA RankCounts ==
  ASSUME NEW n \in Nat, NEW s \in [1..n -> Nat], NEW r \in 1..n
  PROVE  LET p == StableSort(s, LAMBDA a, b : a < b)[r]
             most == Cardinality({k \in 1..n : s[k] <= p})
             fewer == Cardinality({k \in 1..n : s[k] < p})
         IN  most \in Nat /\ fewer \in Nat /\ r <= most /\ fewer <= r - 1
<1> DEFINE p == StableSort(s, LAMBDA a, b : a < b)[r]
           Most == {k \in 1..n : s[k] <= p}
           Fewer == {k \in 1..n : s[k] < p}
<1>1. PICK at \in [1..n -> 1..n] :
        /\ StableSort(s, LAMBDA a, b : a < b) = [k \in 1..n |-> s[at[k]]]
        /\ \A k, l \in 1..n : k < l => s[at[k]] <= s[at[l]] /\ at[k] # at[l]
        /\ \A i \in 1..n : \E k \in 1..n : at[k] = i
  BY RisingOrder
<1>2. p = s[at[r]] /\ \A k \in 1..n : at[k] \in 1..n /\ s[k] \in Nat
  BY <1>1
<1> HIDE DEF p
<1>3. IsFiniteSet(1..n) /\ Most \in SUBSET (1..n) /\ Fewer \in SUBSET (1..n)
  BY FS_Interval
<1>4. IsFiniteSet(Most) /\ IsFiniteSet(Fewer)
  <2> HIDE DEF Most, Fewer
  <2> QED
    BY <1>3, FS_Subset
<1>5. Cardinality(Most) \in Nat /\ Cardinality(Fewer) \in Nat
  <2> HIDE DEF Most, Fewer
  <2> QED
    BY <1>4, FS_CardinalityType
<1>6. r <= Cardinality(Most)
  <2> DEFINE f == [k \in 1..r |-> at[k]]
  <2>1. \A k \in 1..r : k \in 1..n /\ at[k] \in Most
    <3> SUFFICES ASSUME NEW k \in 1..r PROVE k \in 1..n /\ at[k] \in Most
      OBVIOUS
    <3>1. k \in 1..n /\ (k = r \/ k < r)
      OBVIOUS
    <3>2. at[k] \in 1..n /\ s[at[k]] \in Nat
      BY <1>2, <3>1
    <3>3. CASE k = r
      BY <1>2, <3>1, <3>2, <3>3
    <3>4. CASE k < r
      BY <1>1, <1>2, <3>1, <3>2, <3>4
    <3> QED
      BY <3>1, <3>3, <3>4
  <2>2. \A k, l \in 1..r : at[k] = at[l] => k = l
    <3> SUFFICES ASSUME NEW k \in 1..r, NEW l \in 1..r, at[k] = at[l] PROVE k = l
      OBVIOUS
    <3>1. k \in 1..n /\ l \in 1..n /\ (k < l \/ l < k \/ k = l)
      OBVIOUS
    <3> QED
      BY <1>1, <3>1
  <2> HIDE DEF Most
  <2>3. f \in Injection(1..r, Most)
    BY <2>1, <2>2 DEF Injection, IsInjective
  <2>4. Cardinality(1..r) = r
    BY FS_Interval
  <2> HIDE DEF f
  <2>5. Cardinality(1..r) <= Cardinality(Most)
    BY <1>4, <2>3, FS_Injection
  <2> QED
    BY <2>4, <2>5
<1>7. Cardinality(Fewer) <= r - 1
  <2> DEFINE first == [k \in Fewer |-> CHOOSE j \in 1..n : at[j] = k]
  <2>1. \A k \in Fewer : first[k] \in 1..n /\ at[first[k]] = k
    BY <1>1
  <2>2. \A k \in Fewer : first[k] \in 1..(r - 1)
    <3> SUFFICES ASSUME NEW k \in Fewer PROVE first[k] \in 1..(r - 1)
      OBVIOUS
    <3> DEFINE j == first[k]
    <3>1. j \in 1..n /\ at[j] = k /\ s[k] < s[at[r]] /\ k \in 1..n
      BY <1>2, <2>1
    <3> HIDE DEF j, first, Fewer
    <3>2. ~(s[at[r]] <= s[at[j]]) /\ j # r
      <4>1. at[r] \in 1..n /\ s[at[r]] \in Nat /\ s[k] \in Nat
        BY <1>2, <3>1
      <4>2. s[k] # s[at[r]] /\ ~(s[at[r]] <= s[k])
        BY <3>1, <4>1, LessIsOther
      <4>3. s[at[j]] = s[k] /\ j # r
        BY <3>1, <4>2
      <4> QED
        BY <4>2, <4>3
    <3>3. ~(r < j)
      BY <1>1, <3>1, <3>2
    <3>4. j \in 1..(r - 1)
      BY <3>1, <3>2, <3>3
    <3> QED
      BY <3>4 DEF j
  <2>3. first = [k \in Fewer |-> first[k]]
    OBVIOUS
  <2> HIDE DEF Fewer, first
  <2>4. first \in Injection(Fewer, 1..(r - 1))
    BY <2>1, <2>2, <2>3 DEF Injection, IsInjective
  <2>5. IsFiniteSet(1..(r - 1)) /\ Cardinality(1..(r - 1)) = r - 1
    BY FS_Interval
  <2>6. Cardinality(Fewer) <= Cardinality(1..(r - 1))
    BY <2>4, <2>5, FS_Injection
  <2> QED
    BY <2>5, <2>6
<1> QED
  BY <1>5, <1>6, <1>7 DEF p

(* The results of a benchmark tell of the calls, in their order, and the   *)
(* report is made of them all.                                             *)
TaskRecords == [task : Nat, error : BOOLEAN, success : BOOLEAN, tokens : TokenCounts,
                latency : Latencies]
TaskCalls == [variant : {1}, item : Nat, raised : BOOLEAN, answer : BOOLEAN \cup {0}]

BenchmarkJob == /\ job.repeat = 1
                /\ \E n \in Nat : job.items = [i \in 1..n |-> i]

TellsTasks ==
    /\ results \in Seq(TaskRecords) /\ calls \in Seq(TaskCalls) /\ Len(calls) = Len(results)
    /\ \A k \in 1..Len(results) :
         /\ results[k].task = k
         /\ calls[k].raised => results[k].success = FALSE
         /\ ~calls[k].raised => results[k].success = calls[k].answer

BenchInv ==
    /\ outcome = "none" => job = NoJob /\ results = <<>> /\ reports = <<>> /\ calls = <<>>
    /\ job.kind = "benchmark" /\ outcome \in {"running", "done"} => BenchmarkJob /\ TellsTasks
    /\ job.kind = "benchmark" /\ outcome = "running" =>
         reports = <<>> /\ Len(results) < Len(job.items)
    /\ job.kind = "benchmark" /\ outcome = "done" =>
         /\ Len(results) = Len(job.items)
         /\ job.items # <<>> => reports = <<BenchmarkReport(results)>>

LEMMA BenchInvInit == EvalInit => BenchInv
  BY DEF EvalInit, BenchInv, NoJob

LEMMA BenchmarkStarts ==
  ASSUME BenchInv, NEW n \in Nat, StartBenchmark(n)
  PROVE  BenchInv'
<1>1. outcome = "none" /\ job = NoJob /\ results = <<>> /\ reports = <<>> /\ calls = <<>>
  BY DEF StartBenchmark, BenchInv
<1>2. /\ job' = [NoJob EXCEPT !.kind = "benchmark", !.items = [i \in 1..n |-> i]]
      /\ outcome' = IF n = 0 THEN "done" ELSE "running"
      /\ results' = <<>> /\ reports' = <<>> /\ calls' = <<>>
  BY <1>1 DEF StartBenchmark
<1>3. job'.kind = "benchmark" /\ job'.items = [i \in 1..n |-> i] /\ job'.repeat = 1
  BY <1>2 DEF NoJob
<1>4. BenchmarkJob'
  BY <1>3 DEF BenchmarkJob
<1>5. TellsTasks'
  <2>1. Len(results') = 0 /\ Len(calls') = 0 /\ results' \in Seq(TaskRecords)
        /\ calls' \in Seq(TaskCalls)
    BY <1>2
  <2>2. \A k \in 1..Len(results') : FALSE
    BY <2>1
  <2> QED
    BY <2>1, <2>2 DEF TellsTasks, TaskRecords, TaskCalls
<1>6. Len(job'.items) = n /\ Len(results') = 0 /\ (job'.items = <<>> <=> n = 0)
  BY <1>2, <1>3
<1> QED
  BY <1>2, <1>3, <1>4, <1>5, <1>6 DEF BenchInv

LEMMA BenchmarkProceeds ==
  ASSUME BenchInv, TaskAnswers \/ TaskRaises
  PROVE  BenchInv'
<1>1. outcome = "running" /\ job.kind = "benchmark" /\ job' = job
  BY DEF TaskAnswers, TaskRaises, TaskDone, Awaits
<1>2. \E raised \in BOOLEAN, answer \in BOOLEAN \cup {0}, right \in BOOLEAN,
         tokens \in TokenCounts :
        /\ Called(raised, answer) /\ TaskDone(raised, right, tokens)
        /\ raised => right = FALSE
        /\ ~raised => right = answer
  <2>1. CASE TaskAnswers
    <3>1. PICK right \in BOOLEAN, tokens \in TokenCounts :
            Called(FALSE, right) /\ TaskDone(FALSE, right, tokens)
      BY <2>1 DEF TaskAnswers
    <3> WITNESS FALSE \in BOOLEAN, right \in BOOLEAN \cup {0}, right \in BOOLEAN,
                tokens \in TokenCounts
    <3> QED
      BY <3>1
  <2>2. CASE TaskRaises
    <3>1. PICK tokens \in TokenCounts : Called(TRUE, 0) /\ TaskDone(TRUE, FALSE, tokens)
      BY <2>2 DEF TaskRaises
    <3> WITNESS TRUE \in BOOLEAN, 0 \in BOOLEAN \cup {0}, FALSE \in BOOLEAN,
                tokens \in TokenCounts
    <3> QED
      BY <3>1
  <2> QED
    BY <2>1, <2>2
<1>3. PICK raised \in BOOLEAN, answer \in BOOLEAN \cup {0}, right \in BOOLEAN,
           tokens \in TokenCounts :
        /\ Called(raised, answer) /\ TaskDone(raised, right, tokens)
        /\ raised => right = FALSE
        /\ ~raised => right = answer
  BY <1>2
<1> DEFINE n == Len(results) + 1
<1>4. PICK x : /\ x.task = ItemOf(n) /\ x.success = right
               /\ x \in [task : {ItemOf(n)}, error : BOOLEAN, success : BOOLEAN,
                         tokens : TokenCounts, latency : Latencies]
               /\ results' = Append(results, x)
               /\ IF Len(Append(results, x)) < Len(job.items) THEN UNCHANGED <<reports, outcome>>
                  ELSE reports' = <<BenchmarkReport(Append(results, x))>> /\ outcome' = "done"
  <2>1. PICK l \in Latencies :
          LET rs == Append(results, [task |-> ItemOf(n), error |-> raised, success |-> right,
                                     tokens |-> tokens, latency |-> l])
          IN  /\ results' = rs
              /\ IF Len(rs) < Len(job.items) THEN UNCHANGED <<reports, outcome>>
                 ELSE reports' = <<BenchmarkReport(rs)>> /\ outcome' = "done"
    BY <1>3 DEF TaskDone
  <2> HIDE DEF n
  <2> QED
    BY <2>1
<1>5. PICK c : /\ calls' = Append(calls, c) /\ c.raised = raised /\ c.answer = answer
               /\ c \in [variant : {Len(reports) + 1}, item : {ItemOf(n)},
                         raised : BOOLEAN, answer : BOOLEAN \cup {0}]
  <2> HIDE DEF n
  <2>1. calls' = Append(calls, [variant |-> Len(reports) + 1, item |-> ItemOf(n),
                                raised |-> raised, answer |-> answer])
    BY <1>3 DEF Called, Variant, n
  <2> QED
    BY <2>1
<1>6. BenchmarkJob /\ TellsTasks /\ reports = <<>> /\ Len(results) < Len(job.items)
  BY <1>1 DEF BenchInv
<1>7. n \in Nat /\ n <= Len(job.items) /\ ItemOf(n) = n /\ job.items # <<>> /\ n \in 1..n
      /\ Len(results) \in Nat
  <2>1. PICK m \in Nat : job.items = [i \in 1..m |-> i]
    BY <1>6 DEF BenchmarkJob
  <2>2. Len(job.items) = m /\ Len(results) \in Nat
    BY <1>6, <2>1 DEF TellsTasks
  <2>3. n \in 1..m
    BY <1>6, <2>2
  <2>4. job.items[n] = n
    BY <2>1, <2>3
  <2>5. ItemOf(n) = job.items[n]
    <3>1. job.repeat = 1
      BY <1>6 DEF BenchmarkJob
    <3>2. (n - 1) \div 1 + 1 = n
      BY <2>2
    <3> QED
      BY <3>1, <3>2 DEF ItemOf
  <2> QED
    BY <2>2, <2>3, <2>4, <2>5
<1> HIDE DEF n
<1>8. x \in TaskRecords /\ c \in TaskCalls
  BY <1>4, <1>5, <1>6, <1>7 DEF TaskRecords, TaskCalls
<1>9. /\ results' \in Seq(TaskRecords) /\ calls' \in Seq(TaskCalls)
      /\ Len(calls') = n /\ Len(results') = n
      /\ results'[n] = x /\ calls'[n] = c
      /\ \A k \in 1..Len(results) : results'[k] = results[k] /\ calls'[k] = calls[k]
  BY <1>4, <1>5, <1>6, <1>8, AppendProperties DEF TellsTasks, n
<1>10. TellsTasks'
  <2>1. ASSUME NEW k \in 1..n
        PROVE  /\ results'[k].task = k
               /\ calls'[k].raised => results'[k].success = FALSE
               /\ ~calls'[k].raised => results'[k].success = calls'[k].answer
    <3>1. CASE k = n
      BY <1>3, <1>4, <1>5, <1>7, <1>9, <3>1
    <3>2. CASE k # n
      <4>1. k \in 1..Len(results)
        BY <1>7, <3>2 DEF n
      <4> QED
        BY <1>6, <1>9, <4>1 DEF TellsTasks
    <3> QED
      BY <3>1, <3>2
  <2> QED
    BY <1>9, <2>1 DEF TellsTasks, TaskRecords, TaskCalls
<1>11. BenchmarkJob'
  BY <1>1, <1>6 DEF BenchmarkJob
<1>12. CASE Len(results') < Len(job.items)
  <2>1. reports' = <<>> /\ outcome' = "running"
    BY <1>1, <1>4, <1>6, <1>12
  <2> QED
    BY <1>1, <1>10, <1>11, <1>12, <2>1 DEF BenchInv
<1>13. CASE ~(Len(results') < Len(job.items))
  <2>1. reports' = <<BenchmarkReport(results')>> /\ outcome' = "done"
    BY <1>4, <1>13
  <2>2. BenchmarkReport(results)' = BenchmarkReport(results')
    BY DEF BenchmarkReport, P95, StableSort, SortedAt
  <2>3. Len(results') = Len(job.items)
    BY <1>6, <1>7, <1>9, <1>13 DEF n
  <2> QED
    BY <1>1, <1>10, <1>11, <2>1, <2>2, <2>3 DEF BenchInv
<1> QED
  BY <1>12, <1>13

LEMMA BenchInvNext == BenchInv /\ [EvalNext]_evars => BenchInv'
<1> SUFFICES ASSUME BenchInv, [EvalNext]_evars PROVE BenchInv'
  OBVIOUS
<1>1. ASSUME NEW vs, NEW cs, NEW n, NEW t, StartCompare(vs, cs, n, t) PROVE BenchInv'
  <2>1. job'.kind = "compare" /\ outcome' # "none"
    BY <1>1 DEF StartCompare, NoJob
  <2> QED
    BY <2>1 DEF BenchInv
<1>2. CASE AgentAnswers \/ AgentRaises
  <2>1. job.kind # "benchmark" /\ job' = job /\ outcome = "running"
    BY <1>2 DEF AgentAnswers, AgentRaises, Awaits
  <2>2. outcome' # "none"
    BY <1>2, <2>1 DEF AgentAnswers, AgentRaises, Collects
  <2> QED
    BY <2>1, <2>2 DEF BenchInv
<1>3. ASSUME NEW n \in 0..MaxTasks, StartBenchmark(n) PROVE BenchInv'
  <2>1. n \in Nat
    BY EvaluationAssumption
  <2> QED
    BY <1>3, <2>1, BenchmarkStarts
<1>4. CASE TaskAnswers \/ TaskRaises
  BY <1>4, BenchmarkProceeds
<1>5. ASSUME NEW text, StartSummary(text) PROVE BenchInv'
  <2>1. job'.kind = "summarize" /\ outcome' # "none"
    BY <1>5 DEF StartSummary, NoJob
  <2> QED
    BY <2>1 DEF BenchInv
<1>6. CASE RouterSummarizes
  <2>1. job.kind # "benchmark" /\ job' = job /\ outcome' # "none"
    BY <1>6 DEF RouterSummarizes, Awaits
  <2> QED
    BY <2>1 DEF BenchInv
<1>7. CASE Escapes
  BY <1>7 DEF Escapes, BenchInv
<1>8. CASE UNCHANGED evars
  <2>1. UNCHANGED <<job, results, reports, outcome, calls>>
    BY <1>8 DEF evars
  <2>2. BenchmarkReport(results)' = BenchmarkReport(results)
    BY <2>1 DEF BenchmarkReport, P95, StableSort, SortedAt
  <2>3. (TellsTasks' <=> TellsTasks) /\ (BenchmarkJob' <=> BenchmarkJob)
    BY <2>1 DEF TellsTasks, BenchmarkJob, TaskRecords, TaskCalls
  <2> QED
    BY <2>1, <2>2, <2>3 DEF BenchInv
<1> QED
  BY <1>1, <1>2, <1>3, <1>4, <1>5, <1>6, <1>7, <1>8 DEF EvalNext

LEMMA BenchInvIsEnough == BenchInv => BenchmarkTellsEveryCall
<1> SUFFICES ASSUME BenchInv, job.kind = "benchmark", outcome = "done", job.items # <<>>
             PROVE  BenchmarkTellsEveryCall
  BY DEF BenchmarkTellsEveryCall
<1> DEFINE n == Len(results)
           rank == PercentileRank(n, 95)
           p == P95(results)
           s == [k \in 1..n |-> results[k].latency]
<1>1. /\ BenchmarkJob /\ TellsTasks /\ n = Len(job.items)
      /\ reports = <<BenchmarkReport(results)>>
  BY DEF BenchInv
<1>2. PICK m \in Nat : job.items = [i \in 1..m |-> i]
  BY <1>1 DEF BenchmarkJob
<1>3. n = m /\ n \in Nat \ {0} /\ DOMAIN results = 1..n
  BY <1>1, <1>2 DEF TellsTasks
<1>4. [k \in DOMAIN results |-> results[k].task] = job.items
  <2>1. \A k \in 1..n : results[k].task = k
    BY <1>1 DEF TellsTasks
  <2> HIDE DEF n
  <2> QED
    BY <1>2, <1>3, <2>1
<1>5. /\ reports[1].p95 = p
      /\ reports[1].succeeded = Cardinality({k \in DOMAIN results : results[k].success})
  BY <1>1 DEF BenchmarkReport
<1>6. {k \in DOMAIN results : results[k].success}
      = {k \in DOMAIN results : ~calls[k].raised /\ calls[k].answer}
  <2> SUFFICES ASSUME NEW k \in 1..n
               PROVE  results[k].success <=> ~calls[k].raised /\ calls[k].answer
    BY <1>3
  <2>1. /\ calls[k].raised => results[k].success = FALSE
        /\ ~calls[k].raised => results[k].success = calls[k].answer
    BY <1>1 DEF TellsTasks
  <2> QED
    BY <2>1
<1>7. s \in [1..n -> Nat]
  <2> SUFFICES ASSUME NEW k \in 1..n PROVE results[k].latency \in Nat
    OBVIOUS
  <2>1. results[k] \in TaskRecords
    BY <1>1, <1>3 DEF TellsTasks
  <2> QED
    BY <2>1, EvaluationAssumption DEF TaskRecords
<1>8. p = StableSort(s, LAMBDA a, b : a < b)[rank]
  BY <1>3 DEF P95
<1>9. rank \in 1..n /\ 100 * rank >= 95 * n /\ 100 * (rank - 1) < 95 * n
  <2> HIDE DEF n
  <2> QED
    BY <1>3, RankIsEnough
<1> DEFINE most == Cardinality({k \in 1..n : s[k] <= p})
           fewer == Cardinality({k \in 1..n : s[k] < p})
<1>10. most \in Nat /\ fewer \in Nat /\ rank <= most /\ fewer <= rank - 1
  <2> HIDE DEF n, s, rank, p
  <2> QED
    BY <1>3, <1>7, <1>8, <1>9, RankCounts
<1>11. 100 * most >= 95 * n /\ 100 * fewer < 95 * n
  <2> HIDE DEF n, s, rank, p, most, fewer
  <2> QED
    BY <1>3, <1>9, <1>10
<1>12. /\ {k \in DOMAIN results : results[k].latency <= p} = {k \in 1..n : s[k] <= p}
       /\ {k \in DOMAIN results : results[k].latency < p} = {k \in 1..n : s[k] < p}
  <2> HIDE DEF p
  <2> QED
    BY <1>3
<1> QED
  BY <1>4, <1>5, <1>6, <1>11, <1>12 DEF BenchmarkTellsEveryCall

(* A comparison and a benchmark that are over tell how every call ended,   *)
(* for any numbers of variants, cases, repetitions and tasks and any       *)
(* latencies: none is missing, doubled or of another task, the winner is   *)
(* the first of the best, an error is no success, and the p95 latency is   *)
(* one (EvalHarness.run, compare, BenchmarkRunner.run, _percentile).       *)
THEOREM ReportsAreOfTheCalls == EvalSpec => []EvaluationTellsEveryCall
<1>1. EvalSpec => []BenchInv
  BY BenchInvInit, BenchInvNext, PTL DEF EvalSpec
<1>2. ComparisonTellsEveryCall /\ BenchInv => EvaluationTellsEveryCall
  BY BenchInvIsEnough DEF EvaluationTellsEveryCall
<1> QED
  BY <1>1, <1>2, ComparisonIsOfTheCalls, PTL

-----------------------------------------------------------------------------
(***************************************************************************)
(* Searching a long-term memory.  First the scores: as their numerators    *)
(* and denominators are natural numbers, so are their products.            *)
(***************************************************************************)
LEMMA TimesAtLeast ==
  ASSUME NEW a \in Nat, NEW x \in Nat, NEW y \in Nat, x < y
  PROVE  a * x + a <= a * y /\ a * x \in Nat /\ a * y \in Nat
<1>1. x + 1 <= y
  OBVIOUS
<1>2. a * (x + 1) <= a * y
  BY <1>1
<1>3. a * (x + 1) = a * x + a
  OBVIOUS
<1> QED
  BY <1>2, <1>3

LEMMA TimesOrders ==
  ASSUME NEW a \in Nat \ {0}, NEW x \in Nat, NEW y \in Nat
  PROVE  a * x > a * y <=> x > y
<1>1. CASE x > y
  BY <1>1, TimesAtLeast
<1>2. CASE x = y
  BY <1>2
<1>3. CASE x < y
  BY <1>3, TimesAtLeast
<1> QED
  BY <1>1, <1>2, <1>3

LEMMA ScoresAsProducts ==
  ASSUME NEW c \in Nat, NEW r \in Nat, NEW l \in Nat, NEW m \in Nat
  PROVE  (10 * r * m + c) * (10 * l * c) = (10 * c) * (10 * ((r * l) * m) + c * l)
  OBVIOUS

(* The r-th newest, with m of c words in common, is scored no lower than   *)
(* the l-th, with k: it has more words, or it is newer and lacks less than *)
(* a tenth of them.                                                        *)
LEMMA RecencyIsWorthATenth ==
  ASSUME NEW c \in Nat \ {0}, NEW r \in Nat \ {0}, NEW l \in Nat \ {0},
         NEW m \in Nat, NEW k \in Nat, r # l,
         10 * ((r * l) * m) + c * l >= 10 * ((r * l) * k) + c * r
  PROVE  k < m \/ (r < l /\ 10 * (k - m) < c)
<1> DEFINE a == r * l
<1>1. a \in Nat \ {0} /\ a * m \in Nat /\ a * k \in Nat
  OBVIOUS
<1>2. c * l \in Nat /\ c * r \in Nat /\ c * r > 0 /\ c * l <= c * a
  <2>1. 1 * l <= r * l
    OBVIOUS
  <2>2. CASE l = a
    BY <2>2
  <2>3. CASE l < a
    BY <1>1, <2>3, TimesAtLeast
  <2>4. c * l \in Nat /\ c * r \in Nat /\ c * r > 0
    OBVIOUS
  <2> QED
    BY <1>1, <2>1, <2>2, <2>3, <2>4
<1>3. SUFFICES ASSUME m <= k PROVE r < l /\ 10 * (k - m) < c
  OBVIOUS
<1> HIDE DEF a
<1> DEFINE d == k - m
<1>4. d \in Nat /\ a * k = a * m + a * d /\ a * d \in Nat
  <2>1. d \in Nat /\ k = m + d
    BY <1>3
  <2> HIDE DEF d
  <2>2. a * (m + d) = a * m + a * d /\ a * d \in Nat
    BY <1>1, <2>1
  <2> QED
    BY <2>1, <2>2
<1>5. c * l >= 10 * (a * d) + c * r
  <2>1. 10 * (a * m) + c * l >= 10 * (a * k) + c * r
    BY DEF a
  <2> HIDE DEF d
  <2> QED
    BY <1>1, <1>2, <1>4, <2>1
<1>6. r < l
  <2>1. ~(c * l < c * r)
    BY <1>2, <1>4, <1>5
  <2>2. CASE l < r
    <3>1. c * l + c <= c * r
      BY <2>2, TimesAtLeast
    <3> QED
      BY <1>2, <2>1, <3>1
  <2> QED
    BY <2>2
<1>7. a * (10 * d) < a * c
  <2> HIDE DEF d
  <2>1. a * (10 * d) = 10 * (a * d) /\ a * c = c * a
    BY <1>1, <1>4
  <2>2. a * c \in Nat
    BY <1>1
  <2> QED
    BY <1>1, <1>2, <1>4, <1>5, <2>1, <2>2
<1>8. 10 * d < c
  <2> HIDE DEF d
  <2> QED
    BY <1>1, <1>4, <1>7, TimesOrders
<1> QED
  BY <1>6, <1>8

LEMMA ScoreOrders ==
  ASSUME NEW c \in Nat \ {0}, NEW r \in Nat \ {0}, NEW l \in Nat \ {0},
         NEW m \in Nat, NEW k \in Nat, r # l,
         ~((10 * l * k + c) * (10 * r * c) > (10 * r * m + c) * (10 * l * c))
  PROVE  k < m \/ (r < l /\ 10 * (k - m) < c)
<1> DEFINE x == 10 * ((r * l) * m) + c * l
           y == 10 * ((r * l) * k) + c * r
           d == 10 * c
<1>1. (10 * r * m + c) * (10 * l * c) = d * x
  BY ScoresAsProducts
<1>2. (10 * l * k + c) * (10 * r * c) = d * y
  <2>1. (10 * l * k + c) * (10 * r * c) = d * (10 * ((l * r) * k) + c * r)
    BY ScoresAsProducts
  <2>2. l * r = r * l
    OBVIOUS
  <2> QED
    BY <2>1, <2>2
<1>3. x \in Nat /\ y \in Nat
  OBVIOUS
<1>4. d \in Nat \ {0}
  OBVIOUS
<1> HIDE DEF x, y, d
<1>5. ~(y > x)
  BY <1>1, <1>2, <1>3, <1>4, TimesOrders
<1>6. x >= y
  BY <1>3, <1>5
<1> QED
  BY <1>6, RecencyIsWorthATenth DEF x, y

(* Fractions are ordered as by their cross products.                       *)
LEMMA FractionsAreOrdered ==
  ASSUME NEW a \in Nat, NEW b \in Nat \ {0}, NEW c \in Nat, NEW d \in Nat \ {0},
         NEW e \in Nat, NEW f \in Nat \ {0}, a * d >= c * b, c * f >= e * d
  PROVE  a * f >= e * b
<1>1. d * (a * f) \in Nat /\ d * (e * b) \in Nat /\ a * f \in Nat /\ e * b \in Nat
  OBVIOUS
<1>2. f * (a * d) >= f * (c * b)
  <2>1. a * d \in Nat /\ c * b \in Nat
    OBVIOUS
  <2>2. ~(f * (c * b) > f * (a * d))
    BY <2>1, TimesOrders
  <2>3. f * (c * b) \in Nat /\ f * (a * d) \in Nat
    BY <2>1
  <2> QED
    BY <2>2, <2>3
<1>3. b * (c * f) >= b * (e * d)
  <2>1. c * f \in Nat /\ e * d \in Nat
    OBVIOUS
  <2>2. ~(b * (e * d) > b * (c * f))
    BY <2>1, TimesOrders
  <2>3. b * (e * d) \in Nat /\ b * (c * f) \in Nat
    BY <2>1
  <2> QED
    BY <2>2, <2>3
<1>4. f * (a * d) = d * (a * f) /\ b * (e * d) = d * (e * b) /\ f * (c * b) = b * (c * f)
  OBVIOUS
<1>5. ~(d * (e * b) > d * (a * f))
  BY <1>1, <1>2, <1>3, <1>4
<1> QED
  BY <1>1, <1>5, TimesOrders

(* The items of a long-term memory, and those that have a word in common   *)
(* with a query.                                                           *)
LongItems == [words : SUBSET Words, time : Times]
Common(s, q) == {r \in DOMAIN s : Matches(s[r].words, q) > 0}

LEMMA MatchesAreWords ==
  ASSUME NEW q, IsFiniteSet(q), NEW ws
  PROVE  Matches(ws, q) \in Nat /\ (Matches(ws, q) > 0 <=> ws \cap q # {})
<1>1. ws \cap q \in SUBSET q
  OBVIOUS
<1>2. IsFiniteSet(ws \cap q)
  BY <1>1, FS_Subset
<1> QED
  BY <1>2, FS_CardinalityType, FS_EmptySet DEF Matches

LEMMA NewestFirst ==
  ASSUME NEW n \in Nat, NEW s \in [1..n -> LongItems]
  PROVE  \E at \in [1..n -> 1..n] :
           /\ ByTime(s) = [k \in 1..n |-> s[at[k]]]
           /\ \A k, l \in 1..n : k < l => s[at[k]].time >= s[at[l]].time /\ at[k] # at[l]
           /\ \A i \in 1..n : \E k \in 1..n : at[k] = i
<1> DEFINE Before(i, j) == s[i].time > s[j].time \/ (s[i].time = s[j].time /\ i < j)
           R == {ij \in (1..n) \X (1..n) : Before(ij[1], ij[2])}
           at == Placing(R, 1..n)
<1>1. DOMAIN s = 1..n /\ \A i \in 1..n : s[i].time \in Nat
  BY MemoryAssumption DEF LongItems
<1>2. \A i, j \in 1..n : <<i, j>> \in R <=> Before(i, j)
  OBVIOUS
<1>3. IsOrder(R, 1..n)
  <2>1. \A i \in 1..n : ~Before(i, i)
    BY <1>1
  <2>2. \A i, j \in 1..n : i = j \/ Before(i, j) \/ Before(j, i)
    BY <1>1
  <2>3. \A i, j, k \in 1..n : Before(i, j) /\ Before(j, k) => Before(i, k)
    BY <1>1
  <2> HIDE DEF R, Before
  <2> QED
    BY <1>2, <2>1, <2>2, <2>3 DEF IsOrder
<1>4. ByTime(s) = [k \in 1..n |-> s[at[k]]]
  <2> DEFINE Place(i) == Cardinality({j \in DOMAIN s : \/ s[j].time > s[i].time
                                                       \/ j <= i /\ ~(s[i].time > s[j].time)})
             first(k) == CHOOSE i \in DOMAIN s : Place(i) = k
  <2>1. ByTime(s) = [k \in 1..Cardinality(DOMAIN s) |-> s[first(k)]]
    BY DEF ByTime, StableSort, SortedAt
  <2>2. ASSUME NEW i \in 1..n PROVE Place(i) = PlacesIn(R, 1..n)[i]
    <3> HIDE DEF R
    <3>1. \A j \in 1..n : (s[j].time > s[i].time \/ (j <= i /\ ~(s[i].time > s[j].time)))
                            <=> (j = i \/ <<j, i>> \in R)
      BY <1>1, <1>2
    <3>2. {j \in DOMAIN s : \/ s[j].time > s[i].time
                            \/ j <= i /\ ~(s[i].time > s[j].time)}
          = {j \in 1..n : j = i \/ <<j, i>> \in R}
      BY <1>1, <3>1
    <3> QED
      BY <3>2 DEF PlacesIn
  <2> HIDE DEF Place, R
  <2>3. Cardinality(1..n) = n
    BY FS_Interval
  <2>4. ASSUME NEW k \in 1..n PROVE first(k) = at[k]
    BY <1>1, <2>2, <2>3 DEF Placing
  <2> HIDE DEF at, first
  <2> QED
    BY <1>1, <2>1, <2>3, <2>4
<1>5. /\ at \in [1..n -> 1..n]
      /\ \A k, l \in 1..n : k < l => <<at[k], at[l]>> \in R /\ at[k] # at[l]
      /\ \A i \in 1..n : \E k \in 1..n : at[k] = i
  <2> HIDE DEF R
  <2> QED
    BY <1>3, PlacingSortsAll
<1>6. ASSUME NEW k \in 1..n, NEW l \in 1..n, k < l
      PROVE  s[at[k]].time >= s[at[l]].time /\ at[k] # at[l]
  <2> HIDE DEF at, R
  <2>1. <<at[k], at[l]>> \in R /\ at[k] # at[l] /\ at[k] \in 1..n /\ at[l] \in 1..n
    BY <1>5, <1>6
  <2>2. Before(at[k], at[l]) /\ s[at[k]].time \in Nat /\ s[at[l]].time \in Nat
    BY <1>1, <1>2, <2>1
  <2> QED
    BY <2>1, <2>2
<1> HIDE DEF at
<1> QED
  BY <1>4, <1>5, <1>6

(* Of items that come from the newest to the oldest, the search takes      *)
(* those with more words in common first, unless a newer one lacks less    *)
(* than a tenth of the query's words.                                      *)
Lacks(q, a, b) == Matches(b.words, q) - Matches(a.words, q)

FilteredBy(s, q, m, at) ==
    /\ Filtered(s, q) = [k \in 1..m |-> Scored(s, q)[at[k]]]
    /\ \A r \in Common(s, q) : \E k \in 1..m : at[k] = r
    /\ \A k, l \in 1..m : k < l =>
         /\ at[k] # at[l]
         /\ \/ Lacks(q, s[at[k]], s[at[l]]) < 0
            \/ at[k] < at[l] /\ 10 * Lacks(q, s[at[k]], s[at[l]]) < Cardinality(q)

LEMMA BestFirst ==
  ASSUME NEW n \in Nat, NEW s \in [1..n -> LongItems],
         NEW q, IsFiniteSet(q), q # {},
         NEW K, K = Common(s, q), NEW m, m = Cardinality(K)
  PROVE  /\ m \in Nat
         /\ \E at \in [1..m -> K] : FilteredBy(s, q, m, at)
<1> DEFINE M(r) == Matches(s[r].words, q)
           c == Cardinality(q)
           t == Scored(s, q)
           Ahead(i, j) == t[i].num * t[j].den > t[j].num * t[i].den
           Before(i, j) == Ahead(i, j) \/ (~Ahead(j, i) /\ i < j)
           R == {ij \in K \X K : Before(ij[1], ij[2])}
           at == Placing(R, K)
<1>1. DOMAIN s = 1..n /\ K = {r \in DOMAIN s : M(r) > 0}
  BY DEF Common
<1>2. IsFiniteSet(K) /\ m \in Nat /\ K \subseteq 1..n /\ \A r \in K : r \in Nat \ {0}
  <2>1. IsFiniteSet(1..n) /\ K \in SUBSET (1..n)
    BY <1>1, FS_Interval
  <2> QED
    BY <2>1, FS_Subset, FS_CardinalityType
<1>3. \A r \in K : M(r) \in Nat
  BY MatchesAreWords
<1>4. c \in Nat \ {0}
  BY FS_CardinalityType, FS_EmptySet
<1>5. \A r \in K : t[r].num = 10 * r * M(r) + c /\ t[r].den = 10 * r * c
  BY <1>1, <1>2 DEF Scored
<1> HIDE DEF M, c, t
<1>6. \A r \in K : t[r].num \in Nat /\ t[r].den \in Nat \ {0}
  <2> SUFFICES ASSUME NEW r \in K PROVE t[r].num \in Nat /\ t[r].den \in Nat \ {0}
    OBVIOUS
  <2>1. r \in Nat \ {0} /\ M(r) \in Nat
    BY <1>2, <1>3
  <2>2. r * M(r) \in Nat /\ r * c \in Nat \ {0}
    BY <1>4, <2>1
  <2>3. 10 * r * M(r) + c = 10 * (r * M(r)) + c /\ 10 * r * c = 10 * (r * c)
    BY <1>4, <2>1
  <2> QED
    BY <1>4, <1>5, <2>2, <2>3
<1>7. /\ \A i \in K : ~Ahead(i, i)
      /\ \A i, j \in K : ~(Ahead(i, j) /\ Ahead(j, i))
      /\ \A i, j, k \in K : ~Ahead(j, i) /\ ~Ahead(k, j) => ~Ahead(k, i)
  <2>1. \A i, j \in K : t[i].num * t[j].den \in Nat
    <3> SUFFICES ASSUME NEW i \in K, NEW j \in K PROVE t[i].num * t[j].den \in Nat
      OBVIOUS
    <3> DEFINE x == t[i].num
               y == t[j].den
    <3>1. x \in Nat /\ y \in Nat
      BY <1>6
    <3> HIDE DEF x, y
    <3>2. x * y \in Nat
      BY <3>1
    <3> QED
      BY <3>2 DEF x, y
  <2>2. \A i, j \in K : Ahead(i, j) \/ t[j].num * t[i].den >= t[i].num * t[j].den
    BY <2>1
  <2>3. ASSUME NEW i \in K, NEW j \in K, NEW k \in K, ~Ahead(j, i), ~Ahead(k, j)
        PROVE  t[i].num * t[k].den >= t[k].num * t[i].den
    <3>1. /\ t[i].num * t[j].den >= t[j].num * t[i].den
          /\ t[j].num * t[k].den >= t[k].num * t[j].den
      BY <2>2, <2>3
    <3>2. /\ t[i].num \in Nat /\ t[i].den \in Nat \ {0}
          /\ t[j].num \in Nat /\ t[j].den \in Nat \ {0}
          /\ t[k].num \in Nat /\ t[k].den \in Nat \ {0}
      BY <1>6
    <3> QED
      BY <3>1, <3>2, FractionsAreOrdered
  <2>4. ASSUME NEW i \in K, NEW j \in K, NEW k \in K, ~Ahead(j, i), ~Ahead(k, j)
        PROVE  ~Ahead(k, i)
    BY <2>1, <2>3, <2>4
  <2> QED
    BY <2>1, <2>4
<1> HIDE DEF Ahead
<1>8. \A i, j \in K : <<i, j>> \in R <=> Before(i, j)
  OBVIOUS
<1>9. IsOrder(R, K)
  <2>1. \A i \in K : ~Before(i, i)
    BY <1>2, <1>7
  <2>2. \A i, j \in K : i = j \/ Before(i, j) \/ Before(j, i)
    BY <1>2, <1>7
  <2>3. ASSUME NEW i \in K, NEW j \in K, NEW k \in K, Before(i, j), Before(j, k)
        PROVE  Before(i, k)
    <3>1. ~Ahead(j, i) /\ ~Ahead(k, j)
      BY <1>7, <2>3
    <3>2. ~Ahead(k, i)
      BY <1>7, <3>1
    <3>3. CASE ~Ahead(i, k)
      <4>1. ~Ahead(i, j) /\ ~Ahead(j, k)
        BY <1>7, <3>1, <3>3
      <4>2. i < j /\ j < k
        BY <2>3, <4>1
      <4> QED
        BY <1>2, <3>2, <4>2
    <3> QED
      BY <3>3
  <2> HIDE DEF R, Before
  <2> QED
    BY <1>8, <2>1, <2>2, <2>3 DEF IsOrder
<1>10. Filtered(s, q) = [k \in 1..m |-> t[at[k]]]
  <2> DEFINE Place(i) == Cardinality({j \in K : \/ Ahead(j, i)
                                                \/ j <= i /\ ~Ahead(i, j)})
             first(k) == CHOOSE i \in K : Place(i) = k
  <2>1. Filtered(s, q) = [k \in 1..m |-> t[first(k)]]
    BY <1>1 DEF Filtered, SortedAt, t, M, Ahead
  <2>2. ASSUME NEW i \in K PROVE Place(i) = PlacesIn(R, K)[i]
    <3> HIDE DEF R, Ahead
    <3>1. \A j \in K : (Ahead(j, i) \/ (j <= i /\ ~Ahead(i, j))) <=> (j = i \/ <<j, i>> \in R)
      <4> SUFFICES ASSUME NEW j \in K
                   PROVE  (Ahead(j, i) \/ (j <= i /\ ~Ahead(i, j))) <=> (j = i \/ <<j, i>> \in R)
        OBVIOUS
      <4>1. <<j, i>> \in R <=> Ahead(j, i) \/ (~Ahead(i, j) /\ j < i)
        BY <1>8
      <4>2. i \in Nat /\ j \in Nat
        BY <1>2
      <4> QED
        BY <1>7, <4>1, <4>2
    <3>2. {j \in K : \/ Ahead(j, i)
                     \/ j <= i /\ ~Ahead(i, j)} = {j \in K : j = i \/ <<j, i>> \in R}
      BY <3>1
    <3> QED
      BY <3>2 DEF PlacesIn
  <2> HIDE DEF Place, R
  <2>3. ASSUME NEW k \in 1..m PROVE first(k) = at[k]
    BY <2>2 DEF Placing
  <2> HIDE DEF at, first
  <2> QED
    BY <2>1, <2>3
<1>11. /\ at \in [1..m -> K]
       /\ \A k, l \in 1..m : k < l => <<at[k], at[l]>> \in R /\ at[k] # at[l]
       /\ \A r \in K : \E k \in 1..m : at[k] = r
  <2> HIDE DEF R
  <2> QED
    BY <1>2, <1>9, PlacingSorts
<1>12. ASSUME NEW k \in 1..m, NEW l \in 1..m, k < l
       PROVE  /\ at[k] # at[l]
              /\ \/ M(at[l]) < M(at[k])
                 \/ at[k] < at[l] /\ 10 * (M(at[l]) - M(at[k])) < c
  <2> DEFINE i == at[k]
             j == at[l]
  <2> HIDE DEF at, R
  <2>1. <<i, j>> \in R /\ i # j /\ i \in K /\ j \in K
    BY <1>11, <1>12
  <2> HIDE DEF i, j
  <2>2. Before(i, j)
    BY <1>8, <2>1
  <2>3. ~Ahead(j, i)
    BY <1>7, <2>1, <2>2
  <2>4. ~((10 * j * M(j) + c) * (10 * i * c) > (10 * i * M(i) + c) * (10 * j * c))
    BY <1>5, <2>1, <2>3 DEF Ahead
  <2>5. M(j) < M(i) \/ (i < j /\ 10 * (M(j) - M(i)) < c)
    BY <1>2, <1>3, <1>4, <2>1, <2>4, ScoreOrders
  <2> QED
    BY <2>1, <2>5 DEF i, j
<1> HIDE DEF at
<1>13. FilteredBy(s, q, m, at)
  <2>1. \A k, l \in 1..m : k < l =>
          /\ at[k] # at[l]
          /\ \/ Lacks(q, s[at[k]], s[at[l]]) < 0
             \/ at[k] < at[l] /\ 10 * Lacks(q, s[at[k]], s[at[l]]) < c
    <3> SUFFICES ASSUME NEW k \in 1..m, NEW l \in 1..m, k < l
                 PROVE  /\ at[k] # at[l]
                        /\ \/ Lacks(q, s[at[k]], s[at[l]]) < 0
                           \/ at[k] < at[l] /\ 10 * Lacks(q, s[at[k]], s[at[l]]) < c
      OBVIOUS
    <3>1. Lacks(q, s[at[k]], s[at[l]]) = M(at[l]) - M(at[k])
      BY DEF Lacks, M
    <3>2. M(at[l]) \in Nat /\ M(at[k]) \in Nat
      BY <1>3, <1>11
    <3> QED
      BY <1>12, <3>1, <3>2
  <2> QED
    BY <1>10, <1>11, <2>1 DEF t, c, FilteredBy
<1> QED
  BY <1>2, <1>11, <1>13

Prefers(q, a, b) == \/ Lacks(q, a, b) < 0
                    \/ 10 * Lacks(q, a, b) < Cardinality(q) /\ a.time >= b.time

(* Before the limit cuts it, a search gives each item that has a word in   *)
(* common once, at the position pos.                                       *)
SearchOrder(q, m, pos) ==
    /\ \A limit \in Nat :
         Search(q, limit) = [i \in 1..(IF limit < m THEN limit ELSE m) |-> buffer[pos[i]]]
    /\ \A j \in Common(buffer, q) : \E k \in 1..m : pos[k] = j
    /\ \A k, l \in 1..m : k < l => pos[k] # pos[l] /\ Prefers(q, buffer[pos[k]], buffer[pos[l]])

LEMMA SearchIsOrdered ==
  ASSUME NEW n \in Nat, buffer \in [1..n -> LongItems],
         NEW q, IsFiniteSet(q), q # {}
  PROVE  LET m == Cardinality(Common(buffer, q))
         IN  /\ m \in Nat /\ IsFiniteSet(Common(buffer, q))
             /\ \E pos \in [1..m -> Common(buffer, q)] : SearchOrder(q, m, pos)
<1> DEFINE s == ByTime(buffer)
           K == Common(s, q)
           found == Common(buffer, q)
           m == Cardinality(K)
<1>1. PICK at \in [1..n -> 1..n] :
        /\ s = [k \in 1..n |-> buffer[at[k]]]
        /\ \A k, l \in 1..n : k < l => buffer[at[k]].time >= buffer[at[l]].time /\ at[k] # at[l]
        /\ \A i \in 1..n : \E k \in 1..n : at[k] = i
  BY NewestFirst
<1> HIDE DEF s
<1>2. /\ s \in [1..n -> LongItems] /\ DOMAIN s = 1..n /\ DOMAIN buffer = 1..n
      /\ \A k \in 1..n : at[k] \in 1..n /\ s[k] = buffer[at[k]]
  BY <1>1
<1> PICK best \in [1..m -> K] : FilteredBy(s, q, m, best)
  BY <1>2, BestFirst
<1>3. /\ Filtered(s, q) = [k \in 1..m |-> Scored(s, q)[best[k]]]
      /\ \A r \in K : \E k \in 1..m : best[k] = r
      /\ \A k, l \in 1..m : k < l =>
           /\ best[k] # best[l]
           /\ \/ Lacks(q, s[best[k]], s[best[l]]) < 0
              \/ /\ best[k] < best[l]
                 /\ 10 * Lacks(q, s[best[k]], s[best[l]]) < Cardinality(q)
  BY DEF FilteredBy
<1>4. m \in Nat
  BY <1>2, BestFirst
<1> HIDE DEF m
<1>5. K \subseteq 1..n /\ \A r \in 1..n : r \in K <=> at[r] \in found
  BY <1>2 DEF Common
<1>6. found \subseteq 1..n
  BY <1>2 DEF Common
<1> HIDE DEF K, found
<1> DEFINE pos == [k \in 1..m |-> at[best[k]]]
<1>7. \A k \in 1..m : best[k] \in K /\ best[k] \in 1..n /\ pos[k] = at[best[k]] /\ pos[k] \in found
  BY <1>3, <1>5
<1>8. pos \in [1..m -> found]
  BY <1>7
<1>9. \A j \in found : \E k \in 1..m : pos[k] = j
  <2> SUFFICES ASSUME NEW j \in found PROVE \E k \in 1..m : pos[k] = j
    OBVIOUS
  <2>1. PICK r \in 1..n : at[r] = j
    BY <1>1, <1>6
  <2>2. r \in K
    BY <1>5, <2>1
  <2>3. PICK k \in 1..m : best[k] = r
    BY <1>3, <2>2
  <2> QED
    BY <2>1, <2>3
<1>10. \A i, j \in 1..n : i # j => at[i] # at[j]
  <2> SUFFICES ASSUME NEW i \in 1..n, NEW j \in 1..n, i # j PROVE at[i] # at[j]
    OBVIOUS
  <2>1. i < j \/ j < i
    OBVIOUS
  <2> QED
    BY <1>1, <2>1
<1>11. ASSUME NEW k \in 1..m, NEW l \in 1..m, k < l
       PROVE  pos[k] # pos[l] /\ Prefers(q, buffer[pos[k]], buffer[pos[l]])
  <2>1. /\ best[k] # best[l]
        /\ \/ Lacks(q, s[best[k]], s[best[l]]) < 0
           \/ /\ best[k] < best[l]
              /\ 10 * Lacks(q, s[best[k]], s[best[l]]) < Cardinality(q)
    BY <1>3, <1>11
  <2>2. pos[k] # pos[l]
    BY <1>7, <1>10, <2>1
  <2>3. s[best[k]] = buffer[pos[k]] /\ s[best[l]] = buffer[pos[l]]
    BY <1>2, <1>7
  <2>4. best[k] < best[l] => buffer[pos[k]].time >= buffer[pos[l]].time
    BY <1>1, <1>7
  <2> HIDE DEF pos
  <2> QED
    BY <2>1, <2>2, <2>3, <2>4 DEF Prefers
<1> HIDE DEF pos
<1>12. IsFiniteSet(found) /\ Cardinality(found) = m
  <2>1. IsFiniteSet(1..m) /\ Cardinality(1..m) = m
    BY <1>4, FS_Interval
  <2>2. \A k, l \in 1..m : pos[k] = pos[l] => k = l
    <3> SUFFICES ASSUME NEW k \in 1..m, NEW l \in 1..m, pos[k] = pos[l] PROVE k = l
      OBVIOUS
    <3>1. k < l \/ l < k \/ k = l
      OBVIOUS
    <3> QED
      BY <1>11, <3>1
  <2>3. pos \in Injection(1..m, found) /\ pos \in Surjection(1..m, found)
    BY <1>8, <1>9, <2>2 DEF Injection, IsInjective, Surjection
  <2> QED
    BY <2>1, <2>3, FS_Surjection
<1>13. ASSUME NEW limit \in Nat
       PROVE  Search(q, limit)
              = [i \in 1..(IF limit < m THEN limit ELSE m) |-> buffer[pos[i]]]
  <2> DEFINE f == Filtered(s, q)
             e == IF limit < m THEN limit ELSE m
  <2>1. f = [k \in 1..m |-> Scored(s, q)[best[k]]]
    BY <1>3
  <2>2. Len(f) = m
    BY <1>4, <2>1
  <2>3. \A k \in 1..m : f[k].item = buffer[pos[k]]
    <3> SUFFICES ASSUME NEW k \in 1..m PROVE f[k].item = buffer[pos[k]]
      OBVIOUS
    <3>1. f[k] = Scored(s, q)[best[k]] /\ best[k] \in DOMAIN s
      BY <1>2, <1>7, <2>1
    <3>2. f[k].item = s[best[k]]
      BY <3>1 DEF Scored
    <3> QED
      BY <1>2, <1>7, <3>2
  <2>4. Search(q, limit) = [i \in 1..(IF limit < Len(f) THEN limit ELSE Len(f)) |-> f[i].item]
    BY DEF Search, s
  <2> HIDE DEF f
  <2>5. e \in Nat /\ e <= m
    BY <1>4
  <2>6. Search(q, limit) = [i \in 1..e |-> f[i].item]
    BY <2>2, <2>4
  <2> HIDE DEF e
  <2>7. \A i \in 1..e : f[i].item = buffer[pos[i]]
    BY <1>4, <2>3, <2>5
  <2>8. [i \in 1..e |-> f[i].item] = [i \in 1..e |-> buffer[pos[i]]]
    BY <2>7
  <2> QED
    BY <2>6, <2>8 DEF e
<1>14. SearchOrder(q, m, pos)
  BY <1>9, <1>11, <1>13 DEF SearchOrder, found
<1> QED
  BY <1>4, <1>8, <1>12, <1>14 DEF found

(* The invariant: a long-term memory forgets nothing.                      *)
LongInv == class = "long" => buffer = added /\ buffer \in Seq(LongItems)

LEMMA LongInvInit == MemoryInit => LongInv
  BY DEF MemoryInit, LongInv

LEMMA LongInvNext == LongInv /\ [MemoryNext]_mvars => LongInv'
<1> SUFFICES ASSUME LongInv, [MemoryNext]_mvars PROVE LongInv'
  OBVIOUS
<1>1. ASSUME NEW n, AddShort(n) PROVE LongInv'
  BY <1>1 DEF AddShort, LongInv
<1>2. ASSUME NEW ws \in SUBSET Words, NEW t \in Times, AddLong(ws, t) PROVE LongInv'
  <2> DEFINE x == [words |-> ws, time |-> t]
  <2>1. /\ buffer = added /\ buffer \in Seq(LongItems)
        /\ buffer' = Append(buffer, x) /\ added' = Append(added, x)
    BY <1>2 DEF AddLong, LongInv
  <2>2. x \in LongItems
    BY DEF LongItems
  <2> HIDE DEF x
  <2>3. buffer' = added' /\ buffer' \in Seq(LongItems)
    BY <2>1, <2>2
  <2> QED
    BY <2>3 DEF LongInv, LongItems
<1>3. CASE ClearMemory
  BY <1>3 DEF ClearMemory, LongInv
<1>4. CASE UNCHANGED mvars
  BY <1>4 DEF mvars, LongInv, LongItems
<1> QED
  BY <1>1, <1>2, <1>3, <1>4 DEF MemoryNext

Copies(s, x) == Cardinality({i \in DOMAIN s : s[i] = x})

(* What SearchFindsTheBest says of one search.                             *)
FindsTheBest(q, hits) ==
    /\ \A i, j \in DOMAIN hits : i < j => Prefers(q, hits[i], hits[j])
    /\ \A i \in DOMAIN hits :
         /\ hits[i].words \cap q # {}
         /\ Copies(hits, hits[i]) <= Copies(buffer, hits[i])
         /\ \A j \in Common(buffer, q) : \/ Prefers(q, hits[i], buffer[j])
                                         \/ Copies(hits, buffer[j]) = Copies(buffer, buffer[j])

LEMMA SearchIsBest ==
  ASSUME NEW n \in Nat, buffer \in [1..n -> LongItems],
         NEW q, IsFiniteSet(q), NEW m \in Nat, NEW e \in 0..m,
         NEW pos \in [1..m -> Common(buffer, q)], SearchOrder(q, m, pos)
  PROVE  FindsTheBest(q, [i \in 1..e |-> buffer[pos[i]]])
<1> DEFINE found == Common(buffer, q)
           hits == [i \in 1..e |-> buffer[pos[i]]]
           In(x) == {i \in 1..e : buffer[pos[i]] = x}
           Of(x) == {j \in 1..n : buffer[j] = x}
<1>1. /\ \A j \in found : \E k \in 1..m : pos[k] = j
      /\ \A k, l \in 1..m : k < l => pos[k] # pos[l] /\ Prefers(q, buffer[pos[k]], buffer[pos[l]])
  BY DEF SearchOrder
<1>2. DOMAIN buffer = 1..n /\ found \subseteq 1..n /\ \A k \in 1..m : pos[k] \in found
  BY DEF Common
<1>3. \A i \in 1..e : i \in 1..m
  OBVIOUS
<1>4. \A k, l \in 1..m : pos[k] = pos[l] => k = l
  <2> SUFFICES ASSUME NEW k \in 1..m, NEW l \in 1..m, pos[k] = pos[l] PROVE k = l
    OBVIOUS
  <2>1. k < l \/ l < k \/ k = l
    OBVIOUS
  <2> QED
    BY <1>1, <2>1
<1>5. \A j \in found : buffer[j].time \in Nat /\ buffer[j].words \cap q # {}
  <2> SUFFICES ASSUME NEW j \in found
               PROVE  buffer[j].time \in Nat /\ buffer[j].words \cap q # {}
    OBVIOUS
  <2>1. buffer[j] \in LongItems /\ Matches(buffer[j].words, q) > 0
    BY <1>2 DEF Common
  <2> QED
    BY <2>1, MatchesAreWords, MemoryAssumption DEF LongItems
<1> HIDE DEF found
<1>6. \A x : IsFiniteSet(In(x)) /\ IsFiniteSet(Of(x))
  <2> SUFFICES ASSUME NEW x PROVE IsFiniteSet(In(x)) /\ IsFiniteSet(Of(x))
    OBVIOUS
  <2>1. In(x) \in SUBSET (1..e) /\ Of(x) \in SUBSET (1..n)
    OBVIOUS
  <2>2. IsFiniteSet(1..e) /\ IsFiniteSet(1..n)
    BY FS_Interval
  <2> HIDE DEF In, Of
  <2> QED
    BY <2>1, <2>2, FS_Subset
<1>7. \A x : Cardinality(In(x)) \in Nat /\ Cardinality(Of(x)) \in Nat
  <2> HIDE DEF In, Of
  <2> QED
    BY <1>6, FS_CardinalityType
<1>8. ASSUME NEW x PROVE Cardinality(In(x)) <= Cardinality(Of(x))
  <2> DEFINE f == [i \in In(x) |-> pos[i]]
  <2>1. \A i \in In(x) : pos[i] \in Of(x)
    BY <1>2, <1>3
  <2>2. \A i, j \in In(x) : pos[i] = pos[j] => i = j
    BY <1>3, <1>4
  <2> HIDE DEF In, Of
  <2>3. f \in Injection(In(x), Of(x))
    BY <2>1, <2>2 DEF Injection, IsInjective
  <2> HIDE DEF f
  <2> QED
    BY <1>6, <2>3, FS_Injection
<1>9. ASSUME NEW x, \A j \in Of(x) : \E i \in 1..e : pos[i] = j
      PROVE  Cardinality(Of(x)) <= Cardinality(In(x))
  <2> DEFINE f == [j \in Of(x) |-> CHOOSE i \in 1..e : pos[i] = j]
  <2>1. \A j \in Of(x) : f[j] \in 1..e /\ pos[f[j]] = j
    BY <1>9
  <2>2. \A j \in Of(x) : f[j] \in In(x)
    BY <2>1
  <2>3. \A i, j \in Of(x) : f[i] = f[j] => i = j
    BY <2>1
  <2>4. f = [j \in Of(x) |-> f[j]]
    OBVIOUS
  <2> HIDE DEF In, Of, f
  <2>5. f \in Injection(Of(x), In(x))
    BY <2>2, <2>3, <2>4 DEF Injection, IsInjective
  <2> QED
    BY <1>6, <2>5, FS_Injection
<1>10. /\ DOMAIN hits = 1..e /\ \A i \in 1..e : hits[i] = buffer[pos[i]]
       /\ \A x : Copies(hits, x) = Cardinality(In(x)) /\ Copies(buffer, x) = Cardinality(Of(x))
  <2>1. DOMAIN hits = 1..e /\ \A i \in 1..e : hits[i] = buffer[pos[i]]
    OBVIOUS
  <2> HIDE DEF hits
  <2>2. \A x : {i \in DOMAIN hits : hits[i] = x} = In(x) /\ {j \in DOMAIN buffer : buffer[j] = x} = Of(x)
    BY <1>2, <2>1
  <2> QED
    BY <2>1, <2>2 DEF Copies
<1> HIDE DEF hits, In, Of
<1>11. ASSUME NEW i \in DOMAIN hits, NEW j \in DOMAIN hits, i < j PROVE Prefers(q, hits[i], hits[j])
  BY <1>1, <1>3, <1>10, <1>11
<1>12. ASSUME NEW i \in DOMAIN hits
       PROVE  hits[i].words \cap q # {} /\ Copies(hits, hits[i]) <= Copies(buffer, hits[i])
  BY <1>2, <1>3, <1>5, <1>8, <1>10
<1>13. ASSUME NEW i \in DOMAIN hits, NEW j \in found, ~Prefers(q, hits[i], buffer[j])
       PROVE  Copies(hits, buffer[j]) = Copies(buffer, buffer[j])
  <2> DEFINE x == buffer[j]
  <2>1. i \in 1..e /\ i \in 1..m /\ hits[i] = buffer[pos[i]]
    BY <1>3, <1>10
  <2>2. \A l \in Of(x) : l \in found
    <3> SUFFICES ASSUME NEW l \in Of(x) PROVE l \in found
      OBVIOUS
    <3>1. l \in 1..n /\ buffer[l] = buffer[j]
      BY DEF Of
    <3>2. Matches(buffer[j].words, q) > 0
      BY DEF found, Common
    <3> QED
      BY <1>2, <3>1, <3>2 DEF found, Common
  <2>3. ASSUME NEW l \in Of(x) PROVE \E k \in 1..e : pos[k] = l
    <3>1. PICK k \in 1..m : pos[k] = l
      BY <1>1, <2>2
    <3>2. buffer[pos[k]] = x
      BY <3>1 DEF Of
    <3>3. ~(i < k)
      BY <1>1, <1>13, <2>1, <3>2
    <3>4. k <= i
      BY <2>1, <3>3
    <3>5. k \in 1..e
      BY <2>1, <3>4
    <3> QED
      BY <3>1, <3>5
  <2> HIDE DEF x
  <2>4. Cardinality(Of(x)) <= Cardinality(In(x))
    BY <1>9, <2>3
  <2>5. Cardinality(In(x)) = Cardinality(Of(x))
    BY <1>7, <1>8, <2>4
  <2> QED
    BY <1>10, <2>5 DEF x
<1> QED
  BY <1>11, <1>12, <1>13 DEF FindsTheBest, found, hits

LEMMA LongInvIsEnough == LongInv => SearchFindsTheBest
<1> SUFFICES ASSUME LongInv, class = "long" PROVE SearchFindsTheBest
  BY DEF SearchFindsTheBest
<1> DEFINE n == Len(buffer)
<1>1. buffer = added /\ buffer \in Seq(LongItems) /\ n \in Nat /\ Len(added) = n
  BY DEF LongInv
<1>2. buffer \in [1..n -> LongItems] /\ DOMAIN buffer = 1..n
  BY <1>1
<1>3. Recent(Len(added)) = added
  <2>1. CASE n = 0
    BY <1>1, <2>1 DEF Recent
  <2>2. CASE n # 0
    <3>1. Recent(n) = SubSeq(buffer, 1, n)
      BY <1>1, <2>2 DEF Recent
    <3>2. SubSeq(buffer, 1, n) = buffer
      BY <1>1
    <3> QED
      BY <1>1, <3>1, <3>2
  <2> QED
    BY <2>1, <2>2
<1> HIDE DEF n
<1>4. ASSUME NEW q \in Queries, NEW limit \in Nat
      PROVE  LET hits == Search(q, limit)
                 f == Cardinality(Common(buffer, q))
             IN  Len(hits) = (IF limit < f THEN limit ELSE f) /\ FindsTheBest(q, hits)
  <2>1. IsFiniteSet(q)
    BY MemoryAssumption
  <2>2. CASE q = {}
    <3>1. Search(q, limit) = <<>>
      BY <2>2 DEF Search
    <3>2. \A ws : Matches(ws, q) = 0
      <4>1. \A ws : ws \cap q = {}
        BY <2>2
      <4> QED
        BY <4>1, FS_EmptySet DEF Matches
    <3>3. Common(buffer, q) = {}
      BY <3>2 DEF Common
    <3>4. Cardinality(Common(buffer, q)) = 0
      BY <3>3, FS_EmptySet
    <3>5. FindsTheBest(q, <<>>)
      BY DEF FindsTheBest
    <3> QED
      BY <3>1, <3>4, <3>5
  <2>3. CASE q # {}
    <3> DEFINE m == Cardinality(Common(buffer, q))
               e == IF limit < m THEN limit ELSE m
    <3>1. m \in Nat
      BY <1>1, <1>2, <2>1, <2>3, SearchIsOrdered
    <3>2. PICK pos \in [1..m -> Common(buffer, q)] : SearchOrder(q, m, pos)
      BY <1>1, <1>2, <2>1, <2>3, SearchIsOrdered
    <3> HIDE DEF m
    <3>3. e \in 0..m
      BY <3>1
    <3>4. Search(q, limit) = [i \in 1..e |-> buffer[pos[i]]]
      BY <3>2 DEF SearchOrder
    <3> HIDE DEF e
    <3>5. FindsTheBest(q, [i \in 1..e |-> buffer[pos[i]]])
      <4>1. n \in Nat /\ buffer \in [1..n -> LongItems]
        BY <1>1, <1>2
      <4> QED
        BY <2>1, <3>1, <3>2, <3>3, <4>1, SearchIsBest
    <3>6. Len([i \in 1..e |-> buffer[pos[i]]]) = e
      BY <3>1, <3>3
    <3> QED
      BY <3>4, <3>5, <3>6 DEF e, m
  <2> QED
    BY <2>2, <2>3
<1>5. \A q \in Queries :
        {i \in DOMAIN buffer : buffer[i].words \cap q # {}} = Common(buffer, q)
  <2> SUFFICES ASSUME NEW q \in Queries
               PROVE  {i \in DOMAIN buffer : buffer[i].words \cap q # {}} = Common(buffer, q)
    OBVIOUS
  <2>1. IsFiniteSet(q)
    BY MemoryAssumption
  <2> QED
    BY <2>1, MatchesAreWords DEF Common
<1>6. 0..(MaxLong + 1) \subseteq Nat
  OBVIOUS
<1>7. ASSUME NEW q \in Queries, NEW limit \in 0..(MaxLong + 1)
      PROVE  LET hits == Search(q, limit)
                 found == {i \in DOMAIN buffer : buffer[i].words \cap q # {}}
                 f == Cardinality(found)
             IN  /\ Len(hits) = IF limit < f THEN limit ELSE f
                 /\ \A i, j \in DOMAIN hits : i < j => Prefers(q, hits[i], hits[j])
                 /\ \A i \in DOMAIN hits :
                      /\ hits[i].words \cap q # {}
                      /\ Copies(hits, hits[i]) <= Copies(buffer, hits[i])
                      /\ \A k \in found : \/ Prefers(q, hits[i], buffer[k])
                                          \/ Copies(hits, buffer[k]) = Copies(buffer, buffer[k])
  <2>1. {i \in DOMAIN buffer : buffer[i].words \cap q # {}} = Common(buffer, q)
    BY <1>5
  <2> DEFINE hits == Search(q, limit)
             f == Cardinality(Common(buffer, q))
  <2>2. Len(hits) = (IF limit < f THEN limit ELSE f) /\ FindsTheBest(q, hits)
    BY <1>4, <1>6
  <2> HIDE DEF hits, f
  <2> QED
    BY <2>1, <2>2 DEF FindsTheBest, hits, f
<1> QED
  BY <1>3, <1>7 DEF SearchFindsTheBest, Prefers, Lacks, Copies

(* A search of a long-term memory of any size, for a query of any number   *)
(* of words, whatever timestamps the items have and wherever the limit     *)
(* cuts, prefers the items that share more words with the query and, among *)
(* equals, the newer; recency outweighs words only for a newer item that   *)
(* lacks less than a tenth of the query.  Each item is given once; adding  *)
(* loses none (LongTermMemory.add, _search, InMemoryStore).                *)
THEOREM SearchIsOfTheBest == MemorySpec => []SearchFindsTheBest
<1>1. MemorySpec => []LongInv
  BY LongInvInit, LongInvNext, PTL DEF MemorySpec
<1> QED
  BY <1>1, LongInvIsEnough, PTL
=============================================================================
