------------------------------ MODULE Lifecycle ------------------------------
(***************************************************************************)
(* infra/model_hub and training: the versions of models that ModelHub      *)
(* keeps and reports to a version logger, and the fine-tuning runs that    *)
(* FineTuner reports to a tracker.  Both may report to MLflow, which       *)
(* allows one active run in the process: starting another one raises.      *)
(*                                                                         *)
(* The hub has no await and no lock: an operation of it is one step.       *)
(* FineTuner.run calls a trainer of the user's, and hub and other tuners   *)
(* are used meanwhile, by that trainer or by other threads.  Any call of   *)
(* MLflow, and any call of the trainer, may raise.                         *)
(***************************************************************************)
EXTENDS Naturals, Sequences, SequencesExt

CONSTANTS Tuners, Trackers,    \* calls of FineTuner.run, kinds of tracker
          Names, Versions,     \* of models
          Builds,              \* the back ends registered under a name
          MaxOps, MaxRuns,     \* bounds of hub operations and tracked runs
          None

ASSUME LifecycleAssumption ==
    /\ Trackers \subseteq {"mlflow", "memory", "none"}
    /\ MaxOps \in Nat /\ MaxRuns \in Nat
    /\ None \notin Versions \cup Builds

VARIABLES backends,   \* ModelHub._backends
          versions,   \* ModelHub._versions
          builds,     \* ModelHub._version_map
          active,     \* ModelHub._active_versions
          changes,    \* what the logger was called with, and whether it raised
          plain,      \* names that register has set since their last version
          tracker,    \* the tracker of the process
          runs,       \* the tracked runs that were opened
          current,    \* MLflow: position of the active run in runs, or 0
          pc,         \* where each tuner is
          mine,       \* run_id of each tuner: a position in runs, or 0
          result      \* how each tuner's last call ended

hub == <<backends, versions, builds, active, changes, plain>>
tracking == <<runs, current>>
tuning == <<pc, mine, result>>
vars == <<hub, tracker, tracking, tuning>>

TypeOK ==
    /\ backends \in [Names -> Builds \cup {None}]
    /\ versions \in [Names -> Seq(Versions)]
    /\ builds \in [Names -> [Versions -> Builds \cup {None}]]
    /\ active \in [Names -> Versions \cup {None}]
    /\ plain \subseteq Names
    /\ tracker \in Trackers
    /\ current \in 0..Len(runs)
    /\ pc \in [Tuners -> {"idle", "making", "training", "log", "ending", "failing"}]
    /\ mine \in [Tuners -> 0..Len(runs)]
    /\ result \in [Tuners -> {"none", "done", "raised"}]

Init == /\ backends = [n \in Names |-> None]
        /\ versions = [n \in Names |-> <<>>]
        /\ builds = [n \in Names |-> [v \in Versions |-> None]]
        /\ active = [n \in Names |-> None]
        /\ changes = <<>>
        /\ plain = {}
        /\ tracker \in Trackers
        /\ runs = <<>>
        /\ current = 0
        /\ pc = [t \in Tuners |-> "idle"]
        /\ mine = [t \in Tuners |-> 0]
        /\ result = [t \in Tuners |-> "none"]

-----------------------------------------------------------------------------
(* ModelHub, with an MLflowVersionLogger: the hub has changed by the time  *)
(* the logger is called, inside a "with start_run" that ends the run.      *)

Told(n, from, to, logged) ==
    changes' = Append(changes, [name |-> n, from |-> from, to |-> to, logged |-> logged])

Tells(n, from, to) == \/ current = 0 /\ Told(n, from, to, TRUE)
                      \/ Told(n, from, to, FALSE)

Busy == Len(changes) < MaxOps

Register(n, b) ==
    /\ Busy
    /\ backends' = [backends EXCEPT ![n] = b]
    /\ plain' = plain \cup {n}
    /\ UNCHANGED <<versions, builds, active, changes, tracker, tracking, tuning>>

RegisterVersion(n, v, b) ==
    /\ Busy
    /\ versions' = IF builds[n][v] = None THEN [versions EXCEPT ![n] = Append(@, v)]
                                          ELSE versions
    /\ builds' = [builds EXCEPT ![n][v] = b]
    /\ active' = [active EXCEPT ![n] = v]
    /\ backends' = [backends EXCEPT ![n] = b]
    /\ plain' = plain \ {n}
    /\ Tells(n, None, v)
    /\ UNCHANGED <<tracker, tracking, tuning>>

(* Bug: the previous version is read after the new one has been set.       *)
RollbackReadsLate(n, v) ==
    /\ Busy
    /\ builds[n][v] # None
    /\ active' = [active EXCEPT ![n] = v]
    /\ backends' = [backends EXCEPT ![n] = builds[n][v]]
    /\ plain' = plain \ {n}
    /\ Tells(n, active'[n], v)
    /\ UNCHANGED <<versions, builds, tracker, tracking, tuning>>

(* rollback of a version that is not known changes nothing.                *)
Rollback(n, v) ==
    /\ Busy
    /\ builds[n][v] # None
    /\ active' = [active EXCEPT ![n] = v]
    /\ backends' = [backends EXCEPT ![n] = builds[n][v]]
    /\ plain' = plain \ {n}
    /\ Tells(n, active[n], v)
    /\ UNCHANGED <<versions, builds, tracker, tracking, tuning>>

(* get, get_version, list_versions and active_version.                     *)
Get(n) == backends[n]
GetVersion(n, v) == builds[n][v]
ListVersions(n) == versions[n]
ActiveVersion(n) == active[n]

-----------------------------------------------------------------------------
(* The trackers.  excused marks a run that MLflow keeps active because a   *)
(* call of the tracker raised in a place that FineTuner does not cover.    *)

Open(t) == runs' = Append(runs, [owner |-> t, ended |-> FALSE, metrics |-> {},
                                 excused |-> FALSE])

Goes(t, at) == pc' = [pc EXCEPT ![t] = at]
Ends(t, how) == Goes(t, "idle") /\ result' = [result EXCEPT ![t] = how]

(* start_run raises: nothing was opened.                                   *)
StartFails(t) ==
    /\ pc[t] = "idle" /\ tracker = "mlflow" /\ Len(runs) < MaxRuns
    /\ result' = [result EXCEPT ![t] = "raised"]
    /\ UNCHANGED <<hub, tracker, tracking, pc, mine>>

(* start_run opens a run and raises in log_params: run_id is lost.         *)
StartRaisesLate(t) ==
    /\ pc[t] = "idle" /\ tracker = "mlflow" /\ Len(runs) < MaxRuns
    /\ current = 0
    /\ runs' = Append(runs, [owner |-> t, ended |-> FALSE, metrics |-> {}, excused |-> TRUE])
    /\ current' = Len(runs')
    /\ result' = [result EXCEPT ![t] = "raised"]
    /\ UNCHANGED <<hub, tracker, pc, mine>>

(* Bug: start_run is inside the try block and its run_id is not checked.   *)
StartedInTry(t) ==
    /\ pc[t] = "idle" /\ Len(runs) < MaxRuns
    /\ \/ /\ tracker = "mlflow" => current = 0
          /\ Open(t)
          /\ current' = IF tracker = "mlflow" THEN Len(runs') ELSE 0
          /\ mine' = [mine EXCEPT ![t] = Len(runs')]
          /\ Goes(t, "making")
       \/ /\ tracker = "mlflow" /\ current # 0
          /\ Goes(t, "failing")
          /\ UNCHANGED <<tracking, mine>>
    /\ UNCHANGED <<hub, tracker, result>>

Start(t) ==
    /\ pc[t] = "idle" /\ Len(runs) < MaxRuns
    /\ tracker = "mlflow" => current = 0
    /\ Goes(t, "making")
    /\ IF tracker = "none"
       THEN UNCHANGED <<runs, mine>>
       ELSE Open(t) /\ mine' = [mine EXCEPT ![t] = Len(runs')]
    /\ current' = IF tracker = "mlflow" THEN Len(runs') ELSE 0
    /\ UNCHANGED <<hub, tracker, result>>

-----------------------------------------------------------------------------
(* FineTuner.run, from the try block on.                                   *)

(* The factory, peft_trainer_factory by default, finds its libraries and   *)
(* loads the model, or raises.                                             *)
MakeTrainer(t) ==
    /\ pc[t] = "making"
    /\ Goes(t, "training") \/ Goes(t, "failing")
    /\ UNCHANGED <<hub, tracker, tracking, mine, result>>

(* The trainer trains, saves the model and gives its metrics; each of      *)
(* these may raise.                                                        *)
Train(t) ==
    /\ pc[t] = "training"
    /\ Goes(t, "log") \/ Goes(t, "failing")
    /\ UNCHANGED <<hub, tracker, tracking, mine, result>>

(* MLflowTracker ignores run_id: the metrics go to the active run.         *)
Target(t) == IF tracker = "mlflow" THEN current ELSE mine[t]

(* _register_artifact, which follows, makes up a version and leaves the    *)
(* hub alone.                                                              *)
LogMetrics(t) ==
    /\ pc[t] = "log"
    /\ \/ /\ Goes(t, "ending")
          /\ runs' = IF tracker = "none" THEN runs
                     ELSE [runs EXCEPT ![Target(t)].metrics = @ \cup {t}]
       \/ /\ tracker = "mlflow" /\ Goes(t, "failing")
          /\ UNCHANGED runs
    /\ UNCHANGED <<hub, tracker, current, mine, result>>

(* The finally block.  end_run ends the active run, whatever its run_id.   *)
EndRun(t) ==
    /\ pc[t] \in {"ending", "failing"}
    /\ IF tracker = "none" \/ Target(t) = 0
       THEN UNCHANGED runs
       ELSE runs' = [runs EXCEPT ![Target(t)].ended = TRUE]
    /\ current' = 0
    /\ mine' = [mine EXCEPT ![t] = 0]
    /\ \/ (pc[t] = "failing" \/ tracker = "mlflow") /\ Ends(t, "raised")
       \/ pc[t] = "ending" /\ Ends(t, "done")
    /\ UNCHANGED <<hub, tracker>>

(* MLflowTracker.end_run raises before it gets to end the run.             *)
EndFails(t) ==
    /\ pc[t] \in {"ending", "failing"} /\ tracker = "mlflow"
    /\ runs' = [runs EXCEPT ![current].excused = TRUE]
    /\ mine' = [mine EXCEPT ![t] = 0]
    /\ Ends(t, "raised")
    /\ UNCHANGED <<hub, tracker, current>>

Next == \/ \E n \in Names, b \in Builds :
             Register(n, b) \/ \E v \in Versions : RegisterVersion(n, v, b)
        \/ \E n \in Names, v \in Versions : Rollback(n, v)
        \/ \E t \in Tuners : \/ Start(t) \/ StartFails(t) \/ StartRaisesLate(t)
                             \/ MakeTrainer(t) \/ Train(t) \/ LogMetrics(t)
                             \/ EndRun(t) \/ EndFails(t)

Spec == Init /\ [][Next]_vars

-----------------------------------------------------------------------------
(* The positions of a name's changes, and the last of them before i.       *)
ChangesOf(n) == {i \in DOMAIN changes : changes[i].name = n}

LastBefore(n, j, i) == /\ j \in ChangesOf(n) /\ j < i
                       /\ \A k \in ChangesOf(n) : k < i => k <= j

ActiveIsLastTold(n) ==
    IF ChangesOf(n) = {}
    THEN ActiveVersion(n) = None
    ELSE \E j \in ChangesOf(n) : /\ LastBefore(n, j, Len(changes) + 1)
                                 /\ ActiveVersion(n) = changes[j].to

ChangesChain(n) ==
    \A i \in ChangesOf(n) : changes[i].from # None =>
       \E j \in ChangesOf(n) : LastBefore(n, j, i) /\ changes[i].from = changes[j].to

ListedAreTold(n) ==
    /\ ToSet(ListVersions(n)) = {changes[i].to : i \in ChangesOf(n)}
    /\ ToSet(ListVersions(n)) = {v \in Versions : GetVersion(n, v) # None}

ListedAsFirstTold(n) ==
    \A a, b \in DOMAIN ListVersions(n) :
       a < b => \E i \in ChangesOf(n) :
                   /\ changes[i].to = ListVersions(n)[a]
                   /\ \A j \in ChangesOf(n) : j <= i => changes[j].to # ListVersions(n)[b]

ActiveIsServed(n) ==
    n \notin plain => Get(n) = IF ActiveVersion(n) = None
                              THEN None ELSE GetVersion(n, ActiveVersion(n))

(* What the hub serves is what its versions and its log say.  The active   *)
(* version of a name is the one of its last change; a rollback reports the *)
(* version it replaced, so that the changes of a name form a chain, also   *)
(* over those whose logger call raised; the versions are listed once, in   *)
(* the order of their first registration, and each has a back end; and get *)
(* returns that of the active version, unless register has put another one *)
(* in its place since.                                                     *)
HubAndLogAgree ==
    \A n \in Names : /\ ActiveIsLastTold(n) /\ ChangesChain(n)
                     /\ ListedAreTold(n) /\ ListedAsFirstTold(n)
                     /\ ActiveIsServed(n)

(* A tracked run belongs to one call of FineTuner.run, although            *)
(* MLflowTracker ignores run_id: while the call lasts it is open, only the *)
(* call's own metrics go into it and nobody else ends it.  When the call   *)
(* is over, however it ended, the run has been ended, unless MLflow raised *)
(* inside start_run after opening it or inside end_run before ending it;   *)
(* and only such a run can stay active and keep later ones, and the        *)
(* version log, from being started.                                        *)
TrackedRunsAreEnded ==
    /\ \A t \in Tuners :
         pc[t] # "idle" /\ tracker # "none" =>
           /\ mine[t] # 0 /\ runs[mine[t]].owner = t /\ ~runs[mine[t]].ended
           /\ tracker = "mlflow" => current = mine[t]
    /\ \A i \in DOMAIN runs :
         /\ runs[i].metrics \subseteq {runs[i].owner}
         /\ runs[i].ended \/ runs[i].excused \/ mine[runs[i].owner] = i
         /\ current = i => ~runs[i].ended
=============================================================================
