------------------------------- MODULE Batcher -------------------------------
(***************************************************************************)
(* infra/cost_latency_optimization/_batcher.py: Batcher.batch_complete, a  *)
(* gather(return_exceptions=True) over one Router.complete per request.    *)
(*                                                                         *)
(* The requests are the calls 1..N of Router.tla, so results is a list in  *)
(* the order of the requests.  gather is asyncio's: it finishes when every *)
(* child has settled, and a cancellation of the batch cancels every child  *)
(* that has not; the batch itself then raises.                             *)
(***************************************************************************)
EXTENDS Router, FiniteSets

ASSUME RequestsAssumption == Calls = 1..Cardinality(Calls)

VARIABLES batch,    \* "running", "cancelling", "returned" or "cancelled"
          results   \* the list returned to the caller

batchVars == <<pc, pos, invoked, errors, spans, outer, slept, batch, results>>

BatchInit == /\ Init
             /\ batch = "running"
             /\ results = <<>>

AllSettled == \A c \in Calls : Settled(c)

(* A request makes progress, or its provider itself raises CancelledError. *)
RequestStep(c) == /\ batch = "running"
                  /\ \/ Progress(c)
                     \/ pc[c] = "calling" /\ Cancel(c)
                  /\ UNCHANGED <<batch, results>>

RequestCancel == /\ batch = "running"
                 /\ batch' = "cancelling"
                 /\ UNCHANGED <<vars, results>>

(* Every unsettled child resumes with CancelledError, in any order.        *)
ChildCancelled(c) == /\ batch = "cancelling"
                     /\ Interrupt(c)
                     /\ UNCHANGED <<batch, results>>

(* Bug: gather without return_exceptions, the first failure ends the batch.*)
CollectOnFirstFailure == /\ batch = "running"
                         /\ AllSettled \/ \E c \in Calls : pc[c] = "raised"
                         /\ batch' = "returned"
                         /\ results' = [c \in Calls |-> Outcome(c)]
                         /\ UNCHANGED vars

(* return list(results): the outcomes in the order of the requests.        *)
Collect == /\ batch = "running"
           /\ AllSettled
           /\ batch' = "returned"
           /\ results' = [c \in Calls |-> Outcome(c)]
           /\ UNCHANGED vars

CollectCancelled == /\ batch = "cancelling"
                    /\ AllSettled
                    /\ batch' = "cancelled"
                    /\ UNCHANGED <<vars, results>>

BatchOver == batch \in {"returned", "cancelled"}

BatchDone == BatchOver /\ UNCHANGED batchVars

BatchNext == \/ \E c \in Calls : RequestStep(c) \/ ChildCancelled(c)
             \/ RequestCancel
             \/ Collect \/ CollectCancelled
             \/ BatchDone

BatchSafety == BatchInit /\ [][BatchNext]_batchVars

(* The loop resumes every ready task; providers reply.                     *)
BatchSpec == /\ BatchSafety
             /\ \A c \in Calls : /\ WF_batchVars(RequestStep(c))
                                 /\ WF_batchVars(ChildCancelled(c))
             /\ WF_batchVars(Collect \/ CollectCancelled)

-----------------------------------------------------------------------------
(* The list returned says of every request how it ended, also when some    *)
(* failed: a failure in one slot neither ends the batch nor hides another; *)
(* "failed" means that the whole policy was tried for that request.  And   *)
(* when the batch is over, returned or cancelled, no request of it is left *)
(* running: nothing calls a provider, or sleeps towards calling one,       *)
(* behind the caller's back.                                               *)
ResultsTellEveryRequest ==
    /\ BatchOver => AllSettled
    /\ batch = "returned" =>
          /\ DOMAIN results = Calls
          /\ \A c \in Calls :
                /\ results[c] = Outcome(c)
                /\ results[c] # "pending"
                /\ results[c] = "failed" =>
                      Len(invoked[c]) = NumCandidates * (MaxRetries + 1)

(* Once the batch is cancelled no request makes another provider call: the *)
(* router's `except Exception` must not take the cancellation for a failed *)
(* attempt and retry it or fail over.                                      *)
CancelStopsProviderCalls ==
    [][batch = "cancelling" => UNCHANGED invoked]_batchVars

(* The batch ends, cancelled or not.                                       *)
BatchEnds == <>BatchOver
=============================================================================
