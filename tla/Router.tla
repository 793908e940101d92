------------------------------- MODULE Router -------------------------------
(***************************************************************************)
(* infra/inference_routing/_router.py: Router.complete, run concurrently   *)
(* by several coroutines of one event loop.                                *)
(*                                                                         *)
(* A call walks the policy's candidates in order and tries each one        *)
(* max_retries + 1 times.  It gives up control only at two awaits: inside  *)
(* the provider ("calling") and inside the backoff ("sleeping"); so an     *)
(* action below is the code between two awaits.  The backoff is awaited    *)
(* inside the span of the failed attempt, which therefore closes late, and *)
(* the move to the next candidate happens with no await at all.            *)
(*                                                                         *)
(* An exception is abstracted to the attempt that raised it, a finished    *)
(* span to its status, a delay backoff_base_s * 2 ** e to its exponent e.  *)
(***************************************************************************)
EXTENDS Naturals, Sequences

CONSTANTS Calls,          \* calls of Router.complete
          NumCandidates,  \* len(policy.candidates)
          MaxRetries      \* policy.max_retries

ASSUME PolicyAssumption == /\ NumCandidates \in Nat
                           /\ MaxRetries \in Nat

VARIABLES pc,       \* where each call is
          pos,      \* the attempt each call is making: candidate and retry
          invoked,  \* the provider calls each call has made, in order
          errors,   \* all_errors
          spans,    \* statuses of the finished "llm_call" spans
          outer,    \* the "routing" span: not yet open, open, or its status
          slept     \* exponents of the backoffs each call has waited out

vars == <<pc, pos, invoked, errors, spans, outer, slept>>

Attempts == [cand : 1..NumCandidates, att : 0..MaxRetries]

FirstAttempt == [cand |-> 1, att |-> 0]
NextRetry(p) == [p EXCEPT !.att = @ + 1]
NextCandidate(p) == [cand |-> p.cand + 1, att |-> 0]

(* Bug: the backoff goes on growing from one candidate to the next.        *)
BackoffAcrossCandidates(p) == p.att + p.cand - 1

BackoffExponent(p) == p.att

TypeOK ==
    /\ pc \in [Calls -> {"idle", "calling", "sleeping",
                         "returned", "raised", "cancelled"}]
    /\ pos \in [Calls -> [cand : Nat, att : Nat]]
    /\ invoked \in [Calls -> Seq(Attempts)]
    /\ errors \in [Calls -> Seq(Attempts)]
    /\ spans \in [Calls -> Seq({"OK", "ERROR"})]
    /\ outer \in [Calls -> {"none", "open", "OK", "ERROR"}]
    /\ slept \in [Calls -> Seq(Nat)]

Init ==
    /\ pc = [c \in Calls |-> "idle"]
    /\ pos = [c \in Calls |-> FirstAttempt]
    /\ invoked = [c \in Calls |-> <<>>]
    /\ errors = [c \in Calls |-> <<>>]
    /\ spans = [c \in Calls |-> <<>>]
    /\ outer = [c \in Calls |-> "none"]
    /\ slept = [c \in Calls |-> <<>>]

-----------------------------------------------------------------------------
(* Pieces of the handler that several steps share.                         *)

Goto(c, l) == pc' = [pc EXCEPT ![c] = l]

(* Bug: the span is closed without a status.                               *)
CloseSpanUnset(c, status) == spans' = [spans EXCEPT ![c] = Append(@, "UNSET")]

CloseSpan(c, status) == spans' = [spans EXCEPT ![c] = Append(@, status)]

SetOuter(c, status) == outer' = [outer EXCEPT ![c] = status]

Invoke(c, p) == /\ Goto(c, "calling")
                /\ pos' = [pos EXCEPT ![c] = p]
                /\ invoked' = [invoked EXCEPT ![c] = Append(@, p)]

(* Bug: only the last error is kept.                                       *)
RecordLastError(c) == errors' = [errors EXCEPT ![c] = <<pos[c]>>]

RecordError(c) == errors' = [errors EXCEPT ![c] = Append(@, pos[c])]

LastRetry(p) == p.att >= MaxRetries

(* Bug: no failover, the first candidate is taken for the last.            *)
NoFailOver(p) == p.cand >= 1

LastCandidate(p) == p.cand = NumCandidates

-----------------------------------------------------------------------------
(* The call opens its routing span and invokes the first candidate; with   *)
(* no candidate the loops do not run and the call raises.                  *)
Start(c) ==
    /\ pc[c] = "idle"
    /\ IF NumCandidates > 0
       THEN SetOuter(c, "open") /\ Invoke(c, FirstAttempt)
       ELSE SetOuter(c, "ERROR") /\ Goto(c, "raised") /\ UNCHANGED <<pos, invoked>>
    /\ UNCHANGED <<errors, spans, slept>>

ProviderAnswers(c) ==
    /\ pc[c] = "calling"
    /\ CloseSpan(c, "OK")
    /\ SetOuter(c, "OK")
    /\ Goto(c, "returned")
    /\ UNCHANGED <<pos, invoked, errors, slept>>

(* The provider raises and retries are left: sleep, the span still open.   *)
RetryLater(c) ==
    /\ pc[c] = "calling"
    /\ ~LastRetry(pos[c])
    /\ RecordError(c)
    /\ Goto(c, "sleeping")
    /\ UNCHANGED <<pos, invoked, spans, outer, slept>>

(* Bug: the sleep before the last retry never ends in one.                 *)
WakeUnlessLastRetry(c) ==
    /\ pc[c] = "sleeping"
    /\ pos[c].att + 1 < MaxRetries
    /\ slept' = [slept EXCEPT ![c] = Append(@, BackoffExponent(pos[c]))]
    /\ CloseSpan(c, "ERROR")
    /\ Invoke(c, NextRetry(pos[c]))
    /\ UNCHANGED <<errors, outer>>

(* The backoff is over: the span closes and the candidate is tried again.  *)
Wake(c) ==
    /\ pc[c] = "sleeping"
    /\ slept' = [slept EXCEPT ![c] = Append(@, BackoffExponent(pos[c]))]
    /\ CloseSpan(c, "ERROR")
    /\ Invoke(c, NextRetry(pos[c]))
    /\ UNCHANGED <<errors, outer>>

(* The provider raises on its last retry: the next candidate, at once.     *)
FailOver(c) ==
    /\ pc[c] = "calling"
    /\ LastRetry(pos[c])
    /\ ~LastCandidate(pos[c])
    /\ RecordError(c)
    /\ CloseSpan(c, "ERROR")
    /\ Invoke(c, NextCandidate(pos[c]))
    /\ UNCHANGED <<outer, slept>>

(* The last candidate raises on its last retry: AllProvidersFailedError.   *)
GiveUp(c) ==
    /\ pc[c] = "calling"
    /\ LastRetry(pos[c])
    /\ LastCandidate(pos[c])
    /\ RecordError(c)
    /\ CloseSpan(c, "ERROR")
    /\ SetOuter(c, "ERROR")
    /\ Goto(c, "raised")
    /\ UNCHANGED <<pos, invoked, slept>>

(* Bug: a cancelled attempt leaves the default status, OK.                 *)
CancelLeavesSpansOk(c) ==
    /\ pc[c] \in {"calling", "sleeping"}
    /\ CloseSpan(c, "OK")
    /\ SetOuter(c, "OK")
    /\ Goto(c, "cancelled")
    /\ UNCHANGED <<pos, invoked, errors, slept>>

(* Bug: `except BaseException`, a cancellation is failed over.             *)
CancelTakenForFailure(c) ==
    /\ pc[c] = "calling"
    /\ RecordError(c)
    /\ CloseSpan(c, "ERROR")
    /\ IF LastCandidate(pos[c])
       THEN SetOuter(c, "ERROR") /\ Goto(c, "raised") /\ UNCHANGED <<pos, invoked>>
       ELSE Invoke(c, NextCandidate(pos[c])) /\ UNCHANGED outer
    /\ UNCHANGED slept

(* CancelledError arrives at either await: it is no Exception, so no retry *)
(* follows and both spans close with an error.                             *)
Cancel(c) ==
    /\ pc[c] \in {"calling", "sleeping"}
    /\ CloseSpan(c, "ERROR")
    /\ SetOuter(c, "ERROR")
    /\ Goto(c, "cancelled")
    /\ UNCHANGED <<pos, invoked, errors, slept>>

(* A task cancelled before its first step never enters the body.           *)
CancelUnstarted(c) ==
    /\ pc[c] = "idle"
    /\ Goto(c, "cancelled")
    /\ UNCHANGED <<pos, invoked, errors, spans, outer, slept>>

-----------------------------------------------------------------------------
Settled(c) == pc[c] \in {"returned", "raised", "cancelled"}

ProviderFails(c) == RetryLater(c) \/ FailOver(c) \/ GiveUp(c)

(* What the event loop does by itself once the provider replies.           *)
Progress(c) == Start(c) \/ ProviderAnswers(c) \/ ProviderFails(c) \/ Wake(c)

Interrupt(c) == Cancel(c) \/ CancelUnstarted(c)

Next == \E c \in Calls : Progress(c) \/ Interrupt(c)

Safety == Init /\ [][Next]_vars

(* The loop schedules a ready coroutine and a due timer; that a provider   *)
(* replies at all is an assumption on it: the router sets no timeout.      *)
Spec == Safety /\ \A c \in Calls : WF_vars(Progress(c))

-----------------------------------------------------------------------------
(* The order of the attempts is the policy's: each provider call follows   *)
(* the one before it by a retry, or by the next candidate when the retries *)
(* of this one are spent; no attempt is skipped, repeated or out of order. *)
Follows(p, q) == q = IF LastRetry(p) THEN NextCandidate(p) ELSE NextRetry(p)

InPolicyOrder(c) ==
    /\ invoked[c] # <<>> => invoked[c][1] = FirstAttempt
    /\ \A k \in 1..(Len(invoked[c]) - 1) :
           Follows(invoked[c][k], invoked[c][k + 1])

(* AllProvidersFailedError.errors is chronological and one-to-one with the *)
(* failed attempts: at any time all_errors is the list of provider calls   *)
(* without the one in flight (or the one that answered or was cancelled).  *)
FailuresRecorded(c) ==
    /\ Len(errors[c]) \in {Len(invoked[c]) - 1, Len(invoked[c])}
    /\ \A k \in 1..Len(errors[c]) : errors[c][k] = invoked[c][k]
    /\ pc[c] \in {"calling", "returned"} =>
           Len(errors[c]) = Len(invoked[c]) - 1
    /\ pc[c] \in {"idle", "sleeping", "raised"} =>
           Len(errors[c]) = Len(invoked[c])

(* Every call makes its attempts in the policy's order and accounts for    *)
(* each failed one in the errors it would raise with.                      *)
AttemptsInPolicyOrder ==
    \A c \in Calls : InPolicyOrder(c) /\ FailuresRecorded(c)

(* The call raises only after every candidate failed max_retries + 1 times *)
(* and every backoff has been waited in full: max_retries of them for each *)
(* candidate, each twice the one before it; none is skipped, none goes on  *)
(* from the backoffs of the candidate before.                              *)
Backoff(n, r) == (n - 1) * MaxRetries + r + 1

BackedOff(c) ==
    /\ Len(slept[c]) = NumCandidates * MaxRetries
    /\ \A n \in 1..NumCandidates, r \in 0..(MaxRetries - 1) :
           slept[c][Backoff(n, r)] = r

ExhaustedBeforeRaise ==
    \A c \in Calls : pc[c] = "raised" =>
        /\ Len(errors[c]) = NumCandidates * (MaxRetries + 1)
        /\ BackedOff(c)

(* The trace agrees with the outcome.  Each provider call has exactly one  *)
(* span, still open only while the call or its backoff is awaited; spans   *)
(* of failed attempts are ERROR, the last is OK exactly when the call      *)
(* returned, and the routing span says the same as the caller sees.        *)
TraceMatchesOutcome ==
    \A c \in Calls :
        /\ Len(spans[c]) = IF Settled(c) THEN Len(invoked[c])
                                         ELSE Len(errors[c])
                              - (IF pc[c] = "sleeping" THEN 1 ELSE 0)
        /\ \A k \in 1..Len(spans[c]) :
               spans[c][k] = "OK" <=> /\ pc[c] = "returned"
                                      /\ k = Len(invoked[c])
        /\ outer[c] = "OK" <=> pc[c] = "returned"
        /\ outer[c] = "ERROR" <=> \/ pc[c] = "raised"
                                  \/ pc[c] = "cancelled" /\ invoked[c] # <<>>

-----------------------------------------------------------------------------
(* The router implements the promise of Completion.                        *)
Outcome(c) == CASE pc[c] = "returned"  -> "answered"
                [] pc[c] = "raised"    -> "failed"
                [] pc[c] = "cancelled" -> "cancelled"
                [] OTHER               -> "pending"

Promise == INSTANCE Completion
             WITH Budget   <- NumCandidates * (MaxRetries + 1),
                  outcome  <- [c \in Calls |-> Outcome(c)],
                  attempts <- [c \in Calls |-> Len(invoked[c])]

PromiseSpec == Promise!Spec
=============================================================================
