--------------------------- MODULE InferenceProofs ---------------------------
(***************************************************************************)
(* Proofs about Router.tla, Batcher.tla and CompletionCache.tla.           *)
(*                                                                         *)
(* The router, for every number of calls, candidates and retries: the      *)
(* order and completeness of the attempts and of the backoffs between      *)
(* them, that the trace agrees with the outcome, and that it implements    *)
(* the safety of Completion.  The batcher: it only schedules the steps of  *)
(* its router calls, so all of this carries over; its results are complete *)
(* and final, and cancelling it stops it.  The cache, for any keys,        *)
(* callers, size, time-to-live and model history: its bound, its order of  *)
(* eviction, that forced refreshes are fresh, and that it implements       *)
(* FreshMap.                                                               *)
(***************************************************************************)
EXTENDS Batcher, CompletionCache, Integers, SequenceTheorems, FiniteSetTheorems, TLAPS

-----------------------------------------------------------------------------
(***************************************************************************)
(* Router.                                                                 *)
(***************************************************************************)
(* The place of an attempt in the order the policy prescribes, from 1.     *)
Position(p) == (p.cand - 1) * (MaxRetries + 1) + p.att + 1

(* Type correctness needs that a call at an await is making an attempt of  *)
(* the policy: this is what bounds FailOver and Wake.                      *)
AtAwait(c) == pc[c] \in {"calling", "sleeping"}

PosOK(c) ==
    /\ AtAwait(c) => pos[c] \in Attempts
    /\ pc[c] = "sleeping" => pos[c].att < MaxRetries

TypeInv == TypeOK /\ \A c \in Calls : PosOK(c)

LEMMA TypeInvInit == Init => TypeInv
  BY PolicyAssumption DEF Init, TypeInv, TypeOK, PosOK, AtAwait, FirstAttempt

LEMMA AttemptMoves ==
  ASSUME NEW p \in Attempts
  PROVE  /\ p.att < MaxRetries => NextRetry(p) \in Attempts
         /\ p.cand < NumCandidates => NextCandidate(p) \in Attempts
  BY PolicyAssumption DEF Attempts, NextRetry, NextCandidate

LEMMA FirstAttemptType == /\ FirstAttempt \in [cand : Nat, att : Nat]
                          /\ NumCandidates > 0 => FirstAttempt \in Attempts
  BY PolicyAssumption DEF Attempts, FirstAttempt

LEMMA AttemptsAreNat == Attempts \subseteq [cand : Nat, att : Nat]
  BY PolicyAssumption DEF Attempts

(* The two directions of a retry decision, in terms of the policy.         *)
LEMMA RetryDecision ==
  ASSUME NEW p \in Attempts
  PROVE  /\ ~LastRetry(p) => p.att < MaxRetries
         /\ LastRetry(p) => p.att = MaxRetries
         /\ ~LastCandidate(p) => p.cand < NumCandidates
  BY PolicyAssumption DEF Attempts, LastRetry, LastCandidate

LEMMA TypeInvNext == TypeInv /\ [Next]_vars => TypeInv'
<1> SUFFICES ASSUME TypeInv, [Next]_vars PROVE TypeInv'
  OBVIOUS
<1> USE DEF TypeInv, TypeOK, PosOK, AtAwait
<1>1. ASSUME NEW c \in Calls, Start(c) PROVE TypeInv'
  <2>1. CASE NumCandidates > 0
    <3>1. FirstAttempt \in Attempts /\ FirstAttempt \in [cand : Nat, att : Nat]
      BY <2>1, FirstAttemptType
    <3>2. /\ SetOuter(c, "open") /\ Invoke(c, FirstAttempt)
          /\ UNCHANGED <<errors, spans, slept>>
      BY <1>1, <2>1 DEF Start
    <3> QED
      BY <3>1, <3>2 DEF Invoke, Goto, SetOuter
  <2>2. CASE ~(NumCandidates > 0)
    BY <1>1, <2>2 DEF Start, Goto, SetOuter
  <2> QED
    BY <2>1, <2>2
<1>3. ASSUME NEW c \in Calls, ProviderAnswers(c) PROVE TypeInv'
  BY <1>3 DEF ProviderAnswers, Goto, SetOuter, CloseSpan
<1>4. ASSUME NEW c \in Calls, RetryLater(c) PROVE TypeInv'
  <2>1. pos[c] \in Attempts /\ pos[c].att < MaxRetries
    BY <1>4, RetryDecision DEF RetryLater
  <2> QED
    BY <1>4, <2>1 DEF RetryLater, Goto, RecordError
<1>5. ASSUME NEW c \in Calls, Wake(c) PROVE TypeInv'
  <2>1. NextRetry(pos[c]) \in Attempts /\ NextRetry(pos[c]) \in [cand : Nat, att : Nat]
    BY <1>5, AttemptMoves, AttemptsAreNat DEF Wake
  <2>2. BackoffExponent(pos[c]) \in Nat
    BY DEF BackoffExponent
  <2> QED
    BY <1>5, <2>1, <2>2 DEF Wake, Invoke, Goto, CloseSpan
<1>6. ASSUME NEW c \in Calls, FailOver(c) PROVE TypeInv'
  <2>1. pos[c] \in Attempts /\ pos[c].cand < NumCandidates
    BY <1>6, RetryDecision DEF FailOver
  <2>2. /\ NextCandidate(pos[c]) \in Attempts
        /\ NextCandidate(pos[c]) \in [cand : Nat, att : Nat]
    BY <2>1, AttemptMoves, AttemptsAreNat
  <2> QED
    BY <1>6, <2>1, <2>2 DEF FailOver, Invoke, Goto, CloseSpan, RecordError
<1>7. ASSUME NEW c \in Calls, GiveUp(c) PROVE TypeInv'
  BY <1>7 DEF GiveUp, Goto, CloseSpan, SetOuter, RecordError
<1>8. ASSUME NEW c \in Calls, Cancel(c) PROVE TypeInv'
  BY <1>8 DEF Cancel, Goto, CloseSpan, SetOuter
<1>9. ASSUME NEW c \in Calls, CancelUnstarted(c) PROVE TypeInv'
  BY <1>9 DEF CancelUnstarted, Goto
<1>10. CASE UNCHANGED vars
  BY <1>10 DEF vars
<1> QED
  BY <1>1, <1>3, <1>4, <1>5, <1>6, <1>7, <1>8, <1>9, <1>10
     DEF Next, Progress, ProviderFails, Interrupt

(* Every reachable state of the router is well typed, and a call that is   *)
(* at an await is making an attempt that the policy allows.                *)
THEOREM TypeCorrect == Safety => [](TypeOK /\ TypeInv)
<1>1. TypeInv => TypeOK
  BY DEF TypeInv
<1> QED
  BY <1>1, TypeInvInit, TypeInvNext, PTL DEF Safety

-----------------------------------------------------------------------------
(***************************************************************************)
(* The order of the attempts.  The invariant ties the three sequences to   *)
(* the loop variables: the last provider call is the attempt at hand, it   *)
(* is number Position of the policy's order, and all_errors lags behind    *)
(* the provider calls by exactly the call in flight.                       *)
(***************************************************************************)
LastInvoked(c) ==
    /\ pc[c] = "idle" => invoked[c] = <<>>
    /\ pc[c] \in {"calling", "sleeping", "returned"} => invoked[c] # <<>>
    /\ invoked[c] # <<>> => /\ pos[c] \in Attempts
                            /\ invoked[c][Len(invoked[c])] = pos[c]
                            /\ Len(invoked[c]) = Position(pos[c])

Exhausted(c) ==
    pc[c] = "raised" => Len(invoked[c]) = NumCandidates * (MaxRetries + 1)

OrderInv ==
    /\ TypeInv
    /\ \A c \in Calls : LastInvoked(c) /\ FailuresRecorded(c) /\ Exhausted(c) /\ InPolicyOrder(c)

LEMMA PositionRetry ==
  ASSUME NEW p \in Attempts
  PROVE  Position(NextRetry(p)) = Position(p) + 1
  BY PolicyAssumption DEF Attempts, Position, NextRetry

LEMMA PositionCandidate ==
  ASSUME NEW p \in Attempts, p.att = MaxRetries
  PROVE  Position(NextCandidate(p)) = Position(p) + 1
<1>1. p.cand \in Nat /\ MaxRetries \in Nat
  BY PolicyAssumption DEF Attempts
<1>2. p.cand * (MaxRetries + 1) = (p.cand - 1) * (MaxRetries + 1) + (MaxRetries + 1)
  BY <1>1
<1>3. Position(p) = (p.cand - 1) * (MaxRetries + 1) + MaxRetries + 1
  BY DEF Position
<1>4. Position(NextCandidate(p)) = p.cand * (MaxRetries + 1) + 1
  BY <1>1 DEF Position, NextCandidate
<1> QED
  BY <1>1, <1>2, <1>3, <1>4

LEMMA PositionLast ==
  ASSUME NEW p \in Attempts, p.att = MaxRetries, p.cand = NumCandidates
  PROVE  Position(p) = NumCandidates * (MaxRetries + 1)
<1>1. NumCandidates \in Nat /\ MaxRetries \in Nat
  BY PolicyAssumption
<1>2. NumCandidates * (MaxRetries + 1)
        = (NumCandidates - 1) * (MaxRetries + 1) + (MaxRetries + 1)
  BY <1>1
<1> QED
  BY <1>1, <1>2 DEF Position

LEMMA PositionType ==
  ASSUME NEW p \in Attempts
  PROVE  Position(p) \in Int
<1>1. p.cand \in Nat /\ p.att \in Nat /\ MaxRetries \in Nat
  BY PolicyAssumption DEF Attempts
<1> QED
  BY <1>1 DEF Position

LEMMA PositionFirst == Position(FirstAttempt) = 1
<1>1. (1 - 1) * (MaxRetries + 1) = 0
  BY PolicyAssumption
<1> QED
  BY <1>1 DEF Position, FirstAttempt

LEMMA OrderInvInit == Init => OrderInv
  BY TypeInvInit DEF Init, OrderInv, LastInvoked, FailuresRecorded, Exhausted, InPolicyOrder

(* One provider call more: p is the first attempt or follows the last one. *)
LEMMA InvokeInOrder ==
  ASSUME TypeInv, TypeInv', NEW c \in Calls, NEW p \in Attempts, Invoke(c, p),
         InPolicyOrder(c),
         invoked[c] = <<>> => p = FirstAttempt,
         invoked[c] # <<>> => Follows(invoked[c][Len(invoked[c])], p)
  PROVE  InPolicyOrder(c)'
<1>1. invoked[c] \in Seq(Attempts) /\ invoked'[c] = Append(invoked[c], p)
  BY DEF TypeInv, TypeOK, Invoke
<1>2. /\ Len(invoked'[c]) = Len(invoked[c]) + 1
      /\ invoked'[c][Len(invoked[c]) + 1] = p
      /\ \A k \in 1..Len(invoked[c]) : invoked'[c][k] = invoked[c][k]
      /\ Len(invoked[c]) \in Nat
  BY <1>1
<1>3. invoked'[c][1] = FirstAttempt
  BY <1>1, <1>2 DEF InPolicyOrder
<1>4. ASSUME NEW k \in 1..(Len(invoked'[c]) - 1)
      PROVE  Follows(invoked'[c][k], invoked'[c][k + 1])
  <2>1. CASE k = Len(invoked[c])
    BY <2>1, <1>1, <1>2
  <2>2. CASE k < Len(invoked[c])
    BY <2>2, <1>1, <1>2 DEF InPolicyOrder
  <2> QED
    BY <1>2, <2>1, <2>2
<1> QED
  BY <1>3, <1>4 DEF InPolicyOrder

(* The calls that an action on c does not touch.                           *)
Untouched(c) ==
    \A d \in Calls \ {c} :
        /\ pc'[d] = pc[d] /\ pos'[d] = pos[d]
        /\ invoked'[d] = invoked[d] /\ errors'[d] = errors[d]

LEMMA OnlyOneCallMoves ==
  ASSUME TypeInv, NEW c \in Calls, Progress(c) \/ Interrupt(c)
  PROVE  Untouched(c)
<1> USE DEF TypeInv, TypeOK, Untouched
<1>1. CASE Start(c)
  BY <1>1 DEF Start, Invoke, Goto
<1>3. CASE ProviderAnswers(c)
  BY <1>3 DEF ProviderAnswers, Goto
<1>4. CASE RetryLater(c)
  BY <1>4 DEF RetryLater, Goto, RecordError
<1>5. CASE Wake(c)
  BY <1>5 DEF Wake, Invoke, Goto
<1>6. CASE FailOver(c)
  BY <1>6 DEF FailOver, Invoke, Goto, RecordError
<1>7. CASE GiveUp(c)
  BY <1>7 DEF GiveUp, Goto, RecordError
<1>8. CASE Cancel(c)
  BY <1>8 DEF Cancel, Goto
<1>9. CASE CancelUnstarted(c)
  BY <1>9 DEF CancelUnstarted, Goto
<1> QED
  BY <1>1, <1>3, <1>4, <1>5, <1>6, <1>7, <1>8, <1>9
     DEF Progress, ProviderFails, Interrupt

CallOK(c) == LastInvoked(c) /\ FailuresRecorded(c) /\ Exhausted(c) /\ InPolicyOrder(c)

(* The call that moves keeps its own part of the invariant.                *)
LEMMA MovingCallOK ==
  ASSUME TypeInv, TypeInv', NEW c \in Calls, CallOK(c),
         Progress(c) \/ Interrupt(c)
  PROVE  CallOK(c)'
<1> DEFINE n == Len(invoked[c])
<1>0. /\ invoked[c] \in Seq(Attempts) /\ errors[c] \in Seq(Attempts)
      /\ n \in Nat /\ Len(errors[c]) \in Nat
      /\ AtAwait(c) => pos[c] \in Attempts
      /\ pc[c] = "sleeping" => pos[c].att < MaxRetries
  BY DEF TypeInv, TypeOK, PosOK
<1>1. CASE Start(c) /\ NumCandidates > 0
  <2>1. /\ pc'[c] = "calling" /\ pos'[c] = FirstAttempt
        /\ invoked[c] = <<>> /\ invoked'[c] = Append(invoked[c], FirstAttempt)
        /\ errors'[c] = errors[c] /\ Len(errors[c]) = 0
        /\ FirstAttempt \in Attempts /\ Invoke(c, FirstAttempt)
    <3>1. pc[c] = "idle" /\ FirstAttempt \in Attempts
      BY <1>1, FirstAttemptType DEF Start
    <3>2. invoked[c] = <<>> /\ errors'[c] = errors[c] /\ Len(errors[c]) = 0
      BY <1>0, <1>1, <3>1
         DEF Start, Invoke, TypeInv, TypeOK, CallOK, LastInvoked, FailuresRecorded
    <3>3. /\ Invoke(c, FirstAttempt) /\ pc'[c] = "calling" /\ pos'[c] = FirstAttempt
          /\ invoked'[c] = Append(invoked[c], FirstAttempt)
      BY <1>0, <1>1 DEF Start, Invoke, Goto, TypeInv, TypeOK
    <3> QED
      BY <3>1, <3>2, <3>3
  <2>2. InPolicyOrder(c)'
    BY <2>1, InvokeInOrder DEF CallOK
  <2>3. Len(invoked'[c]) = 1 /\ invoked'[c][1] = FirstAttempt
    BY <2>1
  <2> QED
    BY <2>1, <2>2, <2>3, PositionFirst
       DEF CallOK, LastInvoked, FailuresRecorded, Exhausted
<1>2. CASE Start(c) /\ ~(NumCandidates > 0)
  <2>1. /\ pc'[c] = "raised" /\ invoked'[c] = <<>> /\ invoked[c] = <<>>
        /\ errors'[c] = errors[c] /\ Len(errors[c]) = 0
    BY <1>0, <1>2 DEF Start, Goto, TypeInv, TypeOK, CallOK,
                      LastInvoked, FailuresRecorded
  <2>2. Len(invoked'[c]) = NumCandidates * (MaxRetries + 1)
    <3>1. NumCandidates = 0 /\ MaxRetries + 1 \in Nat /\ Len(invoked'[c]) = 0
      BY <1>2, <2>1, PolicyAssumption
    <3>2. \A r \in Nat : 0 * r = 0
      OBVIOUS
    <3> QED
      BY <3>1, <3>2
  <2> QED
    BY <2>1, <2>2 DEF CallOK, LastInvoked, FailuresRecorded, Exhausted, InPolicyOrder
<1>3. CASE ProviderAnswers(c)
  BY <1>3, <1>0 DEF ProviderAnswers, Goto, TypeInv, TypeOK, CallOK, LastInvoked,
                    FailuresRecorded, Exhausted, InPolicyOrder
<1>4. CASE RetryLater(c)
  <2>1. /\ pc[c] = "calling" /\ pc'[c] = "sleeping" /\ pos'[c] = pos[c]
        /\ invoked'[c] = invoked[c] /\ errors'[c] = Append(errors[c], pos[c])
    BY <1>4 DEF RetryLater, Goto, RecordError, TypeInv, TypeOK
  <2>2. LastInvoked(c)' /\ Exhausted(c)' /\ InPolicyOrder(c)'
    BY <2>1 DEF CallOK, LastInvoked, Exhausted, InPolicyOrder
  <2>3. FailuresRecorded(c)'
    BY <2>1, <1>0 DEF CallOK, LastInvoked, FailuresRecorded
  <2> QED
    BY <2>2, <2>3 DEF CallOK
<1>5. CASE Wake(c)
  <2> DEFINE p == NextRetry(pos[c])
  <2>1. /\ pc[c] = "sleeping" /\ pc'[c] = "calling" /\ pos'[c] = p
        /\ invoked'[c] = Append(invoked[c], p) /\ errors'[c] = errors[c]
        /\ pos[c] \in Attempts /\ Invoke(c, p)
    BY <1>5, <1>0 DEF Wake, Invoke, Goto, TypeInv, TypeOK, AtAwait
  <2>2. p \in Attempts /\ Position(p) = Position(pos[c]) + 1
    BY <2>1, <1>0, AttemptMoves, PositionRetry
  <2>3. /\ Len(invoked'[c]) = n + 1 /\ invoked'[c][n + 1] = p
        /\ \A k \in 1..n : invoked'[c][k] = invoked[c][k]
    BY <1>0, <2>1
  <2>4. invoked[c] # <<>> /\ invoked[c][n] = pos[c] /\ n = Position(pos[c])
    BY <2>1 DEF CallOK, LastInvoked
  <2>5. Follows(invoked[c][n], p)
    BY <2>1, <2>4, <1>0, PolicyAssumption DEF Follows, LastRetry, Attempts
  <2>6. InPolicyOrder(c)'
    BY <2>1, <2>2, <2>4, <2>5, InvokeInOrder DEF CallOK
  <2>7. LastInvoked(c)'
    BY <2>1, <2>2, <2>3, <2>4, <1>0 DEF LastInvoked
  <2>8. FailuresRecorded(c)' /\ Exhausted(c)'
    BY <2>1, <2>3, <1>0 DEF CallOK, FailuresRecorded, Exhausted
  <2> QED
    BY <2>6, <2>7, <2>8 DEF CallOK
<1>6. CASE FailOver(c)
  <2> DEFINE p == NextCandidate(pos[c])
  <2>1. /\ pc[c] = "calling" /\ pc'[c] = "calling" /\ pos'[c] = p
        /\ invoked'[c] = Append(invoked[c], p)
        /\ errors'[c] = Append(errors[c], pos[c])
        /\ pos[c] \in Attempts /\ Invoke(c, p) /\ LastRetry(pos[c])
        /\ pos[c].att = MaxRetries /\ pos[c].cand < NumCandidates
    BY <1>6, <1>0, RetryDecision
       DEF FailOver, RecordError, Invoke, Goto, TypeInv, TypeOK, AtAwait
  <2>2. p \in Attempts /\ Position(p) = Position(pos[c]) + 1
    BY <2>1, AttemptMoves, PositionCandidate
  <2>3. /\ Len(invoked'[c]) = n + 1 /\ invoked'[c][n + 1] = p
        /\ \A k \in 1..n : invoked'[c][k] = invoked[c][k]
    BY <1>0, <2>1
  <2>4. invoked[c] # <<>> /\ invoked[c][n] = pos[c] /\ n = Position(pos[c])
    BY <2>1 DEF CallOK, LastInvoked
  <2>5. Follows(invoked[c][n], p)
    BY <2>1, <2>4 DEF Follows
  <2>6. InPolicyOrder(c)'
    BY <2>1, <2>2, <2>4, <2>5, InvokeInOrder DEF CallOK
  <2>7. LastInvoked(c)'
    BY <2>1, <2>2, <2>3, <2>4, <1>0 DEF LastInvoked
  <2>8. Len(errors[c]) = n - 1 /\ \A k \in 1..(n - 1) : errors[c][k] = invoked[c][k]
    BY <2>1, <1>0 DEF CallOK, FailuresRecorded
  <2>9. /\ Len(errors'[c]) = n /\ errors'[c][n] = pos[c]
        /\ \A k \in 1..(n - 1) : errors'[c][k] = errors[c][k]
    BY <2>1, <2>8, <1>0
  <2>10. \A k \in 1..n : errors'[c][k] = invoked'[c][k]
    <3>1. n \in 1..n
      BY <1>0, <2>4
    <3>2. ASSUME NEW k \in 1..n, k # n PROVE errors'[c][k] = invoked'[c][k]
      <4>1. k \in 1..(n - 1)
        BY <3>2, <1>0
      <4> QED
        BY <4>1, <3>2, <2>3, <2>8, <2>9
    <3> QED
      BY <3>1, <3>2, <2>3, <2>4, <2>9
  <2>11. FailuresRecorded(c)' /\ Exhausted(c)'
    BY <2>1, <2>3, <2>9, <2>10, <1>0 DEF FailuresRecorded, Exhausted
  <2> QED
    BY <2>6, <2>7, <2>11 DEF CallOK
<1>7. CASE GiveUp(c)
  <2>1. /\ pc[c] = "calling" /\ pc'[c] = "raised" /\ pos'[c] = pos[c]
        /\ invoked'[c] = invoked[c] /\ errors'[c] = Append(errors[c], pos[c])
        /\ pos[c] \in Attempts /\ pos[c].att = MaxRetries
        /\ pos[c].cand = NumCandidates
    BY <1>7, <1>0, RetryDecision
       DEF GiveUp, Goto, RecordError, TypeInv, TypeOK, AtAwait, LastCandidate
  <2>2. n = NumCandidates * (MaxRetries + 1) /\ invoked[c][n] = pos[c]
    BY <2>1, PositionLast DEF CallOK, LastInvoked
  <2>3. LastInvoked(c)' /\ Exhausted(c)' /\ InPolicyOrder(c)'
    BY <2>1, <2>2 DEF CallOK, LastInvoked, Exhausted, InPolicyOrder
  <2>4. FailuresRecorded(c)'
    BY <2>1, <2>2, <1>0 DEF CallOK, LastInvoked, FailuresRecorded
  <2> QED
    BY <2>3, <2>4 DEF CallOK
<1>8. CASE Cancel(c)
  BY <1>8, <1>0 DEF Cancel, Goto, TypeInv, TypeOK, CallOK, LastInvoked,
                    FailuresRecorded, Exhausted, InPolicyOrder
<1>9. CASE CancelUnstarted(c)
  BY <1>9, <1>0 DEF CancelUnstarted, Goto, TypeInv, TypeOK, CallOK, LastInvoked,
                    FailuresRecorded, Exhausted, InPolicyOrder
<1> QED
  BY <1>1, <1>2, <1>3, <1>4, <1>5, <1>6, <1>7, <1>8, <1>9
     DEF Progress, ProviderFails, Interrupt

LEMMA OrderInvNext == OrderInv /\ [Next]_vars => OrderInv'
<1> SUFFICES ASSUME OrderInv, [Next]_vars PROVE OrderInv'
  OBVIOUS
<1>1. TypeInv /\ TypeInv'
  BY TypeInvNext DEF OrderInv
<1>2. \A c \in Calls : CallOK(c)
  BY DEF OrderInv, CallOK
<1>3. ASSUME NEW c \in Calls, Progress(c) \/ Interrupt(c),
             NEW d \in Calls
      PROVE  CallOK(d)'
  <2>1. CASE d = c
    BY <1>1, <1>2, <1>3, <2>1, MovingCallOK
  <2>2. CASE d # c
    <3>1. /\ pc'[d] = pc[d] /\ pos'[d] = pos[d]
          /\ invoked'[d] = invoked[d] /\ errors'[d] = errors[d]
      BY <1>1, <1>3, <2>2, OnlyOneCallMoves DEF Untouched
    <3> QED
      BY <1>2, <3>1 DEF CallOK, LastInvoked, FailuresRecorded, Exhausted, InPolicyOrder
  <2> QED
    BY <2>1, <2>2
<1>4. ASSUME UNCHANGED vars, NEW d \in Calls PROVE CallOK(d)'
  BY <1>2, <1>4 DEF vars, CallOK, LastInvoked, FailuresRecorded, Exhausted, InPolicyOrder
<1>5. \A d \in Calls : CallOK(d)'
  BY <1>3, <1>4 DEF Next
<1> QED
  BY <1>1, <1>5 DEF OrderInv, CallOK

(* Provider calls are made in the order of the policy, none skipped or     *)
(* repeated, and each failed one is among the errors of the call in its    *)
(* place, whatever the number of calls, candidates and retries.            *)
THEOREM AttemptsInOrder == Safety => []AttemptsInPolicyOrder
<1>1. OrderInv => AttemptsInPolicyOrder
  BY DEF OrderInv, AttemptsInPolicyOrder
<1> QED
  BY <1>1, OrderInvInit, OrderInvNext, PTL DEF Safety

-----------------------------------------------------------------------------
(***************************************************************************)
(* The backoffs.  At an await the backoffs waited out are those of the     *)
(* retries before the attempt at hand; what was waited never changes.      *)
(***************************************************************************)
WaitedBefore(p) == (p.cand - 1) * MaxRetries + p.att

BackoffOfCall(c) ==
    /\ pc[c] = "idle" => slept[c] = <<>>
    /\ AtAwait(c) => Len(slept[c]) = WaitedBefore(pos[c])
    /\ pc[c] = "raised" => Len(slept[c]) = NumCandidates * MaxRetries
    /\ \A n \in 1..NumCandidates, r \in 0..(MaxRetries - 1) :
           Backoff(n, r) <= Len(slept[c]) => slept[c][Backoff(n, r)] = r

BackoffInv == TypeInv /\ \A c \in Calls : BackoffOfCall(c)

(* Multiples of m lie at least m apart.                                    *)
LEMMA MultiplesApart ==
  ASSUME NEW i \in Nat, NEW j \in Nat, NEW m \in Nat, i < j
  PROVE  i * m + m <= j * m
<1>1. PICK k \in Nat : j = i + 1 + k
  <2>1. j - i - 1 \in Nat /\ j = i + 1 + (j - i - 1)
    OBVIOUS
  <2> QED
    BY <2>1
<1>2. (i + 1 + k) * m = i * m + m + k * m
  OBVIOUS
<1>3. k * m \in Nat /\ i * m \in Nat
  OBVIOUS
<1> QED
  BY <1>1, <1>2, <1>3

(* Each backoff has a place of its own, so the next to be waited out is    *)
(* the one of the attempt at hand.                                         *)
LEMMA BackoffPlace ==
  ASSUME NEW p \in Attempts, p.att < MaxRetries,
         NEW n \in 1..NumCandidates, NEW r \in 0..(MaxRetries - 1),
         Backoff(n, r) = WaitedBefore(p) + 1
  PROVE  r = p.att
<1>1. /\ NumCandidates \in Nat /\ MaxRetries \in Nat /\ p.att \in Nat
      /\ n - 1 \in Nat /\ p.cand - 1 \in Nat /\ r \in Nat /\ r < MaxRetries
  BY PolicyAssumption DEF Attempts
<1>2. DEFINE a == (n - 1) * MaxRetries
             b == (p.cand - 1) * MaxRetries
<1>3. a \in Nat /\ b \in Nat /\ a + r = b + p.att
  BY <1>1 DEF Backoff, WaitedBefore
<1>4. /\ n - 1 < p.cand - 1 => a + MaxRetries <= b
      /\ p.cand - 1 < n - 1 => b + MaxRetries <= a
      /\ n - 1 = p.cand - 1 => a = b
  BY <1>1, MultiplesApart
<1> HIDE DEF a, b
<1> QED
  BY <1>1, <1>3, <1>4

(* A move within the policy, in backoffs waited out.                       *)
LEMMA WaitedBeforeMoves ==
  ASSUME NEW p \in Attempts
  PROVE  /\ WaitedBefore(p) \in Nat
         /\ WaitedBefore(NextRetry(p)) = WaitedBefore(p) + 1
         /\ p.att = MaxRetries =>
                WaitedBefore(NextCandidate(p)) = WaitedBefore(p)
         /\ p.att = MaxRetries /\ p.cand = NumCandidates =>
                WaitedBefore(p) = NumCandidates * MaxRetries
<1>1. /\ p.cand - 1 \in Nat /\ p.att \in Nat /\ MaxRetries \in Nat
      /\ p.cand \in Nat
  BY PolicyAssumption DEF Attempts
<1>2. (p.cand - 1) * MaxRetries \in Nat
  BY <1>1
<1>3. (p.cand - 1) * MaxRetries + MaxRetries = p.cand * MaxRetries
  BY <1>1
<1>4. WaitedBefore(p) \in Nat
  BY <1>1, <1>2 DEF WaitedBefore
<1>5. WaitedBefore(NextRetry(p)) = WaitedBefore(p) + 1
  BY <1>1, <1>2 DEF WaitedBefore, NextRetry, Attempts
<1>6. p.att = MaxRetries => WaitedBefore(p) = p.cand * MaxRetries
  BY <1>3 DEF WaitedBefore
<1>7. WaitedBefore(NextCandidate(p)) = p.cand * MaxRetries
  BY <1>1 DEF WaitedBefore, NextCandidate
<1> QED
  BY <1>4, <1>5, <1>6, <1>7

LEMMA BackoffInvInit == Init => BackoffInv
<1> SUFFICES ASSUME Init PROVE BackoffInv
  OBVIOUS
<1>1. ASSUME NEW n \in 1..NumCandidates, NEW r \in 0..(MaxRetries - 1)
      PROVE  ~(Backoff(n, r) <= 0)
  <2>1. n - 1 \in Nat /\ MaxRetries \in Nat /\ r \in Nat
    BY PolicyAssumption
  <2>2. (n - 1) * MaxRetries \in Nat
    BY <2>1
  <2> QED
    BY <2>1, <2>2 DEF Backoff
<1>2. ASSUME NEW c \in Calls PROVE pc[c] = "idle" /\ slept[c] = <<>>
  BY DEF Init
<1>3. ASSUME NEW c \in Calls PROVE BackoffOfCall(c)
  <2>1. Len(slept[c]) = 0 /\ slept[c] = <<>> /\ pc[c] = "idle"
    BY <1>2
  <2> QED
    BY <2>1, <1>1 DEF BackoffOfCall, AtAwait
<1> QED
  BY <1>3, TypeInvInit DEF BackoffInv

(* Nothing but waking up lets a call have waited for more.                 *)
LEMMA BackoffStays ==
  ASSUME NEW d \in Calls, BackoffOfCall(d), slept'[d] = slept[d],
         pc'[d] = "idle" => pc[d] = "idle",
         AtAwait(d)' => Len(slept[d]) = WaitedBefore(pos'[d]),
         pc'[d] = "raised" => Len(slept[d]) = NumCandidates * MaxRetries
  PROVE  BackoffOfCall(d)'
  BY DEF BackoffOfCall, AtAwait, WaitedBefore, Backoff

(* The call that wakes up has waited one backoff more, the one it owed.    *)
LEMMA BackoffAfterWake ==
  ASSUME TypeInv, NEW c \in Calls, BackoffOfCall(c), Wake(c)
  PROVE  BackoffOfCall(c)'
<1> DEFINE l == Len(slept[c])
<1>1. /\ pc[c] = "sleeping" /\ pc'[c] = "calling" /\ pos'[c] = NextRetry(pos[c])
      /\ slept[c] \in Seq(Nat) /\ slept'[c] = Append(slept[c], pos[c].att)
      /\ pos[c] \in Attempts /\ pos[c].att < MaxRetries
  BY DEF Wake, Invoke, Goto, TypeInv, TypeOK, PosOK, AtAwait, BackoffExponent
<1>2. l \in Nat /\ l = WaitedBefore(pos[c])
  BY <1>1 DEF BackoffOfCall, AtAwait
<1>3. /\ Len(slept'[c]) = l + 1 /\ slept'[c][l + 1] = pos[c].att
      /\ \A k \in 1..l : slept'[c][k] = slept[c][k]
  BY <1>1, <1>2
<1>4. Len(slept'[c]) = WaitedBefore(pos'[c])
  BY <1>1, <1>2, <1>3, WaitedBeforeMoves
<1>5. ASSUME NEW n \in 1..NumCandidates, NEW r \in 0..(MaxRetries - 1),
             Backoff(n, r) <= l + 1
      PROVE  slept'[c][Backoff(n, r)] = r
  <2>1. Backoff(n, r) \in Nat \ {0}
    <3>1. n - 1 \in Nat /\ MaxRetries \in Nat /\ r \in Nat
      BY PolicyAssumption
    <3>2. (n - 1) * MaxRetries \in Nat
      BY <3>1
    <3> QED
      BY <3>1, <3>2 DEF Backoff
  <2>2. CASE Backoff(n, r) = l + 1
    BY <2>2, <1>1, <1>2, <1>3, BackoffPlace
  <2>3. CASE Backoff(n, r) <= l
    <3>1. Backoff(n, r) \in 1..l /\ slept[c][Backoff(n, r)] = r
      BY <2>1, <2>3, <1>2 DEF BackoffOfCall
    <3> QED
      BY <3>1, <1>3
  <2> QED
    BY <1>2, <1>5, <2>1, <2>2, <2>3
<1>6. \A n \in 1..NumCandidates, r \in 0..(MaxRetries - 1) :
          Backoff(n, r) <= Len(slept'[c]) => slept'[c][Backoff(n, r)] = r
  BY <1>3, <1>5
<1> QED
  BY <1>1, <1>4, <1>6 DEF BackoffOfCall, AtAwait, WaitedBefore, Backoff

LEMMA MovingBackoffOK ==
  ASSUME TypeInv, NEW c \in Calls, BackoffOfCall(c), Progress(c) \/ Interrupt(c)
  PROVE  BackoffOfCall(c)'
<1> USE DEF TypeInv, TypeOK
<1>0. AtAwait(c) => /\ pos[c] \in Attempts
                    /\ Len(slept[c]) = WaitedBefore(pos[c])
  BY DEF PosOK, BackoffOfCall
<1>1. CASE Start(c) /\ NumCandidates > 0
  <2>1. /\ pc[c] = "idle" /\ pc'[c] = "calling" /\ pos'[c] = FirstAttempt
        /\ slept' = slept
    BY <1>1 DEF Start, Invoke, Goto
  <2>2. Len(slept[c]) = 0
    BY <2>1 DEF BackoffOfCall
  <2>3. WaitedBefore(FirstAttempt) = 0
    <3>1. 0 * MaxRetries = 0
      BY PolicyAssumption
    <3> QED
      BY <3>1 DEF WaitedBefore, FirstAttempt
  <2> QED
    BY <2>1, <2>2, <2>3, BackoffStays
<1>2. CASE Start(c) /\ ~(NumCandidates > 0)
  <2>1. pc[c] = "idle" /\ pc'[c] = "raised" /\ slept' = slept
    BY <1>2 DEF Start, Goto
  <2>2. Len(slept[c]) = 0
    BY <2>1 DEF BackoffOfCall
  <2>3. NumCandidates * MaxRetries = 0
    <3>1. NumCandidates = 0 /\ 0 * MaxRetries = 0
      BY <1>2, PolicyAssumption
    <3> QED
      BY <3>1
  <2> QED
    BY <2>1, <2>2, <2>3, BackoffStays DEF AtAwait
<1>3. CASE RetryLater(c)
  <2>1. AtAwait(c) /\ pc'[c] = "sleeping" /\ pos' = pos /\ slept' = slept
    BY <1>3 DEF RetryLater, Goto, AtAwait
  <2> QED
    BY <2>1, <1>0, BackoffStays
<1>4. CASE FailOver(c)
  <2>1. /\ AtAwait(c) /\ pc'[c] = "calling" /\ pos'[c] = NextCandidate(pos[c])
        /\ slept' = slept /\ LastRetry(pos[c])
    BY <1>4 DEF FailOver, Invoke, Goto, AtAwait
  <2>2. WaitedBefore(pos'[c]) = WaitedBefore(pos[c])
    BY <2>1, <1>0, RetryDecision, WaitedBeforeMoves
  <2> QED
    BY <2>1, <2>2, <1>0, BackoffStays
<1>5. CASE GiveUp(c)
  <2>1. /\ AtAwait(c) /\ pc'[c] = "raised" /\ slept' = slept
        /\ LastRetry(pos[c]) /\ LastCandidate(pos[c])
    BY <1>5 DEF GiveUp, Goto, AtAwait
  <2>2. Len(slept[c]) = NumCandidates * MaxRetries
    BY <2>1, <1>0, RetryDecision, WaitedBeforeMoves DEF LastCandidate
  <2> QED
    BY <2>1, <2>2, BackoffStays DEF AtAwait
<1>6. CASE ProviderAnswers(c)
  <2>1. pc'[c] = "returned" /\ slept' = slept
    BY <1>6 DEF ProviderAnswers, Goto
  <2> QED
    BY <2>1, BackoffStays DEF AtAwait
<1>7. CASE Interrupt(c)
  <2>1. pc'[c] = "cancelled" /\ slept' = slept
    BY <1>7 DEF Interrupt, Cancel, CancelUnstarted, Goto
  <2> QED
    BY <2>1, BackoffStays DEF AtAwait
<1>8. CASE Wake(c)
  BY <1>8, BackoffAfterWake
<1> QED
  BY <1>1, <1>2, <1>3, <1>4, <1>5, <1>6, <1>7, <1>8 DEF Progress, ProviderFails

LEMMA OtherBackoffsKept ==
  ASSUME TypeInv, NEW c \in Calls, Progress(c) \/ Interrupt(c), NEW d \in Calls \ {c}
  PROVE  slept'[d] = slept[d]
<1>1. CASE Wake(c)
  BY <1>1 DEF Wake, TypeInv, TypeOK
<1>2. CASE ~Wake(c)
  BY <1>2 DEF Progress, ProviderFails, Interrupt, Start, ProviderAnswers, RetryLater,
              FailOver, GiveUp, Cancel, CancelUnstarted
<1> QED
  BY <1>1, <1>2

LEMMA BackoffInvNext == BackoffInv /\ [Next]_vars => BackoffInv'
<1> SUFFICES ASSUME BackoffInv, [Next]_vars PROVE BackoffInv'
  OBVIOUS
<1>1. TypeInv /\ TypeInv' /\ \A d \in Calls : BackoffOfCall(d)
  BY TypeInvNext DEF BackoffInv
<1>2. ASSUME NEW c \in Calls, Progress(c) \/ Interrupt(c), NEW d \in Calls
      PROVE  BackoffOfCall(d)'
  <2>1. CASE d = c
    BY <1>1, <1>2, <2>1, MovingBackoffOK
  <2>2. CASE d # c
    <3>1. slept'[d] = slept[d] /\ pc'[d] = pc[d] /\ pos'[d] = pos[d]
      BY <1>1, <1>2, <2>2, OnlyOneCallMoves, OtherBackoffsKept DEF Untouched
    <3> QED
      BY <1>1, <3>1, BackoffStays DEF BackoffOfCall, AtAwait
  <2> QED
    BY <2>1, <2>2
<1>3. ASSUME UNCHANGED vars, NEW d \in Calls PROVE BackoffOfCall(d)'
  BY <1>1, <1>3, BackoffStays DEF vars, BackoffOfCall, AtAwait
<1>4. \A d \in Calls : BackoffOfCall(d)'
  BY <1>2, <1>3 DEF Next
<1> QED
  BY <1>1, <1>4 DEF BackoffInv

(* AllProvidersFailedError means that the policy is exhausted: every       *)
(* attempt has failed, and the backoffs of each candidate, from 2^0 to     *)
(* 2^(max_retries-1), have been waited in this order.                      *)
THEOREM RaisesOnlyExhausted == Safety => []ExhaustedBeforeRaise
<1>1. ASSUME NEW n \in 1..NumCandidates, NEW r \in 0..(MaxRetries - 1)
      PROVE  Backoff(n, r) <= NumCandidates * MaxRetries
  <2>1. /\ NumCandidates \in Nat /\ MaxRetries \in Nat
        /\ n - 1 \in Nat /\ n - 1 < NumCandidates /\ r + 1 <= MaxRetries /\ r \in Nat
    BY PolicyAssumption
  <2>2. (n - 1) * MaxRetries + MaxRetries <= NumCandidates * MaxRetries
    BY <2>1, MultiplesApart
  <2> DEFINE a == (n - 1) * MaxRetries
             b == NumCandidates * MaxRetries
  <2>3. a \in Nat /\ b \in Nat /\ a + MaxRetries <= b /\ Backoff(n, r) = a + r + 1
    BY <2>1, <2>2 DEF Backoff
  <2> HIDE DEF a, b
  <2>4. Backoff(n, r) <= b
    BY <2>1, <2>3
  <2> QED
    BY <2>4 DEF b
<1>2. ASSUME BackoffInv, NEW c \in Calls, pc[c] = "raised" PROVE BackedOff(c)
  BY <1>1, <1>2 DEF BackoffInv, BackoffOfCall, BackedOff
<1>3. OrderInv /\ BackoffInv => ExhaustedBeforeRaise
  BY <1>2 DEF OrderInv, FailuresRecorded, Exhausted, ExhaustedBeforeRaise
<1> QED
  BY <1>3, OrderInvInit, OrderInvNext, BackoffInvInit, BackoffInvNext, PTL DEF Safety

-----------------------------------------------------------------------------
(***************************************************************************)
(* The trace.  What a call shows of itself while it runs: no routing span  *)
(* before its first step, an open one at each await, and one finished span *)
(* per provider call but the one in flight.                                *)
(***************************************************************************)
TraceOfCall(c) ==
    /\ Len(spans[c]) = IF Settled(c) THEN Len(invoked[c])
                                     ELSE Len(errors[c])
                          - (IF pc[c] = "sleeping" THEN 1 ELSE 0)
    /\ \A k \in 1..Len(spans[c]) :
           spans[c][k] = "OK" <=> /\ pc[c] = "returned"
                                  /\ k = Len(invoked[c])
    /\ outer[c] = "OK" <=> pc[c] = "returned"
    /\ outer[c] = "ERROR" <=> \/ pc[c] = "raised"
                              \/ pc[c] = "cancelled" /\ invoked[c] # <<>>

TraceInv == OrderInv /\ \A c \in Calls : TraceOfCall(c)

(* The spans of the calls that an action on c does not touch.              *)
LEMMA OtherTracesKept ==
  ASSUME TypeInv, NEW c \in Calls, Progress(c) \/ Interrupt(c), NEW d \in Calls \ {c}
  PROVE  spans'[d] = spans[d] /\ outer'[d] = outer[d]
<1> USE DEF TypeInv, TypeOK
<1>1. CASE Start(c)
  BY <1>1 DEF Start, SetOuter
<1>2. CASE ProviderAnswers(c)
  BY <1>2 DEF ProviderAnswers, SetOuter, CloseSpan
<1>3. CASE RetryLater(c)
  BY <1>3 DEF RetryLater
<1>4. CASE Wake(c)
  BY <1>4 DEF Wake, CloseSpan
<1>5. CASE FailOver(c)
  BY <1>5 DEF FailOver, CloseSpan
<1>6. CASE GiveUp(c)
  BY <1>6 DEF GiveUp, SetOuter, CloseSpan
<1>7. CASE Cancel(c)
  BY <1>7 DEF Cancel, SetOuter, CloseSpan
<1>8. CASE CancelUnstarted(c)
  BY <1>8 DEF CancelUnstarted
<1> QED
  BY <1>1, <1>2, <1>3, <1>4, <1>5, <1>6, <1>7, <1>8
     DEF Progress, ProviderFails, Interrupt

(* What a call shows depends on its own part of the state only.            *)
LEMMA TraceKept ==
  ASSUME NEW d \in Calls, TraceOfCall(d), spans'[d] = spans[d], outer'[d] = outer[d],
         pc'[d] = pc[d], invoked'[d] = invoked[d], errors'[d] = errors[d]
  PROVE  TraceOfCall(d)'
<1>1. Settled(d)' <=> Settled(d)
  BY DEF Settled
<1>2. (Len(spans[d]) = IF Settled(d) THEN Len(invoked[d])
                                     ELSE Len(errors[d])
                          - (IF pc[d] = "sleeping" THEN 1 ELSE 0))'
  BY <1>1 DEF TraceOfCall
<1>3. ASSUME NEW k \in 1..Len(spans'[d])
      PROVE  spans'[d][k] = "OK" <=> pc'[d] = "returned" /\ k = Len(invoked'[d])
  BY DEF TraceOfCall
<1>4. /\ outer'[d] = "OK" <=> pc'[d] = "returned"
      /\ outer'[d] = "ERROR" <=> \/ pc'[d] = "raised"
                                 \/ pc'[d] = "cancelled" /\ invoked'[d] # <<>>
  BY DEF TraceOfCall
<1> QED
  BY <1>2, <1>3, <1>4 DEF TraceOfCall

(* A span that closes is the last one: it decides nothing about the others.*)
LEMMA SpanCloses ==
  ASSUME NEW s \in Seq({"OK", "ERROR"}), NEW e \in {"OK", "ERROR"},
         \A k \in 1..Len(s) : s[k] # "OK"
  PROVE  /\ Len(Append(s, e)) = Len(s) + 1
         /\ \A k \in 1..(Len(s) + 1) :
                Append(s, e)[k] = "OK" <=> e = "OK" /\ k = Len(s) + 1
<1>1. /\ Len(s) \in Nat /\ Len(Append(s, e)) = Len(s) + 1
      /\ Append(s, e)[Len(s) + 1] = e
      /\ \A k \in 1..Len(s) : Append(s, e)[k] = s[k]
  OBVIOUS
<1>2. ASSUME NEW k \in 1..(Len(s) + 1)
      PROVE  Append(s, e)[k] = "OK" <=> e = "OK" /\ k = Len(s) + 1
  <2>1. CASE k = Len(s) + 1
    BY <1>1, <2>1
  <2>2. CASE k # Len(s) + 1
    <3>1. k \in 1..Len(s)
      BY <1>1, <2>2
    <3> QED
      BY <1>1, <2>2, <3>1
  <2> QED
    BY <2>1, <2>2
<1> QED
  BY <1>1, <1>2

(* Closing the span of the attempt in flight brings the trace level with   *)
(* the provider calls.                                                     *)
LEMMA SpanInFlight ==
  ASSUME TypeInv, NEW c \in Calls, CallOK(c), TraceOfCall(c), AtAwait(c),
         NEW e \in {"OK", "ERROR"}, CloseSpan(c, e)
  PROVE  /\ Len(spans'[c]) = Len(invoked[c]) /\ Len(invoked[c]) \in Nat
         /\ \A k \in 1..Len(spans'[c]) :
                spans'[c][k] = "OK" <=> e = "OK" /\ k = Len(invoked[c])
<1>1. /\ spans[c] \in Seq({"OK", "ERROR"}) /\ spans'[c] = Append(spans[c], e)
      /\ Len(invoked[c]) \in Nat /\ Len(spans[c]) \in Nat
  BY DEF TypeInv, TypeOK, CloseSpan
<1>2. Len(spans[c]) = Len(invoked[c]) - 1 /\ \A k \in 1..Len(spans[c]) : spans[c][k] # "OK"
  <2>1. /\ pc[c] = "calling" => Len(errors[c]) = Len(invoked[c]) - 1
        /\ pc[c] = "sleeping" => Len(errors[c]) = Len(invoked[c])
    BY DEF CallOK, FailuresRecorded
  <2>2. ~Settled(c) /\ pc[c] # "returned"
    BY DEF AtAwait, Settled
  <2>3. /\ Len(spans[c]) = Len(errors[c]) - (IF pc[c] = "sleeping" THEN 1 ELSE 0)
        /\ \A k \in 1..Len(spans[c]) : spans[c][k] # "OK"
    BY <2>2 DEF TraceOfCall
  <2>4. CASE pc[c] = "calling"
    BY <1>1, <2>1, <2>3, <2>4
  <2>5. CASE pc[c] = "sleeping"
    <3>1. Len(spans[c]) = Len(errors[c]) - 1
      BY <2>3, <2>5
    <3> QED
      BY <2>1, <2>3, <2>5, <3>1
  <2> QED
    BY <2>4, <2>5 DEF AtAwait
<1>3. Len(spans[c]) + 1 = Len(invoked[c])
  BY <1>1, <1>2
<1> QED
  BY <1>1, <1>2, <1>3, SpanCloses

(* A call that has not begun shows nothing.                                *)
LEMMA IdleTrace ==
  ASSUME TypeInv, NEW c \in Calls, CallOK(c), TraceOfCall(c), pc[c] = "idle"
  PROVE  /\ invoked[c] = <<>> /\ Len(errors[c]) = 0 /\ Len(spans[c]) = 0
         /\ outer[c] # "OK" /\ outer[c] # "ERROR"
<1>1. invoked[c] = <<>> /\ Len(errors[c]) = 0
  <2>1. invoked[c] = <<>> /\ Len(errors[c]) = Len(invoked[c])
    BY DEF CallOK, LastInvoked, FailuresRecorded
  <2> QED
    BY <2>1
<1>2. Len(spans[c]) = Len(errors[c]) - 0
  BY DEF TraceOfCall, Settled
<1>3. outer[c] # "OK" /\ outer[c] # "ERROR"
  BY DEF TraceOfCall
<1> QED
  BY <1>1, <1>2, <1>3

(* The call that moves keeps its trace true.                               *)
LEMMA MovingTraceOK ==
  ASSUME TypeInv, TypeInv', NEW c \in Calls, CallOK(c), CallOK(c)',
         TraceOfCall(c), Progress(c) \/ Interrupt(c)
  PROVE  TraceOfCall(c)'
<1>0. /\ invoked \in [Calls -> Seq(Attempts)] /\ errors \in [Calls -> Seq(Attempts)]
      /\ spans \in [Calls -> Seq({"OK", "ERROR"})]
      /\ outer \in [Calls -> {"none", "open", "OK", "ERROR"}]
      /\ pc \in [Calls -> {"idle", "calling", "sleeping",
                           "returned", "raised", "cancelled"}]
      /\ Len(invoked[c]) \in Nat /\ Len(errors[c]) \in Nat /\ Len(spans[c]) \in Nat
  BY DEF TypeInv, TypeOK
<1>1. CASE Start(c)
  <2>1. pc[c] = "idle" /\ spans'[c] = spans[c] /\ errors'[c] = errors[c]
    BY <1>1 DEF Start
  <2>2. invoked[c] = <<>> /\ Len(errors[c]) = 0 /\ Len(spans[c]) = 0
    BY <1>0, <2>1, IdleTrace
  <2>3. \/ pc'[c] = "calling" /\ outer'[c] = "open"
        \/ pc'[c] = "raised" /\ outer'[c] = "ERROR" /\ invoked'[c] = invoked[c]
    BY <1>0, <1>1 DEF Start, Goto, SetOuter, Invoke
  <2>4. /\ Len(errors'[c]) = 0 /\ Len(spans'[c]) = 0
        /\ pc'[c] = "raised" => Len(invoked'[c]) = 0
    BY <2>1, <2>2, <2>3
  <2>5. CASE pc'[c] = "calling"
    BY <2>3, <2>4, <2>5 DEF TraceOfCall, Settled
  <2>6. CASE pc'[c] = "raised"
    BY <2>3, <2>4, <2>6 DEF TraceOfCall, Settled
  <2> QED
    BY <2>3, <2>5, <2>6
<1>2. CASE ProviderAnswers(c)
  <2>1. /\ pc'[c] = "returned" /\ outer'[c] = "OK" /\ invoked'[c] = invoked[c]
        /\ AtAwait(c) /\ CloseSpan(c, "OK")
    BY <1>0, <1>2 DEF ProviderAnswers, Goto, SetOuter, AtAwait
  <2>2. /\ Len(spans'[c]) = Len(invoked[c])
        /\ \A k \in 1..Len(spans'[c]) : spans'[c][k] = "OK" <=> k = Len(invoked[c])
    BY <2>1, SpanInFlight
  <2> QED
    BY <2>1, <2>2 DEF TraceOfCall, Settled
<1>3. CASE RetryLater(c)
  <2>1. /\ pc[c] = "calling" /\ pc'[c] = "sleeping" /\ outer'[c] = outer[c]
        /\ invoked'[c] = invoked[c] /\ spans'[c] = spans[c]
        /\ Len(errors'[c]) = Len(errors[c]) + 1
    BY <1>0, <1>3 DEF RetryLater, Goto, RecordError
  <2> QED
    BY <1>0, <2>1 DEF TraceOfCall, Settled
<1>4. CASE Wake(c) \/ FailOver(c)
  <2>1. /\ AtAwait(c) /\ pc'[c] = "calling" /\ outer'[c] = outer[c]
        /\ CloseSpan(c, "ERROR") /\ Len(invoked'[c]) = Len(invoked[c]) + 1
    BY <1>0, <1>4 DEF Wake, FailOver, Invoke, Goto, AtAwait
  <2>2. /\ Len(spans'[c]) = Len(invoked[c])
        /\ \A k \in 1..Len(spans'[c]) : spans'[c][k] # "OK"
    BY <2>1, SpanInFlight
  <2>3. Len(errors'[c]) = Len(invoked[c])
    BY <1>0, <2>1 DEF CallOK, FailuresRecorded
  <2>4. outer'[c] # "OK" /\ outer'[c] # "ERROR"
    BY <2>1 DEF AtAwait, TraceOfCall
  <2> QED
    BY <1>0, <2>1, <2>2, <2>3, <2>4 DEF TraceOfCall, Settled
<1>5. CASE GiveUp(c) \/ Cancel(c)
  <2>1. /\ AtAwait(c) /\ pc'[c] \in {"raised", "cancelled"} /\ outer'[c] = "ERROR"
        /\ invoked'[c] = invoked[c] /\ CloseSpan(c, "ERROR")
    BY <1>0, <1>5 DEF GiveUp, Cancel, Goto, SetOuter, AtAwait
  <2>2. /\ Len(spans'[c]) = Len(invoked[c])
        /\ \A k \in 1..Len(spans'[c]) : spans'[c][k] # "OK"
    BY <2>1, SpanInFlight
  <2>3. invoked[c] # <<>>
    BY <2>1 DEF AtAwait, CallOK, LastInvoked
  <2> QED
    BY <2>1, <2>2, <2>3 DEF TraceOfCall, Settled
<1>6. CASE CancelUnstarted(c)
  <2>1. /\ pc[c] = "idle" /\ pc'[c] = "cancelled" /\ outer'[c] = outer[c]
        /\ invoked'[c] = invoked[c] /\ spans'[c] = spans[c]
    BY <1>0, <1>6 DEF CancelUnstarted, Goto
  <2>2. invoked[c] = <<>> /\ Len(spans[c]) = 0 /\ outer[c] # "OK" /\ outer[c] # "ERROR"
    BY <1>0, <2>1, IdleTrace
  <2> QED
    BY <2>1, <2>2 DEF TraceOfCall, Settled
<1> QED
  BY <1>1, <1>2, <1>3, <1>4, <1>5, <1>6 DEF Progress, ProviderFails, Interrupt

LEMMA TraceInvInit == Init => TraceInv
  BY OrderInvInit DEF Init, TraceInv, TraceOfCall, Settled

LEMMA TraceInvNext == TraceInv /\ [Next]_vars => TraceInv'
<1> SUFFICES ASSUME TraceInv, [Next]_vars PROVE TraceInv'
  OBVIOUS
<1>1. /\ OrderInv /\ OrderInv' /\ TypeInv /\ TypeInv'
      /\ \A c \in Calls : CallOK(c) /\ CallOK(c)' /\ TraceOfCall(c)
  BY OrderInvNext DEF TraceInv, OrderInv, CallOK
<1>2. ASSUME NEW c \in Calls, Progress(c) \/ Interrupt(c), NEW d \in Calls
      PROVE  TraceOfCall(d)'
  <2>1. CASE d = c
    BY <1>1, <1>2, <2>1, MovingTraceOK
  <2>2. CASE d # c
    <3>1. spans'[d] = spans[d] /\ outer'[d] = outer[d]
      BY <1>1, <1>2, <2>2, OtherTracesKept
    <3>2. pc'[d] = pc[d] /\ invoked'[d] = invoked[d] /\ errors'[d] = errors[d]
      BY <1>1, <1>2, <2>2, OnlyOneCallMoves DEF Untouched
    <3> QED
      BY <1>1, <3>1, <3>2, TraceKept
  <2> QED
    BY <2>1, <2>2
<1>3. ASSUME UNCHANGED vars, NEW d \in Calls PROVE TraceOfCall(d)'
  BY <1>1, <1>3, TraceKept DEF vars
<1>4. \A d \in Calls : TraceOfCall(d)'
  BY <1>2, <1>3 DEF Next
<1> QED
  BY <1>1, <1>4 DEF TraceInv

(* The spans of a call tell what its caller sees: one span per provider    *)
(* call, only the one that answered is OK, and the routing span ends as    *)
(* the call does, however it fails, fails over, or is cancelled.           *)
THEOREM TraceTellsOutcome == Safety => []TraceMatchesOutcome
<1>1. TraceInv => TraceMatchesOutcome
  BY DEF TraceInv, TraceOfCall, TraceMatchesOutcome
<1> QED
  BY <1>1, TraceInvInit, TraceInvNext, PTL DEF Safety

-----------------------------------------------------------------------------
(***************************************************************************)
(* Refinement: the steps of a call are the steps that Completion allows.   *)
(***************************************************************************)
LEMMA PositionBound ==
  ASSUME NEW p \in Attempts
  PROVE  Position(p) <= NumCandidates * (MaxRetries + 1)
<1>1. /\ NumCandidates \in Nat /\ MaxRetries + 1 \in Nat
      /\ p.cand \in 1..NumCandidates /\ p.att \in 0..MaxRetries
  BY PolicyAssumption DEF Attempts
<1>2. p.cand * (MaxRetries + 1) <= NumCandidates * (MaxRetries + 1)
  <2> DEFINE d == NumCandidates - p.cand
  <2>1. d \in Nat /\ NumCandidates = p.cand + d
    BY <1>1
  <2>2. d * (MaxRetries + 1) \in Nat
    BY <1>1, <2>1
  <2>3. \A x, y, r \in Nat : (x + y) * r = x * r + y * r
    OBVIOUS
  <2>4. (p.cand + d) * (MaxRetries + 1)
          = p.cand * (MaxRetries + 1) + d * (MaxRetries + 1)
    BY <1>1, <2>1, <2>3
  <2>5. p.cand * (MaxRetries + 1) \in Nat
    BY <1>1
  <2> HIDE DEF d
  <2> QED
    BY <2>1, <2>2, <2>4, <2>5
<1>3. p.cand * (MaxRetries + 1) = (p.cand - 1) * (MaxRetries + 1) + (MaxRetries + 1)
  BY <1>1
<1>4. p.att + 1 <= MaxRetries + 1 /\ p.att \in Nat /\ MaxRetries \in Nat
  BY <1>1, PolicyAssumption
<1>5. Position(p) = (p.cand - 1) * (MaxRetries + 1) + p.att + 1
  BY DEF Position
<1> DEFINE start == (p.cand - 1) * (MaxRetries + 1)
           end == p.cand * (MaxRetries + 1)
           budget == NumCandidates * (MaxRetries + 1)
<1>6. /\ start \in Int /\ end \in Int /\ budget \in Int
      /\ end = start + (MaxRetries + 1) /\ end <= budget
      /\ Position(p) = start + p.att + 1
  BY <1>1, <1>2, <1>3, <1>5
<1>7. Position(p) <= budget
  <2> HIDE DEF start, end, budget
  <2> QED
    BY <1>4, <1>6
<1> QED
  BY <1>7

(* The call keeps its outcome and makes no provider call.                  *)
LEMMA StutterStep ==
  ASSUME TypeInv, NEW c \in Calls, Untouched(c), TypeInv',
         invoked'[c] = invoked[c], Outcome(c)' = Outcome(c)
  PROVE  UNCHANGED Promise!vars
<1>1. \A d \in Calls : Outcome(d)' = Outcome(d) /\ invoked'[d] = invoked[d]
  BY DEF Untouched, Outcome
<1> QED
  BY <1>1 DEF Promise!vars

LEMMA AttemptStep ==
  ASSUME OrderInv, TypeInv', NEW c \in Calls, Untouched(c),
         NEW p \in Attempts, Invoke(c, p), ~Settled(c),
         Position(p) = Len(invoked[c]) + 1
  PROVE  Promise!Attempt(c)
<1>1. /\ invoked \in [Calls -> Seq(Attempts)] /\ invoked' \in [Calls -> Seq(Attempts)]
      /\ pc \in [Calls -> {"idle", "calling", "sleeping", "returned", "raised", "cancelled"}]
      /\ invoked'[c] = Append(invoked[c], p) /\ pc'[c] = "calling"
  BY DEF OrderInv, TypeInv, TypeOK, Invoke, Goto
<1>2. Len(invoked'[c]) = Len(invoked[c]) + 1 /\ Len(invoked[c]) \in Nat
  BY <1>1
<1>3. Len(invoked[c]) < NumCandidates * (MaxRetries + 1)
  <2>1. NumCandidates * (MaxRetries + 1) \in Nat
    BY PolicyAssumption
  <2> QED
    BY <1>2, <2>1, PositionBound
<1>4. Outcome(c) = "pending" /\ Outcome(c)' = "pending"
  BY <1>1 DEF Settled, Outcome
<1>5. \A d \in Calls : Outcome(d)' = Outcome(d)
  BY <1>4 DEF Untouched, Outcome
<1>6. \A d \in Calls \ {c} : Len(invoked'[d]) = Len(invoked[d])
  BY DEF Untouched
<1> QED
  BY <1>2, <1>3, <1>4, <1>5, <1>6 DEF Promise!Attempt

LEMMA SettleStep ==
  ASSUME TypeInv, TypeInv', NEW c \in Calls, Untouched(c), ~Settled(c),
         invoked'[c] = invoked[c],
         NEW o, Outcome(c)' = o
  PROVE  Promise!Settle(c, o)
<1>1. pc[c] \in {"idle", "calling", "sleeping"}
  BY DEF TypeInv, TypeOK, Settled
<1>2. Outcome(c) = "pending"
  BY <1>1 DEF Outcome
<1>3. \A d \in Calls \ {c} : Outcome(d)' = Outcome(d) /\ invoked'[d] = invoked[d]
  BY DEF Untouched, Outcome
<1> QED
  BY <1>2, <1>3 DEF Promise!Settle

LEMMA FailStep ==
  ASSUME OrderInv, OrderInv', NEW c \in Calls, Untouched(c),
         pc[c] \in {"idle", "calling"}, pc'[c] = "raised",
         invoked'[c] = invoked[c]
  PROVE  Promise!Fail(c)
<1>1. TypeInv /\ TypeInv' /\ Exhausted(c)'
  BY DEF OrderInv
<1>2. Len(invoked[c]) = NumCandidates * (MaxRetries + 1)
  BY <1>1 DEF Exhausted
<1>3. Outcome(c)' = "failed" /\ ~Settled(c)
  BY DEF Outcome, Settled
<1>4. Promise!Settle(c, "failed")
  BY <1>1, <1>3, SettleStep
<1> QED
  BY <1>2, <1>4 DEF Promise!Fail

LEMMA PromiseStep ==
  ASSUME OrderInv, OrderInv', [Next]_vars
  PROVE  [Promise!Next]_(Promise!vars)
<1>0. TypeInv /\ TypeInv' /\ \A c \in Calls : CallOK(c) /\ CallOK(c)'
  BY DEF OrderInv, CallOK
<1>1. ASSUME NEW c \in Calls, Start(c), NumCandidates > 0
      PROVE  Promise!Attempt(c)
  <2>1. /\ pc[c] = "idle" /\ Invoke(c, FirstAttempt) /\ FirstAttempt \in Attempts
        /\ invoked[c] = <<>>
    BY <1>0, <1>1, FirstAttemptType DEF Start, CallOK, LastInvoked
  <2>2. Untouched(c)
    BY <1>0, <1>1, OnlyOneCallMoves DEF Progress
  <2> QED
    BY <1>0, <2>1, <2>2, AttemptStep, PositionFirst DEF Settled
<1>2. ASSUME NEW c \in Calls, Wake(c) PROVE Promise!Attempt(c)
  <2>1. /\ pc[c] = "sleeping" /\ Invoke(c, NextRetry(pos[c])) /\ pos[c] \in Attempts
        /\ NextRetry(pos[c]) \in Attempts /\ Len(invoked[c]) = Position(pos[c])
    BY <1>0, <1>2, AttemptMoves
       DEF Wake, CallOK, LastInvoked, TypeInv, PosOK, AtAwait
  <2>2. Untouched(c)
    BY <1>0, <1>2, OnlyOneCallMoves DEF Progress
  <2> QED
    BY <1>0, <2>1, <2>2, AttemptStep, PositionRetry DEF Settled
<1>3. ASSUME NEW c \in Calls, FailOver(c) PROVE Promise!Attempt(c)
  <2>1. /\ pc[c] = "calling" /\ Invoke(c, NextCandidate(pos[c]))
        /\ pos[c] \in Attempts /\ Len(invoked[c]) = Position(pos[c])
        /\ pos[c].att = MaxRetries /\ pos[c].cand < NumCandidates
    BY <1>0, <1>3, RetryDecision
       DEF FailOver, CallOK, LastInvoked, TypeInv, PosOK, AtAwait
  <2>2. Untouched(c)
    BY <1>0, <1>3, OnlyOneCallMoves DEF Progress, ProviderFails
  <2> QED
    BY <1>0, <2>1, <2>2, AttemptStep, AttemptMoves, PositionCandidate DEF Settled
<1>4. ASSUME NEW c \in Calls, RetryLater(c) PROVE UNCHANGED Promise!vars
  <2>1. /\ pc[c] = "calling" /\ pc'[c] = "sleeping" /\ invoked'[c] = invoked[c]
    BY <1>0, <1>4 DEF RetryLater, Goto, TypeInv, TypeOK
  <2>2. Outcome(c)' = Outcome(c)
    BY <2>1 DEF Outcome
  <2>3. Untouched(c)
    BY <1>0, <1>4, OnlyOneCallMoves DEF Progress, ProviderFails
  <2> QED
    BY <1>0, <2>1, <2>2, <2>3, StutterStep
<1>5. ASSUME NEW c \in Calls, ProviderAnswers(c) PROVE Promise!Answer(c)
  <2>1. /\ pc[c] = "calling" /\ pc'[c] = "returned" /\ invoked'[c] = invoked[c]
        /\ Len(invoked[c]) > 0
    BY <1>0, <1>5 DEF ProviderAnswers, Goto, TypeInv, TypeOK, CallOK, LastInvoked
  <2>2. Outcome(c)' = "answered"
    BY <2>1 DEF Outcome
  <2>3. Untouched(c)
    BY <1>0, <1>5, OnlyOneCallMoves DEF Progress
  <2>4. Promise!Settle(c, "answered")
    BY <1>0, <2>1, <2>2, <2>3, SettleStep DEF Settled
  <2> QED
    BY <2>1, <2>4 DEF Promise!Answer
<1>6. ASSUME NEW c \in Calls, GiveUp(c) PROVE Promise!Fail(c)
  <2>1. pc[c] = "calling" /\ pc'[c] = "raised" /\ invoked'[c] = invoked[c]
    BY <1>0, <1>6 DEF GiveUp, Goto, TypeInv, TypeOK
  <2> QED
    BY <1>0, <1>6, <2>1, OnlyOneCallMoves, FailStep DEF Progress, ProviderFails
<1>9. ASSUME NEW c \in Calls, Start(c), ~(NumCandidates > 0)
      PROVE  Promise!Fail(c)
  <2>1. pc[c] = "idle" /\ pc'[c] = "raised" /\ invoked'[c] = invoked[c]
    BY <1>0, <1>9 DEF Start, Goto, TypeInv, TypeOK
  <2> QED
    BY <1>0, <1>9, <2>1, OnlyOneCallMoves, FailStep DEF Progress
<1>7. ASSUME NEW c \in Calls, Interrupt(c) PROVE Promise!Cancel(c)
  <2>1. /\ pc[c] \in {"idle", "calling", "sleeping"} /\ pc'[c] = "cancelled"
        /\ invoked'[c] = invoked[c]
    BY <1>0, <1>7 DEF Interrupt, Cancel, CancelUnstarted, Goto, TypeInv, TypeOK
  <2>2. Outcome(c)' = "cancelled"
    BY <2>1 DEF Outcome
  <2>3. Untouched(c)
    BY <1>0, <1>7, OnlyOneCallMoves
  <2>4. Promise!Settle(c, "cancelled")
    BY <1>0, <2>1, <2>2, <2>3, SettleStep DEF Settled
  <2> QED
    BY <2>4 DEF Promise!Cancel
<1>8. CASE UNCHANGED vars
  BY <1>8 DEF vars, Outcome, Promise!vars
<1>10. ASSUME NEW c \in Calls, Start(c) PROVE Promise!Progress(c)
  BY <1>1, <1>9, <1>10 DEF Promise!Progress
<1>11. ASSUME NEW c \in Calls, Progress(c)
       PROVE  Promise!Progress(c) \/ UNCHANGED Promise!vars
  BY <1>2, <1>3, <1>4, <1>5, <1>6, <1>10, <1>11
     DEF Progress, ProviderFails, Promise!Progress
<1> QED
  BY <1>7, <1>8, <1>11 DEF Next, Promise!Next

LEMMA PromiseInit == Init => Promise!Init
  BY DEF Init, Outcome, Promise!Init

(* Router.complete keeps the promise of Completion: settled once, at most  *)
(* Budget provider calls, failure only when the budget is spent.           *)
THEOREM RouterImplementsPromise == Safety => Promise!Safety
  BY PromiseInit, PromiseStep, OrderInvInit, OrderInvNext, PTL
     DEF Safety, Promise!Safety

-----------------------------------------------------------------------------
(***************************************************************************)
(* Batcher.                                                                *)
(***************************************************************************)
(* A step of the batch is a step of one of its router calls, or none.      *)
LEMMA BatchStepIsRouterStep == [BatchNext]_batchVars => [Next]_vars
<1> SUFFICES ASSUME [BatchNext]_batchVars PROVE [Next]_vars
  OBVIOUS
<1>1. ASSUME NEW c \in Calls, RequestStep(c) PROVE Next
  BY <1>1 DEF RequestStep, Next, Interrupt
<1>2. ASSUME NEW c \in Calls, ChildCancelled(c) PROVE Next
  BY <1>2 DEF ChildCancelled, Next
<1>3. CASE RequestCancel \/ Collect \/ CollectCancelled
  BY <1>3 DEF RequestCancel, Collect, CollectCancelled
<1>4. CASE BatchDone \/ UNCHANGED batchVars
  BY <1>4 DEF BatchDone, batchVars, vars
<1> QED
  BY <1>1, <1>2, <1>3, <1>4 DEF BatchNext

LEMMA BatchInitIsRouterInit == BatchInit => Init
  BY DEF BatchInit

(* Within a batch, the requests are calls of the router: what holds of its *)
(* every behaviour holds of each batch.                                    *)
THEOREM BatchIsRouter == BatchSafety => Safety
  BY BatchInitIsRouterInit, BatchStepIsRouterStep, PTL DEF BatchSafety, Safety

(* Every reachable state of a batch is well typed.                         *)
THEOREM BatchTypeCorrect == BatchSafety => []TypeOK
  BY BatchIsRouter, TypeCorrect, PTL

-----------------------------------------------------------------------------
(* The results are those of the router calls because a settled call is     *)
(* never disturbed again; so the invariant is inductive with OrderInv.     *)
BatchInv == OrderInv /\ ResultsTellEveryRequest

(* A settled call has no step left.                                        *)
LEMMA SettledStaysSettled ==
  ASSUME OrderInv, NEW c \in Calls, Settled(c)
  PROVE  ~(Progress(c) \/ Interrupt(c))
  BY DEF Settled, Progress, ProviderFails, Start, ProviderAnswers, RetryLater,
         FailOver, GiveUp, Wake, Interrupt, Cancel, CancelUnstarted

LEMMA SettledOutcome ==
  ASSUME OrderInv, NEW c \in Calls, Settled(c)
  PROVE  /\ Outcome(c) # "pending"
         /\ Outcome(c) = "failed" =>
               Len(invoked[c]) = NumCandidates * (MaxRetries + 1)
<1>1. pc[c] = "raised" => Len(invoked[c]) = NumCandidates * (MaxRetries + 1)
  BY DEF OrderInv, Exhausted
<1> QED
  BY <1>1 DEF Settled, Outcome

LEMMA ResultsStayTrue ==
  ASSUME BatchInv, [BatchNext]_batchVars
  PROVE  ResultsTellEveryRequest'
<1>1. OrderInv
  BY DEF BatchInv
<1>2. ASSUME NEW c \in Calls, RequestStep(c) \/ ChildCancelled(c)
      PROVE  ResultsTellEveryRequest'
  BY <1>2 DEF RequestStep, ChildCancelled, ResultsTellEveryRequest, BatchOver
<1>3. CASE RequestCancel
  BY <1>3 DEF RequestCancel, ResultsTellEveryRequest, BatchOver
<1>4. CASE Collect
  <2>1. /\ AllSettled /\ UNCHANGED vars /\ batch' = "returned"
        /\ results' = [c \in Calls |-> Outcome(c)]
    BY <1>4 DEF Collect
  <2>2. \A c \in Calls : Outcome(c)' = Outcome(c) /\ invoked'[c] = invoked[c]
    BY <2>1 DEF vars, Outcome
  <2>3. AllSettled'
    BY <2>1 DEF AllSettled, Settled, vars
  <2>4. ASSUME NEW c \in Calls
        PROVE  /\ results'[c] = Outcome(c)'
               /\ results'[c] # "pending"
               /\ results'[c] = "failed" =>
                     Len(invoked'[c]) = NumCandidates * (MaxRetries + 1)
    BY <1>1, <2>1, <2>2, SettledOutcome DEF AllSettled
  <2> QED
    BY <2>1, <2>3, <2>4 DEF ResultsTellEveryRequest
<1>5. CASE CollectCancelled
  <2>1. AllSettled /\ UNCHANGED vars /\ batch' = "cancelled"
    BY <1>5 DEF CollectCancelled
  <2>2. AllSettled'
    BY <2>1 DEF AllSettled, Settled, vars
  <2> QED
    BY <2>1, <2>2 DEF ResultsTellEveryRequest
<1>6. CASE BatchDone \/ UNCHANGED batchVars
  <2>1. UNCHANGED batchVars
    BY <1>6 DEF BatchDone
  <2>2. \A c \in Calls : Outcome(c)' = Outcome(c)
    BY <2>1 DEF batchVars, Outcome
  <2>3. BatchOver => AllSettled'
    BY <2>1 DEF BatchInv, ResultsTellEveryRequest, AllSettled, Settled, batchVars
  <2> QED
    BY <2>1, <2>2, <2>3 DEF batchVars, BatchInv, ResultsTellEveryRequest, BatchOver
<1> QED
  BY <1>1, <1>2, <1>3, <1>4, <1>5, <1>6 DEF BatchNext

LEMMA BatchInvNext == BatchInv /\ [BatchNext]_batchVars => BatchInv'
  BY ResultsStayTrue, BatchStepIsRouterStep, OrderInvNext DEF BatchInv

LEMMA BatchInvInit == BatchInit => BatchInv
  BY OrderInvInit DEF BatchInit, BatchInv, ResultsTellEveryRequest, BatchOver

(* A batch that is over has left no request running, and its results say   *)
(* how every request ended, for any number of requests.                    *)
THEOREM BatchTellsEveryRequest == BatchSafety => []ResultsTellEveryRequest
<1>1. BatchInv => ResultsTellEveryRequest
  BY DEF BatchInv
<1> QED
  BY <1>1, BatchInvInit, BatchInvNext, PTL DEF BatchSafety

(* A cancelled batch makes no further provider call.                       *)
THEOREM CancelledBatchIsSilent == BatchSafety => CancelStopsProviderCalls
<1>1. [BatchNext]_batchVars
        => [batch = "cancelling" => UNCHANGED invoked]_batchVars
  <2> SUFFICES ASSUME BatchNext, batch = "cancelling" PROVE UNCHANGED invoked
    OBVIOUS
  <2> QED
    BY DEF BatchNext, RequestStep, RequestCancel, ChildCancelled, Interrupt,
           Cancel, CancelUnstarted, Collect, CollectCancelled, BatchDone,
           BatchOver, batchVars, vars
<1> QED
  BY <1>1, PTL DEF BatchSafety, CancelStopsProviderCalls

-----------------------------------------------------------------------------
(***************************************************************************)
(* CompletionCache: what is stored is tidy.  Keys are distinct, entries    *)
(* stand in the order of their last use, and each holds what was last set  *)
(* for its key.                                                            *)
(***************************************************************************)
Distinct(s) == \A a, b \in 1..Len(s) : s[a].key = s[b].key => a = b

(* j stands before k in r.                                                 *)
Earlier(r, j, k) == \E x, y \in 1..Len(r) : x < y /\ r[x] = j /\ r[y] = k

(* The entries of s stand in the order in which r names their keys.        *)
OrderedBy(s, r) ==
    /\ \A a \in 1..Len(s) : \E x \in 1..Len(r) : r[x] = s[a].key
    /\ \A a, b \in 1..Len(s) : a < b => Earlier(r, s[a].key, s[b].key)

(* What is stored for a key is what was last set for it.                   *)
StoresLatest ==
    \A a \in 1..Len(store) : /\ latest[store[a].key] \in Settings
                             /\ latest[store[a].key].resp = store[a].resp
                             /\ latest[store[a].key].exp = store[a].exp

Bounded(s) == MaxSize = Unbounded \/ Len(s) <= MaxSize

Tidy == /\ store \in Seq(Entries) /\ recency \in Seq(Keys)
        /\ latest \in [Keys -> Settings \cup {Nothing}]
        /\ Distinct(store) /\ Bounded(store) /\ OrderedBy(store, recency)
        /\ StoresLatest

CacheInv == CacheTypeOK /\ Tidy

-----------------------------------------------------------------------------
(* Sequences.                                                              *)

LEMMA RemoveAtFacts ==
  ASSUME NEW S, NEW s \in Seq(S), NEW p \in 1..Len(s)
  PROVE  /\ RemoveAt(s, p) \in Seq(S)
         /\ Len(RemoveAt(s, p)) = Len(s) - 1
         /\ \A a \in 1..Len(s) - 1 : RemoveAt(s, p)[a] = s[IF a < p THEN a ELSE a + 1]
<1> DEFINE before == SubSeq(s, 1, p - 1)
           after == SubSeq(s, p + 1, Len(s))
<1>1. Len(s) \in Nat /\ p \in Nat /\ \A a \in 1..Len(s) : s[a] \in S
  OBVIOUS
<1>2. /\ before \in Seq(S) /\ Len(before) = p - 1
      /\ \A a \in 1..p - 1 : before[a] = s[a]
  <2>1. \A a \in 1..p - 1 : s[a] \in S
    BY <1>1
  <2>2. /\ SubSeq(s, 1, p - 1) \in Seq(S)
        /\ Len(SubSeq(s, 1, p - 1)) = IF 1 <= p - 1 THEN (p - 1) - 1 + 1 ELSE 0
        /\ \A a \in 1..((p - 1) - 1 + 1) : SubSeq(s, 1, p - 1)[a] = s[1 + a - 1]
    BY <1>1, <2>1, SubSeqProperties
  <2> QED
    BY <1>1, <2>2
<1>3. /\ after \in Seq(S) /\ Len(after) = Len(s) - p
      /\ \A a \in 1..Len(s) - p : after[a] = s[p + a]
  <2>1. \A a \in (p + 1)..Len(s) : s[a] \in S
    BY <1>1
  <2>2. /\ SubSeq(s, p + 1, Len(s)) \in Seq(S)
        /\ Len(SubSeq(s, p + 1, Len(s)))
             = IF p + 1 <= Len(s) THEN Len(s) - (p + 1) + 1 ELSE 0
        /\ \A a \in 1..(Len(s) - (p + 1) + 1) :
              SubSeq(s, p + 1, Len(s))[a] = s[(p + 1) + a - 1]
    BY <1>1, <2>1, SubSeqProperties
  <2> QED
    BY <1>1, <2>2
<1>4. RemoveAt(s, p) = before \o after
  BY DEF RemoveAt
<1> HIDE DEF before, after
<1>5. /\ before \o after \in Seq(S)
      /\ Len(before \o after) = Len(before) + Len(after)
      /\ \A a \in 1..Len(before) + Len(after) :
            (before \o after)[a] = IF a <= Len(before) THEN before[a]
                                   ELSE after[a - Len(before)]
  BY <1>2, <1>3, ConcatProperties
<1>6. \A a \in 1..Len(s) - 1 : RemoveAt(s, p)[a] = s[IF a < p THEN a ELSE a + 1]
  <2> SUFFICES ASSUME NEW a \in 1..Len(s) - 1
               PROVE  (before \o after)[a] = s[IF a < p THEN a ELSE a + 1]
    BY <1>4
  <2>1. (before \o after)[a] = IF a <= p - 1 THEN before[a] ELSE after[a - (p - 1)]
    BY <1>1, <1>2, <1>3, <1>5
  <2> QED
    BY <1>1, <1>2, <1>3, <2>1
<1> QED
  BY <1>1, <1>2, <1>3, <1>4, <1>5, <1>6

(* w has the elements of s but the one at p, in their order.               *)
KeepsAllBut(s, p, w) ==
    /\ \A a \in 1..Len(w) : \E x \in 1..Len(s) : x # p /\ w[a] = s[x]
    /\ \A a, b \in 1..Len(w) : a < b =>
         \E x, y \in 1..Len(s) : x < y /\ w[a] = s[x] /\ w[b] = s[y]
    /\ \A x \in 1..Len(s) : x # p => \E a \in 1..Len(w) : w[a] = s[x]
    /\ \A x, y \in 1..Len(s) : x < y /\ x # p /\ y # p =>
         \E a, b \in 1..Len(w) : a < b /\ w[a] = s[x] /\ w[b] = s[y]

LEMMA RemoveAtKeepsOrder ==
  ASSUME NEW S, NEW s \in Seq(S), NEW p \in 1..Len(s)
  PROVE  KeepsAllBut(s, p, RemoveAt(s, p))
<1> DEFINE w == RemoveAt(s, p)
           from(a) == IF a < p THEN a ELSE a + 1
           to(x) == IF x < p THEN x ELSE x - 1
<1>1. /\ Len(s) \in Nat /\ Len(w) = Len(s) - 1 /\ p \in Nat
      /\ \A a \in 1..Len(w) : w[a] = s[from(a)]
  <2>1. /\ Len(w) = Len(s) - 1
        /\ \A a \in 1..Len(s) - 1 : w[a] = s[from(a)]
    BY RemoveAtFacts
  <2> QED
    BY <2>1
<1> HIDE DEF w
<1>2. \A a \in 1..Len(w) : from(a) \in 1..Len(s) /\ from(a) # p
  BY <1>1
<1>3. \A a, b \in 1..Len(w) : a < b => from(a) < from(b)
  BY <1>1
<1>4. \A x \in 1..Len(s) : x # p => to(x) \in 1..Len(w) /\ from(to(x)) = x
  BY <1>1
<1>5. \A x, y \in 1..Len(s) : x < y /\ x # p /\ y # p => to(x) < to(y)
  BY <1>1
<1> HIDE DEF from, to
<1>6. \A x \in 1..Len(s) : x # p => w[to(x)] = s[x]
  BY <1>1, <1>4
<1> QED
  BY <1>1, <1>2, <1>3, <1>4, <1>5, <1>6 DEF KeepsAllBut, w

LEMMA PositionFacts ==
  ASSUME NEW s \in Seq(Entries), NEW k \in StoredKeys(s)
  PROVE  PositionOf(s, k) \in 1..Len(s) /\ s[PositionOf(s, k)].key = k
<1>1. \E a \in DOMAIN s : s[a].key = k
  BY DEF StoredKeys, Range
<1> QED
  BY <1>1 DEF PositionOf

LEMMA StoredKeysFacts ==
  ASSUME NEW s \in Seq(Entries)
  PROVE  \A k : k \in StoredKeys(s) <=> \E a \in 1..Len(s) : s[a].key = k
  BY DEF StoredKeys, Range

(* w has the entries of s but the one of k, in their order.                *)
LeavesOut(s, k, w) ==
    /\ w \in Seq(Entries) /\ Len(w) <= Len(s)
    /\ k \in StoredKeys(s) => Len(w) = Len(s) - 1
    /\ \A a \in 1..Len(w) : w[a].key # k /\ \E x \in 1..Len(s) : w[a] = s[x]
    /\ \A a, b \in 1..Len(w) : a < b =>
         \E x, y \in 1..Len(s) : x < y /\ w[a] = s[x] /\ w[b] = s[y]
    /\ \A x \in 1..Len(s) : s[x].key # k => \E a \in 1..Len(w) : w[a] = s[x]

LEMMA WithoutFacts ==
  ASSUME NEW s \in Seq(Entries), Distinct(s), NEW k
  PROVE  LeavesOut(s, k, Without(s, k))
<1> DEFINE w == Without(s, k)
<1>1. CASE k \in StoredKeys(s)
  <2> DEFINE p == PositionOf(s, k)
  <2>1. p \in 1..Len(s) /\ s[p].key = k /\ w = RemoveAt(s, p)
    BY <1>1, PositionFacts DEF Without
  <2> HIDE DEF p, w
  <2>2. w \in Seq(Entries) /\ Len(w) = Len(s) - 1
    BY <2>1, RemoveAtFacts
  <2>3. KeepsAllBut(s, p, w)
    BY <2>1, RemoveAtKeepsOrder
  <2>4. \A x \in 1..Len(s) : x # p => s[x].key # k
    BY <2>1 DEF Distinct
  <2>5. \A a \in 1..Len(w) : w[a].key # k
    <3> SUFFICES ASSUME NEW a \in 1..Len(w) PROVE w[a].key # k
      OBVIOUS
    <3>1. PICK x \in 1..Len(s) : x # p /\ w[a] = s[x]
      BY <2>3 DEF KeepsAllBut
    <3> QED
      BY <2>4, <3>1
  <2>6. \A x \in 1..Len(s) : s[x].key # k => x # p
    BY <2>1
  <2> QED
    BY <2>2, <2>3, <2>5, <2>6 DEF KeepsAllBut, LeavesOut, w
<1>2. CASE k \notin StoredKeys(s)
  <2>1. w = s /\ \A a \in 1..Len(s) : s[a].key # k
    BY <1>2, StoredKeysFacts DEF Without
  <2> HIDE DEF w
  <2> QED
    BY <1>2, <2>1 DEF LeavesOut, w
<1> QED
  BY <1>1, <1>2

(* Using a key puts it last, and leaves the other keys in their order.     *)
LEMMA UsedFacts ==
  ASSUME NEW r \in Seq(Keys), NEW k \in Keys
  PROVE  LET q == Append(Others(r, k), k)
         IN  /\ q \in Seq(Keys) /\ Len(q) \in 1..Len(r) + 1 /\ q[Len(q)] = k
             /\ \A x \in 1..Len(r) : r[x] # k => Earlier(q, r[x], k)
             /\ \A i, j : Earlier(r, i, j) /\ i # k /\ j # k => Earlier(q, i, j)
<1> DEFINE w == Others(r, k)
           q == Append(w, k)
<1>1. /\ w \in Seq(Keys) /\ Len(w) <= Len(r)
      /\ \A x \in 1..Len(r) : r[x] # k => \E a \in 1..Len(w) : w[a] = r[x]
      /\ \A x, y \in 1..Len(r) : x < y /\ r[x] # k /\ r[y] # k =>
            \E a, b \in 1..Len(w) : a < b /\ w[a] = r[x] /\ w[b] = r[y]
  <2>1. CASE k \in Range(r)
    <3> DEFINE p == CHOOSE a \in DOMAIN r : r[a] = k
    <3>1. p \in 1..Len(r) /\ r[p] = k /\ w = RemoveAt(r, p)
      BY <2>1 DEF Others, Range
    <3> HIDE DEF p, w
    <3>2. w \in Seq(Keys) /\ Len(w) = Len(r) - 1 /\ Len(r) \in Nat
      BY <3>1, RemoveAtFacts
    <3>3. KeepsAllBut(r, p, w)
      BY <3>1, RemoveAtKeepsOrder
    <3>4. \A x \in 1..Len(r) : r[x] # k => x # p
      BY <3>1
    <3>5. \A x \in 1..Len(r) : r[x] # k => \E a \in 1..Len(w) : w[a] = r[x]
      BY <3>3, <3>4 DEF KeepsAllBut
    <3>6. \A x, y \in 1..Len(r) : x < y /\ r[x] # k /\ r[y] # k =>
             \E a, b \in 1..Len(w) : a < b /\ w[a] = r[x] /\ w[b] = r[y]
      BY <3>3, <3>4 DEF KeepsAllBut
    <3> QED
      BY <3>2, <3>5, <3>6
  <2>2. CASE k \notin Range(r)
    <3>1. w = r
      BY <2>2 DEF Others
    <3> HIDE DEF w
    <3> QED
      BY <3>1
  <2> QED
    BY <2>1, <2>2
<1> HIDE DEF w
<1>2. /\ q \in Seq(Keys) /\ Len(q) = Len(w) + 1 /\ q[Len(q)] = k
      /\ \A a \in 1..Len(w) : q[a] = w[a]
      /\ Len(w) \in Nat /\ Len(r) \in Nat
  BY <1>1
<1> HIDE DEF q
<1>3. \A x \in 1..Len(r) : r[x] # k => Earlier(q, r[x], k)
  <2> SUFFICES ASSUME NEW x \in 1..Len(r), r[x] # k PROVE Earlier(q, r[x], k)
    OBVIOUS
  <2>1. PICK a \in 1..Len(w) : w[a] = r[x]
    BY <1>1
  <2>2. a \in 1..Len(q) /\ Len(q) \in 1..Len(q) /\ a < Len(q)
    BY <1>2
  <2> QED
    BY <1>2, <2>1, <2>2 DEF Earlier
<1>4. ASSUME NEW i, NEW j, Earlier(r, i, j), i # k, j # k PROVE Earlier(q, i, j)
  <2>1. PICK x, y \in 1..Len(r) : x < y /\ r[x] = i /\ r[y] = j
    BY <1>4 DEF Earlier
  <2>2. PICK a, b \in 1..Len(w) : a < b /\ w[a] = r[x] /\ w[b] = r[y]
    BY <1>1, <1>4, <2>1
  <2>3. a \in 1..Len(q) /\ b \in 1..Len(q) /\ q[a] = i /\ q[b] = j
    BY <1>2, <2>1, <2>2
  <2> QED
    BY <2>2, <2>3 DEF Earlier
<1>5. Len(q) \in 1..Len(r) + 1
  BY <1>1, <1>2
<1> QED
  BY <1>2, <1>3, <1>4, <1>5 DEF q, w

(* t has e at the end, in the place of the entry of its key in s.          *)
Places(s, e, t) ==
    /\ t \in Seq(Entries) /\ Distinct(t) /\ Len(t) > 0 /\ t[Len(t)] = e
    /\ e.key \in StoredKeys(s) => Len(t) = Len(s)
    /\ \A a \in 1..Len(t) : t[a] = e \/ \E x \in 1..Len(s) : t[a] = s[x]
    /\ \A x \in 1..Len(s) : s[x].key # e.key => \E a \in 1..Len(t) : t[a] = s[x]

LEMMA PutLast ==
  ASSUME NEW s \in Seq(Entries), NEW r \in Seq(Keys), Distinct(s), OrderedBy(s, r),
         NEW e \in Entries
  PROVE  /\ Places(s, e, Append(Without(s, e.key), e))
         /\ OrderedBy(Append(Without(s, e.key), e), Append(Others(r, e.key), e.key))
<1> DEFINE k == e.key
           w == Without(s, k)
           t == Append(w, e)
           q == Append(Others(r, k), k)
<1>1. k \in Keys /\ e.key = k
  BY DEF Entries
<1>2. /\ w \in Seq(Entries) /\ Len(w) <= Len(s)
      /\ k \in StoredKeys(s) => Len(w) = Len(s) - 1
      /\ \A a \in 1..Len(w) : w[a].key # k /\ \E x \in 1..Len(s) : w[a] = s[x]
      /\ \A a, b \in 1..Len(w) : a < b =>
           \E x, y \in 1..Len(s) : x < y /\ w[a] = s[x] /\ w[b] = s[y]
      /\ \A x \in 1..Len(s) : s[x].key # k => \E a \in 1..Len(w) : w[a] = s[x]
  BY WithoutFacts DEF LeavesOut
<1>3. /\ q \in Seq(Keys) /\ Len(q) \in 1..Len(r) + 1 /\ q[Len(q)] = k
      /\ \A x \in 1..Len(r) : r[x] # k => Earlier(q, r[x], k)
      /\ \A i, j : Earlier(r, i, j) /\ i # k /\ j # k => Earlier(q, i, j)
  BY <1>1, UsedFacts
<1> HIDE DEF w, q, k
<1>4. /\ t \in Seq(Entries) /\ Len(t) = Len(w) + 1 /\ t[Len(t)] = e
      /\ \A a \in 1..Len(w) : t[a] = w[a]
      /\ Len(w) \in Nat /\ Len(s) \in Nat
  BY <1>2
<1> HIDE DEF t
<1>5. \A a \in 1..Len(t) : a \in 1..Len(w) \/ a = Len(t)
  BY <1>4
<1>6. Distinct(t)
  <2> SUFFICES ASSUME NEW a \in 1..Len(t), NEW b \in 1..Len(t), a < b, t[a].key = t[b].key
               PROVE  FALSE
    BY <1>4 DEF Distinct
  <2>1. a \in 1..Len(w) /\ t[a] = w[a]
    BY <1>4, <1>5
  <2>2. CASE b = Len(t)
    BY <1>1, <1>2, <1>4, <2>1, <2>2
  <2>3. CASE b \in 1..Len(w)
    <3>1. PICK x, y \in 1..Len(s) : x < y /\ w[a] = s[x] /\ w[b] = s[y]
      BY <1>2, <2>1, <2>3
    <3>2. t[b] = w[b] /\ s[x].key = s[y].key
      BY <1>4, <2>1, <2>3, <3>1
    <3> QED
      BY <3>1, <3>2 DEF Distinct
  <2> QED
    BY <1>5, <2>2, <2>3
<1>7. ASSUME NEW a \in 1..Len(w) PROVE Earlier(q, t[a].key, k)
  <2>1. PICK x \in 1..Len(s) : w[a] = s[x]
    BY <1>2
  <2>2. PICK z \in 1..Len(r) : r[z] = s[x].key
    BY DEF OrderedBy
  <2>3. r[z] # k /\ t[a].key = r[z]
    BY <1>2, <1>4, <2>1, <2>2
  <2> QED
    BY <1>3, <2>3
<1>8. OrderedBy(t, q)
  <2>1. ASSUME NEW a \in 1..Len(t) PROVE \E x \in 1..Len(q) : q[x] = t[a].key
    <3>1. CASE a \in 1..Len(w)
      BY <1>7, <3>1 DEF Earlier
    <3>2. CASE a = Len(t)
      BY <1>1, <1>3, <1>4, <3>2
    <3> QED
      BY <1>5, <3>1, <3>2
  <2>2. ASSUME NEW a \in 1..Len(t), NEW b \in 1..Len(t), a < b
        PROVE  Earlier(q, t[a].key, t[b].key)
    <3>1. a \in 1..Len(w)
      BY <1>4, <1>5, <2>2
    <3>2. CASE b = Len(t)
      BY <1>1, <1>4, <1>7, <3>1, <3>2
    <3>3. CASE b \in 1..Len(w)
      <4>1. PICK x, y \in 1..Len(s) : x < y /\ w[a] = s[x] /\ w[b] = s[y]
        BY <1>2, <2>2, <3>1, <3>3
      <4>2. Earlier(r, s[x].key, s[y].key)
        BY <4>1 DEF OrderedBy
      <4>3. t[a].key = s[x].key /\ t[b].key = s[y].key
        BY <1>4, <3>1, <3>3, <4>1
      <4>4. s[x].key # k /\ s[y].key # k
        BY <1>2, <3>1, <3>3, <4>1
      <4> QED
        BY <1>3, <4>2, <4>3, <4>4
    <3> QED
      BY <1>5, <3>2, <3>3
  <2> QED
    BY <2>1, <2>2 DEF OrderedBy
<1>9. ASSUME NEW a \in 1..Len(t) PROVE t[a] = e \/ \E x \in 1..Len(s) : t[a] = s[x]
  <2>1. CASE a = Len(t)
    BY <1>4, <2>1
  <2>2. CASE a \in 1..Len(w)
    <3>1. PICK x \in 1..Len(s) : w[a] = s[x]
      BY <1>2, <2>2
    <3>2. t[a] = w[a]
      BY <1>4, <2>2
    <3> QED
      BY <3>1, <3>2
  <2> QED
    BY <1>5, <2>1, <2>2
<1>10. \A x \in 1..Len(s) : s[x].key # k => \E a \in 1..Len(t) : t[a] = s[x]
  <2> SUFFICES ASSUME NEW x \in 1..Len(s), s[x].key # k PROVE \E a \in 1..Len(t) : t[a] = s[x]
    OBVIOUS
  <2>1. PICK a \in 1..Len(w) : w[a] = s[x]
    BY <1>2
  <2> QED
    BY <1>4, <2>1
<1>11. (k \in StoredKeys(s) => Len(t) = Len(s)) /\ Len(t) > 0
  BY <1>2, <1>4
<1> QED
  BY <1>4, <1>6, <1>8, <1>9, <1>10, <1>11 DEF Places, t, w, q, k

(* Eviction leaves the end of the sequence, within the bound.              *)
LEMMA EvictFacts ==
  ASSUME NEW s \in Seq(Entries), NEW r, Distinct(s), OrderedBy(s, r)
  PROVE  LET t == EvictOldest(s)
             d == Len(s) - Len(t)
         IN  /\ t \in Seq(Entries) /\ Distinct(t) /\ OrderedBy(t, r) /\ Bounded(t)
             /\ d \in 0..Len(s)
             /\ \A a \in 1..Len(t) : a + d \in 1..Len(s) /\ t[a] = s[a + d]
             /\ d > 0 => MaxSize \in Nat \ {Unbounded} /\ Len(t) = MaxSize
<1> DEFINE t == EvictOldest(s)
           d == Len(s) - Len(t)
<1>1. /\ t \in Seq(Entries) /\ Bounded(t) /\ d \in 0..Len(s)
      /\ \A a \in 1..Len(t) : a + d \in 1..Len(s) /\ t[a] = s[a + d]
      /\ d > 0 => MaxSize \in Nat \ {Unbounded} /\ Len(t) = MaxSize
  <2>1. CASE MaxSize = Unbounded \/ Len(s) <= MaxSize
    <3>1. t = s
      BY <2>1 DEF EvictOldest
    <3> HIDE DEF t
    <3> QED
      BY <2>1, <3>1 DEF Bounded
  <2>2. CASE ~(MaxSize = Unbounded \/ Len(s) <= MaxSize)
    <3> DEFINE m == Len(s) - MaxSize + 1
    <3>1. MaxSize \in Nat /\ Len(s) \in Nat /\ Len(s) > MaxSize /\ t = SubSeq(s, m, Len(s))
      BY <2>2, CacheAssumption DEF EvictOldest
    <3>2. /\ SubSeq(s, m, Len(s)) \in Seq(Entries)
          /\ Len(SubSeq(s, m, Len(s))) = IF m <= Len(s) THEN Len(s) - m + 1 ELSE 0
          /\ \A a \in 1..(Len(s) - m + 1) : SubSeq(s, m, Len(s))[a] = s[m + a - 1]
      <4>1. m \in Int /\ Len(s) \in Int /\ \A a \in m..Len(s) : s[a] \in Entries
        BY <3>1
      <4> HIDE DEF m
      <4> QED
        BY <4>1, SubSeqProperties
    <3> HIDE DEF t
    <3>3. Len(t) = MaxSize /\ t \in Seq(Entries)
      BY <3>1, <3>2
    <3>4. \A a \in 1..Len(t) : t[a] = s[m + a - 1]
      BY <3>1, <3>2, <3>3
    <3>5. Len(s) - Len(t) \in 1..Len(s) /\ MaxSize # Unbounded
      BY <2>2, <3>1, <3>3
    <3>6. \A a \in 1..Len(t) :
             a + (Len(s) - Len(t)) \in 1..Len(s) /\ t[a] = s[a + (Len(s) - Len(t))]
      BY <3>1, <3>3, <3>4
    <3> QED
      BY <3>1, <3>3, <3>5, <3>6 DEF Bounded
  <2> QED
    BY <2>1, <2>2
<1> HIDE DEF t
<1>2. Len(t) \in Nat /\ Len(s) \in Nat /\ d \in Nat
  BY <1>1
<1> HIDE DEF d
<1>3. Distinct(t)
  <2> SUFFICES ASSUME NEW a \in 1..Len(t), NEW b \in 1..Len(t), t[a].key = t[b].key
               PROVE  a = b
    BY DEF Distinct
  <2>1. /\ a + d \in 1..Len(s) /\ b + d \in 1..Len(s)
        /\ s[a + d].key = s[b + d].key
    BY <1>1
  <2>2. a + d = b + d
    BY <2>1 DEF Distinct
  <2> QED
    BY <1>2, <2>2
<1>4. OrderedBy(t, r)
  <2>1. \A a \in 1..Len(t) : \E x \in 1..Len(r) : r[x] = t[a].key
    BY <1>1 DEF OrderedBy
  <2>2. ASSUME NEW a \in 1..Len(t), NEW b \in 1..Len(t), a < b
        PROVE  Earlier(r, t[a].key, t[b].key)
    <3>1. a + d < b + d /\ a + d \in 1..Len(s) /\ b + d \in 1..Len(s)
      BY <1>1, <1>2, <2>2
    <3> QED
      BY <1>1, <3>1 DEF OrderedBy
  <2> QED
    BY <2>1, <2>2 DEF OrderedBy
<1> QED
  BY <1>1, <1>3, <1>4 DEF t, d

-----------------------------------------------------------------------------
(***************************************************************************)
(* The operations of the cache.                                            *)
(***************************************************************************)
LEMMA GetHitKeeps ==
  ASSUME CacheInv, NEW k \in Keys, GetHit(k), UNCHANGED latest
  PROVE  /\ Tidy' /\ StoredKeys(store) \subseteq StoredKeys(store')
         /\ latest[k] \in Settings /\ now <= latest[k].exp
         /\ EntryOf(store, k).resp = latest[k].resp
         /\ EntryOf(store, k).resp \in Responses
<1> DEFINE e == EntryOf(store, k)
           p == PositionOf(store, k)
<1>1. k \in StoredKeys(store) /\ ~Expired(e) /\ store' = MoveToEnd(store, k)
      /\ recency' = Append(Others(recency, k), k)
  BY DEF GetHit, Hits, Used
<1>2. store \in Seq(Entries) /\ recency \in Seq(Keys) /\ Distinct(store)
      /\ OrderedBy(store, recency) /\ now \in Nat /\ StoresLatest /\ Bounded(store)
  BY DEF CacheInv, Tidy, CacheTypeOK
<1>3. p \in 1..Len(store) /\ store[p].key = k /\ e = store[p]
  BY <1>1, <1>2, PositionFacts DEF EntryOf
<1> HIDE DEF e, p
<1>4. e \in Entries /\ e.key = k /\ store' = Append(Without(store, e.key), e)
      /\ recency' = Append(Others(recency, e.key), e.key)
  BY <1>1, <1>2, <1>3 DEF MoveToEnd, e
<1>5. Places(store, e, store') /\ OrderedBy(store', recency')
  BY <1>2, <1>4, PutLast
<1>6. /\ store' \in Seq(Entries) /\ Distinct(store') /\ Len(store') = Len(store)
      /\ \A a \in 1..Len(store') :
            store'[a] = e \/ \E x \in 1..Len(store) : store'[a] = store[x]
      /\ \A x \in 1..Len(store) : store[x].key # k =>
            \E a \in 1..Len(store') : store'[a] = store[x]
      /\ store'[Len(store')] = e /\ Len(store') > 0
  BY <1>1, <1>4, <1>5 DEF Places
<1>7. recency' \in Seq(Keys)
  BY <1>1, <1>2, UsedFacts
<1>8. Bounded(store')
  BY <1>2, <1>6 DEF Bounded
<1>9. StoresLatest'
  <2>1. \A a \in 1..Len(store') : \E x \in 1..Len(store) : store'[a] = store[x]
    BY <1>3, <1>6
  <2> QED
    BY <1>2, <2>1 DEF StoresLatest
<1>10. StoredKeys(store) \subseteq StoredKeys(store')
  <2> SUFFICES ASSUME NEW j \in StoredKeys(store) PROVE \E a \in 1..Len(store') : store'[a].key = j
    BY <1>6, StoredKeysFacts
  <2>1. PICK x \in 1..Len(store) : store[x].key = j
    BY <1>2, StoredKeysFacts
  <2>2. CASE j = k
    BY <1>4, <1>6, <2>2
  <2>3. CASE j # k
    BY <1>6, <2>1, <2>3
  <2> QED
    BY <2>2, <2>3
<1>11. latest[k] \in Settings /\ now <= latest[k].exp /\ e.resp = latest[k].resp
       /\ e.resp \in Responses
  <2>1. latest[k] \in Settings /\ e.resp = latest[k].resp /\ e.exp = latest[k].exp
    BY <1>2, <1>3 DEF StoresLatest
  <2>2. e.exp \in Nat /\ e.resp \in Responses
    BY <1>4, CacheAssumption DEF Entries, Times
  <2> QED
    BY <1>1, <1>2, <2>1, <2>2 DEF Expired
<1>12. Tidy'
  BY <1>5, <1>6, <1>7, <1>8, <1>9 DEF CacheInv, Tidy
<1> QED
  BY <1>10, <1>11, <1>12 DEF e

LEMMA GetMissKeeps ==
  ASSUME CacheInv, NEW k \in Keys, GetMiss(k), UNCHANGED latest
  PROVE  /\ Tidy'
         /\ \A j \in StoredKeys(store) \ StoredKeys(store') : Expired(EntryOf(store, j))
<1>1. store' = Without(store, k) /\ recency' = recency /\ ~Hits(k)
  BY DEF GetMiss
<1>2. store \in Seq(Entries) /\ recency \in Seq(Keys) /\ Distinct(store)
      /\ OrderedBy(store, recency) /\ StoresLatest /\ Bounded(store)
  BY DEF CacheInv, Tidy
<1>3. LeavesOut(store, k, store')
  BY <1>1, <1>2, WithoutFacts
<1>4. /\ store' \in Seq(Entries) /\ Len(store') <= Len(store)
      /\ \A a \in 1..Len(store') :
            store'[a].key # k /\ \E x \in 1..Len(store) : store'[a] = store[x]
      /\ \A a, b \in 1..Len(store') : a < b =>
           \E x, y \in 1..Len(store) : x < y /\ store'[a] = store[x] /\ store'[b] = store[y]
      /\ \A x \in 1..Len(store) : store[x].key # k =>
            \E a \in 1..Len(store') : store'[a] = store[x]
  BY <1>3 DEF LeavesOut
<1>5. Len(store) \in Nat /\ Len(store') \in Nat
  BY <1>2, <1>4
<1>6. Distinct(store')
  <2> SUFFICES ASSUME NEW a \in 1..Len(store'), NEW b \in 1..Len(store'), a < b,
                      store'[a].key = store'[b].key
               PROVE  FALSE
    BY <1>5 DEF Distinct
  <2>1. PICK x, y \in 1..Len(store) : x < y /\ store'[a] = store[x] /\ store'[b] = store[y]
    BY <1>4
  <2>2. store[x].key = store[y].key
    BY <2>1
  <2>3. x = y
    BY <1>2, <2>2 DEF Distinct
  <2> QED
    BY <1>5, <2>1, <2>3
<1>7. OrderedBy(store', recency)
  <2>1. ASSUME NEW a \in 1..Len(store')
        PROVE  \E x \in 1..Len(recency) : recency[x] = store'[a].key
    <3>1. PICK y \in 1..Len(store) : store'[a] = store[y]
      BY <1>4
    <3> QED
      BY <1>2, <3>1 DEF OrderedBy
  <2>2. ASSUME NEW a \in 1..Len(store'), NEW b \in 1..Len(store'), a < b
        PROVE  Earlier(recency, store'[a].key, store'[b].key)
    <3>1. PICK x, y \in 1..Len(store) : x < y /\ store'[a] = store[x] /\ store'[b] = store[y]
      BY <1>4, <2>2
    <3>2. Earlier(recency, store[x].key, store[y].key)
      BY <1>2, <3>1 DEF OrderedBy
    <3> QED
      BY <3>1, <3>2
  <2> QED
    BY <2>1, <2>2 DEF OrderedBy
<1>8. Bounded(store')
  <2>1. CASE MaxSize = Unbounded
    BY <2>1 DEF Bounded
  <2>2. CASE MaxSize \in Nat
    BY <1>2, <1>4, <1>5, <2>2 DEF Bounded
  <2> QED
    BY <2>1, <2>2, CacheAssumption
<1>9. StoresLatest'
  <2> SUFFICES ASSUME NEW a \in 1..Len(store')
               PROVE  /\ latest[store'[a].key] \in Settings
                      /\ latest[store'[a].key].resp = store'[a].resp
                      /\ latest[store'[a].key].exp = store'[a].exp
    BY DEF StoresLatest
  <2>1. PICK x \in 1..Len(store) : store'[a] = store[x]
    BY <1>4
  <2> QED
    BY <1>2, <2>1 DEF StoresLatest
<1>10. ASSUME NEW j \in StoredKeys(store) \ StoredKeys(store') PROVE Expired(EntryOf(store, j))
  <2>1. j = k
    <3>1. PICK x \in 1..Len(store) : store[x].key = j
      BY <1>2, StoredKeysFacts
    <3>2. \A a \in 1..Len(store') : store'[a].key # j
      BY <1>4, StoredKeysFacts
    <3> QED
      BY <1>4, <3>1, <3>2
  <2> QED
    BY <1>1, <2>1 DEF Hits
<1>11. Tidy'
  BY <1>1, <1>2, <1>4, <1>6, <1>7, <1>8, <1>9 DEF CacheInv, Tidy
<1> QED
  BY <1>10, <1>11

(* j was used after k, and may be last used by this very step.             *)
LaterUsed(j, k) == \E a, b \in DOMAIN recency' :
                       recency'[a] = k /\ recency'[b] = j /\ a < b

LEMMA SetKeeps ==
  ASSUME CacheInv, NEW k \in Keys, NEW r \in Responses, Set(k, r)
  PROVE  /\ Tidy'
         /\ latest' = [latest EXCEPT ![k] = [resp |-> r, exp |-> now + TTL]]
         /\ [resp |-> r, exp |-> now + TTL] \in Settings
         /\ \A j \in StoredKeys(store) \ StoredKeys(store'), i \in StoredKeys(store') :
               LaterUsed(i, j)
         /\ \A j \in (StoredKeys(store) \cup {k}) \ StoredKeys(store') :
               MaxSize \in Nat \ {Unbounded} /\ Len(store') = MaxSize /\ (j = k => MaxSize = 0)
<1> DEFINE e == [key |-> k, resp |-> r, exp |-> now + TTL]
           t == Append(Without(store, k), e)
           d == Len(t) - Len(store')
<1>1. now + TTL \in Times /\ now \in Nat
  BY CacheAssumption DEF CacheInv, CacheTypeOK, Times
<1>2. e \in Entries /\ e.key = k /\ e.resp = r /\ e.exp = now + TTL
      /\ [resp |-> r, exp |-> now + TTL] \in Settings
  BY <1>1 DEF Entries, Settings
<1>3. store' = EvictOldest(t) /\ recency' = Append(Others(recency, k), k)
      /\ latest' = [latest EXCEPT ![k] = [resp |-> r, exp |-> now + TTL]]
  BY DEF Set, Used, Assign
<1>4. store \in Seq(Entries) /\ recency \in Seq(Keys) /\ Distinct(store)
      /\ OrderedBy(store, recency) /\ StoresLatest /\ latest \in [Keys -> Settings \cup {Nothing}]
  BY DEF CacheInv, Tidy
<1> HIDE DEF e
<1>5. Places(store, e, t) /\ OrderedBy(t, recency')
  BY <1>2, <1>3, <1>4, PutLast
<1>6. /\ t \in Seq(Entries) /\ Distinct(t) /\ OrderedBy(t, recency')
      /\ \A a \in 1..Len(t) : t[a] = e \/ \E x \in 1..Len(store) : t[a] = store[x]
      /\ \A x \in 1..Len(store) : store[x].key # k => \E a \in 1..Len(t) : t[a] = store[x]
      /\ t[Len(t)] = e /\ Len(t) > 0
  BY <1>2, <1>5 DEF Places
<1>7. recency' \in Seq(Keys)
  BY <1>3, <1>4, UsedFacts
<1> HIDE DEF t
<1>8. /\ store' \in Seq(Entries) /\ Distinct(store') /\ OrderedBy(store', recency')
      /\ Bounded(store') /\ d \in 0..Len(t)
      /\ \A a \in 1..Len(store') : a + d \in 1..Len(t) /\ store'[a] = t[a + d]
      /\ d > 0 => MaxSize \in Nat \ {Unbounded} /\ Len(store') = MaxSize
  BY <1>3, <1>6, EvictFacts
<1>9. Len(t) \in Nat /\ Len(store') \in Nat /\ d = Len(t) - Len(store')
  BY <1>6, <1>8
<1> HIDE DEF d
<1>10. StoresLatest'
  <2> SUFFICES ASSUME NEW a \in 1..Len(store')
               PROVE  /\ latest'[store'[a].key] \in Settings
                      /\ latest'[store'[a].key].resp = store'[a].resp
                      /\ latest'[store'[a].key].exp = store'[a].exp
    BY DEF StoresLatest
  <2>1. PICK b \in 1..Len(t) : store'[a] = t[b]
    BY <1>8
  <2>2. CASE t[b].key = k
    <3>1. b = Len(t)
      BY <1>2, <1>6, <1>9, <2>2 DEF Distinct
    <3>2. store'[a] = e
      BY <1>6, <2>1, <3>1
    <3>3. latest'[k] = [resp |-> r, exp |-> now + TTL]
      BY <1>3, <1>4
    <3> QED
      BY <1>2, <3>2, <3>3
  <2>3. CASE t[b].key # k
    <3>1. PICK x \in 1..Len(store) : t[b] = store[x]
      BY <1>2, <1>6, <2>3
    <3>2. latest'[store[x].key] = latest[store[x].key]
      BY <1>3, <1>4, <2>3, <3>1 DEF Entries
    <3> QED
      BY <1>4, <2>1, <3>1, <3>2 DEF StoresLatest
  <2> QED
    BY <2>2, <2>3
<1>11. latest' \in [Keys -> Settings \cup {Nothing}]
  BY <1>2, <1>3, <1>4
<1>12. ASSUME NEW j \in StoredKeys(store) \ StoredKeys(store'), NEW i \in StoredKeys(store')
       PROVE  LaterUsed(i, j)
  <2>1. PICK a \in 1..Len(store') : store'[a].key = i
    BY <1>8, StoredKeysFacts
  <2>2. PICK b \in 1..Len(t) : t[b].key = j
    <3>1. PICK x \in 1..Len(store) : store[x].key = j
      BY <1>4, StoredKeysFacts
    <3>2. CASE j = k
      BY <1>2, <1>6, <1>9, <3>2
    <3>3. CASE j # k
      BY <1>6, <3>1, <3>3
    <3> QED
      BY <3>2, <3>3
  <2>3. b <= d
    <3> SUFFICES ASSUME b > d PROVE FALSE
      BY <1>8, <1>9
    <3>1. b - d \in 1..Len(store') /\ (b - d) + d = b
      BY <1>8, <1>9
    <3>2. store'[b - d] = t[b]
      BY <1>8, <3>1
    <3> QED
      BY <1>8, <2>2, <3>1, <3>2, StoredKeysFacts
  <2>4. a + d \in 1..Len(t) /\ b < a + d /\ t[a + d].key = i
    BY <1>8, <1>9, <2>1, <2>3
  <2>5. Earlier(recency', j, i)
    BY <1>6, <2>2, <2>4 DEF OrderedBy
  <2> QED
    BY <1>7, <2>5 DEF Earlier, LaterUsed
<1>13. Tidy'
  BY <1>7, <1>8, <1>10, <1>11 DEF Tidy
<1>14. ASSUME NEW j \in (StoredKeys(store) \cup {k}) \ StoredKeys(store')
       PROVE  MaxSize \in Nat \ {Unbounded} /\ Len(store') = MaxSize /\ (j = k => MaxSize = 0)
  <2>1. PICK b \in 1..Len(t) : t[b].key = j
    <3>1. CASE j = k
      BY <1>2, <1>6, <1>9, <3>1
    <3>2. CASE j # k
      <4>1. PICK x \in 1..Len(store) : store[x].key = j
        BY <1>4, <3>2, StoredKeysFacts
      <4> QED
        BY <1>6, <3>2, <4>1
    <3> QED
      BY <3>1, <3>2
  <2>2. ASSUME NEW a \in 1..Len(store') PROVE store'[a].key # j
    BY <1>8, StoredKeysFacts
  <2>3. d > 0
    <3> SUFFICES ASSUME d = 0 PROVE FALSE
      BY <1>8, <1>9
    <3>1. b \in 1..Len(store') /\ b + d = b
      BY <1>9, <2>1
    <3>2. store'[b] = t[b]
      BY <1>8, <3>1
    <3> QED
      BY <2>1, <2>2, <3>1, <3>2
  <2>4. j = k => Len(store') = 0
    <3> SUFFICES ASSUME j = k, Len(store') > 0 PROVE FALSE
      BY <1>9
    <3>1. Len(store') \in 1..Len(store') /\ Len(store') + d = Len(t)
      BY <1>9
    <3>2. store'[Len(store')] = e
      BY <1>6, <1>8, <3>1
    <3> QED
      BY <1>2, <2>2, <3>1, <3>2
  <2> QED
    BY <1>8, <2>3, <2>4
<1> QED
  BY <1>2, <1>3, <1>12, <1>13, <1>14

LEMMA EmptyIsTidy ==
  ASSUME NEW r \in Seq(Keys)
  PROVE  Distinct(<<>>) /\ Bounded(<<>>) /\ OrderedBy(<<>>, r) /\ StoredKeys(<<>>) = {}
  BY CacheAssumption DEF Distinct, Bounded, OrderedBy, StoredKeys, Range

LEMMA CacheInvInit == CacheInit => CacheInv
<1> SUFFICES ASSUME CacheInit PROVE CacheInv
  OBVIOUS
<1>1. <<>> \in Seq(Entries) /\ <<>> \in Seq(Keys)
  OBVIOUS
<1>2. CacheTypeOK
  BY <1>1, CacheAssumption DEF CacheInit, CacheTypeOK
<1>3. StoresLatest
  BY DEF CacheInit, StoresLatest
<1> QED
  BY <1>1, <1>2, <1>3, EmptyIsTidy DEF CacheInit, CacheInv, Tidy, CacheTypeOK

(* What is kept about an answer and the calls that wait for the router.    *)
Rest == /\ now \in 0..MaxTime /\ version \in 0..MaxVersion
        /\ call \in [Clients -> PendingCalls \cup {Nothing}]
        /\ reply \in Replies \cup {Nothing}

LEMMA TypesFromParts == CacheInv <=> Rest /\ Tidy
  BY DEF CacheInv, CacheTypeOK, Rest, Tidy

LEMMA AnswerType ==
  ASSUME NEW k \in Keys, NEW r \in Responses, NEW source \in {"cache", "router"},
         NEW forced \in BOOLEAN, Answered(k, r, source, forced)
  PROVE  reply' \in Replies
  BY DEF Answered, Replies

LEMMA CacheInvNext == CacheInv /\ [CacheNext]_cacheVars => CacheInv'
<1> SUFFICES ASSUME CacheInv, [CacheNext]_cacheVars PROVE Rest' /\ Tidy'
  BY TypesFromParts DEF CacheInv, CacheTypeOK, Rest, Tidy
<1>0. Rest /\ Tidy
  BY TypesFromParts
<1>1. ASSUME NEW c \in Clients, NEW k \in Keys, NEW forced \in BOOLEAN,
             CompleteFromCache(c, k, forced)
      PROVE  Rest' /\ Tidy'
  <2>1. /\ GetHit(k) /\ UNCHANGED <<now, version, call, latest>>
        /\ Answered(k, EntryOf(store, k).resp, "cache", forced)
    BY <1>1 DEF CompleteFromCache
  <2>2. Tidy' /\ EntryOf(store, k).resp \in Responses
    BY <2>1, GetHitKeeps
  <2>3. reply' \in Replies
    BY <1>0, <2>1, <2>2, AnswerType DEF Rest
  <2> QED
    BY <1>0, <2>1, <2>2, <2>3 DEF Rest
<1>2. ASSUME NEW c \in Clients, NEW k \in Keys, NEW forced \in BOOLEAN,
             CompleteByRouter(c, k, forced)
      PROVE  Rest' /\ Tidy'
  <2>1. UNCHANGED <<now, version, reply, latest>>
        /\ call' = [call EXCEPT ![c] = [key |-> k, forced |-> forced, since |-> version]]
    BY <1>2 DEF CompleteByRouter
  <2>2. Rest'
    BY <1>0, <2>1 DEF Rest, PendingCalls
  <2>3. CASE GetMiss(k)
    BY <2>1, <2>2, <2>3, GetMissKeeps
  <2>4. CASE UNCHANGED <<store, recency>>
    BY <1>0, <2>1, <2>2, <2>4 DEF Tidy, StoresLatest
  <2> QED
    BY <1>2, <2>3, <2>4 DEF CompleteByRouter
<1>3. ASSUME NEW c \in Clients, RouterAnswers(c) PROVE Rest' /\ Tidy'
  <2>1. call[c] \in PendingCalls /\ call' = [call EXCEPT ![c] = Nothing]
        /\ UNCHANGED <<now, version>>
    BY <1>0, <1>3 DEF RouterAnswers, Rest
  <2>2. PICK v \in call[c].since..version :
           LET r == [key |-> call[c].key, ver |-> v]
           IN  /\ Set(call[c].key, r)
               /\ Answered(call[c].key, r, "router", call[c].forced)
    BY <1>3 DEF RouterAnswers
  <2>3. call[c].key \in Keys /\ call[c].forced \in BOOLEAN /\ call[c].since \in 0..MaxVersion
        /\ [key |-> call[c].key, ver |-> v] \in Responses
    BY <1>0, <2>1, CacheAssumption DEF PendingCalls, Responses, Rest
  <2>4. Tidy'
    BY <2>2, <2>3, SetKeeps
  <2>5. reply' \in Replies
    BY <2>2, <2>3, AnswerType
  <2> QED
    BY <1>0, <2>1, <2>4, <2>5 DEF Rest
<1>4. ASSUME NEW c \in Clients, RouterRaises(c) PROVE Rest' /\ Tidy'
  BY <1>0, <1>4 DEF RouterRaises, Rest, Tidy, StoresLatest
<1>5. ASSUME NEW k \in Keys, DirectGet(k) PROVE Rest' /\ Tidy'
  <2>1. UNCHANGED <<now, version, call, latest>>
    BY <1>5 DEF DirectGet
  <2>2. CASE GetHit(k) /\ Answered(k, EntryOf(store, k).resp, "cache", FALSE)
    <3>1. Tidy' /\ EntryOf(store, k).resp \in Responses
      BY <2>1, <2>2, GetHitKeeps
    <3>2. reply' \in Replies
      BY <1>0, <2>2, <3>1, AnswerType DEF Rest
    <3> QED
      BY <1>0, <2>1, <3>1, <3>2 DEF Rest
  <2>3. CASE GetMiss(k) /\ UNCHANGED reply
    BY <1>0, <2>1, <2>3, GetMissKeeps DEF Rest
  <2> QED
    BY <1>5, <2>2, <2>3 DEF DirectGet
<1>6. ASSUME NEW k \in Keys, DirectSet(k) PROVE Rest' /\ Tidy'
  <2>1. [key |-> k, ver |-> version] \in Responses
    BY <1>0 DEF Rest, Responses
  <2>2. Tidy'
    BY <1>6, <2>1, SetKeeps DEF DirectSet
  <2> QED
    BY <1>0, <1>6, <2>2 DEF DirectSet, Rest
<1>7. CASE Clear
  <2>1. /\ store' = <<>> /\ latest' = [k \in Keys |-> Nothing]
        /\ UNCHANGED <<now, version, call, reply, recency>>
    BY <1>7 DEF Clear
  <2>2. StoresLatest'
    BY <2>1 DEF StoresLatest
  <2>3. Distinct(store') /\ Bounded(store') /\ OrderedBy(store', recency')
    BY <1>0, <2>1, EmptyIsTidy DEF Tidy
  <2> QED
    BY <1>0, <2>1, <2>2, <2>3 DEF Rest, Tidy
<1>8. CASE Tick \/ NewVersion
  BY <1>0, <1>8, CacheAssumption DEF Tick, NewVersion, Rest, Tidy, StoresLatest
<1>9. CASE UNCHANGED cacheVars
  BY <1>0, <1>9 DEF cacheVars, Rest, Tidy, StoresLatest
<1> QED
  BY <1>1, <1>2, <1>3, <1>4, <1>5, <1>6, <1>7, <1>8, <1>9 DEF CacheNext

(* The cache always has at most one entry per key and max_size in all,     *)
(* ordered by last use, and each holds what was last set for its key.      *)
THEOREM CacheInvariant == CacheSpec => []CacheInv
  BY CacheInvInit, CacheInvNext, PTL DEF CacheSpec

(* The variables of the cache keep their types.                            *)
THEOREM CacheTypes == CacheSpec => []CacheTypeOK
  BY CacheInvariant, PTL DEF CacheInv

LEMMA DistinctKeysCount ==
  ASSUME NEW s \in Seq(Entries), Distinct(s)
  PROVE  IsFiniteSet(StoredKeys(s)) /\ Cardinality(StoredKeys(s)) = Len(s)
<1> DEFINE f == [a \in 1..Len(s) |-> s[a].key]
<1>1. f \in Bijection(1..Len(s), StoredKeys(s))
  <2>1. \A k \in StoredKeys(s) : \E a \in 1..Len(s) : f[a] = k
    BY StoredKeysFacts
  <2>2. f \in [1..Len(s) -> StoredKeys(s)]
    BY StoredKeysFacts
  <2>3. \A a, b \in 1..Len(s) : f[a] = f[b] => a = b
    BY DEF Distinct
  <2> HIDE DEF f
  <2>4. f \in Injection(1..Len(s), StoredKeys(s))
    BY <2>2, <2>3 DEF Injection, IsInjective
  <2>5. f \in Surjection(1..Len(s), StoredKeys(s))
    BY <2>1, <2>2 DEF Surjection
  <2> QED
    BY <2>4, <2>5 DEF Bijection
<1>2. IsFiniteSet(1..Len(s)) /\ Cardinality(1..Len(s)) = Len(s)
  <2>1. Len(s) \in Nat
    OBVIOUS
  <2> QED
    BY <2>1, FS_Interval
<1> QED
  BY <1>1, <1>2, FS_Bijection DEF ExistsBijection

(* The cache never holds more than max_size entries nor two for one key,   *)
(* however many calls race for the same key.                               *)
THEOREM CacheIsBounded == CacheSpec => []SizeBound
<1>1. CacheInv => SizeBound
  BY DistinctKeysCount DEF CacheInv, Tidy, SizeBound, Bounded
<1> QED
  BY <1>1, CacheInvariant, PTL

LEMMA KeysOfStore == CacheInv' => StoredKeys(store') \subseteq Keys
<1> SUFFICES ASSUME CacheInv', NEW k \in StoredKeys(store') PROVE k \in Keys
  OBVIOUS
<1>1. store' \in Seq(Entries)
  BY DEF CacheInv, Tidy
<1>2. PICK a \in 1..Len(store') : store'[a].key = k
  BY <1>1, StoredKeysFacts
<1>3. store'[a] \in Entries
  BY <1>1, <1>2
<1> QED
  BY <1>2, <1>3 DEF Entries

(* An entry goes only because it expired, because the cache was cleared,   *)
(* or as the least recently used one, whoever uses the cache in between.   *)
EvictsWell == \A k \in StoredKeys(store) \ StoredKeys(store') :
                 \/ Expired(EntryOf(store, k))
                 \/ latest' = [j \in Keys |-> Nothing]
                 \/ \A j \in StoredKeys(store') : LaterUsed(j, k)

LEMMA StepsEvictWell == CacheInv /\ [CacheNext]_cacheVars => EvictsWell
<1> SUFFICES ASSUME CacheInv, [CacheNext]_cacheVars PROVE EvictsWell
  OBVIOUS
<1>1. ASSUME UNCHANGED store PROVE EvictsWell
  BY <1>1 DEF EvictsWell
<1>2. ASSUME NEW k \in Keys, GetHit(k), UNCHANGED latest PROVE EvictsWell
  BY <1>2, GetHitKeeps DEF EvictsWell
<1>3. ASSUME NEW k \in Keys, GetMiss(k), UNCHANGED latest PROVE EvictsWell
  BY <1>3, GetMissKeeps DEF EvictsWell
<1>4. ASSUME NEW k \in Keys, NEW r \in Responses, Set(k, r) PROVE EvictsWell
  BY <1>4, SetKeeps DEF EvictsWell
<1>5. ASSUME NEW c \in Clients, RouterAnswers(c) PROVE EvictsWell
  <2>1. call[c] \in PendingCalls /\ version \in 0..MaxVersion
    BY <1>5 DEF RouterAnswers, CacheInv, CacheTypeOK
  <2>2. PICK v \in call[c].since..version :
           Set(call[c].key, [key |-> call[c].key, ver |-> v])
    BY <1>5 DEF RouterAnswers
  <2>3. call[c].key \in Keys /\ [key |-> call[c].key, ver |-> v] \in Responses
    BY <2>1, CacheAssumption DEF PendingCalls, Responses
  <2> QED
    BY <1>4, <2>2, <2>3
<1>6. ASSUME NEW k \in Keys, DirectSet(k) PROVE EvictsWell
  <2>1. [key |-> k, ver |-> version] \in Responses
    BY DEF CacheInv, CacheTypeOK, Responses
  <2> QED
    BY <1>4, <1>6, <2>1 DEF DirectSet
<1>7. ASSUME NEW c \in Clients, NEW k \in Keys, NEW forced \in BOOLEAN,
             CompleteFromCache(c, k, forced) \/ CompleteByRouter(c, k, forced)
      PROVE  EvictsWell
  BY <1>1, <1>2, <1>3, <1>7 DEF CompleteFromCache, CompleteByRouter
<1>8. ASSUME NEW k \in Keys, DirectGet(k) PROVE EvictsWell
  BY <1>2, <1>3, <1>8 DEF DirectGet
<1>9. ASSUME NEW c \in Clients, RouterRaises(c) PROVE EvictsWell
  BY <1>1, <1>9 DEF RouterRaises
<1>10. CASE Clear
  BY <1>10 DEF Clear, EvictsWell
<1>11. CASE Tick \/ NewVersion \/ UNCHANGED cacheVars
  BY <1>1, <1>11 DEF Tick, NewVersion, cacheVars
<1> QED
  BY <1>5, <1>6, <1>7, <1>8, <1>9, <1>10, <1>11 DEF CacheNext

(* An entry leaves the cache expired, by a clear, or as the least recently *)
(* used one: whatever stays was read or written after it.                  *)
THEOREM CacheEvictsLeastRecentlyUsed == CacheSpec => EvictsLeastRecentlyUsed
<1>1. CacheInv /\ [CacheNext]_cacheVars
        => [\A k \in StoredKeys(store) \ StoredKeys(store') :
              \/ Expired(EntryOf(store, k))
              \/ latest' = [j \in Keys |-> Nothing]
              \/ StoredKeys(store') \subseteq UsedSince(k)']_cacheVars
  <2> SUFFICES ASSUME CacheInv, CacheNext
               PROVE  \A k \in StoredKeys(store) \ StoredKeys(store') :
                         \/ Expired(EntryOf(store, k))
                         \/ latest' = [j \in Keys |-> Nothing]
                         \/ StoredKeys(store') \subseteq UsedSince(k)'
    OBVIOUS
  <2>1. EvictsWell /\ CacheInv'
    BY StepsEvictWell, CacheInvNext
  <2>2. StoredKeys(store') \subseteq Keys
    BY <2>1, KeysOfStore
  <2> QED
    BY <2>1, <2>2 DEF EvictsWell, LaterUsed, UsedSince
<1> QED
  BY <1>1, CacheInvariant, PTL DEF CacheSpec, EvictsLeastRecentlyUsed

-----------------------------------------------------------------------------
(***************************************************************************)
(* What is missing did not fit.  A use of a key puts it last and leaves    *)
(* the others in their order, so the keys used since k can only grow until *)
(* k is used again; and k goes out of a full cache, whose other keys were  *)
(* all used since.                                                         *)
(***************************************************************************)
Since(r, k) == {j \in Keys : Earlier(r, k, j)}

Fits(k) == latest[k] # Nothing /\ now <= latest[k].exp =>
               MaxSize # Unbounded /\ Cardinality(Since(recency, k)) >= MaxSize

MissInv == \A k \in Keys \ StoredKeys(store) : Fits(k)

LEMMA SinceFinite ==
  ASSUME NEW r \in Seq(Keys), NEW k
  PROVE  IsFiniteSet(Since(r, k)) /\ Cardinality(Since(r, k)) \in Nat
<1>1. IsFiniteSet(1..Len(r))
  <2>1. Len(r) \in Nat
    OBVIOUS
  <2> QED
    BY <2>1, FS_Interval
<1>2. IsFiniteSet({r[x] : x \in 1..Len(r)})
  <2> DEFINE f == [x \in 1..Len(r) |-> r[x]]
             T == {r[x] : x \in 1..Len(r)}
  <2>1. f \in Surjection(1..Len(r), T)
    BY DEF Surjection
  <2> QED
    BY <1>1, <2>1, FS_Surjection
<1>3. Since(r, k) \subseteq {r[x] : x \in 1..Len(r)}
  BY DEF Since, Earlier
<1>4. IsFiniteSet(Since(r, k))
  BY <1>2, <1>3, FS_Subset
<1> QED
  BY <1>4, FS_CardinalityType

LEMMA SinceGrows ==
  ASSUME NEW r \in Seq(Keys), NEW j \in Keys, NEW k \in Keys, j # k
  PROVE  LET q == Append(Others(r, j), j)
         IN  Cardinality(Since(q, k)) \in Nat
             /\ Cardinality(Since(r, k)) \in Nat
             /\ Cardinality(Since(r, k)) <= Cardinality(Since(q, k))
<1> DEFINE q == Append(Others(r, j), j)
<1>1. /\ q \in Seq(Keys)
      /\ \A x \in 1..Len(r) : r[x] # j => Earlier(q, r[x], j)
      /\ \A i, l : Earlier(r, i, l) /\ i # j /\ l # j => Earlier(q, i, l)
  BY UsedFacts
<1> HIDE DEF q
<1>2. ASSUME NEW i \in Since(r, k) PROVE i \in Since(q, k)
  <2>1. i \in Keys /\ Earlier(r, k, i)
    BY DEF Since
  <2>2. CASE i = j
    <3>1. PICK x \in 1..Len(r) : r[x] = k
      BY <2>1 DEF Earlier
    <3> QED
      BY <1>1, <2>1, <2>2, <3>1 DEF Since
  <2>3. CASE i # j
    BY <1>1, <2>1, <2>3 DEF Since
  <2> QED
    BY <2>2, <2>3
<1>3. IsFiniteSet(Since(q, k)) /\ Since(r, k) \subseteq Since(q, k)
  BY <1>1, <1>2, SinceFinite
<1> QED
  BY <1>1, <1>3, SinceFinite, FS_Subset DEF q

(* A use of j leaves a missing key missing for good reason.                *)
LEMMA UseKeepsFits ==
  ASSUME CacheInv, MissInv, NEW j \in Keys, NEW k \in Keys \ StoredKeys(store),
         j # k, Used(j), latest'[k] = latest[k], now' = now
  PROVE  Fits(k)'
<1>1. recency \in Seq(Keys) /\ recency' = Append(Others(recency, j), j)
  BY DEF CacheInv, Tidy, Used
<1>2. /\ Cardinality(Since(recency', k)) \in Nat /\ Cardinality(Since(recency, k)) \in Nat
      /\ Cardinality(Since(recency, k)) <= Cardinality(Since(recency', k))
  BY <1>1, SinceGrows
<1>3. Fits(k)
  BY DEF MissInv
<1> QED
  BY <1>2, <1>3, CacheAssumption DEF Fits

LEMMA SetKeepsMissInv ==
  ASSUME CacheInv, MissInv, NEW k \in Keys, NEW r \in Responses, Set(k, r), now' = now,
         CacheInv'
  PROVE  MissInv'
<1> SUFFICES ASSUME NEW j \in Keys \ StoredKeys(store') PROVE Fits(j)'
  BY DEF MissInv
<1>1. /\ latest' = [latest EXCEPT ![k] = [resp |-> r, exp |-> now + TTL]]
      /\ latest \in [Keys -> Settings \cup {Nothing}] /\ Used(k)
  BY SetKeeps DEF Set, CacheInv, Tidy
<1>2. CASE j \notin StoredKeys(store) /\ j # k
  BY <1>1, <1>2, UseKeepsFits
<1>3. CASE ~(j \notin StoredKeys(store) /\ j # k)
  <2>1. MaxSize \in Nat \ {Unbounded} /\ Len(store') = MaxSize /\ (j = k => MaxSize = 0)
    BY <1>3, SetKeeps
  <2>2. store' \in Seq(Entries) /\ Distinct(store') /\ recency' \in Seq(Keys)
    BY DEF CacheInv, Tidy
  <2>3. Cardinality(StoredKeys(store')) = MaxSize
    BY <2>1, <2>2, DistinctKeysCount
  <2>4. IsFiniteSet(Since(recency', j)) /\ Cardinality(Since(recency', j)) \in Nat
    BY <2>2, SinceFinite
  <2>5. Cardinality(Since(recency', j)) >= MaxSize
    <3>1. CASE MaxSize = 0
      BY <2>4, <3>1
    <3>2. CASE MaxSize # 0
      <4>1. j \in StoredKeys(store) \ StoredKeys(store')
        BY <1>3, <2>1, <3>2
      <4>2. \A i \in StoredKeys(store') : LaterUsed(i, j)
        BY <4>1, SetKeeps
      <4>3. StoredKeys(store') \subseteq Since(recency', j)
        BY <2>2, <4>2, KeysOfStore DEF LaterUsed, Since, Earlier
      <4> QED
        BY <2>1, <2>3, <2>4, <4>3, FS_Subset
    <3> QED
      BY <3>1, <3>2
  <2> QED
    BY <2>1, <2>5, CacheAssumption DEF Fits
<1> QED
  BY <1>2, <1>3

LEMMA GetKeepsMissInv ==
  ASSUME CacheInv, MissInv, NEW k \in Keys, GetHit(k) \/ GetMiss(k),
         UNCHANGED <<now, latest>>
  PROVE  MissInv'
<1> SUFFICES ASSUME NEW j \in Keys \ StoredKeys(store') PROVE Fits(j)'
  BY DEF MissInv
<1>1. CASE GetHit(k)
  <2>1. StoredKeys(store) \subseteq StoredKeys(store') /\ k \in StoredKeys(store) /\ Used(k)
    BY <1>1, GetHitKeeps DEF GetHit, Hits
  <2> QED
    BY <2>1, UseKeepsFits
<1>2. CASE GetMiss(k)
  <2>1. CASE j \notin StoredKeys(store)
    BY <1>2, <2>1 DEF GetMiss, MissInv, Fits
  <2>2. CASE j \in StoredKeys(store)
    <3>1. Expired(EntryOf(store, j))
      BY <1>2, <2>2, GetMissKeeps
    <3>2. store \in Seq(Entries) /\ StoresLatest /\ now \in Nat
      BY DEF CacheInv, CacheTypeOK, Tidy
    <3>3. EntryOf(store, j).exp = latest[j].exp /\ EntryOf(store, j).exp \in Nat
      <4>1. PositionOf(store, j) \in 1..Len(store) /\ store[PositionOf(store, j)].key = j
        BY <2>2, <3>2, PositionFacts
      <4>2. EntryOf(store, j) \in Entries
        BY <3>2, <4>1 DEF EntryOf
      <4> QED
        BY <3>2, <4>1, <4>2 DEF EntryOf, StoresLatest, Entries, Times
    <3> QED
      BY <3>1, <3>2, <3>3 DEF Expired, Fits
  <2> QED
    BY <2>1, <2>2
<1> QED
  BY <1>1, <1>2

LEMMA MissInvNext == CacheInv /\ MissInv /\ [CacheNext]_cacheVars => MissInv'
<1> SUFFICES ASSUME CacheInv, MissInv, [CacheNext]_cacheVars PROVE MissInv'
  OBVIOUS
<1>0. CacheInv' /\ now \in Nat
  BY CacheInvNext DEF CacheInv, CacheTypeOK
<1>1. ASSUME NEW c \in Clients, NEW k \in Keys, NEW forced \in BOOLEAN,
             CompleteFromCache(c, k, forced)
      PROVE  MissInv'
  BY <1>1, GetKeepsMissInv DEF CompleteFromCache
<1>2. ASSUME NEW c \in Clients, NEW k \in Keys, NEW forced \in BOOLEAN,
             CompleteByRouter(c, k, forced)
      PROVE  MissInv'
  <2>1. CASE GetMiss(k)
    BY <1>2, <2>1, GetKeepsMissInv DEF CompleteByRouter
  <2>2. CASE UNCHANGED <<store, recency>>
    BY <1>2, <2>2 DEF CompleteByRouter, MissInv, Fits
  <2> QED
    BY <1>2, <2>1, <2>2 DEF CompleteByRouter
<1>3. ASSUME NEW c \in Clients, RouterAnswers(c) PROVE MissInv'
  <2>1. call[c] \in PendingCalls /\ version \in 0..MaxVersion
    BY <1>3 DEF RouterAnswers, CacheInv, CacheTypeOK
  <2>2. now' = now /\ \E v \in call[c].since..version :
           Set(call[c].key, [key |-> call[c].key, ver |-> v])
    BY <1>3 DEF RouterAnswers
  <2>3. PICK v \in call[c].since..version :
           Set(call[c].key, [key |-> call[c].key, ver |-> v])
    BY <2>2
  <2>4. call[c].key \in Keys /\ [key |-> call[c].key, ver |-> v] \in Responses
    BY <2>1, CacheAssumption DEF PendingCalls, Responses
  <2> QED
    BY <1>0, <2>2, <2>3, <2>4, SetKeepsMissInv
<1>4. ASSUME NEW k \in Keys, DirectSet(k) PROVE MissInv'
  <2>1. [key |-> k, ver |-> version] \in Responses
    BY DEF CacheInv, CacheTypeOK, Responses
  <2> QED
    BY <1>0, <1>4, <2>1, SetKeepsMissInv DEF DirectSet
<1>5. ASSUME NEW k \in Keys, DirectGet(k) PROVE MissInv'
  BY <1>5, GetKeepsMissInv DEF DirectGet
<1>6. CASE Clear
  BY <1>6 DEF Clear, MissInv, Fits
(* Time only makes entries expire.                                         *)
<1>7. CASE Tick
  <2>1. ASSUME NEW k \in Keys \ StoredKeys(store), latest[k] # Nothing,
               now + 1 <= latest[k].exp
        PROVE  now <= latest[k].exp
    <3>1. latest[k] \in Settings
      BY <2>1 DEF CacheInv, CacheTypeOK
    <3>2. latest[k].exp \in Nat
      BY <3>1 DEF Settings, Times
    <3> QED
      BY <1>0, <2>1, <3>2
  <2> QED
    BY <1>7, <2>1 DEF Tick, MissInv, Fits
<1>8. ASSUME UNCHANGED <<now, store, latest, recency>> PROVE MissInv'
  BY <1>8 DEF MissInv, Fits
<1> QED
  BY <1>1, <1>2, <1>3, <1>4, <1>5, <1>6, <1>7, <1>8
     DEF CacheNext, RouterRaises, NewVersion, cacheVars

(* No provider call is paid for that the cache could have saved: a key     *)
(* that was set, neither cleared nor expired, is missing only after        *)
(* max_size other keys were used.                                          *)
THEOREM CacheMissesAreNeeded == CacheSpec => []NoNeedlessMiss
<1>1. CacheInit => MissInv
  BY DEF CacheInit, MissInv, Fits
<1>2. CacheInv /\ MissInv => NoNeedlessMiss
  <2> SUFFICES ASSUME CacheInv, MissInv, NEW k \in Keys \ StoredKeys(store)
               PROVE  UsedSince(k) = Since(recency, k)
    BY DEF MissInv, Fits, NoNeedlessMiss
  <2>1. DOMAIN recency = 1..Len(recency)
    BY DEF CacheInv, Tidy
  <2> QED
    BY <2>1 DEF UsedSince, Since, Earlier
<1> QED
  BY <1>1, <1>2, MissInvNext, CacheInvariant, PTL DEF CacheSpec

-----------------------------------------------------------------------------
(***************************************************************************)
(* The refinement of FreshMap.                                             *)
(***************************************************************************)
Served == IF reply # Nothing /\ reply.source = "cache"
          THEN [key |-> reply.key, resp |-> reply.resp]
          ELSE Nothing

LEMMA HitIsServed ==
  ASSUME CacheInv, NEW k \in Keys, NEW forced \in BOOLEAN,
         GetHit(k), Answered(k, EntryOf(store, k).resp, "cache", forced),
         UNCHANGED <<now, latest>>
  PROVE  Fresh!Serve(k)
<1>1. /\ latest[k] \in Settings /\ now <= latest[k].exp
      /\ EntryOf(store, k).resp = latest[k].resp /\ latest[k].resp \in Responses
  BY GetHitKeeps DEF Settings
<1>2. reply' \in Replies /\ reply'.source = "cache" /\ reply'.key = k
      /\ reply'.resp = latest[k].resp
  BY <1>1, AnswerType DEF Answered
<1>3. reply' # Nothing /\ latest[k] # Nothing
  BY <1>1, <1>2, CacheAssumption
<1> QED
  BY <1>1, <1>2, <1>3 DEF Fresh!Serve

LEMMA SetIsPut ==
  ASSUME CacheInv, NEW k \in Keys, NEW r \in Responses, Set(k, r), UNCHANGED now,
         Served' \in {Served, Nothing}
  PROVE  Fresh!Put(k, r)
  BY SetKeeps DEF Served, Fresh!Put

(* The cache implements the map with a time-to-live: a hit is the value    *)
(* last set for its key, set since the last clear and not expired.         *)
THEOREM CacheIsFreshMap == CacheSpec => FreshSpec
<1>1. CacheInit => Fresh!Init
  BY DEF CacheInit, Fresh!Init
<1>2. CacheInv /\ [CacheNext]_cacheVars => [Fresh!Next]_(Fresh!vars)
  <2> SUFFICES ASSUME CacheInv, [CacheNext]_cacheVars PROVE [Fresh!Next]_(Fresh!vars)
    OBVIOUS
  <2>0. version \in 0..MaxVersion /\ call \in [Clients -> PendingCalls \cup {Nothing}]
    BY DEF CacheInv, CacheTypeOK
  <2>1. ASSUME UNCHANGED <<now, latest, reply>> PROVE UNCHANGED Fresh!vars
    BY <2>1 DEF Fresh!vars
  <2>2. ASSUME NEW c \in Clients, NEW k \in Keys, NEW forced \in BOOLEAN,
               CompleteFromCache(c, k, forced)
        PROVE  Fresh!Next
    <3>1. Fresh!Serve(k)
      BY <2>0, <2>2, HitIsServed DEF CompleteFromCache
    <3> QED
      BY <3>1 DEF Fresh!Next
  <2>3. ASSUME NEW c \in Clients, RouterAnswers(c) PROVE Fresh!Next
    <3>1. call[c] \in PendingCalls /\ UNCHANGED now
      BY <2>0, <2>3 DEF RouterAnswers
    <3>2. PICK v \in call[c].since..version :
             LET r == [key |-> call[c].key, ver |-> v]
             IN  /\ Set(call[c].key, r)
                 /\ Answered(call[c].key, r, "router", call[c].forced)
      BY <2>3 DEF RouterAnswers
    <3>3. call[c].key \in Keys /\ [key |-> call[c].key, ver |-> v] \in Responses
      BY <2>0, <3>1, CacheAssumption DEF PendingCalls, Responses
    <3>4. Served' = Nothing
      <4>1. reply'.source = "router"
        BY <3>2 DEF Answered
      <4> QED
        BY <4>1 DEF Served
    <3>5. Fresh!Put(call[c].key, [key |-> call[c].key, ver |-> v])
      BY <3>1, <3>2, <3>3, <3>4, SetIsPut
    <3> QED
      BY <3>3, <3>5 DEF Fresh!Next
  <2>4. ASSUME NEW k \in Keys, DirectGet(k) PROVE Fresh!Next \/ UNCHANGED Fresh!vars
    <3>1. CASE GetHit(k) /\ Answered(k, EntryOf(store, k).resp, "cache", FALSE)
      <4>1. Fresh!Serve(k)
        BY <2>0, <2>4, <3>1, HitIsServed DEF DirectGet
      <4> QED
        BY <4>1 DEF Fresh!Next
    <3>2. CASE UNCHANGED reply
      BY <2>1, <2>4, <3>2 DEF DirectGet
    <3> QED
      BY <2>4, <3>1, <3>2 DEF DirectGet
  <2>5. ASSUME NEW k \in Keys, DirectSet(k) PROVE Fresh!Next
    <3>1. [key |-> k, ver |-> version] \in Responses
      BY <2>0 DEF Responses
    <3>2. Fresh!Put(k, [key |-> k, ver |-> version])
      BY <2>5, <3>1, SetIsPut DEF DirectSet, Served
    <3> QED
      BY <3>1, <3>2 DEF Fresh!Next
  <2>6. ASSUME NEW c \in Clients, NEW k \in Keys, NEW forced \in BOOLEAN,
               CompleteByRouter(c, k, forced)
        PROVE  UNCHANGED Fresh!vars
    BY <2>1, <2>6 DEF CompleteByRouter
  <2>7. ASSUME NEW c \in Clients, RouterRaises(c) PROVE UNCHANGED Fresh!vars
    BY <2>1, <2>7 DEF RouterRaises
  <2>8. CASE Clear
    <3>1. Fresh!Clear
      BY <2>8 DEF Clear, Fresh!Clear
    <3> QED
      BY <3>1 DEF Fresh!Next
  <2>9. CASE Tick
    <3>1. Fresh!Tick
      BY <2>9 DEF Tick, Fresh!Tick
    <3> QED
      BY <3>1 DEF Fresh!Next
  <2>10. CASE NewVersion \/ UNCHANGED cacheVars
    BY <2>1, <2>10 DEF NewVersion, cacheVars
  <2> QED
    BY <2>2, <2>3, <2>4, <2>5, <2>6, <2>7, <2>8, <2>9, <2>10 DEF CacheNext
<1> QED
  BY <1>1, <1>2, CacheInvariant, PTL DEF CacheSpec, FreshSpec, Fresh!Spec
=============================================================================
