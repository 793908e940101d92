----------------------------- MODULE Completion -----------------------------
(***************************************************************************)
(* What a caller of Router.complete is promised, whatever the router does  *)
(* inside: a call is settled at most once and for good; it spends at most  *)
(* Budget provider attempts; it answers only after an attempt, and it      *)
(* reports failure only when the whole budget is spent.  The caller alone  *)
(* may cancel it.  Router.tla is shown to implement this module.           *)
(***************************************************************************)
EXTENDS Naturals

CONSTANTS Calls,    \* the calls of Router.complete
          Budget    \* provider attempts the policy allows for one call

VARIABLES outcome,  \* what the caller sees of each call
          attempts  \* provider attempts made so far for each call

vars == <<outcome, attempts>>

Outcomes == {"pending", "answered", "failed", "cancelled"}

TypeOK == /\ outcome \in [Calls -> Outcomes]
          /\ attempts \in [Calls -> 0..Budget]

Init == /\ outcome = [c \in Calls |-> "pending"]
        /\ attempts = [c \in Calls |-> 0]

Attempt(c) == /\ outcome[c] = "pending"
              /\ attempts[c] < Budget
              /\ attempts' = [attempts EXCEPT ![c] = @ + 1]
              /\ UNCHANGED outcome

Settle(c, o) == /\ outcome[c] = "pending"
                /\ outcome' = [outcome EXCEPT ![c] = o]
                /\ UNCHANGED attempts

Answer(c) == attempts[c] > 0 /\ Settle(c, "answered")

Fail(c) == attempts[c] = Budget /\ Settle(c, "failed")

Cancel(c) == Settle(c, "cancelled")

Progress(c) == Attempt(c) \/ Answer(c) \/ Fail(c)

Next == \E c \in Calls : Progress(c) \/ Cancel(c)

Safety == Init /\ [][Next]_vars

Spec == Safety /\ \A c \in Calls : WF_vars(Progress(c))

-----------------------------------------------------------------------------
(* Every call is eventually settled, because its budget is finite.         *)
Settled == \A c \in Calls : <>(outcome[c] # "pending")
=============================================================================
