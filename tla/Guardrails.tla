----------------------------- MODULE Guardrails -----------------------------
(***************************************************************************)
(* infra/guardrails: the guards and the chain that applies them.  A text   *)
(* is the set of marks in it that some guard looks for.  A guard looks for *)
(* the marks g.on; what a scorer or the rails answer is not the guard's    *)
(* choice, so a check has a set of possible results, and raising is one    *)
(* where the guard calls out.                                              *)
(***************************************************************************)
EXTENDS Naturals, Sequences

CONSTANT Marks    \* what a guard may look for in a text

Marker == "[REDACTED]"
Texts == SUBSET (Marks \cup {Marker})
GuardTypes == {"regex", "keyword", "redact", "embedding", "nemo"}

PassText(t)   == [action |-> "PASS", text |-> t]
BlockText(t)  == [action |-> "BLOCK", text |-> t]
RedactText(t) == [action |-> "REDACT", text |-> t]
GuardRaised   == [action |-> "RAISED", text |-> {}]

Matched(g, t) == g.on \cap t # {}

(* RegexFilter and KeywordFilter block a text in which they find something *)
(* and RedactFilter replaces all that it finds.                            *)
Filtered(g, t) == IF Matched(g, t) THEN BlockText(t) ELSE PassText(t)

Redacted(g, t) == IF Matched(g, t)
                  THEN RedactText((t \ g.on) \cup {Marker})
                  ELSE PassText(t)

(* EmbeddingFilter blocks a text that is too far from the topic.           *)
Scored(g, t) == {GuardRaised, IF Matched(g, t) THEN PassText(t) ELSE BlockText(t)}

(* NeMoGuard blocks if the rails answer with a refusal.                    *)
Railed(t) == {GuardRaised, PassText(t), BlockText(t)}

Checks(g, t) == CASE g.type \in {"regex", "keyword"} -> {Filtered(g, t)}
                  [] g.type = "redact"               -> {Redacted(g, t)}
                  [] g.type = "embedding"            -> Scored(g, t)
                  [] g.type = "nemo"                 -> Railed(t)

Guards == [type : GuardTypes, on : SUBSET Marks]

(* Bug: a redaction does not end the chain, which goes on with the         *)
(* redacted text.                                                          *)
GuardAppliedAfterRedaction(g, k, o) ==
    IF o.by # 0 THEN {o}
    ELSE {IF r.action \in {"PASS", "REDACT"} THEN [result |-> PassText(r.text), by |-> 0]
          ELSE [result |-> r, by |-> k] : r \in Checks(g, o.result.text)}

(* The k-th guard g checks the text it gets from the ones before it,       *)
(* unless one of these has ended the chain.                                *)
GuardApplied(g, k, o) ==
    IF o.by # 0 THEN {o}
    ELSE {[result |-> r, by |-> IF r.action = "PASS" THEN 0 ELSE k] :
             r \in Checks(g, o.result.text)}

(* GuardrailChain.run: the results of a chain, each with the position of   *)
(* the guard it comes from, 0 if all of them pass.                         *)
RunChain(guards, t) ==
    LET After[k \in 0..Len(guards)] ==
          IF k = 0 THEN {[result |-> PassText(t), by |-> 0]}
          ELSE UNION {GuardApplied(guards[k], k, o) : o \in After[k - 1]}
    IN  After[Len(guards)]

(* on_violation is called for a block and for a redaction.                 *)
Violation(r) == r.action \in {"BLOCK", "REDACT"}
=============================================================================
