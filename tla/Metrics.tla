------------------------------- MODULE Metrics -------------------------------
(***************************************************************************)
(* infra/observability: the metrics registry and bridge_span, which turns  *)
(* a finished span into metrics.  The registry is a function from the      *)
(* metrics that exist, <<name, labels>>, to their values; a histogram is   *)
(* a record of its count and of its +Inf bucket.                           *)
(***************************************************************************)
EXTENDS Naturals, Sequences, SequencesExt, FiniteSetsExt

CONSTANTS Absent,      \* an attribute that a span does not have
          Malformed    \* a token count that is not a number

NoMetrics == <<>>

(* MetricsRegistry.counter and histogram create what does not exist yet.   *)
CounterOf(reg, key) == IF key \in DOMAIN reg THEN reg[key] ELSE 0
HistogramOf(reg, key) ==
    IF key \in DOMAIN reg THEN reg[key] ELSE [count |-> 0, inf |-> 0]

Put(reg, key, value) ==
    [k \in DOMAIN reg \cup {key} |-> IF k = key THEN value ELSE reg[k]]

Inc(reg, key, by) == Put(reg, key, CounterOf(reg, key) + by)

(* Histogram.observe: every value falls into the +Inf bucket.              *)
Observe(reg, key) == Put(reg, key, [count |-> HistogramOf(reg, key).count + 1,
                                    inf |-> HistogramOf(reg, key).inf + 1])

(* An update is a function of the registry or, where an attribute is not a *)
(* number, the exception that ends bridge_span there: inc has created the  *)
(* counter by then, but not changed it.                                    *)
Update(type, key, by) == [type |-> type, key |-> key, by |-> by]

Apply(reg, up) == CASE up.type = "observe" -> Observe(reg, up.key)
                    [] up.type = "inc"     -> Inc(reg, up.key, up.by)
                    [] up.type = "fails"   -> Inc(reg, up.key, 0)

TokenUpdate(key, n) ==
    IF n = Malformed THEN Update("fails", key, 0) ELSE Update("inc", key, n)

CommonUpdates(s) == <<Update("inc", <<"spans_total", s.kind, s.status>>, 1),
                      Update("observe", <<"span_duration_seconds", s.kind>>, 1)>>

ErrorUpdates(s) ==
    IF s.status = "ERROR" THEN <<Update("inc", <<"errors_total", s.model>>, 1)>> ELSE <<>>

RequestUpdates(s) ==
    <<Update("inc", <<"requests_total", s.model, s.status>>, 1)>> \o ErrorUpdates(s)

(* The attributes of the response; a span that failed has none of them.    *)
ResponseUpdates(s) ==
    IF s.tokens = Absent
    THEN <<>>
    ELSE <<Update("observe", <<"latency_seconds", s.model>>, 1),
           TokenUpdate(<<"prompt_tokens_total", s.model>>, s.tokens.prompt),
           TokenUpdate(<<"completion_tokens_total", s.model>>, s.tokens.completion),
           Update("inc", <<"cost_usd_total", s.model>>, 1)>>

(* Bug: the call itself is counted last.                                   *)
CountedLast(s) ==
    CommonUpdates(s) \o (IF s.kind = "llm" THEN ResponseUpdates(s) \o RequestUpdates(s)
                                           ELSE <<>>)

BridgeUpdates(s) ==
    CommonUpdates(s) \o (IF s.kind = "llm" THEN RequestUpdates(s) \o ResponseUpdates(s)
                                           ELSE <<>>)

(* bridge_span: what precedes the first failure stays.                     *)
BridgeSpan(reg, s) ==
    LET ups == BridgeUpdates(s)
        After[k \in 0..Len(ups)] ==
          IF k = 0 THEN [reg |-> reg, failed |-> FALSE]
          ELSE IF After[k - 1].failed THEN After[k - 1]
          ELSE [reg |-> Apply(After[k - 1].reg, ups[k]), failed |-> ups[k].type = "fails"]
    IN  After[Len(ups)].reg

(* The sum of the counters whose key satisfies a condition.                *)
Total(reg, Test(_)) == SumFunctionOnSet(reg, {key \in DOMAIN reg : Test(key)})

-----------------------------------------------------------------------------
(* core/replay_analysis: the figures that analyze takes from the spans of  *)
(* one trace; it raises on a token count that is not a number.             *)
LlmSpans(spans) == {s \in spans : s.kind = "llm"}

HasTokens(s) == s.tokens # Absent

Analyzable(spans) ==
    \A s \in LlmSpans(spans) : HasTokens(s) => /\ s.tokens.prompt # Malformed
                                               /\ s.tokens.completion # Malformed

PromptOf(s) == IF HasTokens(s) THEN s.tokens.prompt ELSE 0
CompletionOf(s) == IF HasTokens(s) THEN s.tokens.completion ELSE 0

Analyze(spans) ==
    [llmCalls |-> Cardinality(LlmSpans(spans)),
     errors |-> Cardinality({s \in spans : s.status = "ERROR"}),
     prompt |-> SumFunction([s \in LlmSpans(spans) |-> PromptOf(s)]),
     completion |-> SumFunction([s \in LlmSpans(spans) |-> CompletionOf(s)])]
=============================================================================
