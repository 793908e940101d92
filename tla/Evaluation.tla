----------------------------- MODULE Evaluation ------------------------------
(***************************************************************************)
(* The loops that call a model once per item and await each answer:        *)
(* EvalHarness.run under prompts.compare (evaluation/framework, prompts),  *)
(* BenchmarkRunner.run (evaluation/benchmarking) and Summarizer.summarize  *)
(* (core/long_context).  They differ in what they do when a call raises.   *)
(*                                                                         *)
(* A step goes from one answer to the next await.  A metric is any         *)
(* function into 0..Top (for 0.0 to 1.0) that may raise; an agent is       *)
(* anything that answers, raises, or is cancelled.                         *)
(***************************************************************************)
EXTENDS Budgets

CONSTANTS CaseLists,    \* sequences of EvalCase objects
          MaxVariants, MaxRepeat, MaxCalls,  \* bounds of a comparison
          Top,          \* the best score
          MaxTasks, Latencies, TokenCounts,  \* of benchmarks
          Texts,        \* texts to summarize
          ChunkTokens   \* max_chunk_tokens

ASSUME EvaluationAssumption ==
    /\ {MaxVariants, MaxRepeat, MaxCalls, MaxTasks, Top} \subseteq Nat
    /\ Latencies \subseteq Nat /\ TokenCounts \subseteq Nat
    /\ ChunkTokens \in Nat \ {0} /\ Texts \subseteq Seq(Nat)
    /\ \A cs \in CaseLists : cs \in Seq(ToSet(cs))

VARIABLES job,      \* the call that is running or has ended
          results,  \* what it has collected: of this variant, so far
          reports,  \* of the variants evaluated so far; ranked at the end
          outcome,  \* "none", "running", "done" or "raised"
          calls     \* history: the model's answers, in order

evars == <<job, results, reports, outcome, calls>>

NoJob == [kind |-> "none", items |-> <<>>, repeat |-> 1, variants |-> 1,
          threshold |-> 0, text |-> <<>>]

EvalInit == /\ job = NoJob /\ results = <<>> /\ reports = <<>>
            /\ outcome = "none" /\ calls = <<>>

-----------------------------------------------------------------------------
Runs(j) == Len(j.items) * j.repeat

(* The item of the k-th call of a harness, and its run_index.              *)
ItemOf(k) == job.items[(k - 1) \div job.repeat + 1]
RunIndex(k) == (k - 1) % job.repeat

Scores(rs) == [k \in DOMAIN rs |-> rs[k].score]

(* aggregate: the mean is kept as its sum, for a number of runs that is    *)
(* the same in all the reports of a comparison.                            *)
Aggregate(v, rs) ==
    [variant |-> v, results |-> rs, total_runs |-> Len(rs),
     total_cases |-> Cardinality({rs[k].case : k \in DOMAIN rs}),
     sum |-> Sum(Scores(rs)),
     min |-> IF rs = <<>> THEN 0 ELSE Min(ToSet(Scores(rs))),
     max |-> IF rs = <<>> THEN 0 ELSE Max(ToSet(Scores(rs))),
     passed |-> Cardinality({k \in DOMAIN rs : rs[k].score >= job.threshold})]

(* PromptComparison.__post_init__; the winner is the first.                *)
Ranked(rs) == StableSort(rs, LAMBDA a, b : a.sum > b.sum)
Winner == IF reports = <<>> THEN 0 ELSE reports[1].variant

(* compare: with nothing to run, the reports are made without an await.    *)
StartCompare(vs, cs, n, t) ==
    /\ outcome = "none" /\ vs * Len(cs) * n <= MaxCalls
    /\ job' = [NoJob EXCEPT !.kind = "compare", !.items = cs, !.repeat = n,
                            !.variants = vs, !.threshold = t]
    /\ reports' = IF Runs(job') = 0 THEN [v \in 1..vs |-> Aggregate(v, <<>>)] ELSE <<>>
    /\ outcome' = IF Runs(job') = 0 \/ vs = 0 THEN "done" ELSE "running"
    /\ UNCHANGED <<results, calls>>

Variant == Len(reports) + 1
Called(raised, answer) ==
    calls' = Append(calls, [variant |-> Variant, item |-> ItemOf(Len(results) + 1),
                            raised |-> raised, answer |-> answer])

(* The rest of EvalHarness.run and compare, up to the next await.          *)
Collects(result) ==
    LET rs == Append(results, result)
        all == Append(reports, Aggregate(Variant, rs))
    IN  IF Len(rs) < Runs(job)
        THEN results' = rs /\ UNCHANGED <<reports, outcome>>
        ELSE /\ results' = <<>>
             /\ reports' = IF Len(all) < job.variants THEN all ELSE Ranked(all)
             /\ outcome' = IF Len(all) < job.variants THEN "running" ELSE "done"

EvalResult(score, error) ==
    [case |-> ItemOf(Len(results) + 1), score |-> score, error |-> error,
     success |-> score >= job.threshold, run_index |-> RunIndex(Len(results) + 1)]

Awaits(kind) == outcome = "running" /\ job.kind = kind

AgentAnswers == /\ Awaits("compare")
                /\ \E s \in 0..Top : Called(FALSE, s) /\ Collects(EvalResult(s, FALSE))
                /\ UNCHANGED job

(* Bug: what the metric says of no answer counts as the score.             *)
AgentRaisesIsScored == /\ Awaits("compare")
                       /\ \E s \in 0..Top : Called(TRUE, 0) /\ Collects(EvalResult(s, TRUE))
                       /\ UNCHANGED job

(* The template, the router or the agent raises: an error scores 0.        *)
AgentRaises == /\ Awaits("compare")
               /\ Called(TRUE, 0) /\ Collects(EvalResult(0, TRUE))
               /\ UNCHANGED job

-----------------------------------------------------------------------------
StartBenchmark(n) ==
    /\ outcome = "none"
    /\ job' = [NoJob EXCEPT !.kind = "benchmark", !.items = [i \in 1..n |-> i]]
    /\ outcome' = IF n = 0 THEN "done" ELSE "running"
    /\ UNCHANGED <<results, reports, calls>>

(* A p95 latency and the other figures of _build_report.                   *)
P95(rs) == LET sorted == StableSort([k \in DOMAIN rs |-> rs[k].latency], LAMBDA a, b : a < b)
           IN  sorted[PercentileRank(Len(rs), 95)]

BenchmarkReport(rs) ==
    [succeeded |-> Cardinality({k \in DOMAIN rs : rs[k].success}),
     tokens |-> Sum([k \in DOMAIN rs |-> rs[k].tokens]),
     latency |-> Sum([k \in DOMAIN rs |-> rs[k].latency]), p95 |-> P95(rs)]

TaskDone(error, right, tokens) ==
    /\ \E l \in Latencies :
         LET rs == Append(results, [task |-> ItemOf(Len(results) + 1), error |-> error,
                                    success |-> right, tokens |-> tokens, latency |-> l])
         IN  /\ results' = rs
             /\ IF Len(rs) < Len(job.items) THEN UNCHANGED <<reports, outcome>>
                ELSE reports' = <<BenchmarkReport(rs)>> /\ outcome' = "done"
    /\ UNCHANGED job

(* The agent gives its text, or an object with token counts, and the       *)
(* scorer compares it.                                                     *)
TaskAnswers == /\ Awaits("benchmark")
               /\ \E right \in BOOLEAN, n \in TokenCounts :
                     Called(FALSE, right) /\ TaskDone(FALSE, right, n)

(* It raises, or its token counts are no numbers: those read before stay.  *)
TaskRaises == /\ Awaits("benchmark")
              /\ \E n \in TokenCounts : Called(TRUE, 0) /\ TaskDone(TRUE, FALSE, n)

-----------------------------------------------------------------------------
StartSummary(text) ==
    /\ outcome = "none"
    /\ job' = [NoJob EXCEPT !.kind = "summarize", !.items = Chunk(text, ChunkTokens),
                            !.text = text]
    /\ outcome' = IF text = <<>> THEN "done" ELSE "running"
    /\ UNCHANGED <<results, reports, calls>>

RouterSummarizes ==
    /\ Awaits("summarize")
    /\ Called(FALSE, 0)
    /\ results' = Append(results, ItemOf(Len(results) + 1))
    /\ outcome' = IF Len(results') = Len(job.items) THEN "done" ELSE "running"
    /\ UNCHANGED <<job, reports>>

(* What nobody catches leaves the loop, and what was collected is lost: an *)
(* exception of the router in summarize, of a metric or a scorer, and      *)
(* CancelledError anywhere.                                                *)
Escapes == /\ outcome = "running"
           /\ outcome' = "raised" /\ results' = <<>> /\ reports' = <<>>
           /\ Called(TRUE, 0)
           /\ UNCHANGED job

EvalNext ==
    \/ \E vs \in 0..MaxVariants, cs \in CaseLists, n \in 0..MaxRepeat, t \in 0..Top :
         StartCompare(vs, cs, n, t)
    \/ AgentAnswers \/ AgentRaises
    \/ \E n \in 0..MaxTasks : StartBenchmark(n)
    \/ TaskAnswers \/ TaskRaises
    \/ \E text \in Texts : StartSummary(text)
    \/ RouterSummarizes \/ Escapes

EvalSpec == EvalInit /\ [][EvalNext]_evars

-----------------------------------------------------------------------------
(* A comparison tells how every call ended: each variant has one report    *)
(* with one result per case and repetition, in that order, whose score is  *)
(* what the metric said of the answer to that very call, and 0 if it       *)
(* raised; the figures of a report count those results; and the reports    *)
(* come by falling mean score, equal ones in the caller's order, so that   *)
(* the winner is the first of the best.                                    *)
ComparisonTellsEveryCall ==
    job.kind = "compare" /\ outcome = "done" =>
      LET n == Runs(job)
          Call(v, k) == calls[(v - 1) * n + k]
          Points(v, k) == IF Call(v, k).raised THEN 0 ELSE Call(v, k).answer
          Mean(v) == Sum([k \in 1..n |-> Points(v, k)])
      IN  /\ Len(calls) = n * job.variants
          /\ {reports[i].variant : i \in DOMAIN reports} = 1..job.variants
          /\ Len(reports) = job.variants
          /\ job.variants > 0 => \A v \in 1..job.variants :
               /\ Mean(Winner) >= Mean(v)
               /\ Mean(Winner) = Mean(v) => Winner <= v
          /\ \A i \in DOMAIN reports :
               LET r == reports[i] IN
               /\ r.total_runs = n
               /\ n > 0 => r.total_cases = Cardinality(ToSet(job.items))
               /\ i > 1 => \/ Mean(reports[i - 1].variant) > Mean(r.variant)
                           \/ /\ Mean(reports[i - 1].variant) = Mean(r.variant)
                              /\ reports[i - 1].variant < r.variant
               /\ r.passed = Cardinality({k \in 1..n : Points(r.variant, k) >= job.threshold})
               /\ \A k \in 1..n :
                    /\ Call(r.variant, k).variant = r.variant
                    /\ Call(r.variant, k).item = r.results[k].case
                    /\ r.results[k].case = job.items[(k - 1) \div job.repeat + 1]
                    /\ r.results[k].score = Points(r.variant, k)
                    /\ r.results[k].error <=> Call(r.variant, k).raised
                    /\ r.min <= Points(r.variant, k) /\ Points(r.variant, k) <= r.max

(* So does a benchmark, where an error never counts as a success and at    *)
(* least 95 of 100 tasks were as fast as the p95 latency, but fewer were   *)
(* faster.  That is the nearest-rank percentile _build_report computes for *)
(* a suite of any size, although a docstring says (_models.py:129) that it *)
(* is 0.0 for fewer than 20 tasks, which it never is.                      *)
BenchmarkTellsEveryCall ==
    job.kind = "benchmark" /\ outcome = "done" /\ job.items # <<>> =>
      LET Count(P(_)) == Cardinality({k \in DOMAIN results : P(k)})
          r == reports[1]
      IN  /\ [k \in DOMAIN results |-> results[k].task] = job.items
          /\ r.succeeded = Count(LAMBDA k : ~calls[k].raised /\ calls[k].answer)
          /\ 100 * Count(LAMBDA k : results[k].latency <= r.p95) >= 95 * Len(results)
          /\ 100 * Count(LAMBDA k : results[k].latency < r.p95) < 95 * Len(results)

EvaluationTellsEveryCall == ComparisonTellsEveryCall /\ BenchmarkTellsEveryCall

(* A summary that is returned covers the text: its parts are the answers   *)
(* to the chunks, each asked once and in order, and the chunks are the     *)
(* text cut at blanks, none larger than the limit unless it is one word,   *)
(* and none so small that the next word would have fitted.                 *)
SummaryCoversText ==
    job.kind = "summarize" /\ outcome = "done" =>
      LET cs == results IN
      /\ FlattenSeq(cs) = job.text
      /\ [k \in DOMAIN calls |-> calls[k].item] = cs
      /\ \A k \in DOMAIN cs :
           /\ cs[k] # <<>>
           /\ CountTokens(Joined(cs[k])) <= ChunkTokens \/ Len(cs[k]) = 1
           /\ k > 1 => CountTokens(Joined(Append(cs[k - 1], cs[k][1]))) > ChunkTokens
=============================================================================
