------------------------------- MODULE Serving -------------------------------
(***************************************************************************)
(* serving/api, with what a process behind it shares: the guardrails in    *)
(* front of every request, the RAG pipeline, the router's spans            *)
(* (infra/tracing), and the export hook that turns them into metrics.      *)
(*                                                                         *)
(* Clients are the tasks of HTTP requests; Job is a task of the            *)
(* application that opens a span and runs a batch of completions, its      *)
(* Parts, under it (Batcher.batch_complete).  Everything runs on one event *)
(* loop.  An action is the code between two awaits, and the one await is   *)
(* that of a provider's answer: guards, retrieval and the generator of an  *)
(* answer are called synchronously.  Router models the attempts in detail; *)
(* here each candidate is tried once.                                      *)
(***************************************************************************)
EXTENDS Guardrails, Retrieval, Metrics, Integers, FiniteSets

CONSTANTS Clients, Job, Parts,    \* tasks
          Apps,                   \* what create_app may be given
          Prompts, Queries,       \* bodies of /chat and /rag/answer
          Models,                 \* the model of each candidate of the policy
          Usage,                  \* token counts that providers return
          MaxMeddling,            \* bound of the changes of hook and registry
          NoSpan, Nothing

Tasks == Clients \cup {Job} \cup Parts
SpanIds == Tasks \X Nat
Spans == [id : SpanIds, kind : {"agent", "llm", "internal"}, model : ToSet(Models) \cup {Nothing},
          trace : SpanIds, parent : SpanIds \cup {NoSpan}]

(* What a token count may be: Counter.inc takes values that are not        *)
(* negative.                                                               *)
Counts == Nat \cup {Malformed}

(* A store has one vector for each id, so that no hit comes twice.         *)
SoundPipeline(p) ==
    /\ p.hits \in Seq(ToSet(p.hits))
    /\ \A i, j \in DOMAIN p.hits : p.hits[i] = p.hits[j] => i = j
    /\ \A hit \in ToSet(p.hits) : hit.rescore \in Int
    /\ p.reranker.type \in {"none", "fake", "score"}
    /\ {p.topN, p.reranker.topN} \subseteq Nat \cup {Unset}

ASSUME ServingAssumption == /\ Models \in Seq(ToSet(Models)) \ {<<>>} /\ Usage # {}
                            /\ \A u \in Usage : u.prompt \in Counts /\ u.completion \in Counts
                            /\ Malformed \notin Nat
                            /\ \A a \in Apps : a.guards \in Seq(Guards)
                            /\ \A q \in Prompts \cup Queries : q.text \in Texts
                            /\ \A q \in Queries : q.topK \in Nat
                            /\ \A a \in Apps : a.pipeline = Nothing \/ SoundPipeline(a.pipeline)
                            /\ Prompts \cap Queries = {} /\ Unset \notin Nat
                            /\ MaxMeddling \in Nat
                            /\ Job \notin Clients \cup Parts
                            /\ Clients \cap Parts = {}
                            /\ NoSpan \notin SpanIds \cup Spans

VARIABLES app,        \* app.state and what it holds
          pc,         \* where each task is
          ask,        \* the body of each client's request
          open,       \* the spans each task has open, the current one last
          birth,      \* the current span when a task was created
          collected,  \* the collector's finished spans
          hook,       \* the collector's export hook
          meddled,    \* how often hook, collector or registry were changed
          metrics,    \* the registry
          sent,       \* the text a task gave to a provider or a generator
          cited,      \* the passages the generator got
          outcome,    \* status code of each response
          audit       \* what on_violation was called with for each client

web == <<ask, sent, cited, outcome, audit>>
traces == <<open, birth, collected, metrics>>
setup == <<app, hook, meddled>>
vars == <<setup, pc, web, traces>>

TypeOK == /\ app \in Apps
          /\ pc \in [Tasks -> {"idle", "ready", "calling", "waiting", "cancelling", "done"}]
          /\ ask \in [Clients -> Prompts \cup Queries \cup {Nothing}]
          /\ hook \in {"bridge", "other", "none"}
          /\ meddled \in 0..MaxMeddling
          /\ sent \in [Clients -> Texts \cup {Nothing}]
          /\ outcome \in [Clients -> {0, 200, 400, 500, 503}]
          /\ DOMAIN cited = Clients /\ DOMAIN audit = Clients
          /\ open \in [Tasks -> Seq(Spans)] /\ birth \in [Tasks -> Spans \cup {NoSpan}]

Init == /\ app \in Apps
        /\ pc = [t \in Tasks |-> "idle"]
        /\ ask = [t \in Clients |-> Nothing]
        /\ open = [t \in Tasks |-> <<>>]
        /\ birth = [t \in Tasks |-> NoSpan]
        /\ collected = {}
        /\ hook = IF app.router THEN "bridge" ELSE "none"
        /\ meddled = 0
        /\ metrics = NoMetrics
        /\ sent = [t \in Clients |-> Nothing]
        /\ cited = [t \in Clients |-> <<>>]
        /\ outcome = [t \in Clients |-> 0]
        /\ audit = [t \in Clients |-> <<>>]

-----------------------------------------------------------------------------
(* infra/tracing: the current span is a context variable, so each task has *)
(* its own, and a task begins with that of its creator.                    *)

(* Bug: one current span for the whole process.                            *)
CurrentOfProcess(t) ==
    LET all == UNION {ToSet(open[u]) : u \in Tasks}
    IN  IF all = {} THEN NoSpan ELSE CHOOSE s \in all : TRUE

Current(t) == IF open[t] # <<>> THEN Last(open[t]) ELSE birth[t]

NewSpan(outer, id, kind, model) ==
    [id |-> id, kind |-> kind, model |-> model,
     trace  |-> IF outer = NoSpan THEN id ELSE outer.trace,
     parent |-> IF outer = NoSpan THEN NoSpan ELSE outer.id]

Finished(s, status, tokens) ==
    [id |-> s.id, kind |-> s.kind, model |-> s.model, trace |-> s.trace,
     parent |-> s.parent, status |-> status, tokens |-> tokens]

(* InMemoryCollector.add, and what its hook makes of the registry; a hook  *)
(* that raises is passed over with a warning.                              *)
Exported(reg, s) == IF hook = "bridge" THEN BridgeSpan(reg, s) ELSE reg

Collect(s) == /\ collected' = collected \cup {s}
              /\ metrics' = Exported(metrics, s)

(* Router.complete opens a span for the call and one for its attempt.      *)
RoutingId(t) == <<t, 0>>
AttemptId(t, a) == <<t, a>>
Attempt(t) == open[t][2].id[2]

BeginCall(t) ==
    LET routing == NewSpan(Current(t), RoutingId(t), "agent", Nothing)
    IN  /\ open' = [open EXCEPT ![t] =
                      <<routing, NewSpan(routing, AttemptId(t, 1), "llm", Models[1])>>]
        /\ pc' = [pc EXCEPT ![t] = "calling"]

(* Both spans close, the inner one first.                                  *)
EndCall(t, status, tokens) ==
    /\ LET attempt == Finished(open[t][2], status, tokens)
           routing == Finished(open[t][1], status, Absent)
       IN  /\ collected' = collected \cup {attempt, routing}
           /\ metrics' = Exported(Exported(metrics, attempt), routing)
    /\ open' = [open EXCEPT ![t] = <<>>]
    /\ pc' = [pc EXCEPT ![t] = "done"]

-----------------------------------------------------------------------------
(* The handlers.                                                           *)

Begins(t, q) == /\ pc[t] = "idle" /\ t \in Clients
                /\ ask' = [ask EXCEPT ![t] = q]

Responds(t, code) == outcome' = [outcome EXCEPT ![t] = code]

Done(t) == pc' = [pc EXCEPT ![t] = "done"]

Configured(q) == IF q \in Prompts THEN app.router ELSE app.pipeline # Nothing

Unconfigured(t, q) ==
    /\ Begins(t, q) /\ ~Configured(q)
    /\ Responds(t, 503) /\ Done(t)
    /\ UNCHANGED <<setup, traces, sent, cited, audit>>

(* A guard objects: on_violation is told, and the answer is 400, unless it *)
(* raises.                                                                 *)
Blocked(t, q) ==
    /\ Begins(t, q) /\ Configured(q)
    /\ \E g \in RunChain(app.guards, q.text) :
         /\ Violation(g.result)
         /\ audit' = IF app.audit = "none" THEN audit
                     ELSE [audit EXCEPT ![t] = Append(@, g)]
    /\ Responds(t, IF app.audit = "raises" THEN 500 ELSE 400) /\ Done(t)
    /\ UNCHANGED <<setup, traces, sent, cited>>

GuardFails(t, q) ==
    /\ Begins(t, q) /\ Configured(q)
    /\ \E g \in RunChain(app.guards, q.text) : g.result = GuardRaised
    /\ Responds(t, 500) /\ Done(t)
    /\ UNCHANGED <<setup, traces, sent, cited, audit>>

(* The text that the chain returns is the one that is used.                *)
Cleared(t, q) ==
    /\ Begins(t, q) /\ Configured(q)
    /\ \E g \in RunChain(app.guards, q.text) :
         /\ g.by = 0
         /\ sent' = [sent EXCEPT ![t] = g.result.text]

Chat(t, q) ==
    /\ q \in Prompts /\ Cleared(t, q)
    /\ BeginCall(t)
    /\ UNCHANGED <<setup, birth, collected, metrics, cited, outcome, audit>>

(* The embedder, the store, a reranker's scorer or the generator may       *)
(* raise.                                                                  *)
RagAnswer(t, q) ==
    /\ q \in Queries /\ Cleared(t, q)
    /\ cited' = [cited EXCEPT ![t] =
                   Grounding(app.pipeline, app.pipeline.hits, q.topK, Unset, q.filter)]
    /\ Responds(t, 200) \/ Responds(t, 500)
    /\ Done(t)
    /\ UNCHANGED <<setup, traces, audit>>

-----------------------------------------------------------------------------
(* The await of a provider, in a client or in a part of the batch.         *)

(* A cancelled task does not see an answer any more.                       *)
Cancelling(t) == t \in Parts /\ pc[Job] = "cancelling"

(* The response model of /chat takes no token count that is no number.     *)
AnswerCode(tokens) == IF Malformed \in {tokens.prompt, tokens.completion} THEN 500 ELSE 200

ProviderAnswers(t, tokens) ==
    /\ pc[t] = "calling" /\ ~Cancelling(t)
    /\ EndCall(t, "OK", tokens)
    /\ IF t \in Clients THEN Responds(t, AnswerCode(tokens)) ELSE UNCHANGED outcome
    /\ UNCHANGED <<setup, birth, ask, sent, cited, audit>>

(* The attempt's span closes and the next candidate's opens.               *)
TryNext(t) ==
    /\ pc[t] = "calling" /\ ~Cancelling(t) /\ Attempt(t) < Len(Models)
    /\ Collect(Finished(open[t][2], "ERROR", Absent))
    /\ LET a == Attempt(t) + 1
       IN  open' = [open EXCEPT ![t][2] =
                      NewSpan(open[t][1], AttemptId(t, a), "llm", Models[a])]
    /\ UNCHANGED <<setup, pc, web, birth>>

(* AllProvidersFailedError.                                                *)
GiveUp(t) ==
    /\ pc[t] = "calling" /\ ~Cancelling(t) /\ Attempt(t) = Len(Models)
    /\ EndCall(t, "ERROR", Absent)
    /\ IF t \in Clients THEN Responds(t, 500) ELSE UNCHANGED outcome
    /\ UNCHANGED <<setup, birth, ask, sent, cited, audit>>

(* A client's task is cancelled, with no response, or the batch is.        *)
Cancelled(t) ==
    /\ pc[t] = "calling" /\ (t \in Clients \/ Cancelling(t))
    /\ EndCall(t, "ERROR", Absent)
    /\ UNCHANGED <<setup, birth, web>>

-----------------------------------------------------------------------------
(* The application's batch.                                                *)

StartJob == /\ pc[Job] = "idle" /\ app.router
            /\ LET s == NewSpan(Current(Job), RoutingId(Job), "internal", Nothing)
               IN  /\ open' = [open EXCEPT ![Job] = <<s>>]
                   /\ birth' = [t \in Tasks |-> IF t \in Parts THEN s ELSE birth[t]]
            /\ pc' = [t \in Tasks |-> IF t = Job THEN "waiting"
                                      ELSE IF t \in Parts THEN "ready" ELSE pc[t]]
            /\ UNCHANGED <<setup, web, collected, metrics>>

StartPart(t) == /\ pc[t] = "ready" /\ ~Cancelling(t)
                /\ BeginCall(t)
                /\ UNCHANGED <<setup, web, birth, collected, metrics>>

CancelJob == /\ pc[Job] = "waiting"
             /\ pc' = [pc EXCEPT ![Job] = "cancelling"]
             /\ UNCHANGED <<setup, web, traces>>

(* A part that is cancelled before its first step never opens a span.      *)
DropPart(t) == /\ pc[t] = "ready" /\ Cancelling(t)
               /\ Done(t)
               /\ UNCHANGED <<setup, web, traces>>

(* gather is over when every part is.                                      *)
EndJob == /\ pc[Job] \in {"waiting", "cancelling"}
          /\ \A t \in Parts : pc[t] = "done"
          /\ Collect(Finished(open[Job][1],
                              IF pc[Job] = "cancelling" THEN "ERROR" ELSE "OK", Absent))
          /\ open' = [open EXCEPT ![Job] = <<>>]
          /\ Done(Job)
          /\ UNCHANGED <<setup, web, birth>>

-----------------------------------------------------------------------------
(* The collector and the registry belong to the process: whoever makes a   *)
(* router, or sets a hook, or resets one of them, does so for all.         *)

Meddle == /\ meddled < MaxMeddling
          /\ meddled' = meddled + 1
          /\ UNCHANGED <<app, pc, web, open, birth>>

NewRouter == /\ Meddle
             /\ hook' = "bridge"
             /\ UNCHANGED <<collected, metrics>>

SetHook == /\ Meddle
           /\ hook' \in {"other", "none"}
           /\ UNCHANGED <<collected, metrics>>

ResetCollector == /\ Meddle
                  /\ collected' = {}
                  /\ hook' = "none"
                  /\ UNCHANGED metrics

ResetRegistry == /\ Meddle
                 /\ metrics' = NoMetrics
                 /\ UNCHANGED <<hook, collected>>

Terminated == /\ pc[Job] \in {"idle", "done"} /\ \A t \in Clients : pc[t] = "done"
              /\ UNCHANGED vars

Next == \/ \E t \in Clients, q \in Prompts \cup Queries :
             Unconfigured(t, q) \/ Blocked(t, q) \/ GuardFails(t, q)
        \/ \E t \in Clients, q \in Prompts : Chat(t, q)
        \/ \E t \in Clients, q \in Queries : RagAnswer(t, q)
        \/ \E t \in Clients \cup Parts :
             \/ TryNext(t) \/ GiveUp(t) \/ Cancelled(t)
             \/ \E tokens \in Usage : ProviderAnswers(t, tokens)
        \/ \E t \in Parts : StartPart(t) \/ DropPart(t)
        \/ StartJob \/ CancelJob \/ EndJob
        \/ NewRouter \/ SetHook \/ ResetCollector \/ ResetRegistry
        \/ Terminated

Spec == Init /\ [][Next]_vars

-----------------------------------------------------------------------------
(* What a guard objects to, whatever stands before it in the chain.        *)
Objects(g, t) == \/ g.type \in {"regex", "keyword", "redact"} /\ Matched(g, t)
                 \/ g.type = "embedding" /\ ~Matched(g, t)

Pipeline == app.pipeline

(* The passages that an answer to q may be grounded in, and how many.      *)
Candidates(q) == {p \in ToSet(SearchTop(Pipeline.hits, q.topK)) : MatchesFilter(p, q.filter)}
Cap(q) == LET n == IF Pipeline.topN # Unset THEN Pipeline.topN ELSE Pipeline.reranker.topN
          IN  IF n = Unset \/ Pipeline.reranker.type = "none"
              THEN Cardinality(Candidates(q)) ELSE Smaller(n, Cardinality(Candidates(q)))

WellGrounded(ps, q) ==
    /\ ToSet(ps) \subseteq Candidates(q)
    /\ Len(ps) = Cap(q) /\ Cardinality(ToSet(ps)) = Cap(q)
    /\ Pipeline.reranker.type = "score" =>
         \A a \in DOMAIN ps : /\ \A b \in a..Len(ps) : ps[a].rescore >= ps[b].rescore
                              /\ \A p \in Candidates(q) \ ToSet(ps) : ps[a].rescore >= p.rescore

SpansOf(t) == {s \in collected : s.id[1] = t} \cup ToSet(open[t])

(* Only a text that no guard objects to, unchanged, gets to a provider or  *)
(* a generator.                                                            *)
SentIsCleared(t) ==
    sent[t] # Nothing => /\ sent[t] = ask[t].text
                         /\ \A i \in DOMAIN app.guards : ~Objects(app.guards[i], sent[t])
                         /\ audit[t] = <<>>

(* The audit names the first guard that objects, once.                     *)
AuditIsTrue(t) ==
    \A a \in DOMAIN audit[t] : LET i == audit[t][a].by IN
      /\ a = 1
      /\ Objects(app.guards[i], ask[t].text) \/ app.guards[i].type = "nemo"
      /\ \A j \in 1..(i - 1) : ~Objects(app.guards[j], ask[t].text)

(* A request that is turned away leaves no span and no passages behind; it *)
(* is so only if a guard objects, or for want of a router or a pipeline.   *)
TurnedAwayForAReason(t) ==
    /\ outcome[t] \in {400, 503} => sent[t] = Nothing /\ SpansOf(t) = {} /\ cited[t] = <<>>
    /\ outcome[t] = 400 => audit[t] # <<>> \/ app.audit = "none"
    /\ outcome[t] = 503 => ~Configured(ask[t])

(* What a response says is what has happened.                              *)
ResponsesAreJustified ==
    \A t \in Clients : SentIsCleared(t) /\ AuditIsTrue(t) /\ TurnedAwayForAReason(t)

(* A RAG answer cites different passages of the top_k, all of which match  *)
(* the filter, as many as the limits allow and the best of them by the     *)
(* reranker's scores.                                                      *)
AnswersAreGrounded ==
    \A t \in Clients :
        ask[t] \in Queries /\ outcome[t] = 200 => WellGrounded(cited[t], ask[t])

OpenSpans == UNION {ToSet(open[t]) : t \in Tasks}

(* Whatever the interleaving of requests, batch and cancellations, traces  *)
(* are trees that do not mix.  A span that is open has its parent open     *)
(* around it, in its own task or in the one that created it, and in the    *)
(* same trace; a client's spans form a trace of their own and those of the *)
(* batch are all in that of the job; a task that is over has none open.    *)
TracesAreTrees ==
    /\ \A s \in OpenSpans :
         IF s.parent = NoSpan
         THEN s.trace = s.id
         ELSE \E p \in OpenSpans : /\ p.id = s.parent /\ p.trace = s.trace
                                   /\ p.id[1] \in {s.id[1], Job}
    /\ \A s \in OpenSpans \cup collected :
         s.trace[1] = IF s.id[1] \in Parts THEN Job ELSE s.id[1]
    /\ \A t \in Tasks : pc[t] = "done" => open[t] = <<>>
    /\ \A s \in collected : ~\E p \in OpenSpans : p.id = s.id

Steady == meddled = 0 /\ hook = "bridge"

TracesCollected == {{s \in collected : s.trace = tr} : tr \in {s.trace : s \in collected}}

(* The metrics add up, although an attribute that is not a number ends     *)
(* bridge_span half-way, and whoever changes the hook or clears a registry *)
(* between two spans: the calls by model are the spans of kind llm, each   *)
(* status for itself, the errors by model are the calls that failed, every *)
(* span has its duration, and a histogram's +Inf bucket holds what its     *)
(* count says.  If nobody interferes, they are the figures that the replay *)
(* analysis finds in the collected traces.                                 *)
CountersAddUp ==
    /\ \A st \in {"OK", "ERROR"} :
         Total(metrics, LAMBDA k : k[1] = "requests_total" /\ k[3] = st)
           = CounterOf(metrics, <<"spans_total", "llm", st>>)
    /\ \A m \in ToSet(Models) : CounterOf(metrics, <<"errors_total", m>>)
                                 = CounterOf(metrics, <<"requests_total", m, "ERROR">>)
    /\ \A kind \in {"llm", "agent", "internal"} :
         HistogramOf(metrics, <<"span_duration_seconds", kind>>).count
           = Total(metrics, LAMBDA k : k[1] = "spans_total" /\ k[2] = kind)
    /\ \A k \in DOMAIN metrics : k[1] \in {"span_duration_seconds", "latency_seconds"} =>
                                   metrics[k].count = metrics[k].inf
    /\ Steady =>
         /\ Total(metrics, LAMBDA k : k[1] = "requests_total")
              = SumFunction([tr \in TracesCollected |-> Cardinality(LlmSpans(tr))])
         /\ (\A tr \in TracesCollected : Analyzable(tr)) =>
              /\ Total(metrics, LAMBDA k : k[1] = "spans_total" /\ k[3] = "ERROR")
                       = SumFunction([tr \in TracesCollected |-> Analyze(tr).errors])
              /\ Total(metrics, LAMBDA k : k[1] = "prompt_tokens_total")
                       = SumFunction([tr \in TracesCollected |-> Analyze(tr).prompt])
              /\ Total(metrics, LAMBDA k : k[1] = "completion_tokens_total")
                       = SumFunction([tr \in TracesCollected |-> Analyze(tr).completion])
=============================================================================
