------------------------------- MODULE Replay --------------------------------
(***************************************************************************)
(* core/replay_analysis/_replay.py: the spans of a recorded trace by their *)
(* start times, and where a fresh trace diverges from it.  A span is its   *)
(* name, status and start time.                                            *)
(***************************************************************************)
EXTENDS Budgets

ByStart(spans) == StableSort(spans, LAMBDA a, b : a.start < b.start)

(* ReplayEngine.replay: summaries, without the times.                      *)
Replayed(trace) == LET s == ByStart(trace)
                   IN  [i \in DOMAIN s |-> [name |-> s[i].name, status |-> s[i].status]]

(* detect_divergence: an error that is gone is reported a second time.     *)
Divergences(recorded, fresh) ==
    LET r == ByStart(recorded)
        f == ByStart(fresh)
        both == DOMAIN r \cap DOMAIN f
        NamesOf(s) == [i \in DOMAIN s |-> s[i].name]
    IN  (IF Len(r) # Len(f) THEN {<<"count", 0>>} ELSE {})
        \cup (IF NamesOf(r) # NamesOf(f) THEN {<<"names", 0>>} ELSE {})
        \cup {<<"status", i>> : i \in {k \in both : r[k].status # f[k].status}}
        \cup {<<"error gone", i>> : i \in {k \in both : r[k].status = "ERROR"
                                                         /\ f[k].status # "ERROR"}}
=============================================================================
