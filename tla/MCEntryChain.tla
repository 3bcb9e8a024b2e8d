---------------------------- MODULE MCEntryChain ----------------------------
(***************************************************************************)
(* Small instances of EntryChain for TLC.                                  *)
(***************************************************************************)
EXTENDS EntryChain, TLC

R(origin, metric, count) ==
  [limit_origin |-> origin, metric_type |-> metric, count |-> count]

NoTags   == {}
TwoTags  == {"x", "y"}
Outbound == {"OUT"}
BothWays == {"IN", "OUT"}

\* One call at a time, by concurrency; replaced by a looser limit together
\* with one pass in the window.  A rule of negative count is dropped.
Reloads  == {{R("", "kThreadCount", 1), R("default", "kQps", -1)},
             {R("default", "kQps", 1), R("default", "kThreadCount", 2)}}

\* Limits of the callers with tag x, and of those whose tag has no rule.
TagRules == {{R("x", "kThreadCount", 1), R("other", "kQps", 1)}}

\* The calls are interchangeable.
Symmetry == Permutations(Calls)
=============================================================================
