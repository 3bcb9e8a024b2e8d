---------------------------- MODULE MCParamFlow ----------------------------
(***************************************************************************)
(* A small instance of ParamFlow for TLC.                                  *)
(***************************************************************************)
EXTENDS ParamFlow, TLC

R(object, metric, threshold, idx, size, items) ==
  [object |-> object, metric_type |-> metric, threshold |-> threshold,
   param_idx |-> idx, cache_size |-> size, items |-> items]

\* Two values in the same shard of a cache with two shards.
OneShard == [v \in {"a", "b"} |-> 1]

OneOrTwoParams == {<<"a">>, <<"b", "a">>}

\* One call per value, in a cache with room for both; and, one pass per
\* value but two of "a", in a cache with room for one.  A rule without an
\* index is dropped.
SomeRules ==
  {<<R(1, "kThreadCount", 1, 0, 4, <<>>)>>,
   <<R(2, "kQps", 1, -1, Unset, <<>>),
     R(3, "kQps", 1, 0, Unset, <<[value |-> "a", threshold |-> 2]>>),
     R(4, "kThreadCount", 1, 1, 1, <<>>)>>}

\* The calls are interchangeable.
Symmetry == Permutations(Calls)
=============================================================================
