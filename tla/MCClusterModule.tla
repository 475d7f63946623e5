--------------------------- MODULE MCClusterModule ---------------------------
(***************************************************************************)
(* Options for ClusterModule: one of each kind that the code tells apart.  *)
(***************************************************************************)
EXTENDS ClusterModule, TLC

MCOption ==
  {<<"servers", "good">>, <<"servers", "rejected">>, <<"timeout", "bad">>,
   <<"user", "empty">>, <<"cert", "good">>, <<"key", "good">>,
   <<"loader", "ignored">>}

\* Objects, services and parsers are interchangeable.
ClusterSymmetry == Permutations(Obj) \cup Permutations(Svc) \cup Permutations(Parser)

=============================================================================
