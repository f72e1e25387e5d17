--------------------------- MODULE MCForgeRuntime ---------------------------
(* Instances of ForgeRuntime for TLC. *)
EXTENDS ForgeRuntime, TLC

CONSTANTS v1, v2, s1, s2

\* s1 is a table; s2 is a composite of s1; "lost" is an identity nobody registers.
ThreeSnapshots == {s1, s2, "lost"}
TwoSound == {s1, s2}
TwoKinds == {"tabular", "composite"}
TheirKinds == [s \in ThreeSnapshots |-> IF s = s2 THEN "composite" ELSE "tabular"]
TheirParts == [s \in ThreeSnapshots |-> IF s = s2 THEN {s1} ELSE {}]

BothKinds == (v1 :> <<"tabular", "composite">>) @@ (v2 :> <<"composite">>)
NothingRequired == [v \in {v1, v2} |-> {}]

Plain(v, s) ==
  [ verifier |-> v, snapshots |-> <<s>>, witness_type |-> "declared",
    mutation |-> "permitted", preconditions |-> {"satisfied"} ]

\* A plain request to each verifier, and one departure for each check of execute().
SomeRequests ==
  { Plain(v1, s1), Plain(v2, s2), Plain(v1, s2), Plain(v1, "lost"),
    [Plain(v1, s1) EXCEPT !.snapshots = <<s1, s2>>],
    [Plain(v1, s1) EXCEPT !.witness_type = "other"],
    [Plain(v1, s1) EXCEPT !.mutation = "forbidden"],
    [Plain(v1, s1) EXCEPT !.preconditions = {"satisfied", "failed"}],
    [Plain(v1, s1) EXCEPT !.preconditions = {"satisfied", "failed", "unavailable"}] }
=============================================================================
