--------------------------- MODULE MCProviderHost ---------------------------
(* Instances of ProviderHost for TLC. *)
EXTENDS ProviderHost, TLC

CONSTANTS p1, p2, s1, s2

Native == [language |-> "Rust", tier |-> "NativeTrusted", exception |-> "none",
           well_formed |-> TRUE, accelerator |-> FALSE]

\* Two manifests the policy admits and, for each check, one it refuses.
Offered ==
  { Native,
    [Native EXCEPT !.language = "Cpp", !.exception = "complete"],
    [Native EXCEPT !.language = "Cpp", !.exception = "incomplete"],
    [Native EXCEPT !.language = "Python"],
    [Native EXCEPT !.exception = "complete"],
    [Native EXCEPT !.tier = "WasmQuarantined"],
    [Native EXCEPT !.well_formed = FALSE],
    [Native EXCEPT !.accelerator = TRUE] }

\* No snapshot, one, or two.
ThreeQueries == {<<>>, <<s1>>, <<s1, s2>>}

\* Within, at and beyond what a Size may ask for; an invalid one in each field.
SomeBudgets ==
  LET valid == [wall_time_ns |-> 1, operation_limit |-> 1, memory_bytes |-> 2]
  IN  { valid, [valid EXCEPT !.memory_bytes = 1], [valid EXCEPT !.memory_bytes = 0],
        [valid EXCEPT !.wall_time_ns = 0], [valid EXCEPT !.operation_limit = 0] }

Symmetry == Permutations({p1, p2})
=============================================================================
