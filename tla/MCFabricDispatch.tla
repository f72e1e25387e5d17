--------------------------- MODULE MCFabricDispatch ---------------------------
(* FabricDispatch with two workloads that differ by their seed, one with two replicas, and one
   that asks for more than a backend accepts; nodes whose identities sort against their dependencies,
   one of which depends on a node that is not there; and one record identity under which
   two studies are told. *)
EXTENDS FabricDispatch

Work(name, artifact, replicas, seed) ==
  [name |-> name, artifact |-> artifact, replicas |-> replicas, experiment |-> "e", seed |-> seed]

MCWorkloads ==
  {Work("v", "a", 1, 0), Work("v", "a", 1, 1), Work("w", "b", 2, 0), Work("x", "b", 3, 0)}

MCRank == [w \in MCWorkloads |-> CASE w.name = "x" -> 1 [] w.name = "w" -> 3 [] OTHER -> 2 - 2 * w.seed]

MCDependencies == [n \in 1 .. 5 |-> CASE n = 1 -> {3} [] n = 3 -> {2} [] n = 4 -> {1, 2}
                                      [] n = 5 -> {4, 6} [] OTHER -> {}]

MCNodeLists == {SetToSeq(nodes) : nodes \in SUBSET (1 .. 5)} \cup {<<2, 2>>}

MCWorkloadLists == SeqOf(MCWorkloads, 2)

MCControlLists == {<<>>, <<"p">>, <<"p", "q">>, <<"q", "q">>}

Record(id, candidate, manifest) == [id |-> id, candidate |-> candidate, manifest |-> manifest]

MCRecords == {Record("r", "s", "m"), Record("r", "t", "n")}

MCBindings ==
  { [study |-> "s", record |-> None, manifest |-> None, artifact |-> "a"],
    [study |-> "s", record |-> "r", manifest |-> "m", artifact |-> "a"],
    [study |-> "t", record |-> None, manifest |-> "n", artifact |-> "b"] }
=============================================================================
