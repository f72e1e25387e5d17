-------------------------- MODULE MCEvidenceLedger --------------------------
(* Instances of EvidenceLedger for TLC; the bounds are chosen in the cfg files. *)
EXTENDS EvidenceLedger, TLC

\* Processes are told apart by nothing but their name.
WriterSymmetry == Permutations(Writers)
=============================================================================
