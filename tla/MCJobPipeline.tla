--------------------------- MODULE MCJobPipeline ---------------------------
(* JobPipeline for TLC: the interchangeable processes of an instance.      *)
EXTENDS JobPipeline, TLC

Symmetry == Permutations(Workers) \cup Permutations(Consumers)
=============================================================================
