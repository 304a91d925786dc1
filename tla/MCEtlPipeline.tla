--------------------------- MODULE MCEtlPipeline ---------------------------
(* Small instances of EtlPipeline for TLC. *)
EXTENDS EtlPipeline, TLC

\* Rows are interchangeable and so are workers: used where only an invariant
\* is checked.
Symmetry == Permutations(Rows) \cup Permutations(Workers)

=============================================================================
