---------------------------- MODULE MCEtlSystem ----------------------------
(* A small instance of EtlSystem for TLC: a row that is changed gets       *)
(* another CVV.                                                            *)
EXTENDS EtlSystem, TLC

Value(p, c) == [pan |-> p, cvv |-> c]
MCValues == {Value(1, 5), Value(1, 6)}

\* Rows are interchangeable, and so are keys: no liveness is checked.
Symmetry == Permutations(Rows) \cup Permutations(Keys)

=============================================================================
