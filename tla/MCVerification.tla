--------------------------- MODULE MCVerification ---------------------------
(* Small instances of Verification for TLC. *)
EXTENDS Verification, TLC

\* Records are interchangeable: used where no liveness is checked.
Symmetry == Permutations(Records)

CodeTiming == [record |-> 2, collect |-> 3, close |-> 3]
SlowRecords == [record |-> 3, collect |-> 2, close |-> 1]

CodeTimings == {CodeTiming}                    \* the order of the code's timers
BothOrders == {CodeTiming, SlowRecords}        \* and the inverted order

=============================================================================
