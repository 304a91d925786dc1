---------------------------- MODULE VerifyReport ----------------------------
(***************************************************************************)
(* What one run of the verification promises about the source rows it has  *)
(* read, with no goroutines, channels or timers: each row is settled once, *)
(* with a verdict or with an error, and the report has either all the rows *)
(* or, after a cancellation, some of those that are settled.               *)
(***************************************************************************)
CONSTANT Rows        \* the rows the source table may have

VARIABLES
    status,          \* "loading", "verifying", and then "full", "cut" or "none"
    rows,            \* the rows read from the source table
    settled,         \* the rows that have a result
    report           \* the rows of the report

vars == <<status, rows, settled, report>>

Init ==
    /\ status = "loading"
    /\ rows = {} /\ settled = {} /\ report = {}

Load ==
    /\ status = "loading"
    /\ rows' \in SUBSET Rows
    /\ status' = "verifying"
    /\ UNCHANGED <<settled, report>>

Abandon ==           \* only before there are goroutines
    /\ status = "loading"
    /\ status' = "none"
    /\ UNCHANGED <<rows, settled, report>>

Settle(r) ==
    /\ status = "verifying"
    /\ r \in rows \ settled
    /\ settled' = settled \cup {r}
    /\ UNCHANGED <<status, rows, report>>

Full ==
    /\ status = "verifying"
    /\ settled = rows
    /\ status' = "full"
    /\ report' = rows
    /\ UNCHANGED <<rows, settled>>

Cut ==
    /\ status = "verifying"
    /\ status' = "cut"
    /\ report' \in SUBSET settled
    /\ UNCHANGED <<rows, settled>>

Next ==
    \/ Load \/ Abandon
    \/ \E r \in Rows : Settle(r)
    \/ Full \/ Cut

Spec == Init /\ [][Next]_vars

=============================================================================
