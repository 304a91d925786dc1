---------------------------- MODULE EtlTransfer ----------------------------
(***************************************************************************)
(* What one run of the ETL worker promises about the rows of the source    *)
(* table, with no threads, channels or batches: every row the run reads is *)
(* settled once, together with the rows of its batch, the two counters     *)
(* count the settlements, and nothing is in flight when the run reports.   *)
(*                                                                         *)
(* The promise has two gaps the program leaves open, and the outcomes name *)
(* them: a "skipped" row is in neither counter, and an "unknown" row is    *)
(* counted as an error although the destination did store it.              *)
(***************************************************************************)
EXTENDS Naturals, FiniteSets

CONSTANT Rows        \* the rows of cards_to_encrypt

VARIABLES
    outcome,         \* what became of each row: "unread", "inflight", "stored",
                     \* "unknown", "failed" or "skipped"
    processed,       \* rows the run reports as transferred
    errors,          \* rows the run reports as errors
    status           \* "running", "reported", or "fatal" (nothing was started)

vars == <<outcome, processed, errors, status>>

With(o) == {r \in Rows : outcome[r] = o}

Init ==
    /\ outcome = [r \in Rows |-> "unread"]
    /\ processed = 0
    /\ errors = 0
    /\ status = "running"

Become(S, o) == outcome' = [r \in Rows |-> IF r \in S THEN o ELSE outcome[r]]

Read(r) ==
    /\ outcome[r] = "unread"
    /\ Become({r}, "inflight")
    /\ UNCHANGED <<processed, errors>>

Skip(r) ==
    /\ outcome[r] = "unread"
    /\ Become({r}, "skipped")
    /\ UNCHANGED <<processed, errors>>

Store(S) ==
    /\ Become(S, "stored")
    /\ processed' = processed + Cardinality(S)
    /\ UNCHANGED errors

Fail(S) ==
    /\ \E o \in {"failed", "unknown"} : Become(S, o)
    /\ errors' = errors + Cardinality(S)
    /\ UNCHANGED processed

Settle(S) == S # {} /\ (Store(S) \/ Fail(S))

Transfer ==
    /\ status = "running"
    /\ \/ \E r \in Rows : Read(r) \/ Skip(r)
       \/ \E S \in SUBSET With("inflight") : Settle(S)
    /\ UNCHANGED status

Report ==
    /\ status = "running"
    /\ With("inflight") = {}
    /\ status' = "reported"
    /\ UNCHANGED <<outcome, processed, errors>>

GiveUp ==
    /\ status = "running"
    /\ With("unread") = Rows
    /\ status' = "fatal"
    /\ UNCHANGED <<outcome, processed, errors>>

Next == Transfer \/ Report \/ GiveUp

Spec == Init /\ [][Next]_vars

=============================================================================
