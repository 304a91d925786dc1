---------------------------- MODULE BatchAnswer ----------------------------
(***************************************************************************)
(* What one POST to the batch endpoint promises, with no goroutines,       *)
(* channels or indices: a request of a legal length has each of its items  *)
(* settled once, with a ciphertext or with an error, and is then answered  *)
(* with the ciphertexts in the order of the items.                         *)
(***************************************************************************)
EXTENDS Naturals, Sequences, FiniteSets

CONSTANTS
    MaxSent,         \* the longest request a client sends
    MaxItems         \* the longest request that is not refused

VARIABLES
    n,               \* items of the request
    ok,              \* items that have a ciphertext
    failed,          \* how many items have an error
    status,          \* "received", "working", "replied", "refused"
    reply            \* the ciphertexts of the reply, by the item they are of

vars == <<n, ok, failed, status, reply>>

Init ==
    /\ n \in 0 .. MaxSent
    /\ ok = {} /\ failed = 0
    /\ status = "received"
    /\ reply = <<>>

Check ==
    /\ status = "received"
    /\ status' = IF n \in 1 .. MaxItems THEN "working" ELSE "refused"
    /\ UNCHANGED <<n, ok, failed, reply>>

Encrypted(i) ==
    /\ ok' = ok \cup {i}
    /\ UNCHANGED failed

NotEncrypted ==
    /\ failed' = failed + 1
    /\ UNCHANGED ok

Settle ==
    /\ status = "working"
    /\ Cardinality(ok) + failed < n
    /\ NotEncrypted \/ \E i \in 1 .. n \ ok : Encrypted(i)
    /\ UNCHANGED <<n, status, reply>>

\* s lists the items of S in the order of the request.
Lists(s, S) ==
    /\ s \in Seq(S)
    /\ S = {s[k] : k \in 1 .. Len(s)}
    /\ \A k, l \in 1 .. Len(s) : k < l => s[k] < s[l]

Answer ==
    /\ status = "working"
    /\ Cardinality(ok) + failed = n
    /\ Lists(reply', ok)
    /\ status' = "replied"
    /\ UNCHANGED <<n, ok, failed>>

Next == Check \/ Settle \/ Answer

Spec == Init /\ [][Next]_vars

=============================================================================
