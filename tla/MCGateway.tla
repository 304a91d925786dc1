----------------------------- MODULE MCGateway -----------------------------
(* Small instances of Gateway for TLC: batches of 0 to MaxSent items, some *)
(* longer than MaxItems and some longer than the pool, and fields whose    *)
(* texts have no, one and two characters of padding.                       *)
EXTENDS Gateway

=============================================================================
