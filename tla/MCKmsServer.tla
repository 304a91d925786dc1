---------------------------- MODULE MCKmsServer ----------------------------
(* A small instance of KmsServer for TLC: an uint of 4 bits, so that two   *)
(* digits may be too many, and keys of two digits.                         *)
EXTENDS KmsServer, SequencesExt

MCSlotVars == SeqOf({0, 1, 6, 10}, 2)
MCKeyFiles == SeqOf({"hex", "space", "other"}, 4)

=============================================================================
