---------------------------- MODULE CipherFormat ----------------------------
(***************************************************************************)
(* The format of an encrypted field, base64 of the nonce followed by the   *)
(* ciphertext (internal/kms/encryption_format.go), and what the decrypt    *)
(* endpoint of cmd/kms-http-server makes of a request in either format.    *)
(*                                                                         *)
(* Bytes are 0 .. 255.  A character of a base64 text is the number it      *)
(* stands for, 0 .. 63, or Pad.  The base64 coding is external: three      *)
(* bytes are four characters, and the end is padded.  Line breaks, which   *)
(* the decoder passes over, are left out.                                  *)
(*                                                                         *)
(* An operator whose name starts with Bug is no part of the model: it is   *)
(* the next definition with a plausible bug, kept to see that a property   *)
(* notices it.                                                             *)
(***************************************************************************)
EXTENDS Naturals, SequencesExt

CONSTANT
    NonceSize        \* 12 bytes

ASSUME FormatAssumption == NonceSize \in Nat

Pad == 64
Refused == [ok |-> FALSE]

-----------------------------------------------------------------------------
(* base64 *)

\* The bits of three bytes in four characters; what is missing counts as 0.
Encode(bytes) ==
    [k \in 1 .. 4 * ((Len(bytes) + 2) \div 3) |->
        LET g == 3 * ((k - 1) \div 4)
            b(p) == IF g + p \in DOMAIN bytes THEN bytes[g + p] ELSE 0
        IN  IF k % 4 = 1 THEN b(1) \div 4
            ELSE IF k % 4 = 2 THEN (b(1) % 4) * 16 + b(2) \div 16
            ELSE IF k % 4 = 3 THEN
                 IF g + 2 > Len(bytes) THEN Pad ELSE (b(2) % 16) * 4 + b(3) \div 64
            ELSE IF g + 3 > Len(bytes) THEN Pad ELSE b(3) % 64]

Pads(text) == Cardinality({k \in DOMAIN text : text[k] = Pad})

WellFormed(text) ==
    /\ Len(text) % 4 = 0
    /\ Pads(text) <= 2
    /\ \A k \in DOMAIN text : text[k] = Pad => k > Len(text) - Pads(text)

Decode(text) ==
    [i \in 1 .. 3 * (Len(text) \div 4) - Pads(text) |->
        LET c(p) == text[4 * ((i - 1) \div 3) + p]
        IN  IF i % 3 = 1 THEN c(1) * 4 + c(2) \div 16
            ELSE IF i % 3 = 2 THEN (c(2) % 16) * 16 + c(3) \div 4
            ELSE (c(3) % 4) * 64 + c(4)]

-----------------------------------------------------------------------------
(* encryption_format.go *)

CombineNonceAndCiphertext(nonce, ciphertext) == Encode(nonce \o ciphertext)

BugSplitNonceAndCiphertext(text, nonceSize) ==      \* the length is not checked
    LET combined == Decode(text)
    IN  IF ~WellFormed(text) THEN Refused
        ELSE [ok |-> TRUE, nonce |-> SubSeq(combined, 1, Min({nonceSize, Len(combined)})),
              ciphertext |-> SubSeq(combined, nonceSize + 1, Len(combined))]

SplitNonceAndCiphertext(text, nonceSize) ==
    LET combined == Decode(text)
    IN  IF ~WellFormed(text) \/ Len(combined) < nonceSize THEN Refused
        ELSE [ok |-> TRUE, nonce |-> SubSeq(combined, 1, nonceSize),
              ciphertext |-> SubSeq(combined, nonceSize + 1, Len(combined))]

(* decryptHandler: what the KMS is asked to decrypt for a request *)

DecryptHandler(req) ==
    IF req.encrypted # <<>> THEN SplitNonceAndCiphertext(req.encrypted, NonceSize)
    ELSE IF ~WellFormed(req.ciphertext) \/ ~WellFormed(req.nonce) THEN Refused
    ELSE [ok |-> TRUE, nonce |-> Decode(req.nonce), ciphertext |-> Decode(req.ciphertext)]

=============================================================================
