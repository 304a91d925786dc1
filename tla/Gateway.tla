------------------------------ MODULE Gateway ------------------------------
(***************************************************************************)
(* cmd/kms-http-server: after a batch request (BatchEncrypt), the way of   *)
(* one field through the single endpoints.  It is encrypted, kept by the   *)
(* client, as the gateway returned it or as one text as the ETL worker     *)
(* stores it, and sent to the decrypt endpoint.  Batch and single requests *)
(* share no state, so the order in which they come does not matter.        *)
(*                                                                         *)
(* KMS, client and column are external: any call may fail, and a column    *)
(* that is too short keeps the beginning of a text.                        *)
(***************************************************************************)
EXTENDS BatchEncrypt, CipherFormat

CONSTANTS
    Bytes,           \* the bytes that a nonce or ciphertext is made of
    MaxCipher        \* bound: length of a ciphertext

ASSUME GatewayAssumption ==
    /\ MaxCipher \in Nat
    /\ Bytes \subseteq 0 .. 255

VARIABLES
    stage,           \* "idle", "kept", "cut", "asked", then "plaintext", "bad_request", "error"
    field,           \* the nonce and ciphertext that the KMS returned
    kept,            \* what the client has of it: the next decrypt request
    asked            \* what the decrypt handler asks the KMS for

singleVars == <<stage, field, kept, asked>>
gatewayVars == <<vars, singleVars>>

Combined(text) == [encrypted |-> text, ciphertext |-> <<>>, nonce |-> <<>>]

GatewayInit ==
    /\ Init
    /\ stage = "idle"
    /\ field = Refused /\ kept = Combined(<<>>) /\ asked = Refused

\* The KMS encrypts nothing to nothing: there is an authentication tag.
KmsAnswers ==
    [ok : {TRUE}, nonce : TupleOf(Bytes, NonceSize), ciphertext : SeqOf(Bytes, MaxCipher) \ {<<>>}]

EncryptHandler(f) ==
    /\ stage = "idle"
    /\ field' = f
    /\ kept' = [encrypted |-> <<>>, ciphertext |-> Encode(f.ciphertext), nonce |-> Encode(f.nonce)]
    /\ stage' = "kept"
    /\ UNCHANGED asked

EncryptRefused ==                \* the body, no plaintext, or the KMS
    /\ stage = "idle"
    /\ stage' \in {"bad_request", "error"}
    /\ UNCHANGED <<field, kept, asked>>

StoreCombined ==
    /\ stage = "kept" /\ kept.encrypted = <<>>
    /\ kept' = Combined(CombineNonceAndCiphertext(field.nonce, field.ciphertext))
    /\ UNCHANGED <<stage, field, asked>>

CutOff(k) ==
    /\ stage = "kept"
    /\ kept' = Combined(SubSeq(kept.encrypted, 1, k))
    /\ stage' = "cut"
    /\ UNCHANGED <<field, asked>>

Decrypt ==
    /\ stage \in {"kept", "cut"}
    /\ asked' = DecryptHandler(kept)
    /\ stage' = IF asked'.ok THEN "asked" ELSE "bad_request"
    /\ UNCHANGED <<field, kept>>

KmsDecrypts ==                   \* it accepts only what it has encrypted
    /\ stage = "asked"
    /\ stage' \in IF asked = field THEN {"plaintext", "error"} ELSE {"error"}
    /\ UNCHANGED <<field, kept, asked>>

Single ==
    \/ \E f \in KmsAnswers : EncryptHandler(f)
    \/ EncryptRefused
    \/ StoreCombined
    \/ \E k \in 1 .. Len(kept.encrypted) - 1 : CutOff(k)
    \/ Decrypt \/ KmsDecrypts

GatewayNext ==
    \/ Next /\ UNCHANGED singleVars
    \/ Ended /\ Single /\ UNCHANGED vars

GatewaySpec == GatewayInit /\ [][GatewayNext]_gatewayVars

\* The fairness of BatchEncrypt.
FairGatewaySpec ==
    GatewaySpec /\ WF_vars(Handler) /\ WF_vars(Pool) /\ WF_vars(CloseResults)

-----------------------------------------------------------------------------
Whole == kept.encrypted \in {<<>>, CombineNonceAndCiphertext(field.nonce, field.ciphertext)}

(* Whether a field was kept as one text or as two, the KMS is asked to     *)
(* decrypt what it has encrypted.  A text that a column has cut off is     *)
(* refused, or it is asked for the right nonce with the beginning of the   *)
(* ciphertext, which it refuses: a field is never taken apart elsewhere.   *)
FieldComesBack ==
    field.ok =>
        /\ stage = "asked" =>
              IF Whole THEN asked = field
              ELSE asked.nonce = field.nonce /\ IsStrictPrefix(asked.ciphertext, field.ciphertext)
        /\ stage = "plaintext" => Whole
        /\ stage = "bad_request" => ~Whole

=============================================================================
