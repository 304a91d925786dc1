------------------------------ MODULE KmsStart ------------------------------
(***************************************************************************)
(* The start of cmd/kms-server, up to the key manager it will use: a key   *)
(* read from a file, or a session that is logged in to a PKCS#11 token.    *)
(* The PKCS#11 library is external: each call may fail, and it reports any *)
(* of the slots, in any order.  The self-test that follows is HsmSession's.*)
(*                                                                         *)
(* KMS_PKCS11_SLOT and the key file are texts that are converted, so they  *)
(* are sequences here: a character of the first is a digit or NonDigit,    *)
(* one of the second is Hex, Space or Other.                               *)
(*                                                                         *)
(* An operator whose name starts with Bug is no part of the model: it is   *)
(* the next definition with a plausible bug, kept to see that a property   *)
(* notices it.                                                             *)
(***************************************************************************)
EXTENDS Naturals, SequencesExt

CONSTANTS
    SlotIds,         \* the slots there may be
    SlotVars,        \* values of KMS_PKCS11_SLOT; unset is the empty sequence
    Word,            \* number of values of an uint
    KeyFiles,        \* contents of the master key file
    KeyDigits        \* hexadecimal digits of a key: 64

NonDigit == 10
Hex == "hex"
Space == "space"
Other == "other"

VARIABLES
    startPc,         \* where main is
    slotVar,         \* KMS_PKCS11_SLOT
    slots,           \* what GetSlotList returned
    next,            \* position of the slot to look at
    targetSlot,
    library,         \* "off", "initialized", "session" or "logged_in"
    keyFile,         \* <<content>> once the key file has been read
    unreadable       \* history: the slots whose GetTokenInfo failed

startVars == <<startPc, slotVar, slots, next, targetSlot, library, keyFile, unreadable>>

Init ==
    /\ startPc = "choose"
    /\ slotVar = <<>> /\ slots = <<>>
    /\ next = 1
    /\ targetSlot = 0
    /\ library = "off"
    /\ keyFile = <<>>
    /\ unreadable = {}

-----------------------------------------------------------------------------
(* conversions *)

BugGetenvUint(v) ==              \* passes over a character that is no digit
    LET result[i \in 0 .. Len(v)] ==
            IF i = 0 THEN 0
            ELSE IF v[i] = NonDigit THEN result[i - 1]
            ELSE (result[i - 1] * 10 + v[i]) % Word
    IN  result[Len(v)]

\* result[i] is result after the first i characters.  An unset variable and
\* one that is no numeral give the default, 0.
GetenvUint(v) ==
    LET result[i \in 0 .. Len(v)] ==
            IF i = 0 THEN 0 ELSE (result[i - 1] * 10 + v[i]) % Word
    IN  IF \E i \in DOMAIN v : v[i] = NonDigit THEN 0 ELSE result[Len(v)]

BugTrimSpace(f) == SelectSeq(f, LAMBDA c : c # Space)       \* also inside

TrimSpace(f) ==
    LET text == {i \in DOMAIN f : f[i] # Space}
    IN  IF text = {} THEN <<>> ELSE SubSeq(f, Min(text), Max(text))

IsKey(f) ==
    LET text == TrimSpace(f)
    IN  Len(text) = KeyDigits /\ \A i \in DOMAIN text : text[i] = Hex

-----------------------------------------------------------------------------
(* main and NewManager *)

ChooseFile ==
    /\ startPc = "choose"
    /\ startPc' = "read_key"
    /\ UNCHANGED <<slotVar, slots, next, targetSlot, library, keyFile, unreadable>>

\* KMS_HSM_TYPE is aws or azure, which no build of the server supports, or
\* something else.
ChooseUnsupported ==
    /\ startPc = "choose"
    /\ startPc' = "fatal"
    /\ UNCHANGED <<slotVar, slots, next, targetSlot, library, keyFile, unreadable>>

ChoosePKCS11(v) ==               \* without KMS_PKCS11_LIB it is an error
    /\ startPc = "choose"
    /\ slotVar' = v
    /\ startPc' \in {"load", "fatal"}
    /\ UNCHANGED <<slots, next, targetSlot, library, keyFile, unreadable>>

ReadKey(f) ==
    /\ startPc = "read_key"
    /\ keyFile' = <<f>>
    /\ startPc' = IF IsKey(f) THEN "file" ELSE "fatal"
    /\ UNCHANGED <<slotVar, slots, next, targetSlot, library, unreadable>>

NoKeyFile ==
    /\ startPc = "read_key"
    /\ startPc' = "fatal"
    /\ UNCHANGED <<slotVar, slots, next, targetSlot, library, keyFile, unreadable>>

-----------------------------------------------------------------------------
(* NewPKCS11Provider: a call that fails releases what is held and ends it *)

BugRelease == UNCHANGED library          \* an error return without Finalize
Release == library' = "off"

CallFails ==
    /\ startPc \in {"load", "list", "open", "login"}
    /\ Release
    /\ startPc' = "fatal"
    /\ UNCHANGED <<slotVar, slots, next, targetSlot, keyFile, unreadable>>

Initialize ==                    \* the library is loaded and initialized
    /\ startPc = "load"
    /\ library' = "initialized"
    /\ startPc' = "list"
    /\ UNCHANGED <<slotVar, slots, next, targetSlot, keyFile, unreadable>>

SlotLists == {s \in SeqOf(SlotIds, Cardinality(SlotIds)) : IsInjective(s)}

GetSlotList(list) ==
    /\ startPc = "list"
    /\ slots' = list
    /\ startPc' = "check"
    /\ UNCHANGED <<slotVar, next, targetSlot, library, keyFile, unreadable>>

BugTokenInfoFails ==             \* the search ends at the first unreadable slot
    /\ startPc = "check"
    /\ next \in DOMAIN slots
    /\ next' = Len(slots) + 1
    /\ unreadable' = unreadable \cup {slots[next]}
    /\ UNCHANGED <<startPc, slotVar, slots, targetSlot, library, keyFile>>

TokenInfoFails ==
    /\ startPc = "check"
    /\ next \in DOMAIN slots
    /\ next' = next + 1
    /\ unreadable' = unreadable \cup {slots[next]}
    /\ UNCHANGED <<startPc, slotVar, slots, targetSlot, library, keyFile>>

TokenInfo ==
    /\ startPc = "check"
    /\ next \in DOMAIN slots
    /\ IF slots[next] = GetenvUint(slotVar)
       THEN targetSlot' = slots[next] /\ startPc' = "open" /\ UNCHANGED next
       ELSE next' = next + 1 /\ UNCHANGED <<targetSlot, startPc>>
    /\ UNCHANGED <<slotVar, slots, library, keyFile, unreadable>>

BugFirstSlot ==                  \* the position, not the id
    /\ startPc = "check"
    /\ next \notin DOMAIN slots /\ slots # <<>>
    /\ targetSlot' = 1
    /\ startPc' = "open"
    /\ UNCHANGED <<slotVar, slots, next, library, keyFile, unreadable>>

FirstSlot ==                     \* none matches
    /\ startPc = "check"
    /\ next \notin DOMAIN slots /\ slots # <<>>
    /\ targetSlot' = slots[1]
    /\ startPc' = "open"
    /\ UNCHANGED <<slotVar, slots, next, library, keyFile, unreadable>>

NoSlot ==
    /\ startPc = "check"
    /\ slots = <<>>
    /\ Release
    /\ startPc' = "fatal"
    /\ UNCHANGED <<slotVar, slots, next, targetSlot, keyFile, unreadable>>

OpenSession ==
    /\ startPc = "open"
    /\ library' = "session"
    /\ startPc' = "login"
    /\ UNCHANGED <<slotVar, slots, next, targetSlot, keyFile, unreadable>>

Login ==
    /\ startPc = "login"
    /\ library' = "logged_in"
    /\ startPc' = "ready"
    /\ UNCHANGED <<slotVar, slots, next, targetSlot, keyFile, unreadable>>

\* The constructor returns.  Nothing reads its variables any more, so they
\* are forgotten.
Return ==
    /\ startPc = "ready"
    /\ startPc' = "self_test"
    /\ slotVar' = <<>> /\ slots' = <<>> /\ next' = 1 /\ targetSlot' = 0
    /\ unreadable' = {}
    /\ UNCHANGED <<library, keyFile>>

Start ==
    \/ ChooseFile \/ ChooseUnsupported
    \/ \E v \in SlotVars : ChoosePKCS11(v)
    \/ NoKeyFile \/ \E f \in KeyFiles : ReadKey(f)
    \/ CallFails \/ Initialize
    \/ \E list \in SlotLists : GetSlotList(list)
    \/ TokenInfoFails \/ TokenInfo \/ FirstSlot \/ NoSlot
    \/ OpenSession \/ Login \/ Return

-----------------------------------------------------------------------------
(* Type invariant.                                                         *)
StartTypeOK ==
    /\ startPc \in {"choose", "read_key", "file", "fatal", "load", "list", "check",
                    "open", "login", "ready", "self_test"}
    /\ slotVar \in SlotVars \cup {<<>>}
    /\ slots \in SlotLists
    /\ next \in 1 .. Len(slots) + 1
    /\ targetSlot \in SlotIds \cup {0}
    /\ library \in {"off", "initialized", "session", "logged_in"}
    /\ keyFile \in {<<>>} \cup {<<f>> : f \in KeyFiles}
    /\ unreadable \subseteq {slots[i] : i \in DOMAIN slots}

(* Wherever the start fails before the self-test, neither a session nor an *)
(* initialized library is left behind; and the manager gets a session that *)
(* is logged in.                                                           *)
NothingLeftOpen ==
    /\ startPc = "fatal" => library = "off"
    /\ startPc \in {"ready", "self_test"} => library = "logged_in"

\* What the numeral v stands for, however large.
Numeral(v) ==
    LET value[i \in 0 .. Len(v)] == IF i = 0 THEN 0 ELSE value[i - 1] * 10 + v[i]
    IN  value[Len(v)]

\* The slot that is asked for: a numeral asks for what it stands for, any
\* other text for the default of the variable, slot 0.
Wanted == IF NonDigit \in ToSet(slotVar) THEN 0 ELSE Numeral(slotVar)

SlotFound == startPc \in {"open", "login", "ready"}
Valid == ToSet(slots) \ unreadable

(* A slot that is asked for, is in the list and has a token that answers   *)
(* is the one used, wherever in the list it is and whichever other tokens  *)
(* do not answer.  This says nothing of a slot that is not there or whose  *)
(* token does not answer, nor of a numeral too large for an uint.          *)
WantedSlotUsed == SlotFound /\ Wanted \in Valid => targetSlot = Wanted

(* What the comment in the search says: the slot asked for if it matches,  *)
(* otherwise the first valid one.  So a slot fallen back upon, because the *)
(* one asked for is missing or does not answer, is one whose token has     *)
(* answered, if there is any.                                              *)
FallbackIsValid ==
    SlotFound /\ next \notin DOMAIN slots /\ targetSlot # Wanted /\ Valid # {} =>
        targetSlot \in Valid

(* A file is a key exactly if it has the digits of one key, in one piece,  *)
(* and nothing but white space around them.                                *)
KeyFileRead ==
    keyFile # <<>> =>
        LET f == keyFile[1]
            KeyAt(k) == \A i \in DOMAIN f :
                            f[i] = IF i \in k + 1 .. k + KeyDigits THEN Hex ELSE Space
        IN  startPc = "file" <=> \E k \in 0 .. Len(f) - KeyDigits : KeyAt(k)

=============================================================================
