----------------------------- MODULE KmsServer -----------------------------
(***************************************************************************)
(* The KMS server from its start (KmsStart) to its requests (HsmSession):  *)
(* the self-test and the requests use the session the start has opened.    *)
(* A server with a key file serves from memory, under a read lock that no  *)
(* one takes for writing: nothing is left to interleave there.             *)
(***************************************************************************)
EXTENDS HsmSession, Sequences

CONSTANTS SlotIds, SlotVars, Word, KeyFiles, KeyDigits

VARIABLES startPc, slotVar, slots, next, targetSlot, library, keyFile, unreadable

S == INSTANCE KmsStart

ASSUME StartAssumption ==
    /\ Word \in Nat \ {0}
    /\ SlotIds \subseteq 0 .. Word - 1
    /\ \A v \in SlotVars : v \in Seq(0 .. S!NonDigit)
    /\ \A f \in KeyFiles : f \in Seq({S!Hex, S!Space, S!Other})
    /\ KeyDigits \in Nat \ {0}

startVars == <<startPc, slotVar, slots, next, targetSlot, library, keyFile, unreadable>>
allVars == <<vars, startVars>>

ServerInit == Init /\ S!Init

Starting == S!Start /\ UNCHANGED vars

UsesHSM == startPc = "self_test"
HasSession(A) == UsesHSM /\ A /\ UNCHANGED startVars

Serving == HasSession(Next)

NotServing == startPc \in {"file", "fatal"} /\ UNCHANGED allVars

ServerNext == Starting \/ Serving \/ NotServing

ServerSpec == ServerInit /\ [][ServerNext]_allVars

\* The fairness of HsmSession, once there is a session.
FairServerSpec ==
    /\ ServerSpec
    /\ WF_allVars(Starting)
    /\ \A c \in Callers : WF_allVars(HasSession(Provider(c)))
    /\ \A r \in Requests :
          /\ SF_allVars(HasSession(LockManager(r)))
          /\ WF_allVars(HasSession(UnlockManager(r)))

-----------------------------------------------------------------------------
(* The start keeps its types (see KmsStart, as for the next three).        *)
StartTypeOK == S!StartTypeOK

(* A start that fails before the self-test releases what it held.          *)
NothingLeftOpen == S!NothingLeftOpen

(* A slot that is asked for and answers is the one used.                   *)
WantedSlotUsed == S!WantedSlotUsed

(* A key file is accepted exactly if it holds one key.                     *)
KeyFileRead == S!KeyFileRead

(* What a comment says and the code does not do: fall back on a slot whose *)
(* token has answered.                                                     *)
FallbackIsValid == S!FallbackIsValid

=============================================================================
