----------------------------- MODULE HsmSession -----------------------------
(***************************************************************************)
(* The KMS server with a PKCS#11 HSM.  Each Encrypt or Decrypt request     *)
(* runs in a goroutine of the gRPC server: the handler calls HSMManager,   *)
(* which takes its lock and calls PKCS11Provider, which takes a lock of    *)
(* its own and uses the one session of the process: it looks the key up    *)
(* (FindObjectsInit, FindObjects, FindObjectsFinal), then sets an          *)
(* operation up (EncryptInit or DecryptInit) and carries it out.  At the   *)
(* start NewHSMManager encrypts "ping" as a self-test, before there is a   *)
(* manager to lock.  The handlers ignore the context of the request.       *)
(*                                                                         *)
(* The session is external: it remembers the one operation that was set    *)
(* up and not finished, refuses to set up another, and any call may fail.  *)
(* Its owner is the caller that set the operation up: the key and nonce    *)
(* in use are the owner's.                                                 *)
(*                                                                         *)
(* An operator whose name starts with Bug is no part of the model: it is   *)
(* the next definition with a plausible bug, kept to see that a property   *)
(* notices it.                                                             *)
(***************************************************************************)
EXTENDS Naturals

CONSTANTS
    Requests,        \* handler goroutines of the gRPC server
    Startup,         \* main, in NewHSMManager
    NoOne            \* nobody holds the lock

ASSUME HsmAssumption ==
    /\ Startup \notin Requests
    /\ NoOne \notin Requests \cup {Startup}

Callers == Requests \cup {Startup}
Kinds == {"encrypt", "decrypt"}
Idle == [op |-> "none", owner |-> NoOne]

VARIABLES
    pc,              \* where each caller is
    kind,            \* what each caller asks for
    answer,          \* "ok" until a call has failed, then "error"
    managerMu,       \* who holds HSMManager.mu
    providerMu,      \* who holds PKCS11Provider.mu
    session          \* the active operation of the session and its owner

callVars == <<kind, answer>>
muVars == <<managerMu, providerMu>>
vars == <<pc, callVars, muVars, session>>

Init ==
    /\ pc = [c \in Callers |-> IF c = Startup THEN "provider_lock" ELSE "off"]
    /\ kind = [c \in Callers |-> "encrypt"]
    /\ answer = [c \in Callers |-> "ok"]
    /\ managerMu = NoOne
    /\ providerMu = NoOne
    /\ session = Idle

Goto(c, place) == pc' = [pc EXCEPT ![c] = place]
Fail(c) == answer' = [answer EXCEPT ![c] = "error"]

BugFree(mu) == TRUE                      \* a lock that lets everyone in
Free(mu) == mu = NoOne

-----------------------------------------------------------------------------
(* the handler and HSMManager *)

Arrive(r) ==
    /\ pc[Startup] = "serving"
    /\ pc[r] \in {"off", "answered"}
    /\ \E k \in Kinds : kind' = [kind EXCEPT ![r] = k]
    /\ answer' = [answer EXCEPT ![r] = "ok"]
    /\ Goto(r, "manager_lock")
    /\ UNCHANGED <<muVars, session>>

BugLockManager(r) ==                     \* RLock: shared by the requests
    /\ pc[r] = "manager_lock"
    /\ Goto(r, "provider_lock")
    /\ UNCHANGED <<callVars, muVars, session>>

LockManager(r) ==
    /\ pc[r] = "manager_lock"
    /\ Free(managerMu)
    /\ managerMu' = r
    /\ Goto(r, "provider_lock")
    /\ UNCHANGED <<callVars, providerMu, session>>

UnlockManager(r) ==
    /\ pc[r] = "manager_unlock"
    /\ managerMu' = NoOne
    /\ Goto(r, "answered")
    /\ UNCHANGED <<callVars, providerMu, session>>

-----------------------------------------------------------------------------
(* PKCS11Provider *)

LockProvider(c) ==
    /\ pc[c] = "provider_lock"
    /\ Free(providerMu)
    /\ providerMu' = c
    /\ Goto(c, "find_init")
    /\ UNCHANGED <<callVars, managerMu, session>>

FindInit(c) ==
    /\ pc[c] = "find_init"
    /\ \/ /\ session = Idle
          /\ session' = [op |-> "find", owner |-> c]
          /\ Goto(c, "find")
          /\ UNCHANGED answer
       \/ /\ Fail(c)
          /\ Goto(c, "provider_unlock")
          /\ UNCHANGED session
    /\ UNCHANGED <<kind, muVars>>

BugFind(c) ==                            \* on an error the search is not ended
    /\ pc[c] = "find"
    /\ \/ Goto(c, "find_final") /\ UNCHANGED answer
       \/ Goto(c, "provider_unlock") /\ Fail(c)
    /\ UNCHANGED <<kind, muVars, session>>

Find(c) ==                               \* fails also if there is no such key
    /\ pc[c] = "find"
    /\ Goto(c, "find_final")
    /\ UNCHANGED answer \/ Fail(c)
    /\ UNCHANGED <<kind, muVars, session>>

FindFinal(c) ==                          \* deferred: whether or not a key was found
    /\ pc[c] = "find_final"
    /\ session' = Idle
    /\ Goto(c, IF answer[c] = "ok" THEN "op_init" ELSE "provider_unlock")
    /\ UNCHANGED <<callVars, muVars>>

\* The nonce of an encryption is drawn here, which may fail too.
OpInit(c) ==
    /\ pc[c] = "op_init"
    /\ \/ /\ session = Idle
          /\ session' = [op |-> kind[c], owner |-> c]
          /\ Goto(c, "op")
          /\ UNCHANGED answer
       \/ /\ Fail(c)
          /\ Goto(c, "provider_unlock")
          /\ UNCHANGED session
    /\ UNCHANGED <<kind, muVars>>

\* C_Encrypt and C_Decrypt end the active operation even if they fail.
Op(c) ==
    /\ pc[c] = "op"
    /\ session' = Idle
    /\ UNCHANGED answer \/ Fail(c)
    /\ Goto(c, "provider_unlock")
    /\ UNCHANGED <<kind, muVars>>

BugAfterProvider(c) ==                   \* the self-test unlocks the manager too
    "manager_unlock"

AfterProvider(c) ==
    IF c \in Requests THEN "manager_unlock"
    ELSE IF answer[c] = "ok" THEN "serving" ELSE "fatal"

BugUnlockProvider(c) ==                  \* an error return keeps the lock
    /\ pc[c] = "provider_unlock"
    /\ providerMu' = IF answer[c] = "ok" THEN NoOne ELSE providerMu
    /\ Goto(c, AfterProvider(c))
    /\ UNCHANGED <<callVars, managerMu, session>>

UnlockProvider(c) ==
    /\ pc[c] = "provider_unlock"
    /\ providerMu' = NoOne
    /\ Goto(c, AfterProvider(c))
    /\ UNCHANGED <<callVars, managerMu, session>>

Provider(c) ==
    \/ LockProvider(c)
    \/ FindInit(c) \/ Find(c) \/ FindFinal(c)
    \/ OpInit(c) \/ Op(c)
    \/ UnlockProvider(c)

-----------------------------------------------------------------------------
Fatal == pc[Startup] = "fatal" /\ UNCHANGED vars        \* log.Fatalf: no server

Next ==
    \/ \E r \in Requests : Arrive(r) \/ LockManager(r) \/ UnlockManager(r)
    \/ \E c \in Callers : Provider(c)
    \/ Fatal

Spec == Init /\ [][Next]_vars

\* Every goroutine that can run is run, and the calls of the PKCS#11 library
\* return (nothing in the code would end one that does not).  A sync.Mutex is
\* handed to a goroutine that has waited long, so nobody waits for it for ever.
FairSpec ==
    /\ Spec
    /\ \A c \in Callers : WF_vars(Provider(c))
    /\ \A r \in Requests : SF_vars(LockManager(r)) /\ WF_vars(UnlockManager(r))

-----------------------------------------------------------------------------
RequestPlaces == {"off", "manager_lock", "manager_unlock", "answered"}
ProviderPlaces ==
    {"provider_lock", "find_init", "find", "find_final", "op_init", "op",
     "provider_unlock"}
StartupPlaces == {"serving", "fatal"}
Places == RequestPlaces \cup ProviderPlaces \cup StartupPlaces

(* Type invariant; the self-test never goes through the manager, nor a     *)
(* request through the start-up.                                           *)
TypeOK ==
    /\ pc \in [Callers -> Places]
    /\ pc[Startup] \notin RequestPlaces
    /\ \A r \in Requests : pc[r] \notin StartupPlaces
    /\ kind \in [Callers -> Kinds]
    /\ answer \in [Callers -> {"ok", "error"}]
    /\ managerMu \in Requests \cup {NoOne}
    /\ providerMu \in Callers \cup {NoOne}
    /\ session \in [op : Kinds \cup {"none", "find"}, owner : Callers \cup {NoOne}]

(* PKCS#11 sessions are not goroutine-safe: with all requests and the      *)
(* self-test on the one session, a caller finds the session idle when it   *)
(* starts a search or an operation, so it is never refused because of      *)
(* somebody else's, and what it has set up is what it carries out.         *)
OwnOperation ==
    \A c \in Callers :
        /\ pc[c] \in {"find_init", "op_init"} => session = Idle
        /\ pc[c] \in {"find", "find_final"} => session = [op |-> "find", owner |-> c]
        /\ pc[c] = "op" => session = [op |-> kind[c], owner |-> c]

(* Whichever call of a request fails, it leaves the session without an     *)
(* active operation to whoever takes the provider's lock next: one error   *)
(* does not make every later request fail too.  The failure of             *)
(* C_FindObjectsFinal, which the code ignores, is the exception: it is     *)
(* taken to end the search all the same.                                   *)
SessionLeftIdle == providerMu = NoOne => session = Idle

(* A request that holds the manager's lock never waits for the provider's: *)
(* the two locks are taken in one order and let one request at a time to   *)
(* the HSM.                                                                *)
InnerLockNeverWaits ==
    \A r \in Requests : pc[r] = "provider_lock" => providerMu = NoOne

(* Every request is answered, however many others there are and whatever   *)
(* fails in them.                                                          *)
EveryRequestAnswered ==
    \A r \in Requests : pc[r] = "manager_lock" ~> pc[r] = "answered"

=============================================================================
