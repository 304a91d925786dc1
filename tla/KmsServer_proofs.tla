-------------------------- MODULE KmsServer_proofs --------------------------
(***************************************************************************)
(* Proofs about HsmSession and KmsServer, for any set of requests, every   *)
(* set of slots, every width of an uint and every set of settings and key  *)
(* files.                                                                  *)
(*                                                                         *)
(* The invariant of HsmSession, IInv, says who holds each lock: exactly    *)
(* the caller whose program counter is in the code the lock guards.  The   *)
(* rest follows: at most one caller is inside the provider, so the session *)
(* has the operation of that caller or none.  The invariant of the start,  *)
(* StartInv, is below.                                                     *)
(***************************************************************************)
EXTENDS KmsServer, NaturalLemmas, FiniteSetTheorems

\* Where a caller has set an operation of the session up.
InOperation == {"find", "find_final", "op"}

\* Where a caller is in the code that the provider's lock guards.
InProvider == InOperation \cup {"find_init", "op_init", "provider_unlock"}

\* Where a request is in the code that the manager's lock guards.
InManager == InProvider \cup {"provider_lock", "manager_unlock"}

ProviderHeld == \A c \in Callers : pc[c] \in InProvider <=> providerMu = c
ManagerHeld == \A r \in Requests : pc[r] \in InManager <=> managerMu = r

SelfTestFirst ==
    /\ pc[Startup] \in InProvider \cup {"provider_lock", "serving", "fatal"}
    /\ pc[Startup] # "serving" => \A r \in Requests : pc[r] = "off"

NobodyNoOperation ==
    (\A c \in Callers : pc[c] \notin InOperation) => session = Idle

OperationOfOwner ==
    \A c \in Callers :
        /\ pc[c] \in {"find", "find_final"} => session = [op |-> "find", owner |-> c]
        /\ pc[c] = "op" => session = [op |-> kind[c], owner |-> c]

IInv ==
    /\ TypeOK
    /\ ProviderHeld
    /\ ManagerHeld
    /\ SelfTestFirst
    /\ NobodyNoOperation
    /\ OperationOfOwner

-----------------------------------------------------------------------------
(* The invariant holds at the start: main is about to run the self-test.   *)
LEMMA InvInit == Init => IInv
<1> SUFFICES ASSUME Init PROVE IInv
    OBVIOUS
<1> USE HsmAssumption DEF Init, Callers
<1>1. TypeOK
    BY DEF TypeOK, Kinds, Places, RequestPlaces, ProviderPlaces, StartupPlaces, Idle
<1>2. ProviderHeld /\ ManagerHeld
    BY DEF ProviderHeld, ManagerHeld, InManager, InProvider, InOperation
<1>3. SelfTestFirst
    BY DEF SelfTestFirst
<1>4. NobodyNoOperation /\ OperationOfOwner
    BY DEF NobodyNoOperation, OperationOfOwner
<1> QED
    BY <1>1, <1>2, <1>3, <1>4 DEF IInv

(* Every step keeps the shape of the variables. *)
LEMMA TypeStep == TypeOK /\ [Next]_vars => TypeOK'
<1> SUFFICES ASSUME TypeOK, [Next]_vars PROVE TypeOK'
    OBVIOUS
<1> USE HsmAssumption DEF TypeOK, Callers, Places, RequestPlaces, ProviderPlaces,
        StartupPlaces, Kinds, Goto, Fail
<1>1. ASSUME NEW r \in Requests, Arrive(r) PROVE TypeOK'
    BY <1>1 DEF Arrive, muVars
<1>2. ASSUME NEW r \in Requests, LockManager(r) PROVE TypeOK'
    BY <1>2 DEF LockManager, callVars
<1>3. ASSUME NEW r \in Requests, UnlockManager(r) PROVE TypeOK'
    BY <1>3 DEF UnlockManager, callVars
<1>4. ASSUME NEW c \in Callers, LockProvider(c) PROVE TypeOK'
    BY <1>4 DEF LockProvider, callVars
<1>5. ASSUME NEW c \in Callers, FindInit(c) PROVE TypeOK'
    BY <1>5 DEF FindInit, muVars
<1>6. ASSUME NEW c \in Callers, Find(c) PROVE TypeOK'
    BY <1>6 DEF Find, muVars
<1>7. ASSUME NEW c \in Callers, FindFinal(c) PROVE TypeOK'
    BY <1>7 DEF FindFinal, Idle, callVars, muVars
<1>8. ASSUME NEW c \in Callers, OpInit(c) PROVE TypeOK'
    BY <1>8 DEF OpInit, muVars
<1>9. ASSUME NEW c \in Callers, Op(c) PROVE TypeOK'
    BY <1>9 DEF Op, Idle, muVars
<1>10. ASSUME NEW c \in Callers, UnlockProvider(c) PROVE TypeOK'
    BY <1>10 DEF UnlockProvider, AfterProvider, callVars
<1>11. CASE UNCHANGED vars
    BY <1>11 DEF vars, callVars, muVars
<1> QED
    BY <1>1, <1>2, <1>3, <1>4, <1>5, <1>6, <1>7, <1>8, <1>9, <1>10, <1>11
    DEF Next, Provider, Fatal

-----------------------------------------------------------------------------
(* A step inside the provider changes where its caller is and no lock; the *)
(* caller stays inside, so the locks' holders stay right.                  *)
LEMMA InsideStep ==
    ASSUME IInv, NEW c \in Callers, NEW p \in InProvider,
           pc[c] \in InProvider, Goto(c, p), UNCHANGED muVars
    PROVE  ProviderHeld' /\ ManagerHeld' /\ SelfTestFirst'
<1> USE HsmAssumption DEF IInv, TypeOK, Callers, Goto, muVars, InManager
<1>1. pc'[c] = p /\ \A d \in Callers \ {c} : pc'[d] = pc[d]
    OBVIOUS
<1>2. ProviderHeld'
    BY <1>1 DEF ProviderHeld
<1>3. ManagerHeld'
    BY <1>1 DEF ManagerHeld
<1>4. SelfTestFirst'
  <2>1. pc[Startup] # "serving" => c = Startup
      BY DEF SelfTestFirst, InProvider, InOperation
  <2>2. c = Startup => pc[Startup] # "serving"
      BY DEF InProvider, InOperation
  <2> QED
      BY <1>1, <2>1, <2>2 DEF SelfTestFirst
<1> QED
    BY <1>2, <1>3, <1>4

(* A caller inside the provider is alone there, so the session has no      *)
(* operation but its own.                                                  *)
LEMMA Alone ==
    ASSUME IInv, NEW c \in Callers, pc[c] \in InProvider
    PROVE  /\ \A d \in Callers \ {c} : pc[d] \notin InProvider
           /\ pc[c] \notin InOperation => session = Idle
<1>1. \A d \in Callers \ {c} : pc[d] \notin InProvider
    BY DEF IInv, ProviderHeld
<1>2. pc[c] \notin InOperation => session = Idle
    BY <1>1 DEF IInv, NobodyNoOperation, InProvider
<1> QED
    BY <1>1, <1>2

(* What the session holds is right after a step of the caller inside.      *)
LEMMA SessionStep ==
    ASSUME IInv, NEW c \in Callers, pc[c] \in InProvider, NEW p \in Places, Goto(c, p),
           UNCHANGED kind,
           p \in {"find", "find_final"} => session' = [op |-> "find", owner |-> c],
           p = "op" => session' = [op |-> kind[c], owner |-> c],
           p \notin InOperation => session' = Idle
    PROVE  NobodyNoOperation' /\ OperationOfOwner'
<1>1. pc'[c] = p /\ \A d \in Callers \ {c} : pc'[d] = pc[d]
    BY DEF IInv, TypeOK, Goto
<1>2. \A d \in Callers \ {c} : pc'[d] \notin InOperation
    BY <1>1, Alone DEF InProvider
<1>3. NobodyNoOperation'
    BY <1>1 DEF NobodyNoOperation
<1>4. OperationOfOwner'
    BY <1>1, <1>2 DEF OperationOfOwner, InOperation
<1> QED
    BY <1>3, <1>4

(* What the session holds is right after a step outside of the provider.   *)
LEMMA OutsideStep ==
    ASSUME IInv, NEW c \in Callers, NEW p \in Places \ InOperation, Goto(c, p),
           pc[c] \notin InOperation, UNCHANGED session,
           \A d \in Callers \ {c} : kind'[d] = kind[d]
    PROVE  NobodyNoOperation' /\ OperationOfOwner'
<1>1. pc'[c] = p /\ \A d \in Callers \ {c} : pc'[d] = pc[d]
    BY DEF IInv, TypeOK, Goto
<1>2. NobodyNoOperation'
    BY <1>1 DEF IInv, NobodyNoOperation
<1>3. OperationOfOwner'
    BY <1>1 DEF IInv, OperationOfOwner, InOperation
<1> QED
    BY <1>2, <1>3

-----------------------------------------------------------------------------
(* Every step keeps the invariant. *)
LEMMA InvStep == IInv /\ [Next]_vars => IInv'
<1> SUFFICES ASSUME IInv, [Next]_vars PROVE IInv'
    OBVIOUS
<1> USE DEF Places, RequestPlaces, ProviderPlaces, StartupPlaces
<1>0. TypeOK'
    BY TypeStep DEF IInv
<1> DEFINE Rest == ProviderHeld' /\ ManagerHeld' /\ SelfTestFirst'
                   /\ NobodyNoOperation' /\ OperationOfOwner'
<1>1. ASSUME NEW r \in Requests, Arrive(r) PROVE Rest
  <2> USE HsmAssumption DEF IInv, TypeOK, Callers, Arrive, Goto, muVars
  <2>1. ProviderHeld' /\ ManagerHeld'
      BY <1>1 DEF ProviderHeld, ManagerHeld, InManager, InProvider, InOperation
  <2>2. SelfTestFirst'
      BY <1>1 DEF SelfTestFirst
  <2>3. NobodyNoOperation' /\ OperationOfOwner'
      BY <1>1, OutsideStep DEF InOperation
  <2> QED
      BY <2>1, <2>2, <2>3
<1>2. ASSUME NEW r \in Requests, LockManager(r) PROVE Rest
  <2> USE HsmAssumption DEF IInv, TypeOK, Callers, LockManager, Goto, Free, callVars
  <2>1. ProviderHeld' /\ ManagerHeld'
      BY <1>2 DEF ProviderHeld, ManagerHeld, InManager, InProvider, InOperation
  <2>2. SelfTestFirst'
      BY <1>2 DEF SelfTestFirst
  <2>3. NobodyNoOperation' /\ OperationOfOwner'
      BY <1>2, OutsideStep DEF InOperation
  <2> QED
      BY <2>1, <2>2, <2>3
<1>3. ASSUME NEW r \in Requests, UnlockManager(r) PROVE Rest
  <2> USE HsmAssumption DEF IInv, TypeOK, Callers, UnlockManager, Goto, callVars
  <2>1. ProviderHeld' /\ ManagerHeld'
      BY <1>3 DEF ProviderHeld, ManagerHeld, InManager, InProvider, InOperation
  <2>2. SelfTestFirst'
      BY <1>3 DEF SelfTestFirst
  <2>3. NobodyNoOperation' /\ OperationOfOwner'
      BY <1>3, OutsideStep DEF InOperation
  <2> QED
      BY <2>1, <2>2, <2>3
<1>4. ASSUME NEW c \in Callers, LockProvider(c) PROVE Rest
  <2> USE HsmAssumption DEF IInv, TypeOK, Callers, LockProvider, Goto, Free, callVars
  <2>1. ProviderHeld' /\ ManagerHeld'
      BY <1>4 DEF ProviderHeld, ManagerHeld, InManager, InProvider, InOperation
  <2>2. SelfTestFirst'
      BY <1>4 DEF SelfTestFirst, InProvider
  <2>3. NobodyNoOperation' /\ OperationOfOwner'
      BY <1>4, OutsideStep DEF InOperation
  <2> QED
      BY <2>1, <2>2, <2>3
<1>5. ASSUME NEW c \in Callers, FindInit(c) PROVE Rest
  <2>1. PICK p \in {"find", "provider_unlock"} :
            /\ Goto(c, p)
            /\ p = "find" => session' = [op |-> "find", owner |-> c]
            /\ p = "provider_unlock" => UNCHANGED session
      BY <1>5 DEF FindInit
  <2>2. pc[c] \in InProvider /\ pc[c] \notin InOperation /\ UNCHANGED <<kind, muVars>>
      BY <1>5 DEF FindInit, InProvider, InOperation
  <2>3. session = Idle
      BY <2>2, Alone
  <2>4. ProviderHeld' /\ ManagerHeld' /\ SelfTestFirst'
      BY <2>1, <2>2, InsideStep DEF InProvider, InOperation
  <2>5. NobodyNoOperation' /\ OperationOfOwner'
      BY <2>1, <2>2, <2>3, SessionStep DEF InOperation
  <2> QED
      BY <2>4, <2>5
<1>6. ASSUME NEW c \in Callers, Find(c) PROVE Rest
  <2>1. /\ Goto(c, "find_final")
        /\ pc[c] = "find"
        /\ UNCHANGED <<kind, muVars, session>>
      BY <1>6 DEF Find
  <2>2. session' = [op |-> "find", owner |-> c]
      BY <2>1 DEF IInv, OperationOfOwner
  <2>3. ProviderHeld' /\ ManagerHeld' /\ SelfTestFirst'
      BY <2>1, InsideStep DEF InProvider, InOperation
  <2>4. NobodyNoOperation' /\ OperationOfOwner'
      BY <2>1, <2>2, SessionStep DEF InProvider, InOperation
  <2> QED
      BY <2>3, <2>4
<1>7. ASSUME NEW c \in Callers, FindFinal(c) PROVE Rest
  <2>1. PICK p \in {"op_init", "provider_unlock"} : Goto(c, p)
      BY <1>7 DEF FindFinal
  <2>2. pc[c] = "find_final" /\ session' = Idle /\ UNCHANGED <<kind, muVars>>
      BY <1>7 DEF FindFinal, callVars
  <2>3. ProviderHeld' /\ ManagerHeld' /\ SelfTestFirst'
      BY <2>1, <2>2, InsideStep DEF InProvider, InOperation
  <2>4. NobodyNoOperation' /\ OperationOfOwner'
      BY <2>1, <2>2, SessionStep DEF InProvider, InOperation
  <2> QED
      BY <2>3, <2>4
<1>8. ASSUME NEW c \in Callers, OpInit(c) PROVE Rest
  <2>1. PICK p \in {"op", "provider_unlock"} :
            /\ Goto(c, p)
            /\ p = "op" => session' = [op |-> kind[c], owner |-> c]
            /\ p = "provider_unlock" => UNCHANGED session
      BY <1>8 DEF OpInit
  <2>2. pc[c] \in InProvider /\ pc[c] \notin InOperation /\ UNCHANGED <<kind, muVars>>
      BY <1>8 DEF OpInit, InProvider, InOperation
  <2>3. session = Idle
      BY <2>2, Alone
  <2>4. ProviderHeld' /\ ManagerHeld' /\ SelfTestFirst'
      BY <2>1, <2>2, InsideStep DEF InProvider, InOperation
  <2>5. NobodyNoOperation' /\ OperationOfOwner'
      BY <2>1, <2>2, <2>3, SessionStep DEF InOperation
  <2> QED
      BY <2>4, <2>5
<1>9. ASSUME NEW c \in Callers, Op(c) PROVE Rest
  <2>1. /\ Goto(c, "provider_unlock")
        /\ pc[c] = "op"
        /\ session' = Idle
        /\ UNCHANGED <<kind, muVars>>
      BY <1>9 DEF Op
  <2>2. ProviderHeld' /\ ManagerHeld' /\ SelfTestFirst'
      BY <2>1, InsideStep DEF InProvider, InOperation
  <2>3. NobodyNoOperation' /\ OperationOfOwner'
      BY <2>1, SessionStep DEF InProvider, InOperation
  <2> QED
      BY <2>2, <2>3
<1>10. ASSUME NEW c \in Callers, UnlockProvider(c) PROVE Rest
  <2>1. pc[c] = "provider_unlock" /\ providerMu' = NoOne /\ Goto(c, AfterProvider(c))
        /\ UNCHANGED <<callVars, managerMu, session>>
      BY <1>10 DEF UnlockProvider
  <2>2. AfterProvider(c) \in {"manager_unlock", "serving", "fatal"}
        /\ (c \in Requests <=> AfterProvider(c) = "manager_unlock")
      BY HsmAssumption DEF AfterProvider, Callers
  <2>3. ProviderHeld' /\ ManagerHeld'
      BY <2>1, <2>2, HsmAssumption
      DEF IInv, TypeOK, Callers, Goto, ProviderHeld, ManagerHeld, InManager,
          InProvider, InOperation
  <2>4. SelfTestFirst'
      BY <2>1, <2>2, HsmAssumption
      DEF IInv, TypeOK, Callers, Goto, SelfTestFirst, AfterProvider
  <2>5. NobodyNoOperation' /\ OperationOfOwner'
      BY <2>1, <2>2, OutsideStep DEF InOperation, callVars
  <2> QED
      BY <2>3, <2>4, <2>5
<1>11. ASSUME UNCHANGED vars PROVE Rest
    BY <1>11 DEF IInv, vars, callVars, muVars, ProviderHeld, ManagerHeld, SelfTestFirst,
       NobodyNoOperation, OperationOfOwner
<1> QED
    BY <1>0, <1>1, <1>2, <1>3, <1>4, <1>5, <1>6, <1>7, <1>8, <1>9, <1>10, <1>11
    DEF Next, Provider, Fatal, IInv

-----------------------------------------------------------------------------
(* What the invariant is for.                                              *)
LEMMA InvSafety ==
    IInv => TypeOK /\ OwnOperation /\ SessionLeftIdle /\ InnerLockNeverWaits
<1>1. IInv => TypeOK
    BY DEF IInv
<1>2. IInv => OwnOperation
    BY Alone DEF IInv, OperationOfOwner, OwnOperation, InProvider, InOperation
<1>3. IInv => SessionLeftIdle
    BY HsmAssumption
    DEF IInv, SessionLeftIdle, ProviderHeld, NobodyNoOperation, InProvider, Callers
<1>4. IInv => InnerLockNeverWaits
  <2> SUFFICES ASSUME IInv, NEW r \in Requests, pc[r] = "provider_lock",
                      providerMu # NoOne
               PROVE  FALSE
      BY DEF InnerLockNeverWaits
  <2>1. PICK c \in Callers : providerMu = c /\ pc[c] \in InProvider
      BY DEF IInv, TypeOK, ProviderHeld
  <2>2. CASE c \in Requests
    <3>1. managerMu = r /\ managerMu = c
        BY <2>1, <2>2 DEF IInv, ManagerHeld, InManager
    <3> QED
        BY <2>1, <3>1 DEF InProvider, InOperation
  <2>3. CASE c = Startup
      BY <2>1, <2>3 DEF IInv, SelfTestFirst, InProvider, InOperation
  <2> QED
      BY <2>2, <2>3 DEF Callers
<1> QED
    BY <1>1, <1>2, <1>3, <1>4

(* The type invariant holds for any set of requests.                       *)
THEOREM HsmTypeCorrect == Spec => []TypeOK
    BY InvInit, InvStep, InvSafety, PTL DEF Spec

(* However many requests share the session, each finds it idle and carries *)
(* out the operation that it set up itself.                                *)
THEOREM SessionExclusive == Spec => []OwnOperation
    BY InvInit, InvStep, InvSafety, PTL DEF Spec

(* No failure leaves an operation active on the session behind it.         *)
THEOREM ErrorsLeaveNothingBehind == Spec => []SessionLeftIdle
    BY InvInit, InvStep, InvSafety, PTL DEF Spec

(* The second lock is always free for the request that holds the first.    *)
THEOREM OneRequestAtTheHsm == Spec => []InnerLockNeverWaits
    BY InvInit, InvStep, InvSafety, PTL DEF Spec

-----------------------------------------------------------------------------
(* GetenvUint: the loop cuts each of its values to the width of an uint,   *)
(* and ends with the remainder of the number the digits stand for.         *)

Result(v) ==
    LET result[i \in 0 .. Len(v)] ==
            IF i = 0 THEN 0 ELSE (result[i - 1] * 10 + v[i]) % Word
    IN  result

Value(v) ==
    LET value[i \in 0 .. Len(v)] == IF i = 0 THEN 0 ELSE value[i - 1] * 10 + v[i]
    IN  value

LEMMA ResultLoop ==
    ASSUME NEW v \in Seq(Nat)
    PROVE  /\ Result(v)[0] = 0
           /\ \A i \in 1 .. Len(v) : Result(v)[i] = (Result(v)[i - 1] * 10 + v[i]) % Word
<1> DEFINE G == [p \in Nat \X (1 .. Len(v)) |-> (p[1] * 10 + v[p[2]]) % Word]
           Body(f, i) == IF i = 0 THEN 0 ELSE (f[i - 1] * 10 + v[i]) % Word
<1>1. Len(v) \in Nat /\ \A i \in 1 .. Len(v) : v[i] \in Nat
  OBVIOUS
<1>2. \A x, y \in Nat : (x * 10 + y) % Word \in Nat
  BY StartAssumption DEF StartAssumption
<1>3. G \in [Nat \X (1 .. Len(v)) -> Nat]
  BY <1>1, <1>2
<1>4. PICK f \in [0 .. Len(v) -> Nat] :
          f[0] = 0 /\ \A i \in 1 .. Len(v) : f[i] = G[<<f[i - 1], i>>]
  <2> HIDE DEF G
  <2>1. 0 \in Nat
    OBVIOUS
  <2>2. \A n \in Nat : \A g \in [Nat \X (1 .. n) -> Nat] :
            \E f \in [0 .. n -> Nat] :
                f[0] = 0 /\ \A i \in 1 .. n : f[i] = g[<<f[i - 1], i>>]
    BY <2>1, Loop, Zenon
  <2>3. QED
    BY <1>1, <1>3, <2>2
<1>5. ASSUME NEW i \in 0 .. Len(v)
      PROVE  f[i] = Body(f, i)
  <2>1. CASE i = 0
    BY <1>4, <2>1
  <2>2. CASE i # 0
    <3>1. i \in 1 .. Len(v) /\ f[i - 1] \in Nat
      <4>1. i \in 1 .. Len(v) /\ i - 1 \in 0 .. Len(v)
        BY <1>1, <2>2
      <4>2. QED
        BY <4>1
    <3>2. f[i] = G[<<f[i - 1], i>>]
      BY <1>4, <3>1
    <3>3. QED
      BY <2>2, <3>1, <3>2
  <2>3. QED
    BY <2>1, <2>2
<1>6. f = [i \in 0 .. Len(v) |-> Body(f, i)]
  BY <1>5
<1>7. Result(v) = [i \in 0 .. Len(v) |-> Body(Result(v), i)]
  BY <1>6 DEF Result
<1>8. QED
  BY <1>1, <1>7

LEMMA ValueLoop ==
    ASSUME NEW v \in Seq(Nat)
    PROVE  /\ Value(v)[0] = 0
           /\ \A i \in 1 .. Len(v) : Value(v)[i] = Value(v)[i - 1] * 10 + v[i]
<1> DEFINE G == [p \in Nat \X (1 .. Len(v)) |-> p[1] * 10 + v[p[2]]]
           Body(f, i) == IF i = 0 THEN 0 ELSE f[i - 1] * 10 + v[i]
<1>1. Len(v) \in Nat /\ \A i \in 1 .. Len(v) : v[i] \in Nat
  OBVIOUS
<1>2. G \in [Nat \X (1 .. Len(v)) -> Nat]
  BY <1>1
<1>3. PICK f \in [0 .. Len(v) -> Nat] :
          f[0] = 0 /\ \A i \in 1 .. Len(v) : f[i] = G[<<f[i - 1], i>>]
  <2> HIDE DEF G
  <2>1. 0 \in Nat
    OBVIOUS
  <2>2. \A n \in Nat : \A g \in [Nat \X (1 .. n) -> Nat] :
            \E f \in [0 .. n -> Nat] :
                f[0] = 0 /\ \A i \in 1 .. n : f[i] = g[<<f[i - 1], i>>]
    BY <2>1, Loop, Zenon
  <2>3. QED
    BY <1>1, <1>2, <2>2
<1>4. ASSUME NEW i \in 0 .. Len(v)
      PROVE  f[i] = Body(f, i)
  <2>1. CASE i = 0
    BY <1>3, <2>1
  <2>2. CASE i # 0
    <3>1. i \in 1 .. Len(v) /\ f[i - 1] \in Nat
      <4>1. i \in 1 .. Len(v) /\ i - 1 \in 0 .. Len(v)
        BY <1>1, <2>2
      <4>2. QED
        BY <4>1
    <3>2. f[i] = G[<<f[i - 1], i>>]
      BY <1>3, <3>1
    <3>3. QED
      BY <2>2, <3>1, <3>2
  <2>3. QED
    BY <2>1, <2>2
<1>5. f = [i \in 0 .. Len(v) |-> Body(f, i)]
  BY <1>4
<1>6. Value(v) = [i \in 0 .. Len(v) |-> Body(Value(v), i)]
  BY <1>5 DEF Value
<1>7. QED
  <2> DEFINE V == Value(v)
  <2>1. V = [i \in 0 .. Len(v) |-> Body(V, i)]
    BY <1>6
  <2> HIDE DEF V
  <2>2. V[0] = 0 /\ \A i \in 1 .. Len(v) : V[i] = V[i - 1] * 10 + v[i]
    <3>1. \A i \in 0 .. Len(v) : V[i] = Body(V, i)
      BY <2>1
    <3>2. 0 \in 0 .. Len(v) /\ \A i \in 1 .. Len(v) : i \in 0 .. Len(v) /\ i # 0
      BY <1>1
    <3>3. QED
      BY <3>1, <3>2
  <2>3. QED
    BY <2>2 DEF V

LEMMA CutEarlier ==
    ASSUME NEW a \in Nat, NEW c \in Nat
    PROVE  ((a % Word) * 10 + c) % Word = (a * 10 + c) % Word
<1> DEFINE q == a \div Word
           r == a % Word
<1>1. Word \in Nat \ {0}
  BY StartAssumption DEF StartAssumption
<1>2. q \in Nat /\ r \in Nat /\ a = Word * q + r
  BY <1>1, Division
<1>3. Word * (q * 10) = (Word * q) * 10
  <2> HIDE DEF q
  <2> QED BY <1>1, <1>2
<1>4. Word * q \in Nat
  BY <1>1, <1>2
<1>5. a * 10 + c = Word * (q * 10) + (r * 10 + c)
  <2> HIDE DEF q, r
  <2> QED BY <1>2, <1>3, <1>4
<1>6. QED
  <2> HIDE DEF q, r
  <2>1. q * 10 \in Nat /\ r * 10 + c \in Nat
    BY <1>2
  <2>2. (Word * (q * 10) + (r * 10 + c)) % Word = (r * 10 + c) % Word
    BY <1>1, <2>1, AddMultiple
  <2>3. (r * 10 + c) % Word = (a * 10 + c) % Word
    BY <1>5, <2>2
  <2> QED BY <2>3 DEF r

LEMMA Converted ==
    ASSUME NEW v \in Seq(Nat)
    PROVE  S!GetenvUint(v) =
               IF S!NonDigit \in {v[i] : i \in DOMAIN v} THEN 0 ELSE S!Numeral(v) % Word
<1> DEFINE Agree == {i \in Nat : i <= Len(v) =>
                        Value(v)[i] \in Nat /\ Result(v)[i] = Value(v)[i] % Word}
<1>1. Word \in Nat \ {0} /\ Len(v) \in Nat /\ \A i \in 1 .. Len(v) : v[i] \in Nat
  BY StartAssumption DEF StartAssumption
<1>2. 0 \in Agree
  <2>1. 0 % Word = 0
    BY <1>1
  <2>2. QED
    BY <2>1, ResultLoop, ValueLoop
<1>3. ASSUME NEW i \in Nat, i \in Agree
      PROVE  i + 1 \in Agree
  <2> SUFFICES ASSUME i + 1 <= Len(v)
               PROVE  /\ Value(v)[i + 1] \in Nat
                      /\ Result(v)[i + 1] = Value(v)[i + 1] % Word
    OBVIOUS
  <2>1. /\ Value(v)[i] \in Nat /\ Result(v)[i] = Value(v)[i] % Word
        /\ i + 1 \in 1 .. Len(v) /\ (i + 1) - 1 = i
    BY <1>1, <1>3
  <2>2. /\ Result(v)[i + 1] = (Result(v)[i] * 10 + v[i + 1]) % Word
        /\ Value(v)[i + 1] = Value(v)[i] * 10 + v[i + 1]
    <3>1. /\ Result(v)[i + 1] = (Result(v)[(i + 1) - 1] * 10 + v[i + 1]) % Word
          /\ Value(v)[i + 1] = Value(v)[(i + 1) - 1] * 10 + v[i + 1]
      BY <2>1, ResultLoop, ValueLoop
    <3>2. QED
      BY <2>1, <3>1
  <2>3. v[i + 1] \in Nat
    BY <1>1, <2>1
  <2>4. ((Value(v)[i] % Word) * 10 + v[i + 1]) % Word = (Value(v)[i] * 10 + v[i + 1]) % Word
    BY <2>1, <2>3, CutEarlier
  <2>5. Value(v)[i + 1] \in Nat
    BY <2>1, <2>2, <2>3
  <2>6. Result(v)[i + 1] = Value(v)[i + 1] % Word
    BY <2>1, <2>2, <2>4, Zenon
  <2>7. QED
    BY <2>5, <2>6
<1>4. Len(v) \in Agree
  <2> HIDE DEF Agree
  <2> QED BY <1>1, <1>2, <1>3, Induction
<1>5. Result(v)[Len(v)] = Value(v)[Len(v)] % Word
  BY <1>4, <1>1
<1>6. S!Numeral(v) = Value(v)[Len(v)]
  BY DEF S!Numeral, Value
<1>7. S!GetenvUint(v) = IF \E i \in DOMAIN v : v[i] = S!NonDigit THEN 0
                        ELSE Result(v)[Len(v)]
  BY DEF S!GetenvUint, Result
<1>8. QED
  <2> HIDE DEF Agree
  <2> QED BY <1>5, <1>6, <1>7

-----------------------------------------------------------------------------
(* IsKey: what is left without the white space around it.                  *)

LEMMA Extremes ==
    ASSUME NEW n \in Nat, NEW T \in SUBSET (1 .. n), T # {}
    PROVE  /\ S!Min(T) \in T /\ S!Max(T) \in T
           /\ \A i \in T : S!Min(T) <= i /\ i <= S!Max(T)
<1>1. T \in SUBSET Nat /\ T \in SUBSET (0 .. n)
  OBVIOUS
<1>2. \E m \in T : \A i \in T : m <= i
  BY <1>1, LeastNatural
<1>3. \E m \in T : \A i \in T : i <= m
  BY <1>1, GreatestNatural
<1>4. S!Min(T) \in T /\ \A i \in T : S!Min(T) <= i
  BY <1>2 DEF S!Min
<1>5. \E m \in T : \A i \in T : m >= i
  BY <1>1, <1>3
<1>6. S!Max(T) \in T /\ \A i \in T : S!Max(T) >= i
  BY <1>5 DEF S!Max
<1>7. QED
  BY <1>1, <1>4, <1>6

KeyAt(f, k) ==
    \A i \in DOMAIN f : f[i] = IF i \in k + 1 .. k + KeyDigits THEN S!Hex ELSE S!Space

LEMMA KeyInOnePiece ==
    ASSUME NEW f \in Seq({S!Hex, S!Space, S!Other})
    PROVE  S!IsKey(f) <=> \E k \in 0 .. Len(f) - KeyDigits : KeyAt(f, k)
<1> DEFINE text == {i \in DOMAIN f : f[i] # S!Space}
<1>1. Len(f) \in Nat /\ DOMAIN f = 1 .. Len(f) /\ KeyDigits \in Nat \ {0}
  BY StartAssumption DEF StartAssumption
<1>2. S!Hex # S!Space
  BY DEF S!Hex, S!Space
<1>3. ASSUME NEW k \in 0 .. Len(f) - KeyDigits, KeyAt(f, k)
      PROVE  text = k + 1 .. k + KeyDigits
  <2>1. \A i \in k + 1 .. k + KeyDigits : i \in DOMAIN f
    BY <1>1
  <2>2. QED
    BY <1>2, <1>3, <2>1 DEF KeyAt
<1>4. CASE text = {}
  <2>1. S!TrimSpace(f) = <<>>
    BY <1>4 DEF S!TrimSpace
  <2>2. ~ S!IsKey(f)
    BY <1>1, <2>1 DEF S!IsKey
  <2>3. \A k \in Nat : k + 1 \in k + 1 .. k + KeyDigits
    BY <1>1
  <2>4. ASSUME NEW k \in 0 .. Len(f) - KeyDigits, KeyAt(f, k)
        PROVE  FALSE
    <3>1. k \in Nat /\ text = k + 1 .. k + KeyDigits
      BY <1>1, <1>3, <2>4
    <3>2. QED
      BY <1>4, <2>3, <3>1
  <2>5. QED
    BY <2>2, <2>4
<1>5. CASE text # {}
  <2> DEFINE a == S!Min(text)
             b == S!Max(text)
             trimmed == SubSeq(f, a, b)
  <2>1. /\ a \in text /\ b \in text
        /\ \A i \in text : a <= i /\ i <= b
    <3>1. text \in SUBSET (1 .. Len(f))
      BY <1>1
    <3>2. QED
      <4> HIDE DEF text
      <4> QED BY <1>1, <1>5, <3>1, Extremes
  <2>2. a \in 1 .. Len(f) /\ b \in 1 .. Len(f) /\ a <= b
    BY <1>1, <2>1
  <2>3. S!TrimSpace(f) = trimmed
    BY <1>5 DEF S!TrimSpace
  <2> HIDE DEF a, b
  <2>4. /\ Len(trimmed) = b - a + 1
        /\ DOMAIN trimmed = 1 .. b - a + 1
        /\ \A i \in 1 .. b - a + 1 : trimmed[i] = f[a + i - 1]
    BY <1>1, <2>2
  <2> HIDE DEF trimmed
  <2>5. S!IsKey(f) <=> b - a + 1 = KeyDigits /\ \A i \in a .. b : f[i] = S!Hex
    <3>1. S!IsKey(f) <=> /\ b - a + 1 = KeyDigits
                         /\ \A i \in 1 .. b - a + 1 : f[a + i - 1] = S!Hex
      BY <2>3, <2>4 DEF S!IsKey
    <3>2. (\A i \in 1 .. b - a + 1 : f[a + i - 1] = S!Hex)
              <=> \A i \in a .. b : f[i] = S!Hex
      <4>1. ASSUME \A i \in 1 .. b - a + 1 : f[a + i - 1] = S!Hex, NEW i \in a .. b
            PROVE  f[i] = S!Hex
        <5>1. i - a + 1 \in 1 .. b - a + 1 /\ a + (i - a + 1) - 1 = i
          BY <2>2
        <5>2. QED
          BY <4>1, <5>1
      <4>2. ASSUME \A i \in a .. b : f[i] = S!Hex, NEW i \in 1 .. b - a + 1
            PROVE  f[a + i - 1] = S!Hex
        <5>1. a + i - 1 \in a .. b
          BY <2>2
        <5>2. QED
          BY <4>2, <5>1
      <4>3. QED
        BY <4>1, <4>2
    <3>3. QED
      BY <3>1, <3>2
  <2>6. ASSUME b - a + 1 = KeyDigits, \A i \in a .. b : f[i] = S!Hex
        PROVE  \E k \in 0 .. Len(f) - KeyDigits : KeyAt(f, k)
    <3>1. a - 1 \in 0 .. Len(f) - KeyDigits
      BY <1>1, <2>2, <2>6
    <3>2. (a - 1) + 1 .. (a - 1) + KeyDigits = a .. b
      BY <1>1, <2>2, <2>6
    <3>3. ASSUME NEW i \in DOMAIN f, i \notin a .. b
          PROVE  f[i] = S!Space
      BY <1>1, <2>1, <2>2, <3>3
    <3>4. KeyAt(f, a - 1)
      BY <2>6, <3>2, <3>3 DEF KeyAt
    <3>5. QED
      BY <3>1, <3>4
  <2>7. ASSUME NEW k \in 0 .. Len(f) - KeyDigits, KeyAt(f, k)
        PROVE  b - a + 1 = KeyDigits /\ \A i \in a .. b : f[i] = S!Hex
    <3>1. text = k + 1 .. k + KeyDigits
      BY <1>3, <2>7
    <3>2. k + 1 \in text /\ k + KeyDigits \in text
      BY <1>1, <3>1
    <3>3. a = k + 1 /\ b = k + KeyDigits
      BY <1>1, <2>1, <2>2, <3>1, <3>2
    <3>4. \A i \in a .. b : i \in DOMAIN f
      BY <1>1, <2>2
    <3>5. QED
      BY <1>1, <2>7, <3>3, <3>4 DEF KeyAt
  <2>8. QED
    BY <2>5, <2>6, <2>7
<1>6. QED
  BY <1>4, <1>5

-----------------------------------------------------------------------------
(* The start.  What is held of the library, and what is known of the       *)
(* slots, follows from where main is.                                      *)

Asked == S!GetenvUint(slotVar)

Held ==
    /\ startPc \in {"choose", "read_key", "file", "fatal", "load"} => library = "off"
    /\ startPc \in {"list", "check", "open"} => library = "initialized"
    /\ startPc = "login" => library = "session"
    /\ startPc \in {"ready", "self_test"} => library = "logged_in"

KeyRead ==
    keyFile # <<>> =>
        /\ startPc \in {"file", "fatal"}
        /\ startPc = "file" <=> S!IsKey(keyFile[1])

\* The slots before the next one have been looked at, and no others.
Search ==
    /\ startPc \in {"choose", "read_key", "file", "load", "list"} =>
          slots = <<>> /\ next = 1 /\ unreadable = {}
    /\ startPc = "check" =>
          /\ unreadable \subseteq {slots[i] : i \in 1 .. next - 1}
          /\ \A i \in 1 .. next - 1 : slots[i] \in unreadable \/ slots[i] # Asked

Chosen ==
    startPc \in {"open", "login", "ready"} =>
        targetSlot = IF Asked \in {slots[i] : i \in DOMAIN slots} \ unreadable
                     THEN Asked ELSE slots[1]

StartInv == S!StartTypeOK /\ Held /\ KeyRead /\ Search /\ Chosen

LEMMA ListsOfSlots ==
    /\ <<>> \in S!SlotLists
    /\ \A list \in S!SlotLists :
          /\ list \in Seq(SlotIds)
          /\ \A i, j \in DOMAIN list : list[i] = list[j] => i = j
<1>1. IsFiniteSet(SlotIds)
  <2>1. Word \in Nat /\ SlotIds \subseteq 0 .. Word - 1
    BY StartAssumption DEF StartAssumption
  <2>2. IsFiniteSet(0 .. Word - 1)
    BY <2>1, FS_Interval
  <2>3. QED
    BY <2>1, <2>2, FS_Subset
<1>2. S!Cardinality(SlotIds) \in Nat
  <2>1. S!Cardinality(SlotIds) = Cardinality(SlotIds)
    BY DEF S!Cardinality, Cardinality
  <2>2. QED
    BY <1>1, <2>1, FS_CardinalityType
<1>3. <<>> \in S!SlotLists
  <2>1. <<>> \in [1 .. 0 -> SlotIds] /\ 0 \in 0 .. S!Cardinality(SlotIds)
    BY <1>2
  <2>2. <<>> \in S!SeqOf(SlotIds, S!Cardinality(SlotIds))
    BY <2>1 DEF S!SeqOf
  <2>3. S!IsInjective(<<>>)
    BY DEF S!IsInjective
  <2>4. QED
    BY <2>2, <2>3 DEF S!SlotLists
<1>4. ASSUME NEW list \in S!SlotLists
      PROVE  /\ list \in Seq(SlotIds)
             /\ \A i, j \in DOMAIN list : list[i] = list[j] => i = j
  <2>1. list \in S!SeqOf(SlotIds, S!Cardinality(SlotIds)) /\ S!IsInjective(list)
    BY DEF S!SlotLists
  <2>2. PICK m \in 0 .. S!Cardinality(SlotIds) : list \in [1 .. m -> SlotIds]
    BY <2>1 DEF S!SeqOf
  <2>3. m \in Nat
    BY <1>2, <2>2
  <2>4. list \in Seq(SlotIds)
    BY <2>2, <2>3
  <2>5. QED
    BY <2>1, <2>4 DEF S!IsInjective
<1>5. QED
  BY <1>3, <1>4

LEMMA StartInit == S!Init => StartInv
<1> SUFFICES ASSUME S!Init PROVE StartInv
  OBVIOUS
<1> USE DEF S!Init
<1>1. S!StartTypeOK
  BY ListsOfSlots DEF S!StartTypeOK
<1>2. Held /\ KeyRead /\ Search /\ Chosen
  BY DEF Held, KeyRead, Search, Chosen
<1>3. QED
  BY <1>1, <1>2 DEF StartInv

(* The steps that leave the search alone: only where main is, the library  *)
(* or the key file changes.                                                *)
LEMMA SearchUntouched ==
    ASSUME StartInv, UNCHANGED <<slots, next, targetSlot, unreadable>>,
           startPc' \in {"choose", "read_key", "file", "fatal", "load", "list",
                         "open", "login", "ready", "self_test"},
           startPc' \in {"choose", "read_key", "file", "load", "list"} =>
               startPc \in {"choose", "read_key", "load"},
           startPc' \in {"open", "login", "ready"} =>
               startPc \in {"open", "login", "ready"} /\ UNCHANGED slotVar
    PROVE  Search' /\ Chosen'
<1> USE DEF StartInv
<1>1. Search'
  BY DEF Search
<1>2. Chosen'
  BY DEF Chosen, Asked
<1>3. QED
  BY <1>1, <1>2

LEMMA StartStep == StartInv /\ S!Start => StartInv'
<1> SUFFICES ASSUME StartInv, S!Start PROVE StartInv'
  OBVIOUS
<1> USE DEF StartInv
<1>0. /\ slots \in Seq(SlotIds) /\ next \in 1 .. Len(slots) + 1
      /\ DOMAIN slots = 1 .. Len(slots) /\ Len(slots) \in Nat
      /\ \A i, j \in DOMAIN slots : slots[i] = slots[j] => i = j
  BY ListsOfSlots DEF S!StartTypeOK
<1>1. CASE S!ChooseFile \/ S!ChooseUnsupported
  <2> USE <1>1 DEF S!ChooseFile, S!ChooseUnsupported
  <2>1. S!StartTypeOK' /\ Held' /\ KeyRead'
    BY DEF S!StartTypeOK, Held, KeyRead
  <2>2. Search' /\ Chosen'
    BY SearchUntouched
  <2>3. QED
    BY <2>1, <2>2
<1>2. ASSUME NEW v \in SlotVars, S!ChoosePKCS11(v)
      PROVE  StartInv'
  <2> USE <1>2 DEF S!ChoosePKCS11
  <2>1. S!StartTypeOK' /\ Held' /\ KeyRead'
    BY DEF S!StartTypeOK, Held, KeyRead
  <2>2. Search' /\ Chosen'
    BY SearchUntouched
  <2>3. QED
    BY <2>1, <2>2
<1>3. CASE S!NoKeyFile
  <2> USE <1>3 DEF S!NoKeyFile
  <2>1. S!StartTypeOK' /\ Held' /\ KeyRead'
    BY DEF S!StartTypeOK, Held, KeyRead
  <2>2. Search' /\ Chosen'
    BY SearchUntouched
  <2>3. QED
    BY <2>1, <2>2
<1>4. ASSUME NEW f \in KeyFiles, S!ReadKey(f)
      PROVE  StartInv'
  <2> USE <1>4 DEF S!ReadKey
  <2>1. S!StartTypeOK' /\ Held'
    BY DEF S!StartTypeOK, Held
  <2>2. KeyRead'
    <3>1. keyFile'[1] = f /\ startPc' = IF S!IsKey(f) THEN "file" ELSE "fatal"
      OBVIOUS
    <3>2. S!IsKey(keyFile[1])' <=> S!IsKey(f)
      BY <3>1 DEF S!IsKey, S!TrimSpace
    <3>3. QED
      BY <3>1, <3>2 DEF KeyRead
  <2>3. Search' /\ Chosen'
    BY SearchUntouched
  <2>4. QED
    BY <2>1, <2>2, <2>3
<1>5. CASE S!CallFails \/ S!NoSlot
  <2> USE <1>5 DEF S!CallFails, S!NoSlot, S!Release
  <2>1. S!StartTypeOK' /\ Held' /\ KeyRead'
    BY DEF S!StartTypeOK, Held, KeyRead
  <2>2. Search' /\ Chosen'
    BY SearchUntouched
  <2>3. QED
    BY <2>1, <2>2
<1>6. CASE S!Initialize \/ S!OpenSession \/ S!Login
  <2> USE <1>6 DEF S!Initialize, S!OpenSession, S!Login
  <2>1. S!StartTypeOK' /\ Held' /\ KeyRead'
    BY DEF S!StartTypeOK, Held, KeyRead
  <2>2. Search' /\ Chosen'
    BY SearchUntouched
  <2>3. QED
    BY <2>1, <2>2
<1>7. ASSUME NEW list \in S!SlotLists, S!GetSlotList(list)
      PROVE  StartInv'
  <2> USE <1>7 DEF S!GetSlotList
  <2>1. next = 1 /\ unreadable = {} /\ Len(list) \in Nat
    BY ListsOfSlots DEF Search
  <2>2. S!StartTypeOK'
    BY <2>1 DEF S!StartTypeOK
  <2>3. Held' /\ KeyRead' /\ Search' /\ Chosen'
    BY <2>1 DEF Held, KeyRead, Search, Chosen
  <2>4. QED
    BY <2>2, <2>3
<1>8. CASE S!TokenInfoFails
  <2> USE <1>8 DEF S!TokenInfoFails
  <2>1. next \in 1 .. Len(slots) /\ next' = next + 1
    BY <1>0
  <2>2. S!StartTypeOK'
    BY <1>0, <2>1 DEF S!StartTypeOK
  <2>3. Held' /\ KeyRead' /\ Chosen'
    BY DEF Held, KeyRead, Chosen
  <2>4. Search'
    <3>1. unreadable' \subseteq {slots[i] : i \in 1 .. next' - 1}
      BY <1>0, <2>1 DEF Search
    <3>2. Asked' = Asked
      BY DEF Asked
    <3>3. \A i \in 1 .. next' - 1 : slots[i] \in unreadable' \/ slots[i] # Asked
      <4>1. \A i \in 1 .. next' - 1 : i \in 1 .. next - 1 \/ i = next
        BY <1>0, <2>1
      <4>2. QED
        BY <4>1 DEF Search
    <3>4. QED
      BY <3>1, <3>2, <3>3 DEF Search
  <2>5. QED
    BY <2>2, <2>3, <2>4
<1>9. CASE S!TokenInfo
  <2> USE <1>9 DEF S!TokenInfo
  <2>1. next \in 1 .. Len(slots) /\ slots[next] \in SlotIds /\ Asked' = Asked
    BY <1>0 DEF Asked
  <2>2. CASE slots[next] = Asked
    <3>1. targetSlot' = slots[next] /\ startPc' = "open" /\ UNCHANGED next
      BY <2>2 DEF Asked
    <3>2. S!StartTypeOK'
      BY <2>1, <3>1 DEF S!StartTypeOK
    <3>3. Held' /\ KeyRead' /\ Search'
      BY <3>1 DEF Held, KeyRead, Search
    <3>4. slots[next] \notin unreadable
      <4>1. \A i \in 1 .. next - 1 : i \in DOMAIN slots /\ i # next
        BY <1>0, <2>1
      <4>2. QED
        BY <1>0, <4>1 DEF Search
    <3>5. Chosen'
      BY <2>1, <2>2, <3>1, <3>4 DEF Chosen
    <3>6. QED
      BY <3>2, <3>3, <3>5
  <2>3. CASE slots[next] # Asked
    <3>1. next' = next + 1 /\ UNCHANGED <<targetSlot, startPc>>
      BY <2>3 DEF Asked
    <3>2. S!StartTypeOK'
      BY <1>0, <2>1, <3>1 DEF S!StartTypeOK
    <3>3. Held' /\ KeyRead' /\ Chosen'
      BY <3>1 DEF Held, KeyRead, Chosen
    <3>4. \A i \in 1 .. next' - 1 : i \in 1 .. next - 1 \/ i = next
      BY <1>0, <2>1, <3>1
    <3>5. 1 .. next - 1 \subseteq 1 .. next' - 1
      BY <1>0, <2>1, <3>1
    <3>6. Search'
      BY <2>1, <2>3, <3>1, <3>4, <3>5 DEF Search
    <3>7. QED
      BY <3>2, <3>3, <3>6
  <2>4. QED
    BY <2>2, <2>3
<1>10. CASE S!FirstSlot
  <2> USE <1>10 DEF S!FirstSlot
  <2>1. 1 \in DOMAIN slots /\ 1 .. next - 1 = DOMAIN slots /\ slots[1] \in SlotIds
    BY <1>0
  <2>2. S!StartTypeOK'
    BY <2>1 DEF S!StartTypeOK
  <2>3. Held' /\ KeyRead' /\ Search'
    BY DEF Held, KeyRead, Search
  <2>4. Chosen'
    <3>1. Asked' = Asked
      BY DEF Asked
    <3>2. Asked \notin {slots[i] : i \in DOMAIN slots} \ unreadable
      BY <2>1 DEF Search
    <3>3. QED
      BY <3>1, <3>2 DEF Chosen
  <2>5. QED
    BY <2>2, <2>3, <2>4
<1>11. CASE S!Return
  <2> USE <1>11 DEF S!Return
  <2>1. S!StartTypeOK'
    BY ListsOfSlots DEF S!StartTypeOK
  <2>2. Held' /\ KeyRead' /\ Search' /\ Chosen'
    BY DEF Held, KeyRead, Search, Chosen
  <2>3. QED
    BY <2>1, <2>2
<1>12. QED
  BY <1>1, <1>2, <1>3, <1>4, <1>5, <1>6, <1>7, <1>8, <1>9, <1>10, <1>11 DEF S!Start

-----------------------------------------------------------------------------
(* The start makes no step of the session and uses none of its locks, so   *)
(* that the server keeps what is proved of HsmSession.                     *)
THEOREM ServerImplementsSession == ServerSpec => Spec
<1>1. ServerInit => Init
  BY DEF ServerInit
<1>2. [ServerNext]_allVars => [Next]_vars
  BY DEF ServerNext, Starting, Serving, HasSession, NotServing, allVars
<1>3. QED
  BY <1>1, <1>2, PTL DEF ServerSpec, Spec

(* In a server that has gone through its start, too, each request carries  *)
(* out its own operation, and a failure leaves nothing behind.             *)
THEOREM SessionInTheServer ==
    ServerSpec => [](OwnOperation /\ SessionLeftIdle /\ InnerLockNeverWaits)
  BY ServerImplementsSession, SessionExclusive, ErrorsLeaveNothingBehind,
     OneRequestAtTheHsm, PTL

(* The invariant of the start, which no request disturbs afterwards.       *)
THEOREM StartInvariance == ServerSpec => []StartInv
<1>1. ServerInit => StartInv
  BY StartInit DEF ServerInit
<1>2. StartInv /\ [ServerNext]_allVars => StartInv'
  <2>1. StartInv /\ UNCHANGED startVars => StartInv'
    BY DEF startVars, StartInv, S!StartTypeOK, Held, KeyRead, Search, Chosen, Asked,
       S!IsKey, S!TrimSpace
  <2>2. Starting => S!Start
    BY DEF Starting
  <2>3. Serving \/ NotServing \/ UNCHANGED allVars => UNCHANGED startVars
    BY DEF Serving, HasSession, NotServing, allVars
  <2>4. QED
    BY <2>1, <2>2, <2>3, StartStep DEF ServerNext
<1>3. QED
  BY <1>1, <1>2, PTL DEF ServerSpec

(* The start keeps its types.                                              *)
THEOREM StartTypeCorrect == ServerSpec => []StartTypeOK
<1>1. StartInv => StartTypeOK
  BY DEF StartInv, StartTypeOK
<1>2. QED
  BY <1>1, StartInvariance, PTL

(* A start that fails leaves neither a session nor an initialized library  *)
(* behind, wherever it fails.                                              *)
THEOREM FailedStartHoldsNothing == ServerSpec => []NothingLeftOpen
<1>1. StartInv => NothingLeftOpen
  BY DEF StartInv, Held, NothingLeftOpen, S!NothingLeftOpen
<1>2. QED
  BY <1>1, StartInvariance, PTL

(* A slot that is asked for, listed and has a token that answers is the    *)
(* one used, for every numeral in KMS_PKCS11_SLOT and every order in which *)
(* the library lists the slots: a numeral of a slot is below the word, so  *)
(* that its conversion does not wrap.                                      *)
THEOREM AnsweringSlotUsed == ServerSpec => []WantedSlotUsed
<1>1. ASSUME StartInv, S!SlotFound, S!Wanted \in S!Valid
      PROVE  targetSlot = S!Wanted
  <2>1. slotVar \in Seq(Nat)
    <3>1. \A v \in SlotVars : v \in Seq(0 .. 10)
      BY StartAssumption DEF StartAssumption, S!NonDigit
    <3>2. slotVar \in Seq(0 .. 10)
      <4>1. slotVar \in SlotVars \cup {<<>>}
        BY <1>1 DEF StartInv, S!StartTypeOK
      <4>2. <<>> \in Seq(0 .. 10)
        OBVIOUS
      <4>3. QED
        BY <3>1, <4>1, <4>2
    <3>3. Len(slotVar) \in Nat /\ slotVar \in [1 .. Len(slotVar) -> Nat]
      BY <3>2
    <3>4. QED
      BY <3>3
  <2>2. Asked = IF S!NonDigit \in {slotVar[i] : i \in DOMAIN slotVar} THEN 0
                ELSE S!Numeral(slotVar) % Word
    BY <2>1, Converted DEF Asked
  <2>3. Asked = IF S!NonDigit \in {slotVar[i] : i \in DOMAIN slotVar} THEN 0
                ELSE S!Wanted % Word
    BY <2>2 DEF S!Wanted, S!ToSet
  <2>4. S!Wanted \in {slots[i] : i \in DOMAIN slots} \ unreadable
    BY <1>1 DEF S!Valid, S!ToSet
  <2>5. S!Wanted \in 0 .. Word - 1 /\ Word \in Nat \ {0}
    <3>1. slots \in Seq(SlotIds)
      BY <1>1, ListsOfSlots DEF StartInv, S!StartTypeOK
    <3>2. \A i \in DOMAIN slots : slots[i] \in SlotIds
      BY <3>1
    <3>3. QED
      BY <2>4, <3>2, StartAssumption DEF StartAssumption
  <2>6. S!Wanted % Word = S!Wanted
    BY <2>5
  <2>7. Asked = S!Wanted
    BY <2>3, <2>6 DEF S!Wanted, S!ToSet
  <2>8. QED
    BY <1>1, <2>4, <2>7 DEF StartInv, Chosen, S!SlotFound
<1>2. StartInv => WantedSlotUsed
  BY <1>1 DEF WantedSlotUsed, S!WantedSlotUsed
<1>3. QED
  BY <1>2, StartInvariance, PTL

(* A server with a key file starts exactly if the file holds one key.      *)
THEOREM OneKeyAccepted == ServerSpec => []KeyFileRead
<1>1. ASSUME StartInv, keyFile # <<>>
      PROVE  startPc = "file" <=>
                 \E k \in 0 .. Len(keyFile[1]) - KeyDigits : KeyAt(keyFile[1], k)
  <2>1. keyFile[1] \in KeyFiles
    BY <1>1 DEF StartInv, S!StartTypeOK
  <2>2. keyFile[1] \in Seq({S!Hex, S!Space, S!Other})
    BY <2>1, StartAssumption DEF StartAssumption
  <2>3. QED
    BY <1>1, <2>2, KeyInOnePiece DEF StartInv, KeyRead
<1>2. StartInv => KeyFileRead
  BY <1>1 DEF KeyFileRead, S!KeyFileRead, KeyAt
<1>3. QED
  BY <1>2, StartInvariance, PTL

=============================================================================
