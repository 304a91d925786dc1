------------------------- MODULE Verification_proofs -------------------------
(***************************************************************************)
(* Proofs about Verification, for any set of records, any capacity of the  *)
(* semaphore and any timers.                                               *)
(*                                                                         *)
(* Each record is at one station of its way from todo to results.  The     *)
(* timers of the collector and the closer never fire because time passes   *)
(* only while some record waits for the KMS, and no record waits longer    *)
(* than its own timer: the closer's clock is not ahead of the age of any   *)
(* such record, nor is the collector's while the channel is empty.         *)
(***************************************************************************)
EXTENDS Verification, FiniteSetTheorems, TLAPS

-----------------------------------------------------------------------------
\* Not settled yet: the result of r has not been sent.
Open(r) == r \in todo \/ r = cur \/ job[r] = "running"
Settled(r) == r \in chan \/ r = inHand \/ results[r] > 0

(* Each record is open or settled, and at one station only.                *)
Stations ==
    /\ \A r \in Records : Open(r) \/ Settled(r)
    /\ \A r \in todo : r # cur /\ job[r] = "none"
    /\ cur # NoRecord => job[cur] = "none"
    /\ OneResultPerRecord

(* What follows from where main, collector and closer are.                 *)
Control ==
    /\ mainPc = "acquire" => cur # NoRecord
    /\ cur # NoRecord => mainPc \in {"acquire", "crashed"}
    /\ mainPc \in {"load", "returned_nil", "fatal"} => todo = Records /\ chan = {}
    /\ mainPc \in {"await", "returned"} => todo = {}
    /\ mainPc \in {"cancel_drain", "returned_early"} => Live = {}
    /\ collectorPc = "append" <=> inHand # NoRecord
    /\ closerPc # "off" => mainPc \in {"await", "returned", "crashed"}
    /\ mainPc \in {"await", "returned"} => closerPc # "off"
    /\ mainPc = "returned" => collectorPc = "exited"
    /\ closerPc = "exited" => chanClosed
    /\ chanClosed => mainPc \in {"await", "returned", "cancel_drain",
                                 "returned_early", "crashed"}

(* No clock has run for longer than a record may take.                     *)
Clocks ==
    /\ closerPc = "off" => closing = 0
    /\ closing <= timing.record
    /\ \A r \in Records : age[r] <= timing.record
    /\ closerPc = "wait" => \A r \in Live : closing <= age[r]
    /\ collectorPc = "append" => quiet = 0
    /\ collectorPc = "recv" => quiet <= timing.record
    /\ collectorPc = "recv" /\ chan = {} => \A r \in Live : quiet <= age[r]

(* While the collector has gone without a result, main is blocked and no   *)
(* goroutine is about to make room for another.                            *)
Blocked ==
    collectorPc = "recv" /\ chan = {} /\ quiet > 0 =>
        /\ mainPc \notin {"load", "dispatch"}
        /\ mainPc = "acquire" => ~SemaphoreFree
        /\ \A r \in Records : job[r] # "sent"

(* With the code's order of the timers: nothing is forced, the channel is  *)
(* closed only when the goroutines are gone, and the collector leaves only *)
(* when it has everything, or the verification has been cancelled.         *)
InTime ==
    RecordTimerFirst =>
        /\ ~forced
        /\ mainPc # "crashed"
        /\ chanClosed => Live = {}
        /\ collectorPc = "exited" =>
              Collected = Records \/ mainPc \in {"cancel_drain", "returned_early"}

IInv ==
    /\ TypeOK
    /\ Stations
    /\ Control
    /\ Clocks
    /\ Blocked
    /\ InTime

-----------------------------------------------------------------------------
(* The goroutines that hold a place of the semaphore are finitely many.    *)
LEMMA LiveFinite ==
    /\ Live \in SUBSET Records
    /\ IsFiniteSet(Live)
    /\ Cardinality(Live) \in Nat
    /\ \A r : Cardinality(Live \cup {r}) \in 0 .. Cardinality(Live) + 1
    /\ \A r : Cardinality(Live \ {r}) \in 0 .. Cardinality(Live)
<1>1. Live \in SUBSET Records
  BY DEF Live
<1>2. IsFiniteSet(Live)
  BY <1>1, VerificationAssumption, FS_Subset DEF VerificationAssumption
<1>3. Cardinality(Live) \in Nat
  BY <1>2, FS_CardinalityType
<1>4. ASSUME NEW r
      PROVE  Cardinality(Live \cup {r}) \in 0 .. Cardinality(Live) + 1
  <2>1. Cardinality(Live \cup {r}) =
            IF r \in Live THEN Cardinality(Live) ELSE Cardinality(Live) + 1
    BY <1>2, FS_AddElement
  <2>2. QED
    BY <1>3, <2>1
<1>5. ASSUME NEW r
      PROVE  Cardinality(Live \ {r}) \in 0 .. Cardinality(Live)
  <2>1. Cardinality(Live \ {r}) =
            IF r \in Live THEN Cardinality(Live) - 1 ELSE Cardinality(Live)
    BY <1>2, FS_RemoveElement
  <2>2. Cardinality(Live \ {r}) \in Nat
    BY <1>2, FS_RemoveElement, FS_CardinalityType
  <2>3. QED
    BY <1>3, <2>1, <2>2
<1>6. QED
  BY <1>1, <1>2, <1>3, <1>4, <1>5

(* A record becomes live only at the semaphore and leaves only on release. *)
LEMMA LiveStep ==
    ASSUME TypeOK, Control, [Next]_vars
    PROVE  \/ StartRecord /\ Live' = Live \cup {cur}
           \/ \E r \in Records : Release(r) /\ Live' = Live \ {r}
           \/ Live' = Live
<1>1. CASE StartRecord
  BY <1>1 DEF StartRecord, TypeOK, Control, Live
<1>2. ASSUME NEW r \in Records, Release(r)
      PROVE  Live' = Live \ {r}
  BY <1>2 DEF Release, TypeOK, Live
<1>3. ASSUME NEW r \in Records, SendResult(r)
      PROVE  Live' = Live
  BY <1>3 DEF SendResult, Send, SendPanics, jobVars, TypeOK, Live
<1>4. ASSUME UNCHANGED job
      PROVE  Live' = Live
  BY <1>4 DEF Live
<1>5. QED
  BY <1>1, <1>2, <1>3, <1>4
  DEF Next, Step, Main, Load, LoadFails, SendNotFound, Dispatch, DrainOne,
      AllDispatched, Await,
      SeesCancel, CloseEarly, ReturnEarly, Record, StartCall, CallFails, ServerAnswers,
      Collector, Receive, Append, CollectorSeesClose, CollectorGivesUp, Closer, Close,
      CloseAnyway, Tick, Cancel, vars, jobVars

-----------------------------------------------------------------------------
LEMMA TypeInit == Init => TypeOK
<1> SUFFICES ASSUME Init PROVE TypeOK
  OBVIOUS
<1> USE DEF Init
<1>1. Live = {}
  BY DEF Live
<1>2. Cardinality(Live) <= SemCap
  BY <1>1, FS_EmptySet, VerificationAssumption DEF VerificationAssumption
<1>3. /\ job \in [Records -> {"none", "running", "sent", "gone"}]
      /\ call \in [Records -> {"none", "pan", "pan_wait", "cvv", "cvv_wait", "done"}]
      /\ results \in [Records -> Nat]
      /\ age \in [Records -> Nat]
  OBVIOUS
<1>4. QED
  BY <1>2, <1>3 DEF TypeOK

(* Every step keeps the types and the capacity of the semaphore.           *)
LEMMA TypeStep ==
    ASSUME TypeOK, Control, [Next]_vars
    PROVE  TypeOK'
<1> USE VerificationAssumption DEF VerificationAssumption
<1>1. Cardinality(Live') <= SemCap
  <2>1. CASE StartRecord /\ Live' = Live \cup {cur}
    <3>1. Cardinality(Live) + 1 <= SemCap
      BY <2>1, LiveFinite DEF StartRecord, SemaphoreFree
    <3>2. Cardinality(Live \cup {cur}) \in 0 .. Cardinality(Live) + 1
      BY LiveFinite
    <3>3. QED
      BY <2>1, <3>1, <3>2, LiveFinite
  <2>2. ASSUME NEW r \in Records, Live' = Live \ {r}
        PROVE  Cardinality(Live') <= SemCap
    <3>1. Cardinality(Live) <= SemCap
      BY DEF TypeOK
    <3>2. Cardinality(Live \ {r}) \in 0 .. Cardinality(Live)
      BY LiveFinite
    <3>3. Cardinality(Live) \in Nat
      BY LiveFinite
    <3>4. Cardinality(Live \ {r}) <= SemCap
      BY <3>1, <3>2, <3>3
    <3>5. QED
      BY <2>2, <3>4
  <2>3. CASE Live' = Live
    BY <2>3 DEF TypeOK
  <2>4. QED
    BY <2>1, <2>2, <2>3, LiveStep
<1> USE <1>1 DEF TypeOK, ctxVars, mainVars, jobVars, chanVars, sinkVars, timeVars
<1>2. CASE Load \/ LoadFails \/ AllDispatched \/ Await \/ SeesCancel \/ CloseEarly \/ ReturnEarly
  BY <1>2 DEF Load, LoadFails, AllDispatched, Await, SeesCancel, CloseEarly,
     ReturnEarly, Collected
<1>3. ASSUME NEW r \in Records, SendNotFound(r) \/ Dispatch(r) \/ DrainOne(r)
      PROVE  TypeOK'
  BY <1>3 DEF SendNotFound, Dispatch, DrainOne
<1>4. CASE StartRecord
  BY <1>4 DEF StartRecord, Control
<1>5. ASSUME NEW r \in Records, SendResult(r) \/ Release(r)
      PROVE  TypeOK'
  BY <1>5 DEF SendResult, Send, SendPanics, Release
<1>6. ASSUME NEW r \in Records, StartCall(r)
      PROVE  TypeOK'
  BY <1>6 DEF StartCall, Waits
<1>7. ASSUME NEW r \in Records, CallFails(r)
      PROVE  TypeOK'
  BY <1>7 DEF CallFails, NextCall
<1>8. ASSUME NEW r \in Records, NEW f \in {"pan", "cvv"}, ServerAnswers(r, f)
      PROVE  TypeOK'
  BY <1>8 DEF ServerAnswers, NextCall
<1>9. ASSUME NEW r \in Records, Receive(r)
      PROVE  TypeOK'
  BY <1>9 DEF Receive
<1>10. CASE Append
  BY <1>10 DEF Append, Control
<1>11. CASE CollectorSeesClose \/ CollectorGivesUp \/ Close \/ CloseAnyway \/ Cancel
  <2>1. CASE CollectorSeesClose
    BY <2>1 DEF CollectorSeesClose
  <2>2. CASE CollectorGivesUp
    BY <2>2 DEF CollectorGivesUp
  <2>3. CASE Close
    BY <2>3 DEF Close
  <2>4. CASE CloseAnyway
    BY <2>4 DEF CloseAnyway
  <2>5. CASE Cancel
    BY <2>5 DEF Cancel
  <2>6. QED
    BY <1>11, <2>1, <2>2, <2>3, <2>4, <2>5
<1>12. CASE Tick
  BY <1>12 DEF Tick
<1>13. CASE UNCHANGED vars
  BY <1>13 DEF vars
<1>14. QED
  BY <1>2, <1>3, <1>4, <1>5, <1>6, <1>7, <1>8, <1>9, <1>10, <1>11, <1>12, <1>13
  DEF Next, Step, Main, Record, Collector, Closer

-----------------------------------------------------------------------------
LEMMA RestInit == Init => Stations /\ Control /\ Clocks /\ Blocked /\ InTime
<1> SUFFICES ASSUME Init PROVE Stations /\ Control /\ Clocks /\ Blocked /\ InTime
  OBVIOUS
<1> USE VerificationAssumption DEF VerificationAssumption, Init
<1>1. Live = {}
  BY DEF Live
<1>2. Stations
  BY DEF Stations, OneResultPerRecord, Open, Settled
<1>3. Control
  BY DEF Control
<1>4. Clocks
  BY <1>1 DEF Clocks
<1>5. Blocked
  BY DEF Blocked
<1>6. InTime
  BY DEF InTime
<1>7. QED
  BY <1>2, <1>3, <1>4, <1>5, <1>6

(* Every step takes a record to the next station or leaves it where it is. *)
LEMMA StationsStep ==
    ASSUME TypeOK, Control, Stations, [Next]_vars
    PROVE  Stations'
<1> USE VerificationAssumption
    DEF VerificationAssumption, TypeOK, Stations, OneResultPerRecord, Open, Settled
<1>1. ASSUME UNCHANGED <<todo, cur, job, chan, inHand, results>>
      PROVE  Stations'
  BY <1>1
<1>2. ASSUME NEW r \in Records, SendNotFound(r)
      PROVE  Stations'
  BY <1>2 DEF SendNotFound, Control, jobVars, sinkVars
<1>3. ASSUME NEW r \in Records, Dispatch(r)
      PROVE  Stations'
  BY <1>3 DEF Dispatch, Control, jobVars, chanVars, sinkVars
<1>4. ASSUME NEW r \in Records, DrainOne(r)
      PROVE  Stations'
  BY <1>4 DEF DrainOne, mainVars, jobVars
<1>5. CASE StartRecord
  BY <1>5 DEF StartRecord, Control, chanVars, sinkVars
<1>6. ASSUME NEW r \in Records, SendResult(r)
      PROVE  Stations'
  BY <1>6 DEF SendResult, Send, SendPanics, mainVars, jobVars, chanVars, sinkVars
<1>7. ASSUME NEW r \in Records, Release(r)
      PROVE  Stations'
  BY <1>7 DEF Release, mainVars, chanVars, sinkVars
<1>8. ASSUME NEW r \in Records, Receive(r)
      PROVE  Stations'
  BY <1>8 DEF Receive, Control, mainVars, jobVars
<1>9. CASE Append
  BY <1>9 DEF Append, Control, mainVars, jobVars, chanVars
<1>10. QED
  BY <1>1, <1>2, <1>3, <1>4, <1>5, <1>6, <1>7, <1>8, <1>9
  DEF Next, Step, Main, Load, LoadFails, AllDispatched, Await, SeesCancel, CloseEarly,
      ReturnEarly,
      Record, StartCall, CallFails, ServerAnswers, Collector, CollectorSeesClose,
      CollectorGivesUp, Closer, Close, CloseAnyway, Tick, Cancel, vars,
      ctxVars, mainVars, jobVars, chanVars, sinkVars, timeVars

(* Every step leaves main, collector and closer where they agree.          *)
LEMMA ControlStep ==
    ASSUME TypeOK, Stations, Control, [Next]_vars
    PROVE  Control'
<1> USE VerificationAssumption
    DEF VerificationAssumption, TypeOK, Control, ctxVars, mainVars, jobVars, chanVars, sinkVars,
        timeVars
<1>1. ASSUME UNCHANGED <<mainPc, todo, cur, collectorPc, inHand, closerPc, chanClosed>>,
             mainPc \in {"load", "returned_nil", "fatal"} => chan' = {},
             mainPc \in {"cancel_drain", "returned_early"} => Live' = {}
      PROVE  Control'
  BY <1>1
<1>2. CASE Load \/ LoadFails \/ AllDispatched \/ Await \/ SeesCancel \/ CloseEarly \/ ReturnEarly
  <2>1. Live' = Live
    BY <1>2 DEF Load, LoadFails, AllDispatched, Await, SeesCancel, CloseEarly,
       ReturnEarly, Live
  <2>2. QED
    BY <1>2, <2>1 DEF Load, LoadFails, AllDispatched, Await, SeesCancel, CloseEarly,
       ReturnEarly, WgZero
<1>3. ASSUME NEW r \in Records, SendNotFound(r) \/ Dispatch(r) \/ DrainOne(r)
      PROVE  Control'
  <2>1. Live' = Live
    BY <1>3 DEF SendNotFound, Dispatch, DrainOne, Live
  <2>2. QED
    BY <1>3, <2>1 DEF SendNotFound, Dispatch, DrainOne
<1>4. CASE StartRecord
  BY <1>4 DEF StartRecord
<1>5. ASSUME NEW r \in Records, SendResult(r) \/ Release(r)
      PROVE  Control'
  <2>1. mainPc \in {"load", "returned_nil", "fatal"} => Live = {}
    BY DEF Stations, Live
  <2>2. r \in Live /\ Live' \in SUBSET Live
    BY <1>5 DEF SendResult, Send, SendPanics, Release, Live
  <2>3. CASE SendResult(r)
    BY <2>1, <2>2, <2>3 DEF SendResult, Send, SendPanics
  <2>4. CASE Release(r)
    BY <2>1, <2>2, <2>4 DEF Release
  <2>5. QED
    BY <1>5, <2>3, <2>4
<1>6. ASSUME NEW r \in Records, Receive(r)
      PROVE  Control'
  <2>1. Live' = Live
    BY <1>6 DEF Receive, Live
  <2>2. QED
    BY <1>6, <2>1 DEF Receive
<1>7. CASE Append \/ CollectorSeesClose \/ CollectorGivesUp
  <2>1. Live' = Live
    BY <1>7 DEF Append, CollectorSeesClose, CollectorGivesUp, Live
  <2>2. QED
    BY <1>7, <2>1 DEF Append, CollectorSeesClose, CollectorGivesUp
<1>8. CASE Close \/ CloseAnyway
  <2>1. Live' = Live
    BY <1>8 DEF Close, CloseAnyway, Live
  <2>2. QED
    BY <1>8, <2>1 DEF Close, CloseAnyway
<1>9. ASSUME NEW r \in Records, StartCall(r) \/ CallFails(r)
       PROVE  Control'
  BY <1>1, <1>9 DEF StartCall, CallFails, Live
<1>10. ASSUME NEW r \in Records, NEW f \in {"pan", "cvv"}, ServerAnswers(r, f)
       PROVE  Control'
  BY <1>1, <1>10 DEF ServerAnswers, Live
<1>11. CASE Tick \/ Cancel \/ UNCHANGED vars
  BY <1>1, <1>11 DEF Tick, Cancel, vars, Live
<1>12. QED
  BY <1>2, <1>3, <1>4, <1>5, <1>6, <1>7, <1>8, <1>9, <1>10, <1>11
  DEF Next, Step, Main, Record, Collector, Closer

\* The timers are numbers of ticks.
LEMMA TimingType ==
    ASSUME TypeOK
    PROVE  timing.record \in Nat \ {0} /\ timing.collect \in Nat \ {0}
           /\ timing.close \in Nat \ {0}
BY VerificationAssumption DEF VerificationAssumption, TypeOK

(* While everybody waits there is a record that waits for the KMS, unless  *)
(* collector and closer have both ended.                                   *)
LEMMA SomebodyIsLive ==
    ASSUME TypeOK, Control, AllWait, collectorPc = "recv" \/ closerPc = "wait"
    PROVE  Live # {}
<1>1. Live = {} => Cardinality(Live) < SemCap
  BY FS_EmptySet, VerificationAssumption DEF VerificationAssumption
<1>2. QED
  BY <1>1 DEF AllWait, SemaphoreFree, WgZero, Control, TypeOK

LEMMA ClocksStep ==
    ASSUME TypeOK, Stations, Control, Clocks, Blocked, [Next]_vars
    PROVE  Clocks'
<1> USE VerificationAssumption, TimingType
    DEF VerificationAssumption, TypeOK, Clocks, ctxVars, mainVars, jobVars, chanVars, sinkVars,
        timeVars
<1>1. ASSUME UNCHANGED <<timing, timeVars, collectorPc, closerPc>>,
             Live' \in SUBSET Live, chan' = {} => chan = {} \/ Live = {}
      PROVE  Clocks'
  BY <1>1
<1>2. CASE Load \/ LoadFails \/ AllDispatched \/ Await \/ SeesCancel \/ CloseEarly \/ ReturnEarly
  <2>1. Live' = Live
    BY <1>2 DEF Load, LoadFails, AllDispatched, Await, SeesCancel, CloseEarly,
       ReturnEarly, Live
  <2>2. QED
    BY <1>1, <1>2, <2>1, LiveFinite
    DEF Load, LoadFails, AllDispatched, Await, SeesCancel, CloseEarly, ReturnEarly, Control
<1>3. ASSUME NEW r \in Records, SendNotFound(r) \/ Dispatch(r) \/ DrainOne(r)
      PROVE  Clocks'
  <2>1. Live' = Live
    BY <1>3 DEF SendNotFound, Dispatch, DrainOne, Live
  <2>2. QED
    BY <1>1, <1>3, <2>1 DEF SendNotFound, Dispatch, DrainOne, Control
<1>4. CASE StartRecord
  <2>1. cur \in Records /\ closerPc # "wait"
    BY <1>4 DEF StartRecord, Control
  <2>2. Live' = Live \cup {cur}
    BY <1>4, <2>1 DEF StartRecord, Live
  <2>3. collectorPc = "recv" /\ chan = {} => quiet = 0
    BY <1>4 DEF StartRecord, Blocked
  <2>4. QED
    BY <1>4, <2>1, <2>2, <2>3, LiveFinite DEF StartRecord
<1>5. ASSUME NEW r \in Records, SendResult(r) \/ Release(r)
      PROVE  Clocks'
  <2>1. Live' \in SUBSET Live
    BY <1>5 DEF SendResult, Send, SendPanics, Release, Live
  <2>2. QED
    BY <1>1, <1>5, <2>1 DEF SendResult, Send, SendPanics, Release
<1>6. ASSUME NEW r \in Records, Receive(r)
      PROVE  Clocks'
  <2>1. Live' = Live
    BY <1>6 DEF Receive, Live
  <2>2. QED
    BY <1>6, <2>1 DEF Receive
<1>7. CASE Append \/ CollectorSeesClose \/ CollectorGivesUp
  <2>1. Live' = Live
    BY <1>7 DEF Append, CollectorSeesClose, CollectorGivesUp, Live
  <2>2. QED
    BY <1>7, <2>1, LiveFinite DEF Append, CollectorSeesClose, CollectorGivesUp
<1>8. CASE Close \/ CloseAnyway
  <2>1. Live' = Live
    BY <1>8 DEF Close, CloseAnyway, Live
  <2>2. QED
    BY <1>8, <2>1 DEF Close, CloseAnyway
<1>9. ASSUME NEW r \in Records, StartCall(r) \/ CallFails(r)
      PROVE  Clocks'
  BY <1>1, <1>9 DEF StartCall, CallFails, Live
<1>10. ASSUME NEW r \in Records, NEW f \in {"pan", "cvv"}, ServerAnswers(r, f)
       PROVE  Clocks'
  BY <1>1, <1>10 DEF ServerAnswers, Live
<1>11. CASE Tick
  <2>1. Live' = Live
    BY <1>11 DEF Tick, Live
  <2>2. \A r \in Live : r \in Records /\ age[r] < timing.record /\ age'[r] = age[r] + 1
    BY <1>11 DEF Tick, AllWait, RecordDone, Live
  <2>3. \A r \in Records \ Live : age'[r] = age[r]
    BY <1>11 DEF Tick
  <2>4. closerPc = "wait" => closing + 1 <= timing.record
    <3>1. SUFFICES ASSUME closerPc = "wait" PROVE closing + 1 <= timing.record
      OBVIOUS
    <3>2. PICK r \in Live : age[r] < timing.record
      BY <1>11, <2>2, <3>1, SomebodyIsLive DEF Tick
    <3>3. closing <= age[r] /\ age[r] \in Nat
      BY <2>2, <3>1, <3>2
    <3>4. QED
      BY <3>2, <3>3
  <2>5. collectorPc = "recv" => chan = {} /\ quiet + 1 <= timing.record
    BY <1>11, <2>2, SomebodyIsLive DEF Tick, AllWait
  <2>6. UNCHANGED <<timing, chan, collectorPc, closerPc>>
    BY <1>11 DEF Tick
  <2>7. closing' = IF closerPc = "wait" THEN closing + 1 ELSE closing
    BY <1>11 DEF Tick
  <2>8. quiet' = IF collectorPc = "recv" THEN quiet + 1 ELSE quiet
    BY <1>11 DEF Tick
  <2>9. \A r \in Records : age'[r] <= timing.record
    BY <2>2, <2>3
  <2>10. QED
    BY <2>1, <2>2, <2>4, <2>5, <2>6, <2>7, <2>8, <2>9
<1>12. CASE Cancel \/ UNCHANGED vars
  BY <1>1, <1>12 DEF Cancel, vars, Live
<1>13. QED
  BY <1>2, <1>3, <1>4, <1>5, <1>6, <1>7, <1>8, <1>9, <1>10, <1>11, <1>12
  DEF Next, Step, Main, Record, Collector, Closer

(* A main that is blocked is not let go before the collector has received. *)
LEMMA BlockedStep ==
    ASSUME TypeOK, Stations, Control, Clocks, Blocked, [Next]_vars
    PROVE  Blocked'
<1> USE VerificationAssumption
    DEF VerificationAssumption, TypeOK, Blocked, SemaphoreFree, ctxVars, mainVars, jobVars,
        chanVars, sinkVars, timeVars
<1>1. CASE Load \/ LoadFails \/ AllDispatched \/ Await \/ SeesCancel \/ CloseEarly \/ ReturnEarly
  <2>1. Live' = Live
    BY <1>1 DEF Load, LoadFails, AllDispatched, Await, SeesCancel, CloseEarly,
       ReturnEarly, Live
  <2>2. QED
    BY <1>1, <2>1 DEF Load, LoadFails, AllDispatched, Await, SeesCancel, CloseEarly,
       ReturnEarly
<1>2. ASSUME NEW r \in Records, SendNotFound(r) \/ Dispatch(r)
      PROVE  Blocked'
  BY <1>2 DEF SendNotFound, Dispatch
<1>3. ASSUME NEW r \in Records, DrainOne(r)
      PROVE  Blocked'
  BY <1>3 DEF DrainOne, Control, Live
<1>4. CASE StartRecord
  BY <1>4 DEF StartRecord
<1>5. ASSUME NEW r \in Records, SendResult(r) \/ Release(r)
      PROVE  Blocked'
  <2>1. CASE SendResult(r)
    BY <2>1 DEF SendResult, Send, SendPanics
  <2>2. CASE Release(r)
    BY <2>2 DEF Release
  <2>3. QED
    BY <1>5, <2>1, <2>2
<1>6. ASSUME NEW r \in Records, Receive(r)
      PROVE  Blocked'
  BY <1>6 DEF Receive
<1>7. CASE Append \/ CollectorSeesClose \/ CollectorGivesUp
  BY <1>7 DEF Append, CollectorSeesClose, CollectorGivesUp, Clocks
<1>8. ASSUME UNCHANGED <<collectorPc, chan, quiet, mainPc, job>>
      PROVE  Blocked'
  BY <1>8 DEF Live
<1>9. CASE Close \/ CloseAnyway \/ Cancel \/ UNCHANGED vars
  BY <1>8, <1>9 DEF Close, CloseAnyway, Cancel, vars
<1>10. ASSUME NEW r \in Records, StartCall(r) \/ CallFails(r)
       PROVE  Blocked'
  BY <1>8, <1>10 DEF StartCall, CallFails
<1>11. ASSUME NEW r \in Records, NEW f \in {"pan", "cvv"}, ServerAnswers(r, f)
       PROVE  Blocked'
  BY <1>8, <1>11 DEF ServerAnswers
<1>12. CASE Tick
  <2>1. Live' = Live
    BY <1>12 DEF Tick, Live
  <2>2. QED
    BY <1>12, <2>1 DEF Tick, AllWait, Live
<1>13. QED
  BY <1>1, <1>2, <1>3, <1>4, <1>5, <1>6, <1>7, <1>9, <1>10, <1>11, <1>12
  DEF Next, Step, Main, Record, Collector, Closer

\* The timers are not changed while they run.
LEMMA TimingKept == [Next]_vars => UNCHANGED timing
BY DEF Next, Step, Main, Load, LoadFails, SendNotFound, Dispatch, DrainOne,
   StartRecord, AllDispatched,
       Await, SeesCancel, CloseEarly, ReturnEarly, Record, SendResult, Send, SendPanics,
       Release, StartCall, CallFails, ServerAnswers, Collector, Receive, Append,
       CollectorSeesClose, CollectorGivesUp, Closer, Close, CloseAnyway, Tick, Cancel,
       vars, ctxVars

(* With the code's order of the timers no step forces anything, none sends *)
(* on the closed channel, and the collector does not leave too early.      *)
LEMMA InTimeStep ==
    ASSUME IInv, [Next]_vars
    PROVE  InTime'
<1> USE DEF IInv, TypeOK
<1>1. UNCHANGED timing
  BY TimingKept
<1> SUFFICES ASSUME RecordTimerFirst PROVE InTime'
  BY <1>1 DEF RecordTimerFirst, InTime
<1> DEFINE Full == Collected = Records \/ mainPc \in {"cancel_drain", "returned_early"}
<1>2. ~CollectorGivesUp /\ ~CloseAnyway
  BY TimingType DEF Clocks, RecordTimerFirst, CollectorGivesUp, CloseAnyway, Control
<1>3. \A r \in Records : ~SendPanics(r) \/ job[r] # "running"
  BY DEF InTime, SendPanics, Live
<1>4. ASSUME UNCHANGED <<forced, chanClosed, collectorPc>>, Live' \in SUBSET Live,
             mainPc' # "crashed", Collected \subseteq Collected',
             mainPc \in {"cancel_drain", "returned_early"} =>
                 mainPc' \in {"cancel_drain", "returned_early"}
      PROVE  InTime'
  <2>1. Collected' \subseteq Records
    BY DEF Collected
  <2>2. QED
    BY <1>1, <1>4, <2>1 DEF InTime, RecordTimerFirst
<1>5. CASE Load \/ LoadFails \/ AllDispatched \/ Await \/ SeesCancel \/ ReturnEarly
  <2>1. Live' = Live /\ Collected' = Collected
    BY <1>5 DEF Load, LoadFails, AllDispatched, Await, SeesCancel, ReturnEarly, Live,
       Collected,
       jobVars, sinkVars
  <2>2. QED
    BY <1>4, <1>5, <2>1
    DEF Load, LoadFails, AllDispatched, Await, SeesCancel, ReturnEarly, chanVars,
        sinkVars, timeVars
<1>6. CASE CloseEarly
  <2>1. Live' = Live /\ Live = {}
    BY <1>6 DEF CloseEarly, WgZero, Live, jobVars
  <2>2. QED
    BY <1>6, <2>1 DEF CloseEarly, InTime, timeVars, sinkVars
<1>7. ASSUME NEW r \in Records, SendNotFound(r) \/ Dispatch(r) \/ DrainOne(r)
      PROVE  InTime'
  <2>1. Live' = Live
    BY <1>7 DEF SendNotFound, Dispatch, DrainOne, Live, jobVars
  <2>2. Collected \subseteq Collected'
    BY <1>7 DEF SendNotFound, Dispatch, DrainOne, Collected, sinkVars
  <2>3. QED
    BY <1>4, <1>7, <2>1, <2>2
    DEF SendNotFound, Dispatch, DrainOne, mainVars, chanVars, sinkVars, timeVars
<1>8. CASE StartRecord
  <2>1. ~chanClosed /\ (collectorPc # "exited" \/ Collected = Records)
    BY <1>8 DEF StartRecord, Control, InTime
  <2>2. Collected' = Collected
    BY <1>8 DEF StartRecord, Collected, sinkVars
  <2>3. QED
    BY <1>8, <2>1, <2>2 DEF StartRecord, Control, InTime, chanVars, sinkVars, timeVars
<1>9. ASSUME NEW r \in Records, SendResult(r) \/ Release(r)
      PROVE  InTime'
  <2>1. Live' \in SUBSET Live /\ Collected' = Collected
    BY <1>9 DEF SendResult, Send, SendPanics, Release, Live, Collected, jobVars, sinkVars
  <2>2. QED
    BY <1>3, <1>4, <1>9, <2>1
    DEF SendResult, Send, Release, InTime, mainVars, chanVars, sinkVars, timeVars
<1>10. ASSUME NEW r \in Records, Receive(r)
       PROVE  InTime'
  <2>1. Live' = Live
    BY <1>10 DEF Receive, Live, jobVars
  <2>2. QED
    BY <1>10, <2>1 DEF Receive, InTime, mainVars
<1>11. CASE Append
  <2>1. Enough => Collected' = Records
    <3>1. Collected' \in SUBSET Records
      BY DEF Collected
    <3>2. /\ IsFiniteSet(Records)
          /\ Cardinality(Records) \in Nat /\ Cardinality(Collected') \in Nat
          /\ Cardinality(Collected') <= Cardinality(Records)
          /\ Cardinality(Records) = Cardinality(Collected') => Collected' = Records
      BY <3>1, VerificationAssumption, FS_Subset, FS_CardinalityType
      DEF VerificationAssumption
    <3>3. QED
      BY <3>2 DEF Enough
  <2>2. Live' = Live
    BY <1>11 DEF Append, Live, jobVars
  <2>3. QED
    BY <1>11, <2>1, <2>2 DEF Append, InTime, mainVars, chanVars, timeVars
<1>12. CASE CollectorSeesClose
  <2>1. Full
    <3>1. SUFFICES ASSUME mainPc \in {"await", "returned"}, NEW r \in Records
                   PROVE  results[r] > 0
      BY <1>12 DEF CollectorSeesClose, Control, InTime, Collected
    <3>2. job[r] # "running" /\ r \notin todo /\ r # cur
      BY <1>12, <3>1, VerificationAssumption
      DEF CollectorSeesClose, InTime, Live, Control, VerificationAssumption
    <3>3. r \notin chan /\ r # inHand
      BY <1>12, VerificationAssumption
      DEF CollectorSeesClose, Control, VerificationAssumption
    <3>4. QED
      BY <3>2, <3>3 DEF Stations, Open, Settled
  <2>2. Live' = Live /\ Collected' = Collected
    BY <1>12 DEF CollectorSeesClose, Live, Collected, jobVars
  <2>3. QED
    BY <1>12, <2>1, <2>2 DEF CollectorSeesClose, InTime, mainVars, chanVars, timeVars
<1>13. CASE Close
  <2>1. Live' = Live /\ Live = {} /\ Collected' = Collected
    BY <1>13 DEF Close, WgZero, Live, Collected, jobVars, sinkVars
  <2>2. QED
    BY <1>13, <2>1 DEF Close, InTime, mainVars, sinkVars, timeVars
<1>14. ASSUME UNCHANGED <<forced, chanClosed, collectorPc, job, results, mainPc>>
       PROVE  InTime'
  BY <1>4, <1>14 DEF Live, Collected, InTime
<1>15. ASSUME NEW r \in Records, StartCall(r) \/ CallFails(r)
       PROVE  InTime'
  BY <1>14, <1>15 DEF StartCall, CallFails, mainVars, chanVars, sinkVars, timeVars
<1>16. ASSUME NEW r \in Records, NEW f \in {"pan", "cvv"}, ServerAnswers(r, f)
       PROVE  InTime'
  BY <1>14, <1>16 DEF ServerAnswers, mainVars, chanVars, sinkVars, timeVars
<1>17. CASE Tick \/ Cancel \/ UNCHANGED vars
  BY <1>14, <1>17
  DEF Tick, Cancel, vars, mainVars, jobVars, chanVars, sinkVars, timeVars
<1>18. QED
  BY <1>2, <1>5, <1>6, <1>7, <1>8, <1>9, <1>10, <1>11, <1>12, <1>13, <1>15, <1>16, <1>17
  DEF Next, Step, Main, Record, Collector, Closer

-----------------------------------------------------------------------------
LEMMA InductiveInvariant == Spec => []IInv
<1>1. Init => IInv
  BY TypeInit, RestInit DEF IInv
<1>2. IInv /\ [Next]_vars => IInv'
  BY TypeStep, StationsStep, ControlStep, ClocksStep, BlockedStep, InTimeStep DEF IInv
<1>3. QED
  BY <1>1, <1>2, PTL DEF Spec

(* Types, and the number of goroutines at a time.                          *)
THEOREM VerificationTypeCorrect == Spec => []TypeOK
<1>1. IInv => TypeOK
  BY DEF IInv
<1>2. QED
  BY <1>1, InductiveInvariant, PTL

(* No record has two results, whatever the timers, and however answer,     *)
(* timeout, collector and a draining main race.                            *)
THEOREM OneResult == Spec => []OneResultPerRecord
<1>1. IInv => OneResultPerRecord
  BY DEF IInv, Stations
<1>2. QED
  BY <1>1, InductiveInvariant, PTL

(* With the code's order of the timers no goroutine ever sends on the      *)
(* closed channel, on the normal path or the cancelled one.                *)
THEOREM NeverPanics == Spec => []NoPanic
<1>1. IInv => NoPanic
  BY DEF IInv, InTime, NoPanic
<1>2. QED
  BY <1>1, InductiveInvariant, PTL

(* With that order neither collector nor closer ever gives up, however     *)
(* slow the KMS is.                                                        *)
THEOREM TimersOfLastResort == Spec => []LastResortNotNeeded
<1>1. IInv => LastResortNotNeeded
  BY DEF IInv, InTime, LastResortNotNeeded
<1>2. QED
  BY <1>1, InductiveInvariant, PTL

-----------------------------------------------------------------------------
(* The verification implements VerifyReport while the record's timer is    *)
(* the first.                                                              *)

LEMMA ReportInit == Init => Report!Init
BY VerificationAssumption
DEF VerificationAssumption, Init, Report!Init, statusBar, rowsBar, settledBar

\* While a goroutine can send a result, main is still verifying.
LEMMA RunningBeforeTheEnd ==
    ASSUME IInv, RecordTimerFirst, NEW r \in Records, job[r] = "running"
    PROVE  mainPc \in {"dispatch", "acquire", "await", "cancel_wait"}
<1> USE DEF IInv, TypeOK
<1>1. r \in Live /\ results[r] = 0 /\ r \notin todo
  BY DEF Live, Stations, OneResultPerRecord
<1>2. mainPc # "returned"
  BY <1>1 DEF Control, InTime, Collected
<1>3. QED
  BY <1>1, <1>2 DEF Control, InTime

\* A record that was open and has been sent is settled, and no other.
LEMMA SettleStep ==
    ASSUME IInv, NEW r \in Records, Open(r), chan' = chan \cup {r},
           UNCHANGED <<inHand, results, returned>>,
           statusBar = "verifying", UNCHANGED statusBar,
           rowsBar = Records, UNCHANGED rowsBar
    PROVE  Report!Next
<1>1. r \notin settledBar
  BY DEF IInv, TypeOK, Stations, OneResultPerRecord, Open, settledBar
<1>2. settledBar' = settledBar \cup {r}
  BY DEF settledBar
<1>3. Report!Settle(r)
  BY <1>1, <1>2 DEF Report!Settle
<1>4. QED
  BY <1>3 DEF Report!Next

(* Every step of a thread or a timer is a step of VerifyReport or none.    *)
LEMMA ReportStep ==
    ASSUME IInv, RecordTimerFirst, [Next]_vars
    PROVE  [Report!Next]_Report!vars
<1> USE DEF IInv, TypeOK, ctxVars, mainVars, jobVars, chanVars, sinkVars, timeVars
<1>1. ASSUME UNCHANGED <<mainPc, chan, inHand, results, returned>>
      PROVE  UNCHANGED Report!vars
  BY <1>1 DEF Report!vars, statusBar, rowsBar, settledBar
<1>2. ASSUME mainPc \in {"dispatch", "acquire", "await", "cancel_wait"}
      PROVE  statusBar = "verifying" /\ rowsBar = Records
  BY <1>2 DEF statusBar, rowsBar
<1>3. CASE Load
  <2>1. UNCHANGED <<settledBar, returned>>
    BY <1>3 DEF Load, settledBar
  <2>2. CASE cancelled
    BY <1>3, <2>1, <2>2 DEF Load, statusBar, rowsBar, Report!Next, Report!Abandon
  <2>3. CASE ~cancelled
    <3>1. Report!Load
      BY <1>3, <2>1, <2>3 DEF Load, statusBar, rowsBar, Report!Load
    <3>2. QED
      BY <3>1 DEF Report!Next
  <2>4. QED
    BY <2>2, <2>3
<1>4. CASE AllDispatched \/ SeesCancel \/ CloseEarly \/ StartRecord
  BY <1>4
  DEF AllDispatched, SeesCancel, CloseEarly, StartRecord, Report!vars, statusBar, rowsBar,
      settledBar
<1>5. ASSUME NEW r \in Records, Dispatch(r)
      PROVE  UNCHANGED Report!vars
  BY <1>5 DEF Dispatch, Report!vars, statusBar, rowsBar, settledBar
<1>6. CASE Await
  <2>1. Collected = Records
    BY <1>6 DEF Await, InTime
  <2>2. settledBar = Records /\ UNCHANGED settledBar
    BY <1>6, <2>1 DEF Await, Collected, settledBar
  <2>3. statusBar = "verifying" /\ rowsBar = Records
    BY <1>2, <1>6 DEF Await
  <2>4. statusBar' = "full" /\ rowsBar' = Records /\ returned' = Records
    BY <1>6, <2>1 DEF Await, statusBar, rowsBar
  <2>5. QED
    BY <2>2, <2>3, <2>4 DEF Report!Next, Report!Full
<1>7. CASE ReturnEarly
  <2>1. UNCHANGED settledBar /\ returned' \in SUBSET settledBar
    BY <1>7 DEF ReturnEarly, Collected, settledBar
  <2>2. statusBar = "verifying" /\ statusBar' = "cut" /\ UNCHANGED rowsBar
    BY <1>7 DEF ReturnEarly, statusBar, rowsBar
  <2>3. QED
    BY <2>1, <2>2 DEF Report!Next, Report!Cut
<1>8. ASSUME NEW r \in Records, SendNotFound(r)
      PROVE  Report!Next
  <2>1. statusBar = "verifying" /\ rowsBar = Records /\ UNCHANGED <<statusBar, rowsBar>>
    BY <1>2, <1>8 DEF SendNotFound, statusBar, rowsBar
  <2>2. QED
    BY <1>8, <2>1, SettleStep DEF SendNotFound, Open
<1>9. ASSUME NEW r \in Records, SendResult(r)
      PROVE  Report!Next
  <2>1. mainPc \in {"dispatch", "acquire", "await", "cancel_wait"}
    BY <1>9, RunningBeforeTheEnd DEF SendResult
  <2>2. Send(r)
    BY <1>9 DEF SendResult, SendPanics, InTime, Live
  <2>3. statusBar = "verifying" /\ rowsBar = Records /\ UNCHANGED <<statusBar, rowsBar>>
    BY <1>2, <2>1, <2>2 DEF Send, statusBar, rowsBar
  <2>4. QED
    BY <1>9, <2>2, <2>3, SettleStep DEF SendResult, Send, Open
<1>10. ASSUME UNCHANGED <<mainPc, returned, settledBar>>
       PROVE  UNCHANGED Report!vars
  BY <1>10 DEF Report!vars, statusBar, rowsBar
<1>11. ASSUME NEW r \in Records, DrainOne(r)
       PROVE  UNCHANGED Report!vars
  <2>1. settledBar' = settledBar
    BY <1>11 DEF DrainOne, settledBar
  <2>2. QED
    BY <1>10, <1>11, <2>1 DEF DrainOne
<1>12. ASSUME NEW r \in Records, Receive(r)
       PROVE  UNCHANGED Report!vars
  <2>1. settledBar' = settledBar
    BY <1>12, VerificationAssumption DEF VerificationAssumption, Receive, Control, settledBar
  <2>2. QED
    BY <1>10, <1>12, <2>1 DEF Receive
<1>13. CASE Append
  <2>1. settledBar' = settledBar
    BY <1>13, VerificationAssumption DEF VerificationAssumption, Append, Control, settledBar
  <2>2. QED
    BY <1>10, <1>13, <2>1 DEF Append
<1>14. CASE CollectorSeesClose \/ CollectorGivesUp \/ Close \/ CloseAnyway \/ Tick \/ Cancel
            \/ UNCHANGED vars
  BY <1>1, <1>14
  DEF CollectorSeesClose, CollectorGivesUp, Close, CloseAnyway, Tick, Cancel, vars
<1>15. ASSUME NEW r \in Records, Release(r) \/ StartCall(r) \/ CallFails(r)
       PROVE  UNCHANGED Report!vars
  BY <1>1, <1>15 DEF Release, StartCall, CallFails
<1>16. ASSUME NEW r \in Records, NEW f \in {"pan", "cvv"}, ServerAnswers(r, f)
       PROVE  UNCHANGED Report!vars
  BY <1>1, <1>16 DEF ServerAnswers
<1>17. CASE LoadFails
  <2>1. UNCHANGED <<settledBar, rowsBar, returned>>
    BY <1>17 DEF LoadFails, settledBar, rowsBar
  <2>2. statusBar = "loading" /\ statusBar' = "none"
    BY <1>17 DEF LoadFails, statusBar
  <2>3. QED
    BY <2>1, <2>2 DEF Report!Next, Report!Abandon
<1>18. QED
  BY <1>3, <1>4, <1>5, <1>6, <1>7, <1>8, <1>9, <1>11, <1>12, <1>13, <1>14, <1>15, <1>16,
     <1>17
  DEF Next, Step, Main, Record, Collector, Closer

(* Under the code's order of the timers a run of the verification is one   *)
(* of VerifyReport: each row is settled once, and main returns all of them *)
(* or, after a cancellation, some of those that are settled.               *)
THEOREM VerificationImplementsReport == Spec /\ RecordTimerFirst => ReportRefined
<1>1. Init => Report!Init
  BY ReportInit
<1>2. RecordTimerFirst /\ [Next]_vars => RecordTimerFirst'
  BY TimingKept DEF RecordTimerFirst
<1>3. IInv /\ RecordTimerFirst /\ [Next]_vars => [Report!Next]_Report!vars
  BY ReportStep
<1>4. QED
  BY <1>1, <1>2, <1>3, InductiveInvariant, PTL DEF Spec, ReportRefined, Report!Spec

=============================================================================
