------------------------- MODULE EtlPipeline_proofs -------------------------
(***************************************************************************)
(* Proofs about EtlPipeline, for every table, number of workers, channel   *)
(* capacity and batch size.                                                *)
(***************************************************************************)
EXTENDS EtlPipeline, FiniteSetTheorems, TLAPS

-----------------------------------------------------------------------------
(* What a thread has in its hands follows from where it is, and there are  *)
(* no threads before the test encryption has passed.                       *)
Hands ==
    /\ mainPc \in {"kms_test", "fatal"} =>
          /\ feederPc = "off" /\ writerPc = "off"
          /\ \A w \in Workers : workerPc[w] = "off"
    /\ cursor # NoRow <=> feederPc = "push"
    /\ \A w \in Workers :
          held[w] # NoRow <=> workerPc[w] \in {"pan", "cvv", "send"}

(* A subset of the rows is finite, and moving one row changes its size by  *)
(* at most one.  Every channel, the batch and the history sets are such    *)
(* subsets.                                                                *)
LEMMA RowSets ==
    ASSUME NEW S \in SUBSET Rows
    PROVE  /\ IsFiniteSet(S)
           /\ Cardinality(S) \in Nat
           /\ \A r : Cardinality(S \ {r}) <= Cardinality(S)
           /\ \A r : /\ Cardinality(S \cup {r}) <= Cardinality(S) + 1
                     /\ r \notin S => Cardinality(S \cup {r}) = Cardinality(S) + 1
<1>1. IsFiniteSet(S)
  BY EtlAssumption, FS_Subset DEF EtlAssumption
<1>2. Cardinality(S) \in Nat
  BY <1>1, FS_CardinalityType
<1>3. ASSUME NEW r
      PROVE  Cardinality(S \ {r}) <= Cardinality(S)
  <2>1. Cardinality(S \ {r}) = IF r \in S THEN Cardinality(S) - 1
                                          ELSE Cardinality(S)
    BY <1>1, FS_RemoveElement
  <2>2. QED
    BY <1>2, <2>1
<1>4. ASSUME NEW r
      PROVE  /\ Cardinality(S \cup {r}) <= Cardinality(S) + 1
             /\ r \notin S => Cardinality(S \cup {r}) = Cardinality(S) + 1
  <2>1. Cardinality(S \cup {r}) = IF r \in S THEN Cardinality(S)
                                             ELSE Cardinality(S) + 1
    BY <1>1, FS_AddElement
  <2>2. QED
    BY <1>2, <2>1
<1>5. QED
  BY <1>1, <1>2, <1>3, <1>4

LEMMA TypeInit == Init => TypeOK /\ Hands
<1>1. Cardinality({}) = 0
  BY FS_EmptySet
<1>2. Init => Cardinality(jobs) <= JobsCap /\ Cardinality(results) <= ResultsCap
  BY <1>1, EtlAssumption DEF EtlAssumption, Init
<1>3. Init => TypeOK
  <2> SUFFICES ASSUME Init PROVE TypeOK
    OBVIOUS
  <2>1. /\ workerPc \in [Workers -> {"off", "take", "pan", "cvv", "send", "exited"}]
        /\ held \in [Workers -> Rows \cup {NoRow}]
        /\ dst \in [Rows -> Nat]
    BY DEF Init
  <2>2. jobsClosed \in BOOLEAN /\ resultsClosed \in BOOLEAN
    BY DEF Init
  <2>3. QED
    BY <1>2, <2>1, <2>2 DEF Init, TypeOK
<1>4. Init => Hands
  BY EtlAssumption DEF EtlAssumption, Init, Hands
<1>5. QED
  BY <1>3, <1>4

(* Every step keeps the types, the capacities, and what the threads hold.  *)
LEMMA TypeStep ==
    ASSUME TypeOK, Hands, [Next]_vars
    PROVE  TypeOK' /\ Hands'
<1> USE EtlAssumption DEF EtlAssumption, TypeOK, Hands
<1>1. CASE Main
  <2>1. CASE KMSTestFails \/ CloseResults \/ Report
    BY <2>1 DEF KMSTestFails, CloseResults, Report,
       feederVars, workerVars, writerVars, errorVars, jobsVars, resultsVars
  <2>2. CASE StartThreads
    BY <2>2 DEF StartThreads, errorVars, jobsVars, resultsVars
  <2>3. QED
    BY <1>1, <2>1, <2>2 DEF Main
<1>2. CASE Query \/ RowsEnd \/ CloseJobs
  BY <1>2 DEF Query, RowsEnd, CloseJobs,
     workerVars, writerVars, errorVars, jobsVars, resultsVars
<1>3. ASSUME NEW r \in Rows, ScanRow(r) \/ ScanFails(r)
      PROVE  TypeOK' /\ Hands'
  <2>1. CASE ScanRow(r)
    BY <2>1 DEF ScanRow, workerVars, writerVars, errorVars, jobsVars, resultsVars
  <2>2. CASE ScanFails(r)
    BY <2>2 DEF ScanFails, workerVars, writerVars, errorVars, jobsVars, resultsVars
  <2>3. QED
    BY <1>3, <2>1, <2>2
<1>4. CASE PushJob
  <2>1. Cardinality(jobs') <= JobsCap
    <3>1. Cardinality(jobs) + 1 <= JobsCap
      BY <1>4, RowSets DEF PushJob
    <3>2. QED
      BY <1>4, <3>1, RowSets DEF PushJob
  <2>2. QED
    BY <1>4, <2>1 DEF PushJob, workerVars, writerVars, errorVars, resultsVars
<1>5. ASSUME NEW w \in Workers, NEW r \in Rows, TakeJob(w, r)
      PROVE  TypeOK' /\ Hands'
  <2>1. Cardinality(jobs') <= JobsCap
    <3>1. jobs' = jobs \ {r}
      BY <1>5 DEF TakeJob
    <3>2. Cardinality(jobs \ {r}) <= Cardinality(jobs)
      BY RowSets
    <3>3. QED
      BY <3>1, <3>2, RowSets
  <2>2. QED
    BY <1>5, <2>1 DEF TakeJob, feederVars, writerVars, errorVars, resultsVars
<1>6. ASSUME NEW w \in Workers, EncryptPAN(w) \/ EncryptCVV(w) \/ WorkerExits(w)
      PROVE  TypeOK' /\ Hands'
  BY <1>6 DEF EncryptPAN, EncryptCVV, WorkerExits,
     feederVars, writerVars, errorVars, jobsVars, resultsVars
<1>7. ASSUME NEW w \in Workers, EncryptFails(w)
      PROVE  TypeOK' /\ Hands'
  BY <1>7 DEF EncryptFails, feederVars, writerVars, jobsVars, resultsVars
<1>8. ASSUME NEW w \in Workers, SendResult(w)
      PROVE  TypeOK' /\ Hands'
  <2>1. Cardinality(results') <= ResultsCap
    <3>1. Cardinality(results) + 1 <= ResultsCap
      BY <1>8, RowSets DEF SendResult
    <3>2. QED
      BY <1>8, <3>1, RowSets DEF SendResult
  <2>2. QED
    BY <1>8, <2>1 DEF SendResult, feederVars, writerVars, errorVars, jobsVars
<1>9. ASSUME NEW r \in Rows, Receive(r)
      PROVE  TypeOK' /\ Hands'
  <2>1. Cardinality(results') <= ResultsCap
    <3>1. results' = results \ {r}
      BY <1>9 DEF Receive
    <3>2. Cardinality(results \ {r}) <= Cardinality(results)
      BY RowSets
    <3>3. QED
      BY <3>1, <3>2, RowSets
  <2>2. writerPc' \in {"recv", "flush"} /\ batch' \in SUBSET Rows
    BY <1>9 DEF Receive
  <2>3. QED
    BY <1>9, <2>1, <2>2 DEF Receive, feederVars, workerVars, errorVars, jobsVars
<1>10. CASE ResultsDrained \/ FlushNothing
  BY <1>10 DEF ResultsDrained, FlushNothing, AfterFlush,
     feederVars, workerVars, errorVars, jobsVars, resultsVars
<1>11. CASE InsertOk
  <2>1. dst' \in [Rows -> Nat]
    BY <1>11 DEF InsertOk, StoreBatch
  <2>2. processedCount' \in Nat
    BY <1>11, RowSets DEF InsertOk
  <2>3. QED
    BY <1>11, <2>1, <2>2 DEF InsertOk, AfterFlush,
       feederVars, workerVars, errorVars, jobsVars, resultsVars
<1>12. CASE InsertFails
  <2>1. dst' \in [Rows -> Nat]
    BY <1>12 DEF InsertFails, StoreBatch
  <2>2. errorCount' \in Nat
    BY <1>12, RowSets DEF InsertFails
  <2>3. QED
    BY <1>12, <2>1, <2>2 DEF InsertFails, AfterFlush,
       feederVars, workerVars, jobsVars, resultsVars
<1>13. CASE UNCHANGED vars
  BY <1>13 DEF vars, feederVars, workerVars, writerVars, errorVars, jobsVars,
     resultsVars
<1>14. QED
  BY <1>1, <1>2, <1>3, <1>4, <1>5, <1>6, <1>7, <1>8, <1>9, <1>10, <1>11,
     <1>12, <1>13 DEF Next, Feeder, Worker, Writer, Terminated

(* Type correctness, with the channels never above their capacity. *)
THEOREM TypeCorrect == Spec => []TypeOK
<1>1. Init => TypeOK /\ Hands
  BY TypeInit
<1>2. TypeOK /\ Hands /\ [Next]_vars => TypeOK' /\ Hands'
  BY TypeStep
<1>3. QED
  BY <1>1, <1>2, PTL DEF Spec

-----------------------------------------------------------------------------
(* The inductive invariant.  ExactlyOnePlace alone is not inductive: that  *)
(* a row received by the writer is not in the destination yet, say, needs  *)
(* the places it has left behind to be empty of it.  Apart lists the       *)
(* places in the order in which a row visits them.                         *)

InHand(r) == \E w \in Workers : held[w] = r

Upstream(r) == r \in unread \/ cursor = r \/ r \in jobs \/ InHand(r)
Downstream(r) == r \in results \/ r \in batch

\* A row that is upstream is in one place only, and nowhere downstream.
ApartUpstream ==
    /\ \A r \in unread : cursor # r /\ r \notin jobs /\ ~InHand(r)
    /\ cursor \notin jobs /\ (cursor # NoRow => ~InHand(cursor))
    /\ \A r \in jobs : ~InHand(r)
    /\ \A v, w \in Workers : v # w /\ held[v] # NoRow => held[v] # held[w]

ApartDownstream ==
    /\ \A r \in Rows : Upstream(r) => ~Downstream(r)
    /\ \A r \in results : r \notin batch

\* A row on its way has not been settled, and a settled row has one outcome.
ApartSettled ==
    /\ \A r \in Rows : Upstream(r) \/ Downstream(r) =>
          dst[r] = 0 /\ r \notin failed /\ r \notin skipped
    /\ \A r \in skipped : dst[r] = 0 /\ r \notin failed
    /\ \A r \in Rows : dst[r] \in {0, 1}

Covered ==
    \A r \in Rows : \/ Upstream(r) \/ Downstream(r)
                    \/ dst[r] > 0 \/ r \in failed \/ r \in skipped

Partition == ApartUpstream /\ ApartDownstream /\ ApartSettled /\ Covered

(* The shutdown, from the feeder to main. *)
Drain ==
    /\ mainPc \in {"kms_test", "fatal"} => unread = Rows
    /\ jobsClosed => feederPc = "done"
    /\ \A w \in Workers : workerPc[w] = "exited" => jobsClosed /\ jobs = {}
    /\ resultsClosed <=> mainPc \in {"wait_writer", "done"}
    /\ resultsClosed => \A w \in Workers : workerPc[w] = "exited"
    /\ writerPc \in {"final", "exited"} => resultsClosed /\ results = {}
    /\ writerPc = "exited" => batch = {}
    /\ mainPc = "done" => writerPc = "exited"

(* The writer receives only when its batch has room. *)
BatchRoom ==
    /\ BatchWithinLimit
    /\ writerPc = "recv" => Cardinality(batch) < BatchSize
    /\ writerPc = "off" => batch = {}

IInv == /\ TypeOK /\ Hands
        /\ Partition
        /\ Drain
        /\ BatchRoom
        /\ CountersAgree

LEMMA PartitionInit == Init => Partition
  BY EtlAssumption DEF EtlAssumption, Init, Partition, ApartUpstream,
     ApartDownstream, ApartSettled, Covered, Upstream, Downstream, InHand

(* Every step moves rows forward, and never to two places.                 *)
LEMMA PartitionStep ==
    ASSUME TypeOK, Hands, Partition, [Next]_vars
    PROVE  Partition'
<1> USE EtlAssumption DEF EtlAssumption, TypeOK, Hands, Partition,
    ApartUpstream, ApartDownstream, ApartSettled, Covered, Upstream, Downstream,
    InHand
<1>1. CASE Main \/ Query \/ RowsEnd \/ CloseJobs \/ ResultsDrained \/ FlushNothing
  BY <1>1 DEF Main, KMSTestFails, StartThreads, CloseResults, Report, Query,
     RowsEnd, CloseJobs, ResultsDrained, FlushNothing,
     feederVars, workerVars, writerVars, errorVars, jobsVars, resultsVars
<1>2. ASSUME NEW w \in Workers, EncryptPAN(w) \/ EncryptCVV(w) \/ WorkerExits(w)
      PROVE  Partition'
  BY <1>2 DEF EncryptPAN, EncryptCVV, WorkerExits,
     feederVars, writerVars, errorVars, jobsVars, resultsVars
<1>3. ASSUME NEW r \in Rows, ScanRow(r)
      PROVE  Partition'
  BY <1>3 DEF ScanRow,
     workerVars, writerVars, errorVars, jobsVars, resultsVars
<1>4. ASSUME NEW r \in Rows, ScanFails(r)
      PROVE  Partition'
  BY <1>4 DEF ScanFails,
     workerVars, writerVars, errorVars, jobsVars, resultsVars
<1>5. CASE PushJob
  BY <1>5 DEF PushJob, workerVars, writerVars, errorVars, resultsVars
<1>6. ASSUME NEW w \in Workers, NEW r \in Rows, TakeJob(w, r)
      PROVE  Partition'
  BY <1>6 DEF TakeJob, feederVars, writerVars, errorVars, resultsVars
<1>7. ASSUME NEW w \in Workers, EncryptFails(w)
      PROVE  Partition'
  BY <1>7 DEF EncryptFails, feederVars, writerVars, jobsVars, resultsVars
<1>8. ASSUME NEW w \in Workers, SendResult(w)
      PROVE  Partition'
  BY <1>8 DEF SendResult, feederVars, writerVars, errorVars, jobsVars
<1>9. ASSUME NEW r \in Rows, Receive(r)
      PROVE  Partition'
  BY <1>9 DEF Receive, feederVars, workerVars, errorVars, jobsVars
<1>10. CASE InsertOk
  BY <1>10 DEF InsertOk, StoreBatch,
     feederVars, workerVars, errorVars, jobsVars, resultsVars
<1>11. CASE InsertFails
  BY <1>11 DEF InsertFails, StoreBatch,
     feederVars, workerVars, jobsVars, resultsVars
<1>12. CASE UNCHANGED vars
  BY <1>12 DEF vars, feederVars, workerVars, writerVars, errorVars, jobsVars,
     resultsVars
<1>13. QED
  BY <1>1, <1>2, <1>3, <1>4, <1>5, <1>6, <1>7, <1>8, <1>9, <1>10, <1>11,
     <1>12 DEF Next, Feeder, Worker, Writer, Terminated

LEMMA DrainInit == Init => Drain
  BY EtlAssumption DEF EtlAssumption, Init, Drain

(* No step breaks the order of the shutdown.                               *)
LEMMA DrainStep ==
    ASSUME TypeOK, Hands, Drain, [Next]_vars
    PROVE  Drain'
<1> USE EtlAssumption DEF EtlAssumption, TypeOK, Hands, Drain
<1>1. CASE Main
  BY <1>1 DEF Main, KMSTestFails, StartThreads, CloseResults, Report,
     feederVars, workerVars, writerVars, errorVars, jobsVars, resultsVars
<1>2. CASE Feeder
  BY <1>2 DEF Feeder, Query, ScanRow, ScanFails, RowsEnd, PushJob, CloseJobs,
     workerVars, writerVars, errorVars, jobsVars, resultsVars
<1>3. ASSUME NEW w \in Workers, Worker(w)
      PROVE  Drain'
  BY <1>3 DEF Worker, TakeJob, EncryptPAN, EncryptCVV, EncryptFails, SendResult,
     WorkerExits, feederVars, writerVars, errorVars, jobsVars, resultsVars
<1>4. CASE Writer
  BY <1>4 DEF Writer, Receive, ResultsDrained, FlushNothing, InsertOk,
     InsertFails, AfterFlush, feederVars, workerVars, errorVars, jobsVars,
     resultsVars
<1>5. CASE UNCHANGED vars
  BY <1>5 DEF vars, feederVars, workerVars, writerVars, errorVars, jobsVars,
     resultsVars
<1>6. QED
  BY <1>1, <1>2, <1>3, <1>4, <1>5 DEF Next, Terminated

LEMMA BatchRoomInit == Init => BatchRoom
<1>1. Cardinality({}) = 0
  BY FS_EmptySet
<1>2. QED
  BY <1>1, EtlAssumption DEF EtlAssumption, Init, BatchRoom, BatchWithinLimit

(* The writer flushes before its batch grows past BatchSize.               *)
LEMMA BatchRoomStep ==
    ASSUME TypeOK, Hands, BatchRoom, [Next]_vars
    PROVE  BatchRoom'
<1> USE EtlAssumption DEF EtlAssumption, BatchRoom, BatchWithinLimit
<1>0. Cardinality({}) = 0
  BY FS_EmptySet
<1>1. CASE Main
  BY <1>0, <1>1 DEF Main, KMSTestFails, StartThreads, CloseResults, Report,
     writerVars, Hands
<1>2. CASE Feeder
  BY <1>2 DEF Feeder, Query, ScanRow, ScanFails, RowsEnd, PushJob, CloseJobs,
     writerVars
<1>3. ASSUME NEW w \in Workers, Worker(w)
      PROVE  BatchRoom'
  BY <1>3 DEF Worker, TakeJob, EncryptPAN, EncryptCVV, EncryptFails, SendResult,
     WorkerExits, writerVars
<1>4. ASSUME NEW r \in Rows, Receive(r)
      PROVE  BatchRoom'
  <2>1. batch' = batch \cup {r} /\ Cardinality(batch) < BatchSize
    BY <1>4 DEF Receive
  <2>2. Cardinality(batch') \in Nat /\ Cardinality(batch') <= Cardinality(batch) + 1
    <3>1. batch \in SUBSET Rows /\ batch' \in SUBSET Rows
      BY <1>4 DEF Receive, TypeOK
    <3>2. Cardinality(batch \cup {r}) <= Cardinality(batch) + 1
      BY <3>1, RowSets
    <3>3. QED
      BY <2>1, <3>1, <3>2, RowSets
  <2>3. Cardinality(batch) \in Nat
    BY RowSets DEF TypeOK
  <2>4. writerPc' = IF Cardinality(batch') >= BatchSize THEN "flush" ELSE "recv"
    BY <1>4 DEF Receive
  <2>5. QED
    BY <2>1, <2>2, <2>3, <2>4
<1>5. CASE ResultsDrained \/ FlushNothing
  BY <1>5 DEF ResultsDrained, FlushNothing
<1>6. CASE InsertOk \/ InsertFails
  BY <1>0, <1>6 DEF InsertOk, InsertFails, AfterFlush
<1>7. CASE UNCHANGED vars
  BY <1>7 DEF vars, writerVars
<1>8. QED
  BY <1>1, <1>2, <1>3, <1>4, <1>5, <1>6, <1>7 DEF Next, Writer, Terminated

LEMMA CountersInit == Init => CountersAgree
<1>1. Cardinality({}) = 0
  BY FS_EmptySet
<1>2. QED
  BY <1>1 DEF Init, CountersAgree, Stored

(* Joining two disjoint sets of rows adds their sizes.                     *)
LEMMA RowUnion ==
    ASSUME NEW S \in SUBSET Rows, NEW T \in SUBSET Rows, S \cap T = {}
    PROVE  Cardinality(S \cup T) = Cardinality(S) + Cardinality(T)
<1>1. IsFiniteSet(S) /\ IsFiniteSet(T) /\ Cardinality(S) \in Nat /\ Cardinality(T) \in Nat
  BY RowSets
<1>2. Cardinality({}) = 0
  BY FS_EmptySet
<1>3. Cardinality(S \cup T) = Cardinality(S) + Cardinality(T) - Cardinality(S \cap T)
  BY <1>1, FS_Union
<1>4. Cardinality(S \cap T) = 0
  BY <1>2
<1>5. QED
  BY <1>1, <1>3, <1>4

(* A counter is added to exactly when rows get the outcome it counts.      *)
LEMMA CountersStep ==
    ASSUME TypeOK, Hands, Partition, CountersAgree, [Next]_vars
    PROVE  CountersAgree'
<1> DEFINE Ok == Stored \ failed
<1>1. Ok \in SUBSET Rows /\ failed \in SUBSET Rows /\ batch \in SUBSET Rows
  BY DEF TypeOK, Stored
<1>2. ASSUME UNCHANGED <<dst, failed, processedCount, errorCount>>
      PROVE  CountersAgree'
  BY <1>2 DEF CountersAgree, Stored
<1>3. CASE Main \/ Feeder
  BY <1>2, <1>3 DEF Main, KMSTestFails, StartThreads, CloseResults, Report,
     Feeder, Query, ScanRow, ScanFails, RowsEnd, PushJob, CloseJobs,
     writerVars, errorVars
<1>4. ASSUME NEW w \in Workers, EncryptFails(w)
      PROVE  CountersAgree'
  <2>1. held[w] \in Rows /\ Upstream(held[w])
    BY <1>4 DEF EncryptFails, TypeOK, Hands, Upstream, InHand
  <2>2. dst[held[w]] = 0 /\ held[w] \notin failed
    BY <2>1 DEF Partition, ApartSettled
  <2>3. errorCount' = Cardinality(failed')
    BY <1>1, <1>4, <2>2, RowSets DEF EncryptFails, CountersAgree
  <2>4. Ok' = Ok
    BY <1>4, <2>2 DEF EncryptFails, Stored, writerVars
  <2>5. QED
    BY <1>4, <2>3, <2>4 DEF EncryptFails, CountersAgree, writerVars
<1>5. ASSUME NEW w \in Workers, Worker(w), ~EncryptFails(w)
      PROVE  CountersAgree'
  BY <1>2, <1>5 DEF Worker, TakeJob, EncryptPAN, EncryptCVV, SendResult,
     WorkerExits, writerVars, errorVars
<1>6. \A r \in batch : dst[r] = 0 /\ r \notin failed
  BY DEF TypeOK, Partition, ApartSettled, Downstream
<1>7. CASE InsertOk
  <2>1. Ok' = Ok \cup batch
    BY <1>1, <1>6, <1>7 DEF InsertOk, StoreBatch, Stored, TypeOK, errorVars
  <2>2. Ok \cap batch = {}
    BY <1>6 DEF Stored
  <2>3. Cardinality(Ok') = Cardinality(Ok) + Cardinality(batch)
    BY <1>1, <2>1, <2>2, RowUnion
  <2>4. QED
    BY <1>7, <2>3 DEF InsertOk, CountersAgree, errorVars
<1>8. CASE InsertFails
  <2>1. Ok' = Ok
    BY <1>1, <1>6, <1>8 DEF InsertFails, StoreBatch, Stored, TypeOK
  <2>2. failed \cap batch = {}
    BY <1>6
  <2>3. Cardinality(failed \cup batch) = Cardinality(failed) + Cardinality(batch)
    BY <1>1, <2>2, RowUnion
  <2>4. QED
    BY <1>8, <2>1, <2>3 DEF InsertFails, CountersAgree
<1>9. CASE Writer /\ ~InsertOk /\ ~InsertFails
  BY <1>2, <1>9 DEF Writer, Receive, ResultsDrained, FlushNothing, errorVars
<1>10. CASE UNCHANGED vars
  BY <1>2, <1>10 DEF vars, writerVars, errorVars
<1>11. QED
  BY <1>3, <1>4, <1>5, <1>7, <1>8, <1>9, <1>10 DEF Next, Terminated

(* The inductive invariant holds of the specification.                     *)
LEMMA InductiveInvariant == Spec => []IInv
<1>1. Init => IInv
  BY TypeInit, PartitionInit, DrainInit, BatchRoomInit, CountersInit DEF IInv
<1>2. IInv /\ [Next]_vars => IInv'
  BY TypeStep, PartitionStep, DrainStep, BatchRoomStep, CountersStep DEF IInv
<1>3. QED
  BY <1>1, <1>2, PTL DEF Spec

-----------------------------------------------------------------------------
(* The safety invariants follow from the inductive one.                    *)

\* The place a row is in, given that it is in only one.
PlaceOf(r) ==
    IF r \in unread THEN "unread"
    ELSE IF r = cursor THEN "cursor"
    ELSE IF r \in jobs THEN "jobs"
    ELSE IF InHand(r) THEN "worker"
    ELSE IF r \in results THEN "results"
    ELSE IF r \in batch THEN "batch"
    ELSE IF r \in failed THEN "failed"
    ELSE IF r \in skipped THEN "skipped"
    ELSE "stored"

LEMMA OnePlace == IInv => ExactlyOnePlace
<1> SUFFICES ASSUME IInv PROVE ExactlyOnePlace
  OBVIOUS
<1> USE EtlAssumption DEF EtlAssumption, IInv, TypeOK, Hands, Partition,
    ApartUpstream, ApartDownstream, ApartSettled, Covered, Upstream, Downstream,
    InHand
<1>1. DOMAIN Place = {"unread", "cursor", "jobs", "worker", "results", "batch",
                      "stored", "failed", "skipped"}
  BY DEF Place
<1>2. \A p \in DOMAIN Place : Place[p] \subseteq Rows
  BY <1>1 DEF Place, Held, Stored
<1>3. ASSUME NEW r \in Rows
      PROVE  PlaceOf(r) \in DOMAIN Place /\ r \in Place[PlaceOf(r)]
  BY <1>1 DEF Place, PlaceOf, Held, Stored
<1>4. ASSUME NEW r \in Rows, NEW p \in DOMAIN Place, r \in Place[p]
      PROVE  p = PlaceOf(r)
  <2>1. CASE p \in {"unread", "cursor", "jobs", "worker"}
    BY <1>4, <2>1 DEF Place, PlaceOf, Held
  <2>2. CASE p \in {"results", "batch"}
    BY <1>4, <2>2 DEF Place, PlaceOf
  <2>3. CASE p \in {"stored", "failed", "skipped"}
    BY <1>4, <2>3 DEF Place, PlaceOf, Stored
  <2>4. QED
    BY <1>1, <2>1, <2>2, <2>3
<1>5. QED
  BY <1>2, <1>3, <1>4 DEF ExactlyOnePlace

(* When the writer has exited, the threads before it have, and hold nothing. *)
LEMMA Drained ==
    ASSUME IInv, writerPc = "exited"
    PROVE  /\ feederPc = "done"
           /\ \A w \in Workers : workerPc[w] = "exited"
           /\ \A r \in Rows : Upstream(r) \/ Downstream(r) => r \in unread
<1>1. /\ results = {} /\ batch = {}
      /\ \A w \in Workers : workerPc[w] = "exited"
  BY DEF IInv, Drain
<1>2. feederPc = "done" /\ jobs = {}
  BY <1>1, EtlAssumption DEF EtlAssumption, IInv, Drain
<1>3. cursor = NoRow /\ \A w \in Workers : held[w] = NoRow
  BY <1>1, <1>2 DEF IInv, Hands
<1>4. QED
  BY <1>1, <1>2, <1>3, EtlAssumption
  DEF EtlAssumption, Upstream, Downstream, InHand

LEMMA ReportComplete == IInv => ReportCoversEveryRowFed
<1> SUFFICES ASSUME IInv, mainPc = "done"
             PROVE  processedCount + errorCount
                      = Cardinality(Rows \ (unread \cup skipped))
  BY DEF ReportCoversEveryRowFed
<1> DEFINE Ok == Stored \ failed
<1>1. Ok \in SUBSET Rows /\ failed \in SUBSET Rows /\ Ok \cap failed = {}
  BY DEF IInv, TypeOK, Stored
<1>2. Rows \ (unread \cup skipped) = Ok \cup failed
  <2>1. ASSUME NEW r \in Rows, r \notin unread, r \notin skipped
        PROVE  r \in Ok \cup failed
    BY <2>1, Drained DEF IInv, Drain, Partition, Covered, Stored
  <2>2. ASSUME NEW r \in Ok \cup failed
        PROVE  r \in Rows /\ r \notin unread /\ r \notin skipped
    BY <1>1, <2>2
    DEF IInv, TypeOK, Partition, ApartSettled, Upstream, Stored
  <2>3. QED
    BY <2>1, <2>2
<1>3. processedCount = Cardinality(Ok) /\ errorCount = Cardinality(failed)
  BY DEF IInv, CountersAgree
<1>4. QED
  BY <1>1, <1>2, <1>3, RowUnion

(* No row is lost between two threads and none is in two hands.            *)
THEOREM NothingLostNothingTwice == Spec => []ExactlyOnePlace
  BY InductiveInvariant, OnePlace, PTL

(* The destination never holds two copies of a row of one run.             *)
THEOREM NoDuplicates == Spec => []AtMostOneCopy
<1>1. IInv => AtMostOneCopy
  BY DEF IInv, Partition, ApartSettled, AtMostOneCopy
<1>2. QED
  BY <1>1, InductiveInvariant, PTL

(* The counters say what became of the rows, at every moment.              *)
THEOREM CountersTrue == Spec => []CountersAgree
<1>1. IInv => CountersAgree
  BY DEF IInv
<1>2. QED
  BY <1>1, InductiveInvariant, PTL

(* The report accounts for every row the feeder pushed.                    *)
THEOREM ReportIsComplete == Spec => []ReportCoversEveryRowFed
  BY ReportComplete, InductiveInvariant, PTL

(* No channel is closed, and main does not return, too early.              *)
THEOREM OrderlyShutdown == Spec => []ShutdownInOrder
<1>1. IInv => ShutdownInOrder
  BY Drained DEF IInv, Drain, ShutdownInOrder
<1>2. QED
  BY <1>1, InductiveInvariant, PTL

(* No INSERT is longer than BatchSize rows.                                *)
THEOREM BatchBounded == Spec => []BatchWithinLimit
<1>1. IInv => BatchWithinLimit
  BY DEF IInv, BatchRoom
<1>2. QED
  BY <1>1, InductiveInvariant, PTL

-----------------------------------------------------------------------------
(* The pipeline implements EtlTransfer.                                    *)

\* EtlTransfer counts rows with an instance of Cardinality of its own.
LEMMA SameCardinality == \A S : Transfer!Cardinality(S) = Cardinality(S)
  BY DEF Transfer!Cardinality, Cardinality, Transfer!IsFiniteSet, IsFiniteSet

(* A step that settles no row and does not end the run is a stutter.       *)
LEMMA InternalStep ==
    ASSUME UNCHANGED <<unread, skipped, failed, dst, processedCount, errorCount>>,
           statusBar' = statusBar
    PROVE  UNCHANGED Transfer!vars
  BY DEF Transfer!vars, outcomeBar, OutcomeOf

\* Before the run has ended, a row on its way maps to "inflight".
LEMMA OnItsWay ==
    ASSUME IInv, NEW r \in Rows, r \notin unread, Upstream(r) \/ Downstream(r)
    PROVE  outcomeBar[r] = "inflight" /\ dst[r] = 0
  BY DEF IInv, Partition, ApartSettled, outcomeBar, OutcomeOf

\* A thread that takes a step is one of a run that has not ended.
LEMMA StillRunning ==
    ASSUME IInv
    PROVE  /\ feederPc \notin {"off", "done"} => ~Ended
           /\ \A w \in Workers : workerPc[w] \notin {"off", "exited"} => ~Ended
           /\ writerPc \notin {"off", "exited"} => ~Ended
  BY Drained DEF IInv, TypeOK, Hands, Drain, Ended

LEMMA TransferInit == Init => Transfer!Init
<1> SUFFICES ASSUME Init PROVE Transfer!Init
  OBVIOUS
<1>1. outcomeBar = [r \in Rows |-> "unread"]
  BY DEF Init, outcomeBar, OutcomeOf
<1>2. statusBar = "running" /\ processedCount = 0 /\ errorCount = 0
  BY DEF Init, statusBar
<1>3. QED
  BY <1>1, <1>2 DEF Transfer!Init

\* A committed INSERT adds its batch to the rows stored, and nothing else.
LEMMA StoredRows ==
    ASSUME IInv, StoreBatch, NEW r \in Rows
    PROVE  dst'[r] > 0 <=> r \in batch \/ dst[r] > 0
  BY DEF IInv, TypeOK, StoreBatch

(* Every step of a thread is a step of EtlTransfer or a stutter.           *)
LEMMA TransferStep ==
    ASSUME IInv, [Next]_vars
    PROVE  [Transfer!Next]_Transfer!vars
<1> DEFINE Goal == [Transfer!Next]_Transfer!vars
<1>1. ASSUME mainPc' = mainPc
      PROVE  statusBar' = statusBar
  BY <1>1 DEF statusBar
<1>2. ASSUME ~Ended, mainPc' = mainPc
      PROVE  statusBar = "running" /\ statusBar' = "running"
  BY <1>2 DEF statusBar, Ended
<1>3. CASE KMSTestFails
  <2>1. outcomeBar = [r \in Rows |-> "unread"]
    BY <1>3 DEF KMSTestFails, IInv, Drain, outcomeBar, OutcomeOf
  <2>2. Transfer!With("unread") = Rows
    BY <2>1 DEF Transfer!With
  <2>3. statusBar = "running" /\ statusBar' = "fatal"
    BY <1>3 DEF KMSTestFails, statusBar
  <2>4. UNCHANGED <<outcomeBar, processedCount, errorCount>>
    BY <1>3 DEF KMSTestFails, feederVars, writerVars, errorVars, outcomeBar, OutcomeOf
  <2>5. QED
    BY <2>2, <2>3, <2>4 DEF Transfer!Next, Transfer!GiveUp
<1>4. CASE StartThreads \/ CloseResults
  <2>1. statusBar' = statusBar
    BY <1>4 DEF StartThreads, CloseResults, statusBar
  <2>2. QED
    BY <1>4, <2>1, InternalStep
    DEF StartThreads, CloseResults, feederVars, writerVars, errorVars
<1>5. CASE Report
  <2>1. Transfer!With("inflight") = {}
    <3>1. ASSUME NEW r \in Rows, outcomeBar[r] = "inflight"
          PROVE  FALSE
      BY <1>5, <3>1, Drained
      DEF Report, IInv, Partition, Covered, outcomeBar, OutcomeOf
    <3>2. QED
      BY <3>1 DEF Transfer!With
  <2>2. statusBar = "running" /\ statusBar' = "reported"
    BY <1>5 DEF Report, statusBar
  <2>3. UNCHANGED <<outcomeBar, processedCount, errorCount>>
    BY <1>5 DEF Report, feederVars, writerVars, errorVars, outcomeBar, OutcomeOf
  <2>4. QED
    BY <2>1, <2>2, <2>3 DEF Transfer!Next, Transfer!Report
<1>6. CASE Query \/ RowsEnd \/ PushJob \/ CloseJobs
  BY <1>1, <1>6, InternalStep
  DEF Query, RowsEnd, PushJob, CloseJobs, writerVars, errorVars
<1>7. ASSUME NEW r \in Rows, ScanRow(r)
      PROVE  Goal
  <2>1. statusBar = "running" /\ statusBar' = "running"
    BY <1>2, <1>7, StillRunning DEF ScanRow
  <2>2. outcomeBar[r] = "unread"
    BY <1>7 DEF ScanRow, outcomeBar, OutcomeOf
  <2>3. dst[r] = 0 /\ r \notin failed /\ r \notin skipped
    BY <1>7 DEF ScanRow, IInv, Partition, ApartSettled, Upstream
  <2>4. outcomeBar' = [q \in Rows |-> IF q \in {r} THEN "inflight" ELSE outcomeBar[q]]
    BY <1>7, <2>3 DEF ScanRow, writerVars, errorVars, outcomeBar, OutcomeOf
  <2>5. UNCHANGED <<processedCount, errorCount>>
    BY <1>7 DEF ScanRow, writerVars, errorVars
  <2>6. Transfer!Read(r)
    BY <2>2, <2>4, <2>5 DEF Transfer!Read, Transfer!Become
  <2>7. QED
    BY <2>1, <2>6 DEF Transfer!Next, Transfer!Transfer
<1>8. ASSUME NEW r \in Rows, ScanFails(r)
      PROVE  Goal
  <2>1. statusBar = "running" /\ statusBar' = "running"
    BY <1>2, <1>8, StillRunning DEF ScanFails
  <2>2. outcomeBar[r] = "unread"
    BY <1>8 DEF ScanFails, outcomeBar, OutcomeOf
  <2>3. outcomeBar' = [q \in Rows |-> IF q \in {r} THEN "skipped" ELSE outcomeBar[q]]
    BY <1>8 DEF ScanFails, writerVars, errorVars, outcomeBar, OutcomeOf
  <2>4. UNCHANGED <<processedCount, errorCount>>
    BY <1>8 DEF ScanFails, writerVars, errorVars
  <2>5. Transfer!Skip(r)
    BY <2>2, <2>3, <2>4 DEF Transfer!Skip, Transfer!Become
  <2>6. QED
    BY <2>1, <2>5 DEF Transfer!Next, Transfer!Transfer
<1>9. ASSUME NEW w \in Workers, EncryptFails(w)
      PROVE  Goal
  <2> DEFINE S == {held[w]}
  <2>1. statusBar = "running" /\ statusBar' = "running"
    BY <1>2, <1>9, StillRunning DEF EncryptFails
  <2>2. held[w] \in Rows /\ Upstream(held[w]) /\ held[w] \notin unread
    BY <1>9 DEF EncryptFails, IInv, TypeOK, Hands, Partition, ApartUpstream,
       Upstream, InHand
  <2>3. outcomeBar[held[w]] = "inflight" /\ dst[held[w]] = 0 /\ held[w] \notin skipped
    BY <2>2, OnItsWay DEF IInv, Partition, ApartSettled
  <2>4. S \in SUBSET Transfer!With("inflight") /\ S # {}
    BY <2>2, <2>3 DEF Transfer!With
  <2>5. outcomeBar' = [q \in Rows |-> IF q \in S THEN "failed" ELSE outcomeBar[q]]
    BY <1>9, <2>2, <2>3 DEF EncryptFails, feederVars, writerVars, outcomeBar, OutcomeOf
  <2>6. errorCount' = errorCount + Cardinality(S) /\ UNCHANGED processedCount
    BY <1>9, FS_Singleton DEF EncryptFails, writerVars
  <2>7. Transfer!Fail(S)
    BY <2>5, <2>6, SameCardinality DEF Transfer!Fail, Transfer!Become
  <2>8. QED
    BY <2>1, <2>4, <2>7 DEF Transfer!Next, Transfer!Transfer, Transfer!Settle
<1>10. ASSUME NEW w \in Workers, Worker(w), ~EncryptFails(w)
       PROVE  Goal
  BY <1>1, <1>10, InternalStep
  DEF Worker, TakeJob, EncryptPAN, EncryptCVV, SendResult, WorkerExits,
      feederVars, writerVars, errorVars
<1>11. CASE (\E r \in Rows : Receive(r)) \/ ResultsDrained \/ FlushNothing
  BY <1>1, <1>11, InternalStep
  DEF Receive, ResultsDrained, FlushNothing, feederVars, errorVars
<1>12. /\ batch \in SUBSET Rows
       /\ \A r \in batch : /\ outcomeBar[r] = "inflight" /\ dst[r] = 0
                           /\ r \notin unread /\ r \notin skipped /\ r \notin failed
  <2>1. batch \in SUBSET Rows
    BY DEF IInv, TypeOK
  <2>2. ASSUME NEW r \in batch
        PROVE  r \notin unread /\ r \notin skipped /\ r \notin failed
    BY <2>1 DEF IInv, Partition, ApartDownstream, ApartSettled, Upstream, Downstream
  <2>3. QED
    BY <2>1, <2>2, OnItsWay DEF Downstream
<1>13. batch \in SUBSET Transfer!With("inflight")
  BY <1>12 DEF Transfer!With
<1>14. CASE InsertOk
  <2>1. statusBar = "running" /\ statusBar' = "running"
    BY <1>2, <1>14, StillRunning DEF InsertOk
  <2>2. outcomeBar' = [q \in Rows |-> IF q \in batch THEN "stored" ELSE outcomeBar[q]]
    <3>1. UNCHANGED <<unread, skipped, failed>>
      BY <1>14 DEF InsertOk, feederVars, errorVars
    <3>2. ASSUME NEW q \in Rows
          PROVE  OutcomeOf(q)' = IF q \in batch THEN "stored" ELSE OutcomeOf(q)
      BY <1>12, <1>14, <3>1, StoredRows DEF InsertOk, OutcomeOf
    <3>3. QED
      BY <3>2 DEF outcomeBar
  <2>3. Transfer!Store(batch)
    BY <1>14, <2>2, SameCardinality DEF InsertOk, errorVars, Transfer!Store, Transfer!Become
  <2>4. batch # {}
    BY <1>14 DEF InsertOk
  <2>5. QED
    BY <1>13, <2>1, <2>3, <2>4 DEF Transfer!Next, Transfer!Transfer, Transfer!Settle
<1>15. CASE InsertFails
  <2>1. statusBar = "running" /\ statusBar' = "running"
    BY <1>2, <1>15, StillRunning DEF InsertFails
  <2>2. ASSUME UNCHANGED dst
        PROVE  outcomeBar' = [q \in Rows |-> IF q \in batch THEN "failed" ELSE outcomeBar[q]]
    BY <1>12, <1>15, <2>2
    DEF InsertFails, IInv, TypeOK, feederVars, outcomeBar, OutcomeOf
  <2>3. ASSUME StoreBatch
        PROVE  outcomeBar' = [q \in Rows |-> IF q \in batch THEN "unknown" ELSE outcomeBar[q]]
    <3>1. UNCHANGED <<unread, skipped>> /\ failed' = failed \cup batch
      BY <1>15 DEF InsertFails, feederVars
    <3>2. ASSUME NEW q \in Rows
          PROVE  OutcomeOf(q)' = IF q \in batch THEN "unknown" ELSE OutcomeOf(q)
      BY <1>12, <2>3, <3>1, StoredRows DEF OutcomeOf
    <3>3. QED
      BY <3>2 DEF outcomeBar
  <2>4. Transfer!Fail(batch)
    BY <1>15, <2>2, <2>3, SameCardinality DEF InsertFails, Transfer!Fail, Transfer!Become
  <2>5. batch # {}
    BY <1>15 DEF InsertFails
  <2>6. QED
    BY <1>13, <2>1, <2>4, <2>5 DEF Transfer!Next, Transfer!Transfer, Transfer!Settle
<1>16. CASE UNCHANGED vars
  BY <1>1, <1>16, InternalStep DEF vars, feederVars, writerVars, errorVars
<1>17. QED
  BY <1>3, <1>4, <1>5, <1>6, <1>7, <1>8, <1>9, <1>10, <1>11, <1>14, <1>15, <1>16
  DEF Next, Main, Feeder, Writer, Terminated

(* One run of the pipeline is a run of EtlTransfer: each row is settled    *)
(* once, with its batch, and the run reports when nothing is in flight.    *)
THEOREM PipelineImplementsTransfer == Spec => TransferRefined
<1>1. Init => Transfer!Init
  BY TransferInit
<1>2. IInv /\ [Next]_vars => [Transfer!Next]_Transfer!vars
  BY TransferStep
<1>3. QED
  BY <1>1, <1>2, InductiveInvariant, PTL DEF Spec, TransferRefined, Transfer!Spec

=============================================================================
