---------------------------- MODULE EtlPipeline ----------------------------
(***************************************************************************)
(* One run of cmd/etl-worker in its normal mode (runETL): a feeder reads   *)
(* cards_to_encrypt and pushes rows into the channel jobs, a pool of       *)
(* workers has the KMS encrypt the PAN and then the CVV of each row and    *)
(* pushes the encrypted row into the channel results, and one writer       *)
(* collects batches and inserts each with one INSERT statement.  main      *)
(* starts the threads and shuts the pipeline down from the front.          *)
(*                                                                         *)
(* A row stands for its CardRecord and its EncryptedRecord.  A channel is  *)
(* the set of the rows in it and a closed flag: the SELECT has no ORDER BY *)
(* and the workers race, so nothing depends on the order in a channel.     *)
(* The KMS and the two databases are external: each call may succeed or    *)
(* fail, a 5-second timeout being one of the failures.                     *)
(*                                                                         *)
(* An operator whose name starts with Bug is no part of the model: it is   *)
(* the next action with a plausible bug, kept to see that a property       *)
(* notices it.                                                             *)
(***************************************************************************)
EXTENDS Naturals, FiniteSets

CONSTANTS
    Rows,            \* the rows of cards_to_encrypt, one per source id
    NoRow,           \* "holds no row"
    Workers,         \* WorkerCount goroutines
    JobsCap,         \* capacity of the channel jobs
    ResultsCap,      \* capacity of the channel results
    BatchSize        \* rows per INSERT

ASSUME EtlAssumption ==
    /\ IsFiniteSet(Rows)
    /\ NoRow \notin Rows
    /\ Workers # {}
    /\ JobsCap \in Nat \ {0}
    /\ ResultsCap \in Nat \ {0}
    /\ BatchSize \in Nat \ {0}

VARIABLES
    mainPc,          \* where runETL is
    feederPc,        \* where the feeder goroutine is
    unread,          \* source rows the cursor has not reached
    cursor,          \* the row feedRecords has scanned and not yet pushed
    jobs,            \* channel jobs
    jobsClosed,
    workerPc,        \* where each worker is
    held,            \* the row each worker is working on
    results,         \* channel results
    resultsClosed,
    writerPc,        \* where batchWriter is
    batch,           \* batchWriter's slice
    dst,             \* destination table: copies stored of each source row
    processedCount,
    errorCount

VARIABLES            \* history only, no action reads them
    failed,          \* rows that were added to errorCount
    skipped          \* rows that rows.Scan refused

feederVars == <<feederPc, unread, cursor, skipped>>
workerVars == <<workerPc, held>>
writerVars == <<writerPc, batch, dst, processedCount>>
errorVars  == <<errorCount, failed>>
jobsVars   == <<jobs, jobsClosed>>
resultsVars == <<results, resultsClosed>>
vars == <<mainPc, feederVars, jobsVars, workerVars, resultsVars, writerVars,
          errorVars>>

Stored == {r \in Rows : dst[r] > 0}

-----------------------------------------------------------------------------
Init ==
    /\ mainPc = "kms_test"
    /\ feederPc = "off"
    /\ unread = Rows
    /\ cursor = NoRow
    /\ jobs = {} /\ jobsClosed = FALSE
    /\ workerPc = [w \in Workers |-> "off"]
    /\ held = [w \in Workers |-> NoRow]
    /\ results = {} /\ resultsClosed = FALSE
    /\ writerPc = "off"
    /\ batch = {}
    /\ dst = [r \in Rows |-> 0]
    /\ processedCount = 0
    /\ errorCount = 0
    /\ failed = {}
    /\ skipped = {}

-----------------------------------------------------------------------------
(* main: the test encryption, the threads, and the shutdown from the front *)

KMSTestFails ==                                            \* log.Fatalf
    /\ mainPc = "kms_test"
    /\ mainPc' = "fatal"
    /\ UNCHANGED <<feederVars, jobsVars, workerVars, resultsVars, writerVars,
                   errorVars>>

StartThreads ==
    /\ mainPc = "kms_test"
    /\ mainPc' = "wait_workers"
    /\ workerPc' = [w \in Workers |-> "take"]
    /\ writerPc' = "recv"
    /\ feederPc' = "query"
    /\ UNCHANGED <<unread, cursor, skipped, jobsVars, held, resultsVars, batch,
                   dst, processedCount, errorVars>>

BugCloseResults ==                       \* waits for the feeder, not the workers
    /\ mainPc = "wait_workers"
    /\ jobsClosed
    /\ mainPc' = "wait_writer"
    /\ resultsClosed' = TRUE
    /\ UNCHANGED <<feederVars, jobsVars, workerVars, results, writerVars,
                   errorVars>>

CloseResults ==                                            \* after wgWorkers.Wait
    /\ mainPc = "wait_workers"
    /\ \A w \in Workers : workerPc[w] = "exited"
    /\ mainPc' = "wait_writer"
    /\ resultsClosed' = TRUE
    /\ UNCHANGED <<feederVars, jobsVars, workerVars, results, writerVars,
                   errorVars>>

Report ==                                                  \* after wgWriter.Wait
    /\ mainPc = "wait_writer"
    /\ writerPc = "exited"
    /\ mainPc' = "done"
    /\ UNCHANGED <<feederVars, jobsVars, workerVars, resultsVars, writerVars,
                   errorVars>>

Main == KMSTestFails \/ StartThreads \/ CloseResults \/ Report

-----------------------------------------------------------------------------
(* feedRecords and the goroutine around it *)

BugQuery ==                              \* on an error jobs is never closed
    /\ feederPc = "query"
    /\ feederPc' \in {"rows", "done"}
    /\ UNCHANGED <<mainPc, unread, cursor, skipped, jobsVars, workerVars,
                   resultsVars, writerVars, errorVars>>

Query ==                                 \* an error returns at once
    /\ feederPc = "query"
    /\ feederPc' \in {"rows", "closing"}
    /\ UNCHANGED <<mainPc, unread, cursor, skipped, jobsVars, workerVars,
                   resultsVars, writerVars, errorVars>>

ScanRow(r) ==
    /\ feederPc = "rows"
    /\ r \in unread
    /\ unread' = unread \ {r}
    /\ cursor' = r
    /\ feederPc' = "push"
    /\ UNCHANGED <<mainPc, skipped, jobsVars, workerVars, resultsVars,
                   writerVars, errorVars>>

ScanFails(r) ==                          \* logged, then continue
    /\ feederPc = "rows"
    /\ r \in unread
    /\ unread' = unread \ {r}
    /\ skipped' = skipped \cup {r}
    /\ UNCHANGED <<mainPc, feederPc, cursor, jobsVars, workerVars, resultsVars,
                   writerVars, errorVars>>

\* rows.Next() is false at the last row and also when the connection breaks
\* before it; rows.Err() is never asked which.
RowsEnd ==
    /\ feederPc = "rows"
    /\ feederPc' = "closing"
    /\ UNCHANGED <<mainPc, unread, cursor, skipped, jobsVars, workerVars,
                   resultsVars, writerVars, errorVars>>

BugPushJob ==                            \* one past the capacity
    /\ feederPc = "push"
    /\ Cardinality(jobs) <= JobsCap
    /\ jobs' = jobs \cup {cursor}
    /\ cursor' = NoRow
    /\ feederPc' = "rows"
    /\ UNCHANGED <<mainPc, unread, skipped, jobsClosed, workerVars,
                   resultsVars, writerVars, errorVars>>

PushJob ==
    /\ feederPc = "push"
    /\ Cardinality(jobs) < JobsCap
    /\ jobs' = jobs \cup {cursor}
    /\ cursor' = NoRow
    /\ feederPc' = "rows"
    /\ UNCHANGED <<mainPc, unread, skipped, jobsClosed, workerVars,
                   resultsVars, writerVars, errorVars>>

CloseJobs ==
    /\ feederPc = "closing"
    /\ feederPc' = "done"
    /\ jobsClosed' = TRUE
    /\ UNCHANGED <<mainPc, unread, cursor, skipped, jobs, workerVars,
                   resultsVars, writerVars, errorVars>>

Feeder ==
    \/ Query
    \/ \E r \in Rows : ScanRow(r) \/ ScanFails(r)
    \/ RowsEnd
    \/ PushJob
    \/ CloseJobs

-----------------------------------------------------------------------------
(* worker *)

TakeJob(w, r) ==
    /\ workerPc[w] = "take"
    /\ r \in jobs
    /\ jobs' = jobs \ {r}
    /\ held' = [held EXCEPT ![w] = r]
    /\ workerPc' = [workerPc EXCEPT ![w] = "pan"]
    /\ UNCHANGED <<mainPc, feederVars, jobsClosed, resultsVars, writerVars,
                   errorVars>>

EncryptPAN(w) ==
    /\ workerPc[w] = "pan"
    /\ workerPc' = [workerPc EXCEPT ![w] = "cvv"]
    /\ UNCHANGED <<mainPc, feederVars, jobsVars, held, resultsVars, writerVars,
                   errorVars>>

EncryptCVV(w) ==
    /\ workerPc[w] = "cvv"
    /\ workerPc' = [workerPc EXCEPT ![w] = "send"]
    /\ UNCHANGED <<mainPc, feederVars, jobsVars, held, resultsVars, writerVars,
                   errorVars>>

BugEncryptFails(w) ==                    \* counts the error but does not continue
    /\ workerPc[w] \in {"pan", "cvv"}
    /\ errorCount' = errorCount + 1
    /\ failed' = failed \cup {held[w]}
    /\ workerPc' = [workerPc EXCEPT ![w] = "send"]
    /\ UNCHANGED <<mainPc, feederVars, jobsVars, held, resultsVars, writerVars>>

BugEncryptFailsUncounted(w) ==           \* continues but does not count the error
    /\ workerPc[w] \in {"pan", "cvv"}
    /\ failed' = failed \cup {held[w]}
    /\ held' = [held EXCEPT ![w] = NoRow]
    /\ workerPc' = [workerPc EXCEPT ![w] = "take"]
    /\ UNCHANGED <<mainPc, feederVars, jobsVars, resultsVars, writerVars, errorCount>>

EncryptFails(w) ==                       \* either call; no retry
    /\ workerPc[w] \in {"pan", "cvv"}
    /\ errorCount' = errorCount + 1
    /\ failed' = failed \cup {held[w]}
    /\ held' = [held EXCEPT ![w] = NoRow]
    /\ workerPc' = [workerPc EXCEPT ![w] = "take"]
    /\ UNCHANGED <<mainPc, feederVars, jobsVars, resultsVars, writerVars>>

SendResult(w) ==
    /\ workerPc[w] = "send"
    /\ Cardinality(results) < ResultsCap
    /\ results' = results \cup {held[w]}
    /\ held' = [held EXCEPT ![w] = NoRow]
    /\ workerPc' = [workerPc EXCEPT ![w] = "take"]
    /\ UNCHANGED <<mainPc, feederVars, jobsVars, resultsClosed, writerVars,
                   errorVars>>

WorkerExits(w) ==
    /\ workerPc[w] = "take"
    /\ jobsClosed /\ jobs = {}
    /\ workerPc' = [workerPc EXCEPT ![w] = "exited"]
    /\ UNCHANGED <<mainPc, feederVars, jobsVars, held, resultsVars, writerVars,
                   errorVars>>

Worker(w) ==
    \/ \E r \in Rows : TakeJob(w, r)
    \/ EncryptPAN(w)
    \/ EncryptCVV(w)
    \/ EncryptFails(w)
    \/ SendResult(w)
    \/ WorkerExits(w)

-----------------------------------------------------------------------------
(* batchWriter, flush and insertBatch *)

BugReceive(r) ==                         \* flushes after BatchSize + 1 rows
    /\ writerPc = "recv"
    /\ r \in results
    /\ results' = results \ {r}
    /\ batch' = batch \cup {r}
    /\ writerPc' = IF Cardinality(batch') > BatchSize THEN "flush" ELSE "recv"
    /\ UNCHANGED <<mainPc, feederVars, jobsVars, workerVars, resultsClosed,
                   dst, processedCount, errorVars>>

Receive(r) ==
    /\ writerPc = "recv"
    /\ r \in results
    /\ results' = results \ {r}
    /\ batch' = batch \cup {r}
    /\ writerPc' = IF Cardinality(batch') >= BatchSize THEN "flush" ELSE "recv"
    /\ UNCHANGED <<mainPc, feederVars, jobsVars, workerVars, resultsClosed,
                   dst, processedCount, errorVars>>

BugResultsDrained ==                     \* no flush after the loop
    /\ writerPc = "recv"
    /\ resultsClosed /\ results = {}
    /\ writerPc' = "exited"
    /\ UNCHANGED <<mainPc, feederVars, jobsVars, workerVars, resultsVars, batch,
                   dst, processedCount, errorVars>>

ResultsDrained ==
    /\ writerPc = "recv"
    /\ resultsClosed /\ results = {}
    /\ writerPc' = "final"
    /\ UNCHANGED <<mainPc, feederVars, jobsVars, workerVars, resultsVars, batch,
                   dst, processedCount, errorVars>>

AfterFlush == IF writerPc = "flush" THEN "recv" ELSE "exited"

FlushNothing ==                          \* the final flush of an empty batch
    /\ writerPc = "final"
    /\ batch = {}
    /\ writerPc' = "exited"
    /\ UNCHANGED <<mainPc, feederVars, jobsVars, workerVars, resultsVars, batch,
                   dst, processedCount, errorVars>>

\* One statement: the destination stores the whole batch or none of it.
StoreBatch == dst' = [r \in Rows |-> IF r \in batch THEN dst[r] + 1 ELSE dst[r]]

BugInsertOk ==                           \* the batch is not emptied
    /\ writerPc \in {"flush", "final"}
    /\ batch # {}
    /\ StoreBatch
    /\ processedCount' = processedCount + Cardinality(batch)
    /\ writerPc' = AfterFlush
    /\ UNCHANGED <<mainPc, feederVars, jobsVars, workerVars, resultsVars, batch,
                   errorVars>>

InsertOk ==
    /\ writerPc \in {"flush", "final"}
    /\ batch # {}
    /\ StoreBatch
    /\ processedCount' = processedCount + Cardinality(batch)
    /\ batch' = {}
    /\ writerPc' = AfterFlush
    /\ UNCHANGED <<mainPc, feederVars, jobsVars, workerVars, resultsVars,
                   errorVars>>

BugInsertFails ==                        \* the failed batch is kept for a retry
    /\ writerPc \in {"flush", "final"}
    /\ batch # {}
    /\ StoreBatch \/ UNCHANGED dst
    /\ errorCount' = errorCount + Cardinality(batch)
    /\ failed' = failed \cup batch
    /\ writerPc' = AfterFlush
    /\ UNCHANGED <<mainPc, feederVars, jobsVars, workerVars, resultsVars, batch,
                   processedCount>>

\* db.Exec may also report an error (a lost connection) for a statement the
\* server did commit.
InsertFails ==
    /\ writerPc \in {"flush", "final"}
    /\ batch # {}
    /\ StoreBatch \/ UNCHANGED dst
    /\ errorCount' = errorCount + Cardinality(batch)
    /\ failed' = failed \cup batch
    /\ batch' = {}
    /\ writerPc' = AfterFlush
    /\ UNCHANGED <<mainPc, feederVars, jobsVars, workerVars, resultsVars,
                   processedCount>>

Writer ==
    \/ \E r \in Rows : Receive(r)
    \/ ResultsDrained
    \/ FlushNothing
    \/ InsertOk
    \/ InsertFails

-----------------------------------------------------------------------------
Ended == mainPc \in {"done", "fatal"}

\* main has returned and the process is gone.
Terminated == Ended /\ UNCHANGED vars

Next ==
    \/ Main
    \/ Feeder
    \/ \E w \in Workers : Worker(w)
    \/ Writer
    \/ Terminated

Spec == Init /\ [][Next]_vars

\* The Go scheduler runs every goroutine that can run.  The calls return: the
\* KMS calls because of their 5-second context, the SQL calls by assumption,
\* for they are made without a context.
FairSpec ==
    /\ Spec
    /\ WF_vars(Main)
    /\ WF_vars(Feeder)
    /\ \A w \in Workers : WF_vars(Worker(w))
    /\ WF_vars(Writer)

-----------------------------------------------------------------------------
(* Type invariant: every variable has its shape, and no channel ever holds *)
(* more than the capacity runETL made it with.                             *)
TypeOK ==
    /\ mainPc \in {"kms_test", "fatal", "wait_workers", "wait_writer", "done"}
    /\ feederPc \in {"off", "query", "rows", "push", "closing", "done"}
    /\ unread \in SUBSET Rows
    /\ cursor \in Rows \cup {NoRow}
    /\ jobs \in SUBSET Rows /\ Cardinality(jobs) <= JobsCap
    /\ jobsClosed \in BOOLEAN
    /\ workerPc \in [Workers -> {"off", "take", "pan", "cvv", "send", "exited"}]
    /\ held \in [Workers -> Rows \cup {NoRow}]
    /\ results \in SUBSET Rows /\ Cardinality(results) <= ResultsCap
    /\ resultsClosed \in BOOLEAN
    /\ writerPc \in {"off", "recv", "flush", "final", "exited"}
    /\ batch \in SUBSET Rows
    /\ dst \in [Rows -> Nat]
    /\ processedCount \in Nat
    /\ errorCount \in Nat
    /\ failed \in SUBSET Rows
    /\ skipped \in SUBSET Rows

Held == {held[w] : w \in Workers} \ {NoRow}

\* Where a row can be.  A row of a committed INSERT that was reported as an
\* error is with the failed ones.
Place ==
    [unread  |-> unread,
     cursor  |-> {cursor} \ {NoRow},
     jobs    |-> jobs,
     worker  |-> Held,
     results |-> results,
     batch   |-> batch,
     stored  |-> Stored \ failed,
     failed  |-> failed,
     skipped |-> skipped]

(* No row is lost between two threads and none is in two hands: at every   *)
(* moment each source row is in exactly one place of the pipeline, and no  *)
(* two workers have the same row.                                          *)
ExactlyOnePlace ==
    /\ \A r \in Rows : \E p \in DOMAIN Place : r \in Place[p]
    /\ \A p, q \in DOMAIN Place : p # q => Place[p] \cap Place[q] = {}
    /\ \A v, w \in Workers : v # w /\ held[v] # NoRow => held[v] # held[w]

(* Within one run the destination never holds two copies of a source row,  *)
(* although an INSERT that failed may have been committed: nothing retries.*)
AtMostOneCopy == \A r \in Rows : dst[r] <= 1

(* The two atomic counters, updated by many goroutines and by whole        *)
(* batches, agree with what happened to the rows: processedCount is the    *)
(* number of rows inserted without an error, errorCount that of the others *)
(* that were settled.                                                      *)
CountersAgree ==
    /\ processedCount = Cardinality(Stored \ failed)
    /\ errorCount = Cardinality(failed)

(* When main prints the report, every row that feedRecords pushed is in    *)
(* one of the two totals: no row is still in a channel, in a worker or in  *)
(* the writer's last, partial batch.                                       *)
ReportCoversEveryRowFed ==
    mainPc = "done" =>
        processedCount + errorCount = Cardinality(Rows \ (unread \cup skipped))

(* The shutdown goes through the pipeline in order.  The channel results    *)
(* is closed only when no worker can send on it any more (a send on a      *)
(* closed channel panics), and main returns, which ends the process, only  *)
(* when the writer and even the feeder, which no WaitGroup covers, are     *)
(* done.                                                                   *)
ShutdownInOrder ==
    /\ resultsClosed => \A w \in Workers : workerPc[w] = "exited"
    /\ mainPc = "done" => feederPc = "done" /\ writerPc = "exited"

(* No INSERT has more than BatchSize rows: four parameters per row, and    *)
(* the statement must stay under the 2100 parameters of SQL Server.        *)
BatchWithinLimit == Cardinality(batch) <= BatchSize

(* The pipeline always drains and the run ends, whatever the KMS and the   *)
(* databases answer: no shutdown waits for a thread that waits for it.     *)
Terminates == <>Ended

(* What the documentation's test script says of a run that exits with 0.   *)
ExitZeroMeansAllTransferred == mainPc = "done" => \A r \in Rows : dst[r] = 1

-----------------------------------------------------------------------------
(* The pipeline implements EtlTransfer. *)

OutcomeOf(r) ==
    IF r \in unread THEN "unread"
    ELSE IF r \in skipped THEN "skipped"
    ELSE IF r \in failed THEN IF dst[r] > 0 THEN "unknown" ELSE "failed"
    ELSE IF dst[r] > 0 THEN "stored"
    ELSE "inflight"

outcomeBar == [r \in Rows |-> OutcomeOf(r)]

statusBar == IF mainPc = "done" THEN "reported"
             ELSE IF mainPc = "fatal" THEN "fatal" ELSE "running"

Transfer == INSTANCE EtlTransfer
    WITH outcome <- outcomeBar, processed <- processedCount,
         errors <- errorCount, status <- statusBar

(* Every step of the threads is a step of the row-by-row promise or none:  *)
(* a row is settled once, with its batch, and a settled row never changes. *)
TransferRefined == Transfer!Spec

=============================================================================
