---------------------------- MODULE Verification ----------------------------
(***************************************************************************)
(* The parallel verification of cmd/etl-worker -verify-excel               *)
(* (verifyAllDataWithContext): main dispatches one goroutine per source    *)
(* row, at most SemCap at a time; each has the KMS decrypt the row's PAN   *)
(* and CVV (verifyRecord, in a goroutine of its own) or times out, and     *)
(* sends one result; a collector appends the results; a closer closes the  *)
(* channel when all goroutines are done.  Collector, closer, each record   *)
(* and the whole verification have timers.                                 *)
(*                                                                         *)
(* Time is discrete and passes only while every thread waits: the threads  *)
(* are prompt, the KMS is not.  The KMS server is external here: the set   *)
(* of decryptions it is busy with.  Its handlers ignore the caller's       *)
(* context, so a call the client has given up goes on there.               *)
(*                                                                         *)
(* An operator whose name starts with Bug is no part of the model: it is   *)
(* the next definition with a plausible bug, kept to see that a property   *)
(* notices it.                                                             *)
(***************************************************************************)
EXTENDS Naturals, FiniteSets

CONSTANTS
    Records,         \* the source rows
    NoRecord,        \* "has no record"
    SemCap,          \* capacity of the semaphore: 10
    Timings          \* how long the timers may be, in ticks

ASSUME VerificationAssumption ==
    /\ IsFiniteSet(Records)
    /\ NoRecord \notin Records
    /\ SemCap \in Nat \ {0}
    /\ Timings \subseteq [record : Nat \ {0}, collect : Nat \ {0}, close : Nat \ {0}]

VARIABLES
    timing,          \* what a record may take (15 s), the collector may go without
                     \* a result (10 min), the closer may wait (15 min)
    present,         \* the records with an entry in encryptedMap
    cancelled,       \* the context of the whole verification has ended
    mainPc,          \* where verifyAllDataWithContext is
    todo,            \* records not dispatched yet
    cur,             \* the record main waits with at the semaphore
    returned,        \* the records in the slice that main returned
    job,             \* where the goroutine of each record is
    call,            \* where verifyRecord of each record is
    server,          \* <<record, field>> pairs the KMS server is decrypting
    chan,            \* records with a result in resultsChan
    chanClosed,
    collectorPc,     \* "recv", "append", "exited"
    inHand,          \* the record whose result the collector has received
    results,         \* how often each record is in the slice results
    closerPc,        \* "off", "wait", "exited"
    age,             \* ticks since each record's goroutine started
    quiet,           \* ticks since the collector last received
    closing,         \* ticks since the closer started
    forced           \* history: the collector or the closer gave up on its timer

ctxVars  == <<timing, present, cancelled>>
mainVars == <<mainPc, todo, cur, returned>>
jobVars  == <<job, call, server>>
chanVars == <<chan, chanClosed>>
sinkVars == <<collectorPc, inHand, results>>
timeVars == <<age, quiet, closing, forced>>
vars == <<ctxVars, mainVars, jobVars, chanVars, sinkVars, closerPc, timeVars>>

Init ==
    /\ timing \in Timings
    /\ present \in SUBSET Records
    /\ cancelled = FALSE
    /\ mainPc = "load"
    /\ todo = Records
    /\ cur = NoRecord
    /\ returned = {}
    /\ job = [r \in Records |-> "none"]
    /\ call = [r \in Records |-> "none"]
    /\ server = {}
    /\ chan = {} /\ chanClosed = FALSE
    /\ collectorPc = "recv"
    /\ inHand = NoRecord
    /\ results = [r \in Records |-> 0]
    /\ closerPc = "off"
    /\ age = [r \in Records |-> 0]
    /\ quiet = 0 /\ closing = 0 /\ forced = FALSE

\* The goroutines counted by wg: each holds a place of the semaphore.
Live == {r \in Records : job[r] \in {"running", "sent"}}

BugWgZero == TRUE
WgZero == Live = {}

BugSemaphoreFree == TRUE
SemaphoreFree == Cardinality(Live) < SemCap

Collected == {r \in Records : results[r] > 0}
MainReturned == mainPc \in {"returned", "returned_early", "returned_nil"}

-----------------------------------------------------------------------------
(* main *)

\* Both tables are read, then the collector is started.  A context that ends
\* while they are read ends the verification.
Load ==
    /\ mainPc = "load"
    /\ mainPc' = IF cancelled THEN "returned_nil" ELSE "dispatch"
    /\ UNCHANGED <<ctxVars, todo, cur, returned, jobVars, chanVars, sinkVars,
                   closerPc, timeVars>>

LoadFails ==                                       \* log.Fatalf: the process ends
    /\ mainPc = "load"
    /\ mainPc' = "fatal"
    /\ UNCHANGED <<ctxVars, todo, cur, returned, jobVars, chanVars, sinkVars,
                   closerPc, timeVars>>

SendNotFound(r) ==
    /\ mainPc = "dispatch" /\ ~cancelled
    /\ r \in todo \ present
    /\ todo' = todo \ {r}
    /\ chan' = chan \cup {r}
    /\ UNCHANGED <<ctxVars, mainPc, cur, returned, jobVars, chanClosed, sinkVars,
                   closerPc, timeVars>>

Dispatch(r) ==
    /\ mainPc = "dispatch" /\ ~cancelled
    /\ r \in todo \cap present
    /\ todo' = todo \ {r}
    /\ cur' = r
    /\ mainPc' = "acquire"
    /\ UNCHANGED <<ctxVars, returned, jobVars, chanVars, sinkVars, closerPc, timeVars>>

StartRecord ==
    /\ mainPc = "acquire"
    /\ SemaphoreFree
    /\ job' = [job EXCEPT ![cur] = "running"]
    /\ call' = [call EXCEPT ![cur] = "pan"]
    /\ cur' = NoRecord
    /\ mainPc' = "dispatch"
    /\ UNCHANGED <<ctxVars, todo, returned, server, chanVars, sinkVars, closerPc,
                   timeVars>>

AllDispatched ==                                   \* the closer is started
    /\ mainPc = "dispatch"
    /\ todo = {}
    /\ mainPc' = "await"
    /\ closerPc' = "wait"
    /\ UNCHANGED <<ctxVars, todo, cur, returned, jobVars, chanVars, sinkVars, timeVars>>

Await ==                                           \* <-collectionDone
    /\ mainPc = "await"
    /\ collectorPc = "exited"
    /\ mainPc' = "returned"
    /\ returned' = Collected
    /\ UNCHANGED <<ctxVars, todo, cur, jobVars, chanVars, sinkVars, closerPc, timeVars>>

SeesCancel ==
    /\ mainPc = "dispatch" /\ cancelled
    /\ todo # {}
    /\ mainPc' = "cancel_wait"
    /\ UNCHANGED <<ctxVars, todo, cur, returned, jobVars, chanVars, sinkVars,
                   closerPc, timeVars>>

BugCloseEarly ==                                   \* ranges over an open channel
    /\ mainPc = "cancel_wait"
    /\ WgZero
    /\ mainPc' = "cancel_drain"
    /\ UNCHANGED <<ctxVars, todo, cur, returned, jobVars, chanVars, sinkVars,
                   closerPc, timeVars>>

CloseEarly ==
    /\ mainPc = "cancel_wait"
    /\ WgZero
    /\ mainPc' = "cancel_drain"
    /\ chanClosed' = TRUE
    /\ UNCHANGED <<ctxVars, todo, cur, returned, jobVars, chan, sinkVars, closerPc,
                   timeVars>>

DrainOne(r) ==                                     \* in competition with the collector
    /\ mainPc = "cancel_drain"
    /\ r \in chan
    /\ chan' = chan \ {r}
    /\ results' = [results EXCEPT ![r] = @ + 1]
    /\ UNCHANGED <<ctxVars, mainVars, jobVars, chanClosed, collectorPc, inHand,
                   closerPc, timeVars>>

\* The collector is not waited for: it may have a result in its hand.
ReturnEarly ==
    /\ mainPc = "cancel_drain"
    /\ chan = {} /\ chanClosed
    /\ mainPc' = "returned_early"
    /\ returned' = Collected
    /\ UNCHANGED <<ctxVars, todo, cur, jobVars, chanVars, sinkVars, closerPc, timeVars>>

Main ==
    \/ Load \/ LoadFails
    \/ \E r \in Records : SendNotFound(r) \/ Dispatch(r) \/ DrainOne(r)
    \/ StartRecord \/ AllDispatched \/ Await
    \/ SeesCancel \/ CloseEarly \/ ReturnEarly

-----------------------------------------------------------------------------
(* the goroutine of a record, and verifyRecord in a goroutine inside it *)

BugRecordDone(r) == cancelled
RecordDone(r) == cancelled \/ age[r] >= timing.record      \* recordCtx.Done()

BugSend(r) ==                                      \* the select is not left
    /\ ~chanClosed
    /\ chan' = chan \cup {r}
    /\ UNCHANGED <<ctxVars, mainVars, jobVars, chanClosed, sinkVars, closerPc, timeVars>>

Send(r) ==
    /\ ~chanClosed
    /\ job' = [job EXCEPT ![r] = "sent"]
    /\ chan' = chan \cup {r}
    /\ UNCHANGED <<ctxVars, mainVars, call, server, chanClosed, sinkVars, closerPc,
                   timeVars>>

\* A send on the closed channel panics and ends the process.
SendPanics(r) ==
    /\ chanClosed
    /\ mainPc' = "crashed"
    /\ UNCHANGED <<ctxVars, todo, cur, returned, jobVars, chanVars, sinkVars, closerPc,
                   timeVars>>

\* If both are ready, the select takes either.
SendResult(r) ==
    /\ job[r] = "running"
    /\ call[r] = "done" \/ RecordDone(r)
    /\ Send(r) \/ SendPanics(r)

\* The two deferred calls, <-semaphore and wg.Done, as one step.
Release(r) ==
    /\ job[r] = "sent"
    /\ job' = [job EXCEPT ![r] = "gone"]
    /\ UNCHANGED <<ctxVars, mainVars, call, server, chanVars, sinkVars, closerPc,
                   timeVars>>

NextCall(r) == IF call[r] \in {"pan", "pan_wait"} THEN "cvv" ELSE "done"
Waits(r) == [pan |-> "pan_wait", cvv |-> "cvv_wait"]

StartCall(r) ==
    /\ call[r] \in {"pan", "cvv"}
    /\ job[r] = "running" /\ ~RecordDone(r)
    /\ server' = server \cup {<<r, call[r]>>}
    /\ call' = [call EXCEPT ![r] = Waits(r)[@]]
    /\ UNCHANGED <<ctxVars, mainVars, job, chanVars, sinkVars, closerPc, timeVars>>

\* No call is made when the stored field does not split or recordCtx is done;
\* a call made is given up by its 10-second timeout, by recordCtx, or by a
\* lost connection.
CallFails(r) ==
    /\ call[r] \in {"pan", "cvv", "pan_wait", "cvv_wait"}
    /\ call' = [call EXCEPT ![r] = NextCall(r)]
    /\ UNCHANGED <<ctxVars, mainVars, job, server, chanVars, sinkVars, closerPc,
                   timeVars>>

Record(r) == SendResult(r) \/ Release(r) \/ StartCall(r)

(* The KMS server: a decryption ends, and is answered if someone waits. *)
ServerAnswers(r, field) ==
    /\ <<r, field>> \in server
    /\ server' = server \ {<<r, field>>}
    /\ call' = IF call[r] = Waits(r)[field] THEN [call EXCEPT ![r] = NextCall(r)]
                                            ELSE call
    /\ UNCHANGED <<ctxVars, mainVars, job, chanVars, sinkVars, closerPc, timeVars>>

-----------------------------------------------------------------------------
(* the collector *)

Receive(r) ==
    /\ mainPc # "load"
    /\ collectorPc = "recv"
    /\ r \in chan
    /\ chan' = chan \ {r}
    /\ inHand' = r
    /\ collectorPc' = "append"
    /\ quiet' = 0
    /\ UNCHANGED <<ctxVars, mainVars, jobVars, chanClosed, results, closerPc, age,
                   closing, forced>>

BugEnough == Cardinality(Collected') + 1 >= Cardinality(Records)
Enough == Cardinality(Collected') >= Cardinality(Records)    \* expectedCount

Append ==
    /\ collectorPc = "append"
    /\ results' = [results EXCEPT ![inHand] = @ + 1]
    /\ inHand' = NoRecord
    /\ collectorPc' = IF Enough THEN "exited" ELSE "recv"
    /\ UNCHANGED <<ctxVars, mainVars, jobVars, chanVars, closerPc, timeVars>>

CollectorSeesClose ==
    /\ collectorPc = "recv"
    /\ chan = {} /\ chanClosed
    /\ collectorPc' = "exited"
    /\ UNCHANGED <<ctxVars, mainVars, jobVars, chanVars, inHand, results, closerPc,
                   timeVars>>

CollectorGivesUp ==
    /\ collectorPc = "recv"
    /\ quiet >= timing.collect
    /\ collectorPc' = "exited"
    /\ forced' = TRUE
    /\ UNCHANGED <<ctxVars, mainVars, jobVars, chanVars, inHand, results, closerPc,
                   age, quiet, closing>>

Collector ==
    \/ \E r \in Records : Receive(r)
    \/ Append \/ CollectorSeesClose \/ CollectorGivesUp

(* the closer *)

Close ==
    /\ closerPc = "wait"
    /\ WgZero
    /\ closerPc' = "exited"
    /\ chanClosed' = TRUE
    /\ UNCHANGED <<ctxVars, mainVars, jobVars, chan, sinkVars, timeVars>>

CloseAnyway ==
    /\ closerPc = "wait"
    /\ closing >= timing.close
    /\ closerPc' = "exited"
    /\ chanClosed' = TRUE
    /\ forced' = TRUE
    /\ UNCHANGED <<ctxVars, mainVars, jobVars, chan, sinkVars, age, quiet, closing>>

Closer == Close \/ CloseAnyway

-----------------------------------------------------------------------------
(* time *)

\* Nothing but an answer of the KMS or a timer can move a thread.
AllWait ==
    /\ \/ mainPc = "acquire" /\ ~SemaphoreFree
       \/ mainPc = "await" /\ collectorPc # "exited"
       \/ mainPc = "cancel_wait" /\ ~WgZero
    /\ \A r \in Live :
          job[r] = "running" /\ call[r] \in {"pan_wait", "cvv_wait"} /\ ~RecordDone(r)
    /\ \/ collectorPc = "recv" /\ chan = {} /\ ~chanClosed /\ quiet < timing.collect
       \/ collectorPc = "exited"
    /\ closerPc = "wait" => ~WgZero /\ closing < timing.close

Tick ==
    /\ AllWait
    /\ age' = [r \in Records |-> IF r \in Live THEN age[r] + 1 ELSE age[r]]
    /\ quiet' = IF collectorPc = "recv" THEN quiet + 1 ELSE quiet
    /\ closing' = IF closerPc = "wait" THEN closing + 1 ELSE closing
    /\ UNCHANGED <<ctxVars, mainVars, jobVars, chanVars, sinkVars, closerPc, forced>>

Cancel ==                                          \* the 30 minutes are over
    /\ ~cancelled /\ ~MainReturned
    /\ cancelled' = TRUE
    /\ UNCHANGED <<timing, present, mainVars, jobVars, chanVars, sinkVars, closerPc, timeVars>>

-----------------------------------------------------------------------------
ProcessGone == mainPc \in {"crashed", "fatal"}
Ended == MainReturned \/ ProcessGone

Step ==
    \/ Main
    \/ \E r \in Records : Record(r) \/ CallFails(r)
    \/ \E r \in Records, field \in {"pan", "cvv"} : ServerAnswers(r, field)
    \/ Collector
    \/ Closer
    \/ Tick
    \/ Cancel

Next ==
    \/ ~ProcessGone /\ Step
    \/ Ended /\ UNCHANGED vars

Spec == Init /\ [][Next]_vars

\* The scheduler runs every thread that can run, and time passes.  The KMS
\* need never answer, and the verification need not be cancelled.
FairSpec ==
    /\ Spec
    /\ WF_vars(Main) /\ WF_vars(Collector) /\ WF_vars(Closer)
    /\ \A r \in Records : WF_vars(Record(r))
    /\ WF_vars(Tick)

-----------------------------------------------------------------------------
(* Type invariant; the semaphore is never over its capacity.               *)
TypeOK ==
    /\ timing \in Timings
    /\ present \in SUBSET Records
    /\ mainPc \in {"load", "dispatch", "acquire", "await", "cancel_wait",
                   "cancel_drain", "returned", "returned_early", "returned_nil",
                   "crashed", "fatal"}
    /\ todo \in SUBSET Records
    /\ cur \in Records \cup {NoRecord}
    /\ cancelled \in BOOLEAN
    /\ job \in [Records -> {"none", "running", "sent", "gone"}]
    /\ Cardinality(Live) <= SemCap
    /\ call \in [Records -> {"none", "pan", "pan_wait", "cvv", "cvv_wait", "done"}]
    /\ server \in SUBSET (Records \X {"pan", "cvv"})
    /\ chan \in SUBSET Records
    /\ chanClosed \in BOOLEAN
    /\ collectorPc \in {"recv", "append", "exited"}
    /\ inHand \in Records \cup {NoRecord}
    /\ results \in [Records -> Nat]
    /\ returned \in SUBSET Records
    /\ closerPc \in {"off", "wait", "exited"}
    /\ age \in [Records -> Nat]
    /\ quiet \in Nat /\ closing \in Nat
    /\ forced \in BOOLEAN

(* A record has one result, although its answer and its timeout race and   *)
(* collector and main may both take from the channel.                      *)
OneResultPerRecord ==
    \A r \in Records :
        /\ results[r] <= 1
        /\ r \in chan => results[r] = 0 /\ inHand # r
        /\ r = inHand => results[r] = 0
        /\ r \in todo \/ r = cur \/ job[r] = "running" =>
              r \notin chan /\ r # inHand /\ results[r] = 0

\* The order of the code's timers.
RecordTimerFirst == timing.record < timing.collect /\ timing.record < timing.close

(* No goroutine sends on resultsChan after it is closed, neither on the    *)
(* normal path nor on the cancelled one.                                   *)
NoPanic == RecordTimerFirst => mainPc # "crashed"

(* The collector's and the closer's timers are a last resort that never    *)
(* fires while a record's own timeout is the shortest of the three: even a *)
(* KMS that never answers keeps neither of them waiting that long.         *)
LastResortNotNeeded == RecordTimerFirst => ~forced

(* The verification comes to an end even if the KMS never answers.         *)
VerificationEnds == <>Ended

(* What the comments on the cancelled path say: it waits for the current   *)
(* goroutines and collects what there is.  So every record that was        *)
(* dispatched has its result in the slice returned.                        *)
CancelCollectsWhatThereIs ==
    mainPc = "returned_early" => returned = Records \ todo

-----------------------------------------------------------------------------
(* The verification implements VerifyReport while the record's timer is    *)
(* the first.                                                              *)

rowsBar == IF mainPc \in {"load", "returned_nil", "fatal"} THEN {} ELSE Records
settledBar == {r \in Records : r \in chan \/ r = inHand \/ results[r] > 0}

statusBar == IF mainPc = "load" THEN "loading"
             ELSE IF mainPc \in {"returned_nil", "fatal"} THEN "none"
             ELSE IF mainPc = "returned" THEN "full"
             ELSE IF mainPc = "returned_early" THEN "cut"
             ELSE IF mainPc = "crashed" THEN "panic"
             ELSE "verifying"

Report == INSTANCE VerifyReport
    WITH Rows <- Records, status <- statusBar, rows <- rowsBar,
         settled <- settledBar, report <- returned

(* Every step of the goroutines, their timers and a cancellation is a step *)
(* of the row-by-row promise or none: a row is settled once and stays so,  *)
(* and main returns all rows, those that timed out or have no encrypted    *)
(* row included, or after a cancellation some of the settled ones.         *)
ReportRefined == Report!Spec

=============================================================================
