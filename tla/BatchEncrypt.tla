---------------------------- MODULE BatchEncrypt ----------------------------
(***************************************************************************)
(* One POST to the batch endpoint of cmd/kms-http-server                   *)
(* (batchEncryptHandler): the handler queues the items of the request for  *)
(* a pool of goroutines, each calls the KMS for one item at a time, and    *)
(* the handler collects the answers by index, drops the empty ones and     *)
(* replies.  The caller modelled is the SSIS script of the documentation,  *)
(* which sends one item per data-flow row and writes the results back.     *)
(*                                                                         *)
(* Items are the positions 1 .. n of the request.  A ciphertext is the     *)
(* position of the item the KMS was given, and Empty, 0, is a missing one. *)
(* A goroutine of the pool is one item in busy: they are interchangeable,  *)
(* and have all left their loops when the queue is closed and empty and    *)
(* nothing is busy.  The KMS is external: any call may fail, and at the    *)
(* end of the context that the whole batch shares all those that remain    *)
(* do.                                                                     *)
(*                                                                         *)
(* An operator whose name starts with Bug is no part of the model: it is   *)
(* the next definition with a plausible bug, kept to see that a property   *)
(* notices it.                                                             *)
(***************************************************************************)
EXTENDS Naturals, Sequences, FiniteSets

CONSTANTS
    MaxSent,         \* the longest request a client sends
    MaxItems,        \* 1000: longer requests are refused
    MaxWorkers       \* 50 goroutines at most

ASSUME BatchAssumption ==
    /\ MaxSent \in Nat
    /\ MaxItems \in Nat \ {0}
    /\ MaxWorkers \in Nat \ {0}

VARIABLES
    n,               \* len(req.Items)
    handlerPc,       \* where the handler is
    nextItem,        \* the next position to queue
    workChan,        \* positions queued
    workClosed,
    busy,            \* positions a goroutine of the pool is calling the KMS for
    resultChan,      \* set of [index, cipher] records, cipher Empty on an error
    resultClosed,
    tempResults,     \* position -> ciphertext, Empty if none
    errors,          \* len(errors)
    reply            \* the results of the reply

queueVars == <<n, nextItem, workClosed>>
answerVars == <<tempResults, errors, reply>>
vars == <<queueVars, handlerPc, workChan, busy, resultChan, resultClosed, answerVars>>

Empty == 0
Items == 1 .. n
PoolSize == IF n < MaxWorkers THEN n ELSE MaxWorkers

Init ==
    /\ n \in 0 .. MaxSent
    /\ handlerPc = "check"
    /\ nextItem = 1
    /\ workChan = {} /\ workClosed = FALSE
    /\ busy = {}
    /\ resultChan = {} /\ resultClosed = FALSE
    /\ tempResults = [i \in Items |-> Empty]
    /\ errors = 0
    /\ reply = <<>>

-----------------------------------------------------------------------------
(* the handler *)

\* A body that does not decode is refused in the same way as one without
\* items, and counts as one here.
Check ==
    /\ handlerPc = "check"
    /\ handlerPc' = IF n \in 1 .. MaxItems THEN "send" ELSE "refused"
    /\ UNCHANGED <<queueVars, workChan, busy, resultChan, resultClosed, answerVars>>

SendWork ==                  \* never blocks: the capacity is n
    /\ handlerPc = "send"
    /\ nextItem \in Items
    /\ workChan' = workChan \cup {nextItem}
    /\ nextItem' = nextItem + 1
    /\ UNCHANGED <<n, workClosed, handlerPc, busy, resultChan, resultClosed, answerVars>>

BugCloseWork ==              \* the queue is left open
    /\ handlerPc = "send"
    /\ nextItem \notin Items
    /\ handlerPc' = "collect"
    /\ UNCHANGED <<queueVars, workChan, busy, resultChan, resultClosed, answerVars>>

CloseWork ==
    /\ handlerPc = "send"
    /\ nextItem \notin Items
    /\ workClosed' = TRUE
    /\ handlerPc' = "collect"
    /\ UNCHANGED <<n, nextItem, workChan, busy, resultChan, resultClosed, answerVars>>

BugStore(res) ==             \* in order of arrival
    LET free == {i \in Items : tempResults[i] = Empty}
        first == CHOOSE i \in free : \A j \in free : i <= j
    IN  /\ tempResults' = [tempResults EXCEPT ![first] = res.cipher]
        /\ errors' = IF res.cipher = Empty THEN errors + 1 ELSE errors

BugStoreErrors(res) ==       \* an error is not recorded
    /\ tempResults' = [tempResults EXCEPT ![res.index] = res.cipher]
    /\ UNCHANGED errors

Store(res) ==
    IF res.cipher = Empty
    THEN errors' = errors + 1 /\ UNCHANGED tempResults
    ELSE tempResults' = [tempResults EXCEPT ![res.index] = res.cipher] /\ UNCHANGED errors

Collect(res) ==
    /\ handlerPc = "collect"
    /\ resultChan' = resultChan \ {res}
    /\ Store(res)
    /\ UNCHANGED <<queueVars, handlerPc, workChan, busy, resultClosed, reply>>

Collected ==
    /\ handlerPc = "collect"
    /\ resultClosed /\ resultChan = {}
    /\ handlerPc' = "convert"
    /\ UNCHANGED <<queueVars, workChan, busy, resultChan, resultClosed, answerVars>>

\* The positions without a ciphertext are filtered out: later results move up.
FinalResults ==
    LET upTo[i \in 0 .. n] ==
            IF i = 0 THEN <<>>
            ELSE IF tempResults[i] = Empty THEN upTo[i - 1]
            ELSE Append(upTo[i - 1], tempResults[i])
    IN  upTo[n]

Reply ==
    /\ handlerPc = "convert"
    /\ reply' = FinalResults
    /\ handlerPc' = "replied"
    /\ UNCHANGED <<queueVars, workChan, busy, resultChan, resultClosed, tempResults, errors>>

Handler ==
    \/ Check \/ SendWork \/ CloseWork
    \/ \E res \in resultChan : Collect(res)
    \/ Collected \/ Reply

-----------------------------------------------------------------------------
(* the pool, and the goroutine that closes resultChan after it *)

BugTake(i) ==                \* two goroutines get the same item
    /\ Cardinality(busy) < PoolSize
    /\ busy' = busy \cup {i}
    /\ UNCHANGED <<queueVars, handlerPc, workChan, resultChan, resultClosed, answerVars>>

Take(i) ==
    /\ Cardinality(busy) < PoolSize
    /\ workChan' = workChan \ {i}
    /\ busy' = busy \cup {i}
    /\ UNCHANGED <<queueVars, handlerPc, resultChan, resultClosed, answerVars>>

BugCall(i, c) ==             \* sends nothing for an item whose call failed
    /\ busy' = busy \ {i}
    /\ resultChan' = IF c = Empty THEN resultChan
                     ELSE resultChan \cup {[index |-> i, cipher |-> c]}
    /\ UNCHANGED <<queueVars, handlerPc, workChan, resultClosed, answerVars>>

\* The call returns and its result is sent, which never blocks: the capacity
\* is n.
Call(i, c) ==
    /\ busy' = busy \ {i}
    /\ resultChan' = resultChan \cup {[index |-> i, cipher |-> c]}
    /\ UNCHANGED <<queueVars, handlerPc, workChan, resultClosed, answerVars>>

Pool ==
    \/ \E i \in workChan : Take(i)
    \/ \E i \in busy : Call(i, i) \/ Call(i, Empty)

BugPoolExited == workClosed /\ workChan = {}
PoolExited == workClosed /\ workChan = {} /\ busy = {}

CloseResults ==              \* after wg.Wait
    /\ PoolExited
    /\ ~resultClosed
    /\ resultClosed' = TRUE
    /\ UNCHANGED <<queueVars, handlerPc, workChan, busy, resultChan, answerVars>>

-----------------------------------------------------------------------------
Ended == handlerPc \in {"replied", "refused"}

Next ==
    \/ Handler
    \/ Pool
    \/ CloseResults
    \/ Ended /\ UNCHANGED vars

Spec == Init /\ [][Next]_vars

\* Every goroutine that can run is run, and a KMS call returns: the context
\* has a deadline.  No item can be passed over for ever, there are n of them.
FairSpec == Spec /\ WF_vars(Handler) /\ WF_vars(Pool) /\ WF_vars(CloseResults)

-----------------------------------------------------------------------------
(* Type invariant; neither channel ever holds more than its capacity n.    *)
TypeOK ==
    /\ n \in 0 .. MaxSent
    /\ handlerPc \in {"check", "send", "collect", "convert", "replied", "refused"}
    /\ nextItem \in 1 .. n + 1
    /\ workChan \in SUBSET Items
    /\ workClosed \in BOOLEAN
    /\ busy \in SUBSET Items
    /\ resultChan \in SUBSET [index : Items, cipher : 0 .. n]
    /\ Cardinality(resultChan) <= n
    /\ resultClosed \in BOOLEAN
    /\ tempResults \in [Items -> 0 .. n]
    /\ errors \in 0 .. n
    /\ reply \in Seq(Items)

(* However the goroutines interleave, an answer is stored at the position  *)
(* of the item it answers ("maintain order").                              *)
AnswerAtItsOwnPosition == \A i \in Items : tempResults[i] \in {Empty, i}

(* A reply accounts for every item of the request: each one is a result or *)
(* an error, whatever failed and whenever the deadline passed.             *)
EveryItemAnswered == handlerPc = "replied" => Len(reply) + errors = n

(* Every request is answered, even one whose calls all fail.               *)
RequestAnswered == <>Ended

-----------------------------------------------------------------------------
(* The handler and its pool implement BatchAnswer. *)

\* A ciphertext names the item it is of.
okBar == ({tempResults[i] : i \in Items} \cup {res.cipher : res \in resultChan}) \ {Empty}
failedBar == errors + Cardinality({res \in resultChan : res.cipher = Empty})

statusBar == IF handlerPc = "check" THEN "received"
             ELSE IF Ended THEN handlerPc ELSE "working"

Promise == INSTANCE BatchAnswer
    WITH ok <- okBar, failed <- failedBar, status <- statusBar

(* Every step of the handler and of the pool is a step of the item-by-item *)
(* promise or none: no item is settled twice, and the reply is made when   *)
(* all are, with the ciphertexts in the order of the items.                *)
AnswerRefined == Promise!Spec

-----------------------------------------------------------------------------
(* The SSIS script (ProcessBatch) gives row i the i-th result, and the     *)
(* rows past the end of the results an empty one.                          *)
RowCipher(i) == IF i <= Len(reply) THEN reply[i] ELSE Empty

(* What the script's comment says: the results are written back to the     *)
(* rows they correspond to.                                                *)
RowGetsItsOwnCiphertext ==
    handlerPc = "replied" => \A i \in Items : RowCipher(i) \in {Empty, i}

=============================================================================
