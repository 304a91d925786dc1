# A TLA+ development of the KMS and its ETL tools

This directory holds TLA+ models of the programs of this repository, the TLC
configurations that check them on small instances, and machine-checked proofs
of the properties that matter most for every instance. `PROJECT.json` lists the
components, the runs, the line of code behind each definition, the hazards and
the theorems; this file explains them.

## 1. The system

| component | where | state | operations | interacts with |
|---|---|---|---|---|
| ETL pipeline | `cmd/etl-worker/main.go` 238-306, 921-1088 | channels `jobs` and `results` (100 each), the writer's batch, two atomic counters | feeder, 20 workers, batch writer, shutdown by main | KMS (one call per field), source and destination database |
| Parallel verification | `cmd/etl-worker/main.go` 369-705 | the slice of results, `resultsChan`, semaphore (10), wait group, four kinds of timer | dispatcher, one goroutine per record and one more inside it, collector, closer | KMS (decrypt), both databases |
| Verification driver, Excel export | `cmd/etl-worker/main.go` 309-367, 707-908 | the results, the Excel file | ETL, verification, colours and summary one after the other | the two above; the tables, which outlive the run |
| Safe verification | `cmd/etl-worker/main.go` 169-235 | none | decrypts five rows in a loop | KMS, destination |
| ETL start-up | `cmd/etl-worker/main.go` 91-166, 911-920 | the token, fetched once | login, choice of the mode | Auth |
| HTTP gateway, batch | `cmd/kms-http-server/main.go` 154-261 | per request: two channels, the pool | pool of up to 50 goroutines, collection by index, filter, reply | KMS, SSIS script |
| HTTP gateway, single calls | `cmd/kms-http-server/main.go` 120-152, 263-331 | none | one KMS call each | KMS |
| SSIS script | `docs/SSIS_SCRIPT_EXAMPLE.cs` | its batch of rows | posts a batch, writes the results back | gateway |
| KMS server with HSM | `internal/server/server.go`, `internal/kms/hsm.go`, `internal/kms/hsm_pkcs11.go` | two mutexes, the PKCS#11 library and session | constructor, self-test, Encrypt, Decrypt | PKCS#11 library |
| File key manager | `internal/kms/crypto.go` | the AEAD, constant | Encrypt, Decrypt under a read lock | - |
| Key manager choice, AWS, Azure | `internal/kms/manager.go`, `hsm_aws.go`, `hsm_azure.go` | - | start-up | environment |
| Field format | `internal/kms/encryption_format.go` | none | combine, split | ETL, gateway |
| Authentication | `internal/auth/jwt.go`, `internal/server/auth_server.go` | the configuration | login, interceptor | every client |

What is hard here is concurrency (two pipelines of goroutines and channels, each
with its own shutdown protocol; two nested locks around a session with state),
partial failure (a call, an INSERT or a scan fails and the rest goes on),
timeouts that race with late answers, what is done with work that outlives
the caller that gave up, and what several runs leave behind in a table, while
rows and keys change. What makes each component correct:

- pipeline: no row lost or doubled at a hand-over, exact counters, complete
  report, orderly shutdown, termination;
- verification: one result per record, complete report, no send on a closed
  channel, termination even with a KMS that never answers;
- batch endpoint: each answer at its item's position, every item accounted for,
  every request answered;
- HSM: an operation set up on the session is carried out by the same request,
  a failure leaves nothing behind, every request is answered;
- server start: a file is taken for a key exactly if it holds one, a slot that is
  asked for and can be asked is the one that is used, and a start that fails releases
  what it held. (If that slot is missing or its token does not answer, the server goes
  on with the first slot of the list, without an error: see section 3.);
- field format: a field is taken apart as it was put together, or refused;
- verification over runs: a row reported as perfect has a true copy, any other
  verdict has a cause, colours and summary agree;
- authentication: what is issued and what is accepted agree, for every
  configuration and across restarts, and for the life of the token; what the test call
  has shown of a token stays true for that long.

There is no test file in the repository; what the documentation, the comments
and the PowerShell scripts say is checked where a run can check it.

## 2. The modules

| module | what it is |
|---|---|
| `EtlTransfer` | abstract: what a run of the ETL worker promises about each row |
| `EtlPipeline` | `runETL`, `feedRecords`, `worker`, `batchWriter`, `insertBatch` |
| `BatchAnswer` | abstract: what one batch request promises about each item |
| `BatchEncrypt` | `batchEncryptHandler`, and the pairing done by the SSIS script |
| `CipherFormat` | `encryption_format.go`, `decryptHandler`'s two formats, base64 |
| `Gateway` | `BatchEncrypt`, and `encryptHandler` and `decryptHandler` with a field on its way between them |
| `VerifyReport` | abstract: what a verification promises about each row |
| `Verification` | `verifyAllDataWithContext`, `verifyRecord`, the KMS server's backlog |
| `EtlSystem` | runs of the ETL worker in all modes, composed of `EtlTransfer` and `VerifyReport`, with the two tables, the KMS key and crashes |
| `KmsStart` | `cmd/kms-server`'s `main`, `NewManager`, `NewManagerFromFile`, `NewPKCS11Provider` |
| `HsmSession` | handlers, `HSMManager`, `PKCS11Provider`, the session |
| `KmsServer` | `KmsStart` followed by `HsmSession` |
| `Auth` | tokens, `Login`, the interceptor, the ETL worker as their client |
| `EtlPipeline_proofs`, `BatchEncrypt_proofs`, `Gateway_proofs`, `Verification_proofs`, `EtlSystem_proofs`, `Auth_proofs` | the theorems of these modules |
| `KmsServer_proofs` | the theorems of `HsmSession`, `KmsStart` and `KmsServer` |
| `NaturalLemmas` | induction, loops and division on the natural numbers, for the proofs |
| `MC...` | the modules that TLC is run on |

Each module has one program counter per thread, one action per blocking or
shared-state step, and a set for each channel: none of the code's results
depends on the order in a channel (the SELECT of the feeder has no ORDER BY, the
workers race, and the batch endpoint and the verification carry an index or an id
in each message). Operators named `Bug...` are not part of a model. Each is the
next definition with a plausible bug; replacing the definition by it makes TLC
report the property named with it in `PROJECT.json`.

### EtlPipeline

`Rows` are the rows of `cards_to_encrypt`; a row stands for its `CardRecord` and
its `EncryptedRecord`. main (`KMSTestFails`, `StartThreads`, `CloseResults`,
`Report`), the feeder (`Query`, `ScanRow`, `ScanFails`, `RowsEnd`, `PushJob`,
`CloseJobs`), each worker (`TakeJob`, `EncryptPAN`, `EncryptCVV`,
`EncryptFails`, `SendResult`, `WorkerExits`) and the writer (`Receive`,
`ResultsDrained`, `FlushNothing`, `InsertOk`, `InsertFails`) take their steps in
any order the channels allow. The KMS and the databases are external: each call
may fail; `RowsEnd` may happen early because the code never asks `rows.Err()`;
`InsertFails` may leave the batch stored because the connection can break after
the commit. `failed` and `skipped` are history: no action reads them. An action
that changes a counter and empties the batch is one step where the code has
several statements, none of which another thread can observe in between except
the counters, which only the final report reads.

`EtlTransfer` states the promise without threads: a row is read or skipped, a set
of rows in flight is settled together as stored, failed or unknown, the counters
count settlements, and the report is made with nothing in flight.
`TransferRefined` says that the pipeline implements it, with a row's outcome
computed from where it is (`outcomeBar`).

### BatchEncrypt

Positions 1 .. n of the request. The pool is the set `busy` of positions being
worked on: its goroutines are interchangeable. A ciphertext is the position of the
item it encrypts. `Reply` filters the empty positions out as the handler does, and
`RowCipher` is the SSIS script's pairing of row i with result i.

`BatchAnswer` has no goroutines: an item is settled, with a ciphertext or an error,
and the reply is made when all are. `AnswerRefined` says that the handler and its
pool implement it. An item is settled when its call returns (`okBar`,
`failedBar`), long before the handler collects the answer.

### CipherFormat and Gateway

Bytes are numbers, a base64 text is a sequence of the numbers 0 .. 63 and a pad.
The coding itself belongs to Go's library and is written here as what it does. Line
breaks, which Go's decoder passes over, are left out: no program inserts any.
`DecryptHandler` gives what the decrypt endpoint asks the KMS for, in its combined
and in its legacy form.

`Gateway` follows a field: `EncryptHandler` returns it in two texts, `StoreCombined`
is the ETL worker's way to keep it in one, `CutOff` a column that is too short, and
`Decrypt` and `KmsDecrypts` the decrypt endpoint and the KMS call it makes. The KMS
accepts nothing but what it has encrypted. `FieldComesBack` compares what the KMS is
asked for with what it had returned.

### Verification

Each record has a goroutine (`job`), the `verifyRecord` inside it (`call`), and
what the KMS server is still busy with on its behalf (`server`). Time is discrete
and `Tick` is enabled only while every thread waits for the KMS or a timer: the
threads are prompt, the KMS is not. `Timings` is a set of possible lengths of the
three timers, one of which holds for the whole behaviour: `CodeTimings` has the order of
the code's timers, 15 s < 10 min < 15 min, not their ratio, and `BothOrders` an
inverted one besides, with which the last resorts do fire. `NoPanic` and
`LastResortNotNeeded` are about the code's order. A record's two calls have 10
seconds each, which the record's 15 seconds and a call's freedom to fail at any
time cover. On cancellation main drains the channel next to the collector;
`ReturnEarly` reads the slice without the mutex, and is modelled as reading it
before or after the collector's append. `Load` is the reading of both tables as one
step, and `LoadFails` the end of the process when one of the two queries fails.

`VerifyReport` has rows, settled rows and a report. `ReportRefined` says that the
goroutines implement it: a row is settled when its result enters the channel, and
main returns all rows, or some of the settled ones after a cancellation.

### EtlSystem

Here a run is a few abstract steps, those of `EtlTransfer` for the ETL phase and
those of `VerifyReport` for the verification, which `EtlPipeline` and `Verification`
are shown to implement, and its rows have data. `source` and `copies` are the two
tables, `key` the master key of the running KMS. `ReadRow` remembers the value read,
`EncryptPAN` and `EncryptCVV` the key of each of the two calls, `StoreBatch` and
`LoseBatch` insert copies (the latter perhaps). `LoadMap` reads the copies into the
map by source id, which keeps the last of several copies of a row; `LoadOriginals`
reads the source again; `DecryptPAN` and `DecryptCVV` decrypt under the present key
and compare; `NotFound` and `TimesOut` give an error. `Colour`, `Matches` and
`Summary` are the Excel file. `Select`, `Show`, `AllShown` are the mode `-verify`.

`ChangeRow`, `RestartKMS` and `Kill` may come between any two steps, and a run that is
killed forgets all but the tables. `mishaps`, `changed` and `keyChanges` are history:
they say what a verdict may be blamed on. External and taken for granted: AES-GCM
refuses what was encrypted under another key; a column is wide enough for a field
(what happens otherwise is in `CipherFormat`); ids are unique in the source.
`driver: postgres` is left out: the worker then inserts into another table with
placeholders that PostgreSQL does not know, so every INSERT fails.

### KmsStart and KmsServer

`startPc` follows `main`: a key file (`ReadKey`, `NoKeyFile`), an HSM type that no
build supports (`ChooseUnsupported`), or PKCS#11. `CallFails` is the error return of
any call of the constructor and releases what is held; `GetSlotList` returns any
slots in any order; `TokenInfo` and `TokenInfoFails` go through them; `FirstSlot` is
the fallback. The slot number and the key file are texts of a few kinds of
characters, so that `GetenvUint`, with its wrap-around, `TrimSpace` and `IsKey` can
be compared with what a numeral (`Numeral`, without any) and a key file are.
`WantedSlotUsed` is what the code keeps: it claims nothing of a slot that is not listed
or whose token does not answer. What a comment of the code says about those
is stated in `FallbackIsValid`, which does not hold. That a numeral of 2^64 and more
wraps, and may match a slot nobody asked for, is in the model and in the list of hazards,
but no document says what such a numeral should do.

`KmsServer` lets `HsmSession` begin when the constructor has returned. A server with
a key file has nothing to interleave and stutters. After a failed self-test `main`
exits without releasing the session, which then ends with the process.

### HsmSession

The goroutine of each request goes through both locks, the key search and the
operation; `Startup` is main in the self-test, which takes only the provider's
lock. The PKCS#11 session is external: it has at most one active operation,
refuses to start another, any call may fail, and C_Encrypt, C_Decrypt and
C_FindObjectsFinal end the operation. `owner` says whose key and nonce it holds.

### Auth

`Servers` are the values of `KMS_JWT_SECRET`, `_AUD` and `_ISS` a server may be
started with, one of them without a secret; `Restart` puts any of them in place at
any time. A token is its claims with, as history, the server that made it and when.
`IssueToken` and `Accepts` follow `internal/auth/jwt.go`; the expiry is cut to a
whole `Second` as the JWT library does. A token comes into use through the test
client (`KeepToken`, then `UseEnvironment`), or by the ETL worker's own login
(`AutoLogin`, `AutoLoginFails`); `TestCall` is the call `runETL` makes before it
starts its threads. The later calls of its workers change no state here: `Accepts` says
at each moment how they would be answered, and `TestedTokenLasts` relates that to the
answer to the test call, which `testedBy` remembers as history. `Tick` may come between
any two steps. Password comparison is a choice, and calls that fail for another
reason than the token are left out.

The command that `README_AUTH.md:16-21` gives for a JWT tool makes a token with the
claims of `IssueToken`, so that `KeepToken` stands for it too. A token that such a tool
could make and the guide does not, without an expiry or with several audiences (of which
`jwt.go:76` looks at the first only), is not in the model, and what is said of all
tokens is said of those with the claims of `IssueToken`.

## 3. The runs

| run | kind | instance | shows |
|---|---|---|---|
| `etl_run` | pass | 4 rows, 2 workers, channels of 1, batches of 2 | all invariants of `EtlPipeline`, `TransferRefined`, `Terminates` |
| `etl_exit_zero` | violation | 3 rows, 2 workers | exit code 0 does not mean that all rows were transferred |
| `batch_reply` | pass | requests of 0-6 items, limit 5, pool 3; nonces of 4 bytes, ciphertexts of 1-3, two byte values | invariants of `BatchEncrypt`, `AnswerRefined`, `RequestAnswered`, `FieldComesBack` |
| `batch_pairing` | violation | up to 3 items | a failed item makes the script write ciphertexts to the wrong rows |
| `verify_safety` | pass | 3 records, semaphore 2, the code's timers | one result each, no panic, last-resort timers unused, `ReportRefined` |
| `verify_progress` | pass | 2 records, semaphore 1, both orders of the timers | `VerificationEnds`, also when the last resorts fire |
| `verify_cancel` | violation | 2 records | a cancelled verification can lose a result |
| `etl_system` | pass | 2 rows, 2 values, 2 keys, 2 runs, 1 change of a row, 1 of the key | `PerfectIsTrue`, `NoFalseAlarm`, `SummaryAgrees`, `StoredIsFound` |
| `hsm_server` | pass | start with 3 slots, slot numbers of up to 2 characters, words of 4 bits, key files of up to 4 characters, keys of 2; then 3 requests and the self-test | invariants of `KmsStart` and `HsmSession`, `EveryRequestAnswered` |
| `hsm_fallback` | violation | the same start | a slot is used whose token has not answered, though another's has |
| `auth_tokens` | pass | 5 configurations, life 3 ticks, 2 ticks a second | invariants of `Auth` |
| `auth_open` | violation | the same | a worker that logs in gives up at a server without authentication |

**Bounds.** Every cycle of the models is bounded by the sets of rows, items and
records. The instances are chosen so that each limit is met from both sides: with
capacity 1 both channels are full and empty, with 4 rows and batches of 2 there are
full batches, a partial last batch and an empty final flush, with failures any
number of rows reaches the writer; requests are refused for being empty and too
long, and are shorter and longer than the pool; with 3 records and a semaphore of 2
the dispatcher waits. Two workers, or two goroutines, are enough for each race
between two threads of a kind, and three requests for a queue at a lock. The timers
of `Verification` stop counting when their thread has ended. The clock of `Auth`
stops at `MaxTime` = 6, two lives of a token; a life that is no whole number of
seconds makes the rounded expiry differ from the exact one at every other tick.
With two runs the table of `EtlSystem` holds up to two copies of a row, of two
values or two keys, or with one field under each key; all outcomes
occur (green, yellow, red, and no file), red both by a failed call and by a
key. One safe verification looks at one copy of several. In `KmsServer` two digits may be more than a
4-bit word holds (66 wraps to slot 2), slots 0, 2 and 11 are in any order and any of
them may not answer. Ciphertexts of 1 to 3 bytes after a nonce of 4 meet all three
paddings, every prefix of a text is tried, and some are shorter than a nonce.

**Symmetry** (`MCEtlPipeline`, `MCVerification`, `MCEtlSystem`) is used only in runs that check
no liveness.

**Fairness.** Weak fairness for each thread: the Go scheduler runs every goroutine
that can run. `EtlPipeline` assumes in addition that calls return; KMS calls have
a 5-second context, SQL calls have none, so for a database that never answers
`Terminates` says nothing. In `BatchEncrypt` calls return because of the shared
30-second deadline. `Verification` assumes nothing of the KMS (`ServerAnswers`
and `CallFails` are not fair), only that time passes. `HsmSession` assumes that
PKCS#11 calls return, and strong fairness for taking `HSMManager.mu`: a
`sync.Mutex` goes to a waiter that has waited for a millisecond, so none starves.

The start of `KmsServer` is weakly fair, for its calls return too. `Auth` and
`EtlSystem` have safety properties only and assume no fairness.

**Deadlock** is checked in every run; a finished program stutters explicitly.

### Disagreements between code and documentation

1. `ExitZeroMeansAllTransferred`: `test-etl-worker.ps1:232` and `:277` take exit
   code 0 for "All records encrypted and transferred successfully"; `runETL`
   returns normally however many rows failed, were skipped by `rows.Scan`, or were never
   read because `rows.Next` ended early (`rows.Err` is never asked). The last two do
   not even count as errors.
2. `RowGetsItsOwnCiphertext`: the handler "maintains order" and then drops the
   failed positions (`kms-http-server/main.go:247-254`); the script writes results
   "back to the corresponding row" by position (`SSIS_SCRIPT_EXAMPLE.cs:174`).
3. `CancelCollectsWhatThereIs`: after a cancellation main collects "what we have so
   far" (`etl-worker/main.go:526`) but does not wait for the collector, which may
   have a result in its hand.
4. `FallbackIsValid`: "otherwise use the first valid one" (`hsm_pkcs11.go:64`), but the
   fallback takes `slots[0]` (`:79`) whether its token has answered or not.
5. `OpenServerServesEveryone`: without `KMS_JWT_SECRET` "any client can call"
   (`README_AUTH.md:200`, and `:69` "auth is disabled"), but `Login` is then an error
   (`jwt.go:94`), and a worker with a user name in its configuration, like the
   `config.yaml` of the repository, ends there.

## 4. The proofs

Every safety property of a passing run is a theorem, for every value of the
constants that the assumption of its module allows, and so are the three
refinements:

| module | theorems | for any |
|---|---|---|
| `EtlPipeline_proofs` | `TypeOK`, `ExactlyOnePlace`, `AtMostOneCopy`, `CountersAgree`, `ReportCoversEveryRowFed`, `ShutdownInOrder`, `BatchWithinLimit`, `TransferRefined` | finite set of rows, set of workers, capacities, batch size |
| `BatchEncrypt_proofs` | `TypeOK`, `AnswerAtItsOwnPosition`, `EveryItemAnswered`, `AnswerRefined` | length of the request, limit, size of the pool |
| `Gateway_proofs` | `FieldComesBack`, and the three last above for `GatewaySpec` | size of the nonce, nonce and ciphertext of bytes |
| `Verification_proofs` | `TypeOK`, `OneResultPerRecord`, `NoPanic`, `LastResortNotNeeded`, `ReportRefined` | finite set of records, semaphore, timers |
| `EtlSystem_proofs` | `TypeOK`, `PerfectIsTrue`, `NoFalseAlarm`, `SummaryAgrees`, `StoredIsFound` | tables, keys, number of runs, changes and restarts |
| `KmsServer_proofs` | `TypeOK`, `OwnOperation`, `SessionLeftIdle`, `InnerLockNeverWaits` for `HsmSession` and for `ServerSpec`; `StartTypeOK`, `NothingLeftOpen`, `WantedSlotUsed`, `KeyFileRead` | set of requests; slots, word size, texts in the environment and the key file |
| `Auth_proofs` | `TypeOK`, `OwnTokensAccepted`, `OnlyLiveOwnTokens`, `TestedTokenLasts` | set of configurations, life of a token, length of a second |

None of the invariants is inductive alone. Each module states the strengthening
that is (`IInv`, `StartInv` or `Custody`; in `KmsServer_proofs` also `Inv`), as a
conjunction of named parts, and proves one step per action. TLC checked each
of them on the instance of the run first.

**EtlPipeline.** `Hands` says which threads hold a row, by their program counters;
`Partition` that the places of the pipeline are pairwise disjoint and cover the
source rows; `Drain` what is already closed or ended upstream of a thread that has
ended; `BatchRoom` how full the batch can be at each place of the writer. These
use each other as hypotheses and are proved in lemmas of their own.
`ReportIsComplete` combines `Drain` (all channels and hands are empty) with
`Partition` and `CountersAgree`, by cardinality of disjoint unions. The refinement
needs the invariant to know that the batch being settled is in flight and that
nothing is in flight at the report.

**BatchEncrypt.** `Places` says where an item is: not queued, in the queue, with a
goroutine, answered in the result channel, stored, or lost to an error, and that
the counter of errors counts the last. `Phases` says what is closed and empty
at each point of the handler, `Outcome` what the reply is. The handler's last loop
(`FinalResults`) is a recursive function; that it lists the stored positions in
order and loses none is proved by induction over the loop (`Loop` and `Induction` of
`NaturalLemmas`), and `AnswerAtItsOwnPosition`, `EveryItemAnswered` and the
refinement rest on it.

**CipherFormat and Gateway.** `EncodedGroup` and `GroupDecoded` are about the three
bytes and four characters of one group, `Padding` about where the pads are,
`CutBetweenGroups` and `CutDecoded` about a text that ends after any group, and
`RoundTrip` is their special case of a whole text. `Custody` says that what the
client keeps is one of the two texts of its field, or a beginning of one. A step of
the gateway is one of the batch endpoint or leaves it alone
(`GatewayImplementsBatch`), so that the theorems about batches are theorems about it.

**Verification.** `Stations`: each record is at one place between `todo` and
`results`. `Control`: what follows from the places of main, collector and closer.
`Clocks`: the clocks of the closer, and of the collector while its channel is empty,
are not ahead of the age of any record that waits for the KMS, so none is ahead of
the record's own timer. `Blocked`: while the collector has gone without a result,
main is blocked and nothing is about to start. `InTime`: with the code's order of the
timers nothing is forced, and the channel is closed after the goroutines are gone.
`NoPanic`, `LastResortNotNeeded` and the refinement are about that order, which is
their hypothesis `RecordTimerFirst` and which `CodeTimings` has; `OneResultPerRecord`
needs none.

**EtlSystem.** `Sources`: a value that is held anywhere is the row's, or the row has
been changed. `OneKey`: until the KMS has been given another key, everything is
encrypted under the same. `Verdicts`: each outcome of a field is justified by the
copy that was looked at, or has a cause. `StoredHasCopy`: a stored row has a copy in
the destination.

**KmsStart, HsmSession and KmsServer.** The session's invariant says that a lock is
held by exactly the caller whose program counter is in the code that the lock
guards (`ProviderHeld`, `ManagerHeld`), that no request starts before the self-test
is over (`SelfTestFirst`), and that the session is idle when nobody is between an
Init call and its use (`NobodyNoOperation`). `ServerImplementsSession` carries this
over to the server with its start. That invariant says what the library holds at
each point of the constructor (`Held`), which slots have been looked at (`Search`),
and which was chosen (`Chosen`). `Converted` shows by induction over the digits that
`GetenvUint` is the value of the numeral modulo the word, or 0 if a character is no digit;
`KeyInOnePiece` that what is left of a key file after trimming is a key exactly if
the file is white space, key, white space.

**Auth.** `Genuine`: a token in use says what its server made it say, and is not
from the future. `Tested`: but for its age the token of the run is right for the
configuration that has answered the test call.

Assumptions are the named `ASSUME`s of the modules, which TLC evaluates on each
run: capacities and limits are positive, sets of rows and records are finite, marks
such as `NoRow` are no members, slots fit into a word, bytes are 0 .. 255.

`NaturalLemmas` has what the proofs keep needing about the natural numbers. Its
`Induction` is about a set, not a property, which makes it a statement the provers can
use; its `Loop` gives the function that a loop computes. Recursion is therefore
written in the models as recursive functions (`FinalResults`, `GetenvUint`, `Numeral`),
and definitions that proofs rest on choose with IF, not CASE: the translation of
CASE for the SMT solver forgets the values of the cases, and proves two different CASE
expressions equal.

**Only model-checked.** The liveness properties `Terminates`, `RequestAnswered`,
`VerificationEnds` and `EveryRequestAnswered`: liveness under fairness is outside what
the prover is used for here. The five runs that expect a violation are
counterexamples, for which one instance is enough. Fairness is no part of what is
proved, since every theorem is about the specification's safety part.

## 5. What is not modelled

Formatting (the layout of the Excel file, masking, log lines, SQL text), flags,
configuration files and connections, the gateway's health and CORS handlers, which
have no state, the demonstration programs, generated
code. The AWS provider does not compile (a blank in `types.DataKeySpec AES_256`,
`hsm_aws.go:49`) and the Azure provider always fails, so no program behaves as they
describe. `Manager.Close` is called by no program. Calls that never return, of the
PKCS#11 library or of a database, stop the program they are made by; nothing in the
code bounds them, so there is nothing to check. The expiry of a token within a run is
in `Auth`; what it does to the rows of the run is that of any calls that fail, which
`EtlPipeline` has.

## 6. The plan

Done, in this order: `EtlTransfer` and `EtlPipeline` with proofs, the core of the
system; `BatchEncrypt`; `Verification`; `HsmSession` with proofs; `Auth`; the abstract
`BatchAnswer` and `VerifyReport` with their refinements; `CipherFormat` and `Gateway`;
`KmsStart` and `KmsServer`; `EtlSystem`; the proofs of all of these. What is left, in
this order:

1. Properties of the two abstract specifications, `EtlTransfer` and `VerifyReport`,
   which the detailed ones would inherit by refinement (a report is never changed, a
   settled row stays settled), as action properties of runs and as theorems.
2. That the phases of `EtlSystem` are runs of `EtlTransfer` and `VerifyReport` between
   two kills, as a refinement with the tables hidden.
3. The bound that a violation leaves: how far the pairing of the SSIS script can be
   off, in terms of the failures before a row.
4. Tokens with any claims a JWT tool can sign: no expiry, several audiences.
