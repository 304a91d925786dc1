------------------------------ MODULE EtlSystem ------------------------------
(***************************************************************************)
(* Runs of cmd/etl-worker, one after the other, in any of its three modes, *)
(* against a source table that others change, a destination table that     *)
(* keeps what every run inserts, and a KMS that may be restarted with      *)
(* another master key.  The ETL phase of a run is EtlTransfer and the      *)
(* verification phase VerifyReport, which the pipelines of goroutines      *)
(* implement; here their rows get data: what was read, encrypted under     *)
(* which key, stored, read back, decrypted and compared.  A run may be     *)
(* killed at any time.                                                     *)
(*                                                                         *)
(* A copy is a row of encrypted_cards: the value read from the source row, *)
(* and the key under which each of the two fields was encrypted.  Under    *)
(* another key the decryption is an error, for the KMS authenticates what  *)
(* it decrypts.  KMS and databases are external: any call may fail.        *)
(*                                                                         *)
(* An operator whose name starts with Bug is no part of the model: it is   *)
(* the next definition with a plausible bug, kept to see that a property   *)
(* notices it.                                                             *)
(***************************************************************************)
EXTENDS Naturals, FiniteSets

CONSTANTS
    Rows,            \* ids of the source table
    Values,          \* what a row may hold: [pan, cvv] records
    Keys,            \* master keys the KMS may be started with
    None,            \* no value, no key
    SafeLimit,       \* copies that the safe verification looks at: 5
    MaxChanges,      \* bound: changes of source rows
    MaxKeyChanges,   \* bound: restarts of the KMS with another key
    MaxRuns          \* bound: runs of the worker

ASSUME EtlSystemAssumption ==
    /\ IsFiniteSet(Rows) /\ IsFiniteSet(Values) /\ IsFiniteSet(Keys)
    /\ \A v \in Values : v = [pan |-> v.pan, cvv |-> v.cvv]
    /\ None \notin Values \cup Keys
    /\ {SafeLimit, MaxChanges, MaxKeyChanges, MaxRuns} \subseteq Nat

VARIABLES            \* outside the worker
    source,          \* cards_to_encrypt: a value, or None if there is no such row
    copies,          \* encrypted_cards
    key,             \* the master key of the running KMS
    changed,         \* history: rows that were changed
    changes, keyChanges, runs

VARIABLES            \* a run of the worker
    pc,
    mode,
    outcome, processed, errors, status,      \* of EtlTransfer
    read,            \* the value read of each row
    panKey, cvvKey,  \* the key under which each field was encrypted
    encryptedMap,    \* the copy that the verification has of some rows
    phase, rows, settled, report,            \* of VerifyReport
    original,        \* the value the verification has read of each row
    panResult,       \* the PAN part of a verdict, while the CVV is outstanding
    verdict,         \* of each settled row: [pan, cvv]
    exported,        \* the Excel file was saved
    toShow, shown,   \* copies the safe verification has ahead, and <<copy, status>>
    mishaps          \* history: rows of which a call or a scan failed in this run

outerVars == <<source, copies, key, changed, changes, keyChanges, runs>>
etlVars == <<outcome, processed, errors, status, read, panKey, cvvKey>>
reportVars == <<phase, rows, settled, report>>
checkVars == <<encryptedMap, original, panResult, verdict>>
verifyVars == <<reportVars, checkVars, exported>>
safeVars == <<toShow, shown>>
runVars == <<etlVars, verifyVars, safeVars, mishaps>>
vars == <<outerVars, pc, mode, runVars>>

T == INSTANCE EtlTransfer
V == INSTANCE VerifyReport WITH status <- phase

Modes == {"etl", "verify_excel", "verify"}
Nowhere == [r \in {} |-> None]
Blank == [r \in Rows |-> None]
Put(f, r, v) == [q \in DOMAIN f \cup {r} |-> IF q = r THEN v ELSE f[q]]

-----------------------------------------------------------------------------
\* A process has none of what an earlier one knew.
Forget ==
    /\ outcome' = [r \in Rows |-> "unread"] /\ processed' = 0 /\ errors' = 0
    /\ status' = "running"
    /\ phase' = "loading" /\ rows' = {} /\ settled' = {} /\ report' = {}
    /\ read' = Blank /\ panKey' = Blank /\ cvvKey' = Blank
    /\ encryptedMap' = Nowhere
    /\ original' = Nowhere /\ panResult' = Nowhere /\ verdict' = Nowhere
    /\ exported' = FALSE
    /\ toShow' = {} /\ shown' = {}
    /\ mishaps' = {}

Init ==
    /\ source \in [Rows -> Values]
    /\ copies = {}
    /\ key \in Keys
    /\ changed = {}
    /\ changes = 0 /\ keyChanges = 0 /\ runs = 0
    /\ pc = "off" /\ mode = "etl"
    /\ T!Init /\ V!Init
    /\ read = Blank /\ panKey = Blank /\ cvvKey = Blank
    /\ encryptedMap = Nowhere
    /\ original = Nowhere /\ panResult = Nowhere /\ verdict = Nowhere
    /\ exported = FALSE
    /\ toShow = {} /\ shown = {}
    /\ mishaps = {}

-----------------------------------------------------------------------------
(* the surroundings *)

ChangeRow(r) ==                  \* updated, inserted or deleted
    /\ changes < MaxChanges
    /\ changes' = changes + 1
    /\ \E v \in Values \cup {None} : v # source[r] /\ source' = [source EXCEPT ![r] = v]
    /\ changed' = changed \cup {r}
    /\ UNCHANGED <<copies, key, keyChanges, runs, pc, mode, runVars>>

RestartKMS ==
    /\ keyChanges < MaxKeyChanges
    /\ keyChanges' = keyChanges + 1
    /\ key' \in Keys \ {key}
    /\ UNCHANGED <<source, copies, changed, changes, runs, pc, mode, runVars>>

Start(m) ==
    /\ pc = "off" /\ runs < MaxRuns
    /\ runs' = runs + 1
    /\ mode' = m
    /\ pc' = IF m = "verify" THEN "select" ELSE "etl"
    /\ Forget
    /\ UNCHANGED <<source, copies, key, changed, changes, keyChanges>>

Kill ==
    /\ pc # "off"
    /\ pc' = "off"
    /\ Forget
    /\ UNCHANGED <<outerVars, mode>>

-----------------------------------------------------------------------------
(* the ETL phase: runETL *)

ReadRow(r) ==
    /\ source[r] # None
    /\ T!Read(r)
    /\ read' = [read EXCEPT ![r] = source[r]]
    /\ UNCHANGED <<outerVars, status, panKey, cvvKey>>

SkipRow(r) ==
    /\ source[r] # None
    /\ T!Skip(r)
    /\ UNCHANGED <<outerVars, status, read, panKey, cvvKey>>

EncryptPAN(r) ==
    /\ outcome[r] = "inflight" /\ panKey[r] = None
    /\ panKey' = [panKey EXCEPT ![r] = key]
    /\ UNCHANGED <<outerVars, outcome, processed, errors, status, read, cvvKey>>

EncryptCVV(r) ==
    /\ panKey[r] # None /\ cvvKey[r] = None /\ outcome[r] = "inflight"
    /\ cvvKey' = [cvvKey EXCEPT ![r] = key]
    /\ UNCHANGED <<outerVars, outcome, processed, errors, status, read, panKey>>

Encrypted == {r \in T!With("inflight") : cvvKey[r] # None}

BugCopiesOf(S) ==                \* the last row is left out of the VALUES
    {[row |-> r, value |-> read[r], panKey |-> panKey[r], cvvKey |-> cvvKey[r]] :
        r \in IF Cardinality(S) > 1 THEN S \ {CHOOSE r \in S : TRUE} ELSE S}

CopiesOf(S) ==
    {[row |-> r, value |-> read[r], panKey |-> panKey[r], cvvKey |-> cvvKey[r]] : r \in S}

Insert(S) == copies' = copies \cup CopiesOf(S)

StoreBatch(S) ==
    /\ T!Store(S)
    /\ Insert(S)
    /\ UNCHANGED <<source, key, changed, changes, keyChanges, runs, status, read,
                   panKey, cvvKey>>

\* The INSERT reports an error, and may have been committed all the same.
LoseBatch(S) ==
    /\ T!Fail(S)
    /\ IF \E r \in S : outcome'[r] = "unknown" THEN Insert(S) ELSE UNCHANGED copies
    /\ UNCHANGED <<source, key, changed, changes, keyChanges, runs, status, read,
                   panKey, cvvKey>>

EncryptFails(r) ==
    /\ outcome[r] = "inflight" /\ cvvKey[r] = None
    /\ T!Fail({r})
    /\ outcome'[r] = "failed"
    /\ UNCHANGED <<outerVars, status, read, panKey, cvvKey>>

RunETL ==
    /\ pc = "etl" /\ status = "running"
    /\ \/ \E r \in Rows : ReadRow(r) \/ SkipRow(r)
       \/ \E r \in Rows : EncryptPAN(r) \/ EncryptCVV(r) \/ EncryptFails(r)
       \/ \E S \in SUBSET Encrypted \ {{}} : StoreBatch(S) \/ LoseBatch(S)
    /\ UNCHANGED <<pc, mode, verifyVars, safeVars, mishaps>>

ReportETL ==                     \* the workers are gone
    /\ pc = "etl" /\ T!Report
    /\ pc' = IF mode = "verify_excel" THEN "count" ELSE "off"
    /\ read' = Blank /\ panKey' = Blank /\ cvvKey' = Blank
    /\ UNCHANGED <<outerVars, mode, verifyVars, safeVars, mishaps>>

GiveUp ==                        \* the test encryption failed
    /\ pc = "etl" /\ T!GiveUp
    /\ pc' = "off"
    /\ UNCHANGED <<outerVars, mode, read, panKey, cvvKey, verifyVars, safeVars, mishaps>>

-----------------------------------------------------------------------------
(* the verification phase: runETLWithVerification, verifyAllDataWithContext *)

Count ==                         \* a count that fails is only logged
    /\ pc = "count"
    /\ pc' \in IF copies = {} THEN {"map", "off"} ELSE {"map"}
    /\ UNCHANGED <<outerVars, mode, runVars>>

BugCopyFor(r, c) == TRUE         \* the copies and the ids get out of step
CopyFor(r, c) == c.row = r

\* The table has any number of copies of a row, in any order; the last one
\* that scans stays in the map.
LoadMap ==
    /\ pc = "map"
    /\ \E unscanned \in SUBSET {c.row : c \in copies} :
          /\ encryptedMap' \in {m \in [{c.row : c \in copies} \ unscanned -> copies] :
                                   \A r \in DOMAIN m : CopyFor(r, m[r])}
          /\ mishaps' = mishaps \cup unscanned
    /\ pc' = "originals"
    /\ UNCHANGED <<outerVars, mode, etlVars, reportVars, original, panResult, verdict,
                   exported, safeVars>>

BugLoadOriginals ==              \* of the ids that were read before
    /\ pc = "originals"
    /\ outcome' = [r \in Rows |-> "unread"] /\ processed' = 0 /\ errors' = 0
    /\ V!Load
    /\ original' = [r \in rows' |-> source[r]]
    /\ pc' = "verify"
    /\ UNCHANGED <<outerVars, mode, status, read, panKey, cvvKey, encryptedMap,
                   panResult, verdict, exported, safeVars, mishaps>>

\* A row that does not scan is passed over.  What the ETL has reported is not
\* read any more, and forgotten here.
LoadOriginals ==
    /\ pc = "originals"
    /\ outcome' = [r \in Rows |-> "unread"] /\ processed' = 0 /\ errors' = 0
    /\ V!Load
    /\ \A r \in rows' : source[r] # None
    /\ original' = [r \in rows' |-> source[r]]
    /\ pc' = "verify"
    /\ UNCHANGED <<outerVars, mode, status, read, panKey, cvvKey, encryptedMap,
                   panResult, verdict, exported, safeVars, mishaps>>

LoadFails ==                     \* a query fails
    /\ pc \in {"map", "originals"}
    /\ V!Abandon
    /\ pc' = "off"
    /\ UNCHANGED <<outerVars, mode, etlVars, checkVars, exported, safeVars, mishaps>>

BugCompare(r, field) ==          \* the CVV is compared with the PAN
    IF encryptedMap[r].value[field] = original[r].pan THEN "match" ELSE "differs"

Compare(r, field) ==
    IF encryptedMap[r].value[field] = original[r][field] THEN "match" ELSE "differs"

\* What the decryption of a field that was encrypted under k comes to, and
\* whether it got an answer.
Decrypted(r, field, k) ==
    {<<IF k = key THEN Compare(r, field) ELSE "error", TRUE>>, <<"error", FALSE>>}

Note(r, answered) == mishaps' = IF answered THEN mishaps ELSE mishaps \cup {r}

DecryptPAN(r) ==
    /\ r \in rows \ settled /\ r \in DOMAIN encryptedMap \ DOMAIN panResult
    /\ \E d \in Decrypted(r, "pan", encryptedMap[r].panKey) :
          panResult' = Put(panResult, r, d[1]) /\ Note(r, d[2])
    /\ UNCHANGED <<outerVars, pc, mode, etlVars, reportVars, encryptedMap, original,
                   verdict, exported, safeVars>>

Conclude(r, pan, cvv) ==
    /\ V!Settle(r)
    /\ verdict' = Put(verdict, r, [pan |-> pan, cvv |-> cvv])
    /\ UNCHANGED <<outerVars, pc, mode, etlVars, encryptedMap, original, panResult,
                   exported, safeVars>>

DecryptCVV(r) ==
    /\ r \in DOMAIN panResult
    /\ \E d \in Decrypted(r, "cvv", encryptedMap[r].cvvKey) :
          Conclude(r, panResult[r], d[1]) /\ Note(r, d[2])

NotFound(r) ==
    /\ r \notin DOMAIN encryptedMap
    /\ Conclude(r, "error", "error")
    /\ UNCHANGED mishaps

TimesOut(r) ==
    /\ r \in DOMAIN encryptedMap
    /\ Conclude(r, "error", "error")
    /\ Note(r, FALSE)

VerifyRow(r) ==
    /\ pc = "verify"
    /\ DecryptPAN(r) \/ DecryptCVV(r) \/ NotFound(r) \/ TimesOut(r)

EndVerification(A) ==
    /\ pc = "verify" /\ A
    /\ pc' = "export"
    /\ UNCHANGED <<outerVars, mode, etlVars, checkVars, exported, safeVars, mishaps>>

Export ==                        \* nothing to export, or a failure: no file
    /\ pc = "export"
    /\ pc' = "off"
    /\ exported' \in {FALSE, report # {}}
    /\ UNCHANGED <<outerVars, mode, etlVars, reportVars, checkVars, safeVars, mishaps>>

-----------------------------------------------------------------------------
(* the Excel file: exportToExcel and countMatches *)

BugColour(v) ==                  \* an error in one field is not looked at
    IF v.pan = "match" THEN "green"
    ELSE IF "error" \in {v.pan, v.cvv} THEN "red" ELSE "yellow"

Colour(v) ==
    IF v.pan = "match" /\ v.cvv = "match" THEN "green"
    ELSE IF "error" \in {v.pan, v.cvv} THEN "red" ELSE "yellow"

Matches(fields) ==
    Cardinality({r \in report : \A f \in fields : verdict[r][f] = "match"})

Summary ==
    [total |-> Cardinality(report),
     perfect |-> Matches({"pan", "cvv"}), pan |-> Matches({"pan"}), cvv |-> Matches({"cvv"}),
     errors |-> Cardinality(report) - Matches({"pan", "cvv"})]

Coloured(colour) == {r \in report : Colour(verdict[r]) = colour}

-----------------------------------------------------------------------------
(* the safe verification: runSafeVerification *)

\* The rows that scan; a query that fails ends the run.
Select ==
    /\ pc = "select"
    /\ \/ /\ toShow' \in {S \in SUBSET copies : Cardinality(S) <= SafeLimit}
          /\ pc' = "show"
       \/ pc' = "off" /\ UNCHANGED toShow
    /\ UNCHANGED <<outerVars, mode, etlVars, verifyVars, shown, mishaps>>

Show(c) ==                       \* only the PAN is decrypted
    /\ pc = "show" /\ c \in toShow
    /\ toShow' = toShow \ {c}
    /\ \E d \in {<<IF c.panKey = key THEN "OK" ELSE "FAIL", TRUE>>, <<"FAIL", FALSE>>} :
          shown' = shown \cup {<<c, d[1]>>} /\ Note(c.row, d[2])
    /\ UNCHANGED <<outerVars, pc, mode, etlVars, verifyVars>>

AllShown ==
    /\ pc = "show" /\ toShow = {}
    /\ pc' = "off"
    /\ UNCHANGED <<outerVars, mode, runVars>>

-----------------------------------------------------------------------------
Step ==
    \/ RunETL \/ ReportETL \/ GiveUp
    \/ Count \/ LoadMap \/ LoadOriginals \/ LoadFails
    \/ \E r \in Rows : VerifyRow(r)
    \/ EndVerification(V!Full) \/ Export
    \/ Select \/ AllShown
    \/ \E c \in toShow : Show(c)

Cancelled == EndVerification(V!Cut)         \* the 30 minutes are over

Next ==
    \/ Step
    \/ Cancelled \/ Kill
    \/ \E m \in Modes : Start(m)
    \/ \E r \in Rows : ChangeRow(r)
    \/ RestartKMS
    \/ pc = "off" /\ UNCHANGED vars

Spec == Init /\ [][Next]_vars

-----------------------------------------------------------------------------
Copies == [row : Rows, value : Values, panKey : Keys, cvvKey : Keys]
Outcomes == {"match", "differs", "error"}

(* Type invariant; the verification has a verdict for exactly the rows that *)
(* are settled.                                                            *)
TypeOK ==
    /\ source \in [Rows -> Values \cup {None}]
    /\ copies \subseteq Copies
    /\ key \in Keys
    /\ pc \in {"off", "etl", "count", "map", "originals", "verify", "export", "select", "show"}
    /\ mode \in Modes
    /\ read \in [Rows -> Values \cup {None}]
    /\ {panKey, cvvKey} \subseteq [Rows -> Keys \cup {None}]
    /\ DOMAIN encryptedMap \subseteq Rows
    /\ DOMAIN original = rows /\ DOMAIN verdict = settled
    /\ \A r \in rows : original[r] \in Values
    /\ \A r \in settled : verdict[r] \in [pan : Outcomes, cvv : Outcomes]
    /\ \A r \in DOMAIN panResult : panResult[r] \in Outcomes
    /\ exported \in BOOLEAN
    /\ toShow \subseteq copies /\ shown \subseteq copies \X {"OK", "FAIL"}

(* A row that the Excel file shows in green has in the destination a copy  *)
(* of just the PAN and CVV that the source row had when it was read:       *)
(* whichever run stored it, with rows changed, keys changed and other runs *)
(* killed in between.                                                      *)
PerfectIsTrue ==
    exported => \A r \in Coloured("green") :
        \E c \in copies : c.row = r /\ c.value = original[r]

(* A row is shown in another colour, or as FAIL by the safe verification,  *)
(* only for a cause: yellow if somebody changed the source row; red if a   *)
(* call got no answer, there is no copy, or the KMS has been given another *)
(* key, which never shows as yellow.                                       *)
NoFalseAlarm ==
    /\ exported =>
          /\ Coloured("yellow") \subseteq changed
          /\ \A r \in Coloured("red") :
                r \in mishaps \/ r \notin DOMAIN encryptedMap \/ keyChanges > 0
    /\ \A s \in shown : s[2] = "FAIL" => s[1].row \in mishaps \/ keyChanges > 0

(* The summary, counted apart from the colours, agrees with them.          *)
SummaryAgrees ==
    exported =>
        /\ Summary.perfect = Cardinality(Coloured("green"))
        /\ Summary.errors = Cardinality(Coloured("red") \cup Coloured("yellow"))
        /\ Summary.pan + Summary.cvv - Summary.perfect <= Summary.total

(* What the ETL phase of a run has counted as transferred, its own         *)
(* verification finds, whatever batch the row was in.                      *)
StoredIsFound ==
    pc = "originals" => T!With("stored") \subseteq DOMAIN encryptedMap \cup mishaps

=============================================================================
