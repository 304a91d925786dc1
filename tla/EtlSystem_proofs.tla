-------------------------- MODULE EtlSystem_proofs --------------------------
(***************************************************************************)
(* Proofs about EtlSystem, for every table, set of values and keys, and    *)
(* any number of runs, changes of rows and restarts of the KMS.            *)
(***************************************************************************)
EXTENDS EtlSystem, FiniteSetTheorems, TLAPS

-----------------------------------------------------------------------------
(* The types of the parts that EtlTransfer and VerifyReport describe, and  *)
(* what the verification has before it has read the source table.          *)
Shapes ==
    /\ outcome \in [Rows -> {"unread", "inflight", "stored", "unknown", "failed", "skipped"}]
    /\ keyChanges \in Nat
    /\ rows \subseteq Rows /\ settled \subseteq rows /\ report \subseteq settled
    /\ DOMAIN panResult \subseteq rows \cap DOMAIN encryptedMap
    /\ encryptedMap \in [DOMAIN encryptedMap -> copies]
    /\ \A r \in DOMAIN encryptedMap : encryptedMap[r].row = r

Phases ==
    /\ pc \in {"etl", "count", "map", "originals"} =>
          settled = {} /\ panResult = Nowhere /\ ~exported
    /\ phase = "loading" => rows = {}

\* What a row holds after it was read is what it held then, or it has changed.
SameAsSource(r, value) == r \in changed \/ value = source[r]

Sources ==
    /\ \A c \in copies : SameAsSource(c.row, c.value)
    /\ \A r \in Rows : read[r] # None => SameAsSource(r, read[r])
    /\ \A r \in Rows : outcome[r] = "inflight" => read[r] # None
    /\ \A r \in rows : SameAsSource(r, original[r])

\* Until the KMS is started with another key there is only one.
OneKey ==
    /\ \A r \in Rows : cvvKey[r] # None => panKey[r] # None
    /\ keyChanges = 0 =>
          /\ \A c \in copies : c.panKey = key /\ c.cvvKey = key
          /\ \A r \in Rows : panKey[r] \in {key, None} /\ cvvKey[r] \in {key, None}

\* An outcome of a field of row r says what it should.
Justified(r, field, o) ==
    /\ o = "match" => /\ r \in DOMAIN encryptedMap
                      /\ encryptedMap[r].value[field] = original[r][field]
    /\ o = "differs" => /\ r \in DOMAIN encryptedMap
                        /\ encryptedMap[r].value[field] # original[r][field]
    /\ o = "error" => r \in mishaps \/ r \notin DOMAIN encryptedMap \/ keyChanges > 0

Verdicts ==
    /\ \A r \in DOMAIN panResult : Justified(r, "pan", panResult[r])
    /\ \A r \in settled : /\ Justified(r, "pan", verdict[r].pan)
                          /\ Justified(r, "cvv", verdict[r].cvv)
    /\ \A s \in shown : s[2] = "FAIL" => s[1].row \in mishaps \/ keyChanges > 0

StoredHasCopy ==
    \A r \in Rows : outcome[r] = "stored" => \E c \in copies : c.row = r

IInv ==
    /\ TypeOK /\ Shapes /\ Phases
    /\ Sources /\ OneKey /\ Verdicts
    /\ StoredHasCopy /\ StoredIsFound

-----------------------------------------------------------------------------
LEMMA InitIInv == Init => IInv
<1> SUFFICES ASSUME Init PROVE IInv
  OBVIOUS
<1> USE EtlSystemAssumption DEF EtlSystemAssumption
<1>1. /\ outcome = [r \in Rows |-> "unread"] /\ phase = "loading"
      /\ rows = {} /\ settled = {} /\ report = {}
      /\ keyChanges = 0 /\ copies = {} /\ shown = {} /\ toShow = {}
      /\ exported = FALSE /\ pc = "off" /\ mode = "etl"
      /\ read = [r \in Rows |-> None]
      /\ panKey = [r \in Rows |-> None] /\ cvvKey = [r \in Rows |-> None]
      /\ source \in [Rows -> Values] /\ key \in Keys
  BY DEF Init, T!Init, V!Init, Blank
<1>2. /\ encryptedMap = Nowhere /\ panResult = Nowhere
      /\ original = Nowhere /\ verdict = Nowhere
      /\ DOMAIN Nowhere = {} /\ Nowhere \in [{} -> copies]
  BY DEF Init, Nowhere
<1>3. TypeOK
  <2>1. mode \in Modes /\ exported \in BOOLEAN
    BY <1>1 DEF Modes
  <2>2. /\ source \in [Rows -> Values \cup {None}] /\ read \in [Rows -> Values \cup {None}]
        /\ panKey \in [Rows -> Keys \cup {None}] /\ cvvKey \in [Rows -> Keys \cup {None}]
    BY <1>1
  <2>3. QED
    BY <1>1, <1>2, <2>1, <2>2 DEF TypeOK
<1>4. Shapes
  BY <1>1, <1>2 DEF Shapes
<1>5. Phases
  BY <1>1 DEF Phases
<1>6. Sources /\ OneKey
  BY <1>1 DEF Sources, OneKey
<1>7. Verdicts
  BY <1>1, <1>2 DEF Verdicts
<1>8. StoredHasCopy /\ StoredIsFound
  BY <1>1 DEF StoredHasCopy, StoredIsFound
<1>9. QED
  BY <1>3, <1>4, <1>5, <1>6, <1>7, <1>8 DEF IInv

-----------------------------------------------------------------------------
(* What each step changes: the others keep what they found. *)
LEMMA SourcesKept ==
    ASSUME Sources, UNCHANGED <<source, copies, changed, read, outcome, rows, original>>
    PROVE  Sources'
  BY DEF Sources, SameAsSource

LEMMA OneKeyKept ==
    ASSUME OneKey, UNCHANGED <<copies, key, keyChanges, panKey, cvvKey>>
    PROVE  OneKey'
  BY DEF OneKey

LEMMA VerdictsKept ==
    ASSUME Verdicts,
           UNCHANGED <<encryptedMap, original, panResult, verdict, settled, shown,
                       mishaps, keyChanges>>
    PROVE  Verdicts'
  BY DEF Verdicts, Justified

LEMMA StoredKept ==
    ASSUME StoredHasCopy, UNCHANGED outcome, copies \subseteq copies'
    PROVE  StoredHasCopy'
  BY DEF StoredHasCopy

(* A new process, and one that was killed, know nothing.                   *)
LEMMA ForgetStep ==
    ASSUME IInv, Forget, pc' \in {"off", "etl", "select"}, mode' \in Modes,
           UNCHANGED <<source, copies, key, changed, keyChanges>>
    PROVE  IInv'
<1>1. /\ outcome' = [r \in Rows |-> "unread"] /\ phase' = "loading"
      /\ rows' = {} /\ settled' = {} /\ report' = {}
      /\ shown' = {} /\ toShow' = {}
      /\ exported' = FALSE
      /\ read' = [r \in Rows |-> None]
      /\ panKey' = [r \in Rows |-> None] /\ cvvKey' = [r \in Rows |-> None]
      /\ source \in [Rows -> Values \cup {None}] /\ key \in Keys /\ copies \subseteq Copies
  BY DEF Forget, Blank, IInv, TypeOK
<1>2. /\ encryptedMap' = Nowhere /\ panResult' = Nowhere
      /\ original' = Nowhere /\ verdict' = Nowhere
      /\ DOMAIN Nowhere = {} /\ Nowhere \in [{} -> copies]
  BY DEF Forget, Nowhere
<1>3. TypeOK'
  <2>1. exported' \in BOOLEAN
    BY <1>1
  <2>2. /\ read' \in [Rows -> Values \cup {None}]
        /\ panKey' \in [Rows -> Keys \cup {None}] /\ cvvKey' \in [Rows -> Keys \cup {None}]
    BY <1>1
  <2>3. QED
    BY <1>1, <1>2, <2>1, <2>2 DEF TypeOK
<1>4. Shapes'
  BY <1>1, <1>2 DEF Shapes, IInv
<1>5. Phases'
  BY <1>1, <1>2 DEF Phases, Nowhere
<1>6. Sources' /\ OneKey'
  BY <1>1 DEF Sources, OneKey, SameAsSource, IInv
<1>7. Verdicts'
  BY <1>1, <1>2 DEF Verdicts
<1>8. StoredHasCopy' /\ StoredIsFound'
  BY <1>1 DEF StoredHasCopy, StoredIsFound
<1>9. QED
  BY <1>3, <1>4, <1>5, <1>6, <1>7, <1>8 DEF IInv

LEMMA SurroundingsStep ==
    ASSUME IInv, (\E r \in Rows : ChangeRow(r)) \/ RestartKMS
    PROVE  IInv'
<1> USE DEF IInv
<1>1. /\ UNCHANGED <<copies, pc, mode>>
      /\ UNCHANGED <<outcome, read, panKey, cvvKey, phase, rows, settled, report,
                     encryptedMap, original, panResult, verdict, exported, toShow, shown, mishaps>>
  BY DEF ChangeRow, RestartKMS, runVars, etlVars, verifyVars, reportVars, checkVars, safeVars
<1>2. /\ source' \in [Rows -> Values \cup {None}] /\ key' \in Keys
      /\ changed \subseteq changed'
      /\ \A r \in Rows : source'[r] = source[r] \/ r \in changed'
      /\ keyChanges' \in Nat
      /\ \/ key' = key /\ keyChanges' = keyChanges
         \/ keyChanges' > 0
  BY DEF ChangeRow, RestartKMS, TypeOK, Shapes
<1>3. TypeOK'
  BY <1>1, <1>2 DEF TypeOK
<1>4. Shapes' /\ Phases'
  BY <1>1, <1>2 DEF Shapes, Phases
<1>5. Sources'
  <2>1. \A c \in copies : c.row \in Rows
    BY DEF TypeOK, Copies
  <2>2. rows \subseteq Rows
    BY DEF Shapes
  <2>3. QED
    BY <1>1, <1>2, <2>1, <2>2 DEF Sources, SameAsSource
<1>6. OneKey'
  BY <1>1, <1>2 DEF OneKey, Shapes
<1>7. Verdicts'
  BY <1>1, <1>2 DEF Verdicts, Justified, Shapes
<1>8. StoredHasCopy' /\ StoredIsFound'
  BY <1>1 DEF StoredHasCopy, StoredIsFound, T!With
<1>9. QED
  BY <1>3, <1>4, <1>5, <1>6, <1>7, <1>8

-----------------------------------------------------------------------------
(* The ETL phase leaves the verification and what it has shown alone.      *)
LEMMA EtlLeaves ==
    ASSUME IInv, RunETL
    PROVE  /\ pc = "etl"
           /\ UNCHANGED <<pc, mode, phase, rows, settled, report, encryptedMap, original,
                          panResult, verdict, exported, toShow, shown, mishaps>>
           /\ UNCHANGED <<source, key, changed, keyChanges>>
           /\ Verdicts' /\ StoredIsFound'
<1>1. /\ pc = "etl"
      /\ UNCHANGED <<pc, mode, phase, rows, settled, report, encryptedMap, original,
                     panResult, verdict, exported, toShow, shown, mishaps>>
  BY DEF RunETL, verifyVars, reportVars, checkVars, safeVars
<1>2. UNCHANGED <<source, key, changed, keyChanges>>
  BY DEF RunETL, ReadRow, SkipRow, EncryptPAN, EncryptCVV, EncryptFails, StoreBatch,
         LoseBatch, outerVars
<1>3. Verdicts'
  BY <1>1, <1>2, VerdictsKept DEF IInv
<1>4. StoredIsFound'
  BY <1>1 DEF StoredIsFound
<1>5. QED
  BY <1>1, <1>2, <1>3, <1>4

LEMMA RowStep ==
    ASSUME IInv, RunETL, NEW r \in Rows,
           ReadRow(r) \/ SkipRow(r) \/ EncryptPAN(r) \/ EncryptCVV(r) \/ EncryptFails(r)
    PROVE  IInv'
<1> USE DEF IInv
<1>1. /\ pc = "etl" /\ UNCHANGED copies
      /\ UNCHANGED <<pc, mode, phase, rows, settled, report, encryptedMap, original,
                     panResult, verdict, exported, toShow, shown, mishaps>>
      /\ UNCHANGED <<source, key, changed, keyChanges>>
      /\ Verdicts' /\ StoredIsFound'
  BY EtlLeaves DEF ReadRow, SkipRow, EncryptPAN, EncryptCVV, EncryptFails, outerVars
<1> USE EtlSystemAssumption DEF EtlSystemAssumption
<1>2. ASSUME Phases, Shapes
      PROVE  Phases'
  BY <1>1 DEF Phases
<1>3. CASE ReadRow(r)
  <2>1. /\ source[r] # None /\ source[r] \in Values
        /\ outcome[r] = "unread" /\ UNCHANGED <<panKey, cvvKey>>
        /\ outcome' = [q \in Rows |-> IF q \in {r} THEN "inflight" ELSE outcome[q]]
        /\ read' = [read EXCEPT ![r] = source[r]]
    BY <1>3 DEF ReadRow, T!Read, T!Become, TypeOK
  <2>2. read' \in [Rows -> Values \cup {None}] /\ read'[r] = source[r]
        /\ \A q \in Rows \ {r} : read'[q] = read[q] /\ outcome'[q] = outcome[q]
    BY <2>1 DEF TypeOK
  <2>3. TypeOK'
    BY <1>1, <2>1, <2>2 DEF TypeOK
  <2>4. Shapes'
    BY <1>1, <2>1 DEF Shapes
  <2>5. Sources'
    BY <1>1, <2>1, <2>2 DEF Sources, SameAsSource
  <2>6. OneKey' /\ StoredHasCopy'
    BY <1>1, <2>1, <2>2, OneKeyKept DEF StoredHasCopy
  <2>7. QED
    BY <1>1, <1>2, <2>3, <2>4, <2>5, <2>6
<1>4. CASE SkipRow(r) \/ EncryptFails(r)
  <2>1. /\ UNCHANGED <<read, panKey, cvvKey>>
        /\ \E o \in {"skipped", "failed"} :
              outcome' = [q \in Rows |-> IF q \in {r} THEN o ELSE outcome[q]]
    <3>1. CASE SkipRow(r)
      BY <3>1 DEF SkipRow, T!Skip, T!Become
    <3>2. CASE EncryptFails(r)
      <4>1. PICK o \in {"failed", "unknown"} :
                 outcome' = [q \in Rows |-> IF q \in {r} THEN o ELSE outcome[q]]
        BY <3>2 DEF EncryptFails, T!Fail, T!Become
      <4>2. o = "failed"
        BY <3>2, <4>1 DEF EncryptFails
      <4>3. QED
        BY <3>2, <4>1, <4>2 DEF EncryptFails
    <3>3. QED
      BY <1>4, <3>1, <3>2
  <2>2. TypeOK' /\ Shapes'
    BY <1>1, <2>1 DEF TypeOK, Shapes
  <2>3. Sources' /\ OneKey' /\ StoredHasCopy'
    BY <1>1, <2>1, OneKeyKept DEF Sources, SameAsSource, StoredHasCopy
  <2>4. QED
    BY <1>1, <1>2, <2>2, <2>3
<1>5. CASE EncryptPAN(r)
  <2>1. /\ UNCHANGED <<outcome, read, cvvKey>> /\ panKey[r] = None /\ key # None
        /\ panKey' = [panKey EXCEPT ![r] = key]
    BY <1>5 DEF EncryptPAN, TypeOK
  <2>2. TypeOK' /\ Shapes'
    BY <1>1, <2>1 DEF TypeOK, Shapes
  <2>3. OneKey'
    BY <1>1, <2>1 DEF OneKey, TypeOK
  <2>4. QED
    BY <1>1, <1>2, <2>1, <2>2, <2>3, SourcesKept, StoredKept
<1>6. CASE EncryptCVV(r)
  <2>1. /\ UNCHANGED <<outcome, read, panKey>> /\ panKey[r] # None /\ key # None
        /\ cvvKey' = [cvvKey EXCEPT ![r] = key]
    BY <1>6 DEF EncryptCVV, TypeOK
  <2>2. TypeOK' /\ Shapes'
    BY <1>1, <2>1 DEF TypeOK, Shapes
  <2>3. OneKey'
    BY <1>1, <2>1 DEF OneKey, TypeOK
  <2>4. QED
    BY <1>1, <1>2, <2>1, <2>2, <2>3, SourcesKept, StoredKept
<1>7. QED
  BY <1>3, <1>4, <1>5, <1>6

(* The copies of a batch are what was read and encrypted.                  *)
LEMMA BatchStep ==
    ASSUME IInv, RunETL, NEW S \in SUBSET Encrypted, StoreBatch(S) \/ LoseBatch(S)
    PROVE  IInv'
<1> USE DEF IInv
<1>1. /\ pc = "etl" /\ UNCHANGED <<read, panKey, cvvKey>>
      /\ UNCHANGED <<pc, mode, phase, rows, settled, report, encryptedMap, original,
                     panResult, verdict, exported, toShow, shown, mishaps>>
      /\ UNCHANGED <<source, key, changed, keyChanges>>
      /\ Verdicts' /\ StoredIsFound'
  BY EtlLeaves DEF StoreBatch, LoseBatch
<1>2. \A r \in S : /\ r \in Rows /\ outcome[r] = "inflight"
                   /\ read[r] \in Values /\ SameAsSource(r, read[r])
                   /\ panKey[r] \in Keys /\ cvvKey[r] \in Keys
  <2>1. \A r \in S : r \in Rows /\ outcome[r] = "inflight" /\ cvvKey[r] # None
    BY DEF Encrypted, T!With
  <2>2. QED
    BY <2>1 DEF Sources, OneKey, TypeOK
<1>3. /\ CopiesOf(S) \subseteq Copies
      /\ \A c \in CopiesOf(S) : /\ c.row \in S /\ c.value = read[c.row]
                               /\ c.panKey = panKey[c.row] /\ c.cvvKey = cvvKey[c.row]
      /\ \A r \in S : \E c \in CopiesOf(S) : c.row = r
  <2> DEFINE CopyOf(r) == [row |-> r, value |-> read[r], panKey |-> panKey[r], cvvKey |-> cvvKey[r]]
  <2>1. CopiesOf(S) = {CopyOf(r) : r \in S}
    BY DEF CopiesOf
  <2>2. \A r \in S : /\ CopyOf(r) \in Copies
                     /\ CopyOf(r).row = r /\ CopyOf(r).value = read[r]
                     /\ CopyOf(r).panKey = panKey[r] /\ CopyOf(r).cvvKey = cvvKey[r]
    BY <1>2 DEF Copies
  <2> HIDE DEF CopyOf
  <2>3. QED
    BY <2>1, <2>2
<1>4. /\ \E o \in {"stored", "failed", "unknown"} :
            /\ outcome' = [q \in Rows |-> IF q \in S THEN o ELSE outcome[q]]
            /\ o = "stored" => copies' = copies \cup CopiesOf(S)
      /\ copies' = copies \/ copies' = copies \cup CopiesOf(S)
  <2>1. CASE StoreBatch(S)
    BY <2>1 DEF StoreBatch, T!Store, T!Become, Insert
  <2>2. CASE LoseBatch(S)
    BY <2>2 DEF LoseBatch, T!Fail, T!Become, Insert
  <2>3. QED
    BY <2>1, <2>2
<1>5. TypeOK'
  <2>1. copies \subseteq copies' /\ copies' \subseteq Copies
    BY <1>3, <1>4 DEF TypeOK
  <2>2. QED
    BY <1>1, <2>1 DEF TypeOK
<1>6. Shapes'
  <2>1. outcome' \in [Rows -> {"unread", "inflight", "stored", "unknown", "failed", "skipped"}]
    BY <1>4 DEF Shapes
  <2>2. encryptedMap \in [DOMAIN encryptedMap -> copies']
    BY <1>4 DEF Shapes
  <2>3. QED
    BY <1>1, <2>1, <2>2 DEF Shapes
<1>7. Phases'
  BY <1>1 DEF Phases
<1>8. Sources'
  BY <1>1, <1>2, <1>3, <1>4 DEF Sources, SameAsSource
<1>9. OneKey'
  <2>1. ASSUME keyChanges = 0, NEW c \in CopiesOf(S)
        PROVE  c.panKey = key /\ c.cvvKey = key
    <3>1. /\ c.panKey \in {key, None} /\ c.cvvKey \in {key, None}
      BY <1>2, <1>3, <2>1 DEF OneKey
    <3>2. c.panKey # None /\ c.cvvKey # None
      BY <1>2, <1>3, EtlSystemAssumption DEF EtlSystemAssumption
    <3>3. QED
      BY <3>1, <3>2
  <2>2. QED
    BY <1>1, <1>4, <2>1 DEF OneKey
<1>10. StoredHasCopy'
  BY <1>2, <1>3, <1>4 DEF StoredHasCopy
<1>11. QED
  BY <1>1, <1>5, <1>6, <1>7, <1>8, <1>9, <1>10

LEMMA EtlEnds ==
    ASSUME IInv, ReportETL \/ GiveUp
    PROVE  IInv'
<1> USE DEF IInv
<1>1. /\ UNCHANGED <<source, copies, key, changed, keyChanges, mode, outcome>>
      /\ UNCHANGED <<phase, rows, settled, report, encryptedMap, original,
                     panResult, verdict, exported, toShow, shown, mishaps>>
      /\ pc = "etl" /\ pc' \in {"count", "off"}
  BY DEF ReportETL, GiveUp, T!Report, T!GiveUp, outerVars, verifyVars, reportVars,
         checkVars, safeVars
<1>2. \/ UNCHANGED <<read, panKey, cvvKey>>
      \/ /\ \A r \in Rows : outcome[r] # "inflight"
         /\ read' = [r \in Rows |-> None]
         /\ panKey' = [r \in Rows |-> None] /\ cvvKey' = [r \in Rows |-> None]
  BY DEF ReportETL, GiveUp, T!Report, T!With, Blank
<1>3. TypeOK'
  BY <1>1, <1>2 DEF TypeOK
<1>4. Shapes' /\ Phases'
  BY <1>1 DEF Shapes, Phases
<1>5. Sources' /\ OneKey'
  BY <1>1, <1>2 DEF Sources, SameAsSource, OneKey
<1>6. Verdicts' /\ StoredHasCopy'
  BY <1>1, VerdictsKept, StoredKept
<1>7. StoredIsFound'
  BY <1>1 DEF StoredIsFound
<1>8. QED
  BY <1>3, <1>4, <1>5, <1>6, <1>7

-----------------------------------------------------------------------------
(* The verification reads the copies and then the source table.            *)
LEMMA CountStep ==
    ASSUME IInv, Count
    PROVE  IInv'
<1> USE DEF IInv
<1>1. /\ UNCHANGED <<source, copies, key, changed, keyChanges, mode, outcome, read, panKey, cvvKey>>
      /\ UNCHANGED <<phase, rows, settled, report, encryptedMap, original,
                     panResult, verdict, exported, toShow, shown, mishaps>>
      /\ pc = "count" /\ pc' \in {"map", "off"}
  BY DEF Count, outerVars, runVars, etlVars, verifyVars, reportVars, checkVars, safeVars
<1>2. TypeOK' /\ Shapes' /\ Phases'
  BY <1>1 DEF TypeOK, Shapes, Phases
<1>3. Sources' /\ OneKey' /\ Verdicts' /\ StoredHasCopy'
  BY <1>1, SourcesKept, OneKeyKept, VerdictsKept, StoredKept
<1>4. StoredIsFound'
  BY <1>1 DEF StoredIsFound
<1>5. QED
  BY <1>2, <1>3, <1>4

LEMMA LoadMapStep ==
    ASSUME IInv, LoadMap
    PROVE  IInv'
<1> USE DEF IInv
<1>1. /\ UNCHANGED <<source, copies, key, changed, keyChanges, mode, outcome, read, panKey, cvvKey>>
      /\ UNCHANGED <<phase, rows, settled, report, original,
                     panResult, verdict, exported, toShow, shown>>
      /\ pc = "map" /\ pc' = "originals"
  BY DEF LoadMap, outerVars, etlVars, reportVars, safeVars
<1>2. PICK unscanned \in SUBSET {c.row : c \in copies} :
          /\ encryptedMap' \in {m \in [{c.row : c \in copies} \ unscanned -> copies] :
                                   \A r \in DOMAIN m : CopyFor(r, m[r])}
          /\ mishaps' = mishaps \cup unscanned
  BY DEF LoadMap
<1>3. /\ DOMAIN encryptedMap' = {c.row : c \in copies} \ unscanned
      /\ encryptedMap' \in [DOMAIN encryptedMap' -> copies]
      /\ \A r \in DOMAIN encryptedMap' : encryptedMap'[r].row = r
  BY <1>2 DEF CopyFor
<1>4. TypeOK'
  <2>1. DOMAIN encryptedMap' \subseteq Rows
    BY <1>3 DEF TypeOK, Copies
  <2>2. QED
    BY <1>1, <2>1 DEF TypeOK
<1>5. Shapes' /\ Phases'
  <2>1. DOMAIN panResult = {}
    BY <1>1 DEF Phases, Nowhere
  <2>2. Shapes'
    BY <1>1, <1>3, <2>1 DEF Shapes
  <2>3. QED
    BY <1>1, <2>2 DEF Phases
<1>6. Sources' /\ OneKey' /\ StoredHasCopy'
  BY <1>1, SourcesKept, OneKeyKept, StoredKept
<1>7. Verdicts'
  <2>1. settled = {} /\ DOMAIN panResult = {}
    BY <1>1 DEF Phases, Nowhere
  <2>2. \A s \in shown : s[2] = "FAIL" => s[1].row \in mishaps' \/ keyChanges > 0
    BY <1>2 DEF Verdicts
  <2>3. QED
    BY <1>1, <2>1, <2>2 DEF Verdicts
<1>8. StoredIsFound'
  <2>1. ASSUME NEW r \in Rows, outcome[r] = "stored"
        PROVE  r \in DOMAIN encryptedMap' \/ r \in mishaps'
    <3>1. r \in {c.row : c \in copies}
      BY <2>1 DEF StoredHasCopy
    <3>2. QED
      BY <1>2, <1>3, <3>1
  <2>2. QED
    BY <1>1, <2>1 DEF StoredIsFound, T!With
<1>9. QED
  BY <1>4, <1>5, <1>6, <1>7, <1>8

LEMMA LoadOriginalsStep ==
    ASSUME IInv, LoadOriginals
    PROVE  IInv'
<1> USE DEF IInv
<1>1. /\ UNCHANGED <<source, copies, key, changed, keyChanges, mode, read, panKey, cvvKey>>
      /\ UNCHANGED <<settled, report, encryptedMap,
                     panResult, verdict, exported, toShow, shown, mishaps>>
      /\ pc = "originals" /\ pc' = "verify"
      /\ outcome' = [r \in Rows |-> "unread"]
      /\ rows' \subseteq Rows /\ phase' = "verifying"
      /\ \A r \in rows' : source[r] # None
      /\ original' = [r \in rows' |-> source[r]]
  BY DEF LoadOriginals, V!Load, outerVars, safeVars
<1>2. settled = {} /\ panResult = Nowhere /\ DOMAIN panResult = {} /\ report = {}
  BY <1>1 DEF Phases, Shapes, Nowhere
<1>3. TypeOK'
  <2>1. DOMAIN original' = rows' /\ \A r \in rows' : original'[r] \in Values
    BY <1>1 DEF TypeOK
  <2>2. QED
    BY <1>1, <1>2, <2>1 DEF TypeOK
<1>4. Shapes' /\ Phases'
  BY <1>1, <1>2 DEF Shapes, Phases
<1>5. Sources'
  BY <1>1 DEF Sources, SameAsSource
<1>6. OneKey'
  BY <1>1, OneKeyKept
<1>7. Verdicts'
  BY <1>1, <1>2 DEF Verdicts
<1>8. StoredHasCopy' /\ StoredIsFound'
  BY <1>1 DEF StoredHasCopy, StoredIsFound
<1>9. QED
  BY <1>3, <1>4, <1>5, <1>6, <1>7, <1>8

\* The verification ends, or is given up, or its result is exported.
LEMMA VerificationEnds ==
    ASSUME IInv,
           LoadFails \/ EndVerification(V!Full) \/ EndVerification(V!Cut) \/ Export
    PROVE  IInv'
<1> USE DEF IInv
<1>1. /\ UNCHANGED <<source, copies, key, changed, keyChanges, mode, outcome, read, panKey, cvvKey>>
      /\ UNCHANGED <<rows, settled, encryptedMap, original,
                     panResult, verdict, toShow, shown, mishaps>>
      /\ pc' \in {"export", "off"} /\ exported' \in BOOLEAN
  BY DEF LoadFails, EndVerification, Export, V!Abandon, V!Full, V!Cut,
         outerVars, etlVars, reportVars, checkVars, safeVars, TypeOK
<1>2. report' \subseteq settled /\ (phase' = phase \/ phase' \in {"none", "full", "cut"})
  BY DEF LoadFails, EndVerification, Export, V!Abandon, V!Full, V!Cut, reportVars, Shapes
<1>3. TypeOK'
  BY <1>1 DEF TypeOK
<1>4. Shapes' /\ Phases'
  BY <1>1, <1>2 DEF Shapes, Phases
<1>5. Sources' /\ OneKey' /\ Verdicts' /\ StoredHasCopy'
  BY <1>1, SourcesKept, OneKeyKept, VerdictsKept, StoredKept
<1>6. StoredIsFound'
  BY <1>1 DEF StoredIsFound
<1>7. QED
  BY <1>3, <1>4, <1>5, <1>6

-----------------------------------------------------------------------------
(* The outcome of a field that is decrypted and compared is the right one. *)
LEMMA DecryptedRightly ==
    ASSUME IInv, NEW r \in rows, r \in DOMAIN encryptedMap,
           NEW field \in {"pan", "cvv"}, NEW k,
           k = encryptedMap[r].panKey \/ k = encryptedMap[r].cvvKey,
           NEW d \in Decrypted(r, field, k), Note(r, d[2])
    PROVE  /\ d[1] \in Outcomes
           /\ mishaps \subseteq mishaps'
           /\ d[1] = "match" => encryptedMap[r].value[field] = original[r][field]
           /\ d[1] = "differs" => encryptedMap[r].value[field] # original[r][field]
           /\ d[1] = "error" => r \in mishaps' \/ keyChanges > 0
<1>1. \/ d = <<IF k = key THEN Compare(r, field) ELSE "error", TRUE>>
      \/ d = <<"error", FALSE>>
  BY DEF Decrypted
<1>2. keyChanges = 0 => k = key
  BY DEF IInv, Shapes, OneKey
<1>3. keyChanges \in Nat
  BY DEF IInv, Shapes
<1>4. CASE d = <<"error", FALSE>>
  BY <1>4 DEF Note, Outcomes
<1>5. CASE d = <<IF k = key THEN Compare(r, field) ELSE "error", TRUE>>
  BY <1>2, <1>3, <1>5 DEF Note, Compare, Outcomes
<1>6. QED
  BY <1>1, <1>4, <1>5

LEMMA DecryptPANStep ==
    ASSUME IInv, pc = "verify", NEW r \in Rows, DecryptPAN(r)
    PROVE  IInv'
<1> USE DEF IInv
<1>1. /\ UNCHANGED <<source, copies, key, changed, keyChanges, pc, mode, outcome, read, panKey, cvvKey>>
      /\ UNCHANGED <<phase, rows, settled, report, encryptedMap, original,
                     verdict, exported, toShow, shown>>
      /\ r \in rows /\ r \in DOMAIN encryptedMap
  BY DEF DecryptPAN, outerVars, etlVars, reportVars, safeVars
<1>2. PICK d \in Decrypted(r, "pan", encryptedMap[r].panKey) :
          panResult' = Put(panResult, r, d[1]) /\ Note(r, d[2])
  BY DEF DecryptPAN
<1>3. /\ d[1] \in Outcomes
      /\ mishaps \subseteq mishaps'
      /\ d[1] = "match" => encryptedMap[r].value["pan"] = original[r]["pan"]
      /\ d[1] = "differs" => encryptedMap[r].value["pan"] # original[r]["pan"]
      /\ d[1] = "error" => r \in mishaps' \/ keyChanges > 0
  BY <1>1, <1>2, DecryptedRightly
<1>4. /\ DOMAIN panResult' = DOMAIN panResult \cup {r}
      /\ panResult'[r] = d[1]
      /\ \A q \in DOMAIN panResult : q # r => panResult'[q] = panResult[q]
  BY <1>2 DEF Put
<1>5. TypeOK'
  BY <1>1, <1>3, <1>4 DEF TypeOK
<1>6. Shapes' /\ Phases'
  BY <1>1, <1>4 DEF Shapes, Phases
<1>7. Sources' /\ OneKey' /\ StoredHasCopy'
  BY <1>1, SourcesKept, OneKeyKept, StoredKept
<1>8. Verdicts'
  BY <1>1, <1>3, <1>4 DEF Verdicts, Justified
<1>9. StoredIsFound'
  BY <1>1 DEF StoredIsFound
<1>10. QED
  BY <1>5, <1>6, <1>7, <1>8, <1>9

LEMMA ConcludeStep ==
    ASSUME IInv, pc = "verify", NEW r \in Rows, NEW pan \in Outcomes, NEW cvv \in Outcomes,
           Conclude(r, pan, cvv), mishaps \subseteq mishaps',
           Justified(r, "pan", pan)', Justified(r, "cvv", cvv)'
    PROVE  IInv'
<1> USE DEF IInv
<1>1. /\ UNCHANGED <<source, copies, key, changed, keyChanges, pc, mode, outcome, read, panKey, cvvKey>>
      /\ UNCHANGED <<phase, rows, report, encryptedMap, original, panResult,
                     exported, toShow, shown>>
      /\ r \in rows /\ settled' = settled \cup {r}
      /\ verdict' = Put(verdict, r, [pan |-> pan, cvv |-> cvv])
  BY DEF Conclude, V!Settle, outerVars, etlVars, safeVars
<1>2. /\ DOMAIN verdict' = settled'
      /\ verdict'[r] = [pan |-> pan, cvv |-> cvv]
      /\ \A q \in settled : q # r => verdict'[q] = verdict[q]
  BY <1>1 DEF Put, TypeOK
<1>3. TypeOK'
  <2>1. \A q \in settled' : verdict'[q] \in [pan : Outcomes, cvv : Outcomes]
    BY <1>1, <1>2 DEF TypeOK
  <2>2. QED
    BY <1>1, <1>2, <2>1 DEF TypeOK
<1>4. Shapes' /\ Phases'
  BY <1>1 DEF Shapes, Phases
<1>5. Sources' /\ OneKey' /\ StoredHasCopy'
  BY <1>1, SourcesKept, OneKeyKept, StoredKept
<1>6. Verdicts'
  <2>1. verdict'[r].pan = pan /\ verdict'[r].cvv = cvv
    BY <1>2
  <2>2. ASSUME NEW q \in settled'
        PROVE  (Justified(q, "pan", verdict[q].pan) /\ Justified(q, "cvv", verdict[q].cvv))'
    <3>1. CASE q = r
      BY <2>1, <3>1
    <3>2. CASE q # r
      <4>1. q \in settled /\ verdict'[q] = verdict[q]
        BY <1>1, <1>2, <3>2
      <4>2. Justified(q, "pan", verdict[q].pan) /\ Justified(q, "cvv", verdict[q].cvv)
        BY <4>1 DEF Verdicts
      <4>3. QED
        BY <1>1, <4>1, <4>2 DEF Justified
    <3>3. QED
      BY <3>1, <3>2
  <2>3. \A q \in DOMAIN panResult : Justified(q, "pan", panResult[q])'
    BY <1>1 DEF Verdicts, Justified
  <2>4. \A s \in shown' : s[2] = "FAIL" => s[1].row \in mishaps' \/ keyChanges' > 0
    BY <1>1 DEF Verdicts
  <2>5. QED
    BY <1>1, <2>2, <2>3, <2>4 DEF Verdicts
<1>7. StoredIsFound'
  BY <1>1 DEF StoredIsFound
<1>8. QED
  BY <1>3, <1>4, <1>5, <1>6, <1>7

LEMMA VerifyRowStep ==
    ASSUME IInv, NEW r \in Rows, VerifyRow(r)
    PROVE  IInv'
<1> USE DEF IInv
<1>1. pc = "verify"
  BY DEF VerifyRow
<1>2. CASE DecryptPAN(r)
  BY <1>1, <1>2, DecryptPANStep
<1>3. CASE DecryptCVV(r)
  <2>1. PICK d \in Decrypted(r, "cvv", encryptedMap[r].cvvKey) :
            Conclude(r, panResult[r], d[1]) /\ Note(r, d[2])
    BY <1>3 DEF DecryptCVV
  <2>2. /\ UNCHANGED <<encryptedMap, original, keyChanges>>
        /\ r \in rows /\ r \in DOMAIN panResult
    BY <1>3, <2>1 DEF DecryptCVV, Conclude, outerVars, V!Settle
  <2>3. panResult[r] \in Outcomes /\ Justified(r, "pan", panResult[r])
    BY <2>2 DEF TypeOK, Verdicts
  <2>4. CASE r \in DOMAIN encryptedMap
    <3>1. /\ d[1] \in Outcomes
          /\ mishaps \subseteq mishaps'
          /\ d[1] = "match" => encryptedMap[r].value["cvv"] = original[r]["cvv"]
          /\ d[1] = "differs" => encryptedMap[r].value["cvv"] # original[r]["cvv"]
          /\ d[1] = "error" => r \in mishaps' \/ keyChanges > 0
      BY <2>1, <2>2, <2>4, DecryptedRightly
    <3>2. PICK p \in Outcomes : p = panResult[r]
      BY <2>3
    <3>3. PICK c \in Outcomes : c = d[1]
      BY <3>1
    <3>4. Justified(r, "cvv", c)'
      BY <2>2, <2>4, <3>1, <3>3 DEF Justified
    <3>5. Justified(r, "pan", p)'
      BY <2>2, <2>3, <3>1, <3>2 DEF Justified
    <3>6. Conclude(r, p, c)
      BY <2>1, <3>2, <3>3
    <3>7. QED
      BY <1>1, <3>1, <3>4, <3>5, <3>6, ConcludeStep
  <2>5. QED
    BY <2>2, <2>4 DEF Shapes
<1>4. CASE NotFound(r) \/ TimesOut(r)
  <2>1. /\ Conclude(r, "error", "error") /\ mishaps \subseteq mishaps'
        /\ r \in mishaps' \/ r \notin DOMAIN encryptedMap
        /\ UNCHANGED encryptedMap
    BY <1>4 DEF NotFound, TimesOut, Note, Conclude
  <2>2. Justified(r, "pan", "error")' /\ Justified(r, "cvv", "error")'
    BY <2>1 DEF Justified
  <2>3. "error" \in Outcomes
    BY DEF Outcomes
  <2>4. QED
    BY <1>1, <2>1, <2>2, <2>3, ConcludeStep
<1>5. QED
  BY <1>2, <1>3, <1>4 DEF VerifyRow

-----------------------------------------------------------------------------
LEMMA SafeStep ==
    ASSUME IInv, Select \/ AllShown \/ \E c \in toShow : Show(c)
    PROVE  IInv'
<1> USE DEF IInv
<1>1. /\ UNCHANGED <<source, copies, key, changed, keyChanges, mode, outcome, read, panKey, cvvKey>>
      /\ UNCHANGED <<phase, rows, settled, report, encryptedMap, original,
                     panResult, verdict, exported>>
      /\ pc' \in {"show", "off"}
  BY DEF Select, AllShown, Show, outerVars, runVars, etlVars, verifyVars, reportVars, checkVars
<1>2. /\ toShow' \subseteq copies /\ mishaps \subseteq mishaps'
      /\ \A s \in shown' :
            \/ s \in shown
            \/ /\ s \in copies \X {"OK", "FAIL"}
               /\ s[2] = "FAIL" => s[1].row \in mishaps' \/ keyChanges > 0
  <2>1. CASE Select \/ AllShown
    BY <2>1 DEF Select, AllShown, runVars, safeVars, TypeOK
  <2>2. ASSUME NEW c \in toShow, Show(c)
        PROVE  /\ toShow' \subseteq copies /\ mishaps \subseteq mishaps'
               /\ \A s \in shown' :
                     \/ s \in shown
                     \/ /\ s \in copies \X {"OK", "FAIL"}
                        /\ s[2] = "FAIL" => s[1].row \in mishaps' \/ keyChanges > 0
    <3>1. PICK d \in {<<IF c.panKey = key THEN "OK" ELSE "FAIL", TRUE>>, <<"FAIL", FALSE>>} :
              shown' = shown \cup {<<c, d[1]>>} /\ Note(c.row, d[2])
      BY <2>2 DEF Show
    <3>2. c \in copies /\ toShow' = toShow \ {c} /\ toShow \subseteq copies
      BY <2>2 DEF Show, TypeOK
    <3>3. keyChanges \in Nat /\ (keyChanges = 0 => c.panKey = key)
      BY <3>2 DEF Shapes, OneKey
    <3>4. /\ mishaps \subseteq mishaps' /\ d[1] \in {"OK", "FAIL"}
          /\ d[1] = "FAIL" => c.row \in mishaps' \/ keyChanges > 0
      <4>1. CASE d = <<"FAIL", FALSE>>
        BY <3>1, <4>1 DEF Note
      <4>2. CASE d = <<IF c.panKey = key THEN "OK" ELSE "FAIL", TRUE>>
        BY <3>1, <3>3, <4>2 DEF Note
      <4>3. QED
        BY <3>1, <4>1, <4>2
    <3>5. QED
      BY <3>1, <3>2, <3>4
  <2>3. QED
    BY <2>1, <2>2
<1>3. shown' \subseteq copies \X {"OK", "FAIL"}
  <2>1. \A s \in shown : s \in copies \X {"OK", "FAIL"}
    BY DEF TypeOK
  <2>2. \A s \in shown' : s \in copies \X {"OK", "FAIL"}
    BY <1>2, <2>1
  <2>3. QED
    BY <2>2
<1>4. TypeOK'
  BY <1>1, <1>2, <1>3 DEF TypeOK
<1>5. Shapes' /\ Phases'
  BY <1>1 DEF Shapes, Phases
<1>6. Sources' /\ OneKey' /\ StoredHasCopy'
  BY <1>1, SourcesKept, OneKeyKept, StoredKept
<1>7. Verdicts'
  <2>1. \A s \in shown' : s[2] = "FAIL" => s[1].row \in mishaps' \/ keyChanges > 0
    BY <1>2 DEF Verdicts
  <2>3. \A r \in DOMAIN panResult : Justified(r, "pan", panResult[r])'
    BY <1>1, <1>2 DEF Verdicts, Justified
  <2>4. \A r \in settled : (Justified(r, "pan", verdict[r].pan) /\ Justified(r, "cvv", verdict[r].cvv))'
    BY <1>1, <1>2 DEF Verdicts, Justified
  <2>5. QED
    BY <1>1, <2>1, <2>3, <2>4 DEF Verdicts
<1>8. StoredIsFound'
  BY <1>1 DEF StoredIsFound
<1>9. QED
  BY <1>4, <1>5, <1>6, <1>7, <1>8

LEMMA StepIInv ==
    ASSUME IInv, [Next]_vars
    PROVE  IInv'
<1>1. CASE RunETL
  BY <1>1, RowStep, BatchStep DEF RunETL
<1>2. CASE ReportETL \/ GiveUp
  BY <1>2, EtlEnds
<1>3. CASE Count \/ LoadMap \/ LoadOriginals
  BY <1>3, CountStep, LoadMapStep, LoadOriginalsStep
<1>4. CASE LoadFails \/ EndVerification(V!Full) \/ EndVerification(V!Cut) \/ Export
  BY <1>4, VerificationEnds
<1>5. CASE \E r \in Rows : VerifyRow(r)
  BY <1>5, VerifyRowStep
<1>6. CASE Select \/ AllShown \/ \E c \in toShow : Show(c)
  BY <1>6, SafeStep
<1>7. CASE Kill \/ \E m \in Modes : Start(m)
  <2>1. /\ Forget /\ pc' \in {"off", "etl", "select"} /\ mode' \in Modes
        /\ UNCHANGED <<source, copies, key, changed, keyChanges>>
    BY <1>7 DEF Kill, Start, outerVars, IInv, TypeOK
  <2>2. QED
    BY <2>1, ForgetStep
<1>8. CASE (\E r \in Rows : ChangeRow(r)) \/ RestartKMS
  BY <1>8, SurroundingsStep
<1>9. CASE UNCHANGED vars
  <2>1. /\ UNCHANGED <<source, copies, key, changed, keyChanges, pc, mode, outcome, read, panKey, cvvKey>>
        /\ UNCHANGED <<phase, rows, settled, report, encryptedMap, original, panResult,
                       verdict, exported, toShow, shown, mishaps>>
    BY <1>9 DEF vars, outerVars, runVars, etlVars, verifyVars, reportVars, checkVars, safeVars
  <2>2. TypeOK' /\ Shapes' /\ Phases'
    BY <2>1 DEF IInv, TypeOK, Shapes, Phases
  <2>3. Sources' /\ OneKey' /\ Verdicts' /\ StoredHasCopy' /\ StoredIsFound'
    BY <2>1, SourcesKept, OneKeyKept, VerdictsKept, StoredKept DEF IInv, StoredIsFound, T!With
  <2>4. QED
    BY <2>2, <2>3 DEF IInv
<1>10. QED
  BY <1>1, <1>2, <1>3, <1>4, <1>5, <1>6, <1>7, <1>8, <1>9 DEF Next, Step, Cancelled

-----------------------------------------------------------------------------
(* The inductive invariant holds over any number of runs, killed or not.   *)
THEOREM Invariance == Spec => []IInv
<1>1. Init => IInv
  BY InitIInv
<1>2. IInv /\ [Next]_vars => IInv'
  BY StepIInv
<1>3. QED
  BY <1>1, <1>2, PTL DEF Spec

(* The types hold over any number of runs, and the verification has a      *)
(* verdict for exactly the rows that are settled.                          *)
THEOREM SystemTypeCorrect == Spec => []TypeOK
<1>1. IInv => TypeOK
  BY DEF IInv
<1>2. QED
  BY <1>1, Invariance, PTL

(* A row that the Excel file shows in green has in the destination a copy  *)
(* of just the PAN and CVV that the source row had when it was read.       *)
THEOREM GreenIsTrue == Spec => []PerfectIsTrue
<1>1. ASSUME IInv
      PROVE  PerfectIsTrue
  <2> SUFFICES ASSUME NEW r \in Coloured("green")
               PROVE  \E c \in copies : c.row = r /\ c.value = original[r]
    BY DEF PerfectIsTrue
  <2> USE <1>1 DEF IInv
  <2>1. r \in settled /\ r \in rows
    BY DEF Coloured, Shapes
  <2>2. verdict[r].pan = "match" /\ verdict[r].cvv = "match"
    BY DEF Coloured, Colour
  <2>3. /\ r \in DOMAIN encryptedMap
        /\ encryptedMap[r].value["pan"] = original[r]["pan"]
        /\ encryptedMap[r].value["cvv"] = original[r]["cvv"]
    BY <2>1, <2>2 DEF Verdicts, Justified
  <2>4. encryptedMap[r] \in copies /\ encryptedMap[r].row = r
    BY <2>3 DEF Shapes
  <2>5. encryptedMap[r].value \in Values /\ original[r] \in Values
    BY <2>1, <2>4 DEF TypeOK, Copies
  <2>6. encryptedMap[r].value = original[r]
    BY <2>3, <2>5, EtlSystemAssumption DEF EtlSystemAssumption
  <2>7. QED
    BY <2>4, <2>6
<1>2. QED
  BY <1>1, Invariance, PTL

(* A row is shown in another colour, or as FAIL, only for a cause: yellow  *)
(* if somebody changed the source row, red or FAIL if a call got no        *)
(* answer, there is no copy, or the KMS has been given another key.        *)
THEOREM EveryAlarmHasACause == Spec => []NoFalseAlarm
<1>1. ASSUME IInv
      PROVE  NoFalseAlarm
  <2> USE <1>1 DEF IInv
  <2>1. ASSUME NEW r \in Coloured("yellow")
        PROVE  r \in changed
    <3>1. r \in settled /\ r \in rows /\ Colour(verdict[r]) = "yellow"
      BY <2>1 DEF Coloured, Shapes
    <3>2. verdict[r].pan \in Outcomes /\ verdict[r].cvv \in Outcomes
      BY <3>1 DEF TypeOK
    <3>3. verdict[r].pan = "differs" \/ verdict[r].cvv = "differs"
      BY <3>1, <3>2 DEF Colour, Outcomes
    <3>4. /\ r \in DOMAIN encryptedMap
          /\ encryptedMap[r].value # original[r]
      BY <3>1, <3>3 DEF Verdicts, Justified
    <3>5. encryptedMap[r] \in copies /\ encryptedMap[r].row = r
      BY <3>4 DEF Shapes
    <3>6. SameAsSource(r, encryptedMap[r].value) /\ SameAsSource(r, original[r])
      BY <3>1, <3>5 DEF Sources
    <3>7. QED
      BY <3>4, <3>6 DEF SameAsSource
  <2>2. ASSUME NEW r \in Coloured("red")
        PROVE  r \in mishaps \/ r \notin DOMAIN encryptedMap \/ keyChanges > 0
    <3>1. r \in settled /\ Colour(verdict[r]) = "red"
      BY <2>2 DEF Coloured, Shapes
    <3>2. verdict[r].pan = "error" \/ verdict[r].cvv = "error"
      BY <3>1 DEF Colour
    <3>3. QED
      BY <3>1, <3>2 DEF Verdicts, Justified
  <2>3. QED
    BY <2>1, <2>2 DEF NoFalseAlarm, Verdicts
<1>2. QED
  BY <1>1, Invariance, PTL

(* The summary of the Excel file agrees with its colours.                  *)
THEOREM SummaryIsTrue == Spec => []SummaryAgrees
<1>1. ASSUME IInv
      PROVE  SummaryAgrees
  <2> USE <1>1 DEF IInv
  <2> DEFINE P == {r \in report : \A f \in {"pan"} : verdict[r][f] = "match"}
             C == {r \in report : \A f \in {"cvv"} : verdict[r][f] = "match"}
             B == {r \in report : \A f \in {"pan", "cvv"} : verdict[r][f] = "match"}
  <2>1. IsFiniteSet(report) /\ Cardinality(report) \in Nat
    <3>1. report \in SUBSET Rows
      BY DEF Shapes
    <3>2. QED
      BY <3>1, EtlSystemAssumption, FS_Subset, FS_CardinalityType DEF EtlSystemAssumption
  <2>2. B = Coloured("green") /\ B = P \cap C
    BY DEF Coloured, Colour
  <2>3. Coloured("red") \cup Coloured("yellow") = report \ B
    BY DEF Coloured, Colour
  <2>4. IsFiniteSet(P) /\ IsFiniteSet(C) /\ IsFiniteSet(B)
    BY <2>1, FS_Subset
  <2>5. Cardinality(report \ B) = Cardinality(report) - Cardinality(B)
    <3>1. report \cap B = B
      OBVIOUS
    <3>2. Cardinality(report \ B) = Cardinality(report) - Cardinality(report \cap B)
      BY <2>1, FS_Difference
    <3>3. QED
      BY <3>1, <3>2
  <2>6. Cardinality(P) + Cardinality(C) - Cardinality(B) <= Cardinality(report)
    <3>1. Cardinality(P \cup C) = Cardinality(P) + Cardinality(C) - Cardinality(P \cap C)
      BY <2>4, FS_Union
    <3>2. P \cup C \in SUBSET report
      OBVIOUS
    <3>3. Cardinality(P \cup C) <= Cardinality(report)
      BY <2>1, <3>2, FS_Subset
    <3>4. Cardinality(P \cap C) = Cardinality(B)
      BY <2>2
    <3>5. QED
      BY <3>1, <3>3, <3>4
  <2>7. /\ Summary.total = Cardinality(report) /\ Summary.perfect = Cardinality(B)
        /\ Summary.pan = Cardinality(P) /\ Summary.cvv = Cardinality(C)
        /\ Summary.errors = Cardinality(report) - Cardinality(B)
    BY DEF Summary, Matches
  <2>8. QED
    <3> HIDE DEF P, C, B
    <3> QED
      BY <2>2, <2>3, <2>5, <2>6, <2>7 DEF SummaryAgrees
<1>2. QED
  BY <1>1, Invariance, PTL

(* What the ETL phase of a run has counted as transferred, its own         *)
(* verification finds.                                                     *)
THEOREM TransferredIsFound == Spec => []StoredIsFound
<1>1. IInv => StoredIsFound
  BY DEF IInv
<1>2. QED
  BY <1>1, Invariance, PTL

=============================================================================
