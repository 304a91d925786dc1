------------------------ MODULE BatchEncrypt_proofs ------------------------
(***************************************************************************)
(* Proofs about BatchEncrypt, for requests of any length, any limit on it  *)
(* and any number of goroutines.                                           *)
(***************************************************************************)
EXTENDS BatchEncrypt, NaturalLemmas, FiniteSetTheorems, TLAPS

-----------------------------------------------------------------------------
(* Where each item is, and what the handler and the pool have done when    *)
(* the handler is at a given point.                                        *)
Queued == 1 .. nextItem - 1
Answered == {i \in Items : \E res \in resultChan : res.index = i}
Stored == {i \in Items : tempResults[i] = i}
Missing == Queued \ (workChan \cup busy \cup Answered \cup Stored)

\* A queued item is waiting, with a goroutine, answered, stored, or it is one
\* of the errors; a result is the only one of its item, and of that item.
Places ==
    /\ \A i \in workChan : i \in Queued /\ i \notin busy \cup Answered \cup Stored
    /\ \A i \in busy : i \in Queued /\ i \notin Answered \cup Stored
    /\ \A i \in Answered : i \in Queued /\ i \notin Stored
    /\ \A i \in Items : tempResults[i] = Empty \/ (i \in Queued /\ tempResults[i] = i)
    /\ \A res \in resultChan : res.cipher \in {Empty, res.index}
    /\ \A r, s \in resultChan : r.index = s.index => r = s
    /\ errors = Cardinality(Missing)

Phases ==
    /\ handlerPc \in {"check", "refused"} => nextItem = 1
    /\ handlerPc = "refused" <=> handlerPc # "check" /\ n \notin 1 .. MaxItems
    /\ workClosed <=> handlerPc \in {"collect", "convert", "replied"}
    /\ workClosed => nextItem = n + 1
    /\ resultClosed => PoolExited
    /\ handlerPc \in {"convert", "replied"} => resultClosed /\ resultChan = {}

Outcome ==
    IF handlerPc = "replied"
    THEN Promise!Lists(reply, Stored) /\ Len(reply) = Cardinality(Stored)
    ELSE reply = <<>>

IInv == TypeOK /\ Places /\ Phases /\ Outcome

-----------------------------------------------------------------------------
(* The results found at the first i positions, in order of position.       *)

UpTo ==
    LET upTo[i \in 0 .. n] ==
            IF i = 0 THEN <<>>
            ELSE IF tempResults[i] = Empty THEN upTo[i - 1]
            ELSE Append(upTo[i - 1], tempResults[i])
    IN  upTo

LEMMA FilterLoop ==
    ASSUME n \in Nat
    PROVE  /\ FinalResults = UpTo[n]
           /\ UpTo = [i \in 0 .. n |->
                 IF i = 0 THEN <<>>
                 ELSE IF tempResults[i] = Empty THEN UpTo[i - 1]
                 ELSE Append(UpTo[i - 1], tempResults[i])]
<1> DEFINE Body(f, i) == IF i = 0 THEN <<>>
                         ELSE IF tempResults[i] = Empty THEN f[i - 1]
                         ELSE Append(f[i - 1], tempResults[i])
           S == {k \in Nat : \E f : f = [i \in 0 .. k |-> Body(f, i)]}
<1>1. 0 \in S
  <2> DEFINE f == [i \in 0 .. 0 |-> <<>>]
  <2>1. f = [i \in 0 .. 0 |-> Body(f, i)]
    OBVIOUS
  <2>2. QED
    BY <2>1
<1>2. ASSUME NEW k \in Nat, k \in S
      PROVE k + 1 \in S
  <2>1. PICK f : f = [i \in 0 .. k |-> Body(f, i)]
     BY <1>2
  <2> DEFINE g == [i \in 0 .. k + 1 |-> IF i = k + 1 THEN Body(f, k+1) ELSE f[i]]
  <2>2. ASSUME NEW i \in 0 .. k+1 PROVE g[i] = Body(g, i)
    <3>1. CASE i = k + 1
      BY <3>1
    <3>2. CASE i # k + 1
      <4>1. i \in 0 .. k /\ g[i] = f[i] /\ (i # 0 => g[i - 1] = f[i - 1])
        BY <3>2
      <4>2. f[i] = Body(f, i)
        BY <2>1, <4>1
      <4>3. QED BY <4>1, <4>2
    <3>3. QED BY <3>1, <3>2
  <2>3. g = [i \in 0 .. k + 1 |-> Body(g, i)]
    BY <2>2, Zenon
  <2>4. \E h : h = [i \in 0 .. k + 1 |-> Body(h, i)]
    <3> HIDE DEF g
    <3> QED BY <2>3
  <2>5. k + 1 \in Nat
    OBVIOUS
  <2>6. QED BY <2>4, <2>5, Zenon
<1>3. n \in S
  <2> HIDE DEF S
  <2>1. QED BY <1>1, <1>2, Induction
<1>4. PICK f : f = [i \in 0 .. n |-> Body(f, i)]
  BY <1>3
<1>5. UpTo = [i \in 0 .. n |-> Body(UpTo, i)]
  BY <1>4 DEF UpTo
<1>6. QED
  BY <1>5 DEF FinalResults, UpTo

-----------------------------------------------------------------------------
LEMMA SeqOfElements ==
    ASSUME NEW S, NEW T, NEW s \in Seq(S),
           \A a \in 1 .. Len(s) : s[a] \in T
    PROVE  s \in Seq(T)
<1>1. Len(s) \in Nat /\ s \in [1 .. Len(s) -> S]
  OBVIOUS
<1>2. s \in [1 .. Len(s) -> T]
  BY <1>1
<1>3. QED
  BY <1>1, <1>2

(* The filter of the reply lists the stored ciphertexts, each of them      *)
(* once, in the order of the items.                                        *)
StoredUpTo(k) == {i \in 1 .. k : tempResults[i] = i}

ListedUpTo(k) ==
    /\ UpTo[k] \in Seq(1 .. k)
    /\ \A i \in StoredUpTo(k) : \E a \in 1 .. Len(UpTo[k]) : UpTo[k][a] = i
    /\ \A a \in 1 .. Len(UpTo[k]) : UpTo[k][a] \in StoredUpTo(k)
    /\ \A a, b \in 1 .. Len(UpTo[k]) : a < b => UpTo[k][a] < UpTo[k][b]
    /\ Len(UpTo[k]) = Cardinality(StoredUpTo(k))

LEMMA FilterStep ==
    ASSUME TypeOK, AnswerAtItsOwnPosition, NEW k \in Nat, k + 1 \in Items,
           ListedUpTo(k)
    PROVE  ListedUpTo(k + 1)
<1> DEFINE s == UpTo[k]
           t == UpTo[k + 1]
<1>1. n \in Nat /\ k + 1 \in 0 .. n /\ k + 1 # 0 /\ k + 1 - 1 = k
  BY BatchAssumption DEF TypeOK, BatchAssumption, Items
<1>2. t = IF tempResults[k + 1] = Empty THEN s ELSE Append(s, tempResults[k + 1])
  <2> DEFINE B(i) == IF i = 0 THEN <<>>
                     ELSE IF tempResults[i] = Empty THEN UpTo[i - 1]
                     ELSE Append(UpTo[i - 1], tempResults[i])
  <2>1. UpTo = [i \in 0 .. n |-> B(i)]
    BY <1>1, FilterLoop
  <2>2. UpTo[k + 1] = B(k + 1)
    <3> HIDE DEF B
    <3> QED
      BY <1>1, <2>1
  <2>3. QED
    BY <1>1, <2>2
<1>3. /\ s \in Seq(1 .. k)
      /\ \A i \in StoredUpTo(k) : \E a \in 1 .. Len(s) : s[a] = i
      /\ \A a \in 1 .. Len(s) : s[a] \in StoredUpTo(k)
      /\ \A a, b \in 1 .. Len(s) : a < b => s[a] < s[b]
      /\ Len(s) = Cardinality(StoredUpTo(k))
  BY DEF ListedUpTo
<1>4. tempResults[k + 1] \in {Empty, k + 1}
  BY DEF AnswerAtItsOwnPosition
<1>5. IsFiniteSet(StoredUpTo(k)) /\ k + 1 \notin StoredUpTo(k)
  <2>1. IsFiniteSet(1 .. k)
    BY FS_Interval
  <2>2. QED
    BY <2>1, FS_Subset DEF StoredUpTo
<1>6. CASE tempResults[k + 1] = Empty
  <2>1. t = s /\ StoredUpTo(k + 1) = StoredUpTo(k)
    BY <1>2, <1>6 DEF StoredUpTo, Empty
  <2>2. s \in Seq(1 .. k + 1)
    BY <1>3
  <2> HIDE DEF s, t
  <2>3. /\ t \in Seq(1 .. k + 1)
        /\ \A i \in StoredUpTo(k + 1) : \E a \in 1 .. Len(t) : t[a] = i
        /\ \A a \in 1 .. Len(t) : t[a] \in StoredUpTo(k + 1)
        /\ \A a, b \in 1 .. Len(t) : a < b => t[a] < t[b]
        /\ Len(t) = Cardinality(StoredUpTo(k + 1))
    BY <1>3, <2>1, <2>2
  <2>4. QED
    BY <2>3 DEF ListedUpTo, t
<1>7. CASE tempResults[k + 1] # Empty
  <2>1. t = Append(s, k + 1) /\ StoredUpTo(k + 1) = StoredUpTo(k) \cup {k + 1}
    BY <1>2, <1>4, <1>7 DEF StoredUpTo
  <2>2. \A i \in StoredUpTo(k) : i \in Nat /\ i < k + 1
    BY DEF StoredUpTo
  <2> HIDE DEF s, t
  <2>3. s \in Seq(1 .. k + 1) /\ k + 1 \in 1 .. k + 1
    BY <1>3
  <2>4. /\ t \in Seq(1 .. k + 1) /\ Len(t) = Len(s) + 1
        /\ t[Len(s) + 1] = k + 1
        /\ \A a \in 1 .. Len(s) : t[a] = s[a]
        /\ Len(s) \in Nat
    BY <2>1, <2>3
  <2>5. \A i \in StoredUpTo(k + 1) : \E a \in 1 .. Len(t) : t[a] = i
    <3>1. TAKE i \in StoredUpTo(k + 1)
    <3>2. CASE i = k + 1
      <4>1. Len(s) + 1 \in 1 .. Len(t)
        BY <2>4
      <4>2. QED
        BY <2>4, <3>2, <4>1
    <3>3. CASE i # k + 1
      <4>1. PICK a \in 1 .. Len(s) : s[a] = i
        BY <1>3, <2>1, <3>3
      <4>2. a \in 1 .. Len(t) /\ t[a] = i
        BY <2>4, <4>1
      <4>3. QED
        BY <4>2
    <3>4. QED
      BY <3>2, <3>3
  <2>6. \A a \in 1 .. Len(t) : t[a] \in StoredUpTo(k + 1)
    <3>1. TAKE a \in 1 .. Len(t)
    <3>2. a = Len(s) + 1 \/ a \in 1 .. Len(s)
      BY <2>4
    <3>3. QED
      BY <1>3, <2>1, <2>4, <3>2
  <2>7. ASSUME NEW a \in 1 .. Len(t), NEW b \in 1 .. Len(t), a < b
        PROVE  t[a] < t[b]
    <3>1. a \in 1 .. Len(s) /\ (b = Len(s) + 1 \/ b \in 1 .. Len(s))
      BY <2>4, <2>7
    <3>2. t[a] = s[a] /\ s[a] \in Nat /\ s[a] < k + 1
      BY <1>3, <2>2, <2>4, <3>1
    <3>3. CASE b = Len(s) + 1
      BY <2>4, <3>2, <3>3
    <3>4. CASE b \in 1 .. Len(s)
      BY <1>3, <2>4, <2>7, <3>1, <3>4
    <3>5. QED
      BY <3>1, <3>3, <3>4
  <2>8. Len(t) = Cardinality(StoredUpTo(k + 1))
    BY <1>3, <1>5, <2>1, <2>4, FS_AddElement
  <2>9. QED
    BY <2>4, <2>5, <2>6, <2>7, <2>8 DEF ListedUpTo, t
<1>8. QED
  BY <1>6, <1>7

LEMMA FilterLists ==
    ASSUME TypeOK, AnswerAtItsOwnPosition
    PROVE  /\ Promise!Lists(FinalResults, Stored)
           /\ FinalResults \in Seq(Items)
           /\ Len(FinalResults) = Cardinality(Stored)
<1> DEFINE S == {k \in Nat : k <= n => ListedUpTo(k)}
<1>1. n \in Nat
  BY BatchAssumption DEF TypeOK, BatchAssumption
<1>2. 0 \in S
  <2>1. UpTo[0] = <<>> /\ Len(<<>>) = 0
    BY <1>1, FilterLoop
  <2>2. StoredUpTo(0) = {}
    BY DEF StoredUpTo
  <2>3. Cardinality({}) = 0
    BY FS_EmptySet
  <2>4. UpTo[0] \in Seq(1 .. 0)
    BY <2>1
  <2>5. ListedUpTo(0)
    BY <2>1, <2>2, <2>3, <2>4 DEF ListedUpTo
  <2>6. QED
    BY <2>5
<1>3. ASSUME NEW k \in Nat, k \in S
      PROVE  k + 1 \in S
  <2>1. CASE k + 1 <= n
    <3>1. k + 1 \in Items /\ ListedUpTo(k)
      BY <1>1, <1>3, <2>1 DEF Items
    <3>2. QED
      BY <3>1, FilterStep
  <2>2. CASE ~ (k + 1 <= n)
    BY <2>2
  <2>3. QED
    BY <2>1, <2>2
<1>4. n \in S
  <2> HIDE DEF S
  <2> QED
    BY <1>1, <1>2, <1>3, Induction
<1>5. ListedUpTo(n) /\ FinalResults = UpTo[n] /\ StoredUpTo(n) = Stored
  BY <1>1, <1>4, FilterLoop DEF StoredUpTo, Stored, Items
<1>6. /\ FinalResults \in Seq(1 .. n)
      /\ Stored = {FinalResults[a] : a \in 1 .. Len(FinalResults)}
      /\ \A a \in 1 .. Len(FinalResults) : FinalResults[a] \in Stored
      /\ \A a, b \in 1 .. Len(FinalResults) : a < b => FinalResults[a] < FinalResults[b]
      /\ Len(FinalResults) = Cardinality(Stored)
  BY <1>5 DEF ListedUpTo
<1>7. FinalResults \in Seq(Stored)
  <2> HIDE DEF FinalResults
  <2> QED
    BY <1>6, SeqOfElements
<1>8. QED
  BY <1>6, <1>7 DEF Promise!Lists, Items

-----------------------------------------------------------------------------
LEMMA ItemSets ==
    ASSUME TypeOK
    PROVE  /\ n \in Nat
           /\ \A S \in SUBSET Items : /\ IsFiniteSet(S)
                                     /\ Cardinality(S) \in Nat
                                     /\ Cardinality(S) <= n
<1>1. n \in Nat
  BY BatchAssumption DEF TypeOK, BatchAssumption
<1>2. IsFiniteSet(Items) /\ Cardinality(Items) = n
  BY <1>1, FS_Interval DEF Items
<1>3. ASSUME NEW S \in SUBSET Items
      PROVE  IsFiniteSet(S) /\ Cardinality(S) \in Nat /\ Cardinality(S) <= n
  BY <1>2, FS_Subset, FS_CardinalityType
<1>4. QED
  BY <1>1, <1>3

(* Results of different items are as many as the items they are of.        *)
LEMMA ResultsByItem ==
    ASSUME TypeOK,
           NEW R \in SUBSET [index : Items, cipher : 0 .. n],
           \A r, s \in R : r.index = s.index => r = s
    PROVE  /\ IsFiniteSet(R)
           /\ Cardinality(R) = Cardinality({i \in Items : \E r \in R : r.index = i})
<1> DEFINE T == {i \in Items : \E r \in R : r.index = i}
           f == [r \in R |-> r.index]
<1>1. IsFiniteSet(T)
  BY ItemSets
<1>2. f \in [R -> T]
  OBVIOUS
<1>3. f \in Injection(R, T)
  BY <1>2 DEF Injection, IsInjective
<1>4. f \in Surjection(R, T)
  BY <1>2 DEF Surjection
<1>5. QED
  BY <1>1, <1>3, <1>4, FS_Injection

LEMMA InitIInv == Init => IInv
<1> SUFFICES ASSUME Init PROVE IInv
  OBVIOUS
<1> USE BatchAssumption DEF BatchAssumption, Init
<1>1. Cardinality({}) = 0
  BY FS_EmptySet
<1>2. n \in Nat
  OBVIOUS
<1>3. tempResults \in [Items -> 0 .. n] /\ \A i \in Items : tempResults[i] = Empty
  BY <1>2 DEF Empty
<1>4. /\ resultClosed \in BOOLEAN
      /\ workClosed \in BOOLEAN
      /\ reply \in Seq(Items)
  <2>1. reply \in Seq(Items)
    OBVIOUS
  <2>2. QED
    BY <2>1, Zenon
<1>5. TypeOK
  BY <1>1, <1>2, <1>3, <1>4 DEF TypeOK, Items
<1>6. Places
  <2>1. Answered = {} /\ Stored = {} /\ Missing = {}
    BY <1>3 DEF Answered, Stored, Missing, Queued, Empty, Items
  <2>2. QED
    BY <1>1, <1>3, <2>1 DEF Places
<1>7. Phases /\ Outcome
  BY <1>2 DEF Phases, Outcome
<1>8. QED
  BY <1>5, <1>6, <1>7 DEF IInv

LEMMA Collecting ==
    ASSUME IInv, NEW res \in resultChan, Collect(res)
    PROVE  IInv'
<1> USE DEF IInv
<1> DEFINE i == res.index
<1>1. /\ i \in Items /\ i \in Answered /\ i \in Queued /\ i \notin Stored
      /\ i \notin workChan /\ i \notin busy
      /\ res.cipher \in {Empty, i} /\ tempResults[i] = Empty
  <2>1. i \in Items /\ i \in Answered
    BY DEF TypeOK, Answered
  <2>2. tempResults[i] = Empty
    BY <2>1 DEF Places, Stored
  <2>3. QED
    BY <2>1, <2>2 DEF Places
<1>2. /\ UNCHANGED <<n, handlerPc, nextItem, workChan, workClosed, busy, resultClosed, reply>>
      /\ resultChan' = resultChan \ {res}
      /\ handlerPc = "collect"
  BY DEF Collect, queueVars
<1>3. Answered' = Answered \ {i} /\ Queued' = Queued /\ Items' = Items
  BY <1>2 DEF Answered, Queued, Items, Places
<1>4. /\ Missing \in SUBSET Items
      /\ IsFiniteSet(Missing) /\ Cardinality(Missing) \in Nat
  <2>1. Missing \in SUBSET Items
    BY ItemSets DEF Missing, Queued, Items, TypeOK
  <2>2. QED
    BY <2>1, ItemSets
<1>5. Cardinality(resultChan') \in Nat /\ Cardinality(resultChan') <= n
  <2>1. IsFiniteSet(resultChan)
    BY ResultsByItem DEF Places, TypeOK
  <2>2. Cardinality(resultChan') <= Cardinality(resultChan) /\ Cardinality(resultChan') \in Nat
    BY <1>2, <2>1, FS_Subset, FS_CardinalityType
  <2>3. QED
    BY <2>1, <2>2, ItemSets, FS_CardinalityType DEF TypeOK
<1>6. /\ Missing' = IF res.cipher = Empty THEN Missing \cup {i} ELSE Missing
      /\ tempResults' \in [Items -> 0 .. n]
      /\ \A j \in Items : tempResults'[j] =
            IF j = i /\ res.cipher # Empty THEN j ELSE tempResults[j]
      /\ Stored' = IF res.cipher = Empty THEN Stored ELSE Stored \cup {i}
      /\ i \notin Missing
      /\ errors' = IF res.cipher = Empty THEN errors + 1 ELSE errors
  <2>1. /\ tempResults' = IF res.cipher = Empty THEN tempResults
                          ELSE [tempResults EXCEPT ![i] = i]
        /\ errors' = IF res.cipher = Empty THEN errors + 1 ELSE errors
    BY <1>1 DEF Collect, Store
  <2>2. i \in 0 .. n
    BY <1>1, ItemSets DEF Items
  <2>3. /\ tempResults' \in [Items -> 0 .. n]
        /\ \A j \in Items : tempResults'[j] =
              IF j = i /\ res.cipher # Empty THEN j ELSE tempResults[j]
    BY <1>1, <2>1, <2>2 DEF TypeOK
  <2>4. Stored' = IF res.cipher = Empty THEN Stored ELSE Stored \cup {i}
    BY <1>1, <1>3, <2>3 DEF Stored
  <2>5. Missing' = (Queued \ (workChan \cup busy \cup (Answered \ {i}) \cup Stored'))
    BY <1>2, <1>3 DEF Missing
  <2>6. i \notin Missing
    BY <1>1 DEF Missing
  <2>7. Missing' = IF res.cipher = Empty THEN Missing \cup {i} ELSE Missing
    BY <1>1, <2>4, <2>5 DEF Missing
  <2>8. QED
    BY <2>1, <2>3, <2>4, <2>6, <2>7
<1>7. errors' = Cardinality(Missing')
  BY <1>4, <1>6, FS_AddElement DEF Places
<1>8. Places'
  <2>1. \A j \in Items : tempResults'[j] = Empty \/ (j \in Queued /\ tempResults'[j] = j)
    BY <1>1, <1>6 DEF Places
  <2>2. \A j \in Answered' : j \in Queued' /\ j \notin Stored'
    BY <1>3, <1>6 DEF Places
  <2>3. /\ \A j \in workChan' : j \in Queued' /\ j \notin busy' \cup Answered' \cup Stored'
        /\ \A j \in busy' : j \in Queued' /\ j \notin Answered' \cup Stored'
    BY <1>1, <1>2, <1>3, <1>6 DEF Places
  <2>4. /\ \A r \in resultChan' : r.cipher \in {Empty, r.index}
        /\ \A r, s \in resultChan' : r.index = s.index => r = s
    BY <1>2 DEF Places
  <2>5. QED
    BY <1>3, <1>7, <2>1, <2>2, <2>3, <2>4 DEF Places
<1>9. errors' \in 0 .. n
  <2>1. Missing' \in SUBSET Items
    BY <1>1, <1>4, <1>6
  <2>2. QED
    BY <1>7, <2>1, ItemSets
<1>10. TypeOK'
  BY <1>2, <1>3, <1>5, <1>6, <1>9 DEF TypeOK
<1>11. Phases'
  BY <1>2, <1>3 DEF Phases, PoolExited
<1>12. Outcome'
  BY <1>2 DEF Outcome
<1>13. QED
  BY <1>8, <1>10, <1>11, <1>12

LEMMA Calling ==
    ASSUME IInv, NEW i \in busy, NEW c \in {Empty, i}, Call(i, c)
    PROVE  IInv'
<1> USE DEF IInv
<1> DEFINE res == [index |-> i, cipher |-> c]
<1>1. /\ i \in Items /\ i \in Queued /\ i \notin Answered /\ i \notin Stored
      /\ i \notin workChan
  BY DEF TypeOK, Places
<1>2. /\ UNCHANGED <<n, handlerPc, nextItem, workChan, workClosed, resultClosed, tempResults, errors, reply>>
      /\ resultChan' = resultChan \cup {res}
      /\ busy' = busy \ {i}
  BY DEF Call, queueVars, answerVars
<1>3. res \in [index : Items, cipher : 0 .. n] /\ res.index = i /\ res.cipher = c
  BY <1>1, ItemSets DEF Empty, Items
<1>4. Answered' = Answered \cup {i} /\ Queued' = Queued /\ Items' = Items /\ Stored' = Stored
  BY <1>1, <1>2, <1>3 DEF Answered, Queued, Items, Stored
<1>5. \A r, s \in resultChan' : r.index = s.index => r = s
  <2>1. \A r \in resultChan : r.index # i
    BY <1>1 DEF Answered
  <2>2. QED
    BY <1>2, <1>3, <2>1 DEF Places
<1>6. Missing' = Missing
  BY <1>1, <1>2, <1>4 DEF Missing
<1>7. Places'
  <2>1. /\ \A j \in workChan' : j \in Queued' /\ j \notin busy' \cup Answered' \cup Stored'
        /\ \A j \in busy' : j \in Queued' /\ j \notin Answered' \cup Stored'
        /\ \A j \in Answered' : j \in Queued' /\ j \notin Stored'
    BY <1>1, <1>2, <1>4 DEF Places
  <2>2. \A r \in resultChan' : r.cipher \in {Empty, r.index}
    BY <1>2, <1>3 DEF Places
  <2>3. QED
    BY <1>2, <1>4, <1>5, <1>6, <2>1, <2>2 DEF Places
<1>8. TypeOK'
  <2>1. resultChan' \in SUBSET [index : Items, cipher : 0 .. n]
    BY <1>2, <1>3 DEF TypeOK
  <2>2. Cardinality(resultChan') <= n
    <3>1. Cardinality(resultChan') = Cardinality({j \in Items : \E r \in resultChan' : r.index = j})
      BY <1>5, <2>1, ResultsByItem
    <3>2. QED
      BY <3>1, ItemSets
  <2>3. QED
    BY <1>2, <1>4, <2>1, <2>2 DEF TypeOK
<1>9. Phases'
  BY <1>2, <1>4 DEF Phases, PoolExited
<1>10. Outcome'
  BY <1>2, <1>4 DEF Outcome
<1>11. QED
  BY <1>7, <1>8, <1>9, <1>10

LEMMA StepIInv ==
    ASSUME IInv, [Next]_vars
    PROVE  IInv'
<1> USE DEF IInv
<1>1. n \in Nat /\ nextItem \in Nat
  BY ItemSets DEF TypeOK
<1>2. CASE Check
  <2>1. /\ UNCHANGED <<n, nextItem, workChan, workClosed, busy, resultChan, resultClosed, tempResults, errors, reply>>
        /\ handlerPc = "check"
        /\ handlerPc' = IF n \in 1 .. MaxItems THEN "send" ELSE "refused"
    BY <1>2 DEF Check, queueVars, answerVars
  <2>2. /\ Items' = Items /\ Answered' = Answered /\ Queued' = Queued
        /\ Stored' = Stored /\ Missing' = Missing
    BY <2>1 DEF Items, Answered, Queued, Stored, Missing
  <2>3. TypeOK' /\ Places'
    BY <2>1, <2>2 DEF TypeOK, Places
  <2>4. Phases' /\ Outcome'
    BY <2>1, <2>2 DEF Phases, Outcome, PoolExited
  <2>5. QED
    BY <2>3, <2>4
<1>3. CASE SendWork
  <2>1. /\ UNCHANGED <<n, workClosed, handlerPc, busy, resultChan, resultClosed, tempResults, errors, reply>>
        /\ handlerPc = "send"
        /\ nextItem \in Items
        /\ workChan' = workChan \cup {nextItem}
        /\ nextItem' = nextItem + 1
    BY <1>3 DEF SendWork, answerVars
  <2>2. nextItem \notin Queued /\ Queued' = Queued \cup {nextItem}
    BY <1>1, <2>1 DEF Queued, Items
  <2>3. /\ Items' = Items /\ Answered' = Answered /\ Stored' = Stored
        /\ Missing' = Missing
    BY <2>1, <2>2 DEF Items, Answered, Stored, Missing, Places
  <2>4. TypeOK'
    BY <1>1, <2>1, <2>3 DEF TypeOK, Items
  <2>5. nextItem \notin busy \cup Answered \cup Stored
    <3>1. nextItem \notin busy \cup Answered
      BY <2>2 DEF Places
    <3>2. nextItem # Empty
      BY <2>1 DEF Items, Empty
    <3>3. nextItem \notin Stored
      BY <2>2, <3>2 DEF Places, Stored
    <3>4. QED
      BY <3>1, <3>3
  <2>6. /\ \A i \in workChan' : i \in Queued' /\ i \notin busy' \cup Answered' \cup Stored'
        /\ \A i \in busy' : i \in Queued' /\ i \notin Answered' \cup Stored'
        /\ \A i \in Answered' : i \in Queued' /\ i \notin Stored'
    BY <2>1, <2>2, <2>3, <2>5 DEF Places
  <2>7. Places'
    BY <2>1, <2>2, <2>3, <2>6 DEF Places
  <2>8. Phases' /\ Outcome'
    BY <2>1, <2>3 DEF Phases, Outcome, PoolExited
  <2>9. QED
    BY <2>4, <2>7, <2>8
<1>4. CASE CloseWork
  <2>1. /\ UNCHANGED <<n, nextItem, workChan, busy, resultChan, resultClosed, tempResults, errors, reply>>
        /\ handlerPc = "send" /\ nextItem \notin Items
        /\ workClosed' = TRUE /\ handlerPc' = "collect"
    BY <1>4 DEF CloseWork, answerVars
  <2>2. /\ Items' = Items /\ Answered' = Answered /\ Queued' = Queued
        /\ Stored' = Stored /\ Missing' = Missing
    BY <2>1 DEF Items, Answered, Queued, Stored, Missing
  <2>3. TypeOK' /\ Places'
    BY <2>1, <2>2 DEF TypeOK, Places
  <2>4. nextItem = n + 1
    BY <1>1, <2>1 DEF TypeOK, Items
  <2>5. Phases' /\ Outcome'
    BY <2>1, <2>2, <2>4 DEF Phases, Outcome, PoolExited
  <2>6. QED
    BY <2>3, <2>5
<1>5. ASSUME NEW res \in resultChan, Collect(res)
      PROVE  IInv'
  BY <1>5, Collecting
<1>6. CASE Collected \/ CloseResults
  <2>1. /\ UNCHANGED <<n, nextItem, workChan, workClosed, busy, resultChan, tempResults, errors, reply>>
        /\ \/ /\ handlerPc = "collect" /\ handlerPc' = "convert"
              /\ resultClosed /\ resultClosed' = resultClosed /\ resultChan = {}
           \/ handlerPc' = handlerPc /\ PoolExited /\ resultClosed' = TRUE
    BY <1>6 DEF Collected, CloseResults, queueVars, answerVars
  <2>2. /\ Items' = Items /\ Answered' = Answered /\ Queued' = Queued
        /\ Stored' = Stored /\ Missing' = Missing /\ PoolExited' = PoolExited
    BY <2>1 DEF Items, Answered, Queued, Stored, Missing, PoolExited
  <2>3. TypeOK' /\ Places'
    BY <2>1, <2>2 DEF TypeOK, Places
  <2>4. Phases' /\ Outcome'
    BY <2>1, <2>2 DEF Phases, Outcome
  <2>5. QED
    BY <2>3, <2>4
<1>7. CASE Reply
  <2>1. /\ UNCHANGED <<n, nextItem, workChan, workClosed, busy, resultChan, resultClosed, tempResults, errors>>
        /\ handlerPc = "convert" /\ handlerPc' = "replied"
        /\ reply' = FinalResults
    BY <1>7 DEF Reply, queueVars
  <2>2. /\ Items' = Items /\ Answered' = Answered /\ Queued' = Queued
        /\ Stored' = Stored /\ Missing' = Missing
    BY <2>1 DEF Items, Answered, Queued, Stored, Missing
  <2>3. AnswerAtItsOwnPosition
    BY DEF Places, AnswerAtItsOwnPosition
  <2>4. /\ Promise!Lists(reply', Stored) /\ reply' \in Seq(Items)
        /\ Len(reply') = Cardinality(Stored)
    BY <2>1, <2>3, FilterLists
  <2>5. TypeOK' /\ Places'
    BY <2>1, <2>2, <2>4 DEF TypeOK, Places
  <2>6. Phases'
    BY <2>1 DEF Phases, PoolExited
  <2>7. Outcome'
    BY <2>1, <2>2, <2>4 DEF Outcome, Promise!Lists
  <2>8. QED
    BY <2>5, <2>6, <2>7
<1>8. ASSUME NEW i \in workChan, Take(i)
      PROVE  IInv'
  <2>1. /\ UNCHANGED <<n, nextItem, workClosed, handlerPc, resultChan, resultClosed, tempResults, errors, reply>>
        /\ workChan' = workChan \ {i} /\ busy' = busy \cup {i}
    BY <1>8 DEF Take, queueVars, answerVars
  <2>2. /\ Items' = Items /\ Answered' = Answered /\ Queued' = Queued
        /\ Stored' = Stored /\ Missing' = Missing
    BY <2>1 DEF Items, Answered, Queued, Stored, Missing
  <2>3. TypeOK'
    BY <2>1, <2>2 DEF TypeOK
  <2>4. Places'
    BY <2>1, <2>2 DEF Places
  <2>5. Phases' /\ Outcome'
    BY <2>1, <2>2 DEF Phases, Outcome, PoolExited
  <2>6. QED
    BY <2>3, <2>4, <2>5
<1>9. ASSUME NEW i \in busy, Call(i, i) \/ Call(i, Empty)
      PROVE  IInv'
  BY <1>9, Calling
<1>10. CASE UNCHANGED vars
  <2>1. UNCHANGED <<n, handlerPc, nextItem, workChan, workClosed, busy, resultChan, resultClosed, tempResults, errors, reply>>
    BY <1>10 DEF vars, queueVars, answerVars
  <2>2. /\ Items' = Items /\ Answered' = Answered /\ Queued' = Queued
        /\ Stored' = Stored /\ Missing' = Missing
    BY <2>1 DEF Items, Answered, Queued, Stored, Missing
  <2>3. TypeOK' /\ Places'
    BY <2>1, <2>2 DEF TypeOK, Places
  <2>4. Phases' /\ Outcome'
    BY <2>1, <2>2 DEF Phases, Outcome, PoolExited
  <2>5. QED
    BY <2>3, <2>4
<1>11. QED
  BY <1>2, <1>3, <1>4, <1>5, <1>6, <1>7, <1>8, <1>9, <1>10 DEF Next, Handler, Pool

-----------------------------------------------------------------------------
(* The inductive invariant holds in every state of the handler, its pool   *)
(* and its client.                                                         *)
THEOREM Invariance == Spec => []IInv
<1>1. Init => IInv
  BY InitIInv
<1>2. IInv /\ [Next]_vars => IInv'
  BY StepIInv
<1>3. QED
  BY <1>1, <1>2, PTL DEF Spec

(* However long the request, the types hold and neither channel ever holds *)
(* more than its capacity, so that no send blocks.                         *)
THEOREM BatchTypeCorrect == Spec => []TypeOK
<1>1. IInv => TypeOK
  BY DEF IInv
<1>2. QED
  BY <1>1, Invariance, PTL

(* However the goroutines interleave, an answer is stored at the position  *)
(* of the item it answers.                                                 *)
THEOREM OrderMaintained == Spec => []AnswerAtItsOwnPosition
<1>1. IInv => AnswerAtItsOwnPosition
  BY DEF IInv, Places, AnswerAtItsOwnPosition
<1>2. QED
  BY <1>1, Invariance, PTL

(* When the handler replies, every item is stored or missing.              *)
LEMMA AllSettled ==
    ASSUME IInv, handlerPc \in {"convert", "replied"}
    PROVE  /\ Cardinality(Stored) + errors = n
           /\ resultChan = {}
<1>1. /\ workChan = {} /\ busy = {} /\ Answered = {} /\ resultChan = {}
      /\ Queued = Items
  BY ItemSets DEF IInv, Phases, PoolExited, Answered, Queued, Items
<1>2. Stored \in SUBSET Items /\ Missing = Items \ Stored
  BY <1>1 DEF Stored, Missing
<1>3. IsFiniteSet(Items) /\ Cardinality(Items) = n /\ n \in Nat
  BY ItemSets, FS_Interval DEF Items, IInv
<1>4. Cardinality(Missing) = Cardinality(Items) - Cardinality(Items \cap Stored)
  BY <1>2, <1>3, FS_Difference
<1>5. Items \cap Stored = Stored /\ Cardinality(Stored) \in Nat
  BY <1>2, ItemSets DEF IInv
<1>6. errors = Cardinality(Missing) /\ errors \in Nat
  BY ItemSets DEF IInv, Places, TypeOK
<1>7. QED
  BY <1>1, <1>3, <1>4, <1>5, <1>6

(* A reply accounts for every item of the request: each one is a result or *)
(* an error, whatever failed and whenever the deadline passed.             *)
THEOREM NoItemUnanswered == Spec => []EveryItemAnswered
<1>1. IInv => EveryItemAnswered
  BY AllSettled DEF IInv, Outcome, EveryItemAnswered
<1>2. QED
  BY <1>1, Invariance, PTL

-----------------------------------------------------------------------------
(* The refinement.  The ciphertexts there are, stored or about to be, are  *)
(* those of Encrypted; Failing are the items whose error is about to be    *)
(* recorded.                                                               *)
Encrypted == Stored \cup {i \in Items : \E res \in resultChan : res.index = i /\ res.cipher = i}
Failures == {res \in resultChan : res.cipher = Empty}
Failing == {i \in Items : \E res \in Failures : res.index = i}

LEMMA SameCardinality == \A S : Promise!Cardinality(S) = Cardinality(S)
  BY DEF Promise!Cardinality, Cardinality, Promise!IsFiniteSet, IsFiniteSet

LEMMA Ciphertexts ==
    ASSUME TypeOK, Places
    PROVE  okBar = Encrypted
<1>1. \A i \in Items : i # Empty
  BY ItemSets DEF Items, Empty
<1>2. \A i \in Items : tempResults[i] \in {Empty, i}
  BY DEF Places
<1>3. \A res \in resultChan : res.cipher \in {Empty, res.index} /\ res.index \in Items
  BY DEF Places, TypeOK
<1>4. ASSUME NEW i
      PROVE  i \in okBar <=> i \in Encrypted
  BY <1>1, <1>2, <1>3 DEF okBar, Encrypted, Stored
<1>5. QED
  BY <1>4

LEMMA FailureSets ==
    ASSUME TypeOK, Places
    PROVE  /\ IsFiniteSet(Failures) /\ Cardinality(Failures) \in Nat
           /\ Cardinality(Failures) = Cardinality(Failing)
<1>1. /\ Failures \in SUBSET [index : Items, cipher : 0 .. n]
      /\ \A r, s \in Failures : r.index = s.index => r = s
  BY DEF Failures, TypeOK, Places
<1>2. IsFiniteSet(Failures) /\ Cardinality(Failures) = Cardinality(Failing)
  BY <1>1, ResultsByItem DEF Failing
<1>3. QED
  BY <1>2, FS_CardinalityType

LEMMA DisjointUnion ==
    ASSUME NEW S, NEW T, IsFiniteSet(S), IsFiniteSet(T), S \cap T = {}
    PROVE  /\ IsFiniteSet(S \cup T)
           /\ Cardinality(S \cup T) = Cardinality(S) + Cardinality(T)
<1>1. Cardinality(S) \in Nat /\ Cardinality(T) \in Nat /\ Cardinality({}) = 0
  BY FS_CardinalityType, FS_EmptySet
<1>2. /\ IsFiniteSet(S \cup T)
      /\ Cardinality(S \cup T) = Cardinality(S) + Cardinality(T) - Cardinality(S \cap T)
  BY FS_Union
<1>3. Cardinality(S \cap T) = 0
  BY <1>1
<1>4. QED
  BY <1>1, <1>2, <1>3

(* An item that a goroutine is at has not been settled.                    *)
LEMMA NotAllSettled ==
    ASSUME IInv, NEW i \in busy
    PROVE  Cardinality(okBar) + failedBar < n
<1> USE DEF IInv
<1>1. i \in Items /\ Encrypted \in SUBSET (Items \ {i})
  BY DEF Encrypted, Stored, Answered, Places, TypeOK
<1>2. Failing \in SUBSET (Items \ {i})
  BY DEF Failing, Failures, Answered, Places
<1>3. Missing \in SUBSET (Items \ {i})
  BY ItemSets DEF Missing, Queued, Items, TypeOK
<1>4. IsFiniteSet(Encrypted) /\ IsFiniteSet(Failing) /\ IsFiniteSet(Missing)
  BY <1>1, <1>2, <1>3, ItemSets
<1>5. /\ Encrypted \cap Missing = {}
      /\ Failing \cap Missing = {}
  BY DEF Encrypted, Failing, Failures, Missing, Answered
<1>6. Encrypted \cap Failing = {}
  <2> SUFFICES ASSUME NEW j \in Encrypted, j \in Failing
               PROVE  FALSE
    OBVIOUS
  <2>1. PICK r \in resultChan : r.index = j /\ r.cipher = Empty
    BY DEF Failing, Failures
  <2>2. j \in Items /\ j \in Answered /\ j # Empty
    BY <2>1, ItemSets DEF Failing, Answered, Items, Empty
  <2>3. j \notin Stored
    BY <2>2 DEF Places
  <2>4. PICK s \in resultChan : s.index = j /\ s.cipher = j
    BY <2>3 DEF Encrypted
  <2>5. QED
    BY <2>1, <2>2, <2>4 DEF Places
<1>7. Cardinality(Encrypted \cup Failing) = Cardinality(Encrypted) + Cardinality(Failing)
  BY <1>4, <1>6, DisjointUnion
<1>8. IsFiniteSet(Encrypted \cup Failing) /\ (Encrypted \cup Failing) \cap Missing = {}
  BY <1>4, <1>5, <1>6, DisjointUnion
<1>9. Cardinality((Encrypted \cup Failing) \cup Missing)
          = Cardinality(Encrypted) + Cardinality(Failing) + Cardinality(Missing)
  BY <1>4, <1>7, <1>8, DisjointUnion
<1>10. IsFiniteSet(Items) /\ Cardinality(Items) = n /\ n \in Nat
  BY ItemSets, FS_Interval DEF Items
<1>11. IsFiniteSet(Items \ {i}) /\ Cardinality(Items \ {i}) = n - 1
  BY <1>1, <1>10, FS_RemoveElement
<1>12. (Encrypted \cup Failing) \cup Missing \in SUBSET (Items \ {i})
  BY <1>1, <1>2, <1>3
<1>13. Cardinality((Encrypted \cup Failing) \cup Missing) <= n - 1
  BY <1>11, <1>12, FS_Subset
<1>14. /\ Cardinality(Encrypted) \in Nat /\ Cardinality(Failing) \in Nat
       /\ Cardinality(Missing) \in Nat
  BY <1>4, FS_CardinalityType
<1>15. okBar = Encrypted /\ failedBar = Cardinality(Missing) + Cardinality(Failing)
  BY Ciphertexts, FailureSets DEF failedBar, Failures, Places
<1>16. QED
  BY <1>9, <1>10, <1>13, <1>14, <1>15

LEMMA AnswerInit == Init => Promise!Init
<1> SUFFICES ASSUME Init PROVE Promise!Init
  OBVIOUS
<1>1. IInv
  BY InitIInv
<1>2. okBar = {}
  <2>1. Encrypted = {}
    BY DEF Init, Encrypted, Stored, Items, Empty
  <2>2. QED
    BY <1>1, <2>1, Ciphertexts DEF IInv
<1>3. failedBar = 0
  <2>1. Failures = {} /\ errors = 0
    BY DEF Failures, Init
  <2>2. QED
    BY <2>1, FS_EmptySet DEF failedBar, Failures
<1>4. statusBar = "received"
  BY DEF Init, statusBar, Ended
<1>5. QED
  BY <1>2, <1>3, <1>4 DEF Init, Promise!Init

\* The handler is at work: the request has been accepted and not answered.
LEMMA AtWork ==
    ASSUME handlerPc \in {"send", "collect", "convert"}
    PROVE  statusBar = "working"
  BY DEF statusBar, Ended

LEMMA PoolAtWork ==
    ASSUME IInv, workChan # {} \/ busy # {}
    PROVE  handlerPc \in {"send", "collect"}
<1>1. Queued # {}
  BY DEF IInv, Places
<1>2. handlerPc \notin {"check", "refused"}
  BY <1>1 DEF IInv, Phases, Queued
<1>3. handlerPc \notin {"convert", "replied"}
  BY DEF IInv, Phases, PoolExited
<1>4. QED
  BY <1>2, <1>3 DEF IInv, TypeOK

LEMMA Unsettled ==
    ASSUME UNCHANGED <<n, resultChan, tempResults, errors>>
    PROVE  UNCHANGED <<okBar, failedBar>>
<1>1. okBar' = okBar
  BY DEF okBar, Items
<1>2. failedBar' = failedBar
  BY DEF failedBar
<1>3. QED
  BY <1>1, <1>2

LEMMA Measures ==
    ASSUME IInv, IInv'
    PROVE  /\ okBar = Encrypted /\ okBar' = Encrypted'
           /\ failedBar = errors + Cardinality(Failures)
           /\ failedBar' = errors' + Cardinality(Failures')
<1>1. okBar = Encrypted
  BY Ciphertexts DEF IInv
<1>2. (TypeOK /\ Places => okBar = Encrypted)'
  BY Ciphertexts, PTL
<1>3. okBar' = Encrypted'
  BY <1>2 DEF IInv
<1>4. QED
  BY <1>1, <1>3 DEF failedBar, Failures

(* A call that returns settles its item; receiving the result later does   *)
(* not settle it again.                                                    *)
LEMMA CallSettles ==
    ASSUME IInv, IInv', NEW i \in busy, Call(i, i) \/ Call(i, Empty)
    PROVE  Promise!Settle
<1>1. /\ UNCHANGED <<n, handlerPc, tempResults, errors, reply>>
      /\ i \in Items /\ i # Empty /\ i \notin Answered /\ i \notin Stored
  BY ItemSets DEF IInv, TypeOK, Places, Call, queueVars, answerVars, Items, Empty
<1>2. /\ okBar = Encrypted /\ okBar' = Encrypted'
      /\ failedBar = errors + Cardinality(Failures)
      /\ failedBar' = errors' + Cardinality(Failures')
  BY Measures
<1>3. statusBar = "working" /\ statusBar' = "working"
  BY <1>1, PoolAtWork, AtWork DEF statusBar, Ended
<1>4. Promise!Cardinality(okBar) + failedBar < n
  BY NotAllSettled, SameCardinality
<1>5. CASE Call(i, i)
  <2>1. resultChan' = resultChan \cup {[index |-> i, cipher |-> i]}
    BY <1>5 DEF Call
  <2>2. Stored' = Stored /\ Items' = Items
    BY <1>1 DEF Stored, Items
  <2>3. /\ Encrypted' = Encrypted \cup {i}
        /\ Failures' = Failures
    <3>1. [index |-> i, cipher |-> i].index = i /\ [index |-> i, cipher |-> i].cipher = i
      OBVIOUS
    <3>2. Encrypted' = Encrypted \cup {i}
      BY <1>1, <2>1, <2>2, <3>1 DEF Encrypted
    <3>3. Failures' = Failures
      BY <1>1, <2>1, <3>1 DEF Failures
    <3>4. QED
      BY <3>2, <3>3
  <2>4. i \notin Encrypted
    BY <1>1 DEF Encrypted, Answered
  <2>5. failedBar' = failedBar /\ okBar' = okBar \cup {i} /\ i \in 1 .. n \ okBar
    BY <1>1, <1>2, <2>3, <2>4 DEF Items
  <2>6. QED
    BY <1>1, <1>3, <1>4, <2>5 DEF Promise!Settle, Promise!Encrypted
<1>6. CASE Call(i, Empty)
  <2> DEFINE res == [index |-> i, cipher |-> Empty]
  <2>1. resultChan' = resultChan \cup {res}
    BY <1>6 DEF Call
  <2>2. Stored' = Stored /\ Items' = Items
    BY <1>1 DEF Stored, Items
  <2>3. Encrypted' = Encrypted
    BY <1>1, <2>1, <2>2 DEF Encrypted
  <2>4. Failures' = Failures \cup {res}
    BY <2>1 DEF Failures
  <2>5. res \notin Failures
    BY <1>1 DEF Failures, Answered
  <2>6. Cardinality(Failures') = Cardinality(Failures) + 1 /\ Cardinality(Failures) \in Nat
    BY <2>4, <2>5, FailureSets, FS_AddElement DEF IInv
  <2>7. failedBar' = failedBar + 1 /\ okBar' = okBar
    BY <1>1, <1>2, <2>3, <2>6 DEF IInv, TypeOK
  <2>8. QED
    BY <1>1, <1>3, <1>4, <2>7 DEF Promise!Settle, Promise!NotEncrypted
<1>7. QED
  BY <1>5, <1>6

LEMMA CollectSettlesNothing ==
    ASSUME IInv, IInv', NEW res \in resultChan, Collect(res)
    PROVE  UNCHANGED <<okBar, failedBar>>
<1> DEFINE i == res.index
<1>1. /\ i \in Items /\ i # Empty /\ i \notin Stored
      /\ res.cipher \in {Empty, i} /\ i \in Answered
      /\ \A r \in resultChan : r.index = i => r = res
  <2>1. i \in Items /\ i \in Answered
    BY DEF IInv, TypeOK, Answered
  <2>2. i # Empty
    BY <2>1, ItemSets DEF IInv, Items, Empty
  <2>3. QED
    BY <2>1, <2>2 DEF IInv, Places
<1>2. /\ resultChan' = resultChan \ {res} /\ Items' = Items
      /\ res.cipher = Empty => tempResults' = tempResults /\ errors' = errors + 1
      /\ res.cipher # Empty => /\ errors' = errors
                              /\ \A j \in Items : tempResults'[j] = IF j = i THEN i ELSE tempResults[j]
  BY <1>1 DEF Collect, Store, queueVars, Items, IInv, TypeOK
<1>3. /\ okBar = Encrypted /\ okBar' = Encrypted'
      /\ failedBar = errors + Cardinality(Failures)
      /\ failedBar' = errors' + Cardinality(Failures')
  BY Measures
<1>4. IsFiniteSet(Failures) /\ Cardinality(Failures) \in Nat /\ errors \in Nat
  BY FailureSets DEF IInv, TypeOK
<1>5. CASE res.cipher = Empty
  <2>1. Encrypted' = Encrypted
    BY <1>1, <1>2, <1>5 DEF Encrypted, Stored
  <2>2. Failures' = Failures \ {res} /\ res \in Failures
    BY <1>2, <1>5 DEF Failures
  <2>3. Cardinality(Failures') = Cardinality(Failures) - 1
    BY <1>4, <2>2, FS_RemoveElement
  <2>4. QED
    BY <1>2, <1>3, <1>4, <1>5, <2>1, <2>3
<1>6. CASE res.cipher # Empty
  <2>1. Stored' = Stored \cup {i} /\ res.cipher = i
    BY <1>1, <1>2, <1>6 DEF Stored
  <2>2. Encrypted' = Encrypted
    BY <1>1, <1>2, <2>1 DEF Encrypted
  <2>3. Failures' = Failures
    BY <1>2, <1>6 DEF Failures
  <2>4. QED
    BY <1>2, <1>3, <1>6, <2>2, <2>3
<1>7. QED
  BY <1>5, <1>6

(* The reply is made when all items are settled, with the ciphertexts in   *)
(* the order of the items.                                                 *)
LEMMA ReplyAnswers ==
    ASSUME IInv, IInv', Reply
    PROVE  Promise!Answer
<1>1. /\ UNCHANGED <<n, resultChan, tempResults, errors>>
      /\ handlerPc = "convert" /\ handlerPc' = "replied"
  BY DEF Reply, queueVars
<1>2. resultChan = {} /\ Cardinality(Stored) + errors = n
  BY <1>1, AllSettled
<1>3. okBar = Stored
  BY <1>2, Ciphertexts DEF IInv, Encrypted
<1>4. failedBar = errors
  <2>1. Failures = {} /\ errors \in Nat
    BY <1>2 DEF Failures, IInv, TypeOK
  <2>2. QED
    BY <2>1, FS_EmptySet DEF failedBar, Failures
<1>5. Promise!Lists(reply', Stored)
  <2>1. Promise!Lists(reply, Stored)'
    BY <1>1 DEF IInv, Outcome
  <2>2. Stored' = Stored
    BY <1>1 DEF Stored, Items
  <2>3. QED
    BY <2>1, <2>2 DEF Promise!Lists
<1>6. statusBar = "working" /\ statusBar' = "replied"
  BY <1>1 DEF statusBar, Ended
<1>7. UNCHANGED <<okBar, failedBar>>
  BY <1>1, Unsettled
<1>8. QED
  BY <1>1, <1>2, <1>3, <1>4, <1>5, <1>6, <1>7, SameCardinality DEF Promise!Answer

LEMMA AnswerStep ==
    ASSUME IInv, IInv', [Next]_vars
    PROVE  [Promise!Next]_Promise!vars
<1> DEFINE Goal == [Promise!Next]_Promise!vars
<1>1. ASSUME UNCHANGED <<n, okBar, failedBar, statusBar, reply>>
      PROVE  Goal
  BY <1>1 DEF Promise!vars
<1>2. CASE Check
  <2>1. UNCHANGED <<n, resultChan, tempResults, errors, reply>>
    BY <1>2 DEF Check, queueVars, answerVars
  <2>2. statusBar = "received" /\ statusBar' = IF n \in 1 .. MaxItems THEN "working" ELSE "refused"
    BY <1>2 DEF Check, statusBar, Ended
  <2>3. QED
    BY <2>1, <2>2, Unsettled DEF Promise!Next, Promise!Check
<1>3. CASE SendWork \/ CloseWork \/ Collected
  <2>1. UNCHANGED <<n, resultChan, tempResults, errors, reply>>
    BY <1>3 DEF SendWork, CloseWork, Collected, queueVars, answerVars
  <2>2. statusBar = "working" /\ statusBar' = "working"
    BY <1>3 DEF SendWork, CloseWork, Collected, statusBar, Ended
  <2>3. QED
    BY <1>1, <2>1, <2>2, Unsettled
<1>4. ASSUME NEW res \in resultChan, Collect(res)
      PROVE  Goal
  <2>1. UNCHANGED <<n, handlerPc, reply>>
    BY <1>4 DEF Collect, queueVars
  <2>2. UNCHANGED statusBar
    BY <2>1 DEF statusBar, Ended
  <2>3. QED
    BY <1>1, <1>4, <2>1, <2>2, CollectSettlesNothing
<1>5. CASE Reply
  BY <1>5, ReplyAnswers DEF Promise!Next
<1>6. ASSUME NEW i \in busy, Call(i, i) \/ Call(i, Empty)
      PROVE  Goal
  BY <1>6, CallSettles DEF Promise!Next
<1>7. CASE (\E i \in workChan : Take(i)) \/ CloseResults \/ UNCHANGED vars
  <2>1. UNCHANGED <<n, handlerPc, resultChan, tempResults, errors, reply>>
    BY <1>7 DEF Take, CloseResults, vars, queueVars, answerVars
  <2>2. UNCHANGED statusBar
    BY <2>1 DEF statusBar, Ended
  <2>3. QED
    BY <1>1, <2>1, <2>2, Unsettled
<1>8. QED
  BY <1>2, <1>3, <1>4, <1>5, <1>6, <1>7 DEF Next, Handler, Pool

(* Every step of the handler and of the pool is a step of the item-by-item *)
(* promise or none: no item is settled twice, and the reply is made when   *)
(* all are, with the ciphertexts in the order of the items.                *)
THEOREM BatchImplementsAnswer == Spec => AnswerRefined
<1>1. Init => Promise!Init
  BY AnswerInit
<1>2. IInv /\ IInv' /\ [Next]_vars => [Promise!Next]_Promise!vars
  BY AnswerStep
<1>3. QED
  BY <1>1, <1>2, Invariance, PTL DEF Spec, AnswerRefined, Promise!Spec

=============================================================================
