--------------------------- MODULE Gateway_proofs ---------------------------
(***************************************************************************)
(* Proofs about Gateway, for every size of the nonce and every nonce and   *)
(* ciphertext of bytes.                                                    *)
(***************************************************************************)
EXTENDS Gateway, BatchEncrypt_proofs

Byte == 0 .. 255

-----------------------------------------------------------------------------
(* base64: three bytes and the four characters they are coded in, in terms *)
(* of one group g of them.                                                 *)

ByteOr0(bytes, i) == IF i \in DOMAIN bytes THEN bytes[i] ELSE 0

LEMMA BytesOr0 ==
    ASSUME NEW bytes \in Seq(Byte), NEW i \in Nat
    PROVE  ByteOr0(bytes, i) \in Byte
<1>1. i \in DOMAIN bytes => bytes[i] \in Byte
  OBVIOUS
<1>2. 0 \in Byte
  BY DEF Byte
<1>3. QED
  BY <1>1, <1>2 DEF ByteOr0

LEMMA EncodedLength ==
    ASSUME NEW bytes \in Seq(Byte)
    PROVE  /\ Len(bytes) \in Nat
           /\ DOMAIN Encode(bytes) = 1 .. 4 * ((Len(bytes) + 2) \div 3)
           /\ Len(Encode(bytes)) = 4 * ((Len(bytes) + 2) \div 3)
           /\ Len(Encode(bytes)) \in Nat
<1>1. Len(bytes) \in Nat
  OBVIOUS
<1>2. 4 * ((Len(bytes) + 2) \div 3) \in Nat
  BY <1>1
<1>3. DOMAIN Encode(bytes) = 1 .. 4 * ((Len(bytes) + 2) \div 3)
  BY DEF Encode
<1>4. Len(Encode(bytes)) = 4 * ((Len(bytes) + 2) \div 3)
  BY <1>2 DEF Encode
<1>5. QED
  BY <1>1, <1>2, <1>3, <1>4

LEMMA EncodedGroup ==
    ASSUME NEW bytes \in Seq(Byte), NEW g \in Nat, 3 * g < Len(bytes)
    PROVE  LET text == Encode(bytes)
               x == ByteOr0(bytes, 3 * g + 1)
               y == ByteOr0(bytes, 3 * g + 2)
               z == ByteOr0(bytes, 3 * g + 3)
           IN  /\ 4 * g + 4 <= Len(text)
               /\ text[4 * g + 1] = x \div 4
               /\ text[4 * g + 2] = (x % 4) * 16 + y \div 16
               /\ text[4 * g + 3] = IF 3 * g + 2 > Len(bytes) THEN Pad
                                    ELSE (y % 16) * 4 + z \div 64
               /\ text[4 * g + 4] = IF 3 * g + 3 > Len(bytes) THEN Pad ELSE z % 64
<1> DEFINE text == Encode(bytes)
           len == Len(bytes)
<1>1. len \in Nat /\ Len(text) = 4 * ((len + 2) \div 3) /\ DOMAIN text = 1 .. Len(text)
  BY EncodedLength
<1>2. 4 * g + 4 <= 4 * ((len + 2) \div 3)
  BY <1>1
<1> DEFINE x == ByteOr0(bytes, 3 * g + 1)
           y == ByteOr0(bytes, 3 * g + 2)
           z == ByteOr0(bytes, 3 * g + 3)
           Char(k) ==
               LET h == 3 * ((k - 1) \div 4)
               IN  IF k % 4 = 1 THEN ByteOr0(bytes, h + 1) \div 4
                   ELSE IF k % 4 = 2 THEN (ByteOr0(bytes, h + 1) % 4) * 16
                                          + ByteOr0(bytes, h + 2) \div 16
                   ELSE IF k % 4 = 3 THEN
                        IF h + 2 > Len(bytes) THEN Pad
                        ELSE (ByteOr0(bytes, h + 2) % 16) * 4
                             + ByteOr0(bytes, h + 3) \div 64
                   ELSE IF h + 3 > Len(bytes) THEN Pad
                        ELSE ByteOr0(bytes, h + 3) % 64
<1>3. text = [k \in 1 .. 4 * ((len + 2) \div 3) |-> Char(k)]
  BY DEF Encode, ByteOr0
<1>4. ASSUME NEW p \in 1 .. 4
      PROVE  text[4 * g + p] = Char(4 * g + p)
  <2>1. 4 * g + p \in 1 .. 4 * ((len + 2) \div 3)
    BY <1>1, <1>2
  <2> HIDE DEF Char, text
  <2> QED
    BY <1>3, <2>1
<1>5. text[4 * g + 1] = x \div 4
  <2>1. (4 * g + 1) % 4 = 1 /\ 3 * (((4 * g + 1) - 1) \div 4) = 3 * g
    OBVIOUS
  <2>2. Char(4 * g + 1) = x \div 4
    BY <2>1
  <2> QED
    BY <1>4, <2>2
<1>6. text[4 * g + 2] = (x % 4) * 16 + y \div 16
  <2>1. (4 * g + 2) % 4 = 2 /\ 3 * (((4 * g + 2) - 1) \div 4) = 3 * g
    OBVIOUS
  <2>2. Char(4 * g + 2) = (x % 4) * 16 + y \div 16
    BY <2>1
  <2> QED
    BY <1>4, <2>2
<1>7. text[4 * g + 3] = IF 3 * g + 2 > len THEN Pad ELSE (y % 16) * 4 + z \div 64
  <2>1. (4 * g + 3) % 4 = 3 /\ 3 * (((4 * g + 3) - 1) \div 4) = 3 * g
    OBVIOUS
  <2>2. Char(4 * g + 3) = IF 3 * g + 2 > len THEN Pad ELSE (y % 16) * 4 + z \div 64
    BY <2>1
  <2> QED
    BY <1>4, <2>2
<1>8. text[4 * g + 4] = IF 3 * g + 3 > len THEN Pad ELSE z % 64
  <2>1. (4 * g + 4) % 4 = 0 /\ 3 * (((4 * g + 4) - 1) \div 4) = 3 * g
    OBVIOUS
  <2>2. Char(4 * g + 4) = IF 3 * g + 3 > len THEN Pad ELSE z % 64
    BY <2>1
  <2> QED
    BY <1>4, <2>2
<1>9. QED
  BY <1>1, <1>2, <1>5, <1>6, <1>7, <1>8

(* How many groups n bytes are, and how full the last one is.              *)
LEMMA Groups ==
    ASSUME NEW len \in Nat
    PROVE  LET q == (len + 2) \div 3
           IN  /\ q \in Nat
               /\ \/ len % 3 = 0 /\ len = 3 * q
                  \/ len % 3 = 2 /\ len = 3 * q - 1
                  \/ len % 3 = 1 /\ len = 3 * q - 2
  OBVIOUS

(* Where the padding is: at the end of a last group that is not full.      *)
LEMMA Padding ==
    ASSUME NEW bytes \in Seq(Byte), NEW k \in DOMAIN Encode(bytes)
    PROVE  /\ Encode(bytes)[k] \in Nat
           /\ Encode(bytes)[k] = Pad <=>
                 \/ Len(bytes) % 3 = 1 /\ k >= Len(Encode(bytes)) - 1
                 \/ Len(bytes) % 3 = 2 /\ k = Len(Encode(bytes))
<1> DEFINE text == Encode(bytes)
           len == Len(bytes)
           g == (k - 1) \div 4
           x == ByteOr0(bytes, 3 * g + 1)
           y == ByteOr0(bytes, 3 * g + 2)
           z == ByteOr0(bytes, 3 * g + 3)
<1>1. len \in Nat /\ Len(text) = 4 * ((len + 2) \div 3) /\ DOMAIN text = 1 .. Len(text)
  BY EncodedLength
<1>2. /\ k \in Nat /\ g \in Nat /\ 3 * g < len
      /\ k \in {4 * g + 1, 4 * g + 2, 4 * g + 3, 4 * g + 4}
  <2>1. k \in 1 .. 4 * ((len + 2) \div 3)
    BY <1>1
  <2>2. k = 4 * g + ((k - 1) % 4) + 1 /\ (k - 1) % 4 \in 0 .. 3 /\ g \in Nat
    BY <2>1
  <2>3. 3 * g < len
    BY <1>1, <2>1
  <2> HIDE DEF g
  <2> QED
    BY <2>1, <2>2, <2>3
<1> HIDE DEF g
<1>3. x \in Byte /\ y \in Byte /\ z \in Byte
  <2>1. 3 * g + 1 \in Nat /\ 3 * g + 2 \in Nat /\ 3 * g + 3 \in Nat
    BY <1>2
  <2>2. QED
    BY <2>1, BytesOr0
<1>4. /\ text[4 * g + 1] = x \div 4
      /\ text[4 * g + 2] = (x % 4) * 16 + y \div 16
      /\ text[4 * g + 3] = IF 3 * g + 2 > len THEN Pad ELSE (y % 16) * 4 + z \div 64
      /\ text[4 * g + 4] = IF 3 * g + 3 > len THEN Pad ELSE z % 64
  BY <1>2, EncodedGroup
<1> HIDE DEF x, y, z, text, len
<1>5. /\ x \div 4 \in 0 .. 63 /\ (x % 4) * 16 + y \div 16 \in 0 .. 63
      /\ (y % 16) * 4 + z \div 64 \in 0 .. 63 /\ z % 64 \in 0 .. 63
  BY <1>3 DEF Byte
<1> DEFINE c1 == x \div 4
           c2 == (x % 4) * 16 + y \div 16
           c3 == (y % 16) * 4 + z \div 64
           c4 == z % 64
<1>6. /\ text[4 * g + 1] = c1 /\ text[4 * g + 2] = c2
      /\ text[4 * g + 3] = IF 3 * g + 2 > len THEN Pad ELSE c3
      /\ text[4 * g + 4] = IF 3 * g + 3 > len THEN Pad ELSE c4
  BY <1>4
<1>7. c1 \in 0 .. 63 /\ c2 \in 0 .. 63 /\ c3 \in 0 .. 63 /\ c4 \in 0 .. 63
  BY <1>5
<1> HIDE DEF c1, c2, c3, c4
<1>8. /\ c1 \in Nat /\ c2 \in Nat /\ c3 \in Nat /\ c4 \in Nat /\ Pad \in Nat
      /\ c1 # Pad /\ c2 # Pad /\ c3 # Pad /\ c4 # Pad
  BY <1>7 DEF Pad
<1>9. text[k] \in Nat
  <2>1. \A p \in {1, 2, 3, 4} : text[4 * g + p] \in Nat
    BY <1>6, <1>8
  <2>2. \E p \in {1, 2, 3, 4} : k = 4 * g + p
    BY <1>2
  <2>3. QED
    BY <2>1, <2>2, Zenon
<1>10. text[k] = Pad <=> \/ k = 4 * g + 3 /\ 3 * g + 2 > len
                         \/ k = 4 * g + 4 /\ 3 * g + 3 > len
  <2>1. /\ 4 * g + 1 \notin {4 * g + 3, 4 * g + 4} /\ 4 * g + 2 \notin {4 * g + 3, 4 * g + 4}
        /\ 4 * g + 3 # 4 * g + 4
    BY <1>2
  <2>2. text[4 * g + 3] = Pad <=> 3 * g + 2 > len
    BY <1>6, <1>8, Zenon
  <2>3. text[4 * g + 4] = Pad <=> 3 * g + 3 > len
    BY <1>6, <1>8, Zenon
  <2>4. text[4 * g + 1] # Pad /\ text[4 * g + 2] # Pad
    BY <1>6, <1>8, Zenon
  <2>5. QED
    BY <1>2, <2>1, <2>2, <2>3, <2>4, Zenon
<1>11. /\ (3 * g + 2 > len <=> len % 3 = 1 /\ Len(text) = 4 * g + 4)
      /\ (3 * g + 3 > len <=> len % 3 \in {1, 2} /\ Len(text) = 4 * g + 4)
  <2> DEFINE q == (len + 2) \div 3
  <2>1. /\ q \in Nat /\ Len(text) = 4 * q
        /\ \/ len % 3 = 0 /\ len = 3 * q
           \/ len % 3 = 2 /\ len = 3 * q - 1
           \/ len % 3 = 1 /\ len = 3 * q - 2
    BY <1>1, Groups
  <2> HIDE DEF q
  <2>2. Len(text) = 4 * g + 4 <=> q = g + 1
    BY <1>2, <2>1
  <2>3. 3 * g + 2 > len <=> len = 3 * q - 2 /\ q = g + 1
    BY <1>1, <1>2, <2>1
  <2>4. 3 * g + 3 > len <=> len # 3 * q /\ q = g + 1
    BY <1>1, <1>2, <2>1
  <2>5. (len % 3 = 1 <=> len = 3 * q - 2) /\ (len % 3 \in {1, 2} <=> len # 3 * q)
    BY <1>1, <2>1
  <2>6. QED
    BY <2>2, <2>3, <2>4, <2>5
<1>12. text[k] = Pad <=> \/ len % 3 = 1 /\ k >= Len(text) - 1
                         \/ len % 3 = 2 /\ k = Len(text)
  <2>1. k <= Len(text) /\ Len(text) % 4 = 0 /\ Len(text) \in Nat
    <3>1. (len + 2) \div 3 \in Nat
      BY <1>1
    <3>2. PICK m \in Nat : Len(text) = 4 * m
      BY <1>1, <3>1
    <3>3. QED
      BY <1>1, <3>2 DEF text
  <2>2. k >= Len(text) - 1 <=> k \in {4 * g + 3, 4 * g + 4} /\ Len(text) = 4 * g + 4
    BY <1>2, <2>1
  <2>3. k = Len(text) <=> k = 4 * g + 4 /\ Len(text) = 4 * g + 4
    BY <1>2, <2>1
  <2>4. QED
    BY <1>2, <1>10, <1>11, <2>2, <2>3
<1>13. QED
  BY <1>9, <1>12 DEF text, len

(* A text that is cut off between two groups is well formed, and it has    *)
(* lost at least one byte.                                                 *)
Left(bytes, k) ==
    IF k = Len(Encode(bytes)) THEN Len(bytes) ELSE 3 * (k \div 4)

LEMMA CutBetweenGroups ==
    ASSUME NEW bytes \in Seq(Byte), NEW k \in 0 .. Len(Encode(bytes)), k % 4 = 0
    PROVE  LET cut == SubSeq(Encode(bytes), 1, k)
           IN  /\ WellFormed(cut)
               /\ 3 * (Len(cut) \div 4) - Pads(cut) = Left(bytes, k)
               /\ Left(bytes, k) \in 0 .. Len(bytes)
               /\ k < Len(Encode(bytes)) => Left(bytes, k) < Len(bytes)
<1> DEFINE text == Encode(bytes)
           len == Len(bytes)
           q == (len + 2) \div 3
           cut == SubSeq(text, 1, k)
           pads == {i \in DOMAIN cut : cut[i] = Pad}
<1>1. len \in Nat /\ Len(text) = 4 * q /\ DOMAIN text = 1 .. Len(text)
  BY EncodedLength
<1>2. q \in Nat
  BY <1>1
<1>3. text \in Seq(Nat)
  <2>1. \A i \in 1 .. Len(text) : text[i] \in Nat
    BY <1>1, Padding
  <2>2. text \in [1 .. Len(text) -> Nat]
    BY <1>1, <2>1 DEF Encode
  <2>3. QED
    BY <1>1, <1>2, <2>2
<1>4. \A i \in 1 .. Len(text) :
          text[i] = Pad <=> \/ len % 3 = 1 /\ i >= Len(text) - 1
                            \/ len % 3 = 2 /\ i = Len(text)
  BY <1>1, Padding
<1> HIDE DEF text
<1>5. /\ k \in Nat /\ Len(cut) = k /\ DOMAIN cut = 1 .. k
      /\ \A i \in 1 .. k : i \in 1 .. Len(text) /\ cut[i] = text[i]
  <2>1. Len(text) \in Nat
    <3> HIDE DEF q
    <3> QED BY <1>1, <1>2
  <2>2. k \in 0 .. Len(text)
    BY DEF text
  <2> HIDE DEF len, q
  <2>3. QED
    BY <1>3, <2>1, <2>2
<1>6. pads = {i \in 1 .. k : \/ len % 3 = 1 /\ i >= Len(text) - 1
                             \/ len % 3 = 2 /\ i = Len(text)}
  <2>1. \A i \in 1 .. k :
            cut[i] = Pad <=> \/ len % 3 = 1 /\ i >= Len(text) - 1
                             \/ len % 3 = 2 /\ i = Len(text)
    BY <1>4, <1>5
  <2>2. pads = {i \in 1 .. k : cut[i] = Pad}
    BY <1>5
  <2> HIDE DEF cut, pads, len
  <2> QED
    BY <2>1, <2>2, Zenon
<1> HIDE DEF cut, pads
<1> DEFINE Goal == /\ WellFormed(cut)
                   /\ 3 * (Len(cut) \div 4) - Pads(cut) = Left(bytes, k)
                   /\ Left(bytes, k) \in 0 .. len
                   /\ k < Len(text) => Left(bytes, k) < len
<1>7. ASSUME k < Len(text) PROVE Goal
  <2>1. k <= Len(text) - 4 /\ k \div 4 <= q - 1
    BY <1>1, <1>2, <1>5, <1>7
  <2>2. pads = {}
    BY <1>1, <1>2, <1>5, <1>6, <2>1
  <2>3. Pads(cut) = 0
    BY <2>2, FS_EmptySet DEF Pads, pads
  <2>4. 3 * q <= len + 2
    BY <1>1
  <2>5. Left(bytes, k) = 3 * (k \div 4) /\ k \div 4 \in Nat
    BY <1>5, <1>7 DEF Left, text
  <2>6. Left(bytes, k) \in 0 .. len /\ Left(bytes, k) < len
    <3> DEFINE d == k \div 4
    <3> HIDE DEF d, q
    <3>1. d \in Nat /\ d <= q - 1 /\ Left(bytes, k) = 3 * d
      BY <2>1, <2>5 DEF d
    <3>2. QED
      BY <1>1, <1>2, <2>4, <3>1
  <2>7. WellFormed(cut)
    <3>1. \A i \in DOMAIN cut : cut[i] # Pad
      BY <2>2 DEF pads
    <3>2. QED
      BY <1>5, <2>3, <3>1 DEF WellFormed
  <2>8. QED
    BY <1>5, <2>3, <2>5, <2>6, <2>7
<1>8. ASSUME k = Len(text) PROVE Goal
  <2>1. Left(bytes, k) = len
    BY <1>8 DEF Left, text
  <2>2. k = 4 * q /\ k \div 4 = q
    BY <1>1, <1>2, <1>8
  <2>3. CASE len % 3 = 0
    <3>1. pads = {}
      BY <1>6, <2>3
    <3>2. Pads(cut) = 0
      BY <3>1, FS_EmptySet DEF Pads, pads
    <3>3. 3 * q = len
      BY <1>1, <2>3
    <3>4. WellFormed(cut)
      <4>1. \A i \in DOMAIN cut : cut[i] # Pad
        BY <3>1 DEF pads
      <4>2. QED
        BY <1>5, <3>2, <4>1 DEF WellFormed
    <3>5. 3 * (Len(cut) \div 4) - Pads(cut) = len
      BY <1>1, <1>2, <1>5, <2>2, <3>2, <3>3
    <3>6. QED
      BY <1>1, <1>2, <1>8, <2>1, <3>4, <3>5
  <2>4. CASE len % 3 = 2
    <3>1. 3 * q = len + 1 /\ k >= 1
      BY <1>1, <1>2, <2>2, <2>4
    <3>2. pads = {k}
      BY <1>1, <1>5, <1>6, <1>8, <2>4, <3>1
    <3>3. Pads(cut) = 1
      BY <3>2, FS_Singleton DEF Pads, pads
    <3>4. WellFormed(cut)
      <4>1. \A i \in DOMAIN cut : cut[i] = Pad => i = k
        BY <3>2 DEF pads
      <4>2. QED
        BY <1>5, <3>1, <3>3, <4>1 DEF WellFormed
    <3>5. QED
      BY <1>1, <1>2, <1>5, <1>8, <2>1, <2>2, <3>1, <3>3, <3>4
  <2>5. CASE len % 3 = 1
    <3>1. 3 * q = len + 2 /\ k >= 2
      BY <1>1, <1>2, <2>2, <2>5
    <3>2. pads = {k - 1, k}
      <4>1. \A i \in 1 .. k : i \in pads <=> i >= k - 1
        BY <1>1, <1>5, <1>6, <1>8, <2>5
      <4>2. pads \subseteq 1 .. k /\ k - 1 \in 1 .. k /\ k \in 1 .. k
        BY <1>5, <1>6, <3>1
      <4>3. \A i \in 1 .. k : i >= k - 1 <=> i \in {k - 1, k}
        BY <1>5
      <4>4. QED
        BY <4>1, <4>2, <4>3
    <3>3. Pads(cut) = 2
      <4>1. pads = {k - 1} \cup {k} /\ k \notin {k - 1}
        BY <1>5, <3>2
      <4>2. IsFiniteSet({k - 1}) /\ Cardinality({k - 1}) = 1
        BY FS_Singleton
      <4>3. Cardinality({k - 1} \cup {k}) = Cardinality({k - 1}) + 1
        BY <4>1, <4>2, FS_AddElement
      <4>4. Cardinality(pads) = 2
        BY <3>2, <4>1, <4>2, <4>3
      <4>5. QED
        BY <4>4 DEF Pads, pads
    <3>4. WellFormed(cut)
      <4>1. \A i \in DOMAIN cut : cut[i] = Pad => i > k - 2
        BY <1>5, <3>2 DEF pads
      <4>2. QED
        BY <1>5, <3>1, <3>3, <4>1 DEF WellFormed
    <3>5. 3 * (Len(cut) \div 4) - Pads(cut) = len
      BY <1>1, <1>2, <1>5, <2>2, <3>1, <3>3
    <3>6. QED
      BY <1>1, <1>2, <1>8, <2>1, <3>4, <3>5
  <2>6. QED
    BY <1>1, <2>3, <2>4, <2>5
<1>9. k < Len(text) \/ k = Len(text)
  BY <1>1, <1>2, <1>5 DEF text
<1>10. QED
  BY <1>7, <1>8, <1>9 DEF cut, text

(* The characters of a group give its bytes back.                          *)
LEMMA GroupDecoded ==
    ASSUME NEW x \in Byte, NEW y \in Byte, NEW z \in Byte
    PROVE  /\ (x \div 4) * 4 + ((x % 4) * 16 + y \div 16) \div 16 = x
           /\ (((x % 4) * 16 + y \div 16) % 16) * 16
              + ((y % 16) * 4 + z \div 64) \div 4 = y
           /\ (((y % 16) * 4 + z \div 64) % 4) * 64 + (z % 64) = z
<1>1. /\ x \in Nat /\ x < 256 /\ y \in Nat /\ y < 256 /\ z \in Nat /\ z < 256
  BY DEF Byte
<1>2. ((x % 4) * 16 + y \div 16) \div 16 = x % 4
  BY <1>1
<1>3. ((x % 4) * 16 + y \div 16) % 16 = y \div 16
  BY <1>1
<1>4. ((y % 16) * 4 + z \div 64) \div 4 = y % 16
  BY <1>1
<1>5. ((y % 16) * 4 + z \div 64) % 4 = z \div 64
  BY <1>1
<1>6. (x \div 4) * 4 + (x % 4) = x
  BY <1>1
<1>7. (y \div 16) * 16 + (y % 16) = y
  BY <1>1
<1>8. (z \div 64) * 64 + (z % 64) = z
  BY <1>1
<1>9. QED
  BY <1>2, <1>3, <1>4, <1>5, <1>6, <1>7, <1>8, Zenon

(* What is decoded of a text that is cut off between two groups is the     *)
(* beginning of what was encoded; of the whole text it is all of it.       *)
LEMMA CutDecoded ==
    ASSUME NEW bytes \in Seq(Byte), NEW k \in 0 .. Len(Encode(bytes)), k % 4 = 0
    PROVE  Decode(SubSeq(Encode(bytes), 1, k)) = SubSeq(bytes, 1, Left(bytes, k))
<1> DEFINE text == Encode(bytes)
           len == Len(bytes)
           cut == SubSeq(text, 1, k)
           m == Left(bytes, k)
           Decoded(i) ==
               LET c(p) == cut[4 * ((i - 1) \div 3) + p]
               IN  IF i % 3 = 1 THEN c(1) * 4 + c(2) \div 16
                   ELSE IF i % 3 = 2 THEN (c(2) % 16) * 16 + c(3) \div 4
                   ELSE (c(3) % 4) * 64 + c(4)
<1>1. /\ len \in Nat /\ Len(text) \in Nat /\ DOMAIN text = 1 .. Len(text)
      /\ k \in Nat /\ k <= Len(text)
  BY EncodedLength
<1>2. /\ m \in 0 .. len /\ m <= 3 * (k \div 4)
      /\ 3 * (Len(cut) \div 4) - Pads(cut) = m
  <2>1. /\ m \in 0 .. len
        /\ 3 * (Len(cut) \div 4) - Pads(cut) = m
    BY CutBetweenGroups
  <2>2. len <= 3 * ((len + 2) \div 3) /\ Len(text) = 4 * ((len + 2) \div 3)
    <3>1. len <= 3 * ((len + 2) \div 3)
      BY <1>1
    <3>2. QED
      BY <3>1, EncodedLength
  <2>3. k = Len(text) => len <= 3 * (k \div 4)
    <3> DEFINE q == (len + 2) \div 3
    <3>1. q \in Nat
      BY <1>1
    <3> HIDE DEF q, text
    <3>2. QED
      BY <1>1, <2>2, <3>1 DEF q
  <2>4. m = IF k = Len(text) THEN len ELSE 3 * (k \div 4)
    BY DEF Left
  <2> HIDE DEF m, text
  <2>5. m <= 3 * (k \div 4)
    <3>1. CASE k = Len(text)
      BY <2>3, <2>4, <3>1
    <3>2. CASE k # Len(text)
      <4>1. k \div 4 \in Nat
        BY <1>1
      <4>2. m = 3 * (k \div 4)
        BY <2>4, <3>2
      <4>3. QED
        BY <4>1, <4>2
    <3>3. QED
      BY <3>1, <3>2
  <2>6. QED
    BY <2>1, <2>5
<1> HIDE DEF m
<1>3. Decode(cut) = [i \in 1 .. m |-> Decoded(i)]
  BY <1>2 DEF Decode
<1>4. \A i \in 1 .. k : cut[i] = text[i]
  <2>1. text \in Seq(Nat)
    <3>1. \A i \in 1 .. Len(text) : text[i] \in Nat
      BY <1>1, Padding
    <3>2. text \in [1 .. Len(text) -> Nat]
      BY <1>1, <3>1 DEF Encode
    <3>3. QED
      BY <1>1, <3>2
  <2> HIDE DEF text
  <2>2. QED
    BY <1>1, <2>1
<1>5. ASSUME NEW i \in 1 .. m
      PROVE  Decoded(i) = bytes[i]
  <2> DEFINE g == (i - 1) \div 3
             x == ByteOr0(bytes, 3 * g + 1)
             y == ByteOr0(bytes, 3 * g + 2)
             z == ByteOr0(bytes, 3 * g + 3)
  <2>1. /\ i \in Nat /\ g \in Nat /\ i \in {3 * g + 1, 3 * g + 2, 3 * g + 3}
        /\ 3 * g < len /\ i <= len /\ 4 * g + 4 <= k
    <3>1. i \in Nat /\ i = 3 * g + ((i - 1) % 3) + 1 /\ (i - 1) % 3 \in 0 .. 2 /\ g \in Nat
      BY <1>1, <1>2
    <3>2. 3 * g < len /\ i <= len
      BY <1>1, <1>2, <3>1
    <3>3. 4 * g + 4 <= k
      <4>1. 3 * g < 3 * (k \div 4) /\ k \div 4 \in Nat
        BY <1>1, <1>2, <3>1
      <4>2. g + 1 <= k \div 4
        BY <3>1, <4>1
      <4>3. QED
        BY <1>1, <3>1, <4>2
    <3> HIDE DEF g
    <3>4. QED
      BY <3>1, <3>2, <3>3
  <2>2. Decoded(i) =
            IF i % 3 = 1 THEN cut[4 * g + 1] * 4 + cut[4 * g + 2] \div 16
            ELSE IF i % 3 = 2 THEN (cut[4 * g + 2] % 16) * 16 + cut[4 * g + 3] \div 4
            ELSE (cut[4 * g + 3] % 4) * 64 + cut[4 * g + 4]
    OBVIOUS
  <2> HIDE DEF g, Decoded, cut
  <2>3. \A p \in 1 .. 4 : cut[4 * g + p] = text[4 * g + p]
    <3>1. \A p \in 1 .. 4 : 4 * g + p \in 1 .. k
      BY <1>1, <2>1
    <3>2. QED
      BY <1>4, <3>1
  <2>4. x \in Byte /\ y \in Byte /\ z \in Byte
    <3>1. 3 * g + 1 \in Nat /\ 3 * g + 2 \in Nat /\ 3 * g + 3 \in Nat
      BY <2>1
    <3>2. QED
      BY <3>1, BytesOr0
  <2>5. /\ text[4 * g + 1] = x \div 4
        /\ text[4 * g + 2] = (x % 4) * 16 + y \div 16
        /\ text[4 * g + 3] = IF 3 * g + 2 > len THEN Pad ELSE (y % 16) * 4 + z \div 64
        /\ text[4 * g + 4] = IF 3 * g + 3 > len THEN Pad ELSE z % 64
    BY <2>1, EncodedGroup
  <2>6. /\ cut[4 * g + 1] = text[4 * g + 1] /\ cut[4 * g + 2] = text[4 * g + 2]
        /\ cut[4 * g + 3] = text[4 * g + 3] /\ cut[4 * g + 4] = text[4 * g + 4]
    BY <2>3
  <2>7. DOMAIN bytes = 1 .. len
    OBVIOUS
  <2>8. CASE i = 3 * g + 1
    <3>1. i % 3 = 1 /\ bytes[i] = x
      BY <2>1, <2>7, <2>8 DEF ByteOr0
    <3> HIDE DEF x, y, z, text
    <3>2. Decoded(i) = (x \div 4) * 4 + ((x % 4) * 16 + y \div 16) \div 16
      BY <2>2, <2>5, <2>6, <3>1
    <3>3. QED
      BY <2>4, <3>1, <3>2, GroupDecoded
  <2>9. CASE i = 3 * g + 2
    <3>1. i % 3 = 2 /\ bytes[i] = y /\ ~ (3 * g + 2 > len)
      BY <1>1, <2>1, <2>7, <2>9 DEF ByteOr0
    <3> HIDE DEF x, y, z, text
    <3>2. Decoded(i) = (((x % 4) * 16 + y \div 16) % 16) * 16
                       + ((y % 16) * 4 + z \div 64) \div 4
      BY <2>2, <2>5, <2>6, <3>1
    <3>3. QED
      BY <2>4, <3>1, <3>2, GroupDecoded
  <2>10. CASE i = 3 * g + 3
    <3>1. i % 3 = 0 /\ bytes[i] = z /\ ~ (3 * g + 2 > len) /\ ~ (3 * g + 3 > len)
      BY <1>1, <2>1, <2>7, <2>10 DEF ByteOr0
    <3> HIDE DEF x, y, z, text
    <3>2. cut[4 * g + 3] = (y % 16) * 4 + z \div 64 /\ cut[4 * g + 4] = z % 64
      BY <2>5, <2>6, <3>1
    <3>3. Decoded(i) = (cut[4 * g + 3] % 4) * 64 + cut[4 * g + 4]
      BY <2>2, <3>1
    <3>4. Decoded(i) = (((y % 16) * 4 + z \div 64) % 4) * 64 + (z % 64)
      BY <3>2, <3>3
    <3>5. QED
      BY <2>4, <3>1, <3>4, GroupDecoded
  <2>11. QED
    BY <2>1, <2>8, <2>9, <2>10
<1>6. SubSeq(bytes, 1, m) = [i \in 1 .. m |-> bytes[i]]
  BY <1>1, <1>2
<1>7. QED
  <2> HIDE DEF Decoded, cut
  <2>1. Decode(cut) = SubSeq(bytes, 1, m)
    BY <1>3, <1>5, <1>6
  <2>2. QED
    BY <2>1 DEF cut, m

(* Coding is undone by decoding.                                           *)
LEMMA RoundTrip ==
    ASSUME NEW bytes \in Seq(Byte)
    PROVE  WellFormed(Encode(bytes)) /\ Decode(Encode(bytes)) = bytes
<1> DEFINE text == Encode(bytes)
<1>1. /\ Len(text) \in Nat /\ Len(text) % 4 = 0 /\ Len(text) \in 0 .. Len(text)
      /\ DOMAIN text = 1 .. Len(text) /\ Len(bytes) \in Nat
  <2>1. (Len(bytes) + 2) \div 3 \in Nat
    BY EncodedLength
  <2>2. PICK q \in Nat : Len(text) = 4 * q
    BY <2>1, EncodedLength
  <2> HIDE DEF text
  <2>3. Len(text) \in Nat /\ Len(text) % 4 = 0 /\ Len(text) \in 0 .. Len(text)
    BY <2>2
  <2>4. QED
    BY <2>3, EncodedLength DEF text
<1>2. text \in Seq(Nat)
  <2>1. \A i \in 1 .. Len(text) : text[i] \in Nat
    BY <1>1, Padding
  <2>2. text \in [1 .. Len(text) -> Nat]
    BY <1>1, <2>1 DEF Encode
  <2>3. QED
    BY <1>1, <2>2
<1>3. SubSeq(text, 1, Len(text)) = text
  <2> HIDE DEF text
  <2> QED BY <1>2
<1>4. Left(bytes, Len(text)) = Len(bytes)
  BY DEF Left
<1>5. SubSeq(bytes, 1, Len(bytes)) = bytes
  OBVIOUS
<1>6. WellFormed(SubSeq(text, 1, Len(text)))
  BY <1>1, CutBetweenGroups
<1>7. Decode(SubSeq(text, 1, Len(text))) = SubSeq(bytes, 1, Left(bytes, Len(text)))
  BY <1>1, CutDecoded
<1>8. QED
  BY <1>3, <1>4, <1>5, <1>6, <1>7

-----------------------------------------------------------------------------
(* Parts of sequences.                                                     *)

LEMMA PartOfBeginning ==
    ASSUME NEW S, NEW s \in Seq(S), NEW m \in 0 .. Len(s), NEW a \in Nat \ {0},
           NEW b \in 0 .. m
    PROVE  /\ Len(SubSeq(s, 1, m)) = m
           /\ SubSeq(SubSeq(s, 1, m), a, b) = SubSeq(s, a, b)
<1> DEFINE c == SubSeq(s, 1, m)
<1>1. Len(c) = m /\ \A i \in 1 .. m : c[i] = s[i]
  OBVIOUS
<1> HIDE DEF c
<1>2. SubSeq(c, a, b) = [i \in 1 .. (1 + b - a) |-> c[i + a - 1]]
  OBVIOUS
<1>3. SubSeq(s, a, b) = [i \in 1 .. (1 + b - a) |-> s[i + a - 1]]
  OBVIOUS
<1>4. \A i \in 1 .. (1 + b - a) : c[i + a - 1] = s[i + a - 1]
  BY <1>1
<1>5. SubSeq(c, a, b) = SubSeq(s, a, b)
  BY <1>2, <1>3, <1>4
<1>6. QED
  BY <1>1, <1>5 DEF c

LEMMA PartOfSecond ==
    ASSUME NEW S, NEW s \in Seq(S), NEW t \in Seq(S), NEW m \in Nat,
           Len(s) <= m, m <= Len(s) + Len(t)
    PROVE  /\ SubSeq(s \o t, 1, Len(s)) = s
           /\ SubSeq(s \o t, Len(s) + 1, m) = SubSeq(t, 1, m - Len(s))
<1> DEFINE all == s \o t
           l == m - Len(s)
<1>1. /\ Len(s) \in Nat /\ Len(t) \in Nat
      /\ \A i \in 1 .. Len(s) : all[i] = s[i]
      /\ \A i \in 1 .. Len(t) : all[i + Len(s)] = t[i]
  OBVIOUS
<1>0. l \in 0 .. Len(t) /\ Len(s) + l = m
  BY <1>1
<1> HIDE DEF all, l
<1>2. SubSeq(all, 1, Len(s)) = [i \in 1 .. Len(s) |-> all[i]]
  BY <1>1
<1>3. SubSeq(all, 1, Len(s)) = s
  BY <1>1, <1>2
<1>4. SubSeq(all, Len(s) + 1, m) = [i \in 1 .. l |-> all[i + Len(s)]]
  <2>1. SubSeq(all, Len(s) + 1, m)
            = [i \in 1 .. (1 + m - (Len(s) + 1)) |-> all[i + (Len(s) + 1) - 1]]
    BY <1>1
  <2>2. 1 + m - (Len(s) + 1) = l /\ \A i \in 1 .. l : i + (Len(s) + 1) - 1 = i + Len(s)
    BY <1>1, <1>0
  <2>3. QED
    BY <2>1, <2>2
<1>5. SubSeq(t, 1, l) = [i \in 1 .. l |-> t[i]]
  BY <1>0, <1>1
<1>6. \A i \in 1 .. l : all[i + Len(s)] = t[i]
  BY <1>0, <1>1
<1>7. SubSeq(all, Len(s) + 1, m) = SubSeq(t, 1, l)
  BY <1>4, <1>5, <1>6
<1>8. QED
  BY <1>3, <1>7 DEF all, l

-----------------------------------------------------------------------------
(* The decrypt handler, for each thing that the client may have kept.      *)

AsReturned(f) ==
    [encrypted |-> <<>>, ciphertext |-> Encode(f.ciphertext), nonce |-> Encode(f.nonce)]

Text(f) == CombineNonceAndCiphertext(f.nonce, f.ciphertext)

LEMMA Answers ==
    ASSUME NEW f \in KmsAnswers
    PROVE  /\ f = [ok |-> TRUE, nonce |-> f.nonce, ciphertext |-> f.ciphertext]
           /\ f.nonce \in Seq(Byte) /\ Len(f.nonce) = NonceSize
           /\ f.ciphertext \in Seq(Byte) /\ f.ciphertext # <<>>
           /\ f.nonce \o f.ciphertext \in Seq(Byte)
           /\ Len(f.nonce \o f.ciphertext) = NonceSize + Len(f.ciphertext)
           /\ NonceSize \in Nat /\ Len(f.ciphertext) \in Nat \ {0}
<1>1. NonceSize \in Nat /\ MaxCipher \in Nat /\ Bytes \subseteq Byte
  BY FormatAssumption, GatewayAssumption DEF FormatAssumption, GatewayAssumption, Byte
<1>2. /\ f = [ok |-> TRUE, nonce |-> f.nonce, ciphertext |-> f.ciphertext]
      /\ f.nonce \in TupleOf(Bytes, NonceSize)
      /\ f.ciphertext \in SeqOf(Bytes, MaxCipher) /\ f.ciphertext # <<>>
  BY DEF KmsAnswers
<1>3. f.nonce \in [1 .. NonceSize -> Byte]
  BY <1>1, <1>2 DEF TupleOf
<1>4. f.nonce \in Seq(Byte) /\ Len(f.nonce) = NonceSize
  BY <1>1, <1>3
<1>5. PICK m \in 0 .. MaxCipher : f.ciphertext \in [1 .. m -> Bytes]
  BY <1>2 DEF SeqOf
<1>6. f.ciphertext \in Seq(Byte)
  BY <1>1, <1>5
<1>7. Len(f.ciphertext) \in Nat \ {0}
  BY <1>2, <1>6
<1>8. QED
  BY <1>1, <1>2, <1>4, <1>6, <1>7

LEMMA WholeAsked ==
    ASSUME NEW f \in KmsAnswers
    PROVE  /\ DecryptHandler(AsReturned(f)) = f
           /\ DecryptHandler(Combined(Text(f))) = f
           /\ Text(f) # <<>>
<1> DEFINE all == f.nonce \o f.ciphertext
<1>1. /\ f.nonce \in Seq(Byte) /\ f.ciphertext \in Seq(Byte) /\ all \in Seq(Byte)
      /\ f = [ok |-> TRUE, nonce |-> f.nonce, ciphertext |-> f.ciphertext]
      /\ NonceSize \in Nat /\ Len(f.ciphertext) \in Nat \ {0}
      /\ Len(f.nonce) = NonceSize /\ Len(all) = NonceSize + Len(f.ciphertext)
  BY Answers
<1>2. DecryptHandler(AsReturned(f)) = f
  <2>1. /\ WellFormed(Encode(f.nonce)) /\ Decode(Encode(f.nonce)) = f.nonce
        /\ WellFormed(Encode(f.ciphertext)) /\ Decode(Encode(f.ciphertext)) = f.ciphertext
    BY <1>1, RoundTrip
  <2>2. QED
    BY <1>1, <2>1 DEF DecryptHandler, AsReturned
<1>3. Text(f) # <<>>
  <2>1. Len(Encode(all)) = 4 * ((Len(all) + 2) \div 3)
    BY <1>1, EncodedLength
  <2>2. (Len(all) + 2) \div 3 >= 1
    BY <1>1
  <2>3. Len(Encode(all)) # 0
    <3> HIDE DEF all
    <3> QED BY <1>1, <2>1, <2>2
  <2>4. Len(<<>>) = 0
    OBVIOUS
  <2>5. QED
    BY <2>3, <2>4 DEF Text, CombineNonceAndCiphertext
<1>4. DecryptHandler(Combined(Text(f))) = f
  <2>1. WellFormed(Encode(all)) /\ Decode(Encode(all)) = all
    BY <1>1, RoundTrip
  <2>2. SubSeq(all, 1, NonceSize) = f.nonce
    BY <1>1
  <2>3. SubSeq(all, NonceSize + 1, Len(all)) = f.ciphertext
    BY <1>1
  <2>4. SplitNonceAndCiphertext(Text(f), NonceSize) = f
    BY <1>1, <2>1, <2>2, <2>3
    DEF SplitNonceAndCiphertext, Text, CombineNonceAndCiphertext
  <2>5. QED
    BY <1>3, <2>4 DEF DecryptHandler, Combined
<1>5. QED
  BY <1>2, <1>3, <1>4

LEMMA CutAsked ==
    ASSUME NEW f \in KmsAnswers, NEW k \in 1 .. Len(Text(f)) - 1
    PROVE  LET cut == SubSeq(Text(f), 1, k)
               request == DecryptHandler(Combined(cut))
           IN  /\ cut \notin {<<>>, Text(f)}
               /\ request.ok => /\ request.nonce = f.nonce
                                /\ IsStrictPrefix(request.ciphertext, f.ciphertext)
<1> DEFINE all == f.nonce \o f.ciphertext
           text == Encode(all)
           cut == SubSeq(text, 1, k)
           request == DecryptHandler(Combined(cut))
           m == Left(all, k)
           len == Len(f.ciphertext)
<1>1. /\ f.nonce \in Seq(Byte) /\ f.ciphertext \in Seq(Byte) /\ all \in Seq(Byte)
      /\ NonceSize \in Nat /\ len \in Nat
      /\ Len(f.nonce) = NonceSize /\ Len(all) = NonceSize + len
  BY Answers
<1>2. Text(f) = text
  BY DEF Text, CombineNonceAndCiphertext
<1>3. Len(text) \in Nat /\ DOMAIN text = 1 .. Len(text)
  BY <1>1, EncodedLength
<1>4. k \in Nat /\ 1 <= k /\ k < Len(text) /\ k \in 0 .. Len(text)
  BY <1>2, <1>3
<1>5. text \in Seq(Nat)
  <2>1. \A i \in 1 .. Len(text) : text[i] \in Nat
    BY <1>1, <1>3, Padding
  <2>2. text \in [1 .. Len(text) -> Nat]
    BY <1>3, <2>1 DEF Encode
  <2>3. QED
    BY <1>3, <2>2
<1>6. Len(cut) = k
  <2> HIDE DEF text
  <2> QED BY <1>3, <1>4, <1>5
<1>7. cut # <<>> /\ cut # text
  <2> HIDE DEF text, cut
  <2>1. Len(<<>>) = 0
    OBVIOUS
  <2> QED BY <1>4, <1>6, <2>1
<1>8. request = SplitNonceAndCiphertext(cut, NonceSize)
  BY <1>7 DEF DecryptHandler, Combined
<1>9. ASSUME request.ok
      PROVE  /\ request.nonce = f.nonce
             /\ IsStrictPrefix(request.ciphertext, f.ciphertext)
  <2> DEFINE combined == Decode(cut)
  <2> HIDE DEF text, cut, request, combined
  <2>1. /\ WellFormed(cut) /\ ~ (Len(combined) < NonceSize)
        /\ request = [ok |-> TRUE, nonce |-> SubSeq(combined, 1, NonceSize),
                      ciphertext |-> SubSeq(combined, NonceSize + 1, Len(combined))]
    <3>1. Refused.ok = FALSE
      BY DEF Refused
    <3>2. QED
      BY <1>8, <1>9, <3>1 DEF SplitNonceAndCiphertext, combined
  <2>2. k % 4 = 0
    BY <1>6, <2>1 DEF WellFormed
  <2>3. /\ combined = SubSeq(all, 1, m) /\ m \in 0 .. Len(all) /\ m < Len(all)
    <3>1. combined = SubSeq(all, 1, m)
      BY <1>1, <1>4, <2>2, CutDecoded DEF text, cut, combined
    <3>2. m \in 0 .. Len(all) /\ (k < Len(Encode(all)) => m < Len(all))
      BY <1>1, <1>4, <2>2, CutBetweenGroups DEF text
    <3>3. QED
      BY <1>4, <3>1, <3>2 DEF text
  <2> HIDE DEF m
  <2>4. /\ Len(combined) = m /\ NonceSize <= m /\ m \in Nat /\ m < NonceSize + len
    <3>1. m \in Nat /\ m \in 0 .. m /\ 1 \in Nat \ {0}
      BY <1>1, <2>3
    <3>2. Len(combined) = m
      BY <1>1, <2>3, <3>1, PartOfBeginning
    <3>3. QED
      BY <1>1, <2>1, <2>3, <3>1, <3>2
  <2>5. request.nonce = f.nonce
    <3>1. SubSeq(combined, 1, NonceSize) = SubSeq(all, 1, NonceSize)
      <4>1. NonceSize \in 0 .. m /\ 1 \in Nat \ {0}
        BY <1>1, <2>4
      <4>2. QED
        BY <1>1, <2>3, <4>1, PartOfBeginning
    <3>2. SubSeq(all, 1, NonceSize) = f.nonce
      <4>1. Len(f.nonce) <= m /\ m <= Len(f.nonce) + len
        BY <1>1, <2>4
      <4>2. QED
        BY <1>1, <2>4, <4>1, PartOfSecond
    <3>3. QED
      BY <2>1, <3>1, <3>2
  <2>6. request.ciphertext = SubSeq(f.ciphertext, 1, m - NonceSize)
    <3>1. SubSeq(combined, NonceSize + 1, m) = SubSeq(all, NonceSize + 1, m)
      <4>1. m \in 0 .. m /\ NonceSize + 1 \in Nat \ {0}
        BY <1>1, <2>4
      <4>2. QED
        BY <1>1, <2>3, <4>1, PartOfBeginning
    <3>2. SubSeq(all, NonceSize + 1, m) = SubSeq(f.ciphertext, 1, m - NonceSize)
      <4>1. Len(f.nonce) <= m /\ m <= Len(f.nonce) + len
        BY <1>1, <2>4
      <4>2. SubSeq(all, Len(f.nonce) + 1, m) = SubSeq(f.ciphertext, 1, m - Len(f.nonce))
        BY <1>1, <2>4, <4>1, PartOfSecond
      <4>3. QED
        BY <1>1, <4>2
    <3>3. QED
      BY <2>1, <2>4, <3>1, <3>2
  <2>7. IsStrictPrefix(SubSeq(f.ciphertext, 1, m - NonceSize), f.ciphertext)
    <3> DEFINE l == m - NonceSize
               c == SubSeq(f.ciphertext, 1, l)
    <3>1. l \in Nat /\ l < len
      BY <1>1, <2>4
    <3> HIDE DEF l
    <3>2. Len(c) = l /\ SubSeq(c, 1, l) = c
      BY <1>1, <3>1
    <3>3. Len(c) <= Len(f.ciphertext) /\ c # f.ciphertext
      BY <1>1, <3>1, <3>2
    <3>4. QED
      BY <3>2, <3>3 DEF IsStrictPrefix, IsPrefix, l
  <2>8. QED
    BY <2>5, <2>6, <2>7
<1>10. QED
  BY <1>2, <1>7, <1>9

-----------------------------------------------------------------------------
(* What the client keeps is one of these, at each stage of the field.      *)

Cuts(f) == {Combined(SubSeq(Text(f), 1, k)) : k \in 1 .. Len(Text(f)) - 1}

Custody ==
    /\ field = Refused \/ field \in KmsAnswers
    /\ stage = "idle" => field = Refused
    /\ stage \in {"kept", "cut", "asked"} => field \in KmsAnswers
    /\ field \in KmsAnswers =>
          /\ kept \in {AsReturned(field), Combined(Text(field))} \cup Cuts(field)
          /\ stage = "kept" => kept \notin Cuts(field)
          /\ stage = "asked" => asked = DecryptHandler(kept) /\ asked.ok
          /\ stage = "plaintext" => asked = field /\ asked = DecryptHandler(kept)
          /\ stage = "bad_request" => ~ DecryptHandler(kept).ok

(* A text that was cut off is neither of the whole ones.                   *)
LEMMA CutsAreShort ==
    ASSUME NEW f \in KmsAnswers, NEW c \in Cuts(f)
    PROVE  /\ c # AsReturned(f) /\ c # Combined(Text(f))
           /\ c.encrypted \notin {<<>>, Text(f)}
           /\ DecryptHandler(c).ok =>
                 /\ DecryptHandler(c).nonce = f.nonce
                 /\ IsStrictPrefix(DecryptHandler(c).ciphertext, f.ciphertext)
<1>1. PICK k \in 1 .. Len(Text(f)) - 1 : c = Combined(SubSeq(Text(f), 1, k))
  BY DEF Cuts
<1>2. c.encrypted = SubSeq(Text(f), 1, k)
  BY <1>1 DEF Combined
<1>3. c.encrypted \notin {<<>>, Text(f)}
  BY <1>2, CutAsked
<1>4. AsReturned(f).encrypted = <<>> /\ Combined(Text(f)).encrypted = Text(f)
  BY DEF AsReturned, Combined
<1>5. c # AsReturned(f) /\ c # Combined(Text(f))
  BY <1>3, <1>4
<1>6. QED
  BY <1>1, <1>3, <1>5, CutAsked

LEMMA RefusedIsNone == Refused \notin KmsAnswers
  BY DEF Refused, KmsAnswers

LEMMA CustodyInit == GatewayInit => Custody
  BY RefusedIsNone DEF GatewayInit, Custody

LEMMA CustodyStep == Custody /\ [GatewayNext]_gatewayVars => Custody'
<1> SUFFICES ASSUME Custody, [GatewayNext]_gatewayVars
             PROVE  Custody'
  OBVIOUS
<1>1. CASE UNCHANGED singleVars
  <2>1. UNCHANGED <<stage, field, kept, asked>>
    BY <1>1 DEF singleVars
  <2>2. QED
    BY <2>1 DEF Custody
<1>2. ASSUME NEW f \in KmsAnswers, EncryptHandler(f)
      PROVE  Custody'
  <2>1. field' = f /\ kept' = AsReturned(f) /\ stage' = "kept"
    BY <1>2 DEF EncryptHandler, AsReturned
  <2>2. kept' \notin Cuts(f)
    BY <2>1, CutsAreShort
  <2>3. QED
    BY <2>1, <2>2 DEF Custody
<1>3. CASE EncryptRefused
  BY <1>3, RefusedIsNone DEF EncryptRefused, Custody
<1>4. CASE StoreCombined
  <2>1. field \in KmsAnswers /\ kept' = Combined(Text(field)) /\ UNCHANGED <<stage, field>>
        /\ stage = "kept"
    BY <1>4 DEF StoreCombined, Custody, Text
  <2>2. kept' \notin Cuts(field)
    BY <2>1, CutsAreShort
  <2>3. QED
    BY <2>1, <2>2 DEF Custody
<1>5. ASSUME NEW k \in 1 .. Len(kept.encrypted) - 1, CutOff(k)
      PROVE  Custody'
  <2>1. /\ field \in KmsAnswers /\ UNCHANGED field /\ stage' = "cut"
        /\ kept' = Combined(SubSeq(kept.encrypted, 1, k))
        /\ kept \in {AsReturned(field), Combined(Text(field))}
    BY <1>5 DEF CutOff, Custody
  <2>2. kept = Combined(Text(field))
    <3>1. ASSUME kept = AsReturned(field) PROVE FALSE
      <4>1. kept.encrypted = <<>>
        BY <3>1 DEF AsReturned
      <4>2. QED
        BY <4>1
    <3>2. QED
      BY <2>1, <3>1
  <2>3. kept.encrypted = Text(field)
    BY <2>2 DEF Combined
  <2>4. kept' \in Cuts(field)
    BY <2>1, <2>3 DEF Cuts
  <2>5. QED
    BY <2>1, <2>4 DEF Custody
<1>6. CASE Decrypt
  <2>1. /\ field \in KmsAnswers /\ UNCHANGED <<field, kept>>
        /\ asked' = DecryptHandler(kept)
        /\ stage' = IF asked'.ok THEN "asked" ELSE "bad_request"
    BY <1>6 DEF Decrypt, Custody
  <2>2. QED
    BY <2>1 DEF Custody
<1>7. CASE KmsDecrypts
  BY <1>7 DEF KmsDecrypts, Custody
<1>8. QED
  BY <1>1, <1>2, <1>3, <1>4, <1>5, <1>6, <1>7 DEF GatewayNext, Single, gatewayVars

-----------------------------------------------------------------------------
(* The single endpoints leave a batch request alone, so that the gateway   *)
(* keeps what is proved of BatchEncrypt.                                   *)
THEOREM GatewayImplementsBatch == GatewaySpec => Spec
<1>1. GatewayInit => Init
  BY DEF GatewayInit
<1>2. [GatewayNext]_gatewayVars => [Next]_vars
  BY DEF GatewayNext, gatewayVars
<1>3. QED
  BY <1>1, <1>2, PTL DEF GatewaySpec, Spec

(* A batch keeps its promises while the single endpoints are used: answers *)
(* at their own positions, every item answered, each settled once.         *)
THEOREM BatchInTheGateway ==
    GatewaySpec => [](AnswerAtItsOwnPosition /\ EveryItemAnswered) /\ AnswerRefined
  BY GatewayImplementsBatch, OrderMaintained, NoItemUnanswered, BatchImplementsAnswer, PTL

(* Every field comes back, in either format, whatever its bytes and        *)
(* however long it is; and one that was cut off never comes back as        *)
(* something else.                                                         *)
THEOREM EveryFieldComesBack == GatewaySpec => []FieldComesBack
<1>1. ASSUME Custody, field.ok
      PROVE  /\ stage = "asked" =>
                   IF Whole THEN asked = field
                   ELSE /\ asked.nonce = field.nonce
                        /\ IsStrictPrefix(asked.ciphertext, field.ciphertext)
             /\ stage = "plaintext" => Whole
             /\ stage = "bad_request" => ~ Whole
  <2>1. field \in KmsAnswers
    BY <1>1 DEF Custody, Refused
  <2>2. ASSUME kept \in {AsReturned(field), Combined(Text(field))}
        PROVE  Whole /\ DecryptHandler(kept) = field
    <3>1. kept.encrypted \in {<<>>, Text(field)}
      BY <2>2 DEF AsReturned, Combined
    <3>2. QED
      BY <2>1, <2>2, <3>1, WholeAsked DEF Whole, Text
  <2>3. ASSUME kept \in Cuts(field)
        PROVE  /\ ~ Whole
               /\ DecryptHandler(kept).ok =>
                     /\ DecryptHandler(kept).nonce = field.nonce
                     /\ IsStrictPrefix(DecryptHandler(kept).ciphertext, field.ciphertext)
    BY <2>1, <2>3, CutsAreShort DEF Whole, Text
  <2>4. kept \in {AsReturned(field), Combined(Text(field))} \/ kept \in Cuts(field)
    BY <1>1, <2>1 DEF Custody
  <2>5. stage = "asked" =>
            IF Whole THEN asked = field
            ELSE /\ asked.nonce = field.nonce
                 /\ IsStrictPrefix(asked.ciphertext, field.ciphertext)
    BY <1>1, <2>1, <2>2, <2>3, <2>4 DEF Custody
  <2>6. stage = "plaintext" => Whole
    <3>1. ASSUME stage = "plaintext", kept \in Cuts(field)
          PROVE  FALSE
      <4>1. asked = field /\ asked = DecryptHandler(kept) /\ field.ok
        BY <1>1, <2>1, <3>1 DEF Custody
      <4>2. IsStrictPrefix(field.ciphertext, field.ciphertext)
        BY <2>3, <3>1, <4>1
      <4>3. QED
        BY <4>2 DEF IsStrictPrefix
    <3>2. QED
      BY <2>2, <2>4, <3>1
  <2>7. stage = "bad_request" => ~ Whole
    BY <1>1, <2>1, <2>2, <2>3, <2>4 DEF Custody
  <2>8. QED
    BY <2>5, <2>6, <2>7
<1>2. Custody => FieldComesBack
  BY <1>1 DEF FieldComesBack
<1>3. QED
  BY <1>2, CustodyInit, CustodyStep, PTL DEF GatewaySpec

=============================================================================
