--------------------------- MODULE KeyScan_proofs ---------------------------
(***************************************************************************)
(* Proofs about KeyScan, for any finite set of keys, any bounds, limits    *)
(* and writes: LMDB's key order, next_prefix, and what the scans return.   *)
(***************************************************************************)
EXTENDS KeyScan, FiniteSetTheorems, SequenceTheorems, WellFoundedInduction, TLAPS

Bytes == 0 .. MaxByte
ByteStrings == Seq(Bytes)

(* a is below b, and they part after n bytes *)
Parts(a, b, n) ==
    /\ n < Len(b) /\ n <= Len(a)
    /\ \A i \in 1 .. n : a[i] = b[i]
    /\ n = Len(a) \/ a[n + 1] < b[n + 1]

-----------------------------------------------------------------------------
(* The key order *)

(* A string of bytes *)
LEMMA StringParts ==
    ASSUME NEW a \in ByteStrings
    PROVE  /\ Len(a) \in Nat /\ DOMAIN a = 1 .. Len(a)
           /\ \A i \in 1 .. Len(a) : a[i] \in Nat /\ a[i] <= MaxByte
<1>1. MaxByte \in Nat
    BY ScanAssumption
<1> QED
    BY <1>1, LenProperties, ElementOfSeq DEF ByteStrings, Bytes

(* Strings that agree on their first n bytes *)
LEMMA SamePrefix ==
    ASSUME NEW a \in ByteStrings, NEW b \in ByteStrings, NEW n \in Nat, n <= Len(a), n <= Len(b)
    PROVE  SubSeq(a, 1, n) = SubSeq(b, 1, n) <=> \A i \in 1 .. n : a[i] = b[i]
<1>1. /\ Len(a) \in Nat /\ \A i \in 1 .. Len(a) : a[i] \in Bytes
      /\ Len(b) \in Nat /\ \A i \in 1 .. Len(b) : b[i] \in Bytes
    BY LenProperties, ElementOfSeq DEF ByteStrings
<1>2. (\A i \in 1 .. n : a[i] \in Bytes) /\ (\A i \in 1 .. n : b[i] \in Bytes)
    BY <1>1
<1>3. /\ SubSeq(a, 1, n) \in Seq(Bytes) /\ Len(SubSeq(a, 1, n)) = n
      /\ \A i \in 1 .. n : SubSeq(a, 1, n)[i] = a[i]
    BY <1>2, SubSeqProperties
<1>4. /\ SubSeq(b, 1, n) \in Seq(Bytes) /\ Len(SubSeq(b, 1, n)) = n
      /\ \A i \in 1 .. n : SubSeq(b, 1, n)[i] = b[i]
    BY <1>2, SubSeqProperties
<1> DEFINE s == SubSeq(a, 1, n)
           t == SubSeq(b, 1, n)
<1>5. /\ s \in Seq(Bytes) /\ Len(s) = n /\ \A i \in 1 .. n : s[i] = a[i]
      /\ t \in Seq(Bytes) /\ Len(t) = n /\ \A i \in 1 .. n : t[i] = b[i]
    BY <1>3, <1>4
<1> HIDE DEF s, t
<1>6. s = t <=> \A i \in 1 .. n : a[i] = b[i]
  <2>1. ASSUME s = t PROVE \A i \in 1 .. n : a[i] = b[i]
    BY <1>5, <2>1
  <2>2. ASSUME \A i \in 1 .. n : a[i] = b[i] PROVE s = t
    BY <1>5, <2>2, SeqEqual
  <2> QED
    BY <2>1, <2>2
<1> QED
    BY <1>6 DEF s, t

LEMMA LessParts ==
    ASSUME NEW a \in ByteStrings, NEW b \in ByteStrings
    PROVE  Less(a, b) <=> \E n \in Nat : Parts(a, b, n)
<1>1. Len(a) \in Nat /\ Len(b) \in Nat
    BY StringParts
<1>2. \A n \in Nat : n \in 0 .. Len(b) - 1 <=> n < Len(b)
    BY <1>1
<1>3. ASSUME NEW n \in Nat, n < Len(b), n <= Len(a)
      PROVE  SubSeq(a, 1, n) = SubSeq(b, 1, n) <=> \A i \in 1 .. n : a[i] = b[i]
    BY <1>1, <1>3, SamePrefix
<1>4. \A n \in 0 .. Len(b) - 1 : n \in Nat /\ n < Len(b)
    BY <1>1
<1>5. ASSUME Less(a, b) PROVE \E n \in Nat : Parts(a, b, n)
  <2>1. PICK n \in 0 .. Len(b) - 1 : /\ n <= Len(a) /\ SubSeq(a, 1, n) = SubSeq(b, 1, n)
                                     /\ n = Len(a) \/ a[n + 1] < b[n + 1]
    BY <1>5 DEF Less
  <2> QED
    BY <1>3, <1>4, <2>1 DEF Parts
<1>6. ASSUME NEW n \in Nat, Parts(a, b, n) PROVE Less(a, b)
    BY <1>2, <1>3, <1>6 DEF Less, Parts
<1> QED
    BY <1>5, <1>6

LEMMA LessIrreflexive == ASSUME NEW a \in ByteStrings PROVE ~ Less(a, a)
<1> SUFFICES ASSUME NEW n \in Nat, Parts(a, a, n) PROVE FALSE
    BY LessParts
<1>1. Len(a) \in Nat /\ \A i \in 1 .. Len(a) : a[i] \in Nat
    BY StringParts
<1> QED
    BY <1>1 DEF Parts

LEMMA LessTransitive ==
    ASSUME NEW a \in ByteStrings, NEW b \in ByteStrings, NEW c \in ByteStrings, Less(a, b), Less(b, c)
    PROVE  Less(a, c)
<1>1. PICK n \in Nat : Parts(a, b, n)
    BY LessParts
<1>2. PICK m \in Nat : Parts(b, c, m)
    BY LessParts
<1>3. /\ Len(a) \in Nat /\ \A i \in 1 .. Len(a) : a[i] \in Nat
      /\ Len(b) \in Nat /\ \A i \in 1 .. Len(b) : b[i] \in Nat
      /\ Len(c) \in Nat /\ \A i \in 1 .. Len(c) : c[i] \in Nat
    BY StringParts
<1>4. CASE n <= m
  <2>1. Parts(a, c, n)
    <3>1. n < Len(c) /\ n <= Len(a)
      BY <1>1, <1>2, <1>3, <1>4 DEF Parts
    <3>2. \A i \in 1 .. n : a[i] = c[i]
      BY <1>1, <1>2, <1>4 DEF Parts
    <3>3. ASSUME n # Len(a) PROVE a[n + 1] < c[n + 1]
      <4>1. a[n + 1] < b[n + 1] /\ n + 1 \in 1 .. Len(a) /\ n + 1 \in 1 .. Len(b) /\ n + 1 \in 1 .. Len(c)
        BY <1>1, <1>3, <3>1, <3>3 DEF Parts
      <4>2. b[n + 1] <= c[n + 1]
        <5>1. CASE n < m
          <6>1. n + 1 \in 1 .. m
            BY <5>1
          <6> QED
            BY <1>2, <1>3, <4>1, <6>1 DEF Parts
        <5>2. CASE n = m
          BY <1>1, <1>2, <1>3, <4>1, <5>2 DEF Parts
        <5> QED
          BY <1>4, <5>1, <5>2
      <4>3. a[n + 1] \in Nat /\ b[n + 1] \in Nat /\ c[n + 1] \in Nat
        BY <1>3, <4>1
      <4> QED
        BY <4>1, <4>2, <4>3
    <3> QED
      BY <3>1, <3>2, <3>3 DEF Parts
  <2> QED
    BY <2>1, LessParts
<1>5. CASE m < n
  <2>1. m + 1 \in 1 .. n /\ m # Len(b) /\ m <= Len(a) /\ m < Len(c)
    BY <1>1, <1>2, <1>3, <1>5 DEF Parts
  <2>2. a[m + 1] < c[m + 1]
    BY <1>1, <1>2, <2>1 DEF Parts
  <2>3. \A i \in 1 .. m : a[i] = c[i]
    BY <1>1, <1>2, <1>5 DEF Parts
  <2>4. Parts(a, c, m)
    BY <2>1, <2>2, <2>3 DEF Parts
  <2> QED
    BY <2>4, LessParts
<1> QED
    BY <1>4, <1>5

(* A set of positions that is not empty has a least member *)
LEMMA LeastPosition ==
    ASSUME NEW S \in SUBSET Nat, S # {}
    PROVE  \E i \in S : \A j \in S : i <= j
<1> DEFINE R == OpToRel(<, Nat)
<1>1. PICK x \in S : \A y \in S : ~ (<<y, x>> \in R)
  <2> HIDE DEF R
  <2>1. IsWellFoundedOn(R, Nat)
    BY NatLessThanWellFounded DEF R
  <2> QED
    BY <2>1, WFMin
<1>2. \A y \in S : ~ (y < x)
    BY <1>1 DEF OpToRel
<1> QED
    BY <1>2

LEMMA LessTotal ==
    ASSUME NEW a \in ByteStrings, NEW b \in ByteStrings
    PROVE  a = b \/ Less(a, b) \/ Less(b, a)
<1> DEFINE D == {i \in Nat \ {0} : i <= Len(a) /\ i <= Len(b) /\ a[i] # b[i]}
<1>1. /\ Len(a) \in Nat /\ \A i \in 1 .. Len(a) : a[i] \in Nat
      /\ Len(b) \in Nat /\ \A i \in 1 .. Len(b) : b[i] \in Nat
    BY StringParts
<1>2. CASE D = {}
  <2>1. CASE Len(a) = Len(b)
    <3>1. \A i \in 1 .. Len(a) : a[i] = b[i]
      BY <1>1, <1>2, <2>1
    <3>2. a = b
      BY <2>1, <3>1, SeqEqual DEF ByteStrings
    <3> QED
      BY <3>2
  <2>2. CASE Len(a) < Len(b)
    <3>1. Parts(a, b, Len(a))
      BY <1>1, <1>2, <2>2 DEF Parts
    <3> QED
      BY <1>1, <3>1, LessParts
  <2>3. CASE Len(b) < Len(a)
    <3>1. Parts(b, a, Len(b))
      BY <1>1, <1>2, <2>3 DEF Parts
    <3> QED
      BY <1>1, <3>1, LessParts
  <2> QED
    BY <1>1, <2>1, <2>2, <2>3
<1>3. CASE D # {}
  <2>1. PICK m \in D : \A j \in D : m <= j
    BY <1>3, LeastPosition
  <2>2. /\ m \in Nat \ {0} /\ m <= Len(a) /\ m <= Len(b) /\ a[m] # b[m]
        /\ a[m] \in Nat /\ b[m] \in Nat
    BY <1>1, <2>1
  <2>3. \A i \in 1 .. m - 1 : a[i] = b[i]
    BY <1>1, <2>1, <2>2
  <2>4. CASE a[m] < b[m]
    <3>1. Parts(a, b, m - 1)
      BY <1>1, <2>2, <2>3, <2>4 DEF Parts
    <3> QED
      BY <2>2, <3>1, LessParts
  <2>5. CASE b[m] < a[m]
    <3>1. Parts(b, a, m - 1)
      BY <1>1, <2>2, <2>3, <2>5 DEF Parts
    <3> QED
      BY <2>2, <3>1, LessParts
  <2> QED
    BY <2>2, <2>4, <2>5
<1> QED
    BY <1>2, <1>3
-----------------------------------------------------------------------------
(* next_prefix: the range it closes holds the keys with the prefix, no other *)

LEMMA PrefixParts ==
    ASSUME NEW p \in ByteStrings, NEW k \in ByteStrings
    PROVE  IsPrefix(p, k) <=> Len(p) <= Len(k) /\ \A i \in 1 .. Len(p) : p[i] = k[i]
<1>1. Len(p) \in Nat /\ Len(k) \in Nat
    BY StringParts
<1>2. ASSUME Len(p) <= Len(k)
      PROVE  SubSeq(p, 1, Len(p)) = SubSeq(k, 1, Len(p)) <=> \A i \in 1 .. Len(p) : p[i] = k[i]
    BY <1>1, <1>2, SamePrefix
<1> QED
    BY <1>2 DEF IsPrefix

(* None is not a string *)
LEMMA NoEndNoString == NoEnd \notin ByteStrings /\ NoAfter \notin ByteStrings
<1> SUFFICES ASSUME NEW a \in ByteStrings, a = <<-1>> PROVE FALSE
    BY DEF NoEnd, NoAfter
<1>1. Len(a) = 1 /\ a[1] = -1
    OBVIOUS
<1>2. \A i \in 1 .. Len(a) : a[i] \in Nat
    BY StringParts
<1>3. a[1] \in Nat
    BY <1>1, <1>2
<1>4. -1 \in Nat
    BY <1>1, <1>3, Zenon
<1> QED
    BY <1>4

(* A key not below a prefix that agrees with it up to its tail of 0xFF has the prefix *)
LEMMA NotBelowHasPrefix ==
    ASSUME NEW p \in ByteStrings, NEW k \in ByteStrings, NEW l \in 0 .. Len(p),
           \A i \in 1 .. l : i <= Len(k) /\ k[i] = p[i],
           \A i \in l + 1 .. Len(p) : p[i] = MaxByte,
           ~ Less(k, p)
    PROVE  IsPrefix(p, k)
<1>1. /\ Len(p) \in Nat /\ \A i \in 1 .. Len(p) : p[i] \in Nat
      /\ Len(k) \in Nat /\ \A i \in 1 .. Len(k) : k[i] \in Nat /\ k[i] <= MaxByte
      /\ MaxByte \in Nat
    BY StringParts, ScanAssumption
<1> DEFINE D == {i \in Nat \ {0} : i <= Len(p) /\ (i > Len(k) \/ k[i] # p[i])}
<1>2. CASE D = {}
  <2>1. ASSUME NEW i \in 1 .. Len(p) PROVE i <= Len(k) /\ p[i] = k[i]
    BY <1>1, <1>2
  <2>2. Len(p) <= Len(k)
    BY <1>1, <2>1
  <2> QED
    BY <2>1, <2>2, PrefixParts
<1>3. CASE D # {}
  <2>1. PICK m \in D : \A j \in D : m <= j
    BY <1>3, LeastPosition
  <2>2. m \in Nat \ {0} /\ m <= Len(p) /\ (m > Len(k) \/ k[m] # p[m])
    BY <2>1
  <2>3. \A i \in 1 .. m - 1 : i <= Len(k) /\ k[i] = p[i]
    BY <1>1, <2>1, <2>2
  <2>4. m - 1 <= Len(k) /\ m - 1 \in Nat /\ m - 1 < Len(p)
    BY <1>1, <2>2, <2>3
  <2>5. ASSUME m - 1 # Len(k) PROVE k[m] < p[m]
    <3>1. m <= Len(k) /\ k[m] # p[m]
      BY <1>1, <2>2, <2>4, <2>5
    <3>2. m \in l + 1 .. Len(p)
      BY <1>1, <2>2, <3>1
    <3>3. p[m] = MaxByte /\ k[m] \in Nat /\ k[m] <= MaxByte
      BY <1>1, <2>2, <3>1, <3>2
    <3> QED
      BY <1>1, <3>1, <3>3
  <2>6. Parts(k, p, m - 1)
    BY <2>2, <2>3, <2>4, <2>5 DEF Parts
  <2> QED
    BY <2>4, <2>6, LessParts
<1> QED
    BY <1>2, <1>3

LEMMA GreatestPosition ==
    ASSUME NEW m \in Nat, NEW S \in SUBSET (1 .. m), S # {}
    PROVE  \E i \in S : \A j \in S : j <= i
<1> DEFINE T == {m - i : i \in S}
<1>1. \A i \in S : i \in 1 .. m /\ m - i \in Nat
    OBVIOUS
<1>2. T \in SUBSET Nat /\ T # {}
    BY <1>1
<1>3. PICK x \in T : \A y \in T : x <= y
    BY <1>2, LeastPosition
<1>4. PICK i \in S : x = m - i
    BY <1>3
<1>5. \A j \in S : m - j \in T
    OBVIOUS
<1> HIDE DEF T
<1>6. \A j \in S : j <= i
    BY <1>1, <1>3, <1>4, <1>5
<1> QED
    BY <1>6

(* Where next_prefix ends: at the last byte that is not 0xFF, incremented *)
LEMMA NextPrefixParts ==
    ASSUME NEW p \in ByteStrings
    PROVE  \/ NextPrefix(p) = NoEnd /\ \A i \in 1 .. Len(p) : p[i] = MaxByte
           \/ \E l \in 1 .. Len(p) :
                 /\ NextPrefix(p) \in ByteStrings /\ Len(NextPrefix(p)) = l
                 /\ \A i \in 1 .. l - 1 : NextPrefix(p)[i] = p[i]
                 /\ NextPrefix(p)[l] = p[l] + 1
                 /\ \A i \in l + 1 .. Len(p) : p[i] = MaxByte
<1>1. /\ Len(p) \in Nat /\ DOMAIN p = 1 .. Len(p) /\ MaxByte \in Nat
      /\ \A i \in 1 .. Len(p) : p[i] \in Nat /\ p[i] <= MaxByte
    BY StringParts, ScanAssumption
<1> DEFINE low == {i \in DOMAIN p : p[i] < MaxByte}
           last == CHOOSE i \in low : \A j \in low : j <= i
<1>2. NextPrefix(p) = IF low = {} THEN NoEnd ELSE [SubSeq(p, 1, last) EXCEPT ![last] = @ + 1]
    BY DEF NextPrefix
<1>3. low \in SUBSET (1 .. Len(p)) /\ \A i \in 1 .. Len(p) : i \notin low => p[i] = MaxByte
    BY <1>1
<1>4. \A i \in low : p[i] < MaxByte
    OBVIOUS
<1> HIDE DEF low
<1>5. CASE low = {}
    BY <1>2, <1>3, <1>5
<1>6. CASE low # {}
  <2>1. \E i \in low : \A j \in low : j <= i
    BY <1>1, <1>3, <1>6, GreatestPosition
  <2>2. PICK l : l = last
    OBVIOUS
  <2>3. l \in low /\ \A j \in low : j <= l
    BY <2>1, <2>2, Zenon
  <2> HIDE DEF last
  <2>4. l \in 1 .. Len(p) /\ p[l] < MaxByte
    BY <1>3, <1>4, <2>3
  <2>5. \A i \in l + 1 .. Len(p) : p[i] = MaxByte
    BY <1>1, <1>3, <2>3, <2>4
  <2>6. PICK s : s = SubSeq(p, 1, l)
    OBVIOUS
  <2>7. s \in ByteStrings /\ Len(s) = l /\ \A i \in 1 .. l : s[i] = p[i]
    <3>1. \A i \in 1 .. l : p[i] \in Bytes
      BY <1>1, <2>4 DEF Bytes
    <3>2. /\ SubSeq(p, 1, l) \in Seq(Bytes) /\ Len(SubSeq(p, 1, l)) = IF 1 <= l THEN l - 1 + 1 ELSE 0
          /\ \A i \in 1 .. l - 1 + 1 : SubSeq(p, 1, l)[i] = p[1 + i - 1]
      BY <1>1, <2>4, <3>1, SubSeqProperties
    <3> QED
      BY <1>1, <2>4, <2>6, <3>2 DEF ByteStrings
  <2>8. PICK e : e = [s EXCEPT ![l] = s[l] + 1]
    OBVIOUS
  <2>9. /\ e \in ByteStrings /\ Len(e) = l
        /\ \A i \in 1 .. l : e[i] = IF i = l THEN s[l] + 1 ELSE s[i]
    <3>1. l \in 1 .. Len(s) /\ s[l] + 1 \in Bytes
      BY <1>1, <2>4, <2>7 DEF Bytes
    <3> QED
      BY <2>7, <2>8, <3>1, ExceptSeq DEF ByteStrings
  <2>10. NextPrefix(p) = e
    BY <1>2, <1>6, <2>2, <2>6, <2>8
  <2>11. e[l] = p[l] + 1 /\ \A i \in 1 .. l - 1 : e[i] = p[i]
    BY <1>1, <2>4, <2>7, <2>9
  <2> QED
    BY <2>4, <2>5, <2>9, <2>10, <2>11
<1> QED
    BY <1>5, <1>6

(* next_prefix closes the range of a prefix: the keys at or above the       *)
(* prefix and below next_prefix are those that have it, 0xFF bytes at its   *)
(* end included; with no next_prefix, all keys at or above it have it.      *)
THEOREM NextPrefixCloses ==
    ASSUME NEW p \in ByteStrings, NEW k \in ByteStrings
    PROVE  IsPrefix(p, k) <=> ~ Less(k, p) /\ (NextPrefix(p) = NoEnd \/ Less(k, NextPrefix(p)))
<1>1. /\ Len(p) \in Nat /\ \A i \in 1 .. Len(p) : p[i] \in Nat
      /\ Len(k) \in Nat /\ \A i \in 1 .. Len(k) : k[i] \in Nat
    BY StringParts
<1>2. ASSUME IsPrefix(p, k) PROVE ~ Less(k, p)
  <2> SUFFICES ASSUME NEW n \in Nat, Parts(k, p, n) PROVE FALSE
    BY LessParts
  <2>1. Len(p) <= Len(k) /\ \A i \in 1 .. Len(p) : p[i] = k[i]
    BY <1>2, PrefixParts
  <2>2. n + 1 \in 1 .. Len(p) /\ n # Len(k)
    BY <1>1, <2>1 DEF Parts
  <2>3. k[n + 1] < p[n + 1] /\ p[n + 1] = k[n + 1] /\ p[n + 1] \in Nat
    BY <1>1, <2>1, <2>2 DEF Parts
  <2> QED
    BY <2>3
<1>3. CASE NextPrefix(p) = NoEnd
  <2>1. \A i \in 1 .. Len(p) : p[i] = MaxByte
    BY <1>3, NextPrefixParts, NoEndNoString
  <2>2. ASSUME ~ Less(k, p) PROVE IsPrefix(p, k)
    <3>1. 0 \in 0 .. Len(p) /\ \A i \in 0 + 1 .. Len(p) : p[i] = MaxByte
      BY <1>1, <2>1
    <3>2. \A i \in 1 .. 0 : i <= Len(k) /\ k[i] = p[i]
      OBVIOUS
    <3> QED
      BY <2>2, <3>1, <3>2, NotBelowHasPrefix
  <2> QED
    BY <1>2, <1>3, <2>2
<1>4. CASE NextPrefix(p) # NoEnd
  <2>1. PICK e : e = NextPrefix(p)
    OBVIOUS
  <2>2. PICK l \in 1 .. Len(p) :
              /\ e \in ByteStrings /\ Len(e) = l
              /\ \A i \in 1 .. l - 1 : e[i] = p[i]
              /\ e[l] = p[l] + 1
              /\ \A i \in l + 1 .. Len(p) : p[i] = MaxByte
    BY <1>4, <2>1, NextPrefixParts
  <2>3. ASSUME IsPrefix(p, k) PROVE Less(k, e)
    <3>1. Len(p) <= Len(k) /\ \A i \in 1 .. Len(p) : p[i] = k[i]
      BY <2>3, PrefixParts
    <3>2. Parts(k, e, l - 1)
      BY <1>1, <2>2, <3>1 DEF Parts
    <3> QED
      BY <1>1, <2>2, <3>2, LessParts
  <2>4. ASSUME ~ Less(k, p), Less(k, e) PROVE IsPrefix(p, k)
    <3>1. PICK n \in Nat : Parts(k, e, n)
      BY <2>2, <2>4, LessParts
    <3>2. \A m \in Nat : ~ Parts(k, p, m)
      BY <2>4, LessParts
    <3>3. n < l /\ n <= Len(k) /\ n < Len(p) /\ \A i \in 1 .. n : k[i] = p[i]
      BY <1>1, <2>2, <3>1 DEF Parts
    <3>4. n # Len(k)
      BY <3>2, <3>3 DEF Parts
    <3>5. n + 1 <= Len(k) /\ k[n + 1] < e[n + 1] /\ k[n + 1] \in Nat /\ p[n + 1] \in Nat
      BY <1>1, <3>1, <3>3, <3>4 DEF Parts
    <3>6. ~ (k[n + 1] < p[n + 1])
      BY <3>2, <3>3 DEF Parts
    <3>7. n = l - 1
      <4> SUFFICES ASSUME n + 1 \in 1 .. l - 1 PROVE FALSE
        BY <1>1, <2>2, <3>3
      <4> QED
        BY <2>2, <3>5, <3>6
    <3>8. k[l] = p[l] /\ l <= Len(k)
      <4>1. n + 1 = l
        BY <1>1, <2>2, <3>7
      <4>2. k[l] < p[l] + 1 /\ k[l] \in Nat /\ p[l] \in Nat /\ ~ (k[l] < p[l]) /\ l <= Len(k)
        BY <2>2, <3>5, <3>6, <4>1
      <4> QED
        BY <4>2
    <3>9. \A i \in 1 .. l : i <= Len(k) /\ k[i] = p[i]
      BY <1>1, <2>2, <3>3, <3>7, <3>8
    <3>10. l \in 0 .. Len(p)
      BY <1>1, <2>2
    <3> QED
      BY <2>2, <2>4, <3>9, <3>10, NotBelowHasPrefix
  <2> QED
    BY <1>2, <1>4, <2>1, <2>3, <2>4
<1> QED
    BY <1>3, <1>4
-----------------------------------------------------------------------------
(* The cursor *)

LEMMA KeysAreStrings == \A k \in Keys : k \in ByteStrings
BY ScanAssumption DEF ByteStrings, Bytes

(* A set of keys that is not empty has a least one *)
LEMMA LeastKey ==
    ASSUME NEW S \in SUBSET Keys, S # {}
    PROVE  \E k \in S : \A j \in S : j = k \/ Less(k, j)
<1> DEFINE Below(k) == {j \in S : Less(j, k)}
           C == {Cardinality(Below(k)) : k \in S}
<1>1. IsFiniteSet(S)
    BY ScanAssumption, FS_Subset
<1>2. \A k \in S : IsFiniteSet(Below(k)) /\ Cardinality(Below(k)) \in Nat
    BY <1>1, FS_Subset, FS_CardinalityType
<1>3. C \in SUBSET Nat /\ C # {}
  <2> HIDE DEF Below
  <2> QED
    BY <1>2
<1>4. PICK x \in C : \A y \in C : x <= y
  <2> HIDE DEF C
  <2> QED
    BY <1>3, LeastPosition
<1>5. PICK k \in S : x = Cardinality(Below(k))
    BY <1>4
<1>6. ASSUME NEW j \in S, Less(j, k) PROVE FALSE
  <2>1. j \in ByteStrings /\ k \in ByteStrings /\ \A i \in S : i \in ByteStrings
    BY KeysAreStrings
  <2>2. Below(j) \subseteq Below(k)
    BY <1>6, <2>1, LessTransitive
  <2>3. j \in Below(k) /\ j \notin Below(j)
    BY <1>6, <2>1, LessIrreflexive
  <2>4. Cardinality(Below(j)) \in C
    OBVIOUS
  <2> HIDE DEF Below, C
  <2>5. Cardinality(Below(j)) <= Cardinality(Below(k))
        /\ Cardinality(Below(j)) # Cardinality(Below(k))
    BY <1>2, <2>2, <2>3, FS_Subset
  <2> QED
    BY <1>2, <1>4, <1>5, <2>4, <2>5
<1>7. \A j \in S : j = k \/ Less(k, j)
    BY <1>6, KeysAreStrings, LessTotal
<1> QED
    BY <1>7

LEMMA CursorLeast ==
    ASSUME scan.todo \in SUBSET Keys, scan.todo # {}
    PROVE  Cursor \in scan.todo /\ \A j \in scan.todo : j = Cursor \/ Less(Cursor, j)
<1>1. \E k \in scan.todo : \A j \in scan.todo : j = k \/ Less(k, j)
    BY LeastKey
<1> QED
    BY <1>1, Zenon DEF Cursor
-----------------------------------------------------------------------------
(* Ranges: the keys a scan opens its cursor on are those it was asked for *)

(* At or above a bound *)
LEMMA NotBelow ==
    ASSUME NEW a \in ByteStrings, NEW k \in ByteStrings
    PROVE  ~ Less(k, a) <=> Less(a, k) \/ a = k
<1>1. a = k \/ Less(a, k) \/ Less(k, a)
    BY LessTotal
<1>2. ~ (Less(a, k) /\ Less(k, a))
    BY LessTransitive, LessIrreflexive
<1> QED
    BY <1>1, <1>2, LessIrreflexive

LEMMA BoundsAreStrings == (\A b \in Bounds : b \in ByteStrings) /\ <<>> \in ByteStrings
<1>1. <<>> \in Seq(Bytes)
    BY EmptySeq
<1> QED
    BY <1>1, ScanAssumption DEF ByteStrings, Bytes

LEMMA AllRange ==
    ASSUME NEW k \in Keys
    PROVE  k \in From(<<>>, FALSE) <=> db[k] # "none"
<1>1. k \in ByteStrings /\ <<>> \in ByteStrings
    BY KeysAreStrings, BoundsAreStrings
<1>2. ~ Less(k, <<>>)
  <2> SUFFICES ASSUME NEW n \in Nat, Parts(k, <<>>, n) PROVE FALSE
    BY <1>1, LessParts
  <2> QED
    BY DEF Parts
<1>3. Less(<<>>, k) \/ <<>> = k
    BY <1>1, <1>2, NotBelow
<1> QED
    BY <1>3 DEF From

LEMMA BoundedRange ==
    ASSUME NEW start \in Bounds, NEW end \in Bounds, NEW k \in Keys
    PROVE  k \in Until(From(start, FALSE), end)
              <=> db[k] # "none" /\ ~ Less(k, start) /\ Less(k, end)
<1>1. k \in ByteStrings /\ start \in ByteStrings /\ end # NoEnd
    BY KeysAreStrings, BoundsAreStrings, NoEndNoString
<1>2. ~ Less(k, start) <=> Less(start, k) \/ start = k
    BY <1>1, NotBelow
<1> QED
    BY <1>1, <1>2 DEF From, Until

LEMMA PrefixRangeHolds ==
    ASSUME NEW prefix \in ByteStrings, NEW after \in ByteStrings \cup {NoAfter},
           after # NoAfter => ~ Less(after, prefix), NEW k \in Keys
    PROVE  k \in PrefixRange(prefix, after)
              <=> db[k] # "none" /\ IsPrefix(prefix, k) /\ (after = NoAfter \/ Less(after, k))
<1>1. k \in ByteStrings
    BY KeysAreStrings
<1>2. PICK end : end = NextPrefix(prefix)
    OBVIOUS
<1>3. IsPrefix(prefix, k) <=> ~ Less(k, prefix) /\ (end = NoEnd \/ Less(k, end))
    BY <1>1, <1>2, NextPrefixCloses
<1>4. ~ Less(k, prefix) <=> Less(prefix, k) \/ prefix = k
    BY <1>1, NotBelow
<1>5. CASE after = NoAfter
    BY <1>2, <1>3, <1>4, <1>5 DEF PrefixRange, Until, From
<1>6. CASE after # NoAfter
  <2>1. after \in ByteStrings /\ (Less(prefix, after) \/ prefix = after)
    BY <1>6, NotBelow
  <2>2. Less(after, k) => ~ Less(k, prefix)
    BY <1>1, <1>4, <2>1, LessTransitive
  <2> QED
    BY <1>2, <1>3, <1>6, <2>2 DEF PrefixRange, Until, From
<1> QED
    BY <1>5, <1>6

LEMMA RangesOfKeys ==
    ASSUME NEW lo, NEW hi
    PROVE  /\ From(lo, FALSE) \in SUBSET Keys /\ Until(From(lo, FALSE), hi) \in SUBSET Keys
           /\ PrefixRange(lo, hi) \in SUBSET Keys
BY DEF From, Until, PrefixRange

(* An opened scan *)
LEMMA OpenOK ==
    ASSUME TypeOK, NEW req \in Request, NEW range \in SUBSET Keys, Open(req, range),
           late' = late,
           Proper(req) => \A k \in Keys : k \in range <=> db[k] # "none" /\ Asked(req, k)
    PROVE  /\ scan' \in Scans /\ scan' # NoScan /\ scan'.req = req /\ scan'.snap = db
           /\ ScanCorrect' /\ (scan'.late => late')
           /\ (Looping /\ Proper(scan.req) => LoopOK)'
<1>1. PICK pc \in {"loop", "done"} : pc = IF req.kind # "all" /\ req.lo = <<>> THEN "done" ELSE "loop"
    OBVIOUS
<1>2. scan' = [pc |-> pc, req |-> req, snap |-> db, todo |-> range, out |-> <<>>, late |-> late]
    BY <1>1 DEF Open
<1>3. <<>> \in Seq(Keys)
    BY EmptySeq
<1>4. /\ scan'.pc = pc /\ scan'.req = req /\ scan'.snap = db /\ scan'.todo = range
      /\ scan'.out = <<>> /\ scan'.late = late
    BY <1>2
<1>5. scan' \in Scans
    BY <1>2, <1>3 DEF Scans, TypeOK
<1>6. scan' # NoScan
    BY <1>4 DEF NoScan
<1>7. Proper(req) => pc = "loop"
    BY <1>1 DEF Proper
<1>8. ScanCorrect'
    BY <1>4, <1>7 DEF ScanCorrect
<1>9. ASSUME Proper(req) PROVE LoopOK'
  <2>1. InRange' = range
    BY <1>4, <1>9 DEF InRange
  <2>2. Returned' = {}
    BY <1>4 DEF Returned
  <2>3. Len(scan'.out) = 0 /\ req.cap \in Nat
    <3>1. req.cap \in Caps /\ Caps \subseteq Nat
      BY ScanAssumption DEF Request, Caps
    <3>2. Len(<<>>) = 0
      OBVIOUS
    <3> QED
      BY <1>4, <3>1, <3>2
  <2>4. Ordered(scan'.out, FALSE)
    BY <1>4 DEF Ordered
  <2>5. Len(scan'.out) <= scan'.req.cap
    BY <1>4, <2>3
  <2> QED
    BY <1>4, <2>1, <2>2, <2>4, <2>5 DEF LoopOK
<1> QED
    BY <1>4, <1>5, <1>6, <1>8, <1>9
-----------------------------------------------------------------------------
(* Results *)

Elems(s) == {s[i] : i \in DOMAIN s}

LEMMA EmptyOut == Elems(<<>>) = {} /\ Ordered(<<>>, FALSE) /\ <<>> \in Seq(Keys) /\ Len(<<>>) = 0
<1>1. <<>> \in Seq(Keys)
    BY EmptySeq
<1> QED
    BY <1>1 DEF Elems, Ordered

LEMMA AppendOut ==
    ASSUME NEW s \in Seq(Keys), NEW c \in Keys, Ordered(s, FALSE), \A x \in Elems(s) : Less(x, c)
    PROVE  /\ Append(s, c) \in Seq(Keys) /\ Len(Append(s, c)) = Len(s) + 1
           /\ Ordered(Append(s, c), FALSE) /\ Elems(Append(s, c)) = Elems(s) \cup {c}
<1>1. PICK t : t = Append(s, c)
    OBVIOUS
<1>2. /\ t \in Seq(Keys) /\ Len(t) = Len(s) + 1 /\ t[Len(s) + 1] = c
      /\ \A i \in 1 .. Len(s) : t[i] = s[i]
    BY <1>1, AppendProperties
<1>3. Len(s) \in Nat /\ DOMAIN s = 1 .. Len(s) /\ DOMAIN t = 1 .. Len(s) + 1
    BY <1>2, LenProperties
<1>4. Elems(t) = Elems(s) \cup {c}
  <2>1. ASSUME NEW i \in DOMAIN t PROVE t[i] \in Elems(s) \cup {c}
    <3>1. i \in 1 .. Len(s) \/ i = Len(s) + 1
      BY <1>3
    <3> QED
      BY <1>2, <1>3, <3>1 DEF Elems
  <2>2. ASSUME NEW i \in DOMAIN s PROVE s[i] \in Elems(t)
    <3>1. i \in DOMAIN t /\ t[i] = s[i]
      BY <1>2, <1>3
    <3> QED
      BY <3>1 DEF Elems
  <2>3. c \in Elems(t)
    <3>1. Len(s) + 1 \in DOMAIN t
      BY <1>3
    <3> QED
      BY <1>2, <3>1 DEF Elems
  <2> QED
    BY <2>1, <2>2, <2>3 DEF Elems
<1>5. ASSUME NEW i \in DOMAIN t, NEW j \in DOMAIN t, i < j PROVE Less(t[i], t[j])
  <2>1. i \in DOMAIN s /\ t[i] = s[i] /\ ((j \in DOMAIN s /\ t[j] = s[j]) \/ t[j] = c)
    BY <1>2, <1>3, <1>5
  <2>2. s[i] \in Elems(s)
    BY <2>1 DEF Elems
  <2> QED
    BY <1>5, <2>1, <2>2 DEF Ordered
<1>6. Ordered(t, FALSE)
    BY <1>5 DEF Ordered
<1> QED
    BY <1>1, <1>2, <1>4, <1>6

(* The window lets go of its first, which is its least *)
LEMMA TailOut ==
    ASSUME NEW s \in Seq(Keys), Ordered(s, FALSE), s # <<>>
    PROVE  /\ Tail(s) \in Seq(Keys) /\ Len(Tail(s)) = Len(s) - 1 /\ Len(s) > 0
           /\ Ordered(Tail(s), FALSE) /\ Elems(Tail(s)) \subseteq Elems(s)
           /\ \A x \in Elems(s) \ Elems(Tail(s)) : \A r \in Elems(Tail(s)) : Less(x, r)
<1>1. PICK t : t = Tail(s)
    OBVIOUS
<1>2. /\ t \in Seq(Keys) /\ Len(t) = Len(s) - 1 /\ \A i \in 1 .. Len(t) : t[i] = s[i + 1]
    BY <1>1, HeadTailProperties
<1>3. Len(s) \in Nat /\ Len(s) > 0 /\ DOMAIN s = 1 .. Len(s) /\ DOMAIN t = 1 .. Len(s) - 1
    BY <1>2, LenProperties, EmptySeq
<1>4. \A i \in DOMAIN t : i + 1 \in DOMAIN s /\ t[i] = s[i + 1] /\ 1 < i + 1
    BY <1>2, <1>3
<1>5. Elems(t) \subseteq Elems(s)
    BY <1>4 DEF Elems
<1>6. ASSUME NEW i \in DOMAIN t, NEW j \in DOMAIN t, i < j PROVE Less(t[i], t[j])
  <2>1. i + 1 < j + 1
    BY <1>3, <1>6
  <2> QED
    BY <1>4, <2>1 DEF Ordered
<1>7. Ordered(t, FALSE)
    BY <1>6 DEF Ordered
<1>8. ASSUME NEW x \in Elems(s) \ Elems(t), NEW r \in Elems(t) PROVE Less(x, r)
  <2>1. PICK i \in DOMAIN s : x = s[i]
    BY DEF Elems
  <2>2. PICK j \in DOMAIN t : r = t[j]
    BY DEF Elems
  <2>3. i = 1
    <3> SUFFICES ASSUME i # 1 PROVE FALSE
      OBVIOUS
    <3>1. i - 1 \in DOMAIN t /\ (i - 1) + 1 = i
      BY <1>3
    <3>2. t[i - 1] = x
      BY <1>4, <2>1, <3>1
    <3> QED
      BY <3>1, <3>2 DEF Elems
  <2>4. 1 \in DOMAIN s /\ j + 1 \in DOMAIN s /\ 1 < j + 1 /\ x = s[1] /\ r = s[j + 1]
    BY <1>4, <2>1, <2>2, <2>3
  <2> QED
    BY <2>4 DEF Ordered
<1> QED
    BY <1>1, <1>2, <1>3, <1>5, <1>7, <1>8

LEMMA ReverseOut ==
    ASSUME NEW s \in Seq(Keys), Ordered(s, FALSE)
    PROVE  /\ Reverse(s) \in Seq(Keys) /\ Len(Reverse(s)) = Len(s)
           /\ Ordered(Reverse(s), TRUE) /\ Elems(Reverse(s)) = Elems(s)
<1>1. PICK t : t = Reverse(s)
    OBVIOUS
<1>2. Len(s) \in Nat /\ DOMAIN s = 1 .. Len(s)
    BY LenProperties
<1>3. t = [i \in 1 .. Len(s) |-> s[Len(s) - i + 1]]
    BY <1>1 DEF Reverse
<1>4. /\ \A i \in 1 .. Len(s) : Len(s) - i + 1 \in 1 .. Len(s)
      /\ \A i \in 1 .. Len(s) : t[i] = s[Len(s) - i + 1]
      /\ DOMAIN t = 1 .. Len(s)
    BY <1>2, <1>3
<1>5. t \in Seq(Keys) /\ Len(t) = Len(s)
  <2>1. \A i \in 1 .. Len(s) : t[i] \in Keys
    BY <1>4, ElementOfSeq
  <2>2. t \in [1 .. Len(s) -> Keys]
    BY <1>3, <1>4, <2>1
  <2>3. t \in Seq(Keys)
    BY <1>2, <2>2, SeqDef
  <2> QED
    BY <1>2, <1>4, <2>3, LenProperties
<1>6. Elems(t) = Elems(s)
  <2>1. ASSUME NEW i \in DOMAIN t PROVE t[i] \in Elems(s)
    BY <1>2, <1>4 DEF Elems
  <2>2. ASSUME NEW i \in DOMAIN s PROVE s[i] \in Elems(t)
    <3>1. Len(s) - i + 1 \in DOMAIN t /\ Len(s) - (Len(s) - i + 1) + 1 = i
      BY <1>2, <1>4
    <3>2. t[Len(s) - i + 1] = s[i]
      BY <1>4, <3>1
    <3> QED
      BY <3>1, <3>2 DEF Elems
  <2> QED
    BY <2>1, <2>2 DEF Elems
<1>7. ASSUME NEW i \in DOMAIN t, NEW j \in DOMAIN t, i < j PROVE Less(t[j], t[i])
  <2>1. Len(s) - j + 1 < Len(s) - i + 1
    BY <1>2, <1>4, <1>7
  <2>2. /\ Len(s) - j + 1 \in DOMAIN s /\ Len(s) - i + 1 \in DOMAIN s
        /\ t[j] = s[Len(s) - j + 1] /\ t[i] = s[Len(s) - i + 1]
    BY <1>2, <1>4
  <2> QED
    BY <2>1, <2>2 DEF Ordered
<1>8. Ordered(t, TRUE)
    BY <1>7 DEF Ordered
<1> QED
    BY <1>1, <1>5, <1>6, <1>8

(* Two pages, the second of which begins after the last key of the first *)
LEMMA JoinOut ==
    ASSUME NEW s \in Seq(Keys), NEW t \in Seq(Keys), Ordered(s, FALSE), Ordered(t, FALSE),
           s # <<>> => \A x \in Elems(t) : Less(Last(s), x)
    PROVE  /\ s \o t \in Seq(Keys) /\ Ordered(s \o t, FALSE)
           /\ Elems(s \o t) = Elems(s) \cup Elems(t)
           /\ t # <<>> => s \o t # <<>> /\ Last(s \o t) = Last(t) /\ Last(t) \in Elems(t)
<1>1. PICK a : a = s \o t
    OBVIOUS
<1>2. PICK n \in Nat : n = Len(s)
    BY LenProperties
<1>3. PICK m \in Nat : m = Len(t)
    BY LenProperties
<1>4. DOMAIN s = 1 .. n /\ DOMAIN t = 1 .. m
    BY <1>2, <1>3, LenProperties
<1>5. /\ a \in Seq(Keys) /\ Len(a) = n + m
      /\ \A i \in 1 .. n + m : a[i] = IF i <= n THEN s[i] ELSE t[i - n]
    BY <1>1, <1>2, <1>3, ConcatProperties
<1>6. DOMAIN a = 1 .. n + m
    BY <1>5, LenProperties
<1>7. /\ \A i \in DOMAIN s : i \in DOMAIN a /\ a[i] = s[i]
      /\ \A i \in DOMAIN t : i + n \in DOMAIN a /\ a[i + n] = t[i]
  <2>1. \A i \in 1 .. m : i + n \in 1 .. n + m /\ ~ (i + n <= n) /\ (i + n) - n = i
    BY SMT
  <2>2. \A i \in 1 .. n : i \in 1 .. n + m /\ i <= n
    BY SMT
  <2> QED
    BY <1>4, <1>5, <1>6, <2>1, <2>2
<1>8. \A i \in DOMAIN a : i \in DOMAIN s \/ (i - n \in DOMAIN t /\ i = (i - n) + n)
    BY <1>4, <1>6
<1>9. Elems(a) = Elems(s) \cup Elems(t)
  <2>1. ASSUME NEW i \in DOMAIN a PROVE a[i] \in Elems(s) \cup Elems(t)
    BY <1>7, <1>8 DEF Elems
  <2>2. ASSUME NEW i \in DOMAIN s PROVE s[i] \in Elems(a)
    BY <1>7 DEF Elems
  <2>3. ASSUME NEW i \in DOMAIN t PROVE t[i] \in Elems(a)
    BY <1>7 DEF Elems
  <2> QED
    BY <2>1, <2>2, <2>3 DEF Elems
<1>10. ASSUME s # <<>> PROVE /\ n \in DOMAIN s /\ Last(s) = s[n] /\ Last(s) \in Keys
                             /\ \A i \in DOMAIN s : s[i] = Last(s) \/ Less(s[i], Last(s))
  <2>1. n # 0
    BY <1>2, <1>10, EmptySeq
  <2>2. n \in DOMAIN s /\ Last(s) = s[n] /\ s[n] \in Keys
    BY <1>2, <1>4, <2>1, ElementOfSeq DEF Last
  <2>3. ASSUME NEW i \in DOMAIN s PROVE i = n \/ i < n
    BY <1>4
  <2> QED
    BY <2>2, <2>3 DEF Ordered
<1>11. ASSUME NEW i \in DOMAIN a, NEW j \in DOMAIN a, i < j PROVE Less(a[i], a[j])
  <2>1. CASE j \in DOMAIN s
    <3>1. i \in DOMAIN s
      BY <1>4, <1>6, <1>11, <2>1
    <3> QED
      BY <1>7, <1>11, <2>1, <3>1 DEF Ordered
  <2>2. CASE i \in DOMAIN s /\ j \notin DOMAIN s
    <3>1. s # <<>> /\ a[i] = s[i] /\ j - n \in DOMAIN t /\ a[j] = t[j - n]
      BY <1>4, <1>7, <1>8, <2>2
    <3>2. a[j] \in Elems(t) /\ a[i] \in Keys /\ a[j] \in Keys
      BY <1>5, <1>6, <3>1, ElementOfSeq DEF Elems
    <3>3. Less(Last(s), a[j]) /\ (a[i] = Last(s) \/ Less(a[i], Last(s))) /\ Last(s) \in Keys
      BY <1>10, <2>2, <3>1, <3>2
    <3> QED
      BY <3>2, <3>3, KeysAreStrings, LessTransitive
  <2>3. CASE i \notin DOMAIN s /\ j \notin DOMAIN s
    <3>1. /\ i - n \in DOMAIN t /\ j - n \in DOMAIN t /\ a[i] = t[i - n] /\ a[j] = t[j - n]
      BY <1>7, <1>8, <2>3
    <3>2. i - n < j - n
      BY <1>6, <1>11
    <3> QED
      BY <3>1, <3>2 DEF Ordered
  <2> QED
    BY <2>1, <2>2, <2>3
<1>12. Ordered(a, FALSE)
    BY <1>11 DEF Ordered
<1>13. ASSUME t # <<>> PROVE a # <<>> /\ Last(a) = Last(t) /\ Last(t) \in Elems(t)
  <2>1. m # 0
    BY <1>3, <1>13, EmptySeq
  <2>2. m \in DOMAIN t /\ Last(t) = t[m] /\ m + n = n + m
    BY <1>3, <1>4, <2>1 DEF Last
  <2>3. Last(a) = a[n + m] /\ a[m + n] = t[m] /\ n + m # 0
    BY <1>5, <1>7, <2>1, <2>2 DEF Last
  <2> QED
    BY <1>5, <2>2, <2>3, EmptySeq DEF Elems
<1> QED
    BY <1>1, <1>5, <1>9, <1>12, <1>13
-----------------------------------------------------------------------------
(* The invariant: steps that open a scan *)

LEMMA CapIsNat == ASSUME NEW req \in Request PROVE req.cap \in Nat
<1>1. req.cap \in Caps /\ Caps \subseteq Nat
    BY ScanAssumption DEF Request, Caps
<1> QED
    BY <1>1

LEMMA ReqStrings ==
    ASSUME NEW req \in Request
    PROVE  req.lo \in ByteStrings /\ req.hi \in ByteStrings \cup {NoAfter}
<1>1. req.lo \in Bounds \cup {<<>>} /\ req.hi \in Bounds \cup Keys \cup {NoEnd, NoAfter}
    BY DEF Request
<1>2. NoEnd = NoAfter
    BY DEF NoEnd, NoAfter
<1> QED
    BY <1>1, <1>2, BoundsAreStrings, KeysAreStrings

(* A page of a prefix opens its cursor on what it was asked for *)
LEMMA PrefixAsked ==
    ASSUME NEW req \in Request, req.kind = "prefix", Proper(req), NEW k \in Keys
    PROVE  k \in PrefixRange(req.lo, req.hi) <=> db[k] # "none" /\ Asked(req, k)
<1>1. req.lo \in ByteStrings /\ req.hi \in ByteStrings \cup {NoAfter}
    BY ReqStrings
<1>2. req.hi # NoAfter => ~ Less(req.hi, req.lo)
    BY DEF Proper
<1>3. k \in PrefixRange(req.lo, req.hi)
        <=> db[k] # "none" /\ IsPrefix(req.lo, k) /\ (req.hi = NoAfter \/ Less(req.hi, k))
    BY <1>1, <1>2, PrefixRangeHolds
<1> QED
    BY <1>3 DEF Asked

LEMMA SingleInv ==
    ASSUME ScanInv, NEW req \in Request, NEW range \in SUBSET Keys, Single(req, range),
           Proper(req) => \A k \in Keys : k \in range <=> db[k] # "none" /\ Asked(req, k)
    PROVE  ScanInv'
<1>1. TypeOK /\ PagesOK
    BY DEF ScanInv
<1>2. since = NoPages /\ Open(req, range) /\ UNCHANGED <<db, late, pages, since, writes>>
    BY DEF Single
<1>3. /\ scan' \in Scans /\ scan' # NoScan /\ scan'.req = req /\ scan'.snap = db
      /\ ScanCorrect' /\ (scan'.late => late')
      /\ (Looping /\ Proper(scan.req) => LoopOK)'
    BY <1>1, <1>2, OpenOK
<1>4. TypeOK'
    BY <1>1, <1>2, <1>3 DEF TypeOK
<1>5. PagesOK'
    BY <1>1, <1>2 DEF PagesOK
<1> QED
    BY <1>3, <1>4, <1>5 DEF ScanInv

LEMMA ScanAllInv == ASSUME ScanInv, NEW cap \in Caps, ScanAll(cap) PROVE ScanInv'
<1>1. PICK req : req = [kind |-> "all", lo |-> <<>>, hi |-> NoEnd, cap |-> cap]
    OBVIOUS
<1>2. req \in Request /\ req.kind = "all"
    BY <1>1 DEF Request
<1>3. Single(req, From(<<>>, FALSE))
    BY <1>1 DEF ScanAll
<1>4. \A k \in Keys : k \in From(<<>>, FALSE) <=> db[k] # "none" /\ Asked(req, k)
    BY <1>2, AllRange DEF Asked
<1>5. From(<<>>, FALSE) \in SUBSET Keys
    BY DEF From
<1> QED
    BY <1>2, <1>3, <1>4, <1>5, SingleInv

LEMMA ScanRangeInv ==
    ASSUME ScanInv, NEW cap \in Caps, NEW lo \in Bounds, NEW hi \in Bounds,
           ScanRange(lo, hi, cap) \/ ScanRangeRev(lo, hi, cap)
    PROVE  ScanInv'
<1>1. PICK kind \in {"range", "rev"} :
          Single([kind |-> kind, lo |-> lo, hi |-> hi, cap |-> cap], Until(From(lo, FALSE), hi))
    BY DEF ScanRange, ScanRangeRev
<1>2. PICK req : req = [kind |-> kind, lo |-> lo, hi |-> hi, cap |-> cap]
    OBVIOUS
<1>3. req \in Request /\ req.kind \in {"range", "rev"} /\ req.lo = lo /\ req.hi = hi
    BY <1>2 DEF Request
<1>4. \A k \in Keys : k \in Until(From(lo, FALSE), hi) <=> db[k] # "none" /\ Asked(req, k)
  <2> SUFFICES ASSUME NEW k \in Keys
               PROVE  k \in Until(From(lo, FALSE), hi) <=> db[k] # "none" /\ Asked(req, k)
    OBVIOUS
  <2>1. Asked(req, k) <=> ~ Less(k, lo) /\ Less(k, hi)
    BY <1>3 DEF Asked
  <2> QED
    BY <2>1, BoundedRange
<1>5. Until(From(lo, FALSE), hi) \in SUBSET Keys
    BY RangesOfKeys
<1>6. Single(req, Until(From(lo, FALSE), hi))
    BY <1>1, <1>2
<1> QED
    BY <1>3, <1>4, <1>5, <1>6, SingleInv

LEMMA ScanPrefixInv ==
    ASSUME ScanInv, NEW cap \in Caps, NEW prefix \in Bounds,
           NEW after \in (Bounds \ {<<>>}) \cup {NoAfter}, ScanPrefix(prefix, after, cap)
    PROVE  ScanInv'
<1>1. PICK req : req = [kind |-> "prefix", lo |-> prefix, hi |-> after, cap |-> cap]
    OBVIOUS
<1>2. req \in Request /\ req.kind = "prefix" /\ req.lo = prefix /\ req.hi = after
    BY <1>1 DEF Request
<1>3. /\ since = NoPages /\ Open(req, PrefixRange(req.lo, req.hi))
      /\ since' = [keys |-> Keys, req |-> req]
      /\ UNCHANGED <<db, late, pages, writes>>
    BY <1>1, <1>2 DEF ScanPrefix
<1>4. TypeOK /\ PagesOK
    BY DEF ScanInv
<1>5. Proper(req) => \A k \in Keys : k \in PrefixRange(req.lo, req.hi) <=> db[k] # "none" /\ Asked(req, k)
    BY <1>2, PrefixAsked
<1>6. PrefixRange(req.lo, req.hi) \in SUBSET Keys
    BY RangesOfKeys
<1>7. /\ scan' \in Scans /\ scan' # NoScan /\ scan'.req = req /\ scan'.snap = db
      /\ ScanCorrect' /\ (scan'.late => late')
      /\ (Looping /\ Proper(scan.req) => LoopOK)'
    BY <1>2, <1>3, <1>4, <1>5, <1>6, OpenOK
<1>8. TypeOK'
  <2>1. since' \in [keys : SUBSET Keys, req : Request]
    BY <1>2, <1>3
  <2> QED
    BY <1>3, <1>4, <1>7, <2>1 DEF TypeOK
<1>9. PagesOK'
  <2>1. pages' = <<>> /\ since'.req = req /\ since'.keys = Keys /\ since' # NoPages
    BY <1>2, <1>3, <1>4 DEF PagesOK, NoPages
  <2>2. PageReq' = req
    BY <2>1 DEF PageReq
  <2>3. Ordered(<<>>, FALSE) /\ \A i \in DOMAIN <<>> : FALSE
    <3>1. \A i \in DOMAIN <<>> : FALSE
      OBVIOUS
    <3> QED
      BY <3>1, EmptyOut
  <2> QED
    BY <1>2, <1>3, <1>7, <2>1, <2>2, <2>3 DEF PagesOK
<1> QED
    BY <1>7, <1>8, <1>9 DEF ScanInv

LEMMA LastPage ==
    ASSUME NEW s \in Seq(Keys), s # <<>>
    PROVE  Last(s) \in Keys /\ Len(s) \in DOMAIN s /\ Last(s) = s[Len(s)]
<1>1. Len(s) \in Nat /\ DOMAIN s = 1 .. Len(s) /\ Len(s) # 0
    BY LenProperties, EmptySeq
<1> QED
    BY <1>1, ElementOfSeq DEF Last

(* The pages of a client: what its record and the request of a page are *)
LEMMA PagingType ==
    ASSUME TypeOK, PagesOK, since # NoPages
    PROVE  /\ since \in [keys : SUBSET Keys, req : Request]
           /\ since.req \in Request /\ since.req.kind = "prefix"
           /\ since.keys \in SUBSET Keys
<1>1. since \in [keys : SUBSET Keys, req : Request]
    BY DEF TypeOK
<1> QED
    BY <1>1 DEF PagesOK

LEMMA PageReqType ==
    ASSUME TypeOK, PagesOK, since # NoPages
    PROVE  /\ PageReq \in Request /\ PageReq.kind = "prefix" /\ PageReq.cap = since.req.cap
           /\ PageReq.lo = since.req.lo
           /\ PageReq.hi = IF pages = <<>> THEN since.req.hi ELSE Last(pages)
<1>1. since.req \in Request /\ since.req.kind = "prefix"
    BY PagingType
<1>2. CASE pages = <<>>
    BY <1>1, <1>2 DEF PageReq
<1>3. CASE pages # <<>>
  <2>1. Last(pages) \in Keys
    BY <1>3, LastPage DEF TypeOK
  <2>2. PageReq = [since.req EXCEPT !.hi = Last(pages)]
    BY <1>3 DEF PageReq
  <2> QED
    BY <1>1, <1>3, <2>1, <2>2 DEF Request
<1> QED
    BY <1>2, <1>3

LEMMA NextPageInv == ASSUME ScanInv, NextPage PROVE ScanInv'
<1>1. TypeOK /\ PagesOK
    BY DEF ScanInv
<1>2. /\ scan = NoScan /\ since # NoPages /\ pages # <<>>
      /\ UNCHANGED <<db, late, pages, since, writes>>
    BY <1>1 DEF NextPage, PagesOK
<1>3. PICK req : req = PageReq
    OBVIOUS
<1>4. req \in Request /\ req.kind = "prefix"
    BY <1>1, <1>2, <1>3, PageReqType
<1>5. Open(req, PrefixRange(req.lo, req.hi))
    BY <1>2, <1>3 DEF NextPage, PageReq
<1>6. Proper(req) => \A k \in Keys : k \in PrefixRange(req.lo, req.hi) <=> db[k] # "none" /\ Asked(req, k)
    BY <1>4, PrefixAsked
<1>7. PrefixRange(req.lo, req.hi) \in SUBSET Keys
    BY RangesOfKeys
<1>8. /\ scan' \in Scans /\ scan' # NoScan /\ scan'.req = req /\ scan'.snap = db
      /\ ScanCorrect' /\ (scan'.late => late')
      /\ (Looping /\ Proper(scan.req) => LoopOK)'
    BY <1>1, <1>2, <1>4, <1>5, <1>6, <1>7, OpenOK
<1>9. TypeOK'
    BY <1>1, <1>2, <1>8 DEF TypeOK
<1>10. PagesOK'
  <2>1. PageReq' = req
    BY <1>2, <1>3 DEF PageReq
  <2> QED
    BY <1>1, <1>2, <1>8, <2>1 DEF PagesOK
<1> QED
    BY <1>8, <1>9, <1>10 DEF ScanInv
-----------------------------------------------------------------------------
(* The invariant: the loop *)

(* A scan in progress *)
LEMMA LoopType ==
    ASSUME TypeOK, scan # NoScan
    PROVE  /\ scan \in Scans /\ scan.req \in Request /\ scan.snap \in Contents
           /\ scan.todo \in SUBSET Keys /\ scan.out \in Seq(Keys) /\ scan.late \in BOOLEAN
           /\ scan.req.cap \in Nat /\ Len(scan.out) \in Nat /\ Returned = Elems(scan.out)
           /\ scan.pc \in {"loop", "done"}
<1>1. scan \in Scans
    BY DEF TypeOK
<1>2. /\ scan.req \in Request /\ scan.snap \in Contents
      /\ scan.todo \in SUBSET Keys /\ scan.out \in Seq(Keys) /\ scan.late \in BOOLEAN
      /\ scan.pc \in {"loop", "done"}
    BY <1>1 DEF Scans
<1> QED
    BY <1>1, <1>2, CapIsNat, LenProperties DEF Returned, Elems

(* A round of the loop takes the least key of what is left, and leaves the *)
(* rest of the scan alone but for its result                               *)
LEMMA RoundType ==
    ASSUME TypeOK, PagesOK, Looping, scan.todo # {}, NEW c, c = Cursor, NEW out \in Seq(Keys),
           scan' = [scan EXCEPT !.out = out, !.todo = @ \ {c}],
           UNCHANGED <<db, late, pages, since, writes>>
    PROVE  /\ TypeOK' /\ PagesOK' /\ ScanCorrect' /\ scan' # NoScan
           /\ scan'.pc = "loop" /\ scan'.req = scan.req /\ scan'.snap = scan.snap
           /\ scan'.late = scan.late /\ scan'.out = out /\ scan'.todo = scan.todo \ {c}
           /\ c \in scan.todo /\ \A j \in scan.todo : j = c \/ Less(c, j)
<1>1. scan # NoScan /\ scan.pc = "loop"
    BY DEF Looping
<1>2. scan \in Scans /\ scan.todo \in SUBSET Keys
    BY <1>1, LoopType
<1>3. /\ scan' \in Scans /\ scan'.pc = "loop" /\ scan'.req = scan.req /\ scan'.snap = scan.snap
      /\ scan'.late = scan.late /\ scan'.out = out /\ scan'.todo = scan.todo \ {c}
    BY <1>1, <1>2 DEF Scans
<1>4. scan' # NoScan
    BY <1>3 DEF NoScan
<1>5. TypeOK'
    BY <1>3 DEF TypeOK
<1>6. ScanCorrect'
    BY <1>3 DEF ScanCorrect
<1>7. PagesOK'
  <2>1. PageReq' = PageReq
    BY DEF PageReq
  <2> QED
    BY <1>1, <1>3, <1>4, <2>1 DEF PagesOK
<1>8. c \in scan.todo /\ \A j \in scan.todo : j = c \/ Less(c, j)
    BY <1>2, CursorLeast
<1> QED
    BY <1>3, <1>4, <1>5, <1>6, <1>7, <1>8

(* The key under the cursor comes after all that the result holds *)
LEMMA CursorAfter ==
    ASSUME TypeOK, Looping, LoopOK, NEW c \in scan.todo, \A j \in scan.todo : j = c \/ Less(c, j)
    PROVE  /\ c \in Keys /\ c \in InRange
           /\ \A k \in InRange \ scan.todo : Less(k, c)
           /\ \A r \in Elems(scan.out) : Less(r, c) /\ r \in InRange \ scan.todo
           /\ \A k \in InRange \ (scan.todo \ {c}), j \in scan.todo \ {c} : Less(k, j)
<1>1. scan.todo \in SUBSET Keys /\ Returned = Elems(scan.out)
    BY LoopType DEF Looping
<1>2. c \in Keys /\ c \in InRange /\ \A k \in InRange \ scan.todo : Less(k, c)
    BY <1>1 DEF LoopOK
<1>3. \A r \in Elems(scan.out) : r \in InRange \ scan.todo
    BY <1>1 DEF LoopOK
<1>4. ASSUME NEW k \in InRange \ (scan.todo \ {c}), NEW j \in scan.todo \ {c} PROVE Less(k, j)
    BY DEF LoopOK
<1> QED
    BY <1>2, <1>3, <1>4

LEMMA VisitInv == ASSUME ScanInv, Visit PROVE ScanInv'
<1>1. /\ TypeOK /\ PagesOK /\ (scan # NoScan => (scan.late => late))
      /\ Looping /\ scan # NoScan /\ scan.pc = "loop" /\ scan.todo # {} /\ scan.req.kind # "rev"
      /\ Len(scan.out) < scan.req.cap
      /\ UNCHANGED <<db, late, pages, since, writes>>
      /\ (Proper(scan.req) => LoopOK)
    BY DEF ScanInv, Visit, Looping
<1>2. PICK c : c = Cursor
    OBVIOUS
<1>3. PICK keep \in BOOLEAN : keep <=> Kept(scan.snap[c], late)
    OBVIOUS
<1>4. PICK out : out = IF keep THEN Append(scan.out, c) ELSE scan.out
    OBVIOUS
<1>5. /\ scan.todo \in SUBSET Keys /\ scan.out \in Seq(Keys) /\ scan.req.cap \in Nat
      /\ Len(scan.out) \in Nat /\ Returned = Elems(scan.out) /\ scan.late \in BOOLEAN
    BY <1>1, LoopType
<1>6. c \in scan.todo
    BY <1>1, <1>2, <1>5, CursorLeast
<1>7. out \in Seq(Keys)
    BY <1>4, <1>5, <1>6, AppendProperties
<1>8. scan' = [scan EXCEPT !.out = out, !.todo = @ \ {c}]
    BY <1>2, <1>3, <1>4 DEF Visit
<1>9. /\ TypeOK' /\ PagesOK' /\ ScanCorrect' /\ scan' # NoScan
      /\ scan'.pc = "loop" /\ scan'.req = scan.req /\ scan'.snap = scan.snap
      /\ scan'.late = scan.late /\ scan'.out = out /\ scan'.todo = scan.todo \ {c}
      /\ \A j \in scan.todo : j = c \/ Less(c, j)
    BY <1>1, <1>2, <1>7, <1>8, RoundType
<1>10. ASSUME Proper(scan.req) PROVE LoopOK'
  <2>1. LoopOK
    BY <1>1, <1>10
  <2>2. /\ c \in Keys /\ c \in InRange /\ (\A r \in Elems(scan.out) : Less(r, c) /\ r \in InRange \ scan.todo)
        /\ \A k \in InRange \ (scan.todo \ {c}), j \in scan.todo \ {c} : Less(k, j)
    BY <1>1, <1>6, <1>9, <2>1, CursorAfter
  <2>3. InRange' = InRange /\ Returned' = Elems(out)
    BY <1>9 DEF InRange, Returned, Elems
  <2>4. /\ Ordered(scan.out, FALSE)
        /\ \A r \in Elems(scan.out) : Kept(scan.snap[r], scan.late)
        /\ \A k \in (InRange \ scan.todo) \ Elems(scan.out) : ~ Kept(scan.snap[k], late)
    BY <1>1, <1>5, <2>1 DEF LoopOK
  <2>5. \A r \in Elems(scan.out) : Less(r, c)
    BY <2>2
  <2>6. /\ Ordered(out, FALSE) /\ Len(out) <= scan.req.cap
        /\ Elems(out) = IF keep THEN Elems(scan.out) \cup {c} ELSE Elems(scan.out)
    <3>1. CASE keep
      <4>1. /\ Len(Append(scan.out, c)) = Len(scan.out) + 1
            /\ Ordered(Append(scan.out, c), FALSE) /\ Elems(Append(scan.out, c)) = Elems(scan.out) \cup {c}
        BY <1>5, <2>2, <2>4, <2>5, AppendOut
      <4>2. Len(scan.out) + 1 <= scan.req.cap
        BY <1>1, <1>5
      <4> QED
        BY <1>4, <3>1, <4>1, <4>2
    <3>2. CASE ~ keep
      <4>1. out = scan.out
        BY <1>4, <3>2
      <4>2. Len(scan.out) <= scan.req.cap
        BY <1>1, <1>5
      <4> QED
        BY <2>4, <3>2, <4>1, <4>2
    <3> QED
      BY <3>1, <3>2
  <2>7. \A r \in Elems(out) : r \in InRange \ (scan.todo \ {c}) /\ Kept(scan.snap[r], scan.late)
    <3>1. keep => Kept(scan.snap[c], scan.late)
      BY <1>1, <1>3 DEF Kept
    <3>2. \A r \in Elems(scan.out) : r \in InRange \ (scan.todo \ {c}) /\ Kept(scan.snap[r], scan.late)
      BY <2>2, <2>4
    <3>3. c \in InRange \ (scan.todo \ {c})
      BY <2>2
    <3> QED
      BY <2>6, <3>1, <3>2, <3>3
  <2>8. \A k \in (InRange \ (scan.todo \ {c})) \ Elems(out) : ~ Kept(scan.snap[k], late)
    BY <1>3, <2>4, <2>6
  <2>9. scan.todo \ {c} \subseteq InRange
    BY <2>1 DEF LoopOK
  <2> QED
    BY <1>1, <1>9, <2>2, <2>3, <2>6, <2>7, <2>8, <2>9 DEF LoopOK
<1> QED
    BY <1>1, <1>9, <1>10 DEF ScanInv

(* The window: what a round of the reverse scan keeps of the result so far *)
LEMMA WindowOut ==
    ASSUME NEW s \in Seq(Keys), NEW cap \in Nat, Ordered(s, FALSE), NEW w,
           w = IF Len(s) >= cap /\ s # <<>> THEN Tail(s) ELSE s
    PROVE  /\ w \in Seq(Keys) /\ Ordered(w, FALSE) /\ Elems(w) \subseteq Elems(s)
           /\ Len(w) \in Nat /\ (Len(s) >= cap => Len(w) + 1 >= cap)
           /\ (cap > 0 /\ Len(s) <= cap => Len(w) + 1 <= cap)
           /\ \A x \in Elems(s) \ Elems(w) : Len(s) >= cap /\ \A r \in Elems(w) : Less(x, r)
<1>1. Len(s) \in Nat
    BY LenProperties
<1>2. CASE Len(s) >= cap /\ s # <<>>
  <2>1. w = Tail(s)
    BY <1>2
  <2>2. /\ w \in Seq(Keys) /\ Len(w) = Len(s) - 1 /\ Len(s) > 0
        /\ Ordered(w, FALSE) /\ Elems(w) \subseteq Elems(s)
        /\ \A x \in Elems(s) \ Elems(w) : \A r \in Elems(w) : Less(x, r)
    BY <1>2, <2>1, TailOut
  <2>3. Len(w) \in Nat /\ (Len(s) >= cap => Len(w) + 1 >= cap) /\ (Len(s) <= cap => Len(w) + 1 <= cap)
    BY <1>1, <2>2
  <2> QED
    BY <1>2, <2>2, <2>3
<1>3. CASE ~ (Len(s) >= cap /\ s # <<>>)
  <2>1. w = s
    BY <1>3
  <2>2. Len(s) < cap \/ Len(s) = 0
    BY <1>1, <1>3, EmptyOut
  <2>3. (Len(s) >= cap => Len(s) + 1 >= cap) /\ (cap > 0 /\ Len(s) <= cap => Len(s) + 1 <= cap)
    BY <1>1, <2>2
  <2> QED
    BY <1>1, <2>1, <2>3
<1> QED
    BY <1>2, <1>3

LEMMA VisitRevInv == ASSUME ScanInv, VisitRev PROVE ScanInv'
<1>1. /\ TypeOK /\ PagesOK /\ (scan # NoScan => (scan.late => late))
      /\ Looping /\ scan # NoScan /\ scan.pc = "loop" /\ scan.todo # {} /\ scan.req.kind = "rev"
      /\ UNCHANGED <<db, late, pages, since, writes>>
      /\ (Proper(scan.req) => LoopOK)
    BY DEF ScanInv, VisitRev, Looping
<1>2. PICK c : c = Cursor
    OBVIOUS
<1>3. PICK keep \in BOOLEAN : keep <=> Kept(scan.snap[c], late)
    OBVIOUS
<1>4. PICK w : w = IF Len(scan.out) >= scan.req.cap /\ scan.out # <<>> THEN Tail(scan.out) ELSE scan.out
    OBVIOUS
<1>5. PICK out : out = IF keep THEN Append(w, c) ELSE scan.out
    OBVIOUS
<1>6. /\ scan.todo \in SUBSET Keys /\ scan.out \in Seq(Keys) /\ scan.req.cap \in Nat
      /\ Len(scan.out) \in Nat /\ Returned = Elems(scan.out) /\ scan.late \in BOOLEAN
    BY <1>1, LoopType
<1>7. c \in scan.todo
    BY <1>1, <1>2, <1>6, CursorLeast
<1>8. out \in Seq(Keys)
  <2>1. w \in Seq(Keys)
    BY <1>4, <1>6, HeadTailProperties
  <2> QED
    BY <1>5, <1>6, <1>7, <2>1, AppendProperties
<1>9. scan' = [scan EXCEPT !.out = out, !.todo = @ \ {c}]
    BY <1>2, <1>3, <1>4, <1>5 DEF VisitRev
<1>10. /\ TypeOK' /\ PagesOK' /\ ScanCorrect' /\ scan' # NoScan
       /\ scan'.pc = "loop" /\ scan'.req = scan.req /\ scan'.snap = scan.snap
       /\ scan'.late = scan.late /\ scan'.out = out /\ scan'.todo = scan.todo \ {c}
       /\ \A j \in scan.todo : j = c \/ Less(c, j)
    BY <1>1, <1>2, <1>8, <1>9, RoundType
<1>11. ASSUME Proper(scan.req) PROVE LoopOK'
  <2>1. LoopOK
    BY <1>1, <1>11
  <2>2. /\ c \in Keys /\ c \in InRange /\ (\A k \in InRange \ scan.todo : Less(k, c))
        /\ (\A r \in Elems(scan.out) : Less(r, c) /\ r \in InRange \ scan.todo)
        /\ \A k \in InRange \ (scan.todo \ {c}), j \in scan.todo \ {c} : Less(k, j)
    BY <1>1, <1>7, <1>10, <2>1, CursorAfter
  <2>3. InRange' = InRange /\ Returned' = Elems(out)
    BY <1>10 DEF InRange, Returned, Elems
  <2>4. /\ Ordered(scan.out, FALSE) /\ (scan.req.cap > 0 => Len(scan.out) <= scan.req.cap)
        /\ (\A r \in Elems(scan.out) : Kept(scan.snap[r], scan.late))
        /\ \A k \in (InRange \ scan.todo) \ Elems(scan.out) : Kept(scan.snap[k], late) =>
              Len(scan.out) >= scan.req.cap /\ \A r \in Elems(scan.out) : Less(k, r)
    BY <1>1, <1>6, <2>1 DEF LoopOK
  <2>5. scan.todo \ {c} \subseteq InRange
    BY <2>1 DEF LoopOK
  <2>6. /\ Ordered(out, FALSE)
        /\ \A r \in Elems(out) : r \in InRange \ (scan.todo \ {c}) /\ Kept(scan.snap[r], scan.late)
        /\ (scan.req.cap > 0 => Len(out) <= scan.req.cap)
        /\ \A k \in (InRange \ (scan.todo \ {c})) \ Elems(out) : Kept(scan.snap[k], late) =>
              Len(out) >= scan.req.cap /\ \A r \in Elems(out) : Less(k, r)
    <3>1. CASE ~ keep
      <4>1. out = scan.out
        BY <1>5, <3>1
      <4>2. ~ Kept(scan.snap[c], late)
        BY <1>3, <3>1
      <4>3. \A k \in (InRange \ (scan.todo \ {c})) \ Elems(out) : Kept(scan.snap[k], late) =>
              k \in (InRange \ scan.todo) \ Elems(scan.out)
        BY <4>1, <4>2
      <4>4. \A r \in Elems(scan.out) : r \in InRange \ (scan.todo \ {c}) /\ Kept(scan.snap[r], scan.late)
        BY <2>2, <2>4
      <4>5. \A k \in (InRange \ (scan.todo \ {c})) \ Elems(out) : Kept(scan.snap[k], late) =>
              Len(out) >= scan.req.cap /\ \A r \in Elems(out) : Less(k, r)
        BY <2>4, <4>1, <4>3
      <4> QED
        BY <2>4, <4>1, <4>4, <4>5
    <3>2. CASE keep
      <4>1. out = Append(w, c) /\ Kept(scan.snap[c], scan.late)
        BY <1>1, <1>3, <1>5, <3>2 DEF Kept
      <4>2. /\ w \in Seq(Keys) /\ Ordered(w, FALSE) /\ Elems(w) \subseteq Elems(scan.out)
            /\ Len(w) \in Nat /\ (Len(scan.out) >= scan.req.cap => Len(w) + 1 >= scan.req.cap)
            /\ (scan.req.cap > 0 /\ Len(scan.out) <= scan.req.cap => Len(w) + 1 <= scan.req.cap)
            /\ \A x \in Elems(scan.out) \ Elems(w) :
                  Len(scan.out) >= scan.req.cap /\ \A r \in Elems(w) : Less(x, r)
        <5>1. PICK s \in Seq(Keys) : s = scan.out
          BY <1>6
        <5>2. PICK cap \in Nat : cap = scan.req.cap
          BY <1>6
        <5>3. Ordered(s, FALSE) /\ w = IF Len(s) >= cap /\ s # <<>> THEN Tail(s) ELSE s
          BY <1>4, <2>4, <5>1, <5>2
        <5>4. /\ w \in Seq(Keys) /\ Ordered(w, FALSE) /\ Elems(w) \subseteq Elems(s)
              /\ Len(w) \in Nat /\ (Len(s) >= cap => Len(w) + 1 >= cap)
              /\ (cap > 0 /\ Len(s) <= cap => Len(w) + 1 <= cap)
              /\ \A x \in Elems(s) \ Elems(w) : Len(s) >= cap /\ \A r \in Elems(w) : Less(x, r)
          BY <5>3, WindowOut
        <5> QED
          BY <5>1, <5>2, <5>4
      <4>3. \A x \in Elems(w) : Less(x, c)
        BY <2>2, <4>2
      <4>4. /\ Len(out) = Len(w) + 1 /\ Ordered(out, FALSE) /\ Elems(out) = Elems(w) \cup {c}
        BY <2>2, <4>1, <4>2, <4>3, AppendOut
      <4>5. \A r \in Elems(out) : r \in InRange \ (scan.todo \ {c}) /\ Kept(scan.snap[r], scan.late)
        <5>1. \A r \in Elems(scan.out) : r \in InRange \ (scan.todo \ {c}) /\ Kept(scan.snap[r], scan.late)
          BY <2>2, <2>4
        <5>2. c \in InRange \ (scan.todo \ {c})
          BY <2>2
        <5> QED
          BY <4>1, <4>2, <4>4, <5>1, <5>2
      <4>6. ASSUME NEW k \in (InRange \ (scan.todo \ {c})) \ Elems(out), Kept(scan.snap[k], late)
            PROVE  Len(out) >= scan.req.cap /\ \A r \in Elems(out) : Less(k, r)
        <5>1. k # c /\ k \in InRange \ scan.todo /\ k \notin Elems(w) /\ Less(k, c)
          BY <2>2, <4>4, <4>6
        <5>2. Len(scan.out) >= scan.req.cap /\ \A r \in Elems(w) : Less(k, r)
          <6>1. CASE k \in Elems(scan.out)
            BY <4>2, <5>1, <6>1
          <6>2. CASE k \notin Elems(scan.out)
            BY <2>4, <4>2, <4>6, <5>1, <6>2
          <6> QED
            BY <6>1, <6>2
        <5> QED
          BY <4>2, <4>4, <5>1, <5>2
      <4> QED
        BY <2>4, <4>2, <4>4, <4>5, <4>6
    <3> QED
      BY <3>1, <3>2
  <2> QED
    BY <1>1, <1>10, <2>2, <2>3, <2>5, <2>6 DEF LoopOK
<1> QED
    BY <1>1, <1>10, <1>11 DEF ScanInv

LEMMA FinishInv == ASSUME ScanInv, Finish PROVE ScanInv'
<1>1. /\ TypeOK /\ PagesOK /\ (scan # NoScan => (scan.late => late))
      /\ Looping /\ scan # NoScan /\ scan.pc = "loop"
      /\ (scan.todo = {} \/ (scan.req.kind # "rev" /\ Len(scan.out) >= scan.req.cap))
      /\ UNCHANGED <<db, late, pages, since, writes>>
      /\ (Proper(scan.req) => LoopOK)
    BY DEF ScanInv, Finish, Looping
<1>2. /\ scan \in Scans /\ scan.todo \in SUBSET Keys /\ scan.out \in Seq(Keys)
      /\ scan.req.cap \in Nat /\ Len(scan.out) \in Nat /\ Returned = Elems(scan.out)
    BY <1>1, LoopType
<1>3. PICK out : out = IF scan.req.kind = "rev" THEN Reverse(scan.out) ELSE scan.out
    OBVIOUS
<1>4. scan' = [scan EXCEPT !.pc = "done", !.out = out]
    BY <1>3 DEF Finish
<1>5. out \in Seq(Keys)
  <2>1. Reverse(scan.out) \in Seq(Keys)
    <3>1. PICK s : s = scan.out
      OBVIOUS
    <3>2. /\ s \in Seq(Keys) /\ Len(s) \in Nat /\ DOMAIN s = 1 .. Len(s)
      BY <1>2, <3>1, LenProperties
    <3>3. \A i \in 1 .. Len(s) : Len(s) - i + 1 \in 1 .. Len(s)
      BY <3>2
    <3>4. \A i \in 1 .. Len(s) : s[Len(s) - i + 1] \in Keys
      BY <3>2, <3>3, ElementOfSeq
    <3>5. Reverse(s) \in [1 .. Len(s) -> Keys]
      BY <3>4 DEF Reverse
    <3> QED
      BY <3>1, <3>2, <3>5, SeqDef
  <2> QED
    BY <1>2, <1>3, <2>1
<1>6. /\ scan' \in Scans /\ scan'.pc = "done" /\ scan'.req = scan.req /\ scan'.snap = scan.snap
      /\ scan'.late = scan.late /\ scan'.out = out
    BY <1>1, <1>2, <1>4, <1>5 DEF Scans
<1>7. scan' # NoScan
    BY <1>6 DEF NoScan
<1>8. TypeOK'
    BY <1>1, <1>6 DEF TypeOK
<1>9. PagesOK'
  <2>1. PageReq' = PageReq
    BY <1>1 DEF PageReq
  <2> QED
    BY <1>1, <1>6, <1>7, <2>1 DEF PagesOK
<1>10. ASSUME Proper(scan.req) PROVE ScanCorrect'
  <2>1. LoopOK
    BY <1>1, <1>10
  <2>2. /\ Len(out) = Len(scan.out) /\ Elems(out) = Elems(scan.out)
        /\ Ordered(out, scan.req.kind = "rev")
    <3>1. Ordered(scan.out, FALSE)
      BY <2>1 DEF LoopOK
    <3>2. CASE scan.req.kind = "rev"
      <4>1. Ordered(out, TRUE) /\ Len(out) = Len(scan.out) /\ Elems(out) = Elems(scan.out)
        BY <1>2, <1>3, <3>1, <3>2, ReverseOut
      <4> QED
        BY <3>2, <4>1 DEF Ordered
    <3>3. CASE scan.req.kind # "rev"
      BY <1>3, <3>1, <3>3 DEF Ordered
    <3> QED
      BY <3>2, <3>3
  <2>3. Returned' = Elems(scan.out)
    BY <1>6, <2>2 DEF Returned, Elems
  <2>4. \A r \in Elems(scan.out) : r \in Keys /\ Asked(scan.req, r) /\ Kept(scan.snap[r], scan.late)
    BY <1>2, <2>1 DEF LoopOK, InRange
  <2>5. scan.req.cap > 0 => Len(out) <= scan.req.cap
    BY <2>1, <2>2 DEF LoopOK
  <2>6. ASSUME NEW k \in Keys, Asked(scan.req, k), Kept(scan.snap[k], late), k \notin Elems(scan.out)
        PROVE  /\ Len(out) >= scan.req.cap
               /\ \A r \in Elems(scan.out) : IF scan.req.kind = "rev" THEN Less(k, r) ELSE Less(r, k)
    <3>1. k \in InRange
      BY <2>6 DEF InRange, Kept
    <3>2. CASE k \in scan.todo
      <4>1. scan.req.kind # "rev" /\ Len(scan.out) >= scan.req.cap
        BY <1>1, <3>2
      <4>2. \A r \in Elems(scan.out) : Less(r, k)
        BY <1>2, <2>1, <3>2 DEF LoopOK
      <4> QED
        BY <2>2, <4>1, <4>2
    <3>3. CASE k \notin scan.todo
      <4>1. k \in (InRange \ scan.todo) \ Returned
        BY <1>2, <2>6, <3>1, <3>3
      <4>2. scan.req.kind = "rev" /\ Len(scan.out) >= scan.req.cap /\ \A r \in Elems(scan.out) : Less(k, r)
        BY <1>2, <2>1, <2>6, <4>1 DEF LoopOK
      <4> QED
        BY <2>2, <4>2
    <3> QED
      BY <3>2, <3>3
  <2> QED
    BY <1>1, <1>6, <2>2, <2>3, <2>4, <2>5, <2>6 DEF ScanCorrect
<1>11. ScanCorrect'
    BY <1>6, <1>10 DEF ScanCorrect
<1>12. ~ Looping'
    BY <1>6 DEF Looping
<1> QED
    BY <1>1, <1>6, <1>8, <1>9, <1>11, <1>12 DEF ScanInv
-----------------------------------------------------------------------------
(* The invariant: pages *)

(* The key after which a page continues has the prefix: the page is proper *)
LEMMA PageReqProper ==
    ASSUME TypeOK, PagesOK, since # NoPages, Proper(since.req)
    PROVE  Proper(PageReq)
<1>1. since.req \in Request /\ since.req.kind = "prefix" /\ since.req.lo # <<>>
    BY PagingType DEF Proper
<1>2. /\ PageReq.kind = "prefix" /\ PageReq.lo = since.req.lo
      /\ PageReq.hi = IF pages = <<>> THEN since.req.hi ELSE Last(pages)
    BY PageReqType
<1>3. CASE pages = <<>>
    BY <1>3 DEF PageReq
<1>4. CASE pages # <<>>
  <2>1. Last(pages) \in Keys /\ Len(pages) \in DOMAIN pages /\ Last(pages) = pages[Len(pages)]
    BY <1>4, LastPage DEF TypeOK
  <2>2. Asked(since.req, Last(pages))
    BY <2>1 DEF PagesOK
  <2>3. IsPrefix(since.req.lo, Last(pages))
    BY <1>1, <2>2 DEF Asked
  <2>4. ~ Less(Last(pages), since.req.lo)
    BY <1>1, <2>1, <2>3, ReqStrings, KeysAreStrings, NextPrefixCloses
  <2> QED
    BY <1>1, <1>2, <1>4, <2>4 DEF Proper
<1> QED
    BY <1>3, <1>4

(* What a page is asked for: keys the client asked for, after the last page *)
LEMMA PageAsked ==
    ASSUME TypeOK, PagesOK, since # NoPages, Proper(since.req), NEW k \in Keys
    PROVE  Asked(PageReq, k) <=> Asked(since.req, k) /\ (pages # <<>> => Less(Last(pages), k))
<1>1. since.req \in Request /\ since.req.kind = "prefix"
    BY PagingType
<1>2. /\ PageReq.kind = "prefix" /\ PageReq.lo = since.req.lo
      /\ PageReq.hi = IF pages = <<>> THEN since.req.hi ELSE Last(pages)
    BY PageReqType
<1>3. CASE pages = <<>>
    BY <1>3 DEF PageReq
<1>4. CASE pages # <<>>
  <2>1. Last(pages) \in Keys /\ Len(pages) \in DOMAIN pages /\ Last(pages) = pages[Len(pages)]
    BY <1>4, LastPage DEF TypeOK
  <2>2. Asked(since.req, Last(pages))
    BY <2>1 DEF PagesOK
  <2>3. PICK hi : hi = since.req.hi
    OBVIOUS
  <2>4. PICK last : last = Last(pages)
    OBVIOUS
  <2>5. /\ hi \in ByteStrings \cup {NoAfter} /\ last \in ByteStrings /\ k \in ByteStrings
        /\ last # NoAfter
    BY <1>1, <2>1, <2>3, <2>4, ReqStrings, KeysAreStrings, NoEndNoString
  <2>6. hi = NoAfter \/ Less(hi, last)
    BY <1>1, <2>2, <2>3, <2>4 DEF Asked
  <2>7. Less(last, k) => hi = NoAfter \/ Less(hi, k)
    BY <2>5, <2>6, LessTransitive
  <2>8. Asked(since.req, k) <=> IsPrefix(since.req.lo, k) /\ (hi = NoAfter \/ Less(hi, k))
    BY <1>1, <2>3 DEF Asked
  <2>9. Asked(PageReq, k) <=> IsPrefix(since.req.lo, k) /\ Less(last, k)
    BY <1>2, <1>4, <2>4, <2>5 DEF Asked
  <2> QED
    BY <1>4, <2>4, <2>7, <2>8, <2>9
<1> QED
    BY <1>3, <1>4

(* The pages and the page that is done *)
LEMMA PageJoin ==
    ASSUME ScanInv, scan # NoScan, scan.pc = "done", since # NoPages, Proper(since.req)
    PROVE  LET all == pages \o scan.out IN
           /\ all \in Seq(Keys) /\ Ordered(all, FALSE)
           /\ \A k \in Elems(all) : Asked(since.req, k)
           /\ \A k \in since.keys : Asked(since.req, k) /\ Kept(db[k], late) =>
                 k \in Elems(all) \/ (Len(scan.out) >= scan.req.cap /\ \A r \in Elems(scan.out) : Less(r, k))
           /\ scan.out # <<>> => all # <<>> /\ Last(all) \in Elems(scan.out)
<1>1. TypeOK /\ PagesOK /\ ScanCorrect
    BY DEF ScanInv
<1>2. /\ scan.out \in Seq(Keys) /\ Returned = Elems(scan.out) /\ pages \in Seq(Keys)
      /\ since.keys \in SUBSET Keys
    BY <1>1, LoopType, PagingType DEF TypeOK
<1>3. /\ scan.req = PageReq /\ PageReq.kind = "prefix" /\ Proper(PageReq)
      /\ (\A k \in since.keys : scan.snap[k] = db[k])
    BY <1>1, PageReqProper, PageReqType DEF PagesOK
<1>4. /\ Ordered(scan.out, FALSE)
      /\ \A k \in Elems(scan.out) : Asked(PageReq, k)
      /\ \A k \in Keys : Asked(PageReq, k) /\ Kept(scan.snap[k], late) /\ k \notin Elems(scan.out) =>
            Len(scan.out) >= scan.req.cap /\ \A r \in Elems(scan.out) : Less(r, k)
  <2>1. Ordered(scan.out, scan.req.kind = "rev")
    BY <1>1, <1>3 DEF ScanCorrect
  <2>2. Ordered(scan.out, FALSE)
    BY <1>3, <2>1 DEF Ordered
  <2>3. \A k \in Elems(scan.out) : Asked(PageReq, k)
    BY <1>1, <1>2, <1>3 DEF ScanCorrect
  <2>4. ASSUME NEW k \in Keys, Asked(PageReq, k), Kept(scan.snap[k], late), k \notin Elems(scan.out)
        PROVE  Len(scan.out) >= scan.req.cap /\ \A r \in Elems(scan.out) : Less(r, k)
    BY <1>1, <1>2, <1>3, <2>4 DEF ScanCorrect
  <2> QED
    BY <2>2, <2>3, <2>4
<1>5. \A k \in Elems(scan.out) : k \in Keys
    BY <1>2, ElementOfSeq, LenProperties DEF Elems
<1>6. \A k \in Elems(scan.out) : Asked(since.req, k) /\ (pages # <<>> => Less(Last(pages), k))
    BY <1>1, <1>4, <1>5, PageAsked
<1>7. Ordered(pages, FALSE) /\ \A k \in Elems(pages) : Asked(since.req, k)
    BY <1>1 DEF PagesOK, Elems
<1>8. /\ pages \o scan.out \in Seq(Keys) /\ Ordered(pages \o scan.out, FALSE)
      /\ Elems(pages \o scan.out) = Elems(pages) \cup Elems(scan.out)
      /\ scan.out # <<>> => /\ pages \o scan.out # <<>>
                            /\ Last(pages \o scan.out) = Last(scan.out) /\ Last(scan.out) \in Elems(scan.out)
    BY <1>2, <1>4, <1>6, <1>7, JoinOut
<1>9. ASSUME NEW k \in since.keys, Asked(since.req, k), Kept(db[k], late)
      PROVE  \/ k \in Elems(pages) \cup Elems(scan.out)
             \/ Len(scan.out) >= scan.req.cap /\ \A r \in Elems(scan.out) : Less(r, k)
  <2>1. k \in Elems(pages) \/ (pages # <<>> => Less(Last(pages), k))
    BY <1>1, <1>9 DEF PagesOK, Elems
  <2>2. CASE k \notin Elems(pages)
    <3>1. Asked(PageReq, k) /\ Kept(scan.snap[k], late)
      BY <1>1, <1>2, <1>3, <1>9, <2>1, <2>2, PageAsked
    <3> QED
      BY <1>2, <1>4, <3>1
  <2> QED
    BY <2>2
<1> QED
    BY <1>6, <1>7, <1>8, <1>9

LEMMA TakeInv == ASSUME ScanInv, Take PROVE ScanInv'
<1>1. /\ TypeOK /\ PagesOK /\ scan # NoScan /\ scan.pc = "done" /\ scan' = NoScan
      /\ UNCHANGED <<db, late, writes>>
    BY DEF ScanInv, Take
<1>2. ScanCorrect' /\ ~ Looping'
    BY <1>1 DEF ScanCorrect, Looping
<1>3. CASE since # NoPages /\ MayBeTruncated
  <2>1. pages' = pages \o scan.out /\ since' = since /\ scan.out # <<>>
    BY <1>3 DEF Take, MayBeTruncated
  <2>2. pages' \in Seq(Keys) /\ pages' # <<>>
    <3>1. scan.out \in Seq(Keys) /\ pages \in Seq(Keys)
      BY <1>1, LoopType DEF TypeOK
    <3>2. pages \o scan.out \in Seq(Keys) /\ Len(pages \o scan.out) = Len(pages) + Len(scan.out)
      BY <3>1, ConcatProperties
    <3>3. Len(pages) \in Nat /\ Len(scan.out) \in Nat /\ Len(scan.out) # 0
      BY <2>1, <3>1, LenProperties, EmptySeq
    <3>4. Len(pages \o scan.out) # 0
      BY <3>2, <3>3
    <3>5. pages \o scan.out # <<>>
      BY <3>4, EmptyOut
    <3> QED
      BY <2>1, <3>2, <3>5
  <2>3. TypeOK'
    BY <1>1, <2>1, <2>2 DEF TypeOK
  <2>4. ASSUME Proper(since.req)
        PROVE  /\ Ordered(pages', FALSE)
               /\ \A i \in DOMAIN pages' : Asked(since.req, pages'[i])
               /\ \A k \in since.keys : Asked(since.req, k) /\ Kept(db[k], late)
                     => Less(Last(pages'), k) \/ \E i \in DOMAIN pages' : pages'[i] = k
    <3>1. PICK all : all = pages \o scan.out
      OBVIOUS
    <3>2. /\ Ordered(all, FALSE)
          /\ \A k \in Elems(all) : Asked(since.req, k)
          /\ \A k \in since.keys : Asked(since.req, k) /\ Kept(db[k], late) =>
                k \in Elems(all) \/ (Len(scan.out) >= scan.req.cap /\ \A r \in Elems(scan.out) : Less(r, k))
          /\ Last(all) \in Elems(scan.out)
      BY <1>1, <1>3, <2>1, <2>4, <3>1, PageJoin
    <3>3. \A i \in DOMAIN all : Asked(since.req, all[i])
      BY <3>2 DEF Elems
    <3>4. \A k \in since.keys : Asked(since.req, k) /\ Kept(db[k], late)
             => Less(Last(all), k) \/ \E i \in DOMAIN all : all[i] = k
      BY <3>2 DEF Elems
    <3>5. pages' = all
      BY <2>1, <3>1
    <3> QED
      BY <3>2, <3>3, <3>4, <3>5
  <2>5. PagesOK'
    BY <1>1, <1>3, <2>1, <2>2, <2>4 DEF PagesOK
  <2> QED
    BY <1>1, <1>2, <2>3, <2>5 DEF ScanInv
<1>4. CASE ~ (since # NoPages /\ MayBeTruncated)
  <2>1. pages' = <<>> /\ since' = NoPages
    BY <1>4 DEF Take
  <2>2. TypeOK'
    BY <1>1, <2>1, EmptyOut DEF TypeOK
  <2>3. PagesOK'
    BY <2>1 DEF PagesOK
  <2> QED
    BY <1>1, <1>2, <2>2, <2>3 DEF ScanInv
<1> QED
    BY <1>3, <1>4
-----------------------------------------------------------------------------
(* The invariant: what happens meanwhile *)

LEMMA SameLoop ==
    ASSUME UNCHANGED <<scan, late>>, Looping /\ Proper(scan.req) => LoopOK
    PROVE  (Looping /\ Proper(scan.req) => LoopOK)'
<1>1. scan' = scan /\ late' = late
    OBVIOUS
<1>2. InRange' = InRange /\ Returned' = Returned /\ (Looping' <=> Looping)
    BY <1>1 DEF InRange, Returned, Looping
<1>3. LoopOK => LoopOK'
    BY <1>1, <1>2 DEF LoopOK
<1> QED
    BY <1>1, <1>2, <1>3

LEMMA WriteInv ==
    ASSUME ScanInv, NEW k \in Keys, NEW v \in {"raw", "ttl", "none"}, Write(k, v)
    PROVE  ScanInv'
<1>1. /\ TypeOK /\ PagesOK /\ since # NoPages /\ writes < MaxWrites /\ writes' = writes + 1
      /\ db' = [db EXCEPT ![k] = v] /\ since' = [since EXCEPT !.keys = @ \ {k}]
      /\ UNCHANGED <<late, scan, pages>>
    BY DEF ScanInv, Write
<1>2. since \in [keys : SUBSET Keys, req : Request] /\ since.req.kind = "prefix" /\ since.keys \in SUBSET Keys
    BY <1>1, PagingType
<1>3. since'.keys = since.keys \ {k} /\ since'.req = since.req /\ since' \in [keys : SUBSET Keys, req : Request]
    BY <1>1, <1>2
<1>4. since' # NoPages
    BY <1>2, <1>3 DEF NoPages
<1>5. \A j \in since'.keys : j \in since.keys /\ db'[j] = db[j]
    BY <1>1, <1>2, <1>3 DEF TypeOK, Contents
<1>6. TypeOK'
  <2>1. db' \in Contents
    BY <1>1 DEF TypeOK, Contents
  <2>2. writes' \in 0 .. MaxWrites
    BY <1>1, ScanAssumption DEF TypeOK
  <2> QED
    BY <1>1, <1>3, <2>1, <2>2 DEF TypeOK
<1>7. PageReq' = PageReq
    BY <1>1, <1>3 DEF PageReq
<1>8. PagesOK'
    BY <1>1, <1>3, <1>4, <1>5, <1>7 DEF PagesOK
<1>9. ScanCorrect'
    BY <1>1 DEF ScanInv, ScanCorrect, Returned
<1>10. (scan # NoScan => (scan.late => late))'
    BY <1>1 DEF ScanInv
<1>11. (Looping /\ Proper(scan.req) => LoopOK)'
    BY <1>1, SameLoop DEF ScanInv
<1> QED
    BY <1>6, <1>8, <1>9, <1>10, <1>11 DEF ScanInv

LEMMA ExpireInv == ASSUME ScanInv, Expire PROVE ScanInv'
<1>1. TypeOK /\ PagesOK /\ ScanCorrect /\ late' = TRUE /\ UNCHANGED <<db, scan, pages, since, writes>>
    BY DEF ScanInv, Expire
<1>2. TypeOK'
    BY <1>1 DEF TypeOK
<1>3. \A v : Kept(v, late') => Kept(v, late)
    BY <1>1 DEF Kept
<1>4. PageReq' = PageReq /\ InRange' = InRange /\ Returned' = Returned
    BY <1>1 DEF PageReq, InRange, Returned
<1>5. PagesOK'
    BY <1>1, <1>3, <1>4 DEF PagesOK
<1>6. ScanCorrect'
    BY <1>1, <1>3, <1>4 DEF ScanCorrect
<1>7. (Looping /\ Proper(scan.req) => LoopOK)'
  <2> SUFFICES ASSUME Looping, Proper(scan.req) PROVE LoopOK'
    BY <1>1 DEF Looping
  <2>1. LoopOK
    BY DEF ScanInv
  <2> QED
    BY <1>1, <1>3, <1>4, <2>1 DEF LoopOK
<1> QED
    BY <1>1, <1>2, <1>5, <1>6, <1>7 DEF ScanInv

LEMMA StutterInv == ASSUME ScanInv, UNCHANGED vars PROVE ScanInv'
<1>1. UNCHANGED <<db, late, scan, pages, since, writes>>
    BY DEF vars
<1>2. TypeOK' /\ PagesOK'
    BY <1>1 DEF ScanInv, TypeOK, PagesOK, PageReq
<1>3. ScanCorrect'
    BY <1>1 DEF ScanInv, ScanCorrect, Returned
<1>4. (scan # NoScan => (scan.late => late))'
    BY <1>1 DEF ScanInv
<1>5. (Looping /\ Proper(scan.req) => LoopOK)'
    BY <1>1, SameLoop DEF ScanInv
<1> QED
    BY <1>2, <1>3, <1>4, <1>5 DEF ScanInv
-----------------------------------------------------------------------------
(* What the scans and the pages return *)

LEMMA InitInv == ASSUME Init PROVE ScanInv
<1>1. TypeOK
  <2>1. 0 \in 0 .. MaxWrites
    BY ScanAssumption
  <2> QED
    BY <2>1, EmptyOut DEF Init, TypeOK
<1>2. PagesOK
    BY DEF Init, PagesOK
<1>3. scan = NoScan
    BY DEF Init
<1> QED
    BY <1>1, <1>2, <1>3 DEF ScanInv, ScanCorrect, Looping

(* No step of a scan, of the client that pages, of a writer or of the      *)
(* clock disturbs the account that the loop state, the result and the      *)
(* pages give of each other (scan_range_core, scan_range_rev,              *)
(* scan_prefix_bounded).                                                   *)
THEOREM ScanInvariance == Spec => []ScanInv
<1>1. Init => ScanInv
    BY InitInv
<1>2. ScanInv /\ [Next]_vars => ScanInv'
  <2> SUFFICES ASSUME ScanInv, [Next]_vars PROVE ScanInv'
    OBVIOUS
  <2>1. CASE \E cap \in Caps : Start(cap)
    BY <2>1, ScanAllInv, ScanRangeInv, ScanPrefixInv DEF Start
  <2>2. CASE NextPage
    BY <2>2, NextPageInv
  <2>3. CASE Visit
    BY <2>3, VisitInv
  <2>4. CASE VisitRev
    BY <2>4, VisitRevInv
  <2>5. CASE Finish
    BY <2>5, FinishInv
  <2>6. CASE Take
    BY <2>6, TakeInv
  <2>7. CASE \E k \in Keys, v \in {"raw", "ttl", "none"} : Write(k, v)
    BY <2>7, WriteInv
  <2>8. CASE Expire
    BY <2>8, ExpireInv
  <2>9. CASE UNCHANGED vars
    BY <2>9, StutterInv
  <2> QED
    BY <2>1, <2>2, <2>3, <2>4, <2>5, <2>6, <2>7, <2>8, <2>9 DEF Next
<1> QED
    BY <1>1, <1>2, PTL DEF Spec

(* Type correctness of the scan state: of the transaction, the cursor and  *)
(* the result of a scan, and of a client's pages.                          *)
THEOREM TypeCorrect == Spec => []TypeOK
<1>1. ScanInv => TypeOK
    BY DEF ScanInv
<1> QED
    BY <1>1, ScanInvariance, PTL

(* Every scan of state_machine.rs, forward, reverse or by prefix, returns  *)
(* what its request asks for and leaves a live key out only when full, for *)
(* every set of keys, bounds and limits, while others write and entries    *)
(* expire.                                                                 *)
THEOREM ScansCorrect == Spec => []ScanCorrect
<1>1. ScanInv => ScanCorrect
    BY DEF ScanInv
<1> QED
    BY <1>1, ScanInvariance, PTL

(* The pages of scan_prefix, each after the last key of the one before,    *)
(* hold every key of the prefix that nobody wrote meanwhile and that has   *)
(* not expired, in order, whatever is written between the pages.           *)
THEOREM PagingComplete == Spec => []PagesComplete
<1>1. ScanInv => PagesComplete
  <2> SUFFICES ASSUME ScanInv, scan # NoScan, scan.pc = "done", since # NoPages, Proper(since.req),
                      Len(scan.out) < scan.req.cap
               PROVE  LET all == pages \o scan.out
                      IN  /\ Ordered(all, FALSE)
                          /\ \A k \in since.keys : Asked(since.req, k) /\ Kept(db[k], late)
                                => \E i \in DOMAIN all : all[i] = k
    BY DEF PagesComplete
  <2>1. PICK all : all = pages \o scan.out
    OBVIOUS
  <2>2. /\ Ordered(all, FALSE)
        /\ \A k \in since.keys : Asked(since.req, k) /\ Kept(db[k], late) =>
              k \in Elems(all) \/ (Len(scan.out) >= scan.req.cap /\ \A r \in Elems(scan.out) : Less(r, k))
    BY <2>1, PageJoin
  <2>3. ~ (Len(scan.out) >= scan.req.cap)
    <3>1. TypeOK
      BY DEF ScanInv
    <3>2. Len(scan.out) \in Nat /\ scan.req.cap \in Nat
      BY <3>1, LoopType
    <3> QED
      BY <3>2
  <2>4. \A k \in since.keys : Asked(since.req, k) /\ Kept(db[k], late) => \E i \in DOMAIN all : all[i] = k
    BY <2>2, <2>3 DEF Elems
  <2> QED
    BY <2>1, <2>2, <2>4
<1> QED
    BY <1>1, ScanInvariance, PTL
=============================================================================
