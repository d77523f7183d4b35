-------------------------- MODULE ColumnOrderProofs --------------------------
(***************************************************************************)
(* Proofs about ColumnOrder, for any characters, sizes and rows.           *)
(***************************************************************************)
EXTENDS SizeTextProofs, SequenceTheorems, WellFoundedInduction, TLAPS

-----------------------------------------------------------------------------
(* The order of a dictionary. *)

\* A set of natural numbers has a least element ...
LEMMA Least ==
  ASSUME NEW T \in SUBSET Nat, T # {}
  PROVE  \E x \in T : \A y \in T : x <= y
<1> DEFINE R == {ss \in Nat \X Nat : ss[1] < ss[2]}
<1>1. IsWellFoundedOn(R, Nat)
  BY NatLessThanWellFounded DEF OpToRel
<1>2. PICK x \in T : \A y \in T : <<y, x>> \notin R
  BY <1>1, WFMin
<1>3. \A y \in T : y < x => <<y, x>> \in R
  OBVIOUS
<1> HIDE DEF R
<1>4. ASSUME NEW y \in T PROVE x <= y
  <2>1. x \in Nat /\ y \in Nat
    OBVIOUS
  <2>2. ~(y < x)
    BY <1>2, <1>3
  <2> QED
    BY <2>1, <2>2
<1> QED
  BY <1>4

\* ... and a greatest one if it has a bound.
LEMMA Greatest ==
  ASSUME NEW T \in SUBSET Nat, T # {}, NEW n \in Nat, \A y \in T : y <= n
  PROVE  \E x \in T : \A y \in T : y <= x
<1> DEFINE D == {m \in Nat : \E y \in T : m = n - y}
<1>1. D # {}
  <2>1. PICK y \in T : TRUE
    OBVIOUS
  <2>2. n - y \in D
    BY <2>1
  <2> QED
    BY <2>2
<1>2. PICK m \in D : \A k \in D : m <= k
  BY <1>1, Least
<1>3. PICK x \in T : m = n - x
  OBVIOUS
<1>4. ASSUME NEW y \in T PROVE y <= x
  <2>1. y \in Nat /\ x \in Nat /\ n - y \in D
    OBVIOUS
  <2>2. n - x <= n - y
    BY <1>2, <1>3, <2>1
  <2> QED
    BY <2>1, <2>2
<1> QED
  BY <1>4

\* A name as the infinite sequence that ends in zeros, and the order of those sequences.
Padded(a, k) == IF k <= Len(a) THEN a[k] + 1 ELSE 0
FirstLess(a, b, k) == Padded(a, k) < Padded(b, k) /\ \A j \in 1 .. k - 1 : Padded(a, j) = Padded(b, j)
PaddedLess(a, b) == \E k \in Nat \ {0} : FirstLess(a, b, k)

LEMMA PaddedType == \A a \in Seq(Nat), k \in Nat \ {0} : Padded(a, k) \in Nat
BY ElementOfSeq DEF Padded

LEMMA PrefixProperties ==
  ASSUME NEW a \in Seq(Nat), NEW b \in Seq(Nat)
  PROVE  IsStrictPrefix(a, b) <=> Len(a) < Len(b) /\ \A i \in 1 .. Len(a) : a[i] = b[i]
<1>1. Len(a) \in Nat /\ Len(b) \in Nat
  BY LenProperties
<1>2. ASSUME Len(a) <= Len(b)
      PROVE  SubSeq(a, 1, Len(a)) = SubSeq(b, 1, Len(a)) <=> \A i \in 1 .. Len(a) : a[i] = b[i]
  BY <1>1, <1>2
<1>3. Len(a) = Len(b) /\ (\A i \in 1 .. Len(a) : a[i] = b[i]) => a = b
  BY SeqEqual
<1> QED
  BY <1>1, <1>2, <1>3 DEF IsStrictPrefix, IsPrefix

LEMMA LessIsPaddedLess ==
  ASSUME NEW a \in Seq(Nat), NEW b \in Seq(Nat)
  PROVE  Less(a, b) <=> PaddedLess(a, b)
<1>1. /\ Len(a) \in Nat /\ Len(b) \in Nat /\ DOMAIN a = 1 .. Len(a) /\ DOMAIN b = 1 .. Len(b)
      /\ \A i \in 1 .. Len(a) : a[i] \in Nat /\ Padded(a, i) = a[i] + 1
      /\ \A i \in 1 .. Len(b) : b[i] \in Nat /\ Padded(b, i) = b[i] + 1
      /\ \A k \in Nat : k > Len(a) => Padded(a, k) = 0
      /\ \A k \in Nat : k > Len(b) => Padded(b, k) = 0
  BY LenProperties, ElementOfSeq DEF Padded
<1>2. ASSUME NEW i \in DOMAIN a \cap DOMAIN b, a[i] < b[i], \A j \in 1 .. i - 1 : a[j] = b[j]
      PROVE  FirstLess(a, b, i)
  <2>1. i \in 1 .. Len(a) /\ i \in 1 .. Len(b)
    BY <1>1
  <2>2. ASSUME NEW j \in 1 .. i - 1 PROVE Padded(a, j) = Padded(b, j)
    <3>1. j \in 1 .. Len(a) /\ j \in 1 .. Len(b) /\ a[j] = b[j]
      BY <1>1, <1>2, <2>1
    <3> QED
      BY <1>1, <3>1
  <2> QED
    BY <1>1, <1>2, <2>1, <2>2 DEF FirstLess
<1>3. ASSUME IsStrictPrefix(a, b) PROVE FirstLess(a, b, Len(a) + 1)
  <2>1. Len(a) < Len(b) /\ \A i \in 1 .. Len(a) : a[i] = b[i]
    BY <1>3, PrefixProperties
  <2>2. ASSUME NEW j \in 1 .. (Len(a) + 1) - 1 PROVE Padded(a, j) = Padded(b, j)
    <3>1. j \in 1 .. Len(a) /\ j \in 1 .. Len(b)
      BY <1>1, <2>1
    <3> QED
      BY <1>1, <2>1, <3>1
  <2>3. Len(a) + 1 \in 1 .. Len(b)
    BY <1>1, <2>1
  <2>4. Padded(a, Len(a) + 1) < Padded(b, Len(a) + 1)
    <3>1. Padded(a, Len(a) + 1) = 0
      BY <1>1
    <3>2. Padded(b, Len(a) + 1) = b[Len(a) + 1] + 1 /\ b[Len(a) + 1] \in Nat
      BY <1>1, <2>3
    <3> QED
      BY <3>1, <3>2
  <2> QED
    BY <2>2, <2>4 DEF FirstLess
<1>4. ASSUME NEW k \in Nat \ {0}, FirstLess(a, b, k) PROVE Less(a, b)
  <2>1. k \in 1 .. Len(b)
    BY <1>1, <1>4, PaddedType DEF FirstLess
  <2>2. ASSUME NEW j \in 1 .. k - 1 PROVE j \in 1 .. Len(a) /\ a[j] = b[j]
    <3>1. Padded(a, j) = Padded(b, j)
      BY <1>4 DEF FirstLess
    <3>2. j \in 1 .. Len(b)
      BY <1>1, <2>1
    <3>3. b[j] \in Nat /\ Padded(b, j) = b[j] + 1
      BY <1>1, <3>2
    <3>4. Padded(a, j) # 0
      BY <3>1, <3>3
    <3>5. j \in 1 .. Len(a)
      BY <1>1, <3>2, <3>4
    <3> QED
      BY <1>1, <3>1, <3>3, <3>5
  <2>3. CASE k <= Len(a)
    <3>1. k \in DOMAIN a \cap DOMAIN b /\ a[k] < b[k]
      BY <1>1, <1>4, <2>1, <2>3 DEF FirstLess
    <3> QED
      BY <2>2, <3>1 DEF Less
  <2>4. CASE k > Len(a)
    <3>1. k = Len(a) + 1
      <4>1. CASE k - 1 > Len(a)
        <5>1. k - 1 \in 1 .. k - 1
          BY <1>1, <4>1
        <5> QED
          BY <1>1, <2>2, <4>1, <5>1
      <4> QED
        BY <1>1, <2>4, <4>1
    <3>2. \A j \in 1 .. Len(a) : a[j] = b[j]
      BY <1>1, <2>2, <3>1
    <3>3. Len(a) < Len(b)
      BY <1>1, <2>1, <3>1
    <3> QED
      BY <3>2, <3>3, PrefixProperties DEF Less
  <2> QED
    BY <1>1, <2>3, <2>4
<1>5. Less(a, b) => PaddedLess(a, b)
  <2>1. ASSUME NEW i \in DOMAIN a \cap DOMAIN b, a[i] < b[i], \A j \in 1 .. i - 1 : a[j] = b[j]
        PROVE  PaddedLess(a, b)
    BY <1>1, <1>2, <2>1 DEF PaddedLess
  <2>2. IsStrictPrefix(a, b) => PaddedLess(a, b)
    BY <1>1, <1>3 DEF PaddedLess
  <2> QED
    BY <2>1, <2>2 DEF Less
<1> QED
  BY <1>4, <1>5 DEF PaddedLess

\* The order of a dictionary is a strict weak order.
LEMMA LessIsAsymmetric ==
  ASSUME NEW a \in Seq(Nat), NEW b \in Seq(Nat)
  PROVE  ~(Less(a, b) /\ Less(b, a))
<1> SUFFICES ASSUME NEW k \in Nat \ {0}, NEW m \in Nat \ {0}, FirstLess(a, b, k), FirstLess(b, a, m)
             PROVE  FALSE
  BY LessIsPaddedLess DEF PaddedLess
<1> USE PaddedType DEF FirstLess
<1>1. CASE k < m
  BY <1>1
<1>2. CASE m < k
  BY <1>2
<1>3. CASE k = m
  BY <1>3
<1> QED
  BY <1>1, <1>2, <1>3

LEMMA LessIsWeak ==
  ASSUME NEW a \in Seq(Nat), NEW b \in Seq(Nat), NEW c \in Seq(Nat), Less(a, b)
  PROVE  Less(a, c) \/ Less(c, b)
<1>1. PICK k \in Nat \ {0} : FirstLess(a, b, k)
  BY LessIsPaddedLess DEF PaddedLess
<1>2. SUFFICES (\E m \in Nat \ {0} : FirstLess(a, c, m) \/ FirstLess(c, b, m))
  BY LessIsPaddedLess DEF PaddedLess
<1> DEFINE D == {j \in 1 .. k : Padded(a, j) # Padded(c, j)}
<1>3. CASE D = {}
  <2>1. \A j \in 1 .. k : Padded(a, j) = Padded(c, j)
    BY <1>3
  <2>2. FirstLess(c, b, k)
    BY <1>1, <2>1 DEF FirstLess
  <2> QED
    BY <2>2
<1>4. CASE D # {}
  <2>1. PICK m \in D : \A j \in D : m <= j
    <3>1. D \in SUBSET Nat
      OBVIOUS
    <3> QED
      BY <1>4, <3>1, Least
  <2>2. m \in 1 .. k /\ Padded(a, m) # Padded(c, m) /\ \A j \in 1 .. m - 1 : Padded(a, j) = Padded(c, j)
    BY <2>1
  <2>3. Padded(a, m) \in Nat /\ Padded(b, m) \in Nat /\ Padded(c, m) \in Nat
    BY <2>2, PaddedType
  <2>4. CASE Padded(a, m) < Padded(c, m)
    BY <2>2, <2>4 DEF FirstLess
  <2>5. CASE Padded(c, m) < Padded(a, m)
    <3>1. Padded(a, m) <= Padded(b, m)
      BY <1>1, <2>2, <2>3 DEF FirstLess
    <3>2. \A j \in 1 .. m - 1 : Padded(c, j) = Padded(b, j)
      BY <1>1, <2>2 DEF FirstLess
    <3>3. FirstLess(c, b, m)
      BY <2>3, <2>5, <3>1, <3>2 DEF FirstLess
    <3> QED
      BY <2>2, <3>3
  <2> QED
    BY <2>2, <2>3, <2>4, <2>5
<1> QED
  BY <1>3, <1>4

-----------------------------------------------------------------------------
(* compare. *)

\* The first `count` items of a come before those of b.
Precedes(a, b, count) == \E i \in 1 .. count : a[i] < b[i] /\ \A j \in 1 .. i - 1 : a[j] = b[j]
Agree(a, b, count) == \A i \in 1 .. count : a[i] = b[i]

\* The signs of _wcsnicmp.
LEMMA CompareFirstSigns ==
  ASSUME NEW a \in Seq(Nat), NEW b \in Seq(Nat), NEW count \in Nat, count <= Len(a), count <= Len(b)
  PROVE  \/ Agree(a, b, count) /\ CompareFirst(a, b, count) = 0
         \/ ~Agree(a, b, count) /\ Precedes(a, b, count) /\ CompareFirst(a, b, count) = -1
         \/ ~Agree(a, b, count) /\ Precedes(b, a, count) /\ CompareFirst(a, b, count) = 1
<1> DEFINE differ == {i \in 1 .. count : a[i] # b[i]}
<1>1. \A i \in 1 .. count : a[i] \in Nat /\ b[i] \in Nat
  BY LenProperties, ElementOfSeq
<1>2. CompareFirst(a, b, count) =
        IF differ = {} THEN 0
        ELSE IF a[CHOOSE i \in differ : \A j \in differ : i <= j] < b[CHOOSE i \in differ : \A j \in differ : i <= j]
             THEN -1 ELSE 1
  BY DEF CompareFirst
<1>3. CASE differ = {}
  BY <1>2, <1>3 DEF Agree
<1>4. CASE differ # {}
  <2> DEFINE i == CHOOSE i \in differ : \A j \in differ : i <= j
  <2>1. i \in differ /\ \A j \in differ : i <= j
    <3>1. differ \in SUBSET Nat
      OBVIOUS
    <3>2. \E n \in differ : \A j \in differ : n <= j
      BY <1>4, <3>1, Least
    <3> QED
      BY <3>2
  <2>2. CompareFirst(a, b, count) = IF a[i] < b[i] THEN -1 ELSE 1
    BY <1>2, <1>4
  <2> HIDE DEF i
  <2>3. i \in 1 .. count /\ a[i] # b[i] /\ \A j \in 1 .. i - 1 : a[j] = b[j]
    BY <2>1
  <2>4. a[i] \in Nat /\ b[i] \in Nat
    BY <1>1, <2>3
  <2>5. ~Agree(a, b, count)
    BY <2>3 DEF Agree
  <2>6. CASE a[i] < b[i]
    BY <2>2, <2>3, <2>5, <2>6 DEF Precedes
  <2>7. CASE b[i] < a[i]
    BY <2>2, <2>3, <2>4, <2>5, <2>7 DEF Precedes
  <2> QED
    BY <2>3, <2>4, <2>6, <2>7
<1> QED
  BY <1>3, <1>4

\* Numbers, dates and sizes have one length, so that the first items that differ decide.
LEMMA SignsOfOneLength ==
  ASSUME NEW n \in Nat, NEW a \in Seq(Nat), NEW b \in Seq(Nat), Len(a) = n, Len(b) = n
  PROVE  \/ CompareFirst(a, b, n) = 0 /\ a = b
         \/ CompareFirst(a, b, n) = -1 /\ Less(a, b)
         \/ CompareFirst(a, b, n) = 1 /\ Less(b, a)
<1>1. Agree(a, b, n) => a = b
  BY SeqEqual DEF Agree
<1>2. DOMAIN a = 1 .. n /\ DOMAIN b = 1 .. n
  BY LenProperties
<1>3. (Precedes(a, b, n) => Less(a, b)) /\ (Precedes(b, a, n) => Less(b, a))
  BY <1>2 DEF Precedes, Less
<1> QED
  BY <1>1, <1>3, CompareFirstSigns

\* A name that begins with another one follows it, but compares equal when it is the second.
LEMMA SignsOfNames ==
  ASSUME NEW a \in Seq(Nat), NEW b \in Seq(Nat)
  PROVE  \/ CompareString(a, b) = 0 /\ (a = b \/ IsStrictPrefix(a, b))
         \/ CompareString(a, b) = -1 /\ Less(a, b) /\ ~IsStrictPrefix(a, b)
         \/ CompareString(a, b) = 1 /\ Less(b, a)
<1>0. PICK m \in Nat, n \in Nat : Len(a) = m /\ Len(b) = n
  BY LenProperties
<1>1. DOMAIN a = 1 .. m /\ DOMAIN b = 1 .. n
  BY <1>0, LenProperties
<1>2. PICK rlen \in Nat : rlen = Smaller(m, n)
  BY DEF Smaller
<1>5. /\ rlen <= m /\ rlen <= n
      /\ m <= n => rlen = m
      /\ n <= m => rlen = n
  BY <1>1, <1>2 DEF Smaller
<1> DEFINE result == CompareFirst(a, b, rlen)
<1>6. CompareString(a, b) =
        CASE result # 0 -> result
          [] result = 0 /\ m < rlen -> -1
          [] result = 0 /\ m > rlen -> 1
          [] OTHER -> 0
  BY <1>0, <1>2 DEF CompareString
<1>7. result # 0 => CompareString(a, b) = result
  BY <1>6, Zenon
<1>8. result = 0 => CompareString(a, b) = IF m > rlen THEN 1 ELSE 0
  <2>1. ~(m < rlen)
    BY <1>1, <1>5
  <2> HIDE DEF result
  <2> QED
    BY <1>6, <2>1, Zenon
<1> HIDE DEF result
<1>9. \/ Agree(a, b, rlen) /\ result = 0
      \/ ~Agree(a, b, rlen) /\ Precedes(a, b, rlen) /\ result = -1
      \/ ~Agree(a, b, rlen) /\ Precedes(b, a, rlen) /\ result = 1
  BY <1>0, <1>5, CompareFirstSigns DEF result
<1>3. CASE Agree(a, b, rlen) /\ result = 0
  <2>1. CASE m = n
    <3>1. rlen = m /\ a = b
      BY <1>1, <1>3, <1>5, <2>1, <1>0, SeqEqual DEF Agree
    <3> QED
      BY <1>1, <1>3, <1>8, <3>1
  <2>2. CASE m < n
    <3>1. rlen = m
      BY <1>1, <1>5, <2>2
    <3>2. IsStrictPrefix(a, b)
      BY <1>3, <2>2, <3>1, <1>0, PrefixProperties DEF Agree
    <3> QED
      BY <1>1, <1>3, <1>8, <3>1, <3>2
  <2>3. CASE n < m
    <3>1. rlen = n
      BY <1>1, <1>5, <2>3
    <3>2. IsStrictPrefix(b, a)
      BY <1>3, <2>3, <3>1, <1>0, PrefixProperties DEF Agree
    <3>3. CompareString(a, b) = 1
      BY <1>3, <1>8, <2>3, <3>1
    <3> QED
      BY <3>2, <3>3 DEF Less
  <2> QED
    BY <1>1, <2>1, <2>2, <2>3
<1>4. CASE ~Agree(a, b, rlen) /\ result # 0
  <2>1. 1 .. rlen \subseteq DOMAIN a \cap DOMAIN b
    BY <1>1, <1>5
  <2>2. (Precedes(a, b, rlen) => Less(a, b)) /\ (Precedes(b, a, rlen) => Less(b, a))
    BY <2>1 DEF Precedes, Less
  <2>3. ~IsStrictPrefix(a, b)
    <3>1. PICK i \in 1 .. rlen : a[i] # b[i]
      BY <1>4 DEF Agree
    <3>2. i \in 1 .. m
      BY <1>1, <1>5
    <3> QED
      BY <3>1, <3>2, <1>0, PrefixProperties
  <2> QED
    BY <1>4, <1>7, <1>9, <2>2, <2>3
<1> QED
  BY <1>3, <1>4, <1>9

LEMMA SameLength ==
  ASSUME NEW m \in Nat, NEW n \in Nat, 1 .. m = 1 .. n
  PROVE  m = n
OBVIOUS

LEMMA SizesAreSequences ==
  ASSUME NEW v \in Sizes
  PROVE  v \in Seq(Nat) /\ Len(v) = 7
<1> DEFINE n == 7
<1>1. n \in Nat /\ n = 7
  OBVIOUS
<1>2. v \in [1 .. n -> Nat]
  <2>1. v \in [Places -> Digit]
    BY ColumnOrderAssumption, Zenon
  <2>2. Digit \subseteq Nat
    BY DEF Digit
  <2>3. v \in [Places -> Nat]
    BY <2>1, <2>2
  <2> QED
    BY <2>3 DEF Places
<1> HIDE DEF n
<1>3. v \in Seq(Nat)
  BY <1>1, <1>2, SeqDef
<1>4. DOMAIN v = 1 .. n
  BY <1>2
<1>5. Len(v) = n
  BY <1>1, <1>3, <1>4, LenProperties, SameLength
<1> QED
  BY <1>1, <1>3, <1>5

\* Values are sequences, all of one length except for names.
LEMMA ValuesAreSequences ==
  ASSUME column \in ItemType, NEW v \in Values
  PROVE  /\ v \in Seq(Nat)
         /\ column = "Memory" => v \in Sizes /\ Len(v) = 7
         /\ column = "Date" => Len(v) = 2 /\ v[1] \in Nat /\ v[2] \in Nat
         /\ column = "Integer" => Len(v) = 1
<1> USE ColumnOrderAssumption DEF ItemType
<1>1. CASE column = "String"
  <2>1. v \in BoundedSeq(Chars, MaxLength)
    BY <1>1 DEF Values, Name
  <2>2. v \in Seq(Chars)
    BY <2>1, SeqDef DEF BoundedSeq, SeqOf
  <2> QED
    BY <1>1, <2>2, SeqMonotonic
<1>2. CASE column = "Memory"
  <2>1. v \in Sizes
    BY <1>2 DEF Values
  <2> QED
    BY <1>2, <2>1, SizesAreSequences
<1>3. CASE column = "Date"
  <2>1. PICK minute \in Chars, second \in Chars : v = <<minute, second>>
    BY <1>3 DEF Values
  <2> QED
    BY <1>3, <2>1
<1>4. CASE column = "Integer"
  <2>1. PICK n \in Chars : v = <<n>>
    BY <1>4 DEF Values
  <2> QED
    BY <1>4, <2>1
<1> QED
  BY <1>1, <1>2, <1>3, <1>4

\* The signs of compare, whatever the type of the column.
LEMMA CompareSigns ==
  ASSUME column \in ItemType, NEW a \in Values, NEW b \in Values
  PROVE  \/ Compare(a, b) = 0 /\ (a = b \/ (column = "String" /\ IsStrictPrefix(a, b)))
         \/ Compare(a, b) = -1 /\ Less(a, b)
         \/ Compare(a, b) = 1 /\ Less(b, a)
<1>1. a \in Seq(Nat) /\ b \in Seq(Nat)
  BY ValuesAreSequences
<1>2. CASE column = "String"
  <2>1. Compare(a, b) = CompareString(a, b)
    BY <1>2 DEF Compare
  <2> QED
    BY <1>1, <1>2, <2>1, SignsOfNames
<1>3. CASE column = "Memory"
  <2>1. Compare(a, b) = CompareFirst(a, b, 7)
    BY <1>3 DEF Compare, CompareMemory
  <2>2. Len(a) = 7 /\ Len(b) = 7
    BY <1>3, ValuesAreSequences
  <2>3. 7 \in Nat
    OBVIOUS
  <2> QED
    BY <1>1, <2>1, <2>2, <2>3, SignsOfOneLength
<1>4. CASE column = "Date"
  <2>1. Compare(a, b) = CompareFirst(a, b, 2)
    BY <1>4 DEF Compare, CompareDate
  <2> QED
    BY <1>1, <1>4, <2>1, SignsOfOneLength, ValuesAreSequences
<1>5. CASE column = "Integer"
  <2>1. Compare(a, b) = CompareFirst(a, b, 1)
    BY <1>5 DEF Compare, CompareInteger
  <2> QED
    BY <1>1, <1>5, <2>1, SignsOfOneLength, ValuesAreSequences
<1> QED
  BY <1>2, <1>3, <1>4, <1>5 DEF ItemType
-----------------------------------------------------------------------------
(* The predicate of the sort. *)

\* The names that can be ordered come before one another as they do in a dictionary, or in its reverse.
LEMMA BeforeIsFollows ==
  ASSUME column \in ItemType, sort_order \in SortOrder, Listed \subseteq Values, CanBeOrdered,
         NEW a \in Listed, NEW b \in Listed
  PROVE  Before(a, b) <=> Follows(b, a)
<1>1. a \in Values /\ b \in Values /\ a \in Seq(Nat) /\ b \in Seq(Nat)
  BY ValuesAreSequences
<1>2. \/ Compare(a, b) = 0 /\ (a = b \/ (column = "String" /\ IsStrictPrefix(a, b)))
      \/ Compare(a, b) = -1 /\ Less(a, b)
      \/ Compare(a, b) = 1 /\ Less(b, a)
  BY <1>1, CompareSigns
<1>3. ~(Less(a, b) /\ Less(b, a)) /\ (a = b => ~Less(a, b))
  BY <1>1, LessIsAsymmetric
<1>4. IsStrictPrefix(a, b) => Less(a, b)
  BY DEF Less
<1>5. CASE sort_order = "Ascending"
  <2>1. ~(column = "String" /\ IsStrictPrefix(a, b))
    BY <1>5 DEF CanBeOrdered
  <2>2. (Before(a, b) <=> Compare(a, b) < 0) /\ (Follows(b, a) <=> Less(a, b))
    BY <1>5 DEF Before, Follows
  <2> QED
    BY <1>2, <1>3, <2>1, <2>2
<1>6. CASE sort_order = "Descending"
  <2>1. (Before(a, b) <=> Compare(a, b) > 0) /\ (Follows(b, a) <=> Less(b, a))
    BY <1>6 DEF Before, Follows
  <2> QED
    BY <1>2, <1>3, <1>4, <2>1
<1> QED
  BY <1>5, <1>6 DEF SortOrder

\* Either order is a strict weak order of any names.
LEMMA FollowsIsAnOrder ==
  ASSUME NEW a \in Seq(Nat), NEW b \in Seq(Nat), NEW c \in Seq(Nat)
  PROVE  /\ ~(Follows(a, b) /\ Follows(b, a))
         /\ Follows(a, b) => Follows(a, c) \/ Follows(c, b)
BY LessIsAsymmetric, LessIsWeak DEF Follows

LEMMA PredicateOrders ==
  ASSUME column \in ItemType, sort_order \in SortOrder, Listed \subseteq Values
  PROVE  PredicateIsAnOrder
<1>1. SUFFICES ASSUME CanBeOrdered, NEW a \in Listed, NEW b \in Listed, NEW c \in Listed
               PROVE  /\ ~(Before(a, b) /\ Before(b, a))
                      /\ Before(a, b) => Before(a, c) \/ Before(c, b)
  BY DEF PredicateIsAnOrder
<1>2. a \in Seq(Nat) /\ b \in Seq(Nat) /\ c \in Seq(Nat)
  BY ValuesAreSequences
<1>3. ASSUME NEW x \in Listed, NEW y \in Listed PROVE Before(x, y) <=> Follows(y, x)
  BY <1>1, BeforeIsFollows
<1> QED
  BY <1>2, <1>3, FollowsIsAnOrder

-----------------------------------------------------------------------------
(* One insertion. *)

\* The rows of both parts of the table are listed, and their values are the column's.
LEMMA ListedRows ==
  ASSUME unsorted \in Seq(Item), sorted \in Seq(Item)
  PROVE  Listed = {unsorted[i].value : i \in DOMAIN unsorted} \cup {sorted[i].value : i \in DOMAIN sorted}
<1> DEFINE both == unsorted \o sorted
<1>1. PICK m \in Nat, n \in Nat : Len(unsorted) = m /\ Len(sorted) = n
  BY LenProperties
<1>2. DOMAIN unsorted = 1 .. m /\ DOMAIN sorted = 1 .. n
  BY <1>1, LenProperties
<1>3. both \in Seq(Item) /\ Len(both) = m + n /\ \A i \in 1 .. m + n : both[i] = IF i <= m THEN unsorted[i] ELSE sorted[i - m]
  BY <1>1, ConcatProperties
<1>4. DOMAIN both = 1 .. m + n
  BY <1>3, LenProperties
<1>5. Listed = {both[i].value : i \in 1 .. m + n}
  BY <1>4 DEF Listed, Range
<1> HIDE DEF both
<1>6. ASSUME NEW i \in 1 .. m PROVE i \in 1 .. m + n /\ both[i] = unsorted[i]
  BY <1>3
<1>7. ASSUME NEW i \in 1 .. n PROVE i + m \in 1 .. m + n /\ both[i + m] = sorted[i]
  BY <1>3
<1>8. ASSUME NEW i \in 1 .. m + n
      PROVE  (i \in 1 .. m /\ both[i] = unsorted[i]) \/ (i - m \in 1 .. n /\ both[i] = sorted[i - m])
  BY <1>3
<1> DEFINE left == {unsorted[i].value : i \in 1 .. m}
           right == {sorted[i].value : i \in 1 .. n}
<1>9. ASSUME NEW x \in Listed PROVE x \in left \cup right
  <2>1. PICK i \in 1 .. m + n : x = both[i].value
    BY <1>5
  <2>2. CASE i \in 1 .. m /\ both[i] = unsorted[i]
    BY <2>1, <2>2
  <2>3. CASE i - m \in 1 .. n /\ both[i] = sorted[i - m]
    BY <2>1, <2>3
  <2> QED
    BY <1>8, <2>2, <2>3
<1>10. left \subseteq Listed
  BY <1>5, <1>6
<1>11. right \subseteq Listed
  <2> SUFFICES ASSUME NEW i \in 1 .. n PROVE sorted[i].value \in Listed
    OBVIOUS
  <2>1. i + m \in 1 .. m + n /\ both[i + m] = sorted[i]
    BY <1>7
  <2> QED
    BY <1>5, <2>1
<1>12. Listed = left \cup right
  BY <1>9, <1>10, <1>11
<1> QED
  BY <1>2, <1>12

LEMMA ListedAreValues ==
  ASSUME unsorted \in Seq(Item), sorted \in Seq(Item)
  PROVE  Listed \subseteq Values
<1>1. \A row \in Item : row.value \in Values
  BY DEF Item
<1>2. \A i \in DOMAIN unsorted : unsorted[i] \in Item
  BY LenProperties
<1>3. \A i \in DOMAIN sorted : sorted[i] \in Item
  BY LenProperties
<1> QED
  BY <1>1, <1>2, <1>3, ListedRows

\* t is the sequence s of n members with e inserted before the one at p.
Inserted(t, s, n, p, e) ==
  \A i \in 1 .. n + 1 : /\ i < p => t[i] = s[i]
                        /\ i = p => t[i] = e
                        /\ i > p => t[i] = s[i - 1]

LEMMA InsertAtProperties ==
  ASSUME NEW S, NEW s \in Seq(S), NEW n \in Nat, Len(s) = n, NEW p \in 1 .. n + 1, NEW e \in S
  PROVE  /\ InsertAt(s, p, e) \in Seq(S) /\ Len(InsertAt(s, p, e)) = n + 1
         /\ Inserted(InsertAt(s, p, e), s, n, p, e)
<1> DEFINE u == SubSeq(s, 1, p - 1)
           v == SubSeq(s, p, n)
           w == <<e>>
<1>1. InsertAt(s, p, e) = (u \o w) \o v
  BY DEF InsertAt
<1>2. u \in Seq(S) /\ Len(u) = p - 1 /\ \A i \in 1 .. p - 1 : u[i] = s[i]
  <2>1. \A i \in 1 .. p - 1 : s[i] \in S
    BY ElementOfSeq
  <2> QED
    BY <2>1, SubSeqProperties
<1>3. v \in Seq(S) /\ Len(v) = n + 1 - p /\ \A i \in 1 .. n + 1 - p : v[i] = s[p + i - 1]
  <2>1. \A i \in p .. n : s[i] \in S
    BY ElementOfSeq
  <2> QED
    BY <2>1, SubSeqProperties
<1>4. w \in Seq(S) /\ Len(w) = 1 /\ w[1] = e
  OBVIOUS
<1> HIDE DEF u, v, w
<1> DEFINE uw == u \o w
<1>5. uw \in Seq(S) /\ Len(uw) = p /\ \A i \in 1 .. p : uw[i] = IF i < p THEN s[i] ELSE e
  <2>1. /\ uw \in Seq(S) /\ Len(uw) = (p - 1) + 1
        /\ \A i \in 1 .. (p - 1) + 1 : uw[i] = IF i <= p - 1 THEN u[i] ELSE w[i - (p - 1)]
    <3>1. /\ uw \in Seq(S) /\ Len(uw) = Len(u) + Len(w)
          /\ \A i \in 1 .. Len(u) + Len(w) : uw[i] = IF i <= Len(u) THEN u[i] ELSE w[i - Len(u)]
      BY <1>2, <1>4, ConcatProperties
    <3> QED
      BY <1>2, <1>4, <3>1
  <2> HIDE DEF uw
  <2>2. ASSUME NEW i \in 1 .. p PROVE uw[i] = IF i < p THEN s[i] ELSE e
    <3>1. CASE i < p
      BY <1>2, <2>1, <3>1
    <3>2. CASE i = p
      BY <1>4, <2>1, <3>2
    <3> QED
      BY <3>1, <3>2
  <2> QED
    BY <2>1, <2>2
<1> HIDE DEF uw
<1> DEFINE uwv == uw \o v
<1>6. /\ uwv \in Seq(S) /\ Len(uwv) = p + (n + 1 - p)
      /\ \A i \in 1 .. p + (n + 1 - p) : uwv[i] = IF i <= p THEN uw[i] ELSE v[i - p]
  BY <1>3, <1>5, ConcatProperties
<1> HIDE DEF uwv
<1>7. ASSUME NEW i \in 1 .. n + 1
      PROVE  /\ i < p => uwv[i] = s[i]
             /\ i = p => uwv[i] = e
             /\ i > p => uwv[i] = s[i - 1]
  <2>1. CASE i <= p
    BY <1>5, <1>6, <2>1
  <2>2. CASE i > p
    <3>1. i - p \in 1 .. n + 1 - p /\ p + (i - p) - 1 = i - 1
      BY <2>2
    <3>2. v[i - p] = s[p + (i - p) - 1]
      BY <1>3, <3>1
    <3> QED
      BY <1>6, <2>2, <3>1, <3>2
  <2> QED
    BY <2>1, <2>2
<1>8. InsertAt(s, p, e) = uwv
  BY <1>1 DEF uw, uwv
<1>9. uwv \in Seq(S) /\ Len(uwv) = n + 1
  BY <1>6
<1>10. Inserted(uwv, s, n, p, e)
  BY <1>7 DEF Inserted
<1> QED
  BY <1>8, <1>9, <1>10
\* A row goes behind those that may not follow it, and before all the others.
LEMMA PlaceProperties ==
  ASSUME column \in ItemType, sort_order \in SortOrder, CanBeOrdered,
         InDictionaryOrder, unsorted \in Seq(Item), sorted \in Seq(Item), NEW n \in Nat, Len(sorted) = n,
         NEW row \in Item, row.value \in Listed
  PROVE  /\ Place(row) \in 1 .. n + 1
         /\ \A i \in 1 .. n : i < Place(row) => ~Follows(sorted[i].value, row.value)
         /\ \A i \in 1 .. n : i >= Place(row) => Follows(sorted[i].value, row.value)
<1> DEFINE stays == {i \in DOMAIN sorted : ~Before(row.value, sorted[i].value)}
<1>0. Listed \subseteq Values
  BY ListedAreValues
<1>1. DOMAIN sorted = 1 .. n
  BY LenProperties
<1>2. ASSUME NEW i \in 1 .. n
      PROVE  /\ sorted[i].value \in Listed /\ sorted[i].value \in Seq(Nat)
             /\ i \in stays <=> ~Follows(sorted[i].value, row.value)
  <2>1. sorted[i].value \in Listed
    BY <1>1, ListedRows
  <2>2. sorted[i].value \in Seq(Nat)
    BY <1>0, <2>1, ValuesAreSequences
  <2>3. Before(row.value, sorted[i].value) <=> Follows(sorted[i].value, row.value)
    BY <1>0, <2>1, BeforeIsFollows
  <2> QED
    BY <1>1, <2>1, <2>2, <2>3
<1>3. row.value \in Seq(Nat)
  BY <1>0, ValuesAreSequences
<1>4. ASSUME NEW i \in 1 .. n, NEW j \in 1 .. n, i < j PROVE ~Follows(sorted[i].value, sorted[j].value)
  BY <1>1, <1>4 DEF InDictionaryOrder
<1>5. Place(row) = IF 1 \notin stays THEN 1 ELSE 1 + CHOOSE i \in stays : \A j \in stays : j <= i
  BY DEF Place
<1>6. stays \subseteq 1 .. n
  BY <1>1
<1> HIDE DEF stays
<1>7. CASE 1 \notin stays
  <2>1. Place(row) = 1
    BY <1>5, <1>7
  <2>2. ASSUME NEW i \in 1 .. n PROVE Follows(sorted[i].value, row.value)
    <3>1. 1 \in 1 .. n /\ Follows(sorted[1].value, row.value)
      BY <1>2, <1>7
    <3>2. CASE i = 1
      BY <3>1, <3>2
    <3>3. CASE i # 1
      <4>1. ~Follows(sorted[1].value, sorted[i].value)
        BY <1>4, <3>1, <3>3
      <4> QED
        BY <1>2, <1>3, <3>1, <4>1, FollowsIsAnOrder
    <3> QED
      BY <3>2, <3>3
  <2> QED
    BY <2>1, <2>2
<1>8. CASE 1 \in stays
  <2> DEFINE m == CHOOSE i \in stays : \A j \in stays : j <= i
  <2>1. m \in stays /\ \A j \in stays : j <= m
    <3>1. stays \in SUBSET Nat /\ \A j \in stays : j <= n
      BY <1>6
    <3>2. \E i \in stays : \A j \in stays : j <= i
      BY <1>8, <3>1, Greatest
    <3> QED
      BY <3>2
  <2>2. Place(row) = 1 + m
    BY <1>5, <1>8
  <2> HIDE DEF m
  <2>3. m \in 1 .. n
    BY <1>6, <2>1
  <2>4. ASSUME NEW i \in 1 .. n, i > m PROVE Follows(sorted[i].value, row.value)
    BY <1>2, <2>1, <2>3, <2>4
  <2>5. ASSUME NEW i \in 1 .. n, i <= m PROVE ~Follows(sorted[i].value, row.value)
    <3>1. ~Follows(sorted[m].value, row.value)
      BY <1>2, <2>1, <2>3
    <3>2. CASE i = m
      BY <3>1, <3>2
    <3>3. CASE i < m
      <4>1. ~Follows(sorted[i].value, sorted[m].value)
        BY <1>4, <2>3, <3>3
      <4> QED
        BY <1>2, <1>3, <2>3, <3>1, <4>1, FollowsIsAnOrder
    <3> QED
      BY <2>3, <2>5, <3>2, <3>3
  <2> QED
    BY <2>2, <2>3, <2>4, <2>5
<1> QED
  BY <1>7, <1>8 DEF Inserted
\* A row has a place even if the names cannot be ordered.
LEMMA PlaceType ==
  ASSUME NEW n \in Nat, DOMAIN sorted = 1 .. n, NEW row
  PROVE  Place(row) \in 1 .. n + 1
<1> DEFINE stays == {i \in DOMAIN sorted : ~Before(row.value, sorted[i].value)}
<1>1. Place(row) = IF 1 \notin stays THEN 1 ELSE 1 + CHOOSE i \in stays : \A j \in stays : j <= i
  BY DEF Place
<1>2. stays \in SUBSET Nat /\ stays \subseteq 1 .. n /\ \A j \in stays : j <= n
  OBVIOUS
<1> HIDE DEF stays
<1>3. CASE 1 \in stays
  <2> DEFINE m == CHOOSE i \in stays : \A j \in stays : j <= i
  <2>1. m \in stays
    <3>1. \E i \in stays : \A j \in stays : j <= i
      BY <1>2, <1>3, Greatest
    <3> QED
      BY <3>1
  <2>2. Place(row) = 1 + m
    BY <1>1, <1>3
  <2> HIDE DEF m
  <2>3. m \in 1 .. n
    BY <1>2, <2>1
  <2> QED
    BY <2>2, <2>3
<1> QED
  BY <1>1, <1>3

-----------------------------------------------------------------------------
(* What the user reads. *)

LEMMA LessOfOne ==
  ASSUME NEW p \in Nat, NEW q \in Nat
  PROVE  Less(<<p>>, <<q>>) <=> p < q
<1> DEFINE a == <<p>>
           b == <<q>>
<1>1. a \in Seq(Nat) /\ b \in Seq(Nat) /\ Len(a) = 1 /\ Len(b) = 1 /\ a[1] = p /\ b[1] = q
  OBVIOUS
<1> HIDE DEF a, b
<1>2. DOMAIN a = 1 .. 1 /\ DOMAIN b = 1 .. 1
  BY <1>1, LenProperties
<1>3. ~IsStrictPrefix(a, b)
  BY <1>1, PrefixProperties
<1>4. Less(a, b) <=> p < q
  BY <1>1, <1>2, <1>3 DEF Less
<1> QED
  BY <1>4 DEF a, b

LEMMA LessOfTwo ==
  ASSUME NEW p \in Nat, NEW q \in Nat, NEW r \in Nat, NEW s \in Nat
  PROVE  Less(<<p, q>>, <<r, s>>) <=> p < r \/ (p = r /\ q < s)
<1> DEFINE a == <<p, q>>
           b == <<r, s>>
<1>1. /\ a \in Seq(Nat) /\ b \in Seq(Nat) /\ Len(a) = 2 /\ Len(b) = 2
      /\ a[1] = p /\ a[2] = q /\ b[1] = r /\ b[2] = s
  OBVIOUS
<1> HIDE DEF a, b
<1>2. DOMAIN a = 1 .. 2 /\ DOMAIN b = 1 .. 2
  BY <1>1, LenProperties
<1>3. ~IsStrictPrefix(a, b)
  BY <1>1, PrefixProperties
<1>4. Less(a, b) <=> \E i \in 1 .. 2 : a[i] < b[i] /\ \A j \in 1 .. i - 1 : a[j] = b[j]
  BY <1>2, <1>3 DEF Less
<1>5. (\E i \in 1 .. 2 : a[i] < b[i] /\ \A j \in 1 .. i - 1 : a[j] = b[j]) <=> p < r \/ (p = r /\ q < s)
  BY <1>1
<1> QED
  BY <1>4, <1>5 DEF a, b

\* Of two sizes, the one that is read as the smaller amount is the smaller one.
LEMMA AmountKeepsOrder ==
  ASSUME NEW a \in Sizes, NEW b \in Sizes, Less(Amount(MemoryText(a)), Amount(MemoryText(b)))
  PROVE  Less(a, b)
<1>1. PICK v \in Number, w \in Number : v = Double(a) /\ w = Double(b)
  BY DoubleType
<1>2. PICK l \in 1 .. 7, m \in 1 .. 7 : l = Leading(v) /\ m = Leading(w)
  BY LeadingProperties
<1>3. PICK x \in Nat, y \in Nat : x = v[l] /\ y = w[m] /\ x < 1024 /\ y < 1024
  BY DigitType
<1>4. PICK h \in Nat : /\ h = MemoryText(a).hundredths
                      /\ 100 * x <= h /\ h <= 100 * x + 100 /\ (l = 7 => h = 100 * x)
  BY <1>1, <1>2, <1>3, MemoryTextProperties
<1>5. PICK k \in Nat : /\ k = MemoryText(b).hundredths
                      /\ 100 * y <= k /\ k <= 100 * y + 100 /\ (m = 7 => k = 100 * y)
  BY <1>1, <1>2, <1>3, MemoryTextProperties
<1>6. MemoryText(a).unit = l /\ MemoryText(b).unit = m
  BY <1>1, <1>2, TextOfUnit
<1>7. /\ \A j \in 1 .. l - 1 : v[j] = 0
      /\ \A j \in 1 .. m - 1 : w[j] = 0
      /\ l # 7 => x # 0
      /\ m # 7 => y # 0
  BY <1>2, <1>3, LeadingProperties
<1>8. PICK p \in Nat, q \in Nat : Amount(MemoryText(a)) = <<p, q>> /\ IF h = 102400 THEN p = 8 - l /\ q = 100 ELSE p = 7 - l /\ q = h
  BY <1>4, <1>6 DEF Amount
<1>9. PICK r \in Nat, s \in Nat : Amount(MemoryText(b)) = <<r, s>> /\ IF k = 102400 THEN r = 8 - m /\ s = 100 ELSE r = 7 - m /\ s = k
  BY <1>5, <1>6 DEF Amount
<1>10. p < r \/ (p = r /\ q < s)
  BY <1>8, <1>9, LessOfTwo
<1>11. l > m \/ (l = m /\ h < k)
  <2>1. CASE l < m
    BY <1>3, <1>4, <1>5, <1>7, <1>8, <1>9, <1>10, <2>1
  <2>2. CASE l = m
    BY <1>3, <1>4, <1>5, <1>8, <1>9, <1>10, <2>2
  <2> QED
    BY <2>1, <2>2
<1>12. ValueOf(v) < ValueOf(w)
  <2>1. CASE l > m
    <3>1. v[m] = 0 /\ v[m] < w[m] /\ \A j \in 1 .. m - 1 : v[j] = w[j]
      BY <1>3, <1>7, <2>1
    <3> QED
      BY <3>1, FirstDigitDecides
  <2>2. CASE l = m /\ h < k
    BY <1>1, <1>2, <1>4, <1>5, <2>2, TextKeepsOrder
  <2> QED
    BY <1>11, <2>1, <2>2
<1>13. PICK f \in Nat, g \in Nat : f = ValueOf(a) /\ g = ValueOf(b)
  BY SizesAreNumbers, PartsType DEF ValueOf
<1>14. PICK i \in Nat, j \in Nat : i = ValueOf(v) /\ j = ValueOf(w)
  BY PartsType DEF ValueOf
<1>15. f < g
  <2>1. g <= f => j <= i
    BY <1>1, <1>13, <1>14, DoubleKeepsOrder
  <2> QED
    BY <1>12, <1>13, <1>14, <2>1
<1>16. /\ a \in Seq(Nat) /\ Len(a) = 7 /\ DOMAIN a = 1 .. 7
       /\ b \in Seq(Nat) /\ Len(b) = 7 /\ DOMAIN b = 1 .. 7
  BY SizesAreSequences, LenProperties
<1>17. ~Less(b, a)
  <2>1. SUFFICES ASSUME Less(b, a) PROVE FALSE
    OBVIOUS
  <2>2. ~IsStrictPrefix(b, a)
    BY <1>16, PrefixProperties
  <2>3. PICK n \in 1 .. 7 : b[n] < a[n] /\ \A o \in 1 .. n - 1 : b[o] = a[o]
    BY <1>16, <2>1, <2>2 DEF Less
  <2>4. g < f
    BY <1>13, <2>3, SizesAreNumbers, FirstDigitDecides
  <2> QED
    BY <1>15, <2>4
<1>18. a # b
  BY <1>13, <1>15
<1> QED
  BY <1>16, <1>17, <1>18, SignsOfOneLength

\* The same of every column.
LEMMA ReadingKeepsOrder ==
  ASSUME column \in ItemType, NEW x \in Item, NEW y \in Item, Less(Reading(x), Reading(y))
  PROVE  Less(x.value, y.value)
<1>1. x.value \in Values /\ x.str_value = Text(x.value) /\ y.value \in Values /\ y.str_value = Text(y.value)
  BY DEF Item
<1>2. CASE column = "Memory"
  <2>1. x.value \in Sizes /\ y.value \in Sizes
    BY <1>1, <1>2 DEF Values
  <2>2. Reading(x) = Amount(MemoryText(x.value)) /\ Reading(y) = Amount(MemoryText(y.value))
    BY <1>1, <1>2 DEF Reading, Text
  <2> QED
    BY <2>1, <2>2, AmountKeepsOrder
<1>3. CASE column = "Date"
  <2>1. PICK p \in Chars, q \in Chars, r \in Chars, s \in Chars : x.value = <<p, q>> /\ y.value = <<r, s>>
    BY <1>1, <1>3 DEF Values
  <2>2. p \in Nat /\ q \in Nat /\ r \in Nat /\ s \in Nat
    BY ColumnOrderAssumption
  <2>3. Reading(x) = <<p>> /\ Reading(y) = <<r>>
    BY <1>1, <1>3, <2>1 DEF Reading, Text, DateText
  <2> QED
    BY <2>1, <2>2, <2>3, LessOfOne, LessOfTwo
<1>4. CASE column = "String" \/ column = "Integer"
  BY <1>1, <1>4 DEF Reading, Text
<1> QED
  BY <1>2, <1>3, <1>4 DEF ItemType

-----------------------------------------------------------------------------
(* The invariant. *)

ListedAsRows ==
  unsorted \in Seq(Item) /\ sorted \in Seq(Item)
    => Listed = {unsorted[i].value : i \in DOMAIN unsorted} \cup {sorted[i].value : i \in DOMAIN sorted}

\* The same of the next state.
LEMMA ListedAsRowsNow == ListedAsRows
BY ListedRows DEF ListedAsRows

LEMMA ListedAsRowsNext == ListedAsRows'
BY ListedAsRowsNow, PTL

\* What does not depend on the rows.
LEMMA OneColumn ==
  ASSUME column' = column, sort_order' = sort_order
  PROVE  /\ Item' = Item
         /\ \A a, b : Follows(a, b)' <=> Follows(a, b)
<1>1. Values' = Values
  BY DEF Values
<1>2. ASSUME NEW v PROVE Text(v)' = Text(v)
  BY DEF Text
<1> QED
  BY <1>1, <1>2 DEF Item, Follows

LEMMA SortInvInit == Init => SortInv
<1> SUFFICES ASSUME Init PROVE SortInv
  OBVIOUS
<1>1. PICK values \in BoundedSeq(Values, MaxRows) : unsorted = Numbered(values)
  BY DEF Init
<1>2. PICK n \in Nat : values \in [1 .. n -> Values]
  BY <1>1, ColumnOrderAssumption DEF BoundedSeq, SeqOf
<1>3. /\ DOMAIN unsorted = 1 .. n
      /\ \A i \in 1 .. n : unsorted[i] = [value |-> values[i], str_value |-> Text(values[i]), was |-> i]
      /\ unsorted = [i \in 1 .. n |-> unsorted[i]]
  BY <1>1, <1>2 DEF Numbered
<1>4. ASSUME NEW i \in 1 .. n PROVE unsorted[i] \in Item /\ unsorted[i].was = i
  <2>1. values[i] \in Values /\ i \in Nat
    BY <1>2
  <2> QED
    BY <1>3, <2>1 DEF Item
<1>5. unsorted \in Seq(Item)
  <2>1. unsorted \in [1 .. n -> Item]
    BY <1>3, <1>4
  <2> QED
    BY <2>1, SeqDef
<1>6. sorted = <<>> /\ sorted \in Seq(Item) /\ DOMAIN sorted = {}
  BY DEF Init
<1>7. TakenInOrder
  BY <1>3, <1>4, <1>6 DEF TakenInOrder
<1>8. InDictionaryOrder /\ KeepsEarlierOrder
  BY <1>6 DEF InDictionaryOrder, KeepsEarlierOrder
<1> QED
  BY <1>5, <1>6, <1>7, <1>8 DEF Init, SortInv

LEMMA SortInvInsert ==
  ASSUME SortInv, Insert
  PROVE  SortInv'
<1> DEFINE row == Head(unsorted)
           rest == Tail(unsorted)
           p == Place(row)
           new == InsertAt(sorted, p, row)
<1>1. /\ column \in ItemType /\ sort_order \in SortOrder /\ unsorted \in Seq(Item) /\ sorted \in Seq(Item)
      /\ TakenInOrder /\ InDictionaryOrder /\ KeepsEarlierOrder
  BY DEF SortInv
<1>2. /\ unsorted # <<>> /\ unsorted' = rest /\ sorted' = new /\ column' = column /\ sort_order' = sort_order
  BY DEF Insert
<1>3. PICK m \in Nat, n \in Nat : Len(unsorted) = m + 1 /\ Len(sorted) = n
  <2>1. Len(unsorted) \in Nat \ {0} /\ Len(sorted) \in Nat
    BY <1>1, <1>2, EmptySeq, LenProperties
  <2>2. Len(unsorted) - 1 \in Nat /\ Len(unsorted) = (Len(unsorted) - 1) + 1
    BY <2>1
  <2> QED
    BY <2>1, <2>2
<1>4. DOMAIN unsorted = 1 .. m + 1 /\ DOMAIN sorted = 1 .. n
  BY <1>1, <1>3, LenProperties
<1>5. row = unsorted[1] /\ row \in Item
  BY <1>1, <1>2, HeadTailProperties
<1>6. rest \in Seq(Item) /\ DOMAIN rest = 1 .. m /\ \A i \in 1 .. m : rest[i] = unsorted[i + 1]
  <2>1. rest \in Seq(Item) /\ Len(rest) = m /\ \A i \in 1 .. m : rest[i] = unsorted[i + 1]
    BY <1>1, <1>2, <1>3, HeadTailProperties
  <2> QED
    BY <2>1, LenProperties
<1>7. p \in 1 .. n + 1
  BY <1>4, PlaceType
<1>8. new \in Seq(Item) /\ DOMAIN new = 1 .. n + 1 /\ Inserted(new, sorted, n, p, row)
  <2>1. new \in Seq(Item) /\ Len(new) = n + 1 /\ Inserted(new, sorted, n, p, row)
    <3>1. sorted \in Seq(Item) /\ n \in Nat /\ Len(sorted) = n /\ row \in Item
      BY <1>1, <1>3, <1>5
    <3>2. new = InsertAt(sorted, p, row)
      OBVIOUS
    <3> HIDE DEF p, row, new
    <3> QED
      BY <1>7, <3>1, <3>2, InsertAtProperties
  <2> HIDE DEF new
  <2> QED
    BY <2>1, LenProperties
<1> HIDE DEF row, rest, p, new
<1>9. Item' = Item /\ \A a, b : Follows(a, b)' <=> Follows(a, b)
  BY <1>2, OneColumn
<1>10. unsorted' \in Seq(Item') /\ sorted' \in Seq(Item')
  BY <1>2, <1>6, <1>8, <1>9
<1>11. Listed' = {rest[i].value : i \in 1 .. m} \cup {new[i].value : i \in 1 .. n + 1}
  BY <1>2, <1>6, <1>8, <1>10, ListedAsRowsNext DEF ListedAsRows
<1>12. Listed = {unsorted[i].value : i \in 1 .. m + 1} \cup {sorted[i].value : i \in 1 .. n}
  BY <1>1, <1>4, ListedRows
<1>13. ASSUME NEW i \in 1 .. n PROVE \E j \in 1 .. n + 1 : new[j] = sorted[i]
  <2>1. CASE i < p
    <3>1. i \in 1 .. n + 1 /\ new[i] = sorted[i]
      BY <1>7, <1>8, <2>1 DEF Inserted
    <3> QED
      BY <3>1
  <2>2. CASE i >= p
    <3>1. i + 1 \in 1 .. n + 1 /\ i + 1 > p /\ (i + 1) - 1 = i
      BY <1>7, <2>2
    <3>2. new[i + 1] = sorted[i]
      BY <1>8, <3>1 DEF Inserted
    <3> QED
      BY <3>1, <3>2
  <2> QED
    BY <1>7, <2>1, <2>2
<1>14. new[p] = row
  BY <1>7, <1>8 DEF Inserted
<1>15. Listed \subseteq Listed'
  <2>1. ASSUME NEW i \in 1 .. m + 1 PROVE unsorted[i].value \in Listed'
    <3>1. CASE i = 1
      BY <1>5, <1>7, <1>11, <1>14, <3>1
    <3>2. CASE i # 1
      <4>1. i - 1 \in 1 .. m /\ (i - 1) + 1 = i
        BY <3>2
      <4>2. rest[i - 1] = unsorted[i]
        BY <1>6, <4>1
      <4> QED
        BY <1>11, <4>1, <4>2
    <3> QED
      BY <3>1, <3>2
  <2>2. ASSUME NEW i \in 1 .. n PROVE sorted[i].value \in Listed'
    BY <1>11, <1>13
  <2> QED
    BY <1>12, <2>1, <2>2
<1>16. CanBeOrdered' => CanBeOrdered
  BY <1>2, <1>15 DEF CanBeOrdered
<1>17. row.value \in Listed
  BY <1>5, <1>12
<1>18. TakenInOrder'
  <2>1. ASSUME NEW i \in 1 .. m, NEW j \in 1 .. m, i < j PROVE rest[i].was < rest[j].was
    <3>1. i + 1 \in 1 .. m + 1 /\ j + 1 \in 1 .. m + 1 /\ i + 1 < j + 1
      BY <2>1
    <3>2. unsorted[i + 1].was < unsorted[j + 1].was
      BY <1>1, <1>4, <3>1 DEF TakenInOrder
    <3> QED
      BY <1>6, <3>2
  <2>2. ASSUME NEW i \in 1 .. n + 1, NEW j \in 1 .. m PROVE new[i].was < rest[j].was
    <3>1. j + 1 \in 1 .. m + 1 /\ 1 \in 1 .. m + 1 /\ 1 < j + 1 /\ rest[j] = unsorted[j + 1]
      BY <1>6
    <3>2. row.was < unsorted[j + 1].was
      BY <1>1, <1>4, <1>5, <3>1 DEF TakenInOrder
    <3>3. \A k \in 1 .. n : sorted[k].was < unsorted[j + 1].was
      BY <1>1, <1>4, <3>1 DEF TakenInOrder
    <3>4. new[i] = row \/ \E k \in 1 .. n : new[i] = sorted[k]
      BY <1>7, <1>8 DEF Inserted
    <3> QED
      BY <3>1, <3>2, <3>3, <3>4
  <2> QED
    BY <1>2, <1>6, <1>8, <2>1, <2>2 DEF TakenInOrder
<1>19. ASSUME CanBeOrdered, NEW i \in 1 .. n + 1, NEW j \in 1 .. n + 1, i < j
       PROVE  /\ ~Follows(new[i].value, new[j].value)
              /\ new[i].value = new[j].value => new[i].was < new[j].was
  <2>1. /\ \A k \in 1 .. n : k < p => ~Follows(sorted[k].value, row.value)
        /\ \A k \in 1 .. n : k >= p => Follows(sorted[k].value, row.value)
    BY <1>1, <1>3, <1>5, <1>17, <1>19, PlaceProperties DEF p
  <2>2. ASSUME NEW k \in 1 .. n, NEW l \in 1 .. n, k < l
        PROVE  /\ ~Follows(sorted[k].value, sorted[l].value)
               /\ sorted[k].value = sorted[l].value => sorted[k].was < sorted[l].was
    BY <1>1, <1>4, <1>19, <2>2 DEF InDictionaryOrder, KeepsEarlierOrder
  <2>3. CASE i # p /\ j # p
    <3>1. PICK k \in 1 .. n, l \in 1 .. n : new[i] = sorted[k] /\ new[j] = sorted[l] /\ k < l
      <4>1. ASSUME NEW o \in 1 .. n + 1, o # p
            PROVE  \E k \in 1 .. n : new[o] = sorted[k] /\ k = IF o < p THEN o ELSE o - 1
        <5>1. CASE o < p
          BY <1>7, <1>8, <4>1, <5>1 DEF Inserted
        <5>2. CASE o > p
          <6>1. o - 1 \in 1 .. n /\ ~(o < p)
            BY <1>7, <5>2
          <6>2. new[o] = sorted[o - 1]
            BY <1>7, <1>8, <5>2 DEF Inserted
          <6> QED
            BY <6>1, <6>2
        <5> QED
          BY <1>7, <4>1, <5>1, <5>2
      <4>2. PICK k \in 1 .. n : new[i] = sorted[k] /\ k = IF i < p THEN i ELSE i - 1
        BY <2>3, <4>1
      <4>3. PICK l \in 1 .. n : new[j] = sorted[l] /\ l = IF j < p THEN j ELSE j - 1
        BY <2>3, <4>1
      <4>4. k < l
        BY <1>7, <1>19, <2>3, <4>2, <4>3
      <4> QED
        BY <4>2, <4>3, <4>4
    <3> QED
      BY <2>2, <3>1
  <2>4. CASE j = p
    <3>1. i \in 1 .. n /\ i < p /\ new[i] = sorted[i] /\ new[j] = row
      BY <1>7, <1>8, <1>19, <2>4 DEF Inserted
    <3>2. sorted[i].was < row.was
      BY <1>1, <1>4, <1>5, <3>1 DEF TakenInOrder
    <3> QED
      BY <2>1, <3>1, <3>2
  <2>5. CASE i = p
    <3>1. PICK l \in 1 .. n : l >= p /\ new[j] = sorted[l] /\ new[i] = row
      BY <1>7, <1>8, <1>19, <2>5 DEF Inserted
    <3>2. Follows(sorted[l].value, row.value)
      BY <2>1, <3>1
    <3>3. row.value \in Seq(Nat) /\ sorted[l].value \in Seq(Nat)
      <4>1. sorted[l].value \in Listed /\ Listed \subseteq Values
        BY <1>1, <1>12, ListedAreValues
      <4> QED
        BY <1>1, <1>17, <4>1, ValuesAreSequences
    <3>4. ~Follows(row.value, sorted[l].value) /\ row.value # sorted[l].value
      BY <3>2, <3>3, FollowsIsAnOrder
    <3> QED
      BY <3>1, <3>4
  <2> QED
    BY <2>3, <2>4, <2>5
<1>20. InDictionaryOrder' /\ KeepsEarlierOrder'
  BY <1>2, <1>8, <1>9, <1>16, <1>19 DEF InDictionaryOrder, KeepsEarlierOrder
<1> QED
  BY <1>1, <1>2, <1>10, <1>18, <1>20 DEF SortInv

\* Where the rows are at each moment of the sort, in which order, and with which texts.
THEOREM SortInvariance == Spec => []SortInv
<1>1. ASSUME SortInv, [Next]_vars PROVE SortInv'
  <2>1. CASE Insert
    BY <1>1, <2>1, SortInvInsert
  <2>2. CASE UNCHANGED vars
    <3>1. column' = column /\ sort_order' = sort_order /\ unsorted' = unsorted /\ sorted' = sorted
      BY <2>2 DEF vars
    <3>2. Item' = Item /\ \A a, b : Follows(a, b)' <=> Follows(a, b)
      BY <3>1, OneColumn
    <3>3. Listed' = Listed /\ CanBeOrdered' = CanBeOrdered
      BY <3>1 DEF Listed, CanBeOrdered
    <3> QED
      BY <1>1, <3>1, <3>2, <3>3 DEF SortInv, TakenInOrder, InDictionaryOrder, KeepsEarlierOrder
  <2> QED
    BY <1>1, <2>1, <2>2 DEF Next, Sorted
<1> QED
  BY <1>1, SortInvInit, PTL DEF Spec

\* The predicate given to std::stable_sort is the strict weak order that it requires, for names
\* of any length and every size, date and number, unless an ascending sort meets a name and its
\* beginning.
THEOREM SortsByAnOrder == Spec => []PredicateIsAnOrder
<1>1. SortInv => PredicateIsAnOrder
  BY PredicateOrders, ListedAreValues DEF SortInv
<1> QED
  BY <1>1, SortInvariance, PTL

\* The rows sorted so far are in the order of a dictionary, or in its reverse.
THEOREM SortsAsADictionary == Spec => []InDictionaryOrder
<1>1. SortInv => InDictionaryOrder
  BY DEF SortInv
<1> QED
  BY <1>1, SortInvariance, PTL

\* The sort is stable: it keeps the order of the column sorted before among rows of one name.
THEOREM SortsStably == Spec => []KeepsEarlierOrder
<1>1. SortInv => KeepsEarlierOrder
  BY DEF SortInv
<1> QED
  BY <1>1, SortInvariance, PTL

\* What the user reads in a sorted column never contradicts its order: of any sizes of 64 bits,
\* no conversion to a double, no rounding of halves, up or to the even hundredth, and no change
\* of unit from one row to the next makes the smaller one read as more.
THEOREM ReadsAsSorted == Spec => []ReadsInOrder
<1>1. ASSUME SortInv PROVE ReadsInOrder
  <2>1. column \in ItemType /\ sorted \in Seq(Item) /\ InDictionaryOrder
    BY <1>1 DEF SortInv
  <2>2. ASSUME CanBeOrdered, NEW i \in DOMAIN sorted, NEW j \in DOMAIN sorted, i < j,
               Follows(Reading(sorted[i]), Reading(sorted[j]))
        PROVE  FALSE
    <3>1. sorted[i] \in Item /\ sorted[j] \in Item
      BY <2>1, LenProperties
    <3>2. ~Follows(sorted[i].value, sorted[j].value)
      BY <2>1, <2>2 DEF InDictionaryOrder
    <3> QED
      BY <2>1, <2>2, <3>1, <3>2, ReadingKeepsOrder DEF Follows
  <2> QED
    BY <2>2 DEF ReadsInOrder
<1> QED
  BY <1>1, SortInvariance, PTL
=============================================================================
