------------------------ MODULE ProcessRecordsProofs ------------------------
(***************************************************************************)
(* Proofs about ProcessRecords, for integers of any widths in proportion:  *)
(* those of the program, 2^32 and 2^64, among them.                        *)
(***************************************************************************)
EXTENDS ProcessRecords, SequenceTheorems, WellFoundedInduction, TLAPS

-----------------------------------------------------------------------------
(* Remainders. *)

LEMMA Division ==
  ASSUME NEW n \in Int, NEW w \in Nat \ {0}
  PROVE  n \div w \in Int /\ n = w * (n \div w) + (n % w) /\ n % w \in 0 .. w - 1
OBVIOUS

LEMMA QuotientIsUnique ==
  ASSUME NEW w \in Nat \ {0}, NEW p \in Int, NEW q \in Int, NEW r \in 0 .. w - 1, NEW s \in 0 .. w - 1,
         w * p + r = w * q + s
  PROVE  r = s
<1>1. CASE p < q
  <2>1. w * (p + 1) <= w * q
    BY <1>1
  <2>2. w * p + w <= w * q
    BY <2>1
  <2> QED
    BY <2>2
<1>2. CASE q < p
  <2>1. w * (q + 1) <= w * p
    BY <1>2
  <2>2. w * q + w <= w * p
    BY <2>1
  <2> QED
    BY <2>2
<1>3. CASE p = q
  BY <1>3
<1> QED
  BY <1>1, <1>2, <1>3

LEMMA RemainderIs ==
  ASSUME NEW w \in Nat \ {0}, NEW n \in Int, NEW q \in Int, NEW r \in 0 .. w - 1, n = w * q + r
  PROVE  n % w = r
<1> DEFINE p == n \div w
           s == n % w
<1>1. p \in Int /\ s \in 0 .. w - 1 /\ w * p + s = w * q + r
  BY Division
<1> HIDE DEF p, s
<1>2. s = r
  BY <1>1, QuotientIsUnique
<1> QED
  BY <1>2 DEF s

\* Wrapping around at each step of a number's digits is wrapping around at the end.
LEMMA WrapsLikeTheWhole ==
  ASSUME NEW w \in Nat \ {0}, NEW n \in Nat, NEW d \in Nat
  PROVE  ((n % w) * 10 + d) % w = (n * 10 + d) % w
<1>1. PICK q \in Int, r \in 0 .. w - 1 : n = w * q + r /\ r = n % w
  <2>1. n \in Int /\ n \div w \in Int /\ n = w * (n \div w) + (n % w) /\ n % w \in 0 .. w - 1
    BY Division
  <2> QED
    BY <2>1
<1>2. PICK p \in Int, s \in 0 .. w - 1 : r * 10 + d = w * p + s /\ s = (r * 10 + d) % w
  <2> DEFINE n10 == r * 10 + d
  <2>1. n10 \in Int
    OBVIOUS
  <2> HIDE DEF n10
  <2>2. n10 \div w \in Int /\ n10 = w * (n10 \div w) + (n10 % w) /\ n10 % w \in 0 .. w - 1
    BY <2>1, Division
  <2> QED
    BY <2>2 DEF n10
<1>3. n * 10 + d = w * (10 * q + p) + s
  <2>1. n * 10 + d = 10 * (w * q) + (r * 10 + d)
    BY <1>1
  <2>2. w * (10 * q + p) = 10 * (w * q) + w * p
    OBVIOUS
  <2> QED
    BY <1>2, <2>1, <2>2
<1>4. (n * 10 + d) % w = s
  <2>1. n * 10 + d \in Int /\ 10 * q + p \in Int
    OBVIOUS
  <2> QED
    BY <1>2, <1>3, <2>1, RemainderIs
<1> QED
  BY <1>1, <1>2, <1>4

LEMMA SmallRemainder ==
  ASSUME NEW w \in Nat \ {0}, NEW n \in Nat, n < w
  PROVE  n % w = n
<1>1. n \in 0 .. w - 1 /\ n = w * 0 + n
  OBVIOUS
<1> QED
  BY <1>1, RemainderIs

-----------------------------------------------------------------------------
(* from_char_range: the numbers its loop goes through. *)

Results(digits, width) ==
  CHOOSE f : f = [i \in 0 .. Len(digits) |-> IF i = 0 THEN 0 ELSE (f[i - 1] * 10 + digits[i]) % width]

\* f has the results of the first n digits.
HasResults(f, digits, width, n) ==
  f = [i \in 0 .. n |-> IF i = 0 THEN 0 ELSE (f[i - 1] * 10 + digits[i]) % width]

LEMMA ResultIsTheLast == \A digits, width : FromCharRange(digits, width) = Results(digits, width)[Len(digits)]
BY DEF FromCharRange, Results

\* A set of natural numbers that is not empty has a least member.
LEMMA Least ==
  ASSUME NEW T \in SUBSET Nat, T # {}
  PROVE  \E x \in T : \A y \in T : x <= y
<1> DEFINE R == {ss \in Nat \X Nat : ss[1] < ss[2]}
<1>1. IsWellFoundedOn(R, Nat)
  BY NatLessThanWellFounded DEF OpToRel
<1>2. PICK x \in T : \A y \in T : <<y, x>> \notin R
  BY <1>1, WFMin
<1>3. \A y \in T : y < x => <<y, x>> \in R
  OBVIOUS
<1> HIDE DEF R
<1>4. ASSUME NEW y \in T PROVE x <= y
  <2>1. x \in Nat /\ y \in Nat
    OBVIOUS
  <2>2. ~(y < x)
    BY <1>2, <1>3
  <2> QED
    BY <2>1, <2>2
<1> QED
  BY <1>4

LEMMA ResultsExist ==
  ASSUME NEW digits, NEW width, NEW k \in Nat
  PROVE  \E f : HasResults(f, digits, width, k)
<1> DEFINE T == {n \in Nat : ~\E f : HasResults(f, digits, width, n)}
<1>1. SUFFICES ASSUME T # {} PROVE FALSE
  OBVIOUS
<1>2. PICK n \in T : \A m \in T : n <= m
  <2>1. T \in SUBSET Nat
    OBVIOUS
  <2> QED
    BY <1>1, <2>1, Least
<1>3. CASE n = 0
  <2> DEFINE f == [i \in 0 .. 0 |-> 0]
  <2>1. HasResults(f, digits, width, 0)
    BY DEF HasResults
  <2> QED
    BY <1>3, <2>1
<1>4. CASE n # 0
  <2>1. n \in Nat /\ n - 1 \in Nat /\ n - 1 \notin T
    BY <1>2, <1>4
  <2>2. PICK f : HasResults(f, digits, width, n - 1)
    BY <2>1
  <2> DEFINE g == [i \in 0 .. n |-> IF i = n THEN (f[n - 1] * 10 + digits[n]) % width ELSE f[i]]
  <2>3. ASSUME NEW i \in 0 .. n PROVE g[i] = IF i = 0 THEN 0 ELSE (g[i - 1] * 10 + digits[i]) % width
    <3>1. CASE i = 0
      BY <1>4, <2>1, <2>2, <3>1 DEF HasResults
    <3>2. CASE i = n
      <4>1. n - 1 \in 0 .. n /\ n - 1 # n
        BY <2>1
      <4> QED
        BY <1>4, <3>2, <4>1
    <3>3. CASE i # 0 /\ i # n
      <4>1. i \in 0 .. n - 1 /\ i - 1 \in 0 .. n /\ i - 1 # n /\ i # n
        BY <2>1, <3>3
      <4>2. f[i] = (f[i - 1] * 10 + digits[i]) % width
        BY <2>2, <3>3, <4>1 DEF HasResults
      <4> QED
        BY <3>3, <4>1, <4>2
    <3> QED
      BY <3>1, <3>2, <3>3
  <2>4. HasResults(g, digits, width, n)
    BY <2>3 DEF HasResults
  <2> QED
    BY <2>4
<1> QED
  BY <1>3, <1>4

LEMMA ResultsAre ==
  ASSUME NEW digits, NEW width, NEW n \in Nat, Len(digits) = n
  PROVE  HasResults(Results(digits, width), digits, width, n)
<1>1. \E f : HasResults(f, digits, width, n)
  BY ResultsExist
<1>2. Results(digits, width) = CHOOSE f : HasResults(f, digits, width, n)
  BY DEF Results, HasResults
<1> QED
  BY <1>1, <1>2

\* The first results of two numbers that begin with the same digits are the same.
LEMMA ResultsAgree ==
  ASSUME NEW s, NEW t, NEW width, NEW f, NEW g, NEW m \in Nat, NEW n \in Nat, m <= n,
         HasResults(f, s, width, m), HasResults(g, t, width, n), \A i \in 1 .. m : s[i] = t[i]
  PROVE  f[m] = g[m]
<1> DEFINE T == {k \in 0 .. m : f[k] # g[k]}
<1>1. SUFFICES ASSUME T # {} PROVE FALSE
  OBVIOUS
<1>2. PICK k \in T : \A j \in T : k <= j
  <2>1. T \in SUBSET Nat
    OBVIOUS
  <2> QED
    BY <1>1, <2>1, Least
<1>3. k \in 0 .. m /\ k \in 0 .. n /\ f[k] # g[k]
  OBVIOUS
<1>4. f[k] = IF k = 0 THEN 0 ELSE (f[k - 1] * 10 + s[k]) % width
  BY <1>3 DEF HasResults
<1>5. g[k] = IF k = 0 THEN 0 ELSE (g[k - 1] * 10 + t[k]) % width
  BY <1>3 DEF HasResults
<1>6. k # 0
  BY <1>3, <1>4, <1>5
<1>7. k - 1 \in 0 .. m /\ k - 1 \notin T /\ k \in 1 .. m
  BY <1>2, <1>3, <1>6
<1>8. f[k - 1] = g[k - 1] /\ s[k] = t[k]
  BY <1>7
<1> QED
  BY <1>3, <1>4, <1>5, <1>6, <1>8

\* What is read of one digit, and of one more.
LEMMA ReadsOneDigit ==
  ASSUME NEW d \in Nat, NEW width \in Nat \ {0}
  PROVE  FromCharRange(<<d>>, width) = d % width
<1> DEFINE s == <<d>>
           f == Results(s, width)
<1>1. Len(s) = 1 /\ s[1] = d
  OBVIOUS
<1> HIDE DEF s
<1>2. HasResults(f, s, width, 1)
  BY <1>1, ResultsAre
<1>3. FromCharRange(s, width) = f[1]
  BY <1>1, ResultIsTheLast
<1> HIDE DEF f
<1>4. f[0] = 0 /\ f[1] = (f[0] * 10 + s[1]) % width
  BY <1>2 DEF HasResults
<1> QED
  BY <1>1, <1>3, <1>4 DEF s

LEMMA ReadsOneMore ==
  ASSUME NEW s \in Seq(Nat), NEW d \in Nat, NEW width
  PROVE  FromCharRange(Append(s, d), width) = (FromCharRange(s, width) * 10 + d) % width
<1>1. PICK m \in Nat : m = Len(s)
  BY LenProperties
<1> DEFINE t == Append(s, d)
           f == Results(s, width)
           g == Results(t, width)
<1>2. Len(t) = m + 1 /\ t[m + 1] = d /\ \A i \in 1 .. m : s[i] = t[i]
  BY <1>1, AppendProperties
<1> HIDE DEF t
<1>3. HasResults(f, s, width, m) /\ HasResults(g, t, width, m + 1)
  BY <1>1, <1>2, ResultsAre
<1>4. FromCharRange(s, width) = f[m] /\ FromCharRange(t, width) = g[m + 1]
  BY <1>1, <1>2, ResultIsTheLast
<1> HIDE DEF f, g
<1>5. f[m] = g[m]
  <2>1. ASSUME NEW n \in Nat, n = m + 1 PROVE f[m] = g[m]
    <3>1. HasResults(g, t, width, n) /\ HasResults(f, s, width, m)
      BY <1>3, <2>1
    <3>2. m <= n /\ \A i \in 1 .. m : s[i] = t[i]
      BY <1>2, <2>1
    <3> QED
      BY <3>1, <3>2, ResultsAgree
  <2> QED
    BY <2>1
<1>6. g[m + 1] = (g[(m + 1) - 1] * 10 + t[m + 1]) % width
  <2>1. m + 1 \in 0 .. m + 1 /\ m + 1 # 0
    OBVIOUS
  <2> QED
    BY <1>3, <2>1 DEF HasResults
<1>7. (m + 1) - 1 = m
  OBVIOUS
<1> QED
  BY <1>2, <1>4, <1>5, <1>6, <1>7 DEF t

-----------------------------------------------------------------------------
(* The decimal digits of a number. *)

HasDigits(f, n) ==
  f = [i \in 0 .. n |-> IF i < 10 THEN <<i>> ELSE Append(f[i \div 10], i % 10)]

LEMMA TenTimes ==
  ASSUME NEW n \in Nat
  PROVE  /\ n \div 10 \in Nat /\ n % 10 \in Nat /\ n = (n \div 10) * 10 + (n % 10)
         /\ n # 0 => n \div 10 < n
OBVIOUS

LEMMA DigitsExist ==
  ASSUME NEW k \in Nat
  PROVE  \E f : HasDigits(f, k)
<1> DEFINE T == {n \in Nat : ~\E f : HasDigits(f, n)}
<1>1. SUFFICES ASSUME T # {} PROVE FALSE
  OBVIOUS
<1>2. PICK n \in T : \A m \in T : n <= m
  <2>1. T \in SUBSET Nat
    OBVIOUS
  <2> QED
    BY <1>1, <2>1, Least
<1>3. CASE n = 0
  <2> DEFINE f == [i \in 0 .. 0 |-> <<i>>]
  <2>1. HasDigits(f, 0)
    BY DEF HasDigits
  <2> QED
    BY <1>3, <2>1
<1>4. CASE n # 0
  <2>1. n \in Nat /\ n - 1 \in Nat /\ n - 1 \notin T
    BY <1>2, <1>4
  <2>2. PICK f : HasDigits(f, n - 1)
    BY <2>1
  <2> DEFINE Step(h, i) == IF i < 10 THEN <<i>> ELSE Append(h[i \div 10], i % 10)
             g == [i \in 0 .. n |-> IF i = n THEN Step(f, n) ELSE f[i]]
  <2>3. ASSUME NEW i \in 0 .. n PROVE g[i] = Step(g, i)
    <3>1. i # 0 => i \div 10 < i /\ i \div 10 \in 0 .. n
      BY TenTimes
    <3>2. i >= 10 => g[i \div 10] = f[i \div 10]
      BY <3>1
    <3>3. Step(g, i) = Step(f, i)
      BY <3>2
    <3>4. CASE i = n
      BY <3>3, <3>4
    <3>5. CASE i # n
      <4>1. i \in 0 .. n - 1
        BY <2>1, <3>5
      <4>2. f[i] = Step(f, i)
        BY <2>2, <4>1 DEF HasDigits
      <4> HIDE DEF Step
      <4> QED
        BY <3>3, <3>5, <4>2
    <3> QED
      BY <3>4, <3>5
  <2>4. g = [i \in 0 .. n |-> Step(g, i)]
    <3>1. g = [i \in 0 .. n |-> g[i]]
      OBVIOUS
    <3> HIDE DEF g, Step
    <3> QED
      BY <2>3, <3>1, Zenon
  <2>5. HasDigits(g, n)
    BY <2>4 DEF HasDigits
  <2> QED
    BY <2>5
<1> QED
  BY <1>3, <1>4

LEMMA Widths ==
  /\ Width32 \in Nat \ {0} /\ Width64 \in Nat \ {0} /\ Kilo \in Nat \ {0}
  /\ Width32 % 2 = 0 /\ Kilo * Width32 < Width64
BY ProcessRecordsAssumption, Zenon

LEMMA DigitsAre == HasDigits(Digits, Width64 - 1)
<1>1. Width64 - 1 \in Nat
  BY Widths
<1>2. \E f : HasDigits(f, Width64 - 1)
  BY <1>1, DigitsExist
<1>3. Digits = CHOOSE f : HasDigits(f, Width64 - 1)
  BY DEF Digits, HasDigits
<1> QED
  BY <1>2, <1>3

\* The digits of a number are read as the number, up to the width it is read in.
ReadRight(n, width) == Digits[n] \in Seq(Nat) /\ FromCharRange(Digits[n], width) = n % width

LEMMA DigitsAreReadRight ==
  ASSUME NEW n \in 0 .. Width64 - 1, NEW width \in Nat \ {0}
  PROVE  ReadRight(n, width)
<1> DEFINE T == {k \in 0 .. Width64 - 1 : ~ReadRight(k, width)}
<1>1. SUFFICES ASSUME T # {} PROVE FALSE
  OBVIOUS
<1>2. PICK k \in T : \A j \in T : k <= j
  <2>1. T \in SUBSET Nat
    OBVIOUS
  <2> QED
    BY <1>1, <2>1, Least
<1>3. k \in 0 .. Width64 - 1 /\ ~ReadRight(k, width)
  OBVIOUS
<1>4. Digits[k] = IF k < 10 THEN <<k>> ELSE Append(Digits[k \div 10], k % 10)
  BY <1>3, DigitsAre DEF HasDigits
<1>5. CASE k < 10
  <2>1. Digits[k] = <<k>> /\ k \in Nat
    BY <1>3, <1>4, <1>5
  <2>2. <<k>> \in Seq(Nat)
    BY <2>1
  <2> QED
    BY <1>3, <2>1, <2>2, ReadsOneDigit DEF ReadRight
<1>6. CASE k >= 10
  <2>1. PICK m \in Nat, d \in Nat : m = k \div 10 /\ d = k % 10 /\ k = m * 10 + d /\ m < k
    BY <1>3, <1>6, TenTimes
  <2>2. m \in 0 .. Width64 - 1 /\ m \notin T
    <3>1. m \in 0 .. Width64 - 1
      BY <1>3, <2>1, Widths
    <3> HIDE DEF T
    <3>2. m \notin T
      BY <1>2, <1>3, <2>1
    <3> QED
      BY <3>1, <3>2
  <2>3. Digits[m] \in Seq(Nat) /\ FromCharRange(Digits[m], width) = m % width
    BY <2>2 DEF ReadRight
  <2>4. Digits[k] = Append(Digits[m], d)
    BY <1>3, <1>4, <1>6, <2>1
  <2>5. Digits[k] \in Seq(Nat)
    BY <2>3, <2>4, AppendProperties
  <2>6. FromCharRange(Digits[k], width) = ((m % width) * 10 + d) % width
    BY <2>3, <2>4, ReadsOneMore
  <2>7. FromCharRange(Digits[k], width) = k % width
    <3>1. ((m % width) * 10 + d) % width = (m * 10 + d) % width
      BY WrapsLikeTheWhole
    <3> QED
      BY <2>1, <2>6, <3>1
  <2> QED
    BY <1>3, <2>5, <2>7 DEF ReadRight
<1> QED
  BY <1>3, <1>5, <1>6

-----------------------------------------------------------------------------
(* The getters. *)

\* Values are told apart.
LEMMA Apart ==
  /\ Throws # "number" /\ Throws # "BSTR" /\ Throws # "nothing"
  /\ Throws # "text" /\ Throws # "" /\ Throws # "date" /\ Throws # "now"
  /\ Null # "text" /\ Null # "date"
  /\ \A n \in Nat : n # Throws /\ n # Null
BY ProcessRecordsAssumption, Zenon

LEMMA NumbersDoNotThrow ==
  ASSUME NEW width \in Nat \ {0}, NEW n, n = 0 \/ n \in 0 .. width - 1
  PROVE  n \in 0 .. width - 1 /\ n # Throws
<1>1. n \in 0 .. width - 1 /\ n \in Nat
  OBVIOUS
<1> QED
  BY <1>1, Apart

LEMMA WhoIsCalled ==
  /\ Visited("VT_I4", IntegerVisitors) = "number" /\ Visited("VT_BSTR", IntegerVisitors) = "BSTR"
  /\ Visited("VT_NULL", IntegerVisitors) = "nothing"
  /\ Visited("VT_BSTR", {"BSTR", "nothing"}) = "BSTR" /\ Visited("VT_NULL", {"BSTR", "nothing"}) = "nothing"
  /\ Visited("VT_BSTR", {"BSTR", "number"}) = "BSTR" /\ Visited("VT_NULL", {"BSTR", "number"}) = Throws
BY DEF Visited, IntegerVisitors, Converts, NotVisited, Visitor, VisitorNull, VisitorEmpty, BadVariantAccess

\* A uint32 is read with its sign.
LEMMA GetsUint32 ==
  ASSUME NEW v \in Nat, NEW width
  PROVE  GetInteger(Variant("uint32", v), width) = (IF v < Width32 \div 2 THEN v ELSE v - Width32) % width
<1> DEFINE lVal == IF v < Width32 \div 2 THEN v ELSE v - Width32
           var == Variant("uint32", v)
<1>1. v # Null
  BY Apart
<1>2. var = [vt |-> "VT_I4", lVal |-> lVal]
  BY <1>1 DEF Variant
<1> HIDE DEF var
<1>3. var.vt = "VT_I4" /\ var.lVal = lVal
  BY <1>2
<1> HIDE DEF lVal
<1>4. GetInteger(var, width) = lVal % width
  BY <1>3, WhoIsCalled, Apart DEF GetInteger
<1> QED
  BY <1>4 DEF var, lVal

LEMMA GetsUint64 ==
  ASSUME NEW n \in 0 .. Width64 - 1, NEW width \in Nat \ {0}
  PROVE  GetInteger(Variant("uint64", n), width) = n % width
<1> DEFINE var == Variant("uint64", n)
<1>1. n # Null
  <2>1. n \in Nat
    BY Widths
  <2> QED
    BY <2>1, Apart
<1>2. var = [vt |-> "VT_BSTR", bstrVal |-> Digits[n]]
  BY <1>1 DEF Variant
<1> HIDE DEF var
<1>3. var.vt = "VT_BSTR" /\ var.bstrVal = Digits[n]
  BY <1>2
<1>4. GetInteger(var, width) = FromCharRange(Digits[n], width)
  BY <1>3, WhoIsCalled, Apart DEF GetInteger
<1>5. FromCharRange(Digits[n], width) = n % width
  BY DigitsAreReadRight DEF ReadRight
<1> QED
  BY <1>4, <1>5 DEF var

LEMMA GetsNothing ==
  ASSUME NEW type, NEW width
  PROVE  /\ GetInteger(Variant(type, Null), width) = 0
         /\ GetWstring(Variant(type, Null)) = ""
         /\ GetDatetime(Variant(type, Null)) = Throws
<1> DEFINE var == Variant(type, Null)
<1>1. var = [vt |-> "VT_NULL"]
  BY DEF Variant
<1> HIDE DEF var
<1>2. var.vt = "VT_NULL"
  BY <1>1
<1>4. GetInteger(var, width) = 0
  BY <1>2, WhoIsCalled, Apart DEF GetInteger
<1>5. GetWstring(var) = ""
  BY <1>2, WhoIsCalled, Apart DEF GetWstring
<1>6. GetDatetime(var) = Throws
  BY <1>2, WhoIsCalled, Apart DEF GetDatetime
<1> QED
  BY <1>4, <1>5, <1>6 DEF var

LEMMA GetsText ==
  ASSUME NEW type \in {"string", "datetime"}, NEW text, text # Null
  PROVE  /\ GetWstring(Variant(type, text)) = text
         /\ GetDatetime(Variant(type, text)) = IF text = "date" THEN "date" ELSE "now"
<1> DEFINE var == Variant(type, text)
<1>1. var = [vt |-> "VT_BSTR", bstrVal |-> text]
  BY DEF Variant
<1> HIDE DEF var
<1>2. var.vt = "VT_BSTR" /\ var.bstrVal = text
  BY <1>1
<1>3. GetWstring(var) = text
  BY <1>2, WhoIsCalled, Apart DEF GetWstring
<1>4. GetDatetime(var) = IF text = "date" THEN "date" ELSE "now"
  BY <1>2, WhoIsCalled, Apart DEF GetDatetime
<1> QED
  BY <1>3, <1>4 DEF var

-----------------------------------------------------------------------------
(* The properties of a process, by how they are read. *)

LEMMA Kinds ==
  ASSUME NEW n \in 1 .. 15
  PROVE  LET f == Fields[n] IN
         \/ CimType[f] = "string" /\ f \in {"Name", "CommandLine", "Handle"}
         \/ CimType[f] = "datetime" /\ f = "CreationDate"
         \/ CimType[f] = "uint32" /\ f \in InKilobytes
         \/ CimType[f] = "uint32" /\ f \in InUint32 \ {"WorkingSetSize"}
         \/ CimType[f] = "uint64" /\ f = "WorkingSetSize"
         \/ CimType[f] = "uint64" /\ f \in {"ReadTransferCount", "WriteTransferCount"}
<1>1. \/ n = 1 \/ n = 2 \/ n = 3 \/ n = 4 \/ n = 5 \/ n = 6 \/ n = 7 \/ n = 8 \/ n = 9
      \/ n = 10 \/ n = 11 \/ n = 12 \/ n = 13 \/ n = 14 \/ n = 15
  OBVIOUS
<1> QED
  BY <1>1 DEF Fields, CimType, InKilobytes, InUint32

LEMMA FieldCount == Len(Fields) = 15 /\ DOMAIN Fields = 1 .. 15
BY DEF Fields

-----------------------------------------------------------------------------
(* Which numbers survive. *)

LEMMA WordIsRead ==
  ASSUME NEW v \in 0 .. Width32 - 1
  PROVE  GetInteger(Variant("uint32", v), Width32) = v
<1>1. v \in Nat /\ Width32 \in Nat \ {0} /\ v < Width32
  BY Widths
<1>2. GetInteger(Variant("uint32", v), Width32) = (IF v < Width32 \div 2 THEN v ELSE v - Width32) % Width32
  BY <1>1, GetsUint32
<1>3. v % Width32 = v
  BY <1>1, SmallRemainder
<1>4. (v - Width32) % Width32 = v
  <2>1. v - Width32 \in Int /\ -1 \in Int /\ v - Width32 = Width32 * (-1) + v
    BY <1>1
  <2> QED
    BY <1>1, <2>1, RemainderIs
<1> QED
  BY <1>2, <1>3, <1>4

\* Kilobytes are those of the host unless their sign is taken for a number.
LEMMA KilobytesAreRead ==
  ASSUME NEW v \in 0 .. Width32 - 1
  PROVE  LET made == FromKilobytes(GetInteger(Variant("uint32", v), Width64)) IN
         /\ made \in 0 .. Width64 - 1
         /\ made = v * Kilo <=> v < Width32 \div 2
<1>1. PICK a \in Nat \ {0}, b \in Nat \ {0}, k \in Nat \ {0} : a = Width32 /\ b = Width64 /\ k = Kilo
  BY Widths
<1>2. v \in Nat /\ v < a /\ k * a < b
  BY <1>1, Widths
<1>3. GetInteger(Variant("uint32", v), b) = (IF v < a \div 2 THEN v ELSE v - a) % b
  BY <1>1, <1>2, GetsUint32
<1>4. a <= k * a /\ v * k <= k * a
  <2>1. v * k <= a * k /\ 1 * a <= k * a
    BY <1>2
  <2> QED
    BY <2>1
<1>5. CASE v < a \div 2
  <2>1. v % b = v
    BY <1>2, <1>4, SmallRemainder
  <2>2. v * k \in Nat /\ v * k < b
    BY <1>2, <1>4
  <2>3. (v * k) % b = v * k
    BY <2>2, SmallRemainder
  <2>4. FromKilobytes(GetInteger(Variant("uint32", v), Width64)) = v * k
    BY <1>1, <1>3, <1>5, <2>1, <2>3 DEF FromKilobytes
  <2>5. v * k \in 0 .. b - 1
    BY <2>2
  <2> QED
    BY <1>1, <1>5, <2>4, <2>5
<1>6. CASE ~(v < a \div 2)
  <2> DEFINE m == v - a + b
             r == b - k * (a - v)
  <2>1. m \in 0 .. b - 1 /\ v - a \in Int /\ v - a = b * (-1) + m
    BY <1>2, <1>4
  <2>2. (v - a) % b = m
    <3>1. -1 \in Int
      OBVIOUS
    <3> HIDE DEF m
    <3> QED
      BY <2>1, <3>1, RemainderIs
  <2>3. 1 <= k * (a - v) /\ k * (a - v) <= k * a
    <3>1. 1 <= a - v /\ a - v <= a
      BY <1>2
    <3>2. k * 1 <= k * (a - v) /\ k * (a - v) <= k * a
      BY <1>2, <3>1
    <3> QED
      BY <3>2
  <2>4. r \in 0 .. b - 1
    BY <1>2, <2>3
  <2>5. m * k = b * (k - 1) + r
    <3>1. m * k = v * k - a * k + b * k
      BY <1>2
    <3>2. b * (k - 1) = b * k - b
      OBVIOUS
    <3>3. k * (a - v) = a * k - v * k
      BY <1>2
    <3> QED
      BY <3>1, <3>2, <3>3
  <2>6. (m * k) % b = r
    <3>1. m * k \in Int /\ k - 1 \in Int
      BY <2>1
    <3> HIDE DEF m, r
    <3> QED
      BY <2>4, <2>5, <3>1, RemainderIs
  <2>7. FromKilobytes(GetInteger(Variant("uint32", v), Width64)) = r
    <3>1. GetInteger(Variant("uint32", v), Width64) = m
      BY <1>1, <1>3, <1>6, <2>2
    <3> HIDE DEF m, r
    <3> QED
      BY <1>1, <2>6, <3>1 DEF FromKilobytes
  <2>8. r # v * k
    <3>1. k * (a - v) = k * a - v * k
      BY <1>2
    <3> QED
      BY <1>2, <3>1
  <2> HIDE DEF r
  <2> QED
    BY <1>1, <1>6, <2>4, <2>7, <2>8
<1> QED
  BY <1>5, <1>6

\* A uint64 survives if it is less than the width it is read in.
LEMMA LongIsRead ==
  ASSUME NEW n \in 0 .. Width64 - 1, NEW width \in Nat \ {0}
  PROVE  LET made == GetInteger(Variant("uint64", n), width) IN
         made \in 0 .. width - 1 /\ (made = n <=> n < width)
<1>1. GetInteger(Variant("uint64", n), width) = n % width
  BY GetsUint64
<1>2. n \in Nat
  BY Widths
<1>3. n % width \in 0 .. width - 1
  BY <1>2, Division
<1>4. n < width => n % width = n
  BY <1>2, SmallRemainder
<1> QED
  BY <1>1, <1>2, <1>3, <1>4

-----------------------------------------------------------------------------
(* A cell: what make_wmi_process makes of one property of a record. *)

Cell(f, rec) == Make(f, Variant(CimType[f], rec[CimType[f]]))

\* It has its type, only a date of creation throws, and a number is the host's unless mangled.
CellIsRight(f, rec) ==
  /\ Cell(f, rec) # Throws => Cell(f, rec) \in Values(f)
  /\ Cell(f, rec) = Throws => rec.datetime = Null
  /\ CimType[f] \in {"uint32", "uint64"} =>
       (Cell(f, rec) = InBytes(f, rec[CimType[f]]) <=> rec[CimType[f]] = Null \/ ~Mangled(f, rec[CimType[f]]))

LEMMA RecordTypes ==
  ASSUME NEW rec \in Record
  PROVE  /\ rec["string"] \in {"text", Null} /\ rec["datetime"] \in {"date", "text", Null}
         /\ rec["uint32"] # Null => rec["uint32"] \in 0 .. Width32 - 1
         /\ rec["uint64"] # Null => rec["uint64"] \in 0 .. Width64 - 1
<1>1. /\ rec.string \in {"text", Null} /\ rec.datetime \in {"date", "text", Null}
      /\ rec.uint32 \in Uint32Values \cup {Null} /\ rec.uint64 \in Uint64Values \cup {Null}
  BY DEF Record
<1>2. Uint32Values \subseteq 0 .. Width32 - 1 /\ Uint64Values \subseteq 0 .. Width64 - 1
  BY ProcessRecordsAssumption, Zenon
<1> QED
  BY <1>1, <1>2

\* Which function reads which property.
LEMMA HowItIsMade ==
  ASSUME NEW f, NEW var
  PROVE  /\ f \in {"Name", "CommandLine", "Handle"} => Make(f, var) = GetWstring(var)
         /\ f = "CreationDate" => Make(f, var) = GetDatetime(var)
         /\ f \in InKilobytes => Make(f, var) = FromKilobytes(GetInteger(var, Width64))
         /\ f \in InUint32 => Make(f, var) = GetInteger(var, Width32)
         /\ f \in {"ReadTransferCount", "WriteTransferCount"} => Make(f, var) = GetInteger(var, Width64)
BY DEF Make, InKilobytes, InUint32

LEMMA TextCells ==
  ASSUME NEW f \in {"Name", "CommandLine", "Handle"}, CimType[f] = "string", NEW rec \in Record
  PROVE  CellIsRight(f, rec)
<1>1. Cell(f, rec) = GetWstring(Variant("string", rec["string"]))
  BY HowItIsMade DEF Cell
<1>2. Cell(f, rec) \in {"text", ""}
  <2>1. CASE rec["string"] = Null
    BY <1>1, <2>1, GetsNothing
  <2>2. CASE rec["string"] # Null
    BY <1>1, <2>2, GetsText, RecordTypes
  <2> QED
    BY <2>1, <2>2
<1>3. Values(f) = {"text", ""}
  BY DEF Values
<1> QED
  BY <1>2, <1>3, Apart DEF CellIsRight

LEMMA DateCells ==
  ASSUME NEW f, f = "CreationDate", CimType[f] = "datetime", NEW rec \in Record
  PROVE  CellIsRight(f, rec)
<1>1. Cell(f, rec) = GetDatetime(Variant("datetime", rec["datetime"]))
  BY HowItIsMade DEF Cell
<1>2. Values(f) = {"date", "now"}
  BY DEF Values
<1>3. CASE rec["datetime"] = Null
  BY <1>1, <1>3, GetsNothing DEF CellIsRight
<1>4. CASE rec["datetime"] # Null
  <2>1. Cell(f, rec) \in {"date", "now"}
    BY <1>1, <1>4, GetsText
  <2> QED
    BY <1>2, <2>1, Apart DEF CellIsRight
<1> QED
  BY <1>3, <1>4

LEMMA KilobyteCells ==
  ASSUME NEW f \in InKilobytes, CimType[f] = "uint32", NEW rec \in Record
  PROVE  CellIsRight(f, rec)
<1> DEFINE v == rec["uint32"]
           made == FromKilobytes(GetInteger(Variant("uint32", v), Width64))
<1>1. Cell(f, rec) = made /\ rec[CimType[f]] = v
  BY HowItIsMade DEF Cell
<1>2. Values(f) = 0 .. Width64 - 1
  BY DEF Values, InKilobytes, InUint32
<1>3. v # Null => v \in 0 .. Width32 - 1
  BY RecordTypes
<1> HIDE DEF v
<1>4. CASE v = Null
  <2>1. GetInteger(Variant("uint32", v), Width64) = 0
    BY <1>4, GetsNothing
  <2>2. 0 * Kilo = 0 /\ 0 % Width64 = 0
    BY Widths, SmallRemainder
  <2>3. made = 0
    BY <2>1, <2>2 DEF FromKilobytes
  <2>4. InBytes(f, v) = 0
    BY <1>4 DEF InBytes
  <2> HIDE DEF made
  <2>5. made \in 0 .. Width64 - 1 /\ made # Throws
    BY <2>3, Widths, NumbersDoNotThrow
  <2> QED
    BY <1>1, <1>2, <1>4, <2>3, <2>4, <2>5 DEF CellIsRight
<1>5. CASE v # Null
  <2>1. made \in 0 .. Width64 - 1 /\ (made = v * Kilo <=> v < Width32 \div 2)
    BY <1>3, <1>5, KilobytesAreRead
  <2>2. InBytes(f, v) = v * Kilo
    BY <1>5 DEF InBytes
  <2>3. Mangled(f, v) <=> ~(v < Width32 \div 2)
    <3>1. f # "WorkingSetSize"
      BY DEF InKilobytes
    <3>2. v \in Int /\ Width32 \div 2 \in Int
      BY <1>3, <1>5, Widths
    <3> QED
      BY <3>1, <3>2 DEF Mangled
  <2> HIDE DEF made
  <2>4. made # Throws
    BY <2>1, Widths, NumbersDoNotThrow
  <2> QED
    BY <1>1, <1>2, <1>5, <2>1, <2>2, <2>3, <2>4 DEF CellIsRight
<1> QED
  BY <1>4, <1>5

LEMMA WordCells ==
  ASSUME NEW f \in InUint32 \ {"WorkingSetSize"}, CimType[f] = "uint32", NEW rec \in Record
  PROVE  CellIsRight(f, rec)
<1> DEFINE v == rec["uint32"]
           made == GetInteger(Variant("uint32", v), Width32)
<1>1. Cell(f, rec) = made /\ rec[CimType[f]] = v
  BY HowItIsMade DEF Cell
<1>2. Values(f) = 0 .. Width32 - 1
  BY DEF Values
<1>3. v # Null => v \in 0 .. Width32 - 1
  BY RecordTypes
<1>4. f \notin InKilobytes
  BY DEF InUint32, InKilobytes
<1> HIDE DEF v
<1>5. CASE v = Null
  <2>1. made = 0 /\ InBytes(f, v) = 0
    BY <1>5, GetsNothing DEF InBytes
  <2> HIDE DEF made
  <2>2. made \in 0 .. Width32 - 1 /\ made # Throws
    BY <2>1, Widths, NumbersDoNotThrow
  <2> QED
    BY <1>1, <1>2, <1>5, <2>1, <2>2 DEF CellIsRight
<1>6. CASE v # Null
  <2>1. made = v /\ v \in 0 .. Width32 - 1
    BY <1>3, <1>6, WordIsRead
  <2>2. InBytes(f, v) = v /\ ~Mangled(f, v)
    BY <1>4, <1>6 DEF InBytes, Mangled
  <2> HIDE DEF made
  <2>3. made # Throws
    BY <2>1, Widths, NumbersDoNotThrow
  <2> QED
    BY <1>1, <1>2, <1>6, <2>1, <2>2, <2>3 DEF CellIsRight
<1> QED
  BY <1>5, <1>6

LEMMA LongCells ==
  ASSUME NEW f \in {"WorkingSetSize", "ReadTransferCount", "WriteTransferCount"}, CimType[f] = "uint64", NEW rec \in Record
  PROVE  CellIsRight(f, rec)
<1> DEFINE n == rec["uint64"]
           width == IF f = "WorkingSetSize" THEN Width32 ELSE Width64
           made == GetInteger(Variant("uint64", n), width)
<1>1. Cell(f, rec) = made /\ rec[CimType[f]] = n
  <2>1. f = "WorkingSetSize" => f \in InUint32
    BY DEF InUint32
  <2> QED
    BY <2>1, HowItIsMade DEF Cell
<1>2. Values(f) = 0 .. width - 1
  BY DEF Values, InUint32
<1>3. n # Null => n \in 0 .. Width64 - 1
  BY RecordTypes
<1>4. f \notin InKilobytes
  BY DEF InKilobytes
<1>5. width \in Nat \ {0} /\ (f = "WorkingSetSize" => width = Width32) /\ (f # "WorkingSetSize" => width = Width64)
  BY Widths
<1> HIDE DEF n, width
<1>6. CASE n = Null
  <2>1. made = 0 /\ InBytes(f, n) = 0
    BY <1>6, GetsNothing DEF InBytes
  <2> HIDE DEF made
  <2>2. made \in 0 .. width - 1 /\ made # Throws
    BY <1>5, <2>1, NumbersDoNotThrow
  <2> QED
    BY <1>1, <1>2, <1>6, <2>1, <2>2 DEF CellIsRight
<1>7. CASE n # Null
  <2>1. made \in 0 .. width - 1 /\ (made = n <=> n < width)
    BY <1>3, <1>5, <1>7, LongIsRead
  <2>2. InBytes(f, n) = n
    BY <1>4, <1>7 DEF InBytes
  <2>3. Mangled(f, n) <=> ~(n < width)
    <3>1. n \in Int /\ n < Width64 /\ Width32 \in Int
      BY <1>3, <1>7, Widths
    <3>2. CASE f = "WorkingSetSize"
      BY <1>4, <1>5, <3>1, <3>2 DEF Mangled
    <3>3. CASE f # "WorkingSetSize"
      BY <1>4, <1>5, <3>1, <3>3 DEF Mangled
    <3> QED
      BY <3>2, <3>3
  <2> HIDE DEF made
  <2>4. made # Throws
    BY <1>5, <2>1, NumbersDoNotThrow
  <2> QED
    BY <1>1, <1>2, <1>7, <2>1, <2>2, <2>3, <2>4 DEF CellIsRight
<1> QED
  BY <1>6, <1>7

LEMMA CellsAreRight ==
  ASSUME NEW n \in 1 .. 15, NEW rec \in Record
  PROVE  CellIsRight(Fields[n], rec)
BY Kinds, TextCells, DateCells, KilobyteCells, WordCells, LongCells
-----------------------------------------------------------------------------
(* The inductive invariant: an item is the cells of the record that is read,  *)
(* as far as it has been read, none of which threw; a row is all of them.     *)

CellsOf(rec, count) == [n \in 1 .. count |-> Cell(Fields[n], rec)]

NoneThrows(rec, count) == \A n \in 1 .. count : Cell(Fields[n], rec) # Throws

Rows == {[record |-> rec, item |-> CellsOf(rec, Len(Fields))] : rec \in {r \in Record : NoneThrows(r, Len(Fields))}}

\* An unread record leaves nothing behind.
BetweenRecords ==
  status \in {"next", "returned"} => record = Null /\ field = 0

WhileReading ==
  /\ status \in {"reading", "threw"} => record \in Record
  /\ status = "reading" => Len(rows) < MaxRecords

ItemIsTheRecords == item = CellsOf(record, field) /\ NoneThrows(record, field)

RecordsInv ==
  /\ status \in {"next", "reading", "returned", "threw"} /\ failed \in BOOLEAN
  /\ field \in 0 .. Len(Fields)
  /\ rows \in Seq(Rows) /\ Len(rows) <= MaxRecords
  /\ BetweenRecords /\ WhileReading /\ ItemIsTheRecords /\ FailsOnlyWithoutADate

CellsIn(rec) == {Cell(Fields[n], rec) : n \in 1 .. 15}

\* A cell is one of the cells of its record, so that the cells read so far are a sequence.
LEMMA CellsAreASequence ==
  ASSUME NEW rec, NEW count \in 0 .. 15
  PROVE  /\ CellsOf(rec, count) \in Seq(CellsIn(rec))
         /\ Len(CellsOf(rec, count)) = count
         /\ DOMAIN CellsOf(rec, count) = 1 .. count
         /\ \A n \in 1 .. count : CellsOf(rec, count)[n] = Cell(Fields[n], rec)
<1>1. count \in Nat /\ \A n \in 1 .. count : Cell(Fields[n], rec) \in CellsIn(rec)
  BY DEF CellsIn
<1>2. CellsOf(rec, count) \in Seq(CellsIn(rec)) /\ Len(CellsOf(rec, count)) = count
  BY <1>1, IsASeq DEF CellsOf
<1> QED
  BY <1>2 DEF CellsOf

LEMMA NothingRead ==
  ASSUME NEW rec
  PROVE  CellsOf(rec, 0) = <<>> /\ NoneThrows(rec, 0)
<1>1. CellsOf(rec, 0) \in Seq(CellsIn(rec)) /\ Len(CellsOf(rec, 0)) = 0
  BY CellsAreASequence
<1>2. CellsOf(rec, 0) = <<>>
  BY <1>1, EmptySeq
<1>3. 1 .. 0 = {}
  OBVIOUS
<1> QED
  BY <1>2, <1>3 DEF NoneThrows

LEMMA OneMoreCell ==
  ASSUME NEW rec, NEW count \in 0 .. 14, NEW next \in 1 .. 15, next = count + 1
  PROVE  /\ Append(CellsOf(rec, count), Cell(Fields[next], rec)) = CellsOf(rec, next)
         /\ NoneThrows(rec, count) /\ Cell(Fields[next], rec) # Throws => NoneThrows(rec, next)
<1> DEFINE S == CellsIn(rec)
           s == CellsOf(rec, count)
           t == CellsOf(rec, next)
           e == Cell(Fields[next], rec)
<1>1. /\ s \in Seq(S) /\ Len(s) = count /\ \A n \in 1 .. count : s[n] = Cell(Fields[n], rec)
      /\ t \in Seq(S) /\ Len(t) = next /\ \A n \in 1 .. next : t[n] = Cell(Fields[n], rec)
  <2>1. count \in 0 .. 15 /\ next \in 0 .. 15
    OBVIOUS
  <2>2. s \in Seq(S) /\ Len(s) = count /\ \A n \in 1 .. count : s[n] = Cell(Fields[n], rec)
    BY <2>1, CellsAreASequence, Zenon
  <2>3. t \in Seq(S) /\ Len(t) = next /\ \A n \in 1 .. next : t[n] = Cell(Fields[n], rec)
    BY <2>1, CellsAreASequence, Zenon
  <2> QED
    BY <2>2, <2>3
<1>2. e \in S
  BY DEF CellsIn
<1> HIDE DEF S, s, t
<1>3. /\ Append(s, e) \in Seq(S) /\ Len(Append(s, e)) = next /\ Append(s, e)[next] = e
      /\ \A n \in 1 .. count : Append(s, e)[n] = s[n]
  <2> HIDE DEF e
  <2> QED
    BY <1>1, <1>2, AppendProperties
<1>4. \A n \in 1 .. next : Append(s, e)[n] = t[n]
  BY <1>1, <1>3
<1>5. Append(s, e) = t
  <2> HIDE DEF e
  <2> QED
    BY <1>1, <1>3, <1>4, SeqEqual
<1>6. NoneThrows(rec, count) /\ e # Throws => NoneThrows(rec, next)
  BY DEF NoneThrows
<1> QED
  BY <1>5, <1>6 DEF s, t

-----------------------------------------------------------------------------

LEMMA RecordsAreBounded == MaxRecords \in Nat
BY ProcessRecordsAssumption, Zenon

LEMMA InitRecords == Init => RecordsInv
<1> SUFFICES ASSUME Init PROVE RecordsInv
  OBVIOUS
<1>1. ItemIsTheRecords
  BY NothingRead DEF Init, ItemIsTheRecords
<1>2. rows \in Seq(Rows) /\ Len(rows) = 0
  BY DEF Init
<1>3. Len(rows) <= MaxRecords
  BY <1>2, RecordsAreBounded
<1>4. status = "next" /\ failed = FALSE /\ record = Null /\ field = 0
  BY DEF Init
<1>5. BetweenRecords /\ WhileReading /\ FailsOnlyWithoutADate
  BY <1>4 DEF BetweenRecords, WhileReading, FailsOnlyWithoutADate
<1>6. field \in 0 .. Len(Fields)
  BY <1>4, FieldCount
<1> QED
  BY <1>1, <1>2, <1>3, <1>4, <1>5, <1>6 DEF RecordsInv

LEMMA NextRecords == RecordsInv /\ [Next]_vars => RecordsInv'
<1> SUFFICES ASSUME RecordsInv, [Next]_vars PROVE RecordsInv'
  OBVIOUS
<1> USE DEF RecordsInv
<1>1. CASE NextRecord
  <2>1. ItemIsTheRecords'
    <3>1. field = 0 /\ record = Null /\ field' = 0 /\ item' = item
      BY <1>1 DEF NextRecord, BetweenRecords
    <3>2. item = <<>>
      BY <3>1, NothingRead DEF ItemIsTheRecords
    <3> QED
      BY <3>1, <3>2, NothingRead DEF ItemIsTheRecords
  <2> QED
    BY <1>1, <2>1 DEF NextRecord, BetweenRecords, WhileReading, FailsOnlyWithoutADate
<1>2. CASE LastRecord
  <2>1. ItemIsTheRecords'
    BY <1>2 DEF LastRecord, ItemIsTheRecords
  <2> QED
    BY <1>2, <2>1 DEF LastRecord, BetweenRecords, WhileReading, FailsOnlyWithoutADate
<1>3. CASE GetFails
  <2>1. ItemIsTheRecords'
    BY <1>3 DEF GetFails, ItemIsTheRecords
  <2> QED
    BY <1>3, <2>1 DEF GetFails, BetweenRecords, WhileReading, FailsOnlyWithoutADate
<1>4. CASE GetProperty
  <2> DEFINE value == Cell(Fields[field + 1], record)
  <2>1. /\ status = "reading" /\ field \in 0 .. 14 /\ UNCHANGED <<record, rows, failed>>
        /\ value = Throws => status' = "threw" /\ UNCHANGED <<field, item>>
        /\ value # Throws => field' = field + 1 /\ item' = Append(item, value) /\ UNCHANGED status
    BY <1>4, FieldCount DEF GetProperty, Cell
  <2>2. record \in Record
    BY <2>1 DEF WhileReading
  <2>3. CASE value = Throws
    <3>1. ItemIsTheRecords'
      BY <2>1, <2>3 DEF ItemIsTheRecords
    <3>2. record.datetime = Null
      <4>1. field + 1 \in 1 .. 15
        BY <2>1
      <4> QED
        BY <2>2, <2>3, <4>1, CellsAreRight DEF CellIsRight
    <3> HIDE DEF value
    <3> QED
      BY <2>1, <2>2, <2>3, <3>1, <3>2 DEF BetweenRecords, WhileReading, FailsOnlyWithoutADate
  <2>4. CASE value # Throws
    <3>1. field' \in 1 .. 15 /\ field' = field + 1
      BY <2>1, <2>4
    <3>2. ItemIsTheRecords'
      <4>1. item' = Append(CellsOf(record, field), Cell(Fields[field'], record)) /\ record' = record
        BY <2>1, <2>4, <3>1 DEF ItemIsTheRecords
      <4>2. NoneThrows(record, field) /\ Cell(Fields[field'], record) # Throws
        BY <2>4, <3>1 DEF ItemIsTheRecords
      <4> QED
        BY <2>1, <3>1, <4>1, <4>2, OneMoreCell DEF ItemIsTheRecords
    <3> HIDE DEF value
    <3> QED
      BY <2>1, <2>2, <2>4, <3>1, <3>2, FieldCount DEF BetweenRecords, WhileReading, FailsOnlyWithoutADate
  <2> QED
    BY <2>3, <2>4
<1>5. CASE Insert
  <2>1. /\ status = "reading" /\ field = Len(Fields) /\ rows' = Append(rows, [record |-> record, item |-> item])
        /\ status' = "next" /\ record' = Null /\ field' = 0 /\ item' = <<>> /\ failed' = failed
    BY <1>5 DEF Insert
  <2>2. ItemIsTheRecords'
    BY <2>1, NothingRead DEF ItemIsTheRecords
  <2>3. [record |-> record, item |-> item] \in Rows
    BY <2>1 DEF WhileReading, ItemIsTheRecords, Rows
  <2>4. rows' \in Seq(Rows) /\ Len(rows') = Len(rows) + 1
    BY <2>1, <2>3, AppendProperties
  <2>5. Len(rows') <= MaxRecords
    BY <2>1, <2>4, RecordsAreBounded DEF WhileReading
  <2> QED
    BY <2>1, <2>2, <2>4, <2>5, FieldCount DEF BetweenRecords, WhileReading, FailsOnlyWithoutADate
<1>6. CASE UNCHANGED vars
  BY <1>6 DEF vars, BetweenRecords, WhileReading, ItemIsTheRecords, FailsOnlyWithoutADate
<1>7. CASE Ended
  BY <1>6, <1>7 DEF Ended
<1> QED
  BY <1>1, <1>2, <1>3, <1>4, <1>5, <1>6, <1>7 DEF Next

-----------------------------------------------------------------------------
(* Whatever the host reports.                                              *)

\* In every reachable state the item is what has been read of the record, nothing in it or in a
\* row threw, and a fetch that threw met a failed call or a process without a date.
THEOREM RecordsInvariance == Spec => []RecordsInv
<1> QED
  BY InitRecords, NextRecords, PTL DEF Spec

\* A cell that did not throw has its type.
LEMMA CellsHaveTheirTypes ==
  ASSUME NEW rec \in Record, NEW count \in 0 .. 15, NoneThrows(rec, count)
  PROVE  IsItem(CellsOf(rec, count))
<1>1. DOMAIN CellsOf(rec, count) = 1 .. count
  BY CellsAreASequence
<1>2. ASSUME NEW n \in 1 .. count PROVE CellsOf(rec, count)[n] \in Values(Fields[n])
  <2>1. CellsOf(rec, count)[n] = Cell(Fields[n], rec)
    BY DEF CellsOf
  <2>2. Cell(Fields[n], rec) # Throws
    BY DEF NoneThrows
  <2>3. n \in 1 .. 15
    OBVIOUS
  <2> QED
    BY <2>1, <2>2, <2>3, CellsAreRight DEF CellIsRight
<1> QED
  BY <1>1, <1>2 DEF IsItem

\* What a row of the vector is.
LEMMA RowsAreWhole ==
  ASSUME rows \in Seq(Rows), NEW row \in Range(rows)
  PROVE  /\ row.record \in Record /\ NoneThrows(row.record, 15)
         /\ row.item = CellsOf(row.record, 15)
<1>1. row \in Rows
  BY DEF Range
<1> QED
  BY <1>1, FieldCount DEF Rows

LEMMA RecordsImplyTypes == RecordsInv => TypeOK
<1> SUFFICES ASSUME RecordsInv PROVE TypeOK
  OBVIOUS
<1> USE DEF RecordsInv
<1>1. record \in Record \cup {Null}
  BY DEF BetweenRecords, WhileReading
<1>2. field \in 0 .. 15 /\ item = CellsOf(record, field)
  BY FieldCount DEF ItemIsTheRecords
<1>3. Len(item) = field
  BY <1>2, CellsAreASequence
<1>4. IsItem(item)
  <2>1. CASE record \in Record
    BY <1>2, <2>1, CellsHaveTheirTypes DEF ItemIsTheRecords
  <2>2. CASE record \notin Record
    <3>1. field = 0
      BY <2>2 DEF BetweenRecords, WhileReading
    <3>2. DOMAIN item = 1 .. 0
      BY <1>2, <3>1, CellsAreASequence
    <3> QED
      BY <3>2 DEF IsItem
  <2> QED
    BY <2>1, <2>2
<1>5. ASSUME NEW row \in Range(rows)
      PROVE  row.record \in Record /\ Len(row.item) = Len(Fields) /\ IsItem(row.item)
  <2>1. row.record \in Record /\ NoneThrows(row.record, 15) /\ row.item = CellsOf(row.record, 15)
    BY RowsAreWhole
  <2>2. 15 \in 0 .. 15
    OBVIOUS
  <2> QED
    BY <2>1, <2>2, CellsAreASequence, CellsHaveTheirTypes, FieldCount
<1> QED
  BY <1>1, <1>3, <1>4, <1>5 DEF TypeOK

\* Every cell of make_wmi_process has the type of its column, and a row has all of its columns.
THEOREM RecordsAreTyped == Spec => []TypeOK
<1> QED
  BY RecordsInvariance, RecordsImplyTypes, PTL

LEMMA RecordsImplyNumbers == RecordsInv => NumbersAreTheHosts
<1> SUFFICES ASSUME RecordsInv, NEW row \in Range(rows), NEW n \in 1 .. 15,
                    CimType[Fields[n]] \in {"uint32", "uint64"}
             PROVE  LET f == Fields[n]
                        value == row.record[CimType[f]]
                    IN row.item[n] = InBytes(f, value) <=> value = Null \/ ~Mangled(f, value)
  BY FieldCount DEF NumbersAreTheHosts
<1>1. row.record \in Record /\ row.item = CellsOf(row.record, 15)
  BY RowsAreWhole DEF RecordsInv
<1>2. row.item[n] = Cell(Fields[n], row.record)
  BY <1>1 DEF CellsOf
<1> QED
  BY <1>1, <1>2, CellsAreRight DEF CellIsRight

\* Formatted as digits, parsed into 32 or 64 bits, reinterpreted and multiplied: a number of a row
\* is the host's exactly if it is not one of the two kinds that the code mangles.
THEOREM ConvertsNumbers == Spec => []NumbersAreTheHosts
<1> QED
  BY RecordsInvariance, RecordsImplyNumbers, PTL

\* A property without a value loses the fetch only if it is the date of creation.
THEOREM LosesOnlyWithoutADate == Spec => []FailsOnlyWithoutADate
<1>1. RecordsInv => FailsOnlyWithoutADate
  BY DEF RecordsInv
<1> QED
  BY <1>1, RecordsInvariance, PTL
=============================================================================
