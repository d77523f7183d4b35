--------------------------- MODULE SizeTextProofs ---------------------------
(***************************************************************************)
(* Proofs about the texts that ColumnOrder makes of sizes: the conversion  *)
(* to a double and the rounding to hundredths both keep the order.         *)
(***************************************************************************)
EXTENDS ColumnOrder, TLAPS

-----------------------------------------------------------------------------
(* Seven digits in base 1024. *)

\* A number to which nothing can be carried that would need an eighth digit.
Number == {val \in [Places -> Nat] : val[1] < 1023 /\ \A i \in Places : val[i] < 1024}

HighOf(val) == val[5] + 1024 * (val[4] + 1024 * (val[3] + 1024 * (val[2] + 1024 * val[1])))
LowOf(val) == 1024 * val[6] + val[7]
ValueOf(val) == 1024 * 1024 * HighOf(val) + LowOf(val)

LEMMA SizesAreNumbers ==
  ASSUME NEW size \in Sizes
  PROVE  size \in Number /\ size[1] < 16
<1>1. size \in [Places -> Digit] /\ size[1] < 16
  BY ColumnOrderAssumption, Zenon
<1>2. \A d \in Digit : d \in Nat /\ d < 1024
  BY DEF Digit
<1>3. 1 \in Places
  BY DEF Places
<1>4. size[1] < 1023
  BY <1>1, <1>2, <1>3
<1> QED
  BY <1>1, <1>2, <1>4 DEF Number

LEMMA DigitType ==
  ASSUME NEW val \in Number, NEW i \in 1 .. 7
  PROVE  \E d \in Nat : d = val[i] /\ d < 1024
BY DEF Number, Places

LEMMA DigitTypes ==
  ASSUME NEW val \in Number
  PROVE  /\ val[1] \in Nat /\ val[1] < 1023
         /\ val[2] \in Nat /\ val[2] < 1024
         /\ val[3] \in Nat /\ val[3] < 1024
         /\ val[4] \in Nat /\ val[4] < 1024
         /\ val[5] \in Nat /\ val[5] < 1024
         /\ val[6] \in Nat /\ val[6] < 1024
         /\ val[7] \in Nat /\ val[7] < 1024
BY DEF Number, Places

LEMMA PartsType ==
  ASSUME NEW val \in Number
  PROVE  HighOf(val) \in Nat /\ LowOf(val) \in Nat /\ LowOf(val) < 1024 * 1024
<1>1. HighOf(val) \in Nat
  BY DigitTypes DEF HighOf
<1>2. LowOf(val) \in Nat /\ LowOf(val) < 1024 * 1024
  BY DigitTypes DEF LowOf
<1> QED
  BY <1>1, <1>2

LEMMA LastDigit ==
  ASSUME NEW d \in Nat, NEW e \in Nat, d < 1024, e < 1024, NEW x \in Nat, NEW y \in Nat,
         d + 1024 * x = e + 1024 * y
  PROVE  d = e /\ x = y
OBVIOUS

\* A number has one sequence of digits.
LEMMA HighDigits ==
  ASSUME NEW a \in Number, NEW b \in Number, HighOf(a) = HighOf(b)
  PROVE  a[1] = b[1] /\ a[2] = b[2] /\ a[3] = b[3] /\ a[4] = b[4] /\ a[5] = b[5]
<1>1. PICK d1 \in Nat : d1 = a[1] /\ d1 < 1024
  BY DigitTypes
<1>2. PICK d2 \in Nat : d2 = a[2] /\ d2 < 1024
  BY DigitTypes
<1>3. PICK d3 \in Nat : d3 = a[3] /\ d3 < 1024
  BY DigitTypes
<1>4. PICK d4 \in Nat : d4 = a[4] /\ d4 < 1024
  BY DigitTypes
<1>5. PICK d5 \in Nat : d5 = a[5] /\ d5 < 1024
  BY DigitTypes
<1>6. PICK e1 \in Nat : e1 = b[1] /\ e1 < 1024
  BY DigitTypes
<1>7. PICK e2 \in Nat : e2 = b[2] /\ e2 < 1024
  BY DigitTypes
<1>8. PICK e3 \in Nat : e3 = b[3] /\ e3 < 1024
  BY DigitTypes
<1>9. PICK e4 \in Nat : e4 = b[4] /\ e4 < 1024
  BY DigitTypes
<1>10. PICK e5 \in Nat : e5 = b[5] /\ e5 < 1024
  BY DigitTypes
<1> DEFINE p == d2 + 1024 * d1
           q == d3 + 1024 * p
           r == d4 + 1024 * q
           t == e2 + 1024 * e1
           u == e3 + 1024 * t
           v == e4 + 1024 * u
<1>11. p \in Nat /\ t \in Nat
  OBVIOUS
<1>12. q \in Nat /\ u \in Nat
  BY <1>11
<1>13. r \in Nat /\ v \in Nat
  BY <1>12
<1>14. d5 + 1024 * r = e5 + 1024 * v
  BY <1>1, <1>2, <1>3, <1>4, <1>5, <1>6, <1>7, <1>8, <1>9, <1>10 DEF HighOf
<1>15. /\ p = d2 + 1024 * d1 /\ q = d3 + 1024 * p /\ r = d4 + 1024 * q
       /\ t = e2 + 1024 * e1 /\ u = e3 + 1024 * t /\ v = e4 + 1024 * u
  OBVIOUS
<1>16. /\ d2 < 1024 /\ d3 < 1024 /\ d4 < 1024 /\ d5 < 1024
       /\ e2 < 1024 /\ e3 < 1024 /\ e4 < 1024 /\ e5 < 1024
  BY <1>2, <1>3, <1>4, <1>5, <1>7, <1>8, <1>9, <1>10
<1> HIDE DEF p, q, r, t, u, v
<1>17. d5 = e5 /\ r = v
  BY <1>13, <1>14, <1>16, LastDigit
<1>18. d4 = e4 /\ q = u
  BY <1>12, <1>15, <1>16, <1>17, LastDigit
<1>19. d3 = e3 /\ p = t
  BY <1>11, <1>15, <1>16, <1>18, LastDigit
<1>20. d2 = e2 /\ d1 = e1
  BY <1>15, <1>16, <1>19, LastDigit
<1> QED
  BY <1>1, <1>2, <1>3, <1>4, <1>5, <1>6, <1>7, <1>8, <1>9, <1>10, <1>17, <1>18, <1>19, <1>20

LEMMA DigitsOfValue ==
  ASSUME NEW a \in Number, NEW b \in Number, ValueOf(a) = ValueOf(b)
  PROVE  a = b
<1>1. HighOf(a) = HighOf(b) /\ LowOf(a) = LowOf(b)
  BY PartsType DEF ValueOf
<1>2. a[7] = b[7] /\ a[6] = b[6]
  BY <1>1, DigitTypes DEF LowOf
<1>3. ASSUME NEW i \in Places PROVE a[i] = b[i]
  BY <1>1, <1>2, HighDigits DEF Places
<1> QED
  BY <1>3 DEF Number

-----------------------------------------------------------------------------
(* The conversion to a double. *)

LEMMA NearestType ==
  ASSUME NEW n \in Nat, n < 1024 * 1024, NEW step \in Steps
  PROVE  Nearest(n, step) \in Nat /\ Nearest(n, step) <= 1024 * 1024
BY DEF Nearest, Steps

LEMMA NearestIsMonotone ==
  ASSUME NEW m \in Nat, NEW n \in Nat, m <= n, NEW step \in Steps
  PROVE  Nearest(m, step) <= Nearest(n, step)
BY DEF Nearest, Steps

LEMMA SpacingType ==
  ASSUME NEW size \in Sizes
  PROVE  Spacing(size) \in Steps
<1> DEFINE high == 1024 * size[1] + size[2]
<1>1. high \in Nat /\ high < 16384
  BY SizesAreNumbers, DigitTypes
<1> HIDE DEF high
<1>2. \E step \in Steps : high < 8 * step /\ (step = 1 \/ 4 * step <= high)
  BY <1>1 DEF Steps
<1>3. Spacing(size) = CHOOSE step \in Steps : high < 8 * step /\ (step = 1 \/ 4 * step <= high)
  BY DEF Spacing, high
<1> QED
  BY <1>2, <1>3

LEMMA CarriedIntoType ==
  ASSUME NEW size \in Sizes
  PROVE  /\ CarriedInto(size) \in 1 .. 5
         /\ size[CarriedInto(size)] # 1023
         /\ \A j \in CarriedInto(size) + 1 .. 5 : size[j] = 1023
<1>1. size[1] # 1023
  BY SizesAreNumbers, DigitTypes
<1>2. \E i \in 1 .. 5 : size[i] # 1023 /\ \A j \in i + 1 .. 5 : size[j] = 1023
  <2>1. CASE size[5] # 1023
    BY <2>1
  <2>2. CASE size[5] = 1023 /\ size[4] # 1023
    BY <2>2
  <2>3. CASE size[5] = 1023 /\ size[4] = 1023 /\ size[3] # 1023
    BY <2>3
  <2>4. CASE size[5] = 1023 /\ size[4] = 1023 /\ size[3] = 1023 /\ size[2] # 1023
    BY <2>4
  <2>5. CASE size[5] = 1023 /\ size[4] = 1023 /\ size[3] = 1023 /\ size[2] = 1023
    BY <1>1, <2>5
  <2> QED
    BY <2>1, <2>2, <2>3, <2>4, <2>5
<1> QED
  BY <1>2 DEF CarriedInto

\* Only the last two digits are rounded; what overflows is carried.
LEMMA DoubleValue ==
  ASSUME NEW size \in Sizes, NEW low \in Nat, low = Nearest(LowOf(size), Spacing(size))
  PROVE  Double(size) \in Number /\ ValueOf(Double(size)) = 1024 * 1024 * HighOf(size) + low
<1>1. size \in Number /\ size[1] < 16
  BY SizesAreNumbers
<1>2. LowOf(size) \in Nat /\ LowOf(size) < 1024 * 1024
  BY <1>1, DigitTypes DEF LowOf
<1>3. low <= 1024 * 1024
  BY <1>2, SpacingType, NearestType
<1> DEFINE p == CarriedInto(size)
<1>4. p \in 1 .. 5 /\ size[p] # 1023 /\ \A j \in p + 1 .. 5 : size[j] = 1023
  BY CarriedIntoType
<1>5. CASE low < 1024 * 1024
  <2>1. PICK d \in Nat, e \in Nat : d = low \div 1024 /\ e = low % 1024 /\ low = 1024 * d + e /\ d < 1024 /\ e < 1024
    BY <1>5
  <2>2. Double(size) = [size EXCEPT ![6] = d, ![7] = e]
    BY <1>5, <2>1 DEF Double, LowOf
  <2>3. /\ Double(size) \in [Places -> Nat]
        /\ Double(size)[1] = size[1] /\ Double(size)[2] = size[2] /\ Double(size)[3] = size[3]
        /\ Double(size)[4] = size[4] /\ Double(size)[5] = size[5] /\ Double(size)[6] = d /\ Double(size)[7] = e
    <3>1. size \in [Places -> Nat]
      BY <1>1 DEF Number
    <3>2. ASSUME NEW i \in 1 .. 7
          PROVE  i \in Places /\ Double(size)[i] = IF i = 7 THEN e ELSE IF i = 6 THEN d ELSE size[i]
      <4>1. i \in Places
        BY DEF Places
      <4> QED
        BY <2>2, <3>1, <4>1
    <3>3. Double(size) \in [Places -> Nat]
      <4>1. [size EXCEPT ![6] = d] \in [Places -> Nat]
        BY <3>1
      <4>2. Double(size) = [[size EXCEPT ![6] = d] EXCEPT ![7] = e]
        BY <2>2
      <4> QED
        BY <4>1, <4>2
    <3> QED
      BY <3>2, <3>3
  <2>4. Double(size) \in Number
    BY <1>1, <2>1, <2>3, DigitTypes DEF Number, Places
  <2>5. HighOf(Double(size)) = HighOf(size) /\ LowOf(Double(size)) = low
    BY <2>1, <2>3 DEF HighOf, LowOf
  <2> QED
    BY <2>4, <2>5 DEF ValueOf
<1>6. CASE low = 1024 * 1024
  <2>1. Double(size) = [i \in Places |-> IF i < p THEN size[i] ELSE IF i = p THEN size[p] + 1 ELSE 0]
    BY <1>6 DEF Double, LowOf
  <2> HIDE DEF p
  <2>2. ASSUME NEW i \in Places PROVE Double(size)[i] = IF i < p THEN size[i] ELSE IF i = p THEN size[p] + 1 ELSE 0
    BY <2>1
  <2>3. Double(size) \in Number
    <3>1. ASSUME NEW i \in Places PROVE Double(size)[i] \in Nat /\ Double(size)[i] < 1024 /\ (i = 1 => Double(size)[i] < 1023)
      <4>1. PICK d \in Nat : d = size[i] /\ d < 1024 /\ (i = 1 => d < 16)
        BY <1>1, DigitType DEF Places
      <4>2. CASE i = p
        BY <1>4, <2>2, <4>1, <4>2
      <4>3. CASE i # p
        BY <1>4, <2>2, <4>1, <4>3
      <4> QED
        BY <4>2, <4>3
    <3>2. 1 \in Places
      BY DEF Places
    <3> QED
      BY <2>1, <3>1, <3>2 DEF Number
  <2>4. /\ Double(size)[6] = 0 /\ Double(size)[7] = 0
        /\ \A i \in 1 .. 5 : Double(size)[i] = IF i < p THEN size[i] ELSE IF i = p THEN size[p] + 1 ELSE 0
    BY <1>4, <2>2 DEF Places
  <2>5. HighOf(Double(size)) = HighOf(size) + 1
    <3>1. CASE p = 1
      <4>1. size[2] = 1023 /\ size[3] = 1023 /\ size[4] = 1023 /\ size[5] = 1023
        BY <1>4, <3>1
      <4>2. /\ Double(size)[1] = size[1] + 1 /\ Double(size)[2] = 0 /\ Double(size)[3] = 0
            /\ Double(size)[4] = 0 /\ Double(size)[5] = 0
        BY <2>4, <3>1
      <4>3. PICK d \in Nat : d = size[1]
        BY <1>1, DigitTypes
      <4>4. HighOf(size) = 1023 + 1024 * (1023 + 1024 * (1023 + 1024 * (1023 + 1024 * d)))
        BY <4>1, <4>3 DEF HighOf
      <4>5. HighOf(Double(size)) = 1024 * (1024 * (1024 * (1024 * (d + 1))))
        BY <4>2, <4>3 DEF HighOf
      <4> QED
        BY <4>4, <4>5
    <3>2. CASE p = 2
      <4>1. size[3] = 1023 /\ size[4] = 1023 /\ size[5] = 1023
        BY <1>4, <3>2
      <4>2. /\ Double(size)[1] = size[1] /\ Double(size)[2] = size[2] + 1 /\ Double(size)[3] = 0
            /\ Double(size)[4] = 0 /\ Double(size)[5] = 0
        BY <2>4, <3>2
      <4>3. PICK c \in Nat, d \in Nat : c = size[1] /\ d = size[2]
        BY <1>1, DigitTypes
      <4>4. HighOf(size) = 1023 + 1024 * (1023 + 1024 * (1023 + 1024 * (d + 1024 * c)))
        BY <4>1, <4>3 DEF HighOf
      <4>5. HighOf(Double(size)) = 1024 * (1024 * (1024 * (d + 1 + 1024 * c)))
        BY <4>2, <4>3 DEF HighOf
      <4> QED
        BY <4>4, <4>5
    <3>3. CASE p = 3
      BY <1>1, <1>4, <2>4, <3>3, DigitTypes DEF HighOf
    <3>4. CASE p = 4
      BY <1>1, <1>4, <2>4, <3>4, DigitTypes DEF HighOf
    <3>5. CASE p = 5
      BY <1>1, <1>4, <2>4, <3>5, DigitTypes DEF HighOf
    <3> QED
      BY <1>4, <3>1, <3>2, <3>3, <3>4, <3>5
  <2>6. HighOf(size) \in Nat
    BY <1>1, DigitTypes DEF HighOf
  <2> QED
    BY <1>6, <2>3, <2>4, <2>5, <2>6 DEF ValueOf, LowOf
<1> QED
  BY <1>3, <1>5, <1>6

\* A greater size is no smaller double.
LEMMA DoubleKeepsOrder ==
  ASSUME NEW a \in Sizes, NEW b \in Sizes, ValueOf(a) <= ValueOf(b)
  PROVE  ValueOf(Double(a)) <= ValueOf(Double(b))
<1>1. a \in Number /\ b \in Number
  BY SizesAreNumbers
<1>2. PICK f \in Nat, g \in Nat, m \in Nat, n \in Nat :
        f = HighOf(a) /\ g = HighOf(b) /\ m = LowOf(a) /\ n = LowOf(b) /\ m < 1024 * 1024 /\ n < 1024 * 1024
  BY <1>1, PartsType
<1>3. f < g \/ (f = g /\ m <= n)
  BY <1>2 DEF ValueOf
<1>4. Spacing(a) \in Steps /\ Spacing(b) \in Steps
  BY SpacingType
<1>5. PICK low \in Nat : low = Nearest(m, Spacing(a)) /\ low <= 1024 * 1024
  BY <1>2, <1>4, NearestType
<1>6. PICK new \in Nat : new = Nearest(n, Spacing(b)) /\ new <= 1024 * 1024
  BY <1>2, <1>4, NearestType
<1>7. ValueOf(Double(a)) = 1024 * 1024 * f + low /\ ValueOf(Double(b)) = 1024 * 1024 * g + new
  BY <1>2, <1>5, <1>6, DoubleValue
<1>8. CASE f < g
  BY <1>5, <1>6, <1>7, <1>8
<1>9. CASE f = g /\ m <= n
  <2>1. a[1] = b[1] /\ a[2] = b[2]
    <3>1. HighOf(a) = HighOf(b)
      BY <1>2, <1>9
    <3> QED
      BY <1>1, <3>1, HighDigits
  <2>2. Spacing(a) = Spacing(b)
    BY <2>1 DEF Spacing
  <2>3. low <= new
    BY <1>4, <1>5, <1>6, <1>9, <2>2, NearestIsMonotone
  <2> QED
    BY <1>5, <1>6, <1>7, <1>9, <2>3
<1> QED
  BY <1>3, <1>8, <1>9

-----------------------------------------------------------------------------
(* The nearest hundredth. *)

\* c is a hundred times t / k, without what is after its point.
Floor(c, t, k) == c \in Nat /\ c * k <= 100 * t /\ 100 * t < (c + 1) * k

\* One more digit in front.
LEMMA FloorOfMore ==
  ASSUME NEW c \in Nat, NEW t \in Nat, NEW d \in Nat, NEW e \in Nat, e = (100 * d + c) \div 1024,
         NEW u \in Nat
  PROVE  /\ Floor(c, t, 1024) /\ u = d * (1024) + t => Floor(e, u, 1024 * 1024)
         /\ Floor(c, t, 1024 * 1024) /\ u = d * (1024 * 1024) + t => Floor(e, u, 1024 * 1024 * 1024)
         /\ Floor(c, t, 1024 * 1024 * 1024) /\ u = d * (1024 * 1024 * 1024) + t => Floor(e, u, 1024 * 1024 * 1024 * 1024)
         /\ Floor(c, t, 1024 * 1024 * 1024 * 1024) /\ u = d * (1024 * 1024 * 1024 * 1024) + t => Floor(e, u, 1024 * 1024 * 1024 * 1024 * 1024)
BY DEF Floor

LEMMA CarryEquation ==
  ASSUME NEW val \in Number
  PROVE  Carry(val) = [j \in 3 .. 8 |-> IF j = 8 THEN 0 ELSE (100 * val[j] + Carry(val)[j + 1]) \div 1024]
<1> DEFINE c7 == (100 * val[7] + 0) \div 1024
           c6 == (100 * val[6] + c7) \div 1024
           c5 == (100 * val[5] + c6) \div 1024
           c4 == (100 * val[4] + c5) \div 1024
           c3 == (100 * val[3] + c4) \div 1024
           f == [j \in 3 .. 8 |-> CASE j = 8 -> 0 [] j = 7 -> c7 [] j = 6 -> c6 [] j = 5 -> c5 [] j = 4 -> c4 [] j = 3 -> c3]
           Step(g) == [j \in 3 .. 8 |-> IF j = 8 THEN 0 ELSE (100 * val[j] + g[j + 1]) \div 1024]
<1>1. ASSUME NEW j \in 3 .. 8 PROVE f[j] = Step(f)[j]
  <2>1. CASE j = 8
    BY <2>1
  <2>2. CASE j = 7
    BY <2>2
  <2>3. CASE j = 6
    BY <2>3
  <2>4. CASE j = 5
    BY <2>4
  <2>5. CASE j = 4
    BY <2>5
  <2>6. CASE j = 3
    BY <2>6
  <2>7. j \in {3, 4, 5, 6, 7, 8}
    OBVIOUS
  <2> HIDE DEF f, Step
  <2> QED
    BY <2>1, <2>2, <2>3, <2>4, <2>5, <2>6, <2>7
<1>2. f = Step(f)
  BY <1>1
<1>3. Carry(val) = CHOOSE g : g = Step(g)
  BY DEF Carry
<1> HIDE DEF f, Step
<1>4. Carry(val) = Step(Carry(val))
  BY <1>2, <1>3
<1> QED
  BY <1>4 DEF Step

\* The digits after place 2, 3 ... as carried into it.
LEMMA CarryIsFloor ==
  ASSUME NEW val \in Number
  PROVE  /\ Floor(Carry(val)[7], val[7], 1024)
         /\ Floor(Carry(val)[6], LowOf(val), 1024 * 1024)
         /\ Floor(Carry(val)[5], val[5] * (1024 * 1024) + LowOf(val), 1024 * 1024 * 1024)
         /\ Floor(Carry(val)[4], val[4] * (1024 * 1024 * 1024) + (val[5] * (1024 * 1024) + LowOf(val)),
                  1024 * 1024 * 1024 * 1024)
         /\ Floor(Carry(val)[3], val[3] * (1024 * 1024 * 1024 * 1024) + (val[4] * (1024 * 1024 * 1024)
                  + (val[5] * (1024 * 1024) + LowOf(val))), 1024 * 1024 * 1024 * 1024 * 1024)
<1> DEFINE c == Carry(val)
<1>1. /\ c[8] = 0
      /\ c[7] = (100 * val[7] + c[8]) \div 1024
      /\ c[6] = (100 * val[6] + c[7]) \div 1024
      /\ c[5] = (100 * val[5] + c[6]) \div 1024
      /\ c[4] = (100 * val[4] + c[5]) \div 1024
      /\ c[3] = (100 * val[3] + c[4]) \div 1024
  <2>1. ASSUME NEW j \in 3 .. 8 PROVE c[j] = IF j = 8 THEN 0 ELSE (100 * val[j] + c[j + 1]) \div 1024
    <3>1. \A g : g = [k \in 3 .. 8 |-> IF k = 8 THEN 0 ELSE (100 * val[k] + g[k + 1]) \div 1024]
            => g[j] = IF j = 8 THEN 0 ELSE (100 * val[j] + g[j + 1]) \div 1024
      OBVIOUS
    <3> QED
      BY <3>1, CarryEquation
  <2> HIDE DEF c
  <2> QED
    BY <2>1
<1> HIDE DEF c
<1>2. PICK d3 \in Nat : d3 = val[3]
  BY DigitTypes
<1>3. PICK d4 \in Nat : d4 = val[4]
  BY DigitTypes
<1>4. PICK d5 \in Nat : d5 = val[5]
  BY DigitTypes
<1>5. PICK d6 \in Nat : d6 = val[6]
  BY DigitTypes
<1>6. PICK d7 \in Nat : d7 = val[7]
  BY DigitTypes
<1>7. PICK c7 \in Nat : c7 = c[7] /\ c7 = (100 * d7) \div 1024
  BY <1>1, <1>6
<1>8. PICK c6 \in Nat : c6 = c[6] /\ c6 = (100 * d6 + c7) \div 1024
  BY <1>1, <1>5, <1>7
<1>9. PICK c5 \in Nat : c5 = c[5] /\ c5 = (100 * d5 + c6) \div 1024
  <2>1. c[5] = (100 * d5 + c6) \div 1024
    BY <1>1, <1>4, <1>8
  <2>2. (100 * d5 + c6) \div 1024 \in Nat
    OBVIOUS
  <2> QED
    BY <2>1, <2>2
<1>10. PICK c4 \in Nat : c4 = c[4] /\ c4 = (100 * d4 + c5) \div 1024
  <2>1. c[4] = (100 * d4 + c5) \div 1024
    BY <1>1, <1>3, <1>9
  <2>2. (100 * d4 + c5) \div 1024 \in Nat
    OBVIOUS
  <2> QED
    BY <2>1, <2>2
<1>11. PICK c3 \in Nat : c3 = c[3] /\ c3 = (100 * d3 + c4) \div 1024
  <2>1. c[3] = (100 * d3 + c4) \div 1024
    BY <1>1, <1>2, <1>10
  <2>2. (100 * d3 + c4) \div 1024 \in Nat
    OBVIOUS
  <2> QED
    BY <2>1, <2>2
<1>12. PICK t6 \in Nat : t6 = d6 * 1024 + d7
  OBVIOUS
<1>13. PICK t5 \in Nat : t5 = d5 * (1024 * 1024) + t6
  OBVIOUS
<1>14. PICK t4 \in Nat : t4 = d4 * (1024 * 1024 * 1024) + t5
  OBVIOUS
<1>15. PICK t3 \in Nat : t3 = d3 * (1024 * 1024 * 1024 * 1024) + t4
  OBVIOUS
<1>16. Floor(c7, d7, 1024)
  BY <1>7 DEF Floor
<1>17. Floor(c6, t6, 1024 * 1024)
  BY <1>8, <1>12, <1>16, FloorOfMore
<1>18. Floor(c5, t5, 1024 * 1024 * 1024)
  BY <1>9, <1>13, <1>17, FloorOfMore
<1>19. Floor(c4, t4, 1024 * 1024 * 1024 * 1024)
  BY <1>10, <1>14, <1>18, FloorOfMore
<1>20. Floor(c3, t3, 1024 * 1024 * 1024 * 1024 * 1024)
  BY <1>11, <1>15, <1>19, FloorOfMore
<1>21. t6 = LowOf(val)
  BY <1>5, <1>6, <1>12 DEF LowOf
<1>22. Floor(c[7], val[7], 1024) /\ Floor(c[6], LowOf(val), 1024 * 1024)
  BY <1>6, <1>7, <1>8, <1>16, <1>17, <1>21
<1>23. Floor(c[5], val[5] * (1024 * 1024) + LowOf(val), 1024 * 1024 * 1024)
  BY <1>4, <1>9, <1>13, <1>18, <1>21
<1>24. Floor(c[4], val[4] * (1024 * 1024 * 1024) + (val[5] * (1024 * 1024) + LowOf(val)), 1024 * 1024 * 1024 * 1024)
  BY <1>3, <1>4, <1>10, <1>13, <1>14, <1>19, <1>21
<1>25. Floor(c[3], val[3] * (1024 * 1024 * 1024 * 1024) + (val[4] * (1024 * 1024 * 1024)
         + (val[5] * (1024 * 1024) + LowOf(val))), 1024 * 1024 * 1024 * 1024 * 1024)
  BY <1>2, <1>3, <1>4, <1>11, <1>13, <1>14, <1>15, <1>20, <1>21
<1> QED
  BY <1>22, <1>23, <1>24, <1>25 DEF c

\* v is nearer to h hundredths of 1024 * k than to others, or as near.
Near(h, v, k) == 1024 * k * h <= 100 * v + 512 * k /\ 100 * v <= 1024 * k * h + 512 * k

Rounds(h, d, e, c, t, v, k) ==
  Floor(c, t, k) /\ t < k /\ v = d * (1024 * k) + (e * k + t) =>
    /\ 100 * d <= h /\ h <= 100 * d + 100
    /\ Near(h, v, k)

RoundsAnywhere(h, d, e, c, t, v) ==
  /\ Rounds(h, d, e, c, t, v, 1024)
  /\ Rounds(h, d, e, c, t, v, 1024 * 1024)
  /\ Rounds(h, d, e, c, t, v, 1024 * 1024 * 1024)
  /\ Rounds(h, d, e, c, t, v, 1024 * 1024 * 1024 * 1024)
  /\ Rounds(h, d, e, c, t, v, 1024 * 1024 * 1024 * 1024 * 1024)

\* Half a hundredth more, and then what is after the point is left out.
LEMMA RoundsUp ==
  ASSUME NEW d \in Nat, NEW e \in Nat, e < 1024, NEW c \in Nat, NEW t \in Nat, NEW v \in Nat,
         NEW u \in Nat, u = 100 * d + (100 * e + c + 512) \div 1024
  PROVE  RoundsAnywhere(u, d, e, c, t, v)
<1>1. Rounds(u, d, e, c, t, v, 1024)
  BY DEF Rounds, Floor, Near
<1>2. Rounds(u, d, e, c, t, v, 1024 * 1024)
  BY DEF Rounds, Floor, Near
<1>3. Rounds(u, d, e, c, t, v, 1024 * 1024 * 1024)
  BY DEF Rounds, Floor, Near
<1>4. Rounds(u, d, e, c, t, v, 1024 * 1024 * 1024 * 1024)
  BY DEF Rounds, Floor, Near
<1>5. Rounds(u, d, e, c, t, v, 1024 * 1024 * 1024 * 1024 * 1024)
  BY DEF Rounds, Floor, Near
<1> QED
  BY <1>1, <1>2, <1>3, <1>4, <1>5 DEF RoundsAnywhere

\* A half may as well be rounded down.
LEMMA RoundsHalfDown ==
  ASSUME NEW d \in Nat, NEW e \in Nat, e < 1024, NEW c \in Nat, NEW v \in Nat, (100 * e) % 1024 = 512,
         NEW u \in Nat, u = 100 * d + (100 * e + c + 512) \div 1024
  PROVE  RoundsAnywhere(u - 1, d, e, c, 0, v)
<1>1. Rounds(u - 1, d, e, c, 0, v, 1024)
  BY DEF Rounds, Floor, Near
<1>2. Rounds(u - 1, d, e, c, 0, v, 1024 * 1024)
  BY DEF Rounds, Floor, Near
<1>3. Rounds(u - 1, d, e, c, 0, v, 1024 * 1024 * 1024)
  BY DEF Rounds, Floor, Near
<1>4. Rounds(u - 1, d, e, c, 0, v, 1024 * 1024 * 1024 * 1024)
  BY DEF Rounds, Floor, Near
<1>5. Rounds(u - 1, d, e, c, 0, v, 1024 * 1024 * 1024 * 1024 * 1024)
  BY DEF Rounds, Floor, Near
<1> QED
  BY <1>1, <1>2, <1>3, <1>4, <1>5 DEF RoundsAnywhere

\* Of two numbers rounded, the greater one does not read as less; numbers that are equal may
\* be rounded only in one way.
LEMMA NearestKeepsOrder ==
  ASSUME NEW g \in Nat, NEW h \in Nat, NEW v \in Nat, NEW w \in Nat, v <= w, h < g
  PROVE  /\ Near(g, v, 1024) /\ Near(h, w, 1024) => v = w
         /\ Near(g, v, 1024 * 1024) /\ Near(h, w, 1024 * 1024) => v = w
         /\ Near(g, v, 1024 * 1024 * 1024) /\ Near(h, w, 1024 * 1024 * 1024) => v = w
         /\ Near(g, v, 1024 * 1024 * 1024 * 1024) /\ Near(h, w, 1024 * 1024 * 1024 * 1024) => v = w
         /\ Near(g, v, 1024 * 1024 * 1024 * 1024 * 1024) /\ Near(h, w, 1024 * 1024 * 1024 * 1024 * 1024) => v = w
<1>1. Near(g, v, 1024) /\ Near(h, w, 1024) => v = w
  BY DEF Near
<1>2. Near(g, v, 1024 * 1024) /\ Near(h, w, 1024 * 1024) => v = w
  BY DEF Near
<1>3. Near(g, v, 1024 * 1024 * 1024) /\ Near(h, w, 1024 * 1024 * 1024) => v = w
  BY DEF Near
<1>4. Near(g, v, 1024 * 1024 * 1024 * 1024) /\ Near(h, w, 1024 * 1024 * 1024 * 1024) => v = w
  BY DEF Near
<1>5. Near(g, v, 1024 * 1024 * 1024 * 1024 * 1024) /\ Near(h, w, 1024 * 1024 * 1024 * 1024 * 1024) => v = w
  BY DEF Near
<1> QED
  BY <1>1, <1>2, <1>3, <1>4, <1>5

\* The same for the digits of a place.
NearAt(h, v, l) ==
  /\ l = 5 => Near(h, v, 1024)
  /\ l = 4 => Near(h, v, 1024 * 1024)
  /\ l = 3 => Near(h, v, 1024 * 1024 * 1024)
  /\ l = 2 => Near(h, v, 1024 * 1024 * 1024 * 1024)
  /\ l = 1 => Near(h, v, 1024 * 1024 * 1024 * 1024 * 1024)

TailOf(val, l) ==
  CASE l = 5 -> val[7]
    [] l = 4 -> LowOf(val)
    [] l = 3 -> val[5] * (1024 * 1024) + LowOf(val)
    [] l = 2 -> val[4] * (1024 * 1024 * 1024) + (val[5] * (1024 * 1024) + LowOf(val))
    [] l = 1 -> val[3] * (1024 * 1024 * 1024 * 1024) + (val[4] * (1024 * 1024 * 1024) + (val[5] * (1024 * 1024) + LowOf(val)))

\* What comes after the digit that follows the leading one.
LEMMA TailProperties ==
  ASSUME NEW val \in Number, NEW l \in 1 .. 5, \A j \in 1 .. l - 1 : val[j] = 0
  PROVE  /\ TailOf(val, l) \in Nat
         /\ (\A j \in l + 2 .. 7 : val[j] = 0) => TailOf(val, l) = 0
         /\ l = 5 => Floor(Carry(val)[l + 2], TailOf(val, l), 1024) /\ TailOf(val, l) < 1024
                     /\ ValueOf(val) = val[l] * (1024 * (1024)) + (val[l + 1] * (1024) + TailOf(val, l))
         /\ l = 4 => Floor(Carry(val)[l + 2], TailOf(val, l), 1024 * 1024) /\ TailOf(val, l) < 1024 * 1024
                     /\ ValueOf(val) = val[l] * (1024 * (1024 * 1024)) + (val[l + 1] * (1024 * 1024) + TailOf(val, l))
         /\ l = 3 => Floor(Carry(val)[l + 2], TailOf(val, l), 1024 * 1024 * 1024) /\ TailOf(val, l) < 1024 * 1024 * 1024
                     /\ ValueOf(val) = val[l] * (1024 * (1024 * 1024 * 1024)) + (val[l + 1] * (1024 * 1024 * 1024) + TailOf(val, l))
         /\ l = 2 => Floor(Carry(val)[l + 2], TailOf(val, l), 1024 * 1024 * 1024 * 1024) /\ TailOf(val, l) < 1024 * 1024 * 1024 * 1024
                     /\ ValueOf(val) = val[l] * (1024 * (1024 * 1024 * 1024 * 1024)) + (val[l + 1] * (1024 * 1024 * 1024 * 1024) + TailOf(val, l))
         /\ l = 1 => Floor(Carry(val)[l + 2], TailOf(val, l), 1024 * 1024 * 1024 * 1024 * 1024) /\ TailOf(val, l) < 1024 * 1024 * 1024 * 1024 * 1024
                     /\ ValueOf(val) = val[l] * (1024 * (1024 * 1024 * 1024 * 1024 * 1024)) + (val[l + 1] * (1024 * 1024 * 1024 * 1024 * 1024) + TailOf(val, l))
<1>1. /\ val[1] \in Nat /\ val[2] \in Nat /\ val[3] \in Nat /\ val[4] \in Nat
      /\ val[5] \in Nat /\ val[6] \in Nat /\ val[7] \in Nat
      /\ val[3] < 1024 /\ val[4] < 1024 /\ val[5] < 1024 /\ val[6] < 1024 /\ val[7] < 1024
  BY DigitTypes
<1>2. LowOf(val) \in Nat /\ LowOf(val) < 1024 * 1024 /\ LowOf(val) = 1024 * val[6] + val[7]
  BY PartsType DEF LowOf
<1>3. CASE l = 5
  <2>1. TailOf(val, l) = val[7] /\ l + 1 = 6 /\ l + 2 = 7
    BY <1>3 DEF TailOf
  <2>2. val[1] = 0 /\ val[2] = 0 /\ val[3] = 0 /\ val[4] = 0
    BY <1>3
  <2>3. TailOf(val, l) \in Nat /\ TailOf(val, l) < 1024
    BY <1>1, <1>2, <2>1
  <2>4. (\A j \in l + 2 .. 7 : val[j] = 0) => TailOf(val, l) = 0
    BY <1>3, <1>2, <2>1
  <2>5. Floor(Carry(val)[l + 2], TailOf(val, l), 1024)
    BY <2>1, CarryIsFloor
  <2>6. ValueOf(val) = val[5] * (1024 * (1024)) + (val[6] * (1024) + (val[7]))
    BY <1>1, <1>2, <2>2 DEF ValueOf, HighOf
  <2> QED
    BY <1>3, <2>1, <2>3, <2>4, <2>5, <2>6
<1>4. CASE l = 4
  <2>1. TailOf(val, l) = LowOf(val) /\ l + 1 = 5 /\ l + 2 = 6
    BY <1>4 DEF TailOf
  <2>2. val[1] = 0 /\ val[2] = 0 /\ val[3] = 0
    BY <1>4
  <2>3. TailOf(val, l) \in Nat /\ TailOf(val, l) < 1024 * 1024
    BY <1>1, <1>2, <2>1
  <2>4. (\A j \in l + 2 .. 7 : val[j] = 0) => TailOf(val, l) = 0
    BY <1>4, <1>2, <2>1
  <2>5. Floor(Carry(val)[l + 2], TailOf(val, l), 1024 * 1024)
    BY <2>1, CarryIsFloor
  <2>6. ValueOf(val) = val[4] * (1024 * (1024 * 1024)) + (val[5] * (1024 * 1024) + (LowOf(val)))
    BY <1>1, <1>2, <2>2 DEF ValueOf, HighOf
  <2> QED
    BY <1>4, <2>1, <2>3, <2>4, <2>5, <2>6
<1>5. CASE l = 3
  <2>1. TailOf(val, l) = val[5] * (1024 * 1024) + LowOf(val) /\ l + 1 = 4 /\ l + 2 = 5
    BY <1>5 DEF TailOf
  <2>2. val[1] = 0 /\ val[2] = 0
    BY <1>5
  <2>3. TailOf(val, l) \in Nat /\ TailOf(val, l) < 1024 * 1024 * 1024
    BY <1>1, <1>2, <2>1
  <2>4. (\A j \in l + 2 .. 7 : val[j] = 0) => TailOf(val, l) = 0
    BY <1>5, <1>2, <2>1
  <2>5. Floor(Carry(val)[l + 2], TailOf(val, l), 1024 * 1024 * 1024)
    BY <2>1, CarryIsFloor
  <2>6. ValueOf(val) = val[3] * (1024 * (1024 * 1024 * 1024)) + (val[4] * (1024 * 1024 * 1024) + (val[5] * (1024 * 1024) + LowOf(val)))
    BY <1>1, <1>2, <2>2 DEF ValueOf, HighOf
  <2> QED
    BY <1>5, <2>1, <2>3, <2>4, <2>5, <2>6
<1>6. CASE l = 2
  <2>1. TailOf(val, l) = val[4] * (1024 * 1024 * 1024) + (val[5] * (1024 * 1024) + LowOf(val)) /\ l + 1 = 3 /\ l + 2 = 4
    BY <1>6 DEF TailOf
  <2>2. val[1] = 0
    BY <1>6
  <2>3. TailOf(val, l) \in Nat /\ TailOf(val, l) < 1024 * 1024 * 1024 * 1024
    BY <1>1, <1>2, <2>1
  <2>4. (\A j \in l + 2 .. 7 : val[j] = 0) => TailOf(val, l) = 0
    BY <1>6, <1>2, <2>1
  <2>5. Floor(Carry(val)[l + 2], TailOf(val, l), 1024 * 1024 * 1024 * 1024)
    BY <2>1, CarryIsFloor
  <2>6. ValueOf(val) = val[2] * (1024 * (1024 * 1024 * 1024 * 1024)) + (val[3] * (1024 * 1024 * 1024 * 1024) + (val[4] * (1024 * 1024 * 1024) + (val[5] * (1024 * 1024) + LowOf(val))))
    BY <1>1, <1>2, <2>2 DEF ValueOf, HighOf
  <2> QED
    BY <1>6, <2>1, <2>3, <2>4, <2>5, <2>6
<1>7. CASE l = 1
  <2>1. TailOf(val, l) = val[3] * (1024 * 1024 * 1024 * 1024) + (val[4] * (1024 * 1024 * 1024) + (val[5] * (1024 * 1024) + LowOf(val))) /\ l + 1 = 2 /\ l + 2 = 3
    BY <1>7 DEF TailOf
  <2>2. TailOf(val, l) \in Nat /\ TailOf(val, l) < 1024 * 1024 * 1024 * 1024 * 1024
    BY <1>1, <1>2, <2>1
  <2>3. (\A j \in l + 2 .. 7 : val[j] = 0) => TailOf(val, l) = 0
    BY <1>7, <1>2, <2>1
  <2>4. Floor(Carry(val)[l + 2], TailOf(val, l), 1024 * 1024 * 1024 * 1024 * 1024)
    BY <2>1, CarryIsFloor
  <2>5. ValueOf(val) = val[1] * (1024 * (1024 * 1024 * 1024 * 1024 * 1024)) + (val[2] * (1024 * 1024 * 1024 * 1024 * 1024) + (val[3] * (1024 * 1024 * 1024 * 1024) + (val[4] * (1024 * 1024 * 1024) + (val[5] * (1024 * 1024) + LowOf(val)))))
    <3>1. PICK d1 \in Nat : d1 = val[1]
      BY <1>1
    <3>2. PICK d2 \in Nat : d2 = val[2]
      BY <1>1
    <3>3. PICK d3 \in Nat : d3 = val[3]
      BY <1>1
    <3>4. PICK d4 \in Nat : d4 = val[4]
      BY <1>1
    <3>5. PICK d5 \in Nat : d5 = val[5]
      BY <1>1
    <3>6. PICK low \in Nat : low = LowOf(val)
      BY <1>2
    <3>7. ValueOf(val) = 1024 * 1024 * (d5 + 1024 * (d4 + 1024 * (d3 + 1024 * (d2 + 1024 * d1)))) + low
      BY <3>1, <3>2, <3>3, <3>4, <3>5, <3>6 DEF ValueOf, HighOf
    <3>8. ValueOf(val) = d1 * (1024 * (1024 * 1024 * 1024 * 1024 * 1024)) + (d2 * (1024 * 1024 * 1024 * 1024 * 1024)
            + (d3 * (1024 * 1024 * 1024 * 1024) + (d4 * (1024 * 1024 * 1024) + (d5 * (1024 * 1024) + low))))
      BY <3>7
    <3> QED
      BY <3>1, <3>2, <3>3, <3>4, <3>5, <3>6, <3>8
  <2> QED
    BY <1>7, <2>1, <2>2, <2>3, <2>4, <2>5
<1> QED
  BY <1>3, <1>4, <1>5, <1>6, <1>7

\* What to_2digit_dec shows is nearest to the number, and agrees with its leading digit.
LEMMA HundredthsAreNearest ==
  ASSUME NEW val \in Number, NEW l \in 1 .. 5, \A j \in 1 .. l - 1 : val[j] = 0
  PROVE  \E h \in Nat : /\ h = Hundredths(val, l)
                        /\ 100 * val[l] <= h /\ h <= 100 * val[l] + 100
                        /\ NearAt(h, ValueOf(val), l)
<1>1. PICK d \in Nat : d = val[l]
  BY DigitType
<1>2. PICK e \in Nat : e = val[l + 1] /\ e < 1024
  <2>1. l + 1 \in 1 .. 7
    OBVIOUS
  <2> QED
    BY <2>1, DigitType
<1>3. PICK t \in Nat : t = TailOf(val, l)
  BY TailProperties
<1>4. PICK c \in Nat : c = Carry(val)[l + 2]
  <2>1. Carry(val)[l + 2] \in Nat
    BY TailProperties DEF Floor
  <2> QED
    BY <2>1
<1>5. PICK v \in Nat : v = ValueOf(val)
  BY PartsType DEF ValueOf
<1>6. PICK u \in Nat : u = 100 * d + (100 * e + c + 512) \div 1024
  OBVIOUS
<1>7. Hundredths(val, l) = IF Half(val, l) /\ ~HalvesUp /\ u % 2 = 1 THEN u - 1 ELSE u
  <2>1. u = 100 * val[l] + (100 * val[l + 1] + Carry(val)[l + 2] + 512) \div 1024
    BY <1>1, <1>2, <1>4, <1>6
  <2> QED
    BY <2>1 DEF Hundredths
<1>8. ASSUME NEW h \in Nat, RoundsAnywhere(h, d, e, c, t, v)
      PROVE  100 * d <= h /\ h <= 100 * d + 100 /\ NearAt(h, v, l)
  <2>1. CASE l = 5
    <3>1. Floor(c, t, 1024) /\ t < 1024 /\ v = d * (1024 * (1024)) + (e * (1024) + t)
      BY <1>1, <1>2, <1>3, <1>4, <1>5, <2>1, TailProperties
    <3> QED
      BY <1>8, <2>1, <3>1 DEF RoundsAnywhere, Rounds, NearAt
  <2>2. CASE l = 4
    <3>1. Floor(c, t, 1024 * 1024) /\ t < 1024 * 1024 /\ v = d * (1024 * (1024 * 1024)) + (e * (1024 * 1024) + t)
      BY <1>1, <1>2, <1>3, <1>4, <1>5, <2>2, TailProperties
    <3> QED
      BY <1>8, <2>2, <3>1 DEF RoundsAnywhere, Rounds, NearAt
  <2>3. CASE l = 3
    <3>1. Floor(c, t, 1024 * 1024 * 1024) /\ t < 1024 * 1024 * 1024 /\ v = d * (1024 * (1024 * 1024 * 1024)) + (e * (1024 * 1024 * 1024) + t)
      BY <1>1, <1>2, <1>3, <1>4, <1>5, <2>3, TailProperties
    <3> QED
      BY <1>8, <2>3, <3>1 DEF RoundsAnywhere, Rounds, NearAt
  <2>4. CASE l = 2
    <3>1. Floor(c, t, 1024 * 1024 * 1024 * 1024) /\ t < 1024 * 1024 * 1024 * 1024 /\ v = d * (1024 * (1024 * 1024 * 1024 * 1024)) + (e * (1024 * 1024 * 1024 * 1024) + t)
      BY <1>1, <1>2, <1>3, <1>4, <1>5, <2>4, TailProperties
    <3> QED
      BY <1>8, <2>4, <3>1 DEF RoundsAnywhere, Rounds, NearAt
  <2>5. CASE l = 1
    <3>1. Floor(c, t, 1024 * 1024 * 1024 * 1024 * 1024) /\ t < 1024 * 1024 * 1024 * 1024 * 1024 /\ v = d * (1024 * (1024 * 1024 * 1024 * 1024 * 1024)) + (e * (1024 * 1024 * 1024 * 1024 * 1024) + t)
      BY <1>1, <1>2, <1>3, <1>4, <1>5, <2>5, TailProperties
    <3> QED
      BY <1>8, <2>5, <3>1 DEF RoundsAnywhere, Rounds, NearAt
  <2> QED
    BY <2>1, <2>2, <2>3, <2>4, <2>5
<1>9. RoundsAnywhere(u, d, e, c, t, v)
  <2>1. e < 1024
    BY <1>2
  <2> QED
    BY <1>6, <2>1, RoundsUp
<1>10. ASSUME Half(val, l) PROVE u - 1 \in Nat /\ RoundsAnywhere(u - 1, d, e, c, t, v)
  <2>1. t = 0
    BY <1>3, <1>10, TailProperties DEF Half
  <2>2. (100 * e) % 1024 = 512
    BY <1>2, <1>10 DEF Half
  <2>3. u - 1 \in Nat
    BY <1>2, <1>6, <2>2
  <2> QED
    BY <1>2, <1>6, <2>1, <2>2, <2>3, RoundsHalfDown
<1>11. PICK h \in Nat : h = Hundredths(val, l) /\ RoundsAnywhere(h, d, e, c, t, v)
  BY <1>7, <1>9, <1>10
<1> QED
  BY <1>1, <1>5, <1>8, <1>11

-----------------------------------------------------------------------------
(* Texts and values. *)

\* The first digit that differs decides.
LEMMA FirstDigitDecides ==
  ASSUME NEW a \in Number, NEW b \in Number, NEW i \in 1 .. 7, a[i] < b[i], \A j \in 1 .. i - 1 : a[j] = b[j]
  PROVE  ValueOf(a) < ValueOf(b)
<1>1. PICK f \in Nat, g \in Nat, m \in Nat, n \in Nat :
        f = HighOf(a) /\ g = HighOf(b) /\ m = LowOf(a) /\ n = LowOf(b) /\ m < 1024 * 1024 /\ n < 1024 * 1024
  BY PartsType
<1>2. ValueOf(a) = 1024 * 1024 * f + m /\ ValueOf(b) = 1024 * 1024 * g + n
  BY <1>1 DEF ValueOf
<1>3. CASE i > 5
  <2>1. a[1] = b[1] /\ a[2] = b[2] /\ a[3] = b[3] /\ a[4] = b[4] /\ a[5] = b[5]
    BY <1>3
  <2>2. f = g
    BY <1>1, <2>1 DEF HighOf
  <2>3. m < n
    <3>1. CASE i = 6
      BY <1>1, <3>1, DigitTypes DEF LowOf
    <3>2. CASE i = 7
      <4>1. a[6] = b[6]
        BY <3>2
      <4> QED
        BY <1>1, <3>2, <4>1, DigitTypes DEF LowOf
    <3> QED
      BY <1>3, <3>1, <3>2
  <2> QED
    BY <1>2, <2>2, <2>3
<1>4. CASE i <= 5
  <2>1. PICK d1 \in Nat : d1 = a[1] /\ d1 < 1024
    BY DigitTypes
  <2>2. PICK d2 \in Nat : d2 = a[2] /\ d2 < 1024
    BY DigitTypes
  <2>3. PICK d3 \in Nat : d3 = a[3] /\ d3 < 1024
    BY DigitTypes
  <2>4. PICK d4 \in Nat : d4 = a[4] /\ d4 < 1024
    BY DigitTypes
  <2>5. PICK d5 \in Nat : d5 = a[5] /\ d5 < 1024
    BY DigitTypes
  <2>6. PICK e1 \in Nat : e1 = b[1]
    BY DigitTypes
  <2>7. PICK e2 \in Nat : e2 = b[2]
    BY DigitTypes
  <2>8. PICK e3 \in Nat : e3 = b[3]
    BY DigitTypes
  <2>9. PICK e4 \in Nat : e4 = b[4]
    BY DigitTypes
  <2>10. PICK e5 \in Nat : e5 = b[5]
    BY DigitTypes
  <2>11. f = d5 + 1024 * (d4 + 1024 * (d3 + 1024 * (d2 + 1024 * d1)))
    BY <1>1, <2>1, <2>2, <2>3, <2>4, <2>5 DEF HighOf
  <2>12. g = e5 + 1024 * (e4 + 1024 * (e3 + 1024 * (e2 + 1024 * e1)))
    BY <1>1, <2>6, <2>7, <2>8, <2>9, <2>10 DEF HighOf
  <2>13. /\ i = 1 => d1 < e1
         /\ i = 2 => d1 = e1 /\ d2 < e2
         /\ i = 3 => d1 = e1 /\ d2 = e2 /\ d3 < e3
         /\ i = 4 => d1 = e1 /\ d2 = e2 /\ d3 = e3 /\ d4 < e4
         /\ i = 5 => d1 = e1 /\ d2 = e2 /\ d3 = e3 /\ d4 = e4 /\ d5 < e5
    BY <2>1, <2>2, <2>3, <2>4, <2>5, <2>6, <2>7, <2>8, <2>9, <2>10
  <2>14. d2 < 1024 /\ d3 < 1024 /\ d4 < 1024 /\ d5 < 1024
    BY <2>2, <2>3, <2>4, <2>5
  <2>15. i = 1 \/ i = 2 \/ i = 3 \/ i = 4 \/ i = 5
    BY <1>4
  <2>16. f < g
    BY <2>11, <2>12, <2>13, <2>14, <2>15
  <2> QED
    BY <1>1, <1>2, <2>16
<1> QED
  BY <1>3, <1>4

\* The digit that names the unit, before which there are only zeros.
LEMMA LeadingProperties ==
  ASSUME NEW val \in Number
  PROVE  /\ Leading(val) \in 1 .. 7
         /\ \A j \in 1 .. Leading(val) - 1 : val[j] = 0
         /\ Leading(val) # 7 => val[Leading(val)] # 0
<1> DEFINE P(i) == val[i] # 0 /\ \A j \in 1 .. i - 1 : val[j] = 0
<1>1. CASE \A i \in Places : val[i] = 0
  <2>1. Leading(val) = 7
    BY <1>1 DEF Leading
  <2> QED
    BY <1>1, <2>1 DEF Places
<1>2. CASE ~\A i \in Places : val[i] = 0
  <2>1. P(1) \/ P(2) \/ P(3) \/ P(4) \/ P(5) \/ P(6) \/ P(7)
    BY <1>2 DEF Places
  <2>2. \E i \in Places : P(i)
    BY <2>1 DEF Places
  <2>3. Leading(val) = CHOOSE i \in Places : P(i)
    BY <1>2 DEF Leading
  <2> HIDE DEF P
  <2>4. Leading(val) \in Places /\ P(Leading(val))
    BY <2>2, <2>3
  <2> QED
    BY <2>4 DEF P, Places
<1> QED
  BY <1>1, <1>2

LEMMA DoubleType ==
  ASSUME NEW size \in Sizes
  PROVE  Double(size) \in Number
<1>1. LowOf(size) \in Nat /\ LowOf(size) < 1024 * 1024
  BY SizesAreNumbers, PartsType
<1>2. Nearest(LowOf(size), Spacing(size)) \in Nat
  BY <1>1, SpacingType, NearestType
<1> QED
  BY <1>2, DoubleValue

\* What a text shows, in hundredths of its unit.
LEMMA TextOfUnit ==
  ASSUME NEW size \in Sizes, NEW val \in Number, val = Double(size), NEW l \in 1 .. 7, Leading(val) = l
  PROVE  /\ MemoryText(size).unit = l
         /\ l = 7 => MemoryText(size).hundredths = 100 * val[7]
         /\ l = 6 => MemoryText(size).hundredths = 100 * (val[6] + (IF val[7] >= 512 THEN 1 ELSE 0))
         /\ l < 6 => MemoryText(size).hundredths = Hundredths(val, l)
BY DEF MemoryText, WholeKilobytes, TwoDigits

\* A text agrees with the leading digit, or with the next one.
LEMMA MemoryTextProperties ==
  ASSUME NEW size \in Sizes, NEW val \in Number, val = Double(size), NEW l \in 1 .. 7, Leading(val) = l,
         NEW x \in Nat, x = val[l]
  PROVE  \E h \in Nat : /\ h = MemoryText(size).hundredths
                        /\ 100 * x <= h
                        /\ h <= 100 * x + 100
                        /\ l = 7 => h = 100 * x
<1>1. CASE l < 6
  <2>1. PICK h \in Nat : h = Hundredths(val, l) /\ 100 * val[l] <= h /\ h <= 100 * val[l] + 100
    BY <1>1, LeadingProperties, HundredthsAreNearest
  <2>2. MemoryText(size).hundredths = h
    BY <1>1, <2>1, TextOfUnit
  <2> QED
    BY <1>1, <2>1, <2>2
<1>2. CASE l = 6
  <2>1. PICK y \in Nat : y = val[7]
    BY DigitTypes
  <2>2. MemoryText(size).hundredths = 100 * (x + (IF y >= 512 THEN 1 ELSE 0))
    BY <1>2, <2>1, TextOfUnit
  <2> QED
    BY <1>2, <2>2
<1>3. CASE l = 7
  <2>1. MemoryText(size).hundredths = 100 * x
    BY <1>3, TextOfUnit
  <2> QED
    BY <1>3, <2>1
<1> QED
  BY <1>1, <1>2, <1>3

\* Of two sizes in one unit, the one that shows less is the smaller double.
LEMMA TextKeepsOrder ==
  ASSUME NEW a \in Sizes, NEW b \in Sizes, NEW x \in Number, NEW y \in Number, x = Double(a), y = Double(b),
         NEW l \in 1 .. 7, Leading(x) = l, Leading(y) = l,
         NEW h \in Nat, NEW k \in Nat, h = MemoryText(a).hundredths, k = MemoryText(b).hundredths, h < k
  PROVE  ValueOf(x) < ValueOf(y)
<1>1. (\A j \in 1 .. l - 1 : x[j] = 0) /\ (\A j \in 1 .. l - 1 : y[j] = 0)
  BY LeadingProperties
<1>2. CASE l < 6
  <2>1. h = Hundredths(x, l) /\ k = Hundredths(y, l)
    BY <1>2, TextOfUnit
  <2>2. PICK v \in Nat, w \in Nat : v = ValueOf(x) /\ w = ValueOf(y)
    BY PartsType DEF ValueOf
  <2>3. NearAt(h, v, l) /\ NearAt(k, w, l)
    BY <1>1, <1>2, <2>1, <2>2, HundredthsAreNearest
  <2>4. ASSUME w <= v PROVE FALSE
    <3>1. w = v
      BY <1>2, <2>3, <2>4, NearestKeepsOrder DEF NearAt
    <3>2. x = y
      BY <2>2, <3>1, DigitsOfValue
    <3> QED
      BY <2>1, <3>2
  <2> QED
    BY <2>2, <2>4
<1>3. CASE l = 6 \/ l = 7
  <2>1. /\ x[1] = 0 /\ x[2] = 0 /\ x[3] = 0 /\ x[4] = 0 /\ x[5] = 0
        /\ y[1] = 0 /\ y[2] = 0 /\ y[3] = 0 /\ y[4] = 0 /\ y[5] = 0
    BY <1>1, <1>3
  <2>2. HighOf(x) = 0 /\ HighOf(y) = 0
    BY <2>1 DEF HighOf
  <2>3. PICK f \in Nat : f = x[6]
    BY DigitTypes
  <2>4. PICK g \in Nat : g = y[6]
    BY DigitTypes
  <2>5. PICK v \in Nat : v = x[7] /\ v < 1024
    BY DigitTypes
  <2>6. PICK w \in Nat : w = y[7] /\ w < 1024
    BY DigitTypes
  <2>7. ValueOf(x) = 1024 * f + v /\ ValueOf(y) = 1024 * g + w
    BY <2>2, <2>3, <2>4, <2>5, <2>6 DEF ValueOf, LowOf
  <2>8. CASE l = 6
    <3>1. h = 100 * (f + (IF v >= 512 THEN 1 ELSE 0)) /\ k = 100 * (g + (IF w >= 512 THEN 1 ELSE 0))
      BY <2>3, <2>4, <2>5, <2>6, <2>8, TextOfUnit
    <3> QED
      BY <2>5, <2>6, <2>7, <3>1
  <2>9. CASE l = 7
    <3>1. h = 100 * v /\ k = 100 * w
      BY <2>5, <2>6, <2>9, TextOfUnit
    <3>2. f = 0 /\ g = 0
      BY <1>1, <2>3, <2>4, <2>9
    <3> QED
      BY <2>7, <3>1, <3>2
  <2> QED
    BY <1>3, <2>8, <2>9
<1> QED
  BY <1>2, <1>3
=============================================================================
