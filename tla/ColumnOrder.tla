---------------------------- MODULE ColumnOrder ----------------------------
(***************************************************************************)
(* sort_table_on_column (wmi_process_table.cpp): a stable sort of the rows *)
(* by the items of one column, and what the user reads in that column      *)
(* (column_items.cpp, column_items.h).  A value is a sequence: the         *)
(* characters of a String, the digits in base 1024 of a Memory, minute and *)
(* second of a Date, the one number of an Integer.                         *)
(***************************************************************************)
EXTENDS Integers, Sequences, SequencesExt, Functions

CONSTANTS
  Chars,      \* characters, in the order of their lower case forms; numbers, minutes and seconds
  MaxLength,  \* bound: length of a name
  Sizes,      \* bound: sizes in bytes, most significant digit (exabytes) first
  HalvesUp,   \* the C runtime rounds half a hundredth up; a newer one rounds it to the even hundredth
  MaxRows     \* bound: rows of the table

Digit == 0 .. 1023
Places == 1 .. 7

\* Every size of 64 bits is one a host may report.
ASSUME ColumnOrderAssumption ==
  /\ Chars \subseteq Nat /\ MaxLength \in Nat /\ MaxRows \in Nat
  /\ \A size \in Sizes : size \in [Places -> Digit] /\ size[1] < 16
  /\ HalvesUp \in BOOLEAN

VARIABLES
  column,     \* the type of the column's items
  sort_order,
  unsorted,   \* the rows from `next` on
  sorted      \* the rows before it, in order

vars == <<column, sort_order, unsorted, sorted>>

Name == BoundedSeq(Chars, MaxLength)
SortOrder == {"Ascending", "Descending"}
ItemType == {"String", "Memory", "Date", "Integer"}

-----------------------------------------------------------------------------
(* compare *)

Smaller(m, n) == IF m < n THEN m ELSE n

\* _wcsnicmp on the first `count` characters.
CompareFirst(a, b, count) ==
  LET differ == {i \in 1 .. count : a[i] # b[i]} IN
  IF differ = {} THEN 0
  ELSE LET i == CHOOSE i \in differ : \A j \in differ : i <= j IN
       IF a[i] < b[i] THEN -1 ELSE 1

\* String::compare.  rlen is the length of the shorter name, so that the test for the first
\* one to be shorter than rlen never succeeds; without the second test no prefix would differ.
ComparePrefixes(a, b) == CompareFirst(a, b, Smaller(Len(a), Len(b)))
CompareString(a, b) ==
  LET rlen == Smaller(Len(a), Len(b))
      result == CompareFirst(a, b, rlen)
  IN CASE result # 0 -> result
       [] result = 0 /\ Len(a) < rlen -> -1
       [] result = 0 /\ Len(a) > rlen -> 1
       [] OTHER -> 0

\* Numbers are compared as such: the first digit, or part of a date, that differs decides.
CompareMemory(a, b) == CompareFirst(a, b, 7)
CompareDate(a, b) == CompareFirst(a, b, 2)
CompareInteger(a, b) == CompareFirst(a, b, 1)

Compare(a, b) ==
  CASE column = "String" -> CompareString(a, b)
    [] column = "Memory" -> CompareMemory(a, b)
    [] column = "Date" -> CompareDate(a, b)
    [] column = "Integer" -> CompareInteger(a, b)

\* The predicate given to std::stable_sort; one that is true of equals would reverse them.
BeforeOrEqual(a, b) == IF sort_order = "Ascending" THEN Compare(a, b) <= 0 ELSE Compare(a, b) >= 0
Before(a, b) == IF sort_order = "Ascending" THEN Compare(a, b) < 0 ELSE Compare(a, b) > 0

-----------------------------------------------------------------------------
(* What an item shows: the text made when a value is assigned to it. *)

\* The multiple of step nearest to n; of two, the one that is even in steps.
Nearest(n, step) ==
  LET q == n \div step
      r == n % step
  IN IF 2 * r > step \/ (2 * r = step /\ q % 2 = 1) THEN step * (q + 1) ELSE step * q

\* A double has 53 bits: the doubles near a size of up to 64 bits are so far apart.
Steps == {1, 2, 4, 8, 16, 32, 64, 128, 256, 512, 1024, 2048}
Spacing(size) ==
  LET high == 1024 * size[1] + size[2]
  IN CHOOSE step \in Steps : high < 8 * step /\ (step = 1 \/ 4 * step <= high)

\* The place into which an overflow of the last two digits is carried.
CarriedInto(size) == CHOOSE i \in 1 .. 5 : size[i] # 1023 /\ \A j \in i + 1 .. 5 : size[j] = 1023

\* static_cast<double>( value ): the nearest double.
Double(size) ==
  LET low == Nearest(1024 * size[6] + size[7], Spacing(size))
      p == CarriedInto(size)
  IN IF low < 1024 * 1024
     THEN [size EXCEPT ![6] = low \div 1024, ![7] = low % 1024]
     ELSE [i \in Places |-> IF i < p THEN size[i] ELSE IF i = p THEN size[p] + 1 ELSE 0]

\* The digit at which a number begins, or its last one: the unit found by dividing it by 1024
\* until less than 1024 are left.
Leading(val) ==
  IF \E i \in Places : val[i] # 0 THEN CHOOSE i \in Places : val[i] # 0 /\ \A j \in 1 .. i - 1 : val[j] = 0 ELSE 7

\* A hundred times the digits from place j on, as a fraction, without what is after its point.
Carry(val) ==
  LET carry[j \in 3 .. 8] == IF j = 8 THEN 0 ELSE (100 * val[j] + carry[j + 1]) \div 1024
  IN carry

\* Exactly half a hundredth is left.
Half(val, i) == (100 * val[i + 1]) % 1024 = 512 /\ \A j \in i + 2 .. 7 : val[j] = 0

\* to_2digit_dec: the nearest hundredth.  The zeros it removes at the end do not change the
\* number; they would if it removed them, and the point, from a whole number too.
Hundredths(val, i) ==
  LET up == 100 * val[i] + (100 * val[i + 1] + Carry(val)[i + 2] + 512) \div 1024
  IN IF Half(val, i) /\ ~HalvesUp /\ up % 2 = 1 THEN up - 1 ELSE up
TensStripped(val, i) == LET h == Hundredths(val, i) IN IF h % 1000 = 0 THEN h \div 10 ELSE h
TwoDigits(val, i) == Hundredths(val, i)

\* lround( val ), in hundredths.
WholeKilobytes(val) == 100 * (val[6] + (IF val[7] >= 512 THEN 1 ELSE 0))

\* memory_value_to_wstring: how many hundredths of which unit, "B" being 7.
MemoryText(size) ==
  LET val == Double(size)
      i == Leading(val)
  IN [unit |-> i, hundredths |-> CASE i = 7 -> 100 * val[7]
                                   [] i = 6 -> WholeKilobytes(val)
                                   [] OTHER -> TwoDigits(val, i)]

\* A Date shows no seconds.
DateText(value) == <<value[1]>>

Text(value) ==
  CASE column = "Memory" -> MemoryText(value)
    [] column = "Date" -> DateText(value)
    [] OTHER -> value

\* A row and where it was in the table before.
Numbered(values) ==
  [i \in DOMAIN values |-> [value |-> values[i], str_value |-> Text(values[i]), was |-> i]]

\* The column's values that the hosts report.
Values ==
  CASE column = "String" -> Name
    [] column = "Memory" -> Sizes
    [] column = "Date" -> {<<minute, second>> : minute, second \in Chars}
    [] column = "Integer" -> {<<n>> : n \in Chars}

Init ==
  /\ column \in ItemType
  /\ sort_order \in SortOrder
  /\ \E values \in BoundedSeq(Values, MaxRows) : unsorted = Numbered(values)
  /\ sorted = <<>>

-----------------------------------------------------------------------------
\* std::stable_sort inserts each of up to 32 rows into those before it, from the back,
\* after it has tried the front.
Place(row) ==
  LET stays == {i \in DOMAIN sorted : ~Before(row.value, sorted[i].value)} IN
  IF 1 \notin stays THEN 1 ELSE 1 + CHOOSE i \in stays : \A j \in stays : j <= i

Insert ==
  /\ unsorted # <<>>
  /\ sorted' = InsertAt(sorted, Place(Head(unsorted)), Head(unsorted))
  /\ unsorted' = Tail(unsorted)
  /\ UNCHANGED <<column, sort_order>>

Sorted == unsorted = <<>> /\ UNCHANGED vars

Next == Insert \/ Sorted

Spec == Init /\ [][Next]_vars

-----------------------------------------------------------------------------
(* Properties. *)

\* The order of a dictionary, in which a name follows its prefixes.
Less(a, b) ==
  \/ \E i \in DOMAIN a \cap DOMAIN b : a[i] < b[i] /\ \A j \in 1 .. i - 1 : a[j] = b[j]
  \/ IsStrictPrefix(a, b)

Listed == {row.value : row \in Range(unsorted \o sorted)}

\* compare(a, b) and compare(b, a) disagree about a name and its prefix, which only the
\* ascending order asks for.
CanBeOrdered == column # "String" \/ sort_order = "Descending" \/ \A a, b \in Listed : ~IsStrictPrefix(a, b)

\* What std::stable_sort requires of its predicate: a strict weak order of the names.  It has
\* it, except in an ascending sort of names one of which is the beginning of another.
PredicateIsAnOrder ==
  CanBeOrdered => \A a, b, c \in Listed :
    /\ ~(Before(a, b) /\ Before(b, a))
    /\ Before(a, b) => Before(a, c) \/ Before(c, b)

\* a may not come before b in a dictionary, or in its reverse.
Follows(a, b) == IF sort_order = "Ascending" THEN Less(b, a) ELSE Less(a, b)

\* The rows end up in the order of a dictionary, or its reverse.
InDictionaryOrder ==
  CanBeOrdered => \A i, j \in DOMAIN sorted : i < j => ~Follows(sorted[i].value, sorted[j].value)

\* Rows with the same name stay in the order of the column sorted before.
KeepsEarlierOrder ==
  CanBeOrdered => \A i, j \in DOMAIN sorted :
    i < j /\ sorted[i].value = sorted[j].value => sorted[i].was < sorted[j].was

\* A size as its reader understands it: 1024 of a unit are one of the next.
Amount(text) ==
  IF text.hundredths = 102400 THEN <<8 - text.unit, 100>> ELSE <<7 - text.unit, text.hundredths>>

Reading(row) == IF column = "Memory" THEN Amount(row.str_value) ELSE row.str_value

\* What the user reads in a sorted column never contradicts its order, although sizes are
\* rounded in units that change from row to row ("1024KB" after 1023.6 kilobytes).
ReadsInOrder ==
  CanBeOrdered => \A i, j \in DOMAIN sorted : i < j => ~Follows(Reading(sorted[i]), Reading(sorted[j]))

-----------------------------------------------------------------------------
(* The inductive invariant. *)

Item == {row \in [value : Values, str_value : {Text(v) : v \in Values}, was : Nat] : row.str_value = Text(row.value)}

\* The rows are taken from the table in its order: those still there come after the others.
TakenInOrder ==
  /\ \A i, j \in DOMAIN unsorted : i < j => unsorted[i].was < unsorted[j].was
  /\ \A i \in DOMAIN sorted, j \in DOMAIN unsorted : sorted[i].was < unsorted[j].was

\* The types of the variables, and what each insertion preserves: the text of a row is that of
\* its value, the rows sorted so far are in order, and rows of one name are taken in turn.
SortInv ==
  /\ column \in ItemType /\ sort_order \in SortOrder
  /\ unsorted \in Seq(Item) /\ sorted \in Seq(Item)
  /\ TakenInOrder
  /\ InDictionaryOrder
  /\ KeepsEarlierOrder
=============================================================================
