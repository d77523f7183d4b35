---------------------------- MODULE MCColumnOrder ----------------------------
(* ColumnOrder for TLC: sizes at the limits of the units and of rounding. *)
EXTENDS ColumnOrder

\* The digits from a place on; zeros elsewhere.
SizeAt(place, digits) ==
  [i \in Places |-> IF i - place + 1 \in DOMAIN digits THEN digits[i - place + 1] ELSE 0]

\* Bytes and kilobytes; 1, 9.5 and 1024 of a unit, and the next text below 1024; halves of a
\* hundredth; hundredths that the third digit decides; numbers half way between two doubles,
\* the last of a unit and of the type.
BoundarySizes ==
  {SizeAt(7, <<0>>), SizeAt(7, <<1023>>), SizeAt(6, <<1023, 511>>), SizeAt(6, <<1023, 512>>), SizeAt(5, <<1>>)}
    \cup {SizeAt(5, digits) : digits \in {<<1, 128>>, <<1, 128, 1>>, <<1, 384>>, <<10, 5, 122>>, <<10, 5, 123>>,
                                          <<1023, 1018, 901>>, <<1023, 1018, 902>>}}
    \cup {SizeAt(4, digits) : digits \in {<<1>>, <<9, 512>>, <<9, 1019, 0, 1>>}}
    \cup {SizeAt(2, digits) : digits \in {<<8, 0, 0, 0, 0, 1>>, <<8, 0, 0, 0, 0, 3>>, <<1023, 1023, 1023, 1023, 1023, 959>>,
                                          <<1023, 1023, 1023, 1023, 1023, 960>>}}
    \cup {SizeAt(1, <<15, 1019>>), SizeAt(1, <<15, 1023, 1023, 1023, 1023, 1023, 1023>>)}
=============================================================================
