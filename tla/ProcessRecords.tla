--------------------------- MODULE ProcessRecords ---------------------------
(***************************************************************************)
(* How a fetch makes rows of what WMI reports: transform enumerates the    *)
(* records of Win32_Process, and make_wmi_process reads the properties of  *)
(* each through variant_visit (wmi_process.cpp, variant_visit.h).  An      *)
(* exception anywhere loses the whole fetch.                               *)
(*                                                                         *)
(* Integers have the widths of their types, scaled down.  A record has one *)
(* value per type of property, since no property is read with another.     *)
(***************************************************************************)
EXTENDS Integers, Sequences, SequencesExt

CONSTANTS
  Width32, Width64,  \* 2^32 and 2^64
  Kilo,              \* 1024
  Uint32Values,      \* bound: values of the host's uint32 properties
  Uint64Values,      \* bound: values of its uint64 properties
  MaxRecords,        \* bound: records of one enumeration
  Null,              \* the property has no value
  Throws             \* an exception, instead of a value

ASSUME ProcessRecordsAssumption ==
  /\ Null \notin Nat \cup {"text", "date"}
  /\ Throws \notin Nat \cup {"text", "date", "now", "", "number", "BSTR", "nothing", "null_value"}
  /\ {Width32, Width64, Kilo} \subseteq Nat \ {0}
  /\ Width32 % 2 = 0 /\ Kilo * Width32 < Width64
  /\ Uint32Values \subseteq 0 .. Width32 - 1
  /\ Uint64Values \subseteq 0 .. Width64 - 1
  /\ MaxRecords \in Nat

VARIABLES
  status,  \* "next", "reading", "returned" or "threw"
  record,  \* the record that is read, or Null
  field,   \* number of its properties that have been read
  item,    \* the wmi_process made of them so far
  rows,    \* the vector: each wmi_process and, as history, its record
  failed   \* history: a call of IWbemClassObject::Get has failed

vars == <<status, record, field, item, rows, failed>>

-----------------------------------------------------------------------------
(* WMI: Win32_Process, and its properties as VARIANTs. *)

Record == [string : {"text", Null}, uint32 : Uint32Values \cup {Null},
           uint64 : Uint64Values \cup {Null}, datetime : {"date", "text", Null}]

CimType ==
  [Name |-> "string", CommandLine |-> "string", ProcessId |-> "uint32", ParentProcessId |-> "uint32",
   SessionId |-> "uint32", Handle |-> "string", CreationDate |-> "datetime", ThreadCount |-> "uint32",
   PageFaults |-> "uint32", PageFileUsage |-> "uint32", PeakPageFileUsage |-> "uint32",
   WorkingSetSize |-> "uint64", PeakWorkingSetSize |-> "uint32", ReadTransferCount |-> "uint64",
   WriteTransferCount |-> "uint64"]

Digits[n \in 0 .. Width64 - 1] == IF n < 10 THEN <<n>> ELSE Append(Digits[n \div 10], n % 10)

\* A uint32 is the bits of a signed VT_I4, a uint64 a string of decimal digits.
Variant(type, value) ==
  IF value = Null THEN [vt |-> "VT_NULL"]
  ELSE CASE type = "uint32" -> [vt |-> "VT_I4", lVal |-> IF value < Width32 \div 2 THEN value ELSE value - Width32]
         [] type = "uint64" -> [vt |-> "VT_BSTR", bstrVal |-> Digits[value]]
         [] type \in {"string", "datetime"} -> [vt |-> "VT_BSTR", bstrVal |-> value]

-----------------------------------------------------------------------------
(* variant_visit: which of the visitors a VARIANT is given to. *)

Converts == {"VT_I1", "VT_I2", "VT_I4", "VT_I8", "VT_INT", "VT_UI1", "VT_UI2", "VT_UI4", "VT_UI8",
             "VT_UINT", "VT_R4", "VT_R8", "VT_DATE", "VT_BOOL", "VT_ERROR"}

\* Types that none of the program's visitors can be called with.
NotVisited == {"VT_CY", "VT_DISPATCH", "VT_VARIANT", "VT_UNKNOWN", "VT_DECIMAL", "VT_RECORD", "VT_ARRAY"}

\* The overloads with "..." are chosen when no visitor can be called.
BadVariantAccess == Throws

VisitorEmpty(visitors) == IF "nothing" \in visitors THEN "nothing" ELSE BadVariantAccess
VisitorNull(visitors) == IF "null_value" \in visitors THEN "null_value" ELSE VisitorEmpty(visitors)
Visitor(value, visitors) == IF value \in visitors THEN value ELSE BadVariantAccess

\* A type not listed here calls std::terminate, which is not modelled.
Visited(vt, visitors) ==
  CASE vt = "VT_EMPTY" -> VisitorEmpty(visitors)
    [] vt = "VT_NULL" -> VisitorNull(visitors)
    [] vt \in Converts -> Visitor("number", visitors)
    [] vt = "VT_BSTR" -> Visitor("BSTR", visitors)
    [] vt \in NotVisited -> BadVariantAccess

\* The loop of from_char_range in the type it is instantiated with; each step wraps around.
NeverWraps(digits, width) ==
  LET result[i \in 0 .. Len(digits)] == IF i = 0 THEN 0 ELSE result[i - 1] * 10 + digits[i]
  IN result[Len(digits)]
FromCharRange(digits, width) ==
  LET result[i \in 0 .. Len(digits)] == IF i = 0 THEN 0 ELSE (result[i - 1] * 10 + digits[i]) % width
  IN result[Len(digits)]

\* The visitor of nothing is there to "not fail"; without it a property without a value would.
NumbersRequired == {"number", "BSTR"}
IntegerVisitors == {"number", "BSTR", "nothing"}

\* A signed number becomes an unsigned one of the same or a greater width.
GetInteger(var, width) ==
  LET visitor == Visited(var.vt, IntegerVisitors) IN
  CASE visitor = "number" -> var.lVal % width
    [] visitor = "BSTR" -> FromCharRange(var.bstrVal, width)
    [] visitor = "nothing" -> 0
    [] visitor = Throws -> Throws

GetWstring(var) ==
  LET visitor == Visited(var.vt, {"BSTR", "nothing"}) IN
  CASE visitor = "BSTR" -> var.bstrVal
    [] visitor = "nothing" -> ""
    [] visitor = Throws -> Throws

\* A DATE that VariantTimeToSystemTime refuses is an exception.
FromVariantDate(date) == IF date = "date" THEN "date" ELSE Throws

\* Text that is no date becomes the current time; no visitor takes nothing.
GetDatetime(var) ==
  LET visitor == Visited(var.vt, {"BSTR", "number"}) IN
  CASE visitor = "BSTR" -> IF var.bstrVal = "date" THEN "date" ELSE "now"
    [] visitor = "number" -> FromVariantDate(var.date)
    [] visitor = Throws -> Throws

\* WMI counts page files and the peak working set in kilobytes, the rest in bytes.
UnitForgotten(n) == n
FromKilobytes(n) == (n * Kilo) % Width64

-----------------------------------------------------------------------------
(* make_wmi_process. *)

Fields == <<"Name", "CommandLine", "ProcessId", "ParentProcessId", "SessionId", "Handle", "CreationDate",
            "ThreadCount", "PageFaults", "PageFileUsage", "PeakPageFileUsage", "WorkingSetSize",
            "PeakWorkingSetSize", "ReadTransferCount", "WriteTransferCount">>

InKilobytes == {"PageFileUsage", "PeakPageFileUsage", "PeakWorkingSetSize"}
InUint32 == {"ProcessId", "ParentProcessId", "SessionId", "ThreadCount", "PageFaults", "WorkingSetSize"}

Make(f, var) ==
  CASE f \in {"Name", "CommandLine", "Handle"} -> GetWstring(var)
    [] f = "CreationDate" -> GetDatetime(var)
    [] f \in InKilobytes -> FromKilobytes(GetInteger(var, Width64))
    [] f \in InUint32 -> GetInteger(var, Width32)
    [] OTHER -> GetInteger(var, Width64)

Init ==
  /\ status = "next" /\ record = Null /\ field = 0 /\ item = <<>>
  /\ rows = <<>> /\ failed = FALSE

NextRecord ==
  /\ status = "next" /\ Len(rows) < MaxRecords
  /\ status' = "reading" /\ record' \in Record
  /\ UNCHANGED <<field, item, rows, failed>>

\* No more records, or an error that is taken for the end.
LastRecord ==
  /\ status = "next"
  /\ status' = "returned"
  /\ UNCHANGED <<record, field, item, rows, failed>>

GetFails ==
  /\ status = "reading" /\ field < Len(Fields)
  /\ status' = "threw" /\ failed' = TRUE
  /\ UNCHANGED <<record, field, item, rows>>

GetProperty ==
  /\ status = "reading" /\ field < Len(Fields)
  /\ LET f == Fields[field + 1]
         value == Make(f, Variant(CimType[f], record[CimType[f]]))
     IN IF value = Throws
        THEN status' = "threw" /\ UNCHANGED <<field, item>>
        ELSE field' = field + 1 /\ item' = Append(item, value) /\ UNCHANGED status
  /\ UNCHANGED <<record, rows, failed>>

\* back_inserter: the vector takes the finished wmi_process.
Insert ==
  /\ status = "reading" /\ field = Len(Fields)
  /\ rows' = Append(rows, [record |-> record, item |-> item])
  /\ status' = "next" /\ record' = Null /\ field' = 0 /\ item' = <<>>
  /\ UNCHANGED failed

Ended == status \in {"returned", "threw"} /\ UNCHANGED vars

Next == NextRecord \/ LastRecord \/ GetFails \/ GetProperty \/ Insert \/ Ended

Spec == Init /\ [][Next]_vars

-----------------------------------------------------------------------------
(* Properties. *)

Values(f) ==
  CASE CimType[f] = "string" -> {"text", ""}
    [] CimType[f] = "datetime" -> {"date", "now"}
    [] OTHER -> 0 .. (IF f \in InUint32 THEN Width32 ELSE Width64) - 1

IsItem(made) == \A n \in DOMAIN made : made[n] \in Values(Fields[n])

TypeOK ==
  /\ status \in {"next", "reading", "returned", "threw"}
  /\ record \in Record \cup {Null}
  /\ field \in 0 .. Len(Fields) /\ Len(item) = field /\ IsItem(item)
  /\ Len(rows) <= MaxRecords
  /\ \A row \in Range(rows) : row.record \in Record /\ Len(row.item) = Len(Fields) /\ IsItem(row.item)
  /\ failed \in BOOLEAN

\* Too large for the type it is read with: a working set is 64 bits wide but read in 32,
\* and kilobytes pass through a signed 32 bit number.
Mangled(f, value) ==
  \/ f = "WorkingSetSize" /\ value >= Width32
  \/ f \in InKilobytes /\ value >= Width32 \div 2

\* What a cell should say: bytes, whatever the unit of the host; 0 for no value.
InBytes(f, value) ==
  CASE value = Null -> 0
    [] value # Null /\ f \in InKilobytes -> value * Kilo
    [] OTHER -> value

\* Every number in a row is the host's, through its formatting, parsing, signs, widths and
\* units, except for those that are Mangled, which never are.
NumbersAreTheHosts ==
  \A row \in Range(rows), n \in DOMAIN Fields :
    LET f == Fields[n]
        value == row.record[CimType[f]]
    IN CimType[f] \in {"uint32", "uint64"} =>
         (row.item[n] = InBytes(f, value) <=> value = Null \/ ~Mangled(f, value))

\* A property without a value does not lose the other processes of the host, unless it is the
\* date of creation.
FailsOnlyWithoutADate ==
  status = "threw" => failed \/ record.datetime = Null
=============================================================================
