----------------------------- MODULE TableData -----------------------------
(***************************************************************************)
(* wmi_process_table::m_data at the level of its two words.  The GUI       *)
(* thread copies it (auto const tmp_data = m_data) before it reads a cell  *)
(* or sorts; the task that refreshes the table assigns it                  *)
(* (m_data = std::move(ptr)).  Nothing orders the two.  PageRefresh shows  *)
(* that there is one task at a time (OneUpdatePerTable).                   *)
(*                                                                         *)
(* std::shared_ptr is that of the build's library, MSVC: a copy counts the *)
(* reference block it finds in the source, then copies the two words; a    *)
(* move assignment swaps a temporary with the target, word by word, and    *)
(* destroys the temporary.  Reference counts are interlocked.              *)
(***************************************************************************)
EXTENDS Integers, FiniteSets

CONSTANTS
  Blocks,   \* memory for snapshots and their reference counts (make_shared)
  Null

ASSUME TableDataAssumption == Null \notin Blocks /\ Blocks # {}

VARIABLES
  ptr, rep,  \* the words of m_data: the snapshot, its reference count's block
  count,     \* the reference count in each block
  heap,      \* the blocks that are allocated
  reader,    \* the GUI thread: where it is in a copy, and the words it has of it
  writer,    \* the task: where it is in update_data, and the words it owns
  unsorted,  \* the snapshot the task has not sorted to the end, or Null
  raced,     \* history: a copy and an assignment have overlapped
  corrupt    \* history: memory that is not allocated was used

vars == <<ptr, rep, count, heap, reader, writer, unsorted, raced, corrupt>>

ReaderState == {"idle", "found", "counted", "halfCopied", "using"}
WriterState == {"idle", "built", "halfSwapped", "swapped"}

TypeOK ==
  /\ ptr \in Blocks /\ rep \in Blocks
  /\ count \in [Blocks -> Nat]
  /\ heap \subseteq Blocks
  /\ reader \in [at : ReaderState, ptr : Blocks \cup {Null}, rep : Blocks \cup {Null}]
  /\ writer \in [at : WriterState, ptr : Blocks \cup {Null}, rep : Blocks \cup {Null}]
  /\ unsorted \in Blocks \cup {Null}
  /\ raced \in BOOLEAN /\ corrupt \in BOOLEAN

Nobody == [at |-> "idle", ptr |-> Null, rep |-> Null]

\* The table's constructor: m_data owns the first snapshot.
Init ==
  \E b \in Blocks :
    /\ ptr = b /\ rep = b
    /\ heap = {b}
    /\ count = [x \in Blocks |-> IF x = b THEN 1 ELSE 0]
    /\ reader = Nobody /\ writer = Nobody /\ unsorted = Null
    /\ raced = FALSE /\ corrupt = FALSE

Copying == reader.at \in {"found", "counted", "halfCopied"}
Assigning == writer.at = "halfSwapped"

\* A step of one thread on m_data while the other is half way through its own.
Overlap(other) == raced' = (raced \/ other)

\* Touching a block that is not allocated corrupts memory.
Touch(b) == corrupt' = (corrupt \/ b \notin heap)

\* One reference less; a count that is 0 belongs to a freed block.
CountedDown(n) == n - 1
Decremented(n) == IF n > 0 THEN n - 1 ELSE 0

\* Gives up one reference; the last owner frees the block.
Release(b) ==
  /\ Touch(b)
  /\ count' = [count EXCEPT ![b] = Decremented(@)]
  /\ heap' = IF count[b] = 1 THEN heap \ {b} ELSE heap

-----------------------------------------------------------------------------
(* GetNumberRows, GetNumberCols, GetValue, sort_column on the GUI thread.   *)

FindRep ==
  /\ reader.at = "idle"
  /\ reader' = [reader EXCEPT !.at = "found", !.rep = rep]
  /\ Overlap(Assigning)
  /\ UNCHANGED <<ptr, rep, count, heap, writer, unsorted, corrupt>>

\* tmp_data owns the snapshot while it is used; a reference to m_data would not.
Borrow == UNCHANGED count
Own == count' = [count EXCEPT ![reader.rep] = @ + 1]

CountRep ==
  /\ reader.at = "found"
  /\ reader' = [reader EXCEPT !.at = "counted"]
  /\ Own
  /\ Touch(reader.rep)
  /\ UNCHANGED <<ptr, rep, heap, writer, unsorted, raced>>

CopyPtr ==
  /\ reader.at = "counted"
  /\ reader' = [reader EXCEPT !.at = "halfCopied", !.ptr = ptr]
  /\ Overlap(Assigning)
  /\ UNCHANGED <<ptr, rep, count, heap, writer, unsorted, corrupt>>

\* The compiler may load the second word again or keep the one it found.
CopyRep ==
  /\ reader.at = "halfCopied"
  /\ \E r \in {reader.rep, rep} : reader' = [reader EXCEPT !.at = "using", !.rep = r]
  /\ Overlap(Assigning)
  /\ UNCHANGED <<ptr, rep, count, heap, writer, unsorted, corrupt>>

\* A cell is formatted, or the rows are sorted in place: on the copy, not on what m_data has become.
UsedByReference == ptr
Used == reader.ptr

UseSnapshot ==
  /\ reader.at = "using"
  /\ reader' = [reader EXCEPT !.ptr = Used]
  /\ Touch(Used)
  /\ UNCHANGED <<ptr, rep, count, heap, writer, unsorted, raced>>

\* tmp_data goes out of scope.
DropCopy ==
  /\ reader.at = "using"
  /\ reader' = Nobody
  /\ Release(reader.rep)
  /\ UNCHANGED <<ptr, rep, writer, unsorted, raced>>

-----------------------------------------------------------------------------
(* update_data on the task's thread.                                        *)

\* make_shared: the snapshot is private to the task, which fetches ...
BuildSnapshot ==
  /\ writer.at = "idle"
  /\ \E b \in Blocks \ heap :
       /\ writer' = [at |-> "built", ptr |-> b, rep |-> b]
       /\ heap' = heap \cup {b}
       /\ count' = [count EXCEPT ![b] = 1]
       /\ unsorted' = b
  /\ UNCHANGED <<ptr, rep, reader, raced, corrupt>>

\* ... and sorts it in place, before it gives the snapshot away.
SortSnapshot ==
  /\ unsorted # Null
  /\ unsorted' = Null
  /\ Touch(unsorted)
  /\ UNCHANGED <<ptr, rep, count, heap, reader, writer, raced>>

SortedLater == TRUE
SortedFirst == unsorted = Null

SwapPtr ==
  /\ writer.at = "built" /\ SortedFirst
  /\ writer' = [writer EXCEPT !.at = "halfSwapped", !.ptr = ptr]
  /\ ptr' = writer.ptr
  /\ Overlap(Copying)
  /\ UNCHANGED <<rep, count, heap, reader, unsorted, corrupt>>

SwapRep ==
  /\ writer.at = "halfSwapped"
  /\ writer' = [writer EXCEPT !.at = "swapped", !.rep = rep]
  /\ rep' = writer.rep
  /\ Overlap(Copying)
  /\ UNCHANGED <<ptr, count, heap, reader, unsorted, corrupt>>

\* The temporary is destroyed, and with it the reference m_data had; a raw pointer would keep it.
KeepOld(b) == UNCHANGED <<count, heap, corrupt>>
ReleaseOld(b) == Release(b)

DropOld ==
  /\ writer.at = "swapped"
  /\ writer' = Nobody
  /\ ReleaseOld(writer.rep)
  /\ UNCHANGED <<ptr, rep, reader, unsorted, raced>>

GuiThread == FindRep \/ CountRep \/ CopyPtr \/ CopyRep \/ UseSnapshot \/ DropCopy
Task == BuildSnapshot \/ SortSnapshot \/ SwapPtr \/ SwapRep \/ DropOld

\* What a program does after it has corrupted memory is not modelled.
Corrupted == corrupt /\ UNCHANGED vars

Next == (~corrupt /\ (GuiThread \/ Task)) \/ Corrupted

Spec == Init /\ [][Next]_vars

-----------------------------------------------------------------------------
(* Properties: what is left of safety without a lock. *)

\* Memory is corrupted only by an overlap: the task may free the snapshot the GUI thread
\* reads, and the GUI thread the one it replaced, as long as no copy meets an assignment.
OnlyOverlapCorrupts == corrupt => raced

Owners(b) ==
  Cardinality({o \in {"m_data", "tmp_data", "ptr"} :
    \/ o = "m_data" /\ rep = b /\ writer.at # "halfSwapped"
    \/ o = "m_data" /\ ptr = b /\ writer.at = "halfSwapped"
    \/ o = "tmp_data" /\ reader.at \notin {"idle", "found"} /\ reader.rep = b
    \/ o = "ptr" /\ writer.at \in {"built", "swapped"} /\ writer.rep = b
    \/ o = "ptr" /\ writer.at = "halfSwapped" /\ writer.ptr = b})

\* Without an overlap every snapshot is counted exactly: none is freed while m_data, tmp_data
\* or the task owns it, and none is left behind when nobody does.
ExactCounts ==
  ~raced => \A b \in Blocks : count[b] = Owners(b) /\ (b \in heap <=> Owners(b) > 0)

\* Without an overlap the GUI thread reads the snapshot it keeps alive.
CopyIsWhole == ~raced /\ reader.at = "using" => reader.ptr = reader.rep

\* The GUI thread sorts in place, and reads, a snapshot that is not its own, only shared; but
\* never one that the task is still sorting.
SortedBeforeShared == ~raced /\ reader.at = "using" => reader.ptr # unsorted

\* A copy and an assignment behave as one step each, or have overlapped.
Cell == INSTANCE SnapshotCell WITH
  cell <- ptr,
  copy <- IF reader.at = "using" THEN reader.ptr ELSE Null,
  defined <- ~raced

ImplementsCell == Cell!CellSpec

-----------------------------------------------------------------------------
(* The inductive invariant. *)

\* Between its two swaps the task holds what m_data is still to get, and m_data holds the rest;
\* otherwise both words are about one snapshot.
SwapsWords ==
  /\ IF Assigning THEN writer.ptr = rep /\ writer.rep = ptr ELSE writer.ptr = writer.rep /\ ptr = rep
  /\ writer.at # "idle" => writer.rep # Null

\* A snapshot that is not sorted is the task's own.
UnsortedIsTheTasks == unsorted # Null => writer.at = "built" /\ unsorted = writer.rep

\* A copy that is not finished, and not overlapped, has found what m_data holds.
CopyFollows ==
  /\ reader.at # "idle" => reader.rep # Null
  /\ reader.at \in {"halfCopied", "using"} => reader.ptr # Null
  /\ ~raced /\ Copying => ~Assigning /\ reader.rep = rep
  /\ ~raced /\ reader.at = "halfCopied" => reader.ptr = ptr

\* A new snapshot is in a block that nobody else has.
NewIsPrivate == ~raced /\ writer.at = "built" => rep # writer.rep /\ (reader.at # "idle" => reader.rep # writer.rep)

DataInv ==
  /\ TypeOK
  /\ SwapsWords /\ UnsortedIsTheTasks /\ CopyFollows /\ CopyIsWhole /\ NewIsPrivate
  /\ ExactCounts /\ OnlyOverlapCorrupts
=============================================================================
