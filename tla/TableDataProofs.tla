-------------------------- MODULE TableDataProofs --------------------------
(***************************************************************************)
(* Proofs about TableData, for any set of blocks.                          *)
(***************************************************************************)
EXTENDS TableData, FiniteSetTheorems, TLAPS

-----------------------------------------------------------------------------
(* Counting owners. *)

MDataOwns(b) == IF writer.at = "halfSwapped" THEN ptr = b ELSE rep = b
TmpDataOwns(b) == reader.at \notin {"idle", "found"} /\ reader.rep = b
PtrOwns(b) ==
  \/ writer.at \in {"built", "swapped"} /\ writer.rep = b
  \/ writer.at = "halfSwapped" /\ writer.ptr = b

One(owns) == IF owns THEN 1 ELSE 0

\* A set of owners is as large as its members are many.
LEMMA CardinalityOfOwners ==
  ASSUME NEW A, NEW B, NEW C
  PROVE  LET S == {o \in {"m_data", "tmp_data", "ptr"} :
                     (o = "m_data" /\ A) \/ (o = "tmp_data" /\ B) \/ (o = "ptr" /\ C)}
         IN Cardinality(S) = One(A) + One(B) + One(C)
<1> DEFINE R == IF A THEN {"m_data"} ELSE {}
           S == IF B THEN R \cup {"tmp_data"} ELSE R
           T == IF C THEN S \cup {"ptr"} ELSE S
<1>0. One(A) \in Nat /\ One(B) \in Nat
  BY DEF One
<1>1. IsFiniteSet(R) /\ Cardinality(R) = One(A)
  BY FS_EmptySet, FS_Singleton DEF One
<1>2. IsFiniteSet(S) /\ Cardinality(S) = One(A) + One(B)
  <2>1. "tmp_data" \notin R
    OBVIOUS
  <2> HIDE DEF R
  <2> QED
    BY <1>0, <1>1, <2>1, FS_AddElement DEF One
<1>3. IsFiniteSet(T) /\ Cardinality(T) = One(A) + One(B) + One(C)
  <2>1. "ptr" \notin S
    OBVIOUS
  <2> HIDE DEF S
  <2> QED
    BY <1>0, <1>2, <2>1, FS_AddElement DEF One
<1>4. T = {o \in {"m_data", "tmp_data", "ptr"} :
             (o = "m_data" /\ A) \/ (o = "tmp_data" /\ B) \/ (o = "ptr" /\ C)}
  <2>1. \A o : o \in R <=> o = "m_data" /\ A
    OBVIOUS
  <2>2. \A o : o \in S <=> o \in R \/ (o = "tmp_data" /\ B)
    OBVIOUS
  <2>3. \A o : o \in T <=> o \in S \/ (o = "ptr" /\ C)
    OBVIOUS
  <2> HIDE DEF R, S, T
  <2> QED
    BY <2>1, <2>2, <2>3
<1> QED
  BY <1>3, <1>4

\* The owners of a block, one by one.
LEMMA OwnersOneByOne ==
  ASSUME NEW b
  PROVE  Owners(b) = One(MDataOwns(b)) + One(TmpDataOwns(b)) + One(PtrOwns(b))
<1>1. {o \in {"m_data", "tmp_data", "ptr"} :
         \/ o = "m_data" /\ rep = b /\ writer.at # "halfSwapped"
         \/ o = "m_data" /\ ptr = b /\ writer.at = "halfSwapped"
         \/ o = "tmp_data" /\ reader.at \notin {"idle", "found"} /\ reader.rep = b
         \/ o = "ptr" /\ writer.at \in {"built", "swapped"} /\ writer.rep = b
         \/ o = "ptr" /\ writer.at = "halfSwapped" /\ writer.ptr = b}
      = {o \in {"m_data", "tmp_data", "ptr"} :
         (o = "m_data" /\ MDataOwns(b)) \/ (o = "tmp_data" /\ TmpDataOwns(b)) \/ (o = "ptr" /\ PtrOwns(b))}
  BY DEF MDataOwns, TmpDataOwns, PtrOwns
<1> QED
  BY <1>1, CardinalityOfOwners DEF Owners

\* What ExactCounts says, owner by owner.
CountsOwners ==
  \A b \in Blocks :
    /\ count[b] = One(MDataOwns(b)) + One(TmpDataOwns(b)) + One(PtrOwns(b))
    /\ b \in heap <=> MDataOwns(b) \/ TmpDataOwns(b) \/ PtrOwns(b)

LEMMA ExactCountsOwnerByOwner == ExactCounts <=> (~raced => CountsOwners)
<1>1. ASSUME NEW b \in Blocks
      PROVE  Owners(b) > 0 <=> MDataOwns(b) \/ TmpDataOwns(b) \/ PtrOwns(b)
  BY OwnersOneByOne DEF One
<1> QED
  BY <1>1, OwnersOneByOne DEF ExactCounts, CountsOwners

LEMMA Afterwards == (ExactCounts <=> (~raced => CountsOwners))'
BY ExactCountsOwnerByOwner, PTL

-----------------------------------------------------------------------------
(* Type correctness and the words of m_data, the copy and the temporary. *)

\* A count remains one when it goes up or down.
LEMMA CountTypes ==
  ASSUME NEW c \in [Blocks -> Nat], NEW b
  PROVE  /\ [c EXCEPT ![b] = @ + 1] \in [Blocks -> Nat]
         /\ [c EXCEPT ![b] = Decremented(@)] \in [Blocks -> Nat]
<1>1. CASE b \in Blocks
  <2>1. c[b] + 1 \in Nat /\ Decremented(c[b]) \in Nat
    BY <1>1 DEF Decremented
  <2> QED
    BY <2>1
<1>2. CASE b \notin Blocks
  BY <1>2
<1> QED
  BY <1>1, <1>2

LEMMA DataTypeNext ==
  ASSUME TypeOK, SwapsWords, UnsortedIsTheTasks, CopyFollows, GuiThread \/ Task
  PROVE  TypeOK'
<1> USE TableDataAssumption DEF TypeOK, SwapsWords, Overlap, Touch, Assigning, Copying, ReaderState, WriterState
<1>1. CASE FindRep
  BY <1>1 DEF FindRep
<1>2. CASE CountRep
  <2>1. count' \in [Blocks -> Nat]
    BY <1>2, CountTypes DEF CountRep, Own
  <2> QED
    BY <1>2, <2>1 DEF CountRep
<1>3. CASE CopyPtr
  BY <1>3 DEF CopyPtr
<1>4. CASE CopyRep
  BY <1>4 DEF CopyRep
<1>5. CASE UseSnapshot
  BY <1>5 DEF UseSnapshot, Used
<1>6. CASE DropCopy
  <2>1. count' \in [Blocks -> Nat]
    BY <1>6, CountTypes DEF DropCopy, Release
  <2> QED
    BY <1>6, <2>1 DEF DropCopy, Release, Nobody
<1>7. CASE BuildSnapshot
  BY <1>7 DEF BuildSnapshot
<1>8. CASE SortSnapshot
  BY <1>8 DEF SortSnapshot
<1>9. CASE SwapPtr
  BY <1>9 DEF SwapPtr
<1>10. CASE SwapRep
  BY <1>10 DEF SwapRep
<1>11. CASE DropOld
  <2>1. count' \in [Blocks -> Nat]
    BY <1>11, CountTypes DEF DropOld, ReleaseOld, Release
  <2> QED
    BY <1>11, <2>1 DEF DropOld, ReleaseOld, Release, Nobody
<1> QED
  BY <1>1, <1>2, <1>3, <1>4, <1>5, <1>6, <1>7, <1>8, <1>9, <1>10, <1>11 DEF GuiThread, Task

\* A copy that nothing overlaps takes one snapshot, and an assignment leaves one.
LEMMA WordsNext ==
  ASSUME TypeOK, SwapsWords, UnsortedIsTheTasks, CopyFollows, CopyIsWhole, GuiThread \/ Task
  PROVE  SwapsWords' /\ UnsortedIsTheTasks' /\ CopyFollows' /\ CopyIsWhole'
<1> USE TableDataAssumption
    DEF TypeOK, SwapsWords, UnsortedIsTheTasks, CopyFollows, CopyIsWhole, Overlap, Assigning, Copying
<1>1. CASE FindRep
  BY <1>1 DEF FindRep
<1>2. CASE CountRep
  BY <1>2 DEF CountRep
<1>3. CASE CopyPtr
  BY <1>3 DEF CopyPtr
<1>4. CASE CopyRep
  BY <1>4 DEF CopyRep
<1>5. CASE UseSnapshot
  BY <1>5 DEF UseSnapshot, Used
<1>6. CASE DropCopy
  BY <1>6 DEF DropCopy, Nobody
<1>7. CASE BuildSnapshot
  BY <1>7 DEF BuildSnapshot
<1>8. CASE SortSnapshot
  BY <1>8 DEF SortSnapshot
<1>9. CASE SwapPtr
  BY <1>9 DEF SwapPtr, SortedFirst
<1>10. CASE SwapRep
  BY <1>10 DEF SwapRep
<1>11. CASE DropOld
  BY <1>11 DEF DropOld, Nobody
<1> QED
  BY <1>1, <1>2, <1>3, <1>4, <1>5, <1>6, <1>7, <1>8, <1>9, <1>10, <1>11 DEF GuiThread, Task

-----------------------------------------------------------------------------
(* Counts. *)

\* A new block is nobody's, since what somebody owns is allocated.
LEMMA NewIsPrivateNext ==
  ASSUME TypeOK, SwapsWords, CopyFollows, CopyIsWhole, NewIsPrivate, ~raced => CountsOwners, GuiThread \/ Task
  PROVE  NewIsPrivate'
<1> USE TableDataAssumption DEF TypeOK, SwapsWords, CopyFollows, NewIsPrivate, Overlap, Assigning, Copying
<1>1. CASE GuiThread
  <2>1. CASE FindRep
    BY <2>1 DEF FindRep
  <2>2. CASE CountRep \/ CopyPtr
    BY <2>2 DEF CountRep, CopyPtr
  <2>3. CASE CopyRep
    BY <2>3 DEF CopyRep
  <2>4. CASE UseSnapshot \/ DropCopy
    BY <2>4 DEF UseSnapshot, DropCopy, Nobody
  <2> QED
    BY <1>1, <2>1, <2>2, <2>3, <2>4 DEF GuiThread
<1>2. CASE BuildSnapshot
  <2>1. ASSUME ~raced PROVE rep \in heap /\ (reader.at # "idle" => reader.rep \in heap)
    BY <1>2, <2>1 DEF BuildSnapshot, CountsOwners, MDataOwns, TmpDataOwns
  <2> QED
    BY <1>2, <2>1 DEF BuildSnapshot
<1>3. CASE SortSnapshot \/ SwapPtr \/ SwapRep \/ DropOld
  <2>1. CASE SortSnapshot
    BY <2>1 DEF SortSnapshot
  <2>2. CASE SwapPtr \/ SwapRep \/ DropOld
    <3>1. writer'.at # "built"
      <4>1. CASE SwapPtr
        BY <4>1 DEF SwapPtr
      <4>2. CASE SwapRep
        BY <4>2 DEF SwapRep
      <4>3. CASE DropOld
        BY <4>3 DEF DropOld, Nobody
      <4> QED
        BY <2>2, <4>1, <4>2, <4>3
    <3> QED
      BY <3>1
  <2> QED
    BY <1>3, <2>1, <2>2
<1> QED
  BY <1>1, <1>2, <1>3 DEF Task

\* A reference is counted where it is taken and uncounted where it is given up; a swap passes
\* references on.
LEMMA CountsNext ==
  ASSUME TypeOK, SwapsWords, CopyFollows, CopyIsWhole, CountsOwners, GuiThread \/ Task, ~raced'
  PROVE  CountsOwners'
<1> USE TableDataAssumption DEF TypeOK, CountsOwners, MDataOwns, TmpDataOwns, PtrOwns, One, Overlap
<1>1. CASE FindRep
  BY <1>1 DEF FindRep
<1>2. CASE CountRep
  BY <1>2 DEF CountRep, Own, CopyFollows, Copying, Assigning
<1>3. CASE CopyPtr
  BY <1>3 DEF CopyPtr
<1>4. CASE CopyRep
  BY <1>4 DEF CopyRep, CopyFollows, Copying, Assigning
<1>5. CASE UseSnapshot
  BY <1>5 DEF UseSnapshot
<1>6. CASE DropCopy
  BY <1>6 DEF DropCopy, Release, Nobody, Decremented
<1>7. CASE BuildSnapshot
  BY <1>7 DEF BuildSnapshot
<1>8. CASE SortSnapshot
  BY <1>8 DEF SortSnapshot
<1>9. CASE SwapPtr
  BY <1>9 DEF SwapPtr, SwapsWords, Assigning
<1>10. CASE SwapRep
  BY <1>10 DEF SwapRep, SwapsWords, Assigning
<1>11. CASE DropOld
  BY <1>11 DEF DropOld, ReleaseOld, Release, Nobody, Decremented
<1> QED
  BY <1>1, <1>2, <1>3, <1>4, <1>5, <1>6, <1>7, <1>8, <1>9, <1>10, <1>11 DEF GuiThread, Task

\* What is touched is owned, by m_data, the copy or the task.
LEMMA TouchesItsOwn ==
  ASSUME TypeOK, SwapsWords, UnsortedIsTheTasks, CopyFollows, CopyIsWhole, CountsOwners, ~raced, ~corrupt,
         GuiThread \/ Task
  PROVE  ~corrupt'
<1> USE TableDataAssumption
    DEF TypeOK, SwapsWords, CopyFollows, CountsOwners, MDataOwns, TmpDataOwns, PtrOwns, Touch, Assigning, Copying
<1>1. CASE CountRep
  BY <1>1 DEF CountRep
<1>2. CASE UseSnapshot
  BY <1>2 DEF UseSnapshot, Used, CopyIsWhole
<1>3. CASE DropCopy
  BY <1>3 DEF DropCopy, Release
<1>4. CASE SortSnapshot
  BY <1>4 DEF SortSnapshot, UnsortedIsTheTasks
<1>5. CASE DropOld
  BY <1>5 DEF DropOld, ReleaseOld, Release
<1>6. CASE FindRep \/ CopyPtr \/ CopyRep \/ BuildSnapshot \/ SwapPtr \/ SwapRep
  BY <1>6 DEF FindRep, CopyPtr, CopyRep, BuildSnapshot, SwapPtr, SwapRep
<1> QED
  BY <1>1, <1>2, <1>3, <1>4, <1>5, <1>6 DEF GuiThread, Task

-----------------------------------------------------------------------------
(* The inductive invariant, and what it says. *)

LEMMA DataInvInit == Init => DataInv
<1> SUFFICES ASSUME NEW b \in Blocks,
                    ptr = b, rep = b, heap = {b}, count = [x \in Blocks |-> IF x = b THEN 1 ELSE 0],
                    reader = Nobody, writer = Nobody, unsorted = Null, raced = FALSE, corrupt = FALSE
             PROVE  DataInv
  BY DEF Init
<1>1. TypeOK
  BY DEF TypeOK, Nobody, ReaderState, WriterState
<1>2. SwapsWords /\ UnsortedIsTheTasks /\ CopyFollows /\ CopyIsWhole /\ NewIsPrivate /\ OnlyOverlapCorrupts
  BY DEF SwapsWords, UnsortedIsTheTasks, CopyFollows, CopyIsWhole, NewIsPrivate, OnlyOverlapCorrupts,
         Nobody, Assigning, Copying
<1>3. CountsOwners
  BY DEF CountsOwners, MDataOwns, TmpDataOwns, PtrOwns, One, Nobody
<1> QED
  BY <1>1, <1>2, <1>3, ExactCountsOwnerByOwner DEF DataInv

\* An overlap is remembered.
LEMMA RacedStays == ASSUME TypeOK, raced, [Next]_vars PROVE raced'
BY DEF TypeOK, Next, Corrupted, GuiThread, Task, vars, Overlap, FindRep, CountRep, CopyPtr, CopyRep,
       UseSnapshot, DropCopy, BuildSnapshot, SortSnapshot, SwapPtr, SwapRep, DropOld

LEMMA DataInvNext == DataInv /\ [Next]_vars => DataInv'
<1> SUFFICES ASSUME DataInv, [Next]_vars PROVE DataInv'
  OBVIOUS
<1>1. CASE ~corrupt /\ (GuiThread \/ Task)
  <2>1. TypeOK' /\ SwapsWords' /\ UnsortedIsTheTasks' /\ CopyFollows' /\ CopyIsWhole'
    BY <1>1, DataTypeNext, WordsNext DEF DataInv
  <2>2. ~raced => CountsOwners
    BY ExactCountsOwnerByOwner DEF DataInv
  <2>3. NewIsPrivate'
    BY <1>1, <2>2, NewIsPrivateNext DEF DataInv
  <2>4. ~raced' => CountsOwners'
    BY <1>1, <2>2, CountsNext, RacedStays DEF DataInv
  <2>5. OnlyOverlapCorrupts'
    <3>1. CASE raced
      BY <3>1, RacedStays DEF DataInv, OnlyOverlapCorrupts
    <3>2. CASE ~raced
      BY <1>1, <2>2, <3>2, TouchesItsOwn DEF DataInv, OnlyOverlapCorrupts
    <3> QED
      BY <3>1, <3>2
  <2> QED
    BY <2>1, <2>3, <2>4, <2>5, Afterwards DEF DataInv
<1>2. CASE UNCHANGED vars
  BY <1>2 DEF vars, DataInv, TypeOK, SwapsWords, UnsortedIsTheTasks, CopyFollows, CopyIsWhole, NewIsPrivate,
         ExactCounts, Owners, OnlyOverlapCorrupts, Assigning, Copying
<1> QED
  BY <1>1, <1>2 DEF Next, Corrupted

\* The invariant that gives the others, for any number of blocks: as long as no copy meets an
\* assignment, both move one whole snapshot and count it.
THEOREM DataInvariance == Spec => []DataInv
<1> QED
  BY DataInvInit, DataInvNext, PTL DEF Spec

\* Every variable keeps its type.
THEOREM DataTypeCorrect == Spec => []TypeOK
<1>1. DataInv => TypeOK
  BY DEF DataInv
<1> QED
  BY <1>1, DataInvariance, PTL

\* Memory is corrupted only by a copy of m_data that overlaps an assignment of it.
THEOREM NoOtherCorruption == Spec => []OnlyOverlapCorrupts
<1>1. DataInv => OnlyOverlapCorrupts
  BY DEF DataInv
<1> QED
  BY <1>1, DataInvariance, PTL

\* Without an overlap a snapshot lives exactly as long as m_data, tmp_data or the task owns it.
THEOREM CountsAreExact == Spec => []ExactCounts
<1>1. DataInv => ExactCounts
  BY DEF DataInv
<1> QED
  BY <1>1, DataInvariance, PTL

\* Without an overlap tmp_data keeps the snapshot alive that the GUI thread reads.
THEOREM CopiesAreWhole == Spec => []CopyIsWhole
<1>1. DataInv => CopyIsWhole
  BY DEF DataInv
<1> QED
  BY <1>1, DataInvariance, PTL

\* Without an overlap the GUI thread never has a snapshot that the task is still sorting.
THEOREM NeverSharedUnsorted == Spec => []SortedBeforeShared
<1>1. DataInv => SortedBeforeShared
  BY TableDataAssumption
     DEF DataInv, TypeOK, SortedBeforeShared, UnsortedIsTheTasks, CopyFollows, CopyIsWhole, NewIsPrivate
<1> QED
  BY <1>1, DataInvariance, PTL

-----------------------------------------------------------------------------
(* m_data is a cell that is copied and assigned in one step. *)

LEMMA CellNext == DataInv /\ [Next]_vars => [Cell!CellNext]_Cell!cellVars
<1> SUFFICES ASSUME DataInv, [Next]_vars PROVE [Cell!CellNext]_Cell!cellVars
  OBVIOUS
<1> DEFINE copy == IF reader.at = "using" THEN reader.ptr ELSE Null
<1>0. TypeOK /\ (raced => raced')
  BY RacedStays DEF DataInv
<1>1. CASE raced'
  BY <1>1 DEF Cell!CellNext
<1> SUFFICES ASSUME ~raced, ~raced'
             PROVE  \/ copy = Null /\ copy' = ptr /\ ptr' = ptr
                    \/ copy # Null /\ copy' = Null /\ ptr' = ptr
                    \/ ptr' \in Blocks \ {ptr} /\ copy' = copy
                    \/ ptr' = ptr /\ copy' = copy
  BY <1>0, <1>1 DEF TypeOK, Cell!CellNext, Cell!cellVars, Cell!Copy, Cell!Drop, Cell!Store
<1> USE <1>0, TableDataAssumption DEF TypeOK
<1>2. CASE CopyRep
  BY <1>2 DEF CopyRep, DataInv, CopyFollows
<1>3. CASE DropCopy
  BY <1>3 DEF DropCopy, Nobody, DataInv, CopyFollows
<1>4. CASE SwapPtr
  BY <1>4 DEF SwapPtr, DataInv, NewIsPrivate, SwapsWords, Assigning
<1>5. CASE FindRep \/ CountRep \/ CopyPtr
  BY <1>5 DEF FindRep, CountRep, CopyPtr
<1>6. CASE UseSnapshot
  BY <1>6 DEF UseSnapshot, Used
<1>7. CASE BuildSnapshot \/ SortSnapshot \/ SwapRep \/ DropOld
  BY <1>7 DEF BuildSnapshot, SortSnapshot, SwapRep, DropOld
<1>8. CASE UNCHANGED vars
  BY <1>8 DEF vars
<1> QED
  BY <1>2, <1>3, <1>4, <1>5, <1>6, <1>7, <1>8 DEF Next, Corrupted, GuiThread, Task

\* Copying m_data is the step CopyRep, which keeps the words found before it, and assigning it
\* is SwapPtr: one step each of SnapshotCell, or they have overlapped.
THEOREM CopiesAndAssignsInOneStep == Spec => ImplementsCell
<1>1. Init => Cell!CellInit
  BY DEF Init, Nobody, Cell!CellInit
<1> QED
  BY <1>1, CellNext, DataInvariance, PTL DEF Spec, ImplementsCell, Cell!CellSpec
=============================================================================
