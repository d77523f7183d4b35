--------------------------- MODULE RowMenuProofs ---------------------------
(***************************************************************************)
(* Proofs about RowMenu, for any ids, names and number of processes.       *)
(***************************************************************************)
EXTENDS RowMenu, FiniteSetTheorems, SequenceTheorems, TLAPS

-----------------------------------------------------------------------------
(* Snapshots. *)

\* An enumeration of the running processes, complete or cut short, in any order, lists no pid twice.
LEMMA FetchedIsSnapshot ==
  ASSUME running \subseteq Process, PidsAreUnique, NEW s \in SetToAllKPermutations(running)
  PROVE  s \in Snapshot
<1>1. PICK S \in SUBSET running : s \in SetToSeqs(S)
  BY DEF SetToAllKPermutations
<1>2. Cardinality(S) \in Nat
  BY FS_Subset, FS_CardinalityType DEF PidsAreUnique
<1>3. /\ s \in [1 .. Cardinality(S) -> S]
      /\ \A i, j \in 1 .. Cardinality(S) : i # j => s[i] # s[j]
  BY <1>1 DEF SetToSeqs
<1>4. s \in Seq(Process)
  BY <1>2, <1>3, SeqDef
<1>5. \A i, j \in DOMAIN s : i # j => s[i].pid # s[j].pid
  BY <1>3 DEF PidsAreUnique
<1> QED
  BY <1>4, <1>5 DEF Snapshot

\* What GetValue returns for any row of a snapshot.
LEMMA ReadsRow ==
  ASSUME TypeOK, NEW n
  PROVE  /\ PidAt(n) \in Pids \cup {NoPid} /\ NameAt(n) \in Names \cup {NoName}
         /\ HasRow(n) => table[n] \in Process /\ PidAt(n) = table[n].pid /\ NameAt(n) = table[n].name
         /\ ~HasRow(n) => PidAt(n) = NoPid
<1>1. HasRow(n) => table[n] \in Process
  BY DEF TypeOK, Snapshot, HasRow
<1> QED
  BY <1>1 DEF PidAt, NameAt, Process

\* An empty menu, and what a choice ended, have their types.
LEMMA NoDataType == NoData \in [pid : Pids \cup {NoPid}, name : Names \cup {NoName}]
BY DEF NoData

LEMMA EndedType ==
  ASSUME NEW p \in Process, TypeOK, NEW reused \in BOOLEAN
  PROVE  [victim |-> p, said |-> data.name, torn |-> torn, reused |-> reused]
           \in [victim : Process \cup {NoProcess}, said : Names \cup {NoName}, torn : BOOLEAN, reused : BOOLEAN]
BY DEF TypeOK

-----------------------------------------------------------------------------
(* The inductive invariant. *)

\* Every step keeps the types, and pids unique.
LEMMA MenuTypeNext ==
  ASSUME TypeOK, PidsAreUnique, [Next]_vars
  PROVE  TypeOK' /\ PidsAreUnique'
<1> USE RowMenuAssumption DEF TypeOK, PidsAreUnique, hostVars, menuVars
<1>1. ASSUME NEW pid \in Pids, NEW name \in Names, ProcessStarts(pid, name)
      PROVE  TypeOK' /\ PidsAreUnique'
  <2> DEFINE p == [pid |-> pid, name |-> name, birth |-> births + 1]
  <2>1. p \in Process /\ births + 1 \in 0 .. MaxStarts
    BY <1>1 DEF ProcessStarts, Process
  <2>2. running' = running \cup {p}
    BY <1>1 DEF ProcessStarts
  <2>3. TypeOK'
    BY <1>1, <2>1, <2>2 DEF ProcessStarts
  <2>4. IsFiniteSet(running')
    BY <2>2, FS_AddElement
  <2>5. p.pid = pid /\ \A q \in running : q.pid # pid
    BY <1>1 DEF ProcessStarts
  <2>6. PidsAreUnique'
    <3> HIDE DEF p
    <3> QED
      BY <2>2, <2>4, <2>5
  <2> QED
    BY <2>3, <2>6
<1>2. ASSUME NEW p \in running, ProcessEnds(p) PROVE TypeOK' /\ PidsAreUnique'
  BY <1>2, FS_Subset DEF ProcessEnds
<1>3. CASE Fetch
  BY <1>3, FetchedIsSnapshot DEF Fetch
<1>4. CASE Publish
  BY <1>4 DEF Publish
<1>5. ASSUME NEW n \in 1 .. MaxStarts, RightClick(n) PROVE TypeOK' /\ PidsAreUnique'
  <2>1. data' \in [pid : Pids \cup {NoPid}, name : Names \cup {NoName}]
    BY <1>5, ReadsRow DEF RightClick, NoData
  <2>2. target' \in Process \cup {NoProcess} /\ row' \in 0 .. MaxStarts
    BY <1>5, ReadsRow DEF RightClick
  <2> QED
    BY <1>5, <2>1, <2>2 DEF RightClick, NothingEnded
<1>6. CASE PopupMenu
  <2>1. data' \in [pid : Pids \cup {NoPid}, name : Names \cup {NoName}]
    BY <1>6, ReadsRow DEF PopupMenu, MenuName
  <2> QED
    BY <1>6, <2>1 DEF PopupMenu
<1>7. CASE ClosePid
  <2> DEFINE reused == target \notin running
  <2>1. \/ \E p \in running :
             /\ running' = running \ {p}
             /\ ended' = [victim |-> p, said |-> data.name, torn |-> torn, reused |-> reused]
        \/ UNCHANGED <<running, ended>>
    BY <1>7 DEF ClosePid
  <2>2. running' \subseteq running
    BY <2>1
  <2>3. reused \in BOOLEAN
    OBVIOUS
  <2> HIDE DEF reused
  <2>4. ended' \in [victim : Process \cup {NoProcess}, said : Names \cup {NoName}, torn : BOOLEAN, reused : BOOLEAN]
    BY <2>1, <2>3, EndedType
  <2>5. UNCHANGED <<births, fetched, table>> /\ MenuCloses("pid")
    BY <1>7 DEF ClosePid
  <2>6. TypeOK'
    <3>1. data' \in [pid : Pids \cup {NoPid}, name : Names \cup {NoName}] /\ row' \in 0 .. MaxStarts
      BY <2>5, NoDataType DEF MenuCloses
    <3> QED
      BY <2>2, <2>4, <2>5, <3>1 DEF MenuCloses
  <2> QED
    BY <2>2, <2>6, FS_Subset
<1>8. CASE CloseByName \/ Dismiss
  <2>1. UNCHANGED <<running, births, fetched, table, ended>>
    BY <1>8 DEF CloseByName, Dismiss
  <2>2. \E entry \in {"name", "none"} : MenuCloses(entry)
    BY <1>8 DEF CloseByName, Dismiss
  <2>3. data' \in [pid : Pids \cup {NoPid}, name : Names \cup {NoName}] /\ row' \in 0 .. MaxStarts
    BY <2>2, NoDataType DEF MenuCloses
  <2> QED
    BY <2>1, <2>2, <2>3 DEF MenuCloses
<1>9. CASE UNCHANGED vars
  BY <1>9 DEF vars
<1> QED
  BY <1>1, <1>2, <1>3, <1>4, <1>5, <1>6, <1>7, <1>8, <1>9 DEF Next

\* Publish is the only step that takes the row away from under the two reads.
LEMMA ReadsOneRowNext ==
  ASSUME TypeOK, ReadsOneRow, [Next]_vars
  PROVE  ReadsOneRow'
<1> USE DEF TypeOK, ReadsOneRow, HasRow, hostVars, menuVars
<1>1. CASE (\E pid \in Pids, name \in Names : ProcessStarts(pid, name)) \/ (\E p \in running : ProcessEnds(p))
  BY <1>1 DEF ProcessStarts, ProcessEnds
<1>2. CASE Fetch
  BY <1>2 DEF Fetch
<1>3. CASE Publish
  BY <1>3 DEF Publish
<1>4. ASSUME NEW n \in 1 .. MaxStarts, RightClick(n) PROVE ReadsOneRow'
  BY <1>4, ReadsRow DEF RightClick, NoData
<1>5. CASE PopupMenu
  BY <1>5, ReadsRow DEF PopupMenu, MenuName
<1>6. CASE ClosePid \/ CloseByName \/ Dismiss
  BY <1>6 DEF ClosePid, CloseByName, Dismiss, MenuCloses
<1>7. CASE UNCHANGED vars
  BY <1>7 DEF vars
<1> QED
  BY <1>1, <1>2, <1>4, <1>5, <1>6, <1>7, <1>3 DEF Next

\* The process that has the menu's pid is the one whose row was clicked, if that one still runs.
LEMMA EndsNext ==
  ASSUME MenuInv, [Next]_vars
  PROVE  EndsWhatTheMenuNamed'
<1> USE DEF MenuInv, EndsWhatTheMenuNamed, hostVars, menuVars
<1>1. CASE ClosePid
  <2>1. CASE UNCHANGED ended
    BY <2>1
  <2>2. ASSUME NEW p \in running, p.pid = data.pid, target \in running, ~torn
        PROVE  p.name = data.name
    <3>1. data.pid # NoPid /\ menu = "open"
      BY <1>1, <2>2, RowMenuAssumption DEF ClosePid, MenuCloses, TypeOK, Process
    <3>2. p = target /\ data.name = target.name
      BY <2>2, <3>1 DEF ReadsOneRow, PidsAreUnique
    <3> QED
      BY <3>2
  <2> QED
    <3>1. CASE UNCHANGED <<running, ended>>
      BY <3>1
    <3>2. ASSUME NEW p \in running, p.pid = data.pid,
                 ended' = [victim |-> p, said |-> data.name, torn |-> torn, reused |-> target \notin running]
          PROVE  EndsWhatTheMenuNamed'
      <4>1. /\ ended'.victim = p /\ ended'.said = data.name /\ ended'.torn = torn
            /\ ended'.reused = (target \notin running)
        BY <3>2
      <4> QED
        BY <2>2, <3>2, <4>1 DEF TypeOK
    <3> QED
      BY <1>1, <3>1, <3>2 DEF ClosePid, ChosenPid
<1>2. ASSUME NEW n \in 1 .. MaxStarts, RightClick(n) PROVE EndsWhatTheMenuNamed'
  BY <1>2 DEF RightClick, NothingEnded
<1>3. CASE \/ \E pid \in Pids, name \in Names : ProcessStarts(pid, name)
           \/ \E p \in running : ProcessEnds(p)
           \/ Fetch \/ Publish \/ PopupMenu \/ CloseByName \/ Dismiss \/ UNCHANGED vars
  BY <1>3 DEF ProcessStarts, ProcessEnds, Fetch, Publish, PopupMenu, CloseByName, Dismiss, MenuCloses, vars
<1> QED
  BY <1>1, <1>2, <1>3 DEF Next

LEMMA MenuInvInit == Init => MenuInv
<1> SUFFICES ASSUME Init PROVE MenuInv
  OBVIOUS
<1>1. TypeOK
  <2>1. <<>> \in Snapshot
    BY DEF Snapshot
  <2>2. running \subseteq Process /\ births \in 0 .. MaxStarts /\ row \in 0 .. MaxStarts
    BY RowMenuAssumption DEF Init
  <2>3. data \in [pid : Pids \cup {NoPid}, name : Names \cup {NoName}]
    BY NoDataType DEF Init
  <2>4. ended \in [victim : Process \cup {NoProcess}, said : Names \cup {NoName}, torn : BOOLEAN, reused : BOOLEAN]
    BY DEF Init, NothingEnded
  <2> QED
    BY <2>1, <2>2, <2>3, <2>4 DEF Init, TypeOK
<1>2. PidsAreUnique /\ ReadsOneRow /\ EndsWhatTheMenuNamed
  BY FS_EmptySet DEF Init, PidsAreUnique, ReadsOneRow, EndsWhatTheMenuNamed, NothingEnded
<1> QED
  BY <1>1, <1>2 DEF MenuInv

\* The invariant that gives the other: the menu's pid and name are those of one process unless
\* the snapshot was replaced between the two reads.
THEOREM MenuInvariance == Spec => []MenuInv
<1>1. MenuInv /\ [Next]_vars => MenuInv'
  BY MenuTypeNext, ReadsOneRowNext, EndsNext DEF MenuInv
<1> QED
  BY <1>1, MenuInvInit, PTL DEF Spec

\* Every variable keeps its type, and no snapshot lists a pid twice.
THEOREM MenuTypeCorrect == Spec => []TypeOK
<1>1. MenuInv => TypeOK
  BY DEF MenuInv
<1> QED
  BY <1>1, MenuInvariance, PTL

\* "Close pid" ends the process the menu named, unless the snapshot was replaced between the
\* reads of pid and name, or the process had ended and its pid was given away.
THEOREM EndsTheNamedProcess == Spec => []EndsWhatTheMenuNamed
<1>1. MenuInv => EndsWhatTheMenuNamed
  BY DEF MenuInv
<1> QED
  BY <1>1, MenuInvariance, PTL
=============================================================================
