---------------------------- MODULE SnapshotCell ----------------------------
(***************************************************************************)
(* What wmi_process_table expects of m_data: one shared_ptr that the GUI   *)
(* thread copies and a task assigns as if each were one step.  C++         *)
(* promises that only if the two never overlap; once they have, nothing is *)
(* promised any more (`defined` is FALSE).                                 *)
(***************************************************************************)
CONSTANTS Blocks, Null

VARIABLES
  cell,    \* the snapshot m_data owns
  copy,    \* the snapshot the GUI thread's tmp_data owns, or Null
  defined

cellVars == <<cell, copy, defined>>

CellInit == cell \in Blocks /\ copy = Null /\ defined = TRUE

Copy == copy = Null /\ copy' = cell /\ UNCHANGED cell
Drop == copy # Null /\ copy' = Null /\ UNCHANGED cell
Store == cell' \in Blocks \ {cell} /\ UNCHANGED copy

CellNext == ~defined' \/ (defined /\ defined' /\ (Copy \/ Drop \/ Store))

CellSpec == CellInit /\ [][CellNext]_cellVars
=============================================================================
