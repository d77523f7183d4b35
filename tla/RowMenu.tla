------------------------------ MODULE RowMenu ------------------------------
(***************************************************************************)
(* The context menu of a row (remote_task_management_frame.cpp).  The      *)
(* right-click handler reads the row's ProcessId and Name by two calls of  *)
(* GetValue, each on the snapshot m_data holds at that moment, and keeps   *)
(* both in the menu.  While the menu is open the page is refreshed, and    *)
(* processes start and end on the host, which gives their ids away again.  *)
(***************************************************************************)
EXTENDS Naturals, Sequences, SequencesExt

CONSTANTS
  Pids,
  Names,
  NoName,     \* what GetValue returns for a row that is not there any more
  NoPid,      \* 0xDEADBEEF, to_uint32's value for an empty string
  NoProcess,
  MaxStarts   \* bound: processes that start on the host

ASSUME RowMenuAssumption ==
  /\ NoName \notin Names
  /\ NoPid \notin Pids
  /\ MaxStarts \in Nat

VARIABLES
  running,  \* the host's processes
  births,   \* processes started so far
  fetched,  \* the snapshot a task has fetched last
  table,    \* the snapshot m_data holds
  menu,     \* "closed", "reading" (between the two reads) or "open"
  row,      \* the row that was clicked, 0 when no menu is open
  data,     \* popup_data_t
  target,   \* history: the process whose ProcessId was read, or NoProcess
  chosen,   \* the entry chosen from the last menu: "none", "pid" or "name"
  torn,     \* history: m_data was replaced between the two reads
  ended     \* history: what the last choice ended, and whether the menu was right about it

hostVars == <<running, births>>
menuVars == <<menu, row, data, target, torn, chosen>>
vars == <<hostVars, fetched, table, menuVars, ended>>

\* The n-th process to start gets a pid that is free; its birth tells it from its successors.
Process == [pid : Pids, name : Names, birth : 1 .. MaxStarts]
NoData == [pid |-> NoPid, name |-> NoName]
NothingEnded == [victim |-> NoProcess, said |-> NoName, torn |-> FALSE, reused |-> FALSE]

Init ==
  /\ running = {} /\ births = 0
  /\ fetched = <<>> /\ table = <<>>
  /\ menu = "closed" /\ row = 0 /\ data = NoData /\ target = NoProcess /\ torn = FALSE
  /\ chosen = "none" /\ ended = NothingEnded

-----------------------------------------------------------------------------
(* The host, and the task that refreshes the page. *)

ProcessStarts(pid, name) ==
  /\ births < MaxStarts
  /\ \A p \in running : p.pid # pid
  /\ births' = births + 1
  /\ running' = running \cup {[pid |-> pid, name |-> name, birth |-> births + 1]}
  /\ UNCHANGED <<fetched, table, menuVars, ended>>

ProcessEnds(p) ==
  /\ p \in running
  /\ running' = running \ {p}
  /\ UNCHANGED <<births, fetched, table, menuVars, ended>>

\* In the order of some column, without those an enumeration cut short has missed.
Fetch ==
  /\ fetched' \in SetToAllKPermutations(running)
  /\ UNCHANGED <<hostVars, table, menuVars, ended>>

Publish ==
  /\ table' = fetched
  /\ torn' = (torn \/ menu = "reading")
  /\ UNCHANGED <<hostVars, fetched, menu, row, data, target, chosen, ended>>

-----------------------------------------------------------------------------
(* The GUI thread. *)

\* GetValue: the grid may have more rows than its table has by now.
HasRow(n) == n \in DOMAIN table
PidZero(n) == IF HasRow(n) THEN table[n].pid ELSE 0
PidAt(n) == IF HasRow(n) THEN table[n].pid ELSE NoPid
NameAt(n) == IF HasRow(n) THEN table[n].name ELSE NoName
NameBelow(n) == NameAt(n + 1)
MenuName(n) == NameAt(n)

RightClick(n) ==
  /\ menu = "closed"
  /\ menu' = "reading" /\ row' = n
  /\ data' = [NoData EXCEPT !.pid = PidAt(n)]
  /\ target' = IF HasRow(n) THEN table[n] ELSE NoProcess
  /\ chosen' = "none" /\ ended' = NothingEnded
  /\ UNCHANGED <<hostVars, fetched, table, torn>>

PopupMenu ==
  /\ menu = "reading"
  /\ menu' = "open"
  /\ data' = [data EXCEPT !.name = MenuName(row)]
  /\ UNCHANGED <<hostVars, fetched, table, row, target, torn, chosen, ended>>

MenuCloses(entry) ==
  /\ menu = "open"
  /\ menu' = "closed" /\ row' = 0 /\ data' = NoData /\ target' = NoProcess /\ torn' = FALSE
  /\ chosen' = entry

\* terminate_process_by_pid(host, data->pid): what was read, not what the row shows by now.
\* (The id an entry gets from SetId after Append does not reach the native menu, which reports
\* the id it was appended with: the handler of id_close_by_pid runs.)
PidShownNow == PidAt(row)
ChosenPid == data.pid

ClosePid ==
  /\ MenuCloses("pid")
  /\ LET victims == {p \in running : p.pid = ChosenPid} IN
     \/ \E p \in victims :
          /\ running' = running \ {p}
          /\ ended' = [victim |-> p, said |-> data.name, torn |-> torn, reused |-> target \notin running]
     \/ UNCHANGED <<running, ended>>  \* no such process, or a failure that is not reported
  /\ UNCHANGED <<births, fetched, table>>

\* "Close all": no handler is bound to id_close_by_name.
CloseByName == MenuCloses("name") /\ UNCHANGED <<hostVars, fetched, table, ended>>

Dismiss == MenuCloses("none") /\ UNCHANGED <<hostVars, fetched, table, ended>>

Next ==
  \/ \E pid \in Pids, name \in Names : ProcessStarts(pid, name)
  \/ \E p \in running : ProcessEnds(p)
  \/ Fetch
  \/ Publish
  \/ \E n \in 1 .. MaxStarts : RightClick(n)
  \/ PopupMenu
  \/ ClosePid
  \/ CloseByName
  \/ Dismiss

Spec == Init /\ [][Next]_vars

-----------------------------------------------------------------------------
(* Properties. *)

Snapshot == {s \in Seq(Process) : \A i, j \in DOMAIN s : i # j => s[i].pid # s[j].pid}

TypeOK ==
  /\ running \subseteq Process /\ births \in 0 .. MaxStarts
  /\ fetched \in Snapshot /\ table \in Snapshot
  /\ menu \in {"closed", "reading", "open"}
  /\ row \in 0 .. MaxStarts
  /\ data \in [pid : Pids \cup {NoPid}, name : Names \cup {NoName}]
  /\ target \in Process \cup {NoProcess}
  /\ torn \in BOOLEAN /\ chosen \in {"none", "pid", "name"}
  /\ ended \in [victim : Process \cup {NoProcess}, said : Names \cup {NoName}, torn : BOOLEAN, reused : BOOLEAN]

\* "Close pid" ends the process the menu named, however often the page is refreshed and sorted
\* while the menu is open, with two exceptions: the snapshot was replaced between the reads of
\* pid and name, or the process had ended and its pid was given away.
EndsWhatTheMenuNamed ==
  ended.victim = NoProcess \/ ended.victim.name = ended.said \/ ended.torn \/ ended.reused

\* The inductive invariant.  A pid belongs to one process at a time; and the menu knows pid and
\* name of one process, which is in the row that was clicked until both are read, unless the
\* snapshot was replaced between the reads or the row was not there.
PidsAreUnique == IsFiniteSet(running) /\ \A p, q \in running : p.pid = q.pid => p = q

ReadsOneRow ==
  menu # "closed" /\ data.pid # NoPid =>
    /\ target \in Process /\ data.pid = target.pid
    /\ ~torn /\ menu = "reading" => HasRow(row) /\ table[row] = target
    /\ ~torn /\ menu = "open" => data.name = target.name

MenuInv == TypeOK /\ PidsAreUnique /\ ReadsOneRow /\ EndsWhatTheMenuNamed

\* What the menu's second entry says, "Close all <name>": afterwards no process has that name.
\* It does not hold: nothing handles the choice.
CloseAllCloses == [][menu = "open" /\ chosen' = "name" => \A p \in running' : p.name # data.name]_vars
=============================================================================
