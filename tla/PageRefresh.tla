---------------------------- MODULE PageRefresh ----------------------------
(***************************************************************************)
(* The pages of the main window: one grid, one process table and one       *)
(* one-shot timer per host (remote_task_management_frame.cpp), refreshed   *)
(* by tasks that std::async runs on other threads, which call              *)
(* wmi_process_table::update_data (wmi_process_table.cpp); and the life of  *)
(* the window: the hosts of the command line, its dialogs, its end.        *)
(*                                                                         *)
(* The GUI thread runs one handler at a time; `gui` says where it is.  A   *)
(* handler that another thread can observe half done is split into the     *)
(* steps between which that matters.  No lock protects a table: a task and *)
(* the GUI thread interleave at every read and write of m_data and sorted. *)
(* One copy and one assignment of m_data are single steps here; what they  *)
(* do when they overlap is the subject of module TableData.                *)
(***************************************************************************)
EXTENDS Naturals

CONSTANTS
  Pages,         \* the pages the window can hold
  NoPage,
  Responsive,    \* the pages whose host answers every request in the end
  Tasks,         \* the threads std::async runs update_data on
  NoTask,        \* has_data == nullptr
  Columns,       \* the columns a table can be sorted on
  CreationDate,  \* the column add_page sorts on
  NoColumn,      \* sorted_t::column's initial -1
  Unread,        \* a task has not read this field of `sorted` yet
  Clicked,       \* bound: the columns whose labels the user clicks on
  RowCounts,     \* bound: how many processes a host may report
  MaxVersion     \* bound: the fetches of a page are counted up to MaxVersion

ASSUME PageRefreshAssumption ==
  /\ NoPage \notin Pages
  /\ Responsive \subseteq Pages
  /\ NoTask \notin Tasks
  /\ CreationDate \in Columns
  /\ NoColumn \notin Columns
  /\ Unread \notin Columns \cup {NoColumn, "Ascending", "Descending"}
  /\ Clicked \subseteq Columns
  /\ RowCounts \subseteq Nat
  /\ MaxVersion \in Nat

VARIABLES
  page,      \* "none", "open", "failed" (SetTable(nullptr)) or "deleted" (window gone)
  selected,  \* the page the notebook shows
  timer,     \* delay the page's timer was last started with, 0 when it is stopped
  has_data,  \* the task whose future the timer handler keeps, or NoTask
  requests,  \* number of refreshes asked for, counted up to MaxVersion
  m_data,    \* the snapshot the table holds
  sortCol,   \* sorted.column
  sortOrd,   \* sorted.sort_order
  gridRows,  \* number of rows the grid read from its table in SetTable
  dirty,     \* the grid waits to be repainted
  shown,     \* version of the oldest snapshot a cell on the screen was drawn from
  taskAt,    \* where each task is in update_data
  taskPage,  \* the page whose table it updates
  taskData,  \* the snapshot it fetches
  taskCol,   \* the value it read from sorted.column
  taskOrd,   \* the value it read from sorted.sort_order
  gui,       \* where the GUI thread is
  cur,       \* the page its handler works on
  click,     \* column and order of the sort it carries out
  painted,   \* version it started to paint
  pending,   \* the hosts of the command line that the constructor has still to open
  modal,     \* "none", or the dialog whose own event loop runs: a message "box" or the "prompt" for a host
  visible    \* the frame is shown

pageVars  == <<page, selected, gridRows>>
timerVars == <<timer, has_data, requests>>
sortVars  == <<sortCol, sortOrd>>
viewVars  == <<dirty, shown>>
taskVars  == <<taskAt, taskPage, taskData, taskCol, taskOrd>>
guiVars   == <<gui, cur, click, painted>>
shellVars == <<pending, modal, visible>>
vars == <<pageVars, timerVars, m_data, sortVars, viewVars, taskVars, guiVars, shellVars>>

-----------------------------------------------------------------------------
SortOrder == {"Ascending", "Descending"}
Delays == {0, 250, 500, 1700, 2500}
Version == 0 .. MaxVersion
Rows == RowCounts \cup {0}
Key == [col : Columns \cup {NoColumn}, ord : SortOrder]
Snapshot == [ver : Version, rows : Rows, key : Key]
PageState == {"none", "open", "failed", "deleted"}
TaskState == {"free", "fetch", "read", "publish", "done", "threw"}
GuiState == {"starting", "loop", "adding", "painting", "sort_column", "sort_order", "closing", "draining", "exited", "aborted"}

\* sorted_t's default values.
Unsorted == [col |-> NoColumn, ord |-> "Descending"]
NoSnapshot == [ver |-> 0, rows |-> 0, key |-> Unsorted]

\* What OnCmdLineParsed collects.  The constructor makes "no host" the local machine, and
\* a host named twice has two pages.  Their order does not matter: every order is modelled.
CommandLine == (SUBSET Pages) \ {{}}

\* OnInit: the program ends if wxApp cannot parse the command line, or was asked for help.
OnInit ==
  /\ \/ gui = "starting" /\ pending \in CommandLine
     \/ gui = "exited" /\ pending = {}
  /\ modal = "none" /\ visible = FALSE

Init ==
  /\ OnInit
  /\ page = [p \in Pages |-> "none"]
  /\ selected = NoPage
  /\ timer = [p \in Pages |-> 0]
  /\ has_data = [p \in Pages |-> NoTask]
  /\ requests = [p \in Pages |-> 0]
  /\ m_data = [p \in Pages |-> NoSnapshot]
  /\ sortCol = [p \in Pages |-> Unsorted.col]
  /\ sortOrd = [p \in Pages |-> Unsorted.ord]
  /\ gridRows = [p \in Pages |-> 0]
  /\ dirty = [p \in Pages |-> FALSE]
  /\ shown = [p \in Pages |-> 0]
  /\ taskAt = [t \in Tasks |-> "free"]
  /\ taskPage = [t \in Tasks |-> NoPage]
  /\ taskData = [t \in Tasks |-> NoSnapshot]
  /\ taskCol = [t \in Tasks |-> Unread]
  /\ taskOrd = [t \in Tasks |-> Unread]
  /\ cur = NoPage
  /\ click = Unsorted
  /\ painted = 0

-----------------------------------------------------------------------------
(* The window's constructor and its dialogs.  A dialog runs an event loop   *)
(* of its own, in which timers fire and grids are drawn.                    *)

\* The window takes the user's input.
Idle == gui = "loop" /\ modal = "none" /\ visible

OpenNext(p) ==
  /\ gui = "starting" /\ p \in pending
  /\ pending' = pending \ {p}
  /\ gui' = "adding" /\ cur' = p
  /\ UNCHANGED <<pageVars, timerVars, m_data, sortVars, viewVars, taskVars, click, painted, modal, visible>>

ShowFrame ==
  /\ gui = "starting" /\ pending = {}
  /\ visible' = TRUE
  /\ gui' = "loop"
  /\ UNCHANGED <<pageVars, timerVars, m_data, sortVars, viewVars, taskVars, cur, click, painted, pending, modal>>

\* Where add_page returns to: the constructor's loop, or the event loop.
Caller == IF visible THEN "loop" ELSE "starting"

\* The prompt for a host (as long as there are Pages left: a bound) and the About box.
OpenRemote == Idle /\ modal' = "prompt" /\ \E p \in Pages : page[p] = "none"
About == Idle /\ modal' = "box"

OpenDialog ==
  /\ OpenRemote \/ About
  /\ UNCHANGED <<pageVars, timerVars, m_data, sortVars, viewVars, taskVars, guiVars, pending, visible>>

DismissBox ==
  /\ gui = "loop" /\ modal = "box"
  /\ modal' = "none"
  /\ gui' = Caller
  /\ UNCHANGED <<pageVars, timerVars, m_data, sortVars, viewVars, taskVars, cur, click, painted, pending, visible>>

-----------------------------------------------------------------------------
(* add_page: the table's constructor fetches on the GUI thread, which waits. *)

\* The prompt is closed.  ShowModal returns wxID_OK or wxID_CANCEL, and neither is 0: cancelling
\* opens a page too.
AddPage(p) ==
  /\ gui = "loop" /\ modal = "prompt" /\ page[p] = "none"
  /\ modal' = "none"
  /\ gui' = "adding" /\ cur' = p
  /\ UNCHANGED <<pageVars, timerVars, m_data, sortVars, viewVars, taskVars, click, painted, pending, visible>>

\* catch( ... ) opens a message box; without it the exception would leave the constructor.
Escapes == gui' = "aborted" /\ UNCHANGED modal
Reported == gui' = "loop" /\ modal' = "box"

\* The fetch throws: a message box, and no page.
AddPageThrows ==
  /\ gui = "adding"
  /\ Reported
  /\ cur' = NoPage
  /\ UNCHANGED <<pageVars, timerVars, m_data, sortVars, viewVars, taskVars, click, painted, pending, visible>>

\* SortOrder::Next: ascending and descending take turns, whatever the column.  Next itself,
\* sort_column's default argument, is not an order to keep.
NextKept(order) == "Next"
NextOrder(order) == IF order = "Ascending" THEN "Descending" ELSE "Ascending"

\* What sort_column(CreationDate) leaves in `sorted` before the page opens,
\* and what would stay there without that call.
NotSortedAtOpening(p) == [col |-> sortCol[p], ord |-> sortOrd[p]]
SortedAtOpening(p) == [col |-> CreationDate, ord |-> NextOrder(sortOrd[p])]

AddPageOpens(n) ==
  /\ gui = "adding"
  /\ gui' = Caller /\ cur' = NoPage
  /\ page' = [page EXCEPT ![cur] = "open"]
  /\ selected' = cur
  /\ sortCol' = [sortCol EXCEPT ![cur] = SortedAtOpening(cur).col]
  /\ sortOrd' = [sortOrd EXCEPT ![cur] = SortedAtOpening(cur).ord]
  /\ m_data' = [m_data EXCEPT ![cur] = [ver |-> 0, rows |-> n, key |-> SortedAtOpening(cur)]]
  /\ gridRows' = [gridRows EXCEPT ![cur] = n]
  /\ dirty' = [dirty EXCEPT ![cur] = TRUE]
  /\ timer' = [timer EXCEPT ![cur] = 2500]
  /\ UNCHANGED <<has_data, requests, shown, taskVars, click, painted, shellVars>>

AddPageReturns == AddPageThrows \/ \E n \in RowCounts : AddPageOpens(n)

-----------------------------------------------------------------------------
(* grid_update_timer: the handler of the page's one-shot timer.             *)

\* is_ready(*has_data): the task has returned or thrown.
Ready(t) == taskAt[t] \in {"done", "threw"}

\* Only a timer that was started fires, and only a GUI thread in its event loop runs the handler.
Fires(p) == gui = "loop" /\ timer[p] # 0

\* !has_data: no refresh is outstanding; without the test, each firing would ask for one.
AlwaysRequests(p) == TRUE
NothingRequested(p) == has_data[p] = NoTask

Bump(n) == IF n < MaxVersion THEN n + 1 ELSE n

LaunchUpdate(p, t) ==
  /\ Fires(p) /\ NothingRequested(p)
  /\ taskAt[t] = "free"
  /\ has_data' = [has_data EXCEPT ![p] = t]
  /\ requests' = [requests EXCEPT ![p] = Bump(@)]
  /\ timer' = [timer EXCEPT ![p] = 500]
  /\ taskAt' = [taskAt EXCEPT ![t] = "fetch"]
  /\ taskPage' = [taskPage EXCEPT ![t] = p]
  /\ taskData' = [taskData EXCEPT ![t] = [NoSnapshot EXCEPT !.ver = Bump(requests[p])]]
  /\ UNCHANGED <<pageVars, m_data, sortVars, viewVars, taskCol, taskOrd, guiVars, shellVars>>

\* The data has not shown up yet: look again later; without StartOnce, never.
PollForgets(p) == 0
PollDelay(p) == 250

PollUpdate(p) ==
  /\ Fires(p) /\ has_data[p] # NoTask /\ ~Ready(has_data[p])
  /\ timer' = [timer EXCEPT ![p] = PollDelay(p)]
  /\ UNCHANGED <<pageVars, has_data, requests, m_data, sortVars, viewVars, taskVars, guiVars, shellVars>>

\* The future is destroyed, and with it what its task kept.
Forget(done) ==
  /\ taskAt' = [t \in Tasks |-> IF t \in done THEN "free" ELSE taskAt[t]]
  /\ taskPage' = [t \in Tasks |-> IF t \in done THEN NoPage ELSE taskPage[t]]
  /\ taskData' = [t \in Tasks |-> IF t \in done THEN NoSnapshot ELSE taskData[t]]
  /\ taskCol' = [t \in Tasks |-> IF t \in done THEN Unread ELSE taskCol[t]]
  /\ taskOrd' = [t \in Tasks |-> IF t \in done THEN Unread ELSE taskOrd[t]]

\* dg->ForceRefresh(): the whole grid is drawn again, with the row count it has.
NoRefresh(p) == UNCHANGED dirty
ForceRefresh(p) == dirty' = [dirty EXCEPT ![p] = TRUE]

\* has_data->get() throws what the task threw; without the call nobody would notice.
GetIsNotCalled(t) == FALSE
GetThrows(t) == taskAt[t] = "threw"

ApplyUpdate(p) ==
  /\ Fires(p) /\ has_data[p] # NoTask /\ Ready(has_data[p]) /\ ~GetThrows(has_data[p])
  /\ ForceRefresh(p)
  /\ timer' = [timer EXCEPT ![p] = 1700]
  /\ Forget({has_data[p]})
  /\ has_data' = [has_data EXCEPT ![p] = NoTask]
  /\ UNCHANGED <<pageVars, requests, m_data, sortVars, shown, guiVars, shellVars>>

\* SetTable(nullptr) deletes the table, and the timer stays stopped.
FailUpdate(p) ==
  /\ Fires(p) /\ has_data[p] # NoTask /\ Ready(has_data[p]) /\ GetThrows(has_data[p])
  /\ page' = [page EXCEPT ![p] = "failed"]
  /\ gridRows' = [gridRows EXCEPT ![p] = 0]
  /\ timer' = [timer EXCEPT ![p] = 0]
  /\ Forget({has_data[p]})
  /\ has_data' = [has_data EXCEPT ![p] = NoTask]
  /\ UNCHANGED <<selected, requests, m_data, sortVars, viewVars, guiVars, shellVars>>

TimerFires(p) ==
  \/ \E t \in Tasks : LaunchUpdate(p, t)
  \/ PollUpdate(p)
  \/ ApplyUpdate(p)
  \/ FailUpdate(p)

-----------------------------------------------------------------------------
(* update_data, on the thread of task t.  It holds no lock and no owner of  *)
(* the table, only the pointer the timer handler captured.                  *)

\* A thread runs until the process ends.
At(t, where) == gui \notin {"exited", "aborted"} /\ taskAt[t] = where

FetchReturns(t, n) ==
  /\ At(t, "fetch")
  /\ taskAt' = [taskAt EXCEPT ![t] = "read"]
  /\ taskData' = [taskData EXCEPT ![t].rows = n]
  /\ UNCHANGED <<pageVars, timerVars, m_data, sortVars, viewVars, taskPage, taskCol, taskOrd, guiVars, shellVars>>

FetchThrows(t) ==
  /\ At(t, "fetch")
  /\ taskAt' = [taskAt EXCEPT ![t] = "threw"]
  /\ UNCHANGED <<pageVars, timerVars, m_data, sortVars, viewVars, taskPage, taskData, taskCol, taskOrd, guiVars, shellVars>>

Fetch(t) == (\E n \in RowCounts : FetchReturns(t, n)) \/ FetchThrows(t)

\* What a task reads from a field of its table: anything, once the table is deleted.
Reading(t, field, anything) == IF page[taskPage[t]] = "open" THEN {field[taskPage[t]]} ELSE anything

\* The arguments sorted.column and sorted.sort_order are read in either order.
ReadColumn(t) ==
  /\ At(t, "read") /\ taskCol[t] = Unread
  /\ \E c \in Reading(t, sortCol, Columns \cup {NoColumn}) : taskCol' = [taskCol EXCEPT ![t] = c]
  /\ UNCHANGED <<pageVars, timerVars, m_data, sortVars, viewVars, taskAt, taskPage, taskData, taskOrd, guiVars, shellVars>>

ReadOrder(t) ==
  /\ At(t, "read") /\ taskOrd[t] = Unread
  /\ \E o \in Reading(t, sortOrd, SortOrder) : taskOrd' = [taskOrd EXCEPT ![t] = o]
  /\ UNCHANGED <<pageVars, timerVars, m_data, sortVars, viewVars, taskAt, taskPage, taskData, taskCol, guiVars, shellVars>>

\* Two rows compared on a column that does not exist end in wmi_process::operator[]'s std::terminate.
CannotCompare(t) == taskCol[t] \notin Columns /\ taskData[t].rows > 1

SortFetched(t) ==
  /\ At(t, "read") /\ taskCol[t] # Unread /\ taskOrd[t] # Unread
  /\ taskData' = [taskData EXCEPT ![t].key = [col |-> taskCol[t], ord |-> taskOrd[t]]]
  /\ taskAt' = [taskAt EXCEPT ![t] = "publish"]
  /\ gui' = IF CannotCompare(t) THEN "aborted" ELSE gui
  /\ UNCHANGED <<pageVars, timerVars, m_data, sortVars, viewVars, taskPage, taskCol, taskOrd, cur, click, painted, shellVars>>

\* m_data = std::move(ptr), and the future becomes ready.
Publish(t) ==
  /\ At(t, "publish")
  /\ m_data' = [m_data EXCEPT ![taskPage[t]] = taskData[t]]
  /\ taskAt' = [taskAt EXCEPT ![t] = "done"]
  /\ UNCHANGED <<pageVars, timerVars, sortVars, viewVars, taskPage, taskData, taskCol, taskOrd, guiVars, shellVars>>

Continue(t) == ReadColumn(t) \/ ReadOrder(t) \/ SortFetched(t) \/ Publish(t)

-----------------------------------------------------------------------------
(* What the user and the window system do to an open grid.                  *)

\* A tab is clicked: the page that comes into view is drawn whole.
SelectPage(p) ==
  /\ Idle /\ page[p] \in {"open", "failed"} /\ selected # p
  /\ selected' = p
  /\ dirty' = [dirty EXCEPT ![p] = TRUE]
  /\ UNCHANGED <<page, gridRows, timerVars, m_data, sortVars, shown, taskVars, guiVars, shellVars>>

InView(p) == page[p] = "open" /\ selected = p

\* A column label is clicked: the handler sorts, in place, the snapshot m_data holds ...
SortClick(p, c) ==
  LET key == [col |-> c, ord |-> NextOrder(sortOrd[p])] IN
  /\ Idle /\ InView(p)
  /\ gui' = "sort_column" /\ cur' = p /\ click' = key
  /\ m_data' = [m_data EXCEPT ![p].key = key]
  /\ UNCHANGED <<pageVars, timerVars, sortVars, viewVars, taskVars, painted, shellVars>>

\* ... then notes the column (or only sorts what is shown) ...
NotNoted(c) == sortCol[cur]
Noted(c) == c

NoteColumn ==
  /\ gui = "sort_column"
  /\ gui' = "sort_order"
  /\ sortCol' = [sortCol EXCEPT ![cur] = Noted(click.col)]
  /\ UNCHANGED <<pageVars, timerVars, m_data, sortOrd, viewVars, taskVars, cur, click, painted, shellVars>>

\* ... and the order; wxGrid redraws a grid whose sort event was handled.
NoteOrder ==
  /\ gui = "sort_order"
  /\ gui' = "loop" /\ cur' = NoPage /\ click' = Unsorted
  /\ sortOrd' = [sortOrd EXCEPT ![cur] = click.ord]
  /\ dirty' = [dirty EXCEPT ![cur] = TRUE]
  /\ UNCHANGED <<pageVars, timerVars, m_data, sortCol, shown, taskVars, painted, shellVars>>

\* Drawing a grid reads m_data once per cell, so a snapshot may be replaced half way.
PaintBegin(p) ==
  /\ gui = "loop" /\ visible /\ InView(p) /\ dirty[p]
  /\ gui' = "painting" /\ cur' = p /\ painted' = m_data[p].ver
  /\ dirty' = [dirty EXCEPT ![p] = FALSE]
  /\ UNCHANGED <<pageVars, timerVars, m_data, sortVars, shown, taskVars, click, shellVars>>

PaintEnd ==
  /\ gui = "painting"
  /\ gui' = "loop" /\ cur' = NoPage /\ painted' = 0
  /\ shown' = [shown EXCEPT ![cur] = painted]
  /\ UNCHANGED <<pageVars, timerVars, m_data, sortVars, dirty, taskVars, click, shellVars>>

\* Close(): the grids and their tables are deleted first, while nothing stops their timers ...
CloseFrame ==
  /\ Idle
  /\ gui' = "closing"
  /\ page' = [p \in Pages |-> IF page[p] = "open" THEN "deleted" ELSE page[p]]
  /\ UNCHANGED <<selected, gridRows, timerVars, m_data, sortVars, viewVars, taskVars, cur, click, painted, shellVars>>

\* ... then the timer handlers: the futures of std::async wait for their tasks.  Futures that
\* did not, or a window that waited for its timers to collect them, would be another program.
FuturesDetached == TRUE
FuturesCollected == \A p \in Pages : has_data[p] = NoTask
FuturesReady == \A p \in Pages : has_data[p] # NoTask => Ready(has_data[p])

DestroyHandlers ==
  /\ gui = "closing" /\ FuturesReady
  /\ gui' = "draining"
  /\ has_data' = [p \in Pages |-> NoTask]
  /\ Forget({t \in Tasks : Ready(t)})
  /\ UNCHANGED <<pageVars, timer, requests, m_data, sortVars, viewVars, cur, click, painted, shellVars>>

\* ... and the event loop handles the messages that are left before it ends.  The timers are
\* still running, each with a pointer to the frame that is gone: whether one that has expired
\* does any harm is undefined.
LateTimer(p) ==
  /\ gui = "draining" /\ timer[p] # 0
  /\ timer' = [timer EXCEPT ![p] = 0]
  /\ gui' \in {"draining", "aborted"}
  /\ UNCHANGED <<pageVars, has_data, requests, m_data, sortVars, viewVars, taskVars, cur, click, painted, shellVars>>

ExitApp ==
  /\ gui = "draining"
  /\ gui' = "exited"
  /\ UNCHANGED <<pageVars, timerVars, m_data, sortVars, viewVars, taskVars, cur, click, painted, shellVars>>

-----------------------------------------------------------------------------
User ==
  \/ \E p \in Pages : AddPage(p) \/ SelectPage(p)
  \/ \E p \in Pages, c \in Clicked : SortClick(p, c)
  \/ OpenDialog \/ DismissBox
  \/ CloseFrame

Constructor == ShowFrame \/ \E p \in Pages : OpenNext(p)

GuiThread ==
  \/ Constructor
  \/ AddPageReturns
  \/ \E p \in Pages : TimerFires(p) \/ PaintBegin(p)
  \/ PaintEnd \/ NoteColumn \/ NoteOrder
  \/ DestroyHandlers \/ ExitApp \/ \E p \in Pages : LateTimer(p)

\* The process has ended.
Halted == gui \in {"exited", "aborted"} /\ UNCHANGED vars

Next ==
  \/ User
  \/ GuiThread
  \/ \E t \in Tasks : Fetch(t) \/ Continue(t)
  \/ Halted

Spec == Init /\ [][Next]_vars

\* A host that is not Responsive may never answer: ConnectServer is called without
\* WBEM_FLAG_CONNECT_USE_MAX_WAIT and Next with WBEM_INFINITE.
Answers(p) == \E t \in Tasks : taskPage[t] = p /\ Fetch(t)

\* Windows posts WM_TIMER and WM_PAINT when nothing else is queued.  A user cannot keep the
\* queue full for ever, so a timer or a repaint that is due again and again gets its turn.
Fairness ==
  /\ \A p \in Pages : SF_vars(TimerFires(p)) /\ SF_vars(PaintBegin(p))
  /\ WF_vars(Constructor) /\ WF_vars(PaintEnd) /\ WF_vars(NoteColumn) /\ WF_vars(NoteOrder)
  /\ WF_vars(DestroyHandlers) /\ WF_vars(ExitApp)
  /\ WF_vars(cur \in Responsive /\ AddPageReturns)
  /\ \A t \in Tasks : WF_vars(Continue(t))
  /\ \A p \in Responsive : WF_vars(Answers(p))

FairSpec == Spec /\ Fairness

-----------------------------------------------------------------------------
(* Properties. *)

TypeOK ==
  /\ page \in [Pages -> PageState]
  /\ selected \in Pages \cup {NoPage}
  /\ timer \in [Pages -> Delays]
  /\ has_data \in [Pages -> Tasks \cup {NoTask}]
  /\ requests \in [Pages -> Version]
  /\ m_data \in [Pages -> Snapshot]
  /\ sortCol \in [Pages -> Columns \cup {NoColumn}]
  /\ sortOrd \in [Pages -> SortOrder]
  /\ gridRows \in [Pages -> Rows]
  /\ dirty \in [Pages -> BOOLEAN]
  /\ shown \in [Pages -> Version]
  /\ taskAt \in [Tasks -> TaskState]
  /\ taskPage \in [Tasks -> Pages \cup {NoPage}]
  /\ taskData \in [Tasks -> Snapshot]
  /\ taskCol \in [Tasks -> Columns \cup {NoColumn, Unread}]
  /\ taskOrd \in [Tasks -> SortOrder \cup {Unread}]
  /\ gui \in GuiState
  /\ cur \in Pages \cup {NoPage}
  /\ click \in Key
  /\ painted \in Version
  /\ pending \subseteq Pages
  /\ modal \in {"none", "box", "prompt"}
  /\ visible \in BOOLEAN

\* Inside update_data.
Working(t) == taskAt[t] \in {"fetch", "read", "publish"}

\* Two threads never run update_data on the same table, although nothing in the table
\* prevents it: only the timer handler's has_data does.
OneUpdatePerTable ==
  \A t, u \in Tasks : t # u /\ Working(t) /\ Working(u) => taskPage[t] # taskPage[u]

\* The raw table pointer a task captured is valid while the window is open, and no task
\* outlives the program.  (Between CloseFrame and DestroyHandlers it is not: the grids, which
\* own the tables, are deleted before the futures are waited for.)
TableOutlivesItsTask ==
  \A t \in Tasks : Working(t) => page[taskPage[t]] = "open" \/ gui \in {"closing", "aborted"}

\* The one-shot timer of a page is always started again while the page shows data, and never
\* after its fetch has failed.  (Closing the window stops no timer: a deleted page has one.)
TimerRunsWhileOpen ==
  \A p \in Pages : /\ page[p] = "open" => timer[p] # 0
                   /\ page[p] \in {"none", "failed"} => timer[p] = 0

\* What the screen shows is older than the table's snapshot only as long as a repaint
\* is pending or under way, or the timer handler still has to ask for one.
StaleScreenWillBeDrawn ==
  \A p \in Pages : page[p] = "open" /\ shown[p] < m_data[p].ver =>
    \/ dirty[p]
    \/ gui = "painting" /\ cur = p /\ painted = m_data[p].ver
    \/ has_data[p] # NoTask

\* A snapshot never replaces one that was asked for later.
DataNeverGoesBack == [][\A p \in Pages : m_data'[p].ver >= m_data[p].ver]_vars

\* operator[]'s std::terminate is out of reach while the window is open: add_page sorts the
\* table before any task can read sorted.column.
AbortsOnlyWhileClosing == [][gui' = "aborted" => gui \in {"closing", "draining"}]_vars

\* The GUI thread waits in add_page for a host that never answers.
Stuck == gui = "adding" /\ cur \notin Responsive

\* A page whose host answers is refreshed again and again, whatever the other hosts do, and
\* behind every dialog the user leaves open.
KeepsRefreshing ==
  \A p \in Responsive : <>[](page[p] = "open" /\ ~Stuck) => []<><<ApplyUpdate(p)>>_vars

\* Hosts of the command line that fail keep the window from being shown only until the user has
\* dismissed their message boxes, while the pages of the others are already refreshed.
WindowOpens == []<>(modal = "none") => <>(visible \/ Stuck \/ gui = "exited")

\* A fetch that fails on another thread ends in an empty page.
ErrorReachesUser ==
  \A p \in Pages :
    (page[p] = "open" /\ \E t \in Tasks : taskPage[t] = p /\ taskAt[t] = "threw")
      ~> (page[p] # "open" \/ Stuck)

\* After the last click on a column label, the data is in the order that click chose, though a
\* task may read sorted.column and sorted.sort_order before, between and after its two writes.
SortEventuallyHonoured ==
  \A p \in Responsive, key \in Key :
    [](/\ gui = "sort_order" /\ cur = p /\ click = key
       /\ [](gui # "sort_column")
       => <>[](m_data[p].key = key \/ page[p] # "open" \/ Stuck))

\* New data reaches the screen, if the user leaves the page in view, also behind a dialog.
ScreenCatchesUp ==
  \A p \in Pages, v \in Version :
    (visible /\ page[p] = "open" /\ selected = p /\ m_data[p].ver = v)
      ~> (shown[p] >= v \/ page[p] # "open" \/ selected # p \/ Stuck)

\* Closing the window ends the program, unless a host never answers a fetch in progress.
CloseTerminates ==
  gui = "closing" ~> \/ gui \in {"exited", "aborted"}
                     \/ \E t \in Tasks : taskAt[t] = "fetch" /\ taskPage[t] \notin Responsive

-----------------------------------------------------------------------------
(* The inductive invariant of the proofs in PageRefreshProofs. *)

\* has_data and the tasks point at each other: the one handle to a task that is not free is
\* the has_data of its page, which has or had a table.
HandlesMatch ==
  /\ \A p \in Pages : has_data[p] # NoTask =>
       taskAt[has_data[p]] # "free" /\ taskPage[has_data[p]] = p /\ page[p] \in {"open", "deleted"}
  /\ \A t \in Tasks : taskAt[t] # "free" => taskPage[t] \in Pages /\ has_data[taskPage[t]] = t

\* Tables are deleted by closing the window, and waited for before the program ends.
ClosingOrder ==
  /\ gui \in {"closing", "draining", "exited"} => \A p \in Pages : page[p] # "open"
  /\ \A p \in Pages : page[p] = "deleted" => gui \in {"closing", "draining", "exited", "aborted"}
  /\ gui \in {"draining", "exited"} => \A t \in Tasks : taskAt[t] = "free"

\* A host of the command line has no page before its turn, and the window is shown after all.
StartupOrder ==
  /\ visible \/ modal = "prompt" => pending = {}
  /\ \A p \in pending : page[p] = "none"
  /\ gui = "adding" => cur \notin pending

\* A handler's page is open, or about to be; nothing else touches it until the handler returns.
HandlersPage ==
  /\ gui = "adding" => cur \in Pages /\ page[cur] = "none"
  /\ gui \in {"painting", "sort_column", "sort_order"} => cur \in Pages /\ page[cur] = "open"

\* An open table is sorted on a column that exists, and so is what a task read of it.
SortedOnColumn ==
  /\ gui = "sort_column" => click.col \in Columns
  /\ \A p \in Pages : page[p] = "open" => sortCol[p] \in Columns
  /\ \A t \in Tasks : taskAt[t] \in {"free", "fetch"} => taskCol[t] = Unread
  /\ \A t \in Tasks : taskAt[t] = "read" /\ page[taskPage[t]] = "open" => taskCol[t] \in Columns \cup {Unread}

\* A snapshot is as recent as the request it answers, and no later than the last request.
VersionsInOrder ==
  /\ \A p \in Pages : m_data[p].ver <= requests[p]
  /\ \A p \in Pages : page[p] = "none" => m_data[p].ver = 0
  /\ \A t \in Tasks : taskAt[t] # "free" => taskData[t].ver = requests[taskPage[t]]

\* A repaint that began with data that has been replaced will be followed by another.
PaintedIsCurrent ==
  gui = "painting" => painted = m_data[cur].ver \/ dirty[cur] \/ has_data[cur] # NoTask

IInv ==
  /\ TypeOK
  /\ HandlesMatch
  /\ ClosingOrder
  /\ StartupOrder
  /\ HandlersPage
  /\ TimerRunsWhileOpen
  /\ SortedOnColumn
  /\ VersionsInOrder
  /\ PaintedIsCurrent
  /\ StaleScreenWillBeDrawn

-----------------------------------------------------------------------------
(* PageRefresh implements PageView: the task of has_data is the request, and *)
(* a page whose table is deleted shows nothing and asks for nothing.         *)

ViewStatus(p) ==
  IF page[p] = "open" THEN "live"
  ELSE IF page[p] = "failed" THEN "dead"
  ELSE IF page[p] = "deleted" THEN "gone" ELSE "none"

ViewRequest(p) ==
  IF page[p] # "open" \/ has_data[p] = NoTask THEN "idle"
  ELSE IF taskAt[has_data[p]] = "done" THEN "answered"
  ELSE IF taskAt[has_data[p]] = "threw" THEN "refused" ELSE "asked"

ViewVersion(p) == IF page[p] = "deleted" THEN 0 ELSE m_data[p].ver

View == INSTANCE PageView WITH
  status <- [p \in Pages |-> ViewStatus(p)],
  request <- [p \in Pages |-> ViewRequest(p)],
  version <- [p \in Pages |-> ViewVersion(p)]

\* Safety: every step of the window is a step of the promise of PageView, or none.
ImplementsPageView == View!ViewSpec

\* The whole promise, when no host leaves the GUI thread waiting: a live page asks, its host
\* replies and the page takes notice, however the tasks, timers and repaints interleave.
ImplementsFairPageView == View!FairViewSpec

\* What the README promises, "View running processes": every process in the snapshot has a row
\* in the grid.  It does not hold: the grid read its row count once, in SetTable.
EveryProcessHasARow ==
  \A p \in Pages : page[p] = "open" /\ ~dirty[p] /\ has_data[p] = NoTask => m_data[p].rows <= gridRows[p]
=============================================================================
