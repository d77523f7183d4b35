------------------------- MODULE PageRefreshProofs -------------------------
(***************************************************************************)
(* Proofs about PageRefresh, for any number of pages, tasks and columns.   *)
(***************************************************************************)
EXTENDS PageRefresh, TLAPS

-----------------------------------------------------------------------------
(* Type correctness. *)

\* The values the definitions build have their types.
LEMMA ValuesOK ==
  /\ Unsorted \in Key
  /\ NoSnapshot \in Snapshot
  /\ \A n \in Version : Bump(n) \in Version /\ Bump(n) >= n
  /\ \A o \in SortOrder : NextOrder(o) \in SortOrder
BY PageRefreshAssumption
   DEF Unsorted, Key, NoSnapshot, Snapshot, Version, Rows, Bump, NextOrder, SortOrder

\* A snapshot that is sorted again is a snapshot.
LEMMA SortedSnapshot ==
  ASSUME NEW s \in Snapshot, NEW k \in Key
  PROVE  [s EXCEPT !.key = k] \in Snapshot
BY DEF Snapshot

\* Forgetting tasks keeps the types of what is known of them.
LEMMA ForgetType ==
  ASSUME TypeOK, NEW done, Forget(done)
  PROVE  /\ taskAt' \in [Tasks -> TaskState]
         /\ taskPage' \in [Tasks -> Pages \cup {NoPage}]
         /\ taskData' \in [Tasks -> Snapshot]
         /\ taskCol' \in [Tasks -> Columns \cup {NoColumn, Unread}]
         /\ taskOrd' \in [Tasks -> SortOrder \cup {Unread}]
BY ValuesOK DEF TypeOK, Forget, TaskState

LEMMA TypeInit == Init => TypeOK
<1> SUFFICES ASSUME Init PROVE TypeOK
  OBVIOUS
<1>1. gui \in GuiState /\ pending \subseteq Pages /\ modal \in {"none", "box", "prompt"} /\ visible \in BOOLEAN
  BY DEF Init, OnInit, CommandLine, GuiState
<1>2. /\ page \in [Pages -> PageState] /\ selected \in Pages \cup {NoPage}
      /\ timer \in [Pages -> Delays] /\ has_data \in [Pages -> Tasks \cup {NoTask}]
      /\ requests \in [Pages -> Version] /\ gridRows \in [Pages -> Rows]
      /\ dirty \in [Pages -> BOOLEAN] /\ shown \in [Pages -> Version]
  BY PageRefreshAssumption DEF Init, PageState, Delays, Version, Rows
<1>3. /\ taskAt \in [Tasks -> TaskState] /\ taskPage \in [Tasks -> Pages \cup {NoPage}]
      /\ taskCol \in [Tasks -> Columns \cup {NoColumn, Unread}] /\ taskOrd \in [Tasks -> SortOrder \cup {Unread}]
      /\ cur \in Pages \cup {NoPage} /\ painted \in Version
  BY PageRefreshAssumption DEF Init, TaskState, Version
<1>4. /\ sortCol \in [Pages -> Columns \cup {NoColumn}] /\ sortOrd \in [Pages -> SortOrder]
      /\ m_data \in [Pages -> Snapshot] /\ taskData \in [Tasks -> Snapshot] /\ click \in Key
  BY ValuesOK DEF Init, Unsorted, Key
<1> QED
  BY <1>1, <1>2, <1>3, <1>4 DEF TypeOK

\* A task's reads are typed because it has a page.
LEMMA TypeNext == TypeOK /\ HandlesMatch /\ [Next]_vars => TypeOK'
<1> SUFFICES ASSUME TypeOK, HandlesMatch, [Next]_vars PROVE TypeOK'
  OBVIOUS
<1> USE DEF TypeOK, shellVars
<1>1. ASSUME NEW p \in Pages, AddPage(p) PROVE TypeOK'
  BY <1>1 DEF AddPage, pageVars, timerVars, sortVars, viewVars, taskVars, GuiState
<1>2. CASE AddPageThrows
  BY <1>2 DEF AddPageThrows, Reported, pageVars, timerVars, sortVars, viewVars, taskVars, GuiState
<1>3. ASSUME NEW n \in RowCounts, AddPageOpens(n) PROVE TypeOK'
  <2>1. cur \in Pages => SortedAtOpening(cur) \in Key
    BY ValuesOK, PageRefreshAssumption DEF SortedAtOpening, Key
  <2>2. cur \in Pages => [ver |-> 0, rows |-> n, key |-> SortedAtOpening(cur)] \in Snapshot
    BY <2>1, PageRefreshAssumption DEF Snapshot, Version, Rows
  <2>3. cur \in Pages => SortedAtOpening(cur).col \in Columns \cup {NoColumn} /\ SortedAtOpening(cur).ord \in SortOrder
    BY <2>1 DEF Key
  <2>4. n \in Rows
    BY DEF Rows
  <2>5. sortCol' \in [Pages -> Columns \cup {NoColumn}] /\ sortOrd' \in [Pages -> SortOrder]
    BY <1>3, <2>3 DEF AddPageOpens
  <2>6. m_data' \in [Pages -> Snapshot]
    BY <1>3, <2>2 DEF AddPageOpens
  <2> QED
    BY <1>3, <2>4, <2>5, <2>6 DEF AddPageOpens, Caller, taskVars, GuiState, PageState, Delays
<1>4. ASSUME NEW p \in Pages, NEW t \in Tasks, LaunchUpdate(p, t) PROVE TypeOK'
  <2>1. [NoSnapshot EXCEPT !.ver = Bump(requests[p])] \in Snapshot
    BY ValuesOK DEF Snapshot
  <2> QED
    BY <1>4, <2>1, ValuesOK
       DEF LaunchUpdate, pageVars, sortVars, viewVars, guiVars, TaskState, Delays
<1>5. ASSUME NEW p \in Pages, PollUpdate(p) PROVE TypeOK'
  BY <1>5 DEF PollUpdate, PollDelay, pageVars, sortVars, viewVars, taskVars, guiVars, Delays
<1>6. ASSUME NEW p \in Pages, ApplyUpdate(p) PROVE TypeOK'
  <2>1. Forget({has_data[p]})
    BY <1>6 DEF ApplyUpdate
  <2> QED
    BY <1>6, <2>1, ForgetType DEF ApplyUpdate, ForceRefresh, pageVars, sortVars, guiVars, Delays
<1>7. ASSUME NEW p \in Pages, FailUpdate(p) PROVE TypeOK'
  <2>1. Forget({has_data[p]})
    BY <1>7 DEF FailUpdate
  <2> QED
    BY <1>7, <2>1, ForgetType
       DEF FailUpdate, sortVars, viewVars, guiVars, Delays, PageState, Rows
<1>8. ASSUME NEW t \in Tasks, NEW n \in RowCounts, FetchReturns(t, n) PROVE TypeOK'
  <2>1. [taskData[t] EXCEPT !.rows = n] \in Snapshot
    BY DEF Snapshot, Rows
  <2> QED
    BY <1>8, <2>1
       DEF FetchReturns, At, pageVars, timerVars, sortVars, viewVars, guiVars, TaskState
<1>9. ASSUME NEW t \in Tasks, FetchThrows(t) PROVE TypeOK'
  BY <1>9 DEF FetchThrows, At, pageVars, timerVars, sortVars, viewVars, guiVars, TaskState
<1>10. ASSUME NEW t \in Tasks, ReadColumn(t) PROVE TypeOK'
  <2>1. PICK c \in Reading(t, sortCol, Columns \cup {NoColumn}) : taskCol' = [taskCol EXCEPT ![t] = c]
    BY <1>10 DEF ReadColumn
  <2>2. c \in Columns \cup {NoColumn}
    BY <1>10, <2>1 DEF Reading, ReadColumn, At, HandlesMatch
  <2> QED
    BY <1>10, <2>1, <2>2 DEF ReadColumn, pageVars, timerVars, sortVars, viewVars, guiVars
<1>11. ASSUME NEW t \in Tasks, ReadOrder(t) PROVE TypeOK'
  <2>1. PICK o \in Reading(t, sortOrd, SortOrder) : taskOrd' = [taskOrd EXCEPT ![t] = o]
    BY <1>11 DEF ReadOrder
  <2>2. o \in SortOrder
    BY <1>11, <2>1 DEF Reading, ReadOrder, At, HandlesMatch
  <2> QED
    BY <1>11, <2>1, <2>2 DEF ReadOrder, pageVars, timerVars, sortVars, viewVars, guiVars
<1>12. ASSUME NEW t \in Tasks, SortFetched(t) PROVE TypeOK'
  <2>1. [taskData[t] EXCEPT !.key = [col |-> taskCol[t], ord |-> taskOrd[t]]] \in Snapshot
    <3>1. [col |-> taskCol[t], ord |-> taskOrd[t]] \in Key
      BY <1>12 DEF SortFetched, Key
    <3>2. \A k \in Key : [taskData[t] EXCEPT !.key = k] \in Snapshot
      BY SortedSnapshot
    <3> QED
      BY <3>1, <3>2
  <2>2. gui' \in GuiState
    BY <1>12 DEF SortFetched, GuiState
  <2> QED
    BY <1>12, <2>1, <2>2 DEF SortFetched, pageVars, timerVars, sortVars, viewVars, TaskState
<1>13. ASSUME NEW t \in Tasks, Publish(t) PROVE TypeOK'
  BY <1>13 DEF Publish, pageVars, timerVars, sortVars, viewVars, guiVars, TaskState
<1>14. ASSUME NEW p \in Pages, SelectPage(p) PROVE TypeOK'
  BY <1>14 DEF SelectPage, timerVars, sortVars, taskVars, guiVars
<1>15. ASSUME NEW p \in Pages, NEW c \in Clicked, SortClick(p, c) PROVE TypeOK'
  <2>1. [col |-> c, ord |-> NextOrder(sortOrd[p])] \in Key
    BY ValuesOK, PageRefreshAssumption DEF Key
  <2>2. \A k \in Key : [m_data[p] EXCEPT !.key = k] \in Snapshot
    BY SortedSnapshot
  <2>3. m_data' \in [Pages -> Snapshot] /\ click' \in Key
    BY <1>15, <2>1, <2>2 DEF SortClick
  <2> QED
    BY <1>15, <2>3
       DEF SortClick, pageVars, timerVars, sortVars, viewVars, taskVars, GuiState
<1>16. CASE NoteColumn
  <2>1. click.col \in Columns \cup {NoColumn}
    BY DEF Key
  <2> QED
    BY <1>16, <2>1 DEF NoteColumn, Noted, pageVars, timerVars, viewVars, taskVars, GuiState
<1>17. CASE NoteOrder
  <2>1. click.ord \in SortOrder
    BY DEF Key
  <2> QED
    BY <1>17, <2>1, ValuesOK DEF NoteOrder, pageVars, timerVars, taskVars, GuiState
<1>18. ASSUME NEW p \in Pages, PaintBegin(p) PROVE TypeOK'
  <2>1. m_data[p].ver \in Version
    BY DEF Snapshot
  <2> QED
    BY <1>18, <2>1 DEF PaintBegin, pageVars, timerVars, sortVars, taskVars, GuiState
<1>19. CASE PaintEnd
  <2>1. 0 \in Version
    BY PageRefreshAssumption DEF Version
  <2> QED
    BY <1>19, <2>1 DEF PaintEnd, pageVars, timerVars, sortVars, taskVars, GuiState
<1>20. CASE CloseFrame
  BY <1>20 DEF CloseFrame, timerVars, sortVars, viewVars, taskVars, GuiState, PageState
<1>21. CASE DestroyHandlers
  <2>1. Forget({t \in Tasks : Ready(t)})
    BY <1>21 DEF DestroyHandlers
  <2> QED
    BY <1>21, <2>1, ForgetType DEF DestroyHandlers, pageVars, sortVars, viewVars, GuiState
<1>22. CASE Constructor
  BY <1>22 DEF Constructor, OpenNext, ShowFrame, pageVars, timerVars, sortVars, viewVars, taskVars, GuiState
<1>23. CASE OpenDialog
  BY <1>23 DEF OpenDialog, OpenRemote, About, pageVars, timerVars, sortVars, viewVars, taskVars, guiVars
<1>24. CASE DismissBox
  BY <1>24 DEF DismissBox, Caller, pageVars, timerVars, sortVars, viewVars, taskVars, GuiState
<1>25. ASSUME NEW p \in Pages, LateTimer(p) PROVE TypeOK'
  BY <1>25 DEF LateTimer, pageVars, sortVars, viewVars, taskVars, GuiState, Delays
<1>26. CASE ExitApp
  BY <1>26 DEF ExitApp, pageVars, timerVars, sortVars, viewVars, taskVars, GuiState
<1>27. CASE UNCHANGED vars
  BY <1>27 DEF vars, pageVars, timerVars, sortVars, viewVars, taskVars, guiVars
<1> QED
  BY <1>1, <1>2, <1>3, <1>4, <1>5, <1>6, <1>7, <1>8, <1>9, <1>10, <1>11, <1>12, <1>13,
     <1>14, <1>15, <1>16, <1>17, <1>18, <1>19, <1>20, <1>21, <1>22, <1>23,
     <1>24, <1>25, <1>26, <1>27
  DEF Next, User, GuiThread, AddPageReturns, TimerFires, Fetch, Continue, Halted

-----------------------------------------------------------------------------
(* The other conjuncts of the inductive invariant, each from all of IInv. *)

\* The window opens a host's page next, is shown, or opens or closes a dialog.
ShellStep == Constructor \/ OpenDialog \/ DismissBox

LEMMA ShellSteps ==
  ASSUME ShellStep
  PROVE  /\ UNCHANGED <<page, selected, gridRows, timer, has_data, requests, m_data, sortCol, sortOrd, dirty, shown>>
         /\ UNCHANGED <<taskAt, taskPage, taskData, taskCol, taskOrd, click, painted>>
         /\ gui \in {"starting", "loop"}
         /\ \/ gui' \in {"starting", "loop"}
            \/ gui' = "adding" /\ \E p \in pending : cur' = p /\ pending' = pending \ {p}
BY DEF ShellStep, Constructor, OpenNext, ShowFrame, OpenDialog, OpenRemote, About, Idle, DismissBox, Caller,
  pageVars, timerVars, sortVars, viewVars, taskVars, guiVars

\* The steps of the GUI thread that start or end no page, no refresh and no task.
Quiet ==
  \/ ShellStep
  \/ \E p \in Pages : AddPage(p) \/ PollUpdate(p) \/ SelectPage(p) \/ PaintBegin(p)
  \/ \E p \in Pages, c \in Clicked : SortClick(p, c)
  \/ AddPageThrows \/ NoteColumn \/ NoteOrder \/ PaintEnd
  \/ UNCHANGED vars

LEMMA QuietSteps == Quiet => UNCHANGED <<page, has_data, requests, taskVars>>
BY ShellSteps DEF Quiet, AddPage, PollUpdate, SelectPage, PaintBegin, SortClick, AddPageThrows,
  NoteColumn, NoteOrder, PaintEnd, vars, pageVars, timerVars, taskVars

\* The window is being closed, or closed.
Ending == {"closing", "draining", "exited", "aborted"}

\* They leave the GUI thread in its event loop or in a handler.
LEMMA QuietGui ==
  ASSUME Quiet
  PROVE  UNCHANGED vars \/ (gui \notin Ending /\ gui' \notin Ending)
BY ShellSteps DEF Quiet, AddPage, PollUpdate, Fires, SelectPage, InView, PaintBegin, SortClick, AddPageThrows,
  Reported, Idle, NoteColumn, NoteOrder, PaintEnd, guiVars, Ending

\* The event loop ends, with or without timers that expire before.
Drain == ExitApp \/ \E p \in Pages : LateTimer(p)

\* It touches nothing but the timers.
LEMMA DrainSteps ==
  ASSUME Drain
  PROVE  /\ UNCHANGED <<page, selected, gridRows, has_data, requests, m_data, sortVars, dirty, shown, shellVars>>
         /\ UNCHANGED <<taskAt, taskPage, taskData, taskCol, taskOrd, cur, click, painted>>
         /\ gui = "draining" /\ gui' \in {"draining", "exited", "aborted"}
         /\ UNCHANGED timer \/ \E p \in Pages : timer' = [timer EXCEPT ![p] = 0]
BY DEF Drain, ExitApp, LateTimer, pageVars, timerVars, viewVars, taskVars

\* All steps, by what they do to pages and tasks.
LEMMA StepCases ==
  ASSUME [Next]_vars
  PROVE  \/ Quiet
         \/ \E n \in RowCounts : AddPageOpens(n)
         \/ \E p \in Pages, t \in Tasks : LaunchUpdate(p, t)
         \/ \E p \in Pages : ApplyUpdate(p) \/ FailUpdate(p)
         \/ \E t \in Tasks : Fetch(t) \/ Continue(t)
         \/ CloseFrame
         \/ DestroyHandlers
         \/ Drain
BY DEF Next, User, GuiThread, AddPageReturns, TimerFires, Halted, Quiet, ShellStep, Drain

\* A timer that fires in the event loop belongs to a page that shows data.
LEMMA FiringPage ==
  ASSUME IInv, NEW p \in Pages, Fires(p)
  PROVE  page[p] = "open"
BY DEF Fires, IInv, TimerRunsWhileOpen, ClosingOrder, TypeOK, PageState

\* The timer handler starts and ends in the event loop.
LEMMA TimerGui == \A p \in Pages :
  ApplyUpdate(p) \/ FailUpdate(p) \/ (\E t \in Tasks : LaunchUpdate(p, t)) => gui = "loop" /\ gui' = "loop"
<1> SUFFICES ASSUME NEW p \in Pages,
                    ApplyUpdate(p) \/ FailUpdate(p) \/ \E t \in Tasks : LaunchUpdate(p, t)
             PROVE  gui = "loop" /\ gui' = "loop"
  OBVIOUS
<1>1. Fires(p) /\ UNCHANGED guiVars
  BY DEF ApplyUpdate, FailUpdate, LaunchUpdate
<1> QED
  BY <1>1 DEF Fires, guiVars

\* A task moves itself along, and leaves pages, timers, handles and the screen alone.
LEMMA TaskSteps ==
  ASSUME NEW t \in Tasks, Fetch(t) \/ Continue(t)
  PROVE  /\ UNCHANGED <<page, selected, has_data, timer, requests, taskPage, dirty, shown, sortVars, cur, click, painted>>
         /\ gui \notin {"exited", "aborted"} /\ gui' \in {gui, "aborted"}
         /\ taskAt[t] \in {"fetch", "read", "publish"}
         /\ \/ UNCHANGED taskAt
            \/ \E a \in {"read", "threw", "publish", "done"} : taskAt' = [taskAt EXCEPT ![t] = a]
BY DEF Fetch, FetchReturns, FetchThrows, Continue, ReadColumn, ReadOrder, SortFetched, Publish,
  At, pageVars, timerVars, sortVars, viewVars, guiVars

LEMMA HandlesMatchNext == IInv /\ [Next]_vars => HandlesMatch'
<1> SUFFICES ASSUME IInv, [Next]_vars PROVE HandlesMatch'
  OBVIOUS
<1> USE DEF HandlesMatch
<1>1. TypeOK /\ HandlesMatch
  BY DEF IInv
<1>2. CASE Quiet
  BY <1>1, <1>2, QuietSteps DEF taskVars
<1>3. ASSUME NEW n \in RowCounts, AddPageOpens(n) PROVE HandlesMatch'
  BY <1>1, <1>3 DEF AddPageOpens, taskVars, TypeOK
<1>4. ASSUME NEW p \in Pages, NEW t \in Tasks, LaunchUpdate(p, t) PROVE HandlesMatch'
  <2>1. page[p] = "open" /\ NoTask # t
    BY <1>4, FiringPage, PageRefreshAssumption DEF LaunchUpdate
  <2> QED
    BY <1>1, <1>4, <2>1, PageRefreshAssumption DEF LaunchUpdate, NothingRequested, pageVars, TypeOK
<1>5. ASSUME NEW p \in Pages, ApplyUpdate(p) PROVE HandlesMatch'
  BY <1>1, <1>5 DEF ApplyUpdate, Forget, pageVars, TypeOK
<1>6. ASSUME NEW p \in Pages, FailUpdate(p) PROVE HandlesMatch'
  BY <1>1, <1>6 DEF FailUpdate, Forget, TypeOK
<1>7. ASSUME NEW t \in Tasks, Fetch(t) \/ Continue(t) PROVE HandlesMatch'
  BY <1>1, <1>7, TaskSteps DEF TypeOK
<1>8. CASE CloseFrame
  BY <1>1, <1>8 DEF CloseFrame, timerVars, taskVars, TypeOK
<1>9. CASE DestroyHandlers
  BY <1>1, <1>9 DEF DestroyHandlers, FuturesReady, Ready, Forget, pageVars, TypeOK
<1>10. CASE Drain
  BY <1>1, <1>10, DrainSteps
<1> QED
  BY <1>2, <1>3, <1>4, <1>5, <1>6, <1>7, <1>8, <1>9, <1>10, StepCases

LEMMA ClosingOrderNext == IInv /\ [Next]_vars => ClosingOrder'
<1> SUFFICES ASSUME IInv, [Next]_vars PROVE ClosingOrder'
  OBVIOUS
<1> USE DEF ClosingOrder
<1>1. TypeOK /\ HandlesMatch /\ ClosingOrder /\ HandlersPage
  BY DEF IInv
<1>2. CASE Quiet
  <2>1. gui' \in Ending <=> gui \in Ending
    BY <1>2, ShellSteps DEF Quiet, AddPage, PollUpdate, SelectPage, Idle, PaintBegin, SortClick, AddPageThrows,
       Reported, NoteColumn, NoteOrder, PaintEnd, vars, guiVars, Ending
  <2>2. gui' # gui => gui' \notin Ending
    BY <1>2, ShellSteps DEF Quiet, AddPage, PollUpdate, SelectPage, PaintBegin, SortClick, AddPageThrows,
       Reported, NoteColumn, NoteOrder, PaintEnd, vars, guiVars, Ending
  <2> QED
    BY <1>1, <1>2, <2>1, <2>2, QuietSteps DEF taskVars, Ending
<1>3. ASSUME NEW n \in RowCounts, AddPageOpens(n) PROVE ClosingOrder'
  BY <1>1, <1>3 DEF AddPageOpens, Caller, TypeOK, HandlersPage
<1>4. ASSUME NEW p \in Pages, NEW t \in Tasks, LaunchUpdate(p, t) PROVE ClosingOrder'
  BY <1>1, <1>4 DEF LaunchUpdate, Fires, pageVars, guiVars
<1>5. ASSUME NEW p \in Pages, ApplyUpdate(p) PROVE ClosingOrder'
  BY <1>1, <1>5 DEF ApplyUpdate, Fires, pageVars, guiVars
<1>6. ASSUME NEW p \in Pages, FailUpdate(p) PROVE ClosingOrder'
  BY <1>1, <1>6 DEF FailUpdate, Fires, guiVars, TypeOK
<1>7. ASSUME NEW t \in Tasks, Fetch(t) \/ Continue(t) PROVE ClosingOrder'
  BY <1>1, <1>7, TaskSteps
<1>8. CASE CloseFrame
  BY <1>1, <1>8 DEF CloseFrame, TypeOK
<1>9. CASE DestroyHandlers
  \* Every task that is not free has a handle, and every handle is ready.
  BY <1>1, <1>9, PageRefreshAssumption
     DEF DestroyHandlers, FuturesReady, Ready, Forget, pageVars, TypeOK, HandlesMatch
<1>10. CASE Drain
  BY <1>1, <1>10, DrainSteps
<1> QED
  BY <1>2, <1>3, <1>4, <1>5, <1>6, <1>7, <1>8, <1>9, <1>10, StepCases

LEMMA StartupOrderNext == IInv /\ [Next]_vars => StartupOrder'
<1> SUFFICES ASSUME IInv, [Next]_vars PROVE StartupOrder'
  OBVIOUS
<1> USE DEF StartupOrder, shellVars
<1>1. TypeOK /\ HandlersPage /\ StartupOrder
  BY DEF IInv
<1>2. CASE ShellStep
  BY <1>1, <1>2 DEF ShellStep, Constructor, OpenNext, ShowFrame, OpenDialog, OpenRemote, About, Idle,
     DismissBox, Caller, pageVars, guiVars
<1>3. CASE Quiet /\ ~ShellStep
  BY <1>1, <1>3, QuietSteps DEF Quiet, AddPage, PollUpdate, SelectPage, PaintBegin, SortClick, AddPageThrows,
     Reported, NoteColumn, NoteOrder, PaintEnd, vars, guiVars
<1>4. ASSUME NEW n \in RowCounts, AddPageOpens(n) PROVE StartupOrder'
  BY <1>1, <1>4 DEF AddPageOpens, Caller, HandlersPage, TypeOK
<1>5. ASSUME NEW p \in Pages, NEW t \in Tasks, LaunchUpdate(p, t) PROVE StartupOrder'
  BY <1>1, <1>5 DEF LaunchUpdate, pageVars, guiVars
<1>6. ASSUME NEW p \in Pages, ApplyUpdate(p) PROVE StartupOrder'
  BY <1>1, <1>6 DEF ApplyUpdate, pageVars, guiVars
<1>7. ASSUME NEW p \in Pages, FailUpdate(p) PROVE StartupOrder'
  <2>1. page[p] = "open"
    BY <1>7, FiringPage DEF FailUpdate
  <2> QED
    BY <1>1, <1>7, <2>1 DEF FailUpdate, guiVars, TypeOK
<1>8. ASSUME NEW t \in Tasks, Fetch(t) \/ Continue(t) PROVE StartupOrder'
  <2>1. UNCHANGED shellVars
    BY <1>8 DEF Fetch, FetchReturns, FetchThrows, Continue, ReadColumn, ReadOrder, SortFetched, Publish
  <2> QED
    BY <1>1, <1>8, <2>1, TaskSteps
<1>9. CASE CloseFrame
  BY <1>1, <1>9 DEF CloseFrame, TypeOK
<1>10. CASE DestroyHandlers
  BY <1>1, <1>10 DEF DestroyHandlers, pageVars
<1>11. CASE Drain
  BY <1>1, <1>11, DrainSteps
<1> QED
  BY <1>2, <1>3, <1>4, <1>5, <1>6, <1>7, <1>8, <1>9, <1>10, <1>11, StepCases

LEMMA HandlersPageNext == IInv /\ [Next]_vars => HandlersPage'
<1> SUFFICES ASSUME IInv, [Next]_vars PROVE HandlersPage'
  OBVIOUS
<1> USE DEF HandlersPage
<1>1. TypeOK /\ HandlersPage /\ StartupOrder
  BY DEF IInv
<1>2. CASE Quiet
  <2>1. CASE ShellStep
    BY <1>1, <2>1, ShellSteps DEF StartupOrder, TypeOK
  <2> QED
    BY <1>1, <1>2, <2>1 DEF Quiet, AddPage, PollUpdate, SelectPage, Idle, InView, PaintBegin, SortClick,
       AddPageThrows, Reported, NoteColumn, NoteOrder, PaintEnd, vars, pageVars, guiVars
<1>3. ASSUME NEW n \in RowCounts, AddPageOpens(n) PROVE HandlersPage'
  BY <1>3 DEF AddPageOpens, Caller
<1>4. ASSUME NEW p \in Pages, NEW t \in Tasks, LaunchUpdate(p, t) PROVE HandlersPage'
  BY <1>1, <1>4 DEF LaunchUpdate, Fires, guiVars
<1>5. ASSUME NEW p \in Pages, ApplyUpdate(p) \/ FailUpdate(p) PROVE HandlersPage'
  BY <1>1, <1>5 DEF ApplyUpdate, FailUpdate, Fires, guiVars
<1>6. ASSUME NEW t \in Tasks, Fetch(t) \/ Continue(t) PROVE HandlersPage'
  BY <1>1, <1>6, TaskSteps
<1>7. CASE CloseFrame \/ DestroyHandlers \/ Drain
  BY <1>7, DrainSteps DEF CloseFrame, DestroyHandlers
<1> QED
  BY <1>2, <1>3, <1>4, <1>5, <1>6, <1>7, StepCases

LEMMA TimerRunsWhileOpenNext == IInv /\ [Next]_vars => TimerRunsWhileOpen'
<1> SUFFICES ASSUME IInv, [Next]_vars PROVE TimerRunsWhileOpen'
  OBVIOUS
<1> USE DEF TimerRunsWhileOpen
<1>1. TypeOK /\ HandlesMatch /\ ClosingOrder /\ TimerRunsWhileOpen
  BY DEF IInv
<1>2. CASE Quiet
  BY <1>1, <1>2, ShellSteps DEF Quiet, AddPage, PollUpdate, PollDelay, Fires, SelectPage, PaintBegin, SortClick,
     AddPageThrows, NoteColumn, NoteOrder, PaintEnd, vars, pageVars, timerVars, TypeOK
<1>3. ASSUME NEW n \in RowCounts, AddPageOpens(n) PROVE TimerRunsWhileOpen'
  BY <1>1, <1>3 DEF AddPageOpens, TypeOK
<1>4. ASSUME NEW p \in Pages, NEW t \in Tasks, LaunchUpdate(p, t) PROVE TimerRunsWhileOpen'
  BY <1>1, <1>4 DEF LaunchUpdate, Fires, pageVars, TypeOK
<1>5. ASSUME NEW p \in Pages, ApplyUpdate(p) PROVE TimerRunsWhileOpen'
  BY <1>1, <1>5 DEF ApplyUpdate, Fires, pageVars, TypeOK
<1>6. ASSUME NEW p \in Pages, FailUpdate(p) PROVE TimerRunsWhileOpen'
  BY <1>1, <1>6 DEF FailUpdate, TypeOK
<1>7. ASSUME NEW t \in Tasks, Fetch(t) \/ Continue(t) PROVE TimerRunsWhileOpen'
  BY <1>1, <1>7, TaskSteps
<1>8. CASE CloseFrame
  BY <1>1, <1>8 DEF CloseFrame, timerVars, TypeOK
<1>9. CASE DestroyHandlers
  BY <1>1, <1>9 DEF DestroyHandlers, pageVars
<1>10. CASE Drain
  \* A timer that expires then belongs to no page that shows data.
  BY <1>1, <1>10, DrainSteps DEF ClosingOrder, TypeOK
<1> QED
  BY <1>2, <1>3, <1>4, <1>5, <1>6, <1>7, <1>8, <1>9, <1>10, StepCases

LEMMA SortedOnColumnNext == IInv /\ [Next]_vars => SortedOnColumn'
<1> SUFFICES ASSUME IInv, [Next]_vars PROVE SortedOnColumn'
  OBVIOUS
<1> USE DEF SortedOnColumn
<1>1. TypeOK /\ HandlesMatch /\ HandlersPage /\ SortedOnColumn
  BY DEF IInv
<1>2. CASE Quiet
  <2>1. ASSUME NEW p \in Pages, NEW c \in Clicked, SortClick(p, c) PROVE SortedOnColumn'
    BY <1>1, <2>1, PageRefreshAssumption DEF SortClick, pageVars, sortVars, taskVars
  <2>2. CASE NoteColumn
    BY <1>1, <2>2 DEF NoteColumn, Noted, pageVars, taskVars, TypeOK
  <2>3. CASE ShellStep
    BY <1>1, <2>3, ShellSteps
  <2> QED
    BY <1>1, <1>2, <2>1, <2>2, <2>3 DEF Quiet, AddPage, PollUpdate, SelectPage, PaintBegin, AddPageThrows,
       Reported, NoteOrder, PaintEnd, vars, pageVars, sortVars, taskVars, guiVars
<1>3. ASSUME NEW n \in RowCounts, AddPageOpens(n) PROVE SortedOnColumn'
  <2>1. SortedAtOpening(cur).col \in Columns
    BY PageRefreshAssumption DEF SortedAtOpening
  <2>2. \A t \in Tasks : taskAt[t] # "free" => taskPage[t] # cur
    BY <1>1, <1>3, PageRefreshAssumption DEF AddPageOpens, HandlersPage, HandlesMatch
  <2> QED
    BY <1>1, <1>3, <2>1, <2>2 DEF AddPageOpens, Caller, taskVars, HandlersPage, TypeOK
<1>4. ASSUME NEW p \in Pages, NEW t \in Tasks, LaunchUpdate(p, t) PROVE SortedOnColumn'
  BY <1>1, <1>4 DEF LaunchUpdate, pageVars, sortVars, guiVars, HandlesMatch, TypeOK
<1>5. ASSUME NEW p \in Pages, ApplyUpdate(p) PROVE SortedOnColumn'
  BY <1>1, <1>5 DEF ApplyUpdate, Forget, pageVars, sortVars, guiVars, TypeOK
<1>6. ASSUME NEW p \in Pages, FailUpdate(p) PROVE SortedOnColumn'
  BY <1>1, <1>6 DEF FailUpdate, Forget, sortVars, guiVars, HandlesMatch, TypeOK
<1>7. ASSUME NEW t \in Tasks, Fetch(t) PROVE SortedOnColumn'
  BY <1>1, <1>7 DEF Fetch, FetchReturns, FetchThrows, At, pageVars, sortVars, guiVars, TypeOK
<1>8. ASSUME NEW t \in Tasks, ReadColumn(t) PROVE SortedOnColumn'
  <2>1. page[taskPage[t]] = "open" => taskCol' = [taskCol EXCEPT ![t] = sortCol[taskPage[t]]]
    BY <1>8 DEF ReadColumn, Reading
  <2>2. taskPage[t] \in Pages /\ taskAt[t] = "read"
    BY <1>1, <1>8 DEF ReadColumn, At, HandlesMatch
  <2>3. ASSUME NEW u \in Tasks, u # t PROVE taskCol'[u] = taskCol[u]
    BY <1>1, <1>8, <2>3 DEF ReadColumn, TypeOK
  <2> QED
    BY <1>1, <1>8, <2>1, <2>2, <2>3 DEF ReadColumn, pageVars, sortVars, guiVars, TypeOK
<1>9. ASSUME NEW t \in Tasks, ReadOrder(t) \/ SortFetched(t) \/ Publish(t) PROVE SortedOnColumn'
  BY <1>1, <1>9 DEF ReadOrder, SortFetched, Publish, At, pageVars, sortVars, guiVars, TypeOK
<1>10. CASE CloseFrame \/ DestroyHandlers \/ Drain
  BY <1>1, <1>10, DrainSteps
     DEF CloseFrame, DestroyHandlers, Forget, pageVars, sortVars, taskVars, HandlesMatch, TypeOK
<1> QED
  BY <1>2, <1>3, <1>4, <1>5, <1>6, <1>7, <1>8, <1>9, <1>10, StepCases DEF Continue

LEMMA VersionsInOrderNext == IInv /\ [Next]_vars => VersionsInOrder'
<1> SUFFICES ASSUME IInv, [Next]_vars PROVE VersionsInOrder'
  OBVIOUS
<1> USE DEF VersionsInOrder
<1>1. TypeOK /\ HandlesMatch /\ HandlersPage /\ VersionsInOrder
  BY DEF IInv
<1>2. CASE Quiet
  <2>1. ASSUME NEW p \in Pages, NEW c \in Clicked, SortClick(p, c) PROVE VersionsInOrder'
    <3>1. m_data' \in [Pages -> Snapshot] /\ \A q \in Pages : m_data'[q].ver = m_data[q].ver
      BY <1>1, <2>1, TypeNext DEF SortClick, TypeOK, Snapshot
    <3> QED
      BY <1>1, <2>1, <3>1 DEF SortClick, pageVars, timerVars, taskVars
  <2> QED
    BY <1>1, <1>2, <2>1, ShellSteps DEF Quiet, AddPage, PollUpdate, SelectPage, PaintBegin, AddPageThrows, NoteColumn,
       NoteOrder, PaintEnd, vars, pageVars, timerVars, taskVars
<1>3. ASSUME NEW n \in RowCounts, AddPageOpens(n) PROVE VersionsInOrder'
  <2>1. requests[cur] \in Nat
    BY <1>1, <1>3, PageRefreshAssumption DEF AddPageOpens, HandlersPage, TypeOK, Version
  <2> QED
    BY <1>1, <1>3, <2>1 DEF AddPageOpens, taskVars, HandlersPage, TypeOK
<1>4. ASSUME NEW p \in Pages, NEW t \in Tasks, LaunchUpdate(p, t) PROVE VersionsInOrder'
  <2>1. Bump(requests[p]) >= requests[p] /\ requests[p] \in Nat /\ m_data[p].ver \in Nat
        /\ Bump(requests[p]) \in Nat
    BY <1>1, ValuesOK, PageRefreshAssumption DEF TypeOK, Version, Snapshot
  <2>2. [NoSnapshot EXCEPT !.ver = Bump(requests[p])].ver = Bump(requests[p])
    BY DEF NoSnapshot
  <2>3. \A u \in Tasks : taskAt[u] # "free" => taskPage[u] # p
    BY <1>1, <1>4, PageRefreshAssumption DEF LaunchUpdate, NothingRequested, HandlesMatch
  <2>4. \A q \in Pages : m_data[q].ver <= requests'[q]
    BY <1>1, <1>4, <2>1 DEF LaunchUpdate, TypeOK
  <2>5. \A u \in Tasks : taskAt'[u] # "free" => taskData'[u].ver = requests'[taskPage'[u]]
    BY <1>1, <1>4, <2>2, <2>3 DEF LaunchUpdate, HandlesMatch, TypeOK
  <2> QED
    BY <1>1, <1>4, <2>4, <2>5 DEF LaunchUpdate, pageVars
<1>5. ASSUME NEW p \in Pages, ApplyUpdate(p) \/ FailUpdate(p) PROVE VersionsInOrder'
  BY <1>1, <1>5 DEF ApplyUpdate, FailUpdate, Forget, pageVars, HandlesMatch, TypeOK
<1>6. ASSUME NEW t \in Tasks, Fetch(t) \/ Continue(t) PROVE VersionsInOrder'
  <2>1. \A u \in Tasks : taskData'[u].ver = taskData[u].ver
    <3>1. ASSUME NEW n \in RowCounts, FetchReturns(t, n) PROVE \A u \in Tasks : taskData'[u].ver = taskData[u].ver
      BY <1>1, <3>1 DEF FetchReturns, TypeOK, Snapshot
    <3>2. CASE SortFetched(t)
      BY <1>1, <3>2 DEF SortFetched, TypeOK, Snapshot
    <3>3. CASE UNCHANGED taskData
      BY <3>3
    <3> QED
      BY <1>6, <3>1, <3>2, <3>3 DEF Fetch, FetchThrows, Continue, ReadColumn, ReadOrder, Publish
  <2>2. \A u \in Tasks : taskAt'[u] # "free" => taskAt[u] # "free"
    BY <1>1, <1>6, TaskSteps DEF TypeOK
  <2>3. CASE Publish(t)
    <3>1. taskPage[t] \in Pages /\ page[taskPage[t]] # "none" /\ taskData[t].ver = requests[taskPage[t]]
      BY <1>1, <2>3, PageRefreshAssumption DEF Publish, At, HandlesMatch
    <3>2. requests[taskPage[t]] \in Nat
      BY <1>1, <3>1, PageRefreshAssumption DEF TypeOK, Version
    <3>3. UNCHANGED <<page, requests, taskPage>>
      BY <1>6, TaskSteps
    <3>4. \A q \in Pages : m_data'[q] = IF q = taskPage[t] THEN taskData[t] ELSE m_data[q]
      BY <1>1, <2>3 DEF Publish, TypeOK
    <3>5. \A q \in Pages : m_data'[q].ver <= requests[q]
      BY <1>1, <3>1, <3>2, <3>4
    <3> QED
      BY <1>1, <2>1, <2>2, <3>1, <3>3, <3>4, <3>5
  <2>4. CASE ~Publish(t)
    <3>1. UNCHANGED m_data
      BY <1>6, <2>4 DEF Fetch, FetchReturns, FetchThrows, Continue, ReadColumn, ReadOrder, SortFetched
    <3> QED
      BY <1>1, <1>6, <2>1, <2>2, <3>1, TaskSteps
  <2> QED
    BY <2>3, <2>4
<1>7. CASE CloseFrame \/ DestroyHandlers \/ Drain
  BY <1>1, <1>7, DrainSteps DEF CloseFrame, DestroyHandlers, Forget, pageVars, timerVars, taskVars, TypeOK
<1> QED
  BY <1>2, <1>3, <1>4, <1>5, <1>6, <1>7, StepCases

\* Steps of tasks change the snapshot of a page only while it has a handle.
LEMMA TaskStepsData ==
  ASSUME IInv, NEW t \in Tasks, Fetch(t) \/ Continue(t), NEW p \in Pages
  PROVE  m_data'[p] = m_data[p] \/ has_data[p] # NoTask
<1>1. TypeOK /\ HandlesMatch
  BY DEF IInv
<1>2. CASE Publish(t)
  BY <1>1, <1>2, PageRefreshAssumption DEF Publish, At, HandlesMatch, TypeOK
<1>3. CASE ~Publish(t)
  BY <1>3 DEF Fetch, FetchReturns, FetchThrows, Continue, ReadColumn, ReadOrder, SortFetched
<1> QED
  BY <1>2, <1>3

\* A task reads a column that does not exist only from a deleted table.
LEMMA AbortStep == IInv /\ [Next]_vars /\ gui' = "aborted" => gui \in {"closing", "draining", "aborted"}
<1> SUFFICES ASSUME IInv, [Next]_vars, gui' = "aborted", gui # "aborted", ~Drain PROVE gui = "closing"
  BY DrainSteps
<1>1. TypeOK /\ HandlesMatch /\ ClosingOrder /\ SortedOnColumn
  BY DEF IInv
<1>2. PICK t \in Tasks : SortFetched(t)
  <2>1. ~Quiet
    BY QuietGui DEF vars, guiVars, Ending
  <2>2. ~(CloseFrame \/ DestroyHandlers \/ \E n \in RowCounts : AddPageOpens(n))
    BY DEF CloseFrame, DestroyHandlers, AddPageOpens, Caller
  <2>3. ~(\E p \in Pages : ApplyUpdate(p) \/ FailUpdate(p) \/ \E t \in Tasks : LaunchUpdate(p, t))
    BY TimerGui
  <2>4. PICK t \in Tasks : Fetch(t) \/ Continue(t)
    BY <2>1, <2>2, <2>3, StepCases
  <2> QED
    <3>1. gui' = gui \/ SortFetched(t)
      BY <2>4 DEF Fetch, FetchReturns, FetchThrows, Continue, ReadColumn, ReadOrder, Publish, guiVars
    <3> QED
      BY <3>1
<1>3. taskAt[t] = "read" /\ taskCol[t] \notin Columns \cup {Unread} /\ gui # "exited"
  BY <1>2 DEF SortFetched, At, CannotCompare
<1>4. taskPage[t] \in Pages /\ page[taskPage[t]] = "deleted"
  BY <1>1, <1>3, PageRefreshAssumption DEF HandlesMatch, SortedOnColumn
<1> QED
  BY <1>1, <1>2, <1>3, <1>4, PageRefreshAssumption DEF ClosingOrder, SortFetched, At

LEMMA PaintedIsCurrentNext == IInv /\ [Next]_vars => PaintedIsCurrent'
<1> SUFFICES ASSUME IInv, [Next]_vars PROVE PaintedIsCurrent'
  OBVIOUS
<1> USE DEF PaintedIsCurrent
<1>1. TypeOK /\ HandlersPage /\ PaintedIsCurrent
  BY DEF IInv
<1>2. CASE Quiet
  BY <1>1, <1>2, ShellSteps DEF Quiet, AddPage, PollUpdate, Fires, SelectPage, InView, PaintBegin, SortClick,
     AddPageThrows, Reported, Idle, NoteColumn, NoteOrder, PaintEnd, vars, timerVars, viewVars, guiVars
<1>3. ASSUME NEW n \in RowCounts, AddPageOpens(n) PROVE PaintedIsCurrent'
  BY <1>3 DEF AddPageOpens, Caller
<1>4. ASSUME NEW p \in Pages, NEW t \in Tasks, LaunchUpdate(p, t) PROVE PaintedIsCurrent'
  BY <1>4 DEF LaunchUpdate, Fires, guiVars
<1>5. ASSUME NEW p \in Pages, ApplyUpdate(p) \/ FailUpdate(p) PROVE PaintedIsCurrent'
  BY <1>5 DEF ApplyUpdate, FailUpdate, Fires, guiVars
<1>6. ASSUME NEW t \in Tasks, Fetch(t) \/ Continue(t) PROVE PaintedIsCurrent'
  <2>1. gui' = "painting" => gui = "painting" /\ cur \in Pages
    BY <1>1, <1>6, TaskSteps DEF HandlersPage
  <2>2. cur \in Pages => m_data'[cur] = m_data[cur] \/ has_data[cur] # NoTask
    BY <1>6, TaskStepsData
  <2> QED
    BY <1>1, <1>6, <2>1, <2>2, TaskSteps
<1>7. CASE CloseFrame \/ DestroyHandlers \/ Drain
  BY <1>7, DrainSteps DEF CloseFrame, DestroyHandlers
<1> QED
  BY <1>2, <1>3, <1>4, <1>5, <1>6, <1>7, StepCases

LEMMA StaleScreenNext == IInv /\ [Next]_vars => StaleScreenWillBeDrawn'
<1> SUFFICES ASSUME IInv, [Next]_vars PROVE StaleScreenWillBeDrawn'
  OBVIOUS
<1> USE DEF StaleScreenWillBeDrawn
<1>1. TypeOK /\ HandlersPage /\ PaintedIsCurrent /\ StaleScreenWillBeDrawn
  BY DEF IInv
<1>2. CASE Quiet
  <2>1. ASSUME NEW p \in Pages, NEW c \in Clicked, SortClick(p, c) PROVE StaleScreenWillBeDrawn'
    <3>1. \A q \in Pages : m_data'[q].ver = m_data[q].ver
      BY <1>1, <2>1 DEF SortClick, TypeOK, Snapshot
    <3> QED
      BY <1>1, <2>1, <3>1 DEF SortClick, Idle, pageVars, timerVars, viewVars
  <2>2. ASSUME NEW p \in Pages, PaintBegin(p) PROVE StaleScreenWillBeDrawn'
    BY <1>1, <2>2 DEF PaintBegin, InView, pageVars, timerVars, TypeOK
  <2>3. CASE PaintEnd
    <3>1. painted \in Nat /\ cur \in Pages
      BY <1>1, <2>3, PageRefreshAssumption DEF PaintEnd, HandlersPage, TypeOK, Version
    <3>2. shown' = [shown EXCEPT ![cur] = painted] /\ gui' # "painting"
          /\ UNCHANGED <<page, m_data, dirty, has_data>>
      BY <2>3 DEF PaintEnd, pageVars, timerVars
    <3>3. ASSUME NEW p \in Pages, p # cur PROVE shown'[p] = shown[p]
      BY <1>1, <3>1, <3>2, <3>3 DEF TypeOK
    <3>4. shown'[cur] = painted
      BY <1>1, <3>1, <3>2 DEF TypeOK
    <3>5. ASSUME NEW p \in Pages, p # cur, page'[p] = "open", shown'[p] < m_data'[p].ver
          PROVE  dirty'[p] \/ has_data'[p] # NoTask
      BY <1>1, <2>3, <3>2, <3>3, <3>5 DEF PaintEnd
    <3>6. shown'[cur] < m_data'[cur].ver => dirty'[cur] \/ has_data'[cur] # NoTask
      BY <1>1, <2>3, <3>1, <3>2, <3>4 DEF PaintEnd, PaintedIsCurrent
    <3> QED
      BY <3>5, <3>6
  <2>4. ASSUME NEW p \in Pages, SelectPage(p) PROVE StaleScreenWillBeDrawn'
    BY <1>1, <2>4 DEF SelectPage, timerVars, guiVars, TypeOK
  <2>5. CASE NoteOrder
    BY <1>1, <2>5 DEF NoteOrder, pageVars, timerVars, TypeOK
  <2> QED
    BY <1>1, <1>2, <2>1, <2>2, <2>3, <2>4, <2>5, ShellSteps DEF Quiet, AddPage, PollUpdate, AddPageThrows, NoteColumn,
       vars, pageVars, timerVars, viewVars, guiVars
<1>3. ASSUME NEW n \in RowCounts, AddPageOpens(n) PROVE StaleScreenWillBeDrawn'
  BY <1>1, <1>3 DEF AddPageOpens, TypeOK
<1>4. ASSUME NEW p \in Pages, NEW t \in Tasks, LaunchUpdate(p, t) PROVE StaleScreenWillBeDrawn'
  BY <1>1, <1>4, PageRefreshAssumption DEF LaunchUpdate, pageVars, viewVars, guiVars, TypeOK
<1>5. ASSUME NEW p \in Pages, ApplyUpdate(p) PROVE StaleScreenWillBeDrawn'
  BY <1>1, <1>5 DEF ApplyUpdate, ForceRefresh, pageVars, guiVars, TypeOK
<1>6. ASSUME NEW p \in Pages, FailUpdate(p) PROVE StaleScreenWillBeDrawn'
  BY <1>1, <1>6 DEF FailUpdate, viewVars, guiVars, TypeOK
<1>7. ASSUME NEW t \in Tasks, Fetch(t) \/ Continue(t) PROVE StaleScreenWillBeDrawn'
  <2>1. UNCHANGED <<page, dirty, shown, cur, painted, has_data>>
    BY <1>7, TaskSteps
  <2>2. CASE gui' = gui
    BY <1>1, <1>7, <2>1, <2>2, TaskStepsData
  <2>3. CASE gui' # gui
    <3>1. gui \in {"closing", "draining"}
      BY <1>7, <2>3, AbortStep, TaskSteps
    <3> QED
      BY <2>1, <3>1 DEF IInv, ClosingOrder
  <2> QED
    BY <2>2, <2>3
<1>8. CASE CloseFrame
  BY <1>1, <1>8 DEF CloseFrame, TypeOK
<1>9. CASE DestroyHandlers \/ Drain
  BY <1>1, <1>9, DrainSteps DEF DestroyHandlers, IInv, ClosingOrder, pageVars
<1> QED
  BY <1>2, <1>3, <1>4, <1>5, <1>6, <1>7, <1>8, <1>9, StepCases

-----------------------------------------------------------------------------
(* The theorems. *)

LEMMA IInvInit == Init => IInv
<1> SUFFICES ASSUME Init PROVE IInv
  OBVIOUS
<1>1. TypeOK
  BY TypeInit
<1>2. HandlesMatch /\ TimerRunsWhileOpen
  BY DEF Init, HandlesMatch, TimerRunsWhileOpen
<1>3. ClosingOrder /\ StartupOrder /\ HandlersPage /\ SortedOnColumn /\ PaintedIsCurrent
  <2>1. gui \in {"starting", "exited"} /\ pending \subseteq Pages /\ modal = "none" /\ visible = FALSE
    BY DEF Init, OnInit, CommandLine
  <2> QED
    BY <2>1 DEF Init, ClosingOrder, StartupOrder, HandlersPage, SortedOnColumn, PaintedIsCurrent
<1>4. VersionsInOrder /\ StaleScreenWillBeDrawn
  BY DEF Init, VersionsInOrder, StaleScreenWillBeDrawn, NoSnapshot
<1> QED
  BY <1>1, <1>2, <1>3, <1>4 DEF IInv

LEMMA IInvNext == IInv /\ [Next]_vars => IInv'
<1> SUFFICES ASSUME IInv, [Next]_vars PROVE IInv'
  OBVIOUS
<1>1. TypeOK'
  BY TypeNext DEF IInv
<1>2. HandlesMatch' /\ ClosingOrder' /\ StartupOrder' /\ HandlersPage' /\ TimerRunsWhileOpen'
  BY HandlesMatchNext, ClosingOrderNext, StartupOrderNext, HandlersPageNext, TimerRunsWhileOpenNext
<1>3. SortedOnColumn' /\ VersionsInOrder' /\ PaintedIsCurrent' /\ StaleScreenWillBeDrawn'
  BY SortedOnColumnNext, VersionsInOrderNext, PaintedIsCurrentNext, StaleScreenNext
<1> QED
  BY <1>1, <1>2, <1>3 DEF IInv

\* The inductive invariant holds in every reachable state of a window of any size.
THEOREM Invariance == Spec => []IInv
BY IInvInit, IInvNext, PTL DEF Spec

\* Every variable keeps its type.
THEOREM TypeCorrect == Spec => []TypeOK
<1>1. IInv => TypeOK
  BY DEF IInv
<1> QED
  BY <1>1, Invariance, PTL

\* The timer handler's has_data alone keeps two threads out of one table.
THEOREM NoTwoUpdates == Spec => []OneUpdatePerTable
<1>1. IInv => OneUpdatePerTable
  BY DEF IInv, HandlesMatch, OneUpdatePerTable, Working
<1> QED
  BY <1>1, Invariance, PTL

\* A task's table is deleted under it only while the window closes.
THEOREM TablesOutliveTasks == Spec => []TableOutlivesItsTask
<1>1. IInv => TableOutlivesItsTask
  BY PageRefreshAssumption DEF IInv, HandlesMatch, ClosingOrder, TableOutlivesItsTask, Working
<1> QED
  BY <1>1, Invariance, PTL

\* No page that shows data is left without a timer, and no failed page keeps one.
THEOREM TimersRun == Spec => []TimerRunsWhileOpen
<1>1. IInv => TimerRunsWhileOpen
  BY DEF IInv
<1> QED
  BY <1>1, Invariance, PTL

\* A screen older than its table is never forgotten.
THEOREM StaleScreensAreDrawn == Spec => []StaleScreenWillBeDrawn
<1>1. IInv => StaleScreenWillBeDrawn
  BY DEF IInv
<1> QED
  BY <1>1, Invariance, PTL

\* std::terminate is not called while the window is open.
THEOREM NoAbortWhileOpen == Spec => AbortsOnlyWhileClosing
<1>1. IInv /\ [Next]_vars => [gui' = "aborted" => gui \in {"closing", "draining"}]_vars
  <2> SUFFICES ASSUME IInv, [Next]_vars, gui' = "aborted", vars' # vars PROVE gui \in {"closing", "draining"}
    OBVIOUS
  <2>1. gui # "aborted"
    <3>1. ASSUME NEW t \in Tasks, Fetch(t) \/ Continue(t) PROVE gui # "aborted"
      BY <3>1, TaskSteps
    <3>2. CASE Quiet
      BY <3>2, QuietGui DEF Ending
    <3> QED
      BY <3>1, <3>2, StepCases, TimerGui, DrainSteps DEF AddPageOpens, CloseFrame, Idle, DestroyHandlers
  <2> QED
    BY <2>1, AbortStep
<1> QED
  BY <1>1, Invariance, PTL DEF Spec, AbortsOnlyWhileClosing

\* No snapshot replaces a later one, whatever tasks and clicks interleave.
THEOREM DataIsMonotonic == Spec => DataNeverGoesBack
<1>1. IInv /\ [Next]_vars => [\A p \in Pages : m_data'[p].ver >= m_data[p].ver]_vars
  <2> SUFFICES ASSUME IInv, [Next]_vars, NEW p \in Pages PROVE m_data'[p].ver >= m_data[p].ver
    OBVIOUS
  <2>1. TypeOK /\ HandlesMatch /\ HandlersPage /\ VersionsInOrder
    BY DEF IInv
  <2>2. m_data[p].ver \in Nat /\ m_data[p].ver <= requests[p]
    BY <2>1, PageRefreshAssumption DEF TypeOK, Snapshot, Version, VersionsInOrder
  <2>3. ASSUME NEW t \in Tasks, Publish(t) PROVE m_data'[p].ver >= m_data[p].ver
    <3>1. taskData[t].ver = requests[taskPage[t]]
      BY <2>1, <2>3 DEF Publish, At, VersionsInOrder
    <3> QED
      BY <2>1, <2>2, <2>3, <3>1 DEF Publish, TypeOK
  <2>4. ASSUME NEW n \in RowCounts, AddPageOpens(n) PROVE m_data'[p].ver >= m_data[p].ver
    BY <2>1, <2>2, <2>4 DEF AddPageOpens, HandlersPage, VersionsInOrder, TypeOK
  <2>5. ASSUME NEW q \in Pages, NEW c \in Clicked, SortClick(q, c) PROVE m_data'[p].ver >= m_data[p].ver
    <3>1. m_data'[p].ver = m_data[p].ver
      BY <2>1, <2>5 DEF SortClick, TypeOK, Snapshot
    <3> QED
      BY <2>2, <3>1
  <2>6. CASE UNCHANGED m_data
    BY <2>2, <2>6
  <2> QED
    <3>1. CASE Quiet
      BY <2>5, <2>6, <3>1, ShellSteps DEF Quiet, AddPage, PollUpdate, SelectPage, PaintBegin, AddPageThrows, NoteColumn,
         NoteOrder, PaintEnd, vars
    <3>2. ASSUME NEW t \in Tasks, Fetch(t) \/ Continue(t) PROVE m_data'[p].ver >= m_data[p].ver
      BY <2>3, <2>6, <3>2 DEF Fetch, FetchReturns, FetchThrows, Continue, ReadColumn, ReadOrder, SortFetched
    <3>3. ASSUME NEW q \in Pages, NEW t \in Tasks, LaunchUpdate(q, t) PROVE UNCHANGED m_data
      BY <3>3 DEF LaunchUpdate
    <3>4. ASSUME NEW q \in Pages, ApplyUpdate(q) \/ FailUpdate(q) PROVE UNCHANGED m_data
      BY <3>4 DEF ApplyUpdate, FailUpdate
    <3>5. CloseFrame \/ DestroyHandlers \/ Drain => UNCHANGED m_data
      BY DrainSteps DEF CloseFrame, DestroyHandlers
    <3> QED
      BY <2>4, <2>6, <3>1, <3>2, <3>3, <3>4, <3>5, StepCases
<1> QED
  BY <1>1, Invariance, PTL DEF Spec, DataNeverGoesBack
=============================================================================
