--------------------------- MODULE PageViewProofs ---------------------------
(***************************************************************************)
(* PageRefresh implements PageView: its initial states are the promise's   *)
(* initial states, and each of its steps is a step of the promise or none. *)
(***************************************************************************)
EXTENDS PageRefreshProofs

-----------------------------------------------------------------------------
(* What the promise sees of a page. *)

\* The promise's variables are functions of the pages, so they change page by page.
SameView(p) ==
  /\ ViewStatus(p)' = ViewStatus(p)
  /\ ViewRequest(p)' = ViewRequest(p)
  /\ ViewVersion(p)' = ViewVersion(p)

LEMMA Stutters ==
  ASSUME \A p \in Pages : SameView(p)
  PROVE  UNCHANGED View!viewVars
BY DEF SameView, View!viewVars

\* A page looks the same if its state, its future and its version do, and its task has not
\* come closer to an answer.
LEMMA LooksTheSame ==
  ASSUME NEW p \in Pages, page'[p] = page[p],
         page[p] = "open" => has_data'[p] = has_data[p],
         m_data'[p].ver = m_data[p].ver,
         page[p] = "open" /\ has_data[p] # NoTask =>
           \/ taskAt'[has_data[p]] = taskAt[has_data[p]]
           \/ {taskAt[has_data[p]], taskAt'[has_data[p]]} \cap {"done", "threw"} = {}
  PROVE  SameView(p)
BY DEF SameView, ViewStatus, ViewRequest, ViewVersion

-----------------------------------------------------------------------------
\* A window without pages promises nothing yet.
LEMMA ViewInit == Init => View!ViewInit
<1> SUFFICES ASSUME Init PROVE View!ViewInit
  OBVIOUS
<1>1. \A p \in Pages : ViewStatus(p) = "none" /\ ViewRequest(p) = "idle" /\ ViewVersion(p) = 0
  BY DEF Init, ViewStatus, ViewRequest, ViewVersion, NoSnapshot
<1> QED
  BY <1>1 DEF View!ViewInit

\* A click on a column label sorts a snapshot and keeps its version.
LEMMA ClickKeepsVersion ==
  ASSUME IInv, NEW p \in Pages, NEW c \in Clicked, SortClick(p, c), NEW q \in Pages
  PROVE  m_data'[q].ver = m_data[q].ver
<1> DEFINE key == [col |-> c, ord |-> NextOrder(sortOrd[p])]
<1>1. m_data[p] \in Snapshot
  BY DEF IInv, TypeOK
<1>2. \A k : [m_data[p] EXCEPT !.key = k].ver = m_data[p].ver
  BY <1>1 DEF Snapshot
<1>3. m_data' = [m_data EXCEPT ![p] = [m_data[p] EXCEPT !.key = key]]
  BY DEF SortClick
<1> HIDE DEF key
<1> QED
  BY <1>2, <1>3 DEF IInv, TypeOK

\* Steps that no page's promise is about.
LEMMA HiddenSteps ==
  ASSUME IInv,
         \/ User /\ ~CloseFrame
         \/ Constructor \/ AddPageThrows \/ PaintEnd \/ NoteColumn \/ NoteOrder \/ Halted
         \/ DestroyHandlers \/ Drain
         \/ UNCHANGED vars
         \/ \E p \in Pages : PollUpdate(p) \/ PaintBegin(p)
  PROVE  UNCHANGED View!viewVars
<1>1. ASSUME NEW p \in Pages
      PROVE  page'[p] = page[p] /\ (page[p] = "open" => has_data'[p] = has_data[p])
  BY DEF User, OpenDialog, DismissBox, Constructor, OpenNext, ShowFrame, AddPage, SelectPage, SortClick,
         AddPageThrows, PaintEnd, NoteColumn, NoteOrder, DestroyHandlers, Drain, ExitApp, LateTimer,
         Halted, PollUpdate, PaintBegin, vars, pageVars, timerVars, IInv, ClosingOrder
<1>2. ASSUME NEW p \in Pages PROVE m_data'[p].ver = m_data[p].ver
  <2>1. (\E q \in Pages, c \in Clicked : SortClick(q, c)) \/ m_data' = m_data
    BY DEF User, OpenDialog, DismissBox, Constructor, OpenNext, ShowFrame, AddPage, SelectPage,
           AddPageThrows, PaintEnd, NoteColumn, NoteOrder, DestroyHandlers, Drain, ExitApp, LateTimer,
           Halted, PollUpdate, PaintBegin, vars
  <2> QED
    BY <2>1, ClickKeepsVersion
<1>3. ASSUME NEW p \in Pages, page[p] = "open" PROVE taskAt' = taskAt
  BY <1>3 DEF User, OpenDialog, DismissBox, Constructor, OpenNext, ShowFrame, AddPage, SelectPage, SortClick,
         AddPageThrows, PaintEnd, NoteColumn, NoteOrder, DestroyHandlers, Drain, ExitApp, LateTimer, Halted,
         PollUpdate, PaintBegin, vars, taskVars, IInv, ClosingOrder
<1> QED
  BY <1>1, <1>2, <1>3, LooksTheSame, Stutters

\* Steps of a task that neither answer nor fail.
LEMMA HiddenTaskSteps ==
  ASSUME IInv, NEW t \in Tasks,
         (\E n \in RowCounts : FetchReturns(t, n)) \/ ReadColumn(t) \/ ReadOrder(t) \/ SortFetched(t)
  PROVE  UNCHANGED View!viewVars
<1>1. page' = page /\ has_data' = has_data /\ m_data' = m_data
  BY DEF FetchReturns, ReadColumn, ReadOrder, SortFetched, pageVars, timerVars
<1>2. ASSUME NEW u \in Tasks
      PROVE  taskAt'[u] = taskAt[u] \/ {taskAt[u], taskAt'[u]} \cap {"done", "threw"} = {}
  BY DEF FetchReturns, ReadColumn, ReadOrder, SortFetched, At, IInv, TypeOK
<1>3. \A p \in Pages : has_data[p] # NoTask => has_data[p] \in Tasks
  BY DEF IInv, TypeOK
<1>4. ASSUME NEW p \in Pages PROVE SameView(p)
  <2>1. page[p] = "open" /\ has_data[p] # NoTask =>
           \/ taskAt'[has_data[p]] = taskAt[has_data[p]]
           \/ {taskAt[has_data[p]], taskAt'[has_data[p]]} \cap {"done", "threw"} = {}
    BY <1>2, <1>3
  <2> QED
    BY <1>1, <2>1, LooksTheSame
<1> QED
  BY <1>4, Stutters

-----------------------------------------------------------------------------
(* Steps that the promise is about. *)

\* The end of add_page opens the page.
LEMMA Opens ==
  ASSUME IInv, NEW n \in RowCounts, AddPageOpens(n), NEW p \in Pages, p = cur
  PROVE  View!Open(p)
<1>1. page[p] = "none" /\ page' = [page EXCEPT ![p] = "open"] /\ has_data' = has_data
      /\ taskAt' = taskAt /\ has_data[p] = NoTask
  BY DEF AddPageOpens, IInv, HandlersPage, HandlesMatch, taskVars
<1>2. m_data'[p].ver = 0 /\ m_data[p].ver = 0 /\ \A q \in Pages \ {p} : m_data'[q] = m_data[q]
  BY <1>1 DEF AddPageOpens, IInv, TypeOK, VersionsInOrder
<1>3. ASSUME NEW q \in Pages \ {p} PROVE SameView(q)
  BY <1>1, <1>2, LooksTheSame DEF IInv, TypeOK
<1>4. ViewStatus(p) = "none" /\ ViewStatus(p)' = "live"
  BY <1>1 DEF ViewStatus, IInv, TypeOK
<1>5. ViewRequest(p)' = ViewRequest(p) /\ ViewVersion(p)' = ViewVersion(p)
  BY <1>1, <1>2 DEF ViewRequest, ViewVersion, IInv, TypeOK
<1> QED
  BY <1>1, <1>3, <1>4, <1>5 DEF SameView, View!Open

\* Launching a task asks: its timer fires, so the page is live, and its request is idle.
LEMMA Asks ==
  ASSUME IInv, NEW p \in Pages, NEW t \in Tasks, LaunchUpdate(p, t)
  PROVE  View!Ask(p)
<1>1. page[p] = "open" /\ page' = page /\ m_data' = m_data
  BY FiringPage DEF LaunchUpdate, pageVars
<1>2. has_data[p] = NoTask /\ has_data' = [has_data EXCEPT ![p] = t] /\ taskAt' = [taskAt EXCEPT ![t] = "fetch"]
  BY DEF LaunchUpdate, NothingRequested
<1>3. ASSUME NEW q \in Pages \ {p} PROVE SameView(q)
  <2>1. has_data[q] # t
    BY PageRefreshAssumption DEF IInv, HandlesMatch, LaunchUpdate
  <2> QED
    BY <1>1, <1>2, <2>1, LooksTheSame DEF IInv, TypeOK
<1>4. ViewStatus(p) = "live" /\ ViewStatus(p)' = "live" /\ ViewVersion(p)' = ViewVersion(p)
  BY <1>1 DEF ViewStatus, ViewVersion
<1>5. ViewRequest(p) = "idle" /\ ViewRequest(p)' = "asked"
  BY <1>1, <1>2, PageRefreshAssumption DEF ViewRequest, IInv, TypeOK
<1> QED
  BY <1>3, <1>4, <1>5 DEF SameView, View!Ask

\* Publishing is the answer, unless the table is gone.
LEMMA Answering ==
  ASSUME IInv, NEW t \in Tasks, Publish(t), NEW p \in Pages, p = taskPage[t]
  PROVE  View!Answer(p) \/ UNCHANGED View!viewVars
<1>1. has_data[p] = t /\ page[p] \in {"open", "deleted"}
  BY PageRefreshAssumption DEF Publish, At, IInv, HandlesMatch
<1>2. page' = page /\ has_data' = has_data /\ m_data' = [m_data EXCEPT ![p] = taskData[t]]
      /\ taskAt' = [taskAt EXCEPT ![t] = "done"] /\ taskAt[t] = "publish"
  BY DEF Publish, At, pageVars, timerVars
<1>3. taskData[t].ver \in m_data[p].ver .. MaxVersion
  BY <1>1, PageRefreshAssumption DEF Publish, At, IInv, VersionsInOrder, TypeOK, Snapshot, Version
<1>4. ASSUME NEW q \in Pages \ {p} PROVE SameView(q)
  <2>1. has_data[q] # t
    BY <1>1, PageRefreshAssumption DEF IInv, HandlesMatch
  <2> QED
    BY <1>1, <1>2, <2>1, LooksTheSame DEF IInv, TypeOK
<1>5. CASE page[p] = "deleted"
  <2>1. SameView(p)
    BY <1>1, <1>2, <1>5 DEF SameView, ViewStatus, ViewRequest, ViewVersion
  <2> QED
    BY <1>4, <2>1, Stutters
<1>6. CASE page[p] = "open"
  <2>1. ViewStatus(p) = "live" /\ ViewStatus(p)' = "live"
    BY <1>2, <1>6 DEF ViewStatus
  <2>2. ViewRequest(p) = "asked" /\ ViewRequest(p)' = "answered"
    BY <1>1, <1>2, <1>6, PageRefreshAssumption DEF ViewRequest, IInv, TypeOK
  <2>3. ViewVersion(p) = m_data[p].ver /\ ViewVersion(p)' = taskData[t].ver
    BY <1>1, <1>2, <1>6 DEF ViewVersion, IInv, TypeOK
  <2> QED
    BY <1>1, <1>3, <1>4, <2>1, <2>2, <2>3 DEF SameView, View!Answer
<1> QED
  BY <1>1, <1>5, <1>6

\* A fetch that throws is the refusal, unless the table is gone.
LEMMA Refusing ==
  ASSUME IInv, NEW t \in Tasks, FetchThrows(t), NEW p \in Pages, p = taskPage[t]
  PROVE  View!Refuse(p) \/ UNCHANGED View!viewVars
<1>1. has_data[p] = t /\ page[p] \in {"open", "deleted"}
  BY PageRefreshAssumption DEF FetchThrows, At, IInv, HandlesMatch
<1>2. page' = page /\ has_data' = has_data /\ m_data' = m_data
      /\ taskAt' = [taskAt EXCEPT ![t] = "threw"] /\ taskAt[t] = "fetch"
  BY DEF FetchThrows, At, pageVars, timerVars
<1>3. ASSUME NEW q \in Pages \ {p} PROVE SameView(q)
  <2>1. has_data[q] # t
    BY <1>1, PageRefreshAssumption DEF IInv, HandlesMatch
  <2> QED
    BY <1>1, <1>2, <2>1, LooksTheSame DEF IInv, TypeOK
<1>4. CASE page[p] = "deleted"
  <2>1. SameView(p)
    BY <1>1, <1>2, <1>4 DEF SameView, ViewStatus, ViewRequest, ViewVersion
  <2> QED
    BY <1>3, <2>1, Stutters
<1>5. CASE page[p] = "open"
  <2>1. ViewStatus(p) = "live" /\ ViewStatus(p)' = "live" /\ ViewVersion(p)' = ViewVersion(p)
    BY <1>2, <1>5 DEF ViewStatus, ViewVersion
  <2>2. ViewRequest(p) = "asked" /\ ViewRequest(p)' = "refused"
    BY <1>1, <1>2, <1>5, PageRefreshAssumption DEF ViewRequest, IInv, TypeOK
  <2> QED
    BY <1>1, <1>3, <2>1, <2>2 DEF SameView, View!Refuse
<1> QED
  BY <1>1, <1>4, <1>5

\* The timer handler takes notice of an outcome, good or bad.
LEMMA Notices ==
  ASSUME IInv, NEW p \in Pages, ApplyUpdate(p) \/ FailUpdate(p), NEW t, t = has_data[p]
  PROVE  View!Notice(p)
<1>1. page[p] = "open" /\ t \in Tasks /\ t # NoTask /\ taskAt[t] \in {"done", "threw"}
      /\ has_data' = [has_data EXCEPT ![p] = NoTask] /\ m_data' = m_data
  BY FiringPage DEF ApplyUpdate, FailUpdate, Ready, IInv, TypeOK
<1>2. page' = [page EXCEPT ![p] = IF taskAt[t] = "threw" THEN "failed" ELSE "open"]
  BY <1>1 DEF ApplyUpdate, FailUpdate, GetThrows, pageVars, IInv, TypeOK
<1>3. \A u \in Tasks \ {t} : taskAt'[u] = taskAt[u]
  BY DEF ApplyUpdate, FailUpdate, Forget
<1>4. ASSUME NEW q \in Pages \ {p} PROVE SameView(q)
  <2>1. has_data[q] # NoTask => has_data[q] \in Tasks \ {t}
    BY <1>1, PageRefreshAssumption DEF IInv, HandlesMatch, TypeOK
  <2> QED
    BY <1>1, <1>2, <1>3, <2>1, LooksTheSame DEF IInv, TypeOK
<1>5. ViewStatus(p) = "live" /\ ViewStatus(p)' = IF taskAt[t] = "threw" THEN "dead" ELSE "live"
  BY <1>1, <1>2 DEF ViewStatus, IInv, TypeOK
<1>6. ViewRequest(p) = (IF taskAt[t] = "threw" THEN "refused" ELSE "answered") /\ ViewRequest(p)' = "idle"
  BY <1>1, <1>2 DEF ViewRequest, IInv, TypeOK
<1>7. ViewVersion(p)' = ViewVersion(p)
  BY <1>1, <1>2 DEF ViewVersion, IInv, TypeOK
<1> QED
  BY <1>4, <1>5, <1>6, <1>7 DEF SameView, View!Notice, View!Outcome

\* Closing the window takes the live pages.
LEMMA Closes ==
  ASSUME IInv, CloseFrame
  PROVE  View!CloseAll
<1>1. has_data' = has_data /\ m_data' = m_data /\ taskAt' = taskAt
      /\ \A p \in Pages : page'[p] = IF page[p] = "open" THEN "deleted" ELSE page[p]
  BY DEF CloseFrame, timerVars, taskVars
<1>2. \A p \in Pages : (ViewStatus(p) = "live" <=> page[p] = "open")
  BY DEF ViewStatus
<1>3. ASSUME NEW p \in Pages, page[p] = "open"
      PROVE  ViewStatus(p)' = "gone" /\ ViewRequest(p)' = "idle" /\ ViewVersion(p)' = 0
  BY <1>1, <1>3 DEF ViewStatus, ViewRequest, ViewVersion
<1>4. ASSUME NEW p \in Pages, page[p] # "open" PROVE SameView(p)
  BY <1>1, <1>4, LooksTheSame
<1> QED
  BY <1>2, <1>3, <1>4 DEF SameView, View!CloseAll

-----------------------------------------------------------------------------
\* Every step from a state of the invariant is one of the promise's, or none.
LEMMA ViewNext == IInv /\ [Next]_vars => [View!ViewNext]_View!viewVars
<1> SUFFICES ASSUME IInv, [Next]_vars PROVE View!ViewNext \/ UNCHANGED View!viewVars
  OBVIOUS
<1>1. CASE User
  BY <1>1, Closes, HiddenSteps DEF View!ViewNext
<1>2. CASE GuiThread
  <2>1. CASE AddPageReturns
    BY <2>1, Opens, HiddenSteps DEF AddPageReturns, View!ViewNext, IInv, HandlersPage, AddPageOpens
  <2>2. ASSUME NEW p \in Pages, TimerFires(p) PROVE View!ViewNext \/ UNCHANGED View!viewVars
    BY <2>2, Asks, Notices, HiddenSteps DEF TimerFires, View!ViewNext
  <2> QED
    BY <1>2, <2>1, <2>2, HiddenSteps DEF GuiThread, Drain
<1>3. ASSUME NEW t \in Tasks, Fetch(t) \/ Continue(t) PROVE View!ViewNext \/ UNCHANGED View!viewVars
  <2>1. taskAt[t] # "free" => taskPage[t] \in Pages
    BY DEF IInv, HandlesMatch
  <2>2. CASE FetchThrows(t)
    BY <2>1, <2>2, Refusing DEF FetchThrows, At, View!ViewNext
  <2>3. CASE Publish(t)
    BY <2>1, <2>3, Answering DEF Publish, At, View!ViewNext
  <2> QED
    BY <1>3, <2>2, <2>3, HiddenTaskSteps DEF Fetch, Continue
<1> QED
  BY <1>1, <1>2, <1>3, HiddenSteps DEF Next

\* PageRefresh implements the promise of PageView, for any number of pages and tasks: one
\* request at a time per page, answers that are never older than what they replace, and
\* pages that failed or were closed are left alone.
THEOREM KeepsThePromise == Spec => ImplementsPageView
BY ViewInit, ViewNext, Invariance, PTL DEF Spec, ImplementsPageView, View!ViewSpec
=============================================================================
