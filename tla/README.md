# Remote Task Manager: a verification project

TLA+ modules for the program in `src/`: a wxWidgets application for Windows that shows,
in one notebook page per host, a grid of the processes WMI reports, refreshes the pages
every few seconds on other threads, sorts them, and ends a process from a context menu.
`PROJECT.json` lists the components, the runs, the mutants, the line each definition
models, the findings, the hazards and the theorems.

## The system

| Component | State | Operations | Hard part | Correct when |
|---|---|---|---|---|
| Application, command line | list of hosts | `OnInit`, `OnCmdLineParsed` | hosts that fail or keep silent before there is a window | the window is shown all the same |
| Main window (`remote_task_management_frame`) | per page: grid, timer, the timer handler's `has_data`; the dialog that is open | constructor, `add_page`; the timer handler; Open Remote, About; label click; selection; repaint; close | one GUI thread and tasks of `std::async`; event loops inside handlers; a fetch that throws elsewhere; close during a fetch | one refresh at a time per page, for ever, until it fails or the window closes |
| Process table (`wmi_process_table`) | `m_data` (a `shared_ptr`), `sorted` | `update_data` on a task's thread; `GetValue`, `GetNumberRows`, `sort_column` on the GUI thread | no lock at all | data never goes back; the order chosen last wins; nothing freed is used |
| Context menu | the menu's `popup_data_t` | right click, the two entries, `terminate_process_by_pid` | the page changes while the menu is open, pids are reused | it ends the process it named |
| COM/WMI session (`wmi_state_t`) | COM initialization of the thread, interfaces, `sec_res` shared by all threads | construct, `connect`, `query`, destroy | any call may fail; a static initializer that throws; destruction order | COM is left as it was found; nobody uses WMI unsecured |
| Records (`wmi_process.cpp`, `variant_visit.h`) | the vector being built | `transform`, `make_wmi_process` | widths, signs, units, missing values; one exception loses the fetch | numbers are the host's; one bad record does not hide a host |
| Column items | value and its text | `compare`, display | the sort's predicate; rounding in changing units | a strict weak order; what is read does not contradict it |
| `wmi_exec` | - | not used | - | not modelled |

A timer event asks for data: the handler starts `update_data` with `std::async`. The task
opens a WMI session, converts the records, sorts them on what `sorted` says, and assigns
`m_data`. A later timer event finds the future ready, calls `get` and asks for a repaint,
or empties the page when `get` throws. Meanwhile clicks on column labels sort the same
snapshot and write `sorted`, and repaints read `m_data` cell by cell.

## Modules

### `PageRefresh`, `PageView`, `MCPageRefresh`, `PageRefreshProofs`, `PageViewProofs`

`PageRefresh` is the core: start, pages, timers, tasks, dialogs, sort clicks, repaints and
closing. `gui` says where the GUI thread is; a handler during which another thread can act
observably is cut where it can (`SortClick`, `NoteColumn`, `NoteOrder`; `PaintBegin`,
`PaintEnd`; `CloseFrame`, `DestroyHandlers`, `ExitApp`). The four paths of the timer handler are `LaunchUpdate`,
`PollUpdate`, `ApplyUpdate` and `FailUpdate`; `update_data` is `Fetch`, `ReadColumn` and
`ReadOrder` in either order, `SortFetched` and `Publish`. A snapshot is abstracted to its
version (the number of the request it answers), its number of rows, and the column and
order it is sorted on.

Closing takes three steps. `CloseFrame` deletes the grids and their tables; a task that then
reads its table's `sorted` reads anything, which may end in `std::terminate` of `operator[]`
(`aborted`). `DestroyHandlers` destroys the timer handlers, whose futures wait for their tasks.
Until the event loop ends (`ExitApp`) it handles the messages that are left: no statement stops
or deletes a `wxTimer`, so the timers of closed pages are still running, and one that expires
notifies a frame that is gone (`LateTimer`, undefined: nothing happens, or `aborted`). Before
that, timers cannot fire in a closing window, since the GUI thread is in destructors.

The program starts in `OnInit`, with any set of hosts (`pending`), or ends there when wxApp
rejects the command line. `OpenNext` is the constructor's loop, `ShowFrame` what follows it,
and `Caller` where `add_page` returns to. A failed host opens a message box
(`AddPageThrows`), and a box runs an event loop: `modal` is the dialog that is open, `Idle`
says that the window takes input. Timers need only `gui = "loop"`, so that they fire behind
dialogs and, in the box of a failed host, before the window is shown; a repaint also needs
the window to be `visible`.
The prompt of Open Remote is answered by `AddPage`, also when it is cancelled (line 181).

A COM call on the GUI thread blocks it until it returns. If COM let timers or repaints
through, those steps could as well have come before the call, while the prompt was open:
they touch other pages than the one being added, which needs nothing of them. (Before the
window is shown they would come earlier than in the model, as in the box of a failed host.)
Delays are recorded but have no durations: a timer that runs may fire at any moment.

`PageView` says what a page promises without any of this: asked, answered or refused,
noticed; closed once and for all on failure. `PageRefresh` implements it
(`ImplementsPageView`, with fairness `ImplementsFairPageView`): the request is the task of
`has_data`, and publishing is the answer.

### `TableData`, `SnapshotCell`, `MCTableData`, `TableDataProofs`

`PageRefresh` copies and assigns `m_data` in one step. `TableData` takes the two words of
the `shared_ptr` and the reference counts apart, as the library of the build (MSVC) does.
Nothing keeps the copy (`FindRep` .. `CopyRep`) and the assignment (`SwapPtr`, `SwapRep`) from
overlapping, which is undefined behaviour, and memory does get corrupted. What is shown is
that nothing else goes wrong: corruption needs an overlap (`OnlyOverlapCorrupts`), counts
are exact and copies whole without one, the GUI thread never sorts or reads rows that the
task is still sorting (`SortedBeforeShared`: `SortSnapshot` precedes `SwapPtr`), and then
the cell behaves as `SnapshotCell` says, one step per operation, which is what `PageRefresh`
assumes.

### `WmiSession`, `WmiSessionProofs`

One call of `get_wmi_win32_process` or `terminate_process_by_where` per thread, from
`CoInitializeEx` to the destructors in the order of C++: `init` before `service` and
`locator`. Every call may fail. The GUI thread starts with the initialization wxWidgets
made. `sec_res` is a function-local static: a thread that initializes it keeps the others
waiting, and an exception leaves it to the next session. Sessions are composed with the
window only as far as they depend on it: tasks and terminations begin after a fetch of the
GUI thread has opened a page (`opened`). From that follows `OnlyGuiSecures`: no task ever
runs the initializer. `granted` is history, what CoInitializeSecurity really said. Two facts
of the code are part of the invariants as exceptions: after a failed `CoCreateInstance` COM
is undone twice (`overdone`), and a task's thread releases interfaces after COM is gone
(`late` may hold any thread but the GUI's).

### `RowMenu`, `RowMenuProofs`

The host's processes, the snapshot a page shows, and the menu. Processes start and end and
pids are given away at any moment, also while the menu is open. `EndsWhatTheMenuNamed`
states the two windows the code leaves: a snapshot replaced between the reads of pid and
name, and a pid that is reused.

### `ProcessRecords`, `ProcessRecordsProofs`

`transform` and `make_wmi_process`, property by property, through `variant_visit` and the
getters. WMI's encoding is external: a `uint32` is the bits of a signed `VT_I4`, a `uint64` a
string of digits. Types are scaled to 4 and 8 bits and a kilobyte to 4 bytes; the
assumption keeps their proportions (`Kilo * Width32 < Width64`). `NumbersAreTheHosts` says
exactly which numbers survive: a working set from 2^32 bytes and kilobytes from 2^31 do
not. `Visited` is the dispatch on the type of a VARIANT; which visitors a getter brings decides
whether it is called or `bad_variant_access` thrown, as for the types no getter can read
(`NotVisited`). A type the switch does not list is `std::terminate` and not modelled; the
properties of Win32_Process have none of these. `FailsOnlyWithoutADate`: of all missing values
only a creation date loses the fetch. `Digits` and `FromCharRange` are recursive functions, which the
prover can reason about.

### `ColumnOrder`, `MCColumnOrder`, `SizeTextProofs`, `ColumnOrderProofs`

`compare` of the four item types, the predicate and the stable insertion (`std::stable_sort` of
MSVC inserts when there are up to 32 rows; any stable sort by the predicate ends the same). Values are
sequences: characters, the digits of a size in base 1024, minute and second, one number.
`CanBeOrdered` is the exception the code makes necessary: in ascending order a name and its
prefix compare equal. Sizes are any of 64 bits, seven digits in base 1024, so that no number of
the model exceeds TLC's. `MemoryText` is `memory_value_to_wstring`: the size becomes the nearest
`double` (`Double`: 53 bits, half way to the even one; from 2^53 bytes on neighbours are 2 to 2048
apart, and what overflows the last two digits is carried), then the unit is the first of which there are less than
1024; dividing a double by 1024 is exact. Kilobytes are rounded to the nearest one, larger units
to the nearest hundredth of all that follows (`Hundredths`, with `Carry` from the last digit up).
Exactly half a hundredth goes up or to the even one: the Microsoft library did the former, since
Windows 10 2004 it does the latter, hence the constant `HalvesUp`. The run takes FALSE, the proofs
cover both. `ReadsInOrder` compares what the texts mean: "1024KB" and "1MB" are the same amount.

## Runs

| Run | Bounds | Shows |
|---|---|---|
| `PageRefreshTwoPages` | 2 pages, 2 tasks, one column, version <= 1; task and page symmetry | invariants from start to end, while two pages compete for the GUI thread |
| `PageRefreshOnePage` | 1 page, 2 tasks, 2 columns, 0 or 2 rows, version <= 3; task symmetry | the inductive invariant, refinement of `PageView`, action properties |
| `PageRefreshLive` | 2 pages, the host of one need not answer, no clicks | start, refreshing, errors and closing, under fairness |
| `PageRefreshView` | 2 pages whose hosts answer, no clicks | fair refinement of `PageView` |
| `PageRefreshSort` | 1 page, 2 columns | the last click wins, for good; new data reaches the screen |
| `PageRefreshRows` | 1 page, 1 or 2 rows | finding: rows a grid never shows |
| `TableData` | 4 blocks, block symmetry | `m_data` word by word |
| `WmiSession` | the GUI thread and 2 tasks | sessions that fail anywhere; who secures the process |
| `RowMenu`, `RowMenuCloseAll` | 2 pids, 2 names, 3 (2) processes | the menu; finding: "Close all" |
| `ProcessRecords` | 2 records, values at the limits of the types | conversions |
| `ColumnOrder` | up to 3 rows: names of up to 2 characters, 21 sizes at limits, dates, numbers | the sort, and what is read |

Why the bounds are enough: two pages share nothing but the GUI thread, so a third repeats
the second. Two tasks let a second update of one table start if the handler allowed it.
Versions only need to tell a snapshot from an older and a newer one; they are counted up to
`MaxVersion` and then stay, so a run goes on for ever. Two rows are the least that are
compared, 0 the most that are not drawn. In `TableData` m_data, the copy and the task own at
most three blocks, and a fourth is needed for a freed one to be taken again. In `RowMenu` two
pids and three processes are the least in which a pid is given away. `ColumnOrder` needs
three names for transitivity, and two characters for a prefix; its sizes lie at and around
the limits of units, at and beside halves of a hundredth, where the third digit decides, half
way between two doubles, and at both ends of 64 bits.
The inductive invariants of the proofs (`IInv`, `DataInv`, `SessionInv`, `MenuInv`, `SortInv`) are
checked by the runs of their modules, each with a mutant that breaks it.
Symmetry is used only in runs that check no liveness; the specifications without fairness
treat tasks, pages and blocks alike.

### Fairness

`FairSpec` assumes: Windows delivers timer and paint messages that are due again and again
(strong, since user input is delivered first and may disable them for a while; a user who
never pauses is excluded); a handler that has begun ends; a thread runs; a host in
`Responsive` answers every request, by data or by an error. Nothing is assumed of the
others: ConnectServer and Next wait without a limit. While `add_page` waits for such a host
the GUI thread is `Stuck`, and the liveness properties say so. The constructor goes on when it
can (`WF_vars(Constructor)`). Nothing is assumed of the user: `WindowOpens` takes as its
hypothesis that message boxes do not stay open for ever.

### Findings

* `EveryProcessHasARow`: the grid reads the number of rows in `SetTable`; `ForceRefresh`
  repaints without reading it again. Processes beyond it are not shown.
* `CloseAllCloses`: no handler is bound to `id_close_by_name`.

Hazards that hold by a detail of the code, as the working set read in 32 bits, appear as
exceptions in the invariants and under "hazards".

## Proofs

`PageRefreshProofs` proves for all pages, tasks, columns, row counts and bounds, from
`PageRefreshAssumption` alone, that `Spec` implies `[]IInv` (`Invariance`) and from it:
`TypeCorrect`, `NoTwoUpdates`, `TablesOutliveTasks`, `TimersRun`, `StaleScreensAreDrawn`,
and the action properties `NoAbortWhileOpen` and `DataIsMonotonic`.

`IInv` is inductive, its parts are not. That two tasks never update one table follows from
`HandlesMatch`: every task that is not free is the `has_data` of its page, and the other way
round, so that the handler's test of `has_data` speaks about all threads.
`ClosingOrder` ties deleted tables to the state of the GUI thread, and so gives the validity
of a task's pointer. `VersionsInOrder` says that a task's snapshot has the version of the last
request, hence none in the table is newer. `PaintedIsCurrent` is what a repaint that is
under way when `Publish` happens needs for `StaleScreenWillBeDrawn`. `StartupOrder` says that a host
whose turn has not come has no page. `HandlersPage` and
`SortedOnColumn` keep the page of a split handler open and its sort column real. Each action
has a lemma; `IInvNext` puts them together. The run `PageRefreshOnePage` checks `IInv`.

`PageViewProofs` proves that `PageRefresh` implements `PageView` without its fairness
(`KeepsThePromise`: `Spec => ImplementsPageView`). Page by page, an action either leaves what
`ViewStatus`, `ViewRequest` and `ViewVersion` say unchanged or is one action of the promise:
`AddPageOpens` opens, `LaunchUpdate` asks, `Publish` answers, `FetchThrows` refuses,
`ApplyUpdate` and `FailUpdate` notice, `CloseFrame` closes. `HandlesMatch` gives that no other
page is touched, `VersionsInOrder` that the answer is not older than the data.

`TableDataProofs`, for any number of blocks: `DataInvariance`, then `DataTypeCorrect`,
`NoOtherCorruption`, `CountsAreExact`, `CopiesAreWhole`, `NeverSharedUnsorted` and the
refinement `CopiesAndAssignsInOneStep` of `SnapshotCell`. `SwapsWords` says where the two words of a
snapshot are while the assignment is half done, `CopyFollows` what a copy that has not been
overlapped has read, `NewIsPrivate` that the block a task has taken is nobody else's, and
`UnsortedIsTheTasks` that it is not in `m_data` before it is sorted. With them every release
frees exactly the blocks without an owner, so that the exact counts are kept. A copy is mapped
to the step that takes its second word and an assignment to `SwapPtr`; most other steps are
stutters. The refinement and the exact counts end where a copy overlaps an assignment
(`raced`), which the code does not exclude.

`WmiSessionProofs`, for any set of threads: `SessionInvariance`, then `SessionTypeCorrect`,
`NoInsecureUse`, `TasksFindItSecured`, `ComIsLeftAsFound`, `GuiReleasesBeforeTheEnd`. The
argument runs in a circle that only the conjunction closes: a session that gets past the
static initializer finds it `secured`, hence granted (`SecuredIsGranted`); a session that ends
without an exception got past it (`SucceedsSecured`); a page is opened by such a session
(`OpenedSecured`); a task's session comes later (`TasksComeLater`), so that it finds the
initializer done, and nobody runs it again (`OneInitializer`). `InitMatches` and `ComCounted` relate
the program counter to the initializations of COM.

`RowMenuProofs`, for any pids and names: `MenuInvariance`, `MenuTypeCorrect`, `EndsTheNamedProcess`.
`PidsAreUnique`, of the host's processes and of every snapshot, is what makes "the process with
this pid" one process; `ReadsOneRow` relates the pid the menu has read to a row of the snapshot
as long as that is not replaced.

`ColumnOrderProofs`, for names over any characters and of any length, all sizes of 64 bits,
dates, numbers and any number of rows: `SortInvariance`, `SortsByAnOrder`,
`SortsAsADictionary`, `SortsStably`, `ReadsAsSorted`. The lemmas first prove that the order of a dictionary on sequences of numbers is a
strict weak order, from the first place at which two sequences differ, and that `Compare` is that
order except for a name and its beginning; then that an insertion behind the last row that
is not greater keeps sorted rows sorted. `TakenInOrder` (rows that are still to be inserted came
later) is what stability needs. `SizeTextProofs` is about the texts of sizes. A greater size is no
smaller double (`DoubleKeepsOrder`, with `DoubleValue` for the carry), hence of no smaller unit.
In one unit the hundredths shown are nearest to the double (`HundredthsAreNearest`, by `CarryIsFloor`
digit by digit), whichever way halves go; of two numbers nearest to two amounts the greater
belongs to the greater amount, or both amounts are equal and so are their digits
(`NearestKeepsOrder`, `DigitsOfValue`). `AmountKeepsOrder` adds the changes of unit: a text never
exceeds the next unit's first.

`ProcessRecordsProofs`, for all widths the assumption allows (those of the build, 2^32, 2^64
and 1024, are among them), all values and any number of records: `RecordsInvariance`,
`RecordsAreTyped`, `ConvertsNumbers`, `LosesOnlyWithoutADate`. The lemmas show that reading the digits
of a number back in a type of some width leaves the number modulo that width (by
well-founded induction on the number of digits, taken as a minimal counterexample), that a
`VT_I4` reinterpreted in 32 bits is the host's number and that in 64 bits its kilobytes are the
host's exactly below 2^31. `CellsAreRight` puts them together for each property; the
invariant says that an item is the cells of its record as far as it has been read. It is not
one of the run's invariants; that run checks the three it implies.

The constants are restricted by the named assumptions of the modules only, which TLC evaluates
on every run. `Null` and `Throws` differ from every value: they stand
for the absence of one and for an exception.

Only model-checked: liveness and the fair refinement of `PageView`, which are beyond the
prover, and the two findings.

## Not modelled

* wxWidgets itself, and the layout of the window (`setup_menus`, `setup_notebook`).
* `wmi_exec`: it has no caller, and its method builder is not finished. Nor have
  `change_host`, `for_each`, the string helpers of `wmi_process.cpp`, and three constructors
  of `wmi_process_table` a caller; `variant_visit` with a void result is never instantiated.
* `column_names`, whose fifteenth entry is written behind its fourteen: undefined behaviour
  before `main`, with no states to explore.
* `std::async` that cannot start a thread, or defers its task: the library of the build
  starts a thread, and what wxWidgets does with an exception of a handler is outside `src/`.
  The same holds for an exception of `terminate_process_by_pid`.
* What a program does after memory is corrupted.

With this every operation of the program that changes state and has a caller is an action
of a module.

## Plan

Every safety invariant and action property of the passing runs is a theorem. What is left
relates the modules to one another: that `SnapshotCell` is what `PageRefresh` does with `m_data`,
and that a session of `WmiSession` is its `Fetch`; both are stated in words above.
