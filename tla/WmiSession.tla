----------------------------- MODULE WmiSession -----------------------------
(***************************************************************************)
(* One call of get_wmi_win32_process or terminate_process_by_where         *)
(* (wmi_process.cpp) per thread: the life of its wmi_state_t               *)
(* (wmi_impl.cpp), from CoInitializeEx to the destructors, on the GUI      *)
(* thread and on the tasks that refresh tables, which share the process    *)
(* and its one call of CoInitializeSecurity.  A task runs, and the menu    *)
(* terminates, only after a fetch on the GUI thread has opened a page.     *)
(***************************************************************************)
EXTENDS Integers

CONSTANTS
  Threads,
  Gui,        \* the thread on which wxWidgets has initialized OLE for itself
  Nobody      \* no thread is in the initializer of sec_res

ASSUME WmiSessionAssumption ==
  /\ Gui \in Threads
  /\ Nobody \notin Threads

VARIABLES
  at,        \* where each thread is in its call
  job,       \* "fetch" or "terminate"
  com,       \* COM initializations of each thread that are not undone
  has_init,  \* wmi_state_co::has_init
  held,      \* the interfaces its CComPtrs own
  secured,   \* sec_res is initialized
  running,   \* the thread that initializes sec_res, or Nobody
  opened,    \* a page was opened
  outcome,   \* how the thread's last call ended
  granted,   \* history: CoInitializeSecurity has succeeded
  overdone,  \* history: threads on which a failed constructor undid COM twice
  late       \* history: threads that released an interface after COM was gone

statics == <<secured, running, granted>>
history == <<overdone, late>>
vars == <<at, job, com, has_init, held, statics, opened, outcome, history>>

Job == {"fetch", "terminate"}
Place == {"idle", "init", "security", "initializing", "locator", "connect", "blanket", "query", "next",
          "object", "method", "spawn", "put", "exec", "uninit", "release", "crashed"}
Interface == {"locator", "service", "enumerator", "instance"}
Outcome == {"none", "complete", "truncated", "threw", "executed", "ignored"}

\* What wxWidgets has initialized before the program's own code runs.
AtStart(th) == IF th = Gui THEN 1 ELSE 0

Init ==
  /\ at = [th \in Threads |-> "idle"]
  /\ job = [th \in Threads |-> "fetch"]
  /\ com = [th \in Threads |-> AtStart(th)]
  /\ has_init = [th \in Threads |-> FALSE]
  /\ held = [th \in Threads |-> {}]
  /\ secured = FALSE /\ running = Nobody /\ granted = FALSE
  /\ opened = FALSE
  /\ outcome = [th \in Threads |-> "none"]
  /\ overdone = {} /\ late = {}

-----------------------------------------------------------------------------
Goes(th, from, to) == at[th] = from /\ at' = [at EXCEPT ![th] = to]
Ends(th, how) == outcome' = [outcome EXCEPT ![th] = how]
Takes(th, interface) == held' = [held EXCEPT ![th] = @ \cup {interface}]

\* CoUninitialize is ignored on a thread where COM is not initialized.
CountedDown(n) == n - 1
Uninitialized(n) == IF n > 0 THEN n - 1 ELSE 0

\* A call throws, and the destructor of wmi_state_t runs.
Throws(th, from) ==
  /\ Goes(th, from, "uninit")
  /\ Ends(th, "threw")

\* The timer of a page starts tasks, and only the GUI thread's menu terminates processes.
Begin(th, j) ==
  /\ th # Gui \/ j = "terminate" => opened
  /\ j = "terminate" => th = Gui
  /\ Goes(th, "idle", "init")
  /\ job' = [job EXCEPT ![th] = j]
  /\ Ends(th, "none")
  /\ UNCHANGED <<com, has_init, held, statics, opened, history>>

\* wmi_state_co's constructor: nothing to undo when CoInitializeEx fails.
InitializeCom(th) ==
  /\ Goes(th, "init", "security")
  /\ com' = [com EXCEPT ![th] = @ + 1]
  /\ has_init' = [has_init EXCEPT ![th] = TRUE]
  /\ UNCHANGED <<job, held, statics, opened, outcome, history>>

InitializeComFails(th) ==
  /\ Goes(th, "init", "idle")
  /\ Ends(th, "threw")
  /\ UNCHANGED <<job, com, has_init, held, statics, opened, history>>

\* sec_res is initialized by the first thread that gets here; the others wait for it.

StartSecurity(th) ==
  /\ ~secured /\ running = Nobody
  /\ Goes(th, "security", "initializing")
  /\ running' = th
  /\ UNCHANGED <<job, com, has_init, held, secured, granted, opened, outcome, history>>

SkipSecurity(th) ==
  /\ secured
  /\ Goes(th, "security", "locator")
  /\ UNCHANGED <<job, com, has_init, held, statics, opened, outcome, history>>

SecuritySucceeds(th) ==
  /\ Goes(th, "initializing", "locator")
  /\ secured' = TRUE /\ running' = Nobody /\ granted' = TRUE
  /\ UNCHANGED <<job, com, has_init, held, opened, outcome, history>>

\* An initializer that throws leaves sec_res uninitialized, so that the next session calls
\* again; one that returned the error instead would never be called again.
ErrorIsKept(th) == TRUE
InitializedByFailure(th) == FALSE

SecurityFails(th) ==
  /\ Throws(th, "initializing")
  /\ secured' = InitializedByFailure(th) /\ running' = Nobody
  /\ UNCHANGED <<job, com, has_init, held, granted, opened, history>>

CreateLocator(th) ==
  /\ Goes(th, "locator", "connect")
  /\ Takes(th, "locator")
  /\ UNCHANGED <<job, com, has_init, statics, opened, outcome, history>>

\* CoCreateInstance fails: the constructor undoes COM, and so will the member it has built.
CreateLocatorFails(th) ==
  /\ Throws(th, "locator")
  /\ com' = [com EXCEPT ![th] = Uninitialized(@)]
  /\ overdone' = overdone \cup {th}
  /\ UNCHANGED <<job, has_init, held, statics, opened, late>>

Connect(th) ==
  /\ Goes(th, "connect", "blanket")
  /\ Takes(th, "service")
  /\ UNCHANGED <<job, com, has_init, statics, opened, outcome, history>>

SetProxyBlanket(th) ==
  /\ Goes(th, "blanket", IF job[th] = "fetch" THEN "query" ELSE "object")
  /\ UNCHANGED <<job, com, has_init, held, statics, opened, outcome, history>>

Query(th) ==
  /\ Goes(th, "query", "next")
  /\ Takes(th, "enumerator")
  /\ UNCHANGED <<job, com, has_init, statics, opened, outcome, history>>

\* ConnectServer, CoSetProxyBlanket or ExecQuery fails, or a record has a property of the wrong type.
CallFails(th) ==
  /\ \E from \in {"connect", "blanket", "query", "next"} : Throws(th, from)
  /\ held' = [held EXCEPT ![th] = @ \ {"enumerator"}]
  /\ UNCHANGED <<job, com, has_init, statics, opened, history>>

\* transform stops at the last record, and at an error it does not report.
LastRecord(th) ==
  /\ Goes(th, "next", "uninit")
  /\ \E how \in {"complete", "truncated"} : Ends(th, how)
  /\ held' = [held EXCEPT ![th] = @ \ {"enumerator"}]
  /\ UNCHANGED <<job, com, has_init, statics, opened, history>>

\* GetObject, GetMethod: a failure is not reported either.
Prepare(th) ==
  /\ Goes(th, "object", "method") \/ Goes(th, "method", "spawn")
  /\ UNCHANGED <<job, com, has_init, held, statics, opened, outcome, history>>

PrepareFails(th) ==
  /\ \E from \in {"object", "method"} : Goes(th, from, "uninit")
  /\ Ends(th, "ignored")
  /\ UNCHANGED <<job, com, has_init, held, statics, opened, history>>

\* SpawnInstance: when it fails, class_instance stays null and the code goes on.
SpawnInstance(th) ==
  /\ Goes(th, "spawn", "put")
  /\ Takes(th, "instance") \/ UNCHANGED held
  /\ UNCHANGED <<job, com, has_init, statics, opened, outcome, history>>

\* class_instance->Put: the process does not survive a null pointer.
Put(th) ==
  /\ Goes(th, "put", IF "instance" \in held[th] THEN "exec" ELSE "crashed")
  /\ UNCHANGED <<job, com, has_init, held, statics, opened, outcome, history>>

\* ExecMethod: the result is not looked at.
ExecMethod(th) ==
  /\ Goes(th, "exec", "uninit")
  /\ \E how \in {"executed", "ignored"} : Ends(th, how)
  /\ held' = [held EXCEPT ![th] = @ \ {"instance"}]
  /\ UNCHANGED <<job, com, has_init, statics, opened, history>>

\* ~wmi_state_t destroys its members last to first: init, then service and locator.  Without
\* has_init, COM would not be undone, or be undone again by every destructor that runs.
ForgottenInit(th) == UNCHANGED <<com, has_init>>
UndoneTwice(th) ==
  /\ com' = [com EXCEPT ![th] = Uninitialized(Uninitialized(@))]
  /\ has_init' = [has_init EXCEPT ![th] = FALSE]
UndoneInit(th) ==
  /\ com' = [com EXCEPT ![th] = IF has_init[th] THEN Uninitialized(@) ELSE @]
  /\ has_init' = [has_init EXCEPT ![th] = FALSE]

UninitializeCom(th) ==
  /\ Goes(th, "uninit", "release")
  /\ UndoneInit(th)
  /\ UNCHANGED <<job, held, statics, opened, outcome, history>>

\* The constructor of wmi_process_table, called by add_page: its page opens unless it throws.
OpensAnyway(th) == th = Gui /\ job[th] = "fetch"
Opens(th) == th = Gui /\ job[th] = "fetch" /\ outcome[th] # "threw"

ReleaseInterfaces(th) ==
  /\ Goes(th, "release", "idle")
  /\ held' = [held EXCEPT ![th] = {}]
  /\ late' = IF held[th] # {} /\ com[th] = 0 THEN late \cup {th} ELSE late
  /\ opened' = (opened \/ Opens(th))
  /\ UNCHANGED <<job, com, has_init, statics, outcome, overdone>>

Session(th) ==
  \/ \E j \in Job : Begin(th, j)
  \/ InitializeCom(th) \/ InitializeComFails(th)
  \/ StartSecurity(th) \/ SkipSecurity(th) \/ SecuritySucceeds(th) \/ SecurityFails(th)
  \/ CreateLocator(th) \/ CreateLocatorFails(th)
  \/ Connect(th) \/ SetProxyBlanket(th) \/ Query(th) \/ CallFails(th) \/ LastRecord(th)
  \/ Prepare(th) \/ PrepareFails(th) \/ SpawnInstance(th) \/ Put(th) \/ ExecMethod(th)
  \/ UninitializeCom(th) \/ ReleaseInterfaces(th)

Crashed == \E th \in Threads : at[th] = "crashed"
Halted == Crashed /\ UNCHANGED vars

Next == (~Crashed /\ \E th \in Threads : Session(th)) \/ Halted

Spec == Init /\ [][Next]_vars

-----------------------------------------------------------------------------
(* Properties. *)

TypeOK ==
  /\ at \in [Threads -> Place]
  /\ job \in [Threads -> Job]
  /\ com \in [Threads -> Nat]
  /\ has_init \in [Threads -> BOOLEAN]
  /\ held \in [Threads -> SUBSET Interface]
  /\ secured \in BOOLEAN /\ granted \in BOOLEAN /\ opened \in BOOLEAN /\ running \in Threads \cup {Nobody}
  /\ outcome \in [Threads -> Outcome]
  /\ overdone \subseteq Threads /\ late \subseteq Threads

Outside == {"idle", "init", "security", "initializing", "uninit", "release", "crashed"}

\* No thread uses WMI before CoInitializeSecurity has succeeded, whichever thread calls it
\* and however often it failed before.
SecuredBeforeUse == \A th \in Threads : at[th] \notin Outside => granted

\* The static initializer, which is to run once per process and which no lock of the program's
\* own protects, never runs on a task's thread: the sessions of tasks find sec_res initialized.
OnlyGuiSecures == running \in {Gui, Nobody}

\* A call leaves its thread with the COM initializations it found, however it ends,
\* unless the creation of the locator failed on that thread: then one is missing.
ComIsBalanced ==
  \A th \in Threads : at[th] = "idle" /\ th \notin overdone => com[th] = AtStart(th)

\* On the GUI thread COM is still initialized when the destructors release service and
\* locator after CoUninitialize, thanks to wxWidgets' own initialization; it is lost only
\* to a locator that could not be created.
GuiReleasesInTime == Gui \in late => Gui \in overdone

-----------------------------------------------------------------------------
(* The inductive invariant.  An exception of each part is what another one excludes. *)

\* has_init is set from CoInitializeEx to CoUninitialize, and by then COM is counted.
InitMatches == \A th \in Threads : has_init[th] <=> at[th] \notin {"idle", "init", "release"}
ComCounted ==
  \A th \in Threads \ overdone : com[th] = AtStart(th) + (IF has_init[th] THEN 1 ELSE 0)

\* sec_res is initialized when the call has succeeded, and one thread initializes it at a time,
\* none again.
SecuredIsGranted == secured = granted
OneInitializer ==
  /\ \A th \in Threads : at[th] = "initializing" <=> running = th
  /\ secured => running = Nobody

\* Only a session that has passed the security stage ends without an exception; the first of
\* them opens a page, and no task's session begins before.
SucceedsSecured == \A th \in Threads : at[th] \in {"uninit", "release"} /\ outcome[th] # "threw" => granted
OpenedSecured == opened => granted
TasksComeLater == \A th \in Threads \ {Gui} : at[th] # "idle" => opened

SessionInv ==
  /\ TypeOK
  /\ InitMatches /\ ComCounted /\ GuiReleasesInTime
  /\ SecuredIsGranted /\ OneInitializer /\ SecuredBeforeUse
  /\ SucceedsSecured /\ OpenedSecured /\ TasksComeLater
=============================================================================
