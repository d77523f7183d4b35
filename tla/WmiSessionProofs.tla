-------------------------- MODULE WmiSessionProofs --------------------------
(***************************************************************************)
(* Proofs about WmiSession, for any set of threads.                        *)
(***************************************************************************)
EXTENDS WmiSession, TLAPS

-----------------------------------------------------------------------------
(* The steps of a session, by its stages. *)

Entering(th) == (\E j \in Job : Begin(th, j)) \/ InitializeCom(th) \/ InitializeComFails(th)
Securing(th) == StartSecurity(th) \/ SkipSecurity(th) \/ SecuritySucceeds(th) \/ SecurityFails(th)
Locating(th) == CreateLocator(th) \/ CreateLocatorFails(th)
Fetching(th) == Connect(th) \/ SetProxyBlanket(th) \/ Query(th) \/ CallFails(th) \/ LastRecord(th)
Terminating(th) == Prepare(th) \/ PrepareFails(th) \/ SpawnInstance(th) \/ Put(th) \/ ExecMethod(th)
Leaving(th) == UninitializeCom(th) \/ ReleaseInterfaces(th)

\* Those that use WMI do not touch COM, sec_res or what is shared, and stay among themselves until
\* they end.
Using(th) == Fetching(th) \/ Terminating(th)

LEMMA Stages ==
  ASSUME NEW th, Session(th)
  PROVE  Entering(th) \/ Securing(th) \/ Locating(th) \/ Using(th) \/ Leaving(th)
BY DEF Session, Entering, Securing, Locating, Using, Fetching, Terminating, Leaving

LEMMA UsingSteps ==
  ASSUME TypeOK, NEW th \in Threads, Using(th)
  PROVE  /\ UNCHANGED <<job, com, has_init, statics, opened, history>>
         /\ \E to \in Place \ {"idle", "init", "security", "initializing", "release"} : at' = [at EXCEPT ![th] = to]
         /\ at[th] \notin Outside
         /\ \E how \in Outcome : outcome' = [outcome EXCEPT ![th] = how]
         /\ held' \in [Threads -> SUBSET Interface]
<1> USE DEF TypeOK, Goes, Ends, Takes, Place, Outside, Outcome, Interface
<1>1. CASE Fetching(th)
  BY <1>1 DEF Fetching, Connect, SetProxyBlanket, Query, CallFails, LastRecord, Throws
<1>2. CASE Terminating(th)
  BY <1>2 DEF Terminating, Prepare, PrepareFails, SpawnInstance, Put, ExecMethod
<1> QED
  BY <1>1, <1>2 DEF Using

-----------------------------------------------------------------------------
(* Type correctness. *)

LEMMA SessionTypeNext ==
  ASSUME TypeOK, NEW th \in Threads, Session(th)
  PROVE  TypeOK'
<1> USE DEF TypeOK, Goes, Ends, Takes, Throws, statics, history, Place, Job, Interface, Outcome
<1>1. CASE Entering(th)
  <2>1. ASSUME NEW j \in Job, Begin(th, j) PROVE TypeOK'
    BY <2>1 DEF Begin
  <2>2. CASE InitializeCom(th)
    BY <2>2 DEF InitializeCom
  <2>3. CASE InitializeComFails(th)
    BY <2>3 DEF InitializeComFails
  <2> QED
    BY <1>1, <2>1, <2>2, <2>3 DEF Entering
<1>2. CASE Securing(th)
  <2>1. CASE StartSecurity(th)
    BY <2>1 DEF StartSecurity
  <2>2. CASE SkipSecurity(th)
    BY <2>2 DEF SkipSecurity
  <2>3. CASE SecuritySucceeds(th)
    BY <2>3 DEF SecuritySucceeds
  <2>4. CASE SecurityFails(th)
    BY <2>4 DEF SecurityFails, InitializedByFailure
  <2> QED
    BY <1>2, <2>1, <2>2, <2>3, <2>4 DEF Securing
<1>3. CASE Locating(th)
  BY <1>3 DEF Locating, CreateLocator, CreateLocatorFails, Uninitialized
<1>4. CASE Using(th)
  BY <1>4, UsingSteps
<1>5. CASE Leaving(th)
  <2>1. CASE UninitializeCom(th)
    BY <2>1 DEF UninitializeCom, UndoneInit, Uninitialized
  <2>2. CASE ReleaseInterfaces(th)
    BY <2>2 DEF ReleaseInterfaces, Opens
  <2> QED
    BY <1>5, <2>1, <2>2 DEF Leaving
<1> QED
  BY <1>1, <1>2, <1>3, <1>4, <1>5, Stages

-----------------------------------------------------------------------------
(* COM. *)

\* InitializeCom and UninitializeCom set and reset has_init where they enter and leave its stages.
LEMMA InitMatchesNext ==
  ASSUME TypeOK, InitMatches, NEW th \in Threads, Session(th)
  PROVE  InitMatches'
<1> USE DEF TypeOK, InitMatches, Goes, Throws, Outside
<1>1. CASE Entering(th)
  BY <1>1 DEF Entering, Begin, InitializeCom, InitializeComFails
<1>2. CASE Securing(th)
  BY <1>2 DEF Securing, StartSecurity, SkipSecurity, SecuritySucceeds, SecurityFails
<1>3. CASE Locating(th)
  BY <1>3 DEF Locating, CreateLocator, CreateLocatorFails
<1>4. CASE Using(th)
  BY <1>4, UsingSteps
<1>5. CASE Leaving(th)
  BY <1>5 DEF Leaving, UninitializeCom, UndoneInit, ReleaseInterfaces
<1> QED
  BY <1>1, <1>2, <1>3, <1>4, <1>5, Stages

\* Every thread counts COM up and down as has_init says, unless its constructor failed.
LEMMA ComCountedNext ==
  ASSUME TypeOK, InitMatches, ComCounted, NEW th \in Threads, Session(th)
  PROVE  ComCounted'
<1> USE DEF TypeOK, InitMatches, ComCounted, AtStart, Goes, Throws, history
<1>1. CASE Entering(th)
  BY <1>1 DEF Entering, Begin, InitializeCom, InitializeComFails
<1>2. CASE Securing(th)
  BY <1>2 DEF Securing, StartSecurity, SkipSecurity, SecuritySucceeds, SecurityFails
<1>3. CASE Locating(th)
  BY <1>3 DEF Locating, CreateLocator, CreateLocatorFails
<1>4. CASE Using(th)
  BY <1>4, UsingSteps
<1>5. CASE Leaving(th)
  BY <1>5 DEF Leaving, UninitializeCom, UndoneInit, Uninitialized, ReleaseInterfaces
<1> QED
  BY <1>1, <1>2, <1>3, <1>4, <1>5, Stages

\* When the GUI thread releases its interfaces, COM is counted once, for wxWidgets.
LEMMA GuiReleasesNext ==
  ASSUME TypeOK, InitMatches, ComCounted, GuiReleasesInTime, NEW th \in Threads, Session(th)
  PROVE  GuiReleasesInTime'
<1> USE DEF GuiReleasesInTime, history
<1>1. CASE Entering(th)
  BY <1>1 DEF Entering, Begin, InitializeCom, InitializeComFails
<1>2. CASE Securing(th)
  BY <1>2 DEF Securing, StartSecurity, SkipSecurity, SecuritySucceeds, SecurityFails
<1>3. CASE Locating(th)
  BY <1>3 DEF Locating, CreateLocator, CreateLocatorFails
<1>4. CASE Using(th)
  BY <1>4, UsingSteps
<1>5. CASE UninitializeCom(th)
  BY <1>5 DEF UninitializeCom
<1>6. CASE ReleaseInterfaces(th)
  <2>1. th = Gui /\ Gui \notin overdone => com[th] = 1
    BY <1>6 DEF ReleaseInterfaces, Goes, InitMatches, ComCounted, AtStart
  <2> QED
    BY <1>6, <2>1 DEF ReleaseInterfaces
<1> QED
  BY <1>1, <1>2, <1>3, <1>4, <1>5, <1>6, Stages DEF Leaving

-----------------------------------------------------------------------------
(* Security. *)

\* Only the thread that initializes sec_res makes it initialized, and only when it succeeds.
LEMMA InitializerNext ==
  ASSUME TypeOK, SecuredIsGranted, OneInitializer, NEW th \in Threads, Session(th)
  PROVE  /\ SecuredIsGranted' /\ OneInitializer'
         /\ granted => granted'
<1> USE WmiSessionAssumption DEF TypeOK, SecuredIsGranted, OneInitializer, Goes, Throws, statics, Outside
<1>1. CASE Entering(th)
  BY <1>1 DEF Entering, Begin, InitializeCom, InitializeComFails
<1>2. CASE Securing(th)
  <2>1. CASE StartSecurity(th)
    BY <2>1 DEF StartSecurity
  <2>2. CASE SkipSecurity(th)
    BY <2>2 DEF SkipSecurity
  <2>3. CASE SecuritySucceeds(th)
    <3>1. secured' = granted' /\ granted' = TRUE
      BY <2>3 DEF SecuritySucceeds
    <3>2. OneInitializer'
      BY <2>3 DEF SecuritySucceeds
    <3> QED
      BY <3>1, <3>2
  <2>4. CASE SecurityFails(th)
    <3>1. secured' = FALSE /\ granted' = FALSE /\ granted = FALSE
      BY <2>4 DEF SecurityFails, InitializedByFailure
    <3>2. OneInitializer'
      BY <2>4, <3>1 DEF SecurityFails
    <3> QED
      BY <3>1, <3>2
  <2> QED
    BY <1>2, <2>1, <2>2, <2>3, <2>4 DEF Securing
<1>3. CASE Locating(th)
  BY <1>3 DEF Locating, CreateLocator, CreateLocatorFails
<1>4. CASE Using(th)
  BY <1>4, UsingSteps
<1>5. CASE Leaving(th)
  BY <1>5 DEF Leaving, UninitializeCom, ReleaseInterfaces
<1> QED
  BY <1>1, <1>2, <1>3, <1>4, <1>5, Stages

\* A thread uses WMI after it has found sec_res initialized or has initialized it.
LEMMA SecuredNext ==
  ASSUME TypeOK, SecuredIsGranted, OneInitializer, SecuredBeforeUse, NEW th \in Threads, Session(th)
  PROVE  SecuredBeforeUse'
<1> USE InitializerNext DEF TypeOK, SecuredBeforeUse, Goes, Throws, Outside
<1>1. CASE Entering(th)
  BY <1>1 DEF Entering, Begin, InitializeCom, InitializeComFails
<1>2. CASE Securing(th)
  BY <1>2 DEF Securing, StartSecurity, SkipSecurity, SecuritySucceeds, SecurityFails, SecuredIsGranted
<1>3. CASE Locating(th)
  BY <1>3 DEF Locating, CreateLocator, CreateLocatorFails
<1>4. CASE Using(th)
  BY <1>4, UsingSteps
<1>5. CASE Leaving(th)
  BY <1>5 DEF Leaving, UninitializeCom, ReleaseInterfaces
<1> QED
  BY <1>1, <1>2, <1>3, <1>4, <1>5, Stages

\* A session that ends without an exception has used WMI.
LEMMA SucceedsSecuredNext ==
  ASSUME TypeOK, SecuredIsGranted, OneInitializer, SecuredBeforeUse, SucceedsSecured,
         NEW th \in Threads, Session(th)
  PROVE  SucceedsSecured'
<1> USE InitializerNext DEF TypeOK, SucceedsSecured, Goes, Ends, Throws
<1>1. CASE Entering(th)
  BY <1>1 DEF Entering, Begin, InitializeCom, InitializeComFails
<1>2. CASE Securing(th)
  BY <1>2 DEF Securing, StartSecurity, SkipSecurity, SecuritySucceeds, SecurityFails
<1>3. CASE Locating(th)
  BY <1>3 DEF Locating, CreateLocator, CreateLocatorFails
<1>4. CASE Using(th)
  BY <1>4, UsingSteps DEF SecuredBeforeUse
<1>5. CASE Leaving(th)
  BY <1>5 DEF Leaving, UninitializeCom, ReleaseInterfaces
<1> QED
  BY <1>1, <1>2, <1>3, <1>4, <1>5, Stages

\* A page opens after such a session, and tasks start after a page has opened.
LEMMA OpenedNext ==
  ASSUME SessionInv, NEW th \in Threads, Session(th)
  PROVE  OpenedSecured' /\ TasksComeLater'
<1> USE InitializerNext DEF SessionInv, TypeOK, OpenedSecured, TasksComeLater, Goes, Throws
<1>1. CASE Entering(th)
  BY <1>1 DEF Entering, Begin, InitializeCom, InitializeComFails
<1>2. CASE Securing(th)
  BY <1>2 DEF Securing, StartSecurity, SkipSecurity, SecuritySucceeds, SecurityFails
<1>3. CASE Locating(th)
  BY <1>3 DEF Locating, CreateLocator, CreateLocatorFails
<1>4. CASE Using(th)
  BY <1>4, UsingSteps DEF Outside
<1>5. CASE Leaving(th)
  BY <1>5 DEF Leaving, UninitializeCom, ReleaseInterfaces, Opens, SucceedsSecured
<1> QED
  BY <1>1, <1>2, <1>3, <1>4, <1>5, Stages

-----------------------------------------------------------------------------
(* The inductive invariant, and what it says. *)

LEMMA SessionInvInit == Init => SessionInv
<1> SUFFICES ASSUME Init PROVE SessionInv
  OBVIOUS
<1>1. TypeOK
  BY WmiSessionAssumption DEF Init, TypeOK, AtStart, Place, Job, Outcome
<1>2. InitMatches /\ ComCounted /\ GuiReleasesInTime
  BY DEF Init, InitMatches, ComCounted, AtStart, GuiReleasesInTime
<1>3. SecuredIsGranted /\ OneInitializer /\ SecuredBeforeUse
  BY WmiSessionAssumption DEF Init, SecuredIsGranted, OneInitializer, SecuredBeforeUse, Outside
<1>4. SucceedsSecured /\ OpenedSecured /\ TasksComeLater
  BY DEF Init, SucceedsSecured, OpenedSecured, TasksComeLater
<1> QED
  BY <1>1, <1>2, <1>3, <1>4 DEF SessionInv

LEMMA SessionInvNext == SessionInv /\ [Next]_vars => SessionInv'
<1> SUFFICES ASSUME SessionInv, [Next]_vars PROVE SessionInv'
  OBVIOUS
<1>1. ASSUME NEW th \in Threads, Session(th) PROVE SessionInv'
  BY <1>1, SessionTypeNext, InitMatchesNext, ComCountedNext, GuiReleasesNext, InitializerNext,
     SecuredNext, SucceedsSecuredNext, OpenedNext DEF SessionInv
<1>2. CASE UNCHANGED vars
  BY <1>2 DEF vars, statics, history, SessionInv, TypeOK, InitMatches, ComCounted, GuiReleasesInTime,
         SecuredIsGranted, OneInitializer, SecuredBeforeUse, SucceedsSecured, OpenedSecured, TasksComeLater
<1> QED
  BY <1>1, <1>2 DEF Next, Halted

\* The invariant that gives the others: whatever call fails, on any number of threads, COM is
\* counted as has_init says, and only what has passed the security stage opens a page.
THEOREM SessionInvariance == Spec => []SessionInv
<1> QED
  BY SessionInvInit, SessionInvNext, PTL DEF Spec

\* Every variable keeps its type.
THEOREM SessionTypeCorrect == Spec => []TypeOK
<1>1. SessionInv => TypeOK
  BY DEF SessionInv
<1> QED
  BY <1>1, SessionInvariance, PTL

\* No thread uses WMI before CoInitializeSecurity has succeeded, although any thread may call
\* it and every call of it may fail.
THEOREM NoInsecureUse == Spec => []SecuredBeforeUse
<1>1. SessionInv => SecuredBeforeUse
  BY DEF SessionInv
<1> QED
  BY <1>1, SessionInvariance, PTL

\* No task's thread runs the initializer of sec_res: by the time one gets there, the GUI thread
\* has opened a page, for which it has initialized sec_res.
THEOREM TasksFindItSecured == Spec => []OnlyGuiSecures
<1>1. SessionInv /\ [Next]_vars /\ OnlyGuiSecures => OnlyGuiSecures'
  <2> SUFFICES ASSUME SessionInv, [Next]_vars, OnlyGuiSecures PROVE OnlyGuiSecures'
    OBVIOUS
  <2> USE DEF OnlyGuiSecures
  <2>1. ASSUME NEW th \in Threads, Securing(th) PROVE OnlyGuiSecures'
    <3>1. th # Gui => secured
      BY <2>1 DEF Securing, StartSecurity, SkipSecurity, SecuritySucceeds, SecurityFails, Goes, Throws,
             SessionInv, TasksComeLater, OpenedSecured, SecuredIsGranted
    <3> QED
      BY <2>1, <3>1 DEF Securing, StartSecurity, SkipSecurity, SecuritySucceeds, SecurityFails, statics
  <2>2. ASSUME NEW th \in Threads, Session(th), ~Securing(th) PROVE UNCHANGED running
    BY <2>2, Stages, UsingSteps
       DEF SessionInv, Entering, Begin, InitializeCom, InitializeComFails, Locating, CreateLocator,
           CreateLocatorFails, Leaving, UninitializeCom, ReleaseInterfaces, statics
  <2> QED
    BY <2>1, <2>2 DEF Next, Halted, vars, statics
<1>2. Init => OnlyGuiSecures
  BY DEF Init, OnlyGuiSecures
<1> QED
  BY <1>1, <1>2, SessionInvariance, PTL DEF Spec

\* However a call ends, it leaves COM initialized on its thread as often as it found it, unless
\* the creation of the locator has failed there.
THEOREM ComIsLeftAsFound == Spec => []ComIsBalanced
<1>1. SessionInv => ComIsBalanced
  BY DEF SessionInv, ComIsBalanced, InitMatches, ComCounted, TypeOK, AtStart
<1> QED
  BY <1>1, SessionInvariance, PTL

\* The destructors that release interfaces after CoUninitialize do so on the GUI thread while
\* COM is still initialized, unless the creation of the locator has failed there.
THEOREM GuiReleasesBeforeTheEnd == Spec => []GuiReleasesInTime
<1>1. SessionInv => GuiReleasesInTime
  BY DEF SessionInv
<1> QED
  BY <1>1, SessionInvariance, PTL
=============================================================================
