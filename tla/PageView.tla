------------------------------ MODULE PageView ------------------------------
(***************************************************************************)
(* What the main window promises of each page, without timers, threads and *)
(* repaints: the page asks its host for the processes, one request at a    *)
(* time; an answer replaces the data it shows by data asked for later; a   *)
(* failure closes the page for good; a page whose host answers is asked    *)
(* and answered again and again until the window is closed.                *)
(***************************************************************************)
EXTENDS Naturals

CONSTANTS
  Pages,
  Responsive,  \* the pages whose host answers every request in the end
  MaxVersion   \* bound on version

VARIABLES
  status,   \* "none", "live", "dead" (no data any more) or "gone" (window closed)
  request,  \* "idle", "asked", or the outcome the page has not taken notice of
  version   \* version of the data the page shows

viewVars == <<status, request, version>>

Outcome == {"answered", "refused"}

ViewTypeOK ==
  /\ status \in [Pages -> {"none", "live", "dead", "gone"}]
  /\ request \in [Pages -> {"idle", "asked"} \cup Outcome]
  /\ version \in [Pages -> 0 .. MaxVersion]

ViewInit ==
  /\ status = [p \in Pages |-> "none"]
  /\ request = [p \in Pages |-> "idle"]
  /\ version = [p \in Pages |-> 0]

Open(p) ==
  /\ status[p] = "none"
  /\ status' = [status EXCEPT ![p] = "live"]
  /\ UNCHANGED <<request, version>>

Ask(p) ==
  /\ status[p] = "live" /\ request[p] = "idle"
  /\ request' = [request EXCEPT ![p] = "asked"]
  /\ UNCHANGED <<status, version>>

Answer(p) ==
  /\ status[p] = "live" /\ request[p] = "asked"
  /\ request' = [request EXCEPT ![p] = "answered"]
  /\ \E v \in version[p] .. MaxVersion : version' = [version EXCEPT ![p] = v]
  /\ UNCHANGED status

Refuse(p) ==
  /\ status[p] = "live" /\ request[p] = "asked"
  /\ request' = [request EXCEPT ![p] = "refused"]
  /\ UNCHANGED <<status, version>>

\* The page takes notice of the outcome: it shows the answer, or gives up.
Notice(p) ==
  /\ status[p] = "live" /\ request[p] \in Outcome
  /\ status' = [status EXCEPT ![p] = IF request[p] = "refused" THEN "dead" ELSE "live"]
  /\ request' = [request EXCEPT ![p] = "idle"]
  /\ UNCHANGED version

\* Closing the window takes every live page with its data and its request.
CloseAll ==
  LET live == {p \in Pages : status[p] = "live"} IN
  /\ status' = [p \in Pages |-> IF p \in live THEN "gone" ELSE status[p]]
  /\ request' = [p \in Pages |-> IF p \in live THEN "idle" ELSE request[p]]
  /\ version' = [p \in Pages |-> IF p \in live THEN 0 ELSE version[p]]

ViewNext ==
  \/ \E p \in Pages : Open(p) \/ Ask(p) \/ Answer(p) \/ Refuse(p) \/ Notice(p)
  \/ CloseAll

ViewSpec == ViewInit /\ [][ViewNext]_viewVars

\* A page asks, its host replies, and the page takes notice.
ViewFairness ==
  /\ \A p \in Pages : WF_viewVars(Ask(p)) /\ WF_viewVars(Notice(p))
  /\ \A p \in Responsive : WF_viewVars(Answer(p) \/ Refuse(p))

FairViewSpec == ViewSpec /\ ViewFairness
=============================================================================
