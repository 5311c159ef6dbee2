---------------------------- MODULE WebServersMC ----------------------------
(* The HTTP servers of a sketch process, one at a time: the sketch's own    *)
(* (events: two browsers and a queue of one frame; requests: two pool       *)
(* threads with a request each, begun twice) and the runtime's two (one     *)
(* task besides the main thread, three Server objects, two streams).        *)
EXTENDS EventSource, WebRequests, HttpSurfaces

VARIABLE part   \* which server this behaviour is about: "events", "requests" or "surfaces"

allVars == <<part, vars, webVars, surfaceVars>>

InitServers ==
  /\ part \in {"events", "requests", "surfaces"}
  /\ Init /\ InitWeb /\ InitSurfaces
  /\ part # "requests" => kind = "async" /\ ~notFound

NextServers ==
  \/ part = "events" /\ Next /\ UNCHANGED <<part, webVars, surfaceVars>>
  \/ part = "requests" /\ NextWeb /\ UNCHANGED <<part, vars, surfaceVars>>
  \/ part = "surfaces" /\ NextSurfaces /\ UNCHANGED <<part, vars, webVars>>

\* The fairness of each part.  Nothing is enabled in an asynchronous server or an event
\* source that was not begun; the start of the surfaces is, hence their guard.
FairPanelServers ==
  LET Runs(A) == part = "surfaces" /\ Live(A)
  IN /\ WF_surfaceVars(Runs(Start("main")))
     /\ WF_surfaceVars(Runs(DevtoolsStarted \/ MirrorStart))
     /\ WF_surfaceVars(Runs(Shutdown)) /\ WF_surfaceVars(Runs(MirrorListen \/ MirrorEnds))
     /\ \A k \in Objects : WF_surfaceVars(Runs(ServerThread(k)))
     /\ \A v \in Viewers : WF_surfaceVars(Runs(ViewerReads(v) \/ ViewerSends(v)))

SpecServers ==
  InitServers /\ [][NextServers]_allVars /\ Fairness /\ FairWeb /\ FairPanelServers
=============================================================================
