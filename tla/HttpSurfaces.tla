---------------------------- MODULE HttpSurfaces ----------------------------
(***************************************************************************)
(* The two HTTP servers of a sketch process from start to exit: devtools   *)
(* (runtime/src/sim_devtools.cpp), started by sim_runtime_init() and again *)
(* by any thread that writes UART1 while it is down, and the mirror        *)
(* (sim_mirror.cpp, sim_mirror_mdns.cpp), started once; both stopped by    *)
(* sim_runtime_shutdown() (sim_runtime.cpp), which main() calls or exit()  *)
(* through its atexit handler, before the static destructors.              *)
(*                                                                         *)
(* g_srv, g_running and g_thread of the devtools server are unlocked, so   *)
(* each access to one of them is a step.  The library (httplib::Server) is *)
(* external: stop() does nothing to a server whose thread has not reached  *)
(* its accept loop, and the loop ends only by stop().                      *)
(***************************************************************************)
EXTENDS Naturals, FiniteSets

CONSTANTS
  Tasks,       \* FreeRTOS tasks that write UART1: detached threads
  Viewers,     \* requests for /mirror/display, /mirror/audio or /mirror/screen.png
  MaxServers   \* bound on the Server objects that devtools makes

ASSUME SurfacesAssumption ==
  /\ IsFiniteSet(Tasks) /\ IsFiniteSet(Viewers) /\ "main" \notin Tasks
  /\ MaxServers \in Nat \ {0}

VARIABLES
  life,        \* where the main thread is: "init", "mirror", "live" and then, in
               \* shutdown, "mstop", "mjoin", "dstop", "djoin", "dreset", "close",
               \* "static", "ended"
  pc,          \* where each thread is in start_server()
  made,        \* Server objects devtools has made
  object,      \* each: "none", "made", "bound", "listening", "closing", "closed", "gone"
  srv,         \* g_srv: the object it holds, 0 for null
  devRunning,  \* g_running
  devThread,   \* g_thread: the server thread it is joinable with, 0 for none
  devServer,   \* each server thread, named for the object it was spawned for:
               \* "none", "start", "accept", "clear", "done"
  serves,      \* the object each server thread runs on
  mirror,      \* the mirror's server and thread: "none", "bound", "listening",
               \* "closing", "done"
  advert,      \* its mDNS child: "none", "up", "signalled"
  viewer,      \* each request: "none", "waiting", "reading" the panel, "over"
  fault,       \* "none", "terminate" (std::terminate), "dangling" (use of a dead object)
  raced        \* history: start_server() ran while another thread started or stopped devtools

devVars == <<made, object, srv, devRunning, devThread, devServer, serves>>
mirrorVars == <<mirror, advert, viewer>>
surfaceVars == <<life, pc, devVars, mirrorVars, fault, raced>>

Threads == {"main"} \cup Tasks
Objects == 1 .. MaxServers

InitSurfaces ==
  /\ life = "init" /\ pc = [t \in Threads |-> IF t = "main" THEN "check" ELSE "idle"]
  /\ made = 0 /\ object = [o \in Objects |-> "none"] /\ srv = 0
  /\ devRunning = FALSE /\ devThread = 0
  /\ devServer = [o \in Objects |-> "none"] /\ serves = [o \in Objects |-> 0]
  /\ mirror = "none" /\ advert = "none" /\ viewer = [v \in Viewers |-> "none"]
  /\ fault = "none" /\ raced = FALSE

Goto(t, s) == pc' = [pc EXCEPT ![t] = s]

\* Threads that have seen g_running clear and are starting the server.
Starting == {t \in Threads : pc[t] \notin {"idle", "check"}}

\* A server thread is in, or about to enter, a method of this object.
InUse(o) == \E k \in Objects : devServer[k] = "accept" /\ serves[k] = o

\* g_srv is given another value: the object it held is destroyed.
Replace(o) ==
  /\ srv' = o
  /\ fault' = IF srv # 0 /\ InUse(srv) THEN "dangling" ELSE fault

Destroyed == IF srv = 0 THEN object ELSE [object EXCEPT ![srv] = "gone"]

-----------------------------------------------------------------------------
(* start_server(): by sim_runtime_init(), or by record_uart_out() for every *)
(* write to UART1.                                                          *)

WriteUart1(t) ==
  /\ pc[t] = "idle"
  /\ IF t = "main" THEN life = "live" ELSE life \notin {"init", "mirror", "ended"}
  /\ Goto(t, "check")
  /\ UNCHANGED <<life, devVars, mirrorVars, fault, raced>>

StartCheck(t) ==
  /\ pc[t] = "check"
  /\ IF devRunning
       THEN Goto(t, "idle") /\ UNCHANGED raced
       ELSE /\ made < MaxServers
            /\ Goto(t, "make")
            /\ raced' = (raced \/ Starting # {} \/ life \notin {"init", "mirror", "live"})
  /\ UNCHANGED <<life, devVars, mirrorVars, fault>>

MakeServer(t) ==
  /\ pc[t] = "make" /\ made < MaxServers
  /\ made' = made + 1
  /\ Replace(made')
  /\ object' = [Destroyed EXCEPT ![made'] = "made"]
  /\ Goto(t, "bind")
  /\ UNCHANGED <<life, devRunning, devThread, devServer, serves, mirrorVars, raced>>

\* The socket, or another process has the port: the object is thrown away.
BindServer(t) ==
  /\ pc[t] = "bind"
  /\ \/ srv = 0 /\ fault' = "dangling" /\ UNCHANGED <<srv, object>> /\ Goto(t, "idle")
     \/ /\ srv # 0 /\ Goto(t, "flag")
        /\ object' = [object EXCEPT ![srv] = "bound"]
        /\ UNCHANGED <<srv, fault>>
     \/ srv # 0 /\ Goto(t, "idle") /\ Replace(0) /\ object' = Destroyed
  /\ UNCHANGED <<life, made, devRunning, devThread, devServer, serves, mirrorVars, raced>>

RaiseRunning(t) ==
  /\ pc[t] = "flag"
  /\ devRunning' = TRUE
  /\ Goto(t, "spawn")
  /\ UNCHANGED <<life, made, object, srv, devThread, devServer, serves, mirrorVars, fault, raced>>

\* Assigning to a joinable std::thread ends the process.
SpawnThread(t) ==
  /\ pc[t] = "spawn"
  /\ IF devThread = 0
       THEN \E k \in Objects :
              /\ devServer[k] = "none" /\ \A j \in Objects : j < k => devServer[j] # "none"
              /\ devThread' = k /\ devServer' = [devServer EXCEPT ![k] = "start"]
              /\ UNCHANGED fault
       ELSE fault' = "terminate" /\ UNCHANGED <<devThread, devServer>>
  /\ Goto(t, "idle")
  /\ UNCHANGED <<life, made, object, srv, devRunning, serves, mirrorVars, raced>>

Start(t) ==
  StartCheck(t) \/ MakeServer(t) \/ BindServer(t) \/ RaiseRunning(t) \/ SpawnThread(t)

-----------------------------------------------------------------------------
(* The devtools server thread                                              *)

\* g_srv->listen_after_bind(): g_srv is read now, not when the thread was spawned.
DevtoolsListen(k) ==
  /\ devServer[k] = "start"
  /\ IF srv = 0
       THEN fault' = "dangling" /\ UNCHANGED <<devServer, serves, object>>
       ELSE /\ serves' = [serves EXCEPT ![k] = srv]
            /\ object' = [object EXCEPT ![srv] = IF @ = "bound" THEN "listening" ELSE @]
            /\ devServer' = [devServer EXCEPT ![k] =
                            IF object[srv] \in {"bound", "listening"} THEN "accept" ELSE "clear"]
            /\ UNCHANGED fault
  /\ UNCHANGED <<life, pc, made, srv, devRunning, devThread, mirrorVars, raced>>

ListenEnds(k) ==
  /\ devServer[k] = "accept" /\ object[serves[k]] = "closing"
  /\ object' = [object EXCEPT ![serves[k]] = "closed"]
  /\ devServer' = [devServer EXCEPT ![k] = "clear"]
  /\ UNCHANGED <<life, pc, made, srv, devRunning, devThread, serves, mirrorVars, fault, raced>>

ClearRunning(k) ==
  /\ devServer[k] = "clear"
  /\ devRunning' = FALSE
  /\ devServer' = [devServer EXCEPT ![k] = "done"]
  /\ UNCHANGED <<life, pc, made, object, srv, devThread, serves, mirrorVars, fault, raced>>

ServerThread(k) == DevtoolsListen(k) \/ ListenEnds(k) \/ ClearRunning(k)

-----------------------------------------------------------------------------
(* The mirror                                                              *)

\* boardghost_mirror_start(): nothing if switched off or the port is taken, and on a LAN
\* bind an mDNS child.
MirrorStart ==
  /\ life = "mirror"
  /\ life' = "live"
  /\ \/ UNCHANGED <<mirror, advert>>
     \/ mirror' = "bound" /\ advert' \in {"none", "up"}
  /\ UNCHANGED <<pc, devVars, viewer, fault, raced>>

MirrorListen ==
  /\ mirror = "bound"
  /\ mirror' = "listening"
  /\ UNCHANGED <<life, pc, devVars, advert, viewer, fault, raced>>

ViewerConnects(v) ==
  /\ mirror = "listening" /\ viewer[v] = "none"
  /\ viewer' = [viewer EXCEPT ![v] = "waiting"]
  /\ UNCHANGED <<life, pc, devVars, mirror, advert, fault, raced>>

\* A turn of the content provider: sleep for a period, then capture the panel.
ViewerReads(v) ==
  /\ viewer[v] = "waiting"
  /\ viewer' = [viewer EXCEPT ![v] = "reading"]
  /\ UNCHANGED <<life, pc, devVars, mirror, advert, fault, raced>>

\* The part is sent; the stream goes on, or ends because the client is gone, the handler
\* had one frame to send, or the server is closing.
ViewerSends(v) ==
  /\ viewer[v] = "reading"
  /\ viewer' \in {[viewer EXCEPT ![v] = "over"]}
       \cup (IF mirror = "listening" THEN {[viewer EXCEPT ![v] = "waiting"]} ELSE {})
  /\ UNCHANGED <<life, pc, devVars, mirror, advert, fault, raced>>

\* The accept loop has ended and the pool has finished every request.
MirrorEnds ==
  /\ mirror = "closing" /\ \A v \in Viewers : viewer[v] \in {"none", "over"}
  /\ mirror' = "done"
  /\ UNCHANGED <<life, pc, devVars, advert, viewer, fault, raced>>

-----------------------------------------------------------------------------
(* The main thread                                                         *)

\* sim_runtime_init() goes on to the mirror when devtools has been seen to.
DevtoolsStarted ==
  /\ life = "init" /\ pc["main"] = "idle"
  /\ life' = "mirror"
  /\ UNCHANGED <<pc, devVars, mirrorVars, fault, raced>>

\* main() leaves its loop, or the sketch calls exit(): from setup() on.
Exit ==
  /\ life = "live" /\ pc["main"] = "idle"
  /\ life' = "mstop"
  /\ UNCHANGED <<pc, devVars, mirrorVars, fault, raced>>

\* Mutant of MirrorStop: the server is left to the process's end.
MirrorStop_Forgotten ==
  /\ life = "mstop"
  /\ life' = "mjoin"
  /\ advert' = IF advert = "up" THEN "signalled" ELSE advert
  /\ UNCHANGED <<pc, devVars, mirror, viewer, fault, raced>>

\* The mDNS child is signalled and waited for a little; stop() closes a listening server.
MirrorStop ==
  /\ life = "mstop"
  /\ life' = "mjoin"
  /\ advert' = IF advert = "up" THEN "signalled" ELSE advert
  /\ mirror' = IF mirror = "listening" THEN "closing" ELSE mirror
  /\ UNCHANGED <<pc, devVars, viewer, fault, raced>>

\* Mutant of MirrorJoin: the thread is detached instead of joined.
MirrorJoin_Detached ==
  /\ life = "mjoin"
  /\ life' = "dstop"
  /\ UNCHANGED <<pc, devVars, mirrorVars, fault, raced>>

MirrorJoin ==
  /\ life = "mjoin" /\ mirror \in {"none", "done"}
  /\ life' = "dstop" /\ mirror' = "none"
  /\ UNCHANGED <<pc, devVars, advert, viewer, fault, raced>>

DevtoolsStop ==
  /\ life = "dstop"
  /\ life' = "djoin"
  /\ object' = IF srv # 0 /\ object[srv] = "listening"
                 THEN [object EXCEPT ![srv] = "closing"] ELSE object
  /\ raced' = (raced \/ Starting # {})
  /\ UNCHANGED <<pc, made, srv, devRunning, devThread, devServer, serves, mirrorVars, fault>>

DevtoolsJoin ==
  /\ life = "djoin"
  /\ devThread # 0 => devServer[devThread] = "done"
  /\ life' = "dreset" /\ devThread' = 0
  /\ UNCHANGED <<pc, made, object, srv, devRunning, devServer, serves, mirrorVars, fault, raced>>

DevtoolsReset ==
  /\ life = "dreset"
  /\ life' = "close"
  /\ Replace(0) /\ object' = Destroyed /\ devRunning' = FALSE
  /\ UNCHANGED <<pc, made, devThread, devServer, serves, mirrorVars, raced>>

\* Panel_sdl::close() and SDL_Quit().
ClosePanel ==
  /\ life = "close"
  /\ life' = "static"
  /\ UNCHANGED <<pc, devVars, mirrorVars, fault, raced>>

\* ~thread() of a joinable thread ends the process before g_srv is destroyed.
StaticDestructors ==
  /\ life = "static"
  /\ life' = "ended"
  /\ IF devThread # 0
       THEN fault' = "terminate" /\ UNCHANGED <<srv, object>>
       ELSE Replace(0) /\ object' = Destroyed
  /\ UNCHANGED <<pc, made, devRunning, devThread, devServer, serves, mirrorVars, raced>>

Shutdown ==
  \/ MirrorStop \/ MirrorJoin \/ DevtoolsStop \/ DevtoolsJoin \/ DevtoolsReset
  \/ ClosePanel \/ StaticDestructors

-----------------------------------------------------------------------------
Background ==
  \/ \E k \in Objects : ServerThread(k)
  \/ MirrorListen \/ MirrorEnds
  \/ \E v \in Viewers : ViewerConnects(v) \/ ViewerReads(v) \/ ViewerSends(v)

\* Nothing moves once the process has ended or crashed.
NextSurfaces ==
  /\ life # "ended" /\ fault = "none"
  /\ \/ \E t \in Threads : WriteUart1(t) \/ Start(t)
     \/ DevtoolsStarted \/ MirrorStart \/ Exit \/ Shutdown
     \/ Background

SpecSurfaces == InitSurfaces /\ [][NextSurfaces]_surfaceVars

Live(A) == life # "ended" /\ fault = "none" /\ A

\* Every thread runs, and a stream's sleeps end; tasks and the end of the sketch are the
\* sketch's own choice.
FairSurfaces ==
  /\ WF_surfaceVars(Live(Start("main"))) /\ WF_surfaceVars(Live(DevtoolsStarted \/ MirrorStart))
  /\ WF_surfaceVars(Live(Shutdown)) /\ WF_surfaceVars(Live(MirrorListen \/ MirrorEnds))
  /\ \A k \in Objects : WF_surfaceVars(Live(ServerThread(k)))
  /\ \A v \in Viewers : WF_surfaceVars(Live(ViewerReads(v) \/ ViewerSends(v)))

FairSpecSurfaces == SpecSurfaces /\ FairSurfaces

-----------------------------------------------------------------------------
(* Properties                                                              *)

\* Every variable holds a value of its type; g_srv never holds a destroyed object.
SurfacesTypeOK ==
  /\ life \in {"init", "mirror", "live", "mstop", "mjoin", "dstop", "djoin", "dreset",
                "close", "static", "ended"}
  /\ pc \in [Threads -> {"idle", "check", "make", "bind", "flag", "spawn"}]
  /\ made \in 0 .. MaxServers /\ srv \in 0 .. made /\ devThread \in 0 .. MaxServers
  /\ object \in [Objects -> {"none", "made", "bound", "listening", "closing", "closed", "gone"}]
  /\ devServer \in [Objects -> {"none", "start", "accept", "clear", "done"}]
  /\ serves \in [Objects -> 0 .. MaxServers]
  /\ mirror \in {"none", "bound", "listening", "closing", "done"}
  /\ advert \in {"none", "up", "signalled"}
  /\ viewer \in [Viewers -> {"none", "waiting", "reading", "over"}]
  /\ devRunning \in BOOLEAN /\ raced \in BOOLEAN
  /\ fault \in {"none", "terminate", "dangling"}
  /\ srv # 0 => object[srv] # "gone"

\* Used from one thread at a time and not after the shutdown, start and stop are
\* idempotent as sim_devtools.h says: whatever fails to bind, no joinable thread is
\* overwritten or left for the static destructors, and no server dies while it is used.
SequentialUseIsSafe == ~raced => fault = "none"

\* When the panel is closed no request is reading it: both servers are joined first.
HandlersGoneBeforePanel ==
  life \in {"static", "ended"} => \A v \in Viewers : viewer[v] # "reading"

\* Sequential start and stop of the HTTP servers are fault-free, no request outlives the
\* panel it reads, and every variable keeps its type.
SurfacesInv == SurfacesTypeOK /\ SequentialUseIsSafe /\ HandlersGoneBeforePanel

\* If the servers' threads are in their accept loops when the sketch exits, the process
\* ends, whatever streams are being watched.
ExitEndsOnceListening ==
  (/\ life = "mstop" /\ mirror # "bound" /\ Starting = {}
   /\ \A k \in Objects : devServer[k] # "start")
     ~> (life = "ended" \/ raced)

\* "exit() runs atexit handlers BEFORE static destructors, so joining here is enough"
\* (sim_runtime.cpp lines 158-159): a sketch that exits ends.
ExitEnds == (life = "mstop") ~> (life = "ended")
=============================================================================
