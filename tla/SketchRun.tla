----------------------------- MODULE SketchRun -----------------------------
(***************************************************************************)
(* `boardghost run --screenshot` (crates/boardghost-cli/src/run.rs) and    *)
(* the life of the sketch process it starts (runtime/src/sim_runtime.cpp,  *)
(* sim_main.cpp).  Five things move on their own: the CLI's main thread,   *)
(* which waits for the child; its screenshot thread, which signals it; the *)
(* sketch's main thread; its screenshot watcher thread; and whoever else   *)
(* sends the sketch a signal or closes its window.                         *)
(*                                                                         *)
(* Delays are not timed: a sleep ends at any moment, a deadline passes at  *)
(* any moment.  SIGTERM is external: SDL may have put a handler of its own *)
(* in place that turns it into an SDL_QUIT event, or it kills.             *)
(***************************************************************************)
EXTENDS Naturals

CONSTANT MaxUsr1      \* bound on the SIGUSR1 that others send

ASSUME RunAssumption == MaxUsr1 \in Nat

VARIABLES
  cli,        \* exec_sketch: "wait", "store", "join", "returned"
  childDone,  \* the flag the two CLI threads share
  shot,       \* the screenshot thread: "settle", "usr1", "look", "grace", "term", "done"
  child,      \* the sketch: "boot", "live", "exiting", "hung" in a join, "zombie", "reaped"
  servers,    \* the mirror's and devtools' servers accept, or there are none
  stuck,      \* setup() or loop() never returns to main()
  pending,    \* an SDL_QUIT that nothing has pumped yet
  quit,       \* g_should_quit
  requested,  \* g_screenshot_requested
  display,    \* g_active_display is set
  watcher,    \* "off", "idle", "await", "capture", "write", "gone"
  file,       \* the PNG: "absent", "stale" from an earlier run, "partial", "complete"
  usr1s,      \* SIGUSR1 sent by others so far
  unserved    \* history: a request was taken by the handler after the last capture began

cliVars == <<cli, childDone, shot>>
sketchVars == <<child, servers, stuck, pending, quit, display>>
watchVars == <<requested, watcher, file, unserved>>
vars == <<cliVars, sketchVars, watchVars, usr1s>>

Init ==
  /\ cli = "wait" /\ childDone = FALSE /\ shot = "settle"
  /\ child = "boot" /\ servers = FALSE /\ stuck \in BOOLEAN /\ pending = FALSE /\ quit = FALSE
  /\ display = FALSE
  /\ requested = FALSE /\ watcher = "off" /\ file \in {"absent", "stale"}
  /\ unserved = FALSE /\ usr1s = 0

Handling == child \in {"live", "exiting", "hung"}
Alive == child = "boot" \/ Handling

\* The process is gone, its threads with it.
Dies == child' = "zombie" /\ watcher' = "off"

-----------------------------------------------------------------------------
(* The sketch's main thread                                                *)

\* sim_runtime_init(): from here on SIGUSR1 has a handler, the watcher runs, and the
\* servers have their threads, unless they are switched off.
RuntimeInit ==
  /\ child = "boot"
  /\ child' = "live" /\ watcher' = "idle" /\ servers' \in BOOLEAN
  /\ UNCHANGED <<cliVars, stuck, pending, quit, display, requested, file, unserved, usr1s>>

RegisterDisplay ==
  /\ child = "live" /\ ~display
  /\ display' = TRUE
  /\ UNCHANGED <<cliVars, child, servers, stuck, pending, quit, watchVars, usr1s>>

\* sim_pump_events(), from main()'s loop or from delay(): the event watch sets the flag.
Pump ==
  /\ child = "live" /\ pending
  /\ pending' = FALSE /\ quit' = TRUE
  /\ UNCHANGED <<cliVars, child, servers, stuck, display, watchVars, usr1s>>

\* The threads come to their accept loops, sooner or later.
ServersListen ==
  /\ child = "live" /\ ~servers
  /\ servers' = TRUE
  /\ UNCHANGED <<cliVars, child, stuck, pending, quit, display, watchVars, usr1s>>

\* main() leaves its loop on g_should_quit, or the sketch calls exit(): in both cases
\* sim_runtime_shutdown() runs before the process ends.  It stops the servers and joins
\* their threads; a stop() that comes before the accept loop has no effect (HttpSurfaces),
\* and then the join never returns.
Exit ==
  /\ child = "live" /\ ~stuck
  /\ child' = IF servers THEN "exiting" ELSE "hung"
  /\ UNCHANGED <<cliVars, servers, stuck, pending, quit, display, watchVars, usr1s>>

ShutdownDone ==
  /\ child = "exiting"
  /\ Dies
  /\ UNCHANGED <<cliVars, servers, stuck, pending, quit, display, requested, file, unserved, usr1s>>

CloseWindow ==
  /\ child = "live" /\ ~pending /\ ~quit
  /\ pending' = TRUE
  /\ UNCHANGED <<cliVars, child, servers, stuck, quit, display, watchVars, usr1s>>

-----------------------------------------------------------------------------
(* The screenshot watcher                                                  *)

WatcherTake ==
  /\ watcher = "idle" /\ ~quit /\ requested
  /\ requested' = FALSE /\ watcher' = "await"
  /\ UNCHANGED <<cliVars, sketchVars, file, unserved, usr1s>>

WatcherQuits ==
  /\ watcher = "idle" /\ quit
  /\ watcher' = "gone"
  /\ UNCHANGED <<cliVars, sketchVars, requested, file, unserved, usr1s>>

\* The frame is taken from the panel, or no panel shows up within five seconds.
WatcherCapture ==
  /\ watcher = "await"
  /\ watcher' = IF display THEN "capture" ELSE "idle"
  /\ unserved' = requested
  /\ UNCHANGED <<cliVars, sketchVars, requested, file, usr1s>>

WatcherOpens ==
  /\ watcher = "capture"
  /\ watcher' = "write" /\ file' = "partial"
  /\ UNCHANGED <<cliVars, sketchVars, requested, unserved, usr1s>>

\* Mutant of WatcherWritten: the flag is cleared after the capture it asked for.
WatcherWritten_Clears ==
  /\ watcher = "write"
  /\ watcher' = "idle" /\ file' = "complete" /\ requested' = FALSE
  /\ UNCHANGED <<cliVars, sketchVars, unserved, usr1s>>

WatcherWritten ==
  /\ watcher = "write"
  /\ watcher' = "idle" /\ file' = "complete"
  /\ UNCHANGED <<cliVars, sketchVars, requested, unserved, usr1s>>

-----------------------------------------------------------------------------
(* Signals                                                                 *)

\* Default action before the handler is installed, the handler after.
Usr1 ==
  \/ child = "boot" /\ Dies /\ UNCHANGED <<requested, unserved>>
  \/ /\ Handling
     /\ requested' = TRUE /\ unserved' = TRUE
     /\ UNCHANGED <<child, watcher>>
  \/ ~Alive /\ UNCHANGED <<child, watcher, requested, unserved>>

Term ==
  \/ Alive /\ Dies /\ UNCHANGED pending
  \/ Handling /\ pending' = TRUE /\ UNCHANGED <<child, watcher>>
  \/ ~Alive /\ UNCHANGED <<child, watcher, pending>>

OthersSendUsr1 ==
  /\ Alive /\ usr1s < MaxUsr1
  /\ usr1s' = usr1s + 1
  /\ Usr1
  /\ UNCHANGED <<cliVars, servers, stuck, pending, quit, display, file>>

-----------------------------------------------------------------------------
(* exec_sketch: the screenshot thread                                      *)

ShotSettled ==
  /\ shot = "settle"
  /\ shot' = IF childDone THEN "done" ELSE "usr1"
  /\ UNCHANGED <<cli, childDone, sketchVars, watchVars, usr1s>>

ShotUsr1 ==
  /\ shot = "usr1"
  /\ shot' = "look"
  /\ Usr1
  /\ UNCHANGED <<cli, childDone, servers, stuck, pending, quit, display, file, usr1s>>

\* The file exists, the child has finished, or five seconds are over.
ShotLook ==
  /\ shot = "look"
  /\ shot' = "grace"
  /\ UNCHANGED <<cli, childDone, sketchVars, watchVars, usr1s>>

\* Mutant of ShotGrace: the thread returns without forcing a sketch that still runs.
ShotGrace_NoForce ==
  /\ shot = "grace"
  /\ shot' = "done"
  /\ UNCHANGED <<cli, childDone, sketchVars, watchVars, usr1s>>

ShotGrace ==
  /\ shot = "grace"
  /\ shot' \in IF childDone THEN {"done"} ELSE {"grace", "term"}
  /\ UNCHANGED <<cli, childDone, sketchVars, watchVars, usr1s>>

ShotTerm ==
  /\ shot = "term"
  /\ shot' = "done"
  /\ Term
  /\ UNCHANGED <<cli, childDone, servers, stuck, quit, display, requested, file, unserved, usr1s>>

-----------------------------------------------------------------------------
(* exec_sketch: the main thread                                            *)

\* child.wait() returns: the process id is free from here on.
Reap ==
  /\ cli = "wait" /\ child = "zombie"
  /\ cli' = "store" /\ child' = "reaped"
  /\ UNCHANGED <<childDone, shot, servers, stuck, pending, quit, display, watchVars, usr1s>>

StoreFinished ==
  /\ cli = "store"
  /\ childDone' = TRUE /\ cli' = "join"
  /\ UNCHANGED <<shot, sketchVars, watchVars, usr1s>>

JoinShot ==
  /\ cli = "join" /\ shot = "done"
  /\ cli' = "returned"
  /\ UNCHANGED <<childDone, shot, sketchVars, watchVars, usr1s>>

-----------------------------------------------------------------------------

Sketch == RuntimeInit \/ Pump \/ ShutdownDone
Watcher == WatcherTake \/ WatcherQuits \/ WatcherCapture \/ WatcherOpens \/ WatcherWritten
Shot == ShotSettled \/ ShotUsr1 \/ ShotLook \/ ShotGrace \/ ShotTerm
Main == Reap \/ StoreFinished \/ JoinShot
World == ServersListen \/ RegisterDisplay \/ CloseWindow \/ OthersSendUsr1

Next == Sketch \/ Exit \/ Watcher \/ Shot \/ Main \/ World

Spec == Init /\ [][Next]_vars

\* Threads run and deadlines pass; a main loop that sees g_should_quit ends.  Exit is
\* otherwise the sketch's own choice.
FairSpec ==
  /\ Spec
  /\ WF_vars(Sketch) /\ WF_vars(Watcher) /\ WF_vars(Shot) /\ WF_vars(Main)
  /\ SF_vars(ShotGrace /\ shot' # "grace")
  /\ WF_vars(Exit /\ quit)

-----------------------------------------------------------------------------
(* Properties                                                              *)

\* Every variable holds a value of its type.
RunTypeOK ==
  /\ {childDone, servers, stuck, pending, quit, requested, display, unserved}
       \subseteq BOOLEAN
  /\ cli \in {"wait", "store", "join", "returned"}
  /\ shot \in {"settle", "usr1", "look", "grace", "term", "done"}
  /\ child \in {"boot", "live", "exiting", "hung", "zombie", "reaped"}
  /\ watcher \in {"off", "idle", "await", "capture", "write", "gone"}
  /\ file \in {"absent", "stale", "partial", "complete"}
  /\ usr1s \in 0..MaxUsr1

\* A screenshot request that arrives while the watcher is busy with an earlier one is not
\* swallowed by it: until a capture that began after the signal, the flag is set or the
\* watcher is on its way to such a capture.
RequestKept == unserved /\ watcher # "off" => requested \/ watcher = "await"

\* A SIGUSR1 request survives a capture in progress (sim_screenshot.cpp), and every variable
\* keeps its type.
RunInv == RunTypeOK /\ RequestKept

\* `run --screenshot` ends, even for a sketch that would loop for ever, as long as its
\* loop() returns to main() and it does not leave before its servers accept, which hangs
\* it, deaf to SIGTERM, in a join: capture, grace, SIGTERM, reap, join.
RunReturns == ~stuck /\ [](child # "hung") => <>(cli = "returned")

=============================================================================
