-------------------------------- MODULE Mdns --------------------------------
(***************************************************************************)
(* What the sketch announces by mDNS (runtime/src/sim_mdns.cpp, and        *)
(* sim_mirror_mdns.cpp for the mirror): one avahi-publish process for each *)
(* record, forked by a thread of the sketch and stopped by SIGTERM.        *)
(* BOARDGHOST_MDNS=off, which makes every call return at once, is left     *)
(* out.                                                                    *)
(*                                                                         *)
(* External: until it has called execvp(), a forked process has the        *)
(* sketch's handler of SIGTERM, and that is SDL's, which ignores the       *)
(* signal in a process that polls no events; a process whose parent has    *)
(* died has init for its parent, or a subreaper if there is one; avahi may *)
(* be missing or end at any time.                                          *)
(***************************************************************************)
EXTENDS Naturals

CONSTANTS
  MaxForks   \* bound on the processes that are forked

ASSUME MdnsAssumption == MaxForks \in Nat

\* Processes, numbered as they are forked; no process.
Pids == 1 .. MaxForks
None == 0

VARIABLES
  up,        \* the sketch's process lives
  toInit,    \* orphans go to init, not to a subreaper: settled when the sketch dies
  forker,    \* a FreeRTOS task that also adds services is alive
  children,  \* children_
  mirror,    \* g_mdns_pid
  call,      \* the sketch thread: in sim_runtime_init() ("init"), "run", or in "begin",
             \* "ota", "end", "mirror" (the shutdown), "exit" (the destructor), all of which
             \* stop processes first
  todo,      \* the processes that the call has still to signal
  waiting,   \* the one it is waiting for
  kid,       \* each process: "none", "forked", "armed", "publishing", "dying", "zombie", "gone"
  parent     \* the thread that forked it: "loop" or "task"

ofSketch == <<toInit, forker, mirror>>
mdnsVars == <<up, ofSketch, children, call, todo, waiting, kid, parent>>

InitMdns ==
  /\ up = TRUE /\ toInit = TRUE /\ forker = TRUE
  /\ children = {} /\ mirror = None
  /\ call = "init" /\ todo = {} /\ waiting = None
  /\ kid = [p \in Pids |-> "none"] /\ parent = [p \in Pids |-> "loop"]

Fresh(p) == kid[p] = "none" /\ \A q \in Pids : q < p => kid[q] # "none"

Forked(ps, t) ==
  /\ kid' = [p \in Pids |-> IF p \in ps THEN "forked" ELSE kid[p]]
  /\ parent' = [p \in Pids |-> IF p \in ps THEN t ELSE parent[p]]

\* spawn() up to n times in a row; fork() may fail.
Spawn(old, n, t) ==
  \/ \E p, q \in Pids :
       /\ Fresh(p) /\ p <= q /\ q < p + n
       /\ Forked(p .. q, t) /\ children' = old \cup (p .. q)
  \/ children' = old /\ UNCHANGED <<kid, parent>>

-----------------------------------------------------------------------------
(* The sketch                                                              *)

\* sim_runtime_init() comes to the mirror, which is announced if it is open to the LAN.
MirrorAdvertise ==
  /\ up /\ call = "init"
  /\ call' = "run"
  /\ \/ \E p \in Pids : Fresh(p) /\ Forked({p}, "loop") /\ mirror' = p
     \/ UNCHANGED <<mirror, kid, parent>>
  /\ UNCHANGED <<up, toInit, forker, children, todo, waiting>>

\* addService(), from the sketch thread or from a task, which also runs on while the
\* shutdown stops the mirror.
AddService(t) ==
  /\ up /\ (call = "run" \/ (call = "mirror" /\ t = "task"))
  /\ t = "task" => forker
  /\ Spawn(children, 1, t)
  /\ UNCHANGED <<up, ofSketch, call, todo, waiting>>

\* begin(), ArduinoOTA.begin() and end() start with end().
EndStarts(c) ==
  /\ up /\ call = "run"
  /\ call' = c /\ todo' = children
  /\ UNCHANGED <<up, ofSketch, children, waiting, kid, parent>>

\* exit(): sim_runtime_shutdown() begins with the mirror's process, if there is one.
MirrorStop ==
  /\ up /\ call = "run"
  /\ call' = "mirror" /\ todo' = {mirror} \ {None}
  /\ UNCHANGED <<up, ofSketch, children, waiting, kid, parent>>

\* A process hears SIGTERM when it runs avahi; before that SDL's handler swallows it.
Signalled(k) == IF k = "publishing" THEN "dying" ELSE k

Kill(p) ==
  /\ up /\ waiting = None /\ p \in todo /\ \A q \in todo : p <= q
  /\ kid' = [kid EXCEPT ![p] = Signalled(@)]
  /\ todo' = todo \ {p} /\ waiting' = p
  /\ UNCHANGED <<up, ofSketch, children, call, parent>>

ReapKid(p) ==
  /\ up /\ waiting = p /\ kid[p] = "zombie"
  /\ kid' = [kid EXCEPT ![p] = "gone"] /\ waiting' = None
  /\ UNCHANGED <<up, ofSketch, children, call, todo, parent>>

\* Ten times 10 ms have passed.
GiveUp(p) ==
  /\ up /\ waiting = p
  /\ waiting' = None
  /\ UNCHANGED <<up, ofSketch, children, call, todo, kid, parent>>

Stopped == up /\ call # "run" /\ todo = {} /\ waiting = None

\* Mutant of Emptied: the processes that were stopped stay in the list.
Emptied_Kept == children

\* children_.clear().
Emptied == {}

EndReturns ==
  /\ Stopped /\ call = "end"
  /\ children' = Emptied /\ call' = "run"
  /\ UNCHANGED <<up, toInit, forker, mirror, todo, waiting, kid, parent>>

\* begin() goes on with an A record, if the host has a name and an address; ArduinoOTA's
\* with its own service as well.
BeginReturns ==
  /\ Stopped /\ call \in {"begin", "ota"}
  /\ call' = "run"
  /\ Spawn(Emptied, IF call = "ota" THEN 2 ELSE 1, "loop")
  /\ UNCHANGED <<up, toInit, forker, mirror, todo, waiting>>

\* The shutdown goes on, and the destructor starts with end(); the process ends after it
\* (SketchDies).
MirrorStopped ==
  /\ Stopped /\ call = "mirror"
  /\ mirror' = None /\ call' = "exit" /\ todo' = children
  /\ UNCHANGED <<up, toInit, forker, children, waiting, kid, parent>>

\* A thread's end signals what it forked, once that has called prctl(): also when a task
\* deletes itself and the program goes on.
TaskEnds ==
  /\ up /\ forker
  /\ forker' = FALSE
  /\ kid' = [p \in Pids |-> IF parent[p] = "task" THEN Signalled(kid[p]) ELSE kid[p]]
  /\ UNCHANGED <<up, toInit, mirror, children, call, todo, waiting, parent>>

\* exit() after the destructor, or a crash or SIGKILL at any time: with the process goes
\* its memory, and init waits for what has ended.
SketchDies ==
  /\ up
  /\ up' = FALSE /\ toInit' \in BOOLEAN /\ forker' = FALSE
  /\ children' = {} /\ mirror' = None /\ call' = "run" /\ todo' = {} /\ waiting' = None
  /\ kid' = [p \in Pids |-> IF kid[p] = "zombie" THEN "gone" ELSE Signalled(kid[p])]
  /\ parent' = [p \in Pids |-> "loop"]

-----------------------------------------------------------------------------
(* A forked process                                                        *)

\* Mutant of Orphaned: nothing is tested after prctl().
Orphaned_Untested == FALSE

\* getppid() == 1, asked after prctl().
Orphaned == ~up /\ toInit

Arm(p) ==
  /\ kid[p] = "forked"
  /\ kid' = [kid EXCEPT ![p] = IF Orphaned THEN "gone" ELSE "armed"]
  /\ UNCHANGED <<up, ofSketch, children, call, todo, waiting, parent>>

Exec(p) ==
  /\ kid[p] = "armed"
  /\ kid' = [kid EXCEPT ![p] = "publishing"]
  /\ UNCHANGED <<up, ofSketch, children, call, todo, waiting, parent>>

\* avahi-publish ends: on SIGTERM, because there is no daemon, or by _exit(127).
KidEnds(p) ==
  /\ kid[p] \in {"armed", "publishing", "dying"}
  /\ kid' = [kid EXCEPT ![p] = IF up THEN "zombie" ELSE "gone"]
  /\ UNCHANGED <<up, ofSketch, children, call, todo, waiting, parent>>

KidRuns(p) == Arm(p) \/ Exec(p) \/ (kid[p] = "dying" /\ KidEnds(p))
Goes == (\E p \in Pids : Kill(p) \/ GiveUp(p)) \/ EndReturns \/ BeginReturns
        \/ MirrorStopped \/ (Stopped /\ call = "exit" /\ SketchDies)

NextMdns ==
  \/ \E t \in {"loop", "task"} : AddService(t)
  \/ \E c \in {"begin", "ota", "end"} : EndStarts(c)
  \/ MirrorStop \/ MirrorAdvertise \/ EndReturns \/ BeginReturns \/ MirrorStopped
  \/ TaskEnds \/ SketchDies
  \/ \E p \in Pids : Kill(p) \/ ReapKid(p) \/ GiveUp(p) \/ Arm(p) \/ Exec(p) \/ KidEnds(p)

\* Every process and the sketch thread run, a shutdown included whose joins are taken to
\* return; avahi-publish ends on SIGTERM.
FairMdns == WF_mdnsVars(Goes) /\ \A p \in Pids : WF_mdnsVars(KidRuns(p))

SpecMdns == InitMdns /\ [][NextMdns]_mdnsVars /\ FairMdns

-----------------------------------------------------------------------------
(* Properties                                                              *)

MdnsTypeOK ==
  /\ up \in BOOLEAN /\ toInit \in BOOLEAN /\ forker \in BOOLEAN
  /\ children \subseteq Pids /\ mirror \in Pids \cup {None}
  /\ call \in {"init", "run", "begin", "ota", "end", "mirror", "exit"}
  /\ todo \subseteq Pids /\ waiting \in Pids \cup {None}
  /\ kid \in [Pids -> {"none", "forked", "armed", "publishing", "dying", "zombie", "gone"}]
  /\ parent \in [Pids -> {"loop", "task"}]

\* While the sketch lives, a process that it signals, now or in a later call, is one of
\* its own that it has not waited for: its number cannot be another program's by now.
KillsOnlyOwn ==
  /\ MdnsTypeOK
  /\ up => \A p \in todo : kid[p] \notin {"none", "gone"}
  /\ up /\ call = "run" =>
       \A p \in children \cup ({mirror} \ {None}) : kid[p] \notin {"none", "gone"}

\* An announcement does not outlive the sketch, however it dies: prctl() sees to it, and
\* getppid() between fork() and prctl().  Not where orphans go to a subreaper, nor for a
\* process that was then between prctl() and execvp().
AdvertDiesWithSketch ==
  (~up /\ toInit /\ \A p \in Pids : kid[p] \notin {"armed", "publishing"}) ~>
    (\A p \in Pids : kid[p] \in {"none", "zombie", "gone"})

\* What no later end() will signal; the mirror's process is stopped by the shutdown only.
Dropped(p) == up /\ call = "run" /\ p \notin children /\ p # mirror

\* "On end() / destructor we SIGTERM all children so the announcement is withdrawn cleanly"
\* (sim_mdns.cpp lines 6-7): a process that end() is done with does not announce for good.
EndWithdraws ==
  \A p \in Pids : (Dropped(p) /\ kid[p] # "none") ~> (kid[p] \notin {"publishing"} \/ ~up)
=============================================================================
