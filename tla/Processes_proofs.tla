-------------------------- MODULE Processes_proofs ---------------------------
(***************************************************************************)
(* What holds between a sketch and the processes around it for every size: one *)
(* part for each module that ProcessesMC composes.  They share no variable, so *)
(* that each part is about the specification of its own module.            *)
(***************************************************************************)
EXTENDS Mdns, SketchRun, Launcher,
        TLAPS

------------------------------------------------------------------------------
(***************************************************************************)
(* KillsOnlyOwn is an invariant of Mdns for every number of processes.     *)
(* The strengthening says what a call has still to signal and what it      *)
(* leaves alone: end() goes through the list and not through the mirror's  *)
(* process, the mirror's stop through its own and not through the list.    *)
(***************************************************************************)

\* Processes that the sketch has not waited for.
Unreaped(ps) == \A p \in ps : kid[p] \notin {"none", "gone"}

Ending == {"begin", "ota", "end", "exit"}

\* What a call is about to signal or waits for.
Targets == todo \cup ({waiting} \ {None})

\* The processes there have been come before those there have not.
Numbered == \A p, q \in Pids : p < q /\ kid[p] = "none" => kid[q] = "none"

CallsOwn ==
  /\ mirror \notin children
  /\ mirror # None => kid[mirror] # "none"
  /\ up /\ call \in {"init", "run"} => Targets = {} /\ Unreaped(children \cup ({mirror} \ {None}))
  /\ up /\ call \in Ending =>
       /\ Targets \subseteq children
       /\ Unreaped({mirror} \ {None}) /\ Unreaped(todo)
  /\ up /\ call = "mirror" =>
       /\ Targets \subseteq {mirror}
       /\ Unreaped(children) /\ Unreaped(todo)
  /\ waiting \notin todo

MdnsInv == MdnsTypeOK /\ Numbered /\ CallsOwn

-----------------------------------------------------------------------------
LEMMA InitMdnsInv == InitMdns => MdnsInv
  BY MdnsAssumption
     DEF InitMdns, MdnsInv, MdnsTypeOK, Numbered, CallsOwn, Pids, None, Unreaped, Targets, Ending

\* A signal and a step of a forked process leave the states of processes that are.
Kids == {"none", "forked", "armed", "publishing", "dying", "zombie", "gone"}

LEMMA SignalledKid ==
  ASSUME NEW k \in Kids
  PROVE  /\ Signalled(k) \in Kids
         /\ Signalled(k) = "none" <=> k = "none"
         /\ Signalled(k) = "gone" <=> k = "gone"
  BY DEF Kids, Signalled

\* Processes that are forked are new.
LEMMA SpawnStep ==
  ASSUME MdnsTypeOK, Numbered, NEW old \in SUBSET Pids, NEW n \in Nat, NEW t \in {"loop", "task"},
         Spawn(old, n, t), UNCHANGED mirror,
         Unreaped(old), mirror # None => kid[mirror] # "none", mirror \notin old
  PROVE  /\ children' \subseteq Pids /\ kid' \in [Pids -> Kids]
         /\ parent' \in [Pids -> {"loop", "task"}]
         /\ Numbered' /\ mirror \notin children'
         /\ \A p \in children' : kid'[p] \notin {"none", "gone"}
         /\ \A p \in Pids : kid[p] # "none" => kid'[p] = kid[p]
  <1> USE DEF MdnsTypeOK, Kids
  <1>1. CASE children' = old /\ UNCHANGED <<kid, parent>>
    BY <1>1 DEF Unreaped, Numbered
  <1>2. ASSUME NEW p \in Pids, NEW q \in Pids, Fresh(p), p <= q,
               Forked(p .. q, t), children' = old \cup (p .. q)
        PROVE  children' \subseteq Pids /\ kid' \in [Pids -> Kids]
               /\ parent' \in [Pids -> {"loop", "task"}]
               /\ Numbered' /\ mirror \notin children'
               /\ (\A r \in children' : kid'[r] \notin {"none", "gone"})
               /\ \A r \in Pids : kid[r] # "none" => kid'[r] = kid[r]
    <2>1. p .. q \subseteq Pids
      BY MdnsAssumption DEF Pids
    <2>2. \A r \in p .. q : kid[r] = "none"
      BY <1>2, <2>1 DEF Fresh, Numbered, Pids
    <2>3. Numbered'
      <3> SUFFICES ASSUME NEW r \in Pids, NEW s \in Pids, r < s, kid'[r] = "none"
                   PROVE  kid'[s] = "none"
        BY DEF Numbered
      <3>1. r \notin p .. q /\ kid[r] = "none" /\ kid[s] = "none"
        BY <1>2 DEF Forked, Numbered
      <3>2. p < r
        BY <1>2, <3>1 DEF Fresh, Pids
      <3>3. s \notin p .. q
        BY <3>1, <3>2, MdnsAssumption DEF Pids
      <3> QED
        BY <1>2, <3>1, <3>3 DEF Forked
    <2>4. mirror \notin p .. q
      <3>1. CASE mirror = None
        BY <3>1, MdnsAssumption DEF None, Pids
      <3>2. CASE mirror \in Pids /\ mirror # None
        BY <2>2, <3>2
      <3> QED
        BY <3>1, <3>2
    <2>5. kid' \in [Pids -> Kids] /\ parent' \in [Pids -> {"loop", "task"}]
      BY <1>2 DEF Forked
    <2>6. ASSUME NEW r \in children'
          PROVE  kid'[r] \notin {"none", "gone"}
      <3>1. CASE r \in p .. q
        BY <1>2, <2>1, <3>1 DEF Forked
      <3>2. CASE r \notin p .. q
        BY <1>2, <3>2 DEF Forked, Unreaped
      <3> QED
        BY <3>1, <3>2
    <2>7. \A r \in Pids : kid[r] # "none" => kid'[r] = kid[r]
      BY <1>2, <2>2 DEF Forked
    <2> QED
      BY <1>2, <2>1, <2>3, <2>4, <2>5, <2>6, <2>7
  <1> QED
    BY <1>1, <1>2 DEF Spawn


\* Where signals go and processes run, none comes to be, and none is waited for.
LEMMA KidsLive ==
  ASSUME MdnsInv, UNCHANGED <<children, mirror, call, parent>>,
         kid' \in [Pids -> Kids],
         \A p \in Pids : (kid'[p] = "none") <=> (kid[p] = "none"),
         up' => up /\ \A p \in Pids : kid'[p] = "gone" => kid[p] = "gone"
  PROVE  /\ Numbered'
         /\ up' => \A p \in Pids : kid[p] \notin {"none", "gone"} => kid'[p] \notin {"none", "gone"}
  BY DEF MdnsInv, Numbered

LEMMA SignalKidStep ==
  ASSUME MdnsInv, TaskEnds \/ \E p \in Pids : Kill(p) \/ Arm(p) \/ Exec(p) \/ KidEnds(p)
  PROVE  MdnsInv'
  <1> USE DEF MdnsInv
  <1>1. CASE TaskEnds
    <2>1. kid' \in [Pids -> Kids] /\ UNCHANGED <<up, children, mirror, call, parent>>
      BY <1>1, SignalledKid DEF TaskEnds, MdnsTypeOK, Kids
    <2>2. \A p \in Pids : /\ (kid'[p] = "none") <=> (kid[p] = "none")
                          /\ kid'[p] = "gone" => kid[p] = "gone"
      BY <1>1, SignalledKid DEF TaskEnds, MdnsTypeOK, Kids
    <2>3. MdnsTypeOK'
      BY <1>1, <2>1 DEF TaskEnds, MdnsTypeOK, Kids
    <2>4. Numbered'
      BY <2>1, <2>2, KidsLive
    <2>5. CallsOwn'
      BY <1>1, <2>1, <2>2, KidsLive DEF TaskEnds, CallsOwn, Unreaped, Targets, MdnsTypeOK
    <2> QED
      BY <2>3, <2>4, <2>5
  <1>2. ASSUME NEW p \in Pids, Kill(p)
        PROVE  MdnsInv'
    <2>1. kid' \in [Pids -> Kids] /\ UNCHANGED <<up, children, mirror, call, parent>>
      BY <1>2, SignalledKid DEF Kill, MdnsTypeOK, Kids, ofSketch
    <2>2. \A q \in Pids : /\ (kid'[q] = "none") <=> (kid[q] = "none")
                          /\ kid'[q] = "gone" => kid[q] = "gone"
      BY <1>2, SignalledKid DEF Kill, MdnsTypeOK, Kids
    <2>3. MdnsTypeOK'
      BY <1>2, <2>1 DEF Kill, MdnsTypeOK, Kids, ofSketch
    <2>4. Numbered'
      BY <2>1, <2>2, KidsLive
    <2>5. Targets' \subseteq Targets /\ todo' \subseteq todo /\ waiting' \notin todo'
      BY <1>2 DEF Kill, Targets
    <2>6. CallsOwn'
      <3>1. call \notin {"init", "run"}
        BY <1>2 DEF Kill, CallsOwn, Targets
      <3> QED
        BY <1>2, <2>1, <2>2, <2>5, <3>1, KidsLive
           DEF Kill, CallsOwn, Unreaped, MdnsTypeOK, Ending
    <2> QED
      BY <2>3, <2>4, <2>6
  <1>3. ASSUME NEW p \in Pids, Arm(p) \/ Exec(p) \/ KidEnds(p)
        PROVE  MdnsInv'
    <2>1. kid' \in [Pids -> Kids] /\ UNCHANGED <<up, children, mirror, call, todo, waiting, parent>>
      BY <1>3 DEF Arm, Exec, KidEnds, MdnsTypeOK, Kids, ofSketch
    <2>2. \A q \in Pids : /\ (kid'[q] = "none") <=> (kid[q] = "none")
                          /\ up' => (kid'[q] = "gone" => kid[q] = "gone")
      BY <1>3 DEF Arm, Exec, KidEnds, Orphaned, MdnsTypeOK
    <2>3. MdnsTypeOK'
      BY <1>3, <2>1 DEF Arm, Exec, KidEnds, MdnsTypeOK, Kids, ofSketch
    <2>4. Numbered'
      BY <2>1, <2>2, KidsLive
    <2>5. CallsOwn'
      BY <2>1, <2>2, KidsLive DEF CallsOwn, Unreaped, Targets, MdnsTypeOK
    <2> QED
      BY <2>3, <2>4, <2>5
  <1> QED
    BY <1>1, <1>2, <1>3

\* Waiting for a process of the call's own makes its number free, and no other's.
LEMMA WaitStep ==
  ASSUME MdnsInv, NEW p \in Pids, ReapKid(p) \/ GiveUp(p)
  PROVE  MdnsInv'
  <1> USE DEF MdnsInv
  <1>1. p # None
    BY MdnsAssumption DEF Pids, None
  <1>2. CASE ReapKid(p)
    <2>1. MdnsTypeOK'
      BY <1>2 DEF ReapKid, MdnsTypeOK, ofSketch
    <2>2. Numbered'
      BY <1>2 DEF ReapKid, Numbered, MdnsTypeOK
    <2>3. CallsOwn'
      <3>1. call \notin {"init", "run"} /\ p \in Targets /\ p \notin todo
        BY <1>1, <1>2 DEF ReapKid, CallsOwn, Targets
      <3>2. \A q \in Pids : q # p => kid'[q] = kid[q]
        BY <1>2 DEF ReapKid, MdnsTypeOK
      <3>3. UNCHANGED <<up, children, mirror, call, todo>> /\ waiting' = None
        BY <1>2 DEF ReapKid, ofSketch
      <3>4. Targets' = todo /\ todo \subseteq Targets /\ None \notin todo
        BY <3>3, MdnsAssumption DEF Targets, MdnsTypeOK, Pids, None
      <3>5. CASE call \in Ending
        BY <3>1, <3>2, <3>3, <3>4, <3>5, <1>2
           DEF CallsOwn, Unreaped, MdnsTypeOK, Ending, ReapKid
      <3>6. CASE call = "mirror"
        BY <3>1, <3>2, <3>3, <3>4, <3>6, <1>2
           DEF CallsOwn, Unreaped, MdnsTypeOK, Ending, ReapKid
      <3> QED
        BY <3>1, <3>5, <3>6 DEF MdnsTypeOK, Ending
    <2> QED
      BY <2>1, <2>2, <2>3
  <1>3. CASE GiveUp(p)
    <2>1. MdnsTypeOK'
      BY <1>3 DEF GiveUp, MdnsTypeOK, ofSketch
    <2>2. Numbered'
      BY <1>3 DEF GiveUp, Numbered
    <2>3. CallsOwn'
      BY <1>1, <1>3, MdnsAssumption
         DEF GiveUp, CallsOwn, Targets, Unreaped, MdnsTypeOK, Pids, None, ofSketch
    <2> QED
      BY <2>1, <2>2, <2>3
  <1> QED
    BY <1>2, <1>3

\* The calls that stop processes first, as they start and as they return.
LEMMA StopAllStep ==
  ASSUME MdnsInv,
         (\E c \in Ending : EndStarts(c)) \/ MirrorStop \/ EndReturns \/ MirrorStopped
           \/ SketchDies
  PROVE  MdnsInv'
  <1> USE DEF MdnsInv
  <1>1. CASE \E c \in Ending : EndStarts(c)
    BY <1>1, MdnsAssumption
       DEF EndStarts, Ending, MdnsTypeOK, Numbered, CallsOwn, Targets, Unreaped, Pids, None, ofSketch
  <1>2. CASE MirrorStop
    BY <1>2, MdnsAssumption
       DEF MirrorStop, Ending, MdnsTypeOK, Numbered, CallsOwn, Targets, Unreaped, Pids, None, ofSketch
  <1>3. CASE EndReturns
    BY <1>3, MdnsAssumption
       DEF EndReturns, Stopped, Emptied, Ending, MdnsTypeOK, Numbered, CallsOwn, Targets, Unreaped,
           Pids, None
  <1>4. CASE MirrorStopped
    BY <1>4, MdnsAssumption
       DEF MirrorStopped, Stopped, Ending, MdnsTypeOK, Numbered, CallsOwn, Targets, Unreaped,
           Pids, None
  <1>5. CASE SketchDies
    <2>1. kid' \in [Pids -> Kids] /\ parent' \in [Pids -> {"loop", "task"}]
      BY <1>5, SignalledKid DEF SketchDies, MdnsTypeOK, Kids
    <2>2. Numbered'
      <3>1. \A p \in Pids : (kid'[p] = "none") <=> (kid[p] = "none")
        BY <1>5, SignalledKid DEF SketchDies, MdnsTypeOK, Kids
      <3> QED
        BY <3>1 DEF Numbered
    <2>3. MdnsTypeOK'
      BY <1>5, <2>1 DEF SketchDies, MdnsTypeOK, Kids
    <2>4. CallsOwn'
      BY <1>5, MdnsAssumption DEF SketchDies, CallsOwn, None, Pids
    <2> QED
      BY <2>2, <2>3, <2>4
  <1> QED
    BY <1>1, <1>2, <1>3, <1>4, <1>5

\* The calls that fork.
LEMMA ForkStep ==
  ASSUME MdnsInv,
         (\E t \in {"loop", "task"} : AddService(t)) \/ BeginReturns \/ MirrorAdvertise
  PROVE  MdnsInv'
  <1> USE DEF MdnsInv
  <1>1. ASSUME NEW t \in {"loop", "task"}, AddService(t)
        PROVE  MdnsInv'
    <2>1. /\ Spawn(children, 1, t) /\ UNCHANGED <<up, ofSketch, call, todo, waiting>>
          /\ up /\ call \in {"run", "mirror"}
      BY <1>1 DEF AddService
    <2>2. /\ Unreaped(children) /\ mirror \notin children /\ (mirror # None => kid[mirror] # "none")
          /\ children \in SUBSET Pids /\ UNCHANGED mirror
      BY <2>1 DEF CallsOwn, MdnsTypeOK, ofSketch, Unreaped
    <2>3. /\ children' \subseteq Pids /\ kid' \in [Pids -> Kids]
          /\ parent' \in [Pids -> {"loop", "task"}]
          /\ Numbered' /\ mirror \notin children'
          /\ (\A p \in children' : kid'[p] \notin {"none", "gone"})
          /\ \A p \in Pids : kid[p] # "none" => kid'[p] = kid[p]
      BY <2>1, <2>2, SpawnStep
    <2>4. MdnsTypeOK'
      BY <2>1, <2>3 DEF MdnsTypeOK, Kids, ofSketch
    <2>5. CASE call = "run"
      BY <2>1, <2>2, <2>3, <2>4, <2>5 DEF CallsOwn, Targets, Unreaped, Ending, MdnsTypeOK
    <2>6. CASE call = "mirror"
      BY <2>1, <2>2, <2>3, <2>4, <2>6 DEF CallsOwn, Targets, Unreaped, Ending, MdnsTypeOK
    <2> QED
      BY <2>1, <2>3, <2>4, <2>5, <2>6
  <1>2. CASE BeginReturns
    <2>1. /\ \E n \in {1, 2} : Spawn({}, n, "loop")
          /\ UNCHANGED <<up, toInit, forker, mirror, todo, waiting>>
          /\ up /\ call \in Ending /\ call' = "run" /\ todo = {} /\ waiting = None
      BY <1>2 DEF BeginReturns, Stopped, Emptied, Ending
    <2>2. /\ Unreaped({}) /\ Unreaped({mirror} \ {None}) /\ mirror \notin {}
          /\ (mirror # None => kid[mirror] # "none")
      BY <2>1 DEF CallsOwn, Unreaped
    <2>3. /\ children' \subseteq Pids /\ kid' \in [Pids -> Kids]
          /\ parent' \in [Pids -> {"loop", "task"}]
          /\ Numbered' /\ mirror \notin children'
          /\ (\A p \in children' : kid'[p] \notin {"none", "gone"})
          /\ \A p \in Pids : kid[p] # "none" => kid'[p] = kid[p]
      BY <2>1, <2>2, SpawnStep
    <2>4. MdnsTypeOK'
      BY <2>1, <2>3 DEF MdnsTypeOK, Kids
    <2>5. CallsOwn'
      BY <2>1, <2>2, <2>3, MdnsAssumption DEF CallsOwn, Targets, Unreaped, Ending, MdnsTypeOK
    <2> QED
      BY <2>3, <2>4, <2>5
  <1>3. CASE MirrorAdvertise
    <2>1. /\ UNCHANGED <<up, toInit, forker, children, todo, waiting>>
          /\ up /\ call = "init" /\ call' = "run"
      BY <1>3 DEF MirrorAdvertise
    <2>2. CASE UNCHANGED <<mirror, kid, parent>>
      BY <2>1, <2>2 DEF MdnsTypeOK, Numbered, CallsOwn, Targets, Unreaped, Ending
    <2>3. ASSUME NEW p \in Pids, Fresh(p), Forked({p}, "loop"), mirror' = p
          PROVE  MdnsInv'
      <3>1. MdnsTypeOK'
        BY <2>1, <2>3 DEF MdnsTypeOK, Forked
      <3>2. Numbered'
        BY <2>3, MdnsAssumption DEF Numbered, Fresh, Forked, Pids, MdnsTypeOK
      <3>3. p \notin children
        BY <2>1, <2>3 DEF CallsOwn, Unreaped, Fresh
      <3>4. CallsOwn'
        BY <2>1, <2>3, <3>3 DEF CallsOwn, Targets, Unreaped, Ending, Forked, MdnsTypeOK
      <3> QED
        BY <3>1, <3>2, <3>4
    <2> QED
      BY <1>3, <2>2, <2>3 DEF MirrorAdvertise
  <1> QED
    BY <1>1, <1>2, <1>3

LEMMA NextMdnsInv == MdnsInv /\ [NextMdns]_mdnsVars => MdnsInv'
  <1> SUFFICES ASSUME MdnsInv, [NextMdns]_mdnsVars PROVE MdnsInv'
    OBVIOUS
  <1>1. CASE NextMdns
    BY <1>1, SignalKidStep, WaitStep, StopAllStep, ForkStep DEF NextMdns, Ending
  <1>2. CASE UNCHANGED mdnsVars
    BY <1>2 DEF mdnsVars, ofSketch, MdnsInv, MdnsTypeOK, Numbered, CallsOwn, Targets, Unreaped
  <1> QED
    BY <1>1, <1>2

LEMMA MdnsInvShows == MdnsInv => KillsOnlyOwn
  BY DEF MdnsInv, KillsOnlyOwn, CallsOwn, Unreaped, Targets, MdnsTypeOK, Ending

\* While the sketch lives, what it signals are processes of its own that it has not waited
\* for (children_ of sim_mdns.cpp, g_mdns_pid of sim_mirror_mdns.cpp).
THEOREM MdnsKillsOnlyOwn == SpecMdns => []KillsOnlyOwn
  <1>1. SpecMdns => []MdnsInv
    BY InitMdnsInv, NextMdnsInv, PTL DEF SpecMdns
  <1> QED
    BY <1>1, MdnsInvShows, PTL

------------------------------------------------------------------------------
(***************************************************************************)
(* RunInv is an invariant of SketchRun, however many signals there are.    *)
(***************************************************************************)

\* No request is older than its handler, and no watcher.
BootUnasked == child = "boot" => ~unserved /\ watcher = "off"

Flags ==
  /\ childDone \in BOOLEAN /\ servers \in BOOLEAN /\ stuck \in BOOLEAN /\ pending \in BOOLEAN /\ quit \in BOOLEAN
  /\ requested \in BOOLEAN /\ display \in BOOLEAN /\ unserved \in BOOLEAN

Places ==
  /\ cli \in {"wait", "store", "join", "returned"}
  /\ shot \in {"settle", "usr1", "look", "grace", "term", "done"}
  /\ child \in {"boot", "live", "exiting", "hung", "zombie", "reaped"}
  /\ watcher \in {"off", "idle", "await", "capture", "write", "gone"}
  /\ file \in {"absent", "stale", "partial", "complete"}
  /\ usr1s \in 0..MaxUsr1

RunIInv == Flags /\ Places /\ RequestKept /\ BootUnasked

-----------------------------------------------------------------------------
LEMMA RunInit == Init => RunIInv
  <1> SUFFICES ASSUME Init PROVE RunIInv
    OBVIOUS
  <1>1. Flags
    BY DEF Init, Flags
  <1>2. Places
    BY RunAssumption DEF Init, Places
  <1>3. RequestKept /\ BootUnasked
    BY DEF Init, RequestKept, BootUnasked
  <1> QED
    BY <1>1, <1>2, <1>3 DEF RunIInv

\* What none of the sketch's own steps and none of the watcher's disturbs.
LEMMA SketchStep ==
  ASSUME RunIInv, Sketch \/ Exit \/ ServersListen \/ RegisterDisplay \/ CloseWindow
  PROVE  RunIInv'
  <1> USE DEF RunIInv, Sketch, RuntimeInit, ServersListen, RegisterDisplay, Pump, Exit, ShutdownDone,
              CloseWindow, Dies, cliVars, watchVars
  <1>1. Flags'
    BY DEF Flags
  <1>2. Places'
    BY DEF Places
  <1>3. RequestKept' /\ BootUnasked'
    BY DEF RequestKept, BootUnasked
  <1> QED
    BY <1>1, <1>2, <1>3

LEMMA WatcherStep ==
  ASSUME RunIInv, Watcher
  PROVE  RunIInv'
  <1> USE DEF RunIInv, Watcher, WatcherTake, WatcherQuits, WatcherCapture, WatcherOpens,
              WatcherWritten, cliVars, sketchVars
  <1>1. Flags'
    BY DEF Flags
  <1>2. Places'
    BY DEF Places
  <1>3. RequestKept' /\ BootUnasked'
    BY DEF RequestKept, BootUnasked
  <1> QED
    BY <1>1, <1>2, <1>3

\* The screenshot thread of `boardghost run`, when it sends no signal.
LEMMA ShotThreadStep ==
  ASSUME RunIInv, ShotSettled \/ ShotLook \/ ShotGrace
  PROVE  RunIInv'
  <1> USE DEF RunIInv, ShotSettled, ShotLook, ShotGrace, sketchVars, watchVars
  <1>1. Flags'
    BY DEF Flags
  <1>2. Places'
    BY RunAssumption DEF Places
  <1>3. RequestKept' /\ BootUnasked'
    BY DEF RequestKept, BootUnasked
  <1> QED
    BY <1>1, <1>2, <1>3

\* The main thread of `boardghost run`.
LEMMA MainStep ==
  ASSUME RunIInv, Main
  PROVE  RunIInv'
  <1> USE DEF RunIInv, Main, Reap, StoreFinished, JoinShot, sketchVars, watchVars
  <1>1. Flags'
    BY DEF Flags
  <1>2. Places'
    BY RunAssumption DEF Places
  <1>3. RequestKept' /\ BootUnasked'
    BY DEF RequestKept, BootUnasked
  <1> QED
    BY <1>1, <1>2, <1>3

\* The signals, those of `boardghost run` and those of others.
LEMMA SignalStep ==
  ASSUME RunIInv, ShotUsr1 \/ ShotTerm \/ OthersSendUsr1
  PROVE  RunIInv'
  <1> USE DEF RunIInv, ShotUsr1, ShotTerm, OthersSendUsr1, Usr1, Term, Dies, Alive, Handling,
              cliVars
  <1>1. Flags'
    BY DEF Flags
  <1>2. Places'
    BY RunAssumption DEF Places
  <1>3. RequestKept' /\ BootUnasked'
    BY DEF RequestKept, BootUnasked
  <1> QED
    BY <1>1, <1>2, <1>3

LEMMA SketchRunKeeps == RunIInv /\ [Next]_vars => RunIInv'
  <1> SUFFICES ASSUME RunIInv, [Next]_vars PROVE RunIInv'
    OBVIOUS
  <1>1. CASE Next
    BY <1>1, SketchStep, WatcherStep, ShotThreadStep, MainStep, SignalStep
       DEF Next, World, Shot
  <1>2. CASE UNCHANGED vars
    BY <1>2 DEF vars, cliVars, sketchVars, watchVars, RunIInv, Flags, Places, RequestKept,
                BootUnasked
  <1> QED
    BY <1>1, <1>2

\* A SIGUSR1 that arrives during a capture is still served by a later one
\* (sim_screenshot.cpp).
THEOREM RunInvariant == Spec => []RunInv
  <1>1. RunIInv => RunInv
    BY DEF RunIInv, RunInv, Flags, Places, RunTypeOK
  <1> QED
    BY <1>1, RunInit, SketchRunKeeps, PTL DEF Spec

------------------------------------------------------------------------------
(***************************************************************************)
(* LauncherInv is an invariant of Launcher, for any number of commands and *)
(* runs.                                                                   *)
(***************************************************************************)

CliStates == {"none", "building", "running", "dying", "zombie", "reaped"}

\* A command that kills, waits for or records a run has one in hand.
Owning == {"run_slot", "run_pid", "run_save", "stop_term", "stop_wait", "stop_reap",
           "stop_pid", "shot_kill"}
InHand == \A t \in Tasks : task[t] \in Owning => held[t] \in Runs

OnlyAlive(r) == \A q \in Runs : CliAlive(q) => q = r

\* What the three records are when no command is under way, and what each step of a lone
\* command has made of them.
Agreed ==
  /\ running => slot # 0
  /\ slot # 0 => pid = slot /\ (running \/ slot \in unsaved)
  /\ pid # slot => pid \in unsaved
  /\ OnlyAlive(slot)

Under(t) ==
  /\ task[t] = "run_kill" =>
       running /\ slot \in {0, pid} /\ pid \in unsaved \cup {0} /\ OnlyAlive(slot)
  /\ task[t] = "run_spawn" => running /\ slot = 0 /\ pid \in unsaved \cup {0} /\ OnlyAlive(0)
  /\ task[t] = "run_slot" => running /\ OnlyAlive(held[t])
  /\ task[t] = "run_pid" => running /\ slot = held[t] /\ OnlyAlive(held[t])
  /\ task[t] = "run_save" => running /\ slot = held[t] /\ pid = held[t] /\ OnlyAlive(held[t])
  /\ task[t] \in {"stop_take", "shot_read", "shot_kill", "shot_wait"} =>
       running /\ slot # 0 /\ pid = slot /\ OnlyAlive(slot)
  /\ task[t] \in {"stop_term", "stop_wait"} => slot = 0 /\ OnlyAlive(held[t])
  /\ task[t] \in {"stop_reap", "stop_pid"} => slot = 0 /\ OnlyAlive(0)

Idle(t) == task[t] \in {"new", "over"}

OneAtATime == \A s, t \in Tasks : Idle(s) \/ Idle(t) \/ s = t

InOrder ==
  /\ OneAtATime
  /\ (\A t \in Tasks : Idle(t)) => Agreed
  /\ \A t \in Tasks : Under(t)

LauncherIInv == LauncherTypeOK /\ InHand /\ (~overlap => InOrder)

-----------------------------------------------------------------------------
LEMMA LauncherInit == InitLauncher => LauncherIInv
  <1> SUFFICES ASSUME InitLauncher PROVE LauncherIInv
    OBVIOUS
  <1>1. LauncherTypeOK
    BY DEF InitLauncher, LauncherTypeOK, Pcs
  <1>2. InHand
    BY DEF InitLauncher, InHand, Owning
  <1>3. InOrder
    BY DEF InitLauncher, InOrder, OneAtATime, Idle, Agreed, OnlyAlive, CliAlive, Under
  <1> QED
    BY <1>1, <1>2, <1>3 DEF LauncherIInv

\* A lone command leaves the others where they are.
LEMMA LoneCommand ==
  ASSUME LauncherTypeOK, NEW t \in Tasks, NEW pc \in Pcs, Goto(t, pc),
         \A s \in Tasks \ {t} : Idle(s),
         pc \notin {"new", "over"} => Under(t)',
         pc \in {"new", "over"} => Agreed'
  PROVE  InOrder'
  <1>1. task' \in [Tasks -> Pcs] /\ task'[t] = pc /\ \A s \in Tasks \ {t} : task'[s] = task[s]
    BY DEF Goto, LauncherTypeOK
  <1>2. \A s \in Tasks \ {t} : Idle(s)'
    BY <1>1 DEF Idle
  <1>3. OneAtATime'
    BY <1>2 DEF OneAtATime
  <1>4. (\A s \in Tasks : Idle(s)') => Agreed'
    BY <1>1 DEF Idle
  <1>5. \A s \in Tasks : Idle(s)' => Under(s)'
    BY DEF Idle, Under
  <1>6. \A s \in Tasks : Under(s)'
    <2>1. Under(t)'
      BY <1>1, <1>5 DEF Idle
    <2> QED
      BY <1>2, <1>5, <2>1
  <1> QED
    BY <1>3, <1>4, <1>6 DEF InOrder

\* Those of the others, when the command that steps is under way.
LEMMA OthersIdle ==
  ASSUME InOrder, NEW t \in Tasks, ~Idle(t)
  PROVE  Under(t) /\ \A s \in Tasks \ {t} : Idle(s)
  BY DEF InOrder, OneAtATime

\* A command that is issued, while no other is under way or while one is.
LEMMA IssueStep ==
  ASSUME LauncherIInv, NEW t \in Tasks, User(t)
  PROVE  LauncherIInv'
  <1> USE DEF LauncherIInv, histVars, CliStates
  <1>1. PICK pc \in {"run_kill", "stop_take", "shot_read"} :
          /\ Issue(t) /\ Goto(t, pc)
          /\ IF pc = "run_kill" THEN ~running /\ running' = TRUE ELSE running /\ running' = running
          /\ UNCHANGED <<held, slot, pid, clis, sketches, histVars>>
    BY DEF User, OnRun, OnStop, OnScreenshot, stateVars, procVars
  <1>2. /\ task' \in [Tasks -> Pcs] /\ task'[t] = pc
        /\ \A s \in Tasks \ {t} : task'[s] = task[s]
    BY <1>1 DEF Goto, LauncherTypeOK, Pcs
  <1>3. overlap' \in BOOLEAN
    BY <1>1 DEF Issue, LauncherTypeOK
  <1>4. LauncherTypeOK'
    BY <1>1, <1>2, <1>3 DEF LauncherTypeOK
  <1>5. InHand'
    BY <1>1, <1>2 DEF InHand, Owning
  <1>6. ASSUME ~overlap' PROVE InOrder'
    <2>1. ~overlap /\ \A s \in Tasks : Idle(s)
      BY <1>1, <1>6 DEF Issue, InFlight, Idle
    <2>2. Agreed
      BY <2>1 DEF InOrder
    <2>3. Under(t)'
      BY <1>1, <1>2, <2>2 DEF Under, Agreed, OnlyAlive, CliAlive
    <2>4. pc \in Pcs /\ pc \notin {"new", "over"}
      BY <1>1 DEF Pcs
    <2> QED
      BY <1>1, <2>1, <2>3, <2>4, LoneCommand
  <1> QED
    BY <1>4, <1>5, <1>6

\* A signal to the CLI of a run: nobody is alive who was not, and a SIGKILL is that run's
\* end.
LEMMA CliSignalStep ==
  ASSUME LauncherTypeOK, NEW r \in {0} \cup Runs, NEW state \in {"dying", "zombie"},
         Signal(r, state)
  PROVE  /\ clis' \in [Runs -> CliStates]
         /\ \A q \in Runs : CliAlive(q)' => CliAlive(q) /\ (state = "zombie" => q # r)
  BY DEF Signal, CliAlive, LauncherTypeOK, Runs, CliStates

LEMMA KillStep ==
  ASSUME LauncherTypeOK, NEW r \in {0} \cup Runs, KillCli(r)
  PROVE  /\ clis' \in [Runs -> CliStates]
         /\ \A q \in Runs : CliAlive(q)' => CliAlive(q) /\ q # r
  BY CliSignalStep DEF KillCli

LEMMA RunStepKeeps ==
  ASSUME LauncherIInv, NEW t \in Tasks, RunStep(t)
  PROVE  LauncherIInv'
  <1> USE DEF LauncherIInv, histVars, CliStates
  <1>1. UNCHANGED overlap /\ 0 \notin Runs
    BY DEF RunStep, Runs
  <1>2. CASE RunKill(t)
    <2>1. /\ task[t] = "run_kill" /\ KillCli(slot) /\ slot' = 0 /\ Goto(t, "run_spawn")
          /\ UNCHANGED <<running, held, pid, sketches, histVars>>
      BY <1>2 DEF RunKill
    <2>2. /\ task' \in [Tasks -> Pcs] /\ task'[t] = "run_spawn"
          /\ \A s \in Tasks \ {t} : task'[s] = task[s]
      BY <2>1 DEF Goto, LauncherTypeOK, Pcs
    <2>3. /\ clis' \in [Runs -> CliStates]
          /\ \A q \in Runs : CliAlive(q)' => CliAlive(q) /\ q # slot
      BY <2>1, KillStep DEF LauncherTypeOK
    <2>4. LauncherTypeOK'
      BY <1>1, <2>1, <2>2, <2>3 DEF LauncherTypeOK
    <2>5. InHand'
      BY <2>1, <2>2 DEF InHand, Owning
    <2>6. ASSUME ~overlap PROVE InOrder'
      <3>1. Under(t) /\ \A s \in Tasks \ {t} : Idle(s)
        BY <2>1, <2>6, OthersIdle DEF Idle
      <3>2. Under(t)'
        BY <2>1, <2>2, <2>3, <3>1 DEF Under, OnlyAlive
      <3> QED
        BY <2>1, <3>1, <3>2, LoneCommand DEF Pcs
    <2> QED
      BY <1>1, <2>4, <2>5, <2>6
  <1>3. CASE RunSpawn(t)
    <2>1. PICK r \in Runs : /\ clis[r] = "none" /\ clis' = [clis EXCEPT ![r] = "building"]
                            /\ held' = [held EXCEPT ![t] = r]
      BY <1>3 DEF RunSpawn
    <2>2. /\ task[t] = "run_spawn" /\ Goto(t, "run_slot")
          /\ UNCHANGED <<running, slot, pid, sketches, histVars>>
      BY <1>3 DEF RunSpawn, stateVars
    <2>3. /\ task' \in [Tasks -> Pcs] /\ task'[t] = "run_slot"
          /\ \A s \in Tasks \ {t} : task'[s] = task[s]
      BY <2>2 DEF Goto, LauncherTypeOK, Pcs
    <2>4. /\ held' \in [Tasks -> {0} \cup Runs] /\ held'[t] = r
          /\ \A s \in Tasks \ {t} : held'[s] = held[s]
          /\ clis' \in [Runs -> CliStates]
          /\ \A q \in Runs : CliAlive(q)' => CliAlive(q) \/ q = r
      BY <2>1 DEF LauncherTypeOK, CliAlive
    <2>5. LauncherTypeOK'
      BY <1>1, <2>2, <2>3, <2>4 DEF LauncherTypeOK
    <2>6. InHand'
      BY <2>3, <2>4 DEF InHand
    <2>7. ASSUME ~overlap PROVE InOrder'
      <3>1. Under(t) /\ \A s \in Tasks \ {t} : Idle(s)
        BY <2>2, <2>7, OthersIdle DEF Idle
      <3>2. Under(t)'
        BY <1>1, <2>2, <2>3, <2>4, <3>1 DEF Under, OnlyAlive
      <3> QED
        BY <2>2, <3>1, <3>2, LoneCommand DEF Pcs
    <2> QED
      BY <1>1, <2>5, <2>6, <2>7
  <1>4. CASE RunSpawnFails(t)
    <2>1. /\ task[t] = "run_spawn" /\ Goto(t, "over") /\ running' = FALSE
          /\ UNCHANGED <<held, slot, pid, clis, sketches, histVars>>
      BY <1>4 DEF RunSpawnFails, stateVars, procVars
    <2>2. /\ task' \in [Tasks -> Pcs] /\ task'[t] = "over"
          /\ \A s \in Tasks \ {t} : task'[s] = task[s]
      BY <2>1 DEF Goto, LauncherTypeOK, Pcs
    <2>3. LauncherTypeOK' /\ InHand'
      BY <1>1, <2>1, <2>2 DEF LauncherTypeOK, InHand, Owning
    <2>4. ASSUME ~overlap PROVE InOrder'
      <3>1. Under(t) /\ \A s \in Tasks \ {t} : Idle(s)
        BY <2>1, <2>4, OthersIdle DEF Idle
      <3>2. Agreed'
        BY <2>1, <3>1 DEF Under, Agreed, OnlyAlive, CliAlive
      <3> QED
        BY <2>1, <3>1, <3>2, LoneCommand DEF Pcs
    <2> QED
      BY <1>1, <2>3, <2>4
  <1>5. CASE RunSlot(t)
    <2>1. /\ task[t] = "run_slot" /\ slot' = held[t] /\ Goto(t, "run_pid")
          /\ UNCHANGED <<running, held, pid, clis, sketches, histVars>>
      BY <1>5 DEF RunSlot, procVars
    <2>2. /\ task' \in [Tasks -> Pcs] /\ task'[t] = "run_pid"
          /\ \A s \in Tasks \ {t} : task'[s] = task[s]
      BY <2>1 DEF Goto, LauncherTypeOK, Pcs
    <2>3. LauncherTypeOK'
      BY <1>1, <2>1, <2>2 DEF LauncherTypeOK
    <2>4. InHand'
      BY <2>1, <2>2 DEF InHand, Owning
    <2>5. ASSUME ~overlap PROVE InOrder'
      <3>1. Under(t) /\ \A s \in Tasks \ {t} : Idle(s)
        BY <2>1, <2>5, OthersIdle DEF Idle
      <3>2. Under(t)'
        BY <2>1, <2>2, <3>1 DEF Under, OnlyAlive, CliAlive
      <3> QED
        BY <2>1, <3>1, <3>2, LoneCommand DEF Pcs
    <2> QED
      BY <1>1, <2>3, <2>4, <2>5
  <1>6. CASE RunPid(t)
    <2>1. /\ task[t] = "run_pid" /\ pid' = held[t] /\ Goto(t, "run_save")
          /\ UNCHANGED <<running, held, slot, clis, sketches, histVars>>
      BY <1>6 DEF RunPid, procVars
    <2>2. /\ task' \in [Tasks -> Pcs] /\ task'[t] = "run_save"
          /\ \A s \in Tasks \ {t} : task'[s] = task[s]
      BY <2>1 DEF Goto, LauncherTypeOK, Pcs
    <2>3. LauncherTypeOK'
      BY <1>1, <2>1, <2>2 DEF LauncherTypeOK
    <2>4. InHand'
      BY <2>1, <2>2 DEF InHand, Owning
    <2>5. ASSUME ~overlap PROVE InOrder'
      <3>1. Under(t) /\ \A s \in Tasks \ {t} : Idle(s)
        BY <2>1, <2>5, OthersIdle DEF Idle
      <3>2. Under(t)'
        BY <2>1, <2>2, <3>1 DEF Under, OnlyAlive, CliAlive
      <3> QED
        BY <2>1, <3>1, <3>2, LoneCommand DEF Pcs
    <2> QED
      BY <1>1, <2>3, <2>4, <2>5
  <1>7. CASE RunSave(t) \/ RunSaveFails(t)
    <2>1. /\ task[t] = "run_save" /\ Goto(t, "over")
          /\ UNCHANGED <<held, slot, pid, clis, sketches, stops, shots>>
          /\ \/ UNCHANGED <<running, unsaved>>
             \/ running' = FALSE /\ unsaved' = unsaved \cup {held[t]}
      BY <1>7 DEF RunSave, RunSaveFails, stateVars, procVars
    <2>2. /\ task' \in [Tasks -> Pcs] /\ task'[t] = "over"
          /\ \A s \in Tasks \ {t} : task'[s] = task[s]
      BY <2>1 DEF Goto, LauncherTypeOK, Pcs
    <2>3. held[t] \in Runs
      BY <2>1 DEF InHand, Owning
    <2>4. LauncherTypeOK' /\ InHand'
      BY <1>1, <2>1, <2>2, <2>3 DEF LauncherTypeOK, InHand, Owning
    <2>5. ASSUME ~overlap PROVE InOrder'
      <3>1. Under(t) /\ \A s \in Tasks \ {t} : Idle(s)
        BY <2>1, <2>5, OthersIdle DEF Idle
      <3>2. Agreed'
        BY <1>1, <2>1, <2>3, <3>1 DEF Under, Agreed, OnlyAlive, CliAlive
      <3> QED
        BY <2>1, <3>1, <3>2, LoneCommand DEF Pcs
    <2> QED
      BY <1>1, <2>4, <2>5
  <1> QED
    BY <1>2, <1>3, <1>4, <1>5, <1>6, <1>7 DEF RunStep

LEMMA StopStepKeeps ==
  ASSUME LauncherIInv, NEW t \in Tasks, StopStep(t)
  PROVE  LauncherIInv'
  <1> USE DEF LauncherIInv, histVars, CliStates
  <1>1. UNCHANGED overlap /\ 0 \notin Runs
    BY DEF StopStep, Runs
  <1>2. CASE StopTake(t) /\ slot = 0
    <2>1. /\ task[t] = "stop_take" /\ Goto(t, "over") /\ running' = FALSE
          /\ UNCHANGED <<slot, pid, held, clis, sketches, histVars>>
      BY <1>2 DEF StopTake, procVars
    <2>2. /\ task' \in [Tasks -> Pcs] /\ task'[t] = "over"
          /\ \A s \in Tasks \ {t} : task'[s] = task[s]
      BY <2>1 DEF Goto, LauncherTypeOK, Pcs
    <2>3. LauncherTypeOK' /\ InHand'
      BY <1>1, <2>1, <2>2 DEF LauncherTypeOK, InHand, Owning
    <2>4. ASSUME ~overlap PROVE FALSE
      BY <1>2, <2>1, <2>4, OthersIdle DEF Idle, Under
    <2> QED
      BY <1>1, <2>3, <2>4
  <1>3. CASE StopTake(t) /\ slot # 0
    <2>1. /\ task[t] = "stop_take" /\ Goto(t, "stop_term") /\ slot' = 0
          /\ held' = [held EXCEPT ![t] = slot]
          /\ UNCHANGED <<running, pid, clis, sketches, histVars>>
      BY <1>3 DEF StopTake, procVars
    <2>2. /\ task' \in [Tasks -> Pcs] /\ task'[t] = "stop_term"
          /\ \A s \in Tasks \ {t} : task'[s] = task[s]
      BY <2>1 DEF Goto, LauncherTypeOK, Pcs
    <2>3. /\ held' \in [Tasks -> {0} \cup Runs] /\ held'[t] = slot
          /\ \A s \in Tasks \ {t} : held'[s] = held[s]
      BY <2>1 DEF LauncherTypeOK
    <2>4. LauncherTypeOK'
      BY <1>1, <2>1, <2>2, <2>3 DEF LauncherTypeOK
    <2>5. InHand'
      BY <1>3, <2>2, <2>3 DEF InHand, LauncherTypeOK
    <2>6. ASSUME ~overlap PROVE InOrder'
      <3>1. Under(t) /\ \A s \in Tasks \ {t} : Idle(s)
        BY <2>1, <2>6, OthersIdle DEF Idle
      <3>2. Under(t)'
        BY <2>1, <2>2, <2>3, <3>1 DEF Under, OnlyAlive, CliAlive
      <3> QED
        BY <2>1, <3>1, <3>2, LoneCommand DEF Pcs
    <2> QED
      BY <1>1, <2>4, <2>5, <2>6
  <1>4. CASE StopTerm(t)
    <2>1. /\ task[t] = "stop_term" /\ Signal(held[t], "dying") /\ Goto(t, "stop_wait")
          /\ UNCHANGED <<running, held, slot, pid, sketches, histVars>>
      BY <1>4 DEF StopTerm, stateVars
    <2>2. /\ task' \in [Tasks -> Pcs] /\ task'[t] = "stop_wait"
          /\ \A s \in Tasks \ {t} : task'[s] = task[s]
      BY <2>1 DEF Goto, LauncherTypeOK, Pcs
    <2>3. /\ clis' \in [Runs -> CliStates]
          /\ \A q \in Runs : CliAlive(q)' => CliAlive(q)
      BY <2>1, CliSignalStep DEF LauncherTypeOK
    <2>4. LauncherTypeOK'
      BY <1>1, <2>1, <2>2, <2>3 DEF LauncherTypeOK
    <2>5. InHand'
      BY <2>1, <2>2 DEF InHand, Owning
    <2>6. ASSUME ~overlap PROVE InOrder'
      <3>1. Under(t) /\ \A s \in Tasks \ {t} : Idle(s)
        BY <2>1, <2>6, OthersIdle DEF Idle
      <3>2. Under(t)'
        BY <2>1, <2>2, <2>3, <3>1 DEF Under, OnlyAlive
      <3> QED
        BY <2>1, <3>1, <3>2, LoneCommand DEF Pcs
    <2> QED
      BY <1>1, <2>4, <2>5, <2>6
  <1>5. CASE StopWait(t)
    <2>1. /\ task[t] \in {"stop_wait", "stop_reap"} /\ clis[held[t]] = "zombie"
          /\ clis' = [clis EXCEPT ![held[t]] = "reaped"]
          /\ Goto(t, "stop_pid")
          /\ UNCHANGED <<running, held, slot, pid, sketches, histVars>>
      BY <1>5 DEF StopWait, stateVars
    <2>2. /\ task' \in [Tasks -> Pcs] /\ task'[t] = "stop_pid"
          /\ \A s \in Tasks \ {t} : task'[s] = task[s]
      BY <2>1 DEF Goto, LauncherTypeOK, Pcs
    <2>3. /\ clis' \in [Runs -> CliStates]
          /\ \A q \in Runs : CliAlive(q)' => CliAlive(q) /\ q # held[t]
      BY <2>1 DEF LauncherTypeOK, CliAlive, CliStates
    <2>4. LauncherTypeOK'
      BY <1>1, <2>1, <2>2, <2>3 DEF LauncherTypeOK
    <2>5. InHand'
      BY <2>1, <2>2 DEF InHand, Owning
    <2>6. ASSUME ~overlap PROVE InOrder'
      <3>1. Under(t) /\ \A s \in Tasks \ {t} : Idle(s)
        BY <2>1, <2>6, OthersIdle DEF Idle
      <3>2. Under(t)'
        BY <2>1, <2>2, <2>3, <3>1 DEF Under, OnlyAlive
      <3> QED
        BY <2>1, <3>1, <3>2, LoneCommand DEF Pcs
    <2> QED
      BY <1>1, <2>4, <2>5, <2>6
  <1>6. CASE StopPid(t)
    <2>1. /\ task[t] = "stop_pid" /\ Goto(t, "over") /\ pid' = 0 /\ running' = FALSE
          /\ stops' = stops \cup {held[t]}
          /\ UNCHANGED <<held, slot, clis, sketches, shots, unsaved>>
      BY <1>6 DEF StopPid, procVars
    <2>2. /\ task' \in [Tasks -> Pcs] /\ task'[t] = "over"
          /\ \A s \in Tasks \ {t} : task'[s] = task[s]
      BY <2>1 DEF Goto, LauncherTypeOK, Pcs
    <2>3. held[t] \in Runs
      BY <2>1 DEF InHand, Owning
    <2>4. LauncherTypeOK'
      BY <1>1, <2>1, <2>2, <2>3 DEF LauncherTypeOK
    <2>5. InHand'
      BY <2>1, <2>2 DEF InHand, Owning
    <2>6. ASSUME ~overlap PROVE InOrder'
      <3>1. Under(t) /\ \A s \in Tasks \ {t} : Idle(s)
        BY <2>1, <2>6, OthersIdle DEF Idle
      <3>2. Agreed'
        BY <2>1, <3>1 DEF Under, Agreed, OnlyAlive, CliAlive
      <3> QED
        BY <2>1, <3>1, <3>2, LoneCommand DEF Pcs
    <2> QED
      BY <1>1, <2>4, <2>5, <2>6
  <1>7. CASE StopTimeout(t)
    <2>1. /\ task[t] = "stop_wait" /\ KillCli(held[t]) /\ Goto(t, "stop_reap")
          /\ UNCHANGED <<running, held, slot, pid, sketches, histVars>>
      BY <1>7 DEF StopTimeout, stateVars
    <2>2. /\ task' \in [Tasks -> Pcs] /\ task'[t] = "stop_reap"
          /\ \A s \in Tasks \ {t} : task'[s] = task[s]
      BY <2>1 DEF Goto, LauncherTypeOK, Pcs
    <2>3. /\ clis' \in [Runs -> CliStates]
          /\ \A q \in Runs : CliAlive(q)' => CliAlive(q) /\ q # held[t]
      BY <2>1, KillStep DEF LauncherTypeOK
    <2>4. LauncherTypeOK'
      BY <1>1, <2>1, <2>2, <2>3 DEF LauncherTypeOK
    <2>5. InHand'
      BY <2>1, <2>2 DEF InHand, Owning
    <2>6. ASSUME ~overlap PROVE InOrder'
      <3>1. Under(t) /\ \A s \in Tasks \ {t} : Idle(s)
        BY <2>1, <2>6, OthersIdle DEF Idle
      <3>2. Under(t)'
        BY <2>1, <2>2, <2>3, <3>1 DEF Under, OnlyAlive
      <3> QED
        BY <2>1, <3>1, <3>2, LoneCommand DEF Pcs
    <2> QED
      BY <1>1, <2>4, <2>5, <2>6
  <1> QED
    BY <1>2, <1>3, <1>4, <1>5, <1>6, <1>7 DEF StopStep

LEMMA ShotStepKeeps ==
  ASSUME LauncherIInv, NEW t \in Tasks, ShotStep(t)
  PROVE  LauncherIInv'
  <1> USE DEF LauncherIInv, histVars, CliStates
  <1>1. UNCHANGED overlap /\ 0 \notin Runs
    BY DEF ShotStep, Runs
  <1>2. CASE ShotRead(t) /\ pid # 0
    <2>1. /\ task[t] = "shot_read" /\ Goto(t, "shot_kill") /\ held' = [held EXCEPT ![t] = pid]
          /\ UNCHANGED <<running, slot, pid, clis, sketches, histVars>>
      BY <1>2 DEF ShotRead, stateVars, procVars
    <2>2. /\ task' \in [Tasks -> Pcs] /\ task'[t] = "shot_kill"
          /\ \A s \in Tasks \ {t} : task'[s] = task[s]
      BY <2>1 DEF Goto, LauncherTypeOK, Pcs
    <2>3. /\ held' \in [Tasks -> {0} \cup Runs] /\ held'[t] = pid
          /\ \A s \in Tasks \ {t} : held'[s] = held[s]
      BY <2>1 DEF LauncherTypeOK
    <2>4. LauncherTypeOK'
      BY <1>1, <2>1, <2>2, <2>3 DEF LauncherTypeOK
    <2>5. InHand'
      BY <1>2, <2>2, <2>3 DEF InHand, LauncherTypeOK
    <2>6. ASSUME ~overlap PROVE InOrder'
      <3>1. Under(t) /\ \A s \in Tasks \ {t} : Idle(s)
        BY <2>1, <2>6, OthersIdle DEF Idle
      <3>2. Under(t)'
        BY <2>1, <2>2, <3>1 DEF Under, OnlyAlive, CliAlive
      <3> QED
        BY <2>1, <3>1, <3>2, LoneCommand DEF Pcs
    <2> QED
      BY <1>1, <2>4, <2>5, <2>6
  <1>3. CASE ShotRead(t) /\ pid = 0
    <2>1. /\ task[t] = "shot_read" /\ Goto(t, "over")
          /\ UNCHANGED <<held, running, slot, pid, clis, sketches, histVars>>
      BY <1>3 DEF ShotRead, stateVars, procVars
    <2>2. /\ task' \in [Tasks -> Pcs] /\ task'[t] = "over"
          /\ \A s \in Tasks \ {t} : task'[s] = task[s]
      BY <2>1 DEF Goto, LauncherTypeOK, Pcs
    <2>3. LauncherTypeOK' /\ InHand'
      BY <1>1, <2>1, <2>2 DEF LauncherTypeOK, InHand, Owning
    <2>4. ASSUME ~overlap PROVE FALSE
      BY <1>3, <2>1, <2>4, OthersIdle DEF Idle, Under
    <2> QED
      BY <1>1, <2>3, <2>4
  <1>4. CASE ShotKill(t)
    <2>1. /\ task[t] = "shot_kill" /\ Signal(held[t], "dying") /\ shots' = shots \cup {held[t]}
          /\ Goto(t, "shot_wait")
          /\ UNCHANGED <<running, held, slot, pid, sketches, stops, unsaved>>
      BY <1>4 DEF ShotKill, stateVars
    <2>2. /\ task' \in [Tasks -> Pcs] /\ task'[t] = "shot_wait"
          /\ \A s \in Tasks \ {t} : task'[s] = task[s]
      BY <2>1 DEF Goto, LauncherTypeOK, Pcs
    <2>3. /\ clis' \in [Runs -> CliStates]
          /\ \A q \in Runs : CliAlive(q)' => CliAlive(q)
      BY <2>1, CliSignalStep DEF LauncherTypeOK
    <2>4. held[t] \in Runs
      BY <2>1 DEF InHand, Owning
    <2>5. LauncherTypeOK'
      BY <1>1, <2>1, <2>2, <2>3, <2>4 DEF LauncherTypeOK
    <2>6. InHand'
      BY <2>1, <2>2 DEF InHand, Owning
    <2>7. ASSUME ~overlap PROVE InOrder'
      <3>1. Under(t) /\ \A s \in Tasks \ {t} : Idle(s)
        BY <2>1, <2>7, OthersIdle DEF Idle
      <3>2. Under(t)'
        BY <2>1, <2>2, <2>3, <3>1 DEF Under, OnlyAlive
      <3> QED
        BY <2>1, <3>1, <3>2, LoneCommand DEF Pcs
    <2> QED
      BY <1>1, <2>5, <2>6, <2>7
  <1>5. CASE ShotOver(t)
    <2>1. /\ task[t] = "shot_wait" /\ Goto(t, "over")
          /\ UNCHANGED <<held, running, slot, pid, clis, sketches, histVars>>
      BY <1>5 DEF ShotOver, stateVars, procVars
    <2>2. /\ task' \in [Tasks -> Pcs] /\ task'[t] = "over"
          /\ \A s \in Tasks \ {t} : task'[s] = task[s]
      BY <2>1 DEF Goto, LauncherTypeOK, Pcs
    <2>3. LauncherTypeOK' /\ InHand'
      BY <1>1, <2>1, <2>2 DEF LauncherTypeOK, InHand, Owning
    <2>4. ASSUME ~overlap PROVE InOrder'
      <3>1. Under(t) /\ \A s \in Tasks \ {t} : Idle(s)
        BY <2>1, <2>4, OthersIdle DEF Idle
      <3>2. Agreed'
        BY <2>1, <3>1 DEF Under, Agreed, OnlyAlive, CliAlive
      <3> QED
        BY <2>1, <3>1, <3>2, LoneCommand DEF Pcs
    <2> QED
      BY <1>1, <2>3, <2>4
  <1> QED
    BY <1>2, <1>3, <1>4, <1>5 DEF ShotStep

\* A process comes to its end, or from its build to its sketch.
LEMMA ProcessStep ==
  ASSUME LauncherIInv, NEW r \in Runs, Process(r)
  PROVE  LauncherIInv'
  <1> USE DEF LauncherIInv, histVars, CliStates
  <1>1. UNCHANGED <<running, task, held, slot, pid, histVars, overlap>>
    BY DEF Process, BuildEnds, SketchEnds, CliEnds, CliDies, OrphanReaped, uiVars, stateVars
  <1>2. /\ clis' \in [Runs -> CliStates]
        /\ sketches' \in [Runs -> {"none", "live", "gone"}]
        /\ \A q \in Runs : CliAlive(q)' => CliAlive(q)
    BY DEF Process, BuildEnds, SketchEnds, CliEnds, CliDies, OrphanReaped, LauncherTypeOK, CliAlive, CliStates
  <1>3. LauncherTypeOK' /\ InHand'
    BY <1>1, <1>2 DEF LauncherTypeOK, InHand, CliStates
  <1>4. InOrder => InOrder'
    BY <1>1, <1>2 DEF InOrder, OneAtATime, Idle, Agreed, Under, OnlyAlive
  <1> QED
    BY <1>1, <1>3, <1>4

LEMMA LauncherStep == LauncherIInv /\ [NextLauncher]_launcherVars => LauncherIInv'
  <1> SUFFICES ASSUME LauncherIInv, [NextLauncher]_launcherVars PROVE LauncherIInv'
    OBVIOUS
  <1>1. CASE NextLauncher
    BY <1>1, IssueStep, RunStepKeeps, StopStepKeeps, ShotStepKeeps, ProcessStep DEF NextLauncher
  <1>2. CASE UNCHANGED launcherVars
    BY <1>2 DEF launcherVars, uiVars, stateVars, procVars, histVars, LauncherIInv, LauncherTypeOK, InHand,
                InOrder, OneAtATime, Idle, Agreed, Under, OnlyAlive, CliAlive
  <1> QED
    BY <1>1, <1>2

LEMMA LauncherShows == LauncherIInv => LauncherInv
  <1> SUFFICES ASSUME LauncherIInv PROVE LauncherInv
    OBVIOUS
  <1>1. ASSUME ~overlap PROVE \E r : OnlyAlive(r)
    <2>1. InOrder /\ task \in [Tasks -> Pcs]
      BY <1>1 DEF LauncherIInv, LauncherTypeOK
    <2>2. CASE \A t \in Tasks : Idle(t)
      BY <2>1, <2>2 DEF InOrder, Agreed
    <2>3. CASE \E t \in Tasks : ~Idle(t)
      BY <2>1, <2>3 DEF InOrder, Under, Idle, Pcs
    <2> QED
      BY <2>2, <2>3
  <1>2. ASSUME ~overlap, InFlight = {} PROVE Agreed
    BY <1>2 DEF LauncherIInv, InOrder, InFlight, Idle
  <1>3. 0 \notin Runs /\ unsaved \subseteq Runs /\ slot \in {0} \cup Runs
    BY DEF LauncherIInv, LauncherTypeOK, Runs
  <1>4. RecordsAgree
    BY <1>2, <1>3 DEF RecordsAgree, Agreed, OnlyAlive
  <1>5. OneRunInSlot
    <2>1. ASSUME ~overlap, InFlight = {} PROVE \A r \in Runs : CliAlive(r) => r = slot
      BY <1>2, <2>1 DEF Agreed, OnlyAlive
    <2>2. ASSUME ~overlap PROVE \A q, r \in Runs : CliAlive(q) /\ CliAlive(r) => q = r
      BY <1>1, <2>2 DEF OnlyAlive
    <2> QED
      BY <2>1, <2>2 DEF OneRunInSlot
  <1> QED
    BY <1>4, <1>5 DEF LauncherIInv, LauncherInv

\* Between the commands of a user who waits for each, a live CLI is the one in the Child
\* slot, and the page's flag, the slot and the process id agree but for a run whose command
\* failed to save the project list; at no time do two CLIs live (commands.rs, runner.rs,
\* state.rs).
THEOREM LauncherInvariant == SpecLauncher => []LauncherInv
  <1>1. SpecLauncher => []LauncherIInv
    BY LauncherInit, LauncherStep, PTL DEF SpecLauncher
  <1> QED
    BY <1>1, LauncherShows, PTL
==============================================================================
