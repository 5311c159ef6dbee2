------------------------------ MODULE Launcher ------------------------------
(***************************************************************************)
(* The launcher's Run, Stop and Screenshot: the buttons (ProjectDetail.    *)
(* svelte), the Tauri commands behind them (commands.rs, runner.rs), the   *)
(* state they share (state.rs), and the processes: each run is a           *)
(* `boardghost run` that builds and then starts the sketch as a child of   *)
(* its own.  The CLI installs no signal handler, so a signal to it is its  *)
(* end, at once (SIGKILL) or as soon as it is scheduled and not suspended  *)
(* (SIGTERM, SIGUSR1), and the sketch goes on without it.                  *)
(*                                                                         *)
(* Commands are asynchronous: each is a task, and a step of a task is what *)
(* it does under one lock or between two awaits.  Runs are numbered in the *)
(* order of their spawn.                                                   *)
(***************************************************************************)
EXTENDS Naturals, FiniteSets

CONSTANTS
  Tasks,         \* the commands the user issues, numbered in that order
  MaxRuns,       \* bound on the runs spawned
  MaxInFlight    \* commands the user lets run at the same time

ASSUME LauncherAssumption ==
  IsFiniteSet(Tasks) /\ Tasks \subseteq Nat /\ MaxRuns \in Nat /\ MaxInFlight \in Nat \ {0}

VARIABLES
  running,   \* the page's flag that enables the buttons
  slot,      \* state.running: the run whose Child is kept, 0 for None
  pid,       \* state.running_pid: the run whose CLI has that id, 0 for None
  task,      \* where each command is
  held,      \* the run whose Child the command owns
  clis,      \* the CLI of each run: "none", "building", "running", "dying" (a signal is
             \* pending), "zombie", "reaped"
  sketches,  \* the sketch of each run: "none", "live", "gone"
  stops,     \* history: runs whose Child a stop took, and that stop has returned
  shots,     \* history: runs whose CLI a screenshot signalled
  unsaved,   \* history: runs that started although their command then failed to save
  overlap    \* history: a command was issued while another was in flight

uiVars == <<running, task, held>>
stateVars == <<slot, pid>>
procVars == <<clis, sketches>>
histVars == <<stops, shots, unsaved>>
launcherVars == <<uiVars, stateVars, procVars, histVars, overlap>>

Runs == 1..MaxRuns

InitLauncher ==
  /\ running = FALSE /\ slot = 0 /\ pid = 0
  /\ task = [t \in Tasks |-> "new"] /\ held = [t \in Tasks |-> 0]
  /\ clis = [r \in Runs |-> "none"] /\ sketches = [r \in Runs |-> "none"]
  /\ stops = {} /\ shots = {} /\ unsaved = {} /\ overlap = FALSE

CliAlive(r) == clis[r] \in {"building", "running", "dying"}
InFlight == {t \in Tasks : task[t] \notin {"new", "over"}}
Issue(t) ==
  /\ task[t] = "new" /\ \A s \in Tasks : s < t => task[s] # "new"
  /\ Cardinality(InFlight) < MaxInFlight
  /\ overlap' = (overlap \/ InFlight # {})
Goto(t, pc) == task' = [task EXCEPT ![t] = pc]

\* A signal to the CLI of run r: SIGKILL ends it, any other will when it is delivered.
Signal(r, state) ==
  clis' = IF r # 0 /\ CliAlive(r) THEN [clis EXCEPT ![r] = state] ELSE clis
KillCli(r) == Signal(r, "zombie")

-----------------------------------------------------------------------------
(* Run                                                                     *)

OnRun(t) ==
  /\ Issue(t) /\ ~running
  /\ running' = TRUE /\ Goto(t, "run_kill")
  /\ UNCHANGED <<held, stateVars, procVars, histVars>>

\* The previous Child is taken, killed and dropped.
RunKill(t) ==
  /\ task[t] = "run_kill"
  /\ KillCli(slot) /\ slot' = 0
  /\ Goto(t, "run_spawn")
  /\ UNCHANGED <<running, held, pid, sketches, histVars>>

RunSpawn(t) ==
  /\ task[t] = "run_spawn"
  /\ \E r \in Runs :
       /\ clis[r] = "none" /\ \A q \in Runs : q < r => clis[q] # "none"
       /\ clis' = [clis EXCEPT ![r] = "building"]
       /\ held' = [held EXCEPT ![t] = r]
  /\ Goto(t, "run_slot")
  /\ UNCHANGED <<running, stateVars, sketches, histVars>>

\* No `boardghost` on the PATH: the page shows the error and takes its flag back.
RunSpawnFails(t) ==
  /\ task[t] = "run_spawn"
  /\ running' = FALSE /\ Goto(t, "over")
  /\ UNCHANGED <<held, stateVars, procVars, histVars>>

\* Whatever is in the slot is dropped, which kills nothing.
RunSlot(t) ==
  /\ task[t] = "run_slot"
  /\ slot' = held[t] /\ Goto(t, "run_pid")
  /\ UNCHANGED <<running, held, pid, procVars, histVars>>

RunPid(t) ==
  /\ task[t] = "run_pid"
  /\ pid' = held[t] /\ Goto(t, "run_save")
  /\ UNCHANGED <<running, held, slot, procVars, histVars>>

\* The project goes to the recent ones and the list is saved.
RunSave(t) ==
  /\ task[t] = "run_save"
  /\ Goto(t, "over")
  /\ UNCHANGED <<running, held, stateVars, procVars, histVars>>

\* The list cannot be saved: the command fails with the run on, and the page takes its
\* flag back.
RunSaveFails(t) ==
  /\ task[t] = "run_save"
  /\ running' = FALSE /\ unsaved' = unsaved \cup {held[t]}
  /\ Goto(t, "over")
  /\ UNCHANGED <<held, stateVars, procVars, stops, shots>>

-----------------------------------------------------------------------------
(* Stop                                                                    *)

OnStop(t) ==
  /\ Issue(t) /\ running
  /\ Goto(t, "stop_take")
  /\ UNCHANGED <<running, held, stateVars, procVars, histVars>>

StopTake(t) ==
  /\ task[t] = "stop_take"
  /\ slot' = 0
  /\ IF slot = 0
       THEN running' = FALSE /\ Goto(t, "over") /\ UNCHANGED held
       ELSE /\ held' = [held EXCEPT ![t] = slot]
            /\ Goto(t, "stop_term") /\ UNCHANGED running
  /\ UNCHANGED <<pid, procVars, histVars>>

StopTerm(t) ==
  /\ task[t] = "stop_term"
  /\ Signal(held[t], "dying")
  /\ Goto(t, "stop_wait")
  /\ UNCHANGED <<running, held, stateVars, sketches, histVars>>

\* child.wait(), for two seconds, and once more after the SIGKILL.
StopWait(t) ==
  /\ task[t] \in {"stop_wait", "stop_reap"} /\ clis[held[t]] = "zombie"
  /\ clis' = [clis EXCEPT ![held[t]] = "reaped"]
  /\ Goto(t, "stop_pid")
  /\ UNCHANGED <<running, held, stateVars, sketches, histVars>>

\* Mutant of StopTimeout: the second wait follows no signal.
StopTimeout_NoKill(t) ==
  /\ task[t] = "stop_wait"
  /\ Goto(t, "stop_reap")
  /\ UNCHANGED <<running, held, stateVars, procVars, histVars>>

\* The two seconds are over.
StopTimeout(t) ==
  /\ task[t] = "stop_wait"
  /\ KillCli(held[t])
  /\ Goto(t, "stop_reap")
  /\ UNCHANGED <<running, held, stateVars, sketches, histVars>>

\* Mutant of StopPid: the id of the stopped run is kept.
StopPid_Kept(t) ==
  /\ task[t] = "stop_pid"
  /\ running' = FALSE /\ stops' = stops \cup {held[t]}
  /\ Goto(t, "over")
  /\ UNCHANGED <<held, stateVars, procVars, shots, unsaved>>

StopPid(t) ==
  /\ task[t] = "stop_pid"
  /\ pid' = 0 /\ running' = FALSE /\ stops' = stops \cup {held[t]}
  /\ Goto(t, "over")
  /\ UNCHANGED <<held, slot, procVars, shots, unsaved>>

-----------------------------------------------------------------------------
(* Screenshot                                                              *)

OnScreenshot(t) ==
  /\ Issue(t) /\ running
  /\ Goto(t, "shot_read")
  /\ UNCHANGED <<running, held, stateVars, procVars, histVars>>

ShotRead(t) ==
  /\ task[t] = "shot_read"
  /\ IF pid = 0
       THEN Goto(t, "over") /\ UNCHANGED held
       ELSE Goto(t, "shot_kill") /\ held' = [held EXCEPT ![t] = pid]
  /\ UNCHANGED <<running, stateVars, procVars, histVars>>

ShotKill(t) ==
  /\ task[t] = "shot_kill"
  /\ Signal(held[t], "dying") /\ shots' = shots \cup {held[t]}
  /\ Goto(t, "shot_wait")
  /\ UNCHANGED <<running, held, stateVars, sketches, stops, unsaved>>

\* The file exists, or two seconds are over.
ShotOver(t) ==
  /\ task[t] = "shot_wait"
  /\ Goto(t, "over")
  /\ UNCHANGED <<running, held, stateVars, procVars, histVars>>

-----------------------------------------------------------------------------
(* The processes                                                           *)

BuildEnds(r) ==
  /\ clis[r] = "building"
  /\ \/ /\ clis' = [clis EXCEPT ![r] = "running"]
        /\ sketches' = [sketches EXCEPT ![r] = "live"]
     \/ /\ clis' = [clis EXCEPT ![r] = "zombie"]
        /\ UNCHANGED sketches
  /\ UNCHANGED <<uiVars, stateVars, histVars>>

SketchEnds(r) ==
  /\ sketches[r] = "live"
  /\ sketches' = [sketches EXCEPT ![r] = "gone"]
  /\ UNCHANGED <<uiVars, stateVars, clis, histVars>>

CliEnds(r) ==
  /\ clis[r] = "running" /\ sketches[r] = "gone"
  /\ clis' = [clis EXCEPT ![r] = "zombie"]
  /\ UNCHANGED <<uiVars, stateVars, sketches, histVars>>

\* A pending signal is delivered.  Nothing makes it: the CLI may be suspended.
CliDies(r) ==
  /\ clis[r] = "dying"
  /\ clis' = [clis EXCEPT ![r] = "zombie"]
  /\ UNCHANGED <<uiVars, stateVars, sketches, histVars>>

\* tokio reaps a child whose handle was dropped.
OrphanReaped(r) ==
  /\ clis[r] = "zombie" /\ slot # r
  /\ \A t \in Tasks : held[t] = r => task[t] \notin {"run_slot", "stop_term", "stop_wait", "stop_reap"}
  /\ clis' = [clis EXCEPT ![r] = "reaped"]
  /\ UNCHANGED <<uiVars, stateVars, sketches, histVars>>

-----------------------------------------------------------------------------

RunStep(t) ==
  /\ \/ RunKill(t) \/ RunSpawn(t) \/ RunSpawnFails(t)
     \/ RunSlot(t) \/ RunPid(t) \/ RunSave(t) \/ RunSaveFails(t)
  /\ UNCHANGED overlap
StopStep(t) ==
  /\ StopTake(t) \/ StopTerm(t) \/ StopWait(t) \/ StopTimeout(t) \/ StopPid(t)
  /\ UNCHANGED overlap
ShotStep(t) == (ShotRead(t) \/ ShotKill(t) \/ ShotOver(t)) /\ UNCHANGED overlap
User(t) == OnRun(t) \/ OnStop(t) \/ OnScreenshot(t)
Process(r) ==
  /\ BuildEnds(r) \/ SketchEnds(r) \/ CliEnds(r) \/ CliDies(r) \/ OrphanReaped(r)
  /\ UNCHANGED overlap

NextLauncher ==
  \/ \E t \in Tasks : User(t) \/ RunStep(t) \/ StopStep(t) \/ ShotStep(t)
  \/ \E r \in Runs : Process(r)

SpecLauncher == InitLauncher /\ [][NextLauncher]_launcherVars

\* The async runtime polls every task; a finished CLI is noticed by its wait(), and
\* the two seconds end.
FairCommands == \A t \in Tasks : WF_launcherVars(RunStep(t) \/ StopStep(t) \/ ShotStep(t))

FairSpecLauncher == SpecLauncher /\ FairCommands

-----------------------------------------------------------------------------
(* Properties                                                              *)

Pcs == {"new", "over", "run_kill", "run_spawn", "run_slot", "run_pid", "run_save",
        "stop_take", "stop_term", "stop_wait", "stop_reap", "stop_pid", "shot_read", "shot_kill", "shot_wait"}

\* Every variable holds a value of its type.
LauncherTypeOK ==
  /\ running \in BOOLEAN
  /\ slot \in {0} \cup Runs /\ pid \in {0} \cup Runs
  /\ task \in [Tasks -> Pcs] /\ held \in [Tasks -> {0} \cup Runs]
  /\ clis \in [Runs -> {"none", "building", "running", "dying", "zombie", "reaped"}]
  /\ sketches \in [Runs -> {"none", "live", "gone"}]
  /\ stops \subseteq Runs /\ shots \subseteq Runs /\ unsaved \subseteq Runs
  /\ overlap \in BOOLEAN

\* For a user who waits for each command, no run gets lost: between commands a CLI that
\* lives is the one in the Child slot, so that the next Run or Stop ends it, and at no time
\* do two live: "No multi-sketch parallel runs (one at a time)" (design spec, 6.5).
OneRunInSlot ==
  ~overlap =>
    /\ InFlight = {} => \A r \in Runs : CliAlive(r) => r = slot
    /\ \A q, r \in Runs : CliAlive(q) /\ CliAlive(r) => q = r

\* For such a user the page's flag, the Child slot and the process id agree between
\* commands, as far as build_and_run keeps them: what the page shows as running has a
\* Child to stop and a process to signal.  A Child the page does not show is that of a run
\* whose command failed to save, and an id without a Child is no live process's and is
\* left by a failed spawn after such a run.
RecordsAgree ==
  ~overlap /\ InFlight = {} =>
    /\ running => slot # 0
    /\ slot # 0 => pid = slot /\ (running \/ slot \in unsaved)
    /\ pid # slot => pid \in unsaved /\ ~CliAlive(pid)

\* A run on is in the Child slot and alone, flag, slot and process id of a run agree for
\* sequential use but for a failed save (commands.rs), and every variable keeps its type.
LauncherInv == LauncherTypeOK /\ OneRunInSlot /\ RecordsAgree

\* Whatever is issued, no command hangs: in particular a stop returns, whatever its CLI
\* does with the SIGTERM.
CommandsReturn == \A t \in Tasks : (task[t] # "new") ~> (task[t] = "over")

\* The sketch is "killed on stop" (state.rs:13): after a stop has returned, the sketch of
\* the run it took is gone or never started.
StopKillsSketch == \A r \in stops : sketches[r] # "live"

=============================================================================
