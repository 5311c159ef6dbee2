------------------------------- MODULE Project -------------------------------
(***************************************************************************)
(* A sketch project and the processes that work on its files: `boardghost  *)
(* build` and `boardghost run` (main.rs), which builds, restores a missing *)
(* EEPROM from the seed and only then launches what it built, the sketches *)
(* launched so far, with their EEPROM and their SPIFFS and LittleFS files  *)
(* (sim_fs.cpp), `boardghost seed`, and the user.                          *)
(***************************************************************************)
EXTENDS SketchBuild, Eeprom

CONSTANT Own     \* a file a sketch keeps in its filesystems

ASSUME ProjectAssumption == MaxEvents \in Nat

vars == <<buildVars, eepromVars, left>>

\* MaxEvents: builds, edits and operations of the sketches, together
Init == InitBuild /\ InitEeprom /\ left = MaxEvents

Command == \E cmd \in {"build", "run"} : Start(cmd) /\ launch = "idle" /\ UNCHANGED eepromVars

Building == (Stage \/ Abort \/ Done) /\ UNCHANGED eepromVars

Edit == User /\ UNCHANGED eepromVars

\* `run` goes on to the launch only if the build returned no error; the
\* process that built is the one that launches.
Launch ==
    /\ At("built") /\ b.cmd = "run"
    /\ b' = Idle /\ launch' = "check"
    /\ UNCHANGED <<disk, data, installed, mounts, binary, disturbed, edits, left>>
    /\ UNCHANGED <<files, up, ram, inCommit, tool, history, clash>>

\* FS::begin creates the mount's directory; FS::open for writing and
\* FS::remove change its files, if it is there.
UseFiles(m) ==
    /\ up # {} /\ Spend
    /\ \/ mounts[m] = None /\ mounts' = [mounts EXCEPT ![m] = {}]
       \/ /\ mounts[m] # None
          /\ \E f \in Assets \cup {Own} :
               mounts' \in {[mounts EXCEPT ![m] = @ \cup {f}], [mounts EXCEPT ![m] = @ \ {f}]}
    /\ disturbed' = (disturbed \/ ~At("idle"))
    /\ UNCHANGED <<disk, data, installed, binary, b, edits>>
    /\ UNCHANGED <<files, up, ram, inCommit, tool, launch, history, clash>>

\* The stages of a build touch no file of the EEPROM and read none, so a step
\* of the one commutes with a step of the other: the EEPROM's are taken before
\* or after the stages, not between them.
Persist == EepromStep /\ b.pc \notin Stages /\ UNCHANGED buildVars

Next ==
    \/ Command \/ Building \/ Launch \/ Edit \/ Persist
    \/ \E m \in Mounts : UseFiles(m)

Spec == Init /\ [][Next]_vars

-----------------------------------------------------------------------------
\* The types of both parts; at most one of a CLI's build and its launch goes
\* on, a launch only of an executable that exists (main.rs); and the mounts
\* hold what the last build put there (SketchBuild's MountsAreCurrent).
ProjectInv ==
    /\ MountsAreCurrent
    /\ BuildTypeOK /\ EepromTypeOK
    /\ mounts \in [Mounts -> {None} \cup SUBSET (Assets \cup {Own})]
    /\ left \in 0..MaxEvents
    /\ launch # "idle" => At("idle") /\ binary # None
=============================================================================
