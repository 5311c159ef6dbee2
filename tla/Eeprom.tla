-------------------------------- MODULE Eeprom --------------------------------
(***************************************************************************)
(* The emulated EEPROM (sim_eeprom.cpp), each running sketch with a copy   *)
(* in memory of the file .boardghost/eeprom.bin, and the seed a project    *)
(* may ship (eeprom_seed.rs): saved from the file, restored over it by the *)
(* user, or by `boardghost run` before the launch when there is no file.   *)
(* Both replace a file by truncating it and then writing, so a process     *)
(* that dies between, or a disk that is full, leaves it cut short.  An     *)
(* image is a sequence of bytes.                                           *)
(***************************************************************************)
EXTENDS Integers, Sequences, SequencesExt, Bound

CONSTANTS
    Sketch,      \* running sketches of the project
    Sizes,       \* sizes a sketch gives EEPROM.begin
    Byte,        \* values of a byte, 0 among them
    NoImage      \* there is no file, or EEPROM has no memory

ASSUME EepromAssumption ==
    /\ Sizes \subseteq Nat /\ \E largest \in Sizes : \A n \in Sizes : n <= largest
    /\ 0 \in Byte
    /\ NoImage \notin Seq(Byte)

VARIABLES
    live,        \* .boardghost/eeprom.bin
    seed,        \* eeprom.seed.bin
    up,          \* the sketches running
    ram,         \* ram[s]: data_ of sketch s's EEPROM
    inCommit,    \* sketches between the fopen and the fwrite of a commit
    tool,        \* `boardghost seed`: what it is doing
    launch,      \* the CLI about to launch a sketch: auto_restore_if_missing
    meant,       \* history: what ram[s] should hold
    owed,        \* history: what live should hold
    seedOwed,    \* history: what seed should hold
    clash        \* history: two processes replaced, or read, a file at once

files      == <<live, seed>>
history    == <<meant, owed, seedOwed>>
eepromVars == <<live, seed, up, ram, inCommit, tool, launch, meant, owed, seedOwed, clash>>

Image == UNION {[1..n -> Byte] : n \in Sizes}

InitEeprom ==
    /\ live = NoImage /\ seed \in {NoImage} \cup [1..Max(Sizes) -> Byte \ {0}]
    /\ up = {} /\ inCommit = {}
    /\ ram = [s \in Sketch |-> NoImage]
    /\ tool = "idle" /\ launch = "idle"
    /\ meant = ram /\ owed = live /\ seedOwed = seed
    /\ clash = FALSE

\* Someone has emptied the file to write it anew.
BeingReplaced == inCommit # {} \/ tool = "restore" \/ launch = "copy"

\* ... or a launch has seen it missing, and will create it.
LiveBusy == BeingReplaced \/ launch = "seed"

SeedBusy == tool = "save"

\* What of an image may reach a file before the writer is killed or the disk is full.
Parts(image) == {SubSeq(image, 1, n) : n \in 0..Len(image)}

-----------------------------------------------------------------------------
(* The sketch: EEPROMClass *)

\* calloc and fread: the file's bytes, as many as fit, zeros after them
Fit(file, size) ==
    [i \in 1..size |-> IF file # NoImage /\ i <= Len(file) THEN file[i] ELSE 0]

\* begin: what memory held is freed, not committed.
Begin(s) ==
    /\ s \in up \ inCommit /\ Spend
    /\ \E size \in Sizes :
         /\ ram'   = [ram EXCEPT ![s] = Fit(live, size)]
         /\ meant' = [meant EXCEPT ![s] = Fit(owed, size)]
    /\ clash' = (clash \/ BeingReplaced)
    /\ UNCHANGED <<files, up, inCommit, tool, launch, owed, seedOwed>>

\* write: out of range, or before begin, it does nothing.
Write(s) ==
    /\ s \in up \ inCommit /\ ram[s] # NoImage /\ Spend
    /\ \E i \in DOMAIN ram[s], v \in Byte :
         /\ ram'   = [ram EXCEPT ![s][i] = v]
         /\ meant' = [meant EXCEPT ![s][i] = v]
    /\ UNCHANGED <<files, up, inCommit, tool, launch, owed, seedOwed, clash>>

\* commit, first half: fopen "wb" empties the file.
CommitOpens(s) ==
    /\ s \in up \ inCommit /\ ram[s] # NoImage /\ Spend
    /\ live' = <<>>
    /\ inCommit' = inCommit \cup {s}
    /\ clash' = (clash \/ LiveBusy)
    /\ UNCHANGED <<seed, up, ram, tool, launch, history>>

\* fopen fails: commit returns false, and end() lets the memory go all the same.
CommitCannotOpen(s) ==
    /\ s \in up \ inCommit /\ ram[s] # NoImage
    /\ ram' = [ram EXCEPT ![s] = NoImage] /\ meant' = [meant EXCEPT ![s] = NoImage]
    /\ UNCHANGED <<files, up, inCommit, tool, launch, owed, seedOwed, clash, left>>

\* commit, second half; end() commits and lets the memory go.  A write that is cut short
\* promises nothing: commit returns false, or true when only fclose met the error.
CommitWrites(s) ==
    /\ s \in inCommit
    /\ live' \in Parts(ram[s])
    /\ owed' = IF live' = ram[s] THEN meant[s] ELSE live'
    /\ inCommit' = inCommit \ {s}
    /\ \E ending \in BOOLEAN :
         /\ ram'   = IF ending THEN [ram EXCEPT ![s] = NoImage] ELSE ram
         /\ meant' = IF ending THEN [meant EXCEPT ![s] = NoImage] ELSE meant
    /\ UNCHANGED <<seed, up, tool, launch, seedOwed, clash, left>>

\* The sketch ends or is killed: memory not committed is lost, and a commit
\* under way leaves what had reached the file.
Ends(s) ==
    /\ s \in up
    /\ live' \in IF s \in inCommit THEN Parts(ram[s]) ELSE {live}
    /\ owed' = IF s \in inCommit THEN live' ELSE owed
    /\ up' = up \ {s} /\ inCommit' = inCommit \ {s}
    /\ ram' = [ram EXCEPT ![s] = NoImage] /\ meant' = [meant EXCEPT ![s] = NoImage]
    /\ UNCHANGED <<seed, tool, launch, seedOwed, clash, left>>

-----------------------------------------------------------------------------
(* `boardghost seed save` and `restore` *)

\* save refuses when there is no live file; fs::copy empties the seed.
SaveOpens ==
    /\ tool = "idle" /\ live # NoImage /\ Spend
    /\ seed' = <<>> /\ tool' = "save"
    /\ UNCHANGED <<live, up, ram, inCommit, launch, history, clash>>

SaveCopies ==
    /\ tool = "save"
    /\ seed' = live /\ seedOwed' = owed
    /\ tool' = "idle"
    /\ clash' = (clash \/ BeingReplaced)
    /\ UNCHANGED <<live, up, ram, inCommit, launch, meant, owed, left>>

\* restore refuses when there is no seed, and overwrites the live file.
RestoreOpens ==
    /\ tool = "idle" /\ seed # NoImage /\ Spend
    /\ live' = <<>> /\ tool' = "restore"
    /\ clash' = (clash \/ LiveBusy)
    /\ UNCHANGED <<seed, up, ram, inCommit, launch, history>>

RestoreCopies ==
    /\ tool = "restore"
    /\ live' = seed /\ owed' = seedOwed
    /\ tool' = "idle"
    /\ UNCHANGED <<seed, up, ram, inCommit, launch, meant, seedOwed, clash, left>>

\* The tool is killed in the copy, or the copy fails: a part of it is there.
ToolDies ==
    /\ tool # "idle"
    /\ tool' = "idle"
    /\ \/ /\ tool = "restore" /\ live' \in Parts(seed) /\ owed' = live'
          /\ UNCHANGED <<seed, seedOwed>>
       \/ /\ tool = "save" /\ seed' \in Parts(live) /\ seedOwed' = seed'
          /\ UNCHANGED <<live, owed>>
    /\ UNCHANGED <<up, ram, inCommit, launch, meant, clash, left>>

-----------------------------------------------------------------------------
(* The launch: auto_restore_if_missing, then the sketch starts *)

\* mutant: the seed is restored at every launch
LiveExists_Never == FALSE

\* live.is_file(): an existing live file is left alone.
LiveExists == live # NoImage

CheckLive ==
    /\ launch = "check"
    /\ launch' = IF LiveExists THEN "exec" ELSE "seed"
    /\ UNCHANGED <<files, up, ram, inCommit, tool, history, clash, left>>

CheckSeed ==
    /\ launch = "seed"
    /\ IF seed = NoImage
       THEN launch' = "exec" /\ UNCHANGED live
       ELSE launch' = "copy" /\ live' = <<>>
    /\ clash' = (clash \/ inCommit # {} \/ tool # "idle")
    /\ UNCHANGED <<seed, up, ram, inCommit, tool, history, left>>

\* The seed is owed to a project that had no live file, and to no other.
SeedCopied ==
    /\ launch = "copy"
    /\ live' = seed
    /\ owed' = IF owed = NoImage THEN seedOwed ELSE owed
    /\ launch' = "exec"
    /\ clash' = (clash \/ SeedBusy)
    /\ UNCHANGED <<seed, up, ram, inCommit, tool, meant, seedOwed, left>>

\* The CLI is killed before it launches, or the copy or the launch fails.
LaunchDies ==
    /\ launch # "idle"
    /\ launch' = "idle"
    /\ IF launch = "copy" THEN live' \in Parts(seed) /\ owed' = live'
                          ELSE UNCHANGED <<live, owed>>
    /\ UNCHANGED <<seed, up, ram, inCommit, tool, meant, seedOwed, clash, left>>

Exec ==
    /\ launch = "exec"
    /\ \E s \in Sketch \ up : up' = up \cup {s}
    /\ launch' = "idle"
    /\ UNCHANGED <<files, ram, inCommit, tool, history, clash, left>>

EepromStep ==
    \/ \E s \in Sketch : Begin(s) \/ Write(s) \/ CommitOpens(s) \/ CommitCannotOpen(s)
                         \/ CommitWrites(s) \/ Ends(s)
    \/ SaveOpens \/ SaveCopies \/ RestoreOpens \/ RestoreCopies \/ ToolDies
    \/ CheckLive \/ CheckSeed \/ SeedCopied \/ LaunchDies \/ Exec

-----------------------------------------------------------------------------
(* Properties *)

Stored == {NoImage} \cup UNION {[1..n -> Byte] : n \in 0..Max(Sizes)}

EepromTypeOK ==
    /\ live \in Stored /\ seed \in Stored
    /\ up \subseteq Sketch /\ inCommit \subseteq up
    /\ \A s \in Sketch : ram[s] \in {NoImage} \cup Image /\ (ram[s] # NoImage => s \in up)
    /\ tool \in {"idle", "save", "restore"}
    /\ launch \in {"idle", "check", "seed", "copy", "exec"}
    /\ clash \in BOOLEAN

\* As long as no two processes work on a file at once, the EEPROM file holds
\* what the last commit, or restore, put there, and a launch that finds it does
\* not replace it by the seed; a sketch's memory is that image, as much of it
\* as it asked for, and its own writes since; the seed is the image that was
\* saved.  A kill or a full disk between the truncation and the end of the write
\* ends the promise for that image (begin, commit, save, restore,
\* auto_restore_if_missing).
ImageIsOwed ==
    ~clash =>
      /\ ~BeingReplaced => live = owed
      /\ ~SeedBusy => seed = seedOwed
      /\ ram = meant
=============================================================================
