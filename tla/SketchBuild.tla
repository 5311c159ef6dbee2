----------------------------- MODULE SketchBuild -----------------------------
(***************************************************************************)
(* The build pipeline of boardghost-cli (build.rs, run_build) over the     *)
(* files it reads and writes: discovery, LGFX codemod and sketch mirror,   *)
(* data mirror, include scan, library resolution, preprocessing, sibling   *)
(* collection, CMake generation and the compilation.  Each stage is one    *)
(* action, so the user may edit a file, or the process die, between any    *)
(* two.                                                                    *)
(*                                                                         *)
(* A path is <<tree, dir, name>>.  The tree is "user" (the project) or the *)
(* mirror of a sketch directory, .boardghost/<board>/sketch_src/<dir>,     *)
(* named by that directory; dir is "root" (the project) or "sub"           *)
(* (project/sketch, inside it).  A content is <<kind, version>>.  The      *)
(* PlatformIO layout (src/main.cpp) is left out: arduino-cli, which does   *)
(* the preprocessing, knows .ino sketches.  One build runs at a time.      *)
(***************************************************************************)
EXTENDS Integers, Sequences, FiniteSets, SequencesExt, Bound

CONSTANTS
    Version,     \* versions of a source file, 1 among them
    Includes,    \* Includes[v]: the headers version v of an .ino includes
    Lists,       \* what `arduino-cli lib list` may say: sequences of libraries
    Given,       \* headers of the shims and of the Arduino core
    None,        \* there is no such thing
    Assets,      \* files the user may keep in data/
    MaxEdits     \* bound: changes the user makes in a behaviour

VARIABLES
    disk,        \* the files: a function on the paths that exist
    data,        \* data[d]: the files in the data/ of d, or None
    installed,   \* the installed libraries, in arduino-cli's order
    mounts,      \* sim-assets/<mount>: its files, or None if there is none
    binary,      \* the executable: what it was made of, or None
    b,           \* the local variables of run_build, and where it is
    disturbed,   \* history: the build's inputs changed while it ran
    edits        \* changes of the user left

buildVars == <<disk, data, installed, mounts, binary, b, disturbed, edits>>

Dirs    == {"root", "sub"}
Names   == {"ino", "setup", "src", "pp"}
Mounts  == {"spiffs", "littlefs"}
Idle    == [pc |-> "idle", cmd |-> "none", dir |-> "root", tree |-> "user",
            report |-> None, headers |-> {}, libs |-> {}, sources |-> {}]
Stages  == {"discover", "codemod", "clear", "copy", "data", "wipe_spiffs", "spiffs",
            "wipe_littlefs", "littlefs", "scan", "resolve", "preprocess", "collect",
            "codegen", "compile"}

Paths    == ({"user", "root"} \X Dirs \X Names) \cup ({"sub"} \X {"sub"} \X Names)
Contents == {"raw", "hw", "odd", "sim", "pp"} \X Version
Headers  == UNION {Includes[v] : v \in Version}
LibNames == UNION {{list[i].name : i \in 1..Len(list)} : list \in Lists}

\* what an executable may be made of
Binaries == [units   : SUBSET (Dirs \X Names \X Contents),
             headers : SUBSET (Dirs \X Names \X Contents),
             libs    : SUBSET LibNames]

ASSUME BuildAssumption ==
    /\ 1 \in Version /\ MaxEdits \in Nat
    /\ \A v \in Version : "pp" \notin Includes[v]
    /\ \A list \in Lists : Len(list) \in Nat
    /\ None \notin Paths /\ None \notin Paths \X Contents /\ None \notin Binaries

Below(d) == IF d = "root" THEN Dirs ELSE {d}

\* the files of directory d, and below it, in a tree
Files(tree, d) == {p \in DOMAIN disk : p[1] = tree /\ p[2] \in Below(d)}

Without(f, gone) == [p \in DOMAIN f \ gone |-> f[p]]

With(f, p, c) == [q \in DOMAIN f \cup {p} |-> IF q = p THEN c ELSE f[q]]

\* What the user may write in a file: a hardware setup the parser reads ("hw"),
\* one it cannot read ("odd"), or plain text.
Texts(name) == (IF name = "setup" THEN {"hw", "odd"} ELSE {"raw"}) \X Version

\* The project the user starts from: an .ino alone, one with a hardware setup
\* and a sibling source, or one of those in sketch/ beside an older .ino.
Plain(d) == [p \in {<<"user", d, "ino">>} |-> <<"raw", 1>>]

Full(d) == With(With(Plain(d), <<"user", d, "setup">>, <<"hw", 1>>),
                <<"user", d, "src">>, <<"raw", 1>>)

InitBuild ==
    /\ disk \in {Plain("root"), Full("root"),
                With(Full("sub"), <<"user", "root", "ino">>, <<"raw", 1>>)}
    /\ data = [d \in Dirs |-> Assets]
    /\ installed \in Lists /\ \A list \in Lists : Len(list) <= Len(installed)
    /\ mounts = [m \in Mounts |-> None]
    /\ binary = None
    /\ b = Idle
    /\ disturbed = FALSE
    /\ edits = MaxEdits

-----------------------------------------------------------------------------
(* The stages of run_build *)

At(pc) == b.pc = pc

Goto(pc) == b' = [b EXCEPT !.pc = pc]

\* `boardghost build` or `boardghost run`
Start(cmd) ==
    /\ At("idle")
    /\ Spend
    /\ b' = [Idle EXCEPT !.pc = "discover", !.cmd = cmd]
    /\ disturbed' = FALSE
    /\ UNCHANGED <<disk, data, installed, mounts, binary, edits>>

\* project/sketch/ is preferred to the project's own .ino.
Discover ==
    /\ At("discover")
    /\ \E d \in Dirs :
         /\ <<"user", d, "ino">> \in DOMAIN disk
         /\ d = "root" => <<"user", "sub", "ino">> \notin DOMAIN disk
         /\ b' = [b EXCEPT !.pc = "codemod", !.dir = d]
    /\ UNCHANGED <<disk, data, installed, mounts, binary, disturbed, edits, left>>

SetupsIn(d) == {p \in Files("user", d) : p[3] = "setup" /\ disk[p][1] \in {"hw", "odd"}}

\* The first setup header of the sketch directory or of a directory in it.
Setup(d) ==
    CHOOSE p \in SetupsIn(d) \cup {None} :
      IF SetupsIn(d) = {} THEN p = None
      ELSE p \in SetupsIn(d) /\ (p[2] = "sub" => Cardinality(SetupsIn(d)) = 1)

Parses(text) == text[1] = "hw"

SimWrapper(text) == <<"sim", text[2]>>

\* A setup that parses is rewritten in a mirror; any other sketch is built in place.
Codemod ==
    /\ At("codemod")
    /\ LET p == Setup(b.dir)
       IN  b' = IF p # None /\ Parses(disk[p])
                THEN [b EXCEPT !.pc = "clear", !.tree = b.dir,
                               !.report = <<p, SimWrapper(disk[p])>>]
                ELSE [b EXCEPT !.pc = "data"]
    /\ UNCHANGED <<disk, data, installed, mounts, binary, disturbed, edits, left>>

\* All of a set of files, or (an error, or a kill, cuts the stage short) some:
\* one representative, all but one file.
AllOrSome(paths) == {paths} \cup {paths \ {p} : p \in paths}

\* mutant: the mirror is created where it is, over what it held
ClearMirror_Keeps ==
    /\ At("clear") /\ Goto("copy")
    /\ UNCHANGED <<disk, data, installed, mounts, binary, disturbed, edits, left>>

\* remove_dir_all of the old mirror
ClearMirror ==
    /\ At("clear")
    /\ \E gone \in AllOrSome(Files(b.tree, b.tree)) :
         /\ disk' = Without(disk, gone)
         /\ IF gone = Files(b.tree, b.tree) THEN Goto("copy") ELSE b' = Idle
    /\ UNCHANGED <<data, installed, mounts, binary, disturbed, edits, left>>

Mirrored(p) == IF b.report[1] = p THEN b.report[2] ELSE disk[p]

\* every file of the sketch directory, .boardghost apart
CopyMirror ==
    /\ At("copy")
    /\ \E copied \in AllOrSome(Files("user", b.dir)) :
         /\ LET mirror == {<<b.tree, p[2], p[3]>> : p \in copied}
            IN  disk' = [q \in DOMAIN disk \cup mirror |->
                           IF q \in mirror THEN Mirrored(<<"user", q[2], q[3]>>) ELSE disk[q]]
         /\ IF copied = Files("user", b.dir) THEN Goto("data") ELSE b' = Idle
    /\ UNCHANGED <<data, installed, mounts, binary, disturbed, edits, left>>

\* A sketch without data/ leaves the mounts as they are.
MirrorData ==
    /\ At("data")
    /\ Goto(IF data[b.dir] = None THEN "scan" ELSE "wipe_spiffs")
    /\ UNCHANGED <<disk, data, installed, mounts, binary, disturbed, edits, left>>

Wiping(m) == IF m = "spiffs" THEN "wipe_spiffs" ELSE "wipe_littlefs"

\* remove_dir_all and create_dir_all; cut short, they leave no mount
WipeMount(m) ==
    /\ At(Wiping(m))
    /\ \/ mounts' = [mounts EXCEPT ![m] = {}]   /\ Goto(m)
       \/ mounts' = [mounts EXCEPT ![m] = None] /\ b' = Idle
    /\ UNCHANGED <<disk, data, installed, binary, disturbed, edits, left>>

\* The copy adds to what is there; it needs data/ to be there still.
CopyMount(m) ==
    /\ At(m)
    /\ data[b.dir] # None /\ mounts[m] # None
    /\ \E copied \in AllOrSome(data[b.dir]) :
         /\ mounts' = [mounts EXCEPT ![m] = @ \cup copied]
         /\ IF copied = data[b.dir] THEN Goto(IF m = "spiffs" THEN "wipe_littlefs" ELSE "scan")
                                    ELSE b' = Idle
    /\ UNCHANGED <<disk, data, installed, binary, disturbed, edits, left>>

Entry == <<b.tree, b.dir, "ino">>

\* The .ino's own includes, less those found in the sketch directory.
Scan ==
    /\ At("scan")
    /\ Entry \in DOMAIN disk
    /\ b' = [b EXCEPT !.pc = "resolve",
                      !.headers = {h \in Includes[disk[Entry][2]] :
                                     <<b.tree, b.dir, h>> \notin DOMAIN disk}]
    /\ UNCHANGED <<disk, data, installed, mounts, binary, disturbed, edits, left>>

\* The first installed library that provides h (0: none does).
Provider(h) == SelectInSeq(installed, LAMBDA l : h \in l.provides)

\* Every header that is neither shimmed nor the core's needs a library.
Resolve ==
    /\ At("resolve")
    /\ \A h \in b.headers \ Given : Provider(h) # 0
    /\ b' = [b EXCEPT !.pc = "preprocess",
                      !.libs = {installed[Provider(h)].name : h \in b.headers \ Given}]
    /\ UNCHANGED <<disk, data, installed, mounts, binary, disturbed, edits, left>>

\* mutant: the output goes beside the original .ino
Preprocess_BesideOriginal ==
    /\ At("preprocess")
    /\ Entry \in DOMAIN disk
    /\ disk' = With(disk, <<"user", b.dir, "pp">>, <<"pp", disk[Entry][2]>>)
    /\ Goto("collect")
    /\ UNCHANGED <<data, installed, mounts, binary, disturbed, edits, left>>

\* arduino-cli's output goes to <stem>.boardghost.cpp beside the effective .ino.
Preprocess ==
    /\ At("preprocess")
    /\ Entry \in DOMAIN disk
    /\ disk' = With(disk, <<b.tree, b.dir, "pp">>, <<"pp", disk[Entry][2]>>)
    /\ Goto("collect")
    /\ UNCHANGED <<data, installed, mounts, binary, disturbed, edits, left>>

\* *.c, *.cpp under the effective sketch directory, no *.boardghost.cpp among them.
IsSibling(p) == p[3] = "src"

Collect ==
    /\ At("collect")
    /\ b' = [b EXCEPT !.pc = "codegen", !.sources = {p \in Files(b.tree, b.dir) : IsSibling(p)}]
    /\ UNCHANGED <<disk, data, installed, mounts, binary, disturbed, edits, left>>

\* CMakeLists.txt lists the preprocessed file, the siblings and the libraries.
Codegen ==
    /\ At("codegen")
    /\ b' = [b EXCEPT !.pc = "compile", !.sources = @ \cup {<<b.tree, b.dir, "pp">>}]
    /\ UNCHANGED <<disk, data, installed, mounts, binary, disturbed, edits, left>>

\* A unit or header as the executable holds it: where it was, and what it said.
Unit(p) == <<p[2], p[3], disk[p]>>

Compile ==
    /\ At("compile")
    /\ b.sources \subseteq DOMAIN disk
    /\ binary' = [units   |-> {Unit(p) : p \in b.sources},
                  headers |-> {Unit(p) : p \in {q \in Files(b.tree, b.dir) : q[3] = "setup"}},
                  libs    |-> b.libs]
    /\ Goto("built")
    /\ UNCHANGED <<disk, data, installed, mounts, disturbed, edits, left>>

\* mutant: the status of cmake --build is not looked at
Abort_IgnoresCompile ==
    /\ b.pc \in Stages
    /\ b' = IF At("compile") THEN [b EXCEPT !.pc = "built"] ELSE Idle
    /\ binary' \in IF At("compile") THEN {binary, None} ELSE {binary}
    /\ UNCHANGED <<disk, data, installed, mounts, disturbed, edits, left>>

\* A stage returns an error (every one of them can), or the CLI is killed;
\* cmake that fails or is cut short leaves the old executable or none.
Abort ==
    /\ b.pc \in Stages
    /\ b' = Idle
    /\ binary' \in IF At("compile") THEN {binary, None} ELSE {binary}
    /\ UNCHANGED <<disk, data, installed, mounts, disturbed, edits, left>>

\* `boardghost build` prints the path and ends.
Done ==
    /\ At("built") /\ b.cmd = "build"
    /\ b' = Idle
    /\ UNCHANGED <<disk, data, installed, mounts, binary, disturbed, edits, left>>

Stage ==
    \/ Discover \/ Codemod \/ ClearMirror \/ CopyMirror \/ MirrorData
    \/ \E m \in Mounts : WipeMount(m) \/ CopyMount(m)
    \/ Scan \/ Resolve \/ Preprocess \/ Collect \/ Codegen \/ Compile

-----------------------------------------------------------------------------
(* The user, outside the program *)

Edited ==
    /\ Spend
    /\ edits > 0 /\ edits' = edits - 1
    /\ disturbed' = (disturbed \/ ~At("idle"))
    /\ UNCHANGED <<mounts, binary, b>>

WriteFile ==
    /\ \E d \in Dirs, n \in Names \ {"pp"} : \E text \in Texts(n) :
         /\ disk' = With(disk, <<"user", d, n>>, text)
         /\ disk' # disk
    /\ Edited
    /\ UNCHANGED <<data, installed>>

DeleteFile ==
    /\ \E p \in Files("user", "root") : disk' = Without(disk, {p})
    /\ Edited
    /\ UNCHANGED <<data, installed>>

ChangeData ==
    /\ \E d \in Dirs : \E fs \in {None} \cup SUBSET Assets : data' = [data EXCEPT ![d] = fs]
    /\ Edited
    /\ UNCHANGED <<disk, installed>>

ChangeLibraries ==
    /\ installed' \in Lists \ {installed}
    /\ Edited
    /\ UNCHANGED <<disk, data>>

\* what the user, outside the program, may do
User == WriteFile \/ DeleteFile \/ ChangeData \/ ChangeLibraries

-----------------------------------------------------------------------------
(* Properties *)

BuildTypeOK ==
    /\ DOMAIN disk \subseteq Paths
    /\ \A p \in DOMAIN disk : disk[p] \in Contents
    /\ data \in [Dirs -> {None} \cup SUBSET Assets]
    /\ installed \in Lists
    /\ DOMAIN mounts = Mounts
    /\ b.pc \in Stages \cup {"idle", "built"}
    /\ (b.report = None) = (b.tree = "user")
    /\ disturbed \in BOOLEAN /\ edits \in 0..MaxEdits

\* What the user's files, read now, ask of a build.
SketchDir == IF <<"user", "sub", "ino">> \in DOMAIN disk THEN "sub" ELSE "root"

Wanted ==
    LET d    == SketchDir
        ino  == disk[<<"user", d, "ino">>]
        hw   == Setup(d)
        seen == [p \in Files("user", d) |->
                    <<p[2], p[3],
                      IF p = hw /\ Parses(disk[p]) THEN SimWrapper(disk[p]) ELSE disk[p]>>]
        away == {h \in Includes[ino[2]] \ Given : <<"user", d, h>> \notin DOMAIN disk}
    IN  [units   |-> {seen[p] : p \in {q \in DOMAIN seen : q[3] = "src"}}
                       \cup {<<d, "pp", <<"pp", ino[2]>>>>},
         headers |-> {seen[p] : p \in {q \in DOMAIN seen : q[3] = "setup"}},
         libs    |-> {installed[Provider(h)].name : h \in away}]

\* A build that succeeds, its inputs left alone meanwhile, made the executable
\* of exactly what the sketch holds now, whatever earlier builds of it, of
\* another layout or of another setup header left in the mirror or beside the
\* sketch: each source once, the generated setup wrapper in place of the
\* hardware header, no library the sketch does not include (run_build).
BinaryIsCurrent == At("built") /\ ~disturbed => binary = Wanted

\* Such a build of a sketch with a data/ directory leaves both filesystems
\* with its files and no others: none that was removed from data/, none that
\* an earlier run of the sketch wrote (mirror_sketch_data).
MountsAreCurrent ==
    At("built") /\ ~disturbed /\ data[b.dir] # None
      => \A m \in Mounts : mounts[m] = data[b.dir]

\* "The user's sketch dir is never touched on disk": a build that rewrites a
\* setup changes no file of the user's tree, and a build in place adds nothing
\* but the preprocessed file (run_build, Stage 1.5; preprocess).
SketchUntouched ==
    [][Stage => \A p \in {q \in DOMAIN disk \cup DOMAIN disk' : q[1] = "user"} :
                   \/ b.report = None /\ p[3] = "pp"
                   \/ p \in DOMAIN disk /\ p \in DOMAIN disk' /\ disk'[p] = disk[p]]_buildVars
=============================================================================
