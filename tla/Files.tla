-------------------------------- MODULE Files --------------------------------
(***************************************************************************)
(* The files a sketch opens and the directories it walks on one mount      *)
(* (runtime/src/sim_fs.cpp, shims/FS.h): which FILE or directory iterator  *)
(* of the host each File object of the sketch owns, and the path it        *)
(* reports.  A File can be moved and not copied.                           *)
(*                                                                         *)
(* A path is a sequence of names, none the beginning of another, and Top   *)
(* stands for the path of the mount on the host.  What a FILE reads and    *)
(* writes is the C library's.                                              *)
(*                                                                         *)
(* External: whether the compiler moves the local variable that a function *)
(* returns or builds it in place (C++ allows both; GCC 12 moves these      *)
(* two), whether fopen() fails, and the directory iterator, which returns  *)
(* what was there when it was made.                                        *)
(***************************************************************************)
EXTENDS Naturals, Sequences, SequencesExt

CONSTANTS
  Names,      \* the sketch's File variables
  Dirs,       \* paths at which a directory may be, <<>> for the mount itself
  Leaves,     \* paths at which a file may be
  Top,        \* the mount on the host
  MaxFsCalls  \* bound on the calls

\* The names that paths are made of.
Parts == UNION {Range(p) : p \in Dirs \cup Leaves}

ASSUME FilesAssumption ==
  /\ Dirs \cup Leaves \subseteq Seq(Parts)
  /\ <<>> \in Dirs /\ Dirs \cap Leaves = {} /\ MaxFsCalls \in Nat
  /\ \A p \in (Dirs \cup Leaves) \ {<<>>} : Front(p) \in Dirs

VARIABLES
  inPlace,   \* the compiler builds in place what open() and openNextFile() return
  there,     \* the directories and files of the mount
  handle,    \* each variable: the members of the File in it
  held,      \* the FILEs and iterators that exist: what each has still to return
  fsCalls    \* calls so far

fsVars == <<inPlace, there, handle, held, fsCalls>>

\* A File: fp_ and dir_iter_ (0 for null), is_dir_, path_ and abs_root_; `real` is
\* history, the path of what it was opened on.
Empty == [fp |-> 0, iter |-> 0, isDir |-> FALSE, path |-> <<>>, absRoot |-> <<>>,
          real |-> <<>>]

InitFiles ==
  /\ inPlace \in BOOLEAN
  /\ there \in {{}, Dirs \cup Leaves}
  /\ handle = [v \in Names |-> Empty]
  /\ held = <<>> /\ fsCalls = 0

\* FS::map_()
Host(p) == <<Top>> \o p

Children(p) == {q \in there \ {<<>>} : Front(q) = p}

Call == fsCalls < MaxFsCalls /\ fsCalls' = fsCalls + 1

-----------------------------------------------------------------------------
(* The File object                                                         *)

\* close() and the destructor: what f owns goes.
Without(f, os) == [i \in DOMAIN os \ {f.fp, f.iter} |-> os[i]]

Closed(f) == [f EXCEPT !.fp = 0, !.iter = 0, !.isDir = FALSE]

\* The move constructor: abs_root_ stays behind.
Constructed(f) == [f EXCEPT !.absRoot = <<>>]

\* The move assignment: the target keeps the abs_root_ it had.
Assigned(old, f) == [f EXCEPT !.absRoot = old.absRoot]

\* Mutant of MovedFrom: the source still owns what it gave away.
MovedFrom_Owns(f) == [f EXCEPT !.path = <<>>]

\* What is left of the File that was moved: a directory is still one, and true.
MovedFrom(f) == [f EXCEPT !.path = <<>>, !.fp = 0, !.iter = 0]

\* What the caller gets of the local variable f.
Returned(f) == IF inPlace THEN f ELSE Constructed(f)

\* The value goes into v, which is declared here or was there before.
Into(v, f, os) ==
  /\ held' = Without(handle[v], os)
  /\ \/ handle[v] = Empty /\ handle' = [handle EXCEPT ![v] = f]
     \/ handle' = [handle EXCEPT ![v] = Assigned(@, f)]

\* What exists when FILE or iterator i has been made, with x to return.
With(i, x, os) == [j \in DOMAIN os \cup {i} |-> IF j = i THEN x ELSE os[j]]

-----------------------------------------------------------------------------
(* The calls                                                               *)

\* A pointer that is not in use.
Fresh(os) == CHOOSE i \in 1 .. MaxFsCalls + 1 : i \notin DOMAIN os

\* v = a File at p that will report `path`; `ok` if fopen() succeeds.
Make(v, p, path, ok, os) ==
  LET i == Fresh(os)
      blank == [Empty EXCEPT !.path = path, !.real = p]
  IN CASE p \in there \cap Dirs ->
            Into(v, Returned([blank EXCEPT !.iter = i, !.isDir = TRUE, !.absRoot = Host(p)]),
                 With(i, Children(p), os))
       [] p \notin there \cap Dirs /\ ok ->
            Into(v, Returned([blank EXCEPT !.fp = i]), With(i, {}, os))
       [] OTHER -> Into(v, Returned(blank), os)

\* FS::open(): with a path of the sketch's own or one that a File reported, to read or to
\* write, which makes the file if its directory is there.
OpenFile(v) ==
  /\ Call
  /\ \E p \in Dirs \cup Leaves \cup {handle[w].path : w \in Names}, write \in BOOLEAN :
       LET makes == write /\ p \in Leaves /\ Front(p) \in there
       IN \E ok \in {FALSE, makes \/ p \in there} :
            /\ there' = IF ok THEN there \cup {p} ELSE there
            /\ Make(v, p, p, ok, held)
  /\ UNCHANGED inPlace

\* openNextFile() reports the parent's path and what is left of the entry's host path
\* when abs_root_ is taken off its front.
Below(d, q) ==
  LET full == Host(q)
  IN d.path \o (IF IsStrictPrefix(d.absRoot, full)
                THEN SubSeq(full, Len(d.absRoot) + 1, Len(full)) ELSE full)

OpenNext(v, d) ==
  /\ Call
  /\ LET f == handle[d] IN
       IF ~f.isDir \/ f.iter = 0 \/ held[f.iter] = {} THEN Into(v, Empty, held)
       ELSE \E q \in held[f.iter], ok \in BOOLEAN :
              Make(v, q, Below(f, q), ok /\ q \in there,
                   [held EXCEPT ![f.iter] = @ \ {q}])
  /\ UNCHANGED <<inPlace, there>>

\* v = std::move(w); for a v that is empty, also File v(std::move(w)).
Move(v, w) ==
  /\ v # w /\ Call
  /\ held' = Without(handle[v], held)
  /\ handle' = [handle EXCEPT ![v] = Assigned(@, handle[w]), ![w] = MovedFrom(@)]
  /\ UNCHANGED <<inPlace, there>>

\* close(), or the end of the variable's scope.
CloseFile(v) ==
  /\ Call
  /\ held' = Without(handle[v], held)
  /\ handle' \in {[handle EXCEPT ![v] = Closed(@)], [handle EXCEPT ![v] = Empty]}
  /\ UNCHANGED <<inPlace, there>>

\* FS::begin(), which is mkdir(<<>>), and mkdir(): with the directories above.
Mkdir(p) ==
  /\ Call
  /\ there' = there \cup {q \in Dirs : IsPrefix(q, p)}
  /\ UNCHANGED <<inPlace, handle, held>>

\* FS::remove(): a file or an empty directory.
RemovePath(p) ==
  /\ Call
  /\ there' = IF Children(p) = {} THEN there \ {p} ELSE there
  /\ UNCHANGED <<inPlace, handle, held>>

NextFiles ==
  \/ \E v \in Names : OpenFile(v) \/ CloseFile(v) \/ \E w \in Names : OpenNext(v, w) \/ Move(v, w)
  \/ \E p \in Dirs : Mkdir(p)
  \/ \E p \in Dirs \cup Leaves : RemovePath(p)

SpecFiles == InitFiles /\ [][NextFiles]_fsVars
-----------------------------------------------------------------------------
(* Properties                                                              *)

Owns(v) == {handle[v].fp, handle[v].iter} \ {0}

FilesTypeOK ==
  /\ inPlace \in BOOLEAN /\ there \subseteq Dirs \cup Leaves /\ fsCalls \in 0 .. MaxFsCalls
  /\ \A v \in Names : handle[v].isDir \in BOOLEAN

\* However Files are moved, overwritten and closed: nothing is closed twice, for no two
\* own the same FILE or iterator, and nothing is leaked or used after it was closed, for
\* what exists is exactly what is owned.
OneOwner ==
  /\ \A v, w \in Names : v # w => Owns(v) \cap Owns(w) = {}
  /\ UNION {Owns(v) : v \in Names} = DOMAIN held

\* name() is right, the path may be wrong: what a File reports ends with the name of what
\* it is open on.
NamesRight ==
  \A v \in Names : Owns(v) # {} /\ handle[v].real # <<>> =>
    handle[v].path # <<>> /\ Last(handle[v].path) = Last(handle[v].real)

\* The moves of a File (FS.h) neither share nor lose what it owns, and its name() is right.
FilesInv == FilesTypeOK /\ OneOwner /\ NamesRight

\* A File that is open reports the path, as the sketch sees it, of what it is open on: it
\* can be opened again by it (the comment in openNextFile()).  Moving a File loses the
\* part of it that the paths of a listing are made with.
PathsAreSketchs == \A v \in Names : Owns(v) # {} => handle[v].path = handle[v].real
=============================================================================
