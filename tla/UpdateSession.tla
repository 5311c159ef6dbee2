--------------------------- MODULE UpdateSession ---------------------------
(***************************************************************************)
(* Update, the OTA flash shim (runtime/src/sim_update.cpp, shims/Update.h):*)
(* a firmware image is written to a file between begin() and end(), checked*)
(* against a size and an MD5, or removed by abort().  Its callers are the  *)
(* sketch and the ArduinoOTA receiver, in any order of calls.              *)
(*                                                                         *)
(* An image is a sequence of blocks, and its MD5 is represented by the     *)
(* image itself: two images have the same digest only if they are equal.   *)
(***************************************************************************)
EXTENDS Integers, Sequences

CONSTANTS
  Blocks,      \* what a block of firmware can hold
  MaxLen,      \* bound on the length of an image, in blocks
  DiskFaults,  \* opening, writing, reading back and removing the file can fail, and a
               \* write or the reading back can be short
  NoMd5        \* expected_md5_ is empty

ASSUME UpdateAssumption ==
  /\ MaxLen \in Nat /\ DiskFaults \in BOOLEAN
  /\ NoMd5 \notin Seq(Blocks)

VARIABLES
  fd,          \* fd_ >= 0
  path,        \* path_ is set
  error, finished, written, expected,   \* the members of the same names
  md5,         \* expected_md5_
  exists,      \* the OTA file is there
  data,        \* what it holds
  fault,       \* history: "misread" when the last end() could not read all of the file back,
               \* "kept" when the last abort() could not remove it, else "none"
  last,        \* history: the last call and what it returned
  armed        \* history: setMD5() was called since the last begin() that was not refused

updateVars == <<fd, path, error, finished, written, expected, md5, exists, data, fault,
                last, armed>>

\* What a call did: its name, its boolean result, what write() returned, and its argument.
Call(op, ok, n, arg) == last' = [op |-> op, ok |-> ok, n |-> n, arg |-> arg]

UpdateInit ==
  /\ fd = FALSE /\ path = FALSE /\ error = FALSE /\ finished = FALSE
  /\ written = 0 /\ expected = 0 /\ md5 = NoMd5
  /\ exists = FALSE /\ data = <<>> /\ fault = "none"
  /\ last = [op |-> "none", ok |-> TRUE, n |-> 0, arg |-> 0]
  /\ armed = FALSE

BeginRefused(size) ==
  /\ fd
  /\ error' = TRUE
  /\ Call("begin", FALSE, 0, size)
  /\ UNCHANGED <<fd, path, finished, written, expected, md5, exists, data, fault, armed>>

\* Mutant of BeginFresh: one block less is declared, so that none becomes minus one.
BeginFresh_OffByOne(size) ==
  /\ ~fd
  /\ finished' = FALSE /\ written' = 0 /\ expected' = size - 1 /\ md5' = NoMd5
  /\ armed' = FALSE /\ path' = TRUE
  /\ fd' = TRUE /\ error' = FALSE /\ exists' = TRUE /\ data' = <<>> /\ fault' = "none"
  /\ Call("begin", TRUE, 0, size)

\* A new session; open() truncates, or fails and leaves an earlier file as it was.
BeginFresh(size) ==
  /\ ~fd
  /\ finished' = FALSE /\ written' = 0 /\ expected' = size /\ md5' = NoMd5
  /\ armed' = FALSE /\ path' = TRUE
  /\ \/ /\ fd' = TRUE /\ error' = FALSE /\ exists' = TRUE /\ data' = <<>> /\ fault' = "none"
        /\ Call("begin", TRUE, 0, size)
     \/ /\ DiskFaults
        /\ error' = TRUE
        /\ Call("begin", FALSE, 0, size)
        /\ UNCHANGED <<fd, exists, data, fault>>

Begin(size) == BeginRefused(size) \/ BeginFresh(size)

\* How many of n bytes, if any are to be written, reach the file.
Accepted(n) == IF DiskFaults THEN 0..n ELSE {n}

\* write(): nothing outside a session, else all, a part, or an error and nothing.
Write(bytes) ==
  /\ IF ~fd \/ bytes = <<>>
       THEN /\ Call("write", FALSE, 0, Len(bytes))
            /\ UNCHANGED <<error, written, data>>
       ELSE \/ \E k \in Accepted(Len(bytes)) \ {0} :
                 /\ data' = data \o SubSeq(bytes, 1, k) /\ written' = written + k
                 /\ Call("write", TRUE, k, Len(bytes))
                 /\ UNCHANGED error
            \/ /\ DiskFaults
               /\ error' = TRUE
               /\ Call("write", FALSE, 0, Len(bytes))
               /\ UNCHANGED <<data, written>>
  /\ UNCHANGED <<fd, path, finished, expected, md5, exists, fault, armed>>

Least(a, b) == IF a < b THEN a ELSE b

\* What writeStream() reads of a stream that holds `bytes`.
StreamBudget(bytes) ==
  IF expected = 0 THEN Len(bytes)
  ELSE IF written >= expected THEN 0
  ELSE Least(Len(bytes), expected - written)

WriteStream(bytes) ==
  /\ IF ~fd
       THEN /\ Call("stream", FALSE, 0, Len(bytes))
            /\ UNCHANGED <<error, written, data>>
       ELSE \E k \in Accepted(StreamBudget(bytes)) :
              /\ data' = data \o SubSeq(bytes, 1, k) /\ written' = written + k
              /\ error' = (error \/ k < StreamBudget(bytes))
              /\ Call("stream", TRUE, 0, Len(bytes))
  /\ UNCHANGED <<fd, path, finished, expected, md5, exists, fault, armed>>

EndWithoutBegin ==
  /\ ~fd
  /\ error' = TRUE
  /\ Call("end", FALSE, 0, 0)
  /\ UNCHANGED <<fd, path, finished, written, expected, md5, exists, data, fault, armed>>

SizeWrong(force) == expected > 0 /\ written # expected /\ ~force

\* What md5_hex() digests: the file, or nothing when it cannot be opened.  An error of
\* fread() is not told from the end of the file.
ReadBack ==
  {data} \cup (IF DiskFaults THEN {NoMd5} \cup {SubSeq(data, 1, n) : n \in 0 .. Len(data) - 1}
               ELSE {})

Md5Wrong(actual) == md5 # NoMd5 /\ actual # md5

\* end(): close, then the size unless forced, then the MD5 if one is set.  The file stays
\* where it is, whatever comes out.
EndOpen(force) ==
  /\ fd
  /\ fd' = FALSE /\ finished' = TRUE
  /\ \E actual \in IF SizeWrong(force) THEN {data} ELSE ReadBack :
       /\ error' = (error \/ SizeWrong(force) \/ Md5Wrong(actual))
       /\ fault' = IF actual = data THEN "none" ELSE "misread"
  /\ Call("end", ~error', 0, IF force THEN 1 ELSE 0)
  /\ UNCHANGED <<path, written, expected, md5, exists, data, armed>>

End(force) == EndWithoutBegin \/ EndOpen(force)

\* The file is removed, if it can be.
Abort ==
  /\ fd' = FALSE /\ error' = TRUE /\ finished' = TRUE
  /\ \/ /\ exists' = (exists /\ ~path) /\ fault' = "none"
        /\ data' = IF path THEN <<>> ELSE data
     \/ /\ DiskFaults /\ path /\ exists
        /\ fault' = "kept"
        /\ UNCHANGED <<exists, data>>
  /\ Call("abort", TRUE, 0, 0)
  /\ UNCHANGED <<path, written, expected, md5, armed>>

SetMD5(m) ==
  /\ md5' = m /\ armed' = TRUE
  /\ Call("setMD5", TRUE, 0, 0)
  /\ UNCHANGED <<fd, path, error, finished, written, expected, exists, data, fault>>

-----------------------------------------------------------------------------
(* A sketch that makes any call at any time                                *)

Images == UNION {[1..n -> Blocks] : n \in 0..MaxLen}

UpdateNext ==
  \/ \E size \in 0..MaxLen : Begin(size)
  \/ \E s \in Images : Len(data) + Len(s) <= MaxLen /\ (Write(s) \/ WriteStream(s))
  \/ \E force \in BOOLEAN : End(force)
  \/ Abort
  \/ \E m \in Images \cup {NoMd5} : SetMD5(m)

UpdateSpec == UpdateInit /\ [][UpdateNext]_updateVars

-----------------------------------------------------------------------------
(* Properties                                                              *)

Ops == {"none", "begin", "write", "stream", "end", "abort", "setMD5"}

\* Every variable holds a value of its type.
UpdateTypeOK ==
  /\ fd \in BOOLEAN /\ path \in BOOLEAN /\ error \in BOOLEAN
  /\ finished \in BOOLEAN /\ exists \in BOOLEAN /\ armed \in BOOLEAN
  /\ written \in Nat /\ expected \in Nat
  /\ md5 \in Seq(Blocks) \cup {NoMd5} /\ data \in Seq(Blocks)
  /\ fault \in {"none", "misread", "kept"}
  /\ last \in [op : Ops, ok : BOOLEAN, n : Nat, arg : Nat]

\* When end() says yes the file is what the session promised: closed, of the declared
\* size unless forced, with the MD5 that was set since begin() as far as the file could be
\* read back, and with no error on the way.
TrueEndVerified ==
  last.op = "end" /\ last.ok =>
    /\ ~fd /\ ~error /\ exists
    /\ expected > 0 /\ last.arg = 0 => Len(data) = expected
    /\ md5 # NoMd5 => armed /\ (data = md5 \/ fault = "misread")

\* progress() counts what is in the file, over short writes and restarts.
ProgressIsFileLength == fd => written = Len(data)

\* A caller that looks at hasError() alone misses no refused begin() and no failed end().
FailureIsVisible == last.op \in {"begin", "end"} /\ ~last.ok => error

\* While the file is open it exists, and a digest is there only if this session set it.
SessionConsistent == (fd => exists) /\ (md5 # NoMd5 => armed)

\* What every caller may rely on between two calls, in whatever order they are made: the
\* session, the file and the last result agree.
UpdateInv ==
  /\ UpdateTypeOK
  /\ SessionConsistent
  /\ ProgressIsFileLength
  /\ TrueEndVerified
  /\ FailureIsVisible
=============================================================================
