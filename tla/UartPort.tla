------------------------------ MODULE UartPort ------------------------------
(***************************************************************************)
(* One HardwareSerial(N) port, N > 0, with the GM861S barcode scanner      *)
(* emulated behind it (runtime/src/sim_uart.cpp), and the processes that   *)
(* feed it: `boardghost uart inject` writing the FIFO or the queue file,   *)
(* and the devtools page POST /scanner/inject writing the queue file.      *)
(*                                                                         *)
(* The 9-byte command frame 7E..AB CD is three tokens, "hdr", its command  *)
(* and "end"; the 7-byte acknowledgement is one unit, and so is a scan.    *)
(* Every method holds the port's mutex from its first access to its last,  *)
(* so it is one step, except write(): the queue file it drains is shared   *)
(* with processes that do not take the mutex.                              *)
(***************************************************************************)
EXTENDS Naturals, Sequences, SequencesExt, FiniteSets

CONSTANTS
  Injectors,   \* processes that stage a scan in uart-N-queue.bin
  Writes,      \* the token sequences the sketch passes to write()
  HistMax,     \* write_history is trimmed above this length (32 in the code)
  MaxTokens,   \* no write() once the sketch wrote that many tokens
  MaxScans,    \* bound on scans staged in the queue file
  MaxInjects   \* bound on scans injected through the FIFO

FrameLen == 3
Commands == {"start", "stop", "other"}
Tokens == Commands \cup {"hdr", "end"}

ASSUME UartAssumption ==
  /\ Writes \subseteq Seq(Tokens) \ {<<>>}
  /\ HistMax \in Nat /\ HistMax >= FrameLen
  /\ {MaxTokens, MaxScans, MaxInjects} \subseteq Nat

VARIABLES
  opened,    \* p.opened: the FIFO exists and is open
  fifo,      \* what is in the FIFO and was not read
  rx,        \* p.rx_buf
  delayed,   \* p.delayed_rx
  armed,     \* p.delayed_rx_armed
  hist,      \* p.write_history
  pc,        \* "idle", or where write() is: "match", "drain", "truncate"
  queue,     \* the content of uart-N-queue.bin
  stage,     \* per injector: the scan it is staging, 0 when it is idle
  sent,      \* history: every token the sketch wrote
  fired,     \* history: trigger frames acknowledged
  scans,     \* history: scans staged so far, their identities
  injects,   \* history: scans injected through the FIFO so far
  got,       \* history: every unit the sketch read
  loop       \* history: what the sketch read since it last found nothing

portVars == <<opened, fifo, rx, delayed, armed, hist, pc>>
fileVars == <<queue, stage>>
history == <<sent, fired, scans, injects, got, loop>>
vars == <<portVars, fileVars, history>>

Ack == [kind |-> "ack", id |-> 0, after |-> 0]
FifoScan(i) == [kind |-> "fifo", id |-> i, after |-> 0]
\* A scan drained from the queue file remembers how many acknowledgements
\* had been sent by then.
StagedScan(i) == [kind |-> "scan", id |-> i, after |-> fired]

Init ==
  /\ opened = FALSE /\ fifo = <<>> /\ rx = <<>> /\ delayed = <<>>
  /\ armed = FALSE /\ hist = <<>> /\ pc = "idle"
  /\ queue = <<>> /\ stage = [j \in Injectors |-> 0]
  /\ sent = <<>> /\ fired = 0 /\ scans = 0 /\ injects = 0
  /\ got = <<>> /\ loop = <<>>

-----------------------------------------------------------------------------
\* Mutant of Pumped: staged bytes join rx_buf at once.
Pumped_ReleaseFirst ==
  [rx |-> delayed \o rx \o fifo, delayed |-> <<>>, armed |-> FALSE]

\* Mutant of Pumped: the armed flag is cleared by every poll.
Pumped_AlwaysDisarmed ==
  [rx |-> rx \o fifo, delayed |-> delayed, armed |-> FALSE]

(* pump(): everything in the FIFO moves to rx_buf; if that leaves rx_buf   *)
(* empty, the first call arms the release of delayed_rx and the next one   *)
(* releases it.                                                            *)
Pumped ==
  LET input == rx \o fifo IN
  IF input # <<>> \/ delayed = <<>>
    THEN [rx |-> input, delayed |-> delayed, armed |-> armed]
  ELSE IF ~armed
    THEN [rx |-> <<>>, delayed |-> delayed, armed |-> TRUE]
    ELSE [rx |-> delayed, delayed |-> <<>>, armed |-> FALSE]

\* ensure_open() and pump(), then n units leave the front of rx_buf.
Take(n) ==
  /\ pc = "idle"
  /\ opened' = TRUE /\ fifo' = <<>>
  /\ delayed' = Pumped.delayed /\ armed' = Pumped.armed
  /\ rx' = SubSeq(Pumped.rx, n + 1, Len(Pumped.rx))
  /\ got' = got \o SubSeq(Pumped.rx, 1, n)
  /\ loop' = IF Pumped.rx = <<>> THEN <<>> ELSE loop \o SubSeq(Pumped.rx, 1, n)
  /\ UNCHANGED <<hist, pc, fileVars, sent, fired, scans, injects>>

\* available() and peek() take nothing, read() the front, read(buf, cap) up
\* to cap; each tells the sketch when there is nothing to read.
Available == Take(0)
Read == Take(IF Pumped.rx = <<>> THEN 0 ELSE 1)
ReadBuf == Take(Len(Pumped.rx))

-----------------------------------------------------------------------------
(* write(): append to the history, then match commands until none is left. *)

WriteCall(buf) ==
  /\ pc = "idle" /\ Len(sent) < MaxTokens
  /\ opened' = TRUE
  /\ hist' = hist \o buf /\ sent' = sent \o buf
  /\ pc' = "match"
  /\ loop' = <<>>
  /\ UNCHANGED <<fifo, rx, delayed, armed, fileVars, fired, scans, injects,
                 got>>

\* maybe_match_gm861s(): the positions where a frame starts.
FrameStarts ==
  {i \in 1 .. Len(hist) - FrameLen + 1 :
     hist[i] = "hdr" /\ hist[i + FrameLen - 1] = "end"}

MatchFrame ==
  /\ pc = "match" /\ FrameStarts # {}
  /\ LET first == Min(FrameStarts)
         command == hist[first + 1]
         trigger == command \in {"start", "stop"}
     IN /\ hist' = SubSeq(hist, first + FrameLen, Len(hist))
        /\ rx' = IF trigger THEN Append(rx, Ack) ELSE rx
        /\ fired' = IF trigger THEN fired + 1 ELSE fired
        /\ pc' = IF command = "start" THEN "drain" ELSE "match"
  /\ UNCHANGED <<opened, fifo, delayed, armed, fileVars, sent, scans, injects,
                 got, loop>>

\* Mutant of MatchOverflow: the whole window is dropped, with the start of a
\* frame that is still coming in.
MatchOverflow_ClearAll ==
  /\ pc = "match" /\ FrameStarts = {} /\ Len(hist) > HistMax
  /\ hist' = <<>>
  /\ UNCHANGED <<opened, fifo, rx, delayed, armed, pc, fileVars, history>>

MatchOverflow ==
  /\ pc = "match" /\ FrameStarts = {} /\ Len(hist) > HistMax
  /\ hist' = Tail(hist)
  /\ UNCHANGED <<opened, fifo, rx, delayed, armed, pc, fileVars, history>>

MatchNothing ==
  /\ pc = "match" /\ FrameStarts = {} /\ Len(hist) <= HistMax
  /\ pc' = "idle"
  /\ UNCHANGED <<opened, fifo, rx, delayed, armed, hist, fileVars, history>>

\* drain_queue_file(): read to the end of the file, then truncate it.
DrainRead ==
  /\ pc = "drain"
  /\ delayed' = delayed \o [i \in 1 .. Len(queue) |-> StagedScan(queue[i])]
  /\ pc' = "truncate"
  /\ UNCHANGED <<opened, fifo, rx, armed, hist, fileVars, history>>

DrainTruncate ==
  /\ pc = "truncate"
  /\ queue' = <<>>
  /\ pc' = "match"
  /\ UNCHANGED <<opened, fifo, rx, delayed, armed, hist, stage, history>>

-----------------------------------------------------------------------------
(* The processes outside the sketch.                                       *)

\* `boardghost uart inject --queue` and POST /scanner/inject open the queue
\* file with truncation and then write the scan at its start.
StageOpen(j) ==
  /\ stage[j] = 0 /\ scans < MaxScans
  /\ scans' = scans + 1
  /\ stage' = [stage EXCEPT ![j] = scans + 1]
  /\ queue' = <<>>
  /\ UNCHANGED <<portVars, sent, fired, injects, got, loop>>

StageWrite(j) ==
  /\ stage[j] # 0
  /\ queue' = <<stage[j]>>
  /\ stage' = [stage EXCEPT ![j] = 0]
  /\ UNCHANGED <<portVars, sent, fired, scans, injects, got, loop>>

\* `boardghost uart inject` without --queue, once the FIFO is there.
InjectFifo ==
  /\ opened /\ injects < MaxInjects
  /\ injects' = injects + 1
  /\ fifo' = Append(fifo, FifoScan(injects + 1))
  /\ UNCHANGED <<opened, rx, delayed, armed, hist, pc, fileVars, sent, fired,
                 scans, got, loop>>

-----------------------------------------------------------------------------
Polling == Available \/ Read \/ ReadBuf
Writing == MatchFrame \/ MatchOverflow \/ MatchNothing \/ DrainRead \/ DrainTruncate

Next ==
  \/ Polling
  \/ \E buf \in Writes : WriteCall(buf)
  \/ Writing
  \/ \E j \in Injectors : StageOpen(j) \/ StageWrite(j)
  \/ InjectFifo

Spec == Init /\ [][Next]_vars

\* The sketch's loop() polls the port for ever and reads what it is told is
\* there; a write() that started returns.
FairSpec == Spec /\ WF_vars(Available) /\ SF_vars(ReadBuf) /\ WF_vars(Writing)

-----------------------------------------------------------------------------
Units == [kind : {"ack", "fifo", "scan"}, id : Nat, after : Nat]

\* Types; besides, a release is armed only while something is staged, and
\* between calls of write() the history is short and holds no command.
UartTypeOK ==
  /\ opened \in BOOLEAN /\ armed \in BOOLEAN
  /\ pc \in {"idle", "match", "drain", "truncate"}
  /\ {fifo, rx, delayed, got, loop} \subseteq Seq(Units)
  /\ {hist, sent} \subseteq Seq(Tokens)
  /\ queue \in Seq(1 .. MaxScans)
  /\ stage \in [Injectors -> 0 .. MaxScans]
  /\ fired \in Nat /\ scans \in 0 .. MaxScans /\ injects \in 0 .. MaxInjects
  /\ armed => delayed # <<>>
  /\ pc = "idle" => Len(hist) <= HistMax /\ FrameStarts = {}

\* Everything the sketch has read or will read, in that order, if nothing
\* else arrives.
Stream == got \o rx \o delayed

\* A staged scan never overtakes the acknowledgement of the trigger that
\* released it, nor of any earlier trigger, however the sketch interleaves
\* triggers and reads: triggerScanner()'s response comparison always meets
\* the ACK first (sim_uart.cpp lines 61-66).
AckPrecedesScan ==
  \A i \in 1 .. Len(Stream) :
    Stream[i].kind = "scan" =>
      Cardinality({k \in 1 .. i : Stream[k].kind = "ack"}) >= Stream[i].after

\* A staged scan reaches the sketch at most once, and not while it can still
\* be drained again ("so the next trigger doesn't replay the same scan",
\* sim_uart.cpp line 244).
ScanNotReplayed ==
  LET held == {i \in 1 .. Len(Stream) : Stream[i].kind = "scan"} IN
  /\ \A i, k \in held : Stream[i].id = Stream[k].id => i = k
  /\ pc \in {"idle", "match"} =>
       \A i \in held : Stream[i].id \notin ToSet(queue)

\* "This keeps the trigger ACK and the scan payload in separate reads on the
\* sketch side" (sim_uart.cpp lines 197-199): the sketch reads an
\* acknowledgement and a scan in one read loop only if it wrote a second
\* trigger or was sent a scan through the FIFO.  (Either lets the release
\* that is already armed through without its cooldown.)
AckAndScanApart ==
  fired <= 1 /\ injects = 0 =>
    ~ \E i, k \in 1 .. Len(loop) : loop[i].kind = "ack" /\ loop[k].kind = "scan"

\* How many trigger frames a stream of tokens holds from each place on, read from left to
\* right without overlap.
TriggersFrom(s) ==
  LET from[i \in 1 .. Len(s) + 1] ==
        IF i + FrameLen - 1 > Len(s) THEN 0
        ELSE IF s[i] = "hdr" /\ s[i + FrameLen - 1] = "end"
          THEN from[i + FrameLen]
               + (IF s[i + 1] \in {"start", "stop"} THEN 1 ELSE 0)
          ELSE from[i + 1]
  IN from

TriggersIn(s) == TriggersFrom(s)[1]

\* The scanner acknowledges every trigger frame of the byte stream exactly
\* once, no matter how the sketch cuts the stream into write() calls and how
\* often the history window is trimmed (sim_uart.cpp lines 96-120, 325-332).
AcksFollowStream == pc = "idle" => fired = TriggersIn(sent)

\* Acknowledgements precede the scans they release (sim_uart.cpp) and are read apart from
\* them, no scan comes twice, and every variable keeps its type.
UartInv == UartTypeOK /\ AckPrecedesScan /\ AckAndScanApart /\ ScanNotReplayed

\* A drained scan is eventually handed to a sketch that keeps polling, even
\* if triggers and FIFO traffic arrive after the release was armed.
ScanReleased == (delayed # <<>>) ~> (delayed = <<>>)
=============================================================================
