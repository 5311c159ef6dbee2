--------------------------- MODULE WsBridge_proofs ---------------------------
(***************************************************************************)
(* WsInv is an invariant of WsBridge, for any number of connections and    *)
(* frames.  The strengthening follows a frame from the wire through the    *)
(* reader's hand into the stream of records, and says where in its calls   *)
(* the sketch thread has what: a closed connection, a free slot, an empty  *)
(* deque.                                                                  *)
(***************************************************************************)
EXTENDS WsBridge, SequenceTheorems, FiniteSetTheorems, TLAPS

Flags ==
  /\ connected \in BOOLEAN /\ shouldStop \in BOOLEAN /\ wasOpen \in BOOLEAN
  /\ reconnect \in BOOLEAN /\ libOpen \in BOOLEAN /\ peerClosed \in BOOLEAN

Places ==
  /\ client \in 0..MaxConns /\ conns \in 0..MaxConns
  /\ sketch \in {"loop", "cb", "poll", "close", "stop", "libclose", "reply", "join",
                 "open", "opened"}
  /\ ret \in {"loop", "cb"}
  /\ reader \in {"none", "test", "enter", "blocked", "failed", "push", "got", "done"}
  /\ hand \in 0..MaxFrames /\ sent \in 0..MaxFrames

Seqs ==
  /\ wire \in Seq(1..MaxFrames)
  /\ queue \in Seq(Records) /\ drained \in Seq(Records) /\ log \in Seq(Records)

Closing == {"close", "stop", "libclose", "reply", "join"}

\* The reader's connection is the last one, and there is one whenever an end is queued.
Owned ==
  /\ ReaderOwnsClient
  /\ sketch = "open" => ~ReaderRuns
  /\ (connected => conns # 0) /\ (wasOpen => conns # 0)
  /\ sketch = "opened" => conns # 0

\* A call that connects has room for one more connection.
Room ==
  /\ sketch \in Closing /\ reconnect => conns < MaxConns
  /\ sketch = "open" => conns < MaxConns

\* Outside poll() its deque is empty.
Swapped ==
  /\ sketch = "loop" => drained = <<>>
  /\ sketch \in Closing \cup {"open", "opened"} /\ ret = "loop" => drained = <<>>

Control == Flags /\ Places /\ Seqs /\ Owned /\ Room /\ Swapped

\* Every frame of the stream s has a number below n.
Below(s, n) == \A i \in 1..Len(s) : Frame(s[i]) => s[i][3] < n

\* Nothing in s is of a connection after c.
UpTo(s, c) == \A i \in 1..Len(s) : s[i][1] <= c

Increasing(w) == \A i, j \in 1..Len(w) : i < j => w[i] < w[j]

\* A frame is numbered after those before it, on the wire, in the hand and in the stream.
Numbered ==
  /\ UpTo(Stream, conns) /\ Below(Stream, sent + 1)
  /\ Increasing(wire)
  /\ \A i \in 1..Len(wire) : wire[i] <= sent /\ Below(Stream, wire[i])
  /\ reader = "got" /\ hand # Torn =>
       hand <= sent /\ Below(Stream, hand) /\ \A i \in 1..Len(wire) : hand < wire[i]

WsIInv == Control /\ StreamInOrder /\ Numbered

-----------------------------------------------------------------------------
(* The stream                                                              *)

LEMMA RecordParts ==
  ASSUME NEW r \in Records
  PROVE  r[1] \in 1..MaxConns /\ (r[2] = "message" => r[3] \in 0..MaxFrames)
  BY DEF Records, Opened, Closed, Message

LEMMA StreamType ==
  ASSUME Seqs
  PROVE  Stream \in Seq(Records)
  <1>1. log \o drained \in Seq(Records)
    BY ConcatProperties DEF Seqs
  <1> QED
    BY <1>1, ConcatProperties DEF Stream, Seqs

LEMMA AppendConcat ==
  ASSUME NEW S, NEW s \in Seq(S), NEW q \in Seq(S), NEW r \in S
  PROVE  s \o Append(q, r) = Append(s \o q, r)
  OBVIOUS

\* What is appended to the queue is appended to the stream.
LEMMA Queued ==
  ASSUME Seqs, NEW r \in Records, queue' = Append(queue, r), UNCHANGED <<log, drained>>
  PROVE  Stream' = Append(Stream, r)
  <1>1. PICK s \in Seq(Records) : s = log \o drained
    BY ConcatProperties DEF Seqs
  <1>2. s \o Append(queue, r) = Append(s \o queue, r)
    BY AppendConcat DEF Seqs
  <1> QED
    BY <1>1, <1>2 DEF Stream

\* A record that a callback has had is behind those before it, and the queue that poll()
\* takes is where it was.
LEMMA Moved ==
  ASSUME NEW S, NEW l \in Seq(S), NEW d \in Seq(S), d # <<>>
  PROVE  Append(l, Head(d)) \o Tail(d) = l \o d
  OBVIOUS

LEMMA Taken ==
  ASSUME NEW S, NEW l \in Seq(S), NEW q \in Seq(S)
  PROVE  (l \o q) \o <<>> = (l \o <<>>) \o q
  <1>1. l \o q \in Seq(S)
    BY ConcatProperties
  <1>2. (l \o q) \o <<>> = l \o q
    BY <1>1, ConcatEmptySeq
  <1>3. l \o <<>> = l
    BY ConcatEmptySeq
  <1> QED
    BY <1>2, <1>3

LEMMA InOrderAppend ==
  ASSUME NEW s \in Seq(Records), NEW r \in Records, NEW c \in Nat,
         \A i, j \in 1..Len(s) : i < j =>
           /\ s[i][1] <= s[j][1]
           /\ Frame(s[i]) /\ Frame(s[j]) => s[i][3] < s[j][3],
         UpTo(s, r[1]), Frame(r) => Below(s, r[3]), r[1] <= c, UpTo(s, c)
  PROVE  /\ \A i, j \in 1..Len(Append(s, r)) : i < j =>
              /\ Append(s, r)[i][1] <= Append(s, r)[j][1]
              /\ Frame(Append(s, r)[i]) /\ Frame(Append(s, r)[j]) =>
                   Append(s, r)[i][3] < Append(s, r)[j][3]
         /\ UpTo(Append(s, r), c)
         /\ \A n \in Nat : Below(s, n) /\ (Frame(r) => r[3] < n) => Below(Append(s, r), n)
  <1> DEFINE a == Append(s, r)
  <1>1. /\ Len(a) = Len(s) + 1 /\ a[Len(s) + 1] = r /\ Len(s) \in Nat
        /\ \A i \in 1..Len(s) : a[i] = s[i]
    OBVIOUS
  <1>2. \A i \in 1..Len(a) : i \in 1..Len(s) \/ i = Len(s) + 1
    BY <1>1
  <1> HIDE DEF a
  <1>3. UpTo(a, c)
    BY <1>1, <1>2 DEF UpTo
  <1>4. ASSUME NEW n \in Nat, Below(s, n), Frame(r) => r[3] < n PROVE Below(a, n)
    BY <1>1, <1>2, <1>4 DEF Below
  <1>5. ASSUME NEW i \in 1..Len(a), NEW j \in 1..Len(a), i < j
        PROVE  /\ a[i][1] <= a[j][1]
               /\ Frame(a[i]) /\ Frame(a[j]) => a[i][3] < a[j][3]
    <2>1. i \in 1..Len(s) /\ a[i] = s[i]
      BY <1>1, <1>2, <1>5
    <2>2. CASE j \in 1..Len(s)
      BY <1>1, <1>5, <2>1, <2>2
    <2>3. CASE j = Len(s) + 1
      BY <1>1, <2>1, <2>3 DEF UpTo, Below
    <2> QED
      BY <1>2, <2>2, <2>3
  <1> QED
    BY <1>3, <1>4, <1>5 DEF a

\* A record that may come next has come.
LEMMA StreamGrows ==
  ASSUME Seqs, StreamInOrder, NEW r \in Records, Stream' = Append(Stream, r),
         conns' \in Nat, r[1] = conns', UpTo(Stream, conns'), Frame(r) => Below(Stream, r[3])
  PROVE  /\ StreamInOrder' /\ UpTo(Stream, conns)'
         /\ \A n \in Nat : Below(Stream, n) /\ (Frame(r) => r[3] < n) => Below(Stream', n)
  <1>1. PICK s \in Seq(Records) : s = Stream
    BY StreamType
  <1>2. \A i, j \in 1..Len(s) : i < j =>
          /\ s[i][1] <= s[j][1]
          /\ Frame(s[i]) /\ Frame(s[j]) => s[i][3] < s[j][3]
    BY <1>1 DEF StreamInOrder
  <1>3. /\ \A i, j \in 1..Len(Append(s, r)) : i < j =>
              /\ Append(s, r)[i][1] <= Append(s, r)[j][1]
              /\ Frame(Append(s, r)[i]) /\ Frame(Append(s, r)[j]) =>
                   Append(s, r)[i][3] < Append(s, r)[j][3]
        /\ UpTo(Append(s, r), conns')
        /\ \A n \in Nat : Below(s, n) /\ (Frame(r) => r[3] < n) => Below(Append(s, r), n)
    <2>1. UpTo(s, r[1]) /\ (Frame(r) => Below(s, r[3])) /\ r[1] <= conns' /\ UpTo(s, conns')
      BY <1>1
    <2> QED
      BY <1>2, <2>1, InOrderAppend
  <1> QED
    BY <1>1, <1>3 DEF StreamInOrder, UpTo

LEMMA StreamStays ==
  ASSUME UNCHANGED <<log, drained, queue>>
  PROVE  Stream' = Stream
  BY DEF Stream

\* Steps that leave the records and the frames alone.
LEMMA OrderStays ==
  ASSUME StreamInOrder, Numbered, Stream' = Stream, UNCHANGED <<conns, sent, wire, hand>>,
         reader' = "got" => reader = "got"
  PROVE  StreamInOrder' /\ Numbered'
  BY DEF StreamInOrder, Numbered, UpTo, Below, Increasing

-----------------------------------------------------------------------------
LEMMA WsInit == Init => WsIInv
  <1> SUFFICES ASSUME Init PROVE WsIInv
    OBVIOUS
  <1>1. Flags
    BY DEF Init, Flags
  <1>2. Places
    BY WsAssumption DEF Init, Places, Torn
  <1>3. Seqs /\ Stream = <<>>
    BY ConcatEmptySeq DEF Init, Seqs, Stream
  <1>4. Owned /\ Room /\ Swapped
    BY DEF Init, Owned, Room, Swapped, ReaderOwnsClient, ReaderRuns, Closing
  <1>5. StreamInOrder /\ Numbered
    BY <1>3 DEF Init, StreamInOrder, Numbered, UpTo, Below, Increasing
  <1> QED
    BY <1>1, <1>2, <1>3, <1>4, <1>5 DEF WsIInv, Control

\* close() up to join(), and a callback's return.
QuietSketch ==
  \/ \E isConnect \in BOOLEAN : Call(isConnect)
  \/ CloseExchange \/ CloseStop \/ LibClose \/ ReplyOrTimeout \/ ConnectFails \/ CallbackReturns

LEMMA QuietSketchStep ==
  ASSUME WsIInv, QuietSketch
  PROVE  WsIInv'
  <1> USE DEF WsIInv, Control, QuietSketch, Call, CloseExchange, CloseStop, LibClose,
              ReplyOrTimeout, ConnectFails, CallbackReturns, libVars
  <1>1. UNCHANGED <<log, drained, queue, conns, sent, wire, hand, reader, client>>
    OBVIOUS
  <1>2. Flags'
    BY DEF Flags
  <1>3. Places'
    BY DEF Places
  <1>4. Seqs'
    BY <1>1 DEF Seqs, Records, Opened, Closed, Message
  <1>5. Owned'
    BY DEF Owned, ReaderOwnsClient, ReaderRuns, Places
  <1>6. Room'
    BY DEF Room, Closing, Places
  <1>7. Swapped'
    BY DEF Swapped, Closing, Places
  <1>8. StreamInOrder' /\ Numbered'
    BY <1>1, StreamStays, OrderStays
  <1> QED
    BY <1>2, <1>3, <1>4, <1>5, <1>6, <1>7, <1>8

\* The reader's turns without a frame, and what the peer does besides sending.
QuietReader ==
  ReaderTest \/ ReadEnter \/ ReadClosed \/ ReadTimeout \/ ReaderFailed \/ PeerCloses \/ HeartbeatFails

LEMMA QuietReaderStep ==
  ASSUME WsIInv, QuietReader
  PROVE  WsIInv'
  <1> USE DEF WsIInv, Control, QuietReader, ReaderTest, ReadEnter, ReadClosed, ReadTimeout,
              ReaderFailed, PeerCloses, HeartbeatFails, libVars, sketchVars
  <1>1. /\ UNCHANGED <<log, drained, queue, conns, sent, wire, hand, client, sketch, ret, wasOpen,
                       reconnect>>
        /\ reader' = "got" => reader = "got"
    OBVIOUS
  <1>2. Flags'
    BY DEF Flags
  <1>3. Places'
    BY DEF Places
  <1>4. Seqs'
    BY <1>1 DEF Seqs, Records, Opened, Closed, Message
  <1>5. Owned'
    BY DEF Owned, ReaderOwnsClient, ReaderRuns, Places
  <1>6. Room' /\ Swapped'
    BY <1>1 DEF Room, Swapped, Closing
  <1>7. StreamInOrder' /\ Numbered'
    BY <1>1, StreamStays, OrderStays
  <1> QED
    BY <1>2, <1>3, <1>4, <1>5, <1>6, <1>7

-----------------------------------------------------------------------------
(* Frames                                                                  *)

LEMMA TailIs ==
  ASSUME NEW S, NEW w \in Seq(S), w # <<>>
  PROVE  /\ Tail(w) \in Seq(S) /\ Len(w) \in Nat \ {0} /\ Len(Tail(w)) = Len(w) - 1
         /\ Head(w) = w[1] /\ Head(w) \in S
         /\ \A i \in 1..Len(Tail(w)) : Tail(w)[i] = w[i + 1] /\ i + 1 \in 1..Len(w)
  OBVIOUS

\* What is left of the wire is increasing and above its first frame.
LEMMA WireShrinks ==
  ASSUME NEW w \in Seq(Nat), w # <<>>, Increasing(w)
  PROVE  /\ Increasing(Tail(w))
         /\ \A i \in 1..Len(Tail(w)) : Head(w) < Tail(w)[i]
         /\ \A i \in 1..Len(Tail(w)) : \E j \in 1..Len(w) : Tail(w)[i] = w[j]
  <1> DEFINE t == Tail(w)
  <1>1. /\ Len(w) \in Nat \ {0} /\ Len(t) = Len(w) - 1 /\ Head(w) = w[1]
        /\ \A i \in 1..Len(t) : t[i] = w[i + 1] /\ i + 1 \in 1..Len(w)
    BY TailIs
  <1> HIDE DEF t
  <1>2. \A i \in 1..Len(t) : Head(w) < t[i]
    BY <1>1, SMTT(30) DEF Increasing
  <1>3. ASSUME NEW i \in 1..Len(t), NEW j \in 1..Len(t), i < j PROVE t[i] < t[j]
    <2>1. PICK k \in 1..Len(w), m \in 1..Len(w) : k = i + 1 /\ m = j + 1
      BY <1>1
    <2>2. w[k] < w[m]
      BY <1>1, <1>3, <2>1 DEF Increasing
    <2> QED
      BY <1>1, <2>1, <2>2
  <1>4. \A i \in 1..Len(t) : \E j \in 1..Len(w) : t[i] = w[j]
    BY <1>1
  <1> QED
    BY <1>2, <1>3, <1>4 DEF t, Increasing

LEMMA SkipFrameStep ==
  ASSUME WsIInv, SkipFrame
  PROVE  WsIInv'
  <1> USE DEF WsIInv, Control
  <1>1. /\ sketch = "reply" /\ wire # <<>> /\ wire' = Tail(wire)
        /\ UNCHANGED <<connected, shouldStop, client, queue, sketch, ret, wasOpen, reconnect,
                       drained, log, reader, hand, libOpen, peerClosed, sent, conns>>
    BY DEF SkipFrame, sketchVars
  <1>2. Flags' /\ Places'
    BY <1>1 DEF Flags, Places
  <1>3. wire \in Seq(Nat) /\ wire' \in Seq(1..MaxFrames)
    BY <1>1, WsAssumption DEF Seqs
  <1>4. Seqs'
    BY <1>1, <1>3 DEF Seqs, Records, Opened, Closed, Message
  <1>5. Owned' /\ Room' /\ Swapped'
    BY <1>1 DEF Owned, Room, Swapped, ReaderOwnsClient, ReaderRuns, Closing
  <1>6. Stream' = Stream
    BY <1>1, StreamStays
  <1>7. /\ Increasing(wire') /\ \A i \in 1..Len(wire') : \E j \in 1..Len(wire) : wire'[i] = wire[j]
    BY <1>1, <1>3, WireShrinks DEF Numbered
  <1>8. StreamInOrder'
    BY <1>6 DEF StreamInOrder
  <1>9. Numbered'
    BY <1>1, <1>6, <1>7 DEF Numbered, UpTo, Below
  <1> QED
    BY <1>2, <1>4, <1>5, <1>8, <1>9

LEMMA ReadFrameStep ==
  ASSUME WsIInv, ReadFrame
  PROVE  WsIInv'
  <1> USE DEF WsIInv, Control
  <1>1. /\ reader = "blocked" /\ wire # <<>> /\ wire' = Tail(wire) /\ reader' = "got"
        /\ hand' = Head(wire) \/ hand' = Torn
        /\ UNCHANGED <<connected, shouldStop, client, queue, sketch, ret, wasOpen, reconnect,
                       drained, log, libOpen, peerClosed, sent, conns>>
    BY DEF ReadFrame, sketchVars
  <1>2. /\ wire \in Seq(Nat) /\ wire' \in Seq(1..MaxFrames)
        /\ 1 \in 1..Len(wire) /\ Head(wire) = wire[1] /\ Head(wire) \in 1..MaxFrames
    BY <1>1, WsAssumption DEF Seqs
  <1>3. Flags'
    BY <1>1 DEF Flags
  <1>4. Places'
    BY <1>1, <1>2, WsAssumption DEF Places, Torn
  <1>5. Seqs'
    BY <1>1, <1>2 DEF Seqs, Records, Opened, Closed, Message
  <1>6. Owned' /\ Room' /\ Swapped'
    BY <1>1 DEF Owned, Room, Swapped, ReaderOwnsClient, ReaderRuns, Closing
  <1>7. Stream' = Stream
    BY <1>1, StreamStays
  <1>8. /\ Increasing(wire') /\ \A i \in 1..Len(wire') : Head(wire) < wire'[i]
        /\ \A i \in 1..Len(wire') : \E j \in 1..Len(wire) : wire'[i] = wire[j]
    BY <1>1, <1>2, WireShrinks DEF Numbered
  <1>9. StreamInOrder'
    BY <1>7 DEF StreamInOrder
  <1>10. Head(wire) <= sent /\ Below(Stream, Head(wire))
    BY <1>2 DEF Numbered
  <1>11. Numbered'
    BY <1>1, <1>7, <1>8, <1>10 DEF Numbered, UpTo, Below
  <1> QED
    BY <1>3, <1>4, <1>5, <1>6, <1>9, <1>11

LEMMA PeerSendsStep ==
  ASSUME WsIInv, PeerSends
  PROVE  WsIInv'
  <1> USE DEF WsIInv, Control
  <1>1. /\ client # 0 /\ sent < MaxFrames /\ sent' = sent + 1 /\ wire' = Append(wire, sent')
        /\ UNCHANGED <<connected, shouldStop, client, queue, sketch, ret, wasOpen, reconnect,
                       drained, log, reader, hand, libOpen, peerClosed, conns>>
    BY DEF PeerSends, sketchVars
  <1>2. Flags'
    BY <1>1 DEF Flags
  <1>3. Places' /\ sent \in Nat /\ sent' \in 1..MaxFrames
    BY <1>1, WsAssumption DEF Places
  <1>4. /\ wire \in Seq(Nat) /\ wire' \in Seq(1..MaxFrames)
        /\ Len(wire') = Len(wire) + 1 /\ Len(wire) \in Nat
        /\ wire'[Len(wire) + 1] = sent + 1
        /\ \A i \in 1..Len(wire) : wire'[i] = wire[i]
    BY <1>1, <1>3, WsAssumption DEF Seqs
  <1>5. Seqs'
    BY <1>1, <1>4 DEF Seqs, Records, Opened, Closed, Message
  <1>6. Owned' /\ Room' /\ Swapped'
    BY <1>1 DEF Owned, Room, Swapped, ReaderOwnsClient, ReaderRuns, Closing
  <1>7. Stream' = Stream
    BY <1>1, StreamStays
  <1>8. StreamInOrder'
    BY <1>7 DEF StreamInOrder
  <1>9. \A i \in 1..Len(wire') : i \in 1..Len(wire) \/ i = Len(wire) + 1
    BY <1>4
  <1>10. Increasing(wire')
    <2>1. Increasing(wire) /\ \A i \in 1..Len(wire) : wire[i] <= sent
      BY DEF Numbered
    <2>2. ASSUME NEW i \in 1..Len(wire'), NEW j \in 1..Len(wire'), i < j
          PROVE  wire'[i] < wire'[j]
      <3>1. i \in 1..Len(wire) /\ wire'[i] = wire[i] /\ wire[i] \in Nat
        BY ONLY <1>4, <1>9, <2>2
      <3>2. CASE j \in 1..Len(wire)
        BY ONLY <1>4, <2>1, <2>2, <3>1, <3>2 DEF Increasing
      <3>3. CASE j = Len(wire) + 1
        BY ONLY <1>3, <1>4, <2>1, <3>1, <3>3
      <3> QED
        BY <1>9, <3>2, <3>3
    <2> QED
      BY ONLY <2>2 DEF Increasing
  <1>11. Below(Stream, sent + 1 + 1)
    <2>1. Stream \in Seq(Records)
      BY StreamType
    <2>2. \A i \in 1..Len(Stream) : Frame(Stream[i]) => Stream[i][3] \in Nat
      BY <2>1, RecordParts DEF Frame
    <2> QED
      BY <1>3, <2>2 DEF Numbered, Below
  <1>12. \A i \in 1..Len(wire') : wire'[i] <= sent' /\ Below(Stream, wire'[i])
    BY <1>1, <1>3, <1>4, <1>9 DEF Numbered
  <1>13. reader = "got" /\ hand # Torn =>
           hand <= sent' /\ \A i \in 1..Len(wire') : hand < wire'[i]
    BY <1>1, <1>3, <1>4, <1>9 DEF Numbered, Places
  <1>14. Numbered'
    BY <1>1, <1>7, <1>10, <1>11, <1>12, <1>13 DEF Numbered, UpTo, Below
  <1> QED
    BY <1>2, <1>3, <1>5, <1>6, <1>8, <1>14

-----------------------------------------------------------------------------
(* Records                                                                 *)

\* An event of the last connection is queued, by either thread.
LEMMA EventQueued ==
  ASSUME Seqs, StreamInOrder, Numbered, Places, conns' \in 1..MaxConns, conns <= conns',
         NEW r \in {Opened(conns'), Closed(conns')}, queue' = Append(queue, r),
         UNCHANGED <<log, drained, sent>>,
         UNCHANGED <<wire, hand>>, reader' = "got" => reader = "got"
  PROVE  StreamInOrder' /\ Numbered' /\ queue' \in Seq(Records)
  <1>1. r \in Records /\ r[1] = conns' /\ ~Frame(r)
    BY DEF Records, Opened, Closed, Frame
  <1>2. Stream' = Append(Stream, r)
    BY <1>1, Queued
  <1>3. UpTo(Stream, conns')
    <2>1. \A i \in 1..Len(Stream) : Stream[i][1] \in Nat
      BY StreamType, RecordParts
    <2> QED
      BY <2>1, WsAssumption DEF Numbered, UpTo, Places
  <1>4. /\ StreamInOrder' /\ UpTo(Stream, conns)'
        /\ \A n \in Nat : Below(Stream, n) => Below(Stream', n)
    BY <1>1, <1>2, <1>3, StreamGrows, WsAssumption
  <1>5. queue' \in Seq(Records)
    BY <1>1 DEF Seqs
  <1>6. \A i \in 1..Len(wire) : wire[i] \in Nat
    BY WsAssumption DEF Seqs
  <1>7. hand \in Nat
    BY WsAssumption DEF Places
  <1>8. Below(Stream', sent + 1)
    BY <1>4 DEF Numbered, Places
  <1>9. /\ \A i \in 1..Len(wire) : Below(Stream', wire[i])
        /\ reader = "got" /\ hand # Torn => Below(Stream', hand)
    BY <1>4, <1>6, <1>7 DEF Numbered
  <1>10. Numbered'
    BY <1>4, <1>8, <1>9 DEF Numbered, UpTo, Below, Increasing
  <1> QED
    BY <1>4, <1>5, <1>10

LEMMA CloseEndStep ==
  ASSUME WsIInv, CloseEnd
  PROVE  WsIInv'
  <1> USE DEF WsIInv, Control
  <1>1. /\ sketch = "join" /\ reader \in {"none", "done"} /\ reader' = "none" /\ client' = 0
        /\ sketch' = IF reconnect THEN "open" ELSE ret
        /\ UNCHANGED <<connected, shouldStop, ret, wasOpen, reconnect, drained, log, hand, libOpen,
                       wire, peerClosed, sent, conns>>
    BY DEF CloseEnd, ReaderGone, AfterClose, libVars
  <1>2. Flags'
    BY <1>1 DEF Flags
  <1>3. Places'
    BY <1>1, WsAssumption DEF Places
  <1>4. Owned' /\ Room'
    BY <1>1 DEF Owned, Room, ReaderOwnsClient, ReaderRuns, Closing, Places
  <1>5. Swapped'
    BY <1>1 DEF Swapped, Closing, Places
  <1>6. queue' \in Seq(Records) /\ StreamInOrder' /\ Numbered'
    <2>1. CASE wasOpen
      <3>1. queue' = Append(queue, Closed(conns))
        BY <2>1 DEF CloseEnd
      <3>2. conns' \in 1..MaxConns /\ conns <= conns' /\ conns' = conns
        BY <1>1, <2>1, WsAssumption DEF Owned, Places
      <3> QED
        BY <1>1, <3>1, <3>2, EventQueued
    <2>2. CASE ~wasOpen
      <3>1. UNCHANGED queue
        BY <2>2 DEF CloseEnd
      <3>2. StreamInOrder' /\ Numbered'
        BY <1>1, <3>1, StreamStays, OrderStays
      <3> QED
        BY <3>1, <3>2 DEF Seqs
    <2> QED
      BY <2>1, <2>2
  <1>7. Seqs'
    BY <1>1, <1>6 DEF Seqs
  <1> QED
    BY <1>2, <1>3, <1>4, <1>5, <1>6, <1>7

LEMMA ConnectFakeStep ==
  ASSUME WsIInv, ConnectFake
  PROVE  WsIInv'
  <1> USE DEF WsIInv, Control
  <1>1. /\ sketch = "open" /\ conns' = conns + 1 /\ connected' = TRUE
        /\ queue' = Append(queue, Opened(conns')) /\ sketch' = ret
        /\ UNCHANGED <<shouldStop, client, ret, wasOpen, reconnect, drained, log, reader, hand,
                       libOpen, wire, peerClosed, sent>>
    BY DEF ConnectFake, libVars
  <1>2. conns \in Nat /\ conns' \in 1..MaxConns /\ conns <= conns' /\ ~ReaderRuns
    BY <1>1, WsAssumption DEF Places, Room, Owned
  <1>3. Flags'
    BY <1>1 DEF Flags
  <1>4. Places'
    BY <1>1, <1>2, WsAssumption DEF Places
  <1>5. Owned' /\ Room'
    BY <1>1, <1>2 DEF Owned, Room, ReaderOwnsClient, ReaderRuns, Closing, Places
  <1>6. Swapped'
    BY <1>1 DEF Swapped, Closing, Places
  <1>7. queue' \in Seq(Records) /\ StreamInOrder' /\ Numbered'
    BY <1>1, <1>2, EventQueued DEF ReaderRuns
  <1>8. Seqs'
    BY <1>1, <1>7 DEF Seqs
  <1> QED
    BY <1>3, <1>4, <1>5, <1>6, <1>7, <1>8

LEMMA ConnectRealStep ==
  ASSUME WsIInv, ConnectReal
  PROVE  WsIInv'
  <1> USE DEF WsIInv, Control
  <1>1. /\ sketch = "open" /\ conns' = conns + 1 /\ client' = conns' /\ libOpen' = TRUE
        /\ wire' = <<>> /\ peerClosed' = FALSE /\ connected' = TRUE /\ shouldStop' = FALSE
        /\ reader' = "test" /\ sketch' = "opened"
        /\ UNCHANGED <<queue, ret, wasOpen, reconnect, drained, log, hand, sent>>
    BY DEF ConnectReal
  <1>2. conns \in Nat /\ conns' \in 1..MaxConns
    BY <1>1, WsAssumption DEF Places, Room
  <1>3. Flags'
    BY <1>1 DEF Flags
  <1>4. Places'
    BY <1>1, <1>2, WsAssumption DEF Places
  <1>5. Owned' /\ Room'
    BY <1>1, <1>2 DEF Owned, Room, ReaderOwnsClient, ReaderRuns, Closing
  <1>6. Swapped'
    BY <1>1 DEF Swapped, Closing, Places
  <1>7. Seqs'
    BY <1>1 DEF Seqs
  <1>8. Stream' = Stream
    BY <1>1, StreamStays
  <1>9. StreamInOrder'
    BY <1>8 DEF StreamInOrder
  <1>10. UpTo(Stream, conns')
    <2>1. \A i \in 1..Len(Stream) : Stream[i][1] \in Nat
      BY StreamType, RecordParts
    <2> QED
      BY <1>1, <1>2, <2>1 DEF Numbered, UpTo
  <1>11. Numbered'
    BY <1>1, <1>8, <1>10 DEF Numbered, UpTo, Below, Increasing
  <1> QED
    BY <1>3, <1>4, <1>5, <1>6, <1>7, <1>9, <1>11

LEMMA PushEventStep ==
  ASSUME WsIInv, PushOpened \/ ReaderPushClosed
  PROVE  WsIInv'
  <1> USE DEF WsIInv, Control
  <1>1. /\ UNCHANGED <<connected, shouldStop, client, ret, wasOpen, reconnect, drained, log, hand,
                       libOpen, wire, peerClosed, sent, conns>>
        /\ \/ sketch = "opened" /\ sketch' = ret /\ UNCHANGED reader
           \/ reader = "push" /\ reader' = "done" /\ UNCHANGED sketch
    BY DEF PushOpened, ReaderPushClosed, libVars, sketchVars
  <1>2. conns' \in 1..MaxConns /\ conns <= conns' /\ conns' = conns
    BY <1>1, WsAssumption DEF Owned, ReaderOwnsClient, ReaderRuns, Places
  <1>3. Flags'
    BY <1>1 DEF Flags
  <1>4. Places'
    BY <1>1 DEF Places
  <1>5. Owned' /\ Room'
    BY <1>1 DEF Owned, Room, ReaderOwnsClient, ReaderRuns, Closing, Places
  <1>6. Swapped'
    BY <1>1 DEF Swapped, Closing, Places
  <1>7. PICK r \in {Opened(conns'), Closed(conns')} : queue' = Append(queue, r)
    BY <1>2 DEF PushOpened, ReaderPushClosed
  <1>8. queue' \in Seq(Records) /\ StreamInOrder' /\ Numbered'
    BY <1>1, <1>2, <1>7, EventQueued
  <1>9. Seqs'
    BY <1>1, <1>8 DEF Seqs
  <1> QED
    BY <1>3, <1>4, <1>5, <1>6, <1>8, <1>9

\* The frame that the reader has in its hand is the newest.
LEMMA PushMessageStep ==
  ASSUME WsIInv, ReaderPushMessage
  PROVE  WsIInv'
  <1> USE DEF WsIInv, Control
  <1>1. /\ reader = "got" /\ reader' = "test" /\ queue' = Append(queue, Message(conns, hand))
        /\ UNCHANGED <<connected, shouldStop, client, sketch, ret, wasOpen, reconnect, drained, log,
                       hand, libOpen, wire, peerClosed, sent, conns>>
    BY DEF ReaderPushMessage, libVars, sketchVars
  <1>2. conns' \in 1..MaxConns /\ conns' = conns /\ hand \in 0..MaxFrames /\ hand \in Nat
    BY <1>1, WsAssumption DEF Owned, ReaderOwnsClient, ReaderRuns, Places
  <1>3. Flags'
    BY <1>1 DEF Flags
  <1>4. Places'
    BY <1>1 DEF Places
  <1>5. Owned' /\ Room' /\ Swapped'
    BY <1>1 DEF Owned, Room, Swapped, ReaderOwnsClient, ReaderRuns, Closing
  <1>6. PICK r : r = Message(conns, hand)
    OBVIOUS
  <1>7. r \in Records /\ r[1] = conns' /\ r[3] = hand /\ (Frame(r) => hand # Torn)
    BY <1>2, <1>6 DEF Records, Message, Frame
  <1>8. queue' \in Seq(Records) /\ Stream' = Append(Stream, r)
    BY <1>1, <1>6, <1>7, Queued DEF Seqs
  <1>9. UpTo(Stream, conns') /\ (Frame(r) => Below(Stream, r[3]))
    BY <1>1, <1>2, <1>7 DEF Numbered
  <1>10. /\ StreamInOrder' /\ UpTo(Stream, conns)'
         /\ \A n \in Nat : Below(Stream, n) /\ (Frame(r) => r[3] < n) => Below(Stream', n)
    <2>1. conns' \in Nat
      BY <1>2
    <2> QED
      BY <1>7, <1>8, <1>9, <2>1, StreamGrows
  <1>11. Seqs'
    BY <1>1, <1>8 DEF Seqs
  <1>12. \A i \in 1..Len(wire) : wire[i] \in Nat
    BY WsAssumption DEF Seqs
  <1>13. Below(Stream', sent + 1)
    BY <1>1, <1>2, <1>7, <1>10 DEF Numbered, Places
  <1>14. \A i \in 1..Len(wire) : Below(Stream', wire[i])
    BY <1>1, <1>7, <1>10, <1>12 DEF Numbered
  <1>15. Numbered'
    BY <1>1, <1>10, <1>13, <1>14 DEF Numbered, UpTo, Below, Increasing
  <1> QED
    BY <1>3, <1>4, <1>5, <1>10, <1>11, <1>15

\* poll() takes the queue, and hands out its head: the stream is the same.
LEMMA PollStream ==
  ASSUME WsIInv, PollSwap \/ Dispatch
  PROVE  Seqs' /\ Stream' = Stream
  <1> USE DEF WsIInv, Control
  <1>1. wire' = wire
    BY DEF PollSwap, Dispatch, libVars
  <1>2. CASE PollSwap
    <2>1. drained = <<>> /\ drained' = queue /\ queue' = <<>> /\ log' = log
      BY <1>2 DEF PollSwap, Swapped
    <2>2. Seqs'
      BY <1>1, <2>1 DEF Seqs
    <2>3. log \in Seq(Records) /\ queue \in Seq(Records)
      BY DEF Seqs
    <2>4. (log \o queue) \o <<>> = (log \o <<>>) \o queue
      BY <2>3, Taken
    <2> QED
      BY <2>1, <2>2, <2>4 DEF Stream
  <1>3. CASE Dispatch
    <2>1. /\ drained # <<>> /\ log' = Append(log, Head(drained)) /\ drained' = Tail(drained)
          /\ queue' = queue
      BY <1>3 DEF Dispatch
    <2>2. log \in Seq(Records) /\ drained \in Seq(Records) /\ queue \in Seq(Records)
      BY DEF Seqs
    <2>3. Append(log, Head(drained)) \o Tail(drained) = log \o drained
      BY <2>1, <2>2, Moved
    <2>4. Tail(drained) \in Seq(Records) /\ Head(drained) \in Records
      BY <2>1, <2>2, TailIs
    <2>5. Seqs'
      BY <1>1, <2>1, <2>2, <2>4 DEF Seqs
    <2> QED
      BY <2>1, <2>3, <2>5 DEF Stream
  <1> QED
    BY <1>2, <1>3

LEMMA PollStepKeeps ==
  ASSUME WsIInv, PollSwap \/ Dispatch
  PROVE  WsIInv'
  <1> USE DEF WsIInv, Control
  <1>1. /\ UNCHANGED <<connected, shouldStop, client, ret, wasOpen, reconnect, reader, hand, libOpen,
                       wire, peerClosed, sent, conns>>
        /\ sketch' = "poll" \/ sketch' = "cb"
    BY DEF PollSwap, Dispatch, libVars
  <1>2. Flags'
    BY <1>1 DEF Flags
  <1>3. Places'
    BY <1>1 DEF Places
  <1>4. Owned' /\ Room' /\ Swapped'
    BY <1>1 DEF Owned, Room, Swapped, ReaderOwnsClient, ReaderRuns, Closing
  <1>5. Seqs' /\ Stream' = Stream
    BY PollStream
  <1>6. StreamInOrder' /\ Numbered'
    BY <1>1, <1>5, OrderStays
  <1> QED
    BY <1>2, <1>3, <1>4, <1>5, <1>6

-----------------------------------------------------------------------------
LEMMA WsStep == WsIInv /\ [Next]_vars => WsIInv'
  <1> SUFFICES ASSUME WsIInv, [Next]_vars PROVE WsIInv'
    OBVIOUS
  <1>1. CASE Next
    <2>1. CASE QuietSketch \/ QuietReader
      BY <2>1, QuietSketchStep, QuietReaderStep
    <2>2. CASE SkipFrame \/ ReadFrame \/ PeerSends
      BY <2>2, SkipFrameStep, ReadFrameStep, PeerSendsStep
    <2>3. CASE CloseEnd \/ ConnectFake \/ ConnectReal \/ PushOpened \/ ReaderPushClosed
      BY <2>3, CloseEndStep, ConnectFakeStep, ConnectRealStep, PushEventStep
    <2>4. CASE ReaderPushMessage \/ PollSwap \/ Dispatch
      BY <2>4, PushMessageStep, PollStepKeeps
    <2> QED
      BY <1>1, <2>1, <2>2, <2>3, <2>4
         DEF Next, CloseStep, ConnectStep, PollStep, ReaderStep, Peer, QuietSketch, QuietReader
  <1>2. CASE UNCHANGED vars
    <2>1. UNCHANGED <<connected, shouldStop, client, queue, sketch, ret, wasOpen, reconnect, drained,
                      log, reader, hand, libOpen, wire, peerClosed, sent, conns>>
      BY <1>2 DEF vars, sketchVars, libVars
    <2>2. StreamInOrder' /\ Numbered'
      BY <2>1, StreamStays, OrderStays DEF WsIInv
    <2> QED
      BY <2>1, <2>2 DEF WsIInv, Control, Flags, Places, Seqs, Owned, Room, Swapped,
                       ReaderOwnsClient, ReaderRuns
  <1> QED
    BY <1>1, <1>2

LEMMA WsShows == WsIInv => WsInv
  BY DEF WsIInv, WsInv, Control, Flags, Places, Seqs, Owned, WsTypeOK

\* While the reader thread runs, client_ is the connection that it was started for, and the
\* callbacks get each frame once, in the order the peers sent them, and nothing of an
\* earlier connection after anything of a later one (sim_websockets.cpp).
THEOREM WsInvariant == Spec => []WsInv
  <1> QED
    BY WsInit, WsStep, WsShows, PTL DEF Spec

-----------------------------------------------------------------------------
(* The end of a connection                                                 *)

\* close() has taken over the report of the end, and so has the reader.
CloseReports == sketch \in Closing \ {"close"} /\ wasOpen

Ones(p) == IF p THEN 1 ELSE 0

\* Each connection's events so far, those of the last one with those that are still to come.
Reports ==
  /\ \A c \in 1..conns :
       /\ Count(Opened(c)) = Ones(c < conns \/ sketch # "opened")
       /\ c < conns => Count(Closed(c)) \in {1, 2}
  /\ conns # 0 =>
       /\ Count(Closed(conns)) + Ones(connected \/ CloseReports) + Ones(ReaderRuns) <= 2
       /\ connected \/ CloseReports \/ reader = "push" \/ Count(Closed(conns)) >= 1
  /\ sketch \in (Closing \ {"close"}) \cup {"open"} => ~connected

EndIInv == WsIInv /\ Reports

LEMMA CountType ==
  ASSUME Seqs, NEW r
  PROVE  Count(r) \in Nat /\ IsFiniteSet({i \in 1..Len(Stream) : Stream[i] = r})
  <1>1. Len(Stream) \in Nat
    BY StreamType
  <1>2. IsFiniteSet(1..Len(Stream))
    BY <1>1, FS_Interval
  <1>3. IsFiniteSet({i \in 1..Len(Stream) : Stream[i] = r})
    BY <1>2, FS_Subset
  <1> QED
    BY <1>3, FS_CardinalityType DEF Count

LEMMA CountGrows ==
  ASSUME Seqs, NEW r \in Records, Stream' = Append(Stream, r)
  PROVE  /\ Count(r)' = Count(r) + 1
         /\ \A x : x # r => Count(x)' = Count(x)
  <1>1. PICK s \in Seq(Records) : s = Stream
    BY StreamType
  <1>2. PICK a : a = Append(s, r)
    OBVIOUS
  <1>3. /\ Len(s) \in Nat /\ Len(a) = Len(s) + 1 /\ a[Len(s) + 1] = r
        /\ \A i \in 1..Len(s) : a[i] = s[i]
    BY <1>2
  <1>4. \A i : i \in 1..Len(a) <=> i \in 1..Len(s) \/ i = Len(s) + 1
    BY <1>3
  <1>5. Len(s) + 1 \notin 1..Len(s)
    BY <1>3
  <1>6. ASSUME NEW x, x # r PROVE Count(x)' = Count(x)
    <2>1. {i \in 1..Len(a) : a[i] = x} = {i \in 1..Len(s) : s[i] = x}
      BY <1>3, <1>4, <1>6
    <2> QED
      BY <1>1, <1>2, <2>1 DEF Count
  <1>7. Count(r)' = Count(r) + 1
    <2>1. {i \in 1..Len(a) : a[i] = r} = {i \in 1..Len(s) : s[i] = r} \cup {Len(s) + 1}
      BY <1>3, <1>4
    <2>2. IsFiniteSet({i \in 1..Len(s) : s[i] = r})
      BY <1>1, CountType
    <2>3. Len(s) + 1 \notin {i \in 1..Len(s) : s[i] = r}
      BY <1>5
    <2>4. Cardinality({i \in 1..Len(s) : s[i] = r} \cup {Len(s) + 1})
            = Cardinality({i \in 1..Len(s) : s[i] = r}) + 1
      BY <2>2, <2>3, FS_AddElement
    <2> QED
      BY <1>1, <1>2, <2>1, <2>4 DEF Count
  <1> QED
    BY <1>6, <1>7

LEMMA CountStays ==
  ASSUME Stream' = Stream, NEW r
  PROVE  Count(r)' = Count(r)
  BY DEF Count

\* A connection that is not there yet has no events.
LEMMA CountNone ==
  ASSUME WsIInv, NEW c \in Nat, c > conns
  PROVE  Count(Opened(c)) = 0 /\ Count(Closed(c)) = 0
  <1>1. \A i \in 1..Len(Stream) : Stream[i][1] <= conns
    BY DEF WsIInv, Numbered, UpTo
  <1>2. Opened(c)[1] = c /\ Closed(c)[1] = c
    BY DEF Opened, Closed
  <1>3. conns \in Nat
    BY WsAssumption DEF WsIInv, Control, Places
  <1>4. /\ {i \in 1..Len(Stream) : Stream[i] = Opened(c)} = {}
        /\ {i \in 1..Len(Stream) : Stream[i] = Closed(c)} = {}
    BY <1>1, <1>2, <1>3
  <1> QED
    BY <1>4, FS_EmptySet DEF Count

LEMMA EventsDiffer ==
  /\ \A c, d : Opened(c) = Opened(d) <=> c = d
  /\ \A c, d : Closed(c) = Closed(d) <=> c = d
  /\ \A c, d : Opened(c) # Closed(d)
  /\ \A c, d, n : Opened(c) # Message(d, n) /\ Closed(c) # Message(d, n)
  BY DEF Opened, Closed, Message

\* Steps that queue nothing.
LEMMA ReportsStay ==
  ASSUME Seqs, Places, Reports, Stream' = Stream, UNCHANGED conns,
         sketch' = "opened" <=> sketch = "opened",
         connected' \/ CloseReports' => connected \/ CloseReports,
         connected \/ CloseReports \/ reader = "push" =>
           connected' \/ CloseReports' \/ reader' = "push",
         ReaderRuns' => ReaderRuns,
         sketch' \in (Closing \ {"close"}) \cup {"open"} => ~connected'
  PROVE  Reports'
  <1>1. \A r : Count(r)' = Count(r)
    BY CountStays
  <1>2. \A c : Opened(c)' = Opened(c) /\ Closed(c)' = Closed(c)
    BY DEF Opened, Closed
  <1>3. \A c : Count(Opened(c))' = Count(Opened(c)) /\ Count(Closed(c))' = Count(Closed(c))
    BY <1>1
  <1>4. conns \in Nat /\ Count(Closed(conns)) \in Nat
    <2>1. \A r : Count(r) \in Nat
      BY CountType
    <2> QED
      BY <2>1, WsAssumption DEF Places
  <1>5. \A c \in 1..conns' :
          /\ Count(Opened(c))' = Ones(c < conns \/ sketch # "opened")'
          /\ c < conns' => Count(Closed(c))' \in {1, 2}
    BY <1>3, <1>4 DEF Reports, Ones
  <1>6. conns' # 0 =>
          /\ Count(Closed(conns))' + Ones(connected \/ CloseReports)' + Ones(ReaderRuns)' <= 2
          /\ connected' \/ CloseReports' \/ reader' = "push" \/ Count(Closed(conns))' >= 1
    BY <1>3, <1>4 DEF Reports, Ones
  <1> QED
    BY <1>3, <1>5, <1>6 DEF Reports

LEMMA QuietReports ==
  ASSUME EndIInv,
         \/ QuietSketch \/ QuietReader \/ SkipFrame \/ ReadFrame \/ PeerSends
         \/ PollSwap \/ Dispatch \/ (CloseEnd /\ ~wasOpen)
  PROVE  Reports'
  <1> USE DEF EndIInv, WsIInv, Control
  <1>1. CASE QuietSketch
    <2> USE DEF QuietSketch, Call, CloseExchange, CloseStop, LibClose, ReplyOrTimeout, ConnectFails,
                CallbackReturns, libVars
    <2>1. UNCHANGED <<log, drained, queue, conns, reader>>
      BY <1>1
    <2>2. sketch' = "opened" <=> sketch = "opened"
      BY <1>1 DEF Places
    <2>3. connected' \/ CloseReports' <=> connected \/ CloseReports
      BY <1>1 DEF Places, CloseReports, Closing, Reports
    <2>4. sketch' \in (Closing \ {"close"}) \cup {"open"} => ~connected'
      BY <1>1 DEF Places, Closing, Reports
    <2>5. ReaderRuns' <=> ReaderRuns
      BY <2>1 DEF ReaderRuns
    <2>6. Stream' = Stream
      BY <2>1, StreamStays
    <2> QED
      BY <2>1, <2>2, <2>3, <2>4, <2>5, <2>6, ReportsStay
  <1>2. CASE QuietReader
    <2> USE DEF QuietReader, ReaderTest, ReadEnter, ReadClosed, ReadTimeout, ReaderFailed,
                PeerCloses, HeartbeatFails, libVars, sketchVars
    <2>1. UNCHANGED <<log, drained, queue, conns, sketch, wasOpen>>
      BY <1>2
    <2>2. CloseReports' <=> CloseReports
      BY <2>1 DEF CloseReports
    <2>3. connected' => connected
      BY <1>2
    <2>4. connected \/ reader = "push" => connected' \/ reader' = "push"
      BY <1>2
    <2>5. ReaderRuns' => ReaderRuns
      BY <1>2 DEF ReaderRuns
    <2>6. Stream' = Stream
      BY <2>1, StreamStays
    <2>7. sketch' \in (Closing \ {"close"}) \cup {"open"} => ~connected'
      BY <2>1, <2>3 DEF Reports
    <2> QED
      BY <2>1, <2>2, <2>3, <2>4, <2>5, <2>6, <2>7, ReportsStay
  <1>3. CASE SkipFrame \/ ReadFrame \/ PeerSends
    <2>1. /\ UNCHANGED <<log, drained, queue, conns, sketch, wasOpen, connected>>
          /\ reader' = reader \/ (reader = "blocked" /\ reader' = "got")
      BY <1>3 DEF SkipFrame, ReadFrame, PeerSends, sketchVars
    <2>2. CloseReports' <=> CloseReports
      BY <2>1 DEF CloseReports
    <2>3. ReaderRuns' => ReaderRuns
      BY <2>1 DEF ReaderRuns
    <2>4. Stream' = Stream
      BY <2>1, StreamStays
    <2>5. sketch' \in (Closing \ {"close"}) \cup {"open"} => ~connected'
      BY <2>1 DEF Reports
    <2> QED
      BY <2>1, <2>2, <2>3, <2>4, <2>5, ReportsStay
  <1>4. CASE PollSwap \/ Dispatch
    <2>1. /\ UNCHANGED <<conns, connected, reader>>
          /\ sketch \in {"loop", "poll"} /\ sketch' \in {"poll", "cb"}
      BY <1>4 DEF PollSwap, Dispatch
    <2>2. ~CloseReports' /\ ~CloseReports
      BY <2>1 DEF CloseReports, Closing
    <2>3. ReaderRuns' => ReaderRuns
      BY <2>1 DEF ReaderRuns
    <2>4. Stream' = Stream
      BY <1>4, PollStream
    <2>5. ~(sketch' \in (Closing \ {"close"}) \cup {"open"})
      BY <2>1 DEF Closing
    <2> QED
      BY <2>1, <2>2, <2>3, <2>4, <2>5, ReportsStay
  <1>5. CASE CloseEnd /\ ~wasOpen
    <2>1. /\ UNCHANGED <<log, drained, queue, conns, connected, wasOpen>>
          /\ sketch = "join" /\ sketch' \in {"open", ret}
          /\ reader \in {"none", "done"} /\ reader' = "none"
      BY <1>5 DEF CloseEnd, ReaderGone, AfterClose
    <2>2. ~CloseReports' /\ ~CloseReports
      BY <1>5, <2>1 DEF CloseReports
    <2>3. ~ReaderRuns'
      BY <2>1 DEF ReaderRuns
    <2>4. Stream' = Stream
      BY <2>1, StreamStays
    <2>5. ~connected /\ sketch' # "opened"
      BY <2>1 DEF Reports, Closing, Places
    <2> QED
      BY <2>1, <2>2, <2>3, <2>4, <2>5, ReportsStay
  <1> QED
    BY <1>1, <1>2, <1>3, <1>4, <1>5

\* The reader hands on a frame.
LEMMA MessageReports ==
  ASSUME EndIInv, ReaderPushMessage
  PROVE  Reports'
  <1> USE DEF EndIInv, WsIInv, Control
  <1>1. /\ reader = "got" /\ reader' = "test" /\ queue' = Append(queue, Message(conns, hand))
        /\ UNCHANGED <<connected, sketch, wasOpen, drained, log, conns>>
    BY DEF ReaderPushMessage, libVars, sketchVars
  <1>2. Message(conns, hand) \in Records
    BY <1>1, WsAssumption DEF Owned, ReaderOwnsClient, ReaderRuns, Places, Records, Message
  <1>3. Stream' = Append(Stream, Message(conns, hand))
    BY <1>1, <1>2, Queued
  <1>4. \A x : x # Message(conns, hand) => Count(x)' = Count(x)
    BY <1>2, <1>3, CountGrows
  <1>5. \A c : Count(Opened(c))' = Count(Opened(c)) /\ Count(Closed(c))' = Count(Closed(c))
    BY <1>4, EventsDiffer DEF Opened, Closed
  <1>6. ReaderRuns' /\ ReaderRuns /\ CloseReports' = CloseReports
    BY <1>1 DEF ReaderRuns, CloseReports
  <1> QED
    BY <1>1, <1>5, <1>6 DEF Reports, Ones

\* The end of the last connection is queued, by the reader or by close().
LEMMA ClosedReports ==
  ASSUME EndIInv, ReaderPushClosed \/ (CloseEnd /\ wasOpen)
  PROVE  Reports'
  <1> USE DEF EndIInv, WsIInv, Control
  <1>1. /\ queue' = Append(queue, Closed(conns))
        /\ UNCHANGED <<connected, wasOpen, drained, log, conns>>
    BY DEF ReaderPushClosed, CloseEnd, libVars, sketchVars
  <1>2. conns \in 1..MaxConns
    BY WsAssumption
       DEF ReaderPushClosed, CloseEnd, Owned, ReaderOwnsClient, ReaderRuns, Places
  <1>3. Closed(conns) \in Records
    BY <1>2 DEF Records
  <1>4. Stream' = Append(Stream, Closed(conns))
    BY <1>1, <1>3, Queued
  <1>5. /\ Count(Closed(conns))' = Count(Closed(conns)) + 1
        /\ \A x : x # Closed(conns) => Count(x)' = Count(x)
    <2>1. PICK r \in Records : r = Closed(conns)
      BY <1>3
    <2>2. Count(r)' = Count(r) + 1 /\ \A x : x # r => Count(x)' = Count(x)
      BY <1>4, <2>1, CountGrows
    <2> QED
      BY <1>1, <2>1, <2>2
  <1>6. /\ \A c : Count(Opened(c))' = Count(Opened(c))
        /\ \A c : c # conns => Count(Closed(c))' = Count(Closed(c))
    BY <1>5, EventsDiffer DEF Opened, Closed
  <1>7. Count(Closed(conns)) \in Nat
    <2>1. \A r : Count(r) \in Nat
      BY CountType
    <2> QED
      BY <2>1
  <1>8. /\ sketch' # "opened" <=> sketch # "opened"
        /\ sketch' \in (Closing \ {"close"}) \cup {"open"} => ~connected'
    BY <1>1 DEF ReaderPushClosed, CloseEnd, sketchVars, AfterClose, Reports, Closing, Places
  <1>9. /\ Ones(connected \/ CloseReports)' + Ones(ReaderRuns)' + 1
             <= Ones(connected \/ CloseReports) + Ones(ReaderRuns)
    <2>1. CASE ReaderPushClosed
      <3>1. ReaderRuns /\ ~ReaderRuns' /\ (CloseReports' <=> CloseReports)
        BY <2>1 DEF ReaderPushClosed, ReaderRuns, CloseReports, sketchVars
      <3> QED
        BY <1>1, <3>1 DEF Ones
    <2>2. CASE CloseEnd /\ wasOpen
      <3>1. CloseReports /\ ~CloseReports' /\ ~connected
        BY <2>2 DEF CloseEnd, CloseReports, AfterClose, Closing, Places, Reports
      <3>2. ~ReaderRuns' /\ ~ReaderRuns
        BY <2>2 DEF CloseEnd, ReaderGone, ReaderRuns
      <3> QED
        BY <1>1, <3>1, <3>2 DEF Ones
    <2> QED
      BY <2>1, <2>2
  <1>10. /\ Ones(connected \/ CloseReports)' \in Nat /\ Ones(ReaderRuns)' \in Nat
         /\ Ones(connected \/ CloseReports) \in Nat /\ Ones(ReaderRuns) \in Nat
    BY DEF Ones
  <1>11. /\ Count(Closed(conns))' + Ones(connected \/ CloseReports)' + Ones(ReaderRuns)' <= 2
         /\ Count(Closed(conns))' >= 1
    BY <1>2, <1>5, <1>7, <1>9, <1>10 DEF Reports
  <1>12. \A c \in 1..conns' :
           /\ Count(Opened(c))' = Ones(c < conns \/ sketch # "opened")'
           /\ c < conns' => Count(Closed(c))' \in {1, 2}
    BY <1>1, <1>2, <1>6, <1>8 DEF Reports, Ones
  <1> QED
    BY <1>8, <1>11, <1>12 DEF Reports

\* The opening of the last connection is queued by connect(), after the reader's start.
LEMMA PushOpenedReports ==
  ASSUME EndIInv, PushOpened
  PROVE  Reports'
  <1> USE DEF EndIInv, WsIInv, Control
  <1>1. /\ sketch = "opened" /\ sketch' = ret /\ queue' = Append(queue, Opened(conns))
        /\ UNCHANGED <<connected, wasOpen, drained, log, conns, reader>>
    BY DEF PushOpened
  <1>2. conns \in 1..MaxConns
    BY <1>1, WsAssumption DEF Owned, Places
  <1>3. PICK r \in Records : r = Opened(conns)
    BY <1>2 DEF Records
  <1>4. Stream' = Append(Stream, r)
    BY <1>1, <1>3, Queued
  <1>5. Count(r)' = Count(r) + 1 /\ \A x : x # r => Count(x)' = Count(x)
    BY <1>4, CountGrows
  <1>6. /\ Count(Opened(conns))' = Count(Opened(conns)) + 1
        /\ \A c : c # conns => Count(Opened(c))' = Count(Opened(c))
        /\ \A c : Count(Closed(c))' = Count(Closed(c))
    BY <1>1, <1>3, <1>5, EventsDiffer DEF Opened, Closed
  <1>7. /\ sketch' \in {"loop", "cb"} /\ ~CloseReports' /\ ~CloseReports
        /\ (ReaderRuns' <=> ReaderRuns)
    BY <1>1 DEF Places, CloseReports, Closing, ReaderRuns
  <1>8. \A c \in 1..conns' :
          /\ Count(Opened(c))' = Ones(c < conns \/ sketch # "opened")'
          /\ c < conns' => Count(Closed(c))' \in {1, 2}
    BY <1>1, <1>2, <1>6, <1>7 DEF Reports, Ones
  <1>9. /\ Count(Closed(conns))' + Ones(connected \/ CloseReports)' + Ones(ReaderRuns)' <= 2
        /\ connected' \/ CloseReports' \/ reader' = "push" \/ Count(Closed(conns))' >= 1
    BY <1>1, <1>2, <1>6, <1>7 DEF Reports, Ones
  <1> QED
    BY <1>7, <1>8, <1>9 DEF Reports, Closing

\* When connect() opens a connection the one before it is over.
LEMMA NewConnection ==
  ASSUME EndIInv, sketch = "open"
  PROVE  /\ conns \in Nat /\ ~connected /\ ~CloseReports /\ ~ReaderRuns
         /\ \A c \in 1..conns : Count(Opened(c)) = 1 /\ Count(Closed(c)) \in {1, 2}
         /\ Count(Opened(conns + 1)) = 0 /\ Count(Closed(conns + 1)) = 0
  <1> USE DEF EndIInv, WsIInv, Control
  <1>1. conns \in Nat
    BY WsAssumption DEF Places
  <1>2. ~connected /\ ~CloseReports /\ ~ReaderRuns
    BY DEF Reports, CloseReports, Closing, Owned
  <1>3. Count(Opened(conns + 1)) = 0 /\ Count(Closed(conns + 1)) = 0
    <2>1. PICK n \in Nat : n = conns + 1 /\ n > conns
      BY <1>1
    <2> QED
      BY <2>1, CountNone
  <1>4. \A r : Count(r) \in Nat
    BY CountType
  <1>5. conns # 0 => Count(Closed(conns)) \in {1, 2}
    <2>1. Count(Closed(conns)) \in Nat
      BY <1>4
    <2> QED
      BY <1>2, <2>1 DEF Reports, Ones, ReaderRuns
  <1>6. \A c \in 1..conns : Count(Opened(c)) = 1 /\ (c < conns => Count(Closed(c)) \in {1, 2})
    BY DEF Reports, Ones
  <1>7. \A c \in 1..conns : c < conns \/ (c = conns /\ conns # 0)
    BY <1>1
  <1> QED
    BY <1>1, <1>2, <1>3, <1>5, <1>6, <1>7

LEMMA ConnectRealReports ==
  ASSUME EndIInv, ConnectReal
  PROVE  Reports'
  <1> USE DEF EndIInv, WsIInv, Control
  <1>1. /\ sketch = "open" /\ sketch' = "opened" /\ conns' = conns + 1 /\ connected' = TRUE
        /\ reader' = "test" /\ UNCHANGED <<queue, drained, log>>
    BY DEF ConnectReal
  <1>2. /\ conns \in Nat
        /\ \A c \in 1..conns : Count(Opened(c)) = 1 /\ Count(Closed(c)) \in {1, 2}
        /\ Count(Opened(conns + 1)) = 0 /\ Count(Closed(conns + 1)) = 0
    BY <1>1, NewConnection
  <1>3. \A r : Count(r)' = Count(r)
    BY <1>1, StreamStays, CountStays
  <1>4. \A c : Count(Opened(c))' = Count(Opened(c)) /\ Count(Closed(c))' = Count(Closed(c))
    BY <1>3 DEF Opened, Closed
  <1>5. \A c \in 1..conns' : c \in 1..conns \/ c = conns + 1
    BY <1>1, <1>2
  <1>6. \A c \in 1..conns' :
          /\ Count(Opened(c))' = Ones(c < conns \/ sketch # "opened")'
          /\ c < conns' => Count(Closed(c))' \in {1, 2}
    BY <1>1, <1>2, <1>4, <1>5 DEF Ones
  <1>7. Count(Closed(conns))' = 0
    BY <1>1, <1>2, <1>3 DEF Closed
  <1>8. /\ Count(Closed(conns))' + Ones(connected \/ CloseReports)' + Ones(ReaderRuns)' <= 2
        /\ connected' \/ CloseReports' \/ reader' = "push" \/ Count(Closed(conns))' >= 1
    BY <1>1, <1>7 DEF Ones
  <1> QED
    BY <1>1, <1>6, <1>8 DEF Reports, Closing

LEMMA ConnectFakeReports ==
  ASSUME EndIInv, ConnectFake
  PROVE  Reports'
  <1> USE DEF EndIInv, WsIInv, Control
  <1>1. /\ sketch = "open" /\ sketch' = ret /\ conns' = conns + 1 /\ connected' = TRUE
        /\ queue' = Append(queue, Opened(conns')) /\ UNCHANGED <<wasOpen, reader, drained, log>>
    BY DEF ConnectFake
  <1>2. /\ conns \in Nat /\ ~ReaderRuns
        /\ \A c \in 1..conns : Count(Opened(c)) = 1 /\ Count(Closed(c)) \in {1, 2}
        /\ Count(Opened(conns + 1)) = 0 /\ Count(Closed(conns + 1)) = 0
    BY <1>1, NewConnection
  <1>3. PICK r \in Records : r = Opened(conns')
    <2>1. conns' \in 1..MaxConns
      BY <1>1, <1>2, WsAssumption DEF Room
    <2> QED
      BY <2>1 DEF Records
  <1>4. Stream' = Append(Stream, r)
    BY <1>1, <1>3, Queued
  <1>5. Count(r)' = Count(r) + 1 /\ \A x : x # r => Count(x)' = Count(x)
    BY <1>4, CountGrows
  <1>6. /\ \A c : c = conns' => Count(Opened(c))' = 1
        /\ \A c : c # conns' => Count(Opened(c))' = Count(Opened(c))
        /\ \A c : Count(Closed(c))' = Count(Closed(c))
    <2>1. \A c : Opened(c)' = Opened(c) /\ Closed(c)' = Closed(c)
      BY DEF Opened, Closed
    <2>2. \A c : c = conns' => Opened(c) = r
      BY <1>3
    <2>3. Count(r) = 0
      BY <1>1, <1>2, <1>3
    <2>4. \A c : c # conns' => Opened(c) # r
      BY <1>3, EventsDiffer
    <2>5. \A c : Closed(c) # r
      BY <1>3, EventsDiffer
    <2> QED
      BY <1>5, <2>1, <2>2, <2>3, <2>4, <2>5
  <1>7. \A c \in 1..conns' : c \in 1..conns \/ c = conns'
    BY <1>1, <1>2
  <1>8. sketch' \in {"loop", "cb"} /\ ~CloseReports' /\ ~ReaderRuns'
    BY <1>1, <1>2 DEF Places, CloseReports, Closing, ReaderRuns
  <1>9. \A c \in 1..conns' :
          /\ Count(Opened(c))' = Ones(c < conns \/ sketch # "opened")'
          /\ c < conns' => Count(Closed(c))' \in {1, 2}
    BY <1>1, <1>2, <1>6, <1>7, <1>8 DEF Ones
  <1>10. Count(Closed(conns))' = 0
    BY <1>1, <1>2, <1>6
  <1>11. /\ Count(Closed(conns))' + Ones(connected \/ CloseReports)' + Ones(ReaderRuns)' <= 2
         /\ connected' \/ CloseReports' \/ reader' = "push" \/ Count(Closed(conns))' >= 1
    BY <1>1, <1>8, <1>10 DEF Ones
  <1> QED
    BY <1>8, <1>9, <1>11 DEF Reports, Closing

LEMMA EndInit == Init => EndIInv
  <1> SUFFICES ASSUME Init PROVE Reports
    BY WsInit DEF EndIInv
  <1>1. conns = 0 /\ sketch = "loop"
    BY DEF Init
  <1>2. 1..conns = {}
    BY <1>1
  <1> QED
    BY <1>1, <1>2 DEF Reports, Closing

LEMMA EndStep == EndIInv /\ [Next]_vars => EndIInv'
  <1> SUFFICES ASSUME EndIInv, [Next]_vars PROVE Reports'
    BY WsStep DEF EndIInv
  <1>1. CASE Next
    <2>1. CASE CloseEnd
      BY <2>1, QuietReports, ClosedReports
    <2>2. CASE ConnectFake \/ ConnectReal \/ PushOpened \/ ReaderPushClosed \/ ReaderPushMessage
      BY <2>2, ConnectFakeReports, ConnectRealReports, PushOpenedReports, ClosedReports,
         MessageReports
    <2>3. CASE QuietSketch \/ QuietReader \/ SkipFrame \/ ReadFrame \/ PeerSends
               \/ PollSwap \/ Dispatch
      BY <2>3, QuietReports
    <2> QED
      BY <1>1, <2>1, <2>2, <2>3
         DEF Next, CloseStep, ConnectStep, PollStep, ReaderStep, Peer, QuietSketch, QuietReader
  <1>2. CASE UNCHANGED vars
    <2>1. UNCHANGED <<connected, queue, sketch, wasOpen, drained, log, reader, conns>>
      BY <1>2 DEF vars, sketchVars
    <2>2. (CloseReports' <=> CloseReports) /\ (ReaderRuns' <=> ReaderRuns)
      BY <2>1 DEF CloseReports, ReaderRuns
    <2>3. Stream' = Stream
      BY <2>1, StreamStays
    <2>4. sketch' \in (Closing \ {"close"}) \cup {"open"} => ~connected'
      BY <2>1 DEF EndIInv, Reports
    <2> QED
      BY <2>1, <2>2, <2>3, <2>4, ReportsStay DEF EndIInv, WsIInv, Control
  <1> QED
    BY <1>1, <1>2

LEMMA EndShows == EndIInv => EndIsReported
  <1> SUFFICES ASSUME EndIInv, NEW c \in 1..conns
               PROVE  /\ Count(Opened(c)) <= 1 /\ Count(Closed(c)) <= 2
                      /\ ~ReaderRuns /\ sketch \in {"loop", "cb", "poll"} /\ (c < conns \/ ~connected)
                           => Count(Opened(c)) = 1 /\ Count(Closed(c)) >= 1
    BY DEF EndIsReported
  <1> USE DEF EndIInv
  <1>1. conns \in Nat
    BY WsAssumption DEF WsIInv, Control, Places
  <1>2. \A r : Count(r) \in Nat
    BY CountType DEF WsIInv, Control
  <1>3. Count(Closed(conns)) \in Nat /\ Count(Closed(c)) \in Nat /\ Count(Opened(c)) \in Nat
    BY <1>2
  <1>4. Count(Opened(c)) = Ones(c < conns \/ sketch # "opened") /\ Count(Opened(c)) <= 1
    BY DEF Reports, Ones
  <1>5. CASE c < conns
    BY <1>4, <1>5 DEF Reports, Ones
  <1>6. CASE c = conns
    <2>1. Count(Closed(c)) <= 2
      BY <1>1, <1>3, <1>6 DEF Reports, Ones
    <2>2. ASSUME ~ReaderRuns, sketch \in {"loop", "cb", "poll"}, ~connected
          PROVE  Count(Opened(c)) = 1 /\ Count(Closed(c)) >= 1
      <3>1. ~CloseReports /\ reader # "push"
        BY <2>2 DEF CloseReports, Closing, ReaderRuns
      <3> QED
        BY <1>1, <1>4, <1>6, <2>2, <3>1 DEF Reports, Ones
    <2> QED
      BY <1>4, <1>6, <2>1, <2>2
  <1> QED
    BY <1>1, <1>5, <1>6

\* However the end of a connection races with the reader and with close(), a connection that
\* is over has queued its opening once and its end once or twice (sim_websockets.cpp).
THEOREM WsEndIsReported == Spec => []EndIsReported
  <1> QED
    BY EndInit, EndStep, EndShows, PTL DEF Spec
=============================================================================
