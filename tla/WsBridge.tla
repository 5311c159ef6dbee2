------------------------------ MODULE WsBridge ------------------------------
(***************************************************************************)
(* WebsocketsClient (runtime/src/sim_websockets.cpp): the sketch thread    *)
(* connects, closes and polls; a reader thread blocks in the library's     *)
(* read() and queues what it gets for poll() to hand to the callbacks.     *)
(* A callback may itself call connect() and close(); poll() is called from *)
(* loop() only.                                                            *)
(*                                                                         *)
(* A step is what a thread does between two points where the other one can *)
(* be seen: an atomic, queue_mutex_, the library's closed_ flag, the       *)
(* socket, and join().  The library (httplib's WebSocketClient) is         *)
(* external: a read() that times out closes the connection and fails, and  *)
(* close() waits for the peer's Close frame while the reader may be        *)
(* reading the same stream.                                                *)
(***************************************************************************)
EXTENDS Naturals, Sequences, FiniteSets

CONSTANTS
  MaxConns,   \* bound on connections opened
  MaxFrames   \* bound on the frames the peers send, over all connections

ASSUME WsAssumption == MaxConns \in Nat /\ MaxFrames \in Nat

VARIABLES
  connected,   \* connected_
  shouldStop,  \* should_stop_
  client,      \* client_: the connection its socket belongs to, 0 for null
  queue,       \* queue_
  sketch,      \* where the sketch thread is
  ret,         \* where connect() or close() returns to: "loop", or "cb" in a callback
  wasOpen,     \* what close() read when it exchanged connected_
  reconnect,   \* this close() is the first line of connect()
  drained,     \* poll()'s local deque
  reader,      \* the reader thread
  hand,        \* the message the reader has just read
  libOpen,     \* ~WebSocket::closed_
  wire,        \* frames of the current connection not yet read
  peerClosed,  \* the peer has closed its end
  conns,       \* history: connections opened so far, real or fake
  sent,        \* history: frames the peers have sent, over all connections
  log          \* history: the records the callbacks have had

libVars == <<libOpen, wire, peerClosed, sent>>
sketchVars == <<sketch, ret, wasOpen, reconnect, drained, log>>
vars == <<connected, shouldStop, client, queue, sketchVars, reader, hand, libVars, conns>>

Torn == 0        \* a frame that two threads read a part of each
Opened(c) == <<c, "opened", 0>>
Closed(c) == <<c, "closed", 0>>
Message(c, n) == <<c, "message", n>>

Init ==
  /\ connected = FALSE /\ shouldStop = FALSE /\ client = 0 /\ queue = <<>>
  /\ sketch = "loop" /\ ret = "loop" /\ wasOpen = FALSE /\ reconnect = FALSE
  /\ drained = <<>> /\ log = <<>>
  /\ reader = "none" /\ hand = Torn
  /\ libOpen = FALSE /\ wire = <<>> /\ peerClosed = FALSE /\ sent = 0
  /\ conns = 0

-----------------------------------------------------------------------------
(* close(), also the first thing connect() and the destructor do           *)

\* The sketch calls close() or connect() from loop() or from a callback.
Call(isConnect) ==
  /\ sketch \in {"loop", "cb"}
  /\ isConnect => conns < MaxConns
  /\ sketch' = "close" /\ ret' = sketch /\ reconnect' = isConnect
  /\ UNCHANGED <<connected, shouldStop, client, queue, wasOpen, drained, log, reader,
                 hand, libVars, conns>>

CloseExchange ==
  /\ sketch = "close"
  /\ wasOpen' = connected /\ connected' = FALSE
  /\ sketch' = "stop"
  /\ UNCHANGED <<shouldStop, client, queue, ret, reconnect, drained, log, reader, hand,
                 libVars, conns>>

\* should_stop_, then client_->close() unless the connection was already down.
CloseStop ==
  /\ sketch = "stop"
  /\ shouldStop' = TRUE
  /\ sketch' = IF wasOpen /\ client # 0 THEN "libclose" ELSE "join"
  /\ UNCHANGED <<connected, client, queue, ret, wasOpen, reconnect, drained, log, reader,
                 hand, libVars, conns>>

\* WebSocket::close(): nothing if closed_ was set, else send Close and await the reply.
LibClose ==
  /\ sketch = "libclose"
  /\ sketch' = IF libOpen THEN "reply" ELSE "join"
  /\ libOpen' = FALSE
  /\ UNCHANGED <<connected, shouldStop, client, queue, ret, wasOpen, reconnect, drained,
                 log, reader, hand, wire, peerClosed, sent, conns>>

\* Frames that come before the reply are thrown away.
SkipFrame ==
  /\ sketch = "reply" /\ wire # <<>>
  /\ wire' = Tail(wire)
  /\ UNCHANGED <<connected, shouldStop, client, queue, sketchVars, reader, hand, libOpen,
                 peerClosed, sent, conns>>

\* The peer's reply has come, or five seconds have gone by.
ReplyOrTimeout ==
  /\ sketch = "reply"
  /\ sketch' = "join"
  /\ UNCHANGED <<connected, shouldStop, client, queue, ret, wasOpen, reconnect, drained,
                 log, reader, hand, libVars, conns>>

AfterClose == IF reconnect THEN "open" ELSE ret

ReaderGone == reader \in {"none", "done"}

CloseEnd ==
  /\ sketch = "join" /\ ReaderGone
  /\ reader' = "none" /\ client' = 0
  /\ queue' = IF wasOpen THEN Append(queue, Closed(conns)) ELSE queue
  /\ sketch' = AfterClose
  /\ UNCHANGED <<connected, shouldStop, ret, wasOpen, reconnect, drained, log, hand,
                 libVars, conns>>

-----------------------------------------------------------------------------
(* connect(), after its close()                                            *)

\* BOARDGHOST_NET=fail, a bad URL, or no handshake.
ConnectFails ==
  /\ sketch = "open"
  /\ sketch' = ret
  /\ UNCHANGED <<connected, shouldStop, client, queue, ret, wasOpen, reconnect, drained,
                 log, reader, hand, libVars, conns>>

\* BOARDGHOST_NET=fake or an empty URL: open at once, without a thread.
ConnectFake ==
  /\ sketch = "open"
  /\ conns' = conns + 1
  /\ connected' = TRUE /\ queue' = Append(queue, Opened(conns'))
  /\ sketch' = ret
  /\ UNCHANGED <<shouldStop, client, ret, wasOpen, reconnect, drained, log, reader, hand,
                 libVars>>

ConnectReal ==
  /\ sketch = "open"
  /\ conns' = conns + 1 /\ client' = conns'
  /\ libOpen' = TRUE /\ wire' = <<>> /\ peerClosed' = FALSE
  /\ connected' = TRUE /\ shouldStop' = FALSE /\ reader' = "test"
  /\ sketch' = "opened"
  /\ UNCHANGED <<queue, ret, wasOpen, reconnect, drained, log, hand, sent>>

\* The reader is already running when the event is queued.
PushOpened ==
  /\ sketch = "opened"
  /\ queue' = Append(queue, Opened(conns))
  /\ sketch' = ret
  /\ UNCHANGED <<connected, shouldStop, client, ret, wasOpen, reconnect, drained, log,
                 reader, hand, libVars, conns>>

-----------------------------------------------------------------------------
(* poll()                                                                  *)

\* Mutant of PollSwap: the queue is copied and only later cleared.
PollSwap_Copy ==
  /\ sketch = "loop" /\ queue # <<>>
  /\ drained' = queue
  /\ sketch' = "poll"
  /\ UNCHANGED <<connected, shouldStop, client, ret, wasOpen, reconnect, log, reader, hand,
                 libVars, conns, queue>>

PollSwap ==
  /\ sketch = "loop" /\ queue # <<>>
  /\ drained' = queue /\ queue' = <<>>
  /\ sketch' = "poll"
  /\ UNCHANGED <<connected, shouldStop, client, ret, wasOpen, reconnect, log, reader, hand,
                 libVars, conns>>

\* A callback runs; it may throw, which is swallowed.
Dispatch ==
  /\ sketch = "poll" /\ drained # <<>>
  /\ log' = Append(log, Head(drained)) /\ drained' = Tail(drained)
  /\ sketch' = "cb"
  /\ UNCHANGED <<connected, shouldStop, client, queue, ret, wasOpen, reconnect, reader,
                 hand, libVars, conns>>

CallbackReturns ==
  /\ sketch = "cb"
  /\ sketch' = IF drained = <<>> THEN "loop" ELSE "poll"
  /\ UNCHANGED <<connected, shouldStop, client, queue, ret, wasOpen, reconnect, drained,
                 log, reader, hand, libVars, conns>>

-----------------------------------------------------------------------------
(* reader_loop()                                                           *)

ReaderTest ==
  /\ reader = "test"
  /\ reader' = IF shouldStop THEN "done" ELSE "enter"
  /\ UNCHANGED <<connected, shouldStop, client, queue, sketchVars, hand, libVars, conns>>

\* read() fails at once when closed_ is set, else it blocks on the socket.
ReadEnter ==
  /\ reader = "enter"
  /\ reader' = IF libOpen THEN "blocked" ELSE "failed"
  /\ UNCHANGED <<connected, shouldStop, client, queue, sketchVars, hand, libVars, conns>>

ReadFrame ==
  /\ reader = "blocked" /\ wire # <<>>
  /\ hand' \in {Head(wire)} \cup (IF sketch = "reply" THEN {Torn} ELSE {})
  /\ wire' = Tail(wire)
  /\ reader' = "got"
  /\ UNCHANGED <<connected, shouldStop, client, queue, sketchVars, libOpen, peerClosed,
                 sent, conns>>

ReadClosed ==
  /\ reader = "blocked" /\ wire = <<>> /\ peerClosed
  /\ libOpen' = FALSE /\ reader' = "failed"
  /\ UNCHANGED <<connected, shouldStop, client, queue, sketchVars, hand, wire, peerClosed,
                 sent, conns>>

\* The library's read timeout: read_websocket_frame() fails and closed_ is set.
ReadTimeout ==
  /\ reader = "blocked" /\ wire = <<>>
  /\ libOpen' = FALSE /\ reader' = "failed"
  /\ UNCHANGED <<connected, shouldStop, client, queue, sketchVars, hand, wire, peerClosed,
                 sent, conns>>

\* Mutant of ReaderFailed: the reader calls close() itself, which joins the reader.
ReaderFailed_CallsClose ==
  /\ reader = "failed"
  /\ connected' = FALSE
  /\ reader' = "joining"
  /\ UNCHANGED <<shouldStop, client, queue, sketchVars, hand, libVars, conns>>

\* Fail: a closed connection is reported, an open one is read again.
ReaderFailed ==
  /\ reader = "failed"
  /\ connected' = (connected /\ libOpen)
  /\ reader' = IF libOpen THEN "test" ELSE "push"
  /\ UNCHANGED <<shouldStop, client, queue, sketchVars, hand, libVars, conns>>

\* Mutant of ReaderPushClosed: the reader leaves the report to close().
ReaderPushClosed_Forgotten ==
  /\ reader = "push"
  /\ reader' = "done"
  /\ UNCHANGED <<connected, shouldStop, client, sketchVars, hand, libVars, conns, queue>>

ReaderPushClosed ==
  /\ reader = "push"
  /\ queue' = Append(queue, Closed(conns))
  /\ reader' = "done"
  /\ UNCHANGED <<connected, shouldStop, client, sketchVars, hand, libVars, conns>>

ReaderPushMessage ==
  /\ reader = "got"
  /\ queue' = Append(queue, Message(conns, hand))
  /\ reader' = "test"
  /\ UNCHANGED <<connected, shouldStop, client, sketchVars, hand, libVars, conns>>

-----------------------------------------------------------------------------
(* The peer, and the library's heartbeat thread                            *)

PeerSends ==
  /\ client # 0 /\ ~peerClosed /\ sent < MaxFrames
  /\ sent' = sent + 1 /\ wire' = Append(wire, sent')
  /\ UNCHANGED <<connected, shouldStop, client, queue, sketchVars, reader, hand, libOpen,
                 peerClosed, conns>>

PeerCloses ==
  /\ client # 0 /\ ~peerClosed
  /\ peerClosed' = TRUE
  /\ UNCHANGED <<connected, shouldStop, client, queue, sketchVars, reader, hand, libOpen,
                 wire, sent, conns>>

\* A ping that cannot be sent to a peer that is gone sets closed_.
HeartbeatFails ==
  /\ client # 0 /\ peerClosed /\ libOpen
  /\ libOpen' = FALSE
  /\ UNCHANGED <<connected, shouldStop, client, queue, sketchVars, reader, hand, wire,
                 peerClosed, sent, conns>>

-----------------------------------------------------------------------------

CloseStep ==
  CloseExchange \/ CloseStop \/ LibClose \/ SkipFrame \/ ReplyOrTimeout \/ CloseEnd

ConnectStep == ConnectFails \/ ConnectFake \/ ConnectReal \/ PushOpened

PollStep == PollSwap \/ Dispatch \/ CallbackReturns

ReaderStep ==
  \/ ReaderTest \/ ReadEnter \/ ReadFrame \/ ReadClosed \/ ReadTimeout
  \/ ReaderFailed \/ ReaderPushClosed \/ ReaderPushMessage

Peer == PeerSends \/ PeerCloses \/ HeartbeatFails

Next ==
  \/ \E isConnect \in BOOLEAN : Call(isConnect)
  \/ CloseStep \/ ConnectStep \/ PollStep \/ ReaderStep \/ Peer

Spec == Init /\ [][Next]_vars

\* Both threads run, and the library's timeouts expire (the peers send MaxFrames at most).
\* The sketch's part: loop() always calls poll() again, and a callback returns in the end,
\* however often it calls close() first.
FairSpec ==
  /\ Spec
  /\ WF_vars(CloseStep) /\ WF_vars(ConnectStep) /\ WF_vars(ReaderStep)
  /\ WF_vars(Dispatch) /\ SF_vars(CallbackReturns) /\ SF_vars(PollSwap)

-----------------------------------------------------------------------------
(* Properties                                                              *)

Records == {Opened(c) : c \in 1..MaxConns} \cup {Closed(c) : c \in 1..MaxConns}
             \cup {Message(c, n) : c \in 1..MaxConns, n \in 0..MaxFrames}

\* Every variable holds a value of its type.
WsTypeOK ==
  /\ {connected, shouldStop, wasOpen, reconnect, libOpen, peerClosed} \subseteq BOOLEAN
  /\ client \in 0..MaxConns /\ conns \in 0..MaxConns
  /\ sketch \in {"loop", "cb", "poll", "close", "stop", "libclose", "reply", "join",
                 "open", "opened"}
  /\ ret \in {"loop", "cb"}
  /\ reader \in {"none", "test", "enter", "blocked", "failed", "push", "got", "done"}
  /\ hand \in 0..MaxFrames /\ sent \in 0..MaxFrames
  /\ wire \in Seq(1..MaxFrames)
  /\ queue \in Seq(Records) /\ drained \in Seq(Records) /\ log \in Seq(Records)

ReaderRuns == reader \notin {"none", "done"}

\* The reader thread dereferences client_ on every turn: while it runs, client_ is the
\* connection it was started for, never null and never the next one.
ReaderOwnsClient == ReaderRuns => client # 0 /\ client = conns

\* Everything that has been or will be handed to the callbacks, in the order it will be.
Stream == log \o drained \o queue

Frame(r) == r[2] = "message" /\ r[3] # Torn

\* poll() hands over each frame once and in the order the peer sent it, and nothing of an
\* earlier connection comes after anything of a later one, whatever closes and
\* reconnects, callbacks included, come between.
StreamInOrder ==
  \A i, j \in 1..Len(Stream) : i < j =>
    /\ Stream[i][1] <= Stream[j][1]
    /\ Frame(Stream[i]) /\ Frame(Stream[j]) => Stream[i][3] < Stream[j][3]

\* The reader thread of sim_websockets.cpp runs on exactly the connection it was started
\* for, poll() hands everything over in order, and every variable keeps its type.
WsInv == WsTypeOK /\ ReaderOwnsClient /\ StreamInOrder

Count(r) == Cardinality({i \in 1..Len(Stream) : Stream[i] = r})

\* However its end races with the reader and with close(), a connection that is over has
\* queued a ConnectionClosed, and no event is queued more than twice.
EndIsReported ==
  \A c \in 1..conns :
    /\ Count(Opened(c)) <= 1 /\ Count(Closed(c)) <= 2
    /\ ~ReaderRuns /\ sketch \in {"loop", "cb", "poll"} /\ (c < conns \/ ~connected)
         => Count(Opened(c)) = 1 /\ Count(Closed(c)) >= 1

\* close() and connect() return: join() does not wait for ever on a blocked reader.
CloseReturns == (sketch = "close") ~> (sketch \in {"loop", "cb"})

=============================================================================
