---------------------------- MODULE EventSource ----------------------------
(***************************************************************************)
(* AsyncWebServer with one AsyncEventSource (runtime/src/                  *)
(* sim_asyncwebserver.cpp): the sketch thread sends server-sent events and *)
(* starts and stops the server; one pool thread per connected browser      *)
(* waits on that client's condition variable and writes its frames out.    *)
(*                                                                         *)
(* A step is what a thread does between two points where another thread    *)
(* can be seen: taking clients_mutex_ or a client's mutex, waiting on the  *)
(* condition variable, sink.write() with the mutex released.  Frames are   *)
(* numbered in the order of send().                                        *)
(***************************************************************************)
EXTENDS Naturals, Sequences, FiniteSets

CONSTANTS
  Clients,    \* connections that browsers open, one GET each
  MaxDepth,   \* kMaxQueueDepth
  MaxFrames,  \* bound on calls of send()
  MaxBegins   \* bound on calls of begin()

ASSUME EventSourceAssumption ==
  /\ IsFiniteSet(Clients)
  /\ MaxDepth \in Nat \ {0} /\ MaxFrames \in Nat /\ MaxBegins \in Nat

VARIABLES
  sketch,     \* the sketch thread: "stopped", "run", "send", and in stop():
              \* "flagged", "closing", "closed", "join"
  server,     \* the httplib server: "down", "bound", "listening"
  shutdown,   \* shutdown_
  clients,    \* clients_
  todo,       \* clients still to visit in the loop that holds clients_mutex_
  begins,     \* calls of begin() so far
  frames,     \* calls of send() so far
  at,         \* where each connection's pool thread is
  alive,      \* the browser still holds its end of the connection
  queue,      \* Client::queue
  closed,     \* Client::closed
  inflight,   \* the frame popped for the sink.write() in progress
  since,      \* history: frames sent before the client was registered
  delivered   \* history: the frames written to the client

sketchVars == <<sketch, todo, begins, frames>>
clientVars == <<at, alive, queue, closed, inflight>>
vars == <<sketchVars, server, shutdown, clients, clientVars, since, delivered>>

Init ==
  /\ sketch = "stopped" /\ server = "down" /\ shutdown = FALSE
  /\ clients = {} /\ todo = {} /\ begins = 0 /\ frames = 0
  /\ at = [c \in Clients |-> "none"]
  /\ alive = [c \in Clients |-> TRUE]
  /\ queue = [c \in Clients |-> <<>>]
  /\ closed = [c \in Clients |-> FALSE]
  /\ inflight = [c \in Clients |-> 0]
  /\ since = [c \in Clients |-> 0]
  /\ delivered = [c \in Clients |-> <<>>]

ClientsMutexFree == sketch \notin {"send", "closing"}

Move(c, from, to) == at[c] = from /\ at' = [at EXCEPT ![c] = to]

-----------------------------------------------------------------------------
(* The sketch thread.                                                      *)

Begin ==
  /\ sketch = "stopped" /\ begins < MaxBegins
  /\ begins' = begins + 1
  /\ server' = "bound" /\ sketch' = "run"
  /\ UNCHANGED <<todo, frames, shutdown, clients, clientVars, since, delivered>>

SendBegin ==
  /\ sketch = "run" /\ frames < MaxFrames
  /\ frames' = frames + 1
  /\ todo' = clients
  /\ sketch' = "send"
  /\ UNCHANGED <<begins, server, shutdown, clients, clientVars, since, delivered>>

\* Mutant of Notify: the waiting thread is not woken.
Notify_Forgotten(c) == at

\* notify_one() or notify_all(): a thread blocked in wait() tests again.
Notify(c) == IF at[c] = "blocked" THEN [at EXCEPT ![c] = "test"] ELSE at

\* Mutant of Enqueue: the frame is put in front.
Enqueue_Front(q, f) == <<f>> \o q

\* Make room by dropping from the front, then append.
Enqueue(q, f) ==
  LET drop == IF Len(q) < MaxDepth THEN 0 ELSE Len(q) - MaxDepth + 1
  IN Append(SubSeq(q, drop + 1, Len(q)), f)

SendOne(c) ==
  /\ sketch = "send" /\ c \in todo
  /\ queue' = [queue EXCEPT ![c] = Enqueue(@, frames)]
  /\ at' = Notify(c)
  /\ todo' = todo \ {c}
  /\ UNCHANGED <<sketch, begins, frames, server, shutdown, clients, alive,
                 closed, inflight, since, delivered>>

SendEnd ==
  /\ sketch = "send" /\ todo = {}
  /\ sketch' = "run"
  /\ UNCHANGED <<todo, begins, frames, server, shutdown, clients, clientVars,
                 since, delivered>>

\* Mutant of StopFlag: only the clients registered by then are told.
StopFlag_NotRaised ==
  /\ sketch = "run"
  /\ sketch' = "flagged"
  /\ UNCHANGED <<todo, begins, frames, server, shutdown, clients, clientVars,
                 since, delivered>>

\* stop(): shutdown() raises the flag before it takes clients_mutex_.
StopFlag ==
  /\ sketch = "run"
  /\ shutdown' = TRUE
  /\ sketch' = "flagged"
  /\ UNCHANGED <<todo, begins, frames, server, clients, clientVars, since,
                 delivered>>

StopLock ==
  /\ sketch = "flagged"
  /\ todo' = clients
  /\ sketch' = "closing"
  /\ UNCHANGED <<begins, frames, server, shutdown, clients, clientVars, since,
                 delivered>>

CloseOne(c) ==
  /\ sketch = "closing" /\ c \in todo
  /\ closed' = [closed EXCEPT ![c] = TRUE]
  /\ at' = Notify(c)
  /\ todo' = todo \ {c}
  /\ UNCHANGED <<sketch, begins, frames, server, shutdown, clients, alive,
                 queue, inflight, since, delivered>>

CloseEnd ==
  /\ sketch = "closing" /\ todo = {}
  /\ sketch' = "closed"
  /\ UNCHANGED <<todo, begins, frames, server, shutdown, clients, clientVars,
                 since, delivered>>

\* srv_.stop() closes the socket of a server that is already listening, and
\* does nothing to one whose thread has not got there yet.
StopServer ==
  /\ sketch = "closed"
  /\ server' = IF server = "listening" THEN "down" ELSE server
  /\ sketch' = "join"
  /\ UNCHANGED <<todo, begins, frames, shutdown, clients, clientVars, since,
                 delivered>>

\* thread_.join() returns when the listening loop has ended and the pool has
\* finished every connection.
Join ==
  /\ sketch = "join" /\ server = "down"
  /\ \A c \in Clients : at[c] \in {"none", "gone"}
  /\ sketch' = "stopped"
  /\ UNCHANGED <<todo, begins, frames, server, shutdown, clients, clientVars,
                 since, delivered>>

-----------------------------------------------------------------------------
(* The server's thread and the pool threads.                               *)

Listen ==
  /\ server = "bound"
  /\ server' = "listening"
  /\ UNCHANGED <<sketchVars, shutdown, clients, clientVars, since, delivered>>

Connect(c) ==
  /\ server = "listening"
  /\ Move(c, "none", "accepted")
  /\ UNCHANGED <<sketchVars, server, shutdown, clients, alive, queue, closed,
                 inflight, since, delivered>>

Register(c) ==
  /\ ClientsMutexFree
  /\ Move(c, "accepted", "loop")
  /\ clients' = clients \cup {c}
  /\ since' = [since EXCEPT ![c] = frames]
  /\ UNCHANGED <<sketchVars, server, shutdown, alive, queue, closed, inflight,
                 delivered>>

\* httplib's chunked loop: end when the server is closing or the peer is
\* gone, otherwise call the content provider.
ProviderCall(c) ==
  /\ Move(c, "loop", IF server = "down" \/ ~alive[c] THEN "leave" ELSE "test")
  /\ UNCHANGED <<sketchVars, server, shutdown, clients, alive, queue, closed,
                 inflight, since, delivered>>

\* The predicate of cv.wait(), under the client's mutex.
WaitTest(c) ==
  /\ Move(c, "test", CASE shutdown \/ closed[c] -> "leave"
                       [] ~(shutdown \/ closed[c]) /\ queue[c] # <<>> -> "flush"
                       [] OTHER -> "blocked")
  /\ UNCHANGED <<sketchVars, server, shutdown, clients, alive, queue, closed,
                 inflight, since, delivered>>

FlushPop(c) ==
  /\ queue[c] # <<>>
  /\ Move(c, "flush", "write")
  /\ inflight' = [inflight EXCEPT ![c] = Head(queue[c])]
  /\ queue' = [queue EXCEPT ![c] = Tail(@)]
  /\ UNCHANGED <<sketchVars, server, shutdown, clients, alive, closed, since,
                 delivered>>

FlushEnd(c) ==
  /\ queue[c] = <<>>
  /\ Move(c, "flush", "loop")
  /\ UNCHANGED <<sketchVars, server, shutdown, clients, alive, queue, closed,
                 inflight, since, delivered>>

WriteDone(c) ==
  /\ Move(c, "write", "flush")
  /\ delivered' = [delivered EXCEPT ![c] = Append(@, inflight[c])]
  /\ inflight' = [inflight EXCEPT ![c] = 0]
  /\ UNCHANGED <<sketchVars, server, shutdown, clients, alive, queue, closed,
                 since>>

\* sink.write() to a browser that left fails, at once or later.
WriteFailed(c) ==
  /\ ~alive[c]
  /\ Move(c, "write", "leave")
  /\ inflight' = [inflight EXCEPT ![c] = 0]
  /\ UNCHANGED <<sketchVars, server, shutdown, clients, alive, queue, closed,
                 since, delivered>>

Unregister(c) ==
  /\ ClientsMutexFree
  /\ Move(c, "leave", "gone")
  /\ clients' = clients \ {c}
  /\ UNCHANGED <<sketchVars, server, shutdown, alive, queue, closed, inflight,
                 since, delivered>>

PeerLeaves(c) ==
  /\ alive[c] /\ at[c] \notin {"none", "gone"}
  /\ alive' = [alive EXCEPT ![c] = FALSE]
  /\ UNCHANGED <<sketchVars, server, shutdown, clients, at, queue, closed,
                 inflight, since, delivered>>

-----------------------------------------------------------------------------
SketchSend == SendBegin \/ (\E c \in Clients : SendOne(c)) \/ SendEnd
SketchStop ==
  StopLock \/ (\E c \in Clients : CloseOne(c)) \/ CloseEnd \/ StopServer \/ Join
Pool(c) ==
  \/ Register(c) \/ ProviderCall(c) \/ WaitTest(c)
  \/ FlushPop(c) \/ FlushEnd(c) \/ WriteDone(c) \/ WriteFailed(c)
  \/ Unregister(c)

Next ==
  \/ Begin \/ SketchSend \/ StopFlag \/ SketchStop
  \/ Listen
  \/ \E c \in Clients : Connect(c) \/ PeerLeaves(c) \/ Pool(c)

Spec == Init /\ [][Next]_vars

\* Every thread runs: a send() or stop() that was called goes on, and so does every pool
\* thread that is not blocked (sink.write() has a timeout).  Weak fairness will do for the
\* mutex: send() and stop() are called a bounded number of times.
Fairness ==
  /\ WF_vars(SketchSend /\ sketch # "run") /\ WF_vars(SketchStop) /\ WF_vars(Listen)
  /\ \A c \in Clients : WF_vars(Pool(c))

FairSpec == Spec /\ Fairness

-----------------------------------------------------------------------------
EventSourceTypeOK ==
  /\ sketch \in {"stopped", "run", "send", "flagged", "closing", "closed", "join"}
  /\ server \in {"down", "bound", "listening"}
  /\ shutdown \in BOOLEAN
  /\ clients \subseteq Clients /\ todo \subseteq clients
  /\ begins \in 0 .. MaxBegins /\ frames \in 0 .. MaxFrames
  /\ at \in [Clients -> {"none", "accepted", "loop", "test", "blocked",
                         "flush", "write", "leave", "gone"}]
  /\ alive \in [Clients -> BOOLEAN] /\ closed \in [Clients -> BOOLEAN]
  /\ queue \in [Clients -> Seq(1 .. MaxFrames)]
  /\ inflight \in [Clients -> 0 .. MaxFrames]
  /\ since \in [Clients -> 0 .. MaxFrames]
  /\ delivered \in [Clients -> Seq(1 .. MaxFrames)]

\* No lost wake-up: a pool thread asleep on its condition variable has
\* nothing to do, also while send() or shutdown() is half way through the
\* clients (the order argued for in lines 124-127).
NobodySleepsOnWork ==
  \A c \in Clients :
    at[c] = "blocked" =>
      /\ queue[c] = <<>> /\ ~closed[c]
      /\ shutdown => sketch = "flagged" \/ c \in todo

\* What a client was written, is being written and still has queued.
Pipeline(c) ==
  delivered[c]
    \o (IF at[c] = "write" THEN <<inflight[c]>> ELSE <<>>) \o queue[c]

\* Frames reach a browser in the order of send(), each at most once, and
\* none from before it connected.
FramesInOrder ==
  \A c \in Clients :
    LET p == Pipeline(c) IN
    \A i \in 1 .. Len(p) : p[i] > IF i = 1 THEN since[c] ELSE p[i - 1]

\* No pool thread of sim_asyncwebserver.cpp sleeps on undone work, its clients get their
\* frames in order, and every variable keeps its type.
EventSourceInv == EventSourceTypeOK /\ NobodySleepsOnWork /\ FramesInOrder

\* Once the server thread is listening, end() does return, whatever the
\* browsers do.
StopReturnsWhenListening ==
  (sketch = "flagged" /\ server = "listening") ~> (sketch = "stopped")

\* A browser that stays connected receives the latest frame or is dropped.
LatestFrameArrives ==
  \A c \in Clients : \A f \in 1 .. MaxFrames :
    (c \in clients /\ since[c] < f /\ frames = f /\ sketch = "run") ~>
      \/ frames > f \/ at[c] \in {"leave", "gone"} \/ ~alive[c]
      \/ Len(delivered[c]) > 0 /\ delivered[c][Len(delivered[c])] = f
=============================================================================
