-------------------------- MODULE WebServers_proofs --------------------------
(***************************************************************************)
(* What the servers in a sketch's process guarantee for every size: one part *)
(* for each module that WebServersMC composes.  They share no variable, so *)
(* that each part is about the specification of its own module.            *)
(***************************************************************************)
EXTENDS EventSource, WebRequests, HttpSurfaces,
        TLAPS

------------------------------------------------------------------------------
(***************************************************************************)
(* EventSourceInv is an invariant of EventSource for every set of          *)
(* clients, every depth of the queues and every number of frames.  The     *)
(* strengthening orders the frames of a client pairwise, so that those     *)
(* that a full queue drops may be any, and bounds them by what the loop of *)
(* send() has already given this client.                                   *)
(***************************************************************************)

Frames == 1 .. MaxFrames

\* The loop over the clients goes through those that are registered, behind the mutex.
Registered ==
  /\ sketch \notin {"send", "closing"} => todo = {}
  /\ \A c \in Clients : at[c] \notin {"none", "accepted", "gone"} => c \in clients
  /\ sketch = "send" => frames \in Frames

\* The latest frame that c can have.
Limit(c) == IF sketch = "send" /\ c \in todo THEN frames - 1 ELSE frames

Increasing(s) == \A i, j \in 1 .. Len(s) : i < j => s[i] < s[j]

\* Everything of s is after everything up to n, and not after m.
Between(n, s, m) == \A i \in 1 .. Len(s) : n < s[i] /\ s[i] <= m

OrderedFrames(c) ==
  /\ since[c] <= Limit(c)
  /\ Increasing(delivered[c]) /\ Increasing(queue[c])
  /\ Between(since[c], delivered[c], Limit(c)) /\ Between(since[c], queue[c], Limit(c))
  /\ \A i \in 1 .. Len(delivered[c]), j \in 1 .. Len(queue[c]) : delivered[c][i] < queue[c][j]
  /\ at[c] = "write" =>
       /\ since[c] < inflight[c] /\ inflight[c] <= Limit(c)
       /\ \A i \in 1 .. Len(delivered[c]) : delivered[c][i] < inflight[c]
       /\ \A j \in 1 .. Len(queue[c]) : inflight[c] < queue[c][j]

SseInv ==
  /\ EventSourceTypeOK /\ Registered /\ NobodySleepsOnWork
  /\ \A c \in Clients : OrderedFrames(c)

-----------------------------------------------------------------------------
(* Queues                                                                  *)

LEMMA FramesAreNumbers ==
  /\ \A f \in Frames : f \in Nat
  /\ \A q \in Seq(Frames) : Len(q) \in Nat /\ \A i \in 1 .. Len(q) : q[i] \in Nat
  <1>1. \A f \in Frames : f \in Nat
    BY EventSourceAssumption DEF Frames
  <1>2. ASSUME NEW q \in Seq(Frames)
        PROVE  Len(q) \in Nat /\ \A i \in 1 .. Len(q) : q[i] \in Frames
    OBVIOUS
  <1> QED
    BY <1>1, <1>2

\* Making room drops frames from the front; what is left keeps its order.
LEMMA EnqueueKeeps ==
  ASSUME NEW q \in Seq(Frames), NEW f \in Frames
  PROVE  /\ Enqueue(q, f) \in Seq(Frames) /\ Len(Enqueue(q, f)) \in Nat \ {0}
         /\ Enqueue(q, f)[Len(Enqueue(q, f))] = f
         /\ \E drop \in 0 .. Len(q) :
              /\ Len(Enqueue(q, f)) = Len(q) - drop + 1
              /\ \A i \in 1 .. Len(q) - drop : Enqueue(q, f)[i] = q[i + drop]
  <1> DEFINE drop == IF Len(q) < MaxDepth THEN 0 ELSE Len(q) - MaxDepth + 1
  <1>1. drop \in 0 .. Len(q)
    BY EventSourceAssumption
  <1>2. Enqueue(q, f) = Append(SubSeq(q, drop + 1, Len(q)), f)
    BY DEF Enqueue
  <1> HIDE DEF drop
  <1> DEFINE rest == SubSeq(q, drop + 1, Len(q))
  <1>3. /\ rest \in Seq(Frames) /\ Len(rest) = Len(q) - drop
        /\ \A i \in 1 .. Len(q) - drop : rest[i] = q[i + drop]
    BY <1>1
  <1>4. Enqueue(q, f) = Append(rest, f)
    BY <1>2
  <1> HIDE DEF rest
  <1>5. /\ Append(rest, f) \in Seq(Frames) /\ Len(Append(rest, f)) = Len(rest) + 1
        /\ Append(rest, f)[Len(rest) + 1] = f
        /\ \A i \in 1 .. Len(rest) : Append(rest, f)[i] = rest[i]
    BY <1>3
  <1> QED
    BY <1>1, <1>3, <1>4, <1>5

\* A later frame at the end of an increasing queue, after what was dropped.
LEMMA EnqueueInOrder ==
  ASSUME NEW q \in Seq(Frames), NEW f \in Frames, NEW n \in Nat, n < f,
         Increasing(q), Between(n, q, f - 1)
  PROVE  LET r == Enqueue(q, f)
         IN /\ Increasing(r) /\ Between(n, r, f)
            /\ \A m \in Nat : m < f /\ (\A j \in 1 .. Len(q) : m < q[j]) =>
                 \A j \in 1 .. Len(r) : m < r[j]
  <1> DEFINE r == Enqueue(q, f)
  <1>1. PICK drop \in 0 .. Len(q) :
          /\ Len(r) = Len(q) - drop + 1
          /\ \A i \in 1 .. Len(q) - drop : r[i] = q[i + drop]
    BY EnqueueKeeps
  <1>2. r[Len(r)] = f
    BY EnqueueKeeps
  <1> HIDE DEF r
  <1>3. ASSUME NEW i \in 1 .. Len(r)
        PROVE  i = Len(r) \/ (i + drop \in 1 .. Len(q) /\ r[i] = q[i + drop])
    BY <1>1
  <1>0. f \in Nat /\ Len(q) \in Nat /\ \A i \in 1 .. Len(q) : q[i] \in Nat
    BY FramesAreNumbers
  <1>4. \A i \in 1 .. Len(q) : n < q[i] /\ q[i] < f
    BY <1>0 DEF Between
  <1>5. Increasing(r)
    <2> SUFFICES ASSUME NEW i \in 1 .. Len(r), NEW j \in 1 .. Len(r), i < j
                 PROVE  r[i] < r[j]
      BY DEF Increasing
    <2>1. i + drop \in 1 .. Len(q) /\ r[i] = q[i + drop]
      BY <1>0, <1>1, <1>3
    <2>2. CASE j = Len(r)
      BY <1>2, <1>4, <2>1, <2>2
    <2>3. CASE j + drop \in 1 .. Len(q) /\ r[j] = q[j + drop]
      BY <1>0, <1>1, <2>1, <2>3 DEF Increasing
    <2> QED
      BY <1>3, <2>2, <2>3
  <1>6. Between(n, r, f)
    <2> SUFFICES ASSUME NEW i \in 1 .. Len(r) PROVE n < r[i] /\ r[i] <= f
      BY DEF Between
    <2>1. CASE i = Len(r)
      BY <1>0, <1>2, <2>1
    <2>2. CASE i + drop \in 1 .. Len(q) /\ r[i] = q[i + drop]
      BY <1>0, <1>4, <2>2
    <2> QED
      BY <1>3, <2>1, <2>2
  <1>7. \A m \in Nat : m < f /\ (\A j \in 1 .. Len(q) : m < q[j]) =>
          \A j \in 1 .. Len(r) : m < r[j]
    BY <1>2, <1>3
  <1> QED
    BY <1>5, <1>6, <1>7 DEF r

-----------------------------------------------------------------------------
(* The frames of one client                                                *)

\* A client whose frames a step does not touch keeps their order.
LEMMA SameFrames ==
  ASSUME NEW c \in Clients, OrderedFrames(c), EventSourceTypeOK,
         delivered'[c] = delivered[c], queue'[c] = queue[c], since'[c] = since[c],
         Limit(c) \in Nat, Limit(c)' \in Nat, Limit(c) <= Limit(c)',
         at'[c] = "write" => at[c] = "write" /\ inflight'[c] = inflight[c]
  PROVE  OrderedFrames(c)'
  <1>1. /\ since[c] \in Nat /\ inflight[c] \in Nat
        /\ queue[c] \in Seq(Frames) /\ delivered[c] \in Seq(Frames)
    BY EventSourceAssumption DEF EventSourceTypeOK, Frames
  <1>2. /\ \A i \in 1 .. Len(queue[c]) : queue[c][i] \in Nat
        /\ \A i \in 1 .. Len(delivered[c]) : delivered[c][i] \in Nat
    BY <1>1, FramesAreNumbers
  <1> HIDE DEF Limit
  <1> QED
    BY <1>1, <1>2 DEF OrderedFrames, Increasing, Between

LEMMA LimitIsNat ==
  ASSUME EventSourceTypeOK, Registered, NEW c \in Clients
  PROVE  Limit(c) \in Nat /\ Limit(c) <= frames
  BY EventSourceAssumption DEF EventSourceTypeOK, Registered, Limit, Frames

-----------------------------------------------------------------------------
(* Steps                                                                   *)

\* What a step has to show that neither gives nor takes a frame.
LEMMA NoFrameStep ==
  ASSUME SseInv, UNCHANGED <<queue, delivered, since>>, EventSourceTypeOK', Registered',
         NobodySleepsOnWork',
         \A c \in Clients : /\ Limit(c) <= Limit(c)'
                            /\ at'[c] = "write" => at[c] = "write" /\ inflight'[c] = inflight[c]
  PROVE  SseInv'
  <1>1. ASSUME NEW c \in Clients PROVE OrderedFrames(c)'
    <2>1. Limit(c) \in Nat
      BY LimitIsNat DEF SseInv
    <2>2. Limit(c)' \in Nat
      <3>1. frames' \in Nat
        BY EventSourceAssumption DEF EventSourceTypeOK
      <3>2. sketch' = "send" => frames' - 1 \in Nat
        BY EventSourceAssumption DEF Registered, Frames
      <3> QED
        BY <3>1, <3>2 DEF Limit
    <2> QED
      BY <2>1, <2>2, SameFrames DEF SseInv
  <1> QED
    BY <1>1 DEF SseInv

LEMMA SketchStep ==
  ASSUME SseInv,
         \/ Begin \/ SendBegin \/ SendEnd \/ StopFlag \/ StopLock \/ CloseEnd \/ StopServer
         \/ Join \/ Listen
  PROVE  SseInv'
  <1> USE DEF SseInv
  <1>1. UNCHANGED <<clients, at, alive, queue, closed, inflight, delivered, since>>
    BY DEF Begin, SendBegin, SendEnd, StopFlag, StopLock, CloseEnd, StopServer, Join, Listen,
           clientVars, sketchVars
  <1>2. frames' \in 0 .. MaxFrames /\ begins' \in 0 .. MaxBegins
    BY EventSourceAssumption
       DEF EventSourceTypeOK, Begin, SendBegin, SendEnd, StopFlag, StopLock, CloseEnd,
           StopServer, Join, Listen, sketchVars
  <1>3. todo' \subseteq clients
    BY DEF EventSourceTypeOK, Begin, SendBegin, SendEnd, StopFlag, StopLock, CloseEnd,
           StopServer, Join, Listen, sketchVars
  <1>4. /\ sketch' \in {"stopped", "run", "send", "flagged", "closing", "closed", "join"}
        /\ server' \in {"down", "bound", "listening"} /\ shutdown' \in BOOLEAN
    BY DEF EventSourceTypeOK, Begin, SendBegin, SendEnd, StopFlag, StopLock, CloseEnd,
           StopServer, Join, Listen, sketchVars
  <1>5. EventSourceTypeOK'
    BY <1>1, <1>2, <1>3, <1>4 DEF EventSourceTypeOK
  <1>6. Registered'
    <2>1. sketch' \notin {"send", "closing"} => todo' = {}
      BY DEF Registered, Begin, SendBegin, SendEnd, StopFlag, StopLock, CloseEnd,
             StopServer, Join, Listen, sketchVars
    <2>2. sketch' = "send" => frames' \in Frames
      <3>1. CASE SendBegin
        BY <3>1, EventSourceAssumption DEF SendBegin, EventSourceTypeOK, Frames
      <3>2. CASE ~SendBegin
        BY <3>2 DEF Registered, Begin, SendEnd, StopFlag, StopLock, CloseEnd,
                    StopServer, Join, Listen, sketchVars
      <3> QED
        BY <3>1, <3>2
    <2> QED
      BY <1>1, <2>1, <2>2 DEF Registered
  <1>7. NobodySleepsOnWork'
    <2> SUFFICES ASSUME NEW c \in Clients, at[c] = "blocked", shutdown'
                 PROVE  sketch' = "flagged" \/ c \in todo'
      BY <1>1 DEF NobodySleepsOnWork
    <2>1. c \in clients
      BY DEF Registered
    <2>2. shutdown => sketch = "flagged" \/ c \in todo
      BY DEF NobodySleepsOnWork
    <2> QED
      BY <2>1, <2>2
         DEF Registered, Begin, SendBegin, SendEnd, StopFlag, StopLock, CloseEnd,
             StopServer, Join, Listen, sketchVars
  <1>8. \A c \in Clients : Limit(c) <= Limit(c)'
    <2>1. frames \in Nat
      BY EventSourceAssumption DEF EventSourceTypeOK
    <2>2. CASE SendBegin
      BY <2>1, <2>2 DEF SendBegin, Registered, Limit
    <2>3. CASE SendEnd
      BY <2>1, <2>3 DEF SendEnd, Limit
    <2>4. CASE sketch # "send" /\ sketch' # "send" /\ frames' = frames
      BY <2>1, <2>4 DEF Limit
    <2>5. CASE Listen
      BY <2>1, <2>5 DEF Listen, Limit, sketchVars
    <2> QED
      BY <2>2, <2>3, <2>4, <2>5 DEF Begin, StopFlag, StopLock, CloseEnd, StopServer, Join
  <1> QED
    BY <1>1, <1>5, <1>6, <1>7, <1>8, NoFrameStep

\* A thread that stopped waits for: it is told, and no one else.
LEMMA CloseStep ==
  ASSUME SseInv, NEW c \in Clients, CloseOne(c)
  PROVE  SseInv'
  <1> USE DEF SseInv
  <1>1. /\ UNCHANGED <<sketch, begins, frames, server, shutdown, clients, alive, queue,
                       inflight, since, delivered>>
        /\ sketch = "closing" /\ todo' = todo \ {c}
        /\ closed' = [closed EXCEPT ![c] = TRUE]
    BY DEF CloseOne
  <1>2. /\ at' \in [Clients -> {"none", "accepted", "loop", "test", "blocked",
                                "flush", "write", "leave", "gone"}]
        /\ at'[c] # "blocked" /\ \A u \in Clients \ {c} : at'[u] = at[u]
        /\ \A u \in Clients : at'[u] # at[u] => at[u] = "blocked" /\ at'[u] = "test"
    BY DEF CloseOne, Notify, EventSourceTypeOK
  <1>3. EventSourceTypeOK'
    BY <1>1, <1>2 DEF EventSourceTypeOK
  <1>4. Registered'
    BY <1>1, <1>2 DEF Registered
  <1>5. NobodySleepsOnWork'
    BY <1>1, <1>2 DEF NobodySleepsOnWork, EventSourceTypeOK
  <1>6. \A u \in Clients : Limit(u) <= Limit(u)'
    BY <1>1, LimitIsNat DEF Limit
  <1> QED
    BY <1>1, <1>2, <1>3, <1>4, <1>5, <1>6, NoFrameStep

\* send() to one client: the frame is the latest for it from now on, and it is awake.
LEMMA SendStep ==
  ASSUME SseInv, NEW c \in Clients, SendOne(c)
  PROVE  SseInv'
  <1> USE DEF SseInv
  <1>1. /\ UNCHANGED <<sketch, begins, frames, server, shutdown, clients, alive, closed,
                       inflight, since, delivered>>
        /\ sketch = "send" /\ c \in todo /\ todo' = todo \ {c}
        /\ queue' = [queue EXCEPT ![c] = Enqueue(queue[c], frames)]
    BY DEF SendOne, EventSourceTypeOK
  <1>2. /\ at' \in [Clients -> {"none", "accepted", "loop", "test", "blocked",
                                "flush", "write", "leave", "gone"}]
        /\ at'[c] # "blocked" /\ \A u \in Clients \ {c} : at'[u] = at[u]
        /\ \A u \in Clients : at'[u] # at[u] => at[u] = "blocked" /\ at'[u] = "test"
    BY DEF SendOne, Notify, EventSourceTypeOK
  <1>3. queue[c] \in Seq(Frames) /\ delivered[c] \in Seq(Frames) /\ frames \in Frames
        /\ frames \in Nat /\ since[c] \in Nat /\ inflight[c] \in Nat
    BY <1>1, EventSourceAssumption DEF EventSourceTypeOK, Registered, Frames
  <1>4. Enqueue(queue[c], frames) \in Seq(Frames)
    BY <1>3, EnqueueKeeps
  <1>5. /\ queue'[c] = Enqueue(queue[c], frames)
        /\ \A u \in Clients \ {c} : queue'[u] = queue[u]
    BY <1>1 DEF EventSourceTypeOK
  <1>6. EventSourceTypeOK'
    <2>1. queue' \in [Clients -> Seq(Frames)]
      BY <1>1, <1>4 DEF EventSourceTypeOK, Frames
    <2> QED
      BY <1>1, <1>2, <2>1 DEF EventSourceTypeOK, Frames
  <1>7. Registered'
    BY <1>1, <1>2 DEF Registered
  <1>8. NobodySleepsOnWork'
    BY <1>1, <1>2, <1>5 DEF NobodySleepsOnWork
  <1>9. ASSUME NEW u \in Clients \ {c} PROVE OrderedFrames(u)'
    <2>1. Limit(u)' = Limit(u)
      BY <1>1 DEF Limit
    <2> QED
      BY <1>1, <1>2, <1>5, <2>1, LimitIsNat, SameFrames
  <1>10. OrderedFrames(c)'
    <2>1. Limit(c) = frames - 1 /\ Limit(c)' = frames
      BY <1>1 DEF Limit
    <2>2. /\ since[c] <= frames - 1
          /\ Increasing(delivered[c]) /\ Increasing(queue[c])
          /\ Between(since[c], delivered[c], frames - 1) /\ Between(since[c], queue[c], frames - 1)
          /\ \A i \in 1 .. Len(delivered[c]), j \in 1 .. Len(queue[c]) :
               delivered[c][i] < queue[c][j]
          /\ at[c] = "write" =>
               /\ since[c] < inflight[c] /\ inflight[c] <= frames - 1
               /\ \A i \in 1 .. Len(delivered[c]) : delivered[c][i] < inflight[c]
               /\ \A j \in 1 .. Len(queue[c]) : inflight[c] < queue[c][j]
      BY <2>1 DEF OrderedFrames
    <2>3. since[c] < frames
      BY <1>3, <2>2
    <2>4. /\ Increasing(queue'[c]) /\ Between(since[c], queue'[c], frames)
          /\ \A m \in Nat : m < frames /\ (\A j \in 1 .. Len(queue[c]) : m < queue[c][j]) =>
               \A j \in 1 .. Len(queue'[c]) : m < queue'[c][j]
      BY <1>3, <1>5, <2>2, <2>3, EnqueueInOrder
    <2>5. \A i \in 1 .. Len(delivered[c]) : delivered[c][i] \in Nat
      BY <1>3, FramesAreNumbers
    <2>6. \A i \in 1 .. Len(delivered[c]) : delivered[c][i] < frames
      BY <1>3, <2>2, <2>5 DEF Between
    <2>7. \A i \in 1 .. Len(delivered[c]), j \in 1 .. Len(queue'[c]) :
            delivered[c][i] < queue'[c][j]
      BY <2>2, <2>4, <2>5, <2>6
    <2>8. Between(since[c], delivered[c], frames)
      BY <1>3, <2>2, <2>5, <2>6 DEF Between
    <2>9. at'[c] = "write" =>
            /\ since[c] < inflight[c] /\ inflight[c] <= frames
            /\ \A i \in 1 .. Len(delivered[c]) : delivered[c][i] < inflight[c]
            /\ \A j \in 1 .. Len(queue'[c]) : inflight[c] < queue'[c][j]
      <3> SUFFICES ASSUME at[c] = "write"
                   PROVE  /\ since[c] < inflight[c] /\ inflight[c] <= frames
                          /\ \A i \in 1 .. Len(delivered[c]) : delivered[c][i] < inflight[c]
                          /\ \A j \in 1 .. Len(queue'[c]) : inflight[c] < queue'[c][j]
        BY <1>2
      <3>1. inflight[c] < frames
        BY <1>3, <2>2
      <3>2. inflight[c] <= frames
        BY <1>3, <3>1
      <3>3. \A j \in 1 .. Len(queue[c]) : inflight[c] < queue[c][j]
        BY <2>2
      <3>4. \A j \in 1 .. Len(queue'[c]) : inflight[c] < queue'[c][j]
        BY <1>3, <2>4, <3>1, <3>3
      <3> QED
        BY <2>2, <3>2, <3>4
    <2> HIDE DEF Limit
    <2> QED
      BY <1>1, <2>1, <2>2, <2>3, <2>4, <2>7, <2>8, <2>9, <1>3 DEF OrderedFrames
  <1> QED
    BY <1>6, <1>7, <1>8, <1>9, <1>10

\* What the threads of the connections do with no frame in hand.
LEMMA PoolStep ==
  ASSUME SseInv, NEW c \in Clients,
         Connect(c) \/ ProviderCall(c) \/ WaitTest(c) \/ FlushEnd(c) \/ PeerLeaves(c)
           \/ Unregister(c) \/ WriteFailed(c)
  PROVE  SseInv'
  <1> USE DEF SseInv
  <1> DEFINE places == {"none", "accepted", "loop", "test", "blocked", "flush", "write",
                        "leave", "gone"}
  <1>1. /\ UNCHANGED <<sketch, todo, begins, frames, server, shutdown, queue, closed, since,
                       delivered>>
        /\ \A u \in Clients \ {c} : at'[u] = at[u] /\ inflight'[u] = inflight[u]
        /\ at'[c] = "write" => at[c] = "write" /\ inflight'[c] = inflight[c]
    BY DEF Connect, ProviderCall, WaitTest, FlushEnd, PeerLeaves, Unregister, WriteFailed, Move,
           sketchVars, EventSourceTypeOK
  <1>2. at' \in [Clients -> places] /\ alive' \in [Clients -> BOOLEAN]
        /\ inflight' \in [Clients -> 0 .. MaxFrames]
    <2>1. at' \in [Clients -> places]
      BY DEF Connect, ProviderCall, WaitTest, FlushEnd, PeerLeaves, Unregister, WriteFailed, Move,
             EventSourceTypeOK
    <2>2. alive' \in [Clients -> BOOLEAN]
      BY DEF Connect, ProviderCall, WaitTest, FlushEnd, PeerLeaves, Unregister, WriteFailed,
             EventSourceTypeOK
    <2>3. inflight' \in [Clients -> 0 .. MaxFrames]
      <3>1. 0 \in 0 .. MaxFrames
        BY EventSourceAssumption
      <3>2. inflight' = inflight \/ inflight' = [inflight EXCEPT ![c] = 0]
        BY DEF Connect, ProviderCall, WaitTest, FlushEnd, PeerLeaves, Unregister, WriteFailed
      <3> QED
        BY <3>1, <3>2 DEF EventSourceTypeOK
    <2> QED
      BY <2>1, <2>2, <2>3
  <1>3. /\ clients' \subseteq Clients /\ todo \subseteq clients'
        /\ \A u \in Clients : at'[u] \notin {"none", "accepted", "gone"} => u \in clients'
    <2>1. CASE Unregister(c)
      BY <2>1 DEF Unregister, Move, ClientsMutexFree, Registered, EventSourceTypeOK
    <2>2. CASE ~Unregister(c)
      <3>1. clients' = clients
        BY <2>2 DEF Connect, ProviderCall, WaitTest, FlushEnd, PeerLeaves, WriteFailed
      <3>2. at'[c] \notin {"none", "accepted", "gone"} => at[c] \notin {"none", "accepted", "gone"}
        BY <2>2 DEF Connect, ProviderCall, WaitTest, FlushEnd, PeerLeaves, WriteFailed, Move,
                    EventSourceTypeOK
      <3> QED
        BY <1>1, <3>1, <3>2 DEF Registered, EventSourceTypeOK
    <2> QED
      BY <2>1, <2>2
  <1>4. EventSourceTypeOK'
    BY <1>1, <1>2, <1>3 DEF EventSourceTypeOK
  <1>5. Registered'
    BY <1>1, <1>3 DEF Registered
  <1>6. NobodySleepsOnWork'
    <2>1. at'[c] = "blocked" =>
            queue[c] = <<>> /\ ~closed[c] /\ (shutdown => sketch = "flagged" \/ c \in todo)
      BY DEF Connect, ProviderCall, WaitTest, FlushEnd, PeerLeaves, Unregister, WriteFailed, Move,
             EventSourceTypeOK, NobodySleepsOnWork
    <2> QED
      BY <1>1, <2>1 DEF NobodySleepsOnWork
  <1>7. \A u \in Clients : Limit(u) <= Limit(u)'
    BY <1>1, LimitIsNat DEF Limit
  <1>8. \A u \in Clients : at'[u] = "write" => at[u] = "write" /\ inflight'[u] = inflight[u]
    BY <1>1
  <1> QED
    BY <1>1, <1>4, <1>5, <1>6, <1>7, <1>8, NoFrameStep

\* A new client, whose frames are those still to come.
LEMMA RegisterStep ==
  ASSUME SseInv, NEW c \in Clients, Register(c), queue[c] = <<>>, delivered[c] = <<>>
  PROVE  SseInv'
  <1> USE DEF SseInv
  <1>1. /\ UNCHANGED <<sketch, todo, begins, frames, server, shutdown, alive, queue, closed,
                       inflight, delivered>>
        /\ clients' = clients \cup {c} /\ since' = [since EXCEPT ![c] = frames]
        /\ at' = [at EXCEPT ![c] = "loop"] /\ at[c] = "accepted"
        /\ sketch \notin {"send", "closing"} /\ todo = {}
    BY DEF Register, Move, sketchVars, ClientsMutexFree, Registered
  <1>2. EventSourceTypeOK'
    BY <1>1 DEF EventSourceTypeOK
  <1>3. Registered'
    BY <1>1 DEF Registered, EventSourceTypeOK
  <1>4. NobodySleepsOnWork'
    BY <1>1 DEF NobodySleepsOnWork, EventSourceTypeOK
  <1>5. \A u \in Clients : Limit(u)' = Limit(u)
    BY <1>1 DEF Limit
  <1>6. ASSUME NEW u \in Clients \ {c} PROVE OrderedFrames(u)'
    <2>1. since'[u] = since[u] /\ at'[u] = at[u]
      BY <1>1 DEF EventSourceTypeOK
    <2> QED
      BY <1>1, <1>5, <2>1, LimitIsNat, SameFrames
  <1>7. OrderedFrames(c)'
    <2>1. since'[c] = frames /\ at'[c] = "loop" /\ Limit(c)' = frames /\ frames \in Nat
      BY <1>1, EventSourceAssumption DEF EventSourceTypeOK, Limit
    <2>2. queue'[c] = <<>> /\ delivered'[c] = <<>> /\ Len(<<>>) = 0
      BY <1>1
    <2> HIDE DEF Limit
    <2> QED
      BY <2>1, <2>2 DEF OrderedFrames, Increasing, Between
  <1> QED
    BY <1>2, <1>3, <1>4, <1>6, <1>7

\* The frame at the head of the queue goes between what was delivered and the rest.
LEMMA PopStep ==
  ASSUME SseInv, NEW c \in Clients, FlushPop(c)
  PROVE  SseInv'
  <1> USE DEF SseInv
  <1>1. /\ UNCHANGED <<sketch, todo, begins, frames, server, shutdown, clients, alive, closed,
                       since, delivered>>
        /\ at' = [at EXCEPT ![c] = "write"] /\ at[c] = "flush" /\ queue[c] # <<>>
        /\ inflight' = [inflight EXCEPT ![c] = Head(queue[c])]
        /\ queue' = [queue EXCEPT ![c] = Tail(queue[c])]
    BY DEF FlushPop, Move, sketchVars, EventSourceTypeOK
  <1>2. /\ queue[c] \in Seq(Frames) /\ delivered[c] \in Seq(Frames) /\ since[c] \in Nat
        /\ \A i \in 1 .. Len(queue[c]) : queue[c][i] \in Nat
        /\ \A i \in 1 .. Len(delivered[c]) : delivered[c][i] \in Nat
    BY EventSourceAssumption, FramesAreNumbers DEF EventSourceTypeOK, Frames
  <1>3. /\ Head(queue[c]) \in Frames /\ Tail(queue[c]) \in Seq(Frames)
        /\ Len(queue[c]) \in Nat \ {0} /\ Head(queue[c]) = queue[c][1]
        /\ Len(Tail(queue[c])) = Len(queue[c]) - 1
        /\ \A i \in 1 .. Len(Tail(queue[c])) : Tail(queue[c])[i] = queue[c][i + 1]
    BY <1>1, <1>2
  <1>4. EventSourceTypeOK'
    <2>1. inflight' \in [Clients -> 0 .. MaxFrames]
      BY <1>1, <1>3, EventSourceAssumption DEF EventSourceTypeOK, Frames
    <2>2. queue' \in [Clients -> Seq(Frames)]
      BY <1>1, <1>3 DEF EventSourceTypeOK, Frames
    <2> QED
      BY <1>1, <2>1, <2>2 DEF EventSourceTypeOK, Frames
  <1>5. Registered'
    BY <1>1 DEF Registered, EventSourceTypeOK
  <1>6. NobodySleepsOnWork'
    BY <1>1 DEF NobodySleepsOnWork, EventSourceTypeOK
  <1>7. \A u \in Clients : Limit(u)' = Limit(u) /\ Limit(u) \in Nat
    BY <1>1, LimitIsNat DEF Limit
  <1>8. ASSUME NEW u \in Clients \ {c} PROVE OrderedFrames(u)'
    <2>1. /\ queue'[u] = queue[u] /\ at'[u] = at[u] /\ inflight'[u] = inflight[u]
      BY <1>1 DEF EventSourceTypeOK
    <2> QED
      BY <1>1, <1>7, <2>1, SameFrames
  <1>9. OrderedFrames(c)'
    <2> DEFINE h == queue[c][1]  t == Tail(queue[c])
    <2>1. /\ queue'[c] = t /\ inflight'[c] = h /\ delivered'[c] = delivered[c]
          /\ since'[c] = since[c]
      BY <1>1, <1>3 DEF EventSourceTypeOK
    <2>2. /\ Len(t) \in Nat /\ h \in Nat /\ 1 \in 1 .. Len(queue[c])
          /\ \A i \in 1 .. Len(t) : i + 1 \in 1 .. Len(queue[c]) /\ t[i] = queue[c][i + 1]
      BY <1>2, <1>3
    <2> HIDE DEF h, t
    <2>3. Increasing(t) /\ \A j \in 1 .. Len(t) : h < t[j]
      <3>1. Increasing(queue[c])
        BY DEF OrderedFrames
      <3>2. Increasing(t)
        <4> SUFFICES ASSUME NEW i \in 1 .. Len(t), NEW j \in 1 .. Len(t), i < j
                     PROVE  t[i] < t[j]
          BY DEF Increasing
        <4>1. i + 1 < j + 1
          BY <2>2
        <4> QED
          BY <2>2, <3>1, <4>1 DEF Increasing
      <3>3. ASSUME NEW j \in 1 .. Len(t) PROVE h < t[j]
        <4>1. 1 < j + 1
          BY <2>2
        <4> QED
          BY <2>2, <3>1, <4>1 DEF Increasing, h
      <3> QED
        BY <3>2, <3>3
    <2>4. Between(since[c], t, Limit(c)) /\ since[c] < h /\ h <= Limit(c)
      BY <2>2 DEF OrderedFrames, Between, h
    <2>5. /\ \A i \in 1 .. Len(delivered[c]) : delivered[c][i] < h
          /\ \A i \in 1 .. Len(delivered[c]), j \in 1 .. Len(t) : delivered[c][i] < t[j]
      BY <2>2 DEF OrderedFrames, h
    <2> HIDE DEF Limit
    <2>6. /\ since[c] <= Limit(c) /\ Increasing(delivered[c])
          /\ Between(since[c], delivered[c], Limit(c))
      BY DEF OrderedFrames
    <2> QED
      BY <1>7, <2>1, <2>3, <2>4, <2>5, <2>6 DEF OrderedFrames
  <1> QED
    BY <1>4, <1>5, <1>6, <1>8, <1>9

\* The frame in hand is behind all that was delivered and before all that is queued.
LEMMA WrittenStep ==
  ASSUME SseInv, NEW c \in Clients, WriteDone(c)
  PROVE  SseInv'
  <1> USE DEF SseInv
  <1>1. /\ UNCHANGED <<sketch, todo, begins, frames, server, shutdown, clients, alive, closed,
                       since, queue>>
        /\ at' = [at EXCEPT ![c] = "flush"] /\ at[c] = "write"
        /\ inflight' = [inflight EXCEPT ![c] = 0]
        /\ delivered' = [delivered EXCEPT ![c] = Append(delivered[c], inflight[c])]
    BY DEF WriteDone, Move, sketchVars, EventSourceTypeOK
  <1>2. /\ queue[c] \in Seq(Frames) /\ delivered[c] \in Seq(Frames) /\ since[c] \in Nat
        /\ inflight[c] \in Nat /\ inflight[c] <= MaxFrames
        /\ \A i \in 1 .. Len(queue[c]) : queue[c][i] \in Nat
        /\ \A i \in 1 .. Len(delivered[c]) : delivered[c][i] \in Nat
    BY EventSourceAssumption, FramesAreNumbers DEF EventSourceTypeOK, Frames
  <1>3. /\ since[c] < inflight[c] /\ inflight[c] <= Limit(c)
        /\ \A i \in 1 .. Len(delivered[c]) : delivered[c][i] < inflight[c]
        /\ \A j \in 1 .. Len(queue[c]) : inflight[c] < queue[c][j]
    BY <1>1 DEF OrderedFrames
  <1>4. inflight[c] \in Frames
    BY <1>2, <1>3, EventSourceAssumption DEF Frames
  <1>5. /\ Append(delivered[c], inflight[c]) \in Seq(Frames)
        /\ Len(Append(delivered[c], inflight[c])) = Len(delivered[c]) + 1
        /\ Append(delivered[c], inflight[c])[Len(delivered[c]) + 1] = inflight[c]
        /\ \A i \in 1 .. Len(delivered[c]) :
             Append(delivered[c], inflight[c])[i] = delivered[c][i]
    BY <1>2, <1>4
  <1>6. EventSourceTypeOK'
    <2>1. inflight' \in [Clients -> 0 .. MaxFrames]
      BY <1>1, EventSourceAssumption DEF EventSourceTypeOK
    <2>2. delivered' \in [Clients -> Seq(Frames)]
      BY <1>1, <1>5 DEF EventSourceTypeOK, Frames
    <2> QED
      BY <1>1, <2>1, <2>2 DEF EventSourceTypeOK, Frames
  <1>7. Registered'
    BY <1>1 DEF Registered, EventSourceTypeOK
  <1>8. NobodySleepsOnWork'
    BY <1>1 DEF NobodySleepsOnWork, EventSourceTypeOK
  <1>9. \A u \in Clients : Limit(u)' = Limit(u) /\ Limit(u) \in Nat
    BY <1>1, LimitIsNat DEF Limit
  <1>10. ASSUME NEW u \in Clients \ {c} PROVE OrderedFrames(u)'
    <2>1. /\ delivered'[u] = delivered[u] /\ at'[u] = at[u] /\ inflight'[u] = inflight[u]
      BY <1>1 DEF EventSourceTypeOK
    <2> QED
      BY <1>1, <1>9, <2>1, SameFrames
  <1>11. OrderedFrames(c)'
    <2> DEFINE d == Append(delivered[c], inflight[c])
    <2>1. /\ delivered'[c] = d /\ at'[c] = "flush" /\ since'[c] = since[c]
          /\ queue'[c] = queue[c]
      BY <1>1 DEF EventSourceTypeOK
    <2>2. /\ Len(delivered[c]) \in Nat /\ Len(d) = Len(delivered[c]) + 1
          /\ d[Len(delivered[c]) + 1] = inflight[c]
          /\ \A i \in 1 .. Len(delivered[c]) : d[i] = delivered[c][i]
      BY <1>2, <1>5
    <2>3. ASSUME NEW i \in 1 .. Len(d)
          PROVE  \/ i = Len(delivered[c]) + 1 /\ d[i] = inflight[c]
                 \/ i \in 1 .. Len(delivered[c]) /\ d[i] = delivered[c][i]
      <3>1. i = Len(delivered[c]) + 1 \/ i \in 1 .. Len(delivered[c])
        BY <2>2
      <3> QED
        BY <2>2, <3>1
    <2> HIDE DEF d
    <2>4. Increasing(d)
      <3> SUFFICES ASSUME NEW i \in 1 .. Len(d), NEW j \in 1 .. Len(d), i < j
                   PROVE  d[i] < d[j]
        BY DEF Increasing
      <3>1. i \in 1 .. Len(delivered[c]) /\ d[i] = delivered[c][i]
        BY <2>2
      <3>2. CASE j = Len(delivered[c]) + 1
        BY <1>3, <2>2, <3>1, <3>2
      <3>3. CASE j \in 1 .. Len(delivered[c]) /\ d[j] = delivered[c][j]
        BY <3>1, <3>3 DEF OrderedFrames, Increasing
      <3> QED
        BY <2>3, <3>2, <3>3
    <2> HIDE DEF Limit
    <2>5. Between(since[c], d, Limit(c))
      <3>1. Between(since[c], delivered[c], Limit(c))
        BY DEF OrderedFrames
      <3>2. ASSUME NEW i \in 1 .. Len(d) PROVE since[c] < d[i] /\ d[i] <= Limit(c)
        BY <1>3, <2>3, <3>1 DEF Between
      <3> QED
        BY <3>2 DEF Between
    <2>6. \A i \in 1 .. Len(d), j \in 1 .. Len(queue[c]) : d[i] < queue[c][j]
      <3>1. \A i \in 1 .. Len(delivered[c]), j \in 1 .. Len(queue[c]) :
              delivered[c][i] < queue[c][j]
        BY DEF OrderedFrames
      <3> QED
        BY <1>3, <2>3, <3>1
    <2>7. /\ since[c] <= Limit(c) /\ Increasing(queue[c])
          /\ Between(since[c], queue[c], Limit(c))
      BY DEF OrderedFrames
    <2> QED
      BY <1>9, <2>1, <2>4, <2>5, <2>6, <2>7 DEF OrderedFrames
  <1> QED
    BY <1>6, <1>7, <1>8, <1>10, <1>11

-----------------------------------------------------------------------------
(* The theorem                                                             *)

\* A browser that is not registered yet has been given nothing.
Fresh ==
  \A c \in Clients : at[c] \in {"none", "accepted"} =>
    queue[c] = <<>> /\ delivered[c] = <<>> /\ c \notin clients

LEMMA FreshStep ==
  ASSUME EventSourceTypeOK, Fresh, Next
  PROVE  Fresh'
  <1> DEFINE Early == {"none", "accepted"}
  <1>1. CASE Begin \/ SendBegin \/ SendEnd \/ StopFlag \/ StopLock \/ CloseEnd \/ StopServer
               \/ Join \/ Listen
    <2>1. UNCHANGED <<at, queue, delivered, clients>>
      BY <1>1 DEF Begin, SendBegin, SendEnd, StopFlag, StopLock, CloseEnd, StopServer, Join,
                  Listen, clientVars
    <2> QED
      BY <2>1 DEF Fresh
  <1>2. ASSUME NEW c \in Clients, SendOne(c) \/ CloseOne(c) PROVE Fresh'
    <2>1. /\ c \in clients /\ delivered' = delivered /\ clients' = clients
          /\ \A u \in Clients : at'[u] \in Early => at[u] \in Early
          /\ \A u \in Clients \ {c} : queue'[u] = queue[u]
      BY <1>2 DEF SendOne, CloseOne, Notify, EventSourceTypeOK
    <2> QED
      BY <2>1 DEF Fresh
  <1>3. ASSUME NEW c \in Clients, Connect(c) \/ PeerLeaves(c) \/ Pool(c) PROVE Fresh'
    <2>1. /\ \A u \in Clients \ {c} :
               /\ at'[u] = at[u] /\ queue'[u] = queue[u] /\ delivered'[u] = delivered[u]
               /\ u \in clients' => u \in clients
      BY <1>3 DEF Connect, PeerLeaves, Pool, Register, ProviderCall, WaitTest, FlushPop, FlushEnd,
                  WriteDone, WriteFailed, Unregister, Move, EventSourceTypeOK
    <2>2. at'[c] \in Early =>
            /\ at[c] \in Early /\ queue'[c] = queue[c] /\ delivered'[c] = delivered[c]
            /\ clients' = clients
      BY <1>3 DEF Connect, PeerLeaves, Pool, Register, ProviderCall, WaitTest, FlushPop, FlushEnd,
                  WriteDone, WriteFailed, Unregister, Move, EventSourceTypeOK
    <2> QED
      BY <2>1, <2>2 DEF Fresh
  <1> QED
    BY <1>1, <1>2, <1>3 DEF Next, SketchSend, SketchStop

LEMMA InitSseInv == Init => SseInv /\ Fresh
  <1> SUFFICES ASSUME Init PROVE SseInv /\ Fresh
    OBVIOUS
  <1>1. EventSourceTypeOK
    <2>1. 0 \in 0 .. MaxFrames /\ 0 \in 0 .. MaxBegins
      BY EventSourceAssumption
    <2>2. <<>> \in Seq(1 .. MaxFrames)
      OBVIOUS
    <2>3. /\ queue \in [Clients -> Seq(1 .. MaxFrames)]
          /\ delivered \in [Clients -> Seq(1 .. MaxFrames)]
      BY <2>2 DEF Init
    <2> QED
      BY <2>1, <2>3 DEF Init, EventSourceTypeOK
  <1>2. Registered /\ NobodySleepsOnWork /\ Fresh
    BY DEF Init, Registered, NobodySleepsOnWork, Fresh
  <1>3. ASSUME NEW c \in Clients PROVE OrderedFrames(c)
    <2>1. /\ queue[c] = <<>> /\ delivered[c] = <<>> /\ since[c] = 0 /\ at[c] = "none"
          /\ Limit(c) = 0 /\ Len(<<>>) = 0
      BY DEF Init, Limit
    <2> QED
      BY <2>1 DEF OrderedFrames, Increasing, Between
  <1> QED
    BY <1>1, <1>2, <1>3 DEF SseInv

LEMMA NextSseInv == SseInv /\ Fresh /\ [Next]_vars => (SseInv /\ Fresh)'
  <1> SUFFICES ASSUME SseInv, Fresh, [Next]_vars PROVE SseInv' /\ Fresh'
    OBVIOUS
  <1>1. CASE UNCHANGED vars
    <2>1. UNCHANGED <<sketch, server, shutdown, clients, todo, begins, frames, at, alive, queue,
                      closed, inflight, since, delivered>>
      BY <1>1 DEF vars, sketchVars, clientVars
    <2>2. \A c \in Clients : Limit(c)' = Limit(c)
      BY <2>1 DEF Limit
    <2>3. \A c \in Clients : Limit(c) <= Limit(c)'
      BY <2>2, LimitIsNat DEF SseInv
    <2>4. EventSourceTypeOK'
      BY <2>1 DEF SseInv, EventSourceTypeOK
    <2>5. Registered' /\ NobodySleepsOnWork' /\ Fresh'
      BY <2>1 DEF SseInv, Registered, NobodySleepsOnWork, Fresh
    <2> QED
      BY <2>1, <2>3, <2>4, <2>5, NoFrameStep
  <1>2. CASE Next
    <2>1. Fresh'
      BY <1>2, FreshStep DEF SseInv
    <2>2. CASE Begin \/ SendBegin \/ SendEnd \/ StopFlag \/ StopLock \/ CloseEnd \/ StopServer
                 \/ Join \/ Listen
      BY <2>1, <2>2, SketchStep
    <2>3. ASSUME NEW c \in Clients, SendOne(c) \/ CloseOne(c) PROVE SseInv'
      BY <2>3, SendStep, CloseStep
    <2>4. ASSUME NEW c \in Clients, Connect(c) \/ PeerLeaves(c) \/ Pool(c) PROVE SseInv'
      <3>1. CASE Register(c)
        BY <3>1, RegisterStep DEF Register, Move, Fresh
      <3>2. CASE FlushPop(c)
        BY <3>2, PopStep
      <3>3. CASE WriteDone(c)
        BY <3>3, WrittenStep
      <3> QED
        BY <2>4, <3>1, <3>2, <3>3, PoolStep DEF Pool
    <2> QED
      BY <1>2, <2>1, <2>2, <2>3, <2>4 DEF Next, SketchSend, SketchStop
  <1> QED
    BY <1>1, <1>2

\* The three parts of a pipeline, ordered pairwise, are in order when put together.
LEMMA PipelineInOrder ==
  ASSUME SseInv
  PROVE  FramesInOrder
  <1> SUFFICES ASSUME NEW c \in Clients, NEW i \in 1 .. Len(Pipeline(c))
               PROVE  Pipeline(c)[i] > IF i = 1 THEN since[c] ELSE Pipeline(c)[i - 1]
    BY DEF FramesInOrder
  <1> DEFINE d == delivered[c]  q == queue[c]
             w == IF at[c] = "write" THEN <<inflight[c]>> ELSE <<>>
             p == Pipeline(c)
  <1>1. d \in Seq(Frames) /\ q \in Seq(Frames) /\ since[c] \in Nat /\ inflight[c] \in Nat
    BY EventSourceAssumption DEF SseInv, EventSourceTypeOK, Frames
  <1>2. /\ \A k \in 1 .. Len(d) : d[k] \in Nat
        /\ \A k \in 1 .. Len(q) : q[k] \in Nat
        /\ Len(d) \in Nat /\ Len(q) \in Nat
    BY <1>1, FramesAreNumbers
  <1>3. OrderedFrames(c) /\ Limit(c) \in Nat
    BY LimitIsNat DEF SseInv
  <1>4. /\ w \in Seq(Nat) /\ Len(w) \in {0, 1}
        /\ Len(w) = 1 => at[c] = "write" /\ w[1] = inflight[c]
    BY <1>1
  <1>5. d \in Seq(Nat) /\ q \in Seq(Nat)
    BY <1>1, FramesAreNumbers
  <1> HIDE DEF w, d, q
  <1>6. p = (d \o w) \o q
    BY DEF Pipeline, d, w, q
  <1>7. /\ Len(p) = Len(d) + Len(w) + Len(q)
        /\ \A k \in 1 .. Len(d) : p[k] = d[k]
        /\ \A k \in Len(d) + 1 .. Len(d) + Len(w) : p[k] = w[k - Len(d)]
        /\ \A k \in Len(d) + Len(w) + 1 .. Len(p) : p[k] = q[k - Len(d) - Len(w)]
    BY <1>4, <1>5, <1>6
  <1> HIDE DEF p
  <1>8. /\ Increasing(d) /\ Increasing(q)
        /\ \A k \in 1 .. Len(d) : since[c] < d[k]
        /\ \A k \in 1 .. Len(q) : since[c] < q[k]
        /\ \A k \in 1 .. Len(d), j \in 1 .. Len(q) : d[k] < q[j]
        /\ Len(w) = 1 =>
             /\ since[c] < w[1]
             /\ \A k \in 1 .. Len(d) : d[k] < w[1]
             /\ \A j \in 1 .. Len(q) : w[1] < q[j]
    BY <1>3, <1>4 DEF OrderedFrames, Between, d, q
  <1>9. i \in 1 .. Len(p)
    BY DEF p
  <1>10. p[i] > IF i = 1 THEN since[c] ELSE p[i - 1]
    <2>1. CASE i \in 1 .. Len(d)
      <3>1. CASE i = 1
        BY <1>1, <1>2, <1>7, <1>8, <2>1, <3>1
      <3>2. CASE i # 1
        <4>1. i - 1 \in 1 .. Len(d) /\ i - 1 < i
          BY <1>2, <2>1, <3>2
        <4>2. p[i] = d[i] /\ p[i - 1] = d[i - 1] /\ d[i - 1] < d[i]
          BY <1>7, <1>8, <2>1, <4>1 DEF Increasing
        <4> QED
          BY <1>2, <2>1, <3>2, <4>1, <4>2
      <3> QED
        BY <3>1, <3>2
    <2>2. CASE i = Len(d) + 1 /\ Len(w) = 1
      <3>1. p[i] = w[1] /\ w[1] \in Nat
        <4>1. i \in Len(d) + 1 .. Len(d) + Len(w) /\ i - Len(d) = 1
          BY <1>2, <2>2
        <4> QED
          BY <1>1, <1>4, <1>7, <2>2, <4>1
      <3>2. CASE i = 1
        BY <1>1, <1>8, <2>2, <3>1, <3>2
      <3>3. CASE i # 1
        <4>1. i - 1 \in 1 .. Len(d)
          BY <1>2, <2>2, <3>3
        <4> QED
          BY <1>2, <1>7, <1>8, <2>2, <3>1, <3>3, <4>1
      <3> QED
        BY <3>2, <3>3
    <2>3. CASE i \in Len(d) + Len(w) + 1 .. Len(p)
      <3> DEFINE j == i - Len(d) - Len(w)
      <3>1. j \in 1 .. Len(q) /\ p[i] = q[j]
        BY <1>2, <1>4, <1>7, <2>3
      <3>2. CASE j > 1
        <4>1. i # 1 /\ i - 1 \in Len(d) + Len(w) + 1 .. Len(p) /\ j - 1 \in 1 .. Len(q)
              /\ i - 1 - Len(d) - Len(w) = j - 1 /\ j - 1 < j
          BY <1>2, <1>4, <1>7, <2>3, <3>1, <3>2
        <4>2. p[i - 1] = q[j - 1]
          BY <1>7, <4>1
        <4>3. q[j - 1] < q[j]
          BY <1>8, <3>1, <4>1 DEF Increasing
        <4> QED
          BY <1>2, <3>1, <4>1, <4>2, <4>3
      <3>3. CASE j = 1 /\ Len(w) = 1
        <4>1. i # 1 /\ i - 1 \in Len(d) + 1 .. Len(d) + Len(w) /\ i - 1 - Len(d) = 1
          BY <1>2, <3>3
        <4>2. p[i - 1] = w[1] /\ w[1] < q[j]
          BY <1>7, <1>8, <3>1, <3>3, <4>1
        <4>3. w[1] \in Nat /\ q[j] \in Nat
          BY <1>1, <1>2, <1>4, <3>1, <3>3
        <4> QED
          BY <3>1, <4>1, <4>2, <4>3
      <3>4. CASE j = 1 /\ Len(w) = 0
        <4>1. CASE i = 1
          BY <1>1, <1>2, <1>8, <3>1, <4>1
        <4>2. CASE i # 1
          <5>1. i - 1 \in 1 .. Len(d)
            BY <1>2, <2>3, <3>4, <4>2
          <5> QED
            BY <1>2, <1>7, <1>8, <3>1, <4>2, <5>1
        <4> QED
          BY <4>1, <4>2
      <3> QED
        BY <1>4, <3>1, <3>2, <3>3, <3>4
    <2>4. i \in 1 .. Len(d) \/ (i = Len(d) + 1 /\ Len(w) = 1) \/ i \in Len(d) + Len(w) + 1 .. Len(p)
      <3>1. CASE Len(w) = 0
        BY <1>2, <1>7, <1>9, <3>1
      <3>2. CASE Len(w) = 1
        BY <1>2, <1>7, <1>9, <3>2
      <3> QED
        BY <1>4, <3>1, <3>2
    <2> QED
      BY <2>1, <2>2, <2>3, <2>4
  <1> QED
    BY <1>10 DEF p

\* No pool thread of sim_asyncwebserver.cpp sleeps on work that is left for it, also half way
\* through send() and stop(), and the frames of a browser are in the order of send().
THEOREM EventSourceInvariant == Spec => []EventSourceInv
  <1>1. SseInv => EventSourceInv
    BY PipelineInOrder DEF SseInv, EventSourceInv
  <1> QED
    BY <1>1, InitSseInv, NextSseInv, PTL DEF Spec

------------------------------------------------------------------------------
(***************************************************************************)
(* ReplyIsOwn is an invariant of WebRequests for every number of threads   *)
(* and requests.  The strengthening says, place by place, what a thread    *)
(* has of its reply, and that the members of the synchronous server are    *)
(* those of the request of the one thread behind request_mutex_.           *)
(***************************************************************************)

Places == {"idle", "route", "enter", "run", "apply", "error", "send", "join", "exit"}

Types ==
  /\ kind \in {"sync", "async"} /\ notFound \in BOOLEAN
  /\ where \in [Workers -> Places] /\ phase \in [Workers -> {"route", "notfound"}]
  /\ req \in [Workers -> Requests \cup {None}] /\ want \in [Requests -> Wants \cup {"none"}]
  /\ out \in [Workers -> Responses] /\ handled \in [Workers -> BOOLEAN]
  /\ reply \in [Requests -> Responses \cup {None}]
  /\ lock \in Workers \cup {None} /\ slot \in Requests \cup {None} /\ res \in Responses

\* Requests whose handler, if there is one, returns.
Returning == {"ok", "deny", "throw", "silent"}

\* What a request has been answered when it comes to the error handler.
BeforeError(r) ==
  CASE want[r] = "ok" -> Routed(200, r)
    [] want[r] = "deny" -> Routed(404, r)
    [] want[r] = "throw" -> Failed(IF kind = "sync" THEN 500 ELSE 404, "error")
    [] want[r] = "silent" -> Failed(IF kind = "sync" THEN 200 ELSE 404, "none")
    [] want[r] = "unknown" -> Failed(404, "none")
    [] OTHER -> Failed(400, "none")

NotFoundReply(r) == Response(404, "notfound", r, {"notfound"})

\* A thread that is not idle has a request, and a reply as far as it has come.
Own(w) ==
  /\ where[w] # "idle" => req[w] \in Requests /\ want[req[w]] \in Wants
  /\ where[w] = "route" => out[w] = Blank
  /\ where[w] \in {"enter", "run"} /\ phase[w] = "route" =>
       want[req[w]] \in Matched /\ out[w] = Blank
  /\ where[w] = "apply" /\ phase[w] = "route" =>
       want[req[w]] \in Returning /\ out[w] = Blank
  /\ where[w] \in {"enter", "run", "apply"} /\ phase[w] = "notfound" =>
       notFound /\ out[w] = BeforeError(req[w])
         /\ (want[req[w]] = "unknown" \/ Overruled(req[w]))
  /\ where[w] = "error" =>
       /\ phase[w] = "route" /\ want[req[w]] \in Returning \cup {"unknown", "broken"}
       /\ out[w] = BeforeError(req[w])
       /\ kind = "async" /\ want[req[w]] # "broken" =>
            (handled[w] <=> want[req[w]] \in Returning)
  /\ where[w] = "send" => out[w] = Due(req[w]) \/ Overruled(req[w])

\* The members are the request's of the thread that holds the mutex.
Behind(w) ==
  /\ where[w] = "apply" => kind = "sync"
  /\ kind = "sync" /\ where[w] \in {"run", "apply", "join", "exit"} =>
       lock = w /\ slot = req[w]
  /\ kind = "sync" /\ where[w] = "run" => res = Blank
  /\ where[w] = "apply" =>
       res = IF phase[w] = "route" THEN BeforeError(req[w]) ELSE NotFoundReply(req[w])

Answered ==
  \A r \in Requests : reply[r] # None =>
    want[r] # "none" /\ (reply[r] = Due(r) \/ Overruled(r))

WebInv == Types /\ Answered /\ \A w \in Workers : Own(w) /\ Behind(w)

-----------------------------------------------------------------------------
(* Replies                                                                 *)

LEMMA ResponseType ==
  ASSUME NEW s \in {200, 400, 404, 500}, NEW by \in {"none", "route", "notfound", "error"},
         NEW r \in Requests \cup {None}, NEW h \in SUBSET {"route", "notfound"}
  PROVE  Response(s, by, r, h) \in Responses
  BY DEF Response, Responses

LEMMA ResponseParts ==
  ASSUME NEW s, NEW by, NEW r, NEW h
  PROVE  /\ Response(s, by, r, h).status = s /\ Response(s, by, r, h).by = by
         /\ Response(s, by, r, h).of = r /\ Response(s, by, r, h).heads = h
  BY DEF Response

LEMMA OtherHeads ==
  ASSUME NEW s, NEW by, NEW r, NEW h, NEW i
  PROVE  [Response(s, by, r, h) EXCEPT !.heads = i] = Response(s, by, r, i)
  BY DEF Response

LEMMA OtherStatus ==
  ASSUME NEW s, NEW by, NEW r, NEW h, NEW i
  PROVE  [Response(s, by, r, h) EXCEPT !.status = i] = Response(i, by, r, h)
  BY DEF Response

LEMMA BeforeErrorOf ==
  ASSUME NEW r \in Requests
  PROVE  /\ want[r] = "ok" => BeforeError(r) = Routed(200, r)
         /\ want[r] = "deny" => BeforeError(r) = Routed(404, r)
         /\ want[r] = "throw" /\ kind = "sync" => BeforeError(r) = Failed(500, "error")
         /\ want[r] = "throw" /\ kind = "async" => BeforeError(r) = Failed(404, "error")
         /\ want[r] = "silent" /\ kind = "sync" => BeforeError(r) = Failed(200, "none")
         /\ want[r] = "silent" /\ kind = "async" => BeforeError(r) = Failed(404, "none")
         /\ want[r] = "unknown" => BeforeError(r) = Failed(404, "none")
         /\ want[r] = "broken" => BeforeError(r) = Failed(400, "none")
  BY DEF BeforeError

LEMMA DueOf ==
  ASSUME NEW r \in Requests, notFound \in BOOLEAN
  PROVE  /\ want[r] \in Returning \cup {"broken"} => Due(r) = BeforeError(r)
         /\ want[r] = "unknown" /\ notFound => Due(r) = NotFoundReply(r)
         /\ want[r] = "unknown" /\ ~notFound => Due(r) = BeforeError(r)
  BY DEF Due, BeforeError, Returning, NotFoundReply

\* What a handler that started from a blank reply leaves.
LEMMA OutcomeOfRoute ==
  ASSUME NEW w \in Workers, phase[w] = "route", kind \in {"sync", "async"},
         req[w] \in Requests, want[req[w]] \in Returning, Arg(w) = req[w]
  PROVE  Outcome(w, Blank) = BeforeError(req[w])
  <1> DEFINE r == req[w]
  <1>1. Blank = Response(200, "none", None, {})
    BY DEF Blank
  <1>0. Blank.heads = {} /\ Blank.status = 200
    BY <1>1, ResponseParts
  <1>2. CASE want[r] = "ok"
    <2>1. Outcome(w, Blank) = Send(Blank, 200, "route", r)
      BY <1>2 DEF Outcome
    <2> QED
      BY <1>0, <1>2, <2>1, BeforeErrorOf DEF Send, Routed
  <1>3. CASE want[r] = "deny"
    <2>1. Outcome(w, Blank) = Send(Blank, 404, "route", r)
      BY <1>3 DEF Outcome
    <2> QED
      BY <1>0, <1>3, <2>1, BeforeErrorOf DEF Send, Routed
  <1>4. CASE want[r] = "throw"
    <2>1. Outcome(w, Blank)
            = Response(IF kind = "sync" THEN 500 ELSE 404, "error", Blank.of, Blank.heads)
      BY <1>4 DEF Outcome
    <2>2. Outcome(w, Blank) = Response(IF kind = "sync" THEN 500 ELSE 404, "error", None, {})
      BY <1>0, <1>1, <2>1, ResponseParts
    <2> QED
      BY <1>4, <2>2, BeforeErrorOf DEF Failed
  <1>5. CASE want[r] = "silent"
    <2>1. Outcome(w, Blank) = [Blank EXCEPT !.status = IF kind = "sync" THEN Blank.status ELSE 404]
      BY <1>5 DEF Outcome
    <2>2. Outcome(w, Blank) = Response(IF kind = "sync" THEN 200 ELSE 404, "none", None, {})
      <3>1. \A k : [Blank EXCEPT !.status = k] = Response(k, "none", None, {})
        BY <1>1, OtherStatus
      <3> QED
        BY <1>0, <2>1, <3>1
    <2> QED
      BY <1>5, <2>2, BeforeErrorOf DEF Failed
  <1> QED
    BY <1>2, <1>3, <1>4, <1>5 DEF Returning

LEMMA OutcomeOfNotFound ==
  ASSUME NEW w \in Workers, phase[w] = "notfound", Arg(w) = req[w], NEW x, x.heads = {}
  PROVE  Outcome(w, x) = NotFoundReply(req[w])
  <1>1. Outcome(w, x) = Send(x, 404, "notfound", req[w])
    BY DEF Outcome
  <1> QED
    BY <1>1 DEF Send, NotFoundReply

-----------------------------------------------------------------------------
(* Steps                                                                   *)

\* Where kind, notFound and want do not change, nor does what is owed.
LEMMA SameDue ==
  ASSUME UNCHANGED <<setup, want>>
  PROVE  \A r : /\ Due(r)' = Due(r) /\ BeforeError(r)' = BeforeError(r)
                /\ Overruled(r)' = Overruled(r) /\ NotFoundReply(r)' = NotFoundReply(r)
  BY DEF setup, Due, BeforeError, Overruled, NotFoundReply

LEMMA SameDueOf ==
  ASSUME NEW w \in Workers, UNCHANGED <<setup, want>>, req'[w] = req[w]
  PROVE  /\ Due(req[w])' = Due(req[w]) /\ BeforeError(req[w])' = BeforeError(req[w])
         /\ Overruled(req[w])' = Overruled(req[w])
         /\ NotFoundReply(req[w])' = NotFoundReply(req[w])
  BY DEF setup, Due, BeforeError, Overruled, NotFoundReply

\* A thread that is not concerned by a step keeps what it has.
LEMMA OthersOwn ==
  ASSUME NEW u \in Workers, Own(u), UNCHANGED <<setup, want>>,
         where'[u] = where[u], phase'[u] = phase[u], req'[u] = req[u], out'[u] = out[u],
         handled'[u] = handled[u]
  PROVE  Own(u)'
  <1>1. /\ Due(req[u])' = Due(req[u]) /\ BeforeError(req[u])' = BeforeError(req[u])
        /\ Overruled(req[u])' = Overruled(req[u])
    BY SameDueOf
  <1> QED
    BY <1>1 DEF Own, setup

LEMMA OthersBehind ==
  ASSUME NEW u \in Workers, Behind(u), UNCHANGED <<setup, want>>, UNCHANGED slotVars,
         where'[u] = where[u], phase'[u] = phase[u], req'[u] = req[u]
  PROVE  Behind(u)'
  <1>1. /\ BeforeError(req[u])' = BeforeError(req[u])
        /\ NotFoundReply(req[u])' = NotFoundReply(req[u])
    BY SameDueOf
  <1> QED
    BY <1>1 DEF Behind, setup, slotVars

\* A step of thread w that touches no members needs to be looked at for w alone.
LEMMA ThreadStep ==
  ASSUME WebInv, NEW w \in Workers, UNCHANGED <<setup, want, reply>>, UNCHANGED slotVars,
         Types', Own(w)', Behind(w)',
         \A u \in Workers \ {w} :
           /\ where'[u] = where[u] /\ phase'[u] = phase[u] /\ req'[u] = req[u]
           /\ out'[u] = out[u] /\ handled'[u] = handled[u]
  PROVE  WebInv'
  <1>1. \A u \in Workers : Own(u)'
    BY OthersOwn DEF WebInv
  <1>2. \A u \in Workers : Behind(u)'
    BY OthersBehind DEF WebInv
  <1>3. Answered'
    BY SameDue DEF WebInv, Answered
  <1> QED
    BY <1>1, <1>2, <1>3 DEF WebInv

LEMMA RouteStep ==
  ASSUME WebInv, NEW w \in Workers, RouteRequest(w)
  PROVE  WebInv'
  <1> DEFINE r == req[w]
  <1>1. Types
    BY DEF WebInv
  <1>2. /\ UNCHANGED <<setup, want, reply>> /\ UNCHANGED slotVars
        /\ UNCHANGED <<req>> /\ where[w] = "route"
    BY DEF RouteRequest
  <1>3. r \in Requests /\ want[r] \in Wants /\ out[w] = Blank
    BY <1>2 DEF WebInv, Own
  <1>4. /\ where'[w] = (IF want[r] \in Matched THEN "enter" ELSE "error")
        /\ phase'[w] = "route"
        /\ out'[w] = [Blank EXCEPT !.status = CASE want[r] = "broken" -> 400
                                                [] want[r] = "unknown" -> 404
                                                [] OTHER -> @]
    BY <1>1, <1>3 DEF RouteRequest, Step, Types
  <1>5. \A k : [Blank EXCEPT !.status = k] = Response(k, "none", None, {})
    BY OtherStatus DEF Blank
  <1>6. /\ want[r] = "broken" => out'[w] = BeforeError(r)
        /\ want[r] = "unknown" => out'[w] = BeforeError(r)
        /\ want[r] \in Matched => out'[w] = Blank
    <2>1. CASE want[r] = "broken"
      BY <1>3, <1>4, <1>5, <2>1, BeforeErrorOf DEF Failed, Matched, Answering
    <2>2. CASE want[r] = "unknown"
      BY <1>3, <1>4, <1>5, <2>2, BeforeErrorOf DEF Failed, Matched, Answering
    <2>3. CASE want[r] \in Matched
      <3>1. out'[w] = [Blank EXCEPT !.status = Blank.status]
        BY <1>4, <2>3 DEF Matched, Answering
      <3>2. Blank.status = 200 /\ Blank = Response(200, "none", None, {})
        BY ResponseParts DEF Blank
      <3> QED
        BY <1>5, <2>3, <3>1, <3>2 DEF Matched, Answering
    <2> QED
      BY <1>3, <2>1, <2>2, <2>3 DEF Wants
  <1>7. out'[w] \in Responses
    <2>1. BeforeError(r) \in Responses \/ want[r] \notin {"broken", "unknown"}
      BY <1>3, BeforeErrorOf, ResponseType DEF Failed, Blank
    <2>2. Blank \in Responses
      BY ResponseType DEF Blank
    <2> QED
      BY <1>3, <1>6, <2>1, <2>2 DEF Wants
  <1>8. Types'
    <2>1. where' \in [Workers -> Places] /\ phase' \in [Workers -> {"route", "notfound"}]
      BY <1>1 DEF RouteRequest, Step, Types, Places
    <2>2. handled' \in [Workers -> BOOLEAN]
      BY <1>1 DEF RouteRequest, PreRouting, Types
    <2>3. out' \in [Workers -> Responses]
      BY <1>1, <1>7 DEF RouteRequest, Types
    <2> QED
      BY <1>1, <1>2, <2>1, <2>2, <2>3 DEF Types, setup, slotVars
  <1>9. kind = "async" /\ want[r] = "unknown" => handled'[w] = FALSE
    BY <1>1 DEF RouteRequest, PreRouting, Types
  <1>10. Own(w)'
    <2>1. BeforeError(req[w])' = BeforeError(r)
      BY <1>2, SameDueOf
    <2>2. want[r] \notin Matched => want[r] \in {"unknown", "broken"}
      BY <1>3 DEF Wants
    <2> QED
      BY <1>2, <1>3, <1>4, <1>6, <1>9, <2>1, <2>2 DEF Own, setup, Matched, Answering, Returning
  <1>11. Behind(w)'
    BY <1>4 DEF Behind
  <1>12. \A u \in Workers \ {w} :
           /\ where'[u] = where[u] /\ phase'[u] = phase[u] /\ req'[u] = req[u]
           /\ out'[u] = out[u] /\ handled'[u] = handled[u]
    BY <1>1 DEF RouteRequest, PreRouting, Step, Types
  <1> QED
    BY <1>2, <1>8, <1>10, <1>11, <1>12, ThreadStep

LEMMA ErrorStep ==
  ASSUME WebInv, NEW w \in Workers, ErrorHandler(w)
  PROVE  WebInv'
  <1> DEFINE r == req[w]
  <1>1. Types
    BY DEF WebInv
  <1>2. /\ UNCHANGED <<setup, want, reply>> /\ UNCHANGED slotVars
        /\ UNCHANGED <<req, out, handled>> /\ where[w] = "error"
    BY DEF ErrorHandler, Step
  <1>3. /\ r \in Requests /\ phase[w] = "route" /\ out[w] = BeforeError(r)
        /\ want[r] \in Returning \cup {"unknown", "broken"}
        /\ kind = "async" /\ want[r] # "broken" => (handled[w] <=> want[r] \in Returning)
    BY <1>2 DEF WebInv, Own
  <1>4. /\ where'[w] = (IF IsNotFound(w) THEN "enter" ELSE "send")
        /\ phase'[w] = (IF IsNotFound(w) THEN "notfound" ELSE phase[w])
    BY <1>1 DEF ErrorHandler, Step, Types
  <1>5. Types'
    <2>1. where' \in [Workers -> Places] /\ phase' \in [Workers -> {"route", "notfound"}]
      BY <1>1 DEF ErrorHandler, Step, Types, Places
    <2> QED
      BY <1>1, <1>2, <2>1 DEF Types, setup, slotVars
  <1>6. IsNotFound(w) => notFound /\ (want[r] = "unknown" \/ Overruled(r))
    <2> SUFFICES ASSUME IsNotFound(w), want[r] # "unknown" PROVE Overruled(r) /\ notFound
      BY DEF IsNotFound
    <2>1. notFound /\ BeforeError(r).status = 404 /\ (kind = "async" => ~handled[w])
      BY <1>3 DEF IsNotFound
    <2>2. want[r] # "broken"
      BY <1>3, <2>1, BeforeErrorOf, ResponseParts DEF Failed
    <2>3. kind = "sync" /\ want[r] \in Returning
      BY <1>1, <1>3, <2>1, <2>2 DEF Types
    <2>4. want[r] = "deny"
      BY <1>3, <2>1, <2>3, BeforeErrorOf, ResponseParts DEF Failed, Routed, Returning
    <2> QED
      BY <2>1, <2>3, <2>4 DEF Overruled
  <1>7. ~IsNotFound(w) => out[w] = Due(r)
    <2> SUFFICES ASSUME ~IsNotFound(w) PROVE out[w] = Due(r)
      OBVIOUS
    <2>1. CASE want[r] = "unknown"
      <3>1. out[w].status = 404
        BY <1>3, <2>1, BeforeErrorOf, ResponseParts DEF Failed
      <3>2. ~notFound
        BY <1>3, <2>1, <3>1 DEF IsNotFound, Returning
      <3> QED
        BY <1>1, <1>3, <2>1, <3>2, DueOf DEF Types
    <2>2. CASE want[r] # "unknown"
      BY <1>1, <1>3, <2>2, DueOf DEF Types
    <2> QED
      BY <2>1, <2>2
  <1>8. Own(w)'
    <2>1. /\ Due(req[w])' = Due(r) /\ BeforeError(req[w])' = BeforeError(r)
          /\ Overruled(req[w])' = Overruled(r)
      BY <1>2, SameDueOf
    <2>2. want[r] \in Wants
      BY <1>2 DEF WebInv, Own
    <2> QED
      BY <1>2, <1>3, <1>4, <1>6, <1>7, <2>1, <2>2 DEF Own, setup
  <1>9. Behind(w)'
    BY <1>4 DEF Behind
  <1>10. \A u \in Workers \ {w} :
           /\ where'[u] = where[u] /\ phase'[u] = phase[u] /\ req'[u] = req[u]
           /\ out'[u] = out[u] /\ handled'[u] = handled[u]
    BY <1>1, <1>2 DEF ErrorHandler, Step, Types
  <1> QED
    BY <1>2, <1>5, <1>8, <1>9, <1>10, ThreadStep

LEMMA StopStep ==
  ASSUME WebInv, NEW w \in Workers, StopInHandler(w)
  PROVE  WebInv'
  <1>1. Types
    BY DEF WebInv
  <1>2. /\ UNCHANGED <<setup, want, reply>> /\ UNCHANGED slotVars
        /\ UNCHANGED <<req, out, handled, phase>> /\ where[w] = "run"
    BY DEF StopInHandler, Step
  <1>3. where'[w] \in {"join", "exit"}
    BY <1>1 DEF StopInHandler, Step, Types
  <1>4. Types'
    <2>1. where' \in [Workers -> Places]
      BY <1>1 DEF StopInHandler, Step, Types, Places
    <2> QED
      BY <1>1, <1>2, <2>1 DEF Types, setup, slotVars
  <1>5. Own(w)' /\ Behind(w)'
    <2>1. /\ Own(w) /\ Behind(w)
      BY DEF WebInv
    <2>2. Own(w)'
      BY <1>2, <1>3, <2>1 DEF Own
    <2>3. Behind(w)'
      BY <1>2, <1>3, <2>1 DEF Behind, setup, slotVars
    <2> QED
      BY <2>2, <2>3
  <1>6. \A u \in Workers \ {w} :
           /\ where'[u] = where[u] /\ phase'[u] = phase[u] /\ req'[u] = req[u]
           /\ out'[u] = out[u] /\ handled'[u] = handled[u]
    BY <1>1, <1>2 DEF StopInHandler, Step, Types
  <1> QED
    BY <1>2, <1>4, <1>5, <1>6, ThreadStep

\* A step of the thread behind the mutex, or of one that enters: no other is there.
LEMMA MemberStep ==
  ASSUME WebInv, NEW w \in Workers, UNCHANGED <<setup, want, reply>>,
         Types', Own(w)', Behind(w)',
         kind = "async" => UNCHANGED slotVars,
         kind = "sync" => lock \in {w, None},
         \A u \in Workers \ {w} :
           /\ where'[u] = where[u] /\ phase'[u] = phase[u] /\ req'[u] = req[u]
           /\ out'[u] = out[u] /\ handled'[u] = handled[u]
  PROVE  WebInv'
  <1>1. \A u \in Workers : Own(u)'
    BY OthersOwn DEF WebInv
  <1>2. ASSUME NEW u \in Workers \ {w} PROVE Behind(u)'
    <2>1. CASE kind = "async"
      BY <2>1, OthersBehind DEF WebInv
    <2>2. CASE kind = "sync"
      <3>1. where[u] \notin {"run", "apply", "join", "exit"}
        BY <2>2, WebAssumption DEF WebInv, Behind
      <3> QED
        BY <3>1 DEF Behind
    <2> QED
      BY <2>1, <2>2 DEF WebInv, Types
  <1>3. Answered'
    BY SameDue DEF WebInv, Answered
  <1> QED
    BY <1>1, <1>2, <1>3 DEF WebInv

LEMMA EnterStep ==
  ASSUME WebInv, NEW w \in Workers, EnterHandler(w)
  PROVE  WebInv'
  <1>1. Types
    BY DEF WebInv
  <1>2. /\ UNCHANGED <<setup, want, reply, req, phase, out, handled>> /\ where[w] = "enter"
        /\ where'[w] = "run"
        /\ kind = "sync" => lock = None /\ lock' = w /\ slot' = req[w] /\ res' = Blank
        /\ kind = "async" => UNCHANGED slotVars
    BY <1>1 DEF EnterHandler, Step, Types
  <1>3. req[w] \in Requests /\ Own(w)
    BY <1>2 DEF WebInv, Own
  <1>4. Types'
    <2>1. where' \in [Workers -> Places]
      BY <1>1 DEF EnterHandler, Step, Types, Places
    <2>2. lock' \in Workers \cup {None} /\ slot' \in Requests \cup {None} /\ res' \in Responses
      <3>1. Blank \in Responses
        BY ResponseType DEF Blank
      <3> QED
        BY <1>1, <1>2, <1>3, <3>1 DEF Types, slotVars
    <2> QED
      BY <1>1, <1>2, <2>1, <2>2 DEF Types, setup
  <1>5. Own(w)'
    <2>1. BeforeError(req[w])' = BeforeError(req[w]) /\ Overruled(req[w])' = Overruled(req[w])
      BY <1>2, SameDueOf
    <2> QED
      BY <1>2, <1>3, <2>1 DEF Own, setup
  <1>6. Behind(w)'
    BY <1>2 DEF Behind, setup
  <1>7. \A u \in Workers \ {w} :
           /\ where'[u] = where[u] /\ phase'[u] = phase[u] /\ req'[u] = req[u]
           /\ out'[u] = out[u] /\ handled'[u] = handled[u]
    BY <1>1, <1>2 DEF EnterHandler, Step, Types
  <1>8. UNCHANGED <<setup, want, reply>>
    BY <1>2
  <1> QED
    BY <1>2, <1>4, <1>5, <1>6, <1>7, <1>8, MemberStep

\* The request that a handler is told of is its thread's.
LEMMA ArgIsOwn ==
  ASSUME WebInv, NEW w \in Workers, where[w] = "run"
  PROVE  Arg(w) = req[w] /\ (kind = "sync" => lock = w /\ res = Blank)
  BY DEF WebInv, Behind, Arg, MembersArg, OwnArg

LEMMA RunStep ==
  ASSUME WebInv, NEW w \in Workers, RunHandler(w)
  PROVE  WebInv'
  <1> DEFINE r == req[w]
  <1>1. Types
    BY DEF WebInv
  <1>2. /\ UNCHANGED <<setup, want, reply, req, phase, lock, slot>> /\ where[w] = "run"
        /\ phase[w] = "notfound" \/ want[r] \notin {"stop", "restart"}
    BY DEF RunHandler, Step
  <1>3. r \in Requests /\ Own(w) /\ want[r] \in Wants
    BY <1>2 DEF WebInv, Own
  <1>4. Arg(w) = r /\ (kind = "sync" => lock = w /\ res = Blank)
    BY <1>2, ArgIsOwn
  <1>5. phase[w] = "route" => want[r] \in Returning /\ out[w] = Blank
    BY <1>2, <1>3 DEF Own, Matched, Answering, Returning
  <1>6. ASSUME NEW x, x = Blank \/ (phase[w] = "notfound" /\ x.heads = {})
        PROVE  Outcome(w, x) = IF phase[w] = "route" THEN BeforeError(r) ELSE NotFoundReply(r)
    <2>1. Blank.heads = {}
      BY ResponseParts DEF Blank
    <2>2. CASE phase[w] = "route"
      BY <1>1, <1>3, <1>4, <1>5, <1>6, <2>2, OutcomeOfRoute DEF Types
    <2>3. CASE phase[w] = "notfound"
      BY <1>4, <1>6, <2>1, <2>3, OutcomeOfNotFound
    <2> QED
      BY <1>1, <2>2, <2>3 DEF Types
  <1>7. /\ phase[w] = "route" => BeforeError(r) \in Responses
        /\ NotFoundReply(r) \in Responses
    <2>1. NotFoundReply(r) \in Responses
      BY <1>3, ResponseType DEF NotFoundReply
    <2>2. ASSUME phase[w] = "route" PROVE BeforeError(r) \in Responses
      <3>1. Routed(200, r) \in Responses /\ Routed(404, r) \in Responses
        BY <1>3, ResponseType DEF Routed
      <3>2. /\ Failed(500, "error") \in Responses /\ Failed(404, "error") \in Responses
            /\ Failed(200, "none") \in Responses /\ Failed(404, "none") \in Responses
        BY ResponseType DEF Failed
      <3> QED
        BY <1>1, <1>3, <1>5, <2>2, <3>1, <3>2, BeforeErrorOf DEF Types, Returning
    <2> QED
      BY <2>1, <2>2
  <1>8. /\ BeforeError(req[w])' = BeforeError(r) /\ Overruled(req[w])' = Overruled(r)
        /\ NotFoundReply(req[w])' = NotFoundReply(r) /\ Due(req[w])' = Due(r)
    BY <1>2, SameDueOf
  <1>9. CASE kind = "sync"
    <2>1. /\ where' = [where EXCEPT ![w] = "apply"] /\ UNCHANGED <<out, handled>>
          /\ res' = IF phase[w] = "route" THEN BeforeError(r) ELSE NotFoundReply(r)
      BY <1>4, <1>6, <1>9 DEF RunHandler, Step
    <2>2. res' \in Responses
      BY <1>1, <1>7, <2>1 DEF Types
    <2>3. Types'
      BY <1>1, <1>2, <2>1, <2>2 DEF Types, setup, Places
    <2>4. where'[w] = "apply"
      BY <1>1, <2>1 DEF Types
    <2>5. Own(w)'
      BY <1>2, <1>3, <1>5, <1>8, <2>1, <2>4 DEF Own, setup
    <2>6. Behind(w)'
      <3>1. Behind(w)
        BY DEF WebInv
      <3> QED
        BY <1>2, <1>4, <1>8, <1>9, <2>1, <2>4, <3>1 DEF Behind, setup
    <2>7. \A u \in Workers \ {w} :
           /\ where'[u] = where[u] /\ phase'[u] = phase[u] /\ req'[u] = req[u]
           /\ out'[u] = out[u] /\ handled'[u] = handled[u]
      BY <1>1, <1>2, <2>1 DEF Types
    <2>8. UNCHANGED <<setup, want, reply>>
      BY <1>2
    <2> QED
      BY <1>4, <1>9, <2>3, <2>5, <2>6, <2>7, <2>8, MemberStep
  <1>10. CASE kind = "async"
    <2>1. /\ where' = [where EXCEPT ![w] = IF phase[w] = "route" THEN "error" ELSE "send"]
          /\ out' = [out EXCEPT ![w] = Outcome(w, out[w])] /\ UNCHANGED res
          /\ handled' = IF phase[w] = "route" THEN [handled EXCEPT ![w] = TRUE] ELSE handled
      BY <1>1, <1>10 DEF RunHandler, Step, Types
    <2>2. phase[w] = "notfound" => notFound /\ want[r] = "unknown" /\ out[w].heads = {}
      BY <1>2, <1>3, <1>10, BeforeErrorOf, ResponseParts DEF Own, Overruled, Failed
    <2>3. out'[w] = IF phase[w] = "route" THEN BeforeError(r) ELSE NotFoundReply(r)
      <3>1. out[w] = Blank \/ (phase[w] = "notfound" /\ out[w].heads = {})
        BY <1>1, <1>5, <2>2 DEF Types
      <3> QED
        BY <1>1, <1>6, <2>1, <3>1 DEF Types
    <2>4. where'[w] = IF phase[w] = "route" THEN "error" ELSE "send"
      BY <1>1, <2>1 DEF Types
    <2>5. Types'
      <3>1. where' \in [Workers -> Places] /\ handled' \in [Workers -> BOOLEAN]
        BY <1>1, <2>1 DEF Types, Places
      <3>2. out'[w] \in Responses
        BY <1>1, <1>7, <2>3 DEF Types
      <3>3. out' \in [Workers -> Responses]
        BY <1>1, <2>1, <3>2 DEF Types
      <3> QED
        BY <1>1, <1>2, <2>1, <3>1, <3>3 DEF Types, setup
    <2>6. Own(w)'
      <3>1. CASE phase[w] = "route"
        <4>1. handled'[w] = TRUE
          BY <1>1, <2>1, <3>1 DEF Types
        <4> QED
          BY <1>2, <1>3, <1>5, <1>8, <2>3, <2>4, <3>1, <4>1 DEF Own, setup
      <3>2. CASE phase[w] = "notfound"
        <4>1. NotFoundReply(r) = Due(r)
          BY <1>1, <1>3, <2>2, <3>2, DueOf DEF Types
        <4> QED
          BY <1>2, <1>3, <1>8, <2>3, <2>4, <3>2, <4>1 DEF Own, setup
      <3> QED
        BY <1>1, <3>1, <3>2 DEF Types
    <2>7. Behind(w)'
      BY <1>2, <1>10, <2>4 DEF Behind, setup
    <2>8. \A u \in Workers \ {w} :
           /\ where'[u] = where[u] /\ phase'[u] = phase[u] /\ req'[u] = req[u]
           /\ out'[u] = out[u] /\ handled'[u] = handled[u]
      BY <1>1, <1>2, <2>1 DEF Types
    <2>9. UNCHANGED <<setup, want, reply>> /\ UNCHANGED slotVars
      BY <1>2, <2>1 DEF slotVars
    <2> QED
      BY <2>5, <2>6, <2>7, <2>8, <2>9, ThreadStep
  <1> QED
    BY <1>1, <1>9, <1>10 DEF Types

LEMMA ApplyStep ==
  ASSUME WebInv, NEW w \in Workers, ApplyReply(w)
  PROVE  WebInv'
  <1> DEFINE r == req[w]
  <1>1. Types
    BY DEF WebInv
  <1>2. /\ UNCHANGED <<setup, want, reply, req, phase, handled, slot, res>>
        /\ where[w] = "apply" /\ lock' = None
        /\ out' = [out EXCEPT ![w] = [res EXCEPT !.heads = @ \cup out[w].heads]]
    BY DEF ApplyReply, Step
  <1>3. r \in Requests /\ Own(w) /\ Behind(w) /\ want[r] \in Wants
    BY <1>2 DEF WebInv, Own
  <1>4. /\ kind = "sync" /\ lock = w
        /\ res = IF phase[w] = "route" THEN BeforeError(r) ELSE NotFoundReply(r)
    BY <1>2, <1>3 DEF Behind
  <1>5. where'[w] = IF phase[w] = "route" THEN "error" ELSE "send"
    BY <1>1 DEF ApplyReply, Step, Types
  <1>6. phase[w] = "route" => out'[w] = BeforeError(r) /\ want[r] \in Returning
    <2> SUFFICES ASSUME phase[w] = "route" PROVE out'[w] = BeforeError(r) /\ want[r] \in Returning
      OBVIOUS
    <2>1. want[r] \in Returning /\ out[w] = Blank
      BY <1>2, <1>3 DEF Own
    <2>2. Blank.heads = {}
      BY ResponseParts DEF Blank
    <2>3. PICK s, by, q, h : res = Response(s, by, q, h)
      BY <1>3, <1>4, <2>1, BeforeErrorOf DEF Routed, Failed, Returning
    <2>4. out'[w] = [res EXCEPT !.heads = res.heads \cup {}]
      BY <1>1, <1>2, <2>1, <2>2 DEF Types
    <2>5. res.heads = h /\ [res EXCEPT !.heads = h] = res
      BY <2>3, ResponseParts, OtherHeads
    <2>6. res.heads \cup {} = h
      BY <2>5
    <2>7. out'[w] = res
      BY <2>4, <2>5, <2>6
    <2> QED
      BY <1>4, <2>1, <2>7
  <1>7. phase[w] = "notfound" =>
          notFound /\ (Overruled(r) \/ (want[r] = "unknown" /\ out'[w] = NotFoundReply(r)))
    <2> SUFFICES ASSUME phase[w] = "notfound", ~Overruled(r)
                 PROVE  want[r] = "unknown" /\ out'[w] = NotFoundReply(r)
      BY <1>2, <1>3 DEF Own
    <2>1. want[r] = "unknown" /\ out[w] = BeforeError(r)
      BY <1>2, <1>3 DEF Own
    <2>2. out[w].heads = {}
      BY <1>3, <2>1, BeforeErrorOf, ResponseParts DEF Failed
    <2>3. out'[w] = [res EXCEPT !.heads = res.heads \cup {}]
      BY <1>1, <1>2, <2>2 DEF Types
    <2>4. res.heads = {"notfound"} /\ [res EXCEPT !.heads = {"notfound"}] = res
      <3>1. res = Response(404, "notfound", r, {"notfound"})
        BY <1>4 DEF NotFoundReply
      <3>2. \A k : [res EXCEPT !.heads = k] = Response(404, "notfound", r, k)
        BY <3>1, OtherHeads
      <3> QED
        BY <3>1, <3>2, ResponseParts
    <2>5. res.heads \cup {} = {"notfound"}
      BY <2>4
    <2> QED
      BY <1>4, <2>1, <2>3, <2>4, <2>5
  <1>8. Types'
    <2>1. where' \in [Workers -> Places]
      BY <1>1 DEF ApplyReply, Step, Types, Places
    <2>2. res \in Responses /\ out[w] \in Responses
      BY <1>1 DEF Types
    <2>3. [res EXCEPT !.heads = @ \cup out[w].heads] \in Responses
      BY <2>2 DEF Responses
    <2>4. out' \in [Workers -> Responses]
      BY <1>1, <1>2, <2>3 DEF Types
    <2> QED
      BY <1>1, <1>2, <2>1, <2>4 DEF Types, setup
  <1>9. /\ BeforeError(req[w])' = BeforeError(r) /\ Overruled(req[w])' = Overruled(r)
        /\ Due(req[w])' = Due(r)
    BY <1>2, SameDueOf
  <1>10. Own(w)'
    <2>1. CASE phase[w] = "route"
      BY <1>2, <1>3, <1>4, <1>5, <1>6, <1>9, <2>1 DEF Own, setup
    <2>2. CASE phase[w] = "notfound"
      <3>1. want[r] = "unknown" => NotFoundReply(r) = Due(r)
        BY <1>1, <1>3, <1>7, <2>2, DueOf DEF Types
      <3> QED
        BY <1>2, <1>3, <1>5, <1>7, <1>9, <2>2, <3>1 DEF Own, setup
    <2> QED
      BY <1>1, <2>1, <2>2 DEF Types
  <1>11. Behind(w)'
    BY <1>5 DEF Behind
  <1>12. \A u \in Workers \ {w} :
           /\ where'[u] = where[u] /\ phase'[u] = phase[u] /\ req'[u] = req[u]
           /\ out'[u] = out[u] /\ handled'[u] = handled[u]
    BY <1>1, <1>2 DEF ApplyReply, Step, Types
  <1>13. UNCHANGED <<setup, want, reply>>
    BY <1>2
  <1> QED
    BY <1>4, <1>8, <1>10, <1>11, <1>12, <1>13, MemberStep

LEMMA SendReplyStep ==
  ASSUME WebInv, NEW w \in Workers, SendReply(w)
  PROVE  WebInv'
  <1> DEFINE r == req[w]
  <1>1. Types
    BY DEF WebInv
  <1>2. /\ UNCHANGED <<setup, want, phase, out, handled>> /\ UNCHANGED slotVars
        /\ where[w] = "send" /\ where'[w] = "idle"
        /\ reply' = [reply EXCEPT ![r] = out[w]]
        /\ req' = [req EXCEPT ![w] = None]
    BY <1>1 DEF SendReply, Step, Types
  <1>3. r \in Requests /\ want[r] # "none" /\ (out[w] = Due(r) \/ Overruled(r))
    BY <1>2 DEF WebInv, Own, Wants, Matched, Answering
  <1>4. Types'
    BY <1>1, <1>2, <1>3 DEF SendReply, Step, Types, setup, slotVars, Places
  <1>5. \A u \in Workers \ {w} :
           /\ where'[u] = where[u] /\ phase'[u] = phase[u] /\ req'[u] = req[u]
           /\ out'[u] = out[u] /\ handled'[u] = handled[u]
    BY <1>1, <1>2 DEF SendReply, Step, Types
  <1>6. \A u \in Workers : Own(u)' /\ Behind(u)'
    <2>1. Own(w)' /\ Behind(w)'
      BY <1>2 DEF Own, Behind
    <2>2. \A u \in Workers \ {w} : Own(u)' /\ Behind(u)'
      BY <1>2, <1>5, OthersOwn, OthersBehind DEF WebInv
    <2> QED
      BY <2>1, <2>2
  <1>7. Answered'
    <2>1. \A q \in Requests : reply'[q] = IF q = r THEN out[w] ELSE reply[q]
      BY <1>1, <1>2 DEF Types
    <2> QED
      BY <1>2, <1>3, <2>1, SameDue DEF WebInv, Answered
  <1> QED
    BY <1>4, <1>6, <1>7 DEF WebInv

\* A request is taken that no thread has: what the others have is not affected.
LEMMA TakeStep ==
  ASSUME WebInv, NEW w \in Workers, NEW r \in Requests, TakeRequest(w, r)
  PROVE  WebInv'
  <1>1. Types
    BY DEF WebInv
  <1>2. /\ UNCHANGED <<setup, phase, handled, reply>> /\ UNCHANGED slotVars
        /\ want[r] = "none" /\ where[w] = "idle" /\ where'[w] = "route"
        /\ req' = [req EXCEPT ![w] = r] /\ out' = [out EXCEPT ![w] = Blank]
    BY <1>1 DEF TakeRequest, Step, Types
  <1>3. PICK x \in Wants : want' = [want EXCEPT ![r] = x]
    BY DEF TakeRequest
  <1>4. Blank \in Responses
    BY ResponseType DEF Blank
  <1>5. Types'
    BY <1>1, <1>2, <1>3, <1>4 DEF TakeRequest, Step, Types, setup, slotVars, Places
  <1>6. \A q \in Requests : want[q] # "none" =>
          /\ want'[q] = want[q]
          /\ Due(q)' = Due(q) /\ BeforeError(q)' = BeforeError(q) /\ Overruled(q)' = Overruled(q)
          /\ NotFoundReply(q)' = NotFoundReply(q)
    <2> SUFFICES ASSUME NEW q \in Requests, want[q] # "none"
                 PROVE  /\ want'[q] = want[q]
                        /\ Due(q)' = Due(q) /\ BeforeError(q)' = BeforeError(q)
                        /\ Overruled(q)' = Overruled(q) /\ NotFoundReply(q)' = NotFoundReply(q)
      OBVIOUS
    <2>1. want'[q] = want[q]
      BY <1>1, <1>2, <1>3 DEF Types
    <2> QED
      BY <1>2, <2>1 DEF setup, Due, BeforeError, Overruled, NotFoundReply
  <1>7. Own(w)' /\ Behind(w)'
    <2>1. req'[w] = r /\ out'[w] = Blank /\ want'[r] \in Wants
      BY <1>1, <1>2, <1>3 DEF Types
    <2> QED
      BY <1>2, <2>1 DEF Own, Behind
  <1>8. ASSUME NEW u \in Workers \ {w}
        PROVE  Own(u)' /\ Behind(u)'
    <2>1. /\ where'[u] = where[u] /\ phase'[u] = phase[u] /\ req'[u] = req[u]
          /\ out'[u] = out[u] /\ handled'[u] = handled[u]
      BY <1>1, <1>2 DEF TakeRequest, Step, Types
    <2>2. Own(u) /\ Behind(u)
      BY DEF WebInv
    <2>3. CASE where[u] = "idle"
      BY <2>1, <2>3 DEF Own, Behind
    <2>4. CASE where[u] # "idle"
      <3>1. req[u] \in Requests /\ want[req[u]] # "none"
        BY <2>2, <2>4 DEF Own, Wants, Matched, Answering
      <3>2. want'[req[u]] = want[req[u]]
        BY <1>6, <3>1
      <3>3. /\ Due(req[u])' = Due(req[u]) /\ BeforeError(req[u])' = BeforeError(req[u])
            /\ Overruled(req[u])' = Overruled(req[u])
            /\ NotFoundReply(req[u])' = NotFoundReply(req[u])
        <4>1. UNCHANGED setup /\ req'[u] = req[u] /\ want'[req[u]] = want[req[u]]
          BY <1>2, <2>1, <3>2
        <4> QED
          BY <4>1 DEF setup, Due, BeforeError, Overruled, NotFoundReply
      <3>4. Own(u)'
        BY <1>2, <2>1, <2>2, <3>2, <3>3 DEF Own, setup
      <3>5. Behind(u)'
        BY <1>2, <2>1, <2>2, <3>3 DEF Behind, setup, slotVars
      <3> QED
        BY <3>4, <3>5
    <2> QED
      BY <2>3, <2>4
  <1>9. Answered'
    BY <1>2, <1>6 DEF WebInv, Answered
  <1> QED
    BY <1>5, <1>7, <1>8, <1>9 DEF WebInv

\* The server's life leaves the requests alone.
LEMMA LifeStep ==
  ASSUME WebInv, UNCHANGED <<setup, slotVars, poolVars>>
  PROVE  WebInv'
  <1>1. UNCHANGED <<setup, want, reply, where, phase, req, out, handled>> /\ UNCHANGED slotVars
    BY DEF poolVars
  <1>2. Types'
    BY <1>1 DEF WebInv, Types, setup, slotVars
  <1>3. \A u \in Workers : Own(u)' /\ Behind(u)'
    BY <1>1, OthersOwn, OthersBehind DEF WebInv
  <1>4. Answered'
    BY <1>1, SameDue DEF WebInv, Answered
  <1> QED
    BY <1>2, <1>3, <1>4 DEF WebInv

-----------------------------------------------------------------------------
LEMMA InitWebInv == InitWeb => WebInv
  <1> SUFFICES ASSUME InitWeb PROVE WebInv
    OBVIOUS
  <1>1. Blank \in Responses
    BY ResponseType DEF Blank
  <1>2. Types
    BY <1>1 DEF InitWeb, Types, Places
  <1>3. \A w \in Workers : where[w] = "idle"
    BY DEF InitWeb
  <1>4. \A w \in Workers : Own(w) /\ Behind(w)
    BY <1>3 DEF Own, Behind
  <1>5. Answered
    BY DEF InitWeb, Answered
  <1> QED
    BY <1>2, <1>4, <1>5 DEF WebInv

LEMMA NextWebInv == WebInv /\ [NextWeb]_webVars => WebInv'
  <1> SUFFICES ASSUME WebInv, [NextWeb]_webVars PROVE WebInv'
    OBVIOUS
  <1>1. CASE BeginServer \/ ServerListens \/ ServerEnds \/ CallStop \/ CallRestart \/ JoinServer
    <2>1. UNCHANGED <<setup, slotVars, poolVars>>
      BY <1>1 DEF BeginServer, ServerListens, ServerEnds, CallStop, CallRestart, JoinServer
    <2> QED
      BY <2>1, LifeStep
  <1>2. ASSUME NEW w \in Workers, Work(w)
        PROVE  WebInv'
    BY <1>2, RouteStep, EnterStep, RunStep, StopStep, ApplyStep, ErrorStep, SendReplyStep DEF Work
  <1>3. ASSUME NEW w \in Workers, NEW r \in Requests, TakeRequest(w, r)
        PROVE  WebInv'
    BY <1>3, TakeStep
  <1>4. CASE UNCHANGED webVars
    BY <1>4, LifeStep DEF webVars
  <1> QED
    BY <1>1, <1>2, <1>3, <1>4 DEF NextWeb

LEMMA WebInvShows == WebInv => ReplyIsOwn
  BY DEF WebInv, Answered, ReplyIsOwn

\* However many requests are answered at once, the status, the body and the headers of a
\* reply are those of the one handler its request belongs to, run on the arguments of that
\* request (request_mutex_, tls_route_handled).
THEOREM WebReplyIsOwn == SpecWeb => []ReplyIsOwn
  <1>1. SpecWeb => []WebInv
    BY InitWebInv, NextWebInv, PTL DEF SpecWeb
  <1> QED
    BY <1>1, WebInvShows, PTL

------------------------------------------------------------------------------
(***************************************************************************)
(* SurfacesInv is an invariant of HttpSurfaces, for any number of tasks,   *)
(* streams and Server objects.                                             *)
(***************************************************************************)

\* No devtools server, and none that was.
NoServer == devThread = 0 /\ \A k \in Objects : devServer[k] = "none"

Down == NoServer /\ srv = 0 /\ ~devRunning

\* The one server thread there is, on its way to its accept loop, or in it.
Only(k) == k \in Objects /\ \A j \in Objects \ {k} : devServer[j] = "none"

Up ==
  /\ Only(devThread) /\ srv # 0 /\ devRunning
  /\ \/ devServer[devThread] = "start" /\ object[srv] = "bound"
     \/ /\ devServer[devThread] = "accept" /\ object[srv] = "listening"
        /\ serves[devThread] = srv

\* stop() has closed the object, or the accept loop has ended.
Stopped ==
  /\ Only(devThread) /\ srv # 0
  /\ devServer[devThread] \in {"accept", "clear", "done"}

Unused == devThread = 0 /\ \A k \in Objects : devServer[k] \in {"none", "done"}

BeforeStop == {"init", "mirror", "live", "mstop", "mjoin", "dstop"}

\* Without a race there is one thread at a time in start_server(), no server while there
\* is one, and after stop() only what it stopped.
InTurn ==
  /\ \A s, t \in Starting : s = t
  /\ Starting # {} => life \in BeforeStop /\ NoServer
  /\ \A t \in Threads :
       /\ pc[t] = "make" => srv = 0 /\ ~devRunning
       /\ pc[t] = "bind" => srv # 0 /\ ~devRunning
       /\ pc[t] = "flag" => srv # 0 /\ object[srv] = "bound" /\ ~devRunning
       /\ pc[t] = "spawn" => srv # 0 /\ object[srv] = "bound" /\ devRunning
  /\ Starting = {} /\ life \in BeforeStop => Down \/ Up
  /\ life = "djoin" => Down \/ Up \/ Stopped
  /\ life = "dreset" => Unused
  /\ life \in {"close", "static", "ended"} => Unused /\ srv = 0
  /\ fault = "none"

\* Requests are there only between the mirror's start and its end.
NoViewer == \A v \in Viewers : viewer[v] \in {"none", "over"}

Mirrored ==
  /\ life \in {"init", "mirror"} => mirror = "none"
  /\ mirror \in {"none", "bound", "done"} => NoViewer
  /\ life \notin {"init", "mirror", "live", "mstop", "mjoin"} => mirror = "none"

SurfacesIInv == SurfacesTypeOK /\ (~raced => InTurn) /\ Mirrored

-----------------------------------------------------------------------------
LEMMA SurfacesInit == InitSurfaces => SurfacesIInv
  <1> SUFFICES ASSUME InitSurfaces PROVE SurfacesIInv
    OBVIOUS
  <1>a. 0 \in 0 .. MaxServers /\ 0 \in 0 .. 0 /\ MaxServers \in Nat
    BY SurfacesAssumption
  <1>b. pc \in [Threads -> {"idle", "check", "make", "bind", "flag", "spawn"}]
    BY DEF InitSurfaces
  <1>c. serves \in [Objects -> 0 .. MaxServers]
    BY <1>a DEF InitSurfaces
  <1>d. made \in 0 .. MaxServers /\ srv \in 0 .. made /\ devThread \in 0 .. MaxServers
    BY <1>a DEF InitSurfaces
  <1>1. SurfacesTypeOK
    BY <1>b, <1>c, <1>d DEF InitSurfaces, SurfacesTypeOK
  <1>2. Starting = {}
    BY DEF InitSurfaces, Starting
  <1>3. InTurn
    BY <1>2 DEF InitSurfaces, InTurn, Down, NoServer, BeforeStop
  <1>4. Mirrored
    BY DEF InitSurfaces, Mirrored, NoViewer
  <1> QED
    BY <1>1, <1>3, <1>4 DEF SurfacesIInv

LEMMA SurfacesShows == SurfacesIInv => SurfacesInv
  BY DEF SurfacesIInv, SurfacesInv, InTurn, SequentialUseIsSafe, HandlersGoneBeforePanel, Mirrored,
         NoViewer

\* What devtools does leaves the mirror alone, and the other way round.
LEMMA MirrorAlone ==
  ASSUME Mirrored, UNCHANGED <<mirror, viewer>>,
         life' = life \/ (life = "init" /\ life' = "mirror") \/ (life = "live" /\ life' = "mstop")
           \/ (life \notin BeforeStop \ {"dstop"} /\ life' \notin BeforeStop)
  PROVE  Mirrored'
  BY DEF Mirrored, NoViewer, BeforeStop

-----------------------------------------------------------------------------
(* start_server()                                                          *)

\* A thread goes on in start_server(), where it is alone.
LEMMA StartKeeps ==
  ASSUME SurfacesIInv, NEW t \in Threads, Start(t) \/ WriteUart1(t)
  PROVE  SurfacesIInv'
  <1> USE DEF SurfacesIInv
  <1>1. UNCHANGED <<life, mirror, advert, viewer, serves>>
    BY DEF Start, WriteUart1, StartCheck, MakeServer, BindServer, RaiseRunning, SpawnThread,
           mirrorVars, devVars
  <1>2. Mirrored'
    BY <1>1, MirrorAlone
  <1>3. ASSUME NEW s \in {"idle", "check", "make", "bind", "flag", "spawn"}, Goto(t, s)
        PROVE  /\ pc' \in [Threads -> {"idle", "check", "make", "bind", "flag", "spawn"}]
               /\ pc'[t] = s /\ \A u \in Threads \ {t} : pc'[u] = pc[u]
    BY <1>3 DEF Goto, SurfacesTypeOK
  <1>4. CASE WriteUart1(t)
    <2>1. /\ pc[t] = "idle" /\ Goto(t, "check")
          /\ UNCHANGED <<made, object, srv, devRunning, devThread, devServer, fault, raced>>
      BY <1>4 DEF WriteUart1, devVars
    <2>2. /\ pc' \in [Threads -> {"idle", "check", "make", "bind", "flag", "spawn"}]
          /\ pc'[t] = "check" /\ \A u \in Threads \ {t} : pc'[u] = pc[u]
      BY <1>3, <2>1
    <2>3. SurfacesTypeOK'
      BY <1>1, <2>1, <2>2 DEF SurfacesTypeOK
    <2>4. Starting' = Starting
      BY <2>1, <2>2 DEF Starting
    <2>5. InTurn => InTurn'
      BY <1>1, <2>1, <2>2, <2>4 DEF InTurn, NoServer, Down, Up, Stopped, Only, Unused
    <2> QED
      BY <1>2, <2>1, <2>3, <2>5
  <1>5. CASE StartCheck(t) /\ devRunning
    <2>1. /\ pc[t] = "check" /\ Goto(t, "idle")
          /\ UNCHANGED <<made, object, srv, devRunning, devThread, devServer, fault, raced>>
      BY <1>5 DEF StartCheck, devVars
    <2>2. /\ pc' \in [Threads -> {"idle", "check", "make", "bind", "flag", "spawn"}]
          /\ pc'[t] = "idle" /\ \A u \in Threads \ {t} : pc'[u] = pc[u]
      BY <1>3, <2>1
    <2>3. SurfacesTypeOK'
      BY <1>1, <2>1, <2>2 DEF SurfacesTypeOK
    <2>4. Starting' = Starting
      BY <2>1, <2>2 DEF Starting
    <2>5. InTurn => InTurn'
      BY <1>1, <2>1, <2>2, <2>4 DEF InTurn, NoServer, Down, Up, Stopped, Only, Unused
    <2> QED
      BY <1>2, <2>1, <2>3, <2>5
  <1>6. CASE StartCheck(t) /\ ~devRunning
    <2>1. /\ pc[t] = "check" /\ Goto(t, "make")
          /\ raced' = (raced \/ Starting # {} \/ life \notin {"init", "mirror", "live"})
          /\ UNCHANGED <<made, object, srv, devRunning, devThread, devServer, fault>>
      BY <1>6 DEF StartCheck, devVars
    <2>2. /\ pc' \in [Threads -> {"idle", "check", "make", "bind", "flag", "spawn"}]
          /\ pc'[t] = "make" /\ \A u \in Threads \ {t} : pc'[u] = pc[u]
      BY <1>3, <2>1
    <2>3. raced' \in BOOLEAN
      BY <2>1
    <2>4. SurfacesTypeOK'
      BY <1>1, <2>1, <2>2, <2>3 DEF SurfacesTypeOK
    <2>5. ASSUME ~raced' PROVE InTurn'
      <3>1. InTurn /\ Starting = {} /\ life \in {"init", "mirror", "live"}
        BY <2>1, <2>5
      <3>2. Starting' = {t}
        BY <2>2, <3>1 DEF Starting
      <3>3. Down
        BY <1>6, <3>1 DEF InTurn, BeforeStop, Up
      <3>4. \A u \in Threads \ {t} : pc'[u] \in {"idle", "check"}
        BY <2>2, <3>1 DEF Starting
      <3> QED
        BY <1>1, <2>1, <2>2, <3>1, <3>2, <3>3, <3>4 DEF InTurn, BeforeStop, NoServer, Down
    <2> QED
      BY <1>2, <2>4, <2>5
  <1>7. CASE MakeServer(t)
    <2>1. /\ pc[t] = "make" /\ Goto(t, "bind") /\ made < MaxServers /\ made' = made + 1
          /\ srv' = made + 1 /\ object' = [Destroyed EXCEPT ![made + 1] = "made"]
          /\ fault' \in {fault, "dangling"} /\ (srv = 0 => fault' = fault)
          /\ UNCHANGED <<devRunning, devThread, devServer, raced>>
      BY <1>7 DEF MakeServer, Replace
    <2>2. /\ pc' \in [Threads -> {"idle", "check", "make", "bind", "flag", "spawn"}]
          /\ pc'[t] = "bind" /\ \A u \in Threads \ {t} : pc'[u] = pc[u]
      BY <1>3, <2>1
    <2>3. /\ made' \in 0 .. MaxServers /\ srv' \in 0 .. made' /\ srv' # 0
          /\ made + 1 \in Objects
      BY <2>1, SurfacesAssumption DEF SurfacesTypeOK, Objects
    <2>4. /\ object' \in [Objects -> {"none", "made", "bound", "listening", "closing",
                                     "closed", "gone"}]
          /\ object'[srv'] = "made"
      BY <2>1, <2>3 DEF SurfacesTypeOK, Destroyed
    <2>5. SurfacesTypeOK'
      BY <1>1, <2>1, <2>2, <2>3, <2>4 DEF SurfacesTypeOK
    <2>6. Starting' = Starting /\ t \in Starting
      BY <2>1, <2>2 DEF Starting
    <2>7. ASSUME InTurn PROVE InTurn'
      <3>1. srv = 0 /\ ~devRunning /\ NoServer /\ life \in BeforeStop
        BY <2>1, <2>6, <2>7 DEF InTurn
      <3>2. \A u \in Threads \ {t} : pc'[u] \in {"idle", "check"}
        BY <2>2, <2>6, <2>7 DEF InTurn, Starting
      <3> QED
        BY <1>1, <2>1, <2>2, <2>3, <2>6, <2>7, <3>1, <3>2 DEF InTurn, BeforeStop, NoServer
    <2> QED
      BY <1>2, <2>1, <2>5, <2>7
  <1>8. CASE BindServer(t)
    <2> DEFINE Next8(s) == pc'[t] = s /\ \A u \in Threads \ {t} : pc'[u] = pc[u]
    <2>1. pc[t] = "bind" /\ UNCHANGED <<made, devRunning, devThread, devServer, raced>>
      BY <1>8 DEF BindServer
    <2>2. t \in Starting
      BY <2>1 DEF Starting
    <2>3. ASSUME InTurn
          PROVE  /\ srv # 0 /\ ~devRunning /\ NoServer /\ life \in BeforeStop /\ fault = "none"
                 /\ \A u \in Threads \ {t} : pc[u] \in {"idle", "check"}
      BY <2>1, <2>2, <2>3 DEF InTurn, Starting
    <2>4. srv # 0 => srv \in Objects
      BY SurfacesAssumption DEF SurfacesTypeOK, Objects
    <2>5. CASE /\ srv = 0 /\ fault' = "dangling" /\ UNCHANGED <<srv, object>>
               /\ Goto(t, "idle")
      <3>1. SurfacesTypeOK'
        BY <1>1, <1>3, <2>1, <2>5 DEF SurfacesTypeOK
      <3> QED
        BY <1>2, <2>1, <2>3, <2>5, <3>1
    <2>6. CASE /\ srv # 0 /\ Goto(t, "flag") /\ object' = [object EXCEPT ![srv] = "bound"]
               /\ UNCHANGED <<srv, fault>>
      <3>1. /\ object' \in [Objects -> {"none", "made", "bound", "listening", "closing",
                                       "closed", "gone"}]
            /\ object'[srv'] = "bound"
        BY <2>4, <2>6 DEF SurfacesTypeOK
      <3>2. SurfacesTypeOK'
        BY <1>1, <1>3, <2>1, <2>6, <3>1 DEF SurfacesTypeOK
      <3>3. Next8("flag")
        BY <1>3, <2>6
      <3>4. ASSUME InTurn PROVE InTurn'
        <4>1. Starting' = {t}
          BY <2>3, <3>3, <3>4 DEF Starting
        <4> QED
          BY <1>1, <2>1, <2>3, <2>6, <3>1, <3>3, <3>4, <4>1 DEF InTurn, BeforeStop, NoServer
      <3> QED
        BY <1>2, <2>1, <3>2, <3>4
    <2>7. CASE srv # 0 /\ Goto(t, "idle") /\ Replace(0) /\ object' = Destroyed
      <3>1. srv' = 0 /\ fault' \in {fault, "dangling"} /\ (~InUse(srv) => fault' = fault)
        BY <2>7 DEF Replace
      <3>2. object' \in [Objects -> {"none", "made", "bound", "listening", "closing",
                                     "closed", "gone"}]
        BY <2>4, <2>7 DEF SurfacesTypeOK, Destroyed
      <3>3. srv' \in 0 .. made'
        BY <2>1, <3>1, SurfacesAssumption DEF SurfacesTypeOK
      <3>4. SurfacesTypeOK'
        BY <1>1, <1>3, <2>1, <2>7, <3>1, <3>2, <3>3 DEF SurfacesTypeOK
      <3>5. Next8("idle")
        BY <1>3, <2>7
      <3>6. ASSUME InTurn PROVE InTurn'
        <4>1. Starting' = {}
          BY <2>3, <3>5, <3>6 DEF Starting
        <4>2. ~InUse(srv)
          BY <2>3, <3>6 DEF InUse, NoServer
        <4>3. Down'
          BY <2>1, <2>3, <3>1, <3>6 DEF Down, NoServer
        <4>4. \A u \in Threads : pc'[u] \in {"idle", "check"}
          BY <2>3, <3>5, <3>6
        <4> QED
          BY <1>1, <2>3, <3>1, <3>6, <4>1, <4>2, <4>3, <4>4 DEF InTurn, BeforeStop
      <3> QED
        BY <1>2, <2>1, <3>4, <3>6
    <2> QED
      BY <1>8, <2>5, <2>6, <2>7 DEF BindServer
  <1>9. CASE RaiseRunning(t)
    <2>1. /\ pc[t] = "flag" /\ Goto(t, "spawn") /\ devRunning'
          /\ UNCHANGED <<made, object, srv, devThread, devServer, fault, raced>>
      BY <1>9 DEF RaiseRunning
    <2>2. /\ pc' \in [Threads -> {"idle", "check", "make", "bind", "flag", "spawn"}]
          /\ pc'[t] = "spawn" /\ \A u \in Threads \ {t} : pc'[u] = pc[u]
      BY <1>3, <2>1
    <2>3. devRunning' \in BOOLEAN
      BY <1>9 DEF RaiseRunning
    <2>4. SurfacesTypeOK'
      BY <1>1, <2>1, <2>2, <2>3 DEF SurfacesTypeOK
    <2>5. ASSUME InTurn PROVE InTurn'
      <3>1. t \in Starting /\ Starting' = Starting
        BY <2>1, <2>2 DEF Starting
      <3>2. \A u \in Threads \ {t} : pc'[u] \in {"idle", "check"}
        BY <2>2, <2>5, <3>1 DEF InTurn, Starting
      <3>3. NoServer'
        BY <2>1, <2>5, <3>1 DEF InTurn, NoServer
      <3> QED
        BY <1>1, <2>1, <2>2, <2>5, <3>1, <3>2, <3>3 DEF InTurn, BeforeStop
    <2> QED
      BY <1>2, <2>1, <2>4, <2>5
  <1>10. CASE SpawnThread(t)
    <2>1. /\ pc[t] = "spawn" /\ Goto(t, "idle")
          /\ UNCHANGED <<made, object, srv, devRunning, raced>>
      BY <1>10 DEF SpawnThread
    <2>2. /\ pc' \in [Threads -> {"idle", "check", "make", "bind", "flag", "spawn"}]
          /\ pc'[t] = "idle" /\ \A u \in Threads \ {t} : pc'[u] = pc[u]
      BY <1>3, <2>1
    <2>3. t \in Starting
      BY <2>1 DEF Starting
    <2>4. CASE devThread = 0
      <3>1. PICK k \in Objects :
               /\ devThread' = k /\ devServer' = [devServer EXCEPT ![k] = "start"]
               /\ UNCHANGED fault
        BY <1>10, <2>4 DEF SpawnThread
      <3>2. devThread' \in 0 .. MaxServers
        BY <3>1 DEF Objects
      <3>3. /\ devServer' \in [Objects -> {"none", "start", "accept", "clear", "done"}]
            /\ devServer'[k] = "start" /\ \A j \in Objects \ {k} : devServer'[j] = devServer[j]
        BY <3>1 DEF SurfacesTypeOK
      <3>4. SurfacesTypeOK'
        BY <1>1, <2>1, <2>2, <3>1, <3>2, <3>3 DEF SurfacesTypeOK
      <3>5. ASSUME InTurn PROVE InTurn'
        <4>1. /\ srv # 0 /\ object[srv] = "bound" /\ devRunning /\ NoServer
              /\ life \in BeforeStop /\ fault = "none"
          BY <2>1, <2>3, <3>5 DEF InTurn
        <4>2. \A u \in Threads : pc'[u] \in {"idle", "check"}
          BY <2>2, <2>3, <3>5 DEF InTurn, Starting
        <4>3. Starting' = {}
          BY <4>2 DEF Starting
        <4>4. Up'
          BY <2>1, <3>1, <3>3, <4>1 DEF Up, Only, NoServer
        <4> QED
          BY <1>1, <3>1, <4>1, <4>2, <4>3, <4>4 DEF InTurn, BeforeStop
      <3> QED
        BY <1>2, <2>1, <3>4, <3>5
    <2>5. CASE devThread # 0
      <3>1. fault' = "terminate" /\ UNCHANGED <<devThread, devServer>>
        BY <1>10, <2>5 DEF SpawnThread
      <3>2. SurfacesTypeOK'
        BY <1>1, <2>1, <2>2, <3>1 DEF SurfacesTypeOK
      <3>3. ~InTurn
        BY <2>3, <2>5 DEF InTurn, NoServer
      <3> QED
        BY <1>2, <2>1, <3>2, <3>3
    <2> QED
      BY <2>4, <2>5
  <1> QED
    BY <1>4, <1>5, <1>6, <1>7, <1>8, <1>9, <1>10 DEF Start

-----------------------------------------------------------------------------
(* The devtools server thread                                              *)

\* What is stopped, or about to be, has no thread left to step.
LEMMA WhoServes ==
  ASSUME SurfacesTypeOK, InTurn, NEW k \in Objects, devServer[k] \in {"start", "accept", "clear"}
  PROVE  /\ Starting = {} /\ k = devThread /\ srv # 0
         /\ (life \in BeforeStop \cup {"djoin"} /\ Up) \/ (life = "djoin" /\ Stopped)
         /\ life \notin {"dreset", "close", "static", "ended"}
  <1>1. ~NoServer /\ ~Unused
    BY DEF NoServer, Unused
  <1>2. Starting = {}
    BY <1>1 DEF InTurn
  <1>3. Up => k = devThread /\ srv # 0
    BY DEF Up, Only
  <1>4. Stopped => k = devThread /\ srv # 0
    BY DEF Stopped, Only
  <1> QED
    BY <1>1, <1>2, <1>3, <1>4 DEF InTurn, Down, BeforeStop, SurfacesTypeOK

LEMMA ServerThreadKeeps ==
  ASSUME SurfacesIInv, SurfacesTypeOK', NEW k \in Objects, ServerThread(k)
  PROVE  SurfacesIInv'
  <1> USE DEF SurfacesIInv
  <1>1. /\ UNCHANGED <<life, pc, made, srv, devThread, mirror, advert, viewer, raced>>
        /\ devServer[k] \in {"start", "accept", "clear"}
    BY DEF ServerThread, DevtoolsListen, ListenEnds, ClearRunning, mirrorVars
  <1>2. Mirrored'
    BY <1>1, MirrorAlone
  <1>3. Starting' = Starting
    BY <1>1 DEF Starting
  <1>4. ASSUME Starting = {}, NEW t \in Threads PROVE pc[t] \in {"idle", "check"}
    BY <1>4 DEF Starting
  <1>5. ASSUME InTurn, Up', Starting = {}, life \in BeforeStop \cup {"djoin"}, fault' = "none"
        PROVE  InTurn'
    BY <1>1, <1>3, <1>4, <1>5 DEF InTurn, BeforeStop
  <1>6. ASSUME InTurn, Stopped', Starting = {}, life = "djoin", fault' = "none"
        PROVE  InTurn'
    BY <1>1, <1>3, <1>4, <1>6 DEF InTurn, BeforeStop
  <1>7. ASSUME NEW s, devServer' = [devServer EXCEPT ![k] = s]
        PROVE  devServer'[k] = s /\ \A j \in Objects \ {k} : devServer'[j] = devServer[j]
    BY <1>7 DEF SurfacesTypeOK
  <1>8. ASSUME InTurn, Up PROVE InTurn'
    <2>1. /\ Starting = {} /\ k = devThread /\ srv # 0 /\ fault = "none"
          /\ life \in BeforeStop \cup {"djoin"}
      BY <1>1, <1>8, WhoServes DEF InTurn, BeforeStop
    <2>2. srv \in Objects
      BY <2>1, SurfacesAssumption DEF SurfacesTypeOK, Objects
    <2>3. CASE DevtoolsListen(k)
      <3>1. devServer[k] = "start" /\ object[srv] = "bound"
        BY <1>8, <2>1, <2>3 DEF DevtoolsListen, Up
      <3>2. /\ serves' = [serves EXCEPT ![k] = srv]
            /\ object' = [object EXCEPT ![srv] = IF @ = "bound" THEN "listening" ELSE @]
            /\ devServer' = [devServer EXCEPT ![k] = "accept"]
            /\ UNCHANGED <<fault, devRunning>>
        BY <2>1, <2>3, <3>1 DEF DevtoolsListen
      <3>3. serves'[k] = srv /\ object'[srv] = "listening"
        BY <2>2, <3>1, <3>2 DEF SurfacesTypeOK
      <3>4. Up'
        BY <1>1, <1>7, <1>8, <2>1, <3>2, <3>3 DEF Up, Only
      <3> QED
        BY <1>5, <1>8, <2>1, <3>2, <3>4
    <2>4. ~ListenEnds(k) /\ ~ClearRunning(k)
      BY <1>8, <2>1 DEF Up, ListenEnds, ClearRunning
    <2> QED
      BY <2>3, <2>4 DEF ServerThread
  <1>9. ASSUME InTurn, Stopped, life = "djoin" PROVE InTurn'
    <2>1. Starting = {} /\ k = devThread /\ srv # 0 /\ fault = "none"
      BY <1>1, <1>9, WhoServes DEF InTurn
    <2>2. ~DevtoolsListen(k)
      BY <1>9, <2>1 DEF Stopped, DevtoolsListen
    <2>3. PICK s \in {"clear", "done"} :
             devServer' = [devServer EXCEPT ![k] = s] /\ UNCHANGED fault
      BY <2>2 DEF ServerThread, ListenEnds, ClearRunning
    <2>4. Stopped'
      BY <1>1, <1>7, <1>9, <2>1, <2>3 DEF Stopped, Only
    <2> QED
      BY <1>6, <1>9, <2>1, <2>3, <2>4
  <1> QED
    BY <1>1, <1>2, <1>8, <1>9, WhoServes

-----------------------------------------------------------------------------
(* The mirror, and the steps of the main thread                            *)

\* A step that moves life on, or nothing of devtools, within its starting part.
LEMMA StartingKept ==
  ASSUME InTurn, UNCHANGED <<pc, devVars, fault>>,
         life' = life \/ (life \in BeforeStop /\ life' \in BeforeStop)
           \/ (life \in {"close", "static"} /\ life' \in {"static", "ended"})
  PROVE  InTurn'
  <1>1. Starting' = Starting
    BY DEF Starting
  <1> QED
    BY <1>1 DEF InTurn, devVars, BeforeStop, Down, Up, Stopped, Unused, NoServer, Only

\* The mirror's thread, its viewers, and its start and stop.
MirrorStep ==
  \/ MirrorListen \/ MirrorEnds \/ MirrorStart \/ MirrorStop \/ MirrorJoin
  \/ \E v \in Viewers : ViewerConnects(v) \/ ViewerReads(v) \/ ViewerSends(v)

LEMMA MirrorKeeps ==
  ASSUME SurfacesIInv, SurfacesTypeOK', MirrorStep
  PROVE  SurfacesIInv'
  <1> USE DEF SurfacesIInv
  <1>1. /\ UNCHANGED <<pc, devVars, fault, raced>>
        /\ life' = life \/ (life \in BeforeStop /\ life' \in BeforeStop)
    BY DEF MirrorStep, MirrorListen, MirrorEnds, MirrorStart, MirrorStop, MirrorJoin,
           ViewerConnects, ViewerReads, ViewerSends, BeforeStop
  <1>2. InTurn => InTurn'
    BY <1>1, StartingKept
  <1>3. ASSUME NEW v \in Viewers, ViewerConnects(v) \/ ViewerReads(v) \/ ViewerSends(v)
        PROVE  Mirrored'
    <2>1. mirror \in {"listening", "closing"}
      BY <1>3 DEF Mirrored, NoViewer, ViewerConnects, ViewerReads, ViewerSends, SurfacesTypeOK
    <2> QED
      BY <1>3, <2>1 DEF Mirrored, ViewerConnects, ViewerReads, ViewerSends
  <1>4. ASSUME MirrorListen \/ MirrorEnds PROVE Mirrored'
    BY <1>4 DEF MirrorListen, MirrorEnds, Mirrored, NoViewer
  <1>5. ASSUME MirrorStart \/ MirrorStop \/ MirrorJoin PROVE Mirrored'
    BY <1>5 DEF MirrorStart, MirrorStop, MirrorJoin, Mirrored, NoViewer
  <1> QED
    BY <1>1, <1>2, <1>3, <1>4, <1>5 DEF MirrorStep

\* The main thread's own steps on devtools, and the end.
MainStep ==
  \/ DevtoolsStarted \/ Exit \/ DevtoolsStop \/ DevtoolsJoin \/ DevtoolsReset
  \/ ClosePanel \/ StaticDestructors

LEMMA MainKeeps ==
  ASSUME SurfacesIInv, SurfacesTypeOK', MainStep
  PROVE  SurfacesIInv'
  <1> USE DEF SurfacesIInv
  <1>1. UNCHANGED <<pc, mirror, advert, viewer>>
    BY DEF MainStep, DevtoolsStarted, Exit, DevtoolsStop, DevtoolsJoin, DevtoolsReset, ClosePanel,
           StaticDestructors, mirrorVars
  <1>2. Mirrored'
    <2>1. \/ life = "init" /\ life' = "mirror"
          \/ life = "live" /\ life' = "mstop"
          \/ life \notin BeforeStop \ {"dstop"} /\ life' \notin BeforeStop
      BY DEF MainStep, DevtoolsStarted, Exit, DevtoolsStop, DevtoolsJoin, DevtoolsReset,
             ClosePanel, StaticDestructors, BeforeStop
    <2> QED
      BY <1>1, <2>1, MirrorAlone
  <1>3. Starting' = Starting
    BY <1>1 DEF Starting
  <1>4. ASSUME Starting = {}, NEW t \in Threads PROVE pc[t] \in {"idle", "check"}
    BY <1>4 DEF Starting
  <1>5. srv # 0 => srv \in Objects
    BY SurfacesAssumption DEF SurfacesTypeOK, Objects
  <1>6. CASE DevtoolsStarted \/ Exit \/ ClosePanel
    <2>1. /\ UNCHANGED <<pc, devVars, fault, raced>>
          /\ \/ life \in BeforeStop /\ life' \in BeforeStop
             \/ life = "close" /\ life' = "static"
      BY <1>6 DEF DevtoolsStarted, Exit, ClosePanel, BeforeStop
    <2>2. InTurn => InTurn'
      BY <2>1, StartingKept
    <2> QED
      BY <1>2, <2>1, <2>2
  <1>7. CASE DevtoolsStop
    <2>1. /\ life = "dstop" /\ life' = "djoin"
          /\ object' = IF srv # 0 /\ object[srv] = "listening"
                         THEN [object EXCEPT ![srv] = "closing"] ELSE object
          /\ raced' = (raced \/ Starting # {})
          /\ UNCHANGED <<made, srv, devRunning, devThread, devServer, serves, fault>>
      BY <1>7 DEF DevtoolsStop
    <2>2. ASSUME ~raced' PROVE InTurn'
      <3>1. InTurn /\ Starting = {}
        BY <2>1, <2>2
      <3>2. CASE Down
        BY <1>1, <1>3, <1>4, <2>1, <3>1, <3>2 DEF InTurn, BeforeStop, Down, NoServer
      <3>3. CASE Up /\ object[srv] = "bound"
        <4>1. Up'
          BY <2>1, <3>3 DEF Up, Only
        <4> QED
          BY <1>1, <1>3, <1>4, <2>1, <3>1, <4>1 DEF InTurn, BeforeStop
      <3>4. CASE Up /\ object[srv] # "bound"
        <4>1. Stopped'
          BY <2>1, <3>4 DEF Up, Only, Stopped
        <4> QED
          BY <1>1, <1>3, <1>4, <2>1, <3>1, <4>1 DEF InTurn, BeforeStop
      <3> QED
        BY <2>1, <3>1, <3>2, <3>3, <3>4 DEF InTurn, BeforeStop
    <2> QED
      BY <1>2, <2>2
  <1>8. CASE DevtoolsJoin
    <2>1. /\ life = "djoin" /\ life' = "dreset" /\ devThread' = 0
          /\ devThread # 0 => devServer[devThread] = "done"
          /\ UNCHANGED <<made, object, srv, devRunning, devServer, serves, fault, raced>>
      BY <1>8 DEF DevtoolsJoin
    <2>2. ASSUME InTurn PROVE InTurn'
      <3>1. Starting = {}
        BY <2>1, <2>2 DEF InTurn, BeforeStop
      <3>2. ~Up
        BY <2>1, SurfacesAssumption DEF Up, Only, Objects
      <3>3. CASE Down
        BY <1>1, <1>3, <1>4, <2>1, <2>2, <3>1, <3>3 DEF InTurn, BeforeStop, Down, NoServer, Unused
      <3>4. CASE Stopped
        <4>1. Unused'
          BY <2>1, <3>4, SurfacesAssumption DEF Stopped, Only, Unused, Objects
        <4> QED
          BY <1>1, <1>3, <1>4, <2>1, <2>2, <3>1, <4>1 DEF InTurn, BeforeStop
      <3> QED
        BY <2>1, <2>2, <3>2, <3>3, <3>4 DEF InTurn
    <2> QED
      BY <1>2, <2>1, <2>2
  <1>9. CASE DevtoolsReset
    <2>1. /\ life = "dreset" /\ life' = "close" /\ srv' = 0
          /\ (~InUse(srv) => fault' = fault)
          /\ UNCHANGED <<devThread, devServer, raced>>
      BY <1>9 DEF DevtoolsReset, Replace
    <2>2. ASSUME InTurn PROVE InTurn'
      <3>1. Starting = {} /\ Unused /\ fault = "none"
        BY <2>1, <2>2 DEF InTurn, BeforeStop
      <3>2. ~InUse(srv) /\ Unused'
        BY <2>1, <3>1 DEF Unused, InUse
      <3> QED
        BY <1>1, <1>3, <1>4, <2>1, <2>2, <3>1, <3>2 DEF InTurn, BeforeStop
    <2> QED
      BY <1>2, <2>1, <2>2
  <1>10. CASE StaticDestructors
    <2>1. /\ life = "static" /\ life' = "ended"
          /\ UNCHANGED <<devThread, devServer, raced>>
      BY <1>10 DEF StaticDestructors
    <2>2. ASSUME InTurn PROVE InTurn'
      <3>1. Starting = {} /\ Unused /\ fault = "none" /\ srv = 0
        BY <2>1, <2>2 DEF InTurn, BeforeStop
      <3>2. srv' = 0 /\ fault' = fault
        BY <1>10, <3>1 DEF StaticDestructors, Replace, Unused
      <3>3. Unused'
        BY <2>1, <3>1 DEF Unused
      <3> QED
        BY <1>1, <1>3, <1>4, <2>1, <2>2, <3>1, <3>2, <3>3 DEF InTurn, BeforeStop
    <2> QED
      BY <1>2, <2>1, <2>2
  <1> QED
    BY <1>6, <1>7, <1>8, <1>9, <1>10 DEF MainStep

-----------------------------------------------------------------------------
(* The types, and the whole system                                         *)

LEMMA ServerThreadTypes ==
  ASSUME SurfacesTypeOK, NEW k \in Objects, ServerThread(k)
  PROVE  SurfacesTypeOK'
  <1>1. UNCHANGED <<life, pc, made, srv, devThread, mirror, advert, viewer, raced>>
    BY DEF ServerThread, DevtoolsListen, ListenEnds, ClearRunning, mirrorVars
  <1>2. srv # 0 => srv \in Objects
    BY SurfacesAssumption DEF SurfacesTypeOK, Objects
  <1>3. srv \in 0 .. MaxServers
    BY SurfacesAssumption DEF SurfacesTypeOK
  <1>4. fault' \in {"none", "terminate", "dangling"} /\ devRunning' \in BOOLEAN
    BY DEF ServerThread, DevtoolsListen, ListenEnds, ClearRunning, SurfacesTypeOK
  <1>5. devServer' \in [Objects -> {"none", "start", "accept", "clear", "done"}]
    BY DEF ServerThread, DevtoolsListen, ListenEnds, ClearRunning, SurfacesTypeOK
  <1>6. serves' \in [Objects -> 0 .. MaxServers]
    BY <1>3 DEF ServerThread, DevtoolsListen, ListenEnds, ClearRunning, SurfacesTypeOK
  <1>7. /\ object' \in [Objects -> {"none", "made", "bound", "listening", "closing",
                                   "closed", "gone"}]
        /\ (srv # 0 => object'[srv] # "gone")
    <2>1. CASE DevtoolsListen(k)
      BY <1>2, <2>1 DEF DevtoolsListen, SurfacesTypeOK
    <2>2. CASE ListenEnds(k)
      BY <1>2, <2>2 DEF ListenEnds, SurfacesTypeOK
    <2>3. CASE ClearRunning(k)
      BY <2>3 DEF ClearRunning, SurfacesTypeOK
    <2> QED
      BY <2>1, <2>2, <2>3 DEF ServerThread
  <1> QED
    BY <1>1, <1>4, <1>5, <1>6, <1>7 DEF SurfacesTypeOK

LEMMA MirrorTypes ==
  ASSUME SurfacesTypeOK, MirrorStep
  PROVE  SurfacesTypeOK'
  <1>1. UNCHANGED <<pc, devVars, fault, raced>>
    BY DEF MirrorStep, MirrorListen, MirrorEnds, MirrorStart, MirrorStop, MirrorJoin,
           ViewerConnects, ViewerReads, ViewerSends
  <1>2. /\ life' \in {life, "live", "mjoin", "dstop"}
        /\ mirror' \in {"none", "bound", "listening", "closing", "done"}
        /\ advert' \in {"none", "up", "signalled"}
    BY DEF MirrorStep, MirrorListen, MirrorEnds, MirrorStart, MirrorStop, MirrorJoin,
           ViewerConnects, ViewerReads, ViewerSends, SurfacesTypeOK
  <1>3. viewer' \in [Viewers -> {"none", "waiting", "reading", "over"}]
    BY DEF MirrorStep, MirrorListen, MirrorEnds, MirrorStart, MirrorStop, MirrorJoin,
           ViewerConnects, ViewerReads, ViewerSends, SurfacesTypeOK
  <1> QED
    BY <1>1, <1>2, <1>3 DEF SurfacesTypeOK, devVars

LEMMA MainTypes ==
  ASSUME SurfacesTypeOK, MainStep
  PROVE  SurfacesTypeOK'
  <1>1. UNCHANGED <<pc, made, devServer, serves, mirror, advert, viewer>>
    BY DEF MainStep, DevtoolsStarted, Exit, DevtoolsStop, DevtoolsJoin, DevtoolsReset, ClosePanel,
           StaticDestructors, mirrorVars, devVars
  <1>2. srv # 0 => srv \in Objects
    BY SurfacesAssumption DEF SurfacesTypeOK, Objects
  <1>3. life' \in {"mirror", "mstop", "djoin", "dreset", "close", "static", "ended"}
    BY DEF MainStep, DevtoolsStarted, Exit, DevtoolsStop, DevtoolsJoin, DevtoolsReset, ClosePanel,
           StaticDestructors
  <1>4. devThread' \in {0, devThread} /\ srv' \in {0, srv}
    BY DEF MainStep, DevtoolsStarted, Exit, DevtoolsStop, DevtoolsJoin, DevtoolsReset, ClosePanel,
           StaticDestructors, Replace, devVars
  <1>5. devThread' \in 0 .. MaxServers /\ srv' \in 0 .. made
    BY <1>4, SurfacesAssumption DEF SurfacesTypeOK
  <1>6. fault' \in {"none", "terminate", "dangling"}
    BY DEF MainStep, DevtoolsStarted, Exit, DevtoolsStop, DevtoolsJoin, DevtoolsReset, ClosePanel,
           StaticDestructors, Replace, SurfacesTypeOK
  <1>7. devRunning' \in BOOLEAN /\ raced' \in BOOLEAN
    BY DEF MainStep, DevtoolsStarted, Exit, DevtoolsStop, DevtoolsJoin, DevtoolsReset, ClosePanel,
           StaticDestructors, devVars, SurfacesTypeOK
  <1>8. /\ object' \in [Objects -> {"none", "made", "bound", "listening", "closing",
                                   "closed", "gone"}]
        /\ (srv' # 0 => object'[srv'] # "gone")
    <2>1. CASE DevtoolsStarted \/ Exit \/ DevtoolsJoin \/ ClosePanel
      BY <2>1 DEF DevtoolsStarted, Exit, DevtoolsJoin, ClosePanel, devVars, SurfacesTypeOK
    <2>2. CASE DevtoolsStop
      BY <1>2, <2>2 DEF DevtoolsStop, SurfacesTypeOK
    <2>3. CASE DevtoolsReset
      BY <1>2, <2>3 DEF DevtoolsReset, Replace, Destroyed, SurfacesTypeOK
    <2>4. CASE StaticDestructors
      BY <1>2, <2>4 DEF StaticDestructors, Replace, Destroyed, SurfacesTypeOK
    <2> QED
      BY <2>1, <2>2, <2>3, <2>4 DEF MainStep
  <1> QED
    BY <1>1, <1>3, <1>5, <1>6, <1>7, <1>8 DEF SurfacesTypeOK

\* Every step keeps the inductive invariant.
LEMMA SurfacesKept ==
  ASSUME SurfacesIInv, [NextSurfaces]_surfaceVars
  PROVE  SurfacesIInv'
  <1>1. ASSUME NEW t \in Threads, WriteUart1(t) \/ Start(t) PROVE SurfacesIInv'
    BY <1>1, StartKeeps
  <1>2. ASSUME NEW k \in Objects, ServerThread(k) PROVE SurfacesIInv'
    BY <1>2, ServerThreadTypes, ServerThreadKeeps DEF SurfacesIInv
  <1>3. CASE MirrorStep
    BY <1>3, MirrorTypes, MirrorKeeps DEF SurfacesIInv
  <1>4. CASE MainStep
    BY <1>4, MainTypes, MainKeeps DEF SurfacesIInv
  <1>5. CASE UNCHANGED surfaceVars
    BY <1>5 DEF surfaceVars, devVars, mirrorVars, SurfacesIInv, SurfacesTypeOK, InTurn, Mirrored,
                NoViewer, Starting, Down, Up, Stopped, Only, Unused, NoServer
  <1> QED
    BY <1>1, <1>2, <1>3, <1>4, <1>5 DEF NextSurfaces, Shutdown, Background, MirrorStep, MainStep

\* However the threads of start_server(), stop() and the two servers interleave: without a
\* race devtools faults nowhere, and no mirror request outlives the panel.
THEOREM SurfacesInvariant == SpecSurfaces => []SurfacesInv
  <1>1. SurfacesIInv /\ [NextSurfaces]_surfaceVars => SurfacesIInv'
    BY SurfacesKept
  <1> QED
    BY SurfacesInit, <1>1, SurfacesShows, PTL DEF SpecSurfaces
==============================================================================
