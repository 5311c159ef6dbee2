----------------------------- MODULE MqttSession -----------------------------
(***************************************************************************)
(* PubSubClient (runtime/src/sim_mqtt.cpp) over WiFiClient (sim_wifi.cpp): *)
(* one thread, the sketch's, connects, publishes and polls with loop();    *)
(* the broker is external and answers, publishes, falls silent or closes   *)
(* as it likes.                                                            *)
(*                                                                         *)
(* A packet is a header, a length and, for most types, a body; TCP         *)
(* delivers these units one by one.  recv_packet() reads a unit a step.    *)
(* It recomputes its time budget as deadline_ms - (millis() - start) in    *)
(* unsigned arithmetic: a read that comes back after the deadline leaves a *)
(* budget of 49 days to the next one, "endless" here.                      *)
(***************************************************************************)
EXTENDS Naturals, Sequences

CONSTANTS
  MaxConns,    \* bound on TCP connections
  MaxAsks,     \* bound on CONNECT packets per connection
  MaxMsgs,     \* bound on messages the broker publishes, over all connections
  MaxOther     \* bound on its other packets (PINGRESP, SUBACK ...)

ASSUME MqttAssumption ==
  {MaxConns, MaxAsks, MaxMsgs, MaxOther} \subseteq Nat /\ MaxAsks > 0

VARIABLES
  net,         \* sim_net_mode(): "real", "fake", "fail"
  state,       \* state_
  fd,          \* the socket of WiFiClient is open
  fake,        \* fake_connected_
  at,          \* the sketch thread: "sketch", in loop() "drain", "callback", "ping",
               \* or in recv_packet() "hdr", "len", "body"
  caller,      \* who called recv_packet(): "connect", "loop"
  budget,      \* its time budget: "left", "endless"
  type,        \* the packet type it has read
  wire,        \* units that have arrived and were not read
  out,         \* units the broker has still to send
  up,          \* the broker's end is open
  reset,       \* something was sent to an end that was closed
  asked,       \* CONNECT packets on this connection
  answered,    \* and those the broker has answered
  conns, msgs, other,   \* connections, messages and other packets so far
  accepted,    \* history: the broker has accepted a CONNECT of this connection
  sent,        \* history: the messages it has published on this connection
  got,         \* history: those the callback has had
  skipped,     \* history: those connect() took for its answer
  cut          \* history: recv_packet() gave up in the middle of a packet

clientVars == <<state, fd, fake, at, caller, budget, type>>
brokerVars == <<out, up, answered, msgs, other, accepted, sent>>
linkVars == <<wire, reset, asked, conns>>
histVars == <<got, skipped, cut>>
vars == <<net, clientVars, brokerVars, linkVars, histVars>>

Types == {"connack", "refusal", "publish", "other"}

Unit(part, t, id) == [part |-> part, type |-> t, id |-> id]

\* A packet of the broker, cut where the client may have to wait.
Packet(t, id) ==
  IF t = "other" THEN <<Unit("hdr", t, id), Unit("len", t, id)>>
  ELSE <<Unit("hdr", t, id), Unit("len", t, id), Unit("body", t, id)>>

Init ==
  /\ net \in {"real", "fake", "fail"}
  /\ state = "disconnected" /\ fd = FALSE /\ fake = FALSE
  /\ at = "sketch" /\ caller = "loop" /\ budget = "left" /\ type = "other"
  /\ wire = <<>> /\ out = <<>> /\ up = FALSE /\ reset = FALSE
  /\ asked = 0 /\ answered = 0 /\ conns = 0 /\ msgs = 0 /\ other = 0
  /\ accepted = FALSE /\ sent = <<>> /\ got = <<>> /\ skipped = {} /\ cut = FALSE

\* WiFiClient::connected(): the socket is there, whatever became of the other end.
TcpConnected == fd \/ fake

\* WiFiClient::write(): with no socket it pretends; a closed end answers the first packet
\* with a reset and only the next one fails.
CanSend == ~fd \/ up \/ ~reset
CanFail == fd /\ ~up /\ reset
ResetBySend == reset' = (reset \/ (fd /\ ~up))

\* The connection is dropped by stop(); what was in flight goes with it.
Hangup ==
  /\ fd' = FALSE /\ fake' = FALSE
  /\ wire' = <<>> /\ out' = <<>> /\ up' = FALSE

-----------------------------------------------------------------------------
(* connect()                                                               *)

\* CONNECT is on its way; the thread waits for the answer.
Await ==
  /\ at' = "hdr" /\ caller' = "connect" /\ budget' = "left"
  /\ UNCHANGED <<state, type>>

\* Nothing new is opened while the socket is there: a retry goes to the same connection.
ConnectAgain ==
  /\ at = "sketch" /\ TcpConnected /\ asked < MaxAsks
  /\ \/ /\ CanSend /\ ResetBySend /\ Await
        /\ asked' = asked + 1
     \/ /\ CanFail
        /\ state' = "failed"
        /\ UNCHANGED <<at, caller, budget, type, asked, reset>>
  /\ UNCHANGED <<net, fd, fake, wire, conns, brokerVars, histVars>>

ConnectFails ==
  /\ at = "sketch" /\ ~TcpConnected /\ net # "fake"
  /\ state' = "failed"
  /\ UNCHANGED <<net, fd, fake, at, caller, budget, type, brokerVars, linkVars, histVars>>

ConnectFake ==
  /\ at = "sketch" /\ ~TcpConnected /\ net = "fake" /\ conns < MaxConns
  /\ fake' = TRUE /\ conns' = conns + 1 /\ asked' = 1
  /\ Await
  /\ UNCHANGED <<net, fd, wire, reset, brokerVars, histVars>>

ConnectNew ==
  /\ at = "sketch" /\ ~TcpConnected /\ net = "real" /\ conns < MaxConns
  /\ fd' = TRUE /\ up' = TRUE /\ conns' = conns + 1
  /\ wire' = <<>> /\ out' = <<>> /\ reset' = FALSE
  /\ asked' = 1 /\ answered' = 0 /\ accepted' = FALSE
  /\ sent' = <<>> /\ got' = <<>> /\ skipped' = {} /\ cut' = FALSE
  /\ Await
  /\ UNCHANGED <<net, fake, msgs, other>>

Connect == ConnectAgain \/ ConnectFails \/ ConnectFake \/ ConnectNew

-----------------------------------------------------------------------------
(* The other calls: between two of its own, or from the callback           *)

Disconnect ==
  /\ at \in {"sketch", "callback"} /\ state' = "disconnected"
  /\ IF TcpConnected THEN Hangup ELSE UNCHANGED <<fd, fake, wire, out, up>>
  /\ UNCHANGED <<net, at, caller, budget, type, answered, msgs, other, accepted, sent,
                 reset, asked, conns, histVars>>

\* Mutant of Publish: a packet that could not be sent is not noticed.
Publish_IgnoresFailure ==
  /\ at \in {"sketch", "callback"} /\ state = "connected"
  /\ (CanSend \/ CanFail) /\ ResetBySend
  /\ UNCHANGED <<net, clientVars, brokerVars, wire, asked, conns, histVars>>

\* publish(), subscribe() and unsubscribe(): state_ is looked at, the socket is not.
Publish ==
  /\ at \in {"sketch", "callback"} /\ state = "connected"
  /\ \/ CanSend /\ ResetBySend /\ UNCHANGED state
     \/ CanFail /\ state' = "lost" /\ UNCHANGED reset
  /\ UNCHANGED <<net, fd, fake, at, caller, budget, type, brokerVars, wire, asked, conns,
                 histVars>>

\* connected(), and the first lines of loop(), when the socket is gone.
Notice ==
  /\ at = "sketch" /\ state = "connected" /\ ~TcpConnected
  /\ state' = "lost"
  /\ UNCHANGED <<net, fd, fake, at, caller, budget, type, brokerVars, linkVars, histVars>>

-----------------------------------------------------------------------------
(* loop()                                                                  *)

LoopCall ==
  /\ at = "sketch" /\ state = "connected" /\ TcpConnected
  /\ at' = "drain"
  /\ UNCHANGED <<net, state, fd, fake, caller, budget, type, brokerVars, linkVars, histVars>>

\* While something is available a whole packet is waited for.
Drain ==
  /\ at = "drain"
  /\ IF fd /\ wire # <<>>
       THEN at' = "hdr" /\ caller' = "loop" /\ budget' = "left"
       ELSE at' = "ping" /\ UNCHANGED <<caller, budget>>
  /\ UNCHANGED <<net, state, fd, fake, type, brokerVars, linkVars, histVars>>

\* The keepalive may be due; whether its packet could be sent is not looked at.
Ping ==
  /\ at = "ping"
  /\ at' = "sketch"
  /\ ResetBySend \/ UNCHANGED reset
  /\ UNCHANGED <<net, state, fd, fake, caller, budget, type, brokerVars, wire, asked,
                 conns, histVars>>

CallbackReturns ==
  /\ at = "callback"
  /\ at' = "drain"
  /\ UNCHANGED <<net, state, fd, fake, caller, budget, type, brokerVars, linkVars, histVars>>

-----------------------------------------------------------------------------
(* recv_packet()                                                           *)

\* A read that succeeded may have outlived the deadline.
SpendBudget == budget' \in {budget, "endless"}

\* The locals of recv_packet() end with it.
Leave == caller' = "loop" /\ budget' = "left" /\ type' = "other"

ReadHeader ==
  /\ at = "hdr" /\ fd /\ wire # <<>>
  /\ type' \in IF Head(wire).part = "hdr" THEN {Head(wire).type} ELSE Types
  /\ wire' = Tail(wire)
  /\ at' = "len" /\ SpendBudget
  /\ UNCHANGED <<net, state, fd, fake, caller, brokerVars, reset, asked, conns, histVars>>

\* Mutant of Answer: the return code of a CONNACK is not looked at.
Answer_IgnoresCode(full) ==
  /\ at' = "sketch"
  /\ state' = IF full /\ type \in {"connack", "refusal"} THEN "connected" ELSE "failed"
  /\ wire' = Tail(wire)
  /\ UNCHANGED <<fd, fake, out, up>>

\* connect() has a packet: a CONNACK that accepts, one that refuses, or none.
Answer(full) ==
  /\ at' = "sketch"
  /\ IF full /\ type = "refusal"
       THEN state' = "refused" /\ Hangup
       ELSE /\ state' = IF full /\ type = "connack" THEN "connected" ELSE "failed"
            /\ wire' = Tail(wire)
            /\ UNCHANGED <<fd, fake, out, up>>

\* dispatch_inbound(): a message goes to the callback, anything else is ignored.
Dispatch(id, full) ==
  /\ IF full /\ type = "publish"
       THEN at' = "callback" /\ got' = IF cut THEN got ELSE Append(got, id)
       ELSE at' = "drain" /\ UNCHANGED got
  /\ wire' = Tail(wire)
  /\ UNCHANGED <<state, fd, fake, out, up, skipped>>

\* The last unit of a packet, which has a body if it is full, has been read.
Finish(id, full) ==
  IF caller = "loop" THEN Dispatch(id, full)
  ELSE /\ Answer(full)
       /\ skipped' = IF type = "publish" THEN skipped \cup {id} ELSE skipped
       /\ UNCHANGED got

\* What a length says: no body follows, or one does.  Other bytes can say anything.
EmptyBody(u) == IF u.part = "len" THEN {u.type = "other"} ELSE BOOLEAN

\* recv_packet() is given up: connect() says so and leaves the socket open, loop() goes on
\* to its keepalive.  What was read of the packet is lost.
Abandon ==
  /\ cut' = (cut \/ at # "hdr")
  /\ IF caller = "connect"
       THEN at' = "sketch" /\ state' = "timeout"
       ELSE at' = "ping" /\ UNCHANGED state
  /\ Leave

\* Bytes that are no length at all.
Malformed ==
  /\ at = "len" /\ fd /\ wire # <<>> /\ Head(wire).part # "len"
  /\ wire' = Tail(wire)
  /\ Abandon
  /\ UNCHANGED <<net, fd, fake, brokerVars, reset, asked, conns, got, skipped>>

ReadLength ==
  /\ at = "len" /\ fd /\ wire # <<>>
  /\ \E empty \in EmptyBody(Head(wire)) :
       IF empty THEN Finish(Head(wire).id, FALSE) /\ Leave
       ELSE /\ at' = "body" /\ wire' = Tail(wire) /\ SpendBudget
            /\ UNCHANGED <<state, fd, fake, out, up, got, skipped, caller, type>>
  /\ UNCHANGED <<net, answered, msgs, other, accepted, sent, reset, asked,
                 conns, cut>>

ReadBody ==
  /\ at = "body" /\ fd /\ wire # <<>>
  /\ Finish(Head(wire).id, TRUE) /\ Leave
  /\ UNCHANGED <<net, answered, msgs, other, accepted, sent, reset,
                 asked, conns, cut>>

\* recv() returns 0: WiFiClient drops the socket, recv_packet() spins on.
ReadEof ==
  /\ at \in {"hdr", "len", "body"} /\ fd /\ wire = <<>> /\ ~up
  /\ fd' = FALSE
  /\ UNCHANGED <<net, state, fake, at, caller, budget, type, brokerVars, linkVars, histVars>>

\* Mutant of GiveUp: only connect() looks at the clock.
GiveUp_ConnectOnly ==
  /\ at \in {"hdr", "len", "body"} /\ budget = "left" /\ caller = "connect"
  /\ Abandon
  /\ UNCHANGED <<net, fd, fake, brokerVars, linkVars, got, skipped>>

\* The budget is used up.
GiveUp ==
  /\ at \in {"hdr", "len", "body"} /\ budget = "left"
  /\ Abandon
  /\ UNCHANGED <<net, fd, fake, brokerVars, linkVars, got, skipped>>

Receive == ReadHeader \/ ReadLength \/ Malformed \/ ReadBody \/ ReadEof \/ GiveUp

-----------------------------------------------------------------------------
(* The broker and the network                                              *)

Deliver ==
  /\ up /\ out # <<>>
  /\ wire' = Append(wire, Head(out)) /\ out' = Tail(out)
  /\ UNCHANGED <<net, clientVars, up, answered, msgs, other, accepted, sent, reset, asked,
                 conns, histVars>>

BrokerAnswers ==
  /\ up /\ answered < asked
  /\ answered' = answered + 1
  /\ \E yes \in BOOLEAN :
       /\ out' = out \o Packet(IF yes THEN "connack" ELSE "refusal", 0)
       /\ accepted' = (accepted \/ yes)
  /\ UNCHANGED <<net, clientVars, up, msgs, other, sent, linkVars, histVars>>

BrokerPublishes ==
  /\ up /\ accepted /\ msgs < MaxMsgs
  /\ msgs' = msgs + 1
  /\ out' = out \o Packet("publish", msgs + 1) /\ sent' = Append(sent, msgs + 1)
  /\ UNCHANGED <<net, clientVars, up, answered, other, accepted, linkVars, histVars>>

BrokerChats ==
  /\ up /\ accepted /\ other < MaxOther
  /\ other' = other + 1
  /\ out' = out \o Packet("other", 0)
  /\ UNCHANGED <<net, clientVars, up, answered, msgs, accepted, sent, linkVars, histVars>>

BrokerCloses ==
  /\ up
  /\ up' = FALSE /\ out' = <<>>
  /\ UNCHANGED <<net, clientVars, answered, msgs, other, accepted, sent, linkVars, histVars>>

Broker == Deliver \/ BrokerAnswers \/ BrokerPublishes \/ BrokerChats \/ BrokerCloses

-----------------------------------------------------------------------------
Loop == LoopCall \/ Drain \/ Ping \/ CallbackReturns

Next == Connect \/ Disconnect \/ Publish \/ Notice \/ Loop \/ Receive \/ Broker

Spec == Init /\ [][Next]_vars

\* The sketch's loop() calls loop() and publishes for ever, the callback returns, deadlines
\* pass, and TCP delivers.  The broker owes nothing.
FairSpec ==
  /\ Spec
  /\ WF_vars(Notice) /\ WF_vars(Receive) /\ WF_vars(Drain) /\ WF_vars(Ping)
  /\ WF_vars(CallbackReturns) /\ SF_vars(LoopCall) /\ SF_vars(Publish) /\ WF_vars(Deliver)

-----------------------------------------------------------------------------
(* Properties                                                              *)

States == {"disconnected", "connected", "failed", "timeout", "refused", "lost"}
Units == [part : {"hdr", "len", "body"}, type : Types, id : 0..MaxMsgs]

\* Every variable holds a value of its type.
MqttTypeOK ==
  /\ net \in {"real", "fake", "fail"} /\ state \in States
  /\ {fd, fake, up, reset, accepted, cut} \subseteq BOOLEAN
  /\ at \in {"sketch", "drain", "callback", "ping", "hdr", "len", "body"}
  /\ caller \in {"connect", "loop"} /\ budget \in {"left", "endless"} /\ type \in Types
  /\ wire \in Seq(Units) /\ out \in Seq(Units)
  /\ asked \in 0..MaxAsks /\ answered \in 0..asked /\ conns \in 0..MaxConns
  /\ msgs \in 0..MaxMsgs /\ other \in 0..MaxOther
  /\ sent \in Seq(1..MaxMsgs) /\ got \in Seq(0..MaxMsgs) /\ skipped \subseteq 0..MaxMsgs

\* As long as recv_packet() has not given up inside a packet, packet boundaries are the
\* broker's: the callback gets the messages of this connection in order, once each, and
\* misses only those that an overlapping connect() took for its answer.
MessagesInOrder ==
  \A i \in 1..Len(got) :
    /\ \E k \in 1..Len(sent) : sent[k] = got[i]
    /\ \A j \in 1..Len(got) : i < j => got[i] < got[j]
    /\ \A k \in 1..Len(sent) :
         sent[k] < got[i] => sent[k] \in skipped \/ \E j \in 1..i : got[j] = sent[k]

ConnectedIsAccepted ==
  at \in {"sketch", "callback"} /\ state = "connected" /\ fd /\ ~cut => accepted

\* Every variable keeps its type, messages come in order, and a client that says it is
\* connected was accepted by the broker on the socket it has, whatever timed out, was
\* refused or was retried on that socket before.
MqttInv == MqttTypeOK /\ MessagesInOrder /\ ConnectedIsAccepted

\* connect() and loop() return, unless a late read has wrapped the time budget and the
\* packet never becomes complete (the broker is gone, or the packet was misread).
CallsReturn == (at # "sketch") ~> (at = "sketch" \/ (budget = "endless" /\ (~up \/ cut)))

\* A sketch that publishes and polls finds out that the broker is gone, or has reconnected.
LostIsNoticed ==
  (state = "connected" /\ ~up) ~> (state # "connected" \/ up \/ budget = "endless")
=============================================================================
