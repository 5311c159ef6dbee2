------------------------------ MODULE OtaPush ------------------------------
(***************************************************************************)
(* An over-the-air push: `boardghost ota push` (crates/boardghost-cli/src/ *)
(* ota.rs), one process per push, against the receiver that the sketch's   *)
(* ArduinoOTA.handle() is (runtime/src/sim_ota.cpp).  An invite, a         *)
(* challenge and its answer travel in UDP datagrams that may be lost; the  *)
(* receiver then connects back over TCP and pulls the image into Update    *)
(* (UpdateSession).                                                        *)
(*                                                                         *)
(* handle() blocks the sketch; each recvfrom(), connect() and recv() is a  *)
(* step, and so is the timeout of each.  Pushers run, time out and die at  *)
(* their own pace.  A digest of a challenge is represented by the number   *)
(* of the challenge and whether the password was right.                    *)
(*                                                                         *)
(* A sketch may also never call handle() and feed Update itself, from HTTP *)
(* for example, with any sequence of calls: device is "sketch" then.       *)
(***************************************************************************)
EXTENDS UpdateSession, FiniteSets

CONSTANTS
  Pushers,     \* the pushes
  Image,       \* the firmware of each
  Knows        \* the pushers that know the receiver's password

ASSUME OtaAssumption ==
  /\ IsFiniteSet(Pushers) /\ Knows \subseteq Pushers
  /\ Image \in [Pushers -> Seq(Blocks)]

VARIABLES
  auth,        \* the receiver has a password
  device,     \* where handle() is: "loop", "auth", "dial", "begin", "md5", "recv";
              \* or "sketch"
  peer,       \* invite_from, and the pusher at the other end of the TCP connection
  nonce,      \* challenges sent so far
  got,        \* bytes handle() counts as received
  inbox,      \* datagrams that wait at the receiver
  push,       \* where each pusher is
  reply,      \* datagrams that wait at each pusher
  wire,       \* firmware in flight on each pusher's connection
  tosend,     \* firmware each pusher has not written yet
  conn,       \* each pusher's TCP connection: "none", "open", "ok" (final OK sent), "closed"
  installed   \* history: pushers whose image end() has accepted

deviceVars == <<device, peer, nonce, got>>
pushVars == <<push, tosend>>
netVars == <<inbox, reply, wire, conn>>
otaVars == <<auth, deviceVars, pushVars, netVars, installed, updateVars>>

NoPeer == "nobody"
Invite(p) == [kind |-> "invite", from |-> p, nonce |-> 0, right |-> FALSE]
Answer(p, n) == [kind |-> "answer", from |-> p, nonce |-> n, right |-> p \in Knows]
Challenge(n) == <<"AUTH", n>>
Granted == <<"OK", 0>>
Denied == <<"Authentication Failed", 0>>

InitOta ==
  /\ UpdateInit
  /\ auth \in BOOLEAN
  /\ device \in {"loop", "sketch"} /\ peer = NoPeer /\ nonce = 0 /\ got = 0
  /\ inbox = <<>>
  /\ push = [p \in Pushers |-> "new"] /\ tosend = Image
  /\ reply = [p \in Pushers |-> <<>>] /\ wire = [p \in Pushers |-> <<>>]
  /\ conn = [p \in Pushers |-> "none"]
  /\ installed = {}

\* A datagram arrives or is lost.
SendTo(q, d) == {q, Append(q, d)}
ToDevice(d) == inbox' \in SendTo(inbox, d)
ToPusher(p, d) == \E q \in SendTo(reply[p], d) : reply' = [reply EXCEPT ![p] = q]

Listening(p) == push[p] \in {"reply", "auth", "accept"}

-----------------------------------------------------------------------------
(* The pusher                                                              *)

PushGoto(p, pc) == push' = [push EXCEPT ![p] = pc]

\* (Without handle() nobody answers, and nothing of the push reaches Update.)
SendInvite(p) ==
  /\ push[p] = "new" /\ device # "sketch"
  /\ ToDevice(Invite(p)) /\ PushGoto(p, "reply")
  /\ UNCHANGED <<deviceVars, tosend, reply, wire, conn, installed, updateVars>>

\* The first reply is a challenge, an OK, or a refusal.
GetReply(p) ==
  /\ push[p] = "reply" /\ reply[p] # <<>>
  /\ reply' = [reply EXCEPT ![p] = Tail(@)]
  /\ LET r == Head(reply[p]) IN
       IF r[1] = "AUTH" THEN ToDevice(Answer(p, r[2])) /\ PushGoto(p, "auth")
       ELSE PushGoto(p, IF r = Granted THEN "accept" ELSE "failed") /\ UNCHANGED inbox
  /\ UNCHANGED <<deviceVars, tosend, wire, conn, installed, updateVars>>

GetAuthResult(p) ==
  /\ push[p] = "auth" /\ reply[p] # <<>>
  /\ reply' = [reply EXCEPT ![p] = Tail(@)]
  /\ PushGoto(p, IF Head(reply[p]) = Granted THEN "accept" ELSE "failed")
  /\ UNCHANGED <<deviceVars, tosend, inbox, wire, conn, installed, updateVars>>

Accept(p) ==
  /\ push[p] = "accept" /\ conn[p] # "none"
  /\ PushGoto(p, "stream")
  /\ UNCHANGED <<deviceVars, tosend, netVars, installed, updateVars>>

\* Into the socket's buffer, whether or not the other end still reads.
StreamBlock(p) ==
  /\ push[p] = "stream" /\ tosend[p] # <<>>
  /\ wire' = [wire EXCEPT ![p] = IF conn[p] = "open" THEN Append(@, Head(tosend[p])) ELSE @]
  /\ tosend' = [tosend EXCEPT ![p] = Tail(@)]
  /\ UNCHANGED <<deviceVars, push, inbox, reply, conn, installed, updateVars>>

\* Mutant of AwaitEnd: whatever ends the connection ends the push well.
AwaitEnd_Optimistic(p) ==
  /\ push[p] = "stream" /\ tosend[p] = <<>> /\ conn[p] \in {"ok", "closed"}
  /\ PushGoto(p, "ok")
  /\ UNCHANGED <<deviceVars, tosend, netVars, installed, updateVars>>

\* read_to_string(): the closing OK, or the connection closed without it.
AwaitEnd(p) ==
  /\ push[p] = "stream" /\ tosend[p] = <<>> /\ conn[p] \in {"ok", "closed"}
  /\ PushGoto(p, IF conn[p] = "ok" THEN "ok" ELSE "failed")
  /\ UNCHANGED <<deviceVars, tosend, netVars, installed, updateVars>>

\* A timeout, a write to a closed connection, or the end of the process.
PusherGivesUp(p) ==
  /\ push[p] \in {"reply", "auth", "accept", "stream"}
  /\ PushGoto(p, "failed")
  /\ UNCHANGED <<deviceVars, tosend, netVars, installed, updateVars>>

-----------------------------------------------------------------------------
(* handle(): the invite and the challenge                                  *)

\* A datagram that is no invite, or an invite without firmware: nothing is sent back.
IgnoreDatagram ==
  /\ device = "loop" /\ inbox # <<>>
  /\ Head(inbox).kind # "invite" \/ Image[Head(inbox).from] = <<>>
  /\ inbox' = Tail(inbox)
  /\ UNCHANGED <<deviceVars, pushVars, reply, wire, conn, installed, updateVars>>

TakeInvite ==
  /\ device = "loop" /\ inbox # <<>>
  /\ Head(inbox).kind = "invite" /\ Image[Head(inbox).from] # <<>>
  /\ inbox' = Tail(inbox) /\ peer' = Head(inbox).from
  /\ IF auth
       THEN /\ nonce' = nonce + 1 /\ device' = "auth"
            /\ ToPusher(peer', Challenge(nonce'))
       ELSE /\ device' = "dial" /\ ToPusher(peer', Granted)
            /\ UNCHANGED nonce
  /\ UNCHANGED <<got, pushVars, wire, conn, installed, updateVars>>

AnswerRight(d) == d.kind = "answer" /\ d.from = peer /\ d.nonce = nonce /\ d.right

\* Whatever datagram comes next, from anyone, is taken for the answer.
TakeAnswer ==
  /\ device = "auth" /\ inbox # <<>>
  /\ inbox' = Tail(inbox)
  /\ IF AnswerRight(Head(inbox))
       THEN device' = "dial" /\ ToPusher(peer, Granted)
       ELSE device' = "loop" /\ ToPusher(peer, Denied)
  /\ UNCHANGED <<peer, nonce, got, pushVars, wire, conn, installed, updateVars>>

\* Mutant of AuthTimeout: the receiver waits until an answer comes.
AuthTimeout_Never == FALSE /\ UNCHANGED otaVars

AuthTimeout ==
  /\ device = "auth" /\ inbox = <<>>
  /\ device' = "loop" /\ ToPusher(peer, Denied)
  /\ UNCHANGED <<peer, nonce, got, pushVars, inbox, wire, conn, installed, updateVars>>

-----------------------------------------------------------------------------
(* handle(): the connection and the image                                  *)

Dial ==
  /\ device = "dial" /\ Listening(peer)
  /\ device' = "begin" /\ conn' = [conn EXCEPT ![peer] = "open"]
  /\ UNCHANGED <<peer, nonce, got, pushVars, inbox, reply, wire, installed, updateVars>>

DialFails ==
  /\ device = "dial" /\ ~Listening(peer)
  /\ device' = "loop"
  /\ UNCHANGED <<peer, nonce, got, pushVars, netVars, installed, updateVars>>

HangUp(end) == device' = "loop" /\ conn' = [conn EXCEPT ![peer] = end]

OtaBegin ==
  /\ device = "begin"
  /\ Begin(Len(Image[peer]))
  /\ got' = 0
  /\ IF last'.ok THEN device' = "md5" /\ UNCHANGED conn ELSE HangUp("closed")
  /\ UNCHANGED <<peer, nonce, pushVars, inbox, reply, wire, installed>>

OtaSetMD5 ==
  /\ device = "md5"
  /\ SetMD5(Image[peer])
  /\ device' = "recv"
  /\ UNCHANGED <<peer, nonce, got, pushVars, netVars, installed>>

\* Mutant of Received: the bytes read are counted, not the bytes written.
Received_Read(n) == n

\* What a chunk of n bytes adds to the count.
Received(n) == last'.n

RecvChunk ==
  /\ device = "recv" /\ got < Len(Image[peer]) /\ wire[peer] # <<>> /\ ~error
  /\ \E n \in 1..Len(wire[peer]) :
       /\ Write(SubSeq(wire[peer], 1, n))
       /\ wire' = [wire EXCEPT ![peer] = SubSeq(@, n + 1, Len(@))]
       /\ got' = got + Received(n)
  /\ UNCHANGED <<device, peer, nonce, pushVars, inbox, reply, conn, installed>>

\* A write error, the peer gone, or thirty seconds without a byte.
RecvFails ==
  /\ device = "recv"
  /\ error \/ (got < Len(Image[peer]) /\ wire[peer] = <<>>)
  /\ Abort
  /\ HangUp("closed")
  /\ UNCHANGED <<peer, nonce, got, pushVars, inbox, reply, wire, installed>>

OtaEnd ==
  /\ device = "recv" /\ got >= Len(Image[peer]) /\ ~error
  /\ End(TRUE)
  /\ IF last'.ok
       THEN HangUp("ok") /\ installed' = installed \cup {peer}
       ELSE HangUp("closed") /\ UNCHANGED installed
  /\ UNCHANGED <<peer, nonce, got, pushVars, inbox, reply, wire>>

-----------------------------------------------------------------------------
(* A sketch that updates itself                                            *)

OwnCall ==
  /\ device = "sketch"
  /\ UpdateNext
  /\ UNCHANGED <<auth, deviceVars, pushVars, netVars, installed>>

-----------------------------------------------------------------------------

Pusher(p) ==
  /\ \/ GetReply(p) \/ GetAuthResult(p) \/ Accept(p) \/ StreamBlock(p)
     \/ AwaitEnd(p) \/ PusherGivesUp(p)
  /\ UNCHANGED auth

Handle ==
  /\ \/ IgnoreDatagram \/ TakeInvite \/ TakeAnswer \/ AuthTimeout \/ Dial
     \/ DialFails \/ OtaBegin \/ OtaSetMD5 \/ RecvChunk \/ RecvFails \/ OtaEnd
  /\ UNCHANGED auth

NextOta ==
  \/ Handle
  \/ OwnCall
  \/ \E p \in Pushers : Pusher(p) \/ (SendInvite(p) /\ UNCHANGED auth)

SpecOta == InitOta /\ [][NextOta]_otaVars

\* loop() calls handle() again and again, its waits are all bounded by a timeout, and so
\* are the pusher's.
FairOta == WF_otaVars(Handle) /\ \A p \in Pushers : WF_otaVars(Pusher(p))

FairSpecOta == SpecOta /\ FairOta

-----------------------------------------------------------------------------
(* Properties                                                              *)

\* Every variable holds a value of its type.
OtaTypeOK ==
  /\ UpdateTypeOK /\ auth \in BOOLEAN
  /\ device \in {"loop", "auth", "dial", "begin", "md5", "recv", "sketch"}
  /\ peer \in Pushers \cup {NoPeer} /\ nonce \in Nat /\ got \in Nat
  /\ push \in [Pushers -> {"new", "reply", "auth", "accept", "stream", "ok", "failed"}]
  /\ conn \in [Pushers -> {"none", "open", "ok", "closed"}]
  /\ wire \in [Pushers -> Seq(Blocks)] /\ tosend \in [Pushers -> Seq(Blocks)]
  /\ \A i \in 1..Len(inbox) : inbox[i] \in {Invite(p) : p \in Pushers}
                                \cup {Answer(p, n) : p \in Pushers, n \in 1..nonce}
  /\ installed \subseteq Pushers

\* When `ota push` reports that the device accepted, end() has accepted this pusher's own
\* image, whoever else was pushing and whatever was lost on the way.
OkMeansInstalled == \A p \in Pushers : push[p] = "ok" => p \in installed

\* A receiver with a password dials back, and takes firmware from, only a peer that
\* proved to know it for this very challenge.
OnlyKnownPeers == auth /\ device \in {"dial", "begin", "md5", "recv"} => peer \in Knows

\* Between pushes no Update session is left open, which would refuse every later one, and
\* the file, if there is one, is the whole image of a push that was accepted.  handle()
\* does not abort() after an end() that failed: when the file could not be read back, the
\* whole image of the rejected push stays.  A part of an image stays only when the file
\* could not be removed.
LeftFileComplete ==
  device = "loop" =>
    /\ ~fd
    /\ exists => \/ fault = "none" /\ \E p \in installed : data = Image[p]
                 \/ fault = "misread" /\ \E p \in Pushers : data = Image[p]
                 \/ fault = "kept"

\* Between pushes no session is left, nor a partial image that could be removed
\* (sim_ota.cpp), firmware comes only from a peer that knows the password, and every
\* variable keeps its type.
OtaInv == OtaTypeOK /\ LeftFileComplete /\ OnlyKnownPeers

\* handle() always gets back to the sketch's loop: every wait in it ends.
HandleReturns == (device \notin {"loop", "sketch"}) ~> (device = "loop")

=============================================================================
