--------------------------- MODULE OtaPush_proofs ----------------------------
(***************************************************************************)
(* An update session, whoever makes its calls, and the ArduinoOTA receiver *)
(* with its pushers, which makes the calls of a session.                   *)
(***************************************************************************)
EXTENDS OtaPush, SequenceTheorems, TLAPS

------------------------------------------------------------------------------
(***************************************************************************)
(* UpdateInv is an invariant of UpdateSession for every set of blocks,     *)
(* every length of image, and a disk that may or may not fail.  The        *)
(* ArduinoOTA receiver makes the same calls, so that the lemmas on single  *)
(* calls hold for it as well.                                              *)
(***************************************************************************)

\* What of `bytes` reaches the file is appended to it.
LEMMA AppendedPart ==
  ASSUME NEW d \in Seq(Blocks), NEW bytes \in Seq(Blocks),
         NEW k \in 0 .. Len(bytes)
  PROVE  /\ d \o SubSeq(bytes, 1, k) \in Seq(Blocks)
         /\ Len(d \o SubSeq(bytes, 1, k)) = Len(d) + k
  OBVIOUS

\* A stream's budget is part of what the stream holds.
LEMMA BudgetBound ==
  ASSUME UpdateTypeOK, NEW bytes \in Seq(Blocks)
  PROVE  StreamBudget(bytes) \in 0 .. Len(bytes)
  BY DEF UpdateTypeOK, StreamBudget, Least

LEMMA AcceptedBound ==
  ASSUME NEW n \in Nat, NEW k \in Accepted(n)
  PROVE  k \in 0 .. n
  BY UpdateAssumption DEF Accepted

\* An image that the sketch passes is a sequence of blocks.
LEMMA ImageIsSequence ==
  ASSUME NEW s \in Images
  PROVE  s \in Seq(Blocks)
  BY DEF Images

Results == [op : Ops, ok : BOOLEAN, n : Nat, arg : Nat]

LEMMA CallResult ==
  ASSUME NEW op \in Ops, NEW ok \in BOOLEAN, NEW n \in Nat, NEW arg \in Nat,
         Call(op, ok, n, arg)
  PROVE  last' \in Results
  BY DEF Call, Results

-----------------------------------------------------------------------------
LEMMA InitUpdateInv == UpdateInit => UpdateInv
  <1> SUFFICES ASSUME UpdateInit PROVE UpdateInv
    OBVIOUS
  <1> USE DEF UpdateInit
  <1>1. UpdateTypeOK
    <2>1. last \in Results
      BY DEF Results, Ops
    <2>2. data \in Seq(Blocks)
      OBVIOUS
    <2> QED
      BY <2>1, <2>2 DEF UpdateTypeOK, Results
  <1>2. SessionConsistent /\ ProgressIsFileLength
    BY DEF SessionConsistent, ProgressIsFileLength
  <1>3. TrueEndVerified /\ FailureIsVisible
    BY DEF TrueEndVerified, FailureIsVisible
  <1> QED
    BY <1>1, <1>2, <1>3 DEF UpdateInv

LEMMA BeginStep ==
  ASSUME UpdateInv, NEW size \in Nat, Begin(size)
  PROVE  UpdateInv'
  <1> USE DEF UpdateInv, UpdateTypeOK, Call, Ops
  <1>1. CASE BeginRefused(size)
    <2>1. UpdateTypeOK'
      BY <1>1 DEF BeginRefused
    <2>2. SessionConsistent' /\ ProgressIsFileLength'
      BY <1>1 DEF BeginRefused, SessionConsistent, ProgressIsFileLength
    <2>3. TrueEndVerified' /\ FailureIsVisible'
      BY <1>1 DEF BeginRefused, TrueEndVerified, FailureIsVisible
    <2> QED
      BY <2>1, <2>2, <2>3 DEF UpdateInv
  <1>2. CASE BeginFresh(size)
    <2>1. UpdateTypeOK'
      <3>1. last' \in Results
        BY <1>2, CallResult DEF BeginFresh
      <3>2. data' = <<>> \/ data' = data
        BY <1>2 DEF BeginFresh
      <3>3. data' \in Seq(Blocks)
        <4>1. data \in Seq(Blocks) /\ <<>> \in Seq(Blocks)
          OBVIOUS
        <4> QED
          BY <3>2, <4>1
      <3> QED
        BY <1>2, <3>1, <3>3 DEF BeginFresh, Results
    <2>2. SessionConsistent' /\ ProgressIsFileLength'
      BY <1>2 DEF BeginFresh, SessionConsistent, ProgressIsFileLength
    <2>3. TrueEndVerified' /\ FailureIsVisible'
      BY <1>2 DEF BeginFresh, TrueEndVerified, FailureIsVisible
    <2> QED
      BY <2>1, <2>2, <2>3 DEF UpdateInv
  <1> QED
    BY <1>1, <1>2 DEF Begin

LEMMA WriteStep ==
  ASSUME UpdateInv, NEW bytes \in Seq(Blocks), Write(bytes)
  PROVE  UpdateInv'
  <1> USE DEF UpdateInv, UpdateTypeOK
  <1>1. /\ fd' = fd /\ path' = path /\ finished' = finished /\ expected' = expected
        /\ md5' = md5 /\ exists' = exists /\ fault' = fault /\ armed' = armed
        /\ last'.op = "write" /\ last' \in Results
        /\ error' \in BOOLEAN /\ data' \in Seq(Blocks) /\ written' \in Nat
        /\ fd => written' = Len(data')
    <2>1. CASE ~fd \/ bytes = <<>>
      <3>1. last' \in Results
        BY <2>1, CallResult, Len(bytes) \in Nat DEF Write, Ops
      <3> QED
        BY <2>1, <3>1 DEF Write, Call, ProgressIsFileLength
    <2>2. CASE ~(~fd \/ bytes = <<>>)
      <3>1. ASSUME NEW k \in Accepted(Len(bytes)) \ {0},
                   data' = data \o SubSeq(bytes, 1, k), written' = written + k,
                   last' = [op |-> "write", ok |-> TRUE, n |-> k, arg |-> Len(bytes)],
                   UNCHANGED error
            PROVE  /\ last'.op = "write"
                   /\ last' \in Results
                   /\ error' \in BOOLEAN /\ data' \in Seq(Blocks) /\ written' \in Nat
                   /\ fd => written' = Len(data')
        <4>1. k \in 0 .. Len(bytes)
          BY <3>1, AcceptedBound
        <4>2. data' \in Seq(Blocks) /\ Len(data') = Len(data) + k
          BY <3>1, <4>1, AppendedPart
        <4>3. last' \in Results
          BY <3>1, <4>1, Len(bytes) \in Nat DEF Ops, Results
        <4>4. written = Len(data)
          BY <2>2 DEF ProgressIsFileLength
        <4>5. written' \in Nat /\ written' = Len(data')
          BY <3>1, <4>1, <4>2, <4>4
        <4> QED
          BY <3>1, <4>2, <4>3, <4>5
      <3>2. ASSUME error' = TRUE, UNCHANGED <<data, written>>,
                   last' = [op |-> "write", ok |-> FALSE, n |-> 0, arg |-> Len(bytes)]
            PROVE  /\ last'.op = "write"
                   /\ last' \in Results
                   /\ error' \in BOOLEAN /\ data' \in Seq(Blocks) /\ written' \in Nat
                   /\ fd => written' = Len(data')
        BY <3>2 DEF Ops, Results, ProgressIsFileLength
      <3> QED
        BY <2>2, <3>1, <3>2 DEF Write, Call
    <2> QED
      BY <2>1, <2>2
  <1>2. SessionConsistent' /\ ProgressIsFileLength'
    BY <1>1 DEF SessionConsistent, ProgressIsFileLength
  <1>3. TrueEndVerified' /\ FailureIsVisible'
    BY <1>1 DEF TrueEndVerified, FailureIsVisible
  <1> QED
    BY <1>1, <1>2, <1>3 DEF Results

LEMMA WriteStreamStep ==
  ASSUME UpdateInv, NEW bytes \in Seq(Blocks), WriteStream(bytes)
  PROVE  UpdateInv'
  <1> USE DEF UpdateInv, UpdateTypeOK
  <1>1. /\ fd' = fd /\ path' = path /\ finished' = finished /\ expected' = expected
        /\ md5' = md5 /\ exists' = exists /\ fault' = fault /\ armed' = armed
        /\ last'.op = "stream" /\ last' \in Results
        /\ error' \in BOOLEAN /\ data' \in Seq(Blocks) /\ written' \in Nat
        /\ fd => written' = Len(data')
    <2>1. CASE ~fd
      <3>1. last' \in Results
        BY <2>1, CallResult, Len(bytes) \in Nat DEF WriteStream, Ops
      <3> QED
        BY <2>1, <3>1 DEF WriteStream, Call
    <2>2. CASE fd
      <3>1. PICK k \in Accepted(StreamBudget(bytes)) :
              /\ data' = data \o SubSeq(bytes, 1, k) /\ written' = written + k
              /\ error' = (error \/ k < StreamBudget(bytes))
              /\ last' = [op |-> "stream", ok |-> TRUE, n |-> 0, arg |-> Len(bytes)]
        BY <2>2 DEF WriteStream, Call
      <3>2. StreamBudget(bytes) \in 0 .. Len(bytes)
        BY BudgetBound
      <3>3. k \in 0 .. Len(bytes)
        BY <3>2, AcceptedBound
      <3>4. data' \in Seq(Blocks) /\ Len(data') = Len(data) + k
        BY <3>1, <3>3, AppendedPart
      <3>5. last' \in Results /\ last'.op = "stream"
        BY <3>1 DEF Ops, Results
      <3>6. error' \in BOOLEAN
        BY <3>1
      <3>7. written' \in Nat /\ written' = Len(data')
        <4>1. written = Len(data)
          BY <2>2 DEF ProgressIsFileLength
        <4>2. written' = written + k
          BY <3>1
        <4> QED
          BY <4>1, <4>2, <3>3, <3>4
      <3> QED
        BY <3>4, <3>5, <3>6, <3>7 DEF WriteStream
    <2> QED
      BY <2>1, <2>2
  <1>2. SessionConsistent' /\ ProgressIsFileLength'
    BY <1>1 DEF SessionConsistent, ProgressIsFileLength
  <1>3. TrueEndVerified' /\ FailureIsVisible'
    BY <1>1 DEF TrueEndVerified, FailureIsVisible
  <1> QED
    BY <1>1, <1>2, <1>3 DEF Results

LEMMA EndStep ==
  ASSUME UpdateInv, NEW force \in BOOLEAN, End(force)
  PROVE  UpdateInv'
  <1> USE DEF UpdateInv, UpdateTypeOK, Call, Ops
  <1>1. CASE EndWithoutBegin
    <2>1. UpdateTypeOK'
      BY <1>1 DEF EndWithoutBegin
    <2>2. SessionConsistent' /\ ProgressIsFileLength'
      BY <1>1 DEF EndWithoutBegin, SessionConsistent, ProgressIsFileLength
    <2>3. TrueEndVerified' /\ FailureIsVisible'
      BY <1>1 DEF EndWithoutBegin, TrueEndVerified, FailureIsVisible
    <2> QED
      BY <2>1, <2>2, <2>3
  <1>2. CASE EndOpen(force)
    <2>1. UpdateTypeOK'
      BY <1>2 DEF EndOpen
    <2>2. SessionConsistent' /\ ProgressIsFileLength'
      BY <1>2 DEF EndOpen, SessionConsistent, ProgressIsFileLength
    <2>3. FailureIsVisible'
      BY <1>2 DEF EndOpen, FailureIsVisible
    <2>4. TrueEndVerified'
      <3> SUFFICES ASSUME last'.ok
                   PROVE  /\ ~fd' /\ ~error' /\ exists'
                          /\ expected' > 0 /\ last'.arg = 0 => Len(data') = expected'
                          /\ md5' # NoMd5 => armed' /\ (data' = md5' \/ fault' = "misread")
        BY DEF TrueEndVerified
      <3>1. PICK actual : /\ error' = (error \/ SizeWrong(force) \/ Md5Wrong(actual))
                          /\ fault' = IF actual = data THEN "none" ELSE "misread"
        BY <1>2 DEF EndOpen
      <3>2. ~error'
        BY <1>2 DEF EndOpen
      <3>3. ~SizeWrong(force) /\ ~Md5Wrong(actual)
        BY <3>1, <3>2
      <3>4. ~fd' /\ exists' /\ UNCHANGED <<md5, data, armed>>
        BY <1>2 DEF EndOpen, SessionConsistent
      <3>5. md5' # NoMd5 => armed' /\ (data' = md5' \/ fault' = "misread")
        BY <3>1, <3>3, <3>4 DEF Md5Wrong, SessionConsistent
      <3>6. expected' > 0 /\ last'.arg = 0 => Len(data') = expected'
        BY <1>2, <3>3 DEF EndOpen, SizeWrong, ProgressIsFileLength
      <3> QED
        BY <3>2, <3>4, <3>5, <3>6
    <2> QED
      BY <2>1, <2>2, <2>3, <2>4
  <1> QED
    BY <1>1, <1>2 DEF End

LEMMA AbortStep ==
  ASSUME UpdateInv, Abort
  PROVE  UpdateInv'
  <1> USE DEF UpdateInv, UpdateTypeOK
  <1>1. /\ fd' = FALSE /\ error' = TRUE /\ finished' = TRUE
        /\ last'.op = "abort" /\ last' \in Results
        /\ UNCHANGED <<path, written, expected, md5, armed>>
    <2>1. last' \in Results
      BY CallResult DEF Abort, Ops
    <2> QED
      BY <2>1 DEF Abort, Call
  <1>2. /\ exists' \in BOOLEAN /\ fault' \in {"none", "misread", "kept"}
        /\ data' = <<>> \/ data' = data
    BY DEF Abort
  <1>3. data' \in Seq(Blocks)
    <2>1. data \in Seq(Blocks) /\ <<>> \in Seq(Blocks)
      OBVIOUS
    <2> QED
      BY <1>2, <2>1
  <1>4. UpdateTypeOK'
    BY <1>1, <1>2, <1>3 DEF Results
  <1>5. SessionConsistent' /\ ProgressIsFileLength'
    BY <1>1 DEF SessionConsistent, ProgressIsFileLength
  <1>6. TrueEndVerified' /\ FailureIsVisible'
    BY <1>1 DEF TrueEndVerified, FailureIsVisible
  <1> QED
    BY <1>4, <1>5, <1>6

LEMMA SetMD5Step ==
  ASSUME UpdateInv, NEW m \in Seq(Blocks) \cup {NoMd5}, SetMD5(m)
  PROVE  UpdateInv'
  <1> USE DEF UpdateInv, UpdateTypeOK, SetMD5, Call, Ops
  <1>1. UpdateTypeOK'
    OBVIOUS
  <1>2. SessionConsistent' /\ ProgressIsFileLength'
    BY DEF SessionConsistent, ProgressIsFileLength
  <1>3. TrueEndVerified' /\ FailureIsVisible'
    BY DEF TrueEndVerified, FailureIsVisible
  <1> QED
    BY <1>1, <1>2, <1>3

LEMMA UpdateInvStep == UpdateInv /\ [UpdateNext]_updateVars => UpdateInv'
  <1> SUFFICES ASSUME UpdateInv, [UpdateNext]_updateVars PROVE UpdateInv'
    OBVIOUS
  <1>1. ASSUME NEW size \in 0 .. MaxLen, Begin(size) PROVE UpdateInv'
    BY <1>1, BeginStep, UpdateAssumption
  <1>2. ASSUME NEW s \in Images, Write(s) PROVE UpdateInv'
    BY <1>2, WriteStep, ImageIsSequence
  <1>3. ASSUME NEW s \in Images, WriteStream(s) PROVE UpdateInv'
    BY <1>3, WriteStreamStep, ImageIsSequence
  <1>4. ASSUME NEW force \in BOOLEAN, End(force) PROVE UpdateInv'
    BY <1>4, EndStep
  <1>5. ASSUME NEW m \in Images \cup {NoMd5}, SetMD5(m) PROVE UpdateInv'
    BY <1>5, SetMD5Step, ImageIsSequence
  <1>6. CASE UNCHANGED updateVars
    BY <1>6 DEF updateVars, UpdateInv, UpdateTypeOK, SessionConsistent,
                ProgressIsFileLength, TrueEndVerified, FailureIsVisible
  <1> QED
    BY <1>1, <1>2, <1>3, <1>4, <1>5, <1>6, AbortStep DEF UpdateNext

-----------------------------------------------------------------------------
\* Whatever calls are made in whatever order, the session, its file and the result of the
\* last call agree.
THEOREM UpdateInvariant == UpdateSpec => []UpdateInv
  <1> QED
    BY InitUpdateInv, UpdateInvStep, PTL DEF UpdateSpec

\* An end() that returns true has verified the file against everything that was declared
\* for this session, as far as the file could be read back.
THEOREM TrueEnd == UpdateSpec => []TrueEndVerified
  <1>1. UpdateInv => TrueEndVerified
    BY DEF UpdateInv
  <1> QED
    BY <1>1, UpdateInvariant, PTL

\* progress() is the length of the file for as long as the session is open.
THEOREM Progress == UpdateSpec => []ProgressIsFileLength
  <1>1. UpdateInv => ProgressIsFileLength
    BY DEF UpdateInv
  <1> QED
    BY <1>1, UpdateInvariant, PTL

\* No begin() and no end() fails without hasError() saying so.
THEOREM Failures == UpdateSpec => []FailureIsVisible
  <1>1. UpdateInv => FailureIsVisible
    BY DEF UpdateInv
  <1> QED
    BY <1>1, UpdateInvariant, PTL

------------------------------------------------------------------------------
(***************************************************************************)
(* OtaInv and OkMeansInstalled for any number of pushers, any images and   *)
(* passwords, lost datagrams, pushers that die, and a disk that may fail.  *)
(*                                                                         *)
(* That the file left behind is complete is decided while it is received:  *)
(* what the receiver has counted, what is in flight and what the pusher    *)
(* still holds never exceed the image, and as long as nothing was lost     *)
(* they are the image.  That needs a connection of which nothing was read  *)
(* before: a pusher is dialled once, because it invites once.              *)
(***************************************************************************)

Datagrams(n) ==
  {Invite(p) : p \in Pushers} \cup {Answer(p, k) : p \in Pushers, k \in 1 .. n}

Replies(n) == {Challenge(k) : k \in 1 .. n} \cup {Granted, Denied}

\* The types that OtaTypeOK does not say: what is in the mail.
MailOK ==
  /\ inbox \in Seq(Datagrams(nonce))
  /\ reply \in [Pushers -> Seq(Replies(nonce))]

Invites(i) == i \in 1 .. Len(inbox) /\ inbox[i].kind = "invite"

Engaged == device \in {"auth", "dial", "begin", "md5", "recv"}
Pulling == device \in {"begin", "md5", "recv"}

\* A pusher invites once and is dialled once: its invite is not sent yet, or is one
\* datagram, or is taken.
InvitedOnce ==
  /\ \A i, j \in 1 .. Len(inbox) :
       Invites(i) /\ Invites(j) /\ inbox[i].from = inbox[j].from => i = j
  /\ \A i \in 1 .. Len(inbox) :
       Invites(i) => /\ conn[inbox[i].from] = "none"
                     /\ push[inbox[i].from] # "new"
                     /\ ~(Engaged /\ peer = inbox[i].from)
  /\ \A p \in Pushers : push[p] = "new" => conn[p] = "none" /\ ~(Engaged /\ peer = p)

\* The receiver has a connection exactly while it pulls, and to its peer.
Connections ==
  /\ Engaged => peer \in Pushers
  /\ device \in {"auth", "dial"} => conn[peer] = "none"
  /\ \A p \in Pushers : conn[p] = "open" <=> Pulling /\ p = peer
  /\ \A p \in Pushers : conn[p] = "ok" \/ push[p] = "ok" => p \in installed

Unread(p) == wire[p] \o tosend[p]

\* Nothing of an image has left its pusher before it is dialled.
Untouched ==
  \A p \in Pushers :
    conn[p] = "none" => /\ push[p] \notin {"stream", "ok"}
                        /\ tosend[p] = Image[p] /\ wire[p] = <<>>

\* What is in the file and what is still to come.
Transfer ==
  /\ device = "begin" => Unread(peer) = Image[peer]
  /\ device = "md5" => /\ fd /\ path /\ data = <<>> /\ got = 0
                       /\ Unread(peer) = Image[peer]
  /\ device = "recv" =>
       /\ fd /\ path /\ md5 = Image[peer] /\ got = Len(data)
       /\ got + Len(Unread(peer)) <= Len(Image[peer])
       /\ got + Len(Unread(peer)) = Len(Image[peer]) => data \o Unread(peer) = Image[peer]

Whole ==
  exists => \/ fault = "none" /\ \E p \in installed : data = Image[p]
            \/ fault = "misread" /\ \E p \in Pushers : data = Image[p]
            \/ fault = "kept"

\* Until the next begin() there is the file of an earlier push, or none.
NoSession == device \in {"loop", "auth", "dial", "begin"} => ~fd /\ Whole

OtaIInv ==
  /\ UpdateInv /\ OtaTypeOK /\ MailOK
  /\ InvitedOnce /\ Connections /\ Untouched /\ Transfer /\ NoSession /\ OnlyKnownPeers

-----------------------------------------------------------------------------
(* Mail                                                                    *)

LEMMA AppendIs ==
  ASSUME NEW S, NEW s \in Seq(S), NEW e \in S
  PROVE  /\ Append(s, e) \in Seq(S)
         /\ Len(Append(s, e)) = Len(s) + 1
         /\ Append(s, e)[Len(s) + 1] = e
         /\ \A i \in 1 .. Len(s) : Append(s, e)[i] = s[i]
  OBVIOUS

LEMMA TailIs ==
  ASSUME NEW S, NEW s \in Seq(S), s # <<>>
  PROVE  /\ Head(s) \in S /\ Head(s) = s[1] /\ Len(s) \in Nat \ {0}
         /\ Tail(s) \in Seq(S)
         /\ Len(Tail(s)) = Len(s) - 1
         /\ \A i \in 1 .. Len(s) - 1 : Tail(s)[i] = s[i + 1]
  OBVIOUS

\* An element that moves from the head of one queue to the end of the one before it.
LEMMA HeadMoves ==
  ASSUME NEW S, NEW s \in Seq(S), NEW t \in Seq(S), t # <<>>
  PROVE  Append(s, Head(t)) \o Tail(t) = s \o t
  <1>1. Head(t) \in S /\ Tail(t) \in Seq(S) /\ <<Head(t)>> \in Seq(S)
    BY TailIs
  <1>2. <<Head(t)>> \o Tail(t) = t
    <2>1. /\ <<Head(t)>> \o Tail(t) \in Seq(S)
          /\ Len(<<Head(t)>> \o Tail(t)) = Len(t)
          /\ \A i \in 1 .. Len(t) : (<<Head(t)>> \o Tail(t))[i] = t[i]
      BY <1>1, TailIs, ConcatProperties
    <2> QED
      BY <2>1, SeqEqual
  <1>3. Append(s, Head(t)) = s \o <<Head(t)>>
    BY <1>1, AppendIsConcat
  <1>4. (s \o <<Head(t)>>) \o Tail(t) = s \o (<<Head(t)>> \o Tail(t))
    BY <1>1, ConcatAssociative
  <1> QED
    BY <1>2, <1>3, <1>4

\* A datagram names who sent it, and an answer says the truth about its sender.
LEMMA DatagramIs ==
  ASSUME NEW n \in Nat, NEW d \in Datagrams(n)
  PROVE  /\ d.from \in Pushers
         /\ d.kind \in {"invite", "answer"}
         /\ d.right => d.from \in Knows
  <1>1. CASE \E p \in Pushers : d = Invite(p)
    BY <1>1 DEF Invite
  <1>2. ASSUME NEW p \in Pushers, NEW k \in 1 .. n, d = Answer(p, k)
        PROVE  d.from = p /\ d.kind = "answer" /\ (d.right <=> p \in Knows)
    BY <1>2 DEF Answer
  <1> QED
    BY <1>1, <1>2 DEF Datagrams

\* The mail of fewer challenges is mail of more.
LEMMA MailGrows ==
  ASSUME NEW n \in Nat
  PROVE  Datagrams(n) \subseteq Datagrams(n + 1) /\ Replies(n) \subseteq Replies(n + 1)
  BY DEF Datagrams, Replies

\* Whether a datagram is lost or not, the receiver's mail is in order.
LEMMA ToDeviceKeeps ==
  ASSUME MailOK, nonce \in Nat, NEW d \in Datagrams(nonce), ToDevice(d)
  PROVE  /\ inbox' \in Seq(Datagrams(nonce))
         /\ \A i \in 1 .. Len(inbox') :
              \/ i \in 1 .. Len(inbox) /\ inbox'[i] = inbox[i]
              \/ i = Len(inbox) + 1 /\ inbox'[i] = d
  <1>1. CASE inbox' = inbox
    BY <1>1 DEF MailOK
  <1>2. CASE inbox' = Append(inbox, d)
    <2>1. inbox \in Seq(Datagrams(nonce))
      BY DEF MailOK
    <2>2. /\ inbox' \in Seq(Datagrams(nonce)) /\ Len(inbox') = Len(inbox) + 1
          /\ inbox'[Len(inbox) + 1] = d
          /\ \A i \in 1 .. Len(inbox) : inbox'[i] = inbox[i]
      BY <1>2, <2>1, AppendIs
    <2>3. Len(inbox) \in Nat
      BY <2>1
    <2> QED
      BY <2>2, <2>3
  <1> QED
    BY <1>1, <1>2 DEF ToDevice, SendTo

LEMMA ToPusherKeeps ==
  ASSUME NEW n \in Nat, reply \in [Pushers -> Seq(Replies(n))], NEW p \in Pushers,
         NEW d \in Replies(n), ToPusher(p, d)
  PROVE  reply' \in [Pushers -> Seq(Replies(n))]
  <1>1. PICK q \in SendTo(reply[p], d) : reply' = [reply EXCEPT ![p] = q]
    BY DEF ToPusher
  <1>2. q \in Seq(Replies(n))
    BY <1>1, AppendIs DEF SendTo
  <1> QED
    BY <1>1, <1>2

-----------------------------------------------------------------------------
(* The initial states                                                      *)

LEMMA InitOtaIInv == InitOta => OtaIInv
  <1> SUFFICES ASSUME InitOta PROVE OtaIInv
    OBVIOUS
  <1> USE DEF InitOta
  <1>1. UpdateInv
    BY InitUpdateInv
  <1>2. UpdateTypeOK
    BY <1>1 DEF UpdateInv
  <1>3. OtaTypeOK
    BY <1>2, OtaAssumption DEF OtaTypeOK
  <1>4. MailOK
    BY DEF MailOK
  <1>5. InvitedOnce /\ Connections
    BY DEF InvitedOnce, Connections, Invites, Engaged, Pulling
  <1>6. Untouched /\ Transfer /\ OnlyKnownPeers
    BY DEF Untouched, Transfer, OnlyKnownPeers
  <1>7. NoSession
    BY DEF NoSession, Whole, UpdateInit
  <1> QED
    BY <1>1, <1>3, <1>4, <1>5, <1>6, <1>7 DEF OtaIInv

-----------------------------------------------------------------------------
(* The pusher                                                              *)

LEMMA UpdateSame ==
  ASSUME UpdateInv, UNCHANGED updateVars
  PROVE  UpdateInv' /\ UpdateTypeOK'
  BY DEF updateVars, UpdateInv, UpdateTypeOK, SessionConsistent, ProgressIsFileLength,
         TrueEndVerified, FailureIsVisible

\* What a step of a pusher leaves alone.
LEMMA PusherKeeps ==
  ASSUME OtaIInv, UNCHANGED <<auth, deviceVars, installed, updateVars>>
  PROVE  /\ UpdateInv' /\ UpdateTypeOK' /\ NoSession' /\ OnlyKnownPeers'
         /\ Engaged' = Engaged /\ Pulling' = Pulling
  BY UpdateSame DEF OtaIInv, deviceVars, updateVars, NoSession, Whole, OnlyKnownPeers,
     Engaged, Pulling

LEMMA SendInviteStep ==
  ASSUME OtaIInv, NEW p \in Pushers, SendInvite(p), UNCHANGED auth
  PROVE  OtaIInv'
  <1> USE DEF OtaIInv
  <1>1. /\ push[p] = "new" /\ push' = [push EXCEPT ![p] = "reply"]
        /\ ToDevice(Invite(p))
        /\ UNCHANGED <<auth, deviceVars, tosend, reply, wire, conn, installed, updateVars>>
        /\ UNCHANGED <<device, peer, nonce, got, fd, path, md5, data>>
        /\ \A q \in Pushers : push'[q] = IF q = p THEN "reply" ELSE push[q]
        /\ push' \in [Pushers -> {"new", "reply", "auth", "accept", "stream", "ok", "failed"}]
    BY DEF SendInvite, PushGoto, deviceVars, updateVars, OtaTypeOK
  <1>2. /\ UpdateInv' /\ UpdateTypeOK' /\ NoSession' /\ OnlyKnownPeers'
        /\ Engaged' = Engaged /\ Pulling' = Pulling
    BY <1>1, PusherKeeps
  <1>3. nonce \in Nat /\ Invite(p) \in Datagrams(nonce)
    BY DEF OtaTypeOK, Datagrams
  <1>4. /\ inbox' \in Seq(Datagrams(nonce))
        /\ \A i \in 1 .. Len(inbox') :
             \/ i \in 1 .. Len(inbox) /\ inbox'[i] = inbox[i]
             \/ i = Len(inbox) + 1 /\ inbox'[i] = Invite(p)
    BY <1>1, <1>3, ToDeviceKeeps
  <1>5. MailOK'
    BY <1>1, <1>4 DEF MailOK
  <1>6. OtaTypeOK'
    <2>1. \A i \in 1 .. Len(inbox') : inbox'[i] \in Datagrams(nonce)
      BY <1>4
    <2> QED
      BY <1>1, <1>2, <2>1 DEF OtaTypeOK, Datagrams
  <1>7. InvitedOnce'
    <2>1. \A i \in 1 .. Len(inbox) : Invites(i) => inbox[i].from # p
      BY <1>1 DEF InvitedOnce
    <2>2. Invite(p).from = p /\ Invite(p).kind = "invite"
      BY DEF Invite
    <2>3. ASSUME NEW i \in 1 .. Len(inbox'), Invites(i)'
          PROVE  \/ Invites(i) /\ inbox'[i] = inbox[i] /\ inbox[i].from # p
                 \/ i = Len(inbox) + 1 /\ inbox'[i].from = p
      BY <1>4, <2>1, <2>2, <2>3 DEF Invites
    <2>4. conn[p] = "none" /\ ~(Engaged /\ peer = p)
      BY <1>1 DEF InvitedOnce
    <2>5. ASSUME NEW i \in 1 .. Len(inbox'), Invites(i)',
                 NEW j \in 1 .. Len(inbox'), Invites(j)', inbox'[i].from = inbox'[j].from
          PROVE  i = j
      <3>1. CASE Invites(i)
        BY <2>3, <2>5, <3>1 DEF InvitedOnce, Invites
      <3> QED
        BY <2>3, <2>5 DEF InvitedOnce, Invites
    <2>6. ASSUME NEW i \in 1 .. Len(inbox'), Invites(i)'
          PROVE  /\ conn'[inbox'[i].from] = "none"
                 /\ push'[inbox'[i].from] # "new"
                 /\ ~(Engaged' /\ peer' = inbox'[i].from)
      <3>1. inbox'[i] \in Datagrams(nonce) /\ inbox'[i].from \in Pushers
        BY <1>3, <1>4, DatagramIs
      <3> QED
        BY <1>1, <1>2, <2>3, <2>4, <2>6, <3>1 DEF InvitedOnce, Invites
    <2>7. \A q \in Pushers : push'[q] = "new" => conn'[q] = "none" /\ ~(Engaged' /\ peer' = q)
      BY <1>1, <1>2 DEF InvitedOnce
    <2> QED
      BY <2>5, <2>6, <2>7 DEF InvitedOnce
  <1>8. Connections'
    BY <1>1, <1>2 DEF Connections
  <1>9. Untouched'
    BY <1>1 DEF Untouched
  <1>10. Transfer'
    BY <1>1 DEF Transfer, Unread
  <1> QED
    BY <1>2, <1>5, <1>6, <1>7, <1>8, <1>9, <1>10

PushStates == {"new", "reply", "auth", "accept", "stream", "ok", "failed"}

\* What a pusher that has invited may change in its own place and mail.
LEMMA PusherMoves ==
  ASSUME OtaIInv, NEW p \in Pushers, push[p] # "new",
         NEW pc \in PushStates \ {"new"}, push' = [push EXCEPT ![p] = pc],
         MailOK', UNCHANGED <<auth, deviceVars, conn, installed, updateVars>>,
         \A i \in 1 .. Len(inbox') : Invites(i)' => Invites(i) /\ inbox'[i] = inbox[i]
  PROVE  /\ UpdateInv' /\ UpdateTypeOK' /\ NoSession' /\ OnlyKnownPeers' /\ InvitedOnce'
         /\ push' \in [Pushers -> PushStates]
         /\ \A q \in Pushers : push'[q] = IF q = p THEN pc ELSE push[q]
         /\ (pc = "ok" => conn[p] = "ok") => Connections'
         /\ \A i \in 1 .. Len(inbox') : inbox'[i] \in Datagrams(nonce)
         /\ UNCHANGED <<device, peer, nonce, got, fd, path, md5, data>>
  <1> USE DEF OtaIInv
  <1>1. /\ UNCHANGED <<device, peer, nonce, got, fd, path, md5, data>>
        /\ \A q \in Pushers : push'[q] = IF q = p THEN pc ELSE push[q]
        /\ push' \in [Pushers -> PushStates]
    BY DEF deviceVars, updateVars, OtaTypeOK, PushStates
  <1>2. /\ UpdateInv' /\ UpdateTypeOK' /\ NoSession' /\ OnlyKnownPeers'
        /\ Engaged' = Engaged /\ Pulling' = Pulling
    BY PusherKeeps
  <1>3. \A i \in 1 .. Len(inbox') : inbox'[i] \in Datagrams(nonce)
    BY <1>1 DEF MailOK
  <1>4. InvitedOnce'
    <2>1. \A i, j \in 1 .. Len(inbox') :
            Invites(i)' /\ Invites(j)' /\ inbox'[i].from = inbox'[j].from => i = j
      BY DEF InvitedOnce, Invites
    <2>2. ASSUME NEW i \in 1 .. Len(inbox'), Invites(i)'
          PROVE  /\ conn'[inbox'[i].from] = "none"
                 /\ push'[inbox'[i].from] # "new"
                 /\ ~(Engaged' /\ peer' = inbox'[i].from)
      <3>1. inbox'[i].from \in Pushers /\ Invites(i) /\ inbox'[i] = inbox[i]
        BY <1>3, <2>2, DatagramIs DEF OtaTypeOK
      <3>2. i \in 1 .. Len(inbox)
        BY <3>1 DEF Invites
      <3> QED
        BY <1>1, <1>2, <3>1, <3>2 DEF InvitedOnce
    <2>3. \A q \in Pushers : push'[q] = "new" => conn'[q] = "none" /\ ~(Engaged' /\ peer' = q)
      BY <1>1, <1>2 DEF InvitedOnce
    <2> QED
      BY <2>1, <2>2, <2>3 DEF InvitedOnce
  <1>5. ASSUME pc = "ok" => conn[p] = "ok" PROVE Connections'
    BY <1>1, <1>2, <1>5 DEF Connections
  <1> QED
    BY <1>1, <1>2, <1>3, <1>4, <1>5

LEMMA TypeMoves ==
  ASSUME OtaIInv, UpdateTypeOK', UNCHANGED <<auth, deviceVars, conn, installed>>,
         push' \in [Pushers -> PushStates],
         \A i \in 1 .. Len(inbox') : inbox'[i] \in Datagrams(nonce),
         wire' \in [Pushers -> Seq(Blocks)], tosend' \in [Pushers -> Seq(Blocks)]
  PROVE  OtaTypeOK'
  <1>1. UNCHANGED <<device, peer, nonce, got>>
    BY DEF deviceVars
  <1>2. \A i \in 1 .. Len(inbox') :
          inbox'[i] \in {Invite(p) : p \in Pushers}
                          \cup {Answer(p, n) : p \in Pushers, n \in 1 .. nonce'}
    BY <1>1 DEF Datagrams
  <1> QED
    BY <1>1, <1>2 DEF OtaIInv, OtaTypeOK, PushStates

\* A reply is taken from the pusher's mail.
LEMMA ReplyTaken ==
  ASSUME OtaIInv, NEW p \in Pushers, reply[p] # <<>>,
         reply' = [reply EXCEPT ![p] = Tail(@)]
  PROVE  reply' \in [Pushers -> Seq(Replies(nonce))] /\ Head(reply[p]) \in Replies(nonce)
  BY TailIs DEF OtaIInv, MailOK

LEMMA GetReplyStep ==
  ASSUME OtaIInv, NEW p \in Pushers, GetReply(p), UNCHANGED auth
  PROVE  OtaIInv'
  <1> DEFINE r == Head(reply[p])
             pc == IF r[1] = "AUTH" THEN "auth" ELSE IF r = Granted THEN "accept" ELSE "failed"
  <1>1. /\ push[p] = "reply" /\ push' = [push EXCEPT ![p] = pc]
        /\ IF r[1] = "AUTH" THEN ToDevice(Answer(p, r[2])) ELSE UNCHANGED inbox
        /\ UNCHANGED <<auth, deviceVars, tosend, wire, conn, installed, updateVars>>
        /\ pc \in PushStates \ {"new", "ok", "stream"} /\ nonce' = nonce /\ nonce \in Nat
    BY DEF GetReply, PushGoto, PushStates, deviceVars, OtaIInv, OtaTypeOK
  <1>2. reply' \in [Pushers -> Seq(Replies(nonce))] /\ r \in Replies(nonce)
    BY ReplyTaken DEF GetReply
  <1>3. /\ inbox' \in Seq(Datagrams(nonce))
        /\ \A i \in 1 .. Len(inbox') : Invites(i)' => Invites(i) /\ inbox'[i] = inbox[i]
    <2>1. CASE r[1] = "AUTH"
      <3>1. r[2] \in 1 .. nonce
        <4>1. r # Granted /\ r # Denied
          <5>1. Granted[1] = "OK" /\ Denied[1] = "Authentication Failed"
            BY DEF Granted, Denied
          <5> QED
            BY <2>1, <5>1
        <4>2. PICK k \in 1 .. nonce : r = <<"AUTH", k>>
          BY <1>2, <4>1 DEF Replies, Challenge
        <4> QED
          BY <4>2
      <3>2. Answer(p, r[2]) \in Datagrams(nonce) /\ Answer(p, r[2]).kind # "invite"
        BY <3>1 DEF Datagrams, Answer
      <3>3. MailOK
        BY DEF OtaIInv
      <3> QED
        BY <1>1, <2>1, <3>2, <3>3, ToDeviceKeeps DEF Invites
    <2>2. CASE r[1] # "AUTH"
      BY <1>1, <2>2 DEF OtaIInv, MailOK, Invites
    <2> QED
      BY <2>1, <2>2
  <1>4. MailOK'
    BY <1>1, <1>2, <1>3 DEF MailOK
  <1>5. /\ UpdateInv' /\ UpdateTypeOK' /\ NoSession' /\ OnlyKnownPeers' /\ InvitedOnce'
        /\ push' \in [Pushers -> PushStates]
        /\ \A q \in Pushers : push'[q] = IF q = p THEN pc ELSE push[q]
        /\ Connections'
        /\ \A i \in 1 .. Len(inbox') : inbox'[i] \in Datagrams(nonce)
        /\ UNCHANGED <<device, peer, nonce, got, fd, path, md5, data>>
    <2> HIDE DEF pc
    <2> QED
      BY <1>1, <1>3, <1>4, PusherMoves
  <1>6. OtaTypeOK'
    <2>1. wire' \in [Pushers -> Seq(Blocks)] /\ tosend' \in [Pushers -> Seq(Blocks)]
      BY <1>1 DEF OtaIInv, OtaTypeOK
    <2> QED
      BY <1>1, <1>5, <2>1, TypeMoves
  <1>7. Untouched' /\ Transfer'
    <2> HIDE DEF pc
    <2>1. Untouched'
      BY <1>1, <1>5 DEF OtaIInv, Untouched
    <2>2. Transfer'
      BY <1>1, <1>5 DEF OtaIInv, Transfer, Unread
    <2> QED
      BY <2>1, <2>2
  <1> QED
    BY <1>4, <1>5, <1>6, <1>7 DEF OtaIInv

\* A pusher that goes on without sending anything.
LEMMA PusherGoesOn ==
  ASSUME OtaIInv, NEW p \in Pushers, push[p] # "new", NEW pc \in PushStates \ {"new"},
         PushGoto(p, pc), reply' \in [Pushers -> Seq(Replies(nonce))],
         pc = "stream" => conn[p] # "none", pc = "ok" => conn[p] = "ok",
         UNCHANGED <<auth, deviceVars, tosend, inbox, wire, conn, installed, updateVars>>
  PROVE  OtaIInv'
  <1>1. push' = [push EXCEPT ![p] = pc] /\ MailOK' /\ nonce' = nonce
    BY DEF PushGoto, MailOK, OtaIInv, deviceVars
  <1>2. \A i \in 1 .. Len(inbox') : Invites(i)' => Invites(i) /\ inbox'[i] = inbox[i]
    BY DEF Invites
  <1>3. /\ UpdateInv' /\ UpdateTypeOK' /\ NoSession' /\ OnlyKnownPeers' /\ InvitedOnce'
        /\ push' \in [Pushers -> PushStates]
        /\ \A q \in Pushers : push'[q] = IF q = p THEN pc ELSE push[q]
        /\ Connections'
        /\ \A i \in 1 .. Len(inbox') : inbox'[i] \in Datagrams(nonce)
        /\ UNCHANGED <<device, peer, nonce, got, fd, path, md5, data>>
    BY <1>1, <1>2, PusherMoves
  <1>4. OtaTypeOK'
    <2>1. wire' \in [Pushers -> Seq(Blocks)] /\ tosend' \in [Pushers -> Seq(Blocks)]
      BY DEF OtaIInv, OtaTypeOK
    <2> QED
      BY <1>3, <2>1, TypeMoves
  <1>5. Untouched'
    BY <1>3 DEF OtaIInv, Untouched
  <1>6. Transfer'
    BY <1>3 DEF OtaIInv, Transfer, Unread
  <1> QED
    BY <1>1, <1>3, <1>4, <1>5, <1>6 DEF OtaIInv

LEMMA StreamBlockStep ==
  ASSUME OtaIInv, NEW p \in Pushers, StreamBlock(p), UNCHANGED auth
  PROVE  OtaIInv'
  <1> USE DEF OtaIInv
  <1>1. /\ push[p] = "stream" /\ tosend[p] # <<>>
        /\ UNCHANGED <<auth, deviceVars, push, inbox, reply, conn, installed, updateVars>>
        /\ wire \in [Pushers -> Seq(Blocks)] /\ tosend \in [Pushers -> Seq(Blocks)]
        /\ wire' = [wire EXCEPT ![p] = IF conn[p] = "open" THEN Append(@, Head(tosend[p]))
                                       ELSE @]
        /\ tosend' = [tosend EXCEPT ![p] = Tail(@)]
        /\ push' = [push EXCEPT ![p] = "stream"] /\ "stream" \in PushStates \ {"new"}
    BY DEF StreamBlock, OtaTypeOK, PushStates
  <1>2. MailOK' /\ \A i \in 1 .. Len(inbox') : Invites(i)' => Invites(i) /\ inbox'[i] = inbox[i]
    BY <1>1 DEF MailOK, Invites, deviceVars
  <1>3. /\ UpdateInv' /\ UpdateTypeOK' /\ NoSession' /\ OnlyKnownPeers' /\ InvitedOnce'
        /\ push' \in [Pushers -> PushStates]
        /\ Connections'
        /\ \A i \in 1 .. Len(inbox') : inbox'[i] \in Datagrams(nonce)
        /\ UNCHANGED <<device, peer, nonce, got, fd, path, md5, data>>
    BY <1>1, <1>2, PusherMoves
  <1>4. wire' \in [Pushers -> Seq(Blocks)] /\ tosend' \in [Pushers -> Seq(Blocks)]
    BY <1>1, TailIs, AppendIs
  <1>5. OtaTypeOK'
    BY <1>1, <1>3, <1>4, TypeMoves
  <1>6. Untouched'
    BY <1>1 DEF Untouched
  <1>7. ASSUME conn[p] = "open" PROVE Unread(p)' = Unread(p)
    <2>1. wire'[p] = Append(wire[p], Head(tosend[p])) /\ tosend'[p] = Tail(tosend[p])
      BY <1>1, <1>7
    <2>2. /\ wire[p] \in Seq(Blocks) /\ tosend[p] \in Seq(Blocks)
          /\ tosend[p] # <<>>
      BY <1>1
    <2>3. Append(wire[p], Head(tosend[p])) \o Tail(tosend[p]) = wire[p] \o tosend[p]
      BY <2>2, HeadMoves
    <2> QED
      BY <2>1, <2>3 DEF Unread
  <1>8. \A q \in Pushers \ {p} : Unread(q)' = Unread(q)
    BY <1>1 DEF Unread
  <1>9. Transfer'
    <2>1. Pulling => peer \in Pushers /\ conn[peer] = "open"
      BY DEF Connections, Engaged, Pulling
    <2>2. Pulling => Unread(peer)' = Unread(peer)
      BY <1>3, <1>7, <1>8, <2>1 DEF Unread
    <2> QED
      BY <1>3, <2>2 DEF Transfer, Pulling
  <1> QED
    BY <1>2, <1>3, <1>5, <1>6, <1>9

LEMMA PusherStep ==
  ASSUME OtaIInv, NEW p \in Pushers, Pusher(p)
  PROVE  OtaIInv'
  <1> USE DEF PushStates
  <1>1. CASE GetReply(p)
    BY <1>1, GetReplyStep DEF Pusher
  <1>2. CASE StreamBlock(p)
    BY <1>2, StreamBlockStep DEF Pusher
  <1>3. CASE GetAuthResult(p)
    <2>1. reply' \in [Pushers -> Seq(Replies(nonce))]
      BY <1>3, ReplyTaken DEF GetAuthResult
    <2>2. PushGoto(p, "accept") \/ PushGoto(p, "failed")
      BY <1>3 DEF GetAuthResult
    <2> QED
      BY <1>3, <2>1, <2>2, PusherGoesOn DEF GetAuthResult, Pusher
  <1>4. CASE Accept(p)
    BY <1>4, PusherGoesOn DEF Accept, Pusher, netVars, OtaIInv, MailOK
  <1>5. CASE AwaitEnd(p)
    <2>1. (conn[p] = "ok" /\ PushGoto(p, "ok")) \/ PushGoto(p, "failed")
      BY <1>5 DEF AwaitEnd
    <2> QED
      BY <1>5, <2>1, PusherGoesOn DEF AwaitEnd, Pusher, netVars, OtaIInv, MailOK
  <1>6. CASE PusherGivesUp(p)
    BY <1>6, PusherGoesOn DEF PusherGivesUp, Pusher, netVars, OtaIInv, MailOK
  <1> QED
    BY <1>1, <1>2, <1>3, <1>4, <1>5, <1>6 DEF Pusher

-----------------------------------------------------------------------------
(* handle(): the invite and the challenge                                  *)

LEMMA InboxTail ==
  ASSUME OtaIInv, inbox # <<>>, inbox' = Tail(inbox)
  PROVE  /\ inbox' \in Seq(Datagrams(nonce))
         /\ Head(inbox) \in Datagrams(nonce) /\ Head(inbox) = inbox[1]
         /\ 1 \in 1 .. Len(inbox)
         /\ \A i \in 1 .. Len(inbox') :
              i + 1 \in 2 .. Len(inbox) /\ inbox'[i] = inbox[i + 1]
  <1>1. inbox \in Seq(Datagrams(nonce))
    BY DEF OtaIInv, MailOK
  <1> QED
    BY <1>1, TailIs

\* A step of the receiver takes the first datagram or none.  Only the pusher whose invite
\* it takes ceases to be one that was never dialled.
LEMMA DeviceInvites ==
  ASSUME OtaIInv, UNCHANGED push,
         UNCHANGED inbox \/ (inbox # <<>> /\ inbox' = Tail(inbox)),
         \A p \in Pushers :
           conn[p] = "none" /\ ~(Engaged /\ peer = p) =>
             \/ conn'[p] = "none" /\ ~(Engaged' /\ peer' = p)
             \/ inbox # <<>> /\ inbox' = Tail(inbox) /\ Invites(1) /\ inbox[1].from = p
  PROVE  InvitedOnce'
  <1>1. nonce \in Nat /\ inbox \in Seq(Datagrams(nonce))
    BY DEF OtaIInv, OtaTypeOK, MailOK
  <1>2. CASE UNCHANGED inbox /\ ~(inbox # <<>> /\ inbox' = Tail(inbox))
    <2>1. \A i \in 1 .. Len(inbox) : inbox[i].from \in Pushers
      BY <1>1, DatagramIs
    <2> QED
      BY <1>2, <2>1 DEF OtaIInv, InvitedOnce, Invites
  <1>3. CASE inbox # <<>> /\ inbox' = Tail(inbox)
    <2>1. /\ 1 \in 1 .. Len(inbox) /\ Len(inbox) \in Nat
          /\ \A i \in 1 .. Len(inbox') :
              /\ i + 1 \in 2 .. Len(inbox) /\ inbox'[i] = inbox[i + 1]
              /\ inbox[i + 1].from \in Pushers
      BY <1>1, <1>3, InboxTail, DatagramIs
    <2>2. \A i \in 1 .. Len(inbox') : Invites(i)' => Invites(i + 1)
      BY <2>1 DEF Invites
    <2>3. ASSUME NEW i \in 1 .. Len(inbox'), Invites(i)',
                 NEW j \in 1 .. Len(inbox'), Invites(j)', inbox'[i].from = inbox'[j].from
          PROVE  i = j
      <3>1. i + 1 = j + 1
        <4> DEFINE m == i + 1
                   n == j + 1
        <4>1. /\ m \in 1 .. Len(inbox) /\ n \in 1 .. Len(inbox) /\ Invites(m) /\ Invites(n)
              /\ inbox[m].from = inbox[n].from
          BY <2>1, <2>2, <2>3 DEF Invites
        <4> HIDE DEF m, n
        <4>2. m = n
          BY <4>1 DEF OtaIInv, InvitedOnce
        <4> QED
          BY <4>2 DEF m, n
      <3> QED
        BY <3>1
    <2>4. ASSUME NEW i \in 1 .. Len(inbox'), Invites(i)'
          PROVE  /\ conn'[inbox'[i].from] = "none"
                 /\ push'[inbox'[i].from] # "new"
                 /\ ~(Engaged' /\ peer' = inbox'[i].from)
      <3> DEFINE p == inbox[i + 1].from
      <3>1. /\ p \in Pushers /\ inbox'[i].from = p /\ Invites(i + 1)
            /\ i + 1 \in 2 .. Len(inbox)
        BY <2>1, <2>2, <2>4
      <3>2. conn[p] = "none" /\ push[p] # "new" /\ ~(Engaged /\ peer = p)
        BY <3>1 DEF OtaIInv, InvitedOnce
      <3>3. ~(Invites(1) /\ inbox[1].from = p)
        <4>1. Invites(1) /\ inbox[1].from = p => 1 = i + 1
          BY <2>1, <3>1 DEF OtaIInv, InvitedOnce
        <4> QED
          BY <3>1, <4>1
      <3> QED
        BY <3>1, <3>2, <3>3
    <2>5. ASSUME NEW p \in Pushers, push'[p] = "new"
          PROVE  conn'[p] = "none" /\ ~(Engaged' /\ peer' = p)
      <3>1. conn[p] = "none" /\ ~(Engaged /\ peer = p)
        BY <2>5 DEF OtaIInv, InvitedOnce
      <3>2. ~(Invites(1) /\ inbox[1].from = p)
        BY <2>1, <2>5 DEF OtaIInv, InvitedOnce
      <3> QED
        BY <3>1, <3>2
    <2> QED
      BY <2>3, <2>4, <2>5 DEF InvitedOnce
  <1> QED
    BY <1>2, <1>3

LEMMA DeviceTypes ==
  ASSUME OtaIInv, UpdateTypeOK', UNCHANGED <<auth, push, tosend>>,
         device' \in {"loop", "auth", "dial", "begin", "md5", "recv", "sketch"},
         peer' \in Pushers \cup {NoPeer}, nonce' \in Nat, got' \in Nat,
         conn' \in [Pushers -> {"none", "open", "ok", "closed"}],
         wire' \in [Pushers -> Seq(Blocks)], installed' \subseteq Pushers,
         inbox' \in Seq(Datagrams(nonce'))
  PROVE  OtaTypeOK'
  <1>1. \A i \in 1 .. Len(inbox') :
          inbox'[i] \in {Invite(p) : p \in Pushers}
                          \cup {Answer(p, n) : p \in Pushers, n \in 1 .. nonce'}
    <2>1. \A i \in 1 .. Len(inbox') : inbox'[i] \in Datagrams(nonce')
      OBVIOUS
    <2> QED
      BY <2>1 DEF Datagrams
  <1>2. push' \in [Pushers -> {"new", "reply", "auth", "accept", "stream", "ok", "failed"}]
        /\ auth' \in BOOLEAN /\ tosend' \in [Pushers -> Seq(Blocks)]
    BY DEF OtaIInv, OtaTypeOK
  <1> QED
    BY <1>1, <1>2 DEF OtaTypeOK

\* Outside of a transfer, with nothing read or dialled.
LEMMA DeviceWaits ==
  ASSUME OtaIInv, device \in {"loop", "auth", "dial"}, device' \in {"loop", "auth", "dial"},
         UNCHANGED <<auth, got, push, tosend, wire, conn, installed, updateVars>>,
         nonce' \in Nat, inbox' \in Seq(Datagrams(nonce')),
         reply' \in [Pushers -> Seq(Replies(nonce'))],
         peer' \in Pushers \cup {NoPeer},
         Engaged' => peer' \in Pushers /\ conn[peer'] = "none",
         auth /\ device' = "dial" => peer' \in Knows,
         InvitedOnce'
  PROVE  OtaIInv'
  <1> USE DEF OtaIInv
  <1>1. UpdateInv' /\ UpdateTypeOK'
    BY UpdateSame
  <1>2. OtaTypeOK'
    <2>1. /\ wire' \in [Pushers -> Seq(Blocks)] /\ installed' \subseteq Pushers
          /\ conn' \in [Pushers -> {"none", "open", "ok", "closed"}] /\ got' \in Nat
      BY DEF OtaTypeOK
    <2> QED
      BY <1>1, <2>1, DeviceTypes
  <1>3. MailOK'
    BY DEF MailOK
  <1>4. Connections'
    BY DEF Connections, Engaged, Pulling
  <1>5. Untouched'
    BY DEF Untouched
  <1>6. Transfer'
    BY DEF Transfer
  <1>7. NoSession' /\ OnlyKnownPeers'
    BY DEF NoSession, Whole, OnlyKnownPeers, updateVars
  <1> QED
    BY <1>1, <1>2, <1>3, <1>4, <1>5, <1>6, <1>7

LEMMA IgnoreDatagramStep ==
  ASSUME OtaIInv, IgnoreDatagram, UNCHANGED auth
  PROVE  OtaIInv'
  <1>1. /\ device = "loop" /\ device' = "loop" /\ inbox # <<>> /\ inbox' = Tail(inbox)
        /\ UNCHANGED <<auth, device, peer, nonce, got, push, tosend, reply, wire, conn,
                       installed, updateVars>>
        /\ nonce \in Nat /\ peer \in Pushers \cup {NoPeer}
        /\ reply \in [Pushers -> Seq(Replies(nonce))]
    BY DEF IgnoreDatagram, deviceVars, pushVars, OtaIInv, OtaTypeOK, MailOK
  <1>2. ~Engaged /\ ~Engaged'
    BY <1>1 DEF Engaged
  <1>3. InvitedOnce'
    BY <1>1, <1>2, DeviceInvites
  <1>4. inbox' \in Seq(Datagrams(nonce))
    BY <1>1, InboxTail
  <1> QED
    BY <1>1, <1>2, <1>3, <1>4, DeviceWaits

LEMMA TakeInviteStep ==
  ASSUME OtaIInv, TakeInvite, UNCHANGED auth
  PROVE  OtaIInv'
  <1>1. /\ device = "loop" /\ inbox # <<>> /\ inbox' = Tail(inbox)
        /\ Head(inbox).kind = "invite" /\ peer' = Head(inbox).from
        /\ UNCHANGED <<auth, got, push, tosend, wire, conn, installed, updateVars>>
        /\ nonce \in Nat /\ inbox \in Seq(Datagrams(nonce))
        /\ reply \in [Pushers -> Seq(Replies(nonce))]
    BY DEF TakeInvite, pushVars, OtaIInv, OtaTypeOK, MailOK
  <1>2. /\ inbox' \in Seq(Datagrams(nonce)) /\ 1 \in 1 .. Len(inbox)
        /\ Head(inbox) = inbox[1] /\ Head(inbox) \in Datagrams(nonce)
    BY <1>1, InboxTail
  <1>3. peer' \in Pushers /\ Invites(1) /\ inbox[1].from = peer'
    BY <1>1, <1>2, DatagramIs DEF Invites
  <1>4. conn[peer'] = "none"
    BY <1>2, <1>3 DEF OtaIInv, InvitedOnce
  <1>5. InvitedOnce'
    BY <1>1, <1>3, DeviceInvites
  <1>6. CASE auth
    <2>1. nonce' = nonce + 1 /\ device' = "auth" /\ ToPusher(peer', Challenge(nonce'))
      BY <1>6 DEF TakeInvite
    <2>2. nonce' \in Nat /\ Challenge(nonce') \in Replies(nonce')
      BY <1>1, <2>1 DEF Replies
    <2>3. inbox' \in Seq(Datagrams(nonce'))
      BY <1>1, <1>2, <2>1, MailGrows, SeqMonotonic
    <2>4. reply \in [Pushers -> Seq(Replies(nonce'))]
      <3>1. \A p \in Pushers : reply[p] \in Seq(Replies(nonce'))
        BY <1>1, <2>1, MailGrows, SeqMonotonic
      <3> QED
        BY <1>1, <3>1
    <2>5. reply' \in [Pushers -> Seq(Replies(nonce'))]
      BY <1>3, <2>1, <2>2, <2>4, ToPusherKeeps
    <2> QED
      BY <1>1, <1>3, <1>4, <1>5, <2>1, <2>2, <2>3, <2>5, DeviceWaits
  <1>7. CASE ~auth
    <2>1. UNCHANGED nonce /\ device' = "dial" /\ ToPusher(peer', Granted)
      BY <1>7 DEF TakeInvite
    <2>2. Granted \in Replies(nonce)
      BY DEF Replies
    <2>3. reply' \in [Pushers -> Seq(Replies(nonce))]
      BY <1>1, <1>3, <2>1, <2>2, ToPusherKeeps
    <2> QED
      BY <1>1, <1>2, <1>3, <1>4, <1>5, <1>7, <2>1, <2>3, DeviceWaits
  <1> QED
    BY <1>6, <1>7

\* The end of the wait for an answer, with whatever is sent to the peer.
LEMMA AuthEnds ==
  ASSUME OtaIInv, device = "auth", device' \in {"loop", "dial"},
         NEW d \in {Granted, Denied}, ToPusher(peer, d),
         UNCHANGED inbox \/ (inbox # <<>> /\ inbox' = Tail(inbox)),
         auth /\ device' = "dial" => peer \in Knows,
         UNCHANGED <<auth, peer, nonce, got, push, tosend, wire, conn, installed, updateVars>>
  PROVE  OtaIInv'
  <1>1. /\ nonce \in Nat /\ inbox \in Seq(Datagrams(nonce))
        /\ reply \in [Pushers -> Seq(Replies(nonce))]
        /\ Engaged /\ peer \in Pushers /\ conn[peer] = "none"
    BY DEF OtaIInv, OtaTypeOK, MailOK, Connections, Engaged
  <1>2. InvitedOnce'
    BY <1>1, DeviceInvites
  <1>3. inbox' \in Seq(Datagrams(nonce))
    BY <1>1, InboxTail
  <1>4. reply' \in [Pushers -> Seq(Replies(nonce))]
    BY <1>1, ToPusherKeeps DEF Replies
  <1> QED
    BY <1>1, <1>2, <1>3, <1>4, DeviceWaits

LEMMA TakeAnswerStep ==
  ASSUME OtaIInv, TakeAnswer, UNCHANGED auth
  PROVE  OtaIInv'
  <1>1. /\ device = "auth" /\ inbox # <<>> /\ inbox' = Tail(inbox)
        /\ UNCHANGED <<auth, peer, nonce, got, push, tosend, wire, conn, installed,
                       updateVars>>
    BY DEF TakeAnswer, pushVars
  <1>2. CASE AnswerRight(Head(inbox))
    <2>1. Head(inbox) \in Datagrams(nonce) /\ nonce \in Nat
      BY <1>1, InboxTail DEF OtaIInv, OtaTypeOK
    <2>2. peer \in Knows
      BY <1>2, <2>1, DatagramIs DEF AnswerRight
    <2>3. device' = "dial" /\ ToPusher(peer, Granted)
      BY <1>2 DEF TakeAnswer
    <2> QED
      BY <1>1, <2>2, <2>3, AuthEnds
  <1>3. CASE ~AnswerRight(Head(inbox))
    <2>1. device' = "loop" /\ ToPusher(peer, Denied)
      BY <1>3 DEF TakeAnswer
    <2> QED
      BY <1>1, <2>1, AuthEnds
  <1> QED
    BY <1>2, <1>3

LEMMA AuthTimeoutStep ==
  ASSUME OtaIInv, AuthTimeout, UNCHANGED auth
  PROVE  OtaIInv'
  BY AuthEnds DEF AuthTimeout, pushVars

LEMMA DialFailsStep ==
  ASSUME OtaIInv, DialFails, UNCHANGED auth
  PROVE  OtaIInv'
  <1>1. /\ device = "dial" /\ device' = "loop"
        /\ UNCHANGED <<auth, peer, nonce, got, push, tosend, wire, conn, inbox, reply,
                       installed, updateVars>>
        /\ nonce \in Nat /\ inbox \in Seq(Datagrams(nonce))
        /\ reply \in [Pushers -> Seq(Replies(nonce))] /\ peer \in Pushers \cup {NoPeer}
    BY DEF DialFails, pushVars, netVars, OtaIInv, OtaTypeOK, MailOK
  <1>2. ~Engaged' /\ InvitedOnce'
    BY <1>1, DeviceInvites DEF Engaged
  <1> QED
    BY <1>1, <1>2, DeviceWaits

-----------------------------------------------------------------------------
(* handle(): the connection and the image                                  *)

\* An image is a sequence of blocks.
LEMMA ImageOf ==
  ASSUME NEW p \in Pushers
  PROVE  Image[p] \in Seq(Blocks) /\ Len(Image[p]) \in Nat
  BY OtaAssumption

\* What does not change while the receiver talks to its peer over TCP.
LEMMA PullKeeps ==
  ASSUME OtaIInv, device \in {"dial", "begin", "md5", "recv"},
         UNCHANGED <<auth, peer, nonce, push, tosend, inbox, reply>>,
         \A p \in Pushers \ {peer} : conn'[p] = conn[p]
  PROVE  MailOK' /\ InvitedOnce' /\ peer \in Pushers /\ nonce \in Nat
         /\ (device' \in {"loop", "begin", "md5", "recv"} => OnlyKnownPeers')
  <1>1. Engaged /\ peer \in Pushers
    BY DEF OtaIInv, Connections, Engaged
  <1>2. InvitedOnce'
    BY <1>1, DeviceInvites
  <1>3. MailOK' /\ nonce \in Nat
    BY DEF OtaIInv, MailOK, OtaTypeOK
  <1>4. ASSUME device' \in {"loop", "begin", "md5", "recv"} PROVE OnlyKnownPeers'
    BY <1>4 DEF OtaIInv, OnlyKnownPeers
  <1> QED
    BY <1>1, <1>2, <1>3, <1>4

LEMMA DialStep ==
  ASSUME OtaIInv, Dial, UNCHANGED auth
  PROVE  OtaIInv'
  <1> USE DEF OtaIInv
  <1>1. /\ device = "dial" /\ device' = "begin" /\ conn' = [conn EXCEPT ![peer] = "open"]
        /\ UNCHANGED <<auth, peer, nonce, got, push, tosend, inbox, reply, wire, installed,
                       updateVars, exists, data, fault, fd>>
        /\ conn \in [Pushers -> {"none", "open", "ok", "closed"}]
    BY DEF Dial, pushVars, updateVars, OtaTypeOK
  <1>2. /\ MailOK' /\ InvitedOnce' /\ peer \in Pushers /\ nonce \in Nat /\ OnlyKnownPeers'
        /\ UpdateInv' /\ UpdateTypeOK'
    BY <1>1, PullKeeps, UpdateSame
  <1>3. conn'[peer] = "open" /\ \A p \in Pushers \ {peer} : conn'[p] = conn[p]
    BY <1>1, <1>2
  <1>4. OtaTypeOK'
    <2>1. /\ conn' \in [Pushers -> {"none", "open", "ok", "closed"}]
          /\ wire' \in [Pushers -> Seq(Blocks)] /\ installed' \subseteq Pushers
          /\ inbox' \in Seq(Datagrams(nonce')) /\ got' \in Nat
      BY <1>1, <1>2 DEF OtaTypeOK, MailOK
    <2> QED
      BY <1>1, <1>2, <2>1, DeviceTypes
  <1>5. Connections'
    BY <1>1, <1>2, <1>3 DEF Connections, Engaged, Pulling
  <1>6. Untouched'
    BY <1>1, <1>3 DEF Untouched
  <1>7. Transfer'
    <2>1. wire[peer] = <<>> /\ tosend[peer] = Image[peer]
      BY <1>1, <1>2 DEF Connections, Untouched
    <2>2. <<>> \o Image[peer] = Image[peer]
      BY <1>2, ImageOf, ConcatEmptySeq
    <2> QED
      BY <1>1, <2>1, <2>2 DEF Transfer, Unread
  <1>8. NoSession'
    BY <1>1 DEF NoSession, Whole
  <1> QED
    BY <1>2, <1>4, <1>5, <1>6, <1>7, <1>8

\* The end of a connection, with the file as Whole has it.
LEMMA HangUpKeeps ==
  ASSUME OtaIInv, device \in {"begin", "recv"}, NEW end \in {"ok", "closed"}, HangUp(end),
         UNCHANGED <<auth, peer, nonce, push, tosend, inbox, reply, wire>>, got' \in Nat,
         installed' = installed \/ installed' = installed \cup {peer},
         end = "ok" => peer \in installed', UpdateInv', ~fd', Whole'
  PROVE  OtaIInv'
  <1> USE DEF OtaIInv
  <1>1. /\ device' = "loop" /\ conn' = [conn EXCEPT ![peer] = end]
        /\ conn \in [Pushers -> {"none", "open", "ok", "closed"}]
    BY DEF HangUp, OtaTypeOK
  <1>2. MailOK' /\ InvitedOnce' /\ peer \in Pushers /\ nonce \in Nat /\ OnlyKnownPeers'
    BY <1>1, PullKeeps
  <1>3. conn'[peer] = end /\ \A p \in Pushers \ {peer} : conn'[p] = conn[p]
    BY <1>1, <1>2
  <1>4. OtaTypeOK'
    <2>1. /\ conn' \in [Pushers -> {"none", "open", "ok", "closed"}]
          /\ wire' \in [Pushers -> Seq(Blocks)] /\ installed' \subseteq Pushers
          /\ inbox' \in Seq(Datagrams(nonce')) /\ UpdateTypeOK'
      BY <1>1, <1>2 DEF OtaTypeOK, MailOK, UpdateInv
    <2> QED
      BY <1>1, <1>2, <2>1, DeviceTypes
  <1>5. Connections'
    BY <1>1, <1>2, <1>3 DEF Connections, Engaged, Pulling
  <1>6. Untouched'
    BY <1>1, <1>3 DEF Untouched
  <1>7. Transfer' /\ NoSession'
    BY <1>1 DEF Transfer, NoSession
  <1> QED
    BY <1>2, <1>4, <1>5, <1>6, <1>7

\* A step within the transfer.
LEMMA PullGoesOn ==
  ASSUME OtaIInv, device \in {"begin", "md5", "recv"}, device' \in {"md5", "recv"},
         UNCHANGED <<auth, peer, nonce, push, tosend, inbox, reply, conn, installed>>,
         got' \in Nat, wire' \in [Pushers -> Seq(Blocks)],
         \A p \in Pushers \ {peer} : wire'[p] = wire[p],
         UpdateInv', Transfer'
  PROVE  OtaIInv'
  <1> USE DEF OtaIInv
  <1>1. MailOK' /\ InvitedOnce' /\ peer \in Pushers /\ nonce \in Nat /\ OnlyKnownPeers'
    BY PullKeeps
  <1>2. OtaTypeOK'
    <2>1. /\ conn' \in [Pushers -> {"none", "open", "ok", "closed"}]
          /\ installed' \subseteq Pushers
          /\ inbox' \in Seq(Datagrams(nonce')) /\ UpdateTypeOK'
      BY <1>1 DEF OtaTypeOK, MailOK, UpdateInv
    <2> QED
      BY <1>1, <2>1, DeviceTypes
  <1>3. Connections' /\ conn[peer] = "open"
    BY <1>1 DEF Connections, Engaged, Pulling
  <1>4. Untouched'
    BY <1>3 DEF Untouched
  <1>5. NoSession'
    BY DEF NoSession
  <1> QED
    BY <1>1, <1>2, <1>3, <1>4, <1>5

LEMMA OtaBeginStep ==
  ASSUME OtaIInv, OtaBegin, UNCHANGED auth
  PROVE  OtaIInv'
  <1> USE DEF OtaIInv
  <1>1. /\ device = "begin" /\ got' = 0 /\ Begin(Len(Image[peer]))
        /\ UNCHANGED <<auth, peer, nonce, push, tosend, inbox, reply, wire, installed>>
    BY DEF OtaBegin, pushVars
  <1>2. peer \in Pushers /\ ~fd /\ Whole /\ Unread(peer) = Image[peer]
    BY <1>1 DEF Connections, Engaged, NoSession, Transfer
  <1>3. UpdateInv'
    BY <1>1, <1>2, ImageOf, BeginStep
  <1>4. CASE last'.ok
    <2>1. device' = "md5" /\ UNCHANGED conn
      BY <1>4 DEF OtaBegin
    <2>2. fd' /\ path' /\ data' = <<>>
      BY <1>1, <1>2, <1>4 DEF Begin, BeginRefused, BeginFresh, Call
    <2>3. Transfer'
      BY <1>1, <1>2, <2>1, <2>2 DEF Transfer, Unread
    <2>4. wire' \in [Pushers -> Seq(Blocks)]
      BY <1>1 DEF OtaTypeOK
    <2> QED
      BY <1>1, <1>3, <2>1, <2>3, <2>4, PullGoesOn
  <1>5. CASE ~last'.ok
    <2>1. HangUp("closed")
      BY <1>5 DEF OtaBegin
    <2>2. ~fd' /\ UNCHANGED <<exists, data, fault>>
      BY <1>1, <1>2, <1>5 DEF Begin, BeginRefused, BeginFresh, Call
    <2>3. Whole'
      BY <1>1, <1>2, <2>2 DEF Whole
    <2> QED
      BY <1>1, <1>3, <2>1, <2>2, <2>3, HangUpKeeps
  <1> QED
    BY <1>4, <1>5

LEMMA OtaSetMD5Step ==
  ASSUME OtaIInv, OtaSetMD5, UNCHANGED auth
  PROVE  OtaIInv'
  <1> USE DEF OtaIInv
  <1>1. /\ device = "md5" /\ device' = "recv" /\ SetMD5(Image[peer])
        /\ UNCHANGED <<auth, peer, nonce, got, push, tosend, inbox, reply, wire, conn,
                       installed>>
    BY DEF OtaSetMD5, pushVars, netVars
  <1>2. /\ peer \in Pushers /\ fd /\ path /\ data = <<>> /\ got = 0
        /\ Unread(peer) = Image[peer]
    BY <1>1 DEF Connections, Engaged, Transfer
  <1>3. Image[peer] \in Seq(Blocks) /\ Len(Image[peer]) \in Nat
    BY <1>2, ImageOf
  <1>4. UpdateInv'
    BY <1>1, <1>3, SetMD5Step
  <1>5. md5' = Image[peer] /\ UNCHANGED <<fd, path, data>>
    BY <1>1 DEF SetMD5
  <1>6. Transfer'
    <2>1. <<>> \o Image[peer] = Image[peer] /\ Len(data) = 0
      BY <1>2, <1>3, ConcatEmptySeq
    <2> QED
      BY <1>1, <1>2, <1>3, <1>5, <2>1 DEF Transfer, Unread
  <1>7. wire' \in [Pushers -> Seq(Blocks)] /\ got' \in Nat
    BY <1>1 DEF OtaTypeOK
  <1> QED
    BY <1>1, <1>4, <1>6, <1>7, PullGoesOn

\* What write() did with a chunk: a part of it is in the file, which last.n counts.
LEMMA WriteCounts ==
  ASSUME NEW bytes \in Seq(Blocks), bytes # <<>>, fd, Write(bytes), UpdateTypeOK
  PROVE  /\ UNCHANGED <<fd, path, md5>>
         /\ last'.n \in 0 .. Len(bytes)
         /\ data' = data \o SubSeq(bytes, 1, last'.n)
  <1>1. UNCHANGED <<fd, path, md5>>
    BY DEF Write
  <1>2. data \in Seq(Blocks) /\ Len(bytes) \in Nat
    BY DEF UpdateTypeOK
  <1>3. CASE \E k \in Accepted(Len(bytes)) \ {0} :
               data' = data \o SubSeq(bytes, 1, k) /\ Call("write", TRUE, k, Len(bytes))
    <2>1. PICK k \in Accepted(Len(bytes)) \ {0} :
            data' = data \o SubSeq(bytes, 1, k) /\ Call("write", TRUE, k, Len(bytes))
      BY <1>3
    <2>2. last'.n = k
      BY <2>1 DEF Call
    <2>3. k \in 0 .. Len(bytes)
      BY <1>2, <2>1, AcceptedBound
    <2> QED
      BY <1>1, <2>1, <2>2, <2>3
  <1>4. CASE UNCHANGED data /\ Call("write", FALSE, 0, Len(bytes))
    <2>1. last'.n = 0
      BY <1>4 DEF Call
    <2>2. SubSeq(bytes, 1, 0) = <<>> /\ data \o <<>> = data
      BY <1>2, SubSeqEmpty, ConcatEmptySeq
    <2>3. data' = data \o SubSeq(bytes, 1, last'.n)
      BY <1>4, <2>1, <2>2
    <2> QED
      BY <1>1, <1>2, <2>1, <2>3
  <1> QED
    BY <1>3, <1>4 DEF Write

LEMMA SplitsInTwo ==
  ASSUME NEW S, NEW a \in Seq(S), NEW n \in 0 .. Len(a)
  PROVE  /\ SubSeq(a, 1, n) \in Seq(S) /\ Len(SubSeq(a, 1, n)) = n
         /\ SubSeq(a, n + 1, Len(a)) \in Seq(S)
         /\ SubSeq(a, 1, n) \o SubSeq(a, n + 1, Len(a)) = a
  <1>1. SubSeq(a, 1, n) \o SubSeq(a, n + 1, Len(a)) = SubSeq(a, 1, Len(a))
    <2>1. /\ Len(a) \in Nat /\ 1 \in 1 .. Len(a) + 1 /\ n \in 1 - 1 .. Len(a)
          /\ Len(a) \in n .. Len(a)
      OBVIOUS
    <2> QED
      BY ONLY <2>1, a \in Seq(S), ConcatAdjacentSubSeq
  <1>2. SubSeq(a, 1, Len(a)) = a
    BY SubSeqFull
  <1>3. SubSeq(a, 1, n) \in Seq(S) /\ Len(SubSeq(a, 1, n)) = n
    OBVIOUS
  <1>4. SubSeq(a, n + 1, Len(a)) \in Seq(S)
    OBVIOUS
  <1> QED
    BY <1>1, <1>2, <1>3, <1>4

LEMMA RecvChunkStep ==
  ASSUME OtaIInv, RecvChunk, UNCHANGED auth
  PROVE  OtaIInv'
  <1> USE DEF OtaIInv
  <1>1. /\ device = "recv" /\ device' = "recv"
        /\ UNCHANGED <<auth, peer, nonce, push, tosend, inbox, reply, conn, installed>>
    BY DEF RecvChunk, pushVars
  <1>2. /\ peer \in Pushers /\ fd /\ path /\ md5 = Image[peer] /\ got = Len(data)
        /\ got + Len(Unread(peer)) <= Len(Image[peer])
        /\ got + Len(Unread(peer)) = Len(Image[peer]) => data \o Unread(peer) = Image[peer]
    BY <1>1 DEF Connections, Engaged, Transfer
  <1>3. PICK n \in 1 .. Len(wire[peer]) :
          /\ Write(SubSeq(wire[peer], 1, n))
          /\ wire' = [wire EXCEPT ![peer] = SubSeq(@, n + 1, Len(@))]
          /\ got' = got + Received(n)
    BY DEF RecvChunk
  <1>a. PICK a : a = wire[peer]
    OBVIOUS
  <1>t. PICK t : t = tosend[peer]
    OBVIOUS
  <1>k. PICK k : k = last'.n
    OBVIOUS
  <1>c. PICK c : c = SubSeq(a, 1, n)
    OBVIOUS
  <1>b. PICK b : b = SubSeq(a, n + 1, Len(a))
    OBVIOUS
  <1>4. /\ a = wire[peer] /\ t = tosend[peer] /\ k = last'.n
        /\ c = SubSeq(a, 1, n) /\ b = SubSeq(a, n + 1, Len(a))
    BY <1>a, <1>t, <1>k, <1>c, <1>b
  <1>5. /\ wire \in [Pushers -> Seq(Blocks)] /\ a \in Seq(Blocks) /\ t \in Seq(Blocks)
        /\ data \in Seq(Blocks) /\ Len(data) \in Nat /\ n \in 1 .. Len(a)
        /\ UpdateTypeOK
    BY <1>2, <1>4 DEF OtaTypeOK, UpdateTypeOK
  <1>6. c \in Seq(Blocks) /\ Len(c) = n /\ b \in Seq(Blocks) /\ c \o b = a
    BY <1>4, <1>5, SplitsInTwo
  <1>7. c # <<>> /\ Write(c)
    <2>1. c # <<>>
      BY <1>5, <1>6
    <2>2. SubSeq(wire[peer], 1, n) = c
      BY <1>4
    <2> QED
      BY <1>3, <2>1, <2>2
  <1>8. UpdateInv'
    BY <1>6, <1>7, WriteStep
  <1>9. UNCHANGED <<fd, path, md5>> /\ k \in 0 .. n /\ data' = data \o SubSeq(c, 1, k)
    BY <1>2, <1>4, <1>5, <1>6, <1>7, WriteCounts
  <1>10. /\ Len(data') = Len(data) + k
         /\ Len(b \o t) = Len(a \o t) - n
         /\ k = n => data' \o (b \o t) = data \o (a \o t)
    <2>1. PICK f \in Seq(Blocks) : /\ f = SubSeq(c, 1, k)
                                   /\ Len(f) = k /\ (k = n => f = c)
      <3>1. SubSeq(c, 1, k) \in Seq(Blocks) /\ Len(SubSeq(c, 1, k)) = k
        BY <1>6, <1>9, SplitsInTwo
      <3>2. k = n => SubSeq(c, 1, k) = c
        BY <1>6, SubSeqFull
      <3> QED
        BY <3>1, <3>2
    <2>2. /\ data \in Seq(Blocks) /\ c \in Seq(Blocks) /\ b \in Seq(Blocks)
          /\ t \in Seq(Blocks) /\ f \in Seq(Blocks)
      BY <1>5, <1>6, <2>1
    <2>3. Len(f) = Len(c) => f = c
      BY <1>6, <2>1
    <2>4. /\ Len(data \o f) = Len(data) + Len(f)
          /\ Len(b \o t) = Len((c \o b) \o t) - Len(c)
          /\ Len(f) = Len(c) => (data \o f) \o (b \o t) = data \o ((c \o b) \o t)
      <3>1. /\ Len(data \o f) = Len(data) + Len(f)
            /\ Len(b \o t) = Len((c \o b) \o t) - Len(c)
        BY <2>2, ConcatProperties
      <3>2. (data \o f) \o (b \o t) = data \o ((f \o b) \o t)
        <4>1. (f \o b) \o t = f \o (b \o t)
          <5>1. f \in Seq(Blocks) /\ b \in Seq(Blocks) /\ t \in Seq(Blocks)
            BY <2>2
          <5> QED
            BY ONLY <5>1, ConcatAssociative
        <4>2. PICK u \in Seq(Blocks) : u = b \o t
          BY <2>2, ConcatProperties
        <4>3. (data \o f) \o u = data \o (f \o u)
          <5>1. data \in Seq(Blocks) /\ f \in Seq(Blocks) /\ u \in Seq(Blocks)
            BY ONLY <2>2, <4>2
          <5> QED
            BY ONLY <5>1, ConcatAssociative, SMTT(30)
        <4> QED
          BY <4>1, <4>2, <4>3
      <3> QED
        BY <2>3, <3>1, <3>2
    <2>5. data' = data \o f
      BY <1>9, <2>1
    <2> QED
      BY <1>6, <2>1, <2>4, <2>5
  <1>11. /\ wire' \in [Pushers -> Seq(Blocks)] /\ wire'[peer] = b
         /\ \A p \in Pushers \ {peer} : wire'[p] = wire[p]
    BY <1>2, <1>3, <1>4, <1>5, <1>6
  <1>12. got' = got + k
    BY <1>3, <1>4 DEF Received
  <1>13. Unread(peer) = a \o t /\ Unread(peer)' = b \o t
    BY <1>1, <1>2, <1>4, <1>11 DEF Unread
  <1>14. Len(a \o t) \in Nat /\ Len(Image[peer]) \in Nat /\ n \in Nat /\ k \in Nat
    BY <1>2, <1>5, <1>9, ConcatProperties, ImageOf
  <1>15. got' = Len(data') /\ got' \in Nat
    BY <1>2, <1>5, <1>9, <1>10, <1>12, <1>14
  <1>16. /\ got' + Len(b \o t) <= Len(Image[peer])
         /\ got' + Len(b \o t) = Len(Image[peer]) =>
              k = n /\ got + Len(a \o t) = Len(Image[peer])
    <2>1. got \in Nat /\ got + Len(a \o t) <= Len(Image[peer]) /\ k <= n
      BY <1>2, <1>5, <1>9, <1>13
    <2>2. got' + Len(b \o t) = got + k + (Len(a \o t) - n)
      BY <1>10, <1>12
    <2> QED
      BY <1>14, <2>1, <2>2
  <1>17. got' + Len(b \o t) = Len(Image[peer]) => data' \o (b \o t) = Image[peer]
    BY <1>2, <1>10, <1>13, <1>16
  <1>18. Transfer'
    <2>1. peer' = peer /\ device' = "recv"
      BY <1>1
    <2>2. fd' /\ path' /\ md5' = Image[peer']
      BY <1>2, <1>9, <2>1
    <2>3. /\ got' + Len(Unread(peer)') <= Len(Image[peer'])
          /\ got' + Len(Unread(peer)') = Len(Image[peer']) =>
               data' \o Unread(peer)' = Image[peer']
      BY <1>13, <1>16, <1>17, <2>1
    <2> QED
      BY <1>15, <2>1, <2>2, <2>3 DEF Transfer
  <1> QED
    BY <1>1, <1>8, <1>11, <1>15, <1>18, PullGoesOn

LEMMA RecvFailsStep ==
  ASSUME OtaIInv, RecvFails, UNCHANGED auth
  PROVE  OtaIInv'
  <1>1. /\ device = "recv" /\ Abort /\ HangUp("closed")
        /\ UNCHANGED <<auth, peer, nonce, got, push, tosend, inbox, reply, wire, installed>>
    BY DEF RecvFails, pushVars
  <1>2. path /\ UpdateInv /\ got \in Nat
    BY <1>1 DEF OtaIInv, Transfer, OtaTypeOK
  <1>3. ~fd' /\ (~exists' \/ fault' = "kept")
    BY <1>1, <1>2 DEF Abort
  <1>4. UpdateInv' /\ Whole'
    BY <1>1, <1>2, <1>3, AbortStep DEF Whole
  <1> QED
    BY <1>1, <1>2, <1>3, <1>4, HangUpKeeps

\* Everything was counted, so nothing was lost: the file is the image.  Its digest is
\* right, or the file was not read back whole.
LEMMA OtaEndStep ==
  ASSUME OtaIInv, OtaEnd, UNCHANGED auth
  PROVE  OtaIInv'
  <1> USE DEF OtaIInv
  <1>1. /\ device = "recv" /\ got >= Len(Image[peer]) /\ ~error /\ End(TRUE)
        /\ UNCHANGED <<auth, peer, nonce, got, push, tosend, inbox, reply, wire>>
    BY DEF OtaEnd, pushVars
  <1>2. /\ peer \in Pushers /\ fd /\ md5 = Image[peer] /\ got = Len(data)
        /\ got + Len(Unread(peer)) <= Len(Image[peer])
        /\ got + Len(Unread(peer)) = Len(Image[peer]) => data \o Unread(peer) = Image[peer]
    BY <1>1 DEF Connections, Engaged, Transfer
  <1>3. /\ Unread(peer) \in Seq(Blocks) /\ data \in Seq(Blocks) /\ got \in Nat
        /\ Len(Unread(peer)) \in Nat /\ Len(Image[peer]) \in Nat
    BY <1>2, ImageOf, ConcatProperties DEF OtaTypeOK, UpdateTypeOK, Unread
  <1>4. Len(Unread(peer)) = 0 /\ got + Len(Unread(peer)) = Len(Image[peer])
    BY <1>1, <1>2, <1>3
  <1>5. Unread(peer) = <<>>
    BY <1>3, <1>4
  <1>6. data = Image[peer]
    BY <1>2, <1>3, <1>4, <1>5, ConcatEmptySeq
  <1>7. /\ ~fd' /\ UNCHANGED data /\ last'.ok = ~error'
        /\ \/ ~error' /\ fault' = "none"
           \/ error' /\ fault' = "misread"
    <2>1. EndOpen(TRUE) /\ ~SizeWrong(TRUE)
      BY <1>1, <1>2 DEF End, EndWithoutBegin, SizeWrong
    <2>2. PICK actual : /\ error' = (error \/ SizeWrong(TRUE) \/ Md5Wrong(actual))
                        /\ fault' = IF actual = data THEN "none" ELSE "misread"
      BY <2>1 DEF EndOpen
    <2>3. NoMd5 # data
      BY <1>3, UpdateAssumption
    <2>4. Md5Wrong(actual) <=> actual # data
      BY <1>2, <1>6, <2>3 DEF Md5Wrong
    <2>5. ~fd' /\ UNCHANGED data /\ last'.ok = ~error'
      BY <2>1 DEF EndOpen, Call
    <2> QED
      BY <1>1, <2>1, <2>2, <2>4, <2>5
  <1>8. UpdateInv'
    BY <1>1, EndStep
  <1>9. CASE ~error'
    <2>1. HangUp("ok") /\ installed' = installed \cup {peer}
      BY <1>7, <1>9 DEF OtaEnd
    <2>2. Whole'
      BY <1>1, <1>6, <1>7, <1>9, <2>1 DEF Whole
    <2> QED
      BY <1>1, <1>3, <1>7, <1>8, <2>1, <2>2, HangUpKeeps
  <1>10. CASE error'
    <2>1. HangUp("closed") /\ installed' = installed
      BY <1>7, <1>10 DEF OtaEnd
    <2>2. Whole'
      BY <1>1, <1>2, <1>6, <1>7, <1>10 DEF Whole
    <2> QED
      BY <1>1, <1>3, <1>7, <1>8, <2>1, <2>2, HangUpKeeps
  <1> QED
    BY <1>7, <1>9, <1>10

-----------------------------------------------------------------------------
(* Every step                                                              *)

\* A sketch that updates itself never meets a push.
LEMMA OwnCallStep ==
  ASSUME OtaIInv, OwnCall
  PROVE  OtaIInv'
  <1> USE DEF OtaIInv
  <1>1. /\ device = "sketch" /\ UpdateNext
        /\ UNCHANGED <<auth, device, peer, nonce, got, push, tosend, inbox, reply, wire, conn,
                       installed>>
    BY DEF OwnCall, deviceVars, pushVars, netVars
  <1>2. UpdateInv' /\ UpdateTypeOK'
    BY <1>1, UpdateInvStep DEF UpdateInv
  <1>3. ~Engaged' /\ ~Pulling' /\ ~Engaged /\ ~Pulling
    BY <1>1 DEF Engaged, Pulling
  <1>4. InvitedOnce'
    BY <1>1, <1>3, DeviceInvites
  <1>5. MailOK' /\ OnlyKnownPeers' /\ Connections' /\ Untouched' /\ Transfer' /\ NoSession'
    BY <1>1, <1>3 DEF MailOK, OnlyKnownPeers, Connections, Untouched, Transfer, NoSession
  <1>6. OtaTypeOK'
    BY <1>1, <1>2 DEF OtaTypeOK
  <1> QED
    BY <1>2, <1>4, <1>5, <1>6

LEMMA OtaIInvStep == OtaIInv /\ [NextOta]_otaVars => OtaIInv'
  <1> SUFFICES ASSUME OtaIInv, [NextOta]_otaVars PROVE OtaIInv'
    OBVIOUS
  <1>1. ASSUME Handle PROVE OtaIInv'
    BY <1>1, IgnoreDatagramStep, TakeInviteStep, TakeAnswerStep, AuthTimeoutStep, DialStep,
       DialFailsStep, OtaBeginStep, OtaSetMD5Step, RecvChunkStep, RecvFailsStep, OtaEndStep
       DEF Handle
  <1>2. ASSUME NEW p \in Pushers, Pusher(p) PROVE OtaIInv'
    BY <1>2, PusherStep
  <1>3. ASSUME NEW p \in Pushers, SendInvite(p), UNCHANGED auth PROVE OtaIInv'
    BY <1>3, SendInviteStep
  <1>4. CASE UNCHANGED otaVars
    <2>1. /\ UNCHANGED <<auth, device, peer, nonce, got, push, tosend, inbox, reply, wire,
                         conn, installed>>
          /\ UNCHANGED updateVars
      BY <1>4 DEF otaVars, deviceVars, pushVars, netVars
    <2>2. UpdateInv' /\ UpdateTypeOK'
      BY <2>1, UpdateSame DEF OtaIInv
    <2>3. InvitedOnce' /\ MailOK' /\ OnlyKnownPeers' /\ Connections' /\ Untouched'
      BY <2>1 DEF OtaIInv, InvitedOnce, Invites, Engaged, MailOK, OnlyKnownPeers, Connections,
         Pulling, Untouched
    <2>4. Transfer' /\ NoSession'
      BY <2>1 DEF OtaIInv, Transfer, Unread, NoSession, Whole, updateVars
    <2>5. OtaTypeOK'
      BY <2>1, <2>2 DEF OtaIInv, OtaTypeOK
    <2> QED
      BY <2>2, <2>3, <2>4, <2>5 DEF OtaIInv
  <1> QED
    BY <1>1, <1>2, <1>3, <1>4, OwnCallStep DEF NextOta

\* Between two pushes no session is open, and the file is the whole image of an accepted
\* push or none at all; the two exceptions are the disk's: an image that end() rejected
\* because it could not be read back is whole too, and only a file that abort() could not
\* remove may be a part.  Firmware comes only from a peer that knows the password.
THEOREM OtaInvariant == SpecOta => []OtaInv
  <1>1. OtaIInv => OtaInv
    BY DEF OtaIInv, OtaInv, NoSession, Whole, LeftFileComplete
  <1> QED
    BY <1>1, InitOtaIInv, OtaIInvStep, PTL DEF SpecOta

\* `ota push` reports success only for an image that end() has accepted.
THEOREM OtaOkMeansInstalled == SpecOta => []OkMeansInstalled
  <1>1. OtaIInv => OkMeansInstalled
    BY DEF OtaIInv, Connections, OkMeansInstalled
  <1> QED
    BY <1>1, InitOtaIInv, OtaIInvStep, PTL DEF SpecOta

\* The rules of UpdateInv hold as well when it is the receiver that makes the calls.
THEOREM OtaKeepsUpdateInv == SpecOta => []UpdateInv
  <1>1. OtaIInv => UpdateInv
    BY DEF OtaIInv
  <1> QED
    BY <1>1, InitOtaIInv, OtaIInvStep, PTL DEF SpecOta
==============================================================================
