------------------------- MODULE MqttSession_proofs -------------------------
(***************************************************************************)
(* MqttInv for any number of connections, attempts and packets.            *)
(*                                                                         *)
(* Until recv_packet() gives up inside a packet, what is left of the       *)
(* broker's units, those that have arrived and those to come, starts where *)
(* the client stands, and every message is had, skipped or among them.     *)
(***************************************************************************)
EXTENDS MqttSession, SequenceTheorems, TLAPS

Stream == wire \o out

\* The last unit of a packet.
Ends(u) == u.part = "body" \/ (u.part = "len" /\ u.type = "other")

\* What may come after a unit: the rest of its packet, or another one.
Follows(u, v) ==
  IF Ends(u) THEN v.part = "hdr"
  ELSE v.type = u.type /\ v.id = u.id /\ v.part = IF u.part = "hdr" THEN "len" ELSE "body"

\* s starts where a client at place a, that has read type t, stands; the broker has sent
\* whole packets, and all of them arrive unless the connection ends (u is FALSE).
Framed(s, a, t, u) ==
  /\ \A i \in 1 .. Len(s) - 1 : Follows(s[i], s[i + 1])
  /\ s # <<>> => /\ s[1].part = IF a \in {"len", "body"} THEN a ELSE "hdr"
                 /\ a \in {"len", "body"} => s[1].type = t
  /\ u => IF s = <<>> THEN a \notin {"len", "body"} ELSE Ends(s[Len(s)])

Message(u) == u.part = "body" /\ u.type = "publish"

\* Messages in flight are later than those the callback had; a message is had, skipped,
\* or in flight, unless it was lost behind them when the connection ended.
Flight(s, g, k, m, u) ==
  /\ \A i \in 1 .. Len(s) : Message(s[i]) =>
       /\ \A j \in 1 .. Len(s) : Message(s[j]) /\ i < j => s[i].id < s[j].id
       /\ \A j \in 1 .. Len(g) : g[j] < s[i].id
       /\ \E j \in 1 .. Len(m) : m[j] = s[i].id
  /\ \A n \in 1 .. Len(m) :
       \/ m[n] \in k
       \/ \E j \in 1 .. Len(g) : g[j] = m[n]
       \/ \E i \in 1 .. Len(s) : Message(s[i]) /\ s[i].id = m[n]
       \/ ~u /\ (\A i \in 1 .. Len(s) : Message(s[i]) => s[i].id < m[n])

Told(s) == \A i \in 1 .. Len(s) : s[i].type = "connack" => accepted

Reading == at \in {"hdr", "len", "body"}

Quiet ==
  /\ net # "real" => ~up /\ answered = 0
  /\ ~Reading => caller = "loop"
  /\ ~up => out = <<>>

MqttIInv ==
  /\ MqttTypeOK /\ MessagesInOrder /\ Quiet
  /\ \A n \in 1 .. Len(sent) : sent[n] <= msgs
  /\ Told(Stream)
  /\ ~cut => Framed(Stream, at, type, up) /\ Flight(Stream, got, skipped, sent, up)
  /\ state = "connected" /\ fd /\ ~cut /\ caller = "loop" => accepted

InOrder(g, k, m) ==
  \A i \in 1 .. Len(g) :
    /\ \E n \in 1 .. Len(m) : m[n] = g[i]
    /\ \A j \in 1 .. Len(g) : i < j => g[i] < g[j]
    /\ \A n \in 1 .. Len(m) :
         m[n] < g[i] => m[n] \in k \/ \E j \in 1 .. i : g[j] = m[n]

-----------------------------------------------------------------------------
(* Sequences                                                               *)

LEMMA UnitAt ==
  ASSUME NEW s \in Seq(Units), NEW i \in 1 .. Len(s)
  PROVE  s[i] \in Units /\ s[i].part \in {"hdr", "len", "body"} /\ s[i].type \in Types
         /\ s[i].id \in 0 .. MaxMsgs /\ s[i].id \in Nat
  <1>1. s[i] \in Units
    BY ElementOfSeq
  <1>2. MaxMsgs \in Nat
    BY MqttAssumption
  <1> QED
    BY <1>1, <1>2 DEF Units

LEMMA NumberAt ==
  ASSUME NEW l \in {0, 1}, NEW g \in Seq(l .. MaxMsgs), NEW i \in 1 .. Len(g)
  PROVE  g[i] \in l .. MaxMsgs /\ g[i] \in Nat
  <1>1. g[i] \in l .. MaxMsgs
    BY ElementOfSeq
  <1> QED
    BY <1>1, MqttAssumption

LEMMA CatAt ==
  ASSUME NEW S, NEW s \in Seq(S), NEW t \in Seq(S)
  PROVE  /\ s \o t \in Seq(S) /\ Len(s \o t) = Len(s) + Len(t)
         /\ Len(s) \in Nat /\ Len(t) \in Nat
         /\ \A i \in 1 .. Len(s) : (s \o t)[i] = s[i]
         /\ \A i \in Len(s) + 1 .. Len(s) + Len(t) :
              i - Len(s) \in 1 .. Len(t) /\ (s \o t)[i] = t[i - Len(s)]
  BY ConcatProperties

LEMMA TailAt ==
  ASSUME NEW S, NEW s \in Seq(S), s # <<>>
  PROVE  /\ Tail(s) \in Seq(S) /\ Len(s) \in Nat /\ Len(s) >= 1 /\ Len(Tail(s)) = Len(s) - 1
         /\ \A i \in 1 .. Len(Tail(s)) : i + 1 \in 1 .. Len(s) /\ Tail(s)[i] = s[i + 1]
         /\ Head(s) = s[1] /\ (Tail(s) = <<>> <=> Len(s) = 1)
  <1>1. Len(s) \in Nat /\ Len(s) # 0
    BY EmptySeq, LenProperties
  <1>2. /\ Tail(s) \in Seq(S) /\ Len(Tail(s)) = Len(s) - 1 /\ Head(s) = s[1]
        /\ \A i \in 1 .. Len(Tail(s)) : Tail(s)[i] = s[i + 1]
    BY HeadTailProperties
  <1>3. Tail(s) = <<>> <=> Len(Tail(s)) = 0
    BY <1>2, EmptySeq
  <1> QED
    BY <1>1, <1>2, <1>3

LEMMA OneMoreAt ==
  ASSUME NEW S, NEW s \in Seq(S), NEW x \in S
  PROVE  /\ Append(s, x) \in Seq(S) /\ Len(Append(s, x)) = Len(s) + 1 /\ Len(s) \in Nat
         /\ \A i \in 1 .. Len(s) : Append(s, x)[i] = s[i]
         /\ Append(s, x)[Len(s) + 1] = x
  BY AppendProperties, LenProperties

\* A unit that is read is the first of the stream; one that is delivered stays in its place.
LEMMA StreamRead ==
  ASSUME NEW w \in Seq(Units), NEW o \in Seq(Units), w # <<>>
  PROVE  /\ Tail(w) \o o = Tail(w \o o) /\ w \o o # <<>> /\ Head(w) = (w \o o)[1]
  <1>1. PICK s : s = w \o o
    OBVIOUS
  <1>2. PICK t : t = Tail(w)
    OBVIOUS
  <1>3. /\ t \in Seq(Units) /\ Len(w) \in Nat /\ Len(w) >= 1 /\ Len(t) = Len(w) - 1
        /\ \A i \in 1 .. Len(t) : i + 1 \in 1 .. Len(w) /\ t[i] = w[i + 1]
        /\ Head(w) = w[1]
    BY <1>2, TailAt
  <1>4. /\ s \in Seq(Units) /\ Len(s) = Len(w) + Len(o) /\ Len(o) \in Nat
        /\ \A i \in 1 .. Len(w) : s[i] = w[i]
        /\ \A i \in Len(w) + 1 .. Len(w) + Len(o) : i - Len(w) \in 1 .. Len(o) /\ s[i] = o[i - Len(w)]
    BY <1>1, CatAt
  <1>5. s # <<>>
    BY <1>3, <1>4
  <1>6. PICK x : x = Tail(s)
    OBVIOUS
  <1>7. /\ x \in Seq(Units) /\ Len(x) = Len(s) - 1
        /\ \A i \in 1 .. Len(x) : i + 1 \in 1 .. Len(s) /\ x[i] = s[i + 1]
    BY <1>4, <1>5, <1>6, TailAt
  <1>8. PICK y : y = t \o o
    OBVIOUS
  <1>9. /\ y \in Seq(Units) /\ Len(y) = Len(t) + Len(o)
        /\ \A i \in 1 .. Len(t) : y[i] = t[i]
        /\ \A i \in Len(t) + 1 .. Len(t) + Len(o) : i - Len(t) \in 1 .. Len(o) /\ y[i] = o[i - Len(t)]
    BY <1>3, <1>8, CatAt
  <1>10. \A i \in 1 .. Len(x) : x[i] = y[i]
    <2> TAKE i \in 1 .. Len(x)
    <2>1. CASE i <= Len(t)
      BY <1>3, <1>4, <1>7, <1>9, <2>1
    <2>2. CASE i > Len(t)
      <3>1. i \in Len(t) + 1 .. Len(t) + Len(o) /\ i + 1 \in Len(w) + 1 .. Len(w) + Len(o)
        BY <1>3, <1>4, <1>7, <2>2
      <3>2. y[i] = o[i - Len(t)] /\ s[i + 1] = o[i + 1 - Len(w)]
        BY <1>4, <1>9, <3>1
      <3>3. i - Len(t) = i + 1 - Len(w)
        BY <1>3
      <3> QED
        BY <1>7, <3>2, <3>3
    <2> QED
      BY <1>3, <1>7, <2>1, <2>2
  <1>11. x = y
    <2>1. Len(x) = Len(y)
      BY <1>3, <1>4, <1>7, <1>9
    <2> QED
      BY ONLY <1>7, <1>9, <1>10, <2>1, SeqEqual
  <1> QED
    BY <1>1, <1>2, <1>3, <1>4, <1>5, <1>6, <1>8, <1>11

LEMMA StreamDelivered ==
  ASSUME NEW w \in Seq(Units), NEW o \in Seq(Units), o # <<>>
  PROVE  /\ Append(w, Head(o)) \o Tail(o) = w \o o
         /\ Append(w, Head(o)) \in Seq(Units) /\ Tail(o) \in Seq(Units)
  <1>1. Head(o) \in Units /\ Tail(o) \in Seq(Units) /\ <<Head(o)>> \o Tail(o) = o
    BY HeadTailProperties, HeadTailAppend
  <1>2. Append(w, Head(o)) = w \o <<Head(o)>> /\ <<Head(o)>> \in Seq(Units)
    BY <1>1, AppendIsConcat
  <1>3. (w \o <<Head(o)>>) \o Tail(o) = w \o (<<Head(o)>> \o Tail(o))
    BY <1>1, <1>2, ConcatAssociative
  <1> QED
    BY <1>1, <1>2, <1>3, AppendProperties

-----------------------------------------------------------------------------
(* Packet boundaries                                                       *)

LEMMA FramedMoves ==
  ASSUME NEW s, NEW a, NEW b, NEW t, NEW c, NEW u, Framed(s, a, t, u),
         a \notin {"len", "body"}, b \notin {"len", "body"}
  PROVE  Framed(s, b, c, u)
  BY DEF Framed

LEMMA FramedRead ==
  ASSUME NEW s \in Seq(Units), s # <<>>, NEW a, NEW t, NEW u, Framed(s, a, t, u),
         NEW b, NEW c,
         IF Ends(s[1]) THEN b \notin {"len", "body"}
         ELSE b = (IF s[1].part = "hdr" THEN "len" ELSE "body") /\ c = s[1].type
  PROVE  Framed(Tail(s), b, c, u)
  <1> PICK r : r = Tail(s)
    OBVIOUS
  <1>1. /\ r \in Seq(Units) /\ Len(s) \in Nat /\ Len(s) >= 1 /\ Len(r) = Len(s) - 1
        /\ \A i \in 1 .. Len(r) : i + 1 \in 1 .. Len(s) /\ r[i] = s[i + 1]
        /\ (r = <<>> <=> Len(s) = 1)
    BY TailAt
  <1>2. \A i \in 1 .. Len(s) - 1 : Follows(s[i], s[i + 1])
    BY DEF Framed
  <1>3. \A i \in 1 .. Len(r) - 1 : Follows(r[i], r[i + 1])
    <2> TAKE i \in 1 .. Len(r) - 1
    <2>1. i \in 1 .. Len(r) /\ i + 1 \in 1 .. Len(r) /\ i + 1 \in 1 .. Len(s) - 1
      BY <1>1
    <2>2. r[i] = s[i + 1] /\ r[i + 1] = s[(i + 1) + 1]
      BY <1>1, <2>1
    <2>3. Follows(s[i + 1], s[(i + 1) + 1])
      BY <1>2, <2>1
    <2> QED
      BY <2>2, <2>3
  <1>4. r # <<>> => /\ r[1].part = IF b \in {"len", "body"} THEN b ELSE "hdr"
                    /\ b \in {"len", "body"} => r[1].type = c
    <2> SUFFICES ASSUME r # <<>>
                 PROVE /\ r[1].part = IF b \in {"len", "body"} THEN b ELSE "hdr"
                       /\ b \in {"len", "body"} => r[1].type = c
      OBVIOUS
    <2>1. 1 \in 1 .. Len(s) - 1 /\ 1 \in 1 .. Len(r)
      BY <1>1
    <2>2. Follows(s[1], s[1 + 1]) /\ r[1] = s[1 + 1]
      BY <1>1, <1>2, <2>1
    <2>3. Follows(s[1], r[1])
      BY <2>2
    <2> QED
      BY <2>3 DEF Follows
  <1>5. ASSUME u PROVE IF r = <<>> THEN b \notin {"len", "body"} ELSE Ends(r[Len(r)])
    <2>1. Ends(s[Len(s)])
      BY <1>5 DEF Framed
    <2>2. CASE r = <<>>
      <3>1. Len(s) = 1
        BY <1>1, <2>2
      <3>2. Ends(s[1])
        BY <2>1, <3>1
      <3> QED
        BY <2>2, <3>2
    <2>3. CASE r # <<>>
      <3>1. Len(r) \in 1 .. Len(r) /\ Len(r) + 1 = Len(s)
        BY <1>1, <2>3
      <3>2. r[Len(r)] = s[Len(s)]
        BY <1>1, <3>1
      <3> QED
        BY <2>1, <2>3, <3>2
    <2> QED
      BY <2>2, <2>3
  <1> QED
    BY ONLY <1>3, <1>4, <1>5, r = Tail(s) DEF Framed

\* The connection ends: what has arrived is a part of what was sent.
LEMMA FramedCut ==
  ASSUME NEW w \in Seq(Units), NEW o \in Seq(Units), NEW a, NEW t, NEW u, Framed(w \o o, a, t, u)
  PROVE  Framed(w, a, t, FALSE)
  <1> PICK s : s = w \o o
    OBVIOUS
  <1>1. /\ s \in Seq(Units) /\ Len(s) = Len(w) + Len(o) /\ Len(w) \in Nat /\ Len(o) \in Nat
        /\ \A i \in 1 .. Len(w) : s[i] = w[i]
    BY CatAt
  <1>2. \A i \in 1 .. Len(s) - 1 : Follows(s[i], s[i + 1])
    BY DEF Framed
  <1>3. \A i \in 1 .. Len(w) - 1 : Follows(w[i], w[i + 1])
    <2> TAKE i \in 1 .. Len(w) - 1
    <2>1. i \in 1 .. Len(w) /\ i + 1 \in 1 .. Len(w) /\ i \in 1 .. Len(s) - 1
      BY <1>1
    <2>2. s[i] = w[i] /\ s[i + 1] = w[i + 1] /\ Follows(s[i], s[i + 1])
      BY <1>1, <1>2, <2>1
    <2> QED
      BY <2>2
  <1>4. ASSUME w # <<>>
        PROVE  /\ w[1].part = IF a \in {"len", "body"} THEN a ELSE "hdr"
               /\ a \in {"len", "body"} => w[1].type = t
    <2>1. 1 \in 1 .. Len(w)
      BY <1>1, <1>4, EmptySeq
    <2>2. s # <<>> /\ s[1] = w[1]
      BY <1>1, <2>1
    <2> QED
      BY <2>2 DEF Framed
  <1> QED
    BY ONLY <1>3, <1>4 DEF Framed

\* The broker sends a whole packet.
LEMMA FramedMore ==
  ASSUME NEW s \in Seq(Units), NEW p \in Seq(Units), NEW a, NEW t, Framed(s, a, t, TRUE),
         NEW x, Framed(p, "hdr", x, TRUE), p # <<>>
  PROVE  Framed(s \o p, a, t, TRUE)
  <1> PICK q : q = s \o p
    OBVIOUS
  <1>1. /\ q \in Seq(Units) /\ Len(q) = Len(s) + Len(p) /\ Len(s) \in Nat /\ Len(p) \in Nat
        /\ \A i \in 1 .. Len(s) : q[i] = s[i]
        /\ \A i \in Len(s) + 1 .. Len(s) + Len(p) : i - Len(s) \in 1 .. Len(p) /\ q[i] = p[i - Len(s)]
    BY CatAt
  <1>2. Len(p) >= 1 /\ q # <<>> /\ (s = <<>> <=> Len(s) = 0)
    BY <1>1, EmptySeq
  <1>3. /\ \A i \in 1 .. Len(s) - 1 : Follows(s[i], s[i + 1])
        /\ \A i \in 1 .. Len(p) - 1 : Follows(p[i], p[i + 1])
    BY DEF Framed
  <1>4. p[1].part = "hdr" /\ Ends(p[Len(p)]) /\ (s # <<>> => Ends(s[Len(s)]))
    BY <1>2 DEF Framed
  <1>5. \A i \in 1 .. Len(q) - 1 : Follows(q[i], q[i + 1])
    <2> TAKE i \in 1 .. Len(q) - 1
    <2>1. CASE i < Len(s)
      <3>1. i \in 1 .. Len(s) - 1 /\ i \in 1 .. Len(s) /\ i + 1 \in 1 .. Len(s)
        BY <1>1, <2>1
      <3> QED
        BY <1>1, <1>3, <3>1
    <2>2. CASE i = Len(s)
      <3>1. i \in 1 .. Len(s) /\ i + 1 \in Len(s) + 1 .. Len(s) + Len(p) /\ i + 1 - Len(s) = 1
        BY <1>1, <1>2, <2>2
      <3>2. q[i] = s[Len(s)] /\ q[i + 1] = p[1]
        BY <1>1, <2>2, <3>1
      <3>3. Ends(q[i]) /\ q[i + 1].part = "hdr"
        BY <1>2, <1>4, <3>1, <3>2
      <3> QED
        BY <3>3 DEF Follows
    <2>3. CASE i > Len(s)
      <3>1. /\ i \in Len(s) + 1 .. Len(s) + Len(p) /\ i + 1 \in Len(s) + 1 .. Len(s) + Len(p)
            /\ i - Len(s) \in 1 .. Len(p) - 1 /\ i + 1 - Len(s) = (i - Len(s)) + 1
        BY <1>1, <2>3
      <3>2. q[i] = p[i - Len(s)] /\ q[i + 1] = p[(i - Len(s)) + 1]
        BY <1>1, <3>1
      <3> QED
        BY <1>3, <3>1, <3>2
    <2> QED
      BY <1>1, <2>1, <2>2, <2>3
  <1>6. /\ q[1].part = IF a \in {"len", "body"} THEN a ELSE "hdr"
        /\ a \in {"len", "body"} => q[1].type = t
    <2>1. CASE s = <<>>
      <3>1. a \notin {"len", "body"}
        BY <2>1 DEF Framed
      <3>2. 1 \in Len(s) + 1 .. Len(s) + Len(p) /\ 1 - Len(s) = 1
        BY <1>1, <1>2, <2>1
      <3>3. q[1] = p[1]
        BY <1>1, <3>2
      <3> QED
        BY <1>4, <3>1, <3>3
    <2>2. CASE s # <<>>
      <3>1. 1 \in 1 .. Len(s)
        BY <1>1, <1>2, <2>2
      <3>2. q[1] = s[1]
        BY <1>1, <3>1
      <3> QED
        BY <2>2, <3>2 DEF Framed
    <2> QED
      BY <2>1, <2>2
  <1>7. Ends(q[Len(q)])
    <2>1. Len(q) \in Len(s) + 1 .. Len(s) + Len(p) /\ Len(q) - Len(s) = Len(p)
      BY <1>1, <1>2
    <2>2. q[Len(q)] = p[Len(p)]
      BY <1>1, <2>1
    <2> QED
      BY <1>4, <2>2
  <1> QED
    BY ONLY <1>2, <1>5, <1>6, <1>7, q = s \o p DEF Framed

LEMMA PacketIs ==
  ASSUME NEW t \in Types, NEW id \in 0 .. MaxMsgs
  PROVE  /\ Packet(t, id) \in Seq(Units) /\ Packet(t, id) # <<>>
         /\ Framed(Packet(t, id), "hdr", t, TRUE)
         /\ \A i \in 1 .. Len(Packet(t, id)) : Packet(t, id)[i].type = t /\ Packet(t, id)[i].id = id
         /\ t # "other" => Len(Packet(t, id)) = 3 /\ Packet(t, id)[3].part = "body"
         /\ \A i \in 1 .. Len(Packet(t, id)) : Packet(t, id)[i].part = "body" => i = 3
  <1>1. /\ Unit("hdr", t, id) \in Units /\ Unit("len", t, id) \in Units /\ Unit("body", t, id) \in Units
    BY DEF Unit, Units
  <1>2. CASE t = "other"
    <2>1. Packet(t, id) = <<Unit("hdr", t, id), Unit("len", t, id)>>
      BY <1>2 DEF Packet
    <2> PICK p : p = Packet(t, id)
      OBVIOUS
    <2>2. p \in Seq(Units) /\ p # <<>> /\ Len(p) = 2 /\ p[1] = Unit("hdr", t, id) /\ p[2] = Unit("len", t, id)
      BY <1>1, <2>1
    <2>3. Framed(p, "hdr", t, TRUE)
      BY <1>2, <2>2 DEF Framed, Follows, Ends, Unit
    <2>4. \A i \in 1 .. Len(p) : /\ p[i].type = t /\ p[i].id = id
                                 /\ p[i].part = "body" => i = 3
      <3>1. \A i \in 1 .. Len(p) : i = 1 \/ i = 2
        BY <2>2
      <3> QED
        BY <2>2, <3>1 DEF Unit
    <2>5. t # "other" => Len(p) = 3 /\ p[3].part = "body"
      BY <1>2, <2>2 DEF Unit
    <2> QED
      BY ONLY <2>2, <2>3, <2>4, <2>5, p = Packet(t, id)
  <1>3. CASE t # "other"
    <2>1. Packet(t, id) = <<Unit("hdr", t, id), Unit("len", t, id), Unit("body", t, id)>>
      BY <1>3 DEF Packet
    <2> PICK p : p = Packet(t, id)
      OBVIOUS
    <2>2. /\ p \in Seq(Units) /\ p # <<>> /\ Len(p) = 3 /\ p[1] = Unit("hdr", t, id)
          /\ p[2] = Unit("len", t, id) /\ p[3] = Unit("body", t, id)
      BY <1>1, <2>1
    <2>3. Framed(p, "hdr", t, TRUE)
      BY <1>3, <2>2 DEF Framed, Follows, Ends, Unit
    <2>4. \A i \in 1 .. Len(p) : /\ p[i].type = t /\ p[i].id = id
                                 /\ p[i].part = "body" => i = 3
      <3>1. \A i \in 1 .. Len(p) : i = 1 \/ i = 2 \/ i = 3
        BY <2>2
      <3> QED
        BY <2>2, <3>1 DEF Unit
    <2>5. t # "other" => Len(p) = 3 /\ p[3].part = "body"
      BY <1>3, <2>2 DEF Unit
    <2> QED
      BY ONLY <2>2, <2>3, <2>4, <2>5, p = Packet(t, id)
  <1> QED
    BY <1>2, <1>3

-----------------------------------------------------------------------------
(* Messages in flight                                                      *)

\* A unit that is not the end of a message is read, whatever connect() skips besides.
LEMMA FlightReads ==
  ASSUME NEW s \in Seq(Units), s # <<>>, ~Message(s[1]), NEW g, NEW k, NEW l, k \subseteq l,
         NEW m, NEW u, Flight(s, g, k, m, u)
  PROVE  Flight(Tail(s), g, l, m, u)
  <1> PICK r : r = Tail(s)
    OBVIOUS
  <1>1. /\ r \in Seq(Units) /\ Len(s) \in Nat /\ Len(s) >= 1 /\ Len(r) = Len(s) - 1
        /\ \A i \in 1 .. Len(r) : i + 1 \in 1 .. Len(s) /\ r[i] = s[i + 1]
    BY TailAt
  <1>2. \A i \in 1 .. Len(s) : Message(s[i]) => i - 1 \in 1 .. Len(r) /\ r[i - 1] = s[i]
    <2> TAKE i \in 1 .. Len(s)
    <2> HAVE Message(s[i])
    <2>1. i # 1
      OBVIOUS
    <2>2. i - 1 \in 1 .. Len(r) /\ (i - 1) + 1 = i
      BY <1>1, <2>1
    <2> QED
      BY <1>1, <2>2
  <1>3. \A i \in 1 .. Len(r) : Message(r[i]) =>
          /\ \A j \in 1 .. Len(r) : Message(r[j]) /\ i < j => r[i].id < r[j].id
          /\ \A j \in 1 .. Len(g) : g[j] < r[i].id
          /\ \E j \in 1 .. Len(m) : m[j] = r[i].id
    <2> SUFFICES ASSUME NEW i \in 1 .. Len(r), Message(r[i])
                 PROVE  /\ \A j \in 1 .. Len(r) : Message(r[j]) /\ i < j => r[i].id < r[j].id
                        /\ \A j \in 1 .. Len(g) : g[j] < r[i].id
                        /\ \E j \in 1 .. Len(m) : m[j] = r[i].id
      OBVIOUS
    <2>1. i + 1 \in 1 .. Len(s) /\ r[i] = s[i + 1] /\ Message(s[i + 1])
      BY <1>1
    <2>2. \A j \in 1 .. Len(r) : Message(r[j]) /\ i < j => r[i].id < r[j].id
      <3> TAKE j \in 1 .. Len(r)
      <3>1. j + 1 \in 1 .. Len(s) /\ r[j] = s[j + 1] /\ (i < j => i + 1 < j + 1)
        BY <1>1
      <3> QED
        BY <2>1, <3>1 DEF Flight
    <2> QED
      BY <2>1, <2>2 DEF Flight
  <1>4. \A n \in 1 .. Len(m) :
          \/ m[n] \in l
          \/ \E j \in 1 .. Len(g) : g[j] = m[n]
          \/ \E i \in 1 .. Len(r) : Message(r[i]) /\ r[i].id = m[n]
          \/ ~u /\ (\A i \in 1 .. Len(r) : Message(r[i]) => r[i].id < m[n])
    <2> TAKE n \in 1 .. Len(m)
    <2>1. CASE m[n] \in k \/ \E j \in 1 .. Len(g) : g[j] = m[n]
      BY <2>1
    <2>2. ASSUME NEW i \in 1 .. Len(s), Message(s[i]), s[i].id = m[n]
          PROVE  \E j \in 1 .. Len(r) : Message(r[j]) /\ r[j].id = m[n]
      BY <1>2, <2>2
    <2>3. CASE ~u /\ (\A i \in 1 .. Len(s) : Message(s[i]) => s[i].id < m[n])
      <3>1. \A i \in 1 .. Len(r) : Message(r[i]) => r[i].id < m[n]
        BY <1>1, <2>3
      <3> QED
        BY <2>3, <3>1
    <2> QED
      BY <2>1, <2>2, <2>3 DEF Flight
  <1> QED
    BY ONLY <1>3, <1>4, r = Tail(s) DEF Flight

\* The end of a message is read: the callback has it, or connect() takes it for its answer.
LEMMA FlightHad ==
  ASSUME NEW s \in Seq(Units), s # <<>>, Message(s[1]), NEW g \in Seq(0 .. MaxMsgs),
         NEW h \in Seq(0 .. MaxMsgs), NEW k, NEW l, k \subseteq l, NEW m, NEW u,
         Flight(s, g, k, m, u),
         \/ h = Append(g, s[1].id)
         \/ h = g /\ s[1].id \in l
  PROVE  Flight(Tail(s), h, l, m, u)
  <1> PICK r : r = Tail(s)
    OBVIOUS
  <1>1. /\ r \in Seq(Units) /\ Len(s) \in Nat /\ Len(s) >= 1 /\ Len(r) = Len(s) - 1
        /\ \A i \in 1 .. Len(r) : i + 1 \in 1 .. Len(s) /\ r[i] = s[i + 1]
    BY TailAt
  <1>2. s[1].id \in 0 .. MaxMsgs /\ 1 \in 1 .. Len(s)
    BY <1>1, UnitAt
  <1>3. \A i \in 1 .. Len(r) : Message(r[i]) => s[1].id < r[i].id
    <2> TAKE i \in 1 .. Len(r)
    <2>1. i + 1 \in 1 .. Len(s) /\ r[i] = s[i + 1] /\ 1 < i + 1
      BY <1>1
    <2> QED
      BY <1>2, <2>1 DEF Flight
  <1>4. /\ \A j \in 1 .. Len(h) : h[j] = s[1].id \/ \E n \in 1 .. Len(g) : g[n] = h[j]
        /\ \A n \in 1 .. Len(g) : \E j \in 1 .. Len(h) : h[j] = g[n]
        /\ s[1].id \in l \/ \E j \in 1 .. Len(h) : h[j] = s[1].id
    <2>1. CASE h = g /\ s[1].id \in l
      BY <2>1
    <2>2. CASE h = Append(g, s[1].id)
      <3>1. /\ Len(h) = Len(g) + 1 /\ Len(g) \in Nat /\ h[Len(g) + 1] = s[1].id
            /\ \A i \in 1 .. Len(g) : h[i] = g[i]
        BY ONLY <1>2, <2>2, g \in Seq(0 .. MaxMsgs), OneMoreAt
      <3>2. Len(g) + 1 \in 1 .. Len(h) /\ \A n \in 1 .. Len(g) : n \in 1 .. Len(h)
        BY <3>1
      <3>3. \A j \in 1 .. Len(h) : j = Len(g) + 1 \/ j \in 1 .. Len(g)
        BY <3>1
      <3> QED
        BY <3>1, <3>2, <3>3
    <2> QED
      BY <2>1, <2>2
  <1>5. \A i \in 1 .. Len(r) : Message(r[i]) =>
          /\ \A j \in 1 .. Len(r) : Message(r[j]) /\ i < j => r[i].id < r[j].id
          /\ \A j \in 1 .. Len(h) : h[j] < r[i].id
          /\ \E j \in 1 .. Len(m) : m[j] = r[i].id
    <2> SUFFICES ASSUME NEW i \in 1 .. Len(r), Message(r[i])
                 PROVE  /\ \A j \in 1 .. Len(r) : Message(r[j]) /\ i < j => r[i].id < r[j].id
                        /\ \A j \in 1 .. Len(h) : h[j] < r[i].id
                        /\ \E j \in 1 .. Len(m) : m[j] = r[i].id
      OBVIOUS
    <2>1. i + 1 \in 1 .. Len(s) /\ r[i] = s[i + 1] /\ Message(s[i + 1])
      BY <1>1
    <2>2. \A j \in 1 .. Len(r) : Message(r[j]) /\ i < j => r[i].id < r[j].id
      <3> TAKE j \in 1 .. Len(r)
      <3>1. j + 1 \in 1 .. Len(s) /\ r[j] = s[j + 1] /\ (i < j => i + 1 < j + 1)
        BY <1>1
      <3> QED
        BY <2>1, <3>1 DEF Flight
    <2>3. \A n \in 1 .. Len(g) : g[n] < r[i].id
      BY <2>1 DEF Flight
    <2>4. \A j \in 1 .. Len(h) : h[j] < r[i].id
      BY <1>3, <1>4, <2>3
    <2> QED
      BY <2>1, <2>2, <2>4 DEF Flight
  <1>6. \A n \in 1 .. Len(m) :
          \/ m[n] \in l
          \/ \E j \in 1 .. Len(h) : h[j] = m[n]
          \/ \E i \in 1 .. Len(r) : Message(r[i]) /\ r[i].id = m[n]
          \/ ~u /\ (\A i \in 1 .. Len(r) : Message(r[i]) => r[i].id < m[n])
    <2> TAKE n \in 1 .. Len(m)
    <2>1. CASE m[n] \in k \/ \E j \in 1 .. Len(g) : g[j] = m[n]
      BY <1>4, <2>1
    <2>2. ASSUME NEW i \in 1 .. Len(s), Message(s[i]), s[i].id = m[n]
          PROVE  \/ m[n] \in l
                 \/ \E j \in 1 .. Len(h) : h[j] = m[n]
                 \/ \E j \in 1 .. Len(r) : Message(r[j]) /\ r[j].id = m[n]
      <3>1. CASE i = 1
        BY <1>4, <2>2, <3>1
      <3>2. CASE i # 1
        <4>1. i - 1 \in 1 .. Len(r) /\ (i - 1) + 1 = i
          BY <1>1, <3>2
        <4>2. r[i - 1] = s[i]
          BY <1>1, <4>1
        <4> QED
          BY <2>2, <4>1, <4>2
      <3> QED
        BY <3>1, <3>2
    <2>3. CASE ~u /\ (\A i \in 1 .. Len(s) : Message(s[i]) => s[i].id < m[n])
      <3>1. \A i \in 1 .. Len(r) : Message(r[i]) => r[i].id < m[n]
        BY <1>1, <2>3
      <3> QED
        BY <2>3, <3>1
    <2> QED
      BY <2>1, <2>2, <2>3 DEF Flight
  <1> QED
    BY ONLY <1>5, <1>6, r = Tail(s) DEF Flight

\* The connection ends: what had not arrived is lost, and it is later than what had.
LEMMA FlightCut ==
  ASSUME NEW w \in Seq(Units), NEW o \in Seq(Units), NEW g, NEW k, NEW m, NEW u,
         Flight(w \o o, g, k, m, u)
  PROVE  Flight(w, g, k, m, FALSE)
  <1> PICK s : s = w \o o
    OBVIOUS
  <1>1. /\ s \in Seq(Units) /\ Len(s) = Len(w) + Len(o) /\ Len(w) \in Nat /\ Len(o) \in Nat
        /\ \A i \in 1 .. Len(w) : s[i] = w[i]
    BY CatAt
  <1>2. \A i \in 1 .. Len(w) : i \in 1 .. Len(s) /\ s[i] = w[i]
    BY <1>1
  <1>3. \A i \in 1 .. Len(w) : Message(w[i]) =>
          /\ \A j \in 1 .. Len(w) : Message(w[j]) /\ i < j => w[i].id < w[j].id
          /\ \A j \in 1 .. Len(g) : g[j] < w[i].id
          /\ \E j \in 1 .. Len(m) : m[j] = w[i].id
    BY <1>2 DEF Flight
  <1>4. \A n \in 1 .. Len(m) :
          \/ m[n] \in k
          \/ \E j \in 1 .. Len(g) : g[j] = m[n]
          \/ \E i \in 1 .. Len(w) : Message(w[i]) /\ w[i].id = m[n]
          \/ \A i \in 1 .. Len(w) : Message(w[i]) => w[i].id < m[n]
    <2> TAKE n \in 1 .. Len(m)
    <2>1. ASSUME NEW i \in 1 .. Len(s), Message(s[i]), s[i].id = m[n]
          PROVE  \/ \E j \in 1 .. Len(w) : Message(w[j]) /\ w[j].id = m[n]
                 \/ \A j \in 1 .. Len(w) : Message(w[j]) => w[j].id < m[n]
      <3>1. CASE i <= Len(w)
        <4>1. i \in 1 .. Len(w) /\ w[i] = s[i]
          BY <1>1, <3>1
        <4> QED
          BY <2>1, <4>1
      <3>2. CASE i > Len(w)
        <4>1. \A j \in 1 .. Len(w) : j < i
          BY <1>1, <3>2
        <4> QED
          BY <1>2, <2>1, <4>1 DEF Flight
      <3> QED
        BY <1>1, <3>1, <3>2
    <2>2. CASE \A i \in 1 .. Len(s) : Message(s[i]) => s[i].id < m[n]
      BY <1>2, <2>2
    <2> QED
      BY <2>1, <2>2 DEF Flight
  <1> QED
    BY ONLY <1>3, <1>4 DEF Flight

LEMMA FlightEnds ==
  ASSUME NEW g, NEW k, NEW m
  PROVE  /\ Flight(<<>>, g, k, m, FALSE)
         /\ m = <<>> => Flight(<<>>, g, k, m, TRUE)
  BY DEF Flight

\* The broker sends a packet that is no message.
LEMMA FlightChats ==
  ASSUME NEW s \in Seq(Units), NEW p \in Seq(Units), \A i \in 1 .. Len(p) : ~Message(p[i]),
         NEW g, NEW k, NEW m, Flight(s, g, k, m, TRUE)
  PROVE  Flight(s \o p, g, k, m, TRUE)
  <1> PICK q : q = s \o p
    OBVIOUS
  <1>1. /\ q \in Seq(Units) /\ Len(q) = Len(s) + Len(p) /\ Len(s) \in Nat /\ Len(p) \in Nat
        /\ \A i \in 1 .. Len(s) : q[i] = s[i]
        /\ \A i \in Len(s) + 1 .. Len(s) + Len(p) : i - Len(s) \in 1 .. Len(p) /\ q[i] = p[i - Len(s)]
    BY CatAt
  <1>2. \A i \in 1 .. Len(q) : Message(q[i]) => i \in 1 .. Len(s) /\ q[i] = s[i]
    <2> TAKE i \in 1 .. Len(q)
    <2> HAVE Message(q[i])
    <2>1. ~(i > Len(s))
      <3> SUFFICES ASSUME i > Len(s) PROVE FALSE
        OBVIOUS
      <3>1. i \in Len(s) + 1 .. Len(s) + Len(p)
        BY <1>1
      <3> QED
        BY <1>1, <3>1
    <2> QED
      BY <1>1, <2>1
  <1>3. \A i \in 1 .. Len(s) : i \in 1 .. Len(q) /\ q[i] = s[i]
    BY <1>1
  <1>4. \A i \in 1 .. Len(q) : Message(q[i]) =>
          /\ \A j \in 1 .. Len(q) : Message(q[j]) /\ i < j => q[i].id < q[j].id
          /\ \A j \in 1 .. Len(g) : g[j] < q[i].id
          /\ \E j \in 1 .. Len(m) : m[j] = q[i].id
    BY <1>2 DEF Flight
  <1>5. \A n \in 1 .. Len(m) :
          \/ m[n] \in k
          \/ \E j \in 1 .. Len(g) : g[j] = m[n]
          \/ \E i \in 1 .. Len(q) : Message(q[i]) /\ q[i].id = m[n]
    BY <1>3 DEF Flight
  <1> QED
    BY ONLY <1>4, <1>5, q = s \o p DEF Flight

\* It sends a message, which is later than all before.
LEMMA FlightSent ==
  ASSUME NEW s \in Seq(Units), NEW p \in Seq(Units), NEW n \in 1 .. MaxMsgs,
         Len(p) = 3, Message(p[3]), p[3].id = n, \A i \in 1 .. Len(p) : Message(p[i]) => i = 3,
         NEW g, NEW k, NEW m \in Seq(1 .. MaxMsgs), Flight(s, g, k, m, TRUE),
         \A i \in 1 .. Len(m) : m[i] < n,
         \A j \in 1 .. Len(g) : \E i \in 1 .. Len(m) : m[i] = g[j]
  PROVE  Flight(s \o p, g, k, Append(m, n), TRUE)
  <1> PICK q : q = s \o p
    OBVIOUS
  <1> PICK a : a = Append(m, n)
    OBVIOUS
  <1>1. /\ q \in Seq(Units) /\ Len(q) = Len(s) + Len(p) /\ Len(s) \in Nat
        /\ \A i \in 1 .. Len(s) : q[i] = s[i]
        /\ \A i \in Len(s) + 1 .. Len(s) + Len(p) : i - Len(s) \in 1 .. Len(p) /\ q[i] = p[i - Len(s)]
    BY ONLY q = s \o p, s \in Seq(Units), p \in Seq(Units), CatAt
  <1>2. PICK e : e = Len(s) + 3
    OBVIOUS
  <1>3. e \in 1 .. Len(q) /\ q[e] = p[3] /\ \A i \in 1 .. Len(s) : i < e /\ i \in 1 .. Len(q) /\ q[i] = s[i]
    <2>1. e \in Len(s) + 1 .. Len(s) + Len(p) /\ e - Len(s) = 3
      BY <1>1, <1>2
    <2> QED
      BY <1>1, <1>2, <2>1
  <1>4. \A i \in 1 .. Len(q) : Message(q[i]) => i = e \/ i \in 1 .. Len(s)
    <2> TAKE i \in 1 .. Len(q)
    <2> HAVE Message(q[i])
    <2>1. CASE i > Len(s)
      <3>1. i \in Len(s) + 1 .. Len(s) + Len(p)
        BY <1>1, <2>1
      <3>2. i - Len(s) \in 1 .. Len(p) /\ Message(p[i - Len(s)])
        BY <1>1, <3>1
      <3>3. i - Len(s) = 3
        BY <3>2
      <3> QED
        BY <1>1, <1>2, <3>3
    <2> QED
      BY <1>1, <2>1
  <1>5. /\ Len(a) = Len(m) + 1 /\ Len(m) \in Nat /\ a[Len(m) + 1] = n
        /\ \A i \in 1 .. Len(m) : a[i] = m[i]
    BY ONLY n \in 1 .. MaxMsgs, m \in Seq(1 .. MaxMsgs), a = Append(m, n), OneMoreAt
  <1>6. /\ Len(m) + 1 \in 1 .. Len(a) /\ \A i \in 1 .. Len(m) : i \in 1 .. Len(a) /\ a[i] = m[i]
        /\ \A i \in 1 .. Len(a) : i = Len(m) + 1 \/ i \in 1 .. Len(m)
    BY <1>5
  <1>7. \A i \in 1 .. Len(s) : Message(s[i]) => s[i].id < n
    BY DEF Flight
  <1>8. \A j \in 1 .. Len(g) : g[j] < n
    OBVIOUS
  <1>9. \A i \in 1 .. Len(q) : Message(q[i]) =>
          /\ \A j \in 1 .. Len(q) : Message(q[j]) /\ i < j => q[i].id < q[j].id
          /\ \A j \in 1 .. Len(g) : g[j] < q[i].id
          /\ \E j \in 1 .. Len(a) : a[j] = q[i].id
    <2> SUFFICES ASSUME NEW i \in 1 .. Len(q), Message(q[i])
                 PROVE  /\ \A j \in 1 .. Len(q) : Message(q[j]) /\ i < j => q[i].id < q[j].id
                        /\ \A j \in 1 .. Len(g) : g[j] < q[i].id
                        /\ \E j \in 1 .. Len(a) : a[j] = q[i].id
      OBVIOUS
    <2>1. CASE i = e
      <3>1. \A j \in 1 .. Len(q) : Message(q[j]) => ~(i < j)
        BY <1>2, <1>1, <1>3, <1>4, <2>1
      <3>2. q[i].id = n
        BY <1>3, <2>1
      <3> QED
        BY <1>5, <1>6, <1>8, <3>1, <3>2
    <2>2. CASE i \in 1 .. Len(s)
      <3>1. q[i] = s[i] /\ Message(s[i])
        BY <1>3, <2>2
      <3>2. \A j \in 1 .. Len(q) : Message(q[j]) /\ i < j => q[i].id < q[j].id
        BY <1>3, <1>4, <1>7, <2>2, <3>1 DEF Flight
      <3>3. \E j \in 1 .. Len(a) : a[j] = q[i].id
        <4>1. PICK j \in 1 .. Len(m) : m[j] = s[i].id
          BY <2>2, <3>1 DEF Flight
        <4> QED
          BY <1>6, <3>1, <4>1
      <3> QED
        BY <2>2, <3>1, <3>2, <3>3 DEF Flight
    <2> QED
      BY <1>4, <2>1, <2>2
  <1>10. \A x \in 1 .. Len(a) :
          \/ a[x] \in k
          \/ \E j \in 1 .. Len(g) : g[j] = a[x]
          \/ \E i \in 1 .. Len(q) : Message(q[i]) /\ q[i].id = a[x]
    <2> TAKE x \in 1 .. Len(a)
    <2>1. CASE x = Len(m) + 1
      BY <1>3, <1>5, <2>1
    <2>2. CASE x \in 1 .. Len(m)
      <3>1. a[x] = m[x]
        BY ONLY <1>6, <2>2
      <3>2. \/ m[x] \in k
            \/ \E j \in 1 .. Len(g) : g[j] = m[x]
            \/ \E i \in 1 .. Len(s) : Message(s[i]) /\ s[i].id = m[x]
        BY ONLY <2>2, Flight(s, g, k, m, TRUE) DEF Flight
      <3> QED
        BY ONLY <1>3, <3>1, <3>2
    <2> QED
      BY ONLY <1>6, <2>1, <2>2, x \in 1 .. Len(a)
  <1> QED
    BY ONLY <1>9, <1>10, q = s \o p, a = Append(m, n) DEF Flight

-----------------------------------------------------------------------------
(* What the callback had                                                   *)

LEMMA OrderIs == MessagesInOrder <=> InOrder(got, skipped, sent)
  BY DEF MessagesInOrder, InOrder

LEMMA OrderSkips ==
  ASSUME NEW g, NEW k, NEW l, k \subseteq l, NEW m, InOrder(g, k, m)
  PROVE  InOrder(g, l, m)
  BY DEF InOrder

\* A message that is published is later than all the callback had.
LEMMA OrderSent ==
  ASSUME NEW g \in Seq(0 .. MaxMsgs), NEW k, NEW m \in Seq(1 .. MaxMsgs), NEW n \in 1 .. MaxMsgs,
         \A i \in 1 .. Len(m) : m[i] < n, InOrder(g, k, m)
  PROVE  InOrder(g, k, Append(m, n))
  <1> PICK a : a = Append(m, n)
    OBVIOUS
  <1>1. /\ Len(a) = Len(m) + 1 /\ Len(m) \in Nat /\ a[Len(m) + 1] = n
        /\ \A i \in 1 .. Len(m) : a[i] = m[i]
    BY ONLY n \in 1 .. MaxMsgs, m \in Seq(1 .. MaxMsgs), a = Append(m, n), OneMoreAt
  <1>2. /\ \A i \in 1 .. Len(m) : i \in 1 .. Len(a) /\ a[i] = m[i]
        /\ \A i \in 1 .. Len(a) : i = Len(m) + 1 \/ i \in 1 .. Len(m)
    BY <1>1
  <1>3. \A i \in 1 .. Len(g) : g[i] < n
    BY DEF InOrder
  <1>4. \A i \in 1 .. Len(g) : g[i] \in Nat
    BY NumberAt
  <1>5. \A i \in 1 .. Len(g) : \E x \in 1 .. Len(a) : a[x] = g[i]
    BY <1>2 DEF InOrder
  <1>6. \A i \in 1 .. Len(g), x \in 1 .. Len(a) :
          a[x] < g[i] => a[x] \in k \/ \E j \in 1 .. i : g[j] = a[x]
    <2> TAKE i \in 1 .. Len(g), x \in 1 .. Len(a)
    <2>1. CASE x = Len(m) + 1
      BY <1>1, <1>3, <1>4, <2>1, MqttAssumption
    <2>2. CASE x \in 1 .. Len(m)
      BY <1>2, <2>2 DEF InOrder
    <2> QED
      BY <1>2, <2>1, <2>2
  <1> QED
    BY ONLY <1>5, <1>6, InOrder(g, k, m), a = Append(m, n), ZenonT(30) DEF InOrder

\* The next message of the stream is the next for the callback.
LEMMA OrderGot ==
  ASSUME NEW s \in Seq(Units), s # <<>>, Message(s[1]), NEW g \in Seq(0 .. MaxMsgs), NEW k,
         NEW m \in Seq(1 .. MaxMsgs), NEW u, Flight(s, g, k, m, u), InOrder(g, k, m)
  PROVE  InOrder(Append(g, s[1].id), k, m)
  <1> PICK d : d = s[1].id
    OBVIOUS
  <1> PICK h : h = Append(g, d)
    OBVIOUS
  <1>1. 1 \in 1 .. Len(s) /\ Len(s) \in Nat /\ d \in 0 .. MaxMsgs /\ d \in Nat
    <2>1. 1 \in 1 .. Len(s) /\ Len(s) \in Nat
      BY EmptySeq, LenProperties
    <2> QED
      BY <2>1, UnitAt
  <1>2. /\ Len(h) = Len(g) + 1 /\ Len(g) \in Nat /\ h[Len(g) + 1] = d
        /\ \A i \in 1 .. Len(g) : h[i] = g[i]
    BY ONLY <1>1, g \in Seq(0 .. MaxMsgs), h = Append(g, d), OneMoreAt
  <1>3. /\ \A i \in 1 .. Len(g) : i \in 1 .. Len(h) /\ h[i] = g[i]
        /\ \A i \in 1 .. Len(h) : i = Len(g) + 1 \/ i \in 1 .. Len(g)
    BY <1>2
  <1>4. \A j \in 1 .. Len(g) : g[j] < d
    BY <1>1 DEF Flight
  <1>5. \E n \in 1 .. Len(m) : m[n] = d
    BY <1>1 DEF Flight
  <1>6. \A i \in 1 .. Len(s) : Message(s[i]) => s[i].id >= d /\ s[i].id \in Nat
    <2> TAKE i \in 1 .. Len(s)
    <2>1. s[i].id \in Nat
      BY UnitAt
    <2>2. CASE i = 1
      BY <1>1, <2>2
    <2>3. CASE i > 1
      BY <1>1, <2>1, <2>3 DEF Flight
    <2> QED
      BY <1>1, <2>1, <2>2, <2>3
  <1>7. \A n \in 1 .. Len(m) : m[n] < d => m[n] \in k \/ \E j \in 1 .. Len(g) : g[j] = m[n]
    <2> TAKE n \in 1 .. Len(m)
    <2> HAVE m[n] < d
    <2>1. m[n] \in Nat
      BY NumberAt
    <2>2. ~(\E i \in 1 .. Len(s) : Message(s[i]) /\ s[i].id = m[n])
      BY <1>1, <1>6, <2>1
    <2>3. ~(\A i \in 1 .. Len(s) : Message(s[i]) => s[i].id < m[n])
      BY <1>1, <2>1
    <2> QED
      BY <2>2, <2>3 DEF Flight
  <1>8. \A i \in 1 .. Len(h) :
          /\ \E n \in 1 .. Len(m) : m[n] = h[i]
          /\ \A j \in 1 .. Len(h) : i < j => h[i] < h[j]
          /\ \A n \in 1 .. Len(m) : m[n] < h[i] => m[n] \in k \/ \E j \in 1 .. i : h[j] = m[n]
    <2> TAKE i \in 1 .. Len(h)
    <2>1. CASE i = Len(g) + 1
      <3>1. \A j \in 1 .. Len(h) : ~(i < j)
        BY <1>2, <2>1
      <3>2. \A n \in 1 .. Len(m) : m[n] < h[i] => m[n] \in k \/ \E j \in 1 .. i : h[j] = m[n]
        <4> TAKE n \in 1 .. Len(m)
        <4>1. ASSUME NEW j \in 1 .. Len(g), g[j] = m[n] PROVE \E x \in 1 .. i : h[x] = m[n]
          <5>1. j \in 1 .. i /\ h[j] = m[n]
            BY <1>2, <2>1, <4>1
          <5> QED
            BY <5>1
        <4> QED
          BY <1>2, <1>7, <2>1, <4>1
      <3> QED
        BY <1>2, <1>5, <2>1, <3>1, <3>2
    <2>2. CASE i \in 1 .. Len(g)
      <3>1. h[i] = g[i]
        BY <1>3, <2>2
      <3>2. \A j \in 1 .. Len(h) : i < j => h[i] < h[j]
        BY <1>2, <1>3, <1>4, <2>2, <3>1 DEF InOrder
      <3>3. \A n \in 1 .. Len(m) : m[n] < h[i] => m[n] \in k \/ \E j \in 1 .. i : h[j] = m[n]
        <4> TAKE n \in 1 .. Len(m)
        <4> HAVE m[n] < h[i]
        <4>1. ASSUME NEW j \in 1 .. i, g[j] = m[n] PROVE \E x \in 1 .. i : h[x] = m[n]
          <5>1. j \in 1 .. Len(g)
            BY <1>2, <2>2
          <5>2. h[j] = m[n]
            BY <1>3, <4>1, <5>1
          <5> QED
            BY <5>2
        <4> QED
          BY <2>2, <3>1, <4>1 DEF InOrder
      <3> QED
        BY <2>2, <3>1, <3>2, <3>3 DEF InOrder
    <2> QED
      BY <1>3, <2>1, <2>2
  <1> QED
    BY ONLY <1>8, h = Append(g, d), d = s[1].id, ZenonT(30) DEF InOrder

-----------------------------------------------------------------------------
(* Types                                                                   *)

Flags == {fd, fake, up, reset, accepted, cut} \subseteq BOOLEAN

Control ==
  /\ net \in {"real", "fake", "fail"} /\ state \in States
  /\ at \in {"sketch", "drain", "callback", "ping", "hdr", "len", "body"}
  /\ caller \in {"connect", "loop"} /\ budget \in {"left", "endless"} /\ type \in Types

Counts ==
  /\ asked \in 0 .. MaxAsks /\ answered \in 0 .. asked /\ conns \in 0 .. MaxConns
  /\ msgs \in 0 .. MaxMsgs /\ other \in 0 .. MaxOther

Contents ==
  /\ wire \in Seq(Units) /\ out \in Seq(Units)
  /\ sent \in Seq(1 .. MaxMsgs) /\ got \in Seq(0 .. MaxMsgs) /\ skipped \subseteq 0 .. MaxMsgs

LEMMA TypesAre == MqttTypeOK <=> Flags /\ Control /\ Counts /\ Contents
  BY DEF MqttTypeOK, Flags, Control, Counts, Contents

LEMMA FirstUnit ==
  ASSUME Contents, wire # <<>>
  PROVE  Head(wire) \in Units /\ Tail(wire) \in Seq(Units) /\ Head(wire).type \in Types
         /\ Head(wire).id \in 0 .. MaxMsgs
  <1>1. wire \in Seq(Units)
    BY DEF Contents
  <1>2. Head(wire) \in Units /\ Tail(wire) \in Seq(Units)
    BY ONLY <1>1, wire # <<>>, HeadTailProperties
  <1> QED
    BY <1>2 DEF Units

LEMMA TypesStep == MqttTypeOK /\ Quiet /\ [Next]_vars => MqttTypeOK'
  <1> SUFFICES ASSUME Flags, Control, Counts, Contents, Quiet, [Next]_vars
               PROVE Flags' /\ Control' /\ Counts' /\ Contents'
    BY DEF MqttTypeOK, Flags, Control, Counts, Contents
  <1> USE DEF Next, Connect, Disconnect, Publish, Notice, Loop, Receive, Broker, ConnectAgain,
       ConnectFails, ConnectFake, ConnectNew, LoopCall, Drain, Ping, CallbackReturns, ReadHeader,
       ReadLength, Malformed, ReadBody, ReadEof, GiveUp, Finish, Dispatch, Answer, Hangup, Deliver,
       BrokerAnswers, BrokerPublishes, BrokerChats, BrokerCloses, Await, Abandon, Leave,
       vars, clientVars, brokerVars, linkVars, histVars
  <1>0. /\ fd \in BOOLEAN /\ fake \in BOOLEAN /\ up \in BOOLEAN /\ reset \in BOOLEAN
        /\ accepted \in BOOLEAN /\ cut \in BOOLEAN
    BY DEF Flags
  <1>1. Flags'
    <2>1. fd' \in BOOLEAN
      BY <1>0
    <2>2. fake' \in BOOLEAN
      BY <1>0
    <2>3. up' \in BOOLEAN
      BY <1>0
    <2>4. reset' \in BOOLEAN
      BY <1>0 DEF ResetBySend
    <2>5. accepted' \in BOOLEAN
      BY <1>0
    <2>6. cut' \in BOOLEAN
      BY <1>0
    <2> QED
      BY <2>1, <2>2, <2>3, <2>4, <2>5, <2>6 DEF Flags
  <1>2. Control'
    <2>1. net' = net
      OBVIOUS
    <2>2. state' \in States
      BY DEF Control, States
    <2>3. at' \in {"sketch", "drain", "callback", "ping", "hdr", "len", "body"}
      BY DEF Control
    <2>4. caller' \in {"connect", "loop"}
      BY DEF Control
    <2>5. budget' \in {"left", "endless"}
      BY DEF Control, SpendBudget
    <2>6. type' \in Types
      BY FirstUnit DEF Control, Types
    <2> QED
      BY <2>1, <2>2, <2>3, <2>4, <2>5, <2>6 DEF Control
  <1>3. Counts'
    <2>1. conns' \in 0 .. MaxConns
      BY MqttAssumption DEF Counts
    <2>2. msgs' \in 0 .. MaxMsgs
      BY MqttAssumption DEF Counts
    <2>3. other' \in 0 .. MaxOther
      BY MqttAssumption DEF Counts
    <2>4. asked' \in 0 .. MaxAsks /\ answered' \in 0 .. asked'
      <3>1. asked \in 0 .. MaxAsks /\ answered \in 0 .. asked
        BY DEF Counts
      <3>2. \/ asked' = asked /\ answered' = answered
            \/ asked' = asked + 1 /\ asked < MaxAsks /\ answered' = answered
            \/ asked' = 1 /\ answered' = 0
            \/ asked' = asked /\ answered < asked /\ answered' = answered + 1
        <4>1. CASE ConnectFake
          BY <4>1 DEF Quiet
        <4>2. CASE ~ConnectFake
          BY <4>2
        <4> QED
          BY <4>1, <4>2
      <3> QED
        BY ONLY <3>1, <3>2, MqttAssumption
    <2> QED
      BY <2>1, <2>2, <2>3, <2>4 DEF Counts
  <1>4. Contents'
    <2>1. wire' \in Seq(Units)
      <3>1. \/ wire' = wire
            \/ wire' = <<>>
            \/ wire # <<>> /\ wire' = Tail(wire)
            \/ out # <<>> /\ wire' = Append(wire, Head(out))
        <4>1. CASE Receive
          BY <4>1
        <4>2. CASE Broker
          BY <4>2
        <4>3. CASE ~Receive /\ ~Broker
          BY <4>3
        <4> QED
          BY <4>1, <4>2, <4>3
      <3>2. wire \in Seq(Units) /\ out \in Seq(Units)
        BY DEF Contents
      <3> QED
        BY <3>1, <3>2, FirstUnit, StreamDelivered, EmptySeq
    <2>2. out' \in Seq(Units)
      <3>1. \/ out' = out
            \/ out' = <<>>
            \/ out # <<>> /\ out' = Tail(out)
            \/ \E t \in Types, id \in 0 .. MaxMsgs : out' = out \o Packet(t, id)
        <4>1. 0 \in 0 .. MaxMsgs /\ (msgs < MaxMsgs => msgs + 1 \in 0 .. MaxMsgs)
          BY MqttAssumption DEF Counts
        <4>2. "connack" \in Types /\ "refusal" \in Types /\ "publish" \in Types /\ "other" \in Types
          BY DEF Types
        <4>3. CASE BrokerAnswers
          BY <4>1, <4>2, <4>3
        <4>4. CASE BrokerPublishes
          BY <4>1, <4>2, <4>4
        <4>5. CASE BrokerChats
          BY <4>1, <4>2, <4>5
        <4>6. CASE ~BrokerAnswers /\ ~BrokerPublishes /\ ~BrokerChats
          BY <4>6
        <4> QED
          BY <4>3, <4>4, <4>5, <4>6
      <3>2. wire \in Seq(Units) /\ out \in Seq(Units)
        BY DEF Contents
      <3>3. \A t \in Types, id \in 0 .. MaxMsgs : out \o Packet(t, id) \in Seq(Units)
        BY <3>2, PacketIs, CatAt
      <3>4. <<>> \in Seq(Units) /\ (out # <<>> => Tail(out) \in Seq(Units))
        BY ONLY <3>2, StreamDelivered, EmptySeq
      <3> QED
        BY ONLY <3>1, <3>2, <3>3, <3>4
    <2>3. sent' \in Seq(1 .. MaxMsgs)
      <3>1. sent' = sent \/ sent' = <<>> \/ (sent' = Append(sent, msgs + 1) /\ msgs < MaxMsgs)
        OBVIOUS
      <3>2. sent \in Seq(1 .. MaxMsgs) /\ (msgs < MaxMsgs => msgs + 1 \in 1 .. MaxMsgs)
        BY MqttAssumption DEF Counts, Contents
      <3>3. <<>> \in Seq(1 .. MaxMsgs) /\ \A n \in 1 .. MaxMsgs : Append(sent, n) \in Seq(1 .. MaxMsgs)
        BY ONLY <3>2, OneMoreAt, EmptySeq
      <3> QED
        BY <3>1, <3>2, <3>3
    <2>4. got' \in Seq(0 .. MaxMsgs)
      <3>1. got' = got \/ got' = <<>> \/ (got' = Append(got, Head(wire).id) /\ wire # <<>>)
        OBVIOUS
      <3>2. got \in Seq(0 .. MaxMsgs)
        BY DEF Contents
      <3>3. <<>> \in Seq(0 .. MaxMsgs) /\ \A n \in 0 .. MaxMsgs : Append(got, n) \in Seq(0 .. MaxMsgs)
        BY ONLY <3>2, OneMoreAt, EmptySeq
      <3> QED
        BY <3>1, <3>2, <3>3, FirstUnit
    <2>5. skipped' \subseteq 0 .. MaxMsgs
      <3>1. skipped' = skipped \/ skipped' = {} \/ (skipped' = skipped \cup {Head(wire).id} /\ wire # <<>>)
        OBVIOUS
      <3> QED
        BY <3>1, FirstUnit DEF Contents
    <2> QED
      BY <2>1, <2>2, <2>3, <2>4, <2>5 DEF Contents
  <1> QED
    BY <1>1, <1>2, <1>3, <1>4

-----------------------------------------------------------------------------
(* The steps                                                               *)

\* A step that reads and sends nothing of the broker's.
LEMMA Steady ==
  ASSUME MqttIInv, MqttTypeOK', UNCHANGED <<net, wire, out, answered, msgs, sent, got, skipped>>,
         up' = up, accepted' = accepted, cut => cut',
         \/ cut'
         \/ at \notin {"len", "body"} /\ at' \notin {"len", "body"}
         \/ at' = at /\ type' = type,
         ~Reading' => caller' = "loop",
         state' = "connected" /\ fd' /\ ~cut' /\ caller' = "loop" => accepted
  PROVE  MqttIInv'
  <1>1. Stream' = Stream
    BY DEF Stream
  <1>2. MessagesInOrder'
    BY DEF MqttIInv, MessagesInOrder
  <1>3. Quiet'
    BY DEF MqttIInv, Quiet, Reading
  <1>4. Told(Stream)'
    BY <1>1 DEF MqttIInv, Told
  <1>5. ~cut' => Framed(Stream, at, type, up)' /\ Flight(Stream, got, skipped, sent, up)'
    <2> SUFFICES ASSUME ~cut' PROVE Framed(Stream, at', type', up) /\ Flight(Stream, got, skipped, sent, up)
      BY <1>1
    <2>1. Framed(Stream, at, type, up) /\ Flight(Stream, got, skipped, sent, up)
      BY DEF MqttIInv
    <2> QED
      BY <2>1, FramedMoves
  <1>6. \A n \in 1 .. Len(sent') : sent'[n] <= msgs'
    BY DEF MqttIInv
  <1> QED
    BY <1>2, <1>3, <1>4, <1>5, <1>6 DEF MqttIInv

LEMMA Unread ==
  ASSUME MqttIInv
  PROVE  /\ Stream \in Seq(Units) /\ wire \in Seq(Units) /\ out \in Seq(Units)
         /\ got \in Seq(0 .. MaxMsgs) /\ sent \in Seq(1 .. MaxMsgs)
  <1>1. wire \in Seq(Units) /\ out \in Seq(Units) /\ got \in Seq(0 .. MaxMsgs) /\ sent \in Seq(1 .. MaxMsgs)
    BY DEF MqttIInv, MqttTypeOK
  <1> QED
    BY <1>1, CatAt DEF Stream

\* The first unit that has arrived is read.
LEMMA ReadIs ==
  ASSUME MqttIInv, wire # <<>>, wire' = Tail(wire), UNCHANGED out
  PROVE  Stream # <<>> /\ Stream' = Tail(Stream) /\ Head(wire) = Stream[1]
  <1>1. wire \in Seq(Units) /\ out \in Seq(Units)
    BY Unread
  <1>2. Tail(wire) \o out = Tail(wire \o out) /\ wire \o out # <<>> /\ Head(wire) = (wire \o out)[1]
    BY ONLY <1>1, wire # <<>>, StreamRead
  <1> QED
    BY <1>2 DEF Stream

LEMMA ToldTail ==
  ASSUME NEW s \in Seq(Units), s # <<>>, Told(s)
  PROVE  Told(Tail(s)) /\ (s[1].type = "connack" => accepted)
  <1> PICK r : r = Tail(s)
    OBVIOUS
  <1>1. /\ Len(s) \in Nat /\ Len(s) >= 1
        /\ \A i \in 1 .. Len(r) : i + 1 \in 1 .. Len(s) /\ r[i] = s[i + 1]
    BY TailAt
  <1>2. Told(r)
    BY <1>1 DEF Told
  <1>3. 1 \in 1 .. Len(s)
    BY <1>1
  <1> QED
    BY <1>2, <1>3 DEF Told

LEMMA ReadsOn ==
  ASSUME MqttIInv, MqttTypeOK', ReadHeader \/ (ReadLength /\ at' = "body")
  PROVE  MqttIInv'
  <1>1. /\ wire # <<>> /\ wire' = Tail(wire) /\ UNCHANGED <<net, state, out, answered, msgs, sent, got, skipped, caller>>
        /\ UNCHANGED <<up, accepted, cut, fd>>
    BY DEF ReadHeader, ReadLength, Finish, Dispatch, Answer, brokerVars, histVars
  <1>2. Stream # <<>> /\ Stream' = Tail(Stream) /\ Head(wire) = Stream[1] /\ Stream \in Seq(Units)
    BY <1>1, ReadIs, Unread
  <1> PICK s : s = Stream
    OBVIOUS
  <1>3. Reading'
    BY DEF ReadHeader, Reading
  <1>4. Quiet' /\ MessagesInOrder' /\ (\A n \in 1 .. Len(sent') : sent'[n] <= msgs')
    BY <1>1, <1>3 DEF MqttIInv, Quiet, MessagesInOrder
  <1>5. Told(Stream)'
    <2>1. Told(Tail(s))
      BY <1>2, ToldTail DEF MqttIInv
    <2> QED
      BY <1>1, <1>2, <2>1 DEF Told
  <1>6. ASSUME ~cut' PROVE Framed(Tail(s), at', type', up) /\ Flight(Tail(s), got, skipped, sent, up)
    <2>1. ~cut
      BY <1>1, <1>6
    <2>2. Framed(s, at, type, up) /\ Flight(s, got, skipped, sent, up)
      BY <2>1 DEF MqttIInv
    <2>3. ~Ends(s[1]) /\ at' = (IF s[1].part = "hdr" THEN "len" ELSE "body") /\ type' = s[1].type
      <3>1. CASE ReadHeader
        <4>1. at = "hdr" /\ at' = "len"
          BY <3>1 DEF ReadHeader
        <4>2. s[1].part = "hdr"
          BY <1>2, <2>2, <4>1 DEF Framed
        <4>3. type' = s[1].type
          BY <1>2, <3>1, <4>2 DEF ReadHeader
        <4> QED
          BY <4>1, <4>2, <4>3 DEF Ends
      <3>2. CASE ReadLength /\ at' = "body"
        <4>1. at = "len" /\ type' = type
          BY <3>2 DEF ReadLength, Finish, Dispatch, Answer
        <4>2. s[1].part = "len" /\ s[1].type = type
          BY <1>2, <2>2, <4>1 DEF Framed
        <4>3. type # "other"
          BY <1>2, <3>2, <4>2 DEF ReadLength, Finish, Dispatch, Answer, EmptyBody
        <4> QED
          BY <3>2, <4>1, <4>2, <4>3 DEF Ends
      <3> QED
        BY <3>1, <3>2
    <2>4. ~Message(s[1])
      BY <2>3 DEF Message, Ends
    <2>5. Framed(Tail(s), at', type', up)
      BY <1>2, <2>2, <2>3, FramedRead
    <2>6. Flight(Tail(s), got, skipped, sent, up)
      BY <1>2, <2>2, <2>4, FlightReads
    <2> QED
      BY <2>5, <2>6
  <1>7. ~cut' => Framed(Stream, at, type, up)' /\ Flight(Stream, got, skipped, sent, up)'
    BY <1>1, <1>2, <1>6
  <1>8. state' = "connected" /\ fd' /\ ~cut' /\ caller' = "loop" => accepted'
    BY <1>1 DEF MqttIInv
  <1> QED
    BY <1>4, <1>5, <1>7, <1>8 DEF MqttIInv

\* The unit that is read is the last of its packet, and the client takes it for that.
LEMMA Finishes ==
  ASSUME MqttIInv, MqttTypeOK', NEW full \in BOOLEAN, wire # <<>>,
         Finish(Head(wire).id, full), Leave,
         UNCHANGED <<net, answered, msgs, accepted, sent, cut>>,
         ~cut => Ends(Stream[1]) /\ type = Stream[1].type /\ full = (Stream[1].part = "body")
  PROVE  MqttIInv'
  <1>1. /\ Stream \in Seq(Units) /\ got \in Seq(0 .. MaxMsgs) /\ sent \in Seq(1 .. MaxMsgs)
        /\ got' \in Seq(0 .. MaxMsgs)
    BY Unread DEF MqttTypeOK
  <1>2. caller' = "loop" /\ skipped \subseteq skipped' /\ at' \notin {"len", "body"}
    BY DEF Finish, Dispatch, Answer, Leave
  <1>3. InOrder(got, skipped, sent) /\ Quiet /\ (\A n \in 1 .. Len(sent) : sent[n] <= msgs) /\ Told(Stream)
    BY OrderIs DEF MqttIInv
  <1>4. \A n \in 1 .. Len(sent') : sent'[n] <= msgs'
    BY <1>3
  <1>5. CASE ~(caller = "connect" /\ full /\ type = "refusal")
    <2>1. wire' = Tail(wire) /\ UNCHANGED <<fd, fake, out, up>>
      BY <1>5 DEF Finish, Dispatch, Answer, MqttIInv, MqttTypeOK
    <2>2. Stream # <<>> /\ Stream' = Tail(Stream) /\ Head(wire) = Stream[1]
      BY <2>1, ReadIs
    <2> PICK s : s = Stream
      OBVIOUS
    <2>3. Quiet'
      BY <1>2, <1>3, <2>1 DEF Quiet
    <2>4. Told(Tail(s)) /\ (s[1].type = "connack" => accepted)
      BY <1>1, <1>3, <2>2, ToldTail
    <2>5. Told(Stream)'
      BY <2>2, <2>4 DEF Told
    <2>6. CASE cut
      <3>1. got' = got
        BY <2>6 DEF Finish, Dispatch
      <3>2. InOrder(got', skipped', sent')
        BY <1>2, <1>3, <3>1, OrderSkips
      <3> QED
        BY <1>4, <2>3, <2>5, <2>6, <3>2, OrderIs DEF MqttIInv, MessagesInOrder, InOrder
    <2>7. CASE ~cut
      <3>1. Framed(s, at, type, up) /\ Flight(s, got, skipped, sent, up)
        BY <2>7 DEF MqttIInv
      <3>2. Ends(s[1]) /\ type = s[1].type /\ full = (s[1].part = "body")
        BY <2>7
      <3>3. Framed(Tail(s), at', type', up)
        BY <1>1, <1>2, <2>2, <3>1, <3>2, FramedRead
      <3>4. InOrder(got', skipped', sent) /\ Flight(Tail(s), got', skipped', sent, up)
        <4>1. CASE Message(s[1]) /\ caller = "loop"
          <5>1. got' = Append(got, s[1].id) /\ skipped' = skipped
            BY <2>2, <2>7, <3>2, <4>1 DEF Finish, Dispatch, Message
          <5>2. Flight(Tail(s), got', skipped, sent, up)
            BY <1>1, <2>2, <3>1, <4>1, <5>1, FlightHad
          <5>3. InOrder(got', skipped, sent)
            BY <1>1, <1>3, <2>2, <3>1, <4>1, <5>1, OrderGot
          <5> QED
            BY <5>1, <5>2, <5>3
        <4>2. CASE Message(s[1]) /\ caller # "loop"
          <5>1. got' = got /\ s[1].id \in skipped'
            BY <2>2, <3>2, <4>2 DEF Finish, Message
          <5>2. Flight(Tail(s), got', skipped', sent, up)
            BY <1>1, <1>2, <2>2, <3>1, <4>2, <5>1, FlightHad
          <5> QED
            BY <1>2, <1>3, <5>1, <5>2, OrderSkips
        <4>3. CASE ~Message(s[1])
          <5>1. got' = got
            BY <3>2, <4>3 DEF Finish, Dispatch, Message
          <5>2. Flight(Tail(s), got, skipped', sent, up)
            BY <1>1, <1>2, <2>2, <3>1, <4>3, FlightReads
          <5> QED
            BY <1>2, <1>3, <5>1, <5>2, OrderSkips
        <4> QED
          BY <4>1, <4>2, <4>3
      <3>5. MessagesInOrder'
        BY <3>4 DEF MessagesInOrder, InOrder
      <3>6. (Framed(Stream, at, type, up) /\ Flight(Stream, got, skipped, sent, up))'
        BY <2>1, <2>2, <3>3, <3>4
      <3>7. state' = "connected" /\ fd' => accepted'
        <4>1. CASE caller = "loop"
          BY <2>1, <2>7, <4>1 DEF MqttIInv, Finish, Dispatch
        <4>2. CASE caller # "loop"
          <5>1. state' = "connected" => type = "connack"
            BY <1>5, <4>2 DEF Finish, Answer
          <5> QED
            BY <2>4, <3>2, <5>1
        <4> QED
          BY <4>1, <4>2
      <3> QED
        BY <1>4, <2>3, <2>5, <3>5, <3>6, <3>7 DEF MqttIInv
    <2> QED
      BY <2>6, <2>7
  <1>6. CASE caller = "connect" /\ full /\ type = "refusal"
    <2>1. /\ got' = got /\ skipped' = skipped /\ state' = "refused"
          /\ wire' = <<>> /\ out' = <<>> /\ up' = FALSE
      BY <1>6 DEF Finish, Answer, Hangup
    <2>2. Stream' = <<>>
      BY <2>1 DEF Stream
    <2>3. MessagesInOrder'
      BY <1>3, <2>1 DEF MessagesInOrder, InOrder
    <2>4. Quiet'
      BY <1>2, <1>3, <2>1 DEF Quiet
    <2>5. Told(Stream)'
      BY <2>2 DEF Told
    <2>6. Framed(<<>>, at', type', FALSE)
      BY DEF Framed
    <2>7. (Framed(Stream, at, type, up) /\ Flight(Stream, got, skipped, sent, up))'
      BY <2>1, <2>2, <2>6, FlightEnds
    <2> QED
      BY <1>4, <2>1, <2>3, <2>4, <2>5, <2>7 DEF MqttIInv
  <1> QED
    BY <1>5, <1>6

LEMMA ReadsToTheEnd ==
  ASSUME MqttIInv, MqttTypeOK', ReadBody \/ (ReadLength /\ at' # "body")
  PROVE  MqttIInv'
  <1> PICK s : s = Stream
    OBVIOUS
  <1>1. /\ wire # <<>> /\ Leave /\ UNCHANGED <<net, answered, msgs, accepted, sent, cut>>
        /\ \/ at = "body" /\ Finish(Head(wire).id, TRUE)
           \/ at = "len" /\ TRUE \in EmptyBody(Head(wire)) /\ Finish(Head(wire).id, FALSE)
    BY DEF ReadBody, ReadLength, Finish, Dispatch, Answer
  <1>2. s # <<>> /\ Head(wire) = s[1]
    BY <1>1, Unread, StreamRead DEF Stream
  <1>3. ASSUME ~cut PROVE /\ s[1].part = at /\ s[1].type = type
    BY <1>1, <1>2, <1>3 DEF MqttIInv, Framed
  <1>4. CASE at = "body"
    <2>1. Finish(Head(wire).id, TRUE)
      BY <1>1, <1>4
    <2>2. ~cut => Ends(s[1]) /\ type = s[1].type /\ TRUE = (s[1].part = "body")
      BY <1>3, <1>4 DEF Ends
    <2> QED
      BY <1>1, <2>1, <2>2, Finishes
  <1>5. CASE at = "len"
    <2>1. Finish(Head(wire).id, FALSE) /\ TRUE \in EmptyBody(s[1])
      BY <1>1, <1>2, <1>5
    <2>2. ~cut => Ends(s[1]) /\ type = s[1].type /\ FALSE = (s[1].part = "body")
      BY <1>3, <1>5, <2>1 DEF Ends, EmptyBody
    <2> QED
      BY <1>1, <2>1, <2>2, Finishes
  <1> QED
    BY <1>1, <1>4, <1>5

\* What recv_packet() cannot make sense of ends it inside a packet.
LEMMA ReadsBadly ==
  ASSUME MqttIInv, MqttTypeOK', Malformed
  PROVE  MqttIInv'
  <1>1. /\ wire # <<>> /\ wire' = Tail(wire) /\ cut' /\ caller' = "loop"
        /\ UNCHANGED <<net, out, up, answered, msgs, accepted, sent, got, skipped>>
    BY DEF Malformed, Abandon, Leave, brokerVars
  <1>2. Stream # <<>> /\ Stream' = Tail(Stream) /\ Stream \in Seq(Units)
    BY <1>1, ReadIs, Unread
  <1>3. Told(Tail(Stream))
    BY <1>2, ToldTail DEF MqttIInv
  <1>4. Told(Stream)'
    BY <1>1, <1>2, <1>3 DEF Told
  <1>5. Quiet' /\ MessagesInOrder' /\ (\A n \in 1 .. Len(sent') : sent'[n] <= msgs')
    BY <1>1 DEF MqttIInv, Quiet, MessagesInOrder
  <1> QED
    BY <1>1, <1>4, <1>5 DEF MqttIInv

\* recv_packet() is given up, or the end of the connection is read.
LEMMA ReadsNothing ==
  ASSUME MqttIInv, MqttTypeOK', GiveUp \/ ReadEof
  PROVE  MqttIInv'
  <1>1. UNCHANGED <<net, wire, out, answered, msgs, sent, got, skipped, up, accepted>>
    BY DEF GiveUp, ReadEof, Abandon, brokerVars, linkVars, histVars
  <1>2. CASE GiveUp
    <2>1. /\ caller' = "loop" /\ fd' = fd /\ cut' = (cut \/ at # "hdr") /\ at' \in {"sketch", "ping"}
          /\ IF caller = "connect" THEN state' = "timeout" ELSE state' = state
      BY <1>2 DEF GiveUp, Abandon, Leave
    <2>2. caller \in {"connect", "loop"}
      BY DEF MqttIInv, MqttTypeOK
    <2>3. (cut => cut') /\ (cut' \/ (at \notin {"len", "body"} /\ at' \notin {"len", "body"}))
      BY <1>2, <2>1 DEF GiveUp
    <2>4. state' = "connected" /\ fd' /\ ~cut' /\ caller' = "loop" => accepted
      BY <2>1, <2>2 DEF MqttIInv
    <2> QED
      BY <1>1, <2>1, <2>3, <2>4, Steady
  <1>3. CASE ReadEof
    <2>1. UNCHANGED <<at, type, caller, cut>> /\ fd' = FALSE /\ Reading'
      BY <1>3 DEF ReadEof, histVars, Reading
    <2> QED
      BY <1>1, <2>1, Steady
  <1> QED
    BY <1>2, <1>3

\* What the sketch does with the connection it has, or without one.
LEMMA SketchActs ==
  ASSUME MqttIInv, MqttTypeOK',
         \/ ConnectAgain \/ ConnectFails \/ ConnectFake \/ Publish \/ Notice \/ Loop
  PROVE  MqttIInv'
  <1> USE DEF ConnectAgain, ConnectFails, ConnectFake, Publish, Notice, Loop, LoopCall, Drain, Ping,
              CallbackReturns, Await, vars, clientVars, brokerVars, linkVars, histVars
  <1>1. UNCHANGED <<net, wire, out, answered, msgs, sent, got, skipped, up, accepted, cut>>
    OBVIOUS
  <1>2. at \notin {"len", "body"} /\ at' \notin {"len", "body"} /\ ~Reading
    BY DEF Reading
  <1>3. caller = "loop"
    BY <1>2 DEF MqttIInv, Quiet
  <1>4. ~Reading' => caller' = "loop"
    BY <1>3 DEF Reading
  <1>5. state' = "connected" /\ fd' /\ ~cut' /\ caller' = "loop" => accepted
    BY <1>1, <1>3 DEF MqttIInv
  <1> QED
    BY <1>1, <1>2, <1>4, <1>5, Steady

\* A connection begins, or the sketch ends it.
LEMMA SketchBegins ==
  ASSUME MqttIInv, MqttTypeOK', ConnectNew \/ Disconnect
  PROVE  MqttIInv'
  <1>1. CASE ConnectNew
    <2>1. /\ wire' = <<>> /\ out' = <<>> /\ up' = TRUE /\ sent' = <<>> /\ got' = <<>> /\ skipped' = {}
          /\ cut' = FALSE /\ at' = "hdr" /\ caller' = "connect" /\ net = "real" /\ net' = net
      BY <1>1 DEF ConnectNew, Await
    <2>2. Stream' = <<>>
      BY <2>1 DEF Stream
    <2>3. MessagesInOrder' /\ Quiet' /\ Told(Stream)' /\ (\A n \in 1 .. Len(sent') : sent'[n] <= msgs')
      BY <2>1, <2>2 DEF MessagesInOrder, Quiet, Told, Reading
    <2>4. Framed(<<>>, "hdr", type', TRUE)
      BY DEF Framed
    <2>5. (Framed(Stream, at, type, up) /\ Flight(Stream, got, skipped, sent, up))'
      BY <2>1, <2>2, <2>4, FlightEnds
    <2> QED
      BY <2>1, <2>3, <2>5 DEF MqttIInv
  <1>2. CASE Disconnect
    <2>1. /\ state' = "disconnected"
          /\ UNCHANGED <<net, at, caller, type, answered, msgs, accepted, sent, got, skipped, cut>>
          /\ Hangup \/ UNCHANGED <<fd, fake, wire, out, up>>
      BY <1>2 DEF Disconnect, histVars
    <2>2. CASE UNCHANGED <<fd, fake, wire, out, up>>
      <3>1. ~Reading' => caller' = "loop"
        BY <2>1 DEF MqttIInv, Quiet, Reading
      <3> QED
        BY <2>1, <2>2, <3>1, Steady
    <2>3. CASE Hangup
      <3>1. wire' = <<>> /\ out' = <<>> /\ up' = FALSE
        BY <2>3 DEF Hangup
      <3>2. Stream' = <<>>
        BY <3>1 DEF Stream
      <3>3. MessagesInOrder' /\ Quiet' /\ Told(Stream)' /\ (\A n \in 1 .. Len(sent') : sent'[n] <= msgs')
        BY <2>1, <3>1, <3>2 DEF MqttIInv, MessagesInOrder, Quiet, Told, Reading
      <3>4. Framed(<<>>, at', type', FALSE)
        BY DEF Framed
      <3>5. (Framed(Stream, at, type, up) /\ Flight(Stream, got, skipped, sent, up))'
        BY <3>1, <3>2, <3>4, FlightEnds
      <3> QED
        BY <2>1, <3>3, <3>5 DEF MqttIInv
    <2> QED
      BY <2>1, <2>2, <2>3
  <1> QED
    BY <1>1, <1>2

\* The broker sends a packet: what it says, and what that does to the messages in flight.
LEMMA BrokerSends ==
  ASSUME MqttIInv, MqttTypeOK', up, NEW t \in Types, NEW id \in 0 .. MaxMsgs,
         out' = out \o Packet(t, id), UNCHANGED <<net, clientVars, up, linkVars, histVars>>,
         accepted => accepted', t = "connack" => accepted',
         answered' = answered \/ net = "real",
         \/ t # "publish" /\ UNCHANGED <<msgs, sent>>
         \/ /\ t = "publish" /\ msgs < MaxMsgs /\ id = msgs + 1 /\ msgs' = id
            /\ sent' = Append(sent, id)
  PROVE  MqttIInv'
  <1> PICK s : s = Stream
    OBVIOUS
  <1> PICK p : p = Packet(t, id)
    OBVIOUS
  <1>1. /\ p \in Seq(Units) /\ p # <<>> /\ Framed(p, "hdr", t, TRUE)
        /\ \A i \in 1 .. Len(p) : p[i].type = t /\ p[i].id = id
        /\ t # "other" => Len(p) = 3 /\ p[3].part = "body"
        /\ \A i \in 1 .. Len(p) : p[i].part = "body" => i = 3
    BY ONLY p = Packet(t, id), t \in Types, id \in 0 .. MaxMsgs, PacketIs
  <1>2. /\ s \in Seq(Units) /\ wire \in Seq(Units) /\ out \in Seq(Units)
        /\ got \in Seq(0 .. MaxMsgs) /\ sent \in Seq(1 .. MaxMsgs)
    BY Unread
  <1>3. Stream' = s \o p
    <2>1. p \in Seq(Units) /\ wire \in Seq(Units) /\ out \in Seq(Units)
      BY <1>1, <1>2
    <2>2. wire \o (out \o p) = (wire \o out) \o p
      BY ONLY <2>1, ConcatAssociative
    <2>3. wire' = wire /\ out' = out \o p
      BY DEF linkVars
    <2> QED
      BY <2>2, <2>3 DEF Stream
  <1>4. Quiet'
    BY DEF MqttIInv, Quiet, clientVars, Reading
  <1>5. Told(Stream)'
    <2>1. ASSUME NEW i \in 1 .. Len(s \o p), (s \o p)[i].type = "connack" PROVE accepted'
      <3>1. /\ Len(s \o p) = Len(s) + Len(p) /\ Len(s) \in Nat /\ Len(p) \in Nat
            /\ \A j \in 1 .. Len(s) : (s \o p)[j] = s[j]
            /\ \A j \in Len(s) + 1 .. Len(s) + Len(p) :
                 j - Len(s) \in 1 .. Len(p) /\ (s \o p)[j] = p[j - Len(s)]
        BY ONLY <1>1, <1>2, CatAt
      <3>2. CASE i \in 1 .. Len(s)
        BY <2>1, <3>1, <3>2 DEF MqttIInv, Told
      <3>3. CASE i \in Len(s) + 1 .. Len(s) + Len(p)
        BY <1>1, <2>1, <3>1, <3>3
      <3> QED
        BY <3>1, <3>2, <3>3
    <2> QED
      BY <1>3, <2>1 DEF Told
  <1>6. InOrder(got, skipped, sent) /\ \A n \in 1 .. Len(sent) : sent[n] <= msgs
    BY OrderIs DEF MqttIInv
  <1>7. state' = "connected" /\ fd' /\ ~cut' /\ caller' = "loop" => accepted'
    BY DEF MqttIInv, clientVars, histVars
  <1>8. /\ InOrder(got, skipped, sent') /\ (\A n \in 1 .. Len(sent') : sent'[n] <= msgs')
        /\ ~cut => Flight(s \o p, got, skipped, sent', TRUE)
    <2>1. CASE t # "publish"
      <3>1. UNCHANGED <<msgs, sent>>
        BY <2>1
      <3>2. \A i \in 1 .. Len(p) : ~Message(p[i])
        BY <1>1, <2>1 DEF Message
      <3>3. ~cut => Flight(s \o p, got, skipped, sent, TRUE)
        BY <1>1, <1>2, <3>2, FlightChats DEF MqttIInv
      <3> QED
        BY <1>6, <3>1, <3>3
    <2>2. CASE t = "publish"
      <3>1. msgs < MaxMsgs /\ id = msgs + 1 /\ msgs' = id /\ sent' = Append(sent, id)
        BY <2>2
      <3>2. msgs \in Nat /\ id \in 1 .. MaxMsgs
        BY <3>1, MqttAssumption DEF MqttIInv, MqttTypeOK
      <3>3. \A n \in 1 .. Len(sent) : sent[n] \in Nat
        BY <1>2, NumberAt
      <3>4. \A n \in 1 .. Len(sent) : sent[n] < id
        BY ONLY <1>6, <3>1, <3>2, <3>3
      <3>5. InOrder(got, skipped, sent')
        BY <1>2, <1>6, <3>1, <3>2, <3>4, OrderSent
      <3>6. \A n \in 1 .. Len(sent') : sent'[n] <= msgs'
        <4>1. /\ Len(sent') = Len(sent) + 1 /\ Len(sent) \in Nat /\ sent'[Len(sent) + 1] = id
              /\ \A i \in 1 .. Len(sent) : sent'[i] = sent[i]
          BY ONLY <1>2, <3>1, <3>2, OneMoreAt
        <4> TAKE n \in 1 .. Len(sent')
        <4>2. n \in 1 .. Len(sent) \/ n = Len(sent) + 1
          BY <4>1
        <4> QED
          BY <3>1, <3>2, <3>3, <3>4, <4>1, <4>2
      <3>7. ASSUME ~cut PROVE Flight(s \o p, got, skipped, sent', TRUE)
        <4>1. Flight(s, got, skipped, sent, TRUE)
          BY <3>7 DEF MqttIInv
        <4>2. Len(p) = 3 /\ Message(p[3]) /\ p[3].id = id
          <5>1. Len(p) = 3 /\ p[3].part = "body" /\ 3 \in 1 .. Len(p)
            BY <1>1, <2>2
          <5> QED
            BY <1>1, <2>2, <5>1 DEF Message
        <4>3. \A i \in 1 .. Len(p) : Message(p[i]) => i = 3
          BY <1>1, <2>2 DEF Message, Ends
        <4>4. \A j \in 1 .. Len(got) : \E i \in 1 .. Len(sent) : sent[i] = got[j]
          BY <1>6 DEF InOrder
        <4> QED
          BY <1>1, <1>2, <3>1, <3>2, <3>4, <4>1, <4>2, <4>3, <4>4, FlightSent
      <3> QED
        BY <3>5, <3>6, <3>7
    <2> QED
      BY <2>1, <2>2
  <1>9. ~cut => Framed(s \o p, at, type, TRUE)
    BY <1>1, <1>2, FramedMore DEF MqttIInv
  <1>10. MessagesInOrder'
    BY <1>8 DEF MessagesInOrder, InOrder, histVars
  <1>11. UNCHANGED <<at, type, got, skipped, cut>> /\ up' = TRUE
    BY DEF clientVars, histVars, MqttIInv, MqttTypeOK
  <1>12. ~cut' => (Framed(Stream, at, type, up) /\ Flight(Stream, got, skipped, sent, up))'
    BY <1>3, <1>8, <1>9, <1>11
  <1> QED
    BY <1>4, <1>5, <1>7, <1>8, <1>10, <1>12 DEF MqttIInv

LEMMA BrokerActs ==
  ASSUME MqttIInv, MqttTypeOK', Broker
  PROVE  MqttIInv'
  <1>1. 0 \in 0 .. MaxMsgs /\ (msgs < MaxMsgs => msgs + 1 \in 0 .. MaxMsgs)
    <2>1. MaxMsgs \in Nat /\ msgs \in 0 .. MaxMsgs
      BY MqttAssumption DEF MqttIInv, MqttTypeOK
    <2> QED
      BY ONLY <2>1
  <1>2. "connack" \in Types /\ "refusal" \in Types /\ "publish" \in Types /\ "other" \in Types
    BY DEF Types
  <1>3. up \in BOOLEAN /\ (up => net = "real")
    BY DEF MqttIInv, MqttTypeOK, Quiet
  <1>4. CASE BrokerAnswers
    <2>1. PICK yes \in BOOLEAN : /\ out' = out \o Packet(IF yes THEN "connack" ELSE "refusal", 0)
                                 /\ accepted' = (accepted \/ yes)
      BY <1>4 DEF BrokerAnswers
    <2>2. up /\ UNCHANGED <<net, clientVars, up, linkVars, histVars>> /\ UNCHANGED <<msgs, sent>>
      BY <1>4 DEF BrokerAnswers
    <2>3. CASE yes
      <3>1. out' = out \o Packet("connack", 0) /\ accepted'
        BY <2>1, <2>3
      <3> QED
        BY <1>1, <1>2, <1>3, <2>2, <3>1, BrokerSends
    <2>4. CASE ~yes
      <3>1. out' = out \o Packet("refusal", 0) /\ (accepted => accepted')
        BY <2>1, <2>4
      <3> QED
        BY <1>1, <1>2, <1>3, <2>2, <3>1, BrokerSends
    <2> QED
      BY <2>3, <2>4
  <1>5. CASE BrokerPublishes
    <2>1. /\ up /\ msgs < MaxMsgs /\ msgs' = msgs + 1 /\ out' = out \o Packet("publish", msgs + 1)
          /\ sent' = Append(sent, msgs + 1) /\ UNCHANGED <<answered, accepted>>
          /\ UNCHANGED <<net, clientVars, up, linkVars, histVars>>
      BY <1>5 DEF BrokerPublishes
    <2> QED
      BY <1>1, <1>2, <2>1, BrokerSends
  <1>6. CASE BrokerChats
    <2>1. /\ up /\ out' = out \o Packet("other", 0) /\ UNCHANGED <<answered, accepted, msgs, sent>>
          /\ UNCHANGED <<net, clientVars, up, linkVars, histVars>>
      BY <1>6 DEF BrokerChats
    <2> QED
      BY <1>1, <1>2, <2>1, BrokerSends
  <1>7. CASE Deliver
    <2>1. /\ up /\ out # <<>> /\ wire' = Append(wire, Head(out)) /\ out' = Tail(out)
          /\ UNCHANGED <<net, clientVars, up, answered, msgs, accepted, sent, histVars>>
      BY <1>7 DEF Deliver
    <2>2. Stream' = Stream
      BY <2>1, Unread, StreamDelivered DEF Stream
    <2>3. Quiet' /\ MessagesInOrder' /\ Told(Stream)' /\ (\A n \in 1 .. Len(sent') : sent'[n] <= msgs')
      BY <2>1, <2>2 DEF MqttIInv, Quiet, MessagesInOrder, Told, clientVars, histVars, Reading
    <2>4. /\ ~cut' => (Framed(Stream, at, type, up) /\ Flight(Stream, got, skipped, sent, up))'
          /\ state' = "connected" /\ fd' /\ ~cut' /\ caller' = "loop" => accepted'
      BY <2>1, <2>2 DEF MqttIInv, clientVars, histVars
    <2> QED
      BY <2>3, <2>4 DEF MqttIInv
  <1>8. CASE BrokerCloses
    <2>1. /\ up' = FALSE /\ out' = <<>>
          /\ UNCHANGED <<net, clientVars, answered, msgs, accepted, sent, linkVars, histVars>>
      BY <1>8 DEF BrokerCloses
    <2>2. wire \in Seq(Units) /\ out \in Seq(Units) /\ Stream = wire \o out
      BY Unread DEF Stream
    <2>3. Stream' = wire
      BY <2>1, <2>2, ConcatEmptySeq DEF Stream, linkVars
    <2>4. Told(wire)
      <3>1. /\ Len(wire) \in Nat /\ Len(out) \in Nat /\ Len(wire \o out) = Len(wire) + Len(out)
            /\ \A j \in 1 .. Len(wire) : (wire \o out)[j] = wire[j]
        BY ONLY <2>2, CatAt
      <3>2. \A j \in 1 .. Len(wire) : j \in 1 .. Len(wire \o out) /\ (wire \o out)[j] = wire[j]
        BY <3>1
      <3> QED
        BY <2>2, <3>2 DEF MqttIInv, Told
    <2>5. Quiet' /\ MessagesInOrder' /\ Told(Stream)' /\ (\A n \in 1 .. Len(sent') : sent'[n] <= msgs')
      BY <2>1, <2>3, <2>4 DEF MqttIInv, Quiet, MessagesInOrder, Told, clientVars, histVars, Reading
    <2>6. ~cut => Framed(wire, at, type, FALSE) /\ Flight(wire, got, skipped, sent, FALSE)
      BY <2>2, FramedCut, FlightCut DEF MqttIInv
    <2>7. /\ ~cut' => (Framed(Stream, at, type, up) /\ Flight(Stream, got, skipped, sent, up))'
          /\ state' = "connected" /\ fd' /\ ~cut' /\ caller' = "loop" => accepted'
      BY <2>1, <2>3, <2>6 DEF MqttIInv, clientVars, histVars
    <2> QED
      BY <2>5, <2>7 DEF MqttIInv
  <1> QED
    BY <1>4, <1>5, <1>6, <1>7, <1>8 DEF Broker

-----------------------------------------------------------------------------
LEMMA MqttInit == Init => MqttIInv
  <1> SUFFICES ASSUME Init PROVE MqttIInv
    OBVIOUS
  <1>1. MqttTypeOK
    <2>1. Flags
      BY DEF Init, Flags
    <2>2. Control
      BY DEF Init, Control, States, Types
    <2>3. Counts
      <3>1. {MaxConns, MaxAsks, MaxMsgs, MaxOther} \subseteq Nat
        BY MqttAssumption
      <3>2. asked = 0 /\ answered = 0 /\ conns = 0 /\ msgs = 0 /\ other = 0
        BY DEF Init
      <3> QED
        BY ONLY <3>1, <3>2 DEF Counts
    <2>4. Contents
      BY DEF Init, Contents
    <2> QED
      BY <2>1, <2>2, <2>3, <2>4, TypesAre
  <1>2. Stream = <<>>
    BY DEF Init, Stream
  <1>3. MessagesInOrder /\ Quiet /\ Told(Stream) /\ (\A n \in 1 .. Len(sent) : sent[n] <= msgs)
    BY <1>2 DEF Init, MessagesInOrder, Quiet, Told
  <1>4. Framed(Stream, at, type, up) /\ Flight(Stream, got, skipped, sent, up)
    <2>1. at = "sketch" /\ up = FALSE
      BY DEF Init
    <2>2. Framed(<<>>, at, type, FALSE)
      BY ONLY <2>1 DEF Framed
    <2> QED
      BY <1>2, <2>1, <2>2, FlightEnds
  <1>5. state # "connected"
    BY DEF Init
  <1> QED
    BY <1>1, <1>3, <1>4, <1>5 DEF MqttIInv

LEMMA MqttStep == MqttIInv /\ [Next]_vars => MqttIInv'
  <1> SUFFICES ASSUME MqttIInv, [Next]_vars PROVE MqttIInv'
    OBVIOUS
  <1>1. MqttTypeOK'
    BY TypesStep DEF MqttIInv
  <1>2. CASE Connect \/ Disconnect \/ Publish \/ Notice \/ Loop
    BY <1>1, <1>2, SketchActs, SketchBegins DEF Connect
  <1>3. CASE Receive
    BY <1>1, <1>3, ReadsOn, ReadsToTheEnd, ReadsBadly, ReadsNothing DEF Receive
  <1>4. CASE Broker
    BY <1>1, <1>4, BrokerActs
  <1>5. CASE UNCHANGED vars
    <2>1. UNCHANGED <<net, wire, out, answered, msgs, sent, got, skipped, up, accepted, cut>>
      BY <1>5 DEF vars, brokerVars, linkVars, histVars
    <2>2. UNCHANGED <<at, type, caller, state, fd>>
      BY <1>5 DEF vars, clientVars
    <2>3. /\ ~Reading' => caller' = "loop"
          /\ state' = "connected" /\ fd' /\ ~cut' /\ caller' = "loop" => accepted
      BY <2>1, <2>2 DEF MqttIInv, Quiet, Reading
    <2> QED
      BY <1>1, <2>1, <2>2, <2>3, Steady
  <1> QED
    BY <1>2, <1>3, <1>4, <1>5 DEF Next

LEMMA MqttImplied == MqttIInv => MqttInv
  BY DEF MqttIInv, MqttInv, ConnectedIsAccepted, Quiet, Reading

\* Every variable keeps its type; as long as recv_packet() never gave up inside a packet the
\* callback gets the messages of a connection in order and once each, and misses only those
\* that connect() took for its answer; a client that says it is connected was accepted on the
\* socket it has.
THEOREM MqttInvariant == Spec => []MqttInv
  <1>1. Spec => []MqttIInv
    BY MqttInit, MqttStep, PTL DEF Spec
  <1> QED
    BY <1>1, MqttImplied, PTL
=============================================================================
