--------------------------- MODULE Devices_proofs ----------------------------
(***************************************************************************)
(* What the devices of a sketch guarantee for every size: one part for each *)
(* module that DevicesMC composes.  They share no variable, so that each part *)
(* is about the specification of its own module.                           *)
(***************************************************************************)
EXTENDS NetClient, Touch, Tone, HttpClient, Files, UartPort,
        SequenceTheorems, FiniteSetTheorems, NaturalsInduction, WellFoundedInduction, TLAPS

------------------------------------------------------------------------------
(***************************************************************************)
(* SessionIsItsSockets is an invariant of NetClient for every set of       *)
(* clients and descriptors.  It is inductive only together with what the   *)
(* kernel and the shared_ptr of a socket see to: a descriptor is in use as *)
(* long as a client has it, so that a new socket's is nobody's.            *)
(***************************************************************************)

Sessions ==
  [fd : Fds \cup {0}, conn : 0 .. MaxConns, unverified : BOOLEAN, chain : BOOLEAN,
   name : BOOLEAN]

\* A descriptor is in use exactly as long as a client has it.
InUse ==
  /\ \A c \in Clients : sock[c] # 0 => open[sock[c]] # 0
  /\ \A f \in Fds : open[f] # 0 => \E c \in Clients : sock[c] = f

\* The part of SessionIsItsSockets that is about the session.
SessionOwn ==
  ~renewed =>
    /\ \A t \in talk : t[1] = t[2]
    /\ tls # NoTls => Vouched(tls) /\ sock[Secure] = tls.fd /\ open[tls.fd] = tls.conn
    /\ sock[Secure] # 0 => tls # NoTls

NetInv ==
  /\ NetTypeOK /\ tls \in Sessions /\ (tls # NoTls => tls.fd # 0 /\ tls.conn # 0)
  /\ InUse /\ SessionOwn

-----------------------------------------------------------------------------
(* Descriptors                                                             *)

LEMMA ClientsFinite == IsFiniteSet(Clients) /\ Cardinality(Clients) = Cardinality(Plain) + 1
  BY NetAssumption, FS_AddElement DEF Clients

LEMMA LeastOf ==
  ASSUME NEW T \in SUBSET Nat, T # {}
  PROVE  \E x \in T : \A y \in T : x <= y
  <1>1. PICK x \in T : \A y \in T : ~(<<y, x>> \in OpToRel(<, Nat))
    BY NatLessThanWellFounded, WFMin, Zenon
  <1>2. \A y \in T : ~(y < x)
    BY <1>1 DEF OpToRel
  <1> QED
    BY <1>2

\* There are more descriptors than clients, so that one is free, and it is nobody's.
LEMMA LowestIsFree ==
  ASSUME NetTypeOK, InUse
  PROVE  /\ LowestFree \in Fds /\ LowestFree # 0 /\ open[LowestFree] = 0
         /\ \A c \in Clients : sock[c] # LowestFree
  <1> DEFINE free == {f \in Fds : open[f] = 0}
  <1>1. free # {}
    <2> SUFFICES ASSUME \A f \in Fds : open[f] # 0 PROVE FALSE
      OBVIOUS
    <2> DEFINE of == [f \in Fds |-> CHOOSE c \in Clients : sock[c] = f]
    <2>1. \A f \in Fds : of[f] \in Clients /\ sock[of[f]] = f
      BY DEF InUse
    <2>2. of \in [Fds -> Clients]
      BY <2>1
    <2> HIDE DEF of
    <2>3. Cardinality(Clients) < Cardinality(Fds) /\ IsFiniteSet(Fds)
      BY ClientsFinite, NetAssumption
    <2>4. \E f, g \in Fds : f # g /\ of[f] = of[g]
      BY <2>2, <2>3, ClientsFinite, FS_PigeonHole
    <2> QED
      BY <2>1, <2>4
  <1>2. \E f \in free : \A g \in free : f <= g
    BY <1>1, LeastOf, NetAssumption
  <1>3. LowestFree \in Fds /\ open[LowestFree] = 0
    BY <1>2 DEF LowestFree
  <1> QED
    BY <1>3, NetAssumption DEF InUse

\* A client gets a socket that is in use, or none: the sockets that others have stay as
\* they are, and what nobody has goes.
LEMMA GetsKeeps ==
  ASSUME NetTypeOK, InUse, NEW c \in Clients, NEW f \in Fds \cup {0}, NEW fake \in BOOLEAN,
         NEW o \in [Fds -> 0 .. MaxConns], f # 0 => o[f] # 0,
         \A g \in Fds : open[g] # 0 => o[g] = open[g],
         Gets(c, f, fake, o)
  PROVE  /\ open' \in [Fds -> 0 .. MaxConns] /\ sock' \in [Clients -> Fds \cup {0}]
         /\ pretend' \in [Clients -> BOOLEAN]
         /\ InUse'
         /\ sock'[c] = f /\ (f # 0 => open'[f] = o[f])
         /\ \A d \in Clients \ {c} : sock'[d] = sock[d]
         /\ \A d \in Clients \ {c} : sock[d] # 0 => open'[sock[d]] = open[sock[d]]
  <1>1. sock' \in [Clients -> Fds \cup {0}] /\ pretend' \in [Clients -> BOOLEAN]
    BY DEF Gets, NetTypeOK
  <1>2. sock'[c] = f /\ \A d \in Clients \ {c} : sock'[d] = sock[d]
    BY DEF Gets, NetTypeOK
  <1>3. open' = [g \in Fds |-> IF \E d \in Clients : sock'[d] = g THEN o[g] ELSE 0]
    BY DEF Gets, Swept
  <1>4. open' \in [Fds -> 0 .. MaxConns]
    BY <1>3, NetAssumption
  <1>5. f # 0 => open'[f] = o[f]
    BY <1>2, <1>3
  <1>6. \A d \in Clients \ {c} : sock[d] # 0 => open'[sock[d]] = open[sock[d]]
    BY <1>2, <1>3 DEF InUse, NetTypeOK
  <1>7. InUse'
    <2>1. \A d \in Clients : sock'[d] # 0 => open'[sock'[d]] # 0
      BY <1>2, <1>5, <1>6 DEF InUse
    <2>2. \A g \in Fds : open'[g] # 0 => \E d \in Clients : sock'[d] = g
      BY <1>3
    <2> QED
      BY <2>1, <2>2 DEF InUse
  <1> QED
    BY <1>1, <1>2, <1>4, <1>5, <1>6, <1>7

\* A new connection gets a descriptor that nobody has.
LEMMA DialledIsNew ==
  ASSUME NetTypeOK, InUse, conns < MaxConns
  PROVE  /\ Dialled \in [Fds -> 0 .. MaxConns] /\ LowestFree \in Fds \cup {0}
         /\ Dialled[LowestFree] = conns + 1 /\ conns + 1 # 0 /\ conns + 1 \in 0 .. MaxConns
         /\ \A g \in Fds : open[g] # 0 => Dialled[g] = open[g]
  BY LowestIsFree, NetAssumption DEF NetTypeOK, Dialled

-----------------------------------------------------------------------------
(* Steps                                                                   *)

\* A plain client's calls leave the session of the secure one alone.
LEMMA PlainStep ==
  ASSUME NetInv, NEW c \in Plain, NEW f \in Fds \cup {0}, NEW fake \in BOOLEAN,
         NEW o \in [Fds -> 0 .. MaxConns], f # 0 => o[f] # 0,
         \A g \in Fds : open[g] # 0 => o[g] = open[g],
         Gets(c, f, fake, o), conns' \in 0 .. MaxConns,
         UNCHANGED <<wifiVars, insecure, tls, renewed, talk>>
  PROVE  NetInv'
  <1> USE DEF NetInv
  <1>1. c \in Clients /\ Secure \in Clients \ {c}
    BY NetAssumption DEF Clients
  <1>2. /\ open' \in [Fds -> 0 .. MaxConns] /\ sock' \in [Clients -> Fds \cup {0}]
        /\ pretend' \in [Clients -> BOOLEAN] /\ InUse'
        /\ sock'[Secure] = sock[Secure]
        /\ sock[Secure] # 0 => open'[sock[Secure]] = open[sock[Secure]]
    BY <1>1, GetsKeeps
  <1>3. NetTypeOK'
    BY <1>2 DEF NetTypeOK, wifiVars, WifiStatus
  <1>4. SessionOwn'
    BY <1>2 DEF SessionOwn, Vouched
  <1> QED
    BY <1>2, <1>3, <1>4

LEMMA PlainSteps ==
  ASSUME NetInv,
         \/ \E c \in Plain : PlainConnect(c) \/ PlainStop(c)
         \/ \E c \in Clients, d \in Plain : CopyClient(c, d)
  PROVE  NetInv'
  <1> USE DEF NetInv
  <1>1. /\ open \in [Fds -> 0 .. MaxConns] /\ conns \in 0 .. MaxConns
        /\ \A g \in Fds : open[g] # 0 => open[g] = open[g]
    BY DEF NetTypeOK
  <1>2. ASSUME NEW c \in Plain, PlainConnect(c)
        PROVE  NetInv'
    <2>1. UNCHANGED <<wifiVars, insecure, tls, renewed, talk>>
      BY <1>2 DEF PlainConnect
    <2>2. CASE ConnectNoSocket(c) /\ UNCHANGED conns
      <3>1. PICK fake \in BOOLEAN : Gets(c, 0, fake, open)
        BY <2>2 DEF ConnectNoSocket
      <3> QED
        BY <1>1, <2>1, <2>2, <3>1, PlainStep
    <2>3. CASE conns < MaxConns /\ Gets(c, LowestFree, FALSE, Dialled) /\ conns' = conns + 1
      BY <2>1, <2>3, DialledIsNew, PlainStep
    <2> QED
      BY <1>2, <2>2, <2>3 DEF PlainConnect
  <1>3. ASSUME NEW c \in Plain, PlainStop(c)
        PROVE  NetInv'
    <2>1. /\ Gets(c, 0, FALSE, open)
          /\ UNCHANGED <<wifiVars, insecure, tls, conns, renewed, talk>>
      BY <1>3 DEF PlainStop
    <2> QED
      BY <1>1, <2>1, PlainStep
  <1>4. ASSUME NEW c \in Clients, NEW d \in Plain, CopyClient(c, d)
        PROVE  NetInv'
    <2>1. /\ Gets(d, sock[c], pretend[c], open)
          /\ UNCHANGED <<wifiVars, insecure, tls, conns, renewed, talk>>
      BY <1>4 DEF CopyClient
    <2>2. /\ sock[c] \in Fds \cup {0} /\ pretend[c] \in BOOLEAN
          /\ sock[c] # 0 => open[sock[c]] # 0
      BY DEF NetTypeOK, InUse
    <2> QED
      BY <1>1, <2>1, <2>2, PlainStep
  <1> QED
    BY <1>2, <1>3, <1>4

\* What a session says meanwhile is to the peer its handshake was with.
LEMMA SaysOwn ==
  ASSUME NetInv, ~renewed
  PROVE  \A t \in Says(tls, open) : t[1] = t[2]
  BY DEF NetInv, SessionOwn, Says

LEMMA ConnectStep ==
  ASSUME NetInv, SecureConnect
  PROVE  NetInv'
  <1> USE DEF NetInv
  <1>1. Secure \in Clients
    BY DEF Clients
  <1>2. /\ open \in [Fds -> 0 .. MaxConns] /\ conns \in 0 .. MaxConns
        /\ UNCHANGED <<wifiVars, insecure>> /\ renewed' \in BOOLEAN
        /\ ~renewed' => ~renewed /\ tls = NoTls
    BY DEF SecureConnect, NetTypeOK
  <1>3. CASE /\ \E fake \in BOOLEAN : Gets(Secure, 0, fake, open)
             /\ UNCHANGED <<tls, talk>> /\ conns' \in 0 .. MaxConns
    <2>1. /\ open' \in [Fds -> 0 .. MaxConns] /\ sock' \in [Clients -> Fds \cup {0}]
          /\ pretend' \in [Clients -> BOOLEAN] /\ InUse' /\ sock'[Secure] = 0
      BY <1>1, <1>2, <1>3, GetsKeeps
    <2>2. NetTypeOK'
      BY <1>2, <1>3, <2>1 DEF NetTypeOK, wifiVars, WifiStatus
    <2>3. SessionOwn'
      BY <1>2, <1>3, <2>1 DEF SessionOwn
    <2> QED
      BY <1>3, <2>1, <2>2, <2>3
  <1>4. ASSUME NEW chain \in BOOLEAN, NEW name \in BOOLEAN,
               conns < MaxConns, conns' = conns + 1, Trusted(chain, name),
               tls' = [fd |-> LowestFree, conn |-> conns + 1, unverified |-> insecure,
                       chain |-> chain, name |-> name],
               Gets(Secure, LowestFree, FALSE, Dialled), talk' = Says(tls, open')
        PROVE  NetInv'
    <2>1. LowestFree \in Fds /\ LowestFree # 0 /\ conns + 1 # 0 /\ conns + 1 \in 0 .. MaxConns
      BY <1>4, LowestIsFree, DialledIsNew
    <2>2. /\ open' \in [Fds -> 0 .. MaxConns] /\ sock' \in [Clients -> Fds \cup {0}]
          /\ pretend' \in [Clients -> BOOLEAN] /\ InUse'
          /\ sock'[Secure] = LowestFree /\ open'[LowestFree] = conns + 1
      <3>1. /\ NetTypeOK /\ InUse /\ conns < MaxConns
            /\ Gets(Secure, LowestFree, FALSE, Dialled)
        BY ONLY NetInv, <1>4 DEF NetInv
      <3>2. /\ Dialled \in [Fds -> 0 .. MaxConns] /\ LowestFree \in Fds \cup {0}
            /\ Dialled[LowestFree] = conns + 1 /\ conns + 1 # 0
            /\ \A g \in Fds : open[g] # 0 => Dialled[g] = open[g]
        BY ONLY <3>1, DialledIsNew
      <3> QED
        BY ONLY <1>1, <2>1, <3>1, <3>2, GetsKeeps, ZenonT(30)
    <2>3. tls' \in Sessions /\ tls'.fd = LowestFree /\ tls'.conn = conns + 1 /\ Vouched(tls')
      BY <1>4, <2>1 DEF Sessions, Vouched, Trusted, NetTypeOK
    <2>4. NetTypeOK'
      <3>1. UNCHANGED <<mode, left, rows, insecure>> /\ NetTypeOK
        BY <1>2 DEF wifiVars
      <3>2. WifiStatus' = WifiStatus
        BY ONLY <3>1 DEF WifiStatus
      <3>3. tls'.fd \in Fds /\ tls'.conn \in 0 .. MaxConns /\ conns' \in 0 .. MaxConns
        BY <1>4, <2>1, <2>3
      <3> QED
        BY ONLY <1>2, <2>2, <3>1, <3>2, <3>3 DEF NetTypeOK
    <2>5. SessionOwn'
      <3>1. ~renewed' => \A t \in talk' : t[1] = t[2]
        BY <1>2, <1>4 DEF Says, SessionOwn
      <3>2. tls' # NoTls
        BY <2>1, <2>3 DEF NoTls
      <3> QED
        BY <2>2, <2>3, <3>1, <3>2 DEF SessionOwn
    <2> QED
      BY <2>1, <2>2, <2>3, <2>4, <2>5
  <1>5. CASE ConnectNoSocket(Secure) /\ UNCHANGED <<tls, conns, talk>>
    BY <1>2, <1>3, <1>5 DEF ConnectNoSocket
  <1>6. CASE /\ conns < MaxConns /\ conns' = conns + 1
             /\ Gets(Secure, 0, FALSE, open) /\ UNCHANGED <<tls, talk>>
    <2>1. conns + 1 \in 0 .. MaxConns
      BY <1>2, <1>6, NetAssumption
    <2> QED
      BY <1>3, <1>6, <2>1
  <1> QED
    BY <1>4, <1>5, <1>6 DEF SecureConnect

LEMMA StopStep ==
  ASSUME NetInv, SecureStop
  PROVE  NetInv'
  <1> USE DEF NetInv
  <1>1. /\ talk' = Says(tls, open) /\ tls' = NoTls /\ Gets(Secure, 0, FALSE, open)
        /\ UNCHANGED <<wifiVars, insecure, conns, renewed>> /\ Secure \in Clients
        /\ open \in [Fds -> 0 .. MaxConns]
    BY DEF SecureStop, Forgotten, Clients, NetTypeOK
  <1>2. /\ open' \in [Fds -> 0 .. MaxConns] /\ sock' \in [Clients -> Fds \cup {0}]
        /\ pretend' \in [Clients -> BOOLEAN] /\ InUse' /\ sock'[Secure] = 0
    BY <1>1, GetsKeeps
  <1>3. tls' \in Sessions /\ tls'.fd = 0 /\ tls'.conn = 0
    BY <1>1, NetAssumption DEF NoTls, Sessions
  <1>4. NetTypeOK'
    <2>1. tls'.fd \in Fds \cup {0} /\ tls'.conn \in 0 .. MaxConns
      BY <1>3, NetAssumption
    <2> QED
      BY <1>1, <1>2, <2>1 DEF NetTypeOK, wifiVars, WifiStatus
  <1>5. SessionOwn'
    BY <1>1, <1>2, SaysOwn DEF SessionOwn
  <1> QED
    BY <1>1, <1>2, <1>3, <1>4, <1>5

\* What makes no socket and no session.
LEMMA OtherStep ==
  ASSUME NetInv,
         \/ Associate \/ Disassociate \/ ScanNetworks \/ ScanDelete \/ SetInsecure
         \/ SecureTalk \/ UNCHANGED netVars
  PROVE  NetInv'
  <1> USE DEF NetInv
  <1>1. UNCHANGED <<mode, open, sock, pretend, tls, conns, renewed>>
    BY DEF Associate, Disassociate, ScanNetworks, ScanDelete, SetInsecure, SecureTalk, netVars,
           wifiVars
  <1>2. left' \in BOOLEAN /\ insecure' \in BOOLEAN /\ rows' \in {"none"} \cup RowSources
    BY DEF Associate, Disassociate, ScanNetworks, ScanDelete, SetInsecure, SecureTalk, netVars,
           wifiVars, NetTypeOK
  <1>3. talk' = talk \/ talk' = Says(tls, open)
    BY DEF Associate, Disassociate, ScanNetworks, ScanDelete, SetInsecure, SecureTalk, netVars
  <1>4. NetTypeOK'
    BY <1>1, <1>2 DEF NetTypeOK, WifiStatus
  <1>5. InUse'
    BY <1>1 DEF InUse
  <1>6. SessionOwn'
    BY <1>1, <1>3, SaysOwn DEF SessionOwn, Vouched
  <1> QED
    BY <1>1, <1>4, <1>5, <1>6

-----------------------------------------------------------------------------
LEMMA InitNetInv == InitNet => NetInv
  <1> SUFFICES ASSUME InitNet PROVE NetInv
    OBVIOUS
  <1>1. NoTls \in Sessions /\ NoTls.fd = 0 /\ NoTls.conn = 0
    BY NetAssumption DEF NoTls, Sessions
  <1>2. tls = NoTls /\ talk = {} /\ \A c \in Clients : sock[c] = 0
    BY DEF InitNet
  <1>3. \A f \in Fds : open[f] = 0
    BY DEF InitNet
  <1>4. NetTypeOK
    <2>1. 0 \in 0 .. MaxConns /\ conns = 0
      BY NetAssumption DEF InitNet
    <2>2. /\ open \in [Fds -> 0 .. MaxConns] /\ sock \in [Clients -> Fds \cup {0}]
          /\ pretend \in [Clients -> BOOLEAN] /\ insecure \in BOOLEAN /\ renewed \in BOOLEAN
      BY <2>1 DEF InitNet
    <2>3. /\ mode \in {"fake", "fail", "real"} /\ left \in BOOLEAN
          /\ rows \in {"none"} \cup RowSources
          /\ WifiStatus \in {"connected", "disconnected"}
      BY DEF InitNet, WifiStatus
    <2>4. tls.fd \in Fds \cup {0} /\ tls.conn \in 0 .. MaxConns
      BY <1>1, <1>2, <2>1
    <2> QED
      BY <2>1, <2>2, <2>3, <2>4 DEF NetTypeOK
  <1>5. InUse
    BY <1>2, <1>3 DEF InUse
  <1>6. SessionOwn
    BY <1>2 DEF SessionOwn, Clients
  <1> QED
    BY <1>1, <1>2, <1>4, <1>5, <1>6 DEF NetInv

LEMMA NextNetInv == NetInv /\ [NextNet]_netVars => NetInv'
  BY PlainSteps, ConnectStep, StopStep, OtherStep DEF NextNet

LEMMA NetInvShows == NetInv => SessionIsItsSockets
  BY DEF NetInv, SessionOwn, SessionIsItsSockets

\* What the secure client says by TLS reaches the peer its handshake was with, verified as
\* the sketch had asked, whatever becomes of its socket, if stop() is called before
\* connect() is called again (sim_wifi_secure.cpp).
THEOREM NetSessionIsItsSockets == SpecNet => []SessionIsItsSockets
  <1>1. SpecNet => []NetInv
    BY InitNetInv, NextNetInv, PTL DEF SpecNet
  <1> QED
    BY <1>1, NetInvShows, PTL

------------------------------------------------------------------------------
(***************************************************************************)
(* ReadsWhereAimed is an invariant of Touch for every clock, script,       *)
(* calibration and rotation.                                               *)
(***************************************************************************)

LEMMA OnTheClock == \A x \in Nat : x % Wrap \in 0 .. Wrap - 1
  BY TouchAssumption

LEMMA Ticking ==
  ASSUME TouchTypeOK
  PROVE  Ticks \in 0 .. Wrap - 1 /\ Expiry \in 0 .. Wrap - 1
  <1>1. Ticks \in 0 .. Wrap - 1
    <2>1. booted + time \in Nat
      BY TouchAssumption DEF TouchTypeOK
    <2> QED
      BY <2>1, OnTheClock DEF Ticks
  <1>2. Ticks + InjectFor \in Nat
    BY <1>1, TouchAssumption
  <1> QED
    BY <1>1, <1>2, OnTheClock DEF Expiry

LEMMA Phases ==
  Cycle \in Nat /\ Corners * Cycle \in Nat
  BY TouchAssumption DEF Cycle

\* There is a first tap of the script, or its end, whose window is not over.
LEMMA PassedIs ==
  ASSUME TouchTypeOK
  PROVE  /\ Passed \in index .. Len(Script)
         /\ \A j \in index + 1 .. Passed : Elapsed > Script[j] + ScriptFor
         /\ Passed < Len(Script) => Elapsed <= Script[Passed + 1] + ScriptFor
  <1> DEFINE Here(i) == i < Len(Script) => Elapsed <= Script[i + 1] + ScriptFor
             T == {i \in index .. Len(Script) : Here(i)}
  <1>1. Len(Script) \in Nat /\ index \in 0 .. Len(Script)
    BY TouchAssumption DEF TouchTypeOK
  <1>2. \A j \in 1 .. Len(Script) : Script[j] \in Nat
    BY TouchAssumption
  <1>3. Elapsed \in Nat
    <2>1. Started \in 0 .. Wrap - 1
      BY Ticking DEF Started, TouchTypeOK
    <2>2. Ticks + Wrap - Started \in Nat
      BY <2>1, Ticking, TouchAssumption
    <2> QED
      BY <2>2, OnTheClock DEF Elapsed
  <1>4. Len(Script) \in T /\ T \in SUBSET Nat
    BY <1>1
  <1>5. PICK i \in T : \A k \in T : i <= k
    BY <1>4, LeastOf
  <1>6. ASSUME NEW j \in index + 1 .. i PROVE Elapsed > Script[j] + ScriptFor
    <2>1. j - 1 \in index .. Len(Script) /\ j - 1 < i /\ j \in 1 .. Len(Script)
      BY <1>1, <1>5, <1>6
    <2>2. ~Here(j - 1)
      BY <1>5, <2>1
    <2> QED
      BY <1>2, <1>3, <2>1, <2>2, TouchAssumption
  <1>7. i \in index .. Len(Script) /\ Here(i)
    BY <1>5
  <1> HIDE DEF T, Here
  <1>8. \E k \in index .. Len(Script) :
           /\ \A j \in index + 1 .. k : Elapsed > Script[j] + ScriptFor
           /\ k < Len(Script) => Elapsed <= Script[k + 1] + ScriptFor
    BY <1>6, <1>7 DEF Here
  <1> QED
    BY <1>8 DEF Passed

-----------------------------------------------------------------------------
(* Where a point is seen                                                   *)

Aims == {[x |-> 0, y |-> 1], [x |-> 1, y |-> 1]}

LEMMA AimOf == \A n : PointOf(n) \in Aims
  BY DEF PointOf, Aims

\* Turning a point back undoes the turn to the screen, in each of the eight rotations.
LEMMA RoundTrip ==
  ASSUME NEW r \in 0 .. 7, NEW p \in Aims
  PROVE  convertRawXY(r, "identity", inverse_rotate(r, p)) = p
  <1> USE DEF Aims, convertRawXY, inverse_rotate, Flip, Swap, Odd, Width, Height, HFlip, VFlip
  <1>1. CASE r \in {0, 2, 4, 6}
    BY <1>1
  <1>2. CASE r \in {1, 3, 5, 7}
    BY <1>2
  <1> QED
    BY <1>1, <1>2

\* A point that the driver hands over raw is on the panel too.
LEMMA RawIsOnPanel ==
  ASSUME NEW r \in 0 .. 7, NEW p \in Aims, NEW m
  PROVE  /\ convertRawXY(r, m, p) \in Points
         /\ convertRawXY(r, m, inverse_rotate(r, p)) \in Points
  <1>1. p \in Points /\ Nowhere \in Points
    BY DEF Aims, Points, Nowhere
  <1>2. m = "identity" => convertRawXY(r, m, inverse_rotate(r, p)) = p
    BY RoundTrip
  <1>3. m # "identity" => /\ convertRawXY(r, m, inverse_rotate(r, p)) = Nowhere
                          /\ convertRawXY(r, m, p) = Nowhere
    BY DEF convertRawXY
  <1>4. convertRawXY(r, "identity", p) \in Points
    BY DEF Aims, Points, convertRawXY, Flip, Swap, Odd, Width, Height, HFlip, VFlip
  <1> QED
    BY <1>1, <1>2, <1>3, <1>4

-----------------------------------------------------------------------------
(* The inductive invariant                                                 *)

TouchIInv == ReadsWhereAimed /\ (tap.active => tap.n # 0)

LEMMA TouchInit == InitTouch => TouchIInv
  <1> SUFFICES ASSUME InitTouch PROVE TouchIInv
    OBVIOUS
  <1> USE TouchAssumption
  <1>1. PICK s \in Setups :
           booted = s.booted /\ turn = s.turn /\ scriptOf = s.scriptOf /\ calEnv = s.calEnv
    BY DEF InitTouch
  <1>2. /\ booted \in 0 .. Wrap - 1 /\ turn \in 0 .. 7 /\ calEnv \in BOOLEAN
        /\ scriptOf \in {"panel", "touch", "nobody"}
    BY <1>1
  <1>3. autoCal \in BOOLEAN
    BY <1>2 DEF InitTouch, InitDriver
  <1>4. /\ phase \in 0 .. Corners * Cycle /\ index \in 0 .. Len(Script) /\ start \in 0 .. Wrap - 1
    BY Phases DEF InitTouch, InitDriver
  <1>5. tap \in [n : 0 .. MaxPosts, screen : BOOLEAN, expiry : 0 .. Wrap - 1, active : BOOLEAN]
    BY DEF InitTouch, NoTap
  <1>6. posted \in Seq(0 .. MaxTime) /\ Len(posted) <= MaxPosts
    BY DEF InitTouch
  <1>7. shown = Shown("none", 0, Nowhere)
    BY DEF InitTouch
  <1>8. shown.at \in Points /\ shown.src = "none"
    BY <1>7 DEF Shown, Nowhere, Points
  <1>9. time \in 0 .. MaxTime /\ quiet \in 0 .. Patience
    BY DEF InitTouch
  <1>10. matrix \in {"identity", "own"} /\ mouse \in BOOLEAN /\ clicked = {} /\ played = {}
    BY DEF InitTouch
  <1>11. TouchTypeOK
    BY <1>2, <1>3, <1>4, <1>5, <1>6, <1>8, <1>9, <1>10 DEF TouchTypeOK
  <1>12. ~tap.active
    BY DEF InitTouch, NoTap
  <1> QED
    BY <1>8, <1>11, <1>12 DEF TouchIInv, ReadsWhereAimed

\* Time, the mouse button, the sketch's calibration and a tap that is posted show nothing.
LEMMA BesideKeeps ==
  ASSUME TouchIInv,
         Tick \/ MouseButton \/ SetMatrix \/ (\E screen \in TouchBodies : PostTap(screen))
  PROVE  TouchIInv'
  <1> USE TouchAssumption DEF TouchIInv, ReadsWhereAimed
  <1>1. UNCHANGED <<setupTouch, autoCal, phase, index, start, shown, clicked, played>>
    BY DEF Tick, MouseButton, SetMatrix, PostTap
  <1>2. mouse' \in BOOLEAN
    BY DEF Tick, MouseButton, SetMatrix, PostTap, TouchTypeOK
  <1>3. /\ time' \in 0 .. MaxTime /\ quiet' \in 0 .. Patience /\ matrix' \in {"identity", "own"}
    <2>1. \/ time < MaxTime /\ quiet < Patience /\ time' = time + 1 /\ quiet' = quiet + 1
          \/ UNCHANGED <<time, quiet>>
      BY DEF Tick, MouseButton, SetMatrix, PostTap
    <2>2. matrix' \in {matrix, "own"}
      BY DEF Tick, MouseButton, SetMatrix, PostTap
    <2> QED
      BY <2>1, <2>2, SMTT(30) DEF TouchTypeOK
  <1>4. /\ tap' \in [n : 0 .. MaxPosts, screen : BOOLEAN, expiry : 0 .. Wrap - 1,
                     active : BOOLEAN]
        /\ (tap'.active => tap'.n # 0)
        /\ posted' \in Seq(0 .. MaxTime) /\ Len(posted') <= MaxPosts
    <2>1. CASE UNCHANGED <<tap, posted>>
      <3>1. /\ tap \in [n : 0 .. MaxPosts, screen : BOOLEAN, expiry : 0 .. Wrap - 1,
                        active : BOOLEAN]
            /\ (tap.active => tap.n # 0)
            /\ posted \in Seq(0 .. MaxTime) /\ Len(posted) <= MaxPosts
        BY DEF TouchTypeOK
      <3> QED
        BY ONLY <2>1, <3>1
    <2>2. ASSUME NEW screen \in TouchBodies, PostTap(screen)
          PROVE  /\ tap' \in [n : 0 .. MaxPosts, screen : BOOLEAN, expiry : 0 .. Wrap - 1,
                              active : BOOLEAN]
                 /\ (tap'.active => tap'.n # 0)
                 /\ posted' \in Seq(0 .. MaxTime) /\ Len(posted') <= MaxPosts
      <3>1. Expiry \in 0 .. Wrap - 1
        BY Ticking
      <3>2. /\ tap' = [n |-> Len(posted) + 1, screen |-> screen, expiry |-> Expiry,
                       active |-> TRUE]
            /\ posted' = Append(posted, time) /\ Len(posted) < MaxPosts /\ screen \in BOOLEAN
        BY <2>2 DEF PostTap, TouchBodies
      <3>3. Len(posted) + 1 \in 1 .. MaxPosts
        BY <3>2 DEF TouchTypeOK
      <3>4. tap'.n = Len(posted) + 1
        BY <3>2
      <3>5. posted' \in Seq(0 .. MaxTime) /\ Len(posted') = Len(posted) + 1
        BY <3>2 DEF TouchTypeOK
      <3> QED
        BY <3>1, <3>2, <3>3, <3>4, <3>5
    <2> QED
      BY <2>1, <2>2 DEF Tick, MouseButton, SetMatrix
  <1>5. TouchTypeOK'
    BY <1>1, <1>2, <1>3, <1>4 DEF TouchTypeOK, setupTouch
  <1> QED
    BY <1>1, <1>4, <1>5 DEF setupTouch

\* What a read shows is where it was aimed: the matrix is the identity for all but a mouse
\* on its own.
LEMMA ReadShows ==
  ASSUME TouchIInv, ReadPanel
  PROVE  /\ shown'.at \in Points
         /\ shown'.src \in {"inject", "script"} => shown'.at = PointOf(shown'.n)
         /\ shown'.src = "mouse" /\ (scriptOf # "nobody" \/ calEnv) => shown'.at = PointOf(1)
  <1>1. turn \in 0 .. 7
    BY DEF TouchIInv, ReadsWhereAimed, TouchTypeOK
  <1>2. \A src, n : /\ Seen(src, n).at \in Points /\ Seen(src, n).src = src
                    /\ Seen(src, n).n = n
                    /\ (Forced => Seen(src, n).at = PointOf(n))
    BY <1>1, AimOf, RoundTrip, RawIsOnPanel DEF Seen, Shown, Matrix
  <1>3. \A src, n : Raw(src, n).at \in Points /\ Raw(src, n).src = src
    BY <1>1, AimOf, RawIsOnPanel DEF Raw, Shown
  <1>4. \A src, n : Shown(src, n, Nowhere).at \in Points /\ Shown(src, n, Nowhere).src = src
    BY DEF Shown, Nowhere, Points
  <1>5. \/ Pending /\ shown' = Seen("inject", tap.n)
        \/ shown' = Raw("raw", tap.n)
        \/ Played /\ scriptOf = "panel" /\ shown' = Seen("script", Passed + 1)
        \/ shown' = Raw("driver", Passed + 1)
        \/ shown' = Shown("corner", phase \div Cycle, Nowhere)
        \/ shown' = Seen("mouse", 1)
        \/ shown' = Shown("none", 0, Nowhere)
    BY DEF ReadPanel
  <1> QED
    BY <1>2, <1>3, <1>4, <1>5 DEF Forced

LEMMA ReadKeeps ==
  ASSUME TouchIInv, ReadPanel
  PROVE  TouchIInv'
  <1> USE TouchAssumption DEF TouchIInv, ReadsWhereAimed
  <1>1. UNCHANGED <<booted, turn, scriptOf, calEnv, time, mouse, posted>> /\ quiet' = 0
    BY DEF ReadPanel, setupTouch
  <1>2. matrix' \in {"identity", "own"}
    BY DEF ReadPanel, Matrix, TouchTypeOK
  <1>3. start' \in 0 .. Wrap - 1
    BY Ticking DEF ReadPanel, Started, TouchTypeOK
  <1>4. index' \in 0 .. Len(Script)
    <2>1. index \in 0 .. Len(Script) /\ Passed \in 0 .. Len(Script)
      BY PassedIs DEF TouchTypeOK
    <2>2. index' \in {index, Passed}
      BY DEF ReadPanel
    <2> QED
      BY <2>1, <2>2
  <1>5. phase' \in 0 .. Corners * Cycle
    <2>1. PICK m \in Nat : m = Corners * Cycle
      BY Phases
    <2>2. phase' = IF Calibrating /\ phase < m THEN phase + 1 ELSE phase
      BY <2>1 DEF ReadPanel
    <2>3. phase \in 0 .. m
      BY <2>1 DEF TouchTypeOK
    <2>4. phase' \in 0 .. m
      BY <2>2, <2>3
    <2> QED
      BY <2>1, <2>4
  <1>6. autoCal' \in BOOLEAN
    BY DEF ReadPanel
  <1>7. /\ tap' \in [n : 0 .. MaxPosts, screen : BOOLEAN, expiry : 0 .. Wrap - 1,
                     active : BOOLEAN]
        /\ (tap'.active => tap'.n # 0)
    <2>1. Pending \in BOOLEAN /\ (Pending => tap.active)
      BY DEF Pending, TouchTypeOK
    <2>2. tap' = [tap EXCEPT !.active = Pending]
      BY DEF ReadPanel
    <2>3. tap'.active = Pending /\ tap'.n = tap.n
      BY <2>2 DEF TouchTypeOK
    <2> QED
      BY <2>1, <2>2, <2>3 DEF TouchTypeOK
  <1>8. clicked' \subseteq 1 .. MaxPosts
    <2>1. Pending => tap.n \in 1 .. MaxPosts
      BY DEF Pending, TouchTypeOK
    <2> QED
      BY <2>1 DEF ReadPanel, TouchTypeOK
  <1>9. played' \subseteq 1 .. Len(Script)
    <2>1. Played => Passed + 1 \in 1 .. Len(Script)
      BY PassedIs, SMTT(30) DEF Played, TouchTypeOK
    <2> QED
      BY <2>1 DEF ReadPanel, TouchTypeOK
  <1>10. TouchTypeOK'
    BY <1>1, <1>2, <1>3, <1>4, <1>5, <1>6, <1>7, <1>8, <1>9, ReadShows, SMTT(30) DEF TouchTypeOK, Cycle
  <1> QED
    BY <1>1, <1>7, <1>10, ReadShows

LEMMA TouchKept == TouchIInv /\ [NextTouch]_touchVars => TouchIInv'
  <1> SUFFICES ASSUME TouchIInv, [NextTouch]_touchVars PROVE TouchIInv'
    OBVIOUS
  <1>1. CASE UNCHANGED touchVars
    BY <1>1 DEF touchVars, setupTouch, TouchIInv, ReadsWhereAimed, TouchTypeOK
  <1> QED
    BY <1>1, BesideKeeps, ReadKeeps DEF NextTouch

\* A tap that is posted, scripted for the panel or clicked with the mouse beside them is seen
\* where it was aimed, whichever way the screen is turned.
THEOREM TouchReadsWhereAimed == SpecTouch => []ReadsWhereAimed
  <1>1. TouchIInv => ReadsWhereAimed
    BY DEF TouchIInv
  <1> QED
    BY TouchInit, TouchKept, <1>1, PTL DEF SpecTouch

-----------------------------------------------------------------------------
(* The clock                                                               *)

LEMMA DivMod ==
  ASSUME NEW w \in Nat \ {0}, NEW a \in Int
  PROVE  a \div w \in Int /\ a % w \in 0 .. w - 1 /\ a = w * (a \div w) + (a % w)
  BY SMT

LEMMA ModOf ==
  ASSUME NEW w \in Nat \ {0}, NEW q \in Int, NEW r \in 0 .. w - 1
  PROVE  (w * q + r) % w = r
  BY SMT

LEMMA Distributes ==
  ASSUME NEW w \in Int, NEW k \in Int, NEW l \in Int
  PROVE  w * k + w * l = w * (k + l)
  BY SMT

\* What is added before the turn of the clock is taken off may be added after it.
LEMMA ModAdds ==
  ASSUME NEW a \in Nat, NEW b \in Nat
  PROVE  a % Wrap \in 0 .. Wrap - 1 /\ (a + b) % Wrap = ((a % Wrap) + b) % Wrap
  <1>1. PICK w \in Nat \ {0} : w = Wrap
    BY TouchAssumption
  <1>2. PICK k \in Int : k = a \div w
    BY DivMod
  <1>3. PICK c \in 0 .. w - 1 : c = a % w
    BY DivMod
  <1>4. PICK l \in Int : l = (c + b) \div w
    BY DivMod
  <1>5. PICK r \in 0 .. w - 1 : r = (c + b) % w
    BY DivMod
  <1>6. PICK wk \in Int : wk = w * k
    OBVIOUS
  <1>7. PICK wl \in Int : wl = w * l
    OBVIOUS
  <1>8. a = wk + c
    BY <1>2, <1>3, <1>6, DivMod
  <1>9. c + b = wl + r
    BY <1>4, <1>5, <1>7, DivMod
  <1>10. wk + wl = w * (k + l)
    BY <1>6, <1>7, Distributes
  <1>11. PICK n \in Int : n = k + l
    OBVIOUS
  <1>12. (w * n + r) % w = r
    BY ModOf
  <1>13. a + b = w * n + r
    BY <1>8, <1>9, <1>10, <1>11
  <1> QED
    BY <1>1, <1>3, <1>5, <1>12, <1>13

\* A clock that does not wrap in the next b ticks adds.
LEMMA ClockAdds ==
  ASSUME NEW a \in Nat, NEW b \in Nat, (a % Wrap) + b < Wrap
  PROVE  (a + b) % Wrap = (a % Wrap) + b
  <1>1. PICK w \in Nat \ {0} : w = Wrap
    BY TouchAssumption
  <1>5. a % Wrap \in 0 .. Wrap - 1
    BY ModAdds
  <1>6. (a % Wrap) + b \in 0 .. w - 1
    BY <1>1, <1>5
  <1>2. PICK r \in 0 .. w - 1 : r = (a % Wrap) + b
    BY <1>6
  <1>3. w * 0 + r = r
    BY <1>1
  <1>4. r % w = r
    BY <1>3, ModOf
  <1> QED
    BY <1>1, <1>2, <1>4, ModAdds

\* The time of the last read.
LastRead == time - quiet

-----------------------------------------------------------------------------
(* Posted taps                                                             *)

PostedInTime ==
  /\ quiet <= time
  /\ \A i \in 1 .. Len(posted) : posted[i] <= time
  /\ tap.n = Len(posted)
  /\ Len(posted) # 0 => tap.expiry = (booted + posted[Len(posted)] + InjectFor) % Wrap

\* The last tap posted is active until a read comes after its window; a read within it has
\* clicked it, and one after it shows it no more.
TapIsLive(n) ==
  LET over == posted[n] + InjectFor IN
  /\ LastRead < over => tap.active
  /\ LastRead > posted[n] => n \in clicked
  /\ LastRead >= over => ~tap.active /\ (shown.src \in {"inject", "raw"} => shown.n # n)

ClickedOnce(n) == n \in clicked /\ (shown.src \in {"inject", "raw"} => shown.n # n)

PostedInv ==
  /\ TouchIInv /\ PostedInTime
  /\ \A n \in 1 .. Len(posted) :
       /\ n = Len(posted) /\ InOneTurn(n) => TapIsLive(n)
       /\ n < Len(posted) /\ InOneTurn(n) /\ Undisturbed(n) => ClickedOnce(n)

\* By the time a window is over and the sketch has read since, the tap has been clicked.
LEMMA WindowOver ==
  ASSUME TouchTypeOK, NEW n \in 1 .. Len(posted), TapIsLive(n),
         time > posted[n] + InjectFor + Patience
  PROVE  ClickedOnce(n)
  <1>1. /\ posted[n] \in Nat /\ InjectFor \in Nat /\ Patience \in Nat
        /\ time \in Nat /\ quiet \in Nat /\ quiet <= Patience
    <2>1. PICK S : S = 0 .. MaxTime
      OBVIOUS
    <2>2. posted \in Seq(S)
      BY <2>1 DEF TouchTypeOK
    <2>3. posted[n] \in S
      BY <2>2
    <2> QED
      BY <2>1, <2>3, TouchAssumption DEF TouchTypeOK
  <1>2. LastRead >= posted[n] + InjectFor /\ LastRead > posted[n]
    BY <1>1, TouchAssumption DEF LastRead
  <1> QED
    BY <1>2 DEF TapIsLive, ClickedOnce

LEMMA PostedShows == PostedInv => PostedTapsAreClicks
  <1> SUFFICES ASSUME PostedInv, NEW n \in 1 .. Len(posted), Undisturbed(n), InOneTurn(n),
                      time > posted[n] + InjectFor + Patience
               PROVE  ClickedOnce(n)
    BY DEF PostedTapsAreClicks, ClickedOnce
  <1>1. TouchTypeOK
    BY DEF PostedInv, TouchIInv, ReadsWhereAimed
  <1>2. CASE n = Len(posted)
    BY <1>1, <1>2, WindowOver DEF PostedInv
  <1>3. CASE n < Len(posted)
    BY <1>3 DEF PostedInv
  <1> QED
    BY <1>1, <1>2, <1>3 DEF TouchTypeOK

LEMMA PostedInit == InitTouch => PostedInv
  <1> SUFFICES ASSUME InitTouch PROVE PostedInv
    OBVIOUS
  <1>1. PostedInTime
    BY DEF InitTouch, PostedInTime, NoTap
  <1>2. posted = <<>>
    BY DEF InitTouch
  <1> QED
    BY <1>1, <1>2, TouchInit DEF PostedInv

\* A tick, a click of the mouse and a calibration leave the taps as they are.
LEMMA TapsAlone ==
  ASSUME PostedInv, TouchIInv', UNCHANGED <<booted, tap, posted, shown, clicked>>,
         \/ time' = time + 1 /\ quiet' = quiet + 1
         \/ UNCHANGED <<time, quiet>>
  PROVE  PostedInv'
  <1>1. time \in Nat /\ quiet \in Nat /\ posted \in Seq(Nat)
    BY TouchAssumption, SMTT(30) DEF PostedInv, TouchIInv, ReadsWhereAimed, TouchTypeOK
  <1>2. LastRead' = LastRead
    BY <1>1 DEF LastRead
  <1>3. PostedInTime'
    BY <1>1 DEF PostedInv, PostedInTime
  <1> QED
    BY <1>2, <1>3 DEF PostedInv, TapIsLive, ClickedOnce, InOneTurn, Undisturbed

\* A new tap takes the place of one that was read and released, if that had its window.
LEMMA PostKeeps ==
  ASSUME PostedInv, TouchIInv', NEW screen \in BOOLEAN, PostTap(screen)
  PROVE  PostedInv'
  <1>1. TouchTypeOK
    BY DEF PostedInv, TouchIInv, ReadsWhereAimed
  <1>2. /\ time \in Nat /\ quiet \in Nat /\ quiet <= time /\ posted \in Seq(Nat)
        /\ booted \in Nat /\ InjectFor \in Nat \ {0} /\ Patience \in Nat
    BY <1>1, TouchAssumption DEF PostedInv, PostedInTime, TouchTypeOK
  <1>3. PICK m \in Nat : m = Len(posted)
    BY <1>2
  <1>4. /\ tap' = [n |-> m + 1, screen |-> screen, expiry |-> Expiry, active |-> TRUE]
        /\ posted' = Append(posted, time)
        /\ UNCHANGED <<booted, time, quiet, shown, clicked>>
    BY <1>3 DEF PostTap, setupTouch
  <1>5. /\ Len(posted') = m + 1 /\ posted'[m + 1] = time
        /\ \A i \in 1 .. m : posted'[i] = posted[i]
    BY <1>2, <1>3, <1>4
  <1>6. Expiry = (booted + time + InjectFor) % Wrap
    <2>1. booted + time \in Nat
      BY <1>2
    <2> QED
      BY <1>2, <2>1, ModAdds DEF Expiry, Ticks
  <1>7. PostedInTime'
    <2>1. tap'.n = m + 1 /\ tap'.expiry = (booted' + posted'[m + 1] + InjectFor) % Wrap
      BY <1>4, <1>5, <1>6
    <2>2. \A i \in 1 .. m + 1 : posted'[i] <= time'
      BY <1>2, <1>3, <1>4, <1>5 DEF PostedInv, PostedInTime
    <2> QED
      BY <1>2, <1>4, <1>5, <2>1, <2>2 DEF PostedInTime
  <1>8. TapIsLive(m + 1)'
    <2>1. LastRead' <= time /\ ~(LastRead' > posted'[m + 1])
          /\ ~(LastRead' >= posted'[m + 1] + InjectFor)
      BY <1>2, <1>4, <1>5 DEF LastRead
    <2>2. tap'.active
      BY <1>4
    <2> QED
      BY <2>1, <2>2 DEF TapIsLive
  <1>9. ASSUME NEW n \in 1 .. m, InOneTurn(n)', Undisturbed(n)'
        PROVE  ClickedOnce(n)'
    <2>1. InOneTurn(n)
      BY <1>4, <1>5, <1>9 DEF InOneTurn
    <2>2. ClickedOnce(n)' = ClickedOnce(n)
      BY <1>4 DEF ClickedOnce
    <2>3. CASE n = m
      <3>1. time - posted[n] > InjectFor + Patience
        BY <1>5, <1>9, <2>3 DEF Undisturbed
      <3>2. TapIsLive(n)
        BY <1>3, <2>1, <2>3 DEF PostedInv
      <3>3. posted[n] \in Nat
        BY <1>2, <1>3
      <3> QED
        BY <1>1, <1>2, <1>3, <2>2, <3>1, <3>2, <3>3, WindowOver
    <2>4. CASE n < m
      <3>1. Undisturbed(n)
        BY <1>3, <1>5, <1>9, <2>4 DEF Undisturbed
      <3> QED
        BY <1>3, <2>1, <2>2, <2>4, <3>1 DEF PostedInv
    <2> QED
      BY <2>3, <2>4
  <1> QED
    BY <1>5, <1>7, <1>8, <1>9 DEF PostedInv

\* The first read after a tap comes within its window, and the first after its window within
\* the turn of the clock.
LEMMA ReadPosted ==
  ASSUME PostedInv, TouchIInv', ReadPanel, Patience < InjectFor
  PROVE  PostedInv'
  <1>1. TouchTypeOK
    BY DEF PostedInv, TouchIInv, ReadsWhereAimed
  <1>2. /\ time \in Nat /\ quiet \in Nat /\ quiet <= Patience /\ posted \in Seq(Nat)
        /\ booted \in Nat /\ InjectFor \in Nat \ {0} /\ Patience \in Nat
    BY <1>1, TouchAssumption DEF TouchTypeOK
  <1>3. /\ UNCHANGED <<booted, time, posted>> /\ quiet' = 0
        /\ tap' = [tap EXCEPT !.active = Pending]
        /\ clicked' = IF Pending THEN clicked \cup {tap.n} ELSE clicked
    BY DEF ReadPanel, setupTouch
  <1>4. tap'.active = Pending /\ tap'.n = tap.n /\ tap'.expiry = tap.expiry
    BY <1>1, <1>3 DEF TouchTypeOK
  <1>5. shown'.src \in {"inject", "raw"} => Pending /\ shown'.n = tap.n
    BY DEF ReadPanel, Seen, Raw, Shown
  <1>6. PostedInTime'
    BY <1>2, <1>3, <1>4 DEF PostedInv, PostedInTime
  <1>7. LastRead' = time /\ LastRead = time - quiet
    BY <1>2, <1>3 DEF LastRead
  <1>8. ASSUME NEW n \in 1 .. Len(posted), n = Len(posted), InOneTurn(n)
        PROVE  TapIsLive(n)'
    <2>1. TapIsLive(n)
      BY <1>8 DEF PostedInv
    <2>2. PICK p \in Nat : p = posted[n]
      BY <1>2
    <2>3. PICK now \in Nat : now = (booted + p) % Wrap
      <3>1. booted + p \in Nat
        BY <1>2
      <3> QED
        BY <3>1, OnTheClock
    <2>4. now + InjectFor + Patience < Wrap
      BY <1>8, <2>2, <2>3 DEF InOneTurn
    <2>5. tap.expiry = now + InjectFor
      <3>1. tap.expiry = (booted + p + InjectFor) % Wrap
        BY <1>8, <2>2 DEF PostedInv, PostedInTime
      <3>2. booted + p \in Nat /\ ((booted + p) % Wrap) + InjectFor < Wrap
        BY <1>2, <2>3, <2>4, TouchAssumption
      <3> QED
        BY <1>2, <2>3, <3>1, <3>2, ClockAdds
    <2>6. p <= time
      BY <1>8, <2>2 DEF PostedInv, PostedInTime
    <2>7. ASSUME time <= p + InjectFor + Patience PROVE Ticks = now + (time - p)
      <3>1. time - p \in Nat /\ booted + p \in Nat /\ ((booted + p) % Wrap) + (time - p) < Wrap
        BY <1>2, <2>3, <2>4, <2>6, <2>7, TouchAssumption
      <3>2. (booted + p) + (time - p) = booted + time
        BY <1>2
      <3> QED
        BY <2>3, <3>1, <3>2, ClockAdds DEF Ticks
    <2>8. CASE time < p + InjectFor
      <3>1. LastRead < p + InjectFor
        BY <1>2, <1>7, <2>8
      <3>2. tap.active
        BY <2>1, <2>2, <3>1 DEF TapIsLive
      <3>3. Ticks < tap.expiry
        BY <1>2, <2>3, <2>5, <2>6, <2>7, <2>8
      <3>4. Pending
        BY <3>2, <3>3 DEF Pending
      <3>5. n \in clicked'
        BY <1>3, <1>8, <3>4 DEF PostedInv, PostedInTime
      <3>6. ~(LastRead' >= p + InjectFor)
        BY <1>2, <1>7, <2>8
      <3> QED
        BY <1>3, <1>4, <2>2, <3>4, <3>5, <3>6 DEF TapIsLive
    <2>9. CASE time >= p + InjectFor
      <3>1. ~Pending
        <4>1. CASE LastRead >= p + InjectFor
          BY <2>1, <2>2, <4>1 DEF TapIsLive, Pending
        <4>2. CASE LastRead < p + InjectFor
          <5>1. time <= p + InjectFor + Patience
            BY <1>2, <1>7, <4>2
          <5>2. ~(Ticks < tap.expiry)
            BY <1>2, <2>3, <2>5, <2>6, <2>7, <2>9, <5>1
          <5> QED
            BY <5>2 DEF Pending
        <4> QED
          BY <1>2, <1>7, <4>1, <4>2
      <3>2. n \in clicked
        <4>1. LastRead > p
          BY <1>2, <1>7, <2>9
        <4> QED
          BY <2>1, <2>2, <4>1 DEF TapIsLive
      <3>3. n \in clicked' /\ ~tap'.active
        BY <1>3, <1>4, <3>1, <3>2
      <3>4. ~(LastRead' < p + InjectFor)
        BY <1>2, <1>7, <2>9
      <3> QED
        BY <1>3, <1>5, <2>2, <3>1, <3>3, <3>4 DEF TapIsLive
    <2> QED
      BY <1>2, <2>8, <2>9
  <1>9. ASSUME NEW n \in 1 .. Len(posted), n < Len(posted), InOneTurn(n), Undisturbed(n)
        PROVE  ClickedOnce(n)'
    <2>1. ClickedOnce(n)
      BY <1>9 DEF PostedInv
    <2>2. tap.n # n
      BY <1>2, <1>9 DEF PostedInv, PostedInTime
    <2> QED
      BY <1>3, <1>5, <2>1, <2>2 DEF ClickedOnce
  <1> QED
    BY <1>3, <1>6, <1>8, <1>9 DEF PostedInv, InOneTurn, Undisturbed

LEMMA PostedKept ==
  Patience < InjectFor /\ PostedInv /\ [NextTouch]_touchVars => PostedInv'
  <1> SUFFICES ASSUME Patience < InjectFor, PostedInv, [NextTouch]_touchVars PROVE PostedInv'
    OBVIOUS
  <1>1. TouchIInv'
    BY TouchKept DEF PostedInv
  <1>2. CASE Tick \/ MouseButton \/ SetMatrix \/ UNCHANGED touchVars
    <2>1. /\ UNCHANGED <<booted, tap, posted, shown, clicked>>
          /\ \/ time' = time + 1 /\ quiet' = quiet + 1
             \/ UNCHANGED <<time, quiet>>
      BY <1>2 DEF Tick, MouseButton, SetMatrix, touchVars, setupTouch
    <2> QED
      BY <1>1, <2>1, TapsAlone
  <1>3. ASSUME NEW screen \in TouchBodies, PostTap(screen) PROVE PostedInv'
    BY <1>1, <1>3, PostKeeps DEF TouchBodies
  <1>4. CASE ReadPanel
    BY <1>1, <1>4, ReadPosted
  <1> QED
    BY <1>2, <1>3, <1>4 DEF NextTouch

-----------------------------------------------------------------------------
(* Scripted taps                                                           *)

\* A turn of the clock later it shows the same.
LEMMA FullTurn ==
  ASSUME NEW b \in Nat, b < Wrap
  PROVE  (b + Wrap) % Wrap = b
  <1>1. PICK w \in Nat \ {0} : w = Wrap
    BY TouchAssumption
  <1>2. w * 1 + b = b + w
    BY <1>1
  <1>3. b \in 0 .. w - 1
    BY <1>1
  <1>4. (w * 1 + b) % w = b
    BY <1>3, ModOf
  <1> QED
    BY <1>1, <1>2, <1>4

\* The script is asked at every read once its clock has started.
Asked == scriptOf = "panel" \/ (scriptOf = "touch" /\ ~autoCal)

\* The i-th tap's window, and the reads it is met by, are over before the clock wraps.
Fits(i) == start + Script[i] + ScriptFor + Patience < Wrap

\* The script's clock started at the read at begun; every tap that was due by the last read
\* since has been played, and none was passed before its time.
PlayedSince(begun) ==
  /\ (booted + begun) % Wrap = start
  /\ \A i \in 1 .. Len(Script) : Fits(i) =>
       /\ LastRead - begun >= Script[i] => i \in played
       /\ LastRead - begun <= Script[i] + ScriptFor => index < i

ScriptInv ==
  /\ TouchIInv /\ quiet <= time
  /\ posted = <<>> =>
       /\ ~tap.active
       /\ start = 0 => index = 0
       /\ start # 0 => Asked /\ \E begun \in 0 .. LastRead : PlayedSince(begun)

LEMMA ScriptInit == InitTouch => ScriptInv
  <1> SUFFICES ASSUME InitTouch PROVE ScriptInv
    OBVIOUS
  <1>1. start = 0 /\ index = 0 /\ quiet <= time
    BY DEF InitTouch, InitDriver
  <1>2. ~tap.active
    BY DEF InitTouch, NoTap
  <1> QED
    BY <1>1, <1>2, TouchInit DEF ScriptInv

\* Steps that are no read move the time of the last one as little as the script.
LEMMA ScriptAlone ==
  ASSUME ScriptInv, TouchIInv',
         UNCHANGED <<booted, scriptOf, autoCal, tap, posted, start, index, played>>,
         \/ time' = time + 1 /\ quiet' = quiet + 1
         \/ UNCHANGED <<time, quiet>>
  PROVE  ScriptInv'
  <1>1. time \in Nat /\ quiet \in Nat
    BY TouchAssumption DEF ScriptInv, TouchIInv, ReadsWhereAimed, TouchTypeOK
  <1>2. LastRead' = LastRead /\ quiet' <= time'
    BY <1>1 DEF LastRead, ScriptInv
  <1>3. \A begun : PlayedSince(begun) => PlayedSince(begun)'
    BY <1>2 DEF PlayedSince, Fits
  <1>4. Asked => Asked'
    BY DEF Asked
  <1> QED
    BY <1>2, <1>3, <1>4 DEF ScriptInv

LEMMA ScriptTypes ==
  ASSUME ScriptInv
  PROVE  /\ TouchTypeOK /\ time \in Nat /\ quiet \in 0 .. Patience /\ quiet <= time
         /\ booted \in Nat /\ start \in 0 .. Wrap - 1 /\ index \in 0 .. Len(Script)
         /\ LastRead \in Nat /\ LastRead <= time /\ time - LastRead <= Patience
         /\ Wrap \in Nat \ {0} /\ ScriptFor \in Nat /\ Patience \in Nat /\ Len(Script) \in Nat
         /\ \A i \in 1 .. Len(Script) : Script[i] \in Nat
  <1>1. TouchTypeOK /\ quiet <= time
    BY DEF ScriptInv, TouchIInv, ReadsWhereAimed
  <1>2. time \in Nat /\ quiet \in 0 .. Patience /\ Patience \in Nat
    BY <1>1, TouchAssumption DEF TouchTypeOK
  <1>3. LastRead \in Nat /\ LastRead <= time /\ time - LastRead <= Patience
    BY <1>1, <1>2 DEF LastRead
  <1>4. \A i \in 1 .. Len(Script) : Script[i] \in Nat
    BY TouchAssumption
  <1> QED
    BY <1>1, <1>2, <1>3, <1>4, TouchAssumption DEF TouchTypeOK

\* What a read finds at time e of a script's clock, for a tap in whose window it is.
LEMMA InWindow ==
  ASSUME ScriptInv, Spaced, Elapsed \in Nat, NEW i \in 1 .. Len(Script), index < i,
         Elapsed <= Script[i] + ScriptFor
  PROVE  Passed < i /\ (Elapsed >= Script[i] => Passed = i - 1)
  <1>1. /\ Passed \in index .. Len(Script) /\ Passed \in Nat
        /\ \A j \in index + 1 .. Passed : Elapsed > Script[j] + ScriptFor
        /\ Passed < Len(Script) => Elapsed <= Script[Passed + 1] + ScriptFor
    BY PassedIs, ScriptTypes
  <1>2. Passed < i
    <2>1. ASSUME i <= Passed PROVE FALSE
      <3>1. i \in index + 1 .. Passed
        BY <1>1, <2>1, ScriptTypes
      <3>2. Elapsed > Script[i] + ScriptFor
        BY <1>1, <3>1
      <3> QED
        BY <3>2, ScriptTypes, SMTT(30)
    <2> QED
      BY <1>1, <2>1
  <1>3. ASSUME Elapsed >= Script[i], Passed # i - 1 PROVE FALSE
    <2>1. Passed + 1 \in 1 .. Len(Script) /\ Passed + 1 < i
      BY <1>1, <1>2, <1>3
    <2>2. PICK j \in 1 .. Len(Script) : j = Passed + 1
      BY <2>1
    <2>3. Script[j] + ScriptFor < Script[i]
      BY <2>1, <2>2 DEF Spaced
    <2>4. Elapsed <= Script[j] + ScriptFor
      BY <1>1, <2>1, <2>2, ScriptTypes
    <2>5. Script[j] \in Nat /\ Script[i] \in Nat /\ ScriptFor \in Nat
      BY ScriptTypes
    <2> QED
      BY <1>3, <2>3, <2>4, <2>5
  <1> QED
    BY <1>2, <1>3

LEMMA ScriptRead ==
  ASSUME ScriptInv, TouchIInv', ReadPanel, Patience <= ScriptFor, Spaced
  PROVE  ScriptInv'
  <1> USE ScriptTypes
  <1>1. /\ UNCHANGED <<booted, scriptOf, time, posted>> /\ quiet' = 0
        /\ tap' = [tap EXCEPT !.active = Pending]
    BY DEF ReadPanel, setupTouch
  <1>2. LastRead' = time /\ quiet' <= time'
    BY <1>1 DEF LastRead
  <1> SUFFICES ASSUME posted = <<>>
               PROVE  /\ ~tap'.active
                      /\ start' = 0 => index' = 0
                      /\ start' # 0 => Asked' /\ \E begun \in 0 .. time : PlayedSince(begun)'
    BY <1>1, <1>2 DEF ScriptInv
  <1>3. ~Pending
    BY DEF ScriptInv, Pending
  <1>4. ~tap'.active
    BY <1>1, <1>3 DEF TouchTypeOK
  <1>5. Consulted = Asked
    BY <1>3 DEF Consulted, Asked
  <1>6. /\ start' = IF Asked THEN Started ELSE start
        /\ index' = IF Asked THEN Passed ELSE index
        /\ played' = IF Played THEN played \cup {Passed + 1} ELSE played
        /\ (Asked => Asked')
    BY <1>1, <1>5 DEF ReadPanel, Asked
  <1>7. Ticks = (booted + time) % Wrap /\ Ticks \in 0 .. Wrap - 1
    BY Ticking DEF Ticks
  <1>8. CASE ~Asked
    <2>1. start = 0 /\ index = 0
      BY <1>8 DEF ScriptInv
    <2> QED
      BY <1>4, <1>6, <1>8, <2>1
  <1>9. CASE Asked /\ start = 0
    <2>1. start' = Ticks /\ index = 0 /\ Started = Ticks
      BY <1>6, <1>9 DEF Started, ScriptInv
    <2>2. Elapsed = 0
      <3>1. Ticks + Wrap - Ticks = 0 + Wrap
        BY <1>7
      <3>2. (0 + Wrap) % Wrap = 0
        BY FullTurn
      <3> QED
        BY <2>1, <3>1, <3>2 DEF Elapsed
    <2>3. \A i \in 1 .. Len(Script) : Passed < i /\ (Script[i] = 0 => Passed = i - 1)
      BY <2>1, <2>2, InWindow
    <2>4. Passed = 0
      BY <2>1, <2>3, PassedIs
    <2>5. ASSUME NEW i \in 1 .. Len(Script), Script[i] = 0 PROVE i \in played'
      <3>1. Passed = i - 1 /\ Elapsed >= Script[Passed + 1] /\ Passed < Len(Script)
        BY ONLY <2>2, <2>3, <2>5
      <3> QED
        BY <1>5, <1>6, <1>9, <3>1 DEF Played
    <2>6. PlayedSince(time)'
      <3>1. (booted' + time) % Wrap = start'
        BY <1>1, <1>7, <2>1
      <3>2. LastRead' - time = 0
        BY <1>2
      <3>3. index' = 0
        BY <1>6, <1>9, <2>4
      <3>4. ASSUME NEW i \in 1 .. Len(Script), LastRead' - time >= Script[i]
            PROVE  i \in played'
        <4>1. Script[i] = 0
          BY <3>2, <3>4, ScriptTypes
        <4> QED
          BY <2>5, <4>1
      <3>5. \A i \in 1 .. Len(Script) : index' < i
        BY <3>3
      <3> QED
        BY <1>1, <3>1, <3>4, <3>5 DEF PlayedSince
    <2>7. \E begun \in 0 .. time : PlayedSince(begun)'
      <3>1. PICK begun \in 0 .. time : begun = time
        BY ScriptTypes
      <3>2. PlayedSince(begun)'
        BY <1>1, <2>6, <3>1 DEF PlayedSince
      <3> QED
        BY <3>2
    <2> QED
      BY <1>4, <1>6, <1>9, <2>1, <2>4, <2>7
  <1>10. CASE Asked /\ start # 0
    <2>1. start' = start /\ index' = Passed
      BY <1>6, <1>10 DEF Started
    <2>2. PICK begun \in 0 .. LastRead : PlayedSince(begun)
      BY <1>10 DEF ScriptInv
    <2>3. PICK last \in Nat : last = LastRead /\ last <= time /\ time - last <= Patience
      BY ScriptTypes
    <2>4. /\ begun \in Nat /\ begun <= last /\ time \in Nat /\ booted \in Nat /\ start \in Nat
          /\ Wrap \in Nat \ {0} /\ ScriptFor \in Nat /\ Patience \in Nat
      BY <2>2, <2>3, ScriptTypes
    <2>5. PICK e \in Nat : e = time - begun
      BY <2>3, <2>4
    <2>6. ASSUME start + e < Wrap PROVE Elapsed = e
      <3>1. PICK a \in Nat : a = booted + begun
        BY <2>4
      <3>2. a + e = booted + time
        BY <2>4, <2>5, <3>1
      <3>3. a % Wrap = start
        BY <2>2, <3>1 DEF PlayedSince
      <3>4. Ticks = start + e
        BY <1>7, <2>6, <3>2, <3>3, ClockAdds
      <3>5. Ticks + Wrap - start = e + Wrap /\ e < Wrap
        BY <2>4, <2>6, <3>4
      <3>6. (e + Wrap) % Wrap = e
        BY <3>5, FullTurn
      <3> QED
        BY <1>10, <3>5, <3>6 DEF Elapsed, Started
    <2>7. ASSUME NEW i \in 1 .. Len(Script), Fits(i), e <= Script[i] + ScriptFor
          PROVE  index < i /\ Elapsed = e
      <3>1. PICK due \in Nat : due = Script[i]
        BY ScriptTypes
      <3>2. LastRead - begun <= Script[i] + ScriptFor
        BY <2>3, <2>4, <2>5, <2>7, <3>1
      <3>3. start + e < Wrap
        <4>1. start + due + ScriptFor + Patience < Wrap /\ e <= due + ScriptFor
          BY <2>7, <3>1 DEF Fits
        <4> QED
          BY ONLY <2>4, <2>5, <3>1, <4>1, SMTT(30)
      <3> QED
        BY <2>2, <2>6, <2>7, <3>2, <3>3 DEF PlayedSince
    <2>8. ASSUME NEW i \in 1 .. Len(Script), Fits(i), e >= Script[i]
          PROVE  i \in played'
      <3>1. CASE LastRead - begun >= Script[i]
        BY <1>6, <2>2, <2>8, <3>1 DEF PlayedSince
      <3>2. CASE LastRead - begun < Script[i]
        <4>1. PICK due \in Nat : due = Script[i]
          BY ScriptTypes
        <4>2. e <= Script[i] + ScriptFor
          BY <2>3, <2>4, <2>5, <3>2, <4>1
        <4>3. index < i /\ Elapsed = e
          BY <2>7, <2>8, <4>2
        <4>4. Passed = i - 1
          BY <2>8, <4>2, <4>3, InWindow
        <4>5. Elapsed >= Script[Passed + 1] /\ Passed < Len(Script) /\ Passed + 1 = i
          BY <2>8, <4>3, <4>4
        <4> QED
          BY <1>5, <1>6, <1>10, <4>5 DEF Played
      <3>3. Script[i] \in Nat
        BY ScriptTypes
      <3> QED
        BY <2>3, <2>4, <3>1, <3>2, <3>3
    <2>9. ASSUME NEW i \in 1 .. Len(Script), Fits(i), e <= Script[i] + ScriptFor
          PROVE  index' < i
      BY <2>1, <2>7, <2>9, InWindow
    <2>10. PlayedSince(begun)'
      <3>1. LastRead' - begun = e
        BY <1>2, <2>5
      <3> QED
        BY <1>1, <2>1, <2>2, <2>8, <2>9, <3>1 DEF PlayedSince, Fits
    <2>11. begun \in 0 .. time
      BY <2>3, <2>4
    <2> QED
      BY <1>4, <1>6, <1>10, <2>1, <2>10, <2>11
  <1> QED
    BY <1>8, <1>9, <1>10

LEMMA ScriptKept ==
  ReadsOften /\ Spaced /\ ScriptInv /\ [NextTouch]_touchVars => ScriptInv'
  <1> SUFFICES ASSUME ReadsOften, Spaced, ScriptInv, [NextTouch]_touchVars PROVE ScriptInv'
    OBVIOUS
  <1>1. TouchIInv'
    BY TouchKept DEF ScriptInv
  <1>2. CASE Tick \/ MouseButton \/ SetMatrix \/ UNCHANGED touchVars
    <2>1. /\ UNCHANGED <<booted, scriptOf, autoCal, tap, posted, start, index, played>>
          /\ \/ time' = time + 1 /\ quiet' = quiet + 1
             \/ UNCHANGED <<time, quiet>>
      BY <1>2 DEF Tick, MouseButton, SetMatrix, touchVars, setupTouch
    <2> QED
      BY <1>1, <2>1, ScriptAlone
  <1>3. ASSUME NEW screen \in TouchBodies, PostTap(screen) PROVE ScriptInv'
    <2>1. posted' = Append(posted, time) /\ UNCHANGED <<time, quiet>>
      BY <1>3 DEF PostTap
    <2>2. posted' # <<>>
      BY <2>1 DEF ScriptInv, TouchIInv, ReadsWhereAimed, TouchTypeOK
    <2> QED
      BY <1>1, <2>1, <2>2 DEF ScriptInv
  <1>4. CASE ReadPanel
    BY <1>1, <1>4, ScriptRead DEF ReadsOften
  <1> QED
    BY <1>2, <1>3, <1>4 DEF NextTouch

LEMMA ScriptShows == ScriptInv => ScriptedTapsRead
  <1> SUFFICES ASSUME ScriptInv, NEW i \in 1 .. Len(Script), posted = <<>>, start # 0,
                      Ticks > start + Script[i] + ScriptFor + Patience
               PROVE  i \in played
    BY DEF ScriptedTapsRead
  <1>1. PICK begun \in 0 .. LastRead : PlayedSince(begun)
    BY DEF ScriptInv
  <1>2. /\ Ticks \in Nat /\ Ticks < Wrap /\ start \in Nat /\ Wrap \in Nat \ {0}
        /\ time \in Nat /\ booted \in Nat /\ ScriptFor \in Nat /\ Patience \in Nat
    BY Ticking, ScriptTypes
  <1>3. PICK due \in Nat : due = Script[i]
    BY ScriptTypes
  <1>4. PICK last \in Nat : last = LastRead /\ last <= time /\ time - last <= Patience
    BY ScriptTypes
  <1>5. begun \in Nat /\ begun <= last
    BY <1>1, <1>4
  <1>6. Fits(i)
    BY <1>2, <1>3 DEF Fits
  <1>7. PICK e \in Nat : e = time - begun
    BY <1>2, <1>4, <1>5
  <1>8. e >= Ticks - start
    <2>1. ASSUME e < Ticks - start PROVE FALSE
      <3>1. PICK a \in Nat : a = booted + begun
        BY <1>2, <1>5
      <3>2. a + e = booted + time
        BY <1>2, <1>5, <1>7, <3>1
      <3>3. a % Wrap = start
        BY <1>1, <3>1 DEF PlayedSince
      <3>4. (a % Wrap) + e < Wrap
        BY <1>2, <2>1, <3>3
      <3>5. Ticks = start + e
        BY <3>2, <3>3, <3>4, ClockAdds DEF Ticks
      <3> QED
        BY <1>2, <2>1, <3>5
    <2> QED
      BY <1>2, <2>1
  <1>9. LastRead - begun >= Script[i]
    BY <1>2, <1>3, <1>4, <1>5, <1>7, <1>8
  <1> QED
    BY <1>1, <1>6, <1>9 DEF PlayedSince

\* A sketch that reads often enough loses no simulated tap: one posted to the mirror is one
\* click, and a scripted one is read in its turn.
THEOREM TouchTapsAreClicks == ReadsOften /\ Spaced /\ SpecTouch => []TapsAreClicks
  <1> SUFFICES ASSUME ReadsOften, Spaced PROVE SpecTouch => []TapsAreClicks
    OBVIOUS
  <1>1. PostedInv /\ [NextTouch]_touchVars => PostedInv'
    BY PostedKept DEF ReadsOften
  <1>2. ScriptInv /\ [NextTouch]_touchVars => ScriptInv'
    BY ScriptKept
  <1>3. PostedInv /\ ScriptInv => TapsAreClicks
    BY PostedShows, ScriptShows DEF TapsAreClicks
  <1> QED
    BY PostedInit, ScriptInit, <1>1, <1>2, <1>3, PTL DEF SpecTouch

------------------------------------------------------------------------------
(***************************************************************************)
(* SettingsKept is an invariant of Tone for every set of threads, tones    *)
(* and duties.  What makes it one: the audio thread copies the channel,    *)
(* and writes back no more than the phase; and at most one thread is ever  *)
(* between the mark of the attempt and the outcome of SDL_OpenAudioDevice. *)
(***************************************************************************)

\* The device is opened once: by one thread, the first to mark the attempt.
OneOpener ==
  /\ device \/ failed => attempted
  /\ ~(device /\ failed)
  /\ callback # "no" => device
  /\ \A t \in Threads : inCall[t] = "open" => attempted /\ ~device /\ ~failed
  /\ \A t, u \in Threads : inCall[t] = "open" /\ inCall[u] = "open" => t = u

KeepsAsked == chan.freq = asked.freq /\ chan.duty = asked.duty

ToneInv == ToneTypeOK /\ OneOpener /\ KeepsAsked

Settings == [of : {"freq"}, to : Tones] \cup [of : {"duty"}, to : Duties]

-----------------------------------------------------------------------------
LEMMA InitToneInv == InitTone => ToneInv
  <1> SUFFICES ASSUME InitTone PROVE ToneInv
    OBVIOUS
  <1>1. ToneTypeOK
    <2>1. Silent \in Channels
      BY ToneAssumption DEF Silent, Channels
    <2>2. settings \in [Threads -> Seq(Settings)]
      <3>1. <<>> \in Seq(Settings)
        OBVIOUS
      <3> QED
        BY <3>1 DEF InitTone
    <2>3. inCall \in [Threads -> {"no", "ensure", "open", "set"}]
      BY DEF InitTone
    <2>4. calls \in 0 .. MaxCalls
      BY ToneAssumption DEF InitTone
    <2>5. attempted \in BOOLEAN /\ failed \in BOOLEAN /\ device \in BOOLEAN
      BY DEF InitTone
    <2>6. chan \in Channels /\ snap \in Channels /\ asked \in Channels
      BY <2>1 DEF InitTone
    <2>7. callback \in {"no", "mix", "persist"}
      BY DEF InitTone
    <2> QED
      BY <2>2, <2>3, <2>4, <2>5, <2>6, <2>7 DEF ToneTypeOK, Settings
  <1>2. OneOpener /\ KeepsAsked
    BY DEF InitTone, OneOpener, KeepsAsked, Silent
  <1> QED
    BY <1>1, <1>2 DEF ToneInv

\* What a call has still to set are settings of tones and duties.
LEMMA CallsAreSettings == \A c \in Calls : c \in Seq(Settings)
  <1>1. \A f \in Tones : Freq(f) \in Settings
    BY DEF Freq, Settings
  <1>2. \A d \in Duties : Duty(d) \in Settings
    BY DEF Duty, Settings
  <1>3. ASSUME NEW s \in Settings PROVE <<s>> \in Seq(Settings)
    OBVIOUS
  <1>4. ASSUME NEW s \in Settings, NEW u \in Settings PROVE <<s, u>> \in Seq(Settings)
    OBVIOUS
  <1>5. <<>> \in Seq(Settings)
    OBVIOUS
  <1> QED
    BY <1>1, <1>2, <1>3, <1>4, <1>5, ToneAssumption DEF Calls

\* One setting changes one field of a channel, the same in every channel.
LEMMA PutKeepsChannel ==
  ASSUME NEW c \in Channels, NEW s \in Settings
  PROVE  /\ Put(c, s) \in Channels
         /\ s.of = "freq" => Put(c, s).freq = s.to /\ Put(c, s).duty = c.duty
         /\ s.of = "duty" => Put(c, s).duty = s.to /\ Put(c, s).freq = c.freq
         /\ s.of = "freq" \/ s.of = "duty"
  <1>1. CASE s \in [of : {"freq"}, to : Tones]
    BY <1>1 DEF Put, Channels
  <1>2. CASE s \in [of : {"duty"}, to : Duties]
    BY <1>2 DEF Put, Channels
  <1> QED
    BY <1>1, <1>2 DEF Settings

LEMMA SetStep ==
  ASSUME ToneInv, NEW t \in Threads, Set(t)
  PROVE  ToneInv'
  <1> USE DEF Set, ToneInv
  <1>1. settings[t] \in Seq(Settings)
    BY DEF ToneTypeOK, Settings
  <1>2. /\ Head(settings[t]) \in Settings
        /\ Tail(settings[t]) \in Seq(Settings)
    BY <1>1
  <1>3. chan \in Channels /\ asked \in Channels
    BY DEF ToneTypeOK
  <1>4. chan' \in Channels /\ asked' \in Channels
    BY <1>2, <1>3, PutKeepsChannel
  <1>5. settings' \in [Threads -> Seq(Settings)]
    <2>1. settings \in [Threads -> Seq(Settings)]
      BY DEF ToneTypeOK, Settings
    <2> QED
      BY <1>2, <2>1
  <1>6. ToneTypeOK'
    BY <1>4, <1>5 DEF ToneTypeOK, Settings
  <1>7. OneOpener'
    BY DEF OneOpener, ToneTypeOK
  <1>8. KeepsAsked'
    <2>1. CASE failed
      BY <2>1 DEF KeepsAsked, Accepted
    <2>2. CASE ~failed
      <3> DEFINE s == Head(settings[t])
      <3>1. chan' = Put(chan, s) /\ asked' = Put(asked, s)
        BY <2>2 DEF Accepted
      <3>2. /\ s.of = "freq" \/ s.of = "duty"
            /\ \A c \in {chan, asked} :
                 /\ s.of = "freq" => Put(c, s).freq = s.to /\ Put(c, s).duty = c.duty
                 /\ s.of = "duty" => Put(c, s).duty = s.to /\ Put(c, s).freq = c.freq
        <4> HIDE DEF s
        <4>1. s \in Settings
          BY <1>2 DEF s
        <4> QED
          BY <4>1, <1>3, PutKeepsChannel
      <3> HIDE DEF s
      <3> QED
        BY <3>1, <3>2 DEF KeepsAsked
    <2> QED
      BY <2>1, <2>2
  <1> QED
    BY <1>6, <1>7, <1>8

\* The calls of the threads that do not set anything.
LEMMA CallStep ==
  ASSUME ToneInv, NEW t \in Threads,
         Enter(t) \/ Ensure(t) \/ OpenDevice(t) \/ OnlyEnsured(t)
  PROVE  ToneInv'
  <1> USE DEF ToneInv
  <1>1. KeepsAsked'
    BY DEF Enter, Ensure, OpenDevice, OnlyEnsured, KeepsAsked
  <1>2. CASE Enter(t)
    <2>1. PICK c \in Calls : settings' = [settings EXCEPT ![t] = c]
      BY <1>2 DEF Enter
    <2>2. c \in Seq(Settings)
      BY <2>1, CallsAreSettings
    <2>3. ToneTypeOK'
      BY <1>2, <2>1, <2>2, ToneAssumption DEF Enter, ToneTypeOK, Settings
    <2>4. OneOpener'
      BY <1>2 DEF Enter, OneOpener, ToneTypeOK
    <2> QED
      BY <1>1, <2>3, <2>4
  <1>3. CASE Ensure(t)
    <2>1. ToneTypeOK'
      BY <1>3 DEF Ensure, ToneTypeOK
    <2>2. OneOpener'
      BY <1>3 DEF Ensure, OneOpener, ToneTypeOK
    <2> QED
      BY <1>1, <2>1, <2>2
  <1>4. CASE OpenDevice(t)
    <2>1. ToneTypeOK'
      BY <1>4 DEF OpenDevice, ToneTypeOK
    <2>2. OneOpener'
      BY <1>4 DEF OpenDevice, OneOpener, ToneTypeOK
    <2> QED
      BY <1>1, <2>1, <2>2
  <1>5. CASE OnlyEnsured(t)
    <2>1. ToneTypeOK'
      BY <1>5 DEF OnlyEnsured, ToneTypeOK
    <2>2. OneOpener'
      BY <1>5 DEF OnlyEnsured, OneOpener, ToneTypeOK
    <2> QED
      BY <1>1, <2>1, <2>2
  <1> QED
    BY <1>2, <1>3, <1>4, <1>5

\* The audio callback: what it writes back is the phase.
LEMMA CallbackStep ==
  ASSUME ToneInv, Snapshot \/ Mix \/ Persist
  PROVE  ToneInv'
  <1> USE DEF ToneInv
  <1>1. CASE Snapshot
    BY <1>1 DEF Snapshot, ToneTypeOK, OneOpener, KeepsAsked
  <1>2. CASE Mix
    <2>1. snap \in Channels
      BY DEF ToneTypeOK
    <2>2. snap' \in Channels
      BY <1>2, <2>1 DEF Mix, Channels
    <2> QED
      BY <1>2, <2>2 DEF Mix, ToneTypeOK, OneOpener, KeepsAsked
  <1>3. CASE Persist
    <2>1. chan \in Channels /\ snap \in Channels
      BY DEF ToneTypeOK
    <2>2. chan' \in Channels /\ chan'.freq = chan.freq /\ chan'.duty = chan.duty
      BY <1>3, <2>1 DEF Persist, Persisted, Channels
    <2> QED
      BY <1>3, <2>2 DEF Persist, ToneTypeOK, OneOpener, KeepsAsked
  <1> QED
    BY <1>1, <1>2, <1>3

LEMMA NextToneInv == ToneInv /\ [NextTone]_toneVars => ToneInv'
  <1> SUFFICES ASSUME ToneInv, [NextTone]_toneVars PROVE ToneInv'
    OBVIOUS
  <1>1. ASSUME NEW t \in Threads,
               Enter(t) \/ Ensure(t) \/ OpenDevice(t) \/ Set(t) \/ OnlyEnsured(t)
        PROVE  ToneInv'
    BY <1>1, CallStep, SetStep
  <1>2. CASE Snapshot \/ Mix \/ Persist
    BY <1>2, CallbackStep
  <1>3. CASE UNCHANGED toneVars
    BY <1>3 DEF toneVars, ToneInv, ToneTypeOK, OneOpener, KeepsAsked
  <1> QED
    BY <1>1, <1>2, <1>3 DEF NextTone

LEMMA ToneInvShows == ToneInv => SettingsKept
  BY DEF ToneInv, SettingsKept, KeepsAsked, OneOpener

\* What is asked of a channel is what it has, whoever opens the device and whatever the
\* audio thread mixes from at the time (boardghost_ledc_set_tone(), audio_callback()).
THEOREM ToneSettingsKept == SpecTone => []SettingsKept
  <1>1. SpecTone => []ToneInv
    BY InitToneInv, NextToneInv, PTL DEF SpecTone
  <1> QED
    BY <1>1, ToneInvShows, PTL

------------------------------------------------------------------------------
(***************************************************************************)
(* AnswersAreOwn is an invariant of HttpClient for any number of headers,  *)
(* pieces and calls.  What makes it one: without a URL there is no body,   *)
(* and connected() has been true no more than it was set.                  *)
(***************************************************************************)

HttpFlags == live \in BOOLEAN /\ text \in BOOLEAN /\ ownHeaders \in BOOLEAN

HttpCounts ==
  /\ net \in {"fake", "fail", "real"} /\ url \in 0 .. MaxBegins
  /\ code \in {"ok", "error", "refused", "unconnected", "none"} /\ looked \in 0 .. 2
  /\ begins \in 0 .. MaxBegins /\ requests \in 0 .. MaxRequests

\* Headers are of the last begin() only.
HttpHeaders ==
  /\ headers \in Seq(0 .. MaxBegins) /\ Len(headers) <= MaxHeaders
  /\ \A i \in 1 .. Len(headers) : headers[i] = begins
  /\ ownHeaders

\* The body is of the last request, and there is none without a URL.
HttpBody ==
  /\ body \in Seq(1 .. MaxRequests) /\ Len(body) <= Pieces
  /\ \A i \in 1 .. Len(body) : body[i] = requests
  /\ url = 0 => body = <<>>
  /\ code \in {"ok", "error"} /\ net = "real" /\ text => Len(body) = Pieces

HttpLooks == looked <= 1 /\ (live => looked = 0)

HttpIInv == HttpFlags /\ HttpCounts /\ HttpHeaders /\ HttpBody /\ HttpLooks

-----------------------------------------------------------------------------
LEMMA HttpInit == InitHttp => HttpIInv
  <1> SUFFICES ASSUME InitHttp PROVE HttpIInv
    OBVIOUS
  <1>1. HttpFlags
    BY DEF InitHttp, HttpFlags
  <1>5. HttpLooks
    BY DEF InitHttp, HttpLooks
  <1>2. HttpCounts
    BY HttpAssumption DEF InitHttp, HttpCounts
  <1>3. HttpHeaders
    BY HttpAssumption DEF InitHttp, HttpHeaders
  <1>4. HttpBody
    BY HttpAssumption DEF InitHttp, HttpBody
  <1> QED
    BY <1>1, <1>2, <1>3, <1>4, <1>5 DEF HttpIInv

LEMMA HttpShows == HttpIInv => AnswersAreOwn
  <1> SUFFICES ASSUME HttpIInv PROVE AnswersAreOwn
    OBVIOUS
  <1>1. HttpTypeOK
    BY DEF HttpIInv, HttpFlags, HttpCounts, HttpHeaders, HttpBody, HttpTypeOK
  <1>2. body \in [1 .. Len(body) -> {requests}] /\ Len(body) <= Pieces
    BY DEF HttpIInv, HttpBody
  <1> QED
    BY <1>1, <1>2 DEF HttpIInv, HttpHeaders, HttpBody, HttpLooks, AnswersAreOwn

\* begin(), addHeader(), end() and the stream calls.
LEMMA QuietCallKeeps ==
  ASSUME HttpIInv, BeginUrl \/ AddHeader \/ EndHttp \/ GetStream \/ Look
  PROVE  HttpIInv'
  <1> USE HttpAssumption DEF HttpIInv
  <1>1. CASE BeginUrl
    <2>1. HttpFlags' /\ HttpLooks'
      BY <1>1 DEF BeginUrl, HttpFlags, HttpLooks
    <2>2. HttpCounts'
      BY <1>1 DEF BeginUrl, HttpCounts
    <2>3. HttpHeaders'
      BY <1>1 DEF BeginUrl, Reset, HttpHeaders
    <2>4. HttpBody'
      BY <1>1 DEF BeginUrl, HttpBody
    <2> QED
      BY <2>1, <2>2, <2>3, <2>4
  <1>2. CASE AddHeader
    <2>1. HttpFlags' /\ HttpLooks' /\ HttpCounts' /\ HttpBody'
      BY <1>2 DEF AddHeader, HttpFlags, HttpLooks, HttpCounts, HttpBody
    <2>2. HttpHeaders'
      BY <1>2 DEF AddHeader, HttpHeaders, HttpCounts
    <2> QED
      BY <2>1, <2>2
  <1>3. CASE EndHttp
    BY <1>3 DEF EndHttp, HttpFlags, HttpLooks, HttpCounts, HttpBody, HttpHeaders
  <1>4. CASE GetStream \/ Look
    <2>1. HttpFlags'
      BY <1>4 DEF GetStream, Look, StillLive, HttpFlags
    <2>2. HttpLooks' /\ HttpCounts'
      BY <1>4 DEF GetStream, Look, StillLive, HttpLooks, HttpCounts
    <2>a. UNCHANGED <<net, url, headers, body, code, begins, requests, text, ownHeaders>>
      BY <1>4 DEF GetStream, Look
    <2>3. HttpBody' /\ HttpHeaders'
      BY <2>a DEF HttpBody, HttpHeaders
    <2> QED
      BY <2>1, <2>2, <2>3
  <1> QED
    BY <1>1, <1>2, <1>3, <1>4

\* What curl_write_cb() leaves in the body is this request's, and no more than was sent.
LEMMA ReceivedIs ==
  ASSUME HttpCounts, requests < MaxRequests, NEW n \in 0 .. Pieces, NEW txt \in BOOLEAN,
         NEW s \in Received(n, txt)
  PROVE  /\ s \in Seq(1 .. MaxRequests) /\ Len(s) <= n /\ (txt => Len(s) = n)
         /\ \A i \in 1 .. Len(s) : s[i] = requests + 1
  <1> USE HttpAssumption DEF HttpCounts
  <1>1. PICK k \in 0 .. n : s = <<>> \o [i \in 1 .. k |-> requests + 1] /\ (txt => k = n)
    BY DEF Received, Before
  <1>2. PICK t : t = [i \in 1 .. k |-> requests + 1]
    OBVIOUS
  <1>3. t \in Seq(1 .. MaxRequests) /\ Len(t) = k /\ \A i \in 1 .. k : t[i] = requests + 1
    BY <1>2
  <1>4. s = t
    BY <1>1, <1>2, <1>3
  <1> QED
    BY <1>1, <1>3, <1>4

LEMMA RequestKeeps ==
  ASSUME HttpIInv, Request
  PROVE  HttpIInv'
  <1> USE DEF HttpIInv
  <1>1. /\ requests < MaxRequests /\ requests' = requests + 1
        /\ UNCHANGED <<net, url, headers, live, begins, looked>>
    BY DEF Request
  <1>2. ownHeaders'
    BY DEF Request, HttpHeaders
  <1>3. HttpHeaders' /\ HttpLooks'
    BY <1>1, <1>2 DEF HttpHeaders, HttpLooks
  <1>4. CASE url # 0 /\ net = "real"
    <2>1. /\ text' \in BOOLEAN
          /\ \/ code' \in {"ok", "error"} /\ body' \in Received(Pieces, text')
             \/ code' = "refused" /\ \E n \in 0 .. Pieces : body' \in Received(n, text')
      BY <1>4 DEF Request
    <2>2. HttpFlags'
      BY <1>1, <1>2, <2>1 DEF HttpFlags
    <2>3. HttpCounts'
      BY <1>1, <2>1, HttpAssumption DEF HttpCounts
    <2>4. CASE code' \in {"ok", "error"} /\ body' \in Received(Pieces, text')
      <3>1. /\ body' \in Seq(1 .. MaxRequests) /\ Len(body') <= Pieces
            /\ (text' => Len(body') = Pieces)
            /\ \A i \in 1 .. Len(body') : body'[i] = requests + 1
        BY <1>1, <2>1, <2>4, ReceivedIs, HttpAssumption
      <3> QED
        BY <1>1, <1>3, <1>4, <2>2, <2>3, <3>1 DEF HttpBody
    <2>5. CASE code' = "refused" /\ \E n \in 0 .. Pieces : body' \in Received(n, text')
      <3>1. PICK n \in 0 .. Pieces : body' \in Received(n, text')
        BY <2>5
      <3>2. /\ body' \in Seq(1 .. MaxRequests) /\ Len(body') <= n
            /\ \A i \in 1 .. Len(body') : body'[i] = requests + 1
        BY <1>1, <2>1, <3>1, ReceivedIs
      <3> QED
        BY <1>1, <1>3, <1>4, <2>2, <2>3, <2>5, <3>1, <3>2, HttpAssumption DEF HttpBody
    <2> QED
      BY <2>1, <2>4, <2>5
  <1>5. CASE url = 0 \/ net # "real"
    <2>1. /\ code' = CASE url = 0 -> "unconnected" [] net = "fake" -> "ok" [] OTHER -> "refused"
          /\ body' = IF url = 0 THEN body ELSE Before
          /\ UNCHANGED text
      BY <1>5 DEF Request
    <2>2. HttpFlags'
      BY <1>1, <1>2, <2>1 DEF HttpFlags
    <2>3. code' \in {"ok", "refused", "unconnected"} /\ (code' = "ok" => net # "real")
      BY <1>5, <2>1
    <2>4. HttpCounts'
      BY <1>1, <2>3, HttpAssumption DEF HttpCounts
    <2>5. body' = <<>>
      BY <2>1 DEF Before, HttpBody
    <2>6. HttpBody'
      BY <1>1, <2>3, <2>5, HttpAssumption DEF HttpBody
    <2> QED
      BY <1>3, <2>2, <2>4, <2>6
  <1> QED
    BY <1>4, <1>5

LEMMA HttpKept == HttpIInv /\ [NextHttp]_httpVars => HttpIInv'
  <1> SUFFICES ASSUME HttpIInv, [NextHttp]_httpVars PROVE HttpIInv'
    OBVIOUS
  <1>1. CASE UNCHANGED httpVars
    BY <1>1 DEF httpVars, HttpIInv, HttpFlags, HttpCounts, HttpHeaders, HttpBody, HttpLooks
  <1> QED
    BY <1>1, QuietCallKeeps, RequestKeeps DEF NextHttp

\* However a sketch uses its client again: the body it is handed and the headers it sends are
\* of the request and the begin() they belong to, and a download loop ends.
THEOREM HttpAnswersAreOwn == SpecHttp => []AnswersAreOwn
  BY HttpInit, HttpKept, HttpShows, PTL DEF SpecHttp

------------------------------------------------------------------------------
(***************************************************************************)
(* FilesInv is an invariant of Files for every tree of paths and every     *)
(* number of variables: however the sketch's Files are moved, overwritten  *)
(* and closed, each FILE and iterator has one owner, and name() is right.  *)
(***************************************************************************)

Known == Dirs \cup Leaves

\* What a host path is made of.
HostParts == Parts \cup {Top}

Pointers == 1 .. MaxFsCalls + 1

FileObjects ==
  [fp : Pointers \cup {0}, iter : Pointers \cup {0}, isDir : BOOLEAN,
   path : Seq(HostParts), absRoot : Seq(HostParts), real : Seq(HostParts)]

\* What a File owns.
Of(f) == {f.fp, f.iter} \ {0}

\* name() of f is right.
Named(f) == Of(f) # {} /\ f.real # <<>> => f.path # <<>> /\ Last(f.path) = Last(f.real)

\* Every FILE and iterator is from a call of its own: a pointer is always free.
Types ==
  /\ inPlace \in BOOLEAN /\ there \subseteq Known /\ fsCalls \in 0 .. MaxFsCalls
  /\ handle \in [Names -> FileObjects]
  /\ DOMAIN held \subseteq Pointers /\ IsFiniteSet(DOMAIN held)
  /\ Cardinality(DOMAIN held) <= fsCalls
  /\ \A i \in DOMAIN held : held[i] \subseteq Known \ {<<>>}

IndInv == Types /\ OneOwner /\ \A v \in Names : Named(handle[v])

-----------------------------------------------------------------------------
(* Paths                                                                   *)

LEMMA KnownArePaths == Known \subseteq Seq(HostParts)
  <1>1. Known \subseteq Seq(Parts)
    BY FilesAssumption DEF Known
  <1> QED
    BY <1>1 DEF HostParts

LEMMA HostPath ==
  ASSUME NEW q \in Known
  PROVE  /\ Host(q) \in Seq(HostParts)
         /\ Len(Host(q)) = Len(q) + 1
         /\ \A i \in 1 .. Len(q) : Host(q)[i + 1] = q[i]
  <1>1. q \in Seq(HostParts) /\ <<Top>> \in Seq(HostParts)
    BY KnownArePaths DEF HostParts
  <1> QED
    BY <1>1 DEF Host

\* What openNextFile() leaves of an entry's path ends with the entry's name.
LEMMA BelowKeepsName ==
  ASSUME NEW d \in FileObjects, NEW q \in Known, q # <<>>
  PROVE  /\ Below(d, q) \in Seq(HostParts)
         /\ Below(d, q) # <<>> /\ Last(Below(d, q)) = Last(q)
  <1> DEFINE full == Host(q)
  <1> DEFINE rest == IF IsStrictPrefix(d.absRoot, full)
                     THEN SubSeq(full, Len(d.absRoot) + 1, Len(full)) ELSE full
  <1>1. q \in Seq(HostParts) /\ Len(q) \in Nat /\ Len(q) > 0
    BY KnownArePaths
  <1>2. full \in Seq(HostParts) /\ Len(full) = Len(q) + 1 /\ full[Len(full)] = q[Len(q)]
    BY <1>1, HostPath
  <1>3. d.absRoot \in Seq(HostParts) /\ d.path \in Seq(HostParts)
    BY DEF FileObjects
  <1> HIDE DEF full
  <1>4. rest \in Seq(HostParts) /\ Len(rest) > 0 /\ rest[Len(rest)] = full[Len(full)]
    <2>1. CASE ~IsStrictPrefix(d.absRoot, full)
      BY <1>1, <1>2, <2>1
    <2>2. CASE IsStrictPrefix(d.absRoot, full)
      <3>1. Len(d.absRoot) <= Len(full) /\ d.absRoot # full
            /\ SubSeq(d.absRoot, 1, Len(d.absRoot)) = SubSeq(full, 1, Len(d.absRoot))
        BY <2>2 DEF IsStrictPrefix, IsPrefix
      <3>2. Len(d.absRoot) # Len(full)
        <4> SUFFICES ASSUME Len(d.absRoot) = Len(full) PROVE FALSE
          OBVIOUS
        <4>1. SubSeq(d.absRoot, 1, Len(d.absRoot)) = d.absRoot
          BY <1>3
        <4>2. SubSeq(full, 1, Len(full)) = full
          BY <1>2
        <4> QED
          BY <3>1, <4>1, <4>2
      <3>3. Len(d.absRoot) \in Nat /\ Len(full) \in Nat /\ Len(d.absRoot) < Len(full)
        BY <1>2, <1>3, <3>1, <3>2
      <3>4. rest = SubSeq(full, Len(d.absRoot) + 1, Len(full))
        BY <2>2
      <3>5. ASSUME NEW k \in Nat, NEW s \in Seq(HostParts), k < Len(s)
            PROVE  /\ SubSeq(s, k + 1, Len(s)) \in Seq(HostParts)
                   /\ Len(SubSeq(s, k + 1, Len(s))) = Len(s) - k
                   /\ SubSeq(s, k + 1, Len(s))[Len(s) - k] = s[Len(s)]
        BY <3>5
      <3> HIDE DEF rest
      <3>6. /\ rest \in Seq(HostParts) /\ Len(rest) = Len(full) - Len(d.absRoot)
            /\ rest[Len(full) - Len(d.absRoot)] = full[Len(full)]
        BY <1>2, <3>3, <3>4, <3>5
      <3> QED
        BY <3>3, <3>6
    <2> QED
      BY <2>1, <2>2
  <1>5. Below(d, q) = d.path \o rest
    BY DEF Below, full
  <1> HIDE DEF rest
  <1>6. /\ d.path \o rest \in Seq(HostParts)
        /\ Len(d.path \o rest) = Len(d.path) + Len(rest)
        /\ (d.path \o rest)[Len(d.path) + Len(rest)] = rest[Len(rest)]
    BY <1>3, <1>4
  <1> QED
    BY <1>1, <1>2, <1>3, <1>4, <1>5, <1>6 DEF Last

-----------------------------------------------------------------------------
(* Pointers                                                                *)

LEMMA FreshIsFree ==
  ASSUME Types, fsCalls < MaxFsCalls, NEW os, DOMAIN os = DOMAIN held
  PROVE  Fresh(os) \in Pointers \ DOMAIN held
  <1>1. \E i \in Pointers : i \notin DOMAIN os
    <2> SUFFICES ASSUME Pointers \subseteq DOMAIN held PROVE FALSE
      OBVIOUS
    <2>1. Cardinality(Pointers) = MaxFsCalls + 1
      BY FS_Interval, FilesAssumption DEF Pointers
    <2>2. Cardinality(Pointers) <= Cardinality(DOMAIN held)
      BY FS_Subset DEF Types
    <2>3. Cardinality(DOMAIN held) \in Nat
      BY FS_CardinalityType DEF Types
    <2> QED
      BY <2>1, <2>2, <2>3, FilesAssumption DEF Types
  <1> QED
    BY <1>1 DEF Fresh, Pointers

\* A variable that gets a File which owns nothing yet known, or something new, closes what
\* it owned.
LEMMA IntoKeeps ==
  ASSUME IndInv, NEW v \in Names, NEW f \in FileObjects, NEW os,
         Named(f), Of(f) \cap DOMAIN held = {}, DOMAIN os = DOMAIN held \cup Of(f),
         \A i \in DOMAIN os : os[i] \subseteq Known \ {<<>>},
         \E i \in Pointers : Of(f) \subseteq {i},
         Call, Into(v, f, os), UNCHANGED inPlace, there' \subseteq Known
  PROVE  IndInv'
  <1> USE DEF IndInv
  <1>1. handle \in [Names -> FileObjects]
    BY DEF Types
  <1>2. PICK g \in FileObjects :
          /\ handle' = [handle EXCEPT ![v] = g]
          /\ g.fp = f.fp /\ g.iter = f.iter /\ g.path = f.path /\ g.real = f.real
    <2>1. CASE handle' = [handle EXCEPT ![v] = f]
      BY <2>1
    <2>2. CASE handle' = [handle EXCEPT ![v] = Assigned(@, f)]
      <3> DEFINE g == Assigned(handle[v], f)
      <3>1. handle[v] \in FileObjects
        BY <1>1
      <3>2. g \in FileObjects /\ g.fp = f.fp /\ g.iter = f.iter /\ g.path = f.path
            /\ g.real = f.real
        BY <3>1 DEF Assigned, FileObjects
      <3>3. handle' = [handle EXCEPT ![v] = g]
        BY <2>2, <1>1
      <3> HIDE DEF g
      <3> QED
        BY <3>2, <3>3
    <2> QED
      BY <2>1, <2>2 DEF Into
  <1>3. DOMAIN held' = DOMAIN os \ Of(handle[v])
    <2>1. 0 \notin DOMAIN os
      BY DEF Types, Of, Pointers
    <2>2. DOMAIN held' = DOMAIN os \ {handle[v].fp, handle[v].iter}
      BY DEF Into, Without
    <2> QED
      BY <2>1, <2>2 DEF Of
  <1>4. \A i \in DOMAIN held' : held'[i] = os[i]
    BY DEF Into, Without
  <1>5. /\ handle'[v] = g /\ Of(g) = Of(f)
        /\ \A w \in Names : w # v => handle'[w] = handle[w]
        /\ \A w \in Names : Owns(w) = Of(handle[w])
        /\ \A w \in Names : Owns(w)' = Of(handle'[w])
    BY <1>1, <1>2 DEF Owns, Of
  <1>6. OneOwner'
    <2>1. /\ \A w, x \in Names : w # x => Of(handle[w]) \cap Of(handle[x]) = {}
          /\ UNION {Of(handle[w]) : w \in Names} = DOMAIN held
      <3>1. {Of(handle[w]) : w \in Names} = {Owns(w) : w \in Names}
        BY <1>5
      <3> QED
        BY <1>5, <3>1 DEF OneOwner
    <2>2. \A w, x \in Names : w # x => Of(handle'[w]) \cap Of(handle'[x]) = {}
      BY <1>5, <2>1
    <2>3. UNION {Of(handle'[w]) : w \in Names} = DOMAIN held'
      <3>1. UNION {Of(handle'[w]) : w \in Names} \subseteq DOMAIN held'
        BY <1>3, <1>5, <2>1
      <3>2. DOMAIN held' \subseteq UNION {Of(handle'[w]) : w \in Names}
        BY <1>3, <1>5, <2>1
      <3> QED
        BY <3>1, <3>2
    <2>4. {Of(handle'[w]) : w \in Names} = {Owns(w)' : w \in Names}
      BY <1>5
    <2> QED
      BY <1>5, <2>2, <2>3, <2>4 DEF OneOwner
  <1>7. \A w \in Names : Named(handle'[w])
    BY <1>2, <1>5 DEF Named
  <1>8. Types'
    <2>1. handle' \in [Names -> FileObjects]
      BY <1>1, <1>2
    <2>2. PICK i \in Pointers : Of(f) \subseteq {i}
      OBVIOUS
    <2>3. /\ IsFiniteSet(DOMAIN held \cup {i})
          /\ Cardinality(DOMAIN held \cup {i}) <= fsCalls + 1
      <3>1. Cardinality(DOMAIN held) \in Nat
        BY FS_CardinalityType DEF Types
      <3>2. IsFiniteSet(DOMAIN held) /\ Cardinality(DOMAIN held) <= fsCalls /\ fsCalls \in Nat
        BY FilesAssumption DEF Types
      <3>3. /\ IsFiniteSet(DOMAIN held \cup {i})
            /\ Cardinality(DOMAIN held \cup {i}) \in
                 {Cardinality(DOMAIN held), Cardinality(DOMAIN held) + 1}
        BY <3>2, FS_AddElement
      <3> QED
        BY <3>1, <3>2, <3>3
    <2>4. DOMAIN held' \subseteq DOMAIN held \cup {i}
      BY <1>3, <2>2
    <2>5. /\ IsFiniteSet(DOMAIN held')
          /\ Cardinality(DOMAIN held') <= Cardinality(DOMAIN held \cup {i})
      BY <2>3, <2>4, FS_Subset
    <2>6. Cardinality(DOMAIN held') \in Nat /\ Cardinality(DOMAIN held \cup {i}) \in Nat
      BY <2>3, <2>5, FS_CardinalityType
    <2>7. Cardinality(DOMAIN held') <= fsCalls' /\ fsCalls' \in 0 .. MaxFsCalls
      BY <2>3, <2>5, <2>6, FilesAssumption DEF Call, Types
    <2>8. DOMAIN held' \subseteq Pointers
      BY <2>2, <2>4 DEF Types
    <2>9. \A j \in DOMAIN held' : held'[j] \subseteq Known \ {<<>>}
      BY <1>3, <1>4
    <2> QED
      BY <2>1, <2>5, <2>7, <2>8, <2>9 DEF Types
  <1> QED
    BY <1>6, <1>7, <1>8

-----------------------------------------------------------------------------
(* The calls                                                               *)

\* A FILE or an iterator is made for what is there, or neither.
LEMMA MakeKeeps ==
  ASSUME IndInv, Call, NEW v \in Names, NEW p \in Seq(HostParts),
         NEW path \in Seq(HostParts), NEW ok \in BOOLEAN, NEW os,
         DOMAIN os = DOMAIN held, \A i \in DOMAIN os : os[i] \subseteq Known \ {<<>>},
         p # <<>> => path # <<>> /\ Last(path) = Last(p),
         Make(v, p, path, ok, os), UNCHANGED inPlace, there' \subseteq Known
  PROVE  IndInv'
  <1> DEFINE i == Fresh(os)
  <1> DEFINE blank == [Empty EXCEPT !.path = path, !.real = p]
  <1> DEFINE dir == [blank EXCEPT !.iter = i, !.isDir = TRUE, !.absRoot = Host(p)]
  <1> DEFINE file == [blank EXCEPT !.fp = i]
  <1>1. i \in Pointers \ DOMAIN held
    BY FreshIsFree DEF IndInv, Call
  <1>2. <<>> \in Seq(HostParts)
    OBVIOUS
  <1>3. 0 \notin Pointers
    BY DEF Pointers
  <1> HIDE DEF i
  <1>4. /\ blank \in FileObjects /\ blank.fp = 0 /\ blank.iter = 0
        /\ blank.path = path /\ blank.real = p
    <2>1. Empty \in FileObjects /\ Empty.fp = 0 /\ Empty.iter = 0
      BY <1>2 DEF Empty, FileObjects
    <2> QED
      BY <2>1 DEF FileObjects
  <1>5. ASSUME NEW f \in FileObjects
        PROVE  /\ Returned(f) \in FileObjects /\ Returned(f).fp = f.fp /\ Returned(f).iter = f.iter
               /\ Returned(f).path = f.path /\ Returned(f).real = f.real
    BY <1>2 DEF Returned, Constructed, FileObjects
  <1>6. CASE p \in there \cap Dirs
    <2>1. Host(p) \in Seq(HostParts)
      BY <1>6, HostPath DEF IndInv, Types
    <2>2. dir \in FileObjects /\ dir.fp = 0 /\ dir.iter = i /\ dir.path = path /\ dir.real = p
      BY <1>1, <1>4, <2>1 DEF FileObjects
    <2> HIDE DEF dir, blank
    <2>3. /\ Returned(dir) \in FileObjects /\ Named(Returned(dir)) /\ Of(Returned(dir)) = {i}
      BY <1>1, <1>3, <1>5, <2>2 DEF Named, Of
    <2>4. Into(v, Returned(dir), With(i, Children(p), os))
      BY <1>6 DEF Make, dir, blank, i
    <2>5. DOMAIN With(i, Children(p), os) = DOMAIN held \cup {i}
      BY DEF With
    <2>6. Children(p) \subseteq Known \ {<<>>}
      BY DEF Children, IndInv, Types
    <2>7. \A j \in DOMAIN With(i, Children(p), os) :
            With(i, Children(p), os)[j] \subseteq Known \ {<<>>}
      BY <2>6 DEF With
    <2> QED
      BY <1>1, <2>3, <2>4, <2>5, <2>7, IntoKeeps
  <1>7. CASE p \notin there \cap Dirs /\ ok
    <2>1. file \in FileObjects /\ file.fp = i /\ file.iter = 0 /\ file.path = path /\ file.real = p
      BY <1>1, <1>4 DEF FileObjects
    <2> HIDE DEF file, blank
    <2>2. /\ Returned(file) \in FileObjects /\ Named(Returned(file)) /\ Of(Returned(file)) = {i}
      BY <1>1, <1>3, <1>5, <2>1 DEF Named, Of
    <2>3. Into(v, Returned(file), With(i, {}, os))
      BY <1>7 DEF Make, file, blank, i
    <2>4. DOMAIN With(i, {}, os) = DOMAIN held \cup {i}
      BY DEF With
    <2>5. \A j \in DOMAIN With(i, {}, os) : With(i, {}, os)[j] \subseteq Known \ {<<>>}
      BY DEF With
    <2> QED
      BY <1>1, <2>2, <2>3, <2>4, <2>5, IntoKeeps
  <1>8. CASE p \notin there \cap Dirs /\ ~ok
    <2>1. blank.fp = 0 /\ blank.iter = 0
      BY <1>4
    <2>2. Into(v, Returned(blank), os)
      BY <1>8 DEF Make, blank
    <2> HIDE DEF blank
    <2>3. Returned(blank) \in FileObjects /\ Of(Returned(blank)) = {}
      BY <1>4, <1>5, <2>1 DEF Of
    <2>4. Named(Returned(blank))
      BY <2>3 DEF Named
    <2> QED
      BY <1>1, <2>2, <2>3, <2>4, IntoKeeps
  <1> QED
    BY <1>6, <1>7, <1>8

LEMMA OpenStep ==
  ASSUME IndInv, NEW v \in Names, OpenFile(v)
  PROVE  IndInv'
  <1>1. PICK p \in Known \cup {handle[w].path : w \in Names}, write \in BOOLEAN :
          LET makes == write /\ p \in Leaves /\ Front(p) \in there
          IN \E ok \in {FALSE, makes \/ p \in there} :
               /\ there' = IF ok THEN there \cup {p} ELSE there
               /\ Make(v, p, p, ok, held)
    BY DEF OpenFile, Known
  <1> DEFINE makes == write /\ p \in Leaves /\ Front(p) \in there
  <1>2. PICK ok \in {FALSE, makes \/ p \in there} :
          there' = (IF ok THEN there \cup {p} ELSE there) /\ Make(v, p, p, ok, held)
    BY <1>1
  <1>3. p \in Seq(HostParts)
    <2>1. \A w \in Names : handle[w].path \in Seq(HostParts)
      BY DEF IndInv, Types, FileObjects
    <2> QED
      BY <2>1, KnownArePaths
  <1>4. ok \in BOOLEAN /\ (ok => p \in Known)
    BY DEF IndInv, Types, Known
  <1>5. there' \subseteq Known
    BY <1>2, <1>4 DEF IndInv, Types
  <1>6. Call /\ UNCHANGED inPlace
    BY DEF OpenFile
  <1>7. \A i \in DOMAIN held : held[i] \subseteq Known \ {<<>>}
    BY DEF IndInv, Types
  <1> QED
    BY <1>2, <1>3, <1>4, <1>5, <1>6, <1>7, MakeKeeps

LEMMA OpenNextStep ==
  ASSUME IndInv, NEW v \in Names, NEW d \in Names, OpenNext(v, d)
  PROVE  IndInv'
  <1> DEFINE f == handle[d]
  <1>1. f \in FileObjects
    BY DEF IndInv, Types
  <1>2. Call /\ UNCHANGED <<inPlace, there>> /\ there' \subseteq Known
    BY DEF OpenNext, IndInv, Types
  <1>3. \A i \in DOMAIN held : held[i] \subseteq Known \ {<<>>}
    BY DEF IndInv, Types
  <1>4. CASE Into(v, Empty, held)
    <2>1. Empty \in FileObjects /\ Of(Empty) = {}
      <3>1. <<>> \in Seq(HostParts)
        OBVIOUS
      <3> QED
        BY <3>1 DEF Empty, FileObjects, Of
    <2>2. Named(Empty)
      BY <2>1 DEF Named
    <2>3. 1 \in Pointers
      BY FilesAssumption DEF Pointers
    <2> QED
      BY <1>2, <1>3, <1>4, <2>1, <2>2, <2>3, IntoKeeps
  <1>5. CASE \E q \in held[f.iter], ok \in BOOLEAN :
               f.isDir /\ f.iter # 0
               /\ Make(v, q, Below(f, q), ok /\ q \in there,
                       [held EXCEPT ![f.iter] = @ \ {q}])
    <2>1. PICK q \in held[f.iter], ok \in BOOLEAN :
               f.isDir /\ f.iter # 0
               /\ Make(v, q, Below(f, q), ok /\ q \in there,
                       [held EXCEPT ![f.iter] = @ \ {q}])
      BY <1>5
    <2>2. f.iter \in DOMAIN held
      BY <2>1 DEF IndInv, OneOwner, Owns
    <2>3. q \in Known /\ q # <<>>
      BY <1>3, <2>2
    <2>4. /\ Below(f, q) \in Seq(HostParts) /\ Below(f, q) # <<>>
          /\ Last(Below(f, q)) = Last(q)
      BY <1>1, <2>3, BelowKeepsName
    <2> DEFINE os == [held EXCEPT ![f.iter] = @ \ {q}]
    <2>5. DOMAIN os = DOMAIN held /\ \A i \in DOMAIN os : os[i] \subseteq Known \ {<<>>}
      BY <1>3
    <2>6. q \in Seq(HostParts) /\ (ok /\ q \in there) \in BOOLEAN
      BY <2>3, KnownArePaths
    <2> QED
      BY <1>2, <2>1, <2>4, <2>5, <2>6, MakeKeeps
  <1> QED
    BY <1>4, <1>5 DEF OpenNext

\* OneOwner pointer by pointer.
LEMMA OwnersOf ==
  /\ OneOwner <=>
       /\ \A v, w \in Names : v # w => Of(handle[v]) \cap Of(handle[w]) = {}
       /\ \A i : i \in DOMAIN held <=> \E v \in Names : i \in Of(handle[v])
  <1>1. \A v \in Names : Owns(v) = Of(handle[v])
    BY DEF Owns, Of
  <1>2. \A i : i \in UNION {Owns(v) : v \in Names} <=> \E v \in Names : i \in Of(handle[v])
    BY <1>1
  <1>3. UNION {Owns(v) : v \in Names} = DOMAIN held
          <=> \A i : i \in DOMAIN held <=> i \in UNION {Owns(v) : v \in Names}
    OBVIOUS
  <1> QED
    BY <1>1, <1>2, <1>3 DEF OneOwner

\* v gets what w owned, or nothing, and what v owned goes.
LEMMA ShrinkKeeps ==
  ASSUME IndInv, Call, UNCHANGED inPlace, there' \subseteq Known, NEW v \in Names,
         handle' \in [Names -> FileObjects], \A x \in Names : Named(handle'[x]),
         DOMAIN held' = DOMAIN held \ Of(handle[v]),
         \A i \in DOMAIN held' : held'[i] = held[i],
         \A i : (\E x \in Names : i \in Of(handle'[x])) <=> (\E x \in Names \ {v} : i \in Of(handle[x])),
         \A x, y \in Names : x # y => Of(handle'[x]) \cap Of(handle'[y]) = {}
  PROVE  IndInv'
  <1> USE DEF IndInv
  <1>1. OneOwner'
    <2>1. \A i : i \in DOMAIN held' <=> \E x \in Names : i \in Of(handle'[x])
      BY OwnersOf
    <2>2. \A x \in Names : Owns(x)' = Of(handle'[x])
      BY DEF Owns, Of
    <2>3. \A i : i \in UNION {Owns(x)' : x \in Names} <=> i \in DOMAIN held'
      BY <2>1, <2>2
    <2>4. UNION {Owns(x)' : x \in Names} = DOMAIN held'
      BY <2>3
    <2> QED
      BY <2>2, <2>4 DEF OneOwner
  <1>2. DOMAIN held' \subseteq DOMAIN held
    OBVIOUS
  <1>3. /\ IsFiniteSet(DOMAIN held') /\ Cardinality(DOMAIN held') <= Cardinality(DOMAIN held)
        /\ Cardinality(DOMAIN held') \in Nat /\ Cardinality(DOMAIN held) \in Nat
    BY <1>2, FS_Subset, FS_CardinalityType DEF Types
  <1>4. Cardinality(DOMAIN held') <= fsCalls' /\ fsCalls' \in 0 .. MaxFsCalls
    BY <1>3, FilesAssumption DEF Types, Call
  <1>5. Types'
    BY <1>2, <1>3, <1>4 DEF Types
  <1> QED
    BY <1>1, <1>5

\* Who is moved to closes what it owned; who is moved from owns nothing.
LEMMA MoveStep ==
  ASSUME IndInv, NEW v \in Names, NEW w \in Names, Move(v, w)
  PROVE  IndInv'
  <1>1. PICK a \in FileObjects, b \in FileObjects :
          /\ handle' = [handle EXCEPT ![v] = a, ![w] = b]
          /\ Of(a) = Of(handle[w]) /\ a.path = handle[w].path /\ a.real = handle[w].real
          /\ Of(b) = {}
    <2> DEFINE a == Assigned(handle[v], handle[w])
    <2> DEFINE b == MovedFrom(handle[w])
    <2>1. handle[v] \in FileObjects /\ handle[w] \in FileObjects
          /\ handle \in [Names -> FileObjects]
      BY DEF IndInv, Types
    <2>2. a \in FileObjects /\ Of(a) = Of(handle[w]) /\ a.path = handle[w].path
          /\ a.real = handle[w].real
      BY <2>1 DEF Assigned, FileObjects, Of
    <2>3. b \in FileObjects /\ Of(b) = {}
      <3>1. <<>> \in Seq(HostParts)
        OBVIOUS
      <3> QED
        BY <2>1, <3>1 DEF MovedFrom, FileObjects, Of
    <2>4. handle' = [handle EXCEPT ![v] = a, ![w] = b]
      BY <2>1 DEF Move
    <2> HIDE DEF a, b
    <2> QED
      BY <2>2, <2>3, <2>4
  <1>2. v # w /\ Call /\ UNCHANGED <<inPlace, there>>
    BY DEF Move
  <1>3. DOMAIN held' = DOMAIN held \ Of(handle[v])
    <2>1. DOMAIN held' = DOMAIN held \ {handle[v].fp, handle[v].iter} /\ 0 \notin DOMAIN held
      BY DEF Move, Without, IndInv, Types, Pointers
    <2> QED
      BY <2>1 DEF Of
  <1>4. \A i \in DOMAIN held' : held'[i] = held[i]
    BY DEF Move, Without
  <1>5. handle \in [Names -> FileObjects]
    BY DEF IndInv, Types
  <1>6. /\ handle' \in [Names -> FileObjects]
        /\ handle'[v] = a /\ handle'[w] = b
        /\ \A x \in Names \ {v, w} : handle'[x] = handle[x]
    BY <1>1, <1>2, <1>5
  <1>7. \A x \in Names : Named(handle'[x])
    BY <1>1, <1>6 DEF Named, IndInv
  <1>8. \A x, y \in Names : x # y => Of(handle[x]) \cap Of(handle[y]) = {}
    BY OwnersOf DEF IndInv
  <1>9. \A x, y \in Names : x # y => Of(handle'[x]) \cap Of(handle'[y]) = {}
    BY <1>1, <1>2, <1>6, <1>8
  <1>10. \A i : (\E x \in Names : i \in Of(handle'[x])) <=>
                 (\E x \in Names \ {v} : i \in Of(handle[x]))
    BY <1>1, <1>2, <1>6
  <1>11. there' \subseteq Known
    BY <1>2 DEF IndInv, Types
  <1> QED
    BY <1>2, <1>3, <1>4, <1>6, <1>7, <1>9, <1>10, <1>11, ShrinkKeeps

LEMMA CloseStep ==
  ASSUME IndInv, NEW v \in Names, CloseFile(v)
  PROVE  IndInv'
  <1>1. PICK a \in FileObjects : handle' = [handle EXCEPT ![v] = a] /\ Of(a) = {}
    <2>1. handle \in [Names -> FileObjects]
      BY DEF IndInv, Types
    <2>2. CASE handle' = [handle EXCEPT ![v] = Closed(@)]
      <3>1. handle' = [handle EXCEPT ![v] = Closed(handle[v])]
        BY <2>1, <2>2
      <3>2. Closed(handle[v]) \in FileObjects /\ Of(Closed(handle[v])) = {}
        BY <2>1 DEF Closed, FileObjects, Of
      <3> QED
        BY <3>1, <3>2
    <2>3. CASE handle' = [handle EXCEPT ![v] = Empty]
      <3>1. <<>> \in Seq(HostParts)
        OBVIOUS
      <3>2. Empty \in FileObjects /\ Of(Empty) = {}
        BY <3>1 DEF Empty, FileObjects, Of
      <3> QED
        BY <2>3, <3>2
    <2> QED
      BY <2>2, <2>3 DEF CloseFile
  <1>2. Call /\ UNCHANGED <<inPlace, there>>
    BY DEF CloseFile
  <1>3. DOMAIN held' = DOMAIN held \ Of(handle[v])
    <2>1. DOMAIN held' = DOMAIN held \ {handle[v].fp, handle[v].iter} /\ 0 \notin DOMAIN held
      BY DEF CloseFile, Without, IndInv, Types, Pointers
    <2> QED
      BY <2>1 DEF Of
  <1>4. \A i \in DOMAIN held' : held'[i] = held[i]
    BY DEF CloseFile, Without
  <1>5. /\ handle' \in [Names -> FileObjects]
        /\ handle'[v] = a /\ \A x \in Names \ {v} : handle'[x] = handle[x]
    BY <1>1 DEF IndInv, Types
  <1>6. \A x \in Names : Named(handle'[x])
    BY <1>1, <1>5 DEF Named, IndInv
  <1>7. \A x, y \in Names : x # y => Of(handle'[x]) \cap Of(handle'[y]) = {}
    BY <1>1, <1>5, OwnersOf DEF IndInv
  <1>8. \A i : (\E x \in Names : i \in Of(handle'[x])) <=>
                 (\E x \in Names \ {v} : i \in Of(handle[x]))
    BY <1>1, <1>5
  <1>9. there' \subseteq Known
    BY <1>2 DEF IndInv, Types
  <1> QED
    BY <1>2, <1>3, <1>4, <1>5, <1>6, <1>7, <1>8, <1>9, ShrinkKeeps

\* Directories come, and files and directories go, whatever is open on them.
LEMMA TreeStep ==
  ASSUME IndInv, (\E p \in Dirs : Mkdir(p)) \/ (\E p \in Known : RemovePath(p))
  PROVE  IndInv'
  <1>1. Call /\ UNCHANGED <<inPlace, handle, held>>
    BY DEF Mkdir, RemovePath
  <1>2. there' \subseteq Known
    BY DEF Mkdir, RemovePath, IndInv, Types, Known
  <1>3. Cardinality(DOMAIN held) \in Nat
    BY FS_CardinalityType DEF IndInv, Types
  <1>4. Types'
    BY <1>1, <1>2, <1>3, FilesAssumption DEF IndInv, Types, Call
  <1>5. OneOwner' /\ \A v \in Names : Named(handle'[v])
    BY <1>1 DEF IndInv, OneOwner, Owns
  <1> QED
    BY <1>4, <1>5 DEF IndInv

-----------------------------------------------------------------------------
LEMMA InitIndInv == InitFiles => IndInv
  <1> SUFFICES ASSUME InitFiles PROVE IndInv
    OBVIOUS
  <1>1. Empty \in FileObjects /\ Of(Empty) = {}
    <2>1. <<>> \in Seq(HostParts)
      OBVIOUS
    <2> QED
      BY <2>1 DEF Empty, FileObjects, Of
  <1>2. DOMAIN held = {} /\ \A v \in Names : handle[v] = Empty
    BY DEF InitFiles
  <1>3. IsFiniteSet(DOMAIN held) /\ Cardinality(DOMAIN held) = 0
    BY <1>2, FS_EmptySet
  <1>4. Types
    BY <1>1, <1>2, <1>3, FilesAssumption DEF InitFiles, Types, Known
  <1>5. OneOwner
    BY <1>1, <1>2, OwnersOf
  <1>6. \A v \in Names : Named(handle[v])
    BY <1>1, <1>2 DEF Named
  <1> QED
    BY <1>4, <1>5, <1>6 DEF IndInv

LEMMA NextIndInv == IndInv /\ [NextFiles]_fsVars => IndInv'
  <1> SUFFICES ASSUME IndInv, [NextFiles]_fsVars PROVE IndInv'
    OBVIOUS
  <1>1. CASE NextFiles
    BY <1>1, OpenStep, OpenNextStep, MoveStep, CloseStep, TreeStep DEF NextFiles, Known
  <1>2. CASE UNCHANGED fsVars
    <2>1. Types'
      BY <1>2 DEF fsVars, IndInv, Types
    <2>2. OneOwner' /\ \A v \in Names : Named(handle'[v])
      BY <1>2 DEF fsVars, IndInv, OneOwner, Owns
    <2> QED
      BY <2>1, <2>2 DEF IndInv
  <1> QED
    BY <1>1, <1>2

LEMMA IndInvShows == IndInv => FilesInv
  <1> SUFFICES ASSUME IndInv PROVE FilesInv
    OBVIOUS
  <1>1. FilesTypeOK
    BY DEF IndInv, Types, FilesTypeOK, FileObjects, Known
  <1>2. NamesRight
    BY DEF IndInv, NamesRight, Named, Owns, Of
  <1> QED
    BY <1>1, <1>2 DEF IndInv, FilesInv

\* However a sketch moves, overwrites and closes its Files, nothing of the host is closed
\* twice, leaked or used when it is closed, and name() is right (FS.h, openNextFile()).
THEOREM FilesAreOwned == SpecFiles => []FilesInv
  <1>1. SpecFiles => []IndInv
    BY InitIndInv, NextIndInv, PTL DEF SpecFiles
  <1> QED
    BY <1>1, IndInvShows, PTL

------------------------------------------------------------------------------
(***************************************************************************)
(* UartInv and AcksFollowStream are invariants of UartPort for any writes, *)
(* injectors and length of the history.                                    *)
(***************************************************************************)

\* What the sketch has read or may read at once.
Heard == got \o rx

UpTo(s, i) == {k \in 1 .. i : s[k].kind = "ack"}
Acks(s, i) == Cardinality(UpTo(s, i))

\* The identities of the scans among the units.
ScansIn(s) == {s[i].id : i \in {k \in 1 .. Len(s) : s[k].kind = "scan"}}
Held == ScansIn(Heard) \cup ScansIn(delayed)

Once(s) ==
  \A i, k \in 1 .. Len(s) :
    s[i].kind = "scan" /\ s[k].kind = "scan" /\ s[i].id = s[k].id => i = k

None(s, kind) == \A i \in 1 .. Len(s) : s[i].kind # kind

\* Every acknowledgement is heard at once, so that a scan that is drained now comes after
\* all of them.
AckOrder ==
  /\ Acks(Heard, Len(Heard)) = fired
  /\ \A i \in 1 .. Len(Heard) : Heard[i].kind = "scan" => Acks(Heard, i) >= Heard[i].after
  /\ \A i \in 1 .. Len(delayed) : delayed[i].kind = "scan" /\ delayed[i].after <= fired
  /\ \A i \in 1 .. Len(fifo) : fifo[i].kind = "fifo"

\* A scan is with one injector, in the queue, or held; only between the two steps of the
\* drain may it be in the queue and held.
ScanPlaces ==
  /\ Once(Heard) /\ Once(delayed)
  /\ ScansIn(Heard) \cap ScansIn(delayed) = {}
  /\ Held \subseteq 1 .. scans
  /\ Len(queue) <= 1
  /\ \A i \in 1 .. Len(queue) : queue[i] <= scans /\ (pc # "truncate" => queue[i] \notin Held)
  /\ \A j \in Injectors : stage[j] # 0 =>
       /\ stage[j] <= scans /\ stage[j] \notin Held
       /\ \A i \in 1 .. Len(queue) : queue[i] # stage[j]
       /\ \A k \in Injectors : stage[k] = stage[j] => k = j

\* After one trigger: its acknowledgement is not read yet; or it is, and the release is not
\* armed; or is armed, which an empty poll did; or is through.
Acked == rx = <<Ack>> /\ ~armed /\ loop = <<>>
Cooling == rx = <<>> /\ ~armed /\ None(loop, "scan") /\ pc \in {"idle", "match"}
Released == delayed = <<>> /\ ~armed /\ None(rx, "ack") /\ None(loop, "ack") /\ pc \in {"idle", "match"}
Armed == rx = <<>> /\ armed /\ loop = <<>> /\ pc \in {"idle", "match"}

Apart ==
  fired <= 1 /\ injects = 0 =>
    /\ fifo = <<>>
    /\ fired = 0 => rx = <<>> /\ delayed = <<>> /\ loop = <<>> /\ ~armed /\ pc \in {"idle", "match"}
    /\ fired = 1 => Acked \/ Cooling \/ Armed \/ Released

UartIInv == UartTypeOK /\ AckOrder /\ ScanPlaces /\ Apart

-----------------------------------------------------------------------------
(* Acknowledgements and scans in a sequence of units                       *)

LEMMA ScansAre ==
  \A s, id : id \in ScansIn(s) <=> \E i \in 1 .. Len(s) : s[i].kind = "scan" /\ s[i].id = id
  BY DEF ScansIn

LEMMA AckIs == Ack \in Units /\ Ack.kind = "ack"
  BY DEF Ack, Units

LEMMA UnitAt ==
  ASSUME NEW s \in Seq(Units), NEW i \in 1 .. Len(s)
  PROVE  s[i] \in Units /\ s[i].id \in Nat /\ s[i].after \in Nat
  <1>1. s[i] \in Units
    BY ElementOfSeq
  <1> QED
    BY <1>1 DEF Units

LEMMA CatAt ==
  ASSUME NEW S, NEW s \in Seq(S), NEW t \in Seq(S)
  PROVE  /\ s \o t \in Seq(S) /\ Len(s \o t) = Len(s) + Len(t)
         /\ Len(s) \in Nat /\ Len(t) \in Nat
         /\ \A i \in 1 .. Len(s) : (s \o t)[i] = s[i]
         /\ \A i \in 1 .. Len(t) : (s \o t)[Len(s) + i] = t[i]
         /\ \A i \in Len(s) + 1 .. Len(s) + Len(t) :
              i - Len(s) \in 1 .. Len(t) /\ (s \o t)[i] = t[i - Len(s)]
  BY ConcatProperties

LEMMA AckCount ==
  ASSUME NEW s \in Seq(Units), NEW i \in 0 .. Len(s), NEW k \in i .. Len(s)
  PROVE  /\ IsFiniteSet(UpTo(s, i)) /\ Acks(s, i) \in Nat
         /\ Acks(s, i) <= Acks(s, k)
  <1>1. /\ UpTo(s, i) \in SUBSET UpTo(s, k) /\ UpTo(s, k) \in SUBSET (1 .. k)
        /\ UpTo(s, i) \in SUBSET (1 .. i)
    BY DEF UpTo
  <1>2. IsFiniteSet(1 .. k) /\ IsFiniteSet(1 .. i)
    BY FS_Interval
  <1>3. IsFiniteSet(UpTo(s, k)) /\ IsFiniteSet(UpTo(s, i))
    BY <1>1, <1>2, FS_Subset
  <1> QED
    BY <1>1, <1>3, FS_Subset, FS_CardinalityType DEF Acks

LEMMA CatsOfCats ==
  \A s, t, u \in Seq(Units) : (s \o t) \o u = s \o (t \o u)
  BY ConcatAssociative

\* What follows does not change the count so far.
LEMMA AcksBefore ==
  ASSUME NEW s \in Seq(Units), NEW t \in Seq(Units), NEW i \in 0 .. Len(s)
  PROVE  Acks(s \o t, i) = Acks(s, i)
  <1>1. \A k \in 1 .. i : (s \o t)[k] = s[k]
    BY CatAt
  <1> QED
    BY <1>1 DEF Acks, UpTo

LEMMA AcksQuiet ==
  ASSUME NEW s \in Seq(Units), NEW t \in Seq(Units), None(t, "ack")
  PROVE  Acks(s \o t, Len(s \o t)) = Acks(s, Len(s))
  <1> PICK u : u = s \o t
    OBVIOUS
  <1>1. /\ Len(u) = Len(s) + Len(t) /\ Len(s) \in Nat /\ Len(t) \in Nat
        /\ \A k \in 1 .. Len(s) : u[k] = s[k]
        /\ \A k \in Len(s) + 1 .. Len(u) : u[k].kind # "ack"
    BY CatAt DEF None
  <1>2. UpTo(u, Len(u)) = UpTo(s, Len(s))
    BY <1>1 DEF UpTo
  <1> QED
    BY <1>2 DEF Acks

LEMMA AcksOneMore ==
  ASSUME NEW s \in Seq(Units), NEW t \in Seq(Units), t = <<Ack>>
  PROVE  Acks(s \o t, Len(s \o t)) = Acks(s, Len(s)) + 1
  <1> PICK u : u = s \o t
    OBVIOUS
  <1>1. /\ Len(u) = Len(s) + 1 /\ Len(s) \in Nat
        /\ \A k \in 1 .. Len(s) : u[k] = s[k]
        /\ u[Len(s) + 1] = Ack
    BY CatAt
  <1>2. UpTo(u, Len(u)) = UpTo(s, Len(s)) \cup {Len(s) + 1}
    BY <1>1, AckIs DEF UpTo
  <1>3. Len(s) + 1 \notin UpTo(s, Len(s)) /\ IsFiniteSet(UpTo(s, Len(s)))
    BY <1>1, AckCount DEF UpTo
  <1> QED
    BY <1>2, <1>3, FS_AddElement DEF Acks

LEMMA ScansOfCat ==
  ASSUME NEW s \in Seq(Units), NEW t \in Seq(Units)
  PROVE  ScansIn(s \o t) = ScansIn(s) \cup ScansIn(t)
  <1> PICK u : u = s \o t
    OBVIOUS
  <1>1. /\ Len(u) = Len(s) + Len(t) /\ Len(s) \in Nat /\ Len(t) \in Nat
        /\ \A k \in 1 .. Len(s) : u[k] = s[k]
        /\ \A k \in 1 .. Len(t) : u[Len(s) + k] = t[k]
        /\ \A k \in Len(s) + 1 .. Len(u) : k - Len(s) \in 1 .. Len(t) /\ u[k] = t[k - Len(s)]
    BY CatAt
  <1>2. ASSUME NEW id \in ScansIn(u) PROVE id \in ScansIn(s) \cup ScansIn(t)
    <2>1. PICK i \in 1 .. Len(u) : u[i].kind = "scan" /\ u[i].id = id
      BY <1>2, ScansAre
    <2>2. CASE i \in 1 .. Len(s)
      BY <1>1, <2>1, <2>2, ScansAre
    <2>3. CASE i \in Len(s) + 1 .. Len(u)
      BY <1>1, <2>1, <2>3, ScansAre
    <2> QED
      BY <1>1, <2>1, <2>2, <2>3
  <1>3. ASSUME NEW id \in ScansIn(s) PROVE id \in ScansIn(u)
    <2>1. PICK i \in 1 .. Len(s) : s[i].kind = "scan" /\ s[i].id = id
      BY <1>3, ScansAre
    <2>2. i \in 1 .. Len(u) /\ u[i] = s[i]
      BY <1>1, <2>1
    <2> QED
      BY <2>1, <2>2, ScansAre
  <1>4. ASSUME NEW id \in ScansIn(t) PROVE id \in ScansIn(u)
    <2>1. PICK i \in 1 .. Len(t) : t[i].kind = "scan" /\ t[i].id = id
      BY <1>4, ScansAre
    <2>2. Len(s) + i \in 1 .. Len(u) /\ u[Len(s) + i] = t[i]
      BY <1>1, <2>1
    <2> QED
      BY <2>1, <2>2, ScansAre
  <1> QED
    BY <1>2, <1>3, <1>4

LEMMA OnceOfCat ==
  ASSUME NEW s \in Seq(Units), NEW t \in Seq(Units),
         Once(s), Once(t), ScansIn(s) \cap ScansIn(t) = {}
  PROVE  Once(s \o t)
  <1> PICK u : u = s \o t
    OBVIOUS
  <1>1. /\ Len(u) = Len(s) + Len(t) /\ Len(s) \in Nat /\ Len(t) \in Nat
        /\ \A k \in 1 .. Len(s) : u[k] = s[k]
        /\ \A k \in Len(s) + 1 .. Len(u) : k - Len(s) \in 1 .. Len(t) /\ u[k] = t[k - Len(s)]
    BY CatAt
  <1> SUFFICES ASSUME NEW i \in 1 .. Len(u), NEW k \in 1 .. Len(u),
                      u[i].kind = "scan", u[k].kind = "scan", u[i].id = u[k].id
               PROVE  i = k
    BY DEF Once
  <1>2. CASE i \in 1 .. Len(s) /\ k \in 1 .. Len(s)
    BY <1>1, <1>2 DEF Once
  <1>3. CASE i > Len(s) /\ k > Len(s)
    <2>1. i - Len(s) \in 1 .. Len(t) /\ k - Len(s) \in 1 .. Len(t)
      BY <1>1, <1>3
    <2>2. i - Len(s) = k - Len(s)
      BY <1>1, <1>3, <2>1 DEF Once
    <2> QED
      BY <1>1, <2>2
  <1>4. CASE i \in 1 .. Len(s) /\ k > Len(s)
    <2>1. u[i].id \in ScansIn(s) /\ u[k].id \in ScansIn(t)
      BY <1>1, <1>4, ScansAre
    <2> QED
      BY <2>1
  <1>5. CASE k \in 1 .. Len(s) /\ i > Len(s)
    <2>1. u[k].id \in ScansIn(s) /\ u[i].id \in ScansIn(t)
      BY <1>1, <1>5, ScansAre
    <2> QED
      BY <2>1
  <1> QED
    BY <1>1, <1>2, <1>3, <1>4, <1>5

LEMMA NoScans ==
  ASSUME NEW s, None(s, "scan")
  PROVE  ScansIn(s) = {} /\ Once(s)
  BY ScansAre DEF None, Once

LEMMA NoneOfCat ==
  ASSUME NEW s \in Seq(Units), NEW t \in Seq(Units), NEW kind,
         None(s, kind), None(t, kind)
  PROVE  None(s \o t, kind)
  <1> PICK u : u = s \o t
    OBVIOUS
  <1>1. /\ Len(u) = Len(s) + Len(t) /\ Len(s) \in Nat /\ Len(t) \in Nat
        /\ \A k \in 1 .. Len(s) : u[k] = s[k]
        /\ \A k \in Len(s) + 1 .. Len(u) : k - Len(s) \in 1 .. Len(t) /\ u[k] = t[k - Len(s)]
    BY CatAt
  <1>2. \A i \in 1 .. Len(u) : i \in 1 .. Len(s) \/ i \in Len(s) + 1 .. Len(u)
    BY <1>1
  <1> QED
    BY <1>1, <1>2 DEF None

-----------------------------------------------------------------------------
(* The steps of the port                                                   *)

LEMMA PumpedIs ==
  ASSUME UartTypeOK
  PROVE  \/ /\ rx \o fifo # <<>> \/ delayed = <<>>
            /\ Pumped.rx = rx \o fifo /\ Pumped.delayed = delayed /\ Pumped.armed = armed
         \/ /\ rx = <<>> /\ fifo = <<>> /\ delayed # <<>> /\ ~armed
            /\ Pumped.rx = <<>> /\ Pumped.delayed = delayed /\ Pumped.armed = TRUE
         \/ /\ rx = <<>> /\ fifo = <<>> /\ delayed # <<>> /\ armed
            /\ Pumped.rx = delayed /\ Pumped.delayed = <<>> /\ Pumped.armed = FALSE
  <1>1. rx \in Seq(Units) /\ fifo \in Seq(Units)
    BY DEF UartTypeOK
  <1>2. rx \o fifo = <<>> => rx = <<>> /\ fifo = <<>>
    BY <1>1, ConcatEqualIffEmpty
  <1>3. CASE rx \o fifo # <<>> \/ delayed = <<>>
    BY <1>3 DEF Pumped
  <1>4. CASE rx \o fifo = <<>> /\ delayed # <<>> /\ ~armed
    BY <1>2, <1>4 DEF Pumped
  <1>5. CASE rx \o fifo = <<>> /\ delayed # <<>> /\ armed
    BY <1>2, <1>5 DEF Pumped
  <1> QED
    BY <1>3, <1>4, <1>5

LEMMA PumpedSeq == UartTypeOK => Pumped.rx \in Seq(Units)
  <1> SUFFICES ASSUME UartTypeOK PROVE Pumped.rx \in Seq(Units)
    OBVIOUS
  <1>1. rx \in Seq(Units) /\ fifo \in Seq(Units) /\ delayed \in Seq(Units)
    BY DEF UartTypeOK
  <1>2. rx \o fifo \in Seq(Units) /\ <<>> \in Seq(Units)
    BY <1>1, CatAt
  <1>3. Pumped.rx = rx \o fifo \/ Pumped.rx = <<>> \/ Pumped.rx = delayed
    BY PumpedIs
  <1> QED
    BY ONLY <1>1, <1>2, <1>3

LEMMA Splits ==
  ASSUME NEW S, NEW s \in Seq(S), NEW n \in 0 .. Len(s)
  PROVE  /\ SubSeq(s, 1, n) \in Seq(S) /\ SubSeq(s, n + 1, Len(s)) \in Seq(S)
         /\ SubSeq(s, 1, n) \o SubSeq(s, n + 1, Len(s)) = s
  <1>1. /\ 1 \in 1 .. Len(s) + 1 /\ n \in 1 - 1 .. Len(s) /\ Len(s) \in n .. Len(s)
    OBVIOUS
  <1>2. SubSeq(s, 1, n) \o SubSeq(s, n + 1, Len(s)) = SubSeq(s, 1, Len(s))
    BY <1>1, ConcatAdjacentSubSeq
  <1>3. SubSeq(s, 1, Len(s)) = s
    BY SubSeqFull
  <1>4. SubSeq(s, 1, n) \in Seq(S) /\ SubSeq(s, n + 1, Len(s)) \in Seq(S)
    BY SubSeqProperties
  <1> QED
    BY <1>2, <1>3, <1>4

\* A poll takes n units, n no more than there are.
LEMMA PollTakes ==
  ASSUME UartTypeOK, Polling
  PROVE  \E n \in 0 .. Len(Pumped.rx) : Take(n)
  <1>1. Pumped.rx \in Seq(Units)
    BY PumpedSeq
  <1>2. Len(Pumped.rx) \in Nat /\ (Pumped.rx # <<>> => Len(Pumped.rx) >= 1)
    BY <1>1
  <1> QED
    BY <1>2 DEF Polling, Available, Read, ReadBuf

\* What a poll adds to what is heard: what was in the FIFO or, if nothing else is there,
\* the staged bytes that were armed.
Polled(front, rest) ==
  /\ front \in Seq(Units) /\ rest \in Seq(Units)
  /\ fifo' = <<>> /\ rx' = rest /\ got' = got \o front
  /\ \/ /\ rx \o fifo # <<>> \/ delayed = <<>>
        /\ front \o rest = rx \o fifo /\ delayed' = delayed /\ armed' = armed
        /\ loop' = IF rx \o fifo = <<>> THEN <<>> ELSE loop \o front
     \/ /\ rx = <<>> /\ fifo = <<>> /\ delayed # <<>> /\ ~armed
        /\ front = <<>> /\ rest = <<>> /\ delayed' = delayed /\ armed' = TRUE /\ loop' = <<>>
     \/ /\ rx = <<>> /\ fifo = <<>> /\ delayed # <<>> /\ armed
        /\ front \o rest = delayed /\ delayed' = <<>> /\ armed' = FALSE
        /\ loop' = loop \o front
  /\ pc = "idle" /\ opened' = TRUE
  /\ UNCHANGED <<hist, pc, queue, stage, sent, fired, scans, injects>>

LEMMA PollIs ==
  ASSUME UartTypeOK, Polling
  PROVE  \E front, rest : Polled(front, rest)
  <1>1. PICK n \in 0 .. Len(Pumped.rx) : Take(n)
    BY PollTakes
  <1>2. PICK p : p = Pumped.rx
    OBVIOUS
  <1>3. PICK front : front = SubSeq(p, 1, n)
    OBVIOUS
  <1>4. PICK rest : rest = SubSeq(p, n + 1, Len(p))
    OBVIOUS
  <1>5. /\ pc = "idle" /\ opened' = TRUE /\ fifo' = <<>>
        /\ delayed' = Pumped.delayed /\ armed' = Pumped.armed
        /\ rx' = rest /\ got' = got \o front
        /\ loop' = IF p = <<>> THEN <<>> ELSE loop \o front
        /\ UNCHANGED <<hist, pc, queue, stage, sent, fired, scans, injects>>
    BY <1>1, <1>2, <1>3, <1>4 DEF Take, fileVars
  <1>6. p \in Seq(Units)
    BY <1>2, PumpedSeq
  <1>7. n \in 0 .. Len(p)
    BY <1>1, <1>2
  <1>8. front \in Seq(Units) /\ rest \in Seq(Units) /\ front \o rest = p
    BY <1>3, <1>4, <1>6, <1>7, Splits
  <1>9. p = <<>> => front = <<>> /\ rest = <<>>
    BY <1>8, ConcatEqualIffEmpty
  <1>10. CASE /\ rx \o fifo # <<>> \/ delayed = <<>>
              /\ p = rx \o fifo /\ Pumped.delayed = delayed /\ Pumped.armed = armed
    BY <1>5, <1>8, <1>10 DEF Polled
  <1>11. CASE /\ rx = <<>> /\ fifo = <<>> /\ delayed # <<>> /\ ~armed
              /\ p = <<>> /\ Pumped.delayed = delayed /\ Pumped.armed = TRUE
    BY <1>5, <1>8, <1>9, <1>11 DEF Polled
  <1>12. CASE /\ rx = <<>> /\ fifo = <<>> /\ delayed # <<>> /\ armed
              /\ p = delayed /\ Pumped.delayed = <<>> /\ Pumped.armed = FALSE
    BY <1>5, <1>8, <1>12 DEF Polled
  <1> QED
    BY <1>2, <1>10, <1>11, <1>12, PumpedIs

\* The first frame of the history is one of its frames.
LEMMA FirstFrame ==
  ASSUME hist \in Seq(Tokens), FrameStarts # {}
  PROVE  /\ Min(FrameStarts) \in FrameStarts
         /\ Min(FrameStarts) \in 1 .. Len(hist) - FrameLen + 1
         /\ \A y \in FrameStarts : Min(FrameStarts) <= y
  <1>1. FrameStarts \subseteq 1 .. Len(hist) - FrameLen + 1
    BY DEF FrameStarts
  <1>2. FrameStarts \in SUBSET Nat
    BY <1>1
  <1>3. \E x \in FrameStarts : \A y \in FrameStarts : x <= y
    <2>1. PICK x \in FrameStarts : \A y \in FrameStarts : ~(<<y, x>> \in OpToRel(<, Nat))
      BY <1>2, NatLessThanWellFounded, WFMin, Zenon
    <2>2. \A y \in FrameStarts : ~(y < x)
      BY <1>2, <2>1 DEF OpToRel
    <2> QED
      BY <1>2, <2>2
  <1> QED
    BY <1>1, <1>3 DEF Min

LEMMA PollHears ==
  ASSUME UartTypeOK, Polling
  PROVE  /\ \/ Heard' = Heard \o fifo /\ delayed' = delayed
            \/ Heard' = Heard \o delayed /\ delayed' = <<>>
         /\ fifo' = <<>> /\ pc = "idle"
         /\ UNCHANGED <<pc, queue, stage, fired, scans>>
  <1>1. PICK front, rest : Polled(front, rest)
    BY PollIs
  <1>2. /\ got \in Seq(Units) /\ rx \in Seq(Units) /\ fifo \in Seq(Units)
        /\ delayed \in Seq(Units) /\ front \in Seq(Units) /\ rest \in Seq(Units)
    BY <1>1 DEF UartTypeOK, Polled
  <1>3. Heard' = got \o (front \o rest)
    <2>1. Heard' = (got \o front) \o rest
      BY <1>1 DEF Polled, Heard
    <2>2. (got \o front) \o rest = got \o (front \o rest)
      <3>1. got \in Seq(Units) /\ front \in Seq(Units) /\ rest \in Seq(Units)
        BY <1>2
      <3> QED
        BY ONLY <3>1, ConcatAssociative, SMTT(30)
    <2> QED
      BY ONLY <2>1, <2>2
  <1>4. Heard \o fifo = got \o (rx \o fifo)
    BY <1>2, ConcatAssociative, SMTT(30) DEF Heard
  <1>5. rx = <<>> => Heard = got
    BY <1>2, ConcatEmptySeq DEF Heard
  <1>6. CASE front \o rest = rx \o fifo /\ delayed' = delayed
    BY <1>1, <1>3, <1>4, <1>6 DEF Polled
  <1>7. CASE /\ front = <<>> /\ rest = <<>> /\ delayed' = delayed /\ rx = <<>> /\ fifo = <<>>
    <2>1. front \o rest = rx \o fifo
      BY <1>7
    <2> QED
      BY <1>6, <1>7, <2>1
  <1>8. CASE rx = <<>> /\ front \o rest = delayed /\ delayed' = <<>>
    BY <1>1, <1>3, <1>5, <1>8 DEF Polled
  <1> QED
    BY <1>1, <1>6, <1>7, <1>8 DEF Polled

\* A trigger frame is acknowledged at the end of what is heard.
LEMMA FrameHears ==
  ASSUME UartTypeOK, MatchFrame
  PROVE  /\ \/ Heard' = Heard /\ fired' = fired /\ rx' = rx
            \/ Heard' = Heard \o <<Ack>> /\ fired' = fired + 1 /\ rx' = rx \o <<Ack>>
         /\ <<Ack>> \in Seq(Units)
         /\ hist' \in Seq(Tokens) /\ pc = "match" /\ pc' \in {"drain", "match"}
         /\ pc' = "drain" => fired' = fired + 1
         /\ UNCHANGED <<opened, fifo, delayed, armed, queue, stage, sent, scans, injects, got, loop>>
  <1> DEFINE first == Min(FrameStarts)
             command == hist[first + 1]
             trigger == command \in {"start", "stop"}
  <1>1. /\ pc = "match" /\ FrameStarts # {}
        /\ hist' = SubSeq(hist, first + FrameLen, Len(hist))
        /\ rx' = IF trigger THEN Append(rx, Ack) ELSE rx
        /\ fired' = IF trigger THEN fired + 1 ELSE fired
        /\ pc' = IF command = "start" THEN "drain" ELSE "match"
        /\ UNCHANGED <<opened, fifo, delayed, armed, queue, stage, sent, scans, injects, got, loop>>
    BY DEF MatchFrame, fileVars
  <1>2. got \in Seq(Units) /\ rx \in Seq(Units) /\ hist \in Seq(Tokens)
    BY DEF UartTypeOK
  <1>3. first \in 1 .. Len(hist) - FrameLen + 1
    BY <1>1, <1>2, FirstFrame
  <1>4. hist' \in Seq(Tokens)
    <2> HIDE DEF first
    <2>1. \A i \in first + FrameLen .. Len(hist) : hist[i] \in Tokens
      BY <1>2, <1>3 DEF FrameLen
    <2>2. first + FrameLen \in Int /\ Len(hist) \in Int
      BY <1>2, <1>3 DEF FrameLen
    <2> QED
      BY <1>1, <2>1, <2>2, SubSeqProperties
  <1>5. <<Ack>> \in Seq(Units) /\ Append(rx, Ack) = rx \o <<Ack>>
    BY <1>2, AckIs, AppendIsConcat
  <1>6. got \o (rx \o <<Ack>>) = Heard \o <<Ack>>
    BY <1>2, <1>5, ConcatAssociative DEF Heard
  <1> HIDE DEF trigger, command, first
  <1>7. CASE trigger
    BY <1>1, <1>4, <1>5, <1>6, <1>7 DEF Heard
  <1>8. CASE ~trigger
    <2>1. command # "start"
      BY <1>8 DEF trigger
    <2> QED
      BY <1>1, <1>4, <1>5, <1>8, <2>1 DEF Heard
  <1> QED
    BY <1>7, <1>8

\* What a drain stages.
LEMMA Drained ==
  ASSUME UartTypeOK, DrainRead
  PROVE  \E x \in Seq(Units) :
           /\ delayed' = delayed \o x /\ Len(x) = Len(queue)
           /\ \A i \in 1 .. Len(x) : x[i].kind = "scan" /\ x[i].id = queue[i] /\ x[i].after = fired
  <1>1. PICK x : x = [i \in 1 .. Len(queue) |-> StagedScan(queue[i])]
    OBVIOUS
  <1>2. queue \in Seq(1 .. MaxScans) /\ MaxScans \in Nat /\ fired \in Nat
    BY UartAssumption DEF UartTypeOK
  <1>3. \A i \in 1 .. Len(queue) :
          /\ x[i] = StagedScan(queue[i]) /\ StagedScan(queue[i]) \in Units
          /\ x[i].kind = "scan" /\ x[i].id = queue[i] /\ x[i].after = fired
    BY <1>1, <1>2 DEF StagedScan, Units
  <1>4. x \in [1 .. Len(queue) -> Units] /\ Len(queue) \in Nat
    BY <1>1, <1>2, <1>3
  <1>5. x \in Seq(Units) /\ Len(x) = Len(queue)
    BY <1>4
  <1>6. delayed' = delayed \o x
    BY <1>1 DEF DrainRead
  <1> QED
    BY <1>3, <1>5, <1>6

-----------------------------------------------------------------------------
(* The inductive invariant                                                 *)

LEMMA UartInit == Init => UartIInv
  <1> SUFFICES ASSUME Init PROVE UartIInv
    OBVIOUS
  <1>1. /\ opened = FALSE /\ fifo = <<>> /\ rx = <<>> /\ delayed = <<>>
        /\ armed = FALSE /\ hist = <<>> /\ pc = "idle"
        /\ queue = <<>> /\ stage = [j \in Injectors |-> 0]
        /\ sent = <<>> /\ fired = 0 /\ scans = 0 /\ injects = 0
        /\ got = <<>> /\ loop = <<>>
    BY DEF Init
  <1>2. Heard = <<>>
    BY <1>1 DEF Heard
  <1>3. FrameStarts = {}
    BY <1>1 DEF FrameStarts, FrameLen
  <1>4. UartTypeOK
    <2>1. {MaxScans, MaxInjects, HistMax} \subseteq Nat
      BY UartAssumption
    <2>2. opened \in BOOLEAN /\ armed \in BOOLEAN /\ ~armed
      BY <1>1
    <2>3. {fifo, rx, delayed, got, loop} \subseteq Seq(Units)
      BY ONLY <1>1, EmptySeq
    <2>4. {hist, sent} \subseteq Seq(Tokens) /\ queue \in Seq(1 .. MaxScans)
      BY ONLY <1>1, EmptySeq
    <2>5. stage \in [Injectors -> 0 .. MaxScans]
      BY <1>1, <2>1
    <2>6. /\ fired \in Nat /\ scans \in 0 .. MaxScans /\ injects \in 0 .. MaxInjects
          /\ Len(hist) <= HistMax
      BY <1>1, <2>1
    <2> QED
      BY <1>1, <1>3, <2>2, <2>3, <2>4, <2>5, <2>6 DEF UartTypeOK
  <1>5. AckOrder
    <2>1. UpTo(Heard, Len(Heard)) = {}
      BY <1>2 DEF UpTo
    <2>2. Acks(Heard, Len(Heard)) = 0
      BY <2>1, FS_EmptySet DEF Acks
    <2>3. Len(Heard) = 0 /\ Len(delayed) = 0 /\ Len(fifo) = 0
      BY <1>1, <1>2
    <2> QED
      BY <1>1, <2>2, <2>3 DEF AckOrder
  <1>6. ScanPlaces
    <2>1. None(Heard, "scan") /\ None(delayed, "scan") /\ Len(queue) = 0
      BY <1>1, <1>2 DEF None
    <2> QED
      BY <1>1, <2>1, NoScans DEF ScanPlaces, Held
  <1>7. Apart
    BY <1>1 DEF Apart
  <1> QED
    BY <1>4, <1>5, <1>6, <1>7 DEF UartIInv

\* What has no acknowledgement follows what is heard.
LEMMA HearsQuiet ==
  ASSUME UartTypeOK, AckOrder, NEW x \in Seq(Units), Heard' = Heard \o x, fired' = fired,
         \A i \in 1 .. Len(x) : x[i].kind # "ack" /\ (x[i].kind = "scan" => x[i].after <= fired)
  PROVE  /\ Acks(Heard', Len(Heard')) = fired'
         /\ \A i \in 1 .. Len(Heard') : Heard'[i].kind = "scan" => Acks(Heard', i) >= Heard'[i].after
  <1> PICK s : s = Heard
    OBVIOUS
  <1> PICK t : t = Heard'
    OBVIOUS
  <1>1. s \in Seq(Units)
    BY CatAt DEF UartTypeOK, Heard
  <1>2. t = s \o x /\ t \in Seq(Units)
    BY <1>1, CatAt
  <1>3. /\ Len(t) = Len(s) + Len(x) /\ Len(s) \in Nat /\ Len(x) \in Nat
        /\ \A k \in 1 .. Len(s) : t[k] = s[k]
        /\ \A k \in Len(s) + 1 .. Len(t) : k - Len(s) \in 1 .. Len(x) /\ t[k] = x[k - Len(s)]
    BY <1>1, <1>2, CatAt
  <1>4. /\ Acks(s, Len(s)) = fired
        /\ \A i \in 1 .. Len(s) : s[i].kind = "scan" => Acks(s, i) >= s[i].after
    BY DEF AckOrder
  <1>5. Acks(t, Len(t)) = fired
    <2>1. None(x, "ack")
      BY DEF None
    <2> QED
      BY <1>1, <1>2, <1>4, <2>1, AcksQuiet
  <1>6. \A i \in 0 .. Len(s) : Acks(t, i) = Acks(s, i)
    BY <1>1, <1>2, AcksBefore
  <1>7. ASSUME NEW i \in 1 .. Len(t), t[i].kind = "scan" PROVE Acks(t, i) >= t[i].after
    <2>1. CASE i \in 1 .. Len(s)
      BY <1>3, <1>4, <1>6, <1>7, <2>1
    <2>2. CASE i \in Len(s) + 1 .. Len(t)
      <3>1. t[i].after <= fired
        BY <1>3, <1>7, <2>2
      <3>2. Acks(t, Len(s)) <= Acks(t, i) /\ Acks(t, i) \in Nat /\ Acks(t, Len(s)) = fired
        <4>1. Len(s) \in 0 .. Len(t) /\ i \in Len(s) .. Len(t) /\ i \in 0 .. Len(t)
          BY <1>3, <2>2
        <4>2. i \in i .. Len(t)
          BY <4>1
        <4>3. Len(s) \in 0 .. Len(s)
          BY <1>3
        <4> QED
          BY <1>2, <1>4, <1>6, <4>1, <4>2, <4>3, AckCount
      <3>3. t[i].after \in Nat /\ fired \in Nat
        BY <1>1, <1>2, UnitAt DEF UartTypeOK
      <3> QED
        BY <3>1, <3>2, <3>3
    <2> QED
      BY <1>3, <2>1, <2>2
  <1> QED
    BY <1>5, <1>7

LEMMA AckStep == UartIInv /\ [Next]_vars => AckOrder'
  <1> SUFFICES ASSUME UartIInv, [Next]_vars PROVE AckOrder'
    OBVIOUS
  <1>1. UartTypeOK /\ AckOrder
    BY DEF UartIInv
  <1>2. /\ \A i \in 1 .. Len(delayed) : delayed[i].kind = "scan" /\ delayed[i].after <= fired
        /\ \A i \in 1 .. Len(fifo) : fifo[i].kind = "fifo"
        /\ fired \in Nat /\ delayed \in Seq(Units) /\ fifo \in Seq(Units) /\ Heard \in Seq(Units)
    BY <1>1, CatAt DEF AckOrder, UartTypeOK, Heard
  <1>3. ASSUME UNCHANGED <<got, rx, fifo, delayed, fired>> PROVE AckOrder'
    BY <1>1, <1>3 DEF AckOrder, Heard
  <1>4. CASE Polling
    <2>1. /\ \/ Heard' = Heard \o fifo /\ delayed' = delayed
             \/ Heard' = Heard \o delayed /\ delayed' = <<>>
          /\ fifo' = <<>> /\ fired' = fired
      BY <1>1, <1>4, PollHears
    <2>2. /\ Acks(Heard', Len(Heard')) = fired'
          /\ \A i \in 1 .. Len(Heard') : Heard'[i].kind = "scan" => Acks(Heard', i) >= Heard'[i].after
      <3>1. CASE Heard' = Heard \o fifo
        BY <1>1, <1>2, <2>1, <3>1, HearsQuiet
      <3>2. CASE Heard' = Heard \o delayed
        BY <1>1, <1>2, <2>1, <3>2, HearsQuiet
      <3> QED
        BY <2>1, <3>1, <3>2
    <2>3. \A i \in 1 .. Len(delayed') : delayed'[i].kind = "scan" /\ delayed'[i].after <= fired'
      BY <1>2, <2>1
    <2>4. \A i \in 1 .. Len(fifo') : fifo'[i].kind = "fifo"
      BY <2>1
    <2> QED
      BY <2>2, <2>3, <2>4 DEF AckOrder
  <1>5. CASE MatchFrame
    <2>1. /\ \/ Heard' = Heard /\ fired' = fired /\ rx' = rx
             \/ Heard' = Heard \o <<Ack>> /\ fired' = fired + 1
          /\ <<Ack>> \in Seq(Units) /\ UNCHANGED <<fifo, delayed, got>>
      BY <1>1, <1>5, FrameHears
    <2>2. CASE Heard' = Heard /\ fired' = fired /\ rx' = rx
      BY <1>3, <2>1, <2>2
    <2>3. CASE Heard' = Heard \o <<Ack>> /\ fired' = fired + 1
      <3> PICK s : s = Heard
        OBVIOUS
      <3> PICK t : t = Heard'
        OBVIOUS
      <3>1. s \in Seq(Units) /\ t = s \o <<Ack>>
        BY <1>2, <2>3
      <3>2. /\ Len(t) = Len(s) + 1 /\ Len(s) \in Nat
            /\ \A k \in 1 .. Len(s) : t[k] = s[k]
            /\ t[Len(s) + 1].kind = "ack"
        BY <2>1, <3>1, CatAt, AckIs
      <3>3. Acks(t, Len(t)) = fired + 1
        BY <1>1, <2>1, <3>1, AcksOneMore DEF AckOrder
      <3>4. \A i \in 0 .. Len(s) : Acks(t, i) = Acks(s, i)
        BY ONLY <2>1, <3>1, AcksBefore, ZenonT(30)
      <3>5. \A i \in 1 .. Len(s) : s[i].kind = "scan" => Acks(s, i) >= s[i].after
        BY <1>1 DEF AckOrder
      <3>6. \A i \in 1 .. Len(t) : t[i].kind = "scan" => Acks(t, i) >= t[i].after
        <4> SUFFICES ASSUME NEW i \in 1 .. Len(t), t[i].kind = "scan" PROVE Acks(t, i) >= t[i].after
          OBVIOUS
        <4>1. i \in 1 .. Len(s) /\ i \in 0 .. Len(s)
          BY <3>2
        <4> QED
          BY <3>2, <3>4, <3>5, <4>1
      <3>7. \A i \in 1 .. Len(delayed) : delayed[i].kind = "scan" /\ delayed[i].after <= fired + 1
        <4>1. \A i \in 1 .. Len(delayed) : delayed[i].after \in Nat
          BY <1>2, UnitAt
        <4> QED
          BY <1>2, <4>1
      <3> QED
        BY <1>2, <2>1, <2>3, <3>3, <3>6, <3>7 DEF AckOrder
    <2> QED
      BY <2>1, <2>2, <2>3
  <1>6. CASE DrainRead
    <2>1. PICK x \in Seq(Units) :
             /\ delayed' = delayed \o x
             /\ \A i \in 1 .. Len(x) : x[i].kind = "scan" /\ x[i].after = fired
      BY <1>1, <1>6, Drained
    <2>2. Heard' = Heard /\ fired' = fired /\ fifo' = fifo
      BY <1>6 DEF DrainRead, Heard, history
    <2>3. \A i \in 1 .. Len(delayed') : delayed'[i].kind = "scan" /\ delayed'[i].after <= fired
      <3> PICK d : d = delayed'
        OBVIOUS
      <3>1. /\ Len(d) = Len(delayed) + Len(x) /\ Len(delayed) \in Nat /\ Len(x) \in Nat
            /\ \A k \in 1 .. Len(delayed) : d[k] = delayed[k]
            /\ \A k \in Len(delayed) + 1 .. Len(d) : k - Len(delayed) \in 1 .. Len(x) /\ d[k] = x[k - Len(delayed)]
        BY <1>2, <2>1, CatAt
      <3>2. \A i \in 1 .. Len(d) : i \in 1 .. Len(delayed) \/ i \in Len(delayed) + 1 .. Len(d)
        BY <3>1
      <3>3. \A i \in 1 .. Len(d) : d[i].kind = "scan" /\ d[i].after <= fired
        BY <1>2, <2>1, <3>1, <3>2
      <3> QED
        BY <3>3
    <2> QED
      BY <1>1, <2>2, <2>3 DEF AckOrder
  <1>7. CASE InjectFifo
    <2>1. /\ fifo' = Append(fifo, FifoScan(injects + 1)) /\ injects \in Nat
          /\ UNCHANGED <<delayed, fired, got, rx>>
      BY <1>1, <1>7, UartAssumption DEF InjectFifo, fileVars, UartTypeOK
    <2>2. \A i \in 1 .. Len(fifo') : fifo'[i].kind = "fifo"
      <3>1. FifoScan(injects + 1) \in Units /\ FifoScan(injects + 1).kind = "fifo"
        BY <2>1 DEF FifoScan, Units
      <3>2. PICK e : e = FifoScan(injects + 1)
        OBVIOUS
      <3>3. /\ Len(fifo') = Len(fifo) + 1 /\ fifo'[Len(fifo) + 1] = e /\ Len(fifo) \in Nat
            /\ \A i \in 1 .. Len(fifo) : fifo'[i] = fifo[i]
        BY <1>2, <2>1, <3>1, <3>2, AppendProperties
      <3> QED
        BY <1>2, <3>1, <3>2, <3>3
    <2> QED
      BY <1>1, <2>1, <2>2 DEF AckOrder, Heard
  <1>8. CASE (\E buf \in Writes : WriteCall(buf)) \/ UNCHANGED vars
    BY <1>3, <1>8 DEF WriteCall, fileVars, vars, portVars, history
  <1>9. CASE MatchOverflow \/ MatchNothing \/ DrainTruncate
    BY <1>3, <1>9 DEF MatchOverflow, MatchNothing, DrainTruncate, fileVars, history
  <1>10. CASE \E j \in Injectors : StageOpen(j) \/ StageWrite(j)
    BY <1>3, <1>10 DEF StageOpen, StageWrite, portVars
  <1> QED
    BY <1>4, <1>5, <1>6, <1>7, <1>8, <1>9, <1>10 DEF Next, Writing

\* What is heard or staged of the scans, before and after a step.
LEMMA PlacesKept ==
  ASSUME ScanPlaces, Once(Heard'), Once(delayed'),
         ScansIn(Heard') \cap ScansIn(delayed') = {},
         ScansIn(Heard') \cup ScansIn(delayed') = Held,
         UNCHANGED <<queue, stage, scans>>, pc # "truncate" \/ pc' = "truncate"
  PROVE  ScanPlaces'
  <1>1. Held' = Held
    BY DEF Held
  <1> QED
    BY <1>1 DEF ScanPlaces

LEMMA PlacesStep == UartIInv /\ [Next]_vars => ScanPlaces'
  <1> SUFFICES ASSUME UartIInv, [Next]_vars PROVE ScanPlaces'
    OBVIOUS
  <1>1. UartTypeOK /\ AckOrder /\ ScanPlaces
    BY DEF UartIInv
  <1>2. /\ delayed \in Seq(Units) /\ fifo \in Seq(Units) /\ Heard \in Seq(Units)
        /\ queue \in Seq(1 .. MaxScans) /\ scans \in 0 .. MaxScans /\ MaxScans \in Nat
        /\ stage \in [Injectors -> 0 .. MaxScans]
    BY <1>1, CatAt, UartAssumption DEF UartTypeOK, Heard
  <1>3. /\ Once(Heard) /\ Once(delayed)
        /\ ScansIn(Heard) \cap ScansIn(delayed) = {}
        /\ Held = ScansIn(Heard) \cup ScansIn(delayed) /\ Held \subseteq 1 .. scans
        /\ Len(queue) <= 1
        /\ \A i \in 1 .. Len(queue) : queue[i] <= scans /\ (pc # "truncate" => queue[i] \notin Held)
        /\ \A j \in Injectors : stage[j] # 0 =>
             /\ stage[j] <= scans /\ stage[j] \notin Held
             /\ \A i \in 1 .. Len(queue) : queue[i] # stage[j]
             /\ \A k \in Injectors : stage[k] = stage[j] => k = j
    BY <1>1 DEF ScanPlaces, Held
  <1>4. ASSUME UNCHANGED <<got, rx, delayed, queue, stage, scans>>,
               pc # "truncate" \/ pc' = "truncate"
        PROVE  ScanPlaces'
    <2>1. Heard' = Heard /\ delayed' = delayed
      BY <1>4 DEF Heard
    <2> QED
      BY <1>1, <1>3, <1>4, <2>1, PlacesKept
  <1>5. CASE Polling
    <2>1. /\ \/ Heard' = Heard \o fifo /\ delayed' = delayed
             \/ Heard' = Heard \o delayed /\ delayed' = <<>>
          /\ pc = "idle" /\ UNCHANGED <<queue, stage, scans>>
      BY <1>1, <1>5, PollHears
    <2>2. CASE Heard' = Heard \o fifo /\ delayed' = delayed
      <3>1. None(fifo, "scan")
        BY <1>1 DEF AckOrder, None
      <3>2. ScansIn(fifo) = {} /\ Once(fifo)
        BY <3>1, NoScans
      <3>3. ScansIn(Heard') = ScansIn(Heard) /\ Once(Heard')
        BY <1>2, <1>3, <2>2, <3>2, ScansOfCat, OnceOfCat, ZenonT(30)
      <3> QED
        BY <1>1, <1>3, <2>1, <2>2, <3>3, PlacesKept
    <2>3. CASE Heard' = Heard \o delayed /\ delayed' = <<>>
      <3>1. ScansIn(delayed') = {} /\ Once(delayed')
        <4>1. None(delayed', "scan")
          BY <2>3 DEF None
        <4> QED
          BY <4>1, NoScans
      <3>2. ScansIn(Heard') = ScansIn(Heard) \cup ScansIn(delayed) /\ Once(Heard')
        BY <1>2, <1>3, <2>3, ScansOfCat, OnceOfCat
      <3> QED
        BY <1>1, <1>3, <2>1, <3>1, <3>2, PlacesKept
    <2> QED
      BY <2>1, <2>2, <2>3
  <1>6. CASE MatchFrame
    <2>1. /\ Heard' = Heard \/ Heard' = Heard \o <<Ack>>
          /\ <<Ack>> \in Seq(Units) /\ pc = "match" /\ UNCHANGED <<delayed, queue, stage, scans>>
      BY <1>1, <1>6, FrameHears
    <2>2. ScansIn(<<Ack>>) = {} /\ Once(<<Ack>>)
      <3>1. None(<<Ack>>, "scan")
        BY DEF None, Ack
      <3> QED
        BY <3>1, NoScans
    <2>3. ScansIn(Heard') = ScansIn(Heard) /\ Once(Heard')
      <3>1. CASE Heard' = Heard
        BY <1>3, <3>1
      <3>2. CASE Heard' = Heard \o <<Ack>>
        BY <1>2, <1>3, <2>1, <2>2, <3>2, ScansOfCat, OnceOfCat, ZenonT(30)
      <3> QED
        BY <2>1, <3>1, <3>2
    <2> QED
      BY <1>1, <1>3, <2>1, <2>3, PlacesKept
  <1>7. CASE DrainRead
    <2>1. PICK x \in Seq(Units) :
             /\ delayed' = delayed \o x /\ Len(x) = Len(queue)
             /\ \A i \in 1 .. Len(x) : x[i].kind = "scan" /\ x[i].id = queue[i]
      BY <1>1, <1>7, Drained
    <2>2. /\ Heard' = Heard /\ pc = "drain" /\ pc' = "truncate"
          /\ UNCHANGED <<queue, stage, scans>>
      BY <1>7 DEF DrainRead, Heard, history, fileVars
    <2>3. \A id : id \in ScansIn(x) <=> \E i \in 1 .. Len(queue) : queue[i] = id
      BY <2>1, ScansAre
    <2>4. Once(x)
      <3>1. \A i, k \in 1 .. Len(x) : i = k
        BY <1>2, <1>3, <2>1
      <3> QED
        BY <3>1 DEF Once
    <2>5. ScansIn(x) \cap Held = {}
      BY <1>3, <2>2, <2>3
    <2>6. ScansIn(delayed') = ScansIn(delayed) \cup ScansIn(x)
      BY <1>2, <2>1, ScansOfCat
    <2>7. Once(delayed')
      BY <1>2, <1>3, <2>1, <2>4, <2>5, OnceOfCat
    <2>8. Held' = Held \cup ScansIn(x) /\ ScansIn(Heard') \cap ScansIn(delayed') = {}
      BY <1>3, <2>2, <2>5, <2>6 DEF Held
    <2>9. Held' \subseteq 1 .. scans
      <3>1. \A i \in 1 .. Len(queue) : queue[i] \in 1 .. scans
        BY <1>2, <1>3
      <3> QED
        BY <1>3, <2>3, <2>8, <3>1
    <2>10. \A j \in Injectors : stage[j] # 0 => stage[j] \notin Held'
      BY <1>3, <2>3, <2>8
    <2> QED
      BY <1>3, <2>2, <2>7, <2>8, <2>9, <2>10 DEF ScanPlaces
  <1>8. CASE DrainTruncate
    <2>1. /\ queue' = <<>> /\ Heard' = Heard /\ UNCHANGED <<delayed, stage, scans>>
      BY <1>8 DEF DrainTruncate, Heard, history
    <2>2. Held' = Held /\ Len(queue') = 0
      BY <2>1 DEF Held
    <2> QED
      BY <1>3, <2>1, <2>2 DEF ScanPlaces
  <1>9. ASSUME NEW j \in Injectors, StageOpen(j) PROVE ScanPlaces'
    <2>1. /\ scans' = scans + 1 /\ stage' = [stage EXCEPT ![j] = scans + 1] /\ queue' = <<>>
          /\ Heard' = Heard /\ UNCHANGED delayed
      BY <1>9 DEF StageOpen, portVars, Heard
    <2>2. Held' = Held /\ Len(queue') = 0
      BY <2>1 DEF Held
    <2>3. Held' \subseteq 1 .. scans'
      BY <1>2, <1>3, <2>1, <2>2
    <2>4. ASSUME NEW i \in Injectors, stage'[i] # 0
          PROVE  /\ stage'[i] <= scans' /\ stage'[i] \notin Held'
                 /\ \A k \in Injectors : stage'[k] = stage'[i] => k = i
      <3>1. \A k \in Injectors : stage[k] <= scans /\ stage[k] \in Nat /\ scans \in Nat
        BY <1>2, <1>3
      <3>2. \A k \in Injectors : stage'[k] = IF k = j THEN scans + 1 ELSE stage[k]
        BY <1>2, <2>1
      <3>3. scans + 1 \notin Held
        BY <1>3, <3>1
      <3>4. CASE i = j
        BY <2>1, <2>2, <3>1, <3>2, <3>3, <3>4
      <3>5. CASE i # j
        BY <1>3, <2>1, <2>2, <2>4, <3>1, <3>2, <3>5
      <3> QED
        BY <3>4, <3>5
    <2> QED
      BY <1>3, <2>1, <2>2, <2>3, <2>4 DEF ScanPlaces
  <1>10. ASSUME NEW j \in Injectors, StageWrite(j) PROVE ScanPlaces'
    <2>1. /\ stage[j] # 0 /\ queue' = <<stage[j]>> /\ stage' = [stage EXCEPT ![j] = 0]
          /\ Heard' = Heard /\ UNCHANGED <<delayed, scans, pc>>
      BY <1>10 DEF StageWrite, portVars, Heard
    <2>2. Held' = Held /\ Len(queue') = 1 /\ queue'[1] = stage[j]
      BY <2>1 DEF Held
    <2>3. \A i \in 1 .. Len(queue') : queue'[i] <= scans /\ queue'[i] \notin Held
      BY <1>3, <2>1, <2>2
    <2>4. \A i \in Injectors : stage'[i] # 0 => i # j /\ stage'[i] = stage[i] /\ stage[i] # 0
      BY <1>2, <2>1
    <2>5. ASSUME NEW i \in Injectors, stage'[i] # 0
          PROVE  /\ stage'[i] <= scans /\ stage'[i] \notin Held
                 /\ \A n \in 1 .. Len(queue') : queue'[n] # stage'[i]
                 /\ \A k \in Injectors : stage'[k] = stage'[i] => k = i
      <3>1. i # j /\ stage'[i] = stage[i] /\ stage[i] # 0
        BY <2>4, <2>5
      <3>2. \A k \in Injectors : stage'[k] = stage'[i] => stage'[k] # 0 /\ stage'[k] = stage[k]
        BY <2>4, <2>5
      <3>3. \A k \in Injectors : stage'[k] = stage'[i] => k = i
        BY <1>3, <3>1, <3>2
      <3>4. stage[i] # stage[j]
        BY <1>3, <2>1, <3>1
      <3> QED
        BY <1>3, <2>2, <3>1, <3>3, <3>4
    <2> QED
      BY <1>3, <2>1, <2>2, <2>3, <2>5 DEF ScanPlaces
  <1>11. CASE (\E buf \in Writes : WriteCall(buf)) \/ UNCHANGED vars
    <2>1. /\ UNCHANGED <<got, rx, delayed, queue, stage, scans>>
          /\ pc # "truncate" \/ pc' = "truncate"
      BY <1>11 DEF WriteCall, fileVars, vars, portVars, history
    <2> QED
      BY <1>4, <2>1
  <1>12. CASE MatchOverflow \/ MatchNothing
    <2>1. /\ UNCHANGED <<got, rx, delayed, queue, stage, scans>> /\ pc = "match"
      BY <1>12 DEF MatchOverflow, MatchNothing, fileVars, history
    <2> QED
      BY <1>4, <2>1
  <1>13. CASE InjectFifo
    BY <1>4, <1>13 DEF InjectFifo, fileVars
  <1> QED
    BY <1>5, <1>6, <1>7, <1>8, <1>9, <1>10, <1>11, <1>12, <1>13 DEF Next, Writing

-----------------------------------------------------------------------------
(* Types                                                                   *)

Streams ==
  /\ fifo \in Seq(Units) /\ rx \in Seq(Units) /\ delayed \in Seq(Units)
  /\ got \in Seq(Units) /\ loop \in Seq(Units)

TokenSeqs == hist \in Seq(Tokens) /\ sent \in Seq(Tokens)

Marks ==
  /\ opened \in BOOLEAN /\ armed \in BOOLEAN
  /\ armed => delayed # <<>>

Staging ==
  /\ pc \in {"idle", "match", "drain", "truncate"}
  /\ queue \in Seq(1 .. MaxScans) /\ stage \in [Injectors -> 0 .. MaxScans]
  /\ fired \in Nat /\ scans \in 0 .. MaxScans /\ injects \in 0 .. MaxInjects

Quiet == pc = "idle" => Len(hist) <= HistMax /\ FrameStarts = {}

LEMMA TypesAre == UartTypeOK <=> Streams /\ TokenSeqs /\ Marks /\ Staging /\ Quiet
  BY DEF UartTypeOK, Streams, TokenSeqs, Marks, Staging, Quiet

LEMMA StreamsStep == UartTypeOK /\ [Next]_vars => Streams'
  <1> SUFFICES ASSUME UartTypeOK, [Next]_vars PROVE Streams'
    OBVIOUS
  <1>1. Streams /\ queue \in Seq(1 .. MaxScans) /\ injects \in Nat
    BY TypesAre, UartAssumption DEF UartTypeOK
  <1>2. CASE Polling
    <2>1. PICK front, rest : Polled(front, rest)
      BY <1>2, PollIs
    <2>2. /\ fifo' = <<>> /\ rx' = rest /\ got' = got \o front
          /\ delayed' = delayed \/ delayed' = <<>>
          /\ loop' = <<>> \/ loop' = loop \o front
          /\ front \in Seq(Units) /\ rest \in Seq(Units)
      BY <2>1 DEF Polled
    <2>3. got \o front \in Seq(Units) /\ loop \o front \in Seq(Units) /\ <<>> \in Seq(Units)
      BY <1>1, <2>2, CatAt DEF Streams
    <2> QED
      BY ONLY <1>1, <2>2, <2>3 DEF Streams
  <1>3. CASE MatchFrame
    <2>1. /\ rx' = rx \/ rx' = rx \o <<Ack>>
          /\ <<Ack>> \in Seq(Units) /\ UNCHANGED <<fifo, delayed, got, loop>>
      BY <1>3, FrameHears
    <2>2. rx \o <<Ack>> \in Seq(Units)
      BY <1>1, <2>1, CatAt DEF Streams
    <2> QED
      BY <1>1, <2>1, <2>2 DEF Streams
  <1>4. CASE DrainRead
    <2>1. PICK x \in Seq(Units) : delayed' = delayed \o x
      BY <1>4, Drained
    <2>2. UNCHANGED <<fifo, rx, got, loop>>
      BY <1>4 DEF DrainRead, history
    <2>3. delayed \o x \in Seq(Units)
      BY <1>1, CatAt DEF Streams
    <2> QED
      BY <1>1, <2>1, <2>2, <2>3 DEF Streams
  <1>5. CASE InjectFifo
    <2>1. /\ fifo' = Append(fifo, FifoScan(injects + 1))
          /\ UNCHANGED <<rx, delayed, got, loop>>
      BY <1>5 DEF InjectFifo
    <2>2. FifoScan(injects + 1) \in Units
      BY <1>1 DEF FifoScan, Units
    <2>3. fifo' \in Seq(Units)
      BY <1>1, <2>1, <2>2, AppendProperties DEF Streams
    <2> QED
      BY <1>1, <2>1, <2>3 DEF Streams
  <1>6. ASSUME NEW buf \in Writes, WriteCall(buf) PROVE Streams'
    BY <1>1, <1>6 DEF WriteCall, Streams
  <1>7. CASE MatchOverflow \/ MatchNothing \/ DrainTruncate \/ UNCHANGED vars
    BY <1>1, <1>7 DEF MatchOverflow, MatchNothing, DrainTruncate, vars, portVars, history, Streams
  <1>8. ASSUME NEW j \in Injectors, StageOpen(j) \/ StageWrite(j) PROVE Streams'
    BY <1>1, <1>8 DEF StageOpen, StageWrite, portVars, Streams
  <1> QED
    BY <1>2, <1>3, <1>4, <1>5, <1>6, <1>7, <1>8 DEF Next, Writing

LEMMA TokensStep == UartTypeOK /\ [Next]_vars => TokenSeqs'
  <1> SUFFICES ASSUME UartTypeOK, [Next]_vars PROVE TokenSeqs'
    OBVIOUS
  <1>1. TokenSeqs
    BY TypesAre
  <1>2. CASE Polling \/ DrainRead \/ DrainTruncate \/ MatchNothing \/ InjectFifo \/ UNCHANGED vars
    <2>1. Polling => UNCHANGED <<hist, sent>>
      BY PollIs DEF Polled
    <2> QED
      BY <1>1, <1>2, <2>1 DEF DrainRead, DrainTruncate, MatchNothing, InjectFifo, vars, portVars, history,
        TokenSeqs
  <1>3. CASE MatchFrame
    BY <1>1, <1>3, FrameHears DEF TokenSeqs
  <1>4. CASE MatchOverflow
    <2>1. hist' = Tail(hist) /\ sent' = sent /\ HistMax \in Nat /\ Len(hist) > HistMax
      BY <1>4, UartAssumption DEF MatchOverflow, history
    <2>2. hist # <<>>
      BY <2>1
    <2>3. Tail(hist) \in Seq(Tokens)
      BY <1>1, <2>2, HeadTailProperties DEF TokenSeqs
    <2> QED
      BY <1>1, <2>1, <2>3 DEF TokenSeqs
  <1>5. ASSUME NEW buf \in Writes, WriteCall(buf) PROVE TokenSeqs'
    <2>1. hist' = hist \o buf /\ sent' = sent \o buf
      BY <1>5 DEF WriteCall
    <2>2. buf \in Seq(Tokens)
      BY UartAssumption
    <2>3. hist \o buf \in Seq(Tokens) /\ sent \o buf \in Seq(Tokens)
      BY <1>1, <2>2, CatAt DEF TokenSeqs
    <2> QED
      BY <2>1, <2>3 DEF TokenSeqs
  <1>6. ASSUME NEW j \in Injectors, StageOpen(j) \/ StageWrite(j) PROVE TokenSeqs'
    BY <1>1, <1>6 DEF StageOpen, StageWrite, portVars, TokenSeqs
  <1> QED
    BY <1>2, <1>3, <1>4, <1>5, <1>6 DEF Next, Writing

LEMMA MarksStep == UartTypeOK /\ [Next]_vars => Marks'
  <1> SUFFICES ASSUME UartTypeOK, [Next]_vars PROVE Marks'
    OBVIOUS
  <1>1. Marks /\ Streams
    BY TypesAre
  <1>2. CASE Polling
    <2>1. PICK front, rest : Polled(front, rest)
      BY <1>2, PollIs
    <2>2. /\ opened' = TRUE
          /\ \/ delayed' = delayed /\ armed' = armed
             \/ delayed # <<>> /\ delayed' = delayed /\ armed' = TRUE
             \/ armed' = FALSE
      BY <2>1 DEF Polled
    <2>3. CASE delayed' = delayed /\ armed' = armed
      BY <1>1, <2>2, <2>3, Zenon DEF Marks
    <2>4. CASE delayed # <<>> /\ delayed' = delayed /\ armed' = TRUE
      BY <2>2, <2>4, Zenon DEF Marks
    <2>5. CASE armed' = FALSE
      BY <2>2, <2>5, Zenon DEF Marks
    <2> QED
      BY <2>2, <2>3, <2>4, <2>5
  <1>3. CASE DrainRead
    <2>1. PICK x \in Seq(Units) : delayed' = delayed \o x
      BY <1>3, Drained
    <2>2. opened' = opened /\ armed' = armed
      BY <1>3 DEF DrainRead
    <2>3. delayed \o x = <<>> => delayed = <<>>
      BY <1>1, ConcatEqualIffEmpty DEF Streams
    <2> QED
      BY <1>1, <2>1, <2>2, <2>3 DEF Marks
  <1>4. CASE MatchFrame
    <2>1. UNCHANGED <<opened, armed, delayed>>
      BY <1>4, FrameHears
    <2> QED
      BY <1>1, <2>1 DEF Marks
  <1>5. ASSUME NEW buf \in Writes, WriteCall(buf) PROVE Marks'
    BY <1>1, <1>5 DEF WriteCall, Marks
  <1>6. CASE MatchOverflow \/ MatchNothing \/ DrainTruncate \/ InjectFifo \/ UNCHANGED vars
    BY <1>1, <1>6 DEF MatchOverflow, MatchNothing, DrainTruncate, InjectFifo, vars, portVars, Marks
  <1>7. ASSUME NEW j \in Injectors, StageOpen(j) \/ StageWrite(j) PROVE Marks'
    BY <1>1, <1>7 DEF StageOpen, StageWrite, portVars, Marks
  <1> QED
    BY <1>2, <1>3, <1>4, <1>5, <1>6, <1>7 DEF Next, Writing

LEMMA StagingStep == UartTypeOK /\ [Next]_vars => Staging'
  <1> SUFFICES ASSUME UartTypeOK, [Next]_vars PROVE Staging'
    OBVIOUS
  <1>1. Staging /\ MaxScans \in Nat /\ MaxInjects \in Nat
    BY TypesAre, UartAssumption
  <1>2. CASE Polling
    <2>1. UNCHANGED <<pc, queue, stage, fired, scans, injects>>
      BY <1>2, PollIs DEF Polled
    <2> QED
      BY <1>1, <2>1 DEF Staging
  <1>3. CASE MatchFrame
    <2>1. /\ pc' \in {"drain", "match"} /\ fired' \in {fired, fired + 1}
          /\ UNCHANGED <<queue, stage, scans, injects>>
      BY <1>3, FrameHears
    <2> QED
      BY <1>1, <2>1 DEF Staging
  <1>4. ASSUME NEW buf \in Writes, WriteCall(buf) PROVE Staging'
    BY <1>1, <1>4 DEF WriteCall, Staging, fileVars
  <1>5. CASE MatchOverflow \/ MatchNothing \/ DrainRead \/ UNCHANGED vars
    BY <1>1, <1>5 DEF MatchOverflow, MatchNothing, DrainRead, vars, portVars, fileVars, history, Staging
  <1>6. CASE DrainTruncate
    <2>1. <<>> \in Seq(1 .. MaxScans)
      BY EmptySeq
    <2> QED
      BY <1>1, <1>6, <2>1 DEF DrainTruncate, history, Staging
  <1>7. CASE InjectFifo
    BY <1>1, <1>7 DEF InjectFifo, fileVars, Staging
  <1>8. ASSUME NEW j \in Injectors, StageOpen(j) PROVE Staging'
    <2>1. <<>> \in Seq(1 .. MaxScans)
      BY EmptySeq
    <2>2. scans + 1 \in 0 .. MaxScans
      BY <1>1, <1>8 DEF StageOpen, Staging
    <2> QED
      BY <1>1, <1>8, <2>1, <2>2 DEF StageOpen, portVars, Staging
  <1>9. ASSUME NEW j \in Injectors, StageWrite(j) PROVE Staging'
    <2>1. stage[j] \in 1 .. MaxScans
      BY <1>1, <1>9 DEF StageWrite, Staging
    <2> QED
      BY <1>1, <1>9, <2>1 DEF StageWrite, portVars, Staging
  <1> QED
    BY <1>2, <1>3, <1>4, <1>5, <1>6, <1>7, <1>8, <1>9 DEF Next, Writing

LEMMA QuietStep == UartTypeOK /\ [Next]_vars => Quiet'
  <1> SUFFICES ASSUME UartTypeOK, [Next]_vars PROVE Quiet'
    OBVIOUS
  <1>1. Quiet
    BY TypesAre
  <1>2. ASSUME hist' = hist, pc' = pc \/ pc' # "idle" PROVE Quiet'
    BY <1>1, <1>2 DEF Quiet, FrameStarts
  <1>3. ASSUME pc' # "idle" PROVE Quiet'
    BY <1>3 DEF Quiet
  <1>4. Polling => hist' = hist /\ pc' = pc
    BY PollIs DEF Polled
  <1>5. MatchFrame => pc' # "idle"
    BY FrameHears
  <1>6. MatchOverflow => pc' # "idle"
    BY DEF MatchOverflow
  <1>7. CASE MatchNothing
    BY <1>7 DEF MatchNothing, Quiet, FrameStarts
  <1>8. CASE DrainRead \/ DrainTruncate
    BY <1>2, <1>8 DEF DrainRead, DrainTruncate
  <1>9. CASE InjectFifo \/ UNCHANGED vars
    BY <1>2, <1>9 DEF InjectFifo, vars, portVars
  <1>10. ASSUME NEW j \in Injectors, StageOpen(j) \/ StageWrite(j) PROVE Quiet'
    BY <1>2, <1>10 DEF StageOpen, StageWrite, portVars
  <1>11. ASSUME NEW buf \in Writes, WriteCall(buf) PROVE Quiet'
    BY <1>3, <1>11 DEF WriteCall
  <1> QED
    BY <1>2, <1>3, <1>4, <1>5, <1>6, <1>7, <1>8, <1>9, <1>10, <1>11 DEF Next, Writing

-----------------------------------------------------------------------------
(* The acknowledgement and its scan                                        *)

LEMMA ApartStep == UartIInv /\ [Next]_vars => Apart'
  <1> SUFFICES ASSUME UartIInv, [Next]_vars, fired' <= 1, injects' = 0
               PROVE  /\ fifo' = <<>>
                      /\ fired' = 0 => /\ rx' = <<>> /\ delayed' = <<>> /\ loop' = <<>> /\ ~armed'
                                       /\ pc' \in {"idle", "match"}
                      /\ fired' = 1 => Acked' \/ Cooling' \/ Armed' \/ Released'
    BY DEF Apart
  <1>1. UartTypeOK /\ AckOrder /\ Streams /\ fired \in Nat /\ injects \in Nat
    BY TypesAre, UartAssumption DEF UartIInv, UartTypeOK
  <1>2. fired' \in {fired, fired + 1} /\ injects' \in {injects, injects + 1}
    <2>1. Polling => fired' = fired /\ injects' = injects
      BY <1>1, PollIs DEF Polled
    <2>2. MatchFrame => fired' \in {fired, fired + 1} /\ injects' = injects
      BY <1>1, FrameHears
    <2>3. MatchOverflow \/ MatchNothing \/ DrainRead \/ DrainTruncate => fired' = fired /\ injects' = injects
      BY DEF MatchOverflow, MatchNothing, DrainRead, DrainTruncate, history
    <2>4. \A buf \in Writes : WriteCall(buf) => fired' = fired /\ injects' = injects
      BY DEF WriteCall
    <2>5. \A j \in Injectors : StageOpen(j) \/ StageWrite(j) => fired' = fired /\ injects' = injects
      BY DEF StageOpen, StageWrite
    <2>6. InjectFifo => fired' = fired /\ injects' = injects + 1
      BY DEF InjectFifo
    <2>7. UNCHANGED vars => fired' = fired /\ injects' = injects
      BY DEF vars, history
    <2> QED
      BY <1>1, <2>1, <2>2, <2>3, <2>4, <2>5, <2>6, <2>7 DEF Next, Writing
  <1>3. fired \in {0, 1} /\ injects = 0
    BY <1>1, <1>2
  <1>4. /\ fifo = <<>>
        /\ fired = 0 => rx = <<>> /\ delayed = <<>> /\ loop = <<>> /\ ~armed /\ pc \in {"idle", "match"}
        /\ fired = 1 => Acked \/ Cooling \/ Armed \/ Released
    BY <1>3 DEF UartIInv, Apart
  <1> USE DEF Acked, Cooling, Armed, Released
  <1>5. ASSUME UNCHANGED <<fifo, rx, delayed, armed, loop, fired>>,
               pc' = pc \/ pc' \in {"idle", "match"}
        PROVE  /\ fifo' = <<>>
               /\ fired' = 0 => /\ rx' = <<>> /\ delayed' = <<>> /\ loop' = <<>> /\ ~armed'
                                /\ pc' \in {"idle", "match"}
               /\ fired' = 1 => Acked' \/ Cooling' \/ Armed' \/ Released'
    BY <1>4, <1>5 DEF None
  <1>6. CASE Polling
    <2>1. PICK front, rest : Polled(front, rest)
      BY <1>1, <1>6, PollIs
    <2>2. fifo' = <<>> /\ rx' = rest /\ pc = "idle" /\ pc' = "idle" /\ fired' = fired
      BY <2>1 DEF Polled
    <2>3. rx \o fifo = rx /\ front \in Seq(Units) /\ rest \in Seq(Units) /\ loop \in Seq(Units)
      BY <1>1, <1>4, <2>1, ConcatEmptySeq DEF Polled, Streams
    <2>4. \/ /\ rx # <<>> \/ delayed = <<>>
             /\ front \o rest = rx /\ delayed' = delayed /\ armed' = armed
             /\ loop' = IF rx = <<>> THEN <<>> ELSE loop \o front
          \/ /\ rx = <<>> /\ delayed # <<>> /\ ~armed
             /\ front = <<>> /\ rest = <<>> /\ delayed' = delayed /\ armed' = TRUE /\ loop' = <<>>
          \/ /\ rx = <<>> /\ delayed # <<>> /\ armed
             /\ front \o rest = delayed /\ delayed' = <<>> /\ armed' = FALSE
             /\ loop' = loop \o front
      BY <2>1, <2>3 DEF Polled
    <2>5. front \o rest = <<>> => front = <<>> /\ rest = <<>>
      BY <2>3, ConcatEqualIffEmpty
    <2>6. \A kind : None(front \o rest, kind) => None(front, kind) /\ None(rest, kind)
      <3> SUFFICES ASSUME NEW kind, None(front \o rest, kind)
                   PROVE  None(front, kind) /\ None(rest, kind)
        OBVIOUS
      <3>1. PICK p : p = front \o rest
        OBVIOUS
      <3>2. /\ \A i \in 1 .. Len(front) : i \in 1 .. Len(p) /\ p[i] = front[i]
            /\ \A i \in 1 .. Len(rest) : Len(front) + i \in 1 .. Len(p) /\ p[Len(front) + i] = rest[i]
        BY <2>3, <3>1, CatAt
      <3> QED
        BY <3>1, <3>2 DEF None
    <2>7. \A kind : None(loop, kind) /\ None(front, kind) => None(loop \o front, kind)
      BY <2>3, NoneOfCat
    <2>8. CASE fired = 0
      <3>1. rx = <<>> /\ delayed = <<>> /\ loop = <<>> /\ ~armed
        BY <1>4, <2>8
      <3>2. front \o rest = rx /\ delayed' = <<>> /\ armed' = armed /\ loop' = <<>>
        BY <2>4, <3>1
      <3>3. rest = <<>>
        BY <2>5, <3>1, <3>2
      <3>4. fired' = 0
        BY <2>2, <2>8
      <3> QED
        BY <2>2, <3>1, <3>2, <3>3, <3>4
    <2>9. CASE fired = 1 /\ Acked
      <3>1. /\ front \o rest = <<Ack>> /\ armed' = armed /\ ~armed /\ loop' = loop \o front
            /\ delayed' = delayed /\ loop = <<>>
        BY <2>4, <2>9
      <3>2. loop' = front
        BY <2>3, <3>1, ConcatEmptySeq
      <3>3. \/ front = <<>> /\ rest = <<Ack>>
            \/ rest = <<>> /\ front = <<Ack>>
        <4>1. Len(front) + Len(rest) = 1 /\ Len(front) \in Nat /\ Len(rest) \in Nat
          BY <2>3, <3>1, CatAt
        <4>2. CASE Len(front) = 0
          <5>1. front = <<>>
            BY <2>3, <4>2
          <5> QED
            BY <2>3, <3>1, <5>1, ConcatEmptySeq
        <4>3. CASE Len(rest) = 0
          <5>1. rest = <<>>
            BY <2>3, <4>3
          <5> QED
            BY <2>3, <3>1, <5>1, ConcatEmptySeq
        <4> QED
          BY <4>1, <4>2, <4>3
      <3>4. None(<<Ack>>, "scan")
        BY DEF None, Ack
      <3>5. CASE front = <<>> /\ rest = <<Ack>>
        BY <2>2, <2>9, <3>1, <3>2, <3>5
      <3>6. CASE rest = <<>> /\ front = <<Ack>>
        BY <2>2, <2>9, <3>1, <3>2, <3>4, <3>6
      <3> QED
        BY <3>3, <3>5, <3>6
    <2>10. CASE fired = 1 /\ Cooling
      <3>1. CASE delayed = <<>>
        <4>1. rx' = <<>> /\ loop' = <<>> /\ ~armed'
          BY <2>2, <2>4, <2>5, <2>10, <3>1
        <4>2. None(loop', "scan")
          BY <4>1 DEF None
        <4> QED
          BY <2>2, <2>10, <4>1, <4>2
      <3>2. CASE delayed # <<>>
        BY <2>2, <2>4, <2>10, <3>2
      <3> QED
        BY <3>1, <3>2
    <2>11. CASE fired = 1 /\ Armed
      <3>1. delayed # <<>>
        BY <1>1, <2>11 DEF UartTypeOK
      <3>2. /\ front \o rest = delayed /\ delayed' = <<>> /\ armed' = FALSE
            /\ loop' = loop \o front
        BY <2>4, <2>11, <3>1
      <3>3. None(delayed, "ack") /\ None(loop, "ack")
        <4>1. Len(loop) = 0
          BY <2>11
        <4>2. \A i \in 1 .. Len(delayed) : delayed[i].kind # "ack"
          BY <1>1 DEF AckOrder
        <4> QED
          BY <4>1, <4>2 DEF None
      <3>4. None(rest, "ack") /\ None(loop', "ack")
        BY <2>6, <2>7, <3>2, <3>3
      <3> QED
        BY <2>2, <2>11, <3>2, <3>4
    <2>12. CASE fired = 1 /\ Released
      <3>1. /\ front \o rest = rx /\ delayed' = <<>> /\ ~armed'
            /\ loop' = <<>> \/ loop' = loop \o front
        BY <2>4, <2>12
      <3>2. None(rest, "ack") /\ None(loop \o front, "ack")
        BY <2>6, <2>7, <2>12, <3>1
      <3>3. None(loop', "ack")
        <4>1. None(<<>>, "ack")
          BY DEF None
        <4> QED
          BY <3>1, <3>2, <4>1
      <3> QED
        BY <2>2, <2>12, <3>1, <3>2, <3>3
    <2> QED
      BY <1>3, <1>4, <2>8, <2>9, <2>10, <2>11, <2>12
  <1>7. CASE MatchFrame
    <2>1. /\ \/ fired' = fired /\ rx' = rx
             \/ fired' = fired + 1 /\ rx' = rx \o <<Ack>>
          /\ pc = "match" /\ pc' \in {"drain", "match"}
          /\ pc' = "drain" => fired' = fired + 1
          /\ UNCHANGED <<fifo, delayed, armed, loop>>
      BY <1>1, <1>7, FrameHears
    <2>2. CASE fired' = fired
      <3>1. pc' = "match" /\ rx' = rx
        BY <1>1, <2>1, <2>2
      <3> QED
        BY <1>5, <2>1, <2>2, <3>1
    <2>3. CASE fired' = fired + 1 /\ rx' = rx \o <<Ack>>
      <3>1. fired = 0 /\ rx = <<>>
        BY <1>1, <1>4, <2>3
      <3>2. rx' = <<Ack>>
        <4>1. <<Ack>> \in Seq(Units)
          BY AckIs
        <4> QED
          BY <2>3, <3>1, <4>1, ConcatEmptySeq
      <3> QED
        BY <1>4, <2>1, <2>3, <3>1, <3>2
    <2> QED
      BY <2>1, <2>2, <2>3
  <1>8. CASE DrainRead
    <2>1. UNCHANGED <<fifo, rx, armed, loop, fired>> /\ pc = "drain"
      BY <1>8 DEF DrainRead, history
    <2>2. fired = 1 /\ Acked
      BY <1>3, <1>4, <2>1
    <2> QED
      BY <1>4, <2>1, <2>2
  <1>9. CASE DrainTruncate
    BY <1>5, <1>9 DEF DrainTruncate, history
  <1>10. CASE MatchOverflow \/ MatchNothing
    BY <1>5, <1>10 DEF MatchOverflow, MatchNothing, history
  <1>11. ASSUME NEW buf \in Writes, WriteCall(buf)
         PROVE  /\ fifo' = <<>>
                /\ fired' = 0 => /\ rx' = <<>> /\ delayed' = <<>> /\ loop' = <<>> /\ ~armed'
                                 /\ pc' \in {"idle", "match"}
                /\ fired' = 1 => Acked' \/ Cooling' \/ Armed' \/ Released'
    <2>1. /\ loop' = <<>> /\ pc' = "match" /\ UNCHANGED <<fifo, rx, delayed, armed, fired>>
      BY <1>11 DEF WriteCall
    <2>2. Len(loop') = 0
      BY <2>1
    <2>3. None(loop', "ack") /\ None(loop', "scan")
      BY <2>2 DEF None
    <2>4. None(rx', "ack") <=> None(rx, "ack")
      BY <2>1
    <2> QED
      BY <1>4, <2>1, <2>3, <2>4
  <1>12. ASSUME NEW j \in Injectors, StageOpen(j) \/ StageWrite(j)
         PROVE  UNCHANGED <<fifo, rx, delayed, armed, loop, fired, pc>>
    BY <1>12 DEF StageOpen, StageWrite, portVars
  <1>13. CASE InjectFifo
    <2>1. injects' = injects + 1
      BY <1>13 DEF InjectFifo
    <2> QED
      BY <1>1, <2>1
  <1>14. CASE UNCHANGED vars
    BY <1>5, <1>14 DEF vars, portVars, history
  <1> QED
    BY <1>5, <1>6, <1>7, <1>8, <1>9, <1>10, <1>11, <1>12, <1>13, <1>14 DEF Next, Writing

-----------------------------------------------------------------------------
(* The properties                                                          *)

LEMMA UartIInvImplies == UartIInv => UartInv
  <1> SUFFICES ASSUME UartIInv PROVE UartInv
    OBVIOUS
  <1>1. UartTypeOK /\ AckOrder /\ ScanPlaces /\ Apart /\ Streams
    BY TypesAre DEF UartIInv
  <1> PICK s : s = Heard
    OBVIOUS
  <1> PICK t : t = Stream
    OBVIOUS
  <1>2. /\ s \in Seq(Units) /\ delayed \in Seq(Units)
        /\ got \in Seq(Units) /\ rx \in Seq(Units)
    BY <1>1, CatAt DEF Heard, Streams
  <1>3. t = s \o delayed /\ t \in Seq(Units)
    <2>1. got \o rx \o delayed = s \o delayed
      BY DEF Heard
    <2> QED
      BY <1>2, <2>1, CatAt DEF Stream
  <1>4. /\ Len(t) = Len(s) + Len(delayed) /\ Len(s) \in Nat /\ Len(delayed) \in Nat
        /\ \A k \in 1 .. Len(s) : t[k] = s[k]
        /\ \A k \in Len(s) + 1 .. Len(t) :
             k - Len(s) \in 1 .. Len(delayed) /\ t[k] = delayed[k - Len(s)]
    BY <1>2, <1>3, CatAt
  <1>5. AckPrecedesScan
    <2>1. \A i \in 0 .. Len(s) : Acks(t, i) = Acks(s, i)
      BY <1>2, <1>3, AcksBefore
    <2>2. ASSUME NEW i \in 1 .. Len(t), t[i].kind = "scan" PROVE Acks(t, i) >= t[i].after
      <3>1. CASE i \in 1 .. Len(s)
        <4>1. s[i].kind = "scan" /\ t[i] = s[i] /\ i \in 0 .. Len(s)
          BY <1>4, <2>2, <3>1
        <4> QED
          BY <1>1, <2>1, <3>1, <4>1 DEF AckOrder
      <3>2. CASE i \in Len(s) + 1 .. Len(t)
        <4>1. t[i].after <= fired
          BY <1>1, <1>4, <2>2, <3>2 DEF AckOrder
        <4>2. /\ Len(s) \in 0 .. Len(t) /\ i \in Len(s) .. Len(t) /\ i \in 0 .. Len(t)
              /\ Len(s) \in 0 .. Len(s) /\ i \in i .. Len(t)
          BY <1>4, <3>2
        <4>3. Acks(t, Len(s)) <= Acks(t, i) /\ Acks(t, i) \in Nat
          BY <1>3, <4>2, AckCount
        <4>4. Acks(t, Len(s)) = fired
          BY <1>1, <2>1, <4>2 DEF AckOrder
        <4>5. t[i].after \in Nat /\ fired \in Nat
          BY <1>1, <1>3, UnitAt DEF UartTypeOK
        <4> QED
          BY <4>1, <4>3, <4>4, <4>5
      <3> QED
        BY <1>4, <3>1, <3>2
    <2>3. \A i : Cardinality({k \in 1 .. i : t[k].kind = "ack"}) = Acks(t, i)
      BY DEF Acks, UpTo
    <2> QED
      BY <2>2, <2>3 DEF AckPrecedesScan
  <1>6. AckAndScanApart
    <2> SUFFICES ASSUME fired <= 1, injects = 0
                 PROVE  None(loop, "ack") \/ None(loop, "scan")
      BY DEF AckAndScanApart, None
    <2>1. fired \in {0, 1}
      BY <1>1 DEF UartTypeOK
    <2>2. loop = <<>> => Len(loop) = 0
      OBVIOUS
    <2>3. loop = <<>> => None(loop, "ack")
      BY <2>2 DEF None
    <2> QED
      BY <1>1, <2>1, <2>3 DEF Apart, Acked, Cooling, Armed, Released
  <1>7. ScanNotReplayed
    <2>1. Once(t) /\ ScansIn(t) = Held
      <3>1. Once(s) /\ Once(delayed) /\ ScansIn(s) \cap ScansIn(delayed) = {}
        BY <1>1 DEF ScanPlaces
      <3> QED
        BY <1>2, <1>3, <3>1, OnceOfCat, ScansOfCat DEF Held
    <2>2. ASSUME NEW i \in 1 .. Len(t), t[i].kind = "scan", pc \in {"idle", "match"}
          PROVE  t[i].id \notin ToSet(queue)
      <3>1. t[i].id \in Held
        BY <2>1, <2>2, ScansAre
      <3>2. \A k \in 1 .. Len(queue) : queue[k] \notin Held
        BY <1>1, <2>2 DEF ScanPlaces
      <3>3. DOMAIN queue = 1 .. Len(queue)
        BY <1>1 DEF UartTypeOK
      <3> QED
        BY <3>1, <3>2, <3>3 DEF ToSet
    <2> QED
      BY <2>1, <2>2 DEF ScanNotReplayed, Once
  <1> QED
    BY <1>1, <1>5, <1>6, <1>7 DEF UartInv

LEMMA UartStep == UartIInv /\ [Next]_vars => UartIInv'
  <1> SUFFICES ASSUME UartIInv, [Next]_vars PROVE UartIInv'
    OBVIOUS
  <1>1. UartTypeOK
    BY DEF UartIInv
  <1>2. UartTypeOK'
    <2>1. Streams' /\ TokenSeqs' /\ Marks' /\ Staging' /\ Quiet'
      BY <1>1, StreamsStep, TokensStep, MarksStep, StagingStep, QuietStep
    <2> QED
      BY <2>1 DEF UartTypeOK, Streams, TokenSeqs, Marks, Staging, Quiet
  <1>3. AckOrder' /\ ScanPlaces' /\ Apart'
    BY AckStep, PlacesStep, ApartStep
  <1> QED
    BY <1>2, <1>3 DEF UartIInv

\* Acknowledgements precede the scans they release and, after one trigger, are read apart
\* from them; no scan is heard twice, nor while it can be drained again: for any writes of
\* the sketch, any injectors and any length of the history window (sim_uart.cpp).
THEOREM UartInvariant == Spec => []UartInv
  BY UartInit, UartStep, UartIInvImplies, PTL DEF Spec

-----------------------------------------------------------------------------
(* The frames of a stream                                                  *)

StartsAt(s, i) == s[i] = "hdr" /\ s[i + 2] = "end"
Worth(c) == IF c \in {"start", "stop"} THEN 1 ELSE 0

\* What the equation of TriggersFrom makes of a function.
Found(s, f, i) ==
  IF i + 2 > Len(s) THEN 0
  ELSE IF StartsAt(s, i) THEN f[i + 3] + Worth(s[i + 1]) ELSE f[i + 1]

\* Induction from the end of the stream.
LEMMA FromTheEnd ==
  ASSUME NEW n \in Nat, NEW Good \in SUBSET (1 .. n),
         \A i \in 1 .. n : (\A j \in i + 1 .. n : j \in Good) => i \in Good
  PROVE  Good = 1 .. n
  <1> SUFFICES ASSUME Good # 1 .. n PROVE FALSE
    OBVIOUS
  <1> DEFINE ends == {k \in Nat : k < n /\ n - k \notin Good}
  <1>1. ends \in SUBSET Nat
    OBVIOUS
  <1>2. ends # {}
    <2>1. PICK i \in 1 .. n : i \notin Good
      OBVIOUS
    <2>2. n - i \in Nat /\ n - i < n /\ n - (n - i) = i
      OBVIOUS
    <2> QED
      BY <2>1, <2>2
  <1>3. PICK k \in ends : \A m \in ends : k <= m
    BY ONLY <1>1, <1>2, LeastOf
  <1>4. n - k \in 1 .. n /\ n - k \notin Good
    BY <1>3
  <1>5. ASSUME NEW j \in n - k + 1 .. n PROVE j \in Good
    <2>1. n - j \in Nat /\ n - j < k /\ n - j < n /\ n - (n - j) = j
      BY <1>3
    <2>2. n - j \notin ends
      <3> HIDE DEF ends
      <3>1. n - j \in Nat /\ k \in Nat /\ ~(k <= n - j)
        BY <1>1, <2>1
      <3> QED
        BY ONLY <1>3, <3>1
    <2> QED
      BY <2>1, <2>2
  <1> QED
    BY <1>4, <1>5

\* There is a function that satisfies the equation, in the naturals.
LEMMA EquationSolved ==
  ASSUME NEW s \in Seq(Tokens)
  PROVE  \E f \in [1 .. Len(s) + 1 -> Nat] : \A i \in 1 .. Len(s) + 1 : f[i] = Found(s, f, i)
  <1> PICK n : n = Len(s) + 1
    OBVIOUS
  <1>1. n \in Nat /\ Len(s) \in Nat /\ 1 \in 1 .. n
    OBVIOUS
  <1> DEFINE Solves(f, k) == \A i \in k .. n : f[i] = Found(s, f, i)
             Good == {k \in 1 .. n : \E f \in [1 .. n -> Nat] : Solves(f, k)}
  <1>2. \A i \in 1 .. n : (\A j \in i + 1 .. n : j \in Good) => i \in Good
    <2> SUFFICES ASSUME NEW k \in 1 .. n, \A j \in k + 1 .. n : j \in Good
                 PROVE  \E f \in [1 .. n -> Nat] : Solves(f, k)
      OBVIOUS
    <2>1. PICK g \in [1 .. n -> Nat] : \A i \in k + 1 .. n : g[i] = Found(s, g, i)
      <3>1. CASE k = n
        <4>1. [i \in 1 .. n |-> 0] \in [1 .. n -> Nat] /\ k + 1 .. n = {}
          BY <1>1, <3>1
        <4> QED
          BY <4>1
      <3>2. CASE k # n
        <4>1. k + 1 \in k + 1 .. n
          BY ONLY <1>1, <3>2, k \in 1 .. n
        <4> QED
          BY <4>1
      <3> QED
        BY <3>1, <3>2
    <2>2. Found(s, g, k) \in Nat
      <3>1. k + 2 <= Len(s) => g[k + 1] \in Nat /\ g[k + 3] \in Nat
        BY ONLY <1>1, n = Len(s) + 1, k \in 1 .. n, g \in [1 .. n -> Nat]
      <3>2. k + 2 > Len(s) \/ k + 2 <= Len(s)
        BY <1>1
      <3> QED
        BY ONLY <3>1, <3>2 DEF Found, Worth
    <2>3. PICK f : f = [g EXCEPT ![k] = Found(s, g, k)]
      OBVIOUS
    <2>4. f \in [1 .. n -> Nat] /\ f[k] = Found(s, g, k) /\ \A i \in 1 .. n \ {k} : f[i] = g[i]
      BY ONLY <2>2, <2>3, g \in [1 .. n -> Nat], k \in 1 .. n
    <2>5. \A i \in k .. n : Found(s, f, i) = Found(s, g, i)
      <3> SUFFICES ASSUME NEW i \in k .. n PROVE Found(s, f, i) = Found(s, g, i)
        OBVIOUS
      <3>1. CASE i + 2 > Len(s)
        BY ONLY <3>1 DEF Found
      <3>2. CASE i + 2 <= Len(s)
        <4>1. i + 1 \in 1 .. n \ {k} /\ i + 3 \in 1 .. n \ {k}
          BY <1>1, <3>2
        <4> QED
          BY ONLY <2>4, <4>1 DEF Found
      <3> QED
        BY <1>1, <3>1, <3>2
    <2>6. ASSUME NEW i \in k .. n PROVE f[i] = Found(s, f, i)
      <3>1. CASE i = k
        BY ONLY <2>4, <2>5, <3>1, i \in k .. n
      <3>2. CASE i # k
        <4>1. i \in k + 1 .. n /\ i \in 1 .. n \ {k}
          BY <1>1, <3>2
        <4> QED
          BY ONLY <2>1, <2>4, <2>5, <4>1, i \in k .. n
      <3> QED
        BY <3>1, <3>2
    <2> QED
      BY ONLY <2>4, <2>6
  <1>3. Good = 1 .. n
    <2> HIDE DEF Good
    <2>1. Good \in SUBSET (1 .. n)
      BY DEF Good
    <2> QED
      BY ONLY <1>1, <1>2, <2>1, FromTheEnd
  <1> QED
    BY <1>1, <1>3

\* So TriggersFrom is one.
LEMMA FromEquation ==
  ASSUME NEW s \in Seq(Tokens)
  PROVE  /\ TriggersFrom(s) \in [1 .. Len(s) + 1 -> Nat]
         /\ \A i \in 1 .. Len(s) + 1 : TriggersFrom(s)[i] = Found(s, TriggersFrom(s), i)
  <1> PICK n : n = Len(s) + 1
    OBVIOUS
  <1>1. n \in Nat /\ Len(s) \in Nat
    OBVIOUS
  <1>2. TriggersFrom(s) = CHOOSE f : f = [i \in 1 .. n |-> Found(s, f, i)]
    BY DEF TriggersFrom, Found, StartsAt, Worth, FrameLen
  <1>3. \E f : f = [i \in 1 .. n |-> Found(s, f, i)]
    BY EquationSolved
  <1> PICK g : g = TriggersFrom(s)
    OBVIOUS
  <1>4. g = [i \in 1 .. n |-> Found(s, g, i)]
    BY <1>2, <1>3
  <1>5. \A i \in 1 .. n : g[i] = Found(s, g, i)
    BY ONLY <1>4
  <1> DEFINE Good == {i \in 1 .. n : g[i] \in Nat}
  <1>6. \A i \in 1 .. n : (\A j \in i + 1 .. n : j \in Good) => i \in Good
    <2> SUFFICES ASSUME NEW i \in 1 .. n, \A j \in i + 1 .. n : g[j] \in Nat
                 PROVE  g[i] \in Nat
      OBVIOUS
    <2>1. CASE i + 2 > Len(s)
      BY ONLY <1>5, <2>1, i \in 1 .. n DEF Found
    <2>2. CASE i + 2 <= Len(s)
      <3>1. g[i + 1] \in Nat /\ g[i + 3] \in Nat
        BY <1>1, <2>2
      <3> QED
        BY ONLY <1>5, <3>1, i \in 1 .. n DEF Found, Worth
    <2> QED
      BY <1>1, <2>1, <2>2
  <1>7. Good = 1 .. n
    <2>1. Good \in SUBSET (1 .. n)
      OBVIOUS
    <2> HIDE DEF Good
    <2> QED
      BY ONLY <1>1, <1>6, <2>1, FromTheEnd
  <1>8. g \in [1 .. n -> Nat]
    BY ONLY <1>4, <1>7
  <1> QED
    BY ONLY <1>5, <1>8, g = TriggersFrom(s), n = Len(s) + 1

\* Where no frame starts there is as much to find as one place further.
LEMMA NothingBetween ==
  ASSUME NEW s \in Seq(Tokens), NEW a \in 1 .. Len(s) + 1, NEW b \in a .. Len(s) + 1,
         \A i \in a .. b - 1 : i + 2 <= Len(s) /\ ~StartsAt(s, i)
  PROVE  TriggersFrom(s)[a] = TriggersFrom(s)[b]
  <1> PICK g : g = TriggersFrom(s)
    OBVIOUS
  <1>1. /\ \A i \in 1 .. Len(s) + 1 : g[i] = Found(s, g, i)
        /\ Len(s) \in Nat
    BY FromEquation
  <1> DEFINE Good == {i \in 1 .. b : i >= a => g[i] = g[b]}
  <1>2. ASSUME NEW i \in 1 .. b, \A j \in i + 1 .. b : j \in Good
        PROVE  i \in Good
    <2> SUFFICES ASSUME i >= a PROVE g[i] = g[b]
      OBVIOUS
    <2>1. CASE i = b
      BY <2>1
    <2>2. CASE i # b
      <3>1. i \in a .. b - 1 /\ i + 1 \in i + 1 .. b /\ i + 1 >= a /\ i \in 1 .. Len(s) + 1
        BY <1>1, <2>2
      <3>2. g[i + 1] = g[b]
        BY <1>2, <3>1
      <3>3. ~(i + 2 > Len(s)) /\ ~StartsAt(s, i)
        BY <1>1, <3>1
      <3>4. g[i] = g[i + 1]
        BY ONLY <1>1, <3>1, <3>3 DEF Found
      <3> QED
        BY <3>2, <3>4
    <2> QED
      BY <2>1, <2>2
  <1>3. Good = 1 .. b
    <2>1. Good \in SUBSET (1 .. b) /\ b \in Nat
      BY <1>1
    <2>2. \A i \in 1 .. b : (\A j \in i + 1 .. b : j \in Good) => i \in Good
      BY <1>2
    <2> HIDE DEF Good
    <2> QED
      BY ONLY <2>1, <2>2, FromTheEnd
  <1>4. a \in 1 .. b /\ a >= a
    BY <1>1
  <1> QED
    BY <1>3, <1>4

-----------------------------------------------------------------------------
(* The acknowledgements of a stream                                        *)

\* The history is what the sketch wrote from some place on; and whatever it writes next, what
\* that stream holds before that place has been acknowledged.
Acknowledged(f, s, h) ==
  /\ Len(h) <= Len(s)
  /\ \A i \in 1 .. Len(h) : h[i] = s[Len(s) - Len(h) + i]
  /\ \A t \in Seq(Tokens) :
       TriggersFrom(s \o t)[1] = f + TriggersFrom(s \o t)[Len(s) - Len(h) + 1]

StreamFollowed == Acknowledged(fired, sent, hist)

\* The history is a window of every stream that continues what was written.
Window(u, p, h) ==
  /\ u \in Seq(Tokens) /\ h \in Seq(Tokens) /\ p \in Nat /\ p + Len(h) <= Len(u)
  /\ \A i \in 1 .. Len(h) : u[p + i] = h[i]

LEMMA InTheStream ==
  ASSUME NEW s \in Seq(Tokens), NEW h \in Seq(Tokens), NEW f, Acknowledged(f, s, h),
         NEW t \in Seq(Tokens)
  PROVE  Window(s \o t, Len(s) - Len(h), h)
  <1> PICK u : u = s \o t
    OBVIOUS
  <1> PICK p : p = Len(s) - Len(h)
    OBVIOUS
  <1>1. /\ u \in Seq(Tokens) /\ Len(u) = Len(s) + Len(t) /\ Len(s) \in Nat /\ Len(t) \in Nat
        /\ \A i \in 1 .. Len(s) : u[i] = s[i]
    BY ONLY u = s \o t, s \in Seq(Tokens), t \in Seq(Tokens), CatAt
  <1>2. Len(h) \in Nat /\ Len(h) <= Len(s) /\ \A i \in 1 .. Len(h) : h[i] = s[p + i]
    BY DEF Acknowledged
  <1>3. p \in Nat /\ p + Len(h) = Len(s)
    BY <1>1, <1>2
  <1>4. ASSUME NEW i \in 1 .. Len(h) PROVE u[p + i] = h[i]
    <2>1. p + i \in 1 .. Len(s)
      BY ONLY <1>1, <1>2, <1>3, i \in 1 .. Len(h)
    <2> QED
      BY ONLY <1>1, <1>2, <2>1, i \in 1 .. Len(h)
  <1>5. p + Len(h) <= Len(u)
    BY ONLY <1>1, <1>3
  <1> QED
    BY ONLY <1>1, <1>3, <1>4, <1>5, h \in Seq(Tokens), u = s \o t, p = Len(s) - Len(h) DEF Window

\* Before its first frame there is nothing to find.
LEMMA NothingInWindow ==
  ASSUME NEW u, NEW p, NEW h, Window(u, p, h),
         NEW k \in 0 .. Len(h), k # 0 => k + 2 <= Len(h),
         \A i \in 1 .. k : ~StartsAt(h, i)
  PROVE  TriggersFrom(u)[p + 1] = TriggersFrom(u)[p + k + 1]
  <1>1. /\ u \in Seq(Tokens) /\ h \in Seq(Tokens) /\ p \in Nat /\ p + Len(h) <= Len(u)
        /\ Len(u) \in Nat /\ Len(h) \in Nat /\ \A i \in 1 .. Len(h) : u[p + i] = h[i]
    BY DEF Window
  <1>2. p + 1 \in 1 .. Len(u) + 1 /\ p + k + 1 \in p + 1 .. Len(u) + 1
    BY ONLY <1>1, k \in 0 .. Len(h)
  <1>3. ASSUME NEW i \in p + 1 .. p + k + 1 - 1
        PROVE  i + 2 <= Len(u) /\ ~StartsAt(u, i)
    <2>1. PICK n \in Nat : n = i - p
      BY ONLY <1>1, i \in p + 1 .. p + k + 1 - 1, k \in 0 .. Len(h)
    <2>2. /\ n \in 1 .. k /\ n \in 1 .. Len(h) /\ n + 2 \in 1 .. Len(h)
          /\ p + n = i /\ p + (n + 2) = i + 2 /\ i + 2 <= Len(u)
      BY ONLY <1>1, <2>1, i \in p + 1 .. p + k + 1 - 1, k \in 0 .. Len(h), k # 0 => k + 2 <= Len(h)
    <2>3. u[i] = h[n] /\ u[i + 2] = h[n + 2]
      BY ONLY <1>1, <2>2
    <2>4. ~StartsAt(h, n)
      BY <2>2
    <2> QED
      BY ONLY <2>2, <2>3, <2>4 DEF StartsAt
  <1> PICK a : a = p + 1
    OBVIOUS
  <1> PICK b : b = p + k + 1
    OBVIOUS
  <1>4. /\ a \in 1 .. Len(u) + 1 /\ b \in a .. Len(u) + 1
        /\ \A i \in a .. b - 1 : i + 2 <= Len(u) /\ ~StartsAt(u, i)
    <2>1. a \in 1 .. Len(u) + 1 /\ b \in a .. Len(u) + 1
      BY ONLY <1>2, a = p + 1, b = p + k + 1
    <2>2. ASSUME NEW i \in a .. b - 1 PROVE i + 2 <= Len(u) /\ ~StartsAt(u, i)
      <3>1. i \in p + 1 .. p + k + 1 - 1
        BY ONLY <1>1, i \in a .. b - 1, a = p + 1, b = p + k + 1, k \in 0 .. Len(h)
      <3> QED
        BY ONLY <1>3, <3>1
    <2> QED
      BY ONLY <2>1, <2>2
  <1>5. TriggersFrom(u)[a] = TriggersFrom(u)[b]
    BY ONLY <1>1, <1>4, NothingBetween
  <1> QED
    BY ONLY <1>5, a = p + 1, b = p + k + 1

\* Its first frame is the next one of the stream.
LEMMA FrameInWindow ==
  ASSUME NEW u, NEW p, NEW h, Window(u, p, h), NEW m \in 1 .. Len(h), m + 2 <= Len(h),
         StartsAt(h, m), \A i \in 1 .. m - 1 : ~StartsAt(h, i)
  PROVE  TriggersFrom(u)[p + 1] = Worth(h[m + 1]) + TriggersFrom(u)[p + (m + 2) + 1]
  <1>1. /\ u \in Seq(Tokens) /\ h \in Seq(Tokens) /\ p \in Nat /\ p + Len(h) <= Len(u)
        /\ Len(u) \in Nat /\ Len(h) \in Nat /\ \A i \in 1 .. Len(h) : u[p + i] = h[i]
    BY DEF Window
  <1>2. TriggersFrom(u)[p + 1] = TriggersFrom(u)[p + m]
    <2> PICK k : k = m - 1
      OBVIOUS
    <2>1. k \in 0 .. Len(h) /\ (k # 0 => k + 2 <= Len(h)) /\ p + k + 1 = p + m
      BY ONLY <1>1, k = m - 1, m \in 1 .. Len(h), m + 2 <= Len(h)
    <2>2. \A i \in 1 .. k : ~StartsAt(h, i)
      BY ONLY k = m - 1, \A i \in 1 .. m - 1 : ~StartsAt(h, i)
    <2>3. TriggersFrom(u)[p + 1] = TriggersFrom(u)[p + k + 1]
      BY ONLY <2>1, <2>2, Window(u, p, h), NothingInWindow
    <2> QED
      BY ONLY <2>1, <2>3
  <1> PICK e : e = p + m
    OBVIOUS
  <1>3. /\ e \in 1 .. Len(u) + 1 /\ e + 2 <= Len(u) /\ e + 3 \in 1 .. Len(u) + 1
        /\ e + 1 = p + (m + 1) /\ e + 2 = p + (m + 2) /\ p + (m + 2) + 1 = e + 3 /\ e + 2 \in Nat
        /\ m + 1 \in 1 .. Len(h) /\ m + 2 \in 1 .. Len(h)
    BY ONLY <1>1, e = p + m, m \in 1 .. Len(h), m + 2 <= Len(h)
  <1>4. u[e] = h[m] /\ u[e + 1] = h[m + 1] /\ u[e + 2] = h[m + 2]
    BY ONLY <1>1, <1>3, e = p + m, m \in 1 .. Len(h)
  <1>5. StartsAt(u, e) /\ ~(e + 2 > Len(u))
    <2>1. StartsAt(u, e)
      BY ONLY <1>4, StartsAt(h, m) DEF StartsAt
    <2>2. ~(e + 2 > Len(u))
      BY ONLY <1>1, <1>3
    <2> QED
      BY <2>1, <2>2
  <1> PICK g : g = TriggersFrom(u)
    OBVIOUS
  <1>6. g \in [1 .. Len(u) + 1 -> Nat] /\ g[e] = Found(u, g, e)
    <2>1. /\ TriggersFrom(u) \in [1 .. Len(u) + 1 -> Nat]
          /\ \A i \in 1 .. Len(u) + 1 : TriggersFrom(u)[i] = Found(u, TriggersFrom(u), i)
      BY ONLY <1>1, FromEquation
    <2> QED
      BY ONLY <1>3, <2>1, g = TriggersFrom(u)
  <1>7. g[e] = g[e + 3] + Worth(u[e + 1])
    BY ONLY <1>5, <1>6 DEF Found
  <1>8. g[e + 3] \in Nat /\ Worth(h[m + 1]) \in Nat
    BY ONLY <1>3, <1>6 DEF Worth
  <1>9. g[e] = Worth(h[m + 1]) + g[e + 3]
    BY ONLY <1>4, <1>7, <1>8
  <1> QED
    BY ONLY <1>2, <1>3, <1>9, e = p + m, g = TriggersFrom(u)

\* write() appends to the stream and to the history.
LEMMA WriteFollows ==
  ASSUME NEW s \in Seq(Tokens), NEW h \in Seq(Tokens), NEW f, Acknowledged(f, s, h),
         NEW b \in Seq(Tokens)
  PROVE  Acknowledged(f, s \o b, h \o b)
  <1> PICK u : u = s \o b
    OBVIOUS
  <1> PICK g : g = h \o b
    OBVIOUS
  <1>1. /\ Len(u) = Len(s) + Len(b) /\ Len(s) \in Nat /\ Len(b) \in Nat
        /\ \A i \in 1 .. Len(s) : u[i] = s[i]
        /\ \A i \in Len(s) + 1 .. Len(s) + Len(b) : u[i] = b[i - Len(s)]
    BY ONLY u = s \o b, s \in Seq(Tokens), b \in Seq(Tokens), CatAt
  <1>2. /\ Len(g) = Len(h) + Len(b) /\ Len(h) \in Nat
        /\ \A i \in 1 .. Len(h) : g[i] = h[i]
        /\ \A i \in Len(h) + 1 .. Len(h) + Len(b) : g[i] = b[i - Len(h)]
    BY ONLY g = h \o b, h \in Seq(Tokens), b \in Seq(Tokens), CatAt
  <1>3. Len(h) <= Len(s) /\ \A i \in 1 .. Len(h) : h[i] = s[Len(s) - Len(h) + i]
    BY DEF Acknowledged
  <1>4. Len(g) <= Len(u) /\ Len(u) - Len(g) = Len(s) - Len(h)
    BY <1>1, <1>2, <1>3
  <1>5. ASSUME NEW i \in 1 .. Len(g) PROVE g[i] = u[Len(u) - Len(g) + i]
    <2>1. CASE i \in 1 .. Len(h)
      <3>1. Len(s) - Len(h) + i \in 1 .. Len(s)
        BY <1>1, <1>2, <1>3, <2>1
      <3> QED
        BY ONLY <1>1, <1>2, <1>3, <1>4, <2>1, <3>1
    <2>2. CASE i \in Len(h) + 1 .. Len(h) + Len(b)
      <3>1. /\ Len(s) - Len(h) + i \in Len(s) + 1 .. Len(s) + Len(b)
            /\ (Len(s) - Len(h) + i) - Len(s) = i - Len(h)
        BY <1>1, <1>2, <1>3, <2>2
      <3> QED
        BY ONLY <1>1, <1>2, <1>4, <2>2, <3>1
    <2>3. i \in 1 .. Len(h) \/ i \in Len(h) + 1 .. Len(h) + Len(b)
      BY ONLY <1>1, <1>2, i \in 1 .. Len(g)
    <2> QED
      BY ONLY <2>1, <2>2, <2>3
  <1>6. ASSUME NEW t \in Seq(Tokens)
        PROVE  TriggersFrom(u \o t)[1] = f + TriggersFrom(u \o t)[Len(u) - Len(g) + 1]
    <2>1. u \o t = s \o (b \o t) /\ b \o t \in Seq(Tokens)
      BY ConcatAssociative, ConcatProperties
    <2> QED
      BY ONLY Acknowledged(f, s, h), <1>4, <2>1 DEF Acknowledged
  <1> QED
    BY ONLY <1>4, <1>5, <1>6, u = s \o b, g = h \o b DEF Acknowledged

\* What is taken off the history, if that much is acknowledged, is found no more.
LEMMA ShorterFollows ==
  ASSUME NEW s \in Seq(Tokens), NEW h \in Seq(Tokens), NEW f \in Nat, Acknowledged(f, s, h),
         NEW n \in 1 .. Len(h), NEW w \in Nat, NEW r, r = SubSeq(h, n + 1, Len(h)),
         \A t \in Seq(Tokens) :
           TriggersFrom(s \o t)[Len(s) - Len(h) + 1]
             = w + TriggersFrom(s \o t)[Len(s) - Len(h) + n + 1]
  PROVE  Acknowledged(f + w, s, r)
  <1>1. /\ Len(h) \in Nat /\ Len(s) \in Nat /\ Len(h) <= Len(s)
        /\ \A i \in 1 .. Len(h) : h[i] = s[Len(s) - Len(h) + i]
    BY DEF Acknowledged
  <1>2. /\ r \in Seq(Tokens) /\ Len(r) = Len(h) - n
        /\ \A i \in 1 .. Len(r) : r[i] = h[n + i]
    BY <1>1
  <1>3. Len(r) <= Len(s) /\ Len(s) - Len(r) = Len(s) - Len(h) + n
    BY ONLY <1>1, <1>2, n \in 1 .. Len(h)
  <1>4. ASSUME NEW i \in 1 .. Len(r) PROVE r[i] = s[Len(s) - Len(r) + i]
    <2>1. n + i \in 1 .. Len(h) /\ Len(s) - Len(r) + i = Len(s) - Len(h) + (n + i)
      BY ONLY <1>1, <1>2, n \in 1 .. Len(h), i \in 1 .. Len(r)
    <2> QED
      BY ONLY <1>1, <1>2, <1>3, <2>1, i \in 1 .. Len(r)
  <1>5. ASSUME NEW t \in Seq(Tokens)
        PROVE  TriggersFrom(s \o t)[1] = (f + w) + TriggersFrom(s \o t)[Len(s) - Len(r) + 1]
    <2> PICK u : u = s \o t
      OBVIOUS
    <2> PICK p : p = Len(s) - Len(h)
      OBVIOUS
    <2> PICK g : g = TriggersFrom(u)
      OBVIOUS
    <2>1. /\ g[1] = f + g[p + 1] /\ g \in [1 .. Len(u) + 1 -> Nat]
          /\ p \in Nat /\ p + Len(h) <= Len(u) /\ Len(u) \in Nat
      <3>1. Window(s \o t, Len(s) - Len(h), h)
        BY InTheStream
      <3>2. u \in Seq(Tokens) /\ Len(u) \in Nat /\ p \in Nat /\ p + Len(h) <= Len(u)
        BY ONLY <3>1, u = s \o t, p = Len(s) - Len(h) DEF Window
      <3>3. TriggersFrom(u)[1] = f + TriggersFrom(u)[p + 1]
        BY ONLY Acknowledged(f, s, h), t \in Seq(Tokens), u = s \o t, p = Len(s) - Len(h)
           DEF Acknowledged
      <3>4. TriggersFrom(u) \in [1 .. Len(u) + 1 -> Nat]
        BY ONLY <3>2, FromEquation
      <3> QED
        BY ONLY <3>2, <3>3, <3>4, g = TriggersFrom(u)
    <2>2. g[p + 1] = w + g[p + n + 1]
      OBVIOUS
    <2>3. p + n + 1 \in 1 .. Len(u) + 1 /\ p + 1 \in 1 .. Len(u) + 1
      BY <1>1, <2>1
    <2>4. g[p + n + 1] \in Nat /\ g[p + 1] \in Nat
      BY ONLY <2>1, <2>3
    <2>5. g[1] = (f + w) + g[p + n + 1]
      BY ONLY <2>1, <2>2, <2>4, f \in Nat, w \in Nat
    <2> QED
      BY ONLY <1>3, <2>5, u = s \o t, p = Len(s) - Len(h), g = TriggersFrom(u)
  <1> QED
    BY ONLY <1>3, <1>4, <1>5 DEF Acknowledged

\* The first frame of the history leaves it with what came before it.
LEMMA FrameFollows ==
  ASSUME NEW s \in Seq(Tokens), NEW h \in Seq(Tokens), NEW f \in Nat, Acknowledged(f, s, h),
         NEW m \in 1 .. Len(h), m + 2 <= Len(h), StartsAt(h, m),
         \A i \in 1 .. m - 1 : ~StartsAt(h, i), NEW r, r = SubSeq(h, m + 3, Len(h))
  PROVE  Acknowledged(f + Worth(h[m + 1]), s, r)
  <1> PICK w : w = Worth(h[m + 1])
    OBVIOUS
  <1> PICK n : n = m + 2
    OBVIOUS
  <1>1. n \in 1 .. Len(h) /\ r = SubSeq(h, n + 1, Len(h))
    <2>1. m + 3 = n + 1 /\ n \in 1 .. Len(h)
      BY ONLY h \in Seq(Tokens), m \in 1 .. Len(h), m + 2 <= Len(h), n = m + 2
    <2> QED
      BY ONLY <2>1, r = SubSeq(h, m + 3, Len(h))
  <1>2. w \in Nat
    BY ONLY w = Worth(h[m + 1]) DEF Worth
  <1>3. ASSUME NEW t \in Seq(Tokens)
        PROVE  TriggersFrom(s \o t)[Len(s) - Len(h) + 1]
                 = w + TriggersFrom(s \o t)[Len(s) - Len(h) + n + 1]
    <2>1. Window(s \o t, Len(s) - Len(h), h)
      BY InTheStream
    <2> PICK u : u = s \o t
      OBVIOUS
    <2> PICK p : p = Len(s) - Len(h)
      OBVIOUS
    <2>2. Window(u, p, h)
      BY ONLY <2>1, u = s \o t, p = Len(s) - Len(h)
    <2>3. TriggersFrom(u)[p + 1] = Worth(h[m + 1]) + TriggersFrom(u)[p + (m + 2) + 1]
      BY ONLY <2>2, m \in 1 .. Len(h), m + 2 <= Len(h), StartsAt(h, m),
              \A i \in 1 .. m - 1 : ~StartsAt(h, i), FrameInWindow
    <2> QED
      BY ONLY <2>3, u = s \o t, p = Len(s) - Len(h), w = Worth(h[m + 1]), n = m + 2
  <1>4. Acknowledged(f + w, s, r)
    BY ONLY <1>1, <1>2, <1>3, s \in Seq(Tokens), h \in Seq(Tokens), f \in Nat,
            Acknowledged(f, s, h), ShorterFollows
  <1> QED
    BY ONLY <1>4, w = Worth(h[m + 1])

\* The oldest token goes when no frame starts there.
LEMMA OverflowFollows ==
  ASSUME NEW s \in Seq(Tokens), NEW h \in Seq(Tokens), NEW f \in Nat, Acknowledged(f, s, h),
         Len(h) >= 3, ~StartsAt(h, 1)
  PROVE  Acknowledged(f, s, Tail(h))
  <1> PICK r : r = Tail(h)
    OBVIOUS
  <1>1. r = SubSeq(h, 1 + 1, Len(h)) /\ Len(h) \in Nat /\ 1 \in 1 .. Len(h)
    OBVIOUS
  <1>2. ASSUME NEW t \in Seq(Tokens)
        PROVE  TriggersFrom(s \o t)[Len(s) - Len(h) + 1]
                 = 0 + TriggersFrom(s \o t)[Len(s) - Len(h) + 1 + 1]
    <2>1. Window(s \o t, Len(s) - Len(h), h)
      BY InTheStream
    <2> PICK u : u = s \o t
      OBVIOUS
    <2> PICK p : p = Len(s) - Len(h)
      OBVIOUS
    <2>2. Window(u, p, h)
      BY ONLY <2>1, u = s \o t, p = Len(s) - Len(h)
    <2>3. 1 \in 0 .. Len(h) /\ 1 + 2 <= Len(h) /\ \A i \in 1 .. 1 : ~StartsAt(h, i)
      <3>1. \A i \in 1 .. 1 : i = 1
        OBVIOUS
      <3>2. 1 \in 0 .. Len(h) /\ 1 + 2 <= Len(h)
        BY ONLY <1>1, Len(h) >= 3
      <3> QED
        BY ONLY <3>1, <3>2, ~StartsAt(h, 1)
    <2>4. TriggersFrom(u)[p + 1] = TriggersFrom(u)[p + 1 + 1]
      BY ONLY <2>2, <2>3, NothingInWindow
    <2>5. TriggersFrom(u)[p + 1 + 1] \in Nat
      <3>1. u \in Seq(Tokens) /\ p + 1 + 1 \in 1 .. Len(u) + 1
        BY ONLY <1>1, <2>2, Len(h) >= 3 DEF Window
      <3> QED
        BY ONLY <3>1, FromEquation
    <2>6. TriggersFrom(u)[p + 1] = 0 + TriggersFrom(u)[p + 1 + 1]
      BY ONLY <2>4, <2>5
    <2> QED
      BY ONLY <2>6, u = s \o t, p = Len(s) - Len(h)
  <1>3. Acknowledged(f + 0, s, r)
    BY ONLY <1>1, <1>2, s \in Seq(Tokens), h \in Seq(Tokens), f \in Nat, 0 \in Nat,
            Acknowledged(f, s, h), ShorterFollows
  <1>4. f + 0 = f
    OBVIOUS
  <1> QED
    BY ONLY <1>3, <1>4, r = Tail(h)

\* With no frame in the history all that the stream holds is acknowledged.
LEMMA AllAcknowledged ==
  ASSUME NEW s \in Seq(Tokens), NEW h \in Seq(Tokens), NEW f \in Nat, Acknowledged(f, s, h),
         \A i \in 1 .. Len(h) - 2 : ~StartsAt(h, i)
  PROVE  f = TriggersIn(s)
  <1> PICK p : p = Len(s) - Len(h)
    OBVIOUS
  <1> PICK t : t = <<>>
    OBVIOUS
  <1>1. t \in Seq(Tokens) /\ s \o t = s
    BY ConcatEmptySeq, EmptySeq
  <1>2. Window(s, p, h)
    <2>1. Window(s \o t, Len(s) - Len(h), h)
      BY <1>1, InTheStream
    <2> QED
      BY ONLY <1>1, <2>1, p = Len(s) - Len(h)
  <1>3. TriggersFrom(s)[1] = f + TriggersFrom(s)[p + 1]
    BY ONLY <1>1, Acknowledged(f, s, h), p = Len(s) - Len(h) DEF Acknowledged
  <1>4. p \in Nat /\ Len(s) \in Nat /\ Len(h) \in Nat /\ p + Len(h) = Len(s)
    <2>1. p \in Nat
      BY ONLY <1>2 DEF Window
    <2> QED
      BY ONLY <2>1, s \in Seq(Tokens), h \in Seq(Tokens), p = Len(s) - Len(h)
  <1> PICK k : k = IF Len(h) >= 2 THEN Len(h) - 2 ELSE 0
    OBVIOUS
  <1>5. /\ k \in 0 .. Len(h) /\ (k # 0 => k + 2 <= Len(h))
        /\ p + k + 1 \in 1 .. Len(s) + 1 /\ p + k + 1 + 2 > Len(s)
        /\ \A i \in 1 .. k : i \in 1 .. Len(h) - 2
    BY ONLY <1>4, k = IF Len(h) >= 2 THEN Len(h) - 2 ELSE 0
  <1>6. \A i \in 1 .. k : ~StartsAt(h, i)
    BY <1>5
  <1>7. TriggersFrom(s)[p + 1] = TriggersFrom(s)[p + k + 1]
    BY ONLY <1>2, <1>5, <1>6, NothingInWindow
  <1>8. TriggersFrom(s)[p + k + 1] = 0
    <2>1. TriggersFrom(s)[p + k + 1] = Found(s, TriggersFrom(s), p + k + 1)
      BY ONLY <1>5, s \in Seq(Tokens), FromEquation
    <2> QED
      BY ONLY <1>5, <2>1 DEF Found
  <1>9. f + 0 = f
    OBVIOUS
  <1> QED
    BY ONLY <1>3, <1>7, <1>8, <1>9 DEF TriggersIn

LEMMA FollowsInit == Init => StreamFollowed
  <1> SUFFICES ASSUME Init PROVE StreamFollowed
    OBVIOUS
  <1>1. sent = <<>> /\ hist = <<>> /\ fired = 0
    BY DEF Init
  <1>2. Len(sent) = 0 /\ Len(hist) = 0
    BY <1>1
  <1>3. ASSUME NEW t \in Seq(Tokens)
        PROVE  TriggersFrom(sent \o t)[1]
                 = fired + TriggersFrom(sent \o t)[Len(sent) - Len(hist) + 1]
    <2>1. sent \o t = t
      BY ONLY <1>1, t \in Seq(Tokens), ConcatEmptySeq
    <2>2. Len(t) \in Nat
      OBVIOUS
    <2>3. TriggersFrom(t)[1] \in Nat
      <3>1. TriggersFrom(t) \in [1 .. Len(t) + 1 -> Nat]
        BY FromEquation
      <3>2. 1 \in 1 .. Len(t) + 1
        BY <2>2
      <3> QED
        BY ONLY <3>1, <3>2
    <2>4. Len(sent) - Len(hist) + 1 = 1
      BY ONLY <1>2
    <2> QED
      BY ONLY <1>1, <2>1, <2>3, <2>4
  <1> QED
    BY ONLY <1>2, <1>3 DEF StreamFollowed, Acknowledged

\* Only write() and what it does with the history change what is followed.
LEMMA FollowsStep ==
  ASSUME UartTypeOK, StreamFollowed, [Next]_vars
  PROVE  StreamFollowed'
  <1>1. sent \in Seq(Tokens) /\ hist \in Seq(Tokens) /\ fired \in Nat /\ Len(hist) \in Nat
    BY DEF UartTypeOK
  <1>2. Acknowledged(fired, sent, hist)
    BY DEF StreamFollowed
  <1>3. CASE UNCHANGED <<sent, hist, fired>>
    BY ONLY <1>2, <1>3 DEF StreamFollowed
  <1>4. ASSUME NEW buf \in Writes, WriteCall(buf) PROVE StreamFollowed'
    <2>1. buf \in Seq(Tokens)
      BY UartAssumption
    <2>2. sent' = sent \o buf /\ hist' = hist \o buf /\ fired' = fired
      BY <1>4 DEF WriteCall
    <2>3. Acknowledged(fired, sent \o buf, hist \o buf)
      BY ONLY <1>1, <1>2, <2>1, WriteFollows
    <2> QED
      BY ONLY <2>2, <2>3 DEF StreamFollowed
  <1>5. CASE MatchFrame
    <2> PICK m : m = Min(FrameStarts)
      OBVIOUS
    <2>1. m \in FrameStarts /\ \A y \in FrameStarts : m <= y
      BY <1>1, <1>5, FirstFrame DEF MatchFrame
    <2>2. /\ hist' = SubSeq(hist, m + 3, Len(hist)) /\ sent' = sent
          /\ fired' = IF hist[m + 1] \in {"start", "stop"} THEN fired + 1 ELSE fired
      BY <1>5 DEF MatchFrame, FrameLen
    <2>3. m \in 1 .. Len(hist) /\ m + 2 <= Len(hist) /\ hist[m] = "hdr" /\ hist[m + 2] = "end"
      BY ONLY <1>1, <2>1 DEF FrameStarts, FrameLen
    <2>4. StartsAt(hist, m)
      BY ONLY <2>3 DEF StartsAt
    <2>5. ASSUME NEW i \in 1 .. m - 1 PROVE ~StartsAt(hist, i)
      <3>1. i \notin FrameStarts /\ i \in 1 .. Len(hist) - 3 + 1 /\ i + 3 - 1 = i + 2
        BY ONLY <1>1, <2>1, <2>3, i \in 1 .. m - 1
      <3> QED
        BY ONLY <3>1 DEF FrameStarts, FrameLen, StartsAt
    <2>6. fired' = fired + Worth(hist[m + 1])
      <3>1. CASE hist[m + 1] \in {"start", "stop"}
        BY ONLY <2>2, <3>1 DEF Worth
      <3>2. CASE hist[m + 1] \notin {"start", "stop"}
        BY ONLY <1>1, <2>2, <3>2 DEF Worth
      <3> QED
        BY <3>1, <3>2
    <2>7. Acknowledged(fired + Worth(hist[m + 1]), sent, SubSeq(hist, m + 3, Len(hist)))
      <3> PICK r : r = SubSeq(hist, m + 3, Len(hist))
        OBVIOUS
      <3>1. Acknowledged(fired + Worth(hist[m + 1]), sent, r)
        BY ONLY <1>1, <1>2, <2>3, <2>4, <2>5, r = SubSeq(hist, m + 3, Len(hist)), FrameFollows
      <3> QED
        BY ONLY <3>1, r = SubSeq(hist, m + 3, Len(hist))
    <2> QED
      BY ONLY <2>2, <2>6, <2>7 DEF StreamFollowed
  <1>6. CASE MatchOverflow
    <2>1. FrameStarts = {} /\ Len(hist) > HistMax /\ hist' = Tail(hist) /\ UNCHANGED <<sent, fired>>
      BY <1>6 DEF MatchOverflow, history
    <2>2. Len(hist) >= 3 /\ 1 \in 1 .. Len(hist) - 3 + 1 /\ 1 + 3 - 1 = 1 + 2
      BY ONLY <1>1, <2>1, UartAssumption DEF FrameLen
    <2>3. ~StartsAt(hist, 1)
      BY ONLY <2>1, <2>2 DEF FrameStarts, FrameLen, StartsAt
    <2>4. Acknowledged(fired, sent, Tail(hist))
      BY ONLY <1>1, <1>2, <2>2, <2>3, OverflowFollows
    <2> QED
      BY ONLY <2>1, <2>4 DEF StreamFollowed
  <1>7. CASE MatchNothing \/ DrainRead \/ DrainTruncate
    BY <1>3, <1>7 DEF MatchNothing, DrainRead, DrainTruncate, history
  <1>8. CASE Polling
    BY <1>3, <1>8 DEF Polling, Available, Read, ReadBuf, Take
  <1>9. CASE \/ \E j \in Injectors : StageOpen(j) \/ StageWrite(j)
             \/ InjectFifo \/ UNCHANGED vars
    BY <1>3, <1>9 DEF StageOpen, StageWrite, InjectFifo, vars, portVars, history
  <1> QED
    BY <1>4, <1>5, <1>6, <1>7, <1>8, <1>9 DEF Next, Writing

\* The scanner acknowledges each trigger frame of the sketch's stream once: between calls of
\* write() it has sent as many acknowledgements as the stream, read as a whole, holds
\* triggers, for any writes it is cut into and any length of the history.
THEOREM AcknowledgesStream == Spec => []AcksFollowStream
  <1>1. Init => UartIInv /\ StreamFollowed
    BY UartInit, FollowsInit
  <1>2. UartIInv /\ StreamFollowed /\ [Next]_vars => (UartIInv /\ StreamFollowed)'
    BY UartStep, FollowsStep DEF UartIInv
  <1>3. UartIInv /\ StreamFollowed => AcksFollowStream
    <2> SUFFICES ASSUME UartTypeOK, StreamFollowed, pc = "idle"
                 PROVE  fired = TriggersIn(sent)
      BY DEF UartIInv, AcksFollowStream
    <2>1. sent \in Seq(Tokens) /\ hist \in Seq(Tokens) /\ fired \in Nat /\ Len(hist) \in Nat
      BY DEF UartTypeOK
    <2>2. FrameStarts = {}
      BY DEF UartTypeOK
    <2>3. ASSUME NEW i \in 1 .. Len(hist) - 2 PROVE ~StartsAt(hist, i)
      <3>1. i \in 1 .. Len(hist) - 3 + 1 /\ i + 3 - 1 = i + 2
        BY ONLY <2>1, i \in 1 .. Len(hist) - 2
      <3> QED
        BY ONLY <2>2, <3>1 DEF FrameStarts, FrameLen, StartsAt
    <2>4. Acknowledged(fired, sent, hist)
      BY DEF StreamFollowed
    <2> QED
      BY ONLY <2>1, <2>3, <2>4, AllAcknowledged
  <1> QED
    BY <1>1, <1>2, <1>3, PTL DEF Spec
==============================================================================
