------------------------------ MODULE NetClient ------------------------------
(***************************************************************************)
(* Wi-Fi and the sockets under it: WiFi, WiFiClient                        *)
(* (runtime/src/sim_wifi.cpp) and WiFiClientSecure (sim_wifi_secure.cpp),  *)
(* which keeps a TLS session beside the socket of its base class.  The     *)
(* program has one secure client and plain ones, which may be copies of    *)
(* one another.                                                            *)
(*                                                                         *)
(* BOARDGHOST_NET (sim_net.cpp) says what a connection is: refused, only   *)
(* pretended, or a socket.  External: the kernel gives a new socket the    *)
(* lowest free descriptor; a TLS session reads and writes the descriptor   *)
(* it was given, whatever that is by then; the peers and their             *)
(* certificates.                                                           *)
(***************************************************************************)
EXTENDS Integers, FiniteSets

CONSTANTS
  Plain,     \* plain clients of the sketch
  Secure,    \* its secure client
  Fds,       \* descriptors, a range of numbers
  MaxConns   \* bound on the connections made

Clients == Plain \cup {Secure}

ASSUME NetAssumption ==
  /\ IsFiniteSet(Plain) /\ Secure \notin Plain /\ IsFiniteSet(Fds) /\ MaxConns \in Nat
  /\ Fds \subseteq Nat \ {0} /\ Cardinality(Fds) > Cardinality(Plain) + 1

VARIABLES
  mode,      \* sim_net_mode(): "fake", "fail", "real"
  left,      \* WiFi: _force_disconnected
  rows,      \* scan_results(): where they are from, "none" if there are none
  open,      \* each descriptor: the connection it is, 0 if it is free
  sock,      \* sock_ of each client: a descriptor, or 0
  pretend,   \* fake_connected_ of each client
  insecure,  \* insecure_
  tls,       \* tls_: the descriptor and connection it was made on, and how it was verified
  conns,     \* connections so far
  renewed,   \* history: connect() of a secure client that had a session
  talk       \* history: connection a session is for and connection it has talked to

netVars == <<mode, left, rows, open, sock, pretend, insecure, tls, conns, renewed, talk>>
wifiVars == <<mode, left, rows>>

NoTls == [fd |-> 0, conn |-> 0, unverified |-> FALSE, chain |-> FALSE, name |-> FALSE]

InitNet ==
  /\ mode \in {"fake", "fail", "real"} /\ left = FALSE /\ rows = "none"
  /\ open = [f \in Fds |-> 0]
  /\ sock = [c \in Clients |-> 0] /\ pretend = [c \in Clients |-> FALSE]
  /\ insecure = FALSE /\ tls = NoTls /\ conns = 0
  /\ renewed = FALSE /\ talk = {}

-----------------------------------------------------------------------------
(* WiFi                                                                    *)

Associate ==
  /\ left /\ left' = FALSE
  /\ UNCHANGED <<mode, rows, open, sock, pretend, insecure, tls, conns, renewed, talk>>

Disassociate ==
  /\ ~left /\ left' = TRUE
  /\ UNCHANGED <<mode, rows, open, sock, pretend, insecure, tls, conns, renewed, talk>>

\* status(): begin() and disconnect() are remembered, but no client asks.
WifiStatus == IF left \/ mode = "fail" THEN "disconnected" ELSE "connected"

\* Where rows can be from: BOARDGHOST_WIFI_SCAN, else nmcli, else three of its own.
RowSources == {"environment", "host", "default"}

\* scanNetworks().
ScanNetworks ==
  /\ rows' \in IF mode = "fail" THEN {"none"} ELSE RowSources
  /\ UNCHANGED <<mode, left, open, sock, pretend, insecure, tls, conns, renewed, talk>>

ScanDelete ==
  /\ rows' = "none"
  /\ UNCHANGED <<mode, left, open, sock, pretend, insecure, tls, conns, renewed, talk>>

-----------------------------------------------------------------------------
(* Sockets                                                                 *)

LowestFree == CHOOSE f \in Fds : open[f] = 0 /\ \A g \in Fds : open[g] = 0 => f <= g

\* The socket is closed with the last client that shares it.
Swept(o, s) == [f \in Fds |-> IF \E c \in Clients : s[c] = f THEN o[f] ELSE 0]

\* client c has socket f, or none, from now on; o is what the descriptors are.
Gets(c, f, fake, o) ==
  /\ sock' = [sock EXCEPT ![c] = f] /\ pretend' = [pretend EXCEPT ![c] = fake]
  /\ open' = Swept(o, sock')

\* A connect() of the base class that makes no socket: refused, pretended, not resolved.
ConnectNoSocket(c) ==
  \/ Gets(c, 0, FALSE, open) /\ mode \in {"fail", "real"}
  \/ Gets(c, 0, TRUE, open) /\ mode \in {"fake", "real"}

Dialled == [open EXCEPT ![LowestFree] = conns + 1]

\* WiFiClient::connect(): the new socket is there before the old one goes.
PlainConnect(c) ==
  /\ \/ ConnectNoSocket(c) /\ UNCHANGED conns
     \/ /\ mode = "real" /\ conns < MaxConns
        /\ Gets(c, LowestFree, FALSE, Dialled) /\ conns' = conns + 1
  /\ UNCHANGED <<wifiVars, insecure, tls, renewed, talk>>

\* WiFiClient::stop(), and recv() that meets the end of the stream.
PlainStop(c) ==
  /\ sock[c] # 0 \/ pretend[c]
  /\ Gets(c, 0, FALSE, open)
  /\ UNCHANGED <<wifiVars, insecure, tls, conns, renewed, talk>>

\* A copy of a client, by value: a secure one is copied without its session.
CopyClient(from, to) ==
  /\ from # to /\ sock[from] # sock[to]
  /\ Gets(to, sock[from], pretend[from], open)
  /\ UNCHANGED <<wifiVars, insecure, tls, conns, renewed, talk>>

-----------------------------------------------------------------------------
(* The secure client                                                       *)

SetInsecure ==
  /\ insecure' = TRUE
  /\ UNCHANGED <<wifiVars, open, sock, pretend, tls, conns, renewed, talk>>

\* SSL_connect() accepts a peer whose chain ends at the pinned or the system's roots and
\* whose certificate is for the host.
Trusted(chain, name) == insecure \/ (chain /\ name)

\* What session s says reaches the connection that its descriptor is by now, o.
Says(s, o) ==
  IF s # NoTls /\ o[s.fd] # 0 THEN talk \cup {<<s.conn, o[s.fd]>>} ELSE talk

\* connect(): a handshake that fails stops the base class only, and so does a peer without
\* TLS; a session that was there goes, with a farewell, when there is a new one.
SecureConnect ==
  /\ renewed' = (renewed \/ tls # NoTls)
  /\ \/ ConnectNoSocket(Secure) /\ UNCHANGED <<tls, conns, talk>>
     \/ /\ mode = "real" /\ conns < MaxConns /\ conns' = conns + 1
        /\ \/ Gets(Secure, 0, FALSE, open) /\ UNCHANGED <<tls, talk>>
           \/ \E chain, name \in BOOLEAN :
                /\ Trusted(chain, name)
                /\ tls' = [fd |-> LowestFree, conn |-> conns + 1, unverified |-> insecure,
                           chain |-> chain, name |-> name]
                /\ Gets(Secure, LowestFree, FALSE, Dialled)
                /\ talk' = Says(tls, open')
  /\ UNCHANGED <<wifiVars, insecure>>

\* Mutant of Forgotten: the session outlives its socket.
Forgotten_Kept == tls

\* tls_.reset().
Forgotten == NoTls

\* stop(), which is also what a read() does at the end of the session's stream.
SecureStop ==
  /\ tls # NoTls \/ sock[Secure] # 0 \/ pretend[Secure]
  /\ talk' = Says(tls, open) /\ tls' = Forgotten
  /\ Gets(Secure, 0, FALSE, open)
  /\ UNCHANGED <<wifiVars, insecure, conns, renewed>>

\* read() and write() with a session; without one they are the base class's.
SecureTalk ==
  /\ tls # NoTls
  /\ talk' = Says(tls, open)
  /\ UNCHANGED <<wifiVars, open, sock, pretend, insecure, tls, conns, renewed>>

-----------------------------------------------------------------------------
NextNet ==
  \/ Associate \/ Disassociate \/ ScanNetworks \/ ScanDelete
  \/ SetInsecure \/ SecureConnect \/ SecureStop \/ SecureTalk
  \/ \E c \in Plain : PlainConnect(c) \/ PlainStop(c)
  \/ \E c \in Clients, d \in Plain : CopyClient(c, d)

SpecNet == InitNet /\ [][NextNet]_netVars

-----------------------------------------------------------------------------
(* Properties                                                              *)

NetTypeOK ==
  /\ mode \in {"fake", "fail", "real"} /\ left \in BOOLEAN
  /\ WifiStatus \in {"connected", "disconnected"}
  /\ rows \in {"none"} \cup RowSources
  /\ open \in [Fds -> 0 .. MaxConns] /\ sock \in [Clients -> Fds \cup {0}]
  /\ pretend \in [Clients -> BOOLEAN] /\ insecure \in BOOLEAN /\ renewed \in BOOLEAN
  /\ tls.fd \in Fds \cup {0} /\ tls.conn \in 0 .. MaxConns
  /\ conns \in 0 .. MaxConns

\* The peers whose certificate was verified, or was not to be, as the sketch had asked.
Vouched(s) == s.unverified \/ (s.chain /\ s.name)

\* What the secure client says by TLS reaches only the peer that its handshake was with, and
\* that peer's chain and host name were verified unless the sketch asked for neither
\* (Hostname verification, sim_wifi_secure.cpp lines 176-179): also when its socket was
\* closed, or copied, and its descriptor is another connection's by now.  The client has
\* no socket without a session.  All of this if the sketch calls stop() before it calls
\* connect() again.
SessionIsItsSockets ==
  /\ NetTypeOK
  /\ ~renewed =>
       /\ \A t \in talk : t[1] = t[2]
       /\ tls # NoTls => Vouched(tls) /\ sock[Secure] = tls.fd /\ open[tls.fd] = tls.conn
       /\ sock[Secure] # 0 => tls # NoTls
=============================================================================
