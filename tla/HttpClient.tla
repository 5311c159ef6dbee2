----------------------------- MODULE HttpClient -----------------------------
(***************************************************************************)
(* An HTTPClient that a sketch uses again and again                        *)
(* (runtime/src/sim_http.cpp, shims/HTTPClient.h): begin(), headers, a     *)
(* request, its body as a string or as a stream, end(), in any order.      *)
(* BOARDGHOST_NET (sim_net.cpp) says whether a request is answered, fails  *)
(* or goes out by libcurl, which is external: it answers with any status   *)
(* and body, or fails with a part of the body delivered.                   *)
(***************************************************************************)
EXTENDS Integers, Sequences

CONSTANTS
  MaxHeaders,    \* the size of hdr_lines_
  Pieces,        \* the calls of curl_write_cb that make a whole body
  MaxBegins, MaxRequests   \* bounds on the calls

ASSUME HttpAssumption ==
  MaxHeaders \in Nat /\ Pieces \in Nat \ {0} /\ MaxBegins \in Nat /\ MaxRequests \in Nat

VARIABLES
  net,       \* sim_net_mode()
  url,       \* url_: the call of begin() it is of, 0 if it is empty
  headers,   \* hdr_lines_ and auth_header_: the call of begin() each was added after
  body,      \* body_: the request each piece is of
  code,      \* last_code_: "ok", "error" for 400 and more, "refused", "unconnected", "none"
  live,      \* connected_
  begins, requests,   \* calls so far
  text,      \* history: the last answer has no zero byte
  ownHeaders,  \* history: whether the last request carried only headers of its own begin()
  looked     \* history: times connected() was true since getStreamPtr()

httpVars == <<net, url, headers, body, code, live, begins, requests, text, ownHeaders, looked>>

InitHttp ==
  /\ net \in {"fake", "fail", "real"}
  /\ url = 0 /\ headers = <<>> /\ body = <<>> /\ code = "unconnected" /\ live = FALSE
  /\ begins = 0 /\ requests = 0 /\ text = TRUE /\ ownHeaders = TRUE /\ looked = 0

\* hdr_count_ = 0.
Reset == <<>>

\* begin(), also with an empty URL; connected_ is left alone.
BeginUrl ==
  /\ begins < MaxBegins /\ begins' = begins + 1
  /\ url' \in {0, begins + 1}
  /\ headers' = Reset /\ body' = <<>> /\ code' = "none"
  /\ UNCHANGED <<net, live, requests, text, ownHeaders, looked>>

\* addHeader() and setAuthorization(); a header too many is dropped.
AddHeader ==
  /\ Len(headers) < MaxHeaders
  /\ headers' = Append(headers, begins)
  /\ UNCHANGED <<net, url, body, code, live, begins, requests, text, ownHeaders, looked>>

EndHttp ==
  /\ body' = <<>> /\ code' = "unconnected"
  /\ UNCHANGED <<net, url, headers, live, begins, requests, text, ownHeaders, looked>>

\* Mutant of Before: the body is not cleared for libcurl.
Before_Kept == body

\* What do_request() leaves of the last body before a transfer.
Before == <<>>

\* curl_write_cb(): each piece is appended as a C string, so a zero byte loses what is
\* behind it, or the piece.
Received(n, txt) ==
  {Before \o [i \in 1 .. k |-> requests + 1] : k \in IF txt THEN {n} ELSE 0 .. n}

\* GET(), POST(), PUT(), DELETE(): one do_request().
Request ==
  /\ requests < MaxRequests /\ requests' = requests + 1
  /\ ownHeaders' = (url # 0 => \A i \in 1 .. Len(headers) : headers[i] = begins)
  /\ IF url # 0 /\ net = "real"
       THEN /\ text' \in BOOLEAN
            /\ \/ code' \in {"ok", "error"} /\ body' \in Received(Pieces, text')
               \/ code' = "refused" /\ \E n \in 0 .. Pieces : body' \in Received(n, text')
       ELSE /\ code' = CASE url = 0 -> "unconnected" [] net = "fake" -> "ok" [] OTHER -> "refused"
            /\ body' = IF url = 0 THEN body ELSE Before
            /\ UNCHANGED text
  /\ UNCHANGED <<net, url, headers, live, begins, looked>>

GetStream ==
  /\ live' = (code = "ok") /\ looked' = 0
  /\ UNCHANGED <<net, url, headers, body, code, begins, requests, text, ownHeaders>>

\* connected() clears what it returns.
StillLive == FALSE

Look ==
  /\ live /\ looked < 2
  /\ looked' = looked + 1 /\ live' = StillLive
  /\ UNCHANGED <<net, url, headers, body, code, begins, requests, text, ownHeaders>>

NextHttp == BeginUrl \/ AddHeader \/ EndHttp \/ Request \/ GetStream \/ Look

SpecHttp == InitHttp /\ [][NextHttp]_httpVars

-----------------------------------------------------------------------------
HttpTypeOK ==
  /\ net \in {"fake", "fail", "real"} /\ url \in 0 .. MaxBegins
  /\ headers \in Seq(0 .. MaxBegins) /\ Len(headers) <= MaxHeaders
  /\ body \in Seq(1 .. MaxRequests)
  /\ code \in {"ok", "error", "refused", "unconnected", "none"}
  /\ {live, text, ownHeaders} \subseteq BOOLEAN /\ looked \in 0 .. 2
  /\ begins \in 0 .. MaxBegins /\ requests \in 0 .. MaxRequests

\* However a client is used again: the body it hands out is the last request's, whole if
\* that one succeeded and its body is text, and never one that libcurl appended to another;
\* no header of an earlier begin() is sent; and a download loop on connected() ends.
AnswersAreOwn ==
  /\ HttpTypeOK
  /\ body # <<>> => body \in [1 .. Len(body) -> {requests}] /\ Len(body) <= Pieces
  /\ code \in {"ok", "error"} /\ net = "real" /\ text => Len(body) = Pieces
  /\ ownHeaders
  /\ looked <= 1
=============================================================================
