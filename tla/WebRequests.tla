----------------------------- MODULE WebRequests -----------------------------
(***************************************************************************)
(* Requests to a sketch's web server, from begin() to stop(): WebServer    *)
(* (runtime/src/sim_webserver.cpp), which keeps the request and the reply  *)
(* under way in members of its own behind request_mutex_, and              *)
(* AsyncWebServer (sim_asyncwebserver.cpp), which keeps them per request   *)
(* and a thread-local flag that a route has answered.  Event streams are   *)
(* EventSource's.                                                          *)
(*                                                                         *)
(* httplib::Server is external: a pool of threads reads requests, looks a  *)
(* route up, calls its handler, and before it sends a reply of 400 or more *)
(* calls the error handler; stop() does nothing before the accept loop;    *)
(* the loop ends when every pool thread is idle.                           *)
(***************************************************************************)
EXTENDS Naturals, FiniteSets

CONSTANTS
  Workers,     \* pool threads
  Requests,    \* requests that arrive, in any order
  None,        \* no request, no reply, no thread
  MaxStarts    \* bound on calls of begin()

ASSUME WebAssumption ==
  /\ IsFiniteSet(Workers) /\ IsFiniteSet(Requests) /\ MaxStarts \in Nat
  /\ None \notin Requests /\ None \notin Workers /\ "main" \notin Workers

VARIABLES
  kind,      \* the class of the server: "sync" or "async"
  notFound,  \* onNotFound() was called
  starts,    \* calls of begin() that bound the port
  main,      \* the sketch thread: "loop", "join" in stop(), "exit" in exit(), "ended"
  lib,       \* srv_: "down", "bound", "listening", "closing"
  running,   \* running_
  thread,    \* srv_thread_: "none", "up", "over" (to be joined)
  where,     \* each pool thread: "idle", "route", "enter", "run", "apply", "error", "send",
             \* "join" and "exit" as above
  phase,     \* the handler it runs: "route" or "notfound"
  req,       \* the request it has
  want,      \* what each request asks for: see Wants
  lock,      \* request_mutex_: the thread that holds it
  slot,      \* uri_, params_, headers_: the request they are of
  res,       \* res_status_, res_body_, res_headers_ of the synchronous server
  out,       \* httplib's Response of each pool thread
  handled,   \* tls_route_handled of each pool thread
  reply      \* what each request was answered

lifeVars == <<starts, main, lib, running, thread>>
slotVars == <<lock, slot, res>>
poolVars == <<where, phase, req, want, out, handled, reply>>
setup == <<kind, notFound>>
webVars == <<setup, lifeVars, slotVars, poolVars>>

\* serveStatic() and a handler that sends: 200, or 404 on purpose, there because the file
\* is not there.
Answering == {"ok", "deny"}

\* Routes: besides, a handler that throws, sends nothing, stops the server or restarts the
\* board; and a path without a route, a request that is no HTTP.
Matched == Answering \cup {"throw", "silent", "stop", "restart"}
Wants == Matched \cup {"unknown", "broken"}

\* status; who wrote the body, from which request; whose headers it carries.
Response(s, by, r, heads) == [status |-> s, by |-> by, of |-> r, heads |-> heads]
Blank == Response(200, "none", None, {})

InitWeb ==
  /\ kind \in {"sync", "async"} /\ notFound \in BOOLEAN
  /\ starts = 0 /\ main = "loop" /\ lib = "down" /\ running = FALSE /\ thread = "none"
  /\ where = [w \in Workers |-> "idle"] /\ phase = [w \in Workers |-> "route"]
  /\ req = [w \in Workers |-> None] /\ want = [r \in Requests |-> "none"]
  /\ lock = None /\ slot = None /\ res = Blank
  /\ out = [w \in Workers |-> Blank] /\ handled = [w \in Workers |-> FALSE]
  /\ reply = [r \in Requests |-> None]

Step(w, from, to) == where[w] = from /\ where' = [where EXCEPT ![w] = to]

-----------------------------------------------------------------------------
(* The server's life                                                       *)

\* start(): nothing while it runs; a port that is taken changes nothing.
BeginServer ==
  /\ main = "loop" /\ ~running /\ starts < MaxStarts
  /\ starts' = starts + 1
  /\ lib' = "bound" /\ running' = TRUE /\ thread' = "up"
  /\ UNCHANGED <<setup, main, slotVars, poolVars>>

ServerListens ==
  /\ lib = "bound"
  /\ lib' = "listening"
  /\ UNCHANGED <<setup, starts, main, running, thread, slotVars, poolVars>>

\* The accept loop ends, the pool is joined, the thread clears running_.
ServerEnds ==
  /\ lib = "closing" /\ \A w \in Workers : where[w] = "idle"
  /\ lib' = "down" /\ running' = FALSE /\ thread' = "over"
  /\ UNCHANGED <<setup, starts, main, slotVars, poolVars>>

\* srv_.stop().
Closed(l) == IF l = "listening" THEN "closing" ELSE l

\* stop() by the sketch thread, up to the join.
CallStop ==
  /\ main = "loop" /\ (running \/ thread # "none")
  /\ lib' = Closed(lib) /\ main' = "join"
  /\ UNCHANGED <<setup, starts, running, thread, slotVars, poolVars>>

\* ESP.restart() there: exit() destroys the server, which stops it.
CallRestart ==
  /\ main = "loop"
  /\ IF running \/ thread # "none"
       THEN lib' = Closed(lib) /\ main' = "exit"
       ELSE main' = "ended" /\ UNCHANGED lib
  /\ UNCHANGED <<setup, starts, running, thread, slotVars, poolVars>>

\* join() has returned: stop() does, and exit() ends the process.
JoinServer ==
  /\ main \in {"join", "exit"} /\ thread = "over"
  /\ thread' = "none" /\ running' = FALSE
  /\ main' = IF main = "join" THEN "loop" ELSE "ended"
  /\ UNCHANGED <<setup, starts, lib, slotVars, poolVars>>

-----------------------------------------------------------------------------
(* A pool thread                                                           *)

TakeRequest(w, r) ==
  /\ lib = "listening" /\ want[r] = "none"
  /\ Step(w, "idle", "route")
  /\ want' \in {[want EXCEPT ![r] = x] : x \in Wants}
  /\ req' = [req EXCEPT ![w] = r]
  /\ out' = [out EXCEPT ![w] = Blank]
  /\ UNCHANGED <<setup, lifeVars, slotVars, phase, handled, reply>>

\* The pre-routing handler of the asynchronous server, not reached by a broken request.
PreRouting(w) ==
  IF kind = "async" /\ want[req[w]] # "broken" THEN [handled EXCEPT ![w] = FALSE] ELSE handled

RouteRequest(w) ==
  /\ where[w] = "route"
  /\ Step(w, "route", IF want[req[w]] \in Matched THEN "enter" ELSE "error")
  /\ handled' = PreRouting(w)
  /\ phase' = [phase EXCEPT ![w] = "route"]
  /\ out' = [out EXCEPT ![w].status = CASE want[req[w]] = "broken" -> 400
                                       [] want[req[w]] = "unknown" -> 404
                                       [] OTHER -> @]
  /\ UNCHANGED <<setup, lifeVars, slotVars, req, want, reply>>

\* Mutant of EnterHandler: the request's state is set without the mutex.
EnterHandler_Unlocked(w) ==
  /\ Step(w, "enter", "run")
  /\ IF kind = "sync"
       THEN lock' = w /\ slot' = req[w] /\ res' = Blank
       ELSE UNCHANGED slotVars
  /\ UNCHANGED <<setup, lifeVars, phase, req, want, out, handled, reply>>

\* lock_guard, populate_from(), reset_response(); or an AsyncReqState of its own.
EnterHandler(w) ==
  /\ Step(w, "enter", "run")
  /\ IF kind = "sync"
       THEN lock = None /\ lock' = w /\ slot' = req[w] /\ res' = Blank
       ELSE UNCHANGED slotVars
  /\ UNCHANGED <<setup, lifeVars, phase, req, want, out, handled, reply>>

\* send(), sendHeader() and their like, called for request r with reply x.
Send(x, s, by, r) == Response(s, by, r, x.heads \cup {by})

\* The request that arg(), header() and uri() tell the handler of: the synchronous server's
\* members have it, the asynchronous handler is given it.
MembersArg == slot
OwnArg(w) == req[w]
Arg(w) == IF kind = "sync" THEN MembersArg ELSE OwnArg(w)

\* What the sketch's handler leaves as the reply, x being there before.  A handler that
\* throws leaves 500; the asynchronous server makes 404 of every reply that was not sent,
\* that one included.
Outcome(w, x) ==
  LET by == phase[w]
  IN CASE by = "notfound" -> Send(x, 404, by, Arg(w))
       [] by = "route" /\ want[req[w]] = "deny" -> Send(x, 404, by, Arg(w))
       [] by = "route" /\ want[req[w]] = "throw" ->
            Response(IF kind = "sync" THEN 500 ELSE 404, "error", x.of, x.heads)
       [] by = "route" /\ want[req[w]] = "silent" ->
            [x EXCEPT !.status = IF kind = "sync" THEN @ ELSE 404]
       [] OTHER -> Send(x, 200, by, Arg(w))

\* The synchronous server's send() and arg() work on the members; the reply is copied from
\* them afterwards.  The asynchronous handler writes httplib's response.
RunHandler(w) ==
  /\ where[w] = "run"
  /\ phase[w] = "notfound" \/ want[req[w]] \notin {"stop", "restart"}
  /\ IF kind = "sync"
       THEN /\ Step(w, "run", "apply")
            /\ res' = Outcome(w, res)
            /\ UNCHANGED <<out, handled>>
       ELSE /\ Step(w, "run", IF phase[w] = "route" THEN "error" ELSE "send")
            /\ out' = [out EXCEPT ![w] = Outcome(w, @)]
            /\ handled' = IF phase[w] = "route" THEN [handled EXCEPT ![w] = TRUE] ELSE handled
            /\ UNCHANGED res
  /\ UNCHANGED <<setup, lifeVars, lock, slot, phase, req, want, reply>>

\* The handler calls stop(), or ESP.restart() and with it exit() and the destructors: the
\* join waits for the server's thread, which waits for this one.
StopInHandler(w) ==
  /\ where[w] = "run" /\ phase[w] = "route" /\ want[req[w]] \in {"stop", "restart"}
  /\ Step(w, "run", IF want[req[w]] = "stop" THEN "join" ELSE "exit")
  /\ lib' = Closed(lib)
  /\ UNCHANGED <<setup, starts, main, running, thread, slotVars, phase, req, want, out,
                 handled, reply>>

\* Mutant of ApplyReply: the mutex is still held.
ApplyReply_Locked(w) ==
  /\ Step(w, "apply", IF phase[w] = "route" THEN "error" ELSE "send")
  /\ out' = [out EXCEPT ![w] = [res EXCEPT !.heads = @ \cup out[w].heads]]
  /\ UNCHANGED <<setup, lifeVars, slotVars, phase, req, want, handled, reply>>

\* apply_to(), and the mutex is released; headers are added to those that are there.
ApplyReply(w) ==
  /\ Step(w, "apply", IF phase[w] = "route" THEN "error" ELSE "send")
  /\ out' = [out EXCEPT ![w] = [res EXCEPT !.heads = @ \cup out[w].heads]]
  /\ lock' = None
  /\ UNCHANGED <<setup, lifeVars, slot, res, phase, req, want, handled, reply>>

\* The error handler's test: the synchronous server's does not know who said 404.
IsNotFound(w) ==
  notFound /\ out[w].status = 404 /\ (kind = "async" => ~handled[w])

ErrorHandler(w) ==
  /\ Step(w, "error", IF IsNotFound(w) THEN "enter" ELSE "send")
  /\ phase' = IF IsNotFound(w) THEN [phase EXCEPT ![w] = "notfound"] ELSE phase
  /\ UNCHANGED <<setup, lifeVars, slotVars, req, want, out, handled, reply>>

SendReply(w) ==
  /\ Step(w, "send", "idle")
  /\ reply' = [reply EXCEPT ![req[w]] = out[w]]
  /\ req' = [req EXCEPT ![w] = None]
  /\ UNCHANGED <<setup, lifeVars, slotVars, phase, want, out, handled>>

Work(w) ==
  \/ RouteRequest(w) \/ EnterHandler(w) \/ RunHandler(w) \/ StopInHandler(w)
  \/ ApplyReply(w) \/ ErrorHandler(w) \/ SendReply(w)

-----------------------------------------------------------------------------
NextWeb ==
  /\ main # "ended"
  /\ \/ BeginServer \/ ServerListens \/ ServerEnds \/ CallStop \/ CallRestart \/ JoinServer
     \/ \E w \in Workers : Work(w) \/ \E r \in Requests : TakeRequest(w, r)

\* Every thread runs and handlers return.  Weak fairness will do for the mutex: requests
\* are bounded.
FairWeb ==
  /\ WF_webVars(ServerListens) /\ WF_webVars(ServerEnds) /\ WF_webVars(JoinServer)
  /\ \A w \in Workers : WF_webVars(Work(w))

SpecWeb == InitWeb /\ [][NextWeb]_webVars /\ FairWeb

-----------------------------------------------------------------------------
(* Properties                                                              *)

Responses ==
  [status : {200, 400, 404, 500}, by : {"none", "route", "notfound", "error"},
   of : Requests \cup {None}, heads : SUBSET {"route", "notfound"}]

WebTypeOK ==
  /\ kind \in {"sync", "async"} /\ notFound \in BOOLEAN /\ running \in BOOLEAN
  /\ starts \in 0 .. MaxStarts /\ main \in {"loop", "join", "exit", "ended"}
  /\ lib \in {"down", "bound", "listening", "closing"} /\ thread \in {"none", "up", "over"}
  /\ where \in [Workers -> {"idle", "route", "enter", "run", "apply", "error", "send",
                            "join", "exit"}]
  /\ phase \in [Workers -> {"route", "notfound"}]
  /\ req \in [Workers -> Requests \cup {None}] /\ want \in [Requests -> Wants \cup {"none"}]
  /\ lock \in Workers \cup {None} /\ slot \in Requests \cup {None} /\ res \in Responses
  /\ out \in [Workers -> Responses] /\ handled \in [Workers -> BOOLEAN]
  /\ reply \in [Requests -> Responses \cup {None}]

Routed(s, r) == Response(s, "route", r, {"route"})
Failed(s, by) == Response(s, by, None, {})

\* What a request is owed, whatever else is being answered at the time.
Due(r) ==
  CASE want[r] = "ok" -> Routed(200, r)
    [] want[r] = "deny" -> Routed(404, r)
    [] want[r] = "throw" -> Failed(IF kind = "sync" THEN 500 ELSE 404, "error")
    [] want[r] = "silent" -> Failed(IF kind = "sync" THEN 200 ELSE 404, "none")
    [] want[r] = "unknown" /\ notFound -> Response(404, "notfound", r, {"notfound"})
    [] want[r] = "unknown" /\ ~notFound -> Failed(404, "none")
    [] want[r] = "broken" -> Failed(400, "none")
    [] OTHER -> Blank

\* A route of the synchronous server that answers 404 itself is taken for no route.
Overruled(r) == kind = "sync" /\ notFound /\ want[r] = "deny"

\* Requests answered at once by several threads do not mix: status, body and headers of a
\* reply are those of the one handler that its request belongs to, run on the arguments
\* of that request (request_mutex_ and the members behind it; tls_route_handled).
ReplyIsOwn ==
  \A r \in Requests : reply[r] # None /\ ~Overruled(r) => reply[r] = Due(r)

InHandler(w) == where[w] \in {"join", "exit"}

\* stop() of a listening server returns to the sketch, if no handler stops it as well.
StopServerReturns ==
  (main = "join" /\ lib = "closing") ~>
    (main # "join" \/ \E w \in Workers : InHandler(w))

Restarting == main = "exit" \/ \E w \in Workers : where[w] = "exit"

\* ESP.restart(): "In the sim we exit with a distinctive status code so the launcher can
\* show 'sketch requested restart'" (sim_misc.cpp lines 15-17): the process ends, also if
\* it is the handler of a request that restarts the board.
RestartExits == Restarting ~> (main = "ended")
=============================================================================
