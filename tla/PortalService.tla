---------------------------- MODULE PortalService ----------------------------
(***************************************************************************)
(* The public file service: its start, readiness and stop                  *)
(* (cmd/recasaos-public-files/serve.go), the requests of the portal        *)
(* (pkg/publicfiles/portal.go) and the writer that bounds the time of a    *)
(* download (pkg/publicfiles/server.go).                                   *)
(*                                                                         *)
(* net/http is external: Serve accepts until it fails or the server is     *)
(* shut down or closed, Shutdown waits for the connections, Close drops    *)
(* them, a write fails once its deadline has passed.  Time is a clock that *)
(* waits for a write whose deadline has come.                              *)
(***************************************************************************)
EXTENDS Integers, FiniteSets

CONSTANTS Connections,       \* connections, each with one request
          ConnectionLimit,\* maxActiveConnections
          DownloadSlots,  \* maxDownloads
          BodySize,       \* bytes of the served file
          Grace, Idle,    \* downloadMinimumRateGrace, downloadWriteIdleTimeout
          Rate,           \* downloadMinimumRate, bytes in a unit of time
          Credit,         \* maxDownloadDeadlineCreditBytes
          Horizon         \* bound: the clock

ASSUME PortalConstants ==
  /\ ConnectionLimit \in Nat /\ DownloadSlots \in Nat /\ BodySize \in Nat
  /\ Grace \in Nat \ {0} /\ Idle \in Nat \ {0} /\ Rate \in Nat \ {0}
  /\ Credit \in Nat /\ Horizon \in Nat

VARIABLES run,       \* where runServe stands
          term,      \* the context is cancelled
          serve,     \* the goroutine: "none", "running", "accepting", "returned"
          serveErr,  \* what Serve returned
          server,    \* "up", "shutdown" or "closed"
          portal,    \* "none", "open" or "closed"
          ready,     \* READY=1 was sent
          early,     \* stoppedBeforeTerm
          exit,      \* what runServe returned, or "running"
          handling,       \* request -> its handler
          clock

portalVars == <<run, term, serve, serveErr, server, portal, ready, early, exit, handling, clock>>
mainVars == <<run, term, serve, serveErr, server, portal, ready, early, exit>>

NoHandler == [pc |-> "none", kind |-> "file", bytes |-> 0, chunk |-> 0,
              started |-> 0, progress |-> 0, deadline |-> 0]

PortalInit ==
  /\ run = "validate" /\ term = FALSE
  /\ serve = "none" /\ serveErr = "none" /\ server = "up" /\ portal = "none"
  /\ ready = FALSE /\ early = FALSE /\ exit = "running"
  /\ handling = [r \in Connections |-> NoHandler]
  /\ clock = 0

Active == {r \in Connections : handling[r].pc \notin {"none", "over"}}
Slots  == {r \in Connections : handling[r].pc \in {"open", "header", "read", "deadline", "write"}}
Running == exit = "running"

(***************************************************************************)
(* runServe.                                                               *)
(***************************************************************************)
At(pc) == Running /\ run = pc
Goto(pc) == run' = pc /\ UNCHANGED <<portal, exit>>
ClosesPortal == portal' = "closed"
Exits(result) == exit' = result /\ run' = "exited"
Rest == <<handling, clock>>

OnlyProceeds == UNCHANGED <<term, serve, serveErr, server, ready, early>> /\ UNCHANGED Rest

\* ValidateServiceRuntime, then the legacy environment.
ValidateRuntime ==
  /\ At("validate") /\ (Goto("listener") \/ (Exits("error") /\ UNCHANGED portal)) /\ OnlyProceeds

\* Exactly one activated socket of the right name, kind and address; on any
\* error every descriptor is closed.
LoadListener ==
  /\ At("listener") /\ (Goto("portal") \/ (Exits("error") /\ UNCHANGED portal)) /\ OnlyProceeds

\* NewIsolated: configuration, bootstrap worker, verifier.
NewPortal ==
  /\ At("portal")
  /\ \/ run' = "start" /\ portal' = "open" /\ UNCHANGED exit
     \/ Exits("error") /\ UNCHANGED portal
  /\ OnlyProceeds

StartServing ==
  /\ At("start")
  /\ \/ ~term /\ serve' = "running" /\ Goto("awaitAccept")
     \/ term /\ UNCHANGED serve /\ ClosesPortal /\ (Exits("ok") \/ Exits("error"))
  /\ UNCHANGED <<term, serveErr, server, ready, early>> /\ UNCHANGED Rest

\* A Serve that returned before READY: the portal is closed and an error told.
FailsBeforeReady ==
  /\ serve = "returned" /\ ClosesPortal /\ Exits("error") /\ UNCHANGED server

AwaitAccept ==
  /\ At("awaitAccept")
  /\ \/ FailsBeforeReady
     \/ serve = "accepting" /\ Goto("check") /\ UNCHANGED server
     \/ term /\ server' = "closed" /\ Goto("stopUnready")
  /\ UNCHANGED <<term, serve, serveErr, ready, early>> /\ UNCHANGED Rest

\* The second look, at the result and then at the context.
CheckServing ==
  /\ At("check")
  /\ \/ FailsBeforeReady
     \/ serve # "returned" /\ term /\ server' = "closed" /\ Goto("stopUnready")
     \/ serve # "returned" /\ ~term /\ Goto("notify") /\ UNCHANGED server
  /\ UNCHANGED <<term, serve, serveErr, ready, early>> /\ UNCHANGED Rest

NotifyReady ==
  /\ At("notify")
  /\ \/ ready' = TRUE /\ Goto("serving") /\ UNCHANGED server
     \/ server' = "closed" /\ Goto("stopFailed") /\ UNCHANGED ready
  /\ UNCHANGED <<term, serve, serveErr, early>> /\ UNCHANGED Rest

\* stopUnreadyServer after server.Close: Serve's result or the timer.
StopUnready ==
  /\ run \in {"stopUnready", "stopFailed"} /\ Running
  /\ \/ /\ serve = "returned" /\ ClosesPortal
        /\ \/ Exits("error")
           \/ run = "stopUnready" /\ serveErr \in {"closed", "nil"} /\ Exits("ok")
     \/ serve # "returned" /\ Exits("error") /\ UNCHANGED portal
  /\ OnlyProceeds

AwaitTerm ==
  /\ At("serving")
  /\ serve = "returned" \/ term
  /\ early' = (serve = "returned" /\ ~term)
  /\ server' = "shutdown" /\ Goto("shutdown")
  /\ UNCHANGED <<term, serve, serveErr, ready>> /\ UNCHANGED Rest

ShutdownUnbounded ==
  /\ At("shutdown")
  /\ Active = {} /\ serve = "returned" /\ Goto("close") /\ UNCHANGED server
  /\ UNCHANGED <<term, serve, serveErr, ready, early>> /\ UNCHANGED Rest

\* Shutdown waits for every connection, or until its context expires; then the
\* server is closed by force and the portal left to the end of the process.
Shutdown ==
  /\ At("shutdown")
  /\ \/ Active = {} /\ serve = "returned" /\ Goto("close") /\ UNCHANGED server
     \/ server' = "closed" /\ Exits("error") /\ UNCHANGED portal
  /\ UNCHANGED <<term, serve, serveErr, ready, early>> /\ UNCHANGED Rest

ResultIgnoringEarlyStop(e) == serveErr = "closed"
HonestResult(e) == serveErr = "closed" /\ ~e

ClosePortal ==
  /\ At("close") /\ ClosesPortal
  /\ \/ HonestResult(early) /\ Exits("ok")
     \/ Exits("error")
  /\ OnlyProceeds

(***************************************************************************)
(* net/http and the world.                                                 *)
(***************************************************************************)
Terminate ==
  /\ Running /\ ~term /\ term' = TRUE
  /\ UNCHANGED <<run, serve, serveErr, server, portal, ready, early, exit>> /\ UNCHANGED Rest

\* Serve reaches Accept for the first time: acceptReadyListener.
ServeAccepts ==
  /\ Running /\ serve = "running" /\ server = "up" /\ serve' = "accepting"
  /\ UNCHANGED <<run, term, serveErr, server, portal, ready, early, exit>> /\ UNCHANGED Rest

ServeReturns ==
  /\ Running /\ serve \in {"running", "accepting"} /\ serve' = "returned"
  /\ serveErr' \in IF server = "up" THEN {"closed", "failed", "nil"} ELSE {"closed"}
  /\ UNCHANGED <<run, term, server, portal, ready, early, exit>> /\ UNCHANGED Rest

\* Only requests are timed: the clock stands while there is none.
Tick ==
  /\ Running /\ Active # {} /\ clock < Horizon /\ clock' = clock + 1
  /\ \A r \in Connections : handling[r].pc = "write" => clock < handling[r].deadline
  /\ UNCHANGED mainVars /\ UNCHANGED handling

(***************************************************************************)
(* Requests.                                                               *)
(***************************************************************************)
Handles(r, h) == Running /\ handling' = [handling EXCEPT ![r] = h] /\ UNCHANGED mainVars /\ UNCHANGED clock
Over(r) == [NoHandler EXCEPT !.pc = "over"]

\* LimitListener, then ServeHTTP; progressBoundedDownloadHandler starts its clock.
Accept(r, kind) ==
  /\ handling[r].pc = "none" /\ serve = "accepting" /\ server = "up"
  /\ Cardinality(Active) < ConnectionLimit
  /\ Handles(r, [NoHandler EXCEPT !.pc = "admit", !.kind = kind,
                                  !.started = clock, !.progress = clock])

\* Method, authorisation, query and path; then a download slot.
SlotFree == Cardinality(Slots) < DownloadSlots
Admit(r) ==
  /\ handling[r].pc = "admit" /\ handling[r].kind = "file"
  /\ \/ SlotFree /\ Handles(r, [handling[r] EXCEPT !.pc = "open"])
     \/ Handles(r, Over(r))

\* serveList and the assets: one answer, whatever storage says.
ServeList(r) == handling[r].pc = "admit" /\ handling[r].kind = "list" /\ Handles(r, Over(r))

\* storage.openRegular, which fails once the portal is closed.
OpenStorage(r) ==
  /\ handling[r].pc = "open"
  /\ \/ portal = "open" /\ Handles(r, [handling[r] EXCEPT !.pc = "header"])
     \/ Handles(r, Over(r))

\* progressBoundedWriter.WriteHeader: too late, and the status becomes an error
\* without a body.
WriteHeader(r) ==
  LET late == clock >= handling[r].progress + Idle
  IN /\ handling[r].pc = "header"
     /\ Handles(r, IF late THEN Over(r) ELSE [handling[r] EXCEPT !.pc = "read"])

\* ServeContent reads the next piece from the worker; a source that fails makes
\* serveFile abort the connection.
ReadBody(r) ==
  /\ handling[r].pc = "read"
  /\ \/ \E n \in 1 .. BodySize - handling[r].bytes :
           Handles(r, [handling[r] EXCEPT !.pc = "deadline", !.chunk = n])
     \/ Handles(r, Over(r))

CeilDiv(a, b) == (a + b - 1) \div b
Capped(n) == IF n > Credit THEN Credit ELSE n
RateDeadline(h, n) == h.started + Grace + CeilDiv(h.bytes + Capped(n), Rate)
Earlier(a, b) == IF a < b THEN a ELSE b

\* progressBoundedWriter.Write: an idle writer is refused, and the write must
\* end before the idle and the rate deadline.
SetDeadline(r) ==
  LET h == handling[r]
  IN /\ h.pc = "deadline"
     /\ \/ /\ clock < h.progress + Idle
           /\ Handles(r, [h EXCEPT !.pc = "write",
                            !.deadline = Earlier(clock + Idle, RateDeadline(h, h.chunk))])
        \/ clock >= h.progress + Idle /\ Handles(r, Over(r))

WriteBody(r) ==
  LET h == handling[r]
  IN /\ h.pc = "write"
     /\ \/ /\ clock < h.deadline /\ server # "closed"
           /\ Handles(r, [h EXCEPT !.pc = "read", !.bytes = @ + h.chunk, !.progress = clock,
                                   !.chunk = 0, !.deadline = 0])
        \/ Handles(r, Over(r))

RequestHandler(r) == \/ \E kind \in {"file", "list"} : Accept(r, kind)
              \/ Admit(r) \/ ServeList(r) \/ OpenStorage(r) \/ WriteHeader(r) \/ ReadBody(r) \/ SetDeadline(r) \/ WriteBody(r)

Main == \/ ValidateRuntime \/ LoadListener \/ NewPortal \/ StartServing \/ AwaitAccept \/ CheckServing \/ NotifyReady \/ StopUnready
        \/ AwaitTerm \/ Shutdown \/ ClosePortal

PortalNext == \/ Main \/ Terminate \/ ServeAccepts \/ ServeReturns \/ Tick
              \/ \E r \in Connections : RequestHandler(r)

PortalSpec == PortalInit /\ [][PortalNext]_portalVars /\ WF_portalVars(Main)

(***************************************************************************)
(* Properties.                                                             *)
(***************************************************************************)
\* Portal.Close is called only after the HTTP server has stopped accepting
\* requests, and after a graceful shutdown no handler is left to use it.
ClosedAfterServing ==
  portal = "closed" => /\ serve \in {"none", "returned"}
                       /\ server = "shutdown" => Active = {}

\* runServe reports success only for a stop that was asked for, with the
\* portal closed and the server ended.
SuccessMeansStopped ==
  exit = "ok" => term /\ portal = "closed" /\ serve \in {"none", "returned"} /\ ~early

\* A download keeps its minimum rate, whatever sizes of writes the copy makes:
\* the last byte was accepted within the grace plus the time that the accepted
\* bytes are worth; and a write that the client does not take is given up when
\* the budget with one credited write is spent, unless it was late when it
\* began, and then it is given up at once.
Budget(h, n) == h.started + Grace + CeilDiv(h.bytes + n, Rate)
RateKept ==
  \A r \in Connections :
     LET h == handling[r]
     IN /\ h.pc \in {"read", "deadline", "write"} => h.progress <= Budget(h, 0)
        /\ h.pc = "write" => clock <= Budget(h, Credit) \/ clock < h.progress + Idle

\* Once termination is requested the service ends, however many handlers hang.
TermEnds == term ~> exit # "running"

\* The service stops in order and says so, and a download keeps its pace.
PortalOrderly == ClosedAfterServing /\ SuccessMeansStopped /\ RateKept

=============================================================================
