--------------------------- MODULE GatewayStartup ---------------------------
(***************************************************************************)
(* The start of the main service (main.go) against the gateway it depends  *)
(* on: configuration, the authenticated client (pkg/gatewayclient), route  *)
(* registration, and the one-shot migration of a legacy HTTP port          *)
(* (pkg/config/persist.go, service/gateway_port.go), with gateway          *)
(* restarts, lost answers, late requests, panics and power loss.  systemd  *)
(* starts the service again whenever it ends (Restart=always).             *)
(***************************************************************************)
EXTENDS Naturals

CONSTANTS
  GatewayPorts,     \* ports the gateway may listen on
  LegacyPort,       \* the HttpPort an old configuration asks for
  NoPort,           \* the empty HttpPort
  RouteCount,       \* routes main registers
  BusTries,         \* attempts to register the event types
  MaxUpsets         \* bound: failures, restarts of the gateway, power losses

ASSUME PortsDiffer == LegacyPort \in GatewayPorts /\ NoPort \notin GatewayPorts
ASSUME CountsNatural == RouteCount \in Nat \ {0} /\ BusTries \in Nat \ {0} /\ MaxUpsets \in Nat

VARIABLES
  gwUp, gwStarts, gwPort,   \* the gateway: running, number of starts, its port
  late,                     \* a change request of an abandoned call is still pending
  confFile, confSafe,       \* HttpPort in the file, and what a power loss leaves
  httpPort,                 \* ServerInfo.HttpPort and the loaded INI
  bootStep,                     \* where main is
  gwCall,                   \* the management call in progress
  routed, busTried,         \* routes registered, registrations attempted
  owed,                     \* the gateway has not taken the legacy port yet
  upsets

gatewayVars == <<gwUp, gwStarts, gwPort, late, owed>>
confVars    == <<confFile, confSafe, httpPort>>
startupVars == <<gatewayVars, confVars, bootStep, gwCall, routed, busTried, upsets>>

NoGwCall == [kind |-> "none", step |-> "none", address |-> 0, token |-> 0]
GwCalls == [kind : {"none", "ping", "route", "change", "get"},
            step : {"none", "address", "token", "send", "wait"},
            address : 0 .. MaxUpsets + 1, token : 0 .. MaxUpsets + 1]

Boots == {"down", "config", "connect", "roots", "routes", "bus", "migrate",
          "stage", "publish", "sync", "announce", "serve"}

StartupTypeOK ==
  /\ gwUp \in BOOLEAN /\ gwStarts \in 0 .. MaxUpsets + 1 /\ gwPort \in GatewayPorts
  /\ late \in BOOLEAN /\ owed \in BOOLEAN
  /\ confFile \in {NoPort, LegacyPort} /\ confSafe \in {NoPort, LegacyPort}
  /\ httpPort \in {NoPort, LegacyPort}
  /\ bootStep \in Boots /\ gwCall \in GwCalls
  /\ routed \in 0 .. RouteCount /\ busTried \in 0 .. BusTries /\ upsets \in 0 .. MaxUpsets

StartupInit ==
  /\ gwUp = FALSE /\ gwStarts = 0 /\ gwPort \in GatewayPorts /\ late = FALSE
  /\ confFile \in {NoPort, LegacyPort} /\ confSafe = confFile /\ httpPort = NoPort
  /\ bootStep = "down" /\ gwCall = NoGwCall /\ routed = 0 /\ busTried = 0
  /\ owed = (confFile = LegacyPort /\ gwPort # LegacyPort)
  /\ upsets = 0

Upset == upsets < MaxUpsets /\ upsets' = upsets + 1

(* A panic, or an exit of main: the process state is gone. *)
Gone ==
  /\ bootStep' = "down" /\ gwCall' = NoGwCall /\ httpPort' = NoPort
  /\ routed' = 0 /\ busTried' = 0
  /\ late' = (late \/ (gwCall.kind = "change" /\ gwCall.step = "wait" /\ gwUp))

Panics == Gone /\ UNCHANGED <<gwUp, gwStarts, gwPort, owed, confFile, confSafe>>

CallStarts(kind) == gwCall' = [NoGwCall EXCEPT !.kind = kind, !.step = "address"]

----------------------------------------------------------------------------
(* initializeApplication: the optional credential is admitted or main ends. *)
AdmitCredential ==
  /\ bootStep = "down" /\ bootStep' = "config"
  /\ UNCHANGED <<gatewayVars, confVars, gwCall, routed, busTried, upsets>>

InitSetup ==
  /\ bootStep = "config"
  /\ bootStep' = "connect" /\ httpPort' = confFile /\ CallStarts("ping")
  /\ UNCHANGED <<gatewayVars, confFile, confSafe, routed, busTried, upsets>>

(* Opening the roots, the restoration of mounts, the routers, the listener. *)
OpenRoots ==
  /\ bootStep = "roots" /\ bootStep' = "routes" /\ CallStarts("route")
  /\ UNCHANGED <<gatewayVars, confVars, routed, busTried, upsets>>

(* Any step of the start may fail: main panics. *)
StartupFails ==
  /\ bootStep \in {"config", "connect", "roots"}
  /\ Upset /\ Panics

----------------------------------------------------------------------------
(* A management call: address and token are read from files that the       *)
(* gateway writes at each start, so they may be of different starts.       *)
WaitForAddress ==
  /\ gwCall.step = "address" /\ gwStarts > 0
  /\ gwCall' = [gwCall EXCEPT !.step = IF gwCall.kind = "ping" THEN "send" ELSE "token",
                              !.address = gwStarts]
  /\ UNCHANGED <<gatewayVars, confVars, bootStep, routed, busTried, upsets>>

ReadToken ==
  /\ gwCall.step = "token"
  /\ gwCall' = [gwCall EXCEPT !.step = "send", !.token = gwStarts]
  /\ UNCHANGED <<gatewayVars, confVars, bootStep, routed, busTried, upsets>>

(* What follows a call that succeeded, and one that did not. *)
Confirmed == bootStep' = "stage" /\ gwCall' = NoGwCall /\ UNCHANGED <<routed, busTried>>

CallSucceeds ==
  \/ /\ gwCall.kind = "ping" /\ bootStep' = "roots" /\ gwCall' = NoGwCall
     /\ UNCHANGED <<routed, busTried>>
  \/ /\ gwCall.kind = "route" /\ routed' = routed + 1
     /\ IF routed' = RouteCount THEN bootStep' = "bus" /\ gwCall' = NoGwCall
                                ELSE UNCHANGED bootStep /\ CallStarts("route")
     /\ UNCHANGED busTried
  \/ gwCall.kind = "change" /\ Confirmed

CallFails ==
  \/ /\ gwCall.kind = "change" /\ CallStarts("get")
     /\ late' = (late \/ (gwCall.step = "wait" /\ gwUp))
     /\ UNCHANGED <<gwUp, gwStarts, gwPort, owed, confVars, bootStep, routed, busTried>>
  \/ gwCall.kind # "change" /\ Panics

(* do: the address names no listener any more, or the token is refused. *)
SendRefused ==
  /\ gwCall.step = "send"
  /\ \/ ~gwUp
     \/ gwCall.address # gwStarts
     \/ gwCall.kind # "ping" /\ gwCall.token # gwStarts
  /\ CallFails /\ UNCHANGED upsets

SendCall ==
  /\ gwCall.step = "send" /\ gwUp /\ gwCall.address = gwStarts
  /\ gwCall.kind # "ping" => gwCall.token = gwStarts
  /\ gwCall' = [gwCall EXCEPT !.step = "wait"]
  /\ UNCHANGED <<gatewayVars, confVars, bootStep, routed, busTried, upsets>>

(* The answer is lost, late, or not the expected status. *)
AnswerLost ==
  /\ gwCall.step = "wait" /\ Upset
  /\ CallFails

(* The gateway answers.  It binds the new port before it leaves the old     *)
(* one, so that a change to the port it is on fails.                        *)
Serves(port) == gwPort' = port /\ owed' = (owed /\ port # LegacyPort)

CallAnswered ==
  /\ gwCall.step = "wait" /\ gwUp /\ gwCall.address = gwStarts
  /\ gwCall.kind \in {"ping", "route"} \/ (gwCall.kind = "change" /\ gwPort # LegacyPort)
  /\ IF gwCall.kind = "change" THEN Serves(LegacyPort) ELSE UNCHANGED <<gwPort, owed>>
  /\ CallSucceeds
  /\ UNCHANGED <<gwUp, gwStarts, late, confVars, upsets>>

SamePortPanics ==
  /\ gwCall.step = "wait" /\ gwCall.kind = "change" /\ gwUp /\ gwCall.address = gwStarts
  /\ gwPort = LegacyPort
  /\ Panics /\ UNCHANGED upsets
SamePortRefused ==
  /\ gwCall.step = "wait" /\ gwCall.kind = "change" /\ gwUp /\ gwCall.address = gwStarts
  /\ gwPort = LegacyPort
  /\ CallStarts("get")
  /\ UNCHANGED <<gatewayVars, confVars, bootStep, routed, busTried, upsets>>

(* EnsureGatewayPort confirms the port after a failed change. *)
ConfirmAnyPort ==
  /\ gwCall.step = "wait" /\ gwCall.kind = "get" /\ gwUp /\ gwCall.address = gwStarts
  /\ Confirmed
  /\ UNCHANGED <<gatewayVars, confVars, upsets>>
ConfirmPort ==
  /\ gwCall.step = "wait" /\ gwCall.kind = "get" /\ gwUp /\ gwCall.address = gwStarts
  /\ \/ gwPort = LegacyPort /\ Confirmed /\ UNCHANGED <<gatewayVars, confVars>>
     \/ gwPort # LegacyPort /\ Panics
  /\ UNCHANGED upsets

ConnectionLost ==
  /\ gwCall.step = "wait" /\ (~gwUp \/ gwCall.address # gwStarts)
  /\ CallFails /\ UNCHANGED upsets

----------------------------------------------------------------------------
(* Registration at the message bus is tried a number of times and dropped. *)
RegisterEventTypes ==
  /\ bootStep = "bus"
  /\ \/ bootStep' = "migrate" /\ UNCHANGED busTried
     \/ /\ busTried' = busTried + 1
        /\ bootStep' = IF busTried' = BusTries THEN "migrate" ELSE "bus"
  /\ UNCHANGED <<gatewayVars, confVars, gwCall, routed, upsets>>

MigrateLegacyHTTPPort ==
  /\ bootStep = "migrate" /\ gwCall.kind = "none"
  /\ IF httpPort = NoPort THEN bootStep' = "announce" /\ UNCHANGED gwCall
                          ELSE UNCHANGED bootStep /\ CallStarts("change")
  /\ UNCHANGED <<gatewayVars, confVars, routed, busTried, upsets>>

(* PersistHTTPPort(""): memory first, then the staged file, one rename and  *)
(* the sync of the directory.  A failure before the rename restores memory. *)
PersistHTTPPort ==
  /\ bootStep = "stage"
  /\ httpPort' = NoPort /\ bootStep' = "publish"
  /\ UNCHANGED <<gatewayVars, confFile, confSafe, gwCall, routed, busTried, upsets>>

PublishConfig ==
  /\ bootStep = "publish"
  /\ confFile' = httpPort /\ bootStep' = "sync"
  /\ UNCHANGED <<gatewayVars, confSafe, httpPort, gwCall, routed, busTried, upsets>>

SyncConfig ==
  /\ bootStep = "sync"
  /\ confSafe' = confFile /\ bootStep' = "announce"
  /\ UNCHANGED <<gatewayVars, confFile, httpPort, gwCall, routed, busTried, upsets>>

(* An error of either step is returned and main panics. *)
PersistFails ==
  /\ bootStep \in {"publish", "sync"} /\ Upset
  /\ Panics

Announce ==
  /\ bootStep = "announce" /\ bootStep' = "serve"
  /\ UNCHANGED <<gatewayVars, confVars, gwCall, routed, busTried, upsets>>

ServeEnds ==
  /\ bootStep = "serve" /\ Upset /\ Panics

----------------------------------------------------------------------------
(* The gateway and the machine. *)
GatewayStarts ==
  /\ ~gwUp /\ gwStarts <= MaxUpsets
  /\ gwUp' = TRUE /\ gwStarts' = gwStarts + 1
  /\ UNCHANGED <<gwPort, late, owed, confVars, bootStep, gwCall, routed, busTried, upsets>>

GatewayEnds ==
  /\ gwUp /\ Upset
  /\ gwUp' = FALSE /\ late' = FALSE
  /\ UNCHANGED <<gwStarts, gwPort, owed, confVars, bootStep, gwCall, routed, busTried>>

(* A change whose client gave up takes effect after all. *)
LateChange ==
  /\ late /\ late' = FALSE
  /\ Serves(LegacyPort)
  /\ UNCHANGED <<gwUp, gwStarts, confVars, bootStep, gwCall, routed, busTried, upsets>>

(* The gateway did change, and only its answer is lost. *)
ChangeUnanswered ==
  /\ gwCall.step = "wait" /\ gwCall.kind = "change" /\ gwUp /\ gwCall.address = gwStarts
  /\ Upset /\ Serves(LegacyPort) /\ CallStarts("get")
  /\ UNCHANGED <<gwUp, gwStarts, late, confVars, bootStep, routed, busTried>>

(* Somebody moves the gateway through its own API. *)
GatewayMoved ==
  /\ gwUp /\ Upset
  /\ \E p \in GatewayPorts \ {gwPort} : Serves(p)
  /\ UNCHANGED <<gwUp, gwStarts, late, confVars, bootStep, gwCall, routed, busTried>>

(* Either state of an unsynced rename may be the one found afterwards. *)
PowerLoss ==
  /\ Upset
  /\ confFile' \in {confFile, confSafe} /\ confSafe' = confFile'
  /\ bootStep' = "down" /\ gwCall' = NoGwCall /\ httpPort' = NoPort
  /\ routed' = 0 /\ busTried' = 0
  /\ gwUp' = FALSE /\ late' = FALSE
  /\ UNCHANGED <<gwStarts, gwPort, owed>>

ServiceSteps ==
  \/ AdmitCredential \/ InitSetup \/ OpenRoots
  \/ WaitForAddress \/ ReadToken \/ SendRefused \/ SendCall
  \/ CallAnswered \/ SamePortRefused \/ ConfirmPort \/ ConnectionLost
  \/ RegisterEventTypes \/ MigrateLegacyHTTPPort
  \/ PersistHTTPPort \/ PublishConfig \/ SyncConfig \/ Announce

StartupNext ==
  \/ ServiceSteps
  \/ StartupFails
  \/ AnswerLost
  \/ PersistFails
  \/ ServeEnds
  \/ GatewayStarts
  \/ GatewayEnds
  \/ LateChange
  \/ ChangeUnanswered
  \/ GatewayMoved
  \/ PowerLoss

StartupSpec == StartupInit /\ [][StartupNext]_startupVars

----------------------------------------------------------------------------
(* A legacy port is not forgotten before the gateway has taken it, whatever *)
(* fails on the way: MigrateLegacyHTTPPort clears the value only after the  *)
(* change or its confirmation.                                              *)
PortRemembered == owed => confFile = LegacyPort /\ confSafe = LegacyPort

(* "do not advertise Ready while the Gateway port and durable configuration *)
(* disagree": a service that announces itself has nothing left to migrate,  *)
(* its memory and its file agree, and every route is registered.            *)
ReadyMeansMigrated ==
  bootStep \in {"announce", "serve"} =>
    ~owed /\ confFile = NoPort /\ httpPort = NoPort /\ routed = RouteCount

(* The two promises of the start, over gateway restarts, lost answers, late *)
(* requests, failed writes and power loss.                                  *)
StartupSafe == PortRemembered /\ ReadyMeansMigrated

(* A start that has begun ends with a service that is ready, if need be     *)
(* after systemd has started it again: no combination of an applied change  *)
(* with a lost answer, a stale credential or a half-persisted configuration *)
(* keeps main from getting ready once failures stop (EnsureGatewayPort      *)
(* "makes the operation replay-safe").                                      *)
StartsAgain == bootStep = "config" ~> bootStep = "serve"

=============================================================================
