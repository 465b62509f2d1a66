----------------------------- MODULE MCLifecycles -----------------------------
(***************************************************************************)
(* What must come up and what must drain: the start of the main service,   *)
(* the storage workers of the public file service, a terminal session and  *)
(* the hub of the file WebSocket.  Each behaviour is one of the four, so   *)
(* the state spaces add up instead of multiplying; the others keep one     *)
(* initial state, in which they are idle.                                  *)
(***************************************************************************)
EXTENDS StorageWorkers, TerminalSession, PeerHub, GatewayStartup

VARIABLE part

lifecycleVars == <<vars, sessionVars, hubVars, startupVars, part>>

MCInit == /\ part \in {"workers", "session", "hub", "startup"} /\ Init /\ SessionInit /\ HubInit
          /\ StartupInit /\ (part # "startup" => confFile = NoPort /\ gwPort = LegacyPort)

MCNext ==
  /\ UNCHANGED part
  /\ \/ part = "workers" /\ Next /\ UNCHANGED <<sessionVars, hubVars, startupVars>>
     \/ part = "session" /\ SessionNext /\ UNCHANGED <<vars, hubVars, startupVars>>
     \/ part = "hub" /\ HubNext /\ UNCHANGED <<vars, sessionVars, startupVars>>
     \/ part = "startup" /\ StartupNext /\ UNCHANGED <<vars, sessionVars, hubVars>>

Starting == part = "startup" /\ UNCHANGED <<vars, sessionVars, hubVars, part>>

\* The fairness of the idle parts asks for nothing; a start is never idle.
MCSpec == /\ MCInit /\ [][MCNext]_lifecycleVars
          /\ Fairness /\ SessionFairness /\ HubFairness
          /\ WF_lifecycleVars(Starting /\ ServiceSteps) /\ WF_lifecycleVars(Starting /\ GatewayStarts)

=============================================================================
