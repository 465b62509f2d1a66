------------------------------ MODULE MCNetwork ------------------------------
(***************************************************************************)
(* What the host shares with other machines: connections to Samba servers, *)
(* cloud mounts, and the public file service above its pool of workers (a  *)
(* worker's dialogue, the HTTP service, the loading of the verifier).      *)
(* Each behaviour is one of the five, so the state spaces add up instead   *)
(* of multiplying; the others keep one initial state.                      *)
(***************************************************************************)
EXTENDS SambaConnections, CloudMounts, WorkerDialogue, PortalService, VerifierLoad

VARIABLE part

networkVars == <<connectionVars, cloudVars, dialogueVars, portalVars, verifierVars, part>>
MCShares == <<"docs", "music", "admin$">>
MCHidden == {"admin$"}

CloudStill == config = "absent" /\ kernel = "none" /\ listed = "none" /\ ~files
\* The verifier's files while another part is examined.
VerifierStill == /\ disk = [i \in Files |-> [content |-> "malformed", stamp |-> 0, links |-> 1, private |-> TRUE]]
                 /\ path = CHOOSE i \in Files : TRUE
                 /\ loader = Fresh /\ current = "none" /\ changes = 0

MCInit ==
  /\ part \in {"connections", "cloud", "dialogue", "portal", "verifier"}
  /\ ConnectionsInit /\ (part # "connections" => row = NoConnection)
  /\ CloudInit /\ (part # "cloud" => CloudStill)
  /\ DialogueInit /\ (part # "dialogue" => mode = "list")
  /\ PortalInit
  /\ IF part = "verifier" THEN VerifierInit ELSE VerifierStill

MCNext ==
  /\ UNCHANGED part
  /\ \/ part = "connections" /\ ConnectionsNext /\ UNCHANGED <<cloudVars, dialogueVars, portalVars, verifierVars>>
     \/ part = "cloud" /\ CloudNext /\ UNCHANGED <<connectionVars, dialogueVars, portalVars, verifierVars>>
     \/ part = "dialogue" /\ DialogueNext /\ UNCHANGED <<connectionVars, cloudVars, portalVars, verifierVars>>
     \/ part = "portal" /\ PortalNext /\ UNCHANGED <<connectionVars, cloudVars, dialogueVars, verifierVars>>
     \/ part = "verifier" /\ VerifierNext /\ UNCHANGED <<connectionVars, cloudVars, dialogueVars, portalVars>>

Connecting == part = "connections" /\ UNCHANGED <<cloudVars, dialogueVars, portalVars, verifierVars, part>>

\* Fairness of SambaConnections and of PortalService, in the sum.
MCSpec ==
  /\ MCInit /\ [][MCNext]_networkVars
  /\ WF_networkVars(Connecting /\ ServiceRuns)
  /\ WF_networkVars(Connecting /\ UserDeletes)
  /\ WF_networkVars(part = "portal" /\ Main /\ UNCHANGED <<connectionVars, cloudVars, dialogueVars, verifierVars, part>>)

===============================================================================
