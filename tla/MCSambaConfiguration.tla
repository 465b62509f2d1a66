------------------------- MODULE MCSambaConfiguration -------------------------
(***************************************************************************)
(* The Samba configuration: the share service and the publication of one   *)
(* file that it relies on.  Each behaviour runs one of the two, so the     *)
(* state spaces add up instead of multiplying; the other keeps one initial *)
(* state.                                                                  *)
(***************************************************************************)
EXTENDS SambaShares, SambaConfigPublish

VARIABLE part

SharesStill == main = "managed" /\ accounts = {}
SharesStart == main # "managed" => accounts = {}
PublishStill == name["target"] = 1 /\ \A n \in PublishNames \ {"target"} : name[n] = Nowhere

MCInit ==
  /\ part \in {"shares", "publish"}
  /\ Init /\ SharesStart /\ (part # "shares" => SharesStill)
  /\ PublishInit /\ (part # "publish" => PublishStill)

MCNext ==
  \/ part = "shares" /\ Next /\ UNCHANGED <<publishVars, part>>
  \/ part = "publish" /\ PublishNext /\ UNCHANGED <<vars, part>>

MCSpec == MCInit /\ [][MCNext]_<<vars, publishVars, part>>

=============================================================================
