-------------------------- MODULE MCUploadSessions --------------------------
(***************************************************************************)
(* Concurrent uploads of both versions, and the space admission that they  *)
(* share.  Each behaviour is of one of the three, so the state spaces add  *)
(* up instead of multiplying; the others keep one initial state.  Every    *)
(* key of a resumable upload is bound to the same target path, so that     *)
(* uploads compete for it.                                                 *)
(***************************************************************************)
EXTENDS UploadSessions, LegacyUploads, UploadSpace, TLC

CONSTANTS r1, r2, k1, k2, b1, t1

VARIABLE part

MCRequests == {r1, r2}
MCKeys == {k1, k2}
MCTargets == {t1}
MCTargetOf == [k \in Keys |-> t1]
MCOneBody == {b1}

Symmetry == Permutations(Requests) \union Permutations(Keys)

MCInit ==
  /\ part \in {"v1", "v2", "space"}
  /\ Init
  /\ LegacyInit /\ (part # "v1" => stagedChunks = Emptied /\ legacyTarget = 0)
  /\ SpaceInit /\ (part # "space" => freeBlocks = [d \in Disks |-> 0])

MCNext ==
  \/ part = "v1" /\ LegacyNext /\ UNCHANGED <<vars, spaceVars, part>>
  \/ part = "v2" /\ Next /\ UNCHANGED <<legacyVars, spaceVars, part>>
  \/ part = "space" /\ SpaceNext /\ UNCHANGED <<vars, legacyVars, part>>

MCSpec == MCInit /\ [][MCNext]_<<vars, legacyVars, spaceVars, part>>

=============================================================================
