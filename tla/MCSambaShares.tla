-------------------------- MODULE MCSambaShares -----------------------------
(* Small instances of the share service: a managed host and a migrating one. *)
EXTENDS SambaShares
=============================================================================
