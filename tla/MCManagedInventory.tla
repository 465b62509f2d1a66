------------------------- MODULE MCManagedInventory -------------------------
(* TLC instances of ManagedInventory.                                       *)
EXTENDS ManagedInventory
=============================================================================
