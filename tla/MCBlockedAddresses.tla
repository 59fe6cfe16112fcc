------------------------- MODULE MCBlockedAddresses -------------------------
(* Small instances of BlockedAddresses for TLC. *)
EXTENDS BlockedAddresses
=============================================================================
