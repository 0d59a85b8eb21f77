-------------------------------- MODULE MCBst --------------------------------
(* Trees of up to MaxKey nodes. *)
EXTENDS Bst

CONSTANT MaxKey

MCKey == 1..MaxKey
MCAddress == 1..MaxKey + 1
=============================================================================
