--------------------------- MODULE MCSelectionLock --------------------------
(* SelectionLock for two or three tabs. *)
EXTENDS SelectionLock

TwoClients == 1..2
ThreeClients == 1..3
=============================================================================
