---------------------------- MODULE MCLibraries -----------------------------
(* Libraries with two editors of one owner and two items.                  *)
EXTENDS Libraries
=============================================================================
