---------------------------- MODULE MCCollabSync ----------------------------
(* CollabSync for two editors, with client ids 1 and 2. *)
EXTENDS CollabSync

CONSTANTS own1, own2, shared

TwoEditors == {1, 2}
ThreeItems == {own1, own2, shared}
OneItem == {shared}

\* Each user has an item of their own, and both edit the third.
Mixed == [i \in ThreeItems |->
            CASE i = own1 -> {1} [] i = own2 -> {2} [] OTHER -> TwoEditors]
Contended == [i \in OneItem |-> TwoEditors]

Visible == {"visible"}
=============================================================================
