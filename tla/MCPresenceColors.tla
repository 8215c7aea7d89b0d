-------------------------- MODULE MCPresenceColors --------------------------
(* PresenceColors for three clients of two or three users, some of which     *)
(* bring a colour from another room, and a crowded room.                     *)
EXTENDS PresenceColors, TLC

ThreeClients == 1..3
FourClients == 1..4
EachAUser == [c \in Clients |-> c]
FirstAndLast == [c \in Clients |-> IF c = 3 THEN 1 ELSE c]
SomeShared == {EachAUser, FirstAndLast}
NoneShared == {EachAUser}
\* User 1 has commented in the first colour.
OneAuthor == 1 :> 0
NoSlots == <<>>
FirstAndLastColor == {0, Palette - 1}
NoColors == {}

(* A crowded room: clients 1 and 2 have settled on the two colours, 3 and  *)
(* 4 have connected and see them, and nobody leaves.                       *)
Settled == {1, 2}
CrowdInit ==
  /\ userOf \in Identities
  /\ phase = [c \in Clients |-> IF c \in Settled THEN "present" ELSE "open"]
  /\ color = [c \in Clients |-> IF c \in Settled THEN c - 1 ELSE NoColor]
  /\ view = [c \in Clients |-> [d \in Clients |->
               IF d \in Settled \ {c} THEN d - 1 ELSE NoColor]]
  /\ inbox = [d \in Clients |-> [c \in Clients |-> <<>>]]
  /\ heard = Settled

CrowdNext == \/ \E c \in Clients : Claim(c)
             \/ \E c, d \in Clients : Deliver(d, c)

CrowdSpec == CrowdInit /\ [][CrowdNext]_colorVars /\ ColorFairness
=============================================================================
