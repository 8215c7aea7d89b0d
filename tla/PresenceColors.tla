--------------------------- MODULE PresenceColors ---------------------------
(***************************************************************************)
(* Cursor colours by arrival order (createPresence in src/web/standalone/  *)
(* src/wasm/collab/presence.ts).  A client keeps the colour it claimed in  *)
(* another room, or takes that of another tab of its user, that of its     *)
(* user's comments, or the least used one it can see.  Of two users that   *)
(* end up with the same one, the one of the higher client id yields and    *)
(* claims again, and a second tab of a user takes the colour of the first. *)
(* There is no coordination: a claim is a field of the awareness state,    *)
(* relayed by awareness-bc.ts.                                             *)
(***************************************************************************)
EXTENDS Naturals, Sequences, FiniteSets

CONSTANTS
  Clients,      \* awareness client ids
  Identities,   \* the functions from clients to users that may occur
  Palette,      \* number of PRESENCE_COLORS
  Slots,        \* the colours of the comment authors, by user (seedColors)
  Carried,      \* colours a tab may have claimed in another room (g_claims)
  MaxInFlight   \* bound: states of one client queued for another

Colors == 0 .. Palette - 1
NoColor == Palette
Authors == DOMAIN Slots
Reserved == {Slots[a] : a \in Authors}

ASSUME ClientsAssumption == Clients \subseteq Nat /\ IsFiniteSet(Clients)
ASSUME IdentitiesAssumption == \A u \in Identities : DOMAIN u = Clients
ASSUME PaletteAssumption == Palette \in Nat \ {0} /\ Carried \subseteq Colors
ASSUME SlotsAssumption == IsFiniteSet(Authors) /\ Reserved \subseteq Colors

VARIABLES
  userOf,  \* userOf[c]: the signed-in user of a client
  phase,   \* "away", "open" (connected, no presence yet), "present" or "left"
  color,   \* color[c]: user.color of c's own state, NoColor when it has none
  view,    \* view[c][d]: the colour in d's state as c's awareness holds it
  inbox,   \* inbox[d][c]: states of d on their way to c
  heard    \* clients whose resolver has run (a change event since they claimed)

colorVars == <<userOf, phase, color, view, inbox, heard>>

ColorInit ==
  /\ userOf \in Identities
  /\ phase = [c \in Clients |-> "away"]
  /\ color = [c \in Clients |-> NoColor]
  /\ view = [c \in Clients |-> [d \in Clients |-> NoColor]]
  /\ inbox = [d \in Clients |-> [c \in Clients |-> <<>>]]
  /\ heard = {}

Connected(c) == phase[c] \in {"open", "present"}

\* The others whose state c sees, of c's user and of other users.
Seen(c, v) == {d \in Clients \ {c} : v[d] # NoColor}
Tabs(c, v) == {d \in Seen(c, v) : userOf[d] = userOf[c]}
Strangers(c, v) == Seen(c, v) \ Tabs(c, v)

-----------------------------------------------------------------------------
\* Usage of colour k among other users' clients and other comment authors.
Usage(c, v, k) ==
  Cardinality({d \in Strangers(c, v) : v[d] = k})
    + Cardinality({a \in Authors \ {userOf[c]} : Slots[a] = k})

\* Mutant: the first colour that is used at all counts as free.
FirstColor(c, v) == 0

LowestFreeColor(c, v) ==
  CHOOSE k \in Colors : \A j \in Colors :
     \/ Usage(c, v, k) < Usage(c, v, j)
     \/ Usage(c, v, k) = Usage(c, v, j) /\ k <= j

\* awareness.setLocalState: the new state goes to every other open tab.
Announced(c, k) ==
  [inbox EXCEPT ![c] = [d \in Clients |-> IF d # c /\ Connected(d) THEN Append(@[d], k)
                                                                   ELSE @[d]]]

HasRoom(c) == \A d \in Clients : Len(inbox[c][d]) < MaxInFlight

\* connectAwarenessBroadcast: the tabs on the channel answer the aw-query.
Open(c) ==
  /\ phase[c] = "away"
  /\ phase' = [phase EXCEPT ![c] = "open"]
  /\ inbox' = [d \in Clients |->
                 IF phase[d] = "present" THEN [inbox[d] EXCEPT ![c] = <<color[d]>>]
                                         ELSE inbox[d]]
  /\ UNCHANGED <<userOf, color, view, heard>>

\* What a tab with no earlier claim takes: the colour of another tab of its user, that
\* of its user's own comments, or the least used one.
FirstColors(c, v) ==
  IF Tabs(c, v) # {} THEN {v[d] : d \in Tabs(c, v)}
  ELSE IF userOf[c] \in Authors THEN {Slots[userOf[c]]}
  ELSE {LowestFreeColor(c, v)}

\* createPresence: an earlier claim is kept whoever holds the colour here.  The first
\* patch precedes awareness.on("change"): the resolver does not run on it.
Claim(c) ==
  /\ phase[c] = "open"
  /\ phase' = [phase EXCEPT ![c] = "present"]
  /\ \E k \in Carried \cup FirstColors(c, view[c]) :
       /\ color' = [color EXCEPT ![c] = k]
       /\ inbox' = Announced(c, k)
  /\ UNCHANGED <<userOf, view, heard>>

\* d holds c's colour and has the lower client id.
MustYield(c, v, d) == d \in Strangers(c, v) /\ v[d] = color[c] /\ d < c

\* Mutant: a second tab keeps the colour it has.
MustAdoptNever(c, v, d) == FALSE

\* Mutant: two tabs adopt each other's colour.
MustAdoptAlways(c, v, d) == d \in Tabs(c, v) /\ v[d] # color[c]

\* d is an older tab of c's user, in another colour.
MustAdopt(c, v, d) == d \in Tabs(c, v) /\ v[d] # color[c] /\ d < c

(***************************************************************************)
(* The awareness change event: one state is merged and, once presence is   *)
(* up, resolveCollision acts on the first state that calls for it (in the  *)
(* order of a Map, which is any order here).  A re-claim that ends on the  *)
(* same colour is announced too: its updatedAt makes it a new state.       *)
(***************************************************************************)
Deliver(d, c) ==
  /\ inbox[d][c] # <<>>
  /\ LET v == [view[c] EXCEPT ![d] = Head(inbox[d][c])]
         rest == [inbox EXCEPT ![d][c] = Tail(@)]
         Becomes(k) == /\ HasRoom(c)
                       /\ color' = [color EXCEPT ![c] = k]
                       /\ inbox' = [Announced(c, k) EXCEPT ![d][c] = Tail(@)]
     IN /\ view' = [view EXCEPT ![c] = v]
        /\ heard' = IF phase[c] = "present" THEN heard \cup {c} ELSE heard
        /\ \/ /\ phase[c] = "present"
              /\ \/ \E e \in Clients : MustAdopt(c, v, e) /\ Becomes(v[e])
                 \/ \E e \in Clients : MustYield(c, v, e) /\ Becomes(LowestFreeColor(c, v))
           \/ /\ phase[c] = "present" =>
                   ~\E e \in Clients : MustAdopt(c, v, e) \/ MustYield(c, v, e)
              /\ inbox' = rest
              /\ UNCHANGED color
  /\ UNCHANGED <<userOf, phase>>

\* Mutant: the local state outlives the presence.
LeaveUncleared(c) ==
  /\ phase[c] = "present" /\ HasRoom(c)
  /\ phase' = [phase EXCEPT ![c] = "left"]
  /\ inbox' = [d \in Clients |-> [inbox[d] EXCEPT ![c] = <<>>]]
  /\ UNCHANGED <<userOf, color, view, heard>>

\* destroy() or pagehide: the null state is announced, the channel closed.
Leave(c) ==
  /\ phase[c] = "present" /\ HasRoom(c)
  /\ phase' = [phase EXCEPT ![c] = "left"]
  /\ color' = [color EXCEPT ![c] = NoColor]
  /\ inbox' = [d \in Clients |-> [Announced(c, NoColor)[d] EXCEPT ![c] = <<>>]]
  /\ heard' = heard \ {c}
  /\ UNCHANGED <<userOf, view>>

ColorNext == \/ \E c \in Clients : Open(c) \/ Claim(c) \/ Leave(c)
             \/ \E c, d \in Clients : Deliver(d, c)

\* Awareness messages are delivered.
ColorFairness == \A c, d \in Clients : WF_colorVars(Deliver(d, c))

ColorSpec == ColorInit /\ [][ColorNext]_colorVars
FairColorSpec == ColorSpec /\ ColorFairness

-----------------------------------------------------------------------------
Quiet == \A c, d \in Clients : inbox[d][c] = <<>>

Present == {c \in Clients : phase[c] = "present"}
Users == {userOf[c] : c \in Present}

ColorTypeOK ==
  /\ userOf \in Identities
  /\ phase \in [Clients -> {"away", "open", "present", "left"}]
  /\ color \in [Clients -> Colors \cup {NoColor}]
  /\ view \in [Clients -> [Clients -> Colors \cup {NoColor}]]
  /\ inbox \in [Clients -> [Clients -> Seq(Colors \cup {NoColor})]]
  /\ heard \subseteq Present
  /\ \A c \in Clients : (color[c] # NoColor) <=> (c \in Present)

(***************************************************************************)
(* The resolver acts on one state an event and not on what its own claim   *)
(* brings about (resolvingCollision, :210), so it can leave a conflict it  *)
(* sees for "the next genuine delivery".                                   *)
(***************************************************************************)
Torn == {c \in Present :
           \E d \in Clients : MustAdopt(c, view[c], d) \/ MustYield(c, view[c], d)}

\* A tab that joined with a conflict it could see, on a colour it brought along or took
\* from its user's comments, and has heard nothing since.
Fresh == Torn \ heard

(***************************************************************************)
(* Once every claim has been seen, different users have different colours  *)
(* whenever the palette has enough for them and for the comment authors,   *)
(* whatever colours the tabs brought from other rooms, but for a tab that  *)
(* has not heard from anybody since it joined (the resolver is installed   *)
(* after the first patch, :190 and :283).                                  *)
(***************************************************************************)
DistinctUsers ==
  Quiet /\ Cardinality(Users) + Cardinality(Reserved) <= Palette
    => \A c, d \in Present \ Fresh : userOf[c] # userOf[d] => color[c] # color[d]

\* Violated: "N <= palette-size editors always get distinct colors" (:64).  A sticky
\* claim is published over the same colour of a stranger of a lower client id, which
\* need not yield, and nothing runs the resolver of the newcomer.
AlwaysDistinct ==
  Quiet /\ Cardinality(Users) + Cardinality(Reserved) <= Palette
    => \A c, d \in Present : userOf[c] # userOf[d] => color[c] # color[d]

(***************************************************************************)
(* Once every claim has been seen, all tabs of a user show one colour, but *)
(* for one tab at most of the whole room that is waiting for a delivery.   *)
(***************************************************************************)
OneColorPerUser ==
  Quiet => /\ \A c, d \in Torn : c = d
           /\ \A c, d \in Present \ Torn : userOf[c] = userOf[d] => color[c] = color[d]

\* Violated: a tab that waits need not get a delivery ("Same-user tabs converge the
\* other way", :202).
TabsConverge ==
  Quiet => \A c, d \in Present : userOf[c] = userOf[d] => color[c] = color[d]

(***************************************************************************)
(* The claims converge: resolving collisions ends, with no message left.   *)
(***************************************************************************)
ClaimsConverge == <>[]Quiet
=============================================================================
