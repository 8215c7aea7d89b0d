----------------------------- MODULE RoomsProofs -----------------------------
(***************************************************************************)
(* The warm pool, for any set of sheets and any number of navigations and  *)
(* failures: one binding at most, on the sheet shown, current, in every    *)
(* roster, and nothing left open by a destroy().  Below it the colours the *)
(* clients of a room claim, for any of them and any palette.               *)
(***************************************************************************)
EXTENDS SheetManager, PresenceColors, SequenceTheorems, FiniteSetTheorems,
        WellFoundedInduction, TLAPS

-----------------------------------------------------------------------------
(* The inductive invariant.  What it says of the rooms is stated of any    *)
(* rooms r with the sheet s active, since a switch parks one room and      *)
(* binds another in one step.                                              *)

\* A room that is not connected is blank; a binding it holds observes its doc.
Sound(r) == \A t \in Sheets :
  /\ r[t].conn # "ready" =>
       r[t].live = 0 /\ ~r[t].held /\ ~r[t].seeded /\ ~r[t].matches
  /\ r[t].held => r[t].live > 0

\* The active room alone is bound, once.
Lone(r, s) == \A t \in Sheets : /\ r[t].live = IF s = t THEN 1 ELSE 0
                                /\ r[t].held => s = t

\* What a room holds and the editor does not show will not be taken for known:
\* a parked room is watched, so it is dirty; one not seeded yet does not match.
Current(r, s) == \A t \in Sheets :
  /\ s = t => ~r[t].behind /\ r[t].seeded
  /\ r[t].seeded => s = t \/ r[t].watch
  /\ r[t].behind => IF r[t].seeded THEN r[t].dirty ELSE ~r[t].matches
  /\ r[t].matches => t \in Entry

\* Every connected room's awareness names s.
Rostered(r, s) == s # None => \A t \in Sheets : r[t].conn = "ready" => r[t].where = s

Calm == upsets \cap {"hasty", "refusal", "trap", "boot update"} = {}

RoomsInv == /\ Sound(room)
            /\ "trap" \notin upsets => Lone(room, active)
            /\ Calm => Current(room, active)
            /\ Rostered(room, active)

\* The chain of switches ends with the sheet shown; once it is empty nothing else
\* is bound or awaited.
ChainInv ==
  /\ requested = IF destroyed THEN None ELSE screen
  /\ ~destroyed => IF queue = <<>> THEN {active, waiting} \subseteq {None, screen}
                                   ELSE queue[Len(queue)] = screen
  /\ "hasty" \notin upsets => waiting \in {None, screen}
  /\ waiting # None => room[waiting].conn = "connecting"

\* After a destroy() that met no connect in flight nothing is under way.
TornInv == destroyed /\ "unmount" \notin upsets =>
  /\ queue = <<>> /\ waiting = None /\ timer = None /\ active = None
  /\ \A s \in Sheets : room[s].conn = "absent"

IInv == TypeOK /\ RoomsInv /\ ChainInv /\ TornInv

-----------------------------------------------------------------------------
(* What the operators on the rooms do.                                     *)

Rooms == [Sheets -> Room]

\* The room b once its binding is destroyed and it is watched.
Released(a, b) ==
  /\ a.live = b.live - 1 /\ ~a.held /\ a.watch
  /\ a.conn = b.conn /\ a.seeded = b.seeded /\ a.matches = b.matches
  /\ a.dirty = b.dirty /\ a.behind = b.behind /\ a.where = b.where

\* Rooms that agree on all but where this user is published to be.
Alike(a, b) ==
  /\ a.conn = b.conn /\ a.live = b.live /\ a.held = b.held /\ a.seeded = b.seeded
  /\ a.matches = b.matches /\ a.dirty = b.dirty /\ a.watch = b.watch /\ a.behind = b.behind

LEMMA ParkedRooms ==
  ASSUME NEW r \in Rooms, NEW s \in Sheets \cup {None}, Sound(r)
  PROVE  /\ Parked(r, s) \in Rooms
         /\ \A t \in Sheets : t # s \/ ~r[t].held => Parked(r, s)[t] = r[t]
         /\ s # None /\ r[s].held => Released(Parked(r, s)[s], r[s])
<1>1. CASE s # None /\ r[s].held
  <2> DEFINE rm == [r[s] EXCEPT !.live = @ - 1, !.held = FALSE, !.watch = TRUE]
  <2>1. s \in Sheets /\ r[s] \in Room /\ r[s].live - 1 \in Nat
    <3>1. s \in Sheets /\ r[s] \in Room /\ r[s].live > 0
      BY <1>1 DEF Rooms, Sound
    <3>2. r[s].live \in Nat
      BY <3>1 DEF Room
    <3> QED BY <3>1, <3>2
  <2>2. rm \in Room /\ Released(rm, r[s])
    BY <2>1 DEF Room, Released
  <2>3. Parked(r, s) = [r EXCEPT ![s] = rm]
    BY <1>1, <2>1 DEF Parked, Rooms
  <2> HIDE DEF rm
  <2>4. Parked(r, s) \in Rooms /\ Parked(r, s)[s] = rm
        /\ \A t \in Sheets : t # s => Parked(r, s)[t] = r[t]
    BY <2>1, <2>2, <2>3 DEF Rooms
  <2> QED BY <1>1, <2>2, <2>4
<1>2. CASE ~(s # None /\ r[s].held)
  BY <1>2 DEF Parked
<1> QED BY <1>1, <1>2

LEMMA BoundRooms ==
  ASSUME NEW r \in Rooms, NEW s \in Sheets
  PROVE  /\ Bound(r, s) \in Rooms
         /\ \A t \in Sheets : t # s =>
              /\ Alike(Bound(r, s)[t], r[t])
              /\ r[t].conn = "ready" => Bound(r, s)[t].where = s
         /\ Bound(r, s)[s].live = r[s].live + 1
         /\ Bound(r, s)[s].conn = r[s].conn
         /\ Bound(r, s)[s].held /\ Bound(r, s)[s].seeded
         /\ ~Bound(r, s)[s].matches /\ ~Bound(r, s)[s].dirty
         /\ Bound(r, s)[s].behind = StillBehind(r, s)
         /\ r[s].conn = "ready" => Bound(r, s)[s].where = s
<1>1. \A t \in Sheets : /\ r[t] \in Room
                        /\ [r[t] EXCEPT !.where = s] \in Room
                        /\ Alike([r[t] EXCEPT !.where = s], r[t])
                        /\ [r[t] EXCEPT !.where = s].where = s
  BY DEF Rooms, Room, Alike
<1>2. Placed(r, s) \in Rooms
  BY <1>1 DEF Placed, Rooms
<1>3. \A t \in Sheets : /\ Alike(Placed(r, s)[t], r[t])
                        /\ r[t].conn = "ready" => Placed(r, s)[t].where = s
  <2> TAKE t \in Sheets
  <2>1. Placed(r, s)[t] = IF r[t].conn = "ready" THEN [r[t] EXCEPT !.where = s] ELSE r[t]
    BY DEF Placed
  <2>2. Alike(r[t], r[t])
    BY DEF Alike
  <2> QED BY <1>1, <2>1, <2>2
<1> DEFINE old == Placed(r, s)[s]
           rm == [old EXCEPT !.live = @ + 1, !.held = TRUE, !.watch = FALSE,
                             !.seeded = TRUE, !.matches = FALSE, !.dirty = FALSE,
                             !.behind = StillBehind(r, s)]
<1>4. old \in Room /\ old.live + 1 \in Nat /\ old.live = r[s].live /\ old.conn = r[s].conn
      /\ (r[s].conn = "ready" => old.where = s)
  BY <1>1, <1>2, <1>3 DEF Rooms, Room, Alike
<1>5. StillBehind(r, s) \in BOOLEAN
  BY <1>1 DEF StillBehind, Room
<1>6. Bound(r, s) = [Placed(r, s) EXCEPT ![s] = rm]
  BY DEF Bound
<1> HIDE DEF old
<1>7. rm \in Room /\ rm.live = r[s].live + 1 /\ rm.conn = r[s].conn /\ rm.held /\ rm.seeded
      /\ ~rm.matches /\ ~rm.dirty /\ rm.behind = StillBehind(r, s)
      /\ (r[s].conn = "ready" => rm.where = s)
  BY <1>4, <1>5 DEF Room
<1> HIDE DEF rm
<1> QED BY <1>2, <1>3, <1>6, <1>7 DEF Rooms

LEMMA TrappedRooms ==
  ASSUME NEW r \in Rooms, NEW s \in Sheets
  PROVE  /\ Trapped(r, s) \in Rooms
         /\ \A t \in Sheets : t # s => Trapped(r, s)[t] = r[t]
         /\ Trapped(r, s)[s].live = r[s].live + 1
         /\ Trapped(r, s)[s].conn = r[s].conn
<1> DEFINE rm == [r[s] EXCEPT !.live = @ + 1, !.held = TRUE, !.watch = FALSE]
<1>1. rm \in Room /\ rm.live = r[s].live + 1 /\ rm.conn = r[s].conn
  <2>1. r[s] \in Room /\ r[s].live + 1 \in Nat
    BY DEF Rooms, Room
  <2> QED BY <2>1 DEF Room
<1>2. Trapped(r, s) = [r EXCEPT ![s] = rm]
  BY DEF Trapped, Rooms
<1> HIDE DEF rm
<1> QED BY <1>1, <1>2 DEF Rooms

LEMMA RefusedRooms ==
  ASSUME NEW r \in Rooms, NEW s \in Sheets
  PROVE  /\ Refused(r, s) \in Rooms
         /\ \A t \in Sheets : t # s => Refused(r, s)[t] = r[t]
         /\ LET a == Refused(r, s)[s]
                b == r[s]
            IN a.live = b.live /\ a.held = b.held /\ a.conn = b.conn
               /\ a.seeded = b.seeded /\ a.matches = b.matches
<1> DEFINE rm == [r[s] EXCEPT !.watch = FALSE]
<1>1. rm \in Room /\ rm.live = r[s].live /\ rm.held = r[s].held /\ rm.conn = r[s].conn
      /\ rm.seeded = r[s].seeded /\ rm.matches = r[s].matches
  BY DEF Rooms, Room
<1>2. Refused(r, s) = [r EXCEPT ![s] = rm]
  BY DEF Refused, Rooms
<1> HIDE DEF rm
<1> QED BY <1>1, <1>2 DEF Rooms

LEMMA OpenedRooms ==
  ASSUME NEW s \in Sheets, NEW populated \in BOOLEAN, room \in Rooms,
         active \in Sheets \cup {None}
  PROVE  /\ Opened(s, populated) \in Rooms
         /\ \A t \in Sheets : t # s => Opened(s, populated)[t] = room[t]
         /\ LET a == Opened(s, populated)[s]
                b == room[s]
            IN a.conn = "ready" /\ a.where = active /\ a.live = b.live /\ a.held = b.held
               /\ a.seeded = b.seeded /\ a.matches = b.matches
<1> DEFINE rm == [room[s] EXCEPT !.conn = "ready", !.behind = populated, !.where = active]
<1>1. /\ rm \in Room /\ rm.conn = "ready" /\ rm.where = active
      /\ rm.live = room[s].live /\ rm.held = room[s].held
      /\ rm.seeded = room[s].seeded /\ rm.matches = room[s].matches
  BY DEF Rooms, Room
<1>2. Opened(s, populated) = [room EXCEPT ![s] = rm]
  BY DEF Opened, Rooms
<1> HIDE DEF rm
<1> QED BY <1>1, <1>2 DEF Rooms

-----------------------------------------------------------------------------
(* Parking, opening and binding keep what the invariant says of the rooms. *)

LEMMA ParkingKeeps ==
  ASSUME TypeOK, RoomsInv
  PROVE  /\ Parked(room, active) \in Rooms
         /\ Sound(Parked(room, active))
         /\ "trap" \notin upsets => Lone(Parked(room, active), None)
         /\ Calm => Current(Parked(room, active), None)
         /\ \A t \in Sheets : Parked(room, active)[t].conn = room[t].conn
<1> DEFINE r == Parked(room, active)
<1>1. /\ room \in Rooms /\ active \in Sheets \cup {None} /\ Sound(room)
      /\ active # None => active \in Sheets /\ room[active].held
  BY DEF TypeOK, RoomsInv, Rooms
<1>2. /\ r \in Rooms
      /\ \A t \in Sheets : t # active => r[t] = room[t]
      /\ active # None => Released(r[active], room[active])
  BY <1>1, ParkedRooms
<1> HIDE DEF r
<1>3. \A t \in Sheets : room[t] \in Room /\ room[t].live \in Nat
  BY <1>1 DEF Rooms, Room
<1>4. active # None =>
        /\ r[active].conn = room[active].conn /\ r[active].live = room[active].live - 1
        /\ ~r[active].held /\ r[active].watch
        /\ r[active].seeded = room[active].seeded /\ r[active].matches = room[active].matches
        /\ r[active].behind = room[active].behind /\ r[active].dirty = room[active].dirty
  BY <1>2 DEF Released
<1>5. Sound(r)
  BY <1>1, <1>2, <1>3, <1>4, SheetsAssumption DEF Sound
<1>6. ASSUME "trap" \notin upsets
      PROVE  Lone(r, None)
  BY <1>1, <1>2, <1>3, <1>4, <1>6, SheetsAssumption DEF Lone, RoomsInv
<1>7. ASSUME Calm
      PROVE  Current(r, None)
  BY <1>1, <1>2, <1>4, <1>7, SheetsAssumption DEF Current, RoomsInv
<1>8. \A t \in Sheets : r[t].conn = room[t].conn
  BY <1>1, <1>2, <1>4, SheetsAssumption
<1> QED BY <1>2, <1>5, <1>6, <1>7, <1>8 DEF r

LEMMA OpeningKeeps ==
  ASSUME TypeOK, RoomsInv, NEW s \in Sheets, NEW populated \in BOOLEAN,
         room[s].conn = "connecting"
  PROVE  /\ Opened(s, populated) \in Rooms
         /\ Sound(Opened(s, populated))
         /\ "trap" \notin upsets => Lone(Opened(s, populated), active)
         /\ Calm => Current(Opened(s, populated), active)
         /\ Rostered(Opened(s, populated), active)
         /\ active # s
         /\ Opened(s, populated)[s].conn = "ready"
         /\ \A t \in Sheets : t # s => Opened(s, populated)[t] = room[t]
<1> DEFINE r == Opened(s, populated)
<1>1. /\ room \in Rooms /\ active \in Sheets \cup {None} /\ Sound(room)
      /\ active # None => active \in Sheets /\ room[active].held
  BY DEF TypeOK, RoomsInv, Rooms
<1>2. /\ r \in Rooms
      /\ \A t \in Sheets : t # s => r[t] = room[t]
      /\ r[s].conn = "ready" /\ r[s].live = room[s].live /\ r[s].held = room[s].held
      /\ r[s].seeded = room[s].seeded /\ r[s].matches = room[s].matches
      /\ r[s].where = active
  BY <1>1, OpenedRooms
<1> HIDE DEF r
<1>3. room[s].live = 0 /\ ~room[s].held /\ ~room[s].seeded /\ ~room[s].matches /\ active # s
  BY <1>1, SheetsAssumption DEF Sound
<1>4. Sound(r)
  BY <1>1, <1>2, <1>3 DEF Sound
<1>5. ASSUME "trap" \notin upsets
      PROVE  Lone(r, active)
  BY <1>2, <1>3, <1>5 DEF Lone, RoomsInv
<1>6. ASSUME Calm
      PROVE  Current(r, active)
  BY <1>2, <1>3, <1>6 DEF Current, RoomsInv
<1>7. Rostered(r, active)
  BY <1>2 DEF Rostered, RoomsInv
<1> QED BY <1>2, <1>3, <1>4, <1>5, <1>6, <1>7 DEF r

\* A bind that succeeds or throws, on rooms none of which is active.
LEMMA ActivationKeeps ==
  ASSUME TypeOK, NEW s \in Sheets, NEW r \in Rooms, Sound(r), r[s].conn = "ready",
         "trap" \notin upsets => Lone(r, None),
         Calm => Current(r, None) /\ screen = s,
         Activate(s, r)
  PROVE  /\ room' \in Rooms
         /\ active' \in {s, None}
         /\ active' # None => room'[active'].held
         /\ timer' \in {s, timer} /\ fails' \in 0 .. MaxFails
         /\ upsets' \subseteq Upsets /\ upsets' \ {"refusal", "trap"} \subseteq upsets
         /\ upsets \subseteq upsets'
         /\ RoomsInv'
         /\ \A t \in Sheets : room'[t].conn = r[t].conn
<1>1. \A t \in Sheets : r[t] \in Room /\ r[t].live \in Nat
  BY DEF Rooms, Room
<1>2. CASE room' = Bound(r, s) /\ active' = s /\ UNCHANGED <<timer, upsets, fails>>
  <2>1. room' \in Rooms
    BY <1>2, BoundRooms
  <2>2. /\ \A t \in Sheets \ {s} : /\ Alike(room'[t], r[t])
                                   /\ r[t].conn = "ready" => room'[t].where = s
        /\ room'[s].live = r[s].live + 1
        /\ room'[s].conn = r[s].conn
        /\ room'[s].held /\ room'[s].seeded
        /\ ~room'[s].matches /\ ~room'[s].dirty
        /\ room'[s].behind = StillBehind(r, s)
        /\ room'[s].where = s
    BY <1>2, BoundRooms
  <2>3. \A t \in Sheets \ {s} :
          /\ room'[t].live = r[t].live /\ room'[t].held = r[t].held
          /\ room'[t].conn = r[t].conn /\ room'[t].seeded = r[t].seeded
          /\ room'[t].matches = r[t].matches /\ room'[t].dirty = r[t].dirty
          /\ room'[t].watch = r[t].watch /\ room'[t].behind = r[t].behind
          /\ room'[t].conn = "ready" => room'[t].where = s
    BY <2>2 DEF Alike
  <2>4. Sound(room')
    BY <1>1, <2>2, <2>3 DEF Sound
  <2>5. ASSUME "trap" \notin upsets
        PROVE  Lone(room', s)
    BY <1>1, <2>2, <2>3, <2>5, SheetsAssumption DEF Lone
  <2>6. ASSUME Calm
        PROVE  Current(room', s)
    <3>1. Current(r, None) /\ screen = s
      BY <2>6
    <3>2. ~room'[s].behind
      BY <2>2, <3>1, SheetsAssumption DEF Current, StillBehind, BaselineOnly
    <3> QED BY <2>2, <2>3, <3>1, <3>2, SheetsAssumption DEF Current
  <2>7. Rostered(room', s)
    BY <2>2, <2>3 DEF Rostered
  <2>8. RoomsInv'
    BY <1>2, <2>4, <2>5, <2>6, <2>7 DEF RoomsInv, Calm
  <2> QED BY <1>2, <2>1, <2>2, <2>3, <2>8 DEF TypeOK
<1>3. CASE /\ fails < MaxFails
           /\ \/ Upset("refusal") /\ room' = Refused(r, s)
              \/ Upset("trap") /\ room' = Trapped(r, s)
           /\ fails' = fails + 1 /\ active' = None /\ timer' = Retry(s)
  <2>1. timer' \in {s, timer} /\ fails' \in 0 .. MaxFails
    BY <1>3, BoundsAssumption DEF Retry, TypeOK
  <2>2. /\ upsets' \subseteq Upsets /\ upsets \subseteq upsets'
        /\ upsets' \ {"refusal", "trap"} \subseteq upsets
        /\ ~Calm'
    BY <1>3 DEF Upset, TypeOK, Calm
  <2>3. Rostered(room', active')
    BY <1>3 DEF Rostered
  <2>4. CASE room' = Refused(r, s)
    <3>1. /\ room' \in Rooms
          /\ \A t \in Sheets : t # s => room'[t] = r[t]
          /\ room'[s].live = r[s].live /\ room'[s].held = r[s].held /\ room'[s].conn = r[s].conn
          /\ room'[s].seeded = r[s].seeded /\ room'[s].matches = r[s].matches
      BY <2>4, RefusedRooms
    <3>2. Sound(room')
      BY <3>1 DEF Sound
    <3>3. "trap" \notin upsets' => Lone(room', None)
      BY <2>2, <3>1 DEF Lone
    <3> QED BY <1>3, <2>1, <2>2, <2>3, <3>1, <3>2, <3>3 DEF RoomsInv
  <2>5. CASE Upset("trap") /\ room' = Trapped(r, s)
    <3>1. /\ room' \in Rooms
          /\ \A t \in Sheets : t # s => room'[t] = r[t]
          /\ room'[s].live = r[s].live + 1 /\ room'[s].conn = r[s].conn
      BY <2>5, TrappedRooms
    <3>2. Sound(room')
      BY <1>1, <3>1 DEF Sound
    <3>3. "trap" \in upsets'
      BY <2>5 DEF Upset
    <3> QED BY <1>3, <2>1, <2>2, <2>3, <3>1, <3>2, <3>3 DEF RoomsInv
  <2> QED BY <1>3, <2>4, <2>5
<1> QED BY <1>2, <1>3 DEF Activate

-----------------------------------------------------------------------------
(* Every action keeps the invariant.                                       *)

\* The shapes of the chain: what a switch leaves of it, what is put at its end.
LEMMA ChainEnds ==
  ASSUME NEW q \in Seq(Sheets), NEW s \in Sheets
  PROVE  /\ Append(q, s) \in Seq(Sheets) /\ Append(q, s) # <<>>
         /\ Append(q, s)[Len(Append(q, s))] = s
         /\ q # <<>> =>
              /\ Head(q) \in Sheets /\ Tail(q) \in Seq(Sheets)
              /\ IF Tail(q) = <<>> THEN Head(q) = q[Len(q)]
                                   ELSE Tail(q)[Len(Tail(q))] = q[Len(q)]
<1>1. Append(q, s) \in Seq(Sheets) /\ Len(Append(q, s)) = Len(q) + 1
      /\ Append(q, s)[Len(q) + 1] = s
  OBVIOUS
<1>2. ASSUME q # <<>>
      PROVE  /\ Head(q) \in Sheets /\ Tail(q) \in Seq(Sheets)
             /\ IF Tail(q) = <<>> THEN Head(q) = q[Len(q)]
                                  ELSE Tail(q)[Len(Tail(q))] = q[Len(q)]
  <2>1. /\ Len(q) > 0 /\ Head(q) = q[1] /\ Head(q) \in Sheets
        /\ Tail(q) \in Seq(Sheets) /\ Len(Tail(q)) = Len(q) - 1 /\ Len(q) \in Nat
        /\ \A i \in 1 .. (Len(q) - 1) : Tail(q)[i] = q[i + 1]
    BY <1>2
  <2>2. CASE Len(q) = 1
    <3>1. Tail(q) = <<>>
      <4>1. Len(Tail(q)) = 0 /\ Tail(q) \in Seq(Sheets)
        BY <2>1, <2>2
      <4>2. Tail(q) # <<>> => Len(Tail(q)) \in Nat \ {0}
        BY <4>1, EmptySeq
      <4> QED BY <4>1, <4>2
    <3> QED BY <2>1, <2>2, <3>1
  <2>3. CASE Len(q) # 1
    <3>1. Tail(q) # <<>> /\ Len(q) - 1 \in 1 .. (Len(q) - 1)
      BY <2>1, <2>3
    <3>2. Tail(q)[Len(q) - 1] = q[Len(q)]
      BY <2>1, <3>1
    <3> QED BY <2>1, <3>1, <3>2
  <2> QED BY <2>1, <2>2, <2>3
<1> QED BY <1>1, <1>2

\* A destroyed manager that met no connect in flight has no switch to run.
LEMMA TornSwitchesNothing ==
  ASSUME IInv, queue # <<>> \/ waiting # None
  PROVE  ~(destroyed /\ "unmount" \notin upsets)
BY DEF IInv, TornInv

LEMMA NavigateKeeps ==
  ASSUME IInv, NEW s \in Sheets, Navigate(s)
  PROVE  IInv'
<1>1. /\ screen' = s /\ requested' = s /\ timer' = None /\ queue' = Append(queue, s)
      /\ navs' = navs + 1 /\ ~destroyed
      /\ UNCHANGED <<active, waiting, room, destroyed, fails>>
      /\ IF waiting = None THEN upsets' = upsets
                           ELSE upsets' = upsets \cup {"hasty"} /\ "hasty" \in Upsets
  BY DEF Navigate, SwitchTo, Upset
<1>2. upsets \subseteq upsets' /\ upsets' \subseteq Upsets
      /\ upsets' \ {"hasty"} \subseteq upsets
  BY <1>1 DEF IInv, TypeOK
<1>3. Append(queue, s) \in Seq(Sheets) /\ Append(queue, s) # <<>>
      /\ Append(queue, s)[Len(Append(queue, s))] = s
  BY ChainEnds DEF IInv, TypeOK
<1>4. TypeOK'
  BY <1>1, <1>2, <1>3, BoundsAssumption DEF IInv, TypeOK, Navigate
<1>5. RoomsInv'
  BY <1>1, <1>2 DEF IInv, RoomsInv, Calm
<1>6. ChainInv'
  BY <1>1, <1>3 DEF IInv, ChainInv
<1>7. TornInv'
  BY <1>1 DEF TornInv
<1> QED BY <1>4, <1>5, <1>6, <1>7 DEF IInv

LEMMA SkipKeeps ==
  ASSUME IInv, SkipSwitch
  PROVE  IInv'
<1>1. /\ queue # <<>> /\ waiting = None /\ queue' = Tail(queue)
      /\ requested # Head(queue) \/ active = Head(queue)
      /\ UNCHANGED <<screen, requested, active, waiting, timer, room, destroyed, upsets, navs, fails>>
  BY DEF SkipSwitch
<1>2. /\ Head(queue) \in Sheets /\ Tail(queue) \in Seq(Sheets)
      /\ IF Tail(queue) = <<>> THEN Head(queue) = queue[Len(queue)]
                               ELSE Tail(queue)[Len(Tail(queue))] = queue[Len(queue)]
  BY <1>1, ChainEnds DEF IInv, TypeOK
<1>3. TypeOK' /\ RoomsInv'
  BY <1>1, <1>2 DEF IInv, TypeOK, RoomsInv, Calm
<1>4. ChainInv'
  BY <1>1, <1>2 DEF IInv, ChainInv
<1>5. TornInv'
  BY <1>1, TornSwitchesNothing DEF TornInv
<1> QED BY <1>3, <1>4, <1>5 DEF IInv

LEMMA WarmSwitchKeeps ==
  ASSUME IInv, SwitchWarm
  PROVE  IInv'
<1> DEFINE s == Head(queue)
           r == Parked(room, active)
<1>1. /\ queue # <<>> /\ waiting = None /\ queue' = Tail(queue)
      /\ requested = s /\ active # s /\ room[s].conn = "ready" /\ Activate(s, r)
      /\ UNCHANGED <<screen, requested, waiting, destroyed, navs>>
  BY DEF SwitchWarm
<1>2. /\ s \in Sheets /\ Tail(queue) \in Seq(Sheets)
      /\ IF Tail(queue) = <<>> THEN s = queue[Len(queue)]
                               ELSE Tail(queue)[Len(Tail(queue))] = queue[Len(queue)]
  BY <1>1, ChainEnds DEF IInv, TypeOK
<1>3. ~destroyed /\ screen = s
  BY <1>1, <1>2, SheetsAssumption DEF IInv, ChainInv
<1>4. /\ r \in Rooms /\ Sound(r) /\ r[s].conn = "ready"
      /\ "trap" \notin upsets => Lone(r, None)
      /\ Calm => Current(r, None)
      /\ \A t \in Sheets : r[t].conn = room[t].conn
  BY <1>1, <1>2, ParkingKeeps DEF IInv
<1> HIDE DEF r, s
<1>5. /\ room' \in Rooms
      /\ active' \in {s, None}
      /\ active' # None => room'[active'].held
      /\ timer' \in {s, timer} /\ fails' \in 0 .. MaxFails
      /\ upsets' \subseteq Upsets /\ upsets' \ {"refusal", "trap"} \subseteq upsets
      /\ upsets \subseteq upsets'
      /\ RoomsInv'
      /\ \A t \in Sheets : room'[t].conn = r[t].conn
  BY <1>1, <1>2, <1>3, <1>4, ActivationKeeps DEF IInv
<1>6. TypeOK'
  BY <1>1, <1>2, <1>5 DEF IInv, TypeOK, Rooms
<1>7. ChainInv'
  BY <1>1, <1>2, <1>3, <1>5 DEF IInv, ChainInv
<1>8. TornInv'
  BY <1>1, <1>3 DEF TornInv
<1> QED BY <1>5, <1>6, <1>7, <1>8 DEF IInv

\* A connect that begins or fails leaves a room as blank as it was.
Turned(r, s, c) == [r EXCEPT ![s].conn = c]

LEMMA TurnedRooms ==
  ASSUME NEW r \in Rooms, Sound(r), NEW s \in Sheets, r[s].conn # "ready",
         NEW c \in {"absent", "connecting"}, NEW b \in Sheets \cup {None}
  PROVE  /\ Turned(r, s, c) \in Rooms /\ Sound(Turned(r, s, c)) /\ Turned(r, s, c)[s].conn = c
         /\ \A t \in Sheets : t # s => Turned(r, s, c)[t] = r[t]
         /\ Lone(r, b) => Lone(Turned(r, s, c), b)
         /\ Current(r, b) => Current(Turned(r, s, c), b)
         /\ Rostered(r, b) => Rostered(Turned(r, s, c), b)
         /\ Turned(r, s, c)[s].held = r[s].held
<1> DEFINE new == Turned(r, s, c)
           rm == [r[s] EXCEPT !.conn = c]
<1>1. r[s] \in Room
  BY DEF Rooms
<1>2. /\ rm \in Room /\ rm.conn = c /\ rm.live = r[s].live /\ rm.held = r[s].held
      /\ rm.seeded = r[s].seeded /\ rm.matches = r[s].matches /\ rm.dirty = r[s].dirty
      /\ rm.watch = r[s].watch /\ rm.behind = r[s].behind
  BY <1>1 DEF Room
<1>3. new = [r EXCEPT ![s] = rm]
  BY DEF Turned
<1> HIDE DEF rm
<1>4. new \in Rooms /\ new[s] = rm /\ \A t \in Sheets : t # s => new[t] = r[t]
  BY <1>2, <1>3 DEF Rooms
<1> HIDE DEF new
<1>5. Sound(new)
  BY <1>2, <1>4 DEF Sound
<1>6. Lone(r, b) => Lone(new, b)
  BY <1>2, <1>4 DEF Lone
<1>7. Current(r, b) => Current(new, b)
  BY <1>2, <1>4 DEF Current
<1>8. Rostered(r, b) => Rostered(new, b)
  BY <1>2, <1>4 DEF Rostered
<1> QED BY <1>2, <1>4, <1>5, <1>6, <1>7, <1>8 DEF new

LEMMA ColdSwitchKeeps ==
  ASSUME IInv, SwitchCold
  PROVE  IInv'
<1> DEFINE s == Head(queue)
           r == Parked(room, active)
<1>1. /\ queue # <<>> /\ waiting = None /\ queue' = Tail(queue)
      /\ requested = s /\ active # s /\ room[s].conn # "ready"
      /\ room' = Turned(r, s, "connecting") /\ waiting' = s /\ active' = None
      /\ UNCHANGED <<screen, requested, timer, destroyed, upsets, navs, fails>>
  BY DEF SwitchCold, Turned
<1>2. /\ s \in Sheets /\ Tail(queue) \in Seq(Sheets)
      /\ IF Tail(queue) = <<>> THEN s = queue[Len(queue)]
                               ELSE Tail(queue)[Len(Tail(queue))] = queue[Len(queue)]
  BY <1>1, ChainEnds DEF IInv, TypeOK
<1>3. ~destroyed /\ screen = s
  BY <1>1, <1>2, SheetsAssumption DEF IInv, ChainInv
<1>4. /\ r \in Rooms /\ Sound(r) /\ r[s].conn # "ready"
      /\ "trap" \notin upsets => Lone(r, None)
      /\ Calm => Current(r, None)
  BY <1>1, <1>2, ParkingKeeps DEF IInv
<1> HIDE DEF r, s
<1>5. /\ room' \in Rooms /\ Sound(room') /\ room'[s].conn = "connecting"
      /\ Lone(r, None) => Lone(room', None)
      /\ Current(r, None) => Current(room', None)
  BY <1>1, <1>2, <1>4, TurnedRooms
<1>6. TypeOK'
  BY <1>1, <1>2, <1>5 DEF IInv, TypeOK, Rooms
<1>7. RoomsInv'
  BY <1>1, <1>4, <1>5 DEF RoomsInv, Calm, Rostered
<1>8. ChainInv'
  BY <1>1, <1>2, <1>3, <1>5 DEF IInv, ChainInv
<1>9. TornInv'
  BY <1>1, <1>3 DEF TornInv
<1> QED BY <1>6, <1>7, <1>8, <1>9 DEF IInv

LEMMA WarmKeeps ==
  ASSUME IInv, NEW s \in Sheets, Warm(s)
  PROVE  IInv'
<1>1. /\ ~destroyed /\ room[s].conn = "absent"
      /\ room' = Turned(room, s, "connecting")
      /\ UNCHANGED <<screen, requested, active, queue, waiting, timer, destroyed, upsets, navs, fails>>
  BY DEF Warm, Turned
<1>2. room \in Rooms /\ Sound(room) /\ active \in Sheets \cup {None}
      /\ waiting \in Sheets \cup {None}
  BY DEF IInv, TypeOK, RoomsInv, Rooms
<1>3. /\ room' \in Rooms /\ Sound(room') /\ room'[s].conn = "connecting"
      /\ \A t \in Sheets : t # s => room'[t] = room[t]
      /\ Lone(room, active) => Lone(room', active)
      /\ Current(room, active) => Current(room', active)
      /\ Rostered(room, active) => Rostered(room', active)
      /\ room'[s].held = room[s].held
  BY <1>1, <1>2, TurnedRooms
<1>4. TypeOK'
  BY <1>1, <1>2, <1>3 DEF IInv, TypeOK, Rooms
<1>5. RoomsInv'
  BY <1>1, <1>3 DEF IInv, RoomsInv, Calm
<1>6. ChainInv'
  BY <1>1, <1>2, <1>3 DEF IInv, ChainInv
<1>7. TornInv'
  BY <1>1 DEF TornInv
<1> QED BY <1>4, <1>5, <1>6, <1>7 DEF IInv

LEMMA ConnectKeeps ==
  ASSUME IInv, NEW s \in Sheets, ConnectDone(s)
  PROVE  IInv'
<1>1. /\ Drained /\ room[s].conn = "connecting"
      /\ UNCHANGED <<screen, requested, queue, destroyed, navs>>
  BY DEF ConnectDone
<1>2. PICK populated \in BOOLEAN :
        IF waiting = s
          THEN Activate(s, Opened(s, populated)) /\ waiting' = None
          ELSE room' = Opened(s, populated) /\ UNCHANGED <<active, waiting, timer, upsets, fails>>
  BY DEF ConnectDone
<1> DEFINE r == Opened(s, populated)
<1>3. /\ r \in Rooms /\ Sound(r) /\ r[s].conn = "ready" /\ active # s
      /\ "trap" \notin upsets => Lone(r, active)
      /\ Calm => Current(r, active)
      /\ Rostered(r, active)
      /\ \A t \in Sheets : t # s => r[t] = room[t]
  BY <1>1, OpeningKeeps DEF IInv
<1>4. destroyed => "unmount" \in upsets
  BY <1>1 DEF IInv, TornInv
<1> HIDE DEF r
<1>5. CASE waiting = s
  <2>1. active = None /\ Activate(s, r) /\ waiting' = None
    BY <1>2, <1>5, SheetsAssumption DEF r, IInv, TypeOK
  <2>2. Calm => screen = s
    BY <1>5, SheetsAssumption DEF IInv, ChainInv, Calm
  <2>3. /\ room' \in Rooms
        /\ active' \in {s, None}
        /\ active' # None => room'[active'].held
        /\ timer' \in {s, timer} /\ fails' \in 0 .. MaxFails
        /\ upsets' \subseteq Upsets /\ upsets' \ {"refusal", "trap"} \subseteq upsets
        /\ upsets \subseteq upsets'
        /\ RoomsInv'
    BY <1>3, <2>1, <2>2, ActivationKeeps DEF IInv
  <2>4. TypeOK'
    BY <1>1, <2>1, <2>3 DEF IInv, TypeOK, Rooms
  <2>5. ChainInv'
    BY <1>1, <1>5, <2>1, <2>3, SheetsAssumption DEF IInv, ChainInv
  <2>6. TornInv'
    BY <1>1, <1>4, <2>3 DEF TornInv
  <2> QED BY <2>3, <2>4, <2>5, <2>6 DEF IInv
<1>6. CASE waiting # s
  <2>1. room' = r /\ UNCHANGED <<active, waiting, timer, upsets, fails>>
    BY <1>2, <1>6 DEF r
  <2>2. TypeOK'
    BY <1>1, <1>3, <2>1 DEF IInv, TypeOK, Rooms
  <2>3. RoomsInv'
    BY <1>3, <2>1 DEF RoomsInv, Calm
  <2>4. ChainInv'
    BY <1>1, <1>3, <1>6, <2>1 DEF IInv, ChainInv, TypeOK
  <2>5. TornInv'
    BY <1>1, <1>4, <2>1 DEF TornInv
  <2> QED BY <2>2, <2>3, <2>4, <2>5 DEF IInv
<1> QED BY <1>5, <1>6

LEMMA FailureKeeps ==
  ASSUME IInv, NEW s \in Sheets, ConnectFail(s)
  PROVE  IInv'
<1>1. /\ fails < MaxFails /\ room[s].conn = "connecting"
      /\ upsets' = upsets \cup {"offline"} /\ "offline" \in Upsets
      /\ room' = Turned(room, s, "absent")
      /\ fails' = fails + 1
      /\ IF waiting = s THEN waiting' = None /\ timer' \in {s, timer}
                        ELSE waiting' = waiting /\ timer' = timer
      /\ UNCHANGED <<screen, requested, active, queue, destroyed, navs>>
  BY DEF ConnectFail, Upset, Retry, Turned
<1>2. room \in Rooms /\ Sound(room) /\ active \in Sheets \cup {None}
      /\ waiting \in Sheets \cup {None}
  BY DEF IInv, TypeOK, RoomsInv, Rooms
<1>3. /\ room' \in Rooms /\ Sound(room') /\ room'[s].conn = "absent"
      /\ \A t \in Sheets : t # s => room'[t] = room[t]
      /\ Lone(room, active) => Lone(room', active)
      /\ Current(room, active) => Current(room', active)
      /\ Rostered(room, active) => Rostered(room', active)
      /\ room'[s].held = room[s].held
  BY <1>1, <1>2, TurnedRooms
<1>4. TypeOK'
  BY <1>1, <1>2, <1>3, BoundsAssumption DEF IInv, TypeOK, Rooms
<1>5. RoomsInv'
  BY <1>1, <1>3 DEF IInv, RoomsInv, Calm
<1>6. ChainInv'
  BY <1>1, <1>2, <1>3 DEF IInv, ChainInv
<1>7. TornInv'
  BY <1>1 DEF IInv, TornInv
<1> QED BY <1>4, <1>5, <1>6, <1>7 DEF IInv

LEMMA RetryKeeps ==
  ASSUME IInv, RetryFires
  PROVE  IInv'
<1>1. /\ timer # None /\ timer' = None
      /\ queue' = IF requested = timer /\ active # timer THEN Append(queue, timer) ELSE queue
      /\ UNCHANGED <<screen, requested, active, waiting, room, destroyed, upsets, navs, fails>>
  BY DEF RetryFires
<1>2. timer \in Sheets /\ queue \in Seq(Sheets)
  BY <1>1 DEF IInv, TypeOK
<1>3. Append(queue, timer) \in Seq(Sheets) /\ Append(queue, timer) # <<>>
      /\ Append(queue, timer)[Len(Append(queue, timer))] = timer
  BY <1>2, ChainEnds
<1>4. TypeOK' /\ RoomsInv'
  BY <1>1, <1>2, <1>3 DEF IInv, TypeOK, RoomsInv, Calm
<1>5. ChainInv'
  BY <1>1, <1>2, <1>3 DEF IInv, ChainInv
<1>6. TornInv'
  BY <1>1 DEF IInv, TornInv
<1> QED BY <1>4, <1>5, <1>6 DEF IInv

LEMMA RemoteUpdateKeeps ==
  ASSUME IInv, NEW s \in Sheets, RemoteUpdate(s)
  PROVE  IInv'
<1> DEFINE rm == [room[s] EXCEPT !.behind = @ \/ room[s].live = 0,
                                 !.dirty = @ \/ room[s].watch]
<1>1. /\ room[s].conn = "ready"
      /\ IF s \in Entry /\ ~room[s].seeded
           THEN upsets' = upsets \cup {"boot update"} /\ "boot update" \in Upsets
           ELSE upsets' = upsets
      /\ room' = [room EXCEPT ![s].behind = @ \/ room[s].live = 0,
                              ![s].dirty = @ \/ room[s].watch]
      /\ UNCHANGED <<screen, requested, active, queue, waiting, timer, destroyed, navs, fails>>
  BY DEF RemoteUpdate, Upset
<1>2. room \in Rooms /\ room[s] \in Room /\ Sound(room)
  BY DEF IInv, TypeOK, RoomsInv, Rooms
<1>3. /\ rm \in Room /\ rm.conn = "ready" /\ rm.live = room[s].live /\ rm.held = room[s].held
      /\ rm.seeded = room[s].seeded /\ rm.matches = room[s].matches
      /\ rm.watch = room[s].watch /\ rm.where = room[s].where
      /\ rm.behind <=> (room[s].behind \/ room[s].live = 0)
      /\ rm.dirty <=> (room[s].dirty \/ room[s].watch)
  BY <1>1, <1>2 DEF Room
<1>4. room' = [room EXCEPT ![s] = rm]
  BY <1>1, <1>2 DEF Rooms
<1> HIDE DEF rm
<1>5. room' \in Rooms /\ room'[s] = rm /\ \A t \in Sheets : t # s => room'[t] = room[t]
  BY <1>2, <1>3, <1>4 DEF Rooms
<1>6. Sound(room') /\ Rostered(room', active)
  <2>1. Sound(room')
    BY <1>1, <1>2, <1>3, <1>5 DEF Sound
  <2>2. Rostered(room', active)
    BY <1>1, <1>3, <1>5 DEF IInv, RoomsInv, Rostered
  <2> QED BY <2>1, <2>2
<1>7. Lone(room, active) => Lone(room', active)
  BY <1>3, <1>5 DEF Lone
<1>8. ASSUME Calm'
      PROVE  Current(room', active)
  <2>1. Calm /\ Current(room, active) /\ Lone(room, active) /\ (s \in Entry => room[s].seeded)
    BY <1>1, <1>8 DEF Calm, IInv, RoomsInv
  <2>2. active = s => ~rm.behind
    BY <1>3, <2>1 DEF Current, Lone
  <2> QED BY <1>3, <1>5, <2>1, <2>2 DEF Current
<1>9. RoomsInv'
  BY <1>1, <1>6, <1>7, <1>8 DEF IInv, RoomsInv
<1>10. TypeOK'
  <2>1. upsets' \subseteq Upsets
    BY <1>1 DEF IInv, TypeOK
  <2> QED BY <1>1, <1>3, <1>5, <2>1 DEF IInv, TypeOK, Rooms
<1>11. ChainInv'
  BY <1>1, <1>3, <1>5 DEF IInv, ChainInv, TypeOK
<1>12. TornInv'
  BY <1>1, <1>5 DEF IInv, TornInv
<1> QED BY <1>9, <1>10, <1>11, <1>12 DEF IInv

LEMMA LayoutSaveKeeps ==
  ASSUME IInv, NEW s \in Sheets, LayoutSave(s)
  PROVE  IInv'
<1> DEFINE rm == [room[s] EXCEPT !.dirty = TRUE]
<1>1. /\ room[s].conn = "ready"
      /\ room' = [room EXCEPT ![s].dirty = TRUE]
      /\ UNCHANGED <<screen, requested, active, queue, waiting, timer, destroyed, upsets, navs, fails>>
  BY DEF LayoutSave
<1>2. room \in Rooms /\ room[s] \in Room
  BY DEF IInv, TypeOK, Rooms
<1>3. rm \in Room /\ Alike([rm EXCEPT !.dirty = room[s].dirty], room[s]) /\ rm.dirty
      /\ rm.conn = room[s].conn /\ rm.live = room[s].live /\ rm.held = room[s].held
      /\ rm.seeded = room[s].seeded /\ rm.matches = room[s].matches
      /\ rm.watch = room[s].watch /\ rm.behind = room[s].behind /\ rm.where = room[s].where
  BY <1>2 DEF Room, Alike
<1>4. room' = [room EXCEPT ![s] = rm]
  BY <1>1, <1>2 DEF Rooms
<1> HIDE DEF rm
<1>5. room' \in Rooms /\ room'[s] = rm /\ \A t \in Sheets : t # s => room'[t] = room[t]
  BY <1>2, <1>3, <1>4 DEF Rooms
<1>6. Sound(room') /\ Rostered(room', active)
  BY <1>3, <1>5 DEF IInv, RoomsInv, Sound, Rostered
<1>7. /\ Lone(room, active) => Lone(room', active)
      /\ Current(room, active) => Current(room', active)
  BY <1>3, <1>5 DEF Lone, Current
<1>8. TypeOK' /\ RoomsInv'
  BY <1>1, <1>3, <1>5, <1>6, <1>7 DEF IInv, TypeOK, Rooms, RoomsInv, Calm
<1>9. ChainInv' /\ TornInv'
  BY <1>1, <1>3, <1>5 DEF IInv, ChainInv, TornInv, TypeOK
<1> QED BY <1>8, <1>9 DEF IInv

LEMMA DestroyKeeps ==
  ASSUME IInv, Destroy
  PROVE  IInv'
<1>1. /\ Drained /\ ~destroyed /\ destroyed' = TRUE
      /\ room' = [s \in Sheets |-> IF room[s].conn = "ready" THEN NoRoom ELSE room[s]]
      /\ active' = None /\ requested' = None /\ timer' = None
      /\ IF \E s \in Sheets : room[s].conn = "connecting"
           THEN upsets' = upsets \cup {"unmount"} /\ "unmount" \in Upsets
           ELSE upsets' = upsets
      /\ UNCHANGED <<screen, queue, waiting, navs, fails>>
  BY DEF Destroy, Upset
<1>2. /\ NoRoom \in Room /\ NoRoom.conn = "absent" /\ NoRoom.live = 0 /\ ~NoRoom.held
      /\ ~NoRoom.seeded /\ ~NoRoom.matches /\ ~NoRoom.behind
  BY DEF NoRoom, Room
<1>3. room \in Rooms /\ Sound(room)
  BY DEF IInv, TypeOK, RoomsInv, Rooms
<1>4. /\ room' \in Rooms
      /\ \A s \in Sheets : room'[s] = IF room[s].conn = "ready" THEN NoRoom ELSE room[s]
  BY <1>1, <1>2, <1>3 DEF Rooms
<1>5. Sound(room') /\ Lone(room', None) /\ Rostered(room', None)
  BY <1>2, <1>3, <1>4, SheetsAssumption DEF Sound, Lone, Rostered
<1>6. ASSUME Calm'
      PROVE  Current(room', None)
  <2>1. Current(room, active)
    BY <1>1, <1>6 DEF Calm, IInv, RoomsInv
  <2> QED BY <1>2, <1>3, <1>4, <2>1, SheetsAssumption DEF Current, Sound
<1>7. TypeOK'
  BY <1>1, <1>4 DEF IInv, TypeOK, Rooms
<1>8. RoomsInv'
  BY <1>1, <1>5, <1>6 DEF RoomsInv
<1>9. ChainInv'
  BY <1>1, <1>2, <1>4 DEF IInv, ChainInv, TypeOK
<1>10. TornInv'
  <2>1. ASSUME "unmount" \notin upsets'
        PROVE  queue = <<>> /\ waiting = None /\ \A s \in Sheets : room[s].conn # "connecting"
    BY <1>1, <2>1 DEF IInv, ChainInv, TypeOK, Drained
  <2>2. \A s \in Sheets : room[s].conn \in {"absent", "connecting", "ready"}
    BY <1>3 DEF Rooms, Room
  <2> QED BY <1>1, <1>2, <1>4, <2>1, <2>2 DEF TornInv
<1> QED BY <1>7, <1>8, <1>9, <1>10 DEF IInv

LEMMA InvInductive == IInv /\ [Next]_vars => IInv'
<1> SUFFICES ASSUME IInv, [Next]_vars
             PROVE  IInv'
  OBVIOUS
<1>1. ASSUME NEW s \in Sheets,
             \/ Navigate(s) \/ Warm(s) \/ ConnectDone(s) \/ ConnectFail(s)
             \/ RemoteUpdate(s) \/ LayoutSave(s)
      PROVE  IInv'
  BY <1>1, NavigateKeeps, WarmKeeps, ConnectKeeps, FailureKeeps, RemoteUpdateKeeps,
     LayoutSaveKeeps
<1>2. CASE SkipSwitch \/ SwitchWarm \/ SwitchCold \/ RetryFires \/ Destroy
  BY <1>2, SkipKeeps, WarmSwitchKeeps, ColdSwitchKeeps, RetryKeeps, DestroyKeeps
<1>3. CASE UNCHANGED vars
  BY <1>3 DEF vars, IInv, TypeOK, RoomsInv, Calm, ChainInv, TornInv
<1> QED BY <1>1, <1>2, <1>3 DEF Next, Switch

LEMMA InitInv == Init => IInv
<1> SUFFICES ASSUME Init
             PROVE  IInv
  OBVIOUS
<1>1. /\ NoRoom \in Room /\ NoRoom.conn = "absent" /\ NoRoom.live = 0 /\ ~NoRoom.held
      /\ ~NoRoom.seeded /\ ~NoRoom.matches /\ ~NoRoom.behind /\ NoRoom.where = None
  BY DEF NoRoom, Room
<1>2. /\ EntryRoom \in Room /\ EntryRoom.conn = "ready" /\ EntryRoom.live = 0
      /\ ~EntryRoom.held /\ ~EntryRoom.seeded /\ EntryRoom.matches /\ ~EntryRoom.behind
  BY DEF EntryRoom, NoRoom, Room
<1>3. room \in Rooms
      /\ \A s \in Sheets : room[s] = IF s \in Entry THEN EntryRoom ELSE NoRoom
  BY <1>1, <1>2 DEF Init, Rooms
<1>4. TypeOK
  <2>1. queue \in Seq(Sheets) /\ navs \in 0 .. MaxNavs /\ fails \in 0 .. MaxFails
    BY BoundsAssumption DEF Init
  <2> QED BY <1>3, <2>1 DEF Init, TypeOK, Rooms
<1>5. RoomsInv
  BY <1>1, <1>2, <1>3, SheetsAssumption DEF Init, RoomsInv, Sound, Lone, Current, Rostered
<1>6. ChainInv /\ TornInv
  BY DEF Init, ChainInv, TornInv
<1> QED BY <1>4, <1>5, <1>6 DEF IInv

LEMMA Invariance == Spec => []IInv
BY InitInv, InvInductive, PTL DEF Spec

-----------------------------------------------------------------------------
\* Rooms, chain of switches and retry timer keep their types, for any sheets.
THEOREM TypeCorrect == Spec => []TypeOK
<1>1. IInv => TypeOK
  BY DEF IInv
<1> QED BY <1>1, Invariance, PTL

(***************************************************************************)
(* Whatever the order of navigations, connects, failures and retries: when *)
(* an event can reach a binding, it is the only one, it is attached once,  *)
(* and it is of the sheet the editor shows (doSwitch, activePath).         *)
(***************************************************************************)
THEOREM BoundIsShownAlways == Spec => []BoundIsShown
<1>1. IInv => BoundIsShown
  <2> SUFFICES ASSUME IInv, Drained, upsets \cap {"trap", "unmount"} = {}
               PROVE  Bindings \subseteq {screen} /\ \A s \in Bindings : room[s].live = 1
    BY DEF BoundIsShown
  <2>1. Lone(room, active)
    BY DEF IInv, RoomsInv
  <2>2. active \in {None, screen}
    <3>1. CASE waiting # None
      BY <3>1 DEF IInv, TypeOK
    <3>2. CASE waiting = None
      BY <3>2 DEF Drained, IInv, ChainInv, TornInv
    <3> QED BY <3>1, <3>2
  <2> QED BY <2>1, <2>2, SheetsAssumption DEF Lone, Bindings
<1> QED BY <1>1, Invariance, PTL

(***************************************************************************)
(* The bound sheet shows all its room holds, unless one of the named       *)
(* disturbances happened: what a peer changed while it was parked or still *)
(* connecting is adopted by the bind (detachWatch, dirty, seed()).         *)
(***************************************************************************)
THEOREM ShownIsCurrentAlways == Spec => []ShownIsCurrent
<1>1. IInv => ShownIsCurrent
  BY DEF IInv, TypeOK, RoomsInv, Calm, Current, ShownIsCurrent
<1> QED BY <1>1, Invariance, PTL

(***************************************************************************)
(* Once a sheet is bound every connected room's roster names it, also the  *)
(* rooms that are connected later (publishSkeletons, ensureRoom).          *)
(***************************************************************************)
THEOREM RostersAlwaysAgree == Spec => []RostersAgree
<1>1. IInv => RostersAgree
  BY DEF IInv, RoomsInv, Rostered, RostersAgree
<1> QED BY <1>1, Invariance, PTL

(***************************************************************************)
(* destroy() leaves no room connected and no binding attached, and nothing *)
(* opens one afterwards, unless a connect was in flight.                   *)
(***************************************************************************)
THEOREM PoolIsTornDown == Spec => []TornDown
<1>1. IInv => TornDown
  BY DEF IInv, RoomsInv, Sound, TornInv, TornDown
<1> QED BY <1>1, Invariance, PTL

-----------------------------------------------------------------------------
(***************************************************************************)
(* The colours of a room.  Claims cross, so nothing can be said of what a  *)
(* client sees before its messages have come: the invariant is of what it  *)
(* will know.  Whoever it will see in conflict with its own colour it will *)
(* act on, but for one delivery that resolveCollision has used up.         *)
(***************************************************************************)

\* What c knows of d, its messages on the way included, is d's colour.
Late(q, k) == IF q = <<>> THEN k ELSE q[Len(q)]
Told(c, d) == Late(inbox[d][c], view[c][d]) = color[d]

ToldInv == \A c, d \in Clients : c # d /\ Connected(c) => Told(c, d)

\* Only connected clients are sent anything, nobody hears itself.
ApartInv == \A c, d \in Clients :
  /\ ~Connected(c) \/ c = d => inbox[d][c] = <<>>
  /\ phase[c] = "away" => view[c][d] = NoColor

\* A tab that waits for a delivery has just claimed, and announced it: of two, the
\* first to claim has yet to hear from the other.
AnsweredInv == \A c, d \in Torn : c = d \/ inbox[c][d] # <<>> \/ inbox[d][c] # <<>>

\* Unless it has heard nothing since it joined, it took a colour that no stranger it
\* saw had, if there was one, or that of another tab of its user.
Free(c, k) == k \notin Reserved /\ \A d \in Strangers(c, view[c]) : view[c][d] # k

Chosen(c) ==
  \/ c \notin heard
  \/ (\E k \in Colors : Free(c, k)) => \A d \in Strangers(c, view[c]) : view[c][d] # color[c]
  \/ \E d \in Tabs(c, view[c]) : color[c] = view[c][d]

ChosenInv == \A c \in Torn : Chosen(c)

ColorInv == ColorTypeOK /\ ApartInv /\ ToldInv /\ AnsweredInv /\ ChosenInv

-----------------------------------------------------------------------------
Less == {p \in Nat \X Nat : p[1] < p[2]}

LEMMA LeastNatural ==
  ASSUME NEW S \in SUBSET Nat, S # {}
  PROVE  \E m \in S : \A n \in S : m <= n
<1>1. IsWellFoundedOn(Less, Nat)
  <2>1. OpToRel(<, Nat) = Less
    BY DEF OpToRel, Less
  <2> QED BY <2>1, NatLessThanWellFounded
<1>2. PICK m \in S : \A n \in S : <<n, m>> \notin Less
  BY <1>1, WFMin
<1>3. ASSUME NEW n \in S PROVE m <= n
  <2>1. m \in Nat /\ n \in Nat
    OBVIOUS
  <2>2. <<n, m>> \in Nat \X Nat /\ <<n, m>>[1] = n /\ <<n, m>>[2] = m
    BY <2>1
  <2>3. ~(n < m)
    BY <1>2, <2>2 DEF Less
  <2> QED BY <2>1, <2>3
<1> QED BY <1>3

LEMMA UsageNat ==
  ASSUME NEW c, NEW v, NEW k
  PROVE  Usage(c, v, k) \in Nat
<1>1. IsFiniteSet({d \in Strangers(c, v) : v[d] = k})
  <2>1. {d \in Strangers(c, v) : v[d] = k} \in SUBSET Clients
    BY DEF Strangers, Seen
  <2> QED BY <2>1, ClientsAssumption, FS_Subset
<1>2. Cardinality({d \in Strangers(c, v) : v[d] = k}) \in Nat
  BY <1>1, FS_CardinalityType
<1>3. Cardinality({a \in Authors \ {userOf[c]} : Slots[a] = k}) \in Nat
  <2>1. {a \in Authors \ {userOf[c]} : Slots[a] = k} \in SUBSET Authors
    OBVIOUS
  <2> QED BY <2>1, SlotsAssumption, FS_Subset, FS_CardinalityType
<1> QED BY <1>2, <1>3 DEF Usage

\* The colour claimed is one of the least used.
LEMMA LowestFacts ==
  ASSUME NEW c, NEW v
  PROVE  /\ LowestFreeColor(c, v) \in Colors
         /\ \A k \in Colors : Usage(c, v, LowestFreeColor(c, v)) <= Usage(c, v, k)
<1> DEFINE Used(k) == Usage(c, v, k)
           Best(k) == \A j \in Colors : Used(k) < Used(j) \/ (Used(k) = Used(j) /\ k <= j)
           U == {Used(k) : k \in Colors}
<1>1. \A k : Used(k) \in Nat
  BY UsageNat
<1>2. U \in SUBSET Nat /\ U # {}
  <2>1. 0 \in Colors
    BY PaletteAssumption DEF Colors
  <2> QED BY <1>1, <2>1
<1>3. PICK m \in U : \A n \in U : m <= n
  BY <1>2, LeastNatural
<1> DEFINE K == {k \in Colors : Used(k) = m}
<1>4. K \in SUBSET Nat /\ K # {}
  BY PaletteAssumption DEF Colors
<1>5. PICK k \in K : \A j \in K : k <= j
  BY <1>4, LeastNatural
<1>6. Best(k)
  <2> SUFFICES ASSUME NEW j \in Colors PROVE Used(k) < Used(j) \/ (Used(k) = Used(j) /\ k <= j)
    OBVIOUS
  <2>1. m <= Used(j) /\ Used(k) = m /\ m \in Nat /\ Used(j) \in Nat
    BY <1>1, <1>2, <1>3
  <2>2. Used(j) = m => k <= j
    BY <1>5
  <2> HIDE DEF Used
  <2> QED BY <2>1, <2>2
<1>7. LowestFreeColor(c, v) = CHOOSE i \in Colors : Best(i)
  BY DEF LowestFreeColor
<1>8. LowestFreeColor(c, v) \in Colors /\ Best(LowestFreeColor(c, v))
  <2> HIDE DEF Best
  <2> QED BY <1>6, <1>7
<1>9. ASSUME NEW j \in Colors PROVE Used(LowestFreeColor(c, v)) <= Used(j)
  <2>1. Used(LowestFreeColor(c, v)) \in Nat /\ Used(j) \in Nat
    BY <1>1
  <2>2. Used(LowestFreeColor(c, v)) < Used(j) \/ Used(LowestFreeColor(c, v)) = Used(j)
    BY <1>8
  <2> HIDE DEF Used
  <2> QED BY <2>1, <2>2
<1> QED BY <1>8, <1>9

LEMMA LowestIsFree ==
  ASSUME NEW c, NEW v, NEW k \in Colors, k \notin Reserved,
         \A d \in Strangers(c, v) : v[d] # k
  PROVE  \A d \in Strangers(c, v) : v[d] # LowestFreeColor(c, v)
<1> DEFINE l == LowestFreeColor(c, v)
           Holders == {d \in Strangers(c, v) : v[d] = l}
<1>1. Usage(c, v, k) = 0
  <2>1. {d \in Strangers(c, v) : v[d] = k} = {}
    OBVIOUS
  <2>2. {a \in Authors \ {userOf[c]} : Slots[a] = k} = {}
    BY DEF Reserved
  <2> QED BY <2>1, <2>2, FS_EmptySet DEF Usage
<1>2. Usage(c, v, l) <= 0 /\ Usage(c, v, l) \in Nat
  BY <1>1, LowestFacts, UsageNat
<1>3. IsFiniteSet(Holders)
  <2>1. Holders \in SUBSET Clients
    BY DEF Strangers, Seen
  <2> QED BY <2>1, ClientsAssumption, FS_Subset
<1>4. Cardinality(Holders) \in Nat
  BY <1>3, FS_CardinalityType
<1>5. Cardinality(Holders) = 0
  <2> DEFINE By == {a \in Authors \ {userOf[c]} : Slots[a] = l}
  <2>1. Cardinality(By) \in Nat
    <3>1. By \in SUBSET Authors
      OBVIOUS
    <3> QED BY <3>1, SlotsAssumption, FS_Subset, FS_CardinalityType
  <2>2. Usage(c, v, l) = Cardinality(Holders) + Cardinality(By)
    BY DEF Usage
  <2> HIDE DEF l, Holders, By
  <2> QED BY <1>2, <1>4, <2>1, <2>2
<1> QED BY <1>3, <1>5, FS_EmptySet

-----------------------------------------------------------------------------
Shades == Colors \cup {NoColor}
Boxes == [Clients -> [Clients -> Seq(Shades)]]

\* What a client announces is appended to what the other connected ones get.
LEMMA AnnouncedFacts ==
  ASSUME ColorTypeOK, NEW c \in Clients, NEW k \in Shades
  PROVE  /\ Announced(c, k) \in Boxes
         /\ \A x, y \in Clients :
              Announced(c, k)[x][y] = IF x = c /\ y # c /\ Connected(y)
                                        THEN Append(inbox[c][y], k) ELSE inbox[x][y]
<1>1. inbox \in Boxes
  BY DEF ColorTypeOK, Boxes, Shades
<1>2. \A y \in Clients : Append(inbox[c][y], k) \in Seq(Shades)
  BY <1>1 DEF Boxes
<1>3. [d \in Clients |-> IF d # c /\ Connected(d) THEN Append(inbox[c][d], k)
                                                  ELSE inbox[c][d]] \in [Clients -> Seq(Shades)]
  BY <1>1, <1>2 DEF Boxes
<1> QED BY <1>1, <1>3 DEF Announced, Boxes

\* Whose colour and view stay as they are waits, and has chosen, as before.
LEMMA TornSame ==
  ASSUME NEW x \in Clients, userOf' = userOf, color'[x] = color[x], view'[x] = view[x],
         x \in heard' => x \in heard
  PROVE  /\ phase'[x] = phase[x] => (x \in Torn' <=> x \in Torn)
         /\ Chosen(x) => Chosen(x)'
<1>1. phase'[x] = phase[x] => (x \in Torn' <=> x \in Torn)
  BY DEF Torn, Present, MustAdopt, MustYield, Strangers, Tabs, Seen
<1>2. Chosen(x) => Chosen(x)'
  BY DEF Chosen, Free, Strangers, Tabs, Seen
<1> QED BY <1>1, <1>2

-----------------------------------------------------------------------------
(* What each action does.                                                  *)

LEMMA OpenFacts ==
  ASSUME ColorInv, NEW c \in Clients, Open(c)
  PROVE  /\ phase[c] = "away" /\ phase' = [phase EXCEPT ![c] = "open"]
         /\ userOf' = userOf /\ color' = color /\ view' = view /\ heard' = heard
         /\ inbox' \in Boxes
         /\ \A x, y \in Clients :
              inbox'[x][y] = IF y = c /\ phase[x] = "present" THEN <<color[x]>> ELSE inbox[x][y]
<1>1. inbox \in Boxes /\ \A x \in Clients : <<color[x]>> \in Seq(Shades)
  BY DEF ColorInv, ColorTypeOK, Boxes, Shades
<1>2. \A x \in Clients : [inbox[x] EXCEPT ![c] = <<color[x]>>] \in [Clients -> Seq(Shades)]
  BY <1>1 DEF Boxes
<1> QED BY <1>1, <1>2 DEF Open, Boxes

LEMMA ClaimFacts ==
  ASSUME ColorInv, NEW c \in Clients, Claim(c)
  PROVE  /\ phase[c] = "open" /\ phase' = [phase EXCEPT ![c] = "present"]
         /\ userOf' = userOf /\ view' = view /\ heard' = heard
         /\ \E k \in Colors : color' = [color EXCEPT ![c] = k] /\ inbox' = Announced(c, k)
         /\ Chosen(c)'
<1>1. /\ phase[c] = "open" /\ phase' = [phase EXCEPT ![c] = "present"]
      /\ userOf' = userOf /\ view' = view /\ heard' = heard
  BY DEF Claim
<1>2. PICK k \in Carried \cup FirstColors(c, view[c]) :
        color' = [color EXCEPT ![c] = k] /\ inbox' = Announced(c, k)
  BY DEF Claim
<1>3. k \in Colors
  <2>1. \A d \in Tabs(c, view[c]) : view[c][d] \in Colors
    BY DEF Tabs, Seen, ColorInv, ColorTypeOK
  <2>2. userOf[c] \in Authors => Slots[userOf[c]] \in Colors
    BY SlotsAssumption DEF Reserved
  <2>3. LowestFreeColor(c, view[c]) \in Colors
    BY LowestFacts
  <2> QED BY <2>1, <2>2, <2>3, PaletteAssumption DEF FirstColors
<1>4. c \notin heard
  BY <1>1 DEF ColorInv, ColorTypeOK, Present
<1> QED BY <1>1, <1>2, <1>3, <1>4 DEF Chosen

\* A delivery that the resolver acts on.
Acts(d, c) ==
  /\ c \in Present /\ HasRoom(c)
  /\ \E k \in Colors : /\ color' = [color EXCEPT ![c] = k]
                        /\ inbox' = [Announced(c, k) EXCEPT ![d][c] = Tail(inbox[d][c])]
  /\ Chosen(c)'

LEMMA DeliverFacts ==
  ASSUME ColorInv, NEW c \in Clients, NEW d \in Clients, Deliver(d, c)
  PROVE  /\ inbox[d][c] # <<>> /\ c # d /\ Connected(c)
         /\ userOf' = userOf /\ phase' = phase
         /\ view' = [view EXCEPT ![c] = [view[c] EXCEPT ![d] = Head(inbox[d][c])]]
         /\ heard' \subseteq heard \cup ({c} \cap Present)
         /\ \/ Acts(d, c)
            \/ /\ color' = color
               /\ inbox' = [inbox EXCEPT ![d][c] = Tail(inbox[d][c])]
               /\ c \notin Torn'
<1> DEFINE v == [view[c] EXCEPT ![d] = Head(inbox[d][c])]
<1>1. /\ inbox[d][c] # <<>> /\ userOf' = userOf /\ phase' = phase
      /\ view' = [view EXCEPT ![c] = v]
      /\ heard' \subseteq heard \cup ({c} \cap Present)
  BY DEF Deliver, Present
<1>2. c # d /\ Connected(c)
  BY <1>1 DEF ColorInv, ApartInv
<1>3. inbox[d][c] \in Seq(Shades) /\ Head(inbox[d][c]) \in Shades
  BY <1>1 DEF ColorInv, ColorTypeOK, Shades
<1>4. v \in [Clients -> Shades] /\ view'[c] = v
  BY <1>1, <1>3 DEF ColorInv, ColorTypeOK, Shades
<1>5. ASSUME NEW k, c \in Present, HasRoom(c),
             k = LowestFreeColor(c, v) \/ \E e \in Tabs(c, v) : k = v[e],
             color' = [color EXCEPT ![c] = k],
             inbox' = [Announced(c, k) EXCEPT ![d][c] = Tail(inbox[d][c])]
      PROVE  Acts(d, c)
  <2>1. color'[c] = k
    BY <1>5 DEF ColorInv, ColorTypeOK
  <2>2. CASE k = LowestFreeColor(c, v)
    <3>1. k \in Colors
      BY <2>2, LowestFacts
    <3>2. (\E j \in Colors : j \notin Reserved /\ \A e \in Strangers(c, v) : v[e] # j)
             => \A e \in Strangers(c, v) : v[e] # k
      BY <2>2, LowestIsFree
    <3>3. Chosen(c)'
      <4> HIDE DEF v
      <4> QED BY <1>1, <1>4, <2>1, <3>2 DEF Chosen, Free, Strangers, Tabs, Seen
    <3> QED BY <1>5, <3>1, <3>3 DEF Acts
  <2>3. CASE \E e \in Tabs(c, v) : k = v[e]
    <3> HIDE DEF v
    <3>1. PICK e \in Tabs(c, v) : k = v[e]
      BY <2>3
    <3>2. k \in Colors
      BY <1>4, <3>1 DEF Tabs, Seen, Shades
    <3>3. Chosen(c)'
      BY <1>1, <1>4, <2>1, <3>1 DEF Chosen, Tabs, Seen
    <3> QED BY <1>5, <3>2, <3>3 DEF Acts
  <2> QED BY <1>5, <2>2, <2>3
<1>6. CASE \E e \in Clients : /\ phase[c] = "present" /\ HasRoom(c) /\ MustAdopt(c, v, e)
                              /\ color' = [color EXCEPT ![c] = v[e]]
                              /\ inbox' = [Announced(c, v[e]) EXCEPT ![d][c] = Tail(inbox[d][c])]
  <2>1. Acts(d, c)
    BY <1>5, <1>6 DEF Present, MustAdopt
  <2> QED BY <1>1, <1>2, <2>1
<1>7. CASE \E e \in Clients : /\ phase[c] = "present" /\ HasRoom(c)
                              /\ color' = [color EXCEPT ![c] = LowestFreeColor(c, v)]
                              /\ inbox' = [Announced(c, LowestFreeColor(c, v))
                                              EXCEPT ![d][c] = Tail(inbox[d][c])]
  <2>1. Acts(d, c)
    BY <1>5, <1>7 DEF Present
  <2> QED BY <1>1, <1>2, <2>1
<1>8. CASE /\ phase[c] = "present" => ~\E e \in Clients : MustAdopt(c, v, e) \/ MustYield(c, v, e)
           /\ inbox' = [inbox EXCEPT ![d][c] = Tail(inbox[d][c])]
           /\ color' = color
  <2>1. c \notin Torn'
    <3> HIDE DEF v
    <3> QED BY <1>1, <1>4, <1>8 DEF Torn, Present, MustAdopt, MustYield, Strangers, Tabs, Seen
  <2> QED BY <1>1, <1>2, <1>8, <2>1
<1>9. \A k : Announced(c, k)[d][c] = inbox[d][c]
  BY <1>2 DEF Announced, ColorInv, ColorTypeOK
<1>10. (\E e \in Clients : /\ phase[c] = "present" /\ HasRoom(c) /\ MustAdopt(c, v, e)
                            /\ color' = [color EXCEPT ![c] = v[e]]
                            /\ inbox' = [Announced(c, v[e]) EXCEPT ![d][c] = Tail(inbox[d][c])])
       \/ (\E e \in Clients : /\ phase[c] = "present" /\ HasRoom(c)
                              /\ color' = [color EXCEPT ![c] = LowestFreeColor(c, v)]
                              /\ inbox' = [Announced(c, LowestFreeColor(c, v))
                                              EXCEPT ![d][c] = Tail(inbox[d][c])])
       \/ (/\ phase[c] = "present" => ~\E e \in Clients : MustAdopt(c, v, e) \/ MustYield(c, v, e)
           /\ inbox' = [inbox EXCEPT ![d][c] = Tail(inbox[d][c])]
           /\ color' = color)
  BY <1>9 DEF Deliver
<1> QED BY <1>6, <1>7, <1>8, <1>10

LEMMA LeaveFacts ==
  ASSUME ColorInv, NEW c \in Clients, Leave(c)
  PROVE  /\ phase[c] = "present" /\ phase' = [phase EXCEPT ![c] = "left"]
         /\ userOf' = userOf /\ view' = view
         /\ color' = [color EXCEPT ![c] = NoColor]
         /\ heard' = heard \ {c}
         /\ inbox' \in Boxes
         /\ \A x, y \in Clients : inbox'[x][y] = IF y = c THEN <<>> ELSE Announced(c, NoColor)[x][y]
<1>1. NoColor \in Shades /\ ColorTypeOK
  BY DEF Shades, ColorInv
<1>2. Announced(c, NoColor) \in Boxes
  BY <1>1, AnnouncedFacts
<1>3. \A x \in Clients :
        [Announced(c, NoColor)[x] EXCEPT ![c] = <<>>] \in [Clients -> Seq(Shades)]
  BY <1>2 DEF Boxes
<1> QED BY <1>2, <1>3 DEF Leave, Boxes

\* The messages after a delivery the resolver acts on.
LEMMA ActsBoxes ==
  ASSUME ColorInv, NEW c \in Clients, NEW d \in Clients, c # d, inbox[d][c] # <<>>, Acts(d, c)
  PROVE  \E k \in Colors :
           /\ color' = [color EXCEPT ![c] = k]
           /\ inbox' \in Boxes
           /\ \A x, y \in Clients :
                inbox'[x][y] = IF x = d /\ y = c THEN Tail(inbox[d][c])
                               ELSE IF x = c /\ y # c /\ Connected(y) THEN Append(inbox[c][y], k)
                               ELSE inbox[x][y]
<1>1. PICK k \in Colors : /\ color' = [color EXCEPT ![c] = k]
                          /\ inbox' = [Announced(c, k) EXCEPT ![d][c] = Tail(inbox[d][c])]
  BY DEF Acts
<1>2. ColorTypeOK /\ k \in Shades
  BY DEF ColorInv, Shades
<1>3. /\ Announced(c, k) \in Boxes
      /\ \A x, y \in Clients :
           Announced(c, k)[x][y] = IF x = c /\ y # c /\ Connected(y)
                                     THEN Append(inbox[c][y], k) ELSE inbox[x][y]
  BY <1>2, AnnouncedFacts
<1>4. Tail(inbox[d][c]) \in Seq(Shades)
  BY <1>2 DEF ColorTypeOK, Shades
<1>5. inbox' \in Boxes /\ \A x, y \in Clients :
         inbox'[x][y] = IF x = d /\ y = c THEN Tail(inbox[d][c]) ELSE Announced(c, k)[x][y]
  BY <1>1, <1>3, <1>4 DEF Boxes
<1>6. ASSUME NEW x \in Clients, NEW y \in Clients
      PROVE  inbox'[x][y] = IF x = d /\ y = c THEN Tail(inbox[d][c])
                            ELSE IF x = c /\ y # c /\ Connected(y) THEN Append(inbox[c][y], k)
                            ELSE inbox[x][y]
  BY <1>3, <1>5
<1> QED BY <1>1, <1>5, <1>6

LEMMA TypeStep ==
  ASSUME ColorInv, [ColorNext]_colorVars
  PROVE  ColorTypeOK'
<1> USE DEF ColorTypeOK, ColorInv, Shades, Present
<1>1. NoColor \notin Colors
  BY PaletteAssumption DEF NoColor, Colors
<1>2. ASSUME NEW c \in Clients, Open(c) PROVE ColorTypeOK'
  BY <1>2, OpenFacts DEF Boxes
<1>3. ASSUME NEW c \in Clients, Claim(c) PROVE ColorTypeOK'
  <2>1. PICK k \in Colors : color' = [color EXCEPT ![c] = k] /\ inbox' = Announced(c, k)
    BY <1>3, ClaimFacts
  <2>2. inbox' \in Boxes
    BY <2>1, AnnouncedFacts
  <2>3. /\ phase' = [phase EXCEPT ![c] = "present"] /\ userOf' = userOf /\ view' = view
        /\ heard' = heard
    BY <1>3, ClaimFacts
  <2> QED BY <1>1, <2>1, <2>2, <2>3 DEF Boxes
<1>4. ASSUME NEW c \in Clients, Leave(c) PROVE ColorTypeOK'
  <2>1. /\ phase' = [phase EXCEPT ![c] = "left"] /\ userOf' = userOf /\ view' = view
        /\ color' = [color EXCEPT ![c] = NoColor] /\ heard' = heard \ {c}
        /\ inbox' \in Boxes
    BY <1>4, LeaveFacts
  <2>2. \A x \in Clients : (color'[x] # NoColor) <=> (phase'[x] = "present")
    BY <1>1, <2>1
  <2>3. heard' \subseteq {x \in Clients : phase'[x] = "present"}
    BY <2>1
  <2> QED BY <2>1, <2>2, <2>3 DEF Boxes
<1>5. ASSUME NEW c \in Clients, NEW d \in Clients, Deliver(d, c) PROVE ColorTypeOK'
  <2>1. /\ inbox[d][c] # <<>> /\ c # d /\ userOf' = userOf /\ phase' = phase
        /\ view' = [view EXCEPT ![c] = [view[c] EXCEPT ![d] = Head(inbox[d][c])]]
        /\ heard' \subseteq heard \cup ({c} \cap Present)
    BY <1>5, DeliverFacts
  <2>2. view' \in [Clients -> [Clients -> Shades]]
    BY <2>1
  <2>3. CASE Acts(d, c)
    <3>1. PICK k \in Colors : color' = [color EXCEPT ![c] = k] /\ inbox' \in Boxes
      BY <2>1, <2>3, ActsBoxes
    <3>2. phase[c] = "present"
      BY <2>3 DEF Acts
    <3> QED BY <1>1, <2>1, <2>2, <3>1, <3>2 DEF Boxes
  <2>4. CASE color' = color /\ inbox' = [inbox EXCEPT ![d][c] = Tail(inbox[d][c])]
    BY <2>1, <2>2, <2>4
  <2> QED BY <1>5, <2>3, <2>4, DeliverFacts
<1>6. CASE UNCHANGED colorVars
  BY <1>6 DEF colorVars
<1> QED BY <1>2, <1>3, <1>4, <1>5, <1>6 DEF ColorNext

LEMMA ApartStep ==
  ASSUME ColorInv, [ColorNext]_colorVars
  PROVE  ApartInv'
<1> USE DEF ColorInv, ApartInv, Connected
<1>0. ColorTypeOK
  OBVIOUS
<1>1. ASSUME NEW c \in Clients, Open(c) PROVE ApartInv'
  <2>1. /\ phase[c] = "away" /\ phase' = [phase EXCEPT ![c] = "open"] /\ view' = view
        /\ \A x, y \in Clients :
             inbox'[x][y] = IF y = c /\ phase[x] = "present" THEN <<color[x]>> ELSE inbox[x][y]
    BY <1>1, OpenFacts
  <2> SUFFICES ASSUME NEW x \in Clients, NEW y \in Clients
               PROVE  /\ ~Connected(y)' \/ x = y => inbox'[x][y] = <<>>
                      /\ phase'[y] = "away" => view'[y][x] = NoColor
    OBVIOUS
  <2>2. phase'[y] = IF y = c THEN "open" ELSE phase[y]
    BY <1>0, <2>1 DEF ColorTypeOK
  <2>3. CASE y = c
    BY <2>1, <2>2, <2>3
  <2>4. CASE y # c
    <3>1. /\ ~Connected(y) \/ x = y => inbox[x][y] = <<>>
          /\ phase[y] = "away" => view[y][x] = NoColor
      OBVIOUS
    <3>2. inbox'[x][y] = inbox[x][y] /\ phase'[y] = phase[y]
      BY <2>1, <2>2, <2>4
    <3> QED BY <2>1, <3>1, <3>2
  <2> QED BY <2>3, <2>4
<1>2. ASSUME NEW c \in Clients, Claim(c) PROVE ApartInv'
  <2>1. PICK k \in Colors : inbox' = Announced(c, k)
    BY <1>2, ClaimFacts
  <2>2. \A x, y \in Clients : inbox'[x][y] = IF x = c /\ y # c /\ Connected(y)
                                              THEN Append(inbox[c][y], k) ELSE inbox[x][y]
    BY <1>0, <2>1, AnnouncedFacts DEF Shades
  <2>3. phase[c] = "open" /\ phase' = [phase EXCEPT ![c] = "present"] /\ view' = view
    BY <1>2, ClaimFacts
  <2> QED BY <1>0, <2>2, <2>3 DEF ColorTypeOK
<1>3. ASSUME NEW c \in Clients, Leave(c) PROVE ApartInv'
  <2>1. \A x, y \in Clients : inbox'[x][y] = IF y = c THEN <<>> ELSE Announced(c, NoColor)[x][y]
    BY <1>3, LeaveFacts
  <2>2. \A x, y \in Clients : Announced(c, NoColor)[x][y] =
           IF x = c /\ y # c /\ Connected(y) THEN Append(inbox[c][y], NoColor) ELSE inbox[x][y]
    BY <1>0, AnnouncedFacts DEF Shades
  <2>3. phase' = [phase EXCEPT ![c] = "left"] /\ view' = view
    BY <1>3, LeaveFacts
  <2> QED BY <1>0, <2>1, <2>2, <2>3 DEF ColorTypeOK
<1>4. ASSUME NEW c \in Clients, NEW d \in Clients, Deliver(d, c) PROVE ApartInv'
  <2>1. /\ inbox[d][c] # <<>> /\ c # d /\ Connected(c) /\ phase' = phase
        /\ view' = [view EXCEPT ![c] = [view[c] EXCEPT ![d] = Head(inbox[d][c])]]
    BY <1>4, DeliverFacts
  <2>2. CASE Acts(d, c)
    <3>1. PICK k \in Colors : \A x, y \in Clients :
                inbox'[x][y] = IF x = d /\ y = c THEN Tail(inbox[d][c])
                               ELSE IF x = c /\ y # c /\ Connected(y) THEN Append(inbox[c][y], k)
                               ELSE inbox[x][y]
      BY <2>1, <2>2, ActsBoxes
    <3> QED BY <1>0, <2>1, <3>1 DEF ColorTypeOK
  <2>3. CASE inbox' = [inbox EXCEPT ![d][c] = Tail(inbox[d][c])]
    BY <1>0, <2>1, <2>3 DEF ColorTypeOK
  <2> QED BY <1>4, <2>2, <2>3, DeliverFacts
<1>5. CASE UNCHANGED colorVars
  BY <1>5 DEF colorVars
<1> QED BY <1>1, <1>2, <1>3, <1>4, <1>5 DEF ColorNext

\* A message joins the channel at its end and leaves it at its head.
LEMMA LateFacts ==
  ASSUME NEW S, NEW q \in Seq(S), NEW k
  PROVE  /\ \A m \in S : Late(Append(q, m), k) = m
         /\ q # <<>> => Late(Tail(q), Head(q)) = Late(q, k)
<1>1. ASSUME NEW m \in S PROVE Late(Append(q, m), k) = m
  <2> DEFINE r == Append(q, m)
  <2>1. r # <<>> /\ r[Len(r)] = m
    OBVIOUS
  <2> QED BY <2>1 DEF Late
<1>2. ASSUME q # <<>> PROVE Late(Tail(q), Head(q)) = Late(q, k)
  <2> DEFINE r == Tail(q)
  <2>1. /\ r \in Seq(S) /\ Len(r) = Len(q) - 1 /\ Len(q) \in Nat \ {0} /\ Head(q) = q[1]
        /\ \A i \in 1..Len(q) - 1 : r[i] = q[i + 1]
    BY <1>2, EmptySeq
  <2>2. r = <<>> <=> Len(q) = 1
    BY <2>1, EmptySeq
  <2> HIDE DEF r
  <2>3. r # <<>> => r[Len(r)] = q[Len(q)]
    BY <2>1, <2>2
  <2> QED BY <1>2, <2>1, <2>2, <2>3 DEF Late, r
<1> QED BY <1>1, <1>2

\* What each connected client gets of c's new colour k keeps it told.
Posted(c, k) ==
  \A x \in Clients : Connected(x)' =>
    /\ Connected(x)
    /\ \A y \in Clients \ {x} :
         inbox'[y][x] = IF y = c THEN Append(inbox[c][x], k) ELSE inbox[y][x]

LEMMA PostedTold ==
  ASSUME ColorTypeOK, ToldInv, NEW c \in Clients, NEW k \in Shades,
         view' = view, color' = [color EXCEPT ![c] = k], Posted(c, k)
  PROVE  ToldInv'
<1> SUFFICES ASSUME NEW x \in Clients, NEW y \in Clients, x # y, Connected(x)' PROVE Told(x, y)'
  BY DEF ToldInv
<1>1. /\ Connected(x) /\ Told(x, y) /\ inbox[y][x] \in Seq(Shades)
      /\ inbox'[y][x] = IF y = c THEN Append(inbox[c][x], k) ELSE inbox[y][x]
  BY DEF Posted, ToldInv, ColorTypeOK, Shades
<1>2. color'[y] = IF y = c THEN k ELSE color[y]
  BY DEF ColorTypeOK
<1>3. CASE y = c
  BY <1>1, <1>2, <1>3, LateFacts DEF Told
<1>4. CASE y # c
  BY <1>1, <1>2, <1>4 DEF Told
<1> QED BY <1>3, <1>4

LEMMA ToldStep ==
  ASSUME ColorInv, [ColorNext]_colorVars
  PROVE  ToldInv'
<1>0. ColorTypeOK /\ ApartInv /\ ToldInv
  BY DEF ColorInv
<1>1. ASSUME NEW c \in Clients, Open(c) PROVE ToldInv'
  <2>1. /\ phase[c] = "away" /\ phase' = [phase EXCEPT ![c] = "open"]
        /\ color' = color /\ view' = view
        /\ \A x, y \in Clients :
             inbox'[x][y] = IF y = c /\ phase[x] = "present" THEN <<color[x]>> ELSE inbox[x][y]
    BY <1>1, OpenFacts
  <2> SUFFICES ASSUME NEW x \in Clients, NEW y \in Clients, x # y, Connected(x)' PROVE Told(x, y)'
    BY DEF ToldInv
  <2>2. CASE x = c /\ phase[y] = "present"
    <3>1. inbox'[y][x] = <<color[y]>>
      BY <2>1, <2>2
    <3>2. Late(<<color[y]>>, view[x][y]) = color[y]
      BY DEF Late
    <3> QED BY <2>1, <3>1, <3>2 DEF Told
  <2>3. CASE x = c /\ phase[y] # "present"
    <3>1. color[y] = NoColor
      BY <1>0, <2>3 DEF ColorTypeOK, Present
    <3>2. inbox[y][x] = <<>> /\ view[x][y] = NoColor
      BY <1>0, <2>1, <2>3 DEF ApartInv, Connected
    <3> QED BY <2>1, <2>3, <3>1, <3>2 DEF Told, Late
  <2>4. CASE x # c
    <3>1. Connected(x) /\ inbox'[y][x] = inbox[y][x]
      BY <1>0, <2>1, <2>4 DEF Connected, ColorTypeOK
    <3> QED BY <1>0, <2>1, <3>1 DEF Told, ToldInv
  <2> QED BY <2>2, <2>3, <2>4
<1>2. ASSUME NEW c \in Clients, Claim(c) PROVE ToldInv'
  <2>1. PICK k \in Colors : color' = [color EXCEPT ![c] = k] /\ inbox' = Announced(c, k)
    BY <1>2, ClaimFacts
  <2>2. phase[c] = "open" /\ phase' = [phase EXCEPT ![c] = "present"] /\ view' = view
    BY <1>2, ClaimFacts
  <2>3. k \in Shades
    BY DEF Shades
  <2>4. \A x, y \in Clients : inbox'[x][y] = IF x = c /\ y # c /\ Connected(y)
                                              THEN Append(inbox[c][y], k) ELSE inbox[x][y]
    BY <1>0, <2>1, <2>3, AnnouncedFacts
  <2>5. Posted(c, k)
    BY <1>0, <2>2, <2>4 DEF Posted, Connected, ColorTypeOK
  <2> QED BY <1>0, <2>1, <2>2, <2>3, <2>5, PostedTold
<1>3. ASSUME NEW c \in Clients, Leave(c) PROVE ToldInv'
  <2>1. /\ phase' = [phase EXCEPT ![c] = "left"] /\ view' = view
        /\ color' = [color EXCEPT ![c] = NoColor]
        /\ \A x, y \in Clients : inbox'[x][y] = IF y = c THEN <<>> ELSE Announced(c, NoColor)[x][y]
    BY <1>3, LeaveFacts
  <2>2. NoColor \in Shades
    BY DEF Shades
  <2>3. \A x, y \in Clients : Announced(c, NoColor)[x][y] =
           IF x = c /\ y # c /\ Connected(y) THEN Append(inbox[c][y], NoColor) ELSE inbox[x][y]
    BY <1>0, <2>2, AnnouncedFacts
  <2>4. Posted(c, NoColor)
    BY <1>0, <2>1, <2>3 DEF Posted, Connected, ColorTypeOK
  <2> QED BY <1>0, <2>1, <2>2, <2>4, PostedTold
<1>4. ASSUME NEW c \in Clients, NEW d \in Clients, Deliver(d, c) PROVE ToldInv'
  <2>1. /\ inbox[d][c] # <<>> /\ c # d /\ Connected(c) /\ phase' = phase
        /\ view' = [view EXCEPT ![c] = [view[c] EXCEPT ![d] = Head(inbox[d][c])]]
    BY <1>4, DeliverFacts
  <2>2. \E k \in Shades :
          /\ color' = [color EXCEPT ![c] = k]
          /\ \/ \A x, y \in Clients :
                   inbox'[x][y] = IF x = d /\ y = c THEN Tail(inbox[d][c])
                                  ELSE IF x = c /\ y # c /\ Connected(y) THEN Append(inbox[c][y], k)
                                  ELSE inbox[x][y]
             \/ /\ k = color[c]
                /\ \A x, y \in Clients :
                     inbox'[x][y] = IF x = d /\ y = c THEN Tail(inbox[d][c]) ELSE inbox[x][y]
    <3>1. CASE Acts(d, c)
      <4>1. ColorInv
        OBVIOUS
      <4> QED BY <2>1, <3>1, <4>1, ActsBoxes DEF Shades
    <3>2. CASE color' = color /\ inbox' = [inbox EXCEPT ![d][c] = Tail(inbox[d][c])]
      <4>1. color[c] \in Shades /\ color' = [color EXCEPT ![c] = color[c]]
        BY <1>0, <3>2 DEF ColorTypeOK, Shades
      <4>2. \A x, y \in Clients :
              inbox'[x][y] = IF x = d /\ y = c THEN Tail(inbox[d][c]) ELSE inbox[x][y]
        BY <1>0, <3>2 DEF ColorTypeOK
      <4> QED BY <4>1, <4>2
    <3> QED BY <1>4, <3>1, <3>2, DeliverFacts
  <2>3. PICK k \in Shades :
          /\ color' = [color EXCEPT ![c] = k]
          /\ \/ \A x, y \in Clients :
                   inbox'[x][y] = IF x = d /\ y = c THEN Tail(inbox[d][c])
                                  ELSE IF x = c /\ y # c /\ Connected(y) THEN Append(inbox[c][y], k)
                                  ELSE inbox[x][y]
             \/ /\ k = color[c]
                /\ \A x, y \in Clients :
                     inbox'[x][y] = IF x = d /\ y = c THEN Tail(inbox[d][c]) ELSE inbox[x][y]
    BY <2>2
  <2> SUFFICES ASSUME NEW x \in Clients, NEW y \in Clients, x # y, Connected(x)' PROVE Told(x, y)'
    BY DEF ToldInv
  <2>4. Told(x, y) /\ Connected(x) /\ inbox[y][x] \in Seq(Shades)
    BY <1>0, <2>1 DEF ToldInv, Connected, ColorTypeOK, Shades
  <2>5. CASE x = c /\ y = d
    <3>1. color'[y] = color[y]
      BY <1>0, <2>1, <2>3, <2>5 DEF ColorTypeOK
    <3>2. inbox'[y][x] = Tail(inbox[y][x])
      BY <2>3, <2>5
    <3>3. view'[x][y] = Head(inbox[y][x])
      BY <1>0, <2>1, <2>5 DEF ColorTypeOK
    <3>4. Late(Tail(inbox[y][x]), Head(inbox[y][x])) = Late(inbox[y][x], view[x][y])
      BY <2>1, <2>4, <2>5, LateFacts
    <3> QED BY <2>4, <3>1, <3>2, <3>3, <3>4 DEF Told
  <2>6. CASE y = c
    <3>1. color'[y] = k /\ view'[x] = view[x]
      BY <1>0, <2>1, <2>3, <2>6 DEF ColorTypeOK
    <3>2. inbox'[y][x] = Append(inbox[y][x], k) \/ (k = color[y] /\ inbox'[y][x] = inbox[y][x])
      BY <2>1, <2>3, <2>4, <2>6
    <3>3. Late(Append(inbox[y][x], k), view[x][y]) = k
      BY <2>4, LateFacts
    <3> QED BY <2>4, <3>1, <3>2, <3>3 DEF Told
  <2>7. CASE y # c /\ ~(x = c /\ y = d)
    <3>1. inbox'[y][x] = inbox[y][x]
      BY <2>3, <2>7
    <3>2. color'[y] = color[y]
      BY <1>0, <2>3, <2>7 DEF ColorTypeOK
    <3>3. view'[x][y] = view[x][y]
      BY <1>0, <2>1, <2>7 DEF ColorTypeOK
    <3> QED BY <2>4, <3>1, <3>2, <3>3 DEF Told
  <2> QED BY <2>5, <2>6, <2>7
<1>5. CASE UNCHANGED colorVars
  BY <1>0, <1>5 DEF colorVars, ToldInv, Told, Connected
<1> QED BY <1>1, <1>2, <1>3, <1>4, <1>5 DEF ColorNext

\* Who acts has told the other connected clients, the others have changed nothing:
\* what AnsweredInv and ChosenInv take of a step of c.
Kept(c) ==
  /\ \A x \in Clients \ {c} : x \in Torn' => x \in Torn /\ (Chosen(x) => Chosen(x)')
  /\ \A x, y \in Clients \ {c} : x \in Torn' /\ inbox[x][y] # <<>> => inbox'[x][y] # <<>>
  /\ c \in Torn' => /\ Chosen(c)'
                    /\ \A x \in Clients \ {c} : x \in Torn' => inbox'[c][x] # <<>>

LEMMA KeptInvs ==
  ASSUME AnsweredInv, ChosenInv, NEW c \in Clients, Kept(c)
  PROVE  AnsweredInv' /\ ChosenInv'
<1>1. \A x \in Torn' : x \in Clients
  BY DEF Torn, Present
<1>2. ASSUME NEW x \in Torn' PROVE Chosen(x)'
  BY <1>1 DEF Kept, ChosenInv
<1>3. ASSUME NEW x \in Torn', NEW y \in Torn'
      PROVE  x = y \/ inbox'[x][y] # <<>> \/ inbox'[y][x] # <<>>
  <2>1. CASE x = c \/ y = c
    BY <1>1, <2>1 DEF Kept
  <2>2. CASE x # c /\ y # c
    <3>1. x \in Torn /\ y \in Torn
      BY <1>1, <2>2 DEF Kept
    <3>2. x = y \/ inbox[x][y] # <<>> \/ inbox[y][x] # <<>>
      BY <3>1 DEF AnsweredInv
    <3> QED BY <1>1, <2>2, <3>2 DEF Kept
  <2> QED BY <2>1, <2>2
<1> QED BY <1>2, <1>3 DEF AnsweredInv, ChosenInv

LEMMA ChoiceStep ==
  ASSUME ColorInv, [ColorNext]_colorVars
  PROVE  AnsweredInv' /\ ChosenInv'
<1>0. ColorTypeOK /\ AnsweredInv /\ ChosenInv
  BY DEF ColorInv
<1>1. ASSUME NEW c \in Clients, Open(c) PROVE Kept(c)
  <2>1. /\ phase' = [phase EXCEPT ![c] = "open"]
        /\ userOf' = userOf /\ color' = color /\ view' = view /\ heard' = heard
        /\ \A x, y \in Clients :
             inbox'[x][y] = IF y = c /\ phase[x] = "present" THEN <<color[x]>> ELSE inbox[x][y]
    BY <1>1, OpenFacts
  <2>2. \A x \in Clients \ {c} : x \in Torn' => x \in Torn /\ (Chosen(x) => Chosen(x)')
    BY <1>0, <2>1, TornSame DEF ColorTypeOK
  <2>3. c \notin Torn'
    BY <1>0, <2>1 DEF Torn, Present, ColorTypeOK
  <2> QED BY <2>1, <2>2, <2>3 DEF Kept
<1>2. ASSUME NEW c \in Clients, Claim(c) PROVE Kept(c)
  <2>1. PICK k \in Colors : color' = [color EXCEPT ![c] = k] /\ inbox' = Announced(c, k)
    BY <1>2, ClaimFacts
  <2>2. /\ phase' = [phase EXCEPT ![c] = "present"] /\ userOf' = userOf /\ view' = view
        /\ heard' = heard /\ Chosen(c)'
    BY <1>2, ClaimFacts
  <2>3. k \in Shades
    BY DEF Shades
  <2>4. \A x, y \in Clients : inbox'[x][y] = IF x = c /\ y # c /\ Connected(y)
                                              THEN Append(inbox[c][y], k) ELSE inbox[x][y]
    BY <1>0, <2>1, <2>3, AnnouncedFacts
  <2>5. \A x \in Clients \ {c} : x \in Torn' => x \in Torn /\ (Chosen(x) => Chosen(x)')
    BY <1>0, <2>1, <2>2, TornSame DEF ColorTypeOK
  <2>6. \A x \in Clients \ {c} : x \in Torn' => inbox'[c][x] # <<>>
    <3> SUFFICES ASSUME NEW x \in Clients \ {c}, x \in Torn' PROVE inbox'[c][x] # <<>>
      OBVIOUS
    <3>1. Connected(x)
      BY <2>5 DEF Torn, Present, Connected
    <3>2. inbox'[c][x] = Append(inbox[c][x], k) /\ inbox[c][x] \in Seq(Shades)
      BY <1>0, <2>4, <3>1 DEF ColorTypeOK, Shades
    <3> QED BY <2>3, <3>2
  <2> QED BY <2>2, <2>4, <2>5, <2>6 DEF Kept
<1>3. ASSUME NEW c \in Clients, Leave(c) PROVE Kept(c)
  <2>1. /\ phase' = [phase EXCEPT ![c] = "left"] /\ userOf' = userOf /\ view' = view
        /\ color' = [color EXCEPT ![c] = NoColor] /\ heard' = heard \ {c}
        /\ \A x, y \in Clients : inbox'[x][y] = IF y = c THEN <<>> ELSE Announced(c, NoColor)[x][y]
    BY <1>3, LeaveFacts
  <2>2. NoColor \in Shades
    BY DEF Shades
  <2>3. \A x, y \in Clients : Announced(c, NoColor)[x][y] =
           IF x = c /\ y # c /\ Connected(y) THEN Append(inbox[c][y], NoColor) ELSE inbox[x][y]
    BY <1>0, <2>2, AnnouncedFacts
  <2>4. \A x \in Clients \ {c} : x \in Torn' => x \in Torn /\ (Chosen(x) => Chosen(x)')
    BY <1>0, <2>1, TornSame DEF ColorTypeOK
  <2>5. c \notin Torn'
    BY <1>0, <2>1 DEF Torn, Present, ColorTypeOK
  <2> QED BY <2>1, <2>3, <2>4, <2>5 DEF Kept
<1>4. ASSUME NEW c \in Clients, NEW d \in Clients, Deliver(d, c) PROVE Kept(c)
  <2>1. /\ inbox[d][c] # <<>> /\ c # d /\ userOf' = userOf /\ phase' = phase
        /\ view' = [view EXCEPT ![c] = [view[c] EXCEPT ![d] = Head(inbox[d][c])]]
        /\ heard' \subseteq heard \cup ({c} \cap Present)
    BY <1>4, DeliverFacts
  <2>2. \A x \in Clients \ {c} : view'[x] = view[x] /\ (x \in heard' => x \in heard)
    BY <1>0, <2>1 DEF ColorTypeOK
  <2>3. CASE Acts(d, c)
    <3>1. PICK k \in Colors :
           /\ color' = [color EXCEPT ![c] = k]
           /\ \A x, y \in Clients :
                inbox'[x][y] = IF x = d /\ y = c THEN Tail(inbox[d][c])
                               ELSE IF x = c /\ y # c /\ Connected(y) THEN Append(inbox[c][y], k)
                               ELSE inbox[x][y]
      BY <2>1, <2>3, ActsBoxes
    <3>2. \A x \in Clients \ {c} : x \in Torn' => x \in Torn /\ (Chosen(x) => Chosen(x)')
      BY <1>0, <2>1, <2>2, <3>1, TornSame DEF ColorTypeOK
    <3>3. \A x \in Clients \ {c} : x \in Torn' => inbox'[c][x] # <<>>
      <4> SUFFICES ASSUME NEW x \in Clients \ {c}, x \in Torn' PROVE inbox'[c][x] # <<>>
        OBVIOUS
      <4>1. Connected(x)
        BY <3>2 DEF Torn, Present, Connected
      <4>2. inbox'[c][x] = Append(inbox[c][x], k) /\ inbox[c][x] \in Seq(Shades)
        BY <1>0, <2>1, <3>1, <4>1 DEF ColorTypeOK, Shades
      <4> QED BY <4>2
    <3>4. Chosen(c)'
      BY <2>3 DEF Acts
    <3> QED BY <3>1, <3>2, <3>3, <3>4 DEF Kept
  <2>4. CASE /\ color' = color /\ inbox' = [inbox EXCEPT ![d][c] = Tail(inbox[d][c])]
             /\ c \notin Torn'
    <3>1. \A x \in Clients \ {c} : x \in Torn' => x \in Torn /\ (Chosen(x) => Chosen(x)')
      BY <2>1, <2>2, <2>4, TornSame
    <3>2. \A x, y \in Clients \ {c} : inbox'[x][y] = inbox[x][y]
      BY <1>0, <2>4 DEF ColorTypeOK
    <3> QED BY <2>4, <3>1, <3>2 DEF Kept
  <2> QED BY <1>4, <2>3, <2>4, DeliverFacts
<1>5. CASE UNCHANGED colorVars
  <2>1. \A x \in Clients : /\ x \in Torn' => x \in Torn
                           /\ Chosen(x) => Chosen(x)'
    BY <1>5, TornSame DEF colorVars
  <2> QED BY <1>0, <1>5, <2>1 DEF AnsweredInv, ChosenInv, colorVars, Torn, Present
<1> QED BY <1>0, <1>1, <1>2, <1>3, <1>4, <1>5, KeptInvs DEF ColorNext

LEMMA ColorInvInit == ColorInit => ColorInv
<1> SUFFICES ASSUME ColorInit PROVE ColorInv
  OBVIOUS
<1>1. ColorTypeOK
  <2>1. NoColor \in Shades /\ <<>> \in Seq(Colors \cup {NoColor})
    BY DEF Shades
  <2> QED BY <2>1 DEF ColorInit, ColorTypeOK, Present, Shades
<1>2. Torn = {}
  BY DEF ColorInit, Torn, Present
<1>3. ApartInv /\ ToldInv
  BY DEF ColorInit, ApartInv, ToldInv, Told, Late, Connected
<1> QED BY <1>1, <1>2, <1>3 DEF ColorInv, AnsweredInv, ChosenInv

LEMMA ColorInvariance == ColorSpec => []ColorInv
<1>1. ColorInv /\ [ColorNext]_colorVars => ColorInv'
  BY TypeStep, ApartStep, ToldStep, ChoiceStep DEF ColorInv
<1> QED BY <1>1, ColorInvInit, PTL DEF ColorSpec

-----------------------------------------------------------------------------
(* A quiet room.                                                           *)

\* Whoever does not wait for a delivery has its user's colour, and no other user's.
LEMMA SettledAgree ==
  ASSUME ColorInv, Quiet, NEW c \in Present \ Torn, NEW d \in Present \ Torn
  PROVE  color[c] = color[d] <=> userOf[c] = userOf[d]
<1>1. ASSUME NEW x \in Present, NEW y \in Present, x < y,
             ~(color[x] = color[y] <=> userOf[x] = userOf[y])
      PROVE  y \in Torn
  <2>1. x \in Clients /\ y \in Clients /\ x # y /\ Connected(y)
    BY <1>1, ClientsAssumption DEF Present, Connected
  <2>2. Told(y, x) /\ inbox[x][y] = <<>>
    BY <2>1 DEF ColorInv, ToldInv, Quiet
  <2>3. view[y][x] = color[x] /\ color[x] # NoColor
    BY <2>1, <2>2 DEF Told, Late, ColorInv, ColorTypeOK
  <2>4. MustAdopt(y, view[y], x) \/ MustYield(y, view[y], x)
    BY <1>1, <2>1, <2>3 DEF MustAdopt, MustYield, Strangers, Tabs, Seen
  <2> QED BY <2>1, <2>4 DEF Torn
<1>2. c \in Nat /\ d \in Nat
  BY ClientsAssumption DEF Present
<1>3. CASE c < d
  BY <1>1, <1>3
<1>4. CASE d < c
  BY <1>1, <1>4
<1>5. CASE c = d
  BY <1>5
<1> QED BY <1>2, <1>3, <1>4, <1>5

LEMMA OneTorn ==
  ASSUME ColorInv, Quiet, NEW c \in Torn, NEW d \in Torn
  PROVE  c = d
BY DEF ColorInv, AnsweredInv, Quiet, Torn, Present

(***************************************************************************)
(* Of two tabs that wait for a delivery one has claimed last and the other *)
(* gets that claim: once every claim has been seen, one tab of the room at *)
(* most shows another colour than its user's others (resolveCollisionOnce).*)
(***************************************************************************)
THEOREM OneColorPerUserButOne == ColorSpec => []OneColorPerUser
<1>1. ColorInv => OneColorPerUser
  BY SettledAgree, OneTorn DEF OneColorPerUser
<1> QED BY <1>1, ColorInvariance, PTL

LEMMA UsersFinite == IsFiniteSet(Users) /\ Cardinality(Users) \in Nat
<1> DEFINE f == [c \in Present |-> userOf[c]]
<1>1. IsFiniteSet(Present)
  <2>1. Present \in SUBSET Clients
    BY DEF Present
  <2> QED BY <2>1, ClientsAssumption, FS_Subset
<1>2. f \in Surjection(Present, Users)
  BY DEF Surjection, Users
<1>3. IsFiniteSet(Users)
  BY <1>1, <1>2, FS_Surjection
<1> QED BY <1>3, FS_CardinalityType

LEMMA ColorsFinite == IsFiniteSet(Colors) /\ Cardinality(Colors) = Palette
<1>1. Palette \in Nat /\ Palette # 0
  BY PaletteAssumption
<1>2. 0 \in Int /\ Palette - 1 \in Int
  BY <1>1
<1>3. IsFiniteSet(0 .. Palette - 1) /\
      Cardinality(0 .. Palette - 1) = IF 0 > Palette - 1 THEN 0 ELSE (Palette - 1) - 0 + 1
  BY <1>2, FS_Interval
<1> QED BY <1>1, <1>3 DEF Colors

\* While the palette has enough colours one of them is not held by another user.
LEMMA SomeFree ==
  ASSUME ColorInv, Quiet, Cardinality(Users) + Cardinality(Reserved) <= Palette,
         NEW c \in Torn
  PROVE  \E k \in Colors : Free(c, k)
<1> DEFINE Rest == {d \in Present \ {c} : userOf[d] # userOf[c]}
           Others == Users \ {userOf[c]}
           Hues == {color[d] : d \in Rest}
           f == [u \in Others |-> color[CHOOSE d \in Rest : userOf[d] = u]]
<1>1. c \in Present /\ c \in Clients /\ Rest \subseteq Present \ Torn
  BY OneTorn DEF Torn, Present
<1>2. f \in Surjection(Others, Hues)
  <2>1. \A u \in Others : \E d \in Rest : userOf[d] = u
    BY DEF Users
  <2>2. \A u \in Others : /\ (CHOOSE d \in Rest : userOf[d] = u) \in Rest
                          /\ userOf[CHOOSE d \in Rest : userOf[d] = u] = u
    BY <2>1
  <2>3. f \in [Others -> Hues]
    BY <2>2
  <2>4. ASSUME NEW d \in Rest PROVE \E u \in Others : f[u] = color[d]
    <3>1. userOf[d] \in Others
      BY DEF Users
    <3> DEFINE e == CHOOSE e \in Rest : userOf[e] = userOf[d]
    <3>2. e \in Rest /\ userOf[e] = userOf[d]
      BY <2>2, <3>1
    <3>3. color[e] = color[d]
      <4> HIDE DEF e
      <4> QED BY <1>1, <3>2, SettledAgree
    <3>4. f[userOf[d]] = color[e]
      BY <3>1
    <3> QED BY <3>1, <3>3, <3>4
  <2>5. \A h \in Hues : \E u \in Others : f[u] = h
    <3> HIDE DEF f, Others
    <3> QED BY <2>4
  <2> HIDE DEF f, Others, Hues
  <2> QED BY <2>3, <2>5 DEF Surjection
<1>3. IsFiniteSet(Others) /\ Cardinality(Others) = Cardinality(Users) - 1
  <2>1. userOf[c] \in Users
    BY <1>1 DEF Users
  <2> QED BY <2>1, UsersFinite, FS_RemoveElement
<1>4. IsFiniteSet(Hues) /\ Cardinality(Hues) <= Cardinality(Others)
  <2> HIDE DEF f, Others, Hues
  <2> QED BY <1>2, <1>3, FS_Surjection
<1>5. IsFiniteSet(Reserved)
  BY ColorsFinite, SlotsAssumption, FS_Subset
<1>6. /\ IsFiniteSet(Hues \cup Reserved)
      /\ Cardinality(Hues \cup Reserved) < Palette
  <2> HIDE DEF Hues, Others
  <2>1. /\ IsFiniteSet(Hues \cup Reserved) /\ IsFiniteSet(Hues \cap Reserved)
        /\ Cardinality(Hues \cup Reserved) =
             Cardinality(Hues) + Cardinality(Reserved) - Cardinality(Hues \cap Reserved)
    BY <1>4, <1>5, FS_Union, FS_Intersection
  <2>2. /\ Cardinality(Hues) \in Nat /\ Cardinality(Reserved) \in Nat
        /\ Cardinality(Hues \cap Reserved) \in Nat /\ Cardinality(Users) \in Nat
        /\ Cardinality(Hues \cup Reserved) \in Nat
    BY <1>4, <1>5, <2>1, FS_CardinalityType, UsersFinite
  <2>3. Palette \in Nat
    BY PaletteAssumption
  <2> QED BY <1>3, <1>4, <2>1, <2>2, <2>3
<1>7. ~(Colors \subseteq Hues \cup Reserved)
  <2> HIDE DEF Hues
  <2>1. SUFFICES ASSUME Colors \subseteq Hues \cup Reserved PROVE FALSE
    OBVIOUS
  <2>2. Cardinality(Colors) <= Cardinality(Hues \cup Reserved)
    BY <1>6, <2>1, FS_Subset
  <2>3. Cardinality(Hues \cup Reserved) \in Nat /\ Palette \in Nat
    BY <1>6, FS_CardinalityType, PaletteAssumption
  <2> QED BY <1>6, <2>2, <2>3, ColorsFinite
<1>8. PICK k \in Colors : k \notin Hues /\ k \notin Reserved
  BY <1>7
<1>9. ASSUME NEW d \in Strangers(c, view[c]) PROVE view[c][d] # k
  <2>1. /\ d \in Clients /\ d # c /\ view[c][d] # NoColor /\ userOf[d] # userOf[c]
    BY DEF Strangers, Tabs, Seen
  <2>2. view[c][d] = color[d]
    BY <1>1, <2>1 DEF ColorInv, ToldInv, Told, Late, Quiet, Present, Connected
  <2>3. d \in Rest
    BY <2>1, <2>2 DEF ColorInv, ColorTypeOK
  <2> QED BY <1>8, <2>2, <2>3
<1> QED BY <1>8, <1>9 DEF Free

(***************************************************************************)
(* "N <= palette-size editors always get distinct colors" (presence.ts:64) *)
(* once every claim has been seen, comment authors counted, whatever the   *)
(* order of joins, claims and departures and whatever colours the tabs     *)
(* bring from other rooms, but for a tab that has heard nothing since it   *)
(* joined: one whose resolver has run and that still waits took a colour   *)
(* that was free, or that of a tab of its user which does not wait.        *)
(***************************************************************************)
THEOREM UsersAreDistinct == ColorSpec => []DistinctUsers
<1>1. ColorInv => DistinctUsers
  <2> SUFFICES ASSUME ColorInv, Quiet, Cardinality(Users) + Cardinality(Reserved) <= Palette,
                      NEW c \in Present \ Fresh, NEW d \in Present \ Fresh,
                      userOf[c] # userOf[d]
               PROVE  color[c] # color[d]
    BY DEF DistinctUsers
  <2>1. ASSUME NEW x \in Torn \cap heard, NEW y \in Present, userOf[x] # userOf[y], color[x] = color[y]
        PROVE  FALSE
    <3>1. /\ x \in Clients /\ y \in Clients /\ x # y /\ x \in Present /\ y \notin Torn
      BY <2>1, OneTorn DEF Torn, Present
    <3>2. \A e \in Clients \ {x} : view[x][e] = color[e]
      BY <3>1 DEF ColorInv, ToldInv, Told, Late, Quiet, Present, Connected
    <3>3. y \in Strangers(x, view[x]) /\ view[x][y] = color[x]
      BY <2>1, <3>1, <3>2 DEF Strangers, Tabs, Seen, ColorInv, ColorTypeOK
    <3>4. ~((\E k \in Colors : Free(x, k)) =>
               \A e \in Strangers(x, view[x]) : view[x][e] # color[x])
      BY <3>3, SomeFree
    <3>5. PICK e \in Tabs(x, view[x]) : color[x] = view[x][e]
      BY <3>4 DEF ColorInv, ChosenInv, Chosen
    <3>6. e \in Clients \ {x} /\ color[e] = color[x] /\ userOf[e] = userOf[x] /\ color[e] # NoColor
      BY <3>2, <3>5 DEF Tabs, Seen
    <3>7. e \in Present \ Torn
      BY <3>6, OneTorn DEF ColorInv, ColorTypeOK
    <3> QED BY <2>1, <3>1, <3>6, <3>7, SettledAgree
  <2>2. CASE c \in Torn
    BY <2>1, <2>2 DEF Fresh
  <2>3. CASE d \in Torn
    BY <2>1, <2>3 DEF Fresh
  <2>4. CASE c \notin Torn /\ d \notin Torn
    BY <2>4, SettledAgree
  <2> QED BY <2>2, <2>3, <2>4
<1> QED BY <1>1, ColorInvariance, PTL

(***************************************************************************)
(* Two users more than the palette has colours never come to rest: somebody*)
(* always has a claim to see (presence.ts:90, "fair reuse after").        *)
(***************************************************************************)
THEOREM CrowdsStayRestless == ColorSpec => [](Quiet => Cardinality(Users) <= Palette + 1)
<1>1. ColorInv => (Quiet => Cardinality(Users) <= Palette + 1)
  <2> SUFFICES ASSUME ColorInv, Quiet PROVE Cardinality(Users) <= Palette + 1
    OBVIOUS
  <2> DEFINE Settled == Present \ Torn
             W == {userOf[c] : c \in Settled}
             f == [u \in W |-> color[CHOOSE c \in Settled : userOf[c] = u]]
  <2>1. \A u \in W : /\ (CHOOSE c \in Settled : userOf[c] = u) \in Settled
                     /\ userOf[CHOOSE c \in Settled : userOf[c] = u] = u
    <3>1. \A u \in W : \E c \in Settled : userOf[c] = u
      OBVIOUS
    <3> QED BY <3>1
  <2>2. f \in Injection(W, Colors)
    <3>1. \A c \in Settled : color[c] \in Colors
      BY DEF Present, ColorInv, ColorTypeOK
    <3>2. f \in [W -> Colors]
      BY <2>1, <3>1
    <3>3. ASSUME NEW u \in W, NEW w \in W, f[u] = f[w] PROVE u = w
      <4>1. PICK c \in Settled : userOf[c] = u /\ f[u] = color[c]
        BY <2>1
      <4>2. PICK d \in Settled : userOf[d] = w /\ f[w] = color[d]
        BY <2>1
      <4> HIDE DEF f, W
      <4> QED BY <3>3, <4>1, <4>2, SettledAgree
    <3> HIDE DEF f, W
    <3> QED BY <3>2, <3>3 DEF Injection, IsInjective
  <2>3. /\ IsFiniteSet(W) /\ Cardinality(W) <= Palette
        /\ Cardinality(W) \in Nat
    <3> HIDE DEF f, W
    <3>1. IsFiniteSet(W) /\ Cardinality(W) <= Palette
      BY <2>2, ColorsFinite, FS_Injection
    <3> QED BY <3>1, FS_CardinalityType
  <2>4. PICK w : Users \subseteq W \cup {w}
    <3>1. CASE Torn = {}
      BY <3>1 DEF Users
    <3>2. CASE Torn # {}
      <4>1. PICK c \in Torn : Torn = {c}
        BY <3>2, OneTorn
      <4>2. Users \subseteq W \cup {userOf[c]}
        BY <4>1 DEF Users
      <4> QED BY <4>2
    <3> QED BY <3>1, <3>2
  <2> HIDE DEF W
  <2>5. /\ IsFiniteSet(W \cup {w})
        /\ Cardinality(W \cup {w}) = IF w \in W THEN Cardinality(W) ELSE Cardinality(W) + 1
    BY <2>3, FS_AddElement
  <2>6. Cardinality(Users) <= Cardinality(W \cup {w})
    BY <2>4, <2>5, FS_Subset
  <2>7. Palette \in Nat /\ Cardinality(Users) \in Nat
    BY PaletteAssumption, UsersFinite
  <2> QED BY <2>3, <2>5, <2>6, <2>7
<1> QED BY <1>1, ColorInvariance, PTL
=============================================================================
