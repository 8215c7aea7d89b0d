----------------------------- MODULE FollowUser -----------------------------
(***************************************************************************)
(* Following a peer's view (collab/follow-user.ts) over the viewport wire  *)
(* of presence-kicad.ts and collab_presence_core.h.  An editor publishes   *)
(* the world rectangle it shows, some time after it changed; a follower    *)
(* fits each new rectangle of its leader into its own canvas, which need   *)
(* not have the leader's shape, and tells the user's own moves, which end  *)
(* the follow, from the echoes of its fits.  Every tab is both.            *)
(***************************************************************************)
EXTENDS Naturals, Sequences

CONSTANTS
  Wide,       \* the tabs whose canvas is twice as wide as high; others are square
  Centers,    \* bound: where views are centred
  MaxZoom,    \* the clamp of the canvas's zoom, in units of its smallest half extent
  MaxMoves,   \* bound: moves the users make
  MaxFits     \* bound: fits queued when a follow begins

Viewers == {1, 2}                 \* the tabs of one room
Peer(t) == 3 - t
Shape(t) == IF t \in Wide THEN 2 ELSE 1
Zooms == 1 .. MaxZoom

VARIABLES
  here,      \* here[t]: the tab's presence is bound in the room
  shown,     \* shown[t]: the view on the canvas
  last,      \* the view last emitted: emitViewportIfChanged
  latest,    \* vpLatest, awaiting its publish; Unset when the timer is off
  sent,      \* the awareness state on its way to the peer; Gone when null
  known,     \* known[t]: what t has of the peer's
  target,    \* following the peer
  applied,   \* the rectangle last fitted
  echoed,    \* sawEcho
  silent,    \* history: the last fit of the follow landed and emitted nothing
  fits,      \* fits[t]: bodies on the fiber queue
  moves

followVars == <<here, shown, last, latest, sent, known, target, applied, echoed, silent, fits, moves>>

Views == [at : Centers, zoom : Zooms]
NoRect(why) == [at |-> why, w |-> 0, h |-> 0]
Gone == NoRect("gone")
Unset == NoRect("unset")          \* in the room with no viewport published yet
Rect(t, v) == [at |-> v.at, w |-> Shape(t) * v.zoom, h |-> v.zoom]
Rects == [at : Centers, w : 1 .. 2 * MaxZoom, h : Zooms]

Home == [at |-> CHOOSE p \in Centers : TRUE, zoom |-> 1]

Init ==
  /\ here = [t \in Viewers |-> TRUE]
  /\ shown = [t \in Viewers |-> Home] /\ last = shown
  /\ latest = [t \in Viewers |-> Unset] /\ sent = [t \in Viewers |-> Rect(t, shown[t])]
  /\ known = [t \in Viewers |-> sent[Peer(t)]]
  /\ target = [t \in Viewers |-> FALSE] /\ applied = [t \in Viewers |-> Unset]
  /\ echoed = [t \in Viewers |-> FALSE] /\ silent = echoed
  /\ fits = [t \in Viewers |-> <<>>] /\ moves = 0

TypeOK ==
  /\ here \in [Viewers -> BOOLEAN] /\ shown \in [Viewers -> Views] /\ last \in [Viewers -> Views]
  /\ \A t \in Viewers : latest[t] = Unset \/ latest[t] \in Rects
  /\ \A t \in Viewers : {sent[t], known[t]} \subseteq Rects \cup {Gone, Unset}
  /\ target \in [Viewers -> BOOLEAN] /\ {echoed, silent} \subseteq [Viewers -> BOOLEAN]
  /\ \A t \in Viewers : applied[t] \in Rects \cup {Unset}
  /\ fits \in [Viewers -> Seq(Rects)] /\ moves \in 0 .. MaxMoves

-----------------------------------------------------------------------------
(* The canvas.                                                             *)

MaxOf(S) == CHOOSE x \in S : \A y \in S : y <= x
MinOf(S) == CHOOSE x \in S : \A y \in S : x <= y

\* fitViewport: contain, never crop, as far as the zoom goes.
Contains(t, r) ==
  [at |-> r.at, zoom |-> MinOf({MaxZoom, MaxOf({r.h, (r.w + Shape(t) - 1) \div Shape(t)})})]

\* stop.
Stopped(t) == /\ target' = [target EXCEPT ![t] = FALSE]
              /\ applied' = [applied EXCEPT ![t] = Unset]
              /\ echoed' = [echoed EXCEPT ![t] = FALSE]

\* Awaits the echo of a fit of s, put on the queue of the fiber.
Fits(t, s) == /\ applied' = [applied EXCEPT ![t] = s]
              /\ echoed' = [echoed EXCEPT ![t] = FALSE]
              /\ silent' = [silent EXCEPT ![t] = FALSE]
              /\ fits' = [fits EXCEPT ![t] = Append(@, s)]

\* isEcho: the centre, and the axis the fit was contained by.
IsEcho(r, a) == r.at = a.at /\ (r.w = a.w \/ r.h = a.h)

\* Mutant: the echo of a fit is taken for the user's.
EchoesNever(t, r) == FALSE

Echoes(t, r) == IsEcho(r, applied[t])

\* The editor emits a view: the follow takes it for its echo, or ends; the rectangle
\* is published in a while.  A tab out of the room has no one to hear it.
Emits(t, v) ==
  LET r == Rect(t, v) IN
    /\ last' = [last EXCEPT ![t] = v]
    /\ latest' = IF here[t] THEN [latest EXCEPT ![t] = r] ELSE latest
    /\ IF ~target[t] \/ applied[t] = Unset THEN UNCHANGED <<target, applied, echoed>>
       ELSE IF Echoes(t, r) THEN echoed' = [echoed EXCEPT ![t] = TRUE] /\ UNCHANGED <<target, applied>>
       ELSE IF echoed[t] THEN Stopped(t)
       ELSE UNCHANGED <<target, applied, echoed>>

\* The user pans, zooms or jumps to a comment; the emit comes with a later event.
Moves(t, v) == /\ moves < MaxMoves /\ moves' = moves + 1
               /\ v # shown[t] /\ shown' = [shown EXCEPT ![t] = v]
               /\ UNCHANGED <<here, last, latest, sent, known, target, applied, echoed, silent, fits>>

EmitsMove(t) == /\ last[t] # shown[t] /\ Emits(t, shown[t])
                /\ UNCHANGED <<here, shown, sent, known, silent, fits, moves>>

\* The body of a fit: the view, and its emit unless nothing changed.
Lands(t) ==
  /\ fits[t] # <<>> /\ fits' = [fits EXCEPT ![t] = Tail(@)]
  /\ LET v == Contains(t, Head(fits[t])) IN
       /\ shown' = [shown EXCEPT ![t] = v] /\ silent' = [silent EXCEPT ![t] = (v = last[t])]
       /\ IF v = last[t] THEN UNCHANGED <<last, latest, target, applied, echoed>> ELSE Emits(t, v)
  /\ UNCHANGED <<here, sent, known, moves>>

-----------------------------------------------------------------------------
(* The room.                                                               *)

\* The trailing publish.
Publishes(t) == /\ latest[t] # Unset /\ latest' = [latest EXCEPT ![t] = Unset]
                /\ sent' = [sent EXCEPT ![t] = latest[t]]
                /\ UNCHANGED <<here, shown, last, known, target, applied, echoed, silent, fits, moves>>

\* applyLeader on a change of the roster, s the leader's state: a leader that left
\* ends the follow, a new rectangle is fitted.
Apply(t, s) ==
  IF s = Gone THEN Stopped(t) /\ UNCHANGED <<silent, fits>>
  ELSE IF s \in {Unset, applied[t]} THEN UNCHANGED <<target, applied, echoed, silent, fits>>
  ELSE Fits(t, s) /\ UNCHANGED target

\* The peer's state arrives, the newest only.
Hears(t) ==
  LET s == sent[Peer(t)] IN
    /\ here[t] /\ known[t] # s /\ known' = [known EXCEPT ![t] = s]
    /\ IF target[t] THEN Apply(t, s) ELSE UNCHANGED <<target, applied, echoed, silent, fits>>
    /\ UNCHANGED <<here, shown, last, latest, sent, moves>>

\* It applies the leader's state at once.
Applied(t) == known[t]

\* A click on a peer of the roster: follow ...
Follow(t) ==
  LET s == Applied(t) IN
    /\ here[t] /\ known[t] # Gone /\ ~target[t] /\ Len(fits[t]) < MaxFits
    /\ target' = [target EXCEPT ![t] = TRUE]
    /\ IF s = Unset THEN UNCHANGED <<applied, echoed, silent, fits>> ELSE Fits(t, s)
    /\ UNCHANGED <<here, shown, last, latest, sent, known, moves>>

\* ... or stop.
Unfollow(t) == /\ target[t] /\ Stopped(t)
               /\ UNCHANGED <<here, shown, last, latest, sent, known, silent, fits, moves>>

\* The tab shows another sheet, whose room is another: its presence, bridge and
\* follow are destroyed, and the publish that was due with them.
Leaves(t) == /\ here[t] /\ here' = [here EXCEPT ![t] = FALSE]
             /\ sent' = [sent EXCEPT ![t] = Gone] /\ latest' = [latest EXCEPT ![t] = Unset]
             /\ known' = [known EXCEPT ![t] = Gone] /\ Stopped(t)
             /\ UNCHANGED <<shown, last, silent, fits, moves>>

\* It comes back: the bridge seeds the publish with the view.
Returns(t) == /\ ~here[t] /\ moves < MaxMoves /\ moves' = moves + 1
              /\ here' = [here EXCEPT ![t] = TRUE]
              /\ sent' = [sent EXCEPT ![t] = Unset]
              /\ latest' = [latest EXCEPT ![t] = Rect(t, shown[t])]
              /\ UNCHANGED <<shown, last, known, target, applied, echoed, silent, fits>>

-----------------------------------------------------------------------------
Room(t) == Publishes(t) \/ Hears(t)
User(t) == (\E v \in Views : Moves(t, v)) \/ Follow(t) \/ Unfollow(t) \/ Leaves(t) \/ Returns(t)

Next == \E t \in Viewers : EmitsMove(t) \/ Lands(t) \/ Room(t) \/ User(t)

-----------------------------------------------------------------------------
(* Properties.                                                             *)

\* The follower shows what the leader shows, as far as it can tell.
Tracks(t) == here[Peer(t)] /\ IsEcho(Rect(t, shown[t]), Rect(Peer(t), shown[Peer(t)]))

\* The last fit landed on the view the canvas had emitted already: there was no echo
\* and none is on its way, so that every move of the user is taken for a stale view.
Deaf(t) == target[t] /\ applied[t] # Unset /\ fits[t] = <<>> /\ silent[t] /\ ~echoed[t]

\* Two that follow each other idle (follow-user.ts:27-28): before any user moves, no
\* canvas shows more than one fit of the other's needs.  Violated where the canvases
\* differ in shape: each fit contains the other's view, is published, and is fitted
\* again, out to the clamp.
LoopsIdle == moves = 0 => \A t \in Viewers : shown[t].zoom <= 2
=============================================================================
