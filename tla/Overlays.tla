------------------------------ MODULE Overlays ------------------------------
(***************************************************************************)
(* What an editor lays over its canvas: the comments of the people in the  *)
(* room (Comments), the view of the one it follows (FollowUser) and, on a  *)
(* phone, the touches that stand in for the mouse (Gestures).  They meet   *)
(* only in the view, which a jump to a comment and a finger move as the    *)
(* mouse does: a behaviour here is of one of them.                         *)
(***************************************************************************)
EXTENDS Integers, FiniteSets, Sequences

CONSTANTS Threads, Old, Second, Places, MaxEdits,             \* Comments
          Wide, Centers, MaxZoom, MaxMoves, MaxFits,          \* FollowUser
          Fingers, Off, MaxSpan, Detent                       \* Gestures

ASSUME ThreadsAssumption == Old \subseteq Threads /\ Second \subseteq Threads /\ "none" \notin Threads
ASSUME PlacesAssumption == Places # {} /\ 0 \notin Places
ASSUME ViewsAssumption == MaxZoom \in Nat \ {0} /\ Centers # {}
ASSUME FingersAssumption == Off \subseteq Fingers /\ {MaxSpan, Detent} \subseteq Nat \ {0}
ASSUME BoundsAssumption == {MaxEdits, MaxMoves, MaxFits} \subseteq Nat

VARIABLES
  part,      \* "comments", "follow" or "touch"
  doc, item, bound, cache, visible, timer, pins, layer, threads, open, hidden,
  mode, draft, drag, held, edits,
  here, shown, last, latest, sent, known, target, applied, echoed, silent, fits, moves,
  touching, span, gesture, slow, lastSpan, middle, tapped, zoomed, apart, seen, far, swapped

comments == <<doc, item, bound, cache, visible, timer, pins, layer, threads, open, hidden,
              mode, draft, drag, held, edits>>
follows == <<here, shown, last, latest, sent, known, target, applied, echoed, silent, fits, moves>>
gestures == <<touching, span, gesture, slow, lastSpan, middle, tapped, zoomed, apart,
              seen, far, swapped>>
overlayVars == <<part, comments, follows, gestures>>

C == INSTANCE Comments
F == INSTANCE FollowUser
G == INSTANCE Gestures

Parts == {"comments", "follow", "touch"}

OverlayInit == part \in Parts /\ C!Init /\ F!Init /\ G!Init

OverlayTypeOK == part \in Parts /\ C!TypeOK /\ F!TypeOK /\ G!TypeOK

\* As a step of the whole.
Comment(A) == part = "comments" /\ A /\ UNCHANGED <<part, follows, gestures>>
Follow(A) == part = "follow" /\ A /\ UNCHANGED <<part, comments, gestures>>
Touch(A) == part = "touch" /\ A /\ UNCHANGED <<part, comments, follows>>

OverlayNext == Comment(C!Next) \/ Follow(F!Next) \/ Touch(G!Next)

\* Timers fire, effects run, the room delivers and the fiber runs; the users and the
\* peers owe nothing.
OverlayFairness ==
  /\ WF_overlayVars(Comment(C!Fires))
  /\ \A t \in F!Viewers : /\ WF_overlayVars(Follow(F!EmitsMove(t)))
                          /\ WF_overlayVars(Follow(F!Lands(t)))
                          /\ WF_overlayVars(Follow(F!Publishes(t)))
                          /\ WF_overlayVars(Follow(F!Hears(t)))

OverlaySpec == OverlayInit /\ [][OverlayNext]_overlayVars /\ OverlayFairness

-----------------------------------------------------------------------------
(* Properties.                                                             *)

\* The dots on the canvas are of the sheet on screen, none when hidden, and the layer
\* over the canvas agrees with it across rebinds, hiding and peers' edits.
LayerAgrees == C!PinsOfTheSheet /\ C!LayerAgrees

\* What became of a thread, or of the item it is anchored to, reaches the canvas.
PinsFollow == ~C!Current ~> C!Current

\* When the leader follows nobody any more and the users have moved their views for the
\* last time, whoever follows comes to show the leader's view for good, however often
\* the follow begins and ends and the tabs leave, unless a fit landed without an echo.
FollowSettles ==
  \A t \in F!Viewers :
    <>[]~target[F!Peer(t)] => <>[](target[t] => F!Tracks(t) \/ F!Deaf(t))

\* Fingers click and press the middle button only when they mean it.
ClicksMeant == [][part = "touch" => G!Tap /\ G!Button']_overlayVars

\* A slow pinch zooms as far as a quick one, to within a step of the wheel.
PinchZooms == G!PinchZooms

\* Violated, each for a reason stated with it: a pin is dragged while held only, two
\* that follow each other idle, a pinch zooms by what its fingers move, and a pan ends
\* with the touch.
DragsHeldPin == [][part = "comments" => C!HeldPin]_overlayVars
LoopsIdle == F!LoopsIdle
PinchesMove == G!PinchesMove
PanEnds == G!PanEnds

\* The follow mirrors its leader until the local user interacts (follow-user.ts:8-9).
\* Violated: a fit that changes nothing emits no echo, and without one every move of
\* the user is taken for a stale view.
MirrorsOrEnds == \A t \in F!Viewers : target[t] ~> (~target[t] \/ F!Tracks(t))

\* Two that follow each other idle (follow-user.ts:27-28).  Violated without a click
\* and without a difference in shape too: two rectangles that cross are fitted by both
\* tabs, published, and cross again.
LoopsEnd == <>[](target[1] /\ target[2]) => <>[](fits[1] = <<>> /\ fits[2] = <<>>)
=============================================================================
