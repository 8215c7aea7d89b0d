------------------------------ MODULE Gestures ------------------------------
(***************************************************************************)
(* Touches on a phone's canvas as the mouse the editor knows               *)
(* (wasm/touch-gestures.ts): one finger drags the middle button, two turn  *)
(* the wheel, a quick tap clicks.  The recognizer is fed the touches of    *)
(* the whole page, but only on events of fingers that landed on the canvas.*)
(***************************************************************************)
EXTENDS Integers, Sequences

CONSTANTS
  Fingers,
  Off,       \* fingers that land beside the canvas
  MaxSpan,   \* bound: how far two fingers are apart, in steps of the zoom
  Detent     \* minWheelDelta, in the same steps

VARIABLES
  touching,   \* the fingers down, in the order they landed
  span,       \* how far the first two are apart
  gesture,    \* "idle", "press" and "pan" (mode single), or "pinch"
  slow,       \* the press is older than tapMaxMs
  lastSpan,   \* lastEmitDist
  middle,     \* out: the middle button is down
  tapped,     \* out: the last event clicked
  zoomed,     \* out: what the wheel turned in this pinch
  apart,      \* what its fingers moved
  seen,       \* the fingers down since the recognizer idled
  far,        \* a press travelled beyond tapMaxDist
  swapped     \* the pair of the pinch changed

gestureVars == <<touching, span, gesture, slow, lastSpan, middle, tapped, zoomed, apart,
                 seen, far, swapped>>

Spans == 1 .. MaxSpan
OnCanvas(f) == f \notin Off
Down == {touching[i] : i \in DOMAIN touching}
Pair(ts) == {ts[i] : i \in {1, 2} \cap DOMAIN ts}

Init == /\ touching = <<>> /\ span = 1 /\ gesture = "idle" /\ slow = FALSE /\ lastSpan = 1
        /\ middle = FALSE /\ tapped = FALSE /\ zoomed = 0 /\ apart = 0
        /\ seen = {} /\ far = FALSE /\ swapped = FALSE

TypeOK == /\ touching \in Seq(Fingers) /\ span \in Spans /\ lastSpan \in Spans
          /\ gesture \in {"idle", "press", "pan", "pinch"} /\ slow \in BOOLEAN
          /\ middle \in BOOLEAN /\ tapped \in BOOLEAN /\ zoomed \in Int /\ apart \in Int
          /\ seen \subseteq Fingers /\ far \in BOOLEAN /\ swapped \in BOOLEAN

-----------------------------------------------------------------------------
(* The recognizer, on the fingers ts that are down and the span d of two.  *)

\* apply: the mouse on the canvas, its middle button and whether it clicks.
Mouse(button, click) == middle' = button /\ tapped' = click

\* The wheel turns by what the fingers are ahead of it, a detent at least.
Turned(d) == IF d - lastSpan >= Detent \/ lastSpan - d >= Detent THEN d - lastSpan ELSE 0

\* Mutant: a movement below the threshold is dropped.
Latest(d) == d

\* It accumulates.
Emitted(d) == IF Turned(d) = 0 THEN lastSpan ELSE d

\* Two fingers: a pinch goes on, or it begins and ends the pan before it.
Pinches(d) ==
  /\ gesture' = "pinch" /\ Mouse(middle /\ gesture # "pan", FALSE)
  /\ IF gesture = "pinch"
       THEN lastSpan' = Emitted(d) /\ zoomed' = zoomed + Turned(d) /\ UNCHANGED slow
       ELSE lastSpan' = d /\ zoomed' = 0 /\ slow' = FALSE

\* The state of a pinch goes with it.
NoPinch == lastSpan' = 1 /\ zoomed' = 0

\* Mutant: what is left of a pinch is a press.
Pressed == "press"

\* What is left of a pinch pans at once: its release must not read as a tap.
Handed == "pan"

\* One finger: it presses, or pans once it is beyond the reach of a tap.
Drags(away) ==
  /\ gesture' = CASE gesture = "idle" -> "press"
                  [] gesture = "pinch" -> Handed
                  [] OTHER -> IF away THEN "pan" ELSE gesture
  /\ Mouse(middle \/ (gesture # "pan" /\ gesture' = "pan"), FALSE)
  /\ slow' = (slow /\ gesture = "press") /\ NoPinch

\* None: a pan ends, a quick press is a tap.
Ends == /\ gesture' = "idle" /\ Mouse(middle /\ gesture # "pan", gesture = "press" /\ ~slow)
        /\ slow' = FALSE /\ NoPinch

Update(ts, away, d) ==
  \/ Len(ts) >= 2 /\ Pinches(d)
  \/ Len(ts) = 1 /\ Drags(away)
  \/ ts = <<>> /\ Ends

\* An event of a finger beside the canvas.
Unheard == UNCHANGED <<gesture, slow, lastSpan, zoomed>> /\ Mouse(middle, FALSE)

-----------------------------------------------------------------------------
(* The fingers: onTouch hears those of the canvas.                         *)

\* What the pair moved since its pinch began, and whether it is still the same.
Moved(by, other) ==
  IF gesture # "pinch" \/ gesture' # "pinch" THEN apart' = 0 /\ swapped' = FALSE
  ELSE apart' = apart + by /\ swapped' = (swapped \/ other)

\* A finger lands.
Lands(f) ==
  /\ f \notin Down /\ touching' = Append(touching, f)
  /\ IF Len(touching) = 1 THEN span' \in Spans ELSE span' = span
  /\ IF OnCanvas(f) THEN \E away \in BOOLEAN : Update(touching', away, span') ELSE Unheard
  /\ seen' = seen \cup {f}
  /\ Moved(0, FALSE)
  /\ far' = (far /\ gesture # "idle")

\* A finger of the first two moves, near or far.
Travels(f) ==
  /\ \E i \in {1, 2} \cap DOMAIN touching : touching[i] = f
  /\ \E away \in BOOLEAN, d \in (IF Len(touching) > 1 THEN Spans ELSE {span}) :
       /\ span' = d
       /\ IF OnCanvas(f) THEN Update(touching, away, d) ELSE Unheard
       /\ Moved(d - span, FALSE)
       /\ far' = (far \/ (away /\ OnCanvas(f) /\ gesture # "idle"))
  /\ apart' \in -MaxSpan .. MaxSpan
  /\ UNCHANGED <<touching, seen>>

\* The list without its i-th finger.
Without(i) == SubSeq(touching, 1, i - 1) \o SubSeq(touching, i + 1, Len(touching))

\* A finger lifts; another may take its place in the pair.
Lifts(f) ==
  /\ \E i \in DOMAIN touching : touching[i] = f /\ touching' = Without(i)
  /\ span' \in IF Len(touching') < 2 THEN {1}
               ELSE IF Pair(touching') # Pair(touching) THEN Spans ELSE {span}
  /\ IF OnCanvas(f) THEN \E away \in BOOLEAN : Update(touching', away, span') ELSE Unheard
  /\ seen' = IF gesture' = "idle" THEN Down' ELSE seen
  /\ far' = (far /\ gesture' # "idle") /\ Moved(0, Pair(touching') # Pair(touching))

\* The browser takes the touches; bound: all at once.  A pan ends, the rest is dropped.
Cancels ==
  /\ \E f \in Down : OnCanvas(f)
  /\ touching' = <<>> /\ span' = 1 /\ seen' = {} /\ far' = FALSE
  /\ gesture' = "idle" /\ Mouse(middle /\ gesture # "pan", FALSE) /\ slow' = FALSE
  /\ NoPinch /\ Moved(0, FALSE)

\* The press grows older than a tap.
Waits == /\ gesture = "press" /\ ~slow /\ slow' = TRUE /\ tapped' = FALSE
         /\ UNCHANGED <<touching, span, gesture, lastSpan, middle, zoomed, apart, seen, far, swapped>>

Next == Waits \/ Cancels \/ \E f \in Fingers : Lands(f) \/ Travels(f) \/ Lifts(f)

-----------------------------------------------------------------------------
(* Properties.                                                             *)

\* All fingers since the recognizer idled are of the canvas.
Ours == seen \cap Off = {}

\* A click is a quick press of one finger that stayed, never the end of a pinch or of
\* a pan ...
Tap == Ours /\ tapped' => ~slow /\ ~far /\ \A f, g \in seen : f = g

\* ... and the middle button is down while one finger pans, no longer.
Button == middle = (gesture = "pan") /\ (Ours /\ middle => Len(touching) = 1)

\* The wheel follows the fingers: less than a detent of a pinch is owed.
Owed == apart - zoomed
PinchZooms == gesture = "pinch" /\ ~swapped /\ Ours => Owed \in (1 - Detent) .. (Detent - 1)

\* Violated.  A finger that lifts leaves another pair, and the wheel turns by what the
\* two pairs are apart although no finger moved ("extras are ignored", :79).
PinchesMove == gesture = "pinch" /\ Ours => Owed \in (1 - Detent) .. (Detent - 1)

\* Violated.  A finger beside the canvas is in the touches of the canvas's events; when
\* it is the last, its own release is not heard and the button stays down.
PanEnds == middle => touching # <<>>
=============================================================================
