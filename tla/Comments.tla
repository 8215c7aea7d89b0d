------------------------------ MODULE Comments ------------------------------
(***************************************************************************)
(* The comments of one editor: the controller bound to the document shown  *)
(* (collab/comments.ts) and the layer over the canvas (CommentLayer.tsx).  *)
(* The canvas draws the dots it was last pushed; the layer, a React        *)
(* component, keeps its own copy of the threads and the hit targets over   *)
(* the dots.  The threads themselves are in the document: a peer changes   *)
(* them at any time, and the helpers that do (@pcbjam/shared) are          *)
(* external: last writer wins, a thread that is gone takes no write.       *)
(***************************************************************************)
EXTENDS Naturals, FiniteSets

CONSTANTS
  Threads,
  Old,        \* the threads there are at first
  Second,     \* the threads of sheet 2; the others are of sheet 1
  Places,     \* bound: the positions of a pin or an item
  MaxEdits    \* bound: changes of threads and items

Sheets == {1, 2}
SheetOf(t) == IF t \in Second THEN 2 ELSE 1
None == "none"

VARIABLES
  doc,       \* the threads: state, whether the anchor tracks the item, own position
  item,      \* item[s]: where the one item of sheet s is, 0 when deleted
  bound,     \* the sheet the controller is bound to, 0 when there is none
  cache,     \* the controller's threads, resolved
  visible,   \* the controller's flag
  timer,     \* its throttle
  pins,      \* the dots on the canvas
  layer,     \* "off", "stale": rendered before its effect ran, or "live"
  threads,   \* the layer's state ...
  open, hidden, mode, draft,
  drag,      \* dragRef
  held,      \* the button is down on a pin
  edits

document == <<doc, item, edits>>
controller == <<bound, cache, visible, timer, pins>>
view == <<layer, threads, open, hidden, mode, draft>>
pointer == <<drag, held>>
commentVars == <<document, controller, view, pointer>>

NoDrag == [id |-> None, moved |-> FALSE]
Exists(t) == doc[t].state \in {"open", "resolved"}

\* resolveAnchor: where the item is that the anchor tracks, or the fallback.
World(t) == IF doc[t].tracks /\ item[SheetOf(t)] # 0 THEN item[SheetOf(t)] ELSE doc[t].at

\* recompute: the threads of the document, each at its world position.
Listed(s) == [t \in {u \in Threads : Exists(u) /\ SheetOf(u) = s} |->
                [resolved |-> doc[t].state = "resolved", at |-> World(t)]]

\* pushPins: the dots of what is not resolved, none when hidden.
Dots(c, v) == [t \in {u \in DOMAIN c : v /\ ~c[u].resolved} |-> c[t].at]

\* The hit targets of the layer; bound: the filter of resolved threads is off.
Targets == IF layer = "off" \/ hidden THEN {} ELSE {t \in DOMAIN threads : ~threads[t].resolved}

Init ==
  /\ doc = [t \in Threads |-> [state |-> IF t \in Old THEN "open" ELSE None,
                               tracks |-> TRUE, at |-> CHOOSE p \in Places : TRUE]]
  /\ item = [s \in Sheets |-> CHOOSE p \in Places : TRUE]
  /\ bound = 0 /\ cache = <<>> /\ visible = TRUE /\ timer = FALSE /\ pins = <<>>
  /\ layer = "off" /\ threads = <<>> /\ open = None /\ hidden = FALSE
  /\ mode = FALSE /\ draft = FALSE
  /\ drag = NoDrag /\ held = FALSE /\ edits = 0

Snapshots == UNION {[T -> [resolved : BOOLEAN, at : Places]] : T \in SUBSET Threads}

TypeOK ==
  /\ doc \in [Threads -> [state : {None, "open", "resolved", "gone"}, tracks : BOOLEAN, at : Places]]
  /\ item \in [Sheets -> Places \cup {0}] /\ bound \in Sheets \cup {0}
  /\ cache \in Snapshots /\ threads \in Snapshots
  /\ pins \in UNION {[T -> Places] : T \in SUBSET Threads}
  /\ visible \in BOOLEAN /\ timer \in BOOLEAN /\ layer \in {"off", "stale", "live"}
  /\ open \in Threads \cup {None} /\ hidden \in BOOLEAN
  /\ mode \in BOOLEAN /\ draft \in BOOLEAN
  /\ drag \in [id : Threads \cup {None}, moved : BOOLEAN] /\ held \in BOOLEAN
  /\ edits \in 0 .. MaxEdits

-----------------------------------------------------------------------------
(* The controller.                                                         *)

\* schedule: a change of what is bound arms the throttle.
Scheduled(s) == timer' = (timer \/ (bound = s /\ bound # 0))

\* Mutant: the dots are pushed before the threads are read anew.
Before == cache

\* recompute comes first.
Fresh == Listed(bound)

\* The throttle fires: recompute, push the dots, tell the layer.
Fires ==
  /\ timer /\ timer' = FALSE
  /\ cache' = Listed(bound)
  /\ pins' = Dots(Fresh, visible)
  /\ threads' = IF layer = "live" THEN Listed(bound) ELSE threads
  /\ UNCHANGED <<document, bound, visible, layer, open, hidden, mode, draft, pointer>>

\* destroy clears the canvas.
Cleared == <<>>

\* createComments: a new controller lists its threads and pushes their dots.
Controls(s) == /\ bound' = s /\ cache' = Listed(s) /\ visible' = TRUE /\ timer' = FALSE
               /\ pins' = Dots(Listed(s), TRUE)

\* startComments: the controller of the document before is destroyed, the new one
\* made.  React batches the two updates: the layer is rendered with the new controller
\* and the state of the old one.
Bind(s) ==
  /\ Controls(s)
  /\ layer' = "stale"
  /\ threads' = IF layer = "off" THEN Listed(s) ELSE threads
  /\ UNCHANGED <<document, open, hidden, mode, draft, pointer>>

\* No document: the controller goes, and the layer with its state.
Unbind ==
  /\ bound # 0 /\ bound' = 0
  /\ cache' = <<>> /\ visible' = TRUE /\ timer' = FALSE /\ pins' = Cleared
  /\ layer' = "off" /\ threads' = <<>> /\ open' = None /\ hidden' = FALSE
  /\ mode' = FALSE /\ draft' = FALSE
  /\ drag' = NoDrag /\ held' = FALSE
  /\ UNCHANGED document

\* Mutant: the layer's own flag survives the rebind.
Own == hidden

\* The new controller's.
Theirs == ~visible

\* The effect on a new controller: the layer's state is seeded anew, and subscribed.
Seeds ==
  /\ layer = "stale" /\ layer' = "live"
  /\ threads' = cache /\ open' = None /\ draft' = FALSE /\ hidden' = Theirs
  /\ UNCHANGED <<document, controller, mode, pointer>>

-----------------------------------------------------------------------------
(* The document.                                                           *)

\* A write of a thread that still is there: its observers schedule.
Writes(t, r) ==
  /\ edits < MaxEdits /\ edits' = edits + 1 /\ r # doc[t] /\ UNCHANGED item
  /\ doc' = [doc EXCEPT ![t] = r] /\ Scheduled(SheetOf(t))

Created(tracks, p) == [state |-> "open", tracks |-> tracks, at |-> p]

\* A peer creates, resolves, reopens, moves or deletes a thread of any sheet.
PeerEdits(t) ==
  /\ \/ doc[t].state = None /\ \E p \in Places, tr \in BOOLEAN : Writes(t, Created(tr, p))
     \/ /\ Exists(t)
        /\ \/ \E st \in {"open", "resolved", "gone"} : Writes(t, [doc[t] EXCEPT !.state = st])
           \/ \E p \in Places, tr \in BOOLEAN : Writes(t, [doc[t] EXCEPT !.tracks = tr, !.at = p])
  /\ UNCHANGED <<bound, cache, visible, pins, view, pointer>>

\* Anyone moves or deletes the item the threads are anchored to.
ItemMoves(s) ==
  /\ edits < MaxEdits /\ edits' = edits + 1
  /\ \E p \in Places \cup {0} : p # item[s] /\ item' = [item EXCEPT ![s] = p]
  /\ Scheduled(s)
  /\ UNCHANGED <<doc, bound, cache, visible, pins, view, pointer>>

-----------------------------------------------------------------------------
(* The layer: what the user does.                                          *)

\* The controller writes to its own document only: a thread of another one is not
\* there.
Here(t) == Exists(t) /\ SheetOf(t) = bound
Asked(t, r) == IF Here(t) /\ r # doc[t] THEN Writes(t, r) ELSE UNCHANGED <<document, timer>>

Quiet == <<bound, cache, threads, layer>>

\* toggleHidden: the canvas is told at once, from the cache; hiding closes all.
ToggleHidden ==
  /\ layer # "off" /\ hidden' = ~hidden /\ visible' = hidden /\ pins' = Dots(cache, hidden)
  /\ IF hidden THEN UNCHANGED <<open, mode, draft>>
               ELSE open' = None /\ mode' = FALSE /\ draft' = FALSE
  /\ UNCHANGED <<Quiet, document, timer, pointer>>

\* What is hidden is shown first.
Shows == hidden' = FALSE /\ IF hidden THEN visible' = TRUE /\ pins' = Dots(cache, TRUE)
                                      ELSE UNCHANGED <<visible, pins>>

ModeToggle == /\ layer # "off" /\ Shows /\ mode' = ~mode /\ draft' = FALSE
              /\ UNCHANGED <<Quiet, document, timer, open, pointer>>

\* A click in comment mode; the anchor is the nearest item within reach or the
\* position, either until the thread is made.
ModeClick == /\ mode /\ mode' = FALSE /\ draft' = TRUE
             /\ UNCHANGED <<document, controller, layer, threads, open, hidden, pointer>>

\* The composer: a body makes a thread and opens it; none cancels.
Submit ==
  /\ draft /\ draft' = FALSE
  /\ \/ \E t \in Threads, p \in Places, tr \in BOOLEAN :
          doc[t].state = None /\ SheetOf(t) = bound /\ Writes(t, Created(tr, p)) /\ open' = t
     \/ UNCHANGED <<document, timer, open>>
  /\ UNCHANGED <<Quiet, visible, pins, hidden, mode, pointer>>

Escape == /\ layer # "off" /\ mode' = FALSE /\ draft' = FALSE /\ open' = None
          /\ UNCHANGED <<document, controller, layer, threads, hidden, pointer>>

\* The popover of the open thread: a reply or an edit, resolve or reopen, delete;
\* the removal of a message may delete the thread.  Each writes what it shows.
Popover ==
  /\ open \in DOMAIN threads /\ ~hidden
  /\ \/ /\ Here(open) /\ timer' = TRUE /\ UNCHANGED <<document, open>>
     \/ /\ Asked(open, [doc[open] EXCEPT !.state = IF threads[open].resolved THEN "open" ELSE "resolved"])
        /\ UNCHANGED open
     \/ Asked(open, [doc[open] EXCEPT !.state = "gone"]) /\ open' = None
     \/ open' = None /\ UNCHANGED <<document, timer>>
  /\ UNCHANGED <<Quiet, visible, pins, hidden, mode, draft, pointer>>

\* A row of the panel: jump to the pin and open it.
Jump(t) == /\ layer # "off" /\ t \in DOMAIN threads /\ ~threads[t].resolved
           /\ Shows /\ open' = t
           /\ UNCHANGED <<Quiet, document, timer, mode, draft, pointer>>

-----------------------------------------------------------------------------
(* Dragging a pin.                                                         *)

PinDown(t) == /\ t \in Targets /\ ~held /\ held' = TRUE /\ drag' = [id |-> t, moved |-> FALSE]
              /\ UNCHANGED <<document, controller, view>>

\* A move over a pin, the captured one while the button is down: past the threshold
\* the anchor is written live, a throttle between.
PinMove(t) ==
  /\ t \in Targets /\ drag.id # None /\ (held => t = drag.id)
  /\ drag' = [drag EXCEPT !.moved = TRUE]
  /\ open' = IF drag.moved THEN open ELSE None
  /\ \/ UNCHANGED <<document, timer>>
     \/ \E p \in Places : Asked(drag.id, [doc[drag.id] EXCEPT !.tracks = FALSE, !.at = p])
  /\ UNCHANGED <<Quiet, visible, pins, hidden, mode, draft, held>>

\* anchorAt: the anchor tracks the item it is dropped on.
AnchorAt(t, p) == [doc[t] EXCEPT !.tracks = (p = item[SheetOf(t)]), !.at = p]

\* The drop snaps the anchor to the nearest item; without a move it was a click.
PinUp(t) ==
  /\ held /\ t \in Targets /\ t = drag.id /\ held' = FALSE /\ drag' = NoDrag
  /\ IF drag.moved
       THEN /\ \E p \in Places : Asked(t, AnchorAt(t, p))
            /\ UNCHANGED open
       ELSE open' = (IF open = t THEN None ELSE t) /\ UNCHANGED <<document, timer>>
  /\ UNCHANGED <<Quiet, visible, pins, hidden, mode, draft>>

\* The pin went from under the pointer: no pin hears the release.
Release == /\ held /\ drag.id \notin Targets /\ held' = FALSE
           /\ UNCHANGED <<document, controller, view, drag>>

-----------------------------------------------------------------------------
Peers == \E t \in Threads : PeerEdits(t)
Layer == \/ ToggleHidden \/ ModeToggle \/ ModeClick \/ Submit \/ Escape \/ Popover
         \/ \E t \in Threads : Jump(t) \/ PinDown(t) \/ PinMove(t) \/ PinUp(t)
         \/ Release

Next == \/ Fires \/ Unbind \/ Seeds \/ Peers \/ Layer
        \/ \E s \in Sheets : Bind(s) \/ ItemMoves(s)

-----------------------------------------------------------------------------
(* Properties.                                                             *)

\* The canvas shows dots of the sheet on screen only: none without a document, none
\* when hidden, and one the throttle does not yet know of cannot appear.
PinsOfTheSheet ==
  /\ bound = 0 \/ ~visible => pins = <<>>
  /\ bound # 0 => pins = Dots(cache, visible)
  /\ \A t \in DOMAIN pins : SheetOf(t) = bound

\* The layer and the canvas agree, whatever was hidden or open on the sheet before:
\* one flag, one list, and nothing open while all is hidden.
LayerAgrees ==
  layer = "live" => /\ hidden = ~visible /\ threads = cache
                    /\ hidden => open = None /\ ~draft /\ ~mode

\* What a thread or its item became reaches the canvas.
Current == IF bound = 0 \/ ~visible THEN pins = <<>> ELSE pins = Dots(Listed(bound), TRUE)

\* A pin moves its thread while it is held, and no other does.  Violated: a pin that
\* goes while it is dragged, its thread resolved by a peer for one, leaves dragRef,
\* and any later move over another pin drags the thread.
HeldPin == (\E t \in Threads : PinMove(t) /\ doc' # doc) => held
=============================================================================
