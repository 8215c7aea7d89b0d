---------------------------- MODULE SheetManager ----------------------------
(***************************************************************************)
(* The warm pool of a hierarchical schematic (createSheetCollabManager in  *)
(* src/web/standalone/src/wasm/collab/sheet-manager.ts).  Every sheet file *)
(* is a room whose doc stays connected; the editor's items bridge is a     *)
(* singleton on the sheet it shows, so one binding is re-routed between    *)
(* the rooms as the user navigates.                                        *)
(*                                                                         *)
(* JavaScript runs to completion: an await on a settled promise continues  *)
(* before any new event.  So a switch to a warm room is one step, a switch *)
(* to a cold one is split at the await of ensureRoom, and events wait      *)
(* until the promise chain of switches is Drained.                         *)
(*                                                                         *)
(* A room is compared with the editor's copy of its sheet by one flag:     *)
(* behind, the room has something the editor does not show.  What the user *)
(* draws while no room is bound is left out.                               *)
(***************************************************************************)
EXTENDS Integers, Sequences, FiniteSets

CONSTANTS
  Sheets,     \* sheet paths
  Entry,      \* the sheet opened from its room's doc (opts.initial), if any
  None,       \* no sheet
  MaxNavs,    \* bound: navigations
  MaxFails,   \* bound: failing connects, binds and seeds
  Upsets      \* which of the disturbances below may happen

Disturbances ==
  { "offline",      \* a connect fails
    "hasty",        \* the user navigates while a switch still connects
    "refusal",      \* bindKicadCollab throws (SexprVersionError)
    "trap",         \* seed throws in the conversion or in the editor
    "unmount",      \* destroy() while a connect is in flight
    "boot update" } \* a peer edits the entry sheet before its first bind

ASSUME SheetsAssumption == None \notin Sheets /\ Entry \subseteq Sheets
ASSUME BoundsAssumption == MaxNavs \in Nat /\ MaxFails \in Nat
ASSUME UpsetsAssumption == Upsets \subseteq Disturbances

VARIABLES
  screen,     \* the sheet the editor shows
  requested,  \* requestedPath
  active,     \* activePath
  queue,      \* the chain of switchTo calls that have not started
  waiting,    \* the sheet whose doSwitch awaits ensureRoom, or None
  timer,      \* the sheet a retry is armed for, or None
  room,       \* room[s]: the rooms and connecting maps, see Room
  destroyed,  \* destroy() was called
  upsets,     \* the disturbances so far (history)
  navs,       \* navigations so far
  fails       \* failures so far

vars == <<screen, requested, active, queue, waiting, timer, room, destroyed,
          upsets, navs, fails>>

Room == [ conn    : {"absent", "connecting", "ready"},
          live    : Nat,       \* bindings observing the doc
          held    : BOOLEAN,   \* room.binding is set
          seeded  : BOOLEAN,
          matches : BOOLEAN,   \* room.editorMatchesDoc
          dirty   : BOOLEAN,
          watch   : BOOLEAN,   \* room.detachWatch is set
          behind  : BOOLEAN,
          where   : Sheets \cup {None} ]  \* the sheetPath in its awareness

NoRoom == [ conn |-> "absent", live |-> 0, held |-> FALSE, seeded |-> FALSE,
            matches |-> FALSE, dirty |-> FALSE, watch |-> FALSE,
            behind |-> FALSE, where |-> None ]

\* The entry session was connected, and its file materialized, before the boot.
EntryRoom == [NoRoom EXCEPT !.conn = "ready", !.matches = TRUE]

Init == /\ screen = None /\ requested = None /\ active = None
        /\ queue = <<>> /\ waiting = None /\ timer = None
        /\ room = [s \in Sheets |-> IF s \in Entry THEN EntryRoom ELSE NoRoom]
        /\ destroyed = FALSE
        /\ upsets = {} /\ navs = 0 /\ fails = 0

\* No microtask is left: the chain of switches is empty or awaits a connect.
Drained == queue = <<>> \/ waiting # None

\* The disturbance d happens.
Upset(d) == d \in Upsets /\ upsets' = upsets \cup {d}

-----------------------------------------------------------------------------
\* Mutant: the parked room is not watched.
ParkedUnwatched(r, s) ==
  IF s # None /\ r[s].held
    THEN [r EXCEPT ![s].live = @ - 1, ![s].held = FALSE]
    ELSE r

\* Mutant: the old binding stays attached.
ParkedAttached(r, s) ==
  IF s # None /\ r[s].held THEN [r EXCEPT ![s].watch = TRUE] ELSE r

\* The old binding is destroyed and its room watched for remote updates.
Parked(r, s) ==
  IF s # None /\ r[s].held
    THEN [r EXCEPT ![s].live = @ - 1, ![s].held = FALSE, ![s].watch = TRUE]
    ELSE r

\* seed() only baselines the differ: the editor is trusted to match the doc.
BaselineOnly(rm) == IF rm.seeded THEN ~rm.dirty ELSE rm.matches

\* seed(): a baseline leaves the editor as it is, an adopt brings it up to the doc
\* if s is the sheet it applies to.
StillBehind(r, s) == r[s].behind /\ (BaselineOnly(r[s]) \/ screen # s)

\* publishSkeletons, and the presence of the bound room: every connected room's
\* awareness names s.
Placed(r, s) == [t \in Sheets |-> IF r[t].conn = "ready" THEN [r[t] EXCEPT !.where = s] ELSE r[t]]

\* bindKicadCollab, seed(), onActiveChange and publishSkeletons succeed.
Bound(r, s) ==
  LET placed == Placed(r, s)[s]
  IN [Placed(r, s) EXCEPT
        ![s] = [placed EXCEPT !.live = @ + 1, !.held = TRUE, !.watch = FALSE,
                              !.seeded = TRUE, !.matches = FALSE, !.dirty = FALSE,
                              !.behind = StillBehind(r, s)]]

\* bindKicadCollab throws: the watch is gone already.
Refused(r, s) == [r EXCEPT ![s].watch = FALSE]

\* seed() throws: the binding is attached already.
Trapped(r, s) == [r EXCEPT ![s].live = @ + 1, ![s].held = TRUE, ![s].watch = FALSE]

\* Mutant: a failed switch is left to the next navigation.
NoRetry(s) == timer

\* The catch of switchTo: still the requested sheet, and not bound.
Retry(s) == IF requested = s THEN s ELSE timer

\* The second half of doSwitch, once the room s of r is connected.
Activate(s, r) ==
  \/ /\ room' = Bound(r, s)
     /\ active' = s
     /\ UNCHANGED <<timer, upsets, fails>>
  \/ /\ fails < MaxFails
     /\ \/ Upset("refusal") /\ room' = Refused(r, s)
        \/ Upset("trap") /\ room' = Trapped(r, s)
     /\ fails' = fails + 1
     /\ active' = None
     /\ timer' = Retry(s)

-----------------------------------------------------------------------------
\* switchTo: the last word on what is shown, at the end of the chain.
SwitchTo(s) == requested' = s /\ timer' = None /\ queue' = Append(queue, s)

\* onSheetChanged: the editor shows s and calls switchTo(s).
Navigate(s) ==
  /\ Drained /\ ~destroyed /\ navs < MaxNavs
  /\ IF waiting = None THEN UNCHANGED upsets ELSE Upset("hasty")
  /\ screen' = s
  /\ SwitchTo(s)
  /\ navs' = navs + 1
  /\ UNCHANGED <<active, waiting, room, destroyed, fails>>

\* The next link of the chain was superseded, or its sheet is bound already.
SkipSwitch ==
  /\ queue # <<>> /\ waiting = None
  /\ requested # Head(queue) \/ active = Head(queue)
  /\ queue' = Tail(queue)
  /\ UNCHANGED <<screen, requested, active, waiting, timer, room, destroyed, upsets, navs, fails>>

\* doSwitch to a connected room runs to its end.
SwitchWarm ==
  /\ queue # <<>> /\ waiting = None
  /\ LET s == Head(queue)
     IN /\ requested = s /\ active # s
        /\ room[s].conn = "ready"
        /\ Activate(s, Parked(room, active))
  /\ queue' = Tail(queue)
  /\ UNCHANGED <<screen, requested, waiting, destroyed, navs>>

\* Mutant: activePath still names the parked sheet during the await.
SwitchColdUncleared ==
  /\ queue # <<>> /\ waiting = None
  /\ LET s == Head(queue)
     IN /\ requested = s /\ active # s
        /\ room[s].conn # "ready"
        /\ room' = [Parked(room, active) EXCEPT ![s].conn = "connecting"]
        /\ waiting' = s
  /\ queue' = Tail(queue)
  /\ UNCHANGED <<screen, requested, active, timer, destroyed, upsets, navs, fails>>

\* doSwitch to any other room parks the old one and awaits the connection.
SwitchCold ==
  /\ queue # <<>> /\ waiting = None
  /\ LET s == Head(queue)
     IN /\ requested = s /\ active # s
        /\ room[s].conn # "ready"
        /\ room' = [Parked(room, active) EXCEPT ![s].conn = "connecting"]
        /\ waiting' = s
  /\ queue' = Tail(queue)
  /\ active' = None
  /\ UNCHANGED <<screen, requested, timer, destroyed, upsets, navs, fails>>

\* connectAll or onboard warms a room.
Warm(s) ==
  /\ Drained /\ ~destroyed
  /\ room[s].conn = "absent"
  /\ room' = [room EXCEPT ![s].conn = "connecting"]
  /\ UNCHANGED <<screen, requested, active, queue, waiting, timer, destroyed, upsets, navs, fails>>

\* Mutant: a room warmed after the first bind gets no skeleton.
OpenedSilently(s, populated) ==
  [room EXCEPT ![s].conn = "ready", ![s].behind = populated]

\* The rooms once s has connected; populated: its doc already holds state.
Opened(s, populated) ==
  [room EXCEPT ![s].conn = "ready", ![s].behind = populated, ![s].where = active]

\* ensureRoom resolves, and with it the switch that awaits it.
ConnectDone(s) ==
  /\ Drained
  /\ room[s].conn = "connecting"
  /\ \E populated \in BOOLEAN :
       IF waiting = s
         THEN /\ Activate(s, Opened(s, populated))
              /\ waiting' = None
         ELSE /\ room' = Opened(s, populated)
              /\ UNCHANGED <<active, waiting, timer, upsets, fails>>
  /\ UNCHANGED <<screen, requested, queue, destroyed, navs>>

\* ensureRoom rejects: a background warm-up is logged, a switch is retried.
ConnectFail(s) ==
  /\ Drained
  /\ Upset("offline") /\ fails < MaxFails
  /\ room[s].conn = "connecting"
  /\ room' = [room EXCEPT ![s].conn = "absent"]
  /\ fails' = fails + 1
  /\ IF waiting = s
       THEN waiting' = None /\ timer' = Retry(s)
       ELSE UNCHANGED <<waiting, timer>>
  /\ UNCHANGED <<screen, requested, active, queue, destroyed, navs>>

\* The retry timer: the editor still shows the sheet and it is not bound.
RetryFires ==
  /\ Drained /\ timer # None
  /\ timer' = None
  /\ queue' = IF requested = timer /\ active # timer THEN Append(queue, timer) ELSE queue
  /\ UNCHANGED <<screen, requested, active, waiting, room, destroyed, upsets, navs, fails>>

\* A peer's edit reaches the doc of s: applied if bound, noted if watched.
RemoteUpdate(s) ==
  /\ Drained
  /\ room[s].conn = "ready"
  /\ IF s \in Entry /\ ~room[s].seeded THEN Upset("boot update") ELSE UNCHANGED upsets
  /\ room' = [room EXCEPT ![s].behind = @ \/ room[s].live = 0,
                          ![s].dirty = @ \/ room[s].watch]
  /\ UNCHANGED <<screen, requested, active, queue, waiting, timer, destroyed, navs, fails>>

\* syncLayoutFromSave writes the doc itself; a watched room is marked too.
LayoutSave(s) ==
  /\ Drained
  /\ room[s].conn = "ready" /\ room[s].watch
  /\ room' = [room EXCEPT ![s].dirty = TRUE]
  /\ UNCHANGED <<screen, requested, active, queue, waiting, timer, destroyed, upsets, navs, fails>>

\* Mutant: the rooms are cleared, the retry timer is not.
DestroyTimerLeft ==
  /\ Drained /\ ~destroyed
  /\ IF \E s \in Sheets : room[s].conn = "connecting" THEN Upset("unmount") ELSE UNCHANGED upsets
  /\ destroyed' = TRUE
  /\ room' = [s \in Sheets |-> IF room[s].conn = "ready" THEN NoRoom ELSE room[s]]
  /\ active' = None
  /\ UNCHANGED <<screen, requested, queue, waiting, timer, navs, fails>>

\* destroy(): every room in the map is torn down; connects go on.
Destroy ==
  /\ Drained /\ ~destroyed
  /\ IF \E s \in Sheets : room[s].conn = "connecting" THEN Upset("unmount") ELSE UNCHANGED upsets
  /\ destroyed' = TRUE
  /\ room' = [s \in Sheets |-> IF room[s].conn = "ready" THEN NoRoom ELSE room[s]]
  /\ active' = None
  /\ requested' = None
  /\ timer' = None
  /\ UNCHANGED <<screen, queue, waiting, navs, fails>>

Switch == SkipSwitch \/ SwitchWarm \/ SwitchCold

Next == \/ Switch \/ RetryFires \/ Destroy
        \/ \E s \in Sheets : \/ Navigate(s) \/ Warm(s) \/ ConnectDone(s) \/ ConnectFail(s)
                             \/ RemoteUpdate(s) \/ LayoutSave(s)

\* Promises settle and timers fire.  (whenSynced has no time-out: a connect that
\* never settles would hold up the chain of switches for good.)
Fairness == /\ WF_vars(Switch) /\ WF_vars(RetryFires)
            /\ \A s \in Sheets : WF_vars(ConnectDone(s) \/ ConnectFail(s))

Spec == Init /\ [][Next]_vars
FairSpec == Spec /\ Fairness

-----------------------------------------------------------------------------
TypeOK ==
  /\ {screen, requested, active, waiting, timer} \subseteq Sheets \cup {None}
  /\ queue \in Seq(Sheets)
  /\ room \in [Sheets -> Room]
  /\ destroyed \in BOOLEAN
  /\ upsets \subseteq Upsets
  /\ navs \in 0..MaxNavs /\ fails \in 0..MaxFails
  /\ active # None => room[active].held /\ waiting = None

\* Every binding that observes a doc, over all rooms.
Bindings == {s \in Sheets : room[s].live > 0}

(***************************************************************************)
(* The items bridge is a singleton that routes its room to the one screen  *)
(* of the editor.  So whenever an event can reach a binding, it is the     *)
(* only one and it belongs to the sheet shown: otherwise a peer's edits of *)
(* one sheet land on another.  (A seed() that throws, and a connect that   *)
(* outlives destroy(), leave a binding attached that nobody owns.)         *)
(***************************************************************************)
BoundIsShown ==
  Drained /\ upsets \cap {"trap", "unmount"} = {} =>
    /\ Bindings \subseteq {screen}
    /\ \A s \in Bindings : room[s].live = 1

(***************************************************************************)
(* seed() reads and rewrites the screen, so a room is bound only while the *)
(* editor shows its sheet.                                                 *)
(***************************************************************************)
SeedsTheShown ==
  [][\A s \in Sheets : room'[s].live > room[s].live => screen = s]_vars

(***************************************************************************)
(* The bound sheet shows everything its room holds: a remote edit that     *)
(* arrived while the sheet was parked, or was still connecting, has been   *)
(* adopted by the time the sheet is bound.  (Not so after the disturbances *)
(* named: a seed onto another sheet's screen is not repeated, a refused or *)
(* failed bind has dropped the watch, and nobody watches the entry room    *)
(* before its first bind.)                                                 *)
(***************************************************************************)
ShownIsCurrent ==
  active # None /\ upsets \cap {"hasty", "refusal", "trap", "boot update"} = {}
    => ~room[active].behind

(***************************************************************************)
(* Any room's roster answers where this user is: once a sheet is bound,    *)
(* the presence published in every connected room names it.                *)
(***************************************************************************)
RostersAgree ==
  active # None => \A s \in Sheets : room[s].conn = "ready" => room[s].where = active

(***************************************************************************)
(* destroy() closes what was opened: no provider or binding outlives it,   *)
(* and no retry reopens one.  (A connect that was in flight goes on and    *)
(* leaves its room open.)                                                  *)
(***************************************************************************)
TornDown ==
  destroyed /\ "unmount" \notin upsets =>
    \A s \in Sheets : room[s].conn = "absent" /\ room[s].live = 0

(***************************************************************************)
(* The sheet the editor stays on is bound in the end, through superseded   *)
(* switches and failed connects (bug 07: it used to stay unbound forever). *)
(***************************************************************************)
ShownGetsBound ==
  \A s \in Sheets : (screen = s) ~> (active = s \/ screen # s \/ destroyed)
=============================================================================
