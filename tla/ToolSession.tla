----------------------------- MODULE ToolSession ----------------------------
(***************************************************************************)
(* One tab of an editor: ToolPage.tsx and PreflightGate.tsx mount          *)
(* components/WasmTool.tsx, whose boot effect runs one asynchronous chain: *)
(* boot the process-global runtime (boot.ts), stage and open the project   *)
(* (kicad-runner.ts, open-flow.ts), lock a viewer, join the collaboration  *)
(* rooms, reveal the editor.  An unmount runs the effect's cleanup; it     *)
(* does not stop a chain that is still awaiting.  oom-watch.ts reloads a   *)
(* tab that ran out of memory, MaxRetries times in a row.                  *)
(*                                                                         *)
(* A mount is an instance of the component; live[m] holds what its chain   *)
(* opened, held[m] what its refs can still close.                          *)
(***************************************************************************)
EXTENDS Naturals, FiniteSets

CONSTANTS
  Kinds,       \* the sessions considered, see KindsAssumption
  MaxRetries,  \* MAX_RETRIES
  MaxMounts,   \* bound: mounts of one page load
  MaxLoads     \* bound: page loads

Tools == {"eeschema", "pcbnew", "calculator"}

ASSUME KindsAssumption ==
  Kinds \subseteq [tool : Tools, readOnly : BOOLEAN, ydoc : BOOLEAN,
                   optOut : BOOLEAN, lockable : BOOLEAN, able : BOOLEAN]
ASSUME BoundsAssumption == {MaxRetries, MaxMounts} \subseteq Nat /\ MaxLoads \in Nat \ {0}

Mounts == 1 .. MaxMounts
None == MaxRetries + 1   \* no sentinel

Steps == {"off", "base", "boot", "session", "stage", "open", "poll", "lock", "cross",
          "collab", "binding", "sibling", "wx", "ready", "error", "skipped", "closed", "orphan"}
Roster == {"presence", "comments", "drift"}
Resources == Roster \cup {"session", "saves", "cross", "rooms", "binding", "sibling", "oom"}

VARIABLES
  kind,        \* the session's URL, build and access
  passed,      \* PreflightGate renders its children
  query,       \* the project query of ToolPage: "ok" or "error"
  mounted,     \* the mounted instance, 0 when none
  pc,          \* pc[m]: where m's chain is
  live, held,
  runtime,     \* "none", "scripts", "rejected", "starting", "broken", "up"
  opened,      \* kicadOpenFile: "no", "opening", "yes"
  locked,      \* kicadSetReadOnly(true) took
  load,        \* page loads so far
  retry,       \* ?oomRetry of the URL
  recovering,  \* recover() has run and the page is about to be replaced
  exhausted,   \* MemoryExhaustedDialog is up
  armed,       \* the healthy-session timer
  left,        \* retry of the sentinel a killed tab left, None when there is none
  barren       \* automatic reloads since a healthy session or a user's fresh start

page == <<passed, query, mounted, pc, live, held, runtime, opened, locked>>
oomv == <<load, retry, recovering, exhausted, armed, left, barren>>
vars == <<kind, page, oomv>>

Larger(a, b) == IF a > b THEN a ELSE b
Nothing == [m \in Mounts |-> {}]

Init == /\ kind \in Kinds /\ passed = kind.able
        /\ query = "ok" /\ mounted = 0 /\ pc = [m \in Mounts |-> "off"]
        /\ live = Nothing /\ held = Nothing
        /\ runtime = "none" /\ opened = "no" /\ locked = FALSE
        /\ recovering = FALSE /\ exhausted = FALSE /\ armed = FALSE
        /\ load = 1 /\ retry = 0 /\ left = None /\ barren = 0

PageOK == /\ kind \in Kinds /\ query \in {"ok", "error"}
          /\ mounted \in 0 .. MaxMounts /\ pc \in [Mounts -> Steps]
          /\ live \in [Mounts -> SUBSET Resources] /\ held \in [Mounts -> SUBSET Resources]
          /\ runtime \in {"none", "scripts", "rejected", "starting", "broken", "up"}
          /\ opened \in {"no", "opening", "yes"}

FlagsOK == {passed, locked, recovering, exhausted, armed} \subseteq BOOLEAN

CountersOK == /\ load \in 1 .. MaxLoads /\ retry \in 0 .. MaxRetries
              /\ left \in 0 .. None /\ barren \in Nat

TypeOK == PageOK /\ FlagsOK /\ CountersOK

-----------------------------------------------------------------------------
(* Mounting: the gate, the project query, and oom.start before the chain.  *)

TryAnyway == /\ ~passed
             /\ passed' = TRUE
             /\ UNCHANGED <<kind, query, mounted, pc, live, held, runtime, opened, locked, oomv>>

\* Mutant: a stale sentinel is removed, its place in the chain forgotten.
Forgotten(seen) == retry

\* reapStaleSentinels: a sentinel old enough to be seen moves this tab to its
\* place in the retry chain.
Adopted(seen) == IF seen THEN Larger(retry, left) ELSE retry

\* The user starts anew: by a link while the sentinel is too young to be seen, or
\* by a refetch that mounts the component again after the dialog.
Anew(m, seen) == \/ left # None /\ ~seen /\ retry = 0
                 \/ \E k \in 1 .. (m - 1) : pc[k] = "skipped"

\* The boot effect: oom.start, then the chain.  The sentinel of a killed tab is
\* seen once its heartbeat is a minute old.
Mount(m) ==
  /\ passed /\ query = "ok" /\ mounted = 0 /\ ~recovering /\ pc[m] = "off"
  /\ \A k \in 1 .. (m - 1) : pc[k] # "off"
  /\ mounted' = m
  /\ \E seen \in {FALSE, left # None} :
       LET n == Adopted(seen)
           proceed == ~seen \/ n < MaxRetries
       IN /\ left' = IF seen THEN None ELSE left
          /\ exhausted' = (exhausted \/ ~proceed)
          /\ retry' = IF proceed THEN n ELSE retry
          /\ armed' = (proceed /\ n > 0)
          /\ pc' = [pc EXCEPT ![m] = IF proceed THEN "base" ELSE "skipped"]
          /\ held' = [held EXCEPT ![m] = IF proceed THEN {"oom"} ELSE {}]
          /\ live' = [live EXCEPT ![m] = IF proceed THEN {"oom"} ELSE {}]
          /\ barren' = IF Anew(m, seen) THEN 0 ELSE barren
  /\ UNCHANGED <<kind, passed, query, runtime, opened, locked, load, recovering>>

\* Mutant: the cleanup forgets the sibling mirror.
ReleasedButSiblings(m) == held[m] \ {"sibling"}

\* What the cleanup of the effect destroys: what the refs hold when it runs.
Released(m) == held[m]

\* A refetch of the project that fails renders the error page: WasmTool unmounts.
\* A chain that is still awaiting goes on.
RefetchFails ==
  /\ query = "ok" /\ mounted # 0
  /\ query' = "error" /\ mounted' = 0 /\ armed' = FALSE /\ exhausted' = FALSE
  /\ live' = [live EXCEPT ![mounted] = @ \ Released(mounted)]
  /\ held' = [held EXCEPT ![mounted] = {}]
  /\ pc' = [pc EXCEPT ![mounted] = IF pc[mounted] \in {"ready", "error"} THEN "closed" ELSE @]
  /\ UNCHANGED <<kind, passed, runtime, opened, locked, load, retry, recovering, left, barren>>

RefetchSucceeds ==
  /\ query = "error"
  /\ query' = "ok"
  /\ UNCHANGED <<kind, passed, mounted, pc, live, held, runtime, opened, locked, oomv>>

-----------------------------------------------------------------------------
(* The runtime: one per page load, whoever mounts.                         *)

RuntimeOnly == UNCHANGED <<kind, passed, query, mounted, pc, live, held, locked, oomv>>

\* wx.js, wx-dom.js and the glue load, or loadScript rejects the boot promise.
Scripts == /\ runtime = "scripts"
           /\ runtime' \in {"starting", "rejected"}
           /\ UNCHANGED opened
           /\ RuntimeOnly

\* The stream of the wasm comes to its end or breaks.
Downloaded == {"up", "broken"}

\* instantiateWasm: a failure is logged, the boot promise has long resolved.
Instantiate == /\ runtime = "starting"
               /\ runtime' \in Downloaded
               /\ UNCHANGED opened
               /\ RuntimeOnly

\* kicadOpenFile runs under Asyncify and may finish after the poll gave up.
OpenFinishes == /\ opened = "opening" /\ runtime = "up"
                /\ opened' = "yes"
                /\ UNCHANGED runtime
                /\ RuntimeOnly

-----------------------------------------------------------------------------
(* The chain of mount m, one action per await.                             *)

At(m, s) == pc[m] = s /\ ~recovering
Goes(m, s) == pc' = [pc EXCEPT ![m] = s]
\* An await that throws ends the chain with the error overlay; if the component
\* is gone, unseen.
Throws(m) == Goes(m, IF mounted = m THEN "error" ELSE "orphan")

Opens(m, what) == live' = [live EXCEPT ![m] = @ \cup what]
Holds(m, what) == held' = [held EXCEPT ![m] = @ \cup what]
ChainOnly == UNCHANGED <<kind, passed, query, mounted, oomv>>
RuntimeSame == UNCHANGED <<runtime, opened, locked>>
NothingOpened == UNCHANGED <<live, held>>

\* resolveWasmBase (the manifest may not load), then bootKicadTool: the first
\* call boots, a later one shares its promise.
Base(m) ==
  /\ At(m, "base")
  /\ \/ Throws(m) /\ UNCHANGED runtime
     \/ /\ Goes(m, "boot")
        /\ runtime' = IF runtime = "none" THEN "scripts" ELSE runtime
  /\ NothingOpened /\ UNCHANGED <<opened, locked>> /\ ChainOnly

\* Mutant: a script that does not load leaves the boot promise open.
BootedIfLoaded(m) ==
  /\ At(m, "boot") /\ runtime \in {"starting", "broken", "up"}
  /\ Goes(m, "session")
  /\ Opens(m, IF kind.readOnly THEN {} ELSE {"saves"})
  /\ UNCHANGED held /\ RuntimeSame /\ ChainOnly

\* The boot promise settles when the scripts have.
Booted(m) ==
  /\ At(m, "boot") /\ runtime \notin {"none", "scripts"}
  /\ IF runtime = "rejected" THEN Throws(m) /\ NothingOpened
     ELSE /\ Goes(m, "session")
          /\ Opens(m, IF kind.readOnly THEN {} ELSE {"saves"})  \* registerSaveHook
          /\ UNCHANGED held
  /\ RuntimeSame /\ ChainOnly

\* connectProvider: the session's connection, whichever provider is configured.
Connection == IF kind.ydoc /\ kind.tool # "calculator" THEN {"session"} ELSE {}

\* maybeConnectDocSession: with the ydoc source the room is joined before the
\* file opens.
Session(m) ==
  /\ At(m, "session")
  /\ \/ Throws(m) /\ NothingOpened
     \/ /\ Goes(m, "stage")
        /\ Opens(m, Connection)
        /\ UNCHANGED held
  /\ RuntimeSame /\ ChainOnly

\* driveProjectIntoTool: the file system is there since the glue was evaluated;
\* a file that cannot be fetched throws.
Stage(m) ==
  /\ At(m, "stage")
  /\ Throws(m) \/ Goes(m, IF kind.tool = "calculator" THEN "lock" ELSE "open")
  /\ NothingOpened /\ RuntimeSame /\ ChainOnly

\* openFileInTool: the frame shows and kicadOpenFile is called ...
OpenCalled(m) ==
  /\ At(m, "open") /\ runtime = "up"
  /\ opened' = "opening" /\ Goes(m, "poll")
  /\ NothingOpened /\ UNCHANGED <<runtime, locked>> /\ ChainOnly

\* ... and the title tells that the file is loaded, or either poll gives up after
\* its 60 s, which is logged and no more.
OpenSettles(m) ==
  /\ At(m, "open") \/ At(m, "poll")
  /\ Goes(m, "lock")
  /\ NothingOpened /\ RuntimeSame /\ ChainOnly

\* Mutant: a lock that did not apply in time is logged.
LockOrLog(m) ==
  /\ At(m, "lock")
  /\ locked' \in {locked, locked \/ kind.readOnly}
  /\ Goes(m, "cross")
  /\ NothingOpened /\ UNCHANGED <<runtime, opened>> /\ ChainOnly

\* A viewer's frame is locked or the boot fails; bundles without the export pass
\* only when they have nothing to change.
Lock(m) ==
  /\ At(m, "lock")
  /\ \/ /\ ~kind.readOnly \/ kind.tool = "calculator"
        /\ Goes(m, "cross") /\ UNCHANGED locked
     \/ /\ kind.readOnly /\ kind.lockable /\ runtime = "up"
        /\ locked' = TRUE /\ Goes(m, "cross")
     \/ /\ kind.readOnly /\ kind.tool # "calculator"
        /\ Throws(m) /\ UNCHANGED locked
  /\ NothingOpened /\ UNCHANGED <<runtime, opened>> /\ ChainOnly

Canvas == kind.tool \in {"eeschema", "pcbnew"}

\* startCrossAppPresence: the project-wide presence room.
Cross(m) ==
  /\ At(m, "cross")
  /\ LET joined == IF Canvas /\ ~kind.optOut /\ ~kind.readOnly THEN {"cross"} ELSE {}
     IN Opens(m, joined) /\ Holds(m, joined)
  /\ Goes(m, "collab") /\ RuntimeSame /\ ChainOnly

\* The gates of maybeStartCollab and startSheetCollab: the opt-out does not hold
\* against a connected session, and the bridge's exports must be there.
CollabOn(m) == /\ Canvas /\ runtime = "up"
               /\ ~kind.optOut \/ "session" \in live[m]

\* startPresence, startComments and startDriftDetection of a bound room: a viewer
\* has none of them.
Rosters == IF kind.readOnly THEN {} ELSE Roster

\* eeschema: the manager opens the rooms and awaits the first switch; its ref is
\* set when that is done.
CollabSheets(m) ==
  /\ At(m, "collab") /\ kind.tool = "eeschema"
  /\ IF CollabOn(m)
       THEN /\ live' = [live EXCEPT ![m] = (@ \ {"session"}) \cup {"rooms"}]
            /\ Goes(m, "binding")
       ELSE Goes(m, "wx") /\ UNCHANGED live
  /\ UNCHANGED held /\ RuntimeSame /\ ChainOnly

\* The first sheet is bound, onActiveChange points the rosters at it; or the
\* switch failed and its retries are left to the manager.
CollabBound(m) ==
  /\ At(m, "binding")
  /\ \E bound \in {{}, Rosters} : Opens(m, bound) /\ Holds(m, bound \cup {"rooms"})
  /\ Goes(m, "wx") /\ RuntimeSame /\ ChainOnly

\* pcbnew: one room, whose binding no ref of the component keeps.
CollabSingle(m) ==
  /\ At(m, "collab") /\ kind.tool # "eeschema"
  /\ \/ /\ CollabOn(m)
        /\ live' = [live EXCEPT ![m] = (@ \ {"session"}) \cup {"binding"}
                                         \cup (Rosters \ {"drift"})]
        /\ Holds(m, Rosters \ {"drift"})
        /\ Goes(m, "sibling")
     \/ CollabOn(m) /\ Throws(m) /\ NothingOpened
     \/ ~CollabOn(m) /\ Goes(m, "wx") /\ NothingOpened
  /\ RuntimeSame /\ ChainOnly

\* The rooms of the schematic's sheets open one by one; the handle that closes
\* them is there when all are.  Drift detection comes last.
SiblingsOpen(m) ==
  /\ At(m, "sibling") /\ ~kind.readOnly /\ "sibling" \notin live[m]
  /\ Opens(m, {"sibling"})
  /\ UNCHANGED <<pc, held>> /\ RuntimeSame /\ ChainOnly

SiblingsReady(m) ==
  /\ At(m, "sibling") /\ (kind.readOnly \/ "sibling" \in live[m])
  /\ LET more == IF kind.readOnly THEN {} ELSE {"drift"}
     IN Opens(m, more) /\ Holds(m, more \cup (live[m] \cap {"sibling"}))
  /\ Goes(m, "wx") /\ RuntimeSame /\ ChainOnly

\* waitForWxUi returns after 25 s at the latest; the overlay drops.
Reveal(m) ==
  /\ At(m, "wx")
  /\ Goes(m, IF mounted = m THEN "ready" ELSE "orphan")
  /\ NothingOpened /\ RuntimeSame /\ ChainOnly

Chain(m) == \/ Base(m) \/ Booted(m) \/ Session(m) \/ Stage(m) \/ OpenCalled(m) \/ OpenSettles(m)
            \/ Lock(m) \/ Cross(m) \/ CollabSheets(m) \/ CollabBound(m) \/ CollabSingle(m)
            \/ SiblingsOpen(m) \/ SiblingsReady(m) \/ Reveal(m)

-----------------------------------------------------------------------------
(* Memory.                                                                 *)

\* Module.onAbort, or an error event that looks like one: recover, once.
Abort ==
  /\ runtime \in {"starting", "up"} /\ ~recovering /\ ~exhausted
  /\ IF retry >= MaxRetries THEN exhausted' = (mounted # 0) /\ UNCHANGED recovering
     ELSE recovering' = TRUE /\ UNCHANGED exhausted
  /\ UNCHANGED <<kind, page, load, retry, armed, left, barren>>

\* A page load: nothing is left of the one before but the URL and localStorage.
NextLoad == /\ load < MaxLoads /\ load' = load + 1
            /\ passed' = kind.able
            /\ query' = "ok" /\ mounted' = 0 /\ pc' = [m \in Mounts |-> "off"]
            /\ live' = Nothing /\ held' = Nothing
            /\ runtime' = "none" /\ opened' = "no" /\ locked' = FALSE
            /\ recovering' = FALSE /\ exhausted' = FALSE /\ armed' = FALSE
            /\ UNCHANGED kind

\* location.replace with the counter one up.
Reload == /\ recovering
          /\ NextLoad
          /\ retry' = retry + 1 /\ barren' = barren + 1
          /\ UNCHANGED left

\* 30 s after oom.start the chain is reset, whatever the boot has come to.
Healthy == /\ armed /\ ~recovering
           /\ retry' = 0 /\ armed' = FALSE /\ barren' = 0
           /\ UNCHANGED <<kind, page, load, recovering, exhausted, left>>

\* The browser kills the renderer: the sentinel stays.  The user comes back by the
\* same URL, or by a link without the counter.
HardKill ==
  /\ mounted # 0 /\ "oom" \in live[mounted] /\ ~recovering /\ ~exhausted
  /\ NextLoad
  /\ left' = IF left = None THEN retry ELSE Larger(left, retry)
  /\ retry' \in {retry, 0}
  /\ UNCHANGED barren

\* The user leaves the dialog: a reload, or a new tab whose chain starts anew.
StartAnew == /\ exhausted
             /\ NextLoad
             /\ retry' \in {retry, 0} /\ barren' = 0
             /\ UNCHANGED left

Next == \/ TryAnyway \/ RefetchFails \/ RefetchSucceeds
        \/ Scripts \/ Instantiate \/ OpenFinishes
        \/ \E m \in Mounts : Mount(m) \/ Chain(m)
        \/ Abort \/ Reload \/ Healthy \/ HardKill \/ StartAnew

\* The network answers, the browser loads or fails the scripts and runs the
\* timers of the chain; nothing is assumed of the user, of memory or of the
\* refetches.
Fairness == WF_vars(Scripts) /\ \A m \in Mounts : WF_vars(Chain(m))

Spec == Init /\ [][Next]_vars /\ Fairness

-----------------------------------------------------------------------------
(* Properties.                                                             *)

\* What the tab shows (render of ToolPage, PreflightGate and WasmTool).
Shown == IF query = "error" THEN "project error"
         ELSE IF mounted = 0 THEN "gate"
         ELSE IF exhausted THEN "out of memory"
         ELSE IF pc[mounted] = "error" THEN "boot error"
         ELSE IF pc[mounted] = "ready" THEN "editor" ELSE "booting"

\* What only a session that may write opens.
Outbound == Roster \cup {"saves", "cross", "sibling"}

\* A viewer is an invisible observer: it publishes, uploads and reports nothing,
\* and its editor is revealed only behind the lock (WasmTool.tsx "Fails CLOSED"),
\* however the boot went and however often the page was mounted.
ViewerSafe == kind.readOnly =>
                /\ \A m \in Mounts : live[m] \cap Outbound = {}
                /\ Shown = "editor" /\ kind.tool # "calculator" => locked

\* A mount whose chain had ended leaves nothing open when it goes but what no ref
\* of it keeps: the save hook, an unattached session and the binding of a single
\* room (README, disagreements).
Unkept == {"saves", "session", "binding"}
TornDown == \A m \in Mounts : pc[m] = "closed" => live[m] \subseteq Unkept

\* oom-watch.ts reloads a tab by itself at most MaxRetries times before a session
\* passed for healthy or the user started anew, though a killed renderer cannot
\* pass its counter on.
RetriesCapped == barren <= MaxRetries

\* Every boot comes to an end the user sees: the editor, an error, or a reload.
Booting == Shown = "booting" /\ ~recovering
BootSettles == Booting ~> ~Booting

\* WasmTool.tsx:1463 "Tool booted + project opened": the editor is revealed with
\* the file open.  Violated: the poll of the frame gives up before a slow download.
RevealedOpened == Shown = "editor" /\ kind.tool # "calculator" => opened = "yes"
=============================================================================
