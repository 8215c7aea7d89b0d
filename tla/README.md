# Verification of pcbjam

pcbjam runs KiCad's editors as WebAssembly modules in the browser and lets several people edit one
project. This directory holds TLA+ models of the parts of it where order and failure decide whether a
design survives: the fibers that run the C++ change bridge, the exchange of changes between an editor
and its Yjs document, the seeding of a fresh room, the rooms of a hierarchical schematic, presence and
locks, the worker services, the life of an editor tab, the project store, the libraries, and what an
editor lays over its canvas. TLC checks them on small instances; TLAPS proves the safety invariants
the runs check, their action properties and a refinement for every size.

Paths are relative to the repository. `collab/` is `src/web/standalone/src/wasm/collab/`, `wasm/` its
parent, `web/` is `src/web/standalone/src/`.

## 1. Inventory

```
  pages, project store --mount--> WasmTool boot chain --opens--> rooms, bridges, presence, comments
        ^    |                          |
        +----+ save, fork, quit         v
  KiCad model --listener--> change bridge (C++) --window.kicadCollab--> binding --> Y.Doc --> provider
      ^   ^                     | fiber queue                              |            |
      |   +--- commit.Push -----+ <----------- applyItems -----------------+   awareness: presence, locks
      |                                                       sheet manager: which room is bound
  libraries: plugin <--provider-- CDN | sync stack | backend      overlays: comments, follow, touches
  editor suspended (Asyncify) <---- worker services: ngspice, occ
```

| Component | State it keeps | Operations | What is hard | What makes it correct |
|---|---|---|---|---|
| fiber queue, `src/wasm/bindings/collab_common.h` | pending bodies, coroutine slots, drain flag | `runOnFiber`, `drainFibers`, `reapFiber` | a body suspends inside `commit.Push` while the main loop goes on | one body at a time, in order; nothing freed under a parked body; no lost wake-up |
| pcbnew change bridge, `src/wasm/bindings/pcbnew_embind.cpp` | baseline, dirty set, flush flag, `s_applyingRemote` | listener, `flushDiff`, `doApplyItems`, `rebaselineTouched` | local edits between arrival and application of a remote change, and during the park of an apply | no edit swallowed, none echoed, editors converge |
| eeschema and drawing-sheet bridges | the same, per sheet | the same, and a rebaseline on navigation | bodies queued for one sheet run on another | as above, per sheet |
| binding, `collab/kicad-binding.ts` | seed and arbitration observers | DOWN hook, UP observer, `seed`, `destroy` | check-then-act on an empty room across tabs | one layout per room |
| transports, `collab/broadcast-transport.ts`, `provider.ts`, `awareness-bc.ts` | the channel | query, state, update, removal | order across senders, tabs that die | replicas agree |
| sheet manager, `collab/sheet-manager.ts` | rooms, requested and active path, chain of switches, retry timer | `connectAll`, `onboard`, `onSheetChanged`, `syncLayoutFromSave`, `destroy` | awaits inside a switch, failures half-way, teardown in flight | the one binding is on the sheet shown, and the sheet shown gets it |
| presence, `collab/presence.ts` | claims | join, resolve, leave | simultaneous claims on stale views | one colour per user, distinct users distinct, and it ends |
| selection locks, `collab/lock-tiebreak.ts`, `presence-kicad.ts`, `src/wasm/bindings/collab_presence_core.h` | published selections, lock sets, push timer | select, check, push, release, leave | each step acts on what was known when it was queued | an item can be moved in one tab only, locks have holders |
| worker services, `wasm/ngspice-service.ts`, `occ-service.ts`, their workers, `sharedspice_client.cpp` | boot promise, pending map, mirror of the run | request, boot, answer, event, error | crashes while callers are suspended | every call is answered |
| editor tab, `web/components/WasmTool.tsx`, `web/pages/ToolPage.tsx`, `wasm/boot.ts`, `open-flow.ts`, `kicad-runner.ts`, `collab/index.ts` | the chain of awaits of one mount, what it opened, the refs that close it, the process-global runtime | mount, the steps of the chain, unmount, abort, reveal | an unmount does not stop a chain; one runtime serves every mount | a viewer stays one, what is opened is closed, every boot ends |
| memory watch, `web/recovery/oom-watch.ts` | counter in the URL, sentinels in the storage, healthy timer | abort, reload, adopt, reap | a killed renderer says nothing | reloads are capped, and start anew when the user asks |
| project store, `web/lib/idb-project-store.ts`, `project-source.ts`, `api.ts`; home, project and new-file pages | two IndexedDB stores, over a gallery or a backend | list, create, fork, import, read, write, rename, touch, delete | every operation is several transactions, tabs interleave | what the user saved stays; no files without a project |
| save and quit, `wasm/save-flow.ts`, `WasmTool.tsx` | the save hook, the quit latch | save, upload, quit, switch | a port that destroys the frame whenever the page goes | only the user quits |
| libraries, `wasm/libs/`, `src/web/backend/src/user-libs.ts`, `src/wasm/bindings/pcbjam_libs_reload.h` | stacks and their subscription, own pushes in flight, the plugin's cache, the backend's index | presync, tables, list, save, event, reload | a failed push, an echo, a truncated index, lists in flight | saved items are found, peers' edits arrive |
| 3D models, `wasm/libs/models-bridge.ts` | files, memo, fetches in flight | ensure, prescan, export | three callers for one body | every path is of a file on disk |
| comments, `collab/comments.ts`, `web/components/CommentLayer.tsx` | threads of the sheet shown, dots, the layer's own copy | bind, push, hide, drag, submit | two copies of one list, re-rendered and throttled apart | canvas and layer agree, and are of the sheet shown |
| follow user, `collab/follow-user.ts` | the target, the rectangle last fitted, `sawEcho` | follow, fit, echo, end | telling a user's move from the echo of a fit | the follower shows the leader's view or the follow ends |
| touches, `wasm/touch-gestures.ts` | the recognizer's mode, the pair it watches | touch, move, lift, cancel | fingers come and go in any order | only taps click, the wheel follows the fingers |
| cross-app presence, sibling restage, drift detector, legacy reconciler, pages and chrome, backend's static part | see `PROJECT.json` | | | section 8 |

Interaction. The bridge calls the binding through a hook on `window` and is called back through an
exported function that only queues a fiber body. The binding writes to a Y.Doc in one transaction,
which a provider broadcasts. The sheet manager owns the bindings of a schematic and re-routes the
single items bridge between rooms. Presence, locks, comments and follow share the awareness and the
documents of one room. All of these are opened by the boot chain of a mount and closed by its cleanup.
Worker services and libraries are called from C++ that stays suspended until a promise settles; a
library's reload runs as a body of the fiber queue.

The hazards of each part are listed at their lines in `PROJECT.json`, those no property covers yet in
section 9.

## 2. Modules

| Module | Models | State | Actions |
|---|---|---|---|
| `SerialExecutor` | what `runOnFiber` promises: a FIFO of bodies, one at a time | `pending`, `running`, `finished` | `Submit`, `Start`, `Finish` |
| `FiberQueue` | `collab_common.h`: the drain loop, parking and reaping | queue, slots, drain stack | one per branch of `drainFibers`, plus `Park`, `Rewind`, `FinishBody` |
| `CollabSync` | listener, flush, apply, binding and provider of several editors after the seed | `model`, `baseline`, `dirty`, `flushScheduled`, `fibers`, `applying`, `doc`, `channel` | `LocalEdit`, `DoFlush`, `ApplyBegin`/`ApplyEnd` (around `commit.Push`), `Receive` |
| `SeedRoom` | `seed()` and the arbitration over the BroadcastChannel provider | `phase`, `seeds`, `retracted`, `armed`, `channel` | `Connect`, `SeedFromFile`, `Adopt`, `AnswerQuery`, `Receive`, `Park`, `Rebind`, `Close` |
| `SheetManager` | `createSheetCollabManager` | `screen`, `requested`, `active`, `queue`, `waiting`, `timer`, `room` | `Navigate`, `SkipSwitch`, `SwitchWarm`, `SwitchCold`, `Warm`, `ConnectDone`, `ConnectFail`, `RetryFires`, `RemoteUpdate`, `LayoutSave`, `Destroy` |
| `PresenceColors` | `createPresence` | `color`, `view`, `inbox`, `heard` | `Open`, `Claim`, `Deliver` (with the resolution of collisions), `Leave` |
| `SelectionLock` | the soft locks across C++ and TypeScript | `selection`, `published`, `heard`, `locks`, `releases`, timers | `Pick`, `Check`, `Deliver`, `Push`, `Release`, `Leave`, `Crash`, `Expire` |
| `WorkerService` | both worker services, their workers and the run mirror | `call`, `workerP`, `boot`, `worker`, `todo`, `news`, `running`, `mirror` | requests, message handlers, loading, serving, the background thread, `Crash` |
| `ToolSession` | one tab of an editor: pages, boot effect, runtime, memory watch | `pc`, `live` and `held` per mount, `runtime`, `opened`, `locked`, `query`, the counters and sentinel of the memory watch | one per await of the chain (`Base` … `Reveal`), refetches, `Scripts`, `Instantiate`, `OpenFinishes`, `Abort`, `Reload`, `NextLoad`, `Healthy`, `HardKill`, `StartAnew` |
| `Projects` | the tabs of a browser over the project store | `projects`, `files`, `page`, `op`, `win` | the user's starts (`Import`, `Fork`, `Rename`, `Delete`, `Save`, …), one action per transaction, the ways out of the editor |
| `Libraries` | the libraries of one owner over each kind of source | `stack`, `local`, `events`, `pushed`, `timer`, `queued`, `plugin`, `req`, `bodies`, `index` | `Presync`, `Tables`, `List`, `Save`, one per await of a request, `Arrives`, `Delivered`, `Fires`, `Reload`, `Looks`/`WritesBody`/`Truncates`/`Finishes` of the backend |
| `ModelsBridge` | `models-bridge.ts` | `disk`, `memo`, `ensuring`, `waiting`, `shipped` | `Ask`, `Body` |
| `Comments` | `createCommentsBinding` and `CommentLayer` | `doc`, `item`, `cache`, `pins`, the layer's state, the drag | `Bind`, `Fires`, `Seeds`, the layer's handlers, `PinDown`/`PinMove`/`PinUp`, `PeerEdits` |
| `FollowUser` | `follow-user.ts` over the viewport wire | `shown`, `last`, `latest`, `sent`, `known`, `target`, `applied`, `echoed`, `silent`, `fits` | `Moves`, `EmitsMove`, `Lands`, `Publishes`, `Hears`, `Follow`, `Leaves` |
| `Gestures` | `touch-gestures.ts` | `touching`, `gesture`, `lastSpan`, `middle`, `zoomed` | `Lands`, `Travels`, `Lifts`, `Cancels`, `Waits` |
| `Overlays` | the three above in one editor | | a behaviour is of one part |
| `CollabSyncProofs`, `SeedRoomProofs`, `RoomsProofs` (`SheetManager`, `PresenceColors`), `WorkerServiceProofs`, `ToolSessionProofs`, `ProjectsProofs`, `LibrariesProofs` (with `ModelsBridge`), `CanvasProofs` (`FiberQueue`, `SelectionLock`, `Comments`, `Gestures`) | the theorems | | |

`Libraries` composes `ModelsBridge`, `Overlays` composes `Comments`, `FollowUser` and `Gestures`, by
INSTANCE; the parts share the editor and no state, so a behaviour is of one part, which keeps their
state spaces apart and lets one run check several. `SerialExecutor` is refined by `FiberQueue`, whose
FIFO `CollabSync` (bodies) and `Libraries` (reloads) rely on. A proof module that hosts several
components states each theorem of one specification alone, which is why theirs have names of their own
(`LockSpec`, `OverlaySpec`, `ColorSpec`). Each `MC…` module gives the constants
their values. Definitions marked "Mutant" are plausible bugs in the code; `PROJECT.json` names the
property each of them breaks.

### Granularity

* JavaScript runs to completion. A handler, a timer callback or a queued C++ body is one action. In
  `SheetManager` an `await` on a settled promise goes on before any new event, so a switch to a
  connected room is one step (`SwitchWarm`), a switch to a cold one is split at `await ensureRoom`
  (`SwitchCold`, then `ConnectDone` or `ConnectFail`). The boot chain, a store operation and a library
  request are split at every await.
* C++ bodies suspend only in `commit.Push`. `FiberQueue` proves that they run whole and in order
  although they do; `CollabSync` relies on it, keeps a FIFO of bodies per editor and splits an apply
  where it may park.
* Channels are FIFO for each pair of tabs and unordered across senders. A BroadcastChannel reaches
  the tabs connected at the time of the post, and no other.
* A Y.Map entry is a register stamped with the chain of its authors: a chain wins over its prefix,
  concurrent chains are ordered by client id, and a deletion loses to a concurrent write. That is how
  Yjs integrates `set` and `delete`; Yjs itself is external.
* An IndexedDB transaction is atomic and may abort; a request to the backend reads, truncates and
  writes a file in steps that other requests fall between.

### Data

An item's content in `CollabSync` is a pair of edit numbers, one for the whole item and one for what
the scalar projection of `itemToJson` shows: the difference is why the dirty set exists. A room in
`SheetManager` is compared with the editor by one flag, `behind`. A seed in `SeedRoom` is the id of
the tab that wrote it; nonces are concurrent by construction (a tab writes one only when it sees
none), so the highest client id wins. A file in `Projects` is missing, as given, a template or the
user's edit. A library item in `Libraries` is a version number. A view in `FollowUser` is a centre and
a zoom; canvases are square or twice as wide as high, which is what makes two fits differ.

## 3. Runs

| Run | Bounds | Distinct states | What it shows |
|---|---|---|---|
| `fiber_queue` | 3 bodies, 2 suspensions each | 1.5 k | parked objects are pinned; no wake-up is lost; every body finishes; refines `SerialExecutor` |
| `collab_sync` | 2 editors, 3 items (one each, one shared), 3 edits, deletions and projection-neutral edits included | 192 k | own edits are published, applies are not echoed, edits are flushed, editors agree with the replicas on items one user keeps to |
| `seed_room` | 3 tabs, one of them a viewer, leaving and closing | 1.2 M | a layout is retracted only for a better seed; a second one survives only where a tab left |
| `sheet_manager` | 2 sheets (one the entry), 4 navigations, 2 failures, every disturbance | 24 k | the only binding is on the sheet shown, current, in every roster, reached in the end |
| `presence_colors` | 3 clients of 2 or 3 users, 4 colours, two of which a tab may bring from another room and one that a user has commented in | 127 k | claims converge; colours distinct for distinct users but for a tab that has heard nothing yet, one per user but for one tab of the room |
| `selection_lock` | 3 tabs, 1 item, 3 selections, 2 states in flight | 357 k | things settle; then one mover per item and no lock without a holder |
| `worker_service` | 4 requests (two runs, a halt, a query), 3 workers | 137 k | every call is answered, the run state is mirrored |
| `tool_session` | 5 kinds of session, 2 mounts a load, 4 loads, 1 retry | 684 k | a viewer writes nothing and is shown locked; an unmount closes what its chain opened; reloads are capped; no boot hangs |
| `projects` | 2 tabs, one with editors, 2 slugs of one name, 1 file, 3 operations, gallery or backend | 349 k | saved files stay, the store is coherent, a gallery project moves to local, only the user quits |
| `project_template` (violation) | the same | | the home page's dialog writes a template over a saved file |
| `libraries` | 2 tabs, 2 items, 2 saves, each source; 3 callers and 6 references of 3D models | 204 k | acknowledged items are listed and listed ones have bodies; peers' edits reach the editor; model paths are of files on disk |
| `overlays` | 2 threads on 2 sheets, 2 edits; 2 tabs of different shape, zoom 1–2, 1 move; 5 fingers, two of them off the canvas | 310 k | canvas and comment layer agree, changes reach the canvas, the follower of a tab that follows nobody comes to mirror it for good, only taps click, pinches zoom |

Why the bounds are enough. Two editors and three edits contain every pair of concurrent edits with a
third one during an apply, which is where the bugs 04 and 05 of `docs/features/ysync-review/` lived (their
old code is a mutant of the run). Three tabs give a winner, a loser and a bystander that joins late.
Two sheets and four navigations give the round trip of bug 07 with a failure in the middle. Three
clients give a collision with a third client that sees the claims in another order; the colours they
bring along give what more clients would: claims of the last colour that cross. Three workers
give a crash, a reboot and a crash again. Two mounts give a chain left behind by its mount beside a
new one; four loads give a reload, a killed renderer and a link opened afterwards, past a cap of one.
Two tabs over two slugs give every pair of store operations on one project and on two of one name.
Two saves of two items give every overlap of two index writes and an own push beside a peer's. Two
sheets of threads give a rebind with anything open on the sheet left. Five fingers give a pinch, a
third finger that takes the place of a lifted one, and two the recognizer is never told of. Every
bound is a constant in the `.cfg`.

Deadlock is not checked (`CHECK_DEADLOCK FALSE`) because every one of these systems may stop: users
owe nothing, and the bounds on edits, requests, loads and saves run out.

Further configurations, each of which TLC refutes, stand beside the runs: `MCCollabRace`,
`MCCollabSwallow`, `MCSeedParked`, `MCSheetWrongSeed`, `MCNgspiceBoot`, `MCToolReveal`,
`MCPresenceCrowd`, `MCCommentsDrag`, `MCFollowLoop`, `MCFollowDeaf` and `MCTouches` (section 6). The
`TypeOK` of each module, and the smaller facts `OneFlushPending`, `ReplicasAgree`, `WritesBounded`
(`CollabSync`), `NoneStranded` and `FreshWorker` (`WorkerService`), hold in the configurations of their
modules when added to them; they are left out of the runs, which ask the harder questions. The first
and the last two of them are proved (section 5).

## 4. Fairness

* `FiberQueue`: drains that were asked for run, loops continue, parked bodies are rewound. Each is an
  event of the browser's loop that the code has already scheduled.
* `CollabSync`: fiber bodies run (`CallAfter`), channels deliver. Users need not edit.
* `SheetManager`: the promise chain goes on, a connect settles either way, the retry timer fires. A
  connect that never settles would hold up the chain for good: `whenSynced` of the network providers
  has no time-out (`collab/provider.ts:132`), so `ShownGetsBound` is relative to that assumption.
* `PresenceColors`, `SelectionLock`: messages arrive, timers and queued checks run, and in
  `SelectionLock` the awareness time-out removes a silent client.
* `WorkerService`: messages are handled, a worker finishes loading or fails, and answers what it
  gets. A background run need not end.
* `ToolSession`: the chain goes on at each await and the scripts load or fail. The download of the
  wasm need not end: the polls of the chain time out. Nothing is owed by users, renderers or refetches.
  As above, a room's connect settles.
* `Projects`: a started operation goes on, transaction by transaction, and a fork the page owes begins.
* `Libraries`: requests settle one way or the other, the room's changes and the stack's events come,
  timers fire and the fiber runs. Users owe neither saves nor lists.
* `Overlays`: the comment throttle fires, viewports are emitted, published, heard and fitted. Fingers,
  peers and users owe nothing.

## 5. Proofs

`tlapm` on the eight proof modules. Nothing in them bounds an instance: any sets of bodies, editors,
items, tabs, sheets, requests, slugs, threads and fingers, any number of edits, navigations, loads and
saves, any palette. What is assumed of the constants is stated as ASSUME in the module that declares
them and says what the code gives: client ids and slugs are natural numbers, the clients of a room are
finitely many, there is a colour at least, disturbances and sources are of the kinds listed.

Every proof has the same shape: an invariant is found that `Init` establishes and each action keeps,
one step per action, and the property follows from it. What the properties lack to be inductive is
what their own actors cannot see: messages on the way, a step half done, who will clean up. A
property of the settled system is proved from what holds on the way there.

Types. `TypeCorrect` of `CanvasProofs` (the executor), `SeedRoomProofs`, `ToolSessionProofs`,
`RoomsProofs` (the sheet manager), `CollabSyncProofs`, `WorkerServiceProofs` and `ProjectsProofs`.

Editors and documents:

* `CanvasProofs!SlotStaysPinned`, `WakeupsAreKept`. `NoLostWakeup` is not inductive alone: that a
  queued body will be started follows from who is in the drain loop, so `ControlInv` adds how slots,
  flags and the body in flight belong together.
* `CanvasProofs!ImplementsSerialExecutor`: under the mapping in `FiberQueue`, initial states map to
  initial states and every step to a step of `SerialExecutor` or to a stutter. Parking, rewinding,
  empty drains and reaping are the stutters.
* `CollabSyncProofs!FlushesScheduled`: the flag is the presence of the one flush in the queue.
* `CollabSyncProofs!NothingEchoed`. `EchoInv`: what an editor would flush (a difference to the baseline
  or a dirty mark), has in a queue or has broadcast is of an item its user edits.
* `CollabSyncProofs!OwnEditsPublished`, under `"hidden" \notin ParkEdits`: no edit that leaves the
  projection alone is made while an apply is parked (`MCCollabSwallow` shows why). `PublishInv`: the
  baseline of an item with one user is the projection of the document's entry, and where the model
  differs from that entry it is dirty or differs from the baseline, and a flush is due or an apply
  will schedule one.
* `CollabSyncProofs!OwnItemsFollowed`, `OwnItemsConverged`, the second under the same hypothesis.
  `FollowInv`: on an item one user keeps to, the entries on their way to a replica come in the order
  of their stamps, the last is what its user's replica holds, and the wires queued for the screen
  lead to what the replica holds.
* `SeedRoomProofs!LosersHaveAWinnerAlways`. A tab that merges a retraction does not see why it was
  made, so `WinInv` claims it of the messages in flight as well: their seeds were really written, and
  every retracted seed is beaten by one that was. Seeds are never taken back, so honesty is stable
  (`HonestyKept`).
* `SeedRoomProofs!LosersAreArmedAlways`. `ArmInv` adds that a tab that has not settled has not
  seeded; with `WinInv` a merged set can only hold the tab's own id if it seeded itself.
* `SeedRoomProofs!OneLayoutUnlessLeftAlways`. `DeliverInv`: between two connected tabs a seed or a
  retraction has been heard, is on its way, or will be in the answer to a query. `OwnInv`: only the
  author of a seed takes it back. `TopInv`: there is a highest seed. In a settled room every connected
  tab has heard of that one, and whoever wrote a lower one and kept its arbitration has retracted it.

Rooms, presence and locks:

* `RoomsProofs!BoundIsShownAlways`, `ShownIsCurrentAlways`, `RostersAlwaysAgree`, `PoolIsTornDown`.
  A switch parks one room and binds another in one step, so `RoomsInv` is stated of any rooms and any
  active sheet and shown of each half: only the active room is attached, what its screen lacks is
  marked dirty or does not match, every connected room names the active sheet. `ChainInv` ties the
  chain of switches to the screen: its last is the sheet shown, and an empty one leaves nothing else
  bound or awaited. `TornInv`: after a destroy nothing is under way.
* `RoomsProofs!OneColorPerUserButOne`. `ToldInv`: what a client sees of another after its messages is
  that one's colour. `AnsweredInv`: a tab that sees a conflict it will not act on has just claimed and
  announced it, so of two such tabs the first to claim has the other's claim on its way. A quiet room
  has one of them at most, and all others agree by `ToldInv`.
* `RoomsProofs!UsersAreDistinct`, whatever colours tabs bring from other rooms (`Carried`) and whatever
  slots the comment authors have (`Slots`). A tab that has heard nothing since it joined is excepted
  (`Fresh`); it is the only one that can wait on a colour it did not choose here. Another that waits has
  either taken over the colour of a tab of its user (`ChosenInv`), which does not wait and so has it
  alone, or claimed: the other users and the authors hold fewer colours than the palette has, so one was
  free, and `LowestFreeColor` prefers it.
* `RoomsProofs!CrowdsStayRestless`. The users that do not wait have distinct colours, and one waits
  at most: in a room with two users more than colours there is always a claim on its way.
* `CanvasProofs!OneMoverAlways`, `LocksAreHeld`. `HeardInv`, `CheckInv`, `LocksInv`: what is not known,
  not published or not pushed yet has a message, a check or a push queued. With nothing queued all
  tabs decide from the same selections.

Editor tab, services, store, libraries:

* `ToolSessionProofs!ViewersAreSafe`. That a viewer's editor is shown locked says nothing of the step
  before: `LockedInv` claims the lock of every chain past its step `lock`, reveals included, and
  `QuietInv` that no mount of a viewer has opened what writes.
* `ToolSessionProofs!MountsAreTornDown`. A cleanup closes what the refs hold, so `HeldInv` relates
  what a mount has opened to its refs while it is mounted, chain step by chain step (`Unset` names what
  is open before its ref is set), and `MountInv` orders the mounts.
* `ToolSessionProofs!RetriesAreCapped`. The counter of the URL does not survive a killed renderer;
  `CapInv` says who covers the reloads so far: the counter, the sentinel of a page that has booted
  nothing yet, or the cap of a page that was skipped.
* `WorkerServiceProofs!MirrorAgreesAlways`. `MirrorInv`: the answers and events still to be handled,
  in their order, bring the mirror to the state of the worker's run; who asks for a run or a halt has
  set its own hand at that before.
* `WorkerServiceProofs!NobodyStranded`, for a service whose crashes all reach a handler that can
  answer them (`Reported`: ngspice, or an occ worker that does not die after its boot). `QueueInv` and
  `PostedInv`: a dead worker's error is still to be handled as long as anybody waits on it. What the
  theorem does not cover is a crash while ngspice loads, which settles no boot promise
  (`MCNgspiceBoot`): those callers wait on a promise, not on a worker.
* `ProjectsProofs!QuitsAreMeant`, `EditsAreKept`, `StoreStaysCoherent`. The last two are action
  properties. The invariant is what an operation in the middle knows of its last look at the store
  (`Ready`: a create writes a slug it found free, a save brings edits only, a template goes where no
  file was seen) and what a page on its way out owes to its user (`Honest`); a write of an operation
  that no other tab overtook then finds the store as it was seen.
* `LibrariesProofs!AcknowledgedIsListed`. `SavedItemsFound` speaks of an index that can be read; the
  proof needs what a request in the middle of its write knows. `AckInv`: a writer alone has read every
  item acknowledged. `TornInv`: an index that reads as none is new or one whose writer has yet to
  finish, so a create that finds none wipes nothing unless writes overlapped. `BodyInv`: rows read or
  listed have bodies. Every other action is `Calm`: it neither makes a writer nor touches the index.
* `LibrariesProofs!ModelPathsAreOnDisk`. `ModelsInv` adds types; `ShipsOnce` is the one lemma on
  sequences.

Canvas:

* `CanvasProofs!LayerAlwaysAgrees`. `PinnedInv`: the dots are those of the cache, which is of the
  sheet bound. `ShownInv`: a live layer lists the cache, and a hidden one has nothing open.
* `CanvasProofs!PinchesZoom`, `ClicksAreMeant`. `HeldInv` relates the recognizer's mode to the fingers
  it was told of while all are on the canvas, `PressInv` a press to one finger that stayed, `OwedInv`
  what the wheel owes to how far the pair has moved since it last turned.

Three proofs that failed corrected the models. `OneColorPerUser` held of three clients and is false
of more: it now names the tab that waits, and colours brought into the run's room show it.
`DistinctUsers` now counts the comment authors instead of excluding them. The history `seen` of
`Gestures` was wrong with two fingers beside the canvas, one more than the run had.

Only model-checked: all liveness (`EditsAreFlushed`, `ShownGetsBound`, `ClaimsConverge`,
`ContestsSettle`, `EveryRequestSettles`, `EveryBodyFinishes`, `BootSettles`, `MovesToLocal`,
`PeersReach`, `PinsFollow`, `FollowSettles`), since the prover has no rules for fairness and ENABLED. No
module uses a RECURSIVE operator.

## 6. Disagreements between code and its comments

The run `project_template` checks a statement the code does not keep; `PROJECT.json`, "findings",
quotes it. The configurations below check others: TLC refutes the property of each.

| Configuration, property | Statement | What the code does |
|---|---|---|
| `MCCollabRace`, `Converged` | `pcbnew_embind.cpp:669-671` "re-applying already-settled geometry is idempotent, so the two converge" | a flush queued ahead of an apply of the same item writes the user's value over the peer's entry; the apply, rendered before, then puts the peer's value into the model and the baseline (1167): the editor that made the edit shows the peer's, and nothing re-applies it |
| `MCCollabSwallow`, `LocalEditsPublished` | `pcbnew_embind.cpp:1164-1166` "a concurrent local edit … broadcasts as a normal local diff instead of being swallowed" | while `commit.Push` is parked `trigger()` returns before `noteDirty` (947), so an edit that leaves the scalar projection alone is in neither the dirty set nor the next diff |
| `MCSeedParked`, `OneLayout` | `kicad-binding.ts:262-265` "if a FOREIGN nonce wins the meta LWW merge, our layout inserts are retracted" | a sheet switch destroys the arbitration (378), and a rebind of the populated room does not arm it again: two layouts stay |
| `MCSheetWrongSeed`, `SeedsTheShown` | `sheet-manager.ts:287-289` "we only bind when they agree (the seed/snapshot then reads the right screen)" | agreement is checked before the await of `ensureRoom` and not after (244-250): the room is seeded with another sheet's screen |
| `MCNgspiceBoot`, `EveryRequestSettles` | `ngspice-service.ts:138-140` "A dead worker … must not strand the editor … fail everything in flight and make the next request boot a fresh worker" | an error while the worker loads settles no boot promise: all that await it wait for ever |
| `MCToolReveal`, `RevealedOpened` | `WasmTool.tsx:1464-1465` "Tool booted + project opened … so we don't reveal a still-blank editor" | the poll for the frame starts with the download of the wasm (`open-flow.ts:130`) and gives up on a slow link; the failure is logged, and the overlay drops on an editor that never opened the file |
| `MCPresenceCrowd`, `ClaimsConverge` | `presence.ts:245`, the resolution ends | with four clients and two colours two users that find the same least used colour republish it for ever |
| `MCPresenceColors` with the invariant `TabsConverge` added | `presence.ts:202` "Same-user tabs converge the other way", 208-209 "the next genuine (async) awareness delivery re-runs the resolver" | a tab that sees two conflicts acts on the first (returns at 233 or 248), the guard drops the event of its own patch, and no delivery need follow: two tabs of a user keep two colours until somebody's next cursor move |
| `MCPresenceColors` with the invariant `AlwaysDistinct` added | `presence.ts:64` "N ≤ palette-size editors always get distinct colors" | a sticky claim (161) or the user's comment slot (172) is published over the same colour of a stranger with a lower client id, who need not yield; the patch (190) precedes `awareness.on` (283), so the newcomer's resolver does not run until somebody's next event |
| `MCCommentsDrag`, `DragsHeldPin` | `CommentLayer.tsx:174-196`, a pin moves while it is held | a pin that unmounts under the pointer leaves `dragRef`: a later hover over another pin writes the old thread's position |
| `MCFollowLoop`, `LoopsIdle` | `follow-user.ts:27-28` "Follow loops … benign … both simply idle" | canvases of different shape: each fit contains the other's view, is published and fitted again, out to the clamp |
| `MCFollowDeaf` with `LoopsEnd` for its property | the same | two tabs that follow each other and whose rectangles cross take over each other's view, publish it, and cross again, for ever, canvases of one shape included |
| `MCFollowDeaf`, `MirrorsOrEnds` | `follow-user.ts:8-9` mirrors "until the local user" interacts | a fit that changes nothing emits no echo, `sawEcho` stays false, and no move of the user ends the follow. `FollowSettles` excepts such a follower (`Deaf`: the last fit has landed, `silent`, and none is queued), and no other: an echo that comes and is not recognised, or a fit that never lands, breaks it |
| `MCTouches`, `PinchesMove` | `touch-gestures.ts:81` "extras are ignored" | a lifted finger is replaced by a third one and `lastEmitDist` is kept: the wheel turns although no finger moved |
| `MCTouches`, `PanEnds` | the middle button is released with the touch | `e.touches` has fingers off the canvas; if such a one is the last, its release is not heard and the button stays down |

Others met on the way are conditions in the properties of passing runs. Dropping the condition makes
TLC show the behaviour.

| Condition | Code | What happens without it |
|---|---|---|
| `"trap" \notin upsets` in `BoundIsShown` | `collab/sheet-manager.ts:255` | `seed()` throws after the binding was recorded; `active` stays null, so nobody destroys it and the retry attaches a second one ("at most ONE room may be bound", line 30) |
| `"unmount" \notin upsets` in `TornDown` and `BoundIsShown` | `collab/sheet-manager.ts:196` | a connect in flight at `destroy()` adds its room to the map afterwards, and nothing closes it ("Tear down ALL", line 59) |
| `"boot update"` in `ShownIsCurrent` | `collab/sheet-manager.ts:157` | an update between the materialization of the entry sheet and its first bind is in the doc and never on the screen |
| `"refusal"` in `ShownIsCurrent` | `collab/sheet-manager.ts:246-250` | a refused bind has dropped the watch already: later updates leave no dirty mark |
| `DiedUnheard` in `OneLayoutUnlessLeft` | `collab/broadcast-transport.ts:32` | the winner of the arbitration closes before a tab that joined meanwhile heard of its seed; that tab hears of the retraction only and holds no layout |
| no dead worker, in `MirrorAgrees` | `src/wasm/stubs/sharedspice_client.cpp:165` | a worker that dies during a background run takes the finish event with it; the editor believes the run goes on |
| `Cardinality(Reserved)` in `DistinctUsers` | `collab/presence.ts:106` | colours of offline comment authors count as used, so live users can share one although the palette has enough for them |
| `Fresh` in `DistinctUsers` | `collab/presence.ts:190`, `283` | as `AlwaysDistinct` above |
| `<>[]~target[Peer(t)]` in `FollowSettles` | `follow-user.ts:27` | as `LoopsEnd` above; two users that start and stop following each other in turn can swap views for ever as well |
| `Torn` in `OneColorPerUser` | `collab/presence.ts:210` | as `TabsConverge` above |
| `Unkept` in `TornDown` of `ToolSession` | `WasmTool.tsx:1475` | the save hook, a session not attached yet and the handle of a single room have no ref: an unmount leaves them open |
| `pc[m] = "closed"` in the same | `WasmTool.tsx:1475` | a chain that still awaits when its mount goes opens what comes later with nobody left to close it |
| `Overtaken` in `EditsKept` and `StoreCoherent` | `idb-project-store.ts:111`, `153` | two tabs import or fork under one slug, a stale put undoes a rename or brings a deleted project back, a save into a deleted project leaves files for a later one of that name |
| `deleted` in `MovesToLocal` | `ProjectView.tsx:56` | the copy is deleted in another tab after the fork: the spinner stays |
| `lost` in `PeersReach` | `synced-source.ts:183` | a peer's event arrives while an own push of the item is in flight, is taken for its echo, and then the push fails |
| `overlap` in `SavedItemsFound` | `user-libs.ts:202-220`, `103-124` | two puts that overlap both answer 200 and one row is gone; a create that finds a truncated index wipes the library |
| `swapped` in `PinchZooms`, `Ours` in all of `Gestures` | `touch-gestures.ts:79-85` | as `PinchesMove` and `PanEnds` above |

Read in the code, and not shown by a run:

* `boot.ts:35-38`, `50-53` "A second boot … is rejected": `bootKicadTool` (96-110) returns the same
  promise. The remount boots nothing, its canvas stays in the container that was removed.
* `ToolPage.tsx:38-44` unmounts the live editor when a refetch fails.
* The healthy timer of the memory watch runs from its start, not from the reveal of the editor; the
  exhausted dialog is component state, so a remount boots anyway. A throttled live tab's sentinel can
  be reaped by another tab.
* `synced-source.ts:121-134` memoizes a rejected open, against 313 "a lib that fails to presync still
  loads lazily" and `source.ts:64-65` (`OpensAgain` of `Libraries` states it). `source.ts:221` drops
  items whose fetch failed, and `remote-source.ts:56` answers `[]` for a refused listing: the plugin
  caches a library that lacks them.
* `boot.ts:284-295`: of two tabs that boot at once, the one whose `createLib` is refused (409) gets no
  writable library.
* `WasmTool.tsx:256` "a double-fired menu item must not upload twice": the flag is per installation of
  the hook. `WasmTool.tsx:347-348`: the quit latch is set in `pagehide`, too late for the destruction
  of the frame a navigation of the browser begins with.
* `project-source.ts:136-142` memoizes the gallery's manifest, a failed one too.
* `drift-detect.ts`: "The next Y-update trigger retries" only once its counter has run again.

## 7. Assumptions and limits of the models

* `CollabSync` starts seeded and connected; reconnects and the seed are `SeedRoom`'s and
  `SheetManager`'s. The legacy scalar wire is left out. `ParkEdits` says which edits users make while
  an apply is parked.
* `SeedRoom` models the BroadcastChannel provider. Network providers settle by a sync message instead
  of a window and keep a server replica; the arbitration code is the same.
* `SheetManager` leaves out what the user draws while no room is bound, and a second retry timer that
  `switchTo` can leak when a navigation races a failing switch: it fires into the guard that
  `RetryFires` has.
* `PresenceColors` and `SelectionLock` leave out cursor and viewport fields. A cursor move re-runs the
  resolver of its own tab and of everybody that hears it, so what the first says of a `Quiet` room it
  says until then. Skeletons of warm rooms (`publishSkeleton`) publish the claimed colour and resolve
  nothing; they are left out. A tab that comes back to a room counts as a new client, the comment
  authors do not change while a room lives and every client knows them all.
* `WorkerService` crashes ngspice workers that are up and occ workers that load: after its boot the
  occ handler rejects a settled promise, and no comment promises more.
* `ToolSession` takes a session's access, build and flags as constant for a load (`Kinds`): access
  revoked in mid-session is not applied by the code either. `MaxRetries` is 1 in the run; the proofs
  hold for any.
* `Projects` has one store operation of a tab at a time, and every project one name; saves of one tab
  that overlap, and an import named like a gallery project, are left out.
* `Libraries` has one library; the sync layer is external and delivers in order, one event a change.
  The plugin's cache is KiCad's, in a submodule: that a save of its own also discards the lists in
  flight is an assumption. Single-item reads change nothing and are left out. `ModelsBridge` is one
  editor session.
* `Comments` leaves the filter "show resolved" off. In `FollowUser` the gating by sheet cannot be
  reached, since rooms are per sheet; a queued fit that lands after a navigation is left out. In
  `Gestures` a cancel takes all touches.
* KiCad, wxWidgets, Yjs and `@pcbjam/shared` are not in the repository and are modelled from their use.

## 8. Not modelled

* eeschema and drawing-sheet bridges: the protocol of the pcbnew bridge once per sheet. What is new in
  them, bodies queued for one sheet that run on another and the rebaseline of `OnSchSheetChanged`, needs
  `CollabSync` over a second index; its run is already among the longest.
* Drift detector and cross-app presence: the first only reports, the second relays a hint that nothing
  else reads; both appear in `ToolSession` as what a mount opens and closes.
* Sibling restage: in `ToolSession` as resources; what it writes into the file system is read at the
  next navigation by KiCad.
* Legacy reconciler: `startCollab`, its only user, is called by no page.
* Pages' search, thumbnails, menus, the presence tuner, routing, configuration, site, deployment and
  extraction scripts: no state that order or failure can hurt.

## 9. Plan

Hazards seen and covered by no property, in order of weight:

1. `pcbnew_embind.cpp:1460`: `snapshotItems()` rebaselines the whole board, so an edit
   committed and not yet flushed is lost to a seed. `eeschema_embind.cpp:645` and `1158`: the same at a
   navigation, and bodies that run on the sheet shown. A `SchematicBridge` over `CollabSync`.
2. `sheet-manager.ts:196`, `242`, `255`: what is edited or connected between two bindings.
3. `presence.ts:114`: more users than colours (`MCPresenceCrowd` shows it going wrong, and
   `CrowdsStayRestless` that with two more it always does).
4. `occ-service.ts:112`, `sharedspice_client.cpp:165`: crashes the handlers do not cover.
5. `kicad-binding.ts:378`: the arbitration of a parked tab is gone (`MCSeedParked`; `LosersAreArmed` is of
   bound tabs). `user-libs.ts:202`: writes of the index that overlap (`SavedItemsFound` excepts them).

Smaller hazards not listed in `PROJECT.json` that the properties do cover: updates and answers out of
order (`broadcast-transport.ts:39`, `48`: `OneLayoutUnlessLeft`), a retraction in favour of a retracted
seed (`kicad-binding.ts:271`: `LosersHaveAWinner`), two tabs of one user that adopt each other's colour
(`presence.ts:227`: `OneColorPerUser`, `ClaimsConverge`), a release or a push that acts on a selection
that has changed (`collab_presence_core.h:608`, `presence-kicad.ts:267`: `OneMover`, `LocksHaveHolders`).

Theorems next: every safety invariant and every action property of a run is proved. An abstract store of
projects, atomic per operation, that `Projects` implements while no tab overtakes another, would say in
one refinement what `EditsKept` and `StoreCoherent` say apart; an abstract register per item would do
the same for `OwnItemsConverge`. Both need the model changed first, to name the step at which an
operation takes effect.
