----------------------------- MODULE Libraries ------------------------------
(***************************************************************************)
(* The libraries of the editors of one owner: the provider the wasm        *)
(* plugins call (libs/source.ts) over the source of the deployment         *)
(*   cdn      version-pinned static libraries (cdn-source.ts),             *)
(*   synced   a stack of cached layers per library, with a subscription    *)
(*            that reloads the editor (synced-source.ts),                  *)
(*   remote   the reference backend, item by item (remote-source.ts,       *)
(*            backend/src/user-libs.ts), or                                *)
(*   models   the 3D models (ModelsBridge), beside any of them.            *)
(* One library, the owner's writable one where there is one.  The sync     *)
(* stack itself is external: its layer applies the changes of the room in  *)
(* order and fires one event a change.                                     *)
(***************************************************************************)
EXTENDS Naturals, Sequences, FiniteSets

CONSTANTS
  Tabs,
  Names,     \* the items
  Synced,    \* bound: those edited over a sync stack
  Sources,   \* the deployments
  Listers,   \* bound: the tabs whose editors list the library; all save
  MaxSaves,  \* bound: saves the users make
  Callers,   \* ModelsBridge
  MaxAsks

ASSUME SourcesAssumption == Sources \subseteq {"cdn", "synced", "remote", "models"}
ASSUME SavesAssumption == MaxSaves \in Nat /\ Synced \subseteq Names /\ Names # {}
ASSUME ModelsAssumption == "export" \in Callers /\ MaxAsks \in Nat

Versions == 0 .. MaxSaves        \* of an item; 0: it does not exist
None == [n \in Names |-> 0]
Jobs == {"user", "fiber"}        \* whose request: an editor's, or a reload's

VARIABLES
  source,
  bodies,    \* the item bodies of the room, the CDN or the backend's files
  index,     \* the backend's index.json
  boot,      \* boot[t]: where the boot of the editor is
  row,       \* row[t]: the library is in the editor's table
  stack,     \* stack[t]: the promise of the library's stack
  local,     \* local[t]: the layer's copy of the library
  events,    \* events[t]: change events the stack has yet to deliver
  pushed,    \* selfPushed: the paths of saves in flight
  timer,     \* timer[t]: the debounce of a reload runs
  queued,    \* queued[t]: a reload is in the fiber queue
  plugin,    \* plugin[t]: the plugin's cache
  req,       \* req[t][j]: the request in flight
  saves,
  lost,      \* history: lost[t], peers' edits whose event a failed save took
  overlap,   \* history: two writes of the backend's library overlapped
  acked,     \* history: items whose save the backend answered with 200
  served, disk, memo, ensuring, waiting, shipped, asks   \* ModelsBridge

Models == INSTANCE ModelsBridge

models == <<served, disk, memo, ensuring, waiting, shipped, asks>>
server == <<bodies, index, overlap, acked>>
sync == <<stack, local, events, pushed, lost>>
editor == <<boot, row, timer, queued, plugin>>
libs == <<source, server, sync, editor, req, saves>>
vars == <<libs, models>>

Idle == [op |-> "none", step |-> "none", name |-> CHOOSE n \in Names : TRUE, has |-> None, rows |-> {}]
Unloaded == [loaded |-> FALSE, has |-> None]

Init ==
  /\ source \in Sources /\ bodies = None /\ index = [at |-> "none", rows |-> {}]
  /\ boot = [t \in Tabs |-> "start"] /\ row = [t \in Tabs |-> FALSE]
  /\ stack = [t \in Tabs |-> "none"] /\ local = [t \in Tabs |-> None]
  /\ events = [t \in Tabs |-> None] /\ pushed = [t \in Tabs |-> {}]
  /\ timer = [t \in Tabs |-> FALSE] /\ queued = [t \in Tabs |-> FALSE]
  /\ plugin = [t \in Tabs |-> Unloaded] /\ req = [t \in Tabs |-> [j \in Jobs |-> Idle]]
  /\ saves = 0 /\ lost = [t \in Tabs |-> {}] /\ overlap = FALSE /\ acked = {}
  /\ Models!Init

TypeOK ==
  /\ source \in Sources /\ bodies \in [Names -> Versions]
  /\ index \in [at : {"none", "torn", "here"}, rows : SUBSET Names]
  /\ boot \in [Tabs -> {"start", "tables", "ready"}] /\ row \in [Tabs -> BOOLEAN]
  /\ stack \in [Tabs -> {"none", "opening", "open", "rejected"}]
  /\ local \in [Tabs -> [Names -> Versions]] /\ events \in [Tabs -> [Names -> Versions]]
  /\ pushed \in [Tabs -> SUBSET Names] /\ lost \in [Tabs -> SUBSET Names]
  /\ timer \in [Tabs -> BOOLEAN] /\ queued \in [Tabs -> BOOLEAN]
  /\ plugin \in [Tabs -> [loaded : BOOLEAN, has : [Names -> Versions]]]
  /\ req \in [Tabs -> [Jobs -> [op : {"none", "list", "save", "create"},
                step : {"none", "await", "read", "cross", "sent", "acked", "index", "body", "torn", "finish"},
                name : Names, has : [Names -> Versions], rows : SUBSET Names]]]
  /\ saves \in 0 .. MaxSaves /\ overlap \in BOOLEAN /\ acked \subseteq Names

-----------------------------------------------------------------------------
(* Requests, and the stack they wait for.                                  *)

Sets(t, j, r) == req' = [req EXCEPT ![t][j] = r]
Step(t, j, step) == Sets(t, j, [req[t][j] EXCEPT !.step = step])
Does(t, j, ops, step) == req[t][j].op \in ops /\ req[t][j].step = step
Stacked == source \in {"cdn", "synced"}

\* A request to the backend, which looks at the library's index first.
Sent(r) == [r EXCEPT !.step = "index"]

\* ensure / openStack, and what comes after: a request awaits the one promise of
\* the library, and one that was rejected for good ends at once.
Begins(t, j, op, name) ==
  LET r == [Idle EXCEPT !.op = op, !.name = name] IN
    /\ Sets(t, j, CASE ~Stacked -> Sent(r)
                    [] stack[t] = "open" -> [r EXCEPT !.step = "read"]
                    [] stack[t] = "rejected" -> Idle
                    [] OTHER -> [r EXCEPT !.step = "await"])
    /\ stack' = IF Stacked /\ stack[t] = "none" THEN [stack EXCEPT ![t] = "opening"] ELSE stack

\* The open resolves: the layer is as fresh as the room, and subscribed.
Opens(t) ==
  /\ stack[t] = "opening" /\ stack' = [stack EXCEPT ![t] = "open"]
  /\ local' = [local EXCEPT ![t] = bodies]
  /\ req' = [req EXCEPT ![t] = [j \in Jobs |->
               IF @[j].step = "await" THEN [@[j] EXCEPT !.step = "read"] ELSE @[j]]]
  /\ UNCHANGED <<source, server, editor, events, pushed, lost, saves>>

\* The CDN source never caches a rejection; the synced one does.
Rejected == IF source = "synced" THEN "rejected" ELSE "none"

\* The open is refused: whoever awaits it gets null.
OpenFails(t) ==
  /\ stack[t] = "opening" /\ stack' = [stack EXCEPT ![t] = Rejected]
  /\ req' = [req EXCEPT ![t] = [j \in Jobs |-> IF @[j].step = "await" THEN Idle ELSE @[j]]]
  /\ UNCHANGED <<source, server, editor, local, events, pushed, lost, saves>>

-----------------------------------------------------------------------------
(* Boot.                                                                   *)

\* The presync has every library listed opened, and swallows what fails.
Warms(t) == Stacked /\ stack' = [stack EXCEPT ![t] = "opening"]

\* It runs beside the download of the wasm; its own listing may not answer.
Presync(t) ==
  /\ boot[t] = "start" /\ boot' = [boot EXCEPT ![t] = "tables"]
  /\ Warms(t) \/ UNCHANGED stack
  /\ UNCHANGED <<source, server, row, timer, queued, plugin, local, events, pushed, lost, req, saves>>

\* The generated table has a row for the library, none if the listing failed.
TableRows == {TRUE, FALSE}

\* The tables go into the editor's file system before it runs.
Seeded(t) == \E listed \in TableRows : row' = [row EXCEPT ![t] = listed]

\* The tables are seeded with what the source lists; where the owner has no library
\* yet, one is created.
Tables(t) ==
  /\ boot[t] = "tables" /\ req[t]["user"] = Idle
  /\ IF source = "remote" /\ index.at # "here"
       THEN Begins(t, "user", "create", Idle.name) /\ UNCHANGED <<boot, row>>
       ELSE /\ boot' = [boot EXCEPT ![t] = "ready"]
            /\ Seeded(t)
            /\ UNCHANGED <<req, stack>>
  /\ UNCHANGED <<source, server, timer, queued, plugin, local, events, pushed, lost, saves>>

-----------------------------------------------------------------------------
(* The plugin: the fat list.                                               *)

List(t) == /\ t \in Listers /\ boot[t] = "ready" /\ row[t] /\ ~plugin[t].loaded /\ req[t]["user"] = Idle
           /\ Begins(t, "user", "list", Idle.name)
           /\ UNCHANGED <<source, server, editor, local, events, pushed, lost, saves>>

\* getAllItems of a stack: one merged read.
ReadsAll(t, j) == /\ Does(t, j, {"list"}, "read")
                  /\ Sets(t, j, [req[t][j] EXCEPT !.step = "cross", !.has = local[t]])
                  /\ UNCHANGED <<source, server, editor, sync, saves>>

\* The rows of the index, none where there is no index to read.
Listable == IF index.at = "here" THEN index.rows ELSE {}

\* A body, or none when its fetch fails.
Fetched(n) == {bodies[n], 0}

\* fallbackGetAllItems: the listing ...
ReadsIndex(t, j) == /\ Does(t, j, {"list"}, "index")
                    /\ Sets(t, j, [req[t][j] EXCEPT !.step = "body",
                              !.rows = Listable])
                    /\ UNCHANGED <<source, server, editor, sync, saves>>

\* ... then each body.
ReadsBody(t, j) ==
  /\ Does(t, j, {"list"}, "body")
  /\ IF req[t][j].rows = {} THEN Step(t, j, "cross")
     ELSE \E n \in req[t][j].rows : \E body \in Fetched(n) :
            Sets(t, j, [req[t][j] EXCEPT !.rows = @ \ {n}, !.has[n] = body])
  /\ UNCHANGED <<source, server, editor, sync, saves>>

\* The framed bytes cross the bridge.
Crosses(t, j) == /\ Does(t, j, {"list"}, "cross") /\ Sets(t, j, Idle)
                 /\ plugin' = [plugin EXCEPT ![t] = [loaded |-> TRUE, has |-> req[t][j].has]]
                 /\ UNCHANGED <<source, server, boot, row, timer, queued, sync, saves>>

-----------------------------------------------------------------------------
(* Saves.                                                                  *)

\* A source without saveItemBody refuses: the CDN's libraries are fixed.
Save(t) ==
  /\ boot[t] = "ready" /\ row[t] /\ source \in {"synced", "remote"} /\ req[t]["user"] = Idle
  /\ saves < MaxSaves /\ saves' = saves + 1
  /\ \E n \in IF source = "synced" THEN Synced ELSE Names : Begins(t, "user", "save", n)
  /\ UNCHANGED <<source, server, editor, local, events, pushed, lost>>

\* selfPushed.add, before the push.
Pushes(t) == /\ Does(t, "user", {"save"}, "read") /\ Step(t, "user", "sent")
             /\ pushed' = [pushed EXCEPT ![t] = @ \cup {req[t]["user"].name}]
             /\ UNCHANGED <<source, server, editor, stack, local, events, lost, saves>>

Bumped(n) == [bodies EXCEPT ![n] = @ + 1]

\* The room takes the push.
Applied(t) ==
  LET r == req[t]["user"] IN
    /\ Does(t, "user", {"save"}, "sent")
    /\ bodies' = Bumped(r.name)
    /\ Sets(t, "user", [r EXCEPT !.step = "acked", !.has[r.name] = bodies[r.name] + 1])
    /\ UNCHANGED <<source, index, overlap, acked, editor, sync, saves>>

\* The plugin's cache of the library is gone, with the lists in flight for it:
\* after a save of its own, at a reload.
Listing(r) == IF r.op = "list" THEN Idle ELSE r
Drops(t, user, fiber) ==
  /\ plugin' = [plugin EXCEPT ![t] = Unloaded] /\ lost' = [lost EXCEPT ![t] = {}]
  /\ req' = [req EXCEPT ![t] = [user |-> Listing(user), fiber |-> fiber]]

\* The push resolves.  Its change event comes with it, unless the room's echo did.
Saved(t) ==
  LET r == req[t]["user"]  n == r.name  v == r.has[n] IN
    /\ Does(t, "user", {"save"}, "acked")
    /\ IF local[t][n] < v
         THEN local' = [local EXCEPT ![t][n] = v] /\ events' = [events EXCEPT ![t][n] = @ + 1]
         ELSE UNCHANGED <<local, events>>
    /\ Drops(t, Idle, Listing(req[t]["fiber"]))
    /\ UNCHANGED <<source, server, boot, row, timer, queued, stack, pushed, saves>>

\* Mutant: a failed push leaves its flag.
Left(t, n) == pushed

\* A failed push fires no event of its own: the flag goes.
Cleared(t, n) == [pushed EXCEPT ![t] = @ \ {n}]

\* The push is refused, or its answer never comes: the flag is taken back.
SaveFails(t) ==
  LET n == req[t]["user"].name IN
    /\ \/ Does(t, "user", {"save"}, "sent")
       \/ Does(t, "user", {"save"}, "acked")
    /\ Sets(t, "user", Idle)
    /\ pushed' = Cleared(t, n)
    /\ lost' = [lost EXCEPT ![t] = IF n \in pushed[t] THEN @ ELSE @ \cup {n}]
    /\ UNCHANGED <<source, server, editor, stack, local, events, saves>>

-----------------------------------------------------------------------------
(* Peers' edits: the subscription of a synced library.                     *)

\* The room's next change of an item reaches the layer.
Arrives(t, n) ==
  /\ source = "synced" /\ stack[t] = "open" /\ local[t][n] < bodies[n]
  /\ local' = [local EXCEPT ![t][n] = @ + 1] /\ events' = [events EXCEPT ![t][n] = @ + 1]
  /\ UNCHANGED <<source, server, editor, stack, pushed, lost, req, saves>>

\* The subscriber takes the event for its own push's, once, or arms the debounce.
Delivered(t, n) ==
  /\ events[t][n] > 0 /\ events' = [events EXCEPT ![t][n] = @ - 1]
  /\ IF n \in pushed[t]
       THEN pushed' = [pushed EXCEPT ![t] = @ \ {n}] /\ UNCHANGED timer
       ELSE timer' = [timer EXCEPT ![t] = TRUE] /\ UNCHANGED pushed
  /\ UNCHANGED <<source, server, boot, row, queued, plugin, stack, local, lost, req, saves>>

\* The debounce is over: the reload is queued on the fiber of an editor that runs.
Fires(t) == /\ timer[t] /\ timer' = [timer EXCEPT ![t] = FALSE]
            /\ queued' = [queued EXCEPT ![t] = @ \/ boot[t] = "ready"]
            /\ UNCHANGED <<source, server, boot, row, plugin, sync, req, saves>>

\* ReloadLibraryEntry and LoadLibraryEntry: the entry goes, with the request it had
\* in flight, and is listed anew.
Reloaded(t) == Drops(t, req[t]["user"], [Idle EXCEPT !.op = "list", !.step = "read"])

\* One body of the queue at a time.
Reload(t) == /\ queued[t] /\ req[t]["fiber"] = Idle
             /\ queued' = [queued EXCEPT ![t] = FALSE]
             /\ IF row[t] THEN Reloaded(t) ELSE UNCHANGED <<plugin, lost, req>>
             /\ UNCHANGED <<source, server, boot, row, timer, stack, local, events, pushed, saves>>

-----------------------------------------------------------------------------
(* The backend's writes: createUserLib and writeUserItem.                  *)

Writing(r) == r.op \in {"save", "create"} /\ r.step \in {"body", "torn", "finish"}

\* A library that exists is not created, one that does not takes no item; an index
\* being written reads as none.
Refused(r) == (index.at = "here") = (r.op = "create")

\* The request reads the index.
Looks(t) ==
  LET r == req[t]["user"] IN
    /\ Does(t, "user", {"save", "create"}, "index")
    /\ Sets(t, "user", IF Refused(r) THEN Idle
                       ELSE [r EXCEPT !.step = IF r.op = "save" THEN "body" ELSE "torn",
                                      !.rows = Listable])
    /\ overlap' = (overlap \/ \E u \in Tabs : Writing(req[u]["user"]))
    /\ boot' = IF r.op = "create" /\ Refused(r) THEN [boot EXCEPT ![t] = "ready"] ELSE boot
    /\ UNCHANGED <<source, bodies, index, acked, row, timer, queued, plugin, sync, saves>>

WritesBody(t) == /\ Does(t, "user", {"save"}, "body") /\ Step(t, "user", "torn")
                 /\ bodies' = Bumped(req[t]["user"].name)
                 /\ UNCHANGED <<source, index, overlap, acked, editor, sync, saves>>

\* writeIndex truncates the file ...
Truncates(t) == /\ Does(t, "user", {"save", "create"}, "torn") /\ Step(t, "user", "finish")
                /\ index' = [index EXCEPT !.at = "torn"]
                /\ UNCHANGED <<source, bodies, overlap, acked, editor, sync, saves>>

\* Mutant: the index is rebuilt from the item alone.
OwnRow(r) == IF r.op = "save" THEN {r.name} ELSE {}

\* The rows read, and the item's own.
Rows(r) == r.rows \cup (IF r.op = "save" THEN {r.name} ELSE {})

\* ... and writes the rows.  The backend answers.
Finishes(t) ==
  LET r == req[t]["user"] IN
    /\ Does(t, "user", {"save", "create"}, "finish")
    /\ index' = [at |-> "here", rows |-> Rows(r)]
    /\ IF r.op = "save"
         THEN acked' = acked \cup {r.name} /\ Drops(t, Idle, Idle) /\ UNCHANGED <<boot, row>>
         ELSE /\ boot' = [boot EXCEPT ![t] = "ready"] /\ row' = [row EXCEPT ![t] = TRUE]
              /\ Sets(t, "user", Idle) /\ UNCHANGED <<acked, plugin, lost>>
    /\ UNCHANGED <<source, bodies, overlap, timer, queued, stack, local, events, pushed, saves>>

-----------------------------------------------------------------------------
Works(t) == \/ Opens(t) \/ OpenFails(t)
            \/ \E j \in Jobs : ReadsAll(t, j) \/ ReadsIndex(t, j) \/ ReadsBody(t, j) \/ Crosses(t, j)
            \/ Pushes(t) \/ Applied(t) \/ Saved(t) \/ SaveFails(t)
            \/ Looks(t) \/ WritesBody(t) \/ Truncates(t) \/ Finishes(t)

LibNext == \E t \in Tabs :
             \/ Presync(t) \/ Tables(t) \/ List(t) \/ Save(t) \/ Works(t)
             \/ Fires(t) \/ Reload(t) \/ \E n \in Names : Arrives(t, n) \/ Delivered(t, n)

\* The models share nothing with the libraries but the provider: a behaviour is of
\* one or the other.
Next == \/ source # "models" /\ LibNext /\ UNCHANGED models
        \/ source = "models" /\ Models!Next /\ UNCHANGED libs

\* Requests settle, the room's changes come, timers fire and the fiber runs; the
\* users owe nothing.
Fairness == \A t \in Tabs :
              /\ WF_libs(Works(t)) /\ WF_libs(Fires(t)) /\ WF_libs(Reload(t))
              /\ \A n \in Names : WF_libs(Arrives(t, n)) /\ WF_libs(Delivered(t, n))

Spec == Init /\ [][Next]_vars /\ Fairness

-----------------------------------------------------------------------------
(* Properties.                                                             *)

\* A peer's edit of an item reaches the cache an open editor shows it from, but
\* when a save of the same item, which failed, took the edit's event for its own.
Stale(t, n) == source = "synced" /\ plugin[t].loaded /\ plugin[t].has[n] # bodies[n]
PeersReach == \A t \in Listers, n \in Synced :
                Stale(t, n) ~> (~Stale(t, n) \/ n \in lost[t])

\* A library that failed to open, in the presync for one, can still be opened
\* (synced-source.ts:313).  Violated by the synced source, which keeps the
\* rejected promise.
OpensAgain == \A t \in Tabs : stack[t] # "rejected"

\* What the backend acknowledged is in the library's index when no two writes of
\* the index overlapped, and what the index lists has a body.
SavedItemsFound ==
  index.at = "here" => /\ \A n \in index.rows : bodies[n] # 0
                       /\ ~overlap => acked \subseteq index.rows

\* ModelsBridge's.
ModelsOnDisk == Models!ModelsOnDisk
=============================================================================
