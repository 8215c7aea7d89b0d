------------------------------ MODULE Projects ------------------------------
(***************************************************************************)
(* The tabs of one browser over its project store: idb-project-store.ts,   *)
(* layered over a read-only gallery or a backend (project-source.ts,       *)
(* api.ts), under the home page, the project view and an editor            *)
(* (HomePage, ProjectsSection, NewFileDialog, ProjectView, ToolPage), with *)
(* the editor's ways to leave the page (WasmTool.tsx, the tool switch and  *)
(* the quit).                                                              *)
(*                                                                         *)
(* Every operation is a chain of IndexedDB transactions and requests; the  *)
(* tabs interleave between them.  An operation records what it looked at   *)
(* before it writes: the slugs taken, the paths seen.                      *)
(***************************************************************************)
EXTENDS Naturals, FiniteSets

CONSTANTS
  Tabs,
  Editors,    \* bound: the tabs that open editors
  Slugs,      \* bound: the slugs one name can take; 1 is also the primary's project
  Paths,      \* bound: the files of a project
  Primaries,  \* the deployments: "gallery" (static) or "backend" (remote)
  MaxStarts   \* bound: operations the users start, forks apart

ASSUME EditorsAssumption == Editors \subseteq Tabs
ASSUME SlugsAssumption == Slugs \subseteq Nat /\ 1 \in Slugs
ASSUME BoundAssumption == MaxStarts \in Nat
ASSUME PrimariesAssumption == Primaries \subseteq {"gallery", "backend"}

Content == {"none", "given", "template", "edit"}
Nothing == [p \in Paths |-> "none"]
Given == [p \in Paths |-> "given"]
Only(p, c) == [Nothing EXCEPT ![p] = c]
Present(b) == {p \in Paths : b[p] # "none"}

VARIABLES
  primary,   \* the configured source
  remote,    \* its project at slug 1, which a gallery never changes
  projects,  \* the PROJECTS store: the slugs with a record
  files,     \* the FILES store
  page,      \* page[t]: what the tab shows
  op,        \* op[t]: the store operation in flight (bound: one of a tab)
  win,       \* win[t]: the editor page's navigation
  deleted,   \* history: slugs ever deleted
  starts     \* operations started so far

store == <<primary, remote, projects, files>>
vars == <<store, page, op, win, deleted, starts>>

Home == [at |-> "home", slug |-> 1, shown |-> "", forked |-> "no", list |-> {}]
Idle == [do |-> "none", step |-> "", slug |-> 1, bytes |-> Nothing, taken |-> {}, seen |-> {}]
Open == [framed |-> TRUE, latched |-> FALSE, timer |-> FALSE, going |-> "", quit |-> FALSE]

\* A gallery's project is complete; the backend's lacks the file to create.
Init == /\ primary \in Primaries
        /\ remote = IF primary = "gallery" THEN Given ELSE Nothing
        /\ projects = {} /\ files = [s \in Slugs |-> Nothing]
        /\ page = [t \in Tabs |-> Home] /\ op = [t \in Tabs |-> Idle]
        /\ win = [t \in Tabs |-> Open] /\ deleted = {} /\ starts = 0

TypeOK ==
  /\ primary \in Primaries /\ remote \in [Paths -> Content]
  /\ projects \subseteq Slugs /\ files \in [Slugs -> [Paths -> Content]]
  /\ page \in [Tabs -> [at : {"home", "view", "editor"}, slug : Slugs,
                        shown : {"", "local", "gallery", "backend", "error"},
                        forked : {"no", "yes", "failed"}, list : SUBSET Paths]]
  /\ op \in [Tabs -> [do : {"none", "create", "fork", "delete", "remove", "rename",
                            "save", "switch", "new", "newhome"},
                      step : {"", "keys", "check", "fetch", "write", "refresh", "erase",
                              "read", "list", "route", "put", "post", "touch", "bump"},
                      slug : Slugs, bytes : [Paths -> Content],
                      taken : SUBSET Slugs, seen : SUBSET Paths]]
  /\ win \in [Tabs -> [framed : BOOLEAN, latched : BOOLEAN, timer : BOOLEAN,
                       going : {"", "exit", "switch"}, quit : BOOLEAN]]
  /\ deleted \subseteq Slugs /\ starts \in 0 .. MaxStarts

-----------------------------------------------------------------------------
(* Sources.                                                                *)

\* The demo, over its gallery, keeps local projects; a deployment over a backend
\* does not (lib/config.ts).
LocalEnabled == primary = "gallery"

\* compositeProjectSource.route: a slug with a local record is local.
Owner(s) == IF s \in projects THEN "local" ELSE IF s = 1 THEN primary ELSE "error"
ListOf(s) == Present(IF s \in projects THEN files[s] ELSE IF s = 1 THEN remote ELSE Nothing)

Sets(t, o) == op' = [op EXCEPT ![t] = o]
Does(t, do, step) == op[t].do \in do /\ op[t].step = step
Step(t, step) == Sets(t, [op[t] EXCEPT !.step = step])
\* What it looked at and brought along has been used.
After(t, step) == Sets(t, [Idle EXCEPT !.do = op[t].do, !.slug = op[t].slug, !.step = step])
StoreSame == UNCHANGED <<store, deleted>>
Start(t, do, step, s, b) ==
  /\ op[t] = Idle
  /\ Sets(t, [Idle EXCEPT !.do = do, !.step = step, !.slug = s, !.bytes = b,
                          !.seen = IF do = "new" THEN page[t].list ELSE {}])
  /\ StoreSame /\ UNCHANGED <<page, win>>

-----------------------------------------------------------------------------
(* The home page.                                                          *)

\* importToLocal and the dialog's new project: its files.
Import(t) == /\ page[t].at = "home" /\ LocalEnabled
             /\ Start(t, "create", "keys", 1, Given)

\* NewFileDialog over an existing local project: nothing asks what it holds.
NewAtHome(t) == /\ page[t].at = "home" /\ t \in Editors
                /\ \E s \in projects, p \in Paths :
                     Start(t, "newhome", "route", s, Only(p, "template"))

Rename(t) == /\ page[t].at = "home"
             /\ \E s \in projects : Start(t, "rename", "read", s, Nothing)

Remove(t) == /\ page[t].at = "home"
             /\ \E s \in projects : Start(t, "remove", "keys", s, Nothing)

Shows(t, p) == page' = [page EXCEPT ![t] = p]

View(t) == /\ page[t].at = "home"
           /\ \E s \in {1} \cup projects :
                Shows(t, [Home EXCEPT !.at = "view", !.slug = s])
           /\ StoreSame /\ UNCHANGED <<op, win>>

\* The Home link: the page's chains go on.
GoHome(t) == /\ page[t].at = "view"
             /\ Shows(t, Home)
             /\ StoreSame /\ UNCHANGED <<op, win>>

-----------------------------------------------------------------------------
(* The project view.                                                       *)

Resolved(t) == [page[t] EXCEPT !.shown = Owner(page[t].slug), !.list = ListOf(page[t].slug)]

\* useProject and useSourceDescriptor answer, or answer again on focus.
Resolve(t) == /\ page[t].at = "view" /\ page[t] # Resolved(t)
              /\ Shows(t, Resolved(t))
              /\ StoreSame /\ UNCHANGED <<op, win>>

\* "move to local", once per mount.
Fork(t) == /\ page[t].at = "view" /\ page[t].shown = "gallery" /\ page[t].forked = "no"
           /\ op[t] = Idle
           /\ Sets(t, [Idle EXCEPT !.do = "fork", !.step = "check", !.slug = page[t].slug])
           /\ Shows(t, [page[t] EXCEPT !.forked = "yes"])
           /\ StoreSame /\ UNCHANGED <<win>>

\* The view's own delete, of a local project.
Delete(t) == /\ page[t].at = "view" /\ page[t].shown = "local"
             /\ Start(t, "delete", "keys", page[t].slug, Nothing)

\* NewFileDialog inside a project refuses a path of the view's list.
NewInView(t) == /\ t \in Editors /\ page[t].at = "view" /\ page[t].shown \in {"local", "backend"}
                /\ \E p \in Paths \ page[t].list :
                     Start(t, "new", "route", page[t].slug, Only(p, "template"))

-----------------------------------------------------------------------------
(* Store operations, one transaction or request an action.                 *)

Ends(t) == Sets(t, Idle)

\* Mutant: createProject takes the slug of the name.
Undeduped(taken) == 1

\* createProject's slug: the name's, or the first of its numbered ones, not taken.
Deduped(taken) == CHOOSE s \in Slugs \ taken : \A r \in Slugs \ taken : s <= r

\* A name whose slugs are all taken is past the bound.
CreateKeys(t) == /\ Does(t, {"create"}, "keys")
                 /\ IF Slugs \subseteq projects THEN Ends(t)
                    ELSE Sets(t, [op[t] EXCEPT !.step = "write", !.taken = projects,
                                               !.slug = Deduped(projects)])
                 /\ StoreSame /\ UNCHANGED <<page, win>>

ForkCheck(t) == /\ Does(t, {"fork"}, "check")
                /\ IF op[t].slug \in projects THEN After(t, "refresh")
                   ELSE Sets(t, [op[t] EXCEPT !.step = "fetch", !.taken = projects])
                /\ StoreSame /\ UNCHANGED <<page, win>>

\* The fork's files come through the composite source, or one cannot be had.
ForkFetch(t) ==
  /\ Does(t, {"fork"}, "fetch")
  /\ \/ /\ Sets(t, [op[t] EXCEPT !.step = "write",
                     !.bytes = IF op[t].slug \in projects THEN files[op[t].slug] ELSE remote])
        /\ UNCHANGED page
     \/ /\ Ends(t)
        /\ Shows(t, [page[t] EXCEPT !.forked = IF @ = "yes" THEN "failed" ELSE @])
  /\ StoreSame /\ UNCHANGED <<win>>

\* The write of createProject: the record and the files in one transaction.
CreateWrite(t) ==
  /\ Does(t, {"create", "fork"}, "write")
  /\ LET s == op[t].slug  b == op[t].bytes IN
       /\ projects' = projects \cup {s}
       /\ files' = [files EXCEPT ![s] = [p \in Paths |-> IF b[p] = "none" THEN @[p] ELSE b[p]]]
  /\ After(t, "refresh")
  /\ UNCHANGED <<primary, remote, page, win, deleted>>

\* Mutant: a fork that does not invalidate the queries.
Unrefreshed(t) == page[t]

\* A create opens its project, the view's delete goes home, a fork invalidates
\* the queries of its slug.
Refreshed(t) == CASE op[t].do = "create" -> [Home EXCEPT !.at = "view", !.slug = op[t].slug]
                  [] op[t].do = "delete" -> Home
                  [] op[t].do = "fork" /\ page[t].at = "view" /\ page[t].slug = op[t].slug
                       -> Resolved(t)
                  [] OTHER -> page[t]

Refresh(t) == /\ op[t].step = "refresh" /\ Ends(t)
              /\ Shows(t, IF page[t].at = "editor" THEN page[t] ELSE Refreshed(t))
              /\ StoreSame /\ UNCHANGED <<win>>

\* deleteProject: the keys of the project's files, then all of it.
DeleteKeys(t) == /\ Does(t, {"delete", "remove"}, "keys")
                 /\ Sets(t, [op[t] EXCEPT !.step = "erase", !.seen = Present(files[op[t].slug])])
                 /\ StoreSame /\ UNCHANGED <<page, win>>

\* Mutant: deleteProject removes the record and leaves the files.
ErasedRecord(t) == files[op[t].slug]

Erased(t) == [p \in Paths |-> IF p \in op[t].seen THEN "none" ELSE files[op[t].slug][p]]

DeleteWrite(t) ==
  /\ op[t].step = "erase"
  /\ projects' = projects \ {op[t].slug} /\ deleted' = deleted \cup {op[t].slug}
  /\ files' = [files EXCEPT ![op[t].slug] = Erased(t)]
  /\ After(t, "refresh")
  /\ UNCHANGED <<primary, remote, page, win>>

\* Mutant: a deliberate navigation leaves the quit dispatcher on.
Unmarked(w) == w

\* markDeliberateNavigation.
Marked(w) == [w EXCEPT !.latched = TRUE]

\* What follows an operation that succeeded: the new file is opened.
Leaves(t) ==
  IF op[t].do = "switch"
    THEN win' = [win EXCEPT ![t] = [Marked(win[t]) EXCEPT !.going = "switch"]] /\ UNCHANGED page
  ELSE IF op[t].do \in {"new", "newhome"}
    THEN /\ page' = [page EXCEPT ![t] = [Home EXCEPT !.at = "editor", !.slug = op[t].slug,
                                                     !.list = ListOf(op[t].slug)]]
         /\ win' = [win EXCEPT ![t] = Open]
  ELSE UNCHANGED <<page, win>>

\* renameProject, and the touch of an upload: the record is read, then put back.
ReadRecord(t) ==
  /\ op[t].step \in {"read", "touch"}
  /\ IF op[t].slug \in projects
       THEN Step(t, "bump") /\ UNCHANGED <<page, win>>
       ELSE Ends(t) /\ Leaves(t)
  /\ StoreSame

PutRecord(t) == /\ op[t].step = "bump" /\ Ends(t)
                /\ projects' = projects \cup {op[t].slug}
                /\ UNCHANGED <<primary, remote, files, deleted>> /\ Leaves(t)

\* createProjectFileIfMissing: only a path the source does not list.
Missing(t) == Present(op[t].bytes) \cap ListOf(op[t].slug) = {}

CheckMissing(t) ==
  /\ Does(t, {"switch"}, "list")
  /\ \/ Owner(op[t].slug) = "error" /\ Ends(t) /\ UNCHANGED <<page, win>>
     \/ /\ Owner(op[t].slug) # "error" /\ Missing(t)
        /\ Sets(t, [op[t] EXCEPT !.step = "route", !.seen = ListOf(op[t].slug)])
        /\ UNCHANGED <<page, win>>
     \/ Owner(op[t].slug) # "error" /\ ~Missing(t) /\ Ends(t) /\ Leaves(t)
  /\ StoreSame

\* uploadFileBytes: routed to the owner; a save or a new file for a gallery is
\* downloaded instead, a switch that must create there stays where it is.
Route(t) ==
  /\ op[t].step = "route"
  /\ LET to == Owner(op[t].slug) IN
     \/ to = "local" /\ Step(t, "put") /\ UNCHANGED <<page, win>>
     \/ to # "local" /\ primary = "backend" /\ Step(t, "post") /\ UNCHANGED <<page, win>>
     \/ /\ to # "local" /\ primary = "gallery" /\ Ends(t)
        /\ IF op[t].do = "switch" THEN UNCHANGED <<page, win>> ELSE Leaves(t)
  /\ StoreSame

Written(t, old) == [p \in Paths |-> IF op[t].bytes[p] = "none" THEN old[p] ELSE op[t].bytes[p]]

Put(t) == /\ op[t].step = "put"
          /\ files' = [files EXCEPT ![op[t].slug] = Written(t, @)]
          /\ After(t, "touch")
          /\ UNCHANGED <<primary, remote, projects, page, win, deleted>>

\* The POST to the backend, or its failure, which the status line tells.
Post(t) ==
  /\ op[t].step = "post" /\ Ends(t)
  /\ \/ UNCHANGED <<remote, page, win>>
     \/ op[t].slug = 1 /\ remote' = Written(t, remote) /\ Leaves(t)
  /\ UNCHANGED <<primary, projects, files, deleted>>

\* A transaction aborts, by quota for one: nothing of it is stored, and the chain
\* ends with the error its page shows, if it shows any.
Rejects(t) ==
  /\ op[t].step \in {"write", "erase", "put", "bump"} /\ Ends(t)
  /\ IF op[t].do = "fork" /\ page[t].forked = "yes"
       THEN Shows(t, [page[t] EXCEPT !.forked = "failed"]) ELSE UNCHANGED page
  /\ StoreSame /\ UNCHANGED win

StoreStep(t) == \/ Rejects(t) \/ CreateKeys(t) \/ ForkCheck(t) \/ ForkFetch(t) \/ CreateWrite(t) \/ Refresh(t)
                \/ DeleteKeys(t) \/ DeleteWrite(t) \/ ReadRecord(t) \/ PutRecord(t)
                \/ CheckMissing(t) \/ Route(t) \/ Put(t) \/ Post(t)

-----------------------------------------------------------------------------
(* The editor page.                                                        *)

Loads(t, p) == /\ Shows(t, p)
               /\ op' = [op EXCEPT ![t] = Idle] /\ win' = [win EXCEPT ![t] = Open]
               /\ StoreSame

\* A full page load of a project's file; its list is the one of the load.
Edit(t) == /\ t \in Editors /\ page[t].at \in {"home", "view"}
           /\ \E s \in {1} \cup projects :
                /\ page[t].at = "view" => page[t].slug = s /\ page[t].shown = "local"
                /\ Loads(t, [Home EXCEPT !.at = "editor", !.slug = s, !.list = ListOf(s)])

\* The save hook hands the bytes of the open file to the source.
Save(t) == /\ page[t].at = "editor"
           /\ \E p \in page[t].list : Start(t, "save", "route", page[t].slug, Only(p, "edit"))

InFrame(t) == page[t].at = "editor" /\ win[t].framed

\* The tool switch to a file of the list.
Switch(t) == /\ InFrame(t) /\ page[t].list # {} /\ win[t].going = ""
             /\ win' = [win EXCEPT ![t] = [Marked(win[t]) EXCEPT !.going = "switch"]]
             /\ StoreSame /\ UNCHANGED <<page, op>>

\* The tool switch to a file the list does not have.
SwitchCreates(t) == /\ InFrame(t)
                    /\ \E p \in Paths \ page[t].list :
                         Start(t, "switch", "list", page[t].slug, Only(p, "template"))

\* quitDispatcher: once per document.
Dispatched(w) == IF w.latched THEN w ELSE [w EXCEPT !.latched = TRUE, !.timer = TRUE]

\* File > Quit destroys the frame.
Quit(t) == /\ InFrame(t)
           /\ win' = [win EXCEPT ![t] = [Dispatched(win[t]) EXCEPT !.framed = FALSE, !.quit = TRUE]]
           /\ StoreSame /\ UNCHANGED <<page, op>>

QuitTimer(t) == /\ win[t].timer
                /\ win' = [win EXCEPT ![t].timer = FALSE, ![t].going = "exit"]
                /\ StoreSame /\ UNCHANGED <<page, op>>

\* The wx port closes the frame when a navigation starts.
BeforeUnload(t) == /\ InFrame(t) /\ win[t].going # ""
                   /\ win' = [win EXCEPT ![t] = [Dispatched(win[t]) EXCEPT !.framed = FALSE]]
                   /\ StoreSame /\ UNCHANGED <<page, op>>

\* The next document replaces the page, and whatever it was doing.
Commit(t) ==
  /\ page[t].at = "editor" /\ win[t].going # "" /\ ~win[t].framed
  /\ LET s == page[t].slug IN
       Loads(t, IF win[t].going = "exit" THEN [Home EXCEPT !.at = "view", !.slug = s]
                ELSE [Home EXCEPT !.at = "editor", !.slug = s, !.list = ListOf(s)])

\* The user closes or reloads the page by the browser.
Leave(t) == page[t] # Home /\ Loads(t, Home)

\* What a user starts, MaxStarts of it, and all the rest.
Starts(t) == Import(t) \/ NewAtHome(t) \/ Rename(t) \/ Remove(t) \/ Delete(t) \/ NewInView(t)
             \/ Save(t) \/ SwitchCreates(t)
Moves(t) == \/ View(t) \/ GoHome(t) \/ Resolve(t) \/ Edit(t) \/ Switch(t)
            \/ Quit(t) \/ QuitTimer(t) \/ BeforeUnload(t) \/ Commit(t) \/ Leave(t)
Works(t) == (StoreStep(t) \/ Fork(t)) /\ UNCHANGED starts

Next == \E t \in Tabs : \/ Starts(t) /\ starts < MaxStarts /\ starts' = starts + 1
                        \/ Moves(t) /\ UNCHANGED starts
                        \/ Works(t)

\* Transactions and requests settle and the effect of a mounted view runs; the
\* users, their focus and the browser owe nothing.
Fairness == \A t \in Tabs : WF_vars(Works(t))

Spec == Init /\ [][Next]_vars /\ Fairness

-----------------------------------------------------------------------------
(* Properties.                                                             *)

\* What t's operation looked at has changed under it: the slug is taken now, the
\* file is there now, or the project it was routed to is gone.
Overtaken(t) ==
  LET o == op[t] IN
    CASE o.step = "write" -> o.slug \notin o.taken /\ o.slug \in projects
      [] o.step = "erase" -> Present(files[o.slug]) \ o.seen # {}
      [] o.step = "put" -> \/ o.slug \notin projects
                           \/ Present(o.bytes) \cap (Present(files[o.slug]) \ o.seen) # {}
      [] o.step = "bump" -> o.slug \notin projects
      [] OTHER -> FALSE

Acts(t, s) == op[t].slug = s /\ op'[t] # op[t]

\* What the user saved into a project stays until the project is deleted: an
\* import, a fork to local and a template never replace it, but when another tab
\* overtook their look at the store, and but for the home page's dialog (README,
\* findings).
EditsKept ==
  [][\A s \in projects, p \in Paths :
       files[s][p] = "edit" /\ files'[s][p] # "edit" =>
         \E t \in Tabs : /\ Acts(t, s)
                         /\ op[t].step = "erase" \/ op[t].do = "newhome" \/ Overtaken(t)]_vars

\* Files without a project appear, and a deleted project comes back without a
\* create, only when another tab overtook the operation: a later project of that
\* name would take them over.
Orphaned(s) == s \notin projects /\ Present(files[s]) # {}
StoreCoherent ==
  [][\A s \in Slugs :
       \/ ~Orphaned(s) /\ Orphaned(s)'
       \/ s \notin projects /\ s \in projects'
       => \E t \in Tabs : Acts(t, s) /\ (op[t].step = "write" \/ Overtaken(t))]_vars

\* The page goes to the exit URL only when the user quit: the frame the wx port
\* closes as a navigation starts does not count.
QuitOnlyByUser == \A t \in Tabs : win[t].going = "exit" => win[t].quit

\* A gallery project that was opened becomes local or tells why not, unless the
\* local copy has been deleted by another tab.
Preparing(t) == /\ page[t].at = "view" /\ page[t].shown = "gallery"
                /\ page[t].forked # "failed"
MovesToLocal == \A t \in Tabs : Preparing(t) ~> (~Preparing(t) \/ page[t].slug \in deleted)

\* api.ts:115 "never clobber it with an empty template".  Violated by the dialog
\* of the home page.
TemplatesFillGaps ==
  [][\A s \in projects, p \in Paths : files[s][p] = "edit" => files'[s][p] # "template"]_vars
=============================================================================
