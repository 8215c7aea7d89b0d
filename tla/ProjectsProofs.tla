--------------------------- MODULE ProjectsProofs ---------------------------
(***************************************************************************)
(* The project store, for any tabs, slugs, paths and deployments: what a   *)
(* user saved is not replaced, no files are left without a project, and    *)
(* the page is not left for a quit nobody asked for.                       *)
(***************************************************************************)
EXTENDS Projects, WellFoundedInduction, TLAPS

-----------------------------------------------------------------------------
(* The inductive invariant.                                                *)

Bytes == [Paths -> Content]
Pages == [at : {"home", "view", "editor"}, slug : Slugs,
          shown : {"", "local", "gallery", "backend", "error"},
          forked : {"no", "yes", "failed"}, list : SUBSET Paths]
Ops == [do : {"none", "create", "fork", "delete", "remove", "rename",
              "save", "switch", "new", "newhome"},
        step : {"", "keys", "check", "fetch", "write", "refresh", "erase",
                "read", "list", "route", "put", "post", "touch", "bump"},
        slug : Slugs, bytes : Bytes, taken : SUBSET Slugs, seen : SUBSET Paths]
Wins == [framed : BOOLEAN, latched : BOOLEAN, timer : BOOLEAN,
         going : {"", "exit", "switch"}, quit : BOOLEAN]

\* What an operation knows of its look at the store: a create and a fork write a
\* slug they found free, a save brings edits only, and a template that goes into
\* an open project goes where they saw no file.
Ready(o) ==
  /\ o.step \in {"fetch", "write"} => o.slug \notin o.taken
  /\ o.step \in {"route", "put"} =>
       /\ o.do \in {"save", "switch", "new", "newhome"}
       /\ o.do = "save" => \A p \in Paths : o.bytes[p] \in {"none", "edit"}
       /\ o.do \in {"switch", "new"} => Present(o.bytes) \cap o.seen = {}

\* A quit is on its way for the user's only, and a switch has the dispatcher off.
Honest(w) == /\ w.timer => w.quit
             /\ w.going = "switch" => w.latched
             /\ w.going = "exit" => w.quit

GoodOps == {o \in Ops : Ready(o)}
GoodWins == {w \in Wins : Honest(w)}

Inv == /\ primary \in Primaries /\ remote \in Bytes
       /\ projects \subseteq Slugs /\ files \in [Slugs -> Bytes]
       /\ page \in [Tabs -> Pages]
       /\ op \in [Tabs -> GoodOps]
       /\ win \in [Tabs -> GoodWins]
       /\ deleted \subseteq Slugs

IInv == Inv /\ starts \in 0 .. MaxStarts

-----------------------------------------------------------------------------
(* The slugs of a name.                                                    *)

Below == {ss \in Nat \X Nat : ss[1] < ss[2]}

LEMMA Least ==
  ASSUME NEW S \in SUBSET Nat, S # {}
  PROVE  \E x \in S : \A y \in S : x <= y
<1>1. Below = OpToRel(<, Nat)
  BY DEF Below, OpToRel
<1>2. PICK x \in S : \A y \in S : <<y, x>> \notin Below
  BY <1>1, NatLessThanWellFounded, WFMin
<1>3. \A y \in S : x <= y
  <2> SUFFICES ASSUME NEW y \in S PROVE x <= y
    OBVIOUS
  <2>1. x \in Nat /\ y \in Nat /\ <<y, x>> \notin Below
    BY <1>2
  <2> QED BY <2>1 DEF Below
<1> QED BY <1>3

LEMMA DedupedIsFree ==
  ASSUME NEW taken \in SUBSET Slugs, ~ (Slugs \subseteq taken)
  PROVE  Deduped(taken) \in Slugs /\ Deduped(taken) \notin taken
<1>1. Slugs \ taken \in SUBSET Nat /\ Slugs \ taken # {}
  BY SlugsAssumption
<1>2. \E x \in Slugs \ taken : \A y \in Slugs \ taken : x <= y
  BY <1>1, Least
<1> QED BY <1>2 DEF Deduped

-----------------------------------------------------------------------------
(* The values the actions put together.                                    *)

LEMMA BytesTyped ==
  /\ Nothing \in Bytes /\ Given \in Bytes
  /\ \A p \in Paths, c \in Content : Only(p, c) \in Bytes /\ Present(Only(p, c)) \subseteq {p}
  /\ \A b \in Bytes : Present(b) \in SUBSET Paths
BY DEF Bytes, Content, Nothing, Given, Only, Present

LEMMA RecordsTyped == Home \in Pages /\ Idle \in GoodOps /\ Open \in GoodWins
<1>1. Home \in Pages
  BY SlugsAssumption DEF Home, Pages
<1>2. Idle \in GoodOps
  BY SlugsAssumption, BytesTyped DEF Idle, GoodOps, Ops, Ready
<1>3. Open \in GoodWins
  BY DEF Open, GoodWins, Wins, Honest
<1> QED BY <1>1, <1>2, <1>3

LEMMA SourcesTyped ==
  ASSUME Inv
  PROVE  \A s : /\ ListOf(s) \in SUBSET Paths
                /\ Owner(s) \in {"local", "gallery", "backend", "error"}
BY PrimariesAssumption DEF Inv, ListOf, Present, Owner

\* One tab's operation, page or window changes.
LEMMA Setting ==
  ASSUME Inv, NEW t \in Tabs
  PROVE  /\ \A o \in GoodOps : Sets(t, o) =>
              op' \in [Tabs -> GoodOps] /\ op'[t] = o /\ \A u \in Tabs : u # t => op'[u] = op[u]
         /\ \A p \in Pages : Shows(t, p) => page' \in [Tabs -> Pages]
         /\ \A w \in GoodWins : win' = [win EXCEPT ![t] = w] => win' \in [Tabs -> GoodWins]
BY DEF Inv, Sets, Shows

\* The next step of an operation that looks at nothing further.
LEMMA Stepping ==
  ASSUME Inv, NEW t \in Tabs
  PROVE  /\ [op[t] EXCEPT !.step = "bump"] \in GoodOps
         /\ [op[t] EXCEPT !.step = "post"] \in GoodOps
         /\ op[t].step = "route" => [op[t] EXCEPT !.step = "put"] \in GoodOps
         /\ \A s \in {"refresh", "touch"} :
              [Idle EXCEPT !.do = op[t].do, !.slug = op[t].slug, !.step = s] \in GoodOps
<1>1. op[t] \in Ops /\ Ready(op[t]) /\ Idle \in Ops
  BY RecordsTyped DEF Inv, GoodOps
<1>2. [op[t] EXCEPT !.step = "bump"] \in GoodOps
  BY <1>1 DEF Ops, GoodOps, Ready
<1>3. [op[t] EXCEPT !.step = "post"] \in GoodOps
  BY <1>1 DEF Ops, GoodOps, Ready
<1>4. ASSUME op[t].step = "route" PROVE [op[t] EXCEPT !.step = "put"] \in GoodOps
  BY <1>1, <1>4 DEF Ops, GoodOps, Ready
<1>5. ASSUME NEW s \in {"refresh", "touch"}
      PROVE  [Idle EXCEPT !.do = op[t].do, !.slug = op[t].slug, !.step = s] \in GoodOps
  BY <1>1, <1>5 DEF Ops, GoodOps, Ready, Idle
<1> QED BY <1>2, <1>3, <1>4, <1>5

-----------------------------------------------------------------------------
(* The invariant, action by action.                                        *)

\* A step that leaves the store alone.
LEMMA StoreAlone ==
  ASSUME Inv, StoreSame,
         page' \in [Tabs -> Pages], op' \in [Tabs -> GoodOps], win' \in [Tabs -> GoodWins]
  PROVE  Inv'
BY DEF Inv, StoreSame, store

LEMMA StartKeeps ==
  ASSUME Inv, NEW t \in Tabs, NEW do \in {"create", "delete", "remove", "rename", "save",
                                          "switch", "new", "newhome"},
         NEW step \in {"keys", "read", "list", "route"}, NEW s \in Slugs, NEW b \in Bytes,
         Start(t, do, step, s, b),
         step = "route" =>
           /\ do \in {"save", "new", "newhome"}
           /\ do = "save" => \A p \in Paths : b[p] \in {"none", "edit"}
           /\ do = "new" => Present(b) \cap page[t].list = {}
  PROVE  Inv'
<1> DEFINE o == [Idle EXCEPT !.do = do, !.step = step, !.slug = s, !.bytes = b,
                             !.seen = IF do = "new" THEN page[t].list ELSE {}]
<1>1. page[t].list \in SUBSET Paths /\ Idle \in Ops
  BY RecordsTyped DEF Inv, Pages, GoodOps
<1>2. o \in Ops
  BY <1>1 DEF Idle, Ops
<1>3. Ready(o)
  BY DEF Ready, Idle
<1>4. Sets(t, o) /\ StoreSame /\ page' = page /\ win' = win
  BY DEF Start
<1> HIDE DEF o
<1>5. o \in GoodOps
  BY <1>2, <1>3 DEF GoodOps
<1>6. op' \in [Tabs -> GoodOps]
  BY <1>4, <1>5, Setting
<1> QED BY <1>4, <1>6, StoreAlone DEF Inv

LEMMA StartsKeep == ASSUME Inv, NEW t \in Tabs, Starts(t) PROVE Inv'
<1>1. projects \subseteq Slugs /\ page[t].slug \in Slugs /\ page[t].list \subseteq Paths
      /\ 1 \in Slugs
  BY SlugsAssumption DEF Inv, Pages
<1>2. CASE Import(t)
  BY <1>1, <1>2, BytesTyped, StartKeeps DEF Import
<1>3. CASE NewAtHome(t)
  <2>1. PICK s \in projects, p \in Paths : Start(t, "newhome", "route", s, Only(p, "template"))
    BY <1>3 DEF NewAtHome
  <2>2. Only(p, "template") \in Bytes /\ s \in Slugs
    BY <1>1, BytesTyped DEF Content
  <2> QED BY <2>1, <2>2, StartKeeps
<1>4. CASE Rename(t) \/ Remove(t) \/ Delete(t)
  <2>1. PICK s \in Slugs : \/ Start(t, "rename", "read", s, Nothing)
                           \/ Start(t, "remove", "keys", s, Nothing)
                           \/ Start(t, "delete", "keys", s, Nothing)
    BY <1>1, <1>4 DEF Rename, Remove, Delete
  <2> QED BY <2>1, BytesTyped, StartKeeps
<1>5. CASE NewInView(t)
  <2>1. PICK p \in Paths \ page[t].list : Start(t, "new", "route", page[t].slug, Only(p, "template"))
    BY <1>5 DEF NewInView
  <2>2. Only(p, "template") \in Bytes /\ Present(Only(p, "template")) \cap page[t].list = {}
    BY <2>1, BytesTyped DEF Content
  <2> QED BY <1>1, <2>1, <2>2, StartKeeps
<1>6. CASE Save(t)
  <2>1. PICK p \in page[t].list : Start(t, "save", "route", page[t].slug, Only(p, "edit"))
    BY <1>6 DEF Save
  <2>2. Only(p, "edit") \in Bytes
    BY <1>1, BytesTyped DEF Content
  <2>3. \A q \in Paths : Only(p, "edit")[q] \in {"none", "edit"}
    BY <1>1 DEF Only, Nothing
  <2> QED BY <1>1, <2>1, <2>2, <2>3, StartKeeps
<1>7. CASE SwitchCreates(t)
  <2>1. PICK p \in Paths : Start(t, "switch", "list", page[t].slug, Only(p, "template"))
    BY <1>7 DEF SwitchCreates
  <2>2. Only(p, "template") \in Bytes
    BY <2>1, BytesTyped DEF Content
  <2> QED BY <1>1, <2>1, <2>2, StartKeeps
<1> QED BY <1>2, <1>3, <1>4, <1>5, <1>6, <1>7 DEF Starts

\* What the editor's window becomes.
LEMMA WindowTyped ==
  ASSUME Inv, NEW t \in Tabs
  PROVE  /\ [Marked(win[t]) EXCEPT !.going = "switch"] \in GoodWins
         /\ [Dispatched(win[t]) EXCEPT !.framed = FALSE, !.quit = TRUE] \in GoodWins
         /\ win[t].timer => [win[t] EXCEPT !.timer = FALSE, !.going = "exit"] \in GoodWins
         /\ win[t].going # "" => [Dispatched(win[t]) EXCEPT !.framed = FALSE] \in GoodWins
<1>1. win[t] \in Wins /\ Honest(win[t])
  BY DEF Inv, GoodWins
<1>2. [Marked(win[t]) EXCEPT !.going = "switch"] \in GoodWins
  BY <1>1 DEF Wins, Marked, GoodWins, Honest
<1>3. [Dispatched(win[t]) EXCEPT !.framed = FALSE, !.quit = TRUE] \in GoodWins
  BY <1>1 DEF Wins, Dispatched, GoodWins, Honest
<1>4. ASSUME win[t].timer PROVE [win[t] EXCEPT !.timer = FALSE, !.going = "exit"] \in GoodWins
  BY <1>1, <1>4 DEF Wins, GoodWins, Honest
<1>5. ASSUME win[t].going # "" PROVE [Dispatched(win[t]) EXCEPT !.framed = FALSE] \in GoodWins
  BY <1>1, <1>5 DEF Wins, Dispatched, GoodWins, Honest
<1> QED BY <1>2, <1>3, <1>4, <1>5

\* A page load, to p.
LEMMA LoadKeeps ==
  ASSUME Inv, NEW t \in Tabs, NEW p \in Pages, Loads(t, p)
  PROVE  Inv'
<1>1. op' \in [Tabs -> GoodOps]
  BY RecordsTyped, Setting DEF Loads, Sets
<1>2. win' \in [Tabs -> GoodWins]
  BY RecordsTyped, Setting DEF Loads
<1>3. page' \in [Tabs -> Pages]
  BY Setting DEF Loads
<1> QED BY <1>1, <1>2, <1>3, StoreAlone DEF Loads

LEMMA ResolvedTyped == ASSUME Inv, NEW t \in Tabs PROVE Resolved(t) \in Pages
<1>1. page[t] \in Pages
  BY DEF Inv
<1>2. /\ ListOf(page[t].slug) \in SUBSET Paths
      /\ Owner(page[t].slug) \in {"local", "gallery", "backend", "error"}
  BY SourcesTyped
<1> QED BY <1>1, <1>2 DEF Resolved, Pages

LEMMA MovesKeep == ASSUME Inv, NEW t \in Tabs, Moves(t) PROVE Inv'
<1>1. page[t] \in Pages /\ Home \in Pages /\ projects \subseteq Slugs /\ 1 \in Slugs
  BY SlugsAssumption, RecordsTyped DEF Inv
<1>2. CASE View(t)
  <2>1. PICK s \in Slugs : Shows(t, [Home EXCEPT !.at = "view", !.slug = s])
    BY <1>1, <1>2 DEF View
  <2>2. [Home EXCEPT !.at = "view", !.slug = s] \in Pages
    BY <1>1 DEF Pages
  <2>3. page' \in [Tabs -> Pages] /\ StoreSame /\ UNCHANGED <<op, win>>
    BY <1>2, <2>1, <2>2, Setting DEF View
  <2> QED BY <2>3, StoreAlone DEF Inv
<1>3. CASE GoHome(t) \/ Resolve(t)
  <2>1. page' \in [Tabs -> Pages] /\ StoreSame /\ UNCHANGED <<op, win>>
    BY <1>1, <1>3, ResolvedTyped, Setting DEF GoHome, Resolve
  <2> QED BY <2>1, StoreAlone DEF Inv
<1>4. CASE Edit(t)
  <2>1. PICK s \in Slugs : Loads(t, [Home EXCEPT !.at = "editor", !.slug = s, !.list = ListOf(s)])
    BY <1>1, <1>4 DEF Edit
  <2>2. [Home EXCEPT !.at = "editor", !.slug = s, !.list = ListOf(s)] \in Pages
    BY <1>1, SourcesTyped DEF Pages
  <2> QED BY <2>1, <2>2, LoadKeeps
<1>5. CASE Switch(t) \/ Quit(t) \/ BeforeUnload(t)
  <2>1. win' \in [Tabs -> GoodWins] /\ StoreSame /\ UNCHANGED <<page, op>>
    BY <1>5, WindowTyped, Setting DEF Switch, Quit, BeforeUnload
  <2> QED BY <2>1, StoreAlone DEF Inv
<1>6. CASE QuitTimer(t)
  <2>1. win' = [win EXCEPT ![t] = [win[t] EXCEPT !.timer = FALSE, !.going = "exit"]]
    BY <1>6 DEF QuitTimer, Inv
  <2>2. win' \in [Tabs -> GoodWins] /\ StoreSame /\ UNCHANGED <<page, op>>
    BY <1>6, <2>1, WindowTyped, Setting DEF QuitTimer
  <2> QED BY <2>2, StoreAlone DEF Inv
<1>7. CASE Commit(t)
  <2> DEFINE s == page[t].slug
             p == IF win[t].going = "exit" THEN [Home EXCEPT !.at = "view", !.slug = s]
                  ELSE [Home EXCEPT !.at = "editor", !.slug = s, !.list = ListOf(s)]
  <2>1. Loads(t, p)
    BY <1>7 DEF Commit
  <2>2. s \in Slugs /\ ListOf(s) \in SUBSET Paths
    BY <1>1, SourcesTyped DEF Pages
  <2>3. p \in Pages
    BY <1>1, <2>2 DEF Pages
  <2> HIDE DEF p
  <2> QED BY <2>1, <2>3, LoadKeeps
<1>8. CASE Leave(t)
  BY <1>1, <1>8, LoadKeeps DEF Leave
<1> QED BY <1>2, <1>3, <1>4, <1>5, <1>6, <1>7, <1>8 DEF Moves

-----------------------------------------------------------------------------
(* The store operations.                                                   *)

\* What a chain leads to.
LEMMA LeavesTyped ==
  ASSUME Inv, NEW t \in Tabs, Leaves(t)
  PROVE  page' \in [Tabs -> Pages] /\ win' \in [Tabs -> GoodWins]
<1>1. op[t].slug \in Slugs /\ Home \in Pages /\ Open \in GoodWins
  BY RecordsTyped DEF Inv, GoodOps, Ops
<1>2. CASE op[t].do = "switch"
  BY <1>2, WindowTyped, Setting DEF Leaves, Inv
<1>3. CASE op[t].do # "switch" /\ op[t].do \in {"new", "newhome"}
  <2> DEFINE p == [Home EXCEPT !.at = "editor", !.slug = op[t].slug, !.list = ListOf(op[t].slug)]
  <2>1. Shows(t, p) /\ win' = [win EXCEPT ![t] = Open]
    BY <1>3 DEF Leaves, Shows
  <2>2. p \in Pages
    BY <1>1, SourcesTyped DEF Pages
  <2> HIDE DEF p
  <2> QED BY <1>1, <2>1, <2>2, Setting
<1>4. CASE op[t].do # "switch" /\ op[t].do \notin {"new", "newhome"}
  BY <1>4 DEF Leaves, Inv
<1> QED BY <1>2, <1>3, <1>4

LEMMA EndsTyped == ASSUME Inv, NEW t \in Tabs, Ends(t) PROVE op' \in [Tabs -> GoodOps]
BY RecordsTyped, Setting DEF Ends

LEMMA StepTyped ==
  ASSUME Inv, NEW t \in Tabs, NEW step,
         \/ Step(t, step) /\ (step \in {"bump", "post"} \/ (step = "put" /\ op[t].step = "route"))
         \/ After(t, step) /\ step \in {"refresh", "touch"}
  PROVE  op' \in [Tabs -> GoodOps]
BY Stepping, Setting DEF Step, After

\* The steps that only look.
LEMMA LooksKeep ==
  ASSUME Inv, NEW t \in Tabs,
         \/ Rejects(t) \/ CreateKeys(t) \/ ForkCheck(t) \/ ForkFetch(t) \/ Refresh(t)
         \/ DeleteKeys(t) \/ ReadRecord(t) \/ CheckMissing(t) \/ Route(t) \/ Fork(t)
  PROVE  Inv'
<1>1. op[t] \in Ops /\ Ready(op[t]) /\ page[t] \in Pages /\ Idle \in Ops
      /\ projects \in SUBSET Slugs /\ page \in [Tabs -> Pages] /\ win \in [Tabs -> GoodWins]
  BY RecordsTyped DEF Inv, GoodOps
<1>12. \A f \in {"no", "yes", "failed"} : [page[t] EXCEPT !.forked = f] \in Pages
  BY <1>1 DEF Pages
<1>2. CASE Rejects(t)
  <2>1. StoreSame /\ win' = win /\ op' \in [Tabs -> GoodOps]
    BY <1>2, EndsTyped DEF Rejects
  <2>2. page' \in [Tabs -> Pages]
    BY <1>1, <1>2, <1>12, Setting DEF Rejects
  <2> QED BY <1>1, <2>1, <2>2, StoreAlone
<1>3. CASE CreateKeys(t)
  <2> DEFINE o == [op[t] EXCEPT !.step = "write", !.taken = projects, !.slug = Deduped(projects)]
  <2>1. StoreSame /\ UNCHANGED <<page, win>>
    BY <1>3 DEF CreateKeys
  <2>2. CASE Slugs \subseteq projects
    BY <1>1, <1>3, <2>1, <2>2, EndsTyped, StoreAlone DEF CreateKeys
  <2>3. CASE ~ (Slugs \subseteq projects)
    <3>1. Deduped(projects) \in Slugs /\ Deduped(projects) \notin projects
      BY <1>1, <2>3, DedupedIsFree
    <3>2. o \in Ops
      BY <1>1, <3>1 DEF Ops
    <3>3. Ready(o)
      BY <1>1, <3>1 DEF Ready, Ops
    <3>4. Sets(t, o)
      BY <1>3, <2>3 DEF CreateKeys
    <3> HIDE DEF o
    <3>5. op' \in [Tabs -> GoodOps]
      BY <3>2, <3>3, <3>4, Setting DEF GoodOps
    <3> QED BY <1>1, <2>1, <3>5, StoreAlone
  <2> QED BY <2>2, <2>3
<1>4. CASE ForkCheck(t)
  <2> DEFINE o == [op[t] EXCEPT !.step = "fetch", !.taken = projects]
  <2>1. StoreSame /\ UNCHANGED <<page, win>>
    BY <1>4 DEF ForkCheck
  <2>2. CASE op[t].slug \in projects
    BY <1>1, <1>4, <2>1, <2>2, StepTyped, StoreAlone DEF ForkCheck
  <2>3. CASE op[t].slug \notin projects
    <3>1. o \in Ops
      BY <1>1 DEF Ops
    <3>2. Ready(o)
      BY <1>1, <2>3 DEF Ready, Ops
    <3>3. Sets(t, o)
      BY <1>4, <2>3 DEF ForkCheck
    <3> HIDE DEF o
    <3>4. op' \in [Tabs -> GoodOps]
      BY <3>1, <3>2, <3>3, Setting DEF GoodOps
    <3> QED BY <1>1, <2>1, <3>4, StoreAlone
  <2> QED BY <2>2, <2>3
<1>5. CASE ForkFetch(t)
  <2> DEFINE b == IF op[t].slug \in projects THEN files[op[t].slug] ELSE remote
             o == [op[t] EXCEPT !.step = "write", !.bytes = b]
  <2>1. StoreSame /\ win' = win /\ op[t].step = "fetch"
    BY <1>5 DEF ForkFetch, Does
  <2>2. CASE Sets(t, o) /\ page' = page
    <3>1. b \in Bytes
      BY <1>1 DEF Inv, Ops
    <3>2. o \in Ops
      BY <1>1, <3>1 DEF Ops
    <3>3. Ready(o)
      BY <1>1, <2>1 DEF Ready, Ops
    <3> HIDE DEF o
    <3>4. op' \in [Tabs -> GoodOps]
      BY <2>2, <3>2, <3>3, Setting DEF GoodOps
    <3> QED BY <1>1, <2>1, <2>2, <3>4, StoreAlone
  <2>3. CASE /\ Ends(t)
             /\ Shows(t, [page[t] EXCEPT !.forked = IF @ = "yes" THEN "failed" ELSE @])
    <3>1. [page[t] EXCEPT !.forked = IF @ = "yes" THEN "failed" ELSE @] \in Pages
      BY <1>1 DEF Pages
    <3>2. page' \in [Tabs -> Pages] /\ op' \in [Tabs -> GoodOps]
      BY <2>3, <3>1, EndsTyped, Setting
    <3> QED BY <1>1, <2>1, <3>2, StoreAlone
  <2> QED BY <1>5, <2>2, <2>3 DEF ForkFetch
<1>6. CASE Refresh(t)
  <2>1. StoreSame /\ win' = win /\ op' \in [Tabs -> GoodOps]
    BY <1>6, EndsTyped DEF Refresh
  <2>2. Refreshed(t) \in Pages
    BY <1>1, RecordsTyped, ResolvedTyped DEF Refreshed, Pages, Ops
  <2>3. page' \in [Tabs -> Pages]
    BY <1>1, <1>6, <2>2, Setting DEF Refresh
  <2> QED BY <1>1, <2>1, <2>3, StoreAlone
<1>7. CASE DeleteKeys(t)
  <2> DEFINE o == [op[t] EXCEPT !.step = "erase", !.seen = Present(files[op[t].slug])]
  <2>1. StoreSame /\ UNCHANGED <<page, win>> /\ Sets(t, o)
    BY <1>7 DEF DeleteKeys
  <2>2. Present(files[op[t].slug]) \in SUBSET Paths
    BY DEF Present
  <2>3. o \in Ops /\ Ready(o)
    BY <1>1, <2>2 DEF Ops, Ready
  <2> HIDE DEF o
  <2>4. op' \in [Tabs -> GoodOps]
    BY <2>1, <2>3, Setting DEF GoodOps
  <2> QED BY <1>1, <2>1, <2>4, StoreAlone
<1>8. CASE ReadRecord(t)
  BY <1>1, <1>8, StepTyped, EndsTyped, LeavesTyped, StoreAlone DEF ReadRecord
<1>9. CASE CheckMissing(t)
  <2> DEFINE o == [op[t] EXCEPT !.step = "route", !.seen = ListOf(op[t].slug)]
  <2>1. StoreSame /\ op[t].do = "switch"
    BY <1>9 DEF CheckMissing, Does
  <2>2. CASE Ends(t) /\ UNCHANGED <<page, win>>
    BY <1>1, <2>1, <2>2, EndsTyped, StoreAlone
  <2>3. CASE Missing(t) /\ Sets(t, o) /\ UNCHANGED <<page, win>>
    <3>1. ListOf(op[t].slug) \in SUBSET Paths
      BY SourcesTyped
    <3>2. o \in Ops
      BY <1>1, <3>1 DEF Ops
    <3>3. Ready(o)
      BY <1>1, <2>1, <2>3 DEF Ready, Ops, Missing
    <3> HIDE DEF o
    <3>4. op' \in [Tabs -> GoodOps]
      BY <2>3, <3>2, <3>3, Setting DEF GoodOps
    <3> QED BY <1>1, <2>1, <2>3, <3>4, StoreAlone
  <2>4. CASE Ends(t) /\ Leaves(t)
    BY <2>1, <2>4, EndsTyped, LeavesTyped, StoreAlone
  <2> QED BY <1>9, <2>2, <2>3, <2>4 DEF CheckMissing
<1>10. CASE Route(t)
  <2>1. StoreSame /\ op[t].step = "route"
    BY <1>10 DEF Route
  <2>2. CASE (Step(t, "put") \/ Step(t, "post")) /\ UNCHANGED <<page, win>>
    BY <1>1, <2>1, <2>2, StepTyped, StoreAlone
  <2>3. CASE Ends(t) /\ (UNCHANGED <<page, win>> \/ Leaves(t))
    BY <1>1, <2>1, <2>3, EndsTyped, LeavesTyped, StoreAlone
  <2> QED BY <1>10, <2>2, <2>3 DEF Route
<1>11. CASE Fork(t)
  <2> DEFINE o == [Idle EXCEPT !.do = "fork", !.step = "check", !.slug = page[t].slug]
  <2>1. /\ StoreSame /\ win' = win /\ Sets(t, o)
        /\ Shows(t, [page[t] EXCEPT !.forked = "yes"])
    BY <1>11 DEF Fork
  <2>2. o \in Ops /\ Ready(o)
    BY <1>1 DEF Ops, Pages, Ready
  <2> HIDE DEF o
  <2>3. op' \in [Tabs -> GoodOps] /\ page' \in [Tabs -> Pages]
    BY <1>12, <2>1, <2>2, Setting DEF GoodOps
  <2> QED BY <1>1, <2>1, <2>3, StoreAlone
<1> QED BY <1>2, <1>3, <1>4, <1>5, <1>6, <1>7, <1>8, <1>9, <1>10, <1>11

\* The steps that write.
LEMMA WritesKeep ==
  ASSUME Inv, NEW t \in Tabs, CreateWrite(t) \/ DeleteWrite(t) \/ PutRecord(t) \/ Put(t) \/ Post(t)
  PROVE  Inv'
<1>1. /\ op[t] \in Ops /\ op[t].slug \in Slugs /\ op[t].bytes \in Bytes
      /\ page \in [Tabs -> Pages] /\ win \in [Tabs -> GoodWins]
      /\ projects \subseteq Slugs /\ files \in [Slugs -> Bytes]
  BY DEF Inv, GoodOps, Ops
<1>2. CASE CreateWrite(t)
  <2> DEFINE s == op[t].slug
             b == op[t].bytes
             new == [p \in Paths |-> IF b[p] = "none" THEN files[s][p] ELSE b[p]]
  <2>1. /\ projects' = projects \cup {s} /\ files' = [files EXCEPT ![s] = new]
        /\ UNCHANGED <<primary, remote, page, win, deleted>> /\ After(t, "refresh")
    BY <1>2 DEF CreateWrite
  <2>2. new \in Bytes
    BY <1>1 DEF Bytes
  <2> HIDE DEF new
  <2>3. files' \in [Slugs -> Bytes] /\ projects' \subseteq Slugs
    BY <1>1, <2>1, <2>2
  <2>4. op' \in [Tabs -> GoodOps]
    BY <2>1, StepTyped
  <2> QED BY <2>1, <2>3, <2>4 DEF Inv
<1>3. CASE DeleteWrite(t)
  <2>1. /\ projects' = projects \ {op[t].slug} /\ deleted' = deleted \cup {op[t].slug}
        /\ files' = [files EXCEPT ![op[t].slug] = Erased(t)]
        /\ UNCHANGED <<primary, remote, page, win>> /\ After(t, "refresh")
    BY <1>3 DEF DeleteWrite
  <2>2. Erased(t) \in Bytes
    BY <1>1 DEF Erased, Bytes, Content
  <2>3. files' \in [Slugs -> Bytes]
    BY <1>1, <2>1, <2>2
  <2>4. op' \in [Tabs -> GoodOps]
    BY <2>1, StepTyped
  <2> QED BY <1>1, <2>1, <2>3, <2>4 DEF Inv
<1>4. CASE PutRecord(t)
  <2>1. /\ projects' = projects \cup {op[t].slug} /\ Ends(t) /\ Leaves(t)
        /\ UNCHANGED <<primary, remote, files, deleted>>
    BY <1>4 DEF PutRecord
  <2> QED BY <1>1, <2>1, EndsTyped, LeavesTyped DEF Inv
<1>5. CASE Put(t)
  <2>1. /\ files' = [files EXCEPT ![op[t].slug] = Written(t, files[op[t].slug])]
        /\ UNCHANGED <<primary, remote, projects, page, win, deleted>> /\ After(t, "touch")
    BY <1>1, <1>5 DEF Put
  <2>2. Written(t, files[op[t].slug]) \in Bytes
    BY <1>1 DEF Written, Bytes
  <2>3. files' \in [Slugs -> Bytes]
    BY <1>1, <2>1, <2>2
  <2>4. op' \in [Tabs -> GoodOps]
    BY <2>1, StepTyped
  <2> QED BY <2>1, <2>3, <2>4 DEF Inv
<1>6. CASE Post(t)
  <2>1. /\ Ends(t) /\ UNCHANGED <<primary, projects, files, deleted>>
        /\ \/ UNCHANGED <<remote, page, win>>
           \/ remote' = Written(t, remote) /\ Leaves(t)
    BY <1>6 DEF Post
  <2>2. Written(t, remote) \in Bytes
    BY <1>1 DEF Written, Bytes, Inv
  <2> QED BY <2>1, <2>2, EndsTyped, LeavesTyped DEF Inv
<1> QED BY <1>2, <1>3, <1>4, <1>5, <1>6

LEMMA Initially == Init => IInv
<1> SUFFICES ASSUME Init PROVE IInv
  OBVIOUS
<1>1. Inv
  BY BytesTyped, RecordsTyped DEF Init, Inv
<1> QED BY <1>1, BoundAssumption DEF Init, IInv

LEMMA Inductive == IInv /\ [Next]_vars => IInv'
<1> SUFFICES ASSUME IInv, [Next]_vars PROVE IInv'
  OBVIOUS
<1>1. ASSUME NEW t \in Tabs, Starts(t), starts < MaxStarts, starts' = starts + 1 PROVE IInv'
  BY <1>1, StartsKeep, BoundAssumption DEF IInv
<1>2. ASSUME NEW t \in Tabs, Moves(t), UNCHANGED starts PROVE IInv'
  BY <1>2, MovesKeep DEF IInv
<1>3. ASSUME NEW t \in Tabs, Works(t) PROVE IInv'
  BY <1>3, LooksKeep, WritesKeep DEF IInv, Works, StoreStep
<1>4. CASE UNCHANGED vars
  BY <1>4 DEF vars, store, IInv, Inv
<1> QED BY <1>1, <1>2, <1>3, <1>4 DEF Next

\* In every run, for any tabs, slugs, paths and deployments: every variable keeps
\* its type, whatever the tabs' transactions do between one another's.
THEOREM TypeCorrect == Spec => []TypeOK
<1>1. Init => IInv
  BY Initially
<1>2. IInv /\ [Next]_vars => IInv'
  BY Inductive
<1>3. IInv => TypeOK
  <2> SUFFICES ASSUME IInv PROVE TypeOK
    OBVIOUS
  <2>1. op \in [Tabs -> Ops] /\ win \in [Tabs -> Wins] /\ page \in [Tabs -> Pages]
    BY DEF IInv, Inv, GoodOps, GoodWins
  <2> QED BY <2>1 DEF IInv, Inv, TypeOK, Ops, Wins, Pages, Bytes
<1> QED BY <1>1, <1>2, <1>3, PTL DEF Spec

\* In every run: the page goes to the exit URL only when the user quit, although
\* the frame closes on every navigation (WasmTool.tsx, the quit dispatcher).
THEOREM QuitsAreMeant == Spec => []QuitOnlyByUser
<1>1. Init => IInv
  BY Initially
<1>2. IInv /\ [Next]_vars => IInv'
  BY Inductive
<1>3. IInv => QuitOnlyByUser
  BY DEF IInv, Inv, GoodWins, Honest, QuitOnlyByUser
<1> QED BY <1>1, <1>2, <1>3, PTL DEF Spec

-----------------------------------------------------------------------------
(* What a write may do to the store.                                       *)

LEMMA Writers ==
  ASSUME [Next]_vars
  PROVE  \/ \E t \in Tabs : CreateWrite(t) \/ DeleteWrite(t) \/ Put(t) \/ PutRecord(t)
         \/ UNCHANGED <<files, projects>>
<1>1. ASSUME NEW t \in Tabs, Starts(t) PROVE UNCHANGED <<files, projects>>
  BY <1>1 DEF Starts, Import, NewAtHome, Rename, Remove, Delete, NewInView, Save, SwitchCreates,
              Start, StoreSame, store
<1>2. ASSUME NEW t \in Tabs, Moves(t) PROVE UNCHANGED <<files, projects>>
  BY <1>2 DEF Moves, View, GoHome, Resolve, Edit, Switch, Quit, QuitTimer, BeforeUnload, Commit,
              Leave, Loads, StoreSame, store
<1>3. ASSUME NEW t \in Tabs, Works(t)
      PROVE  \/ CreateWrite(t) \/ DeleteWrite(t) \/ Put(t) \/ PutRecord(t)
             \/ UNCHANGED <<files, projects>>
  BY <1>3 DEF Works, StoreStep, Fork, Rejects, CreateKeys, ForkCheck, ForkFetch, Refresh,
              DeleteKeys, ReadRecord, CheckMissing, Route, Post, StoreSame, store
<1>4. CASE UNCHANGED vars
  BY <1>4 DEF vars, store
<1> QED BY <1>1, <1>2, <1>3, <1>4 DEF Next

\* A write is the step of its operation.
LEMMA Acting ==
  ASSUME Inv, NEW t \in Tabs, op[t].step \in {"write", "erase", "put", "bump"},
         Ends(t) \/ After(t, "refresh") \/ After(t, "touch")
  PROVE  Acts(t, op[t].slug)
<1>1. op \in [Tabs -> GoodOps]
  BY DEF Inv
<1>2. op'[t].step \in {"", "refresh", "touch"}
  <2>1. CASE Ends(t)
    BY <1>1, <2>1 DEF Ends, Sets, Idle
  <2>2. CASE After(t, "refresh")
    BY <1>1, <2>2 DEF After, Sets, Idle
  <2>3. CASE After(t, "touch")
    BY <1>1, <2>3 DEF After, Sets, Idle
  <2> QED BY <2>1, <2>2, <2>3
<1> QED BY <1>2 DEF Acts

LEMMA EditStep ==
  ASSUME IInv, [Next]_vars, NEW s \in projects, NEW p \in Paths,
         files[s][p] = "edit", files'[s][p] # "edit"
  PROVE  \E t \in Tabs : /\ Acts(t, s)
                         /\ op[t].step = "erase" \/ op[t].do = "newhome" \/ Overtaken(t)
<1>1. /\ Inv /\ s \in Slugs /\ files \in [Slugs -> Bytes] /\ files' # files
      /\ \A t \in Tabs : op[t] \in Ops /\ Ready(op[t])
  BY DEF IInv, Inv, GoodOps
<1>2. ASSUME NEW t \in Tabs, CreateWrite(t)
      PROVE  Acts(t, s) /\ Overtaken(t)
  <2>1. op[t].step = "write" /\ op[t].slug = s
    BY <1>1, <1>2 DEF CreateWrite, Does
  <2>2. Acts(t, s)
    BY <1>1, <1>2, <2>1, Acting DEF CreateWrite
  <2> QED BY <1>1, <2>1, <2>2 DEF Overtaken, Ready
<1>3. ASSUME NEW t \in Tabs, DeleteWrite(t)
      PROVE  Acts(t, s) /\ op[t].step = "erase"
  <2>1. op[t].step = "erase" /\ op[t].slug = s
    BY <1>1, <1>3 DEF DeleteWrite
  <2> QED BY <1>1, <1>3, <2>1, Acting DEF DeleteWrite
<1>4. ASSUME NEW t \in Tabs, Put(t)
      PROVE  Acts(t, s) /\ (op[t].do = "newhome" \/ Overtaken(t))
  <2>1. /\ op[t].step = "put" /\ op[t].slug = s
        /\ files'[s] = Written(t, files[s])
    BY <1>1, <1>4 DEF Put
  <2>2. Acts(t, s)
    BY <1>1, <1>4, <2>1, Acting DEF Put
  <2>3. op[t].bytes[p] \notin {"none", "edit"}
    BY <2>1 DEF Written
  <2>4. p \in Present(op[t].bytes) /\ p \in Present(files[s])
    BY <2>3 DEF Present
  <2>5. op[t].do = "newhome" \/ p \notin op[t].seen
    BY <1>1, <2>1, <2>3, <2>4 DEF Ready
  <2>6. p \notin op[t].seen => Overtaken(t)
    BY <2>1, <2>4 DEF Overtaken
  <2> QED BY <2>2, <2>5, <2>6
<1>5. ASSUME NEW t \in Tabs, PutRecord(t) PROVE FALSE
  BY <1>1, <1>5 DEF PutRecord
<1> QED BY <1>1, <1>2, <1>3, <1>4, <1>5, Writers

\* In every run: an edit a user saved into a project stays there until the project
\* is deleted; an import, a fork to local or a template replaces it only when
\* another tab overtook their look at the store, or from the home page's dialog
\* (idb-project-store.ts, NewFileDialog).
THEOREM EditsAreKept == Spec => EditsKept
<1>1. Init => IInv
  BY Initially
<1>2. IInv /\ [Next]_vars => IInv'
  BY Inductive
<1>3. IInv /\ [Next]_vars =>
        [\A s \in projects, p \in Paths :
           files[s][p] = "edit" /\ files'[s][p] # "edit" =>
             \E t \in Tabs : /\ Acts(t, s)
                             /\ op[t].step = "erase" \/ op[t].do = "newhome" \/ Overtaken(t)]_vars
  BY EditStep
<1> QED BY <1>1, <1>2, <1>3, PTL DEF Spec, EditsKept

LEMMA CoherentStep ==
  ASSUME IInv, [Next]_vars, NEW s \in Slugs,
         \/ ~Orphaned(s) /\ Orphaned(s)'
         \/ s \notin projects /\ s \in projects'
  PROVE  \E t \in Tabs : Acts(t, s) /\ (op[t].step = "write" \/ Overtaken(t))
<1>1. /\ Inv /\ files \in [Slugs -> Bytes]
      /\ \A t \in Tabs : op[t] \in Ops
  BY DEF IInv, Inv, GoodOps
<1>2. files'[s] # files[s] \/ ((s \in projects') # (s \in projects))
  BY DEF Orphaned
<1>3. ASSUME NEW t \in Tabs, CreateWrite(t)
      PROVE  Acts(t, s) /\ op[t].step = "write"
  <2>1. op[t].step = "write" /\ op[t].slug = s
    BY <1>1, <1>2, <1>3 DEF CreateWrite, Does
  <2> QED BY <1>1, <1>3, <2>1, Acting DEF CreateWrite
<1>4. ASSUME NEW t \in Tabs, DeleteWrite(t)
      PROVE  Acts(t, s) /\ Overtaken(t)
  <2>1. /\ op[t].step = "erase" /\ op[t].slug = s /\ s \notin projects'
        /\ files'[s] = Erased(t)
    BY <1>1, <1>2, <1>4 DEF DeleteWrite
  <2>2. Acts(t, s)
    BY <1>1, <1>4, <2>1, Acting DEF DeleteWrite
  <2>3. PICK p \in Paths : Erased(t)[p] # "none"
    BY <2>1 DEF Orphaned, Present
  <2>4. p \notin op[t].seen /\ p \in Present(files[s])
    BY <2>1, <2>3 DEF Erased, Present
  <2> QED BY <2>1, <2>2, <2>4 DEF Overtaken
<1>5. ASSUME NEW t \in Tabs, Put(t)
      PROVE  Acts(t, s) /\ Overtaken(t)
  <2>1. op[t].step = "put" /\ op[t].slug = s /\ projects' = projects
    BY <1>1, <1>2, <1>5 DEF Put
  <2>2. Acts(t, s)
    BY <1>1, <1>5, <2>1, Acting DEF Put
  <2>3. s \notin projects
    BY <2>1 DEF Orphaned
  <2> QED BY <2>1, <2>2, <2>3 DEF Overtaken
<1>6. ASSUME NEW t \in Tabs, PutRecord(t)
      PROVE  Acts(t, s) /\ Overtaken(t)
  <2>1. op[t].step = "bump" /\ op[t].slug = s /\ s \notin projects
    BY <1>1, <1>2, <1>6 DEF PutRecord
  <2> QED BY <1>1, <1>6, <2>1, Acting DEF PutRecord, Overtaken
<1> QED BY <1>2, <1>3, <1>4, <1>5, <1>6, Writers

\* In every run: files are left without a project, and a deleted project comes back
\* without a create, only when another tab overtook the operation that does it
\* (idb-project-store.ts).
THEOREM StoreStaysCoherent == Spec => StoreCoherent
<1>1. Init => IInv
  BY Initially
<1>2. IInv /\ [Next]_vars => IInv'
  BY Inductive
<1>3. IInv /\ [Next]_vars =>
        [\A s \in Slugs :
           \/ ~Orphaned(s) /\ Orphaned(s)'
           \/ s \notin projects /\ s \in projects'
           => \E t \in Tabs : Acts(t, s) /\ (op[t].step = "write" \/ Overtaken(t))]_vars
  BY CoherentStep
<1> QED BY <1>1, <1>2, <1>3, PTL DEF Spec, StoreCoherent
=============================================================================
