--------------------------- MODULE LibrariesProofs --------------------------
(***************************************************************************)
(* The libraries, for any tabs, items, deployments and bounds: what the    *)
(* backend acknowledged stays listed when its writes do not overlap, and   *)
(* every model path is of a file on disk.                                  *)
(***************************************************************************)
EXTENDS Libraries, SequenceTheorems, TLAPS

-----------------------------------------------------------------------------
(* Requests.                                                               *)

StepNames == {"none", "await", "read", "cross", "sent", "acked", "index", "body", "torn", "finish"}
Requests == [ op : {"none", "list", "save", "create"}, step : StepNames,
              name : Names, has : [Names -> Nat], rows : SUBSET Names ]
ReqSet == [Tabs -> [Jobs -> Requests]]

Request(t) == req[t]["user"]
Writer(t) == Writing(Request(t))

\* A step that neither makes nor unmakes a writer.
Quiet == /\ req' \in ReqSet
         /\ \A u \in Tabs : Request(u)' = Request(u) \/ (~Writer(u) /\ ~Writer(u)')

LEMMA IdleFields ==
  /\ Idle \in Requests /\ Idle.op = "none" /\ Idle.step = "none" /\ Idle.rows = {}
  /\ "user" \in Jobs /\ "fiber" \in Jobs /\ Jobs = {"user", "fiber"}
  BY SavesAssumption DEF Idle, None, Requests, StepNames, Jobs

\* The edits the actions make of a request keep it one.
LEMMA RequestEdits ==
  ASSUME NEW r \in Requests
  PROVE  /\ \A s \in StepNames :
              /\ [r EXCEPT !.step = s] \in Requests
              /\ [r EXCEPT !.step = s].op = r.op /\ [r EXCEPT !.step = s].step = s
              /\ [r EXCEPT !.step = s].name = r.name /\ [r EXCEPT !.step = s].rows = r.rows
         /\ \A s \in StepNames, S \in SUBSET Names :
              /\ [r EXCEPT !.step = s, !.rows = S] \in Requests
              /\ [r EXCEPT !.step = s, !.rows = S].op = r.op
              /\ [r EXCEPT !.step = s, !.rows = S].step = s
              /\ [r EXCEPT !.step = s, !.rows = S].name = r.name
              /\ [r EXCEPT !.step = s, !.rows = S].rows = S
  BY DEF Requests

LEMMA SetsRequest ==
  ASSUME req \in ReqSet, NEW t \in Tabs, NEW j \in Jobs, NEW r \in Requests, Sets(t, j, r)
  PROVE  /\ req' \in ReqSet /\ req'[t][j] = r
         /\ \A u \in Tabs, i \in Jobs : u # t \/ i # j => req'[u][i] = req[u][i]
  BY DEF ReqSet, Sets

LEMMA SetsQuietly ==
  ASSUME req \in ReqSet, NEW t \in Tabs, NEW j \in Jobs, NEW r \in Requests, Sets(t, j, r),
         ~Writing(r), ~Writing(req[t][j])
  PROVE  Quiet
  BY SetsRequest, IdleFields DEF Quiet, Request, Writer

LEMMA BeginsRequest ==
  ASSUME req \in ReqSet, NEW t \in Tabs, NEW j \in Jobs, NEW op \in {"list", "save", "create"},
         NEW n \in Names, req[t][j] = Idle, Begins(t, j, op, n)
  PROVE  Quiet
<1> DEFINE r == [Idle EXCEPT !.op = op, !.name = n]
<1>1. r \in Requests
  BY IdleFields DEF Requests
<1>2. PICK q \in {Idle, Sent(r), [r EXCEPT !.step = "read"], [r EXCEPT !.step = "await"]} : Sets(t, j, q)
  BY DEF Begins
<1>3. q \in Requests /\ ~Writing(q)
  <2>1. Idle \in Requests /\ ~Writing(Idle)
    BY IdleFields DEF Writing
  <2>2. ASSUME NEW s \in {"index", "read", "await"}
        PROVE  [r EXCEPT !.step = s] \in Requests /\ ~Writing([r EXCEPT !.step = s])
    BY <1>1 DEF Requests, StepNames, Writing
  <2> QED BY <1>2, <2>1, <2>2 DEF Sent
<1>4. ~Writing(req[t][j])
  BY IdleFields DEF Writing
<1> QED BY <1>2, <1>3, <1>4, SetsQuietly

\* Dropping the plugin's cache forgets lists only.
LEMMA DropsRequests ==
  ASSUME req \in ReqSet, NEW t \in Tabs, NEW user \in Requests, NEW fiber \in Requests,
         Drops(t, user, fiber)
  PROVE  /\ req' \in ReqSet /\ req'[t]["user"] = Listing(user)
         /\ \A u \in Tabs \ {t} : req'[u] = req[u]
<1>1. Listing(user) \in Requests
  BY IdleFields DEF Listing
<1>2. [user |-> Listing(user), fiber |-> fiber] \in [Jobs -> Requests]
  BY <1>1, IdleFields
<1> QED BY <1>2 DEF Drops, ReqSet

-----------------------------------------------------------------------------
(* The backend's index.                                                    *)

DataOK ==
  /\ req \in ReqSet /\ bodies \in [Names -> Nat] /\ local \in [Tabs -> [Names -> Nat]]
  /\ index \in [at : {"none", "torn", "here"}, rows : SUBSET Names]
  /\ overlap \in BOOLEAN /\ acked \subseteq Names

\* What the index lists, or a writer read of it or has written, has a body.
HasBody(n) == bodies[n] # 0
Backed(t) ==
  /\ \A n \in Request(t).rows : HasBody(n)
  /\ Request(t).op = "save" /\ Request(t).step # "body" => HasBody(Request(t).name)
BodyInv ==
  /\ \A n \in index.rows : HasBody(n)
  /\ \A t \in Tabs : Writer(t) => Backed(t)

\* An index that reads as none is a new one or one that a writer has yet to finish.
TornInv ==
  /\ index.at = "none" => acked = {}
  /\ index.at = "torn" => overlap \/ \E t \in Tabs : Writer(t) /\ Request(t).step = "finish"

\* A writer alone has read every item acknowledged.
AckInv ==
  ~overlap => /\ acked \subseteq index.rows
              /\ \A t \in Tabs : Writer(t) => acked \subseteq Request(t).rows
              /\ \A t, u \in Tabs : Writer(t) /\ Writer(u) => t = u

LibInv == DataOK /\ BodyInv /\ TornInv /\ AckInv

\* What a step may do when it makes no writer and leaves the index alone.
Calm == /\ Quiet /\ UNCHANGED <<index, overlap, acked>>
        /\ bodies' \in [Names -> Nat] /\ local' \in [Tabs -> [Names -> Nat]]
        /\ \A n \in Names : HasBody(n) => HasBody(n)'

LEMMA CalmKeeps == LibInv /\ Calm => LibInv'
<1> SUFFICES ASSUME LibInv, Calm PROVE LibInv'
  OBVIOUS
<1>1. DataOK'
  BY DEF LibInv, DataOK, Calm, Quiet
<1>2. \A t \in Tabs : Writer(t)' => Writer(t) /\ Request(t)' = Request(t)
  BY DEF Calm, Quiet, Writer
<1>3. \A t \in Tabs : Writer(t) => Writer(t)' /\ Request(t)' = Request(t)
  BY DEF Calm, Quiet, Writer
<1>4. \A t \in Tabs : Request(t) \in Requests
  BY IdleFields DEF LibInv, DataOK, ReqSet, Request
<1>5. BodyInv'
  BY <1>2, <1>4 DEF LibInv, DataOK, BodyInv, Backed, Calm, Requests
<1>6. TornInv'
  BY <1>3 DEF LibInv, TornInv, Calm
<1>7. AckInv'
  BY <1>2 DEF LibInv, AckInv, Calm
<1> QED BY <1>1, <1>5, <1>6, <1>7 DEF LibInv

LEMMA NothingSent == LibInv /\ UNCHANGED <<server, sync, req>> => LibInv'
<1>1. LibInv /\ UNCHANGED <<server, sync, req>> => Calm
  BY DEF LibInv, DataOK, Calm, Quiet, Request, Writer, HasBody, server, sync
<1> QED BY <1>1, CalmKeeps

\* Requests of a reader, of a save over the sync stack, and those that begin.
LEMMA ReaderKeeps ==
  ASSUME LibInv, NEW t \in Tabs, NEW j \in Jobs,
         ReadsAll(t, j) \/ ReadsIndex(t, j) \/ ReadsBody(t, j) \/ Crosses(t, j)
  PROVE  Calm
<1> DEFINE r == req[t][j]
<1>1. r \in Requests /\ r.op = "list" /\ ~Writing(r)
  BY DEF LibInv, DataOK, ReqSet, ReadsAll, ReadsIndex, ReadsBody, Crosses, Does, Writing
<1>2. /\ UNCHANGED <<index, overlap, acked, bodies, local>>
      /\ bodies \in [Names -> Nat] /\ local \in [Tabs -> [Names -> Nat]] /\ req \in ReqSet
  BY DEF LibInv, DataOK, ReadsAll, ReadsIndex, ReadsBody, Crosses, server, sync
<1>3. ASSUME NEW q \in Requests, ~Writing(q), Sets(t, j, q)
      PROVE  Calm
  BY <1>1, <1>2, <1>3, SetsQuietly DEF Calm, HasBody
<1>4. CASE ReadsAll(t, j)
  <2> DEFINE q == [r EXCEPT !.step = "cross", !.has = local[t]]
  <2>1. q \in Requests /\ ~Writing(q)
    BY <1>1, <1>2 DEF Requests, StepNames, Writing
  <2>2. Sets(t, j, q)
    BY <1>4 DEF ReadsAll
  <2> QED BY <1>3, <2>1, <2>2
<1>5. CASE ReadsIndex(t, j)
  <2> DEFINE q == [r EXCEPT !.step = "body", !.rows = Listable]
  <2>1. Listable \subseteq Names
    BY DEF LibInv, DataOK, Listable
  <2>2. q \in Requests /\ ~Writing(q)
    BY <1>1, <2>1 DEF Requests, StepNames, Writing
  <2>3. Sets(t, j, q)
    BY <1>5 DEF ReadsIndex
  <2> QED BY <1>3, <2>2, <2>3
<1>6. CASE ReadsBody(t, j)
  <2>1. CASE Step(t, j, "cross")
    <3>1. [r EXCEPT !.step = "cross"] \in Requests /\ ~Writing([r EXCEPT !.step = "cross"])
      BY <1>1 DEF Requests, StepNames, Writing
    <3> QED BY <1>3, <2>1, <3>1 DEF Step
  <2>2. CASE \E n \in r.rows : \E body \in Fetched(n) :
               Sets(t, j, [r EXCEPT !.rows = @ \ {n}, !.has[n] = body])
    <3>0. PICK n \in r.rows : \E body \in Fetched(n) :
            Sets(t, j, [r EXCEPT !.rows = @ \ {n}, !.has[n] = body])
      BY <2>2
    <3>1. PICK body \in Fetched(n) : Sets(t, j, [r EXCEPT !.rows = @ \ {n}, !.has[n] = body])
      BY <3>0
    <3> DEFINE q == [r EXCEPT !.rows = @ \ {n}, !.has[n] = body]
    <3>2. n \in Names /\ body \in Nat
      BY <1>1, <1>2 DEF Requests, Fetched
    <3>3. q \in Requests /\ q.op = "list"
      BY <1>1, <3>2 DEF Requests
    <3> QED BY <1>3, <3>1, <3>3 DEF Writing
  <2> QED BY <1>6, <2>1, <2>2 DEF ReadsBody
<1>7. CASE Crosses(t, j)
  BY <1>3, <1>7, IdleFields DEF Crosses, Writing
<1> QED BY <1>4, <1>5, <1>6, <1>7

LEMMA BeginnerKeeps ==
  ASSUME LibInv, NEW t \in Tabs, NEW op \in {"list", "save", "create"}, NEW n \in Names,
         Request(t) = Idle, Begins(t, "user", op, n), UNCHANGED <<server, local>>
  PROVE  Calm
<1>1. Quiet
  BY BeginsRequest, IdleFields DEF LibInv, DataOK, Request
<1> QED BY <1>1 DEF Calm, LibInv, DataOK, HasBody, server

LEMMA SaverKeeps ==
  ASSUME LibInv, NEW t \in Tabs, Pushes(t) \/ Applied(t) \/ Saved(t) \/ SaveFails(t)
  PROVE  Calm
<1> DEFINE r == Request(t)
<1>1. r \in Requests /\ r = req[t]["user"] /\ "user" \in Jobs /\ req \in ReqSet
  BY IdleFields DEF LibInv, DataOK, ReqSet, Request
<1>2. ~Writing(r)
  BY <1>1 DEF Pushes, Applied, Saved, SaveFails, Does, Writing
<1>3. UNCHANGED <<index, overlap, acked>> /\ r.name \in Names
  BY <1>1 DEF Pushes, Applied, Saved, SaveFails, server, Requests
<1>4. CASE Pushes(t)
  <2>1. [r EXCEPT !.step = "sent"] \in Requests /\ ~Writing([r EXCEPT !.step = "sent"])
    BY <1>1 DEF Requests, StepNames, Writing
  <2>2. Quiet
    BY <1>1, <1>2, <1>4, <2>1, SetsQuietly DEF Pushes, Step
  <2> QED BY <1>3, <1>4, <2>2 DEF Pushes, Calm, LibInv, DataOK, HasBody, server
<1>5. CASE Applied(t)
  <2> DEFINE q == [r EXCEPT !.step = "acked", !.has[r.name] = bodies[r.name] + 1]
  <2>1. bodies \in [Names -> Nat] /\ bodies[r.name] + 1 \in Nat
    BY <1>3 DEF LibInv, DataOK
  <2>2. q \in Requests /\ ~Writing(q)
    BY <1>1, <2>1 DEF Requests, StepNames, Writing
  <2>3. Quiet
    BY <1>1, <1>2, <1>5, <2>2, SetsQuietly DEF Applied
  <2>4. bodies' = [bodies EXCEPT ![r.name] = @ + 1] /\ UNCHANGED local
    BY <1>1, <1>5 DEF Applied, Bumped, sync
  <2>5. bodies' \in [Names -> Nat] /\ \A n \in Names : HasBody(n) => HasBody(n)'
    BY <1>3, <2>1, <2>4 DEF HasBody
  <2> QED BY <1>3, <2>3, <2>4, <2>5 DEF Calm, LibInv, DataOK
<1>6. CASE Saved(t)
  <2>1. Drops(t, Idle, Listing(req[t]["fiber"])) /\ Listing(req[t]["fiber"]) \in Requests
    BY <1>1, <1>6, IdleFields DEF Saved, ReqSet, Listing
  <2>2. /\ req' \in ReqSet /\ req'[t]["user"] = Listing(Idle)
        /\ \A u \in Tabs \ {t} : req'[u] = req[u]
    BY <1>1, <2>1, DropsRequests, IdleFields
  <2>3. Listing(Idle) = Idle /\ ~Writing(Idle)
    BY IdleFields DEF Listing, Writing
  <2>4. Quiet
    BY <1>2, <2>2, <2>3 DEF Quiet, Request, Writer
  <2>5. r.has[r.name] \in Nat /\ local \in [Tabs -> [Names -> Nat]]
    BY <1>1, <1>3 DEF Requests, LibInv, DataOK
  <2>6. \/ UNCHANGED local
        \/ local' = [local EXCEPT ![t][r.name] = r.has[r.name]]
    BY <1>1, <1>6 DEF Saved
  <2>7. local' \in [Tabs -> [Names -> Nat]]
    BY <1>3, <2>5, <2>6
  <2> QED BY <1>3, <1>6, <2>4, <2>7 DEF Saved, Calm, LibInv, DataOK, HasBody, server
<1>7. CASE SaveFails(t)
  <2>1. Quiet
    BY <1>1, <1>2, <1>7, SetsQuietly, IdleFields DEF SaveFails, Writing
  <2> QED BY <1>3, <1>7, <2>1 DEF SaveFails, Calm, LibInv, DataOK, HasBody, server
<1> QED BY <1>4, <1>5, <1>6, <1>7

LEMMA StackKeeps ==
  ASSUME LibInv, NEW t \in Tabs, Opens(t) \/ OpenFails(t)
  PROVE  Calm
<1>1. req \in ReqSet /\ bodies \in [Names -> Nat] /\ local \in [Tabs -> [Names -> Nat]]
  BY DEF LibInv, DataOK
<1>2. UNCHANGED <<server>> /\ local' \in [Tabs -> [Names -> Nat]]
  BY <1>1 DEF Opens, OpenFails, server
<1>3. PICK q : /\ req' = [req EXCEPT ![t] = [j \in Jobs |-> IF req[t][j].step = "await"
                                                             THEN q[j] ELSE req[t][j]]]
               /\ \A j \in Jobs : q[j] \in Requests /\ ~Writing(q[j])
  <2>1. \A j \in Jobs : req[t][j] \in Requests
    BY <1>1 DEF ReqSet
  <2>2. CASE Opens(t)
    <3> DEFINE q == [j \in Jobs |-> [req[t][j] EXCEPT !.step = "read"]]
    <3>1. \A j \in Jobs : q[j] \in Requests /\ ~Writing(q[j])
      BY <2>1 DEF Requests, StepNames, Writing
    <3>2. req' = [req EXCEPT ![t] = [j \in Jobs |-> IF req[t][j].step = "await"
                                                     THEN q[j] ELSE req[t][j]]]
      BY <1>1, <2>2 DEF Opens, ReqSet
    <3> QED BY <3>1, <3>2
  <2>3. CASE OpenFails(t)
    <3> DEFINE q == [j \in Jobs |-> Idle]
    <3>1. \A j \in Jobs : q[j] \in Requests /\ ~Writing(q[j])
      BY IdleFields DEF Writing
    <3>2. req' = [req EXCEPT ![t] = [j \in Jobs |-> IF req[t][j].step = "await"
                                                     THEN q[j] ELSE req[t][j]]]
      BY <1>1, <2>3 DEF OpenFails, ReqSet
    <3> QED BY <3>1, <3>2
  <2> QED BY <2>2, <2>3
<1>4. req' \in ReqSet
  BY <1>1, <1>3 DEF ReqSet
<1>5. ASSUME NEW u \in Tabs PROVE Request(u)' = Request(u) \/ (~Writer(u) /\ ~Writer(u)')
  <2>1. CASE u # t
    BY <1>1, <1>3, <2>1 DEF ReqSet, Request
  <2>2. CASE u = t /\ Request(t).step # "await"
    BY <1>1, <1>3, <2>2, IdleFields DEF ReqSet, Request
  <2>3. CASE u = t /\ Request(t).step = "await"
    <3>1. Request(t)' = q["user"]
      BY <1>1, <1>3, <2>3, IdleFields DEF ReqSet, Request
    <3>2. ~Writing(Request(t))
      BY <2>3 DEF Writing
    <3> QED BY <1>3, <2>3, <3>1, <3>2, IdleFields DEF Writer
  <2> QED BY <2>1, <2>2, <2>3
<1> QED BY <1>1, <1>2, <1>4, <1>5 DEF Calm, Quiet, HasBody, server

LEMMA ReloadKeeps ==
  ASSUME LibInv, NEW t \in Tabs, Reload(t)
  PROVE  Calm
<1>1. req \in ReqSet /\ req[t]["user"] \in Requests
  BY IdleFields DEF LibInv, DataOK, ReqSet
<1>2. Quiet
  <2>1. CASE UNCHANGED req
    BY <1>1, <2>1 DEF Quiet, Request, Writer
  <2>2. CASE Reloaded(t)
    <3> DEFINE q == [Idle EXCEPT !.op = "list", !.step = "read"]
    <3>1. q \in Requests
      BY IdleFields DEF Requests, StepNames
    <3>2. Drops(t, req[t]["user"], q)
      BY <2>2 DEF Reloaded
    <3> HIDE DEF q
    <3>3. /\ req' \in ReqSet /\ req'[t]["user"] = Listing(req[t]["user"])
          /\ \A u \in Tabs \ {t} : req'[u] = req[u]
      BY <1>1, <3>1, <3>2, DropsRequests
    <3>4. \/ Listing(Request(t)) = Request(t)
          \/ ~Writing(Request(t)) /\ ~Writing(Listing(Request(t)))
      BY IdleFields DEF Listing, Writing
    <3> QED BY <3>3, <3>4 DEF Quiet, Request, Writer
  <2> QED BY <2>1, <2>2 DEF Reload
<1> QED BY <1>2 DEF Reload, Calm, LibInv, DataOK, HasBody, server

LEMMA LooksKeeps ==
  ASSUME LibInv, NEW t \in Tabs, Looks(t)
  PROVE  LibInv'
<1> DEFINE r == Request(t)
           step == IF r.op = "save" THEN "body" ELSE "torn"
           q == [r EXCEPT !.step = step, !.rows = Listable]
<1>1. /\ r \in Requests /\ r = req[t]["user"] /\ "user" \in Jobs /\ req \in ReqSet
      /\ r.op \in {"save", "create"} /\ ~Writing(r)
  BY IdleFields DEF LibInv, DataOK, ReqSet, Request, Looks, Does, Writing
<1>2. /\ UNCHANGED <<index, acked, bodies, local>>
      /\ overlap' = (overlap \/ \E u \in Tabs : Writer(u))
  BY DEF Looks, sync, Writer, Request
<1>3. Listable \subseteq Names /\ step \in StepNames
  BY DEF LibInv, DataOK, Listable, StepNames
<1>4. q \in Requests /\ q.op = r.op /\ q.step = step /\ q.name = r.name /\ q.rows = Listable
  BY <1>1, <1>3 DEF Requests
<1>5. Sets(t, "user", IF Refused(r) THEN Idle ELSE q)
  BY <1>1 DEF Looks
<1> HIDE DEF q, step
<1>6. PICK w \in Requests : Sets(t, "user", w) /\ w = IF Refused(r) THEN Idle ELSE q
  BY <1>4, <1>5, IdleFields
<1>7. /\ req' \in ReqSet /\ Request(t)' = w
      /\ \A u \in Tabs \ {t} : Request(u)' = Request(u)
  BY <1>1, <1>6, SetsRequest DEF Request
<1>8. \A u \in Tabs : Writer(u)' => u = t \/ Writer(u)
  BY <1>7 DEF Writer
<1>9. \A u \in Tabs : Writer(u) => u # t /\ Writer(u)' /\ Request(u)' = Request(u)
  BY <1>1, <1>7 DEF Writer
<1>10. Writer(t)' => w = q /\ ~Refused(r)
  BY <1>6, <1>7, IdleFields DEF Writer, Writing
<1>11. DataOK'
  BY <1>2, <1>7 DEF LibInv, DataOK
<1>12. \A n \in Listable : HasBody(n)
  BY DEF LibInv, BodyInv, Backed, Listable
<1>13. BodyInv'
  <2>1. \A n \in Names : HasBody(n)' <=> HasBody(n)
    BY <1>2 DEF HasBody
  <2>2. \A n \in index'.rows : HasBody(n)'
    BY <1>2 DEF LibInv, BodyInv, Backed, HasBody
  <2>3. ASSUME NEW u \in Tabs, Writer(u)', u # t
        PROVE  Backed(u)'
    <3>1. Writer(u) /\ Request(u)' = Request(u)
      BY <1>7, <2>3 DEF Writer
    <3> QED BY <1>2, <3>1 DEF LibInv, BodyInv, Backed, HasBody
  <2>4. ASSUME Writer(t)'
        PROVE  Backed(t)'
    <3>1. Request(t)' = q
      BY <1>7, <1>10, <2>4
    <3>2. q.op = "save" => q.step = "body"
      BY <1>4 DEF step
    <3>3. \A n \in q.rows : HasBody(n)'
      BY <1>2, <1>4, <1>12 DEF HasBody
    <3> QED BY <3>1, <3>2, <3>3 DEF Backed
  <2> QED BY <2>2, <2>3, <2>4 DEF BodyInv, Backed
<1>14. TornInv'
  BY <1>2, <1>9 DEF LibInv, TornInv
<1>15. AckInv'
  <2> SUFFICES ASSUME ~overlap'
               PROVE  /\ acked' \subseteq index'.rows
                      /\ \A u \in Tabs : Writer(u)' => acked' \subseteq Request(u)'.rows
                      /\ \A u, v \in Tabs : Writer(u)' /\ Writer(v)' => u = v
    BY DEF AckInv
  <2>1. ~overlap /\ \A u \in Tabs : ~Writer(u)
    BY <1>2
  <2>2. acked \subseteq index.rows /\ (index.at # "here" => acked = {})
    BY <2>1 DEF LibInv, AckInv, TornInv, DataOK
  <2>3. acked \subseteq Listable
    BY <2>2 DEF Listable
  <2> QED BY <1>2, <1>4, <1>7, <1>8, <1>10, <2>1, <2>2, <2>3
<1> QED BY <1>11, <1>13, <1>14, <1>15 DEF LibInv

LEMMA WritesBodyKeeps ==
  ASSUME LibInv, NEW t \in Tabs, WritesBody(t)
  PROVE  LibInv'
<1> DEFINE r == Request(t)
           q == [r EXCEPT !.step = "torn"]
<1>1. /\ r \in Requests /\ r = req[t]["user"] /\ "user" \in Jobs /\ req \in ReqSet
      /\ r.op = "save" /\ r.step = "body" /\ r.name \in Names /\ Writer(t)
  BY IdleFields DEF LibInv, DataOK, ReqSet, Requests, Request, WritesBody, Does, Writer, Writing
<1>2. UNCHANGED <<index, overlap, acked, local>> /\ bodies' = [bodies EXCEPT ![r.name] = @ + 1]
  BY <1>1 DEF WritesBody, sync, Bumped
<1>3. /\ q \in Requests /\ q.op = "save" /\ q.step = "torn" /\ q.name = r.name /\ q.rows = r.rows
      /\ Sets(t, "user", q)
  <2>1. /\ q \in Requests /\ q.op = r.op /\ q.step = "torn"
        /\ q.name = r.name /\ q.rows = r.rows
    BY <1>1 DEF Requests, StepNames
  <2>2. Sets(t, "user", q)
    BY <1>1 DEF WritesBody, Step
  <2> QED BY <1>1, <2>1, <2>2
<1> HIDE DEF q
<1>4. /\ req' \in ReqSet /\ Request(t)' = q
      /\ \A u \in Tabs \ {t} : Request(u)' = Request(u)
  BY <1>1, <1>3, SetsRequest DEF Request
<1>5. \A u \in Tabs : Writer(u)' => Writer(u)
  BY <1>1, <1>4 DEF Writer
<1>6. /\ bodies' \in [Names -> Nat] /\ bodies'[r.name] # 0
      /\ \A n \in Names : bodies[n] # 0 => bodies'[n] # 0
  <2>1. bodies \in [Names -> Nat] /\ bodies[r.name] + 1 \in Nat \ {0}
    BY <1>1 DEF LibInv, DataOK
  <2>2. bodies' \in [Names -> Nat] /\ bodies'[r.name] # 0
    BY <1>1, <1>2, <2>1
  <2>3. ASSUME NEW n \in Names, bodies[n] # 0 PROVE bodies'[n] # 0
    BY <1>2, <2>1, <2>2, <2>3
  <2> QED BY <2>2, <2>3
<1>7. DataOK'
  BY <1>2, <1>4, <1>6 DEF LibInv, DataOK
<1>8. BodyInv'
  <2>1. \A u \in Tabs : Request(u) \in Requests
    BY <1>1 DEF ReqSet, Request
  <2>2. ASSUME NEW u \in Tabs, Writer(u)', u # t
        PROVE  Backed(u)'
    BY <1>4, <1>5, <1>6, <2>1, <2>2 DEF LibInv, BodyInv, Backed, Requests, HasBody
  <2>3. \A n \in Request(t)'.rows : HasBody(n)'
    BY <1>1, <1>3, <1>4, <1>6 DEF LibInv, BodyInv, Backed, Requests, HasBody
  <2>4. HasBody(Request(t).name)'
    BY <1>3, <1>4, <1>6 DEF HasBody
  <2>5. \A n \in index'.rows : HasBody(n)'
    BY <1>2, <1>6 DEF LibInv, BodyInv, Backed, DataOK, HasBody
  <2> QED BY <2>2, <2>3, <2>4, <2>5 DEF BodyInv, Backed
<1>9. TornInv'
  <2>1. \A u \in Tabs : Writer(u) /\ Request(u).step = "finish" =>
          u # t /\ Writer(u)' /\ Request(u)' = Request(u)
    BY <1>1, <1>4 DEF Writer
  <2> QED BY <1>2, <2>1 DEF LibInv, TornInv
<1>10. AckInv'
  BY <1>2, <1>1, <1>3, <1>4, <1>5 DEF LibInv, AckInv
<1> QED BY <1>7, <1>8, <1>9, <1>10 DEF LibInv

LEMMA TruncatesKeeps ==
  ASSUME LibInv, NEW t \in Tabs, Truncates(t)
  PROVE  LibInv'
<1> DEFINE r == Request(t)
           q == [r EXCEPT !.step = "finish"]
<1>1. /\ r \in Requests /\ r = req[t]["user"] /\ "user" \in Jobs /\ req \in ReqSet
      /\ r.op \in {"save", "create"} /\ r.step = "torn" /\ r.name \in Names /\ Writer(t)
  BY IdleFields DEF LibInv, DataOK, ReqSet, Requests, Request, Truncates, Does, Writer, Writing
<1>2. UNCHANGED <<bodies, overlap, acked, local>> /\ index' = [index EXCEPT !.at = "torn"]
  BY DEF Truncates, sync
<1>3. /\ q \in Requests /\ q.op = r.op /\ q.step = "finish" /\ q.name = r.name /\ q.rows = r.rows
      /\ Sets(t, "user", q)
  <2>1. /\ q \in Requests /\ q.op = r.op /\ q.step = "finish"
        /\ q.name = r.name /\ q.rows = r.rows
    BY <1>1 DEF Requests, StepNames
  <2>2. Sets(t, "user", q)
    BY <1>1 DEF Truncates, Step
  <2> QED BY <1>1, <2>1, <2>2
<1> HIDE DEF q
<1>4. /\ req' \in ReqSet /\ Request(t)' = q
      /\ \A u \in Tabs \ {t} : Request(u)' = Request(u)
  BY <1>1, <1>3, SetsRequest DEF Request
<1>5. (\A u \in Tabs : Writer(u)' => Writer(u)) /\ Writer(t)'
  BY <1>1, <1>3, <1>4 DEF Writer, Writing
<1>6. /\ index' \in [at : {"none", "torn", "here"}, rows : SUBSET Names]
      /\ index'.at = "torn" /\ index'.rows = index.rows
  BY <1>2 DEF LibInv, DataOK
<1>7. DataOK'
  BY <1>2, <1>4, <1>6 DEF LibInv, DataOK
<1>8. BodyInv'
  <2>1. ASSUME NEW u \in Tabs, Writer(u)', u # t
        PROVE  Backed(u)'
    BY <1>2, <1>4, <1>5, <2>1 DEF LibInv, BodyInv, Backed, HasBody
  <2>2. Backed(t)'
    BY <1>1, <1>2, <1>3, <1>4 DEF LibInv, BodyInv, Backed, HasBody
  <2>3. \A n \in index'.rows : HasBody(n)'
    BY <1>2, <1>6 DEF LibInv, BodyInv, Backed, HasBody
  <2> QED BY <2>1, <2>2, <2>3 DEF BodyInv, Backed
<1>9. TornInv'
  BY <1>3, <1>4, <1>5, <1>6 DEF TornInv
<1>10. AckInv'
  BY <1>1, <1>2, <1>3, <1>4, <1>5, <1>6 DEF LibInv, AckInv
<1> QED BY <1>7, <1>8, <1>9, <1>10 DEF LibInv

LEMMA FinishesKeeps ==
  ASSUME LibInv, NEW t \in Tabs, Finishes(t)
  PROVE  LibInv'
<1> DEFINE r == Request(t)
           own == IF r.op = "save" THEN {r.name} ELSE {}
<1>1. /\ r \in Requests /\ r = req[t]["user"] /\ "user" \in Jobs /\ req \in ReqSet
      /\ r.op \in {"save", "create"} /\ r.step = "finish" /\ r.name \in Names /\ Writer(t)
  BY IdleFields DEF LibInv, DataOK, ReqSet, Requests, Request, Finishes, Does, Writer, Writing
<1>2. /\ UNCHANGED <<bodies, overlap, local>> /\ acked' = acked \cup own
      /\ index' = [at |-> "here", rows |-> r.rows \cup own]
  BY <1>1 DEF Finishes, Rows
<1>3. /\ req' \in ReqSet /\ Request(t)' = Idle
      /\ \A u \in Tabs \ {t} : Request(u)' = Request(u)
  <2>1. CASE Drops(t, Idle, Idle)
    <3>1. Listing(Idle) = Idle
      BY IdleFields DEF Listing
    <3> QED BY <1>1, <2>1, <3>1, IdleFields, DropsRequests DEF Request
  <2>2. CASE Sets(t, "user", Idle)
    BY <1>1, <2>2, IdleFields, SetsRequest DEF Request
  <2> QED BY <2>1, <2>2 DEF Finishes
<1>4. ~Writer(t)' /\ \A u \in Tabs : Writer(u)' => Writer(u) /\ u # t /\ Request(u)' = Request(u)
  BY <1>3, IdleFields DEF Writer, Writing
<1>5. own \subseteq Names /\ r.rows \subseteq Names
  BY <1>1 DEF Requests
<1>6. /\ index' \in [at : {"none", "torn", "here"}, rows : SUBSET Names]
      /\ index'.at = "here" /\ index'.rows = r.rows \cup own
  BY <1>2, <1>5
<1>7. DataOK'
  BY <1>2, <1>3, <1>5, <1>6 DEF LibInv, DataOK
<1>8. BodyInv'
  <2>1. (\A n \in r.rows : HasBody(n)) /\ (\A n \in own : HasBody(n))
    BY <1>1 DEF LibInv, BodyInv, Backed
  <2>2. \A n \in index'.rows : HasBody(n)'
    BY <1>2, <1>6, <2>1 DEF HasBody
  <2>3. ASSUME NEW u \in Tabs, Writer(u)'
        PROVE  Backed(u)'
    BY <1>2, <1>4, <2>3 DEF LibInv, BodyInv, Backed, HasBody
  <2> QED BY <2>2, <2>3 DEF BodyInv, Backed
<1>9. TornInv'
  BY <1>6 DEF TornInv
<1>10. AckInv'
  <2> SUFFICES ASSUME ~overlap' PROVE acked' \subseteq index'.rows /\ \A u \in Tabs : ~Writer(u)'
    BY DEF AckInv
  <2> QED BY <1>1, <1>2, <1>4, <1>6 DEF LibInv, AckInv
<1> QED BY <1>7, <1>8, <1>9, <1>10 DEF LibInv

\* No action outside the backend's writes touches the index, or makes a writer.
LEMMA LibKeeps == LibInv /\ LibNext => LibInv'
<1> SUFFICES ASSUME LibInv, LibNext PROVE LibInv'
  OBVIOUS
<1> PICK t \in Tabs : \/ Presync(t) \/ Tables(t) \/ List(t) \/ Save(t) \/ Works(t)
                      \/ Fires(t) \/ Reload(t) \/ \E n \in Names : Arrives(t, n) \/ Delivered(t, n)
  BY DEF LibNext
<1> USE CalmKeeps
<1>1. UNCHANGED <<server, local, req>> => Calm
  BY DEF LibInv, DataOK, Calm, Quiet, Request, Writer, HasBody, server
<1>2. CASE Presync(t) \/ Fires(t) \/ \E n \in Names : Delivered(t, n)
  BY <1>1, <1>2 DEF Presync, Fires, Delivered, server, sync
<1>3. CASE Tables(t)
  <2>1. CASE Begins(t, "user", "create", Idle.name)
    BY <1>3, <2>1, BeginnerKeeps, IdleFields DEF Tables, Request, Requests
  <2>2. CASE UNCHANGED req
    BY <1>1, <1>3, <2>2 DEF Tables
  <2> QED BY <1>3, <2>1, <2>2 DEF Tables
<1>4. CASE List(t)
  BY <1>4, BeginnerKeeps, IdleFields DEF List, Request, Requests
<1>5. CASE Save(t)
  <2>1. PICK n \in Names : Begins(t, "user", "save", n)
    BY <1>5, SavesAssumption DEF Save
  <2> QED BY <1>5, <2>1, BeginnerKeeps DEF Save, Request
<1>6. CASE Reload(t)
  BY <1>6, ReloadKeeps
<1>7. CASE \E n \in Names : Arrives(t, n)
  <2>1. PICK n \in Names : Arrives(t, n)
    BY <1>7
  <2>2. local' \in [Tabs -> [Names -> Nat]]
    BY <2>1 DEF Arrives, LibInv, DataOK
  <2>3. Calm
    BY <2>1, <2>2 DEF Arrives, LibInv, DataOK, Calm, Quiet, Request, Writer, HasBody, server
  <2> QED BY <2>3
<1>8. CASE Works(t)
  <2>1. CASE Opens(t) \/ OpenFails(t)
    BY <2>1, StackKeeps
  <2>2. CASE \E j \in Jobs : ReadsAll(t, j) \/ ReadsIndex(t, j) \/ ReadsBody(t, j) \/ Crosses(t, j)
    BY <2>2, ReaderKeeps
  <2>3. CASE Pushes(t) \/ Applied(t) \/ Saved(t) \/ SaveFails(t)
    BY <2>3, SaverKeeps
  <2>4. CASE Looks(t) \/ WritesBody(t) \/ Truncates(t) \/ Finishes(t)
    BY <2>4, LooksKeeps, WritesBodyKeeps, TruncatesKeeps, FinishesKeeps
  <2> QED BY <1>8, <2>1, <2>2, <2>3, <2>4 DEF Works
<1> QED BY <1>2, <1>3, <1>4, <1>5, <1>6, <1>7, <1>8

\* What the backend acknowledged is in the index, unless its writes overlapped, and
\* what the index lists has a body: for any tabs, items and saves.
THEOREM AcknowledgedIsListed == Spec => []SavedItemsFound
<1>1. Init => LibInv
  <2> SUFFICES ASSUME Init PROVE LibInv
    OBVIOUS
  <2>1. /\ bodies = None /\ None \in [Names -> Nat] /\ index = [at |-> "none", rows |-> {}]
        /\ local = [u \in Tabs |-> None] /\ req = [u \in Tabs |-> [j \in Jobs |-> Idle]]
        /\ overlap = FALSE /\ acked = {}
    BY DEF Init, None
  <2>2. DataOK
    BY <2>1, IdleFields DEF DataOK, ReqSet
  <2>3. \A u \in Tabs : ~Writer(u)
    BY <2>1, IdleFields DEF Writer, Writing, Request
  <2> QED BY <2>1, <2>2, <2>3 DEF LibInv, BodyInv, Backed, TornInv, AckInv
<1>2. LibInv /\ [Next]_vars => LibInv'
  <2> SUFFICES ASSUME LibInv, [Next]_vars PROVE LibInv'
    OBVIOUS
  <2>1. CASE UNCHANGED libs
    BY <2>1, NothingSent DEF libs
  <2>2. CASE LibNext
    BY <2>2, LibKeeps
  <2> QED BY <2>1, <2>2 DEF Next, vars
<1>3. LibInv => SavedItemsFound
  BY DEF LibInv, BodyInv, Backed, AckInv, SavedItemsFound, HasBody
<1> QED BY <1>1, <1>2, <1>3, PTL DEF Spec

-----------------------------------------------------------------------------
(* The 3D models.                                                          *)

\* Inductive: the files remembered, and those shipped, are on disk; a file that is
\* not remembered is not shipped twice.
ModelsInv ==
  /\ disk \subseteq Models!Formats
  /\ memo \in [Models!Formats -> Models!Formats \cup {"none"}]
  /\ ensuring \in [Models!Formats -> 0 .. 2]
  /\ shipped \in Seq(Models!Formats)
  /\ ModelsOnDisk

LEMMA CandidateIsFormat ==
  ASSUME NEW r \in Models!Formats, NEW i
  PROVE  Models!Candidate(r, i) \in Models!Formats
<1>1. \E f \in Models!Formats : f # r
  BY DEF Models!Formats
<1> QED BY <1>1 DEF Models!Candidate

\* A file on disk is shipped at most once.
LEMMA ShipsOnce ==
  ASSUME ModelsInv, NEW D, disk \subseteq D, NEW file \in Models!Formats \cup {"none"},
         file # "none" => file \in D, Models!Ships(file)
  PROVE  /\ shipped' \in Seq(Models!Formats)
         /\ \A i, j \in DOMAIN shipped' :
              shipped'[i] \in D /\ (shipped'[i] = shipped'[j] => i = j)
<1>1. CASE file = "none" \/ \E i \in DOMAIN shipped : shipped[i] = file
  BY <1>1 DEF Models!Ships, ModelsInv, ModelsOnDisk, Models!ModelsOnDisk
<1>2. CASE file # "none" /\ \A i \in DOMAIN shipped : shipped[i] # file
  <2> DEFINE last == Len(shipped) + 1
  <2>1. /\ shipped' = Append(shipped, file) /\ file \in Models!Formats /\ file \in D
        /\ shipped \in Seq(Models!Formats)
    BY <1>2 DEF Models!Ships, ModelsInv
  <2>2. /\ shipped' \in Seq(Models!Formats) /\ DOMAIN shipped' = 1 .. last
        /\ DOMAIN shipped = 1 .. Len(shipped) /\ Len(shipped) \in Nat
        /\ shipped'[last] = file /\ \A i \in 1 .. Len(shipped) : shipped'[i] = shipped[i]
    BY <2>1, AppendProperties, LenProperties
  <2>3. \A i \in 1 .. Len(shipped) :
          /\ shipped[i] \in D /\ shipped[i] # file
          /\ \A j \in 1 .. Len(shipped) : shipped[i] = shipped[j] => i = j
    BY <1>2, <2>2 DEF ModelsInv, ModelsOnDisk, Models!ModelsOnDisk
  <2>4. \A i \in 1 .. last : i = last \/ i \in 1 .. Len(shipped)
    BY <2>2
  <2>5. ASSUME NEW i \in 1 .. last, NEW j \in 1 .. last
        PROVE  shipped'[i] \in D /\ (shipped'[i] = shipped'[j] => i = j)
    BY <2>1, <2>2, <2>3, <2>4
  <2> QED BY <2>2, <2>5
<1> QED BY <1>1, <1>2

\* What resolves with a file on disk, or with none, keeps the invariant.
LEMMA ResolvesInto ==
  ASSUME ModelsInv, NEW r \in Models!Formats, NEW file \in Models!Formats \cup {"none"}, NEW w,
         Models!Resolves(r, file, w), disk \subseteq disk', disk' \subseteq Models!Formats,
         file # "none" => file \in disk'
  PROVE  ModelsInv'
<1>1. memo' \in [Models!Formats -> Models!Formats \cup {"none"}] /\ ensuring' \in [Models!Formats -> 0 .. 2]
  BY DEF Models!Resolves, Models!Memoized, ModelsInv
<1>2. memo'[r] = file /\ \A f \in Models!Formats : memo'[f] # "none" => memo'[f] \in disk'
  BY DEF Models!Resolves, Models!Memoized, ModelsInv, ModelsOnDisk, Models!ModelsOnDisk
<1>3. /\ shipped' \in Seq(Models!Formats)
      /\ \A i, j \in DOMAIN shipped' : shipped'[i] \in disk' /\ (shipped'[i] = shipped'[j] => i = j)
  <2>1. CASE UNCHANGED shipped
    BY <2>1 DEF ModelsInv, ModelsOnDisk, Models!ModelsOnDisk
  <2>2. CASE Models!Ships(memo'[r])
    <3>1. Models!Ships(file)
      BY <2>2, <1>2
    <3> QED BY <3>1, ShipsOnce
  <2> QED BY <2>1, <2>2 DEF Models!Resolves
<1> QED BY <1>1, <1>2, <1>3 DEF ModelsInv, ModelsOnDisk, Models!ModelsOnDisk

LEMMA ResolvesOrTries ==
  ASSUME ModelsInv, NEW r \in Models!Formats, NEW i \in 1 .. 3, NEW w, Models!Tries(r, i, w),
         UNCHANGED disk
  PROVE  ModelsInv'
<1>1. CASE Models!Resolves(r, "none", w)
  BY <1>1, ResolvesInto DEF ModelsInv
<1>2. CASE Models!Candidate(r, i) \in disk /\ Models!Resolves(r, Models!Candidate(r, i), w)
  BY <1>2, ResolvesInto, CandidateIsFormat DEF ModelsInv
<1>3. CASE i <= 2 /\ ensuring' = [ensuring EXCEPT ![r] = i] /\ UNCHANGED <<memo, shipped>>
  <2>1. i \in 0 .. 2
    BY <1>3
  <2>2. ensuring' \in [Models!Formats -> 0 .. 2]
    BY <1>3, <2>1 DEF ModelsInv
  <2> QED BY <1>3, <2>2 DEF ModelsInv, ModelsOnDisk, Models!ModelsOnDisk
<1> QED BY <1>1, <1>2, <1>3 DEF Models!Tries

LEMMA AskKeeps ==
  ASSUME ModelsInv, NEW r \in Models!Formats, NEW c \in Callers, Models!Ask(c, r)
  PROVE  ModelsInv'
<1> DEFINE w == Models!Awaits(c, r)
<1>1. UNCHANGED disk
  BY DEF Models!Ask
<1>2. CASE memo[r] # "none" /\ Models!Resolves(r, memo[r], w)
  <2>1. memo[r] \in Models!Formats \cup {"none"} /\ memo[r] \in disk
    BY <1>2 DEF ModelsInv, ModelsOnDisk, Models!ModelsOnDisk
  <2> QED BY <1>1, <1>2, <2>1, ResolvesInto DEF ModelsInv
<1>3. CASE Models!Tries(r, 1, w)
  BY <1>1, <1>3, ResolvesOrTries
<1>4. CASE UNCHANGED <<memo, ensuring, shipped>>
  BY <1>1, <1>4 DEF ModelsInv, ModelsOnDisk, Models!ModelsOnDisk
<1> QED BY <1>2, <1>3, <1>4 DEF Models!Ask

LEMMA BodyKeeps ==
  ASSUME ModelsInv, NEW r \in Models!Formats, Models!Body(r)
  PROVE  ModelsInv'
<1> DEFINE file == Models!Candidate(r, ensuring[r])
<1>1. ensuring[r] \in 1 .. 2 /\ file \in Models!Formats
  BY CandidateIsFormat DEF ModelsInv, Models!Body
<1>2. CASE disk' = disk \cup {file} /\ Models!Resolves(r, file, waiting)
  <2>1. disk \subseteq disk' /\ disk' \subseteq Models!Formats /\ file \in disk'
    BY <1>1, <1>2 DEF ModelsInv
  <2>2. Models!Resolves(r, file, waiting) /\ file \in Models!Formats \cup {"none"}
    BY <1>1, <1>2
  <2> HIDE DEF file
  <2> QED BY <2>1, <2>2, ResolvesInto
<1>3. CASE Models!Tries(r, ensuring[r] + 1, waiting) /\ UNCHANGED disk
  <2>1. ensuring[r] + 1 \in 1 .. 3
    BY <1>1
  <2> QED BY <1>3, <2>1, ResolvesOrTries
<1> QED BY <1>2, <1>3 DEF Models!Body

\* Every model path the bridge remembers, of every reference and whoever raced for
\* it, is of a file on disk, and an export ships none twice.
THEOREM ModelPathsAreOnDisk == Spec => []ModelsOnDisk
<1>1. Init => ModelsInv
  <2> SUFFICES ASSUME Init PROVE ModelsInv
    OBVIOUS
  <2>1. /\ disk = {} /\ memo = [r \in Models!Formats |-> "none"]
        /\ ensuring = [r \in Models!Formats |-> 0] /\ shipped = <<>>
    BY DEF Init, Models!Init
  <2>2. shipped \in Seq(Models!Formats) /\ DOMAIN shipped = {}
    BY <2>1, EmptySeq
  <2>3. /\ memo \in [Models!Formats -> Models!Formats \cup {"none"}]
        /\ ensuring \in [Models!Formats -> 0 .. 2] /\ \A r \in Models!Formats : memo[r] = "none"
    BY <2>1
  <2> QED BY <2>1, <2>2, <2>3 DEF ModelsInv, ModelsOnDisk, Models!ModelsOnDisk
<1>2. ModelsInv /\ [Next]_vars => ModelsInv'
  <2> SUFFICES ASSUME ModelsInv, [Next]_vars PROVE ModelsInv'
    OBVIOUS
  <2>1. CASE UNCHANGED <<disk, memo, ensuring, shipped>>
    BY <2>1 DEF ModelsInv, ModelsOnDisk, Models!ModelsOnDisk
  <2>2. CASE UNCHANGED models
    BY <2>1, <2>2 DEF models
  <2>3. CASE Models!Next
    BY <2>3, AskKeeps, BodyKeeps DEF Models!Next
  <2>4. CASE UNCHANGED vars
    BY <2>1, <2>4 DEF vars, libs, models
  <2> QED BY <2>2, <2>3, <2>4 DEF Next
<1>3. ModelsInv => ModelsOnDisk
  BY DEF ModelsInv
<1> QED BY <1>1, <1>2, <1>3, PTL DEF Spec

=============================================================================
