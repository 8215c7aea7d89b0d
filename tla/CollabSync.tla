----------------------------- MODULE CollabSync -----------------------------
(***************************************************************************)
(* Editors sharing one room, after each has been seeded: the C++ change    *)
(* bridge (src/wasm/bindings/pcbnew_embind.cpp), the binding between the   *)
(* editor and its Y.Doc replica (src/web/standalone/src/wasm/collab/       *)
(* kicad-binding.ts) and the provider that ferries updates.                *)
(*                                                                         *)
(*   model --listener--> dirty --flushDiff--> onItems --> doc --> provider *)
(*   model <--doApplyItems-- fiber queue <--applyItems-- observer <-- doc  *)
(*                                                                         *)
(* An item's content is a pair of edit numbers: "full" is the last edit    *)
(* of any kind, "proj" the last one the scalar projection of itemToJson    *)
(* shows.  Fiber bodies run whole and in order (module FiberQueue); only   *)
(* an apply is split, where commit.Push may park.                          *)
(***************************************************************************)
EXTENDS Integers, Sequences

CONSTANTS
  Editors,         \* Y.Doc client ids, a set of naturals
  Items,           \* root items of the board
  Owners,          \* Owners[i]: the editors whose user edits item i
  MaxEdits,        \* bound on the number of local edits
  ParkEdits        \* the kinds of edit the user commits while an apply is parked

\* An edit either shows in the projection or leaves it unchanged.
EditKinds == {"visible", "hidden"}

ASSUME EditorsAssumption == Editors \subseteq Nat
ASSUME OwnersAssumption == Owners \in [Items -> SUBSET Editors]
ASSUME BoundsAssumption == MaxEdits \in Nat /\ ParkEdits \subseteq EditKinds

VARIABLES
  model,           \* model[e][i]: the board item in editor e
  baseline,        \* g_baseline: projection of what was last broadcast
  dirty,           \* g_dirty
  flushScheduled,  \* g_flushScheduled
  fibers,          \* fiberQueue(): flush and apply bodies
  applying,        \* the wire of a parked apply (s_applyingRemote), or NoWire
  doc,             \* the kdoc_items replica: a stamped register per item
  channel,         \* channel[e][f]: updates on the way from e to f
  edits            \* number of local edits so far

cpp == <<model, baseline, dirty, flushScheduled, fibers, applying>>
vars == <<cpp, doc, channel, edits>>

\* An item: what its wire object shows (itemToJson), and the whole of it.
Gone == [proj |-> -1, full |-> -1]
Contents == {Gone} \cup [proj : 0 .. MaxEdits, full : 0 .. MaxEdits]

\* A wire maps the items it names to their content, Gone for a removal.
NoWire == <<>>
Flush == [kind |-> "flush", wire |-> NoWire]
Apply(w) == [kind |-> "apply", wire |-> w]

Init == /\ model = [e \in Editors |-> [i \in Items |-> [proj |-> 0, full |-> 0]]]
        /\ baseline = [e \in Editors |-> [i \in Items |-> 0]]
        /\ dirty = [e \in Editors |-> {}]
        /\ flushScheduled = [e \in Editors |-> FALSE]
        /\ fibers = [e \in Editors |-> <<>>]
        /\ applying = [e \in Editors |-> NoWire]
        /\ doc = [e \in Editors |->
                    [i \in Items |-> [stamp |-> <<>>, val |-> model[e][i]]]]
        /\ channel = [e \in Editors |-> [f \in Editors |-> <<>>]]
        /\ edits = 0

-----------------------------------------------------------------------------
(***************************************************************************)
(* A Y.Map entry.  Each write goes to the right of the entry its author    *)
(* saw, so a stamp is the chain of authors; a longer chain wins over its   *)
(* prefix, concurrent chains are ordered by client id.  A deletion marks   *)
(* the entry it saw and loses to any concurrent write.                     *)
(***************************************************************************)
Later(s, t) ==
  \/ Len(s) > Len(t) /\ SubSeq(s, 1, Len(t)) = t
  \/ \E k \in DOMAIN s \cap DOMAIN t :
        s[k] > t[k] /\ SubSeq(s, 1, k - 1) = SubSeq(t, 1, k - 1)

\* Mutant: whatever arrives last wins.
MergeByArrival(r, u) == u

Merge(r, u) ==
  CASE Later(u.stamp, r.stamp) -> u
    [] u.stamp = r.stamp /\ u.val = Gone -> u
    [] OTHER -> r

Write(r, e, v) ==
  [stamp |-> IF v = Gone THEN r.stamp ELSE Append(r.stamp, e), val |-> v]

\* Mutant: the provider also hands the update back to its author.
PublishToAll(e, update) ==
  channel' = [channel EXCEPT ![e] = [f \in Editors |-> Append(@[f], update)]]

\* Broadcast an update of e's replica to every other replica.
Publish(e, update) ==
  channel' = [channel EXCEPT ![e] =
                [f \in Editors |-> IF f = e THEN @[f] ELSE Append(@[f], update)]]

-----------------------------------------------------------------------------
\* Mutant: g_flushScheduled is not consulted.
ScheduleAlways(e, q) ==
  /\ flushScheduled' = [flushScheduled EXCEPT ![e] = TRUE]
  /\ fibers' = [fibers EXCEPT ![e] = Append(q, Flush)]

\* scheduleFlush, with the queue q of editor e as it stands at the call.
ScheduleFlush(e, q) ==
  /\ flushScheduled' = [flushScheduled EXCEPT ![e] = TRUE]
  /\ fibers' = [fibers EXCEPT ![e] =
                  IF flushScheduled[e] THEN q ELSE Append(q, Flush)]

\* What a commit of the n-th edit, of a kind, can make of content v.
EditResults(v, n, kind) ==
  IF kind = "visible" THEN {[proj |-> n, full |-> n], Gone} \ {v}
                      ELSE {[proj |-> v.proj, full |-> n]}

\* A native edit commits; COLLAB_LISTENER::trigger ignores it during an apply.
LocalEdit(e, i) ==
  /\ edits < MaxEdits
  /\ e \in Owners[i]
  /\ edits' = edits + 1
  /\ \E kind \in IF applying[e] = NoWire THEN EditKinds ELSE ParkEdits :
        /\ kind = "hidden" => model[e][i] # Gone
        /\ \E v \in EditResults(model[e][i], edits + 1, kind) :
              model' = [model EXCEPT ![e][i] = v]
  /\ IF applying[e] = NoWire
       THEN /\ dirty' = [dirty EXCEPT ![e] = @ \cup {i}]
            /\ ScheduleFlush(e, fibers[e])
       ELSE UNCHANGED <<dirty, flushScheduled, fibers>>
  /\ UNCHANGED <<baseline, applying, doc, channel>>

NextBody(e) == applying[e] = NoWire /\ fibers[e] # <<>>

\* Mutant: bug 04, only the scalar diff is broadcast.
ScalarFlushSet(e) == {i \in Items : model[e][i].proj # baseline[e][i]}

\* The items a flush broadcasts: the scalar diff and the live dirty roots.
FlushSet(e) ==
  {i \in Items : model[e][i].proj # baseline[e][i]}
    \cup {i \in dirty[e] : model[e][i] # Gone}

\* Mutant: g_flushScheduled stays set, later edits find a flush "pending".
DoFlushSticky(e) ==
  LET sent == FlushSet(e)
      written == {i \in sent : model[e][i] # doc[e][i].val}
      update == [i \in written |-> Write(doc[e][i], e, model[e][i])]
  IN /\ NextBody(e)
     /\ Head(fibers[e]) = Flush
     /\ fibers' = [fibers EXCEPT ![e] = Tail(@)]
     /\ dirty' = [dirty EXCEPT ![e] = {}]
     /\ baseline' = [baseline EXCEPT ![e] = [i \in Items |-> model[e][i].proj]]
     /\ doc' = [doc EXCEPT ![e] =
                  [i \in Items |-> IF i \in written THEN update[i] ELSE @[i]]]
     /\ IF written = {} THEN UNCHANGED channel ELSE Publish(e, update)
     /\ UNCHANGED <<model, flushScheduled, applying, edits>>

(***************************************************************************)
(* flushDiff and, in the same call, the DOWN hook of the binding: the wire *)
(* is diffed against the replica and what differs is written to it in one  *)
(* transaction that the provider broadcasts.                               *)
(***************************************************************************)
DoFlush(e) ==
  LET sent == FlushSet(e)
      written == {i \in sent : model[e][i] # doc[e][i].val}
      update == [i \in written |-> Write(doc[e][i], e, model[e][i])]
  IN /\ NextBody(e)
     /\ Head(fibers[e]) = Flush
     /\ fibers' = [fibers EXCEPT ![e] = Tail(@)]
     /\ flushScheduled' = [flushScheduled EXCEPT ![e] = FALSE]
     /\ dirty' = [dirty EXCEPT ![e] = {}]
     /\ baseline' = [baseline EXCEPT ![e] = [i \in Items |-> model[e][i].proj]]
     /\ doc' = [doc EXCEPT ![e] =
                  [i \in Items |-> IF i \in written THEN update[i] ELSE @[i]]]
     /\ IF written = {} THEN UNCHANGED channel ELSE Publish(e, update)
     /\ UNCHANGED <<model, applying, edits>>

\* Mutant: s_applyingRemote is not set, the listener takes the apply for an edit.
ApplyBeginNoticed(e) ==
  /\ NextBody(e)
  /\ Head(fibers[e]).kind = "apply"
  /\ LET w == Head(fibers[e]).wire
     IN /\ model' = [model EXCEPT ![e] =
                       [i \in Items |-> IF i \in DOMAIN w THEN w[i] ELSE @[i]]]
        /\ applying' = [applying EXCEPT ![e] = w]
        /\ dirty' = [dirty EXCEPT ![e] = @ \cup DOMAIN w]
  /\ ScheduleFlush(e, Tail(fibers[e]))
  /\ UNCHANGED <<baseline, doc, channel, edits>>

\* doApplyItems up to commit.Push: the wire's items are replaced or removed.
ApplyBegin(e) ==
  /\ NextBody(e)
  /\ Head(fibers[e]).kind = "apply"
  /\ LET w == Head(fibers[e]).wire
     IN /\ model' = [model EXCEPT ![e] =
                       [i \in Items |-> IF i \in DOMAIN w THEN w[i] ELSE @[i]]]
        /\ applying' = [applying EXCEPT ![e] = w]
  /\ fibers' = [fibers EXCEPT ![e] = Tail(@)]
  /\ UNCHANGED <<baseline, dirty, flushScheduled, doc, channel, edits>>

\* Mutant: bug 05, the whole board is folded into the baseline.
RebaselinedWhole(e) == [i \in Items |-> model[e][i].proj]

\* Mutant: an applied item is left to the flush to broadcast.
RebaselinedNot(e) == baseline[e]

\* rebaselineTouched: only the applied items are folded into the baseline.
Rebaselined(e) ==
  [i \in Items |-> IF i \in DOMAIN applying[e] THEN model[e][i].proj
                                               ELSE baseline[e][i]]

\* Mutant: no flush follows the apply.
ApplyEndSilent(e) ==
  /\ applying[e] # NoWire
  /\ baseline' = [baseline EXCEPT ![e] = Rebaselined(e)]
  /\ applying' = [applying EXCEPT ![e] = NoWire]
  /\ UNCHANGED <<model, dirty, flushScheduled, fibers, doc, channel, edits>>

\* The rest of doApplyItems, once Push returned.
ApplyEnd(e) ==
  /\ applying[e] # NoWire
  /\ baseline' = [baseline EXCEPT ![e] = Rebaselined(e)]
  /\ applying' = [applying EXCEPT ![e] = NoWire]
  /\ ScheduleFlush(e, fibers[e])
  /\ UNCHANGED <<model, dirty, doc, channel, edits>>

(***************************************************************************)
(* A remote update reaches e's replica; observeDeep hands the items whose  *)
(* entry changed to the editor as one apply body.                          *)
(***************************************************************************)
Receive(e, f) ==
  /\ channel[f][e] # <<>>
  /\ LET u == Head(channel[f][e])
         merged == [i \in Items |-> IF i \in DOMAIN u THEN Merge(doc[e][i], u[i])
                                                      ELSE doc[e][i]]
         changed == {i \in Items : merged[i] # doc[e][i]}
     IN /\ doc' = [doc EXCEPT ![e] = merged]
        /\ fibers' =
             IF changed = {} THEN fibers
             ELSE [fibers EXCEPT ![e] =
                     Append(@, Apply([i \in changed |-> merged[i].val]))]
  /\ channel' = [channel EXCEPT ![f][e] = Tail(@)]
  /\ UNCHANGED <<model, baseline, dirty, flushScheduled, applying, edits>>

FiberStep(e) == DoFlush(e) \/ ApplyBegin(e) \/ ApplyEnd(e)

Next == \/ \E e \in Editors, i \in Items : LocalEdit(e, i)
        \/ \E e \in Editors : FiberStep(e)
        \/ \E e, f \in Editors : Receive(e, f)

\* Frames keep draining the fiber queue and the network delivers; users may stop.
Fairness == /\ \A e \in Editors : WF_vars(FiberStep(e))
            /\ \A e, f \in Editors : WF_vars(Receive(e, f))

Spec == Init /\ [][Next]_vars
FairSpec == Spec /\ Fairness

-----------------------------------------------------------------------------
IsWire(w) == \E D \in SUBSET Items : w \in [D -> Contents]

TypeOK ==
  /\ model \in [Editors -> [Items -> Contents]]
  /\ baseline \in [Editors -> [Items -> -1 .. MaxEdits]]
  /\ dirty \in [Editors -> SUBSET Items]
  /\ flushScheduled \in [Editors -> BOOLEAN]
  /\ \A e \in Editors :
        /\ applying[e] = NoWire \/ IsWire(applying[e])
        /\ \A k \in DOMAIN fibers[e] :
             LET body == fibers[e][k]
             IN body = Flush \/ (body.kind = "apply" /\ IsWire(body.wire))
        /\ \A i \in Items : doc[e][i].val \in Contents
        /\ channel[e][e] = <<>>
  /\ edits \in 0 .. MaxEdits

Idle(e) == fibers[e] = <<>> /\ applying[e] = NoWire
Quiescent == /\ \A e \in Editors : Idle(e)
             /\ \A e, f \in Editors : channel[e][f] = <<>>

(***************************************************************************)
(* A flush is scheduled exactly when one sits in the fiber queue, so no    *)
(* edit waits for a flush that never comes and none is broadcast twice.    *)
(***************************************************************************)
OneFlushPending ==
  \A e \in Editors :
     LET flushes == {k \in DOMAIN fibers[e] : fibers[e][k] = Flush}
     IN IF flushScheduled[e] THEN \E k \in flushes : flushes = {k}
                             ELSE flushes = {}

(***************************************************************************)
(* Editors that have nothing left to do show what every replica holds:     *)
(* nothing was swallowed by a baseline, echoed or applied out of order.    *)
(***************************************************************************)
Converged ==
  Quiescent => \A e, f \in Editors, i \in Items : model[e][i] = doc[f][i].val

\* The same of the items that one user keeps to: no edit of them can race.
OwnItemsConverge ==
  Quiescent => \A e, f \in Editors, i \in Items :
                  (\E g \in Editors : Owners[i] = {g}) => model[e][i] = doc[f][i].val

(***************************************************************************)
(* The edit of an item that only this user edits is in the replica as soon *)
(* as the editor's own queue is empty: a concurrent apply neither swallows *)
(* nor reverts it.                                                         *)
(***************************************************************************)
LocalEditsPublished ==
  \A e \in Editors, i \in Items :
     Owners[i] = {e} /\ Idle(e) => doc[e][i].val = model[e][i]

\* Once nothing is in flight all replicas agree, whoever edited what.
ReplicasAgree ==
  Quiescent => \A e, f \in Editors : doc[e] = doc[f]

(***************************************************************************)
(* An editor never writes an item its user did not edit: applying a peer's *)
(* change is not mistaken for a local one.                                 *)
(***************************************************************************)
NoEcho ==
  [][\A e, f \in Editors :
        Len(channel'[e][f]) > Len(channel[e][f]) =>
          LET update == channel'[e][f][Len(channel'[e][f])]
          IN \A i \in DOMAIN update : e \in Owners[i]]_vars

(***************************************************************************)
(* Every entry a replica holds costs a local edit: applies and the flushes *)
(* after them never start an exchange of their own.                        *)
(***************************************************************************)
WritesBounded ==
  \A e \in Editors, i \in Items : Len(doc[e][i].stamp) <= edits

\* An edit the listener saw is eventually broadcast.
EditsAreFlushed == \A e \in Editors : (dirty[e] # {}) ~> (dirty[e] = {})
=============================================================================
