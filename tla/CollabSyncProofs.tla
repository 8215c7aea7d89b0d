-------------------------- MODULE CollabSyncProofs --------------------------
(***************************************************************************)
(* The exchange of changes, for any set of editors, items and owners and   *)
(* any number of edits: no editor echoes what it applied, each item's own  *)
(* user gets every edit published, and all editors end with it.            *)
(***************************************************************************)
EXTENDS CollabSync, SequenceTheorems, TLAPS

-----------------------------------------------------------------------------
(* The inductive invariant.                                                *)

Wires == UNION {[D -> Contents] : D \in SUBSET Items}
Bodies == {Flush} \cup [kind : {"apply"}, wire : Wires]
Entries == [stamp : Seq(Editors), val : Contents]
Updates == UNION {[D -> Entries] : D \in SUBSET Items}

TypeInv ==
  /\ model \in [Editors -> [Items -> Contents]]
  /\ baseline \in [Editors -> [Items -> -1 .. MaxEdits]]
  /\ dirty \in [Editors -> SUBSET Items]
  /\ flushScheduled \in [Editors -> BOOLEAN]
  /\ fibers \in [Editors -> Seq(Bodies)]
  /\ applying \in [Editors -> {NoWire} \cup Wires]
  /\ doc \in [Editors -> [Items -> Entries]]
  /\ channel \in [Editors -> [Editors -> Seq(Updates)]]
  /\ \A e \in Editors : channel[e][e] = <<>>
  /\ edits \in 0 .. MaxEdits

Owned(e) == {i \in Items : e \in Owners[i]}

\* What an editor would flush, or has broadcast, is of items its user edits.
EchoInv ==
  /\ \A e \in Editors : dirty[e] \subseteq Owned(e)
  /\ \A e \in Editors, i \in Items :
        e \notin Owners[i] /\ i \notin DOMAIN applying[e] =>
          model[e][i].proj = baseline[e][i]
  /\ \A e, f \in Editors : \A k \in DOMAIN channel[e][f] :
        DOMAIN channel[e][f][k] \subseteq Owned(e)

\* An item that only one user edits is never in a wire queued for that user, so
\* the baseline is what the replica holds, and a difference will be flushed.
Private(e, i) ==
  /\ i \notin DOMAIN applying[e]
  /\ \A k \in DOMAIN fibers[e] : i \notin DOMAIN fibers[e][k].wire
  /\ baseline[e][i] = doc[e][i].val.proj
  /\ model[e][i].proj <= edits /\ doc[e][i].val.proj <= edits
  /\ model[e][i] # doc[e][i].val =>
       /\ model[e][i].proj # baseline[e][i] \/ i \in dirty[e]
       /\ flushScheduled[e] \/ applying[e] # NoWire

PublishInv == \A e \in Editors, i \in Items : Owners[i] = {e} => Private(e, i)

\* The entries of one author are ordered by their stamps, and a deletion comes
\* after the entry it deletes.
Newer(u, r) == \/ Len(u.stamp) > Len(r.stamp)
               \/ Len(u.stamp) = Len(r.stamp) /\ u.val = Gone /\ r.val # Gone

\* Once all of q has been taken, in order, i is left at last instead of first.
LeadsTo(q, i, first, last) ==
  /\ (\A k \in DOMAIN q : i \notin DOMAIN q[k]) => first = last
  /\ \A k \in DOMAIN q :
       i \in DOMAIN q[k] /\ (\A j \in DOMAIN q : j > k => i \notin DOMAIN q[j])
         => q[k][i] = last

\* The versions of i on their way in q come in order, after r and up to u.
Ordered(q, i, r, u) ==
  /\ r = u \/ Newer(u, r)
  /\ \A k \in DOMAIN q : i \in DOMAIN q[k] =>
       /\ Newer(q[k][i], r)
       /\ q[k][i] = u \/ Newer(u, q[k][i])
       /\ \A j \in DOMAIN q : j < k /\ i \in DOMAIN q[j] => Newer(q[k][i], q[j][i])

WiresOf(q) == [k \in DOMAIN q |-> q[k].wire]

\* Only g writes i: who holds r of it will, after taking q, hold g's u.
Tracked(g, q, i, r, u) ==
  /\ r.stamp \in Seq({g}) /\ u.stamp \in Seq({g})
  /\ \A k \in DOMAIN q : i \in DOMAIN q[k] => q[k][i].stamp \in Seq({g})
  /\ Ordered(q, i, r, u)
  /\ LeadsTo(q, i, r, u)

\* f will hold what the only user g of i wrote last, and show what it holds.
Followed(g, f, i) ==
  /\ Tracked(g, channel[g][f], i, doc[f][i], doc[g][i])
  /\ LeadsTo(WiresOf(fibers[f]), i, model[f][i], doc[f][i].val)

FollowInv == \A g \in Editors, i \in Items : Owners[i] = {g} =>
               \A f \in Editors \ {g} : Followed(g, f, i)

-----------------------------------------------------------------------------
(* Types.                                                                  *)

LEMMA ContentFacts ==
  /\ Gone \in Contents /\ Gone.proj = -1
  /\ \A v \in Contents : /\ v.proj \in -1 .. MaxEdits
                         /\ v.proj = -1 => v = Gone
                         /\ v # Gone => v \in [proj : 0 .. MaxEdits, full : 0 .. MaxEdits]
  /\ \A p, n \in 0 .. MaxEdits : /\ [proj |-> p, full |-> n] \in Contents
                                 /\ [proj |-> p, full |-> n].proj = p
<1>1. Gone \in Contents /\ Gone.proj = -1
  BY DEF Gone, Contents
<1>2. ASSUME NEW v \in Contents
      PROVE  /\ v.proj \in -1 .. MaxEdits
             /\ v.proj = -1 => v = Gone
             /\ v # Gone => v \in [proj : 0 .. MaxEdits, full : 0 .. MaxEdits]
  <2>1. CASE v = Gone
    BY <2>1, BoundsAssumption DEF Gone
  <2>2. CASE v \in [proj : 0 .. MaxEdits, full : 0 .. MaxEdits]
    BY <2>2, BoundsAssumption
  <2> QED BY <2>1, <2>2 DEF Contents
<1>3. \A p, n \in 0 .. MaxEdits : /\ [proj |-> p, full |-> n] \in Contents
                                  /\ [proj |-> p, full |-> n].proj = p
  BY DEF Contents
<1> QED BY <1>1, <1>2, <1>3

LEMMA WireFacts ==
  /\ DOMAIN NoWire = {}
  /\ \A w \in Wires : DOMAIN w \subseteq Items /\ \A i \in DOMAIN w : w[i] \in Contents
  /\ \A D \in SUBSET Items : \A w \in [D -> Contents] : w \in Wires
  /\ \A u \in Updates : DOMAIN u \subseteq Items /\ \A i \in DOMAIN u : u[i] \in Entries
  /\ \A D \in SUBSET Items : \A u \in [D -> Entries] : u \in Updates
<1>1. DOMAIN NoWire = {}
  BY DEF NoWire
<1>2. \A w \in Wires : DOMAIN w \subseteq Items /\ \A i \in DOMAIN w : w[i] \in Contents
  BY DEF Wires
<1>3. \A D \in SUBSET Items : \A w \in [D -> Contents] : w \in Wires
  BY DEF Wires
<1>4. \A u \in Updates : DOMAIN u \subseteq Items /\ \A i \in DOMAIN u : u[i] \in Entries
  BY DEF Updates
<1>5. \A D \in SUBSET Items : \A u \in [D -> Entries] : u \in Updates
  BY DEF Updates
<1> QED BY <1>1, <1>2, <1>3, <1>4, <1>5

LEMMA BodyFacts ==
  /\ Flush \in Bodies /\ Flush.wire = NoWire /\ Flush.kind = "flush"
  /\ \A w \in Wires : Apply(w) \in Bodies /\ Apply(w).wire = w /\ Apply(w) # Flush
  /\ \A b \in Bodies : /\ b.wire \in {NoWire} \cup Wires
                       /\ b.kind = "apply" => b.wire \in Wires
                       /\ b = Flush \/ b.kind = "apply"
BY DEF Bodies, Flush, Apply

\* scheduleFlush adds a flush to the queue unless one is scheduled.
LEMMA Scheduled ==
  ASSUME TypeInv, NEW e \in Editors, NEW q \in Seq(Bodies), ScheduleFlush(e, q)
  PROVE  /\ fibers' \in [Editors -> Seq(Bodies)]
         /\ flushScheduled' \in [Editors -> BOOLEAN]
         /\ flushScheduled'[e]
         /\ fibers'[e] = IF flushScheduled[e] THEN q ELSE Append(q, Flush)
         /\ \A f \in Editors : f # e => /\ fibers'[f] = fibers[f]
                                        /\ flushScheduled'[f] = flushScheduled[f]
<1>1. Append(q, Flush) \in Seq(Bodies)
  BY BodyFacts
<1> QED BY <1>1 DEF TypeInv, ScheduleFlush

LEMMA PublishedChannels ==
  ASSUME TypeInv, NEW e \in Editors, NEW u \in Updates, Publish(e, u)
  PROVE  /\ channel' \in [Editors -> [Editors -> Seq(Updates)]]
         /\ \A f \in Editors : f # e => channel'[e][f] = Append(channel[e][f], u)
         /\ channel'[e][e] = channel[e][e]
         /\ \A d \in Editors : d # e => channel'[d] = channel[d]
<1> DEFINE row == [f \in Editors |-> IF f = e THEN channel[e][f] ELSE Append(channel[e][f], u)]
<1>1. channel[e] \in [Editors -> Seq(Updates)]
  BY DEF TypeInv
<1>2. \A f \in Editors : Append(channel[e][f], u) \in Seq(Updates)
  BY <1>1
<1>3. row \in [Editors -> Seq(Updates)]
  BY <1>1, <1>2
<1>4. channel' = [channel EXCEPT ![e] = row]
  BY DEF Publish
<1>5. channel'[e] = row /\ \A d \in Editors : d # e => channel'[d] = channel[d]
  BY <1>4 DEF TypeInv
<1> HIDE DEF row
<1>6. channel' \in [Editors -> [Editors -> Seq(Updates)]]
  BY <1>3, <1>4 DEF TypeInv
<1> QED BY <1>5, <1>6 DEF row

LEMMA TakenChannels ==
  ASSUME TypeInv, NEW e \in Editors, NEW f \in Editors, channel[f][e] # <<>>,
         channel' = [channel EXCEPT ![f][e] = Tail(@)]
  PROVE  /\ channel' \in [Editors -> [Editors -> Seq(Updates)]]
         /\ channel'[f][e] = Tail(channel[f][e])
         /\ Head(channel[f][e]) \in Updates
         /\ \A d, g \in Editors : d # f \/ g # e => channel'[d][g] = channel[d][g]
         /\ e # f
<1>1. channel[f][e] \in Seq(Updates) /\ channel[f] \in [Editors -> Seq(Updates)]
  BY DEF TypeInv
<1>2. Tail(channel[f][e]) \in Seq(Updates) /\ Head(channel[f][e]) \in Updates
  BY <1>1
<1> DEFINE row == [channel[f] EXCEPT ![e] = Tail(channel[f][e])]
<1>3. row \in [Editors -> Seq(Updates)] /\ row[e] = Tail(channel[f][e])
      /\ \A g \in Editors : g # e => row[g] = channel[f][g]
  BY <1>1, <1>2
<1>4. channel' = [channel EXCEPT ![f] = row]
  OBVIOUS
<1> HIDE DEF row
<1>5. channel' \in [Editors -> [Editors -> Seq(Updates)]] /\ channel'[f] = row
      /\ \A d \in Editors : d # f => channel'[d] = channel[d]
  BY <1>3, <1>4 DEF TypeInv
<1> QED BY <1>2, <1>3, <1>5 DEF TypeInv

-----------------------------------------------------------------------------
(* The actions, field by field.                                            *)

\* An action of editor e leaves the others alone.
OthersSame(e) == \A f \in Editors : f # e =>
  /\ model'[f] = model[f] /\ baseline'[f] = baseline[f] /\ dirty'[f] = dirty[f]
  /\ flushScheduled'[f] = flushScheduled[f] /\ fibers'[f] = fibers[f]
  /\ applying'[f] = applying[f] /\ doc'[f] = doc[f]

Written(e) == {i \in FlushSet(e) : model[e][i] # doc[e][i].val}
Update(e) == [i \in Written(e) |-> Write(doc[e][i], e, model[e][i])]

LEMMA InitTyped == Init => TypeInv
<1> SUFFICES ASSUME Init PROVE TypeInv
  OBVIOUS
<1>1. [proj |-> 0, full |-> 0] \in Contents /\ 0 \in -1 .. MaxEdits /\ 0 \in 0 .. MaxEdits
  BY ContentFacts, BoundsAssumption
<1>2. model \in [Editors -> [Items -> Contents]]
  BY <1>1 DEF Init
<1>3. \A e \in Editors, i \in Items : [stamp |-> <<>>, val |-> model[e][i]] \in Entries
  BY <1>2 DEF Entries
<1>4. doc \in [Editors -> [Items -> Entries]]
  BY <1>3 DEF Init
<1>5. fibers \in [Editors -> Seq(Bodies)] /\ applying \in [Editors -> {NoWire} \cup Wires]
  BY DEF Init
<1>6. channel \in [Editors -> [Editors -> Seq(Updates)]] /\ \A e \in Editors : channel[e][e] = <<>>
  BY DEF Init
<1>7. /\ baseline \in [Editors -> [Items -> -1 .. MaxEdits]]
      /\ dirty \in [Editors -> SUBSET Items]
      /\ flushScheduled \in [Editors -> BOOLEAN]
      /\ edits \in 0 .. MaxEdits
  BY <1>1 DEF Init
<1> QED BY <1>2, <1>4, <1>5, <1>6, <1>7 DEF TypeInv

LEMMA EditStep ==
  ASSUME TypeInv, NEW e \in Editors, NEW i \in Items, LocalEdit(e, i)
  PROVE  /\ TypeInv'
         /\ OthersSame(e)
         /\ e \in Owners[i] /\ edits' = edits + 1
         /\ UNCHANGED <<baseline, applying, doc, channel>>
         /\ \A j \in Items : j # i => model'[e][j] = model[e][j]
         /\ applying[e] = NoWire =>
              /\ dirty'[e] = dirty[e] \cup {i}
              /\ flushScheduled'[e]
              /\ fibers'[e] = IF flushScheduled[e] THEN fibers[e] ELSE Append(fibers[e], Flush)
         /\ applying[e] # NoWire => UNCHANGED <<dirty, flushScheduled, fibers>>
         /\ \E kind \in IF applying[e] = NoWire THEN EditKinds ELSE ParkEdits :
              /\ kind = "hidden" => model'[e][i].proj = model[e][i].proj /\ model[e][i] # Gone
              /\ kind = "visible" => model'[e][i] # model[e][i]
              /\ kind = "visible" => model'[e][i] = Gone \/ model'[e][i].proj = edits + 1
<1>1. PICK kind \in IF applying[e] = NoWire THEN EditKinds ELSE ParkEdits :
        /\ kind = "hidden" => model[e][i] # Gone
        /\ \E v \in EditResults(model[e][i], edits + 1, kind) :
              model' = [model EXCEPT ![e][i] = v]
  BY DEF LocalEdit
<1>2. PICK v \in EditResults(model[e][i], edits + 1, kind) : model' = [model EXCEPT ![e][i] = v]
  BY <1>1
<1>3. edits + 1 \in 0 .. MaxEdits /\ edits' = edits + 1 /\ kind \in EditKinds
  BY BoundsAssumption DEF LocalEdit, TypeInv
<1>4. model[e] \in [Items -> Contents] /\ model[e][i] \in Contents
  BY DEF TypeInv
<1>5. v \in Contents
  <2>1. CASE kind = "visible"
    <3>1. [proj |-> edits + 1, full |-> edits + 1] \in Contents
      BY <1>3, ContentFacts
    <3> QED BY <2>1, <3>1, ContentFacts DEF EditResults
  <2>2. CASE kind = "hidden"
    <3>1. model[e][i].proj \in 0 .. MaxEdits
      BY <1>1, <1>4, <2>2, ContentFacts
    <3>2. v = [proj |-> model[e][i].proj, full |-> edits + 1]
      BY <2>2 DEF EditResults
    <3> QED BY <3>1, <3>2, <1>3, ContentFacts
  <2> QED BY <1>3, <2>1, <2>2 DEF EditKinds
<1>6. /\ kind = "hidden" => v.proj = model[e][i].proj /\ model[e][i] # Gone
      /\ kind = "visible" => v # model[e][i] /\ (v = Gone \/ v.proj = edits + 1)
  BY <1>1 DEF EditResults
<1>7. /\ model' \in [Editors -> [Items -> Contents]]
      /\ model'[e][i] = v
      /\ \A j \in Items : j # i => model'[e][j] = model[e][j]
      /\ \A f \in Editors : f # e => model'[f] = model[f]
  BY <1>2, <1>5 DEF TypeInv
<1>8. /\ dirty' \in [Editors -> SUBSET Items]
      /\ flushScheduled' \in [Editors -> BOOLEAN]
      /\ fibers' \in [Editors -> Seq(Bodies)]
      /\ applying[e] = NoWire =>
              /\ dirty'[e] = dirty[e] \cup {i}
              /\ flushScheduled'[e]
              /\ fibers'[e] = IF flushScheduled[e] THEN fibers[e] ELSE Append(fibers[e], Flush)
      /\ applying[e] # NoWire => UNCHANGED <<dirty, flushScheduled, fibers>>
      /\ \A f \in Editors : f # e => /\ dirty'[f] = dirty[f]
                                    /\ fibers'[f] = fibers[f]
                                    /\ flushScheduled'[f] = flushScheduled[f]
  <2>1. CASE applying[e] = NoWire
    <3>1. ScheduleFlush(e, fibers[e]) /\ dirty' = [dirty EXCEPT ![e] = @ \cup {i}]
      BY <2>1 DEF LocalEdit
    <3>2. fibers[e] \in Seq(Bodies)
      BY DEF TypeInv
    <3> QED BY <2>1, <3>1, <3>2, Scheduled DEF TypeInv
  <2>2. CASE applying[e] # NoWire
    BY <2>2 DEF LocalEdit, TypeInv
  <2> QED BY <2>1, <2>2
<1>9. UNCHANGED <<baseline, applying, doc, channel>> /\ e \in Owners[i]
  BY DEF LocalEdit
<1>10. TypeInv'
  BY <1>3, <1>7, <1>8, <1>9 DEF TypeInv
<1>11. OthersSame(e)
  BY <1>7, <1>8, <1>9 DEF OthersSame
<1> QED BY <1>1, <1>3, <1>6, <1>7, <1>8, <1>9, <1>10, <1>11

LEMMA FlushStep ==
  ASSUME TypeInv, NEW e \in Editors, DoFlush(e)
  PROVE  /\ TypeInv'
         /\ OthersSame(e)
         /\ applying[e] = NoWire /\ fibers[e] # <<>> /\ Head(fibers[e]) = Flush
         /\ fibers'[e] = Tail(fibers[e]) /\ ~ flushScheduled'[e] /\ dirty'[e] = {}
         /\ UNCHANGED <<model, applying, edits>>
         /\ \A i \in Items : baseline'[e][i] = model[e][i].proj
         /\ \A i \in Items :
              doc'[e][i] = IF i \in Written(e) THEN Update(e)[i] ELSE doc[e][i]
         /\ Update(e) \in Updates /\ DOMAIN Update(e) = Written(e)
         /\ \A i \in Written(e) : Update(e)[i] = Write(doc[e][i], e, model[e][i])
         /\ \A d, f \in Editors : channel'[d][f] =
              IF d = e /\ f # e /\ Written(e) # {} THEN Append(channel[e][f], Update(e))
                                                 ELSE channel[d][f]
<1>1. Written(e) \subseteq Items
  BY DEF Written, FlushSet, TypeInv
<1>2. \A i \in Items : Write(doc[e][i], e, model[e][i]) \in Entries
  <2> TAKE i \in Items
  <2>1. doc[e][i] \in Entries /\ model[e][i] \in Contents
    BY DEF TypeInv
  <2>2. doc[e][i].stamp \in Seq(Editors) /\ Append(doc[e][i].stamp, e) \in Seq(Editors)
    BY <2>1 DEF Entries
  <2> QED BY <2>1, <2>2 DEF Write, Entries
<1>3. Update(e) \in [Written(e) -> Entries]
  BY <1>1, <1>2 DEF Update
<1>4. /\ Update(e) \in Updates /\ DOMAIN Update(e) = Written(e)
      /\ \A i \in Written(e) : Update(e)[i] = Write(doc[e][i], e, model[e][i])
  BY <1>1, <1>3, WireFacts DEF Update
<1>5. /\ applying[e] = NoWire /\ fibers[e] # <<>> /\ Head(fibers[e]) = Flush
      /\ fibers' = [fibers EXCEPT ![e] = Tail(fibers[e])]
      /\ flushScheduled' = [flushScheduled EXCEPT ![e] = FALSE]
      /\ dirty' = [dirty EXCEPT ![e] = {}]
      /\ baseline' = [baseline EXCEPT ![e] = [i \in Items |-> model[e][i].proj]]
      /\ doc' = [doc EXCEPT ![e] = [i \in Items |->
                   IF i \in Written(e) THEN Update(e)[i] ELSE doc[e][i]]]
      /\ IF Written(e) = {} THEN UNCHANGED channel ELSE Publish(e, Update(e))
      /\ UNCHANGED <<model, applying, edits>>
  BY DEF DoFlush, NextBody, Written, Update
<1>6. fibers[e] \in Seq(Bodies) /\ Tail(fibers[e]) \in Seq(Bodies)
  BY <1>5 DEF TypeInv
<1>7. [i \in Items |-> model[e][i].proj] \in [Items -> -1 .. MaxEdits]
  BY ContentFacts DEF TypeInv
<1>8. [i \in Items |-> IF i \in Written(e) THEN Update(e)[i] ELSE doc[e][i]] \in [Items -> Entries]
  BY <1>3 DEF TypeInv
<1>9. /\ channel' \in [Editors -> [Editors -> Seq(Updates)]]
      /\ \A d, f \in Editors : channel'[d][f] =
              IF d = e /\ f # e /\ Written(e) # {} THEN Append(channel[e][f], Update(e))
                                                 ELSE channel[d][f]
  <2>1. CASE Written(e) = {}
    BY <2>1, <1>5 DEF TypeInv
  <2>2. CASE Written(e) # {}
    <3>1. Publish(e, Update(e)) /\ Update(e) \in Updates
      BY <2>2, <1>4, <1>5
    <3>2. /\ channel' \in [Editors -> [Editors -> Seq(Updates)]]
          /\ \A f \in Editors : f # e => channel'[e][f] = Append(channel[e][f], Update(e))
          /\ channel'[e][e] = channel[e][e]
          /\ \A d \in Editors : d # e => channel'[d] = channel[d]
      BY <3>1, PublishedChannels
    <3>3. \A d, f \in Editors : d # e => channel'[d][f] = channel[d][f]
      BY <3>2
    <3> QED BY <2>2, <3>2, <3>3
  <2> QED BY <2>1, <2>2
<1>10. TypeInv'
  <2>1. /\ fibers' \in [Editors -> Seq(Bodies)]
        /\ flushScheduled' \in [Editors -> BOOLEAN]
        /\ dirty' \in [Editors -> SUBSET Items]
    BY <1>5, <1>6 DEF TypeInv
  <2>2. baseline' \in [Editors -> [Items -> -1 .. MaxEdits]]
    BY <1>5, <1>7 DEF TypeInv
  <2>3. doc' \in [Editors -> [Items -> Entries]]
    BY <1>5, <1>8 DEF TypeInv
  <2>4. \A f \in Editors : channel'[f][f] = <<>>
    BY <1>9 DEF TypeInv
  <2> QED BY <2>1, <2>2, <2>3, <2>4, <1>5, <1>9 DEF TypeInv
<1>11. OthersSame(e)
  BY <1>5 DEF OthersSame, TypeInv
<1>12. /\ fibers'[e] = Tail(fibers[e]) /\ ~ flushScheduled'[e] /\ dirty'[e] = {}
       /\ \A i \in Items : baseline'[e][i] = model[e][i].proj
       /\ \A i \in Items : doc'[e][i] = IF i \in Written(e) THEN Update(e)[i] ELSE doc[e][i]
  BY <1>5 DEF TypeInv
<1> QED BY <1>4, <1>5, <1>9, <1>10, <1>11, <1>12

LEMMA BeginStep ==
  ASSUME TypeInv, NEW e \in Editors, ApplyBegin(e)
  PROVE  /\ TypeInv'
         /\ OthersSame(e)
         /\ applying[e] = NoWire /\ fibers[e] # <<>> /\ fibers[e] \in Seq(Bodies)
         /\ Head(fibers[e]).kind = "apply" /\ Head(fibers[e]).wire \in Wires
         /\ applying'[e] = Head(fibers[e]).wire
         /\ \A i \in Items : model'[e][i] =
              IF i \in DOMAIN Head(fibers[e]).wire THEN Head(fibers[e]).wire[i] ELSE model[e][i]
         /\ fibers'[e] = Tail(fibers[e])
         /\ UNCHANGED <<baseline, dirty, flushScheduled, doc, channel, edits>>
<1> DEFINE w == Head(fibers[e]).wire
<1>1. /\ applying[e] = NoWire /\ fibers[e] # <<>> /\ Head(fibers[e]).kind = "apply"
      /\ model' = [model EXCEPT ![e] = [i \in Items |-> IF i \in DOMAIN w THEN w[i] ELSE model[e][i]]]
      /\ applying' = [applying EXCEPT ![e] = w]
      /\ fibers' = [fibers EXCEPT ![e] = Tail(fibers[e])]
      /\ UNCHANGED <<baseline, dirty, flushScheduled, doc, channel, edits>>
  BY DEF ApplyBegin, NextBody
<1>2. fibers[e] \in Seq(Bodies) /\ Head(fibers[e]) \in Bodies /\ Tail(fibers[e]) \in Seq(Bodies)
  BY <1>1 DEF TypeInv
<1>3. w \in Wires
  BY <1>1, <1>2, BodyFacts
<1> HIDE DEF w
<1>4. [i \in Items |-> IF i \in DOMAIN w THEN w[i] ELSE model[e][i]] \in [Items -> Contents]
  BY <1>3, WireFacts DEF TypeInv
<1>5. model' \in [Editors -> [Items -> Contents]]
  BY <1>1, <1>4 DEF TypeInv
<1>6. TypeInv'
  BY <1>1, <1>2, <1>3, <1>5 DEF TypeInv
<1>7. OthersSame(e)
  BY <1>1 DEF OthersSame, TypeInv
<1>8. /\ applying'[e] = w
      /\ \A i \in Items : model'[e][i] = IF i \in DOMAIN w THEN w[i] ELSE model[e][i]
      /\ fibers'[e] = Tail(fibers[e])
  BY <1>1 DEF TypeInv
<1> QED BY <1>1, <1>2, <1>3, <1>6, <1>7, <1>8 DEF w

LEMMA EndStep ==
  ASSUME TypeInv, NEW e \in Editors, ApplyEnd(e)
  PROVE  /\ TypeInv'
         /\ OthersSame(e)
         /\ applying[e] # NoWire /\ applying'[e] = NoWire
         /\ \A i \in Items : baseline'[e][i] =
              IF i \in DOMAIN applying[e] THEN model[e][i].proj ELSE baseline[e][i]
         /\ flushScheduled'[e]
         /\ fibers'[e] = IF flushScheduled[e] THEN fibers[e] ELSE Append(fibers[e], Flush)
         /\ UNCHANGED <<model, dirty, doc, channel, edits>>
<1>1. /\ applying[e] # NoWire
      /\ baseline' = [baseline EXCEPT ![e] = Rebaselined(e)]
      /\ applying' = [applying EXCEPT ![e] = NoWire]
      /\ ScheduleFlush(e, fibers[e])
      /\ UNCHANGED <<model, dirty, doc, channel, edits>>
  BY DEF ApplyEnd
<1>2. fibers[e] \in Seq(Bodies)
  BY DEF TypeInv
<1>3. Rebaselined(e) \in [Items -> -1 .. MaxEdits]
  BY ContentFacts DEF Rebaselined, TypeInv
<1>4. baseline' \in [Editors -> [Items -> -1 .. MaxEdits]] /\ baseline'[e] = Rebaselined(e)
  BY <1>1, <1>3 DEF TypeInv
<1>5. TypeInv'
  BY <1>1, <1>2, <1>4, Scheduled DEF TypeInv
<1>6. OthersSame(e)
  BY <1>1, <1>2, Scheduled DEF OthersSame, TypeInv
<1>7. applying'[e] = NoWire /\ flushScheduled'[e]
      /\ fibers'[e] = IF flushScheduled[e] THEN fibers[e] ELSE Append(fibers[e], Flush)
  BY <1>1, <1>2, Scheduled DEF TypeInv
<1>8. \A i \in Items : baseline'[e][i] =
              IF i \in DOMAIN applying[e] THEN model[e][i].proj ELSE baseline[e][i]
  BY <1>4 DEF Rebaselined
<1> QED BY <1>1, <1>5, <1>6, <1>7, <1>8

\* What e's replica holds of item i once it took update u.
Merged(e, u, i) == IF i \in DOMAIN u THEN Merge(doc[e][i], u[i]) ELSE doc[e][i]
Changed(e, u) == {i \in Items : Merged(e, u, i) # doc[e][i]}

LEMMA ReceiveStep ==
  ASSUME TypeInv, NEW e \in Editors, NEW f \in Editors, Receive(e, f)
  PROVE  /\ TypeInv'
         /\ OthersSame(e)
         /\ e # f /\ channel[f][e] # <<>> /\ channel[f][e] \in Seq(Updates)
         /\ Head(channel[f][e]) \in Updates
         /\ \A i \in Items : doc'[e][i] = Merged(e, Head(channel[f][e]), i)
         /\ Changed(e, Head(channel[f][e])) = {} => fibers' = fibers
         /\ Changed(e, Head(channel[f][e])) # {} => \E w \in Wires :
              /\ DOMAIN w = Changed(e, Head(channel[f][e]))
              /\ \A i \in DOMAIN w : w[i] = doc'[e][i].val
              /\ fibers'[e] = Append(fibers[e], Apply(w))
         /\ channel'[f][e] = Tail(channel[f][e])
         /\ \A d, g \in Editors : d # f \/ g # e => channel'[d][g] = channel[d][g]
         /\ UNCHANGED <<model, baseline, dirty, flushScheduled, applying, edits>>
<1> DEFINE u == Head(channel[f][e])
           merged == [i \in Items |-> Merged(e, u, i)]
           w == [i \in Changed(e, u) |-> merged[i].val]
<1>1. /\ channel[f][e] # <<>>
      /\ channel' = [channel EXCEPT ![f][e] = Tail(@)]
      /\ doc' = [doc EXCEPT ![e] = merged]
      /\ fibers' = IF Changed(e, u) = {} THEN fibers
                   ELSE [fibers EXCEPT ![e] = Append(fibers[e], Apply(w))]
      /\ UNCHANGED <<model, baseline, dirty, flushScheduled, applying, edits>>
  BY DEF Receive, Merged, Changed
<1>2. /\ channel' \in [Editors -> [Editors -> Seq(Updates)]]
      /\ channel'[f][e] = Tail(channel[f][e])
      /\ u \in Updates
      /\ \A d, g \in Editors : d # f \/ g # e => channel'[d][g] = channel[d][g]
      /\ e # f
  BY <1>1, TakenChannels
<1> HIDE DEF u
<1>3. \A i \in Items : Merged(e, u, i) \in Entries
  BY <1>2, WireFacts DEF Merged, Merge, TypeInv
<1>4. merged \in [Items -> Entries]
  BY <1>3
<1>5. \A i \in Items : merged[i].val \in Contents
  BY <1>4 DEF Entries
<1>6. Changed(e, u) \in SUBSET Items
  BY DEF Changed
<1>7. w \in [Changed(e, u) -> Contents]
  BY <1>5, <1>6
<1>8. w \in Wires
  BY <1>6, <1>7, WireFacts
<1>9. doc' \in [Editors -> [Items -> Entries]] /\ doc'[e] = merged
      /\ \A d \in Editors : d # e => doc'[d] = doc[d]
  BY <1>1, <1>4 DEF TypeInv
<1>10. DOMAIN w = Changed(e, u) /\ \A i \in DOMAIN w : w[i] = doc'[e][i].val
  BY <1>6, <1>9
<1>11. \A i \in Items : doc'[e][i] = Merged(e, u, i)
  BY <1>9
<1> HIDE DEF merged, w
<1>12. fibers[e] \in Seq(Bodies) /\ Append(fibers[e], Apply(w)) \in Seq(Bodies)
  BY <1>8, BodyFacts DEF TypeInv
<1>13. /\ fibers' \in [Editors -> Seq(Bodies)]
       /\ \A d \in Editors : d # e => fibers'[d] = fibers[d]
       /\ Changed(e, u) # {} => fibers'[e] = Append(fibers[e], Apply(w))
  BY <1>1, <1>12 DEF TypeInv
<1>14. \A d \in Editors : channel'[d][d] = <<>>
  BY <1>2 DEF TypeInv
<1>15. TypeInv'
  BY <1>1, <1>2, <1>9, <1>13, <1>14 DEF TypeInv
<1>16. OthersSame(e)
  BY <1>1, <1>9, <1>13 DEF OthersSame
<1>17. channel[f][e] \in Seq(Updates)
  BY DEF TypeInv
<1> QED BY <1>1, <1>2, <1>8, <1>10, <1>11, <1>13, <1>15, <1>16, <1>17 DEF u

LEMMA TypedStep == TypeInv /\ [Next]_vars => TypeInv'
<1> SUFFICES ASSUME TypeInv, [Next]_vars PROVE TypeInv'
  OBVIOUS
<1>1. CASE \E e \in Editors, i \in Items : LocalEdit(e, i)
  BY <1>1, EditStep
<1>2. CASE \E e \in Editors : FiberStep(e)
  BY <1>2, FlushStep, BeginStep, EndStep DEF FiberStep
<1>3. CASE \E e, f \in Editors : Receive(e, f)
  BY <1>3, ReceiveStep
<1>4. CASE UNCHANGED vars
  BY <1>4 DEF vars, cpp, TypeInv
<1> QED BY <1>1, <1>2, <1>3, <1>4 DEF Next

LEMMA Typed == Spec => []TypeInv
BY InitTyped, TypedStep, PTL DEF Spec

(***************************************************************************)
(* The queues hold only flushes and applies of board items, and no replica *)
(* has an update on its way to itself.                                     *)
(***************************************************************************)
THEOREM TypeCorrect == Spec => []TypeOK
<1>1. TypeInv => TypeOK
  <2> SUFFICES ASSUME TypeInv PROVE TypeOK
    OBVIOUS
  <2>1. \A w \in Wires : IsWire(w)
    BY DEF Wires, IsWire
  <2>2. ASSUME NEW e \in Editors
        PROVE  /\ applying[e] = NoWire \/ IsWire(applying[e])
               /\ \A k \in DOMAIN fibers[e] :
                    LET body == fibers[e][k]
                    IN body = Flush \/ (body.kind = "apply" /\ IsWire(body.wire))
               /\ \A i \in Items : doc[e][i].val \in Contents
               /\ channel[e][e] = <<>>
    <3>1. applying[e] = NoWire \/ IsWire(applying[e])
      BY <2>1 DEF TypeInv
    <3>2. \A k \in DOMAIN fibers[e] : fibers[e][k] \in Bodies
      BY DEF TypeInv
    <3>3. \A b \in Bodies : b = Flush \/ (b.kind = "apply" /\ IsWire(b.wire))
      BY <2>1, BodyFacts
    <3>4. \A i \in Items : doc[e][i].val \in Contents
      BY DEF TypeInv, Entries
    <3> QED BY <3>1, <3>2, <3>3, <3>4 DEF TypeInv
  <2> QED BY <2>2 DEF TypeInv, TypeOK
<1> QED BY <1>1, Typed, PTL

-----------------------------------------------------------------------------
(* Flushes.                                                                *)

Pending(q, scheduled) ==
  /\ scheduled <=> \E k \in DOMAIN q : q[k] = Flush
  /\ \A j, k \in DOMAIN q : q[j] = Flush /\ q[k] = Flush => j = k

FlushInv == \A e \in Editors : Pending(fibers[e], flushScheduled[e])

LEMMA PendingAppend ==
  ASSUME NEW q \in Seq(Bodies), NEW b \in Bodies, NEW was \in BOOLEAN, Pending(q, was)
  PROVE  /\ b # Flush => Pending(Append(q, b), was)
         /\ ~ was => Pending(Append(q, Flush), TRUE)
<1>1. ASSUME NEW c \in Bodies
      PROVE  /\ DOMAIN Append(q, c) = 1 .. Len(q) + 1 /\ Append(q, c)[Len(q) + 1] = c
             /\ \A k \in 1 .. Len(q) : Append(q, c)[k] = q[k]
  OBVIOUS
<1>2. DOMAIN q = 1 .. Len(q) /\ Len(q) \in Nat
  OBVIOUS
<1>3. ASSUME b # Flush PROVE Pending(Append(q, b), was)
  <2> DEFINE r == Append(q, b)
  <2>1. \A k \in DOMAIN r : r[k] = Flush => k \in DOMAIN q /\ q[k] = Flush
    BY <1>1, <1>2, <1>3
  <2>2. \A k \in DOMAIN q : k \in DOMAIN r /\ r[k] = q[k]
    BY <1>1, <1>2
  <2> HIDE DEF r
  <2> QED BY <2>1, <2>2 DEF Pending, r
<1>4. ASSUME ~ was PROVE Pending(Append(q, Flush), TRUE)
  <2> DEFINE r == Append(q, Flush)
  <2>1. \A k \in DOMAIN r : r[k] = Flush <=> k = Len(q) + 1
    BY <1>1, <1>2, <1>4, BodyFacts DEF Pending
  <2>2. Len(q) + 1 \in DOMAIN r
    BY <1>1, <1>2, BodyFacts
  <2> HIDE DEF r
  <2> QED BY <2>1, <2>2 DEF Pending, r
<1> QED BY <1>3, <1>4

LEMMA PendingTail ==
  ASSUME NEW q \in Seq(Bodies), q # <<>>, NEW was \in BOOLEAN, Pending(q, was)
  PROVE  Pending(Tail(q), IF Head(q) = Flush THEN FALSE ELSE was)
<1>1. /\ DOMAIN q = 1 .. Len(q) /\ Len(q) \in Nat \ {0} /\ Head(q) = q[1]
      /\ DOMAIN Tail(q) = 1 .. Len(q) - 1
      /\ \A k \in 1 .. Len(q) - 1 : Tail(q)[k] = q[k + 1]
  BY EmptySeq
<1> DEFINE r == Tail(q)
<1>2. \A k \in DOMAIN r : k + 1 \in DOMAIN q /\ k + 1 # 1 /\ r[k] = q[k + 1] /\ k \in Nat
  BY <1>1
<1>3. \A k \in DOMAIN q : k # 1 => k - 1 \in DOMAIN r /\ r[k - 1] = q[k]
  BY <1>1
<1>4. 1 \in DOMAIN q /\ q[1] = Head(q)
  BY <1>1
<1> HIDE DEF r
<1>5. CASE Head(q) = Flush
  <2>1. \A k \in DOMAIN r : r[k] # Flush
    BY <1>2, <1>4, <1>5 DEF Pending
  <2> QED BY <1>5, <2>1 DEF Pending, r
<1>6. CASE Head(q) # Flush
  <2>1. was <=> \E k \in DOMAIN r : r[k] = Flush
    BY <1>2, <1>3, <1>4, <1>6 DEF Pending
  <2>2. \A j, k \in DOMAIN r : r[j] = Flush /\ r[k] = Flush => j = k
    BY <1>2 DEF Pending
  <2> QED BY <1>6, <2>1, <2>2 DEF Pending, r
<1> QED BY <1>5, <1>6

LEMMA FlushInvStep == TypeInv /\ FlushInv /\ [Next]_vars => FlushInv'
<1> SUFFICES ASSUME TypeInv, FlushInv, [Next]_vars, NEW e \in Editors
             PROVE  Pending(fibers'[e], flushScheduled'[e])
  BY DEF FlushInv
<1> USE DEF FlushInv
<1>1. fibers[e] \in Seq(Bodies) /\ flushScheduled[e] \in BOOLEAN /\ flushScheduled'[e] \in BOOLEAN
  BY TypedStep DEF TypeInv
<1>2. Pending(fibers[e], flushScheduled[e])
  OBVIOUS
<1>3. ASSUME flushScheduled'[e],
             fibers'[e] = IF flushScheduled[e] THEN fibers[e] ELSE Append(fibers[e], Flush)
      PROVE  Pending(fibers'[e], flushScheduled'[e])
  BY <1>1, <1>2, <1>3, BodyFacts, PendingAppend
<1>4. ASSUME NEW d \in Editors, NEW i \in Items, LocalEdit(d, i)
      PROVE  Pending(fibers'[e], flushScheduled'[e])
  BY <1>2, <1>3, <1>4, EditStep DEF OthersSame
<1>5. ASSUME NEW d \in Editors, DoFlush(d) PROVE Pending(fibers'[e], flushScheduled'[e])
  BY <1>1, <1>2, <1>5, FlushStep, PendingTail DEF OthersSame
<1>6. ASSUME NEW d \in Editors, ApplyBegin(d) PROVE Pending(fibers'[e], flushScheduled'[e])
  BY <1>1, <1>2, <1>6, BeginStep, PendingTail, BodyFacts DEF OthersSame
<1>7. ASSUME NEW d \in Editors, ApplyEnd(d) PROVE Pending(fibers'[e], flushScheduled'[e])
  BY <1>2, <1>3, <1>7, EndStep DEF OthersSame
<1>8. ASSUME NEW d \in Editors, NEW f \in Editors, Receive(d, f)
      PROVE  Pending(fibers'[e], flushScheduled'[e])
  <2>1. CASE fibers'[e] = fibers[e]
    BY <1>2, <1>8, <2>1, ReceiveStep
  <2>2. CASE fibers'[e] # fibers[e]
    <3>1. PICK w \in Wires : fibers'[e] = Append(fibers[e], Apply(w))
      BY <1>8, <2>2, ReceiveStep DEF OthersSame
    <3>2. Apply(w) \in Bodies /\ Apply(w) # Flush
      BY BodyFacts
    <3>3. flushScheduled' = flushScheduled
      BY <1>8, ReceiveStep
    <3> QED BY <1>1, <1>2, <3>1, <3>2, <3>3, PendingAppend
  <2> QED BY <2>1, <2>2
<1>9. CASE UNCHANGED vars
  BY <1>2, <1>9 DEF vars, cpp
<1> QED BY <1>4, <1>5, <1>6, <1>7, <1>8, <1>9 DEF Next, FiberStep

LEMMA FlushInvAlways == Spec => [](TypeInv /\ FlushInv)
<1>1. Init => FlushInv
  <2> SUFFICES ASSUME Init, NEW e \in Editors PROVE Pending(fibers[e], flushScheduled[e])
    BY DEF FlushInv
  <2>1. fibers[e] = <<>> /\ ~ flushScheduled[e]
    BY DEF Init
  <2>2. DOMAIN fibers[e] = {}
    BY <2>1
  <2> QED BY <2>1, <2>2 DEF Pending
<1> QED BY <1>1, InitTyped, TypedStep, FlushInvStep, PTL DEF Spec

(***************************************************************************)
(* g_flushScheduled is set exactly while one flush sits in the fiber       *)
(* queue: no edit waits for a flush that never comes, none flushes twice.  *)
(***************************************************************************)
THEOREM FlushesScheduled == Spec => []OneFlushPending
<1>1. FlushInv => OneFlushPending
  <2> SUFFICES ASSUME NEW e \in Editors, Pending(fibers[e], flushScheduled[e])
               PROVE  LET flushes == {k \in DOMAIN fibers[e] : fibers[e][k] = Flush}
                      IN IF flushScheduled[e] THEN \E k \in flushes : flushes = {k}
                                              ELSE flushes = {}
    BY DEF FlushInv, OneFlushPending
  <2>1. CASE flushScheduled[e]
    <3>1. PICK k \in DOMAIN fibers[e] : fibers[e][k] = Flush
      BY <2>1 DEF Pending
    <3>2. {j \in DOMAIN fibers[e] : fibers[e][j] = Flush} = {k}
      BY <3>1 DEF Pending
    <3> QED BY <2>1, <3>2
  <2>2. CASE ~ flushScheduled[e]
    BY <2>2 DEF Pending
  <2> QED BY <2>1, <2>2
<1> QED BY <1>1, FlushInvAlways, PTL

-----------------------------------------------------------------------------
(* Echoes.                                                                 *)

LEMMA WrittenIsOwned ==
  ASSUME TypeInv, EchoInv, NEW e \in Editors, applying[e] = NoWire
  PROVE  Written(e) \subseteq Owned(e)
<1> SUFFICES ASSUME NEW i \in Written(e) PROVE i \in Owned(e)
  OBVIOUS
<1>1. i \in FlushSet(e) /\ i \in Items
  BY DEF Written, FlushSet, TypeInv
<1>2. i \notin DOMAIN applying[e]
  BY WireFacts
<1> QED BY <1>1, <1>2 DEF FlushSet, EchoInv, Owned

LEMMA EchoInvStep == TypeInv /\ EchoInv /\ [Next]_vars => EchoInv'
<1> SUFFICES ASSUME TypeInv, EchoInv, [Next]_vars PROVE EchoInv'
  OBVIOUS
<1> DEFINE Clean(e, i) == e \notin Owners[i] /\ i \notin DOMAIN applying[e] =>
                            model[e][i].proj = baseline[e][i]
           Sent(e, f) == \A k \in DOMAIN channel[e][f] :
                            DOMAIN channel[e][f][k] \subseteq Owned(e)
<1>1. /\ \A e \in Editors : dirty[e] \subseteq Owned(e)
      /\ \A e \in Editors, i \in Items : Clean(e, i)
      /\ \A e, f \in Editors : Sent(e, f)
  BY DEF EchoInv
<1>2. ASSUME \A e \in Editors : dirty'[e] \subseteq Owned(e),
             \A e \in Editors, i \in Items : Clean(e, i)',
             \A e, f \in Editors : Sent(e, f)'
      PROVE  EchoInv'
  BY <1>2 DEF EchoInv, Owned
<1>3. ASSUME NEW e \in Editors, OthersSame(e),
             \A i \in Items : Clean(e, i)', dirty'[e] \subseteq Owned(e)
      PROVE  /\ \A d \in Editors : dirty'[d] \subseteq Owned(d)
             /\ \A d \in Editors, i \in Items : Clean(d, i)'
  BY <1>1, <1>3 DEF OthersSame
<1>4. ASSUME NEW e \in Editors, NEW i \in Items, LocalEdit(e, i) PROVE EchoInv'
  <2>1. OthersSame(e) /\ e \in Owners[i] /\ UNCHANGED <<baseline, applying, doc, channel>>
        /\ \A j \in Items : j # i => model'[e][j] = model[e][j]
    BY <1>4, EditStep
  <2>2. \A j \in Items : Clean(e, j)'
    BY <1>1, <2>1
  <2>3. dirty'[e] \subseteq dirty[e] \cup {i}
    BY <1>4, EditStep
  <2>4. dirty'[e] \subseteq Owned(e)
    BY <1>1, <2>1, <2>3 DEF Owned
  <2>5. \A d, f \in Editors : Sent(d, f)'
    BY <1>1, <2>1 DEF Owned
  <2> QED BY <1>2, <1>3, <2>1, <2>2, <2>4, <2>5
<1>5. ASSUME NEW e \in Editors, DoFlush(e) PROVE EchoInv'
  <2>1. OthersSame(e) /\ applying[e] = NoWire /\ dirty'[e] = {} /\ UNCHANGED model
        /\ \A i \in Items : baseline'[e][i] = model[e][i].proj
    BY <1>5, FlushStep
  <2>2. \A d, f \in Editors : channel'[d][f] =
              IF d = e /\ f # e /\ Written(e) # {} THEN Append(channel[e][f], Update(e))
                                                 ELSE channel[d][f]
    BY <1>5, FlushStep
  <2>3. DOMAIN Update(e) \subseteq Owned(e) /\ Update(e) \in Updates
    BY <1>5, <2>1, FlushStep, WrittenIsOwned
  <2>4. ASSUME NEW d \in Editors, NEW f \in Editors PROVE Sent(d, f)'
    <3>1. CASE channel'[d][f] = channel[d][f]
      BY <1>1, <3>1 DEF Owned
    <3>2. CASE d = e /\ channel'[e][f] = Append(channel[e][f], Update(e))
      <4>1. channel[e][f] \in Seq(Updates)
        BY DEF TypeInv
      <4>2. \A k \in DOMAIN channel'[e][f] :
               \/ channel'[e][f][k] = Update(e)
               \/ k \in DOMAIN channel[e][f] /\ channel'[e][f][k] = channel[e][f][k]
        BY <2>3, <3>2, <4>1
      <4> QED BY <1>1, <2>3, <3>2, <4>2 DEF Owned
    <3> QED BY <2>2, <3>1, <3>2
  <2> QED BY <1>2, <1>3, <2>1, <2>4
<1>6. ASSUME NEW e \in Editors, ApplyBegin(e) PROVE EchoInv'
  <2>1. OthersSame(e) /\ applying[e] = NoWire /\ UNCHANGED <<baseline, dirty, channel>>
        /\ \A i \in Items : i \notin DOMAIN applying'[e] => model'[e][i] = model[e][i]
    BY <1>6, BeginStep
  <2>2. \A i \in Items : Clean(e, i)'
    BY <1>1, <2>1, WireFacts
  <2>3. \A d, f \in Editors : Sent(d, f)'
    BY <1>1, <2>1 DEF Owned
  <2> QED BY <1>1, <1>2, <1>3, <2>1, <2>2, <2>3
<1>7. ASSUME NEW e \in Editors, ApplyEnd(e) PROVE EchoInv'
  <2>1. OthersSame(e) /\ UNCHANGED <<model, dirty, channel>>
        /\ \A i \in Items : baseline'[e][i] =
              IF i \in DOMAIN applying[e] THEN model[e][i].proj ELSE baseline[e][i]
    BY <1>7, EndStep
  <2>2. \A i \in Items : Clean(e, i)'
    BY <1>1, <2>1
  <2>3. \A d, f \in Editors : Sent(d, f)'
    BY <1>1, <2>1 DEF Owned
  <2> QED BY <1>1, <1>2, <1>3, <2>1, <2>2, <2>3
<1>8. ASSUME NEW e \in Editors, NEW f \in Editors, Receive(e, f) PROVE EchoInv'
  <2>1. OthersSame(e) /\ UNCHANGED <<model, baseline, dirty, applying>>
    BY <1>8, ReceiveStep
  <2>2. channel[f][e] # <<>> /\ channel[f][e] \in Seq(Updates) /\ channel'[f][e] = Tail(channel[f][e])
    BY <1>8, ReceiveStep
  <2>3. \A d, g \in Editors : d # f \/ g # e => channel'[d][g] = channel[d][g]
    BY <1>8, ReceiveStep
  <2>4. Sent(f, e)'
    <3>1. \A k \in DOMAIN channel'[f][e] : k + 1 \in DOMAIN channel[f][e]
             /\ channel'[f][e][k] = channel[f][e][k + 1]
      BY <2>2, EmptySeq
    <3> QED BY <1>1, <3>1 DEF Owned
  <2>5. \A d, g \in Editors : Sent(d, g)'
    BY <1>1, <2>3, <2>4 DEF Owned
  <2>6. \A i \in Items : Clean(e, i)'
    BY <1>1, <2>1
  <2> QED BY <1>1, <1>2, <1>3, <2>1, <2>5, <2>6
<1>9. CASE UNCHANGED vars
  BY <1>9 DEF vars, cpp, EchoInv, Owned
<1> QED BY <1>4, <1>5, <1>6, <1>7, <1>8, <1>9 DEF Next, FiberStep

LEMMA EchoInvAlways == Spec => [](TypeInv /\ EchoInv)
<1>1. Init => EchoInv
  <2> SUFFICES ASSUME Init PROVE EchoInv
    OBVIOUS
  <2>1. \A e \in Editors, i \in Items : model[e][i].proj = 0 /\ baseline[e][i] = 0
    BY DEF Init
  <2>2. \A e \in Editors : dirty[e] = {}
    BY DEF Init
  <2>3. \A e, f \in Editors : channel[e][f] = <<>>
    BY DEF Init
  <2>4. \A e, f \in Editors : DOMAIN channel[e][f] = {}
    BY <2>3
  <2> QED BY <2>1, <2>2, <2>4 DEF EchoInv
<1> QED BY <1>1, InitTyped, TypedStep, EchoInvStep, PTL DEF Spec

(***************************************************************************)
(* An editor never writes an item its user did not edit: what doApplyItems *)
(* puts on the board is not broadcast again by the flush that follows.     *)
(***************************************************************************)
THEOREM NothingEchoed == Spec => NoEcho
<1> DEFINE Quiet == \A e, f \in Editors :
             Len(channel'[e][f]) > Len(channel[e][f]) =>
               LET update == channel'[e][f][Len(channel'[e][f])]
               IN \A i \in DOMAIN update : e \in Owners[i]
<1>1. (TypeInv /\ EchoInv) /\ (TypeInv /\ EchoInv)' => Quiet
  <2> SUFFICES ASSUME TypeInv, TypeInv', EchoInv', NEW e \in Editors, NEW f \in Editors,
                      Len(channel'[e][f]) > Len(channel[e][f])
               PROVE  \A i \in DOMAIN channel'[e][f][Len(channel'[e][f])] : e \in Owners[i]
    OBVIOUS
  <2>1. channel[e][f] \in Seq(Updates) /\ channel'[e][f] \in Seq(Updates)
    BY DEF TypeInv
  <2>2. Len(channel'[e][f]) \in DOMAIN channel'[e][f]
    BY <2>1
  <2>3. DOMAIN channel'[e][f][Len(channel'[e][f])] \subseteq Owned(e)
    BY <2>2 DEF EchoInv, Owned
  <2> QED BY <2>3 DEF Owned
<1>2. [](TypeInv /\ EchoInv) => [][Quiet]_vars
  BY <1>1, PTL
<1> QED BY <1>2, EchoInvAlways DEF NoEcho

-----------------------------------------------------------------------------
(* Publishing.                                                             *)

\* No update on its way to a user names an item that only they edit.
LEMMA NoneIncoming ==
  ASSUME TypeInv, EchoInv, NEW e \in Editors, NEW f \in Editors, NEW i \in Items,
         e # f, Owners[i] = {e}, channel[f][e] # <<>>
  PROVE  i \notin DOMAIN Head(channel[f][e])
<1>1. channel[f][e] \in Seq(Updates) /\ 1 \in DOMAIN channel[f][e]
      /\ Head(channel[f][e]) = channel[f][e][1]
  BY EmptySeq DEF TypeInv
<1>2. DOMAIN channel[f][e][1] \subseteq Owned(f)
  BY <1>1 DEF EchoInv
<1> QED BY <1>1, <1>2 DEF Owned

LEMMA PrivateEdit ==
  ASSUME TypeInv, "hidden" \notin ParkEdits, NEW e \in Editors, NEW i \in Items, Private(e, i),
         NEW j \in Items, LocalEdit(e, j)
  PROVE  Private(e, i)'
<1>1. UNCHANGED <<baseline, applying, doc>> /\ edits' = edits + 1 /\ edits \in Nat
  BY EditStep DEF TypeInv
<1>2. fibers[e] \in Seq(Bodies) /\ fibers'[e] \in {fibers[e], Append(fibers[e], Flush)}
  BY EditStep DEF TypeInv
<1>3. \A k \in DOMAIN fibers'[e] : i \notin DOMAIN fibers'[e][k].wire
  <2>1. \A k \in DOMAIN fibers'[e] : \/ k \in DOMAIN fibers[e] /\ fibers'[e][k] = fibers[e][k]
                                     \/ fibers'[e][k] = Flush
    BY <1>2, BodyFacts
  <2> QED BY <2>1, BodyFacts, WireFacts DEF Private
<1>4. /\ model[e][i] \in Contents /\ doc[e][i].val \in Contents /\ model'[e][i] \in Contents
      /\ baseline[e][i] \in Int /\ doc[e][i].val.proj \in Int /\ model[e][i].proj \in Int
  <2>1. TypeInv'
    BY EditStep
  <2>2. model[e][i] \in Contents /\ doc[e][i].val \in Contents /\ model'[e][i] \in Contents
    BY <2>1 DEF TypeInv, Entries
  <2> QED BY <2>2, ContentFacts, BoundsAssumption DEF TypeInv
<1>5. dirty[e] \subseteq dirty'[e] /\ (flushScheduled[e] => flushScheduled'[e])
  BY EditStep
<1>6. CASE j # i
  <2>1. model'[e][i] = model[e][i]
    BY <1>6, EditStep
  <2> QED BY <1>1, <1>3, <1>4, <1>5, <2>1 DEF Private
<1>7. CASE j = i
  <2>1. PICK kind \in IF applying[e] = NoWire THEN EditKinds ELSE ParkEdits :
              /\ kind = "hidden" => model'[e][i].proj = model[e][i].proj /\ model[e][i] # Gone
              /\ kind = "visible" => model'[e][i] # model[e][i]
              /\ kind = "visible" => model'[e][i] = Gone \/ model'[e][i].proj = edits + 1
    BY <1>7, EditStep
  <2>2. kind \in EditKinds /\ (applying[e] # NoWire => kind = "visible")
    BY <2>1, BoundsAssumption DEF EditKinds
  <2>3. model'[e][i].proj <= edits + 1
    BY <1>1, <1>4, <2>1, <2>2, ContentFacts DEF EditKinds, Private
  <2>4. CASE applying[e] = NoWire
    <3>1. i \in dirty'[e] /\ flushScheduled'[e]
      BY <1>7, <2>4, EditStep
    <3> QED BY <1>1, <1>3, <1>4, <2>3, <3>1 DEF Private
  <2>5. CASE applying[e] # NoWire
    <3>1. model'[e][i] # doc[e][i].val => model'[e][i].proj # baseline[e][i]
      BY <1>1, <1>4, <2>1, <2>2, <2>5, ContentFacts DEF Private
    <3> QED BY <1>1, <1>3, <1>4, <2>3, <2>5, <3>1 DEF Private
  <2> QED BY <2>4, <2>5
<1> QED BY <1>6, <1>7

LEMMA PrivateFlush ==
  ASSUME TypeInv, NEW e \in Editors, NEW i \in Items, Private(e, i), DoFlush(e)
  PROVE  Private(e, i)' /\ doc'[e][i].val = model'[e][i]
<1>1. UNCHANGED <<model, applying, edits>> /\ baseline'[e][i] = model[e][i].proj
      /\ fibers'[e] = Tail(fibers[e]) /\ fibers[e] # <<>>
      /\ doc'[e][i] = IF i \in Written(e) THEN Update(e)[i] ELSE doc[e][i]
  BY FlushStep
<1>2. \A k \in DOMAIN fibers'[e] : i \notin DOMAIN fibers'[e][k].wire
  <2>1. fibers[e] \in Seq(Bodies)
    BY DEF TypeInv
  <2>2. \A k \in DOMAIN fibers'[e] : k + 1 \in DOMAIN fibers[e] /\ fibers'[e][k] = fibers[e][k + 1]
    BY <1>1, <2>1, EmptySeq
  <2> QED BY <2>2 DEF Private
<1>3. model[e][i] \in Contents /\ doc[e][i].val \in Contents
  BY DEF TypeInv, Entries
<1>4. model[e][i] # doc[e][i].val => i \in Written(e)
  <2> SUFFICES ASSUME model[e][i] # doc[e][i].val PROVE i \in FlushSet(e)
    BY DEF Written
  <2>1. model[e][i].proj # baseline[e][i] \/ i \in dirty[e]
    BY DEF Private
  <2>2. model[e][i] = Gone => model[e][i].proj # baseline[e][i]
    BY <1>3, ContentFacts DEF Private
  <2> QED BY <2>1, <2>2 DEF FlushSet
<1>5. i \in Written(e) => Update(e)[i].val = model[e][i]
  <2>1. i \in Written(e) => Update(e)[i] = Write(doc[e][i], e, model[e][i])
    BY FlushStep
  <2>2. Write(doc[e][i], e, model[e][i]).val = model[e][i]
    BY DEF Write
  <2> QED BY <2>1, <2>2
<1>6. doc'[e][i].val = model[e][i]
  BY <1>1, <1>4, <1>5
<1> QED BY <1>1, <1>2, <1>6 DEF Private

LEMMA PublishInvStep ==
  ASSUME "hidden" \notin ParkEdits, TypeInv, EchoInv, PublishInv, [Next]_vars
  PROVE  PublishInv'
<1> SUFFICES ASSUME NEW e \in Editors, NEW i \in Items, Owners[i] = {e}
             PROVE  Private(e, i)'
  BY DEF PublishInv
<1>1. Private(e, i)
  BY DEF PublishInv
<1>2. fibers[e] \in Seq(Bodies) /\ edits \in Int
  BY DEF TypeInv
<1>3. ASSUME NEW d \in Editors, OthersSame(d), d # e, edits' \in {edits, edits + 1}
      PROVE  Private(e, i)'
  <2>1. /\ model'[e] = model[e] /\ baseline'[e] = baseline[e] /\ dirty'[e] = dirty[e]
        /\ flushScheduled'[e] = flushScheduled[e] /\ fibers'[e] = fibers[e]
        /\ applying'[e] = applying[e] /\ doc'[e] = doc[e]
    BY <1>3 DEF OthersSame
  <2>2. model[e][i].proj \in Int /\ doc[e][i].val.proj \in Int
    BY ContentFacts DEF TypeInv, Entries
  <2> QED BY <1>1, <1>2, <1>3, <2>1, <2>2 DEF Private
<1>4. ASSUME NEW d \in Editors, NEW j \in Items, LocalEdit(d, j) PROVE Private(e, i)'
  BY <1>1, <1>3, <1>4, EditStep, PrivateEdit
<1>5. ASSUME NEW d \in Editors, DoFlush(d) PROVE Private(e, i)'
  BY <1>1, <1>3, <1>5, FlushStep, PrivateFlush
<1>6. ASSUME NEW d \in Editors, ApplyBegin(d) PROVE Private(e, i)'
  <2>1. CASE d # e
    BY <1>3, <1>6, <2>1, BeginStep
  <2>2. CASE d = e
    <3>1. /\ UNCHANGED <<baseline, dirty, flushScheduled, doc, edits>> /\ applying[e] = NoWire
          /\ applying'[e] = Head(fibers[e]).wire /\ fibers'[e] = Tail(fibers[e]) /\ fibers[e] # <<>>
          /\ model'[e][i] = IF i \in DOMAIN Head(fibers[e]).wire
                              THEN Head(fibers[e]).wire[i] ELSE model[e][i]
      BY <1>6, <2>2, BeginStep
    <3>2. Head(fibers[e]) = fibers[e][1] /\ 1 \in DOMAIN fibers[e]
          /\ \A k \in DOMAIN fibers'[e] : k + 1 \in DOMAIN fibers[e] /\ fibers'[e][k] = fibers[e][k + 1]
      BY <1>2, <3>1, EmptySeq
    <3>3. i \notin DOMAIN applying'[e] /\ model'[e][i] = model[e][i]
          /\ \A k \in DOMAIN fibers'[e] : i \notin DOMAIN fibers'[e][k].wire
      BY <1>1, <3>1, <3>2 DEF Private
    <3> QED BY <1>1, <3>1, <3>3 DEF Private
  <2> QED BY <2>1, <2>2
<1>7. ASSUME NEW d \in Editors, ApplyEnd(d) PROVE Private(e, i)'
  <2>1. CASE d # e
    BY <1>3, <1>7, <2>1, EndStep
  <2>2. CASE d = e
    <3>1. /\ UNCHANGED <<model, dirty, doc, edits>> /\ applying'[e] = NoWire /\ flushScheduled'[e]
          /\ baseline'[e][i] = IF i \in DOMAIN applying[e] THEN model[e][i].proj ELSE baseline[e][i]
          /\ fibers'[e] \in {fibers[e], Append(fibers[e], Flush)}
      BY <1>7, <2>2, EndStep
    <3>2. \A k \in DOMAIN fibers'[e] : \/ k \in DOMAIN fibers[e] /\ fibers'[e][k] = fibers[e][k]
                                       \/ fibers'[e][k] = Flush
      <4>1. \A k \in DOMAIN Append(fibers[e], Flush) :
               \/ k \in DOMAIN fibers[e] /\ Append(fibers[e], Flush)[k] = fibers[e][k]
               \/ Append(fibers[e], Flush)[k] = Flush
        BY <1>2, BodyFacts
      <4> QED BY <3>1, <4>1
    <3> QED BY <1>1, <3>1, <3>2, BodyFacts, WireFacts DEF Private
  <2> QED BY <2>1, <2>2
<1>8. ASSUME NEW d \in Editors, NEW f \in Editors, Receive(d, f) PROVE Private(e, i)'
  <2>1. CASE d # e
    BY <1>3, <1>8, <2>1, ReceiveStep
  <2>2. CASE d = e
    <3>1. e # f /\ channel[f][e] # <<>> /\ UNCHANGED <<model, baseline, dirty, flushScheduled, applying, edits>>
          /\ doc'[e][i] = Merged(e, Head(channel[f][e]), i)
      BY <1>8, <2>2, ReceiveStep
    <3>2. doc'[e][i] = doc[e][i] /\ i \notin Changed(e, Head(channel[f][e]))
      BY <3>1, NoneIncoming DEF Merged, Changed
    <3>3. \A k \in DOMAIN fibers'[e] : i \notin DOMAIN fibers'[e][k].wire
      <4>1. CASE fibers' = fibers
        BY <1>1, <4>1 DEF Private
      <4>2. CASE fibers' # fibers
        <5>1. PICK w \in Wires : DOMAIN w = Changed(e, Head(channel[f][e]))
                                 /\ fibers'[e] = Append(fibers[e], Apply(w))
          BY <1>8, <2>2, <4>2, ReceiveStep
        <5>2. Apply(w) \in Bodies /\ Apply(w).wire = w
          BY BodyFacts
        <5>3. \A k \in DOMAIN fibers'[e] : \/ k \in DOMAIN fibers[e] /\ fibers'[e][k] = fibers[e][k]
                                           \/ fibers'[e][k] = Apply(w)
          BY <1>2, <5>1, <5>2
        <5> QED BY <1>1, <3>2, <5>1, <5>2, <5>3 DEF Private
      <4> QED BY <4>1, <4>2
    <3> QED BY <1>1, <3>1, <3>2, <3>3 DEF Private
  <2> QED BY <2>1, <2>2
<1>9. CASE UNCHANGED vars
  BY <1>1, <1>9 DEF vars, cpp, Private
<1> QED BY <1>4, <1>5, <1>6, <1>7, <1>8, <1>9 DEF Next, FiberStep

LEMMA PublishInvAlways ==
  ASSUME "hidden" \notin ParkEdits
  PROVE  Spec => [](TypeInv /\ FlushInv /\ EchoInv /\ PublishInv)
<1>1. Init => PublishInv
  <2> SUFFICES ASSUME Init, NEW e \in Editors, NEW i \in Items PROVE Private(e, i)
    BY DEF PublishInv
  <2>1. /\ applying[e] = NoWire /\ fibers[e] = <<>> /\ edits = 0 /\ baseline[e][i] = 0
        /\ model[e][i] = [proj |-> 0, full |-> 0] /\ doc[e][i].val = [proj |-> 0, full |-> 0]
    BY DEF Init
  <2>2. DOMAIN applying[e] = {} /\ DOMAIN fibers[e] = {} /\ model[e][i].proj = 0 /\ doc[e][i].val.proj = 0
    BY <2>1, WireFacts
  <2> QED BY <2>1, <2>2 DEF Private
<1>2. TypeInv /\ EchoInv /\ PublishInv /\ [Next]_vars => PublishInv'
  BY PublishInvStep
<1> QED BY <1>1, <1>2, TypedStep, FlushInvAlways, EchoInvAlways, PTL DEF Spec

(***************************************************************************)
(* When an editor's own queue is empty, its replica holds every edit its   *)
(* user made of an item nobody else edits: no apply swallowed or reverted  *)
(* one.  As long, that is, as what is committed while an apply is parked   *)
(* shows in the projection the baseline is made of.                        *)
(***************************************************************************)
THEOREM OwnEditsPublished ==
  ASSUME "hidden" \notin ParkEdits
  PROVE  Spec => []LocalEditsPublished
<1>1. TypeInv /\ FlushInv /\ EchoInv /\ PublishInv => LocalEditsPublished
  <2> SUFFICES ASSUME TypeInv, FlushInv, PublishInv, NEW e \in Editors, NEW i \in Items,
                      Owners[i] = {e}, Idle(e)
               PROVE  doc[e][i].val = model[e][i]
    BY DEF LocalEditsPublished
  <2>1. Private(e, i) /\ Pending(fibers[e], flushScheduled[e])
    BY DEF PublishInv, FlushInv
  <2>2. DOMAIN fibers[e] = {} /\ applying[e] = NoWire
    BY DEF Idle
  <2> QED BY <2>1, <2>2 DEF Private, Pending
<1> QED BY <1>1, PublishInvAlways, PTL

-----------------------------------------------------------------------------
(* Following.                                                              *)

LEMMA NewerFacts ==
  ASSUME NEW r \in Entries, NEW s \in Entries, NEW t \in Entries
  PROVE  /\ ~ Newer(r, r)
         /\ Newer(r, s) /\ Newer(s, t) => Newer(r, t)
<1>1. Len(r.stamp) \in Nat /\ Len(s.stamp) \in Nat /\ Len(t.stamp) \in Nat
  BY DEF Entries
<1> QED BY <1>1 DEF Newer

\* A write of another value by the author of the entry is newer than it.
LEMMA WriteIsNewer ==
  ASSUME NEW g \in Editors, NEW r \in Entries, r.stamp \in Seq({g}),
         NEW v \in Contents, v # r.val
  PROVE  /\ Newer(Write(r, g, v), r)
         /\ Write(r, g, v).stamp \in Seq({g})
<1>1. Len(Append(r.stamp, g)) = Len(r.stamp) + 1 /\ Len(r.stamp) \in Nat
      /\ Append(r.stamp, g) \in Seq({g})
  OBVIOUS
<1>2. Write(r, g, v).val = v
      /\ Write(r, g, v).stamp = IF v = Gone THEN r.stamp ELSE Append(r.stamp, g)
  BY DEF Write
<1> QED BY <1>1, <1>2 DEF Newer

\* A newer entry of the same author replaces the one held.
LEMMA NewerWins ==
  ASSUME NEW g \in Editors, NEW r \in Entries, NEW u \in Entries,
         r.stamp \in Seq({g}), u.stamp \in Seq({g}), Newer(u, r)
  PROVE  Merge(r, u) = u
<1>1. Len(r.stamp) \in Nat /\ Len(u.stamp) \in Nat
  OBVIOUS
<1>2. CASE Len(u.stamp) > Len(r.stamp)
  <2>1. SubSeq(u.stamp, 1, Len(r.stamp)) \in Seq({g}) /\ Len(SubSeq(u.stamp, 1, Len(r.stamp))) = Len(r.stamp)
    BY <1>1, <1>2
  <2>2. \A k \in 1 .. Len(r.stamp) : SubSeq(u.stamp, 1, Len(r.stamp))[k] = r.stamp[k]
    BY <2>1
  <2>3. SubSeq(u.stamp, 1, Len(r.stamp)) = r.stamp
    BY <2>1, <2>2, SeqEqual
  <2> QED BY <1>2, <2>3 DEF Merge, Later
<1>3. CASE Len(u.stamp) = Len(r.stamp) /\ u.val = Gone
  <2>1. \A k \in 1 .. Len(r.stamp) : u.stamp[k] = r.stamp[k]
    BY <1>3
  <2>2. u.stamp = r.stamp
    BY <1>3, <2>1, SeqEqual
  <2> QED BY <1>3, <2>2 DEF Merge
<1> QED BY <1>2, <1>3 DEF Newer

\* What is appended to a queue is what it leads to.
LEMMA LeadsOn ==
  ASSUME NEW n \in Nat, NEW q, NEW r, DOMAIN q = 1 .. n, DOMAIN r = 1 .. n + 1,
         \A k \in 1 .. n : r[k] = q[k],
         NEW i, NEW first, NEW last, LeadsTo(q, i, first, last)
  PROVE  /\ i \notin DOMAIN r[n + 1] => LeadsTo(r, i, first, last)
         /\ i \in DOMAIN r[n + 1] => LeadsTo(r, i, first, r[n + 1][i])
<1>1. \A k \in DOMAIN r : k \in DOMAIN q \/ k = n + 1
  OBVIOUS
<1>2. \A k \in DOMAIN q : k \in DOMAIN r /\ r[k] = q[k] /\ n + 1 > k /\ k \in Nat
  OBVIOUS
<1>3. n + 1 \in DOMAIN r
  OBVIOUS
<1>4. ASSUME i \notin DOMAIN r[n + 1] PROVE LeadsTo(r, i, first, last)
  BY <1>1, <1>2, <1>3, <1>4 DEF LeadsTo
<1>5. ASSUME i \in DOMAIN r[n + 1] PROVE LeadsTo(r, i, first, r[n + 1][i])
  BY <1>1, <1>2, <1>3, <1>5 DEF LeadsTo
<1> QED BY <1>4, <1>5

\* Taking the head of a queue leaves what it says of i first.
LEMMA LeadsOff ==
  ASSUME NEW n \in Nat, NEW q, NEW r, DOMAIN q = 1 .. n + 1, DOMAIN r = 1 .. n,
         \A k \in 1 .. n : r[k] = q[k + 1],
         NEW i, NEW first, NEW last, LeadsTo(q, i, first, last)
  PROVE  /\ i \notin DOMAIN q[1] => LeadsTo(r, i, first, last)
         /\ i \in DOMAIN q[1] => LeadsTo(r, i, q[1][i], last)
<1>1. \A k \in DOMAIN r : k + 1 \in DOMAIN q /\ r[k] = q[k + 1] /\ k \in Nat
  OBVIOUS
<1>2. \A k \in DOMAIN q : k = 1 \/ (k - 1 \in DOMAIN r /\ r[k - 1] = q[k])
  OBVIOUS
<1>3. 1 \in DOMAIN q /\ \A k \in DOMAIN q : k \in Nat
  OBVIOUS
<1>4. ASSUME NEW k \in DOMAIN r, i \in DOMAIN r[k], \A j \in DOMAIN r : j > k => i \notin DOMAIN r[j]
      PROVE  r[k][i] = last
  <2>1. k + 1 \in DOMAIN q /\ i \in DOMAIN q[k + 1] /\ r[k][i] = q[k + 1][i]
    BY <1>1, <1>4
  <2>2. ASSUME NEW j \in DOMAIN q, j > k + 1 PROVE i \notin DOMAIN q[j]
    <3>1. j \in Nat /\ k \in Nat /\ j # 1
      BY <1>1, <1>3, <2>2
    <3>2. j - 1 \in DOMAIN r /\ r[j - 1] = q[j] /\ j - 1 > k
      BY <1>2, <2>2, <3>1
    <3> QED BY <1>4, <3>2
  <2> QED BY <2>1, <2>2 DEF LeadsTo
<1>5. ASSUME \A k \in DOMAIN r : i \notin DOMAIN r[k]
      PROVE  \A j \in DOMAIN q : j > 1 => i \notin DOMAIN q[j]
  BY <1>2, <1>3, <1>5
<1>6. ASSUME \A k \in DOMAIN r : i \notin DOMAIN r[k], i \in DOMAIN q[1] PROVE q[1][i] = last
  BY <1>3, <1>5, <1>6 DEF LeadsTo
<1>7. ASSUME \A k \in DOMAIN r : i \notin DOMAIN r[k], i \notin DOMAIN q[1] PROVE first = last
  <2>1. \A k \in DOMAIN q : i \notin DOMAIN q[k]
    BY <1>2, <1>7
  <2> QED BY <2>1 DEF LeadsTo
<1>8. ASSUME i \notin DOMAIN q[1] PROVE LeadsTo(r, i, first, last)
  BY <1>4, <1>7, <1>8 DEF LeadsTo
<1>9. ASSUME i \in DOMAIN q[1] PROVE LeadsTo(r, i, q[1][i], last)
  BY <1>4, <1>6, <1>9 DEF LeadsTo
<1> QED BY <1>8, <1>9

LEMMA OrderedOn ==
  ASSUME NEW n \in Nat, NEW q, NEW r, DOMAIN q = 1 .. n, DOMAIN r = 1 .. n + 1,
         \A k \in 1 .. n : r[k] = q[k],
         NEW i, NEW first \in Entries, NEW last \in Entries, Ordered(q, i, first, last),
         \A k \in DOMAIN r : i \in DOMAIN r[k] => r[k][i] \in Entries
  PROVE  /\ i \notin DOMAIN r[n + 1] => Ordered(r, i, first, last)
         /\ i \in DOMAIN r[n + 1] /\ Newer(r[n + 1][i], last) => Ordered(r, i, first, r[n + 1][i])
<1>1. \A k \in DOMAIN r : k \in DOMAIN q \/ k = n + 1
  OBVIOUS
<1>2. \A k \in DOMAIN q : k \in DOMAIN r /\ r[k] = q[k] /\ ~ (n + 1 < k) /\ k \in Nat
  OBVIOUS
<1>3. n + 1 \in DOMAIN r /\ ~ (n + 1 < n + 1)
  OBVIOUS
<1>4. ASSUME i \notin DOMAIN r[n + 1] PROVE Ordered(r, i, first, last)
  BY <1>1, <1>2, <1>3, <1>4 DEF Ordered
<1>5. ASSUME i \in DOMAIN r[n + 1], Newer(r[n + 1][i], last) PROVE Ordered(r, i, first, r[n + 1][i])
  <2> DEFINE new == r[n + 1][i]
  <2>1. new \in Entries
    BY <1>3, <1>5
  <2> HIDE DEF new
  <2>2. Newer(new, last)
    BY <1>5 DEF new
  <2>3. Newer(new, first)
    BY <2>1, <2>2, NewerFacts DEF Ordered
  <2>4. ASSUME NEW k \in DOMAIN q, i \in DOMAIN q[k] PROVE Newer(new, q[k][i])
    <3>1. q[k][i] \in Entries
      BY <1>2, <2>4
    <3> QED BY <2>1, <2>2, <2>4, <3>1, NewerFacts DEF Ordered
  <2>5. ASSUME NEW k \in DOMAIN r, i \in DOMAIN r[k]
        PROVE  /\ Newer(r[k][i], first)
               /\ r[k][i] = new \/ Newer(new, r[k][i])
               /\ \A j \in DOMAIN r : j < k /\ i \in DOMAIN r[j] => Newer(r[k][i], r[j][i])
    <3>1. CASE k \in DOMAIN q
      BY <1>1, <1>2, <2>4, <2>5, <3>1 DEF Ordered
    <3>2. CASE k = n + 1
      BY <1>1, <1>2, <1>3, <2>3, <2>4, <3>2 DEF new
    <3> QED BY <1>1, <3>1, <3>2
  <2> QED BY <2>3, <2>5 DEF Ordered, new
<1> QED BY <1>4, <1>5

LEMMA OrderedOff ==
  ASSUME NEW n \in Nat, NEW q, NEW r, DOMAIN q = 1 .. n + 1, DOMAIN r = 1 .. n,
         \A k \in 1 .. n : r[k] = q[k + 1],
         NEW i, NEW first, NEW last, Ordered(q, i, first, last)
  PROVE  /\ i \notin DOMAIN q[1] => Ordered(r, i, first, last)
         /\ i \in DOMAIN q[1] => Ordered(r, i, q[1][i], last)
<1>1. \A k \in DOMAIN r : k + 1 \in DOMAIN q /\ r[k] = q[k + 1] /\ k \in Nat /\ 1 < k + 1
  OBVIOUS
<1>2. 1 \in DOMAIN q
  OBVIOUS
<1>3. ASSUME NEW k \in DOMAIN r, i \in DOMAIN r[k]
      PROVE  /\ Newer(r[k][i], first)
             /\ r[k][i] = last \/ Newer(last, r[k][i])
             /\ i \in DOMAIN q[1] => Newer(r[k][i], q[1][i])
             /\ \A j \in DOMAIN r : j < k /\ i \in DOMAIN r[j] => Newer(r[k][i], r[j][i])
  <2>1. k + 1 \in DOMAIN q /\ r[k] = q[k + 1] /\ 1 < k + 1
    BY <1>1
  <2>2. \A j \in DOMAIN r : j < k => j + 1 < k + 1 /\ j + 1 \in DOMAIN q /\ r[j] = q[j + 1]
    BY <1>1
  <2> QED BY <1>2, <1>3, <2>1, <2>2 DEF Ordered
<1>4. first = last \/ Newer(last, first)
  BY DEF Ordered
<1>5. i \in DOMAIN q[1] => q[1][i] = last \/ Newer(last, q[1][i])
  BY <1>2 DEF Ordered
<1> QED BY <1>3, <1>4, <1>5 DEF Ordered

LEMMA TrackedOn ==
  ASSUME NEW g \in Editors, NEW q \in Seq(Updates), NEW i, NEW new \in Updates,
         NEW r \in Entries, NEW u \in Entries, Tracked(g, q, i, r, u)
  PROVE  /\ i \notin DOMAIN new => Tracked(g, Append(q, new), i, r, u)
         /\ i \in DOMAIN new /\ Newer(new[i], u) /\ new[i].stamp \in Seq({g}) =>
              Tracked(g, Append(q, new), i, r, new[i])
<1> DEFINE s == Append(q, new)
<1>1. /\ s \in Seq(Updates) /\ Len(q) \in Nat /\ DOMAIN q = 1 .. Len(q) /\ DOMAIN s = 1 .. Len(q) + 1
      /\ s[Len(q) + 1] = new /\ \A k \in 1 .. Len(q) : s[k] = q[k]
  OBVIOUS
<1>2. \A k \in DOMAIN s : i \in DOMAIN s[k] => s[k][i] \in Entries
  BY <1>1, WireFacts
<1>3. \A k \in DOMAIN s : \/ k \in DOMAIN q /\ s[k] = q[k]
                          \/ s[k] = new
  BY <1>1
<1> HIDE DEF s
<1>4. ASSUME i \notin DOMAIN new PROVE Tracked(g, s, i, r, u)
  <2>1. LeadsTo(s, i, r, u)
    BY <1>1, <1>4, LeadsOn DEF Tracked
  <2>2. Ordered(s, i, r, u)
    BY <1>1, <1>2, <1>4, OrderedOn DEF Tracked
  <2> QED BY <1>3, <1>4, <2>1, <2>2 DEF Tracked
<1>5. ASSUME i \in DOMAIN new, Newer(new[i], u), new[i].stamp \in Seq({g})
      PROVE  Tracked(g, s, i, r, new[i])
  <2>1. LeadsTo(s, i, r, new[i])
    BY <1>1, <1>5, LeadsOn DEF Tracked
  <2>2. Ordered(s, i, r, new[i])
    BY <1>1, <1>2, <1>5, OrderedOn DEF Tracked
  <2> QED BY <1>3, <1>5, <2>1, <2>2 DEF Tracked
<1> QED BY <1>4, <1>5 DEF s

LEMMA TrackedOff ==
  ASSUME NEW g \in Editors, NEW q \in Seq(Updates), q # <<>>, NEW i, NEW r, NEW u,
         Tracked(g, q, i, r, u)
  PROVE  /\ i \notin DOMAIN Head(q) => Tracked(g, Tail(q), i, r, u)
         /\ i \in DOMAIN Head(q) => /\ Tracked(g, Tail(q), i, Head(q)[i], u)
                                   /\ Newer(Head(q)[i], r)
                                   /\ Head(q)[i].stamp \in Seq({g})
<1> DEFINE s == Tail(q)
           n == Len(q) - 1
<1>1. /\ n \in Nat /\ DOMAIN q = 1 .. n + 1 /\ DOMAIN s = 1 .. n /\ Head(q) = q[1]
      /\ \A k \in 1 .. n : s[k] = q[k + 1]
  BY EmptySeq
<1> HIDE DEF s, n
<1>2. 1 \in DOMAIN q /\ \A k \in DOMAIN s : k + 1 \in DOMAIN q /\ s[k] = q[k + 1]
  BY <1>1
<1>3. LeadsTo(q, i, r, u) /\ Ordered(q, i, r, u) /\ r.stamp \in Seq({g}) /\ u.stamp \in Seq({g})
      /\ \A k \in DOMAIN q : i \in DOMAIN q[k] => q[k][i].stamp \in Seq({g})
  BY DEF Tracked
<1>4. ASSUME i \notin DOMAIN q[1] PROVE Tracked(g, s, i, r, u)
  BY <1>1, <1>2, <1>3, <1>4, LeadsOff, OrderedOff DEF Tracked
<1>5. ASSUME i \in DOMAIN q[1]
      PROVE  Tracked(g, s, i, q[1][i], u) /\ Newer(q[1][i], r) /\ q[1][i].stamp \in Seq({g})
  <2>1. LeadsTo(s, i, q[1][i], u) /\ Ordered(s, i, q[1][i], u)
    BY <1>1, <1>3, <1>5, LeadsOff, OrderedOff
  <2>2. Newer(q[1][i], r)
    BY <1>2, <1>3, <1>5 DEF Ordered
  <2> QED BY <1>2, <1>3, <1>5, <2>1, <2>2 DEF Tracked
<1> QED BY <1>1, <1>4, <1>5 DEF s

LEMMA QueueOn ==
  ASSUME NEW q \in Seq(Bodies), NEW b \in Bodies, NEW i, NEW first, NEW last,
         LeadsTo(WiresOf(q), i, first, last)
  PROVE  /\ i \notin DOMAIN b.wire => LeadsTo(WiresOf(Append(q, b)), i, first, last)
         /\ i \in DOMAIN b.wire => LeadsTo(WiresOf(Append(q, b)), i, first, b.wire[i])
<1> DEFINE s == Append(q, b)
           n == Len(q)
<1>1. n \in Nat /\ DOMAIN q = 1 .. n /\ DOMAIN s = 1 .. n + 1
      /\ s[n + 1] = b /\ \A k \in 1 .. n : s[k] = q[k]
  OBVIOUS
<1> HIDE DEF s, n
<1>2. /\ DOMAIN WiresOf(q) = 1 .. n /\ DOMAIN WiresOf(s) = 1 .. n + 1
      /\ WiresOf(s)[n + 1] = b.wire /\ \A k \in 1 .. n : WiresOf(s)[k] = WiresOf(q)[k]
  BY <1>1 DEF WiresOf
<1>3. /\ i \notin DOMAIN WiresOf(s)[n + 1] => LeadsTo(WiresOf(s), i, first, last)
      /\ i \in DOMAIN WiresOf(s)[n + 1] => LeadsTo(WiresOf(s), i, first, WiresOf(s)[n + 1][i])
  BY <1>1, <1>2, LeadsOn
<1> QED BY <1>2, <1>3 DEF s

LEMMA QueueOff ==
  ASSUME NEW q \in Seq(Bodies), q # <<>>, NEW i, NEW first, NEW last,
         LeadsTo(WiresOf(q), i, first, last)
  PROVE  LeadsTo(WiresOf(Tail(q)), i,
                 IF i \in DOMAIN Head(q).wire THEN Head(q).wire[i] ELSE first, last)
<1> DEFINE s == Tail(q)
           n == Len(q) - 1
<1>1. /\ n \in Nat /\ DOMAIN q = 1 .. n + 1 /\ DOMAIN s = 1 .. n /\ Head(q) = q[1]
      /\ \A k \in 1 .. n : s[k] = q[k + 1]
  BY EmptySeq
<1> HIDE DEF s, n
<1>2. /\ DOMAIN WiresOf(q) = 1 .. n + 1 /\ DOMAIN WiresOf(s) = 1 .. n
      /\ WiresOf(q)[1] = Head(q).wire /\ \A k \in 1 .. n : WiresOf(s)[k] = WiresOf(q)[k + 1]
  BY <1>1 DEF WiresOf
<1>3. /\ i \notin DOMAIN WiresOf(q)[1] => LeadsTo(WiresOf(s), i, first, last)
      /\ i \in DOMAIN WiresOf(q)[1] => LeadsTo(WiresOf(s), i, WiresOf(q)[1][i], last)
  BY <1>1, <1>2, LeadsOff
<1> QED BY <1>2, <1>3 DEF s

LEMMA FollowInvStep ==
  ASSUME TypeInv, EchoInv, FollowInv, [Next]_vars
  PROVE  FollowInv'
<1> SUFFICES ASSUME NEW g \in Editors, NEW i \in Items, Owners[i] = {g},
                    NEW f \in Editors, f # g
             PROVE  Followed(g, f, i)'
  BY DEF FollowInv
<1>1. /\ Tracked(g, channel[g][f], i, doc[f][i], doc[g][i])
      /\ LeadsTo(WiresOf(fibers[f]), i, model[f][i], doc[f][i].val)
  BY DEF FollowInv, Followed
<1>2. /\ fibers[f] \in Seq(Bodies) /\ channel[g][f] \in Seq(Updates)
      /\ doc[f][i] \in Entries /\ doc[g][i] \in Entries /\ model[g][i] \in Contents
  BY DEF TypeInv
<1>0. ASSUME Tracked(g, channel'[g][f], i, doc'[f][i], doc'[g][i]),
             LeadsTo(WiresOf(fibers'[f]), i, model'[f][i], doc'[f][i].val)
      PROVE  Followed(g, f, i)'
  BY <1>0 DEF Followed, Tracked, Ordered, Newer, LeadsTo, WiresOf
\* What the action of an editor other than f leaves alone.
<1>3. ASSUME NEW d \in Editors, OthersSame(d), d # f,
             Tracked(g, channel'[g][f], i, doc[f][i], doc'[g][i])
      PROVE  Followed(g, f, i)'
  <2>1. fibers'[f] = fibers[f] /\ model'[f] = model[f] /\ doc'[f] = doc[f]
    BY <1>3 DEF OthersSame
  <2> QED BY <1>0, <1>1, <1>3, <2>1
<1>4. ASSUME channel'[g][f] = channel[g][f], doc'[f][i] = doc[f][i], doc'[g][i] = doc[g][i],
             LeadsTo(WiresOf(fibers'[f]), i, model'[f][i], doc[f][i].val)
      PROVE  Followed(g, f, i)'
  BY <1>0, <1>1, <1>4
\* A flush that f schedules names nothing.
<1>5. ASSUME fibers'[f] \in {fibers[f], Append(fibers[f], Flush)}, model'[f][i] = model[f][i]
      PROVE  LeadsTo(WiresOf(fibers'[f]), i, model'[f][i], doc[f][i].val)
  <2>1. Flush \in Bodies /\ i \notin DOMAIN Flush.wire
    BY BodyFacts, WireFacts
  <2>2. LeadsTo(WiresOf(Append(fibers[f], Flush)), i, model[f][i], doc[f][i].val)
    BY <1>1, <1>2, <2>1, QueueOn
  <2> QED BY <1>1, <1>5, <2>2
<1>6. ASSUME NEW d \in Editors, NEW j \in Items, LocalEdit(d, j) PROVE Followed(g, f, i)'
  <2>1. OthersSame(d) /\ UNCHANGED <<doc, channel>>
    BY <1>6, EditStep
  <2>2. CASE d # f
    BY <1>1, <1>3, <2>1, <2>2
  <2>3. CASE d = f
    <3>1. f \in Owners[j]
      BY <1>6, <2>3, EditStep
    <3>2. i # j
      BY <3>1
    <3>3. LocalEdit(f, j)
      BY <1>6, <2>3
    <3>4. model'[f][i] = model[f][i]
      BY <3>2, <3>3, EditStep
    <3>5. fibers'[f] \in {fibers[f], Append(fibers[f], Flush)}
      BY <3>3, EditStep
    <3> QED BY <1>4, <1>5, <2>1, <3>4, <3>5
  <2> QED BY <2>2, <2>3
<1>7. ASSUME NEW d \in Editors, DoFlush(d) PROVE Followed(g, f, i)'
  <2>1. OthersSame(d) /\ UNCHANGED model /\ applying[d] = NoWire /\ fibers[d] # <<>>
        /\ Head(fibers[d]) = Flush /\ fibers'[d] = Tail(fibers[d])
    BY <1>7, FlushStep
  <2>2. /\ \A j \in Items :
              doc'[d][j] = IF j \in Written(d) THEN Update(d)[j] ELSE doc[d][j]
        /\ Update(d) \in Updates /\ DOMAIN Update(d) = Written(d)
        /\ \A j \in Written(d) : Update(d)[j] = Write(doc[d][j], d, model[d][j])
        /\ \A c, h \in Editors : channel'[c][h] =
              IF c = d /\ h # d /\ Written(d) # {} THEN Append(channel[d][h], Update(d))
                                                 ELSE channel[c][h]
    BY <1>7, FlushStep
  <2>3. CASE d = f
    <3>1. i \notin Written(f)
      BY <2>1, <2>3, WrittenIsOwned DEF Owned
    <3>2. doc'[f][i] = doc[f][i] /\ doc'[g] = doc[g] /\ channel'[g][f] = channel[g][f]
      BY <2>1, <2>2, <2>3, <3>1 DEF OthersSame
    <3>3. LeadsTo(WiresOf(fibers'[f]), i, model'[f][i], doc[f][i].val)
      <4>1. i \notin DOMAIN Head(fibers[f]).wire
        BY <2>1, <2>3, BodyFacts, WireFacts
      <4>2. LeadsTo(WiresOf(Tail(fibers[f])), i, IF i \in DOMAIN Head(fibers[f]).wire
                      THEN Head(fibers[f]).wire[i] ELSE model[f][i], doc[f][i].val)
        BY <1>1, <1>2, <2>1, <2>3, QueueOff
      <4> QED BY <2>1, <2>3, <4>1, <4>2
    <3> QED BY <1>4, <3>2, <3>3
  <2>4. CASE d = g
    <3> DEFINE new == Update(g)
    <3>1. new \in Updates /\ DOMAIN new = Written(g)
      BY <2>2, <2>4
    <3>2. CASE i \notin Written(g)
      <4>1. doc'[g][i] = doc[g][i]
        BY <2>2, <2>4, <3>2
      <4>2. channel'[g][f] \in {channel[g][f], Append(channel[g][f], new)}
        BY <2>2, <2>4
      <4> HIDE DEF new
      <4>3. Tracked(g, Append(channel[g][f], new), i, doc[f][i], doc[g][i])
        BY <1>1, <1>2, <3>1, <3>2, TrackedOn
      <4>4. Tracked(g, channel'[g][f], i, doc[f][i], doc'[g][i])
        BY <1>1, <4>1, <4>2, <4>3
      <4> QED BY <1>3, <2>1, <2>4, <4>4
    <3>3. CASE i \in Written(g)
      <4>1. doc'[g][i] = new[i] /\ channel'[g][f] = Append(channel[g][f], new)
            /\ new[i] = Write(doc[g][i], g, model[g][i])
        BY <2>2, <2>4, <3>3
      <4>2. model[g][i] # doc[g][i].val /\ doc[g][i].stamp \in Seq({g})
        BY <1>1, <3>3 DEF Written, Tracked
      <4> HIDE DEF new
      <4>3. Newer(new[i], doc[g][i]) /\ new[i].stamp \in Seq({g})
        BY <1>2, <4>1, <4>2, WriteIsNewer
      <4>4. Tracked(g, Append(channel[g][f], new), i, doc[f][i], new[i])
        BY <1>1, <1>2, <3>1, <3>3, <4>3, TrackedOn
      <4>5. Tracked(g, channel'[g][f], i, doc[f][i], doc'[g][i])
        BY <4>1, <4>4
      <4> QED BY <1>3, <2>1, <2>4, <4>5
    <3> QED BY <3>2, <3>3
  <2>5. CASE d # f /\ d # g
    <3>1. channel'[g][f] = channel[g][f] /\ doc'[g] = doc[g]
      BY <2>1, <2>2, <2>5 DEF OthersSame
    <3>2. Tracked(g, channel'[g][f], i, doc[f][i], doc'[g][i])
      BY <1>1, <3>1
    <3> QED BY <1>3, <2>1, <2>5, <3>2
  <2> QED BY <2>3, <2>4, <2>5
<1>8. ASSUME NEW d \in Editors, ApplyBegin(d) PROVE Followed(g, f, i)'
  <2>1. OthersSame(d) /\ UNCHANGED <<doc, channel>>
    BY <1>8, BeginStep
  <2>2. CASE d # f
    BY <1>1, <1>3, <2>1, <2>2
  <2>3. CASE d = f
    <3>1. fibers[f] # <<>> /\ fibers'[f] = Tail(fibers[f])
          /\ model'[f][i] = IF i \in DOMAIN Head(fibers[f]).wire
                              THEN Head(fibers[f]).wire[i] ELSE model[f][i]
      BY <1>8, <2>3, BeginStep
    <3>2. LeadsTo(WiresOf(Tail(fibers[f])), i, IF i \in DOMAIN Head(fibers[f]).wire
                      THEN Head(fibers[f]).wire[i] ELSE model[f][i], doc[f][i].val)
      BY <1>1, <1>2, <3>1, QueueOff
    <3>3. LeadsTo(WiresOf(fibers'[f]), i, model'[f][i], doc[f][i].val)
      BY <3>1, <3>2
    <3> QED BY <1>4, <2>1, <3>3
  <2> QED BY <2>2, <2>3
<1>9. ASSUME NEW d \in Editors, ApplyEnd(d) PROVE Followed(g, f, i)'
  <2>1. OthersSame(d) /\ UNCHANGED <<model, doc, channel>>
    BY <1>9, EndStep
  <2>2. CASE d # f
    BY <1>1, <1>3, <2>1, <2>2
  <2>3. CASE d = f
    <3>1. fibers'[f] \in {fibers[f], Append(fibers[f], Flush)} /\ model'[f][i] = model[f][i]
      BY <1>9, <2>1, <2>3, EndStep
    <3> QED BY <1>4, <1>5, <2>1, <3>1
  <2> QED BY <2>2, <2>3
<1>10. ASSUME NEW d \in Editors, NEW h \in Editors, Receive(d, h) PROVE Followed(g, f, i)'
  <2>1. /\ OthersSame(d) /\ d # h /\ channel[h][d] # <<>> /\ UNCHANGED model
        /\ doc'[d][i] = Merged(d, Head(channel[h][d]), i)
        /\ channel'[h][d] = Tail(channel[h][d])
        /\ \A a, b \in Editors : a # h \/ b # d => channel'[a][b] = channel[a][b]
    BY <1>10, ReceiveStep
  <2>2. CASE d = g
    <3>1. i \notin DOMAIN Head(channel[h][g])
      BY <2>1, <2>2, NoneIncoming
    <3>2. doc'[g][i] = doc[g][i] /\ channel'[g][f] = channel[g][f]
      BY <2>1, <2>2, <3>1 DEF Merged
    <3> QED BY <1>1, <1>3, <2>1, <2>2, <3>2
  <2>3. CASE d # g /\ d # f
    <3>1. doc'[g] = doc[g] /\ channel'[g][f] = channel[g][f]
      BY <2>1, <2>3 DEF OthersSame
    <3> QED BY <1>1, <1>3, <2>1, <2>3, <3>1
  <2>4. CASE d = f
    <3> DEFINE taken == Head(channel[h][f])
    <3>1. doc'[g] = doc[g] /\ doc'[f][i] = Merged(f, taken, i)
      BY <2>1, <2>4 DEF OthersSame
    <3>2. /\ Changed(f, taken) = {} => fibers' = fibers
          /\ Changed(f, taken) # {} => \E w \in Wires :
                /\ DOMAIN w = Changed(f, taken)
                /\ \A j \in DOMAIN w : w[j] = doc'[f][j].val
                /\ fibers'[f] = Append(fibers[f], Apply(w))
      BY <1>10, <2>4, ReceiveStep
    <3> HIDE DEF taken
    <3>3. LeadsTo(WiresOf(fibers'[f]), i, model'[f][i], doc'[f][i].val)
      <4>1. CASE Changed(f, taken) = {}
        <5>1. doc'[f][i] = doc[f][i] /\ fibers' = fibers
          BY <3>1, <3>2, <4>1 DEF Changed
        <5> QED BY <1>1, <2>1, <5>1
      <4>2. CASE Changed(f, taken) # {}
        <5>1. PICK w \in Wires : /\ DOMAIN w = Changed(f, taken)
                                 /\ \A j \in DOMAIN w : w[j] = doc'[f][j].val
                                 /\ fibers'[f] = Append(fibers[f], Apply(w))
          BY <3>2, <4>2
        <5>2. Apply(w) \in Bodies /\ Apply(w).wire = w
          BY BodyFacts
        <5>3. i \notin DOMAIN w => doc'[f][i] = doc[f][i]
          BY <3>1, <5>1 DEF Changed
        <5>4. /\ i \notin DOMAIN w =>
                   LeadsTo(WiresOf(Append(fibers[f], Apply(w))), i, model[f][i], doc[f][i].val)
              /\ i \in DOMAIN w =>
                   LeadsTo(WiresOf(Append(fibers[f], Apply(w))), i, model[f][i], w[i])
          BY <1>1, <1>2, <5>2, QueueOn
        <5> QED BY <2>1, <5>1, <5>3, <5>4
      <4> QED BY <4>1, <4>2
    <3>4. Tracked(g, channel'[g][f], i, doc'[f][i], doc'[g][i])
      <4>1. CASE h # g
        <5>1. channel[h][f] \in Seq(Updates) /\ 1 \in DOMAIN channel[h][f] /\ taken = channel[h][f][1]
          BY <2>1, <2>4, EmptySeq DEF TypeInv, taken
        <5>2. DOMAIN taken \subseteq Owned(h)
          BY <5>1 DEF EchoInv
        <5>3. doc'[f][i] = doc[f][i] /\ channel'[g][f] = channel[g][f]
          BY <2>1, <2>4, <3>1, <4>1, <5>2 DEF Merged, Owned
        <5> QED BY <1>1, <3>1, <5>3
      <4>2. CASE h = g
        <5>1. channel[g][f] # <<>> /\ channel'[g][f] = Tail(channel[g][f]) /\ taken = Head(channel[g][f])
          BY <2>1, <2>4, <4>2 DEF taken
        <5>2. /\ i \notin DOMAIN taken => Tracked(g, Tail(channel[g][f]), i, doc[f][i], doc[g][i])
              /\ i \in DOMAIN taken => /\ Tracked(g, Tail(channel[g][f]), i, taken[i], doc[g][i])
                                      /\ Newer(taken[i], doc[f][i])
                                      /\ taken[i].stamp \in Seq({g})
          BY <1>1, <1>2, <5>1, TrackedOff
        <5>3. CASE i \notin DOMAIN taken
          BY <3>1, <5>1, <5>2, <5>3 DEF Merged
        <5>4. CASE i \in DOMAIN taken
          <6>1. taken \in Updates
            BY <1>2, <5>1
          <6>2. taken[i] \in Entries /\ doc[f][i].stamp \in Seq({g})
            BY <1>1, <5>4, <6>1, WireFacts DEF Tracked
          <6>3. Merge(doc[f][i], taken[i]) = taken[i]
            BY <1>2, <5>2, <5>4, <6>2, NewerWins
          <6> QED BY <3>1, <5>1, <5>2, <5>4, <6>3 DEF Merged
        <5> QED BY <5>3, <5>4
      <4> QED BY <4>1, <4>2
    <3> QED BY <1>0, <3>3, <3>4
  <2> QED BY <2>2, <2>3, <2>4
<1>11. CASE UNCHANGED vars
  BY <1>0, <1>1, <1>11 DEF vars, cpp
<1> QED BY <1>6, <1>7, <1>8, <1>9, <1>10, <1>11 DEF Next, FiberStep

LEMMA FollowInvInit == Init => FollowInv
<1> SUFFICES ASSUME Init, NEW g \in Editors, NEW i \in Items, NEW f \in Editors
             PROVE  Followed(g, f, i)
  BY DEF FollowInv
<1>1. /\ doc[f][i] = doc[g][i] /\ doc[g][i].stamp = <<>> /\ model[f][i] = doc[f][i].val
      /\ channel[g][f] = <<>> /\ fibers[f] = <<>>
  BY DEF Init
<1>2. DOMAIN channel[g][f] = {} /\ DOMAIN WiresOf(fibers[f]) = {} /\ <<>> \in Seq({g})
  BY <1>1 DEF WiresOf
<1> QED BY <1>1, <1>2 DEF Followed, Tracked, Ordered, LeadsTo

LEMMA FollowInvAlways == Spec => [](TypeInv /\ EchoInv /\ FollowInv)
<1>1. TypeInv /\ EchoInv /\ FollowInv /\ [Next]_vars => FollowInv'
  BY FollowInvStep
<1> QED BY <1>1, FollowInvInit, EchoInvAlways, PTL DEF Spec

\* With nothing in flight, the others show of an item what its only user's
\* replica holds.
OthersFollow ==
  Quiescent => \A g \in Editors, i \in Items : Owners[i] = {g} =>
                  \A f \in Editors \ {g} : /\ doc[f][i] = doc[g][i]
                                          /\ model[f][i] = doc[g][i].val

LEMMA Followers == FollowInv => OthersFollow
<1> SUFFICES ASSUME FollowInv, Quiescent, NEW g \in Editors, NEW i \in Items,
                    Owners[i] = {g}, NEW f \in Editors, f # g
             PROVE  doc[f][i] = doc[g][i] /\ model[f][i] = doc[g][i].val
  BY DEF OthersFollow
<1>1. DOMAIN fibers[f] = {} /\ DOMAIN channel[g][f] = {}
  BY DEF Quiescent, Idle
<1>2. /\ LeadsTo(channel[g][f], i, doc[f][i], doc[g][i])
      /\ LeadsTo(WiresOf(fibers[f]), i, model[f][i], doc[f][i].val)
  BY DEF FollowInv, Followed, Tracked
<1>3. DOMAIN WiresOf(fibers[f]) = {}
  BY <1>1 DEF WiresOf
<1> QED BY <1>1, <1>2, <1>3 DEF LeadsTo

(***************************************************************************)
(* Updates of an item that one user keeps to are neither lost nor          *)
(* overtaken on their way, whatever is committed during an apply: the      *)
(* other editors end with what that user's replica holds, on the board too.*)
(***************************************************************************)
THEOREM OwnItemsFollowed == Spec => []OthersFollow
BY Followers, FollowInvAlways, PTL

(***************************************************************************)
(* Editors with nothing left to do show the same of every item that one    *)
(* user keeps to, that user included, and every replica holds it: no edit  *)
(* is lost or undone between the board of its user and the others.  It     *)
(* takes what OwnEditsPublished takes.                                     *)
(***************************************************************************)
THEOREM OwnItemsConverged ==
  ASSUME "hidden" \notin ParkEdits
  PROVE  Spec => []OwnItemsConverge
<1>1. FlushInv /\ PublishInv /\ FollowInv => OwnItemsConverge
  <2> SUFFICES ASSUME FlushInv, PublishInv, FollowInv, Quiescent,
                      NEW e \in Editors, NEW f \in Editors, NEW i \in Items,
                      NEW g \in Editors, Owners[i] = {g}
               PROVE  model[e][i] = doc[f][i].val
    BY DEF OwnItemsConverge
  <2>1. DOMAIN fibers[g] = {} /\ applying[g] = NoWire
    BY DEF Quiescent, Idle
  <2>2. model[g][i] = doc[g][i].val
    BY <2>1 DEF PublishInv, Private, FlushInv, Pending
  <2>3. \A h \in Editors : h # g => model[h][i] = doc[h][i].val /\ doc[h][i] = doc[g][i]
    BY Followers DEF OthersFollow
  <2> QED BY <2>2, <2>3
<1> QED BY <1>1, FollowInvAlways, PublishInvAlways, PTL
=============================================================================
