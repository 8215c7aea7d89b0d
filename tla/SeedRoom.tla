------------------------------ MODULE SeedRoom ------------------------------
(***************************************************************************)
(* Who seeds an empty room.  Several tabs open the same fresh file: each   *)
(* connects its replica, waits for the provider's settle window and then   *)
(* decides between seeding the room from the opened file and adopting what *)
(* is there (bindKicadCollab().seed in src/web/standalone/src/wasm/collab/ *)
(* kicad-binding.ts).  The decision is check-then-act, so two tabs may     *)
(* both seed; a nonce in kdoc_meta arbitrates, and the loser retracts its  *)
(* layout inserts.                                                         *)
(*                                                                         *)
(* A replica is the set of tabs whose seed transaction it holds and the    *)
(* set whose layout inserts were deleted again.  Nonces are written only   *)
(* by tabs that saw none, so they are all concurrent and Y.Map keeps the   *)
(* one of the highest client id.  The transport is broadcast-transport.ts. *)
(***************************************************************************)
EXTENDS Naturals, Sequences, FiniteSets

CONSTANTS
  Tabs,      \* client ids of the tabs
  Viewers,   \* the tabs opened read-only
  Departures \* what a tab may do after it is bound: "park" the sheet, "close"

ASSUME TabsAssumption == Tabs \subseteq Nat /\ Viewers \subseteq Tabs
ASSUME DeparturesAssumption == Departures \subseteq {"park", "close"}

VARIABLES
  phase,     \* phase[t] \in Phases
  seeds,     \* seeds[t]: seed transactions in t's replica
  retracted, \* retracted[t]: seeds whose layout inserts are deleted there
  armed,     \* armed[t]: t's arbitration observer is attached
  channel    \* channel[f][t]: messages posted by f and not yet handled by t

replica == <<seeds, retracted>>
vars == <<phase, replica, armed, channel>>

Init == /\ phase = [t \in Tabs |-> "closed"]
        /\ seeds = [t \in Tabs |-> {}]
        /\ retracted = [t \in Tabs |-> {}]
        /\ armed = [t \in Tabs |-> FALSE]
        /\ channel = [f \in Tabs |-> [t \in Tabs |-> <<>>]]

\* A sheet is "bound" by seed(), and "rebound" when it is shown again.
Phases == {"closed", "settling", "bound", "parked", "rebound", "gone"}

Connected(t) == phase[t] \in {"settling", "bound", "parked", "rebound"}

Query == [kind |-> "query", seeds |-> {}, retracted |-> {}]
State(s, r) == [kind |-> "state", seeds |-> s, retracted |-> r]

\* Mutant: tabs that have not opened the channel get the message as well.
PostedToAll(f, ch, msg) ==
  [ch EXCEPT ![f] = [t \in Tabs |-> IF t # f THEN Append(@[t], msg) ELSE @[t]]]

\* A message posted by f joins whatever f posted before it, for every open tab.
Posted(f, ch, msg) ==
  [ch EXCEPT ![f] = [t \in Tabs |-> IF t # f /\ Connected(t) THEN Append(@[t], msg)
                                                            ELSE @[t]]]

\* The channel after t's onmessage took the oldest message of f.
Handled(f, t) == [channel EXCEPT ![f][t] = Tail(@)]

-----------------------------------------------------------------------------
\* connectBroadcastChannel: open the channel and ask for the current state.
Connect(t) ==
  /\ phase[t] = "closed"
  /\ phase' = [phase EXCEPT ![t] = "settling"]
  /\ channel' = Posted(t, channel, Query)
  /\ UNCHANGED <<replica, armed>>

\* Mutant: the observer of kdoc_meta is forgotten.
SeedUnarmed(t) ==
  /\ phase[t] = "settling"
  /\ seeds[t] = {}
  /\ t \notin Viewers
  /\ phase' = [phase EXCEPT ![t] = "bound"]
  /\ seeds' = [seeds EXCEPT ![t] = {t}]
  /\ channel' = Posted(t, channel, State({t}, {}))
  /\ UNCHANGED <<retracted, armed>>

\* seed() on a room whose replica is empty: write the file, arm the observer.
SeedFromFile(t) ==
  /\ phase[t] = "settling"
  /\ seeds[t] = {}
  /\ t \notin Viewers
  /\ phase' = [phase EXCEPT ![t] = "bound"]
  /\ seeds' = [seeds EXCEPT ![t] = {t}]
  /\ armed' = [armed EXCEPT ![t] = TRUE]
  /\ channel' = Posted(t, channel, State({t}, {}))
  /\ UNCHANGED retracted

\* seed() on a populated room, or by a viewer: nothing is written.
Adopt(t) ==
  /\ phase[t] = "settling"
  /\ seeds[t] # {} \/ t \in Viewers
  /\ phase' = [phase EXCEPT ![t] = "bound"]
  /\ UNCHANGED <<replica, armed, channel>>

\* A peer asks for the state: the reply is posted to the whole channel.
AnswerQuery(t, f) ==
  /\ Connected(t) /\ channel[f][t] # <<>>
  /\ Head(channel[f][t]).kind = "query"
  /\ channel' = Posted(t, Handled(f, t),
                       State(seeds[t], retracted[t]))
  /\ UNCHANGED <<phase, replica, armed>>

\* Mutant: the arbitration is lost to any foreign nonce.
LosesToAnyone(t, merged) == armed[t] /\ merged # {t}

\* onMeta: the nonce of another tab has won the merge.
LosesTo(t, merged) == armed[t] /\ \E u \in merged : u > t

\* Mutant: the retraction stays in the loser's own replica.
ReceiveQuietly(t, f) ==
  /\ Connected(t) /\ channel[f][t] # <<>>
  /\ Head(channel[f][t]).kind = "state"
  /\ LET msg == Head(channel[f][t])
         merged == seeds[t] \cup msg.seeds
         deleted == retracted[t] \cup msg.retracted
     IN /\ seeds' = [seeds EXCEPT ![t] = merged]
        /\ channel' = Handled(f, t)
        /\ retracted' = [retracted EXCEPT ![t] =
                           IF LosesTo(t, merged) THEN deleted \cup {t} ELSE deleted]
        /\ armed' = [armed EXCEPT ![t] = @ /\ ~LosesTo(t, merged)]
  /\ UNCHANGED phase

(***************************************************************************)
(* A state or update message is merged; if a foreign nonce wins the meta   *)
(* merge, the armed observer detaches itself and retracts our layout, a    *)
(* local transaction that is broadcast in turn.                            *)
(***************************************************************************)
Receive(t, f) ==
  /\ Connected(t) /\ channel[f][t] # <<>>
  /\ Head(channel[f][t]).kind = "state"
  /\ LET msg == Head(channel[f][t])
         merged == seeds[t] \cup msg.seeds
         deleted == retracted[t] \cup msg.retracted
         rest == Handled(f, t)
     IN /\ seeds' = [seeds EXCEPT ![t] = merged]
        /\ IF LosesTo(t, merged)
             THEN /\ retracted' = [retracted EXCEPT ![t] = deleted \cup {t}]
                  /\ armed' = [armed EXCEPT ![t] = FALSE]
                  /\ channel' = Posted(t, rest, State({}, {t}))
             ELSE /\ retracted' = [retracted EXCEPT ![t] = deleted]
                  /\ channel' = rest
                  /\ UNCHANGED armed
  /\ UNCHANGED phase

\* The sheet is left: destroy() of the binding detaches the arbitration.
Park(t) ==
  /\ "park" \in Departures
  /\ phase[t] \in {"bound", "rebound"}
  /\ phase' = [phase EXCEPT ![t] = "parked"]
  /\ armed' = [armed EXCEPT ![t] = FALSE]
  /\ UNCHANGED <<replica, channel>>

\* The sheet is shown again: a seeded room is adopted or only baselined.
Rebind(t) ==
  /\ phase[t] = "parked"
  /\ phase' = [phase EXCEPT ![t] = "rebound"]
  /\ UNCHANGED <<replica, armed, channel>>

\* The tab closes; its replica is lost with it.
Close(t) ==
  /\ "close" \in Departures
  /\ Connected(t)
  /\ phase' = [phase EXCEPT ![t] = "gone"]
  /\ armed' = [armed EXCEPT ![t] = FALSE]
  /\ channel' = [f \in Tabs |-> [channel[f] EXCEPT ![t] = <<>>]]
  /\ UNCHANGED replica

Handle(t, f) == AnswerQuery(t, f) \/ Receive(t, f)

Next == \/ \E t \in Tabs : \/ Connect(t) \/ SeedFromFile(t) \/ Adopt(t)
                           \/ Park(t) \/ Rebind(t) \/ Close(t)
        \/ \E t, f \in Tabs : Handle(t, f)

Spec == Init /\ [][Next]_vars

-----------------------------------------------------------------------------
Message == [kind : {"query", "state"}, seeds : SUBSET Tabs, retracted : SUBSET Tabs]

Channels == [Tabs -> [Tabs -> Seq(Message)]]

TypeOK ==
  /\ phase \in [Tabs -> Phases]
  /\ seeds \in [Tabs -> SUBSET Tabs]
  /\ retracted \in [Tabs -> SUBSET Tabs]
  /\ armed \in [Tabs -> BOOLEAN]
  /\ channel \in Channels
  /\ \A f, t \in Tabs : ~Connected(t) => channel[f][t] = <<>>

Settled == \A f, t \in Tabs : channel[f][t] = <<>>

Layouts(t) == seeds[t] \ retracted[t]

Seeded == {t \in Tabs : t \in seeds[t]}

(***************************************************************************)
(* Whoever gave up their layout did so for a seed with a higher client id  *)
(* that some tab really wrote: the highest seed is never retracted, so     *)
(* arbitration cannot delete every copy of the layout (seed(), onMeta).    *)
(***************************************************************************)
LosersHaveAWinner ==
  \A t, u \in Tabs : u \in retracted[t] => \E w \in Seeded : w > u

(***************************************************************************)
(* Once everything posted is handled, every replica that holds a seed      *)
(* holds exactly one layout sequence (bug 06: with two, every root item of *)
(* the file is rendered twice).                                            *)
(***************************************************************************)
OneLayout ==
  Settled => \A t \in Tabs :
               Connected(t) /\ seeds[t] # {} => Cardinality(Layouts(t)) = 1

\* The tab w closed, and t never heard of its seed.
DiedUnheard(w, t) == phase[w] = "gone" /\ w \notin seeds[t]

(***************************************************************************)
(* Where the arbitration fails, a tab has left: a second layout is of a    *)
(* tab that seeded and then left its sheet or closed before the nonce of a *)
(* better seed reached it; otherwise the author of the better seed closed  *)
(* before everybody heard of it.  The latter can also leave a replica with *)
(* no layout at all.                                                       *)
(***************************************************************************)
OneLayoutUnlessLeft ==
  Settled => \A t \in Tabs : Connected(t) /\ seeds[t] # {} =>
    /\ \A u, w \in Layouts(t) : u < w => phase[u] # "bound" \/ DiedUnheard(w, u)
    /\ Layouts(t) = {} => \E w \in Seeded : DiedUnheard(w, t)

(***************************************************************************)
(* A tab still on the sheet it seeded, whose layout stands, is armed and   *)
(* has seen no seed that beats it: no tab that lost forgets to retract.    *)
(***************************************************************************)
LosersAreArmed ==
  \A t \in Tabs :
     t \in seeds[t] /\ t \notin retracted[t] /\ phase[t] = "bound"
       => armed[t] /\ \A u \in seeds[t] : u <= t
=============================================================================
