---------------------------- MODULE SelectionLock ---------------------------
(***************************************************************************)
(* Selection soft-locks (lock-tiebreak.ts, bindKicadPresence in            *)
(* presence-kicad.ts, PRESENCE_CORE in src/wasm/bindings/                  *)
(* collab_presence_core.h).  What a client selects is published; every     *)
(* other client locks it against moving, and of two clients that hold one  *)
(* item the weaker releases it.  A selection is published by a check       *)
(* queued behind the event that made it, peers are folded in by a          *)
(* throttled push, and a release is queued behind the push: each step      *)
(* acts on what was known when it was queued.                              *)
(***************************************************************************)
EXTENDS Naturals, Sequences, FiniteSets

CONSTANTS
  Clients,      \* tabs in the order of beats(): the lower keeps an item
  Items,
  MaxPicks,     \* bound: changes of a selection by a user
  MaxInFlight   \* bound: states of one client queued for another

ASSUME ClientsAssumption == Clients \subseteq Nat /\ IsFiniteSet(Clients)

VARIABLES
  up,          \* clients whose tab is open
  selection,   \* selection[c]: the editor's selection
  checking,    \* clients with a selection check queued (selCheckScheduled)
  published,   \* published[c]: last emitted selection, in c's awareness state
  heard,       \* heard[c][d]: d's selection in c's awareness
  inbox,       \* inbox[d][c]: selections of d on their way to c
  pushing,     \* clients with a push timer
  locks,       \* locks[c]: items the editor refuses to move
  releases,    \* releases[c]: queued releaseSelection bodies
  picks

lockVars == <<up, selection, checking, published, heard, inbox, pushing, locks, releases, picks>>

Nothing == [d \in Clients |-> {}]

LockInit == /\ up = Clients
            /\ selection = Nothing /\ published = Nothing /\ locks = Nothing
            /\ heard = [c \in Clients |-> Nothing]
            /\ inbox = [d \in Clients |-> [c \in Clients |-> <<>>]]
            /\ checking = {} /\ pushing = {}
            /\ releases = [c \in Clients |-> <<>>]
            /\ picks = 0

Others(c) == Clients \ {c}

-----------------------------------------------------------------------------
\* Mutant: the winner locks what a loser still holds.
RemoteLocksAll(c) == UNION {heard[c][d] : d \in Others(c)}

\* Every item another client holds, unless c holds it and beats all of them.
RemoteLocks(c) ==
  {i \in UNION {heard[c][d] : d \in Others(c)} :
     i \in published[c] => \E d \in Others(c) : i \in heard[c][d] /\ d < c}

\* The items c holds and a stronger client holds too.
ContestedReleases(c) ==
  {i \in published[c] : \E d \in Others(c) : i \in heard[c][d] /\ d < c}

\* awareness.setLocalState: the new state goes to every open tab.
Announced(c, s) ==
  [inbox EXCEPT ![c] = [d \in Clients |-> IF d \in up \ {c} THEN Append(@[d], s) ELSE @[d]]]

HasRoom(c) == \A d \in Clients : Len(inbox[c][d]) < MaxInFlight

-----------------------------------------------------------------------------
\* A canvas event changes the selection and queues a check behind it.  A
\* locked item can be selected, only not moved.
Pick(c) ==
  /\ c \in up /\ picks < MaxPicks
  /\ \E s \in SUBSET Items \ {selection[c]} : selection' = [selection EXCEPT ![c] = s]
  /\ checking' = checking \cup {c}
  /\ picks' = picks + 1
  /\ UNCHANGED <<up, published, heard, inbox, pushing, locks, releases>>

\* checkSelection: an unchanged selection is not emitted again.  The local
\* state change reaches the client's own subscribers, which arm the push.
Check(c) ==
  /\ c \in checking
  /\ checking' = checking \ {c}
  /\ IF selection[c] = published[c]
       THEN UNCHANGED <<published, inbox, pushing>>
       ELSE /\ HasRoom(c)
            /\ published' = [published EXCEPT ![c] = selection[c]]
            /\ inbox' = Announced(c, selection[c])
            /\ pushing' = pushing \cup {c}
  /\ UNCHANGED <<up, selection, heard, locks, releases, picks>>

\* Mutant: a peer's change does not arm the push.
DeliverUnpushed(d, c) ==
  /\ inbox[d][c] # <<>>
  /\ heard' = [heard EXCEPT ![c][d] = Head(inbox[d][c])]
  /\ inbox' = [inbox EXCEPT ![d][c] = Tail(@)]
  /\ UNCHANGED <<up, selection, checking, published, pushing, locks, releases, picks>>

\* The awareness change event of a peer's state.
Deliver(d, c) ==
  /\ inbox[d][c] # <<>>
  /\ heard' = [heard EXCEPT ![c][d] = Head(inbox[d][c])]
  /\ inbox' = [inbox EXCEPT ![d][c] = Tail(@)]
  /\ pushing' = pushing \cup {c}
  /\ UNCHANGED <<up, selection, checking, published, locks, releases, picks>>

\* Mutant: the push timer is an interval.
PushRepeating(c) ==
  /\ c \in pushing
  /\ locks' = [locks EXCEPT ![c] = RemoteLocks(c)]
  /\ releases' = IF ContestedReleases(c) = {} THEN releases
                 ELSE [releases EXCEPT ![c] = Append(@, ContestedReleases(c))]
  /\ UNCHANGED <<up, selection, checking, published, heard, inbox, pushing, picks>>

\* pushRemote: replace the lock set, queue a release of what was lost.
Push(c) ==
  /\ c \in pushing
  /\ pushing' = pushing \ {c}
  /\ locks' = [locks EXCEPT ![c] = RemoteLocks(c)]
  /\ releases' = IF ContestedReleases(c) = {} THEN releases
                 ELSE [releases EXCEPT ![c] = Append(@, ContestedReleases(c))]
  /\ UNCHANGED <<up, selection, checking, published, heard, inbox, picks>>

\* The queued body of releaseSelection.
Release(c) ==
  /\ releases[c] # <<>>
  /\ releases' = [releases EXCEPT ![c] = Tail(@)]
  /\ selection' = [selection EXCEPT ![c] = @ \ Head(releases[c])]
  /\ checking' = checking \cup {c}
  /\ UNCHANGED <<up, published, heard, inbox, pushing, locks, picks>>

\* Mutant: the push timer outlives the binding.
GoneTimerLeft(c) ==
  /\ c \in up
  /\ up' = up \ {c} /\ checking' = checking \ {c}
  /\ selection' = [selection EXCEPT ![c] = {}]
  /\ published' = [published EXCEPT ![c] = {}]
  /\ releases' = [releases EXCEPT ![c] = <<>>]
  /\ UNCHANGED <<heard, locks, pushing, picks>>

\* The tab is gone, with everything it had queued.
Gone(c) ==
  /\ c \in up
  /\ up' = up \ {c} /\ checking' = checking \ {c} /\ pushing' = pushing \ {c}
  /\ selection' = [selection EXCEPT ![c] = {}]
  /\ published' = [published EXCEPT ![c] = {}]
  /\ releases' = [releases EXCEPT ![c] = <<>>]
  /\ UNCHANGED <<heard, locks, picks>>

\* pagehide or destroy: the null state is announced first.
Leave(c) ==
  /\ Gone(c) /\ HasRoom(c)
  /\ inbox' = [d \in Clients |-> [Announced(c, {})[d] EXCEPT ![c] = <<>>]]

\* The tab dies without a word.
Crash(c) ==
  /\ Gone(c)
  /\ inbox' = [d \in Clients |-> [inbox[d] EXCEPT ![c] = <<>>]]

\* The awareness time-out of a client that is no longer heard of.
Expire(d, c) ==
  /\ c \in up /\ d \notin up /\ inbox[d][c] = <<>> /\ heard[c][d] # {}
  /\ heard' = [heard EXCEPT ![c][d] = {}]
  /\ pushing' = pushing \cup {c}
  /\ UNCHANGED <<up, selection, checking, published, inbox, locks, releases, picks>>

Step(c) == Check(c) \/ Push(c) \/ Release(c)
Arrival(d, c) == Deliver(d, c) \/ Expire(d, c)

LockNext == \/ \E c \in Clients : Pick(c) \/ Step(c) \/ Leave(c) \/ Crash(c)
            \/ \E c, d \in Clients : Arrival(d, c)

\* Timers fire, queued bodies run, messages arrive and silence times out.
LockFairness == /\ \A c \in Clients : /\ WF_lockVars(Check(c))
                                      /\ WF_lockVars(Push(c))
                                      /\ WF_lockVars(Release(c))
                /\ \A c, d \in Clients : WF_lockVars(Arrival(d, c))

LockSpec == LockInit /\ [][LockNext]_lockVars
FairLockSpec == LockSpec /\ LockFairness

-----------------------------------------------------------------------------
LockTypeOK ==
  /\ up \subseteq Clients /\ checking \subseteq up /\ pushing \subseteq up
  /\ selection \in [Clients -> SUBSET Items]
  /\ published \in [Clients -> SUBSET Items]
  /\ locks \in [Clients -> SUBSET Items]
  /\ heard \in [Clients -> [Clients -> SUBSET Items]]
  /\ inbox \in [Clients -> [Clients -> Seq(SUBSET Items)]]
  /\ releases \in [Clients -> Seq(SUBSET Items)]
  /\ picks \in 0..MaxPicks

Quiet ==
  /\ checking = {} /\ pushing = {}
  /\ \A c \in Clients : releases[c] = <<>>
  /\ \A c \in up : \A d \in Clients : inbox[d][c] = <<>> /\ (d \notin up => heard[c][d] = {})

\* What c can move.
Movable(c) == selection[c] \ locks[c]

(***************************************************************************)
(* Once nothing is under way, no item can be moved in two tabs.            *)
(***************************************************************************)
OneMover == Quiet => \A c, d \in up : c # d => Movable(c) \cap Movable(d) = {}

(***************************************************************************)
(* Once nothing is under way, a lock has a holder: an item is locked in a  *)
(* tab exactly when another open tab holds it and this one does not hold   *)
(* it more strongly.  No lock outlives its holder, and the strongest       *)
(* holder is never locked out.                                             *)
(***************************************************************************)
LocksHaveHolders ==
  Quiet => \A c \in up : \A i \in Items :
    i \in locks[c] <=> \E d \in up \ {c} :
                         /\ i \in selection[d]
                         /\ i \in selection[c] => d < c

(***************************************************************************)
(* The releases end: the clients do not take an item from one another for  *)
(* ever.                                                                   *)
(***************************************************************************)
ContestsSettle == <>[]Quiet
=============================================================================
