---------------------------- MODULE CanvasProofs ----------------------------
(***************************************************************************)
(* What runs behind an editor's canvas, each part alone: the fiber         *)
(* executor, for every set of bodies and however often they park; the      *)
(* selection locks, for every set of tabs and items and any traffic        *)
(* between them; the comments, for every set of threads on two sheets; and *)
(* the touches, for any number of fingers on the canvas and beside it.     *)
(***************************************************************************)
EXTENDS FiberQueue, SelectionLock, Overlays, SequenceTheorems, TLAPS

-----------------------------------------------------------------------------
(* The fiber executor.                                                     *)

\* The facts about the control state that make the safety properties
\* inductive: busy and done are the mirror image of the fiber stack.
ControlInv ==
  /\ busy /\ ~slot.done => fiber # "idle"
  /\ ~busy => slot = NoSlot
  /\ draining /\ busy => fiber = "running" \/ slot.done
  /\ fiber = "parked" => ~draining

IInv == TypeOK /\ ControlInv /\ SlotPinned /\ NoLostWakeup

\* The empty slot, and what its two fields are.
LEMMA NoSlotFields == NoSlot \in Slots /\ NoSlot.body = NoBody /\ NoSlot.done = FALSE
  BY DEF NoSlot, Slots

\* Marking a slot done changes nothing else of it.
LEMMA DoneSlotFields ==
  ASSUME NEW s \in Slots
  PROVE  LET t == [s EXCEPT !.done = TRUE]
         IN  t \in Slots /\ t.body = s.body /\ t.done = TRUE
  BY DEF Slots

LEMMA InitIInv == Init => IInv
<1> SUFFICES ASSUME Init PROVE IInv
  OBVIOUS
<1>1. slot = NoSlot /\ slot \in Slots
  BY NoSlotFields DEF Init
<1>2. TypeOK
  <2>1. busy \in BOOLEAN /\ draining \in BOOLEAN
    BY DEF Init
  <2>2. parks \in 0 .. MaxParks /\ ticks \in Nat
    BY MaxParksAssumption DEF Init
  <2>3. queue \in Seq(Bodies) /\ finished \in Seq(Bodies \cup {NoBody})
    BY DEF Init
  <2>4. fiber \in {"idle", "running", "parked"} /\ fresh \subseteq Bodies
    BY DEF Init
  <2> QED BY <1>1, <2>1, <2>2, <2>3, <2>4 DEF TypeOK
<1>3. ControlInv /\ SlotPinned /\ NoLostWakeup
  BY <1>1 DEF Init, ControlInv, SlotPinned, NoLostWakeup
<1> QED BY <1>2, <1>3 DEF IInv

LEMMA NextIInv == IInv /\ [Next]_vars => IInv'
<1> SUFFICES ASSUME IInv, [Next]_vars PROVE IInv'
  OBVIOUS
<1> USE BodiesAssumption, MaxParksAssumption
    DEF IInv, TypeOK, ControlInv, SlotPinned, NoLostWakeup
<1>1. ASSUME NEW b \in Bodies, RunOnFiber(b) PROVE IInv'
  BY <1>1 DEF RunOnFiber
<1>2. CASE DrainNoop
  BY <1>2 DEF DrainNoop, DrainEvent
<1>3. CASE DrainEnter
  <2>1. CASE busy
    <3>1. slot' = NoSlot /\ slot' \in Slots /\ busy' = FALSE
      BY <1>3, <2>1, NoSlotFields DEF DrainEnter, Reap
    <3>2. ticks' \in Nat /\ draining' \in BOOLEAN /\ draining'
      BY <1>3 DEF DrainEnter, DrainEvent
    <3>3. fiber = "idle"
      BY <1>3, <2>1 DEF DrainEnter, DrainEvent
    <3> QED BY <1>3, <3>1, <3>2, <3>3 DEF DrainEnter
  <2>2. CASE ~busy
    BY <1>3, <2>2 DEF DrainEnter, DrainEvent
  <2> QED BY <2>1, <2>2
<1>4. CASE StartNext
  <2>1. Head(queue) \in Bodies /\ Tail(queue) \in Seq(Bodies)
    BY <1>4 DEF StartNext
  <2>2. slot' \in Slots /\ slot'.body = Head(queue) /\ ~slot'.done
    BY <1>4, <2>1 DEF StartNext, Slots
  <2> QED BY <1>4, <2>1, <2>2 DEF StartNext
<1>5. CASE ReapInLoop
  <2>1. slot' = NoSlot /\ slot' \in Slots /\ busy' = FALSE
    BY <1>5, NoSlotFields DEF ReapInLoop, Reap
  <2>2. fiber = "idle"
    BY <1>5 DEF ReapInLoop
  <2> QED BY <1>5, <2>1, <2>2 DEF ReapInLoop
<1>6. CASE DrainExit
  BY <1>6 DEF DrainExit
<1>7. CASE Park
  <2>1. parks' \in 0 .. MaxParks
    BY <1>7 DEF Park
  <2>2. draining' \in BOOLEAN /\ ~draining'
    BY <1>7 DEF Park
  <2> QED BY <1>7, <2>1, <2>2 DEF Park
<1>8. CASE Rewind
  BY <1>8 DEF Rewind
<1>9. CASE FinishBody
  <2>1. busy /\ slot \in Slots
    BY <1>9 DEF FinishBody
  <2>2. slot' \in Slots /\ slot'.body = slot.body /\ slot'.done = TRUE
    BY <1>9, <2>1, DoneSlotFields DEF FinishBody
  <2>3. finished' \in Seq(Bodies \cup {NoBody})
    BY <1>9, <2>1 DEF FinishBody, Slots
  <2> QED BY <1>9, <2>1, <2>2, <2>3 DEF FinishBody
<1>10. CASE UNCHANGED vars
  BY <1>10 DEF vars
<1> QED
  BY <1>1, <1>2, <1>3, <1>4, <1>5, <1>6, <1>7, <1>8, <1>9, <1>10
  DEF Next, Drain

LEMMA InvariantHolds == Spec => []IInv
<1>1. Init => IInv
  BY InitIInv
<1>2. IInv /\ [Next]_vars => IInv'
  BY NextIInv
<1> QED BY <1>1, <1>2, PTL DEF Spec

(***************************************************************************)
(* Every variable of the executor keeps its type, so the number of pending *)
(* drains never goes negative and only submitted bodies are ever queued.   *)
(***************************************************************************)
THEOREM TypeCorrect == Spec => []TypeOK
<1>1. IInv => TypeOK
  BY DEF IInv
<1> QED BY <1>1, InvariantHolds, PTL

(***************************************************************************)
(* The use-after-free of finding #10b cannot happen: a body's slot stays   *)
(* pinned for as long as its fiber exists.                                 *)
(***************************************************************************)
THEOREM SlotStaysPinned == Spec => []SlotPinned
<1>1. IInv => SlotPinned
  BY DEF IInv
<1> QED BY <1>1, InvariantHolds, PTL

(***************************************************************************)
(* Queued work always has somebody on the way to start it.                 *)
(***************************************************************************)
THEOREM WakeupsAreKept == Spec => []NoLostWakeup
<1>1. IInv => NoLostWakeup
  BY DEF IInv
<1> QED BY <1>1, InvariantHolds, PTL

-----------------------------------------------------------------------------
LEMMA InitSerial == Init => Serial!Init
  BY DEF Init, Serial!Init, InFlight

LEMMA NextSerial == IInv /\ [Next]_vars => [Serial!Next]_(Serial!vars)
<1> SUFFICES ASSUME IInv, [Next]_vars PROVE [Serial!Next]_(Serial!vars)
  OBVIOUS
<1> USE BodiesAssumption
    DEF IInv, TypeOK, ControlInv, SlotPinned, NoSlot, InFlight, Serial!vars
<1>1. ASSUME NEW b \in Bodies, RunOnFiber(b) PROVE Serial!Submit(b)
  BY <1>1 DEF RunOnFiber, Serial!Submit
<1>2. CASE DrainNoop
  BY <1>2 DEF DrainNoop, DrainEvent
<1>3. CASE DrainEnter
  BY <1>3 DEF DrainEnter, DrainEvent, Reap
<1>4. CASE StartNext
  <2>1. Serial!Start
    BY <1>4 DEF StartNext, Serial!Start
  <2> QED BY <2>1 DEF Serial!Next
<1>5. CASE ReapInLoop
  BY <1>5 DEF ReapInLoop, Reap
<1>6. CASE DrainExit
  BY <1>6 DEF DrainExit
<1>7. CASE Park
  BY <1>7 DEF Park
<1>8. CASE Rewind
  BY <1>8 DEF Rewind
<1>9. CASE FinishBody
  <2>1. Serial!Finish
    BY <1>9 DEF FinishBody, Serial!Finish
  <2> QED BY <2>1 DEF Serial!Next
<1>10. CASE UNCHANGED vars
  BY <1>10 DEF vars
<1> QED
  BY <1>1, <1>2, <1>3, <1>4, <1>5, <1>6, <1>7, <1>8, <1>9, <1>10
  DEF Next, Drain, Serial!Next

(***************************************************************************)
(* The executor implements SerialExecutor: parking and rewinding never     *)
(* interleave two bodies and never reorder them, so the other models may   *)
(* treat runOnFiber as a FIFO of whole bodies.                             *)
(***************************************************************************)
THEOREM ImplementsSerialExecutor == Spec => RunsSerially
<1>1. Init => Serial!Init
  BY InitSerial
<1>2. IInv /\ [Next]_vars => [Serial!Next]_(Serial!vars)
  BY NextSerial
<1> QED BY <1>1, <1>2, InvariantHolds, PTL DEF Spec, RunsSerially, Serial!Spec

-----------------------------------------------------------------------------
(* The selection locks.                                                    *)

\* LockTypeOK without the bound on picks; a closed tab has nothing queued.
LockTypeInv ==
  /\ up \subseteq Clients /\ checking \subseteq up /\ pushing \subseteq up
  /\ selection \in [Clients -> SUBSET Items]
  /\ published \in [Clients -> SUBSET Items]
  /\ locks \in [Clients -> SUBSET Items]
  /\ heard \in [Clients -> [Clients -> SUBSET Items]]
  /\ inbox \in [Clients -> [Clients -> Seq(SUBSET Items)]]
  /\ releases \in [Clients -> Seq(SUBSET Items)]
  /\ \A c \in Clients \ up : releases[c] = <<>> /\ \A d \in Clients : inbox[d][c] = <<>>

\* What a client will know of another once q has been delivered.
Late(q, s) == IF q = <<>> THEN s ELSE q[Len(q)]

\* A client that hears everything on its way to it knows what every other published ...
HeardInv == \A c, d \in up : c # d => Late(inbox[d][c], heard[c][d]) = published[d]

\* ... a selection that was not published has a check queued ...
CheckInv == \A c \in Clients : selection[c] # published[c] => c \in checking

\* ... and locks that are out of date have a push queued.
LocksInv == \A c \in up : c \notin pushing => locks[c] = RemoteLocks(c)

Locked == LockTypeInv /\ HeardInv /\ CheckInv /\ LocksInv

\* A message joins the channel at its end and leaves it at its head.
LEMMA LateFacts ==
  ASSUME NEW T, NEW q \in Seq(T), NEW s
  PROVE  /\ \A m \in T : Late(Append(q, m), s) = m
         /\ q # <<>> => Late(Tail(q), Head(q)) = Late(q, s)
<1>1. ASSUME NEW m \in T PROVE Late(Append(q, m), s) = m
  <2> DEFINE r == Append(q, m)
  <2>1. r # <<>> /\ r[Len(r)] = m
    OBVIOUS
  <2> QED BY <2>1 DEF Late
<1>2. ASSUME q # <<>> PROVE Late(Tail(q), Head(q)) = Late(q, s)
  <2> DEFINE r == Tail(q)
  <2>1. /\ r \in Seq(T) /\ Len(r) = Len(q) - 1 /\ Len(q) \in Nat \ {0} /\ Head(q) = q[1]
        /\ \A i \in 1..Len(q) - 1 : r[i] = q[i + 1]
    BY <1>2, EmptySeq
  <2>2. r = <<>> <=> Len(q) = 1
    BY <2>1, EmptySeq
  <2> HIDE DEF r
  <2>3. r # <<>> => r[Len(r)] = q[Len(q)]
    BY <2>1, <2>2
  <2> QED BY <1>2, <2>1, <2>2, <2>3 DEF Late, r
<1> QED BY <1>1, <1>2

\* Whoever steps, the locks of the others are those they were.
LEMMA LocksAlone ==
  ASSUME NEW x \in Clients, published'[x] = published[x], heard'[x] = heard[x]
  PROVE  RemoteLocks(x)' = RemoteLocks(x)
BY DEF RemoteLocks, Others

\* What a client has of another it has while their channel and its own view stand.
LEMMA HeardAlone ==
  ASSUME NEW c \in Clients, NEW d \in Clients, inbox'[d][c] = inbox[d][c],
         heard'[c][d] = heard[c][d]
  PROVE  Late(inbox[d][c], heard[c][d])' = Late(inbox[d][c], heard[c][d])
BY DEF Late

\* An announcement goes to the end of the channels to the open tabs.
LEMMA AnnouncedFacts ==
  ASSUME LockTypeInv, NEW c \in Clients, NEW s \in SUBSET Items
  PROVE  /\ Announced(c, s) \in [Clients -> [Clients -> Seq(SUBSET Items)]]
         /\ \A d, x \in Clients :
              Announced(c, s)[d][x] = IF d = c /\ x \in up \ {c} THEN Append(inbox[d][x], s)
                                                                 ELSE inbox[d][x]
<1>1. \A x \in Clients : inbox[c][x] \in Seq(SUBSET Items)
                         /\ Append(inbox[c][x], s) \in Seq(SUBSET Items)
  BY DEF LockTypeInv
<1> QED BY <1>1 DEF Announced, LockTypeInv

LEMMA InitLocked == LockInit => Locked
<1> SUFFICES ASSUME LockInit PROVE Locked
  OBVIOUS
<1>1. LockTypeInv
  BY DEF LockInit, LockTypeInv, Nothing
<1>2. HeardInv
  BY DEF LockInit, HeardInv, Nothing, Late
<1>3. CheckInv /\ LocksInv
  BY DEF LockInit, CheckInv, LocksInv, Nothing, RemoteLocks, Others
<1> QED BY <1>1, <1>2, <1>3 DEF Locked

LEMMA NextLocked == Locked /\ [LockNext]_lockVars => Locked'
<1> SUFFICES ASSUME Locked, [LockNext]_lockVars PROVE Locked'
  OBVIOUS
<1> USE DEF Locked
<1>1. ASSUME NEW c \in Clients, Pick(c) PROVE Locked'
  <2>1. LockTypeInv'
    BY <1>1 DEF Pick, LockTypeInv
  <2>2. HeardInv'
    BY <1>1 DEF Pick, HeardInv
  <2>3. CheckInv'
    BY <1>1 DEF Pick, CheckInv, LockTypeInv
  <2>4. LocksInv'
    BY <1>1, LocksAlone DEF Pick, LocksInv, LockTypeInv
  <2> QED BY <2>1, <2>2, <2>3, <2>4
<1>2. ASSUME NEW c \in Clients, Check(c) PROVE Locked'
  <2>1. CASE selection[c] = published[c]
    <3>1. /\ checking' = checking \ {c} /\ c \in up
          /\ UNCHANGED <<up, published, inbox, pushing, selection, heard, locks, releases>>
      BY <1>2, <2>1 DEF Check, LockTypeInv
    <3>2. LockTypeInv'
      BY <3>1 DEF LockTypeInv
    <3>3. HeardInv'
      BY <3>1, HeardAlone DEF HeardInv, LockTypeInv
    <3>4. CheckInv'
      BY <2>1, <3>1 DEF CheckInv
    <3>5. LocksInv'
      BY <3>1, LocksAlone DEF LocksInv, LockTypeInv
    <3> QED BY <3>2, <3>3, <3>4, <3>5
  <2>2. CASE selection[c] # published[c]
    <3>1. /\ published' = [published EXCEPT ![c] = selection[c]]
          /\ inbox' = Announced(c, selection[c]) /\ pushing' = pushing \cup {c}
          /\ checking' = checking \ {c} /\ c \in up /\ selection[c] \in SUBSET Items
          /\ UNCHANGED <<up, selection, heard, locks, releases>>
      BY <1>2, <2>2 DEF Check, LockTypeInv
    <3>2. LockTypeInv'
      <4>1. inbox' \in [Clients -> [Clients -> Seq(SUBSET Items)]]
        BY <3>1, AnnouncedFacts
      <4>2. \A x \in Clients \ up : \A d \in Clients : inbox'[d][x] = inbox[d][x]
        BY <3>1, AnnouncedFacts
      <4>3. /\ published' \in [Clients -> SUBSET Items]
            /\ checking' \subseteq up /\ pushing' \subseteq up
        BY <3>1 DEF LockTypeInv
      <4> QED BY <3>1, <4>1, <4>2, <4>3 DEF LockTypeInv
    <3>3. ASSUME NEW x \in up, NEW d \in up, x # d
          PROVE  Late(inbox'[d][x], heard[x][d]) = published'[d]
      <4>1. x \in Clients /\ d \in Clients /\ inbox[d][x] \in Seq(SUBSET Items)
            /\ Late(inbox[d][x], heard[x][d]) = published[d]
        BY <3>3 DEF LockTypeInv, HeardInv
      <4>2. CASE d = c
        <5>1. inbox'[d][x] = Append(inbox[d][x], selection[c])
          BY <3>1, <3>3, <4>1, <4>2, AnnouncedFacts
        <5> QED BY <3>1, <4>1, <4>2, <5>1, LateFacts DEF LockTypeInv
      <4>3. CASE d # c
        <5>2. inbox'[d][x] = inbox[d][x]
          <6>1. Announced(c, selection[c])[d][x] = inbox[d][x]
            BY <3>1, <4>1, <4>3, AnnouncedFacts
          <6> QED BY <3>1, <6>1
        <5>3. published'[d] = published[d]
          BY <3>1, <4>1, <4>3 DEF LockTypeInv
        <5>1. inbox'[d][x] = inbox[d][x] /\ published'[d] = published[d]
          BY <5>2, <5>3
        <5> QED BY <4>1, <5>1
      <4> QED BY <4>2, <4>3
    <3>4. HeardInv'
      BY <3>1, <3>3 DEF HeardInv, Late
    <3>5. CheckInv'
      BY <3>1 DEF CheckInv, LockTypeInv
    <3>6. ASSUME NEW x \in up, x \notin pushing' PROVE locks'[x] = RemoteLocks(x)'
      <4>1. x \in Clients /\ x # c /\ x \notin pushing
        BY <3>1, <3>6 DEF LockTypeInv
      <4>2. published'[x] = published[x] /\ heard'[x] = heard[x] /\ locks'[x] = locks[x]
        BY <3>1, <4>1 DEF LockTypeInv
      <4> QED BY <3>6, <4>1, <4>2, LocksAlone DEF LocksInv
    <3>7. LocksInv'
      BY <3>1, <3>6 DEF LocksInv
    <3> QED BY <3>2, <3>4, <3>5, <3>7
  <2> QED BY <2>1, <2>2
<1>3. ASSUME NEW c \in Clients, Push(c) PROVE Locked'
  <2>1. ContestedReleases(c) \in SUBSET Items /\ RemoteLocks(c) \in SUBSET Items
    BY DEF ContestedReleases, RemoteLocks, Others, LockTypeInv
  <2>2. LockTypeInv'
    <3>1. Append(releases[c], ContestedReleases(c)) \in Seq(SUBSET Items)
      BY <2>1 DEF LockTypeInv
    <3> QED BY <1>3, <2>1, <3>1 DEF Push, LockTypeInv
  <2>3. HeardInv' /\ CheckInv'
    BY <1>3 DEF Push, HeardInv, CheckInv, Late
  <2>4. ASSUME NEW x \in up', x \notin pushing' PROVE locks'[x] = RemoteLocks(x)'
    <3>1. x \in Clients /\ x \in up /\ published' = published /\ heard' = heard
      BY <1>3, <2>4 DEF Push, LockTypeInv
    <3>2. RemoteLocks(x)' = RemoteLocks(x)
      BY <3>1, LocksAlone
    <3>3. locks'[x] = RemoteLocks(x)
      BY <1>3, <2>4, <3>1 DEF Push, LocksInv, LockTypeInv
    <3> QED BY <3>2, <3>3
  <2>5. LocksInv'
    BY <2>4 DEF LocksInv
  <2> QED BY <2>2, <2>3, <2>5
<1>4. ASSUME NEW c \in Clients, Release(c) PROVE Locked'
  <2>1. /\ c \in up /\ releases' = [releases EXCEPT ![c] = Tail(@)]
        /\ selection' = [selection EXCEPT ![c] = @ \ Head(releases[c])]
        /\ checking' = checking \cup {c}
        /\ UNCHANGED <<up, published, heard, inbox, pushing, locks>>
    BY <1>4 DEF Release, LockTypeInv
  <2>2. LockTypeInv'
    <3>1. Tail(releases[c]) \in Seq(SUBSET Items)
      BY <1>4 DEF Release, LockTypeInv
    <3> QED BY <2>1, <3>1 DEF LockTypeInv
  <2>3. HeardInv'
    BY <2>1, HeardAlone DEF HeardInv, LockTypeInv
  <2>4. CheckInv' /\ LocksInv'
    BY <2>1, LocksAlone DEF CheckInv, LocksInv, LockTypeInv
  <2> QED BY <2>2, <2>3, <2>4
<1>5. ASSUME NEW c \in Clients, Leave(c) \/ Crash(c) PROVE Locked'
  <2>1. /\ up' = up \ {c} /\ checking' = checking \ {c} /\ pushing' = pushing \ {c}
        /\ selection' = [selection EXCEPT ![c] = {}]
        /\ published' = [published EXCEPT ![c] = {}]
        /\ releases' = [releases EXCEPT ![c] = <<>>]
        /\ UNCHANGED <<heard, locks>>
    BY <1>5 DEF Leave, Crash, Gone
  <2>2. PICK m \in [Clients -> [Clients -> Seq(SUBSET Items)]] :
           /\ inbox' = [d \in Clients |-> [m[d] EXCEPT ![c] = <<>>]]
           /\ \A d \in Clients : \A x \in Clients : d # c \/ x \notin up => m[d][x] = inbox[d][x]
    <3>1. CASE Leave(c)
      <4>1. {} \in SUBSET Items
        OBVIOUS
      <4>2. inbox' = [d \in Clients |-> [Announced(c, {})[d] EXCEPT ![c] = <<>>]]
        BY <3>1 DEF Leave
      <4> DEFINE a == Announced(c, {})
      <4>3. /\ a \in [Clients -> [Clients -> Seq(SUBSET Items)]]
            /\ \A d \in Clients : \A x \in Clients :
                 d # c \/ x \notin up => a[d][x] = inbox[d][x]
        BY <4>1, AnnouncedFacts
      <4> HIDE DEF a
      <4> QED BY <4>2, <4>3 DEF a
    <3>2. CASE Crash(c)
      BY <3>2 DEF Crash, LockTypeInv
    <3> QED BY <1>5, <3>1, <3>2
  <2>3. /\ inbox' \in [Clients -> [Clients -> Seq(SUBSET Items)]]
        /\ \A d \in Clients : \A x \in Clients :
             inbox'[d][x] = IF x = c THEN <<>> ELSE m[d][x]
    <3>1. <<>> \in Seq(SUBSET Items)
      OBVIOUS
    <3> QED BY <2>2, <3>1
  <2>7. LockTypeInv'
    <3>1. \A x \in Clients \ up' : releases'[x] = <<>> /\ \A d \in Clients : inbox'[d][x] = <<>>
      BY <2>1, <2>2, <2>3 DEF LockTypeInv
    <3>2. /\ up' \subseteq Clients /\ checking' \subseteq up' /\ pushing' \subseteq up'
          /\ heard' \in [Clients -> [Clients -> SUBSET Items]]
          /\ locks' \in [Clients -> SUBSET Items]
      BY <2>1 DEF LockTypeInv
    <3>3. /\ selection' \in [Clients -> SUBSET Items]
          /\ published' \in [Clients -> SUBSET Items]
      BY <2>1 DEF LockTypeInv
    <3>4. releases' \in [Clients -> Seq(SUBSET Items)]
      BY <2>1 DEF LockTypeInv
    <3> QED BY <2>3, <3>1, <3>2, <3>3, <3>4 DEF LockTypeInv
  <2>4. HeardInv'
    <3>1. ASSUME NEW x \in up', NEW d \in up', x # d
          PROVE  Late(inbox[d][x], heard[x][d])' = published'[d]
      <4>1. x \in up /\ d \in up /\ x \in Clients /\ d \in Clients /\ x # c /\ d # c
        BY <2>1, <3>1 DEF LockTypeInv
      <4>2. inbox'[d][x] = inbox[d][x] /\ heard'[x][d] = heard[x][d]
            /\ published'[d] = published[d]
        BY <2>1, <2>2, <2>3, <4>1 DEF LockTypeInv
      <4> QED BY <3>1, <4>1, <4>2, HeardAlone DEF HeardInv
    <3> QED BY <3>1 DEF HeardInv
  <2>5. CheckInv'
    BY <2>1 DEF CheckInv, LockTypeInv
  <2>6. LocksInv'
    BY <2>1, LocksAlone DEF LocksInv, LockTypeInv
  <2> QED BY <2>4, <2>5, <2>6, <2>7
<1>6. ASSUME NEW c \in Clients, NEW d \in Clients, Deliver(d, c) PROVE Locked'
  <2> DEFINE q == inbox[d][c]
  <2>1. /\ q \in Seq(SUBSET Items) /\ q # <<>>
        /\ heard' = [heard EXCEPT ![c][d] = Head(q)]
        /\ inbox' = [inbox EXCEPT ![d][c] = Tail(q)]
        /\ pushing' = pushing \cup {c}
        /\ UNCHANGED <<up, selection, checking, published, locks, releases>>
    BY <1>6 DEF Deliver, LockTypeInv
  <2>2. c \in up
    BY <2>1 DEF LockTypeInv
  <2> HIDE DEF q
  <2>3. Head(q) \in SUBSET Items /\ Tail(q) \in Seq(SUBSET Items)
    BY <2>1
  <2>4. LockTypeInv'
    BY <2>1, <2>2, <2>3 DEF LockTypeInv
  <2>5. ASSUME NEW x \in up', NEW e \in up', x # e
        PROVE  Late(inbox[e][x], heard[x][e])' = published'[e]
    <3>1. /\ x \in Clients /\ e \in Clients /\ published' = published
          /\ Late(inbox[e][x], heard[x][e]) = published[e]
      BY <2>1, <2>5 DEF LockTypeInv, HeardInv
    <3>2. CASE x = c /\ e = d
      <4>1. inbox'[e][x] = Tail(q) /\ heard'[x][e] = Head(q)
        BY <2>1, <3>1, <3>2 DEF LockTypeInv
      <4>2. Late(Tail(q), Head(q)) = Late(q, heard[x][e])
        BY <2>1, LateFacts
      <4> QED BY <3>1, <3>2, <4>1, <4>2 DEF Late, q
    <3>3. CASE ~ (x = c /\ e = d)
      <4>1. inbox'[e][x] = inbox[e][x] /\ heard'[x][e] = heard[x][e]
        BY <2>1, <3>1, <3>3 DEF LockTypeInv
      <4> QED BY <3>1, <4>1, HeardAlone
    <3> QED BY <3>2, <3>3
  <2>6. HeardInv'
    BY <2>5 DEF HeardInv
  <2>7. CheckInv'
    BY <2>1 DEF CheckInv
  <2>8. LocksInv'
    BY <2>1, LocksAlone DEF LocksInv, LockTypeInv
  <2> QED BY <2>4, <2>6, <2>7, <2>8
<1>7. ASSUME NEW c \in Clients, NEW d \in Clients, Expire(d, c) PROVE Locked'
  <2>1. /\ c \in up /\ d \notin up /\ heard' = [heard EXCEPT ![c][d] = {}]
        /\ pushing' = pushing \cup {c}
        /\ UNCHANGED <<up, selection, checking, published, inbox, locks, releases>>
    BY <1>7 DEF Expire
  <2>2. LockTypeInv'
    BY <2>1 DEF LockTypeInv
  <2>3. HeardInv'
    BY <2>1, HeardAlone DEF HeardInv, LockTypeInv
  <2>4. CheckInv'
    BY <2>1 DEF CheckInv
  <2>5. LocksInv'
    BY <2>1, LocksAlone DEF LocksInv, LockTypeInv
  <2> QED BY <2>2, <2>3, <2>4, <2>5
<1>8. CASE UNCHANGED lockVars
  BY <1>8, HeardAlone, LocksAlone DEF lockVars, LockTypeInv, HeardInv, CheckInv, LocksInv
<1> QED BY <1>1, <1>2, <1>3, <1>4, <1>5, <1>6, <1>7, <1>8 DEF LockNext, Step, Arrival

\* With nothing under way every tab locks by what the others have selected.
LEMMA LockedIsSafe == Locked => OneMover /\ LocksHaveHolders
<1> SUFFICES ASSUME Locked, Quiet PROVE OneMover /\ LocksHaveHolders
  BY DEF OneMover, LocksHaveHolders
<1>1. \A c \in up : selection[c] = published[c] /\ locks[c] = RemoteLocks(c) /\ c \in Clients
  BY DEF Locked, LockTypeInv, CheckInv, LocksInv, Quiet
<1>2. \A c \in up : \A d \in Others(c) : heard[c][d] = IF d \in up THEN selection[d] ELSE {}
  BY <1>1 DEF Locked, HeardInv, Late, Quiet, Others
<1>3. ASSUME NEW c \in up, NEW i
      PROVE  i \in locks[c] <=> \E d \in up \ {c} : i \in selection[d] /\ (i \in selection[c] => d < c)
  <2>1. i \in locks[c] <=> /\ \E d \in Others(c) : i \in heard[c][d]
                           /\ i \in selection[c] => \E d \in Others(c) : i \in heard[c][d] /\ d < c
    BY <1>1 DEF RemoteLocks
  <2>2. \A d \in Others(c) : i \in heard[c][d] <=> d \in up /\ i \in selection[d]
    BY <1>2
  <2>3. up \ {c} \subseteq Others(c)
    BY <1>1 DEF Others
  <2> QED BY <2>1, <2>2, <2>3 DEF Others
<1>4. LocksHaveHolders
  BY <1>3 DEF LocksHaveHolders
<1>5. ASSUME NEW c \in up, NEW d \in up, c # d, NEW i \in Movable(c), i \in Movable(d) PROVE FALSE
  <2>1. i \in selection[c] /\ i \notin locks[c] /\ i \in selection[d] /\ i \notin locks[d]
    BY <1>5 DEF Movable
  <2>2. ~ (d < c) /\ ~ (c < d)
    BY <1>3, <1>5, <2>1
  <2>3. c \in Nat /\ d \in Nat
    BY <1>1, ClientsAssumption
  <2> QED BY <1>5, <2>2, <2>3
<1> QED BY <1>4, <1>5 DEF OneMover

LEMMA LockedAlways == LockSpec => []Locked
<1>1. LockInit => Locked
  BY InitLocked
<1>2. Locked /\ [LockNext]_lockVars => Locked'
  BY NextLocked
<1> QED BY <1>1, <1>2, PTL DEF LockSpec

(***************************************************************************)
(* Whoever picks, leaves, dies or hears late: once checks, pushes and      *)
(* releases have run and what was said has arrived, no item can be moved   *)
(* in two tabs.                                                            *)
(***************************************************************************)
THEOREM OneMoverAlways == LockSpec => []OneMover
<1>1. Locked => OneMover
  BY LockedIsSafe
<1> QED BY <1>1, LockedAlways, PTL

(***************************************************************************)
(* By then a tab refuses exactly what another open tab holds and it does   *)
(* not hold more strongly: no lock outlives its holder.                    *)
(***************************************************************************)
THEOREM LocksAreHeld == LockSpec => []LocksHaveHolders
<1>1. Locked => LocksHaveHolders
  BY LockedIsSafe
<1> QED BY <1>1, LockedAlways, PTL

-----------------------------------------------------------------------------
(* The comments.                                                           *)

\* The dots are those of the cache, and the cache is of the sheet on screen ...
PinnedInv ==
  /\ bound \in C!Sheets \cup {0}
  /\ layer = "off" <=> bound = 0
  /\ timer => bound # 0
  /\ bound = 0 => pins = <<>>
  /\ bound # 0 => /\ pins = C!Dots(cache, visible)
                  /\ \A t \in DOMAIN cache : C!SheetOf(t) = bound

\* ... the layer hides whatever the canvas does, with all that is open, and a live one
\* hides nothing else and lists the same.
ShownInv ==
  /\ visible \in BOOLEAN /\ hidden \in BOOLEAN
  /\ ~ visible => hidden
  /\ hidden => open = C!None /\ ~ draft /\ ~ mode
  /\ layer = "live" => (hidden <=> ~ visible) /\ threads = cache

CommentInv == PinnedInv /\ ShownInv

LEMMA DotsFacts ==
  ASSUME NEW c, NEW v \in BOOLEAN
  PROVE  DOMAIN C!Dots(c, v) \subseteq DOMAIN c /\ (~ v => C!Dots(c, v) = <<>>)
<1>1. DOMAIN C!Dots(c, v) \subseteq DOMAIN c
  BY DEF C!Dots
<1>2. ASSUME ~ v PROVE C!Dots(c, v) = <<>>
  <2>1. {t \in {u \in DOMAIN c : v /\ ~c[u].resolved} : TRUE} = {} /\ DOMAIN C!Dots(c, v) = {}
    BY <1>2 DEF C!Dots
  <2>2. C!Dots(c, v) = [t \in {} |-> c[t].at]
    BY <1>2 DEF C!Dots
  <2>3. [t \in {} |-> c[t].at] = <<>>
    OBVIOUS
  <2> QED BY <2>2, <2>3
<1> QED BY <1>1, <1>2

LEMMA ListedFacts == \A s \in C!Sheets : \A t \in DOMAIN C!Listed(s) : C!SheetOf(t) = s
BY DEF C!Listed

LEMMA InitComment == C!Init => CommentInv
BY DEF C!Init, CommentInv, PinnedInv, ShownInv

LEMMA NextComment == CommentInv /\ [C!Next]_(C!commentVars) => CommentInv'
<1> SUFFICES ASSUME CommentInv, [C!Next]_(C!commentVars) PROVE CommentInv'
  OBVIOUS
<1>0. PinnedInv /\ ShownInv
  BY DEF CommentInv
<1>a. \A s : C!Scheduled(s) => (timer' => timer \/ bound # 0)
  BY DEF C!Scheduled
<1>b. \A t : C!Here(t) => bound # 0
  BY DEF C!Here, C!SheetOf
<1>c. \A t, r : C!Writes(t, r) => (timer' => timer \/ bound # 0)
  BY <1>a DEF C!Writes
<1>d. \A t, r : C!Asked(t, r) => (timer' => timer \/ bound # 0)
  BY <1>c DEF C!Asked
<1>1. CASE UNCHANGED C!commentVars
  BY <1>0, <1>1 DEF C!commentVars, C!document, C!controller, C!view, C!pointer, CommentInv, PinnedInv, ShownInv
<1>2. CASE C!Fires
  <2>1. /\ cache' = C!Listed(bound) /\ pins' = C!Dots(C!Listed(bound), visible) /\ timer' = FALSE
        /\ UNCHANGED <<bound, visible, layer, open, hidden, mode, draft>>
        /\ layer = "live" => threads' = cache'
    BY <1>2 DEF C!Fires, C!Fresh
  <2>2. bound \in C!Sheets /\ \A t \in DOMAIN C!Listed(bound) : C!SheetOf(t) = bound
    BY <1>0, <1>2, ListedFacts DEF C!Fires, PinnedInv
  <2>3. PinnedInv'
    BY <1>0, <2>1, <2>2 DEF PinnedInv, C!Dots, C!SheetOf
  <2>4. ShownInv'
    BY <1>0, <2>1 DEF ShownInv
  <2> QED BY <2>3, <2>4 DEF CommentInv
<1>3. CASE C!Unbind
  BY <1>0, <1>3 DEF C!Unbind, CommentInv, PinnedInv, ShownInv, C!Cleared
<1>4. CASE C!Seeds
  BY <1>0, <1>4 DEF C!Seeds, C!document, C!controller, C!pointer, CommentInv, PinnedInv, ShownInv, C!Theirs
<1>5. ASSUME NEW t \in Threads, C!PeerEdits(t) PROVE CommentInv'
  <2>1. /\ UNCHANGED <<bound, cache, visible, pins, C!view>>
        /\ timer' => timer \/ bound # 0
    BY <1>5, <1>c DEF C!PeerEdits
  <2> QED BY <1>0, <2>1 DEF C!view, CommentInv, PinnedInv, ShownInv
<1>6. CASE C!ToggleHidden
  BY <1>0, <1>6 DEF C!ToggleHidden, C!Quiet, C!document, C!pointer, CommentInv, PinnedInv, ShownInv
<1>7. CASE C!ModeToggle
  BY <1>0, <1>7 DEF C!ModeToggle, C!Shows, C!Quiet, C!document, C!pointer, CommentInv, PinnedInv, ShownInv
<1>8. CASE C!ModeClick
  BY <1>0, <1>8 DEF C!ModeClick, C!document, C!controller, C!pointer, CommentInv, PinnedInv, ShownInv
<1>9. CASE C!Submit
  BY <1>0, <1>9, <1>c DEF C!Submit, C!document, C!Quiet, C!pointer, CommentInv, PinnedInv, ShownInv
<1>10. CASE C!Escape
  BY <1>0, <1>10 DEF C!Escape, C!document, C!controller, C!pointer, CommentInv, PinnedInv, ShownInv
<1>11. CASE C!Popover
  BY <1>0, <1>11, <1>b, <1>d DEF C!Popover, C!document, C!Quiet, C!pointer, CommentInv, PinnedInv, ShownInv
<1>12. ASSUME NEW t \in Threads, C!Jump(t) PROVE CommentInv'
  BY <1>0, <1>12 DEF C!Jump, C!Shows, C!document, C!Quiet, C!pointer, CommentInv, PinnedInv, ShownInv
<1>13. ASSUME NEW t \in Threads, C!PinDown(t) PROVE CommentInv'
  BY <1>0, <1>13 DEF C!PinDown, C!document, C!controller, C!view, CommentInv, PinnedInv, ShownInv
<1>14. ASSUME NEW t \in Threads, C!PinMove(t) PROVE CommentInv'
  BY <1>0, <1>14, <1>d DEF C!PinMove, C!document, C!Quiet, CommentInv, PinnedInv, ShownInv, C!Targets
<1>15. ASSUME NEW t \in Threads, C!PinUp(t) PROVE CommentInv'
  BY <1>0, <1>15, <1>d DEF C!PinUp, C!document, C!Quiet, CommentInv, PinnedInv, ShownInv, C!Targets
<1>16. CASE C!Release
  BY <1>0, <1>16 DEF C!Release, C!document, C!controller, C!view, CommentInv, PinnedInv, ShownInv
<1>17. ASSUME NEW s \in C!Sheets, C!Bind(s) PROVE CommentInv'
  <2>1. /\ bound' = s /\ cache' = C!Listed(s) /\ visible' = TRUE /\ timer' = FALSE
        /\ pins' = C!Dots(C!Listed(s), TRUE) /\ layer' = "stale"
        /\ UNCHANGED <<open, hidden, mode, draft>>
    BY <1>17 DEF C!Bind, C!Controls
  <2>2. s # 0 /\ \A t \in DOMAIN C!Listed(s) : C!SheetOf(t) = s
    BY ListedFacts DEF C!Sheets
  <2>3. PinnedInv'
    BY <2>1, <2>2 DEF PinnedInv, C!Dots, C!SheetOf
  <2>4. ShownInv'
    BY <1>0, <2>1 DEF ShownInv
  <2> QED BY <2>3, <2>4 DEF CommentInv
<1>18. ASSUME NEW s \in C!Sheets, C!ItemMoves(s) PROVE CommentInv'
  BY <1>0, <1>18, <1>a DEF C!ItemMoves, C!view, C!pointer, CommentInv, PinnedInv, ShownInv
<1> QED BY <1>1, <1>2, <1>3, <1>4, <1>5, <1>6, <1>7, <1>8, <1>9, <1>10, <1>11, <1>12, <1>13, <1>14,
           <1>15, <1>16, <1>17, <1>18 DEF C!Next, C!Peers, C!Layer

LEMMA CommentAgrees == CommentInv => C!PinsOfTheSheet /\ C!LayerAgrees
<1> SUFFICES ASSUME CommentInv PROVE C!PinsOfTheSheet /\ C!LayerAgrees
  OBVIOUS
<1>1. C!PinsOfTheSheet
  BY DotsFacts DEF CommentInv, PinnedInv, ShownInv, C!PinsOfTheSheet
<1>2. C!LayerAgrees
  BY DEF CommentInv, ShownInv, C!LayerAgrees
<1> QED BY <1>1, <1>2

LEMMA CommentsAlways == OverlaySpec => []CommentInv
<1>1. OverlayInit => CommentInv
  BY InitComment DEF OverlayInit
<1>2. CommentInv /\ [OverlayNext]_overlayVars => CommentInv'
  <2>1. [OverlayNext]_overlayVars => [C!Next]_(C!commentVars)
    BY DEF OverlayNext, Comment, Follow, Touch, overlayVars, comments, C!commentVars, C!document,
           C!controller, C!view, C!pointer
  <2> QED BY <2>1, NextComment
<1> QED BY <1>1, <1>2, PTL DEF OverlaySpec

(***************************************************************************)
(* Across rebinds, hiding, dragging and what peers do to the threads, the  *)
(* canvas shows dots of the sheet on screen only, and a layer that has     *)
(* settled shows the same threads behind the same flag, with nothing open  *)
(* while they are hidden.                                                  *)
(***************************************************************************)
THEOREM LayerAlwaysAgrees == OverlaySpec => []LayerAgrees
<1>1. CommentInv => LayerAgrees
  BY CommentAgrees DEF LayerAgrees
<1> QED BY <1>1, CommentsAlways, PTL

-----------------------------------------------------------------------------
(* The touches.                                                            *)

\* G!TypeOK as far as the properties need it.
TouchTypes ==
  /\ touching \in Seq(Fingers) /\ span \in G!Spans /\ lastSpan \in G!Spans
  /\ gesture \in {"idle", "press", "pan", "pinch"} /\ zoomed \in Int /\ apart \in Int

\* Whatever is down was seen, and an idle recognizer was told of none of it ...
SeenInv == /\ G!Down \subseteq seen
           /\ gesture = "idle" => seen = G!Down /\ G!Down \subseteq Off

\* ... while fingers of the canvas only are down it counts them ...
HeldInv == /\ G!Ours /\ gesture = "pinch" => Len(touching) >= 2
           /\ G!Ours /\ gesture \in {"press", "pan"} => Len(touching) = 1

\* ... a press is of one finger, that stayed ...
PressInv == G!Ours /\ gesture = "press" => ~far /\ seen = G!Down

MiddleInv == middle = (gesture = "pan")

\* ... and a pinch owes what the pair moved since the wheel last turned.
OwedInv == gesture = "pinch" /\ ~swapped /\ G!Ours =>
             /\ G!Owed = span - lastSpan
             /\ span - lastSpan \in (1 - Detent) .. (Detent - 1)

TouchInv == TouchTypes /\ SeenInv /\ HeldInv /\ PressInv /\ MiddleInv /\ OwedInv

\* What an update of the recognizer with fingers ts, d apart, leaves of the gesture ...
LEMMA Updated ==
  ASSUME TouchTypes, NEW ts \in Seq(Fingers), NEW away \in BOOLEAN, NEW d \in G!Spans,
         G!Update(ts, away, d)
  PROVE  /\ gesture' \in {"idle", "press", "pan", "pinch"}
         /\ lastSpan' \in G!Spans /\ zoomed' \in Int
         /\ gesture' = "pinch" <=> Len(ts) >= 2
         /\ gesture' = "idle" <=> ts = <<>>
         /\ gesture' = "press" => Len(ts) = 1 /\ (gesture = "idle" \/ (gesture = "press" /\ ~away))
         /\ gesture' = "pinch" /\ gesture = "pinch" =>
              /\ zoomed' - lastSpan' = zoomed - lastSpan
              /\ d - lastSpan' \in (1 - Detent) .. (Detent - 1)
         /\ gesture' = "pinch" /\ gesture # "pinch" => zoomed' = 0 /\ lastSpan' = d
<1> USE FingersAssumption DEF TouchTypes, G!Spans
<1>0. Len(ts) \in Nat /\ (ts = <<>> <=> Len(ts) = 0)
  BY EmptySeq
<1>1. CASE Len(ts) >= 2 /\ G!Pinches(d)
  <2>1. gesture' = "pinch" /\ ts # <<>>
    BY <1>0, <1>1 DEF G!Pinches
  <2>2. CASE gesture = "pinch"
    <3>1. lastSpan' = G!Emitted(d) /\ zoomed' = zoomed + G!Turned(d)
      BY <1>1, <2>2 DEF G!Pinches
    <3>2. /\ lastSpan' \in G!Spans /\ zoomed' \in Int /\ zoomed' - lastSpan' = zoomed - lastSpan
          /\ d - lastSpan' \in (1 - Detent) .. (Detent - 1)
      BY <3>1 DEF G!Emitted, G!Turned
    <3> QED BY <1>1, <2>1, <2>2, <3>2
  <2>3. CASE gesture # "pinch"
    <3>1. lastSpan' = d /\ zoomed' = 0
      BY <1>1, <2>3 DEF G!Pinches
    <3> QED BY <1>1, <2>1, <2>3, <3>1
  <2> QED BY <2>2, <2>3
<1>2. CASE Len(ts) = 1 /\ G!Drags(away)
  <2>1. /\ gesture' \in {"press", "pan"} /\ ts # <<>> /\ lastSpan' = 1 /\ zoomed' = 0
        /\ gesture' = "press" => gesture = "idle" \/ (gesture = "press" /\ ~away)
    BY <1>0, <1>2 DEF G!Drags, G!Handed, G!NoPinch
  <2> QED BY <1>2, <2>1
<1>3. CASE ts = <<>> /\ G!Ends
  <2>1. gesture' = "idle" /\ lastSpan' = 1 /\ zoomed' = 0
    BY <1>3 DEF G!Ends, G!NoPinch
  <2> QED BY <1>0, <1>3, <2>1
<1> QED BY <1>1, <1>2, <1>3 DEF G!Update

\* ... and of the mouse.
LEMMA Clicked ==
  ASSUME TouchTypes, MiddleInv, NEW ts \in Seq(Fingers), NEW away \in BOOLEAN, NEW d, G!Update(ts, away, d)
  PROVE  MiddleInv' /\ (tapped' => gesture = "press" /\ ~slow /\ ts = <<>>)
<1>1. CASE G!Pinches(d)
  BY <1>1 DEF G!Pinches, G!Mouse, MiddleInv
<1>2. CASE G!Drags(away)
  <2>1. /\ gesture' \in {"press", "pan"} /\ (gesture = "pan" => gesture' = "pan")
    BY <1>2 DEF G!Drags, G!Handed, TouchTypes
  <2>2. tapped' = FALSE /\ middle' = (middle \/ (gesture # "pan" /\ gesture' = "pan"))
    BY <1>2 DEF G!Drags, G!Mouse
  <2> QED BY <2>1, <2>2 DEF MiddleInv
<1>3. CASE ts = <<>> /\ G!Ends
  BY <1>3 DEF G!Ends, G!Mouse, MiddleInv
<1> QED BY <1>1, <1>2, <1>3 DEF G!Update

\* What is owed follows the span as the fingers and the wheel move.
LEMMA Balance ==
  ASSUME span \in Int, lastSpan \in Int, zoomed \in Int, apart \in Int, lastSpan' \in Int,
         zoomed' \in Int, NEW by \in Int, NEW d \in Int, apart' = apart + by, d = span + by,
         apart - zoomed = span - lastSpan, zoomed' - lastSpan' = zoomed - lastSpan
  PROVE  apart' - zoomed' = d - lastSpan'
<1>1. PICK s \in Int, l \in Int, z \in Int, a \in Int, m \in Int, y \in Int :
        s = span /\ l = lastSpan /\ z = zoomed /\ a = apart /\ m = lastSpan' /\ y = zoomed'
  OBVIOUS
<1>2. a - z = s - l /\ y - m = z - l /\ apart' = a + by /\ d = s + by
  BY <1>1
<1>3. (a + by) - y = (s + by) - m
  BY <1>2
<1> QED BY <1>1, <1>2, <1>3

\* A finger of the canvas: the recognizer takes what is down, and the fingers' movement
\* since the pinch began goes on unless the pair is another.
LEMMA HeardStep ==
  ASSUME TouchInv, NEW ts \in Seq(Fingers), touching' = ts, NEW d \in G!Spans, span' = d,
         NEW away \in BOOLEAN, G!Update(ts, away, d),
         NEW by \in Int, NEW other \in BOOLEAN, G!Moved(by, other),
         gesture = "pinch" /\ gesture' = "pinch" /\ G!Ours' => G!Ours /\ (other \/ d = span + by)
  PROVE  TouchTypes' /\ HeldInv' /\ MiddleInv' /\ OwedInv'
<1>1. TouchTypes /\ MiddleInv
  BY DEF TouchInv
<1>2. TouchTypes'
  <2>1. apart' \in Int
    BY <1>1 DEF G!Moved, TouchTypes
  <2> QED BY <1>1, <2>1, Updated DEF TouchTypes
<1>3. HeldInv'
  <2>1. PICK n \in Nat : n = Len(ts) /\ (ts = <<>> <=> n = 0)
    BY EmptySeq
  <2>2. /\ gesture' = "pinch" <=> n >= 2
        /\ gesture' = "idle" <=> n = 0
    BY <1>1, <2>1, Updated
  <2>3. /\ gesture' = "pinch" => n >= 2
        /\ gesture' \in {"press", "pan"} => n = 1
    BY <2>2
  <2> QED BY <2>1, <2>3 DEF HeldInv
<1>4. MiddleInv'
  BY <1>1, Clicked
<1>5. OwedInv'
  <2> SUFFICES ASSUME gesture' = "pinch", ~ swapped', G!Ours'
               PROVE  G!Owed' = d - lastSpan' /\ d - lastSpan' \in (1 - Detent) .. (Detent - 1)
    BY DEF OwedInv
  <2>0. /\ span \in Int /\ d \in Int /\ lastSpan \in Int /\ lastSpan' \in Int
        /\ zoomed \in Int /\ zoomed' \in Int /\ apart \in Int /\ apart' \in Int
    BY <1>1, <1>2, FingersAssumption DEF TouchTypes, G!Spans
  <2>1. CASE gesture # "pinch"
    <3>1. zoomed' = 0 /\ lastSpan' = d /\ apart' = 0
      BY <1>1, <2>1, Updated DEF G!Moved
    <3>2. G!Owed' = 0 /\ d - lastSpan' = 0
      BY <2>0, <3>1 DEF G!Owed
    <3>3. 0 \in (1 - Detent) .. (Detent - 1)
      BY FingersAssumption
    <3> QED BY <3>2, <3>3
  <2>2. CASE gesture = "pinch"
    <3>1. /\ apart' = apart + by /\ ~ swapped /\ d = span + by /\ G!Ours
      BY <2>2 DEF G!Moved
    <3>2. apart - zoomed = span - lastSpan
      BY <2>2, <3>1 DEF TouchInv, OwedInv, G!Owed
    <3>3. /\ zoomed' - lastSpan' = zoomed - lastSpan
          /\ d - lastSpan' \in (1 - Detent) .. (Detent - 1)
      BY <1>1, <2>2, Updated
    <3>4. apart' - zoomed' = d - lastSpan'
      <4>1. /\ apart' = apart + by /\ d = span + by /\ apart - zoomed = span - lastSpan
            /\ zoomed' - lastSpan' = zoomed - lastSpan
        BY <3>1, <3>2, <3>3
      <4> QED BY <2>0, <4>1, Balance
    <3> QED BY <3>3, <3>4 DEF G!Owed
  <2> QED BY <2>1, <2>2
<1> QED BY <1>2, <1>3, <1>4, <1>5

\* A finger beside it: the recognizer is not told.
LEMMA UnheardStep ==
  ASSUME TouchInv, touching' \in Seq(Fingers), span' \in G!Spans, G!Unheard,
         NEW by \in Int, NEW other, G!Moved(by, other), G!Ours' => gesture = "idle"
  PROVE  TouchTypes' /\ HeldInv' /\ PressInv' /\ MiddleInv' /\ OwedInv'
<1>1. gesture' = gesture /\ lastSpan' = lastSpan /\ zoomed' = zoomed /\ middle' = middle
  BY DEF G!Unheard, G!Mouse
<1>2. apart' \in Int
  BY DEF G!Moved, TouchInv, TouchTypes
<1>3. TouchTypes'
  BY <1>1, <1>2 DEF TouchInv, TouchTypes
<1>4. HeldInv' /\ PressInv' /\ OwedInv'
  BY <1>1 DEF HeldInv, PressInv, OwedInv
<1>5. MiddleInv'
  BY <1>1 DEF TouchInv, MiddleInv
<1> QED BY <1>3, <1>4, <1>5

\* What is down without the i-th finger.
LEMMA WithoutFacts ==
  ASSUME touching \in Seq(Fingers), NEW i \in DOMAIN touching
  PROVE  /\ G!Without(i) \in Seq(Fingers) /\ Len(G!Without(i)) = Len(touching) - 1
         /\ \A k \in DOMAIN G!Without(i) : G!Without(i)[k] \in G!Down
<1> DEFINE n == Len(touching)
           a == SubSeq(touching, 1, i - 1)
           b == SubSeq(touching, i + 1, n)
<1>1. i \in 1 .. n /\ n \in Nat /\ \A k \in 1 .. n : touching[k] \in Fingers
  OBVIOUS
<1>2. /\ a \in Seq(Fingers) /\ Len(a) = i - 1 /\ \A k \in 1 .. i - 1 : a[k] = touching[k]
  BY <1>1
<1>3. /\ b \in Seq(Fingers) /\ Len(b) = n - i
      /\ \A k \in 1 .. n - i : b[k] = touching[i + k]
  <2>1. Len(b) = n - i
    BY <1>1
  <2>2. \A k \in 1 .. n - i : b[k] = touching[i + k]
    BY <1>1
  <2>3. b \in Seq(Fingers)
    BY <1>1
  <2> QED BY <2>1, <2>2, <2>3
<1> HIDE DEF a, b
<1>4. /\ a \o b \in Seq(Fingers) /\ Len(a \o b) = Len(a) + Len(b)
      /\ \A k \in 1 .. Len(a) + Len(b) : (a \o b)[k] = IF k <= Len(a) THEN a[k] ELSE b[k - Len(a)]
  BY <1>2, <1>3, ConcatProperties
<1>5. Len(a \o b) = n - 1
  BY <1>1, <1>2, <1>3, <1>4
<1>6. ASSUME NEW k \in 1 .. n - 1 PROVE (a \o b)[k] \in G!Down
  <2>1. CASE k < i
    <3>1. k \in 1 .. Len(a) + Len(b) /\ k <= Len(a) /\ k \in 1 .. i - 1 /\ k \in 1 .. n
      BY <1>1, <1>2, <1>3, <2>1
    <3>2. (a \o b)[k] = a[k]
      BY <1>4, <3>1
    <3>3. a[k] = touching[k]
      BY <1>2, <3>1
    <3> QED BY <3>1, <3>2, <3>3 DEF G!Down
  <2>2. CASE ~ (k < i)
    <3> DEFINE m == k - (i - 1)
    <3>2. m \in 1 .. n - i /\ i + m = k + 1 /\ k + 1 \in 1 .. n
      BY <1>1, <2>2
    <3>3. (a \o b)[k] = b[m]
      <4>1. k \in 1 .. Len(a) + Len(b) /\ ~ (k <= Len(a)) /\ k - Len(a) = m
        BY <1>1, <1>2, <1>3, <2>2
      <4> QED BY <1>4, <4>1
    <3>1. (a \o b)[k] = touching[k + 1] /\ k + 1 \in 1 .. n
      BY <1>3, <3>2, <3>3
    <3> QED BY <3>1 DEF G!Down
  <2> QED BY <2>1, <2>2
<1>7. G!Without(i) = a \o b
  BY DEF G!Without, a, b
<1> QED BY <1>1, <1>4, <1>5, <1>6, <1>7

LEMMA InitTouched == G!Init => TouchInv
<1> SUFFICES ASSUME G!Init PROVE TouchInv
  OBVIOUS
<1>1. touching = <<>> /\ G!Down = {}
  BY DEF G!Init, G!Down
<1>2. TouchTypes
  BY FingersAssumption DEF G!Init, TouchTypes, G!Spans
<1>3. SeenInv /\ HeldInv /\ PressInv /\ MiddleInv /\ OwedInv
  BY <1>1 DEF G!Init, SeenInv, HeldInv, PressInv, MiddleInv, OwedInv
<1> QED BY <1>2, <1>3 DEF TouchInv

LEMMA NextTouched == TouchInv /\ [G!Next]_(G!gestureVars) => TouchInv'
<1> SUFFICES ASSUME TouchInv, [G!Next]_(G!gestureVars) PROVE TouchInv'
  OBVIOUS
<1>0. TouchTypes /\ SeenInv /\ HeldInv /\ PressInv /\ MiddleInv /\ OwedInv
  BY DEF TouchInv
<1>1. CASE UNCHANGED G!gestureVars
  BY <1>0, <1>1 DEF G!gestureVars, TouchInv, TouchTypes, SeenInv, HeldInv, PressInv, MiddleInv, OwedInv,
                    G!Down, G!Ours, G!Owed
<1>2. CASE G!Waits
  BY <1>0, <1>2 DEF G!Waits, TouchInv, TouchTypes, SeenInv, HeldInv, PressInv, MiddleInv, OwedInv,
                    G!Down, G!Ours, G!Owed
<1>3. CASE G!Cancels
  <2>1. /\ touching' = <<>> /\ span' = 1 /\ seen' = {} /\ gesture' = "idle" /\ lastSpan' = 1
        /\ zoomed' = 0 /\ apart' = 0 /\ middle' = FALSE
    BY <1>0, <1>3 DEF G!Cancels, G!NoPinch, G!Moved, G!Mouse, MiddleInv
  <2>2. TouchTypes'
    BY <2>1, FingersAssumption DEF TouchTypes, G!Spans
  <2>3. G!Down' = {}
    BY <2>1 DEF G!Down
  <2>4. SeenInv' /\ HeldInv' /\ PressInv' /\ MiddleInv' /\ OwedInv'
    BY <2>1, <2>3 DEF SeenInv, HeldInv, PressInv, MiddleInv, OwedInv
  <2> QED BY <2>2, <2>4 DEF TouchInv
<1>4. ASSUME NEW f \in Fingers, G!Lands(f) PROVE TouchInv'
  <2>1. /\ touching' = Append(touching, f) /\ touching' \in Seq(Fingers)
        /\ Len(touching') = Len(touching) + 1 /\ G!Down' = G!Down \cup {f} /\ Len(touching) \in Nat
        /\ seen' = seen \cup {f} /\ far' = (far /\ gesture # "idle") /\ G!Moved(0, FALSE)
        /\ span' \in G!Spans
    <3>1. G!Down' = G!Down \cup {f}
      BY <1>0, <1>4 DEF G!Lands, G!Down, TouchTypes
    <3>2. touching \in Seq(Fingers) /\ span \in G!Spans
      BY <1>0 DEF TouchTypes
    <3>3. span' \in G!Spans
      BY <1>4, <3>2 DEF G!Lands
    <3>4. Len(Append(touching, f)) = Len(touching) + 1 /\ Append(touching, f) \in Seq(Fingers)
          /\ Len(touching) \in Nat
      BY <3>2
    <3> QED BY <1>4, <3>1, <3>3, <3>4 DEF G!Lands
  <2>5. 0 \in Int /\ FALSE \in BOOLEAN
    OBVIOUS
  <2>2. G!Ours' => G!Ours /\ f \notin Off
    BY <2>1 DEF G!Ours
  <2>3. CASE ~ G!OnCanvas(f)
    <3>1. G!Unheard /\ f \in Off
      BY <1>4, <2>3 DEF G!Lands, G!OnCanvas
    <3>2. TouchTypes' /\ HeldInv' /\ PressInv' /\ MiddleInv' /\ OwedInv'
      <4>1. G!Ours' => gesture = "idle"
        BY <2>2, <3>1
      <4> QED BY <2>1, <2>5, <3>1, <4>1, UnheardStep
    <3>3. SeenInv'
      BY <1>0, <2>1, <3>1 DEF SeenInv, G!Unheard
    <3> QED BY <3>2, <3>3 DEF TouchInv
  <2>4. CASE G!OnCanvas(f)
    <3>1. PICK away \in BOOLEAN, ts \in Seq(Fingers), d \in G!Spans :
             ts = touching' /\ d = span' /\ G!Update(ts, away, d)
      BY <1>4, <2>1, <2>4 DEF G!Lands
    <3>2. gesture = "pinch" /\ gesture' = "pinch" /\ G!Ours' => G!Ours /\ d = span + 0
      BY <1>0, <1>4, <2>1, <2>2, <3>1 DEF HeldInv, G!Lands, TouchTypes, G!Spans
    <3>3. TouchTypes' /\ HeldInv' /\ MiddleInv' /\ OwedInv'
      BY <2>1, <2>5, <3>1, <3>2, HeardStep
    <3>4. /\ gesture' # "idle"
          /\ gesture' = "press" => Len(touching') = 1 /\ gesture \in {"idle", "press"}
      <4>1. ts # <<>>
        BY <2>1, <3>1
      <4> QED BY <1>0, <3>1, <4>1, Updated
    <3>5. SeenInv'
      BY <1>0, <2>1, <3>4 DEF SeenInv
    <3>6. PressInv'
      BY <1>0, <2>1, <2>2, <3>4 DEF PressInv, HeldInv, SeenInv
    <3> QED BY <3>3, <3>5, <3>6 DEF TouchInv
  <2> QED BY <2>3, <2>4
<1>5. ASSUME NEW f \in Fingers, G!Travels(f) PROVE TouchInv'
  <2>1. PICK away \in BOOLEAN, d \in G!Spans :
          /\ span' = d
          /\ IF G!OnCanvas(f) THEN G!Update(touching, away, d) ELSE G!Unheard
          /\ G!Moved(d - span, FALSE)
          /\ far' = (far \/ (away /\ G!OnCanvas(f) /\ gesture # "idle"))
    BY <1>0, <1>5 DEF G!Travels, TouchTypes
  <2>2. /\ touching' = touching /\ seen' = seen /\ touching \in Seq(Fingers) /\ G!Down' = G!Down
        /\ (G!Ours' <=> G!Ours) /\ f \in G!Down /\ touching # <<>> /\ d - span \in Int /\ span \in Int
    <3>1. touching' = touching /\ seen' = seen /\ touching \in Seq(Fingers) /\ span \in G!Spans
      BY <1>0, <1>5 DEF G!Travels, TouchTypes
    <3>2. f \in G!Down /\ touching # <<>>
      BY <1>5, <3>1 DEF G!Travels, G!Down
    <3>3. d - span \in Int /\ span \in Int
      BY <3>1, FingersAssumption DEF G!Spans
    <3> QED BY <3>1, <3>2, <3>3 DEF G!Down, G!Ours
  <2>3. CASE ~ G!OnCanvas(f)
    <3>1. G!Unheard /\ ~ G!Ours'
      BY <1>0, <2>1, <2>2, <2>3 DEF G!OnCanvas, G!Ours, SeenInv
    <3>2. TouchTypes' /\ HeldInv' /\ PressInv' /\ MiddleInv' /\ OwedInv'
      BY <2>1, <2>2, <3>1, UnheardStep
    <3>3. SeenInv'
      BY <1>0, <2>2, <3>1 DEF SeenInv, G!Unheard
    <3> QED BY <3>2, <3>3 DEF TouchInv
  <2>4. CASE G!OnCanvas(f)
    <3>1. G!Update(touching, away, d) /\ gesture # "idle"
      BY <1>0, <2>1, <2>2, <2>4 DEF G!OnCanvas, SeenInv
    <3>2. d = span + (d - span)
      BY <2>2, FingersAssumption DEF G!Spans
    <3>3. TouchTypes' /\ HeldInv' /\ MiddleInv' /\ OwedInv'
      BY <2>1, <2>2, <3>1, <3>2, HeardStep
    <3>4. gesture' # "idle" /\ (gesture' = "press" => gesture = "press" /\ ~ away)
      BY <1>0, <2>2, <3>1, Updated
    <3>5. SeenInv'
      BY <1>0, <2>2, <3>4 DEF SeenInv
    <3>6. PressInv'
      BY <1>0, <2>1, <2>2, <3>4 DEF PressInv
    <3> QED BY <3>3, <3>5, <3>6 DEF TouchInv
  <2> QED BY <2>3, <2>4
<1>6. ASSUME NEW f \in Fingers, G!Lifts(f) PROVE TouchInv'
  <2>1. PICK ts \in Seq(Fingers) : /\ touching' = ts /\ Len(ts) = Len(touching) - 1
                                   /\ \A k \in DOMAIN ts : ts[k] \in G!Down
                                   /\ f \in G!Down /\ touching \in Seq(Fingers)
    <3>1. PICK i \in DOMAIN touching : touching[i] = f /\ touching' = G!Without(i)
      BY <1>6 DEF G!Lifts
    <3> QED BY <1>0, <3>1, WithoutFacts DEF G!Down, TouchTypes
  <2>2. G!Down' \subseteq G!Down
    BY <2>1 DEF G!Down
  <2>3. PICK other \in BOOLEAN : G!Moved(0, other) /\ (~ other => G!Pair(touching') = G!Pair(touching))
    BY <1>6 DEF G!Lifts
  <2>4. /\ span' \in G!Spans /\ span' \in Int /\ span \in Int
        /\ Len(ts) >= 2 => other \/ span' = span
    <3>1. span \in G!Spans /\ 1 \in G!Spans /\ G!Spans \subseteq Int
      BY <1>0, FingersAssumption DEF TouchTypes, G!Spans
    <3> QED BY <1>6, <2>1, <2>3, <3>1 DEF G!Lifts
  <2>5. /\ seen' = IF gesture' = "idle" THEN G!Down' ELSE seen
        /\ far' = (far /\ gesture' # "idle")
        /\ IF G!OnCanvas(f) THEN \E away \in BOOLEAN : G!Update(touching', away, span') ELSE G!Unheard
    BY <1>6 DEF G!Lifts
  <2>6. CASE ~ G!OnCanvas(f)
    <3>1. G!Unheard /\ (G!Ours' => gesture = "idle") /\ gesture' = gesture
      BY <1>0, <2>1, <2>5, <2>6 DEF G!OnCanvas, G!Ours, SeenInv, G!Unheard
    <3>2. TouchTypes' /\ HeldInv' /\ PressInv' /\ MiddleInv' /\ OwedInv'
      BY <2>1, <2>3, <2>4, <3>1, UnheardStep
    <3>3. SeenInv'
      BY <1>0, <2>2, <2>5, <3>1 DEF SeenInv
    <3> QED BY <3>2, <3>3 DEF TouchInv
  <2>7. CASE G!OnCanvas(f)
    <3>1. PICK away \in BOOLEAN, d \in G!Spans : d = span' /\ G!Update(ts, away, d)
      BY <2>1, <2>4, <2>5, <2>7
    <3>2. /\ gesture # "idle"
          /\ gesture' = "idle" <=> ts = <<>>
          /\ gesture' = "pinch" <=> Len(ts) >= 2
          /\ gesture' = "press" => Len(ts) = 1 /\ gesture = "press"
      <4>1. gesture # "idle"
        BY <1>0, <2>1, <2>7 DEF G!OnCanvas, SeenInv
      <4> QED BY <1>0, <3>1, <4>1, Updated
    <3>3. gesture = "pinch" /\ gesture' = "pinch" /\ G!Ours' => G!Ours /\ (other \/ d = span + 0)
      <4>1. gesture' = "pinch" => seen' = seen
        BY <2>5
      <4> QED BY <2>4, <3>1, <3>2, <4>1 DEF G!Ours
    <3>4. TouchTypes' /\ HeldInv' /\ MiddleInv' /\ OwedInv'
      BY <2>1, <2>3, <3>1, <3>3, HeardStep
    <3>5. SeenInv'
      <4>1. ts = <<>> => G!Down' = {}
        BY <2>1 DEF G!Down
      <4> QED BY <1>0, <2>2, <2>5, <3>2, <4>1 DEF SeenInv
    <3>6. PressInv'
      <4> SUFFICES ASSUME G!Ours', gesture' = "press" PROVE FALSE
        BY DEF PressInv
      <4>1. G!Ours /\ gesture = "press" /\ Len(ts) = 1
        BY <2>5, <3>2 DEF G!Ours
      <4>2. Len(touching) = 1
        BY <1>0, <4>1 DEF HeldInv
      <4> QED BY <2>1, <4>1, <4>2
    <3> QED BY <3>4, <3>5, <3>6 DEF TouchInv
  <2> QED BY <2>6, <2>7
<1> QED BY <1>1, <1>2, <1>3, <1>4, <1>5, <1>6 DEF G!Next

\* A step of the touches clicks and pans as they mean.
LEMMA NextMeant == TouchInv /\ G!Next => G!Tap
<1> SUFFICES ASSUME TouchInv, G!Next PROVE G!Tap
  OBVIOUS
<1>1. ASSUME G!Ours, tapped' PROVE ~ slow /\ ~ far /\ \A f, g \in seen : f = g
  <2>0. TouchTypes /\ MiddleInv /\ PressInv /\ HeldInv
    BY DEF TouchInv
  <2>1. PICK ts \in Seq(Fingers), away \in BOOLEAN, d \in G!Spans : G!Update(ts, away, d)
    <3>1. touching \in Seq(Fingers) /\ \A f \in Fingers : Append(touching, f) \in Seq(Fingers)
          /\ \A i \in DOMAIN touching : G!Without(i) \in Seq(Fingers)
      BY <2>0, WithoutFacts DEF TouchTypes
    <3>2. span \in G!Spans /\ 1 \in G!Spans
      BY <2>0, FingersAssumption DEF TouchTypes, G!Spans
    <3>3. ~ G!Waits /\ ~ G!Cancels /\ ~ G!Unheard
      BY <1>1 DEF G!Waits, G!Cancels, G!Unheard, G!Mouse
    <3>4. CASE \E f \in Fingers : G!Lands(f)
      BY <3>1, <3>2, <3>3, <3>4 DEF G!Lands
    <3>5. CASE \E f \in Fingers : G!Travels(f)
      BY <3>1, <3>2, <3>3, <3>5 DEF G!Travels
    <3>6. CASE \E f \in Fingers : G!Lifts(f)
      BY <3>1, <3>2, <3>3, <3>6 DEF G!Lifts
    <3> QED BY <3>3, <3>4, <3>5, <3>6 DEF G!Next
  <2>2. gesture = "press" /\ ~ slow
    BY <1>1, <2>0, <2>1, Clicked
  <2>3. ~ far /\ seen = G!Down /\ Len(touching) = 1
    BY <1>1, <2>0, <2>2 DEF PressInv, HeldInv
  <2>4. seen = {touching[1]}
    BY <2>0, <2>3 DEF G!Down, TouchTypes
  <2> QED BY <2>2, <2>3, <2>4
<1> QED BY <1>1 DEF G!Tap

LEMMA TouchedMeans == TouchInv => G!Button /\ G!PinchZooms
<1> SUFFICES ASSUME TouchInv PROVE G!Button /\ G!PinchZooms
  OBVIOUS
<1>1. G!Button
  BY DEF TouchInv, MiddleInv, HeldInv, G!Button
<1>2. G!PinchZooms
  BY DEF TouchInv, OwedInv, G!PinchZooms
<1> QED BY <1>1, <1>2

LEMMA TouchStep == [OverlayNext]_overlayVars => [G!Next]_(G!gestureVars)
BY DEF OverlayNext, Comment, Follow, Touch, overlayVars, gestures, G!gestureVars

LEMMA TouchesAlways == OverlaySpec => []TouchInv
<1>1. OverlayInit => TouchInv
  BY InitTouched DEF OverlayInit
<1>2. TouchInv /\ [OverlayNext]_overlayVars => TouchInv'
  BY TouchStep, NextTouched
<1> QED BY <1>1, <1>2, PTL DEF OverlaySpec

(***************************************************************************)
(* However slowly two fingers move, the wheel has turned by what they      *)
(* moved to within a step, as long as the pair is the same and no finger   *)
(* beside the canvas took part.                                            *)
(***************************************************************************)
THEOREM PinchesZoom == OverlaySpec => []PinchZooms
<1>1. TouchInv => PinchZooms
  BY TouchedMeans DEF PinchZooms
<1> QED BY <1>1, TouchesAlways, PTL

(***************************************************************************)
(* No end of a pinch or of a pan reads as a click, and the middle button   *)
(* is down just while one finger pans.                                     *)
(***************************************************************************)
THEOREM ClicksAreMeant == OverlaySpec => ClicksMeant
<1>1. TouchInv => G!Button
  BY TouchedMeans
<1>2. TouchInv /\ G!Button' /\ [OverlayNext]_overlayVars =>
        [part = "touch" => G!Tap /\ G!Button']_overlayVars
  <2> SUFFICES ASSUME TouchInv, OverlayNext, part = "touch" PROVE G!Tap
    OBVIOUS
  <2>1. G!Next
    BY DEF OverlayNext, Comment, Follow, Touch
  <2> QED BY <2>1, NextMeant
<1> QED BY <1>1, <1>2, TouchesAlways, PTL DEF OverlaySpec, ClicksMeant
=============================================================================
