-------------------------- MODULE SeedRoomProofs --------------------------
(***************************************************************************)
(* The arbitration of concurrent seeds, for any set of tabs: no run of the *)
(* protocol retracts the highest seed, whoever parks, closes or is slow,   *)
(* and a tab still on the sheet it seeded guards its standing layout.      *)
(***************************************************************************)
EXTENDS SeedRoom, SequenceTheorems, TLAPS

InFlight(ch, m) ==
  \E f, t \in Tabs : \E k \in DOMAIN ch[f][t] : m = ch[f][t][k]

\* Posting adds nothing to the channel but the posted message.
LEMMA PostedChannels ==
  ASSUME NEW f \in Tabs, NEW ch \in Channels, NEW msg \in Message
  PROVE  /\ Posted(f, ch, msg) \in Channels
         /\ \A t \in Tabs : ~Connected(t) =>
              \A g \in Tabs : Posted(f, ch, msg)[g][t] = ch[g][t]
         /\ \A m : InFlight(Posted(f, ch, msg), m) => m = msg \/ InFlight(ch, m)
<1> DEFINE new == Posted(f, ch, msg)
<1>1. /\ \A t \in Tabs : new[f][t] = IF t # f /\ Connected(t)
                                      THEN Append(ch[f][t], msg) ELSE ch[f][t]
      /\ \A g \in Tabs \ {f} : new[g] = ch[g]
      /\ new = [g \in Tabs |-> new[g]]
      /\ new[f] = [t \in Tabs |-> new[f][t]]
  BY DEF Posted, Channels
<1>2. \A t \in Tabs : new[f][t] \in Seq(Message)
  <2> TAKE t \in Tabs
  <2>1. ch[f][t] \in Seq(Message)
    BY DEF Channels
  <2>2. Append(ch[f][t], msg) \in Seq(Message)
    BY <2>1
  <2> QED BY <1>1, <2>1, <2>2
<1>3. new \in Channels
  <2>1. new[f] \in [Tabs -> Seq(Message)]
    BY <1>1, <1>2
  <2>2. \A g \in Tabs : new[g] \in [Tabs -> Seq(Message)]
    BY <2>1, <1>1 DEF Channels
  <2> QED BY <2>2, <1>1 DEF Channels
<1>4. \A t \in Tabs : ~Connected(t) => \A g \in Tabs : new[g][t] = ch[g][t]
  BY <1>1
<1>5. ASSUME NEW m, InFlight(new, m), m # msg
      PROVE  InFlight(ch, m)
  <2>1. PICK g \in Tabs, t \in Tabs : \E k \in DOMAIN new[g][t] : m = new[g][t][k]
    BY <1>5 DEF InFlight
  <2>2. CASE g # f \/ t = f \/ ~Connected(t)
    <3>1. new[g][t] = ch[g][t]
      BY <2>2, <1>1
    <3> QED BY <2>1, <3>1 DEF InFlight
  <2>3. CASE g = f /\ t # f /\ Connected(t)
    <3>1. new[g][t] = Append(ch[f][t], msg) /\ ch[f][t] \in Seq(Message)
      BY <2>3, <1>1 DEF Channels
    <3>2. PICK k \in DOMAIN new[g][t] : m = new[g][t][k]
      BY <2>1
    <3>3. k \in DOMAIN ch[f][t] /\ m = ch[f][t][k]
      BY <3>1, <3>2, <1>5
    <3> QED BY <3>3 DEF InFlight
  <2> QED BY <2>2, <2>3
<1> QED BY <1>3, <1>4, <1>5

\* Handling the oldest message of f only takes it off t's queue.
LEMMA HandledChannels ==
  ASSUME TypeOK, NEW f \in Tabs, NEW t \in Tabs, channel[f][t] # <<>>
  PROVE  /\ Handled(f, t) \in Channels
         /\ \A g, u \in Tabs : channel[g][u] = <<>> => Handled(f, t)[g][u] = <<>>
         /\ \A m : InFlight(Handled(f, t), m) => InFlight(channel, m)
         /\ Head(channel[f][t]) \in Message
         /\ InFlight(channel, Head(channel[f][t]))
<1> DEFINE old == channel[f][t]
<1>1. old \in Seq(Message) /\ old # <<>>
  BY DEF TypeOK, Channels
<1>2. /\ Tail(old) \in Seq(Message)
      /\ Head(old) \in Message
      /\ 1 \in DOMAIN old
      /\ Head(old) = old[1]
      /\ \A k \in DOMAIN Tail(old) : k + 1 \in DOMAIN old /\ Tail(old)[k] = old[k + 1]
  BY <1>1
<1>3. /\ Handled(f, t)[f][t] = Tail(old)
      /\ \A g, u \in Tabs : g # f \/ u # t => Handled(f, t)[g][u] = channel[g][u]
  BY DEF Handled, TypeOK, Channels
<1>4. Handled(f, t) \in Channels
  <2>1. [channel[f] EXCEPT ![t] = Tail(@)] \in [Tabs -> Seq(Message)]
    BY <1>2 DEF TypeOK, Channels
  <2> QED BY <2>1 DEF Handled, TypeOK, Channels
<1>5. \A g, u \in Tabs : channel[g][u] = <<>> => Handled(f, t)[g][u] = <<>>
  BY <1>1, <1>3
<1>6. ASSUME NEW m, InFlight(Handled(f, t), m)
      PROVE  InFlight(channel, m)
  <2>1. PICK g \in Tabs, u \in Tabs :
          \E k \in DOMAIN Handled(f, t)[g][u] : m = Handled(f, t)[g][u][k]
    BY <1>6 DEF InFlight
  <2>2. CASE g # f \/ u # t
    BY <2>1, <2>2, <1>3 DEF InFlight
  <2>3. CASE g = f /\ u = t
    BY <2>1, <2>3, <1>2, <1>3 DEF InFlight
  <2> QED BY <2>2, <2>3
<1>7. InFlight(channel, Head(old))
  BY <1>2 DEF InFlight
<1> QED BY <1>2, <1>4, <1>5, <1>6, <1>7

LEMMA MessageFields ==
  /\ Query \in Message /\ Query.seeds = {} /\ Query.retracted = {}
  /\ \A s, r \in SUBSET Tabs :
       State(s, r) \in Message /\ State(s, r).seeds = s /\ State(s, r).retracted = r
  /\ \A m \in Message : m.seeds \subseteq Tabs /\ m.retracted \subseteq Tabs
  BY DEF Query, State, Message

-----------------------------------------------------------------------------
\* A tab that is not connected is not posted to.
LEMMA QueuesStayEmpty ==
  ASSUME TypeOK, NEW ch \in Channels, NEW f \in Tabs, NEW msg \in Message,
         \A g, u \in Tabs : channel[g][u] = <<>> => ch[g][u] = <<>>
  PROVE  /\ Posted(f, ch, msg) \in Channels
         /\ \A g, u \in Tabs : ~Connected(u) => Posted(f, ch, msg)[g][u] = <<>>
<1>1. \A u \in Tabs : ~Connected(u) =>
         \A g \in Tabs : Posted(f, ch, msg)[g][u] = ch[g][u]
  BY PostedChannels
<1>2. \A g, u \in Tabs : ~Connected(u) => ch[g][u] = <<>>
  BY DEF TypeOK
<1> QED BY <1>1, <1>2, PostedChannels

\* What Init and Next keep of TypeOK.
LEMMA TypeInductive == TypeOK /\ [Next]_vars => TypeOK'
<1> SUFFICES ASSUME TypeOK, [Next]_vars
             PROVE  TypeOK'
  OBVIOUS
<1> USE DEF replica, Phases
<1>1. ASSUME NEW t \in Tabs, Connect(t)
      PROVE  TypeOK'
  <2>1. channel' \in Channels
    BY <1>1, PostedChannels, MessageFields DEF Connect, TypeOK
  <2>2. \A f, u \in Tabs : ~Connected(u)' => channel'[f][u] = <<>>
    <3> SUFFICES ASSUME NEW f \in Tabs, NEW u \in Tabs, ~Connected(u)'
                 PROVE  channel'[f][u] = <<>>
      OBVIOUS
    <3>1. ~Connected(u)
      BY <1>1 DEF Connect, Connected, TypeOK
    <3>2. Posted(t, channel, Query)[f][u] = channel[f][u]
      BY <3>1, PostedChannels, MessageFields DEF TypeOK
    <3> QED BY <1>1, <3>1, <3>2 DEF Connect, TypeOK
  <2> QED BY <1>1, <2>1, <2>2 DEF Connect, TypeOK
<1>2. ASSUME NEW t \in Tabs, SeedFromFile(t)
      PROVE  TypeOK'
  <2>1. State({t}, {}) \in Message
    BY MessageFields
  <2>2. channel' \in Channels
    BY <1>2, <2>1, PostedChannels DEF SeedFromFile, TypeOK
  <2>3. \A f, u \in Tabs : ~Connected(u)' => channel'[f][u] = <<>>
    <3> SUFFICES ASSUME NEW f \in Tabs, NEW u \in Tabs, ~Connected(u)'
                 PROVE  channel'[f][u] = <<>>
      OBVIOUS
    <3>1. ~Connected(u)
      BY <1>2 DEF SeedFromFile, Connected, TypeOK
    <3>2. Posted(t, channel, State({t}, {}))[f][u] = channel[f][u]
      BY <2>1, <3>1, PostedChannels DEF TypeOK
    <3> QED BY <1>2, <3>1, <3>2 DEF SeedFromFile, TypeOK
  <2> QED BY <1>2, <2>2, <2>3 DEF SeedFromFile, TypeOK
<1>3. ASSUME NEW t \in Tabs, Adopt(t) \/ Park(t) \/ Rebind(t)
      PROVE  TypeOK'
  <2>1. \A u \in Tabs : Connected(u)' <=> Connected(u)
    BY <1>3 DEF Adopt, Park, Rebind, Connected, TypeOK
  <2> QED BY <1>3, <2>1 DEF Adopt, Park, Rebind, TypeOK
<1>4. ASSUME NEW t \in Tabs, Close(t)
      PROVE  TypeOK'
  <2>1. channel' \in Channels
    <3>1. \A f \in Tabs : [channel[f] EXCEPT ![t] = <<>>] \in [Tabs -> Seq(Message)]
      BY DEF TypeOK, Channels
    <3> QED BY <1>4, <3>1 DEF Close, Channels
  <2>2. \A f, u \in Tabs : ~Connected(u)' => channel'[f][u] = <<>>
    <3> SUFFICES ASSUME NEW f \in Tabs, NEW u \in Tabs, ~Connected(u)'
                 PROVE  channel'[f][u] = <<>>
      OBVIOUS
    <3>1. u = t \/ ~Connected(u)
      BY <1>4 DEF Close, Connected, TypeOK
    <3> QED BY <1>4, <3>1 DEF Close, TypeOK, Channels
  <2> QED BY <1>4, <2>1, <2>2 DEF Close, TypeOK
<1>5. ASSUME NEW t \in Tabs, NEW f \in Tabs, AnswerQuery(t, f)
      PROVE  TypeOK'
  <2>1. State(seeds[t], retracted[t]) \in Message
    BY MessageFields DEF TypeOK
  <2>2. /\ Handled(f, t) \in Channels
        /\ \A g, u \in Tabs : channel[g][u] = <<>> => Handled(f, t)[g][u] = <<>>
    BY <1>5, HandledChannels DEF AnswerQuery
  <2>3. /\ channel' \in Channels
        /\ \A g, u \in Tabs : ~Connected(u) => channel'[g][u] = <<>>
    <3>1. channel' = Posted(t, Handled(f, t), State(seeds[t], retracted[t]))
      BY <1>5 DEF AnswerQuery
    <3> QED BY <2>1, <2>2, <3>1, QueuesStayEmpty
  <2>4. \A u \in Tabs : Connected(u)' <=> Connected(u)
    BY <1>5 DEF AnswerQuery, Connected
  <2> QED BY <1>5, <2>3, <2>4 DEF AnswerQuery, TypeOK
<1>6. ASSUME NEW t \in Tabs, NEW f \in Tabs, Receive(t, f)
      PROVE  TypeOK'
  <2> DEFINE msg == Head(channel[f][t])
  <2>1. msg.seeds \subseteq Tabs /\ msg.retracted \subseteq Tabs
    BY <1>6, HandledChannels, MessageFields DEF Receive
  <2>2. /\ Handled(f, t) \in Channels
        /\ \A g, u \in Tabs : channel[g][u] = <<>> => Handled(f, t)[g][u] = <<>>
    BY <1>6, HandledChannels DEF Receive
  <2>3. State({}, {t}) \in Message
    BY MessageFields
  <2>4. channel' = Handled(f, t) \/ channel' = Posted(t, Handled(f, t), State({}, {t}))
    BY <1>6 DEF Receive
  <2>5. /\ channel' \in Channels
        /\ \A g, u \in Tabs : ~Connected(u) => channel'[g][u] = <<>>
    <3>1. CASE channel' = Handled(f, t)
      BY <2>2, <3>1 DEF TypeOK
    <3>2. CASE channel' = Posted(t, Handled(f, t), State({}, {t}))
      <4> DEFINE note == State({}, {t})
      <4>1. note \in Message /\ channel' = Posted(t, Handled(f, t), note)
        BY <2>3, <3>2
      <4> HIDE DEF note
      <4> QED BY <2>2, <4>1, QueuesStayEmpty
    <3> QED BY <2>4, <3>1, <3>2
  <2>6. \A u \in Tabs : Connected(u)' <=> Connected(u)
    BY <1>6 DEF Receive, Connected
  <2>7. seeds' \in [Tabs -> SUBSET Tabs] /\ retracted' \in [Tabs -> SUBSET Tabs]
    BY <1>6, <2>1 DEF Receive, TypeOK
  <2>8. armed' \in [Tabs -> BOOLEAN]
    BY <1>6 DEF Receive, TypeOK
  <2> QED BY <1>6, <2>5, <2>6, <2>7, <2>8 DEF Receive, TypeOK
<1>7. CASE UNCHANGED vars
  BY <1>7 DEF vars, TypeOK, Connected
<1> QED BY <1>1, <1>2, <1>3, <1>4, <1>5, <1>6, <1>7 DEF Next, Handle

(***************************************************************************)
(* Every reachable state is well formed, and nothing is queued for a tab   *)
(* whose channel is not open (connectBroadcastChannel, destroy).           *)
(***************************************************************************)
THEOREM TypeCorrect == Spec => []TypeOK
<1>1. Init => TypeOK
  <2>1. <<>> \in Seq(Message)
    OBVIOUS
  <2> QED BY <2>1 DEF Init, replica, TypeOK, Phases, Channels, Connected
<1> QED BY <1>1, TypeInductive, PTL DEF Spec

-----------------------------------------------------------------------------
(***************************************************************************)
(* The strengthening of LosersHaveAWinner.  A retraction travels: the tab  *)
(* that merges it does not see why it was made, so the claim has to hold   *)
(* of the messages in flight, and their seeds have to be real.             *)
(***************************************************************************)
Beaten(u) == \E w \in Seeded : w > u

Honest(m) == m.seeds \subseteq Seeded /\ \A u \in m.retracted : Beaten(u)

SeedsAreReal == \A t \in Tabs : seeds[t] \subseteq Seeded

WinInv == /\ SeedsAreReal
          /\ LosersHaveAWinner
          /\ \A m : InFlight(channel, m) => Honest(m)

\* Seeds are never taken back, so whatever was honest stays so.
LEMMA HonestyKept ==
  ASSUME TypeOK, [Next]_vars
  PROVE  /\ Seeded \subseteq Seeded'
         /\ \A u : Beaten(u) => Beaten(u)'
         /\ \A m : Honest(m) => Honest(m)'
<1>1. Seeded \subseteq Seeded'
  <2> SUFFICES ASSUME NEW u \in Tabs, u \in seeds[u]
               PROVE  u \in seeds'[u]
    BY DEF Seeded
  <2>1. ASSUME NEW t \in Tabs, SeedFromFile(t)
        PROVE  u \in seeds'[u]
    BY <2>1 DEF SeedFromFile, TypeOK
  <2>2. ASSUME NEW t \in Tabs, NEW f \in Tabs, Receive(t, f)
        PROVE  u \in seeds'[u]
    BY <2>2 DEF Receive, TypeOK
  <2>3. CASE UNCHANGED seeds
    BY <2>3
  <2> QED BY <2>1, <2>2, <2>3 DEF Next, vars, replica, Connect, Adopt, Park, Rebind, Close,
             Handle, AnswerQuery
<1> QED BY <1>1 DEF Beaten, Honest

LEMMA WinInductive == TypeOK /\ WinInv /\ [Next]_vars => WinInv'
<1> SUFFICES ASSUME TypeOK, WinInv, [Next]_vars
             PROVE  WinInv'
  OBVIOUS
<1> USE DEF replica
<1>0. /\ Seeded \subseteq Seeded'
      /\ \A u : Beaten(u) => Beaten(u)'
      /\ \A m : Honest(m) => Honest(m)'
  BY HonestyKept
<1>a. SUFFICES /\ \A t \in Tabs : seeds'[t] \subseteq Seeded'
               /\ \A t \in Tabs : \A u \in retracted'[t] : Beaten(u)'
               /\ \A m : InFlight(channel', m) => Honest(m)'
  <2>1. LosersHaveAWinner' <=> \A t \in Tabs : \A u \in retracted'[t] \cap Tabs : Beaten(u)'
    BY DEF LosersHaveAWinner, Beaten
  <2> QED BY <2>1 DEF WinInv, SeedsAreReal, InFlight
<1>b. \A t \in Tabs : \A u \in retracted[t] : Beaten(u)
  BY DEF WinInv, LosersHaveAWinner, Beaten, TypeOK
<1>1. ASSUME NEW t \in Tabs, Connect(t)
      PROVE  \A m : InFlight(channel', m) => Honest(m)'
  <2>1. \A m : InFlight(channel', m) => m = Query \/ InFlight(channel, m)
    BY <1>1, PostedChannels, MessageFields DEF Connect, TypeOK
  <2>2. Honest(Query)'
    BY MessageFields DEF Honest, Query
  <2> QED BY <2>1, <2>2, <1>0 DEF WinInv
<1>2. ASSUME NEW t \in Tabs, SeedFromFile(t)
      PROVE  /\ \A u \in Tabs : seeds'[u] \subseteq Seeded'
             /\ \A m : InFlight(channel', m) => Honest(m)'
  <2>1. t \in Seeded'
    BY <1>2 DEF SeedFromFile, Seeded, TypeOK
  <2>2. \A u \in Tabs : seeds'[u] \subseteq Seeded'
    BY <1>0, <1>2, <2>1 DEF SeedFromFile, TypeOK, WinInv, SeedsAreReal
  <2>3. State({t}, {}) \in Message
    BY MessageFields
  <2>4. \A m : InFlight(channel', m) => m = State({t}, {}) \/ InFlight(channel, m)
    BY <1>2, <2>3, PostedChannels DEF SeedFromFile, TypeOK
  <2>5. Honest(State({t}, {}))'
    BY <2>1 DEF Honest, State
  <2> QED BY <2>2, <2>4, <2>5, <1>0 DEF WinInv
<1>3. ASSUME NEW t \in Tabs, Close(t)
      PROVE  \A m : InFlight(channel', m) => Honest(m)'
  <2>1. \A m : InFlight(channel', m) => InFlight(channel, m)
    <3> SUFFICES ASSUME NEW m, InFlight(channel', m)
                 PROVE  InFlight(channel, m)
      OBVIOUS
    <3>1. PICK f \in Tabs, u \in Tabs : \E k \in DOMAIN channel'[f][u] : m = channel'[f][u][k]
      BY DEF InFlight
    <3>2. u # t
      BY <1>3, <3>1 DEF Close, TypeOK, Channels
    <3>3. channel'[f][u] = channel[f][u]
      BY <1>3, <3>2 DEF Close, TypeOK, Channels
    <3> QED BY <3>1, <3>3 DEF InFlight
  <2> QED BY <2>1, <1>0 DEF WinInv
<1>4. ASSUME NEW t \in Tabs, NEW f \in Tabs, AnswerQuery(t, f)
      PROVE  \A m : InFlight(channel', m) => Honest(m)'
  <2> DEFINE reply == State(seeds[t], retracted[t])
  <2>1. reply \in Message
    BY MessageFields DEF TypeOK
  <2>2. /\ Handled(f, t) \in Channels
        /\ \A m : InFlight(Handled(f, t), m) => InFlight(channel, m)
    BY <1>4, HandledChannels DEF AnswerQuery
  <2>3. channel' = Posted(t, Handled(f, t), reply)
    BY <1>4 DEF AnswerQuery
  <2> HIDE DEF reply
  <2>4. \A m : InFlight(channel', m) => m = reply \/ InFlight(channel, m)
    BY <2>1, <2>2, <2>3, PostedChannels
  <2>5. Honest(reply)
    BY <1>b DEF reply, Honest, State, WinInv, SeedsAreReal
  <2> QED BY <2>4, <2>5, <1>0 DEF WinInv
<1>5. ASSUME NEW t \in Tabs, NEW f \in Tabs, Receive(t, f)
      PROVE  /\ \A u \in Tabs : seeds'[u] \subseteq Seeded'
             /\ \A u \in Tabs : \A v \in retracted'[u] : Beaten(v)'
             /\ \A m : InFlight(channel', m) => Honest(m)'
  <2> DEFINE msg == Head(channel[f][t])
             merged == seeds[t] \cup msg.seeds
             note == State({}, {t})
  <2>1. Honest(msg)
    BY <1>5, HandledChannels DEF Receive, WinInv
  <2>2. merged \subseteq Seeded
    BY <2>1 DEF Honest, WinInv, SeedsAreReal
  <2>3. \A u \in Tabs : seeds'[u] \subseteq Seeded'
    BY <1>0, <1>5, <2>2 DEF Receive, TypeOK, WinInv, SeedsAreReal
  <2>4. LosesTo(t, merged) => Beaten(t)
    BY <2>2 DEF LosesTo, Beaten
  <2>5. \A u \in Tabs : \A v \in retracted'[u] :
           v \in retracted[u] \/ v \in msg.retracted \/ (v = t /\ LosesTo(t, merged))
    BY <1>5 DEF Receive, TypeOK
  <2>6. \A u \in Tabs : \A v \in retracted'[u] : Beaten(v)'
    <3>1. \A v \in msg.retracted : Beaten(v)
      BY <2>1 DEF Honest
    <3> HIDE DEF msg, merged
    <3> QED BY <1>0, <1>b, <2>4, <2>5, <3>1
  <2>7. /\ Handled(f, t) \in Channels
        /\ \A m : InFlight(Handled(f, t), m) => InFlight(channel, m)
    BY <1>5, HandledChannels DEF Receive
  <2>8. note \in Message
    BY MessageFields
  <2>9. \/ channel' = Handled(f, t)
        \/ (LosesTo(t, merged) /\ channel' = Posted(t, Handled(f, t), note))
    BY <1>5 DEF Receive
  <2>10. LosesTo(t, merged) => Honest(note)
    BY <2>4 DEF Honest, State
  <2> HIDE DEF note, merged
  <2>11. \A m : InFlight(channel', m) =>
            InFlight(channel, m) \/ (m = note /\ LosesTo(t, merged))
    BY <2>7, <2>8, <2>9, PostedChannels
  <2>12. \A m : InFlight(channel', m) => Honest(m)'
    BY <1>0, <2>10, <2>11 DEF WinInv
  <2> QED BY <2>3, <2>6, <2>12
<1>6. ASSUME NEW t \in Tabs, Connect(t) \/ SeedFromFile(t) \/ Close(t)
      PROVE  \A u \in Tabs : \A v \in retracted'[u] : Beaten(v)'
  <2>1. retracted' = retracted
    BY <1>6 DEF Connect, SeedFromFile, Close
  <2> QED BY <1>0, <1>b, <2>1
<1>7. ASSUME NEW t \in Tabs, NEW f \in Tabs, AnswerQuery(t, f)
      PROVE  \A u \in Tabs : \A v \in retracted'[u] : Beaten(v)'
  <2>1. retracted' = retracted
    BY <1>7 DEF AnswerQuery
  <2> QED BY <1>0, <1>b, <2>1
<1>8. UNCHANGED seeds => \A u \in Tabs : seeds'[u] \subseteq Seeded'
  BY <1>0 DEF WinInv, SeedsAreReal
<1>9. CASE UNCHANGED <<seeds, retracted, channel>>
  BY <1>0, <1>b, <1>9 DEF WinInv, SeedsAreReal
<1> QED BY <1>1, <1>2, <1>3, <1>4, <1>5, <1>6, <1>7, <1>8, <1>9
     DEF Next, vars, Handle, Adopt, Park, Rebind, Connect, SeedFromFile, Close, AnswerQuery

(***************************************************************************)
(* For any number of tabs, joining, seeding, parking and closing in any    *)
(* order: a layout is only ever retracted for a higher seed that exists,   *)
(* so the arbitration of seed() never deletes the last copy.               *)
(***************************************************************************)
THEOREM LosersHaveAWinnerAlways == Spec => []LosersHaveAWinner
<1>1. Init => WinInv
  BY DEF Init, replica, WinInv, SeedsAreReal, LosersHaveAWinner, InFlight
<1>2. WinInv => LosersHaveAWinner
  BY DEF WinInv
<1> QED BY <1>1, <1>2, WinInductive, TypeCorrect, PTL DEF Spec

-----------------------------------------------------------------------------
\* The strengthening of LosersAreArmed: a tab seeds when its room has settled.
ArmInv == /\ LosersAreArmed
          /\ \A t \in Tabs : phase[t] \in {"closed", "settling"} => t \notin Seeded

LEMMA ArmInductive ==
  ASSUME TypeOK, WinInv, ArmInv, [Next]_vars
  PROVE  ArmInv'
<1> USE DEF replica
<1>1. ASSUME NEW t \in Tabs, Connect(t)
      PROVE  ArmInv'
  BY <1>1 DEF Connect, TypeOK, ArmInv, LosersAreArmed, Seeded
<1>2. ASSUME NEW t \in Tabs, SeedFromFile(t)
      PROVE  ArmInv'
  <2>1. \A u \in Tabs \ {t} : /\ phase'[u] = phase[u] /\ seeds'[u] = seeds[u]
                              /\ retracted'[u] = retracted[u] /\ armed'[u] = armed[u]
    BY <1>2 DEF SeedFromFile, TypeOK
  <2>2. phase'[t] = "bound" /\ seeds'[t] = {t} /\ armed'[t]
    BY <1>2 DEF SeedFromFile, TypeOK
  <2>3. \A u \in seeds'[t] : u <= t
    BY <2>2, TabsAssumption
  <2>4. LosersAreArmed'
    BY <2>1, <2>2, <2>3 DEF ArmInv, LosersAreArmed
  <2> QED BY <2>1, <2>2, <2>4 DEF ArmInv, Seeded
<1>3. ASSUME NEW t \in Tabs, Adopt(t)
      PROVE  ArmInv'
  BY <1>3 DEF Adopt, TypeOK, ArmInv, LosersAreArmed, Seeded
<1>4. ASSUME NEW t \in Tabs, Park(t) \/ Rebind(t)
      PROVE  ArmInv'
  BY <1>4 DEF Park, Rebind, TypeOK, ArmInv, LosersAreArmed, Seeded
<1>5. ASSUME NEW t \in Tabs, Close(t)
      PROVE  ArmInv'
  BY <1>5 DEF Close, Connected, TypeOK, ArmInv, LosersAreArmed, Seeded
<1>6. ASSUME NEW t \in Tabs, NEW f \in Tabs, AnswerQuery(t, f)
      PROVE  ArmInv'
  BY <1>6 DEF AnswerQuery, ArmInv, LosersAreArmed, Seeded
<1>7. ASSUME NEW t \in Tabs, NEW f \in Tabs, Receive(t, f)
      PROVE  ArmInv'
  <2> DEFINE msg == Head(channel[f][t])
             merged == seeds[t] \cup msg.seeds
  <2>1. merged \subseteq Seeded
    BY <1>7, HandledChannels DEF Receive, WinInv, SeedsAreReal, Honest
  <2>2. \A u \in Tabs \ {t} : /\ phase'[u] = phase[u] /\ seeds'[u] = seeds[u]
                              /\ retracted'[u] = retracted[u] /\ armed'[u] = armed[u]
    BY <1>7 DEF Receive, TypeOK
  <2>3. /\ phase'[t] = phase[t] /\ seeds'[t] = merged
        /\ retracted[t] \subseteq retracted'[t]
        /\ LosesTo(t, merged) => t \in retracted'[t]
        /\ ~LosesTo(t, merged) => armed'[t] = armed[t]
    BY <1>7 DEF Receive, TypeOK
  <2> HIDE DEF merged
  <2>4. t \in merged => t \in seeds[t]
    BY <2>1 DEF Seeded
  <2>5. phase[t] \in {"closed", "settling"} => t \notin merged
    BY <2>4 DEF ArmInv, Seeded
  <2>6. ASSUME t \in merged, t \notin retracted'[t], phase'[t] = "bound"
        PROVE  armed'[t] /\ \A u \in merged : u <= t
    <3>1. armed[t] /\ ~LosesTo(t, merged)
      BY <2>3, <2>4, <2>6 DEF ArmInv, LosersAreArmed
    <3>2. merged \subseteq Nat /\ t \in Nat
      BY <2>1, TabsAssumption DEF Seeded
    <3>3. ~\E u \in merged : u > t
      BY <3>1 DEF LosesTo
    <3>4. \A u \in merged : u <= t
      BY <3>2, <3>3
    <3> QED BY <2>3, <3>1, <3>4
  <2> QED BY <2>2, <2>3, <2>5, <2>6 DEF ArmInv, LosersAreArmed, Seeded
<1>8. CASE UNCHANGED vars
  BY <1>8 DEF vars, ArmInv, LosersAreArmed, Seeded
<1> QED BY <1>1, <1>2, <1>3, <1>4, <1>5, <1>6, <1>7, <1>8 DEF Next, Handle

(***************************************************************************)
(* No tab that lost the arbitration forgets it while it stays on the sheet *)
(* it seeded: its standing layout is guarded by an attached observer that  *)
(* has seen no better seed.  (Once the sheet is left this fails: see the   *)
(* run seed_parked.)                                                       *)
(***************************************************************************)
THEOREM LosersAreArmedAlways == Spec => []LosersAreArmed
<1>1. Init => WinInv /\ ArmInv
  BY DEF Init, replica, WinInv, SeedsAreReal, LosersHaveAWinner, InFlight, ArmInv,
         LosersAreArmed, Seeded
<1>2. ArmInv => LosersAreArmed
  BY DEF ArmInv
<1>3. TypeOK /\ WinInv /\ ArmInv /\ [Next]_vars => ArmInv'
  BY ArmInductive
<1> QED BY <1>1, <1>2, <1>3, WinInductive, TypeCorrect, PTL DEF Spec

-----------------------------------------------------------------------------
(***************************************************************************)
(* The strengthening of OneLayoutUnlessLeft.  What a tab wrote or took     *)
(* back itself has reached every other open tab, or is on its way there,   *)
(* or will be answered to the query that tab sent when it connected; and   *)
(* only its author takes a layout back first.                              *)
(***************************************************************************)
Said(q) == {q[k] : k \in DOMAIN q}

Asked(t, u) == \E m \in Said(channel[t][u]) : m.kind = "query"

SeedHeard(u, t) == u \in seeds[u] =>
  \/ u \in seeds[t]
  \/ \E m \in Said(channel[u][t]) : m.kind = "state" /\ u \in m.seeds

RetractionHeard(u, t) == u \in retracted[u] =>
  \/ u \in retracted[t]
  \/ \E m \in Said(channel[u][t]) : m.kind = "state" /\ u \in m.retracted

DeliverInv ==
  \A u, t \in Tabs : u # t /\ Connected(u) /\ Connected(t) =>
     Asked(t, u) \/ (SeedHeard(u, t) /\ RetractionHeard(u, t))

TakenBack(u) == u \in retracted[u] /\ u \in seeds[u]

OwnInv ==
  /\ \A t \in Tabs : armed[t] => t \in seeds[t]
  /\ \A t \in Tabs : \A u \in retracted[t] : TakenBack(u)
  /\ \A m : InFlight(channel, m) => \A u \in m.retracted : TakenBack(u)

\* There is a highest seed: only one tab seeds at a time.
TopInv == Seeded # {} => \E w \in Seeded : \A u \in Seeded : u <= w

\* A replica only grows.
LEMMA ReplicasGrow ==
  ASSUME TypeOK, [Next]_vars, NEW t \in Tabs
  PROVE  seeds[t] \subseteq seeds'[t] /\ retracted[t] \subseteq retracted'[t]
<1>1. ASSUME NEW u \in Tabs, SeedFromFile(u)
      PROVE  seeds[t] \subseteq seeds'[t] /\ retracted[t] \subseteq retracted'[t]
  BY <1>1 DEF SeedFromFile, TypeOK
<1>2. ASSUME NEW u \in Tabs, NEW f \in Tabs, Receive(u, f)
      PROVE  seeds[t] \subseteq seeds'[t] /\ retracted[t] \subseteq retracted'[t]
  BY <1>2 DEF Receive, TypeOK
<1>3. CASE UNCHANGED <<seeds, retracted>>
  BY <1>3
<1> QED BY <1>1, <1>2, <1>3 DEF Next, vars, replica, Connect, Adopt, Park, Rebind, Close,
           Handle, AnswerQuery

LEMMA OwnInductive ==
  ASSUME TypeOK, WinInv, OwnInv, [Next]_vars
  PROVE  OwnInv'
<1> USE DEF replica
<1>1. \A u \in Tabs : TakenBack(u) => TakenBack(u)'
  BY ReplicasGrow DEF TakenBack
<1>2. /\ \A t \in Tabs : retracted[t] \subseteq Tabs
      /\ \A t \in Tabs : armed[t] => t \in seeds[t]
      /\ \A t \in Tabs : \A u \in retracted[t] : TakenBack(u)
      /\ \A m : InFlight(channel, m) => \A u \in m.retracted : TakenBack(u)
  BY DEF OwnInv, TypeOK
<1>3. ASSUME NEW m, InFlight(channel, m)
      PROVE  \A u \in m.retracted : TakenBack(u)'
  <2>1. m \in Message
    BY <1>3 DEF InFlight, TypeOK, Channels
  <2> QED BY <1>1, <1>2, <1>3, <2>1, MessageFields
<1>4. ASSUME \A m : InFlight(channel', m) => InFlight(channel, m) \/ \A u \in m.retracted : TakenBack(u)',
             \A t \in Tabs : \A u \in retracted'[t] : u \in retracted[t] \/ TakenBack(u)',
             \A t \in Tabs : armed'[t] => t \in seeds'[t]
      PROVE  OwnInv'
  <2>1. \A t \in Tabs : \A u \in retracted'[t] : TakenBack(u)'
    BY <1>1, <1>2, <1>4
  <2>2. \A m : InFlight(channel', m) => \A u \in m.retracted : TakenBack(u)'
    BY <1>3, <1>4
  <2> QED BY <1>4, <2>1, <2>2 DEF OwnInv, InFlight
<1>5. \A t \in Tabs : armed[t] => t \in seeds'[t]
  BY <1>2, ReplicasGrow
<1>6. ASSUME NEW t \in Tabs, Connect(t) PROVE OwnInv'
  <2>1. \A m : InFlight(channel', m) => m = Query \/ InFlight(channel, m)
    BY <1>6, PostedChannels, MessageFields DEF Connect, TypeOK
  <2> QED BY <1>4, <1>5, <1>6, <2>1, MessageFields DEF Connect
<1>7. ASSUME NEW t \in Tabs, SeedFromFile(t) PROVE OwnInv'
  <2>1. State({t}, {}) \in Message /\ State({t}, {}).retracted = {}
    BY MessageFields
  <2>2. \A m : InFlight(channel', m) => m = State({t}, {}) \/ InFlight(channel, m)
    BY <1>7, <2>1, PostedChannels DEF SeedFromFile, TypeOK
  <2>3. \A u \in Tabs : armed'[u] => u \in seeds'[u]
    BY <1>5, <1>7 DEF SeedFromFile, TypeOK
  <2>4. retracted' = retracted
    BY <1>7 DEF SeedFromFile
  <2> QED BY <1>4, <2>1, <2>2, <2>3, <2>4
<1>8. ASSUME NEW t \in Tabs, Adopt(t) \/ Park(t) \/ Rebind(t) PROVE OwnInv'
  <2>1. UNCHANGED <<seeds, retracted, channel>> /\ \A u \in Tabs : armed'[u] => armed[u]
    BY <1>8 DEF Adopt, Park, Rebind, TypeOK
  <2> QED BY <1>4, <1>5, <2>1
<1>9. ASSUME NEW t \in Tabs, Close(t) PROVE OwnInv'
  <2>1. UNCHANGED <<seeds, retracted>> /\ \A u \in Tabs : armed'[u] => armed[u]
    BY <1>9 DEF Close, TypeOK
  <2>2. ASSUME NEW m, InFlight(channel', m) PROVE InFlight(channel, m)
    <3>1. PICK f \in Tabs, u \in Tabs : \E k \in DOMAIN channel'[f][u] : m = channel'[f][u][k]
      BY <2>2 DEF InFlight
    <3>2. u # t
      BY <1>9, <3>1 DEF Close, TypeOK, Channels
    <3>3. channel'[f][u] = channel[f][u]
      BY <1>9, <3>2 DEF Close, TypeOK, Channels
    <3> QED BY <3>1, <3>3 DEF InFlight
  <2> QED BY <1>4, <1>5, <2>1, <2>2
<1>10. ASSUME NEW t \in Tabs, NEW f \in Tabs, AnswerQuery(t, f) PROVE OwnInv'
  <2> DEFINE reply == State(seeds[t], retracted[t])
  <2>1. reply \in Message /\ reply.retracted = retracted[t]
    BY MessageFields DEF TypeOK
  <2>2. /\ Handled(f, t) \in Channels
        /\ \A m : InFlight(Handled(f, t), m) => InFlight(channel, m)
    BY <1>10, HandledChannels DEF AnswerQuery
  <2>3. channel' = Posted(t, Handled(f, t), reply) /\ UNCHANGED <<seeds, retracted, armed>>
    BY <1>10 DEF AnswerQuery
  <2> HIDE DEF reply
  <2>4. \A m : InFlight(channel', m) => m = reply \/ InFlight(channel, m)
    BY <2>1, <2>2, <2>3, PostedChannels
  <2>5. \A u \in retracted[t] : TakenBack(u)'
    BY <1>1, <1>2
  <2> QED BY <1>4, <1>5, <2>1, <2>3, <2>4, <2>5
<1>11. ASSUME NEW t \in Tabs, NEW f \in Tabs, Receive(t, f) PROVE OwnInv'
  <2> DEFINE msg == Head(channel[f][t])
             merged == seeds[t] \cup msg.seeds
             note == State({}, {t})
  <2>1. InFlight(channel, msg)
    BY <1>11, HandledChannels DEF Receive
  <2>2. \A u \in Tabs : \A v \in retracted'[u] :
           v \in retracted[u] \/ v \in msg.retracted \/ (v = t /\ LosesTo(t, merged))
    BY <1>11 DEF Receive, TypeOK
  <2>3. \A u \in Tabs : armed'[u] => armed[u]
    BY <1>11 DEF Receive, TypeOK
  <2>4. LosesTo(t, merged) => TakenBack(t)'
    <3>1. LosesTo(t, merged) => t \in retracted'[t] /\ armed[t]
      BY <1>11 DEF Receive, LosesTo, TypeOK
    <3> QED BY <1>2, <3>1, ReplicasGrow DEF TakenBack
  <2>5. /\ Handled(f, t) \in Channels
        /\ \A m : InFlight(Handled(f, t), m) => InFlight(channel, m)
    BY <1>11, HandledChannels DEF Receive
  <2>6. note \in Message /\ note.retracted = {t}
    BY MessageFields
  <2>7. \/ channel' = Handled(f, t)
        \/ (LosesTo(t, merged) /\ channel' = Posted(t, Handled(f, t), note))
    BY <1>11 DEF Receive
  <2> HIDE DEF note, merged, msg
  <2>8. \A m : InFlight(channel', m) => InFlight(channel, m) \/ (m = note /\ LosesTo(t, merged))
    BY <2>5, <2>6, <2>7, PostedChannels
  <2>9. \A u \in Tabs : \A v \in retracted'[u] : v \in retracted[u] \/ TakenBack(v)'
    BY <1>3, <2>1, <2>2, <2>4
  <2>10. \A m : InFlight(channel', m) => InFlight(channel, m) \/ \A u \in m.retracted : TakenBack(u)'
    BY <2>4, <2>6, <2>8
  <2> QED BY <1>4, <1>5, <2>3, <2>9, <2>10
<1>12. CASE UNCHANGED vars
  BY <1>4, <1>5, <1>12 DEF vars
<1> QED BY <1>6, <1>7, <1>8, <1>9, <1>10, <1>11, <1>12 DEF Next, Handle

LEMMA TopInductive ==
  ASSUME TypeOK, WinInv, TopInv, [Next]_vars
  PROVE  TopInv'
<1> USE DEF replica
<1>1. Seeded \subseteq Nat
  BY TabsAssumption DEF Seeded
<1>2. ASSUME NEW t \in Tabs, Seeded' \subseteq Seeded \cup {t}, Seeded \subseteq Seeded'
      PROVE  TopInv'
  <2> SUFFICES ASSUME Seeded' # {}
               PROVE  \E w \in Seeded' : \A u \in Seeded' : u <= w
    BY DEF TopInv
  <2>1. t \in Nat
    BY TabsAssumption
  <2>2. CASE Seeded' = Seeded
    BY <2>2 DEF TopInv
  <2>3. CASE Seeded = {} /\ Seeded' = {t}
    BY <2>1, <2>3
  <2>4. CASE Seeded # {} /\ Seeded' = Seeded \cup {t}
    <3>1. PICK w \in Seeded : \A u \in Seeded : u <= w
      BY <2>4 DEF TopInv
    <3>2. w \in Nat /\ \A u \in Seeded : u \in Nat
      BY <1>1
    <3>3. CASE t <= w
      BY <2>4, <3>1, <3>3
    <3>4. CASE w < t
      BY <2>1, <2>4, <3>1, <3>2, <3>4
    <3> QED BY <2>1, <3>2, <3>3, <3>4
  <2> QED BY <1>2, <2>2, <2>3, <2>4
<1>3. Seeded \subseteq Seeded'
  BY HonestyKept
<1>4. ASSUME NEW t \in Tabs, SeedFromFile(t) PROVE TopInv'
  <2>1. Seeded' \subseteq Seeded \cup {t}
    BY <1>4 DEF SeedFromFile, Seeded, TypeOK
  <2> QED BY <1>2, <1>3, <2>1
<1>5. ASSUME NEW t \in Tabs, NEW f \in Tabs, Receive(t, f) PROVE TopInv'
  <2>1. Seeded' \subseteq Seeded \cup {t}
    BY <1>5 DEF Receive, Seeded, TypeOK
  <2> QED BY <1>2, <1>3, <2>1
<1>6. CASE UNCHANGED seeds
  BY <1>6 DEF TopInv, Seeded
<1> QED BY <1>4, <1>5, <1>6 DEF Next, vars, Connect, Adopt, Park, Rebind, Close, Handle, AnswerQuery

\* Posting adds the message to what was said to the open tabs, and nothing else.
LEMMA SaidPosted ==
  ASSUME NEW f \in Tabs, NEW ch \in Channels, NEW msg \in Message, NEW g \in Tabs, NEW t \in Tabs
  PROVE  Said(Posted(f, ch, msg)[g][t]) =
           Said(ch[g][t]) \cup (IF g = f /\ t # f /\ Connected(t) THEN {msg} ELSE {})
<1>1. Posted(f, ch, msg)[g][t] = IF g = f /\ t # f /\ Connected(t) THEN Append(ch[g][t], msg)
                                                                  ELSE ch[g][t]
  BY DEF Posted, Channels
<1>2. ch[g][t] \in Seq(Message)
  BY DEF Channels
<1>3. Said(Append(ch[g][t], msg)) = Said(ch[g][t]) \cup {msg}
  <2> DEFINE q == ch[g][t]
             r == Append(q, msg)
  <2>1. /\ DOMAIN q = 1 .. Len(q) /\ Len(q) \in Nat /\ DOMAIN r = 1 .. Len(q) + 1
        /\ r[Len(q) + 1] = msg /\ \A k \in 1 .. Len(q) : r[k] = q[k]
    BY <1>2
  <2> HIDE DEF q, r
  <2>2. \A k \in DOMAIN r : \/ r[k] = msg
                            \/ k \in DOMAIN q /\ r[k] = q[k]
    BY <2>1
  <2>3. Len(q) + 1 \in DOMAIN r /\ \A k \in DOMAIN q : k \in DOMAIN r /\ r[k] = q[k]
    BY <2>1
  <2>4. Said(r) = Said(q) \cup {msg}
    BY <2>1, <2>2, <2>3 DEF Said
  <2> QED BY <2>4 DEF q, r
<1> QED BY <1>1, <1>3

\* Handling the oldest message takes at most that one from what was said.
LEMMA SaidHandled ==
  ASSUME TypeOK, NEW f \in Tabs, NEW t \in Tabs, channel[f][t] # <<>>
  PROVE  /\ Said(channel[f][t]) = Said(Handled(f, t)[f][t]) \cup {Head(channel[f][t])}
         /\ \A g, u \in Tabs : g # f \/ u # t =>
              Said(Handled(f, t)[g][u]) = Said(channel[g][u])
<1> DEFINE q == channel[f][t]
           r == Tail(q)
<1>1. /\ Handled(f, t)[f][t] = r
      /\ \A g, u \in Tabs : g # f \/ u # t => Handled(f, t)[g][u] = channel[g][u]
  BY DEF Handled, TypeOK, Channels
<1>2. q \in Seq(Message)
  BY DEF TypeOK, Channels
<1>3. /\ DOMAIN q = 1 .. Len(q) /\ Len(q) \in Nat \ {0} /\ DOMAIN r = 1 .. Len(q) - 1
      /\ Head(q) = q[1] /\ \A k \in 1 .. Len(q) - 1 : r[k] = q[k + 1]
  BY <1>2, EmptySeq
<1> HIDE DEF q, r
<1>4. \A k \in DOMAIN r : k + 1 \in DOMAIN q /\ r[k] = q[k + 1]
  BY <1>3
<1>5. \A k \in DOMAIN q : k = 1 \/ (k - 1 \in DOMAIN r /\ r[k - 1] = q[k])
  BY <1>3
<1>6. 1 \in DOMAIN q
  BY <1>3
<1>7. Said(q) = Said(r) \cup {q[1]}
  BY <1>4, <1>5, <1>6 DEF Said
<1> QED BY <1>1, <1>3, <1>7 DEF q

LEMMA DeliverInductive ==
  ASSUME TypeOK, WinInv, OwnInv, ArmInv, DeliverInv, [Next]_vars
  PROVE  DeliverInv'
<1> USE DEF replica
<1> SUFFICES ASSUME NEW u \in Tabs, NEW t \in Tabs, u # t, Connected(u)', Connected(t)'
             PROVE  Asked(t, u)' \/ (SeedHeard(u, t)' /\ RetractionHeard(u, t)')
  BY DEF DeliverInv, Asked, SeedHeard, RetractionHeard, Connected, Said
<1> DEFINE Fine == Asked(t, u) \/ (SeedHeard(u, t) /\ RetractionHeard(u, t))
<1>1. /\ seeds[t] \subseteq seeds'[t] /\ retracted[t] \subseteq retracted'[t]
      /\ channel \in Channels
  BY ReplicasGrow DEF TypeOK
\* Nothing that u still has to tell is lost while nothing new is to be told.
<1>2. ASSUME Fine, Said(channel[t][u]) \subseteq Said(channel'[t][u]),
             Said(channel[u][t]) \subseteq Said(channel'[u][t]),
             u \in seeds'[u] => u \in seeds[u], u \in retracted'[u] => u \in retracted[u]
      PROVE  Fine'
  BY <1>1, <1>2 DEF Asked, SeedHeard, RetractionHeard, Said
<1>3. Connected(u) /\ Connected(t) => Fine
  BY DEF DeliverInv
<1>4. ASSUME NEW c \in Tabs, Connect(c) PROVE Fine'
  <2>1. /\ UNCHANGED <<seeds, retracted>> /\ channel' = Posted(c, channel, Query)
        /\ \A x \in Tabs \ {c} : phase'[x] = phase[x]
        /\ phase[c] = "closed"
    BY <1>4 DEF Connect, TypeOK
  <2>2. \A g, x \in Tabs : Said(channel'[g][x]) =
           Said(channel[g][x]) \cup (IF g = c /\ x # c /\ Connected(x) THEN {Query} ELSE {})
    BY <1>1, <2>1, MessageFields, SaidPosted
  <2>3. CASE c = t
    <3>1. Connected(u)
      BY <2>1, <2>3 DEF Connected
    <3>2. Query \in Said(channel'[t][u])
      BY <2>2, <2>3, <3>1
    <3> QED BY <3>2 DEF Asked, Query, Said
  <2>4. CASE c = u
    <3>1. u \notin seeds[u]
      BY <2>1, <2>4 DEF ArmInv, Seeded
    <3>2. u \notin retracted[u]
      BY <3>1 DEF OwnInv, TakenBack
    <3> QED BY <2>1, <3>1, <3>2 DEF SeedHeard, RetractionHeard
  <2>5. CASE c # t /\ c # u
    <3>1. Connected(u) /\ Connected(t)
      BY <2>1, <2>5 DEF Connected
    <3> QED BY <1>2, <1>3, <2>1, <2>2, <3>1
  <2> QED BY <2>3, <2>4, <2>5
<1>5. ASSUME NEW c \in Tabs, SeedFromFile(c) PROVE Fine'
  <2> DEFINE state == State({c}, {})
  <2>1. /\ UNCHANGED retracted /\ channel' = Posted(c, channel, state)
        /\ \A x \in Tabs : Connected(x)' <=> Connected(x)
        /\ \A x \in Tabs \ {c} : seeds'[x] = seeds[x]
    BY <1>5 DEF SeedFromFile, TypeOK, Connected
  <2>2. state \in Message /\ state.seeds = {c} /\ state.kind = "state"
    BY MessageFields DEF State
  <2> HIDE DEF state
  <2>3. \A g, x \in Tabs : Said(channel'[g][x]) =
           Said(channel[g][x]) \cup (IF g = c /\ x # c /\ Connected(x) THEN {state} ELSE {})
    BY <1>1, <2>1, <2>2, SaidPosted
  <2>4. Fine /\ Connected(t)
    BY <1>3, <2>1
  <2>5. CASE c = u
    <3>1. state \in Said(channel'[u][t])
      BY <2>3, <2>4, <2>5
    <3>2. SeedHeard(u, t)'
      BY <2>2, <2>5, <3>1 DEF SeedHeard, Said
    <3> DEFINE Kept(q, r) == \A m \in Said(q) : m \in Said(r)
    <3>3. Kept(channel[t][u], channel'[t][u]) /\ Kept(channel[u][t], channel'[u][t])
      BY <2>3
    <3>4. Asked(t, u) => Asked(t, u)'
      BY <3>3 DEF Asked, Said
    <3>5. RetractionHeard(u, t) => RetractionHeard(u, t)'
      BY <2>1, <3>3 DEF RetractionHeard, Said
    <3> QED BY <2>4, <3>2, <3>4, <3>5
  <2>6. CASE c # u
    BY <1>2, <2>1, <2>3, <2>4, <2>6
  <2> QED BY <2>5, <2>6
<1>6. ASSUME NEW c \in Tabs, Adopt(c) \/ Park(c) \/ Rebind(c) PROVE Fine'
  <2>1. UNCHANGED <<seeds, retracted, channel>> /\ \A x \in Tabs : Connected(x)' <=> Connected(x)
    BY <1>6 DEF Adopt, Park, Rebind, Connected, TypeOK
  <2> QED BY <1>2, <1>3, <2>1
<1>7. ASSUME NEW c \in Tabs, Close(c) PROVE Fine'
  <2>1. /\ UNCHANGED <<seeds, retracted>> /\ c # u /\ c # t
        /\ channel'[u][t] = channel[u][t] /\ channel'[t][u] = channel[t][u]
        /\ Connected(u) /\ Connected(t)
    BY <1>7 DEF Close, Connected, TypeOK, Channels
  <2> QED BY <1>2, <1>3, <2>1
<1>8. ASSUME NEW c \in Tabs, NEW f \in Tabs, AnswerQuery(c, f) PROVE Fine'
  <2> DEFINE reply == State(seeds[c], retracted[c])
  <2>1. /\ UNCHANGED <<seeds, retracted, phase>> /\ channel' = Posted(c, Handled(f, c), reply)
        /\ channel[f][c] # <<>> /\ Head(channel[f][c]).kind = "query"
    BY <1>8 DEF AnswerQuery
  <2>2. reply \in Message /\ reply.seeds = seeds[c] /\ reply.retracted = retracted[c]
        /\ reply.kind = "state"
    BY MessageFields DEF State, TypeOK
  <2> HIDE DEF reply
  <2>3. Handled(f, c) \in Channels
    BY <2>1, HandledChannels
  <2>4. \A g, x \in Tabs : Said(channel'[g][x]) =
           Said(Handled(f, c)[g][x]) \cup (IF g = c /\ x # c /\ Connected(x) THEN {reply} ELSE {})
    <3>1. channel' = Posted(c, Handled(f, c), reply) /\ reply \in Message
      BY <2>1, <2>2
    <3>2. \A g, x \in Tabs : Said(Posted(c, Handled(f, c), reply)[g][x]) =
             Said(Handled(f, c)[g][x]) \cup (IF g = c /\ x # c /\ Connected(x) THEN {reply} ELSE {})
      BY <2>3, <3>1, SaidPosted
    <3> QED BY <3>1, <3>2
  <2>5. /\ Said(channel[f][c]) = Said(Handled(f, c)[f][c]) \cup {Head(channel[f][c])}
        /\ \A g, x \in Tabs : g # f \/ x # c => Said(Handled(f, c)[g][x]) = Said(channel[g][x])
    BY <2>1, SaidHandled
  <2>6. Fine /\ Connected(t)
    BY <1>3, <2>1 DEF Connected
  <2>7. CASE c = u
    <3>1. reply \in Said(channel'[u][t])
      BY <2>4, <2>6, <2>7
    <3> QED BY <2>1, <2>2, <2>7, <3>1 DEF SeedHeard, RetractionHeard, Said
  <2>8. CASE c # u
    <3>1. Said(channel[t][u]) \subseteq Said(channel'[t][u])
      BY <2>4, <2>5, <2>8
    <3>2. \A m \in Said(channel[u][t]) : m.kind = "state" => m \in Said(channel'[u][t])
      BY <2>1, <2>4, <2>5
    <3>3. (Asked(t, u) => Asked(t, u)') /\ (SeedHeard(u, t) => SeedHeard(u, t)')
          /\ (RetractionHeard(u, t) => RetractionHeard(u, t)')
      BY <2>1, <3>1, <3>2 DEF Asked, SeedHeard, RetractionHeard, Said
    <3> QED BY <2>6, <3>3
  <2> QED BY <2>7, <2>8
<1>9. ASSUME NEW c \in Tabs, NEW f \in Tabs, Receive(c, f) PROVE Fine'
  <2> DEFINE msg == Head(channel[f][c])
             merged == seeds[c] \cup msg.seeds
             note == State({}, {c})
  <2>1. /\ UNCHANGED phase /\ channel[f][c] # <<>> /\ msg.kind = "state"
        /\ seeds' = [seeds EXCEPT ![c] = merged]
        /\ retracted' = [retracted EXCEPT ![c] =
              IF LosesTo(c, merged) THEN retracted[c] \cup msg.retracted \cup {c}
                                    ELSE retracted[c] \cup msg.retracted]
        /\ channel' = IF LosesTo(c, merged) THEN Posted(c, Handled(f, c), note) ELSE Handled(f, c)
    BY <1>9 DEF Receive
  <2>2. note \in Message /\ note.retracted = {c} /\ note.kind = "state"
    BY MessageFields DEF State
  <2>3. Handled(f, c) \in Channels /\ InFlight(channel, msg) /\ msg \in Message
    BY <2>1, HandledChannels
  <2>4. /\ seeds'[c] = merged
        /\ \A x \in Tabs \ {c} : seeds'[x] = seeds[x] /\ retracted'[x] = retracted[x]
        /\ retracted[c] \cup msg.retracted \subseteq retracted'[c]
        /\ c \in retracted'[c] => c \in retracted[c] \/ c \in msg.retracted \/ LosesTo(c, merged)
    BY <2>1 DEF TypeOK
  <2>5. c \in merged => c \in seeds[c]
    BY <2>3 DEF WinInv, SeedsAreReal, Honest, Seeded
  <2>6. c \in msg.retracted => c \in retracted[c]
    BY <2>3 DEF OwnInv, TakenBack
  <2>7. /\ Said(channel[f][c]) = Said(Handled(f, c)[f][c]) \cup {msg}
        /\ \A g, x \in Tabs : g # f \/ x # c => Said(Handled(f, c)[g][x]) = Said(channel[g][x])
    BY <2>1, SaidHandled
  <2> HIDE DEF note, merged, msg
  <2>8. \A g, x \in Tabs : Said(channel'[g][x]) = Said(Handled(f, c)[g][x]) \cup
           (IF LosesTo(c, merged) /\ g = c /\ x # c /\ Connected(x) THEN {note} ELSE {})
    <3>1. CASE LosesTo(c, merged)
      <4>1. channel' = Posted(c, Handled(f, c), note)
        BY <2>1, <3>1
      <4>2. \A g, x \in Tabs : Said(channel'[g][x]) = Said(Handled(f, c)[g][x]) \cup
               (IF g = c /\ x # c /\ Connected(x) THEN {note} ELSE {})
        BY <2>2, <2>3, <4>1, SaidPosted
      <4> QED BY <3>1, <4>2
    <3>2. CASE ~ LosesTo(c, merged)
      BY <2>1, <3>2
    <3> QED BY <3>1, <3>2
  <2>9. Fine /\ Connected(t)
    BY <1>3, <2>1 DEF Connected
  <2>10. Asked(t, u) => Asked(t, u)'
    <3>1. \A m \in Said(channel[t][u]) : m = msg \/ m \in Said(Handled(f, c)[t][u])
      BY <2>7
    <3>2. \A m \in Said(Handled(f, c)[t][u]) : m \in Said(channel'[t][u])
      BY <2>8
    <3>3. msg.kind = "state"
      BY <2>1
    <3>4. \A m \in Said(channel[t][u]) : m.kind = "query" => m \in Said(channel'[t][u])
      BY <3>1, <3>2, <3>3
    <3> QED BY <3>4 DEF Asked, Said
  <2>11. \A m \in Said(channel[u][t]) : m \in Said(channel'[u][t]) \/ (m = msg /\ c = t /\ f = u)
    BY <2>7, <2>8
  <2>12. SeedHeard(u, t) => SeedHeard(u, t)'
    <3>1. u \in seeds'[u] => u \in seeds[u]
      BY <2>4, <2>5
    <3>2. c = t => msg.seeds \subseteq seeds'[t]
      BY <2>4 DEF merged
    <3> QED BY <1>1, <2>11, <3>1, <3>2 DEF SeedHeard, Said
  <2>13. RetractionHeard(u, t) => RetractionHeard(u, t)'
    <3>1. c = t => msg.retracted \subseteq retracted'[t]
      BY <2>4
    <3>2. ASSUME u \in retracted'[u], u \notin retracted[u]
          PROVE  note \in Said(channel'[u][t]) /\ c = u
      BY <2>4, <2>6, <2>8, <2>9, <3>2
    <3>3. CASE u \in retracted'[u] => u \in retracted[u]
      BY <1>1, <2>11, <3>1, <3>3 DEF RetractionHeard, Said
    <3>4. CASE u \in retracted'[u] /\ u \notin retracted[u]
      BY <2>2, <3>2, <3>4 DEF RetractionHeard, Said
    <3> QED BY <3>3, <3>4
  <2> QED BY <2>9, <2>10, <2>12, <2>13
<1>10. CASE UNCHANGED vars
  BY <1>2, <1>3, <1>10 DEF vars, Connected
<1>11. Fine'
  BY <1>4, <1>5, <1>6, <1>7, <1>8, <1>9, <1>10 DEF Next, Handle
<1> QED BY <1>11

\* With nothing in flight, whatever an open tab did itself every other one knows.
LEMMA AllHeard ==
  ASSUME TypeOK, DeliverInv, Settled, NEW u \in Tabs, NEW t \in Tabs, Connected(u), Connected(t)
  PROVE  /\ u \in seeds[u] => u \in seeds[t]
         /\ u \in retracted[u] => u \in retracted[t]
<1>1. channel[u][t] = <<>> /\ channel[t][u] = <<>>
  BY DEF Settled
<1>2. Said(channel[u][t]) = {} /\ Said(channel[t][u]) = {}
  BY <1>1 DEF Said
<1>3. CASE u # t
  BY <1>2, <1>3 DEF DeliverInv, Asked, SeedHeard, RetractionHeard
<1>4. CASE u = t
  BY <1>4
<1> QED BY <1>3, <1>4

(***************************************************************************)
(* Where the arbitration of seed() leaves two layouts, or none, a tab has  *)
(* left: a second layout is of a tab that left its sheet or closed before  *)
(* it heard of the better seed, or whose better never told it; and if all  *)
(* are deleted, the tab of a standing layout closed unheard.               *)
(***************************************************************************)
THEOREM OneLayoutUnlessLeftAlways == Spec => []OneLayoutUnlessLeft
<1>1. Init => WinInv /\ ArmInv /\ OwnInv /\ TopInv /\ DeliverInv
  <2> SUFFICES ASSUME Init PROVE WinInv /\ ArmInv /\ OwnInv /\ TopInv /\ DeliverInv
    OBVIOUS
  <2>1. WinInv /\ ArmInv
    BY DEF Init, replica, WinInv, SeedsAreReal, LosersHaveAWinner, InFlight, ArmInv,
           LosersAreArmed, Seeded
  <2>2. OwnInv /\ TopInv
    BY DEF Init, replica, OwnInv, TopInv, InFlight, Seeded
  <2>3. DeliverInv
    BY DEF Init, DeliverInv, Connected
  <2> QED BY <2>1, <2>2, <2>3
<1>2. TypeOK /\ WinInv /\ ArmInv /\ OwnInv /\ TopInv /\ DeliverInv /\ [Next]_vars
        => WinInv' /\ ArmInv' /\ OwnInv' /\ TopInv' /\ DeliverInv'
  BY WinInductive, ArmInductive, OwnInductive, TopInductive, DeliverInductive
<1>3. TypeOK /\ WinInv /\ ArmInv /\ OwnInv /\ TopInv /\ DeliverInv => OneLayoutUnlessLeft
  <2> SUFFICES ASSUME TypeOK, WinInv, ArmInv, OwnInv, TopInv, DeliverInv, Settled,
                      NEW t \in Tabs, Connected(t), seeds[t] # {}
               PROVE  /\ \A u, w \in Layouts(t) : u < w => phase[u] # "bound" \/ DiedUnheard(w, u)
                      /\ Layouts(t) = {} => \E w \in Seeded : DiedUnheard(w, t)
    BY DEF OneLayoutUnlessLeft
  <2>1. Seeded \subseteq Tabs /\ seeds[t] \subseteq Seeded
    BY DEF Seeded, WinInv, SeedsAreReal
  <2>2. ASSUME NEW w \in Seeded, NEW u \in Tabs, Connected(u), ~ DiedUnheard(w, u)
        PROVE  w \in seeds[u]
    <3>1. CASE phase[w] = "gone"
      BY <2>2, <3>1 DEF DiedUnheard
    <3>2. CASE phase[w] # "gone"
      <4>1. w \in Tabs /\ w \in seeds[w]
        BY DEF Seeded
      <4>2. Connected(w)
        BY <3>2, <4>1 DEF ArmInv, Connected, TypeOK, Phases
      <4> QED BY <2>2, <4>1, <4>2, AllHeard
    <3> QED BY <3>1, <3>2
  <2>3. ASSUME NEW u \in Layouts(t), NEW w \in Layouts(t), u < w, phase[u] = "bound",
               ~ DiedUnheard(w, u)
        PROVE  FALSE
    <3>1. u \in Tabs /\ w \in Tabs /\ u \in seeds[u] /\ u \notin retracted[t] /\ w \in Seeded
      BY <2>1 DEF Layouts, Seeded
    <3>2. Connected(u)
      BY <2>3 DEF Connected
    <3>3. w \in seeds[u]
      BY <2>2, <2>3, <3>1, <3>2
    <3>4. u \in retracted[u]
      <4>1. w \in Nat /\ u \in Nat
        BY <3>1, TabsAssumption
      <4>2. ~ (w <= u)
        BY <2>3, <4>1
      <4> QED BY <2>3, <3>1, <3>3, <4>2 DEF ArmInv, LosersAreArmed
    <3> QED BY <3>1, <3>2, <3>4, AllHeard
  <2>4. ASSUME Layouts(t) = {}, \A w \in Seeded : ~ DiedUnheard(w, t)
        PROVE  FALSE
    <3>1. Seeded \subseteq retracted[t]
      BY <2>2, <2>4 DEF Layouts
    <3>2. PICK w \in Seeded : \A u \in Seeded : u <= w
      BY <2>1 DEF TopInv
    <3>3. PICK v \in Seeded : v > w
      BY <2>1, <3>1, <3>2 DEF WinInv, LosersHaveAWinner
    <3> QED BY <2>1, <3>2, <3>3, TabsAssumption
  <2> QED BY <2>3, <2>4
<1> QED BY <1>1, <1>2, <1>3, TypeCorrect, PTL DEF Spec
=============================================================================
