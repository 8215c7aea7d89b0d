------------------------ MODULE WorkerServiceProofs ------------------------
(***************************************************************************)
(* The worker services, for any requests, any number of workers and any    *)
(* crashes: while no worker has died, the messages still to be handled     *)
(* bring the editor's mirror of the run state to the simulator's, and a    *)
(* crash that is reported strands nobody.                                  *)
(***************************************************************************)
EXTENDS WorkerService, SequenceTheorems, TLAPS

-----------------------------------------------------------------------------
(* The inductive invariant.                                                *)

Notes == [kind : {"ready", "bootError", "error"}]
Answers == [kind : {"answer"}, request : Requests]
Events == [kind : {"event"}, running : BOOLEAN]
Messages == Notes \cup Answers \cup Events

TypeInv ==
  /\ service \in Services
  /\ call \in [Requests -> {"idle", "booting", "pending", "done", "failed"}]
  /\ on \in [Requests -> 0..MaxWorkers]
  /\ workerP \in 0..MaxWorkers
  /\ boot \in [Workers -> {"none", "open", "resolved", "rejected"}]
  /\ worker \in [Workers -> {"none", "resolving", "loading", "up", "failed", "dead"}]
  /\ todo \in [Workers -> SUBSET Requests]
  /\ news \in [Workers -> Seq(Messages)]
  /\ running \in [Workers -> {"no", "starting", "yes"}]
  /\ mirror \in BOOLEAN

\* A worker that nobody booted was never there.
BootInv ==
  \A w \in Workers : /\ boot[w] = "none" <=> worker[w] = "none"
                     /\ worker[w] = "none" => news[w] = <<>>

\* What a message does to the mirror: an answer to a bg_run may set it.
Raises(m) == \/ m.kind = "event" /\ m.running
             \/ m.kind = "answer" /\ CommandOf(m.request) = "bg_run"
Lowers(m) == m.kind = "event" /\ ~ m.running

\* Once q is handled a mirror that is up or not is up, or down, whether or not
\* the page still awaits the answers in q.
EndsUp(q, up) ==
  \/ up /\ \A k \in DOMAIN q : ~ Lowers(q[k])
  \/ \E k \in DOMAIN q : /\ q[k].kind = "event" /\ q[k].running
                         /\ \A j \in DOMAIN q : j > k => ~ Lowers(q[j])
EndsDown(q, up) ==
  \/ ~ up /\ \A k \in DOMAIN q : ~ Raises(q[k])
  \/ \E k \in DOMAIN q : /\ Lowers(q[k])
                         /\ \A j \in DOMAIN q : j > k => ~ Raises(q[j])

\* A worker the page is not bound to has nothing left to say.
Unbound(w) == worker[w] \in {"none", "failed"} /\ news[w] = <<>> /\ running[w] = "no"

Bound(w) ==
  /\ worker[w] \in {"resolving", "loading", "failed", "up"}
  /\ worker[w] # "up" => ~ mirror /\ running[w] = "no"
  /\ worker[w] \in {"resolving", "loading"} => news[w] = <<>>
  /\ worker[w] = "failed" => news[w] = <<Message("bootError")>>
  /\ worker[w] = "up" =>
       /\ \A k \in DOMAIN news[w] : news[w][k].kind # "bootError"
       /\ running[w] = "yes" => EndsUp(news[w], mirror)
       /\ running[w] = "no" => EndsDown(news[w], mirror)

Healthy == \A w \in Workers : worker[w] # "dead"

MirrorInv ==
  Healthy => /\ \A w \in Workers : IF w = workerP THEN Bound(w) ELSE Unbound(w)
             /\ workerP = 0 => ~ mirror

-----------------------------------------------------------------------------
(* Messages and queues.                                                    *)

LEMMA MessageFacts ==
  /\ \A kind \in {"ready", "bootError", "error"} :
       Message(kind) \in Messages /\ Message(kind).kind = kind
  /\ \A r \in Requests : Answer(r) \in Messages /\ Answer(r).kind = "answer" /\ Answer(r).request = r
  /\ \A b \in BOOLEAN : Event(b) \in Messages /\ Event(b).kind = "event" /\ (Event(b).running <=> b)
<1>1. \A kind \in {"ready", "bootError", "error"} :
        Message(kind) \in Messages /\ Message(kind).kind = kind
  BY DEF Messages, Notes, Message
<1>2. \A r \in Requests : Answer(r) \in Messages /\ Answer(r).kind = "answer" /\ Answer(r).request = r
  BY DEF Messages, Answers, Answer
<1>3. \A b \in BOOLEAN : Event(b) \in Messages /\ Event(b).kind = "event" /\ (Event(b).running <=> b)
  BY DEF Messages, Events, Event
<1> QED BY <1>1, <1>2, <1>3

\* A message moves the end of the queue it joins.
LEMMA AppendEnds ==
  ASSUME NEW q \in Seq(Messages), NEW m \in Messages, NEW up \in BOOLEAN
  PROVE  /\ EndsUp(q, up) /\ ~ Lowers(m) => EndsUp(Append(q, m), up)
         /\ m.kind = "event" /\ m.running => EndsUp(Append(q, m), up)
         /\ EndsDown(q, up) /\ ~ Raises(m) => EndsDown(Append(q, m), up)
         /\ Lowers(m) => EndsDown(Append(q, m), up)
<1> DEFINE r == Append(q, m)
           n == Len(q) + 1
<1>1. /\ DOMAIN q = 1 .. Len(q) /\ Len(q) \in Nat /\ DOMAIN r = 1 .. n /\ r[n] = m
      /\ \A k \in 1 .. Len(q) : r[k] = q[k]
  OBVIOUS
<1> HIDE DEF r
<1>2. \A k \in DOMAIN q : k \in DOMAIN r /\ r[k] = q[k]
  BY <1>1
<1>3. \A k \in DOMAIN r : k \in DOMAIN q \/ k = n
  BY <1>1
<1>4. n \in DOMAIN r /\ \A k \in DOMAIN r : ~ (k > n)
  BY <1>1
<1> HIDE DEF n
<1>5. EndsUp(q, up) /\ ~ Lowers(m) => EndsUp(r, up)
  BY <1>1, <1>2, <1>3 DEF EndsUp
<1>6. m.kind = "event" /\ m.running => EndsUp(r, up)
  BY <1>1, <1>4 DEF EndsUp
<1>7. EndsDown(q, up) /\ ~ Raises(m) => EndsDown(r, up)
  BY <1>1, <1>2, <1>3 DEF EndsDown
<1>8. Lowers(m) => EndsDown(r, up)
  BY <1>1, <1>4 DEF EndsDown
<1> QED BY <1>5, <1>6, <1>7, <1>8 DEF r

\* Handling the head, which makes the mirror "now", keeps the end.
LEMMA TailEnds ==
  ASSUME NEW q \in Seq(Messages), q # <<>>, NEW up \in BOOLEAN, NEW now \in BOOLEAN,
         Lowers(Head(q)) => ~ now,
         Head(q).kind = "event" /\ Head(q).running => now,
         ~ Lowers(Head(q)) /\ up => now,
         ~ Raises(Head(q)) /\ ~ up => ~ now
  PROVE  /\ EndsUp(q, up) => EndsUp(Tail(q), now)
         /\ EndsDown(q, up) => EndsDown(Tail(q), now)
<1> DEFINE r == Tail(q)
<1>1. /\ DOMAIN q = 1 .. Len(q) /\ Len(q) \in Nat \ {0} /\ DOMAIN r = 1 .. Len(q) - 1
      /\ Head(q) = q[1] /\ \A k \in 1 .. Len(q) - 1 : r[k] = q[k + 1]
  BY EmptySeq
<1> HIDE DEF r
<1>2. \A k \in DOMAIN r : k \in Nat /\ k + 1 \in DOMAIN q /\ r[k] = q[k + 1] /\ k + 1 > 1
  BY <1>1
<1>3. \A k \in DOMAIN q : k = 1 \/ (k - 1 \in DOMAIN r /\ r[k - 1] = q[k])
  BY <1>1
<1>4. 1 \in DOMAIN q /\ \A k \in DOMAIN q : k \in Nat
  BY <1>1
<1>5. \A k \in DOMAIN q : \A j \in DOMAIN r : k # 1 /\ j > k - 1 => j + 1 > k
  BY <1>2, <1>4
<1>6. ASSUME EndsUp(q, up) PROVE EndsUp(r, now)
  <2>1. CASE up /\ \A k \in DOMAIN q : ~ Lowers(q[k])
    BY <1>1, <1>2, <1>4, <2>1 DEF EndsUp
  <2>2. ASSUME NEW k \in DOMAIN q, q[k].kind = "event", q[k].running,
               \A j \in DOMAIN q : j > k => ~ Lowers(q[j])
        PROVE  EndsUp(r, now)
    <3>1. CASE k = 1
      BY <1>1, <1>2, <2>2, <3>1 DEF EndsUp
    <3>2. CASE k # 1
      <4>1. k - 1 \in DOMAIN r /\ r[k - 1] = q[k]
        BY <1>3, <3>2
      <4>2. \A j \in DOMAIN r : j > k - 1 => ~ Lowers(r[j])
        BY <1>2, <1>5, <2>2, <3>2
      <4> QED BY <2>2, <4>1, <4>2 DEF EndsUp
    <3> QED BY <3>1, <3>2
  <2> QED BY <1>6, <2>1, <2>2 DEF EndsUp
<1>7. ASSUME EndsDown(q, up) PROVE EndsDown(r, now)
  <2>1. CASE ~ up /\ \A k \in DOMAIN q : ~ Raises(q[k])
    BY <1>1, <1>2, <1>4, <2>1 DEF EndsDown
  <2>2. ASSUME NEW k \in DOMAIN q, Lowers(q[k]), \A j \in DOMAIN q : j > k => ~ Raises(q[j])
        PROVE  EndsDown(r, now)
    <3>1. CASE k = 1
      BY <1>1, <1>2, <2>2, <3>1 DEF EndsDown
    <3>2. CASE k # 1
      <4>1. k - 1 \in DOMAIN r /\ r[k - 1] = q[k]
        BY <1>3, <3>2
      <4>2. \A j \in DOMAIN r : j > k - 1 => ~ Raises(r[j])
        BY <1>2, <1>5, <2>2, <3>2
      <4> QED BY <2>2, <4>1, <4>2 DEF EndsDown
    <3> QED BY <3>1, <3>2
  <2> QED BY <1>7, <2>1, <2>2 DEF EndsDown
<1> QED BY <1>6, <1>7 DEF r

LEMMA NewsOf ==
  ASSUME TypeInv, NEW w \in Workers, NEW q \in Seq(Messages)
  PROVE  LET new == [news EXCEPT ![w] = q]
         IN /\ new \in [Workers -> Seq(Messages)]
            /\ new[w] = q
            /\ \A v \in Workers : v # w => new[v] = news[v]
BY DEF TypeInv

\* A worker posts one message.
LEMMA OnePosted ==
  ASSUME TypeInv, NEW w \in Workers, NEW m \in Messages
  PROVE  /\ Posted(w, <<m>>) = [news EXCEPT ![w] = Append(news[w], m)]
         /\ Posted(w, <<m>>) \in [Workers -> Seq(Messages)]
         /\ Posted(w, <<m>>)[w] = Append(news[w], m)
         /\ \A v \in Workers : v # w => Posted(w, <<m>>)[v] = news[v]
<1>1. news[w] \in Seq(Messages)
  BY DEF TypeInv
<1>2. news[w] \o <<m>> = Append(news[w], m) /\ Append(news[w], m) \in Seq(Messages)
  BY <1>1
<1>3. Posted(w, <<m>>) = [news EXCEPT ![w] = Append(news[w], m)]
  BY <1>2 DEF Posted
<1> QED BY <1>2, <1>3, NewsOf

\* The page handles one message.
LEMMA Taken ==
  ASSUME TypeInv, NEW w \in Workers, NEW kind, Handled(w, kind)
  PROVE  /\ news[w] \in Seq(Messages) /\ news[w] # <<>>
         /\ Head(news[w]) \in Messages /\ Head(news[w]).kind = kind
         /\ Consumed(w) \in [Workers -> Seq(Messages)]
         /\ Consumed(w)[w] = Tail(news[w])
         /\ \A v \in Workers : v # w => Consumed(w)[v] = news[v]
         /\ kind = "answer" => Head(news[w]).request \in Requests
         /\ kind = "event" => Head(news[w]).running \in BOOLEAN
<1>1. news[w] \in Seq(Messages) /\ news[w] # <<>> /\ Head(news[w]).kind = kind
      /\ Consumed(w) = [news EXCEPT ![w] = Tail(news[w])]
  BY DEF Handled, Consumed, TypeInv
<1>2. Tail(news[w]) \in Seq(Messages) /\ Head(news[w]) \in Messages
  BY <1>1
<1>3. \A m \in Messages : /\ m.kind = "answer" => m.request \in Requests
                         /\ m.kind = "event" => m.running \in BOOLEAN
  BY DEF Messages, Notes, Answers, Events
<1>4. /\ Consumed(w) \in [Workers -> Seq(Messages)]
      /\ Consumed(w)[w] = Tail(news[w])
      /\ \A v \in Workers : v # w => Consumed(w)[v] = news[v]
  BY <1>1, <1>2, NewsOf
<1>5. /\ kind = "answer" => Head(news[w]).request \in Requests
      /\ kind = "event" => Head(news[w]).running \in BOOLEAN
  <2> DEFINE m == Head(news[w])
  <2>1. m \in Messages /\ m.kind = kind
    BY <1>1, <1>2
  <2> HIDE DEF m
  <2>2. m.kind = "answer" => m.request \in Requests
    <3>1. CASE m \in Notes
      BY <3>1 DEF Notes
    <3>2. CASE m \in Answers
      BY <3>2 DEF Answers
    <3>3. CASE m \in Events
      BY <3>3 DEF Events
    <3> QED BY <2>1, <3>1, <3>2, <3>3 DEF Messages
  <2>3. m.kind = "event" => m.running \in BOOLEAN
    BY <1>3, <2>1
  <2>4. kind = "event" => m.running \in BOOLEAN
    BY <2>1, <2>3, Zenon
  <2>5. kind = "answer" => m.request \in Requests
    BY <2>1, <2>2, Zenon
  <2> QED BY <2>4, <2>5 DEF m
<1> QED BY <1>1, <1>2, <1>4, <1>5

-----------------------------------------------------------------------------
(* Types.                                                                  *)

LEMMA SettledTyped ==
  ASSUME TypeInv, NEW S, NEW outcome \in {"pending", "failed"}
  PROVE  Settled(S, outcome) \in [Requests -> {"idle", "booting", "pending", "done", "failed"}]
BY DEF Settled, TypeInv

LEMMA ServeStep ==
  ASSUME TypeInv, NEW w \in Workers, Serve(w)
  PROVE  /\ worker[w] = "up"
         /\ UNCHANGED <<service, call, on, workerP, boot, worker, mirror>>
         /\ todo' \in [Workers -> SUBSET Requests]
         /\ running' \in [Workers -> {"no", "starting", "yes"}]
         /\ \A v \in Workers : v # w => running'[v] = running[v]
         /\ \E r \in Requests :
              \/ /\ CommandOf(r) # "bg_halt" /\ news' = [news EXCEPT ![w] = Append(news[w], Answer(r))]
                 /\ \/ running' = running /\ (CommandOf(r) = "bg_run" => running[w] # "no")
                    \/ CommandOf(r) = "bg_run" /\ running'[w] = "starting"
              \/ /\ CommandOf(r) = "bg_halt" /\ running'[w] = "no"
                 /\ IF running[w] = "no"
                      THEN news' = [news EXCEPT ![w] = Append(news[w], Answer(r))]
                      ELSE news' = [news EXCEPT ![w] =
                                      Append(Append(news[w], Event(FALSE)), Answer(r))]
<1>1. worker[w] = "up" /\ UNCHANGED <<service, call, on, workerP, boot, worker, mirror>>
  BY DEF Serve
<1>2. PICK r \in todo[w] :
       /\ todo' = [todo EXCEPT ![w] = @ \ {r}]
       /\ CASE CommandOf(r) = "bg_run" ->
                 /\ running' = IF running[w] = "no" THEN [running EXCEPT ![w] = "starting"]
                                                    ELSE running
                 /\ news' = Posted(w, <<Answer(r)>>)
            [] CommandOf(r) = "bg_halt" ->
                 /\ running' = [running EXCEPT ![w] = "no"]
                 /\ news' = Posted(w, (IF running[w] = "no" THEN <<>> ELSE <<Event(FALSE)>>)
                                        \o <<Answer(r)>>)
            [] OTHER -> running' = running /\ news' = Posted(w, <<Answer(r)>>)
  BY DEF Serve
<1>3. r \in Requests /\ todo' \in [Workers -> SUBSET Requests]
  BY <1>2 DEF TypeInv
<1>4. Answer(r) \in Messages /\ Event(FALSE) \in Messages /\ news[w] \in Seq(Messages)
  BY <1>3, MessageFacts DEF TypeInv
<1>5. Posted(w, <<Answer(r)>>) = [news EXCEPT ![w] = Append(news[w], Answer(r))]
  BY <1>4, OnePosted
<1>6. CASE CommandOf(r) = "bg_run"
  BY <1>1, <1>2, <1>3, <1>5, <1>6 DEF TypeInv
<1>7. CASE CommandOf(r) = "bg_halt"
  <2>1. running' = [running EXCEPT ![w] = "no"]
        /\ news' = Posted(w, (IF running[w] = "no" THEN <<>> ELSE <<Event(FALSE)>>) \o <<Answer(r)>>)
    BY <1>2, <1>7
  <2>2. CASE running[w] = "no"
    <3>1. news' = Posted(w, <<Answer(r)>>)
      BY <2>1, <2>2
    <3> QED BY <1>1, <1>3, <1>5, <1>7, <2>1, <2>2, <3>1 DEF TypeInv
  <2>3. CASE running[w] # "no"
    <3> DEFINE e == Event(FALSE)
               a == Answer(r)
    <3>1. news' = [news EXCEPT ![w] = news[w] \o (<<e>> \o <<a>>)]
      BY <2>1, <2>3 DEF Posted
    <3>2. e \in Messages /\ a \in Messages
      BY <1>4
    <3> HIDE DEF e, a
    <3>3. news[w] \o (<<e>> \o <<a>>) = Append(Append(news[w], e), a)
      BY <1>4, <3>2
    <3>4. news' = [news EXCEPT ![w] = Append(Append(news[w], e), a)]
      BY <3>1, <3>3
    <3> QED BY <1>1, <1>3, <1>7, <2>1, <2>3, <3>4 DEF TypeInv, e, a
  <2> QED BY <2>2, <2>3
<1>8. CASE CommandOf(r) # "bg_run" /\ CommandOf(r) # "bg_halt"
  BY <1>1, <1>2, <1>3, <1>5, <1>8 DEF TypeInv
<1> QED BY <1>6, <1>7, <1>8

LEMMA TypedStep == TypeInv /\ [Next]_vars => TypeInv'
<1> SUFFICES ASSUME TypeInv, [Next]_vars PROVE TypeInv'
  OBVIOUS
<1>1. ASSUME NEW r \in Requests, RequestBoots(r) PROVE TypeInv'
  <2>1. PICK w \in Workers : /\ workerP' = w
                             /\ boot' = [boot EXCEPT ![w] = "open"]
                             /\ worker' = [worker EXCEPT ![w] = "resolving"]
                             /\ on' = [on EXCEPT ![r] = w]
    BY <1>1 DEF RequestBoots
  <2>2. w \in 0..MaxWorkers
    BY WorkersAssumption DEF Workers
  <2> QED BY <1>1, <2>1, <2>2 DEF RequestBoots, TypeInv
<1>2. ASSUME NEW r \in Requests, RequestShares(r) PROVE TypeInv'
  <2>1. /\ on' = [on EXCEPT ![r] = workerP] /\ workerP \in Workers
        /\ UNCHANGED <<service, workerP, boot, worker, news, running, mirror>>
    BY <1>2, WorkersAssumption DEF RequestShares, TypeInv, Workers
  <2>2. \/ call' = [call EXCEPT ![r] = "pending"]
           /\ todo' = [todo EXCEPT ![workerP] = @ \cup {r}]
        \/ call' = [call EXCEPT ![r] = "booting"] /\ todo' = todo
    BY <1>2 DEF RequestShares
  <2>3. on' \in [Requests -> 0..MaxWorkers]
    BY <2>1 DEF TypeInv
  <2>4. call' \in [Requests -> {"idle", "booting", "pending", "done", "failed"}]
    BY <2>2 DEF TypeInv
  <2>5. todo' \in [Workers -> SUBSET Requests]
    BY <2>1, <2>2 DEF TypeInv
  <2> QED BY <2>1, <2>3, <2>4, <2>5 DEF TypeInv
<1>3. ASSUME NEW w \in Workers, ResolveFails(w) PROVE TypeInv'
  BY <1>3, SettledTyped, WorkersAssumption DEF ResolveFails, Rejected, TypeInv
<1>4. ASSUME NEW w \in Workers, Resolve(w) PROVE TypeInv'
  BY <1>4 DEF Resolve, TypeInv
<1>5. ASSUME NEW w \in Workers, OnReady(w) PROVE TypeInv'
  <2>1. news' \in [Workers -> Seq(Messages)]
    BY <1>5, Taken DEF OnReady
  <2>2. todo[w] \cup Booting(w) \in SUBSET Requests
    BY DEF Booting, TypeInv
  <2> QED BY <1>5, <2>1, <2>2, SettledTyped DEF OnReady, TypeInv
<1>6. ASSUME NEW w \in Workers, OnBootError(w) PROVE TypeInv'
  <2>1. news' \in [Workers -> Seq(Messages)]
    BY <1>6, Taken DEF OnBootError
  <2>2. /\ call' \in [Requests -> {"idle", "booting", "pending", "done", "failed"}]
        /\ boot' \in [Workers -> {"none", "open", "resolved", "rejected"}]
        /\ workerP' \in 0..MaxWorkers
    BY <1>6, SettledTyped, WorkersAssumption DEF OnBootError, Rejected, TypeInv
  <2> QED BY <1>6, <2>1, <2>2 DEF OnBootError, TypeInv
<1>7. ASSUME NEW w \in Workers, OnAnswer(w) PROVE TypeInv'
  <2>1. news' \in [Workers -> Seq(Messages)]
    BY <1>7, Taken DEF OnAnswer
  <2> QED BY <1>7, <2>1 DEF OnAnswer, TypeInv
<1>8. ASSUME NEW w \in Workers, OnEvent(w) PROVE TypeInv'
  <2>1. Handled(w, "event")
    BY <1>8 DEF OnEvent
  <2>2. Consumed(w) \in [Workers -> Seq(Messages)] /\ Head(news[w]).running \in BOOLEAN
    BY <2>1, Taken
  <2> QED BY <1>8, <2>2 DEF OnEvent, TypeInv
<1>9. ASSUME NEW w \in Workers, OnError(w) PROVE TypeInv'
  <2>1. /\ Consumed(w) \in [Workers -> Seq(Messages)]
        /\ [news EXCEPT ![w] = <<>>] \in [Workers -> Seq(Messages)]
    <3>1. Handled(w, "error") /\ <<>> \in Seq(Messages)
      BY <1>9 DEF OnError
    <3> QED BY <3>1, Taken, NewsOf
  <2>2. CASE OnErrorReset(w)
    BY <1>9, <2>1, <2>2, SettledTyped, WorkersAssumption DEF OnErrorReset, OnError, TypeInv
  <2>3. CASE OnErrorReject(w)
    <3>1. /\ call' \in [Requests -> {"idle", "booting", "pending", "done", "failed"}]
          /\ boot' \in [Workers -> {"none", "open", "resolved", "rejected"}]
          /\ workerP' \in 0..MaxWorkers
      BY <2>3, SettledTyped, WorkersAssumption DEF OnErrorReject, Rejected, TypeInv
    <3> QED BY <1>9, <2>1, <2>3, <3>1 DEF OnErrorReject, OnError, TypeInv
  <2> QED BY <1>9, <2>2, <2>3 DEF OnError
<1>10. ASSUME NEW w \in Workers, Load(w) PROVE TypeInv'
  <2>1. news' \in [Workers -> Seq(Messages)]
    <3>1. Message("ready") \in Messages /\ Message("bootError") \in Messages
      BY MessageFacts
    <3>2. news' = Posted(w, <<Message("ready")>>) \/ news' = Posted(w, <<Message("bootError")>>)
      BY <1>10 DEF Load
    <3>3. CASE news' = Posted(w, <<Message("ready")>>)
      BY <3>1, <3>3, OnePosted
    <3>4. CASE news' = Posted(w, <<Message("bootError")>>)
      BY <3>1, <3>4, OnePosted
    <3> QED BY <3>2, <3>3, <3>4
  <2>2. worker' \in [Workers -> {"none", "resolving", "loading", "up", "failed", "dead"}]
    BY <1>10 DEF Load, TypeInv
  <2> QED BY <1>10, <2>1, <2>2 DEF Load, TypeInv
<1>11. ASSUME NEW w \in Workers, Serve(w) PROVE TypeInv'
  <2>1. PICK r \in Requests :
          \/ news' = [news EXCEPT ![w] = Append(news[w], Answer(r))]
          \/ news' = [news EXCEPT ![w] = Append(Append(news[w], Event(FALSE)), Answer(r))]
    BY <1>11, ServeStep
  <2>2. /\ Append(news[w], Answer(r)) \in Seq(Messages)
        /\ Append(Append(news[w], Event(FALSE)), Answer(r)) \in Seq(Messages)
    <3>1. news[w] \in Seq(Messages) /\ Answer(r) \in Messages /\ Event(FALSE) \in Messages
      BY MessageFacts DEF TypeInv
    <3> DEFINE e == Event(FALSE)
               a == Answer(r)
    <3>2. news[w] \in Seq(Messages) /\ a \in Messages /\ e \in Messages
      BY <3>1
    <3> HIDE DEF e, a
    <3>3. Append(news[w], a) \in Seq(Messages) /\ Append(news[w], e) \in Seq(Messages)
      BY <3>2
    <3>4. Append(Append(news[w], e), a) \in Seq(Messages)
      BY <3>2, <3>3
    <3> QED BY <3>3, <3>4 DEF e, a
  <2>3. news' \in [Workers -> Seq(Messages)]
    BY <2>1, <2>2 DEF TypeInv
  <2> QED BY <1>11, <2>3, ServeStep DEF TypeInv
<1>12. ASSUME NEW w \in Workers, Background(w) PROVE TypeInv'
  <2>1. news' \in [Workers -> Seq(Messages)]
    <3>1. Event(TRUE) \in Messages /\ Event(FALSE) \in Messages
      BY MessageFacts
    <3>2. news' = Posted(w, <<Event(TRUE)>>) \/ news' = Posted(w, <<Event(FALSE)>>)
      BY <1>12 DEF Background, BgStart, BgFinish
    <3>3. CASE news' = Posted(w, <<Event(TRUE)>>)
      BY <3>1, <3>3, OnePosted
    <3>4. CASE news' = Posted(w, <<Event(FALSE)>>)
      BY <3>1, <3>4, OnePosted
    <3> QED BY <3>2, <3>3, <3>4
  <2> QED BY <1>12, <2>1 DEF Background, BgStart, BgFinish, TypeInv
<1>13. ASSUME NEW w \in Workers, Crash(w) PROVE TypeInv'
  <2>1. news' \in [Workers -> Seq(Messages)]
    <3>1. Message("error") \in Messages
      BY MessageFacts
    <3> QED BY <1>13, <3>1, OnePosted DEF Crash
  <2> QED BY <1>13, <2>1 DEF Crash, TypeInv
<1>14. CASE UNCHANGED vars
  BY <1>14 DEF vars, TypeInv
<1> QED BY <1>1, <1>2, <1>3, <1>4, <1>5, <1>6, <1>7, <1>8, <1>9, <1>10, <1>11, <1>12, <1>13,
           <1>14 DEF Next, Page

-----------------------------------------------------------------------------
(* What a step of one worker leaves alone.                                 *)

OthersSame(w) ==
  \A v \in Workers : v # w => /\ worker'[v] = worker[v] /\ boot'[v] = boot[v]
                              /\ news'[v] = news[v] /\ running'[v] = running[v]

StepOf(w) == Page(w) \/ Load(w) \/ Serve(w) \/ Background(w) \/ Crash(w)

LEMMA Alone == ASSUME TypeInv, NEW w \in Workers, StepOf(w) PROVE OthersSame(w)
<1>1. CASE ResolveFails(w) \/ Resolve(w)
  BY <1>1 DEF ResolveFails, Rejected, Resolve, OthersSame, TypeInv
<1>2. CASE OnReady(w) \/ OnBootError(w)
  BY <1>2 DEF OnReady, OnBootError, Rejected, Consumed, OthersSame, TypeInv
<1>3. CASE OnAnswer(w) \/ OnEvent(w)
  BY <1>3 DEF OnAnswer, OnEvent, Consumed, OthersSame, TypeInv
<1>4. CASE OnError(w)
  BY <1>4 DEF OnError, OnErrorReset, OnErrorReject, Rejected, Consumed, OthersSame, TypeInv
<1>5. CASE Load(w) \/ Background(w) \/ Crash(w)
  BY <1>5 DEF Load, Background, BgStart, BgFinish, Crash, Posted, OthersSame, TypeInv
<1>6. CASE Serve(w)
  <2>1. \/ \E q : news' = [news EXCEPT ![w] = q]
        \/ news' = news
    BY <1>6, ServeStep, Zenon
  <2>2. \A v \in Workers : v # w => news'[v] = news[v]
    BY <2>1 DEF TypeInv
  <2> QED BY <1>6, <2>2, ServeStep DEF OthersSame
<1> QED BY <1>1, <1>2, <1>3, <1>4, <1>5, <1>6 DEF StepOf, Page

\* Only a booted worker takes a step, and it stays booted.
LEMMA Booted ==
  ASSUME TypeInv, BootInv, NEW w \in Workers, StepOf(w)
  PROVE  worker[w] # "none" /\ worker'[w] # "none" /\ boot[w] # "none" /\ boot'[w] # "none"
<1>1. worker[w] # "none"
  <2>1. CASE Page(w)
    BY <2>1 DEF Page, ResolveFails, Resolve, OnReady, OnBootError, OnAnswer, OnEvent, OnError,
                Handled, BootInv
  <2>2. CASE Load(w) \/ Serve(w) \/ Background(w)
    BY <2>2 DEF Load, Serve, Background, BgStart, BgFinish
  <2>3. CASE Crash(w)
    BY <2>3, CrashAssumption DEF Crash, TypeInv
  <2> QED BY <2>1, <2>2, <2>3 DEF StepOf
<1>2. worker'[w] = worker[w] \/ worker'[w] \in {"loading", "up", "failed", "dead"}
  BY DEF StepOf, Page, ResolveFails, Resolve, OnReady, OnBootError, OnAnswer, OnEvent, OnError,
         OnErrorReset, OnErrorReject, Load, Serve, Background, BgStart, BgFinish, Crash, TypeInv
<1>3. boot'[w] = boot[w] \/ boot'[w] \in {"resolved", "rejected"}
  BY DEF StepOf, Page, ResolveFails, Resolve, OnReady, OnBootError, OnAnswer, OnEvent, OnError,
         OnErrorReset, OnErrorReject, Rejected, Load, Serve, Background, BgStart, BgFinish, Crash,
         TypeInv
<1>4. boot[w] # "none"
  BY <1>1 DEF BootInv
<1> QED BY <1>1, <1>2, <1>3, <1>4

LEMMA BootStep == TypeInv /\ BootInv /\ [Next]_vars => BootInv'
<1> SUFFICES ASSUME TypeInv, BootInv, [Next]_vars PROVE BootInv'
  OBVIOUS
<1>1. ASSUME NEW r \in Requests, RequestBoots(r) PROVE BootInv'
  BY <1>1 DEF RequestBoots, BootInv, TypeInv
<1>2. ASSUME NEW r \in Requests, RequestShares(r) PROVE BootInv'
  BY <1>2 DEF RequestShares, BootInv
<1>3. ASSUME NEW w \in Workers, StepOf(w) PROVE BootInv'
  BY <1>3, Alone, Booted DEF OthersSame, BootInv
<1>4. CASE UNCHANGED vars
  BY <1>4 DEF vars, BootInv
<1> QED BY <1>1, <1>2, <1>3, <1>4 DEF Next, StepOf

\* A dead worker stays dead.
LEMMA StillHealthy ==
  ASSUME TypeInv, BootInv, [Next]_vars, Healthy' PROVE Healthy
<1> SUFFICES ASSUME NEW v \in Workers, worker[v] = "dead" PROVE worker'[v] = "dead"
  BY DEF Healthy
<1>1. ASSUME NEW r \in Requests, RequestBoots(r) PROVE worker'[v] = "dead"
  BY <1>1 DEF RequestBoots, BootInv, TypeInv
<1>2. ASSUME NEW r \in Requests, RequestShares(r) PROVE worker'[v] = "dead"
  BY <1>2 DEF RequestShares
<1>3. ASSUME NEW w \in Workers, StepOf(w) PROVE worker'[v] = "dead"
  <2>1. CASE v # w
    BY <1>3, <2>1, Alone DEF OthersSame
  <2>2. CASE v = w
    BY <1>3, <2>2 DEF StepOf, Page, ResolveFails, Resolve, OnReady, OnBootError, OnAnswer, OnEvent,
         OnError, OnErrorReset, OnErrorReject, Load, Serve, Background, BgStart, BgFinish, Crash,
         TypeInv
  <2> QED BY <2>1, <2>2
<1>4. CASE UNCHANGED vars
  BY <1>4 DEF vars
<1> QED BY <1>1, <1>2, <1>3, <1>4 DEF Next, StepOf

-----------------------------------------------------------------------------
(* The mirror.                                                             *)

\* The conclusion of MirrorInv.
Followed == /\ \A w \in Workers : IF w = workerP THEN Bound(w) ELSE Unbound(w)
            /\ workerP = 0 => ~ mirror

\* Only the bound worker has anything to say, and what a failed one says is that.
LEMMA SpeakerIsBound ==
  ASSUME TypeInv, Followed, NEW w \in Workers, news[w] # <<>>
  PROVE  /\ w = workerP /\ Bound(w)
         /\ worker[w] = "up" \/ (worker[w] = "failed" /\ news[w] = <<Message("bootError")>>)
<1>1. w = workerP
  BY DEF Followed, Unbound
<1>2. Bound(w)
  BY <1>1 DEF Followed
<1> QED BY <1>1, <1>2 DEF Bound

\* A step of the bound worker that leaves the queue at the right end.
LEMMA UpStep ==
  ASSUME TypeInv, Followed, NEW w \in Workers, w = workerP, worker[w] = "up",
         OthersSame(w), UNCHANGED <<service, workerP, worker>>,
         \A k \in DOMAIN news'[w] : news'[w][k].kind # "bootError",
         running'[w] = "yes" => EndsUp(news'[w], mirror'),
         running'[w] = "no" => EndsDown(news'[w], mirror')
  PROVE  Followed'
<1>1. EndsUp(news'[w], mirror') => EndsUp(news[w], mirror)'
  BY DEF EndsUp, Lowers
<1>2. EndsDown(news'[w], mirror') => EndsDown(news[w], mirror)'
  BY DEF EndsDown, Lowers, Raises, CommandOf
<1>3. worker'[w] = "up"
  OBVIOUS
<1>4. Bound(w)'
  BY <1>1, <1>2, <1>3 DEF Bound
<1>5. \A v \in Workers : v # w => Unbound(v)'
  BY DEF Followed, Unbound, OthersSame
<1>6. workerP' = w /\ w # 0
  BY WorkersAssumption DEF Workers
<1> QED BY <1>4, <1>5, <1>6 DEF Followed

\* The page handles a message of a worker that is up.
LEMMA HandledStep ==
  ASSUME TypeInv, Followed, NEW w \in Workers, NEW kind, Handled(w, kind), kind # "bootError",
         news' = Consumed(w), UNCHANGED <<service, workerP, worker, running>>, OthersSame(w),
         mirror' \in BOOLEAN,
         Lowers(Head(news[w])) => ~ mirror',
         Head(news[w]).kind = "event" /\ Head(news[w]).running => mirror',
         ~ Lowers(Head(news[w])) /\ mirror => mirror',
         ~ Raises(Head(news[w])) /\ ~ mirror => ~ mirror'
  PROVE  Followed'
<1>1. /\ news[w] \in Seq(Messages) /\ news[w] # <<>> /\ Head(news[w]).kind = kind
      /\ news'[w] = Tail(news[w])
  BY Taken
<1>2. w = workerP /\ Bound(w) /\ worker[w] = "up"
  <2>1. news[w] = <<Message("bootError")>> => Head(news[w]).kind = "bootError"
    BY DEF Message
  <2> QED BY <1>1, <2>1, SpeakerIsBound
<1>3. mirror \in BOOLEAN
  BY DEF TypeInv
<1>4. \A k \in DOMAIN news[w] : news[w][k].kind # "bootError"
  BY <1>2 DEF Bound
<1>5. \A k \in DOMAIN Tail(news[w]) : Tail(news[w])[k].kind # "bootError"
  <2> DEFINE q == news[w]
  <2>1. q \in Seq(Messages) /\ q # <<>> /\ \A k \in DOMAIN q : q[k].kind # "bootError"
    BY <1>1, <1>4
  <2> HIDE DEF q
  <2>2. \A k \in DOMAIN Tail(q) : k + 1 \in DOMAIN q /\ Tail(q)[k] = q[k + 1]
    BY <2>1, EmptySeq
  <2>3. \A k \in DOMAIN Tail(q) : Tail(q)[k].kind # "bootError"
    BY <2>1, <2>2
  <2> QED BY <2>3 DEF q
<1>6. /\ EndsUp(news[w], mirror) => EndsUp(Tail(news[w]), mirror')
      /\ EndsDown(news[w], mirror) => EndsDown(Tail(news[w]), mirror')
  <2> DEFINE q == news[w]
             up == mirror
             now == mirror'
  <2>1. /\ q \in Seq(Messages) /\ q # <<>> /\ up \in BOOLEAN /\ now \in BOOLEAN
        /\ Lowers(Head(q)) => ~ now
        /\ Head(q).kind = "event" /\ Head(q).running => now
        /\ ~ Lowers(Head(q)) /\ up => now
        /\ ~ Raises(Head(q)) /\ ~ up => ~ now
    BY <1>1, <1>3
  <2> HIDE DEF q, up, now
  <2>2. /\ EndsUp(q, up) => EndsUp(Tail(q), now)
        /\ EndsDown(q, up) => EndsDown(Tail(q), now)
    BY <2>1, TailEnds
  <2> QED BY <2>2 DEF q, up, now
<1>7. /\ running'[w] = "yes" => EndsUp(news'[w], mirror')
      /\ running'[w] = "no" => EndsDown(news'[w], mirror')
  BY <1>1, <1>2, <1>6 DEF Bound
<1>8. \A k \in DOMAIN news'[w] : news'[w][k].kind # "bootError"
  BY <1>1, <1>5
<1> QED BY <1>2, <1>7, <1>8, UpStep

\* A worker that is up posts m.
LEMMA PostedStep ==
  ASSUME TypeInv, Followed, NEW w \in Workers, worker[w] = "up", NEW m \in Messages,
         m.kind # "bootError",
         news' = [news EXCEPT ![w] = Append(news[w], m)],
         UNCHANGED <<service, workerP, worker, mirror>>, OthersSame(w),
         running'[w] = "yes" => (running[w] = "yes" /\ ~ Lowers(m)) \/ (m.kind = "event" /\ m.running),
         running'[w] = "no" => (running[w] = "no" /\ ~ Raises(m)) \/ Lowers(m)
  PROVE  Followed'
<1>1. w = workerP /\ Bound(w)
  BY DEF Followed, Unbound
<1>2. /\ news[w] \in Seq(Messages) /\ mirror \in BOOLEAN
      /\ news'[w] = Append(news[w], m)
  BY DEF TypeInv
<1>3. \A k \in DOMAIN news[w] : news[w][k].kind # "bootError"
  BY <1>1 DEF Bound
<1>4. \A k \in DOMAIN news'[w] : news'[w][k].kind # "bootError"
  <2> DEFINE q == news[w]
  <2>1. q \in Seq(Messages) /\ \A k \in DOMAIN q : q[k].kind # "bootError"
    BY <1>2, <1>3
  <2> HIDE DEF q
  <2>2. \A k \in DOMAIN Append(q, m) :
          (k \in DOMAIN q /\ Append(q, m)[k] = q[k]) \/ Append(q, m)[k] = m
    BY <2>1
  <2>3. \A k \in DOMAIN Append(q, m) : Append(q, m)[k].kind # "bootError"
    BY <2>1, <2>2
  <2> QED BY <1>2, <2>3 DEF q
<1>5. /\ EndsUp(news[w], mirror) /\ ~ Lowers(m) => EndsUp(news'[w], mirror)
      /\ m.kind = "event" /\ m.running => EndsUp(news'[w], mirror)
      /\ EndsDown(news[w], mirror) /\ ~ Raises(m) => EndsDown(news'[w], mirror)
      /\ Lowers(m) => EndsDown(news'[w], mirror)
  BY <1>2, AppendEnds
<1>6. /\ running[w] = "yes" => EndsUp(news[w], mirror)
      /\ running[w] = "no" => EndsDown(news[w], mirror)
  BY <1>1 DEF Bound
<1>7. running'[w] = "yes" => EndsUp(news'[w], mirror')
  BY <1>5, <1>6
<1>8. running'[w] = "no" => EndsDown(news'[w], mirror')
  BY <1>5, <1>6
<1> QED BY <1>1, <1>4, <1>7, <1>8, UpStep

\* A bg_halt reports the end of the run before it answers.
LEMMA HaltStep ==
  ASSUME TypeInv, Followed, NEW w \in Workers, worker[w] = "up", NEW r \in Requests,
         CommandOf(r) = "bg_halt", running'[w] = "no",
         news' = [news EXCEPT ![w] = Append(Append(news[w], Event(FALSE)), Answer(r))],
         UNCHANGED <<service, workerP, worker, mirror>>, OthersSame(w)
  PROVE  Followed'
<1> DEFINE q == news[w]
           e == Event(FALSE)
           a == Answer(r)
<1>1. w = workerP /\ Bound(w)
  BY DEF Followed, Unbound
<1>2. q \in Seq(Messages) /\ mirror \in BOOLEAN /\ news'[w] = Append(Append(q, e), a)
  BY DEF TypeInv
<1>3. /\ e \in Messages /\ Lowers(e) /\ e.kind # "bootError"
      /\ a \in Messages /\ ~ Raises(a) /\ a.kind # "bootError"
  BY MessageFacts DEF Lowers, Raises
<1>4. \A k \in DOMAIN q : q[k].kind # "bootError"
  BY <1>1 DEF Bound
<1> HIDE DEF q, e, a
<1>5. Append(q, e) \in Seq(Messages) /\ EndsDown(Append(q, e), mirror)
  BY <1>2, <1>3, AppendEnds
<1>6. EndsDown(Append(Append(q, e), a), mirror)
  BY <1>2, <1>3, <1>5, AppendEnds
<1>7. \A k \in DOMAIN Append(Append(q, e), a) : Append(Append(q, e), a)[k].kind # "bootError"
  <2>1. \A k \in DOMAIN Append(Append(q, e), a) :
          \/ k \in DOMAIN q /\ Append(Append(q, e), a)[k] = q[k]
          \/ Append(Append(q, e), a)[k] \in {e, a}
    BY <1>2, <1>3
  <2> QED BY <1>3, <1>4, <2>1
<1>8. \A k \in DOMAIN news'[w] : news'[w][k].kind # "bootError"
  BY <1>2, <1>7
<1>9. EndsDown(news'[w], mirror')
  BY <1>2, <1>6
<1> QED BY <1>1, <1>8, <1>9, UpStep

\* Each step keeps the invariant, or leaves a dead worker behind.
LEMMA PageStep ==
  ASSUME TypeInv, TypeInv', Followed, Healthy', NEW w \in Workers, Page(w)
  PROVE  Followed'
<1>1. OthersSame(w)
  BY Alone DEF StepOf
<1>2. ASSUME ResolveFails(w) PROVE FALSE
  BY <1>2 DEF ResolveFails, Healthy, TypeInv
<1>3. CASE Resolve(w)
  <2>1. worker[w] = "resolving" /\ worker'[w] = "loading"
        /\ UNCHANGED <<workerP, news, running, mirror>>
    BY <1>3 DEF Resolve, TypeInv
  <2>2. w = workerP /\ Bound(w)
    BY <2>1 DEF Followed, Unbound
  <2>3. Bound(w)'
    BY <2>1, <2>2 DEF Bound
  <2> QED BY <1>1, <2>1, <2>2, <2>3 DEF Followed, Unbound, OthersSame
<1>4. CASE OnReady(w)
  <2>1. /\ Handled(w, "ready") /\ news' = Consumed(w)
        /\ UNCHANGED <<service, workerP, worker, running, mirror>>
    BY <1>4 DEF OnReady
  <2>2. ~ Lowers(Head(news[w])) /\ ~ Raises(Head(news[w])) /\ Head(news[w]).kind # "event"
    BY <2>1 DEF Handled, Lowers, Raises
  <2>3. mirror' \in BOOLEAN
    BY DEF TypeInv
  <2> QED BY <1>1, <2>1, <2>2, <2>3, HandledStep
<1>5. CASE OnBootError(w)
  <2>1. /\ Handled(w, "bootError") /\ news' = Consumed(w) /\ workerP' = 0
        /\ UNCHANGED <<worker, running, mirror>>
    BY <1>5 DEF OnBootError, Rejected
  <2>2. /\ news[w] \in Seq(Messages) /\ news[w] # <<>> /\ Head(news[w]).kind = "bootError"
        /\ news'[w] = Tail(news[w])
    BY <2>1, Taken
  <2>3. w = workerP /\ Bound(w)
        /\ (worker[w] = "up" \/ (worker[w] = "failed" /\ news[w] = <<Message("bootError")>>))
    BY <2>2, SpeakerIsBound
  <2>4. worker[w] # "up"
    <3> DEFINE q == news[w]
    <3>1. worker[w] = "up" => \A k \in DOMAIN q : q[k].kind # "bootError"
      BY <2>3 DEF Bound
    <3>2. q \in Seq(Messages) /\ q # <<>> /\ Head(q).kind = "bootError"
      BY <2>2
    <3> HIDE DEF q
    <3>3. 1 \in DOMAIN q /\ Head(q) = q[1]
      BY <3>2, EmptySeq
    <3> QED BY <3>1, <3>2, <3>3
  <2>5. worker[w] = "failed" /\ news'[w] = <<>> /\ ~ mirror /\ running[w] = "no"
    <3>1. worker[w] = "failed" /\ news[w] = <<Message("bootError")>>
      BY <2>3, <2>4
    <3>2. Tail(<<Message("bootError")>>) = <<>>
      OBVIOUS
    <3> QED BY <2>2, <2>3, <3>1, <3>2 DEF Bound
  <2>6. Unbound(w)'
    BY <2>1, <2>5 DEF Unbound
  <2>7. \A v \in Workers : v # w => Unbound(v)'
    BY <1>1, <2>3 DEF Followed, Unbound, OthersSame
  <2>8. \A v \in Workers : v # workerP'
    BY <2>1, WorkersAssumption DEF Workers
  <2> QED BY <2>1, <2>5, <2>6, <2>7, <2>8 DEF Followed
<1>6. CASE OnAnswer(w)
  <2> DEFINE r == Head(news[w]).request
  <2>1. /\ Handled(w, "answer") /\ news' = Consumed(w)
        /\ mirror' = (mirror \/ (r \in Pending /\ CommandOf(r) = "bg_run"))
        /\ UNCHANGED <<service, workerP, worker, running>>
    BY <1>6 DEF OnAnswer
  <2>2. /\ Head(news[w]).kind = "answer" /\ ~ Lowers(Head(news[w]))
        /\ ~ Raises(Head(news[w])) => CommandOf(r) # "bg_run"
    BY <2>1 DEF Handled, Lowers, Raises
  <2>3. mirror' \in BOOLEAN /\ mirror \in BOOLEAN
    BY DEF TypeInv
  <2>4. /\ mirror => mirror'
        /\ ~ Raises(Head(news[w])) /\ ~ mirror => ~ mirror'
    BY <2>1, <2>2
  <2> HIDE DEF r
  <2> QED BY <1>1, <2>1, <2>2, <2>3, <2>4, HandledStep
<1>7. CASE OnEvent(w)
  <2>1. /\ Handled(w, "event") /\ news' = Consumed(w) /\ mirror' = Head(news[w]).running
        /\ UNCHANGED <<service, workerP, worker, running>>
    BY <1>7 DEF OnEvent
  <2>2. Head(news[w]).kind = "event"
    BY <2>1 DEF Handled
  <2>3. mirror' \in BOOLEAN
    BY DEF TypeInv
  <2>4. /\ Lowers(Head(news[w])) <=> ~ mirror'
        /\ ~ Raises(Head(news[w])) => ~ mirror'
    BY <2>1, <2>2 DEF Lowers, Raises
  <2> QED BY <1>1, <2>1, <2>2, <2>3, <2>4, HandledStep
<1>8. ASSUME OnError(w) PROVE FALSE
  BY <1>8 DEF OnError, OnErrorReset, OnErrorReject, Healthy, TypeInv
<1> QED BY <1>2, <1>3, <1>4, <1>5, <1>6, <1>7, <1>8 DEF Page

LEMMA WorkerStep ==
  ASSUME TypeInv, Followed, Healthy', NEW w \in Workers,
         Load(w) \/ Serve(w) \/ Background(w) \/ Crash(w)
  PROVE  Followed'
<1>1. OthersSame(w)
  BY Alone DEF StepOf
<1>2. CASE Load(w)
  <2>1. /\ worker[w] = "loading" /\ UNCHANGED <<service, workerP, running, mirror>>
        /\ worker'[w] \in {"up", "failed"}
    BY <1>2 DEF Load, TypeInv
  <2>2. w = workerP /\ Bound(w) /\ news[w] = <<>> /\ ~ mirror /\ running[w] = "no"
    BY <2>1 DEF Followed, Unbound, Bound
  <2>3. CASE worker'[w] = "up"
    <3> DEFINE m == Message("ready")
    <3>1. m \in Messages /\ ~ Raises(m) /\ m.kind # "bootError"
      BY MessageFacts DEF Raises
    <3>2. news' = Posted(w, <<m>>)
      BY <1>2, <2>3 DEF Load, TypeInv
    <3> HIDE DEF m
    <3>3. news'[w] = Append(<<>>, m)
      BY <2>2, <3>1, <3>2, OnePosted
    <3>4. <<>> \in Seq(Messages) /\ FALSE \in BOOLEAN /\ EndsDown(<<>>, FALSE)
      BY DEF EndsDown
    <3>5. EndsDown(Append(<<>>, m), FALSE)
      BY <3>1, <3>4, AppendEnds
    <3>6. EndsDown(news'[w], FALSE) => EndsDown(news[w], mirror)'
      BY <2>1, <2>2 DEF EndsDown, Lowers, Raises, CommandOf
    <3>7. \A k \in DOMAIN news'[w] : news'[w][k].kind # "bootError"
      BY <3>1, <3>3
    <3>8. Bound(w)'
      BY <2>1, <2>2, <2>3, <3>3, <3>5, <3>6, <3>7 DEF Bound
    <3> QED BY <1>1, <2>1, <2>2, <3>8 DEF Followed, Unbound, OthersSame
  <2>4. CASE worker'[w] = "failed"
    <3> DEFINE m == Message("bootError")
    <3>1. m \in Messages
      BY MessageFacts
    <3>2. news' = Posted(w, <<m>>)
      BY <1>2, <2>4 DEF Load, TypeInv
    <3>3. news'[w] = <<m>>
      <4> HIDE DEF m
      <4>1. news'[w] = Append(<<>>, m)
        BY <2>2, <3>1, <3>2, OnePosted
      <4> QED BY <4>1
    <3>4. Bound(w)'
      BY <2>1, <2>2, <2>4, <3>3 DEF Bound, Message
    <3> QED BY <1>1, <2>1, <2>2, <3>4 DEF Followed, Unbound, OthersSame
  <2> QED BY <2>1, <2>3, <2>4
<1>3. CASE Serve(w)
  <2>1. worker[w] = "up" /\ UNCHANGED <<service, workerP, worker, mirror>>
    BY <1>3, ServeStep
  <2>2. PICK r \in Requests :
          \/ /\ CommandOf(r) # "bg_halt" /\ news' = [news EXCEPT ![w] = Append(news[w], Answer(r))]
             /\ \/ running' = running /\ (CommandOf(r) = "bg_run" => running[w] # "no")
                \/ CommandOf(r) = "bg_run" /\ running'[w] = "starting"
          \/ /\ CommandOf(r) = "bg_halt" /\ running'[w] = "no"
             /\ IF running[w] = "no"
                  THEN news' = [news EXCEPT ![w] = Append(news[w], Answer(r))]
                  ELSE news' = [news EXCEPT ![w] = Append(Append(news[w], Event(FALSE)), Answer(r))]
    BY <1>3, ServeStep
  <2>3. CASE news' = [news EXCEPT ![w] = Append(news[w], Answer(r))]
             /\ (running' = running \/ running'[w] = "starting"
                                    \/ (CommandOf(r) = "bg_halt" /\ running[w] = "no" /\ running'[w] = "no"))
             /\ (CommandOf(r) = "bg_run" => running'[w] # "no")
    <3> DEFINE a == Answer(r)
    <3>1. /\ a \in Messages /\ a.kind # "bootError" /\ ~ Lowers(a)
          /\ Raises(a) <=> CommandOf(r) = "bg_run"
      BY MessageFacts DEF Lowers, Raises
    <3>2. news' = [news EXCEPT ![w] = Append(news[w], a)]
      BY <2>3
    <3> HIDE DEF a
    <3>3. /\ running'[w] = "yes" => running[w] = "yes" /\ ~ Lowers(a)
          /\ running'[w] = "no" => running[w] = "no" /\ ~ Raises(a)
      BY <2>3, <3>1
    <3> QED BY <1>1, <2>1, <3>1, <3>2, <3>3, PostedStep
  <2>4. CASE /\ CommandOf(r) = "bg_halt" /\ running'[w] = "no"
             /\ news' = [news EXCEPT ![w] = Append(Append(news[w], Event(FALSE)), Answer(r))]
    BY <1>1, <2>1, <2>4, HaltStep
  <2> QED BY <2>2, <2>3, <2>4
<1>4. CASE BgStart(w)
  <2> DEFINE m == Event(TRUE)
  <2>1. m \in Messages /\ m.kind = "event" /\ m.running
    BY MessageFacts
  <2>2. /\ worker[w] = "up" /\ running'[w] = "yes" /\ news' = Posted(w, <<m>>)
        /\ UNCHANGED <<service, workerP, worker, mirror>>
    BY <1>4 DEF BgStart, TypeInv
  <2> HIDE DEF m
  <2>3. news' = [news EXCEPT ![w] = Append(news[w], m)]
    BY <2>1, <2>2, OnePosted
  <2> QED BY <1>1, <2>1, <2>2, <2>3, PostedStep
<1>5. CASE BgFinish(w)
  <2> DEFINE m == Event(FALSE)
  <2>1. m \in Messages /\ m.kind = "event" /\ Lowers(m)
    BY MessageFacts DEF Lowers
  <2>2. /\ worker[w] = "up" /\ running'[w] = "no" /\ news' = Posted(w, <<m>>)
        /\ UNCHANGED <<service, workerP, worker, mirror>>
    BY <1>5 DEF BgFinish, TypeInv
  <2> HIDE DEF m
  <2>3. news' = [news EXCEPT ![w] = Append(news[w], m)]
    BY <2>1, <2>2, OnePosted
  <2> QED BY <1>1, <2>1, <2>2, <2>3, PostedStep
<1>6. ASSUME Crash(w) PROVE FALSE
  <2>1. worker'[w] = "dead"
    BY <1>6 DEF Crash, TypeInv
  <2> QED BY <2>1 DEF Healthy
<1> QED BY <1>2, <1>3, <1>4, <1>5, <1>6 DEF Background

LEMMA MirrorStep ==
  TypeInv /\ TypeInv' /\ BootInv /\ MirrorInv /\ [Next]_vars => MirrorInv'
<1> SUFFICES ASSUME TypeInv, TypeInv', BootInv, MirrorInv, [Next]_vars, Healthy' PROVE Followed'
  BY DEF MirrorInv, Followed
<1>1. Followed
  BY StillHealthy DEF MirrorInv, Followed
<1>2. ASSUME NEW r \in Requests, RequestBoots(r) PROVE Followed'
  <2>1. PICK w \in Workers : /\ boot[w] = "none" /\ workerP' = w
                             /\ worker' = [worker EXCEPT ![w] = "resolving"]
    BY <1>2 DEF RequestBoots
  <2>2. workerP = 0 /\ UNCHANGED <<news, running, mirror>>
    BY <1>2 DEF RequestBoots
  <2>3. \A v \in Workers : Unbound(v) /\ v # 0
    BY <1>1, <2>2, WorkersAssumption DEF Followed, Workers
  <2>4. news[w] = <<>> /\ running[w] = "no" /\ ~ mirror
    BY <1>1, <2>2, <2>3 DEF Unbound, Followed
  <2>5. Bound(w)'
    BY <2>1, <2>2, <2>4 DEF Bound, TypeInv
  <2>6. \A v \in Workers : v # w => Unbound(v)'
    BY <2>1, <2>2, <2>3 DEF Unbound, TypeInv
  <2> QED BY <2>1, <2>3, <2>5, <2>6 DEF Followed
<1>3. ASSUME NEW r \in Requests, RequestShares(r) PROVE Followed'
  BY <1>1, <1>3 DEF RequestShares, Followed, Bound, Unbound, EndsUp, EndsDown, Lowers, Raises,
                    CommandOf
<1>4. ASSUME NEW w \in Workers, StepOf(w) PROVE Followed'
  BY <1>1, <1>4, PageStep, WorkerStep DEF StepOf
<1>5. CASE UNCHANGED vars
  BY <1>1, <1>5 DEF vars, Followed, Bound, Unbound, EndsUp, EndsDown, Lowers, Raises, CommandOf
<1> QED BY <1>2, <1>3, <1>4, <1>5 DEF Next, StepOf

-----------------------------------------------------------------------------
(* The theorem.                                                            *)

IInv == TypeInv /\ BootInv /\ MirrorInv

LEMMA Initially == Init => IInv
<1> SUFFICES ASSUME Init PROVE IInv
  OBVIOUS
<1>1. TypeInv
  <2>1. <<>> \in Seq(Messages) /\ 0 \in 0..MaxWorkers
    BY WorkersAssumption
  <2> QED BY <2>1 DEF Init, TypeInv
<1>2. BootInv
  BY DEF Init, BootInv
<1>3. MirrorInv
  BY WorkersAssumption DEF Init, MirrorInv, Unbound, Workers
<1> QED BY <1>1, <1>2, <1>3 DEF IInv

LEMMA Inductive == IInv /\ [Next]_vars => IInv'
BY TypedStep, BootStep, MirrorStep DEF IInv

LEMMA SettledMirror == IInv => MirrorAgrees
<1> SUFFICES ASSUME IInv,
                    \A w \in Workers : /\ news[w] = <<>> /\ running[w] # "starting"
                                       /\ worker[w] # "dead"
             PROVE  mirror = \E w \in Workers : running[w] = "yes"
  BY DEF MirrorAgrees
<1>1. Followed /\ mirror \in BOOLEAN
  BY DEF IInv, TypeInv, MirrorInv, Followed, Healthy
<1>2. \A w \in Workers : w # workerP => running[w] = "no"
  BY <1>1 DEF Followed, Unbound
<1>3. ASSUME workerP \in Workers PROVE mirror <=> running[workerP] = "yes"
  <2>1. Bound(workerP) /\ news[workerP] = <<>> /\ running[workerP] \in {"no", "yes"}
    BY <1>1, <1>3 DEF Followed, IInv, TypeInv
  <2>2. EndsUp(<<>>, mirror) => mirror
    BY DEF EndsUp
  <2>3. EndsDown(<<>>, mirror) => ~ mirror
    BY DEF EndsDown
  <2> QED BY <2>1, <2>2, <2>3 DEF Bound
<1>4. ASSUME workerP \notin Workers PROVE ~ mirror
  BY <1>1, <1>4, WorkersAssumption DEF Followed, IInv, TypeInv, Workers
<1>5. mirror <=> \E w \in Workers : running[w] = "yes"
  BY <1>2, <1>3, <1>4
<1> QED BY <1>1, <1>5

\* In every run, for any requests, commands, crashes and number of workers:
\* once all that was posted has been handled and no worker has died, s_bgRunning
\* says whether a background run is under way (sharedspice_client.cpp).
THEOREM MirrorAgreesAlways == Spec => []MirrorAgrees
<1>1. Init => IInv
  BY Initially
<1>2. IInv /\ [Next]_vars => IInv'
  BY Inductive
<1>3. IInv => MirrorAgrees
  BY SettledMirror
<1> QED BY <1>1, <1>2, <1>3, PTL DEF Spec

-----------------------------------------------------------------------------
(* No request is stranded: the inductive invariant.                        *)

\* The error handler of occ-service.ts does nothing once the boot is over.
Reported == service = "ngspice" \/ "up" \notin CrashPhases["occ"]

In(q) == {q[i] : i \in 1..Len(q)}
Said(w) == In(news[w])
Failing(w) == \E m \in Said(w) : m.kind = "error"

\* What a worker may have said, by what became of it: a dead one has the error yet
\* to be handled, or all of it was dropped with the error.
QueueAt(w) ==
  /\ worker[w] \in {"none", "resolving", "loading"} => news[w] = <<>>
  /\ worker[w] \in {"resolving", "loading"} => boot[w] = "open"
  /\ worker[w] = "failed" => \A m \in Said(w) : m.kind = "bootError"
  /\ \A m \in Said(w) : /\ m.kind = "bootError" => worker[w] = "failed"
                        /\ m.kind = "error" => worker[w] = "dead"
  /\ Reported => /\ worker[w] = "dead" /\ Said(w) # {} => Failing(w)
                 /\ service = "occ" /\ Failing(w) =>
                      boot[w] = "open" /\ news[w] = <<Message("error")>>

QueueInv == \A w \in Workers : QueueAt(w)

\* A pending request is to be served by a worker that is up, answered or failed.
Heard(r) == \/ worker[on[r]] = "up" /\ r \in todo[on[r]]
            \/ Failing(on[r])
            \/ Answer(r) \in Said(on[r])

\* The boot is over only for a worker that came up; what it is sent it was asked;
\* the page is bound to no worker whose end it has been told.
WorkerAt(w) ==
  /\ boot[w] = "resolved" => worker[w] \in {"up", "dead"}
  /\ \A r \in todo[w] : on[r] = w /\ call[r] \notin {"idle", "booting"}
  /\ w = workerP => /\ boot[w] \in {"open", "resolved"}
                    /\ Reported /\ worker[w] = "dead" => Failing(w)

AskedAt(r) == call[r] = "pending" => /\ on[r] \in Workers /\ boot[on[r]] = "resolved"
                                     /\ Reported => Heard(r)

PostedInv == (\A w \in Workers : WorkerAt(w)) /\ (\A r \in Requests : AskedAt(r))

LEMMA InFacts ==
  ASSUME NEW q \in Seq(Messages)
  PROVE  /\ In(<<>>) = {}
         /\ In(q) \subseteq Messages
         /\ \A m \in Messages : In(Append(q, m)) = In(q) \cup {m}
         /\ q # <<>> => In(q) = In(Tail(q)) \cup {Head(q)}
<1>1. In(<<>>) = {} /\ In(q) \subseteq Messages
  BY DEF In
<1>2. ASSUME NEW m \in Messages PROVE In(Append(q, m)) = In(q) \cup {m}
  <2> DEFINE r == Append(q, m)
  <2>1. /\ Len(r) = Len(q) + 1 /\ Len(q) \in Nat /\ r[Len(q) + 1] = m
        /\ \A i \in 1..Len(q) : r[i] = q[i]
    OBVIOUS
  <2> HIDE DEF r
  <2>2. \A i \in 1..Len(r) : i \in 1..Len(q) \/ i = Len(q) + 1
    BY <2>1
  <2>3. Len(q) + 1 \in 1..Len(r) /\ \A i \in 1..Len(q) : i \in 1..Len(r)
    BY <2>1
  <2>4. In(r) \subseteq In(q) \cup {m}
    BY <2>1, <2>2 DEF In
  <2>5. In(q) \subseteq In(r)
    BY <2>1, <2>3 DEF In
  <2>6. m \in In(r)
    BY <2>1, <2>3 DEF In
  <2> QED BY <2>4, <2>5, <2>6 DEF r
<1>3. ASSUME q # <<>> PROVE In(q) = In(Tail(q)) \cup {Head(q)}
  <2> DEFINE r == Tail(q)
  <2>1. /\ Len(r) = Len(q) - 1 /\ Len(q) \in Nat \ {0} /\ Head(q) = q[1]
        /\ \A i \in 1..Len(q) - 1 : r[i] = q[i + 1]
    BY <1>3, EmptySeq
  <2> HIDE DEF r
  <2>2. \A i \in 1..Len(q) : i = 1 \/ (i - 1 \in 1..Len(r) /\ r[i - 1] = q[i])
    BY <2>1
  <2>3. 1 \in 1..Len(q) /\ \A i \in 1..Len(r) : i + 1 \in 1..Len(q) /\ r[i] = q[i + 1]
    BY <2>1
  <2>4. In(q) \subseteq In(r) \cup {Head(q)}
    BY <2>1, <2>2 DEF In
  <2>5. In(r) \subseteq In(q)
    BY <2>3 DEF In
  <2>6. Head(q) \in In(q)
    BY <2>1, <2>3 DEF In
  <2> QED BY <2>4, <2>5, <2>6 DEF r
<1> QED BY <1>1, <1>2, <1>3

\* The queues of the other workers say what they said.
LEMMA SaidAlone ==
  ASSUME TypeInv, NEW w \in Workers, StepOf(w)
  PROVE  \A v \in Workers : v # w => Said(v)' = Said(v) /\ (Failing(v)' <=> Failing(v))
BY Alone DEF OthersSame, Said, Failing, In

LEMMA SaidPosted ==
  ASSUME TypeInv, NEW w \in Workers, NEW m \in Messages,
         news' = [news EXCEPT ![w] = Append(news[w], m)]
  PROVE  Said(w)' = Said(w) \cup {m}
<1>1. news[w] \in Seq(Messages) /\ news'[w] = Append(news[w], m)
  BY DEF TypeInv
<1>2. In(news'[w]) = In(news[w]) \cup {m}
  BY <1>1, InFacts
<1> QED BY <1>2 DEF Said, In

LEMMA SaidTaken ==
  ASSUME TypeInv, NEW w \in Workers, NEW kind, Handled(w, kind), news' = Consumed(w)
  PROVE  /\ Head(news[w]) \in Messages /\ Head(news[w]).kind = kind
         /\ Said(w) = Said(w)' \cup {Head(news[w])}
<1>1. /\ news[w] \in Seq(Messages) /\ news[w] # <<>> /\ news'[w] = Tail(news[w])
      /\ Head(news[w]) \in Messages /\ Head(news[w]).kind = kind
  BY Taken
<1>2. In(news[w]) = In(news'[w]) \cup {Head(news[w])}
  BY <1>1, InFacts
<1> QED BY <1>1, <1>2 DEF Said, In

\* A message that says nothing of the boot or of the end is handled.
LEMMA QueueTaken ==
  ASSUME TypeInv, NEW w \in Workers, QueueAt(w), NEW kind \in {"ready", "bootError", "answer", "event"},
         Handled(w, kind), news' = Consumed(w), UNCHANGED <<service, worker>>
  PROVE  QueueAt(w)'
<1>1. Head(news[w]).kind = kind /\ Said(w) = Said(w)' \cup {Head(news[w])}
  BY SaidTaken
<1>2. Failing(w)' <=> Failing(w)
  BY <1>1 DEF Failing
<1>3. Reported' <=> Reported
  BY DEF Reported
<1>4. service = "occ" /\ Failing(w) /\ Reported => Head(news[w]).kind = "error"
  BY DEF QueueAt, Message
<1>5. worker[w] \notin {"none", "resolving", "loading"}
  BY DEF QueueAt, Handled
<1> QED BY <1>1, <1>2, <1>3, <1>4, <1>5 DEF QueueAt

\* A step of the page that leaves the workers and their queues alone.
LEMMA QueueSame ==
  ASSUME NEW v \in Workers, QueueAt(v), UNCHANGED <<service, worker, boot, news>>
  PROVE  QueueAt(v)'
<1>1. Said(v)' = Said(v) /\ (Failing(v)' <=> Failing(v)) /\ (Reported' <=> Reported)
  BY DEF Said, In, Failing, Reported
<1> QED BY <1>1 DEF QueueAt, Message

\* A worker posts one message.
LEMMA SaidMore ==
  ASSUME TypeInv, NEW w \in Workers, NEW m \in Messages, news' = Posted(w, <<m>>)
  PROVE  Said(w)' = Said(w) \cup {m}
<1>1. news' = [news EXCEPT ![w] = Append(news[w], m)]
  BY OnePosted
<1> QED BY <1>1, SaidPosted

Chatty(w) == \A m \in Said(w)' : m \in Said(w) \/ m.kind \in {"answer", "event"}

\* A worker that is up answers a request it was sent.
LEMMA ServeSays ==
  ASSUME TypeInv, NEW w \in Workers, Serve(w)
  PROVE  \E r \in todo[w] : /\ r \in Requests /\ todo' = [todo EXCEPT ![w] = @ \ {r}]
                            /\ Said(w) \subseteq Said(w)' /\ Answer(r) \in Said(w)'
                            /\ Chatty(w)
<1>1. PICK r \in todo[w] :
       /\ todo' = [todo EXCEPT ![w] = @ \ {r}]
       /\ \/ news' = Posted(w, <<Answer(r)>>)
          \/ news' = Posted(w, <<>> \o <<Answer(r)>>)
          \/ news' = Posted(w, <<Event(FALSE)>> \o <<Answer(r)>>)
  BY DEF Serve
<1> DEFINE e == Event(FALSE)
           a == Answer(r)
           q == news[w]
<1>2. r \in Requests /\ e \in Messages /\ a \in Messages /\ q \in Seq(Messages)
      /\ a.kind = "answer" /\ e.kind = "event"
  BY MessageFacts DEF TypeInv
<1>3. \/ news' = Posted(w, <<a>>)
      \/ news' = Posted(w, <<>> \o <<a>>)
      \/ news' = Posted(w, <<e>> \o <<a>>)
  BY <1>1
<1> HIDE DEF e, a
<1>4. news' = Posted(w, <<a>>) \/ news' = Posted(w, <<e>> \o <<a>>)
  <2>1. <<>> \o <<a>> = <<a>>
    BY <1>2
  <2> QED BY <1>3, <2>1
<1>5. ASSUME news' = Posted(w, <<a>>) PROVE Said(w)' = Said(w) \cup {a}
  BY <1>2, <1>5, SaidMore
<1>6. ASSUME news' = Posted(w, <<e>> \o <<a>>) PROVE Said(w)' = Said(w) \cup {e} \cup {a}
  <2>1. q \in Seq(Messages) => q \o (<<e>> \o <<a>>) = Append(Append(q, e), a)
                                /\ Append(q, e) \in Seq(Messages)
    <3> HIDE DEF q
    <3> QED BY <1>2
  <2>2. news'[w] = Append(Append(q, e), a)
    BY <1>2, <1>6, <2>1 DEF Posted, TypeInv
  <2>3. In(Append(Append(q, e), a)) = In(q) \cup {e} \cup {a}
    <3> HIDE DEF q
    <3>1. In(Append(q, e)) = In(q) \cup {e}
      BY <1>2, InFacts
    <3>2. In(Append(Append(q, e), a)) = In(Append(q, e)) \cup {a}
      BY <1>2, <2>1, InFacts
    <3> QED BY <3>1, <3>2
  <2> QED BY <2>2, <2>3 DEF Said, In
<1>7. Said(w) \subseteq Said(w)' /\ a \in Said(w)' /\ Chatty(w)
  BY <1>2, <1>4, <1>5, <1>6 DEF Chatty
<1> QED BY <1>1, <1>2, <1>7 DEF a

\* Its background thread reports.
LEMMA BackgroundSays ==
  ASSUME TypeInv, NEW w \in Workers, Background(w)
  PROVE  Said(w) \subseteq Said(w)' /\ Chatty(w)
<1>1. PICK b \in BOOLEAN : news' = Posted(w, <<Event(b)>>)
  BY DEF Background, BgStart, BgFinish
<1> DEFINE e == Event(b)
<1>2. e \in Messages /\ e.kind = "event" /\ news' = Posted(w, <<e>>)
  BY <1>1, MessageFacts
<1> HIDE DEF e
<1> QED BY <1>2, SaidMore DEF Chatty

LEMMA QueueStep ==
  ASSUME TypeInv, BootInv, QueueInv, [Next]_vars PROVE QueueInv'
<1>1. ASSUME NEW r \in Requests, RequestBoots(r) PROVE QueueInv'
  <2>1. PICK w \in Workers : /\ boot[w] = "none"
                             /\ boot' = [boot EXCEPT ![w] = "open"]
                             /\ worker' = [worker EXCEPT ![w] = "resolving"]
    BY <1>1 DEF RequestBoots
  <2>2. UNCHANGED <<service, news>>
    BY <1>1 DEF RequestBoots
  <2>3. worker[w] = "none" /\ worker'[w] = "resolving" /\ boot'[w] = "open"
    BY <2>1 DEF BootInv, TypeInv
  <2>4. \A v \in Workers : v # w => worker'[v] = worker[v] /\ boot'[v] = boot[v]
    BY <2>1 DEF TypeInv
  <2>5. \A v \in Workers : Said(v)' = Said(v) /\ (Failing(v)' <=> Failing(v))
    BY <2>2 DEF Said, Failing, In
  <2>6. news[w] = <<>> /\ Said(w) = {}
    BY <2>3 DEF QueueInv, QueueAt, Said, In
  <2>7. QueueAt(w)'
    BY <2>2, <2>3, <2>5, <2>6 DEF QueueAt, Failing
  <2>8. ASSUME NEW v \in Workers, v # w PROVE QueueAt(v)'
    BY <2>2, <2>4, <2>5, <2>8 DEF QueueInv, QueueAt, Reported
  <2> QED BY <2>7, <2>8 DEF QueueInv
<1>2. ASSUME NEW r \in Requests, RequestShares(r) PROVE QueueInv'
  BY <1>2, QueueSame DEF RequestShares, QueueInv
<1>3. ASSUME NEW w \in Workers, StepOf(w) PROVE QueueInv'
  <2>1. QueueAt(w) /\ service' = service
    BY <1>3 DEF QueueInv, StepOf, Page, ResolveFails, Resolve, OnReady, OnBootError, OnAnswer,
                OnEvent, OnError, Load, Serve, Background, BgStart, BgFinish, Crash
  <2>2. ASSUME NEW v \in Workers, v # w PROVE QueueAt(v)'
    BY <1>3, <2>1, <2>2, Alone, SaidAlone DEF OthersSame, QueueInv, QueueAt, Reported
  <2>3. CASE ResolveFails(w) \/ Resolve(w)
    <3>1. worker[w] = "resolving" /\ worker'[w] \in {"dead", "loading"} /\ news' = news
          /\ (worker'[w] = "loading" => boot' = boot)
      BY <2>3 DEF ResolveFails, Resolve, TypeInv
    <3>2. news'[w] = <<>> /\ Said(w)' = {}
      BY <2>1, <3>1 DEF QueueAt, Said, In
    <3>3. QueueAt(w)'
      BY <2>1, <3>1, <3>2 DEF QueueAt, Failing
    <3> QED BY <2>2, <3>3 DEF QueueInv
  <2>4. CASE OnReady(w) \/ OnBootError(w) \/ OnAnswer(w) \/ OnEvent(w)
    <3>1. PICK kind \in {"ready", "bootError", "answer", "event"} : Handled(w, kind)
      BY <2>4 DEF OnReady, OnBootError, OnAnswer, OnEvent
    <3>2. news' = Consumed(w) /\ UNCHANGED <<service, worker>>
      BY <2>4 DEF OnReady, OnBootError, OnAnswer, OnEvent
    <3> QED BY <2>1, <2>2, <3>1, <3>2, QueueTaken DEF QueueInv
  <2>5. CASE OnError(w)
    <3>1. Handled(w, "error") /\ worker'[w] = "dead"
      BY <2>5 DEF OnError, OnErrorReset, OnErrorReject, TypeInv
    <3>2. Failing(w) /\ worker[w] = "dead" /\ \A m \in Said(w) : m.kind # "bootError"
      <4>1. Head(news[w]) \in Said(w) /\ Head(news[w]).kind = "error"
        <5>1. news[w] \in Seq(Messages) /\ news[w] # <<>> /\ Head(news[w]).kind = "error"
          BY <3>1, Taken
        <5> QED BY <5>1, InFacts DEF Said
      <4> QED BY <2>1, <4>1 DEF Failing, QueueAt
    <3>3. CASE service = "ngspice"
      <4>1. news'[w] = <<>>
        BY <2>5, <3>3 DEF OnError, OnErrorReset, TypeInv
      <4>2. Said(w)' = {}
        BY <4>1 DEF Said, In
      <4>3. QueueAt(w)'
        BY <3>1, <4>2 DEF QueueAt, Failing
      <4> QED BY <2>2, <4>3 DEF QueueInv
    <3>4. CASE service # "ngspice"
      <4>1. news' = Consumed(w) /\ service = "occ"
        BY <2>5, <3>4 DEF OnError, OnErrorReject, TypeInv, Services
      <4>2. Said(w)' \subseteq Said(w)
        BY <3>1, <4>1, SaidTaken
      <4>3. ASSUME Reported PROVE Said(w)' = {}
        <5>1. news'[w] = Tail(news[w]) /\ news[w] = <<Message("error")>>
          BY <2>1, <3>1, <3>2, <4>1, <4>3, Taken DEF QueueAt
        <5>2. news'[w] = <<>>
          BY <5>1
        <5> QED BY <5>2 DEF Said, In
      <4>4. Reported' <=> Reported
        BY <2>1 DEF Reported
      <4>5. QueueAt(w)'
        BY <2>1, <3>1, <3>2, <4>2, <4>3, <4>4 DEF QueueAt, Failing
      <4> QED BY <2>2, <4>5 DEF QueueInv
    <3> QED BY <3>3, <3>4
  <2>6. CASE Load(w)
    <3>1. Said(w) = {} /\ boot' = boot
      BY <2>1, <2>6 DEF QueueAt, Load, Said, In
    <3>2. PICK kind \in {"ready", "bootError"} :
             /\ worker'[w] = (IF kind = "ready" THEN "up" ELSE "failed")
             /\ news' = Posted(w, <<Message(kind)>>)
      BY <2>6 DEF Load, TypeInv
    <3> DEFINE m == Message(kind)
    <3>3. m \in Messages /\ m.kind = kind
      BY MessageFacts
    <3>4. news' = Posted(w, <<m>>)
      BY <3>2
    <3> HIDE DEF m
    <3>5. Said(w)' = {m}
      BY <3>1, <3>3, <3>4, SaidMore
    <3>6. QueueAt(w)'
      BY <3>2, <3>3, <3>5 DEF QueueAt, Failing
    <3> QED BY <2>2, <3>6 DEF QueueInv
  <2>7. CASE Serve(w) \/ Background(w)
    <3>1. worker[w] = "up" /\ worker' = worker
      BY <2>7 DEF Serve, Background, BgStart, BgFinish
    <3>2. \A m \in Said(w)' : m \in Said(w) \/ m.kind \in {"answer", "event"}
      BY <2>7, ServeSays, BackgroundSays DEF Chatty
    <3>3. ~ (Reported /\ service = "occ" /\ Failing(w))
      BY <2>1, <3>1 DEF QueueAt, Failing
    <3>4. QueueAt(w)'
      BY <2>1, <3>1, <3>2, <3>3 DEF QueueAt, Failing, Reported
    <3> QED BY <2>2, <3>4 DEF QueueInv
  <2>8. CASE Crash(w)
    <3> DEFINE m == Message("error")
    <3>1. /\ worker[w] \in {"loading", "up"} /\ worker'[w] = "dead" /\ boot' = boot
          /\ Reported /\ service = "occ" => worker[w] = "loading"
      BY <2>8, CrashAssumption DEF Crash, TypeInv, Reported
    <3>2. m \in Messages /\ m.kind = "error" /\ news' = Posted(w, <<m>>)
      BY <2>8, MessageFacts DEF Crash
    <3> HIDE DEF m
    <3>3. Said(w)' = Said(w) \cup {m}
      BY <3>2, SaidMore
    <3>4. worker[w] = "loading" => news'[w] = <<m>>
      <4>1. Append(<<>>, m) = <<m>>
        OBVIOUS
      <4> QED BY <2>1, <3>2, <4>1, OnePosted DEF QueueAt
    <3>5. worker[w] = "loading" => news'[w] = <<Message("error")>> /\ boot'[w] = "open"
      BY <2>1, <3>1, <3>4 DEF QueueAt, m
    <3>6. QueueAt(w)'
      BY <2>1, <3>1, <3>2, <3>3, <3>5 DEF QueueAt, Failing, Reported
    <3> QED BY <2>2, <3>6 DEF QueueInv
  <2> QED BY <1>3, <2>3, <2>4, <2>5, <2>6, <2>7, <2>8 DEF StepOf, Page
<1>4. CASE UNCHANGED vars
  BY <1>4, QueueSame DEF vars, QueueInv
<1> QED BY <1>1, <1>2, <1>3, <1>4 DEF Next, StepOf

\* What a step of a worker, or of the page about it, does to the requests.
LEMMA StepAsks ==
  ASSUME TypeInv, NEW w \in Workers, StepOf(w)
  PROVE  /\ UNCHANGED <<service, on>> /\ workerP' \in {0, workerP}
         /\ \A v \in Workers : v # w => todo'[v] = todo[v]
         /\ \A r \in Requests :
              /\ call[r] \notin {"idle", "booting"} => call'[r] \notin {"idle", "booting"}
              /\ call'[r] = "pending" /\ on[r] # w => call[r] = "pending"
<1>1. CASE ResolveFails(w) \/ Resolve(w)
  BY <1>1 DEF ResolveFails, Rejected, Resolve, Settled, TypeInv
<1>2. CASE OnReady(w) \/ OnBootError(w)
  BY <1>2 DEF OnReady, OnBootError, Rejected, Settled, Booting, TypeInv
<1>3. CASE OnAnswer(w) \/ OnEvent(w)
  BY <1>3 DEF OnAnswer, OnEvent, TypeInv
<1>4. CASE OnError(w)
  BY <1>4 DEF OnError, OnErrorReset, OnErrorReject, Rejected, Settled, Pending, TypeInv
<1>5. CASE Load(w) \/ Background(w) \/ Crash(w)
  BY <1>5 DEF Load, Background, BgStart, BgFinish, Crash, TypeInv
<1>6. CASE Serve(w)
  BY <1>6 DEF Serve, TypeInv
<1> QED BY <1>1, <1>2, <1>3, <1>4, <1>5, <1>6 DEF StepOf, Page

\* What a step of w must be shown to keep: w, and the requests that are on w.
LEMMA OnlyAt ==
  ASSUME TypeInv, PostedInv, NEW w \in Workers, StepOf(w),
         WorkerAt(w)', \A r \in Requests : on[r] = w => AskedAt(r)'
  PROVE  PostedInv'
<1>1. Reported' <=> Reported
  BY StepAsks DEF Reported
<1>2. ASSUME NEW v \in Workers, v # w PROVE WorkerAt(v)'
  <2>1. /\ worker'[v] = worker[v] /\ boot'[v] = boot[v] /\ (Failing(v)' <=> Failing(v))
        /\ todo'[v] = todo[v] /\ todo[v] \subseteq Requests /\ on' = on
        /\ v # 0 /\ workerP' \in {0, workerP}
    BY <1>2, Alone, SaidAlone, StepAsks, WorkersAssumption DEF OthersSame, TypeInv, Workers
  <2>2. \A r \in todo[v] : on[r] = v /\ call'[r] \notin {"idle", "booting"}
    BY <2>1, StepAsks DEF PostedInv, WorkerAt
  <2> QED BY <1>1, <2>1, <2>2 DEF PostedInv, WorkerAt
<1>3. ASSUME NEW r \in Requests, on[r] # w PROVE AskedAt(r)'
  <2> SUFFICES ASSUME call'[r] = "pending" PROVE AskedAt(r)'
    BY DEF AskedAt
  <2>1. call[r] = "pending" /\ on' = on /\ AskedAt(r)
    BY <1>3, StepAsks DEF PostedInv
  <2>2. on[r] \in Workers /\ on'[r] = on[r]
    BY <2>1 DEF AskedAt
  <2>3. /\ worker'[on[r]] = worker[on[r]] /\ boot'[on[r]] = boot[on[r]]
        /\ todo'[on[r]] = todo[on[r]]
        /\ Said(on[r])' = Said(on[r]) /\ (Failing(on[r])' <=> Failing(on[r]))
    <3> DEFINE v == on[r]
    <3>1. v \in Workers /\ v # w /\ v' = v
      BY <1>3, <2>2
    <3>2. Said(v)' = Said(v) /\ (Failing(v)' <=> Failing(v))
      BY <3>1, SaidAlone DEF Said, Failing
    <3> QED BY <3>1, <3>2, Alone, StepAsks DEF OthersSame
  <2>4. Heard(r) => Heard(r)'
    BY <2>2, <2>3 DEF Heard, Answer
  <2> QED BY <1>1, <2>1, <2>2, <2>3, <2>4 DEF AskedAt
<1> QED BY <1>2, <1>3 DEF PostedInv

\* Nothing is pending on a worker whose boot is not over.
LEMMA NoneAsked ==
  ASSUME TypeInv, PostedInv, NEW w \in Workers, StepOf(w), boot[w] # "resolved",
         \A r \in Requests : call'[r] = "pending" => call[r] = "pending"
  PROVE  \A r \in Requests : on[r] = w => AskedAt(r)'
BY DEF PostedInv, AskedAt

\* The page takes a message, not the error, and asks nothing new of w.
LEMMA AskTaken ==
  ASSUME TypeInv, QueueInv, PostedInv, NEW w \in Workers, StepOf(w),
         NEW kind \in {"ready", "bootError", "answer", "event"}, Handled(w, kind),
         news' = Consumed(w), worker' = worker, todo[w] \subseteq todo'[w], boot'[w] = boot[w]
  PROVE  \A r \in Requests : /\ on[r] = w /\ call[r] = "pending" /\ Answer(r) # Head(news[w])
                             => AskedAt(r)'
<1> SUFFICES ASSUME NEW r \in Requests, on[r] = w, call[r] = "pending", Answer(r) # Head(news[w])
             PROVE  AskedAt(r)'
  OBVIOUS
<1>1. on' = on /\ service' = service
  BY StepAsks
<1>2. Head(news[w]).kind = kind /\ Said(w) = Said(w)' \cup {Head(news[w])}
  BY SaidTaken
<1>3. Failing(w)' <=> Failing(w)
  BY <1>2 DEF Failing
<1>4. boot[w] = "resolved" /\ (Reported => Heard(r)) /\ (Reported' <=> Reported)
  BY <1>1 DEF PostedInv, AskedAt, Reported
<1>5. Heard(r) => Heard(r)'
  <2>1. Answer(r) \in Said(w) => Answer(r) \in Said(w)'
    BY <1>2
  <2>2. Heard(r) => \/ worker'[w] = "up" /\ r \in todo'[w]
                    \/ Failing(w)'
                    \/ Answer(r) \in Said(w)'
    BY <1>3, <2>1 DEF Heard
  <2> QED BY <1>1, <2>2 DEF Heard, Answer, Failing, Said
<1> QED BY <1>1, <1>4, <1>5 DEF AskedAt

LEMMA WorkerAsks ==
  ASSUME TypeInv, QueueInv, PostedInv, NEW w \in Workers, StepOf(w) PROVE PostedInv'
<1>1. /\ QueueAt(w) /\ WorkerAt(w) /\ service' = service /\ on' = on /\ w # 0
      /\ Reported' <=> Reported
  BY StepAsks, WorkersAssumption DEF QueueInv, PostedInv, Reported, Workers
<1>2. \A r \in Requests : call[r] \notin {"idle", "booting"} => call'[r] \notin {"idle", "booting"}
  BY StepAsks
<1>3. \A r \in todo[w] : r \in Requests /\ on'[r] = w /\ call'[r] \notin {"idle", "booting"}
  BY <1>1, <1>2 DEF WorkerAt, TypeInv
<1>4. CASE ResolveFails(w) \/ OnBootError(w)
  <2>1. /\ boot' = [boot EXCEPT ![w] = "rejected"] /\ workerP' = 0 /\ UNCHANGED todo
        /\ call' = Settled(Booting(w), "failed")
        /\ worker[w] = "resolving" \/ Handled(w, "bootError")
    BY <1>4 DEF ResolveFails, OnBootError, Rejected
  <2>2. boot[w] # "resolved"
    <3>1. CASE worker[w] = "resolving"
      BY <1>1, <3>1 DEF QueueAt
    <3>2. CASE Handled(w, "bootError")
      <4>1. news[w] \in Seq(Messages) /\ news[w] # <<>> /\ Head(news[w]).kind = "bootError"
        BY <3>2, Taken
      <4>2. Head(news[w]) \in Said(w)
        BY <4>1, InFacts DEF Said
      <4> QED BY <1>1, <4>1, <4>2 DEF QueueAt, WorkerAt
    <3> QED BY <2>1, <3>1, <3>2
  <2>3. \A r \in Requests : call'[r] = "pending" => call[r] = "pending"
    BY <2>1 DEF Settled, TypeInv
  <2>4. boot'[w] = "rejected"
    BY <2>1 DEF TypeInv
  <2>5. WorkerAt(w)'
    BY <1>1, <1>3, <2>1, <2>4 DEF WorkerAt
  <2> QED BY <2>2, <2>3, <2>5, NoneAsked, OnlyAt
<1>5. CASE Resolve(w) \/ Load(w)
  <2>1. /\ UNCHANGED <<boot, todo, call, workerP>> /\ worker'[w] # "dead"
        /\ worker[w] \in {"resolving", "loading"}
    BY <1>5 DEF Resolve, Load, TypeInv
  <2>2. boot[w] = "open"
    BY <1>1, <2>1 DEF QueueAt
  <2>3. WorkerAt(w)'
    BY <1>1, <1>3, <2>1, <2>2 DEF WorkerAt
  <2> QED BY <2>1, <2>2, <2>3, NoneAsked, OnlyAt
<1>6. CASE OnReady(w)
  <2>1. /\ Handled(w, "ready") /\ news' = Consumed(w) /\ worker' = worker /\ workerP' = workerP
        /\ boot'[w] = "resolved" /\ todo'[w] = todo[w] \cup Booting(w)
        /\ call' = Settled(Booting(w), "pending")
    BY <1>6 DEF OnReady, TypeInv
  <2>2. /\ news[w] \in Seq(Messages) /\ news[w] # <<>> /\ Head(news[w]).kind = "ready"
        /\ Head(news[w]) \in Said(w)
    BY <2>1, Taken, InFacts DEF Said
  <2>3. worker[w] \in {"up", "dead"}
    BY <1>1, <2>2 DEF QueueAt, TypeInv
  <2>4. Said(w) = Said(w)' \cup {Head(news[w])}
    BY <2>1, SaidTaken
  <2>5. Reported /\ worker[w] = "dead" => Failing(w)'
    <3>1. Reported /\ worker[w] = "dead" => Failing(w)
      BY <1>1, <2>2 DEF QueueAt
    <3> QED BY <2>2, <2>4, <3>1 DEF Failing
  <2>6. ASSUME NEW r \in Requests, r \in Booting(w) \/ call[r] # "pending"
        PROVE  call'[r] = "pending" => r \in Booting(w)
    BY <2>1, <2>6 DEF Settled
  <2>7. \A r \in Booting(w) : r \in Requests /\ on[r] = w /\ call'[r] = "pending"
    BY <2>1 DEF Booting, Settled
  <2>8. WorkerAt(w)'
    <3>1. \A r \in todo'[w] : on'[r] = w /\ call'[r] \notin {"idle", "booting"}
      BY <1>1, <1>3, <2>1, <2>7
    <3> QED BY <1>1, <2>1, <2>3, <2>5, <3>1 DEF WorkerAt
  <2>9. ASSUME NEW r \in Requests, on[r] = w PROVE AskedAt(r)'
    <3>1. Reported /\ worker[w] = "dead" => Heard(r)'
      BY <1>1, <2>5, <2>9 DEF Heard, Failing, Said
    <3>2. CASE r \in Booting(w)
      <4>1. worker[w] = "up" => Heard(r)'
        BY <1>1, <2>1, <2>9, <3>2 DEF Heard
      <4> QED BY <1>1, <2>1, <2>3, <2>9, <3>1, <4>1 DEF AskedAt
    <3>3. CASE r \notin Booting(w) /\ call[r] # "pending"
      BY <2>6, <3>3 DEF AskedAt
    <3>4. CASE r \notin Booting(w) /\ call[r] = "pending"
      <4>1. Answer(r).kind = "answer"
        BY DEF Answer
      <4>2. boot[w] = "resolved"
        BY <2>9, <3>4 DEF PostedInv, AskedAt
      <4> QED BY <2>1, <2>2, <2>9, <3>4, <4>1, <4>2, AskTaken
    <3> QED BY <3>2, <3>3, <3>4
  <2> QED BY <2>8, <2>9, OnlyAt
<1>7. CASE OnAnswer(w) \/ OnEvent(w)
  <2>1. PICK kind \in {"answer", "event"} :
          /\ Handled(w, kind) /\ news' = Consumed(w)
          /\ UNCHANGED <<boot, worker, todo, workerP>>
          /\ IF kind = "event" THEN call' = call
             ELSE call' = (IF Head(news[w]).request \in Pending
                             THEN [call EXCEPT ![Head(news[w]).request] = "done"] ELSE call)
    BY <1>7 DEF OnAnswer, OnEvent
  <2>2. Head(news[w]).kind = kind /\ Said(w) = Said(w)' \cup {Head(news[w])}
    BY <2>1, SaidTaken
  <2>3. Failing(w)' <=> Failing(w)
    BY <2>2 DEF Failing
  <2>4. WorkerAt(w)'
    BY <1>1, <1>3, <2>1, <2>3 DEF WorkerAt
  <2>5. ASSUME NEW r \in Requests, on[r] = w, call'[r] = "pending"
        PROVE  call[r] = "pending" /\ Answer(r) # Head(news[w])
    <3>1. call[r] = "pending"
      BY <2>1, <2>5 DEF TypeInv
    <3>2. Answer(r).kind = "answer" /\ Answer(r).request = r
      BY DEF Answer
    <3>3. ASSUME Answer(r) = Head(news[w]) PROVE FALSE
      <4>1. kind = "answer" /\ Head(news[w]).request = r
        BY <2>2, <3>2, <3>3
      <4>2. r \in Pending
        BY <3>1 DEF Pending
      <4>3. call'[r] = "done"
        BY <2>1, <4>1, <4>2 DEF TypeInv
      <4> QED BY <2>5, <4>3
    <3> QED BY <3>1, <3>3
  <2>6. ASSUME NEW r \in Requests, on[r] = w PROVE AskedAt(r)'
    <3>1. CASE call'[r] # "pending"
      BY <3>1 DEF AskedAt
    <3>2. CASE call'[r] = "pending"
      BY <2>1, <2>5, <2>6, <3>2, AskTaken
    <3> QED BY <3>1, <3>2
  <2> QED BY <2>4, <2>6, OnlyAt
<1>8. CASE OnError(w) /\ service = "ngspice"
  <2>1. /\ call' = Settled(Pending, "failed") /\ workerP' = 0 /\ UNCHANGED <<boot, todo>>
        /\ worker'[w] = "dead"
    BY <1>8 DEF OnError, OnErrorReset, TypeInv
  <2>2. WorkerAt(w)'
    BY <1>1, <1>3, <2>1 DEF WorkerAt
  <2>3. \A r \in Requests : call'[r] # "pending"
    BY <2>1 DEF Settled, Pending
  <2> QED BY <2>2, <2>3, OnlyAt DEF AskedAt
<1>9. CASE OnError(w) /\ service # "ngspice"
  <2>1. /\ Handled(w, "error") /\ UNCHANGED todo /\ worker'[w] = "dead"
        /\ IF boot[w] = "open" THEN Rejected(w) ELSE UNCHANGED <<boot, call, workerP>>
    BY <1>9 DEF OnError, OnErrorReject, TypeInv
  <2>2. service = "occ" /\ Failing(w)
    <3>1. news[w] \in Seq(Messages) /\ news[w] # <<>> /\ Head(news[w]).kind = "error"
      BY <2>1, Taken
    <3>2. Head(news[w]) \in Said(w)
      BY <3>1, InFacts DEF Said
    <3> QED BY <1>9, <3>1, <3>2 DEF Failing, Services, TypeInv
  <2>3. Reported => boot[w] = "open"
    BY <1>1, <2>2 DEF QueueAt
  <2>4. \A r \in Requests : call'[r] = "pending" => call[r] = "pending"
    BY <2>1 DEF Rejected, Settled, TypeInv
  <2>5. CASE boot[w] = "open"
    <3>1. boot'[w] = "rejected" /\ workerP' = 0
      BY <2>1, <2>5 DEF Rejected, TypeInv
    <3>2. WorkerAt(w)'
      BY <1>1, <1>3, <2>1, <3>1 DEF WorkerAt
    <3> QED BY <2>4, <2>5, <3>2, NoneAsked, OnlyAt
  <2>6. CASE boot[w] # "open"
    <3>1. ~ Reported /\ UNCHANGED <<boot, call, workerP>>
      BY <2>1, <2>3, <2>6
    <3>2. WorkerAt(w)'
      BY <1>1, <1>3, <2>1, <3>1 DEF WorkerAt
    <3>3. \A r \in Requests : on[r] = w => AskedAt(r)'
      BY <1>1, <3>1 DEF PostedInv, AskedAt
    <3> QED BY <3>2, <3>3, OnlyAt
  <2> QED BY <2>5, <2>6
<1>10. CASE Serve(w) \/ Background(w)
  <2>1. UNCHANGED <<call, workerP, boot, worker>> /\ worker[w] = "up"
    BY <1>10 DEF Serve, Background, BgStart, BgFinish
  <2>2. /\ Said(w) \subseteq Said(w)' /\ todo'[w] \subseteq todo[w]
        /\ \A r \in todo[w] : r \in todo'[w] \/ Answer(r) \in Said(w)'
    <3>1. CASE Serve(w)
      BY <3>1, ServeSays DEF TypeInv
    <3>2. CASE Background(w)
      BY <3>2, BackgroundSays DEF Background, BgStart, BgFinish
    <3> QED BY <1>10, <3>1, <3>2
  <2>3. Failing(w) => Failing(w)'
    BY <2>2 DEF Failing
  <2>4. WorkerAt(w)'
    BY <1>1, <1>3, <2>1, <2>2, <2>3 DEF WorkerAt
  <2>5. ASSUME NEW r \in Requests, on[r] = w, Heard(r) PROVE Heard(r)'
    <3>1. r \in todo'[w] \/ Failing(w)' \/ Answer(r) \in Said(w)'
      BY <2>2, <2>3, <2>5 DEF Heard
    <3> QED BY <1>1, <2>1, <2>5, <3>1 DEF Heard, Answer, Failing, Said
  <2>6. ASSUME NEW r \in Requests, on[r] = w PROVE AskedAt(r)'
    BY <1>1, <2>1, <2>5, <2>6 DEF PostedInv, AskedAt
  <2> QED BY <2>4, <2>6, OnlyAt
<1>11. CASE Crash(w)
  <2> DEFINE m == Message("error")
  <2>1. /\ UNCHANGED <<call, workerP, boot>> /\ worker'[w] = "dead" /\ todo'[w] = {}
        /\ news' = Posted(w, <<m>>)
    BY <1>11 DEF Crash, TypeInv
  <2>2. m \in Messages /\ m.kind = "error"
    BY MessageFacts
  <2> HIDE DEF m
  <2>3. Failing(w)'
    BY <2>1, <2>2, SaidMore DEF Failing
  <2>4. WorkerAt(w)'
    BY <1>1, <2>1, <2>3 DEF WorkerAt
  <2>5. \A r \in Requests : on[r] = w => Heard(r)'
    BY <1>1, <2>3 DEF Heard, Failing, Said
  <2>6. \A r \in Requests : on[r] = w => AskedAt(r)'
    BY <1>1, <2>1, <2>5 DEF PostedInv, AskedAt
  <2> QED BY <2>4, <2>6, OnlyAt
<1> QED BY <1>4, <1>5, <1>6, <1>7, <1>8, <1>9, <1>10, <1>11 DEF StepOf, Page

LEMMA AskStep ==
  ASSUME TypeInv, BootInv, QueueInv, PostedInv, [Next]_vars PROVE PostedInv'
<1>1. ASSUME NEW r \in Requests, RequestBoots(r) PROVE PostedInv'
  <2>1. PICK w \in Workers : /\ boot[w] = "none" /\ workerP' = w
                             /\ boot' = [boot EXCEPT ![w] = "open"]
                             /\ worker' = [worker EXCEPT ![w] = "resolving"]
                             /\ on' = [on EXCEPT ![r] = w]
    BY <1>1 DEF RequestBoots
  <2>2. /\ UNCHANGED <<service, todo, news>> /\ call[r] = "idle"
        /\ call' = [call EXCEPT ![r] = "booting"]
    BY <1>1 DEF RequestBoots
  <2>3. \A v \in Workers : /\ Said(v)' = Said(v) /\ (Failing(v)' <=> Failing(v))
    BY <2>2 DEF Said, Failing, In
  <2>4. Reported' <=> Reported
    BY <2>2 DEF Reported
  <2>5. \A v \in Workers : \A q \in todo[v] : q \in Requests /\ q # r
    BY <2>2 DEF PostedInv, WorkerAt, TypeInv
  <2>6. \A q \in Requests : q # r => call'[q] = call[q] /\ on'[q] = on[q]
    BY <2>1, <2>2 DEF TypeInv
  <2>7. \A v \in Workers : v # w => boot'[v] = boot[v] /\ worker'[v] = worker[v]
    BY <2>1 DEF TypeInv
  <2>8. boot'[w] = "open" /\ worker'[w] = "resolving" /\ call'[r] = "booting"
    BY <2>1, <2>2 DEF TypeInv
  <2>9. ASSUME NEW v \in Workers PROVE WorkerAt(v)'
    BY <2>1, <2>2, <2>3, <2>4, <2>5, <2>6, <2>7, <2>8 DEF PostedInv, WorkerAt
  <2>10. ASSUME NEW q \in Requests PROVE AskedAt(q)'
    <3> SUFFICES ASSUME call'[q] = "pending" PROVE AskedAt(q)'
      BY DEF AskedAt
    <3>1. q # r /\ call[q] = "pending" /\ on'[q] = on[q]
      BY <2>6, <2>8
    <3>2. on[q] \in Workers /\ boot[on[q]] = "resolved" /\ (Reported => Heard(q))
      BY <3>1 DEF PostedInv, AskedAt
    <3>3. on[q] # w
      BY <2>1, <3>2
    <3>4. Heard(q) => Heard(q)'
      BY <2>2, <2>3, <2>7, <3>1, <3>2, <3>3 DEF Heard, Answer, Said, Failing
    <3> QED BY <2>4, <2>7, <3>1, <3>2, <3>3, <3>4 DEF AskedAt
  <2> QED BY <2>9, <2>10 DEF PostedInv
<1>2. ASSUME NEW r \in Requests, RequestShares(r) PROVE PostedInv'
  <2> DEFINE w == workerP
  <2>1. /\ w \in Workers /\ call[r] = "idle" /\ on' = [on EXCEPT ![r] = w]
        /\ UNCHANGED <<service, workerP, boot, worker, news>>
    BY <1>2, WorkersAssumption DEF RequestShares, TypeInv, Workers
  <2>2. /\ \A v \in Workers : Said(v)' = Said(v) /\ (Failing(v)' <=> Failing(v))
        /\ Reported' <=> Reported
    BY <2>1 DEF Said, Failing, In, Reported
  <2>3. \/ /\ boot[w] = "resolved" /\ call' = [call EXCEPT ![r] = "pending"]
           /\ todo' = [todo EXCEPT ![w] = @ \cup {r}]
        \/ call' = [call EXCEPT ![r] = "booting"] /\ todo' = todo
    BY <1>2 DEF RequestShares
  <2> HIDE DEF w
  <2>4. /\ \A q \in Requests : q # r => call'[q] = call[q] /\ on'[q] = on[q]
        /\ on'[r] = w /\ call'[r] \in {"booting", "pending"}
    BY <2>1, <2>3 DEF TypeInv
  <2>5. \A v \in Workers : \A q \in todo[v] : q \in Requests /\ q # r
    BY <2>1 DEF PostedInv, WorkerAt, TypeInv
  <2>6. ASSUME NEW v \in Workers
        PROVE  todo[v] \subseteq todo'[v] /\ todo'[v] \subseteq todo[v] \cup {r}
    <3>1. CASE todo' = todo
      BY <3>1
    <3>2. CASE todo' = [todo EXCEPT ![w] = @ \cup {r}]
      <4>1. todo'[v] = IF v = w THEN todo[v] \cup {r} ELSE todo[v]
        BY <3>2 DEF TypeInv
      <4> QED BY <4>1
    <3> QED BY <2>3, <3>1, <3>2
  <2>7. \A v \in Workers : r \in todo'[v] => v = w /\ call'[r] = "pending"
    BY <2>1, <2>3, <2>5 DEF TypeInv
  <2>8. ASSUME NEW v \in Workers PROVE WorkerAt(v)'
    BY <2>1, <2>2, <2>4, <2>5, <2>6, <2>7 DEF PostedInv, WorkerAt
  <2>9. ASSUME NEW q \in Requests, q # r PROVE AskedAt(q)'
    <3> SUFFICES ASSUME call'[q] = "pending" PROVE AskedAt(q)'
      BY DEF AskedAt
    <3>1. call[q] = "pending" /\ on'[q] = on[q]
      BY <2>4, <2>9
    <3>2. on[q] \in Workers /\ boot[on[q]] = "resolved" /\ (Reported => Heard(q))
      BY <3>1 DEF PostedInv, AskedAt
    <3>3. Heard(q) => Heard(q)'
      BY <2>1, <2>2, <2>6, <3>1, <3>2 DEF Heard, Answer, Said, Failing
    <3> QED BY <2>1, <2>2, <3>1, <3>2, <3>3 DEF AskedAt
  <2>10. AskedAt(r)'
    <3> SUFFICES ASSUME call'[r] = "pending" PROVE AskedAt(r)'
      BY DEF AskedAt
    <3>1. boot[w] = "resolved" /\ r \in todo'[w]
      BY <2>1, <2>3 DEF TypeInv
    <3>2. worker[w] = "up" \/ (worker[w] = "dead" /\ (Reported => Failing(w)))
      BY <2>1, <3>1 DEF PostedInv, WorkerAt, w
    <3>3. Reported => Heard(r)'
      BY <2>1, <2>2, <2>4, <3>1, <3>2 DEF Heard, Failing, Said
    <3> QED BY <2>1, <2>2, <2>4, <3>1, <3>3 DEF AskedAt
  <2> QED BY <2>8, <2>9, <2>10 DEF PostedInv
<1>3. ASSUME NEW w \in Workers, StepOf(w) PROVE PostedInv'
  BY <1>3, WorkerAsks
<1>4. CASE UNCHANGED vars
  <2>1. /\ \A v \in Workers : Said(v)' = Said(v) /\ (Failing(v)' <=> Failing(v))
        /\ Reported' <=> Reported
    BY <1>4 DEF vars, Said, Failing, In, Reported
  <2>2. \A v \in Workers : WorkerAt(v)'
    BY <1>4, <2>1 DEF vars, PostedInv, WorkerAt
  <2>3. ASSUME NEW q \in Requests PROVE AskedAt(q)'
    BY <1>4, <2>1, <2>3 DEF vars, PostedInv, AskedAt, Heard, Answer, Said, Failing
  <2> QED BY <2>2, <2>3 DEF PostedInv
<1> QED BY <1>1, <1>2, <1>3, <1>4 DEF Next, StepOf

-----------------------------------------------------------------------------
(* The second theorem.                                                     *)

\* A service whose worker errors are reported strands nobody: see NoneStranded and
\* FreshWorker.
NobodyLeft == Reported => NoneStranded /\ FreshWorker

AInv == TypeInv /\ BootInv /\ QueueInv /\ PostedInv

LEMMA AskInitially == Init => AInv
<1> SUFFICES ASSUME Init PROVE AInv
  OBVIOUS
<1>1. TypeInv /\ BootInv
  BY Initially DEF IInv
<1>2. \A w \in Workers : Said(w) = {} /\ ~ Failing(w)
  BY DEF Init, Said, In, Failing
<1>3. QueueInv
  BY <1>2 DEF Init, QueueInv, QueueAt
<1>4. PostedInv
  BY WorkersAssumption DEF Init, PostedInv, WorkerAt, AskedAt, Workers
<1> QED BY <1>1, <1>3, <1>4 DEF AInv

LEMMA AskInductive == AInv /\ [Next]_vars => AInv'
BY TypedStep, BootStep, QueueStep, AskStep DEF AInv

LEMMA NobodyLeftNow == AInv => NobodyLeft
<1> SUFFICES ASSUME AInv, Reported PROVE NoneStranded /\ FreshWorker
  BY DEF NobodyLeft
<1>1. \A w \in Workers : Failing(w) => Coming(w, "error")
  BY DEF Failing, Said, In, Coming
<1>2. ASSUME NEW r \in Requests, call[r] = "pending"
      PROVE  \/ worker[on[r]] = "up" /\ r \in todo[on[r]]
             \/ Coming(on[r], "error")
             \/ \E i \in 1..Len(news[on[r]]) : news[on[r]][i] = Answer(r)
  <2>1. on[r] \in Workers /\ Heard(r)
    BY <1>2 DEF AInv, PostedInv, AskedAt
  <2> QED BY <1>1, <2>1 DEF Heard, Said, In
<1>3. NoneStranded
  BY <1>2 DEF NoneStranded, Pending
<1>4. ASSUME workerP # 0, worker[workerP] = "dead" PROVE Coming(workerP, "error")
  <2>1. workerP \in Workers
    BY <1>4, WorkersAssumption DEF AInv, TypeInv, Workers
  <2> QED BY <1>1, <1>4, <2>1 DEF AInv, PostedInv, WorkerAt
<1> QED BY <1>3, <1>4 DEF FreshWorker

\* In every run of the simulator, whatever its worker dies of, and of the exporter
\* as long as its workers die only while they load: a request that was posted will
\* be served by a worker that is up, or its answer or the error that fails it is on
\* its way, and a worker that died is bound no longer than until its error is
\* handled (onerror in ngspice-service.ts and occ-service.ts).  That occ-service.ts
\* handles only the errors of a boot is what the hypothesis is about.
THEOREM NobodyStranded == Spec => [](Reported => NoneStranded /\ FreshWorker)
<1>1. Init => AInv
  BY AskInitially
<1>2. AInv /\ [Next]_vars => AInv'
  BY AskInductive
<1>3. AInv => NobodyLeft
  BY NobodyLeftNow
<1>4. NobodyLeft <=> (Reported => NoneStranded /\ FreshWorker)
  BY DEF NobodyLeft
<1> QED BY <1>1, <1>2, <1>3, <1>4, PTL DEF Spec

\* Every state is of the declared types, and the page is bound to a worker that is
\* booting or up (WorkerService!TypeOK).
THEOREM TypeCorrect == Spec => []TypeOK
<1>1. Init => AInv
  BY AskInitially
<1>2. AInv /\ [Next]_vars => AInv'
  BY AskInductive
<1>3. AInv => TypeOK
  <2> SUFFICES ASSUME AInv PROVE TypeOK
    OBVIOUS
  <2>1. ASSUME NEW w \in Workers, NEW i \in 1..Len(news[w])
        PROVE  news[w][i].kind \in {"ready", "bootError", "answer", "event", "error"}
    <3>1. news[w][i] \in Messages
      BY <2>1 DEF AInv, TypeInv
    <3> QED BY <3>1 DEF Messages, Notes, Answers, Events
  <2>2. workerP # 0 => boot[workerP] \in {"open", "resolved"}
    BY WorkersAssumption DEF AInv, TypeInv, PostedInv, WorkerAt, Workers
  <2> QED BY <2>1, <2>2 DEF AInv, TypeInv, TypeOK
<1> QED BY <1>1, <1>2, <1>3, PTL DEF Spec
=============================================================================
