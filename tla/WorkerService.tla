---------------------------- MODULE WorkerService ---------------------------
(***************************************************************************)
(* The lazy worker services: ngspice-service.ts (the simulator) and        *)
(* occ-service.ts (3D export), with their workers (ngspice-worker.js,      *)
(* occ-worker.js) and, for ngspice, the editor's mirror of the background  *)
(* run (sharedspice_client.cpp).  The first request boots a worker, later  *)
(* ones share it; the editor stays suspended until its request is settled. *)
(* They differ in the error handler: ngspice's outlives the boot and       *)
(* resets the service on any worker error, occ's only fails a boot.        *)
(***************************************************************************)
EXTENDS Naturals, Sequences, FiniteSets

CONSTANTS
  Requests,
  Command,      \* Command[r]: "bg_run", "bg_halt" or "query", of the simulator
  CrashPhases,  \* CrashPhases[s]: when workers of s crash, "loading" or "up"
  MaxWorkers    \* bound: workers booted in a session

Services == {"ngspice", "occ"}

ASSUME CommandAssumption == Command \in [Requests -> {"bg_run", "bg_halt", "query"}]
ASSUME CrashAssumption == CrashPhases \in [Services -> SUBSET {"loading", "up"}]
ASSUME WorkersAssumption == MaxWorkers \in Nat

Workers == 1 .. MaxWorkers

VARIABLES
  service,   \* the service this session is about
  call,      \* call[r]: "idle", "booting" (awaits a boot), "pending", "done", "failed"
  on,        \* on[r]: the worker a request awaits or is pending on, 0 before
  workerP,   \* the worker of the boot promise, 0 when null
  boot,      \* boot[w]: "none", "open", "resolved" or "rejected"
  worker,    \* worker[w]: "none", "resolving", "loading", "up", "failed" or "dead"
  todo,      \* todo[w]: requests posted to w
  news,      \* news[w]: what w posted, and the page has not handled
  running,   \* running[w]: "no", "starting" or "yes", the background run
  mirror     \* s_bgRunning

vars == <<service, call, on, workerP, boot, worker, todo, news, running, mirror>>

Init == /\ service \in Services
        /\ call = [r \in Requests |-> "idle"]
        /\ on = [r \in Requests |-> 0]
        /\ workerP = 0
        /\ boot = [w \in Workers |-> "none"]
        /\ worker = [w \in Workers |-> "none"]
        /\ todo = [w \in Workers |-> {}]
        /\ news = [w \in Workers |-> <<>>]
        /\ running = [w \in Workers |-> "no"]
        /\ mirror = FALSE

Booting(w) == {r \in Requests : call[r] = "booting" /\ on[r] = w}
\* Of the calls of the ngspice API only bg_run and bg_halt bear on the run state;
\* any other one (circuit, vectors, plots) asks and is answered, as an export is.
CommandOf(r) == IF service = "ngspice" THEN Command[r] ELSE "query"
Pending == {r \in Requests : call[r] = "pending"}
Settled(S, outcome) == [r \in Requests |-> IF r \in S THEN outcome ELSE call[r]]

\* Mutant: the rejected promise is kept.
RejectedKept(w) == /\ boot' = [boot EXCEPT ![w] = "rejected"]
                   /\ call' = Settled(Booting(w), "failed")
                   /\ workerP' = workerP

\* Mutant: nobody who awaits the boot learns of its failure.
RejectedSilently(w) == /\ boot' = [boot EXCEPT ![w] = "rejected"]
                       /\ workerP' = 0
                       /\ UNCHANGED call

\* The boot promise rejects: everyone who awaits it fails, a later request
\* boots again.
Rejected(w) == /\ boot' = [boot EXCEPT ![w] = "rejected"]
               /\ call' = Settled(Booting(w), "failed")
               /\ workerP' = 0

-----------------------------------------------------------------------------
(* The page: request, ensureWorker and the handlers of the worker.         *)

\* The first request, or the first after a reset, boots a worker.
RequestBoots(r) ==
  /\ call[r] = "idle" /\ workerP = 0
  /\ \E w \in Workers : /\ boot[w] = "none" /\ \A v \in 1..(w - 1) : boot[v] # "none"
                        /\ workerP' = w
                        /\ boot' = [boot EXCEPT ![w] = "open"]
                        /\ worker' = [worker EXCEPT ![w] = "resolving"]
                        /\ on' = [on EXCEPT ![r] = w]
  /\ call' = [call EXCEPT ![r] = "booting"]
  /\ UNCHANGED <<service, todo, news, running, mirror>>

\* A request during the boot awaits the same promise; one after it is posted.
RequestShares(r) ==
  /\ call[r] = "idle" /\ workerP # 0
  /\ on' = [on EXCEPT ![r] = workerP]
  /\ IF boot[workerP] = "resolved"
       THEN /\ call' = [call EXCEPT ![r] = "pending"]
            /\ todo' = [todo EXCEPT ![workerP] = @ \cup {r}]
       ELSE /\ call' = [call EXCEPT ![r] = "booting"]
            /\ UNCHANGED todo
  /\ UNCHANGED <<service, workerP, boot, worker, news, running, mirror>>

\* resolveWasmBase, which may fail before there is a worker.
ResolveFails(w) ==
  /\ worker[w] = "resolving"
  /\ worker' = [worker EXCEPT ![w] = "dead"]
  /\ Rejected(w)
  /\ UNCHANGED <<service, on, todo, news, running, mirror>>

Resolve(w) ==
  /\ worker[w] = "resolving"
  /\ worker' = [worker EXCEPT ![w] = "loading"]
  /\ UNCHANGED <<service, call, on, workerP, boot, todo, news, running, mirror>>

Handled(w, what) == news[w] # <<>> /\ Head(news[w]).kind = what
Consumed(w) == [news EXCEPT ![w] = Tail(@)]

\* The boot resolves: every request that awaits it is posted.
OnReady(w) ==
  /\ Handled(w, "ready")
  /\ boot' = [boot EXCEPT ![w] = "resolved"]
  /\ call' = Settled(Booting(w), "pending")
  /\ todo' = [todo EXCEPT ![w] = @ \cup Booting(w)]
  /\ news' = Consumed(w)
  /\ UNCHANGED <<service, on, workerP, worker, running, mirror>>

OnBootError(w) ==
  /\ Handled(w, "bootError")
  /\ Rejected(w)
  /\ news' = Consumed(w)
  /\ UNCHANGED <<service, on, worker, todo, running, mirror>>

\* An answer; the editor sets its mirror when a bg_run was accepted.
OnAnswer(w) ==
  /\ Handled(w, "answer")
  /\ LET r == Head(news[w]).request
     IN /\ call' = IF r \in Pending THEN [call EXCEPT ![r] = "done"] ELSE call
        /\ mirror' = (mirror \/ (r \in Pending /\ CommandOf(r) = "bg_run"))
  /\ news' = Consumed(w)
  /\ UNCHANGED <<service, on, workerP, boot, worker, todo, running>>

\* A BGThreadRunning event sets the mirror either way.
OnEvent(w) ==
  /\ Handled(w, "event")
  /\ mirror' = Head(news[w]).running
  /\ news' = Consumed(w)
  /\ UNCHANGED <<service, call, on, workerP, boot, worker, todo, running>>

\* Mutant: the reset forgets what is in flight.
OnErrorResetQuietly(w) ==
  /\ call' = call
  /\ workerP' = 0
  /\ worker' = [worker EXCEPT ![w] = "dead"]
  /\ news' = [news EXCEPT ![w] = <<>>]
  /\ UNCHANGED boot

\* Mutant: the reset keeps the boot promise of the dead worker.
OnErrorResetKept(w) ==
  /\ call' = Settled(Pending, "failed")
  /\ worker' = [worker EXCEPT ![w] = "dead"]
  /\ news' = [news EXCEPT ![w] = <<>>]
  /\ UNCHANGED <<boot, workerP>>

\* ngspice: fail all that is pending, forget and terminate the worker.
OnErrorReset(w) ==
  /\ call' = Settled(Pending, "failed")
  /\ workerP' = 0
  /\ worker' = [worker EXCEPT ![w] = "dead"]
  /\ news' = [news EXCEPT ![w] = <<>>]
  /\ UNCHANGED boot

\* occ: reject the boot, which does nothing once the boot is over.
OnErrorReject(w) ==
  /\ IF boot[w] = "open" THEN Rejected(w) ELSE UNCHANGED <<boot, call, workerP>>
  /\ worker' = [worker EXCEPT ![w] = "dead"]
  /\ news' = Consumed(w)

OnError(w) ==
  /\ Handled(w, "error")
  /\ IF service = "ngspice" THEN OnErrorReset(w) ELSE OnErrorReject(w)
  /\ UNCHANGED <<service, on, todo, running, mirror>>

-----------------------------------------------------------------------------
(* The worker.                                                             *)

Posted(w, s) == [news EXCEPT ![w] = @ \o s]
Message(kind) == [kind |-> kind]
Answer(r) == [kind |-> "answer", request |-> r]
Event(b) == [kind |-> "event", running |-> b]

Load(w) ==
  /\ worker[w] = "loading"
  /\ \/ /\ worker' = [worker EXCEPT ![w] = "up"] /\ news' = Posted(w, <<Message("ready")>>)
     \/ /\ worker' = [worker EXCEPT ![w] = "failed"] /\ news' = Posted(w, <<Message("bootError")>>)
  /\ UNCHANGED <<service, call, on, workerP, boot, todo, running, mirror>>

\* onmessage: a bg_run starts the thread, a bg_halt waits for its end.
Serve(w) ==
  /\ worker[w] = "up"
  /\ \E r \in todo[w] :
       /\ todo' = [todo EXCEPT ![w] = @ \ {r}]
       /\ CASE CommandOf(r) = "bg_run" ->
                 /\ running' = IF running[w] = "no" THEN [running EXCEPT ![w] = "starting"]
                                                    ELSE running
                 /\ news' = Posted(w, <<Answer(r)>>)
            [] CommandOf(r) = "bg_halt" ->
                 /\ running' = [running EXCEPT ![w] = "no"]
                 /\ news' = Posted(w, (IF running[w] = "no" THEN <<>> ELSE <<Event(FALSE)>>)
                                        \o <<Answer(r)>>)
            [] OTHER -> running' = running /\ news' = Posted(w, <<Answer(r)>>)
  /\ UNCHANGED <<service, call, on, workerP, boot, worker, mirror>>

\* The background thread reports its start and its end.
BgStart(w) ==
  /\ worker[w] = "up" /\ running[w] = "starting"
  /\ running' = [running EXCEPT ![w] = "yes"]
  /\ news' = Posted(w, <<Event(TRUE)>>)
  /\ UNCHANGED <<service, call, on, workerP, boot, worker, todo, mirror>>

\* Mutant: the end of a run is not reported.
BgFinishQuietly(w) ==
  /\ worker[w] = "up" /\ running[w] = "yes"
  /\ running' = [running EXCEPT ![w] = "no"]
  /\ UNCHANGED <<service, call, on, workerP, boot, worker, todo, news, mirror>>

BgFinish(w) ==
  /\ worker[w] = "up" /\ running[w] = "yes"
  /\ running' = [running EXCEPT ![w] = "no"]
  /\ news' = Posted(w, <<Event(FALSE)>>)
  /\ UNCHANGED <<service, call, on, workerP, boot, worker, todo, mirror>>

\* An uncaught error: the worker and its run end, what it posted stands.
Crash(w) ==
  /\ worker[w] \in CrashPhases[service]
  /\ worker' = [worker EXCEPT ![w] = "dead"]
  /\ running' = [running EXCEPT ![w] = "no"]
  /\ todo' = [todo EXCEPT ![w] = {}]
  /\ news' = Posted(w, <<Message("error")>>)
  /\ UNCHANGED <<service, call, on, workerP, boot, mirror>>

Page(w) == \/ ResolveFails(w) \/ Resolve(w)
           \/ OnReady(w) \/ OnBootError(w) \/ OnAnswer(w) \/ OnEvent(w) \/ OnError(w)

Background(w) == BgStart(w) \/ BgFinish(w)

Next == \/ \E r \in Requests : RequestBoots(r) \/ RequestShares(r)
        \/ \E w \in Workers : Page(w) \/ Load(w) \/ Serve(w) \/ Background(w) \/ Crash(w)

\* Messages are handled, a worker loads or fails and answers what it gets.
Fairness == \A w \in Workers : /\ WF_vars(Page(w))
                               /\ WF_vars(Load(w))
                               /\ WF_vars(Serve(w))

Spec == Init /\ [][Next]_vars
FairSpec == Spec /\ Fairness

-----------------------------------------------------------------------------
TypeOK ==
  /\ service \in Services
  /\ call \in [Requests -> {"idle", "booting", "pending", "done", "failed"}]
  /\ on \in [Requests -> 0..MaxWorkers]
  /\ workerP \in 0..MaxWorkers
  /\ boot \in [Workers -> {"none", "open", "resolved", "rejected"}]
  /\ worker \in [Workers -> {"none", "resolving", "loading", "up", "failed", "dead"}]
  /\ todo \in [Workers -> SUBSET Requests]
  /\ \A w \in Workers : \A i \in 1..Len(news[w]) :
       news[w][i].kind \in {"ready", "bootError", "answer", "event", "error"}
  /\ running \in [Workers -> {"no", "starting", "yes"}]
  /\ mirror \in BOOLEAN
  /\ workerP # 0 => boot[workerP] \in {"open", "resolved"}

Coming(w, kind) == \E i \in 1..Len(news[w]) : news[w][i].kind = kind

(***************************************************************************)
(* No request is stranded in a dead worker: a pending request is still to  *)
(* be served by a live worker, or its answer or the error that will fail   *)
(* it is on its way.                                                       *)
(***************************************************************************)
NoneStranded ==
  \A r \in Pending : LET w == on[r] IN
     \/ worker[w] = "up" /\ r \in todo[w]
     \/ Coming(w, "error")
     \/ \E i \in 1..Len(news[w]) : news[w][i] = Answer(r)

(***************************************************************************)
(* A worker that has died, once the page knows, is never the one later     *)
(* requests are sent to.                                                   *)
(***************************************************************************)
FreshWorker == workerP # 0 /\ worker[workerP] = "dead" => Coming(workerP, "error")

(***************************************************************************)
(* Whoever calls the service is answered, with a result or with an error:  *)
(* the editor is not suspended for ever.                                   *)
(***************************************************************************)
EveryRequestSettles ==
  \A r \in Requests : call[r] \in {"booting", "pending"} ~> call[r] \in {"done", "failed"}

(***************************************************************************)
(* When nothing is under way the editor's mirror of the run state is the   *)
(* simulator's, unless a worker died and took the end of its run with it.  *)
(***************************************************************************)
MirrorAgrees ==
  (\A w \in Workers : /\ news[w] = <<>> /\ todo[w] = {}
                      /\ running[w] # "starting" /\ worker[w] # "dead")
    => mirror = \E w \in Workers : running[w] = "yes"
=============================================================================
