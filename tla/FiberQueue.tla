----------------------------- MODULE FiberQueue -----------------------------
(***************************************************************************)
(* The serialized fiber executor of the C++ editor bridge:                 *)
(* src/wasm/bindings/collab_common.h, fiberQueue / fiberBusy / FiberSlot / *)
(* reapFiber / drainFibers / runOnFiber.                                   *)
(*                                                                         *)
(* Every board commit, snapshot diff and remote apply of the collaboration *)
(* bridge is a closure ("body") queued by runOnFiber and started by        *)
(* drainFibers on a libcontext fiber.  A body may PARK: an asyncify        *)
(* suspension inside commit.Push makes COROUTINE::Call return early while  *)
(* the body is still in flight; the rewind later re-enters the same heap   *)
(* objects.  Only FiberSlot::done says that the body is over.              *)
(*                                                                         *)
(* The program is single-threaded: an event handler of the main loop runs  *)
(* until it returns, and a running fiber excludes the main loop until it   *)
(* parks or ends.                                                          *)
(***************************************************************************)
EXTENDS Naturals, Sequences

CONSTANTS Bodies,    \* the closures that may be submitted, each at most once
          NoBody,    \* FiberSlot::body == nullptr
          MaxParks   \* how often one body may suspend before it returns

ASSUME BodiesAssumption == NoBody \notin Bodies
ASSUME MaxParksAssumption == MaxParks \in Nat

VARIABLES
  queue,     \* fiberQueue()
  busy,      \* fiberBusy()
  slot,      \* activeFiberSlot(): the pinned body and its done flag
  ticks,     \* drainFibers calls pending on the CallAfter event list
  draining,  \* a drainFibers frame is inside its while loop
  fiber,     \* what the fiber stack is doing: "idle", "running" or "parked"
  parks,     \* how often the body in flight has parked
  fresh,     \* bodies nobody submitted yet
  finished   \* history: bodies in the order in which they completed

vars == <<queue, busy, slot, ticks, draining, fiber, parks, fresh, finished>>

Slots == [body : Bodies \cup {NoBody}, done : BOOLEAN]
NoSlot == [body |-> NoBody, done |-> FALSE]

Init == /\ queue = <<>>
        /\ busy = FALSE
        /\ slot = NoSlot
        /\ ticks = 0
        /\ draining = FALSE
        /\ fiber = "idle"
        /\ parks = 0
        /\ fresh = Bodies
        /\ finished = <<>>

(***************************************************************************)
(* runOnFiber: queue the body and one more drain.  Called from JS entry    *)
(* points and event handlers (the main loop is between two handlers, a     *)
(* body may be parked) and by the running body itself, e.g. scheduleFlush  *)
(* at the end of an apply.                                                 *)
(***************************************************************************)
RunOnFiber(b) ==
  /\ b \in fresh
  /\ draining => fiber = "running"
  /\ fresh' = fresh \ {b}
  /\ queue' = Append(queue, b)
  /\ ticks' = ticks + 1
  /\ UNCHANGED <<busy, slot, draining, fiber, parks, finished>>

\* reapFiber: free the coroutine and the body, release the flag.
Reap == /\ slot' = NoSlot
        /\ busy' = FALSE

\* Mutant: a drain nobody put on the event list.
DrainEventUnasked == /\ ~draining
                     /\ fiber # "running"
                     /\ ticks' = ticks - 1

\* The main loop dispatches a queued drain while no fiber is executing.
DrainEvent == /\ ticks > 0
              /\ ~draining
              /\ fiber # "running"
              /\ ticks' = ticks - 1

\* drainFibers, first test: a body is in flight, its tail will drain again.
DrainNoop ==
  /\ DrainEvent
  /\ busy /\ ~slot.done
  /\ UNCHANGED <<queue, busy, slot, draining, fiber, parks, fresh, finished>>

\* Mutant: the busy flag is not consulted (a coroutine per drain).
DrainEnterUnguarded ==
  /\ DrainEvent
  /\ IF busy THEN Reap ELSE UNCHANGED <<busy, slot>>
  /\ draining' = TRUE
  /\ UNCHANGED <<queue, fiber, parks, fresh, finished>>

\* Mutant: the flag alone decides, a body completed by a rewind is not reaped.
DrainEnterIfIdle ==
  /\ DrainEvent
  /\ ~busy
  /\ draining' = TRUE
  /\ UNCHANGED <<queue, busy, slot, fiber, parks, fresh, finished>>

\* drainFibers: nothing in flight, or the last body completed by a rewind.
DrainEnter ==
  /\ DrainEvent
  /\ ~busy \/ slot.done
  /\ IF busy THEN Reap ELSE UNCHANGED <<busy, slot>>
  /\ draining' = TRUE
  /\ UNCHANGED <<queue, fiber, parks, fresh, finished>>

\* Loop body: pin the front body in the slot and switch to its fiber.
StartNext ==
  /\ draining /\ ~busy
  /\ queue # <<>>
  /\ busy' = TRUE
  /\ slot' = [body |-> Head(queue), done |-> FALSE]
  /\ queue' = Tail(queue)
  /\ fiber' = "running"
  /\ parks' = 0
  /\ UNCHANGED <<ticks, draining, fresh, finished>>

\* Call() returned with done set: reap and go round the loop.
ReapInLoop ==
  /\ draining /\ busy /\ slot.done
  /\ Reap
  /\ UNCHANGED <<queue, ticks, draining, fiber, parks, fresh, finished>>

\* Loop exit: the queue is empty.
DrainExit ==
  /\ draining /\ ~busy
  /\ queue = <<>>
  /\ draining' = FALSE
  /\ UNCHANGED <<queue, busy, slot, ticks, fiber, parks, fresh, finished>>

\* Mutant: Call() returning is taken for completion and the slot is freed.
ParkReaping ==
  /\ fiber = "running"
  /\ parks < MaxParks
  /\ parks' = parks + 1
  /\ fiber' = "parked"
  /\ draining' = FALSE
  /\ Reap
  /\ UNCHANGED <<queue, ticks, fresh, finished>>

\* Asyncify suspension inside the body.  If a drain called it, Call()
\* returns early with done unset and the drain returns too.
Park ==
  /\ fiber = "running"
  /\ parks < MaxParks
  /\ parks' = parks + 1
  /\ fiber' = "parked"
  /\ draining' = FALSE
  /\ UNCHANGED <<queue, busy, slot, ticks, fresh, finished>>

\* The awaited event arrives and asyncify rewinds the body from the main loop.
Rewind ==
  /\ fiber = "parked"
  /\ ~draining
  /\ fiber' = "running"
  /\ UNCHANGED <<queue, busy, slot, ticks, draining, parks, fresh, finished>>

\* Mutant: the fiber tail does not schedule another drain.
FinishBodySilently ==
  /\ fiber = "running"
  /\ slot' = [slot EXCEPT !.done = TRUE]
  /\ finished' = Append(finished, slot.body)
  /\ fiber' = "idle"
  /\ UNCHANGED <<queue, busy, ticks, draining, parks, fresh>>

\* The tail of the fiber wrapper: done, then one more drain.
FinishBody ==
  /\ fiber = "running"
  /\ slot' = [slot EXCEPT !.done = TRUE]
  /\ finished' = Append(finished, slot.body)
  /\ ticks' = ticks + 1
  /\ fiber' = "idle"
  /\ UNCHANGED <<queue, busy, draining, parks, fresh>>

Drain == DrainNoop \/ DrainEnter \/ StartNext \/ ReapInLoop \/ DrainExit

Next == \/ \E b \in Bodies : RunOnFiber(b)
        \/ Drain
        \/ Park \/ Rewind \/ FinishBody

(***************************************************************************)
(* The main loop drains its event list every frame, an awaited promise     *)
(* settles, and a body that is not parked returns.  Nobody has to submit   *)
(* work, and nothing has to park.                                          *)
(***************************************************************************)
Fairness == WF_vars(Drain) /\ WF_vars(Rewind) /\ WF_vars(FinishBody)

Spec == Init /\ [][Next]_vars
FairSpec == Spec /\ Fairness

-----------------------------------------------------------------------------
TypeOK == /\ queue \in Seq(Bodies)
          /\ busy \in BOOLEAN
          /\ slot \in Slots
          /\ ticks \in Nat
          /\ draining \in BOOLEAN
          /\ fiber \in {"idle", "running", "parked"}
          /\ parks \in 0 .. MaxParks
          /\ fresh \subseteq Bodies
          /\ finished \in Seq(Bodies \cup {NoBody})

(***************************************************************************)
(* The heap objects a fiber will touch stay pinned for the body's whole    *)
(* life: while the stack of a body exists, running or parked, the slot     *)
(* holds that body, it is not marked done, and the busy flag keeps every   *)
(* other drain out ("the rewind called through freed objects", finding     *)
(* #10b in collab_common.h).                                               *)
(***************************************************************************)
SlotPinned ==
  fiber # "idle" => /\ busy
                    /\ slot.body \in Bodies
                    /\ ~slot.done

(***************************************************************************)
(* No lost wake-up: whenever work is queued, or a completed body waits to  *)
(* be reaped, somebody is certain to look: a drain is in its loop, one is  *)
(* on the event list, or a body is in flight whose tail schedules one.     *)
(***************************************************************************)
NoLostWakeup ==
  (queue # <<>> \/ (busy /\ slot.done)) =>
     draining \/ ticks > 0 \/ fiber # "idle"

(***************************************************************************)
(* Every submitted body eventually completes, whatever parks and whatever  *)
(* is submitted meanwhile.                                                 *)
(***************************************************************************)
EveryBodyFinishes ==
  \A b \in Bodies :
     (b \notin fresh) ~> (\E i \in DOMAIN finished : finished[i] = b)

\* The executor implements the promise: FIFO, one body at a time.
InFlight == IF busy /\ ~slot.done THEN slot.body ELSE NoBody

Serial == INSTANCE SerialExecutor WITH pending <- queue, current <- InFlight

RunsSerially == Serial!Spec
=============================================================================
