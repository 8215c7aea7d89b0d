--------------------------- MODULE SerialExecutor ---------------------------
(***************************************************************************)
(* What the editor bridge promises about the bodies handed to runOnFiber   *)
(* (src/wasm/bindings/collab_common.h): they run strictly one at a time,   *)
(* in the order they were submitted, each to completion.  How parking,     *)
(* draining and reaping achieve it is the business of module FiberQueue,   *)
(* which implements this one.                                              *)
(***************************************************************************)
EXTENDS Sequences

CONSTANTS Bodies,   \* the closures handed to runOnFiber
          NoBody    \* "no body in flight"

VARIABLES pending,  \* submitted, not yet started
          current,  \* the body in flight, or NoBody
          finished  \* the bodies that ran to completion, in that order

vars == <<pending, current, finished>>

Init == /\ pending = <<>>
        /\ current = NoBody
        /\ finished = <<>>

Submit(b) == /\ pending' = Append(pending, b)
             /\ UNCHANGED <<current, finished>>

Start == /\ current = NoBody
         /\ pending # <<>>
         /\ current' = Head(pending)
         /\ pending' = Tail(pending)
         /\ UNCHANGED finished

Finish == /\ current # NoBody
          /\ finished' = Append(finished, current)
          /\ current' = NoBody
          /\ UNCHANGED pending

\* A body may hand further bodies to runOnFiber as its last act.
Next == (\E b \in Bodies : Submit(b)) \/ Start \/ Finish

Spec == Init /\ [][Next]_vars
=============================================================================
