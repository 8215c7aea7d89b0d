--------------------------- MODULE MCWorkerService --------------------------
(* WorkerService for three or four requests and two or three workers. *)
EXTENDS WorkerService

FourRequests == 1..4
ThreeRequests == 1..3
RunAndHalt == [r \in Requests |-> CASE r = 1 -> "bg_run" [] r = 2 -> "bg_halt" [] r = 4 -> "bg_run" [] OTHER -> "query"]

\* The crashes each provider handles, and one that ngspice's does not.
HandledCrashes == [s \in Services |-> IF s = "ngspice" THEN {"up"} ELSE {"loading"}]
BootCrashes == [s \in Services |-> {"loading"}]
=============================================================================
