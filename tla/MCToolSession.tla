---------------------------- MODULE MCToolSession ---------------------------
(* Writers of a schematic and of a board, with the API or the room as source, *)
(* one that opted out of collaboration, and viewers of each.                   *)
EXTENDS ToolSession

Kind(tool, readOnly, ydoc, optOut, lockable) ==
  [tool |-> tool, readOnly |-> readOnly, ydoc |-> ydoc, optOut |-> optOut,
   lockable |-> lockable, able |-> tool # "calculator"]

MCKinds == { Kind("eeschema", FALSE, FALSE, FALSE, TRUE), Kind("pcbnew", FALSE, TRUE, TRUE, TRUE),
             Kind("eeschema", TRUE, TRUE, FALSE, TRUE),
             Kind("pcbnew", TRUE, FALSE, FALSE, TRUE), Kind("calculator", TRUE, FALSE, TRUE, FALSE) }
=============================================================================
