--------------------------- MODULE MCSheetManager ---------------------------
(* SheetManager for two sheets, one of them the entry, and every disturbance. *)
EXTENDS SheetManager

CONSTANTS a, b

TwoSheets == {a, b}
EntryA == {a}
Hasty == {"hasty"}
=============================================================================
