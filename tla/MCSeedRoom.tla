----------------------------- MODULE MCSeedRoom -----------------------------
(* SeedRoom for two or three tabs, with or without a viewer among them. *)
EXTENDS SeedRoom

ThreeTabs == {1, 2, 3}
TwoTabs == {1, 2}
OneViewer == {2}
NoViewer == {}

Parking == {"park"}
Leaving == {"park", "close"}
=============================================================================
