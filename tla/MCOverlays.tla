----------------------------- MODULE MCOverlays -----------------------------
(* Overlays with threads on two sheets, two tabs whose canvases differ in  *)
(* shape, and five fingers, two of them beside the canvas.                 *)
EXTENDS Overlays
=============================================================================
