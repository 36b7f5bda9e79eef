--------------------------- MODULE MCOverlayManager ---------------------------
(* Values for the model checking of OverlayManager.                        *)
EXTENDS OverlayManager

CONSTANTS c1, c2
==============================================================================
