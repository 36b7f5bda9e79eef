--------------------------- MODULE MCCaptureContext --------------------------
(* Instances of CaptureContext for TLC.                                     *)
EXTENDS CaptureContext

CONSTANTS c1, c2, p1, p2

(* Two connections of one process, or one connection of each.               *)
SameProcess  == [c \in Connections |-> p1]
EachProcess  == [c \in Connections |-> IF c = c1 THEN p1 ELSE p2]

==============================================================================
