-------------------------- MODULE MCBaseTraceSource --------------------------
(* Instances of BaseTraceSource for TLC: connections are model values.      *)
EXTENDS BaseTraceSource

CONSTANTS c1, c2

==============================================================================
