----------------------- MODULE MCUbertraceOrchestrator -----------------------
(* Instances of UbertraceOrchestrator for TLC: users are model values.      *)
EXTENDS UbertraceOrchestrator, TLC

CONSTANTS rgp, rra

==============================================================================
