-------------------------- MODULE MCUbertraceClient --------------------------
(* Instances of UbertraceClient for TLC.                                    *)
EXTENDS UbertraceClient, TLC

CONSTANTS rgp, rra

NoAuto      == [u \in Users |-> "none"]
DelayedAuto == [u \in Users |-> "delayed"]
AutoNow     == [u \in Users |-> "now"]

==============================================================================
