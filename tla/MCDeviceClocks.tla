---------------------------- MODULE MCDeviceClocks ----------------------------
(* Values for the model checking of DeviceClocks.                          *)
EXTENDS DeviceClocks, TLC

CONSTANTS c1, c2

(* The connections are alike.                                              *)
Interchangeable == Permutations(Connections)
==============================================================================
