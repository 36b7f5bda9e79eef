--------------------------- MODULE CaptureSequence ---------------------------
(***************************************************************************)
(* What an UbertraceOrchestrator promises the trace sources that share it: *)
(* captures are taken one at a time, a capture accepted while another is   *)
(* still being reported waits for it, and every accepted capture is        *)
(* reported to the user that asked for it, exactly once and before the     *)
(* next one starts.                                                        *)
(***************************************************************************)
EXTENDS Naturals

CONSTANTS Users, NoUser

VARIABLES
  current,   \* whose capture is being taken
  waiting,   \* whose accepted capture waits for the current one
  accepted,  \* captures accepted, per user
  reported   \* captures reported as completed, aborted or failed, per user

captureVars == <<current, waiting, accepted, reported>>

Init ==
  /\ current = NoUser
  /\ waiting = NoUser
  /\ accepted = [u \in Users |-> 0]
  /\ reported = [u \in Users |-> 0]

Accept(u) == accepted' = [accepted EXCEPT ![u] = @ + 1]

Start(u) ==
  /\ current = NoUser /\ waiting = NoUser
  /\ Accept(u)
  /\ current' = u
  /\ UNCHANGED <<waiting, reported>>

Queue(u) ==
  /\ waiting = NoUser
  /\ Accept(u)
  /\ waiting' = u
  /\ UNCHANGED <<current, reported>>

Dequeue ==
  /\ current = NoUser /\ waiting # NoUser
  /\ current' = waiting
  /\ waiting' = NoUser
  /\ UNCHANGED <<accepted, reported>>

Report ==
  /\ current # NoUser
  /\ reported' = [reported EXCEPT ![current] = @ + 1]
  /\ current' = NoUser
  /\ UNCHANGED <<waiting, accepted>>

Next == (\E u \in Users : Start(u) \/ Queue(u)) \/ Dequeue \/ Report

Spec == Init /\ [][Next]_captureVars

==============================================================================
