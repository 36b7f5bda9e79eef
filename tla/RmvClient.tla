------------------------------- MODULE RmvClient -------------------------------
(***************************************************************************)
(* The client of a memory trace. The driver records from the start of the    *)
(* application; the trace is ended and transferred once: when the user asks,  *)
(* or when the application goes. An abort ends it without a transfer.         *)
(*                                                                         *)
(* Calls of the user and of the driver's callbacks run in threads of their    *)
(* own and look at state_ without a lock. A call to the driver is one step.   *)
(* The driver ends a trace that runs and answers what its state is; it may   *)
(* refuse to begin one or to transfer it.                                  *)
(***************************************************************************)
EXTENDS Naturals, Sequences

CONSTANTS
  Users,       \* threads of the user
  Driver       \* the thread that tells of the driver's states and its end

Threads == Users \cup {Driver}
None == "none"

VARIABLES
  trace,       \* what the driver has: "off", "running", "ended", "cleared"
  state,       \* state_
  postInit,    \* has_reached_post_device_init_
  pc,          \* what each thread is doing
  reports,     \* what TraceCompleted was called with
  gone,        \* Disconnect has returned
  raced,       \* a call began while another was under way
  faulty       \* the driver refused something

vars == <<trace, state, postInit, pc, reports, gone, raced, faulty>>

Init ==
  /\ trace = "off" /\ state = "Idle" /\ postInit = FALSE
  /\ pc = [t \in Threads |-> None]
  /\ reports = <<>> /\ gone = FALSE /\ raced = FALSE /\ faulty = FALSE

------------------------------------------------------------------------------
(* GetMemoryTracingClientState.                                             *)
QueryStatus(s) == IF s = "running" THEN "Capturing" ELSE "Done"

Goto(t, at) == pc' = [pc EXCEPT ![t] = at]
Enter(t, at) ==
  /\ pc[t] = None /\ Goto(t, at)
  /\ raced' = (raced \/ \E o \in Threads : pc[o] # None)
Report(status) == reports' = Append(reports, status)

Initialize(ok) ==
  /\ trace = "off" /\ pc[Driver] = None /\ ~gone /\ ~faulty
  /\ trace' = IF ok THEN "running" ELSE trace
  /\ state' \in IF ok THEN {"Capturing"} ELSE {"Error", "Done"}
  /\ faulty' = ~ok
  /\ UNCHANGED <<postInit, pc, reports, gone, raced>>

(* HandleDriverState.                                                      *)
HandleDriverState ==
  /\ trace # "off" /\ pc[Driver] = None /\ ~gone /\ ~postInit
  /\ postInit' = TRUE
  /\ UNCHANGED <<trace, state, pc, reports, gone, raced, faulty>>

------------------------------------------------------------------------------
(* RequestDump: the state; EndTracing; Dump. A thread goes on to "after" when  *)
(* its dump is over.                                                       *)
After(t) == IF t = Driver THEN "leave" ELSE None

UserRequestDump(t) ==
  /\ t \in Users /\ ~gone
  /\ IF state = "Capturing" THEN Enter(t, "end") ELSE pc[t] = None /\ UNCHANGED <<pc, raced>>
  /\ UNCHANGED <<trace, state, postInit, reports, gone, faulty>>

Succeeded == [end |-> "ended", abort |-> "aborted", discard |-> "discarded"]
Failed == [end |-> "end failed", abort |-> "abort failed", discard |-> "discard failed"]

(* The driver ends a trace that runs, and no other. Then the state: a second   *)
(* step.                                                                   *)
EndTracing(t) ==
  /\ pc[t] \in {"end", "abort", "discard"}
  /\ LET ok == trace = "running"
     IN /\ trace' = IF ok THEN "ended" ELSE trace
        /\ Goto(t, IF ok THEN Succeeded[pc[t]] ELSE Failed[pc[t]])
  /\ UNCHANGED <<state, postInit, reports, gone, raced, faulty>>

(* Mutant: a dump whose EndTracing failed goes on.                          *)
EndedRegardless(t) ==
  /\ pc[t] \in {"ended", "end failed"}
  /\ state' = IF pc[t] = "ended" THEN QueryStatus(trace) ELSE "Error"
  /\ Goto(t, "dump")
  /\ UNCHANGED <<trace, postInit, reports, gone, raced, faulty>>

Ended(t) ==
  /\ pc[t] \in {"ended", "end failed"}
  /\ state' = IF pc[t] = "ended" THEN QueryStatus(trace) ELSE "Error"
  /\ Goto(t, IF pc[t] = "ended" THEN "dump" ELSE After(t))
  /\ UNCHANGED <<trace, postInit, reports, gone, raced, faulty>>

BeginDump(t) ==
  /\ pc[t] = "dump"
  /\ Goto(t, IF state = "Done" THEN "transfer" ELSE After(t))
  /\ UNCHANGED <<trace, state, postInit, reports, gone, raced, faulty>>

(* OnWritingStatusEvent shows the writing. Then the transfer; the chunks the   *)
(* panel adds are part of the same outcome.                                  *)
BeginWriting(t) ==
  /\ pc[t] = "transfer"
  /\ state' = "Dumping" /\ Goto(t, "writing")
  /\ UNCHANGED <<trace, postInit, reports, gone, raced, faulty>>

TransferTraceData(t, outcome) ==
  /\ pc[t] = "writing"
  /\ CASE outcome = "Completed" -> trace' = "cleared" /\ UNCHANGED faulty
       [] outcome = "no chunks" -> trace' = "cleared" /\ faulty' = TRUE
       [] OTHER -> faulty' = TRUE /\ UNCHANGED trace
  /\ Report(IF outcome = "Completed" THEN "Completed" ELSE "Error")
  /\ Goto(t, "written")
  /\ UNCHANGED <<state, postInit, gone, raced>>

FinishDump(t) ==
  /\ pc[t] = "written"
  /\ state' = "Done" /\ Goto(t, After(t))
  /\ UNCHANGED <<trace, postInit, reports, gone, raced, faulty>>

------------------------------------------------------------------------------
RequestAbortTrace(t) ==
  /\ t \in Users /\ ~gone /\ trace # "off"
  /\ Enter(t, "abort")
  /\ UNCHANGED <<trace, state, postInit, reports, gone, faulty>>

Aborted(t) ==
  /\ pc[t] \in {"aborted", "abort failed"}
  /\ state' = IF pc[t] = "aborted" THEN QueryStatus(trace) ELSE "Error"
  /\ IF pc[t] = "aborted" THEN Report("Aborted") ELSE UNCHANGED reports
  /\ Goto(t, None)
  /\ UNCHANGED <<trace, postInit, gone, raced, faulty>>

------------------------------------------------------------------------------
(* Disconnect: a trace still running is dumped, or only ended if the device    *)
(* never was.                                                              *)
Disconnect ==
  /\ ~gone /\ trace # "off"
  /\ Enter(Driver, IF trace = "running" /\ postInit /\ state # "Error" THEN "ask" ELSE "leave")
  /\ UNCHANGED <<trace, state, postInit, reports, gone, faulty>>

(* The RequestDump of it looks at the state once more.                       *)
DisconnectDump ==
  /\ pc[Driver] = "ask"
  /\ Goto(Driver, IF state = "Capturing" THEN "end" ELSE "leave")
  /\ UNCHANGED <<trace, state, postInit, reports, gone, raced, faulty>>

Leave ==
  /\ pc[Driver] = "leave"
  /\ IF postInit THEN Goto(Driver, None) /\ gone' = TRUE /\ UNCHANGED trace
     ELSE Goto(Driver, "discard") /\ UNCHANGED <<trace, gone>>
  /\ UNCHANGED <<state, postInit, reports, raced, faulty>>

Discarded ==
  /\ pc[Driver] \in {"discarded", "discard failed"}
  /\ state' = IF pc[Driver] = "discarded" THEN QueryStatus(trace) ELSE "Error"
  /\ Goto(Driver, None) /\ gone' = TRUE
  /\ UNCHANGED <<trace, postInit, reports, raced, faulty>>

------------------------------------------------------------------------------
Next ==
  \/ \E ok \in BOOLEAN : Initialize(ok)
  \/ HandleDriverState
  \/ \E t \in Threads :
       \/ UserRequestDump(t) \/ RequestAbortTrace(t)
       \/ EndTracing(t) \/ Ended(t) \/ BeginDump(t) \/ BeginWriting(t) \/ FinishDump(t)
       \/ Aborted(t)
       \/ \E o \in {"Completed", "no chunks", "Failed"} : TransferTraceData(t, o)
  \/ Disconnect \/ DisconnectDump \/ Leave \/ Discarded

Spec == Init /\ [][Next]_vars

------------------------------------------------------------------------------
(* However the user's dumps and aborts and the end of the application fall     *)
(* together, the trace has at most one outcome, and one nobody interfered with *)
(* is not lost: when the application has gone, it was dumped, or the user was   *)
(* told why not.                                                              *)
ReportedOnce ==
  /\ Len(reports) <= 1
  /\ gone /\ postInit /\ ~raced => Len(reports) = 1
==============================================================================
