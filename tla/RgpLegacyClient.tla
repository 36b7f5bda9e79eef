---------------------------- MODULE RgpLegacyClient ----------------------------
(***************************************************************************)
(* The profiling client for drivers without UberTrace. A capture runs in     *)
(* capture_thread_; the user's thread begins and aborts, the timer's thread   *)
(* begins an automatic capture, the driver's thread disconnects and then       *)
(* destroys the client, and the polling thread follows the active GPU. The      *)
(* counters of a capture are derived in its thread by the trace source, whose    *)
(* abort_spm_processing_ all its clients share.                              *)
(*                                                                         *)
(* state_ is read and written in steps of its own: a thread that looks and    *)
(* then sets may be overtaken. A begin is one step from its look at the       *)
(* state to its join, and one step after it.                               *)
(***************************************************************************)
EXTENDS Naturals, FiniteSets

CONSTANT MaxCaptures   \* how many captures are begun

None == [at |-> "none"]

VARIABLES
  state,        \* state_
  gpuOk,        \* active_gpu_ is supported
  user, timer,  \* the threads that begin captures
  capture,      \* capture_thread_
  stop,         \* the driver was told to abort the trace it takes
  aborted,      \* aborted_
  abortSpm,     \* abort_spm_processing_
  asked,        \* an abort was requested since the capture began,
  askedSpm,     \* an abort of the processing since that was announced
  driver,       \* the thread that disconnects
  reports,      \* what was reported, by whom, and whether it had been asked for
  begun         \* how many captures were begun

processing == <<abortSpm, askedSpm>>
vars == <<state, gpuOk, user, timer, capture, stop, aborted, asked, processing, driver, reports, begun>>

Init ==
  /\ state = "Idle" /\ gpuOk = TRUE
  /\ user = None /\ timer = None /\ capture = None
  /\ stop = FALSE /\ aborted = FALSE /\ asked = FALSE
  /\ abortSpm = FALSE /\ askedSpm = FALSE
  /\ driver = "connected" /\ reports = {} /\ begun = 0

Report(by, status, wasAsked) ==
  reports' = reports \cup {[by |-> by, status |-> status, asked |-> wasAsked]}

------------------------------------------------------------------------------
(* RequestBeginTrace: IsReadyForCapture, then joins the capture before.       *)
IsReadyForCapture == state \in {"Idle", "WaitingToBeginCapture"}
Alive == capture # None /\ capture.at # "finished"
CanBegin == driver = "connected" /\ IsReadyForCapture /\ begun < MaxCaptures

UserBegin ==
  /\ user = None /\ CanBegin
  /\ user' = [at |-> "join", auto |-> FALSE] /\ begun' = begun + 1
  /\ UNCHANGED <<state, gpuOk, timer, capture, stop, aborted, asked, processing, driver, reports>>

(* PrepareForDelayedCapture, for the user's delay timer and for the client's     *)
(* own: looks at the state, then sets it.                                    *)
CanPrepare == driver = "connected" /\ state = "Idle"

UserPrepares ==
  /\ user = None /\ CanPrepare
  /\ user' = [at |-> "prepare", auto |-> FALSE]
  /\ UNCHANGED <<state, gpuOk, timer, capture, stop, aborted, asked, processing, driver, reports, begun>>

UserPrepared ==
  /\ user.at = "prepare"
  /\ state' = "WaitingToBeginCapture" /\ user' = None
  /\ UNCHANGED <<gpuOk, timer, capture, stop, aborted, asked, processing, driver, reports, begun>>

(* RequestAutoCapture at the start of the device, in the driver's thread, is    *)
(* the begin of an automatic capture too. RunTimerCapture arms the timer.      *)
RunTimerCapture ==
  /\ timer = None /\ CanPrepare /\ begun < MaxCaptures
  /\ timer' = [at |-> "prepare", auto |-> TRUE] /\ begun' = begun + 1
  /\ UNCHANGED <<state, gpuOk, user, capture, stop, aborted, asked, processing, driver, reports>>

TimerStarted ==
  /\ timer.at = "prepare"
  /\ state' = "WaitingToBeginCapture" /\ timer' = [timer EXCEPT !.at = "armed"]
  /\ UNCHANGED <<gpuOk, user, capture, stop, aborted, asked, processing, driver, reports, begun>>

(* The timer fires, however the wait was given up meanwhile.                  *)
TimerFires ==
  /\ timer.at = "armed"
  /\ IF IsReadyForCapture THEN timer' = [timer EXCEPT !.at = "join"] /\ UNCHANGED reports
     ELSE timer' = None /\ Report("timer", "Error", asked)
  /\ UNCHANGED <<state, gpuOk, user, capture, stop, aborted, asked, processing, driver, begun>>

(* After the join: the GPU of this moment, the counters, the new thread.       *)
StartCapture(self, gpu) ==
  /\ self.at = "join" /\ ~Alive
  /\ IF gpu
     THEN /\ capture' = [at |-> "starting", auto |-> self.auto]
          /\ asked' = FALSE /\ stop' = FALSE
          /\ UNCHANGED <<state, reports>>
     ELSE /\ IF self.auto THEN state' = "Done" /\ Report("timer", "Error", asked) ELSE UNCHANGED <<state, reports>>
          /\ UNCHANGED <<capture, asked, processing, stop>>
  /\ UNCHANGED <<gpuOk, aborted, processing, driver, begun>>

UserStarts == \E gpu \in BOOLEAN : StartCapture(user, gpu) /\ user' = None /\ UNCHANGED timer
TimerStarts == \E gpu \in BOOLEAN : StartCapture(timer, gpu) /\ timer' = None /\ UNCHANGED user

------------------------------------------------------------------------------
(* ExecuteTrace, in the capture thread.                                     *)
CaptureGoto(at) == capture' = [capture EXCEPT !.at = at]

(* Mutant: aborted_ is left as the capture before left it.                   *)
BeginExecuteKept ==
  /\ capture.at = "starting"
  /\ CaptureGoto("executing")
  /\ UNCHANGED <<state, gpuOk, user, timer, stop, aborted, asked, processing, driver, reports, begun>>

BeginExecute ==
  /\ capture.at = "starting"
  /\ aborted' = FALSE /\ CaptureGoto("executing")
  /\ UNCHANGED <<state, gpuOk, user, timer, stop, asked, processing, driver, reports, begun>>

(* OnBeginTrace and OnWritingStatusEvent, called back by the driver.          *)
OnBeginTrace ==
  /\ capture.at = "executing"
  /\ state' = "Capturing" /\ CaptureGoto("capturing")
  /\ UNCHANGED <<gpuOk, user, timer, stop, aborted, asked, processing, driver, reports, begun>>

OnWriting ==
  /\ capture.at = "capturing" /\ ~stop
  /\ state' = "Dumping" /\ CaptureGoto("writing")
  /\ UNCHANGED <<gpuOk, user, timer, stop, aborted, asked, processing, driver, reports, begun>>

(* The driver has taken the trace, or has not; FinalizeTrace reports.          *)
StatusOf(outcome) ==
  CASE outcome = "spm" -> "NeedProcessing"
    [] outcome = "written" -> "Completed"
    [] outcome = "failed" /\ aborted -> "Aborted"
    [] OTHER -> "Error"

Executed(outcome) ==
  /\ \/ capture.at \in {"executing", "capturing"} /\ outcome = "failed"
     \/ capture.at = "writing"
  /\ Report("capture", StatusOf(outcome), asked)
  /\ IF outcome = "spm"
     THEN CaptureGoto("processing") /\ state' = "PostProcessing" /\ askedSpm' = FALSE
     ELSE CaptureGoto("ending") /\ UNCHANGED <<state, askedSpm>>
  /\ UNCHANGED <<gpuOk, user, timer, stop, aborted, asked, abortSpm, driver, begun>>

(* OnTraceCompletedWithSpm of the source, in the capture thread.               *)
SpmBegins ==
  /\ capture.at = "processing"
  /\ abortSpm' = FALSE /\ CaptureGoto("deriving")
  /\ UNCHANGED <<state, gpuOk, user, timer, stop, aborted, asked, askedSpm, driver, reports, begun>>

SpmProcessed(derived) ==
  /\ capture.at = "deriving"
  /\ Report("processing", IF derived THEN "Completed" ELSE IF abortSpm THEN "Aborted" ELSE "Error", askedSpm)
  /\ CaptureGoto("ending")
  /\ UNCHANGED <<state, gpuOk, user, timer, stop, aborted, asked, processing, driver, begun>>

RequestAbortProcessing ==
  /\ abortSpm' = TRUE /\ askedSpm' = TRUE
  /\ UNCHANGED <<state, gpuOk, user, timer, capture, stop, aborted, asked, driver, reports, begun>>

(* Another client of the source begins to derive its counters.                *)
OtherSpmBegins ==
  /\ abortSpm' = FALSE
  /\ UNCHANGED <<state, gpuOk, user, timer, capture, stop, aborted, asked, askedSpm, driver, reports, begun>>

FinalizeTrace ==
  /\ capture.at = "ending"
  /\ state' = IF capture.auto THEN "Done" ELSE IF gpuOk THEN "Idle" ELSE "Disabled"
  /\ CaptureGoto("finished")
  /\ UNCHANGED <<gpuOk, user, timer, stop, aborted, asked, processing, driver, reports, begun>>

------------------------------------------------------------------------------
(* RequestAbortTrace: the driver and aborted_ under abort_mutex_; the state is  *)
(* looked at after it, and set after that.                                   *)
RequestAbortTrace ==
  /\ user = None /\ driver = "connected"
  /\ stop' = TRUE /\ aborted' = TRUE /\ asked' = TRUE
  /\ user' = [at |-> "look", auto |-> FALSE]
  /\ UNCHANGED <<state, gpuOk, timer, capture, processing, driver, reports, begun>>

AbortLooks ==
  /\ user.at = "look"
  /\ user' = IF state = "WaitingToBeginCapture" THEN [at |-> "set", auto |-> FALSE] ELSE None
  /\ UNCHANGED <<state, gpuOk, timer, capture, stop, aborted, asked, processing, driver, reports, begun>>

AbortSets ==
  /\ user.at = "set"
  /\ state' = "Idle" /\ user' = None
  /\ UNCHANGED <<gpuOk, timer, capture, stop, aborted, asked, processing, driver, reports, begun>>

(* OnActiveGpuUpdate, in the polling thread.                                 *)
OnActiveGpuUpdate ==
  /\ driver = "connected"
  /\ gpuOk' = ~gpuOk
  /\ state' = IF state \in {"Idle", "Disabled"} THEN (IF ~gpuOk THEN "Idle" ELSE "Disabled") ELSE state
  /\ UNCHANGED <<user, timer, capture, stop, aborted, asked, processing, driver, reports, begun>>

(* Disconnect: aborts, joins, and is done.                                  *)
Disconnect ==
  /\ driver = "connected" /\ timer.at # "prepare"
  /\ stop' = TRUE /\ driver' = "joining"
  /\ UNCHANGED <<state, gpuOk, user, timer, capture, aborted, asked, processing, reports, begun>>

Disconnected ==
  /\ driver = "joining" /\ ~Alive
  /\ state' = "Done" /\ driver' = "gone"
  /\ UNCHANGED <<gpuOk, user, timer, capture, stop, aborted, asked, processing, reports, begun>>

(* OnDriverDisconnected then destroys the client, and so its timer, which is     *)
(* joined. One that still waits is cancelled, and says so. A call or a capture  *)
(* still under way has lost its client, and is not followed any further.        *)
ClientDestroyed ==
  /\ driver = "gone" /\ timer.at # "join"
  /\ driver' = "destroyed" /\ timer' = None /\ user' = None /\ capture' = None
  /\ IF timer.at = "armed" THEN state' = "Done" /\ Report("timer", "Aborted", asked)
     ELSE UNCHANGED <<state, reports>>
  /\ UNCHANGED <<gpuOk, stop, aborted, asked, processing, begun>>

------------------------------------------------------------------------------
Next ==
  \/ UserPrepares \/ UserPrepared \/ UserBegin \/ UserStarts
  \/ RunTimerCapture \/ TimerStarted \/ TimerFires \/ TimerStarts
  \/ BeginExecute \/ OnBeginTrace \/ OnWriting
  \/ \E o \in {"written", "spm", "incomplete", "failed"} : Executed(o)
  \/ SpmBegins \/ \E derived \in BOOLEAN : SpmProcessed(derived)
  \/ RequestAbortProcessing \/ OtherSpmBegins
  \/ FinalizeTrace
  \/ RequestAbortTrace \/ AbortLooks \/ AbortSets
  \/ OnActiveGpuUpdate
  \/ Disconnect \/ Disconnected \/ ClientDestroyed

Spec == Init /\ [][Next]_vars

------------------------------------------------------------------------------
(* A capture is reported as aborted only if an abort was asked for since it    *)
(* began, and its processing only if that was since it was announced; the abort  *)
(* of an earlier one does not count. Only the wait of a timer may end as an       *)
(* abort that nobody asked for, when its client is destroyed.                  *)
AbortedWasAsked == \A r \in reports : r.status = "Aborted" => r.asked \/ r.by = "timer"

(* The same of the timer's wait too.                                        *)
CancelledWasAsked == \A r \in reports : r.status = "Aborted" => r.asked
==============================================================================
