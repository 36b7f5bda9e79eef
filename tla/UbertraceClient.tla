--------------------------- MODULE UbertraceClient ---------------------------
(***************************************************************************)
(* UbertraceClient, the client of the RGP and RRA trace sources: the       *)
(* orchestrator composed with the threads that call it.                    *)
(*   ui    - the user-interface thread, which found the client in its      *)
(*           trace source and calls RequestBeginTrace, RequestAbortTrace   *)
(*           or PrepareForDelayedCapture on it;                            *)
(*   dd    - the DevDriver thread, which handles the automatic capture     *)
(*           and starts the CancellableTimer of a delayed one;             *)
(*   timer - the timer thread of each client.                              *)
(* Every step is a step of UbertraceOrchestrator or leaves it unchanged.   *)
(***************************************************************************)
EXTENDS UbertraceOrchestrator

CONSTANT AutoCapture   \* GetAutoCaptureConfig of each user: "none", "now", "delayed"

ASSUME AutoCaptureAssumption == AutoCapture \in [Users -> {"none", "now", "delayed"}]

VARIABLES ui, dd, timer

clientVars == <<ui, dd, timer>>
allVars == <<vars, clientVars>>

(* A CancellableTimer is started at most once, at POSTDEVICEINIT.  Its last *)
(* three states say how the delayed capture ended.                          *)
TimerStopped == {"off", "begun", "failed", "aborted"}
TimerStates  == TimerStopped \cup {"armed", "cancelled", "fired", "joining"}

UiPcs == {"idle", "begin", "joining", "prepare", "cancelTimer", "abort"}
DdPcs == {"idle", "begin", "joining", "prepare", "startTimer", "cancelTimer"}

Joining(pc) == pc = "joining"

(* Besides the types: a begin that waits in join() is a call of exactly one *)
(* of the three threads.                                                    *)
ClientTypeOK ==
  /\ begin.joining <=>
       Joining(ui.pc) \/ Joining(dd.pc) \/ \E u \in Users : Joining(timer[u])
  /\ ui \in [pc : UiPcs, user : Users \cup {NoUser}]
  /\ dd \in [pc : DdPcs, user : Users \cup {NoUser}]
  /\ timer \in [Users -> TimerStates]

IdleThread == [pc |-> "idle", user |-> NoUser]

ClientInit ==
  /\ Init
  /\ ui = IdleThread
  /\ dd = IdleThread
  /\ timer = [u \in Users |-> "off"]

(* A client that is being disconnected is no longer in its trace source's   *)
(* list, so only calls already on their way reach it.                       *)
Listed(u) == client[u] = "live" /\ ~(dd.pc = "cancelTimer" /\ dd.user = u)

------------------------------------------------------------------------------
(* RequestBeginTrace: what each outcome does to the orchestrator.          *)

(* GenerateCaptureConfig fails, or the orchestrator answers kNotReady.      *)
BeginRefused(u) == UNCHANGED vars
BeginFails(u)   == BeginConfigFails(u) \/ BeginRequestFails(u) \/ BeginRefused(u)
BeginSucceeds(u, auto) == RequestBeginTrace(u, auto)

------------------------------------------------------------------------------
(* The user-interface thread.                                              *)

UiCalls(u) ==
  /\ ui.pc = "idle"
  /\ Listed(u)
  /\ \E op \in {"begin", "prepare", "cancelTimer"} : ui' = [pc |-> op, user |-> u]
  /\ timer' = IF ui'.pc = "cancelTimer" /\ timer[u] = "armed"
              THEN [timer EXCEPT ![u] = "cancelled"] ELSE timer
  /\ UNCHANGED <<vars, dd>>

UiBegins ==
  /\ ui.pc = "begin"
  /\ BeginSucceeds(ui.user, FALSE)
  /\ ui' = IF begin'.joining THEN [ui EXCEPT !.pc = "joining"] ELSE IdleThread
  /\ UNCHANGED <<dd, timer>>

UiBeginFails ==
  /\ ui.pc = "begin"
  /\ BeginFails(ui.user)
  /\ ui' = IdleThread
  /\ UNCHANGED <<dd, timer>>

UiPrepares ==
  /\ ui.pc = "prepare"
  /\ PrepareForDelayedCapture(ui.user) \/ UNCHANGED vars
  /\ ui' = IdleThread
  /\ UNCHANGED <<dd, timer>>

(* RequestAbortTrace: timer_.Cancel() returns when the timer thread has.    *)
UiTimerJoined ==
  /\ ui.pc = "cancelTimer"
  /\ timer[ui.user] \in TimerStopped
  /\ ui' = [ui EXCEPT !.pc = "abort"]
  /\ UNCHANGED <<vars, dd, timer>>

UiAborts ==
  /\ ui.pc = "abort"
  /\ \/ (AbortChecked(ui.user) \/ AbortSeesWaiting(ui.user)) /\ UNCHANGED ui
     \/ (AbortPolling(ui.user) \/ AbortWaiting(ui.user)) /\ ui' = IdleThread
  /\ UNCHANGED <<dd, timer>>

UiAbortUnsupported ==
  /\ ui.pc = "abort"
  /\ aborting[ui.user] = "none"
  /\ IsCapturing(userState[ui.user]) /\ ~CancelSupported
  /\ ui' = IdleThread
  /\ UNCHANGED <<vars, dd, timer>>

------------------------------------------------------------------------------
(* The DevDriver thread.                                                   *)

DdInitialize(u) ==
  /\ dd.pc = "idle"
  /\ \E connectOk, enableOk \in BOOLEAN : Initialize(u, connectOk, enableOk)
  /\ UNCHANGED clientVars

(* HandleDriverState, then BeginAutoCapture when the configuration has one. *)
DdHandleDriverState(u, configOk) ==
  /\ dd.pc = "idle"
  /\ HandleDriverState(u)
  /\ dd' = IF ~configOk \/ AutoCapture[u] = "none" THEN IdleThread
           ELSE [pc |-> IF AutoCapture[u] = "now" THEN "begin" ELSE "prepare", user |-> u]
  /\ UNCHANGED <<ui, timer>>

DdBegins ==
  /\ dd.pc = "begin"
  /\ BeginSucceeds(dd.user, TRUE)
  /\ dd' = IF begin'.joining THEN [dd EXCEPT !.pc = "joining"] ELSE IdleThread
  /\ UNCHANGED <<ui, timer>>

DdBeginFails ==
  /\ dd.pc = "begin"
  /\ BeginFails(dd.user)
  /\ dd' = IdleThread
  /\ UNCHANGED <<ui, timer>>

DdPrepares ==
  /\ dd.pc = "prepare"
  /\ \/ PrepareForDelayedCapture(dd.user) /\ dd' = [dd EXCEPT !.pc = "startTimer"]
     \/ userState[dd.user] # "Idle" /\ LockFree /\ dd' = IdleThread /\ UNCHANGED vars
  /\ UNCHANGED <<ui, timer>>

DdStartsTimer ==
  /\ dd.pc = "startTimer"
  /\ timer' = [timer EXCEPT ![dd.user] = "armed"]
  /\ dd' = IdleThread
  /\ UNCHANGED <<vars, ui>>

(* Disconnect: the timer first, then the orchestrator.                      *)
DdCancelsTimer(u) ==
  /\ dd.pc = "idle"
  /\ disc.pc = "none"
  /\ client[u] = "live"
  /\ dd' = [pc |-> "cancelTimer", user |-> u]
  /\ timer' = IF timer[u] = "armed" THEN [timer EXCEPT ![u] = "cancelled"] ELSE timer
  /\ UNCHANGED <<vars, ui>>

(* Mutant: the timer thread is notified but not joined.                     *)
DdTimerNotJoined ==
  /\ dd.pc = "cancelTimer"
  /\ DisconnectStart(dd.user)
  /\ dd' = IdleThread
  /\ UNCHANGED <<ui, timer>>

DdTimerJoined ==
  /\ dd.pc = "cancelTimer"
  /\ timer[dd.user] \in TimerStopped
  /\ DisconnectStart(dd.user)
  /\ dd' = IdleThread
  /\ UNCHANGED <<ui, timer>>

------------------------------------------------------------------------------
(* The timer thread of each client.                                        *)

(* Mutant: the cancelled timer goes on to the capture.                      *)
TimerCancelledFallsThrough(u) ==
  /\ timer[u] = "cancelled"
  /\ timer' = [timer EXCEPT ![u] = "aborted"]
  /\ BeginSucceeds(u, TRUE) \/ UNCHANGED vars
  /\ UNCHANGED <<ui, dd>>

TimerCancelled(u) ==
  /\ timer[u] = "cancelled"
  /\ timer' = [timer EXCEPT ![u] = "aborted"]
  /\ UNCHANGED <<vars, ui, dd>>

TimerFires(u) ==
  /\ timer[u] = "armed"
  /\ timer' = [timer EXCEPT ![u] = "fired"]
  /\ UNCHANGED <<vars, ui, dd>>

TimerBegins(u) ==
  /\ timer[u] = "fired"
  /\ BeginSucceeds(u, TRUE)
  /\ timer' = [timer EXCEPT ![u] = IF begin'.joining THEN "joining" ELSE "begun"]
  /\ UNCHANGED <<ui, dd>>

TimerBeginFails(u) ==
  /\ timer[u] = "fired"
  /\ BeginFails(u)
  /\ timer' = [timer EXCEPT ![u] = "failed"]
  /\ UNCHANGED <<ui, dd>>

------------------------------------------------------------------------------
(* Whoever is inside join() returns with BeginJoined.                      *)

JoinReturns ==
  /\ BeginJoined
  /\ ui' = IF ui.pc = "joining" THEN IdleThread ELSE ui
  /\ dd' = IF dd.pc = "joining" THEN IdleThread ELSE dd
  /\ timer' = [u \in Users |-> IF timer[u] = "joining" THEN "begun" ELSE timer[u]]

(* Steps of the orchestrator's own threads and of the driver.               *)
Background == (PollerStep \/ DisconnectStep \/ TraceReady) /\ UNCHANGED clientVars

UiRuns == UiBegins \/ UiBeginFails \/ UiPrepares \/ UiTimerJoined \/ UiAborts
          \/ UiAbortUnsupported

DdRuns == DdBegins \/ DdBeginFails \/ DdPrepares \/ DdStartsTimer \/ DdTimerJoined

TimerRuns(u) == TimerCancelled(u) \/ TimerFires(u) \/ TimerBegins(u) \/ TimerBeginFails(u)

ClientNext ==
  \/ \E u \in Users : UiCalls(u)
  \/ UiRuns
  \/ \E u \in Users : DdInitialize(u)
  \/ \E u \in Users, configOk \in BOOLEAN : DdHandleDriverState(u, configOk)
  \/ \E u \in Users : DdCancelsTimer(u)
  \/ DdRuns
  \/ \E u \in Users : TimerRuns(u)
  \/ JoinReturns
  \/ Background

ClientSpec == ClientInit /\ [][ClientNext]_allVars

(* Threads inside a call are scheduled; the user, the driver and DevDriver  *)
(* owe nothing.                                                             *)
FairClientSpec ==
  /\ ClientSpec
  /\ WF_allVars(UiRuns)
  /\ WF_allVars(DdRuns)
  /\ \A u \in Users : WF_allVars(TimerRuns(u))
  /\ WF_allVars(JoinReturns)
  /\ WF_allVars(PollerStep /\ UNCHANGED clientVars)
  /\ WF_allVars(DisconnectStep /\ UNCHANGED clientVars)

------------------------------------------------------------------------------
(* Properties.                                                              *)

(* Disconnect cancels the timer and joins its thread before the client goes *)
(* away: a delayed capture never fires into a destroyed client.             *)
TimerStoppedBeforeGone == \A u \in Users : client[u] = "gone" => timer[u] \in TimerStopped

(* A delayed automatic capture that was cancelled (and reported as aborted) *)
(* is never taken: not by the timer thread racing the cancellation, nor     *)
(* later.                                                                   *)
CancelledCaptureNeverTaken ==
  \A u \in Users : AutoCapture[u] = "delayed" /\ timer[u] = "aborted" =>
     /\ ~(PollerActive /\ poller.auto /\ poller.user = u)
     /\ ~(begin.joining /\ begin.auto /\ begin.user = u)

(* While a capture is polled for, its user is shown as capturing or         *)
(* dumping.  It holds where the driver cannot cancel a trace and no         *)
(* automatic capture is delayed: no user waits then, and an abort that sets *)
(* a waiting user to idle cannot be under way when its capture begins.      *)
PolledUserShown ==
  BeforeExchange => userState[poller.user] \in {"Capturing", "Dumping"}

(* A RequestBeginTrace that has to join the previous polling thread gets    *)
(* past the join: the class is there to "allow multiple users to use        *)
(* UberTrace over one UMD connection".                                      *)
BeginReturns == begin.joining ~> ~begin.joining

(* Once polling is told to stop (abort or disconnect), the capture ends and *)
(* its user leaves the capturing states.                                    *)
StoppedCaptureEnds == (PollerActive /\ ~shouldPoll) ~> ~PollerActive

(* A Disconnect, which joins the polling thread, returns: the thread leaves *)
(* its loop whatever it was doing, waiting for the lock included.  Only a   *)
(* begin that is already inside the client can ask for polling again.       *)
DisconnectReturns == disc.pc = "signal" /\ ui.pc \notin {"begin", "joining"} ~> disc.pc = "none"

(* Both calls that join the polling thread, RequestBeginTrace and           *)
(* Disconnect, return.                                                     *)
CallsReturn == BeginReturns /\ DisconnectReturns

(* DEV_TRACE_ASSERT in Disconnect: when the last user leaves, no polling is *)
(* asked for and no polling thread is left to join.                         *)
LastDisconnectFindsNoPoller ==
  disc.pc = "erase" /\ LastUser => ~shouldPoll /\ poller.pc = "none"

(* "Clock modes for the device will be changed to peak during capture."     *)
PeakDuringCapture ==
  \A u \in RgpUsers : userState[u] \in {"Capturing", "Dumping"} => peak

(* "If writing started, we should notify that a trace failed to complete."  *)
FailedWriteReported ==
  [][poller.pc = "writing" /\ poller'.pc = "polling" =>
       completed'[poller.user] = completed[poller.user] + 1]_allVars

(* "For auto-capture, stay in kDone state since they are one-shot": a user  *)
(* that took its automatic capture does not become ready for another.       *)
AutoCaptureIsOneShot == \A u \in disabledUsers : ~IsReadyForCapture(u)

==============================================================================
