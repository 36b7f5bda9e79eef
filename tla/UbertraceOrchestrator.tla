------------------------ MODULE UbertraceOrchestrator ------------------------
(***************************************************************************)
(* The UbertraceOrchestrator: one object per UMD connection through which  *)
(* several UbertraceUsers (the RGP, RRA and RGD clients) take traces with  *)
(* one driver session.                                                     *)
(*                                                                         *)
(* Threads that run in it: the DevDriver thread of the connection          *)
(* (Initialize, HandleDriverState, Disconnect: one call at a time), the    *)
(* threads that ask for a capture or abort it (user interface, timers, the *)
(* DevDriver thread again for automatic captures) and the polling thread.  *)
(* An action is the code between two points where another thread can get   *)
(* in: a whole function where user_state_mutex_ is held throughout, one    *)
(* step per unlocked access, wait or join otherwise.                       *)
(***************************************************************************)
EXTENDS Naturals, FiniteSets

CONSTANTS
  Users,            \* user ids handed out by GetNewUser
  NoUser,           \* kInvalidUbertraceUserId
  RgpUsers,         \* users that enable tracing, force peak clocks and may post-process
  CancelSupported,  \* UbertraceFeatures::IsCancelTraceSupported
  MaxCaptures       \* bound: captures the driver accepts per user

ASSUME UsersAssumption == NoUser \notin Users /\ RgpUsers \subseteq Users
ASSUME FeaturesAssumption == CancelSupported \in BOOLEAN /\ MaxCaptures \in Nat

VARIABLES
  client,         \* lifetime of each user's client in its trace source
  initialized,    \* initialized_users_
  apiConnected,   \* DDUberTraceApi: connected to this connection
  enabledTracing, \* enabled_tracing_
  prelim,         \* preliminary_sources_ and preliminary_global_params_ are held
  postInit,       \* users whose latest_driver_states_ reached POSTDEVICEINIT
  userState,      \* user_state_ (an absent entry reads as kDisabled)
  disabledUsers,  \* domain of disabled_users_
  capturingUser,  \* capturing_user_
  shouldPoll,     \* should_poll_for_trace_
  poller,         \* trace_polling_thread_ and its locals
  begin,          \* a RequestBeginTrace inside join(), holding user_state_mutex_
  aborting,       \* how far each user's RequestAbortTrace has come
  disc,           \* a Disconnect in progress on the DevDriver thread
  session,        \* the driver's trace session
  peak,           \* clocks forced to peak for this connection
  requested,      \* history: captures the driver accepted, per user
  completed       \* history: TraceCompleted (or on_completed) calls, per user

callVars    == <<client, initialized, apiConnected, enabledTracing, prelim, postInit>>
stateVars   == <<userState, disabledUsers, capturingUser, shouldPoll>>
historyVars == <<requested, completed>>
vars == <<callVars, stateVars, poller, begin, aborting, disc, session, peak, historyVars>>

------------------------------------------------------------------------------
(* Types.                                                                  *)

ClientStates == {"Disabled", "Error", "Done", "Busy", "Idle",
                 "WaitingToBeginCapture", "Capturing", "PostProcessing", "Dumping"}
IsCapturing(s) == s \in {"WaitingToBeginCapture", "Capturing", "Dumping", "PostProcessing"}

Lifetimes  == {"pending", "live", "dropped", "leaving", "gone"}
PollerPcs  == {"none", "polling", "collect", "writing", "exiting", "finishing",
               "processing", "ending", "exited"}
DiscPcs    == {"none", "count", "signal", "join", "erase", "done"}

IdleDisc   == [pc |-> "none", user |-> NoUser, join |-> FALSE]
NoBegin    == [joining |-> FALSE, user |-> NoUser, auto |-> FALSE]
NoThread   == [pc |-> "none", user |-> NoUser, auto |-> FALSE, captured |-> NoUser,
               collected |-> FALSE, chunkOk |-> TRUE]

PollerType == [pc : PollerPcs, user : Users \cup {NoUser}, auto : BOOLEAN,
               captured : Users \cup {NoUser}, collected : BOOLEAN, chunkOk : BOOLEAN]
BeginType  == [joining : BOOLEAN, user : Users \cup {NoUser}, auto : BOOLEAN]
DiscType   == [pc : DiscPcs, user : Users \cup {NoUser}, join : BOOLEAN]

TypeOK ==
  /\ client \in [Users -> Lifetimes]
  /\ initialized \subseteq Users
  /\ apiConnected \in BOOLEAN
  /\ enabledTracing \in BOOLEAN
  /\ prelim \in BOOLEAN
  /\ postInit \subseteq Users
  /\ userState \in [Users \cup {NoUser} -> ClientStates]
  /\ disabledUsers \subseteq Users \cup {NoUser}
  /\ capturingUser \in Users \cup {NoUser}
  /\ shouldPoll \in BOOLEAN
  /\ poller \in PollerType
  /\ begin \in BeginType
  /\ aborting \in [Users -> {"none", "supported", "waiting"}]
  /\ disc \in DiscType
  /\ session \in {"ready", "tracing", "data"}
  /\ peak \in BOOLEAN
  /\ requested \in [Users -> Nat]
  /\ completed \in [Users -> Nat]

Init ==
  /\ client = [u \in Users |-> "pending"]
  /\ initialized = {}
  /\ apiConnected = FALSE
  /\ enabledTracing = FALSE
  /\ prelim = FALSE
  /\ postInit = {}
  /\ userState = [u \in Users \cup {NoUser} |-> "Disabled"]
  /\ disabledUsers = {}
  /\ capturingUser = NoUser
  /\ shouldPoll = FALSE
  /\ poller = NoThread
  /\ begin = NoBegin
  /\ aborting = [u \in Users |-> "none"]
  /\ disc = IdleDisc
  /\ session = "ready"
  /\ peak = FALSE
  /\ requested = [u \in Users |-> 0]
  /\ completed = [u \in Users |-> 0]

(* user_state_mutex_ spans two actions in two places: a begin that joins the *)
(* old polling thread, and on_completed run by the polling thread.          *)
LockFree == ~begin.joining /\ poller.pc # "processing"

(* A caller can hold a pointer to a client until the client is destroyed.   *)
Callable(u) == client[u] \in {"live", "leaving"}

(* SetState: the user's state and the copy UbertraceUser keeps of it.       *)
SetState(s, u) == userState' = [userState EXCEPT ![u] = s]

------------------------------------------------------------------------------
(* DevDriver thread: Initialize and HandleDriverState.                     *)

DriverThreadIdle == disc.pc = "none" /\ LockFree

(* The trace source destroys a client whose Initialize fails and never      *)
(* calls Disconnect for it.  Only the first user connects; the user stays   *)
(* in initialized_users_ whatever the outcome.                              *)
Initialize(u, connectOk, enableOk) ==
  LET connects == initialized = {}
      enables  == u \in RgpUsers /\ ~enabledTracing
      ok       == (connects => connectOk) /\ (enables => enableOk)
  IN
  /\ DriverThreadIdle
  /\ client[u] = "pending"
  /\ connects \/ connectOk
  /\ (enables /\ (connects => connectOk)) \/ enableOk
  /\ initialized' = initialized \cup {u}
  /\ apiConnected' = (apiConnected \/ (connects /\ connectOk))
  /\ enabledTracing' = (enabledTracing \/ (ok /\ u \in RgpUsers))
  /\ prelim' = TRUE
  /\ SetState(IF ok THEN "Idle" ELSE "Error", u)
  /\ client' = [client EXCEPT ![u] = IF ok THEN "live" ELSE "dropped"]
  /\ UNCHANGED <<postInit, disabledUsers, capturingUser, shouldPoll, poller, begin,
                 aborting, disc, session, peak, historyVars>>

(* POSTDEVICEINIT: whoever comes first sends (or, when the driver refuses   *)
(* the configuration, loses) the preliminary sources of every user.         *)
HandleDriverState(u) ==
  /\ DriverThreadIdle
  /\ client[u] = "live"
  /\ \A v \in Users : client[v] # "pending"
  /\ u \notin postInit
  /\ postInit' = postInit \cup {u}
  /\ prelim' = FALSE
  /\ UNCHANGED <<client, initialized, apiConnected, enabledTracing, stateVars, poller,
                 begin, aborting, disc, session, peak, historyVars>>

------------------------------------------------------------------------------
(* Captures.                                                               *)

PrepareForDelayedCapture(u) ==
  /\ LockFree
  /\ Callable(u)
  /\ userState[u] = "Idle"
  /\ u \notin disabledUsers
  /\ SetState("WaitingToBeginCapture", u)
  /\ UNCHANGED <<callVars, disabledUsers, capturingUser, shouldPoll, poller, begin,
                 aborting, disc, session, peak, historyVars>>

IsReadyForCapture(u) ==
  \/ userState[u] = "Idle"
  \/ userState[u] = "WaitingToBeginCapture" /\ u \notin disabledUsers

(* TracingStarted / TracingEnded of the RGP client: SetForcePeak keeps a    *)
(* set of connection ids, so a second "on" or "off" changes nothing.        *)
TracingStarted(u) == peak' = (peak \/ u \in RgpUsers)
TracingEnded(u)   == peak' = (peak /\ u \notin RgpUsers)

(* The tail of RequestBeginTrace: the new polling thread takes over.        *)
StartPolling(u, auto) ==
  /\ shouldPoll' = TRUE
  /\ SetState("Capturing", u)
  /\ capturingUser' = u
  /\ poller' = [NoThread EXCEPT !.pc = "polling", !.user = u, !.auto = auto]

(* UpdateConfiguration failed: the error is recorded for kInvalidUser.      *)
BeginConfigFails(u) ==
  /\ LockFree
  /\ Callable(u)
  /\ IsReadyForCapture(u)
  /\ SetState("Error", NoUser)
  /\ UNCHANGED <<callVars, disabledUsers, capturingUser, shouldPoll, poller, begin,
                 aborting, disc, session, peak, historyVars>>

(* RequestTrace failed after tracing_started was called.                    *)
BeginRequestFails(u) ==
  /\ LockFree
  /\ Callable(u)
  /\ IsReadyForCapture(u)
  /\ SetState("Idle", u)
  /\ TracingEnded(u)
  /\ UNCHANGED <<callVars, disabledUsers, capturingUser, shouldPoll, poller, begin,
                 aborting, disc, session, historyVars>>

(* Mutant: the new thread is started over the old one.                      *)
RequestBeginTraceNoJoin(u, auto) ==
  /\ LockFree
  /\ Callable(u)
  /\ IsReadyForCapture(u)
  /\ apiConnected
  /\ session = "ready"
  /\ requested[u] < MaxCaptures
  /\ session' = "tracing"
  /\ requested' = [requested EXCEPT ![u] = @ + 1]
  /\ TracingStarted(u)
  /\ StartPolling(u, auto)
  /\ UNCHANGED <<callVars, disabledUsers, begin, aborting, disc, completed>>

(* RequestTrace succeeded; an old polling thread still joinable is joined   *)
(* with user_state_mutex_ held.                                             *)
RequestBeginTrace(u, auto) ==
  /\ LockFree
  /\ Callable(u)
  /\ IsReadyForCapture(u)
  /\ apiConnected
  /\ session = "ready"
  /\ requested[u] < MaxCaptures
  /\ session' = "tracing"
  /\ requested' = [requested EXCEPT ![u] = @ + 1]
  /\ TracingStarted(u)
  /\ IF poller.pc = "none"
     THEN StartPolling(u, auto) /\ UNCHANGED begin
     ELSE /\ begin' = [joining |-> TRUE, user |-> u, auto |-> auto]
          /\ UNCHANGED <<userState, capturingUser, shouldPoll, poller>>
  /\ UNCHANGED <<callVars, disabledUsers, aborting, disc, completed>>

BeginJoined ==
  /\ begin.joining
  /\ poller.pc \in {"none", "exited"}
  /\ StartPolling(begin.user, begin.auto)
  /\ begin' = NoBegin
  /\ UNCHANGED <<callVars, disabledUsers, aborting, disc, session, peak, historyVars>>

------------------------------------------------------------------------------
(* Aborting.  The capability check, the state read under the lock and the   *)
(* assignment are three separate accesses.  One abort at a time: they come  *)
(* from the user-interface thread.                                          *)

(* Mutant: the capability is not checked.                                   *)
AbortCheckedAlways(u) ==
  /\ Callable(u)
  /\ \A v \in Users : aborting[v] = "none"
  /\ aborting' = [aborting EXCEPT ![u] = "supported"]
  /\ UNCHANGED <<callVars, stateVars, poller, begin, disc, session, peak, historyVars>>

AbortChecked(u) ==
  /\ Callable(u)
  /\ \A v \in Users : aborting[v] = "none"
  /\ IsCapturing(userState[u]) => CancelSupported
  /\ aborting' = [aborting EXCEPT ![u] = "supported"]
  /\ UNCHANGED <<callVars, stateVars, poller, begin, disc, session, peak, historyVars>>

AbortPolling(u) ==
  /\ LockFree
  /\ aborting[u] = "supported"
  /\ userState[u] # "WaitingToBeginCapture"
  /\ shouldPoll' = FALSE
  /\ aborting' = [aborting EXCEPT ![u] = "none"]
  /\ UNCHANGED <<callVars, userState, disabledUsers, capturingUser, poller, begin, disc,
                 session, peak, historyVars>>

AbortSeesWaiting(u) ==
  /\ LockFree
  /\ aborting[u] = "supported"
  /\ userState[u] = "WaitingToBeginCapture"
  /\ aborting' = [aborting EXCEPT ![u] = "waiting"]
  /\ UNCHANGED <<callVars, stateVars, poller, begin, disc, session, peak, historyVars>>

AbortWaiting(u) ==
  /\ LockFree
  /\ aborting[u] = "waiting"
  /\ SetState("Idle", u)
  /\ aborting' = [aborting EXCEPT ![u] = "none"]
  /\ UNCHANGED <<callVars, disabledUsers, capturingUser, shouldPoll, poller, begin, disc,
                 session, peak, historyVars>>

------------------------------------------------------------------------------
(* The polling thread: PollForTraceCollectionFinished.                     *)

pollUnchanged == <<callVars, disabledUsers, begin, aborting, disc>>

(* Mutant: the flag is not read again.                                      *)
PollForever ==
  /\ poller.pc = "polling"
  /\ poller' = [poller EXCEPT !.pc = "collect"]
  /\ UNCHANGED <<pollUnchanged, userState, capturingUser, shouldPoll, session, peak,
                 historyVars>>

(* while (should_poll_for_trace_): the flag is read once per round.         *)
PollLoop ==
  /\ poller.pc = "polling"
  /\ poller' = [poller EXCEPT !.pc = IF shouldPoll THEN "collect" ELSE "exiting"]
  /\ UNCHANGED <<pollUnchanged, userState, capturingUser, shouldPoll, session, peak,
                 historyVars>>

(* CollectTrace before anything is written: not ready, or an error.         *)
CollectNothing ==
  /\ poller.pc = "collect"
  /\ poller' = [poller EXCEPT !.pc = "polling"]
  /\ UNCHANGED <<pollUnchanged, userState, capturingUser, shouldPoll, session, peak,
                 historyVars>>

(* The writer begins: OnWritingStatusEvent.                                 *)
CollectWrites ==
  /\ LockFree
  /\ poller.pc = "collect"
  /\ session = "data"
  /\ SetState("Dumping", capturingUser)
  /\ poller' = [poller EXCEPT !.pc = "writing"]
  /\ UNCHANGED <<pollUnchanged, capturingUser, shouldPoll, session, peak, historyVars>>

(* An error after writing began: wrote_file is FALSE all the same, so       *)
(* nothing is reported and the loop goes on.                                *)
CollectFails ==
  /\ poller.pc = "writing"
  /\ poller' = [poller EXCEPT !.pc = "polling"]
  /\ UNCHANGED <<pollUnchanged, userState, capturingUser, shouldPoll, session, peak,
                 historyVars>>

CollectSucceeds(chunkOk) ==
  /\ poller.pc = "writing"
  /\ session' = "ready"
  /\ shouldPoll' = FALSE
  /\ poller' = [poller EXCEPT !.pc = "exiting", !.collected = TRUE, !.chunkOk = chunkOk]
  /\ UNCHANGED <<pollUnchanged, userState, capturingUser, peak, historyVars>>

(* Mutants: capturing_user_ is read but not reset, or reset before it is    *)
(* read.                                                                    *)
LoadCapturingUser ==
  /\ poller.pc = "exiting"
  /\ poller' = [poller EXCEPT !.pc = "finishing", !.captured = capturingUser]
  /\ UNCHANGED <<pollUnchanged, userState, capturingUser, shouldPoll, session, peak,
                 historyVars>>

ResetThenLoadCapturingUser ==
  /\ poller.pc = "exiting"
  /\ poller' = [poller EXCEPT !.pc = "finishing", !.captured = NoUser]
  /\ capturingUser' = NoUser
  /\ UNCHANGED <<pollUnchanged, userState, shouldPoll, session, peak, historyVars>>

(* capturing_user_.exchange(kInvalidUbertraceUserId), before the lock.      *)
ExchangeCapturingUser ==
  /\ poller.pc = "exiting"
  /\ poller' = [poller EXCEPT !.pc = "finishing", !.captured = capturingUser]
  /\ capturingUser' = NoUser
  /\ UNCHANGED <<pollUnchanged, userState, shouldPoll, session, peak, historyVars>>

(* For automatic captures SetUserIsDisabled(captured_user, true, kDone).    *)
DisableAfterAuto ==
  disabledUsers' = IF poller.auto THEN disabledUsers \cup {poller.captured}
                                  ELSE disabledUsers

FinalState == IF poller.auto THEN "Done" ELSE "Idle"

(* client_utils.TraceCompleted of the client that started the thread.       *)
Complete(u) == completed' = [completed EXCEPT ![u] = @ + 1]

finishUnchanged == <<callVars, begin, aborting, disc, capturingUser, shouldPoll, peak>>

(* Mutant: the early return is missing, so the completion is reported too.  *)
FinishChunkErrorFallsThrough ==
  /\ LockFree
  /\ poller.pc = "finishing" /\ poller.collected /\ ~poller.chunkOk
  /\ DisableAfterAuto
  /\ completed' = [completed EXCEPT ![poller.user] = @ + 2]
  /\ SetState(FinalState, poller.captured)
  /\ poller' = [NoThread EXCEPT !.pc = "ending", !.user = poller.user]
  /\ UNCHANGED <<finishUnchanged, session, requested>>

(* HandleSuccessfulTrace, additional chunks not written.                    *)
FinishChunkError ==
  /\ LockFree
  /\ poller.pc = "finishing" /\ poller.collected /\ ~poller.chunkOk
  /\ DisableAfterAuto
  /\ Complete(poller.user)
  /\ SetState("Idle", poller.captured)
  /\ poller' = [NoThread EXCEPT !.pc = "ending", !.user = poller.user]
  /\ UNCHANGED <<finishUnchanged, session, requested>>

(* HandleSuccessfulTrace without on_completed.                              *)
FinishCompleted ==
  /\ LockFree
  /\ poller.pc = "finishing" /\ poller.collected /\ poller.chunkOk
  /\ DisableAfterAuto
  /\ Complete(poller.user)
  /\ SetState(FinalState, poller.captured)
  /\ poller' = [NoThread EXCEPT !.pc = "ending", !.user = poller.user]
  /\ UNCHANGED <<finishUnchanged, session, requested>>

(* HandleSuccessfulTrace with on_completed: SPM processing under the lock.  *)
FinishProcessing ==
  /\ LockFree
  /\ poller.pc = "finishing" /\ poller.collected /\ poller.chunkOk
  /\ poller.user \in RgpUsers
  /\ DisableAfterAuto
  /\ SetState("PostProcessing", poller.captured)
  /\ poller' = [poller EXCEPT !.pc = "processing"]
  /\ UNCHANGED <<finishUnchanged, session, historyVars>>

ProcessingDone ==
  /\ poller.pc = "processing"
  /\ Complete(poller.user)
  /\ SetState(FinalState, poller.captured)
  /\ poller' = [NoThread EXCEPT !.pc = "ending", !.user = poller.user]
  /\ UNCHANGED <<finishUnchanged, disabledUsers, session, requested>>

(* HandleUnsuccessfulTrace; AbortTrace leaves kBusy on kInvalidUser.        *)
FinishAborted(cancelOk) ==
  /\ LockFree
  /\ poller.pc = "finishing" /\ ~poller.collected
  /\ DisableAfterAuto
  /\ Complete(poller.user)
  /\ session' = IF cancelOk THEN "ready" ELSE session
  /\ userState' = [userState EXCEPT ![NoUser] = "Busy",
                                    ![poller.captured] = IF cancelOk THEN FinalState
                                                                     ELSE "Error"]
  /\ poller' = [NoThread EXCEPT !.pc = "ending", !.user = poller.user]
  /\ UNCHANGED <<finishUnchanged, requested>>

(* Mutant: tracing_ended() called with user_state_mutex_ held.              *)
PollerEndsLocked ==
  /\ LockFree
  /\ poller.pc = "ending"
  /\ TracingEnded(poller.user)
  /\ poller' = [NoThread EXCEPT !.pc = "exited"]
  /\ UNCHANGED <<pollUnchanged, userState, capturingUser, shouldPoll, session, historyVars>>

(* deps.tracing_ended(), after the lock is released.                        *)
PollerEnds ==
  /\ poller.pc = "ending"
  /\ TracingEnded(poller.user)
  /\ poller' = [NoThread EXCEPT !.pc = "exited"]
  /\ UNCHANGED <<pollUnchanged, userState, capturingUser, shouldPoll, session, historyVars>>

------------------------------------------------------------------------------
(* Disconnect, on the DevDriver thread.                                    *)

discUnchanged == <<enabledTracing, prelim, postInit, disabledUsers, capturingUser, begin,
                   aborting, peak, historyVars>>

(* should_join = user_id == capturing_user_, without the lock.              *)
DisconnectStart(u) ==
  /\ disc.pc = "none"
  /\ client[u] = "live"
  /\ client' = [client EXCEPT ![u] = "leaving"]
  /\ disc' = [pc |-> "count", user |-> u, join |-> capturingUser = u]
  /\ UNCHANGED <<discUnchanged, initialized, apiConnected, userState, shouldPoll, poller,
                 session>>

DisconnectCount ==
  /\ LockFree
  /\ disc.pc = "count"
  /\ disc' = [disc EXCEPT !.pc = "signal", !.join = @ \/ initialized = {disc.user}]
  /\ UNCHANGED <<discUnchanged, client, initialized, apiConnected, userState, shouldPoll,
                 poller, session>>

(* Mutant: the thread is joined without being told to stop.                 *)
DisconnectJoinOnly ==
  /\ disc.pc = "signal"
  /\ disc' = [disc EXCEPT !.pc = IF disc.join THEN "join" ELSE "erase", !.join = FALSE]
  /\ UNCHANGED <<discUnchanged, client, initialized, apiConnected, userState, shouldPoll,
                 poller, session>>

DisconnectSignal ==
  /\ disc.pc = "signal"
  /\ shouldPoll' = (shouldPoll /\ ~disc.join)
  /\ disc' = [disc EXCEPT !.pc = IF disc.join THEN "join" ELSE "erase", !.join = FALSE]
  /\ UNCHANGED <<discUnchanged, client, initialized, apiConnected, userState, poller,
                 session>>

DisconnectJoined ==
  /\ disc.pc = "join"
  /\ poller.pc \in {"none", "exited"}
  /\ poller' = NoThread
  /\ disc' = [disc EXCEPT !.pc = "erase"]
  /\ UNCHANGED <<discUnchanged, client, initialized, apiConnected, userState, shouldPoll,
                 session>>

LastUser == initialized = {disc.user}

(* The erase is not under the lock; the last user disconnects the API.      *)
DisconnectErase ==
  /\ disc.pc = "erase"
  /\ initialized' = initialized \ {disc.user}
  /\ apiConnected' = (apiConnected /\ ~LastUser)
  /\ session' = IF LastUser THEN "ready" ELSE session
  /\ disc' = IF LastUser THEN [disc EXCEPT !.pc = "done"] ELSE IdleDisc
  /\ client' = IF LastUser THEN client ELSE [client EXCEPT ![disc.user] = "gone"]
  /\ UNCHANGED <<discUnchanged, userState, shouldPoll, poller>>

DisconnectDone ==
  /\ LockFree
  /\ disc.pc = "done"
  /\ SetState("Done", NoUser)
  /\ client' = [client EXCEPT ![disc.user] = "gone"]
  /\ disc' = IdleDisc
  /\ UNCHANGED <<discUnchanged, initialized, apiConnected, shouldPoll, poller, session>>

------------------------------------------------------------------------------
(* The driver finishes the trace it was asked for.                         *)

TraceReady ==
  /\ session = "tracing"
  /\ session' = "data"
  /\ UNCHANGED <<callVars, stateVars, poller, begin, aborting, disc, peak, historyVars>>

------------------------------------------------------------------------------
(* Properties.                                                             *)

BeforeExchange == poller.pc \in {"polling", "collect", "writing", "exiting"}
PollerActive   == BeforeExchange \/ poller.pc \in {"finishing", "processing"}

(* capturing_user_ is written by RequestBeginTrace under the lock and       *)
(* exchanged by the polling thread without it: it always names the user     *)
(* whose capture the running thread polls for, so the writing-status event, *)
(* the final state and the completion all go to the same user.              *)
CapturingUserIsPolled ==
  /\ capturingUser = IF BeforeExchange THEN poller.user ELSE NoUser
  /\ poller.pc \in {"finishing", "processing"} => poller.captured = poller.user
  /\ PollerActive => poller.user \in Users

(* A user shown as capturing, dumping or post-processing has a polling      *)
(* thread working for it: no interleaving of begin, abort and disconnect    *)
(* leaves a client stuck in a capture nobody will finish.                   *)
CapturingHasPoller ==
  \A u \in Users : userState[u] \in {"Capturing", "Dumping", "PostProcessing"} =>
                      PollerActive /\ poller.user = u

InFlight(u) ==
  (IF PollerActive /\ poller.user = u THEN 1 ELSE 0)
  + (IF begin.joining /\ begin.user = u THEN 1 ELSE 0)

(* Every capture the driver accepts is reported to its trace source exactly *)
(* once: completed, aborted or failed, whoever stops the polling.           *)
CompletedOnce == \A u \in Users : requested[u] = completed[u] + InFlight(u)

------------------------------------------------------------------------------

Caller(u) ==
  \/ \E connectOk, enableOk \in BOOLEAN : Initialize(u, connectOk, enableOk)
  \/ HandleDriverState(u)
  \/ PrepareForDelayedCapture(u)
  \/ BeginConfigFails(u)
  \/ BeginRequestFails(u)
  \/ \E auto \in BOOLEAN : RequestBeginTrace(u, auto)
  \/ AbortChecked(u)
  \/ AbortPolling(u)
  \/ AbortSeesWaiting(u)
  \/ AbortWaiting(u)
  \/ DisconnectStart(u)

DisconnectStep ==
  \/ DisconnectCount
  \/ DisconnectSignal
  \/ DisconnectJoined
  \/ DisconnectErase
  \/ DisconnectDone

PollerFinish ==
  \/ FinishChunkError
  \/ FinishCompleted
  \/ FinishProcessing
  \/ ProcessingDone
  \/ \E cancelOk \in BOOLEAN : FinishAborted(cancelOk)

PollerStep ==
  \/ PollLoop
  \/ CollectNothing
  \/ CollectWrites
  \/ CollectFails
  \/ \E chunkOk \in BOOLEAN : CollectSucceeds(chunkOk)
  \/ ExchangeCapturingUser
  \/ PollerFinish
  \/ PollerEnds

Next ==
  \/ \E u \in Users : Caller(u)
  \/ BeginJoined
  \/ PollerStep
  \/ DisconnectStep
  \/ TraceReady

Spec == Init /\ [][Next]_vars

(* Threads are scheduled and the lock is fair enough: every step of the     *)
(* polling thread, of a begin that has joined and of a Disconnect under way *)
(* is eventually taken.  Nothing obliges a caller, or the driver, to act.   *)
FairSpec ==
  /\ Spec
  /\ WF_vars(PollerStep)
  /\ WF_vars(BeginJoined)
  /\ WF_vars(DisconnectStep)

------------------------------------------------------------------------------
(* The orchestrator implements CaptureSequence.                             *)

CurrentUser == IF PollerActive THEN poller.user ELSE NoUser
WaitingUser == IF begin.joining THEN begin.user ELSE NoUser

Captures == INSTANCE CaptureSequence
              WITH current <- CurrentUser, waiting <- WaitingUser,
                   accepted <- requested, reported <- completed

(* Whatever the order of begins, aborts and disconnects, the captures of    *)
(* the users that share a connection are taken one at a time and each is    *)
(* reported to its own user before the next one starts.                     *)
CapturesInSequence == Captures!Spec

==============================================================================
