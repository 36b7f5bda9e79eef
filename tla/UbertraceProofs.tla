--------------------------- MODULE UbertraceProofs ---------------------------
(***************************************************************************)
(* What UbertraceOrchestrator guarantees for any users, any subset of them *)
(* being RGP users, with or without cancellation, and any number of        *)
(* captures; and then, that the threads that call it keep to its rules, so  *)
(* that all of it holds of the composition, where a delayed capture that    *)
(* was cancelled stays cancelled.                                          *)
(***************************************************************************)
EXTENDS UbertraceClient, TLAPS

(* ---------- The orchestrator with arbitrary callers. ---------- *)

(* The four steps of Next, flattened: every action of the component.        *)
LEMMA Steps ==
  ASSUME Next
  PROVE  \/ \E u \in Users, a, b \in BOOLEAN : Initialize(u, a, b)
         \/ \E u \in Users : HandleDriverState(u)
         \/ \E u \in Users : PrepareForDelayedCapture(u)
         \/ \E u \in Users : BeginConfigFails(u)
         \/ \E u \in Users : BeginRequestFails(u)
         \/ \E u \in Users, a \in BOOLEAN : RequestBeginTrace(u, a)
         \/ BeginJoined
         \/ \E u \in Users : AbortChecked(u) \/ AbortSeesWaiting(u)
         \/ \E u \in Users : AbortPolling(u)
         \/ \E u \in Users : AbortWaiting(u)
         \/ PollLoop \/ CollectNothing
         \/ CollectWrites
         \/ CollectFails
         \/ \E a \in BOOLEAN : CollectSucceeds(a)
         \/ ExchangeCapturingUser
         \/ FinishChunkError
         \/ FinishCompleted
         \/ FinishProcessing
         \/ ProcessingDone
         \/ \E a \in BOOLEAN : FinishAborted(a)
         \/ PollerEnds
         \/ \E u \in Users : DisconnectStart(u)
         \/ DisconnectCount
         \/ DisconnectSignal
         \/ DisconnectJoined
         \/ DisconnectErase
         \/ DisconnectDone
         \/ TraceReady
BY DEF Next, Caller, PollerStep, PollerFinish, DisconnectStep

(* Type correctness needs to know who is behind a begin inside join(), a    *)
(* Disconnect under way and a running poller.                               *)
KnownUsers ==
  /\ begin.joining => begin.user \in Users
  /\ disc.pc # "none" => disc.user \in Users
  /\ PollerActive => poller.user \in Users
  /\ poller.pc \in {"finishing", "processing"} => poller.captured \in Users \cup {NoUser}

TInv == TypeOK /\ KnownUsers

(* The names used as values; the sets stay folded in the proofs below.      *)
LEMMA Names ==
  /\ "pending" \in Lifetimes /\ "live" \in Lifetimes /\ "dropped" \in Lifetimes
  /\ "leaving" \in Lifetimes /\ "gone" \in Lifetimes
  /\ "Disabled" \in ClientStates /\ "Error" \in ClientStates /\ "Done" \in ClientStates
  /\ "Busy" \in ClientStates /\ "Idle" \in ClientStates
  /\ "WaitingToBeginCapture" \in ClientStates /\ "Capturing" \in ClientStates
  /\ "PostProcessing" \in ClientStates /\ "Dumping" \in ClientStates
  /\ \A x \in {"none", "polling", "collect", "writing", "exiting", "finishing",
                 "processing", "ending", "exited"} : x \in PollerPcs
  /\ \A x \in {"none", "count", "signal", "join", "erase", "done"} : x \in DiscPcs
BY DEF Lifetimes, ClientStates, PollerPcs, DiscPcs

(* A new polling thread is well typed, and so is the rest of its start.     *)
LEMMA StartTyped ==
  ASSUME NEW u \in Users, NEW a \in BOOLEAN, TypeOK, StartPolling(u, a)
  PROVE  /\ poller' \in PollerType /\ poller'.pc = "polling" /\ poller'.user = u
         /\ shouldPoll' \in BOOLEAN
         /\ userState' \in [Users \cup {NoUser} -> ClientStates]
         /\ capturingUser' = u
<1>1. poller' = [pc |-> "polling", user |-> u, auto |-> a, captured |-> NoUser,
                 collected |-> FALSE, chunkOk |-> TRUE]
  BY DEF StartPolling, NoThread
<1>2. poller' \in PollerType /\ poller'.pc = "polling" /\ poller'.user = u
  BY <1>1 DEF PollerType, PollerPcs
<1>3. shouldPoll' \in BOOLEAN
  BY Zenon DEF StartPolling
<1>4. userState' \in [Users \cup {NoUser} -> ClientStates]
  BY DEF StartPolling, SetState, TypeOK, ClientStates
<1> QED
  BY <1>2, <1>3, <1>4 DEF StartPolling

LEMMA TInvInit == Init => TInv
<1> SUFFICES ASSUME Init PROVE TInv
  OBVIOUS
<1>1. NoThread \in PollerType /\ NoBegin \in BeginType /\ IdleDisc \in DiscType
  BY Names DEF NoThread, NoBegin, IdleDisc, PollerType, BeginType, DiscType
<1>2. TypeOK
  BY <1>1, Names DEF Init, TypeOK
<1>3. KnownUsers
  BY DEF Init, KnownUsers, PollerActive, BeforeExchange, IdleDisc, NoBegin, NoThread
<1> QED
  BY <1>2, <1>3 DEF TInv

LEMMA TInvStep == TInv /\ [Next]_vars => TInv'
<1> SUFFICES ASSUME TInv, [Next]_vars PROVE TInv'
  OBVIOUS
<1>1. ASSUME NEW u \in Users, NEW a \in BOOLEAN, NEW b \in BOOLEAN, Initialize(u, a, b)
      PROVE  TInv'
  <2>1. apiConnected' \in BOOLEAN
    BY <1>1 DEF Initialize, TInv, TypeOK
  <2>2. enabledTracing' \in BOOLEAN
    BY <1>1 DEF Initialize, TInv, TypeOK
  <2>3. TypeOK'
    BY <1>1, <2>1, <2>2, Names DEF Initialize, SetState, TInv, TypeOK,
       historyVars
  <2>4. KnownUsers'
    BY <1>1 DEF Initialize, TInv, KnownUsers, PollerActive, BeforeExchange,
       historyVars
  <2> QED
    BY <2>3, <2>4 DEF TInv
<1>2. ASSUME NEW u \in Users, HandleDriverState(u)
      PROVE  TInv'
  <2>1. TypeOK'
    BY <1>2, Names DEF HandleDriverState, TInv, TypeOK, stateVars,
       historyVars
  <2>2. KnownUsers'
    BY <1>2 DEF HandleDriverState, TInv, KnownUsers, PollerActive,
       BeforeExchange, stateVars, historyVars
  <2> QED
    BY <2>1, <2>2 DEF TInv
<1>3. ASSUME NEW u \in Users, PrepareForDelayedCapture(u)
      PROVE  TInv'
  <2>1. TypeOK'
    BY <1>3, Names DEF PrepareForDelayedCapture, SetState, TInv, TypeOK,
       callVars, historyVars
  <2>2. KnownUsers'
    BY <1>3 DEF PrepareForDelayedCapture, TInv, KnownUsers, PollerActive,
       BeforeExchange, callVars, historyVars
  <2> QED
    BY <2>1, <2>2 DEF TInv
<1>4. ASSUME NEW u \in Users, BeginConfigFails(u)
      PROVE  TInv'
  <2>1. TypeOK'
    BY <1>4, Names DEF BeginConfigFails, SetState, TInv, TypeOK, callVars,
       historyVars
  <2>2. KnownUsers'
    BY <1>4 DEF BeginConfigFails, TInv, KnownUsers, PollerActive,
       BeforeExchange, callVars, historyVars
  <2> QED
    BY <2>1, <2>2 DEF TInv
<1>5. ASSUME NEW u \in Users, BeginRequestFails(u)
      PROVE  TInv'
  <2>1. peak' \in BOOLEAN
    BY <1>5 DEF BeginRequestFails, TracingEnded, TInv, TypeOK
  <2>2. TypeOK'
    BY <1>5, <2>1, Names DEF BeginRequestFails, TracingEnded, SetState, TInv,
       TypeOK, callVars, historyVars
  <2>3. KnownUsers'
    BY <1>5 DEF BeginRequestFails, TInv, KnownUsers, PollerActive,
       BeforeExchange, callVars, historyVars
  <2> QED
    BY <2>2, <2>3 DEF TInv
<1>6. ASSUME NEW u \in Users, NEW a \in BOOLEAN, RequestBeginTrace(u, a)
      PROVE  TInv'
  <2>1. UNCHANGED <<callVars, disabledUsers, aborting, disc, completed>>
    BY <1>6 DEF RequestBeginTrace
  <2>2. session' = "tracing" /\ requested' \in [Users -> Nat]
    BY <1>6 DEF RequestBeginTrace, TInv, TypeOK
  <2>3. peak' \in BOOLEAN
    BY <1>6 DEF RequestBeginTrace, TracingStarted
  <2>4. CASE poller.pc = "none"
    <3>1. StartPolling(u, a) /\ UNCHANGED begin
      BY <1>6, <2>4 DEF RequestBeginTrace
    <3> QED
      BY <2>1, <2>2, <2>3, <3>1, StartTyped
         DEF TInv, TypeOK, KnownUsers, PollerActive, BeforeExchange, callVars
  <2>5. CASE poller.pc # "none"
    <3>1. /\ begin' = [joining |-> TRUE, user |-> u, auto |-> a]
          /\ UNCHANGED <<userState, capturingUser, shouldPoll, poller>>
      BY <1>6, <2>5 DEF RequestBeginTrace
    <3>2. begin' \in BeginType /\ begin'.user = u
      BY <3>1 DEF BeginType
    <3> QED
      BY <2>1, <2>2, <2>3, <3>1, <3>2
         DEF TInv, TypeOK, KnownUsers, PollerActive, BeforeExchange, callVars
  <2> QED
    BY <2>4, <2>5
<1>7. ASSUME BeginJoined PROVE TInv'
  <2>1. begin.user \in Users /\ begin.auto \in BOOLEAN
    BY <1>7 DEF BeginJoined, TInv, TypeOK, KnownUsers, BeginType
  <2>2. StartPolling(begin.user, begin.auto) /\ begin' = NoBegin
    BY <1>7 DEF BeginJoined
  <2>3. begin' \in BeginType /\ ~begin'.joining
    BY <2>2 DEF NoBegin, BeginType
  <2>4. UNCHANGED <<callVars, disabledUsers, aborting, disc, session, peak, historyVars>>
    BY <1>7 DEF BeginJoined
  <2> QED
    BY <2>1, <2>2, <2>3, <2>4, StartTyped
       DEF TInv, TypeOK, KnownUsers, PollerActive, BeforeExchange, callVars, historyVars
<1>8. ASSUME NEW u \in Users, AbortChecked(u)
      PROVE  TInv'
  <2>1. TypeOK'
    BY <1>8, Names DEF AbortChecked, TInv, TypeOK, callVars, stateVars,
       historyVars
  <2>2. KnownUsers'
    BY <1>8 DEF AbortChecked, TInv, KnownUsers, PollerActive, BeforeExchange,
       callVars, stateVars, historyVars
  <2> QED
    BY <2>1, <2>2 DEF TInv
<1>9. ASSUME NEW u \in Users, AbortSeesWaiting(u)
      PROVE  TInv'
  <2>1. TypeOK'
    BY <1>9, Names DEF AbortSeesWaiting, TInv, TypeOK, callVars, stateVars,
       historyVars
  <2>2. KnownUsers'
    BY <1>9 DEF AbortSeesWaiting, TInv, KnownUsers, PollerActive,
       BeforeExchange, callVars, stateVars, historyVars
  <2> QED
    BY <2>1, <2>2 DEF TInv
<1>10. ASSUME NEW u \in Users, AbortPolling(u)
      PROVE  TInv'
  <2>1. TypeOK'
    BY <1>10, Names DEF AbortPolling, TInv, TypeOK, callVars, historyVars
  <2>2. KnownUsers'
    BY <1>10 DEF AbortPolling, TInv, KnownUsers, PollerActive,
       BeforeExchange, callVars, historyVars
  <2> QED
    BY <2>1, <2>2 DEF TInv
<1>11. ASSUME NEW u \in Users, AbortWaiting(u)
      PROVE  TInv'
  <2>1. TypeOK'
    BY <1>11, Names DEF AbortWaiting, SetState, TInv, TypeOK, callVars,
       historyVars
  <2>2. KnownUsers'
    BY <1>11 DEF AbortWaiting, TInv, KnownUsers, PollerActive,
       BeforeExchange, callVars, historyVars
  <2> QED
    BY <2>1, <2>2 DEF TInv
<1>12. ASSUME PollLoop PROVE TInv'
  <2>1. poller' \in PollerType
    BY <1>12, Names DEF PollLoop, TInv, TypeOK, PollerType
  <2>2. TypeOK'
    BY <1>12, <2>1, Names DEF PollLoop, pollUnchanged, TInv, TypeOK,
       callVars, historyVars
  <2>3. KnownUsers'
    BY <1>12 DEF PollLoop, pollUnchanged, TInv, KnownUsers, PollerActive,
       BeforeExchange, TypeOK, PollerType, callVars, historyVars
  <2> QED
    BY <2>2, <2>3 DEF TInv
<1>13. ASSUME CollectNothing PROVE TInv'
  <2>1. poller' \in PollerType
    BY <1>13, Names DEF CollectNothing, TInv, TypeOK, PollerType
  <2>2. TypeOK'
    BY <1>13, <2>1, Names DEF CollectNothing, pollUnchanged, TInv, TypeOK,
       callVars, historyVars
  <2>3. KnownUsers'
    BY <1>13 DEF CollectNothing, pollUnchanged, TInv, KnownUsers,
       PollerActive, BeforeExchange, TypeOK, PollerType, callVars,
       historyVars
  <2> QED
    BY <2>2, <2>3 DEF TInv
<1>14. ASSUME CollectWrites PROVE TInv'
  <2>1. poller' \in PollerType
    BY <1>14, Names DEF CollectWrites, TInv, TypeOK, PollerType
  <2>2. TypeOK'
    BY <1>14, <2>1, Names DEF CollectWrites, pollUnchanged, SetState, TInv,
       TypeOK, PollerType, callVars, historyVars
  <2>3. KnownUsers'
    BY <1>14 DEF CollectWrites, pollUnchanged, TInv, KnownUsers,
       PollerActive, BeforeExchange, TypeOK, PollerType, callVars,
       historyVars
  <2> QED
    BY <2>2, <2>3 DEF TInv
<1>15. ASSUME CollectFails PROVE TInv'
  <2>1. poller' \in PollerType
    BY <1>15, Names DEF CollectFails, TInv, TypeOK, PollerType
  <2>2. TypeOK'
    BY <1>15, <2>1, Names DEF CollectFails, pollUnchanged, TInv, TypeOK,
       callVars, historyVars
  <2>3. KnownUsers'
    BY <1>15 DEF CollectFails, pollUnchanged, TInv, KnownUsers, PollerActive,
       BeforeExchange, TypeOK, PollerType, callVars, historyVars
  <2> QED
    BY <2>2, <2>3 DEF TInv
<1>16. ASSUME NEW a \in BOOLEAN, CollectSucceeds(a)
      PROVE  TInv'
  <2>1. poller' \in PollerType
    BY <1>16, Names DEF CollectSucceeds, TInv, TypeOK, PollerType
  <2>2. TypeOK'
    BY <1>16, <2>1, Names DEF CollectSucceeds, pollUnchanged, TInv, TypeOK,
       callVars, historyVars
  <2>3. KnownUsers'
    BY <1>16 DEF CollectSucceeds, pollUnchanged, TInv, KnownUsers,
       PollerActive, BeforeExchange, TypeOK, PollerType, callVars,
       historyVars
  <2> QED
    BY <2>2, <2>3 DEF TInv
<1>17. ASSUME ExchangeCapturingUser PROVE TInv'
  <2>1. poller' \in PollerType
    BY <1>17, Names DEF ExchangeCapturingUser, TInv, TypeOK, PollerType
  <2>2. TypeOK'
    BY <1>17, <2>1, Names DEF ExchangeCapturingUser, pollUnchanged, TInv,
       TypeOK, callVars, historyVars
  <2>3. KnownUsers'
    BY <1>17 DEF ExchangeCapturingUser, pollUnchanged, TInv, KnownUsers,
       PollerActive, BeforeExchange, TypeOK, PollerType, callVars,
       historyVars
  <2> QED
    BY <2>2, <2>3 DEF TInv
<1>18. ASSUME FinishChunkError PROVE TInv'
  <2>1. poller' \in PollerType
    BY <1>18, Names DEF FinishChunkError, TInv, TypeOK, KnownUsers,
       PollerActive, BeforeExchange, PollerType, NoThread
  <2>2. TypeOK'
    BY <1>18, <2>1, Names DEF FinishChunkError, finishUnchanged,
       DisableAfterAuto, Complete, FinalState, SetState, TInv, TypeOK,
       KnownUsers, PollerActive, BeforeExchange, PollerType, callVars
  <2>3. KnownUsers'
    BY <1>18 DEF FinishChunkError, finishUnchanged, TInv, KnownUsers,
       PollerActive, BeforeExchange, TypeOK, PollerType, NoThread, callVars
  <2> QED
    BY <2>2, <2>3 DEF TInv
<1>19. ASSUME FinishCompleted PROVE TInv'
  <2>1. poller' \in PollerType
    BY <1>19, Names DEF FinishCompleted, TInv, TypeOK, KnownUsers,
       PollerActive, BeforeExchange, PollerType, NoThread
  <2>2. TypeOK'
    BY <1>19, <2>1, Names DEF FinishCompleted, finishUnchanged,
       DisableAfterAuto, Complete, FinalState, SetState, TInv, TypeOK,
       KnownUsers, PollerActive, BeforeExchange, PollerType, callVars
  <2>3. KnownUsers'
    BY <1>19 DEF FinishCompleted, finishUnchanged, TInv, KnownUsers,
       PollerActive, BeforeExchange, TypeOK, PollerType, NoThread, callVars
  <2> QED
    BY <2>2, <2>3 DEF TInv
<1>20. ASSUME FinishProcessing PROVE TInv'
  <2>1. poller' \in PollerType
    BY <1>20, Names DEF FinishProcessing, TInv, TypeOK, KnownUsers,
       PollerActive, BeforeExchange, PollerType
  <2>2. TypeOK'
    BY <1>20, <2>1, Names DEF FinishProcessing, finishUnchanged,
       DisableAfterAuto, Complete, FinalState, SetState, TInv, TypeOK,
       KnownUsers, PollerActive, BeforeExchange, PollerType, callVars,
       historyVars
  <2>3. KnownUsers'
    BY <1>20 DEF FinishProcessing, finishUnchanged, TInv, KnownUsers,
       PollerActive, BeforeExchange, TypeOK, PollerType, callVars,
       historyVars
  <2> QED
    BY <2>2, <2>3 DEF TInv
<1>21. ASSUME ProcessingDone PROVE TInv'
  <2>1. poller' \in PollerType
    BY <1>21, Names DEF ProcessingDone, TInv, TypeOK, KnownUsers,
       PollerActive, BeforeExchange, PollerType, NoThread
  <2>2. TypeOK'
    BY <1>21, <2>1, Names DEF ProcessingDone, finishUnchanged,
       DisableAfterAuto, Complete, FinalState, SetState, TInv, TypeOK,
       KnownUsers, PollerActive, BeforeExchange, PollerType, callVars
  <2>3. KnownUsers'
    BY <1>21 DEF ProcessingDone, finishUnchanged, TInv, KnownUsers,
       PollerActive, BeforeExchange, TypeOK, PollerType, NoThread, callVars
  <2> QED
    BY <2>2, <2>3 DEF TInv
<1>22. ASSUME NEW a \in BOOLEAN, FinishAborted(a)
      PROVE  TInv'
  <2>1. poller' \in PollerType
    BY <1>22, Names DEF FinishAborted, TInv, TypeOK, KnownUsers,
       PollerActive, BeforeExchange, PollerType, NoThread
  <2>2. TypeOK'
    BY <1>22, <2>1, Names DEF FinishAborted, finishUnchanged,
       DisableAfterAuto, Complete, FinalState, TInv, TypeOK, KnownUsers,
       PollerActive, BeforeExchange, PollerType, callVars
  <2>3. KnownUsers'
    BY <1>22 DEF FinishAborted, finishUnchanged, TInv, KnownUsers,
       PollerActive, BeforeExchange, TypeOK, PollerType, NoThread, callVars
  <2> QED
    BY <2>2, <2>3 DEF TInv
<1>23. ASSUME PollerEnds PROVE TInv'
  <2>1. poller' \in PollerType
    BY <1>23, Names DEF PollerEnds, TInv, TypeOK, PollerType, NoThread
  <2>2. peak' \in BOOLEAN
    BY <1>23 DEF PollerEnds, TracingEnded, TInv, TypeOK
  <2>3. TypeOK'
    BY <1>23, <2>1, <2>2, Names DEF PollerEnds, pollUnchanged, TracingEnded,
       TInv, TypeOK, callVars, historyVars
  <2>4. KnownUsers'
    BY <1>23 DEF PollerEnds, pollUnchanged, TInv, KnownUsers, PollerActive,
       BeforeExchange, TypeOK, PollerType, NoThread, callVars, historyVars
  <2> QED
    BY <2>3, <2>4 DEF TInv
<1>24. ASSUME NEW u \in Users, DisconnectStart(u)
      PROVE  TInv'
  <2>1. disc' \in DiscType
    BY <1>24, Names DEF DisconnectStart, TInv, TypeOK, DiscType
  <2>2. TypeOK'
    BY <1>24, <2>1, Names DEF DisconnectStart, discUnchanged, TInv, TypeOK,
       KnownUsers, historyVars
  <2>3. KnownUsers'
    BY <1>24 DEF DisconnectStart, discUnchanged, TInv, KnownUsers,
       PollerActive, BeforeExchange, TypeOK, DiscType, historyVars
  <2> QED
    BY <2>2, <2>3 DEF TInv
<1>25. ASSUME DisconnectCount PROVE TInv'
  <2>1. disc' \in DiscType
    BY <1>25, Names DEF DisconnectCount, TInv, TypeOK, DiscType
  <2>2. TypeOK'
    BY <1>25, <2>1, Names DEF DisconnectCount, discUnchanged, TInv, TypeOK,
       KnownUsers, historyVars
  <2>3. KnownUsers'
    BY <1>25 DEF DisconnectCount, discUnchanged, TInv, KnownUsers,
       PollerActive, BeforeExchange, TypeOK, DiscType, historyVars
  <2> QED
    BY <2>2, <2>3 DEF TInv
<1>26. ASSUME DisconnectSignal PROVE TInv'
  <2>1. disc' \in DiscType
    BY <1>26, Names DEF DisconnectSignal, TInv, TypeOK, DiscType
  <2>2. shouldPoll' \in BOOLEAN
    BY <1>26 DEF DisconnectSignal, TInv, TypeOK
  <2>3. TypeOK'
    BY <1>26, <2>1, <2>2, Names DEF DisconnectSignal, discUnchanged, TInv,
       TypeOK, KnownUsers, historyVars
  <2>4. KnownUsers'
    BY <1>26 DEF DisconnectSignal, discUnchanged, TInv, KnownUsers,
       PollerActive, BeforeExchange, TypeOK, DiscType, historyVars
  <2> QED
    BY <2>3, <2>4 DEF TInv
<1>27. ASSUME DisconnectJoined PROVE TInv'
  <2>1. poller' \in PollerType
    BY <1>27, Names DEF DisconnectJoined, TInv, TypeOK, PollerType, NoThread
  <2>2. disc' \in DiscType
    BY <1>27, Names DEF DisconnectJoined, TInv, TypeOK, DiscType
  <2>3. TypeOK'
    BY <1>27, <2>1, <2>2, Names DEF DisconnectJoined, discUnchanged, TInv,
       TypeOK, KnownUsers, historyVars
  <2>4. KnownUsers'
    BY <1>27 DEF DisconnectJoined, discUnchanged, TInv, KnownUsers,
       PollerActive, BeforeExchange, TypeOK, PollerType, NoThread, DiscType,
       historyVars
  <2> QED
    BY <2>3, <2>4 DEF TInv
<1>28. ASSUME DisconnectErase PROVE TInv'
  <2>1. disc' \in DiscType
    BY <1>28, Names DEF DisconnectErase, IdleDisc, LastUser, TInv, TypeOK,
       DiscType
  <2>2. apiConnected' \in BOOLEAN
    BY <1>28 DEF DisconnectErase, LastUser, TInv, TypeOK
  <2>3. TypeOK'
    BY <1>28, <2>1, <2>2, Names DEF DisconnectErase, discUnchanged, LastUser,
       TInv, TypeOK, KnownUsers, historyVars
  <2>4. KnownUsers'
    BY <1>28 DEF DisconnectErase, discUnchanged, TInv, KnownUsers,
       PollerActive, BeforeExchange, TypeOK, DiscType, IdleDisc, historyVars
  <2> QED
    BY <2>3, <2>4 DEF TInv
<1>29. ASSUME DisconnectDone PROVE TInv'
  <2>1. disc' \in DiscType
    BY <1>29, Names DEF DisconnectDone, IdleDisc, TInv, TypeOK, DiscType
  <2>2. TypeOK'
    BY <1>29, <2>1, Names DEF DisconnectDone, discUnchanged, SetState, TInv,
       TypeOK, KnownUsers, historyVars
  <2>3. KnownUsers'
    BY <1>29 DEF DisconnectDone, discUnchanged, TInv, KnownUsers,
       PollerActive, BeforeExchange, TypeOK, DiscType, IdleDisc, historyVars
  <2> QED
    BY <2>2, <2>3 DEF TInv
<1>30. ASSUME TraceReady PROVE TInv'
  <2>1. TypeOK'
    BY <1>30, Names DEF TraceReady, TInv, TypeOK, callVars, stateVars,
       historyVars
  <2>2. KnownUsers'
    BY <1>30 DEF TraceReady, TInv, KnownUsers, PollerActive, BeforeExchange,
       callVars, stateVars, historyVars
  <2> QED
    BY <2>1, <2>2 DEF TInv
<1>31. ASSUME UNCHANGED vars PROVE TInv'
  BY <1>31
     DEF vars, callVars, stateVars, historyVars, TInv, TypeOK, KnownUsers, PollerActive,
         BeforeExchange
<1> QED
  BY Steps, <1>1, <1>2, <1>3, <1>4, <1>5, <1>6, <1>7, <1>8, <1>9, <1>10,
     <1>11, <1>12, <1>13, <1>14, <1>15, <1>16, <1>17, <1>18, <1>19, <1>20,
     <1>21, <1>22, <1>23, <1>24, <1>25, <1>26, <1>27, <1>28, <1>29, <1>30,
     <1>31

(* Every variable holds a value of its type in every reachable state, for   *)
(* any number of users and captures: no interleaving of the callers, the    *)
(* polling thread and Disconnect leaves a thread with a user it never had.  *)
THEOREM TypeCorrect == Spec => []TypeOK
<1>1. TInv => TypeOK
  BY DEF TInv
<1> QED
  BY <1>1, TInvInit, TInvStep, PTL DEF Spec

------------------------------------------------------------------------------
(* The capture under way.  The three invariants lean on each other: who the *)
(* poller works for decides who it reports to, and a user shown as          *)
(* capturing is the user the poller works for.                              *)

CInv == CapturingUserIsPolled /\ CapturingHasPoller /\ CompletedOnce

LEMMA CInvInit == Init => CInv
BY UsersAssumption DEF Init, CInv, CapturingUserIsPolled, CapturingHasPoller, CompletedOnce,
   InFlight, PollerActive, BeforeExchange, NoThread, NoBegin

LEMMA CInvStep == TInv /\ CInv /\ [Next]_vars => CInv'
<1> SUFFICES ASSUME TInv, CInv, [Next]_vars PROVE CInv'
  OBVIOUS
<1> USE UsersAssumption DEF TInv, TypeOK, CInv, CapturingUserIsPolled, CapturingHasPoller,
        CompletedOnce, InFlight, PollerActive, BeforeExchange, PollerType
<1>1. ASSUME NEW u \in Users, NEW a \in BOOLEAN, NEW b \in BOOLEAN, Initialize(u, a, b)
      PROVE  CInv'
  BY <1>1 DEF Initialize, SetState, historyVars
<1>2. ASSUME NEW u \in Users, HandleDriverState(u)
      PROVE  CInv'
  BY <1>2 DEF HandleDriverState, stateVars, historyVars
<1>3. ASSUME NEW u \in Users, PrepareForDelayedCapture(u)
      PROVE  CInv'
  BY <1>3 DEF PrepareForDelayedCapture, SetState, callVars, historyVars
<1>4. ASSUME NEW u \in Users, BeginConfigFails(u)
      PROVE  CInv'
  BY <1>4 DEF BeginConfigFails, SetState, callVars, historyVars
<1>5. ASSUME NEW u \in Users, BeginRequestFails(u)
      PROVE  CInv'
  BY <1>5 DEF BeginRequestFails, SetState, callVars, historyVars
<1>6. ASSUME NEW u \in Users, NEW a \in BOOLEAN, RequestBeginTrace(u, a)
      PROVE  CInv'
  <2>1. ~begin.joining /\ requested' = [requested EXCEPT ![u] = @ + 1] /\ UNCHANGED completed
    BY <1>6 DEF RequestBeginTrace, LockFree
  <2>2. CASE poller.pc = "none"
    <3>1. StartPolling(u, a) /\ UNCHANGED begin
      BY <1>6, <2>2 DEF RequestBeginTrace
    <3>2. userState' = [userState EXCEPT ![u] = "Capturing"]
      BY <3>1 DEF StartPolling, SetState
    <3> QED
      BY <2>1, <2>2, <3>1, <3>2, StartTyped
  <2>3. CASE poller.pc # "none"
    <3>1. /\ begin' = [joining |-> TRUE, user |-> u, auto |-> a]
          /\ UNCHANGED <<userState, capturingUser, shouldPoll, poller>>
      BY <1>6, <2>3 DEF RequestBeginTrace
    <3> QED
      BY <2>1, <3>1
  <2> QED
    BY <2>2, <2>3
<1>7. ASSUME BeginJoined PROVE CInv'
  <2>1. /\ begin.joining /\ ~begin'.joining /\ UNCHANGED <<requested, completed>>
        /\ begin.user \in Users /\ begin.auto \in BOOLEAN
        /\ poller.pc \in {"none", "exited"}
    BY <1>7 DEF BeginJoined, NoBegin, KnownUsers, BeginType, historyVars
  <2>2. StartPolling(begin.user, begin.auto)
    BY <1>7 DEF BeginJoined
  <2>3. userState' = [userState EXCEPT ![begin.user] = "Capturing"]
    BY <2>2 DEF StartPolling, SetState
  <2> QED
    BY <2>1, <2>2, <2>3, StartTyped
<1>8. ASSUME NEW u \in Users, AbortChecked(u)
      PROVE  CInv'
  BY <1>8 DEF AbortChecked, callVars, stateVars, historyVars
<1>9. ASSUME NEW u \in Users, AbortSeesWaiting(u)
      PROVE  CInv'
  BY <1>9 DEF AbortSeesWaiting, callVars, stateVars, historyVars
<1>10. ASSUME NEW u \in Users, AbortPolling(u)
      PROVE  CInv'
  BY <1>10 DEF AbortPolling, callVars, historyVars
<1>11. ASSUME NEW u \in Users, AbortWaiting(u)
      PROVE  CInv'
  BY <1>11 DEF AbortWaiting, SetState, callVars, historyVars
<1>12. ASSUME PollLoop PROVE CInv'
  BY <1>12 DEF PollLoop, pollUnchanged, callVars, historyVars
<1>13. ASSUME CollectNothing PROVE CInv'
  BY <1>13 DEF CollectNothing, pollUnchanged, callVars, historyVars
<1>14. ASSUME CollectWrites PROVE CInv'
  BY <1>14 DEF CollectWrites, pollUnchanged, SetState, callVars, historyVars
<1>15. ASSUME CollectFails PROVE CInv'
  BY <1>15 DEF CollectFails, pollUnchanged, callVars, historyVars
<1>16. ASSUME NEW a \in BOOLEAN, CollectSucceeds(a)
      PROVE  CInv'
  BY <1>16 DEF CollectSucceeds, pollUnchanged, callVars, historyVars
<1>17. ASSUME ExchangeCapturingUser PROVE CInv'
  BY <1>17 DEF ExchangeCapturingUser, pollUnchanged, callVars, historyVars
<1>18. ASSUME FinishChunkError PROVE CInv'
  BY <1>18 DEF FinishChunkError, finishUnchanged, Complete, FinalState,
     SetState, NoThread, callVars
<1>19. ASSUME FinishCompleted PROVE CInv'
  BY <1>19 DEF FinishCompleted, finishUnchanged, Complete, FinalState,
     SetState, NoThread, callVars
<1>20. ASSUME FinishProcessing PROVE CInv'
  BY <1>20 DEF FinishProcessing, finishUnchanged, Complete, FinalState,
     SetState, callVars, historyVars
<1>21. ASSUME ProcessingDone PROVE CInv'
  BY <1>21 DEF ProcessingDone, finishUnchanged, Complete, FinalState,
     SetState, NoThread, callVars
<1>22. ASSUME NEW a \in BOOLEAN, FinishAborted(a)
      PROVE  CInv'
  BY <1>22 DEF FinishAborted, finishUnchanged, Complete, FinalState,
     NoThread, callVars
<1>23. ASSUME PollerEnds PROVE CInv'
  BY <1>23 DEF PollerEnds, pollUnchanged, NoThread, callVars, historyVars
<1>24. ASSUME NEW u \in Users, DisconnectStart(u)
      PROVE  CInv'
  BY <1>24 DEF DisconnectStart, discUnchanged, historyVars
<1>25. ASSUME DisconnectCount PROVE CInv'
  BY <1>25 DEF DisconnectCount, discUnchanged, historyVars
<1>26. ASSUME DisconnectSignal PROVE CInv'
  BY <1>26 DEF DisconnectSignal, discUnchanged, historyVars
<1>27. ASSUME DisconnectJoined PROVE CInv'
  BY <1>27 DEF DisconnectJoined, discUnchanged, NoThread, historyVars
<1>28. ASSUME DisconnectErase PROVE CInv'
  BY <1>28 DEF DisconnectErase, discUnchanged, historyVars
<1>29. ASSUME DisconnectDone PROVE CInv'
  BY <1>29 DEF DisconnectDone, discUnchanged, SetState, historyVars
<1>30. ASSUME TraceReady PROVE CInv'
  BY <1>30 DEF TraceReady, callVars, stateVars, historyVars
<1>31. ASSUME UNCHANGED vars PROVE CInv'
  BY <1>31 DEF vars, stateVars, historyVars
<1> QED
  BY Steps, <1>1, <1>2, <1>3, <1>4, <1>5, <1>6, <1>7, <1>8, <1>9, <1>10,
     <1>11, <1>12, <1>13, <1>14, <1>15, <1>16, <1>17, <1>18, <1>19, <1>20,
     <1>21, <1>22, <1>23, <1>24, <1>25, <1>26, <1>27, <1>28, <1>29, <1>30,
     <1>31

LEMMA Invariant == Spec => [](TInv /\ CInv)
BY TInvInit, TInvStep, CInvInit, CInvStep, PTL DEF Spec

(* capturing_user_ is exchanged without the lock, yet it always names the   *)
(* user whose capture the polling thread works on.                          *)
THEOREM CapturingUserCorrect == Spec => []CapturingUserIsPolled
<1>1. CInv => CapturingUserIsPolled
  BY DEF CInv
<1> QED
  BY <1>1, Invariant, PTL

(* No user is ever left in a capturing state without a thread that will     *)
(* take it out again.                                                       *)
THEOREM NobodyStuck == Spec => []CapturingHasPoller
<1>1. CInv => CapturingHasPoller
  BY DEF CInv
<1> QED
  BY <1>1, Invariant, PTL

(* Every capture the driver accepts is reported once, however many users    *)
(* share the connection and whoever stops the polling.                      *)
THEOREM ReportedOnce == Spec => []CompletedOnce
<1>1. CInv => CompletedOnce
  BY DEF CInv
<1> QED
  BY <1>1, Invariant, PTL

------------------------------------------------------------------------------
(* The orchestrator implements CaptureSequence: five kinds of step matter,  *)
(* every other step leaves the mapped variables alone.                      *)

LEMMA SequenceInit == Init => Captures!Init
BY DEF Init, Captures!Init, CurrentUser, WaitingUser, PollerActive, BeforeExchange,
   NoThread, NoBegin

LEMMA SequenceStep ==
  TInv /\ CInv /\ [Next]_vars => [Captures!Next]_(Captures!captureVars)
<1> SUFFICES ASSUME TInv, CInv, [Next]_vars
             PROVE  Captures!Next \/ UNCHANGED Captures!captureVars
  OBVIOUS
<1> USE UsersAssumption DEF Captures!captureVars, CurrentUser, WaitingUser, PollerActive,
        BeforeExchange, TInv, TypeOK, PollerType
<1> DEFINE Goal == Captures!Next \/ UNCHANGED Captures!captureVars
<1>1. ASSUME NEW u \in Users, NEW a \in BOOLEAN, NEW b \in BOOLEAN, Initialize(u, a, b)
      PROVE  Goal
  BY <1>1 DEF Initialize, historyVars
<1>2. ASSUME NEW u \in Users, HandleDriverState(u)
      PROVE  Goal
  BY <1>2 DEF HandleDriverState, stateVars, historyVars
<1>3. ASSUME NEW u \in Users, PrepareForDelayedCapture(u)
      PROVE  Goal
  BY <1>3 DEF PrepareForDelayedCapture, callVars, historyVars
<1>4. ASSUME NEW u \in Users, BeginConfigFails(u)
      PROVE  Goal
  BY <1>4 DEF BeginConfigFails, callVars, historyVars
<1>5. ASSUME NEW u \in Users, BeginRequestFails(u)
      PROVE  Goal
  BY <1>5 DEF BeginRequestFails, callVars, historyVars
<1>6. ASSUME NEW u \in Users, NEW a \in BOOLEAN, RequestBeginTrace(u, a)
      PROVE  Goal
  <2>1. ~begin.joining /\ requested' = [requested EXCEPT ![u] = @ + 1] /\ UNCHANGED completed
    BY <1>6 DEF RequestBeginTrace, LockFree
  <2>2. CASE poller.pc = "none"
    <3>1. StartPolling(u, a) /\ UNCHANGED begin
      BY <1>6, <2>2 DEF RequestBeginTrace
    <3>2. Captures!Start(u)
      BY <2>1, <2>2, <3>1, StartTyped DEF Captures!Start, Captures!Accept
    <3> QED
      BY <3>2 DEF Captures!Next
  <2>3. CASE poller.pc # "none"
    <3>1. /\ begin' = [joining |-> TRUE, user |-> u, auto |-> a]
          /\ UNCHANGED poller
      BY <1>6, <2>3 DEF RequestBeginTrace
    <3>2. Captures!Queue(u)
      BY <2>1, <3>1 DEF Captures!Queue, Captures!Accept
    <3> QED
      BY <3>2 DEF Captures!Next
  <2> QED
    BY <2>2, <2>3
<1>7. ASSUME BeginJoined PROVE Goal
  <2>1. /\ begin.joining /\ ~begin'.joining /\ UNCHANGED <<requested, completed>>
        /\ begin.user \in Users /\ begin.auto \in BOOLEAN
        /\ poller.pc \in {"none", "exited"}
    BY <1>7 DEF BeginJoined, NoBegin, KnownUsers, BeginType, historyVars
  <2>2. StartPolling(begin.user, begin.auto)
    BY <1>7 DEF BeginJoined
  <2>3. Captures!Dequeue
    BY <2>1, <2>2, StartTyped DEF Captures!Dequeue
  <2> QED
    BY <2>3 DEF Captures!Next
<1>8. ASSUME NEW u \in Users, AbortChecked(u)
      PROVE  Goal
  BY <1>8 DEF AbortChecked, callVars, stateVars, historyVars
<1>9. ASSUME NEW u \in Users, AbortSeesWaiting(u)
      PROVE  Goal
  BY <1>9 DEF AbortSeesWaiting, callVars, stateVars, historyVars
<1>10. ASSUME NEW u \in Users, AbortPolling(u)
      PROVE  Goal
  BY <1>10 DEF AbortPolling, callVars, historyVars
<1>11. ASSUME NEW u \in Users, AbortWaiting(u)
      PROVE  Goal
  BY <1>11 DEF AbortWaiting, callVars, historyVars
<1>12. ASSUME PollLoop PROVE Goal
  BY <1>12 DEF PollLoop, pollUnchanged, callVars, historyVars
<1>13. ASSUME CollectNothing PROVE Goal
  BY <1>13 DEF CollectNothing, pollUnchanged, callVars, historyVars
<1>14. ASSUME CollectWrites PROVE Goal
  BY <1>14 DEF CollectWrites, pollUnchanged, callVars, historyVars
<1>15. ASSUME CollectFails PROVE Goal
  BY <1>15 DEF CollectFails, pollUnchanged, callVars, historyVars
<1>16. ASSUME NEW a \in BOOLEAN, CollectSucceeds(a)
      PROVE  Goal
  BY <1>16 DEF CollectSucceeds, pollUnchanged, callVars, historyVars
<1>17. ASSUME ExchangeCapturingUser PROVE Goal
  BY <1>17 DEF ExchangeCapturingUser, pollUnchanged, callVars, historyVars
<1>18. ASSUME FinishChunkError PROVE Goal
  <2>1. Captures!Report
    BY <1>18 DEF FinishChunkError, Complete, finishUnchanged, NoThread,
       KnownUsers, Captures!Report
  <2> QED
    BY <2>1 DEF Captures!Next
<1>19. ASSUME FinishCompleted PROVE Goal
  <2>1. Captures!Report
    BY <1>19 DEF FinishCompleted, Complete, finishUnchanged, NoThread,
       KnownUsers, Captures!Report
  <2> QED
    BY <2>1 DEF Captures!Next
<1>20. ASSUME FinishProcessing PROVE Goal
  BY <1>20 DEF FinishProcessing, finishUnchanged, callVars, historyVars
<1>21. ASSUME ProcessingDone PROVE Goal
  <2>1. Captures!Report
    BY <1>21 DEF ProcessingDone, Complete, finishUnchanged, NoThread,
       KnownUsers, Captures!Report
  <2> QED
    BY <2>1 DEF Captures!Next
<1>22. ASSUME NEW a \in BOOLEAN, FinishAborted(a)
      PROVE  Goal
  <2>1. Captures!Report
    BY <1>22 DEF FinishAborted, Complete, finishUnchanged, NoThread,
       KnownUsers, Captures!Report
  <2> QED
    BY <2>1 DEF Captures!Next
<1>23. ASSUME PollerEnds PROVE Goal
  BY <1>23 DEF PollerEnds, pollUnchanged, NoThread, callVars, historyVars
<1>24. ASSUME NEW u \in Users, DisconnectStart(u)
      PROVE  Goal
  BY <1>24 DEF DisconnectStart, discUnchanged, historyVars
<1>25. ASSUME DisconnectCount PROVE Goal
  BY <1>25 DEF DisconnectCount, discUnchanged, historyVars
<1>26. ASSUME DisconnectSignal PROVE Goal
  BY <1>26 DEF DisconnectSignal, discUnchanged, historyVars
<1>27. ASSUME DisconnectJoined PROVE Goal
  BY <1>27 DEF DisconnectJoined, discUnchanged, NoThread, historyVars
<1>28. ASSUME DisconnectErase PROVE Goal
  BY <1>28 DEF DisconnectErase, discUnchanged, historyVars
<1>29. ASSUME DisconnectDone PROVE Goal
  BY <1>29 DEF DisconnectDone, discUnchanged, historyVars
<1>30. ASSUME TraceReady PROVE Goal
  BY <1>30 DEF TraceReady, callVars, stateVars, historyVars
<1>31. ASSUME UNCHANGED vars PROVE Goal
  BY <1>31 DEF vars, historyVars
<1> QED
  BY Steps, <1>1, <1>2, <1>3, <1>4, <1>5, <1>6, <1>7, <1>8, <1>9, <1>10,
     <1>11, <1>12, <1>13, <1>14, <1>15, <1>16, <1>17, <1>18, <1>19, <1>20,
     <1>21, <1>22, <1>23, <1>24, <1>25, <1>26, <1>27, <1>28, <1>29, <1>30,
     <1>31

(* The captures of the users that share a connection are taken one at a     *)
(* time, in the order they were accepted, and each is reported to its own   *)
(* user before the next one starts.                                         *)
THEOREM ImplementsCaptureSequence == Spec => CapturesInSequence
BY SequenceInit, SequenceStep, Invariant, PTL DEF Spec, CapturesInSequence, Captures!Spec

(* ---------- The threads that call it. ---------- *)

(* ----- The orchestrator's steps. -----                                   *)

(* The outcomes of RequestBeginTrace are steps of the orchestrator, or the  *)
(* refusal that changes nothing.                                           *)
LEMMA BeginSteps ==
  ASSUME NEW u \in Users, NEW a \in BOOLEAN, BeginSucceeds(u, a) \/ BeginFails(u)
  PROVE  [Next]_vars
BY DEF BeginSucceeds, BeginFails, BeginRefused, Next, Caller

(* The callers' threads, and that whoever is inside a call has a user.     *)
ThreadTypes ==
  /\ ui \in [pc : UiPcs, user : Users \cup {NoUser}]
  /\ dd \in [pc : DdPcs, user : Users \cup {NoUser}]
  /\ timer \in [Users -> TimerStates]

ThreadUsers ==
  /\ ThreadTypes
  /\ ui.pc # "idle" => ui.user \in Users
  /\ dd.pc # "idle" => dd.user \in Users

LEMMA ThreadUsersInit == ClientInit => ThreadUsers
BY DEF ClientInit, ThreadUsers, ThreadTypes, IdleThread, UiPcs, DdPcs, TimerStates, TimerStopped

LEMMA ThreadUsersStep == ThreadUsers /\ [ClientNext]_allVars => ThreadUsers'
<1> SUFFICES ASSUME ThreadUsers, [ClientNext]_allVars PROVE ThreadUsers'
  OBVIOUS
<1> USE DEF ThreadUsers, ThreadTypes
<1>1. /\ IdleThread \in [pc : UiPcs, user : Users \cup {NoUser}] /\ IdleThread.pc = "idle"
      /\ IdleThread \in [pc : DdPcs, user : Users \cup {NoUser}]
  BY DEF IdleThread, UiPcs, DdPcs
<1>2. ASSUME NEW u \in Users, UiCalls(u) PROVE ThreadUsers'
  <2>1. ui' \in [pc : UiPcs, user : Users \cup {NoUser}] /\ ui'.user = u
    BY <1>2 DEF UiCalls, UiPcs
  <2>2. timer' \in [Users -> TimerStates]
    BY <1>2 DEF UiCalls, TimerStates
  <2> QED
    BY <1>2, <2>1, <2>2 DEF UiCalls
<1>3. CASE UiBegins
  BY <1>1, <1>3 DEF UiBegins, UiPcs
<1>4. CASE UiBeginFails \/ UiPrepares \/ UiAbortUnsupported
  BY <1>1, <1>4 DEF UiBeginFails, UiPrepares, UiAbortUnsupported
<1>5. CASE UiTimerJoined
  BY <1>1, <1>5 DEF UiTimerJoined, UiPcs
<1>6. CASE UiAborts
  BY <1>1, <1>6 DEF UiAborts
<1>7. ASSUME NEW u \in Users, DdInitialize(u) PROVE ThreadUsers'
  BY <1>7 DEF DdInitialize, clientVars
<1>8. ASSUME NEW u \in Users, DdCancelsTimer(u) PROVE ThreadUsers'
  BY <1>8 DEF DdCancelsTimer, DdPcs, TimerStates
<1>9. ASSUME NEW u \in Users, NEW ok \in BOOLEAN, DdHandleDriverState(u, ok) PROVE ThreadUsers'
  <2>1. dd' \in [pc : DdPcs, user : Users \cup {NoUser}] /\ (dd'.pc # "idle" => dd'.user \in Users)
    BY <1>1, <1>9 DEF DdHandleDriverState, DdPcs
  <2> QED
    BY <1>9, <2>1 DEF DdHandleDriverState
<1>10. CASE DdBegins
  BY <1>1, <1>10 DEF DdBegins, DdPcs
<1>11. CASE DdBeginFails \/ DdTimerJoined
  BY <1>1, <1>11 DEF DdBeginFails, DdTimerJoined
<1>12. CASE DdPrepares
  BY <1>1, <1>12 DEF DdPrepares, DdPcs
<1>13. CASE DdStartsTimer
  BY <1>1, <1>13 DEF DdStartsTimer, TimerStates
<1>14. ASSUME NEW u \in Users, TimerRuns(u) PROVE ThreadUsers'
  BY <1>14 DEF TimerRuns, TimerCancelled, TimerFires, TimerBegins, TimerBeginFails,
     TimerStates, TimerStopped
<1>15. CASE JoinReturns
  BY <1>1, <1>15 DEF JoinReturns, TimerStates, TimerStopped
<1>16. CASE Background \/ UNCHANGED allVars
  BY <1>16 DEF Background, allVars, clientVars
<1> QED
  BY <1>2, <1>3, <1>4, <1>5, <1>6, <1>7, <1>8, <1>9, <1>10, <1>11, <1>12, <1>13, <1>14,
     <1>15, <1>16 DEF ClientNext, UiRuns, DdRuns

LEMMA StepObeys == ThreadUsers /\ [ClientNext]_allVars => [Next]_vars
<1> SUFFICES ASSUME ThreadUsers, [ClientNext]_allVars PROVE [Next]_vars
  OBVIOUS
<1>1. ASSUME NEW u \in Users, UiCalls(u) PROVE [Next]_vars
  BY <1>1 DEF UiCalls
<1>2. CASE UiBegins \/ UiBeginFails
  BY <1>2, BeginSteps DEF UiBegins, UiBeginFails, ThreadUsers
<1>3. CASE UiPrepares \/ UiTimerJoined \/ UiAborts \/ UiAbortUnsupported
  BY <1>3 DEF UiPrepares, UiTimerJoined, UiAborts, UiAbortUnsupported, ThreadUsers, Next, Caller
<1>4. ASSUME NEW u \in Users, DdInitialize(u) \/ DdCancelsTimer(u) PROVE [Next]_vars
  BY <1>4 DEF DdInitialize, DdCancelsTimer, Next, Caller
<1>5. ASSUME NEW u \in Users, NEW ok \in BOOLEAN, DdHandleDriverState(u, ok) PROVE [Next]_vars
  BY <1>5 DEF DdHandleDriverState, Next, Caller
<1>6. CASE DdBegins \/ DdBeginFails
  BY <1>6, BeginSteps DEF DdBegins, DdBeginFails, ThreadUsers
<1>7. CASE DdPrepares \/ DdStartsTimer \/ DdTimerJoined
  BY <1>7 DEF DdPrepares, DdStartsTimer, DdTimerJoined, ThreadUsers, Next, Caller
<1>8. ASSUME NEW u \in Users, TimerRuns(u) PROVE [Next]_vars
  BY <1>8, BeginSteps DEF TimerRuns, TimerCancelled, TimerFires, TimerBegins, TimerBeginFails
<1>9. CASE JoinReturns \/ Background \/ UNCHANGED allVars
  BY <1>9 DEF JoinReturns, Background, allVars, Next
<1> QED
  BY <1>1, <1>2, <1>3, <1>4, <1>5, <1>6, <1>7, <1>8, <1>9 DEF ClientNext, UiRuns, DdRuns

(* The steps of the user interface, the DevDriver thread and the timers are  *)
(* made of the orchestrator's, so what is proved of it holds of them.       *)
LEMMA ClientsObey == ClientSpec => Spec
<1>1. ClientInit => Init
  BY DEF ClientInit
<1> QED
  BY <1>1, ThreadUsersInit, ThreadUsersStep, StepObeys, PTL DEF ClientSpec, Spec

(* Hence every capture of the program is attributed to the user that asked, *)
(* watched by a polling thread and reported exactly once.                  *)
THEOREM ClientCapturesCorrect ==
  ClientSpec => [](CapturingUserIsPolled /\ CapturingHasPoller /\ CompletedOnce)
<1>1. CInv => CapturingUserIsPolled /\ CapturingHasPoller /\ CompletedOnce
  BY DEF CInv
<1> QED
  BY <1>1, ClientsObey, Invariant, PTL

(* ----- What the orchestrator's steps do to the callers' concerns. -----  *)

LEMMA BeginEffect ==
  ASSUME TypeOK, NEW u \in Users, NEW a \in BOOLEAN, BeginSucceeds(u, a)
  PROVE  /\ UNCHANGED <<client, disc, postInit>>
         /\ ~begin.joining
         /\ \/ ~begin'.joining /\ poller'.user = u /\ poller'.auto = a
            \/ begin'.joining /\ begin'.user = u /\ begin'.auto = a /\ poller' = poller
<1>1. UNCHANGED <<client, disc, postInit>> /\ ~begin.joining
  BY DEF BeginSucceeds, RequestBeginTrace, LockFree, callVars
<1>2. CASE poller.pc = "none"
  <2>1. begin' = begin /\ StartPolling(u, a)
    BY <1>2 DEF BeginSucceeds, RequestBeginTrace
  <2>2. poller'.user = u /\ poller'.auto = a
    BY <2>1 DEF StartPolling, NoThread
  <2> QED
    BY <1>1, <2>1, <2>2
<1>3. CASE poller.pc # "none"
  <2>1. begin' = [joining |-> TRUE, user |-> u, auto |-> a] /\ poller' = poller
    BY <1>3 DEF BeginSucceeds, RequestBeginTrace
  <2> QED
    BY <1>1, <2>1
<1> QED
  BY <1>2, <1>3

LEMMA QuietEffect ==
  ASSUME NEW u \in Users,
         \/ BeginFails(u) \/ PrepareForDelayedCapture(u)
         \/ AbortChecked(u) \/ AbortSeesWaiting(u) \/ AbortPolling(u) \/ AbortWaiting(u)
         \/ TraceReady \/ UNCHANGED vars
  PROVE  UNCHANGED <<client, disc, postInit, begin, poller>>
<1>1. CASE BeginFails(u)
  BY <1>1 DEF BeginFails, BeginRefused, BeginConfigFails, BeginRequestFails, callVars, vars
<1>2. CASE PrepareForDelayedCapture(u) \/ AbortChecked(u) \/ AbortSeesWaiting(u)
  BY <1>2 DEF PrepareForDelayedCapture, AbortChecked, AbortSeesWaiting, callVars
<1>3. CASE AbortPolling(u) \/ AbortWaiting(u) \/ TraceReady \/ UNCHANGED vars
  BY <1>3 DEF AbortPolling, AbortWaiting, TraceReady, callVars, vars
<1> QED
  BY <1>1, <1>2, <1>3

LEMMA PollerEffect ==
  ASSUME TypeOK, PollerStep
  PROVE  /\ UNCHANGED <<client, disc, postInit, begin>>
         /\ PollerActive' => PollerActive /\ poller'.user = poller.user /\ poller'.auto = poller.auto
<1> USE DEF PollerActive, BeforeExchange, TypeOK, PollerType, pollUnchanged, callVars
<1>1. CASE PollLoop \/ CollectNothing \/ CollectWrites \/ CollectFails
  BY <1>1 DEF PollLoop, CollectNothing, CollectWrites, CollectFails
<1>2. CASE (\E ok \in BOOLEAN : CollectSucceeds(ok)) \/ ExchangeCapturingUser
  BY <1>2 DEF CollectSucceeds, ExchangeCapturingUser
<1>3. CASE PollerFinish \/ PollerEnds
  BY <1>3 DEF PollerFinish, FinishChunkError, FinishCompleted, FinishProcessing,
     ProcessingDone, FinishAborted, PollerEnds, finishUnchanged, NoThread
<1> QED
  BY <1>1, <1>2, <1>3 DEF PollerStep

LEMMA DisconnectEffect ==
  ASSUME TypeOK, DisconnectStep
  PROVE  /\ UNCHANGED <<postInit, begin>>
         /\ disc.pc # "none"
         /\ poller' = poller \/ ~PollerActive'
         /\ \/ client' = client /\ disc'.user = disc.user /\ disc'.pc # "none"
            \/ client' = [client EXCEPT ![disc.user] = "gone"] /\ disc'.pc = "none"
<1> USE DEF discUnchanged, TypeOK, DiscType
<1>1. CASE DisconnectCount \/ DisconnectSignal
  BY <1>1 DEF DisconnectCount, DisconnectSignal
<1>2. CASE DisconnectJoined
  BY <1>2 DEF DisconnectJoined, PollerActive, BeforeExchange, NoThread
<1>3. CASE DisconnectErase
  BY <1>3 DEF DisconnectErase, IdleDisc
<1>4. CASE DisconnectDone
  BY <1>4 DEF DisconnectDone, IdleDisc
<1> QED
  BY <1>1, <1>2, <1>3, <1>4 DEF DisconnectStep

(* ----- Disconnect and the timers. -----                                  *)

(* Everything the timer proofs rest on.                                    *)
Base == TypeOK /\ ThreadUsers

(* One DevDriver thread: it is inside a call of a live client, or inside    *)
(* Disconnect, not both.                                                   *)
DriverThread ==
  /\ dd.pc # "idle" => disc.pc = "none" /\ client[dd.user] = "live"
  /\ disc.pc # "none" => disc.user \in Users /\ client[disc.user] = "leaving"

LeaversStopped ==
  \A u \in Users : client[u] \in {"leaving", "gone"} => timer[u] \in TimerStopped

(* A timer that is off is armed at most once, by the call in which its      *)
(* client reached POSTDEVICEINIT.                                          *)
ArmedOnce ==
  /\ \A u \in Users : u \notin postInit => timer[u] = "off"
  /\ dd.pc \in {"prepare", "startTimer"} => dd.user \in postInit /\ timer[dd.user] = "off"
  /\ dd.pc = "begin" => AutoCapture[dd.user] = "now"

(* A delayed automatic capture under way is the one its timer began.        *)
TakenByTimer ==
  \A u \in Users : AutoCapture[u] = "delayed" =>
    /\ begin.joining /\ begin.auto /\ begin.user = u => timer[u] = "joining"
    /\ PollerActive /\ poller.auto /\ poller.user = u => timer[u] = "begun"

TimerInv == DriverThread /\ LeaversStopped /\ ArmedOnce /\ TakenByTimer

LEMMA TimerInvInit == ClientInit => TimerInv
<1> SUFFICES ASSUME ClientInit PROVE TimerInv
  OBVIOUS
<1>1. DriverThread /\ LeaversStopped /\ ArmedOnce
  BY DEF ClientInit, Init, IdleThread, IdleDisc, DriverThread, LeaversStopped, ArmedOnce
<1>2. TakenByTimer
  BY DEF ClientInit, Init, NoBegin, NoThread, PollerActive, BeforeExchange, TakenByTimer
<1> QED
  BY <1>1, <1>2 DEF TimerInv

(* Nothing but the user-interface thread and a timer on its way changes.    *)
LEMMA TimerOnly ==
  ASSUME Base, TimerInv, NEW u \in Users,
         UNCHANGED <<client, disc, postInit, begin, poller>>,
         \/ timer' = timer
         \/ /\ timer[u] \in {"armed", "cancelled", "fired"}
            /\ \E x \in {"cancelled", "fired", "aborted", "failed"} :
                 timer' = [timer EXCEPT ![u] = x],
         \/ dd' = dd
         \/ dd' = IdleThread
  PROVE  TimerInv'
<1> USE DEF Base, ThreadUsers, ThreadTypes, TimerInv
<1>1. DriverThread'
  BY DEF DriverThread, IdleThread
<1>2. \A v \in Users : timer'[v] = timer[v] \/ timer[v] \in {"armed", "cancelled", "fired"}
  OBVIOUS
<1>3. LeaversStopped'
  <2>1. \A v \in Users : timer[v] \in TimerStopped => timer'[v] = timer[v]
    BY <1>2 DEF TimerStopped
  <2> QED
    BY <2>1 DEF LeaversStopped
<1>4. ArmedOnce'
  <2>1. dd'.pc # "idle" => dd' = dd
    BY DEF IdleThread
  <2>2. \A v \in Users : timer[v] = "off" => timer'[v] = "off"
    BY <1>2
  <2> QED
    BY <2>1, <2>2 DEF ArmedOnce
<1>5. TakenByTimer'
  BY <1>2 DEF TakenByTimer, PollerActive, BeforeExchange
<1> QED
  BY <1>1, <1>3, <1>4, <1>5

LEMMA UiTimerInv ==
  ASSUME Base, TimerInv, (\E u \in Users : UiCalls(u)) \/ UiRuns
  PROVE  TimerInv'
<1> USE DEF Base, ThreadUsers, ThreadTypes
<1>1. ASSUME NEW u \in Users, UiCalls(u) PROVE TimerInv'
  BY <1>1, TimerOnly, QuietEffect DEF UiCalls
<1>2. CASE UiBegins
  <2>1. ui.user \in Users /\ BeginSucceeds(ui.user, FALSE) /\ dd' = dd /\ timer' = timer
    BY <1>2 DEF UiBegins
  <2>2. DriverThread' /\ LeaversStopped' /\ ArmedOnce'
    BY <2>1, BeginEffect DEF TimerInv, DriverThread, LeaversStopped, ArmedOnce
  <2>3. TakenByTimer'
    BY <2>1, BeginEffect DEF TimerInv, TakenByTimer, PollerActive, BeforeExchange
  <2> QED
    BY <2>2, <2>3 DEF TimerInv
<1>3. CASE UiBeginFails \/ UiPrepares
  BY <1>3, TimerOnly, QuietEffect DEF UiBeginFails, UiPrepares, UiPcs
<1>4. CASE UiTimerJoined \/ UiAborts \/ UiAbortUnsupported
  BY <1>4, TimerOnly, QuietEffect DEF UiTimerJoined, UiAborts, UiAbortUnsupported, UiPcs
<1> QED
  BY <1>1, <1>2, <1>3, <1>4 DEF UiRuns

LEMMA DriverTimerInv ==
  ASSUME Base, TimerInv,
         \/ \E u \in Users : DdInitialize(u) \/ DdCancelsTimer(u)
         \/ \E u \in Users, ok \in BOOLEAN : DdHandleDriverState(u, ok)
  PROVE  TimerInv'
<1> USE DEF Base, ThreadUsers, ThreadTypes, TimerInv
<1>1. ASSUME NEW u \in Users, DdInitialize(u) PROVE TimerInv'
  <2>1. /\ disc.pc = "none" /\ dd.pc = "idle" /\ UNCHANGED <<clientVars, disc, postInit, begin, poller>>
        /\ \E x \in {"live", "dropped"} : client' = [client EXCEPT ![u] = x]
    BY <1>1 DEF DdInitialize, Initialize, DriverThreadIdle
  <2>2. DriverThread' /\ LeaversStopped' /\ ArmedOnce'
    BY <2>1 DEF DriverThread, LeaversStopped, ArmedOnce, clientVars, TypeOK
  <2>3. TakenByTimer'
    BY <2>1 DEF TakenByTimer, PollerActive, BeforeExchange, clientVars
  <2> QED
    BY <2>2, <2>3
<1>2. ASSUME NEW u \in Users, DdCancelsTimer(u) PROVE TimerInv'
  <2>1. /\ disc.pc = "none" /\ client[u] = "live"
        /\ dd' = [pc |-> "cancelTimer", user |-> u]
        /\ UNCHANGED <<client, disc, postInit, begin, poller>>
        /\ \A v \in Users : timer'[v] = timer[v] \/ (timer[v] = "armed" /\ timer'[v] = "cancelled")
    BY <1>2 DEF DdCancelsTimer, vars, callVars
  <2>2. DriverThread'
    BY <2>1 DEF DriverThread
  <2>3. LeaversStopped' /\ ArmedOnce'
    BY <2>1 DEF LeaversStopped, ArmedOnce, TimerStopped
  <2>4. TakenByTimer'
    BY <2>1 DEF TakenByTimer, PollerActive, BeforeExchange
  <2> QED
    BY <2>2, <2>3, <2>4
<1>3. ASSUME NEW u \in Users, NEW ok \in BOOLEAN, DdHandleDriverState(u, ok) PROVE TimerInv'
  <2>1. /\ disc.pc = "none" /\ client[u] = "live" /\ u \notin postInit
        /\ postInit' = postInit \cup {u}
        /\ UNCHANGED <<client, disc, begin, poller, timer>>
    BY <1>3 DEF DdHandleDriverState, HandleDriverState, DriverThreadIdle
  <2>2. \/ dd' = IdleThread
        \/ dd' = [pc |-> "begin", user |-> u] /\ AutoCapture[u] = "now"
        \/ dd' = [pc |-> "prepare", user |-> u]
    BY <1>3 DEF DdHandleDriverState
  <2>3. DriverThread' /\ ArmedOnce'
    BY <2>1, <2>2 DEF DriverThread, ArmedOnce, IdleThread
  <2>4. LeaversStopped' /\ TakenByTimer'
    BY <2>1 DEF LeaversStopped, TakenByTimer, PollerActive, BeforeExchange
  <2> QED
    BY <2>3, <2>4
<1> QED
  BY <1>1, <1>2, <1>3

LEMMA DriverRunsTimerInv ==
  ASSUME Base, TimerInv, DdRuns
  PROVE  TimerInv'
<1> USE DEF Base, ThreadUsers, ThreadTypes, TimerInv
<1>1. dd.pc # "idle" /\ dd.user \in Users
  BY DEF DdRuns, DdBegins, DdBeginFails, DdPrepares, DdStartsTimer, DdTimerJoined
<1>2. CASE DdBegins
  <2>1. /\ BeginSucceeds(dd.user, TRUE) /\ timer' = timer /\ dd.pc = "begin"
        /\ dd'.pc \in {"idle", "joining"} /\ dd'.user \in {dd.user, NoUser}
        /\ (dd'.pc # "idle" => dd'.user = dd.user)
    BY <1>2 DEF DdBegins, IdleThread
  <2>2. DriverThread' /\ LeaversStopped' /\ ArmedOnce'
    BY <1>1, <2>1, BeginEffect DEF DriverThread, LeaversStopped, ArmedOnce
  <2>3. AutoCapture[dd.user] # "delayed"
    BY <2>1 DEF ArmedOnce
  <2>4. TakenByTimer'
    BY <1>1, <2>1, <2>3, BeginEffect DEF TakenByTimer, PollerActive, BeforeExchange
  <2> QED
    BY <2>2, <2>4
<1>3. CASE DdBeginFails
  BY <1>1, <1>3, TimerOnly, QuietEffect DEF DdBeginFails
<1>4. CASE DdPrepares
  <2>1. UNCHANGED <<client, disc, postInit, begin, poller, timer>>
    BY <1>1, <1>4, QuietEffect DEF DdPrepares
  <2>2. dd' = IdleThread \/ (dd'.pc = "startTimer" /\ dd'.user = dd.user /\ dd.pc = "prepare")
    BY <1>4 DEF DdPrepares
  <2>3. DriverThread' /\ ArmedOnce'
    BY <1>1, <2>1, <2>2 DEF DriverThread, ArmedOnce, IdleThread
  <2>4. LeaversStopped' /\ TakenByTimer'
    BY <2>1 DEF LeaversStopped, TakenByTimer, PollerActive, BeforeExchange
  <2> QED
    BY <2>3, <2>4
<1>5. CASE DdStartsTimer
  <2>1. /\ UNCHANGED <<client, disc, postInit, begin, poller>> /\ dd' = IdleThread
        /\ dd.pc = "startTimer" /\ timer' = [timer EXCEPT ![dd.user] = "armed"]
    BY <1>5 DEF DdStartsTimer, vars, callVars
  <2>2. dd.user \in postInit /\ timer[dd.user] = "off" /\ client[dd.user] = "live"
    BY <2>1 DEF ArmedOnce, DriverThread
  <2>3. DriverThread' /\ ArmedOnce' /\ LeaversStopped'
    BY <1>1, <2>1, <2>2 DEF DriverThread, ArmedOnce, LeaversStopped, IdleThread
  <2>4. TakenByTimer'
    BY <1>1, <2>1, <2>2 DEF TakenByTimer, PollerActive, BeforeExchange
  <2> QED
    BY <2>3, <2>4
<1>6. CASE DdTimerJoined
  <2>1. /\ UNCHANGED <<postInit, begin, poller, timer>> /\ dd' = IdleThread
        /\ timer[dd.user] \in TimerStopped
        /\ client' = [client EXCEPT ![dd.user] = "leaving"]
        /\ disc'.user = dd.user
    BY <1>6 DEF DdTimerJoined, DisconnectStart, discUnchanged
  <2>2. DriverThread' /\ LeaversStopped' /\ ArmedOnce'
    BY <1>1, <2>1 DEF DriverThread, LeaversStopped, ArmedOnce, IdleThread, TypeOK
  <2>3. TakenByTimer'
    BY <2>1 DEF TakenByTimer, PollerActive, BeforeExchange
  <2> QED
    BY <2>2, <2>3
<1> QED
  BY <1>2, <1>3, <1>4, <1>5, <1>6 DEF DdRuns

LEMMA TimerTimerInv ==
  ASSUME Base, TimerInv, NEW u \in Users, TimerRuns(u)
  PROVE  TimerInv'
<1> USE DEF Base, ThreadUsers, ThreadTypes
<1>1. CASE TimerCancelled(u) \/ TimerFires(u) \/ TimerBeginFails(u)
  BY <1>1, TimerOnly, QuietEffect DEF TimerCancelled, TimerFires, TimerBeginFails
<1>2. CASE TimerBegins(u)
  <2> USE DEF TimerInv
  <2>1. /\ BeginSucceeds(u, TRUE) /\ timer[u] = "fired" /\ dd' = dd
        /\ timer' = [timer EXCEPT ![u] = IF begin'.joining THEN "joining" ELSE "begun"]
    BY <1>2 DEF TimerBegins
  <2>2. client[u] \notin {"leaving", "gone"} /\ u \in postInit
        /\ ~(dd.pc \in {"prepare", "startTimer"} /\ dd.user = u)
    BY <2>1 DEF LeaversStopped, ArmedOnce, TimerStopped
  <2>3. DriverThread' /\ LeaversStopped' /\ ArmedOnce'
    BY <2>1, <2>2, BeginEffect DEF DriverThread, LeaversStopped, ArmedOnce
  <2>4. TakenByTimer'
    BY <2>1, BeginEffect DEF TakenByTimer, PollerActive, BeforeExchange
  <2> QED
    BY <2>3, <2>4
<1> QED
  BY <1>1, <1>2 DEF TimerRuns

LEMMA JoinTimerInv ==
  ASSUME Base, TimerInv, JoinReturns
  PROVE  TimerInv'
<1> USE DEF Base, ThreadUsers, ThreadTypes, TimerInv
<1>1. /\ UNCHANGED <<client, disc, postInit>> /\ begin' = NoBegin
      /\ begin.joining /\ StartPolling(begin.user, begin.auto)
      /\ dd' = IF dd.pc = "joining" THEN IdleThread ELSE dd
      /\ timer' = [u \in Users |-> IF timer[u] = "joining" THEN "begun" ELSE timer[u]]
  BY DEF JoinReturns, BeginJoined, callVars
<1>2. poller'.user = begin.user /\ poller'.auto = begin.auto
  BY <1>1 DEF StartPolling, NoThread
<1>3. DriverThread' /\ ArmedOnce'
  BY <1>1 DEF DriverThread, ArmedOnce, IdleThread
<1>4. LeaversStopped'
  BY <1>1 DEF LeaversStopped, TimerStopped
<1>5. TakenByTimer'
  BY <1>1, <1>2 DEF TakenByTimer, NoBegin
<1> QED
  BY <1>3, <1>4, <1>5

LEMMA BackgroundTimerInv ==
  ASSUME Base, TimerInv, Background
  PROVE  TimerInv'
<1> USE DEF Base, ThreadUsers, ThreadTypes, TimerInv
<1>1. UNCHANGED <<ui, dd, timer>>
  BY DEF Background, clientVars
<1>2. CASE PollerStep
  BY <1>1, <1>2, PollerEffect DEF DriverThread, LeaversStopped, ArmedOnce, TakenByTimer
<1>3. CASE DisconnectStep
  <2>1. DriverThread'
    BY <1>1, <1>3, DisconnectEffect DEF DriverThread, TypeOK
  <2>2. LeaversStopped'
    BY <1>1, <1>3, DisconnectEffect DEF LeaversStopped, DriverThread, TypeOK
  <2>3. ArmedOnce' /\ TakenByTimer'
    BY <1>1, <1>3, DisconnectEffect DEF ArmedOnce, TakenByTimer, PollerActive, BeforeExchange
  <2> QED
    BY <2>1, <2>2, <2>3
<1>4. CASE TraceReady
  <2>1. UNCHANGED <<client, disc, postInit, begin, poller>>
    BY <1>4 DEF TraceReady, callVars
  <2> QED
    BY <1>1, <2>1 DEF DriverThread, LeaversStopped, ArmedOnce, TakenByTimer, PollerActive, BeforeExchange
<1> QED
  BY <1>2, <1>3, <1>4 DEF Background

LEMMA TimerInvStep == Base /\ TimerInv /\ [ClientNext]_allVars => TimerInv'
<1> SUFFICES ASSUME Base, TimerInv, [ClientNext]_allVars PROVE TimerInv'
  OBVIOUS
<1>1. CASE (\E u \in Users : UiCalls(u)) \/ UiRuns
  BY <1>1, UiTimerInv
<1>2. CASE \/ \E u \in Users : DdInitialize(u) \/ DdCancelsTimer(u)
           \/ \E u \in Users, ok \in BOOLEAN : DdHandleDriverState(u, ok)
  BY <1>2, DriverTimerInv
<1>3. CASE DdRuns
  BY <1>3, DriverRunsTimerInv
<1>4. CASE (\E u \in Users : TimerRuns(u)) \/ JoinReturns \/ Background
  BY <1>4, TimerTimerInv, JoinTimerInv, BackgroundTimerInv
<1>5. CASE UNCHANGED allVars
  BY <1>5 DEF allVars, vars, callVars, clientVars, TimerInv, DriverThread, LeaversStopped,
     ArmedOnce, TakenByTimer, PollerActive, BeforeExchange
<1> QED
  BY <1>1, <1>2, <1>3, <1>4, <1>5 DEF ClientNext

LEMMA Timers == ClientSpec => []TimerInv
<1>1. ClientSpec => []Base
  <2>1. TInv => TypeOK
    BY DEF TInv
  <2> QED
    BY <2>1, ClientsObey, Invariant, ThreadUsersInit, ThreadUsersStep, PTL
    DEF ClientSpec, Base
<1> QED
  BY <1>1, TimerInvInit, TimerInvStep, PTL DEF ClientSpec

(* Disconnect leaves no timer running: nothing fires into a client that is  *)
(* going or gone.                                                          *)
THEOREM NoTimerOutlivesItsClient == ClientSpec => []TimerStoppedBeforeGone
<1>1. TimerInv => TimerStoppedBeforeGone
  BY DEF TimerInv, LeaversStopped, TimerStoppedBeforeGone
<1> QED
  BY <1>1, Timers, PTL

(* A delayed automatic capture whose timer was cancelled is never taken,    *)
(* whatever thread cancelled it and whatever the timer was about to do.     *)
THEOREM CancelledStaysCancelled == ClientSpec => []CancelledCaptureNeverTaken
<1>1. TimerInv => CancelledCaptureNeverTaken
  BY DEF TimerInv, TakenByTimer, CancelledCaptureNeverTaken
<1> QED
  BY <1>1, Timers, PTL

(* ----- The user of the capture under way. -----                          *)

(* Whoever a begin or the polling thread works for called through a client,  *)
(* so that Initialize does not set its state; and it is shown.              *)
Shown ==
  /\ BeforeExchange => client[poller.user] # "pending"
  /\ begin.joining => client[begin.user] # "pending"
  /\ PolledUserShown

(* Where a capture cannot be cancelled and none is delayed but by the user   *)
(* interface, whose thread also aborts, an abort under way never sees a user *)
(* that waits.                                                             *)
AbortsIdle ==
  /\ \A u \in Users : aborting[u] # "none" =>
        /\ aborting[u] = "supported" /\ userState[u] # "WaitingToBeginCapture"
        /\ ui.pc = "abort" /\ ui.user = u
  /\ dd.pc \notin {"prepare", "startTimer"}

NeverDelayed == CancelSupported = FALSE /\ \A u \in Users : AutoCapture[u] # "delayed"

LEMMA ShownInit == ClientInit => Shown /\ AbortsIdle
BY DEF ClientInit, Init, Shown, AbortsIdle, PolledUserShown, BeforeExchange, NoThread, NoBegin, IdleThread

LEMMA ShownStep ==
  ASSUME TInv, CInv, Shown, [Next]_vars, \A u \in Users : aborting[u] # "waiting"
  PROVE  Shown'
<1> USE UsersAssumption DEF TInv, TypeOK, KnownUsers, PollerActive, Shown, PolledUserShown, BeforeExchange, PollerType
<1>1. ASSUME NEW u \in Users, NEW a \in BOOLEAN, NEW b \in BOOLEAN, Initialize(u, a, b)
      PROVE  Shown'
  BY <1>1 DEF Initialize, SetState
<1>2. ASSUME NEW u \in Users, HandleDriverState(u) PROVE Shown'
  BY <1>2 DEF HandleDriverState, stateVars
<1>3. ASSUME NEW u \in Users, PrepareForDelayedCapture(u) PROVE Shown'
  BY <1>3 DEF PrepareForDelayedCapture, SetState, callVars
<1>4. ASSUME NEW u \in Users, BeginConfigFails(u) PROVE Shown'
  BY <1>4 DEF BeginConfigFails, SetState, callVars
<1>5. ASSUME NEW u \in Users, BeginRequestFails(u) PROVE Shown'
  BY <1>5 DEF BeginRequestFails, IsReadyForCapture, SetState, callVars
<1>6. ASSUME NEW u \in Users, NEW a \in BOOLEAN, RequestBeginTrace(u, a) PROVE Shown'
  <2>1. client[u] # "pending" /\ client' = client
    BY <1>6 DEF RequestBeginTrace, Callable, callVars
  <2>2. CASE poller.pc = "none"
    <3>1. StartPolling(u, a) /\ UNCHANGED begin
      BY <1>6, <2>2 DEF RequestBeginTrace
    <3>2. userState' = [userState EXCEPT ![u] = "Capturing"]
      BY <3>1 DEF StartPolling, SetState
    <3> QED
      BY <2>1, <3>1, <3>2, StartTyped
  <2>3. CASE poller.pc # "none"
    <3>1. /\ begin' = [joining |-> TRUE, user |-> u, auto |-> a]
          /\ UNCHANGED <<userState, poller>>
      BY <1>6, <2>3 DEF RequestBeginTrace
    <3> QED
      BY <2>1, <3>1
  <2> QED
    BY <2>2, <2>3
<1>7. ASSUME BeginJoined PROVE Shown'
  <2>1. begin.joining /\ ~begin'.joining /\ client' = client /\ begin.auto \in BOOLEAN /\ begin.user \in Users
    BY <1>7 DEF BeginJoined, NoBegin, BeginType, callVars
  <2>2. StartPolling(begin.user, begin.auto)
    BY <1>7 DEF BeginJoined
  <2>3. userState' = [userState EXCEPT ![begin.user] = "Capturing"]
    BY <2>2 DEF StartPolling, SetState
  <2> QED
    BY <2>1, <2>2, <2>3, StartTyped
<1>8. ASSUME NEW u \in Users, AbortChecked(u) \/ AbortSeesWaiting(u) \/ AbortPolling(u) PROVE Shown'
  BY <1>8 DEF AbortChecked, AbortSeesWaiting, AbortPolling, callVars, stateVars
<1>9. ASSUME NEW u \in Users, AbortWaiting(u) PROVE Shown'
  BY <1>9 DEF AbortWaiting
<1>10. CASE PollLoop \/ CollectNothing \/ CollectFails \/ ExchangeCapturingUser
  <2>1. CASE PollLoop
    BY <2>1 DEF PollLoop, pollUnchanged, callVars
  <2>2. CASE CollectNothing
    BY <2>2 DEF CollectNothing, pollUnchanged, callVars
  <2>3. CASE CollectFails
    BY <2>3 DEF CollectFails, pollUnchanged, callVars
  <2>4. CASE ExchangeCapturingUser
    BY <2>4 DEF ExchangeCapturingUser, pollUnchanged, callVars
  <2> QED
    BY <1>10, <2>1, <2>2, <2>3, <2>4
<1>11. CASE CollectWrites
  <2>1. capturingUser = poller.user /\ poller.user \in Users
    BY <1>11 DEF CollectWrites, CInv, CapturingUserIsPolled
  <2>2. UNCHANGED <<client, begin>> /\ poller'.user = poller.user
        /\ userState' = [userState EXCEPT ![poller.user] = "Dumping"]
    BY <1>11, <2>1 DEF CollectWrites, SetState, pollUnchanged, callVars
  <2>3. BeforeExchange
    BY <1>11 DEF CollectWrites
  <2> QED
    BY <2>1, <2>2, <2>3
<1>12. ASSUME NEW a \in BOOLEAN, CollectSucceeds(a) PROVE Shown'
  BY <1>12 DEF CollectSucceeds, pollUnchanged, callVars
<1>13. CASE PollerFinish
  <2>1. CASE FinishChunkError
    BY <2>1 DEF FinishChunkError, finishUnchanged, callVars, NoThread
  <2>2. CASE FinishCompleted
    BY <2>2 DEF FinishCompleted, finishUnchanged, callVars, NoThread
  <2>3. CASE FinishProcessing
    BY <2>3 DEF FinishProcessing, finishUnchanged, callVars, NoThread
  <2>4. CASE ProcessingDone
    BY <2>4 DEF ProcessingDone, finishUnchanged, callVars, NoThread
  <2>5. ASSUME NEW cancelOk \in BOOLEAN, FinishAborted(cancelOk) PROVE Shown'
    BY <2>5 DEF FinishAborted, finishUnchanged, callVars, NoThread
  <2> QED
    BY <1>13, <2>1, <2>2, <2>3, <2>4, <2>5 DEF PollerFinish
<1>14. CASE PollerEnds
  BY <1>14 DEF PollerEnds, pollUnchanged, callVars, NoThread
<1>15. ASSUME NEW u \in Users, DisconnectStart(u) PROVE Shown'
  BY <1>15 DEF DisconnectStart, discUnchanged
<1>16. CASE DisconnectCount \/ DisconnectSignal
  BY <1>16 DEF DisconnectCount, DisconnectSignal, discUnchanged
<1>17. CASE DisconnectJoined
  BY <1>17 DEF DisconnectJoined, discUnchanged, NoThread
<1>18. CASE DisconnectErase
  BY <1>18 DEF DisconnectErase, discUnchanged
<1>19. CASE DisconnectDone
  BY <1>19 DEF DisconnectDone, discUnchanged, SetState
<1>20. CASE TraceReady \/ UNCHANGED vars
  BY <1>20 DEF TraceReady, vars, callVars, stateVars
<1> QED
  BY Steps, <1>1, <1>2, <1>3, <1>4, <1>5, <1>6, <1>7, <1>8, <1>9, <1>10, <1>11, <1>12, <1>13, <1>14,
     <1>15, <1>16, <1>17, <1>18, <1>19, <1>20 DEF PollerFinish

(* Nothing but PrepareForDelayedCapture makes a user wait.                  *)
LEMMA NobodyWaits ==
  ASSUME TInv, NEW v \in Users,
         \/ \E u \in Users : \/ BeginFails(u) \/ HandleDriverState(u) \/ DisconnectStart(u)
                             \/ \E a \in BOOLEAN : BeginSucceeds(u, a)
                             \/ \E a, b \in BOOLEAN : Initialize(u, a, b)
         \/ BeginJoined \/ PollerStep \/ DisconnectStep \/ TraceReady \/ UNCHANGED vars
  PROVE  /\ aborting' = aborting
         /\ userState'[v] = "WaitingToBeginCapture" => userState[v] = "WaitingToBeginCapture"
<1> USE UsersAssumption DEF TInv, TypeOK, KnownUsers, PollerActive, SetState
<1>1. ASSUME NEW u \in Users, BeginFails(u) \/ HandleDriverState(u) \/ DisconnectStart(u)
      PROVE /\ aborting' = aborting
            /\ userState'[v] = "WaitingToBeginCapture" => userState[v] = "WaitingToBeginCapture"
  BY <1>1 DEF BeginFails, BeginRefused, BeginConfigFails, BeginRequestFails, HandleDriverState, DisconnectStart,
     stateVars, discUnchanged, vars
<1>2. ASSUME NEW u \in Users, NEW a \in BOOLEAN, BeginSucceeds(u, a)
      PROVE /\ aborting' = aborting
            /\ userState'[v] = "WaitingToBeginCapture" => userState[v] = "WaitingToBeginCapture"
  BY <1>2 DEF BeginSucceeds, RequestBeginTrace, StartPolling
<1>3. ASSUME NEW u \in Users, NEW a \in BOOLEAN, NEW b \in BOOLEAN, Initialize(u, a, b)
      PROVE /\ aborting' = aborting
            /\ userState'[v] = "WaitingToBeginCapture" => userState[v] = "WaitingToBeginCapture"
  BY <1>3 DEF Initialize
<1>4. CASE BeginJoined
  BY <1>4 DEF BeginJoined, StartPolling
<1>5. CASE PollLoop \/ CollectNothing \/ CollectWrites \/ CollectFails \/ ExchangeCapturingUser \/ PollerEnds
  BY <1>5 DEF PollLoop, CollectNothing, CollectWrites, CollectFails, ExchangeCapturingUser, PollerEnds, pollUnchanged
<1>6. ASSUME NEW a \in BOOLEAN, CollectSucceeds(a)
      PROVE aborting' = aborting /\ userState' = userState
  BY <1>6 DEF CollectSucceeds, pollUnchanged
<1>7. CASE PollerFinish
  BY <1>7 DEF PollerFinish, FinishChunkError, FinishCompleted, FinishProcessing, ProcessingDone, FinishAborted,
     FinalState, finishUnchanged
<1>8. CASE DisconnectStep
  BY <1>8 DEF DisconnectStep, DisconnectCount, DisconnectSignal, DisconnectJoined, DisconnectErase, DisconnectDone,
     discUnchanged
<1>9. CASE TraceReady \/ UNCHANGED vars
  BY <1>9 DEF TraceReady, vars, stateVars
<1> QED
  BY <1>1, <1>2, <1>3, <1>4, <1>5, <1>6, <1>7, <1>8, <1>9 DEF PollerStep

LEMMA AbortsIdleStep ==
  ASSUME NeverDelayed, TInv, ThreadUsers, AbortsIdle, [ClientNext]_allVars
  PROVE  AbortsIdle'
<1> USE DEF AbortsIdle, ThreadUsers
<1>1. ASSUME aborting' = aborting, ui' = ui \/ ui.pc # "abort",
             \A v \in Users : userState'[v] = "WaitingToBeginCapture" => userState[v] = "WaitingToBeginCapture",
             dd'.pc \notin {"prepare", "startTimer"}
      PROVE  AbortsIdle'
  BY <1>1
<1>2. ASSUME NEW u \in Users, UiCalls(u) PROVE AbortsIdle'
  <2>1. ui.pc = "idle" /\ dd' = dd /\ UNCHANGED vars
    BY <1>2 DEF UiCalls
  <2> QED
    BY <1>1, <2>1, NobodyWaits
<1>3. CASE UiBegins \/ UiBeginFails
  <2>1. ui.pc = "begin" /\ dd' = dd /\ ui.user \in Users /\ (BeginSucceeds(ui.user, FALSE) \/ BeginFails(ui.user))
    BY <1>3 DEF UiBegins, UiBeginFails
  <2> QED
    BY <1>1, <2>1, NobodyWaits
<1>4. CASE UiPrepares
  <2>1. ui.pc = "prepare" /\ dd' = dd /\ aborting' = aborting
    BY <1>4 DEF UiPrepares, PrepareForDelayedCapture, vars
  <2> QED
    BY <2>1
<1>5. CASE UiTimerJoined \/ UiAbortUnsupported
  <2>1. dd' = dd /\ UNCHANGED vars
    BY <1>5 DEF UiTimerJoined, UiAbortUnsupported
  <2>2. \A u \in Users : aborting[u] = "none"
    BY <1>5 DEF UiTimerJoined, UiAbortUnsupported
  <2> QED
    BY <2>1, <2>2 DEF vars, stateVars
<1>6. CASE UiAborts
  <2>1. ui.pc = "abort" /\ ui.user \in Users /\ dd' = dd
    BY <1>6 DEF UiAborts
  <2>2. CASE AbortChecked(ui.user) /\ ui' = ui
    <3>1. userState[ui.user] # "WaitingToBeginCapture"
      BY <2>2 DEF AbortChecked, IsCapturing, NeverDelayed
    <3> QED
      BY <2>1, <2>2, <3>1 DEF AbortChecked, stateVars, TInv, TypeOK
  <2>3. ~AbortSeesWaiting(ui.user) /\ ~AbortWaiting(ui.user)
    BY <2>1 DEF AbortSeesWaiting, AbortWaiting
  <2>4. CASE AbortPolling(ui.user)
    BY <2>1, <2>4 DEF AbortPolling, TInv, TypeOK
  <2> QED
    BY <1>6, <2>2, <2>3, <2>4 DEF UiAborts
<1>7. ASSUME NEW u \in Users, DdInitialize(u) \/ DdCancelsTimer(u) PROVE AbortsIdle'
  <2>1. ui' = ui /\ dd'.pc \notin {"prepare", "startTimer"}
        /\ ((\E a, b \in BOOLEAN : Initialize(u, a, b)) \/ UNCHANGED vars)
    BY <1>7 DEF DdInitialize, DdCancelsTimer, clientVars
  <2> QED
    BY <1>1, <2>1, NobodyWaits
<1>8. ASSUME NEW u \in Users, NEW ok \in BOOLEAN, DdHandleDriverState(u, ok) PROVE AbortsIdle'
  <2>1. ui' = ui /\ HandleDriverState(u)
    BY <1>8 DEF DdHandleDriverState
  <2>2. AutoCapture[u] \in {"none", "now"}
    BY AutoCaptureAssumption DEF NeverDelayed
  <2>3. dd'.pc \notin {"prepare", "startTimer"}
    BY <1>8, <2>2 DEF DdHandleDriverState, IdleThread
  <2> QED
    BY <1>1, <2>1, <2>3, NobodyWaits
<1>9. CASE DdRuns
  <2>1. ~DdPrepares /\ ~DdStartsTimer
    BY DEF DdPrepares, DdStartsTimer
  <2>2. ui' = ui /\ dd.user \in Users /\ (BeginSucceeds(dd.user, TRUE) \/ BeginFails(dd.user) \/ DisconnectStart(dd.user))
    BY <1>9, <2>1 DEF DdRuns, DdBegins, DdBeginFails, DdTimerJoined
  <2>3. dd' = IdleThread \/ dd' = [dd EXCEPT !.pc = "joining"]
    BY <1>9, <2>1 DEF DdRuns, DdBegins, DdBeginFails, DdTimerJoined
  <2>4. dd'.pc \notin {"prepare", "startTimer"}
    BY <2>3 DEF IdleThread, ThreadTypes
  <2> QED
    BY <1>1, <2>2, <2>4, NobodyWaits
<1>10. ASSUME NEW u \in Users, TimerRuns(u) PROVE AbortsIdle'
  <2>1. UNCHANGED <<ui, dd>> /\ (BeginSucceeds(u, TRUE) \/ BeginFails(u) \/ UNCHANGED vars)
    BY <1>10 DEF TimerRuns, TimerCancelled, TimerFires, TimerBegins, TimerBeginFails
  <2> QED
    BY <1>1, <2>1, NobodyWaits
<1>11. CASE JoinReturns
  <2>1. BeginJoined /\ (ui' = ui \/ ui.pc = "joining") /\ dd'.pc \in {dd.pc, "idle"}
    BY <1>11 DEF JoinReturns, IdleThread
  <2> QED
    BY <1>1, <2>1, NobodyWaits
<1>12. CASE Background
  <2>1. UNCHANGED <<ui, dd>> /\ (PollerStep \/ DisconnectStep \/ TraceReady)
    BY <1>12 DEF Background, clientVars
  <2> QED
    BY <1>1, <2>1, NobodyWaits
<1>13. CASE UNCHANGED allVars
  BY <1>1, <1>13, NobodyWaits DEF allVars, clientVars
<1> QED
  BY <1>2, <1>3, <1>4, <1>5, <1>6, <1>7, <1>8, <1>9, <1>10, <1>11, <1>12, <1>13 DEF ClientNext, UiRuns

(* A user is shown as capturing while its capture is polled for, for any       *)
(* users on the connection, where the driver cannot cancel a trace and no      *)
(* automatic capture is delayed. With a delay the abort of a user that waits    *)
(* can end after the capture has begun (RequestAbortTrace, SetState).         *)
THEOREM PolledUsersShown ==
  ASSUME NeverDelayed
  PROVE  ClientSpec => []PolledUserShown
<1>1. TInv /\ CInv /\ ThreadUsers /\ Shown /\ AbortsIdle /\ [ClientNext]_allVars => Shown' /\ AbortsIdle'
  BY StepObeys, ShownStep, AbortsIdleStep DEF AbortsIdle
<1>2. Shown => PolledUserShown
  BY DEF Shown
<1>3. ClientSpec => [](TInv /\ CInv)
  BY ClientsObey, Invariant, PTL
<1> QED
  BY <1>1, <1>2, <1>3, ShownInit, ThreadUsersInit, ThreadUsersStep, PTL DEF ClientSpec
==============================================================================
