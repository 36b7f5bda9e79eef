---------------------------- MODULE OverlayManager ----------------------------
(***************************************************************************)
(* OverlayManager: the lines of text the developer overlay shows in each    *)
(* application. Every connection has a queue and a thread of its own that   *)
(* sends its lines to the driver.                                          *)
(*                                                                         *)
(* Up to DEVICEINIT the states of the features are only kept; then they are *)
(* flushed. The clocks are read when the item runs, not when it is queued.  *)
(* The end of a connection does not wait for its thread: the thread is put  *)
(* on a list that the next connection, or the router going, joins. A        *)
(* section under state_mutex_ is one step; the callbacks of a connection    *)
(* come one after another, those of two connections in any order.           *)
(***************************************************************************)
EXTENDS Naturals, Sequences, FiniteSets, SequencesExt

CONSTANTS
  Connections,   \* UMD connections, each used once
  Features,      \* OverlayFeature
  States,        \* OverlayState
  Infos,         \* what device_clock_info_ may hold
  MaxUpdates,    \* bound: calls of UpdateFeatureState and UpdateDeviceClocks
  MaxRouters     \* bound: routers connected one after another

NoInfo == "NoInfo"         \* device_clock_info_ empty
NoState == "NoState"       \* a line the driver was never given
Clocks == "Clocks"         \* kDeviceClocksIndex
Router == "Router"

ASSUME StatesAssumption == "kInactive" \in States
ASSUME NamesAssumption == Clocks \notin Features /\ Router \notin Connections
ASSUME FeaturesAssumption == IsFiniteSet(Features)

Lines == Features \cup {Clocks}
Threads == Connections \cup {Router}
Items == [line : Features, text : States] \cup [line : {Clocks}, text : {NoInfo}]
(* An item being run; the clocks' text is known once it has been read.      *)
Jobs == [line : Features, text : States] \cup [line : {Clocks}, text : Infos \cup {NoInfo}]

VARIABLES
  router,     \* "down", "up", "leaving"
  enabled,    \* enabled_
  phase,      \* how far the callbacks of each connection have come
  startup,    \* startup_states_, the ones there are
  queues,     \* keys of queues_
  queue,      \* State::queue_ of each connection
  poll,       \* State::poll_
  worker,     \* the queue thread: none, alive, ended
  job,        \* the item it has taken off the queue and not finished
  joins,      \* join_threads_
  joining,    \* the list each JoinQueueThreads has taken
  info,       \* device_clock_info_
  shown,      \* the driver's lines
  wanted,     \* history: the last state each feature asked for
  late,       \* history: strings sent after the disconnect
  updates, routers

managerVars == <<enabled, startup, queues, joins, info>>
callVars == <<router, phase, joining>>
threadVars == <<queue, poll, worker, job, shown, late>>
bounds == <<updates, routers>>
vars == <<managerVars, callVars, threadVars, wanted, bounds>>

TypeOK ==
  /\ router \in {"down", "up", "leaving"}
  /\ enabled \in BOOLEAN
  /\ phase \in [Connections -> {"new", "joining", "open", "inited", "gone"}]
  /\ DOMAIN startup \subseteq queues
  /\ \A c \in DOMAIN startup : startup[c] \in [Features -> States]
  /\ queues \subseteq {c \in Connections : phase[c] \in {"open", "inited"}}
  /\ \A c \in Connections : \A k \in 1 .. Len(queue[c]) : queue[c][k] \in Items
  /\ poll \in [Connections -> BOOLEAN]
  /\ worker \in [Connections -> {"none", "alive", "ended"}]
  /\ \A c \in Connections : job[c] = <<>> \/ (Len(job[c]) = 1 /\ Head(job[c]) \in Jobs)
  /\ joins \subseteq Connections
  /\ joining \in [Threads -> SUBSET Connections]
  /\ info \in Infos \cup {NoInfo}
  /\ \A c \in Connections : \A l \in Lines :
       shown[c][l] \in (IF l = Clocks THEN Infos ELSE States) \cup {NoState}
  /\ wanted \in [Connections -> [Features -> States]]
  /\ late \in [Connections -> Nat]
  /\ updates \in 0 .. MaxUpdates
  /\ routers \in 0 .. MaxRouters

Init ==
  /\ router = "down" /\ enabled = FALSE
  /\ phase = [c \in Connections |-> "new"]
  /\ startup = <<>> /\ queues = {}
  /\ queue = [c \in Connections |-> <<>>]
  /\ poll = [c \in Connections |-> TRUE]
  /\ worker = [c \in Connections |-> "none"]
  /\ job = [c \in Connections |-> <<>>]
  /\ joins = {} /\ joining = [t \in Threads |-> {}]
  /\ info = NoInfo
  /\ shown = [c \in Connections |-> [l \in Lines |-> NoState]]
  /\ wanted = [c \in Connections |-> [f \in Features |-> "kInactive"]]
  /\ late = [c \in Connections |-> 0]
  /\ updates = 0 /\ routers = 0

------------------------------------------------------------------------------
(* The router. What the system information says of the driver's version,    *)
(* and whether there is any, decides enabled_.                             *)

OnRouterConnected ==
  /\ router = "down" /\ routers < MaxRouters
  /\ router' = "up" /\ routers' = routers + 1
  /\ enabled' \in BOOLEAN
  /\ UNCHANGED <<startup, queues, joins, info, phase, joining, threadVars, wanted, updates>>

(* Mutant: the list is left where it was.                                   *)
TakeNoThreads(t) == joining' = joining /\ joins' = joins

(* JoinQueueThreads, its locked half: the list is moved out.                *)
TakeThreads(t) == joining' = [joining EXCEPT ![t] = joins] /\ joins' = {}

(* Its other half, without the lock: every one of them has ended.           *)
Joined(t) == \A c \in joining[t] : worker[c] = "ended"

(* The router goes after its connections have.                              *)
OnRouterDisconnected ==
  /\ router = "up"
  /\ \A c \in Connections : phase[c] \in {"new", "gone"}
  /\ router' = "leaving"
  /\ TakeThreads(Router)
  /\ UNCHANGED <<enabled, startup, queues, info, phase, threadVars, wanted, bounds>>

RouterGone ==
  /\ router = "leaving" /\ Joined(Router)
  /\ router' = "down"
  /\ joining' = [joining EXCEPT ![Router] = {}]
  /\ UNCHANGED <<managerVars, phase, threadVars, wanted, bounds>>

------------------------------------------------------------------------------
(* A connection.                                                           *)

BeginDriverConnected(c) ==
  /\ router = "up" /\ phase[c] = "new"
  /\ phase' = [phase EXCEPT ![c] = "joining"]
  /\ TakeThreads(c)
  /\ UNCHANGED <<router, enabled, startup, queues, info, threadVars, wanted, bounds>>

OnDriverConnected(c) ==
  /\ phase[c] = "joining" /\ Joined(c)
  /\ joining' = [joining EXCEPT ![c] = {}]
  /\ phase' = [phase EXCEPT ![c] = "open"]
  /\ \/ ~enabled /\ UNCHANGED <<startup, queues, worker>>
     \/ /\ enabled
        /\ queues' = queues \cup {c}
        /\ startup' = [x \in DOMAIN startup \cup {c} |->
                         IF x = c THEN [f \in Features |-> "kInactive"] ELSE startup[x]]
        /\ worker' = [worker EXCEPT ![c] = "alive"]
  /\ UNCHANGED <<router, enabled, joins, info, queue, poll, job, shown, late, wanted, bounds>>

StateItems(states) == SetToSeq({[line |-> f, text |-> states[f]] : f \in Features})
ClocksItem == [line |-> Clocks, text |-> NoInfo]
Without(c) == [x \in DOMAIN startup \ {c} |-> startup[x]]

(* OnDriverStateChanged(DEVICEINIT).                                       *)
DeviceInit(c) ==
  /\ phase[c] = "open"
  /\ phase' = [phase EXCEPT ![c] = "inited"]
  /\ \/ (~enabled \/ c \notin DOMAIN startup) /\ UNCHANGED <<startup, queue>>
     \/ /\ enabled /\ c \in DOMAIN startup
        /\ startup' = Without(c)
        /\ queue' = [queue EXCEPT ![c] = (@ \o StateItems(startup[c])) \o <<ClocksItem>>]
  /\ UNCHANGED <<router, enabled, queues, joins, joining, info, poll, worker, job, shown, late, wanted, bounds>>

(* Mutant: ~OverlayQueue leaves poll_ set.                                  *)
DisconnectPolling(c) ==
  /\ phase[c] \in {"open", "inited"}
  /\ phase' = [phase EXCEPT ![c] = "gone"]
  /\ startup' = Without(c)
  /\ queues' = queues \ {c}
  /\ joins' = joins \cup ({c} \cap queues)
  /\ UNCHANGED <<router, enabled, joining, info, queue, poll, worker, job, shown, late, wanted, bounds>>

(* The thread is moved to the list and ~OverlayQueue stops its polling.     *)
OnDriverDisconnected(c) ==
  /\ phase[c] \in {"open", "inited"}
  /\ phase' = [phase EXCEPT ![c] = "gone"]
  /\ startup' = Without(c)
  /\ queues' = queues \ {c}
  /\ joins' = joins \cup ({c} \cap queues)
  /\ poll' = [poll EXCEPT ![c] = @ /\ c \notin queues]
  /\ UNCHANGED <<router, enabled, joining, info, queue, worker, job, shown, late, wanted, bounds>>

------------------------------------------------------------------------------
(* The trace sources and the clocks manager.                               *)

(* UpdateFeatureStateInternal: nothing without a queue.                     *)
Enqueue(c, item) == IF c \in queues THEN [queue EXCEPT ![c] = Append(@, item)] ELSE queue

(* Mutant: a state given before DEVICEINIT is dropped.                      *)
UpdateFeatureStateLate(c, f, s) ==
  /\ updates < MaxUpdates /\ updates' = updates + 1
  /\ \/ ~enabled /\ UNCHANGED <<startup, queue, wanted>>
     \/ /\ enabled
        /\ wanted' = [wanted EXCEPT ![c][f] = IF c \in queues THEN s ELSE @]
        /\ UNCHANGED startup
        /\ queue' = IF c \in DOMAIN startup THEN queue ELSE Enqueue(c, [line |-> f, text |-> s])
  /\ UNCHANGED <<enabled, queues, joins, info, callVars, poll, worker, job, shown, late, routers>>

UpdateFeatureState(c, f, s) ==
  /\ updates < MaxUpdates /\ updates' = updates + 1
  /\ \/ ~enabled /\ UNCHANGED <<startup, queue, wanted>>
     \/ /\ enabled
        /\ wanted' = [wanted EXCEPT ![c][f] = IF c \in queues THEN s ELSE @]
        /\ IF c \in DOMAIN startup
           THEN startup' = [startup EXCEPT ![c][f] = s] /\ UNCHANGED queue
           ELSE queue' = Enqueue(c, [line |-> f, text |-> s]) /\ UNCHANGED startup
  /\ UNCHANGED <<enabled, queues, joins, info, callVars, poll, worker, job, shown, late, routers>>

(* Every connection that has finished starting is told again.               *)
UpdateDeviceClocks(i) ==
  /\ updates < MaxUpdates /\ updates' = updates + 1
  /\ \/ ~enabled /\ UNCHANGED <<info, queue>>
     \/ /\ enabled
        /\ info' = i
        /\ queue' = [c \in Connections |->
                       IF c \in queues \ DOMAIN startup THEN Append(queue[c], ClocksItem) ELSE queue[c]]
  /\ UNCHANGED <<enabled, startup, queues, joins, callVars, poll, worker, job, shown, late, wanted, routers>>

------------------------------------------------------------------------------
(* The queue thread. poll_ is looked at again after the wait.               *)
RunNext(c) ==
  /\ worker[c] = "alive" /\ job[c] = <<>> /\ poll[c] /\ queue[c] # <<>>
  /\ job' = [job EXCEPT ![c] = <<Head(queue[c])>>]
  /\ queue' = [queue EXCEPT ![c] = Tail(@)]
  /\ UNCHANGED <<managerVars, callVars, poll, worker, shown, late, wanted, bounds>>

(* GetDeviceClocksString under state_mutex_; nothing is sent if it is empty. *)
ReadClocks(c) ==
  /\ job[c] = <<ClocksItem>>
  /\ job' = [job EXCEPT ![c] = IF info = NoInfo THEN <<>> ELSE <<[ClocksItem EXCEPT !.text = info]>>]
  /\ UNCHANGED <<managerVars, callVars, queue, poll, worker, shown, late, wanted, bounds>>

(* SetDriverOverlayString.                                                 *)
Send(c) ==
  /\ job[c] # <<>> /\ job[c] # <<ClocksItem>>
  /\ shown' = [shown EXCEPT ![c][Head(job[c]).line] = Head(job[c]).text]
  /\ late' = [late EXCEPT ![c] = IF phase[c] = "gone" THEN @ + 1 ELSE @]
  /\ job' = [job EXCEPT ![c] = <<>>]
  /\ UNCHANGED <<managerVars, callVars, queue, poll, worker, wanted, bounds>>

StopPolling(c) ==
  /\ worker[c] = "alive" /\ job[c] = <<>> /\ ~poll[c]
  /\ worker' = [worker EXCEPT ![c] = "ended"]
  /\ UNCHANGED <<managerVars, callVars, queue, poll, job, shown, late, wanted, bounds>>

------------------------------------------------------------------------------
Worker(c) == RunNext(c) \/ ReadClocks(c) \/ Send(c) \/ StopPolling(c)

Callback(c) ==
  BeginDriverConnected(c) \/ OnDriverConnected(c) \/ DeviceInit(c) \/ OnDriverDisconnected(c)

Next ==
  \/ OnRouterConnected \/ OnRouterDisconnected \/ RouterGone
  \/ \E c \in Connections : Callback(c) \/ Worker(c)
  \/ \E c \in Connections, f \in Features, s \in States : UpdateFeatureState(c, f, s)
  \/ \E i \in Infos \cup {NoInfo} : UpdateDeviceClocks(i)

(* A queue thread keeps running, the driver answers it, and a callback that *)
(* waits for threads goes on when they have ended.                         *)
Fairness ==
  /\ \A c \in Connections : WF_vars(Worker(c)) /\ WF_vars(OnDriverConnected(c))
  /\ WF_vars(RouterGone)

Spec == Init /\ [][Next]_vars /\ Fairness

------------------------------------------------------------------------------
(* What is still to be sent to a connection, and where a line is in it.      *)
Pending(c) == job[c] \o queue[c]
Unsent(c, l) == {k \in 1 .. Len(Pending(c)) : Pending(c)[k].line = l}
LastUnsent(c, l) == {k \in Unsent(c, l) : \A m \in Unsent(c, l) : m <= k}

(* The last state a feature asked for is the last that will be shown        *)
(* (UpdateFeatureState, DEVICEINIT's flush): it is kept for the flush, is    *)
(* the last of its line in the queue or in the thread's hands, or is what    *)
(* the driver shows.                                                       *)
LastStateWins ==
  \A c \in queues, f \in Features :
    \/ c \in DOMAIN startup /\ startup[c][f] = wanted[c][f]
    \/ /\ c \notin DOMAIN startup
       /\ IF Unsent(c, f) = {} THEN phase[c] = "inited" => shown[c][f] = wanted[c][f]
          ELSE \A k \in LastUnsent(c, f) : Pending(c)[k].text = wanted[c][f]

(* A connection that has started and has no clock line under way shows the  *)
(* clocks as they are, however the change raced with the thread's reading.  *)
ClocksShown ==
  \A c \in queues :
    (c \notin DOMAIN startup /\ Unsent(c, Clocks) = {} /\ info # NoInfo)
       => shown[c][Clocks] = info

(* Each line of the overlay ends as what was asked or read last.            *)
LinesCatchUp == LastStateWins /\ ClocksShown

(* After the end of a connection at most the one string goes out that its   *)
(* thread had in hand; the queue is not drained.                           *)
OneLateString == \A c \in Connections : late[c] <= 1

(* Once the router's callback has returned no queue thread is left: ~thread *)
(* of a joinable thread would end the program.                             *)
NoThreadLeft ==
  router = "down" =>
    joins = {} /\ \A c \in Connections : worker[c] \in {"none", "ended"}

(* A connection that ended leaves no more than that.                        *)
GoneIsGone == OneLateString /\ NoThreadLeft

(* JoinQueueThreads returns: nobody waits for a thread that does not end.   *)
JoinReturns ==
  /\ \A c \in Connections : phase[c] = "joining" ~> phase[c] # "joining"
  /\ router = "leaving" ~> router = "down"
==============================================================================
