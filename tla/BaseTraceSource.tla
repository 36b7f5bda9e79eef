--------------------------- MODULE BaseTraceSource ---------------------------
(***************************************************************************)
(* BaseTraceSource: the client lists of a trace source, the developer      *)
(* overlay it drives and the status it shows.                              *)
(*                                                                         *)
(* DevDriver has one thread per connection (connect, driver states,        *)
(* disconnect: one call at a time); each client changes its own state on   *)
(* threads of its own and calls back into the source; the user interface   *)
(* queries the status; a reporting thread delivers the queued statuses.    *)
(* An action is the code under one acquisition of client_mutex_, or        *)
(* between two of them.                                                    *)
(***************************************************************************)
EXTENDS Naturals, Sequences, FiniteSets, SequencesExt

CONSTANTS
  Connections,     \* UMD connections that may come
  NoConnection,
  States,          \* the client states that occur
  MaxChanges,      \* bound: state changes of each client
  MaxQueue         \* bound: statuses waiting to be delivered

(* The states of the enumeration that matter to a status and its overlay:   *)
(* not usable, finished, ready, at work.                                    *)
ASSUME ConnectionsAssumption ==
  /\ NoConnection \notin Connections
  /\ "Idle" \in States /\ States \subseteq {"Disabled", "Done", "Idle", "Capturing"}
  /\ MaxChanges \in Nat /\ MaxQueue \in Nat \ {0}

VARIABLES
  pending,      \* pending_clients_
  clients,      \* clients_
  unsupported,  \* unsupported_clients_
  thread,       \* where the DevDriver thread of each connection is
  state,        \* ClientState of each client
  notify,       \* how far each client's state change event has come
  changes,      \* history: state changes of each client (for the bound)
  overlay,      \* the state the overlay shows for this feature, per connection
  previous,     \* previous_status_
  queue,        \* status_event_queue_
  delivering,   \* the event the status thread has taken out of the queue
  shown         \* the last status the listeners were given

listVars   == <<pending, clients, unsupported>>
clientVars == <<state, notify, changes, overlay>>
statusVars == <<previous, queue, delivering, shown>>
vars == <<listVars, thread, clientVars, statusVars>>

(* In the order of the enumeration, which GetTraceSourceStage relies on.    *)
ClientState == <<"Disabled", "Error", "Done", "Busy", "Idle", "WaitingToBeginCapture",
                 "Capturing", "PostProcessing", "Dumping">>
Rank(s) == CHOOSE i \in DOMAIN ClientState : ClientState[i] = s

Usable(s) == s \notin {"Done", "Disabled", "Error"}

Threads == {"none", "connecting", "connected", "initializing", "disconnecting",
            "updating", "leaving", "gone"}
Changing == [pc : {"none", "front", "overlay", "update"}, id : Connections \cup {NoConnection}]
Quiet == [pc |-> "none", id |-> NoConnection]

Stages == {"Disconnected"} \cup Range(ClientState)
Statuses == [stage : Stages, process : Connections \cup {NoConnection},
             connections : SUBSET Connections]
Event == [old : Statuses, new : Statuses]
NoEvent == <<>>

------------------------------------------------------------------------------
(* BuildCurrentStatus, under client_mutex_.                                 *)

GetTraceSourceStage ==
  IF clients # <<>>
  THEN LET highest == CHOOSE c \in Range(clients) :
                        \A d \in Range(clients) : Rank(state[d]) <= Rank(state[c])
       IN state[highest]
  ELSE IF unsupported # <<>> THEN "Disabled" ELSE "Disconnected"

FillProcessInfo ==
  IF clients # <<>> THEN Head(clients)
  ELSE IF unsupported # <<>> THEN Head(unsupported)
  ELSE IF pending # <<>> THEN Head(pending)
  ELSE NoConnection

FillCurrentConnections == {c \in Range(clients) : Usable(state[c])}

BuildCurrentStatus ==
  [stage |-> GetTraceSourceStage, process |-> FillProcessInfo,
   connections |-> FillCurrentConnections]

Disconnected == [stage |-> "Disconnected", process |-> NoConnection, connections |-> {}]

TypeOK ==
  /\ pending \in Seq(Connections) /\ clients \in Seq(Connections) /\ unsupported \in Seq(Connections)
  /\ thread \in [Connections -> Threads]
  /\ state \in [Connections -> States]
  /\ notify \in [Connections -> Changing]
  /\ changes \in [Connections -> 0 .. MaxChanges]
  /\ overlay \in [Connections -> States \cup {"None", "Disabled"}]
  /\ previous \in Statuses
  /\ shown \in Statuses
  /\ delivering = NoEvent \/ delivering \in Event
  /\ queue \in Seq(Event)

Init ==
  /\ pending = <<>> /\ clients = <<>> /\ unsupported = <<>>
  /\ thread = [c \in Connections |-> "none"]
  /\ state = [c \in Connections |-> "Idle"]
  /\ notify = [c \in Connections |-> Quiet]
  /\ changes = [c \in Connections |-> 0]
  /\ overlay = [c \in Connections |-> "None"]
  /\ previous = Disconnected
  /\ queue = <<>>
  /\ delivering = NoEvent
  /\ shown = Disconnected

------------------------------------------------------------------------------
(* UpdateTraceSourceStatus: building the status and queueing it are one     *)
(* step, under state_mutex_ and client_mutex_. The queue has no limit in    *)
(* the code: MaxQueue makes the caller wait here.                           *)

(* Mutant: previous_status_ is not kept up to date.                         *)
UpdateTraceSourceStatusForgets ==
  /\ Len(queue) < MaxQueue
  /\ queue' = Append(queue, [old |-> previous, new |-> BuildCurrentStatus])
  /\ UNCHANGED <<previous, delivering, shown>>

UpdateTraceSourceStatus ==
  /\ Len(queue) < MaxQueue
  /\ queue' = Append(queue, [old |-> previous, new |-> BuildCurrentStatus])
  /\ previous' = BuildCurrentStatus
  /\ UNCHANGED <<delivering, shown>>

Goto(c, pc) == thread' = [thread EXCEPT ![c] = pc]

------------------------------------------------------------------------------
(* The DevDriver thread of a connection.                                    *)

(* system_disabled_reason_ decides, without a lock, whether to look at the  *)
(* connection at all.                                                       *)
IgnoreConnected(c) ==
  /\ thread[c] = "none"
  /\ overlay' = [overlay EXCEPT ![c] = "Disabled"]
  /\ Goto(c, "gone")
  /\ UNCHANGED <<listVars, state, notify, changes, statusVars>>

(* Its API does not pass supported_apis_.                                   *)
RejectUnsupported(c) ==
  /\ thread[c] = "none"
  /\ unsupported' = Append(unsupported, c)
  /\ overlay' = [overlay EXCEPT ![c] = "Disabled"]
  /\ Goto(c, "updating")
  /\ UNCHANGED <<pending, clients, state, notify, changes, statusVars>>

OnDriverConnected(c) ==
  /\ thread[c] = "none"
  /\ pending' = Append(pending, c)
  /\ Goto(c, "updating")
  /\ UNCHANGED <<clients, unsupported, clientVars, statusVars>>

(* The call's last step.                                                    *)
Update(c) ==
  /\ thread[c] \in {"updating", "leaving"}
  /\ UpdateTraceSourceStatus
  /\ Goto(c, IF thread[c] = "updating" THEN "connected" ELSE "gone")
  /\ UNCHANGED <<listVars, clientVars>>

(* InitClientIfNeeded takes the client out of the pending list; nobody else *)
(* sees it until it is initialized.                                         *)
TakePending(c) ==
  /\ thread[c] = "connected"
  /\ c \in Range(pending)
  /\ pending' = RemoveFirst(pending, c)
  /\ Goto(c, "initializing")
  /\ UNCHANGED <<clients, unsupported, clientVars, statusVars>>

(* Mutant: the new client is listed but no status is built.                 *)
InitSucceedsQuietly(c) ==
  /\ thread[c] = "initializing"
  /\ clients' = Append(clients, c)
  /\ overlay' = [overlay EXCEPT ![c] = state[c]]
  /\ Goto(c, "connected")
  /\ UNCHANGED <<pending, unsupported, state, notify, changes, statusVars>>

InitSucceeds(c) ==
  /\ thread[c] = "initializing"
  /\ clients' = Append(clients, c)
  /\ overlay' = [overlay EXCEPT ![c] = state[c]]
  /\ Goto(c, "updating")
  /\ UNCHANGED <<pending, unsupported, state, notify, changes, statusVars>>

(* The client is destroyed; no status is built.                             *)
InitFails(c) ==
  /\ thread[c] = "initializing"
  /\ Goto(c, "connected")
  /\ UNCHANGED <<listVars, clientVars, statusVars>>

OnDriverDisconnected(c) ==
  /\ thread[c] = "connected"
  /\ pending' = RemoveFirst(pending, c)
  /\ clients' = RemoveFirst(clients, c)
  /\ unsupported' = RemoveFirst(unsupported, c)
  /\ Goto(c, IF c \in Range(clients) THEN "disconnecting" ELSE "leaving")
  /\ UNCHANGED <<clientVars, statusVars>>

(* The client's own Disconnect has returned; its state changes have been    *)
(* reported, for SetState reports before it returns.                        *)
ClientDisconnected(c) ==
  /\ thread[c] = "disconnecting"
  /\ notify[c] = Quiet
  /\ Goto(c, "leaving")
  /\ UNCHANGED <<listVars, clientVars, statusVars>>

------------------------------------------------------------------------------
(* A client changes state on whatever thread it works on, and reports it to *)
(* the source: OnClientStateChangeEvent.                                    *)

Listed(c) == c \in Range(clients)

ChangeState(c, s) ==
  /\ Listed(c) \/ thread[c] = "disconnecting"
  /\ notify[c] = Quiet
  /\ changes[c] < MaxChanges
  /\ s # state[c]
  /\ state' = [state EXCEPT ![c] = s]
  /\ changes' = [changes EXCEPT ![c] = @ + 1]
  /\ notify' = [notify EXCEPT ![c] = [pc |-> "front", id |-> NoConnection]]
  /\ UNCHANGED <<listVars, thread, overlay, statusVars>>

(* The connection the overlay is updated for is the first one in the list,  *)
(* whichever client changed state.                                          *)
FindFront(c) ==
  /\ notify[c].pc = "front"
  /\ notify' = [notify EXCEPT ![c] =
                  IF clients = <<>> THEN Quiet ELSE [pc |-> "overlay", id |-> Head(clients)]]
  /\ UNCHANGED <<listVars, thread, state, changes, overlay, statusVars>>

UpdateOverlay(c) ==
  /\ notify[c].pc = "overlay"
  /\ overlay' = [overlay EXCEPT ![notify[c].id] = state[c]]
  /\ notify' = [notify EXCEPT ![c] = [pc |-> "update", id |-> NoConnection]]
  /\ UNCHANGED <<listVars, thread, state, changes, statusVars>>

(* Mutant: the overlay is updated but the status is not.                    *)
UpdateAfterChangeSkipped(c) ==
  /\ notify[c].pc = "update"
  /\ notify' = [notify EXCEPT ![c] = Quiet]
  /\ UNCHANGED <<listVars, thread, state, changes, overlay, statusVars>>

UpdateAfterChange(c) ==
  /\ notify[c].pc = "update"
  /\ UpdateTraceSourceStatus
  /\ notify' = [notify EXCEPT ![c] = Quiet]
  /\ UNCHANGED <<listVars, thread, state, changes, overlay>>

------------------------------------------------------------------------------
(* Reporting.                                                               *)

PopStatusEvent ==
  /\ delivering = NoEvent
  /\ queue # <<>>
  /\ delivering' = Head(queue)
  /\ queue' = Tail(queue)
  /\ UNCHANGED <<listVars, thread, clientVars, previous, shown>>

DeliverStatus ==
  /\ delivering # NoEvent
  /\ shown' = delivering.new
  /\ delivering' = NoEvent
  /\ UNCHANGED <<listVars, thread, clientVars, previous, queue>>

(* The user interface gets the current status at once, ahead of what is     *)
(* still queued.                                                            *)
QueryStatus ==
  /\ shown' = BuildCurrentStatus
  /\ shown' # shown
  /\ UNCHANGED <<listVars, thread, clientVars, previous, queue, delivering>>

------------------------------------------------------------------------------

DriverThread(c) ==
  \/ Update(c)
  \/ InitSucceeds(c)
  \/ InitFails(c)
  \/ ClientDisconnected(c)

DriverCall(c) ==
  \/ IgnoreConnected(c)
  \/ RejectUnsupported(c)
  \/ OnDriverConnected(c)
  \/ TakePending(c)
  \/ OnDriverDisconnected(c)

Notify(c) ==
  \/ FindFront(c)
  \/ UpdateOverlay(c)
  \/ UpdateAfterChange(c)

StatusThread == PopStatusEvent \/ DeliverStatus

Next ==
  \/ \E c \in Connections : DriverCall(c) \/ DriverThread(c)
  \/ \E c \in Connections, s \in States : ChangeState(c, s)
  \/ \E c \in Connections : Notify(c)
  \/ StatusThread
  \/ QueryStatus

Spec == Init /\ [][Next]_vars

(* Every thread that is inside a call is scheduled; nobody has to call.     *)
FairSpec ==
  /\ Spec
  /\ \A c \in Connections : WF_vars(DriverThread(c)) /\ WF_vars(Notify(c))
  /\ WF_vars(StatusThread)

------------------------------------------------------------------------------
(* Properties.                                                              *)

Settled ==
  /\ queue = <<>> /\ delivering = NoEvent
  /\ \A c \in Connections : notify[c] = Quiet
  /\ \A c \in Connections : thread[c] \in {"none", "connected", "gone"}

(* Once nothing is under way, the listeners have been given the stage and   *)
(* the usable connections as they are: no order of connections, client      *)
(* state changes, queued deliveries and queries leaves an older status      *)
(* behind as the last one.                                                  *)
ShownIsCurrent ==
  Settled => /\ shown.stage = GetTraceSourceStage
             /\ shown.connections = FillCurrentConnections

(* Statuses form a chain: each event's old status is the new status of the  *)
(* event before, so a listener that compares the two misses no transition.  *)
Pushed == (IF delivering = NoEvent THEN <<>> ELSE <<delivering>>) \o queue
OldStatusIsPrevious ==
  /\ \A i \in 2 .. Len(Pushed) : Pushed[i].old = Pushed[i - 1].new
  /\ Pushed # <<>> => previous = Last(Pushed).new

(* The panel catches up: as the clients cannot change state for ever, the   *)
(* stage shown ends up being the stage of the clients.                      *)
ShownCatchesUp == <>[](shown.stage = GetTraceSourceStage)

(* "The process id that the trace source is connected to."                  *)
ShownProcessIsCurrent == Settled => shown.process = FillProcessInfo

(* The overlay of a connected application shows the state of its own client *)
(* once nothing is under way.                                               *)
OverlayIsCurrent == Settled => \A c \in Range(clients) : overlay[c] = state[c]

==============================================================================
