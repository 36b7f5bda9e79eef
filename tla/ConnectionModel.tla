---------------------------- MODULE ConnectionModel ----------------------------
(***************************************************************************)
(* The panel's connection to a router: ConnectionModel, and the buttons of  *)
(* ConnectionWidget that drive it.                                         *)
(*                                                                         *)
(* Three threads take part. "gui" runs Qt's event loop: it handles clicks    *)
(* and the signals queued for it. "worker" is connection_thread_. "router"   *)
(* is the thread of the DDTool library that reports the router.             *)
(* connection_mutex_ is recursive; a step that locks and unlocks it is one   *)
(* step that needs it free. Only SetDisableClientTimeout keeps it while it   *)
(* waits for something else. A signal is sent after the unlock, which is a    *)
(* step of its own ("emit"), but for NetConnected.                           *)
(***************************************************************************)
EXTENDS Naturals, Sequences

CONSTANT MaxClicks   \* how often the user does something

Types == {"Local", "Remote"}
Idle == [at |-> "idle"]

VARIABLES
  conn, type, should, reconnecting,   \* connection_state_, active_connection_type_, ...
  disabled, router,                   \* disable_client_timeout_; router_: what it was made with
  held,                               \* gui keeps connection_mutex_
  pc,                                 \* what each thread is doing
  link,                               \* the library's connection
  signals,                            \* queued for gui
  widget, clicks,
  overtaken                           \* history: NetDisconnecting was sent last, after the end
                                      \* of the router had been told

model == <<conn, type, should, reconnecting>>
vars == <<conn, type, should, reconnecting, disabled, router, held, pc, link, signals, widget, clicks,
          overtaken>>

Init ==
  /\ conn = "Disconnected" /\ type = "Unknown" /\ should = FALSE /\ reconnecting = FALSE
  /\ disabled = FALSE /\ router = "none" /\ held = FALSE
  /\ pc = [t \in {"gui", "worker", "router"} |-> Idle]
  /\ link = "none" /\ signals = <<>>
  /\ widget = [connect |-> TRUE, disconnect |-> FALSE, timeout |-> TRUE, type |-> "Local",
               shutdown |-> FALSE]
  /\ clicks = 0 /\ overtaken = FALSE

------------------------------------------------------------------------------
Goto(t, step) == pc' = [pc EXCEPT ![t] = step]
Says(s, step) == [at |-> "emit", signals |-> s, next |-> step]

(* Where a thread is when it has done its work: the gui thread works only to   *)
(* end the panel.                                                          *)
Done(t) == [at |-> IF t = "gui" THEN "ending" ELSE "idle"]
Lockable(t) == held => t = "gui"

CreateResults == {"success", "ExistingLocalRouterFound", "RouterCreationFailed"}

(* A thread sends what it has to say.                                       *)
EmitSignals(t) ==
  /\ pc[t].at = "emit"
  /\ signals' = signals \o pc[t].signals
  /\ Goto(t, pc[t].next)
  /\ overtaken' = IF pc[t].signals = <<"NetDisconnecting">>
                  THEN conn = "Disconnected" /\ pc["router"] = Idle
                  ELSE overtaken /\ Head(pc[t].signals) \in CreateResults
  /\ UNCHANGED <<model, disabled, router, held, link, widget, clicks>>

(* ConnectTool: up to the unlock. Only a local connection makes a router,    *)
(* which is there already if an earlier attempt failed after making it.      *)
CreateRouter(result) ==
  IF result = "success"
  THEN /\ conn' = "Connecting"
       /\ router' = IF router = "none" THEN (IF disabled THEN "no timeout" ELSE "timeout") ELSE router
  ELSE router = "none" /\ UNCHANGED <<conn, router>>

ConnectTool(t, newType, existing, result) ==
  /\ pc[t] = [at |-> "connect", type |-> newType, existing |-> existing]
  /\ Lockable(t)
  /\ IF conn # "Disconnected"
     THEN /\ result = "success"
          /\ reconnecting' = FALSE /\ Goto(t, Done(t))
          /\ UNCHANGED <<conn, type, should, router>>
     ELSE /\ IF newType = "Local" /\ ~existing THEN CreateRouter(result)
             ELSE result = "success" /\ conn' = "Connecting" /\ UNCHANGED router
          /\ type' = IF result = "success" THEN newType ELSE type
          /\ reconnecting' = IF result = "success" THEN reconnecting ELSE FALSE
          /\ Goto(t, IF result = "success" THEN Says(<<"NetConnecting">>, [at |-> "connecting"])
                                          ELSE Says(<<result>>, Done(t)))
          /\ UNCHANGED should
  /\ UNCHANGED <<disabled, held, link, signals, widget, clicks, overtaken>>

(* DDTool's Connect. It reports the router later, or fails.                  *)
Connect(t, ok) ==
  /\ pc[t].at = "connecting"
  /\ Goto(t, IF ok THEN Done(t) ELSE [at |-> "failed"])
  /\ link' = IF ok THEN "reporting" ELSE link
  /\ UNCHANGED <<model, disabled, router, held, signals, widget, clicks, overtaken>>

ConnectFailed(t) ==
  /\ pc[t].at = "failed" /\ Lockable(t)
  /\ conn' = "Disconnected" /\ type' = "Unknown" /\ reconnecting' = FALSE
  /\ Goto(t, Says(<<"NetDisconnected">>, Done(t)))
  /\ UNCHANGED <<should, disabled, router, held, link, signals, widget, clicks, overtaken>>

(* NetConnected is sent with the lock held.                                 *)
OnRouterConnected ==
  /\ link = "reporting" /\ Lockable("router") /\ pc["router"] = Idle
  /\ conn' = "Connected" /\ reconnecting' = FALSE /\ link' = "up"
  /\ signals' = Append(signals, "NetConnected") /\ overtaken' = FALSE
  /\ UNCHANGED <<type, should, disabled, router, held, pc, widget, clicks>>

------------------------------------------------------------------------------
SyncDisconnectTool(t) ==
  /\ pc[t].at = "disconnect" /\ Lockable(t)
  /\ IF conn = "Connected"
     THEN conn' = "Disconnecting" /\ Goto(t, Says(<<"NetDisconnecting">>, [at |-> "disconnecting"]))
     ELSE Goto(t, Done(t)) /\ UNCHANGED conn
  /\ UNCHANGED <<type, should, reconnecting, disabled, router, held, link, signals, widget, clicks,
                 overtaken>>

(* Mutant: the router is forgotten, and the state stays as it was.            *)
ForgetConnectionKept ==
  /\ router' = "none" /\ reconnecting' = should /\ should' = FALSE
  /\ type' = IF should THEN type ELSE "Unknown"
  /\ UNCHANGED conn

(* OnRouterDisconnected, under the lock.                                    *)
ForgetConnection ==
  /\ conn' = "Disconnected" /\ router' = "none"
  /\ reconnecting' = should /\ should' = FALSE
  /\ type' = IF should THEN type ELSE "Unknown"

OnRouterDisconnected(t, step) ==
  /\ ForgetConnection /\ link' = "none"
  /\ Goto(t, Says(IF conn # "Disconnecting" THEN <<"NetDisconnected", "Unexpectedly">>
                  ELSE <<"NetDisconnected">>, step))

(* DDTool's Disconnect reports the router gone before it returns, unless it   *)
(* had gone by itself.                                                     *)
Disconnect(t) ==
  /\ pc[t].at = "disconnecting" /\ Lockable(t) /\ pc["router"] = Idle
  /\ IF link = "up"
     THEN OnRouterDisconnected(t, [at |-> "disconnected"])
     ELSE Goto(t, [at |-> "disconnected"]) /\ UNCHANGED <<model, router, link>>
  /\ UNCHANGED <<disabled, held, signals, widget, clicks, overtaken>>

Reconnect(t) ==
  /\ pc[t].at = "disconnected"
  /\ Goto(t, IF reconnecting THEN [at |-> "connect", type |-> "Local", existing |-> FALSE]
                              ELSE Done(t))
  /\ UNCHANGED <<model, disabled, router, held, link, signals, widget, clicks, overtaken>>

(* The router goes by itself.                                               *)
RouterLost ==
  /\ link = "up" /\ Lockable("router") /\ pc["router"] = Idle
  /\ OnRouterDisconnected("router", Idle)
  /\ UNCHANGED <<disabled, held, signals, widget, clicks, overtaken>>

------------------------------------------------------------------------------
(* The user. A click that starts a thread first joins the one before.        *)

GuiIdle == pc["gui"] = Idle
Click == GuiIdle /\ clicks < MaxClicks /\ clicks' = clicks + 1

OnConnectButtonClicked(t) ==
  /\ Click /\ widget.connect
  /\ widget' = [widget EXCEPT !.type = t]
  /\ Goto("gui", [at |-> "join", job |-> [at |-> "connect", type |-> t, existing |-> FALSE]])
  /\ UNCHANGED <<model, disabled, router, held, link, signals, overtaken>>

OnDisconnectButtonClicked ==
  /\ Click /\ widget.disconnect
  /\ Goto("gui", [at |-> "join", job |-> [at |-> "disconnect"]])
  /\ UNCHANGED <<model, disabled, router, held, link, signals, widget, overtaken>>

(* closeEvent: a live connection is ended first, and the window closes with    *)
(* its NetDisconnected; else the panel ends: ShutDown, in the gui thread.      *)
CloseEvent ==
  /\ Click
  /\ widget' = [widget EXCEPT !.shutdown = TRUE]
  /\ IF conn = "Connected"
     THEN /\ Goto("gui", [at |-> "join", job |-> [at |-> "disconnect"]])
          /\ UNCHANGED should
     ELSE Goto("gui", [at |-> "disconnect"]) /\ should' = FALSE
  /\ UNCHANGED <<conn, type, reconnecting, disabled, router, held, link, signals, overtaken>>

ShutDown ==
  /\ pc["gui"].at = "ending" /\ pc["worker"] = Idle
  /\ Goto("gui", [at |-> "ended"]) /\ link' = "none"
  /\ UNCHANGED <<model, disabled, router, held, signals, widget, clicks, overtaken>>

(* SetDisableClientTimeout: the setting, under router_mutex_.                *)
OnDisableClientTimeoutStateChanged ==
  /\ Click /\ widget.timeout
  /\ disabled' = ~disabled
  /\ Goto("gui", [at |-> "timeout"])
  /\ UNCHANGED <<model, router, held, link, signals, widget, overtaken>>

(* Then, under connection_mutex_: DisconnectTool of a live connection, with   *)
(* the mutex still held while it joins.                                     *)
SetDisableClientTimeout ==
  /\ pc["gui"].at = "timeout"
  /\ IF conn = "Connected"
     THEN /\ should' = TRUE /\ held' = TRUE
          /\ Goto("gui", [at |-> "join", job |-> [at |-> "disconnect"]])
     ELSE Goto("gui", Idle) /\ UNCHANGED <<should, held>>
  /\ UNCHANGED <<conn, type, reconnecting, disabled, router, link, signals, widget, clicks, overtaken>>

Join ==
  /\ pc["gui"].at = "join" /\ pc["worker"] = Idle
  /\ pc' = [pc EXCEPT !["gui"] = Idle, !["worker"] = pc["gui"].job]
  /\ held' = FALSE
  /\ UNCHANGED <<model, disabled, router, link, signals, widget, clicks, overtaken>>

CanClientTimeoutBeDisabled == type = "Local" /\ router # "none"

OnHistoryItemSelected(t) ==
  /\ Click
  /\ widget' = [widget EXCEPT !.type = t,
                              !.timeout = t = "Local" /\ (conn # "Connected" \/ CanClientTimeoutBeDisabled)]
  /\ UNCHANGED <<model, disabled, router, held, pc, link, signals, overtaken>>

(* A queued signal reaches the widget. Answering that a router exists with    *)
(* yes connects to it.                                                     *)
Handled(s) ==
  CASE s = "NetConnecting"    -> [widget EXCEPT !.connect = FALSE, !.disconnect = FALSE, !.timeout = FALSE]
    [] s = "NetDisconnecting" -> [widget EXCEPT !.connect = FALSE, !.disconnect = FALSE, !.timeout = FALSE]
    [] s = "NetConnected"     -> [widget EXCEPT !.connect = FALSE, !.disconnect = TRUE,
                                                !.timeout = CanClientTimeoutBeDisabled]
    [] s = "NetDisconnected"  -> [widget EXCEPT !.connect = TRUE, !.disconnect = FALSE,
                                                !.timeout = widget.type = "Local"]
    [] OTHER -> widget

HandleSignal(yes) ==
  /\ GuiIdle /\ signals # <<>>
  /\ LET s == Head(signals)
         ends == s = "NetDisconnected" /\ widget.shutdown
     IN /\ signals' = Tail(signals) /\ widget' = Handled(s)
        /\ should' = (should /\ ~ends)
        /\ pc' = [pc EXCEPT !["gui"] =
             IF ends THEN [at |-> "disconnect"]
             ELSE IF s = "ExistingLocalRouterFound" /\ yes
             THEN [at |-> "join", job |-> [at |-> "connect", type |-> "Local", existing |-> TRUE]]
             ELSE @]
  /\ UNCHANGED <<conn, type, reconnecting, disabled, router, held, link, clicks, overtaken>>

------------------------------------------------------------------------------
ThreadStep(t) ==
  \/ \E n \in Types, x \in BOOLEAN, r \in CreateResults : ConnectTool(t, n, x, r)
  \/ \E ok \in BOOLEAN : Connect(t, ok)
  \/ ConnectFailed(t)
  \/ SyncDisconnectTool(t)
  \/ Disconnect(t)
  \/ Reconnect(t)
  \/ EmitSignals(t)

Next ==
  \/ \E t \in {"gui", "worker"} : ThreadStep(t)
  \/ OnRouterConnected \/ RouterLost \/ EmitSignals("router")
  \/ \E t \in Types : OnConnectButtonClicked(t)
  \/ OnDisconnectButtonClicked
  \/ CloseEvent \/ ShutDown
  \/ OnDisableClientTimeoutStateChanged \/ SetDisableClientTimeout
  \/ Join
  \/ \E t \in Types : OnHistoryItemSelected(t)
  \/ \E yes \in BOOLEAN : HandleSignal(yes)

Spec == Init /\ [][Next]_vars

(* A thread that can go on does, and the library reports what it connected.   *)
FairSpec ==
  /\ Spec
  /\ WF_vars(ThreadStep("gui")) /\ WF_vars(ThreadStep("worker"))
  /\ WF_vars(OnRouterConnected) /\ WF_vars(EmitSignals("router"))
  /\ WF_vars(SetDisableClientTimeout) /\ WF_vars(Join) /\ WF_vars(ShutDown)

------------------------------------------------------------------------------
Quiet == (\A t \in DOMAIN pc : pc[t] = Idle) /\ link # "reporting" /\ signals = <<>>

(* Once everything under way has come to its end, the widget offers what the   *)
(* connection allows, whatever was clicked, failed or lost on the way; but for  *)
(* a router that goes after SyncDisconnectTool has let go of the lock and        *)
(* before it sends NetDisconnecting: if that overtakes, nothing can be clicked. *)
WidgetFollows ==
  Quiet => /\ conn \in {"Connected", "Disconnected"}
           /\ widget.connect = (conn = "Disconnected" /\ ~overtaken)
           /\ widget.disconnect = (conn = "Connected")

(* The same without the exception.                                         *)
CanReconnect == Quiet /\ conn = "Disconnected" => widget.connect

(* SyncDisconnectTool asserts that what it reconnects was local.              *)
ReconnectIsLocal == \A t \in DOMAIN pc : pc[t].at = "disconnected" /\ reconnecting => type = "Local"

(* "Asynchronously disconnect from a tool": whatever the user clicked, the gui  *)
(* thread comes back to its event loop.                                      *)
ClickReturns == pc["gui"] # Idle ~> pc["gui"].at \in {"idle", "ended"}
==============================================================================
