--------------------------- MODULE CaptureContext ---------------------------
(***************************************************************************)
(* The capture API's context: which features are enabled, which of their   *)
(* trace sources listen to connections, which driver features are set, and *)
(* the one process the context is connected to.                            *)
(*                                                                         *)
(* DevDriver has a thread for each connection, which asks the filter,      *)
(* tells ClientManager (registered first) and then the connection manager  *)
(* of every trace source. The application calls EnableFeature and          *)
(* DisableFeature, one at a time under state_mutex, with ClientManager's   *)
(* connection_mutex_ held from the check to the end.                       *)
(***************************************************************************)
EXTENDS Naturals, FiniteSets

CONSTANTS
  Features,      \* the features the application uses
  Connections,   \* UMD connections
  Processes,     \* the processes they come from
  NoProcess,     \* process_id 0
  ProcessOf,     \* [Connections -> Processes]
  Failures       \* what can fail: "configure", "enable", "disable"

AllFeatures == {"Profiling", "MemoryTrace", "Raytracing", "CrashAnalysis"}
DriverFeatures == {"Tracing", "CrashAnalysis"}

ASSUME ContextAssumption ==
  /\ Features \subseteq AllFeatures
  /\ NoProcess \notin Processes
  /\ ProcessOf \in [Connections -> Processes]
  /\ Failures \subseteq {"configure", "enable", "disable"}

VARIABLES
  enabled,     \* enabled_features_
  listening,   \* features whose connection manager has is_enabled_ set
  driver,      \* driver features the context has set
  api,         \* the call in progress and how far it has come
  process,     \* current_process_
  umd,         \* current_umd_connections_
  thread,      \* where the DevDriver thread of each connection is
  toTell,      \* the features each connection thread still has to tell
  known        \* the connections each trace source holds

apiVars    == <<enabled, listening, driver, api>>
clientVars == <<process, umd>>
vars == <<apiVars, clientVars, thread, toTell, known>>

(* The driver features a feature needs (EnableDriverFeature).               *)
DriverFeature(f) ==
  CASE f \in {"Profiling", "Raytracing"} -> {"Tracing"}
    [] f = "CrashAnalysis" -> {"CrashAnalysis"}
    [] OTHER -> {}

(* ConfigureRgp, ConfigureRgd and ConfigureRra: the profiling one asks the  *)
(* driver, the raytracing one refuses marker capture on older drivers.      *)
CanRefuse(f) == "configure" \in Failures /\ f \in {"Profiling", "Raytracing"}

Idle == [pc |-> "idle", feature |-> "none"]
Calls == {Idle} \cup [pc : {"configure", "set"}, feature : Features]

(* EnableFeature holds connection_mutex_ from its check to its return.      *)
ConnectionsLocked == api # Idle

TypeOK ==
  /\ enabled \subseteq Features
  /\ listening \subseteq Features
  /\ driver \subseteq DriverFeatures
  /\ api \in Calls
  /\ process \in Processes \cup {NoProcess}
  /\ umd \subseteq Connections
  /\ process = NoProcess <=> umd = {}
  /\ thread \in [Connections -> {"none", "accepted", "connecting", "connected", "disconnecting"}]
  /\ toTell \in [Connections -> SUBSET Features]
  /\ known \in [Features -> SUBSET Connections]

Init ==
  /\ enabled = {} /\ listening = {} /\ driver = {} /\ api = Idle
  /\ process = NoProcess /\ umd = {}
  /\ thread = [c \in Connections |-> "none"]
  /\ toTell = [c \in Connections |-> {}]
  /\ known = [f \in Features |-> {}]

------------------------------------------------------------------------------
(* The application.                                                         *)

NotCompatible(f) ==
  \/ f = "CrashAnalysis" /\ enabled # {}
  \/ "CrashAnalysis" \in enabled

(* Mutant: the check that no process is connected is left out.              *)
EnableFeatureConnected(f) ==
  /\ api = Idle
  /\ f \notin enabled
  /\ ~NotCompatible(f)
  /\ listening' = listening \cup {f}
  /\ api' = [pc |-> "configure", feature |-> f]
  /\ UNCHANGED <<enabled, driver, clientVars, thread, toTell, known>>

EnableFeature(f) ==
  /\ api = Idle
  /\ process = NoProcess
  /\ f \notin enabled
  /\ ~NotCompatible(f)
  /\ listening' = listening \cup {f}
  /\ api' = [pc |-> "configure", feature |-> f]
  /\ UNCHANGED <<enabled, driver, clientVars, thread, toTell, known>>

EnableAdapter(f) ==
  /\ api = [pc |-> "configure", feature |-> f]
  /\ api' = [api EXCEPT !.pc = "set"]
  /\ UNCHANGED <<enabled, listening, driver, clientVars, thread, toTell, known>>

(* A refused configuration returns at once: the adapter stays enabled.      *)
ConfigureFails(f) ==
  /\ api = [pc |-> "configure", feature |-> f]
  /\ CanRefuse(f)
  /\ api' = Idle
  /\ UNCHANGED <<enabled, listening, driver, clientVars, thread, toTell, known>>

EnableDriverFeature(f) ==
  /\ api = [pc |-> "set", feature |-> f]
  /\ driver' = driver \cup DriverFeature(f)
  /\ enabled' = enabled \cup {f}
  /\ api' = Idle
  /\ UNCHANGED <<listening, clientVars, thread, toTell, known>>

(* Mutant: what setting the driver feature returned is not looked at.       *)
SetFeatureFailsUnseen(f) ==
  /\ api = [pc |-> "set", feature |-> f]
  /\ "enable" \in Failures /\ DriverFeature(f) # {}
  /\ enabled' = enabled \cup {f}
  /\ api' = Idle
  /\ UNCHANGED <<driver, listening, clientVars, thread, toTell, known>>

SetFeatureFails(f) ==
  /\ api = [pc |-> "set", feature |-> f]
  /\ "enable" \in Failures /\ DriverFeature(f) # {}
  /\ listening' = listening \ {f}
  /\ api' = Idle
  /\ UNCHANGED <<enabled, driver, clientVars, thread, toTell, known>>

(* DisableDriverFeature's result is not looked at.                          *)
DisableDriverFeature(f) ==
  \/ driver' = driver \ DriverFeature(f)
  \/ "disable" \in Failures /\ driver' = driver

(* Mutant: the feature stays in enabled_features_.                          *)
DisableFeatureKept(f) ==
  /\ api = Idle
  /\ process = NoProcess
  /\ f \in enabled
  /\ listening' = listening \ {f}
  /\ DisableDriverFeature(f)
  /\ UNCHANGED <<enabled, api, clientVars, thread, toTell, known>>

(* Mutant: the driver feature is left as it is.                             *)
DisableFeatureDriverKept(f) ==
  /\ api = Idle
  /\ process = NoProcess
  /\ f \in enabled
  /\ listening' = listening \ {f}
  /\ enabled' = enabled \ {f}
  /\ UNCHANGED <<driver, api, clientVars, thread, toTell, known>>

DisableFeature(f) ==
  /\ api = Idle
  /\ process = NoProcess
  /\ f \in enabled
  /\ listening' = listening \ {f}
  /\ DisableDriverFeature(f)
  /\ enabled' = enabled \ {f}
  /\ UNCHANGED <<api, clientVars, thread, toTell, known>>

------------------------------------------------------------------------------
(* The thread of a connection.                                              *)

(* ShouldClientBeIgnored: a connection of another process than the current  *)
(* one is ignored; the blocklist and the application's filter may ignore    *)
(* any, which is a connection that does not come.                           *)
AcceptClient(c) ==
  /\ thread[c] = "none"
  /\ ~ConnectionsLocked
  /\ process \in {NoProcess, ProcessOf[c]}
  /\ thread' = [thread EXCEPT ![c] = "accepted"]
  /\ UNCHANGED <<apiVars, clientVars, toTell, known>>

OnDriverConnected(c) ==
  /\ thread[c] = "accepted"
  /\ ~ConnectionsLocked
  /\ process' = IF process = NoProcess THEN ProcessOf[c] ELSE process
  /\ umd' = umd \cup {c}
  /\ thread' = [thread EXCEPT ![c] = "connecting"]
  /\ toTell' = [toTell EXCEPT ![c] = Features]
  /\ UNCHANGED <<apiVars, known>>

(* ClientConnectionManagerV2::OnDriverConnected of one feature.             *)
SourceConnected(c, f) ==
  /\ thread[c] = "connecting" /\ f \in toTell[c]
  /\ known' = [known EXCEPT ![f] = IF f \in listening THEN @ \cup {c} ELSE @]
  /\ toTell' = [toTell EXCEPT ![c] = @ \ {f}]
  /\ thread' = [thread EXCEPT ![c] = IF toTell'[c] = {} THEN "connected" ELSE @]
  /\ UNCHANGED <<apiVars, clientVars>>

OnDriverDisconnected(c) ==
  /\ thread[c] = "connected"
  /\ ~ConnectionsLocked
  /\ umd' = umd \ {c}
  /\ process' = IF umd' = {} THEN NoProcess ELSE process
  /\ thread' = [thread EXCEPT ![c] = "disconnecting"]
  /\ toTell' = [toTell EXCEPT ![c] = Features]
  /\ UNCHANGED <<apiVars, known>>

(* Mutant: it does look at is_enabled_.                                     *)
SourceDisconnectedGated(c, f) ==
  /\ thread[c] = "disconnecting" /\ f \in toTell[c]
  /\ known' = [known EXCEPT ![f] = IF f \in listening THEN @ \ {c} ELSE @]
  /\ toTell' = [toTell EXCEPT ![c] = @ \ {f}]
  /\ thread' = [thread EXCEPT ![c] = IF toTell'[c] = {} THEN "none" ELSE @]
  /\ UNCHANGED <<apiVars, clientVars>>

(* ClientConnectionManagerV2::OnDriverDisconnected of one feature, which    *)
(* unlike OnDriverConnected does not look at is_enabled_.                   *)
SourceDisconnected(c, f) ==
  /\ thread[c] = "disconnecting" /\ f \in toTell[c]
  /\ known' = [known EXCEPT ![f] = @ \ {c}]
  /\ toTell' = [toTell EXCEPT ![c] = @ \ {f}]
  /\ thread' = [thread EXCEPT ![c] = IF toTell'[c] = {} THEN "none" ELSE @]
  /\ UNCHANGED <<apiVars, clientVars>>

------------------------------------------------------------------------------

Api(f) ==
  \/ EnableFeature(f)
  \/ EnableAdapter(f)
  \/ ConfigureFails(f)
  \/ EnableDriverFeature(f)
  \/ SetFeatureFails(f)
  \/ DisableFeature(f)

Connection(c) ==
  \/ AcceptClient(c)
  \/ OnDriverConnected(c)
  \/ \E f \in Features : SourceConnected(c, f)
  \/ OnDriverDisconnected(c)
  \/ \E f \in Features : SourceDisconnected(c, f)

Next == (\E f \in Features : Api(f)) \/ (\E c \in Connections : Connection(c))

Spec == Init /\ [][Next]_vars

------------------------------------------------------------------------------
(* Properties.                                                              *)

(* Once every source has been told of a connection, the sources that hold   *)
(* it are those of the enabled features: whatever calls the application     *)
(* made while the connection was coming or an earlier one was going.        *)
SourcesMatchFeatures ==
  \A c \in Connections : thread[c] = "connected" =>
    \A f \in Features : c \in known[f] <=> f \in enabled

(* One half of it survives a refused configuration: an enabled feature's    *)
(* source holds every connection all have been told of.                     *)
EnabledFeaturesHear ==
  \A c \in Connections : thread[c] = "connected" =>
    \A f \in enabled : c \in known[f]

(* A connection that is gone is held by nobody, even if its feature was     *)
(* disabled on the way.                                                     *)
NothingLeftBehind ==
  \A c \in Connections : thread[c] = "none" =>
    c \notin umd /\ \A f \in Features : c \notin known[f]

(* "A context can only connect to a single process at a time."              *)
OneProcess == \A c \in umd : ProcessOf[c] = process

(* Between calls, the driver features set are those the enabled features    *)
(* need.                                                                    *)
DriverMatchesFeatures ==
  api = Idle => driver = UNION {DriverFeature(f) : f \in enabled}

(* A driver feature can be shared (EnableDriverFeature, DisableFeature). An  *)
(* enabled feature is without one it needs only while another feature that  *)
(* needs it is not enabled, whose disabling took it: no failure of a call,  *)
(* and no connection, does.                                                 *)
OnlySharedIsLost ==
  \A f \in enabled : \A d \in DriverFeature(f) \ driver :
    \E g \in Features \ enabled : d \in DriverFeature(g)

(* "Crash analysis is not compatible with other features."                  *)
CrashAnalysisAlone == "CrashAnalysis" \in driver => "Tracing" \notin driver

==============================================================================
