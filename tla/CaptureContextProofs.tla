------------------------- MODULE CaptureContextProofs -------------------------
(***************************************************************************)
(* What CaptureContext guarantees for any features, connections and        *)
(* processes, and for any failures of the calls it makes.                  *)
(***************************************************************************)
EXTENDS CaptureContext, TLAPS

(* Idle differs from every call in progress.                               *)
LEMMA CallFacts ==
  \A f \in Features :
    /\ [pc |-> "configure", feature |-> f] \in Calls \ {Idle}
    /\ [pc |-> "set", feature |-> f] \in Calls \ {Idle}
BY DEF Calls, Idle

(* ----- The types. -----                                                  *)

LEMMA InitTypes == Init => TypeOK
BY ContextAssumption DEF Init, TypeOK, Calls

LEMMA StepTypes == TypeOK /\ [Next]_vars => TypeOK'
<1> SUFFICES ASSUME TypeOK, [Next]_vars PROVE TypeOK'
  OBVIOUS
<1> USE DEF TypeOK
<1>1. ASSUME NEW f \in Features, EnableFeature(f) \/ EnableAdapter(f) \/ ConfigureFails(f)
      PROVE  TypeOK'
  BY <1>1, CallFacts DEF EnableFeature, EnableAdapter, ConfigureFails, clientVars, Calls
<1>2. ASSUME NEW f \in Features, EnableDriverFeature(f) PROVE TypeOK'
  BY <1>2 DEF EnableDriverFeature, clientVars, Calls, DriverFeature, DriverFeatures
<1>3. ASSUME NEW f \in Features, SetFeatureFails(f) \/ DisableFeature(f) PROVE TypeOK'
  BY <1>3 DEF SetFeatureFails, DisableFeature, DisableDriverFeature, clientVars, Calls
<1>4. ASSUME NEW c \in Connections, AcceptClient(c) PROVE TypeOK'
  BY <1>4 DEF AcceptClient, apiVars, clientVars
<1>5. ASSUME NEW c \in Connections, OnDriverConnected(c) PROVE TypeOK'
  BY <1>5, ContextAssumption DEF OnDriverConnected, apiVars
<1>6. ASSUME NEW c \in Connections, NEW f \in Features, SourceConnected(c, f) PROVE TypeOK'
  BY <1>6 DEF SourceConnected, apiVars, clientVars
<1>7. ASSUME NEW c \in Connections, OnDriverDisconnected(c) PROVE TypeOK'
  BY <1>7 DEF OnDriverDisconnected, apiVars
<1>8. ASSUME NEW c \in Connections, NEW f \in Features, SourceDisconnected(c, f) PROVE TypeOK'
  BY <1>8 DEF SourceDisconnected, apiVars, clientVars
<1>9. CASE UNCHANGED vars
  BY <1>9 DEF vars, apiVars, clientVars
<1> QED
  BY <1>1, <1>2, <1>3, <1>4, <1>5, <1>6, <1>7, <1>8, <1>9 DEF Next, Api, Connection

(* Every variable of the context keeps its type; in particular a process is *)
(* recorded exactly as long as one of its connections is.                  *)
THEOREM TypeCorrect == Spec => []TypeOK
BY InitTypes, StepTypes, PTL DEF Spec

(* ----- Who holds a connection. -----                                     *)

(* Where a connection stands with ClientManager and the trace sources: the  *)
(* sources told of it hold it if they listen, and those told that it is    *)
(* going do not hold it any more.                                          *)
Place(c) ==
  /\ thread[c] \in {"none", "accepted"} =>
       c \notin umd /\ \A f \in Features : c \notin known[f]
  /\ thread[c] = "connecting" =>
       c \in umd /\ \A f \in Features : c \in known[f] <=> f \in listening \ toTell[c]
  /\ thread[c] = "connected" =>
       c \in umd /\ \A f \in Features : c \in known[f] <=> f \in listening
  /\ thread[c] = "disconnecting" =>
       c \notin umd /\ \A f \in Features : c \in known[f] => f \in toTell[c]

(* No process is connected while a call is in progress, so nobody finds     *)
(* the listening sources half changed.                                     *)
CallAlone == api # Idle => process = NoProcess /\ api.feature \in listening \ enabled

EnabledListen == enabled \subseteq listening

(* Where configurations are not refused, nobody else listens but the        *)
(* feature being enabled.                                                  *)
OnlyEnabledListen ==
  "configure" \notin Failures =>
    listening \subseteq enabled \cup (IF api = Idle THEN {} ELSE {api.feature})

HInv ==
  /\ TypeOK
  /\ CallAlone
  /\ EnabledListen
  /\ OnlyEnabledListen
  /\ \A c \in Connections : Place(c)

LEMMA InitHolds == Init => HInv
<1> SUFFICES ASSUME Init PROVE HInv
  OBVIOUS
<1>1. CallAlone /\ EnabledListen /\ OnlyEnabledListen
  BY DEF Init, CallAlone, EnabledListen, OnlyEnabledListen
<1>2. \A c \in Connections : Place(c)
  BY DEF Init, Place
<1> QED
  BY <1>1, <1>2, InitTypes DEF HInv

(* A step of the application, which no connected process sees.             *)
LEMMA ApiStep ==
  ASSUME HInv, NEW f \in Features, Api(f)
  PROVE  /\ CallAlone' /\ EnabledListen' /\ OnlyEnabledListen'
         /\ \A c \in Connections : Place(c)'
<1>1. process = NoProcess /\ UNCHANGED <<process, umd, thread, toTell, known>>
  BY CallFacts DEF HInv, CallAlone, Api, EnableFeature, EnableAdapter, ConfigureFails,
     EnableDriverFeature, SetFeatureFails, DisableFeature, clientVars
<1>2. \A c \in Connections : thread[c] \notin {"connecting", "connected"}
  BY <1>1 DEF HInv, TypeOK, Place
<1>3. \A c \in Connections : Place(c)'
  BY <1>1, <1>2 DEF HInv, Place
<1>4. CallAlone'
  BY <1>1, CallFacts DEF HInv, CallAlone, Api, EnableFeature, EnableAdapter, ConfigureFails,
     EnableDriverFeature, SetFeatureFails, DisableFeature
<1>5. EnabledListen'
  <2>1. enabled \subseteq listening /\ (api # Idle => api.feature \in listening \ enabled)
    BY DEF HInv, EnabledListen, CallAlone
  <2>2. CASE EnableFeature(f) \/ EnableAdapter(f) \/ ConfigureFails(f) \/ DisableFeature(f)
    BY <2>1, <2>2 DEF EnableFeature, EnableAdapter, ConfigureFails, DisableFeature, EnabledListen
  <2>3. CASE EnableDriverFeature(f)
    BY <2>1, <2>3, CallFacts DEF EnableDriverFeature, EnabledListen
  <2>4. CASE SetFeatureFails(f)
    <3>1. f \notin enabled
      BY <2>1, <2>4, CallFacts DEF SetFeatureFails
    <3> QED
      BY <2>1, <2>4, <3>1 DEF SetFeatureFails, EnabledListen
  <2> QED
    BY <2>2, <2>3, <2>4 DEF Api
<1>6. OnlyEnabledListen'
  <2> SUFFICES ASSUME "configure" \notin Failures
               PROVE  listening' \subseteq enabled' \cup (IF api' = Idle THEN {} ELSE {api'.feature})
    BY DEF OnlyEnabledListen
  <2>1. listening \subseteq enabled \cup (IF api = Idle THEN {} ELSE {api.feature})
    BY DEF HInv, OnlyEnabledListen
  <2>2. CASE EnableFeature(f)
    BY <2>1, <2>2, CallFacts DEF EnableFeature
  <2>3. CASE EnableAdapter(f)
    <3>1. api' = [pc |-> "set", feature |-> f] /\ api # Idle /\ api.feature = f
      BY <2>3, CallFacts DEF EnableAdapter
    <3> QED
      BY <2>1, <2>3, <3>1, CallFacts DEF EnableAdapter
  <2>4. CASE EnableDriverFeature(f) \/ SetFeatureFails(f)
    BY <2>1, <2>4, CallFacts DEF EnableDriverFeature, SetFeatureFails
  <2>5. CASE DisableFeature(f)
    BY <2>1, <2>5 DEF DisableFeature
  <2> QED
    BY <2>2, <2>4, <2>5, <2>3 DEF Api, ConfigureFails, CanRefuse
<1> QED
  BY <1>3, <1>4, <1>5, <1>6

(* A step of the thread of a connection disturbs no other connection, and   *)
(* none of what the application's calls are about.                         *)
LEMMA ConnectionStep ==
  ASSUME HInv, NEW c \in Connections, Connection(c)
  PROVE  /\ CallAlone' /\ EnabledListen' /\ OnlyEnabledListen'
         /\ \A d \in Connections : Place(d)'
<1> USE DEF HInv
<1>1. UNCHANGED apiVars
  BY DEF Connection, AcceptClient, OnDriverConnected, SourceConnected, OnDriverDisconnected,
     SourceDisconnected
<1>2. EnabledListen' /\ OnlyEnabledListen'
  BY <1>1 DEF apiVars, EnabledListen, OnlyEnabledListen
<1>3. CallAlone'
  BY <1>1 DEF CallAlone, apiVars, clientVars, Connection, AcceptClient, OnDriverConnected,
     SourceConnected, OnDriverDisconnected, SourceDisconnected, ConnectionsLocked
<1>4. ASSUME NEW d \in Connections, d # c PROVE Place(d)'
  <2>1. /\ thread'[d] = thread[d] /\ toTell'[d] = toTell[d] /\ (d \in umd' <=> d \in umd)
        /\ \A f \in Features : d \in known'[f] <=> d \in known[f]
    BY <1>4 DEF TypeOK, Connection, AcceptClient, OnDriverConnected, SourceConnected,
       OnDriverDisconnected, SourceDisconnected, clientVars
  <2> QED
    BY <1>1, <2>1 DEF Place, apiVars
<1>5. Place(c)'
  <2>1. CASE AcceptClient(c)
    BY <2>1 DEF AcceptClient, apiVars, clientVars, TypeOK, Place
  <2>2. CASE OnDriverConnected(c)
    BY <2>2 DEF OnDriverConnected, apiVars, TypeOK, Place
  <2>3. ASSUME NEW f \in Features, SourceConnected(c, f) PROVE Place(c)'
    <3>1. /\ thread[c] = "connecting" /\ toTell'[c] = toTell[c] \ {f}
          /\ thread'[c] = IF toTell'[c] = {} THEN "connected" ELSE "connecting"
      BY <2>3 DEF SourceConnected, TypeOK
    <3>2. c \in umd' /\ listening' = listening
      BY <2>3, <3>1 DEF SourceConnected, Place, apiVars, clientVars
    <3>3. \A g \in Features : c \in known'[g] <=> g \in listening \ toTell'[c]
      BY <2>3, <3>1 DEF SourceConnected, TypeOK, Place
    <3> QED
      BY <3>1, <3>2, <3>3 DEF Place
  <2>4. CASE OnDriverDisconnected(c)
    BY <2>4 DEF OnDriverDisconnected, apiVars, TypeOK, Place
  <2>5. ASSUME NEW f \in Features, SourceDisconnected(c, f) PROVE Place(c)'
    <3>1. /\ thread[c] = "disconnecting" /\ toTell'[c] = toTell[c] \ {f}
          /\ thread'[c] = IF toTell'[c] = {} THEN "none" ELSE "disconnecting"
      BY <2>5 DEF SourceDisconnected, TypeOK
    <3>2. c \notin umd'
      BY <2>5, <3>1 DEF SourceDisconnected, Place, clientVars
    <3>3. \A g \in Features : c \in known'[g] => g \in toTell'[c]
      BY <2>5, <3>1 DEF SourceDisconnected, TypeOK, Place
    <3> QED
      BY <3>1, <3>2, <3>3 DEF Place
  <2> QED
    BY <2>1, <2>2, <2>3, <2>4, <2>5 DEF Connection
<1> QED
  BY <1>2, <1>3, <1>4, <1>5

LEMMA StepHolds == HInv /\ [Next]_vars => HInv'
<1> SUFFICES ASSUME HInv, [Next]_vars PROVE HInv'
  OBVIOUS
<1>1. TypeOK'
  BY StepTypes DEF HInv
<1>2. ASSUME NEW f \in Features, Api(f) PROVE HInv'
  BY <1>1, <1>2, ApiStep DEF HInv
<1>3. ASSUME NEW c \in Connections, Connection(c) PROVE HInv'
  BY <1>1, <1>3, ConnectionStep DEF HInv
<1>4. CASE UNCHANGED vars
  BY <1>1, <1>4 DEF vars, apiVars, clientVars, HInv, CallAlone, EnabledListen,
     OnlyEnabledListen, Place
<1> QED
  BY <1>2, <1>3, <1>4 DEF Next

LEMMA Holds == Spec => []HInv
BY InitHolds, StepHolds, PTL DEF Spec

(* A connection that has gone is held neither by ClientManager nor by any   *)
(* trace source, whatever the application switched while it was going and  *)
(* whichever of its calls failed.                                          *)
THEOREM NobodyHoldsTheGone == Spec => []NothingLeftBehind
<1>1. HInv => NothingLeftBehind
  BY DEF HInv, Place, NothingLeftBehind
<1> QED
  BY <1>1, Holds, PTL

(* The trace source of every enabled feature holds every connection whose   *)
(* OnDriverConnected has come to an end, whatever failed before.           *)
THEOREM EnabledFeaturesAreTold == Spec => []EnabledFeaturesHear
<1>1. HInv => EnabledFeaturesHear
  BY DEF HInv, TypeOK, Place, EnabledListen, EnabledFeaturesHear
<1> QED
  BY <1>1, Holds, PTL

(* Unless a configuration is refused, no other source holds it: a           *)
(* connection is known to the features the application enabled and to no   *)
(* other.                                                                  *)
THEOREM SourcesAgree ==
  ASSUME "configure" \notin Failures
  PROVE  Spec => []SourcesMatchFeatures
<1>1. HInv => SourcesMatchFeatures
  <2> SUFFICES ASSUME HInv, NEW c \in Connections, thread[c] = "connected", NEW f \in Features
               PROVE  c \in known[f] <=> f \in enabled
    BY DEF SourcesMatchFeatures
  <2>1. c \in umd /\ (c \in known[f] <=> f \in listening)
    BY DEF HInv, Place
  <2>2. api = Idle
    BY <2>1 DEF HInv, TypeOK, CallAlone
  <2>3. listening = enabled
    BY <2>2 DEF HInv, EnabledListen, OnlyEnabledListen
  <2> QED
    BY <2>1, <2>3
<1> QED
  BY <1>1, Holds, PTL

(* ----- The driver features. -----                                        *)

(* Of the calls that change the driver's features, the one that resets them *)
(* takes only what the feature disabled needs, and the one that sets them   *)
(* comes before the feature counts as enabled.                              *)
LEMMA OnlySharedStep ==
  ASSUME TypeOK, OnlySharedIsLost, [Next]_vars
  PROVE  OnlySharedIsLost'
<1> USE DEF OnlySharedIsLost
<1>1. ASSUME UNCHANGED <<driver, enabled>> PROVE OnlySharedIsLost'
  BY <1>1
<1>2. ASSUME NEW f \in Features, EnableDriverFeature(f) PROVE OnlySharedIsLost'
  <2>1. driver' = driver \cup DriverFeature(f) /\ enabled' = enabled \cup {f}
    BY <1>2 DEF EnableDriverFeature
  <2>2. ASSUME NEW h \in enabled', NEW d \in DriverFeature(h) \ driver'
        PROVE  \E g \in Features \ enabled' : d \in DriverFeature(g)
    <3>1. h \in enabled /\ d \in DriverFeature(h) \ driver /\ d \notin DriverFeature(f)
      BY <2>1, <2>2
    <3>2. PICK g \in Features \ enabled : d \in DriverFeature(g)
      BY <3>1
    <3> QED
      BY <2>1, <3>1, <3>2
  <2> QED
    BY <2>2
<1>3. ASSUME NEW f \in Features, DisableFeature(f) PROVE OnlySharedIsLost'
  <2>1. driver \ DriverFeature(f) \subseteq driver' /\ enabled' = enabled \ {f}
    BY <1>3 DEF DisableFeature, DisableDriverFeature
  <2>2. ASSUME NEW h \in enabled', NEW d \in DriverFeature(h) \ driver'
        PROVE  \E g \in Features \ enabled' : d \in DriverFeature(g)
    <3>1. h \in enabled /\ (d \in DriverFeature(f) \/ d \in DriverFeature(h) \ driver)
      BY <2>1, <2>2
    <3> QED
      BY <2>1, <3>1
  <2> QED
    BY <2>2
<1>4. ASSUME NEW f \in Features,
             EnableFeature(f) \/ EnableAdapter(f) \/ ConfigureFails(f) \/ SetFeatureFails(f)
      PROVE  OnlySharedIsLost'
  BY <1>1, <1>4 DEF EnableFeature, EnableAdapter, ConfigureFails, SetFeatureFails
<1>5. ASSUME NEW c \in Connections, Connection(c) PROVE OnlySharedIsLost'
  BY <1>1, <1>5 DEF Connection, AcceptClient, OnDriverConnected, SourceConnected,
     OnDriverDisconnected, SourceDisconnected, apiVars
<1>6. CASE UNCHANGED vars
  BY <1>1, <1>6 DEF vars, apiVars
<1> QED
  BY <1>2, <1>3, <1>4, <1>5, <1>6 DEF Next, Api

(* An enabled feature has the driver features it needs, except one that it  *)
(* shares with a feature that is not enabled (profiling and ray tracing     *)
(* share the tracing feature): whichever features the application uses, in  *)
(* whatever order it switches them and whatever fails.                      *)
THEOREM OnlyTheSharedAreLost == Spec => []OnlySharedIsLost
<1>1. Init => OnlySharedIsLost
  BY DEF Init, OnlySharedIsLost
<1> QED
  BY <1>1, OnlySharedStep, TypeCorrect, PTL DEF Spec

==============================================================================
