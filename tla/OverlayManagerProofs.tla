------------------------- MODULE OverlayManagerProofs -------------------------
(***************************************************************************)
(* What the overlay manager guarantees for any number of connections,         *)
(* features, updates and routers, with proofs.                               *)
(***************************************************************************)
EXTENDS OverlayManager, SequenceTheorems, FiniteSetTheorems, TLAPS

(* ----- The flush. -----                                                    *)

(* The set of the features' states as a sequence: each of them once.           *)
LEMMA StateItemsAre ==
  ASSUME NEW states \in [Features -> States]
  PROVE /\ StateItems(states) \in Seq(Items)
        /\ \A f \in Features : \E k \in 1 .. Len(StateItems(states)) :
             StateItems(states)[k] = [line |-> f, text |-> states[f]]
        /\ \A k \in 1 .. Len(StateItems(states)) : \E f \in Features :
             StateItems(states)[k] = [line |-> f, text |-> states[f]]
        /\ \A k, m \in 1 .. Len(StateItems(states)) :
             StateItems(states)[k] = StateItems(states)[m] => k = m
<1> DEFINE S == {[line |-> f, text |-> states[f]] : f \in Features}
           n == Cardinality(S)
           s == StateItems(states)
<1>1. IsFiniteSet(S)
  <2> DEFINE g == [f \in Features |-> [line |-> f, text |-> states[f]]]
  <2>1. g \in Surjection(Features, S)
    BY DEF Surjection
  <2> QED
    BY <2>1, FeaturesAssumption, FS_Surjection
<1>2. n \in Nat /\ ExistsBijection(1 .. n, S)
  BY <1>1, FS_CardinalityType
<1>3. \E f \in [1 .. n -> S] : IsInjective(f)
  BY <1>2 DEF ExistsBijection, Bijection, Injection, IsInjective
<1>4. s \in [1 .. n -> S] /\ IsInjective(s)
  BY <1>3 DEF StateItems, SetToSeq
<1>5. IsFiniteSet(1 .. n) /\ Cardinality(1 .. n) = n
  BY <1>2, FS_Interval
<1>6. s \in Injection(1 .. n, S)
  BY <1>4 DEF Injection, IsInjective
<1>7. s \in Surjection(1 .. n, S)
  BY <1>1, <1>5, <1>6, FS_Injection
<1>8. \A x \in S : \E k \in 1 .. n : s[k] = x
  BY <1>7 DEF Surjection
<1>9. S \subseteq Items
  BY DEF Items
<1> HIDE DEF S, n, s
<1>10. s \in Seq(S) /\ Len(s) = n
  BY <1>2, <1>4
<1>11. s \in Seq(Items)
  <2>1. s \in [1 .. n -> Items]
    BY <1>4, <1>9
  <2> HIDE DEF Items
  <2> QED
    BY <1>2, <2>1
<1> QED
  BY <1>4, <1>8, <1>10, <1>11 DEF S, s, IsInjective

(* ----- The threads. -----                                                  *)

ThreadTypes ==
  /\ router \in {"down", "up", "leaving"}
  /\ phase \in [Connections -> {"new", "joining", "open", "inited", "gone"}]
  /\ poll \in [Connections -> BOOLEAN]
  /\ worker \in [Connections -> {"none", "alive", "ended"}]
  /\ queue \in [Connections -> Seq(Items)]
  /\ DOMAIN job = Connections
  /\ queues \subseteq Connections /\ joins \subseteq Connections
  /\ joining \in [Threads -> SUBSET Connections]
  /\ late \in [Connections -> {0, 1}]

(* A thread that runs is in one of the manager's hands, and who has taken the  *)
(* list waits for it. The router is down or leaves only when no connection is   *)
(* there that could put a thread on the list again.                           *)
Owned ==
  /\ \A c \in Connections :
       /\ worker[c] = "alive" => c \in queues \/ c \in joins \/ \E t \in Threads : c \in joining[t]
       /\ c \in queues => phase[c] \in {"open", "inited"}
       /\ phase[c] \in {"new", "joining"} => worker[c] = "none"
       /\ phase[c] # "joining" => joining[c] = {}
       /\ router # "up" => phase[c] \in {"new", "gone"}
  /\ router # "up" => joins = {}
  /\ router # "leaving" => joining[Router] = {}

(* The thread of a connection that ended was told to stop, so that it takes     *)
(* nothing more off its queue once it has sent what it had.                   *)
Stopped ==
  \A c \in Connections :
    /\ phase[c] \in {"open", "inited"} /\ worker[c] # "none" => c \in queues
    /\ phase[c] = "gone" /\ worker[c] = "alive" => ~poll[c]
    /\ job[c] # <<>> => worker[c] = "alive"
    /\ late[c] = 1 => phase[c] = "gone" /\ job[c] = <<>>

ThreadInv == ThreadTypes /\ Owned /\ Stopped

LEMMA ThreadInit == Init => ThreadInv
<1> SUFFICES ASSUME Init PROVE ThreadInv
  OBVIOUS
<1>1. ThreadTypes
  BY DEF Init, ThreadTypes, Threads
<1>2. Owned
  BY NamesAssumption DEF Init, Owned, Threads
<1>3. Stopped
  BY DEF Init, Stopped
<1> QED
  BY <1>1, <1>2, <1>3 DEF ThreadInv

(* What is kept for the flush: a state of every feature.                      *)
StartupTypes == \A c \in DOMAIN startup : startup[c] \in [Features -> States]

LEMMA StartupInit == Init => StartupTypes
BY DEF Init, StartupTypes

LEMMA StartupStep == StartupTypes /\ [Next]_vars => StartupTypes'
<1> SUFFICES ASSUME StartupTypes, [Next]_vars PROVE StartupTypes'
  OBVIOUS
<1> USE StatesAssumption DEF StartupTypes
<1>1. ASSUME NEW c \in Connections, OnDriverConnected(c) PROVE StartupTypes'
  BY <1>1 DEF OnDriverConnected
<1>2. ASSUME NEW c \in Connections, DeviceInit(c) PROVE StartupTypes'
  BY <1>2 DEF DeviceInit, Without
<1>3. ASSUME NEW c \in Connections, OnDriverDisconnected(c) PROVE StartupTypes'
  BY <1>3 DEF OnDriverDisconnected, Without
<1>4. ASSUME NEW c \in Connections, NEW f \in Features, NEW s \in States, UpdateFeatureState(c, f, s)
      PROVE StartupTypes'
  BY <1>4 DEF UpdateFeatureState
<1>5. ASSUME UNCHANGED startup PROVE StartupTypes'
  BY <1>5
<1> QED
  BY <1>1, <1>2, <1>3, <1>4, <1>5
     DEF Next, Callback, Worker, OnRouterConnected, OnRouterDisconnected, RouterGone, BeginDriverConnected,
         RunNext, ReadClocks, Send, StopPolling, UpdateDeviceClocks, vars, managerVars

(* A step that only adds to queues.                                         *)
LEMMA ThreadQuiet ==
  ASSUME ThreadInv, queue' \in [Connections -> Seq(Items)],
         UNCHANGED <<router, phase, poll, worker, job, queues, joins, joining, late>>
  PROVE ThreadInv'
BY DEF ThreadInv, ThreadTypes, Owned, Stopped

LEMMA ThreadStep == ThreadInv /\ StartupTypes /\ [Next]_vars => ThreadInv'
<1> SUFFICES ASSUME ThreadInv, StartupTypes, [Next]_vars PROVE ThreadInv'
  OBVIOUS
<1> USE NamesAssumption DEF ThreadInv
<1>types. queue \in [Connections -> Seq(Items)]
  BY DEF ThreadTypes
<1>1. CASE OnRouterConnected
  BY <1>1 DEF OnRouterConnected, threadVars, ThreadTypes, Owned, Stopped
<1>2. CASE OnRouterDisconnected
  <2>1. /\ router = "up" /\ router' = "leaving" /\ \A c \in Connections : phase[c] \in {"new", "gone"}
        /\ joining' = [joining EXCEPT ![Router] = joins] /\ joins' = {}
        /\ UNCHANGED <<phase, poll, worker, queue, job, queues, late>>
    BY <1>2 DEF OnRouterDisconnected, TakeThreads, threadVars
  <2>2. ThreadTypes'
    BY <2>1 DEF ThreadTypes, Threads
  <2>3. Owned'
    BY <2>1 DEF ThreadTypes, Owned, Threads
  <2>4. Stopped'
    BY <2>1 DEF Stopped
  <2> QED
    BY <2>2, <2>3, <2>4
<1>3. CASE RouterGone
  <2>1. /\ router = "leaving" /\ router' = "down" /\ \A c \in joining[Router] : worker[c] = "ended"
        /\ joining' = [joining EXCEPT ![Router] = {}]
        /\ UNCHANGED <<phase, poll, worker, queue, job, queues, joins, late>>
    BY <1>3 DEF RouterGone, Joined, managerVars, threadVars
  <2>2. ThreadTypes'
    BY <2>1 DEF ThreadTypes, Threads
  <2>3. Owned'
    BY <2>1 DEF ThreadTypes, Owned, Threads
  <2>4. Stopped'
    BY <2>1 DEF Stopped
  <2> QED
    BY <2>2, <2>3, <2>4
<1>4. ASSUME NEW c \in Connections, BeginDriverConnected(c) PROVE ThreadInv'
  <2>1. /\ router = "up" /\ router' = "up" /\ phase[c] = "new" /\ phase' = [phase EXCEPT ![c] = "joining"]
        /\ joining' = [joining EXCEPT ![c] = joins] /\ joins' = {}
        /\ UNCHANGED <<poll, worker, queue, job, queues, late>>
    BY <1>4 DEF BeginDriverConnected, TakeThreads, threadVars
  <2>2. ThreadTypes'
    BY <2>1 DEF ThreadTypes, Threads
  <2>3. Owned'
    <3>0. c # Router /\ joining[c] = {} /\ c \in Threads /\ joining \in [Threads -> SUBSET Connections]
      <4>1. c # Router /\ c \in Threads
        BY DEF Threads
      <4>2. joining[c] = {}
        BY <2>1 DEF Owned
      <4> QED
        BY <4>1, <4>2 DEF ThreadTypes
    <3>1. joining' = [t \in Threads |-> IF t = c THEN joins ELSE joining[t]]
      BY <2>1, <3>0
    <3>2. ASSUME NEW d \in Connections, worker'[d] = "alive"
          PROVE d \in queues' \/ d \in joins' \/ \E t \in Threads : d \in joining'[t]
      <4>1. d \in queues \/ d \in joins \/ \E t \in Threads : d \in joining[t]
        BY <2>1, <3>2 DEF Owned
      <4>2. CASE d \in joins
        BY <3>0, <3>1, <4>2
      <4>3. ASSUME NEW t \in Threads, d \in joining[t]
            PROVE d \in joining'[t]
        BY <3>0, <3>1, <4>3
      <4> QED
        BY <2>1, <4>1, <4>2, <4>3
    <3>3. \A d \in Connections : phase'[d] = IF d = c THEN "joining" ELSE phase[d]
      BY <2>1 DEF ThreadTypes
    <3> QED
      BY <2>1, <3>0, <3>1, <3>2, <3>3 DEF ThreadTypes, Owned, Threads
  <2>4. Stopped'
    BY <2>1 DEF ThreadTypes, Stopped
  <2> QED
    BY <2>2, <2>3, <2>4
<1>5. ASSUME NEW c \in Connections, OnDriverConnected(c) PROVE ThreadInv'
  <2>1. /\ phase[c] = "joining" /\ phase' = [phase EXCEPT ![c] = "open"]
        /\ \A d \in joining[c] : worker[d] = "ended"
        /\ joining' = [joining EXCEPT ![c] = {}]
        /\ \/ UNCHANGED <<queues, worker>>
           \/ queues' = queues \cup {c} /\ worker' = [worker EXCEPT ![c] = "alive"]
        /\ UNCHANGED <<router, poll, queue, job, joins, late>>
    BY <1>5 DEF OnDriverConnected, Joined
  <2>2. ThreadTypes'
    BY <2>1 DEF ThreadTypes, Threads
  <2>3. Owned'
    BY <2>1 DEF ThreadTypes, Owned, Threads
  <2>4. Stopped'
    BY <2>1 DEF ThreadTypes, Owned, Stopped
  <2> QED
    BY <2>2, <2>3, <2>4
<1>7. ASSUME NEW c \in Connections, OnDriverDisconnected(c) PROVE ThreadInv'
  <2>1. /\ phase[c] \in {"open", "inited"} /\ phase' = [phase EXCEPT ![c] = "gone"]
        /\ queues' = queues \ {c} /\ joins' = joins \cup ({c} \cap queues)
        /\ poll' = [poll EXCEPT ![c] = @ /\ c \notin queues]
        /\ UNCHANGED <<router, joining, queue, worker, job, late>>
    BY <1>7 DEF OnDriverDisconnected
  <2>2. ThreadTypes'
    BY <2>1 DEF ThreadTypes
  <2>3. Owned'
    <3>1. /\ router = "up" /\ c # Router
          /\ \A d \in Connections : phase'[d] = IF d = c THEN "gone" ELSE phase[d]
      <4>1. router = "up" /\ c # Router
        BY <2>1 DEF Owned
      <4> QED
        BY <2>1, <4>1 DEF ThreadTypes
    <3>2. \A d \in Connections : worker'[d] = "alive" =>
            d \in queues' \/ d \in joins' \/ \E t \in Threads : d \in joining'[t]
      BY <2>1 DEF Owned
    <3> QED
      BY <2>1, <3>1, <3>2 DEF Owned
  <2>4. Stopped'
    BY <2>1 DEF ThreadTypes, Stopped
  <2> QED
    BY <2>2, <2>3, <2>4
<1>8. ASSUME NEW c \in Connections, RunNext(c) PROVE ThreadInv'
  <2>1. /\ worker[c] = "alive" /\ poll[c] /\ queue[c] # <<>>
        /\ queue' = [queue EXCEPT ![c] = Tail(@)]
        /\ job' = [job EXCEPT ![c] = <<Head(queue[c])>>]
        /\ UNCHANGED <<router, phase, poll, worker, queues, joins, joining, late>>
    BY <1>8 DEF RunNext, managerVars, callVars
  <2>5. Tail(queue[c]) \in Seq(Items)
    BY <1>types, <2>1, HeadTailProperties
  <2>2. ThreadTypes'
    BY <2>1, <2>5 DEF ThreadTypes
  <2>3. Owned'
    BY <2>1 DEF Owned
  <2>4. Stopped'
    BY <2>1 DEF ThreadTypes, Stopped
  <2> QED
    BY <2>2, <2>3, <2>4
<1>9. ASSUME NEW c \in Connections, ReadClocks(c) PROVE ThreadInv'
  <2>1. /\ job[c] # <<>> /\ \A d \in Connections \ {c} : job'[d] = job[d]
        /\ DOMAIN job' = DOMAIN job
        /\ UNCHANGED <<router, phase, poll, worker, queue, queues, joins, joining, late>>
    BY <1>9 DEF ReadClocks, managerVars, callVars
  <2>2. ThreadTypes'
    BY <2>1 DEF ThreadTypes
  <2>3. Owned'
    BY <2>1 DEF Owned
  <2>4. Stopped'
    BY <2>1 DEF ThreadTypes, Stopped
  <2> QED
    BY <2>2, <2>3, <2>4
<1>10. ASSUME NEW c \in Connections, Send(c) PROVE ThreadInv'
  <2>1. /\ job[c] # <<>> /\ job' = [job EXCEPT ![c] = <<>>]
        /\ late' = [late EXCEPT ![c] = IF phase[c] = "gone" THEN @ + 1 ELSE @]
        /\ UNCHANGED <<router, phase, poll, worker, queue, queues, joins, joining>>
    BY <1>10 DEF Send, managerVars, callVars
  <2>5. late[c] = 0
    BY <2>1 DEF ThreadTypes, Stopped
  <2>6. late' = [late EXCEPT ![c] = IF phase[c] = "gone" THEN 1 ELSE 0]
    BY <2>1, <2>5 DEF ThreadTypes
  <2>2. ThreadTypes'
    BY <2>1, <2>6 DEF ThreadTypes
  <2>3. Owned'
    BY <2>1 DEF Owned
  <2>4. Stopped'
    BY <2>1, <2>6 DEF ThreadTypes, Stopped
  <2> QED
    BY <2>2, <2>3, <2>4
<1>11. ASSUME NEW c \in Connections, StopPolling(c) PROVE ThreadInv'
  <2>1. /\ worker[c] = "alive" /\ job[c] = <<>> /\ worker' = [worker EXCEPT ![c] = "ended"]
        /\ UNCHANGED <<router, phase, poll, job, queue, queues, joins, joining, late>>
    BY <1>11 DEF StopPolling, managerVars, callVars
  <2>2. ThreadTypes'
    BY <2>1 DEF ThreadTypes
  <2>3. Owned'
    BY <2>1 DEF ThreadTypes, Owned
  <2>4. Stopped'
    BY <2>1 DEF ThreadTypes, Stopped
  <2> QED
    BY <2>2, <2>3, <2>4
<1>12. ASSUME NEW c \in Connections, DeviceInit(c) PROVE ThreadInv'
  <2>1. /\ phase[c] = "open" /\ phase' = [phase EXCEPT ![c] = "inited"]
        /\ \/ queue' = queue
           \/ /\ c \in DOMAIN startup
              /\ queue' = [queue EXCEPT ![c] = (@ \o StateItems(startup[c])) \o <<ClocksItem>>]
        /\ UNCHANGED <<router, poll, worker, job, queues, joins, joining, late>>
    BY <1>12 DEF DeviceInit
  <2>5. queue' \in [Connections -> Seq(Items)]
    <3>1. CASE c \in DOMAIN startup
      <4>1. StateItems(startup[c]) \in Seq(Items)
        BY <3>1, StateItemsAre DEF StartupTypes
      <4>2. <<ClocksItem>> \in Seq(Items)
        BY DEF ClocksItem, Items
      <4>3. (queue[c] \o StateItems(startup[c])) \o <<ClocksItem>> \in Seq(Items)
        BY <1>types, <4>1, <4>2, ConcatProperties
      <4> QED
        BY <1>types, <2>1, <4>3
    <3> QED
      BY <1>types, <2>1, <3>1
  <2>2. ThreadTypes'
    BY <2>1, <2>5 DEF ThreadTypes
  <2>3. Owned'
    BY <2>1 DEF ThreadTypes, Owned
  <2>4. Stopped'
    BY <2>1 DEF ThreadTypes, Stopped
  <2> QED
    BY <2>2, <2>3, <2>4
<1>13. ASSUME NEW c \in Connections, NEW f \in Features, NEW s \in States, UpdateFeatureState(c, f, s)
       PROVE ThreadInv'
  <2>1. [line |-> f, text |-> s] \in Items
    BY DEF Items
  <2>2. queue' = queue \/ queue' = [queue EXCEPT ![c] = Append(@, [line |-> f, text |-> s])]
    BY <1>13 DEF UpdateFeatureState, Enqueue
  <2>3. queue' \in [Connections -> Seq(Items)]
    <3>1. Append(queue[c], [line |-> f, text |-> s]) \in Seq(Items)
      BY <1>types, <2>1, AppendProperties
    <3> QED
      BY <1>types, <2>2, <3>1
  <2> QED
    BY <1>13, <2>3, ThreadQuiet DEF UpdateFeatureState, callVars
<1>14. ASSUME NEW i \in Infos \cup {NoInfo}, UpdateDeviceClocks(i) PROVE ThreadInv'
  <2>1. ClocksItem \in Items
    BY DEF ClocksItem, Items
  <2>2. queue' \in [Connections -> Seq(Items)]
    <3>1. \A c \in Connections : Append(queue[c], ClocksItem) \in Seq(Items)
      BY <1>types, <2>1, AppendProperties
    <3> QED
      BY <1>types, <1>14, <3>1 DEF UpdateDeviceClocks
  <2> QED
    BY <1>14, <2>2, ThreadQuiet DEF UpdateDeviceClocks, callVars
<1>15. CASE UNCHANGED vars
  BY <1>15, <1>types, ThreadQuiet DEF vars, managerVars, callVars, threadVars
<1> QED
  BY <1>1, <1>2, <1>3, <1>4, <1>5, <1>7, <1>8, <1>9, <1>10, <1>11, <1>12, <1>13, <1>14, <1>15
     DEF Next, Callback, Worker

(* After the end of a connection its thread sends at most the one string it    *)
(* had in hand (~OverlayQueue stops its polling, the queue is not drained),    *)
(* and once OnRouterDisconnected has returned no queue thread is left for      *)
(* ~thread to end the program over (JoinQueueThreads), whatever number of      *)
(* connections and routers came and went.                                    *)
THEOREM EndIsEnd == Spec => []GoneIsGone
<1>1. Init => ThreadInv /\ StartupTypes
  BY ThreadInit, StartupInit
<1>2. (ThreadInv /\ StartupTypes) /\ [Next]_vars => (ThreadInv /\ StartupTypes)'
  BY ThreadStep, StartupStep
<1>3. ThreadInv => GoneIsGone
  <2> SUFFICES ASSUME ThreadInv PROVE GoneIsGone
    OBVIOUS
  <2>1. OneLateString
    BY DEF ThreadInv, ThreadTypes, OneLateString
  <2>2. ASSUME router = "down" PROVE joins = {} /\ \A c \in Connections : worker[c] \in {"none", "ended"}
    <3>1. joins = {} /\ joining[Router] = {}
      BY <2>2 DEF ThreadInv, Owned
    <3>2. ASSUME NEW c \in Connections PROVE phase[c] \in {"new", "gone"} /\ joining[c] = {}
      BY <2>2 DEF ThreadInv, Owned
    <3>3. \A c \in Connections : c \notin queues
      BY <3>2 DEF ThreadInv, Owned
    <3>4. \A t \in Threads : joining[t] = {}
      BY <3>1, <3>2 DEF Threads
    <3>5. \A c \in Connections : worker[c] # "alive"
      BY <3>1, <3>3, <3>4 DEF ThreadInv, Owned
    <3> QED
      BY <3>1, <3>5 DEF ThreadInv, ThreadTypes
  <2> QED
    BY <2>1, <2>2 DEF GoneIsGone, NoThreadLeft
<1> QED
  BY <1>1, <1>2, <1>3, PTL DEF Spec

(* ----- What is still to be sent. -----                                     *)

(* A line is under way, and the last of it there says one of some texts.       *)
Has(P, l) == \E k \in 1 .. Len(P) : P[k].line = l
LastSays(P, l, texts) ==
  \A k \in 1 .. Len(P) :
    P[k].line = l /\ (\A m \in 1 .. Len(P) : P[m].line = l => m <= k) => P[k].text \in texts

(* Enqueue.                                                                *)
LEMMA Appended ==
  ASSUME NEW S, NEW P \in Seq(S), NEW it \in S, NEW l, NEW texts
  PROVE /\ it.line # l => (Has(Append(P, it), l) <=> Has(P, l))
        /\ it.line # l /\ LastSays(P, l, texts) => LastSays(Append(P, it), l, texts)
        /\ it.line = l => Has(Append(P, it), l)
        /\ it.line = l /\ it.text \in texts => LastSays(Append(P, it), l, texts)
<1> DEFINE n == Len(P)  Q == Append(P, it)
<1>1. /\ n \in Nat /\ Len(Q) = n + 1 /\ Q[n + 1] = it
      /\ \A k \in 1 .. n : Q[k] = P[k]
  BY LenProperties, AppendProperties
<1> HIDE DEF n, Q
<1>2. \A k \in 1 .. Len(Q) : k \in 1 .. n \/ k = n + 1
  BY <1>1
<1>3. \A k \in 1 .. n : k \in 1 .. Len(Q)
  BY <1>1
<1>4. n + 1 \in 1 .. Len(Q) /\ \A k \in 1 .. n : ~ (n + 1 <= k)
  BY <1>1
<1>5. it.line # l => (Has(Q, l) <=> Has(P, l))
  BY <1>1, <1>2, <1>3 DEF Has, n
<1>6. it.line # l /\ LastSays(P, l, texts) => LastSays(Q, l, texts)
  BY <1>1, <1>2, <1>3 DEF LastSays, n
<1>7. it.line = l => Has(Q, l)
  BY <1>1, <1>4 DEF Has
<1>8. it.line = l /\ it.text \in texts => LastSays(Q, l, texts)
  BY <1>1, <1>2, <1>4 DEF LastSays
<1> QED
  BY <1>5, <1>6, <1>7, <1>8 DEF Q

(* The end of what was in the thread's hands.                               *)
LEMMA Taken ==
  ASSUME NEW S, NEW P \in Seq(S), P # <<>>, NEW l, NEW texts
  PROVE /\ Has(P, l) <=> P[1].line = l \/ Has(Tail(P), l)
        /\ LastSays(P, l, texts) => LastSays(Tail(P), l, texts)
        /\ LastSays(P, l, texts) /\ P[1].line = l /\ ~Has(Tail(P), l) => P[1].text \in texts
<1> DEFINE n == Len(Tail(P))  Q == Tail(P)
<1>1. /\ n \in Nat /\ Len(P) = n + 1
      /\ \A k \in 1 .. n : Q[k] = P[k + 1]
  BY LenProperties, HeadTailProperties
<1> HIDE DEF n, Q
<1>2. \A k \in 1 .. Len(P) : k = 1 \/ (k - 1 \in 1 .. n /\ Q[k - 1] = P[k])
  BY <1>1
<1>3. \A k \in 1 .. n : k + 1 \in 1 .. Len(P)
  BY <1>1
<1>4. 1 \in 1 .. Len(P)
  BY <1>1
<1>5. Has(P, l) <=> P[1].line = l \/ Has(Q, l)
  <2>1. ASSUME Has(Q, l) PROVE Has(P, l)
    BY <1>1, <1>3, <2>1 DEF Has, n, Q
  <2>2. ASSUME Has(P, l), P[1].line # l PROVE Has(Q, l)
    BY <1>2, <2>2 DEF Has, n, Q
  <2>3. ASSUME P[1].line = l PROVE Has(P, l)
    BY <1>4, <2>3 DEF Has
  <2> QED
    BY <2>1, <2>2, <2>3
<1>6. LastSays(P, l, texts) => LastSays(Q, l, texts)
  <2> SUFFICES ASSUME LastSays(P, l, texts), NEW k \in 1 .. n, Q[k].line = l,
                      \A m \in 1 .. n : Q[m].line = l => m <= k
               PROVE  Q[k].text \in texts
    BY DEF LastSays, n, Q
  <2>1. k + 1 \in 1 .. Len(P) /\ P[k + 1] = Q[k] /\ P[k + 1].line = l
    BY <1>1, <1>3
  <2>2. ASSUME NEW m \in 1 .. Len(P), P[m].line = l PROVE m <= k + 1
    <3>1. CASE m = 1
      BY <1>1, <3>1
    <3>2. CASE m - 1 \in 1 .. n /\ Q[m - 1] = P[m]
      <4>1. m - 1 <= k
        BY <2>2, <3>2
      <4> QED
        BY <1>1, <3>2, <4>1
    <3> QED
      BY <1>2, <3>1, <3>2
  <2> QED
    BY <2>1, <2>2 DEF LastSays
<1>7. LastSays(P, l, texts) /\ P[1].line = l /\ ~Has(Q, l) => P[1].text \in texts
  <2> SUFFICES ASSUME LastSays(P, l, texts), P[1].line = l, ~Has(Q, l) PROVE P[1].text \in texts
    OBVIOUS
  <2>1. ASSUME NEW m \in 1 .. Len(P), P[m].line = l PROVE m <= 1
    <3>1. \A k \in 1 .. n : Q[k].line # l
      BY DEF Has, n, Q
    <3>2. m = 1
      BY <1>2, <2>1, <3>1
    <3> QED
      BY <3>2
  <2> QED
    BY <1>4, <2>1 DEF LastSays
<1> QED
  BY <1>5, <1>6, <1>7 DEF Q

(* GetDeviceClocksString: the text of the first item is found out.             *)
LEMMA Replaced ==
  ASSUME NEW S, NEW P \in Seq(S), P # <<>>, NEW it \in S, it.line = P[1].line,
         NEW l, NEW texts, P[1].line = l => it.text \in texts
  PROVE /\ [P EXCEPT ![1] = it] \in Seq(S)
        /\ Has([P EXCEPT ![1] = it], l) <=> Has(P, l)
        /\ LastSays(P, l, texts) => LastSays([P EXCEPT ![1] = it], l, texts)
<1> DEFINE n == Len(P)  Q == [P EXCEPT ![1] = it]
<1>1. n \in Nat /\ 1 \in 1 .. n
  BY EmptySeq, LenProperties
<1>2. Q \in Seq(S) /\ Len(Q) = n /\ \A k \in 1 .. n : Q[k] = IF k = 1 THEN it ELSE P[k]
  BY <1>1, ExceptSeq
<1> HIDE DEF n, Q
<1>3. \A k \in 1 .. n : Q[k].line = P[k].line
  BY <1>2
<1>4. Has(Q, l) <=> Has(P, l)
  BY <1>2, <1>3 DEF Has, n
<1>5. LastSays(P, l, texts) => LastSays(Q, l, texts)
  BY <1>2, <1>3 DEF LastSays, n
<1> QED
  BY <1>2, <1>4, <1>5 DEF Q

LEMMA AppendedLast ==
  ASSUME NEW S, NEW s \in Seq(S), NEW t \in Seq(S), NEW e \in S
  PROVE s \o Append(t, e) = Append(s \o t, e)
<1> DEFINE u == <<e>>
<1>1. u \in Seq(S)
  OBVIOUS
<1>2. s \o t \in Seq(S)
  BY ConcatProperties
<1>3. Append(t, e) = t \o u /\ Append(s \o t, e) = (s \o t) \o u
  BY <1>2, AppendIsConcat
<1> HIDE DEF u
<1> QED
  BY <1>1, <1>3, ConcatAssociative

LEMMA HeadAndTail ==
  ASSUME NEW S, NEW s \in Seq(S), s # <<>>
  PROVE <<Head(s)>> \o Tail(s) = s
<1> DEFINE h == <<Head(s)>>  t == Tail(s)
<1>1. /\ Head(s) \in S /\ Head(s) = s[1] /\ t \in Seq(S) /\ Len(t) = Len(s) - 1
      /\ \A i \in 1 .. Len(t) : t[i] = s[i + 1]
  BY HeadTailProperties
<1>2. h \in Seq(S) /\ Len(h) = 1 /\ h[1] = s[1]
  BY <1>1
<1> HIDE DEF h, t
<1>3. /\ h \o t \in Seq(S) /\ Len(h \o t) = 1 + Len(t)
      /\ \A i \in 1 .. 1 + Len(t) : (h \o t)[i] = IF i <= 1 THEN h[i] ELSE t[i - 1]
  <2>1. /\ h \o t \in Seq(S) /\ Len(h \o t) = Len(h) + Len(t)
        /\ \A i \in 1 .. Len(h) + Len(t) : (h \o t)[i] = IF i <= Len(h) THEN h[i] ELSE t[i - Len(h)]
    <3>1. h \in Seq(S) /\ t \in Seq(S)
      BY <1>1, <1>2
    <3> QED
      BY <3>1, ConcatProperties
  <2> QED
    BY <1>2, <2>1
<1>4. Len(s) \in Nat /\ Len(t) \in Nat /\ 1 + Len(t) = Len(s)
  BY <1>1, LenProperties
<1>5. ASSUME NEW i \in 1 .. Len(s) PROVE (h \o t)[i] = s[i]
  <2>1. CASE i = 1
    BY <1>2, <1>3, <1>4, <2>1
  <2>2. CASE i # 1
    <3>1. i - 1 \in 1 .. Len(t) /\ (i - 1) + 1 = i /\ ~(i <= 1)
      BY <1>4, <2>2
    <3> QED
      BY <1>1, <1>3, <1>4, <3>1
  <2> QED
    BY <2>1, <2>2
<1>6. h \o t = s
  BY <1>3, <1>4, <1>5, SeqEqual
<1> QED
  BY <1>6 DEF h, t

LEMMA FirstReplaced ==
  ASSUME NEW S, NEW x \in S, NEW y \in S, NEW t \in Seq(S)
  PROVE <<y>> \o t = [<<x>> \o t EXCEPT ![1] = y]
<1> DEFINE u == <<x>>  v == <<y>>
<1>1. u \in Seq(S) /\ Len(u) = 1 /\ v \in Seq(S) /\ Len(v) = 1 /\ v[1] = y
  OBVIOUS
<1>2. Len(t) \in Nat
  BY LenProperties
<1> HIDE DEF u, v
<1>3. /\ u \o t \in Seq(S) /\ Len(u \o t) = Len(u) + Len(t)
      /\ \A i \in 1 .. Len(u) + Len(t) : (u \o t)[i] = IF i <= Len(u) THEN u[i] ELSE t[i - Len(u)]
  BY <1>1, ConcatProperties
<1>4. /\ v \o t \in Seq(S) /\ Len(v \o t) = Len(v) + Len(t)
      /\ \A i \in 1 .. Len(v) + Len(t) : (v \o t)[i] = IF i <= Len(v) THEN v[i] ELSE t[i - Len(v)]
  BY <1>1, ConcatProperties
<1> DEFINE A == u \o t  B == v \o t
<1>5. A \in Seq(S) /\ Len(A) = 1 + Len(t) /\ 1 \in 1 .. Len(A)
  BY <1>1, <1>2, <1>3
<1>6. B \in Seq(S) /\ Len(B) = Len(A) /\ \A i \in 1 .. Len(A) : B[i] = IF i = 1 THEN y ELSE A[i]
  BY <1>1, <1>2, <1>3, <1>4
<1> HIDE DEF A, B
<1>7. /\ [A EXCEPT ![1] = y] \in Seq(S) /\ Len([A EXCEPT ![1] = y]) = Len(A)
      /\ \A j \in 1 .. Len(A) : [A EXCEPT ![1] = y][j] = IF j = 1 THEN y ELSE A[j]
  BY <1>5, ExceptSeq
<1>8. B = [A EXCEPT ![1] = y]
  BY <1>6, <1>7, SeqEqual
<1> QED
  BY <1>8 DEF A, B, u, v

(* ----- The lines. -----                                                    *)

LineTypes ==
  /\ enabled \in BOOLEAN
  /\ DOMAIN startup \subseteq queues
  /\ job \in [Connections -> Seq(Jobs)]
  /\ \A c \in Connections : Len(job[c]) \in {0, 1}
  /\ info \in Infos \cup {NoInfo}
  /\ shown \in [Connections -> [Lines -> Infos \cup States \cup {NoState}]]
  /\ wanted \in [Connections -> [Features -> States]]

NothingPending(c) == Len(queue[c]) = 0 /\ Len(job[c]) = 0

(* Up to DEVICEINIT nothing is sent and the states of the features are kept;    *)
(* a connection with a queue and nothing kept has had its DEVICEINIT.          *)
Kept ==
  /\ queues # {} => enabled
  /\ \A c \in Connections :
       /\ phase[c] \in {"new", "joining"} =>
            NothingPending(c) /\ \A f \in Features : wanted[c][f] = "kInactive"
       /\ c \in DOMAIN startup =>
            /\ phase[c] = "open" /\ NothingPending(c)
            /\ \A f \in Features : startup[c][f] = wanted[c][f]
       /\ c \in queues \ DOMAIN startup => phase[c] = "inited"

(* From then on the last of a feature's line under way is what was asked for    *)
(* last, and the last of the clocks' line is what they are or will read it.     *)
Due(c) ==
  /\ \A f \in Features :
       /\ ~Has(Pending(c), f) => shown[c][f] = wanted[c][f]
       /\ LastSays(Pending(c), f, {wanted[c][f]})
  /\ ~Has(Pending(c), Clocks) /\ info # NoInfo => shown[c][Clocks] = info
  /\ LastSays(Pending(c), Clocks, {NoInfo, info})

LineInv == LineTypes /\ Kept /\ \A c \in queues \ DOMAIN startup : Due(c)

LEMMA LineInit == Init => LineInv
<1> SUFFICES ASSUME Init PROVE LineInv
  OBVIOUS
<1>1. LineTypes
  <2>1. enabled \in BOOLEAN /\ DOMAIN startup \subseteq queues /\ info \in Infos \cup {NoInfo}
    <3>1. startup = <<>> /\ DOMAIN <<>> = {}
      BY EmptySeq DEF Init
    <3>2. enabled \in BOOLEAN
      BY DEF Init
    <3>3. info \in Infos \cup {NoInfo}
      BY DEF Init
    <3> QED
      BY <3>1, <3>2, <3>3
  <2>2. job \in [Connections -> Seq(Jobs)] /\ \A c \in Connections : Len(job[c]) = 0
    <3>1. <<>> \in Seq(Jobs) /\ Len(<<>>) = 0
      BY EmptySeq
    <3> QED
      BY <3>1 DEF Init
  <2>3. shown \in [Connections -> [Lines -> Infos \cup States \cup {NoState}]]
    BY DEF Init
  <2>4. wanted \in [Connections -> [Features -> States]]
    BY StatesAssumption DEF Init
  <2> QED
    BY <2>1, <2>2, <2>3, <2>4 DEF LineTypes
<1>2. Kept
  BY DEF Init, Kept, NothingPending
<1>3. queues = {}
  BY DEF Init
<1> QED
  BY <1>1, <1>2, <1>3 DEF LineInv

(* What a connection has under way is made of items, some of them read.        *)
LEMMA PendingTyped ==
  ASSUME LineInv, ThreadInv, NEW c \in Connections
  PROVE /\ Pending(c) \in Seq(Jobs) /\ queue[c] \in Seq(Items) /\ queue[c] \in Seq(Jobs)
        /\ Len(job[c]) = 0 => Pending(c) = queue[c]
        /\ Len(job[c]) = 1 => Pending(c) # <<>> /\ Pending(c)[1] = job[c][1] /\ Tail(Pending(c)) = queue[c]
        /\ NothingPending(c) => Pending(c) = <<>>
<1>1. queue[c] \in Seq(Items)
  BY DEF ThreadInv, ThreadTypes
<1>2. Items \subseteq Jobs
  BY DEF Items, Jobs
<1>3. queue[c] \in Seq(Jobs) /\ job[c] \in Seq(Jobs)
  BY <1>1, <1>2, SeqMonotonic DEF LineInv, LineTypes
<1>4. /\ Pending(c) \in Seq(Jobs) /\ Len(Pending(c)) = Len(job[c]) + Len(queue[c])
      /\ \A i \in 1 .. Len(job[c]) + Len(queue[c]) :
           Pending(c)[i] = IF i <= Len(job[c]) THEN job[c][i] ELSE queue[c][i - Len(job[c])]
  BY <1>3, ConcatProperties DEF Pending
<1>5. Len(queue[c]) \in Nat
  BY <1>3, LenProperties
<1>6. ASSUME Len(job[c]) = 0 PROVE Pending(c) = queue[c]
  <2>1. job[c] = <<>>
    BY <1>3, <1>6, EmptySeq
  <2> QED
    BY <1>3, <2>1, ConcatEmptySeq DEF Pending
<1>7. ASSUME Len(job[c]) = 1
      PROVE Pending(c) # <<>> /\ Pending(c)[1] = job[c][1] /\ Tail(Pending(c)) = queue[c]
  <2>1. Len(Pending(c)) = 1 + Len(queue[c]) /\ 1 \in 1 .. Len(job[c]) + Len(queue[c])
    BY <1>4, <1>5, <1>7
  <2>2. Pending(c) # <<>> /\ Pending(c)[1] = job[c][1]
    BY <1>4, <1>5, <1>7, <2>1, EmptySeq
  <2>3. /\ Tail(Pending(c)) \in Seq(Jobs) /\ Len(Tail(Pending(c))) = Len(queue[c])
        /\ \A i \in 1 .. Len(queue[c]) : Tail(Pending(c))[i] = Pending(c)[i + 1]
    <3>1. /\ Tail(Pending(c)) \in Seq(Jobs) /\ Len(Tail(Pending(c))) = Len(Pending(c)) - 1
          /\ \A i \in 1 .. Len(Tail(Pending(c))) : Tail(Pending(c))[i] = Pending(c)[i + 1]
      BY <1>4, <2>2, HeadTailProperties
    <3>2. Len(Tail(Pending(c))) = Len(queue[c])
      BY <1>5, <2>1, <3>1
    <3> QED
      BY <3>1, <3>2
  <2>4. \A i \in 1 .. Len(queue[c]) : Tail(Pending(c))[i] = queue[c][i]
    BY <1>4, <1>5, <1>7, <2>3
  <2> QED
    BY <1>3, <2>2, <2>3, <2>4, SeqEqual
<1>8. ASSUME NothingPending(c) PROVE Pending(c) = <<>>
  BY <1>3, <1>6, <1>8, EmptySeq DEF NothingPending
<1> QED
  BY <1>1, <1>3, <1>4, <1>6, <1>7, <1>8

LEMMA PendingAppended ==
  ASSUME LineInv, ThreadInv, NEW c \in Connections, NEW it \in Jobs
  PROVE job[c] \o Append(queue[c], it) = Append(Pending(c), it)
<1> DEFINE j == job[c]  q == queue[c]
<1>1. q \in Seq(Jobs) /\ j \in Seq(Jobs)
  BY PendingTyped DEF LineInv, LineTypes
<1> HIDE DEF j, q
<1>2. j \o Append(q, it) = Append(j \o q, it)
  BY <1>1, AppendedLast
<1> QED
  BY <1>2 DEF j, q, Pending

(* A connection nobody touches.                                             *)
LEMMA DueSame ==
  ASSUME NEW c \in Connections, Due(c), job'[c] \o queue'[c] = job[c] \o queue[c],
         shown'[c] = shown[c], wanted'[c] = wanted[c], info' = info
  PROVE Due(c)'
BY DEF Due, Pending

(* Steps of the router, of threads that end, and of callbacks before the queue.  *)
LEMMA LineQuiet ==
  ASSUME LineInv, enabled' \in BOOLEAN, queues # {} => enabled',
         UNCHANGED <<startup, queues, queue, job, info, shown, wanted>>,
         \A c \in Connections : phase'[c] = phase[c] \/ (phase[c] = "new" /\ phase'[c] = "joining")
  PROVE LineInv'
<1>1. LineTypes'
  BY DEF LineInv, LineTypes
<1>2. Kept'
  <2>1. \A c \in Connections : NothingPending(c) => NothingPending(c)'
    BY DEF NothingPending
  <2> QED
    BY <2>1 DEF LineInv, Kept
<1>3. \A c \in queues' \ DOMAIN startup' : Due(c)'
  BY DEF LineInv, Due, Pending
<1> QED
  BY <1>1, <1>2, <1>3 DEF LineInv

LEMMA LineConnected ==
  ASSUME LineInv, ThreadInv, NEW c \in Connections, OnDriverConnected(c)
  PROVE LineInv'
<1>1. /\ phase[c] = "joining" /\ phase' = [phase EXCEPT ![c] = "open"]
      /\ UNCHANGED <<enabled, queue, job, info, shown, wanted>>
      /\ \/ UNCHANGED <<startup, queues>>
         \/ /\ enabled /\ queues' = queues \cup {c}
            /\ startup' = [x \in DOMAIN startup \cup {c} |->
                             IF x = c THEN [f \in Features |-> "kInactive"] ELSE startup[x]]
  BY DEF OnDriverConnected
<1>2. c \notin queues /\ c \notin DOMAIN startup /\ queues \subseteq Connections
  BY <1>1 DEF ThreadInv, ThreadTypes, Owned, LineInv, LineTypes
<1>3. \A d \in Connections : phase'[d] = IF d = c THEN "open" ELSE phase[d]
  BY <1>1 DEF ThreadInv, ThreadTypes
<1>4. NothingPending(c) /\ \A f \in Features : wanted[c][f] = "kInactive"
  BY <1>1 DEF LineInv, Kept
<1>5. \A d \in Connections : NothingPending(d)' <=> NothingPending(d)
  BY <1>1 DEF NothingPending
<1>6. LineTypes'
  BY <1>1 DEF LineInv, LineTypes
<1>7. Kept'
  <2>1. \A d \in DOMAIN startup' : \A f \in Features : startup'[d][f] = wanted'[d][f]
    <3>1. \A d \in DOMAIN startup : \A f \in Features : startup[d][f] = wanted[d][f]
      BY <1>2 DEF LineInv, LineTypes, Kept
    <3> QED
      BY <1>1, <1>4, <3>1
  <2>2. \A d \in DOMAIN startup' : d \in DOMAIN startup \/ d = c
    BY <1>1
  <2>3. \A d \in queues' \ DOMAIN startup' : d \in queues \ DOMAIN startup /\ d # c
    BY <1>1, <1>2
  <2>4. queues' # {} => enabled'
    BY <1>1 DEF LineInv, Kept
  <2> QED
    BY <1>1, <1>3, <1>4, <1>5, <2>1, <2>2, <2>3, <2>4 DEF LineInv, Kept
<1>8. \A d \in queues' \ DOMAIN startup' : Due(d)'
  <2>1. \A d \in queues' \ DOMAIN startup' : d \in queues \ DOMAIN startup
    BY <1>1, <1>2
  <2> QED
    BY <1>1, <1>2, <2>1, DueSame DEF LineInv
<1> QED
  BY <1>6, <1>7, <1>8 DEF LineInv

LEMMA LineDisconnected ==
  ASSUME LineInv, ThreadInv, NEW c \in Connections, OnDriverDisconnected(c)
  PROVE LineInv'
<1>1. /\ phase[c] \in {"open", "inited"} /\ phase' = [phase EXCEPT ![c] = "gone"]
      /\ queues' = queues \ {c} /\ startup' = [x \in DOMAIN startup \ {c} |-> startup[x]]
      /\ UNCHANGED <<enabled, queue, job, info, shown, wanted>>
  BY DEF OnDriverDisconnected, Without
<1>2. queues \subseteq Connections
  BY DEF ThreadInv, ThreadTypes
<1>3. \A d \in Connections : phase'[d] = IF d = c THEN "gone" ELSE phase[d]
  BY <1>1 DEF ThreadInv, ThreadTypes
<1>4. \A d \in Connections : NothingPending(d)' <=> NothingPending(d)
  BY <1>1 DEF NothingPending
<1>5. LineTypes'
  BY <1>1 DEF LineInv, LineTypes
<1>6. Kept'
  BY <1>1, <1>3, <1>4 DEF LineInv, Kept
<1>7. \A d \in queues' \ DOMAIN startup' : Due(d)'
  <2>1. \A d \in queues' \ DOMAIN startup' : d \in queues \ DOMAIN startup
    BY <1>1
  <2> QED
    BY <1>1, <1>2, <2>1, DueSame DEF LineInv
<1> QED
  BY <1>5, <1>6, <1>7 DEF LineInv

(* The flush: every feature once, as it was asked for last, then the clocks.   *)
LEMMA LineDeviceInit ==
  ASSUME LineInv, ThreadInv, StartupTypes, NEW c \in Connections, DeviceInit(c)
  PROVE LineInv'
<1>1. /\ phase[c] = "open" /\ phase' = [phase EXCEPT ![c] = "inited"]
      /\ \/ (~enabled \/ c \notin DOMAIN startup) /\ UNCHANGED <<startup, queue>>
         \/ /\ enabled /\ c \in DOMAIN startup
            /\ startup' = [x \in DOMAIN startup \ {c} |-> startup[x]]
            /\ queue' = [queue EXCEPT ![c] = (@ \o StateItems(startup[c])) \o <<ClocksItem>>]
      /\ UNCHANGED <<enabled, queues, job, info, shown, wanted>>
  BY DEF DeviceInit, Without
<1>2. queues \subseteq Connections /\ DOMAIN startup \subseteq queues
  BY DEF ThreadInv, ThreadTypes, LineInv, LineTypes
<1>3. \A d \in Connections : phase'[d] = IF d = c THEN "inited" ELSE phase[d]
  BY <1>1 DEF ThreadInv, ThreadTypes
<1>4. LineTypes'
  BY <1>1 DEF LineInv, LineTypes
<1>5. \A d \in Connections \ {c} : queue'[d] = queue[d] /\ (NothingPending(d)' <=> NothingPending(d))
  <2>1. \A d \in Connections \ {c} : queue'[d] = queue[d]
    BY <1>1 DEF ThreadInv, ThreadTypes
  <2> QED
    BY <1>1, <2>1 DEF NothingPending
<1>6. ~enabled => c \notin DOMAIN startup
  BY <1>2 DEF LineInv, Kept
<1>7. c \notin DOMAIN startup'
  BY <1>1, <1>6
<1>8. \A d \in DOMAIN startup' : d \in DOMAIN startup /\ d # c /\ startup'[d] = startup[d]
  BY <1>1, <1>7
<1>9. Kept'
  <2>1. queues' # {} => enabled'
    BY <1>1 DEF LineInv, Kept
  <2>2. ASSUME NEW d \in Connections, phase'[d] \in {"new", "joining"}
        PROVE NothingPending(d)' /\ \A f \in Features : wanted'[d][f] = "kInactive"
    BY <1>1, <1>3, <1>5, <2>2 DEF LineInv, Kept
  <2>3. ASSUME NEW d \in Connections, d \in DOMAIN startup'
        PROVE /\ phase'[d] = "open" /\ NothingPending(d)'
              /\ \A f \in Features : startup'[d][f] = wanted'[d][f]
    BY <1>1, <1>3, <1>5, <1>8, <2>3 DEF LineInv, Kept
  <2>4. ASSUME NEW d \in Connections, d \in queues' \ DOMAIN startup'
        PROVE phase'[d] = "inited"
    <3>1. d = c \/ d \in queues \ DOMAIN startup
      BY <1>1, <2>4
    <3> QED
      BY <1>3, <3>1 DEF LineInv, Kept
  <2> QED
    BY <2>1, <2>2, <2>3, <2>4 DEF Kept
<1>10. ASSUME NEW d \in queues' \ DOMAIN startup' PROVE Due(d)'
  <2>1. CASE d \in queues \ DOMAIN startup
    <3>1. d # c /\ d \in Connections
      BY <1>1, <1>2, <2>1 DEF LineInv, Kept
    <3> QED
      BY <1>1, <1>5, <2>1, <3>1, DueSame DEF LineInv
  <2>2. CASE d \notin queues \ DOMAIN startup
    <3> DEFINE R == StateItems(startup[c])  P == R \o <<ClocksItem>>
    <3>1. d = c /\ c \in DOMAIN startup /\ enabled
      BY <1>1, <1>6, <1>10, <2>2
    <3>2. startup[c] \in [Features -> States] /\ \A f \in Features : startup[c][f] = wanted[c][f]
      BY <3>1 DEF StartupTypes, LineInv, Kept
    <3>3. /\ R \in Seq(Items) /\ Len(R) \in Nat
          /\ \A f \in Features : \E k \in 1 .. Len(R) : R[k] = [line |-> f, text |-> startup[c][f]]
          /\ \A k \in 1 .. Len(R) : \E f \in Features : R[k] = [line |-> f, text |-> startup[c][f]]
      BY <3>2, StateItemsAre, LenProperties
    <3>4. /\ NothingPending(c) /\ queue[c] \in Seq(Items) /\ job[c] \in Seq(Jobs)
      BY <3>1, PendingTyped DEF LineInv, Kept, LineTypes
    <3>5. queue[c] = <<>> /\ job'[c] = <<>>
      BY <1>1, <3>4, EmptySeq DEF NothingPending
    <3> HIDE DEF R
    <3>6. ClocksItem \in Items /\ ClocksItem \in Jobs /\ ClocksItem.line = Clocks /\ ClocksItem.text = NoInfo
      BY DEF ClocksItem, Items, Jobs
    <3>7. Items \subseteq Jobs
      BY DEF Items, Jobs
    <3>8. R \in Seq(Jobs) /\ P \in Seq(Jobs)
      <4>1. R \in Seq(Jobs)
        BY <3>3, <3>7, SeqMonotonic
      <4>2. <<ClocksItem>> \in Seq(Jobs)
        BY <3>6
      <4> QED
        BY <4>1, <4>2, ConcatProperties
    <3>9. job'[c] \o queue'[c] = P
      <4>1. queue'[c] = (queue[c] \o R) \o <<ClocksItem>>
        BY <1>1, <3>1 DEF ThreadInv, ThreadTypes, R
      <4>2. queue[c] \o R = R
        BY <3>3, <3>5, ConcatEmptySeq
      <4> QED
        BY <3>5, <3>8, <4>1, <4>2, ConcatEmptySeq
    <3>10. Len(P) = Len(R) + 1 /\ P[Len(R) + 1] = ClocksItem /\ \A k \in 1 .. Len(R) : P[k] = R[k]
      <4>1. <<ClocksItem>> \in Seq(Jobs) /\ Len(<<ClocksItem>>) = 1 /\ <<ClocksItem>>[1] = ClocksItem
        BY <3>6
      <4>2. /\ Len(P) = Len(R) + 1
            /\ \A i \in 1 .. Len(R) + 1 : P[i] = IF i <= Len(R) THEN R[i] ELSE <<ClocksItem>>[i - Len(R)]
        BY <3>8, <4>1, ConcatProperties
      <4> QED
        BY <3>3, <4>1, <4>2
    <3> HIDE DEF P
    <3>11. \A k \in 1 .. Len(P) :
             \/ P[k] = ClocksItem
             \/ \E f \in Features : P[k] = [line |-> f, text |-> startup[c][f]]
      <4>1. \A k \in 1 .. Len(P) : k \in 1 .. Len(R) \/ k = Len(R) + 1
        BY <3>3, <3>10
      <4>2. ASSUME NEW k \in 1 .. Len(R)
            PROVE \E f \in Features : P[k] = [line |-> f, text |-> startup[c][f]]
        BY <3>3, <3>10
      <4>3. P[Len(R) + 1] = ClocksItem
        BY <3>10
      <4> QED
        BY <4>1, <4>2, <4>3
    <3>lines. \A k \in 1 .. Len(P) :
             \/ P[k].line = Clocks /\ P[k].text = NoInfo
             \/ \E f \in Features : P[k].line = f /\ P[k].text = wanted[c][f]
      <4> SUFFICES ASSUME NEW k \in 1 .. Len(P)
                   PROVE \/ P[k].line = Clocks /\ P[k].text = NoInfo
                         \/ \E f \in Features : P[k].line = f /\ P[k].text = wanted[c][f]
        OBVIOUS
      <4>1. CASE P[k] = ClocksItem
        BY <3>6, <4>1
      <4>2. CASE \E f \in Features : P[k] = [line |-> f, text |-> startup[c][f]]
        <5>1. PICK f \in Features : P[k] = [line |-> f, text |-> startup[c][f]]
          BY <4>2
        <5>2. P[k].line = f /\ P[k].text = wanted[c][f]
          BY <3>2, <5>1
        <5> QED
          BY <5>2
      <4> QED
        BY <3>11, <4>1, <4>2
    <3>12. \A f \in Features : Has(P, f)
      <4>1. ASSUME NEW f \in Features PROVE \E k \in 1 .. Len(P) : P[k].line = f
        <5>1. PICK k \in 1 .. Len(R) : R[k] = [line |-> f, text |-> startup[c][f]]
          BY <3>3
        <5>2. k \in 1 .. Len(P) /\ P[k].line = f
          BY <3>3, <3>10, <5>1
        <5> QED
          BY <5>2
      <4> QED
        BY <4>1 DEF Has
    <3>13. \A f \in Features : LastSays(P, f, {wanted[c][f]})
      BY <3>lines, NamesAssumption DEF LastSays
    <3>14. Has(P, Clocks)
      <4>1. Len(R) + 1 \in 1 .. Len(P)
        BY <3>3, <3>10
      <4> QED
        BY <3>6, <3>10, <4>1 DEF Has
    <3>15. LastSays(P, Clocks, {NoInfo, info})
      BY <3>lines, NamesAssumption DEF LastSays
    <3> QED
      BY <1>1, <3>1, <3>9, <3>12, <3>13, <3>14, <3>15 DEF Due, Pending
  <2> QED
    BY <2>1, <2>2
<1> QED
  BY <1>4, <1>9, <1>10 DEF LineInv

LEMMA LineUpdate ==
  ASSUME LineInv, ThreadInv, StartupTypes, NEW c \in Connections, NEW f \in Features, NEW s \in States,
         UpdateFeatureState(c, f, s)
  PROVE LineInv'
<1> DEFINE it == [line |-> f, text |-> s]
<1>1. /\ UNCHANGED <<phase, enabled, queues, job, info, shown>>
      /\ \/ UNCHANGED <<startup, queue, wanted>>
         \/ /\ wanted' = [wanted EXCEPT ![c][f] = IF c \in queues THEN s ELSE @]
            /\ \/ c \in DOMAIN startup /\ startup' = [startup EXCEPT ![c][f] = s] /\ queue' = queue
               \/ /\ c \notin DOMAIN startup /\ startup' = startup
                  /\ queue' = IF c \in queues THEN [queue EXCEPT ![c] = Append(@, it)] ELSE queue
  BY DEF UpdateFeatureState, Enqueue, callVars
<1>2. /\ queues \subseteq Connections /\ DOMAIN startup \subseteq queues
      /\ wanted \in [Connections -> [Features -> States]]
  BY DEF ThreadInv, ThreadTypes, LineInv, LineTypes
<1>3. /\ \A d \in Connections, g \in Features :
           wanted'[d][g] = wanted[d][g] \/ (wanted'[d][g] = s /\ d = c /\ g = f /\ c \in queues)
      /\ \A d \in Connections : d # c => wanted'[d] = wanted[d]
      /\ wanted' \in [Connections -> [Features -> States]]
  BY <1>1, <1>2
<1>4. LineTypes'
  BY <1>1, <1>3 DEF LineInv, LineTypes
<1>5. DOMAIN startup' = DOMAIN startup
  BY <1>1
<1>6. CASE UNCHANGED <<startup, queue, wanted>>
  BY <1>1, <1>6, LineQuiet DEF LineInv, LineTypes, Kept
<1>7. CASE /\ c \in DOMAIN startup /\ startup' = [startup EXCEPT ![c][f] = s] /\ queue' = queue
           /\ wanted' = [wanted EXCEPT ![c][f] = IF c \in queues THEN s ELSE @]
  <2>1. \A d \in DOMAIN startup, g \in Features : startup[d][g] = wanted[d][g]
    BY <1>2 DEF LineInv, Kept
  <2>2. \A d \in DOMAIN startup, g \in Features : startup'[d][g] = wanted'[d][g]
    BY <1>2, <1>7, <2>1 DEF StartupTypes
  <2>3. \A d \in Connections : NothingPending(d)' <=> NothingPending(d)
    BY <1>1, <1>7 DEF NothingPending
  <2>4. phase[c] = "open"
    BY <1>7 DEF LineInv, Kept
  <2>5. Kept'
    BY <1>1, <1>3, <1>5, <2>2, <2>3, <2>4 DEF LineInv, Kept
  <2>6. \A d \in queues' \ DOMAIN startup' : Due(d)'
    BY <1>1, <1>2, <1>3, <1>5, <1>7, DueSame DEF LineInv
  <2> QED
    BY <1>4, <2>5, <2>6 DEF LineInv
<1>8. CASE /\ c \in queues \ DOMAIN startup /\ startup' = startup
           /\ queue' = [queue EXCEPT ![c] = Append(@, it)]
           /\ wanted' = [wanted EXCEPT ![c][f] = s]
  <2>1. \A d \in Connections : queue'[d] = IF d = c THEN Append(queue[c], it) ELSE queue[d]
    BY <1>8 DEF ThreadInv, ThreadTypes
  <2>2. \A d \in Connections : d # c => (NothingPending(d)' <=> NothingPending(d))
    BY <1>1, <2>1 DEF NothingPending
  <2>3. phase[c] = "inited"
    BY <1>8 DEF LineInv, Kept
  <2>4. Kept'
    BY <1>1, <1>2, <1>3, <1>8, <2>2, <2>3 DEF LineInv, Kept
  <2>5. Due(c)'
    <3> DEFINE P == Pending(c)
    <3>1. P \in Seq(Jobs) /\ queue[c] \in Seq(Jobs) /\ job[c] \in Seq(Jobs)
      BY PendingTyped DEF LineInv, LineTypes
    <3>2. it \in Jobs /\ it.line = f /\ it.text = s /\ f # Clocks
      BY NamesAssumption DEF Jobs
    <3> HIDE DEF it
    <3>3. job'[c] \o queue'[c] = Append(P, it)
      <4>1. job[c] \o Append(queue[c], it) = Append(P, it)
        BY <3>2, PendingAppended
      <4> QED
        BY <1>1, <2>1, <4>1 DEF Pending
    <3>4. Due(c) /\ c \in Connections
      BY <1>8 DEF LineInv
    <3>5. ASSUME NEW g \in Features
          PROVE /\ ~Has(Append(P, it), g) => shown[c][g] = wanted'[c][g]
                /\ LastSays(Append(P, it), g, {wanted'[c][g]})
      <4>1. CASE g = f
        <5>1. wanted'[c][g] = s
          BY <1>2, <1>8, <4>1
        <5> QED
          BY <3>1, <3>2, <4>1, <5>1, Appended
      <4>2. CASE g # f
        <5>1. wanted'[c][g] = wanted[c][g]
          BY <1>3, <4>2
        <5> QED
          BY <3>1, <3>2, <3>4, <4>2, <5>1, Appended DEF Due
      <4> QED
        BY <4>1, <4>2
    <3>6. /\ ~Has(Append(P, it), Clocks) /\ info # NoInfo => shown[c][Clocks] = info
          /\ LastSays(Append(P, it), Clocks, {NoInfo, info})
      BY <3>1, <3>2, <3>4, Appended DEF Due
    <3> HIDE DEF P
    <3> QED
      BY <1>1, <3>3, <3>5, <3>6 DEF Due, Pending
  <2>6. \A d \in queues' \ DOMAIN startup' : Due(d)'
    BY <1>1, <1>2, <1>3, <1>8, <2>1, <2>5, DueSame DEF LineInv
  <2> QED
    BY <1>4, <2>4, <2>6 DEF LineInv
<1>9. CASE c \notin queues
  <2>1. wanted' = wanted /\ startup' = startup /\ queue' = queue
    BY <1>1, <1>2, <1>9
  <2> QED
    BY <1>6, <2>1
<1> QED
  BY <1>1, <1>6, <1>7, <1>8, <1>9

(* Every connection that has started is told to read the clocks.               *)
LEMMA LineClocks ==
  ASSUME LineInv, ThreadInv, NEW i \in Infos \cup {NoInfo}, UpdateDeviceClocks(i)
  PROVE LineInv'
<1>1. /\ UNCHANGED <<phase, enabled, startup, queues, job, shown, wanted>>
      /\ \/ UNCHANGED <<info, queue>>
         \/ /\ info' = i
            /\ queue' = [c \in Connections |->
                           IF c \in queues \ DOMAIN startup THEN Append(queue[c], ClocksItem) ELSE queue[c]]
  BY DEF UpdateDeviceClocks, callVars
<1>2. queues \subseteq Connections
  BY DEF ThreadInv, ThreadTypes
<1>3. CASE UNCHANGED <<info, queue>>
  BY <1>1, <1>3, LineQuiet DEF LineInv, LineTypes, Kept
<1>4. CASE info' = i /\ queue' = [c \in Connections |->
                           IF c \in queues \ DOMAIN startup THEN Append(queue[c], ClocksItem) ELSE queue[c]]
  <2>1. LineTypes'
    BY <1>1, <1>4 DEF LineInv, LineTypes
  <2>2. \A c \in Connections : c \notin queues \ DOMAIN startup => (NothingPending(c)' <=> NothingPending(c))
    BY <1>1, <1>4 DEF NothingPending
  <2>3. Kept'
    BY <1>1, <2>2 DEF LineInv, Kept
  <2>4. ASSUME NEW c \in queues \ DOMAIN startup PROVE Due(c)'
    <3> DEFINE P == Pending(c)
    <3>1. P \in Seq(Jobs) /\ c \in Connections /\ Due(c)
      BY <1>2, PendingTyped DEF LineInv
    <3>2. ClocksItem \in Jobs /\ ClocksItem.line = Clocks /\ ClocksItem.text = NoInfo
      BY DEF ClocksItem, Jobs
    <3>3. job'[c] \o queue'[c] = Append(P, ClocksItem)
      BY <1>1, <1>4, <3>1, <3>2, PendingAppended
    <3>4. ASSUME NEW f \in Features
          PROVE /\ ~Has(Append(P, ClocksItem), f) => shown[c][f] = wanted[c][f]
                /\ LastSays(Append(P, ClocksItem), f, {wanted[c][f]})
      BY <3>1, <3>2, NamesAssumption, Appended DEF Due
    <3>5. Has(Append(P, ClocksItem), Clocks) /\ LastSays(Append(P, ClocksItem), Clocks, {NoInfo, i})
      BY <3>1, <3>2, Appended
    <3> HIDE DEF P
    <3> QED
      BY <1>1, <1>4, <3>3, <3>4, <3>5 DEF Due, Pending
  <2> QED
    BY <1>1, <2>1, <2>3, <2>4 DEF LineInv
<1> QED
  BY <1>1, <1>3, <1>4

(* The thread takes an item: what is under way stays the same.                 *)
LEMMA LineRunNext ==
  ASSUME LineInv, ThreadInv, NEW c \in Connections, RunNext(c)
  PROVE LineInv'
<1>1. /\ job[c] = <<>> /\ queue[c] # <<>>
      /\ job' = [job EXCEPT ![c] = <<Head(queue[c])>>] /\ queue' = [queue EXCEPT ![c] = Tail(@)]
      /\ UNCHANGED <<phase, enabled, startup, queues, info, shown, wanted>>
  BY DEF RunNext, managerVars, callVars
<1>2. queues \subseteq Connections /\ DOMAIN startup \subseteq queues
  BY DEF ThreadInv, ThreadTypes, LineInv, LineTypes
<1>3. /\ \A d \in Connections \ {c} : queue'[d] = queue[d] /\ job'[d] = job[d]
      /\ queue'[c] = Tail(queue[c]) /\ job'[c] = <<Head(queue[c])>>
  BY <1>1 DEF ThreadInv, ThreadTypes, LineInv, LineTypes
<1>4. queue[c] \in Seq(Jobs)
  BY PendingTyped
<1>5. Head(queue[c]) \in Jobs /\ Tail(queue[c]) \in Seq(Jobs)
  BY <1>1, <1>4, HeadTailProperties
<1>6. <<Head(queue[c])>> \in Seq(Jobs) /\ Len(<<Head(queue[c])>>) = 1
  BY <1>5
<1>7. LineTypes'
  BY <1>1, <1>3, <1>6 DEF LineInv, LineTypes
<1>8. Len(queue[c]) # 0
  BY <1>1, <1>4, EmptySeq
<1>9. ~NothingPending(c)
  BY <1>8 DEF NothingPending
<1>10. Kept'
  <2>1. \A d \in Connections : NothingPending(d) => NothingPending(d)'
    BY <1>3, <1>9 DEF NothingPending
  <2> QED
    BY <1>1, <2>1 DEF LineInv, Kept
<1>11. job'[c] \o queue'[c] = job[c] \o queue[c]
  <2>1. job[c] \o queue[c] = queue[c]
    BY <1>1, <1>4, ConcatEmptySeq
  <2>2. <<Head(queue[c])>> \o Tail(queue[c]) = queue[c]
    BY <1>1, <1>4, HeadAndTail
  <2> QED
    BY <1>3, <2>1, <2>2
<1>12. \A d \in queues' \ DOMAIN startup' : Due(d)'
  BY <1>1, <1>2, <1>3, <1>11, DueSame DEF LineInv
<1> QED
  BY <1>7, <1>10, <1>12 DEF LineInv

(* The thread reads the clocks: the item says what they are, or goes.           *)
LEMMA LineReadClocks ==
  ASSUME LineInv, ThreadInv, NEW c \in Connections, ReadClocks(c)
  PROVE LineInv'
<1> DEFINE it == [line |-> Clocks, text |-> info]
<1>1. /\ job[c] = <<ClocksItem>>
      /\ job' = [job EXCEPT ![c] = IF info = NoInfo THEN <<>> ELSE <<it>>]
      /\ UNCHANGED <<phase, enabled, startup, queues, queue, info, shown, wanted>>
  <2>1. [ClocksItem EXCEPT !.text = info] = it
    BY DEF ClocksItem
  <2> QED
    BY <2>1 DEF ReadClocks, managerVars, callVars
<1>2. queues \subseteq Connections /\ DOMAIN startup \subseteq queues
  BY DEF ThreadInv, ThreadTypes, LineInv, LineTypes
<1>3. /\ \A d \in Connections \ {c} : job'[d] = job[d]
      /\ job'[c] = IF info = NoInfo THEN <<>> ELSE <<it>>
  BY <1>1 DEF LineInv, LineTypes
<1>4. /\ it \in Jobs /\ it.line = Clocks /\ it.text = info
      /\ ClocksItem \in Jobs /\ ClocksItem.line = Clocks /\ ClocksItem.text = NoInfo
  BY DEF LineInv, LineTypes, ClocksItem, Jobs
<1> HIDE DEF it
<1>5. /\ Len(job[c]) = 1 /\ job[c][1] = ClocksItem
      /\ <<it>> \in Seq(Jobs) /\ Len(<<it>>) = 1 /\ <<>> \in Seq(Jobs) /\ Len(<<>>) = 0
  BY <1>1, <1>4, EmptySeq
<1>6. LineTypes'
  <2>1. job'[c] \in Seq(Jobs) /\ Len(job'[c]) \in {0, 1}
    BY <1>3, <1>5
  <2> QED
    BY <1>1, <1>3, <2>1 DEF LineInv, LineTypes
<1>7. Kept'
  <2>1. ~NothingPending(c)
    BY <1>5 DEF NothingPending
  <2>2. \A d \in Connections : NothingPending(d) => NothingPending(d)'
    BY <1>1, <1>3, <2>1 DEF NothingPending
  <2> QED
    BY <1>1, <2>2 DEF LineInv, Kept
<1>8. ASSUME c \in queues \ DOMAIN startup PROVE Due(c)'
  <2> DEFINE P == Pending(c)
  <2>1. /\ P \in Seq(Jobs) /\ P # <<>> /\ P[1] = ClocksItem /\ Tail(P) = queue[c] /\ Due(c)
        /\ queue[c] \in Seq(Jobs)
    BY <1>5, <1>8, PendingTyped DEF LineInv
  <2>2. CASE info = NoInfo
    <3>1. job'[c] \o queue'[c] = Tail(P)
      <4>1. <<>> \o queue[c] = queue[c]
        BY <2>1, ConcatEmptySeq
      <4> QED
        BY <1>1, <1>3, <2>1, <2>2, <4>1
    <3>2. ASSUME NEW f \in Features
          PROVE /\ ~Has(Tail(P), f) => shown[c][f] = wanted[c][f]
                /\ LastSays(Tail(P), f, {wanted[c][f]})
      BY <1>4, <2>1, NamesAssumption, Taken DEF Due
    <3>3. LastSays(Tail(P), Clocks, {NoInfo, info})
      BY <2>1, Taken DEF Due
    <3> HIDE DEF P
    <3> QED
      BY <1>1, <2>2, <3>1, <3>2, <3>3 DEF Due, Pending
  <2>3. CASE info # NoInfo
    <3> DEFINE Q == [P EXCEPT ![1] = it]
    <3>1. job'[c] \o queue'[c] = Q
      <4>1. P = <<ClocksItem>> \o queue[c]
        BY <1>1 DEF Pending
      <4>2. <<it>> \o queue[c] = Q
        <5> DEFINE q == queue[c]
        <5>1. q \in Seq(Jobs) /\ it \in Jobs /\ ClocksItem \in Jobs /\ P = <<ClocksItem>> \o q
          BY <1>4, <2>1, <4>1
        <5> HIDE DEF P, q
        <5>2. <<it>> \o q = [<<ClocksItem>> \o q EXCEPT ![1] = it]
          BY <5>1, FirstReplaced
        <5> QED
          BY <5>1, <5>2 DEF q
      <4> QED
        BY <1>1, <1>3, <2>3, <4>2
    <3>2. ASSUME NEW f \in Features
          PROVE /\ ~Has(Q, f) => shown[c][f] = wanted[c][f]
                /\ LastSays(Q, f, {wanted[c][f]})
      BY <1>4, <2>1, NamesAssumption, Replaced DEF Due
    <3>3. Has(Q, Clocks)
      <4>1. Has(P, Clocks)
        BY <1>4, <2>1, Taken
      <4> QED
        BY <1>4, <2>1, <4>1, Replaced
    <3>4. LastSays(Q, Clocks, {NoInfo, info})
      BY <1>4, <2>1, Replaced DEF Due
    <3> HIDE DEF P, Q
    <3> QED
      BY <1>1, <3>1, <3>2, <3>3, <3>4 DEF Due, Pending
  <2> QED
    BY <2>2, <2>3
<1>9. \A d \in queues' \ DOMAIN startup' : Due(d)'
  BY <1>1, <1>2, <1>3, <1>8, DueSame DEF LineInv
<1> QED
  BY <1>6, <1>7, <1>9 DEF LineInv

(* SetDriverOverlayString: what went out is shown.                            *)
LEMMA LineSend ==
  ASSUME LineInv, ThreadInv, NEW c \in Connections, Send(c)
  PROVE LineInv'
<1> DEFINE it == job[c][1]
<1>1. /\ job[c] # <<>> /\ job[c] # <<ClocksItem>>
      /\ shown' = [shown EXCEPT ![c][Head(job[c]).line] = Head(job[c]).text]
      /\ job' = [job EXCEPT ![c] = <<>>]
      /\ UNCHANGED <<phase, enabled, startup, queues, queue, info, wanted>>
  BY DEF Send, managerVars, callVars
<1>2. queues \subseteq Connections /\ DOMAIN startup \subseteq queues
  BY DEF ThreadInv, ThreadTypes, LineInv, LineTypes
<1>3. job[c] \in Seq(Jobs) /\ Len(job[c]) = 1
  BY <1>1, EmptySeq DEF LineInv, LineTypes
<1>4. it \in Jobs /\ Head(job[c]) = it /\ job[c] = <<it>>
  BY <1>3, ElementOfSeq
<1>5. it # ClocksItem
  BY <1>1, <1>4
<1>6. /\ it.line \in Lines /\ it.text \in Infos \cup States \cup {NoInfo}
      /\ it.line = Clocks => it.text \in Infos /\ it.text # NoInfo
      /\ it.line # Clocks => it.text \in States
  BY <1>4, <1>5, NamesAssumption DEF Jobs, Lines, ClocksItem
<1> HIDE DEF it
<1>7. /\ \A d \in Connections \ {c} : job'[d] = job[d] /\ shown'[d] = shown[d]
      /\ job'[c] = <<>>
      /\ \A l \in Lines : shown'[c][l] = IF l = it.line THEN it.text ELSE shown[c][l]
  BY <1>1, <1>4 DEF LineInv, LineTypes
<1>8. LineTypes'
  <2>1. shown' \in [Connections -> [Lines -> Infos \cup States \cup {NoState}]]
    BY <1>1, <1>4, <1>6 DEF LineInv, LineTypes
  <2>2. <<>> \in Seq(Jobs) /\ Len(<<>>) = 0
    BY EmptySeq
  <2>3. job' \in [Connections -> Seq(Jobs)] /\ \A d \in Connections : Len(job'[d]) \in {0, 1}
    BY <1>1, <1>7, <2>2 DEF LineInv, LineTypes
  <2> QED
    BY <1>1, <2>1, <2>3 DEF LineInv, LineTypes
<1>9. Kept'
  <2>1. ~NothingPending(c)
    BY <1>3 DEF NothingPending
  <2>2. \A d \in Connections : NothingPending(d) => NothingPending(d)'
    BY <1>1, <1>7, <2>1 DEF NothingPending
  <2> QED
    BY <1>1, <2>2 DEF LineInv, Kept
<1>10. ASSUME c \in queues \ DOMAIN startup PROVE Due(c)'
  <2> DEFINE P == Pending(c)
  <2>1. /\ P \in Seq(Jobs) /\ P # <<>> /\ P[1] = it /\ Tail(P) = queue[c] /\ Due(c)
        /\ queue[c] \in Seq(Jobs)
    BY <1>3, <1>10, PendingTyped DEF LineInv, it
  <2>2. job'[c] \o queue'[c] = Tail(P)
    <3>1. <<>> \o queue[c] = queue[c]
      BY <2>1, ConcatEmptySeq
    <3> QED
      BY <1>1, <1>7, <2>1, <3>1
  <2>3. ASSUME NEW f \in Features
        PROVE /\ ~Has(Tail(P), f) => shown'[c][f] = wanted[c][f]
              /\ LastSays(Tail(P), f, {wanted[c][f]})
    <3>1. /\ Has(P, f) <=> it.line = f \/ Has(Tail(P), f)
          /\ LastSays(Tail(P), f, {wanted[c][f]})
          /\ it.line = f /\ ~Has(Tail(P), f) => it.text = wanted[c][f]
          /\ ~Has(P, f) => shown[c][f] = wanted[c][f]
      BY <2>1, Taken DEF Due
    <3>2. shown'[c][f] = IF f = it.line THEN it.text ELSE shown[c][f]
      BY <1>7 DEF Lines
    <3> QED
      BY <3>1, <3>2
  <2>4. /\ ~Has(Tail(P), Clocks) /\ info # NoInfo => shown'[c][Clocks] = info
        /\ LastSays(Tail(P), Clocks, {NoInfo, info})
    <3>1. /\ Has(P, Clocks) <=> it.line = Clocks \/ Has(Tail(P), Clocks)
          /\ LastSays(Tail(P), Clocks, {NoInfo, info})
          /\ it.line = Clocks /\ ~Has(Tail(P), Clocks) => it.text \in {NoInfo, info}
          /\ ~Has(P, Clocks) /\ info # NoInfo => shown[c][Clocks] = info
      BY <2>1, Taken DEF Due
    <3>2. shown'[c][Clocks] = IF Clocks = it.line THEN it.text ELSE shown[c][Clocks]
      BY <1>7 DEF Lines
    <3> QED
      BY <1>6, <3>1, <3>2
  <2> HIDE DEF P
  <2> QED
    BY <1>1, <2>2, <2>3, <2>4 DEF Due, Pending
<1>11. \A d \in queues' \ DOMAIN startup' : Due(d)'
  BY <1>1, <1>2, <1>7, <1>10, DueSame DEF LineInv
<1> QED
  BY <1>8, <1>9, <1>11 DEF LineInv

LEMMA LineStep == LineInv /\ ThreadInv /\ StartupTypes /\ [Next]_vars => LineInv'
<1> SUFFICES ASSUME LineInv, ThreadInv, StartupTypes, [Next]_vars PROVE LineInv'
  OBVIOUS
<1>1. CASE OnRouterConnected
  <2>1. queues = {}
    BY <1>1 DEF OnRouterConnected, ThreadInv, ThreadTypes, Owned
  <2> QED
    BY <1>1, <2>1, LineQuiet DEF OnRouterConnected, threadVars
<1>2. enabled \in BOOLEAN /\ (queues # {} => enabled)
  BY DEF LineInv, LineTypes, Kept
<1>3. CASE OnRouterDisconnected
  BY <1>2, <1>3, LineQuiet DEF OnRouterDisconnected, threadVars
<1>4. CASE RouterGone
  BY <1>2, <1>4, LineQuiet DEF RouterGone, managerVars, threadVars
<1>5. ASSUME NEW c \in Connections, BeginDriverConnected(c) PROVE LineInv'
  <2>1. phase[c] = "new" /\ \A d \in Connections : phase'[d] = IF d = c THEN "joining" ELSE phase[d]
    BY <1>5 DEF BeginDriverConnected, ThreadInv, ThreadTypes
  <2> QED
    BY <1>2, <1>5, <2>1, LineQuiet DEF BeginDriverConnected, threadVars
<1>6. ASSUME NEW c \in Connections, StopPolling(c) PROVE LineInv'
  BY <1>2, <1>6, LineQuiet DEF StopPolling, managerVars, callVars
<1>7. CASE UNCHANGED vars
  BY <1>2, <1>7, LineQuiet DEF vars, managerVars, callVars, threadVars
<1> QED
  BY <1>1, <1>3, <1>4, <1>5, <1>6, <1>7, LineConnected, LineDeviceInit, LineDisconnected, LineUpdate,
     LineClocks, LineRunNext, LineReadClocks, LineSend
     DEF Next, Callback, Worker

(* Each line of the overlay ends as what was asked or read last: for a feature    *)
(* the state it was given last (UpdateFeatureState, kept up to DEVICEINIT or      *)
(* queued after it), for the clocks what they are, however the change raced      *)
(* with the thread that reads them (GetDeviceClocksString).                     *)
THEOREM LinesAreCurrent == Spec => []LinesCatchUp
<1>1. Init => LineInv /\ ThreadInv /\ StartupTypes
  BY LineInit, ThreadInit, StartupInit
<1>2. (LineInv /\ ThreadInv /\ StartupTypes) /\ [Next]_vars => (LineInv /\ ThreadInv /\ StartupTypes)'
  BY LineStep, ThreadStep, StartupStep
<1>3. LineInv /\ ThreadInv => LinesCatchUp
  <2> SUFFICES ASSUME LineInv, ThreadInv PROVE LinesCatchUp
    OBVIOUS
  <2>1. queues \subseteq Connections
    BY DEF ThreadInv, ThreadTypes
  <2>2. \A c \in Connections : \A l : Has(Pending(c), l) <=> Unsent(c, l) # {}
    BY DEF Has, Unsent
  <2>3. ASSUME NEW c \in Connections, NEW l, NEW texts, LastSays(Pending(c), l, texts)
        PROVE \A k \in LastUnsent(c, l) : Pending(c)[k].text \in texts
    BY <2>3 DEF LastSays, LastUnsent, Unsent
  <2>4. LastStateWins
    <3> SUFFICES ASSUME NEW c \in queues, NEW f \in Features
                 PROVE \/ c \in DOMAIN startup /\ startup[c][f] = wanted[c][f]
                       \/ /\ c \notin DOMAIN startup
                          /\ IF Unsent(c, f) = {} THEN phase[c] = "inited" => shown[c][f] = wanted[c][f]
                             ELSE \A k \in LastUnsent(c, f) : Pending(c)[k].text = wanted[c][f]
      BY DEF LastStateWins
    <3>1. CASE c \in DOMAIN startup
      BY <2>1, <3>1 DEF LineInv, Kept
    <3>2. CASE c \notin DOMAIN startup
      <4>1. /\ ~Has(Pending(c), f) => shown[c][f] = wanted[c][f]
            /\ LastSays(Pending(c), f, {wanted[c][f]})
        BY <3>2 DEF LineInv, Due
      <4>2. \A k \in LastUnsent(c, f) : Pending(c)[k].text = wanted[c][f]
        BY <2>1, <2>3, <4>1
      <4> QED
        BY <2>1, <2>2, <3>2, <4>1, <4>2
    <3> QED
      BY <3>1, <3>2
  <2>5. ClocksShown
    <3>1. ASSUME NEW c \in queues, c \notin DOMAIN startup, Unsent(c, Clocks) = {}, info # NoInfo
          PROVE shown[c][Clocks] = info
      <4>1. ~Has(Pending(c), Clocks)
        BY <2>1, <2>2, <3>1
      <4> QED
        BY <3>1, <4>1 DEF LineInv, Due
    <3> QED
      BY <3>1 DEF ClocksShown
  <2> QED
    BY <2>4, <2>5 DEF LinesCatchUp
<1> QED
  BY <1>1, <1>2, <1>3, PTL DEF Spec

==============================================================================
