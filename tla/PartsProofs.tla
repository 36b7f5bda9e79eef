------------------------------ MODULE PartsProofs ------------------------------
(***************************************************************************)
(* What parts of the panel that stand alone guarantee, for any number of     *)
(* processes, accounts, users, captures and counters, and without a bound on  *)
(* what happens.                                                           *)
(***************************************************************************)
EXTENDS Parts, SequenceTheorems, FiniteSetTheorems, WellFoundedInduction, TLAPS

(* ----- SingleInstance: who created the memory. -----                      *)

Places == {"out", "create", "clean", "detach", "again", "primary", "join", "notify", "headless",
           "new mutex", "decide", "running", "leave", "close", "crashed"}

InstanceTypes ==
  /\ at \in [Processes -> Places]
  /\ another \in [Processes -> {"unset", "yes", "no"}]
  /\ attached \subseteq Processes

(* A process that created the memory and has not left or been told of another *)
(* since.                                                                  *)
Creator(p) ==
  \/ at[p] = "primary"
  \/ at[p] \in {"headless", "new mutex", "decide", "running"} /\ another[p] = "no"

(* While the creator runs, the memory is there, so that no other can create   *)
(* it; what the constructor has not decided yet is not set.                  *)
InstanceInv ==
  /\ InstanceTypes
  /\ \A p \in Processes :
       /\ Creator(p) => exists /\ p \in attached
       /\ at[p] \in {"create", "clean", "detach", "again", "primary", "join"} => another[p] = "unset"
       /\ at[p] = "notify" => another[p] = "yes"
       /\ at[p] = "running" => another[p] \in {"unset", "no"}
  /\ \A p, q \in Processes : Creator(p) /\ Creator(q) => p = q

LEMMA InstanceInit == Si!Init => InstanceInv
BY DEF Si!Init, InstanceInv, InstanceTypes, Places, Creator

(* A step of one process that makes nobody the creator, and takes nothing away. *)
LEMMA InstanceQuiet ==
  ASSUME InstanceInv, InstanceTypes', NEW p \in Processes,
         \A q \in Processes \ {p} : at'[q] = at[q] /\ another'[q] = another[q],
         Creator(p)' => Creator(p), exists => exists', attached \subseteq attached',
         at'[p] \in {"create", "clean", "detach", "again", "primary", "join"} => another'[p] = "unset",
         at'[p] = "notify" => another'[p] = "yes",
         at'[p] = "running" => another'[p] \in {"unset", "no"}
  PROVE InstanceInv'
<1>1. \A q \in Processes : Creator(q)' => Creator(q)
  BY DEF Creator
<1>2. \A q \in Processes : Creator(q)' => exists' /\ q \in attached'
  BY <1>1 DEF InstanceInv
<1>3. \A q, r \in Processes : Creator(q)' /\ Creator(r)' => q = r
  BY <1>1 DEF InstanceInv
<1>4. \A q \in Processes :
       /\ at'[q] \in {"create", "clean", "detach", "again", "primary", "join"} => another'[q] = "unset"
       /\ at'[q] = "notify" => another'[q] = "yes"
       /\ at'[q] = "running" => another'[q] \in {"unset", "no"}
  BY DEF InstanceInv
<1> QED
  BY <1>2, <1>3, <1>4 DEF InstanceInv

(* Memory that is not there has no creator yet.                              *)
LEMMA InstanceCreated ==
  ASSUME InstanceInv, NEW p \in Processes, ~exists, at[p] \in {"create", "again"},
         exists', attached' = {p}, at' = [at EXCEPT ![p] = "primary"], another' = another
  PROVE InstanceInv'
<1>1. \A q \in Processes : at'[q] = IF q = p THEN "primary" ELSE at[q]
  BY DEF InstanceInv, InstanceTypes
<1>2. \A q \in Processes : ~Creator(q)
  BY DEF InstanceInv
<1>3. \A q \in Processes : Creator(q)' => q = p
  BY <1>1, <1>2 DEF Creator
<1>4. InstanceTypes'
  BY DEF InstanceInv, InstanceTypes, Places
<1>5. another[p] = "unset"
  BY DEF InstanceInv
<1>6. \A q \in Processes :
       /\ at'[q] \in {"create", "clean", "detach", "again", "primary", "join"} => another'[q] = "unset"
       /\ at'[q] = "notify" => another'[q] = "yes"
       /\ at'[q] = "running" => another'[q] \in {"unset", "no"}
  BY <1>1, <1>5 DEF InstanceInv
<1> QED
  BY <1>3, <1>4, <1>6 DEF InstanceInv

LEMMA InstanceStep == InstanceInv /\ [Si!Next]_Si!vars => InstanceInv'
<1> SUFFICES ASSUME InstanceInv, [Si!Next]_Si!vars PROVE InstanceInv'
  OBVIOUS
<1> USE DEF InstanceInv, InstanceTypes, Places, Creator, Si!Goto, Si!Answer, Si!memoryVars, Si!mutexVars
<1>1. ASSUME NEW p \in Processes, Si!Start(p) PROVE InstanceInv'
  BY <1>1 DEF Si!Start
<1>2. ASSUME NEW p \in Processes, Si!CreateFirst(p) PROVE InstanceInv'
  <2>1. CASE exists
    <3>1. /\ at[p] = "create" /\ at' = [at EXCEPT ![p] = "clean"]
          /\ another' = another /\ attached' = attached /\ exists' = exists
      BY <1>2, <2>1 DEF Si!CreateFirst, Si!Create
    <3>2. InstanceTypes' /\ ~Creator(p)' /\ at'[p] = "clean" /\ another'[p] = "unset"
      BY <3>1
    <3>3. \A q \in Processes \ {p} : at'[q] = at[q] /\ another'[q] = another[q]
      BY <3>1
    <3> HIDE DEF InstanceInv, InstanceTypes, Creator
    <3> QED
      BY <3>1, <3>2, <3>3, InstanceQuiet
  <2>2. CASE ~exists
    <3>1. /\ at[p] = "create" /\ at' = [at EXCEPT ![p] = "primary"]
          /\ another' = another /\ attached' = {p} /\ exists'
      BY <1>2, <2>2 DEF Si!CreateFirst, Si!Create
    <3> HIDE DEF InstanceInv, InstanceTypes, Creator
    <3> QED
      BY <2>2, <3>1, InstanceCreated
  <2> QED
    BY <2>1, <2>2
<1>3. ASSUME NEW p \in Processes, Si!CleanAttach(p) PROVE InstanceInv'
  BY <1>3 DEF Si!CleanAttach
<1>4. ASSUME NEW p \in Processes, Si!CleanDetach(p) PROVE InstanceInv'
  BY <1>4 DEF Si!CleanDetach, Si!Detach
<1>5. ASSUME NEW p \in Processes, Si!CreateAgain(p) PROVE InstanceInv'
  <2>1. CASE exists
    <3>1. /\ at[p] = "again" /\ at' = [at EXCEPT ![p] = "join"]
          /\ another' = another /\ attached' = attached /\ exists' = exists
      BY <1>5, <2>1 DEF Si!CreateAgain, Si!Create
    <3>2. InstanceTypes' /\ ~Creator(p)' /\ at'[p] = "join" /\ another'[p] = "unset"
      BY <3>1
    <3>3. \A q \in Processes \ {p} : at'[q] = at[q] /\ another'[q] = another[q]
      BY <3>1
    <3> HIDE DEF InstanceInv, InstanceTypes, Creator
    <3> QED
      BY <3>1, <3>2, <3>3, InstanceQuiet
  <2>2. CASE ~exists
    <3>1. /\ at[p] = "again" /\ at' = [at EXCEPT ![p] = "primary"]
          /\ another' = another /\ attached' = {p} /\ exists'
      BY <1>5, <2>2 DEF Si!CreateAgain, Si!Create
    <3> HIDE DEF InstanceInv, InstanceTypes, Creator
    <3> QED
      BY <2>2, <3>1, InstanceCreated
  <2> QED
    BY <2>1, <2>2
<1>6. ASSUME NEW p \in Processes, Si!Primary(p) PROVE InstanceInv'
  <2>1. /\ at[p] = "primary" /\ at' = [at EXCEPT ![p] = "headless"]
        /\ another' = [another EXCEPT ![p] = "no"] /\ attached' = attached /\ exists' = exists
    BY <1>6 DEF Si!Primary
  <2>2. InstanceTypes' /\ Creator(p) /\ at'[p] = "headless"
    BY <2>1
  <2>3. \A q \in Processes \ {p} : at'[q] = at[q] /\ another'[q] = another[q]
    BY <2>1
  <2> HIDE DEF InstanceInv, InstanceTypes, Creator
  <2> QED
    BY <2>1, <2>2, <2>3, InstanceQuiet
<1>7. ASSUME NEW p \in Processes, Si!Join(p) PROVE InstanceInv'
  <2>1. CASE exists /\ account = AccountOf[p]
    <3>1. /\ at' = [at EXCEPT ![p] = "notify"] /\ another' = [another EXCEPT ![p] = "yes"]
          /\ attached' = attached \cup {p} /\ exists' = exists
      BY <1>7, <2>1 DEF Si!Join, Si!MayAttach
    <3> QED
      BY <3>1, InstanceQuiet
  <2>2. CASE ~(exists /\ account = AccountOf[p])
    <3>1. /\ at' = [at EXCEPT ![p] = "headless"] /\ attached' = attached /\ exists' = exists
          /\ another' = [another EXCEPT ![p] = "yes"] \/ another' = another
          /\ at[p] = "join"
      BY <1>7, <2>2 DEF Si!Join, Si!MayAttach
    <3>2. another[p] = "unset" /\ another'[p] # "no"
      BY <3>1
    <3>3. ~Creator(p)'
      BY <3>1, <3>2
    <3>4. InstanceTypes' /\ at'[p] = "headless"
      BY <3>1
    <3>5. \A q \in Processes \ {p} : at'[q] = at[q] /\ another'[q] = another[q]
      BY <3>1
    <3> HIDE DEF InstanceInv, InstanceTypes, Creator
    <3> QED
      BY <3>1, <3>3, <3>4, <3>5, InstanceQuiet
  <2> QED
    BY <2>1, <2>2
<1>8. ASSUME NEW p \in Processes, Si!NotifyAppInstanceStarted(p) PROVE InstanceInv'
  BY <1>8 DEF Si!NotifyAppInstanceStarted
<1>9. ASSUME NEW p \in Processes, Si!OpenMutex(p) PROVE InstanceInv'
  <2>1. /\ at[p] = "headless" /\ attached' = attached /\ exists' = exists
        /\ \/ at' = [at EXCEPT ![p] = "decide"] /\ another' = [another EXCEPT ![p] = "yes"]
           \/ at' = [at EXCEPT ![p] = "new mutex"] /\ another' = another
           \/ at' = [at EXCEPT ![p] = "decide"] /\ another' = another
    BY <1>9 DEF Si!OpenMutex
  <2>2. InstanceTypes' /\ at'[p] \in {"decide", "new mutex"}
    BY <2>1
  <2>3. Creator(p)' => Creator(p)
    <3>1. at'[p] \in {"decide", "new mutex"} /\ another'[p] \in {"yes", another[p]}
      BY <2>1
    <3> QED
      BY <2>1, <3>1
  <2>4. \A q \in Processes \ {p} : at'[q] = at[q] /\ another'[q] = another[q]
    BY <2>1
  <2> HIDE DEF InstanceInv, InstanceTypes, Creator
  <2> QED
    BY <2>1, <2>2, <2>3, <2>4, InstanceQuiet
<1>10. ASSUME NEW p \in Processes, Si!Decide(p) PROVE InstanceInv'
  <2>1. PICK a \in {"yes", "no"} : /\ a = another[p] \/ another[p] = "unset"
                                 /\ at' = [at EXCEPT ![p] = IF a = "yes" THEN "leave" ELSE "running"]
    BY <1>10 DEF Si!Decide
  <2>2. at[p] = "decide" /\ another' = another /\ attached' = attached /\ exists' = exists
    BY <1>10 DEF Si!Decide
  <2>3. at'[p] = "running" => another'[p] \in {"unset", "no"}
    BY <2>1, <2>2
  <2>4. Creator(p)' => Creator(p)
    BY <2>1, <2>2
  <2>5. InstanceTypes' /\ at'[p] \in {"leave", "running"}
    BY <2>1, <2>2
  <2>6. \A q \in Processes \ {p} : at'[q] = at[q] /\ another'[q] = another[q]
    BY <2>1, <2>2
  <2> HIDE DEF InstanceInv, InstanceTypes, Creator
  <2> QED
    BY <2>2, <2>3, <2>4, <2>5, <2>6, InstanceQuiet
<1>11. ASSUME NEW p \in Processes, Si!OnCheckForNewInstance(p) PROVE InstanceInv'
  BY <1>11 DEF Si!OnCheckForNewInstance
<1>12. ASSUME NEW p \in Processes, Si!Quit(p) PROVE InstanceInv'
  BY <1>12 DEF Si!Quit
<1>13. ASSUME NEW p \in Processes, Si!Leave(p) PROVE InstanceInv'
  BY <1>13 DEF Si!Leave, Si!Detach
<1>14. ASSUME NEW p \in Processes, Si!Crash(p) PROVE InstanceInv'
  BY <1>14 DEF Si!Crash
<1>15. ASSUME NEW p \in Processes, Si!Close(p) PROVE InstanceInv'
  BY <1>15 DEF Si!Close
<1>16. ASSUME NEW p \in Processes, Si!OpenOrCreate(p) PROVE InstanceInv'
  <2>1. /\ at[p] = "new mutex" /\ at' = [at EXCEPT ![p] = "decide"]
        /\ another' = another /\ attached' = attached /\ exists' = exists
    BY <1>16 DEF Si!OpenOrCreate
  <2>2. InstanceTypes' /\ (Creator(p)' => Creator(p)) /\ at'[p] = "decide"
    BY <2>1
  <2>3. \A q \in Processes \ {p} : at'[q] = at[q] /\ another'[q] = another[q]
    BY <2>1
  <2> HIDE DEF InstanceInv, InstanceTypes, Creator
  <2> QED
    BY <2>1, <2>2, <2>3, InstanceQuiet
<1>17. CASE UNCHANGED Si!vars
  BY <1>17 DEF Si!vars
<1> QED
  BY <1>1, <1>2, <1>3, <1>4, <1>5, <1>6, <1>7, <1>8, <1>9, <1>10, <1>11, <1>12, <1>13, <1>14, <1>15,
     <1>16, <1>17
  DEF Si!Next

(* Two processes that run at once: one of them read a member nobody had set,  *)
(* whatever starts, crashes and ends came between                           *)
(* (SingleApplicationInstance::CreateSharedMemory).                         *)
THEOREM InstancesExclude == Si!Spec => []OneInstance
<1>1. InstanceInv => OneInstance
  BY DEF InstanceInv, InstanceTypes, Creator, OneInstance, Si!OneInstance
<1> QED
  BY <1>1, InstanceInit, InstanceStep, PTL DEF Si!Spec

(* ----- RmvClient: the one outcome of a trace. -----                        *)

Outcomes == {"Completed", "Error", "Aborted"}
Asked == {"end", "abort", "discard"}

(* A thread that ended the trace and has not said yet what became of it.      *)
Winning == {"ended", "aborted", "discarded", "dump", "transfer", "writing"}
Over == Winning \cup {"end failed", "abort failed", "discard failed", "written"}

TraceTypes ==
  /\ trace \in {"off", "running", "ended", "cleared"}
  /\ state \in {"Idle", "Capturing", "Done", "Error", "Dumping"}
  /\ postInit \in BOOLEAN /\ left \in BOOLEAN /\ raced \in BOOLEAN
  /\ call \in [Rm!Threads -> {"none", "ask", "leave"} \cup Asked \cup Over]
  /\ reports \in Seq(Outcomes)

(* Whoever ends the trace is alone in it, and nobody has reported before; a    *)
(* trace that runs is shown as running, and no call is over then.            *)
OneWinner ==
  /\ Len(reports) \in {0, 1}
  /\ \A t, u \in Rm!Threads : call[t] \in Winning /\ call[u] \in Winning => t = u
  /\ \A t \in Rm!Threads :
       /\ call[t] \in Winning => trace = "ended" /\ Len(reports) = 0
       /\ call[t] \in Over => trace \in {"ended", "cleared"}
       /\ call[t] # "none" => trace # "off"
  /\ trace \in {"off", "running"} => Len(reports) = 0
  /\ trace = "running" => state = "Capturing"
  /\ trace = "off" => state # "Capturing"

(* What only the driver's thread does.                                      *)
DriverAlone ==
  /\ \A t \in Users : call[t] \notin {"ask", "leave", "discard", "discarded", "discard failed"}
  /\ call[Driver] # "none" => ~left
  /\ call[Driver] \in {"discard", "discarded", "discard failed"} => ~postInit
  /\ left => trace # "off"

(* Nobody interfered: one thread at a time, so that its dump is not refused,  *)
(* and a trace that ended was reported, or its end is under way.             *)
Unraced ==
  ~raced =>
    /\ \A t, u \in Rm!Threads : call[t] # "none" /\ call[u] # "none" => t = u
    /\ \A t \in Rm!Threads : call[t] = "dump" => state = "Done"
    /\ call[Driver] = "leave" /\ postInit => trace # "running"
    /\ trace \in {"ended", "cleared"} =>
         Len(reports) # 0 \/ (left /\ ~postInit) \/ \E t \in Rm!Threads : call[t] \in Winning
    /\ left /\ postInit => Len(reports) # 0

TraceInv == TraceTypes /\ OneWinner /\ DriverAlone /\ Unraced

LEMMA OneReport ==
  ASSUME reports \in Seq(Outcomes), Len(reports) = 0, NEW status \in Outcomes, Rm!Report(status)
  PROVE reports' \in Seq(Outcomes) /\ Len(reports') = 1 /\ Len(reports') # 0
BY AppendProperties DEF Rm!Report

LEMMA TraceInit == Rm!Init => TraceInv
<1> SUFFICES ASSUME Rm!Init PROVE TraceInv
  OBVIOUS
<1> USE DEF Rm!Init, Rm!None, Over, Winning, Asked, Rm!Threads
<1>1. TraceTypes
  BY EmptySeq DEF TraceTypes
<1>2. OneWinner
  <2>1. Len(reports) = 0
    BY EmptySeq DEF Rm!Init
  <2>2. \A t \in Rm!Threads : call[t] = "none"
    OBVIOUS
  <2> QED
    BY <2>1, <2>2 DEF OneWinner
<1>3. DriverAlone
  BY DEF DriverAlone
<1>4. Unraced
  BY DEF Unraced
<1> QED
  BY <1>1, <1>2, <1>3, <1>4 DEF TraceInv

LEMMA TraceStep ==
  ASSUME Driver \notin Users, TraceInv, [Rm!Next]_Rm!vars
  PROVE TraceInv'
<1> USE DEF TraceInv, TraceTypes, OneWinner, DriverAlone, Unraced, Over, Winning, Asked, Outcomes,
            Rm!Threads, Rm!None, Rm!Goto, Rm!Enter, Rm!After, Rm!Report, Rm!QueryStatus
<1>1. ASSUME NEW ok \in BOOLEAN, Rm!Initialize(ok) PROVE TraceInv'
  BY <1>1 DEF Rm!Initialize
<1>2. CASE Rm!HandleDriverState
  BY <1>2 DEF Rm!HandleDriverState
<1>3. ASSUME NEW t \in Rm!Threads, Rm!UserRequestDump(t) PROVE TraceInv'
  <2>1. TraceTypes'
    BY <1>3 DEF Rm!UserRequestDump
  <2>2. OneWinner'
    <3>1. trace # "off" \/ call' = call
      BY <1>3 DEF Rm!UserRequestDump
    <3>2. \A u \in Rm!Threads : call'[u] = call[u] \/ (call'[u] = "end" /\ trace # "off")
      BY <1>3, <3>1 DEF Rm!UserRequestDump
    <3>3. UNCHANGED <<trace, state, reports>>
      BY <1>3 DEF Rm!UserRequestDump
    <3> QED
      BY <3>2, <3>3
  <2>3. DriverAlone'
    BY <1>3 DEF Rm!UserRequestDump
  <2>4. Unraced'
    <3>1. CASE state = "Capturing"
      <4>1. /\ call[t] = "none" /\ call' = [call EXCEPT ![t] = "end"] /\ t # Driver /\ ~left
            /\ UNCHANGED <<trace, state, postInit, reports, left>>
            /\ raced' = (raced \/ \E o \in Rm!Threads : call[o] # "none")
        BY <1>3, <3>1 DEF Rm!UserRequestDump
      <4>2. ~raced' => \A o \in Rm!Threads : call[o] = "none"
        BY <4>1
      <4>3. ~raced' => \A o \in Rm!Threads : call'[o] # "none" => o = t
        BY <4>1, <4>2
      <4>4. ~raced' => ~raced
        BY <4>1
      <4> QED
        BY <4>1, <4>2, <4>3, <4>4
    <3>2. CASE state # "Capturing"
      <4>1. UNCHANGED <<trace, state, postInit, reports, left, call, raced>>
        BY <1>3, <3>2 DEF Rm!UserRequestDump
      <4> QED
        BY <4>1
    <3> QED
      BY <3>1, <3>2
  <2> QED
    BY <2>1, <2>2, <2>3, <2>4 DEF TraceInv
<1>4. ASSUME NEW t \in Rm!Threads, Rm!RequestAbortTrace(t) PROVE TraceInv'
  BY <1>4 DEF Rm!RequestAbortTrace
<1>5. ASSUME NEW t \in Rm!Threads, Rm!EndTracing(t) PROVE TraceInv'
  <2>5. call[t] \in Asked /\ call' = [call EXCEPT ![t] = IF trace = "running" THEN Rm!Succeeded[call[t]] ELSE Rm!Failed[call[t]]]
    BY <1>5 DEF Rm!EndTracing
  <2>8. /\ Rm!Succeeded["end"] = "ended" /\ Rm!Failed["end"] = "end failed"
        /\ Rm!Succeeded["abort"] = "aborted" /\ Rm!Failed["abort"] = "abort failed"
        /\ Rm!Succeeded["discard"] = "discarded" /\ Rm!Failed["discard"] = "discard failed"
    BY DEF Rm!Succeeded, Rm!Failed
  <2>6. trace' = IF trace = "running" THEN "ended" ELSE trace
    BY <1>5 DEF Rm!EndTracing
  <2>7. UNCHANGED <<state, postInit, reports, left, raced>>
    BY <1>5 DEF Rm!EndTracing
  <2>9. /\ \A u \in Rm!Threads : u # t => call'[u] = call[u]
        /\ \/ trace = "running" /\ call'[t] \in {"ended", "aborted", "discarded"}
           \/ trace # "running" /\ call'[t] \in {"end failed", "abort failed", "discard failed"}
    <3>1. call'[t] = IF trace = "running" THEN Rm!Succeeded[call[t]] ELSE Rm!Failed[call[t]]
      BY <2>5
    <3> QED
      BY <2>5, <2>8, <3>1
  <2>1. TraceTypes'
    <3>1. call' \in [Rm!Threads -> {"none", "ask", "leave"} \cup Asked \cup Over]
      BY <2>5, <2>9
    <3> QED
      BY <2>6, <2>7, <3>1
  <2>2. OneWinner'
    <3>1. CASE trace = "running"
      BY <2>5, <2>6, <2>7, <2>9, <3>1
    <3>2. CASE trace # "running"
      <4>1. call'[t] \notin Winning /\ call'[t] # "none" /\ call[t] # "none"
        BY <2>5, <2>9, <3>2
      <4>2. trace' = trace /\ trace \in {"ended", "cleared"}
        BY <2>5, <2>6, <3>2
      <4> QED
        BY <2>7, <2>9, <4>1, <4>2
    <3> QED
      BY <3>1, <3>2
  <2>3. DriverAlone'
    BY <2>5, <2>6, <2>7, <2>8
  <2>4. Unraced'
    <3>1. CASE trace = "running"
      BY <2>5, <2>6, <2>7, <2>9, <3>1
    <3>2. CASE trace # "running"
      <4>1. call'[t] \notin Winning /\ call'[t] # "none" /\ call[t] # "none" /\ call'[t] # "dump" /\ call'[t] # "leave"
        BY <2>5, <2>9, <3>2
      <4>2. trace' = trace /\ trace \in {"ended", "cleared"} /\ call[t] \notin Winning
        BY <2>5, <2>6, <3>2
      <4>3. ~raced => \A o, u \in Rm!Threads : call'[o] # "none" /\ call'[u] # "none" => o = u
        <5>1. \A o \in Rm!Threads : call'[o] # "none" => call[o] # "none"
          BY <2>9, <4>1
        <5>2. ~raced => \A o, u \in Rm!Threads : call[o] # "none" /\ call[u] # "none" => o = u
          OBVIOUS
        <5> QED
          BY <5>1, <5>2
      <4>4. ~raced => \A o \in Rm!Threads : call'[o] = "dump" => state = "Done"
        BY <2>9, <4>1
      <4>5. ~raced => Len(reports) # 0 \/ (left /\ ~postInit) \/ \E o \in Rm!Threads : call'[o] \in Winning
        BY <2>9, <4>2
      <4> QED
        BY <2>7, <4>2, <4>3, <4>4, <4>5
    <3> QED
      BY <3>1, <3>2
  <2> QED
    BY <2>1, <2>2, <2>3, <2>4 DEF TraceInv
<1>6. ASSUME NEW t \in Rm!Threads, Rm!Ended(t) PROVE TraceInv'
  <2>1. UNCHANGED <<trace, postInit, reports, left, raced>>
    BY <1>6 DEF Rm!Ended
  <2>2. CASE call[t] = "ended"
    <3>1. state' = "Done" /\ call' = [call EXCEPT ![t] = "dump"]
      BY <1>6, <2>2 DEF Rm!Ended
    <3>2. TraceTypes' /\ OneWinner'
      BY <2>1, <2>2, <3>1
    <3>3. DriverAlone' /\ Unraced'
      BY <2>1, <2>2, <3>1
    <3> QED
      BY <3>2, <3>3 DEF TraceInv
  <2>3. CASE call[t] = "end failed"
    <3>1. state' = "Error" /\ call' = [call EXCEPT ![t] = IF t = Driver THEN "leave" ELSE "none"]
      BY <1>6, <2>3 DEF Rm!Ended
    <3>2. TraceTypes' /\ OneWinner'
      BY <2>1, <2>3, <3>1
    <3>3. DriverAlone' /\ Unraced'
      BY <2>1, <2>3, <3>1
    <3> QED
      BY <3>2, <3>3 DEF TraceInv
  <2> QED
    BY <1>6, <2>2, <2>3 DEF Rm!Ended
<1>7. ASSUME NEW t \in Rm!Threads, Rm!BeginDump(t) PROVE TraceInv'
  BY <1>7 DEF Rm!BeginDump
<1>8. ASSUME NEW t \in Rm!Threads, Rm!BeginWriting(t) PROVE TraceInv'
  BY <1>8 DEF Rm!BeginWriting
<1>9. ASSUME NEW t \in Rm!Threads, Rm!FinishDump(t) PROVE TraceInv'
  BY <1>9 DEF Rm!FinishDump
<1>10. ASSUME NEW t \in Rm!Threads, Rm!Aborted(t) PROVE TraceInv'
  <2>1. CASE call[t] = "aborted"
    <3>1. Len(reports) = 0 /\ trace = "ended"
      BY <2>1
    <3>2. Rm!Report("Aborted") /\ state' = "Done" /\ call' = [call EXCEPT ![t] = "none"]
          /\ UNCHANGED <<trace, postInit, left, raced>>
      BY <1>10, <2>1, <3>1 DEF Rm!Aborted
    <3>3. reports' \in Seq(Outcomes) /\ Len(reports') = 1 /\ Len(reports') # 0
      BY <3>1, <3>2, OneReport
    <3> HIDE DEF Rm!Report
    <3>4. TraceTypes'
      BY <3>1, <3>2, <3>3
    <3>8. \A u \in Rm!Threads : call'[u] \notin Winning /\ call'[u] # "none" => call'[u] = call[u]
      BY <2>1, <3>2
    <3>9. \A u \in Rm!Threads : call'[u] \notin Winning
      BY <2>1, <3>2
    <3>5. OneWinner'
      BY <3>1, <3>2, <3>3, <3>8, <3>9
    <3>6. DriverAlone'
      BY <2>1, <3>1, <3>2
    <3>7. Unraced'
      <4>1. ~raced => \A u \in Rm!Threads : call'[u] = "none"
        BY <2>1, <3>2
      <4>2. Len(reports') # 0
        BY <3>3
      <4>3. ~raced => call'[Driver] = "none"
        BY <4>1
      <4> QED
        BY <3>2, <4>1, <4>2, <4>3
    <3> QED
      BY <3>4, <3>5, <3>6, <3>7 DEF TraceInv
  <2>2. CASE call[t] = "abort failed"
    BY <1>10, <2>2 DEF Rm!Aborted
  <2> QED
    BY <1>10, <2>1, <2>2 DEF Rm!Aborted
<1>11. ASSUME NEW t \in Rm!Threads, NEW o \in {"Completed", "no chunks", "Failed"}, Rm!TransferTraceData(t, o) PROVE TraceInv'
  <2>5. PICK status \in Outcomes : Rm!Report(status)
    BY <1>11 DEF Rm!TransferTraceData
  <2>6. /\ call[t] = "writing" /\ call' = [call EXCEPT ![t] = "written"]
        /\ UNCHANGED <<state, postInit, left, raced>>
        /\ trace' = trace \/ trace' = "cleared"
    BY <1>11 DEF Rm!TransferTraceData
  <2>7. Len(reports) = 0 /\ trace = "ended"
    BY <2>6
  <2>8. reports' \in Seq(Outcomes) /\ Len(reports') = 1 /\ Len(reports') # 0
    BY <2>5, <2>7, OneReport
  <2> HIDE DEF Rm!Report
  <2>1. TraceTypes'
    BY <2>6, <2>7, <2>8
  <2>2. OneWinner'
    <3>1. \A u \in Rm!Threads : call'[u] \notin Winning /\ (u # t => call'[u] = call[u]) /\ (call'[u] # "none" => call[u] # "none")
      BY <2>6
    <3>2. trace' \in {"ended", "cleared"}
      BY <2>6, <2>7
    <3> QED
      BY <2>8, <3>1, <3>2
  <2>3. DriverAlone'
    BY <2>6, <2>7, <2>8
  <2>4. Unraced'
    <3>1. ~raced => \A u \in Rm!Threads : u # t => call[u] = "none" /\ call'[u] = "none"
      BY <2>6
    <3>2. call'[t] = "written" /\ trace' \in {"ended", "cleared"}
      BY <2>6, <2>7
    <3>3. Len(reports') # 0
      BY <2>8
    <3>4. ~raced /\ call'[Driver] = "leave" => Driver # t /\ FALSE
      BY <2>6, <3>1, <3>2
    <3> QED
      BY <2>6, <3>1, <3>2, <3>3, <3>4
  <2> QED
    BY <2>1, <2>2, <2>3, <2>4 DEF TraceInv
<1>12. CASE Rm!Disconnect
  BY <1>12 DEF Rm!Disconnect
<1>13. CASE Rm!DisconnectDump
  BY <1>13 DEF Rm!DisconnectDump
<1>14. CASE Rm!Leave
  <2>5. Driver \in Rm!Threads
    OBVIOUS
  <2>6. /\ call[Driver] = "leave" /\ UNCHANGED <<trace, state, postInit, reports, raced>>
        /\ \/ postInit /\ call' = [call EXCEPT ![Driver] = "none"] /\ left' = TRUE
           \/ ~postInit /\ call' = [call EXCEPT ![Driver] = "discard"] /\ left' = FALSE
    BY <1>14, <2>5 DEF Rm!Leave
  <2>1. TraceTypes'
    BY <2>5, <2>6
  <2>2. OneWinner'
    <3>1. \A u \in Rm!Threads : call'[u] = call[u] \/ (call'[u] \in {"none", "discard"} /\ trace # "off")
      BY <2>5, <2>6
    <3> QED
      BY <2>6, <3>1
  <2>3. DriverAlone'
    <3>1. Driver \notin Users /\ \A u \in Users : u \in Rm!Threads /\ call'[u] = call[u]
      BY <2>5, <2>6
    <3>2. call'[Driver] = "none" \/ (call'[Driver] = "discard" /\ ~postInit' /\ ~left')
      BY <2>5, <2>6
    <3> QED
      BY <2>5, <2>6, <3>1, <3>2
  <2>4. Unraced'
    <3>1. ~raced => \A u \in Rm!Threads : u # Driver => call[u] = "none" /\ call'[u] = "none"
      BY <2>5, <2>6
    <3>2. \A u \in Rm!Threads : call[u] \notin Winning \/ raced
      BY <2>6, <3>1
    <3>3. call'[Driver] \in {"none", "discard"} /\ trace # "off" /\ (left' <=> postInit)
      BY <2>5, <2>6
    <3>4. postInit /\ ~raced => trace \in {"ended", "cleared"} /\ Len(reports) # 0
      BY <2>5, <2>6, <3>2, <3>3
    <3>5. CASE postInit
      BY <2>6, <3>1, <3>3, <3>4, <3>5
    <3>6. CASE ~postInit
      BY <2>5, <2>6, <3>1, <3>2, <3>3, <3>6
    <3> QED
      BY <3>5, <3>6
  <2> QED
    BY <2>1, <2>2, <2>3, <2>4 DEF TraceInv
<1>15. CASE Rm!Discarded
  BY <1>15 DEF Rm!Discarded
<1>16. CASE UNCHANGED Rm!vars
  BY <1>16 DEF Rm!vars
<1> HIDE DEF TraceInv, TraceTypes, OneWinner, DriverAlone, Unraced, Rm!Threads
<1> QED
  BY <1>1, <1>2, <1>3, <1>4, <1>5, <1>6, <1>7, <1>8, <1>9, <1>10, <1>11, <1>12, <1>13, <1>14, <1>15,
     <1>16
  DEF Rm!Next

(* However dumps, aborts and the end of the application fall together, a trace *)
(* has one outcome, and one nobody interfered with is reported                 *)
(* (RmvClient, RequestDump, RequestAbortTrace, Disconnect).                    *)
THEOREM TraceReportedOnce ==
  ASSUME Driver \notin Users
  PROVE Rm!Spec => []ReportedOnce
<1>1. TraceInv => ReportedOnce
  <2> SUFFICES ASSUME TraceInv PROVE Rm!ReportedOnce
    BY DEF ReportedOnce
  <2>1. Len(reports) \in Nat
    BY LenProperties DEF TraceInv, TraceTypes
  <2> QED
    BY <2>1 DEF TraceInv, OneWinner, Unraced, Rm!ReportedOnce
<1>2. TraceInv /\ [Rm!Next]_Rm!vars => TraceInv'
  BY TraceStep
<1> QED
  BY <1>1, <1>2, TraceInit, PTL DEF Rm!Spec

(* ----- RgpLegacyClient: aborts that were asked for. -----                  *)

Beginning == {Rg!None} \cup [at : {"prepare", "join", "armed", "look", "set"}, auto : BOOLEAN]
Taking == {"executing", "capturing", "writing"}
Captures == [at : Taking \cup {"starting", "processing", "deriving", "ending", "finished"}, auto : BOOLEAN]

(* Since aborted_ is reset at the start of the execution and no capture starts *)
(* before the one before it ended, a capture that finds it set was aborted     *)
(* itself. The source resets its flag likewise as it begins to derive.         *)
AbortInv ==
  /\ user \in Beginning /\ timer \in Beginning
  /\ capture \in {Rg!None} \cup Captures
  /\ aborted \in BOOLEAN /\ asked \in BOOLEAN /\ abortSpm \in BOOLEAN /\ askedSpm \in BOOLEAN
  /\ capture.at \in Taking /\ aborted => asked
  /\ capture.at = "deriving" /\ abortSpm => askedSpm
  /\ Rg!AbortedWasAsked

LEMMA CaptureMoves ==
  ASSUME capture \in {Rg!None} \cup Captures, capture.at # "none",
         NEW place \in Taking \cup {"starting", "processing", "deriving", "ending", "finished"}, Rg!CaptureGoto(place)
  PROVE capture' \in Captures /\ capture'.at = place
BY DEF Captures, Rg!None, Rg!CaptureGoto

(* A begin after its join: a new capture, or none.                           *)
LEMMA CaptureStarts ==
  ASSUME AbortInv, NEW self \in Beginning, NEW gpu \in BOOLEAN, Rg!StartCapture(self, gpu)
  PROVE /\ \/ capture' \in Captures /\ capture'.at = "starting" /\ asked' = FALSE
           \/ capture' = capture /\ asked' = asked
        /\ UNCHANGED <<aborted, abortSpm, askedSpm>>
        /\ Rg!AbortedWasAsked'
<1> USE DEF AbortInv, Beginning, Captures, Rg!None, Rg!Alive, Rg!StartCapture, Rg!processing
<1>1. CASE gpu
  BY <1>1 DEF Rg!AbortedWasAsked
<1>2. CASE ~gpu
  BY <1>2 DEF Rg!AbortedWasAsked, Rg!Report
<1> QED
  BY <1>1, <1>2

(* One more report, that was asked for or is the timer's.                    *)
LEMMA ReportAdded ==
  ASSUME Rg!AbortedWasAsked, NEW by, NEW status, NEW wasAsked,
         outcomes' = outcomes \cup {[by |-> by, status |-> status, asked |-> wasAsked]},
         status = "Aborted" => wasAsked \/ by = "timer"
  PROVE  Rg!AbortedWasAsked'
<1> SUFFICES ASSUME NEW r \in outcomes', r.status = "Aborted" PROVE r.asked \/ r.by = "timer"
  BY DEF Rg!AbortedWasAsked
<1>2. CASE r \in outcomes
  BY <1>2 DEF Rg!AbortedWasAsked
<1>3. CASE r = [by |-> by, status |-> status, asked |-> wasAsked]
  BY <1>3
<1> QED
  BY <1>2, <1>3

LEMMA AbortInit == Rg!Init => AbortInv
BY DEF Rg!Init, AbortInv, Beginning, Taking, Rg!None, Rg!AbortedWasAsked

(* The driver is done with a capture.                                        *)
CaptureSays(s) ==
  /\ outcomes' = outcomes \cup {[by |-> "capture", status |-> s, asked |-> asked]}
  /\ s = "Aborted" => aborted

LEMMA CaptureExecuted ==
  ASSUME AbortInv, NEW o \in {"written", "spm", "incomplete", "failed"}, Rg!Executed(o)
  PROVE /\ UNCHANGED <<user, timer, aborted, asked, abortSpm>> /\ capture.at \in Taking
        /\ \E s : CaptureSays(s)
        /\ capture' \in Captures /\ capture'.at \in {"processing", "ending"} /\ askedSpm' \in BOOLEAN
<1>1. UNCHANGED <<user, timer, aborted, asked, abortSpm>> /\ capture.at \in Taking
  BY DEF Rg!Executed, Taking, Rg!Report, Rg!StatusOf
<1>2. \E s : CaptureSays(s)
  <2>1. CASE o = "spm"
    BY <2>1 DEF Rg!Executed, Rg!StatusOf, Rg!Report, CaptureSays
  <2>2. CASE o = "written"
    BY <2>2 DEF Rg!Executed, Rg!StatusOf, Rg!Report, CaptureSays
  <2>3. CASE o = "failed" /\ aborted
    BY <2>3 DEF Rg!Executed, Rg!StatusOf, Rg!Report, CaptureSays
  <2>4. CASE o = "incomplete" \/ (o = "failed" /\ ~aborted)
    BY <2>4 DEF Rg!Executed, Rg!StatusOf, Rg!Report, CaptureSays
  <2> QED
    BY <2>1, <2>2, <2>3, <2>4
<1>3. CASE o = "spm"
  <2>1. Rg!CaptureGoto("processing") /\ askedSpm' = FALSE
    BY <1>3 DEF Rg!Executed, Rg!Report
  <2> QED
    BY <1>1, <1>2, <2>1, CaptureMoves DEF AbortInv, Taking
<1>4. CASE o # "spm"
  <2>1. Rg!CaptureGoto("ending") /\ askedSpm' = askedSpm
    BY <1>4 DEF Rg!Executed, Rg!Report
  <2> QED
    BY <1>1, <1>2, <2>1, CaptureMoves DEF AbortInv, Taking
<1> QED
  BY <1>3, <1>4

LEMMA AbortStep == AbortInv /\ [Rg!Next]_Rg!vars => AbortInv'
<1> SUFFICES ASSUME AbortInv, [Rg!Next]_Rg!vars PROVE AbortInv'
  OBVIOUS
<1> USE DEF AbortInv, Beginning, Taking, Captures, Rg!None, Rg!AbortedWasAsked, Rg!Report, Rg!CaptureGoto, Rg!processing
<1>1. CASE Rg!UserBegin
  BY <1>1 DEF Rg!UserBegin
<1>2. CASE Rg!UserStarts
  <2>1. PICK gpu \in BOOLEAN : Rg!StartCapture(user, gpu)
    BY <1>2 DEF Rg!UserStarts
  <2>2. /\ \/ capture' \in Captures /\ capture'.at = "starting" /\ asked' = FALSE
           \/ capture' = capture /\ asked' = asked
        /\ UNCHANGED <<aborted, abortSpm, askedSpm>> /\ Rg!AbortedWasAsked'
    BY <2>1, CaptureStarts
  <2>3. user' \in Beginning /\ timer' \in Beginning
    BY <1>2 DEF Rg!UserStarts
  <2>4. /\ capture' \in {Rg!None} \cup Captures /\ asked' \in BOOLEAN
        /\ aborted' \in BOOLEAN /\ abortSpm' \in BOOLEAN /\ askedSpm' \in BOOLEAN
    BY <2>2
  <2>5. /\ capture'.at \in Taking /\ aborted' => asked'
        /\ capture'.at = "deriving" /\ abortSpm' => askedSpm'
    BY <2>2
  <2> QED
    BY <2>2, <2>3, <2>4, <2>5
<1>3. CASE Rg!RunTimerCapture
  BY <1>3 DEF Rg!RunTimerCapture
<1>4. CASE Rg!TimerFires
  BY <1>4 DEF Rg!TimerFires
<1>5. CASE Rg!TimerStarts
  <2>1. PICK gpu \in BOOLEAN : Rg!StartCapture(timer, gpu)
    BY <1>5 DEF Rg!TimerStarts
  <2>2. /\ \/ capture' \in Captures /\ capture'.at = "starting" /\ asked' = FALSE
           \/ capture' = capture /\ asked' = asked
        /\ UNCHANGED <<aborted, abortSpm, askedSpm>> /\ Rg!AbortedWasAsked'
    BY <2>1, CaptureStarts
  <2>3. user' \in Beginning /\ timer' \in Beginning
    BY <1>5 DEF Rg!TimerStarts
  <2>4. /\ capture' \in {Rg!None} \cup Captures /\ asked' \in BOOLEAN
        /\ aborted' \in BOOLEAN /\ abortSpm' \in BOOLEAN /\ askedSpm' \in BOOLEAN
    BY <2>2
  <2>5. /\ capture'.at \in Taking /\ aborted' => asked'
        /\ capture'.at = "deriving" /\ abortSpm' => askedSpm'
    BY <2>2
  <2> QED
    BY <2>2, <2>3, <2>4, <2>5
<1>6. CASE Rg!BeginExecute
  <2>1. capture' \in Captures /\ capture'.at = "executing" /\ aborted' = FALSE
        /\ UNCHANGED <<user, timer, asked, abortSpm, askedSpm, outcomes>>
    BY <1>6, CaptureMoves DEF Rg!BeginExecute
  <2> QED
    BY <2>1
<1>7. CASE Rg!OnBeginTrace
  BY <1>7 DEF Rg!OnBeginTrace
<1>8. CASE Rg!OnWriting
  BY <1>8 DEF Rg!OnWriting
<1>9. ASSUME NEW o \in {"written", "spm", "incomplete", "failed"}, Rg!Executed(o) PROVE AbortInv'
  <2>1. UNCHANGED <<user, timer, aborted, asked, abortSpm>> /\ capture.at \in Taking
    BY <1>9, CaptureExecuted
  <2>2. capture' \in Captures /\ capture'.at \in {"processing", "ending"} /\ askedSpm' \in BOOLEAN
    BY <1>9, CaptureExecuted
  <2>3. PICK s : CaptureSays(s)
    BY <1>9, CaptureExecuted
  <2>4. s = "Aborted" => asked
    BY <2>1, <2>3 DEF CaptureSays
  <2>5. Rg!AbortedWasAsked'
    BY <2>3, <2>4, ReportAdded DEF CaptureSays
  <2> QED
    BY <2>1, <2>2, <2>5
<1>10. ASSUME NEW derived \in BOOLEAN, Rg!SpmProcessed(derived) PROVE AbortInv'
  <2>1. /\ capture.at = "deriving"
        /\ UNCHANGED <<user, timer, aborted, asked, abortSpm, askedSpm>>
    BY <1>10 DEF Rg!SpmProcessed
  <2>2. capture' \in Captures /\ capture'.at = "ending"
    BY <1>10, <2>1, CaptureMoves DEF Rg!SpmProcessed
  <2>3. PICK status : /\ outcomes' = outcomes \cup {[by |-> "processing", status |-> status, asked |-> askedSpm]}
                      /\ status = "Aborted" => abortSpm
    <3>1. CASE ~derived /\ abortSpm
      BY <1>10, <3>1 DEF Rg!SpmProcessed
    <3>2. CASE derived
      BY <1>10, <3>2 DEF Rg!SpmProcessed
    <3>3. CASE ~derived /\ ~abortSpm
      BY <1>10, <3>3 DEF Rg!SpmProcessed
    <3> QED
      BY <3>1, <3>2, <3>3
  <2>4. Rg!AbortedWasAsked'
    <3>1. status = "Aborted" => askedSpm
      BY <2>1, <2>3
    <3> QED
      BY <2>3, <3>1, ReportAdded
  <2> QED
    BY <2>1, <2>2, <2>4
<1>11. CASE Rg!FinalizeTrace
  BY <1>11 DEF Rg!FinalizeTrace
<1>12. CASE Rg!RequestAbortTrace
  BY <1>12 DEF Rg!RequestAbortTrace
<1>13. CASE Rg!AbortLooks
  BY <1>13 DEF Rg!AbortLooks
<1>14. CASE Rg!AbortSets
  BY <1>14 DEF Rg!AbortSets
<1>15. CASE Rg!OnActiveGpuUpdate
  BY <1>15 DEF Rg!OnActiveGpuUpdate
<1>16. CASE Rg!Disconnect
  BY <1>16 DEF Rg!Disconnect
<1>17. CASE Rg!Disconnected
  BY <1>17 DEF Rg!Disconnected
<1>18. CASE UNCHANGED Rg!vars
  BY <1>18 DEF Rg!vars
<1>19. CASE Rg!UserPrepares
  BY <1>19 DEF Rg!UserPrepares
<1>24. CASE Rg!UserPrepared
  BY <1>24 DEF Rg!UserPrepared
<1>20. CASE Rg!TimerStarted
  BY <1>20 DEF Rg!TimerStarted
<1>21. CASE Rg!SpmBegins
  <2>1. capture' \in Captures /\ abortSpm' = FALSE /\ UNCHANGED <<user, timer, aborted, asked, askedSpm, outcomes>>
        /\ capture'.at = "deriving"
    BY <1>21, CaptureMoves DEF Rg!SpmBegins
  <2> QED
    BY <2>1
<1>22. CASE Rg!RequestAbortProcessing
  BY <1>22 DEF Rg!RequestAbortProcessing
<1>25. CASE Rg!OtherSpmBegins
  <2>1. UNCHANGED <<user, timer, capture, aborted, asked, askedSpm, outcomes>> /\ abortSpm' = FALSE
    BY <1>25 DEF Rg!OtherSpmBegins
  <2>2. Rg!AbortedWasAsked'
    BY <2>1
  <2>3. capture' \in {Rg!None} \cup Captures /\ user' \in Beginning /\ timer' \in Beginning
    BY <2>1, Zenon
  <2> QED
    BY <2>1, <2>2, <2>3
<1>23. CASE Rg!ClientDestroyed
  <2>1. Rg!AbortedWasAsked'
    <3>1. CASE timer.at = "armed"
      BY <1>23, <3>1, ReportAdded DEF Rg!ClientDestroyed
    <3>2. CASE timer.at # "armed"
      BY <1>23, <3>2 DEF Rg!ClientDestroyed
    <3> QED
      BY <3>1, <3>2
  <2> QED
    BY <1>23, <2>1 DEF Rg!ClientDestroyed
<1> HIDE DEF AbortInv
<1> QED
  BY <1>1, <1>2, <1>3, <1>4, <1>5, <1>6, <1>7, <1>8, <1>9, <1>10, <1>11, <1>12, <1>13, <1>14, <1>15,
     <1>16, <1>17, <1>18, <1>19, <1>20, <1>21, <1>22, <1>23, <1>24, <1>25
  DEF Rg!Next

(* A capture is reported as aborted only if an abort was asked for since it    *)
(* began, its processing only if that was since it was announced, whatever the   *)
(* threads of the user, the timer, the driver and other clients do meanwhile     *)
(* (RgpLegacyClient::RequestAbortTrace, ExecuteTrace, FinalizeTrace,            *)
(* RgpTraceSourceImpl::OnTraceCompletedWithSpm, RequestAbortProcessing).        *)
THEOREM AbortsWereAsked == Rg!Spec => []AbortedWasAsked
<1>1. AbortInv => AbortedWasAsked
  BY DEF AbortInv, AbortedWasAsked
<1> QED
  BY <1>1, AbortInit, AbortStep, PTL DEF Rg!Spec

(* ----- CrashAnalysis: a crash and its file. -----                          *)

Statuses == {"Completed", "Error"}

(* Nothing is in the file before the transfer; what HandleIoEnd then calls a    *)
(* success has written every chunk; and the report is made of both, once.      *)
CrashInv ==
  /\ driver \in {"none", "capturing", "dropped", "dump", "writing", "ending", "ended", "gone"}
  /\ process \in BOOLEAN /\ ubertrace \in BOOLEAN /\ collected \in BOOLEAN
  /\ transfer \in BOOLEAN /\ crash \in BOOLEAN
  /\ completed \in Seq(Statuses)
  /\ driver # "gone" => Len(completed) = 0
  /\ driver \in {"dump", "writing", "ending", "ended"} => crash
  /\ driver \in {"none", "capturing", "dump", "writing"} => chunks = {}
  /\ driver = "ending" /\ transfer => chunks = {"crash"}
  /\ driver \in {"none", "capturing", "dump", "writing", "ending"} => added = "unset"
  /\ driver = "ended" /\ transfer /\ added = "Success" => chunks = {"crash"} \cup Cr!Range(Cr!Additional)
  /\ Cr!CrashHasItsFile

LEMMA AdditionalChunks ==
  ASSUME NEW S, chunks = S
  PROVE S \cup {Cr!Additional[i] : i \in 1 .. Len(Cr!Additional)} = S \cup Cr!Range(Cr!Additional)
<1> DEFINE Panel == {"process", "extended", "code"}
<1>1. Cr!Additional \in Seq(Panel)
  <2> DEFINE first == IF process THEN <<"process">> ELSE <<>>
             last == IF ubertrace THEN <<"code">> ELSE <<>>
  <2>4. <<"process">> \in Seq(Panel) /\ <<"extended">> \in Seq(Panel) /\ <<"code">> \in Seq(Panel)
    BY DEF Panel
  <2>5. <<>> \in Seq(Panel)
    BY EmptySeq
  <2>1. first \in Seq(Panel) /\ last \in Seq(Panel)
    BY <2>4, <2>5
  <2>2. Cr!Additional = first \o <<"extended">> \o last
    BY DEF Cr!Additional
  <2> HIDE DEF first, last, Panel
  <2>3. first \o <<"extended">> \in Seq(Panel)
    BY <2>1, <2>4, ConcatProperties
  <2> QED
    BY <2>1, <2>2, <2>3, ConcatProperties
<1> HIDE DEF Panel
<1>2. DOMAIN Cr!Additional = 1 .. Len(Cr!Additional)
  BY <1>1
<1> QED
  BY <1>2 DEF Cr!Range

LEMMA CrashInit == Cr!Init => CrashInv
<1> SUFFICES ASSUME Cr!Init PROVE CrashInv
  OBVIOUS
<1>1. completed \in Seq(Statuses) /\ Len(completed) = 0
  BY EmptySeq DEF Cr!Init
<1> QED
  BY <1>1 DEF Cr!Init, CrashInv, Cr!None, Cr!CrashHasItsFile

LEMMA CrashStep ==
  ASSUME IteratorsFail = FALSE, CrashInv, [Cr!Next]_Cr!vars
  PROVE CrashInv'
<1> USE DEF CrashInv, Cr!None
<1>1. ASSUME NEW ok \in BOOLEAN, Cr!Initialize(ok) PROVE CrashInv'
  BY <1>1 DEF Cr!Initialize, Cr!CrashHasItsFile, Cr!Additional
<1>2. ASSUME NEW ok \in BOOLEAN, Cr!HandleDriverState(ok) PROVE CrashInv'
  BY <1>2 DEF Cr!HandleDriverState, Cr!CrashHasItsFile, Cr!Additional
<1>3. ASSUME NEW ok \in BOOLEAN, Cr!HandleIoBegin(ok) PROVE CrashInv'
  BY <1>3 DEF Cr!HandleIoBegin, Cr!CrashHasItsFile, Cr!Additional
<1>4. ASSUME NEW ok \in BOOLEAN, Cr!HandleIoWrite(ok) PROVE CrashInv'
  BY <1>4 DEF Cr!HandleIoWrite, Cr!CrashHasItsFile, Cr!Additional
<1>5. ASSUME NEW crashed \in BOOLEAN, NEW got \in BOOLEAN, Cr!Disconnect(crashed, got) PROVE CrashInv'
  <2>2. DOMAIN completed = 1 .. 0
    BY <1>5, LenProperties DEF Cr!Disconnect
  <2>1. Cr!Range(completed) = {}
    BY <2>2 DEF Cr!Range
  <2> QED
    BY <1>5, <2>1 DEF Cr!Disconnect, Cr!CrashHasItsFile
<1>6. ASSUME NEW count \in 0 .. 3, Cr!HandleIoEnd(count) PROVE CrashInv'
  <2>1. /\ driver = "ending" /\ driver' = "ended" /\ added' \in Cr!Results(count)
        /\ chunks' = chunks \cup {Cr!Additional[i] : i \in 1 .. count}
        /\ UNCHANGED <<process, ubertrace, collected, transfer, crash, completed>>
    BY <1>6 DEF Cr!HandleIoEnd
  <2>2. added' = "Success" => count = Len(Cr!Additional)
    BY <2>1 DEF Cr!Results
  <2>3. added' = "Success" => chunks' = chunks \cup Cr!Range(Cr!Additional)
    BY <2>1, <2>2, AdditionalChunks
  <2>4. Cr!Range(Cr!Additional)' = Cr!Range(Cr!Additional)
    BY <2>1 DEF Cr!Additional
  <2> QED
    BY <2>1, <2>3, <2>4 DEF Cr!CrashHasItsFile
<1>7. CASE Cr!DumpCrash
  <2>1. PICK status \in Statuses : completed' = Append(completed, status) /\ (status = "Completed" => transfer /\ added = "Success")
    BY <1>7 DEF Cr!DumpCrash, Cr!Report, Statuses
  <2>2. /\ driver = "ended" /\ driver' = "gone"
        /\ UNCHANGED <<process, ubertrace, collected, transfer, crash, added, chunks>>
    BY <1>7 DEF Cr!DumpCrash, Cr!Report
  <2>3. completed' \in Seq(Statuses) /\ Len(completed') = 1 /\ completed'[1] = status
    BY <2>1, <2>2, AppendProperties
  <2>4. Cr!Range(completed') = {status}
    BY <2>3 DEF Cr!Range
  <2>5. Cr!Range(Cr!Additional)' = Cr!Range(Cr!Additional)
    BY <2>2 DEF Cr!Additional
  <2>6. Cr!CrashHasItsFile'
    BY <2>1, <2>2, <2>3, <2>4, <2>5 DEF Cr!CrashHasItsFile
  <2> QED
    BY <2>2, <2>3, <2>6
<1>8. CASE UNCHANGED <<process, ubertrace, collected, driver, transfer, crash, added, chunks, completed>>
  BY <1>8 DEF Cr!CrashHasItsFile, Cr!Additional
<1>9. ASSUME NEW w \in Cr!Workers, Cr!PerformProcessing(w) \/ Cr!GenerateSummaries(w) \/ Cr!FinishProcessing(w) PROVE CrashInv'
  BY <1>8, <1>9 DEF Cr!PerformProcessing, Cr!GenerateSummaries, Cr!FinishProcessing, Cr!dumpVars
<1>10. ASSUME NEW w \in Cr!Workers, NEW k \in Cr!Kinds,
             \/ Cr!RunProcess(w, k) \/ Cr!OnSummaryEvent(w, k)
             \/ \E made \in {"absent", "partial", "valid"} : Cr!DetermineResult(w, k, made)
       PROVE CrashInv'
  BY <1>8, <1>10 DEF Cr!RunProcess, Cr!OnSummaryEvent, Cr!DetermineResult, Cr!dumpVars
<1>11. CASE \/ Cr!OnTraceCompleted \/ Cr!TraceCompleted \/ Cr!OpenFile \/ Cr!RemovedFile
            \/ \E k \in Cr!Kinds : Cr!QueueSummaryGeneration(k)
  BY <1>8, <1>11 DEF Cr!OnTraceCompleted, Cr!TraceCompleted, Cr!OpenFile, Cr!RemovedFile, Cr!QueueSummaryGeneration,
                     Cr!dumpVars
<1>12. CASE UNCHANGED Cr!vars
  BY <1>8, <1>12 DEF Cr!vars, Cr!dumpVars
<1> HIDE DEF CrashInv
<1> QED
  BY <1>1, <1>2, <1>3, <1>4, <1>5, <1>6, <1>7, <1>9, <1>10, <1>11, <1>12 DEF Cr!Next

(* ----- CrashAnalysis: the summaries that are opened. -----                 *)

Inside == {"check", "txt", "running txt", "json", "running json", "post txt", "post json", "done"}
Jobs == [at : Inside \cup {"queued"}, kinds : SUBSET Cr!Kinds, manual : BOOLEAN, failed : BOOLEAN,
         paths : SUBSET Cr!Kinds]
Tellings == [at : {"tell"}, status : Statuses]

SummaryTypes ==
  /\ worker \in [Cr!Workers -> {Cr!Idle} \cup Jobs \cup Tellings]
  /\ queue \in Seq(Statuses)
  /\ wanted \subseteq Cr!Kinds
  /\ summary \in [Cr!Kinds -> {"absent", "partial", "valid"}]

(* One thread is inside work_mutex_. Only what the user asked for is opened,    *)
(* which is one summary; and from the end of its tool to what is told of it     *)
(* nobody else touches the file.                                             *)
OneInside == \A w \in Cr!Workers : worker[w].at \in Inside => working = w

Automatic(job) == job.at \in Inside \cup {"queued"} => ~job.manual

Manual(job) ==
  /\ job.at # "tell"
  /\ job.at \in Inside \cup {"queued"} => job.manual
  /\ \E k \in Cr!Kinds : job.at \in Inside \cup {"queued"} => job.kinds = {k}
  /\ job.at \in {"queued", "check", "txt", "json"} => job.paths = {}
  /\ job.at \in {"txt", "running txt"} => job.kinds = {"txt"}
  /\ job.at \in {"json", "running json"} => job.kinds = {"json"}
  /\ job.at \in Inside => job.paths \subseteq job.kinds

Whole(job, files) ==
  job.at \in {"post txt", "post json"} /\ ~job.failed => \A k \in job.paths : files[k] = "valid"

SummaryInv ==
  /\ SummaryTypes /\ OneInside
  /\ Automatic(worker["completion"])
  /\ Manual(worker["gui"]) /\ Whole(worker["gui"], summary)
  /\ Cr!OpenedIsValid

LEMMA WorkerMoves ==
  ASSUME SummaryTypes, NEW w \in Cr!Workers, NEW job \in {Cr!Idle} \cup Jobs \cup Tellings, Cr!Move(w, job)
  PROVE /\ worker' \in [Cr!Workers -> {Cr!Idle} \cup Jobs \cup Tellings]
        /\ worker'[w] = job
        /\ \A v \in Cr!Workers \ {w} : worker'[v] = worker[v]
BY DEF SummaryTypes, Cr!Move

LEMMA StatusTaken ==
  ASSUME queue \in Seq(Statuses), Len(queue) # 0
  PROVE Head(queue) \in Statuses /\ Tail(queue) \in Seq(Statuses)
<1>1. queue # <<>>
  BY EmptySeq
<1> QED
  BY <1>1, HeadTailProperties

LEMMA SummaryInit == Cr!Init => SummaryInv
<1> SUFFICES ASSUME Cr!Init PROVE SummaryInv
  OBVIOUS
<1> USE DEF Cr!Init, Cr!Idle, Cr!None, Cr!Workers, Inside, Cr!Kinds
<1>1. SummaryTypes
  BY EmptySeq DEF SummaryTypes
<1>2. \A w \in Cr!Workers : worker[w].at = "none"
  OBVIOUS
<1> QED
  BY <1>1, <1>2 DEF SummaryInv, OneInside, Automatic, Manual, Whole, Cr!OpenedIsValid

(* A step that leaves the summaries and those at work on them alone.          *)
LEMMA SummaryQuiet ==
  ASSUME SummaryInv, queue' \in Seq(Statuses), UNCHANGED <<worker, working, summary, opened, wanted>>
  PROVE SummaryInv'
BY DEF SummaryInv, SummaryTypes, OneInside, Cr!OpenedIsValid

(* A step of the completion thread: what the user has under way stays as it is, *)
(* unless the completion thread has the mutex, and then nothing is under way.   *)
LEMMA CompletionSteps ==
  ASSUME SummaryInv, NEW job \in {Cr!Idle} \cup Jobs \cup Tellings, Cr!Move("completion", job),
         queue' \in Seq(Statuses), UNCHANGED <<wanted, opened>>,
         summary' \in [Cr!Kinds -> {"absent", "partial", "valid"}],
         Automatic(job), job.at \in Inside => working' = "completion",
         working' = working \/ (working = "none" /\ working' = "completion") \/ working = "completion",
         summary' = summary \/ working = "completion"
  PROVE SummaryInv'
<1>1. "completion" \in Cr!Workers /\ "gui" \in Cr!Workers \ {"completion"}
  BY DEF Cr!Workers
<1>2. /\ worker' \in [Cr!Workers -> {Cr!Idle} \cup Jobs \cup Tellings]
      /\ worker'["completion"] = job /\ worker'["gui"] = worker["gui"]
  BY <1>1, WorkerMoves DEF SummaryInv
<1>3. working # "gui" => worker["gui"].at \notin Inside
  BY <1>1 DEF SummaryInv, OneInside
<1>4. OneInside'
  BY <1>1, <1>2, <1>3 DEF SummaryInv, OneInside, Cr!Workers
<1>5. Whole(worker["gui"], summary)'
  BY <1>2, <1>3 DEF SummaryInv, Whole, Inside
<1> QED
  BY <1>2, <1>4, <1>5 DEF SummaryInv, SummaryTypes, Cr!OpenedIsValid

(* A step of the user's thread.                                             *)
LEMMA GuiSteps ==
  ASSUME SummaryInv, NEW job \in {Cr!Idle} \cup Jobs \cup Tellings, Cr!Move("gui", job),
         UNCHANGED <<queue, wanted>>,
         summary' \in [Cr!Kinds -> {"absent", "partial", "valid"}],
         Manual(job), Whole(job, summary'), opened' \subseteq {"valid"},
         job.at \in Inside => working' = "gui",
         working' = working \/ (working = "none" /\ working' = "gui") \/ working = "gui"
  PROVE SummaryInv'
<1>1. "gui" \in Cr!Workers /\ "completion" \in Cr!Workers \ {"gui"}
  BY DEF Cr!Workers
<1>2. /\ worker' \in [Cr!Workers -> {Cr!Idle} \cup Jobs \cup Tellings]
      /\ worker'["gui"] = job /\ worker'["completion"] = worker["completion"]
  BY <1>1, WorkerMoves DEF SummaryInv
<1>3. working # "completion" => worker["completion"].at \notin Inside
  BY <1>1 DEF SummaryInv, OneInside
<1>4. OneInside'
  BY <1>1, <1>2, <1>3 DEF SummaryInv, OneInside, Cr!Workers
<1> QED
  BY <1>2, <1>4 DEF SummaryInv, SummaryTypes, Cr!OpenedIsValid

LEMMA AtWork ==
  ASSUME SummaryInv, NEW w \in Cr!Workers, worker[w].at \in Inside \cup {"queued"}
  PROVE worker[w] \in Jobs
<1>1. worker[w] \in {Cr!Idle} \cup Jobs \cup Tellings
  BY DEF SummaryInv, SummaryTypes
<1>2. Cr!Idle.at \notin Inside \cup {"queued"}
  BY DEF Cr!Idle, Cr!None, Inside
<1>3. \A t \in Tellings : t.at \notin Inside \cup {"queued"}
  BY DEF Tellings, Inside
<1> QED
  BY <1>1, <1>2, <1>3

LEMMA SummaryStep == SummaryInv /\ [Cr!Next]_Cr!vars => SummaryInv'
<1> SUFFICES ASSUME SummaryInv, [Cr!Next]_Cr!vars PROVE SummaryInv'
  OBVIOUS
<1>types. /\ summary \in [Cr!Kinds -> {"absent", "partial", "valid"}]
          /\ queue \in Seq(Statuses) /\ wanted \subseteq Cr!Kinds /\ opened \subseteq {"valid"}
  BY DEF SummaryInv, SummaryTypes, Cr!OpenedIsValid
<1>kinds. Cr!Kinds = {"txt", "json"} /\ Cr!Workers = {"completion", "gui"}
  BY DEF Cr!Kinds, Cr!Workers
<1>gui. Manual(worker["gui"]) /\ Whole(worker["gui"], summary) /\ Automatic(worker["completion"])
  BY DEF SummaryInv
<1>inside. \A w \in Cr!Workers : worker[w].at \in Inside => working = w
  BY DEF SummaryInv, OneInside
<1> USE DEF Cr!At, Cr!Step
<1>1. CASE UNCHANGED <<queue, worker, working, summary, opened, wanted>>
  BY <1>1, <1>types, SummaryQuiet
<1>2. ASSUME NEW ok \in BOOLEAN,
             Cr!Initialize(ok) \/ Cr!HandleDriverState(ok) \/ Cr!HandleIoBegin(ok) \/ Cr!HandleIoWrite(ok)
      PROVE SummaryInv'
  BY <1>1, <1>2 DEF Cr!Initialize, Cr!HandleDriverState, Cr!HandleIoBegin, Cr!HandleIoWrite, Cr!summaryVars
<1>3. ASSUME NEW crashed \in BOOLEAN, NEW got \in BOOLEAN, Cr!Disconnect(crashed, got) PROVE SummaryInv'
  BY <1>1, <1>3 DEF Cr!Disconnect, Cr!summaryVars
<1>4. ASSUME NEW count \in 0 .. 3, Cr!HandleIoEnd(count) PROVE SummaryInv'
  BY <1>1, <1>4 DEF Cr!HandleIoEnd, Cr!summaryVars
<1>5. CASE Cr!DumpCrash
  <2>1. PICK status \in Statuses : queue' = Append(queue, status)
    BY <1>5 DEF Cr!DumpCrash, Cr!Report, Statuses
  <2>2. queue' \in Seq(Statuses)
    BY <2>1, <1>types, AppendProperties
  <2>3. UNCHANGED <<worker, working, summary, opened, wanted>>
    BY <1>5 DEF Cr!DumpCrash, Cr!Report, Cr!summaryVars
  <2> QED
    BY <2>2, <2>3, SummaryQuiet
<1>6. CASE Cr!OnTraceCompleted
  <2>1. Head(queue) \in Statuses /\ queue' \in Seq(Statuses)
    BY <1>6, <1>types, HeadTailProperties DEF Cr!OnTraceCompleted
  <2>2. PICK job : /\ Cr!Move("completion", job)
                   /\ \/ job = Cr!Job(wanted, FALSE)
                      \/ job = [at |-> "tell", status |-> Head(queue)]
    BY <1>6 DEF Cr!OnTraceCompleted
  <2>3. job \in Jobs \cup Tellings /\ job.at \notin Inside /\ Automatic(job)
    <3>1. CASE job = Cr!Job(wanted, FALSE)
      <4>1. job \in Jobs /\ job.at = "queued" /\ job.manual = FALSE
        BY <3>1, <1>types DEF Cr!Job, Jobs
      <4> QED
        BY <4>1 DEF Inside, Automatic
    <3>2. CASE job = [at |-> "tell", status |-> Head(queue)]
      BY <2>1, <3>2 DEF Tellings, Inside, Automatic
    <3> QED
      BY <2>2, <3>1, <3>2
  <2>4. UNCHANGED <<working, summary, opened, wanted>>
    BY <1>6 DEF Cr!OnTraceCompleted, Cr!summaryVars
  <2> QED
    BY <2>1, <2>2, <2>3, <2>4, <1>types, CompletionSteps
<1>7. CASE Cr!TraceCompleted
  <2>1. Cr!Move("completion", Cr!Idle) /\ UNCHANGED <<queue, working, summary, opened, wanted>>
    BY <1>7 DEF Cr!TraceCompleted, Cr!summaryVars
  <2>2. Automatic(Cr!Idle) /\ Cr!Idle.at \notin Inside
    BY DEF Automatic, Cr!Idle, Cr!None, Inside
  <2> QED
    BY <2>1, <2>2, <1>types, CompletionSteps
<1>8. ASSUME NEW w \in Cr!Workers, Cr!PerformProcessing(w) PROVE SummaryInv'
  <2> DEFINE job == [worker[w] EXCEPT !.at = "check"]
  <2>1. /\ worker[w].at = "queued" /\ working = "none" /\ working' = w /\ Cr!Move(w, job)
        /\ UNCHANGED <<queue, summary, opened, wanted>>
    BY <1>8 DEF Cr!PerformProcessing, Cr!None
  <2>2. worker[w] \in Jobs
    BY <2>1, AtWork
  <2>3. /\ job \in Jobs /\ job.at = "check" /\ job.kinds = worker[w].kinds /\ job.manual = worker[w].manual
        /\ job.failed = worker[w].failed /\ job.paths = worker[w].paths
    BY <2>2 DEF Jobs, Inside
  <2> HIDE DEF job
  <2>4. CASE w = "completion"
    <3>1. Automatic(job)
      BY <2>1, <2>3, <2>4, <1>gui DEF Automatic
    <3> QED
      BY <2>1, <2>3, <2>4, <3>1, <1>types, CompletionSteps
  <2>5. CASE w = "gui"
    <3>1. Manual(job) /\ Whole(job, summary')
      BY <2>1, <2>3, <2>5, <1>gui, <1>kinds DEF Manual, Whole
    <3> QED
      BY <2>1, <2>3, <2>5, <3>1, <1>types, GuiSteps
  <2> QED
    BY <2>4, <2>5, <1>kinds
<1>9. ASSUME NEW w \in Cr!Workers, Cr!GenerateSummaries(w) PROVE SummaryInv'
  <2>1. worker[w].at = "check" /\ UNCHANGED <<queue, working, summary, opened, wanted>>
    BY <1>9 DEF Cr!GenerateSummaries, Cr!summaryVars
  <2>2. worker[w] \in Jobs /\ working = w
    BY <2>1, <1>inside, AtWork DEF Inside
  <2>3. PICK job \in Jobs :
          /\ Cr!Move(w, job) /\ job.kinds = worker[w].kinds /\ job.manual = worker[w].manual
          /\ job.paths = worker[w].paths
          /\ \/ job.at = "txt" /\ "txt" \in worker[w].kinds
             \/ job.at = "json" /\ "txt" \notin worker[w].kinds
             \/ job.at = "done"
    <3>1. CASE dump /\ analyser = "there"
      <4> DEFINE place == IF "txt" \in worker[w].kinds THEN "txt" ELSE "json"
                 next == [worker[w] EXCEPT !.at = place]
      <4>1. Cr!Move(w, next)
        BY <1>9, <3>1 DEF Cr!GenerateSummaries
      <4>2. place \in Inside
        BY DEF Inside
      <4>3. /\ next \in Jobs /\ next.at = place /\ next.paths = worker[w].paths
            /\ next.kinds = worker[w].kinds /\ next.manual = worker[w].manual
        BY <2>2, <4>2 DEF Jobs
      <4> QED
        BY <4>1, <4>3
    <3>2. CASE ~(dump /\ analyser = "there")
      <4> DEFINE next == [worker[w] EXCEPT !.at = "done", !.failed = TRUE]
      <4>1. Cr!Move(w, next)
        BY <1>9, <3>2 DEF Cr!GenerateSummaries
      <4>3. /\ next \in Jobs /\ next.at = "done" /\ next.paths = worker[w].paths
            /\ next.kinds = worker[w].kinds /\ next.manual = worker[w].manual
        BY <2>2 DEF Jobs, Inside
      <4> QED
        BY <4>1, <4>3
    <3> QED
      BY <3>1, <3>2
  <2>4. CASE w = "completion"
    <3>1. Automatic(job)
      BY <2>1, <2>3, <2>4, <1>gui DEF Automatic, Inside
    <3> QED
      BY <2>1, <2>2, <2>3, <2>4, <3>1, <1>types, CompletionSteps
  <2>5. CASE w = "gui"
    <3>1. Manual(job) /\ Whole(job, summary')
      BY <2>1, <2>3, <2>5, <1>gui, <1>kinds DEF Manual, Whole, Inside
    <3> QED
      BY <2>1, <2>2, <2>3, <2>5, <3>1, <1>types, GuiSteps
  <2> QED
    BY <2>4, <2>5, <1>kinds
<1>10. ASSUME NEW w \in Cr!Workers, NEW k \in Cr!Kinds, Cr!RunProcess(w, k) PROVE SummaryInv'
  <2> DEFINE job == [worker[w] EXCEPT !.at = Cr!Running[k], !.paths = @ \cup {k}]
  <2>1. /\ worker[w].at = k /\ Cr!Move(w, job) /\ UNCHANGED <<queue, working, opened, wanted>>
        /\ summary' = [summary EXCEPT ![k] = "partial"]
    BY <1>10 DEF Cr!RunProcess
  <2>2. worker[w] \in Jobs /\ working = w
    BY <2>1, <1>kinds, <1>inside, AtWork DEF Inside
  <2>3. /\ job \in Jobs /\ job.kinds = worker[w].kinds /\ job.manual = worker[w].manual
        /\ job.paths = worker[w].paths \cup {k}
        /\ \/ k = "txt" /\ job.at = "running txt"
           \/ k = "json" /\ job.at = "running json"
    <3>1. Cr!Running["txt"] = "running txt" /\ Cr!Running["json"] = "running json"
      BY DEF Cr!Running
    <3>2. Cr!Running[k] \in Inside /\ worker[w].paths \cup {k} \subseteq Cr!Kinds
      BY <2>2, <3>1, <1>kinds DEF Jobs, Inside
    <3>3. (k = "txt" /\ Cr!Running[k] = "running txt") \/ (k = "json" /\ Cr!Running[k] = "running json")
      <4>1. CASE k = "txt"
        BY <3>1, <4>1
      <4>2. CASE k = "json"
        BY <3>1, <4>2
      <4> QED
        BY <4>1, <4>2, <1>kinds
    <3> QED
      BY <2>2, <3>2, <3>3 DEF Jobs
  <2> HIDE DEF job
  <2>6. summary' \in [Cr!Kinds -> {"absent", "partial", "valid"}]
    BY <2>1, <1>types
  <2>4. CASE w = "completion"
    <3>1. Automatic(job)
      BY <2>1, <2>3, <2>4, <1>gui DEF Automatic, Inside
    <3> QED
      BY <2>1, <2>2, <2>3, <2>4, <2>6, <3>1, <1>types, CompletionSteps
  <2>5. CASE w = "gui"
    <3>1. Manual(job) /\ Whole(job, summary')
      BY <2>1, <2>3, <2>5, <1>gui, <1>kinds DEF Manual, Whole, Inside
    <3> QED
      BY <2>1, <2>2, <2>3, <2>5, <2>6, <3>1, <1>types, GuiSteps
  <2> QED
    BY <2>4, <2>5, <1>kinds
<1>11. ASSUME NEW w \in Cr!Workers, NEW k \in Cr!Kinds, NEW made \in {"absent", "partial", "valid"},
              Cr!DetermineResult(w, k, made)
       PROVE SummaryInv'
  <2> DEFINE job == [worker[w] EXCEPT !.failed = @ \/ made # "valid",
                                      !.at = IF k = "txt" /\ "json" \in worker[w].kinds THEN "json" ELSE "post txt"]
  <2>1. /\ worker[w].at = Cr!Running[k] /\ Cr!Move(w, job) /\ UNCHANGED <<queue, working, opened, wanted>>
        /\ summary' = [summary EXCEPT ![k] = made]
    BY <1>11 DEF Cr!DetermineResult
  <2>7. (k = "txt" /\ worker[w].at = "running txt") \/ (k = "json" /\ worker[w].at = "running json")
    <3>1. Cr!Running["txt"] = "running txt" /\ Cr!Running["json"] = "running json"
      BY DEF Cr!Running
    <3>2. CASE k = "txt"
      BY <2>1, <3>1, <3>2
    <3>3. CASE k = "json"
      BY <2>1, <3>1, <3>3
    <3> QED
      BY <3>2, <3>3, <1>kinds
  <2>2. worker[w] \in Jobs /\ working = w
    BY <2>7, <1>inside, AtWork DEF Inside
  <2>3. /\ job \in Jobs /\ job.kinds = worker[w].kinds /\ job.manual = worker[w].manual
        /\ job.paths = worker[w].paths
        /\ ~job.failed => made = "valid"
        /\ job.at = IF k = "txt" /\ "json" \in worker[w].kinds THEN "json" ELSE "post txt"
    BY <2>2 DEF Jobs, Inside
  <2> HIDE DEF job
  <2>6. summary' \in [Cr!Kinds -> {"absent", "partial", "valid"}] /\ summary'[k] = made
    BY <2>1, <1>types
  <2>4. CASE w = "completion"
    <3>1. Automatic(job)
      BY <2>7, <2>3, <2>4, <1>gui DEF Automatic, Inside
    <3> QED
      BY <2>1, <2>2, <2>3, <2>4, <2>6, <3>1, <1>types, CompletionSteps
  <2>5. CASE w = "gui"
    <3>1. job.kinds = {k} /\ job.at = "post txt"
      BY <2>3, <2>5, <2>7, <1>gui DEF Manual
    <3>2. job.paths \subseteq {k}
      BY <2>3, <2>5, <2>7, <3>1, <1>gui DEF Manual, Inside
    <3>4. job.manual
      BY <2>3, <2>5, <2>7, <1>gui DEF Manual, Inside
    <3>5. Manual(job)
      BY <3>1, <3>2, <3>4 DEF Manual, Inside
    <3>3. Manual(job) /\ Whole(job, summary')
      BY <2>3, <2>6, <3>2, <3>5 DEF Whole
    <3> QED
      BY <2>1, <2>2, <2>3, <2>5, <2>6, <3>3, <1>types, GuiSteps
  <2> QED
    BY <2>4, <2>5, <1>kinds
<1>12. ASSUME NEW w \in Cr!Workers, NEW k \in Cr!Kinds, Cr!OnSummaryEvent(w, k) PROVE SummaryInv'
  <2> DEFINE job == [worker[w] EXCEPT !.at = IF k = "txt" THEN "post json" ELSE "done"]
  <2>1. /\ worker[w].at = Cr!Posting[k] /\ Cr!Move(w, job) /\ UNCHANGED <<queue, working, wanted>>
    BY <1>12 DEF Cr!OnSummaryEvent
  <2>7. (k = "txt" /\ worker[w].at = "post txt") \/ (k = "json" /\ worker[w].at = "post json")
    <3>1. Cr!Posting["txt"] = "post txt" /\ Cr!Posting["json"] = "post json"
      BY DEF Cr!Posting
    <3>2. CASE k = "txt"
      BY <2>1, <3>1, <3>2
    <3>3. CASE k = "json"
      BY <2>1, <3>1, <3>3
    <3> QED
      BY <3>2, <3>3, <1>kinds
  <2>2. worker[w] \in Jobs /\ working = w
    BY <2>7, <1>inside, AtWork DEF Inside
  <2>3. /\ job \in Jobs /\ job.kinds = worker[w].kinds /\ job.manual = worker[w].manual
        /\ job.paths = worker[w].paths /\ job.failed = worker[w].failed
        /\ job.at \in {"post json", "done"}
    BY <2>2 DEF Jobs, Inside
  <2> HIDE DEF job
  <2>6. /\ summary' \in [Cr!Kinds -> {"absent", "partial", "valid"}]
        /\ ~worker[w].failed => summary' = summary
    BY <1>12, <1>types DEF Cr!OnSummaryEvent
  <2>8. \/ opened' = opened
        \/ /\ opened' = opened \cup {summary[k]} /\ worker[w].manual /\ ~worker[w].failed
           /\ k \in worker[w].paths
    BY <1>12 DEF Cr!OnSummaryEvent
  <2>4. CASE w = "completion"
    <3>1. Automatic(job) /\ ~worker[w].manual
      BY <2>7, <2>3, <2>4, <1>gui DEF Automatic, Inside
    <3> QED
      BY <2>1, <2>2, <2>3, <2>4, <2>6, <2>8, <3>1, <1>types, CompletionSteps
  <2>5. CASE w = "gui"
    <3>1. ~worker[w].failed => \A f \in worker[w].paths : summary[f] = "valid"
      BY <2>5, <2>7, <1>gui DEF Whole
    <3>2. opened' \subseteq {"valid"}
      BY <2>8, <3>1, <1>types
    <3>3. Manual(job)
      BY <2>3, <2>5, <2>7, <1>gui DEF Manual, Inside
    <3>4. Whole(job, summary')
      BY <2>3, <2>6, <3>1 DEF Whole
    <3> QED
      BY <2>1, <2>2, <2>3, <2>5, <2>6, <3>2, <3>3, <3>4, GuiSteps
  <2> QED
    BY <2>4, <2>5, <1>kinds
<1>13. ASSUME NEW w \in Cr!Workers, Cr!FinishProcessing(w) PROVE SummaryInv'
  <2>1. /\ worker[w].at = "done" /\ UNCHANGED <<queue, summary, opened, wanted>>
        /\ working' = IF working = w THEN "none" ELSE working
    BY <1>13 DEF Cr!FinishProcessing, Cr!None
  <2>2. working = w
    BY <2>1, <1>inside DEF Inside
  <2>3. PICK job \in {Cr!Idle} \cup Tellings :
          /\ Cr!Move(w, job) /\ job.at \in {"none", "tell"}
          /\ worker[w].manual => job = Cr!Idle
    BY <1>13 DEF Cr!FinishProcessing, Tellings, Cr!Idle, Cr!None, Statuses
  <2>4. CASE w = "completion"
    <3>1. Automatic(job)
      BY <2>3 DEF Automatic, Inside
    <3> QED
      BY <2>1, <2>2, <2>3, <2>4, <3>1, <1>types, CompletionSteps DEF Inside
  <2>5. CASE w = "gui"
    <3>3. worker[w].manual
      BY <2>1, <2>5, <1>gui DEF Manual, Inside
    <3>2. job = Cr!Idle /\ job.at = "none"
      BY <2>3, <3>3 DEF Cr!Idle, Cr!None
    <3>1. Manual(job) /\ Whole(job, summary')
      BY <3>2, <1>kinds DEF Manual, Whole, Inside
    <3> QED
      BY <2>1, <2>2, <2>3, <2>5, <3>1, <1>types, GuiSteps DEF Inside
  <2> QED
    BY <2>4, <2>5, <1>kinds
<1>14. ASSUME NEW k \in Cr!Kinds, Cr!Move("gui", Cr!Job({k}, TRUE)),
              UNCHANGED <<queue, working, summary, opened, wanted>>
       PROVE SummaryInv'
  <2> DEFINE job == Cr!Job({k}, TRUE)
  <2>1. /\ job \in Jobs /\ job.at = "queued" /\ job.kinds = {k} /\ job.paths = {} /\ job.manual = TRUE
    BY DEF Cr!Job, Jobs
  <2> HIDE DEF job
  <2>2. Manual(job) /\ Whole(job, summary') /\ job.at \notin Inside
    BY <2>1 DEF Manual, Whole, Inside
  <2> QED
    BY <1>14, <2>1, <2>2, <1>types, GuiSteps DEF job
<1>15. CASE Cr!OpenFile
  BY <1>1, <1>14, <1>15, <1>kinds DEF Cr!OpenFile, Cr!summaryVars
<1>16. ASSUME NEW k \in Cr!Kinds, Cr!QueueSummaryGeneration(k) PROVE SummaryInv'
  BY <1>14, <1>16 DEF Cr!QueueSummaryGeneration, Cr!summaryVars
<1>17. CASE Cr!RemovedFile
  <2>1. /\ worker["gui"].at = "none" /\ UNCHANGED <<queue, worker, working, opened, wanted>>
        /\ summary' \in [Cr!Kinds -> {"absent", "partial", "valid"}]
    BY <1>17, <1>types DEF Cr!RemovedFile, Cr!User, Cr!None
  <2>2. Whole(worker["gui"], summary)'
    BY <2>1 DEF Whole
  <2> QED
    BY <2>1, <2>2 DEF SummaryInv, SummaryTypes, OneInside, Cr!OpenedIsValid
<1>18. CASE UNCHANGED Cr!vars
  BY <1>1, <1>18 DEF Cr!vars, Cr!summaryVars
<1> QED
  BY <1>2, <1>3, <1>4, <1>5, <1>6, <1>7, <1>8, <1>9, <1>10, <1>11, <1>12, <1>13, <1>15, <1>16, <1>17, <1>18
  DEF Cr!Next

(* RgdClient::DumpCrash, OnSummaryEventCallback: a crash has one report, a       *)
(* completed dump all of its parts, and a summary opened at its end is whole,    *)
(* however the two threads that write and remove summaries fall together.     *)
THEOREM CrashFiles ==
  ASSUME IteratorsFail = FALSE
  PROVE Cr!Spec => []CrashFilesHold
<1>1. CrashInv /\ SummaryInv => CrashFilesHold
  BY DEF CrashInv, SummaryInv, CrashFilesHold
<1>2. CrashInv /\ [Cr!Next]_Cr!vars => CrashInv'
  BY CrashStep
<1> QED
  BY <1>1, <1>2, CrashInit, SummaryInit, SummaryStep, PTL DEF Cr!Spec

(* ----- CapturePanel: what begins was asked for. -----                     *)

(* A timer that runs is for what the user asked and has not cancelled.        *)
WantedInv ==
  /\ delayTimer.on => [conn |-> delayTimer.conn, mode |-> delayTimer.mode] \in expected
  /\ Cp!BegunWasWanted

LEMMA WantedInit == Cp!Init => WantedInv
BY DEF Cp!Init, WantedInv, Cp!Off, Cp!BegunWasWanted

(* A begin that was wanted keeps the history so; the source does not touch it.  *)
LEMMA BeginWanted ==
  ASSUME NEW c, NEW m, NEW still, Cp!RequestBegin(c, m, still), still, Cp!BegunWasWanted
  PROVE Cp!BegunWasWanted'
<1>1. CASE Cp!Accepts(c, m)
  BY <1>1 DEF Cp!RequestBegin, Cp!BegunWasWanted
<1>2. CASE ~Cp!Accepts(c, m)
  BY <1>2 DEF Cp!RequestBegin, Cp!BegunWasWanted
<1> QED
  BY <1>1, <1>2

LEMMA WantedStep == WantedInv /\ [Cp!Next]_Cp!vars => WantedInv'
<1> SUFFICES ASSUME WantedInv, [Cp!Next]_Cp!vars PROVE WantedInv'
  OBVIOUS
<1> USE DEF WantedInv
<1>1. ASSUME UNCHANGED <<delayTimer, expected, captured>> PROVE WantedInv'
  BY <1>1 DEF Cp!BegunWasWanted
<1>2. ASSUME NEW c \in PanelConnections, Cp!Connect(c) \/ Cp!Disconnect(c) \/ Cp!CaptureEnds(c)
      PROVE WantedInv'
  BY <1>1, <1>2 DEF Cp!Connect, Cp!Disconnect, Cp!CaptureEnds, Cp!model, Cp!history
<1>3. ASSUME NEW c \in PanelConnections, Cp!SetCaptureTarget(c) PROVE WantedInv'
  BY <1>1, <1>3 DEF Cp!SetCaptureTarget
<1>4. CASE Cp!OnStatusEvent \/ Cp!ProcessStatus \/ Cp!OnTraceCompletion
  BY <1>1, <1>4 DEF Cp!OnStatusEvent, Cp!ProcessStatus, Cp!OnTraceCompletion, Cp!model, Cp!history
<1>5. CASE Cp!HandleSignal \/ Cp!Choose
  BY <1>1, <1>5 DEF Cp!HandleSignal, Cp!Choose, Cp!model, Cp!history
<1>6. ASSUME NEW h \in BOOLEAN, Cp!Ask(h) PROVE WantedInv'
  BY <1>1, <1>6 DEF Cp!Ask, Cp!model
<1>7. CASE Cp!RequestBeginTrace
  <2>1. CASE panelGui.target = Cp!None
    BY <1>1, <1>7, <2>1 DEF Cp!RequestBeginTrace
  <2>2. CASE panelGui.target # Cp!None /\ delay
    <3>1. Cp!BeginLater(panelGui.target)
      BY <1>7, <2>2 DEF Cp!RequestBeginTrace
    <3>2. CASE connected[panelGui.target] = "Idle"
      BY <3>1, <3>2 DEF Cp!BeginLater, Cp!BegunWasWanted
    <3>3. CASE connected[panelGui.target] # "Idle"
      BY <1>1, <3>1, <3>3 DEF Cp!BeginLater
    <3> QED
      BY <3>2, <3>3
  <2>3. CASE panelGui.target # Cp!None /\ ~delay
    <3>1. Cp!BeginNow(panelGui.target)
      BY <1>7, <2>3 DEF Cp!RequestBeginTrace
    <3> QED
      BY <3>1, BeginWanted DEF Cp!BeginNow
  <2> QED
    BY <2>1, <2>2, <2>3
<1>8. CASE Cp!TimerFires
  BY <1>8, BeginWanted DEF Cp!TimerFires, Cp!Off
<1>9. CASE Cp!RequestAbort
  BY <1>9 DEF Cp!RequestAbort, Cp!Off, Cp!BegunWasWanted
<1>10. CASE UNCHANGED Cp!vars
  BY <1>1, <1>10 DEF Cp!vars, Cp!model, Cp!history
<1> HIDE DEF WantedInv
<1> QED
  BY <1>2, <1>3, <1>4, <1>5, <1>6, <1>7, <1>8, <1>9, <1>10 DEF Cp!Next

(* A capture begins only of a connection and in a mode the user asked for and *)
(* has not cancelled since, whatever statuses, choices and timers fall in      *)
(* between (ProfilingViewModel::RequestBeginTrace, RequestAbort, the timer).   *)
THEOREM CapturesWereWanted == Cp!Spec => []BegunWasWanted
<1>1. WantedInv => BegunWasWanted
  BY DEF WantedInv, BegunWasWanted
<1> QED
  BY <1>1, WantedInit, WantedStep, PTL DEF Cp!Spec

(* ----- ConnectionModel: the widget and the connection. -----              *)

Net == {"NetConnecting", "NetConnected", "NetDisconnecting", "NetDisconnected"}
Emitted == Net \cup {"ExistingLocalRouterFound", "RouterCreationFailed", "Unexpectedly"}
Endings == {"NetConnected", "NetDisconnecting", "NetDisconnected"}

(* The widget offers what it does after s; it will, once it has handled q.     *)
Reads(w, s) == w.connect = (s = "NetDisconnected") /\ w.disconnect = (s = "NetConnected")
Silent(q) == \A j \in 1 .. Len(q) : q[j] \notin Net
Tells(q, w, s) ==
  \/ \E i \in 1 .. Len(q) : q[i] = s /\ \A j \in i + 1 .. Len(q) : q[j] \notin Net
  \/ Reads(w, s) /\ Silent(q)

(* A panel that has begun to end does not come back from that.                *)
Open == {"idle", "join", "timeout"}
EndingSteps == {"connecting", "disconnecting", "disconnected", "ending"}
Waits == {"idle", "connect", "disconnect"}
Works == Waits \cup {"connecting", "failed", "disconnecting", "disconnected"}

(* What the worker does, once it has sent what it has to send.               *)
Work == IF thread["worker"].at = "emit" THEN thread["worker"].next.at ELSE thread["worker"].at

(* What the worker is about to do, what the library has, and the state agree.  *)
Agree ==
  /\ Work \in Works
  /\ thread["gui"].at = "join" => thread["gui"].job.at \in {"connect", "disconnect"}
  /\ conn \in {"Connected", "Disconnected", "Connecting", "Disconnecting"}
  /\ link \in {"none", "reporting", "up"}
  /\ conn = "Disconnected" => link = "none"
  /\ conn = "Connected" <=> link = "up" /\ Work # "disconnecting"
  /\ conn = "Connecting" <=> link = "reporting" \/ Work \in {"connecting", "failed"}
  /\ conn = "Disconnecting" <=> link = "up" /\ Work = "disconnecting"
  /\ Work \in {"connecting", "failed", "disconnected"} => link = "none"
  /\ Work = "disconnecting" => link # "reporting"

(* What a thread has to send is of where it is.                             *)
Speech(e, step, c) ==
  \/ e = "NetConnecting" /\ step = "connecting"
  \/ e = "NetDisconnecting" /\ step = "disconnecting"
  \/ e = "NetDisconnected" /\ step \in {"idle", "disconnected"} /\ c = "Disconnected"
  \/ e \in Cn!CreateResults \ {"success"} /\ step = "idle" /\ c = "Disconnected"
WorkerSpeaks ==
  thread["worker"].at = "emit" =>
    \E e \in Emitted : thread["worker"].signals = <<e>> /\ Speech(e, thread["worker"].next.at, conn)
RouterSpeaks ==
  \/ thread["router"] = Cn!Idle
  \/ /\ thread["router"].at = "emit" /\ thread["router"].next = Cn!Idle
     /\ thread["router"].signals \in {<<"NetDisconnected">>, <<"NetDisconnected", "Unexpectedly">>}
     /\ conn \in {"Disconnected", "Connecting"}

(* A state that lasts is the last that the gui thread was or will be told of,   *)
(* unless the last was the NetDisconnecting that came after the end.          *)
Pending == thread["worker"].at = "emit" /\ Head(thread["worker"].signals) \in Net
Settled == conn = "Disconnected" /\ thread["router"] = Cn!Idle /\ ~Pending
Told ==
  /\ signals \in Seq(Emitted) /\ overtaken \in BOOLEAN
  /\ {"connect", "disconnect"} \subseteq DOMAIN widget
  /\ conn = "Connected" => Tells(signals, widget, "NetConnected")
  /\ Settled => Tells(signals, widget, IF overtaken THEN "NetDisconnecting" ELSE "NetDisconnected")

ConnectionInv ==
  /\ DOMAIN thread = {"gui", "worker", "router"}
  /\ thread["gui"].at = "emit" => thread["gui"].next.at \in EndingSteps
  /\ thread["gui"].at \in Open => Agree /\ WorkerSpeaks /\ RouterSpeaks /\ Told

LEMMA EmptyTells ==
  ASSUME NEW w, NEW s, Tells(<<>>, w, s)
  PROVE Reads(w, s)
BY DEF Tells

LEMMA TellsNext ==
  ASSUME NEW q \in Seq(Emitted), NEW e \in Emitted, NEW w
  PROVE /\ q \o <<e>> \in Seq(Emitted)
        /\ e \in Net => Tells(q \o <<e>>, w, e)
        /\ \A s \in Endings : e \notin Net /\ Tells(q, w, s) => Tells(q \o <<e>>, w, s)
<1> DEFINE r == q \o <<e>>
<1>1. r \in Seq(Emitted) /\ Len(r) = Len(q) + 1 /\ r[Len(q) + 1] = e
      /\ \A i \in 1 .. Len(q) : r[i] = q[i]
  OBVIOUS
<1>2. Len(q) \in Nat
  OBVIOUS
<1> HIDE DEF r
<1>3. e \in Net => Tells(r, w, e)
  <2>1. \A j \in Len(q) + 2 .. Len(r) : r[j] \notin Net
    BY <1>1, <1>2
  <2> QED
    BY <1>1, <1>2, <2>1 DEF Tells
<1>4. ASSUME NEW s \in Endings, e \notin Net, Tells(q, w, s) PROVE Tells(r, w, s)
  <2>1. CASE Reads(w, s) /\ Silent(q)
    BY <1>1, <1>2, <1>4, <2>1 DEF Tells, Silent
  <2>2. CASE \E i \in 1 .. Len(q) : q[i] = s /\ \A j \in i + 1 .. Len(q) : q[j] \notin Net
    <3>1. PICK i \in 1 .. Len(q) : q[i] = s /\ \A j \in i + 1 .. Len(q) : q[j] \notin Net
      BY <2>2
    <3>2. \A j \in i + 1 .. Len(r) : r[j] \notin Net
      BY <1>1, <1>2, <1>4, <3>1
    <3> QED
      BY <1>1, <1>2, <3>1, <3>2 DEF Tells
  <2> QED
    BY <1>4, <2>1, <2>2 DEF Tells
<1> QED
  BY <1>1, <1>3, <1>4 DEF r

(* What handling a signal does leaves what the widget will offer.             *)
LEMMA TellsHandled ==
  ASSUME NEW q \in Seq(Emitted), q # <<>>, NEW w, NEW s \in Endings, Tells(q, widget, s),
         {"connect", "disconnect"} \subseteq DOMAIN widget, w = Cn!Handled(Head(q))
  PROVE Tells(Tail(q), w, s) /\ {"connect", "disconnect"} \subseteq DOMAIN w
<1> DEFINE r == Tail(q)
<1>1. Len(q) \in Nat /\ Len(q) > 0 /\ Head(q) = q[1] /\ Len(r) = Len(q) - 1
      /\ \A i \in 1 .. Len(r) : r[i] = q[i + 1]
  OBVIOUS
<1> HIDE DEF r
<1>2. DOMAIN w = DOMAIN widget
  BY DEF Cn!Handled
<1>3. q[1] \notin Net => w = widget
  BY <1>1 DEF Cn!Handled, Net
<1>4. q[1] = s => Reads(w, s)
  BY <1>1 DEF Cn!Handled, Endings, Reads
<1>5. ASSUME Reads(widget, s) /\ Silent(q) PROVE Tells(r, w, s)
  BY <1>1, <1>3, <1>5 DEF Tells, Silent
<1>6. ASSUME \E i \in 1 .. Len(q) : q[i] = s /\ \A j \in i + 1 .. Len(q) : q[j] \notin Net
      PROVE Tells(r, w, s)
  <2>1. PICK i \in 1 .. Len(q) : q[i] = s /\ \A j \in i + 1 .. Len(q) : q[j] \notin Net
    BY <1>6
  <2>2. CASE i = 1
    <3>1. \A j \in 1 .. Len(r) : r[j] \notin Net
      BY <1>1, <2>1, <2>2
    <3> QED
      BY <1>4, <2>1, <2>2, <3>1 DEF Tells, Silent
  <2>3. CASE i > 1
    <3>1. PICK m \in 1 .. Len(r) : i = m + 1
      BY <1>1, <2>1, <2>3
    <3>2. r[m] = s /\ \A j \in m + 1 .. Len(r) : r[j] \notin Net
      BY <1>1, <2>1, <3>1
    <3> QED
      BY <3>2 DEF Tells
  <2> QED
    BY <2>1, <2>2, <2>3
<1> QED
  BY <1>2, <1>5, <1>6 DEF Tells, r

LEMMA ConnectionInit == Cn!Init => ConnectionInv
<1> SUFFICES ASSUME Cn!Init PROVE ConnectionInv
  OBVIOUS
<1>1. signals \in Seq(Emitted) /\ Len(signals) = 0
  BY EmptySeq DEF Cn!Init
<1>2. Reads(widget, "NetDisconnected")
  BY DEF Cn!Init, Reads
<1>3. Silent(signals)
  BY <1>1 DEF Silent
<1>4. Tells(signals, widget, "NetDisconnected")
  BY <1>2, <1>3 DEF Tells
<1> QED
  BY <1>1, <1>4 DEF Cn!Init, Cn!Idle, ConnectionInv, Agree, WorkerSpeaks, RouterSpeaks, Told, Work, Works, Waits

(* A step that goes on to end the panel, or finds it ending.                  *)
LEMMA GuiEnds ==
  ASSUME ConnectionInv, Cn!ThreadStep("gui")
  PROVE /\ thread["gui"].at \notin Open /\ thread'["gui"].at \notin Open
        /\ thread'["gui"].at = "emit" => thread'["gui"].next.at \in EndingSteps
<1> USE DEF ConnectionInv, Cn!Goto, Cn!Done, Cn!Says, Open, EndingSteps
<1>1. CASE \E n \in Cn!Types, x \in BOOLEAN, r \in Cn!CreateResults : Cn!ConnectTool("gui", n, x, r)
  <2>1. PICK n \in Cn!Types, x \in BOOLEAN, r \in Cn!CreateResults : Cn!ConnectTool("gui", n, x, r)
    BY <1>1
  <2>2. thread["gui"].at = "connect"
    BY <2>1 DEF Cn!ConnectTool
  <2>3. \/ thread' = [thread EXCEPT !["gui"] = [at |-> "ending"]]
        \/ \E s : thread' = [thread EXCEPT !["gui"] = [at |-> "emit", signals |-> s, next |-> [at |-> "connecting"]]]
        \/ \E s : thread' = [thread EXCEPT !["gui"] = [at |-> "emit", signals |-> s, next |-> [at |-> "ending"]]]
    BY <2>1 DEF Cn!ConnectTool
  <2> QED
    BY <2>2, <2>3
<1>2. CASE \E ok \in BOOLEAN : Cn!Connect("gui", ok)
  BY <1>2 DEF Cn!Connect
<1>3. CASE Cn!ConnectFailed("gui")
  BY <1>3 DEF Cn!ConnectFailed
<1>4. CASE Cn!SyncDisconnectTool("gui")
  BY <1>4 DEF Cn!SyncDisconnectTool
<1>5. CASE Cn!Disconnect("gui")
  BY <1>5 DEF Cn!Disconnect, Cn!OnRouterDisconnected
<1>6. CASE Cn!Reconnect("gui")
  BY <1>6 DEF Cn!Reconnect
<1>7. CASE Cn!EmitSignals("gui")
  BY <1>7 DEF Cn!EmitSignals
<1> QED
  BY <1>1, <1>2, <1>3, <1>4, <1>5, <1>6, <1>7 DEF Cn!ThreadStep

(* What the widget was told stays so when nothing is sent and the state is no   *)
(* other than it was.                                                       *)
LEMMA ToldStays ==
  ASSUME Told, conn' = "Connected" => conn = "Connected", Settled' => Settled,
         widget'.connect = widget.connect, widget'.disconnect = widget.disconnect,
         DOMAIN widget' = DOMAIN widget, signals' = signals, overtaken' = overtaken
  PROVE Told'
BY DEF Told, Tells, Reads

(* The signal that says what the state now is, or says nothing of it.         *)
LEMMA ToldNext ==
  ASSUME Told, NEW e \in Emitted, signals' = signals \o <<e>>, widget' = widget,
         overtaken' \in BOOLEAN, conn' = "Connected" => e = "NetConnected" \/ (e \notin Net /\ conn = "Connected"),
         Settled' => \/ e = (IF overtaken' THEN "NetDisconnecting" ELSE "NetDisconnected")
                     \/ e \notin Net /\ Settled /\ overtaken' = overtaken
  PROVE Told'
<1>1. signals' \in Seq(Emitted) /\ (e \in Net => Tells(signals', widget', e))
  BY TellsNext DEF Told
<1>2. ASSUME NEW s \in Endings, e \notin Net, Tells(signals, widget, s) PROVE Tells(signals', widget', s)
  BY <1>2, TellsNext DEF Told
<1>3. Endings \subseteq Net
  BY DEF Endings, Net
<1> QED
  BY <1>1, <1>2, <1>3 DEF Told, Endings

(* The worker's steps.                                                      *)
WorkerGoes(step) == thread' = [thread EXCEPT !["worker"] = step]

(* A step of the worker that sends nothing yet.                             *)
LEMMA WorkerMute ==
  ASSUME ConnectionInv, thread["gui"].at \in Open, NEW step, WorkerGoes(step),
         thread["worker"].at # "emit", step.at # "emit",
         UNCHANGED <<signals, widget, overtaken>>,
         conn' = "Connected" => conn = "Connected", conn' = "Disconnected" => conn = "Disconnected",
         thread["router"] = Cn!Idle \/ conn' = conn, Agree'
  PROVE ConnectionInv'
<1>1. /\ DOMAIN thread' = {"gui", "worker", "router"} /\ thread'["gui"] = thread["gui"] /\ thread'["router"] = thread["router"]
      /\ thread'["worker"].at # "emit"
  BY DEF ConnectionInv, WorkerGoes
<1>2. WorkerSpeaks' /\ RouterSpeaks'
  BY <1>1 DEF ConnectionInv, WorkerSpeaks, RouterSpeaks
<1>3. Settled' => Settled
  BY <1>1 DEF Settled, Pending
<1>4. Told'
  BY <1>3, ToldStays DEF ConnectionInv
<1> QED
  BY <1>1, <1>2, <1>4 DEF ConnectionInv

(* A step of the worker after which it has something to send.                 *)
LEMMA WorkerHasToSay ==
  ASSUME ConnectionInv, thread["gui"].at \in Open, NEW e \in Emitted, NEW step,
         WorkerGoes(Cn!Says(<<e>>, step)), thread["worker"].at # "emit",
         UNCHANGED <<signals, widget, overtaken>>, conn' # "Connected",
         Speech(e, step.at, conn'), thread["router"] = Cn!Idle \/ conn' \in {"Disconnected", "Connecting"},
         e \in Net \/ conn' = conn, Agree'
  PROVE ConnectionInv'
<1>1. /\ DOMAIN thread' = {"gui", "worker", "router"} /\ thread'["gui"] = thread["gui"] /\ thread'["router"] = thread["router"]
      /\ thread'["worker"] = [at |-> "emit", signals |-> <<e>>, next |-> step]
  BY DEF ConnectionInv, WorkerGoes, Cn!Says
<1>2. WorkerSpeaks' /\ RouterSpeaks'
  BY <1>1 DEF ConnectionInv, WorkerSpeaks, RouterSpeaks
<1>3. Settled' => Settled
  BY <1>1 DEF Settled, Pending
<1>4. Told'
  BY <1>3, ToldStays DEF ConnectionInv
<1> QED
  BY <1>1, <1>2, <1>4 DEF ConnectionInv

LEMMA RouterCreated ==
  ASSUME Cn!CreateRouter("success")
  PROVE conn' = "Connecting"
BY Zenon DEF Cn!CreateRouter

LEMMA WorkerStep ==
  ASSUME ConnectionInv, thread["gui"].at \in Open, Cn!ThreadStep("worker")
  PROVE ConnectionInv'
<1> USE DEF Cn!Goto, Cn!Done
<1>1. DOMAIN thread = {"gui", "worker", "router"} /\ Agree /\ WorkerSpeaks /\ RouterSpeaks /\ Told
  BY DEF ConnectionInv
<1>2. ASSUME NEW n \in Cn!Types, NEW x \in BOOLEAN, NEW r \in Cn!CreateResults, Cn!ConnectTool("worker", n, x, r)
      PROVE ConnectionInv'
  <2> USE <1>1, <1>2 DEF Cn!ConnectTool
  <2>1. thread["worker"].at = "connect" /\ UNCHANGED <<link, signals, widget, overtaken>>
    OBVIOUS
  <2>2. CASE conn # "Disconnected"
    <3>1. WorkerGoes([at |-> "idle"]) /\ conn' = conn
      BY <2>2 DEF WorkerGoes
    <3>2. Agree'
      BY <2>1, <3>1 DEF WorkerGoes, Agree, Work, Works, Waits
    <3> QED
      BY <2>1, <3>1, <3>2, WorkerMute
  <2>3. CASE conn = "Disconnected" /\ r = "success"
    <3>1. WorkerGoes(Cn!Says(<<"NetConnecting">>, [at |-> "connecting"])) /\ conn' = "Connecting"
      <4>1. conn' = "Connecting"
        <5>1. CASE n = "Local" /\ ~x
          <6>1. Cn!CreateRouter("success")
            BY <2>3, <5>1
          <6> QED
            BY <6>1, RouterCreated
        <5>2. CASE ~(n = "Local" /\ ~x)
          BY <2>3, <5>2
        <5> QED
          BY <5>1, <5>2
      <4>2. thread' = [thread EXCEPT !["worker"] = Cn!Says(<<"NetConnecting">>, [at |-> "connecting"])]
        BY <2>3
      <4> QED
        BY <4>1, <4>2 DEF WorkerGoes
    <3>2. Agree'
      BY <2>1, <2>3, <3>1 DEF WorkerGoes, Agree, Work, Works, Waits, Cn!Says
    <3>3. "NetConnecting" \in Emitted /\ "NetConnecting" \in Net /\ Speech("NetConnecting", "connecting", conn')
      BY DEF Emitted, Net, Speech
    <3> QED
      BY <2>1, <3>1, <3>2, <3>3, WorkerHasToSay
  <2>4. CASE conn = "Disconnected" /\ r # "success"
    <3>1. WorkerGoes(Cn!Says(<<r>>, [at |-> "idle"])) /\ conn' = "Disconnected"
      <4>1. conn' = "Disconnected"
        BY <2>4 DEF Cn!CreateRouter
      <4>2. thread' = [thread EXCEPT !["worker"] = Cn!Says(<<r>>, [at |-> "idle"])]
        BY <2>4
      <4> QED
        BY <4>1, <4>2 DEF WorkerGoes
    <3>2. Agree'
      BY <2>1, <2>4, <3>1 DEF WorkerGoes, Agree, Work, Works, Waits, Cn!Says
    <3>3. r \in Emitted /\ Speech(r, "idle", conn')
      BY <2>4, <3>1 DEF Emitted, Speech, Cn!CreateResults
    <3> QED
      BY <2>1, <2>4, <3>1, <3>2, <3>3, WorkerHasToSay
  <2> QED
    BY <2>2, <2>3, <2>4
<1>3. ASSUME NEW ok \in BOOLEAN, Cn!Connect("worker", ok) PROVE ConnectionInv'
  <2> USE <1>1, <1>3 DEF Cn!Connect, Cn!model
  <2>1. /\ thread["worker"].at = "connecting" /\ UNCHANGED <<conn, signals, widget, overtaken>>
        /\ WorkerGoes([at |-> IF ok THEN "idle" ELSE "failed"])
    BY DEF WorkerGoes
  <2>2. Agree'
    BY <2>1 DEF WorkerGoes, Agree, Work, Works, Waits
  <2> QED
    BY <2>1, <2>2, WorkerMute
<1>4. CASE Cn!ConnectFailed("worker")
  <2> USE <1>1, <1>4 DEF Cn!ConnectFailed
  <2>1. /\ thread["worker"].at = "failed" /\ conn' = "Disconnected" /\ UNCHANGED <<link, signals, widget, overtaken>>
        /\ WorkerGoes(Cn!Says(<<"NetDisconnected">>, [at |-> "idle"]))
    BY DEF WorkerGoes
  <2>2. Agree'
    BY <2>1 DEF WorkerGoes, Agree, Work, Works, Waits, Cn!Says
  <2>3. "NetDisconnected" \in Emitted /\ "NetDisconnected" \in Net /\ Speech("NetDisconnected", "idle", conn')
    BY <2>1 DEF Emitted, Net, Speech
  <2> QED
    BY <2>1, <2>2, <2>3, WorkerHasToSay
<1>5. CASE Cn!SyncDisconnectTool("worker")
  <2> USE <1>1, <1>5 DEF Cn!SyncDisconnectTool
  <2>1. thread["worker"].at = "disconnect" /\ UNCHANGED <<link, signals, widget, overtaken>>
    OBVIOUS
  <2>2. CASE conn = "Connected"
    <3>1. WorkerGoes(Cn!Says(<<"NetDisconnecting">>, [at |-> "disconnecting"])) /\ conn' = "Disconnecting"
      BY <2>2 DEF WorkerGoes
    <3>2. Agree'
      BY <2>1, <2>2, <3>1 DEF WorkerGoes, Agree, Work, Works, Waits, Cn!Says
    <3>3. "NetDisconnecting" \in Emitted /\ "NetDisconnecting" \in Net /\ Speech("NetDisconnecting", "disconnecting", conn')
      BY DEF Emitted, Net, Speech
    <3>4. thread["router"] = Cn!Idle
      BY <2>2 DEF RouterSpeaks
    <3> QED
      BY <2>1, <3>1, <3>2, <3>3, <3>4, WorkerHasToSay
  <2>3. CASE conn # "Connected"
    <3>1. WorkerGoes([at |-> "idle"]) /\ conn' = conn
      BY <2>3 DEF WorkerGoes
    <3>2. Agree'
      BY <2>1, <2>3, <3>1 DEF WorkerGoes, Agree, Work, Works, Waits
    <3> QED
      BY <2>1, <3>1, <3>2, WorkerMute
  <2> QED
    BY <2>2, <2>3
<1>6. CASE Cn!Disconnect("worker")
  <2> USE <1>1, <1>6 DEF Cn!Disconnect
  <2>1. thread["worker"].at = "disconnecting" /\ UNCHANGED <<signals, widget, overtaken>>
    OBVIOUS
  <2>2. CASE link = "up"
    <3>1. conn = "Disconnecting"
      BY <2>1, <2>2 DEF Agree, Work
    <3>2. WorkerGoes(Cn!Says(<<"NetDisconnected">>, [at |-> "disconnected"]))
          /\ conn' = "Disconnected" /\ link' = "none"
      BY <2>2, <3>1 DEF Cn!OnRouterDisconnected, Cn!ForgetConnection, WorkerGoes
    <3>3. Agree'
      BY <2>1, <2>2, <3>2 DEF WorkerGoes, Agree, Work, Works, Waits, Cn!Says
    <3>4. "NetDisconnected" \in Emitted /\ "NetDisconnected" \in Net /\ Speech("NetDisconnected", "disconnected", conn')
      BY <3>2 DEF Emitted, Net, Speech
    <3> QED
      BY <2>1, <3>2, <3>3, <3>4, WorkerHasToSay
  <2>3. CASE link # "up"
    <3>1. UNCHANGED <<conn, link>> /\ WorkerGoes([at |-> "disconnected"])
      BY <2>3 DEF Cn!model, WorkerGoes
    <3>2. Agree'
      BY <2>1, <2>3, <3>1 DEF WorkerGoes, Agree, Work, Works, Waits
    <3> QED
      BY <2>1, <3>1, <3>2, WorkerMute
  <2> QED
    BY <2>2, <2>3
<1>7. CASE Cn!Reconnect("worker")
  <2> USE <1>1, <1>7 DEF Cn!Reconnect, Cn!model
  <2>1. /\ thread["worker"].at = "disconnected" /\ UNCHANGED <<conn, link, signals, widget, overtaken>>
    OBVIOUS
  <2>2. PICK step : WorkerGoes(step) /\ step.at \in {"idle", "connect"}
    <3>1. CASE reconnecting
      <4>1. WorkerGoes([at |-> "connect", type |-> "Local", existing |-> FALSE])
        BY <3>1 DEF WorkerGoes
      <4> QED
        BY <4>1
    <3>2. CASE ~reconnecting
      <4>1. WorkerGoes([at |-> "idle"])
        BY <3>2 DEF WorkerGoes
      <4> QED
        BY <4>1
    <3> QED
      BY <3>1, <3>2
  <2>3. Agree'
    BY <2>1, <2>2 DEF WorkerGoes, Agree, Work, Works, Waits
  <2> QED
    BY <2>1, <2>2, <2>3, WorkerMute
<1>8. CASE Cn!EmitSignals("worker")
  <2> USE <1>1
  <2>1. PICK e \in Emitted : thread["worker"].signals = <<e>> /\ Speech(e, thread["worker"].next.at, conn)
    BY <1>8 DEF Cn!EmitSignals, WorkerSpeaks
  <2>2. Head(<<e>>) = e /\ (<<e>> = <<"NetDisconnecting">> <=> e = "NetDisconnecting")
    OBVIOUS
  <2>3. /\ thread["worker"].at = "emit" /\ signals' = signals \o <<e>> /\ UNCHANGED <<conn, link, widget>>
        /\ WorkerGoes(thread["worker"].next)
        /\ overtaken' = IF e = "NetDisconnecting" THEN conn = "Disconnected" /\ thread["router"] = Cn!Idle
                        ELSE overtaken /\ e \in Cn!CreateResults
    BY <1>8, <2>1, <2>2 DEF Cn!EmitSignals, Cn!model, WorkerGoes
  <2>4. /\ DOMAIN thread' = DOMAIN thread /\ thread'["gui"] = thread["gui"] /\ thread'["router"] = thread["router"]
        /\ thread'["worker"] = thread["worker"].next /\ thread'["worker"].at # "emit"
    BY <2>1, <2>3 DEF Speech, WorkerGoes
  <2>5. Agree'
    BY <2>3, <2>4 DEF Agree, Work
  <2>6. WorkerSpeaks' /\ RouterSpeaks'
    BY <2>3, <2>4 DEF WorkerSpeaks, RouterSpeaks
  <2>7. conn # "Connected" /\ (Settled' => conn = "Disconnected" /\ thread["router"] = Cn!Idle)
    <3>1. conn # "Connected"
      BY <2>1, <2>3 DEF Speech, Agree, Work
    <3> QED
      BY <2>3, <2>4, <3>1 DEF Settled
  <2>8. Settled' => \/ e = (IF overtaken' THEN "NetDisconnecting" ELSE "NetDisconnected")
                    \/ e \notin Net /\ Settled /\ overtaken' = overtaken
    <3> SUFFICES ASSUME Settled' PROVE \/ e = (IF overtaken' THEN "NetDisconnecting" ELSE "NetDisconnected")
                                       \/ e \notin Net /\ Settled /\ overtaken' = overtaken
      OBVIOUS
    <3>1. CASE e = "NetConnecting" /\ thread["worker"].next.at = "connecting"
      BY <2>3, <2>7, <3>1 DEF Agree, Work
    <3>2. CASE e = "NetDisconnecting"
      BY <2>3, <2>7, <3>2
    <3>3. CASE e = "NetDisconnected"
      BY <2>3, <3>3 DEF Cn!CreateResults
    <3>4. CASE e \in Cn!CreateResults \ {"success"}
      <4>1. e \notin Net
        BY <3>4 DEF Cn!CreateResults, Net
      <4>2. Settled
        BY <2>1, <2>2, <2>7, <4>1 DEF Settled, Pending
      <4>3. overtaken' = overtaken
        BY <2>3, <3>4 DEF Cn!CreateResults, Told
      <4> QED
        BY <4>1, <4>2, <4>3
    <3> QED
      BY <2>1, <3>1, <3>2, <3>3, <3>4 DEF Speech
  <2>9. Told'
    <3>1. overtaken' \in BOOLEAN
      BY <2>3
    <3> QED
      BY <2>3, <2>7, <2>8, <3>1, ToldNext
  <2> QED
    BY <2>4, <2>5, <2>6, <2>9 DEF ConnectionInv
<1> QED
  BY <1>2, <1>3, <1>4, <1>5, <1>6, <1>7, <1>8 DEF Cn!ThreadStep

LEMMA WorkerOnly ==
  ASSUME ConnectionInv, Cn!ThreadStep("worker")
  PROVE DOMAIN thread' = DOMAIN thread /\ thread'["gui"] = thread["gui"]
<1> USE DEF ConnectionInv, Cn!Goto
<1>1. \E step : thread' = [thread EXCEPT !["worker"] = step]
  <2>1. CASE \E n \in Cn!Types, x \in BOOLEAN, r \in Cn!CreateResults : Cn!ConnectTool("worker", n, x, r)
    BY <2>1 DEF Cn!ConnectTool
  <2>2. CASE \E ok \in BOOLEAN : Cn!Connect("worker", ok)
    BY <2>2 DEF Cn!Connect
  <2>3. CASE Cn!ConnectFailed("worker")
    BY <2>3 DEF Cn!ConnectFailed
  <2>4. CASE Cn!SyncDisconnectTool("worker")
    BY <2>4 DEF Cn!SyncDisconnectTool
  <2>5. CASE Cn!Disconnect("worker")
    BY <2>5 DEF Cn!Disconnect, Cn!OnRouterDisconnected
  <2>6. CASE Cn!Reconnect("worker")
    BY <2>6 DEF Cn!Reconnect
  <2>7. CASE Cn!EmitSignals("worker")
    BY <2>7 DEF Cn!EmitSignals
  <2> QED
    BY <2>1, <2>2, <2>3, <2>4, <2>5, <2>6, <2>7 DEF Cn!ThreadStep
<1> QED
  BY <1>1

(* The router's thread: it reports the router, or that it has gone.           *)
LEMMA RouterStep ==
  ASSUME ConnectionInv, Cn!OnRouterConnected \/ Cn!RouterLost \/ Cn!EmitSignals("router")
  PROVE ConnectionInv'
<1> USE DEF ConnectionInv, Cn!Goto
<1>1. CASE Cn!OnRouterConnected
  <2> USE <1>1 DEF Cn!OnRouterConnected
  <2>1. UNCHANGED <<thread, widget>> /\ conn' = "Connected" /\ link' = "up" /\ link = "reporting"
        /\ signals' = signals \o <<"NetConnected">> /\ thread["router"] = Cn!Idle
    OBVIOUS
  <2> SUFFICES ASSUME thread["gui"].at \in Open PROVE Agree' /\ WorkerSpeaks' /\ RouterSpeaks' /\ Told'
    BY <2>1
  <2>2. conn = "Connecting"
    BY <2>1 DEF Agree
  <2>3. Agree'
    BY <2>1, <2>2 DEF Agree, Work, Works, Waits
  <2>4. WorkerSpeaks' /\ RouterSpeaks'
    BY <2>1, <2>2 DEF WorkerSpeaks, RouterSpeaks, Speech
  <2>5. "NetConnected" \in Emitted
    BY DEF Emitted, Net
  <2>6. ~Settled' /\ overtaken' \in BOOLEAN
    BY <2>1 DEF Settled
  <2>7. Told'
    BY <2>1, <2>5, <2>6, ToldNext
  <2> QED
    BY <2>3, <2>4, <2>7
<1>2. CASE Cn!RouterLost
  <2> USE <1>2 DEF Cn!RouterLost, Cn!OnRouterDisconnected, Cn!ForgetConnection, Cn!Says
  <2>1. /\ conn' = "Disconnected" /\ link' = "none" /\ link = "up" /\ UNCHANGED <<signals, widget, overtaken>>
        /\ DOMAIN thread' = DOMAIN thread /\ thread'["gui"] = thread["gui"] /\ thread'["worker"] = thread["worker"]
        /\ thread'["router"].at = "emit" /\ thread'["router"].next = Cn!Idle
    OBVIOUS
  <2>2. thread'["router"].signals \in {<<"NetDisconnected">>, <<"NetDisconnected", "Unexpectedly">>}
    OBVIOUS
  <2> SUFFICES ASSUME thread["gui"].at \in Open PROVE Agree' /\ WorkerSpeaks' /\ RouterSpeaks' /\ Told'
    BY <2>1
  <2>3. Agree'
    BY <2>1 DEF Agree, Work, Works, Waits
  <2>4. WorkerSpeaks' /\ RouterSpeaks'
    BY <2>1, <2>2 DEF WorkerSpeaks, RouterSpeaks, Speech
  <2>5. ~Settled'
    BY <2>1 DEF Settled, Cn!Idle
  <2>6. Told'
    BY <2>1, <2>5, ToldStays
  <2> QED
    BY <2>3, <2>4, <2>6
<1>3. CASE Cn!EmitSignals("router")
  <2>1. /\ UNCHANGED <<conn, link, widget>> /\ signals' = signals \o thread["router"].signals
        /\ DOMAIN thread' = DOMAIN thread /\ thread'["gui"] = thread["gui"] /\ thread'["worker"] = thread["worker"]
        /\ thread["router"].at = "emit" /\ thread'["router"] = thread["router"].next
    BY <1>3 DEF Cn!EmitSignals, Cn!model
  <2> SUFFICES ASSUME thread["gui"].at \in Open PROVE Agree' /\ WorkerSpeaks' /\ RouterSpeaks' /\ Told'
    BY <2>1
  <2>2. /\ thread["router"].signals \in {<<"NetDisconnected">>, <<"NetDisconnected", "Unexpectedly">>}
        /\ thread["router"].next = Cn!Idle /\ conn \in {"Disconnected", "Connecting"}
    BY <2>1 DEF RouterSpeaks, Cn!Idle
  <2>3. Agree'
    BY <2>1 DEF Agree, Work
  <2>4. WorkerSpeaks' /\ RouterSpeaks'
    BY <2>1, <2>2 DEF WorkerSpeaks, RouterSpeaks, Speech
  <2>5. overtaken' = FALSE
    <3>1. Head(thread["router"].signals) = "NetDisconnected" /\ thread["router"].signals # <<"NetDisconnecting">>
      BY <2>2
    <3> QED
      BY <1>3, <3>1 DEF Cn!EmitSignals, Cn!CreateResults
  <2>6. Told'
    <3> DEFINE one == signals \o <<"NetDisconnected">>
               two == one \o <<"Unexpectedly">>
    <3>1. signals \in Seq(Emitted) /\ "NetDisconnected" \in Emitted /\ "NetDisconnected" \in Net
          /\ "Unexpectedly" \in Emitted /\ "Unexpectedly" \notin Net /\ "NetDisconnected" \in Endings
      BY DEF Told, Emitted, Net, Endings
    <3>2. signals' = one \/ signals' = two
      <4>1. signals \o <<"NetDisconnected", "Unexpectedly">> = two
        BY <3>1
      <4> QED
        BY <2>1, <2>2, <4>1
    <3>3. one \in Seq(Emitted) /\ Tells(one, widget, "NetDisconnected")
      BY <3>1, TellsNext
    <3> HIDE DEF one
    <3>4. two \in Seq(Emitted) /\ Tells(two, widget, "NetDisconnected")
      BY <3>1, <3>3, TellsNext
    <3> HIDE DEF two
    <3> QED
      BY <2>1, <2>2, <2>5, <3>2, <3>3, <3>4 DEF Told
  <2> QED
    BY <2>3, <2>4, <2>6
<1> QED
  BY <1>1, <1>2, <1>3

(* The user, and what the gui thread does between two signals.               *)
LEMMA UserStep ==
  ASSUME ConnectionInv,
         \/ \E t \in Cn!Types : Cn!OnConnectButtonClicked(t) \/ Cn!OnHistoryItemSelected(t)
         \/ Cn!OnDisconnectButtonClicked \/ Cn!CloseEvent \/ Cn!ShutDown
         \/ Cn!OnDisableClientTimeoutStateChanged \/ Cn!SetDisableClientTimeout \/ Cn!Join
  PROVE ConnectionInv'
<1> USE DEF Cn!Goto, Cn!Idle, Cn!model, Cn!Click, Cn!GuiIdle
<1>1. ASSUME DOMAIN thread' = DOMAIN thread, thread'["gui"].at \in Open => thread["gui"].at \in Open,
             thread'["gui"].at # "emit",
             thread["gui"].at \in Open => UNCHANGED <<conn, link, signals, overtaken>> /\ thread'["router"] = thread["router"],
             thread["gui"].at \in Open => \/ thread'["worker"] = thread["worker"]
                                          \/ thread["worker"].at = "idle" /\ thread'["worker"].at \in {"connect", "disconnect"},
             thread'["gui"].at = "join" => thread'["gui"].job.at \in {"connect", "disconnect"},
             widget'.connect = widget.connect, widget'.disconnect = widget.disconnect,
             DOMAIN widget' = DOMAIN widget
      PROVE ConnectionInv'
  <2> SUFFICES ASSUME thread'["gui"].at \in Open PROVE Agree' /\ WorkerSpeaks' /\ RouterSpeaks' /\ Told'
    BY <1>1 DEF ConnectionInv
  <2> USE DEF ConnectionInv
  <2>1. Agree'
    BY <1>1 DEF Agree, Work, Works, Waits
  <2>2. WorkerSpeaks' /\ RouterSpeaks'
    BY <1>1 DEF WorkerSpeaks, RouterSpeaks, Speech
  <2>3. Settled' => Settled
    BY <1>1 DEF Settled, Pending
  <2>4. Told'
    BY <1>1, <2>3, ToldStays
  <2> QED
    BY <2>1, <2>2, <2>4
<1>2. ASSUME NEW step, step.at # "emit", step.at = "join" => step.job.at \in {"connect", "disconnect"},
             thread["gui"].at \in Open \/ step.at \notin Open, thread' = [thread EXCEPT !["gui"] = step],
             thread["gui"].at \in Open => UNCHANGED <<conn, link, signals, overtaken>>,
             widget'.connect = widget.connect, widget'.disconnect = widget.disconnect,
             DOMAIN widget' = DOMAIN widget
      PROVE ConnectionInv'
  BY <1>1, <1>2 DEF ConnectionInv
<1>3. /\ \A t : [at |-> "join", job |-> [at |-> "connect", type |-> t, existing |-> FALSE]].at = "join"
      /\ \A t : [at |-> "join", job |-> [at |-> "connect", type |-> t, existing |-> FALSE]].job.at = "connect"
      /\ [at |-> "join", job |-> [at |-> "disconnect"]].at = "join"
      /\ [at |-> "join", job |-> [at |-> "disconnect"]].job.at = "disconnect"
      /\ \A a : [at |-> a].at = a
  OBVIOUS
<1>4. ASSUME NEW t \in Cn!Types, Cn!OnConnectButtonClicked(t) PROVE ConnectionInv'
  <2>1. thread["gui"].at = "idle" /\ UNCHANGED <<conn, link, signals, overtaken>> /\ widget' = [widget EXCEPT !.type = t]
        /\ thread' = [thread EXCEPT !["gui"] = [at |-> "join", job |-> [at |-> "connect", type |-> t, existing |-> FALSE]]]
    BY <1>4 DEF Cn!OnConnectButtonClicked
  <2>2. widget'.connect = widget.connect /\ widget'.disconnect = widget.disconnect /\ DOMAIN widget' = DOMAIN widget
    BY <2>1
  <2> QED
    BY <1>2, <1>3, <2>1, <2>2 DEF Open
<1>5. ASSUME NEW t \in Cn!Types, Cn!OnHistoryItemSelected(t) PROVE ConnectionInv'
  <2>1. UNCHANGED <<conn, link, signals, thread, overtaken>>
        /\ \E b : widget' = [widget EXCEPT !.type = t, !.timeout = b]
    <3>1. UNCHANGED <<conn, link, signals, thread, overtaken>>
      BY <1>5, Zenon DEF Cn!OnHistoryItemSelected
    <3>2. \E b : widget' = [widget EXCEPT !.type = t, !.timeout = b]
      BY <1>5, Zenon DEF Cn!OnHistoryItemSelected
    <3> QED
      BY <3>1, <3>2, Zenon
  <2>2. widget'.connect = widget.connect /\ widget'.disconnect = widget.disconnect /\ DOMAIN widget' = DOMAIN widget
    BY <2>1
  <2>3. thread["gui"].at = "idle"
    <3>1. thread["gui"] = Cn!Idle
      BY <1>5, Zenon DEF Cn!OnHistoryItemSelected
    <3> QED
      BY <3>1
  <2> QED
    BY <1>1, <2>1, <2>2, <2>3
<1>6. CASE Cn!OnDisconnectButtonClicked
  <2>1. thread["gui"].at = "idle" /\ UNCHANGED <<conn, link, signals, widget, overtaken>>
        /\ thread' = [thread EXCEPT !["gui"] = [at |-> "join", job |-> [at |-> "disconnect"]]]
    BY <1>6 DEF Cn!OnDisconnectButtonClicked
  <2> QED
    BY <1>2, <1>3, <2>1 DEF Open
<1>7. CASE Cn!CloseEvent
  <2>1. thread["gui"].at = "idle" /\ UNCHANGED <<conn, link, signals, overtaken>> /\ widget' = [widget EXCEPT !.shutdown = TRUE]
    BY <1>7 DEF Cn!CloseEvent
  <2>2. widget'.connect = widget.connect /\ widget'.disconnect = widget.disconnect /\ DOMAIN widget' = DOMAIN widget
    BY <2>1
  <2>3. \/ thread' = [thread EXCEPT !["gui"] = [at |-> "join", job |-> [at |-> "disconnect"]]]
        \/ thread' = [thread EXCEPT !["gui"] = [at |-> "disconnect"]]
    BY <1>7 DEF Cn!CloseEvent
  <2> QED
    BY <1>2, <1>3, <2>1, <2>2, <2>3 DEF Open
<1>8. CASE Cn!ShutDown
  <2>1. thread["gui"].at = "ending" /\ UNCHANGED widget /\ thread' = [thread EXCEPT !["gui"] = [at |-> "ended"]]
    BY <1>8 DEF Cn!ShutDown
  <2> QED
    BY <1>2, <1>3, <2>1 DEF Open
<1>9. CASE Cn!OnDisableClientTimeoutStateChanged
  <2>1. thread["gui"].at = "idle" /\ UNCHANGED <<conn, link, signals, widget, overtaken>>
        /\ thread' = [thread EXCEPT !["gui"] = [at |-> "timeout"]]
    BY <1>9 DEF Cn!OnDisableClientTimeoutStateChanged
  <2> QED
    BY <1>2, <1>3, <2>1 DEF Open
<1>10. CASE Cn!SetDisableClientTimeout
  <2>1. thread["gui"].at = "timeout" /\ UNCHANGED <<conn, link, signals, widget, overtaken>>
    BY <1>10 DEF Cn!SetDisableClientTimeout
  <2>2. \/ thread' = [thread EXCEPT !["gui"] = [at |-> "join", job |-> [at |-> "disconnect"]]]
        \/ thread' = [thread EXCEPT !["gui"] = [at |-> "idle"]]
    BY <1>10 DEF Cn!SetDisableClientTimeout
  <2> QED
    BY <1>2, <1>3, <2>1, <2>2 DEF Open
<1>11. CASE Cn!Join
  BY <1>1, <1>11 DEF Cn!Join, ConnectionInv, Open, Agree, Work
<1> QED
  BY <1>4, <1>5, <1>6, <1>7, <1>8, <1>9, <1>10, <1>11

LEMMA SignalStep ==
  ASSUME ConnectionInv, NEW yes \in BOOLEAN, Cn!HandleSignal(yes)
  PROVE ConnectionInv'
<1>1. /\ thread["gui"].at = "idle" /\ signals # <<>> /\ signals' = Tail(signals)
      /\ widget' = Cn!Handled(Head(signals)) /\ UNCHANGED <<conn, link, overtaken>>
  BY DEF Cn!HandleSignal, Cn!GuiIdle, Cn!Idle
<1>2. DOMAIN thread = {"gui", "worker", "router"} /\ Agree /\ WorkerSpeaks /\ RouterSpeaks /\ Told
  BY <1>1 DEF ConnectionInv, Open
<1>3. /\ DOMAIN thread' = DOMAIN thread /\ thread'["worker"] = thread["worker"] /\ thread'["router"] = thread["router"]
      /\ thread'["gui"].at # "emit"
      /\ thread'["gui"].at = "join" => thread'["gui"].job.at = "connect"
  BY <1>1, <1>2 DEF Cn!HandleSignal
<1>4. Agree' /\ WorkerSpeaks' /\ RouterSpeaks'
  BY <1>1, <1>2, <1>3 DEF Agree, Work, WorkerSpeaks, RouterSpeaks, Speech
<1>5. signals' \in Seq(Emitted) /\ (Settled' => Settled)
  BY <1>1, <1>2, <1>3 DEF Told, Settled, Pending
<1>6. ASSUME NEW s \in Endings, Tells(signals, widget, s)
      PROVE Tells(signals', widget', s) /\ {"connect", "disconnect"} \subseteq DOMAIN widget'
  BY <1>1, <1>2, <1>6, TellsHandled DEF Told
<1>7. {"connect", "disconnect"} \subseteq DOMAIN widget'
  BY <1>1, <1>2 DEF Cn!Handled, Told
<1>8. Told'
  BY <1>1, <1>2, <1>3, <1>5, <1>6, <1>7 DEF Told, Endings
<1> QED
  BY <1>2, <1>3, <1>4, <1>8 DEF ConnectionInv

LEMMA ConnectionStep == ConnectionInv /\ [Cn!Next]_Cn!vars => ConnectionInv'
<1> SUFFICES ASSUME ConnectionInv, [Cn!Next]_Cn!vars PROVE ConnectionInv'
  OBVIOUS
<1>1. CASE Cn!ThreadStep("gui")
  <2>1. DOMAIN thread' = DOMAIN thread
    BY <1>1 DEF Cn!ThreadStep, Cn!ConnectTool, Cn!Connect, Cn!ConnectFailed, Cn!SyncDisconnectTool,
       Cn!Disconnect, Cn!OnRouterDisconnected, Cn!Reconnect, Cn!EmitSignals, Cn!Goto
  <2> QED
    BY <1>1, <2>1, GuiEnds DEF ConnectionInv
<1>2. CASE Cn!ThreadStep("worker")
  <2>1. CASE thread["gui"].at \in Open
    BY <1>2, <2>1, WorkerStep
  <2>2. CASE thread["gui"].at \notin Open
    BY <1>2, <2>2, WorkerOnly DEF ConnectionInv
  <2> QED
    BY <2>1, <2>2
<1>3. CASE UNCHANGED Cn!vars
  BY <1>3 DEF Cn!vars, ConnectionInv, Agree, Work, WorkerSpeaks, RouterSpeaks, Speech, Told, Settled, Pending
<1> QED
  BY <1>1, <1>2, <1>3, RouterStep, UserStep, SignalStep DEF Cn!Next

(* Once everything under way has come to its end, the widget offers what the    *)
(* connection allows, whatever was clicked, failed or lost on the way, however *)
(* often and however late a thread sends its signals; it offers nothing only     *)
(* after a NetDisconnecting that was sent when the router had gone already and    *)
(* NetDisconnected been sent (SyncDisconnectTool, OnRouterDisconnected,          *)
(* ConnectionWidget's slots).                                               *)
THEOREM WidgetShowsConnection == Cn!Spec => []WidgetFollows
<1>1. ConnectionInv => WidgetFollows
  <2> SUFFICES ASSUME ConnectionInv, Cn!Quiet
      PROVE conn \in {"Connected", "Disconnected"} /\ widget.connect = (conn = "Disconnected" /\ ~overtaken)
            /\ widget.disconnect = (conn = "Connected")
    BY DEF WidgetFollows, Cn!WidgetFollows
  <2>1. thread["gui"].at = "idle" /\ thread["worker"].at = "idle" /\ thread["router"] = Cn!Idle
    BY DEF ConnectionInv, Cn!Quiet, Cn!Idle
  <2>2. Agree /\ Told
    BY <2>1 DEF ConnectionInv, Open
  <2>3. conn \in {"Connected", "Disconnected"}
    BY <2>1, <2>2 DEF Agree, Work, Cn!Quiet
  <2>4. conn = "Connected" => Reads(widget, "NetConnected")
    BY <2>1, <2>2, EmptyTells DEF Told, Cn!Quiet
  <2>5. conn = "Disconnected" => Reads(widget, IF overtaken THEN "NetDisconnecting" ELSE "NetDisconnected")
    BY <2>1, <2>2, EmptyTells DEF Told, Settled, Pending, Cn!Quiet
  <2> QED
    BY <2>3, <2>4, <2>5 DEF Reads
<1> QED
  BY <1>1, ConnectionInit, ConnectionStep, PTL DEF Cn!Spec

(* ----- CommandLine: the trigger of an automatic capture. -----            *)

(* A number in the range of a uint32_t is its own remainder.                *)
LEMMA SmallRemainder ==
  ASSUME NEW n \in Nat \ {0}, NEW x \in 0 .. n - 1
  PROVE  x % n = x
BY SMTT(20)

(* CaptureCli's ParseAutoCapture, ConfigureProfilingAutoCapture and              *)
(* RgpUbertraceClient::GenerateController: for every command line, a trigger       *)
(* that is accepted comes, uint32_t arithmetic included.                     *)
THEOREM AutoCapturesFire ==
  ASSUME cl.auto.args \in Seq(Int)
  PROVE  AcceptedTriggersFire
<1> DEFINE c == Config(cl)
           args == cl.auto.args
<1>1. ASSUME Accepted(cl), c.auto # "none"
      PROVE  ParseAutoCapture(cl.auto) /\ c.auto = cl.auto.key /\ "rgp-auto-capture" \in cl.given
  BY <1>1 DEF Accepted, ProfilingOk, Config
<1>2. ASSUME Accepted(cl), AutoCaptureMode(c) = "FrameIndex"
      PROVE  PrepStartIndex(c) + kNumPreparationFrames + 1 = c.frame
  <2>1. c.auto = "frame"
    BY <1>2 DEF AutoCaptureMode
  <2>2. ParseAutoCapture(cl.auto) /\ cl.auto.key = "frame" /\ c.frame = FrameIndex(args)
    BY <1>1, <1>2, <2>1 DEF Config
  <2>3. c.frame >= 5 /\ Len(args) \in Nat /\ \A k \in 1 .. Len(args) : SegmentOk(args[k])
    BY <2>2 DEF ParseAutoCapture, kFrameCaptureIndexMinimum
  <2>4. c.frame \in 5 .. UintRange - 1
    <3>1. CASE args = <<>>
      BY <2>2, <3>1, UintAssumption DEF FrameIndex, kFrameCaptureIndexMinimum
    <3>2. CASE args # <<>>
      <4>1. SegmentOk(args[1])
        BY <2>3, <3>2
      <4>2. c.frame = args[1] /\ args[1] # Blank
        BY <2>2, <2>3, <3>2 DEF FrameIndex
      <4> QED
        BY <2>3, <4>1, <4>2, UintAssumption DEF SegmentOk, ParseNumber
    <3> QED
      BY <3>1, <3>2
  <2>5. PrepStartIndex(c) = (c.frame - 5) % UintRange
    <3>1. c.frame - kNumPreparationFrames - 1 = c.frame - 5
      BY <2>4, UintAssumption DEF kNumPreparationFrames
    <3> QED
      BY <1>2, <3>1 DEF PrepStartIndex
  <2> HIDE DEF c
  <2>6. (c.frame - 5) % UintRange = c.frame - 5
    <3>1. c.frame - 5 \in 0 .. UintRange - 1 /\ UintRange \in Nat \ {0}
      BY <2>4, UintAssumption
    <3> QED
      BY <3>1, SmallRemainder
  <2> QED
    BY <2>4, <2>5, <2>6, UintAssumption DEF kNumPreparationFrames
<1>3. ASSUME Accepted(cl), AutoCaptureMode(c) = "DispatchIndices"
      PROVE  PrepStartIndex(c) >= 1 /\ c.count >= 1
  <2>1. c.auto = "dispatch" /\ PrepStartIndex(c) = c.start
    BY <1>3 DEF AutoCaptureMode, PrepStartIndex
  <2>2. /\ ParseAutoCapture(cl.auto) /\ cl.auto.key = "dispatch"
        /\ c.start = DispatchStart(args) /\ c.count = DispatchCount(args)
    BY <1>1, <1>3, <2>1 DEF Config
  <2>3. c.start >= 1 /\ Len(args) \in Nat /\ \A k \in 1 .. Len(args) : SegmentOk(args[k])
    BY <2>2 DEF ParseAutoCapture, kDispatchStartIndexMinimum
  <2>4. c.count >= 1
    <3>1. CASE Len(args) < 2 \/ args[2] \in {Blank, 0}
      BY <2>2, <3>1 DEF DispatchCount
    <3>2. CASE ~(Len(args) < 2 \/ args[2] \in {Blank, 0})
      <4>1. SegmentOk(args[2]) /\ c.count = args[2]
        BY <2>2, <2>3, <3>2 DEF DispatchCount
      <4> QED
        BY <3>2, <4>1, UintAssumption DEF SegmentOk, ParseNumber
    <3> QED
      BY <3>1, <3>2
  <2> QED
    BY <2>1, <2>3, <2>4
<1> QED
  BY <1>2, <1>3 DEF AcceptedTriggersFire

(* ----- Support: what a client is given for its system. -----              *)

(* The least number principle, from the well-foundedness of <.              *)
LEMMA LeastNumber ==
  ASSUME NEW T, T \subseteq Nat, T # {}
  PROVE  \E m \in T : \A n \in T : m <= n
<1>1. PICK m \in T : \A y \in T : ~ (<<y, m>> \in OpToRel(<, Nat))
  BY NatLessThanWellFounded, WFMin, Zenon
<1>2. ASSUME NEW y \in T, y < m PROVE FALSE
  <2>1. <<y, m>> \in OpToRel(<, Nat)
    BY <1>2, Zenon DEF OpToRel
  <2> QED
    BY <1>1, <2>1, Zenon
<1> QED
  BY <1>2

(* A version that is not too old is not older, and newer ones are not either. *)
LEMMA VersionOrder ==
  ASSUME NEW d, d[1] \in Int, d[2] \in Int, NEW major \in Int, NEW minor \in Int
  PROVE  /\ Su!IsDriverTooOld(d, major, minor) <=> ~Su!NotOlder(d, <<major, minor>>)
         /\ \A e : e[1] \in Int /\ e[2] \in Int /\ Su!NotOlder(e, d) /\ ~Su!IsDriverTooOld(d, major, minor)
                     => ~Su!IsDriverTooOld(e, major, minor)
BY DEF Su!IsDriverTooOld, Su!NotOlder

(* Of the drivers of a system there is a newest.                            *)
LEMMA NewestDriver ==
  ASSUME NEW info \in Infos
  PROVE  Su!GetNewestDriver(info)[1] \in Int /\ Su!GetNewestDriver(info)[2] \in Int
<1> DEFINE D == info.drivers
<1>1. \A d \in {info.driver} \cup D : d[1] \in 0 .. UintRange - 1 /\ d[2] \in 0 .. UintRange - 1
  BY InfosAssumption
<1>2. CASE D = {}
  BY <1>1, <1>2, UintAssumption DEF Su!GetNewestDriver
<1>3. CASE D # {}
  <2>1. PICK d \in D : \A e \in D : e[1] <= d[1]
    <3> DEFINE T == {UintRange - x[1] : x \in D}
    <3>1. T \subseteq Nat /\ T # {}
      BY <1>1, <1>3, UintAssumption
    <3>2. \E m \in T : \A n \in T : m <= n
      <4> HIDE DEF T
      <4> QED
        BY <3>1, LeastNumber
    <3>3. PICK x \in D : \A y \in D : UintRange - x[1] <= UintRange - y[1]
      BY <3>2
    <3>4. \A y \in D : y[1] <= x[1]
      BY <1>1, <3>3, UintAssumption
    <3> QED
      BY <3>4
  <2>2. PICK f \in D : f[1] = d[1] /\ \A e \in D : e[1] = d[1] => e[2] <= f[2]
    <3> DEFINE T == {UintRange - x[2] : x \in {y \in D : y[1] = d[1]}}
    <3>1. T \subseteq Nat /\ T # {}
      BY <1>1, UintAssumption
    <3>2. \E m \in T : \A n \in T : m <= n
      <4> HIDE DEF T
      <4> QED
        BY <3>1, LeastNumber
    <3>3. PICK x \in {y \in D : y[1] = d[1]} : \A y \in {z \in D : z[1] = d[1]} : UintRange - x[2] <= UintRange - y[2]
      BY <3>2
    <3>4. x \in D /\ x[1] = d[1] /\ \A y \in D : y[1] = d[1] => y[2] <= x[2]
      BY <1>1, <3>3, UintAssumption
    <3> QED
      BY <3>4
  <2>3. \A e \in D : Su!NotOlder(f, e)
    BY <1>1, <2>1, <2>2, UintAssumption DEF Su!NotOlder
  <2>4. Su!GetNewestDriver(info) \in D
    BY <1>3, <2>3 DEF Su!GetNewestDriver
  <2> QED
    BY <1>1, <2>4, UintAssumption
<1> QED
  BY <1>2, <1>3

(* A source that has heard of the router and is enabled has its support.       *)
SupportInv ==
  /\ router \in Infos \cup {Down, Unreadable}
  /\ DOMAIN reason = Su!Sources
  /\ router # Down =>
       /\ "rgd" \notin heard /\ reason["rgd"] = "kEnabled" =>
            /\ router \in Infos /\ Su!GetReasonRgdShouldBeDisabled(router) = "kEnabled"
            /\ rgd = Su!RgdSupport(router) /\ apis = Su!RgdSupport(router).apis
       /\ "rgp" \notin heard /\ reason["rgp"] = "kEnabled" => router \in Infos /\ rgp = Su!RgpSupport(router)
       /\ "rra" \notin heard /\ reason["rra"] = "kEnabled" => router \in Infos
  /\ Su!ClientFitsSystem

LEMMA SupportInit == Su!Init => SupportInv
BY DEF Su!Init, SupportInv, Su!ClientFitsSystem, Su!Sources

(* What a client is made as.                                                *)
LEMMA ClientFits ==
  ASSUME SupportInv, NEW s \in Su!Sources, NEW api \in Su!Apis, NEW old \in BOOLEAN, Su!CreateClient(s, api, old)
  PROVE  Su!ClientFitsSystem'
<1>1. /\ router # Down /\ heard = {} /\ reason[s] = "kEnabled" /\ router \in Infos
      /\ client'.source = s /\ client'.api = api /\ client'.legacy = old /\ client'.info = router
  BY DEF Su!CreateClient, SupportInv, Su!Sources
<1>2. router.driver[1] \in Int /\ router.driver[2] \in Int
  BY <1>1, InfosAssumption, UintAssumption
<1>3. CASE s = "rgd"
  <2>1. /\ Su!GetReasonRgdShouldBeDisabled(router) = "kEnabled"
        /\ rgd = Su!RgdSupport(router) /\ apis = Su!RgdSupport(router).apis
    BY <1>1, <1>3 DEF SupportInv
  <2>2. client'.kind = (IF rgd.ubertrace THEN "ubertrace" ELSE "plain") /\ api \in apis
    BY <1>3 DEF Su!CreateClient, Su!RgdClientKind
  <2>3. client'.kind = "ubertrace" <=> Su!NotOlder(router.driver, <<24, 20>>)
    <3>1. rgd.ubertrace = ~Su!IsDriverTooOld(router.driver, 24, 20)
      BY <2>1 DEF Su!RgdSupport
    <3>2. Su!IsDriverTooOld(router.driver, 24, 20) <=> ~Su!NotOlder(router.driver, <<24, 20>>)
      BY <1>2, VersionOrder
    <3>3. CASE Su!IsDriverTooOld(router.driver, 24, 20)
      BY <2>2, <3>1, <3>2, <3>3
    <3>4. CASE ~Su!IsDriverTooOld(router.driver, 24, 20)
      BY <2>2, <3>1, <3>2, <3>4
    <3> QED
      BY <3>3, <3>4
  <2>4. api = "Vulkan" => Su!NotOlder(router.driver, <<23, 30>>)
    BY <1>2, <2>1, <2>2, VersionOrder DEF Su!RgdSupport
  <2>5. \E gpu \in router.gpus : Su!RgdGpuSupported(gpu)
    BY <2>1 DEF Su!GetReasonRgdShouldBeDisabled
  <2> QED
    BY <1>1, <1>3, <2>3, <2>4, <2>5 DEF Su!ClientFitsSystem
<1>4. CASE s = "rgp"
  <2> DEFINE newest == Su!GetNewestDriver(router)
  <2>1. rgp = Su!RgpSupport(router)
    BY <1>1, <1>4 DEF SupportInv
  <2>2. client'.kind = Su!RgpClientKind(api, old)
    BY <1>4 DEF Su!CreateClient
  <2>3. newest[1] \in Int /\ newest[2] \in Int
    BY <1>1, NewestDriver
  <2>4. rgp.ubertrace = ~Su!IsDriverTooOld(newest, 24, 30) /\ rgp.driver = newest
    BY <2>1 DEF Su!RgpSupport
  <2> HIDE DEF newest
  <2>5. /\ Su!IsDriverTooOld(newest, 24, 30) <=> ~Su!NotOlder(newest, <<24, 30>>)
        /\ Su!IsDriverTooOld(newest, 25, 30) <=> ~Su!NotOlder(newest, <<25, 30>>)
        /\ Su!NotOlder(newest, <<25, 30>>) => Su!NotOlder(newest, <<24, 30>>)
    BY <2>3 DEF Su!IsDriverTooOld, Su!NotOlder
  <2>6. client'.kind = "ubertrace" <=>
          ~old /\ Su!NotOlder(newest, IF Su!IsComputeApi(api) THEN <<25, 30>> ELSE <<24, 30>>)
    BY <2>2, <2>4, <2>5 DEF Su!RgpClientKind
  <2> QED
    BY <1>1, <1>4, <2>6 DEF Su!ClientFitsSystem, newest
<1>5. CASE s = "rra"
  BY <1>1, <1>5 DEF Su!ClientFitsSystem
<1> QED
  BY <1>3, <1>4, <1>5 DEF Su!Sources

LEMMA SupportStep == SupportInv /\ [Su!Next]_Su!vars => SupportInv'
<1> SUFFICES ASSUME SupportInv, [Su!Next]_Su!vars PROVE SupportInv'
  OBVIOUS
<1> USE InfosAssumption
<1>1. CASE Su!RouterChanges
  BY <1>1 DEF Su!RouterChanges, SupportInv, Su!ClientFitsSystem, Su!Sources
<1>2. CASE Su!RgdRouterChanged
  <2>1. Su!ClientFitsSystem'
    BY <1>2 DEF Su!RgdRouterChanged, SupportInv, Su!ClientFitsSystem
  <2>2. UNCHANGED <<router, rgp, rra>> /\ heard' = heard \ {"rgd"}
    BY <1>2 DEF Su!RgdRouterChanged
  <2>3. /\ DOMAIN reason' = Su!Sources
        /\ reason'["rgp"] = reason["rgp"] /\ reason'["rra"] = reason["rra"]
        /\ router # Down /\ reason'["rgd"] = "kEnabled" =>
             /\ router \in Infos /\ Su!GetReasonRgdShouldBeDisabled(router) = "kEnabled"
             /\ rgd' = Su!RgdSupport(router) /\ apis' = Su!RgdSupport(router).apis
    <3>1. CASE router = Down
      <4>1. reason' = [reason EXCEPT !["rgd"] = "kEnabled"]
        BY <1>2, <3>1 DEF Su!RgdRouterChanged
      <4> QED
        BY <3>1, <4>1 DEF SupportInv, Su!Sources
    <3>2. CASE router = Unreadable
      <4>1. reason' = [reason EXCEPT !["rgd"] = "kEncounteredError"]
        BY <1>2, <3>2 DEF Su!RgdRouterChanged
      <4> QED
        BY <3>2, <4>1 DEF SupportInv, Su!Sources
    <3>3. CASE router \in Infos
      <4>1. /\ reason' = [reason EXCEPT !["rgd"] = Su!GetReasonRgdShouldBeDisabled(router)]
            /\ reason'["rgd"] = "kEnabled" => rgd' = Su!RgdSupport(router) /\ apis' = Su!RgdSupport(router).apis
        BY <1>2, <3>3 DEF Su!RgdRouterChanged
      <4> QED
        BY <3>3, <4>1 DEF SupportInv, Su!Sources
    <3> QED
      BY <3>1, <3>2, <3>3 DEF SupportInv
  <2> QED
    BY <2>1, <2>2, <2>3 DEF SupportInv
<1>3. CASE Su!RgpRouterChanged
  <2>1. Su!ClientFitsSystem'
    BY <1>3 DEF Su!RgpRouterChanged, SupportInv, Su!ClientFitsSystem
  <2> QED
    BY <1>3, <2>1 DEF Su!RgpRouterChanged, SupportInv, Su!Sources
<1>4. CASE Su!RraRouterChanged
  <2>1. Su!ClientFitsSystem'
    BY <1>4 DEF Su!RraRouterChanged, SupportInv, Su!ClientFitsSystem
  <2> QED
    BY <1>4, <2>1 DEF Su!RraRouterChanged, SupportInv, Su!Sources
<1>5. ASSUME NEW s \in Su!Sources, NEW api \in Su!Apis, NEW old \in BOOLEAN, Su!CreateClient(s, api, old)
      PROVE  SupportInv'
  <2>1. UNCHANGED <<router, heard, reason, apis, rgd, rgp, rra>>
    BY <1>5 DEF Su!CreateClient
  <2>2. Su!ClientFitsSystem'
    BY <1>5, ClientFits
  <2> QED
    BY <2>1, <2>2 DEF SupportInv
<1>6. CASE UNCHANGED Su!vars
  BY <1>6 DEF Su!vars, SupportInv, Su!ClientFitsSystem
<1> QED
  BY <1>1, <1>2, <1>3, <1>4, <1>5, <1>6 DEF Su!Next

(* A newer driver of the same system: each capability is a version not too old. *)
LEMMA NewerLosesNothing ==
  ASSUME router \in Infos
  PROVE  Su!NewerDriverLosesNothing
<1> SUFFICES ASSUME NEW other \in Infos, [other EXCEPT !.driver = router.driver] = router, other.drivers = {},
                    Su!NotOlder(other.driver, router.driver)
    PROVE  /\ Su!GetReasonRgdShouldBeDisabled(router) = "kEnabled" => Su!GetReasonRgdShouldBeDisabled(other) = "kEnabled"
           /\ Su!RgdSupport(router).apis \subseteq Su!RgdSupport(other).apis
           /\ \A f \in {"ubertrace", "hca", "gpr"} : Su!RgdSupport(router)[f] => Su!RgdSupport(other)[f]
           /\ Su!RgpSupport(router).ubertrace => Su!RgpSupport(other).ubertrace
           /\ Su!RgpSupport(router).instrument => Su!RgpSupport(other).instrument
           /\ Su!RgpSupport(router).spm \subseteq Su!RgpSupport(other).spm
           /\ Su!RraSupport(router).rayHistory => Su!RraSupport(other).rayHistory
  BY DEF Su!NewerDriverLosesNothing
<1> DEFINE d == router.driver
           e == other.driver
<1>1. d[1] \in Int /\ d[2] \in Int /\ e[1] \in Int /\ e[2] \in Int
  BY InfosAssumption, UintAssumption
<1>2. router.os = other.os /\ router.gpus = other.gpus /\ router.drivers = {}
  <2>1. other = [os |-> other.os, driver |-> other.driver, drivers |-> other.drivers, gpus |-> other.gpus]
    BY InfosAssumption
  <2>2. router = [os |-> other.os, driver |-> router.driver, drivers |-> other.drivers, gpus |-> other.gpus]
    BY <2>1
  <2> QED
    BY <2>2
<1>3. Su!GetNewestDriver(router) = d /\ Su!GetNewestDriver(other) = e
  BY <1>2 DEF Su!GetNewestDriver
<1>4. \A major, minor \in Int : ~Su!IsDriverTooOld(d, major, minor) => ~Su!IsDriverTooOld(e, major, minor)
  BY <1>1, VersionOrder
<1> HIDE DEF d, e
<1>5. Su!GetReasonRgdShouldBeDisabled(router) = "kEnabled" => Su!GetReasonRgdShouldBeDisabled(other) = "kEnabled"
  BY <1>2, <1>4 DEF Su!GetReasonRgdShouldBeDisabled, d, e
<1>6. \A gpu : Su!HardwareCrashGpu(gpu, d) => Su!HardwareCrashGpu(gpu, e)
  BY <1>4 DEF Su!HardwareCrashGpu
<1>7. Su!RgdSupport(router).apis \subseteq Su!RgdSupport(other).apis
  BY <1>4 DEF Su!RgdSupport, d, e, Su!kRgdSupportedApis
<1>8. \A f \in {"ubertrace", "hca", "gpr"} : Su!RgdSupport(router)[f] => Su!RgdSupport(other)[f]
  <2> DEFINE OnGpu(info) == \E gpu \in info.gpus : Su!HardwareCrashGpu(gpu, info.driver)
  <2>1. \A info : /\ Su!RgdSupport(info).ubertrace = ~Su!IsDriverTooOld(info.driver, 24, 20)
                  /\ Su!RgdSupport(info).hca = (OnGpu(info) /\ ~Su!IsDriverTooOld(info.driver, 24, 30))
                  /\ Su!RgdSupport(info).gpr = ~Su!IsDriverTooOld(info.driver, 25, 20)
    BY DEF Su!RgdSupport
  <2>2. OnGpu(router) => OnGpu(other)
    BY <1>2, <1>6 DEF d, e
  <2>3. /\ ~Su!IsDriverTooOld(d, 24, 20) => ~Su!IsDriverTooOld(e, 24, 20)
        /\ ~Su!IsDriverTooOld(d, 24, 30) => ~Su!IsDriverTooOld(e, 24, 30)
        /\ ~Su!IsDriverTooOld(d, 25, 20) => ~Su!IsDriverTooOld(e, 25, 20)
    BY <1>4
  <2> HIDE DEF OnGpu
  <2> QED
    BY <2>1, <2>2, <2>3, Zenon DEF d, e
<1>9. /\ Su!RgpSupport(router).ubertrace => Su!RgpSupport(other).ubertrace
      /\ Su!RgpSupport(router).instrument => Su!RgpSupport(other).instrument
      /\ Su!RraSupport(router).rayHistory => Su!RraSupport(other).rayHistory
  <2>1. \A info : /\ Su!RgpSupport(info).ubertrace = ~Su!IsDriverTooOld(Su!GetNewestDriver(info), 24, 30)
                  /\ Su!RgpSupport(info).instrument = ~Su!IsDriverTooOld(Su!GetNewestDriver(info), 24, 10)
                  /\ Su!RraSupport(info).rayHistory = ~Su!IsDriverTooOld(Su!GetNewestDriver(info), 23, 20)
    BY DEF Su!RgpSupport, Su!RraSupport
  <2>2. /\ ~Su!IsDriverTooOld(d, 24, 30) => ~Su!IsDriverTooOld(e, 24, 30)
        /\ ~Su!IsDriverTooOld(d, 24, 10) => ~Su!IsDriverTooOld(e, 24, 10)
        /\ ~Su!IsDriverTooOld(d, 23, 20) => ~Su!IsDriverTooOld(e, 23, 20)
    BY <1>4
  <2> QED
    BY <1>3, <2>1, <2>2, Zenon
<1>10. \A gpu : Su!IsSpmCaptureSupported(gpu, router) => Su!IsSpmCaptureSupported(gpu, other)
  BY <1>2, <1>3, <1>4 DEF Su!IsSpmCaptureSupported
<1>11. Su!RgpSupport(router).spm \subseteq Su!RgpSupport(other).spm
  BY <1>2, <1>10 DEF Su!RgpSupport
<1> QED
  BY <1>5, <1>7, <1>8, <1>9, <1>11

(* RouterConnectionStatusChanged of the three sources and their client          *)
(* factories: a client has what its own system can do and not what a system       *)
(* before it could, and a newer driver loses none of it, for any systems.       *)
THEOREM ClientsFitTheirSystem == Su!Spec => []SupportFits
<1>1. SupportInv => SupportFits
  BY NewerLosesNothing DEF SupportInv, SupportFits, Su!SupportFits, Su!NewerDriverLosesNothing
<1> QED
  BY <1>1, SupportInit, SupportStep, PTL DEF Su!Spec

(* ----- The matcher of wildcards. -----                                      *)

(* The characters have a code; the terminating zero has none.                  *)
LEMMA CharsAreNotEnd == Wc!End \notin Wc!Chars
BY DEF Wc!Chars, Wc!Letters, Wc!End

LEMMA AtEnd ==
  ASSUME NEW s \in Seq(Wc!Chars), NEW k \in Nat \ {0}
  PROVE  Wc!At(s, k) = Wc!End <=> k > Len(s)
<1>1. CASE k <= Len(s)
  <2>1. s[k] \in Wc!Chars
    BY <1>1, ElementOfSeq
  <2> QED
    BY <1>1, <2>1, CharsAreNotEnd, LenProperties DEF Wc!At
<1>2. CASE ~(k <= Len(s))
  BY <1>2, LenProperties DEF Wc!At
<1> QED
  BY <1>1, <1>2

(* A class that is closed ends behind its bracket, and a token in the pattern.  *)
LEMMA ClassEnds ==
  ASSUME NEW s \in Seq(Wc!Chars), NEW k \in Nat \ {0}, Wc!ClassEnd(s, k) # 0
  PROVE  Wc!ClassEnd(s, k) \in k + 1 .. Len(s)
<1> DEFINE from == IF Wc!At(s, Wc!ClassStart(s, k)) = "]" THEN Wc!ClassStart(s, k) + 1 ELSE Wc!ClassStart(s, k)
           ends == {e \in from .. Len(s) : s[e] = "]"}
<1>1. from \in Nat /\ from >= k + 1 /\ Len(s) \in Nat
  BY LenProperties DEF Wc!ClassStart
<1>2. Wc!ClassEnd(s, k) = IF ends = {} THEN 0 ELSE CHOOSE x \in ends : \A y \in ends : x =< y
  BY DEF Wc!ClassEnd, Wc!Min
<1> HIDE DEF from
<1>3. ends \subseteq k + 1 .. Len(s) /\ ends \subseteq Nat
  BY <1>1
<1>4. ends # {}
  BY <1>2
<1>5. \E x \in ends : \A y \in ends : x =< y
  <2> HIDE DEF ends
  <2> QED
    BY <1>3, <1>4, LeastNumber
<1> QED
  BY <1>2, <1>3, <1>4, <1>5

LEMMA AfterToken ==
  ASSUME NEW s \in Seq(Wc!Chars), NEW k \in 1 .. Len(s)
  PROVE  Wc!After(s, k) \in k + 1 .. Len(s) + 1
<1>1. Len(s) \in Nat /\ k \in Nat \ {0} /\ k + 1 \in Nat \ {0}
  BY LenProperties
<1>2. CASE Wc!IsEscape(s, k)
  <2>1. k + 1 <= Len(s)
    BY <1>1, <1>2, AtEnd DEF Wc!IsEscape
  <2> QED
    BY <1>1, <1>2, <2>1 DEF Wc!After
<1>3. CASE ~Wc!IsEscape(s, k) /\ Wc!IsClass(s, k)
  BY <1>1, <1>3, ClassEnds DEF Wc!After, Wc!IsClass
<1>4. CASE ~Wc!IsEscape(s, k) /\ ~Wc!IsClass(s, k)
  BY <1>1, <1>4 DEF Wc!After
<1> QED
  BY <1>2, <1>3, <1>4

(* Rests is a function that its recursive equation has: it is built from the    *)
(* end of the pattern, a position at a time.                                 *)
Equation(nm, s, f, k) == f[k] = Wc!Accounts(nm, s, k, f[Wc!After(s, k)])

LEMMA RestsExtend ==
  ASSUME NEW nm, NEW s \in Seq(Wc!Chars), NEW m \in Nat, m < Len(s),
         NEW f, \A k \in Len(s) + 1 - m .. Len(s) + 1 : Equation(nm, s, f, k)
  PROVE  \E g : \A k \in Len(s) + 1 - (m + 1) .. Len(s) + 1 : Equation(nm, s, g, k)
<1> DEFINE pos == Len(s) - m
           g == [k \in 1 .. Len(s) + 1 |-> IF k = pos THEN Wc!Accounts(nm, s, k, f[Wc!After(s, k)]) ELSE f[k]]
<1>1. Len(s) \in Nat /\ pos \in 1 .. Len(s) /\ Len(s) + 1 - (m + 1) = pos /\ Len(s) + 1 - m = pos + 1
  BY LenProperties
<1>2. ASSUME NEW k \in pos .. Len(s) + 1 PROVE Equation(nm, s, g, k)
  <2>1. CASE k <= Len(s)
    <3>1. Wc!After(s, k) \in k + 1 .. Len(s) + 1
      BY <1>1, <2>1, AfterToken
    <3>2. g[Wc!After(s, k)] = f[Wc!After(s, k)]
      BY <1>1, <3>1
    <3>3. CASE k = pos
      BY <1>1, <3>2, <3>3 DEF Equation
    <3>4. CASE k # pos
      <4>1. k \in pos + 1 .. Len(s) + 1 /\ k \in 1 .. Len(s) + 1
        <5> HIDE DEF pos, g
        <5> QED
          BY <1>1, <3>4
      <4>2. g[k] = f[k]
        BY <3>4, <4>1
      <4> QED
        BY <1>1, <3>2, <4>1, <4>2 DEF Equation
    <3> QED
      BY <3>3, <3>4
  <2>2. CASE k > Len(s)
    <3>1. k = Len(s) + 1 /\ k # pos
      BY <1>1, <2>2
    <3>2. g[k] = f[k] /\ k \in pos + 1 .. Len(s) + 1
      BY <1>1, <3>1
    <3>3. Equation(nm, s, f, k)
      BY <1>1, <3>2
    <3> QED
      BY <2>2, <3>2, <3>3 DEF Equation, Wc!Accounts
  <2> QED
    BY <1>1, <2>1, <2>2
<1> HIDE DEF g
<1> QED
  BY <1>1, <1>2

LEMMA RestsExist ==
  ASSUME NEW nm, NEW s \in Seq(Wc!Chars)
  PROVE  \E f : \A k \in 1 .. Len(s) + 1 : Equation(nm, s, f, k)
<1> DEFINE Built(m) == \E f : \A k \in Len(s) + 1 - m .. Len(s) + 1 : Equation(nm, s, f, k)
           T == {m \in 0 .. Len(s) : ~Built(m)}
<1>1. Len(s) \in Nat
  BY LenProperties
<1>2. Built(0)
  <2> DEFINE f == [k \in {Len(s) + 1} |-> {Len(nm) + 1}]
  <2>1. \A k \in Len(s) + 1 - 0 .. Len(s) + 1 : k = Len(s) + 1 /\ k > Len(s)
    BY <1>1
  <2>2. \A k \in Len(s) + 1 - 0 .. Len(s) + 1 : f[k] = {Len(nm) + 1}
    BY <2>1
  <2> HIDE DEF f
  <2>3. \A k \in Len(s) + 1 - 0 .. Len(s) + 1 : Equation(nm, s, f, k)
    BY <2>1, <2>2 DEF Equation, Wc!Accounts
  <2> QED
    BY <2>3
<1>3. ASSUME NEW m \in Nat, m < Len(s), Built(m) PROVE Built(m + 1)
  BY <1>3, RestsExtend
<1> HIDE DEF Built
<1>4. T = {}
  <2> SUFFICES ASSUME T # {} PROVE FALSE
    OBVIOUS
  <2>1. PICK m \in T : \A y \in T : m <= y
    <3>1. T \subseteq Nat
      BY <1>1
    <3> HIDE DEF T
    <3> QED
      BY <3>1, LeastNumber
  <2>2. m # 0 /\ m \in Nat /\ m - 1 \in Nat /\ m - 1 < Len(s) /\ m - 1 + 1 = m
    BY <1>1, <1>2, <2>1
  <2>3. Built(m - 1)
    BY <1>1, <2>1, <2>2
  <2> QED
    BY <1>3, <2>1, <2>2, <2>3
<1>5. Built(Len(s))
  BY <1>1, <1>4
<1>6. Len(s) + 1 - Len(s) = 1
  BY <1>1
<1> QED
  BY <1>5, <1>6 DEF Built

LEMMA RestsEquation ==
  ASSUME NEW nm, NEW s \in Seq(Wc!Chars), NEW k \in 1 .. Len(s) + 1
  PROVE  Wc!Rests(nm, s)[k] = Wc!Accounts(nm, s, k, Wc!Rests(nm, s)[Wc!After(s, k)])
<1> DEFINE D == 1 .. Len(s) + 1
           R == Wc!Rests(nm, s)
<1>1. R = CHOOSE f : f = [j \in D |-> Wc!Accounts(nm, s, j, f[Wc!After(s, j)])]
  BY DEF Wc!Rests
<1>2. \E f : f = [j \in D |-> Wc!Accounts(nm, s, j, f[Wc!After(s, j)])]
  <2>1. PICK f : \A j \in D : Equation(nm, s, f, j)
    BY RestsExist
  <2> DEFINE g == [j \in D |-> f[j]]
  <2>2. ASSUME NEW j \in D PROVE g[j] = Wc!Accounts(nm, s, j, g[Wc!After(s, j)])
    <3>1. CASE j > Len(s)
      BY <2>1, <3>1 DEF Equation, Wc!Accounts
    <3>2. CASE ~(j > Len(s))
      <4>1. Wc!After(s, j) \in j + 1 .. Len(s) + 1
        BY <3>2, AfterToken, LenProperties
      <4>2. Wc!After(s, j) \in D
        BY <4>1, LenProperties
      <4> QED
        BY <2>1, <4>2 DEF Equation
    <3> QED
      BY <3>1, <3>2
  <2>3. g = [j \in D |-> g[j]]
    OBVIOUS
  <2> HIDE DEF g
  <2>4. g = [j \in D |-> Wc!Accounts(nm, s, j, g[Wc!After(s, j)])]
    BY <2>2, <2>3
  <2> QED
    BY <2>4
<1>3. R = [j \in D |-> Wc!Accounts(nm, s, j, R[Wc!After(s, j)])]
  BY <1>1, <1>2
<1> HIDE DEF R
<1>4. R[k] = Wc!Accounts(nm, s, k, R[Wc!After(s, k)])
  BY <1>3
<1> QED
  BY <1>4 DEF R

(* What the equation says of the three kinds of positions: behind the pattern,  *)
(* at a star, and at a token that takes a character.                         *)
LEMMA RestsAtEnd ==
  ASSUME NEW nm, NEW s \in Seq(Wc!Chars)
  PROVE  Wc!Rests(nm, s)[Len(s) + 1] = {Len(nm) + 1}
<1>1. Len(s) + 1 \in 1 .. Len(s) + 1 /\ Len(s) + 1 > Len(s)
  BY LenProperties
<1> QED
  BY <1>1, RestsEquation DEF Wc!Accounts

LEMMA RestsAtStar ==
  ASSUME NEW nm, NEW s \in Seq(Wc!Chars), NEW k \in 1 .. Len(s), s[k] = "*"
  PROVE  Wc!Rests(nm, s)[k] = {j \in 1 .. Len(nm) + 1 : \E i \in Wc!Rests(nm, s)[k + 1] : j <= i}
<1>1. k \in 1 .. Len(s) + 1 /\ ~(k > Len(s)) /\ k <= Len(s)
  BY LenProperties
<1>2. Wc!After(s, k) = k + 1
  BY <1>1 DEF Wc!After, Wc!IsEscape, Wc!IsClass, Wc!At
<1>3. Wc!Rests(nm, s)[k] = Wc!Accounts(nm, s, k, Wc!Rests(nm, s)[k + 1])
  BY <1>1, <1>2, RestsEquation
<1> QED
  BY <1>1, <1>3 DEF Wc!Accounts

LEMMA RestsAtToken ==
  ASSUME NEW nm, NEW s \in Seq(Wc!Chars), NEW k \in 1 .. Len(s), s[k] # "*"
  PROVE  Wc!Rests(nm, s)[k]
           = {j \in 1 .. Len(nm) : Wc!Takes(s, k, nm[j]) /\ j + 1 \in Wc!Rests(nm, s)[Wc!After(s, k)]}
<1>1. k \in 1 .. Len(s) + 1 /\ ~(k > Len(s))
  BY LenProperties
<1>2. Wc!Rests(nm, s)[k] = Wc!Accounts(nm, s, k, Wc!Rests(nm, s)[Wc!After(s, k)])
  BY <1>1, RestsEquation
<1> QED
  BY <1>1, <1>2 DEF Wc!Accounts

LEMMA RestsBound ==
  ASSUME NEW nm \in Seq(Wc!Chars), NEW s \in Seq(Wc!Chars), NEW k \in 1 .. Len(s) + 1
  PROVE  Wc!Rests(nm, s)[k] \subseteq 1 .. Len(nm) + 1
<1>1. Len(s) \in Nat /\ Len(nm) \in Nat
  BY LenProperties
<1>2. CASE k = Len(s) + 1
  BY <1>1, <1>2, RestsAtEnd
<1>3. CASE k \in 1 .. Len(s) /\ s[k] = "*"
  BY <1>1, <1>3, RestsAtStar
<1>4. CASE k \in 1 .. Len(s) /\ s[k] # "*"
  BY <1>1, <1>4, RestsAtToken
<1> QED
  BY <1>1, <1>2, <1>3, <1>4

(* The end of a name is accounted for by stars alone.                        *)
LEMMA RestsOfNothing ==
  ASSUME NEW nm \in Seq(Wc!Chars), NEW s \in Seq(Wc!Chars), NEW k \in 1 .. Len(s) + 1
  PROVE  Len(nm) + 1 \in Wc!Rests(nm, s)[k] <=> \A i \in k .. Len(s) : s[i] = "*"
<1> DEFINE Empty(q) == Len(nm) + 1 \in Wc!Rests(nm, s)[q]
           Stars(q) == \A i \in q .. Len(s) : s[i] = "*"
           T == {m \in 0 .. Len(s) : ~(Empty(Len(s) + 1 - m) <=> Stars(Len(s) + 1 - m))}
<1>1. Len(s) \in Nat /\ Len(nm) \in Nat
  BY LenProperties
<1>2. Empty(Len(s) + 1) <=> Stars(Len(s) + 1)
  BY <1>1, RestsAtEnd
<1>3. ASSUME NEW q \in 1 .. Len(s), Empty(q + 1) <=> Stars(q + 1) PROVE Empty(q) <=> Stars(q)
  <2>1. Stars(q) <=> s[q] = "*" /\ Stars(q + 1)
    BY <1>1
  <2>2. CASE s[q] = "*"
    <3>1. Wc!Rests(nm, s)[q + 1] \subseteq 1 .. Len(nm) + 1
      BY <1>1, RestsBound
    <3>2. Empty(q) <=> Empty(q + 1)
      BY <1>1, <2>2, <3>1, RestsAtStar
    <3> QED
      BY <1>3, <2>1, <2>2, <3>2
  <2>3. CASE s[q] # "*"
    <3>1. ~Empty(q)
      BY <1>1, <2>3, RestsAtToken
    <3> QED
      BY <2>1, <2>3, <3>1
  <2> QED
    BY <2>2, <2>3
<1> HIDE DEF Empty, Stars
<1>4. T = {}
  <2> SUFFICES ASSUME T # {} PROVE FALSE
    OBVIOUS
  <2>1. PICK m \in T : \A y \in T : m <= y
    <3>1. T \subseteq Nat
      BY <1>1
    <3> HIDE DEF T
    <3> QED
      BY <3>1, LeastNumber
  <2>2. m # 0 /\ m \in Nat /\ m - 1 \in 0 .. Len(s) /\ ~(m <= m - 1)
    BY <1>1, <1>2, <2>1
  <2>3. Len(s) + 1 - m \in 1 .. Len(s) /\ Len(s) + 1 - (m - 1) = (Len(s) + 1 - m) + 1
    BY <1>1, <2>1, <2>2
  <2>4. Empty((Len(s) + 1 - m) + 1) <=> Stars((Len(s) + 1 - m) + 1)
    BY <2>1, <2>2, <2>3
  <2> QED
    BY <1>3, <2>1, <2>3, <2>4
<1>5. Len(s) + 1 - k \in 0 .. Len(s) /\ Len(s) + 1 - (Len(s) + 1 - k) = k
  BY <1>1
<1>6. Empty(k) <=> Stars(k)
  BY <1>4, <1>5
<1> QED
  BY <1>6 DEF Empty, Stars

(* The matcher has a place in the name and the pattern, and for the last star a  *)
(* place to take up again. What follows that star and was matched since takes   *)
(* one character each, so that whatever the star leaves for it, it leaves for   *)
(* the place reached, as many characters on: no earlier star has to be asked.   *)
Rest(k) == Wc!Rests(matchName, matchPattern)[k]
Meant == Wc!Means(matchName, matchPattern)
Elsewhere == starPattern # 0 /\ \E j \in Nat : j > starName /\ j \in Rest(starPattern)

MatchTypes ==
  /\ matchName \in Seq(Wc!Chars) /\ matchPattern \in Seq(Wc!Chars)
  /\ nameAt \in 1 .. Len(matchName) + 1 /\ patternAt \in 1 .. Len(matchPattern) + 1
  /\ starPattern \in 0 .. Len(matchPattern) + 1
  /\ starName \in Nat /\ starName <= nameAt
  /\ matchResult \in {"running", "yes", "no"}

Remembered ==
  starPattern # 0 =>
    \A j \in Nat : j \in Rest(starPattern) => j + (nameAt - starName) \in Rest(patternAt)

MatchInv ==
  /\ MatchTypes /\ Remembered
  /\ matchResult = "running" => (Meant <=> nameAt \in Rest(patternAt) \/ Elsewhere)
  /\ matchResult # "running" => (matchResult = "yes" <=> Meant)

LEMMA MatchInitial == Wc!MatchInit => MatchInv
<1> SUFFICES ASSUME Wc!MatchInit PROVE MatchInv
  OBVIOUS
<1>1. MatchTypes
  <2>1. matchName \in Seq(Wc!Chars) /\ matchPattern \in Seq(Wc!Chars)
    BY MatchAssumption DEF Wc!MatchInit
  <2> QED
    BY <2>1, LenProperties DEF Wc!MatchInit, MatchTypes
<1>2. Remembered /\ ~Elsewhere
  BY DEF Wc!MatchInit, Remembered, Elsewhere
<1>3. Meant <=> nameAt \in Rest(patternAt)
  BY DEF Wc!MatchInit, Meant, Rest, Wc!Means
<1> QED
  BY <1>1, <1>2, <1>3 DEF Wc!MatchInit, MatchInv

(* A token that takes the character here: both go on.                         *)
LEMMA MatchTaken ==
  ASSUME MatchInv, Wc!Running, patternAt <= Len(matchPattern), matchPattern[patternAt] # "*",
         Wc!Takes(matchPattern, patternAt, matchName[nameAt]),
         Wc!Advance(Wc!After(matchPattern, patternAt) - patternAt)
  PROVE  MatchInv'
<1> DEFINE next == Wc!After(matchPattern, patternAt)
<1>1. /\ MatchTypes /\ Remembered /\ matchResult = "running"
      /\ Len(matchName) \in Nat /\ Len(matchPattern) \in Nat
      /\ patternAt \in 1 .. Len(matchPattern) /\ nameAt \in 1 .. Len(matchName)
  BY LenProperties DEF MatchInv, MatchTypes, Wc!Running
<1>2. next \in patternAt + 1 .. Len(matchPattern) + 1
  BY <1>1, AfterToken DEF MatchTypes
<1> HIDE DEF next
<1>3. /\ nameAt' = nameAt + 1 /\ patternAt' = next
      /\ UNCHANGED <<matchName, matchPattern, starPattern, starName, matchResult>>
  BY <1>1, <1>2 DEF Wc!Advance, next
<1>4. MatchTypes'
  BY <1>1, <1>2, <1>3 DEF MatchTypes
<1>5. \A j \in Nat : j \in Rest(patternAt) =>
        j \in 1 .. Len(matchName) /\ j + 1 \in Rest(next)
  BY <1>1, RestsAtToken DEF Rest, next, MatchTypes
<1>6. nameAt \in Rest(patternAt) <=> nameAt + 1 \in Rest(next)
  BY <1>1, RestsAtToken DEF Rest, next, MatchTypes
<1>7. Rest(patternAt)' = Rest(next) /\ Rest(starPattern)' = Rest(starPattern)
  BY <1>3 DEF Rest
<1>8. Remembered'
  <2> SUFFICES starPattern # 0 =>
                 \A j \in Nat : j \in Rest(starPattern) => j + (nameAt + 1 - starName) \in Rest(next)
    BY <1>1, <1>3, <1>7 DEF Remembered, MatchTypes
  <2> SUFFICES ASSUME starPattern # 0, NEW j \in Nat, j \in Rest(starPattern)
               PROVE  j + (nameAt + 1 - starName) \in Rest(next)
    OBVIOUS
  <2>1. j + (nameAt - starName) \in Rest(patternAt)
    BY <1>1 DEF Remembered
  <2>2. j + (nameAt - starName) \in Nat /\ (j + (nameAt - starName)) + 1 = j + (nameAt + 1 - starName)
    BY <1>1 DEF MatchTypes
  <2> QED
    BY <1>5, <2>1, <2>2
<1>9. Meant' = Meant /\ Elsewhere' = Elsewhere
  BY <1>3, <1>7 DEF Meant, Elsewhere
<1> QED
  BY <1>1, <1>3, <1>4, <1>6, <1>7, <1>8, <1>9 DEF MatchInv

(* What is here is not accounted for: the star is left with one more, or none is. *)
LEMMA MatchRetried ==
  ASSUME MatchInv, Wc!Running, nameAt \notin Rest(patternAt), Wc!Backtrack
  PROVE  MatchInv'
<1>1. /\ MatchTypes /\ Remembered /\ matchResult = "running"
      /\ Len(matchName) \in Nat /\ Len(matchPattern) \in Nat /\ nameAt \in 1 .. Len(matchName)
      /\ Meant <=> Elsewhere
  BY LenProperties DEF MatchInv, MatchTypes, Wc!Running
<1>2. CASE starPattern = 0
  <2>1. /\ matchResult' = "no"
        /\ UNCHANGED <<matchName, matchPattern, nameAt, patternAt, starPattern, starName>>
    BY <1>2 DEF Wc!Backtrack
  <2>2. ~Meant /\ Meant' = Meant
    BY <1>1, <1>2, <2>1 DEF Elsewhere, Meant
  <2>3. MatchTypes' /\ Remembered'
    BY <1>1, <1>2, <2>1 DEF MatchTypes, Remembered
  <2> QED
    BY <2>1, <2>2, <2>3 DEF MatchInv
<1>3. CASE starPattern # 0
  <2>1. /\ patternAt' = starPattern /\ nameAt' = starName + 1 /\ starName' = starName + 1
        /\ UNCHANGED <<matchName, matchPattern, starPattern, matchResult>>
    BY <1>3 DEF Wc!Backtrack
  <2>2. MatchTypes'
    BY <1>1, <1>3, <2>1 DEF MatchTypes
  <2>3. Rest(patternAt)' = Rest(starPattern) /\ Rest(starPattern)' = Rest(starPattern) /\ Meant' = Meant
    BY <2>1 DEF Rest, Meant
  <2>4. Remembered'
    BY <1>1, <2>1, <2>3 DEF Remembered, MatchTypes
  <2>5. Elsewhere <=> starName + 1 \in Rest(starPattern)
                        \/ \E j \in Nat : j > starName + 1 /\ j \in Rest(starPattern)
    BY <1>1, <1>3 DEF Elsewhere, MatchTypes
  <2>6. Elsewhere' <=> \E j \in Nat : j > starName + 1 /\ j \in Rest(starPattern)
    BY <1>3, <2>1, <2>3 DEF Elsewhere
  <2> QED
    BY <1>1, <2>1, <2>2, <2>3, <2>4, <2>5, <2>6 DEF MatchInv
<1> QED
  BY <1>2, <1>3

(* A token that does not take the character here, or no token left.            *)
LEMMA MatchMissed ==
  ASSUME MatchInv, Wc!Running, Wc!Backtrack,
         patternAt <= Len(matchPattern) => /\ matchPattern[patternAt] # "*"
                                           /\ ~Wc!Takes(matchPattern, patternAt, matchName[nameAt])
  PROVE  MatchInv'
<1>1. /\ MatchTypes /\ Len(matchName) \in Nat /\ Len(matchPattern) \in Nat
      /\ patternAt \in 1 .. Len(matchPattern) + 1 /\ nameAt \in 1 .. Len(matchName)
  BY LenProperties DEF MatchInv, MatchTypes, Wc!Running
<1>2. CASE patternAt = Len(matchPattern) + 1
  <2>1. nameAt \notin Rest(patternAt)
    BY <1>1, <1>2, RestsAtEnd DEF Rest, MatchTypes
  <2> QED
    BY <2>1, MatchRetried
<1>3. CASE patternAt # Len(matchPattern) + 1
  <2>1. patternAt \in 1 .. Len(matchPattern)
    BY <1>1, <1>3
  <2>2. nameAt \notin Rest(patternAt)
    BY <1>1, <2>1, RestsAtToken DEF Rest, MatchTypes
  <2> QED
    BY <2>2, MatchRetried
<1> QED
  BY <1>2, <1>3

LEMMA MatchStarStep ==
  ASSUME MatchInv, Wc!MatchStar
  PROVE  MatchInv'
<1>1. /\ MatchTypes /\ Remembered /\ matchResult = "running"
      /\ Len(matchName) \in Nat /\ Len(matchPattern) \in Nat
      /\ patternAt \in 1 .. Len(matchPattern) + 1 /\ nameAt \in 1 .. Len(matchName)
  BY LenProperties DEF MatchInv, MatchTypes, Wc!MatchStar, Wc!Running
<1>2. patternAt \in 1 .. Len(matchPattern) /\ matchPattern[patternAt] = "*"
  BY <1>1 DEF Wc!MatchStar, Wc!At, Wc!End
<1>3. /\ patternAt' = patternAt + 1 /\ starPattern' = patternAt + 1 /\ starName' = nameAt
      /\ UNCHANGED <<matchName, matchPattern, nameAt, matchResult>>
  BY DEF Wc!MatchStar
<1>4. MatchTypes'
  BY <1>1, <1>2, <1>3 DEF MatchTypes
<1>5. /\ Rest(patternAt)' = Rest(patternAt + 1) /\ Rest(starPattern)' = Rest(patternAt + 1)
      /\ Meant' = Meant
  BY <1>3 DEF Rest, Meant
<1>6. Remembered'
  <2>1. \A j \in Nat : j + (nameAt - nameAt) = j
    BY <1>1
  <2> QED
    BY <1>3, <1>5, <2>1 DEF Remembered
<1>7. Rest(patternAt) = {j \in 1 .. Len(matchName) + 1 : \E i \in Rest(patternAt + 1) : j <= i}
  BY <1>2, <1>1, RestsAtStar DEF Rest, MatchTypes
<1>8. Rest(patternAt + 1) \subseteq 1 .. Len(matchName) + 1
  <2>1. patternAt + 1 \in 1 .. Len(matchPattern) + 1
    BY <1>1, <1>2
  <2> QED
    BY <1>1, <2>1, RestsBound DEF Rest, MatchTypes
<1>9. Elsewhere' <=> \E j \in Nat : j > nameAt /\ j \in Rest(patternAt + 1)
  BY <1>1, <1>3, <1>5 DEF Elsewhere
<1>10. nameAt \in Rest(patternAt) <=> nameAt \in Rest(patternAt + 1) \/ Elsewhere'
  BY <1>1, <1>7, <1>8, <1>9
<1>11. Elsewhere => Elsewhere'
  <2> SUFFICES ASSUME starPattern # 0, NEW j \in Nat, j > starName, j \in Rest(starPattern)
               PROVE  \E i \in Nat : i > nameAt /\ i \in Rest(patternAt + 1)
    BY <1>9 DEF Elsewhere
  <2>1. j + (nameAt - starName) \in Rest(patternAt)
    BY <1>1 DEF Remembered
  <2>2. PICK i \in Rest(patternAt + 1) : j + (nameAt - starName) <= i
    BY <1>7, <2>1
  <2>3. i \in Nat /\ i > nameAt
    BY <1>1, <1>8, <2>2 DEF MatchTypes
  <2> QED
    BY <2>2, <2>3
<1> QED
  BY <1>1, <1>3, <1>4, <1>5, <1>6, <1>10, <1>11 DEF MatchInv

(* At the end of the name no star can take one more.                          *)
LEMMA MatchFinishStep ==
  ASSUME MatchInv, Wc!MatchFinish
  PROVE  MatchInv'
<1>1. /\ MatchTypes /\ Remembered /\ matchResult = "running"
      /\ Len(matchName) \in Nat /\ Len(matchPattern) \in Nat
      /\ patternAt \in 1 .. Len(matchPattern) + 1 /\ nameAt = Len(matchName) + 1
  BY LenProperties DEF MatchInv, MatchTypes, Wc!MatchFinish
<1>2. /\ UNCHANGED <<matchName, matchPattern, nameAt, patternAt, starPattern, starName>>
      /\ matchResult' = IF \A k \in patternAt .. Len(matchPattern) : matchPattern[k] = "*" THEN "yes" ELSE "no"
  BY DEF Wc!MatchFinish
<1>3. nameAt \in Rest(patternAt) <=> \A k \in patternAt .. Len(matchPattern) : matchPattern[k] = "*"
  BY <1>1, RestsOfNothing DEF Rest, MatchTypes
<1>4. ~Elsewhere
  <2> SUFFICES ASSUME starPattern # 0, NEW j \in Nat, j > starName, j \in Rest(starPattern)
               PROVE  FALSE
    BY DEF Elsewhere
  <2>1. j + (nameAt - starName) \in Rest(patternAt)
    BY <1>1 DEF Remembered
  <2>2. Rest(patternAt) \subseteq 1 .. Len(matchName) + 1
    BY <1>1, RestsBound DEF Rest, MatchTypes
  <2> QED
    BY <1>1, <2>1, <2>2 DEF MatchTypes
<1>5. Meant <=> nameAt \in Rest(patternAt)
  BY <1>1, <1>4 DEF MatchInv
<1>6. MatchTypes' /\ Remembered' /\ Meant' = Meant /\ matchResult' # "running"
  BY <1>1, <1>2 DEF MatchTypes, Remembered, Rest, Meant
<1> QED
  BY <1>2, <1>3, <1>5, <1>6 DEF MatchInv

LEMMA MatchStep == MatchInv /\ [Wc!MatchNext]_(Wc!matchVars) => MatchInv'
<1> SUFFICES ASSUME MatchInv, [Wc!MatchNext]_(Wc!matchVars) PROVE MatchInv'
  OBVIOUS
<1> DEFINE Here == matchName[nameAt]
           Took == Wc!Takes(matchPattern, patternAt, Here)
           next == Wc!After(matchPattern, patternAt)
<1>1. MatchTypes /\ Len(matchPattern) \in Nat /\ patternAt \in Nat /\ Len(matchName) \in Nat
  BY LenProperties DEF MatchInv, MatchTypes
<1>2. ASSUME Wc!Running PROVE Here \in Wc!Chars
  <2>1. nameAt \in 1 .. Len(matchName)
    BY <1>1, <1>2 DEF Wc!Running, MatchTypes
  <2> QED
    BY <1>1, <2>1, ElementOfSeq DEF MatchTypes
<1>3. CASE Wc!MatchEscaped
  <2>1. patternAt <= Len(matchPattern) /\ matchPattern[patternAt] = "\\" /\ Wc!Running
    BY <1>1, <1>3 DEF Wc!MatchEscaped, Wc!Escaped, Wc!At, Wc!End
  <2>2. Wc!IsEscape(matchPattern, patternAt)
    BY <1>3 DEF Wc!MatchEscaped, Wc!Escaped, Wc!IsEscape
  <2>3. next - patternAt = 2 /\ (Took <=> Here = matchPattern[patternAt + 1])
    BY <1>1, <2>2 DEF Wc!After, Wc!Takes
  <2> QED
    BY <1>3, <2>1, <2>3, MatchTaken, MatchMissed DEF Wc!MatchEscaped
<1>4. CASE Wc!MatchOpenBracket
  <2>1. patternAt <= Len(matchPattern) /\ matchPattern[patternAt] = "[" /\ Wc!Running
    BY <1>1, <1>4 DEF Wc!MatchOpenBracket, Wc!At, Wc!End
  <2>2. ~Wc!IsEscape(matchPattern, patternAt) /\ ~Wc!IsClass(matchPattern, patternAt)
    BY <1>4 DEF Wc!MatchOpenBracket, Wc!IsEscape, Wc!IsClass
  <2>3. next - patternAt = 1 /\ (Took <=> Here = "[")
    BY <1>1, <2>1, <2>2 DEF Wc!After, Wc!Takes
  <2> QED
    BY <1>4, <2>1, <2>3, MatchTaken, MatchMissed DEF Wc!MatchOpenBracket
<1>5. CASE Wc!MatchClass
  <2>1. patternAt <= Len(matchPattern) /\ matchPattern[patternAt] = "[" /\ Wc!Running
    BY <1>1, <1>5 DEF Wc!MatchClass, Wc!At, Wc!End
  <2>2. ~Wc!IsEscape(matchPattern, patternAt) /\ Wc!IsClass(matchPattern, patternAt)
    BY <1>5 DEF Wc!MatchClass, Wc!IsEscape, Wc!IsClass
  <2>3. /\ next = Wc!ClassEnd(matchPattern, patternAt) + 1
        /\ Took <=> Wc!InClass(matchPattern, patternAt, Here)
    BY <2>2 DEF Wc!After, Wc!Takes
  <2>4. CASE Wc!InClass(matchPattern, patternAt, Here)
    <3>1. Wc!Advance(Wc!ClassEnd(matchPattern, patternAt) + 1 - patternAt)
      BY <1>5, <2>4 DEF Wc!MatchClass
    <3>2. Wc!ClassEnd(matchPattern, patternAt) \in Nat
      <4>1. patternAt \in Nat \ {0}
        BY <1>1 DEF MatchTypes
      <4> QED
        BY <1>1, <2>2, <4>1, ClassEnds, LenProperties DEF Wc!IsClass, MatchTypes
    <3>3. Wc!Advance(next - patternAt)
      BY <1>1, <2>3, <3>1, <3>2 DEF Wc!Advance
    <3> QED
      BY <2>1, <2>3, <2>4, <3>3, MatchTaken
  <2>5. CASE ~Wc!InClass(matchPattern, patternAt, Here)
    <3>1. Wc!Backtrack
      BY <1>5, <2>5 DEF Wc!MatchClass
    <3> QED
      BY <2>1, <2>3, <2>5, <3>1, MatchMissed
  <2> QED
    BY <2>4, <2>5
<1>6. CASE Wc!MatchStar
  BY <1>6, MatchStarStep
<1>7. CASE Wc!MatchOne
  <2>1. Wc!Running /\ ~Wc!Escaped /\ Wc!At(matchPattern, patternAt) \notin {"[", "*"}
    BY <1>7 DEF Wc!MatchOne
  <2>2. CASE patternAt <= Len(matchPattern)
    <3>1. Wc!At(matchPattern, patternAt) = matchPattern[patternAt]
      BY <2>2 DEF Wc!At
    <3>2. ~Wc!IsEscape(matchPattern, patternAt) /\ ~Wc!IsClass(matchPattern, patternAt)
      BY <2>1 DEF Wc!Escaped, Wc!IsEscape, Wc!IsClass
    <3>3. next - patternAt = 1 /\ (Took <=> matchPattern[patternAt] \in {"?", Here})
      BY <1>1, <3>2 DEF Wc!After, Wc!Takes
    <3> QED
      BY <1>7, <2>1, <2>2, <3>1, <3>3, MatchTaken, MatchMissed DEF Wc!MatchOne
  <2>3. CASE ~(patternAt <= Len(matchPattern))
    <3>1. Wc!At(matchPattern, patternAt) = Wc!End
      BY <2>3 DEF Wc!At
    <3>2. Wc!End \notin {"?", Here}
      BY <1>2, <2>1, CharsAreNotEnd DEF Wc!End
    <3> QED
      BY <1>7, <2>1, <2>3, <3>1, <3>2, MatchMissed DEF Wc!MatchOne
  <2> QED
    BY <2>2, <2>3
<1>8. CASE Wc!MatchFinish
  BY <1>8, MatchFinishStep
<1>9. CASE UNCHANGED Wc!matchVars
  BY <1>9 DEF Wc!matchVars, MatchInv, MatchTypes, Remembered, Rest, Meant, Elsewhere
<1> QED
  BY <1>3, <1>4, <1>5, <1>6, <1>7, <1>8, <1>9 DEF Wc!MatchNext

(* The matcher answers what the pattern means, for every name and pattern over  *)
(* the alphabet (ApiBlocklist::MatchesWildcard).                              *)
THEOREM MatcherMeansThePattern ==
  Wc!MatchInit /\ [][Wc!MatchNext]_(Wc!matchVars) => []MatchesWhatItMeans
<1>1. MatchInv => MatchesWhatItMeans
  BY DEF MatchInv, Meant, MatchesWhatItMeans, Wc!MatchesWhatItMeans
<1> QED
  BY <1>1, MatchInitial, MatchStep, PTL

(* ----- SpmCounters: what the default counters are. -----                   *)

CountersOf(arch) == Sp!Range(Sp!DefaultCounters(arch))

(* The counters that other counters have as components, by their names.         *)
IsPart(n) ==
  n[2] \in {"RequestCount", "HitCount", "MissCount", "GPUBusyCycles", "CSLDSBankConflictCycles",
            "MemUnitBusyCycles", "MemUnitStalledCycles", "WriteUnitStalledCycles"}

LEMMA ConcatRange ==
  ASSUME NEW S, NEW s \in Seq(S), NEW t \in Seq(S)
  PROVE  s \o t \in Seq(S) /\ Sp!Range(s \o t) = Sp!Range(s) \cup Sp!Range(t)
<1> DEFINE u == s \o t
<1>1. /\ u \in Seq(S) /\ Len(u) = Len(s) + Len(t) /\ Len(s) \in Nat /\ Len(t) \in Nat
      /\ DOMAIN u = 1 .. Len(u) /\ DOMAIN s = 1 .. Len(s) /\ DOMAIN t = 1 .. Len(t)
  BY ConcatProperties, LenProperties
<1>2. \A i \in 1 .. Len(s) + Len(t) : u[i] = IF i <= Len(s) THEN s[i] ELSE t[i - Len(s)]
  BY ConcatProperties
<1> HIDE DEF u
<1>3. ASSUME NEW i \in DOMAIN u PROVE u[i] \in Sp!Range(s) \cup Sp!Range(t)
  <2>1. CASE i <= Len(s)
    BY <1>1, <1>2, <2>1 DEF Sp!Range
  <2>2. CASE ~(i <= Len(s))
    <3>1. i - Len(s) \in 1 .. Len(t) /\ u[i] = t[i - Len(s)]
      BY <1>1, <1>2, <2>2
    <3> QED
      BY <1>1, <3>1 DEF Sp!Range
  <2> QED
    BY <2>1, <2>2
<1>4. ASSUME NEW i \in DOMAIN s PROVE s[i] \in Sp!Range(u)
  <2>1. i \in 1 .. Len(u) /\ u[i] = s[i]
    BY <1>1, <1>2
  <2> QED
    BY <1>1, <2>1 DEF Sp!Range
<1>5. ASSUME NEW i \in DOMAIN t PROVE t[i] \in Sp!Range(u)
  <2>1. i + Len(s) \in 1 .. Len(u) /\ u[i + Len(s)] = t[i]
    BY <1>1, <1>2
  <2> QED
    BY <1>1, <2>1 DEF Sp!Range
<1> QED
  BY <1>1, <1>3, <1>4, <1>5 DEF u, Sp!Range

(* A list of two, three or four.                                              *)
LEMMA ShortRanges ==
  ASSUME NEW S
  PROVE  /\ <<>> \in Seq(S) /\ Sp!Range(<<>>) = {}
         /\ \A a, b \in S : <<a, b>> \in Seq(S) /\ Sp!Range(<<a, b>>) = {a, b}
         /\ \A a, b, c \in S : <<a, b, c>> \in Seq(S) /\ Sp!Range(<<a, b, c>>) = {a, b, c}
         /\ \A a, b, c, d \in S : <<a, b, c, d>> \in Seq(S) /\ Sp!Range(<<a, b, c, d>>) = {a, b, c, d}
<1>1. <<>> \in Seq(S) /\ Sp!Range(<<>>) = {}
  BY DEF Sp!Range
<1>2. ASSUME NEW a \in S, NEW b \in S PROVE <<a, b>> \in Seq(S) /\ Sp!Range(<<a, b>>) = {a, b}
  BY DEF Sp!Range
<1>3. ASSUME NEW a \in S, NEW b \in S, NEW c \in S
      PROVE <<a, b, c>> \in Seq(S) /\ Sp!Range(<<a, b, c>>) = {a, b, c}
  BY DEF Sp!Range
<1>4. ASSUME NEW a \in S, NEW b \in S, NEW c \in S, NEW d \in S
      PROVE <<a, b, c, d>> \in Seq(S) /\ Sp!Range(<<a, b, c, d>>) = {a, b, c, d}
  BY DEF Sp!Range
<1> QED
  BY <1>1, <1>2, <1>3, <1>4

OfCache(l) ==
  {Sp!Counter(Sp!Hit(l), l, <<<<l, "RequestCount">>, <<l, "HitCount">>, <<l, "MissCount">>>>),
   Sp!CacheCount(l, "RequestCount"), Sp!CacheCount(l, "HitCount"), Sp!CacheCount(l, "MissCount")}
OfRays == {Sp!Simple("RayBoxTests"), Sp!Simple("RayTriTests")}
OfLds == {Sp!Of("CSLDSBankConflict", "CSLDSBankConflictCycles"), Sp!Simple("GPUBusyCycles"),
          Sp!Simple("CSLDSBankConflictCycles")}
OfUnits == {Sp!Of("MemUnitBusy", "MemUnitBusyCycles"), Sp!Of("MemUnitStalled", "MemUnitStalledCycles"),
            Sp!Simple("MemUnitBusyCycles"), Sp!Simple("MemUnitStalledCycles")}
OfWrites == {Sp!Of("WriteUnitStalled", "WriteUnitStalledCycles"), Sp!Simple("WriteUnitStalledCycles")}
OfBytes == {Sp!Simple("FetchSize"), Sp!Simple("WriteSize"), Sp!Simple("LocalVidMemBytes"), Sp!Simple("PcieBytes")}

OfCaches == OfCache("Inst") \cup OfCache("Scalar") \cup OfCache("L0") \cup OfCache("L1") \cup OfCache("L2")
OfOthers == OfRays \cup OfLds \cup OfUnits \cup OfWrites \cup OfBytes
AllCounters == OfCaches \cup OfOthers

(* The lists that the default counters are put together from.                   *)
LEMMA CacheList ==
  ASSUME NEW l, OfCache(l) \subseteq AllCounters
  PROVE  Sp!CacheCounters(l) \in Seq(AllCounters) /\ Sp!Range(Sp!CacheCounters(l)) = OfCache(l)
<1> DEFINE a == Sp!Counter(Sp!Hit(l), l, <<<<l, "RequestCount">>, <<l, "HitCount">>, <<l, "MissCount">>>>)
           b == Sp!CacheCount(l, "RequestCount")
           c == Sp!CacheCount(l, "HitCount")
           d == Sp!CacheCount(l, "MissCount")
<1>1. Sp!CacheCounters(l) = <<a, b, c, d>> /\ OfCache(l) = {a, b, c, d}
  BY DEF Sp!CacheCounters, Sp!Hit, OfCache
<1> HIDE DEF a, b, c, d
<1> QED
  BY <1>1, ShortRanges

LEMMA OtherLists ==
  /\ Sp!RayCounters \in Seq(AllCounters) /\ Sp!Range(Sp!RayCounters) = OfRays
  /\ Sp!LdsCounters \in Seq(AllCounters) /\ Sp!Range(Sp!LdsCounters) = OfLds
<1>1. Sp!RayCounters \in Seq(AllCounters) /\ Sp!Range(Sp!RayCounters) = OfRays
  <2> DEFINE a == Sp!Simple("RayBoxTests")
             b == Sp!Simple("RayTriTests")
  <2>1. Sp!RayCounters = <<a, b>> /\ OfRays = {a, b}
    BY DEF Sp!RayCounters, OfRays
  <2> HIDE DEF a, b
  <2> QED
    BY <2>1, ShortRanges DEF AllCounters, OfOthers
<1>2. Sp!LdsCounters \in Seq(AllCounters) /\ Sp!Range(Sp!LdsCounters) = OfLds
  <2> DEFINE a == Sp!Of("CSLDSBankConflict", "CSLDSBankConflictCycles")
             b == Sp!Simple("GPUBusyCycles")
             c == Sp!Simple("CSLDSBankConflictCycles")
  <2>1. Sp!LdsCounters = <<a, b, c>> /\ OfLds = {a, b, c}
    BY DEF Sp!LdsCounters, OfLds
  <2> HIDE DEF a, b, c
  <2>2. a \in AllCounters /\ b \in AllCounters /\ c \in AllCounters
    BY <2>1 DEF AllCounters, OfOthers
  <2>3. <<a, b, c>> \in Seq(AllCounters) /\ Sp!Range(<<a, b, c>>) = {a, b, c}
    BY <2>2 DEF Sp!Range
  <2> QED
    BY <2>1, <2>3
<1> QED
  BY <1>1, <1>2

LEMMA MemoryList ==
  ASSUME NEW arch \in Nat
  PROVE  /\ Sp!MemoryCounters(arch) \in Seq(AllCounters)
         /\ Sp!Range(Sp!MemoryCounters(arch)) = OfUnits \cup OfBytes \cup IF arch >= 4 THEN OfWrites ELSE {}
<1> DEFINE a == Sp!Of("MemUnitBusy", "MemUnitBusyCycles")
           b == Sp!Of("MemUnitStalled", "MemUnitStalledCycles")
           c == Sp!Simple("MemUnitBusyCycles")
           d == Sp!Simple("MemUnitStalledCycles")
           e == Sp!Of("WriteUnitStalled", "WriteUnitStalledCycles")
           f == Sp!Simple("WriteUnitStalledCycles")
           g == Sp!Simple("FetchSize")
           h == Sp!Simple("WriteSize")
           i == Sp!Simple("LocalVidMemBytes")
           j == Sp!Simple("PcieBytes")
           units == <<a, b, c, d>>
           writes == IF arch >= 4 THEN <<e, f>> ELSE <<>>
           bytes == <<g, h, i, j>>
           both == units \o writes
<1>1. Sp!MemoryCounters(arch) = both \o bytes
  BY DEF Sp!MemoryCounters
<1>2. OfUnits = {a, b, c, d} /\ OfWrites = {e, f} /\ OfBytes = {g, h, i, j}
  BY DEF OfUnits, OfWrites, OfBytes
<1> HIDE DEF a, b, c, d, e, f, g, h, i, j
<1>3. OfUnits \subseteq AllCounters /\ OfWrites \subseteq AllCounters /\ OfBytes \subseteq AllCounters
  BY DEF AllCounters, OfOthers
<1>4. units \in Seq(AllCounters) /\ Sp!Range(units) = OfUnits
  <2>1. a \in AllCounters /\ b \in AllCounters /\ c \in AllCounters /\ d \in AllCounters
    BY <1>2, <1>3
  <2>2. <<a, b, c, d>> \in Seq(AllCounters) /\ Sp!Range(<<a, b, c, d>>) = {a, b, c, d}
    BY <2>1 DEF Sp!Range
  <2> QED
    BY <1>2, <2>2
<1>5. writes \in Seq(AllCounters) /\ Sp!Range(writes) = IF arch >= 4 THEN OfWrites ELSE {}
  <2>1. e \in AllCounters /\ f \in AllCounters
    BY <1>2, <1>3
  <2>2. <<e, f>> \in Seq(AllCounters) /\ Sp!Range(<<e, f>>) = {e, f}
    BY <2>1 DEF Sp!Range
  <2> QED
    BY <1>2, <2>2, ShortRanges
<1>6. bytes \in Seq(AllCounters) /\ Sp!Range(bytes) = OfBytes
  <2>1. g \in AllCounters /\ h \in AllCounters /\ i \in AllCounters /\ j \in AllCounters
    BY <1>2, <1>3
  <2>2. <<g, h, i, j>> \in Seq(AllCounters) /\ Sp!Range(<<g, h, i, j>>) = {g, h, i, j}
    BY <2>1 DEF Sp!Range
  <2> QED
    BY <1>2, <2>2
<1> HIDE DEF units, writes, bytes
<1>7. both \in Seq(AllCounters) /\ Sp!Range(both) = OfUnits \cup IF arch >= 4 THEN OfWrites ELSE {}
  BY <1>4, <1>5, ConcatRange
<1> HIDE DEF both
<1>8. both \o bytes \in Seq(AllCounters) /\ Sp!Range(both \o bytes) = Sp!Range(both) \cup OfBytes
  BY <1>6, <1>7, ConcatRange
<1> QED
  BY <1>1, <1>7, <1>8

OfMore(arch) == IF arch < 3 THEN {} ELSE OfLds \cup OfUnits \cup OfBytes \cup IF arch >= 4 THEN OfWrites ELSE {}

LEMMA DefaultRange ==
  ASSUME NEW arch \in Nat
  PROVE  /\ Sp!DefaultCounters(arch) \in Seq(AllCounters)
         /\ CountersOf(arch) =
              IF arch < 1 THEN {}
              ELSE OfCache("Inst") \cup OfCache("Scalar") \cup OfCache("L0") \cup OfCache("L2")
                     \cup (IF arch = 4 THEN {} ELSE OfCache("L1")) \cup OfRays \cup OfMore(arch)
<1>1. CASE arch < 1
  BY <1>1, ShortRanges DEF Sp!DefaultCounters, CountersOf
<1>2. CASE ~(arch < 1)
  <2> DEFINE S == Seq(AllCounters)
             c1 == Sp!CacheCounters("Inst")
             c2 == Sp!CacheCounters("Scalar")
             c3 == Sp!CacheCounters("L0")
             c4 == IF arch = 4 THEN <<>> ELSE Sp!CacheCounters("L1")
             c5 == Sp!CacheCounters("L2")
             c6 == Sp!RayCounters
             c7 == IF arch < 3 THEN <<>> ELSE Sp!LdsCounters \o Sp!MemoryCounters(arch)
             u2 == c1 \o c2
             u3 == u2 \o c3
             u4 == u3 \o c4
             u5 == u4 \o c5
             u6 == u5 \o c6
  <2>1. Sp!DefaultCounters(arch) = u6 \o c7
    BY <1>2 DEF Sp!DefaultCounters
  <2>2. /\ c1 \in S /\ c2 \in S /\ c3 \in S /\ c5 \in S /\ c6 \in S
        /\ Sp!Range(c1) = OfCache("Inst") /\ Sp!Range(c2) = OfCache("Scalar") /\ Sp!Range(c3) = OfCache("L0")
        /\ Sp!Range(c5) = OfCache("L2") /\ Sp!Range(c6) = OfRays
    BY CacheList, OtherLists DEF AllCounters, OfCaches
  <2>3. c4 \in S /\ Sp!Range(c4) = IF arch = 4 THEN {} ELSE OfCache("L1")
    BY CacheList, ShortRanges DEF AllCounters, OfCaches
  <2>4. c7 \in S /\ Sp!Range(c7) = OfMore(arch)
    <3>1. CASE arch < 3
      BY <3>1, ShortRanges DEF OfMore
    <3>2. CASE ~(arch < 3)
      <4>1. /\ Sp!LdsCounters \o Sp!MemoryCounters(arch) \in S
            /\ Sp!Range(Sp!LdsCounters \o Sp!MemoryCounters(arch)) = OfLds \cup Sp!Range(Sp!MemoryCounters(arch))
        BY OtherLists, MemoryList, ConcatRange
      <4> QED
        BY <3>2, <4>1, MemoryList DEF OfMore
    <3> QED
      BY <3>1, <3>2
  <2> HIDE DEF c1, c2, c3, c4, c5, c6, c7
  <2>5. u2 \in S /\ Sp!Range(u2) = Sp!Range(c1) \cup Sp!Range(c2)
    BY <2>2, ConcatRange
  <2> HIDE DEF u2
  <2>6. u3 \in S /\ Sp!Range(u3) = Sp!Range(u2) \cup Sp!Range(c3)
    BY <2>2, <2>5, ConcatRange
  <2> HIDE DEF u3
  <2>7. u4 \in S /\ Sp!Range(u4) = Sp!Range(u3) \cup Sp!Range(c4)
    BY <2>3, <2>6, ConcatRange
  <2> HIDE DEF u4
  <2>8. u5 \in S /\ Sp!Range(u5) = Sp!Range(u4) \cup Sp!Range(c5)
    BY <2>2, <2>7, ConcatRange
  <2> HIDE DEF u5
  <2>9. u6 \in S /\ Sp!Range(u6) = Sp!Range(u5) \cup Sp!Range(c6)
    BY <2>2, <2>8, ConcatRange
  <2> HIDE DEF u6
  <2>10. u6 \o c7 \in S /\ Sp!Range(u6 \o c7) = Sp!Range(u6) \cup Sp!Range(c7)
    BY <2>4, <2>9, ConcatRange
  <2>11. Sp!DefaultCounters(arch) \in Seq(AllCounters)
    BY <2>1, <2>10
  <2> HIDE DEF S
  <2> QED
    BY <1>2, <2>1, <2>2, <2>3, <2>4, <2>5, <2>6, <2>7, <2>8, <2>9, <2>10, <2>11 DEF CountersOf
<1> QED
  BY <1>1, <1>2


(* A counter is made of its name.                                            *)
PartsOf(n) ==
  IF n[1] # "" THEN IF n[2] = "Hit" THEN <<<<n[1], "RequestCount">>, <<n[1], "HitCount">>, <<n[1], "MissCount">>>> ELSE <<>>
  ELSE IF n[2] = "CSLDSBankConflict" THEN <<Sp!Plain("GPUBusyCycles"), Sp!Plain("CSLDSBankConflictCycles")>>
  ELSE IF n[2] = "MemUnitBusy" THEN <<Sp!Plain("GPUBusyCycles"), Sp!Plain("MemUnitBusyCycles")>>
  ELSE IF n[2] = "MemUnitStalled" THEN <<Sp!Plain("GPUBusyCycles"), Sp!Plain("MemUnitStalledCycles")>>
  ELSE IF n[2] = "WriteUnitStalled" THEN <<Sp!Plain("GPUBusyCycles"), Sp!Plain("WriteUnitStalledCycles")>>
  ELSE <<>>
ShownAs(n) == IF n[1] # "" /\ n[2] = "Hit" THEN n[1] ELSE n[2]
Made(n) == Sp!Counter(n, ShownAs(n), PartsOf(n))

LEMMA CachesMade ==
  ASSUME NEW l, l # "", NEW c \in OfCache(l)
  PROVE  c = Made(c.name) /\ c.name[1] = l
<1>1. CASE c = Sp!Counter(Sp!Hit(l), l, <<<<l, "RequestCount">>, <<l, "HitCount">>, <<l, "MissCount">>>>)
  <2>1. c.name = <<l, "Hit">> /\ c.name[1] = l /\ c.name[2] = "Hit"
    BY <1>1 DEF Sp!Counter, Sp!Hit
  <2> QED
    BY <1>1, <2>1 DEF Made, ShownAs, PartsOf, Sp!Counter, Sp!Hit
<1>2. ASSUME NEW n \in {"RequestCount", "HitCount", "MissCount"}, c = Sp!CacheCount(l, n)
      PROVE  c = Made(c.name) /\ c.name[1] = l
  <2>1. c.name = <<l, n>> /\ c.name[1] = l /\ c.name[2] = n /\ n # "Hit"
    BY <1>2 DEF Sp!CacheCount, Sp!Counter
  <2> QED
    BY <1>2, <2>1 DEF Made, ShownAs, PartsOf, Sp!CacheCount, Sp!Counter
<1> QED
  BY <1>1, <1>2 DEF OfCache

LEMMA SimpleMade ==
  ASSUME NEW n, n \notin {"CSLDSBankConflict", "MemUnitBusy", "MemUnitStalled", "WriteUnitStalled"}
  PROVE  Sp!Simple(n) = Made(Sp!Simple(n).name)
<1>1. Sp!Simple(n).name = <<"", n>> /\ <<"", n>>[1] = "" /\ <<"", n>>[2] = n
  BY DEF Sp!Simple, Sp!Counter, Sp!Plain
<1> QED
  BY <1>1 DEF Sp!Simple, Sp!Counter, Sp!Plain, Made, ShownAs, PartsOf

LEMMA OfMade ==
  ASSUME NEW n, NEW cycles, <<n, cycles>> \in {<<"CSLDSBankConflict", "CSLDSBankConflictCycles">>,
           <<"MemUnitBusy", "MemUnitBusyCycles">>, <<"MemUnitStalled", "MemUnitStalledCycles">>,
           <<"WriteUnitStalled", "WriteUnitStalledCycles">>}
  PROVE  Sp!Of(n, cycles) = Made(Sp!Of(n, cycles).name)
<1>1. Sp!Of(n, cycles).name = <<"", n>> /\ <<"", n>>[1] = "" /\ <<"", n>>[2] = n
  BY DEF Sp!Of, Sp!Counter, Sp!Plain
<1>2. PartsOf(<<"", n>>) = <<Sp!Plain("GPUBusyCycles"), Sp!Plain(cycles)>>
  BY <1>1 DEF PartsOf
<1> QED
  BY <1>1, <1>2 DEF Sp!Of, Sp!Counter, Sp!Plain, Made, ShownAs

LEMMA OthersMade ==
  ASSUME NEW c \in OfOthers
  PROVE  c = Made(c.name)
<1>1. CASE c \in OfRays
  BY <1>1, SimpleMade DEF OfRays
<1>2. CASE c \in OfLds
  BY <1>2, SimpleMade, OfMade DEF OfLds
<1>3. CASE c \in OfUnits
  BY <1>3, SimpleMade, OfMade DEF OfUnits
<1>4. CASE c \in OfWrites
  BY <1>4, SimpleMade, OfMade DEF OfWrites
<1>5. CASE c \in OfBytes
  BY <1>5, SimpleMade DEF OfBytes
<1> QED
  BY <1>1, <1>2, <1>3, <1>4, <1>5 DEF OfOthers

LEMMA AllMade == \A c \in AllCounters : c = Made(c.name)
  BY CachesMade, OthersMade DEF AllCounters, OfCaches

(* What follows of a counter from its name.                                   *)
LEMMA MadeIs ==
  ASSUME NEW n
  PROVE  /\ Made(n).name = n /\ Made(n).display = ShownAs(n) /\ Made(n).components = PartsOf(n)
         /\ Made(n) = Sp!Counter(n, Made(n).display, Made(n).components)
         /\ IsPart(n) => PartsOf(n) = <<>>
         /\ PartsOf(n) \in Seq(Sp!Range(PartsOf(n)))
         /\ \A p \in Sp!Range(PartsOf(n)) : IsPart(p)
<1>1. /\ Made(n).name = n /\ Made(n).display = ShownAs(n) /\ Made(n).components = PartsOf(n)
      /\ Made(n) = Sp!Counter(n, Made(n).display, Made(n).components)
  BY DEF Made, Sp!Counter
<1>2. IsPart(n) => PartsOf(n) = <<>>
  BY DEF IsPart, PartsOf
<1>3. \/ PartsOf(n) = <<>>
      \/ PartsOf(n) = <<<<n[1], "RequestCount">>, <<n[1], "HitCount">>, <<n[1], "MissCount">>>>
      \/ \E m \in {"CSLDSBankConflictCycles", "MemUnitBusyCycles", "MemUnitStalledCycles", "WriteUnitStalledCycles"} :
           PartsOf(n) = <<Sp!Plain("GPUBusyCycles"), Sp!Plain(m)>>
  BY DEF PartsOf
<1> DEFINE fits(s) == s \in Seq(Sp!Range(s)) /\ \A p \in Sp!Range(s) : IsPart(p)
<1>4. fits(<<>>)
  BY ShortRanges
<1>5. fits(<<<<n[1], "RequestCount">>, <<n[1], "HitCount">>, <<n[1], "MissCount">>>>)
  <2> DEFINE a == <<n[1], "RequestCount">>
             b == <<n[1], "HitCount">>
             c == <<n[1], "MissCount">>
  <2>1. IsPart(a) /\ IsPart(b) /\ IsPart(c)
    BY DEF IsPart
  <2> HIDE DEF a, b, c
  <2>2. <<a, b, c>> \in Seq({a, b, c}) /\ Sp!Range(<<a, b, c>>) = {a, b, c}
    BY DEF Sp!Range
  <2>3. fits(<<a, b, c>>)
    BY <2>1, <2>2
  <2> QED
    BY <2>3 DEF a, b, c
<1>6. ASSUME NEW m \in {"CSLDSBankConflictCycles", "MemUnitBusyCycles", "MemUnitStalledCycles", "WriteUnitStalledCycles"}
      PROVE  fits(<<Sp!Plain("GPUBusyCycles"), Sp!Plain(m)>>)
  <2> DEFINE a == Sp!Plain("GPUBusyCycles")
             b == Sp!Plain(m)
  <2>1. IsPart(a) /\ IsPart(b)
    BY DEF IsPart, Sp!Plain
  <2> HIDE DEF a, b
  <2>2. <<a, b>> \in Seq({a, b}) /\ Sp!Range(<<a, b>>) = {a, b}
    BY DEF Sp!Range
  <2>3. fits(<<a, b>>)
    BY <2>1, <2>2
  <2> QED
    BY <2>3 DEF a, b
<1>7. fits(PartsOf(n))
  <2> HIDE DEF fits
  <2> QED
    BY <1>3, <1>4, <1>5, <1>6
<1> QED
  BY <1>1, <1>2, <1>7


NamesIn(arch) == {c.name : c \in CountersOf(arch)}

LEMMA OfNames ==
  /\ \A l : {c.name : c \in OfCache(l)} = {<<l, "Hit">>, <<l, "RequestCount">>, <<l, "HitCount">>, <<l, "MissCount">>}
  /\ {c.name : c \in OfRays} = {<<"", "RayBoxTests">>, <<"", "RayTriTests">>}
  /\ {c.name : c \in OfLds} = {<<"", "CSLDSBankConflict">>, <<"", "GPUBusyCycles">>, <<"", "CSLDSBankConflictCycles">>}
  /\ {c.name : c \in OfUnits} = {<<"", "MemUnitBusy">>, <<"", "MemUnitStalled">>, <<"", "MemUnitBusyCycles">>,
                                 <<"", "MemUnitStalledCycles">>}
  /\ {c.name : c \in OfWrites} = {<<"", "WriteUnitStalled">>, <<"", "WriteUnitStalledCycles">>}
  /\ {c.name : c \in OfBytes} = {<<"", "FetchSize">>, <<"", "WriteSize">>, <<"", "LocalVidMemBytes">>, <<"", "PcieBytes">>}
<1>1. \A n : /\ Sp!Simple(n).name = <<"", n>>
             /\ \A m : Sp!CacheCount(n, m).name = <<n, m>> /\ Sp!Of(n, m).name = <<"", n>>
             /\ \A m, o : Sp!Counter(n, m, o).name = n
  BY DEF Sp!Simple, Sp!Of, Sp!CacheCount, Sp!Counter, Sp!Plain
<1>2. \A l : {c.name : c \in OfCache(l)} = {<<l, "Hit">>, <<l, "RequestCount">>, <<l, "HitCount">>, <<l, "MissCount">>}
  <2> TAKE l
  <2> DEFINE a == Sp!Counter(Sp!Hit(l), l, <<<<l, "RequestCount">>, <<l, "HitCount">>, <<l, "MissCount">>>>)
             b == Sp!CacheCount(l, "RequestCount")
             c == Sp!CacheCount(l, "HitCount")
             d == Sp!CacheCount(l, "MissCount")
  <2>1. OfCache(l) = {a, b, c, d}
    BY DEF OfCache
  <2>2. a.name = <<l, "Hit">> /\ b.name = <<l, "RequestCount">> /\ c.name = <<l, "HitCount">> /\ d.name = <<l, "MissCount">>
    BY <1>1 DEF Sp!Hit
  <2> HIDE DEF a, b, c, d
  <2>3. {e.name : e \in {a, b, c, d}} = {a.name, b.name, c.name, d.name}
    OBVIOUS
  <2> QED
    BY <2>1, <2>2, <2>3
<1>3. {c.name : c \in OfRays} = {<<"", "RayBoxTests">>, <<"", "RayTriTests">>}
  <2> DEFINE a == Sp!Simple("RayBoxTests")
             b == Sp!Simple("RayTriTests")
  <2>1. OfRays = {a, b}
    BY DEF OfRays
  <2>2. a.name = <<"", "RayBoxTests">> /\ b.name = <<"", "RayTriTests">>
    BY <1>1
  <2> HIDE DEF a, b
  <2>3. {x.name : x \in {a, b}} = {a.name, b.name}
    OBVIOUS
  <2> QED
    BY <2>1, <2>2, <2>3
<1>4. {c.name : c \in OfLds} = {<<"", "CSLDSBankConflict">>, <<"", "GPUBusyCycles">>, <<"", "CSLDSBankConflictCycles">>}
  <2> DEFINE a == Sp!Of("CSLDSBankConflict", "CSLDSBankConflictCycles")
             b == Sp!Simple("GPUBusyCycles")
             c == Sp!Simple("CSLDSBankConflictCycles")
  <2>1. OfLds = {a, b, c}
    BY DEF OfLds
  <2>2. a.name = <<"", "CSLDSBankConflict">> /\ b.name = <<"", "GPUBusyCycles">> /\ c.name = <<"", "CSLDSBankConflictCycles">>
    BY <1>1
  <2> HIDE DEF a, b, c
  <2>3. {x.name : x \in {a, b, c}} = {a.name, b.name, c.name}
    OBVIOUS
  <2> QED
    BY <2>1, <2>2, <2>3
<1>5. {c.name : c \in OfUnits} =
        {<<"", "MemUnitBusy">>, <<"", "MemUnitStalled">>, <<"", "MemUnitBusyCycles">>, <<"", "MemUnitStalledCycles">>}
  <2> DEFINE a == Sp!Of("MemUnitBusy", "MemUnitBusyCycles")
             b == Sp!Of("MemUnitStalled", "MemUnitStalledCycles")
             c == Sp!Simple("MemUnitBusyCycles")
             d == Sp!Simple("MemUnitStalledCycles")
  <2>1. OfUnits = {a, b, c, d}
    BY DEF OfUnits
  <2>2. a.name = <<"", "MemUnitBusy">> /\ b.name = <<"", "MemUnitStalled">>
        /\ c.name = <<"", "MemUnitBusyCycles">> /\ d.name = <<"", "MemUnitStalledCycles">>
    BY <1>1
  <2> HIDE DEF a, b, c, d
  <2>3. {x.name : x \in {a, b, c, d}} = {a.name, b.name, c.name, d.name}
    OBVIOUS
  <2> QED
    BY <2>1, <2>2, <2>3
<1>6. {c.name : c \in OfWrites} = {<<"", "WriteUnitStalled">>, <<"", "WriteUnitStalledCycles">>}
  <2> DEFINE a == Sp!Of("WriteUnitStalled", "WriteUnitStalledCycles")
             b == Sp!Simple("WriteUnitStalledCycles")
  <2>1. OfWrites = {a, b}
    BY DEF OfWrites
  <2>2. a.name = <<"", "WriteUnitStalled">> /\ b.name = <<"", "WriteUnitStalledCycles">>
    BY <1>1
  <2> HIDE DEF a, b
  <2>3. {x.name : x \in {a, b}} = {a.name, b.name}
    OBVIOUS
  <2> QED
    BY <2>1, <2>2, <2>3
<1>7. {c.name : c \in OfBytes} = {<<"", "FetchSize">>, <<"", "WriteSize">>, <<"", "LocalVidMemBytes">>, <<"", "PcieBytes">>}
  <2> DEFINE a == Sp!Simple("FetchSize")
             b == Sp!Simple("WriteSize")
             c == Sp!Simple("LocalVidMemBytes")
             d == Sp!Simple("PcieBytes")
  <2>1. OfBytes = {a, b, c, d}
    BY DEF OfBytes
  <2>2. a.name = <<"", "FetchSize">> /\ b.name = <<"", "WriteSize">>
        /\ c.name = <<"", "LocalVidMemBytes">> /\ d.name = <<"", "PcieBytes">>
    BY <1>1
  <2> HIDE DEF a, b, c, d
  <2>3. {x.name : x \in {a, b, c, d}} = {a.name, b.name, c.name, d.name}
    OBVIOUS
  <2> QED
    BY <2>1, <2>2, <2>3
<1> QED
  BY <1>2, <1>3, <1>4, <1>5, <1>6, <1>7

LEMMA OfSeconds ==
  /\ \A c \in OfRays : c.name[1] = "" /\ c.name[2] \in {"RayBoxTests", "RayTriTests"}
  /\ \A c \in OfLds : c.name[1] = "" /\ c.name[2] # "WriteUnitStalled"
  /\ \A c \in OfUnits : c.name[1] = "" /\ c.name[2] # "WriteUnitStalled"
  /\ \A c \in OfBytes : c.name[1] = "" /\ c.name[2] # "WriteUnitStalled"
  /\ \A c \in OfWrites : c.name[1] = ""
<1>1. ASSUME NEW n PROVE Sp!Simple(n).name[1] = "" /\ Sp!Simple(n).name[2] = n
  BY DEF Sp!Simple, Sp!Counter, Sp!Plain
<1>2. ASSUME NEW n, NEW m PROVE Sp!Of(n, m).name[1] = "" /\ Sp!Of(n, m).name[2] = n
  BY DEF Sp!Of, Sp!Counter, Sp!Plain
<1>3. \A c \in OfRays : c.name[1] = "" /\ c.name[2] \in {"RayBoxTests", "RayTriTests"}
  BY <1>1 DEF OfRays
<1>4. \A c \in OfLds : c.name[1] = "" /\ c.name[2] # "WriteUnitStalled"
  <2> DEFINE a == Sp!Of("CSLDSBankConflict", "CSLDSBankConflictCycles")
             b == Sp!Simple("GPUBusyCycles")
             d == Sp!Simple("CSLDSBankConflictCycles")
  <2>1. OfLds = {a, b, d}
    BY DEF OfLds
  <2>2. /\ a.name[1] = "" /\ a.name[2] # "WriteUnitStalled"
        /\ b.name[1] = "" /\ b.name[2] # "WriteUnitStalled"
        /\ d.name[1] = "" /\ d.name[2] # "WriteUnitStalled"
    BY <1>1, <1>2
  <2> HIDE DEF a, b, d
  <2> QED
    BY <2>1, <2>2
<1>5. \A c \in OfUnits : c.name[1] = "" /\ c.name[2] # "WriteUnitStalled"
  <2> DEFINE a == Sp!Of("MemUnitBusy", "MemUnitBusyCycles")
             b == Sp!Of("MemUnitStalled", "MemUnitStalledCycles")
             d == Sp!Simple("MemUnitBusyCycles")
             e == Sp!Simple("MemUnitStalledCycles")
  <2>1. OfUnits = {a, b, d, e}
    BY DEF OfUnits
  <2>2. /\ a.name[1] = "" /\ a.name[2] # "WriteUnitStalled"
        /\ b.name[1] = "" /\ b.name[2] # "WriteUnitStalled"
        /\ d.name[1] = "" /\ d.name[2] # "WriteUnitStalled"
        /\ e.name[1] = "" /\ e.name[2] # "WriteUnitStalled"
    BY <1>1, <1>2
  <2> HIDE DEF a, b, d, e
  <2> QED
    BY <2>1, <2>2
<1>6. \A c \in OfBytes : c.name[1] = "" /\ c.name[2] # "WriteUnitStalled"
  BY <1>1 DEF OfBytes
<1>7. \A c \in OfWrites : c.name[1] = ""
  <2> DEFINE a == Sp!Of("WriteUnitStalled", "WriteUnitStalledCycles")
             b == Sp!Simple("WriteUnitStalledCycles")
  <2>1. OfWrites = {a, b}
    BY DEF OfWrites
  <2>2. /\ a.name[1] = ""
        /\ b.name[1] = ""
    BY <1>1, <1>2
  <2> HIDE DEF a, b
  <2> QED
    BY <2>1, <2>2
<1> QED
  BY <1>3, <1>4, <1>5, <1>6, <1>7

(* Every counter's components are counters of the same GPU.                     *)
LEMMA ComponentsResolve ==
  ASSUME NEW arch \in Nat, NEW c \in CountersOf(arch)
  PROVE  c \in AllCounters /\ Sp!Range(c.components) \subseteq NamesIn(arch)
<1>1. ~(arch < 1)
  BY DefaultRange
<1>2. ASSUME NEW l, l # "", OfCache(l) \subseteq CountersOf(arch), c \in OfCache(l)
      PROVE  Sp!Range(c.components) \subseteq NamesIn(arch)
  <2>1. {d.name : d \in OfCache(l)} \subseteq NamesIn(arch)
    BY <1>2 DEF NamesIn
  <2>2. {<<l, "RequestCount">>, <<l, "HitCount">>, <<l, "MissCount">>} \subseteq NamesIn(arch)
    BY <2>1, OfNames
  <2>3. c.components = PartsOf(c.name) /\ c.name[1] = l
    BY <1>2, CachesMade, MadeIs
  <2>4. \/ c.components = <<>>
        \/ c.components = <<<<l, "RequestCount">>, <<l, "HitCount">>, <<l, "MissCount">>>>
    BY <1>2, <2>3 DEF PartsOf
  <2> QED
    BY <2>2, <2>4 DEF Sp!Range
<1>3. ASSUME c \in OfOthers PROVE Sp!Range(c.components) \subseteq NamesIn(arch)
  <2>1. c.components = PartsOf(c.name) /\ c.name[1] = ""
    <3>1. c.components = PartsOf(c.name)
      BY <1>3, OthersMade, MadeIs
    <3> QED
      BY <1>3, <3>1, OfSeconds DEF OfOthers
  <2>2. \/ c.components = <<>>
        \/ /\ c.name[2] \in {"CSLDSBankConflict", "MemUnitBusy", "MemUnitStalled", "WriteUnitStalled"}
           /\ \/ c.components = <<<<"", "GPUBusyCycles">>, <<"", "CSLDSBankConflictCycles">>>>
              \/ c.components = <<<<"", "GPUBusyCycles">>, <<"", "MemUnitBusyCycles">>>>
              \/ c.components = <<<<"", "GPUBusyCycles">>, <<"", "MemUnitStalledCycles">>>>
              \/ /\ c.name[2] = "WriteUnitStalled"
                 /\ c.components = <<<<"", "GPUBusyCycles">>, <<"", "WriteUnitStalledCycles">>>>
    BY <2>1 DEF PartsOf, Sp!Plain
  <2>3. CASE c.components = <<>>
    BY <2>3 DEF Sp!Range
  <2>4. CASE c.components # <<>>
    <3>1. ~(arch < 3)
      <4>1. SUFFICES ASSUME arch < 3 PROVE FALSE
        OBVIOUS
      <4>2. c \in OfRays \cup OfCache("Inst") \cup OfCache("Scalar") \cup OfCache("L0") \cup OfCache("L1") \cup OfCache("L2")
        BY <1>1, <4>1, DefaultRange DEF OfMore
      <4>3. c \in OfRays
        BY <2>1, <4>2, CachesMade
      <4> QED
        BY <2>2, <2>4, <4>3, OfSeconds
    <3>2. OfLds \cup OfUnits \subseteq CountersOf(arch)
      BY <1>1, <3>1, DefaultRange DEF OfMore
    <3>3. {d.name : d \in OfLds} \subseteq NamesIn(arch) /\ {d.name : d \in OfUnits} \subseteq NamesIn(arch)
      BY <3>2 DEF NamesIn
    <3>4. c.name[2] = "WriteUnitStalled" => OfWrites \subseteq CountersOf(arch)
      <4>1. SUFFICES ASSUME c.name[2] = "WriteUnitStalled" PROVE arch >= 4
        BY <1>1, <3>1, DefaultRange DEF OfMore
      <4>2. SUFFICES ASSUME ~(arch >= 4) PROVE FALSE
        OBVIOUS
      <4>3. c \in OfRays \cup OfCache("Inst") \cup OfCache("Scalar") \cup OfCache("L0") \cup OfCache("L1") \cup OfCache("L2")
                    \cup OfLds \cup OfUnits \cup OfBytes
        BY <1>1, <3>1, <4>2, DefaultRange DEF OfMore
      <4>4. c \in OfRays \cup OfLds \cup OfUnits \cup OfBytes
        BY <2>1, <4>3, CachesMade
      <4> QED
        BY <4>1, <4>4, OfSeconds
    <3>5. c.name[2] = "WriteUnitStalled" => {d.name : d \in OfWrites} \subseteq NamesIn(arch)
      BY <3>4 DEF NamesIn
    <3>6. /\ {<<"", "GPUBusyCycles">>, <<"", "CSLDSBankConflictCycles">>, <<"", "MemUnitBusyCycles">>,
              <<"", "MemUnitStalledCycles">>} \subseteq NamesIn(arch)
          /\ c.name[2] = "WriteUnitStalled" => <<"", "WriteUnitStalledCycles">> \in NamesIn(arch)
      BY <3>3, <3>5, OfNames
    <3> DEFINE G == <<"", "GPUBusyCycles">>
               A == <<"", "CSLDSBankConflictCycles">>
               B == <<"", "MemUnitBusyCycles">>
               C == <<"", "MemUnitStalledCycles">>
               D == <<"", "WriteUnitStalledCycles">>
    <3>7. \/ c.components = <<G, A>> /\ A \in NamesIn(arch)
          \/ c.components = <<G, B>> /\ B \in NamesIn(arch)
          \/ c.components = <<G, C>> /\ C \in NamesIn(arch)
          \/ c.components = <<G, D>> /\ D \in NamesIn(arch)
      BY <2>2, <2>4, <3>6
    <3>8. G \in NamesIn(arch)
      BY <3>6
    <3> HIDE DEF G, A, B, C, D
    <3> QED
      BY <3>7, <3>8 DEF Sp!Range
  <2> QED
    BY <2>3, <2>4
<1>4. c \in OfOthers \/ \E l \in {"Inst", "Scalar", "L0", "L1", "L2"} : c \in OfCache(l) /\ OfCache(l) \subseteq CountersOf(arch)
  BY <1>1, DefaultRange DEF OfMore, OfOthers
<1>5. c \in AllCounters
  BY <1>4 DEF AllCounters, OfCaches
<1> QED
  BY <1>2, <1>3, <1>4, <1>5


(* A group has members, which are counters and no components.                   *)
GroupFits(arch, g) ==
  /\ g = Sp!Group(g.name, g.members) /\ g.members \in Seq(NamesIn(arch))
  /\ \A k \in DOMAIN g.members : g.members[k] \in NamesIn(arch) /\ ~IsPart(g.members[k])

MembersFit(arch, s) == s \in Seq(NamesIn(arch)) /\ \A k \in DOMAIN s : ~IsPart(s[k])

LEMMA GroupOf ==
  ASSUME NEW arch, NEW n, NEW s, MembersFit(arch, s)
  PROVE  GroupFits(arch, Sp!Group(n, s))
<1>1. Sp!Group(n, s).name = n /\ Sp!Group(n, s).members = s
  BY DEF Sp!Group
<1>2. \A k \in DOMAIN s : s[k] \in NamesIn(arch)
  BY ElementOfSeq DEF MembersFit
<1> QED
  BY <1>1, <1>2 DEF GroupFits, MembersFit, Sp!Group

LEMMA HitsAre ==
  ASSUME NEW arch \in Nat, arch >= 1, NEW l \in {"Inst", "Scalar", "L0", "L1", "L2"}, l = "L1" => arch # 4
  PROVE  Sp!Hit(l) \in NamesIn(arch) /\ ~IsPart(Sp!Hit(l))
<1>1. OfCache(l) \subseteq CountersOf(arch)
  BY DefaultRange
<1>2. {c.name : c \in OfCache(l)} \subseteq NamesIn(arch)
  BY <1>1 DEF NamesIn
<1>3. <<l, "Hit">> \in NamesIn(arch)
  BY <1>2, OfNames
<1> QED
  BY <1>3 DEF Sp!Hit, IsPart

LEMMA CacheGroupFits ==
  ASSUME NEW arch \in Nat, arch >= 1
  PROVE  GroupFits(arch, Sp!CacheGroup(arch))
<1> DEFINE a == Sp!Hit("Inst")
           b == Sp!Hit("Scalar")
           c == Sp!Hit("L0")
           d == Sp!Hit("L1")
           e == Sp!Hit("L2")
<1>1. /\ a \in NamesIn(arch) /\ ~IsPart(a) /\ b \in NamesIn(arch) /\ ~IsPart(b)
      /\ c \in NamesIn(arch) /\ ~IsPart(c) /\ e \in NamesIn(arch) /\ ~IsPart(e)
  BY HitsAre
<1>2. arch # 4 => d \in NamesIn(arch) /\ ~IsPart(d)
  BY HitsAre
<1>3. CASE arch = 4
  <2>1. Sp!CacheGroup(arch) = Sp!Group("Cache", <<a, b, c, e>>)
    BY <1>3 DEF Sp!CacheGroup
  <2> HIDE DEF a, b, c, e
  <2>2. MembersFit(arch, <<a, b, c, e>>)
    BY <1>1 DEF MembersFit
  <2> QED
    BY <2>1, <2>2, GroupOf
<1>4. CASE arch # 4
  <2>1. Sp!CacheGroup(arch) = Sp!Group("Cache", <<a, b, c, d, e>>)
    BY <1>4 DEF Sp!CacheGroup
  <2> HIDE DEF a, b, c, d, e
  <2>2. MembersFit(arch, <<a, b, c, d, e>>)
    BY <1>1, <1>2, <1>4 DEF MembersFit
  <2> QED
    BY <2>1, <2>2, GroupOf
<1> QED
  BY <1>3, <1>4

LEMMA RayGroupFits ==
  ASSUME NEW arch \in Nat, arch >= 1
  PROVE  GroupFits(arch, Sp!RayGroup)
<1> DEFINE a == Sp!Plain("RayBoxTests")
           b == Sp!Plain("RayTriTests")
<1>1. OfRays \subseteq CountersOf(arch)
  BY DefaultRange
<1>2. {c.name : c \in OfRays} \subseteq NamesIn(arch)
  BY <1>1 DEF NamesIn
<1>3. a \in NamesIn(arch) /\ b \in NamesIn(arch) /\ ~IsPart(a) /\ ~IsPart(b)
  BY <1>2, OfNames DEF Sp!Plain, IsPart
<1>4. Sp!RayGroup = Sp!Group("Ray tracing", <<a, b>>)
  BY DEF Sp!RayGroup
<1> HIDE DEF a, b
<1>5. MembersFit(arch, <<a, b>>)
  BY <1>3 DEF MembersFit
<1> QED
  BY <1>4, <1>5, GroupOf

LEMMA MoreGroupsFit ==
  ASSUME NEW arch \in Nat, arch >= 3
  PROVE  GroupFits(arch, Sp!LdsGroup) /\ GroupFits(arch, Sp!PercentGroup(arch)) /\ GroupFits(arch, Sp!BytesGroup)
<1>1. /\ OfLds \subseteq CountersOf(arch) /\ OfUnits \subseteq CountersOf(arch) /\ OfBytes \subseteq CountersOf(arch)
      /\ arch >= 4 => OfWrites \subseteq CountersOf(arch)
  BY DefaultRange DEF OfMore
<1>2. /\ {c.name : c \in OfLds} \subseteq NamesIn(arch) /\ {c.name : c \in OfUnits} \subseteq NamesIn(arch)
      /\ {c.name : c \in OfBytes} \subseteq NamesIn(arch)
      /\ arch >= 4 => {c.name : c \in OfWrites} \subseteq NamesIn(arch)
  BY <1>1 DEF NamesIn
<1> DEFINE a == Sp!Plain("CSLDSBankConflict")
           b == Sp!Plain("MemUnitBusy")
           c == Sp!Plain("MemUnitStalled")
           d == Sp!Plain("WriteUnitStalled")
           e == Sp!Plain("FetchSize")
           f == Sp!Plain("WriteSize")
           g == Sp!Plain("LocalVidMemBytes")
           h == Sp!Plain("PcieBytes")
<1>3. a \in NamesIn(arch) /\ b \in NamesIn(arch) /\ c \in NamesIn(arch) /\ (arch >= 4 => d \in NamesIn(arch))
  BY <1>2, OfNames DEF Sp!Plain
<1>4. e \in NamesIn(arch) /\ f \in NamesIn(arch) /\ g \in NamesIn(arch) /\ h \in NamesIn(arch)
  BY <1>2, OfNames DEF Sp!Plain
<1>5. ~IsPart(a) /\ ~IsPart(b) /\ ~IsPart(c) /\ ~IsPart(d) /\ ~IsPart(e) /\ ~IsPart(f) /\ ~IsPart(g) /\ ~IsPart(h)
  BY DEF Sp!Plain, IsPart
<1>6. /\ Sp!LdsGroup = Sp!Group("LDS", <<a>>)
      /\ Sp!PercentGroup(arch) = Sp!Group("Memory (%)", IF arch >= 4 THEN <<b, c, d>> ELSE <<b, c>>)
      /\ Sp!BytesGroup = Sp!Group("Memory (bytes)", <<e, f, g, h>>)
  BY DEF Sp!LdsGroup, Sp!PercentGroup, Sp!BytesGroup
<1> HIDE DEF a, b, c, d, e, f, g, h
<1>7. GroupFits(arch, Sp!LdsGroup)
  <2>1. MembersFit(arch, <<a>>)
    BY <1>3, <1>5 DEF MembersFit
  <2> QED
    BY <2>1, <1>6, GroupOf
<1>8. GroupFits(arch, Sp!PercentGroup(arch))
  <2>1. CASE arch >= 4
    <3>1. MembersFit(arch, <<b, c, d>>)
      BY <1>3, <1>5, <2>1 DEF MembersFit
    <3>2. Sp!PercentGroup(arch) = Sp!Group("Memory (%)", <<b, c, d>>)
      BY <1>6, <2>1
    <3> QED
      BY <3>1, <3>2, GroupOf
  <2>2. CASE ~(arch >= 4)
    <3>1. MembersFit(arch, <<b, c>>)
      BY <1>3, <1>5 DEF MembersFit
    <3>2. Sp!PercentGroup(arch) = Sp!Group("Memory (%)", <<b, c>>)
      BY <1>6, <2>2
    <3> QED
      BY <3>1, <3>2, GroupOf
  <2> QED
    BY <2>1, <2>2
<1>9. GroupFits(arch, Sp!BytesGroup)
  <2>1. MembersFit(arch, <<e, f, g, h>>)
    BY <1>4, <1>5 DEF MembersFit
  <2> QED
    BY <2>1, <1>6, GroupOf
<1> QED
  BY <1>7, <1>8, <1>9

LEMMA GroupsResolve ==
  ASSUME NEW arch \in Nat
  PROVE  /\ Sp!DefaultGroups(arch) \in Seq({g \in Sp!Range(Sp!DefaultGroups(arch)) : GroupFits(arch, g)})
         /\ \A k \in DOMAIN Sp!DefaultGroups(arch) : GroupFits(arch, Sp!DefaultGroups(arch)[k])
<1> DEFINE a == Sp!CacheGroup(arch)
           b == Sp!RayGroup
           c == Sp!LdsGroup
           d == Sp!PercentGroup(arch)
           e == Sp!BytesGroup
           fits(s) == /\ s \in Seq({g \in Sp!Range(s) : GroupFits(arch, g)})
                      /\ \A k \in DOMAIN s : GroupFits(arch, s[k])
<1>1. CASE arch < 1
  <2>1. Sp!DefaultGroups(arch) = <<>>
    BY <1>1 DEF Sp!DefaultGroups
  <2> QED
    BY <2>1
<1>2. CASE ~(arch < 1) /\ arch < 3
  <2>1. Sp!DefaultGroups(arch) = <<a, b>>
    BY <1>2 DEF Sp!DefaultGroups
  <2>2. GroupFits(arch, a) /\ GroupFits(arch, b)
    BY <1>2, CacheGroupFits, RayGroupFits
  <2> HIDE DEF a, b
  <2>3. fits(<<a, b>>)
    BY <2>2 DEF Sp!Range
  <2> QED
    BY <2>1, <2>3
<1>3. CASE ~(arch < 3)
  <2>1. Sp!DefaultGroups(arch) = <<a, b, c, d, e>>
    BY <1>3 DEF Sp!DefaultGroups
  <2>2. GroupFits(arch, a) /\ GroupFits(arch, b) /\ GroupFits(arch, c) /\ GroupFits(arch, d) /\ GroupFits(arch, e)
    BY <1>3, CacheGroupFits, RayGroupFits, MoreGroupsFit
  <2> HIDE DEF a, b, c, d, e
  <2>3. fits(<<a, b, c, d, e>>)
    BY <2>2 DEF Sp!Range
  <2> QED
    BY <2>1, <2>3
<1> QED
  BY <1>1, <1>2, <1>3

(* The database of a GPU resolves.                                           *)
LEMMA DefaultsResolve ==
  ASSUME NEW arch \in Nat
  PROVE  Sp!Resolves(Sp!DefaultCounters(arch), Sp!DefaultGroups(arch))
<1>1. \A c \in Sp!Range(Sp!DefaultCounters(arch)) :
        Sp!Range(c.components) \subseteq {e.name : e \in Sp!Range(Sp!DefaultCounters(arch))}
  BY ComponentsResolve DEF CountersOf, NamesIn
<1>2. \A k \in DOMAIN Sp!DefaultGroups(arch) : Sp!Range(Sp!DefaultGroups(arch)[k].members) \subseteq NamesIn(arch)
  BY GroupsResolve DEF GroupFits, Sp!Range
<1> QED
  BY <1>1, <1>2 DEF Sp!Resolves, CountersOf, NamesIn


(* ----- SpmCounters: places and indices. -----                                *)

LEMMA SameCardinality == \A S : Sp!Cardinality(S) = Cardinality(S)
  BY DEF Sp!Cardinality, Cardinality

LEMMA IndexIs ==
  ASSUME NEW places, NEW k
  PROVE  Sp!Index(places, k) = Cardinality({j \in places : j < k})
  BY SameCardinality DEF Sp!Index

LEMMA IndexGrows ==
  ASSUME NEW n \in Nat, NEW places, places \subseteq 1 .. n, NEW j \in places, NEW k \in places, j < k
  PROVE  /\ Sp!Index(places, j) \in Nat /\ Sp!Index(places, k) \in Nat
         /\ Sp!Index(places, j) < Sp!Index(places, k)
<1> DEFINE A == {i \in places : i < j}
           B == {i \in places : i < k}
<1>1. IsFiniteSet(A) /\ IsFiniteSet(B)
  <2>1. IsFiniteSet(1 .. n)
    BY FS_Interval
  <2> QED
    BY <2>1, FS_Subset
<1>2. A \subseteq B /\ A # B
  <2>1. \A i \in places : i \in Int
    OBVIOUS
  <2>2. j \in B /\ j \notin A
    BY <2>1
  <2>3. ASSUME NEW i \in A PROVE i \in B
    <3>1. i \in places /\ i < j /\ i \in Int /\ j \in Int /\ k \in Int
      BY <2>1
    <3> QED
      BY <3>1
  <2> QED
    BY <2>2, <2>3
<1>3. Cardinality(A) \in Nat /\ Cardinality(B) \in Nat /\ Cardinality(A) < Cardinality(B)
  <2> HIDE DEF A, B
  <2>1. Cardinality(A) \in Nat /\ Cardinality(B) \in Nat
    BY <1>1, FS_CardinalityType
  <2>2. Cardinality(A) <= Cardinality(B) /\ (Cardinality(A) = Cardinality(B) => A = B)
    BY <1>1, <1>2, FS_Subset
  <2> QED
    BY <1>2, <2>1, <2>2
<1>4. Sp!Index(places, j) = Cardinality(A) /\ Sp!Index(places, k) = Cardinality(B)
  BY IndexIs
<1> QED
  BY <1>3, <1>4

(* A place is found again by its index.                                       *)
LEMMA PlaceOfIndex ==
  ASSUME NEW n \in Nat, NEW places, places \subseteq 1 .. n, NEW k \in places
  PROVE  Sp!PlaceAt(places, Sp!Index(places, k)) = k
<1>1. ASSUME NEW j \in places, Sp!Index(places, j) = Sp!Index(places, k) PROVE j = k
  <2>1. CASE j < k
    <3>1. Sp!Index(places, j) \in Nat /\ Sp!Index(places, k) \in Nat /\ Sp!Index(places, j) < Sp!Index(places, k)
      BY <2>1, IndexGrows
    <3> QED
      BY <1>1, <3>1
  <2>2. CASE k < j
    <3>1. Sp!Index(places, k) \in Nat /\ Sp!Index(places, j) \in Nat /\ Sp!Index(places, k) < Sp!Index(places, j)
      BY <2>2, IndexGrows
    <3> QED
      BY <1>1, <3>1
  <2> QED
    BY <2>1, <2>2
<1> QED
  BY <1>1 DEF Sp!PlaceAt

(* ----- SpmCounters: the database in the order of a hash map. -----             *)

OrderOf(arch, cs) ==
  /\ cs \in Seq(CountersOf(arch)) /\ Sp!Range(cs) = CountersOf(arch)
  /\ \A j, k \in DOMAIN cs : cs[j] = cs[k] => j = k

LEMMA Ordered ==
  ASSUME NEW arch \in Nat, NEW cs, OrderOf(arch, cs)
  PROVE  /\ Len(cs) \in Nat /\ DOMAIN cs = 1 .. Len(cs) /\ cs = [k \in 1 .. Len(cs) |-> cs[k]]
         /\ Sp!NamesOf(cs) = NamesIn(arch)
<1>1. Len(cs) \in Nat /\ DOMAIN cs = 1 .. Len(cs) /\ cs = [k \in 1 .. Len(cs) |-> cs[k]]
  BY LenProperties DEF OrderOf
<1>2. Sp!NamesOf(cs) = NamesIn(arch)
  BY DEF OrderOf, Sp!Range, Sp!NamesOf, NamesIn
<1> QED
  BY <1>1, <1>2

CounterFits(arch, cs, k) ==
  /\ cs[k] \in CountersOf(arch) /\ Sp!PlaceOf(cs, cs[k].name) = k /\ cs[k].name \in Sp!NamesOf(cs)
  /\ cs[k] = Sp!Counter(cs[k].name, cs[k].display, cs[k].components)
  /\ IsPart(cs[k].name) => cs[k].components = <<>>
  /\ cs[k].components = [p \in DOMAIN cs[k].components |-> cs[k].components[p]]
  /\ \A p \in DOMAIN cs[k].components : IsPart(cs[k].components[p])

LEMMA CounterAt ==
  ASSUME NEW arch \in Nat, NEW cs, OrderOf(arch, cs), NEW k \in DOMAIN cs
  PROVE  CounterFits(arch, cs, k)
<1>1. \A j \in DOMAIN cs : cs[j] \in CountersOf(arch)
  BY ElementOfSeq DEF OrderOf
<1>2. \A j \in DOMAIN cs : cs[j] = Made(cs[j].name)
  BY <1>1, ComponentsResolve, AllMade
<1>3. \A j \in DOMAIN cs : cs[j].name = cs[k].name => j = k
  BY <1>2 DEF OrderOf
<1>4. cs[k].name \in Sp!NamesOf(cs) /\ Sp!PlaceOf(cs, cs[k].name) = k
  BY <1>3 DEF Sp!NamesOf, Sp!PlaceOf
<1> DEFINE n == cs[k].name
           ps == PartsOf(n)
<1>5. cs[k] = Made(n) /\ cs[k].components = ps
  BY <1>2, MadeIs
<1>6. ps \in Seq(Sp!Range(ps)) /\ (\A p \in Sp!Range(ps) : IsPart(p)) /\ (IsPart(n) => ps = <<>>)
  BY MadeIs
<1>7. Made(n) = Sp!Counter(n, Made(n).display, Made(n).components)
  BY MadeIs
<1> HIDE DEF ps
<1>8. ps = [p \in DOMAIN ps |-> ps[p]] /\ \A p \in DOMAIN ps : IsPart(ps[p])
  BY <1>6 DEF Sp!Range
<1> QED
  BY <1>1, <1>4, <1>5, <1>6, <1>7, <1>8 DEF CounterFits

LEMMA NameAt ==
  ASSUME NEW arch \in Nat, NEW cs, OrderOf(arch, cs), NEW m \in NamesIn(arch)
  PROVE  \E k \in DOMAIN cs : m = cs[k].name
  BY Ordered DEF Sp!NamesOf

(* The places of counters and of components.                                  *)
LEMMA AllPlaces ==
  ASSUME NEW cs
  PROVE  Sp!ComponentPlaces(cs) \cup Sp!CounterPlaces(cs) = DOMAIN cs
  BY DEF Sp!ComponentPlaces, Sp!CounterPlaces

LEMMA ComponentPlace ==
  ASSUME NEW arch \in Nat, NEW cs, OrderOf(arch, cs), NEW k \in Sp!ComponentPlaces(cs)
  PROVE  IsPart(cs[k].name) /\ cs[k].components = <<>>
<1>1. k \in DOMAIN cs /\ cs[k].name \in Sp!ComponentNames(cs)
  BY DEF Sp!ComponentPlaces
<1>2. PICK j \in DOMAIN cs : cs[k].name \in Sp!Range(cs[j].components)
  BY <1>1 DEF Sp!ComponentNames
<1>3. CounterFits(arch, cs, j) /\ CounterFits(arch, cs, k)
  BY <1>1, CounterAt
<1>4. IsPart(cs[k].name)
  BY <1>2, <1>3 DEF CounterFits, Sp!Range
<1> QED
  BY <1>3, <1>4 DEF CounterFits

LEMMA PlaceOfComponent ==
  ASSUME NEW arch \in Nat, NEW cs, OrderOf(arch, cs), NEW k \in DOMAIN cs, NEW p \in DOMAIN cs[k].components
  PROVE  \E j \in Sp!ComponentPlaces(cs) : cs[k].components[p] = cs[j].name
<1>1. cs[k].components[p] \in Sp!Range(cs[k].components)
  BY DEF Sp!Range
<1>2. cs[k] \in CountersOf(arch)
  BY CounterAt DEF CounterFits
<1>3. cs[k].components[p] \in NamesIn(arch)
  BY <1>1, <1>2, ComponentsResolve
<1>4. cs[k].components[p] \in Sp!ComponentNames(cs)
  BY <1>1 DEF Sp!ComponentNames
<1>5. PICK j \in DOMAIN cs : cs[k].components[p] = cs[j].name
  BY <1>3, NameAt
<1> QED
  BY <1>4, <1>5 DEF Sp!ComponentPlaces

LEMMA PlaceOfCounter ==
  ASSUME NEW arch \in Nat, NEW cs, OrderOf(arch, cs), NEW m \in NamesIn(arch), ~IsPart(m)
  PROVE  \E k \in Sp!CounterPlaces(cs) : m = cs[k].name
<1>1. PICK k \in DOMAIN cs : m = cs[k].name
  BY NameAt
<1>2. k \notin Sp!ComponentPlaces(cs)
  BY <1>1, ComponentPlace
<1> QED
  BY <1>1, <1>2 DEF Sp!CounterPlaces


LEMMA IndexMapIs ==
  ASSUME NEW arch \in Nat, NEW cs, OrderOf(arch, cs)
  PROVE  /\ \A k \in Sp!ComponentPlaces(cs) : Sp!IndexMap(cs)[cs[k].name] = Sp!Index(Sp!ComponentPlaces(cs), k)
         /\ \A k \in Sp!CounterPlaces(cs) : Sp!IndexMap(cs)[cs[k].name] = Sp!Index(Sp!CounterPlaces(cs), k)
<1>1. ASSUME NEW k \in DOMAIN cs
      PROVE  Sp!IndexMap(cs)[cs[k].name] =
               Sp!Index(IF cs[k].name \in Sp!ComponentNames(cs) THEN Sp!ComponentPlaces(cs) ELSE Sp!CounterPlaces(cs), k)
  <2>1. cs[k].name \in Sp!NamesOf(cs) /\ Sp!PlaceOf(cs, cs[k].name) = k
    <3>1. CounterFits(arch, cs, k)
      BY CounterAt
    <3> QED
      BY <3>1 DEF CounterFits
  <2> QED
    BY <2>1 DEF Sp!IndexMap
<1>2. \A k \in Sp!ComponentPlaces(cs) : k \in DOMAIN cs /\ cs[k].name \in Sp!ComponentNames(cs)
  BY DEF Sp!ComponentPlaces
<1>3. \A k \in Sp!CounterPlaces(cs) : k \in DOMAIN cs /\ cs[k].name \notin Sp!ComponentNames(cs)
  BY DEF Sp!ComponentPlaces, Sp!CounterPlaces
<1> QED
  BY <1>1, <1>2, <1>3

LEMMA EntriesRead ==
  ASSUME NEW table, NEW names, NEW index,
         names = [p \in DOMAIN names |-> names[p]],
         \A p \in DOMAIN names : index[names[p]] \in DOMAIN table /\ table[index[names[p]]] = names[p]
  PROVE  Sp!Entries(table, Sp!WriteIndices(names, index)) = names
<1> DEFINE is == Sp!WriteIndices(names, index)
<1>1. DOMAIN is = DOMAIN names /\ \A p \in DOMAIN names : is[p] = index[names[p]]
  BY DEF Sp!WriteIndices
<1> HIDE DEF is
<1>2. \A p \in DOMAIN names : Sp!Entry(table, is[p]) = names[p]
  BY <1>1 DEF Sp!Entry
<1>3. Sp!Entries(table, is) = [p \in DOMAIN names |-> names[p]]
  BY <1>1, <1>2 DEF Sp!Entries
<1> QED
  BY <1>3 DEF is

(* What a legacy chunk says is the database it was written from.                *)
LEMMA LegacyReadsBack ==
  ASSUME NEW arch \in Nat, NEW cs, OrderOf(arch, cs)
  PROVE  \E c : /\ Sp!SerializeChunkDerivedSpmDb(cs, Sp!DefaultGroups(arch)) = <<c>>
                /\ Sp!ReadLegacy(c) = Sp!Database(arch)
<1> DEFINE groups == Sp!DefaultGroups(arch)
           index == Sp!IndexMap(cs)
           cn == Sp!CounterPlaces(cs)
           cp == Sp!ComponentPlaces(cs)
           gTable == [k \in DOMAIN groups |-> Sp!GroupInfo(groups[k], index)]
           nTable == [i \in Sp!Indices(cn) |-> Sp!CounterInfo(cs[Sp!PlaceAt(cn, i)], index)]
           pTable == [i \in Sp!Indices(cp) |-> cs[Sp!PlaceAt(cp, i)].display]
           nData == [i \in Sp!Indices(cn) |-> cs[Sp!PlaceAt(cn, i)].name]
           pData == [i \in Sp!Indices(cp) |-> cs[Sp!PlaceAt(cp, i)].name]
           c == [groups |-> gTable, counters |-> nTable, components |-> pTable, counterData |-> nData,
                 componentData |-> pData]
<1>1. ~\E k \in cp : cs[k].components # <<>>
  BY ComponentPlace
<1>2. Sp!SerializeChunkDerivedSpmDb(cs, groups) = <<c>>
  BY <1>1 DEF Sp!SerializeChunkDerivedSpmDb
<1>3. Len(cs) \in Nat /\ DOMAIN cs = 1 .. Len(cs) /\ cp \cup cn = DOMAIN cs
  BY Ordered, AllPlaces
<1>4. \A k \in cn : Sp!Index(cn, k) \in Sp!Indices(cn) /\ Sp!PlaceAt(cn, Sp!Index(cn, k)) = k
  BY <1>3, PlaceOfIndex DEF Sp!Indices
<1>5. \A k \in cp : Sp!Index(cp, k) \in Sp!Indices(cp) /\ Sp!PlaceAt(cp, Sp!Index(cp, k)) = k
  BY <1>3, PlaceOfIndex DEF Sp!Indices
<1>6. /\ \A i \in Sp!Indices(cn) : \E k \in cn : i = Sp!Index(cn, k)
      /\ \A i \in Sp!Indices(cp) : \E k \in cp : i = Sp!Index(cp, k)
  BY DEF Sp!Indices
<1>7. /\ \A k \in cn : index[cs[k].name] = Sp!Index(cn, k)
      /\ \A k \in cp : index[cs[k].name] = Sp!Index(cp, k)
  BY IndexMapIs
<1> HIDE DEF index, cn, cp
<1>8. /\ DOMAIN pData = Sp!Indices(cp) /\ DOMAIN pTable = Sp!Indices(cp)
      /\ \A k \in cp : pData[Sp!Index(cp, k)] = cs[k].name /\ pTable[Sp!Index(cp, k)] = cs[k].display
  BY <1>5
<1>9. /\ DOMAIN nData = Sp!Indices(cn) /\ DOMAIN nTable = Sp!Indices(cn)
      /\ \A k \in cn : nData[Sp!Index(cn, k)] = cs[k].name /\ nTable[Sp!Index(cn, k)] = Sp!CounterInfo(cs[k], index)
  BY <1>4
<1>10. DOMAIN gTable = DOMAIN groups /\ \A k \in DOMAIN groups : gTable[k] = Sp!GroupInfo(groups[k], index)
  OBVIOUS
<1> HIDE DEF gTable, nTable, pTable, nData, pData
<1>11. ASSUME NEW k \in DOMAIN cs
       PROVE  Sp!Entries(pData, Sp!WriteIndices(cs[k].components, index)) = cs[k].components
  <2>1. cs[k].components = [p \in DOMAIN cs[k].components |-> cs[k].components[p]]
    BY CounterAt DEF CounterFits
  <2>2. ASSUME NEW p \in DOMAIN cs[k].components
        PROVE  LET m == cs[k].components[p] IN index[m] \in DOMAIN pData /\ pData[index[m]] = m
    <3>1. PICK j \in cp : cs[k].components[p] = cs[j].name
      BY PlaceOfComponent DEF cp
    <3> QED
      BY <1>5, <1>7, <1>8, <3>1
  <2> QED
    BY <2>1, <2>2, EntriesRead
<1>12. ASSUME NEW k \in cn
       PROVE  LET i == Sp!Index(cn, k)
              IN  Sp!Counter(Sp!Entry(nData, i), nTable[i].display, Sp!Entries(pData, nTable[i].components)) = cs[k]
  <2>1. nTable[Sp!Index(cn, k)].display = cs[k].display
        /\ nTable[Sp!Index(cn, k)].components = Sp!WriteIndices(cs[k].components, index)
    <3>1. nTable[Sp!Index(cn, k)] = Sp!CounterInfo(cs[k], index)
      BY <1>9
    <3> HIDE DEF nTable
    <3> QED
      BY <3>1 DEF Sp!CounterInfo
  <2>2. Sp!Entry(nData, Sp!Index(cn, k)) = cs[k].name
    BY <1>4, <1>9 DEF Sp!Entry
  <2>3. k \in DOMAIN cs
    BY <1>3
  <2>4. Sp!Entries(pData, nTable[Sp!Index(cn, k)].components) = cs[k].components
    BY <1>11, <2>1, <2>3
  <2>5. Sp!Counter(cs[k].name, cs[k].display, cs[k].components) = cs[k]
    <3>1. CounterFits(arch, cs, k)
      BY <2>3, CounterAt
    <3> QED
      BY <3>1 DEF CounterFits
  <2> QED
    BY <2>1, <2>2, <2>4, <2>5
<1>13. ASSUME NEW k \in cp
       PROVE  LET i == Sp!Index(cp, k) IN Sp!Counter(Sp!Entry(pData, i), pTable[i], <<>>) = cs[k]
  <2>1. pTable[Sp!Index(cp, k)] = cs[k].display /\ Sp!Entry(pData, Sp!Index(cp, k)) = cs[k].name
    BY <1>5, <1>8 DEF Sp!Entry
  <2>2. k \in DOMAIN cs /\ cs[k].components = <<>>
    BY <1>1, <1>3
  <2>3. Sp!Counter(cs[k].name, cs[k].display, cs[k].components) = cs[k]
    <3>1. CounterFits(arch, cs, k)
      BY <2>2, CounterAt
    <3> QED
      BY <3>1 DEF CounterFits
  <2> QED
    BY <2>1, <2>2, <2>3
<1> DEFINE nRead(i) == Sp!Counter(Sp!Entry(nData, i), nTable[i].display, Sp!Entries(pData, nTable[i].components))
           pRead(i) == Sp!Counter(Sp!Entry(pData, i), pTable[i], <<>>)
<1>14. {nRead(i) : i \in DOMAIN nTable} \cup {pRead(i) : i \in DOMAIN pTable} = Sp!Range(cs)
  <2>1. \A i \in DOMAIN nTable : \E k \in cn : nRead(i) = cs[k]
    BY <1>6, <1>9, <1>12
  <2>2. \A i \in DOMAIN pTable : \E k \in cp : pRead(i) = cs[k]
    BY <1>6, <1>8, <1>13
  <2>3. \A k \in cn : \E i \in DOMAIN nTable : nRead(i) = cs[k]
    BY <1>4, <1>9, <1>12
  <2>4. \A k \in cp : \E i \in DOMAIN pTable : pRead(i) = cs[k]
    BY <1>5, <1>8, <1>13
  <2> HIDE DEF nRead, pRead
  <2>5. ASSUME NEW x
        PROVE  x \in {nRead(i) : i \in DOMAIN nTable} \cup {pRead(i) : i \in DOMAIN pTable} <=> \E k \in DOMAIN cs : x = cs[k]
    BY <1>3, <2>1, <2>2, <2>3, <2>4
  <2>6. Sp!Range(cs) = {cs[k] : k \in DOMAIN cs}
    BY DEF Sp!Range
  <2> QED
    BY <2>5, <2>6
<1>15. [k \in DOMAIN gTable |-> Sp!Group(gTable[k].name, Sp!Entries(nData, gTable[k].members))] = groups
  <2>1. ASSUME NEW k \in DOMAIN groups PROVE Sp!Group(gTable[k].name, Sp!Entries(nData, gTable[k].members)) = groups[k]
    <3> DEFINE g == groups[k]
    <3>1. GroupFits(arch, g)
      BY GroupsResolve
    <3>2. gTable[k].name = g.name /\ gTable[k].members = Sp!WriteIndices(g.members, index)
      BY <1>10 DEF Sp!GroupInfo
    <3> HIDE DEF g
    <3>3. g.members = [p \in DOMAIN g.members |-> g.members[p]]
      BY <3>1 DEF GroupFits
    <3>4. ASSUME NEW p \in DOMAIN g.members
          PROVE  index[g.members[p]] \in DOMAIN nData /\ nData[index[g.members[p]]] = g.members[p]
      <4>1. g.members[p] \in NamesIn(arch) /\ ~IsPart(g.members[p])
        BY <3>1 DEF GroupFits
      <4>2. PICK j \in cn : g.members[p] = cs[j].name
        BY <4>1, PlaceOfCounter DEF cn
      <4> QED
        BY <1>4, <1>7, <1>9, <4>2
    <3>5. Sp!Entries(nData, Sp!WriteIndices(g.members, index)) = g.members
      BY <3>3, <3>4, EntriesRead
    <3>6. Sp!Group(g.name, g.members) = g
      BY <3>1 DEF GroupFits
    <3> QED
      BY <3>2, <3>5, <3>6 DEF g
  <2>2. \E S : groups \in Seq(S)
    BY GroupsResolve
  <2>3. groups = [k \in DOMAIN groups |-> groups[k]]
    BY <2>2
  <2> HIDE DEF groups
  <2> QED
    BY <1>10, <2>1, <2>3
<1>16. Sp!Range(cs) = Sp!Range(Sp!DefaultCounters(arch))
  BY DEF OrderOf, CountersOf
<1>17. Sp!ReadLegacy(c) = Sp!View({nRead(i) : i \in DOMAIN nTable} \cup {pRead(i) : i \in DOMAIN pTable},
         [k \in DOMAIN gTable |-> Sp!Group(gTable[k].name, Sp!Entries(nData, gTable[k].members))])
  BY DEF Sp!ReadLegacy
<1> HIDE DEF c
<1>18. Sp!ReadLegacy(c) = Sp!Database(arch)
  BY <1>14, <1>15, <1>16, <1>17 DEF Sp!Database
<1> QED
  BY <1>2, <1>18


(* What the chunks of an RDF file say is the database they were written from.     *)
LEMMA RdfReadsBack ==
  ASSUME NEW arch \in Nat, NEW cs, OrderOf(arch, cs)
  PROVE  Sp!ReadRdf([j \in 0 .. Len(cs) + Len(Sp!DefaultGroups(arch)) |-> Sp!RdfChunks(cs, Sp!DefaultGroups(arch))[j]])
           = Sp!Database(arch)
<1> DEFINE groups == Sp!DefaultGroups(arch)
           n == Len(cs)
           g == Len(groups)
           index == [m \in Sp!NamesOf(cs) |-> Sp!PlaceOf(cs, m) - 1]
           all == Sp!RdfChunks(cs, groups)
           c == [j \in 0 .. n + g |-> all[j]]
<1>1. n \in Nat /\ DOMAIN cs = 1 .. n /\ \A k \in 1 .. n : CounterFits(arch, cs, k)
  BY Ordered, CounterAt
<1>2. /\ \E S : groups \in Seq(S)
      /\ \A k \in DOMAIN groups : GroupFits(arch, groups[k])
  BY GroupsResolve
<1> HIDE DEF groups
<1>3. g \in Nat /\ DOMAIN groups = 1 .. g /\ groups = [k \in 1 .. g |-> groups[k]]
  BY <1>2
<1>4. \A k \in 1 .. n : index[cs[k].name] = k - 1
  BY <1>1 DEF CounterFits
<1>5. \A j \in 0 .. n + g :
        c[j] = IF j = 0 THEN [kind |-> "session", counters |-> n, groups |-> g]
               ELSE IF j <= n THEN Sp!RdfCounter(cs, j, index) ELSE Sp!RdfGroup(groups, j - n, index)
  BY DEF Sp!RdfChunks
<1>6. DOMAIN c = 0 .. n + g
  OBVIOUS
<1> HIDE DEF c, all, index
<1>7. ASSUME NEW k \in 1 .. n
      PROVE  /\ k \in DOMAIN c /\ c[k].kind = "counter" /\ c[k].index = k - 1 /\ c[k].data = cs[k].name
             /\ c[k].info = Sp!CounterInfo(cs[k], index)
  <2>1. k \in 0 .. n + g /\ k # 0 /\ k <= n
    BY <1>1, <1>3
  <2>2. c[k] = Sp!RdfCounter(cs, k, index)
    BY <1>5, <2>1
  <2> QED
    BY <1>6, <2>1, <2>2 DEF Sp!RdfCounter
<1>8. ASSUME NEW k \in 1 .. g
      PROVE  /\ n + k \in DOMAIN c /\ c[n + k].kind = "group" /\ c[n + k].index = k - 1
             /\ c[n + k].info = Sp!GroupInfo(groups[k], index)
  <2>1. n + k \in 0 .. n + g /\ n + k # 0 /\ ~(n + k <= n) /\ (n + k) - n = k
    BY <1>1, <1>3
  <2>2. c[n + k] = Sp!RdfGroup(groups, k, index)
    BY <1>5, <2>1
  <2> QED
    BY <1>6, <2>1, <2>2 DEF Sp!RdfGroup
<1>9. c[0].kind = "session"
  BY <1>1, <1>3, <1>5
<1>10. ASSUME NEW j \in DOMAIN c PROVE j = 0 \/ j \in 1 .. n \/ \E k \in 1 .. g : j = n + k
  <2>1. CASE j = 0 \/ j <= n
    BY <1>1, <1>3, <1>6, <2>1
  <2>2. CASE ~(j = 0 \/ j <= n)
    <3>1. j - n \in 1 .. g /\ j = n + (j - n)
      BY <1>1, <1>3, <1>6, <2>2
    <3> QED
      BY <3>1
  <2> QED
    BY <2>1, <2>2
<1>11. Sp!ChunksOf(c, "counter") = 1 .. n
  BY <1>7, <1>8, <1>9, <1>10 DEF Sp!ChunksOf
<1>12. ASSUME NEW j PROVE j \in Sp!ChunksOf(c, "group") <=> \E k \in 1 .. g : j = n + k
  BY <1>7, <1>8, <1>9, <1>10 DEF Sp!ChunksOf
<1>13. ASSUME NEW k \in 1 .. n PROVE Sp!ChunkAt(c, "counter", k - 1) = c[k]
  <2>1. \A j \in 1 .. n : c[j].index = k - 1 => j = k
    BY <1>1, <1>7
  <2> QED
    BY <1>7, <1>11, <2>1 DEF Sp!ChunkAt
<1>14. ASSUME NEW k \in 1 .. g PROVE Sp!ChunkAt(c, "group", k - 1) = c[n + k]
  <2>1. \A j \in Sp!ChunksOf(c, "group") : c[j].index = k - 1 => j = n + k
    BY <1>3, <1>8, <1>12
  <2>2. n + k \in Sp!ChunksOf(c, "group") /\ c[n + k].index = k - 1
    BY <1>8, <1>12
  <2> QED
    BY <2>1, <2>2 DEF Sp!ChunkAt
<1> DEFINE counters == Sp!ChunksOf(c, "counter")
           data == [i \in {c[k].index : k \in counters} |-> Sp!ChunkAt(c, "counter", i).data]
<1>15. \A k \in 1 .. n : k - 1 \in DOMAIN data /\ data[k - 1] = cs[k].name
  BY <1>7, <1>11, <1>13
<1> HIDE DEF data
<1>16. ASSUME NEW m \in NamesIn(arch) PROVE index[m] \in DOMAIN data /\ data[index[m]] = m
  <2>1. PICK k \in 1 .. n : m = cs[k].name
    BY <1>1, NameAt
  <2> QED
    BY <1>4, <1>15, <2>1
<1>17. ASSUME NEW k \in 1 .. n
       PROVE  Sp!Counter(c[k].data, c[k].info.display, Sp!Entries(data, c[k].info.components)) = cs[k]
  <2>1. CounterFits(arch, cs, k)
    BY <1>1
  <2>2. c[k].info.display = cs[k].display /\ c[k].info.components = Sp!WriteIndices(cs[k].components, index)
    <3>1. c[k].info = Sp!CounterInfo(cs[k], index)
      BY <1>7
    <3> QED
      BY <3>1 DEF Sp!CounterInfo
  <2>3. cs[k].components = [p \in DOMAIN cs[k].components |-> cs[k].components[p]]
    BY <2>1 DEF CounterFits
  <2>4. \A p \in DOMAIN cs[k].components : cs[k].components[p] \in NamesIn(arch)
    <3>1. cs[k] \in CountersOf(arch)
      BY <2>1 DEF CounterFits
    <3>2. Sp!Range(cs[k].components) \subseteq NamesIn(arch)
      BY <3>1, ComponentsResolve
    <3> QED
      BY <3>2 DEF Sp!Range
  <2>5. Sp!Entries(data, Sp!WriteIndices(cs[k].components, index)) = cs[k].components
    BY <1>16, <2>3, <2>4, EntriesRead
  <2>6. Sp!Counter(cs[k].name, cs[k].display, cs[k].components) = cs[k]
    BY <2>1 DEF CounterFits
  <2> QED
    BY <1>7, <2>2, <2>5, <2>6
<1> DEFINE read(k) == Sp!Counter(c[k].data, c[k].info.display, Sp!Entries(data, c[k].info.components))
<1>18. {read(k) : k \in counters} = Sp!Range(cs)
  <2>1. \A k \in 1 .. n : read(k) = cs[k]
    BY <1>17
  <2> HIDE DEF read
  <2> QED
    BY <1>1, <1>11, <2>1 DEF Sp!Range
<1> DEFINE gs == {c[k].index + 1 : k \in Sp!ChunksOf(c, "group")}
           gRead(k) == Sp!Group(Sp!ChunkAt(c, "group", k - 1).info.name,
                         Sp!Entries(data, Sp!ChunkAt(c, "group", k - 1).info.members))
<1>19. gs = 1 .. g
  <2>1. \A k \in 1 .. g : c[n + k].index + 1 = k
    BY <1>3, <1>8
  <2>2. gs \subseteq 1 .. g
    BY <1>12, <2>1
  <2>3. ASSUME NEW k \in 1 .. g PROVE k \in gs
    <3>1. n + k \in Sp!ChunksOf(c, "group") /\ c[n + k].index + 1 = k
      BY <1>12, <2>1
    <3> QED
      BY <3>1
  <2> QED
    BY <2>2, <2>3
<1>20. ASSUME NEW k \in 1 .. g PROVE gRead(k) = groups[k]
  <2> DEFINE h == groups[k]
  <2>1. GroupFits(arch, h)
    BY <1>2, <1>3
  <2>2. Sp!ChunkAt(c, "group", k - 1).info = Sp!GroupInfo(h, index)
    BY <1>8, <1>14
  <2> HIDE DEF h
  <2>3. Sp!GroupInfo(h, index).name = h.name /\ Sp!GroupInfo(h, index).members = Sp!WriteIndices(h.members, index)
    BY DEF Sp!GroupInfo
  <2>4. h.members = [p \in DOMAIN h.members |-> h.members[p]] /\ \A p \in DOMAIN h.members : h.members[p] \in NamesIn(arch)
    BY <2>1 DEF GroupFits
  <2>5. Sp!Entries(data, Sp!WriteIndices(h.members, index)) = h.members
    BY <1>16, <2>4, EntriesRead
  <2>6. Sp!Group(h.name, h.members) = h
    BY <2>1 DEF GroupFits
  <2> QED
    BY <2>2, <2>3, <2>5, <2>6 DEF h
<1>21. [k \in gs |-> gRead(k)] = groups
  <2> HIDE DEF gs, gRead
  <2> QED
    BY <1>3, <1>19, <1>20
<1>22. Sp!ReadRdf(c) = Sp!View({read(k) : k \in counters}, [k \in gs |-> gRead(k)])
  BY DEF Sp!ReadRdf, data
<1>23. Sp!Range(cs) = Sp!Range(Sp!DefaultCounters(arch))
  BY DEF OrderOf, CountersOf
<1>24. Sp!ReadRdf(c) = Sp!Database(arch)
  <2> HIDE DEF counters, read, gs, gRead
  <2> QED
    BY <1>18, <1>21, <1>22, <1>23 DEF Sp!Database, groups
<1> QED
  BY <1>24 DEF c, all, groups


(* ----- SpmCounters: the hardware counters of a query. -----                   *)

(* The first of the places, pairs of numbers in the order of a list of lists.     *)
LEMMA FirstPlace ==
  ASSUME NEW S, S \subseteq Nat \X Nat, S # {}
  PROVE  \E p \in S : \A q \in S : ~(q[1] < p[1] \/ (q[1] = p[1] /\ q[2] < p[2]))
<1> DEFINE A == {p[1] : p \in S}
<1>1. A \subseteq Nat /\ A # {}
  OBVIOUS
<1> HIDE DEF A
<1>2. PICK a \in A : \A b \in A : a <= b
  BY <1>1, LeastNumber
<1> DEFINE B == {p[2] : p \in {q \in S : q[1] = a}}
<1>3. B \subseteq Nat /\ B # {}
  BY <1>2 DEF A
<1> HIDE DEF B
<1>4. PICK b \in B : \A c \in B : b <= c
  BY <1>3, LeastNumber
<1>5. PICK p \in S : p[1] = a /\ p[2] = b
  BY <1>4 DEF B
<1>6. ASSUME NEW q \in S PROVE ~(q[1] < p[1] \/ (q[1] = p[1] /\ q[2] < p[2]))
  <2>1. q[1] \in A /\ (q[1] = a => q[2] \in B)
    BY DEF A, B
  <2>2. q[1] \in Nat /\ q[2] \in Nat /\ p[1] \in Nat /\ p[2] \in Nat
    OBVIOUS
  <2> QED
    BY <1>2, <1>4, <1>5, <2>1, <2>2
<1> QED
  BY <1>5, <1>6

Once(list) == \A p, q \in DOMAIN list : list[p] = list[q] => p = q
Listed(list) == {list[p] : p \in DOMAIN list}

(* A list of the found, each once and without timing counters.                  *)
LEMMA AddedOnce ==
  ASSUME NEW found, DOMAIN found \subseteq Nat \X Nat
  PROVE  /\ Once(Sp!AddHardwareCounters(found))
         /\ Listed(Sp!AddHardwareCounters(found)) = {found[p] : p \in {q \in DOMAIN found : ~found[q].timing}}
<1> DEFINE before(p, q) == p[1] < q[1] \/ (p[1] = q[1] /\ p[2] < q[2])
           first == {q \in DOMAIN found : ~found[q].timing /\ \A p \in DOMAIN found : before(p, q) => found[p] # found[q]}
           list == [p \in first |-> found[p]]
<1>1. Sp!AddHardwareCounters(found) = list
  BY DEF Sp!AddHardwareCounters
<1>2. ASSUME NEW p \in first, NEW q \in first, found[p] = found[q] PROVE p = q
  <2>1. ~before(p, q) /\ ~before(q, p)
    BY <1>2
  <2>2. p \in Nat \X Nat /\ q \in Nat \X Nat
    OBVIOUS
  <2>3. p[1] = q[1] /\ p[2] = q[2]
    BY <2>1, <2>2
  <2> QED
    BY <2>2, <2>3
<1>3. ASSUME NEW q \in DOMAIN found, ~found[q].timing PROVE \E p \in first : found[p] = found[q]
  <2> DEFINE S == {p \in DOMAIN found : found[p] = found[q]}
  <2>1. S \subseteq Nat \X Nat /\ S # {}
    OBVIOUS
  <2>2. PICK p \in S : \A r \in S : ~before(r, p)
    BY <2>1, FirstPlace
  <2>3. p \in DOMAIN found /\ found[p] = found[q]
    OBVIOUS
  <2>4. ASSUME NEW r \in DOMAIN found, before(r, p) PROVE found[r] # found[p]
    BY <2>2, <2>3, <2>4
  <2> HIDE DEF before
  <2>5. p \in first
    BY <1>3, <2>3, <2>4
  <2> QED
    BY <2>3, <2>5
<1>4. \A p \in first : p \in DOMAIN found /\ ~found[p].timing
  OBVIOUS
<1> HIDE DEF first
<1>5. DOMAIN list = first /\ \A p \in first : list[p] = found[p]
  OBVIOUS
<1> HIDE DEF list
<1>6. Once(list)
  BY <1>2, <1>5 DEF Once
<1>7. Listed(list) = {found[p] : p \in {q \in DOMAIN found : ~found[q].timing}}
  <2>1. \A p \in DOMAIN list : \E q \in DOMAIN found : ~found[q].timing /\ list[p] = found[q]
    BY <1>4, <1>5
  <2>2. \A q \in DOMAIN found : ~found[q].timing => \E p \in DOMAIN list : list[p] = found[q]
    BY <1>3, <1>5
  <2> QED
    BY <2>1, <2>2 DEF Listed
<1> QED
  BY <1>1, <1>6, <1>7

LEMMA HardwareIs ==
  ASSUME NEW g \in SpmGpus
  PROVE  /\ Once(Sp!HardwareCounters(g, Sp!DefaultCounters(g)))
         /\ Listed(Sp!HardwareCounters(g, Sp!DefaultCounters(g))) =
              UNION {{h \in Sp!Range(HardwareOf(g, c.name)) : ~h.timing} : c \in Sp!Range(Sp!DefaultCounters(g))}
<1> DEFINE cs == Sp!DefaultCounters(g)
           of(k) == HardwareOf(g, cs[k].name)
           places == UNION {{<<k, j>> : j \in DOMAIN of(k)} : k \in DOMAIN cs}
           found == [p \in places |-> of(p[1])[p[2]]]
           hw == Sp!AddHardwareCounters(found)
<1>1. Sp!HardwareCounters(g, cs) = hw
  BY DEF Sp!HardwareCounters
<1>2. \A k \in DOMAIN cs : k \in Nat /\ cs[k] \in Sp!Range(cs) /\ DOMAIN of(k) \subseteq Nat
  <2>1. g \in Nat /\ \A c \in Sp!Range(cs) : DOMAIN HardwareOf(g, c.name) \subseteq Nat
    BY CountersAssumption
  <2>2. DOMAIN cs \subseteq Nat
    BY <2>1, DefaultRange
  <2>3. \A k \in DOMAIN cs : cs[k] \in Sp!Range(cs)
    BY DEF Sp!Range
  <2> QED
    BY <2>1, <2>2, <2>3
<1> HIDE DEF cs, of
<1>3. \A k \in DOMAIN cs : \A j \in DOMAIN of(k) : <<k, j>> \in places
  OBVIOUS
<1>4. \A p \in places : \E k \in DOMAIN cs : \E j \in DOMAIN of(k) : p = <<k, j>>
  OBVIOUS
<1>5. DOMAIN found = places /\ places \subseteq Nat \X Nat
  BY <1>2, <1>4
<1>6. \A k \in DOMAIN cs : \A j \in DOMAIN of(k) : found[<<k, j>>] = of(k)[j]
  BY <1>3
<1> HIDE DEF places, found
<1>7. /\ Once(hw)
      /\ Listed(hw) = {found[p] : p \in {q \in DOMAIN found : ~found[q].timing}}
  BY <1>5, AddedOnce
<1> HIDE DEF hw
<1>8. ASSUME NEW h PROVE (\E p \in places : ~found[p].timing /\ h = found[p])
                     <=> \E c \in Sp!Range(cs) : h \in Sp!Range(HardwareOf(g, c.name)) /\ ~h.timing
  <2>1. ASSUME NEW p \in places, ~found[p].timing, h = found[p]
        PROVE  \E c \in Sp!Range(cs) : h \in Sp!Range(HardwareOf(g, c.name)) /\ ~h.timing
    <3>1. PICK k \in DOMAIN cs : \E j \in DOMAIN of(k) : p = <<k, j>>
      BY <1>4
    <3>2. PICK j \in DOMAIN of(k) : p = <<k, j>>
      BY <3>1
    <3>3. h = of(k)[j] /\ ~h.timing
      BY <1>6, <2>1, <3>2
    <3>4. h \in Sp!Range(HardwareOf(g, cs[k].name)) /\ cs[k] \in Sp!Range(cs)
      BY <1>2, <3>3 DEF of, Sp!Range
    <3> QED
      BY <3>3, <3>4
  <2>2. ASSUME NEW c \in Sp!Range(cs), h \in Sp!Range(HardwareOf(g, c.name)), ~h.timing
        PROVE  \E p \in places : ~found[p].timing /\ h = found[p]
    <3>1. PICK k \in DOMAIN cs : c = cs[k]
      BY DEF Sp!Range
    <3>2. PICK j \in DOMAIN of(k) : h = of(k)[j]
      BY <2>2, <3>1 DEF of, Sp!Range
    <3> QED
      BY <1>3, <1>6, <2>2, <3>2
  <2> QED
    BY <2>1, <2>2
<1>9. {found[p] : p \in {q \in DOMAIN found : ~found[q].timing}} =
        UNION {{h \in Sp!Range(HardwareOf(g, c.name)) : ~h.timing} : c \in Sp!Range(cs)}
  BY <1>5, <1>8
<1> QED
  BY <1>1, <1>7, <1>9 DEF cs


(* ----- SpmCounters: the invariant. -----                                       *)

(* What the file says, at the end of a processing that could write it.           *)
ReadsBack ==
  Sp!Database(spmGpu) =
    IF spmRdf THEN Sp!ReadRdf(spmChunks) ELSE IF spmChunks = <<>> THEN {} ELSE Sp!ReadLegacy(spmChunks[1])

CountersInv ==
  /\ spmAt \in {"idle", "captured", "load", "build", "append", "end", "done"}
  /\ spmAt # "idle" => spmGpu \in SpmGpus
  /\ Sp!HardwareFits
  /\ spmAt \notin {"end", "done"} => spmChunks = <<>>
  /\ ~spmRdf \/ spmAt = "captured" => spmHandles = {}
  /\ spmAt = "append" => spmOrder \in HashOrders(CountersOf(spmGpu))
  /\ spmAt \in {"end", "done"} /\ spmResult /\ "write" \notin spmFailed => spmHandles = {} /\ ReadsBack
  /\ spmAt \in {"end", "done"} /\ ~spmResult => spmFailed \ {"close"} # {} /\ (spmRdf => spmChunks = <<>>)
  /\ spmCompleted # Sp!None => spmAt = "done"
  /\ spmCompleted = "Completed" => spmResult
  /\ spmCompleted \in {"Aborted", "Error"} => ~spmResult
  /\ spmAbort /\ spmAt \in {"load", "build", "append", "end"} => spmAsked
  /\ spmCompleted = "Aborted" => spmAsked

LEMMA CountersInit == Sp!Init => CountersInv
  BY DEF Sp!Init, CountersInv, Sp!HardwareFits, Sp!None

LEMMA QueryKeeps ==
  ASSUME CountersInv, NEW g \in SpmGpus, Sp!Query(g)
  PROVE  CountersInv'
<1>1. spmAt' \in {"idle", "captured"} /\ spmGpu' = g /\ spmChunks' = <<>> /\ spmHandles' = {} /\ spmCompleted' = Sp!None
  BY DEF Sp!Query
<1>2. Sp!HardwareFits'
  <2>1. SUFFICES ASSUME spmAt' = "captured", "close" \notin spmFailed'
                 PROVE  /\ Once(spmHardware')
                        /\ Listed(spmHardware') =
                             UNION {{h \in Sp!Range(HardwareOf(g, c.name)) : ~h.timing} : c \in Sp!Range(Sp!DefaultCounters(g))}
    BY <1>1 DEF Sp!HardwareFits, Once, Listed
  <2>2. spmHardware' = Sp!HardwareCounters(g, Sp!DefaultCounters(g))
    <3>1. PICK opens \in BOOLEAN, closes \in BOOLEAN :
            LET used == IF spmContext = Sp!Closed THEN g ELSE spmContext
            IN  IF spmContext = Sp!Closed /\ ~opens
                THEN spmAt' = "idle" /\ UNCHANGED <<spmContext, spmHardware, spmFailed>>
                ELSE /\ spmContext' = IF closes THEN Sp!Closed ELSE used
                     /\ spmHardware' = Sp!HardwareCounters(used, Sp!DefaultCounters(g))
                     /\ spmFailed' = IF used = g THEN {} ELSE {"close"}
                     /\ spmAt' = "captured"
      BY DEF Sp!Query
    <3> QED
      BY <2>1, <3>1
  <2> QED
    BY <2>2, HardwareIs
<1> QED
  BY <1>1, <1>2 DEF CountersInv, Sp!None

(* The hardware counters are looked at before the processing only.              *)
LEMMA NotCaptured == spmAt' # "captured" => Sp!HardwareFits'
  BY DEF Sp!HardwareFits

LEMMA AbortKeeps ==
  ASSUME CountersInv, Sp!RequestAbortProcessing
  PROVE  CountersInv'
<1>1. /\ spmAt' = spmAt /\ spmGpu' = spmGpu /\ spmRdf' = spmRdf /\ spmChunks' = spmChunks /\ spmHandles' = spmHandles
      /\ spmOrder' = spmOrder /\ spmResult' = spmResult /\ spmFailed' = spmFailed /\ spmCompleted' = spmCompleted
      /\ spmHardware' = spmHardware
  BY DEF Sp!RequestAbortProcessing, Sp!file
<1>2. spmAsked' = (spmAsked \/ spmAt \notin {"idle", "captured", "done"})
  BY DEF Sp!RequestAbortProcessing
<1>3. Sp!HardwareFits' = Sp!HardwareFits /\ ReadsBack' = ReadsBack
  BY <1>1 DEF Sp!HardwareFits, ReadsBack
<1> QED
  BY <1>1, <1>2, <1>3 DEF CountersInv

LEMMA BeginKeeps ==
  ASSUME CountersInv, Sp!OnTraceCompletedWithSpm
  PROVE  CountersInv'
<1>1. spmAt = "captured" /\ spmAt' = "load" /\ ~spmAbort' /\ spmGpu' = spmGpu /\ spmChunks' = spmChunks
      /\ spmHandles' = spmHandles /\ spmCompleted' = spmCompleted
  BY DEF Sp!OnTraceCompletedWithSpm
<1> QED
  BY <1>1, NotCaptured DEF CountersInv, Sp!None

LEMMA LoadKeeps ==
  ASSUME CountersInv, Sp!LoadRdf \/ Sp!LoadLegacy
  PROVE  CountersInv'
<1>1. /\ spmAt = "load" /\ spmAt' \in {"build", "end"} /\ spmGpu' = spmGpu /\ spmChunks' = spmChunks /\ spmRdf' = spmRdf
      /\ spmAbort' = spmAbort /\ spmAsked' = spmAsked /\ spmCompleted' = spmCompleted
      /\ ~spmRdf => spmHandles' = spmHandles
  BY DEF Sp!LoadRdf, Sp!LoadLegacy, Sp!End, Sp!file
<1>2. spmAt' = "end" => ~spmResult' /\ spmFailed' \cap {"trace", "load"} # {}
  BY DEF Sp!LoadRdf, Sp!LoadLegacy, Sp!End
<1>3. spmAt' = "end" => spmFailed' \ {"close"} # {}
  BY <1>2
<1> QED
  BY <1>1, <1>2, <1>3, NotCaptured DEF CountersInv, Sp!None

LEMMA BuildKeeps ==
  ASSUME CountersInv, Sp!Build
  PROVE  CountersInv'
<1>1. /\ spmAt = "build" /\ spmGpu' = spmGpu /\ spmChunks' = spmChunks /\ spmRdf' = spmRdf /\ spmHandles' = spmHandles
      /\ spmAbort' = spmAbort /\ spmAsked' = spmAsked /\ spmCompleted' = spmCompleted
  BY DEF Sp!Build, Sp!file
<1>2. spmGpu \in SpmGpus /\ spmGpu \in Nat
  BY <1>1, CountersAssumption DEF CountersInv
<1>3. Sp!Resolves(Sp!DefaultCounters(spmGpu), Sp!DefaultGroups(spmGpu))
  BY <1>2, DefaultsResolve
<1>4. \/ spmOrder' \in HashOrders(CountersOf(spmGpu)) /\ spmAt' = "append"
      \/ spmAt' = "end" /\ ~spmResult' /\ spmFailed' \cap {"context", "build"} # {}
  <2>1. PICK ok \in BOOLEAN :
          IF ok /\ "context" \notin spmFailed
          THEN spmOrder' \in HashOrders(CountersOf(spmGpu)) /\ spmAt' = "append"
          ELSE /\ spmAt' = "end" /\ ~spmResult'
               /\ spmFailed' = spmFailed \cup (IF ok THEN {} ELSE {"build"})
    BY <1>3 DEF Sp!Build, Sp!End, CountersOf
  <2> QED
    BY <2>1
<1>5. spmAt' = "end" => spmFailed' \ {"close"} # {}
  BY <1>4
<1> QED
  BY <1>1, <1>2, <1>4, <1>5, NotCaptured DEF CountersInv, Sp!None

(* The order of the hash map is one of the GPU's counters.                      *)
LEMMA AppendedOrder ==
  ASSUME CountersInv, spmAt = "append"
  PROVE  spmGpu \in Nat /\ OrderOf(spmGpu, spmOrder)
<1>1. spmGpu \in SpmGpus /\ spmOrder \in HashOrders(CountersOf(spmGpu))
  BY DEF CountersInv
<1> QED
  BY <1>1, CountersAssumption DEF OrderOf, CountersOf

LEMMA AppendLegacyKeeps ==
  ASSUME CountersInv, Sp!AppendLegacy
  PROVE  CountersInv'
<1>1. /\ spmAt = "append" /\ spmAt' = "end" /\ ~spmRdf /\ spmGpu' = spmGpu /\ spmRdf' = spmRdf /\ spmHandles' = spmHandles
      /\ spmAbort' = spmAbort /\ spmAsked' = spmAsked /\ spmCompleted' = spmCompleted
  BY DEF Sp!AppendLegacy, Sp!End
<1>2. \/ spmResult' /\ spmChunks' = Sp!SerializeChunkDerivedSpmDb(spmOrder, Sp!DefaultGroups(spmGpu))
      \/ ~spmResult' /\ "write" \in spmFailed'
  BY DEF Sp!AppendLegacy, Sp!End
<1>3. PICK c : /\ Sp!SerializeChunkDerivedSpmDb(spmOrder, Sp!DefaultGroups(spmGpu)) = <<c>>
               /\ Sp!ReadLegacy(c) = Sp!Database(spmGpu)
  BY <1>1, AppendedOrder, LegacyReadsBack
<1>4. spmResult' => ReadsBack'
  <2>1. SUFFICES ASSUME spmResult' PROVE ReadsBack'
    OBVIOUS
  <2>2. CASE spmChunks' = <<c>>
    <3>1. spmChunks' # <<>> /\ spmChunks'[1] = c
      BY <2>2
    <3> QED
      BY <1>1, <1>3, <3>1 DEF ReadsBack
  <2> QED
    BY <1>2, <1>3, <2>1, <2>2
<1>5. ~spmResult' => spmFailed' \ {"close"} # {}
  BY <1>2
<1> QED
  BY <1>1, <1>4, <1>5, NotCaptured DEF CountersInv, Sp!None

LEMMA AppendRdfKeeps ==
  ASSUME CountersInv, Sp!AppendRdf
  PROVE  CountersInv'
<1> DEFINE all == Sp!RdfChunks(spmOrder, Sp!DefaultGroups(spmGpu))
           last == Len(spmOrder) + Len(Sp!DefaultGroups(spmGpu))
<1>1. /\ spmAt = "append" /\ spmAt' = "end" /\ spmRdf /\ spmGpu' = spmGpu /\ spmRdf' = spmRdf /\ spmHandles' = {}
      /\ spmAbort' = spmAbort /\ spmAsked' = spmAsked /\ spmCompleted' = spmCompleted /\ spmResult'
  BY DEF Sp!AppendRdf, Sp!End
<1>2. PICK k \in {0, 1, last, last + 1} :
        /\ spmChunks' = [j \in 0 .. k - 1 |-> all[j]]
        /\ spmFailed' = spmFailed \cup (IF k = last + 1 THEN {} ELSE {"write"})
  BY DEF Sp!AppendRdf
<1>3. spmGpu \in Nat /\ OrderOf(spmGpu, spmOrder)
  BY <1>1, AppendedOrder
<1>4. "write" \notin spmFailed' => ReadsBack'
  <2>1. SUFFICES ASSUME "write" \notin spmFailed' PROVE ReadsBack'
    OBVIOUS
  <2>2. k = last + 1
    BY <1>2, <2>1
  <2>3. last \in Nat
    <3>1. PICK S : Sp!DefaultGroups(spmGpu) \in Seq(S)
      BY <1>3, GroupsResolve
    <3> QED
      BY <1>3, <3>1, Ordered
  <2>4. k - 1 = last
    BY <2>2, <2>3
  <2>5. spmChunks' = [j \in 0 .. last |-> all[j]]
    BY <1>2, <2>4
  <2>6. Sp!ReadRdf(spmChunks') = Sp!Database(spmGpu)
    BY <1>3, <2>5, RdfReadsBack
  <2> QED
    BY <1>1, <2>6 DEF ReadsBack
<1> QED
  BY <1>1, <1>4, NotCaptured DEF CountersInv, Sp!None

LEMMA ReportKeeps ==
  ASSUME CountersInv, Sp!TraceCompleted
  PROVE  CountersInv'
<1>1. /\ spmAt = "end" /\ spmAt' = "done" /\ spmGpu' = spmGpu /\ spmRdf' = spmRdf /\ spmChunks' = spmChunks
      /\ spmHandles' = spmHandles /\ spmResult' = spmResult /\ spmFailed' = spmFailed /\ spmAsked' = spmAsked
      /\ spmAbort' = spmAbort
      /\ spmCompleted' = IF spmResult THEN "Completed" ELSE IF spmAbort THEN "Aborted" ELSE "Error"
  BY DEF Sp!TraceCompleted, Sp!file
<1>2. ReadsBack' = ReadsBack
  BY <1>1 DEF ReadsBack
<1> QED
  BY <1>1, <1>2, NotCaptured DEF CountersInv, Sp!None

LEMMA CountersStutter == CountersInv /\ UNCHANGED Sp!vars => CountersInv'
<1> SUFFICES ASSUME CountersInv, UNCHANGED Sp!vars PROVE CountersInv'
  OBVIOUS
<1>1. /\ spmAt' = spmAt /\ spmGpu' = spmGpu /\ spmRdf' = spmRdf /\ spmChunks' = spmChunks /\ spmHandles' = spmHandles
      /\ spmOrder' = spmOrder /\ spmResult' = spmResult /\ spmFailed' = spmFailed /\ spmCompleted' = spmCompleted
      /\ spmHardware' = spmHardware /\ spmAbort' = spmAbort /\ spmAsked' = spmAsked
  BY DEF Sp!vars, Sp!file
<1>2. Sp!HardwareFits' = Sp!HardwareFits /\ ReadsBack' = ReadsBack
  BY <1>1 DEF Sp!HardwareFits, ReadsBack
<1> QED
  BY <1>1, <1>2 DEF CountersInv

LEMMA CountersFollow == CountersInv => CountersReadBack
  BY DEF CountersInv, ReadsBack, CountersReadBack, Sp!CountersReadBack, Sp!None

(* A profile reported as complete, of a file that could be written, reads back    *)
(* as the derived counters of its GPU, for every GPU, whatever hardware counters *)
(* GPA lists and in whatever order the hash map of the database is run through   *)
(* (SerializeChunkDerivedSpmDb, AppendChunks, QuerySpmCounters).               *)
THEOREM ProfilesReadBack == Sp!Spec => []CountersReadBack
<1>1. CountersInv /\ [Sp!Next]_(Sp!vars) => CountersInv'
  BY QueryKeeps, AbortKeeps, BeginKeeps, LoadKeeps, BuildKeeps, AppendLegacyKeeps, AppendRdfKeeps, ReportKeeps,
     CountersStutter DEF Sp!Next
<1> QED
  BY <1>1, CountersInit, CountersFollow, PTL DEF Sp!Spec

==============================================================================
