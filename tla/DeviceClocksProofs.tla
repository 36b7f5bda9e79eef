-------------------------- MODULE DeviceClocksProofs --------------------------
(***************************************************************************)
(* DeviceClocksManager keeps its promises for any number of GPUs and of    *)
(* connections, whichever of the GPUs fail: theorems about DeviceClocks.   *)
(***************************************************************************)
EXTENDS DeviceClocks, TLAPS

Known == Modes \ {"Unknown"}

(* A GPU the manager has forced to peak, and one it has let go.            *)
Forced(g) ==
  IF g \in NoPeak THEN cached[g] = None /\ mode[g] = wanted[g]
  ELSE cached[g] = wanted[g] /\ mode[g] = "Peak"
Released(g) == cached[g] = None /\ mode[g] = wanted[g]

(* The holder of gpus_mutex_ has not come to the GPU yet.                  *)
Ahead(g) == holder \in {"force", "restore"} /\ at <= g

(* The set of forcing connections runs ahead of the GPUs, which follow it   *)
(* one by one.                                                             *)
Follows(g) ==
  /\ (forcing # {} <=> Ahead(g)) => Released(g)
  /\ (forcing = {} <=> Ahead(g)) => Forced(g)
GpusFollow == \A g \in Reliable : Follows(g)

HolderMeans ==
  /\ holder = "force" => forcing # {}
  /\ holder = "restore" => forcing = {}

(* Reliable GPUs come first, and the driver neither refuses them a mode it  *)
(* knows nor fails to read one back.                                       *)
LEMMA ReliableGpus ==
  /\ Reliable \subseteq Gpus
  /\ \A g \in Reliable : g \notin Unsettable /\ g \notin Unreadable
  /\ \A g \in Reliable, h \in Gpus : h <= g => h \in Reliable
  /\ Gpus \subseteq Nat
BY GpusAssumption DEF Reliable, Gpus

(* Where the next GPU is.                                                  *)
LEMMA NextGpuMoves ==
  ASSUME at \in Gpus, NextGpu
  PROVE  \/ at' = at + 1 /\ holder' = holder /\ at + 1 \in Gpus
         \/ at' = 1 /\ holder' = "update" /\ at = NumGpus
BY GpusAssumption DEF NextGpu, Take, Gpus

(* ----- The types. -----                                                  *)

LEMMA GpusFacts == 1 \in Gpus /\ Gpus \subseteq Nat /\ Known \subseteq Modes
BY GpusAssumption DEF Gpus, Known

(* No mode a GPU is in, nor one it is to go back to, is unknown.            *)
Types ==
  /\ TypeOK
  /\ mode \in [Gpus -> Known]
  /\ wanted \in [Gpus -> Known]

LEMMA InitTypes == Init => Types
<1> SUFFICES ASSUME Init PROVE Types
  OBVIOUS
<1>1. mode \in [Gpus -> Known] /\ wanted \in [Gpus -> Known]
  BY RequestsAssumption DEF Init, Known
<1>2. cached \in [Gpus -> Modes \cup {None}] /\ seen \in [Connections -> [Gpus -> Modes]]
  BY DEF Init, Modes
<1>3. reader \in [Connections -> [pc : ReadStates, next : 1 .. NumGpus + 1]]
  BY GpusAssumption DEF Init, ReadStates
<1> QED
  BY <1>1, <1>2, <1>3, GpusFacts DEF Types, TypeOK, Init

LEMMA StepTypes == Types /\ [Next]_vars => Types'
<1> SUFFICES ASSUME Types, [Next]_vars PROVE Types'
  OBVIOUS
<1> USE GpusFacts DEF Types, TypeOK
<1>1. ASSUME NEW c \in Connections, ForcePeak(c) \/ ReleasePeak(c) PROVE Types'
  BY <1>1 DEF ForcePeak, ReleasePeak, Take, clockVars, readVars
<1>2. CASE ForceGpu
  <2>1. cached' \in [Gpus -> Modes \cup {None}]
    BY <1>2 DEF ForceGpu, QueryClockMode, Modes
  <2>2. mode' \in [Gpus -> Known]
    BY <1>2 DEF ForceGpu, Requested, NotRequested, Set, Refuse, Known, Modes
  <2>3. holder' \in {"force", "update"} /\ at' \in Gpus /\ (holder' = "update" => at' = 1)
    BY <1>2, NextGpuMoves DEF ForceGpu, StopHere, Take
  <2> QED
    BY <1>2, <2>1, <2>2, <2>3 DEF ForceGpu, readVars, Race
<1>3. CASE RestoreGpu
  <2>1. cached' \in [Gpus -> Modes \cup {None}]
    BY <1>3 DEF RestoreGpu
  <2>2. mode' \in [Gpus -> Known]
    BY <1>3 DEF RestoreGpu, Requested, NotRequested, Set, Refuse, Known
  <2>3. holder' \in {"restore", "update"} /\ at' \in Gpus /\ (holder' = "update" => at' = 1)
    BY <1>3, NextGpuMoves DEF RestoreGpu, StopHere, Take
  <2> QED
    BY <1>3, <2>1, <2>2, <2>3 DEF RestoreGpu, readVars, Race
<1>4. ASSUME NEW g \in Gpus, NEW m \in Requests, RequestMode(g, m) PROVE Types'
  <2>1. mode' \in [Gpus -> Known]
    BY <1>4, RequestsAssumption DEF RequestMode, Requested, NotRequested, Set, Refuse, Known
  <2>2. wanted' \in [Gpus -> Known]
    BY <1>4, <2>1 DEF RequestMode
  <2> QED
    BY <1>4, <2>1, <2>2 DEF RequestMode, Take, readVars, Race
<1>5. CASE UpdateOverlay
  BY <1>5 DEF UpdateOverlay, Take, clockVars, readVars
<1>6. ASSUME NEW c \in Connections, OnDriverConnected(c) PROVE Types'
  BY <1>6, GpusAssumption DEF OnDriverConnected, clockVars, lockVars, ReadStates
<1>7. ASSUME NEW c \in Connections, ReadGpu(c) PROVE Types'
  <2>1. reader[c].next \in Gpus /\ reader[c].next + 1 \in 1 .. NumGpus + 1
    BY <1>7, GpusAssumption DEF ReadGpu, Gpus
  <2>2. seen' \in [Connections -> [Gpus -> Modes]]
    BY <1>7, <2>1 DEF ReadGpu, QueryClockMode, Modes
  <2>3. reader' \in [Connections -> [pc : ReadStates, next : 1 .. NumGpus + 1]]
    BY <1>7, <2>1 DEF ReadGpu
  <2> QED
    BY <1>7, <2>2, <2>3 DEF ReadGpu, clockVars, lockVars
<1>8. ASSUME NEW c \in Connections, UpdateDeviceClocks(c) PROVE Types'
  <2>1. reader' \in [Connections -> [pc : ReadStates, next : 1 .. NumGpus + 1]]
    BY <1>8, GpusAssumption DEF UpdateDeviceClocks, ReadStates
  <2> QED
    BY <1>8, <2>1 DEF UpdateDeviceClocks, clockVars, lockVars
<1>9. CASE UNCHANGED vars
  BY <1>9 DEF vars, clockVars, lockVars, readVars
<1> QED
  BY <1>1, <1>2, <1>3, <1>4, <1>5, <1>6, <1>7, <1>8, <1>9 DEF Next

(* Every variable keeps its type, for any number of GPUs and connections.   *)
THEOREM TypeCorrect == Spec => []TypeOK
<1>1. Spec => []Types
  BY InitTypes, StepTypes, PTL DEF Spec
<1>2. Types => TypeOK
  BY DEF Types
<1> QED
  BY <1>1, <1>2, PTL

(* ----- The GPUs follow the set of forcing connections. -----             *)

IInv == Types /\ HolderMeans /\ GpusFollow

LEMMA InitFollow == Init => IInv
<1> SUFFICES ASSUME Init PROVE IInv
  OBVIOUS
<1>1. HolderMeans
  BY DEF Init, HolderMeans
<1>2. GpusFollow
  BY ReliableGpus DEF Init, GpusFollow, Follows, Ahead, Released
<1> QED
  BY <1>1, <1>2, InitTypes DEF IInv

(* A step that touches no GPU and leaves nobody on the way preserves it.    *)
LEMMA ForcePeakStep ==
  ASSUME IInv, NEW c \in Connections, ForcePeak(c)
  PROVE  HolderMeans' /\ GpusFollow'
<1>1. HolderMeans'
  BY DEF IInv, HolderMeans, ForcePeak, Take
<1>2. ASSUME NEW g \in Reliable
      PROVE  Follows(g)'
  <2>1. (Released(g) <=> Released(g)') /\ (Forced(g) <=> Forced(g)')
    BY DEF ForcePeak, clockVars, Released, Forced
  <2>2. 1 <= g
    BY ReliableGpus DEF Gpus
  <2>3. CASE forcing = {}
    BY <2>1, <2>2, <2>3 DEF IInv, GpusFollow, Follows, ForcePeak, Take, Ahead
  <2>4. CASE forcing # {}
    BY <2>1, <2>4 DEF IInv, GpusFollow, Follows, ForcePeak, Ahead
  <2> QED
    BY <2>3, <2>4
<1> QED
  BY <1>1, <1>2 DEF GpusFollow, Follows

LEMMA ReleasePeakStep ==
  ASSUME IInv, NEW c \in Connections, ReleasePeak(c)
  PROVE  HolderMeans' /\ GpusFollow'
<1>1. HolderMeans'
  BY DEF IInv, HolderMeans, ReleasePeak, Take
<1>2. ASSUME NEW g \in Reliable
      PROVE  Follows(g)'
  <2>1. (Released(g) <=> Released(g)') /\ (Forced(g) <=> Forced(g)')
    BY DEF ReleasePeak, clockVars, Released, Forced
  <2>2. 1 <= g
    BY ReliableGpus DEF Gpus
  <2>3. CASE forcing # {} /\ forcing' = {}
    BY <2>1, <2>2, <2>3 DEF IInv, GpusFollow, Follows, ReleasePeak, Take, Ahead
  <2>4. CASE ~(forcing # {} /\ forcing' = {})
    BY <2>1, <2>4 DEF IInv, GpusFollow, Follows, ReleasePeak, Ahead
  <2> QED
    BY <2>3, <2>4
<1> QED
  BY <1>1, <1>2 DEF GpusFollow, Follows

(* The GPU whose turn it is changes sides, or is not reliable, and then no  *)
(* reliable one is left.                                                   *)
LEMMA ForceGpuStep ==
  ASSUME IInv, ForceGpu
  PROVE  HolderMeans' /\ GpusFollow'
<1> USE DEF IInv
<1>1. at \in Gpus /\ holder = "force" /\ forcing' = forcing /\ forcing # {}
  BY DEF ForceGpu, HolderMeans, Types, TypeOK
<1>2. CASE NextGpu
  <2>1. HolderMeans'
    BY <1>1, <1>2, NextGpuMoves DEF HolderMeans
  <2>2. ASSUME NEW g \in Reliable
        PROVE  Follows(g)'
    <3>1. g \in Gpus /\ g \notin Unsettable /\ g \notin Unreadable /\ Gpus \subseteq Nat
      BY ReliableGpus
    <3>2. CASE g # at
      <4>1. (Released(g) <=> Released(g)') /\ (Forced(g) <=> Forced(g)')
        BY <1>1, <3>1, <3>2 DEF ForceGpu, Released, Forced, Types, TypeOK, Requested, NotRequested, Set, Refuse
      <4>2. Ahead(g)' <=> Ahead(g)
        BY <1>1, <1>2, <3>1, <3>2, NextGpuMoves DEF Ahead, Gpus
      <4> QED
        BY <1>1, <4>1, <4>2 DEF GpusFollow, Follows
    <3>3. CASE g = at
      <4>1. Released(g)
        BY <1>1, <3>3, <3>1 DEF GpusFollow, Follows, Ahead
      <4>2. Forced(g)'
        BY <1>1, <3>1, <3>3, <4>1 DEF ForceGpu, Forced, Released, Types, TypeOK, QueryClockMode, Requested, NotRequested, Set, Refuse
      <4>3. ~Ahead(g)'
        BY <1>1, <1>2, <3>1, <3>3, NextGpuMoves DEF Ahead, Gpus
      <4> QED
        BY <1>1, <4>2, <4>3 DEF Follows
    <3> QED
      BY <3>2, <3>3
  <2> QED
    BY <2>1, <2>2 DEF GpusFollow, Follows
<1>3. CASE ~NextGpu
  <2>1. at \notin Reliable /\ holder' = "update" /\ at' = 1
    BY <1>3, ReliableGpus DEF ForceGpu, NotRequested, Refuse, Set, StopHere, Take
  <2>2. HolderMeans'
    BY <2>1 DEF HolderMeans
  <2>3. ASSUME NEW g \in Reliable
        PROVE  Follows(g)'
    <3>1. g # at /\ ~Ahead(g) /\ ~Ahead(g)'
      BY <1>1, <2>1, ReliableGpus DEF Ahead
    <3>2. Forced(g) <=> Forced(g)'
      BY <1>1, <3>1, ReliableGpus DEF ForceGpu, Forced, Types, TypeOK, Requested, NotRequested, Set, Refuse
    <3> QED
      BY <1>1, <3>1, <3>2 DEF GpusFollow, Follows
  <2> QED
    BY <2>2, <2>3 DEF GpusFollow, Follows
<1> QED
  BY <1>2, <1>3

LEMMA RestoreGpuStep ==
  ASSUME IInv, RestoreGpu
  PROVE  HolderMeans' /\ GpusFollow'
<1> USE DEF IInv
<1>1. at \in Gpus /\ holder = "restore" /\ forcing' = forcing /\ forcing = {}
  BY DEF RestoreGpu, HolderMeans, Types, TypeOK
<1>2. CASE NextGpu
  <2>1. HolderMeans'
    BY <1>1, <1>2, NextGpuMoves DEF HolderMeans
  <2>2. ASSUME NEW g \in Reliable
        PROVE  Follows(g)'
    <3>1. g \in Gpus /\ g \notin Unsettable /\ g \notin Unreadable /\ Gpus \subseteq Nat
      BY ReliableGpus
    <3>2. CASE g # at
      <4>1. (Released(g) <=> Released(g)') /\ (Forced(g) <=> Forced(g)')
        BY <1>1, <3>1, <3>2 DEF RestoreGpu, Released, Forced, Types, TypeOK, Requested, NotRequested, Set, Refuse
      <4>2. Ahead(g)' <=> Ahead(g)
        BY <1>1, <1>2, <3>1, <3>2, NextGpuMoves DEF Ahead, Gpus
      <4> QED
        BY <1>1, <4>1, <4>2 DEF GpusFollow, Follows
    <3>3. CASE g = at
      <4>1. Forced(g)
        BY <1>1, <3>3, <3>1 DEF GpusFollow, Follows, Ahead
      <4>2. wanted[g] \in Known /\ None \notin Known
        BY <3>1 DEF Types, None, Known, Modes
      <4>3. Released(g)'
        BY <1>1, <3>1, <3>3, <4>1, <4>2 DEF RestoreGpu, Forced, Released, Types, TypeOK, Requested, NotRequested, Set, Refuse, Known
      <4>4. ~Ahead(g)'
        BY <1>1, <1>2, <3>1, <3>3, NextGpuMoves DEF Ahead, Gpus
      <4> QED
        BY <1>1, <4>3, <4>4 DEF Follows
    <3> QED
      BY <3>2, <3>3
  <2> QED
    BY <2>1, <2>2 DEF GpusFollow, Follows
<1>3. CASE ~NextGpu
  <2>1. holder' = "update" /\ at' = 1 /\ cached[at] # None /\ NotRequested(at, cached[at])
    BY <1>3 DEF RestoreGpu, StopHere, Take
  <2>2. at \notin Reliable
    <3> SUFFICES ASSUME at \in Reliable PROVE FALSE
      OBVIOUS
    <3>1. Forced(at)
      BY <1>1, ReliableGpus DEF GpusFollow, Follows, Ahead
    <3>2. cached[at] = wanted[at] /\ wanted[at] \in Known
      BY <1>1, <2>1, <3>1 DEF Forced, Types
    <3> QED
      BY <2>1, <3>2, ReliableGpus DEF NotRequested, Refuse, Known
  <2>3. HolderMeans'
    BY <2>1 DEF HolderMeans
  <2>4. ASSUME NEW g \in Reliable
        PROVE  Follows(g)'
    <3>1. g # at /\ ~Ahead(g) /\ ~Ahead(g)'
      BY <1>1, <2>1, <2>2, ReliableGpus DEF Ahead
    <3>2. Released(g) <=> Released(g)'
      BY <1>1, <3>1, ReliableGpus DEF RestoreGpu, Released, Types, TypeOK, Requested, NotRequested, Set, Refuse
    <3> QED
      BY <1>1, <3>1, <3>2 DEF GpusFollow, Follows
  <2> QED
    BY <2>3, <2>4 DEF GpusFollow, Follows
<1> QED
  BY <1>2, <1>3

(* The user's mode becomes the one to go back to.                          *)
LEMMA RequestModeStep ==
  ASSUME IInv, NEW g \in Gpus, NEW m \in Requests, RequestMode(g, m)
  PROVE  HolderMeans' /\ GpusFollow'
<1>1. HolderMeans' /\ forcing' = {} /\ forcing = {} /\ holder = "free" /\ holder' \in {"free", "update"}
  BY DEF IInv, HolderMeans, RequestMode, Take
<1>2. ASSUME NEW h \in Reliable
      PROVE  Released(h)'
  <2>1. Released(h) /\ h \in Gpus
    BY <1>1, ReliableGpus DEF IInv, GpusFollow, Follows, Ahead
  <2> QED
    BY <2>1 DEF RequestMode, Released, IInv, Types, TypeOK, Requested, NotRequested, Set, Refuse
<1>3. \A h : ~Ahead(h)'
  BY <1>1 DEF Ahead
<1> QED
  BY <1>1, <1>2, <1>3 DEF GpusFollow, Follows

(* The steps that touch neither the GPUs nor the set.                      *)
LEMMA OtherSteps ==
  ASSUME IInv, UNCHANGED <<clockVars, forcing>>,
         UNCHANGED <<holder, at>> \/ (holder = "update" /\ holder' = "free")
  PROVE  HolderMeans' /\ GpusFollow'
<1>1. HolderMeans'
  BY DEF IInv, HolderMeans
<1>2. \A g \in Reliable : (Ahead(g) <=> Ahead(g)') /\ (Released(g) <=> Released(g)') /\ (Forced(g) <=> Forced(g)')
  BY DEF Ahead, Released, Forced, clockVars
<1> QED
  BY <1>1, <1>2 DEF IInv, GpusFollow, Follows

LEMMA StepFollow == IInv /\ [Next]_vars => IInv'
<1> SUFFICES ASSUME IInv, [Next]_vars PROVE IInv'
  OBVIOUS
<1>1. Types'
  BY StepTypes DEF IInv
<1>2. HolderMeans' /\ GpusFollow'
  <2>1. ASSUME NEW c \in Connections, ForcePeak(c) \/ ReleasePeak(c) PROVE HolderMeans' /\ GpusFollow'
    BY <2>1, ForcePeakStep, ReleasePeakStep
  <2>2. CASE ForceGpu
    BY <2>2, ForceGpuStep
  <2>3. CASE RestoreGpu
    BY <2>3, RestoreGpuStep
  <2>4. ASSUME NEW g \in Gpus, NEW m \in Requests, RequestMode(g, m) PROVE HolderMeans' /\ GpusFollow'
    BY <2>4, RequestModeStep
  <2>5. CASE UpdateOverlay
    BY <2>5, OtherSteps DEF UpdateOverlay, Take
  <2>6. ASSUME NEW c \in Connections, OnDriverConnected(c) \/ ReadGpu(c) \/ UpdateDeviceClocks(c)
        PROVE  HolderMeans' /\ GpusFollow'
    BY <2>6, OtherSteps DEF OnDriverConnected, ReadGpu, UpdateDeviceClocks, lockVars
  <2>7. CASE UNCHANGED vars
    BY <2>7, OtherSteps DEF vars, lockVars
  <2> QED
    BY <2>1, <2>2, <2>3, <2>4, <2>5, <2>6, <2>7 DEF Next
<1> QED
  BY <1>1, <1>2 DEF IInv

LEMMA Follow == Spec => []IInv
BY InitFollow, StepFollow, PTL DEF Spec

(* SetForcePeak keeps every GPU it can be sure of at peak while any         *)
(* connection is being profiled.                                           *)
THEOREM PeakKept == Spec => []PeakWhileForced
<1>1. IInv => PeakWhileForced
  BY DEF IInv, GpusFollow, Follows, Ahead, Forced, PeakWhileForced
<1> QED
  BY <1>1, Follow, PTL

(* Once nobody is profiled, SetForcePeak has put every such GPU back in the *)
(* mode it was in before.                                                  *)
THEOREM ClocksPutBack == Spec => []ClocksRestored
<1>1. IInv => ClocksRestored
  BY DEF IInv, GpusFollow, Follows, Ahead, Released, ClocksRestored
<1> QED
  BY <1>1, Follow, PTL

(* ----- The overlay. -----                                                *)

(* What a reader has seen so far is what the GPUs are in, as long as no     *)
(* mode changes under its hands.                                           *)
SeenIsCurrent ==
  ~raced => \A c \in Connections : reader[c].pc = "reading" =>
    \A g \in Reliable : g < reader[c].next => seen[c][g] = mode[g]

OInv == SeenIsCurrent /\ OverlayFollows

LEMMA InitOverlay == Init => OInv
BY DEF Init, OInv, SeenIsCurrent, OverlayFollows

(* SetForcePeak and RequestMode at work: a reader that is under way loses   *)
(* the race, and without one there is nothing to say of readers.           *)
LEMMA ModeStep ==
  ASSUME OInv, Types, Race, UNCHANGED readVars
  PROVE  SeenIsCurrent'
<1> SUFFICES ASSUME ~raced', NEW c \in Connections, reader[c].pc = "reading",
                    NEW g \in Reliable, g < reader[c].next
             PROVE  seen[c][g] = mode'[g]
  BY DEF SeenIsCurrent, readVars
<1>1. mode' = mode /\ ~raced
  BY DEF Race, Reading
<1> QED
  BY <1>1 DEF OInv, SeenIsCurrent

LEMMA OverlayStep == Types /\ OInv /\ [Next]_vars => OInv'
<1> SUFFICES ASSUME Types, OInv, [Next]_vars PROVE OInv'
  OBVIOUS
<1>1. ASSUME NEW c \in Connections, ForcePeak(c) \/ ReleasePeak(c) PROVE OInv'
  BY <1>1 DEF ForcePeak, ReleasePeak, clockVars, readVars, OInv, SeenIsCurrent, OverlayFollows
<1>2. CASE ForceGpu \/ RestoreGpu
  <2>1. SeenIsCurrent'
    BY <1>2, ModeStep DEF ForceGpu, RestoreGpu
  <2>2. holder' # "free"
    BY <1>2, NextGpuMoves DEF ForceGpu, RestoreGpu, StopHere, Take, Types, TypeOK
  <2> QED
    BY <2>1, <2>2 DEF OInv, OverlayFollows
<1>3. ASSUME NEW h \in Gpus, NEW m \in Requests, RequestMode(h, m) PROVE OInv'
  <2>1. SeenIsCurrent'
    BY <1>3, ModeStep DEF RequestMode
  <2>2. CASE holder' # "free"
    BY <2>1, <2>2 DEF OInv, OverlayFollows
  <2>3. CASE holder' = "free"
    <3>1. NotRequested(h, m)
      BY <1>3, <2>3 DEF RequestMode, Take
    <3>2. \A g \in Reliable : mode'[g] = mode[g]
      BY <3>1, ReliableGpus DEF NotRequested, Refuse, Set, Types, TypeOK
    <3>3. OverlayFollows'
      BY <1>3, <3>2 DEF RequestMode, Race, OInv, OverlayFollows
    <3> QED
      BY <2>1, <3>3 DEF OInv
  <2> QED
    BY <2>2, <2>3
<1>4. CASE UpdateOverlay
  <2>1. OverlayFollows'
    BY <1>4, ReliableGpus DEF UpdateOverlay, QueryClockMode, clockVars, OverlayFollows
  <2>2. SeenIsCurrent'
    BY <1>4 DEF UpdateOverlay, Reading, clockVars, readVars, OInv, SeenIsCurrent
  <2> QED
    BY <2>1, <2>2 DEF OInv
<1>5. ASSUME NEW c \in Connections, OnDriverConnected(c) PROVE OInv'
  <2>1. OverlayFollows'
    BY <1>5 DEF OnDriverConnected, clockVars, lockVars, OInv, OverlayFollows
  <2>2. SeenIsCurrent'
    <3> SUFFICES ASSUME ~raced', NEW d \in Connections, reader'[d].pc = "reading",
                        NEW g \in Reliable, g < reader'[d].next
                 PROVE  seen'[d][g] = mode'[g]
      BY DEF SeenIsCurrent
    <3>1. UNCHANGED <<raced, seen, mode>>
      BY <1>5 DEF OnDriverConnected, clockVars
    <3>2. d # c
      BY <1>5, ReliableGpus DEF OnDriverConnected, Types, TypeOK, Gpus
    <3> QED
      BY <1>5, <3>1, <3>2 DEF OnDriverConnected, OInv, SeenIsCurrent, Types, TypeOK
  <2> QED
    BY <2>1, <2>2 DEF OInv
<1>6. ASSUME NEW c \in Connections, ReadGpu(c) PROVE OInv'
  <2>1. OverlayFollows'
    BY <1>6 DEF ReadGpu, clockVars, lockVars, OInv, OverlayFollows
  <2>2. SeenIsCurrent'
    <3> SUFFICES ASSUME ~raced', NEW d \in Connections, reader'[d].pc = "reading",
                        NEW g \in Reliable, g < reader'[d].next
                 PROVE  seen'[d][g] = mode'[g]
      BY DEF SeenIsCurrent
    <3>1. UNCHANGED <<raced, mode>>
      BY <1>6 DEF ReadGpu, clockVars
    <3>2. g \in Gpus /\ g \notin Unreadable /\ Gpus \subseteq Nat
      BY ReliableGpus
    <3>3. CASE d # c
      BY <1>6, <3>1, <3>3 DEF ReadGpu, OInv, SeenIsCurrent, Types, TypeOK
    <3>4. CASE d = c
      <4>1. reader'[c].next = reader[c].next + 1 /\ reader[c].pc = "reading" /\ reader[c].next \in Gpus
        BY <1>6, GpusAssumption DEF ReadGpu, Types, TypeOK, Gpus
      <4>2. CASE g = reader[c].next
        BY <1>6, <3>1, <3>2, <3>4, <4>1, <4>2 DEF ReadGpu, QueryClockMode, Types, TypeOK
      <4>3. CASE g # reader[c].next
        <5>1. g < reader[c].next
          BY <3>2, <3>4, <4>1, <4>3
        <5>2. seen[c][g] = mode[g]
          BY <3>1, <4>1, <5>1 DEF OInv, SeenIsCurrent
        <5>3. seen'[c][g] = seen[c][g]
          BY <1>6, <3>2, <4>1, <4>3 DEF ReadGpu, Types, TypeOK
        <5> QED
          BY <3>1, <3>4, <5>2, <5>3
      <4> QED
        BY <4>2, <4>3
    <3> QED
      BY <3>3, <3>4
  <2> QED
    BY <2>1, <2>2 DEF OInv
<1>7. ASSUME NEW c \in Connections, UpdateDeviceClocks(c) PROVE OInv'
  <2>1. SeenIsCurrent'
    BY <1>7 DEF UpdateDeviceClocks, clockVars, OInv, SeenIsCurrent, Types, TypeOK
  <2>2. ASSUME ~raced, NEW g \in Reliable PROVE seen[c][g] = mode[g]
    <3>1. g < reader[c].next
      BY <1>7, ReliableGpus, GpusAssumption DEF UpdateDeviceClocks, Gpus, Types, TypeOK
    <3> QED
      BY <1>7, <2>2, <3>1 DEF UpdateDeviceClocks, OInv, SeenIsCurrent
  <2>3. OverlayFollows'
    BY <1>7, <2>2 DEF UpdateDeviceClocks, clockVars, OverlayFollows
  <2> QED
    BY <2>1, <2>3 DEF OInv
<1>8. CASE UNCHANGED vars
  BY <1>8 DEF vars, clockVars, lockVars, readVars, OInv, SeenIsCurrent, OverlayFollows
<1> QED
  BY <1>1, <1>2, <1>3, <1>4, <1>5, <1>6, <1>7, <1>8 DEF Next

(* The overlay shows the modes the GPUs are in whenever SetForcePeak and    *)
(* RequestMode are done with them, unless one changed while the unlocked    *)
(* OnDriverConnected was reading.                                          *)
THEOREM OverlayTold == Spec => []OverlayFollows
<1>1. Spec => []Types
  BY InitTypes, StepTypes, PTL DEF Spec
<1>2. OInv => OverlayFollows
  BY DEF OInv
<1> QED
  BY <1>1, <1>2, InitOverlay, OverlayStep, PTL DEF Spec

==============================================================================
