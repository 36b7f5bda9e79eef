----------------------------- MODULE DeviceClocks -----------------------------
(***************************************************************************)
(* DeviceClocksManager: the clock mode of each GPU, forced to peak while    *)
(* an application is profiled and put back afterwards, and the modes the    *)
(* developer overlay is told.                                              *)
(*                                                                         *)
(* SetForcePeak comes from the thread of the capture, RequestMode from the *)
(* user; both hold gpus_mutex_ and go through the GPUs one call to the      *)
(* driver at a time. OnDriverConnected, on the thread of each connection,  *)
(* reads the same modes without the lock.                                  *)
(***************************************************************************)
EXTENDS Naturals, FiniteSets

CONSTANTS
  Connections,   \* UMD connections: each is announced, and may be profiled
  NumGpus,       \* length of updatable_gpus_
  NoPeak,        \* GPUs that do not list a peak mode
  Unsettable,    \* GPUs whose SetClockMode may fail
  Unreadable,    \* GPUs whose QueryCurrentClockMode may fail
  Requests       \* modes the user asks for

Gpus == 1 .. NumGpus
Modes == {"Normal", "Stable", "Peak", "Unknown"}
None == "None"   \* cached_mode_ without a value

ASSUME GpusAssumption == NumGpus \in Nat \ {0}
ASSUME RequestsAssumption == Requests \subseteq Modes \ {"Unknown"}

VARIABLES
  mode,      \* the GPU's own clock mode
  cached,    \* cached_mode_ of each GPU
  forcing,   \* force_peak_umd_connection_ids_
  holder,    \* what the holder of gpus_mutex_ is doing
  at,        \* the GPU it does it to
  wanted,    \* history: the mode each GPU had without any force
  shown,     \* device_clock_info_ of the overlay, empty before the first update
  reader,    \* where OnDriverConnected of each connection is
  seen,      \* the map it builds
  raced      \* history: a mode changed under a reader's hands since the last update

clockVars == <<mode, cached, wanted>>
lockVars == <<forcing, holder, at>>
readVars == <<reader, seen>>
vars == <<clockVars, lockVars, shown, readVars, raced>>

ReadStates == {"none", "reading", "done"}

TypeOK ==
  /\ mode \in [Gpus -> Modes]
  /\ wanted \in [Gpus -> Modes]
  /\ cached \in [Gpus -> Modes \cup {None}]
  /\ forcing \subseteq Connections
  /\ holder \in {"free", "force", "restore", "update"}
  /\ at \in Gpus
  /\ holder \in {"free", "update"} => at = 1
  /\ shown = <<>> \/ shown \in [Gpus -> Modes]
  /\ reader \in [Connections -> [pc : ReadStates, next : 1 .. NumGpus + 1]]
  /\ seen \in [Connections -> [Gpus -> Modes]]
  /\ raced \in BOOLEAN

Init ==
  /\ mode \in [Gpus -> Requests]
  /\ cached = [g \in Gpus |-> None]
  /\ forcing = {}
  /\ holder = "free" /\ at = 1
  /\ wanted = mode
  /\ shown = <<>>
  /\ reader = [c \in Connections |-> [pc |-> "none", next |-> 1]]
  /\ seen = [c \in Connections |-> [g \in Gpus |-> "Unknown"]]
  /\ raced = FALSE

------------------------------------------------------------------------------
(* The driver (external). It refuses a mode it does not know.               *)

QueryClockMode(g) == {mode[g]} \cup (IF g \in Unreadable THEN {"Unknown"} ELSE {})

Set(g, m) == m # "Unknown" /\ mode' = [mode EXCEPT ![g] = m]
Refuse(g, m) == (m = "Unknown" \/ g \in Unsettable) /\ UNCHANGED mode

(* UpdatableDeviceClockGpu::RequestMode: done only if the mode can be read  *)
(* back.                                                                   *)
Requested(g, m) == Set(g, m)
NotRequested(g, m) == Refuse(g, m) \/ (g \in Unreadable /\ Set(g, m))

Reading == \E c \in Connections : reader[c].pc = "reading"
Race == raced' = (raced \/ (mode' # mode /\ Reading))

------------------------------------------------------------------------------
(* SetForcePeak(c, force_peak), for a connection that has been announced.   *)
(* Only the first to ask and the last to let go do anything to the GPUs.   *)

Take(op) == holder' = op /\ at' = 1

(* Mutant: every connection that asks caches the modes again.              *)
ForcePeakAgain(c) ==
  /\ reader[c].pc = "done"
  /\ holder = "free"
  /\ forcing' = forcing \cup {c}
  /\ Take("force")
  /\ UNCHANGED <<clockVars, shown, readVars, raced>>

ForcePeak(c) ==
  /\ reader[c].pc = "done"
  /\ holder = "free"
  /\ forcing' = forcing \cup {c}
  /\ IF forcing = {} THEN Take("force") ELSE UNCHANGED <<holder, at>>
  /\ UNCHANGED <<clockVars, shown, readVars, raced>>

(* Mutant: the first to let go restores the clocks.                        *)
ReleasePeakEarly(c) ==
  /\ reader[c].pc = "done"
  /\ holder = "free"
  /\ forcing' = forcing \ {c}
  /\ IF c \in forcing THEN Take("restore") ELSE UNCHANGED <<holder, at>>
  /\ UNCHANGED <<clockVars, shown, readVars, raced>>

ReleasePeak(c) ==
  /\ reader[c].pc = "done"
  /\ holder = "free"
  /\ forcing' = forcing \ {c}
  /\ IF forcing # {} /\ forcing' = {} THEN Take("restore") ELSE UNCHANGED <<holder, at>>
  /\ UNCHANGED <<clockVars, shown, readVars, raced>>

(* all_of over the GPUs: the first failure ends it, and the GPUs behind it  *)
(* are left as they are.                                                   *)
NextGpu == IF at < NumGpus THEN at' = at + 1 /\ UNCHANGED holder ELSE Take("update")
StopHere == Take("update")

(* UpdatableDeviceClockGpu::SetForcePeak(true).                            *)
ForceGpu ==
  /\ holder = "force"
  /\ \/ at \in NoPeak /\ NextGpu /\ UNCHANGED <<cached, mode>>
     \/ /\ at \notin NoPeak
        /\ \E m \in QueryClockMode(at) : cached' = [cached EXCEPT ![at] = m]
        /\ (Requested(at, "Peak") /\ NextGpu) \/ (NotRequested(at, "Peak") /\ StopHere)
  /\ Race
  /\ UNCHANGED <<wanted, forcing, shown, readVars>>

(* UpdatableDeviceClockGpu::SetForcePeak(false): the cached mode is         *)
(* forgotten before it is asked for.                                       *)
RestoreGpu ==
  /\ holder = "restore"
  /\ cached' = [cached EXCEPT ![at] = None]
  /\ \/ cached[at] = None /\ NextGpu /\ UNCHANGED mode
     \/ /\ cached[at] # None
        /\ (Requested(at, cached[at]) /\ NextGpu) \/ (NotRequested(at, cached[at]) /\ StopHere)
  /\ Race
  /\ UNCHANGED <<wanted, forcing, shown, readVars>>

------------------------------------------------------------------------------
(* The user's RequestMode, refused while anything forces peak. The overlay  *)
(* is told only if the mode could be read back.                            *)

(* Mutant: the overlay is not told of the user's mode.                     *)
RequestModeQuietly(g, m) ==
  /\ holder = "free"
  /\ forcing = {}
  /\ Requested(g, m) \/ NotRequested(g, m)
  /\ wanted' = [wanted EXCEPT ![g] = mode'[g]]
  /\ Race
  /\ UNCHANGED <<cached, lockVars, shown, readVars>>

RequestMode(g, m) ==
  /\ holder = "free"
  /\ forcing = {}
  /\ (Requested(g, m) /\ Take("update")) \/ (NotRequested(g, m) /\ UNCHANGED <<holder, at>>)
  /\ wanted' = [wanted EXCEPT ![g] = mode'[g]]
  /\ Race
  /\ UNCHANGED <<cached, forcing, shown, readVars>>

(* UpdateOverlay under the lock, which nobody else can change a mode        *)
(* through.                                                                *)
UpdateOverlay ==
  /\ holder = "update"
  /\ shown' \in {s \in [Gpus -> Modes] : \A g \in Gpus : s[g] \in QueryClockMode(g)}
  /\ Take("free")
  /\ raced' = (raced /\ Reading)
  /\ UNCHANGED <<clockVars, forcing, readVars>>

------------------------------------------------------------------------------
(* OnDriverConnected: UpdateOverlay without the lock, one query at a time.  *)

OnDriverConnected(c) ==
  /\ reader[c].pc = "none"
  /\ reader' = [reader EXCEPT ![c] = [pc |-> "reading", next |-> 1]]
  /\ UNCHANGED <<clockVars, lockVars, shown, seen, raced>>

ReadGpu(c) ==
  /\ reader[c].pc = "reading" /\ reader[c].next <= NumGpus
  /\ \E m \in QueryClockMode(reader[c].next) : seen' = [seen EXCEPT ![c][reader[c].next] = m]
  /\ reader' = [reader EXCEPT ![c].next = @ + 1]
  /\ UNCHANGED <<clockVars, lockVars, shown, raced>>

UpdateDeviceClocks(c) ==
  /\ reader[c].pc = "reading" /\ reader[c].next > NumGpus
  /\ shown' = seen[c]
  /\ reader' = [reader EXCEPT ![c] = [pc |-> "done", next |-> 1]]
  /\ UNCHANGED <<clockVars, lockVars, seen, raced>>

------------------------------------------------------------------------------

Next ==
  \/ \E c \in Connections : ForcePeak(c) \/ ReleasePeak(c)
  \/ ForceGpu
  \/ RestoreGpu
  \/ \E g \in Gpus, m \in Requests : RequestMode(g, m)
  \/ UpdateOverlay
  \/ \E c \in Connections : OnDriverConnected(c) \/ ReadGpu(c) \/ UpdateDeviceClocks(c)

Spec == Init /\ [][Next]_vars

------------------------------------------------------------------------------
(* Properties.                                                             *)

(* all_of stops at the first GPU that fails: the ones before it are sure    *)
(* to be reached.                                                          *)
Reliable == {g \in Gpus : \A h \in 1 .. g : h \notin Unsettable \cup Unreadable}

(* While any connection is being profiled and nobody is at work on the     *)
(* clocks, every GPU that has a peak mode is at peak: neither a second     *)
(* capture, the end of another one nor the user takes it away.             *)
PeakWhileForced ==
  holder = "free" /\ forcing # {} => \A g \in Reliable \ NoPeak : mode[g] = "Peak"

(* When nobody is profiled any more, every GPU is back in the mode it had  *)
(* before the first capture of them all.                                   *)
ClocksRestored ==
  holder = "free" /\ forcing = {} => \A g \in Reliable : mode[g] = wanted[g]

(* The overlay shows the modes the GPUs are in, unless one of them changed  *)
(* while a connection was reading them: that connection may overwrite the  *)
(* newer modes with what it saw, and nothing puts them right until the next *)
(* change.                                                                 *)
OverlayFollows ==
  holder = "free" /\ shown # <<>> /\ ~raced => \A g \in Reliable : shown[g] = mode[g]

(* The same without the exception. Does not hold.                          *)
OverlayIsCurrent ==
  holder = "free" /\ shown # <<>> /\ ~Reading => \A g \in Reliable : shown[g] = mode[g]

(* One failing GPU does not keep another at peak ("failure ... is mostly   *)
(* benign"). Does not hold: all_of leaves the GPUs behind it as they are.  *)
OthersRestored ==
  holder = "free" /\ forcing = {} => \A g \in Gpus \ Unsettable : mode[g] = wanted[g]

(* "This mode cannot be manually set." Does not hold: RequestMode asks the  *)
(* driver for whatever mode it is given.                                   *)
PeakOnlyForced ==
  holder = "free" /\ forcing = {} => \A g \in Gpus : wanted[g] # "Peak"

==============================================================================
