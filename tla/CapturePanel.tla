----------------------------- MODULE CapturePanel -----------------------------
(***************************************************************************)
(* The panel that takes profiles: TraceSourceViewModel, ProfilingViewModel   *)
(* and ProfilingView, above a trace source.                                 *)
(*                                                                         *)
(* The trace source's status thread runs the callbacks of the two view       *)
(* models one after the other; they change the capture target and mode that  *)
(* the GUI thread reads, and queue signals for the view. The user asks by     *)
(* button or hotkey, at once or after a delay, cancels, and chooses target    *)
(* and mode. Of the source the panel sees a status after every change, in     *)
(* order (BaseTraceSource), and completions from a thread of their own.       *)
(***************************************************************************)
EXTENDS Integers, Sequences, FiniteSets, SequencesExt

CONSTANTS
  Connections,   \* UMD connections, each used once
  ModesOf,       \* [Connections -> the capture modes of its API, in order]
  CancelSupported, \* the driver can cancel a capture that runs
  MaxActs,       \* bound: captures asked for, and choices of a target, a mode, a default or the delay
  MaxQueue       \* bound: statuses, completions and signals that wait

None == "None"
Automatic == "Automatic"     \* mode 0, shown as None without a connection
Progressing == {"Waiting", "Capturing"}

VARIABLES
  client,       \* the source's clients: "new", "Idle", "Waiting", "Capturing", "gone"
  statuses,     \* its status queue
  completions,  \* its completion queue
  thread,       \* the status thread: the event between its two callbacks
  current,      \* current_status_: its connections, and abort_trace_supported
  target,       \* capture_target_
  modes, mode,  \* available_capture_modes_, current_capture_mode_
  defaults,     \* default_capture_modes_
  delay,        \* GetDelayInfo: captures are delayed
  delaying,     \* is_delay_capture_in_progress_
  timer,        \* delay_timer_ with delayed_capture_connection_id_ and _mode_
  gui,          \* the GUI thread: idle, or the target it has read
  signals,      \* queued for the view
  view,         \* what is on the screen
  wanted,       \* history: what was asked for and is neither cancelled nor begun
  begun,        \* history: begins, with whether they were wanted
  acts          \* what the user did

source == <<client, statuses, completions>>
model == <<current, target, modes, mode, defaults, delay, delaying, timer>>
history == <<wanted, begun, acts>>
vars == <<source, thread, model, gui, signals, view, history>>

Idle == [at |-> "idle"]
NoEvent == <<>>
Off == [on |-> FALSE]

Init ==
  /\ client = [c \in Connections |-> "new"] /\ statuses = <<>> /\ completions = 0
  /\ thread = NoEvent /\ current = [conns |-> {}, abort |-> TRUE] /\ target = None
  /\ modes = <<Automatic>> /\ mode = Automatic /\ defaults = [c \in Connections |-> None]
  /\ delay \in BOOLEAN /\ delaying = FALSE /\ timer = Off
  /\ gui = Idle /\ signals = <<>>
  /\ view = [page |-> "capture", button |-> FALSE, conns |-> {}, target |-> None]
  /\ wanted = {} /\ begun = {} /\ acts = 0

------------------------------------------------------------------------------
(* The trace source.                                                       *)

Live(cl) == {c \in Connections : cl[c] \notin {"new", "gone"}}

(* BuildCurrentStatus. Nothing is known of which connection an               *)
(* unordered_map has first.                                                *)
Stage(cl) ==
  IF Live(cl) = {} THEN "Disconnected"
  ELSE IF \E c \in Live(cl) : cl[c] = "Capturing" THEN "Capturing"
  ELSE IF \E c \in Live(cl) : cl[c] = "Waiting" THEN "Waiting" ELSE "Idle"
StatusesOf(cl) ==
  {[stage |-> Stage(cl), conns |-> Live(cl), first |-> f, abort |-> CancelSupported \/ Stage(cl) # "Capturing"] :
     f \in IF Live(cl) = {} THEN {None} ELSE Live(cl)}

SetClient(c, s) ==
  LET cl == [client EXCEPT ![c] = s]
  IN  client' = cl /\ \E st \in StatusesOf(cl) : statuses' = Append(statuses, st)

(* The threads of DevDriver and of a capture wait while the queue is full.     *)
Room == Len(statuses) < MaxQueue /\ completions < MaxQueue

Connect(c) ==
  /\ Room /\ client[c] = "new" /\ SetClient(c, "Idle")
  /\ UNCHANGED <<completions, thread, model, gui, signals, view, history>>

Disconnect(c) ==
  /\ Room /\ c \in Live(client)
  /\ SetClient(c, "gone")
  /\ completions' = completions + (IF client[c] = "Capturing" THEN 1 ELSE 0)
  /\ UNCHANGED <<thread, model, gui, signals, view, history>>

CaptureEnds(c) ==
  /\ Room /\ client[c] = "Capturing" /\ SetClient(c, "Idle") /\ completions' = completions + 1
  /\ UNCHANGED <<thread, model, gui, signals, view, history>>

(* GetSupportedCaptureModes: a connection without a client has the automatic *)
(* mode; beside others it is not shown.                                    *)
GetSupportedCaptureModes(c) == IF c \in Live(client) THEN ModesOf[c] ELSE <<Automatic>>

(* RequestBeginTrace of the source. Begins are remembered with whether the   *)
(* user still wanted them.                                                 *)
Accepts(c, m) == c \in Live(client) /\ client[c] # "Capturing" /\ m \in Range(ModesOf[c]) \cup {Automatic}
RequestBegin(c, m, still) ==
  IF Accepts(c, m)
  THEN /\ SetClient(c, "Capturing")
       /\ begun' = begun \cup {[conn |-> c, mode |-> m, wanted |-> still]}
  ELSE UNCHANGED <<client, statuses, begun>>

------------------------------------------------------------------------------
(* The status thread.                                                      *)

(* TraceSourceViewModel::OnStatusEventCallback: the target is the first       *)
(* connection again.                                                       *)
OnStatusEvent ==
  /\ thread = NoEvent /\ statuses # <<>> /\ Len(signals) < MaxQueue
  /\ LET e == Head(statuses)
     IN  /\ thread' = <<e>> /\ statuses' = Tail(statuses)
         /\ current' = [conns |-> e.conns, abort |-> e.abort] /\ target' = e.first
         /\ signals' = signals \o <<[kind |-> "button", on |-> e.stage = "Idle"]>>
                        \o (IF e.conns # current.conns THEN <<[kind |-> "conns", conns |-> e.conns]>> ELSE <<>>)
  /\ UNCHANGED <<client, completions, modes, mode, defaults, delay, delaying, timer, gui, view, history>>

GetDefaultCaptureMode(available, c) ==
  IF defaults[c] \in Range(available) THEN defaults[c] ELSE Head(available)

(* The modes of a connection, and the current one if it is among them.        *)
RefreshModes(c) ==
  /\ modes' = GetSupportedCaptureModes(c)
  /\ mode' = IF mode \in Range(modes') THEN mode ELSE GetDefaultCaptureMode(modes', c)

(* ProfilingViewModel::OnStatusEventCallback.                               *)
ProcessStatus ==
  /\ thread # NoEvent /\ thread' = NoEvent
  /\ LET e == Head(thread)
         d == delaying /\ e.stage # "Capturing"
     IN  /\ IF e.first = None THEN modes' = <<Automatic>> /\ mode' = Automatic ELSE RefreshModes(e.first)
         /\ delaying' = d
         /\ signals' = Append(signals, [kind |-> IF e.stage \in Progressing \/ d THEN "progress" ELSE "capture"])
  /\ UNCHANGED <<source, current, target, defaults, delay, timer, gui, view, history>>

(* The completion thread: TraceCompleted, whatever the result.               *)
OnTraceCompletion ==
  /\ completions > 0 /\ Len(signals) < MaxQueue /\ completions' = completions - 1
  /\ signals' = Append(signals, [kind |-> "capture"])
  /\ UNCHANGED <<client, statuses, thread, model, gui, view, history>>

------------------------------------------------------------------------------
(* The GUI thread.                                                         *)

(* The view's slots; the combo box is set only when the connections change.  *)
HandleSignal ==
  /\ gui = Idle /\ signals # <<>> /\ signals' = Tail(signals)
  /\ LET s == Head(signals)
     IN  view' = CASE s.kind = "button" -> [view EXCEPT !.button = s.on]
                   [] s.kind = "conns" -> [view EXCEPT !.conns = s.conns,
                                             !.target = IF target \in s.conns THEN target ELSE view.target]
                   [] OTHER -> [view EXCEPT !.page = s.kind]
  /\ UNCHANGED <<source, thread, model, gui, history>>

(* RequestBeginTrace by the button or the hotkey, which needs no page.       *)
Ask(byHotkey) ==
  /\ gui = Idle /\ acts < MaxActs /\ acts' = acts + 1
  /\ byHotkey \/ (view.page = "capture" /\ view.button)
  /\ gui' = [at |-> "begin", target |-> target]
  /\ UNCHANGED <<source, thread, model, signals, view, wanted, begun>>

BeginNow(c) ==
  /\ RequestBegin(c, mode, TRUE)
  /\ UNCHANGED <<delaying, timer, view, wanted>>

(* PrepareForDelayedCapture, then the timer. A signal of the GUI thread to    *)
(* itself is a call.                                                       *)
BeginLater(c) ==
  IF client[c] = "Idle"
  THEN /\ SetClient(c, "Waiting")
       /\ timer' = [on |-> TRUE, conn |-> c, mode |-> mode] /\ delaying' = TRUE
       /\ view' = [view EXCEPT !.page = "progress"]
       /\ wanted' = wanted \cup {[conn |-> c, mode |-> mode]}
       /\ UNCHANGED begun
  ELSE UNCHANGED <<client, statuses, timer, delaying, view, wanted, begun>>

RequestBeginTrace ==
  /\ gui.at = "begin" /\ gui' = Idle
  /\ IF gui.target = None THEN UNCHANGED <<client, statuses, delaying, timer, view, wanted, begun>>
     ELSE IF delay THEN BeginLater(gui.target) ELSE BeginNow(gui.target)
  /\ UNCHANGED <<completions, thread, current, target, modes, mode, defaults, delay, signals, acts>>

TimerFires ==
  /\ gui = Idle /\ timer.on /\ timer' = Off /\ delaying' = FALSE
  /\ LET ask == [conn |-> timer.conn, mode |-> timer.mode]
     IN  RequestBegin(ask.conn, ask.mode, ask \in wanted) /\ wanted' = wanted \ {ask}
  /\ UNCHANGED <<completions, thread, current, target, modes, mode, defaults, delay, gui, signals, view, acts>>

(* Mutant: the timer runs on.                                               *)
RequestAbortOnly ==
  /\ gui = Idle /\ view.page = "progress"
  /\ delaying' = FALSE /\ wanted' = {}
  /\ IF current.abort /\ target \in Live(client) /\ client[target] = "Waiting" THEN SetClient(target, "Idle")
     ELSE UNCHANGED <<client, statuses>>
  /\ UNCHANGED <<completions, thread, current, target, modes, mode, defaults, delay, timer, gui, signals, view, begun, acts>>

(* RequestAbort: the source is told of the target of now, and a capture under *)
(* way ends as any other.                                                  *)
RequestAbort ==
  /\ gui = Idle /\ view.page = "progress"
  /\ timer' = Off /\ delaying' = FALSE /\ wanted' = {}
  /\ IF current.abort /\ target \in Live(client) /\ client[target] = "Waiting" THEN SetClient(target, "Idle")
     ELSE UNCHANGED <<client, statuses>>
  /\ UNCHANGED <<completions, thread, current, target, modes, mode, defaults, delay, gui, signals, view, begun, acts>>

(* SetCaptureTarget and OnCaptureTargetChanged.                              *)
SetCaptureTarget(c) ==
  /\ gui = Idle /\ Cardinality(view.conns) > 1 /\ c \in view.conns
  /\ acts < MaxActs /\ acts' = acts + 1
  /\ target' = c /\ view' = [view EXCEPT !.target = c]
  /\ IF c \in current.conns THEN RefreshModes(c) ELSE UNCHANGED <<modes, mode>>
  /\ UNCHANGED <<source, thread, current, defaults, delay, delaying, timer, gui, signals, wanted, begun>>

(* SetCaptureMode, UpdateDefaultCaptureMode, and the delay switched.          *)
Choose ==
  /\ gui = Idle /\ acts < MaxActs /\ acts' = acts + 1
  /\ \/ view.button /\ \E m \in Range(modes) : mode' = m /\ UNCHANGED <<defaults, delay>>
     \/ /\ view.button /\ target \in current.conns
        /\ defaults' = [defaults EXCEPT ![target] = mode] /\ UNCHANGED <<mode, delay>>
     \/ delay' = ~delay /\ UNCHANGED <<mode, defaults>>
  /\ UNCHANGED <<source, thread, current, target, modes, delaying, timer, gui, signals, view, wanted, begun>>

Next ==
  \/ \E c \in Connections : Connect(c) \/ Disconnect(c) \/ CaptureEnds(c) \/ SetCaptureTarget(c)
  \/ OnStatusEvent \/ ProcessStatus \/ OnTraceCompletion
  \/ HandleSignal \/ (\E h \in BOOLEAN : Ask(h)) \/ RequestBeginTrace \/ TimerFires \/ RequestAbort \/ Choose

Spec == Init /\ [][Next]_vars

------------------------------------------------------------------------------
Settled == statuses = <<>> /\ thread = NoEvent /\ signals = <<>> /\ completions = 0 /\ gui = Idle

(* A capture begins only of a connection and in a mode the user asked for and *)
(* has not cancelled since, whatever the statuses in between made of target    *)
(* and mode (RequestBeginTrace, RequestAbort and the delay timer).            *)
BegunWasWanted == \A b \in begun : b.wanted

(* With nothing under way, the target of the next capture is the one shown.   *)
(* It is not: every status sets capture_target_ to the first connection, and   *)
(* the combo box follows only when the connections change.                   *)
TargetAsShown == Settled /\ Cardinality(current.conns) > 1 => target = view.target

(* With nothing under way and no delay, the page is the one of the source's   *)
(* stage. It is not when the application went during the delay, or when a      *)
(* completion came after the next capture had begun.                         *)
PageFollows ==
  Settled /\ ~timer.on => (view.page = "progress" <=> Stage(client) \in Progressing)

(* A client that waits has a timer that will begin its capture. It has not     *)
(* when the cancelled or the second capture was of another target.            *)
WaitingHasTimer ==
  Settled => \A c \in Connections : client[c] = "Waiting" => timer.on /\ timer.conn = c
================================================================================
