------------------------------ MODULE CaptureCli ------------------------------
(***************************************************************************)
(* The command line tool: CaptureCli::Run and what it calls on the main     *)
(* thread, the callbacks the capture API makes on its own threads, and the  *)
(* signal handler.                                                         *)
(*                                                                         *)
(* A callback holds g_output_mutex throughout and is one step; the main     *)
(* thread holds it across steps only in the "mode" command. The connections *)
(* and their captures are the API's side: a capture ends in a completion    *)
(* event and every change of stage in a status event, each delivered by a   *)
(* thread of its own in order.                                             *)
(***************************************************************************)
EXTENDS CommandLine

CONSTANTS
  CommandLines,   \* the command lines tried
  Connections,    \* connections of the application, each used once
  NumGpus,        \* GPUs of the system
  Failures,       \* what can fail: "initialize", "enable", "clocks", "write", "structures",
                  \* and "empty": a capture succeeds without data
  MaxCaptures     \* bound: captures asked for at the prompt

(* The stages a feature is shown in; the negative ones are Disabled, where   *)
(* ApiUnsupported stands apart.                                            *)
Stages == {"Disconnected", "Ready", "Capturing", "Done", "Disabled", "ApiUnsupported"}
InProgress == {"Ready", "Capturing"}

Nothing == [conn |-> "none", request |-> 0]   \* no data, or no file
Torn == [conn |-> "torn", request |-> 0]      \* a file of two traces
Traces == [conn : Connections, request : 0 .. MaxCaptures]

MainStates == {"parse", "initialize", "blocklist", "clocks", "enable", "crash", "auto", "claim",
               "finish", "write", "written", "ready", "loop", "prompt", "mode", "capture",
               "delay", "trigger", "waiting", "save", "saved", "cleanup", "exit"}

VARIABLES
  cmd, config,
  pc, code, why,     \* the main thread; its exit code and what decided it
  context, enabled,  \* context_ is not null; the feature is enabled
  outputHeld,        \* the main thread keeps g_output_mutex
  interrupted, complete, success, failed, timedOut, data,
  deadline,          \* failure_deadline: none, armed, passed
  stage,             \* current_stage_ of the adapter
  statusQueue, statusCall, completions,
  conn,              \* the client of each connection
  request,           \* the request its capture answers; 0: none
  asked,             \* captures triggered at the prompt
  saved, savedFor,   \* the file written last, and the request it was written for
  received           \* history: whose successes were taken in while the outcome was open;
                     \* "none": one without data

mainVars == <<cmd, config, pc, code, why, context, enabled, outputHeld>>
flagVars == <<interrupted, complete, success, failed, timedOut, data>>
eventVars == <<stage, statusQueue, statusCall, completions>>
sourceVars == <<conn, request>>
fileVars == <<asked, saved, savedFor>>
vars == <<mainVars, flagVars, deadline, eventVars, sourceVars, fileVars, received>>

Automatic == IsAutoCaptureMode(config)

TypeOK ==
  /\ pc \in MainStates
  /\ code \in 0 .. 1
  /\ data \in Traces \cup {Nothing} /\ saved \in Traces \cup {Nothing, Torn}
  /\ deadline \in {"none", "armed", "passed"}
  /\ stage \in Stages
  /\ conn \in [Connections -> {"new", "deaf", "unsupported", "disabled", "idle", "capturing", "done", "gone"}]
  /\ request \in [Connections -> 0 .. MaxCaptures]
  /\ received \subseteq Connections \cup {Nothing.conn}
  /\ outputHeld => pc = "mode"

Init ==
  /\ cmd \in CommandLines
  /\ config = Config(Defaults)
  /\ pc = "parse" /\ code = 0 /\ why = "none"
  /\ context = FALSE /\ enabled = FALSE /\ outputHeld = FALSE
  /\ interrupted = FALSE /\ complete = FALSE /\ success = FALSE
  /\ failed = FALSE /\ timedOut = FALSE /\ data = Nothing
  /\ deadline = "none"
  /\ stage = "Disconnected" /\ statusQueue = <<>> /\ statusCall = <<>> /\ completions = <<>>
  /\ conn = [c \in Connections |-> "new"]
  /\ request = [c \in Connections |-> 0]
  /\ asked = 0 /\ saved = Nothing /\ savedFor = 0
  /\ received = {}

------------------------------------------------------------------------------
(* The main thread: from the start to the wait.                             *)

Goto(label) == pc' = label /\ UNCHANGED <<code, why>>
Leave(reason, exit) == pc' = "cleanup" /\ code' = exit /\ why' = reason

(* A step of the main thread that changes only where it is.                 *)
Only == UNCHANGED <<cmd, config, context, enabled, outputHeld, flagVars, deadline,
                    eventVars, sourceVars, fileVars, received>>

ParseCommandLine ==
  /\ pc = "parse"
  /\ \/ Accepted(cmd) /\ config' = Config(cmd) /\ Goto("initialize")
     \/ ~Accepted(cmd) /\ pc' = "exit" /\ code' = 1 /\ why' = "usage" /\ UNCHANGED config
  /\ cmd' = Defaults
  /\ UNCHANGED <<context, enabled, outputHeld, flagVars, deadline, eventVars, sourceVars, fileVars,
                 received>>

(* From here on applications may connect.                                   *)
Initialize ==
  /\ pc = "initialize"
  /\ \/ context' = TRUE /\ Goto("blocklist")
     \/ "initialize" \in Failures /\ UNCHANGED context /\ pc' = "exit" /\ code' = 1 /\ why' = "initialize"
  /\ UNCHANGED <<cmd, config, enabled, outputHeld, flagVars, deadline, eventVars, sourceVars,
                 fileVars, received>>

(* ApplyBlocklist, WarnIfEtwNotConfigured, and the flags that only print.   *)
ApplyBlocklist ==
  /\ pc = "blocklist"
  /\ IF config.info THEN Leave("info", 0)
     ELSE Goto(IF config.mode = "clocks" THEN "clocks" ELSE "enable")
  /\ Only

RunClocksMode ==
  /\ pc = "clocks"
  /\ \/ config.gpu >= NumGpus /\ Leave("clocks", 1)
     \/ config.gpu < NumGpus /\ Leave("clocks", 0)
     \/ /\ config.gpu < NumGpus /\ config.clock # "Unknown" /\ "clocks" \in Failures
        /\ Leave("clocks", 1)
  /\ Only

(* enable_feature refuses while a process is connected.                     *)
EnableFeature ==
  /\ pc = "enable"
  /\ LET connected == \E c \in Connections : conn[c] \notin {"new", "gone"} IN
     \/ /\ ~connected
        /\ enabled' = TRUE
        /\ Goto(CASE config.mode = "crash" -> "crash" [] Automatic -> "auto" [] OTHER -> "ready")
     \/ (connected \/ "enable" \in Failures) /\ UNCHANGED enabled /\ Leave("enable", 1)
  /\ UNCHANGED <<cmd, config, context, outputHeld, flagVars, deadline, eventVars, sourceVars,
                 fileVars, received>>

------------------------------------------------------------------------------
(* The wait for a crash and for an automatic capture.                       *)

WaitForCrash ==
  /\ pc = "crash"
  /\ \/ (complete \/ interrupted) /\ Goto("finish")
     \/ ~complete /\ ~interrupted /\ stage = "Disabled" /\ Leave("stage", 1)
  /\ Only

PollEnds ==
  /\ pc = "auto"
  /\ \/ (complete \/ interrupted) /\ Goto("finish")
     \/ ~complete /\ ~interrupted /\ stage = "Disabled" /\ Leave("stage", 1)
  /\ Only

(* Mutant: every idle poll with a failure arms the deadline anew.           *)
PollDeadlineAgain ==
  /\ pc = "auto" /\ ~complete /\ ~interrupted
  /\ stage \notin {"Disabled", "ApiUnsupported"}
  /\ \/ failed /\ stage \notin InProgress /\ deadline' = "armed" /\ Goto("auto")
     \/ ~(failed /\ stage \notin InProgress) /\ deadline' = "none" /\ Goto("auto")
  /\ UNCHANGED <<cmd, config, context, enabled, outputHeld, flagVars, eventVars, sourceVars,
                 fileVars, received>>

(* The grace window counts only while a failure is outstanding and nothing  *)
(* is in progress; otherwise it is disarmed.                               *)
PollDeadline ==
  /\ pc = "auto" /\ ~complete /\ ~interrupted
  /\ stage \notin {"Disabled", "ApiUnsupported"}
  /\ \/ /\ failed /\ stage \notin InProgress
        /\ \/ deadline = "none" /\ deadline' = "armed" /\ Goto("auto")
           \/ deadline = "passed" /\ UNCHANGED deadline /\ Goto("claim")
     \/ ~(failed /\ stage \notin InProgress) /\ deadline' = "none" /\ Goto("auto")
  /\ UNCHANGED <<cmd, config, context, enabled, outputHeld, flagVars, eventVars, sourceVars,
                 fileVars, received>>

DeadlinePasses ==
  /\ deadline = "armed" /\ deadline' = "passed"
  /\ UNCHANGED <<mainVars, flagVars, eventVars, sourceVars, fileVars, received>>

(* Mutant: the timeout does not look whether a trace has come.              *)
ClaimTimeoutUnchecked ==
  /\ pc = "claim"
  /\ timedOut' = TRUE /\ Leave("timeout", 1)
  /\ UNCHANGED <<cmd, config, context, enabled, outputHeld, interrupted, complete, success, failed,
                 data, deadline, eventVars, sourceVars, fileVars, received>>

(* Under g_output_mutex: the timeout or a trace, whichever comes first.      *)
ClaimTimeout ==
  /\ pc = "claim"
  /\ \/ ~complete /\ timedOut' = TRUE /\ Leave("timeout", 1)
     \/ complete /\ UNCHANGED timedOut /\ Goto("auto")
  /\ UNCHANGED <<cmd, config, context, enabled, outputHeld, interrupted, complete, success, failed,
                 data, deadline, eventVars, sourceVars, fileVars, received>>

(* After the loop, of both waits. WarnIfNoAccelerationStructures throws a    *)
(* raytracing trace away.                                                  *)
FinishWait ==
  /\ pc = "finish"
  /\ \/ interrupted /\ Leave("interrupted", 1)
     \/ ~interrupted /\ ~success /\ Leave("failed", 1)
     \/ ~interrupted /\ success /\ data = Nothing /\ Leave("done", 0)
     \/ ~interrupted /\ success /\ data # Nothing /\ Goto("write")
     \/ /\ ~interrupted /\ success /\ data # Nothing
        /\ config.mode = "raytracing" /\ "structures" \in Failures
        /\ Leave("structures", 1)
  /\ Only

(* trace_data_ is written out without the lock TraceFinished changes it      *)
(* under.                                                                  *)
BeginWrite ==
  /\ pc \in {"write", "save"}
  /\ pc = "save" => success /\ data # Nothing
  /\ saved' = data /\ savedFor' = asked
  /\ Goto(IF pc = "write" THEN "written" ELSE "saved")
  /\ UNCHANGED <<cmd, config, context, enabled, outputHeld, flagVars, deadline, eventVars, sourceVars,
                 asked, received>>

WriteFails ==
  /\ pc = "write" /\ "write" \in Failures
  /\ Leave("write", 1)
  /\ Only

(* GenerateCrashSummaries follows in the crash mode; it cannot fail the run. *)
EndWrite ==
  /\ pc = "written"
  /\ saved' = IF data = saved THEN saved ELSE Torn
  /\ Leave("done", 0)
  /\ UNCHANGED <<cmd, config, context, enabled, outputHeld, flagVars, deadline, eventVars, sourceVars,
                 asked, savedFor, received>>

------------------------------------------------------------------------------
(* The prompt.                                                             *)

Capturable == IF config.mode = "memory" THEN "Capturing" ELSE "Ready"

(* Mutant: the wait does not look at interrupted_.                          *)
WaitForFeatureReadyAlways ==
  /\ pc = "ready"
  /\ \/ stage \in {"Ready", Capturable} /\ Goto("loop")
     \/ stage = "Disabled" /\ Leave("stage", 1)
  /\ Only

WaitForFeatureReady ==
  /\ pc = "ready"
  /\ \/ interrupted /\ Leave("interrupted", 1)
     \/ ~interrupted /\ stage \in {"Ready", Capturable} /\ Goto("loop")
     \/ ~interrupted /\ stage = "Disabled" /\ Leave("stage", 1)
  /\ Only

ManualLoop ==
  /\ pc = "loop"
  /\ IF interrupted THEN Leave("interrupted", 0) ELSE Goto("prompt")
  /\ Only

(* getline returns: the end of the input, "q", a "c", or something that      *)
(* changes nothing here.                                                   *)
ReadCommand ==
  /\ pc = "prompt"
  /\ \/ Leave("quit", 0)
     \/ asked < MaxCaptures /\ Goto("capture")
     \/ Goto("loop")
  /\ Only

(* "mode": g_output_mutex is held while set_params is called.               *)
BeginModeCommand ==
  /\ pc = "prompt" /\ config.mode = "profiling"
  /\ outputHeld' = TRUE /\ Goto("mode")
  /\ UNCHANGED <<cmd, config, context, enabled, flagVars, deadline, eventVars, sourceVars, fileVars,
                 received>>

EndModeCommand ==
  /\ pc = "mode"
  /\ outputHeld' = FALSE /\ Goto("loop")
  /\ UNCHANGED <<cmd, config, context, enabled, flagVars, deadline, eventVars, sourceVars, fileVars,
                 received>>

(* PerformCapture: the stage, then for raytracing the delay.                *)
CheckStage ==
  /\ pc = "capture"
  /\ Goto(CASE stage # Capturable -> "loop"
            [] stage = Capturable /\ config.mode = "raytracing" /\ config.rraDelay > 0 -> "delay"
            [] OTHER -> "trigger")
  /\ Only

Delay ==
  /\ pc = "delay"
  /\ Goto(IF interrupted THEN "loop" ELSE "trigger")
  /\ Only

(* TriggerCaptureForMode, on the first connection: it fails without one that *)
(* can be captured.                                                        *)
TriggerCapture ==
  /\ pc = "trigger"
  /\ LET first == {c \in Connections : conn[c] = IF config.mode = "memory" THEN "capturing" ELSE "idle"}
     IN \/ \E c \in first :
             /\ conn' = [conn EXCEPT ![c] = "capturing"]
             /\ request' = [request EXCEPT ![c] = asked + 1]
             /\ asked' = asked + 1
             /\ statusQueue' = IF config.mode = "memory" THEN statusQueue
                               ELSE Append(statusQueue, "Capturing")
             /\ Goto("waiting")
        \/ first = {} /\ Goto("loop") /\ UNCHANGED <<conn, request, asked, statusQueue>>
  /\ UNCHANGED <<cmd, config, context, enabled, outputHeld, flagVars, deadline, stage, statusCall,
                 completions, saved, savedFor, received>>

WaitForCompletion ==
  /\ pc = "waiting" /\ (complete \/ interrupted)
  /\ IF interrupted THEN Leave("interrupted", 0) ELSE Goto("save")
  /\ Only

(* SaveAndCleanupCapture without a file: a failure, and a success without    *)
(* data, which leaves the flags as they are.                               *)
SaveNothing ==
  /\ pc = "save" /\ ~(success /\ data # Nothing)
  /\ complete' = (complete /\ success)
  /\ Goto("loop")
  /\ UNCHANGED <<cmd, config, context, enabled, outputHeld, interrupted, success, failed, timedOut,
                 data, deadline, eventVars, sourceVars, fileVars, received>>

(* Mutant: the flags of the capture before stay set.                        *)
ResetFlagsKept ==
  /\ \/ pc = "saved" /\ saved' = (IF data = saved THEN saved ELSE Torn)
     \/ /\ pc = "save" /\ success /\ data # Nothing /\ UNCHANGED saved
        /\ "write" \in Failures \/ (config.mode = "raytracing" /\ "structures" \in Failures)
  /\ Goto("loop")
  /\ UNCHANGED <<cmd, config, context, enabled, outputHeld, flagVars, deadline, eventVars, sourceVars,
                 asked, savedFor, received>>

(* The file is written, or could not be, or was not worth it; then the flags *)
(* are reset.                                                              *)
ResetFlags ==
  /\ \/ pc = "saved" /\ saved' = (IF data = saved THEN saved ELSE Torn)
     \/ /\ pc = "save" /\ success /\ data # Nothing /\ UNCHANGED saved
        /\ "write" \in Failures \/ (config.mode = "raytracing" /\ "structures" \in Failures)
  /\ data' = Nothing /\ complete' = FALSE /\ success' = FALSE
  /\ Goto("loop")
  /\ UNCHANGED <<cmd, config, context, enabled, outputHeld, interrupted, failed, timedOut, deadline,
                 eventVars, sourceVars, asked, savedFor, received>>

(* Cleanup: destroy disconnects what is connected and joins the threads of   *)
(* the trace source, which first deliver what they have.                    *)
Cleanup ==
  /\ pc = "cleanup"
  /\ \A c \in Connections : conn[c] \in {"new", "gone"}
  /\ statusQueue = <<>> /\ statusCall = <<>> /\ completions = <<>>
  /\ pc' = "exit" /\ context' = FALSE /\ enabled' = FALSE
  /\ UNCHANGED <<cmd, config, code, why, outputHeld, flagVars, deadline, eventVars, sourceVars,
                 fileVars, received>>

------------------------------------------------------------------------------
(* The signal handler and the callbacks.                                    *)

Interrupt ==
  /\ pc \notin {"parse", "exit"} /\ ~interrupted
  /\ interrupted' = TRUE /\ complete' = TRUE
  /\ UNCHANGED <<mainVars, success, failed, timedOut, data, deadline, eventVars, sourceVars,
                 fileVars, received>>

(* A success without data leaves trace_data_ as it is.                      *)
Succeed(trace) ==
  /\ success' = TRUE /\ complete' = TRUE /\ UNCHANGED failed
  /\ data' = IF trace = Nothing THEN data ELSE trace

(* A failure does not end an automatic capture, nor undo a success.         *)
Fail ==
  /\ failed' = (failed \/ ~success)
  /\ complete' = (complete \/ (~success /\ ~Automatic))
  /\ UNCHANGED <<success, data>>

TraceFinished ==
  /\ completions # <<>> /\ ~outputHeld
  /\ LET done == Head(completions) IN
     \/ timedOut /\ UNCHANGED <<success, data, complete, failed, received>>
     \/ /\ ~timedOut
        /\ IF done.ok THEN Succeed(done.trace) ELSE Fail
        /\ received' = IF done.ok /\ pc \notin {"cleanup", "exit"}
                       THEN received \cup {done.trace.conn} ELSE received
  /\ completions' = Tail(completions)
  /\ UNCHANGED <<mainVars, interrupted, timedOut, deadline, stage, statusQueue, statusCall,
                 sourceVars, fileVars>>

(* TraceSourceAdapter::OnTraceStatusEvent: the adapter's fields first, then  *)
(* the callback, if the stage is another.                                  *)
OnTraceStatusEvent ==
  /\ statusQueue # <<>> /\ statusCall = <<>>
  /\ stage' = Head(statusQueue)
  /\ statusQueue' = Tail(statusQueue)
  /\ statusCall' = IF Head(statusQueue) # stage THEN <<Head(statusQueue)>> ELSE <<>>
  /\ UNCHANGED <<mainVars, flagVars, deadline, completions, sourceVars, fileVars, received>>

StatusChanged ==
  /\ statusCall # <<>> /\ ~outputHeld
  /\ statusCall' = <<>>
  /\ failed' = (failed /\ ~(~complete /\ Automatic /\ Head(statusCall) = "Ready"))
  /\ UNCHANGED <<mainVars, interrupted, complete, success, timedOut, data, deadline, stage,
                 statusQueue, completions, sourceVars, fileVars, received>>

------------------------------------------------------------------------------
(* The API's side of a connection.                                          *)

StageOf(cs) ==
  LET clients == {cs[c] : c \in Connections} IN
  CASE "capturing" \in clients -> "Capturing"
    [] "capturing" \notin clients /\ "idle" \in clients -> "Ready"
    [] clients \cap {"capturing", "idle"} = {} /\ "done" \in clients -> "Done"
    [] clients \cap {"capturing", "idle", "done"} = {} /\ "disabled" \in clients -> "Disabled"
    [] clients \cap {"capturing", "idle", "done", "disabled"} = {} /\ "unsupported" \in clients ->
         "ApiUnsupported"
    [] OTHER -> "Disconnected"

Becomes(c, state) ==
  /\ conn' = [conn EXCEPT ![c] = state]
  /\ statusQueue' = IF StageOf(conn') # StageOf(conn) THEN Append(statusQueue, StageOf(conn'))
                    ELSE statusQueue

Complete(c, ok) ==
  \E trace \in {[conn |-> c, request |-> request[c]]}
               \cup (IF ok /\ "empty" \in Failures THEN {Nothing} ELSE {}) :
    completions' = Append(completions, [ok |-> ok, trace |-> trace])

SourceOnly == UNCHANGED <<mainVars, flagVars, deadline, stage, statusCall, fileVars, received>>

(* A connection before the feature is enabled is seen by no trace source.    *)
Connect(c) ==
  /\ context /\ pc # "cleanup" /\ conn[c] = "new"
  /\ IF enabled
     THEN \/ Becomes(c, IF config.mode \in {"memory", "crash"} THEN "capturing" ELSE "idle")
          \/ \E refused \in {"unsupported", "disabled"} : Becomes(c, refused)
     ELSE conn' = [conn EXCEPT ![c] = "deaf"] /\ UNCHANGED statusQueue
  /\ UNCHANGED <<request, completions>>
  /\ SourceOnly

AutoCapture(c) ==
  /\ Automatic /\ conn[c] = "idle"
  /\ Becomes(c, "capturing")
  /\ UNCHANGED <<request, completions>>
  /\ SourceOnly

(* A capture ends; an automatic one and a memory trace are the only one of   *)
(* their connection. A crash dump comes with the end of the connection.     *)
CaptureEnds(c) ==
  /\ conn[c] = "capturing"
  /\ config.mode \in {"memory", "crash"} => request[c] # 0
  /\ Becomes(c, IF Automatic \/ config.mode = "memory" THEN "done" ELSE "idle")
  /\ \E ok \in BOOLEAN : Complete(c, ok)
  /\ request' = [request EXCEPT ![c] = 0]
  /\ SourceOnly

(* The end of a connection: a memory trace is dumped, a crash too if there   *)
(* was one, and a capture not yet taken has failed.                         *)
Disconnect(c) ==
  /\ conn[c] \notin {"new", "gone"}
  /\ Becomes(c, "gone")
  /\ \/ conn[c] = "capturing" /\ config.mode \in {"memory", "crash"} /\ \E ok \in BOOLEAN : Complete(c, ok)
     \/ conn[c] = "capturing" /\ config.mode = "crash" /\ UNCHANGED completions
     \/ conn[c] = "capturing" /\ config.mode \notin {"memory", "crash"} /\ Complete(c, FALSE)
     \/ conn[c] = "idle" /\ Automatic /\ Complete(c, FALSE)
     \/ (conn[c] \in {"deaf", "unsupported", "disabled", "done"} \/ (conn[c] = "idle" /\ ~Automatic)) /\ UNCHANGED completions
  /\ request' = [request EXCEPT ![c] = 0]
  /\ SourceOnly

------------------------------------------------------------------------------
Main ==
  \/ ParseCommandLine \/ Initialize \/ ApplyBlocklist \/ RunClocksMode \/ EnableFeature
  \/ WaitForCrash \/ PollEnds \/ PollDeadline \/ ClaimTimeout
  \/ FinishWait \/ BeginWrite \/ WriteFails \/ EndWrite
  \/ WaitForFeatureReady \/ ManualLoop \/ EndModeCommand \/ CheckStage \/ Delay
  \/ TriggerCapture \/ WaitForCompletion \/ SaveNothing \/ ResetFlags \/ Cleanup

User == ReadCommand \/ BeginModeCommand \/ Interrupt

Callbacks == TraceFinished \/ OnTraceStatusEvent \/ StatusChanged

Application(c) == Connect(c) \/ AutoCapture(c) \/ CaptureEnds(c) \/ Disconnect(c)

Next == Main \/ User \/ Callbacks \/ DeadlinePasses \/ \E c \in Connections : Application(c)

(* The main thread and the callback threads keep running, time passes, and   *)
(* destroying the context disconnects. Nothing is assumed of the user or of *)
(* the application: a capture need never end.                               *)
Fairness ==
  /\ WF_vars(Main)
  /\ WF_vars(TraceFinished) /\ WF_vars(OnTraceStatusEvent) /\ WF_vars(StatusChanged)
  /\ WF_vars(DeadlinePasses)
  /\ \A c \in Connections : WF_vars(pc = "cleanup" /\ Disconnect(c))

Spec == Init /\ [][Next]_vars /\ Fairness

------------------------------------------------------------------------------
(* "Exactly one wins": the tool never reports that the capture failed, by    *)
(* timeout or otherwise, when it has taken in a success; and when it says it *)
(* is done, the file is one whole trace that it has taken in. But for two    *)
(* cases: no success brought data, and then there is no file; and the traces *)
(* of two connections came, the second while the first was being written.   *)
SuccessIsSaved ==
  (Automatic \/ config.mode = "crash") /\ pc = "exit" =>
    /\ why \in {"failed", "timeout"} => received = {}
    /\ why = "done" =>
         LET from == received \ {Nothing.conn} IN
         \/ saved # Torn /\ saved.conn \in from
         \/ saved = Nothing /\ from = {} /\ received # {}
         \/ saved = Torn /\ \E c, d \in from : c # d

(* The same without the two cases: "Done!" means that a whole trace is in    *)
(* the file.                                                               *)
DoneIsSaved ==
  (Automatic \/ config.mode = "crash") /\ pc = "exit" /\ why = "done" => saved.conn \in Connections

(* A capture asked for at the prompt saves its own trace, not one of an      *)
(* earlier request, in the modes whose captures only come on request. A      *)
(* success without data is excepted: its flags are not reset, and the wait   *)
(* of the next capture is over at once.                                    *)
SavesWhatWasAsked ==
  ~Automatic /\ config.mode \in {"profiling", "raytracing"} /\ saved # Nothing
  /\ Nothing.conn \notin received =>
    saved # Torn /\ saved.request = savedFor

(* "Dump the current memory trace to file": what "c" writes is the dump it    *)
(* asked for.                                                              *)
DumpsTheCurrentTrace ==
  config.mode = "memory" /\ saved # Nothing => saved.request = savedFor

(* Ctrl+C ends the tool from whatever it waits for, but for the reading of   *)
(* a command.                                                              *)
InterruptEnds == interrupted ~> pc \in {"exit", "prompt"}

(* An automatic capture does not wait for ever on a failure: the tool gives  *)
(* up, or the failure is cleared, or something is in progress or keeps the   *)
(* feature unsupported.                                                    *)
FailureEnds ==
  ~<>[](pc = "auto" /\ failed /\ stage \notin InProgress \cup {"ApiUnsupported"})

(* The tool does not hang: it ends when interrupted, and on a failure.        *)
ToolEnds == InterruptEnds /\ FailureEnds
==============================================================================
