---------------------------- MODULE CaptureCliProofs ----------------------------
(***************************************************************************)
(* What a run of the command line tool makes of the captures it takes in,    *)
(* for any command lines, connections and failures, and any number of        *)
(* captures.                                                               *)
(***************************************************************************)
EXTENDS CaptureCli, SequenceTheorems, TLAPS

Trace == [conn : Connections, request : Nat]
Completion == [ok : BOOLEAN, trace : Trace \cup {Nothing}]

CliTypes ==
  /\ DOMAIN conn = Connections /\ request \in [Connections -> Nat] /\ asked \in Nat
  /\ completions \in Seq(Completion)
  /\ data \in Trace \cup {Nothing}
  /\ received \subseteq Connections \cup {Nothing.conn}

(* Nothing has happened while the command line is read, which decides the mode. *)
CliStarts ==
  pc = "parse" =>
    /\ ~context /\ completions = <<>>
    /\ \A c \in Connections : conn[c] = "new" /\ request[c] = 0
    /\ ~success /\ ~complete /\ received = {} /\ saved = Nothing /\ data = Nothing

Starting == {"parse", "initialize", "blocklist", "clocks", "enable"}
ToolOver == {"cleanup", "exit"}

(* The connections whose traces were taken in.                              *)
Took == received \ {Nothing.conn}

(* No trace answers a request, so that two traces are of two connections.     *)
Unasked ==
  /\ \A c \in Connections : request[c] = 0
  /\ \A i \in 1 .. Len(completions) : completions[i].trace.request = 0
  /\ data.request = 0

FileIsTaken ==
  \/ saved # Torn /\ saved.conn \in Took
  \/ saved = Nothing /\ Took = {} /\ received # {}
  \/ saved = Torn /\ \E c, d \in Took : c # d

(* The modes that wait for one capture: a success that is taken in stays, and is *)
(* the outcome unless the outcome was decided before; the data kept are those   *)
(* of a connection whose trace was taken in.                                 *)
OutcomeModes == Automatic \/ config.mode = "crash"
OutcomeStates == Starting \cup {"crash", "auto", "claim", "finish", "write", "written"} \cup ToolOver
OutcomeInv ==
  OutcomeModes =>
    /\ pc \in OutcomeStates
    /\ Unasked
    /\ success => complete /\ (received # {} \/ pc \in ToolOver)
    /\ received # {} => success
    /\ pc \notin ToolOver => IF data = Nothing THEN Took = {} ELSE data.conn \in Took
    /\ pc \notin ToolOver \cup {"written"} => saved = Nothing
    /\ pc = "write" => success /\ data # Nothing
    /\ pc = "written" => success /\ saved \in Trace /\ saved.request = 0 /\ saved.conn \in Took
    /\ pc \in ToolOver => /\ why \in {"failed", "timeout"} => received = {}
                          /\ why = "done" => FileIsTaken

(* The modes that capture on request: at most one capture is under way, only    *)
(* while the prompt waits, and no flag of an earlier one is left then; as long   *)
(* as every success has data.                                               *)
PromptModes == ~Automatic /\ config.mode \in {"profiling", "raytracing"}
PromptStates == Starting \cup {"ready", "loop", "prompt", "mode", "capture", "delay", "trigger"}
NoneRuns == completions = <<>> /\ \A c \in Connections : conn[c] # "capturing"
OneRuns ==
  \/ \E c \in Connections : /\ conn[c] = "capturing" /\ request[c] = asked /\ completions = <<>>
                            /\ \A d \in Connections \ {c} : conn[d] # "capturing"
  \/ /\ \A c \in Connections : conn[c] # "capturing"
     /\ Len(completions) = 1
     /\ completions[1].trace = Nothing \/ completions[1].trace.request = asked
NoFlags == ~success /\ (complete => interrupted)
OfThis == success => data # Nothing /\ data.request = asked
RequestInv ==
  PromptModes /\ Nothing.conn \notin received =>
    /\ pc \in PromptStates \cup {"waiting", "save", "saved"} \cup ToolOver
    /\ saved # Nothing => saved # Torn /\ saved.request = savedFor
    /\ pc \in PromptStates => NoneRuns /\ NoFlags
    /\ pc = "waiting" => (OneRuns /\ NoFlags) \/ (NoneRuns /\ OfThis)
    /\ pc = "save" => NoneRuns /\ OfThis
    /\ pc = "saved" => NoneRuns /\ data = saved /\ saved # Nothing

CliInv == CliTypes /\ CliStarts /\ OutcomeInv /\ RequestInv

LEMMA CliInit == Init => CliInv
<1> SUFFICES ASSUME Init PROVE CliInv
  OBVIOUS
<1>1. completions \in Seq(Completion) /\ pc = "parse" /\ pc \in Starting
  BY EmptySeq DEF Init, Starting
<1>2. CliTypes /\ CliStarts
  BY <1>1 DEF Init, CliTypes, CliStarts
<1>3. OutcomeInv
  <2>1. Unasked /\ Took = {}
    BY <1>1, <1>2 DEF CliStarts, Unasked, Took, Nothing
  <2> QED
    BY <1>1, <1>2, <2>1 DEF CliStarts, OutcomeInv, OutcomeStates, ToolOver
<1>4. RequestInv
  <2>1. NoneRuns /\ NoFlags /\ saved = Nothing
    BY <1>1, <1>2 DEF CliStarts, NoneRuns, NoFlags
  <2> QED
    BY <1>1, <2>1 DEF RequestInv, PromptStates
<1> QED
  BY <1>2, <1>3, <1>4 DEF CliInv

(* The steps that leave the captures and what was received alone.             *)
CliStill == UNCHANGED <<conn, request, asked, completions, data, received, success>>

LEMMA CliStarted ==
  ASSUME ParseCommandLine \/ Initialize \/ ApplyBlocklist \/ RunClocksMode \/ EnableFeature
  PROVE /\ CliStill /\ UNCHANGED <<complete, interrupted, saved, savedFor>> /\ pc' # "parse"
        /\ pc \in Starting
        /\ pc # "parse" => config' = config
        /\ pc' \in {"initialize", "blocklist", "clocks", "enable", "crash", "auto", "ready", "cleanup", "exit"}
        /\ pc' \in ToolOver => why' \in {"usage", "initialize", "info", "clocks", "enable"}
        /\ pc' = "ready" => ~OutcomeModes
        /\ pc' \in {"crash", "auto"} => ~PromptModes
<1> USE DEF CliStill, Only, Goto, Leave, Starting, ToolOver, mainVars, flagVars, eventVars,
        sourceVars, fileVars
<1>1. CASE ParseCommandLine
  BY <1>1 DEF ParseCommandLine
<1>2. CASE Initialize
  BY <1>2 DEF Initialize
<1>3. CASE ApplyBlocklist
  BY <1>3 DEF ApplyBlocklist
<1>4. CASE RunClocksMode
  BY <1>4 DEF RunClocksMode
<1>5. CASE EnableFeature
  <2>1. /\ pc = "enable" /\ UNCHANGED <<config, complete, interrupted, saved, savedFor>> /\ CliStill
        /\ \/ pc' \in {"crash", "auto", "ready"}
           \/ pc' = "cleanup" /\ why' = "enable"
    BY <1>5 DEF EnableFeature
  <2>2. pc' = "ready" => ~OutcomeModes
    BY <1>5 DEF EnableFeature, OutcomeModes
  <2>3. pc' \in {"crash", "auto"} => ~PromptModes
    BY <1>5 DEF EnableFeature, PromptModes
  <2> QED
    BY <2>1, <2>2, <2>3
<1> QED
  BY <1>1, <1>2, <1>3, <1>4, <1>5

LEMMA ModesKept ==
  ASSUME config' = config
  PROVE OutcomeModes' = OutcomeModes /\ PromptModes' = PromptModes
BY DEF OutcomeModes, PromptModes, Automatic

LEMMA StillTypes ==
  ASSUME CliTypes, CliStill
  PROVE CliTypes'
BY DEF CliTypes, CliStill

LEMMA StartingStep ==
  ASSUME CliInv, ParseCommandLine \/ Initialize \/ ApplyBlocklist \/ RunClocksMode \/ EnableFeature
  PROVE CliInv'
<1> USE DEF CliInv
<1>1. /\ CliStill /\ UNCHANGED <<complete, interrupted, saved, savedFor>> /\ pc' # "parse"
      /\ pc \in Starting
      /\ pc # "parse" => config' = config
      /\ pc' \in {"initialize", "blocklist", "clocks", "enable", "crash", "auto", "ready", "cleanup", "exit"}
      /\ pc' \in ToolOver => why' \in {"usage", "initialize", "info", "clocks", "enable"}
  BY CliStarted
<1>2. CliTypes' /\ CliStarts'
  BY <1>1, StillTypes DEF CliStarts
<1>3. pc' = "ready" => ~OutcomeModes'
  <2>1. pc' = "ready" => ~OutcomeModes /\ config' = config
    BY CliStarted DEF ParseCommandLine, Initialize, ApplyBlocklist, RunClocksMode, EnableFeature,
       Goto, Leave
  <2> QED
    BY <2>1, ModesKept
<1>4. pc' \in {"crash", "auto"} => ~PromptModes'
  <2>1. pc' \in {"crash", "auto"} => ~PromptModes /\ config' = config
    BY CliStarted DEF ParseCommandLine, Initialize, ApplyBlocklist, RunClocksMode, EnableFeature,
       Goto, Leave
  <2> QED
    BY <2>1, ModesKept
<1>5. OutcomeInv'
  <2>1. Unasked' = Unasked /\ Took' = Took
    BY <1>1 DEF Unasked, Took, CliStill
  <2>2. CASE pc = "parse"
    <3>1. ~success' /\ received' = {} /\ saved' = Nothing /\ data' = Nothing /\ Took = {} /\ Unasked
      BY <1>1, <2>2 DEF CliStarts, CliStill, Unasked, Took, Nothing
    <3> QED
      BY <1>1, <1>3, <2>1, <3>1 DEF OutcomeInv, OutcomeStates, Starting, ToolOver
  <2>3. CASE pc # "parse"
    <3>1. OutcomeModes' = OutcomeModes
      BY <1>1, <2>3, ModesKept
    <3> QED
      BY <1>1, <1>3, <2>1, <3>1 DEF OutcomeInv, OutcomeStates, Starting, ToolOver, CliStill
  <2> QED
    BY <2>2, <2>3
<1>6. RequestInv'
  <2>1. NoneRuns' = NoneRuns /\ NoFlags' = NoFlags
    BY <1>1 DEF NoneRuns, NoFlags, CliStill
  <2>2. CASE pc = "parse"
    <3>1. NoneRuns /\ NoFlags /\ saved' = Nothing
      BY <1>1, <2>2 DEF CliStarts, NoneRuns, NoFlags
    <3>2. received' = received /\ saved' = Nothing /\ NoneRuns' /\ NoFlags'
      BY <1>1, <2>1, <3>1 DEF CliStill
    <3>3. pc' \in PromptStates \cup ToolOver \/ ~PromptModes'
      BY <1>1, <1>4 DEF PromptStates, Starting, ToolOver
    <3>4. pc' \notin {"waiting", "save", "saved"}
      BY <1>1
    <3> QED
      BY <3>2, <3>3, <3>4 DEF RequestInv
  <2>3. CASE pc # "parse"
    <3>1. PromptModes' = PromptModes
      BY <1>1, <2>3, ModesKept
    <3>2. UNCHANGED <<received, saved, savedFor>>
      BY <1>1 DEF CliStill
    <3>3. pc \in PromptStates
      BY <1>1 DEF PromptStates
    <3>4. pc' \in PromptStates \cup ToolOver \/ ~PromptModes'
      BY <1>1, <1>4 DEF PromptStates, Starting, ToolOver
    <3>5. pc' \notin {"waiting", "save", "saved"}
      BY <1>1
    <3> QED
      BY <2>1, <3>1, <3>2, <3>3, <3>4, <3>5 DEF RequestInv
  <2> QED
    BY <2>2, <2>3
<1> QED
  BY <1>2, <1>5, <1>6

(* The two waits, and what follows them.                                    *)
LEMMA WaitStep ==
  ASSUME "none" \notin Connections, "torn" \notin Connections, CliInv,
         \/ WaitForCrash \/ PollEnds \/ PollDeadline \/ ClaimTimeout \/ FinishWait
         \/ pc = "write" /\ BeginWrite
         \/ WriteFails \/ EndWrite
  PROVE CliInv'
<1> USE DEF CliInv
<1>1. /\ CliStill /\ UNCHANGED <<config, complete, context>>
      /\ pc \in {"crash", "auto", "claim", "finish", "write", "written"}
  BY DEF WaitForCrash, PollEnds, PollDeadline, ClaimTimeout, FinishWait, BeginWrite,
     WriteFails, EndWrite, Only, CliStill, eventVars, sourceVars, fileVars, flagVars
<1>2. OutcomeModes' = OutcomeModes /\ PromptModes' = PromptModes
  BY <1>1, ModesKept
<1>3. RequestInv'
  BY <1>1, <1>2 DEF RequestInv, PromptStates, Starting, ToolOver, CliStill
<1>4. pc' \in {"auto", "claim", "finish", "write", "written", "cleanup"}
  BY DEF WaitForCrash, PollEnds, PollDeadline, ClaimTimeout, FinishWait, BeginWrite,
     WriteFails, EndWrite, Goto, Leave
<1>5. CliTypes' /\ CliStarts'
  BY <1>1, <1>4, StillTypes DEF CliStarts
<1>6. OutcomeInv'
  <2> SUFFICES ASSUME OutcomeModes PROVE OutcomeInv'
    BY <1>2 DEF OutcomeInv
  <2>1. /\ Unasked
        /\ success => complete /\ received # {}
        /\ received # {} => success
        /\ IF data = Nothing THEN Took = {} ELSE data.conn \in Took
        /\ pc # "written" => saved = Nothing
        /\ pc = "write" => success /\ data # Nothing
        /\ pc = "written" => success /\ saved \in Trace /\ saved.request = 0 /\ saved.conn \in Took
    BY <1>1 DEF OutcomeInv, ToolOver
  <2>2. Unasked' = Unasked /\ Took' = Took
    BY <1>1 DEF Unasked, Took, CliStill
  <2>3. pc' = "write" => success /\ data # Nothing
    BY <1>1, <2>1 DEF WaitForCrash, PollEnds, PollDeadline, ClaimTimeout, FinishWait, BeginWrite,
       WriteFails, EndWrite, Goto, Leave
  <2>4. pc' = "written" => pc = "write" /\ saved' = data
    BY <1>1, <2>1 DEF WaitForCrash, PollEnds, PollDeadline, ClaimTimeout, FinishWait, BeginWrite,
       WriteFails, EndWrite, Goto, Leave
  <2>9. data # Nothing => data \in Trace /\ data.request = 0 /\ data.conn \in Took
    <3>1. data.request = 0
      BY <2>1 DEF Unasked
    <3>2. data # Nothing => data \in Trace
      BY DEF CliTypes
    <3> QED
      BY <2>1, <3>1, <3>2
  <2>5. pc' = "written" => success /\ saved' \in Trace /\ saved'.request = 0 /\ saved'.conn \in Took
    BY <2>1, <2>4, <2>9
  <2>6. pc' \notin {"written", "cleanup"} => saved' = Nothing
    <3>1. CASE BeginWrite \/ EndWrite
      BY <1>1, <3>1 DEF BeginWrite, EndWrite, Goto, Leave
    <3>2. CASE ~(BeginWrite \/ EndWrite)
      <4>1. saved' = saved /\ (pc = "written" => FALSE)
        BY <3>2 DEF WaitForCrash, PollEnds, PollDeadline, ClaimTimeout, FinishWait, WriteFails, Only, fileVars
      <4> QED
        BY <2>1, <4>1
    <3> QED
      BY <3>1, <3>2
  <2>7. pc' = "cleanup" => /\ why' \in {"failed", "timeout"} => received = {}
                           /\ why' = "done" => FileIsTaken'
    <3>1. CASE WaitForCrash \/ PollEnds \/ PollDeadline \/ WriteFails
      BY <3>1 DEF WaitForCrash, PollEnds, PollDeadline, WriteFails, Goto, Leave
    <3>2. CASE ClaimTimeout
      <4>1. pc' = "cleanup" => why' = "timeout" /\ ~complete
        BY <3>2 DEF ClaimTimeout, Goto, Leave
      <4> QED
        BY <2>1, <4>1
    <3>3. CASE FinishWait
      <4>1. pc = "finish" /\ saved' = saved
        BY <3>3 DEF FinishWait, Only, fileVars
      <4>2. pc' = "cleanup" /\ why' \in {"failed", "timeout"} => received = {}
        BY <2>1, <3>3 DEF FinishWait, Goto, Leave
      <4>3. pc' = "cleanup" /\ why' = "done" => success /\ data = Nothing
        BY <3>3 DEF FinishWait, Goto, Leave
      <4>4. received' = received
        BY <1>1 DEF CliStill
      <4> QED
        <5>1. pc' = "cleanup" /\ why' = "done" => saved' = Nothing /\ Took' = {} /\ received' # {}
          BY <2>1, <2>2, <4>1, <4>3, <4>4
        <5>2. pc' = "cleanup" /\ why' = "done" => FileIsTaken'
          BY <5>1 DEF FileIsTaken
        <5> QED
          BY <4>2, <5>2
    <3>4. CASE BeginWrite
      BY <3>4 DEF BeginWrite, Goto
    <3>5. CASE EndWrite
      <4>1. pc = "written" /\ why' = "done" /\ saved' = IF data = saved THEN saved ELSE Torn
        BY <3>5 DEF EndWrite, Leave
      <4>2. saved \in Trace /\ saved.request = 0 /\ saved.conn \in Took
        BY <2>1, <4>1
      <4>3. saved # Torn
        BY <4>2 DEF Torn, Trace
      <4>4. data # saved => data.conn # saved.conn /\ data.conn \in Took
        <5>1. data # Nothing
          BY <2>1, <4>2
        <5>2. data \in Trace /\ data.conn \in Took /\ data.request = 0
          BY <2>9, <5>1
        <5>3. data = [conn |-> data.conn, request |-> data.request] /\ saved = [conn |-> saved.conn, request |-> saved.request]
          BY <4>2, <5>2 DEF Trace
        <5> QED
          BY <4>2, <5>2, <5>3
      <4>5. data = saved => FileIsTaken'
        BY <2>2, <4>1, <4>2, <4>3 DEF FileIsTaken
      <4>6. data # saved => FileIsTaken'
        <5>1. data # saved => saved' = Torn /\ \E c, d \in Took' : c # d
          BY <2>2, <4>1, <4>2, <4>4
        <5> QED
          BY <5>1 DEF FileIsTaken
      <4> QED
        BY <4>1, <4>5, <4>6
    <3> QED
      BY <3>1, <3>2, <3>3, <3>4, <3>5
  <2> QED
    BY <1>1, <1>4, <2>1, <2>2, <2>3, <2>5, <2>6, <2>7 DEF OutcomeInv, OutcomeStates, ToolOver, CliStill
<1> QED
  BY <1>3, <1>5, <1>6

(* The prompt, but for the trigger of a capture.                             *)
LEMMA PromptStep ==
  ASSUME "none" \notin Connections, "torn" \notin Connections, CliInv,
         \/ WaitForFeatureReady \/ ManualLoop \/ ReadCommand \/ BeginModeCommand \/ EndModeCommand
         \/ CheckStage \/ Delay \/ WaitForCompletion \/ SaveNothing \/ ResetFlags
         \/ pc = "save" /\ BeginWrite
  PROVE CliInv'
<1> USE DEF CliInv
<1>1. /\ UNCHANGED <<config, context, conn, request, asked, completions, received, interrupted>>
      /\ pc \in {"ready", "loop", "prompt", "mode", "capture", "delay", "waiting", "save", "saved"}
      /\ pc' \in {"loop", "prompt", "mode", "capture", "delay", "trigger", "save", "saved", "cleanup"}
  <2> USE DEF Only, Goto, Leave, eventVars, sourceVars, fileVars, flagVars
  <2>1. CASE WaitForFeatureReady \/ ManualLoop \/ ReadCommand
    BY <2>1 DEF WaitForFeatureReady, ManualLoop, ReadCommand
  <2>2. CASE BeginModeCommand \/ EndModeCommand
    BY <2>2 DEF BeginModeCommand, EndModeCommand
  <2>3. CASE CheckStage
    BY <2>3 DEF CheckStage
  <2>4. CASE Delay \/ WaitForCompletion
    BY <2>4 DEF Delay, WaitForCompletion
  <2>5. CASE SaveNothing \/ ResetFlags
    BY <2>5 DEF SaveNothing, ResetFlags
  <2>6. CASE pc = "save" /\ BeginWrite
    BY <2>6 DEF BeginWrite
  <2> QED
    BY <2>1, <2>2, <2>3, <2>4, <2>5, <2>6
<1>2. OutcomeModes' = OutcomeModes /\ PromptModes' = PromptModes
  BY <1>1, ModesKept
<1>3. OutcomeInv'
  BY <1>1, <1>2 DEF OutcomeInv, OutcomeStates, Starting, ToolOver
<1>4. CliStarts'
  BY <1>1 DEF CliStarts
<1>5. data' = data \/ data' = Nothing
  BY DEF WaitForFeatureReady, ManualLoop, ReadCommand, BeginModeCommand, EndModeCommand,
     CheckStage, Delay, WaitForCompletion, SaveNothing, ResetFlags, BeginWrite, Only, flagVars
<1>6. CliTypes'
  BY <1>1, <1>5 DEF CliTypes
<1>7. NoneRuns' = NoneRuns
  BY <1>1 DEF NoneRuns
<1>8. RequestInv'
  <2> SUFFICES ASSUME PromptModes, Nothing.conn \notin received PROVE RequestInv'
    BY <1>1, <1>2 DEF RequestInv
  <2>1. CASE WaitForFeatureReady \/ ManualLoop \/ ReadCommand \/ BeginModeCommand \/ EndModeCommand
             \/ CheckStage \/ Delay
    <3>1. pc \in PromptStates /\ pc' \in PromptStates \cup {"cleanup"}
          /\ UNCHANGED <<success, complete, saved, savedFor>>
      <4> USE DEF Only, Goto, Leave, fileVars, flagVars, PromptStates
      <4>1. CASE WaitForFeatureReady \/ ManualLoop \/ ReadCommand
        BY <4>1 DEF WaitForFeatureReady, ManualLoop, ReadCommand
      <4>2. CASE BeginModeCommand \/ EndModeCommand
        BY <4>2 DEF BeginModeCommand, EndModeCommand
      <4>3. CASE CheckStage
        BY <4>3 DEF CheckStage
      <4>4. CASE Delay
        BY <4>4 DEF Delay
      <4> QED
        BY <2>1, <4>1, <4>2, <4>3, <4>4
    <3>2. NoFlags' = NoFlags
      BY <1>1, <3>1 DEF NoFlags
    <3>3. pc' \notin {"waiting", "save", "saved"}
      BY <1>1, <3>1 DEF PromptStates, Starting
    <3> QED
      BY <1>7, <3>1, <3>2, <3>3 DEF RequestInv, ToolOver
  <2>2. CASE WaitForCompletion
    <3>1. /\ pc = "waiting" /\ UNCHANGED <<success, complete, data, saved, savedFor>>
          /\ \/ pc' = "cleanup"
             \/ pc' = "save" /\ complete /\ ~interrupted
      BY <2>2 DEF WaitForCompletion, Only, Goto, Leave, fileVars, flagVars
    <3>2. pc' = "save" => NoneRuns /\ OfThis
      BY <3>1 DEF RequestInv, NoFlags
    <3>3. OfThis' = OfThis
      BY <1>1, <3>1 DEF OfThis
    <3> QED
      BY <1>7, <3>1, <3>2, <3>3 DEF RequestInv, PromptStates, Starting, ToolOver
  <2>3. CASE SaveNothing
    <3>1. /\ pc = "save" /\ pc' = "loop" /\ ~(success /\ data # Nothing) /\ complete' = (complete /\ success)
          /\ UNCHANGED <<success, saved, savedFor>>
      BY <2>3 DEF SaveNothing, Goto, fileVars
    <3>2. NoneRuns /\ ~success
      BY <3>1 DEF RequestInv, OfThis
    <3> QED
      BY <1>7, <3>1, <3>2 DEF RequestInv, NoFlags, PromptStates
  <2>4. CASE ResetFlags
    <3>1. /\ pc \in {"save", "saved"} /\ pc' = "loop" /\ ~complete' /\ ~success' /\ savedFor' = savedFor
          /\ saved' = saved \/ (pc = "saved" /\ data # saved)
      BY <2>4 DEF ResetFlags, Goto
    <3>2. saved' = saved /\ NoneRuns
      BY <3>1 DEF RequestInv
    <3> QED
      BY <1>7, <3>1, <3>2 DEF RequestInv, NoFlags, PromptStates
  <2>5. CASE pc = "save" /\ BeginWrite
    <3>1. pc' = "saved" /\ success /\ data # Nothing /\ saved' = data /\ savedFor' = asked /\ data' = data
      BY <2>5 DEF BeginWrite, Goto, flagVars
    <3>2. NoneRuns /\ data.request = asked
      BY <2>5, <3>1 DEF RequestInv, OfThis
    <3>3. data # Torn
      <4>1. data.conn \in Connections
        BY <3>1 DEF CliTypes, Trace
      <4> QED
        BY <4>1 DEF Torn
    <3> QED
      BY <1>7, <3>1, <3>2, <3>3 DEF RequestInv, PromptStates, Starting, ToolOver
  <2> QED
    BY <2>1, <2>2, <2>3, <2>4, <2>5
<1> QED
  BY <1>3, <1>4, <1>6, <1>8

(* A capture is triggered where none runs: it is the one asked for now.        *)
LEMMA TriggerStep ==
  ASSUME CliInv, TriggerCapture
  PROVE CliInv'
<1> USE DEF CliInv
<1>1. /\ pc = "trigger" /\ pc' \in {"waiting", "loop"}
      /\ UNCHANGED <<config, context, success, complete, interrupted, data, completions, received, saved, savedFor>>
  BY DEF TriggerCapture, flagVars, Goto
<1>2. OutcomeModes' = OutcomeModes /\ PromptModes' = PromptModes
  BY <1>1, ModesKept
<1>3. OutcomeInv' /\ CliStarts'
  BY <1>1, <1>2 DEF OutcomeInv, OutcomeStates, Starting, ToolOver, CliStarts
<1>4. CliTypes'
  BY <1>1 DEF TriggerCapture, CliTypes
<1>5. RequestInv'
  <2> SUFFICES ASSUME PromptModes, Nothing.conn \notin received PROVE RequestInv'
    BY <1>1, <1>2 DEF RequestInv
  <2>1. NoneRuns /\ NoFlags /\ NoFlags'
    BY <1>1 DEF RequestInv, PromptStates, NoFlags
  <2>2. CASE pc' = "loop"
    <3>1. NoneRuns'
      BY <1>1, <2>1, <2>2 DEF TriggerCapture, NoneRuns, Goto
    <3> QED
      BY <1>1, <2>1, <2>2, <3>1 DEF RequestInv, PromptStates, Starting, ToolOver
  <2>3. CASE pc' = "waiting"
    <3>1. PICK c \in Connections : /\ conn' = [conn EXCEPT ![c] = "capturing"]
                                   /\ request' = [request EXCEPT ![c] = asked + 1] /\ asked' = asked + 1
      BY <2>3 DEF TriggerCapture, Goto
    <3>2. conn'[c] = "capturing" /\ request'[c] = asked' /\ completions' = <<>>
      BY <1>1, <2>1, <3>1 DEF CliTypes, NoneRuns
    <3>3. \A d \in Connections \ {c} : conn'[d] # "capturing"
      BY <2>1, <3>1 DEF CliTypes, NoneRuns
    <3>4. OneRuns'
      BY <3>2, <3>3 DEF OneRuns
    <3> QED
      BY <1>1, <2>1, <2>3, <3>4 DEF RequestInv, PromptStates, Starting, ToolOver
  <2> QED
    BY <1>1, <2>2, <2>3
<1> QED
  BY <1>3, <1>4, <1>5

(* The end of the tool, Ctrl+C, time, and what is told of the stage.           *)
LEMMA QuietStep ==
  ASSUME CliInv,
         Cleanup \/ Interrupt \/ DeadlinePasses \/ OnTraceStatusEvent \/ StatusChanged
  PROVE CliInv'
<1> USE DEF CliInv
<1>1. /\ CliStill /\ UNCHANGED <<config, why, saved, savedFor>>
      /\ \/ UNCHANGED <<pc, context, complete, interrupted>>
         \/ UNCHANGED <<pc, context>> /\ pc # "parse" /\ complete' /\ interrupted'
         \/ pc = "cleanup" /\ pc' = "exit" /\ UNCHANGED <<complete, interrupted>>
  <2> USE DEF CliStill, mainVars, flagVars, eventVars, sourceVars, fileVars
  <2>1. CASE Cleanup
    BY <2>1 DEF Cleanup
  <2>2. CASE Interrupt
    BY <2>2 DEF Interrupt
  <2>3. CASE DeadlinePasses
    BY <2>3 DEF DeadlinePasses
  <2>4. CASE OnTraceStatusEvent \/ StatusChanged
    BY <2>4 DEF OnTraceStatusEvent, StatusChanged
  <2> QED
    BY <2>1, <2>2, <2>3, <2>4
<1>2. OutcomeModes' = OutcomeModes /\ PromptModes' = PromptModes
  BY <1>1, ModesKept
<1>3. CliTypes' /\ CliStarts'
  BY <1>1, StillTypes DEF CliStarts, CliStill
<1>4. OutcomeInv'
  <2>1. Unasked' = Unasked /\ Took' = Took /\ FileIsTaken' = FileIsTaken
    BY <1>1 DEF Unasked, Took, FileIsTaken, CliStill
  <2> QED
    BY <1>1, <1>2, <2>1 DEF OutcomeInv, OutcomeStates, ToolOver, CliStill
<1>5. RequestInv'
  <2> SUFFICES ASSUME PromptModes, Nothing.conn \notin received PROVE RequestInv'
    BY <1>1, <1>2 DEF RequestInv, CliStill
  <2>1. NoneRuns' = NoneRuns /\ OneRuns' = OneRuns /\ OfThis' = OfThis /\ (NoFlags => NoFlags')
    BY <1>1 DEF NoneRuns, OneRuns, OfThis, NoFlags, CliStill
  <2>2. CASE pc' = pc
    BY <1>1, <2>1, <2>2 DEF RequestInv, CliStill
  <2>3. CASE pc' = "exit"
    BY <1>1, <2>3 DEF RequestInv, PromptStates, Starting, ToolOver, CliStill
  <2> QED
    BY <1>1, <2>2, <2>3
<1> QED
  BY <1>3, <1>4, <1>5

(* A trace or a failure comes: the first outcome is kept, and at the prompt it   *)
(* is the one that is waited for.                                          *)
LEMMA FinishedStep ==
  ASSUME "none" \notin Connections, CliInv, TraceFinished
  PROVE CliInv'
<1> USE DEF CliInv
<1> DEFINE done == Head(completions)
<1>1. completions # <<>> /\ done \in Completion /\ completions' = Tail(completions)
      /\ completions' \in Seq(Completion)
  BY HeadTailProperties DEF TraceFinished, CliTypes
<1>2. /\ done.trace \in Trace \cup {Nothing} /\ done.trace.conn \in Connections \cup {Nothing.conn}
      /\ done.trace # Nothing => done.trace \in Trace /\ done.trace.conn \in Connections /\ done.trace.conn # Nothing.conn
  <2>1. done.trace \in Trace \cup {Nothing}
    BY <1>1 DEF Completion
  <2>2. done.trace \in Trace => done.trace.conn \in Connections
    BY DEF Trace
  <2>3. Nothing.conn \notin Connections
    BY DEF Nothing
  <2> QED
    BY <2>1, <2>2, <2>3
<1> HIDE DEF done
<1>3. /\ UNCHANGED <<config, pc, why, context, interrupted, conn, request, asked, saved, savedFor>>
      /\ \/ UNCHANGED <<success, data, complete, received>>
         \/ /\ success' /\ data' = (IF done.trace = Nothing THEN data ELSE done.trace) /\ complete'
            /\ received' = IF pc \in ToolOver THEN received ELSE received \cup {done.trace.conn}
         \/ UNCHANGED <<success, data, received>> /\ (complete => complete')
  <2>1. UNCHANGED <<config, pc, why, context, interrupted, conn, request, asked, saved, savedFor>>
    BY DEF TraceFinished, mainVars, sourceVars, fileVars
  <2>2. CASE timedOut /\ UNCHANGED <<success, data, complete, failed, received>>
    BY <2>1, <2>2
  <2>3. CASE /\ ~timedOut
             /\ IF done.ok THEN Succeed(done.trace) ELSE Fail
             /\ received' = IF done.ok /\ pc \notin {"cleanup", "exit"}
                            THEN received \cup {done.trace.conn} ELSE received
    <3>1. CASE done.ok
      BY <2>1, <2>3, <3>1 DEF Succeed, ToolOver
    <3>2. CASE ~done.ok
      <4>1. UNCHANGED <<success, data>> /\ complete' = (complete \/ (~success /\ ~Automatic))
        BY <2>3, <3>2 DEF Fail
      <4>2. received' = received
        BY <2>3, <3>2
      <4> QED
        BY <2>1, <4>1, <4>2
    <3> QED
      BY <3>1, <3>2
  <2> QED
    BY <2>2, <2>3 DEF TraceFinished, done
<1>4. OutcomeModes' = OutcomeModes /\ PromptModes' = PromptModes
  BY <1>3, ModesKept
<1>5. CliTypes'
  BY <1>1, <1>2, <1>3 DEF CliTypes
<1>6. pc # "parse" /\ CliStarts'
  BY <1>1, <1>3 DEF CliStarts
<1>7. OutcomeInv'
  <2> SUFFICES ASSUME OutcomeModes PROVE OutcomeInv'
    BY <1>4 DEF OutcomeInv
  <2>1. Unasked /\ done.trace.request = 0
    <3>1. Unasked /\ 1 \in 1 .. Len(completions) /\ done = completions[1]
      BY <1>1, EmptySeq DEF CliTypes, OutcomeInv, done
    <3> QED
      BY <3>1 DEF Unasked
  <2>2. Unasked'
    <3>1. \A i \in 1 .. Len(completions') : i + 1 \in 1 .. Len(completions) /\ completions'[i] = completions[i + 1]
      BY <1>1 DEF CliTypes
    <3>2. data'.request = 0
      BY <1>3, <2>1 DEF Unasked
    <3> QED
      BY <1>3, <2>1, <3>1, <3>2 DEF Unasked
  <2>3. CASE pc \in ToolOver
    <3>1. received' = received /\ Took' = Took /\ FileIsTaken' = FileIsTaken
      BY <1>3, <2>3 DEF Took, FileIsTaken
    <3> QED
      BY <1>3, <2>2, <2>3, <3>1 DEF OutcomeInv, ToolOver
  <2>4. CASE pc \notin ToolOver
    <3>1. Took \subseteq Took'
      BY <1>3 DEF Took
    <3>2. IF data' = Nothing THEN Took' = {} ELSE data'.conn \in Took'
      <4>1. CASE received' = received /\ data' = data
        BY <2>4, <4>1 DEF OutcomeInv, Took
      <4>2. CASE done.trace = Nothing /\ data' = data /\ received' = received \cup {Nothing.conn}
        BY <2>4, <4>2 DEF OutcomeInv, Took
      <4>3. CASE done.trace # Nothing /\ data' = done.trace /\ received' = received \cup {done.trace.conn}
        BY <1>2, <4>3 DEF Took
      <4> QED
        BY <1>3, <2>4, <4>1, <4>2, <4>3
    <3>3. received' # {} <=> success'
      BY <1>3, <2>4 DEF OutcomeInv
    <3>4. success' => complete'
      BY <1>3, <2>4 DEF OutcomeInv
    <3>5. /\ pc = "write" => success' /\ data' # Nothing
          /\ pc = "written" => success'
      BY <1>2, <1>3, <2>4 DEF OutcomeInv
    <3> QED
      BY <1>3, <2>2, <2>4, <3>1, <3>2, <3>3, <3>4, <3>5 DEF OutcomeInv
  <2> QED
    BY <2>3, <2>4
<1>8. RequestInv'
  <2> SUFFICES ASSUME PromptModes, Nothing.conn \notin received, Nothing.conn \notin received' PROVE RequestInv'
    BY <1>3, <1>4 DEF RequestInv
  <2>1. CASE pc \in ToolOver
    BY <1>3, <2>1 DEF RequestInv, PromptStates, Starting, ToolOver
  <2>2. CASE pc \notin ToolOver
    <3>1. pc = "waiting" /\ OneRuns /\ NoFlags
      BY <1>1, <2>2 DEF RequestInv, NoneRuns
    <3>2. /\ \A c \in Connections : conn[c] # "capturing"
          /\ Len(completions) = 1 /\ (done.trace = Nothing \/ done.trace.request = asked)
      <4>1. done = completions[1]
        BY <1>1 DEF CliTypes, done
      <4> QED
        BY <1>1, <3>1, <4>1 DEF OneRuns, CliTypes
    <3>3. completions' = <<>>
      <4>1. Len(completions') = 0
        BY <1>1, <3>2, HeadTailProperties DEF CliTypes
      <4> QED
        BY <1>1, <4>1, EmptySeq
    <3>4. NoneRuns' /\ OfThis'
      <4>1. NoneRuns'
        BY <1>3, <3>2, <3>3 DEF NoneRuns
      <4>2. CASE success'
        <5>1. ~success
          BY <3>1 DEF NoFlags
        <5>2. received' = received \cup {done.trace.conn} /\ data' = IF done.trace = Nothing THEN data ELSE done.trace
          BY <1>3, <2>2, <4>2, <5>1
        <5>3. done.trace # Nothing
          BY <5>2
        <5> QED
          BY <1>3, <3>2, <4>1, <5>2, <5>3 DEF OfThis
      <4>3. CASE ~success'
        BY <4>1, <4>3 DEF OfThis
      <4> QED
        BY <4>1, <4>2, <4>3
    <3> QED
      BY <1>3, <3>1, <3>4 DEF RequestInv, PromptStates, Starting, ToolOver
  <2> QED
    BY <2>1, <2>2
<1> QED
  BY <1>5, <1>6, <1>7, <1>8

(* The application's side: a capture that was asked for is under way until its   *)
(* outcome is queued.                                                      *)
LEMMA ApplicationStep ==
  ASSUME CliInv, NEW c \in Connections, Application(c)
  PROVE CliInv'
<1> USE DEF CliInv
<1>1. UNCHANGED <<pc, why, config, context, success, complete, interrupted, data, received, asked, saved, savedFor>>
  BY DEF Application, Connect, AutoCapture, CaptureEnds, Disconnect, SourceOnly, mainVars,
     flagVars, fileVars
<1>2. OutcomeModes' = OutcomeModes /\ PromptModes' = PromptModes
  BY <1>1, ModesKept
<1>3. PICK next : /\ conn' = [conn EXCEPT ![c] = next]
                  /\ PromptModes => next # "capturing"
  <2>1. CASE Connect(c)
    <3>1. CASE enabled
      BY <2>1, <3>1 DEF Connect, Becomes, PromptModes
    <3>2. CASE ~enabled
      BY <2>1, <3>2 DEF Connect
    <3> QED
      BY <3>1, <3>2
  <2>2. CASE AutoCapture(c)
    BY <2>2 DEF AutoCapture, Becomes, PromptModes
  <2>3. CASE CaptureEnds(c)
    <3>1. PICK next \in {"done", "idle"} : Becomes(c, next)
      <4>1. Becomes(c, IF Automatic \/ config.mode = "memory" THEN "done" ELSE "idle")
        BY <2>3 DEF CaptureEnds
      <4> QED
        BY <4>1
    <3>2. conn' = [conn EXCEPT ![c] = next] /\ next # "capturing"
      BY <3>1 DEF Becomes
    <3> QED
      BY <3>2
  <2>4. CASE Disconnect(c)
    <3>1. Becomes(c, "gone")
      BY <2>4 DEF Disconnect
    <3>2. conn' = [conn EXCEPT ![c] = "gone"] /\ "gone" # "capturing"
      BY <3>1 DEF Becomes
    <3> QED
      BY <3>2
  <2> QED
    BY <2>1, <2>2, <2>3, <2>4 DEF Application
<1>4. (conn[c] # "capturing" /\ UNCHANGED request) \/ request' = [request EXCEPT ![c] = 0]
  BY DEF Application, Connect, AutoCapture, CaptureEnds, Disconnect
<1>5. \/ \E ok \in BOOLEAN : Complete(c, ok)
      \/ UNCHANGED completions
  BY DEF Application, Connect, AutoCapture, CaptureEnds, Disconnect
<1>9. Took' = Took /\ FileIsTaken' = FileIsTaken
  BY <1>1 DEF Took, FileIsTaken
<1>6. CASE UNCHANGED completions /\ (PromptModes => conn[c] # "capturing")
  <2>1. CliTypes'
    BY <1>1, <1>3, <1>4, <1>6 DEF CliTypes
  <2>2. CliStarts'
    <3>1. pc # "parse"
      BY DEF CliStarts, Application, Connect, AutoCapture, CaptureEnds, Disconnect
    <3> QED
      BY <1>1, <3>1 DEF CliStarts
  <2>3. OutcomeInv'
    <3>1. Unasked => Unasked'
      BY <1>1, <1>4, <1>6 DEF CliTypes, Unasked
    <3> QED
      BY <1>1, <1>2, <1>9, <3>1 DEF OutcomeInv
  <2>4. RequestInv'
    <3> SUFFICES ASSUME PromptModes, Nothing.conn \notin received PROVE RequestInv'
      BY <1>1, <1>2 DEF RequestInv
    <3>1. \A d \in Connections : conn'[d] = "capturing" => conn[d] = "capturing" /\ d # c
      BY <1>3 DEF CliTypes
    <3>2. \A d \in Connections : conn[d] = "capturing" => conn'[d] = "capturing" /\ request'[d] = request[d]
      BY <1>3, <1>4, <1>6 DEF CliTypes
    <3>3. NoneRuns => NoneRuns'
      BY <1>6, <3>1 DEF NoneRuns
    <3>4. OneRuns => OneRuns'
      BY <1>1, <1>6, <3>1, <3>2 DEF OneRuns
    <3>5. NoFlags' = NoFlags /\ OfThis' = OfThis
      BY <1>1 DEF NoFlags, OfThis
    <3> QED
      BY <1>1, <3>3, <3>4, <3>5 DEF RequestInv
  <2> QED
    BY <2>1, <2>2, <2>3, <2>4
<1>7. CASE PromptModes /\ conn[c] = "capturing" /\ UNCHANGED completions
  <2>1. ~Automatic /\ config.mode \notin {"memory", "crash"}
    BY <1>7 DEF PromptModes
  <2>2. completions' # completions
    <3>1. \E ok \in BOOLEAN : Complete(c, ok)
      BY <1>7, <2>1 DEF Application, Connect, AutoCapture, CaptureEnds, Disconnect
    <3>2. Len(completions') = Len(completions) + 1
      BY <3>1 DEF Complete, CliTypes
    <3> QED
      BY <3>2 DEF CliTypes
  <2> QED
    BY <1>7, <2>2
<1>8. CASE \E ok \in BOOLEAN : Complete(c, ok)
  <2>1. PICK answer : /\ completions' = Append(completions, answer)
                      /\ \E ok \in BOOLEAN, trace \in {[conn |-> c, request |-> request[c]], Nothing} :
                           answer = [ok |-> ok, trace |-> trace]
    BY <1>8 DEF Complete
  <2>2. answer \in Completion
    BY <2>1 DEF Completion, Trace, CliTypes
  <2>3. CliTypes'
    BY <1>1, <1>3, <1>4, <2>1, <2>2 DEF CliTypes
  <2>4. CliStarts' /\ pc # "parse" /\ conn[c] # "new"
    <3>1. pc # "parse" \/ conn[c] = "new"
      BY DEF CliStarts
    <3>2. completions' # completions
      BY <2>1, <2>2 DEF CliTypes
    <3>3. conn[c] # "new"
      BY <3>2 DEF Application, Connect, AutoCapture, CaptureEnds, Disconnect
    <3> QED
      BY <1>1, <3>1, <3>3 DEF CliStarts
  <2>5. OutcomeInv'
    <3>1. ASSUME Unasked PROVE Unasked'
      <4>1. answer.trace.request = 0
        BY <2>1, <3>1 DEF Unasked, Nothing
      <4>2. \A d \in Connections : request'[d] = 0
        BY <1>4, <3>1 DEF CliTypes, Unasked
      <4>3. \A i \in 1 .. Len(completions') : completions'[i].trace.request = 0
        <5>1. Len(completions') = Len(completions) + 1 /\ completions'[Len(completions) + 1] = answer
              /\ \A i \in 1 .. Len(completions) : completions'[i] = completions[i]
          BY <2>1, <2>2 DEF CliTypes
        <5> QED
          BY <3>1, <4>1, <5>1 DEF CliTypes, Unasked
      <4> QED
        BY <1>1, <3>1, <4>2, <4>3 DEF Unasked
    <3> QED
      BY <1>1, <1>2, <1>9, <3>1 DEF OutcomeInv
  <2>6. RequestInv'
    <3> SUFFICES ASSUME PromptModes, Nothing.conn \notin received PROVE RequestInv'
      BY <1>1, <1>2 DEF RequestInv
    <3>1. completions' # completions
      BY <2>1, <2>2 DEF CliTypes
    <3>2. conn[c] = "capturing"
      BY <3>1 DEF PromptModes, Application, Connect, AutoCapture, CaptureEnds, Disconnect
    <3>3. CASE pc \in ToolOver
      BY <1>1, <3>3 DEF RequestInv, PromptStates, Starting, ToolOver
    <3>4. CASE pc \notin ToolOver
      <4>1. pc = "waiting" /\ OneRuns /\ NoFlags
        BY <3>2, <3>4 DEF RequestInv, NoneRuns
      <4>2. request[c] = asked /\ completions = <<>> /\ \A d \in Connections \ {c} : conn[d] # "capturing"
        BY <3>2, <4>1 DEF OneRuns
      <4>3. Len(completions') = 1 /\ (completions'[1].trace = Nothing \/ completions'[1].trace.request = asked')
        BY <1>1, <2>1, <4>2
      <4>4. \A d \in Connections : conn'[d] # "capturing"
        BY <1>3, <4>2 DEF CliTypes
      <4>5. OneRuns' /\ NoFlags'
        BY <1>1, <4>1, <4>3, <4>4 DEF OneRuns, NoFlags
      <4> QED
        BY <1>1, <4>1, <4>5 DEF RequestInv, PromptStates, Starting, ToolOver
    <3> QED
      BY <3>3, <3>4
  <2> QED
    BY <2>3, <2>4, <2>5, <2>6
<1> QED
  BY <1>5, <1>6, <1>7, <1>8

LEMMA CliStep ==
  ASSUME "none" \notin Connections, "torn" \notin Connections
  PROVE CliInv /\ [Next]_vars => CliInv'
<1> SUFFICES ASSUME CliInv, [Next]_vars PROVE CliInv'
  OBVIOUS
<1>1. CASE Main
  <2>1. CASE BeginWrite
    BY <2>1, WaitStep, PromptStep DEF BeginWrite
  <2>2. CASE ~BeginWrite
    <3>1. \/ ParseCommandLine \/ Initialize \/ ApplyBlocklist \/ RunClocksMode \/ EnableFeature
          \/ WaitForCrash \/ PollEnds \/ PollDeadline \/ ClaimTimeout
          \/ FinishWait \/ WriteFails \/ EndWrite
          \/ WaitForFeatureReady \/ ManualLoop \/ EndModeCommand \/ CheckStage \/ Delay
          \/ TriggerCapture \/ WaitForCompletion \/ SaveNothing \/ ResetFlags \/ Cleanup
      BY <1>1, <2>2 DEF Main
    <3> QED
      BY <3>1, StartingStep, WaitStep, PromptStep, TriggerStep, QuietStep
  <2> QED
    BY <2>1, <2>2
<1>2. CASE User
  BY <1>2, PromptStep, QuietStep DEF User
<1>3. CASE Callbacks
  BY <1>3, FinishedStep, QuietStep DEF Callbacks
<1>4. CASE DeadlinePasses
  BY <1>4, QuietStep
<1>5. CASE \E c \in Connections : Application(c)
  BY <1>5, ApplicationStep
<1>6. CASE UNCHANGED vars
  <2>1. /\ CliStill
        /\ UNCHANGED <<pc, why, config, context, complete, interrupted, saved, savedFor>>
    BY <1>6 DEF vars, CliStill, mainVars, flagVars, eventVars, sourceVars, fileVars
  <2>2. OutcomeModes' = OutcomeModes /\ PromptModes' = PromptModes
    BY <2>1, ModesKept
  <2>3. NoneRuns' = NoneRuns /\ OneRuns' = OneRuns /\ OfThis' = OfThis /\ NoFlags' = NoFlags
    BY <2>1 DEF NoneRuns, OneRuns, OfThis, NoFlags, CliStill
  <2>4. CliTypes' /\ CliStarts'
    BY <2>1, StillTypes DEF CliInv, CliStarts, CliStill
  <2>5. OutcomeInv'
    <3>1. Unasked' = Unasked /\ Took' = Took /\ FileIsTaken' = FileIsTaken
      BY <2>1 DEF Unasked, Took, FileIsTaken, CliStill
    <3> QED
      BY <2>1, <2>2, <3>1 DEF CliInv, OutcomeInv, CliStill
  <2>6. RequestInv'
    BY <2>1, <2>2, <2>3 DEF CliInv, RequestInv, CliStill
  <2> QED
    BY <2>4, <2>5, <2>6 DEF CliInv
<1> QED
  BY <1>1, <1>2, <1>3, <1>4, <1>5, <1>6 DEF Next

(* CaptureCli::PollAutoCapture, WaitForCrash and TraceFinished: the tool does   *)
(* not say that it failed or timed out when it took a success in, and when it    *)
(* says it is done, a trace it took in is in the file, whole, unless no success  *)
(* brought data or two connections' traces came; for any connections, command    *)
(* lines and failures.                                                     *)
(* The names of no file and of a torn one are no connections.               *)
THEOREM OutcomeIsSaved ==
  ASSUME "none" \notin Connections, "torn" \notin Connections
  PROVE Spec => []SuccessIsSaved
<1>1. CliInv => SuccessIsSaved
  BY DEF CliInv, OutcomeInv, OutcomeModes, ToolOver, SuccessIsSaved, FileIsTaken, Took
<1>2. CliInv /\ [Next]_vars => CliInv'
  BY CliStep
<1> QED
  BY <1>1, <1>2, CliInit, PTL DEF Spec

(* CaptureCli::PerformCapture, TraceFinished and SaveAndCleanupCapture: a capture *)
(* asked for at the prompt saves its own trace, for any connections and any       *)
(* number of captures.                                                     *)
THEOREM RequestsAreSaved ==
  ASSUME "none" \notin Connections, "torn" \notin Connections
  PROVE Spec => []SavesWhatWasAsked
<1>1. CliInv => SavesWhatWasAsked
  BY DEF CliInv, RequestInv, PromptModes, SavesWhatWasAsked
<1>2. CliInv /\ [Next]_vars => CliInv'
  BY CliStep
<1> QED
  BY <1>1, <1>2, CliInit, PTL DEF Spec

==============================================================================
