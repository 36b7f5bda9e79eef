------------------------------ MODULE CommandLine ------------------------------
(***************************************************************************)
(* ParseCommandLine of the command line tool: which command lines are      *)
(* accepted, the configuration an accepted one gives, and the trigger of    *)
(* an automatic capture that the trace client computes from it.             *)
(*                                                                         *)
(* A command line is the set of options given and the values of those that  *)
(* have one. Words are lower case, as the parser makes them.                *)
(***************************************************************************)
EXTENDS Integers, Sequences, FiniteSets

CONSTANT UintRange   \* 2^32: the values of a uint32_t

ASSUME UintAssumption == UintRange \in Nat /\ UintRange > 5

------------------------------------------------------------------------------
(* GetCliOptionGroups: the long names of the options, by group. The groups  *)
(* named after a mode belong to it; the others go with every mode.          *)

Modes == {"profiling", "raytracing", "memory", "crash", "clocks"}

OptionGroups ==
  [profiling  |-> {"rgp-auto-capture", "rgp-auto-capture-delay", "rgp-capture-mode",
                   "rgp-render-op-count", "rgp-instruction-tracing", "rgp-counter-collection",
                   "rgp-shader-instrumentation", "rgp-sqtt-buffer-size"},
   raytracing |-> {"rra-ray-history-buffer-size", "rra-collect-ray-dispatch-data",
                   "rra-delay-ms", "rra-auto-capture", "rra-auto-capture-delay",
                   "rra-marker-capture", "rra-marker-begin", "rra-marker-end"},
   memory     |-> {},
   crash      |-> {"rgd-enhanced", "rgd-text-summary", "rgd-json-summary", "rgd-marker-source",
                   "rgd-expand-markers", "rgd-pdb-search-path", "rgd-pdb-include-subfolders",
                   "rgd-cli-path", "rgd-collect-sgprs", "rgd-collect-vgprs"},
   clocks     |-> {"clock-mode", "gpu-index"},
   general    |-> {"output", "mode", "process", "verbose", "remote-host", "remote-port",
                   "help", "version"},
   blocklist  |-> {"block", "block-file", "list-blocklist"},
   sysinfo    |-> {"system-info"}]

(* The options without arguments, with the values the valued ones default   *)
(* to.                                                                     *)
Defaults ==
  [given |-> {}, mode |-> "profiling", auto |-> [key |-> "", args |-> <<>>],
   autoDelay |-> 0, captureMode |-> "default", renderOps |-> 1, collect |-> TRUE,
   sqtt |-> "default", rayHistory |-> "default", rraDelay |-> 0, rraAutoDelay |-> 0,
   begin |-> "", end |-> "", clock |-> "", gpu |-> 0, host |-> ""]

ParseCaptureMode(word) ==
  CASE word \in {"profiling", "rgp"}  -> "profiling"
    [] word \in {"raytracing", "rra"} -> "raytracing"
    [] word \in {"memory", "rmv"}     -> "memory"
    [] word \in {"crash", "rgd"}      -> "crash"
    [] word = "clocks"                -> "clocks"
    [] OTHER -> "invalid"

(* Flags of a group owned by another mode are refused.                      *)
ValidateModeFlags(cl, mode) ==
  \A m \in Modes \ {mode} : cl.given \cap OptionGroups[m] = {}

ParseRemoteConnection(cl) ==
  IF "remote-host" \in cl.given THEN cl.host # "" ELSE "remote-port" \notin cl.given

------------------------------------------------------------------------------
(* --rgp-auto-capture: a keyword and the segments after it. A segment is a   *)
(* number, or one of these.                                                *)
Blank == -1       \* nothing between two colons
Text == -2        \* not a number

ParseNumber(seg) == seg \in 0 .. UintRange - 1
SegmentOk(seg) == seg = Blank \/ ParseNumber(seg)

kFrameCaptureIndexMinimum == 5
kDispatchStartIndexMinimum == 1
kNumPreparationFrames == 4

FrameIndex(args) ==
  IF args = <<>> THEN kFrameCaptureIndexMinimum ELSE IF args[1] = Blank THEN 0 ELSE args[1]
DispatchStart(args) ==
  IF args = <<>> \/ args[1] = Blank THEN kDispatchStartIndexMinimum ELSE args[1]
DispatchCount(args) ==
  IF Len(args) < 2 \/ args[2] \in {Blank, 0} THEN 1 ELSE args[2]

(* Mutant: an index below the minimum is let through.                       *)
ParseAutoCaptureAnyIndex(auto) ==
  /\ \A k \in 1 .. Len(auto.args) : SegmentOk(auto.args[k])
  /\ \/ auto.key = "frame" /\ Len(auto.args) <= 1
     \/ /\ auto.key = "dispatch" /\ Len(auto.args) <= 2
        /\ DispatchStart(auto.args) >= kDispatchStartIndexMinimum

ParseAutoCapture(auto) ==
  /\ \A k \in 1 .. Len(auto.args) : SegmentOk(auto.args[k])
  /\ \/ /\ auto.key = "frame" /\ Len(auto.args) <= 1
        /\ FrameIndex(auto.args) >= kFrameCaptureIndexMinimum
     \/ /\ auto.key = "dispatch" /\ Len(auto.args) <= 2
        /\ DispatchStart(auto.args) >= kDispatchStartIndexMinimum

------------------------------------------------------------------------------
ParseRgpCaptureMode(word) == word \in {"default", "frame", "draw", "dispatch"}
UsesRenderOps(word) == word \in {"draw", "dispatch"}

(* Unknown sizes fall back to the default.                                  *)
BufferSizes == {"disabled", "minimum", "low", "high", "maximum"}
ParseSqttBufferSize(word) == IF word \in BufferSizes \ {"disabled"} THEN word ELSE "default"
ParseRraBufferSize(word) == IF word \in BufferSizes THEN word ELSE "default"

ParseClockMode(word) ==
  CASE word \in {"normal", "default"} -> "Normal"
    [] word = "stable" -> "Stable"
    [] OTHER -> "Unknown"

ProfilingOk(cl) ==
  /\ "rgp-auto-capture" \in cl.given => ParseAutoCapture(cl.auto)
  /\ ParseRgpCaptureMode(cl.captureMode)
  /\ ~(cl.renderOps = 0 /\ UsesRenderOps(cl.captureMode))

RaytracingOk(cl) ==
  /\ "rra-ray-history-buffer-size" \in cl.given => cl.collect
  /\ "rra-auto-capture-delay" \in cl.given => "rra-auto-capture" \in cl.given
  /\ "rra-marker-capture" \in cl.given => cl.begin # "" /\ cl.end # ""

CrashOk(cl) ==
  cl.given \cap {"rgd-collect-sgprs", "rgd-collect-vgprs"} # {} => "rgd-enhanced" \in cl.given

ClocksOk(cl) == "clock-mode" \in cl.given => ParseClockMode(cl.clock) # "Unknown"

(* ParseCommandLine returns true. --help and --version print and end it.    *)
Accepted(cl) ==
  /\ cl.given \cap {"help", "version"} = {}
  /\ ParseCaptureMode(cl.mode) # "invalid"
  /\ ValidateModeFlags(cl, ParseCaptureMode(cl.mode))
  /\ ParseRemoteConnection(cl)
  /\ ProfilingOk(cl) /\ RaytracingOk(cl) /\ CrashOk(cl) /\ ClocksOk(cl)

(* The CaptureConfig of an accepted command line, as far as the tool's      *)
(* behaviour depends on it.                                                *)
Config(cl) ==
  [mode      |-> ParseCaptureMode(cl.mode),
   auto      |-> IF "rgp-auto-capture" \in cl.given THEN cl.auto.key ELSE "none",
   frame     |-> IF "rgp-auto-capture" \in cl.given /\ cl.auto.key = "frame"
                 THEN FrameIndex(cl.auto.args) ELSE 0,
   start     |-> IF cl.auto.key = "dispatch" THEN DispatchStart(cl.auto.args)
                                             ELSE kDispatchStartIndexMinimum,
   count     |-> IF cl.auto.key = "dispatch" THEN DispatchCount(cl.auto.args) ELSE 1,
   delay     |-> cl.autoDelay,
   rgpMode   |-> cl.captureMode,
   renderOps |-> cl.renderOps,
   sqtt      |-> ParseSqttBufferSize(cl.sqtt),
   rayHistory |-> IF cl.collect THEN ParseRraBufferSize(cl.rayHistory) ELSE "disabled",
   rraAuto   |-> "rra-auto-capture" \in cl.given,
   rraDelay  |-> cl.rraDelay,
   marker    |-> "rra-marker-capture" \in cl.given,
   clock     |-> IF "clock-mode" \in cl.given THEN ParseClockMode(cl.clock) ELSE "Unknown",
   gpu       |-> cl.gpu,
   info      |-> cl.given \cap {"list-blocklist", "system-info"} # {}]

------------------------------------------------------------------------------
(* What becomes of the trigger on its way to the driver.                    *)

(* ConfigureProfilingAutoCapture and TraceSourceAdapter::ConfigureRgp: a     *)
(* delay makes a timer of a dispatch capture.                              *)
AutoCaptureMode(config) ==
  CASE config.auto = "frame" -> "FrameIndex"
    [] config.auto = "dispatch" /\ config.delay > 0 -> "Timer"
    [] config.auto = "dispatch" /\ config.delay = 0 -> "DispatchIndices"
    [] OTHER -> "None"

(* RgpUbertraceClient::GenerateController, in uint32_t.                     *)
PrepStartIndex(config) ==
  IF AutoCaptureMode(config) = "FrameIndex"
  THEN (config.frame - kNumPreparationFrames - 1) % UintRange
  ELSE config.start

(* IsAutoCaptureMode.                                                      *)
IsAutoCaptureMode(config) ==
  config.auto # "none" \/ (config.mode = "raytracing" /\ config.rraAuto)
==============================================================================
