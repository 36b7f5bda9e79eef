--------------------------------- MODULE Parts ---------------------------------
(***************************************************************************)
(* Parts of the panel that share no state, side by side: the matcher of        *)
(* wildcards, the support for a system, the connection to a router, the two   *)
(* clients that use no UberTrace, crash analysis, the single instance, the     *)
(* profiling panel and its counters. Each is an instance of its module, over  *)
(* variables and bounds of its own. The options of the command line are       *)
(* extended.                                                               *)
(***************************************************************************)
EXTENDS CommandLine

CONSTANTS
  MatchNames, MatchPatterns,          \* Wildcard
  Infos, Overrides, Down, Unreadable, \* Support
  MaxClicks,                          \* ConnectionModel
  Users, Driver,                      \* RmvClient
  MaxCaptures,                        \* RgpLegacyClient
  MaxRequests, IteratorsFail,         \* CrashAnalysis
  Processes, AccountOf,               \* SingleInstance
  PanelConnections, ModesOf, CancelSupported, MaxActs, MaxQueue,  \* CapturePanel
  SpmGpus, HardwareOf(_, _), HashOrders(_), RdfTraces, LegacyTraces, MaxTraces  \* SpmCounters

(* What a router tells of a system has the fields the sources read; the two     *)
(* numbers of a driver's version are uint32_t.                              *)
ASSUME InfosAssumption ==
  /\ Down # Unreadable /\ Down \notin Infos /\ Unreadable \notin Infos
  /\ \A info \in Infos :
       /\ info = [os |-> info.os, driver |-> info.driver, drivers |-> info.drivers, gpus |-> info.gpus]
       /\ \A d \in {info.driver} \cup info.drivers :
            d[1] \in 0 .. UintRange - 1 /\ d[2] \in 0 .. UintRange - 1

VARIABLE cl                                                                   \* a command line
VARIABLES matchName, matchPattern, nameAt, patternAt, starPattern, starName,  \* Wildcard
          matchResult
VARIABLES router, heard, reason, apis, rgd, rgp, rra, client                  \* Support
VARIABLES conn, type, should, reconnecting, disabled, tool, held, thread,     \* ConnectionModel
          link, signals, widget, clicks, overtaken
VARIABLES trace, state, postInit, call, reports, left, raced, faulty          \* RmvClient
VARIABLES legacy, gpuOk, user, timer, capture, stop, aborted, abortSpm,       \* RgpLegacyClient
          asked, askedSpm, ending, outcomes, begun
VARIABLES ubertrace, process, requested, collected, driver, dumping, crash,   \* CrashAnalysis
          transfer, added, chunks, dump, queue, completed, wanted, analyser,
          worker, working, summary, accessory, opened, requests
VARIABLES posix, service, exists, attached, account, started, named, holders, \* SingleInstance
          owner, at, another, told
VARIABLES connected, statuses, completions, delivering, shownStatus, target,  \* CapturePanel
          modes, captureMode, captureDefaults, delay, delaying, delayTimer, panelGui, panelSignals,
          view, expected, captured, acts
VARIABLES spmContext, spmGpu, spmHardware, spmAt, spmRdf, spmTrace, spmOrder, \* SpmCounters
          spmChunks, spmHandles, spmResult, spmAbort, spmFailed, spmAsked, spmCompleted, spmCount

Wc == INSTANCE Wildcard WITH Names <- MatchNames, Patterns <- MatchPatterns,
        name <- matchName, pattern <- matchPattern, n <- nameAt, p <- patternAt,
        starP <- starPattern, starN <- starName, result <- matchResult
Su == INSTANCE Support WITH pending <- heard, filter <- apis
Cn == INSTANCE ConnectionModel WITH router <- tool, pc <- thread
Rm == INSTANCE RmvClient WITH pc <- call, gone <- left
Rg == INSTANCE RgpLegacyClient WITH state <- legacy, reports <- outcomes, driver <- ending
Cr == INSTANCE CrashAnalysis WITH client <- driver, state <- dumping, reports <- completed, tool <- analyser
Si == INSTANCE SingleInstance WITH flag <- started, pc <- at
Cp == INSTANCE CapturePanel WITH Connections <- PanelConnections,
        client <- connected, thread <- delivering, current <- shownStatus, mode <- captureMode,
        defaults <- captureDefaults, timer <- delayTimer, gui <- panelGui, signals <- panelSignals,
        wanted <- expected, begun <- captured
Sp == INSTANCE SpmCounters WITH Gpus <- SpmGpus, Orders <- HashOrders,
        context <- spmContext, gpu <- spmGpu, hardware <- spmHardware, pc <- spmAt, rdf <- spmRdf, trace <- spmTrace,
        order <- spmOrder, chunks <- spmChunks, handles <- spmHandles, result <- spmResult, abort <- spmAbort,
        failed <- spmFailed, asked <- spmAsked, completed <- spmCompleted, count <- spmCount

(* Names and patterns are made of the characters that have a code.            *)
ASSUME MatchAssumption == MatchNames \subseteq Seq(Wc!Chars) /\ MatchPatterns \subseteq Seq(Wc!Chars)

(* An architecture is a number, GPA lists the hardware counters of a derived     *)
(* counter, and a hash map is run through with each counter once.               *)
ASSUME CountersAssumption ==
  \A g \in SpmGpus :
    LET counters == Sp!Range(Sp!DefaultCounters(g))
    IN /\ g \in Nat
       /\ \A c \in counters : DOMAIN HardwareOf(g, c.name) \subseteq Nat
       /\ \A o \in HashOrders(counters) :
            /\ o \in Seq(counters) /\ Sp!Range(o) = counters
            /\ \A j, k \in DOMAIN o : o[j] = o[k] => j = k

------------------------------------------------------------------------------
(* MatchesWildcard answers what the pattern language means, though of several  *)
(* stars it remembers the last one only (ApiBlocklist::MatchesWildcard).       *)
MatchesWhatItMeans == Wc!MatchesWhatItMeans

(* An automatic capture the parser accepts has a trigger that comes: the     *)
(* first frame of the preparation is not below zero, which in uint32_t is a  *)
(* frame never reached, and dispatches count from one.                      *)
AcceptedTriggersFire ==
  Accepted(cl) =>
    /\ AutoCaptureMode(Config(cl)) = "FrameIndex" =>
         PrepStartIndex(Config(cl)) + kNumPreparationFrames + 1 = Config(cl).frame
    /\ AutoCaptureMode(Config(cl)) = "DispatchIndices" =>
         PrepStartIndex(Config(cl)) >= 1 /\ Config(cl).count >= 1

(* What a trace source and its clients may do is what their own system can,    *)
(* not what an earlier one could, and no less with a newer driver              *)
(* (RouterConnectionStatusChanged).                                           *)
SupportFits == Su!SupportFits

(* When nothing is queued, the buttons are those of the model's connection,    *)
(* whatever was clicked, failed or lost on the way (ConnectionModel).         *)
WidgetFollows == Cn!WidgetFollows

(* A memory trace has one report: not two, and not none when the application   *)
(* is gone and nobody interfered (RmvClient).                                *)
ReportedOnce == Rm!ReportedOnce

(* The legacy profiling client reports an abort only where one was asked for. *)
AbortedWasAsked == Rg!AbortedWasAsked

(* A crash has one report, a completed dump all of its parts, and a summary      *)
(* opened at its end is whole (DumpCrash, OnSummaryEventCallback).             *)
CrashFilesHold == Cr!CrashHasItsFile /\ Cr!OpenedIsValid

(* Two panels that run at once: one of them read a member nobody had set        *)
(* (SingleApplicationInstance).                                              *)
OneInstance == Si!OneInstance

(* A capture begins only of a connection and in a mode the user asked for and  *)
(* has not cancelled since (ProfilingViewModel::RequestBeginTrace).           *)
BegunWasWanted == Cp!BegunWasWanted

(* A profile reported as complete, of a file that could be written, reads back  *)
(* as the derived counters of its GPU, with their own samples, components and    *)
(* groups (SerializeChunkDerivedSpmDb, AppendChunks).                         *)
CountersReadBack == Sp!CountersReadBack
==============================================================================
