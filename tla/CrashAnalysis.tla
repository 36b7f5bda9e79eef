---------------------------- MODULE CrashAnalysis ----------------------------
(***************************************************************************)
(* The analysis of a crash, from the driver's trace to the summaries the     *)
(* panel opens.                                                            *)
(*                                                                         *)
(* The driver's thread runs the client (RgdClient): when the application     *)
(* goes and crashed, what the driver recorded is written to a file, to which  *)
(* the panel's own chunks are appended. The completion thread tells the      *)
(* listeners of the result: the trace source first, which has a tool write   *)
(* the summaries of the file, then the panel. The user has summaries         *)
(* written, too, in the user interface's thread. work_mutex_ lets one of the   *)
(* two in at a time. Nothing sets abort_processing_supported, so nobody asks  *)
(* for the end of a summary (RequestAbortProcessing).                       *)
(***************************************************************************)
EXTENDS Naturals, Sequences, SequencesExt

CONSTANTS
  MaxRequests,     \* bound: what the user asks for
  IteratorsFail    \* librdf may fail to make an iterator

Workers == {"completion", "gui"}
Kinds == {"txt", "json"}

VARIABLES
  ubertrace,   \* whether the client has an RgdUbertraceClient
  process,     \* whether the path of the process is known (process_info_chunk_)
  requested,   \* the code objects were asked for (RequestBeginTrace)
  collected,   \* and are in the wrapper's data_
  client,      \* where the driver's thread is in the client
  state,       \* the client's state
  crash,       \* did_detect_crash
  transfer,    \* whether TransferTraceData goes well
  added,       \* additional_chunk_result
  chunks,      \* what was written to the file
  dump,        \* whether the file exists
  queue,       \* trace_completion_event_queue_
  reports,     \* what TraceCompleted was called with
  wanted,      \* generate_text_summary, generate_json_summary
  tool,        \* the analyser named in the settings: "none", "missing", "there"
  worker,      \* each thread: where it is in QueueSummaryGenerationInternal, and what it has
  working,     \* work_mutex_
  summary,     \* the files of the summaries: "absent", "partial", "valid"
  accessory,   \* accessory_info_
  opened,      \* the state of the files the end of a summary opened
  requests     \* what the user asked for so far

dumpVars == <<requested, collected, client, state, crash, transfer, added, chunks, reports>>
summaryVars == <<working, summary, opened>>
vars == <<ubertrace, process, dumpVars, dump, queue, wanted, tool, worker, summaryVars, accessory, requests>>

None == "none"
Idle == [at |-> None]

Init ==
  /\ ubertrace \in BOOLEAN /\ process \in BOOLEAN
  /\ requested = FALSE /\ collected = FALSE
  /\ client = None /\ state = "Idle" /\ crash = FALSE
  /\ transfer = TRUE /\ added = "unset" /\ chunks = {} /\ dump = FALSE
  /\ queue = <<>> /\ reports = <<>>
  /\ wanted \in SUBSET Kinds /\ tool \in {"none", "missing", "there"}
  /\ worker = [w \in Workers |-> Idle] /\ working = None
  /\ summary = [k \in Kinds |-> "absent"]
  /\ accessory = "none" /\ opened = {} /\ requests = 0

------------------------------------------------------------------------------
(* RgdClient. Initialize enables UberTrace, hardware crash analysis and        *)
(* tracing, each of which may fail; the source then drops the client.         *)
Initialize(ok) ==
  /\ client = None
  /\ client' = IF ok THEN "capturing" ELSE "dropped"
  /\ state' = IF ok THEN "Capturing" ELSE "Error"
  /\ UNCHANGED <<ubertrace, process, requested, collected, crash, transfer, added, chunks, reports,
                 dump, queue, wanted, tool, worker, summaryVars, accessory, requests>>

(* HandleDriverState: the trace of the code objects begins when the            *)
(* application runs. If that fails, the client goes on.                      *)
HandleDriverState(ok) ==
  /\ client = "capturing" /\ ubertrace /\ ~requested /\ state # "Error"
  /\ requested' = ok
  /\ state' = IF ok THEN state ELSE "Error"
  /\ UNCHANGED <<ubertrace, process, collected, client, crash, transfer, added, chunks, reports,
                 dump, queue, wanted, tool, worker, summaryVars, accessory, requests>>

(* Disconnect: EndTracing tells of a crash, unless it fails. The disconnecting  *)
(* UberTrace client collects what was asked for, or does not.                *)
Disconnect(crashed, got) ==
  /\ client = "capturing"
  /\ got => requested
  /\ crash' = crashed /\ collected' = got
  /\ client' = IF crashed THEN "dump" ELSE "gone"
  /\ state' = IF crashed THEN state ELSE "Done"
  /\ accessory' = IF crashed THEN accessory ELSE "no crash"     \* PostNoCrashDetectedEvent
  /\ UNCHANGED <<ubertrace, process, requested, transfer, added, chunks, reports,
                 dump, queue, wanted, tool, worker, summaryVars, requests>>

(* TransferTraceData of DumpCrash, as its heartbeats. BeginWriting shows the   *)
(* dumping. A transfer that cannot begin may end without a last heartbeat.    *)
HandleIoBegin(ok) ==
  /\ client = "dump"
  /\ state' = "Dumping" /\ dump' = ok /\ transfer' = ok
  /\ IF ok THEN client' = "writing" ELSE client' \in {"ending", "ended"}
  /\ UNCHANGED <<ubertrace, process, requested, collected, crash, added, chunks, reports,
                 queue, wanted, tool, worker, summaryVars, accessory, requests>>

HandleIoWrite(ok) ==
  /\ client = "writing"
  /\ transfer' = ok
  /\ chunks' = IF ok THEN chunks \cup {"crash"} ELSE chunks
  /\ client' = "ending"
  /\ UNCHANGED <<ubertrace, process, requested, collected, state, crash, added, reports,
                 dump, queue, wanted, tool, worker, summaryVars, accessory, requests>>

(* HandleIoEnd has the panel's chunks appended, whatever the result of the    *)
(* transfer, and closes the stream. AdditionalChunkWriter::Write stops at the  *)
(* first chunk that fails. The chunks of the code objects need data to read.  *)
Additional ==
  (IF process THEN <<"process">> ELSE <<>>) \o <<"extended">> \o (IF ubertrace THEN <<"code">> ELSE <<>>)

(* How many of the chunks can be written, and the results that may have.      *)
Written == IF ~dump THEN {0} ELSE IF ubertrace /\ ~collected THEN 0 .. Len(Additional) - 1 ELSE 0 .. Len(Additional)

(* Without an iterator, RgdUbertraceClient::Write goes on with one that was    *)
(* not set.                                                                *)
Results(count) ==
  IF count = Len(Additional) THEN {"Success"}
  ELSE IF IteratorsFail /\ collected /\ count = Len(Additional) - 1 THEN {"Success", "Failure"}
  ELSE {"Failure"}

HandleIoEnd(count) ==
  /\ client = "ending"
  /\ count \in Written
  /\ chunks' = chunks \cup {Additional[i] : i \in 1 .. count}
  /\ added' \in Results(count)
  /\ client' = "ended"
  /\ UNCHANGED <<ubertrace, process, requested, collected, state, crash, transfer, reports,
                 dump, queue, wanted, tool, worker, summaryVars, accessory, requests>>

Report(status) ==
  /\ client = "ended"
  /\ state' = "Done" /\ client' = "gone"
  /\ queue' = Append(queue, status) /\ reports' = Append(reports, status)
  /\ UNCHANGED <<ubertrace, process, requested, collected, crash, transfer, added, chunks,
                 dump, wanted, tool, worker, summaryVars, accessory, requests>>

(* Mutant: only the transfer decides.                                       *)
DumpCrashTransferOnly == Report(IF transfer THEN "Completed" ELSE "Error")

(* The end of DumpCrash, and of Disconnect.                                  *)
DumpCrash == Report(IF transfer /\ added = "Success" THEN "Completed" ELSE "Error")

------------------------------------------------------------------------------
(* The completion thread: OnTraceCompleted of the source, then the panel's.   *)
Job(kinds, manual) == [at |-> "queued", kinds |-> kinds, manual |-> manual, failed |-> FALSE, paths |-> {}]

Move(w, job) == worker' = [worker EXCEPT ![w] = job]
At(w, pc) == worker[w].at = pc
Step(w, pc) == Move(w, [worker[w] EXCEPT !.at = pc])

OnTraceCompleted ==
  /\ At("completion", None) /\ queue # <<>>
  /\ queue' = Tail(queue)
  /\ Move("completion", IF Head(queue) = "Completed" /\ wanted # {} THEN Job(wanted, FALSE)
                        ELSE [at |-> "tell", status |-> Head(queue)])
  /\ UNCHANGED <<ubertrace, process, dumpVars, dump, wanted, tool, summaryVars, accessory, requests>>

(* TraceSourceViewModel::TraceCompleted: a file that failed is removed.       *)
TraceCompleted ==
  /\ At("completion", "tell")
  /\ dump' = (dump /\ worker["completion"].status = "Completed")
  /\ Move("completion", Idle)
  /\ UNCHANGED <<ubertrace, process, dumpVars, queue, wanted, tool, summaryVars, accessory, requests>>

------------------------------------------------------------------------------
(* QueueSummaryGenerationInternal. Mutant: work_mutex_ is not taken.          *)
PerformProcessingUnlocked(w) ==
  /\ At(w, "queued")
  /\ working' = w
  /\ Step(w, "check")
  /\ UNCHANGED <<ubertrace, process, dumpVars, dump, queue, wanted, tool, summary, opened, accessory, requests>>

PerformProcessing(w) ==
  /\ At(w, "queued") /\ working = None
  /\ working' = w
  /\ Step(w, "check")
  /\ UNCHANGED <<ubertrace, process, dumpVars, dump, queue, wanted, tool, summary, opened, accessory, requests>>

(* GenerateSummaries: without the file or the tool it names no summary; what   *)
(* it returns is then told to nobody.                                        *)
GenerateSummaries(w) ==
  /\ At(w, "check")
  /\ IF dump /\ tool = "there" THEN Step(w, IF "txt" \in worker[w].kinds THEN "txt" ELSE "json")
     ELSE Move(w, [worker[w] EXCEPT !.at = "done", !.failed = TRUE])
  /\ UNCHANGED <<ubertrace, process, dumpVars, dump, queue, wanted, tool, summaryVars, accessory, requests>>

(* RunProcess starts the tool, which is under way until it ends.              *)
Running == [txt |-> "running txt", json |-> "running json"]

RunProcess(w, k) ==
  /\ At(w, k)
  /\ summary' = [summary EXCEPT ![k] = "partial"]
  /\ Move(w, [worker[w] EXCEPT !.at = Running[k], !.paths = @ \cup {k}])
  /\ UNCHANGED <<ubertrace, process, dumpVars, dump, queue, wanted, tool, working, opened, accessory, requests>>

(* Its exit code and DetermineResult: one result stands for both files.       *)
DetermineResult(w, k, left) ==
  /\ At(w, Running[k])
  /\ summary' = [summary EXCEPT ![k] = left]
  /\ Move(w, [worker[w] EXCEPT !.failed = @ \/ left # "valid",
                               !.at = IF k = "txt" /\ "json" \in worker[w].kinds THEN "json" ELSE "post txt"])
  /\ UNCHANGED <<ubertrace, process, dumpVars, dump, queue, wanted, tool, working, opened, accessory, requests>>

(* PostSummaryEvent, and the panel's OnSummaryEventCallback: a failure removes *)
(* the file it is told of, a summary the user asked for is opened.            *)
Posting == [txt |-> "post txt", json |-> "post json"]

OnSummaryEvent(w, k) ==
  /\ At(w, Posting[k])
  /\ Step(w, IF k = "txt" THEN "post json" ELSE "done")
  /\ IF k \notin worker[w].paths THEN UNCHANGED <<summary, opened, accessory>>
     ELSE /\ summary' = IF worker[w].failed THEN [summary EXCEPT ![k] = "absent"] ELSE summary
          /\ opened' = IF worker[w].manual /\ ~worker[w].failed THEN opened \cup {summary[k]} ELSE opened
          /\ accessory' = IF worker[w].failed THEN "error" ELSE "none"
  /\ UNCHANGED <<ubertrace, process, dumpVars, dump, queue, wanted, tool, working, requests>>

FinishProcessing(w) ==
  /\ At(w, "done")
  /\ working' = IF working = w THEN None ELSE working
  /\ Move(w, IF worker[w].manual THEN Idle ELSE [at |-> "tell", status |-> "Completed"])
  /\ UNCHANGED <<ubertrace, process, dumpVars, dump, queue, wanted, tool, summary, opened, accessory, requests>>

------------------------------------------------------------------------------
(* The user, with the list of files, once the stream is closed. The thread     *)
(* stays in a summary until it is over.                                      *)
User == /\ At("gui", None) /\ requests < MaxRequests
        /\ dump /\ client = "gone"
        /\ requests' = requests + 1

(* OpenFile opens a summary that is there, whoever wrote it.                  *)
OpenFile ==
  /\ User
  /\ IF summary["txt"] # "absent" THEN UNCHANGED <<worker, accessory>>
     ELSE Move("gui", Job({"txt"}, TRUE)) /\ accessory' = "none"
  /\ UNCHANGED <<ubertrace, process, dumpVars, dump, queue, wanted, tool, summaryVars>>

QueueSummaryGeneration(k) ==
  /\ User
  /\ Move("gui", Job({k}, TRUE)) /\ accessory' = "none"
  /\ UNCHANGED <<ubertrace, process, dumpVars, dump, queue, wanted, tool, summaryVars>>

(* RemovedFile: a file the tool has open stays.                               *)
RemovedFile ==
  /\ User
  /\ dump' = FALSE
  /\ summary' = [k \in Kinds |-> IF \E w \in Workers : At(w, Running[k]) THEN summary[k] ELSE "absent"]
  /\ UNCHANGED <<ubertrace, process, dumpVars, queue, wanted, tool, worker, working, opened, accessory>>

------------------------------------------------------------------------------
Next ==
  \/ \E ok \in BOOLEAN : Initialize(ok) \/ HandleDriverState(ok) \/ HandleIoBegin(ok) \/ HandleIoWrite(ok)
  \/ \E crashed, got \in BOOLEAN : Disconnect(crashed, got)
  \/ \E count \in 0 .. 3 : HandleIoEnd(count)
  \/ DumpCrash \/ OnTraceCompleted \/ TraceCompleted
  \/ \E w \in Workers : PerformProcessing(w) \/ GenerateSummaries(w) \/ FinishProcessing(w)
  \/ \E w \in Workers, k \in Kinds :
       \/ RunProcess(w, k) \/ OnSummaryEvent(w, k)
       \/ \E left \in {"absent", "partial", "valid"} : DetermineResult(w, k, left)
  \/ OpenFile \/ RemovedFile
  \/ \E k \in Kinds : QueueSummaryGeneration(k)

Spec == Init /\ [][Next]_vars

------------------------------------------------------------------------------
(* A crash the driver tells of has one report, and a file reported as          *)
(* completed holds all of its parts, whichever write, chunk or collection      *)
(* failed on the way. Without a crash nothing is reported.                    *)
CrashHasItsFile ==
  client = "gone" =>
    /\ Len(reports) = IF crash THEN 1 ELSE 0
    /\ "Completed" \in Range(reports) => chunks = {"crash"} \cup Range(Additional)

(* What the end of a summary opens is the whole summary, though the other      *)
(* thread may have another one of the same file written or removed.           *)
OpenedIsValid == opened \subseteq {"valid"}

(* A summary that could not be had is told to the user.                        *)
FailureIsTold == \A w \in Workers : At(w, "done") /\ worker[w].failed => accessory = "error"

(* A summary that was written stays, though the other of the two failed.        *)
GoodSummaryKept ==
  [][\A k \in Kinds : summary[k] = "valid" /\ summary'[k] = "absent" =>
       dump' = FALSE \/ \E w \in Workers : At(w, k)]_vars
==============================================================================
