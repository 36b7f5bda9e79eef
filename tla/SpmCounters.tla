------------------------------ MODULE SpmCounters ------------------------------
(***************************************************************************)
(* Derived SPM counters of a profile: GpaSpmCounterHandler, the writers of   *)
(* rgp_derived_spm_database and OnTraceCompletedWithSpm of the RGP source.    *)
(*                                                                         *)
(* Before a capture the hardware counters of the default counters are looked *)
(* up in GPA; after it the counters are computed from the trace and appended *)
(* to its file, in one chunk of a legacy file or in many of an RDF file.       *)
(* Counters refer to each other by indices in the file. GPA, the builder of    *)
(* the derived database and RDF are libraries: each call may fail.            *)
(***************************************************************************)
EXTENDS Integers, Sequences, FiniteSets, Functions

CONSTANTS
  Gpus,             \* architectures of the GPUs captured: 1 .. 4 for RDNA 1 to 4, 0 for an older one
  HardwareOf(_, _), \* GPA: the hardware counters of a derived counter on an architecture, in order
  Orders(_),        \* the orders in which a hash map of counters may be run through
  RdfTraces,        \* what RDF files hold of the capture
  LegacyTraces,     \* what legacy files hold of it
  MaxTraces         \* bound: captures

None == "None"
Closed == -1

VARIABLES
  context,    \* gpa_counter_context_: the architecture it is open for
  gpu,        \* the GPU captured
  hardware,   \* hardware_counters of the query
  pc,         \* "idle", "captured", "load", "build", "append", "end", "done"
  rdf, trace, \* the file: is_rdf, what was captured
  order,      \* the derived database, in the order its Counters() is run through
  chunks,     \* the derived chunks of the file
  handles,    \* RDF objects that are open
  result,     \* of AppendChunkDerivedSpmDb: kRgpFileWriterStatusOk
  abort,      \* abort_spm_processing_
  failed,     \* history: what failed in this capture
  asked,      \* history: an abort came while it was processed
  completed,  \* the status TraceCompleted was called with
  count       \* captures so far

file == <<rdf, trace, chunks, handles>>
vars == <<context, gpu, hardware, pc, file, order, result, abort, failed, asked, completed, count>>

------------------------------------------------------------------------------
(* DefaultCounters. A name is a pair, of the cache level and the rest; a       *)
(* counter has a display name, which is not unique, and its components.        *)

Counter(n, shown, parts) == [name |-> n, display |-> shown, components |-> parts]
Plain(n) == <<"", n>>
Simple(n) == Counter(Plain(n), n, <<>>)
Of(n, cycles) == Counter(Plain(n), n, <<Plain("GPUBusyCycles"), Plain(cycles)>>)

CacheCount(l, n) == Counter(<<l, n>>, n, <<>>)
CacheCounters(l) ==
  <<Counter(<<l, "Hit">>, l, <<<<l, "RequestCount">>, <<l, "HitCount">>, <<l, "MissCount">>>>),
    CacheCount(l, "RequestCount"), CacheCount(l, "HitCount"), CacheCount(l, "MissCount")>>

RayCounters == <<Simple("RayBoxTests"), Simple("RayTriTests")>>
LdsCounters ==
  <<Of("CSLDSBankConflict", "CSLDSBankConflictCycles"), Simple("GPUBusyCycles"), Simple("CSLDSBankConflictCycles")>>
MemoryCounters(arch) ==
  <<Of("MemUnitBusy", "MemUnitBusyCycles"), Of("MemUnitStalled", "MemUnitStalledCycles"),
    Simple("MemUnitBusyCycles"), Simple("MemUnitStalledCycles")>>
    \o (IF arch >= 4 THEN <<Of("WriteUnitStalled", "WriteUnitStalledCycles"), Simple("WriteUnitStalledCycles")>> ELSE <<>>)
    \o <<Simple("FetchSize"), Simple("WriteSize"), Simple("LocalVidMemBytes"), Simple("PcieBytes")>>

DefaultCounters(arch) ==
  IF arch < 1 THEN <<>>
  ELSE CacheCounters("Inst") \o CacheCounters("Scalar") \o CacheCounters("L0")
         \o (IF arch = 4 THEN <<>> ELSE CacheCounters("L1")) \o CacheCounters("L2") \o RayCounters
         \o (IF arch < 3 THEN <<>> ELSE LdsCounters \o MemoryCounters(arch))

Group(n, members) == [name |-> n, members |-> members]
Hit(l) == <<l, "Hit">>
CacheGroup(arch) ==
  Group("Cache", IF arch = 4 THEN <<Hit("Inst"), Hit("Scalar"), Hit("L0"), Hit("L2")>>
                 ELSE <<Hit("Inst"), Hit("Scalar"), Hit("L0"), Hit("L1"), Hit("L2")>>)
RayGroup == Group("Ray tracing", <<Plain("RayBoxTests"), Plain("RayTriTests")>>)
LdsGroup == Group("LDS", <<Plain("CSLDSBankConflict")>>)
PercentGroup(arch) ==
  Group("Memory (%)", IF arch >= 4 THEN <<Plain("MemUnitBusy"), Plain("MemUnitStalled"), Plain("WriteUnitStalled")>>
                      ELSE <<Plain("MemUnitBusy"), Plain("MemUnitStalled")>>)
BytesGroup ==
  Group("Memory (bytes)", <<Plain("FetchSize"), Plain("WriteSize"), Plain("LocalVidMemBytes"), Plain("PcieBytes")>>)

DefaultGroups(arch) ==
  IF arch < 1 THEN <<>>
  ELSE IF arch < 3 THEN <<CacheGroup(arch), RayGroup>>
  ELSE <<CacheGroup(arch), RayGroup, LdsGroup, PercentGroup(arch), BytesGroup>>

------------------------------------------------------------------------------
(* QuerySpmCounters: the hardware counters of every derived counter, without   *)
(* timing counters, each once. A context that could not be closed is used      *)
(* again, whatever GPU it is for.                                           *)

(* The list is a function of the place each counter was found at.                *)
AddHardwareCounters(found) ==
  LET before(p, q) == p[1] < q[1] \/ (p[1] = q[1] /\ p[2] < q[2])
      added == {q \in DOMAIN found : ~found[q].timing /\ \A p \in DOMAIN found : before(p, q) => found[p] # found[q]}
  IN  [p \in added |-> found[p]]

HardwareCounters(arch, counters) ==
  LET places == UNION {{<<k, j>> : j \in DOMAIN HardwareOf(arch, counters[k].name)} : k \in DOMAIN counters}
  IN  AddHardwareCounters([p \in places |-> HardwareOf(arch, counters[p[1]].name)[p[2]]])

Query(g) ==
  /\ pc \in {"idle", "done"} /\ count < MaxTraces /\ count' = count + 1
  /\ \E opens, closes \in BOOLEAN :
       LET used == IF context = Closed THEN g ELSE context
       IN  IF context = Closed /\ ~opens
           THEN pc' = "idle" /\ UNCHANGED <<context, hardware, failed>>
           ELSE /\ context' = IF closes THEN Closed ELSE used
                /\ hardware' = HardwareCounters(used, DefaultCounters(g))
                /\ failed' = IF used = g THEN {} ELSE {"close"}
                /\ pc' = "captured"
  /\ gpu' = g /\ rdf' = FALSE /\ trace' = None
  /\ chunks' = <<>> /\ handles' = {} /\ result' = FALSE /\ asked' = FALSE /\ completed' = None
  /\ UNCHANGED <<order, abort>>

(* RequestAbortProcessing: the flag is set, whatever goes on. It is an operation *)
(* of the trace source, though no status yet offers it to a user              *)
(* (abort_processing_supported is never set).                                *)
RequestAbortProcessing ==
  /\ abort' = TRUE /\ asked' = (asked \/ pc \notin {"idle", "captured", "done"})
  /\ UNCHANGED <<context, gpu, hardware, pc, file, order, result, failed, completed, count>>

------------------------------------------------------------------------------
(* AppendChunkDerivedSpmDb: reading the trace.                               *)

(* The asic chunk of an RDF file has one of two versions and its size; the    *)
(* samples are of two or four bytes, and as many as there are timestamps.      *)
DeserializeChunkAsicInfo(t) == t.asic \in {2, 3} /\ t.asicFits
LoadRawSpmRdf(t) == t.fits /\ \A k \in DOMAIN t.sizes : t.sizes[k] \in {2, 4}
RdfReadable(t) == DeserializeChunkAsicInfo(t) /\ t.session /\ LoadRawSpmRdf(t)

(* The first chunk of a type, looked for from chunk to chunk; one smaller than  *)
(* its header ends the search.                                             *)
GetPointerToFirstChunkWithType(t, type) ==
  \E k \in DOMAIN t.chunks :
    /\ t.chunks[k] = [type |-> type, whole |-> TRUE]
    /\ \A j \in 1 .. k - 1 : t.chunks[j].whole /\ t.chunks[j].type # type

(* Versions below 1.2 are not read; those below 2.0 have samples of two bytes. *)
LoadRawSpmLegacy(t) ==
  CASE t.version[1] >= 2 -> \A k \in DOMAIN t.sizes : t.sizes[k] \in {2, 4}
    [] t.version[1] = 1 -> t.version[2] >= 2
    [] OTHER -> FALSE
LegacyReadable(t) ==
  GetPointerToFirstChunkWithType(t, "asic") /\ GetPointerToFirstChunkWithType(t, "spm") /\ LoadRawSpmLegacy(t)

(* What was computed is gone with the call.                                   *)
End(ok) == pc' = "end" /\ result' = ok /\ order' = <<>>

(* OnTraceCompletedWithSpm, with the file captured, which the UberTrace client *)
(* has as RDF: an abort that came before is forgotten. The hardware counters     *)
(* have been with the driver and are not read again.                          *)
OnTraceCompletedWithSpm ==
  /\ pc = "captured" /\ pc' = "load" /\ abort' = FALSE /\ hardware' = <<>>
  /\ rdf' \in BOOLEAN /\ trace' \in IF rdf' THEN RdfTraces ELSE LegacyTraces
  /\ UNCHANGED <<context, gpu, chunks, handles, order, result, failed, asked, completed, count>>

(* The stream or a library call fails, the trace cannot be read, or GPA has no *)
(* context, which only the RDF reader looks at: cleanup, and an error.          *)
LoadRdf ==
  /\ pc = "load" /\ rdf
  /\ \E calls, opens \in BOOLEAN :
       IF calls /\ RdfReadable(trace) /\ opens
       THEN pc' = "build" /\ handles' = {"stream", "file"} /\ UNCHANGED <<order, result, failed>>
       ELSE /\ End(FALSE) /\ handles' = {}
            /\ failed' = failed \cup (IF calls /\ opens THEN {"trace"} ELSE {"load"})
  /\ UNCHANGED <<context, gpu, hardware, rdf, trace, chunks, abort, asked, completed, count>>

LoadLegacy ==
  /\ pc = "load" /\ ~rdf
  /\ \E calls, opens \in BOOLEAN :
       IF calls /\ LegacyReadable(trace)
       THEN pc' = "build" /\ UNCHANGED <<order, result>> /\ failed' = failed \cup (IF opens THEN {} ELSE {"context"})
       ELSE End(FALSE) /\ failed' = failed \cup (IF calls THEN {"trace"} ELSE {"load"})
  /\ UNCHANGED <<context, gpu, hardware, file, abort, asked, completed, count>>

(* DerivedFromRawSpmBuilder: a component or a member has to be one of the      *)
(* counters. Its database is a hash map: the order is any.                     *)
Resolves(counters, groups) ==
  LET names == {c.name : c \in Range(counters)}
  IN  /\ \A c \in Range(counters) : Range(c.components) \subseteq names
      /\ \A k \in DOMAIN groups : Range(groups[k].members) \subseteq names

(* A build that fails returns without cleanup.                              *)
Build ==
  /\ pc = "build"
  /\ \E ok \in BOOLEAN :
       IF ok /\ "context" \notin failed /\ Resolves(DefaultCounters(gpu), DefaultGroups(gpu))
       THEN order' \in Orders(Range(DefaultCounters(gpu))) /\ pc' = "append" /\ UNCHANGED <<result, failed>>
       ELSE End(FALSE) /\ failed' = failed \cup (IF ok THEN {} ELSE {"build"})
  /\ UNCHANGED <<context, gpu, hardware, file, abort, asked, completed, count>>

------------------------------------------------------------------------------
(* Writing the database. Samples are told apart by the counter they are of.    *)
(* A table holds the counters at some of the places of the order, each at an     *)
(* index that counts those before it.                                        *)

NamesOf(cs) == {cs[k].name : k \in DOMAIN cs}
PlaceOf(cs, n) == CHOOSE k \in DOMAIN cs : cs[k].name = n

Index(places, k) == Cardinality({j \in places : j < k})
Indices(places) == {Index(places, k) : k \in places}
PlaceAt(places, i) == CHOOSE k \in places : Index(places, k) = i

(* Indices of components and members.                                        *)
WriteIndices(names, index) == [k \in DOMAIN names |-> index[names[k]]]
GroupInfo(g, index) == [name |-> g.name, members |-> WriteIndices(g.members, index)]
CounterInfo(c, index) == [display |-> c.display, components |-> WriteIndices(c.components, index)]

ComponentNames(cs) == UNION {Range(cs[k].components) : k \in DOMAIN cs}
ComponentPlaces(cs) == {k \in DOMAIN cs : cs[k].name \in ComponentNames(cs)}
CounterPlaces(cs) == DOMAIN cs \ ComponentPlaces(cs)

(* Mutant: one numbering for both, as in an RDF file.                          *)
IndexMapShared(cs) == [n \in NamesOf(cs) |-> Index(DOMAIN cs, PlaceOf(cs, n))]

(* counter_index_map of a legacy chunk: counters and components are numbered     *)
(* apart.                                                                  *)
IndexMap(cs) ==
  [n \in NamesOf(cs) |->
     Index(IF n \in ComponentNames(cs) THEN ComponentPlaces(cs) ELSE CounterPlaces(cs), PlaceOf(cs, n))]

(* A component with components of its own cannot be written: nothing is.        *)
SerializeChunkDerivedSpmDb(cs, groups) ==
  LET index == IndexMap(cs)
      At(places, i) == cs[PlaceAt(places, i)]
      counters == CounterPlaces(cs)
      components == ComponentPlaces(cs)
  IN  IF \E k \in components : cs[k].components # <<>> THEN <<>>
      ELSE <<[groups |-> [k \in DOMAIN groups |-> GroupInfo(groups[k], index)],
              counters |-> [i \in Indices(counters) |-> CounterInfo(At(counters, i), index)],
              components |-> [i \in Indices(components) |-> At(components, i).display],
              counterData |-> [i \in Indices(counters) |-> At(counters, i).name],
              componentData |-> [i \in Indices(components) |-> At(components, i).name]]>>

(* AppendChunks of an RDF file: session, counters, groups, in one numbering     *)
(* for all counters.                                                       *)
RdfCounter(cs, k, index) == [kind |-> "counter", index |-> k - 1, info |-> CounterInfo(cs[k], index), data |-> cs[k].name]
RdfGroup(groups, k, index) == [kind |-> "group", index |-> k - 1, info |-> GroupInfo(groups[k], index)]
RdfChunks(cs, groups) ==
  LET index == [n \in NamesOf(cs) |-> PlaceOf(cs, n) - 1]
  IN  [k \in 0 .. Len(cs) + Len(groups) |->
         IF k = 0 THEN [kind |-> "session", counters |-> Len(cs), groups |-> Len(groups)]
         ELSE IF k <= Len(cs) THEN RdfCounter(cs, k, index) ELSE RdfGroup(groups, k - Len(cs), index)]

AppendLegacy ==
  /\ pc = "append" /\ ~rdf
  /\ \E written \in {"all", "some", "none"} :
       /\ chunks' = CASE written = "all" -> SerializeChunkDerivedSpmDb(order, DefaultGroups(gpu))
                      [] written = "some" -> <<"torn">>
                      [] OTHER -> <<>>
       /\ End(written = "all") /\ failed' = failed \cup (IF written = "all" THEN {} ELSE {"write"})
  /\ UNCHANGED <<context, gpu, hardware, rdf, trace, handles, abort, asked, completed, count>>

(* The writer may not be made, and every chunk may fail, which ends AppendChunks: *)
(* here the first, the second or the last. Neither is looked at: cleanup, and     *)
(* success.                                                                *)
AppendRdf ==
  /\ pc = "append" /\ rdf
  /\ LET all == RdfChunks(order, DefaultGroups(gpu))
         last == Len(order) + Len(DefaultGroups(gpu))
     IN  \E k \in {0, 1, last, last + 1} :
           /\ chunks' = [j \in 0 .. k - 1 |-> all[j]]
           /\ failed' = failed \cup (IF k = last + 1 THEN {} ELSE {"write"})
  /\ End(TRUE) /\ handles' = {}
  /\ UNCHANGED <<context, gpu, hardware, rdf, trace, abort, asked, completed, count>>

TraceCompleted ==
  /\ pc = "end" /\ pc' = "done"
  /\ completed' = IF result THEN "Completed" ELSE IF abort THEN "Aborted" ELSE "Error"
  /\ UNCHANGED <<context, gpu, hardware, file, order, result, abort, failed, asked, count>>

------------------------------------------------------------------------------
Init ==
  /\ context = Closed /\ gpu = (CHOOSE g \in Gpus : TRUE) /\ hardware = <<>> /\ pc = "idle"
  /\ rdf = FALSE /\ trace = None /\ chunks = <<>> /\ handles = {} /\ order = <<>> /\ result = FALSE
  /\ abort = FALSE /\ failed = {} /\ asked = FALSE /\ completed = None /\ count = 0

Next ==
  \/ \E g \in Gpus : Query(g)
  \/ RequestAbortProcessing \/ OnTraceCompletedWithSpm \/ LoadRdf \/ LoadLegacy \/ Build
  \/ AppendLegacy \/ AppendRdf \/ TraceCompleted

Spec == Init /\ [][Next]_vars

------------------------------------------------------------------------------
(* What the tables of a file say, to a reader that follows the comments of the  *)
(* chunk structures: counters, their samples and those of their components,    *)
(* and the groups.                                                         *)

Torn == Plain("torn")
Entry(table, i) == IF i \in DOMAIN table THEN table[i] ELSE Torn
Entries(table, is) == [k \in DOMAIN is |-> Entry(table, is[k])]
View(counters, groups) == [counters |-> counters, groups |-> groups]

ReadLegacy(c) ==
  View({Counter(Entry(c.counterData, i), c.counters[i].display, Entries(c.componentData, c.counters[i].components)) :
          i \in DOMAIN c.counters}
         \cup {Counter(Entry(c.componentData, i), c.components[i], <<>>) : i \in DOMAIN c.components},
       [k \in DOMAIN c.groups |-> Group(c.groups[k].name, Entries(c.counterData, c.groups[k].members))])

(* The chunks of a kind, by the index in their header.                         *)
ChunksOf(cs, kind) == {k \in DOMAIN cs : cs[k].kind = kind}
ChunkAt(cs, kind, i) == cs[CHOOSE k \in ChunksOf(cs, kind) : cs[k].index = i]

ReadRdf(cs) ==
  LET counters == ChunksOf(cs, "counter")
      data == [i \in {cs[k].index : k \in counters} |-> ChunkAt(cs, "counter", i).data]
  IN  View({Counter(cs[k].data, cs[k].info.display, Entries(data, cs[k].info.components)) : k \in counters},
           [g \in {cs[k].index + 1 : k \in ChunksOf(cs, "group")} |->
              LET info == ChunkAt(cs, "group", g - 1).info IN Group(info.name, Entries(data, info.members))])

Database(arch) == View(Range(DefaultCounters(arch)), DefaultGroups(arch))

(* The hardware counters captured are those the GPU's derived counters need,    *)
(* each once, unless a context of another GPU was left open.                  *)
HardwareFits ==
  pc = "captured" /\ "close" \notin failed =>
    /\ \A p, q \in DOMAIN hardware : hardware[p] = hardware[q] => p = q
    /\ {hardware[p] : p \in DOMAIN hardware} = UNION {{h \in Range(HardwareOf(gpu, c.name)) : ~h.timing} : c \in Range(DefaultCounters(gpu))}

(* A profile reported as complete, of a file that could be written, reads back  *)
(* as the counters of its GPU: every counter with its own samples and           *)
(* components, every group with its own members, though the file's indices       *)
(* number two tables in one format and one in the other. Another report has a   *)
(* failure behind it and, of an RDF file, leaves the file as it was; an abort    *)
(* was asked for during the processing.                                      *)
CountersReadBack ==
  /\ HardwareFits
  /\ completed = "Completed" /\ "write" \notin failed =>
       /\ handles = {}
       /\ Database(gpu) = IF rdf THEN ReadRdf(chunks) ELSE IF chunks = <<>> THEN {} ELSE ReadLegacy(chunks[1])
  /\ completed \in {"Aborted", "Error"} => failed \ {"close"} # {} /\ (rdf => chunks = <<>>)
  /\ completed = "Aborted" => asked

(* A profile is reported as complete only if the counters are in its file. It    *)
(* is not so: AppendChunkDerivedSpmDb does not look at what AppendChunks         *)
(* returns, nor at a writer that could not be made.                           *)
CompletedIsWritten == completed = "Completed" => "write" \notin failed

(* An abort ends the processing. It would not: nothing reads should_abort.      *)
AbortEnds == asked => completed # "Completed"

(* What RDF has open is closed when the trace is reported. It is not when the    *)
(* build of the database failed.                                             *)
HandlesClosed == completed # None => handles = {}
================================================================================
