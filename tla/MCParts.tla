-------------------------------- MODULE MCParts --------------------------------
(***************************************************************************)
(* Parts of the panel that share no state, checked in one run: a behaviour   *)
(* picks one of them and the others stay as they began.                      *)
(***************************************************************************)
EXTENDS FrontendModels, Parts, TLC

CONSTANTS down, unreadable, u1, u2, dd, s1, s2, s3

VARIABLE part   \* the part under way

------------------------------------------------------------------------------
(* Two connections of one process and one of another; the entry "w" covers    *)
(* "a" as a wildcard.                                                      *)
MCDefaults == [Windows |-> {"d"}, Linux |-> {"w"}]
MCCovers == [a |-> {"a"}, d |-> {"d"}, w |-> {"a", "w"}]
MCProcessOf == <<"p", "p", "q">>
MCNameOf == <<"a", "a", "d">>
MCApiOf == <<"DX12", "Vulkan", "DX12">>
MCSupportedApis == [Profiling |-> {"DX12", "Vulkan"}, CrashAnalysis |-> {"DX12"}]

(* Systems: drivers around every version that matters, GPUs of every kind     *)
(* the tests tell apart, one system with several drivers.                   *)

Gpu(f, e, d, r) == [family |-> f, eRev |-> e, device |-> d, revision |-> r]
Navi1 == Gpu(143, 1, 1, 0)
Navi2 == Gpu(143, 50, 29663, 192)
Phoenix == Gpu(148, 0, 1, 0)
Strix == Gpu(150, 0, 5390, 0)
Krackan == Gpu(150, 0, 4372, 0)
Handheld == Gpu(144, 0, 5695, 175)
Navi4 == Gpu(152, 0, 1, 0)

System(os, version, others, gpus) == [os |-> os, driver |-> version, drivers |-> others, gpus |-> gpus]

Drivers == {<<22, 30>>, <<22, 40>>, <<23, 5>>, <<23, 20>>, <<24, 10>>, <<24, 30>>, <<25, 10>>,
            <<25, 30>>, <<26, 5>>, <<26, 10>>}

Systems ==
  {System("Windows", d, {}, {g}) : d \in Drivers, g \in {Strix, Navi4}}
    \cup {System("Linux", d, {}, {Navi2, Strix}) : d \in {<<22, 40>>, <<22, 5>>, <<25, 5>>, <<25, 10>>}}
    \cup {System("Windows", <<24, 20>>, ds, {Phoenix}) : ds \in {{<<24, 20>>, <<25, 30>>}, {<<26, 10, 7, 2>>}}}
    \cup {System("Windows", <<25, 30>>, {}, {g}) : g \in {Navi1, Handheld, Krackan, Navi2}}

(* Names and patterns: all short ones, and longer ones with classes and       *)
(* stars.                                                                  *)
ShortNames == UNION {[1 .. l -> {"a", "b", "["}] : l \in 1 .. 2}
MatchedNames == ShortNames \cup {<<"a", "a", "b">>, <<"b", "a", "b">>, <<"a", "b", "a", "b">>, <<"c">>, <<"a", "]">>}
MatchedPatterns ==
  UNION {[1 .. l -> {"!", "*", "-", "?", "[", "\\", "]", "a", "b"}] : l \in 0 .. 3}
    \cup {<<"[">> \o s \o <<"]">> : s \in UNION {[1 .. l -> {"!", "-", "a", "c", "]"}] : l \in 1 .. 3}}
    \cup {<<"*">> \o s : s \in [1 .. 3 -> {"a", "b", "*", "?"}]}

(* Command lines: every form an automatic capture can be written in, alone   *)
(* and with the options that change what it means.                          *)
Segments == {Blank, Text, 0, 1, 4, 5, 6, UintRange - 1, UintRange}
AutoCaptures ==
  [key : {"frame", "dispatch", "framex", ""}, args : UNION {[1 .. l -> Segments] : l \in 0 .. 2}]
LinesOf(options) ==
  {[Defaults EXCEPT !.given = options, !.auto = a, !.autoDelay = d, !.mode = m] :
     a \in AutoCaptures, d \in {0, 3}, m \in {"rgp", "memory"}}
TriggerLines == UNION {LinesOf(o) : o \in {{"rgp-auto-capture"}, {"rgp-auto-capture", "rgp-auto-capture-delay"}}}

(* Two instances of one account and one of another.                           *)
Accounts == [s \in {s1, s2, s3} |-> IF s = s3 THEN "other" ELSE "user"]

(* A module that accepts others, one that does not, and the system module;    *)
(* the built-in presets of the two.                                          *)
OnlyEnabled == [enabled |-> TRUE, data |-> [main |-> "none", kept |-> "none", index |-> "none"]]
BuiltIn(called, m) == [name |-> called, builtin |-> TRUE, modules |-> [x \in {m, "DeviceClocks"} |-> OnlyEnabled]]
MCModules == <<"Raytracing", "CrashAnalysis", "DeviceClocks">>
MCTrimmed == [mine |-> "mine"]
BuiltInPresets == <<BuiltIn("Raytracing", "Raytracing"), BuiltIn("Crash Analysis", "CrashAnalysis")>>

(* A graphics connection has a choice of modes, a compute connection one.      *)
CaptureModes == [graphics |-> <<"Frame", "Draw">>, compute |-> <<"Dispatch">>]

(* Hardware counters: a cache's hits need its requests, which two instances      *)
(* count, and the time; architectures have events of their own.               *)
Event(arch, block, e) == [block |-> block, event |-> <<arch, e>>, timing |-> FALSE]
HardwareEvents(arch, counter) ==
  IF counter[2] = "Hit"
  THEN <<Event(arch, counter[1], "RequestCount"), Event(arch, counter[1], "RequestCount"),
         [block |-> "Timing", event |-> <<arch, "">>, timing |-> TRUE], Event(arch, counter[1], "HitCount")>>
  ELSE <<Event(arch, counter[1], counter[2])>>

(* The hash map of counters is run through in one of four orders.             *)
Turned(s, k) == SubSeq(s, k + 1, Len(s)) \o SubSeq(s, 1, k)
FourOrders(S) ==
  LET s == CHOOSE d \in {Sp!DefaultCounters(g) : g \in SpmGpus} : Sp!Range(d) = S
      back == [k \in DOMAIN s |-> s[Len(s) + 1 - k]]
  IN {s, back, Turned(s, Len(s) \div 2), Turned(back, Len(s) \div 3)}

(* Files with counter data of every version and size, and with what makes them  *)
(* unreadable.                                                             *)
RdfFile(asic, asicFits, session, sizes, fits) ==
  [asic |-> asic, asicFits |-> asicFits, session |-> session, sizes |-> sizes, fits |-> fits]
RdfFiles ==
  {RdfFile(v, TRUE, TRUE, z, TRUE) : v \in {2, 3, 4}, z \in {<<2, 4>>, <<2, 8>>}}
    \cup {RdfFile(2, FALSE, TRUE, <<2>>, TRUE), RdfFile(3, TRUE, FALSE, <<2>>, TRUE), RdfFile(3, TRUE, TRUE, <<2>>, FALSE)}
Whole(t) == [type |-> t, whole |-> TRUE]
LegacyFile(cs, version, sizes) == [chunks |-> cs, version |-> version, sizes |-> sizes]
LegacyFiles ==
  {LegacyFile(<<Whole("asic"), Whole("sqtt"), Whole("spm")>>, v, z) :
     v \in {<<1, 1>>, <<1, 2>>, <<2, 0>>}, z \in {<<2, 4>>, <<3>>}}
    \cup {LegacyFile(cs, <<2, 0>>, <<2>>) :
            cs \in {<<Whole("asic"), [type |-> "spm", whole |-> FALSE]>>, <<Whole("spm"), Whole("asic")>>, <<Whole("spm")>>}}

------------------------------------------------------------------------------
PartsInit ==
  /\ part \in {"applications", "options", "support", "wildcard", "connection", "memory", "legacy",
              "crash", "instances", "settings", "panel", "counters"}
  /\ cl \in IF part = "options" THEN TriggerLines ELSE {Defaults}
  /\ matchName \in IF part = "wildcard" THEN MatchedNames ELSE {<<"c">>}
  /\ matchPattern \in IF part = "wildcard" THEN MatchedPatterns ELSE {<<>>}
  /\ Init /\ (part # "applications" => settings.version = 3)
  /\ Su!Init /\ Wc!MatchInit /\ Cn!Init /\ Rm!Init /\ Rg!Init
  /\ Cr!Init /\ (part # "crash" => ubertrace /\ process /\ wanted = {} /\ analyser = "there")
  /\ Si!Init /\ (part # "instances" => posix /\ service)
  /\ Ms!Init /\ (part # "settings" => settingsFile.current = <<>>)
  /\ Cp!Init /\ (part # "panel" => delay)
  /\ Sp!Init

supportVars == <<router, heard, reason, apis, rgd, rgp, rra, client>>
wildcardVars == <<matchName, matchPattern, nameAt, patternAt, starPattern, starName, matchResult>>
connectionVars == <<conn, type, should, reconnecting, disabled, tool, held, thread, link, signals, widget, clicks,
                    overtaken>>
memoryVars == <<trace, state, postInit, call, reports, left, raced, faulty>>
legacyVars == <<legacy, gpuOk, user, timer, capture, stop, aborted, abortSpm, asked, askedSpm, ending, outcomes, begun>>
crashVars == <<ubertrace, process, requested, collected, driver, dumping, crash, transfer, added, chunks, dump, queue,
               completed, wanted, analyser, worker, working, summary, accessory, opened, requests>>
instanceVars == <<posix, service, exists, attached, account, started, named, holders, owner, at, another, told>>
settingsVars == <<running, modulesOn, managed, userdata, given, current, presets, settingsFile,
                 modulesLocked, loading, want, settingsEdits>>
panelVars == <<connected, statuses, completions, delivering, shownStatus, target, modes, captureMode, captureDefaults,
               delay, delaying, delayTimer, panelGui, panelSignals, view, expected, captured, acts>>
counterVars == <<spmContext, spmGpu, spmHardware, spmAt, spmRdf, spmTrace, spmOrder, spmChunks, spmHandles, spmResult,
                 spmAbort, spmFailed, spmAsked, spmCompleted, spmCount>>

PartsNext ==
  /\ UNCHANGED <<part, cl>>
  /\ IF part = "applications" THEN Next ELSE UNCHANGED vars
  /\ IF part = "support" THEN Su!Next ELSE UNCHANGED supportVars
  /\ IF part = "wildcard" THEN Wc!MatchNext ELSE UNCHANGED wildcardVars
  /\ IF part = "connection" THEN Cn!Next ELSE UNCHANGED connectionVars
  /\ IF part = "memory" THEN Rm!Next ELSE UNCHANGED memoryVars
  /\ IF part = "legacy" THEN Rg!Next ELSE UNCHANGED legacyVars
  /\ IF part = "crash" THEN Cr!Next ELSE UNCHANGED crashVars
  /\ IF part = "instances" THEN Si!Next ELSE UNCHANGED instanceVars
  /\ IF part = "settings" THEN Ms!Next ELSE UNCHANGED settingsVars
  /\ IF part = "panel" THEN Cp!Next ELSE UNCHANGED panelVars
  /\ IF part = "counters" THEN Sp!Next ELSE UNCHANGED counterVars

PartsSpec ==
  PartsInit /\ [][PartsNext]_<<part, cl, vars, supportVars, wildcardVars, connectionVars, memoryVars, legacyVars,
                               crashVars, instanceVars, settingsVars, panelVars, counterVars>>
==============================================================================
