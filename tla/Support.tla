-------------------------------- MODULE Support --------------------------------
(***************************************************************************)
(* What the trace sources make of the system they are connected to: the     *)
(* RouterConnectionStatusChanged of the profiling, raytracing and crash     *)
(* analysis sources, the driver and GPU tests it is made of, and the client *)
(* each source then creates for a connection.                              *)
(*                                                                         *)
(* The sources are notified one after another, and a connection reaches a   *)
(* source only between notifications.                                      *)
(***************************************************************************)
EXTENDS Naturals, Sequences

CONSTANTS
  Infos,       \* the system information there may be
  Overrides,   \* environment variables that are set
  Down,        \* no router
  Unreadable   \* a router whose system information cannot be had

------------------------------------------------------------------------------
(* AsicInfo.                                                               *)

GpuSeries == <<"Unknown", "Polaris", "Vega", "Navi1", "Navi2", "VanGogh", "Navi3", "Rembrandt",
               "Mgfx", "Phoenix", "Raphael", "Strix", "Krackan", "Mendocino", "Navi4">>

Families == [Polaris |-> 130, VanGogh |-> 144, Navi3 |-> 145, Rembrandt |-> 146, Mgfx |-> 147,
             Phoenix |-> 148, Raphael |-> 149, Strix |-> 150, Mendocino |-> 151, Navi4 |-> 152]
Gfx9 == 141 .. 142
FamilyNavi == 143
kNavi2XMinimumRevision == 40

kStrix1Id == 5390
kStrixHaloId == 5510
kKrackanDevices == {4372, 6402}
kVanGoghHandheldDeviceId == 5695      \* also kZ2ANavi2Id
kVanGoghHandheldRevisionId == 175
kUnsupported6750XtDevice == 29663
kUnsupported6750XtRevision == 192

GetGpuSeries(device, family, eRev) ==
  CASE device \in kKrackanDevices -> "Krackan"
    [] device \notin kKrackanDevices /\ family \in Gfx9 -> "Vega"
    [] device \notin kKrackanDevices /\ family = FamilyNavi ->
         IF eRev < kNavi2XMinimumRevision THEN "Navi1" ELSE "Navi2"
    [] device \notin kKrackanDevices /\ \E s \in DOMAIN Families : Families[s] = family ->
         CHOOSE s \in DOMAIN Families : Families[s] = family
    [] OTHER -> "Unknown"

GetGpuArchitecture(series) ==
  CASE series = "Polaris" -> "Gcn4"
    [] series = "Vega" -> "Gcn5"
    [] series = "Navi1" -> "Rdna1"
    [] series \in {"Navi2", "VanGogh", "Rembrandt", "Mgfx", "Raphael", "Mendocino"} -> "Rdna2"
    [] series \in {"Navi3", "Phoenix", "Strix", "Krackan"} -> "Rdna3"
    [] series = "Navi4" -> "Rdna4"
    [] OTHER -> "Unknown"

SeriesOf(gpu) == GetGpuSeries(gpu.device, gpu.family, gpu.eRev)

(* The order of the enumeration.                                           *)
Before(a, b) ==
  (CHOOSE k \in DOMAIN GpuSeries : GpuSeries[k] = a) < (CHOOSE k \in DOMAIN GpuSeries : GpuSeries[k] = b)

------------------------------------------------------------------------------
(* Drivers: <<packaging_version_major, packaging_version_minor>>, followed by *)
(* the rest of software_version where that matters.                        *)

(* Mutant: the minor version decides in any major version.                  *)
IsDriverTooOldMinor(driver, major, minor) == driver[1] < major \/ driver[2] < minor

IsDriverTooOld(driver, major, minor) ==
  driver[1] < major \/ (driver[1] = major /\ driver[2] < minor)

(* The order of the pairs.                                                 *)
NotOlder(a, b) == a[1] > b[1] \/ (a[1] = b[1] /\ a[2] >= b[2])

GetNewestDriver(info) ==
  IF info.drivers = {} THEN info.driver
  ELSE CHOOSE d \in info.drivers : \A other \in info.drivers : NotOlder(d, other)

------------------------------------------------------------------------------
(* The crash analysis source.                                              *)

Apis == {"DirectX12", "Vulkan", "OpenCl", "Hip"}
IsComputeApi(api) == api \in {"OpenCl", "Hip"}
kRgdSupportedApis == {"DirectX12", "Vulkan"}

RgdGpuSupported(gpu) ==
  \/ /\ GetGpuArchitecture(SeriesOf(gpu)) \in {"Rdna2", "Rdna3", "Rdna4"}
     /\ ~(gpu.revision = kUnsupported6750XtRevision /\ gpu.device = kUnsupported6750XtDevice)
     /\ ~(gpu.device = kVanGoghHandheldDeviceId /\ gpu.revision = kVanGoghHandheldRevisionId)
  \/ "RDP_DISABLE_HARDWARE_COMPATIBILITY_CHECK" \in Overrides

GetReasonRgdShouldBeDisabled(info) ==
  CASE info.os # "Windows" -> "kOsUnsupported"
    [] info.os = "Windows" /\ IsDriverTooOld(info.driver, 23, 10) -> "kDriverUnsupported"
    [] OTHER -> IF \E gpu \in info.gpus : RgdGpuSupported(gpu) THEN "kEnabled" ELSE "kHardwareUnsupported"

IsApu(gpu) == SeriesOf(gpu) \in {"Rembrandt", "Phoenix", "Strix", "Krackan"}

HardwareCrashGpu(gpu, driver) ==
  /\ SeriesOf(gpu) \notin {"Rembrandt", "Phoenix"}
  /\ gpu.device = kStrix1Id => ~IsDriverTooOld(driver, 25, 10)
  /\ gpu.device \in {kStrixHaloId} \cup kKrackanDevices => ~IsDriverTooOld(driver, 25, 20)

RgdSupport(info) ==
  LET onGpu == \E gpu \in info.gpus : HardwareCrashGpu(gpu, info.driver) IN
  [apis      |-> IF IsDriverTooOld(info.driver, 23, 30) THEN {"DirectX12"} ELSE kRgdSupportedApis,
   ubertrace |-> ~IsDriverTooOld(info.driver, 24, 20),
   hca       |-> onGpu /\ ~IsDriverTooOld(info.driver, 24, 30),
   hcaGpu    |-> onGpu,
   gpr       |-> ~IsDriverTooOld(info.driver, 25, 20)]

NoRgdSupport == [apis |-> kRgdSupportedApis, ubertrace |-> FALSE, hca |-> FALSE, hcaGpu |-> FALSE, gpr |-> FALSE]

------------------------------------------------------------------------------
(* The profiling source.                                                   *)

(* The device is not passed on, so a Krackan counts by its family.          *)
IsSpmCaptureSupported(gpu, info) ==
  LET series == GetGpuSeries(0, gpu.family, gpu.eRev)
      driver == GetNewestDriver(info)
  IN \/ "RDP_ENABLE_SPM_COUNTERS" \in Overrides
     \/ /\ ~Before(series, "Navi1") /\ series \notin {"Rembrandt", "VanGogh", "Phoenix"}
        /\ ~Before(series, "Navi2") /\ info.os = "Linux" => ~IsDriverTooOld(driver, 22, 40)
        /\ series \in {"Strix", "Krackan"} \/ gpu.device = kVanGoghHandheldDeviceId
             => ~IsDriverTooOld(driver, 25, 10)
        /\ series = "Phoenix" => ~IsDriverTooOld(driver, 26, 10)

IsExecPopTokensSupported(gpu) == GetGpuArchitecture(SeriesOf(gpu)) = "Rdna4"

RgpSupport(info) ==
  LET driver == GetNewestDriver(info) IN
  [ubertrace  |-> ~IsDriverTooOld(driver, 24, 30),
   instrument |-> ~IsDriverTooOld(driver, 24, 10),
   execPop    |-> \E gpu \in info.gpus : IsExecPopTokensSupported(gpu),
   spm        |-> {gpu \in info.gpus : IsSpmCaptureSupported(gpu, info)},
   gpus       |-> info.gpus,
   driver     |-> driver]

NoRgpSupport == [ubertrace |-> FALSE, instrument |-> FALSE, execPop |-> FALSE, spm |-> {}, gpus |-> {},
                 driver |-> <<0, 0>>]

------------------------------------------------------------------------------
(* The raytracing source. Its GetReasonRraShouldBeDisabled is called by      *)
(* nobody.                                                                 *)

PreRelease == <<26, 10, 7, 2>>

IsMarkerCaptureSupported(info) ==
  LET driver == GetNewestDriver(info) IN ~IsDriverTooOld(driver, 26, 20) \/ driver = PreRelease

RraSupport(info) ==
  [rayHistory |-> ~IsDriverTooOld(GetNewestDriver(info), 23, 20),
   marker     |-> IsMarkerCaptureSupported(info)]

NoRraSupport == [rayHistory |-> FALSE, marker |-> FALSE]

------------------------------------------------------------------------------
VARIABLES
  router,    \* the system connected to
  pending,   \* sources not yet notified of it
  reason,    \* system_disabled_reason_
  filter,    \* the APIs the crash analysis source takes
  rgd, rgp, rra,   \* the capabilities kept, by the sources and their factories
  client     \* the client created last: source, API, kind, system, enable_legacy_capture

vars == <<router, pending, reason, filter, rgd, rgp, rra, client>>

Sources == {"rgp", "rra", "rgd"}
NoClient == [source |-> "none", api |-> "none", legacy |-> FALSE, kind |-> "none", info |-> Down]

Init ==
  /\ router = Down /\ pending = {}
  /\ reason = [s \in Sources |-> "kEnabled"]
  /\ filter = kRgdSupportedApis
  /\ rgd = NoRgdSupport /\ rgp = NoRgpSupport /\ rra = NoRraSupport
  /\ client = NoClient

(* A router goes only after it came, and the sources hear of every change.   *)
RouterChanges ==
  /\ pending = {}
  /\ router' \in IF router = Down THEN Infos \cup {Unreadable} ELSE {Down}
  /\ pending' = Sources
  /\ client' = NoClient
  /\ UNCHANGED <<reason, filter, rgd, rgp, rra>>

(* Mutant: once ubertrace was possible the factory goes on with it.         *)
RgdRouterChangedKeepsUbertrace ==
  /\ "rgd" \in pending /\ pending' = pending \ {"rgd"}
  /\ CASE router = Down ->
            reason' = [reason EXCEPT !["rgd"] = "kEnabled"] /\ filter' = kRgdSupportedApis /\ UNCHANGED rgd
       [] router = Unreadable ->
            reason' = [reason EXCEPT !["rgd"] = "kEncounteredError"] /\ UNCHANGED <<filter, rgd>>
       [] OTHER ->
            /\ reason' = [reason EXCEPT !["rgd"] = GetReasonRgdShouldBeDisabled(router)]
            /\ IF reason'["rgd"] = "kEnabled"
               THEN /\ rgd' = [RgdSupport(router) EXCEPT !.ubertrace = @ \/ rgd.ubertrace]
                    /\ filter' = RgdSupport(router).apis
               ELSE UNCHANGED <<rgd, filter>>
  /\ UNCHANGED <<router, rgp, rra, client>>

(* Nothing but the reason is touched when crash analysis cannot be had; what *)
(* an earlier system left is still there.                                   *)
RgdRouterChanged ==
  /\ "rgd" \in pending /\ pending' = pending \ {"rgd"}
  /\ CASE router = Down ->
            reason' = [reason EXCEPT !["rgd"] = "kEnabled"] /\ filter' = kRgdSupportedApis /\ UNCHANGED rgd
       [] router = Unreadable ->
            reason' = [reason EXCEPT !["rgd"] = "kEncounteredError"] /\ UNCHANGED <<filter, rgd>>
       [] OTHER ->
            /\ reason' = [reason EXCEPT !["rgd"] = GetReasonRgdShouldBeDisabled(router)]
            /\ IF reason'["rgd"] = "kEnabled"
               THEN rgd' = RgdSupport(router) /\ filter' = RgdSupport(router).apis
               ELSE UNCHANGED <<rgd, filter>>
  /\ UNCHANGED <<router, rgp, rra, client>>

RgpRouterChanged ==
  /\ "rgp" \in pending /\ pending' = pending \ {"rgp"}
  /\ reason' = [reason EXCEPT !["rgp"] = IF router = Unreadable THEN "kEncounteredError" ELSE "kEnabled"]
  /\ rgp' = IF router \in Infos THEN RgpSupport(router) ELSE rgp
  /\ UNCHANGED <<router, filter, rgd, rra, client>>

RraRouterChanged ==
  /\ "rra" \in pending /\ pending' = pending \ {"rra"}
  /\ reason' = [reason EXCEPT !["rra"] = IF router = Unreadable THEN "kEncounteredError" ELSE "kEnabled"]
  /\ rra' = IF router \in Infos THEN RraSupport(router) ELSE rra
  /\ UNCHANGED <<router, filter, rgd, rgp, client>>

------------------------------------------------------------------------------
(* RgpClientFactory::CreateClient and RgdClientFactory::CreateClient; the     *)
(* base source takes no connection while the system is disabled and none of *)
(* an API outside the filter.                                              *)

RgpClientKind(api, legacy) ==
  IF rgp.ubertrace /\ ~legacy /\ ~(IsComputeApi(api) /\ IsDriverTooOld(rgp.driver, 25, 30))
  THEN "ubertrace" ELSE "legacy"

RgdClientKind == IF rgd.ubertrace THEN "ubertrace" ELSE "plain"

CreateClient(s, api, legacy) ==
  /\ router # Down /\ pending = {}
  /\ reason[s] = "kEnabled"
  /\ s \in {"rgd", "rra"} => api \in (IF s = "rgd" THEN filter ELSE {"DirectX12", "Vulkan"})
  /\ client' = [source |-> s, api |-> api, legacy |-> legacy, info |-> router,
                kind |-> CASE s = "rgp" -> RgpClientKind(api, legacy) [] s = "rgd" -> RgdClientKind
                           [] OTHER -> "ubertrace"]
  /\ UNCHANGED <<router, pending, reason, filter, rgd, rgp, rra>>

Next ==
  \/ RouterChanges
  \/ RgdRouterChanged
  \/ RgpRouterChanged
  \/ RraRouterChanged
  \/ \E s \in Sources, api \in Apis, legacy \in BOOLEAN : CreateClient(s, api, legacy)

Spec == Init /\ [][Next]_vars

------------------------------------------------------------------------------
(* A client is what its own system can do, not what an earlier one could:    *)
(* no crash analysis by ubertrace before 24.20, no compute profile by it     *)
(* before 25.30, no crash analysis of Vulkan before 23.30, none at all where *)
(* there is no system information. Reconnections to other systems leave      *)
(* settings behind; this says none of them reaches a client.               *)
ClientFitsSystem ==
  client # NoClient =>
    /\ client.info \in Infos
    /\ client.source = "rgd" =>
         /\ client.kind = "ubertrace" <=> NotOlder(client.info.driver, <<24, 20>>)
         /\ client.api = "Vulkan" => NotOlder(client.info.driver, <<23, 30>>)
         /\ \E gpu \in client.info.gpus : RgdGpuSupported(gpu)
    /\ client.source = "rgp" =>
         (client.kind = "ubertrace" <=>
            ~client.legacy /\ NotOlder(GetNewestDriver(client.info), IF IsComputeApi(client.api) THEN <<25, 30>> ELSE <<24, 30>>))

(* Of two systems that differ only in their driver, the one with the newer   *)
(* driver can do whatever the other can. (Marker capture is not among it: a  *)
(* single pre-release driver has it before 26.20.)                          *)
NewerDriverLosesNothing ==
  router \in Infos =>
    \A other \in Infos :
      /\ [other EXCEPT !.driver = router.driver] = router
      /\ other.drivers = {} /\ NotOlder(other.driver, router.driver)
      => /\ GetReasonRgdShouldBeDisabled(router) = "kEnabled" => GetReasonRgdShouldBeDisabled(other) = "kEnabled"
         /\ RgdSupport(router).apis \subseteq RgdSupport(other).apis
         /\ \A f \in {"ubertrace", "hca", "gpr"} : RgdSupport(router)[f] => RgdSupport(other)[f]
         /\ RgpSupport(router).ubertrace => RgpSupport(other).ubertrace
         /\ RgpSupport(router).instrument => RgpSupport(other).instrument
         /\ RgpSupport(router).spm \subseteq RgpSupport(other).spm
         /\ RraSupport(router).rayHistory => RraSupport(other).rayHistory

(* What a source and its clients may do is what their system can: none of it  *)
(* is left from an earlier system, none is lost with a newer driver.         *)
SupportFits == ClientFitsSystem /\ NewerDriverLosesNothing
==============================================================================
