---------------------------- MODULE ModuleSettings ----------------------------
(***************************************************************************)
(* The panel's modules, their settings and the presets: ModuleModel,         *)
(* DevToolsModule, the user data view models and PresetModel. All of it runs *)
(* on the GUI thread, one call after the other, but for the lock that a       *)
(* connecting application sets on a thread of its own: between any two of    *)
(* the calls that a loading preset makes, each of which is a step.           *)
(*                                                                         *)
(* A module's user data are three groups of fields: main, which a reset puts *)
(* to the defaults; kept, which InitializeDefaults leaves alone (the capture *)
(* delay, shader instrumentation, markers); and index, the selected size of  *)
(* the ray history buffer. cached_userdata_ equals userdata_ whenever a call *)
(* returns, so one variable stands for both.                               *)
(***************************************************************************)
EXTENDS Naturals, Sequences, FiniteSets, SequencesExt

CONSTANTS
  ModuleOrder,     \* the modules, in the order they register
  SystemModules,   \* those that are always active and hosted in the SYSTEM tab
  FeatureModules,  \* those whose Enable and Disable ask the driver (SetFeature)
  Alone,           \* those that accept no other module but a system one
  DefaultPresets,  \* default_presets.json, in order
  TypedNames,      \* what a user types as the name of a preset
  Trimmed,         \* a typed name without its surrounding blanks
  MaxEdits,        \* bound: what the user, the driver and crashes do
  MaxPresets       \* bound: presets in the list

VARIABLES
  running,   \* the panel runs
  enabled,   \* is_enabled_ of the modules
  managed,   \* modules whose connection manager is enabled
  userdata,  \* userdata_: what the panel shows
  config,    \* what the trace source was given
  current,   \* current_module_data_
  presets,   \* presets_
  file,      \* presets.json
  locked,    \* modules_locked_
  load,      \* the loading of a preset: the call it is at (0: none), the preset, whether it saves at the end
  want,      \* the settings that should be shown now: at most one promise
  edits

vars == <<running, enabled, managed, userdata, config, current, presets, file, locked, load, want, edits>>

Registered == Range(ModuleOrder)
NoData == [main |-> "none", kept |-> "none", index |-> "none"]  \* the empty string in a preset
NoFile == [current |-> <<>>, presets |-> <<>>]                   \* not there, or not readable
NoLoad == [at |-> 0, modules |-> <<>>, saves |-> FALSE]

Unset == [main |-> "unset", kept |-> "default", index |-> "default"]
Default == [main |-> "default", kept |-> "default", index |-> "default"]

------------------------------------------------------------------------------
(* The calls change a panel s: its modules, their data and configuration.     *)
Panel == [enabled |-> enabled, managed |-> managed, userdata |-> userdata, config |-> config, current |-> current]

Becomes(s) ==
  /\ enabled' = s.enabled /\ managed' = s.managed
  /\ userdata' = s.userdata /\ config' = s.config /\ current' = s.current

(* ReceiveUserData of the trace's view model, then of the user data's: the     *)
(* first takes the buffer size from the index, the second overwrites it with   *)
(* the custom size, whose edit is hidden and which keeps its default.         *)
ReceiveUserData(s, m, data) == [s EXCEPT !.config[m] = [data EXCEPT !.index = "default"]]

(* SerializeData: the presets hear first, then the trace source.               *)
SerializeData(s, m, data) == ReceiveUserData([s EXCEPT !.current[m] = data], m, data)

(* PerformUpdate: only a change is applied.                                   *)
PerformUpdate(s, m, data) ==
  IF data = s.userdata[m] THEN s ELSE SerializeData([s EXCEPT !.userdata[m] = data], m, data)

InitializeDefaults(data) == [data EXCEPT !.main = "default", !.index = "default"]

(* ResetToDefaults: a system module has no user data.                         *)
ResetToDefaults(s, m) ==
  IF m \in SystemModules THEN s ELSE PerformUpdate(s, m, InitializeDefaults(s.userdata[m]))

(* ValidateData: what an older panel may have stored and this one refuses.     *)
ValidateData(data) == IF data.main = "old" THEN [data EXCEPT !.main = "chosen"] ELSE data

LoadUnvalidated(s, m, data) == [ReceiveUserData(s, m, data) EXCEPT !.userdata[m] = ValidateData(data)]

(* LoadSerializedData: the configuration takes the data as they are; if they   *)
(* are not valid it is applied again.                                        *)
LoadSerializedData(s, m, data) ==
  LET valid == ValidateData(data)
      shown == [ReceiveUserData(s, m, data) EXCEPT !.userdata[m] = valid]
  IN IF valid = data THEN shown ELSE SerializeData(shown, m, valid)

------------------------------------------------------------------------------
(* SetEnabled: the connection manager changes whether or not the driver lets   *)
(* the module change.                                                        *)
SetEnabled(s, m, on, refused) ==
  LET With(set) == IF on THEN set \cup {m} ELSE set \ {m}
  IN [s EXCEPT !.managed = With(@), !.enabled = IF refused THEN @ ELSE With(@)]

(* IsCompatibleWithModuleNamed, asked of both sides.                          *)
IsCompatibleWithModuleNamed(m, other) == m \notin Alone \/ other \in SystemModules

CompatibleOneSided(m, other) == IsCompatibleWithModuleNamed(m, other)

Compatible(m, other) == IsCompatibleWithModuleNamed(m, other) /\ IsCompatibleWithModuleNamed(other, m)

(* SetModuleEnabled, of modules that are not locked: what is asked for is       *)
(* something else than what is, and may be. The driver may refuse.            *)
Changes(m, on) ==
  /\ on \/ m \notin SystemModules
  /\ on # (m \in enabled)
  /\ on => \A e \in enabled : Compatible(m, e)

Refusals(m, on) == {FALSE} \cup (IF Changes(m, on) /\ m \in FeatureModules THEN {TRUE} ELSE {})

SetModuleEnabled(m, on, refused) == IF Changes(m, on) THEN SetEnabled(Panel, m, on, refused) ELSE Panel

(* What a module has in a preset; nothing, where the preset lacks it.          *)
InPreset(modules, m) == IF m \in DOMAIN modules THEN modules[m] ELSE [enabled |-> FALSE, data |-> NoData]

(* BuildCurrentModulePreset, SavePresets.                                     *)
CurrentModules(s) == [m \in Registered |-> [enabled |-> m \in s.enabled, data |-> s.current[m]]]

SavePresets(s, list) == file' = [current |-> CurrentModules(s), presets |-> list]

------------------------------------------------------------------------------
(* The settings a preset promises: its modules, next to the system modules      *)
(* that are enabled already; its data, or the defaults of what a reset covers. *)
Promised(modules, before) ==
  [enabled |-> {m \in Registered : InPreset(modules, m).enabled} \cup (before \cap SystemModules),
   data |-> [m \in Registered |-> IF InPreset(modules, m).data = NoData THEN Default
                               ELSE ValidateData(InPreset(modules, m).data)],
   whole |-> {m \in Registered : InPreset(modules, m).data # NoData}]

(* A list of presets is a function from the places they have; a preset that is  *)
(* deleted leaves its place to nobody that was there. GetPresetIndex is the     *)
(* first of that name.                                                      *)
Named(list, name) == {k \in DOMAIN list : list[k].name = name}
GetPresetIndex(list, name) == CHOOSE k \in Named(list, name) : \A l \in Named(list, name) : k <= l

LastPlace(list) == Max(DOMAIN list \cup {0})

PushBack(list, preset) ==
  [k \in DOMAIN list \cup {LastPlace(list) + 1} |-> IF k \in DOMAIN list THEN list[k] ELSE preset]

(* Default presets whose name is new are added behind the others.              *)
WithDefaults(list) ==
  LET added == RestrictValues(DefaultPresets, LAMBDA d : Named(list, d.name) = {})
      place == [d \in DOMAIN added |-> LastPlace(list) + d]
  IN  [k \in DOMAIN list \cup Range(place) |->
         IF k \in DOMAIN list THEN list[k] ELSE added[CHOOSE d \in DOMAIN added : place[d] = k]]

(* A panel that starts: nothing is enabled, no data.                          *)
Fresh ==
  [enabled |-> {}, managed |-> {}, userdata |-> [m \in Registered |-> Unset],
   config |-> [m \in Registered |-> Unset], current |-> [m \in Registered |-> NoData]]

Init ==
  /\ running = FALSE /\ locked = FALSE /\ want = {} /\ edits = 0 /\ presets = <<>> /\ load = NoLoad
  /\ enabled = {} /\ managed = {} /\ userdata = Fresh.userdata /\ config = Fresh.config /\ current = Fresh.current
  /\ \/ file = NoFile
     \/ \E m \in Registered \ SystemModules :
          file = [current |-> [x \in {m} |-> [enabled |-> TRUE, data |-> [Default EXCEPT !.main = "old"]]],
                  presets |-> <<>>]

(* What happens to a panel that runs; the user acts between two calls.          *)
Happens == running /\ edits < MaxEdits /\ edits' = edits + 1
Edit == load = NoLoad /\ Happens

------------------------------------------------------------------------------
(* LoadPreset(preset), of modules that are not locked: the data are forgotten,   *)
(* every module is disabled, and then each is enabled as the preset says and     *)
(* gets its data, which the lock does not prevent. What is shown in the end is   *)
(* only promised if nobody interferes.                                       *)
BeginLoad(modules, saves) == load' = [at |-> 1, modules |-> modules, saves |-> saves]

Loading(first) == load.at - first + 1 \in DOMAIN ModuleOrder /\ load' = [load EXCEPT !.at = @ + 1]
FirstDisable == 1
FirstEnable == Len(ModuleOrder) + 1

DisableModule ==
  /\ Loading(FirstDisable)
  /\ LET m == ModuleOrder[load.at]
     IN \E refused \in IF locked THEN {FALSE} ELSE Refusals(m, FALSE) :
          /\ Becomes(IF locked THEN Panel ELSE SetModuleEnabled(m, FALSE, refused))
          /\ want' = IF refused THEN {} ELSE want
  /\ UNCHANGED <<running, presets, file, locked, edits>>

LoadModule ==
  /\ Loading(FirstEnable)
  /\ LET m == ModuleOrder[load.at - Len(ModuleOrder)]
         in == InPreset(load.modules, m)
     IN \E refused \in IF locked THEN {FALSE} ELSE Refusals(m, in.enabled) :
          LET e == IF locked THEN Panel ELSE SetModuleEnabled(m, in.enabled, refused)
              s == [e EXCEPT !.current[m] = in.data]
          IN /\ Becomes(IF in.data = NoData THEN ResetToDefaults(s, m) ELSE LoadSerializedData(s, m, in.data))
             /\ want' = IF refused THEN {} ELSE want
  /\ UNCHANGED <<running, presets, file, locked, edits>>

(* The start of the panel saves nothing.                                     *)
EndLoad ==
  /\ load.at = 2 * Len(ModuleOrder) + 1 /\ load' = NoLoad
  /\ IF load.saves THEN SavePresets(Panel, presets) ELSE UNCHANGED file
  /\ UNCHANGED <<running, enabled, managed, userdata, config, current, presets, locked, want, edits>>

(* LoadExistingPresets: the modules of the last session are loaded.            *)
LoadExistingPresets ==
  /\ ~running /\ running' = TRUE
  /\ presets' = WithDefaults(file.presets)
  /\ Becomes(Fresh) /\ BeginLoad(file.current, FALSE)
  /\ UNCHANGED <<file, locked, want, edits>>

(* LoadPreset(name): saves, also where the lock made it do nothing.            *)
LoadPreset(name) ==
  /\ Edit /\ Named(presets, name) # {}
  /\ LET modules == presets[GetPresetIndex(presets, name)].modules
     IN IF locked
        THEN SavePresets(Panel, presets) /\ UNCHANGED <<current, load, want>>
        ELSE /\ BeginLoad(modules, TRUE) /\ current' = Fresh.current
             /\ want' = {Promised(modules, enabled)}
             /\ UNCHANGED file
  /\ UNCHANGED <<running, enabled, managed, userdata, config, presets, locked>>

(* CreateOrUpdatePreset: looked up as typed, created without blanks; nothing   *)
(* is saved.                                                                *)
CreateOrUpdatePreset(typed) ==
  /\ Edit /\ ~locked
  /\ IF Named(presets, typed) # {}
     THEN presets' = [presets EXCEPT ![GetPresetIndex(presets, typed)].modules = CurrentModules(Panel)]
     ELSE /\ Cardinality(DOMAIN presets) < MaxPresets
          /\ presets' = PushBack(presets, [name |-> Trimmed[typed], builtin |-> FALSE, modules |-> CurrentModules(Panel)])
  /\ UNCHANGED <<running, enabled, managed, userdata, config, current, file, locked, load, want>>

(* DeletePreset: every one of that name that is not built in.                  *)
DeletePreset(name) ==
  /\ Edit /\ \E k \in Named(presets, name) : ~presets[k].builtin
  /\ presets' = RestrictValues(presets, LAMBDA p : p.name # name \/ p.builtin)
  /\ SavePresets(Panel, presets')
  /\ UNCHANGED <<running, enabled, managed, userdata, config, current, locked, load, want>>

(* The user enables a module of the list, or closes its tab; a change is saved *)
(* (OnModuleStatusChanged).                                                  *)
ChangeModule(m, on) ==
  /\ Edit /\ ~locked /\ m \notin SystemModules /\ Changes(m, on)
  /\ \E refused \in Refusals(m, on) :
       LET s == SetModuleEnabled(m, on, refused)
       IN Becomes(s) /\ IF refused THEN UNCHANGED file ELSE SavePresets(s, presets)
  /\ want' = {}
  /\ UNCHANGED <<running, presets, locked, load>>

(* A field of an enabled module is edited: applied, and saved (SerializeModule). *)
EditField(m, data) ==
  /\ Edit /\ m \in enabled \ SystemModules /\ data # userdata[m]
  /\ LET s == PerformUpdate(Panel, m, data) IN Becomes(s) /\ SavePresets(s, presets)
  /\ want' = {}
  /\ UNCHANGED <<running, presets, locked, load>>

(* LockModules, UnlockModules: an application connects or leaves, at any time   *)
(* but at the start of the panel.                                            *)
LockModules ==
  /\ Happens /\ (load = NoLoad \/ load.saves)
  /\ locked' = ~locked
  /\ want' = IF load = NoLoad THEN want ELSE {}
  /\ UNCHANGED <<running, enabled, managed, userdata, config, current, presets, file, load>>

(* closeEvent saves; the next launch should show what is shown now.             *)
CloseEvent ==
  /\ Edit
  /\ SavePresets(Panel, presets) /\ running' = FALSE /\ locked' = FALSE
  /\ want' = {[enabled |-> enabled, data |-> userdata, whole |-> {m \in Registered : current[m] # NoData}]}
  /\ UNCHANGED <<enabled, managed, userdata, config, current, presets, load>>

(* The panel crashes: nothing is saved, or the file is cut off while it is.     *)
Crash ==
  /\ Happens
  /\ running' = FALSE /\ locked' = FALSE /\ want' = {} /\ load' = NoLoad /\ file' \in {file, NoFile}
  /\ UNCHANGED <<enabled, managed, userdata, config, current, presets>>

(* A field of the three groups; only some modules have kept fields or a buffer. *)
Edited(m) ==
  {[userdata[m] EXCEPT !.main = "chosen"]}
    \cup (IF m \in Alone THEN {} ELSE {[userdata[m] EXCEPT !.kept = "chosen"]})
    \cup (IF m = "Raytracing" THEN {[userdata[m] EXCEPT !.index = "chosen"]} ELSE {})

Next ==
  \/ LoadExistingPresets \/ DisableModule \/ LoadModule \/ EndLoad
  \/ \E name \in {presets[k].name : k \in DOMAIN presets} : LoadPreset(name) \/ DeletePreset(name)
  \/ \E typed \in TypedNames : CreateOrUpdatePreset(typed)
  \/ \E m \in Registered, on \in BOOLEAN : ChangeModule(m, on)
  \/ \E m \in Registered : \E data \in Edited(m) : EditField(m, data)
  \/ LockModules
  \/ CloseEvent
  \/ Crash

Spec == Init /\ [][Next]_vars

------------------------------------------------------------------------------
(* Modules that do not accept each other are never enabled together, though        *)
(* the driver may refuse to disable one, or an application lock them, while a  *)
(* preset loads.                                                            *)
EnabledAreCompatible == \A m, e \in enabled : m # e => Compatible(m, e)

(* What a trace source was given is what the panel shows, but for the ray       *)
(* history buffer, which BufferAsSelected is about.                          *)
ConfiguredAsShown ==
  running => \A m \in Registered : config[m] = [userdata[m] EXCEPT !.index = "default"]

(* After a preset was loaded without interference, and after the panel was       *)
(* closed and launched again, the modules and settings are those promised. The *)
(* kept fields of a module whose data are empty are DefaultsTaken's matter.    *)
SettingsComeBack ==
  running /\ load = NoLoad => \A w \in want :
    /\ enabled = w.enabled
    /\ \A m \in Registered \ SystemModules :
         userdata[m] = IF m \in w.whole THEN w.data[m] ELSE [w.data[m] EXCEPT !.kept = userdata[m].kept]

(* The settings the user sees are the ones saved, and the ones captures use.     *)
SettingsHold == ConfiguredAsShown /\ SettingsComeBack

(* The buffer a trace source was given is the one selected.                     *)
BufferAsSelected == \A m \in Registered : config[m].index = userdata[m].index

(* A module without data in a preset takes on the defaults.                     *)
DefaultsTaken ==
  running /\ load = NoLoad => \A w \in want : \A m \in Registered \ (SystemModules \cup w.whole) : userdata[m] = w.data[m]

(* A module that is enabled is one that gets connections.                       *)
EnabledIsManaged == enabled = managed

(* The presets have names of their own.                                        *)
NamesUnique == \A k, l \in DOMAIN presets : presets[k].name = presets[l].name => k = l
==============================================================================
