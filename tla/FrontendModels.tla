----------------------------- MODULE FrontendModels -----------------------------
(***************************************************************************)
(* The models behind the panel's windows that outlive a connection: the        *)
(* application list with its blocklist, which is extended, and the modules    *)
(* with their settings and presets, an instance of ModuleSettings over         *)
(* variables and bounds of its own. The two share no state.                  *)
(***************************************************************************)
EXTENDS ApplicationModel, Sequences

CONSTANTS
  ModuleOrder, SystemModules, FeatureModules, Alone, \* the modules
  DefaultPresets, TypedNames, Trimmed,               \* the presets
  MaxSettingsEdits, MaxPresets                       \* bounds

VARIABLES running, modulesOn, managed, userdata, given, current, presets, \* ModuleSettings
          settingsFile, modulesLocked, loading, want, settingsEdits

Ms == INSTANCE ModuleSettings WITH MaxEdits <- MaxSettingsEdits,
        enabled <- modulesOn, config <- given, file <- settingsFile, locked <- modulesLocked,
        load <- loading, edits <- settingsEdits

(* Modules that accept no other are none of the system's. The presets that are *)
(* shipped enable only modules that accept each other, and have no data.      *)
ASSUME ModulesAssumption ==
  /\ ModuleOrder \in Seq(Ms!Registered) /\ SystemModules \cap Alone = {}
  /\ DefaultPresets \in Seq(Ms!Range(DefaultPresets))
  /\ \A k \in DOMAIN DefaultPresets :
       LET p == DefaultPresets[k]
       IN /\ p = [name |-> p.name, builtin |-> p.builtin, modules |-> p.modules]
          /\ \A m \in DOMAIN p.modules : p.modules[m] \in [enabled : BOOLEAN, data : {Ms!NoData}]
          /\ \A m, e \in DOMAIN p.modules :
               m # e /\ p.modules[m].enabled /\ p.modules[e].enabled => Ms!Compatible(m, e)

------------------------------------------------------------------------------
(* Modules that exclude each other are never enabled together, whatever is      *)
(* refused or locked while a preset loads (LoadPreset).                       *)
EnabledAreCompatible == Ms!EnabledAreCompatible

(* What a trace source was given is what the panel shows, and a loaded preset  *)
(* or a panel launched again shows what was saved (LoadSerializedData,         *)
(* LoadExistingPresets).                                                   *)
SettingsHold == Ms!SettingsHold
==============================================================================
