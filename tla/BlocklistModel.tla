---------------------------- MODULE BlocklistModel -----------------------------
(***************************************************************************)
(* The panel's blocklist: the lists of both platforms, the defaults the     *)
(* user removed, and what of it is in the settings.                        *)
(*                                                                         *)
(* The order of a list shows only on the screen, so a list is a set. Every   *)
(* operation runs in the GUI thread.                                       *)
(***************************************************************************)
EXTENDS Naturals, FiniteSets

CONSTANTS
  Names,       \* the entries there may be
  DefaultsOf,  \* the entries of blocklist.ini, by platform
  ExeNames,    \* the entries that end in .exe
  OldEntries,  \* the entries of a settings file of version 1
  Covers,      \* the names that an entry matches as a wildcard
  MaxEdits     \* how often the user does something

Platforms == {"Windows", "Linux"}
Nothing == [p \in Platforms |-> {}]

ASSUME EntriesAssumption == DefaultsOf \in [Platforms -> SUBSET Names] /\ OldEntries \subseteq Names

VARIABLES
  platform,    \* platform_
  blocklists,  \* blocklists_
  removed,     \* removed_default_blocklist_
  settings,    \* the settings file
  gone,        \* what the user removed and did not bring back since
  edits

listVars == <<platform, blocklists, removed, settings, gone, edits>>

(* The constructor: default_blocklist_ is filled by the first Load.          *)
ListInit ==
  /\ platform = "Unknown" /\ blocklists = Nothing /\ removed = Nothing /\ gone = Nothing
  /\ settings \in {[version |-> v, lists |-> Nothing, removed |-> Nothing] : v \in {1, 3}}
  /\ edits = 0

------------------------------------------------------------------------------
(* Version 1 had one list; by suffix, an entry is of Windows or of Linux.     *)
Migrated == [p \in Platforms |-> {n \in OldEntries : (n \in ExeNames) = (p = "Windows")}]

LoadedLists == IF settings.version = 1 THEN Migrated ELSE settings.lists

(* Load, for a platform. A migration rewrites the file.                      *)
Load(newPlatform) ==
  /\ platform' = newPlatform
  /\ removed' = settings.removed
  /\ blocklists' = [p \in Platforms |-> LoadedLists[p] \cup (DefaultsOf[p] \ settings.removed[p])]
  /\ settings' = IF settings.version = 1 THEN [settings EXCEPT !.version = 2, !.lists = Migrated] ELSE settings

(* Save: after every change.                                               *)
Save(lists, removedDefaults) ==
  /\ blocklists' = lists /\ removed' = removedDefaults
  /\ settings' = [version |-> 3, lists |-> lists, removed |-> removedDefaults]

Contains(name, p) == \E item \in blocklists[p] : name \in Covers[item]

ContainsNow(name) ==
  IF platform # "Unknown" THEN Contains(name, platform) ELSE \E p \in Platforms : Contains(name, p)

------------------------------------------------------------------------------
Edit == platform # "Unknown" /\ edits < MaxEdits /\ edits' = edits + 1

AddBlocked(name) ==
  /\ Edit /\ ~ContainsNow(name)
  /\ Save([blocklists EXCEPT ![platform] = @ \cup {name}], removed)
  /\ gone' = [gone EXCEPT ![platform] = @ \ {name}]
  /\ UNCHANGED platform

(* setData. A default that is renamed is not recorded as removed: it is back   *)
(* with the next Load, so it does not count as gone.                         *)
RenameBlocked(old, name) ==
  /\ Edit /\ old \in blocklists[platform] /\ ~ContainsNow(name)
  /\ Save([blocklists EXCEPT ![platform] = (@ \ {old}) \cup {name}], removed)
  /\ gone' = [gone EXCEPT ![platform] = @ \ {name}]
  /\ UNCHANGED platform

(* Mutant: a default that is removed is not recorded.                        *)
RemoveRowsUnrecorded(name) ==
  /\ Edit /\ name \in blocklists[platform]
  /\ Save([blocklists EXCEPT ![platform] = @ \ {name}], removed)
  /\ gone' = [gone EXCEPT ![platform] = @ \cup {name}]
  /\ UNCHANGED platform

RemoveRows(name) ==
  /\ Edit /\ name \in blocklists[platform]
  /\ Save([blocklists EXCEPT ![platform] = @ \ {name}],
          IF name \in DefaultsOf[platform] THEN [removed EXCEPT ![platform] = @ \cup {name}] ELSE removed)
  /\ gone' = [gone EXCEPT ![platform] = @ \cup {name}]
  /\ UNCHANGED platform

(* The list of the platform is reset, and the removals of every platform.     *)
RestoreDefaults ==
  /\ Edit
  /\ Save([blocklists EXCEPT ![platform] = DefaultsOf[platform]], Nothing)
  /\ gone' = [p \in Platforms |-> gone[p] \ DefaultsOf[p]]
  /\ UNCHANGED platform

(* A router is connected to, or given up; the panel is started anew.          *)
OnSystemInfoModelLoaded(p) == Load(p) /\ UNCHANGED <<gone, edits>>
NetDisconnecting == platform # "Unknown" /\ Load("Unknown") /\ UNCHANGED <<gone, edits>>

------------------------------------------------------------------------------
(* What the user took off a list stays off it, through reconnections, the other *)
(* platform's edits and restarts, until he brings it back.                      *)
RemovedStaysRemoved == \A p \in Platforms : gone[p] \cap blocklists[p] = {}
==============================================================================
