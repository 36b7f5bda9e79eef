--------------------------- MODULE ApplicationModel ----------------------------
(***************************************************************************)
(* The panel's list of applications, with the connections each has: which    *)
(* connections are let in, and that the modules are locked meanwhile.        *)
(* Composes ApplicationModel and Application with ModuleModel and the        *)
(* blocklist.                                                              *)
(*                                                                         *)
(* The DDTool library's thread filters and reports connections under         *)
(* connection_filter_mutex_. The GUI thread edits the list without it, so a   *)
(* removal looks and erases in two steps.                                    *)
(***************************************************************************)
EXTENDS BlocklistModel

CONSTANTS
  Connections, ProcessOf, NameOf, ApiOf,   \* what may connect
  Modules, SupportedApis, Conflicts,       \* the modules
  Overlap,                                 \* filtered while another is not reported yet
  LateEdits                                \* a rename is completed after its entry connected

(* A process has one executable, whose name its connections carry.           *)
ASSUME ProcessAssumption ==
  \A c, d \in Connections : ProcessOf[c] = ProcessOf[d] => NameOf[c] = NameOf[d]

VARIABLES
  apps,        \* applications_: the connections of each entry
  saved,       \* the entries in the settings
  mode,        \* auto_connect_mode_
  filter,      \* api_filter_
  enabled,     \* the modules that are enabled
  locked,      \* modules_locked_
  pending,     \* let in and not reported yet
  gui,         \* what the GUI thread is in the middle of
  failed       \* OnDriverConnected found no entry

appVars == <<apps, saved, mode, filter, enabled, locked, pending, gui, failed>>
vars == <<appVars, listVars>>

AppInit ==
  /\ apps = <<>> /\ saved = {}
  /\ mode = "Any" /\ filter = "WorkflowSupported"
  /\ enabled = {} /\ locked = FALSE /\ pending = {}
  /\ gui = [at |-> "idle"] /\ failed = FALSE

Init == ListInit /\ AppInit

------------------------------------------------------------------------------
Entries == DOMAIN apps
IsAlive(name) == apps[name] # {}
With(name, conns) == [n \in Entries \cup {name} |-> IF n = name THEN conns ELSE apps[n]]
Without(name) == [n \in Entries \ {name} |-> apps[n]]

(* Save writes the entries.                                                *)
SetApps(new) == apps' = new /\ saved' = DOMAIN new

IsApiSupportedByEnabledModules(api) == \E m \in enabled : api \in SupportedApis[m]

(* Mutant: another application's connections are no reason to ignore one.     *)
HasConnectedClientsNever(process) == FALSE

HasConnectedClients(process) ==
  \E n \in Entries : IsAlive(n) /\ \A c \in apps[n] : ProcessOf[c] # process

IsClientFilteredByAutoConnectMode(name) ==
  CASE mode = "Any" -> FALSE
    [] mode = "Existing" -> name \notin Entries
    [] OTHER -> TRUE

ShouldClientBeIgnored(c) ==
  \/ enabled = {}
  \/ IF filter = "WorkflowSupported" THEN ~IsApiSupportedByEnabledModules(ApiOf[c]) ELSE ApiOf[c] # filter
  \/ ContainsNow(NameOf[c])
  \/ IsClientFilteredByAutoConnectMode(NameOf[c])
  \/ HasConnectedClients(ProcessOf[c])

Known == pending \cup UNION {apps[n] : n \in Entries}

LetIn(c) ==
  /\ platform # "Unknown" /\ ~failed /\ c \notin Known
  /\ Overlap \/ pending = {}
  /\ ~ShouldClientBeIgnored(c)
  /\ pending' = pending \cup {c}
  /\ UNCHANGED <<apps, saved, mode, filter, enabled, locked, gui, failed, listVars>>

(* AddApplication adds no blocked name; without an entry there is nothing to   *)
(* connect to.                                                             *)
OnDriverConnected(c) ==
  /\ c \in pending /\ pending' = pending \ {c}
  /\ LET name == NameOf[c]
     IN IF name \notin Entries /\ ContainsNow(name)
        THEN failed' = TRUE /\ UNCHANGED <<apps, saved, locked>>
        ELSE /\ IF name \in Entries
                THEN apps' = With(name, apps[name] \cup {c}) /\ UNCHANGED saved
                ELSE SetApps(With(name, {c}))
             /\ locked' = IF name \in Entries /\ IsAlive(name) THEN locked ELSE TRUE
             /\ UNCHANGED failed
  /\ UNCHANGED <<mode, filter, enabled, gui, listVars>>

OnDriverDisconnected(c) ==
  /\ \E n \in Entries : c \in apps[n]
  /\ apps' = [n \in Entries |-> apps[n] \ {c}]
  /\ locked' = IF \E n \in Entries : apps[n] = {c} THEN FALSE ELSE locked
  /\ UNCHANGED <<saved, mode, filter, enabled, pending, gui, failed, listVars>>

------------------------------------------------------------------------------
(* The user.                                                               *)

GuiIdle == gui.at = "idle" /\ ~failed
AppEdit == GuiIdle /\ Edit

AddApplication(name) ==
  /\ AppEdit /\ name \notin Entries /\ ~ContainsNow(name)
  /\ SetApps(With(name, {}))
  /\ UNCHANGED <<mode, filter, enabled, locked, pending, gui, failed, platform, blocklists, removed, settings, gone>>

(* removeRows: looks, then erases.                                         *)
RemoveApplication(name) ==
  /\ AppEdit /\ name \in Entries /\ ~IsAlive(name)
  /\ gui' = [at |-> "erase", name |-> name]
  /\ UNCHANGED <<apps, saved, mode, filter, enabled, locked, pending, failed, platform, blocklists, removed, settings, gone>>

EraseApplication ==
  /\ gui.at = "erase"
  /\ SetApps(Without(gui.name)) /\ gui' = [at |-> "idle"]
  /\ UNCHANGED <<mode, filter, enabled, locked, pending, failed, listVars>>

(* setData. Only an entry that is not alive can be edited (flags), but nobody  *)
(* looks again when the edit is completed.                                   *)
RenameApplication(old, name) ==
  /\ AppEdit /\ old \in Entries /\ (LateEdits \/ ~IsAlive(old)) /\ name \notin Entries /\ ~ContainsNow(name)
  /\ SetApps([n \in (Entries \ {old}) \cup {name} |-> IF n = name THEN apps[old] ELSE apps[n]])
  /\ UNCHANGED <<mode, filter, enabled, locked, pending, gui, failed, platform, blocklists, removed, settings, gone>>

SetAutoConnectionMode(m) ==
  /\ AppEdit /\ m # mode /\ mode' = m
  /\ UNCHANGED <<apps, saved, filter, enabled, locked, pending, gui, failed, platform, blocklists, removed, settings, gone>>

(* SetModuleEnabled: looks at the lock, then has the module change.           *)
SetModuleEnabled(m) ==
  /\ AppEdit /\ ~locked
  /\ m \in enabled \/ \A e \in enabled : {e, m} \notin Conflicts
  /\ gui' = [at |-> "enable", module |-> m]
  /\ UNCHANGED <<apps, saved, mode, filter, enabled, locked, pending, failed, platform, blocklists, removed, settings, gone>>

(* OnModuleStatusChanged: a filter no enabled module supports is given up.     *)
ModuleStatusChanged ==
  /\ gui.at = "enable"
  /\ LET on == gui.module \notin enabled
     IN /\ enabled' = IF on THEN enabled \cup {gui.module} ELSE enabled \ {gui.module}
        /\ filter' = IF ~on /\ ~\E m \in enabled \ {gui.module} : filter \in SupportedApis[m]
                     THEN "WorkflowSupported" ELSE filter
  /\ gui' = [at |-> "idle"]
  /\ UNCHANGED <<apps, saved, mode, locked, pending, failed, listVars>>

SetApiFilter(api) ==
  /\ AppEdit /\ filter # api /\ filter' = api
  /\ UNCHANGED <<apps, saved, mode, enabled, locked, pending, gui, failed, platform, blocklists, removed, settings, gone>>

(* OnBlocklistItemChanged: an entry that is blocked now goes, if not alive.    *)
BlockedChanged(name) ==
  IF name \in Entries /\ ~IsAlive(name) THEN SetApps(Without(name)) ELSE UNCHANGED <<apps, saved>>

BlocklistEdit ==
  /\ GuiIdle
  /\ \/ \E n \in Names : AddBlocked(n) /\ BlockedChanged(n)
     \/ \E o, n \in Names : RenameBlocked(o, n) /\ BlockedChanged(n)
     \/ \E n \in Names : RemoveRows(n) /\ UNCHANGED <<apps, saved>>
     \/ RestoreDefaults /\ UNCHANGED <<apps, saved>>
  /\ UNCHANGED <<mode, filter, enabled, locked, pending, gui, failed>>

(* A router comes with its platform, and goes after its connections.          *)
RouterComes(p) == GuiIdle /\ platform = "Unknown" /\ OnSystemInfoModelLoaded(p) /\ UNCHANGED appVars
RouterGoes == GuiIdle /\ Known = {} /\ NetDisconnecting /\ UNCHANGED appVars

------------------------------------------------------------------------------
Apis == UNION {SupportedApis[m] : m \in Modules}

Next ==
  \/ \E c \in Connections : LetIn(c) \/ OnDriverConnected(c) \/ OnDriverDisconnected(c)
  \/ \E n \in Names : AddApplication(n) \/ RemoveApplication(n)
  \/ EraseApplication
  \/ \E o, n \in Names : RenameApplication(o, n)
  \/ \E m \in {"Any", "Existing", "None"} : SetAutoConnectionMode(m)
  \/ \E m \in Modules : SetModuleEnabled(m)
  \/ ModuleStatusChanged
  \/ \E a \in Apis : SetApiFilter(a)
  \/ BlocklistEdit
  \/ \E p \in Platforms : RouterComes(p)
  \/ RouterGoes

Spec == Init /\ [][Next]_vars

------------------------------------------------------------------------------
(* While an application of the list is connected the modules are locked,       *)
(* whatever the user does to the list meanwhile.                              *)
LockedWhileConnected == \A n \in Entries : IsAlive(n) => locked

(* A connection that was let in finds its entry.                              *)
ReportedHasEntry == ~failed
==============================================================================
