------------------------- MODULE FrontendModelsProofs -------------------------
(***************************************************************************)
(* What the models behind the windows guarantee, with proofs: the application  *)
(* list and its blocklist for any number of connections, entries, modules and *)
(* edits, the panel's settings for any modules and presets.                  *)
(***************************************************************************)
EXTENDS FrontendModels, SequenceTheorems, WellFoundedInduction, TLAPS

(* ----- The blocklist. -----                                                *)

Lists == [Platforms -> SUBSET Names]

(* What a Load would bring back is nothing the user removed: the file holds no  *)
(* such entry, and a default among them is one of the removed defaults. Before  *)
(* the first Load, which migrates a file of version 1, he has removed nothing.  *)
BlocklistInv ==
  /\ platform \in Platforms \cup {"Unknown"}
  /\ blocklists \in Lists /\ removed \in Lists /\ gone \in Lists
  /\ settings \in [version : {1, 2, 3}, lists : Lists, removed : Lists]
  /\ removed = settings.removed
  /\ settings.version = 1 => gone = Nothing
  /\ \A p \in Platforms :
       /\ gone[p] \cap settings.lists[p] = {}
       /\ gone[p] \cap DefaultsOf[p] \subseteq settings.removed[p]
       /\ gone[p] \cap blocklists[p] = {}

LEMMA BlocklistInit == ListInit => BlocklistInv
<1> SUFFICES ASSUME ListInit PROVE BlocklistInv
  OBVIOUS
<1>1. Nothing \in Lists /\ \A p \in Platforms : Nothing[p] = {}
  BY DEF Nothing, Lists
<1>2. PICK v \in {1, 3} : settings = [version |-> v, lists |-> Nothing, removed |-> Nothing]
  BY DEF ListInit
<1> QED
  BY <1>1, <1>2 DEF ListInit, BlocklistInv

LEMMA LoadKeeps ==
  ASSUME BlocklistInv, NEW p \in Platforms \cup {"Unknown"}, Load(p), UNCHANGED gone
  PROVE BlocklistInv'
<1> USE EntriesAssumption DEF BlocklistInv, Lists
<1>1. CASE settings.version = 1
  <2>1. Migrated \in Lists
    BY DEF Migrated
  <2>2. /\ platform' = p /\ removed' = settings.removed /\ gone' = Nothing
        /\ blocklists' = [q \in Platforms |-> Migrated[q] \cup (DefaultsOf[q] \ settings.removed[q])]
        /\ settings' = [settings EXCEPT !.version = 2, !.lists = Migrated]
    BY <1>1 DEF Load, LoadedLists
  <2>3. blocklists' \in Lists
    BY <2>1, <2>2
  <2>4. settings' \in [version : {1, 2, 3}, lists : Lists, removed : Lists] /\ settings'.removed = settings.removed
    BY <2>1, <2>2
  <2> QED
    BY <1>1, <2>2, <2>3, <2>4 DEF Nothing
<1>2. CASE settings.version # 1
  <2>1. /\ platform' = p /\ removed' = settings.removed /\ settings' = settings
        /\ blocklists' = [q \in Platforms |-> settings.lists[q] \cup (DefaultsOf[q] \ settings.removed[q])]
    BY <1>2 DEF Load, LoadedLists
  <2> QED
    BY <1>2, <2>1
<1> QED
  BY <1>1, <1>2

(* A Save whose lists hold nothing that is gone, and whose removed defaults     *)
(* hold every default that is.                                               *)
LEMMA SaveKeeps ==
  ASSUME BlocklistInv, NEW lists \in Lists, NEW defaults \in Lists, Save(lists, defaults),
         platform' = platform, gone' \in Lists,
         \A p \in Platforms : gone'[p] \cap lists[p] = {} /\ gone'[p] \cap DefaultsOf[p] \subseteq defaults[p]
  PROVE BlocklistInv'
BY DEF BlocklistInv, Save

LEMMA BlocklistEditKeeps ==
  ASSUME BlocklistInv, NEW o \in Names, NEW n \in Names,
         AddBlocked(n) \/ RenameBlocked(o, n) \/ RemoveRows(n)
  PROVE BlocklistInv'
<1> USE EntriesAssumption DEF BlocklistInv, Lists, Edit
<1>1. CASE AddBlocked(n)
  <2> DEFINE lists == [blocklists EXCEPT ![platform] = @ \cup {n}]
  <2>1. Save(lists, removed) /\ platform \in Platforms /\ platform' = platform
    BY <1>1 DEF AddBlocked
  <2>2. gone' = [gone EXCEPT ![platform] = @ \ {n}]
    BY <1>1 DEF AddBlocked
  <2>3. lists \in Lists /\ removed \in Lists /\ gone' \in Lists
    BY <2>1, <2>2
  <2>4. \A p \in Platforms : gone'[p] \cap lists[p] = {} /\ gone'[p] \cap DefaultsOf[p] \subseteq removed[p]
    BY <2>1, <2>2
  <2> HIDE DEF lists, BlocklistInv, Lists
  <2> QED
    BY <2>1, <2>3, <2>4, SaveKeeps
<1>2. CASE RenameBlocked(o, n)
  <2> DEFINE lists == [blocklists EXCEPT ![platform] = (@ \ {o}) \cup {n}]
  <2>1. Save(lists, removed) /\ platform \in Platforms /\ platform' = platform
    BY <1>2 DEF RenameBlocked
  <2>2. gone' = [gone EXCEPT ![platform] = @ \ {n}]
    BY <1>2 DEF RenameBlocked
  <2>3. lists \in Lists /\ removed \in Lists /\ gone' \in Lists
    BY <2>1, <2>2
  <2>4. \A p \in Platforms : gone'[p] \cap lists[p] = {} /\ gone'[p] \cap DefaultsOf[p] \subseteq removed[p]
    BY <2>1, <2>2
  <2> HIDE DEF lists, BlocklistInv, Lists
  <2> QED
    BY <2>1, <2>3, <2>4, SaveKeeps
<1>3. CASE RemoveRows(n)
  <2> DEFINE lists == [blocklists EXCEPT ![platform] = @ \ {n}]
             defaults == IF n \in DefaultsOf[platform] THEN [removed EXCEPT ![platform] = @ \cup {n}] ELSE removed
  <2>1. Save(lists, defaults) /\ platform \in Platforms /\ platform' = platform
    BY <1>3 DEF RemoveRows
  <2>2. gone' = [gone EXCEPT ![platform] = @ \cup {n}]
    BY <1>3 DEF RemoveRows
  <2>3. lists \in Lists /\ defaults \in Lists /\ gone' \in Lists
    BY <2>1, <2>2
  <2>4. \A p \in Platforms : gone'[p] \cap lists[p] = {}
    BY <2>1, <2>2
  <2>5. \A p \in Platforms : gone'[p] \cap DefaultsOf[p] \subseteq defaults[p]
    BY <2>1, <2>2
  <2> HIDE DEF lists, defaults, BlocklistInv, Lists
  <2> QED
    BY <2>1, <2>3, <2>4, <2>5, SaveKeeps
<1> QED
  BY <1>1, <1>2, <1>3

LEMMA RestoreKeeps ==
  ASSUME BlocklistInv, RestoreDefaults
  PROVE BlocklistInv'
<1> USE EntriesAssumption DEF BlocklistInv, Lists, Edit
<1> DEFINE lists == [blocklists EXCEPT ![platform] = DefaultsOf[platform]]
<1>1. Save(lists, Nothing) /\ platform \in Platforms /\ platform' = platform
  BY DEF RestoreDefaults
<1>2. gone' = [p \in Platforms |-> gone[p] \ DefaultsOf[p]]
  BY DEF RestoreDefaults
<1>3. lists \in Lists /\ Nothing \in Lists /\ gone' \in Lists
  BY <1>1, <1>2 DEF Nothing
<1>4. \A p \in Platforms : gone'[p] \cap lists[p] = {} /\ gone'[p] \cap DefaultsOf[p] \subseteq Nothing[p]
  BY <1>1, <1>2
<1> HIDE DEF lists, BlocklistInv, Lists
<1> QED
  BY <1>1, <1>3, <1>4, SaveKeeps

LEMMA BlocklistStep == BlocklistInv /\ [Next]_vars => BlocklistInv'
<1> SUFFICES ASSUME BlocklistInv, [Next]_vars PROVE BlocklistInv'
  OBVIOUS
<1>1. CASE UNCHANGED <<platform, blocklists, removed, settings, gone>>
  BY <1>1 DEF BlocklistInv
<1>2. ASSUME NEW c \in Connections, LetIn(c) \/ OnDriverConnected(c) \/ OnDriverDisconnected(c) PROVE BlocklistInv'
  BY <1>1, <1>2 DEF LetIn, OnDriverConnected, OnDriverDisconnected, listVars
<1>3. ASSUME NEW n \in Names, AddApplication(n) \/ RemoveApplication(n) PROVE BlocklistInv'
  BY <1>1, <1>3 DEF AddApplication, RemoveApplication
<1>4. CASE EraseApplication \/ ModuleStatusChanged
  BY <1>1, <1>4 DEF EraseApplication, ModuleStatusChanged, listVars
<1>5. ASSUME NEW o \in Names, NEW n \in Names, RenameApplication(o, n) PROVE BlocklistInv'
  BY <1>1, <1>5 DEF RenameApplication
<1>6. ASSUME NEW m \in {"Any", "Existing", "None"}, SetAutoConnectionMode(m) PROVE BlocklistInv'
  BY <1>1, <1>6 DEF SetAutoConnectionMode
<1>7. ASSUME NEW m \in Modules, SetModuleEnabled(m) PROVE BlocklistInv'
  BY <1>1, <1>7 DEF SetModuleEnabled
<1>8. ASSUME NEW a \in Apis, SetApiFilter(a) PROVE BlocklistInv'
  BY <1>1, <1>8 DEF SetApiFilter
<1>9. CASE BlocklistEdit
  <2>1. \/ \E o, n \in Names : AddBlocked(n) \/ RenameBlocked(o, n) \/ RemoveRows(n)
        \/ RestoreDefaults
    BY <1>9 DEF BlocklistEdit
  <2>2. CASE \E o, n \in Names : AddBlocked(n) \/ RenameBlocked(o, n) \/ RemoveRows(n)
    BY <2>2, BlocklistEditKeeps
  <2>3. CASE RestoreDefaults
    BY <2>3, RestoreKeeps
  <2> QED
    BY <2>1, <2>2, <2>3
<1>10. ASSUME NEW p \in Platforms, RouterComes(p) PROVE BlocklistInv'
  BY <1>10, LoadKeeps DEF RouterComes, OnSystemInfoModelLoaded
<1>11. CASE RouterGoes
  BY <1>11, LoadKeeps DEF RouterGoes, NetDisconnecting
<1>12. CASE UNCHANGED vars
  BY <1>1, <1>12 DEF vars, listVars
<1> QED
  BY <1>2, <1>3, <1>4, <1>5, <1>6, <1>7, <1>8, <1>9, <1>10, <1>11, <1>12 DEF Next

(* What the user took off a list stays off it through reconnections, edits of   *)
(* the other platform's list and restarts (BlocklistModel::Load, Save,         *)
(* RemoveRows).                                                            *)
THEOREM RemovalsStay == Spec => []RemovedStaysRemoved
<1>1. BlocklistInv => RemovedStaysRemoved
  BY DEF BlocklistInv, RemovedStaysRemoved
<1>2. Init => BlocklistInv
  BY BlocklistInit DEF Init
<1> QED
  BY <1>1, <1>2, BlocklistStep, PTL DEF Spec

(* ----- The applications. -----                                             *)

(* The connections there are belong to one process, so that one entry at most   *)
(* is alive, and the end of its last connection is the end of them all.         *)
AppInv ==
  /\ apps \in [Entries -> SUBSET Connections]
  /\ pending \subseteq Connections
  /\ \A n \in Entries : \A c \in apps[n] : NameOf[c] = n
  /\ \A c, d \in Known : ProcessOf[c] = ProcessOf[d]
  /\ LockedWhileConnected

LEMMA KnownAre ==
  ASSUME NEW c
  PROVE c \in Known <=> c \in pending \/ \E n \in Entries : c \in apps[n]
BY DEF Known

LEMMA KnownThen ==
  ASSUME NEW c
  PROVE c \in Known' <=> c \in pending' \/ \E n \in Entries' : c \in apps'[n]
BY DEF Known

LEMMA AppsInit == AppInit => AppInv
<1> SUFFICES ASSUME AppInit PROVE AppInv
  OBVIOUS
<1>1. Entries = {} /\ pending = {}
  BY DEF AppInit, Entries
<1>2. apps \in [Entries -> SUBSET Connections]
  BY <1>1 DEF AppInit, Entries
<1>3. \A c : c \notin Known
  BY <1>1, KnownAre
<1> QED
  BY <1>1, <1>2, <1>3 DEF AppInv, LockedWhileConnected

(* A step after which no entry has a connection that it had not before.        *)
LEMMA AppsShrink ==
  ASSUME AppInv, pending' \subseteq pending, apps' \in [Entries' -> SUBSET Connections],
         \A n \in Entries' : apps'[n] # {} => n \in Entries /\ apps'[n] \subseteq apps[n],
         locked' = locked \/ \A n \in Entries' : apps'[n] = {}
  PROVE AppInv'
<1>1. \A c \in Known' : c \in Known
  BY KnownAre, KnownThen
<1>2. LockedWhileConnected'
  BY DEF AppInv, LockedWhileConnected, IsAlive
<1>3. \A n \in Entries' : \A c \in apps'[n] : NameOf[c] = n
  BY DEF AppInv
<1> QED
  BY <1>1, <1>2, <1>3 DEF AppInv

LEMMA AppsStep ==
  ASSUME Overlap = FALSE, LateEdits = FALSE, AppInv, [Next]_vars
  PROVE AppInv'
<1>types. apps \in [Entries -> SUBSET Connections] /\ pending \subseteq Connections
  BY DEF AppInv
<1>1. CASE UNCHANGED <<apps, pending, locked>>
  BY <1>1 DEF AppInv, Known, Entries, LockedWhileConnected, IsAlive
<1>2. ASSUME NEW c \in Connections, LetIn(c) PROVE AppInv'
  <2>1. pending = {} /\ pending' = {c} /\ UNCHANGED <<apps, locked>> /\ Entries' = Entries
    BY <1>2 DEF LetIn, Entries
  <2>2. \A n \in Entries : apps[n] # {} => \E d \in apps[n] : ProcessOf[d] = ProcessOf[c]
    BY <1>2 DEF LetIn, ShouldClientBeIgnored, HasConnectedClients, IsAlive
  <2>3. \A d \in Known : ProcessOf[d] = ProcessOf[c]
    <3> SUFFICES ASSUME NEW d \in Known PROVE ProcessOf[d] = ProcessOf[c]
      OBVIOUS
    <3>1. PICK n \in Entries : d \in apps[n]
      BY <2>1, KnownAre
    <3>2. PICK e \in apps[n] : ProcessOf[e] = ProcessOf[c]
      BY <2>2, <3>1
    <3>3. e \in Known
      BY <3>2, KnownAre
    <3> QED
      BY <3>2, <3>3 DEF AppInv
  <2>4. \A d \in Known' : d = c \/ d \in Known
    BY <2>1, KnownAre, KnownThen
  <2>5. \A d, e \in Known' : ProcessOf[d] = ProcessOf[e]
    BY <2>3, <2>4 DEF AppInv
  <2>6. LockedWhileConnected'
    BY <2>1 DEF AppInv, LockedWhileConnected, IsAlive
  <2> QED
    BY <2>1, <2>5, <2>6 DEF AppInv
<1>3. ASSUME NEW c \in Connections, OnDriverConnected(c) PROVE AppInv'
  <2> DEFINE name == NameOf[c]
  <2>1. c \in pending /\ pending' = pending \ {c}
    BY <1>3 DEF OnDriverConnected
  <2>2. CASE name \notin Entries /\ ContainsNow(name)
    <3>1. UNCHANGED <<apps, locked>> /\ Entries' = Entries
      BY <1>3, <2>2 DEF OnDriverConnected, Entries
    <3> QED
      BY <2>1, <3>1, <1>types, AppsShrink
  <2>3. CASE ~(name \notin Entries /\ ContainsNow(name))
    <3>1. /\ apps' = With(name, (IF name \in Entries THEN apps[name] ELSE {}) \cup {c})
          /\ locked' = IF name \in Entries /\ IsAlive(name) THEN locked ELSE TRUE
      BY <1>3, <2>3 DEF OnDriverConnected, SetApps
    <3>2. /\ Entries' = Entries \cup {name}
          /\ apps' \in [Entries' -> SUBSET Connections]
          /\ apps'[name] = (IF name \in Entries THEN apps[name] ELSE {}) \cup {c}
          /\ \A n \in Entries \ {name} : apps'[n] = apps[n]
      BY <3>1, <1>types DEF With, Entries
    <3>3. \A d \in Known' : d \in Known
      BY <2>1, <3>2, KnownAre, KnownThen
    <3>4. \A n \in Entries' : \A d \in apps'[n] : NameOf[d] = n
      BY <3>2 DEF AppInv
    <3>5. \A n \in Entries' : n # name => apps'[n] = {}
      <4> SUFFICES ASSUME NEW n \in Entries', n # name, NEW d \in apps'[n] PROVE FALSE
        OBVIOUS
      <4>1. d \in apps[n] /\ n \in Entries /\ NameOf[d] = n /\ d \in Connections
        BY <3>2, <1>types DEF AppInv
      <4>2. ProcessOf[d] = ProcessOf[c]
        BY <2>1, <4>1, KnownAre DEF AppInv
      <4> QED
        BY <4>1, <4>2, ProcessAssumption
    <3>6. locked'
      BY <3>1 DEF AppInv, LockedWhileConnected
    <3>7. LockedWhileConnected'
      BY <3>6 DEF LockedWhileConnected
    <3> QED
      BY <2>1, <3>2, <3>3, <3>4, <3>7, <1>types DEF AppInv
  <2> QED
    BY <2>2, <2>3
<1>4. ASSUME NEW c \in Connections, OnDriverDisconnected(c) PROVE AppInv'
  <2>1. /\ apps' = [n \in Entries |-> apps[n] \ {c}] /\ pending' = pending
        /\ locked' = IF \E n \in Entries : apps[n] = {c} THEN FALSE ELSE locked
    BY <1>4 DEF OnDriverDisconnected
  <2>2. Entries' = Entries /\ apps' \in [Entries' -> SUBSET Connections]
        /\ \A n \in Entries : apps'[n] = apps[n] \ {c}
    BY <2>1, <1>types DEF Entries
  <2>3. ASSUME NEW n \in Entries, apps[n] = {c}, NEW m \in Entries, NEW d \in apps'[m] PROVE FALSE
    <3>1. d \in apps[m] /\ d # c /\ c \in apps[n] /\ c \in Connections /\ d \in Connections
      BY <2>2, <2>3, <1>types
    <3>2. ProcessOf[d] = ProcessOf[c]
      BY <3>1, KnownAre DEF AppInv
    <3>3. NameOf[d] = m /\ NameOf[c] = n /\ NameOf[d] = NameOf[c]
      BY <3>1, <3>2, ProcessAssumption DEF AppInv
    <3> QED
      BY <2>3, <3>1, <3>3
  <2>4. locked' = locked \/ \A n \in Entries' : apps'[n] = {}
    BY <2>1, <2>2, <2>3
  <2> QED
    BY <2>1, <2>2, <2>4, AppsShrink
<1>5. ASSUME NEW name, SetApps(Without(name)), UNCHANGED <<pending, locked>> PROVE AppInv'
  <2>1. Entries' = Entries \ {name} /\ apps' \in [Entries' -> SUBSET Connections]
        /\ \A n \in Entries' : apps'[n] = apps[n]
    BY <1>5, <1>types DEF SetApps, Without, Entries
  <2> QED
    BY <1>5, <2>1, AppsShrink
<1>6. ASSUME NEW name \in Names, AddApplication(name) PROVE AppInv'
  <2>1. apps' = With(name, {}) /\ name \notin Entries /\ UNCHANGED <<pending, locked>>
    BY <1>6 DEF AddApplication, SetApps
  <2>2. Entries' = Entries \cup {name} /\ apps' \in [Entries' -> SUBSET Connections]
        /\ apps'[name] = {} /\ \A n \in Entries : apps'[n] = apps[n]
    BY <2>1, <1>types DEF With, Entries
  <2> QED
    BY <2>1, <2>2, AppsShrink
<1>7. ASSUME NEW name \in Names, RemoveApplication(name) PROVE AppInv'
  BY <1>1, <1>7 DEF RemoveApplication
<1>8. CASE EraseApplication
  BY <1>5, <1>8 DEF EraseApplication
<1>9. ASSUME NEW old \in Names, NEW name \in Names, RenameApplication(old, name) PROVE AppInv'
  <2>1. /\ old \in Entries /\ apps[old] = {} /\ name \notin Entries /\ UNCHANGED <<pending, locked>>
        /\ apps' = [n \in (Entries \ {old}) \cup {name} |-> IF n = name THEN apps[old] ELSE apps[n]]
    BY <1>9 DEF RenameApplication, SetApps, IsAlive
  <2>2. Entries' = (Entries \ {old}) \cup {name} /\ apps' \in [Entries' -> SUBSET Connections]
        /\ apps'[name] = {} /\ \A n \in Entries' \ {name} : apps'[n] = apps[n]
    BY <2>1, <1>types DEF Entries
  <2> QED
    BY <2>1, <2>2, AppsShrink
<1>10. ASSUME NEW m \in {"Any", "Existing", "None"}, SetAutoConnectionMode(m) PROVE AppInv'
  BY <1>1, <1>10 DEF SetAutoConnectionMode
<1>11. ASSUME NEW m \in Modules, SetModuleEnabled(m) PROVE AppInv'
  BY <1>1, <1>11 DEF SetModuleEnabled
<1>12. CASE ModuleStatusChanged
  BY <1>1, <1>12 DEF ModuleStatusChanged
<1>13. ASSUME NEW a \in Apis, SetApiFilter(a) PROVE AppInv'
  BY <1>1, <1>13 DEF SetApiFilter
<1>14. CASE BlocklistEdit
  <2>1. /\ UNCHANGED <<pending, locked>>
        /\ UNCHANGED <<apps, saved>> \/ \E n \in Names : SetApps(Without(n))
    BY <1>14 DEF BlocklistEdit, BlockedChanged
  <2> QED
    BY <1>1, <1>5, <2>1
<1>15. ASSUME NEW p \in Platforms, RouterComes(p) PROVE AppInv'
  BY <1>1, <1>15 DEF RouterComes, appVars
<1>16. CASE RouterGoes
  BY <1>1, <1>16 DEF RouterGoes, appVars
<1>17. CASE UNCHANGED vars
  BY <1>1, <1>17 DEF vars, appVars
<1> QED
  BY <1>2, <1>3, <1>4, <1>6, <1>7, <1>8, <1>9, <1>10, <1>11, <1>12, <1>13, <1>14, <1>15, <1>16, <1>17
  DEF Next

(* At most one entry has connections.                                         *)
OneApplication == \A n, m \in Entries : IsAlive(n) /\ IsAlive(m) => n = m

(* It is so if a connection is reported before the next is let in and no rename  *)
(* is completed late: then all connections are of one process, and under its    *)
(* name.                                                                    *)
LEMMA InOrderOneApplication ==
  ASSUME Overlap = FALSE, LateEdits = FALSE
  PROVE Spec => []OneApplication
<1>1. Init => AppInv
  BY AppsInit DEF Init
<1>2. AppInv /\ [Next]_vars => AppInv'
  BY AppsStep
<1>3. AppInv => OneApplication
  <2> SUFFICES ASSUME AppInv, NEW n \in Entries, NEW m \in Entries, NEW c \in apps[n], NEW d \in apps[m]
               PROVE n = m
    BY DEF OneApplication, IsAlive
  <2>1. c \in Connections /\ d \in Connections /\ c \in Known /\ d \in Known
    BY KnownAre DEF AppInv
  <2> QED
    BY <2>1, ProcessAssumption DEF AppInv
<1> QED
  BY <1>1, <1>2, <1>3, PTL DEF Spec

LockInv ==
  /\ apps \in [Entries -> SUBSET Connections] /\ pending \subseteq Connections
  /\ LockedWhileConnected

(* A step that connects nobody and leaves the lock.                           *)
LEMMA LockShrink ==
  ASSUME LockInv, pending' \subseteq pending, apps' \in [Entries' -> SUBSET Connections],
         \A n \in Entries' : apps'[n] # {} => \E m \in Entries : apps[m] # {}, locked' = locked
  PROVE LockInv'
BY DEF LockInv, LockedWhileConnected, IsAlive

LEMMA LockStep ==
  ASSUME LockInv, OneApplication, [Next]_vars
  PROVE LockInv'
<1>types. apps \in [Entries -> SUBSET Connections] /\ pending \subseteq Connections
  BY DEF LockInv
<1>1. ASSUME UNCHANGED <<apps, locked>>, pending' \subseteq pending PROVE LockInv'
  BY <1>1 DEF LockInv, LockedWhileConnected, Entries, IsAlive
<1>2. ASSUME NEW c \in Connections, LetIn(c) PROVE LockInv'
  BY <1>2 DEF LetIn, LockInv, LockedWhileConnected, Entries, IsAlive
<1>3. ASSUME NEW c \in Connections, OnDriverConnected(c) PROVE LockInv'
  <2>1. CASE UNCHANGED <<apps, saved>>
    <3>1. (locked' = locked \/ locked' = TRUE) /\ pending' \subseteq pending
      BY <1>3 DEF OnDriverConnected
    <3> QED
      BY <2>1, <3>1 DEF LockInv, LockedWhileConnected, Entries, IsAlive
  <2>2. CASE NameOf[c] \in Entries /\ IsAlive(NameOf[c])
    <3>1. locked /\ UNCHANGED locked /\ pending' \subseteq pending
      BY <1>3, <2>2 DEF OnDriverConnected, LockInv, LockedWhileConnected
    <3>2. apps' = With(NameOf[c], apps[NameOf[c]] \cup {c})
      BY <1>3, <2>2 DEF OnDriverConnected
    <3>3. apps' \in [Entries' -> SUBSET Connections]
      BY <3>2, <2>2, <1>types DEF With, Entries
    <3> QED
      BY <3>1, <3>3, <1>types DEF LockInv, LockedWhileConnected
  <2>3. CASE ~(NameOf[c] \in Entries /\ IsAlive(NameOf[c])) /\ ~UNCHANGED <<apps, saved>>
    <3>1. locked' = TRUE /\ pending' \subseteq pending
      BY <1>3, <2>3 DEF OnDriverConnected
    <3>2. apps' = With(NameOf[c], {c}) \/ (NameOf[c] \in Entries /\ apps' = With(NameOf[c], apps[NameOf[c]] \cup {c}))
      BY <1>3, <2>3 DEF OnDriverConnected, SetApps
    <3>3. apps' \in [Entries' -> SUBSET Connections]
      BY <3>2, <1>types DEF With, Entries
    <3> QED
      BY <3>1, <3>3, <1>types DEF LockInv, LockedWhileConnected
  <2> QED
    BY <2>1, <2>2, <2>3
<1>4. ASSUME NEW c \in Connections, OnDriverDisconnected(c) PROVE LockInv'
  <2>1. /\ apps' = [n \in Entries |-> apps[n] \ {c}] /\ pending' = pending
        /\ locked' = IF \E n \in Entries : apps[n] = {c} THEN FALSE ELSE locked
    BY <1>4 DEF OnDriverDisconnected
  <2>2. Entries' = Entries /\ apps' \in [Entries' -> SUBSET Connections]
        /\ \A n \in Entries : apps'[n] = apps[n] \ {c}
    BY <2>1, <1>types DEF Entries
  <2>3. ASSUME NEW n \in Entries, apps[n] = {c}, NEW m \in Entries, apps'[m] # {} PROVE FALSE
    BY <2>2, <2>3 DEF OneApplication, IsAlive
  <2>4. \A m \in Entries' : apps'[m] # {} => locked'
    BY <2>1, <2>2, <2>3 DEF LockInv, LockedWhileConnected, IsAlive
  <2> QED
    BY <2>1, <2>2, <2>4, <1>types DEF LockInv, LockedWhileConnected, IsAlive
<1>5. ASSUME NEW name, SetApps(Without(name)), UNCHANGED <<pending, locked>> PROVE LockInv'
  <2>1. Entries' = Entries \ {name} /\ apps' \in [Entries' -> SUBSET Connections]
        /\ \A n \in Entries' : apps'[n] = apps[n]
    BY <1>5, <1>types DEF SetApps, Without, Entries
  <2> QED
    BY <1>5, <2>1, LockShrink
<1>6. ASSUME NEW name \in Names, AddApplication(name) PROVE LockInv'
  <2>1. apps' = With(name, {}) /\ name \notin Entries /\ UNCHANGED <<pending, locked>>
    BY <1>6 DEF AddApplication, SetApps
  <2>2. Entries' = Entries \cup {name} /\ apps' \in [Entries' -> SUBSET Connections]
        /\ apps'[name] = {} /\ \A n \in Entries : apps'[n] = apps[n]
    BY <2>1, <1>types DEF With, Entries
  <2> QED
    BY <2>1, <2>2, LockShrink
<1>7. ASSUME NEW name \in Names, RemoveApplication(name) PROVE LockInv'
  BY <1>1, <1>7 DEF RemoveApplication
<1>8. CASE EraseApplication
  BY <1>5, <1>8 DEF EraseApplication
<1>9. ASSUME NEW old \in Names, NEW name \in Names, RenameApplication(old, name) PROVE LockInv'
  <2>1. /\ old \in Entries /\ UNCHANGED <<pending, locked>>
        /\ apps' = [n \in (Entries \ {old}) \cup {name} |-> IF n = name THEN apps[old] ELSE apps[n]]
    BY <1>9 DEF RenameApplication, SetApps
  <2>2. Entries' = (Entries \ {old}) \cup {name} /\ apps' \in [Entries' -> SUBSET Connections]
        /\ apps'[name] = apps[old] /\ \A n \in Entries' \ {name} : n \in Entries /\ apps'[n] = apps[n]
    BY <2>1, <1>types DEF Entries
  <2> QED
    BY <2>1, <2>2, LockShrink
<1>10. ASSUME NEW m \in {"Any", "Existing", "None"}, SetAutoConnectionMode(m) PROVE LockInv'
  BY <1>1, <1>10 DEF SetAutoConnectionMode
<1>11. ASSUME NEW m \in Modules, SetModuleEnabled(m) PROVE LockInv'
  BY <1>1, <1>11 DEF SetModuleEnabled
<1>12. CASE ModuleStatusChanged
  BY <1>1, <1>12 DEF ModuleStatusChanged
<1>13. ASSUME NEW a \in Apis, SetApiFilter(a) PROVE LockInv'
  BY <1>1, <1>13 DEF SetApiFilter
<1>14. CASE BlocklistEdit
  <2>1. /\ UNCHANGED <<pending, locked>>
        /\ UNCHANGED <<apps, saved>> \/ \E n \in Names : SetApps(Without(n))
    BY <1>14 DEF BlocklistEdit, BlockedChanged
  <2> QED
    BY <1>1, <1>5, <2>1
<1>15. ASSUME NEW p \in Platforms, RouterComes(p) PROVE LockInv'
  BY <1>1, <1>15 DEF RouterComes, appVars
<1>16. CASE RouterGoes
  BY <1>1, <1>16 DEF RouterGoes, appVars
<1>17. CASE UNCHANGED vars
  BY <1>1, <1>17 DEF vars, appVars
<1> QED
  BY <1>2, <1>3, <1>4, <1>6, <1>7, <1>8, <1>9, <1>10, <1>11, <1>12, <1>13, <1>14, <1>15, <1>16, <1>17
  DEF Next

(* While an application of the list is connected the modules are locked, unless *)
(* two of its entries have been connected at once: however connections are let  *)
(* in and reported, whatever the user does to the list and the blocklist, and   *)
(* when (ApplicationModel::OnDriverConnected, OnDriverDisconnected, removeRows,  *)
(* setData).                                                                 *)
THEOREM LockHolds == Spec /\ []OneApplication => []LockedWhileConnected
<1>1. LockInv => LockedWhileConnected
  BY DEF LockInv
<1>2. Init => LockInv
  BY AppsInit DEF Init, AppInv, LockInv
<1>3. LockInv /\ OneApplication /\ [Next]_vars => LockInv'
  BY LockStep
<1> QED
  BY <1>1, <1>2, <1>3, PTL DEF Spec

(* ----- The modules, their settings and the presets. -----                   *)

(* What a module shows, and what a file may hold of it.                        *)
Shown == [main : {"unset", "default", "chosen"}, kept : {"default", "chosen"}, index : {"default", "chosen"}]
Stored == {Ms!NoData} \cup [main : {"unset", "default", "chosen", "old"}, kept : {"default", "chosen"}, index : {"default", "chosen"}]

(* The modules of a preset accept each other; a list of presets has places that *)
(* are numbers, the last of them among them.                                  *)
ModulesOk(modules) ==
  /\ \A m \in DOMAIN modules : modules[m] \in [enabled : BOOLEAN, data : Stored]
  /\ \A m, e \in DOMAIN modules : m # e /\ modules[m].enabled /\ modules[e].enabled => Ms!Compatible(m, e)

PresetsOk(list) ==
  /\ list = [k \in DOMAIN list |-> list[k]]
  /\ DOMAIN list \subseteq Nat /\ \E n \in Nat : \A k \in DOMAIN list : k <= n
  /\ \A k \in DOMAIN list :
       /\ list[k] = [name |-> list[k].name, builtin |-> list[k].builtin, modules |-> list[k].modules]
       /\ ModulesOk(list[k].modules)

SettingsType ==
  /\ running \in BOOLEAN /\ modulesLocked \in BOOLEAN
  /\ modulesOn \subseteq Ms!Registered /\ managed \subseteq Ms!Registered
  /\ userdata \in [Ms!Registered -> Shown] /\ given \in [Ms!Registered -> Shown]
  /\ current \in [Ms!Registered -> Stored]
  /\ PresetsOk(presets)
  /\ settingsFile = [current |-> settingsFile.current, presets |-> settingsFile.presets]
  /\ ModulesOk(settingsFile.current) /\ PresetsOk(settingsFile.presets)
  /\ loading = [at |-> loading.at, modules |-> loading.modules, saves |-> loading.saves]
  /\ loading.at \in 0 .. 2 * Len(ModuleOrder) + 1 /\ ModulesOk(loading.modules)
  /\ (loading.at = 0 <=> loading = Ms!NoLoad)
  /\ ~running => loading = Ms!NoLoad /\ ~modulesLocked

(* A module whose data are neither missing nor waiting to be loaded: what is    *)
(* shown is what would be saved, or what no data stand for.                   *)
AtDefault(data) == data.main = "default" /\ data.index = "default"

Waits(m) ==
  loading.at # 0 /\ \A j \in DOMAIN ModuleOrder : ModuleOrder[j] = m => Len(ModuleOrder) + j >= loading.at

Settled(m) == IF current[m] = Ms!NoData THEN AtDefault(userdata[m]) ELSE userdata[m] = current[m]

Data(modules, m) == Ms!InPreset(modules, m).data
Loaded(modules, m, data) == IF Data(modules, m) = Ms!NoData THEN AtDefault(data) ELSE data = Ms!ValidateData(Data(modules, m))

(* What a promise w says of the modules that are loaded.                       *)
Called(modules) == {m \in Ms!Registered : Ms!InPreset(modules, m).enabled}

Promises(w, modules) ==
  /\ Called(modules) \subseteq w.enabled /\ w.enabled \subseteq Called(modules) \cup SystemModules
  /\ \A m \in Ms!Registered \ SystemModules :
       /\ w.data[m] \in Shown
       /\ m \in w.whole <=> Data(modules, m) # Ms!NoData
       /\ Loaded(modules, m, w.data[m])

(* A module not promised is still to be disabled, and one promised that is not  *)
(* enabled is still to be enabled.                                          *)
OnTheWay(w) ==
  /\ Promises(w, loading.modules)
  /\ \A m \in modulesOn :
       \/ m \in w.enabled
       \/ m \notin SystemModules /\ \E j \in DOMAIN ModuleOrder : j >= loading.at /\ ModuleOrder[j] = m
  /\ \A m \in w.enabled :
       \/ m \in modulesOn
       \/ /\ m \in Called(loading.modules)
          /\ \E j \in DOMAIN ModuleOrder : Len(ModuleOrder) + j >= loading.at /\ ModuleOrder[j] = m

DataSettled ==
  running => \A m \in Ms!Registered \ SystemModules :
    ~Waits(m) => Settled(m) /\ (loading.at # 0 => Loaded(loading.modules, m, userdata[m]))

PromisesKept ==
  /\ ~running => \A w \in want : Promises(w, settingsFile.current) /\ w.enabled = Called(settingsFile.current)
  /\ loading.at # 0 => \A w \in want : OnTheWay(w)
  /\ loading.at # 0 /\ modulesLocked => want = {}

SettingsInv ==
  /\ SettingsType
  /\ Ms!EnabledAreCompatible /\ Ms!ConfiguredAsShown /\ Ms!SettingsComeBack
  /\ DataSettled /\ PromisesKept

(* The calls on a panel: types, and that what is configured is what is shown.   *)
Panels ==
  [enabled : SUBSET Ms!Registered, managed : SUBSET Ms!Registered, userdata : [Ms!Registered -> Shown],
   config : [Ms!Registered -> Shown], current : [Ms!Registered -> Stored]]

AsShown(s) == \A m \in Ms!Registered : s.config[m] = [s.userdata[m] EXCEPT !.index = "default"]

LEMMA ShownData ==
  /\ \A data \in Shown : data \in Stored /\ data # Ms!NoData /\ Ms!ValidateData(data) = data
  /\ \A data \in Stored \ {Ms!NoData} : Ms!ValidateData(data) \in Shown
  /\ \A data \in Shown : Ms!InitializeDefaults(data) \in Shown /\ AtDefault(Ms!InitializeDefaults(data))
  /\ \A data \in Shown : [data EXCEPT !.index = "default"] \in Shown
  /\ Ms!Unset \in Shown /\ Ms!Default \in Shown /\ Ms!NoData \in Stored /\ AtDefault(Ms!Default)
  /\ Ms!Unset = [Ms!Unset EXCEPT !.index = "default"]
<1>1. ASSUME NEW data \in Shown PROVE data \in Stored /\ data # Ms!NoData /\ Ms!ValidateData(data) = data
  BY DEF Shown, Stored, Ms!NoData, Ms!ValidateData
<1>2. ASSUME NEW data \in Stored \ {Ms!NoData} PROVE Ms!ValidateData(data) \in Shown
  <2>1. CASE data.main = "old"
    BY <2>1 DEF Shown, Stored, Ms!ValidateData
  <2>2. CASE data.main # "old"
    BY <2>2 DEF Shown, Stored, Ms!ValidateData
  <2> QED
    BY <2>1, <2>2
<1>3. ASSUME NEW data \in Shown PROVE Ms!InitializeDefaults(data) \in Shown /\ AtDefault(Ms!InitializeDefaults(data))
  BY DEF Shown, AtDefault, Ms!InitializeDefaults
<1>4. ASSUME NEW data \in Shown PROVE [data EXCEPT !.index = "default"] \in Shown
  BY DEF Shown
<1>5. Ms!Unset \in Shown /\ Ms!Default \in Shown /\ Ms!NoData \in Stored /\ AtDefault(Ms!Default)
  BY DEF Shown, Stored, AtDefault, Ms!Unset, Ms!Default
<1>6. Ms!Unset = [Ms!Unset EXCEPT !.index = "default"]
  BY DEF Ms!Unset
<1> QED
  BY <1>1, <1>2, <1>3, <1>4, <1>5, <1>6

ShownBut(s, m) == \A x \in Ms!Registered \ {m} : s.config[x] = [s.userdata[x] EXCEPT !.index = "default"]

(* The panel t is s, but for data of m.                                       *)
SerializedAs(s, t, m, data) ==
  /\ t \in Panels /\ AsShown(t) /\ t.enabled = s.enabled /\ t.managed = s.managed
  /\ t.userdata = s.userdata /\ t.current = [s.current EXCEPT ![m] = data]

LEMMA SerializedPanel ==
  ASSUME NEW s \in Panels, NEW m \in Ms!Registered, NEW data \in Shown, s.userdata[m] = data, ShownBut(s, m)
  PROVE  SerializedAs(s, Ms!SerializeData(s, m, data), m, data)
<1> DEFINE u == [s EXCEPT !.current[m] = data]
           t == [u EXCEPT !.config[m] = [data EXCEPT !.index = "default"]]
<1>1. data \in Stored /\ [data EXCEPT !.index = "default"] \in Shown
  BY ShownData
<1>2. /\ u \in Panels /\ u.current = [s.current EXCEPT ![m] = data]
      /\ u.enabled = s.enabled /\ u.managed = s.managed /\ u.userdata = s.userdata /\ u.config = s.config
  BY <1>1 DEF Panels
<1>3. /\ t \in Panels /\ t.config = [s.config EXCEPT ![m] = [data EXCEPT !.index = "default"]]
      /\ t.enabled = s.enabled /\ t.managed = s.managed /\ t.userdata = s.userdata /\ t.current = u.current
  BY <1>1, <1>2 DEF Panels
<1>4. AsShown(t)
  BY <1>3 DEF AsShown, ShownBut, Panels
<1>5. Ms!SerializeData(s, m, data) = t
  BY DEF Ms!SerializeData, Ms!ReceiveUserData
<1> QED
  BY <1>2, <1>3, <1>4, <1>5 DEF SerializedAs

UpdatedAs(s, t, m, data) ==
  /\ t \in Panels /\ AsShown(t) /\ t.enabled = s.enabled /\ t.managed = s.managed
  /\ t.userdata = [s.userdata EXCEPT ![m] = data]
  /\ t.current = IF data = s.userdata[m] THEN s.current ELSE [s.current EXCEPT ![m] = data]

LEMMA UpdatedPanel ==
  ASSUME NEW s \in Panels, AsShown(s), NEW m \in Ms!Registered, NEW data \in Shown
  PROVE  UpdatedAs(s, Ms!PerformUpdate(s, m, data), m, data)
<1>1. CASE data = s.userdata[m]
  BY <1>1 DEF Ms!PerformUpdate, Panels, UpdatedAs
<1>2. CASE data # s.userdata[m]
  <2> DEFINE u == [s EXCEPT !.userdata[m] = data]
  <2>1. /\ u \in Panels /\ u.userdata = [s.userdata EXCEPT ![m] = data]
        /\ u.enabled = s.enabled /\ u.managed = s.managed /\ u.config = s.config /\ u.current = s.current
    BY DEF Panels
  <2>2. u.userdata[m] = data
    BY <2>1 DEF Panels
  <2>3. ShownBut(u, m)
    BY <2>1 DEF AsShown, ShownBut, Panels
  <2> HIDE DEF u
  <2>4. SerializedAs(u, Ms!SerializeData(u, m, data), m, data)
    BY <2>1, <2>2, <2>3, SerializedPanel
  <2>5. Ms!PerformUpdate(s, m, data) = Ms!SerializeData(u, m, data)
    BY <1>2 DEF Ms!PerformUpdate, u
  <2> QED
    BY <1>2, <2>1, <2>4, <2>5 DEF SerializedAs, UpdatedAs
<1> QED
  BY <1>1, <1>2

(* After the data of a module were reset or loaded, it is settled.              *)
SettledIn(s, m) == IF s.current[m] = Ms!NoData THEN AtDefault(s.userdata[m]) ELSE s.userdata[m] = s.current[m]

LEMMA ResetPanel ==
  ASSUME NEW s \in Panels, AsShown(s), NEW m \in Ms!Registered
  PROVE  LET t == Ms!ResetToDefaults(s, m)
         IN /\ t \in Panels /\ AsShown(t) /\ t.enabled = s.enabled /\ t.managed = s.managed
            /\ \A x \in Ms!Registered \ {m} : t.userdata[x] = s.userdata[x] /\ t.current[x] = s.current[x]
            /\ m \notin SystemModules /\ s.current[m] = Ms!NoData => SettledIn(t, m) /\ AtDefault(t.userdata[m])
<1>1. CASE m \in SystemModules
  BY <1>1 DEF Ms!ResetToDefaults
<1>2. CASE m \notin SystemModules
  <2> DEFINE data == Ms!InitializeDefaults(s.userdata[m])
  <2>1. data \in Shown /\ AtDefault(data)
    BY ShownData DEF Panels
  <2> HIDE DEF data
  <2>2. UpdatedAs(s, Ms!PerformUpdate(s, m, data), m, data)
    BY <2>1, UpdatedPanel
  <2>3. Ms!ResetToDefaults(s, m) = Ms!PerformUpdate(s, m, data)
    BY <1>2 DEF Ms!ResetToDefaults, data
  <2> QED
    BY <2>1, <2>2, <2>3, ShownData DEF UpdatedAs, SettledIn, Panels
<1> QED
  BY <1>1, <1>2

LoadedAs(s, t, m, data) ==
  /\ t \in Panels /\ AsShown(t) /\ t.enabled = s.enabled /\ t.managed = s.managed
  /\ \A x \in Ms!Registered \ {m} : t.userdata[x] = s.userdata[x] /\ t.current[x] = s.current[x]
  /\ SettledIn(t, m) /\ t.userdata[m] = Ms!ValidateData(data)

LEMMA LoadedPanel ==
  ASSUME NEW s \in Panels, AsShown(s), NEW m \in Ms!Registered, NEW data \in Stored \ {Ms!NoData}, s.current[m] = data
  PROVE  LoadedAs(s, Ms!LoadSerializedData(s, m, data), m, data)
<1> DEFINE valid == Ms!ValidateData(data)
           r == Ms!ReceiveUserData(s, m, data)
           u == [r EXCEPT !.userdata[m] = valid]
<1>1. valid \in Shown /\ valid # Ms!NoData
  BY ShownData
<1> HIDE DEF valid
<1>2. CASE valid = data
  <2>1. [data EXCEPT !.index = "default"] \in Shown
    BY <1>1, <1>2, ShownData
  <2>2. /\ r \in Panels /\ r.config = [s.config EXCEPT ![m] = [data EXCEPT !.index = "default"]]
        /\ r.enabled = s.enabled /\ r.managed = s.managed /\ r.userdata = s.userdata /\ r.current = s.current
    BY <2>1 DEF Panels, Ms!ReceiveUserData
  <2> HIDE DEF r
  <2>3. /\ u \in Panels /\ u.userdata = [s.userdata EXCEPT ![m] = valid]
        /\ u.enabled = s.enabled /\ u.managed = s.managed /\ u.config = r.config /\ u.current = s.current
    BY <1>1, <2>2 DEF Panels
  <2>4. AsShown(u)
    BY <1>2, <2>2, <2>3 DEF AsShown, Panels
  <2>5. Ms!LoadSerializedData(s, m, data) = u
    BY <1>2 DEF Ms!LoadSerializedData, valid, r
  <2> QED
    BY <1>1, <1>2, <2>3, <2>4, <2>5 DEF LoadedAs, SettledIn, Panels, valid
<1>3. CASE valid # data
  <2> DEFINE c == [s.config EXCEPT ![m] = [data EXCEPT !.index = "default"]]
             w == [u EXCEPT !.current[m] = valid]
             t == [w EXCEPT !.config[m] = [valid EXCEPT !.index = "default"]]
  <2>1. t = [s EXCEPT !.userdata[m] = valid, !.current[m] = valid, !.config[m] = [valid EXCEPT !.index = "default"]]
    BY DEF Panels, Ms!ReceiveUserData
  <2>2. [valid EXCEPT !.index = "default"] \in Shown /\ valid \in Stored
    BY <1>1, ShownData
  <2>3. Ms!LoadSerializedData(s, m, data) = t
    BY <1>3 DEF Ms!LoadSerializedData, Ms!SerializeData, Ms!ReceiveUserData, valid
  <2> HIDE DEF t
  <2>4. /\ t \in Panels /\ t.userdata = [s.userdata EXCEPT ![m] = valid] /\ t.current = [s.current EXCEPT ![m] = valid]
        /\ t.enabled = s.enabled /\ t.managed = s.managed
        /\ t.config = [s.config EXCEPT ![m] = [valid EXCEPT !.index = "default"]]
    BY <1>1, <2>1, <2>2 DEF Panels
  <2>5. AsShown(t)
    BY <2>4 DEF AsShown, Panels
  <2> QED
    BY <1>1, <2>3, <2>4, <2>5 DEF LoadedAs, SettledIn, Panels, valid
<1> QED
  BY <1>2, <1>3

(* ----- The places of a list of presets. -----                              *)

LEMMA LeastPlace ==
  ASSUME NEW T, T \subseteq Nat, T # {}
  PROVE  \E m \in T : \A y \in T : m <= y
<1>1. PICK m \in T : \A y \in T : ~ (<<y, m>> \in OpToRel(<, Nat))
  BY NatLessThanWellFounded, WFMin, Zenon
<1>2. ASSUME NEW y \in T, y < m PROVE FALSE
  <2>1. <<y, m>> \in OpToRel(<, Nat)
    BY <1>2, Zenon DEF OpToRel
  <2> QED
    BY <1>1, <2>1, Zenon
<1> QED
  BY <1>2

LEMMA FoundPlace ==
  ASSUME NEW list, PresetsOk(list), NEW name, Ms!Named(list, name) # {}
  PROVE  Ms!GetPresetIndex(list, name) \in DOMAIN list
<1>1. PICK m \in Ms!Named(list, name) : \A y \in Ms!Named(list, name) : m <= y
  BY LeastPlace DEF PresetsOk, Ms!Named
<1> QED
  BY <1>1 DEF Ms!GetPresetIndex, Ms!Named

LEMMA LastPlaceBounds ==
  ASSUME NEW list, PresetsOk(list)
  PROVE  Ms!LastPlace(list) \in Nat /\ \A k \in DOMAIN list : k <= Ms!LastPlace(list)
<1> DEFINE S == DOMAIN list \cup {0}
           T == {n \in Nat : \A k \in S : k <= n}
<1>1. S \subseteq Nat /\ T # {}
  BY DEF PresetsOk
<1>2. PICK n \in T : \A y \in T : n <= y
  BY <1>1, LeastPlace
<1>3. n \in S
  <2> SUFFICES ASSUME n \notin S PROVE FALSE
    OBVIOUS
  <2>1. n # 0 /\ n - 1 \in Nat
    BY <1>2
  <2>2. \A k \in S : k <= n - 1
    BY <1>1, <1>2
  <2>3. n - 1 \in T
    BY <2>1, <2>2
  <2> QED
    BY <1>2, <2>1, <2>3
<1>4. \E x \in S : \A y \in S : x >= y
  BY <1>1, <1>2, <1>3
<1>5. Ms!LastPlace(list) = CHOOSE x \in S : \A y \in S : x >= y
  BY DEF Ms!LastPlace, Ms!Max
<1>6. Ms!LastPlace(list) \in S /\ \A y \in S : Ms!LastPlace(list) >= y
  BY <1>4, <1>5
<1> QED
  BY <1>1, <1>6

(* What is kept or added leaves a list in order.                               *)
LEMMA PushedPresets ==
  ASSUME NEW list, PresetsOk(list), NEW name, NEW builtin, NEW modules, ModulesOk(modules)
  PROVE  PresetsOk(Ms!PushBack(list, [name |-> name, builtin |-> builtin, modules |-> modules]))
<1> DEFINE preset == [name |-> name, builtin |-> builtin, modules |-> modules]
           last == Ms!LastPlace(list) + 1
           new == Ms!PushBack(list, preset)
<1>1. last \in Nat /\ \A k \in DOMAIN list : k <= last
  BY LastPlaceBounds DEF PresetsOk
<1>2. preset = [name |-> preset.name, builtin |-> preset.builtin, modules |-> preset.modules] /\ ModulesOk(preset.modules)
  OBVIOUS
<1>3. new = [k \in DOMAIN list \cup {last} |-> IF k \in DOMAIN list THEN list[k] ELSE preset]
  BY DEF Ms!PushBack
<1> HIDE DEF last, preset, new
<1>4. DOMAIN new = DOMAIN list \cup {last} /\ new = [k \in DOMAIN new |-> new[k]]
  BY <1>3
<1>5. \A k \in DOMAIN new : new[k] = IF k \in DOMAIN list THEN list[k] ELSE preset
  BY <1>3
<1>6. DOMAIN new \subseteq Nat /\ \A k \in DOMAIN new : k <= last
  BY <1>1, <1>4 DEF PresetsOk
<1>7. \A k \in DOMAIN new : new[k] = [name |-> new[k].name, builtin |-> new[k].builtin, modules |-> new[k].modules]
                            /\ ModulesOk(new[k].modules)
  BY <1>2, <1>4, <1>5 DEF PresetsOk
<1>8. PresetsOk(new)
  BY <1>1, <1>4, <1>6, <1>7 DEF PresetsOk
<1> QED
  BY <1>8 DEF new, preset

LEMMA UpdatedPresets ==
  ASSUME NEW list, PresetsOk(list), NEW k \in DOMAIN list, NEW modules, ModulesOk(modules)
  PROVE  PresetsOk([list EXCEPT ![k].modules = modules])
<1> DEFINE new == [list EXCEPT ![k].modules = modules]
<1>1. DOMAIN new = DOMAIN list /\ new = [j \in DOMAIN new |-> new[j]] /\ \A j \in DOMAIN list \ {k} : new[j] = list[j]
  BY DEF PresetsOk
<1>2. new[k] = [list[k] EXCEPT !.modules = modules]
  BY DEF PresetsOk
<1> HIDE DEF new
<1>3. list[k] = [name |-> list[k].name, builtin |-> list[k].builtin, modules |-> list[k].modules]
  BY DEF PresetsOk
<1>4. new[k] = [name |-> list[k].name, builtin |-> list[k].builtin, modules |-> modules]
  BY <1>2, <1>3
<1>5. \A j \in DOMAIN new : new[j] = [name |-> new[j].name, builtin |-> new[j].builtin, modules |-> new[j].modules]
                            /\ ModulesOk(new[j].modules)
  BY <1>1, <1>4 DEF PresetsOk
<1>6. PresetsOk(new)
  BY <1>1, <1>5 DEF PresetsOk
<1> QED
  BY <1>6 DEF new

LEMMA KeptPresets ==
  ASSUME NEW list, PresetsOk(list), NEW new, DOMAIN new \subseteq DOMAIN list, new = [k \in DOMAIN new |-> list[k]]
  PROVE  PresetsOk(new)
<1>1. \A k \in DOMAIN new : new[k] = list[k]
  OBVIOUS
<1>2. new = [k \in DOMAIN new |-> new[k]]
  OBVIOUS
<1> QED
  BY <1>1, <1>2 DEF PresetsOk

(* The default presets that are added come behind the others, one at a place.  *)
LEMMA DefaultPresetsOk == PresetsOk(DefaultPresets)
<1>1. DefaultPresets = [k \in DOMAIN DefaultPresets |-> DefaultPresets[k]]
  BY ModulesAssumption
<1>2. DOMAIN DefaultPresets = 1 .. Len(DefaultPresets) /\ Len(DefaultPresets) \in Nat
  BY ModulesAssumption
<1>3. DOMAIN DefaultPresets \subseteq Nat /\ \E n \in Nat : \A k \in DOMAIN DefaultPresets : k <= n
  BY <1>2
<1>4. ASSUME NEW k \in DOMAIN DefaultPresets
      PROVE  /\ DefaultPresets[k] = [name |-> DefaultPresets[k].name, builtin |-> DefaultPresets[k].builtin,
                                     modules |-> DefaultPresets[k].modules]
             /\ ModulesOk(DefaultPresets[k].modules)
  <2> DEFINE modules == DefaultPresets[k].modules
  <2>1. /\ \A m \in DOMAIN modules : modules[m] \in [enabled : BOOLEAN, data : {Ms!NoData}]
        /\ \A m, e \in DOMAIN modules : m # e /\ modules[m].enabled /\ modules[e].enabled => Ms!Compatible(m, e)
        /\ DefaultPresets[k] = [name |-> DefaultPresets[k].name, builtin |-> DefaultPresets[k].builtin,
                                modules |-> DefaultPresets[k].modules]
    BY ModulesAssumption
  <2>2. [enabled : BOOLEAN, data : {Ms!NoData}] \subseteq [enabled : BOOLEAN, data : Stored]
    BY ShownData
  <2> QED
    BY <2>1, <2>2 DEF ModulesOk
<1> QED
  BY <1>1, <1>3, <1>4 DEF PresetsOk

LEMMA WithDefaultsOk ==
  ASSUME NEW list, PresetsOk(list)
  PROVE  PresetsOk(Ms!WithDefaults(list))
<1> DEFINE S == {d \in DOMAIN DefaultPresets : Ms!Named(list, DefaultPresets[d].name) = {}}
           added == [d \in S |-> DefaultPresets[d]]
           place == [d \in S |-> Ms!LastPlace(list) + d]
           new == [k \in DOMAIN list \cup {place[d] : d \in S} |->
                     IF k \in DOMAIN list THEN list[k] ELSE added[CHOOSE d \in S : place[d] = k]]
<1>1. Ms!WithDefaults(list) = new
  <2>1. Ms!RestrictValues(DefaultPresets, LAMBDA d : Ms!Named(list, d.name) = {}) = added
    BY DEF Ms!RestrictValues, Ms!Restrict
  <2>2. Ms!Range(place) = {place[d] : d \in S}
    BY DEF Ms!Range
  <2> QED
    BY <2>1, <2>2 DEF Ms!WithDefaults
<1>2. PICK n \in Nat : \A k \in DOMAIN DefaultPresets : k <= n
  BY DefaultPresetsOk DEF PresetsOk
<1>3. Ms!LastPlace(list) \in Nat /\ \A k \in DOMAIN list : k <= Ms!LastPlace(list)
  BY LastPlaceBounds
<1>4. \A d \in S : place[d] \in Nat /\ place[d] <= Ms!LastPlace(list) + n
  BY <1>2, <1>3, DefaultPresetsOk DEF PresetsOk
<1>5. DOMAIN new \subseteq Nat /\ \A k \in DOMAIN new : k <= Ms!LastPlace(list) + n
  <2>1. ASSUME NEW k \in DOMAIN new PROVE k \in Nat /\ k <= Ms!LastPlace(list) + n
    <3>1. CASE k \in DOMAIN list
      BY <1>2, <1>3, <3>1 DEF PresetsOk
    <3>2. CASE k \notin DOMAIN list
      BY <1>4, <3>2
    <3> QED
      BY <3>1, <3>2
  <2> QED
    BY <2>1
<1>6. new = [k \in DOMAIN new |-> new[k]]
  OBVIOUS
<1>7. ASSUME NEW k \in DOMAIN new
      PROVE  new[k] = [name |-> new[k].name, builtin |-> new[k].builtin, modules |-> new[k].modules] /\ ModulesOk(new[k].modules)
  <2>1. CASE k \in DOMAIN list
    <3>1. new[k] = list[k]
      BY <2>1
    <3> QED
      BY <2>1, <3>1 DEF PresetsOk
  <2>2. CASE k \notin DOMAIN list
    <3> DEFINE d == CHOOSE d \in S : place[d] = k
    <3>1. d \in S
      BY <2>2
    <3>2. new[k] = added[d]
      BY <2>2
    <3>3. new[k] = DefaultPresets[d] /\ d \in DOMAIN DefaultPresets
      BY <3>1, <3>2
    <3> HIDE DEF d, new
    <3> QED
      BY <3>3, DefaultPresetsOk DEF PresetsOk
  <2> QED
    BY <2>1, <2>2
<1> HIDE DEF new
<1>8. Ms!LastPlace(list) + n \in Nat
  BY <1>2, <1>3
<1>9. PresetsOk(new)
  BY <1>5, <1>6, <1>7, <1>8 DEF PresetsOk
<1> QED
  BY <1>1, <1>9

(* ----- The calls that change the panel. -----                               *)

LEMMA Symmetric ==
  /\ \A m, e : Ms!Compatible(m, e) => Ms!Compatible(e, m)
  /\ \A m, e : m \in SystemModules => Ms!Compatible(m, e)
BY ModulesAssumption DEF Ms!Compatible, Ms!IsCompatibleWithModuleNamed

LEMMA PanelNow ==
  ASSUME SettingsType, running, Ms!ConfiguredAsShown
  PROVE  /\ Ms!Panel \in Panels /\ AsShown(Ms!Panel)
         /\ Ms!Panel.enabled = modulesOn /\ Ms!Panel.managed = managed
         /\ Ms!Panel.userdata = userdata /\ Ms!Panel.config = given /\ Ms!Panel.current = current
<1>1. /\ Ms!Panel.enabled = modulesOn /\ Ms!Panel.managed = managed
      /\ Ms!Panel.userdata = userdata /\ Ms!Panel.config = given /\ Ms!Panel.current = current
  BY DEF Ms!Panel
<1>2. Ms!Panel \in Panels
  BY DEF SettingsType, Panels, Ms!Panel
<1>3. AsShown(Ms!Panel)
  BY <1>1 DEF Ms!ConfiguredAsShown, AsShown
<1> QED
  BY <1>1, <1>2, <1>3

(* The panel t is the one now, but for whether m is enabled.                   *)
Switched(t, m, on, refused) ==
  /\ t \in Panels /\ AsShown(t) /\ t.userdata = userdata /\ t.config = given /\ t.current = current
  /\ t.enabled = IF ~Ms!Changes(m, on) \/ refused THEN modulesOn
                 ELSE IF on THEN modulesOn \cup {m} ELSE modulesOn \ {m}
  /\ \A x, e \in t.enabled : x # e => Ms!Compatible(x, e)

LEMMA SwitchedPanel ==
  ASSUME SettingsType, running, Ms!ConfiguredAsShown, Ms!EnabledAreCompatible,
         NEW m \in Ms!Registered, NEW on \in BOOLEAN, NEW refused \in BOOLEAN
  PROVE  Switched(Ms!SetModuleEnabled(m, on, refused), m, on, refused)
<1> DEFINE t == Ms!SetModuleEnabled(m, on, refused)
<1>1. CASE ~Ms!Changes(m, on)
  <2>1. t = Ms!Panel
    BY <1>1 DEF Ms!SetModuleEnabled
  <2> QED
    BY <1>1, <2>1, PanelNow DEF Switched, Ms!EnabledAreCompatible
<1>2. CASE Ms!Changes(m, on)
  <2> DEFINE Chosen(set) == IF on THEN set \cup {m} ELSE set \ {m}
             u == [enabled |-> IF refused THEN modulesOn ELSE Chosen(modulesOn), managed |-> Chosen(managed),
                   userdata |-> userdata, config |-> given, current |-> current]
  <2>1. t = u
    BY <1>2 DEF Ms!SetModuleEnabled, Ms!SetEnabled, Ms!Panel
  <2>2. u \in Panels
    <3>1. Chosen(modulesOn) \subseteq Ms!Registered /\ Chosen(managed) \subseteq Ms!Registered
      BY DEF SettingsType
    <3> HIDE DEF Chosen
    <3> QED
      BY <3>1 DEF SettingsType, Panels
  <2>3. AsShown(u)
    BY DEF Ms!ConfiguredAsShown, AsShown
  <2>4. \A x, e \in u.enabled : x # e => Ms!Compatible(x, e)
    <3>1. CASE ~on \/ refused
      BY <3>1 DEF Ms!EnabledAreCompatible
    <3>2. CASE on /\ ~refused
      <4>1. u.enabled = modulesOn \cup {m} /\ \A e \in modulesOn : Ms!Compatible(m, e)
        BY <1>2, <3>2 DEF Ms!Changes
      <4> HIDE DEF u
      <4> QED
        BY <4>1, Symmetric DEF Ms!EnabledAreCompatible
    <3> QED
      BY <3>1, <3>2
  <2>5. /\ u.userdata = userdata /\ u.config = given /\ u.current = current
        /\ u.enabled = IF refused THEN modulesOn ELSE Chosen(modulesOn)
    OBVIOUS
  <2> HIDE DEF u, t
  <2> QED
    BY <1>2, <2>1, <2>2, <2>3, <2>4, <2>5 DEF Switched, t
<1> QED
  BY <1>1, <1>2

(* ----- Every step keeps the invariant. -----                                *)

LEMMA EmptyOk == ModulesOk(<<>>) /\ PresetsOk(<<>>)
BY DEF ModulesOk, PresetsOk

LEMMA CurrentOk ==
  ASSUME NEW s \in Panels, \A m, e \in s.enabled : m # e => Ms!Compatible(m, e)
  PROVE  ModulesOk(Ms!CurrentModules(s))
<1> DEFINE modules == Ms!CurrentModules(s)
<1>1. DOMAIN modules = Ms!Registered /\ \A m \in Ms!Registered : modules[m] = [enabled |-> m \in s.enabled, data |-> s.current[m]]
  BY DEF Ms!CurrentModules
<1>2. \A m \in Ms!Registered : s.current[m] \in Stored
  BY DEF Panels
<1> HIDE DEF modules
<1>3. ASSUME NEW m \in Ms!Registered
      PROVE  modules[m] \in [enabled : BOOLEAN, data : Stored] /\ (modules[m].enabled <=> m \in s.enabled)
  <2> DEFINE on == m \in s.enabled
  <2>1. on \in BOOLEAN
    OBVIOUS
  <2>2. modules[m] = [enabled |-> on, data |-> s.current[m]]
    BY <1>1, Zenon
  <2> HIDE DEF on
  <2>3. modules[m] \in [enabled : BOOLEAN, data : Stored] /\ modules[m].enabled = on
    BY <1>2, <2>1, <2>2
  <2> QED
    BY <2>3, Zenon DEF on
<1>4. ModulesOk(modules)
  BY <1>1, <1>3 DEF ModulesOk
<1> QED
  BY <1>4 DEF modules

LEMMA PlacesOfModules ==
  /\ Len(ModuleOrder) \in Nat /\ DOMAIN ModuleOrder = 1 .. Len(ModuleOrder)
  /\ \A j \in DOMAIN ModuleOrder : ModuleOrder[j] \in Ms!Registered
  /\ \A m \in Ms!Registered : \E j \in DOMAIN ModuleOrder : ModuleOrder[j] = m
BY ModulesAssumption DEF Ms!Registered, Ms!Range

(* The state becomes a panel t.                                              *)
LEMMA BecomesPanel ==
  ASSUME NEW t \in Panels, AsShown(t), \A m, e \in t.enabled : m # e => Ms!Compatible(m, e), Ms!Becomes(t)
  PROVE  /\ modulesOn' \subseteq Ms!Registered /\ managed' \subseteq Ms!Registered
         /\ userdata' \in [Ms!Registered -> Shown] /\ given' \in [Ms!Registered -> Shown]
         /\ current' \in [Ms!Registered -> Stored]
         /\ Ms!EnabledAreCompatible' /\ Ms!ConfiguredAsShown'
<1>1. /\ modulesOn' = t.enabled /\ managed' = t.managed
      /\ userdata' = t.userdata /\ given' = t.config /\ current' = t.current
  BY DEF Ms!Becomes
<1> QED
  BY <1>1 DEF Panels, AsShown, Ms!EnabledAreCompatible, Ms!ConfiguredAsShown

LEMMA FreshPanel == Ms!Fresh \in Panels /\ AsShown(Ms!Fresh) /\ Ms!Fresh.enabled = {}
<1>1. /\ Ms!Fresh.enabled = {} /\ Ms!Fresh.managed = {}
      /\ Ms!Fresh.userdata = [m \in Ms!Registered |-> Ms!Unset] /\ Ms!Fresh.config = [m \in Ms!Registered |-> Ms!Unset]
      /\ Ms!Fresh.current = [m \in Ms!Registered |-> Ms!NoData]
  BY DEF Ms!Fresh
<1>2. Ms!Fresh \in Panels
  <2>1. Ms!Unset \in Shown /\ Ms!NoData \in Stored
    BY ShownData
  <2> QED
    BY <2>1 DEF Ms!Fresh, Panels
<1>3. AsShown(Ms!Fresh)
  BY <1>1, ShownData DEF AsShown
<1> QED
  BY <1>1, <1>2, <1>3

LEMMA NoLoadAt == Ms!NoLoad.at = 0 /\ Ms!NoLoad = [at |-> Ms!NoLoad.at, modules |-> Ms!NoLoad.modules, saves |-> Ms!NoLoad.saves]
                  /\ ModulesOk(Ms!NoLoad.modules)
BY EmptyOk DEF Ms!NoLoad

LEMMA SettingsInit == Ms!Init => SettingsInv
<1> SUFFICES ASSUME Ms!Init PROVE SettingsInv
  OBVIOUS
<1>1. /\ ~running /\ ~modulesLocked /\ running \in BOOLEAN /\ modulesLocked \in BOOLEAN
      /\ want = {} /\ presets = <<>> /\ loading = Ms!NoLoad
      /\ modulesOn = {} /\ managed = {} /\ userdata = Ms!Fresh.userdata /\ given = Ms!Fresh.config
      /\ current = Ms!Fresh.current
  BY DEF Ms!Init
<1>2. /\ userdata \in [Ms!Registered -> Shown] /\ given \in [Ms!Registered -> Shown] /\ current \in [Ms!Registered -> Stored]
  BY <1>1, FreshPanel DEF Panels
<1>3. settingsFile = [current |-> settingsFile.current, presets |-> settingsFile.presets]
      /\ ModulesOk(settingsFile.current) /\ PresetsOk(settingsFile.presets)
  <2>1. CASE settingsFile = Ms!NoFile
    BY <2>1, EmptyOk DEF Ms!NoFile
  <2>2. CASE \E m \in Ms!Registered \ SystemModules :
               settingsFile = [current |-> [x \in {m} |-> [enabled |-> TRUE, data |-> [Ms!Default EXCEPT !.main = "old"]]],
                               presets |-> <<>>]
    <3>1. [Ms!Default EXCEPT !.main = "old"] \in Stored
      BY DEF Ms!Default, Stored
    <3>2. PICK m \in Ms!Registered :
            settingsFile = [current |-> [x \in {m} |-> [enabled |-> TRUE, data |-> [Ms!Default EXCEPT !.main = "old"]]],
                            presets |-> <<>>]
      BY <2>2
    <3>3. ModulesOk([x \in {m} |-> [enabled |-> TRUE, data |-> [Ms!Default EXCEPT !.main = "old"]]])
      BY <3>1 DEF ModulesOk
    <3> QED
      BY <3>2, <3>3, EmptyOk
  <2> QED
    BY <2>1, <2>2 DEF Ms!Init
<1>4. SettingsType
  <2>1. loading = [at |-> loading.at, modules |-> loading.modules, saves |-> loading.saves]
        /\ loading.at \in 0 .. 2 * Len(ModuleOrder) + 1 /\ ModulesOk(loading.modules) /\ loading.at = 0
    BY <1>1, NoLoadAt, PlacesOfModules
  <2> QED
    BY <1>1, <1>2, <1>3, <2>1, EmptyOk DEF SettingsType
<1>5. Ms!EnabledAreCompatible /\ Ms!ConfiguredAsShown /\ Ms!SettingsComeBack
  BY <1>1 DEF Ms!EnabledAreCompatible, Ms!ConfiguredAsShown, Ms!SettingsComeBack
<1>6. DataSettled /\ PromisesKept
  BY <1>1, NoLoadAt DEF DataSettled, PromisesKept
<1> QED
  BY <1>4, <1>5, <1>6 DEF SettingsInv

LEMMA StartKeeps ==
  ASSUME SettingsInv, Ms!LoadExistingPresets
  PROVE  SettingsInv'
<1> USE DEF SettingsInv
<1>1. /\ ~running /\ running' = TRUE /\ presets' = Ms!WithDefaults(settingsFile.presets)
      /\ Ms!Becomes(Ms!Fresh) /\ loading' = [at |-> 1, modules |-> settingsFile.current, saves |-> FALSE]
      /\ settingsFile' = settingsFile /\ modulesLocked' = modulesLocked /\ want' = want
  BY DEF Ms!LoadExistingPresets, Ms!BeginLoad
<1>2. modulesOn' = {}
  BY <1>1, FreshPanel DEF Ms!Becomes
<1>3. /\ modulesOn' \subseteq Ms!Registered /\ managed' \subseteq Ms!Registered
      /\ userdata' \in [Ms!Registered -> Shown] /\ given' \in [Ms!Registered -> Shown]
      /\ current' \in [Ms!Registered -> Stored]
      /\ Ms!EnabledAreCompatible' /\ Ms!ConfiguredAsShown'
  BY <1>1, FreshPanel, BecomesPanel
<1>4. /\ loading'.at = 1 /\ loading'.modules = settingsFile.current
      /\ loading' = [at |-> loading'.at, modules |-> loading'.modules, saves |-> loading'.saves]
      /\ loading' # Ms!NoLoad
  BY <1>1, NoLoadAt
<1>5. SettingsType'
  <2>1. PresetsOk(presets') /\ PresetsOk(settingsFile') = PresetsOk(settingsFile)
    BY <1>1, WithDefaultsOk DEF SettingsType
  <2>2. loading'.at \in 0 .. 2 * Len(ModuleOrder) + 1
    BY <1>4, PlacesOfModules
  <2> QED
    BY <1>1, <1>3, <1>4, <2>1, <2>2 DEF SettingsType
<1>6. ~Ms!SettingsComeBack' => FALSE
  BY <1>4 DEF Ms!SettingsComeBack
<1>7. DataSettled'
  <2>1. ASSUME NEW m \in Ms!Registered PROVE Waits(m)'
    <3>1. \A j \in DOMAIN ModuleOrder : Len(ModuleOrder) + j >= 1
      BY PlacesOfModules
    <3> QED
      BY <1>4, <3>1 DEF Waits
  <2> QED
    BY <2>1 DEF DataSettled
<1>8. PromisesKept'
  <2>1. ASSUME NEW w \in want PROVE OnTheWay(w)'
    <3>1. Promises(w, settingsFile.current) /\ w.enabled = Called(settingsFile.current)
      BY <1>1 DEF PromisesKept
    <3>2. \A m \in Called(settingsFile.current) : \E j \in DOMAIN ModuleOrder : Len(ModuleOrder) + j >= 1 /\ ModuleOrder[j] = m
      BY PlacesOfModules DEF Called
    <3> QED
      BY <1>2, <1>4, <3>1, <3>2 DEF OnTheWay
  <2>2. ~modulesLocked'
    BY <1>1 DEF SettingsType
  <2> QED
    BY <1>1, <2>1, <2>2 DEF PromisesKept
<1> QED
  BY <1>3, <1>5, <1>6, <1>7, <1>8

(* What a preset holds of a module.                                          *)
LEMMA PresetEntry ==
  ASSUME NEW modules, ModulesOk(modules), NEW m
  PROVE  Ms!InPreset(modules, m).enabled \in BOOLEAN /\ Data(modules, m) \in Stored
<1>1. CASE m \in DOMAIN modules
  BY <1>1 DEF ModulesOk, Ms!InPreset, Data
<1>2. CASE m \notin DOMAIN modules
  BY <1>2, ShownData DEF Ms!InPreset, Data
<1> QED
  BY <1>1, <1>2

(* Modules that a preset calls, and those of the system, accept each other.    *)
LEMMA CalledCompatible ==
  ASSUME NEW modules, ModulesOk(modules), NEW m \in Called(modules), NEW e \in Called(modules) \cup SystemModules, m # e
  PROVE  Ms!Compatible(m, e)
<1>1. CASE e \in SystemModules
  BY <1>1, Symmetric
<1>2. CASE e \notin SystemModules
  <2>1. m \in DOMAIN modules /\ modules[m].enabled /\ e \in DOMAIN modules /\ modules[e].enabled
    BY <1>2 DEF Called, Ms!InPreset
  <2> QED
    BY <2>1 DEF ModulesOk
<1> QED
  BY <1>1, <1>2

LEMMA WhatChanges ==
  ASSUME NEW m
  PROVE  /\ Ms!Changes(m, FALSE) <=> m \notin SystemModules /\ m \in modulesOn
         /\ Ms!Changes(m, TRUE) <=> m \notin modulesOn /\ \A e \in modulesOn : Ms!Compatible(m, e)
<1>1. /\ FALSE # (m \in modulesOn) <=> m \in modulesOn
      /\ TRUE # (m \in modulesOn) <=> m \notin modulesOn
  <2>1. m \in modulesOn => (m \in modulesOn) = TRUE
    OBVIOUS
  <2>2. m \notin modulesOn => (m \in modulesOn) = FALSE
    OBVIOUS
  <2> QED
    BY <2>1, <2>2
<1> QED
  BY <1>1, Zenon DEF Ms!Changes

LEMMA LoadingRuns ==
  ASSUME SettingsType, loading.at # 0
  PROVE  running /\ loading # Ms!NoLoad
BY NoLoadAt DEF SettingsType

LEMMA DisableKeeps ==
  ASSUME SettingsInv, Ms!DisableModule
  PROVE  SettingsInv'
<1> USE DEF SettingsInv
<1> DEFINE k == loading.at
           m == ModuleOrder[k]
<1>1. loading.at \in Nat /\ loading.at - 1 + 1 = loading.at
  BY PlacesOfModules DEF SettingsType
<1>2. k \in DOMAIN ModuleOrder /\ k \in 1 .. Len(ModuleOrder) /\ m \in Ms!Registered /\ k # 0
  BY <1>1, PlacesOfModules DEF Ms!DisableModule, Ms!Loading, Ms!FirstDisable
<1>3. loading' = [loading EXCEPT !.at = @ + 1]
  BY DEF Ms!DisableModule, Ms!Loading
<1>4. /\ loading' = [at |-> loading'.at, modules |-> loading'.modules, saves |-> loading'.saves]
      /\ loading'.at = k + 1 /\ loading'.modules = loading.modules
  BY <1>3 DEF SettingsType
<1>5. running /\ loading' # Ms!NoLoad
  BY <1>1, <1>2, <1>4, LoadingRuns, NoLoadAt
<1>6. PICK refused \in BOOLEAN :
        /\ Ms!Becomes(IF modulesLocked THEN Ms!Panel ELSE Ms!SetModuleEnabled(m, FALSE, refused))
        /\ want' = IF refused THEN {} ELSE want
  BY DEF Ms!DisableModule, Ms!Refusals
<1>7. UNCHANGED <<running, presets, settingsFile, modulesLocked>>
  BY DEF Ms!DisableModule
<1> DEFINE t == IF modulesLocked THEN Ms!Panel ELSE Ms!SetModuleEnabled(m, FALSE, refused)
<1>8. /\ t \in Panels /\ AsShown(t) /\ \A x, e \in t.enabled : x # e => Ms!Compatible(x, e)
      /\ t.userdata = userdata /\ t.current = current
      /\ ~modulesLocked => t.enabled = IF ~Ms!Changes(m, FALSE) \/ refused THEN modulesOn ELSE modulesOn \ {m}
  <2>1. CASE modulesLocked
    BY <1>5, <2>1, PanelNow DEF Ms!EnabledAreCompatible
  <2>2. CASE ~modulesLocked
    <3>1. Switched(Ms!SetModuleEnabled(m, FALSE, refused), m, FALSE, refused)
      BY <1>2, <1>5, SwitchedPanel
    <3> QED
      BY <2>2, <3>1 DEF Switched
  <2> QED
    BY <2>1, <2>2
<1>9. Ms!Becomes(t)
  BY <1>6
<1> HIDE DEF t
<1>10. /\ modulesOn' \subseteq Ms!Registered /\ managed' \subseteq Ms!Registered
       /\ userdata' \in [Ms!Registered -> Shown] /\ given' \in [Ms!Registered -> Shown]
       /\ current' \in [Ms!Registered -> Stored]
       /\ Ms!EnabledAreCompatible' /\ Ms!ConfiguredAsShown'
  BY <1>8, <1>9, BecomesPanel
<1>11. SettingsType'
  <2>1. loading'.at \in 0 .. 2 * Len(ModuleOrder) + 1 /\ loading'.at # 0
    BY <1>2, <1>4, PlacesOfModules
  <2> QED
    BY <1>4, <1>5, <1>7, <1>10, <2>1 DEF SettingsType
<1>12. Ms!SettingsComeBack'
  BY <1>5 DEF Ms!SettingsComeBack
<1>13. DataSettled'
  <2>1. ASSUME NEW x \in Ms!Registered PROVE Waits(x)'
    <3>1. \A j \in DOMAIN ModuleOrder : Len(ModuleOrder) + j >= k + 1
      BY <1>2, PlacesOfModules
    <3> QED
      BY <1>2, <1>4, <3>1 DEF Waits
  <2> QED
    BY <2>1 DEF DataSettled
<1>14. PromisesKept'
  <2>1. ASSUME NEW w \in want', want' # {} PROVE OnTheWay(w)'
    <3>1. ~refused /\ w \in want /\ want # {} /\ ~modulesLocked
      BY <1>2, <1>6, <2>1 DEF PromisesKept
    <3>2. OnTheWay(w)
      BY <1>2, <3>1 DEF PromisesKept
    <3>3. modulesOn' = IF Ms!Changes(m, FALSE) THEN modulesOn \ {m} ELSE modulesOn
      BY <1>8, <1>9, <3>1 DEF Ms!Becomes
    <3>4. Ms!Changes(m, FALSE) <=> m \notin SystemModules /\ m \in modulesOn
      BY WhatChanges
    <3>5. Promises(w, loading.modules)'
      BY <1>4, <3>2 DEF OnTheWay
    <3>6. ASSUME NEW x \in modulesOn', x \notin w.enabled
          PROVE  x \notin SystemModules /\ \E j \in DOMAIN ModuleOrder : j >= k + 1 /\ ModuleOrder[j] = x
      <4>1. x \in modulesOn
        BY <3>3, <3>6
      <4>2. PICK j \in DOMAIN ModuleOrder : x \notin SystemModules /\ j >= k /\ ModuleOrder[j] = x
        BY <3>2, <3>6, <4>1 DEF OnTheWay
      <4>3. j # k
        BY <3>3, <3>4, <3>6, <4>1, <4>2
      <4> QED
        BY <1>2, <4>2, <4>3, PlacesOfModules
    <3>7. ASSUME NEW x \in w.enabled, x \notin modulesOn'
          PROVE  x \in Called(loading.modules) /\ \E j \in DOMAIN ModuleOrder : Len(ModuleOrder) + j >= k + 1 /\ ModuleOrder[j] = x
      <4>1. \A j \in DOMAIN ModuleOrder : Len(ModuleOrder) + j >= k + 1
        BY <1>2, PlacesOfModules
      <4>2. CASE x \in modulesOn
        <5>1. x = m /\ m \notin SystemModules
          BY <3>3, <3>4, <3>7, <4>2
        <5>2. w.enabled \subseteq Called(loading.modules) \cup SystemModules
          BY <3>2 DEF OnTheWay, Promises
        <5> QED
          BY <1>2, <3>7, <4>1, <5>1, <5>2
      <4>3. CASE x \notin modulesOn
        BY <3>2, <3>7, <4>1, <4>3 DEF OnTheWay
      <4> QED
        BY <4>2, <4>3
    <3> HIDE DEF k, m
    <3> QED
      BY <1>4, <3>5, <3>6, <3>7 DEF OnTheWay
  <2>2. modulesLocked' => want' = {}
    BY <1>2, <1>6, <1>7 DEF PromisesKept
  <2> QED
    BY <1>5, <1>7, <2>1, <2>2 DEF PromisesKept
<1> QED
  BY <1>10, <1>11, <1>12, <1>13, <1>14

LEMMA LoadKeepsSettings ==
  ASSUME SettingsInv, Ms!LoadModule
  PROVE  SettingsInv'
<1> USE DEF SettingsInv
<1> DEFINE n == Len(ModuleOrder)
           k == loading.at - n
           m == ModuleOrder[k]
           on == Ms!InPreset(loading.modules, m).enabled
           data == Data(loading.modules, m)
<1>1. loading.at \in Nat /\ n \in Nat /\ loading.at - (n + 1) + 1 = k /\ ModulesOk(loading.modules)
  BY PlacesOfModules DEF SettingsType
<1>2. k \in DOMAIN ModuleOrder /\ k \in 1 .. n /\ m \in Ms!Registered /\ loading.at # 0 /\ loading.at = n + k
  BY <1>1, PlacesOfModules DEF Ms!LoadModule, Ms!Loading, Ms!FirstEnable
<1>3. loading' = [loading EXCEPT !.at = @ + 1]
  BY DEF Ms!LoadModule, Ms!Loading
<1>4. /\ loading' = [at |-> loading'.at, modules |-> loading'.modules, saves |-> loading'.saves]
      /\ loading'.at = n + k + 1 /\ loading'.modules = loading.modules
  BY <1>2, <1>3 DEF SettingsType
<1>5. running /\ loading' # Ms!NoLoad
  BY <1>1, <1>2, <1>4, LoadingRuns, NoLoadAt
<1>6. on \in BOOLEAN /\ data \in Stored
  BY <1>1, PresetEntry
<1> DEFINE e(refused) == IF modulesLocked THEN Ms!Panel ELSE Ms!SetModuleEnabled(m, on, refused)
           s(refused) == [e(refused) EXCEPT !.current[m] = data]
           t(refused) == IF data = Ms!NoData THEN Ms!ResetToDefaults(s(refused), m)
                         ELSE Ms!LoadSerializedData(s(refused), m, data)
<1>7. PICK refused \in BOOLEAN : Ms!Becomes(t(refused)) /\ want' = IF refused THEN {} ELSE want
  BY DEF Ms!LoadModule, Ms!Refusals, Data
<1>8. UNCHANGED <<running, presets, settingsFile, modulesLocked>>
  BY DEF Ms!LoadModule
<1>9. /\ e(refused) \in Panels /\ AsShown(e(refused)) /\ \A x, y \in e(refused).enabled : x # y => Ms!Compatible(x, y)
      /\ e(refused).userdata = userdata /\ e(refused).current = current
      /\ ~modulesLocked => e(refused).enabled = IF ~Ms!Changes(m, on) \/ refused THEN modulesOn
                                                ELSE IF on THEN modulesOn \cup {m} ELSE modulesOn \ {m}
  <2>1. CASE modulesLocked
    BY <1>5, <2>1, PanelNow DEF Ms!EnabledAreCompatible
  <2>2. CASE ~modulesLocked
    <3>1. Switched(Ms!SetModuleEnabled(m, on, refused), m, on, refused)
      BY <1>2, <1>5, <1>6, SwitchedPanel
    <3> QED
      BY <2>2, <3>1 DEF Switched
  <2> QED
    BY <2>1, <2>2
<1> HIDE DEF e
<1>10. /\ s(refused) \in Panels /\ s(refused).current = [current EXCEPT ![m] = data]
       /\ s(refused).userdata = userdata /\ s(refused).enabled = e(refused).enabled /\ s(refused).config = e(refused).config
  BY <1>2, <1>6, <1>9 DEF Panels
<1>11. AsShown(s(refused)) /\ s(refused).current[m] = data
  BY <1>2, <1>9, <1>10 DEF AsShown, SettingsType
<1> HIDE DEF s
<1>12. /\ t(refused) \in Panels /\ AsShown(t(refused)) /\ t(refused).enabled = e(refused).enabled
       /\ \A x \in Ms!Registered \ {m} : t(refused).userdata[x] = userdata[x] /\ t(refused).current[x] = current[x]
       /\ m \notin SystemModules => SettledIn(t(refused), m) /\ Loaded(loading.modules, m, t(refused).userdata[m])
  <2>1. \A x \in Ms!Registered \ {m} : s(refused).current[x] = current[x]
    BY <1>10 DEF SettingsType
  <2>2. CASE data = Ms!NoData
    BY <1>2, <1>10, <1>11, <2>1, <2>2, ResetPanel DEF Loaded
  <2>3. CASE data # Ms!NoData
    <3>1. t(refused) = Ms!LoadSerializedData(s(refused), m, data)
      BY <2>3
    <3> HIDE DEF t
    <3>2. LoadedAs(s(refused), Ms!LoadSerializedData(s(refused), m, data), m, data)
      BY <1>2, <1>6, <1>10, <1>11, <2>3, LoadedPanel
    <3> HIDE DEF data, m
    <3> QED
      BY <1>10, <2>1, <2>3, <3>1, <3>2 DEF Loaded, LoadedAs, data
  <2> QED
    BY <2>2, <2>3
<1> HIDE DEF t
<1>13. /\ modulesOn' = e(refused).enabled /\ userdata' = t(refused).userdata /\ current' = t(refused).current
  BY <1>7, <1>12 DEF Ms!Becomes
<1>14. /\ modulesOn' \subseteq Ms!Registered /\ managed' \subseteq Ms!Registered
       /\ userdata' \in [Ms!Registered -> Shown] /\ given' \in [Ms!Registered -> Shown]
       /\ current' \in [Ms!Registered -> Stored]
       /\ Ms!EnabledAreCompatible' /\ Ms!ConfiguredAsShown'
  BY <1>7, <1>9, <1>12, BecomesPanel
<1>15. SettingsType'
  <2>1. \A x \in 1 .. n : n + x + 1 \in 0 .. 2 * n + 1 /\ n + x + 1 # 0
    BY <1>1
  <2>2. loading'.at \in 0 .. 2 * Len(ModuleOrder) + 1 /\ loading'.at # 0
    BY <1>2, <1>4, <2>1
  <2> QED
    BY <1>4, <1>5, <1>8, <1>14, <2>2 DEF SettingsType
<1>16. Ms!SettingsComeBack'
  BY <1>5 DEF Ms!SettingsComeBack
<1>17. DataSettled'
  <2>1. ASSUME NEW x \in Ms!Registered \ SystemModules, ~Waits(x)'
        PROVE  Settled(x)' /\ Loaded(loading.modules, x, userdata[x])'
    <3>1. CASE x = m
      BY <1>4, <1>12, <1>13, <2>1, <3>1 DEF Settled, SettledIn
    <3>2. CASE x # m
      <4>1. PICK j \in DOMAIN ModuleOrder : ModuleOrder[j] = x /\ n + j < n + k + 1
        BY <1>1, <1>2, <1>4, <2>1, PlacesOfModules DEF Waits
      <4>2. j # k
        BY <3>2, <4>1
      <4>3. n + j < loading.at
        BY <1>1, <1>2, <4>1, <4>2, PlacesOfModules
      <4>4. ~Waits(x)
        BY <1>1, <4>1, <4>3, PlacesOfModules DEF Waits
      <4>5. Settled(x) /\ Loaded(loading.modules, x, userdata[x])
        BY <1>2, <1>5, <2>1, <4>4 DEF DataSettled
      <4>6. userdata'[x] = userdata[x] /\ current'[x] = current[x]
        BY <1>12, <1>13, <2>1, <3>2
      <4> QED
        BY <1>4, <4>5, <4>6 DEF Settled
    <3> QED
      BY <3>1, <3>2
  <2> QED
    BY <2>1 DEF DataSettled
<1>18. PromisesKept'
  <2>1. ASSUME NEW w \in want', want' # {} PROVE OnTheWay(w)'
    <3>1. ~refused /\ w \in want /\ want # {} /\ ~modulesLocked
      BY <1>2, <1>7, <2>1 DEF PromisesKept
    <3>2. OnTheWay(w)
      BY <1>2, <3>1 DEF PromisesKept
    <3>3. modulesOn' = IF ~Ms!Changes(m, on) THEN modulesOn ELSE IF on THEN modulesOn \cup {m} ELSE modulesOn \ {m}
      BY <1>9, <1>13, <3>1
    <3>4. Promises(w, loading.modules)'
      BY <1>4, <3>2 DEF OnTheWay
    <3>5. modulesOn \subseteq w.enabled
      <4>1. \A j \in DOMAIN ModuleOrder : ~(j >= loading.at)
        BY <1>1, <1>2, PlacesOfModules
      <4> QED
        BY <3>2, <4>1 DEF OnTheWay
    <3>6. Called(loading.modules) \subseteq w.enabled /\ w.enabled \subseteq Called(loading.modules) \cup SystemModules
      BY <3>2 DEF OnTheWay, Promises
    <3>7. on <=> m \in Called(loading.modules)
      BY <1>2 DEF Called
    <3>8. modulesOn' = IF on THEN modulesOn \cup {m} ELSE modulesOn
      <4>1. CASE on
        <5>1. \A x \in modulesOn : x = m \/ Ms!Compatible(m, x)
          BY <1>1, <3>5, <3>6, <3>7, <4>1, CalledCompatible
        <5>2. m \in modulesOn \/ Ms!Changes(m, on)
          BY <5>1, <4>1, <1>6, WhatChanges
        <5>3. m \in modulesOn => ~Ms!Changes(m, on)
          BY <4>1, <1>6, WhatChanges
        <5> QED
          BY <3>3, <4>1, <5>2, <5>3
      <4>2. CASE ~on
        <5>1. on = FALSE
          BY <1>6, <4>2
        <5>2. m \notin SystemModules => m \notin modulesOn
          BY <3>5, <3>6, <3>7, <4>2
        <5>3. ~Ms!Changes(m, FALSE)
          BY <5>2, WhatChanges
        <5> QED
          BY <3>3, <4>2, <5>1, <5>3
      <4> QED
        BY <4>1, <4>2
    <3>9. modulesOn' \subseteq w.enabled
      BY <3>5, <3>6, <3>7, <3>8
    <3>10. ASSUME NEW x \in w.enabled, x \notin modulesOn'
           PROVE  /\ x \in Called(loading.modules)
                  /\ \E j \in DOMAIN ModuleOrder : n + j >= n + k + 1 /\ ModuleOrder[j] = x
      <4>1. x \notin modulesOn
        BY <3>8, <3>10
      <4>2. PICK j \in DOMAIN ModuleOrder : n + j >= loading.at /\ ModuleOrder[j] = x /\ x \in Called(loading.modules)
        BY <3>2, <3>10, <4>1 DEF OnTheWay
      <4>3. j # k
        BY <3>7, <3>8, <3>10, <4>2
      <4>4. j \in Nat
        BY <4>2, PlacesOfModules
      <4>5. n + j >= n + k + 1
        <5>1. n \in Nat /\ k \in Nat /\ n + j >= n + k
          <6> HIDE DEF k
          <6> QED
            BY <1>1, <1>2, <4>2
        <5> HIDE DEF n, k
        <5> QED
          BY <4>3, <4>4, <5>1
      <4> QED
        BY <4>2, <4>5
    <3> QED
      BY <1>4, <3>4, <3>9, <3>10 DEF OnTheWay
  <2>2. modulesLocked' => want' = {}
    BY <1>2, <1>7, <1>8 DEF PromisesKept
  <2> QED
    BY <1>5, <1>8, <2>1, <2>2 DEF PromisesKept
<1> QED
  BY <1>14, <1>15, <1>16, <1>17, <1>18

LEMMA EndKeeps ==
  ASSUME SettingsInv, Ms!EndLoad
  PROVE  SettingsInv'
<1> USE DEF SettingsInv
<1>1. /\ loading.at = 2 * Len(ModuleOrder) + 1 /\ loading.at # 0 /\ loading' = Ms!NoLoad /\ loading'.at = 0
      /\ UNCHANGED <<running, modulesOn, managed, userdata, given, current, presets, modulesLocked, want>>
  BY PlacesOfModules, NoLoadAt DEF Ms!EndLoad
<1>2. running
  BY <1>1, LoadingRuns
<1>3. settingsFile' = settingsFile \/ settingsFile' = [current |-> Ms!CurrentModules(Ms!Panel), presets |-> presets]
  BY DEF Ms!EndLoad, Ms!SavePresets
<1>4. ModulesOk(Ms!CurrentModules(Ms!Panel))
  BY <1>2, PanelNow, CurrentOk DEF Ms!EnabledAreCompatible
<1>5. SettingsType'
  <2>1. /\ settingsFile' = [current |-> settingsFile'.current, presets |-> settingsFile'.presets]
        /\ ModulesOk(settingsFile'.current) /\ PresetsOk(settingsFile'.presets)
    BY <1>3, <1>4 DEF SettingsType
  <2>2. /\ loading' = [at |-> loading'.at, modules |-> loading'.modules, saves |-> loading'.saves]
        /\ loading'.at \in 0 .. 2 * Len(ModuleOrder) + 1 /\ ModulesOk(loading'.modules)
    BY <1>1, NoLoadAt, PlacesOfModules
  <2> QED
    BY <1>1, <1>2, <2>1, <2>2 DEF SettingsType
<1>6. Ms!EnabledAreCompatible' /\ Ms!ConfiguredAsShown'
  BY <1>1 DEF Ms!EnabledAreCompatible, Ms!ConfiguredAsShown
<1>7. ASSUME NEW m \in Ms!Registered \ SystemModules
      PROVE  Settled(m) /\ Loaded(loading.modules, m, userdata[m])
  <2>1. ~Waits(m)
    BY <1>1, PlacesOfModules DEF Waits
  <2> QED
    BY <1>1, <1>2, <2>1 DEF DataSettled
<1>8. Ms!SettingsComeBack'
  <2>1. ASSUME NEW w \in want
        PROVE  /\ modulesOn = w.enabled
               /\ \A m \in Ms!Registered \ SystemModules :
                    userdata[m] = IF m \in w.whole THEN w.data[m] ELSE [w.data[m] EXCEPT !.kept = userdata[m].kept]
    <3>1. OnTheWay(w)
      BY <1>1 DEF PromisesKept
    <3>2. modulesOn = w.enabled
      <4>1. \A j \in DOMAIN ModuleOrder : ~(j >= loading.at) /\ ~(Len(ModuleOrder) + j >= loading.at)
        BY <1>1, PlacesOfModules
      <4> QED
        BY <3>1, <4>1 DEF OnTheWay
    <3>3. ASSUME NEW m \in Ms!Registered \ SystemModules
          PROVE  userdata[m] = IF m \in w.whole THEN w.data[m] ELSE [w.data[m] EXCEPT !.kept = userdata[m].kept]
      <4>1. /\ w.data[m] \in Shown /\ userdata[m] \in Shown
            /\ m \in w.whole <=> Data(loading.modules, m) # Ms!NoData
            /\ Loaded(loading.modules, m, w.data[m]) /\ Loaded(loading.modules, m, userdata[m])
        BY <1>7, <3>1 DEF OnTheWay, Promises, SettingsType
      <4>2. CASE m \in w.whole
        BY <4>1, <4>2 DEF Loaded
      <4>3. CASE m \notin w.whole
        <5>1. AtDefault(w.data[m]) /\ AtDefault(userdata[m])
          BY <4>1, <4>3 DEF Loaded
        <5>2. \A d, e \in Shown : AtDefault(d) /\ AtDefault(e) => e = [d EXCEPT !.kept = e.kept]
          BY DEF Shown, AtDefault
        <5> QED
          BY <4>1, <4>3, <5>1, <5>2
      <4> QED
        BY <4>2, <4>3
    <3> QED
      BY <3>2, <3>3
  <2> QED
    BY <1>1, <2>1 DEF Ms!SettingsComeBack
<1>9. DataSettled'
  BY <1>1, <1>7 DEF DataSettled, Settled
<1>10. PromisesKept'
  BY <1>1, <1>2 DEF PromisesKept
<1> QED
  BY <1>5, <1>6, <1>8, <1>9, <1>10

(* When no preset is loading, nothing waits and no promise is on the way.       *)
LEMMA IdleSettled ==
  ASSUME SettingsInv, running, loading = Ms!NoLoad
  PROVE  loading.at = 0 /\ \A m \in Ms!Registered \ SystemModules : Settled(m)
BY NoLoadAt DEF SettingsInv, DataSettled, Waits

(* A step that leaves the panel idle and running keeps the invariant, if what   *)
(* it changes is in order.                                                  *)
LEMMA IdleKeeps ==
  ASSUME SettingsInv, running, running' = running, loading = Ms!NoLoad, loading' = loading, modulesLocked' \in BOOLEAN,
         NEW t \in Panels, AsShown(t), \A m, e \in t.enabled : m # e => Ms!Compatible(m, e), Ms!Becomes(t),
         \A m \in Ms!Registered \ SystemModules : SettledIn(t, m),
         PresetsOk(presets'),
         settingsFile' = settingsFile \/ settingsFile' = [current |-> Ms!CurrentModules(t), presets |-> presets'],
         want' = {} \/ (want' = want /\ t.enabled = modulesOn /\ t.userdata = userdata)
  PROVE  SettingsInv'
<1> USE DEF SettingsInv
<1>1. /\ modulesOn' = t.enabled /\ userdata' = t.userdata /\ current' = t.current
  BY DEF Ms!Becomes
<1>2. /\ modulesOn' \subseteq Ms!Registered /\ managed' \subseteq Ms!Registered
      /\ userdata' \in [Ms!Registered -> Shown] /\ given' \in [Ms!Registered -> Shown]
      /\ current' \in [Ms!Registered -> Stored]
      /\ Ms!EnabledAreCompatible' /\ Ms!ConfiguredAsShown'
  BY BecomesPanel
<1>3. SettingsType'
  <2>1. /\ settingsFile' = [current |-> settingsFile'.current, presets |-> settingsFile'.presets]
        /\ ModulesOk(settingsFile'.current) /\ PresetsOk(settingsFile'.presets)
    BY CurrentOk DEF SettingsType
  <2> QED
    BY <1>2, <2>1 DEF SettingsType
<1>4. loading.at = 0 /\ loading'.at = 0
  BY NoLoadAt
<1>5. Ms!SettingsComeBack'
  BY <1>1 DEF Ms!SettingsComeBack
<1>6. DataSettled'
  BY <1>1, <1>4 DEF DataSettled, Settled, SettledIn
<1>7. PromisesKept'
  BY <1>4 DEF PromisesKept
<1> QED
  BY <1>2, <1>3, <1>5, <1>6, <1>7

LEMMA CreateKeeps ==
  ASSUME SettingsInv, NEW typed, Ms!CreateOrUpdatePreset(typed)
  PROVE  SettingsInv'
<1>1. /\ running /\ loading = Ms!NoLoad /\ loading' = loading /\ running' = running
      /\ UNCHANGED <<modulesOn, managed, userdata, given, current, settingsFile, modulesLocked, want>>
  BY DEF Ms!CreateOrUpdatePreset, Ms!Edit, Ms!Happens
<1>2. ModulesOk(Ms!CurrentModules(Ms!Panel))
  BY <1>1, PanelNow, CurrentOk DEF SettingsInv, Ms!EnabledAreCompatible
<1>3. PresetsOk(presets')
  <2>1. PresetsOk(presets)
    BY DEF SettingsInv, SettingsType
  <2>2. CASE Ms!Named(presets, typed) # {}
    <3>1. presets' = [presets EXCEPT ![Ms!GetPresetIndex(presets, typed)].modules = Ms!CurrentModules(Ms!Panel)]
      BY <2>2 DEF Ms!CreateOrUpdatePreset
    <3> QED
      BY <1>2, <2>1, <2>2, <3>1, FoundPlace, UpdatedPresets
  <2>3. CASE Ms!Named(presets, typed) = {}
    <3>1. presets' = Ms!PushBack(presets, [name |-> Trimmed[typed], builtin |-> FALSE, modules |-> Ms!CurrentModules(Ms!Panel)])
      BY <2>3 DEF Ms!CreateOrUpdatePreset
    <3> QED
      BY <1>2, <2>1, <3>1, PushedPresets
  <2> QED
    BY <2>2, <2>3
<1>4. Ms!Becomes(Ms!Panel)
  BY <1>1 DEF Ms!Becomes, Ms!Panel
<1>5. \A m \in Ms!Registered \ SystemModules : SettledIn(Ms!Panel, m)
  BY <1>1, IdleSettled, PanelNow DEF SettingsInv, Settled, SettledIn
<1> QED
  BY <1>1, <1>3, <1>4, <1>5, PanelNow, IdleKeeps DEF SettingsInv, SettingsType, Ms!EnabledAreCompatible

LEMMA DeleteKeeps ==
  ASSUME SettingsInv, NEW name, Ms!DeletePreset(name)
  PROVE  SettingsInv'
<1>1. /\ running /\ loading = Ms!NoLoad /\ loading' = loading /\ running' = running
      /\ UNCHANGED <<modulesOn, managed, userdata, given, current, modulesLocked, want>>
      /\ presets' = Ms!RestrictValues(presets, LAMBDA p : p.name # name \/ p.builtin)
      /\ settingsFile' = [current |-> Ms!CurrentModules(Ms!Panel), presets |-> presets']
  BY DEF Ms!DeletePreset, Ms!Edit, Ms!Happens, Ms!SavePresets
<1>2. PresetsOk(presets')
  <2> DEFINE S == {k \in DOMAIN presets : presets[k].name # name \/ presets[k].builtin}
  <2>1. presets' = [k \in S |-> presets[k]]
    BY <1>1 DEF Ms!RestrictValues, Ms!Restrict
  <2>2. PresetsOk(presets)
    BY DEF SettingsInv, SettingsType
  <2> QED
    BY <2>1, <2>2, KeptPresets
<1>3. Ms!Becomes(Ms!Panel)
  BY <1>1 DEF Ms!Becomes, Ms!Panel
<1>4. \A m \in Ms!Registered \ SystemModules : SettledIn(Ms!Panel, m)
  BY <1>1, IdleSettled, PanelNow DEF SettingsInv, Settled, SettledIn
<1> QED
  BY <1>1, <1>2, <1>3, <1>4, PanelNow, IdleKeeps DEF SettingsInv, SettingsType, Ms!EnabledAreCompatible

LEMMA ChangeKeeps ==
  ASSUME SettingsInv, NEW m \in Ms!Registered, NEW on \in BOOLEAN, Ms!ChangeModule(m, on)
  PROVE  SettingsInv'
<1>1. /\ running /\ loading = Ms!NoLoad /\ loading' = loading /\ running' = running
      /\ presets' = presets /\ modulesLocked' = modulesLocked /\ want' = {}
  BY DEF Ms!ChangeModule, Ms!Edit, Ms!Happens
<1>2. PICK refused \in BOOLEAN :
        /\ Ms!Becomes(Ms!SetModuleEnabled(m, on, refused))
        /\ \/ settingsFile' = settingsFile
           \/ settingsFile' = [current |-> Ms!CurrentModules(Ms!SetModuleEnabled(m, on, refused)), presets |-> presets]
  BY DEF Ms!ChangeModule, Ms!Refusals, Ms!SavePresets
<1> DEFINE t == Ms!SetModuleEnabled(m, on, refused)
<1>3. Switched(t, m, on, refused)
  BY <1>1, SwitchedPanel DEF SettingsInv
<1> HIDE DEF t
<1>4. \A x \in Ms!Registered \ SystemModules : SettledIn(t, x)
  BY <1>1, <1>3, IdleSettled DEF Settled, SettledIn, Switched
<1>5. t \in Panels /\ AsShown(t) /\ \A x, e \in t.enabled : x # e => Ms!Compatible(x, e)
  BY <1>3 DEF Switched
<1>6. settingsFile' = settingsFile \/ settingsFile' = [current |-> Ms!CurrentModules(t), presets |-> presets']
  BY <1>1, <1>2 DEF t
<1>7. Ms!Becomes(t) /\ PresetsOk(presets') /\ modulesLocked' \in BOOLEAN
  BY <1>1, <1>2 DEF t, SettingsInv, SettingsType
<1> QED
  BY <1>1, <1>4, <1>5, <1>6, <1>7, IdleKeeps

LEMMA EditKeeps ==
  ASSUME SettingsInv, NEW m \in Ms!Registered, NEW data \in Ms!Edited(m), Ms!EditField(m, data)
  PROVE  SettingsInv'
<1>1. /\ running /\ loading = Ms!NoLoad /\ loading' = loading /\ running' = running /\ data # userdata[m]
      /\ presets' = presets /\ modulesLocked' = modulesLocked /\ want' = {}
      /\ Ms!Becomes(Ms!PerformUpdate(Ms!Panel, m, data))
      /\ settingsFile' = [current |-> Ms!CurrentModules(Ms!PerformUpdate(Ms!Panel, m, data)), presets |-> presets]
  BY DEF Ms!EditField, Ms!Edit, Ms!Happens, Ms!SavePresets
<1>2. data \in Shown
  <2>1. userdata[m] \in Shown
    BY DEF SettingsInv, SettingsType
  <2>2. \A d \in Shown : [d EXCEPT !.main = "chosen"] \in Shown /\ [d EXCEPT !.kept = "chosen"] \in Shown
                         /\ [d EXCEPT !.index = "chosen"] \in Shown
    BY DEF Shown
  <2> QED
    BY <2>1, <2>2 DEF Ms!Edited
<1>3. /\ Ms!Panel \in Panels /\ AsShown(Ms!Panel) /\ Ms!Panel.userdata = userdata /\ Ms!Panel.current = current
      /\ Ms!Panel.enabled = modulesOn
  BY <1>1, PanelNow DEF SettingsInv
<1> DEFINE t == Ms!PerformUpdate(Ms!Panel, m, data)
<1>4. UpdatedAs(Ms!Panel, t, m, data)
  BY <1>2, <1>3, UpdatedPanel
<1>5. Ms!Becomes(t) /\ settingsFile' = [current |-> Ms!CurrentModules(t), presets |-> presets']
  BY <1>1
<1> HIDE DEF t
<1>6. /\ t \in Panels /\ AsShown(t) /\ t.enabled = modulesOn
      /\ t.userdata = [userdata EXCEPT ![m] = data] /\ t.current = [current EXCEPT ![m] = data]
  BY <1>1, <1>3, <1>4 DEF UpdatedAs
<1>7. \A x \in Ms!Registered \ SystemModules : SettledIn(t, x)
  <2>1. \A x \in Ms!Registered \ SystemModules : Settled(x)
    BY <1>1, IdleSettled
  <2>2. userdata \in [Ms!Registered -> Shown] /\ current \in [Ms!Registered -> Stored]
    BY DEF SettingsInv, SettingsType
  <2> QED
    BY <1>2, <1>6, <2>1, <2>2, ShownData DEF Settled, SettledIn
<1>8. \A x, e \in t.enabled : x # e => Ms!Compatible(x, e)
  BY <1>6 DEF SettingsInv, Ms!EnabledAreCompatible
<1>9. PresetsOk(presets') /\ modulesLocked' \in BOOLEAN
  BY <1>1 DEF SettingsInv, SettingsType
<1> QED
  BY <1>1, <1>5, <1>6, <1>7, <1>8, <1>9, IdleKeeps

LEMMA PresetKeeps ==
  ASSUME SettingsInv, NEW name, Ms!LoadPreset(name)
  PROVE  SettingsInv'
<1>1. /\ running /\ loading = Ms!NoLoad /\ running' = running /\ Ms!Named(presets, name) # {}
      /\ UNCHANGED <<modulesOn, managed, userdata, given, presets, modulesLocked>>
  BY DEF Ms!LoadPreset, Ms!Edit, Ms!Happens
<1>2. CASE modulesLocked
  <2>1. /\ settingsFile' = [current |-> Ms!CurrentModules(Ms!Panel), presets |-> presets']
        /\ UNCHANGED <<current, loading, want>>
    BY <1>1, <1>2 DEF Ms!LoadPreset, Ms!SavePresets
  <2>2. Ms!Becomes(Ms!Panel)
    BY <1>1, <2>1 DEF Ms!Becomes, Ms!Panel
  <2>3. \A m \in Ms!Registered \ SystemModules : SettledIn(Ms!Panel, m)
    BY <1>1, IdleSettled, PanelNow DEF SettingsInv, Settled, SettledIn
  <2> QED
    BY <1>1, <2>1, <2>2, <2>3, PanelNow, IdleKeeps DEF SettingsInv, SettingsType, Ms!EnabledAreCompatible
<1>3. CASE ~modulesLocked
  <2> DEFINE modules == presets[Ms!GetPresetIndex(presets, name)].modules
             w == Ms!Promised(modules, modulesOn)
  <2>1. /\ loading' = [at |-> 1, modules |-> modules, saves |-> TRUE] /\ current' = Ms!Fresh.current
        /\ want' = {w} /\ settingsFile' = settingsFile
    BY <1>3 DEF Ms!LoadPreset, Ms!BeginLoad
  <2>2. ModulesOk(modules)
    BY <1>1, FoundPlace DEF SettingsInv, SettingsType, PresetsOk
  <2>3. Promises(w, modules) /\ w.enabled = Called(modules) \cup (modulesOn \cap SystemModules)
    <3>1. /\ w.enabled = Called(modules) \cup (modulesOn \cap SystemModules)
          /\ w.data = [m \in Ms!Registered |-> IF Data(modules, m) = Ms!NoData THEN Ms!Default
                                               ELSE Ms!ValidateData(Data(modules, m))]
          /\ w.whole = {m \in Ms!Registered : Data(modules, m) # Ms!NoData}
      BY DEF Ms!Promised, Called, Data
    <3> HIDE DEF w
    <3>2. ASSUME NEW m \in Ms!Registered
          PROVE  /\ w.data[m] \in Shown /\ Loaded(modules, m, w.data[m])
                 /\ m \in w.whole <=> Data(modules, m) # Ms!NoData
      BY <2>2, <3>1, PresetEntry, ShownData DEF Loaded
    <3> QED
      BY <3>1, <3>2 DEF Promises
  <2> HIDE DEF modules, w
  <2>4. /\ loading'.at = 1 /\ loading'.modules = modules /\ loading' # Ms!NoLoad
        /\ loading' = [at |-> loading'.at, modules |-> loading'.modules, saves |-> loading'.saves]
    BY <2>1, NoLoadAt
  <2>5. SettingsType'
    <3>1. current' \in [Ms!Registered -> Stored]
      BY <2>1, FreshPanel DEF Panels
    <3>2. loading'.at \in 0 .. 2 * Len(ModuleOrder) + 1
      BY <2>4, PlacesOfModules
    <3> QED
      BY <1>1, <2>1, <2>2, <2>4, <3>1, <3>2 DEF SettingsInv, SettingsType
  <2>6. Ms!EnabledAreCompatible' /\ Ms!ConfiguredAsShown' /\ Ms!SettingsComeBack'
    BY <1>1, <2>4 DEF SettingsInv, Ms!EnabledAreCompatible, Ms!ConfiguredAsShown, Ms!SettingsComeBack
  <2>7. \A j \in DOMAIN ModuleOrder : j >= 1 /\ Len(ModuleOrder) + j >= 1
    BY PlacesOfModules
  <2>8. DataSettled'
    <3>1. ASSUME NEW m \in Ms!Registered PROVE Waits(m)'
      BY <2>4, <2>7 DEF Waits
    <3> QED
      BY <3>1 DEF DataSettled
  <2>9. PromisesKept'
    <3>1. ASSUME NEW v, v = w PROVE OnTheWay(v)'
      <4>1. ASSUME NEW m \in modulesOn, m \notin v.enabled
            PROVE  m \notin SystemModules /\ \E j \in DOMAIN ModuleOrder : j >= 1 /\ ModuleOrder[j] = m
        BY <2>3, <2>7, <3>1, <4>1, PlacesOfModules DEF SettingsInv, SettingsType
      <4>2. ASSUME NEW m \in v.enabled, m \notin modulesOn
            PROVE  /\ m \in Called(modules)
                   /\ \E j \in DOMAIN ModuleOrder : Len(ModuleOrder) + j >= 1 /\ ModuleOrder[j] = m
        BY <2>3, <2>7, <3>1, <4>2, PlacesOfModules DEF Called
      <4>3. Promises(v, modules)
        BY <2>3, <3>1
      <4> QED
        BY <1>1, <2>4, <4>1, <4>2, <4>3 DEF OnTheWay
    <3>2. \A v \in want' : OnTheWay(v)'
      BY <2>1, <3>1
    <3> QED
      BY <1>1, <1>3, <2>1, <3>2 DEF PromisesKept
  <2> QED
    BY <2>5, <2>6, <2>8, <2>9 DEF SettingsInv
<1> QED
  BY <1>2, <1>3

LEMMA LockKeeps ==
  ASSUME SettingsInv, Ms!LockModules
  PROVE  SettingsInv'
<1> USE DEF SettingsInv
<1>1. /\ running /\ modulesLocked' \in BOOLEAN
      /\ want' = IF loading = Ms!NoLoad THEN want ELSE {}
      /\ UNCHANGED <<running, modulesOn, managed, userdata, given, current, presets, settingsFile, loading>>
  BY DEF Ms!LockModules, Ms!Happens
<1>2. SettingsType'
  BY <1>1 DEF SettingsType
<1>3. Ms!EnabledAreCompatible' /\ Ms!ConfiguredAsShown' /\ Ms!SettingsComeBack'
  BY <1>1 DEF Ms!EnabledAreCompatible, Ms!ConfiguredAsShown, Ms!SettingsComeBack
<1>4. DataSettled'
  BY <1>1 DEF DataSettled, Waits, Settled
<1>5. PromisesKept'
  <2>1. loading.at # 0 => want' = {}
    BY <1>1, NoLoadAt
  <2> QED
    BY <1>1, <2>1 DEF PromisesKept
<1> QED
  BY <1>2, <1>3, <1>4, <1>5

LEMMA CloseKeeps ==
  ASSUME SettingsInv, Ms!CloseEvent
  PROVE  SettingsInv'
<1> USE DEF SettingsInv
<1> DEFINE modules == Ms!CurrentModules(Ms!Panel)
           w == [enabled |-> modulesOn, data |-> userdata, whole |-> {m \in Ms!Registered : current[m] # Ms!NoData}]
<1>1. /\ running /\ loading = Ms!NoLoad /\ loading' = loading /\ running' = FALSE /\ modulesLocked' = FALSE
      /\ settingsFile' = [current |-> modules, presets |-> presets] /\ want' = {w}
      /\ UNCHANGED <<modulesOn, managed, userdata, given, current, presets>>
  BY DEF Ms!CloseEvent, Ms!Edit, Ms!Happens, Ms!SavePresets
<1>2. ModulesOk(modules)
  BY <1>1, PanelNow, CurrentOk DEF Ms!EnabledAreCompatible
<1>3. \A m \in Ms!Registered : (Ms!InPreset(modules, m).enabled <=> m \in modulesOn) /\ Data(modules, m) = current[m]
  <2>1. modules = [m \in Ms!Registered |-> [enabled |-> m \in modulesOn, data |-> current[m]]]
    BY DEF Ms!CurrentModules, Ms!Panel
  <2> HIDE DEF modules
  <2> QED
    BY <2>1 DEF Ms!InPreset, Data
<1> HIDE DEF modules
<1>4. Promises(w, modules) /\ w.enabled = Called(modules)
  <2>1. w.enabled = modulesOn /\ w.data = userdata /\ \A m \in Ms!Registered : m \in w.whole <=> current[m] # Ms!NoData
    OBVIOUS
  <2> HIDE DEF w
  <2>2. w.enabled = Called(modules)
    BY <1>3, <2>1 DEF Called, SettingsType
  <2>3. ASSUME NEW m \in Ms!Registered \ SystemModules
        PROVE  w.data[m] \in Shown /\ Loaded(modules, m, w.data[m])
    <3>1. Settled(m) /\ userdata[m] \in Shown
      BY <1>1, IdleSettled DEF SettingsType
    <3> QED
      BY <1>3, <2>1, <3>1, ShownData DEF Loaded, Settled
  <2> QED
    BY <1>3, <2>1, <2>2, <2>3 DEF Promises
<1> HIDE DEF w
<1>5. SettingsType'
  BY <1>1, <1>2 DEF SettingsType
<1>6. Ms!EnabledAreCompatible' /\ Ms!ConfiguredAsShown' /\ Ms!SettingsComeBack'
  BY <1>1 DEF Ms!EnabledAreCompatible, Ms!ConfiguredAsShown, Ms!SettingsComeBack
<1>7. DataSettled' /\ PromisesKept'
  BY <1>1, <1>4, NoLoadAt DEF DataSettled, PromisesKept
<1> QED
  BY <1>5, <1>6, <1>7

LEMMA CrashKeeps ==
  ASSUME SettingsInv, Ms!Crash
  PROVE  SettingsInv'
<1> USE DEF SettingsInv
<1>1. /\ loading' = Ms!NoLoad /\ running' = FALSE /\ modulesLocked' = FALSE /\ want' = {}
      /\ settingsFile' \in {settingsFile, Ms!NoFile}
      /\ UNCHANGED <<modulesOn, managed, userdata, given, current, presets>>
  BY DEF Ms!Crash
<1>2. /\ settingsFile' = [current |-> settingsFile'.current, presets |-> settingsFile'.presets]
      /\ ModulesOk(settingsFile'.current) /\ PresetsOk(settingsFile'.presets)
  <2>1. CASE settingsFile' = settingsFile
    BY <2>1 DEF SettingsType
  <2>2. CASE settingsFile' = Ms!NoFile
    BY <2>2, EmptyOk DEF Ms!NoFile
  <2> QED
    BY <1>1, <2>1, <2>2
<1>3. SettingsType'
  <2>1. loading'.at \in 0 .. 2 * Len(ModuleOrder) + 1 /\ loading'.at = 0 /\ ModulesOk(loading'.modules)
        /\ loading' = [at |-> loading'.at, modules |-> loading'.modules, saves |-> loading'.saves]
    BY <1>1, NoLoadAt, PlacesOfModules
  <2> QED
    BY <1>1, <1>2, <2>1 DEF SettingsType
<1>4. Ms!EnabledAreCompatible' /\ Ms!ConfiguredAsShown' /\ Ms!SettingsComeBack'
  BY <1>1 DEF Ms!EnabledAreCompatible, Ms!ConfiguredAsShown, Ms!SettingsComeBack
<1>5. DataSettled' /\ PromisesKept'
  BY <1>1, NoLoadAt DEF DataSettled, PromisesKept
<1> QED
  BY <1>3, <1>4, <1>5

LEMMA SettingsStutter == SettingsInv /\ UNCHANGED Ms!vars => SettingsInv'
<1> SUFFICES ASSUME SettingsInv, UNCHANGED Ms!vars PROVE SettingsInv'
  OBVIOUS
<1> QED
  BY DEF Ms!vars, SettingsInv, SettingsType, Ms!EnabledAreCompatible, Ms!ConfiguredAsShown, Ms!SettingsComeBack,
         DataSettled, Waits, Settled, PromisesKept, OnTheWay

(* The invariant holds in every state of the modules' settings.                *)
THEOREM SettingsInvHolds == Ms!Spec => []SettingsInv
<1>1. Ms!Init => SettingsInv
  BY SettingsInit
<1>2. SettingsInv /\ [Ms!Next]_(Ms!vars) => SettingsInv'
  <2> SUFFICES ASSUME SettingsInv, [Ms!Next]_(Ms!vars) PROVE SettingsInv'
    OBVIOUS
  <2>1. CASE Ms!LoadExistingPresets
    BY <2>1, StartKeeps
  <2>2. CASE Ms!DisableModule
    BY <2>2, DisableKeeps
  <2>3. CASE Ms!LoadModule
    BY <2>3, LoadKeepsSettings
  <2>4. CASE Ms!EndLoad
    BY <2>4, EndKeeps
  <2>5. ASSUME NEW name, Ms!LoadPreset(name) \/ Ms!DeletePreset(name) PROVE SettingsInv'
    BY <2>5, PresetKeeps, DeleteKeeps
  <2>6. ASSUME NEW typed, Ms!CreateOrUpdatePreset(typed) PROVE SettingsInv'
    BY <2>6, CreateKeeps
  <2>7. ASSUME NEW m \in Ms!Registered, NEW on \in BOOLEAN, Ms!ChangeModule(m, on) PROVE SettingsInv'
    BY <2>7, ChangeKeeps
  <2>8. ASSUME NEW m \in Ms!Registered, NEW data \in Ms!Edited(m), Ms!EditField(m, data) PROVE SettingsInv'
    BY <2>8, EditKeeps
  <2>9. CASE Ms!LockModules
    BY <2>9, LockKeeps
  <2>10. CASE Ms!CloseEvent
    BY <2>10, CloseKeeps
  <2>11. CASE Ms!Crash
    BY <2>11, CrashKeeps
  <2>12. CASE UNCHANGED Ms!vars
    BY <2>12, SettingsStutter
  <2> QED
    BY <2>1, <2>2, <2>3, <2>4, <2>5, <2>6, <2>7, <2>8, <2>9, <2>10, <2>11, <2>12 DEF Ms!Next
<1> QED
  BY <1>1, <1>2, PTL DEF Ms!Spec

(* Modules that exclude each other are never enabled together, for any modules  *)
(* and presets, whatever the driver refuses and whenever an application locks   *)
(* them while a preset loads (LoadPreset, LoadExistingPresets).               *)
THEOREM CompatibleTheorem == Ms!Spec => []EnabledAreCompatible
<1>1. SettingsInv => EnabledAreCompatible
  BY DEF SettingsInv, EnabledAreCompatible
<1> QED
  BY <1>1, SettingsInvHolds, PTL

(* What captures use is what the panel shows, and what is shown after a preset  *)
(* was loaded undisturbed, or after the panel was closed and launched again, is *)
(* what was promised, for any modules and presets (LoadSerializedData,         *)
(* LoadPreset, LoadExistingPresets, closeEvent).                              *)
THEOREM SettingsTheorem == Ms!Spec => []SettingsHold
<1>1. SettingsInv => SettingsHold
  BY DEF SettingsInv, SettingsHold, Ms!SettingsHold
<1> QED
  BY <1>1, SettingsInvHolds, PTL
==============================================================================
