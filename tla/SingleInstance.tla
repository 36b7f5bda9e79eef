---------------------------- MODULE SingleInstance ----------------------------
(***************************************************************************)
(* One panel, and one service, at a time: processes that start agree by a     *)
(* piece of shared memory, and the service by a named mutex, too               *)
(* (SingleApplicationInstance, SingleInstance, NamedMutex).                   *)
(*                                                                         *)
(* Each call to the system is a step. Shared memory goes with the last         *)
(* process that detaches. What a crashed process leaves is gone on Windows;    *)
(* on POSIX systems its memory and its semaphore stay. Memory of another       *)
(* account cannot be attached to.                                            *)
(***************************************************************************)
EXTENDS Naturals, FiniteSets

CONSTANTS
  Processes,
  AccountOf    \* [Processes -> account]

VARIABLES
  posix,       \* the system
  service,     \* the program: checkHeadlessInstances
  exists,      \* the shared memory
  attached,    \* who is attached to it
  account,     \* whose it is
  flag,        \* what it holds: an instance has started
  named,       \* the named mutex exists
  holders,     \* who has it open, and
  owner,       \* who created it (m_owner)
  pc,          \* where each process is
  another,     \* m_anotherInstanceRunning: "yes", "no", or not set
  told         \* BringToForeground was called

memoryVars == <<exists, attached, account, flag>>
mutexVars == <<named, holders, owner>>
vars == <<posix, service, memoryVars, mutexVars, pc, another, told>>

None == "none"

Init ==
  /\ posix \in BOOLEAN /\ service \in BOOLEAN
  /\ exists = FALSE /\ attached = {} /\ account = None /\ flag = FALSE
  /\ named = FALSE /\ holders = {} /\ owner = None
  /\ pc = [p \in Processes |-> "out"]
  /\ another = [p \in Processes |-> "unset"]
  /\ told = FALSE

Goto(p, at) == pc' = [pc EXCEPT ![p] = at]
Answer(p, a) == another' = [another EXCEPT ![p] = a]
MayAttach(p) == exists /\ account = AccountOf[p]

Start(p) ==
  /\ pc[p] = "out"
  /\ Goto(p, "create") /\ Answer(p, "unset")
  /\ UNCHANGED <<posix, service, memoryVars, mutexVars, told>>

------------------------------------------------------------------------------
(* CreateSharedMemory: create; if it is there, attach and detach, which        *)
(* removes what a crash left; create again.                                  *)
Create(p, success, failure) ==
  IF exists THEN Goto(p, failure) /\ UNCHANGED memoryVars
  ELSE /\ exists' = TRUE /\ attached' = {p} /\ account' = AccountOf[p] /\ flag' = FALSE
       /\ Goto(p, success)

CreateFirst(p) ==
  /\ pc[p] = "create"
  /\ Create(p, "primary", "clean")
  /\ UNCHANGED <<posix, service, mutexVars, another, told>>

CleanAttach(p) ==
  /\ pc[p] = "clean"
  /\ attached' = IF MayAttach(p) THEN attached \cup {p} ELSE attached
  /\ Goto(p, "detach")
  /\ UNCHANGED <<posix, service, exists, account, flag, mutexVars, another, told>>

Detach(p) ==
  /\ attached' = attached \ {p}
  /\ exists' = (exists /\ (p \notin attached \/ attached' # {}))

CleanDetach(p) ==
  /\ pc[p] = "detach"
  /\ Detach(p)
  /\ Goto(p, "again")
  /\ UNCHANGED <<posix, service, account, flag, mutexVars, another, told>>

(* Mutant: what could be attached to counts as created.                      *)
CreateAgainAttaches(p) ==
  /\ pc[p] = "again"
  /\ IF MayAttach(p) THEN attached' = attached \cup {p} /\ Goto(p, "primary") /\ UNCHANGED <<exists, account, flag>>
     ELSE Create(p, "primary", "join")
  /\ UNCHANGED <<posix, service, mutexVars, another, told>>

CreateAgain(p) ==
  /\ pc[p] = "again"
  /\ Create(p, "primary", "join")
  /\ UNCHANGED <<posix, service, mutexVars, another, told>>

------------------------------------------------------------------------------
(* The rest of the constructor. The creator clears the flag; another process   *)
(* attaches and sets it. Memory that is gone by then is neither case, and       *)
(* leaves m_anotherInstanceRunning as it was.                                *)
Primary(p) ==
  /\ pc[p] = "primary"
  /\ flag' = FALSE
  /\ Answer(p, "no") /\ Goto(p, "headless")
  /\ UNCHANGED <<posix, service, exists, attached, account, mutexVars, told>>

Join(p) ==
  /\ pc[p] = "join"
  /\ IF MayAttach(p) THEN attached' = attached \cup {p} /\ Answer(p, "yes") /\ Goto(p, "notify")
     ELSE /\ UNCHANGED attached
          /\ IF exists THEN Answer(p, "yes") ELSE UNCHANGED another
          /\ Goto(p, "headless")
  /\ UNCHANGED <<posix, service, exists, account, flag, mutexVars, told>>

NotifyAppInstanceStarted(p) ==
  /\ pc[p] = "notify"
  /\ flag' = TRUE
  /\ Goto(p, "headless")
  /\ UNCHANGED <<posix, service, exists, attached, account, mutexVars, another, told>>

(* SingleInstance: open the mutex; if there is none, create it.               *)
OpenMutex(p) ==
  /\ pc[p] = "headless"
  /\ IF service /\ named THEN Answer(p, "yes") /\ holders' = holders \cup {p} /\ Goto(p, "decide")
     ELSE /\ Goto(p, IF service THEN "new mutex" ELSE "decide")
          /\ UNCHANGED <<another, holders>>
  /\ UNCHANGED <<posix, service, memoryVars, named, owner, told>>

OpenOrCreate(p) ==
  /\ pc[p] = "new mutex"
  /\ named' = TRUE /\ holders' = holders \cup {p}
  /\ owner' = IF named THEN owner ELSE p
  /\ Goto(p, "decide")
  /\ UNCHANGED <<posix, service, memoryVars, another, told>>

(* main. A member nobody set is read as either.                               *)
Decide(p) ==
  /\ pc[p] = "decide"
  /\ \E a \in IF another[p] = "unset" THEN {"yes", "no"} ELSE {another[p]} :
       Goto(p, IF a = "yes" THEN "leave" ELSE "running")
  /\ UNCHANGED <<posix, service, memoryVars, mutexVars, another, told>>

(* OnCheckForNewInstance: the creator's timer.                                *)
OnCheckForNewInstance(p) ==
  /\ pc[p] = "running" /\ another[p] = "no"
  /\ flag /\ flag' = FALSE /\ told' = TRUE
  /\ UNCHANGED <<posix, service, exists, attached, account, mutexVars, pc, another>>

------------------------------------------------------------------------------
(* The panel may start its successor before it leaves (Run).                  *)
Quit(p) ==
  /\ pc[p] = "running"
  /\ Goto(p, "leave")
  /\ UNCHANGED <<posix, service, memoryVars, mutexVars, another, told>>

(* The destructor. The semaphore's creator removes its name; a Windows mutex   *)
(* goes with its last handle.                                                *)
Leave(p) ==
  /\ pc[p] = "leave"
  /\ Detach(p)
  /\ Goto(p, IF service THEN "close" ELSE "out")
  /\ UNCHANGED <<posix, service, account, flag, mutexVars, another, told>>

Close(p) ==
  /\ pc[p] = "close"
  /\ holders' = holders \ {p}
  /\ owner' = IF owner = p THEN None ELSE owner
  /\ named' = (named /\ IF posix THEN owner # p ELSE holders' # {})
  /\ Goto(p, "out")
  /\ UNCHANGED <<posix, service, memoryVars, another, told>>

Crash(p) ==
  /\ pc[p] \notin {"out", "crashed"}
  /\ attached' = attached \ {p}
  /\ exists' = (exists /\ (posix \/ attached' # {}))
  /\ holders' = holders \ {p}
  /\ named' = (named /\ (posix \/ holders' # {}))
  /\ owner' = IF owner = p THEN None ELSE owner
  /\ Goto(p, "crashed")
  /\ UNCHANGED <<posix, service, account, flag, another, told>>

------------------------------------------------------------------------------
Next == \E p \in Processes :
  \/ Start(p) \/ CreateFirst(p) \/ CleanAttach(p) \/ CleanDetach(p) \/ CreateAgain(p)
  \/ Primary(p) \/ Join(p) \/ NotifyAppInstanceStarted(p) \/ OpenMutex(p) \/ OpenOrCreate(p)
  \/ Decide(p) \/ OnCheckForNewInstance(p) \/ Quit(p) \/ Leave(p) \/ Close(p) \/ Crash(p)

Spec == Init /\ [][Next]_vars

------------------------------------------------------------------------------
(* Two processes that run at once: at least one of them read a member nobody   *)
(* had set. Starts, restarts, the clean-up after a crash and the ends of        *)
(* other processes may fall together in any way.                              *)
OneInstance ==
  \A p, q \in Processes :
    pc[p] = "running" /\ pc[q] = "running" /\ p # q => "unset" \in {another[p], another[q]}

(* The same of what the program runs with, whatever it read.                   *)
OneRunning == Cardinality({p \in Processes : pc[p] = "running"}) <= 1

(* A process that gives up leaves to one that runs or starts.                   *)
LeavesToAnother ==
  [][\A p \in Processes : pc[p] = "decide" /\ pc'[p] = "leave" =>
       \E q \in Processes \ {p} : pc[q] \in {"running", "primary", "headless", "new mutex", "decide"} /\ another[q] # "yes"]_vars
==============================================================================
