------------------------ MODULE BaseTraceSourceProofs ------------------------
(***************************************************************************)
(* What a trace source guarantees of its lists and of the status it shows,  *)
(* for any connections, any client states and any bounds.                  *)
(***************************************************************************)
EXTENDS BaseTraceSource, SequenceTheorems, WellFoundedInduction, TLAPS

(* ----- Lists, as std::find_if, push_back and erase treat them. -----       *)

(* The least number principle, from the well-foundedness of <.              *)
LEMMA LeastNumber ==
  ASSUME NEW T, T \subseteq Nat, T # {}
  PROVE  \E m \in T : \A n \in T : m <= n
<1>1. PICK m \in T : \A y \in T : ~ (<<y, m>> \in OpToRel(<, Nat))
  BY NatLessThanWellFounded, WFMin, Zenon
<1>2. ASSUME NEW y \in T, y < m PROVE FALSE
  <2>1. <<y, m>> \in OpToRel(<, Nat)
    BY <1>2, Zenon DEF OpToRel
  <2> QED
    BY <1>1, <2>1, Zenon
<1> QED
  BY <1>2

(* RemoveFirst takes the element out at one index, or leaves the list alone. *)
LEMMA RemoveFirstCases ==
  ASSUME NEW S, NEW s \in Seq(S), NEW e
  PROVE  \/ /\ RemoveFirst(s, e) = s
            /\ \A k \in 1 .. Len(s) : s[k] # e
         \/ \E k \in 1 .. Len(s) :
              s[k] = e /\ RemoveFirst(s, e) = SubSeq(s, 1, k - 1) \o SubSeq(s, k + 1, Len(s))
<1> DEFINE I == {k \in 1 .. Len(s) : s[k] = e}
<1>1. CASE I = {}
  BY <1>1 DEF RemoveFirst
<1>2. CASE I # {}
  <2>1. \E m \in I : \A n \in I : m <= n
    <3>1. I \subseteq Nat
      OBVIOUS
    <3> HIDE DEF I
    <3> QED
      BY <1>2, <3>1, LeastNumber
  <2>2. Min(I) \in I
    BY <2>1 DEF Min
  <2> QED
    BY <2>2, <1>2 DEF RemoveFirst, RemoveAt, SelectInSeq
<1> QED
  BY <1>1, <1>2

LEMMA RemoveFirstProperties ==
  ASSUME NEW S, NEW s \in Seq(S), IsInjective(s), NEW e
  PROVE  /\ RemoveFirst(s, e) \in Seq(S)
         /\ IsInjective(RemoveFirst(s, e))
         /\ Range(RemoveFirst(s, e)) = Range(s) \ {e}
<1> USE DEF IsInjective, Range
<1>1. CASE RemoveFirst(s, e) = s /\ \A k \in 1 .. Len(s) : s[k] # e
  BY <1>1
<1>2. ASSUME NEW k \in 1 .. Len(s), s[k] = e,
             RemoveFirst(s, e) = SubSeq(s, 1, k - 1) \o SubSeq(s, k + 1, Len(s))
      PROVE  /\ RemoveFirst(s, e) \in Seq(S)
             /\ IsInjective(RemoveFirst(s, e))
             /\ Range(RemoveFirst(s, e)) = Range(s) \ {e}
  <2> DEFINE front == SubSeq(s, 1, k - 1)
             back == SubSeq(s, k + 1, Len(s))
             t == front \o back
  <2>1. /\ front \in Seq(S) /\ Len(front) = k - 1
        /\ \A i \in 1 .. k - 1 : front[i] = s[i]
    BY SubSeqProperties
  <2>2. /\ back \in Seq(S) /\ Len(back) = Len(s) - k
        /\ \A i \in 1 .. Len(s) - k : back[i] = s[k + i]
    BY SubSeqProperties
  <2> HIDE DEF front, back
  <2>3. /\ t \in Seq(S) /\ Len(t) = Len(s) - 1
        /\ \A i \in 1 .. Len(t) : t[i] = IF i < k THEN s[i] ELSE s[i + 1]
    <3>1. t \in Seq(S) /\ Len(t) = Len(s) - 1
      <4>1. t \in Seq(S) /\ Len(t) = Len(front) + Len(back)
        BY <2>1, <2>2, ConcatProperties, Zenon
      <4> HIDE DEF t
      <4> QED
        BY <4>1, <2>1, <2>2
    <3>2. ASSUME NEW i \in 1 .. Len(t) PROVE t[i] = IF i < k THEN s[i] ELSE s[i + 1]
      <4>1. t[i] = IF i <= Len(front) THEN front[i] ELSE back[i - Len(front)]
        BY <3>1, <2>1, <2>2, ConcatProperties
      <4>2. CASE i < k
        BY <4>1, <4>2, <2>1
      <4>3. CASE i >= k
        <5>1. i - (k - 1) \in 1 .. Len(s) - k /\ k + (i - (k - 1)) = i + 1
          BY <4>3, <3>1
        <5> QED
          BY <4>1, <4>3, <5>1, <2>1, <2>2
      <4> QED
        BY <4>2, <4>3
    <3> QED
      BY <3>1, <3>2
  <2> HIDE DEF t
  <2>4. DOMAIN s = 1 .. Len(s) /\ DOMAIN t = 1 .. Len(t)
    BY <2>3
  <2>11. \A i \in 1 .. Len(t) : \E m \in 1 .. Len(s) :
          t[i] = s[m] /\ m # k /\ m = IF i < k THEN i ELSE i + 1
    BY <2>3
  <2>5. ASSUME NEW a \in DOMAIN t, NEW b \in DOMAIN t, t[a] = t[b] PROVE a = b
    <3>1. PICK m \in 1 .. Len(s) : t[a] = s[m] /\ m = IF a < k THEN a ELSE a + 1
      BY <2>4, <2>11
    <3>2. PICK n \in 1 .. Len(s) : t[b] = s[n] /\ n = IF b < k THEN b ELSE b + 1
      BY <2>4, <2>11
    <3>3. m = n
      BY <2>4, <2>5, <3>1, <3>2
    <3> QED
      BY <2>3, <2>4, <3>1, <3>2, <3>3
  <2>6. \A i \in 1 .. Len(t) : t[i] \in Range(s) \ {e}
    BY <2>11, <2>4, <1>2
  <2>7. ASSUME NEW j \in 1 .. Len(s), s[j] # e PROVE \E i \in 1 .. Len(t) : t[i] = s[j]
    <3>1. CASE j < k
      BY <3>1, <2>3
    <3>2. CASE j > k
      <4>1. j - 1 \in 1 .. Len(t) /\ t[j - 1] = s[j]
        BY <3>2, <2>3
      <4> QED
        BY <4>1
    <3> QED
      BY <3>1, <3>2, <2>7, <1>2
  <2>8. Range(t) = Range(s) \ {e}
    <3>1. Range(t) \subseteq Range(s) \ {e}
      BY <2>4, <2>6
    <3>2. ASSUME NEW x \in Range(s) \ {e} PROVE x \in Range(t)
      <4>1. PICK j \in 1 .. Len(s) : x = s[j]
        BY <2>4
      <4>2. PICK i \in 1 .. Len(t) : t[i] = s[j]
        BY <4>1, <2>7
      <4> QED
        BY <4>1, <4>2, <2>4
    <3> QED
      BY <3>1, <3>2
  <2>9. RemoveFirst(s, e) = t
    BY <1>2 DEF t, front, back
  <2>10. IsInjective(t)
    BY <2>5, Zenon
  <2> HIDE DEF IsInjective, Range
  <2> QED
    BY <2>3, <2>8, <2>9, <2>10
<1> QED
  BY <1>1, <1>2, RemoveFirstCases

LEMMA AppendToList ==
  ASSUME NEW S, NEW s \in Seq(S), IsInjective(s), NEW e \in S, e \notin Range(s)
  PROVE  /\ Append(s, e) \in Seq(S)
         /\ IsInjective(Append(s, e))
         /\ Range(Append(s, e)) = Range(s) \cup {e}
BY DEF IsInjective, Range

(* ----- The types. -----                                                  *)

LEMMA Ranks == \A s \in States : Rank(s) \in 1 .. 9 /\ s \in Range(ClientState)
<1> SUFFICES ASSUME NEW s \in States PROVE Rank(s) \in 1 .. 9 /\ s \in Range(ClientState)
  OBVIOUS
<1>1. s \in {"Disabled", "Done", "Idle", "Capturing"}
  BY ConnectionsAssumption
<1>2. DOMAIN ClientState = 1 .. 9
  BY DEF ClientState
<1>3. \E i \in DOMAIN ClientState : ClientState[i] = s
  BY <1>1, <1>2 DEF ClientState
<1> QED
  BY <1>2, <1>3 DEF Rank, Range

(* The stage of a source with clients is that of the client furthest along   *)
(* (GetTraceSourceStage).                                                   *)
LEMMA StageIsHighest ==
  ASSUME TypeOK, clients # <<>>
  PROVE  \E c \in Range(clients) :
           /\ c \in Connections /\ GetTraceSourceStage = state[c]
           /\ \A d \in Range(clients) : Rank(state[d]) <= Rank(state[c])
<1>1. Range(clients) \subseteq Connections /\ Range(clients) # {}
  <2>1. DOMAIN clients = 1 .. Len(clients) /\ Len(clients) \in Nat /\ Len(clients) > 0
    BY EmptySeq DEF TypeOK
  <2>2. clients[1] \in Range(clients)
    BY <2>1 DEF Range
  <2>3. \A i \in DOMAIN clients : clients[i] \in Connections
    BY <2>1 DEF TypeOK
  <2> QED
    BY <2>2, <2>3 DEF Range
<1>2. \A c \in Range(clients) : Rank(state[c]) \in 1 .. 9
  BY <1>1, Ranks DEF TypeOK
<1> DEFINE Gaps == {9 - Rank(state[c]) : c \in Range(clients)}
<1>3. Gaps \subseteq Nat /\ Gaps # {}
  BY <1>1, <1>2
<1>4. \E m \in Gaps : \A n \in Gaps : m <= n
  <2> HIDE DEF Gaps
  <2> QED
    BY <1>3, LeastNumber
<1>5. \E c \in Range(clients) : \A d \in Range(clients) : Rank(state[d]) <= Rank(state[c])
  <2>1. PICK c \in Range(clients) : \A n \in Gaps : 9 - Rank(state[c]) <= n
    BY <1>4
  <2>2. \A d \in Range(clients) : 9 - Rank(state[c]) <= 9 - Rank(state[d])
    BY <2>1
  <2> QED
    BY <2>2, <1>2
<1> QED
  BY <1>1, <1>5 DEF GetTraceSourceStage

LEMMA StatusTypes ==
  ASSUME TypeOK
  PROVE  BuildCurrentStatus \in Statuses
<1>1. GetTraceSourceStage \in Stages
  <2>1. CASE clients # <<>>
    BY <2>1, StageIsHighest, Ranks DEF TypeOK, Stages
  <2>2. CASE clients = <<>>
    <3>1. "Disabled" \in Range(ClientState)
      BY DEF ClientState, Range
    <3> QED
      BY <2>2, <3>1 DEF GetTraceSourceStage, Stages
  <2> QED
    BY <2>1, <2>2
<1>2. FillProcessInfo \in Connections \cup {NoConnection}
  BY DEF TypeOK, FillProcessInfo
<1>3. FillCurrentConnections \subseteq Connections
  BY DEF TypeOK, FillCurrentConnections, Range
<1> QED
  BY <1>1, <1>2, <1>3 DEF BuildCurrentStatus, Statuses

LEMMA UpdateTypes ==
  ASSUME TypeOK, UpdateTraceSourceStatus
  PROVE  /\ previous' \in Statuses /\ queue' \in Seq(Event)
         /\ [old |-> previous, new |-> BuildCurrentStatus] \in Event
BY StatusTypes DEF TypeOK, UpdateTraceSourceStatus, Event

(* ----- The lists. -----                                                   *)

(* A connection is in at most one of the three lists, and only between its  *)
(* connect and its disconnect.                                             *)
Placed(c) ==
  /\ c \in Range(pending) \cup Range(clients) \cup Range(unsupported) =>
       thread[c] \in {"updating", "connected"}
  /\ c \in Range(pending) => c \notin Range(clients) \cup Range(unsupported)
  /\ c \in Range(clients) => c \notin Range(unsupported)

(* In each list it is once.                                                *)
ListedOnce == IsInjective(pending) /\ IsInjective(clients) /\ IsInjective(unsupported)

(* A client that reports a change is listed, or its disconnect waits for it. *)
Reporting(c) == notify[c] # Quiet => c \in Range(clients) \/ thread[c] = "disconnecting"

ListInv ==
  /\ TypeOK
  /\ ListedOnce
  /\ \A c \in Connections : Placed(c) /\ Reporting(c)

LEMMA InitLists == Init => ListInv
<1> SUFFICES ASSUME Init PROVE ListInv
  OBVIOUS
<1>1. TypeOK
  BY ConnectionsAssumption
  DEF Init, TypeOK, Changing, Quiet, NoEvent, Disconnected, Statuses, Stages, Threads
<1>2. Range(<<>>) = {} /\ IsInjective(<<>>)
  BY DEF Range, IsInjective
<1> QED
  BY <1>1, <1>2 DEF Init, ListInv, ListedOnce, Placed, Reporting

(* The thread of a connection, up to its disconnect.                        *)
LEMMA DriverCallLists ==
  ASSUME ListInv, NEW c \in Connections, DriverCall(c)
  PROVE  ListInv'
<1> USE DEF ListInv
<1>1. CASE IgnoreConnected(c)
  BY <1>1 DEF IgnoreConnected, TypeOK, ListedOnce, Placed, Reporting, Goto, listVars, statusVars, Threads
<1>2. CASE RejectUnsupported(c)
  <2>1. c \notin Range(unsupported) /\ c \notin Range(clients) /\ c \notin Range(pending)
    BY <1>2 DEF RejectUnsupported, Placed
  <2>2. /\ unsupported' \in Seq(Connections) /\ IsInjective(unsupported')
        /\ Range(unsupported') = Range(unsupported) \cup {c}
    BY <1>2, <2>1, AppendToList DEF RejectUnsupported, TypeOK, ListedOnce
  <2> QED
    BY <1>2, <2>1, <2>2
    DEF RejectUnsupported, TypeOK, ListedOnce, Placed, Reporting, Goto, statusVars, Threads
<1>3. CASE OnDriverConnected(c)
  <2>1. c \notin Range(unsupported) /\ c \notin Range(clients) /\ c \notin Range(pending)
    BY <1>3 DEF OnDriverConnected, Placed
  <2>2. /\ pending' \in Seq(Connections) /\ IsInjective(pending')
        /\ Range(pending') = Range(pending) \cup {c}
    BY <1>3, <2>1, AppendToList DEF OnDriverConnected, TypeOK, ListedOnce
  <2> QED
    BY <1>3, <2>1, <2>2
    DEF OnDriverConnected, TypeOK, ListedOnce, Placed, Reporting, Goto, clientVars, statusVars, Threads
<1>4. CASE TakePending(c)
  <2>1. /\ pending' \in Seq(Connections) /\ IsInjective(pending')
        /\ Range(pending') = Range(pending) \ {c}
    BY <1>4, RemoveFirstProperties DEF TakePending, TypeOK, ListedOnce
  <2> QED
    BY <1>4, <2>1
    DEF TakePending, TypeOK, ListedOnce, Placed, Reporting, Goto, clientVars, statusVars, Threads
<1>5. CASE OnDriverDisconnected(c)
  <2>1. /\ pending' \in Seq(Connections) /\ IsInjective(pending')
        /\ Range(pending') = Range(pending) \ {c}
    BY <1>5, RemoveFirstProperties DEF OnDriverDisconnected, TypeOK, ListedOnce
  <2>2. /\ clients' \in Seq(Connections) /\ IsInjective(clients')
        /\ Range(clients') = Range(clients) \ {c}
    BY <1>5, RemoveFirstProperties DEF OnDriverDisconnected, TypeOK, ListedOnce
  <2>3. /\ unsupported' \in Seq(Connections) /\ IsInjective(unsupported')
        /\ Range(unsupported') = Range(unsupported) \ {c}
    BY <1>5, RemoveFirstProperties DEF OnDriverDisconnected, TypeOK, ListedOnce
  <2>4. TypeOK' /\ ListedOnce'
    BY <1>5, <2>1, <2>2, <2>3
    DEF OnDriverDisconnected, TypeOK, ListedOnce, Goto, clientVars, statusVars, Threads
  <2>5. ASSUME NEW d \in Connections PROVE Placed(d)' /\ Reporting(d)'
    <3>1. CASE d = c
      BY <1>5, <2>1, <2>2, <2>3, <3>1 DEF OnDriverDisconnected, TypeOK, Placed, Reporting, Goto, clientVars
    <3>2. CASE d # c
      BY <1>5, <2>1, <2>2, <2>3, <3>2 DEF OnDriverDisconnected, TypeOK, Placed, Reporting, Goto, clientVars
    <3> QED
      BY <3>1, <3>2
  <2> QED
    BY <2>4, <2>5
<1> QED
  BY <1>1, <1>2, <1>3, <1>4, <1>5 DEF DriverCall

LEMMA DriverThreadLists ==
  ASSUME ListInv, NEW c \in Connections, DriverThread(c)
  PROVE  ListInv'
<1> USE DEF ListInv
<1>1. CASE Update(c)
  <2>1. previous' \in Statuses /\ queue' \in Seq(Event)
    BY <1>1, UpdateTypes DEF Update
  <2> QED
    BY <1>1, <2>1 DEF Update, UpdateTraceSourceStatus, TypeOK, ListedOnce, Placed, Reporting, Goto,
       listVars, clientVars, Threads
<1>2. CASE InitSucceeds(c)
  <2>1. c \notin Range(unsupported) /\ c \notin Range(clients) /\ c \notin Range(pending)
    BY <1>2 DEF InitSucceeds, Placed
  <2>2. /\ clients' \in Seq(Connections) /\ IsInjective(clients')
        /\ Range(clients') = Range(clients) \cup {c}
    BY <1>2, <2>1, AppendToList DEF InitSucceeds, TypeOK, ListedOnce
  <2> QED
    BY <1>2, <2>1, <2>2
    DEF InitSucceeds, TypeOK, ListedOnce, Placed, Reporting, Goto, statusVars, Threads
<1>3. CASE InitFails(c)
  BY <1>3 DEF InitFails, TypeOK, ListedOnce, Placed, Reporting, Goto, listVars, clientVars, statusVars, Threads
<1>4. CASE ClientDisconnected(c)
  BY <1>4 DEF ClientDisconnected, TypeOK, ListedOnce, Placed, Reporting, Goto, listVars, clientVars,
     statusVars, Threads
<1> QED
  BY <1>1, <1>2, <1>3, <1>4 DEF DriverThread

LEMMA ChangeStateLists ==
  ASSUME ListInv, NEW c \in Connections, NEW s \in States, ChangeState(c, s)
  PROVE  ListInv'
<1> USE DEF ListInv, ChangeState, listVars, statusVars
<1>1. TypeOK'
  <2>1. [pc |-> "front", id |-> NoConnection] \in Changing
    BY DEF Changing
  <2>2. changes[c] + 1 \in 0 .. MaxChanges
    BY ConnectionsAssumption DEF TypeOK
  <2> QED
    BY <2>1, <2>2 DEF TypeOK
<1>2. ListedOnce' /\ \A d \in Connections : Placed(d)'
  BY DEF ListedOnce, Placed
<1>3. \A d \in Connections : Reporting(d)'
  BY DEF TypeOK, Reporting, Listed
<1> QED
  BY <1>1, <1>2, <1>3

LEMMA NotifyLists ==
  ASSUME ListInv, NEW c \in Connections, Notify(c)
  PROVE  ListInv'
<1> USE DEF ListInv
<1>1. CASE FindFront(c)
  <2>1. clients # <<>> => Head(clients) \in Connections
    BY DEF TypeOK
  <2> QED
    BY <1>1, <2>1 DEF FindFront, TypeOK, ListedOnce, Placed, Reporting, listVars, statusVars, Changing, Quiet
<1>2. CASE UpdateOverlay(c)
  <2>1. TypeOK'
    <3>1. [pc |-> "update", id |-> NoConnection] \in Changing
      BY DEF Changing
    <3>2. overlay' \in [Connections -> States \cup {"None", "Disabled"}]
      BY <1>2 DEF UpdateOverlay, TypeOK
    <3> QED
      BY <1>2, <3>1, <3>2 DEF UpdateOverlay, TypeOK, listVars, statusVars
  <2> QED
    BY <1>2, <2>1 DEF UpdateOverlay, TypeOK, ListedOnce, Placed, Reporting, listVars, Quiet
<1>3. CASE UpdateAfterChange(c)
  <2>1. previous' \in Statuses /\ queue' \in Seq(Event)
    BY <1>3, UpdateTypes DEF UpdateAfterChange
  <2> QED
    BY <1>3, <2>1 DEF UpdateAfterChange, UpdateTraceSourceStatus, TypeOK, ListedOnce, Placed, Reporting,
       listVars, Changing, Quiet
<1> QED
  BY <1>1, <1>2, <1>3 DEF Notify

LEMMA StatusLists ==
  ASSUME ListInv, StatusThread \/ QueryStatus
  PROVE  ListInv'
<1>1. TypeOK'
  <2>1. CASE PopStatusEvent
    <3>1. Head(queue) \in Event /\ Tail(queue) \in Seq(Event)
      BY <2>1 DEF ListInv, TypeOK, PopStatusEvent
    <3> QED
      BY <2>1, <3>1 DEF ListInv, PopStatusEvent, TypeOK, listVars, clientVars
  <2>2. CASE DeliverStatus
    BY <2>2 DEF ListInv, DeliverStatus, TypeOK, listVars, clientVars, Event
  <2>3. CASE QueryStatus
    BY <2>3, StatusTypes DEF ListInv, QueryStatus, TypeOK, listVars, clientVars
  <2> QED
    BY <2>1, <2>2, <2>3 DEF StatusThread
<1>2. UNCHANGED <<listVars, thread, clientVars>>
  BY DEF StatusThread, PopStatusEvent, DeliverStatus, QueryStatus
<1> QED
  BY <1>1, <1>2 DEF ListInv, ListedOnce, Placed, Reporting, listVars, clientVars

LEMMA StepLists == ListInv /\ [Next]_vars => ListInv'
<1> SUFFICES ASSUME ListInv, [Next]_vars PROVE ListInv'
  OBVIOUS
<1>1. ASSUME NEW c \in Connections, DriverCall(c) \/ DriverThread(c) PROVE ListInv'
  BY <1>1, DriverCallLists, DriverThreadLists
<1>2. ASSUME NEW c \in Connections, NEW s \in States, ChangeState(c, s) PROVE ListInv'
  BY <1>2, ChangeStateLists
<1>3. ASSUME NEW c \in Connections, Notify(c) PROVE ListInv'
  BY <1>3, NotifyLists
<1>4. CASE StatusThread \/ QueryStatus
  BY <1>4, StatusLists
<1>5. CASE UNCHANGED vars
  BY <1>5 DEF vars, listVars, clientVars, statusVars, ListInv, TypeOK, ListedOnce, Placed, Reporting
<1> QED
  BY <1>1, <1>2, <1>3, <1>4, <1>5 DEF Next

(* Every variable of the source keeps its type; the status built is always a *)
(* status, whatever is listed.                                             *)
THEOREM TypeCorrect == Spec => []TypeOK
<1>1. Spec => []ListInv
  BY InitLists, StepLists, PTL DEF Spec
<1>2. ListInv => TypeOK
  BY DEF ListInv
<1> QED
  BY <1>1, <1>2, PTL

(* No connection is in two lists of the source, twice in one, or left in one  *)
(* by its disconnect.                                                      *)
OneList ==
  /\ ListedOnce
  /\ \A c \in Connections : Placed(c)

THEOREM ListsAreDisjoint == Spec => []OneList
<1>1. Spec => []ListInv
  BY InitLists, StepLists, PTL DEF Spec
<1>2. ListInv => OneList
  BY DEF ListInv, OneList
<1> QED
  BY <1>1, <1>2, PTL

(* ----- The chain of statuses. -----                                       *)

(* OldStatusIsPrevious, in terms of the queue and the event being delivered. *)
Chained ==
  /\ \A i \in 2 .. Len(queue) : queue[i].old = queue[i - 1].new
  /\ queue # <<>> /\ delivering # NoEvent => queue[1].old = delivering.new
  /\ queue # <<>> => previous = queue[Len(queue)].new
  /\ queue = <<>> /\ delivering # NoEvent => previous = delivering.new

(* ----- What is shown. -----                                               *)

(* Somebody still has to build a status: a thread that is about to, the     *)
(* disconnect of a client, or the notification of a change.                 *)
StatusOwed ==
  \/ \E c \in Connections : thread[c] \in {"updating", "disconnecting", "leaving"}
  \/ \E c \in Connections : notify[c] # Quiet

Shows(status) == status.stage = GetTraceSourceStage /\ status.connections = FillCurrentConnections

(* Unless one is owed, the last status built is current; once it has been    *)
(* delivered, it is what is shown.                                         *)
BuiltIsCurrent == ~StatusOwed => Shows(previous)
DeliveredIsShown == ~StatusOwed /\ queue = <<>> /\ delivering = NoEvent => Shows(shown)

StatusInv ==
  /\ ListInv
  /\ Chained
  /\ BuiltIsCurrent
  /\ DeliveredIsShown

LEMMA InitStatus == Init => StatusInv
<1> SUFFICES ASSUME Init PROVE StatusInv
  OBVIOUS
<1>1. Chained
  BY DEF Init, Chained
<1>2. GetTraceSourceStage = "Disconnected" /\ FillCurrentConnections = {}
  BY DEF Init, GetTraceSourceStage, FillCurrentConnections, Range
<1>3. Shows(previous) /\ Shows(shown)
  BY <1>2 DEF Init, Shows, Disconnected
<1> QED
  BY <1>1, <1>3, InitLists DEF StatusInv, BuiltIsCurrent, DeliveredIsShown

(* Queueing a status keeps the chain; until it is delivered nothing is said  *)
(* of what is shown, and the status is current.                            *)
LEMMA UpdateKeeps ==
  ASSUME StatusInv, UpdateTraceSourceStatus, UNCHANGED <<clients, unsupported, state>>
  PROVE  Chained' /\ BuiltIsCurrent' /\ DeliveredIsShown'
<1> DEFINE e == [old |-> previous, new |-> BuildCurrentStatus]
<1>1. queue \in Seq(Event) /\ e \in Event
  BY UpdateTypes DEF StatusInv, ListInv, TypeOK
<1>2. queue' = Append(queue, e) /\ previous' = e.new /\ UNCHANGED delivering
  BY DEF UpdateTraceSourceStatus
<1>3. /\ Len(queue') = Len(queue) + 1 /\ queue' # <<>>
      /\ queue'[Len(queue) + 1] = e
      /\ \A i \in 1 .. Len(queue) : queue'[i] = queue[i]
  BY <1>1, <1>2, AppendProperties
<1>4. e.old = previous
  OBVIOUS
<1> HIDE DEF e
<1>5. Len(queue) \in Nat /\ (queue = <<>> <=> Len(queue) = 0)
  BY <1>1, EmptySeq
<1>6. Chained'
  <2>1. ASSUME NEW i \in 2 .. Len(queue') PROVE (queue[i].old)' = (queue[i - 1].new)'
    <3>1. CASE i <= Len(queue)
      BY <3>1, <1>3, <1>5 DEF StatusInv, Chained
    <3>2. CASE i = Len(queue) + 1
      <4>1. queue # <<>> /\ previous = queue[Len(queue)].new
        BY <3>2, <1>5 DEF StatusInv, Chained
      <4>2. queue'[i - 1] = queue[Len(queue)] /\ queue'[i] = e
        BY <3>2, <1>3, <1>5
      <4> QED
        BY <4>1, <4>2, <1>4
    <3> QED
      BY <3>1, <3>2, <1>3, <1>5
  <2>2. delivering' # NoEvent => (queue[1].old)' = (delivering.new)'
    <3>1. CASE queue = <<>>
      BY <3>1, <1>2, <1>3, <1>4, <1>5 DEF StatusInv, Chained
    <3>2. CASE queue # <<>>
      BY <3>2, <1>2, <1>3, <1>5 DEF StatusInv, Chained
    <3> QED
      BY <3>1, <3>2
  <2>3. previous' = queue'[Len(queue')].new
    BY <1>2, <1>3
  <2> QED
    BY <2>1, <2>2, <2>3, <1>3 DEF Chained
<1>7. BuiltIsCurrent'
  BY DEF UpdateTraceSourceStatus, BuildCurrentStatus, BuiltIsCurrent, Shows, GetTraceSourceStage,
     FillCurrentConnections
<1> QED
  BY <1>3, <1>6, <1>7 DEF DeliveredIsShown

(* Steps after which a status is owed, and steps that touch nothing a status *)
(* tells.                                                                  *)
LEMMA OwingKeeps ==
  ASSUME StatusInv, UNCHANGED <<queue, previous, delivering>>, StatusOwed'
  PROVE  Chained' /\ BuiltIsCurrent' /\ DeliveredIsShown'
BY DEF StatusInv, Chained, BuiltIsCurrent, DeliveredIsShown

LEMMA OtherKeeps ==
  ASSUME StatusInv, UNCHANGED <<statusVars, clients, unsupported, state>>, StatusOwed => StatusOwed'
  PROVE  Chained' /\ BuiltIsCurrent' /\ DeliveredIsShown'
BY DEF StatusInv, Chained, BuiltIsCurrent, DeliveredIsShown, statusVars, Shows, GetTraceSourceStage,
   FillCurrentConnections

LEMMA DriverStatus ==
  ASSUME StatusInv, NEW c \in Connections, DriverCall(c) \/ DriverThread(c)
  PROVE  Chained' /\ BuiltIsCurrent' /\ DeliveredIsShown'
<1> USE DEF Goto, listVars, clientVars, statusVars
<1>1. thread \in [Connections -> Threads] /\ Placed(c) /\ ListedOnce
  BY DEF StatusInv, ListInv, TypeOK
<1>2. CASE IgnoreConnected(c)
  <2>1. StatusOwed => StatusOwed'
    BY <1>1, <1>2 DEF IgnoreConnected, StatusOwed
  <2> QED
    BY <1>2, <2>1, OtherKeeps DEF IgnoreConnected
<1>3. CASE RejectUnsupported(c) \/ OnDriverConnected(c) \/ InitSucceeds(c)
  <2>1. StatusOwed'
    BY <1>1, <1>3 DEF RejectUnsupported, OnDriverConnected, InitSucceeds, StatusOwed
  <2> QED
    BY <1>3, <2>1, OwingKeeps DEF RejectUnsupported, OnDriverConnected, InitSucceeds
<1>4. CASE TakePending(c) \/ InitFails(c)
  <2>1. StatusOwed => StatusOwed'
    BY <1>1, <1>4 DEF TakePending, InitFails, StatusOwed
  <2> QED
    BY <1>4, <2>1, OtherKeeps DEF TakePending, InitFails
<1>5. CASE OnDriverDisconnected(c) \/ ClientDisconnected(c)
  <2>1. StatusOwed'
    BY <1>1, <1>5 DEF OnDriverDisconnected, ClientDisconnected, StatusOwed
  <2> QED
    BY <1>5, <2>1, OwingKeeps DEF OnDriverDisconnected, ClientDisconnected
<1>6. CASE Update(c)
  BY <1>6, UpdateKeeps DEF Update
<1> QED
  BY <1>2, <1>3, <1>4, <1>5, <1>6 DEF DriverCall, DriverThread

(* The one notification that ends without a status finds no client listed:   *)
(* its own client's disconnect is waiting for it, and owes one.             *)
LEMMA ClientStatus ==
  ASSUME StatusInv, NEW c \in Connections, Notify(c) \/ \E s \in States : ChangeState(c, s)
  PROVE  Chained' /\ BuiltIsCurrent' /\ DeliveredIsShown'
<1> USE DEF listVars, clientVars, statusVars
<1>1. notify \in [Connections -> Changing] /\ Reporting(c)
  BY DEF StatusInv, ListInv, TypeOK
<1>2. ASSUME NEW s \in States, ChangeState(c, s)
      PROVE  Chained' /\ BuiltIsCurrent' /\ DeliveredIsShown'
  <2>1. StatusOwed'
    BY <1>1, <1>2 DEF ChangeState, StatusOwed, Quiet
  <2> QED
    BY <1>2, <2>1, OwingKeeps DEF ChangeState
<1>3. CASE FindFront(c)
  <2>1. CASE clients = <<>>
    <3>1. thread[c] = "disconnecting"
      BY <1>1, <1>3, <2>1 DEF FindFront, Reporting, Quiet, Range
    <3>2. StatusOwed'
      BY <1>3, <3>1 DEF FindFront, StatusOwed
    <3> QED
      BY <1>3, <3>2, OwingKeeps DEF FindFront
  <2>2. CASE clients # <<>>
    <3>1. StatusOwed'
      BY <1>1, <1>3, <2>2 DEF FindFront, StatusOwed, Quiet
    <3> QED
      BY <1>3, <3>1, OwingKeeps DEF FindFront
  <2> QED
    BY <2>1, <2>2
<1>4. CASE UpdateOverlay(c)
  <2>1. StatusOwed'
    BY <1>1, <1>4 DEF UpdateOverlay, StatusOwed, Quiet
  <2> QED
    BY <1>4, <2>1, OwingKeeps DEF UpdateOverlay
<1>5. CASE UpdateAfterChange(c)
  BY <1>5, UpdateKeeps DEF UpdateAfterChange
<1> QED
  BY <1>2, <1>3, <1>4, <1>5 DEF Notify

LEMMA ReportingStatus ==
  ASSUME StatusInv, StatusThread \/ QueryStatus
  PROVE  Chained' /\ BuiltIsCurrent' /\ DeliveredIsShown'
<1> USE DEF listVars, clientVars
<1>1. queue \in Seq(Event) /\ (delivering = NoEvent \/ delivering \in Event)
  BY DEF StatusInv, ListInv, TypeOK
<1>2. UNCHANGED <<clients, unsupported, state, thread, notify, previous>>
  BY DEF StatusThread, PopStatusEvent, DeliverStatus, QueryStatus
<1>3. BuiltIsCurrent'
  BY <1>2 DEF StatusInv, BuiltIsCurrent, StatusOwed, Shows, GetTraceSourceStage, FillCurrentConnections
<1>4. CASE PopStatusEvent
  <2>1. /\ Len(queue) \in Nat /\ Len(queue) > 0 /\ queue[1] \in Event
        /\ Tail(queue) \in Seq(Event) /\ Len(Tail(queue)) = Len(queue) - 1
        /\ \A i \in 1 .. Len(Tail(queue)) : Tail(queue)[i] = queue[i + 1]
        /\ Head(queue) = queue[1]
    BY <1>1, <1>4, EmptySeq, HeadTailProperties DEF PopStatusEvent
  <2>2. NoEvent \notin Event
    BY DEF NoEvent, Event
  <2>3. Tail(queue) # <<>> <=> Len(queue) > 1
    BY <2>1, EmptySeq
  <2>4. Chained'
    <3>1. ASSUME NEW i \in 2 .. Len(queue') PROVE (queue[i].old)' = (queue[i - 1].new)'
      <4>1. queue'[i] = queue[i + 1] /\ queue'[i - 1] = queue[i] /\ i + 1 \in 2 .. Len(queue)
        BY <1>4, <2>1 DEF PopStatusEvent
      <4>2. queue[i + 1].old = queue[(i + 1) - 1].new
        BY <4>1 DEF StatusInv, Chained
      <4> QED
        BY <4>1, <4>2
    <3>2. queue' # <<>> => (queue[1].old)' = (delivering.new)'
      BY <1>4, <2>1, <2>3 DEF PopStatusEvent, StatusInv, Chained
    <3>3. queue' # <<>> => previous' = queue'[Len(queue')].new
      BY <1>4, <2>1, <2>3 DEF PopStatusEvent, StatusInv, Chained
    <3>4. queue' = <<>> => previous' = (delivering.new)'
      BY <1>4, <2>1, <2>3 DEF PopStatusEvent, StatusInv, Chained
    <3> QED
      BY <3>1, <3>2, <3>3, <3>4 DEF Chained
  <2>5. DeliveredIsShown'
    BY <1>4, <2>1, <2>2 DEF PopStatusEvent, DeliveredIsShown
  <2> QED
    BY <1>3, <2>4, <2>5
<1>5. CASE DeliverStatus
  <2>1. Chained'
    BY <1>5 DEF DeliverStatus, StatusInv, Chained
  <2>2. queue = <<>> => shown' = previous'
    BY <1>5 DEF DeliverStatus, StatusInv, Chained
  <2>3. DeliveredIsShown'
    BY <1>3, <1>5, <2>2 DEF DeliverStatus, DeliveredIsShown, BuiltIsCurrent, Shows
  <2> QED
    BY <1>3, <2>1, <2>3
<1>6. CASE QueryStatus
  <2>1. Chained'
    BY <1>6 DEF QueryStatus, StatusInv, Chained
  <2>2. DeliveredIsShown'
    BY <1>2, <1>6 DEF QueryStatus, DeliveredIsShown, BuildCurrentStatus, Shows, GetTraceSourceStage,
       FillCurrentConnections
  <2> QED
    BY <1>3, <2>1, <2>2
<1> QED
  BY <1>4, <1>5, <1>6 DEF StatusThread

LEMMA StepStatus == StatusInv /\ [Next]_vars => StatusInv'
<1> SUFFICES ASSUME StatusInv, [Next]_vars PROVE StatusInv'
  OBVIOUS
<1>1. ListInv'
  BY StepLists DEF StatusInv
<1>2. ASSUME NEW c \in Connections, DriverCall(c) \/ DriverThread(c)
      PROVE  Chained' /\ BuiltIsCurrent' /\ DeliveredIsShown'
  BY <1>2, DriverStatus
<1>3. ASSUME NEW c \in Connections, Notify(c) \/ \E s \in States : ChangeState(c, s)
      PROVE  Chained' /\ BuiltIsCurrent' /\ DeliveredIsShown'
  BY <1>3, ClientStatus
<1>4. CASE StatusThread \/ QueryStatus
  BY <1>1, <1>4, ReportingStatus DEF StatusInv
<1>5. CASE UNCHANGED vars
  <2>1. StatusOwed => StatusOwed'
    BY <1>5 DEF vars, clientVars, StatusOwed
  <2> QED
    BY <1>1, <1>5, <2>1, OtherKeeps DEF StatusInv, vars, listVars, clientVars, statusVars
<1> QED
  BY <1>1, <1>2, <1>3, <1>4, <1>5 DEF Next, StatusInv

THEOREM StatusInvariant == Spec => []StatusInv
BY InitStatus, StepStatus, PTL DEF Spec

(* However connects, disconnects, changes of client states, deliveries and   *)
(* queries interleave, once nothing is under way the stage and the usable    *)
(* connections shown are the current ones (UpdateTraceSourceStatus,         *)
(* QueryStatus).                                                           *)
THEOREM ShownCorrect == Spec => []ShownIsCurrent
<1>1. StatusInv => ShownIsCurrent
  BY DEF StatusInv, DeliveredIsShown, StatusOwed, ShownIsCurrent, Settled, Shows
<1> QED
  BY <1>1, StatusInvariant, PTL

(* Each event a listener is given starts where the one before ended          *)
(* (previous_status_).                                                     *)
THEOREM NoStatusMissed == Spec => []OldStatusIsPrevious
<1>1. StatusInv => OldStatusIsPrevious
  <2> SUFFICES ASSUME StatusInv PROVE OldStatusIsPrevious
    OBVIOUS
  <2>1. queue \in Seq(Event) /\ Chained /\ (delivering = NoEvent \/ delivering \in Event)
    BY DEF StatusInv, ListInv, TypeOK
  <2>2. Len(queue) \in Nat /\ (queue = <<>> <=> Len(queue) = 0)
    BY <2>1, EmptySeq
  <2>3. CASE delivering = NoEvent
    <3>1. Pushed = queue
      BY <2>1, <2>3, ConcatEmptySeq DEF Pushed
    <3> QED
      BY <2>1, <3>1 DEF Chained, OldStatusIsPrevious, Last
  <2>4. CASE delivering # NoEvent
    <3>1. /\ Pushed \in Seq(Event) /\ Len(Pushed) = 1 + Len(queue)
          /\ \A i \in 1 .. 1 + Len(queue) :
               Pushed[i] = IF i <= 1 THEN delivering ELSE queue[i - 1]
      <4>1. <<delivering>> \in Seq(Event) /\ Len(<<delivering>>) = 1 /\ <<delivering>>[1] = delivering
        BY <2>1, <2>4
      <4>2. Pushed = <<delivering>> \o queue
        BY <2>4 DEF Pushed
      <4> QED
        BY <4>1, <4>2, <2>1, <2>2, ConcatProperties
    <3>2. ASSUME NEW i \in 2 .. Len(Pushed) PROVE Pushed[i].old = Pushed[i - 1].new
      <4>1. Pushed[i] = queue[i - 1]
        BY <2>2, <3>1
      <4>2. CASE i = 2
        BY <4>1, <4>2, <2>1, <2>2, <2>4, <3>1 DEF Chained
      <4>3. CASE i > 2
        <5>1. i - 1 \in 2 .. Len(queue) /\ (i - 1) - 1 = i - 2 /\ ~(i - 1 <= 1)
          BY <4>3, <2>2, <3>1
        <5>2. Pushed[i - 1] = queue[(i - 1) - 1]
          BY <2>2, <3>1, <5>1
        <5>3. queue[i - 1].old = queue[(i - 1) - 1].new
          BY <2>1, <5>1 DEF Chained
        <5> QED
          BY <4>1, <5>2, <5>3
      <4> QED
        BY <4>2, <4>3
    <3>3. previous = Last(Pushed).new
      BY <2>1, <2>2, <2>4, <3>1 DEF Chained, Last
    <3> QED
      BY <3>2, <3>3 DEF OldStatusIsPrevious
  <2> QED
    BY <2>3, <2>4
<1> QED
  BY <1>1, StatusInvariant, PTL

==============================================================================
