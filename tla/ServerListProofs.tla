---------------------------- MODULE ServerListProofs --------------------------
(***************************************************************************)
(* Theorems about modules RpcDispatch and ServerList: one call of          *)
(* rpcjson_dispath with the rpclib client it makes, and the list that the  *)
(* main window makes of its answer; for every set of texts the server may  *)
(* reply and lists of servers of any length.                               *)
(***************************************************************************)
EXTENDS ServerList, TLAPS

-------------------------------------------------------------------------------
(* One call, module RpcDispatch: type correctness. *)

\* A reply that was not read may be lost with the connection, or not.
LEMMA LostUnread ==
  ConnectionLost =>
    /\ link = "open" /\ link' \in Lost
    /\ unread' = unread \/ unread' = FALSE
    /\ UNCHANGED <<callerVars, clientVars, requested, replied>>
  BY DEF ConnectionLost

\* Nothing that a server replies is taken for "no reply" or for "{}".
LEMMA AnswersDiffer == None \notin Replies \cup {Fallback} /\ Fallback \notin Replies
  BY DEF None, Replies, Fallback, Text

\* Every variable of the call stays in its range.
THEOREM DispatchTypeCorrect == DispatchSafeSpec => []DispatchTypeOK
<1>1. DispatchInit => DispatchTypeOK
  BY DEF DispatchInit, DispatchTypeOK, Lost
<1>2. DispatchTypeOK /\ [DispatchNext]_dispatchVars => DispatchTypeOK'
  <2> SUFFICES ASSUME DispatchTypeOK, [DispatchNext]_dispatchVars
               PROVE  DispatchTypeOK'
    OBVIOUS
  <2> USE DEF DispatchTypeOK, Goto, Handling, HasWork, callerVars, clientVars,
              serverVars, Lost
  <2>1. CASE CallerStep
    <3>1. CASE Construct
      BY <3>1 DEF Construct
    <3>2. CASE Look
      BY <3>2 DEF Look
    <3>3. CASE PostCall
      BY <3>3 DEF PostCall
    <3>4. CASE Get
      <4>1. caller' \in {"stop"} /\ result' \in Replies \cup {None, Fallback}
        BY <3>4 DEF Get
      <4>2. UNCHANGED <<io, stopped, state, reading, call, future, link,
                        requested, replied, unread>>
        BY <3>4 DEF Get
      <4> QED
        BY <4>1, <4>2
    <3>5. CASE Stop
      BY <3>5 DEF Stop
    <3>6. CASE Join
      BY <3>6 DEF Join
    <3> QED
      BY <2>1, <3>1, <3>2, <3>3, <3>4, <3>5, <3>6 DEF CallerStep
  <2>2. CASE IoStep
    <3>1. CASE OnConnected
      BY <3>1 DEF OnConnected
    <3>2. CASE OnConnectError
      BY <3>2 DEF OnConnectError
    <3>3. CASE OnPosted
      BY <3>3 DEF OnPosted
    <3>4. CASE OnReply
      <4>1. future' = replied /\ unread' = FALSE
        BY <3>4 DEF OnReply
      <4>2. UNCHANGED <<caller, result, io, stopped, state, reading, call, link,
                        requested, replied>>
        BY <3>4 DEF OnReply
      <4>3. future' \in Replies \cup {None}
        BY <4>1
      <4>4. unread' \in BOOLEAN
        BY <4>1
      <4>5. UNCHANGED <<stopped, reading, requested>>
        BY <4>2
      <4> QED
        BY <4>2, <4>3, <4>4, <4>5
    <3>5. CASE OnReadError
      BY <3>5 DEF OnReadError
    <3>6. CASE RunReturns
      BY <3>6 DEF RunReturns
    <3> QED
      BY <2>2, <3>1, <3>2, <3>3, <3>4, <3>5, <3>6 DEF IoStep
  <2>3. CASE ConnectEnds
    BY <2>3 DEF ConnectEnds
  <2>4. CASE ServerStep
    <3>1. CASE ServerReceives
      BY <3>1 DEF ServerReceives
    <3>2. CASE ServerReplies
      BY <3>2 DEF ServerReplies
    <3>3. CASE ConnectionLost
      <4>1. unread' \in BOOLEAN
        BY <3>3, LostUnread, Zenon
      <4> QED
        BY <3>3, <4>1, LostUnread
    <3> QED
      BY <2>4, <3>1, <3>2, <3>3 DEF ServerStep
  <2>5. CASE UNCHANGED dispatchVars
    BY <2>5 DEF dispatchVars
  <2> QED
    BY <2>1, <2>2, <2>3, <2>4, <2>5 DEF DispatchNext
<1> QED
  BY <1>1, <1>2, PTL DEF DispatchSafeSpec

-------------------------------------------------------------------------------
(* The inductive invariant. *)

\* The request reaches the server after the caller has posted it, the reply is
\* the server's only one, and the promise holds nothing else.
Replied ==
  /\ requested => call = "ongoing"
  /\ replied # None => requested
  /\ unread => replied # None
  /\ future # None => future = replied

\* The caller has a result when it is about to leave: the fallback when it never
\* posted, or else what the promise held.
Answered ==
  /\ caller \in {"construct", "look", "post", "wait"} => result = None
  /\ caller \in {"construct", "look", "post"} => call = "none"
  /\ caller \in {"stop", "join", "done"} =>
       IF result = Fallback THEN call = "none"
                            ELSE result # None /\ result = replied

\* What the state of the client says about its connection and its read.
StateTold ==
  /\ state = "initial" => ~reading
  /\ state = "connected" => /\ link \in {"open"} \cup Lost
                            /\ reading \/ link = "broken"
  /\ state = "disconnected" => ~reading /\ link \in {"refused"} \cup Lost
  /\ caller \in {"post", "wait"} =>
       state # "initial" /\ link \in {"open"} \cup Lost

\* The client's thread ends only for lack of work or after it was stopped, and
\* the caller stops it on its way out.
ThreadEnds ==
  /\ caller = "construct" <=> io = "none"
  /\ caller = "construct" => link = "closed" /\ state = "initial"
  /\ caller # "construct" => link # "closed"
  /\ stopped => caller \in {"join", "done"}
  /\ io = "ended" /\ ~stopped => ~reading /\ state # "initial"

DispatchInv == DispatchTypeOK /\ Replied /\ Answered /\ StateTold /\ ThreadEnds

LEMMA DispatchInvInit == DispatchInit => DispatchInv
  BY DEF DispatchInit, DispatchInv, DispatchTypeOK, Replied, Answered,
         StateTold, ThreadEnds, Lost

LEMMA DispatchInvStep ==
  DispatchInv /\ DispatchTypeOK' /\ [DispatchNext]_dispatchVars => DispatchInv'
<1> SUFFICES ASSUME DispatchInv, DispatchTypeOK', [DispatchNext]_dispatchVars
             PROVE  DispatchInv'
  OBVIOUS
<1> USE AnswersDiffer
    DEF DispatchInv, DispatchTypeOK, Replied, Answered, StateTold, ThreadEnds,
        Goto, Handling, callerVars, clientVars, serverVars, Lost
<1>1. CASE CallerStep
  <2>1. CASE Construct
    BY <2>1 DEF Construct
  <2>2. CASE Look
    BY <2>2 DEF Look
  <2>3. CASE PostCall
    BY <2>3 DEF PostCall
  <2>4. CASE Get
    BY <2>4 DEF Get
  <2>5. CASE Stop \/ Join
    BY <2>5 DEF Stop, Join
  <2> QED
    BY <1>1, <2>1, <2>2, <2>3, <2>4, <2>5 DEF CallerStep
<1>2. CASE IoStep
  <2>1. CASE OnConnected
    BY <2>1 DEF OnConnected
  <2>2. CASE OnConnectError
    BY <2>2 DEF OnConnectError
  <2>3. CASE OnPosted
    BY <2>3 DEF OnPosted
  <2>4. CASE OnReply
    BY <2>4 DEF OnReply
  <2>5. CASE OnReadError
    BY <2>5 DEF OnReadError
  <2>6. CASE RunReturns
    BY <2>6 DEF RunReturns, HasWork
  <2> QED
    BY <1>2, <2>1, <2>2, <2>3, <2>4, <2>5, <2>6 DEF IoStep
<1>3. CASE ConnectEnds
  BY <1>3 DEF ConnectEnds
<1>4. CASE ServerReceives
  BY <1>4 DEF ServerReceives
<1>5. CASE ServerReplies
  BY <1>5 DEF ServerReplies
<1>6. CASE ConnectionLost
  BY <1>6, LostUnread
<1>7. CASE UNCHANGED dispatchVars
  BY <1>7 DEF dispatchVars
<1> QED
  BY <1>1, <1>2, <1>3, <1>4, <1>5, <1>6, <1>7 DEF DispatchNext, ServerStep

\* The parts of the call fit together in every state.
THEOREM DispatchInvariant == DispatchSafeSpec => []DispatchInv
<1>1. DispatchInv /\ DispatchTypeOK' /\ [DispatchNext]_dispatchVars
        => DispatchInv'
  BY DispatchInvStep
<1> QED
  BY <1>1, DispatchInvInit, DispatchTypeCorrect, PTL DEF DispatchSafeSpec

-------------------------------------------------------------------------------
(* What follows. *)

\* When nobody is left to complete the promise that the caller waits for, the
\* connection is lost.
THEOREM NobodyToAnswerAlways == DispatchSafeSpec => []NobodyToAnswer
<1>1. DispatchInv => NobodyToAnswer
  BY DEF DispatchInv, DispatchTypeOK, StateTold, ThreadEnds, NobodyToAnswer, Lost
<1> QED
  BY <1>1, DispatchInvariant, PTL

LEMMA DispatchStepRefines ==
  DispatchInv /\ [DispatchNext]_dispatchVars => [Remote!Next]_(Remote!vars)
<1> SUFFICES ASSUME DispatchInv, [DispatchNext]_dispatchVars
             PROVE  [Remote!Next]_(Remote!vars)
  OBVIOUS
<1> USE AnswersDiffer
    DEF DispatchInv, Replied, Answered, Goto, callerVars, clientVars,
        serverVars, Remote!vars
<1>1. CASE Look
  BY <1>1 DEF Look, Remote!Next, Remote!GiveUp
<1>2. CASE Get
  BY <1>2 DEF Get, Remote!Next, Remote!Return
<1>3. CASE ServerReceives
  BY <1>3 DEF ServerReceives, DispatchTypeOK, Remote!Next, Remote!Request
<1>4. CASE ServerReplies
  BY <1>4 DEF ServerReplies, Remote!Next, Remote!Reply
<1>5. CASE Construct \/ PostCall \/ Stop \/ Join \/ IoStep \/ ConnectEnds
           \/ ConnectionLost
  BY <1>5 DEF Construct, PostCall, Stop, Join, IoStep, OnConnected,
              OnConnectError, OnPosted, OnReply, OnReadError, RunReturns,
              ConnectEnds, ConnectionLost
<1>6. CASE UNCHANGED dispatchVars
  BY <1>6 DEF dispatchVars
<1> QED
  BY <1>1, <1>2, <1>3, <1>4, <1>5, <1>6
     DEF DispatchNext, CallerStep, ServerStep

\* The call is the abstract call: the server is asked at most once, the result
\* is its reply, and "{}" is given only when it was not and will not be asked.
THEOREM DispatchImplementsRemoteCall == DispatchSafeSpec => ImplementsRemoteCall
<1>1. DispatchInit => Remote!Init
  BY DEF DispatchInit, Remote!Init
<1>2. DispatchInv /\ [DispatchNext]_dispatchVars => [Remote!Next]_(Remote!vars)
  BY DispatchStepRefines
<1> QED
  BY <1>1, <1>2, DispatchInvariant, PTL
     DEF DispatchSafeSpec, ImplementsRemoteCall, Remote!Spec
-------------------------------------------------------------------------------
(* The list: module ServerList. *)

ItemType == [entry : Nat, tag : Nat]

\* The answer does not change any more when the list is made from it.
ListInv ==
  /\ index \in Nat
  /\ items \in Seq(ItemType)
  /\ window = "loading" => index = 0 /\ items = <<>>
  /\ window # "loading" => caller = "done"

\* An item inserted at the end of the list is appended to it.
LEMMA InsertAtEnd ==
  ASSUME items \in Seq(ItemType), NEW e \in ItemType
  PROVE  InsertItem(e, Len(items)) = Append(items, e)
<1>1. SubSeq(items, 1, Len(items)) = items
  OBVIOUS
<1>2. SubSeq(items, Len(items) + 1, Len(items)) = <<>>
  OBVIOUS
<1>3. ~(Len(items) > Len(items))
  OBVIOUS
<1>4. InsertItem(e, Len(items)) = items \o <<e>> \o <<>>
  BY <1>1, <1>2, <1>3, Zenon DEF InsertItem
<1>5. items \o <<e>> = Append(items, e) /\ Append(items, e) \in Seq(ItemType)
  OBVIOUS
<1>6. Append(items, e) \o <<>> = Append(items, e)
  BY <1>5
<1> QED
  BY <1>4, <1>5, <1>6

\* Once the caller of rpcjson_dispath has left it, its result is final.
LEMMA ResultFinal ==
  caller = "done" /\ [DispatchNext]_dispatchVars =>
    UNCHANGED <<caller, result>>
  BY DEF DispatchNext, CallerStep, Construct, Look, PostCall, Get, Stop, Join,
         Goto, IoStep, OnConnected, OnConnectError, OnPosted, OnReply,
         OnReadError, RunReturns, ConnectEnds, ServerStep, ServerReceives,
         ServerReplies, ConnectionLost, dispatchVars, callerVars, clientVars,
         serverVars

LEMMA ListInvInit == Init => ListInv /\ ShownUpToFirstGap
  BY DEF Init, ListInv, ShownUpToFirstGap, DispatchInit

LEMMA ListInvStep ==
  ListInv /\ ShownUpToFirstGap /\ [Next]_vars => (ListInv /\ ShownUpToFirstGap)'
<1> SUFFICES ASSUME ListInv, ShownUpToFirstGap, [Next]_vars
             PROVE  (ListInv /\ ShownUpToFirstGap)'
  OBVIOUS
<1> USE DEF ListInv, ShownUpToFirstGap, listVars
<1>1. CASE (DispatchNext \/ UNCHANGED dispatchVars) /\ UNCHANGED listVars
  <2>1. CASE window = "loading"
    BY <1>1, <2>1
  <2>2. CASE window # "loading"
    <3>1. UNCHANGED <<caller, result>>
      BY <1>1, <2>2, ResultFinal
    <3>2. Servers' = Servers
      BY <3>1 DEF Servers
    <3> QED
      BY <1>1, <2>2, <3>1, <3>2 DEF Missing
  <2> QED
    BY <2>1, <2>2
<1>2. CASE Dispatched
  BY <1>2 DEF Dispatched, dispatchVars, callerVars
<1>3. ASSUME SkipEntry \/ CreateFails \/ AddPorxyItem \/ ListComplete
      PROVE  UNCHANGED <<caller, result>> /\ Servers' = Servers
  <2>1. UNCHANGED <<caller, result>>
    BY <1>3 DEF SkipEntry, CreateFails, AddPorxyItem, ListComplete,
                dispatchVars, callerVars
  <2> QED
    BY <2>1 DEF Servers
<1>4. CASE SkipEntry
  BY <1>3, <1>4 DEF SkipEntry, Adding, Missing
<1>5. CASE CreateFails
  BY <1>3, <1>5 DEF CreateFails, Adding, Missing
<1>6. CASE AddPorxyItem
  <2> USE <1>3, <1>6
  <2>0. index' = index + 1 /\ UNCHANGED <<window, failed, caller>>
    BY DEF AddPorxyItem, dispatchVars, callerVars
  <2>1. CASE index > Len(items)
    <3>1. items' = items
      BY <2>1 DEF AddPorxyItem, InsertItem
    <3>2. window = "adding"
      BY DEF AddPorxyItem, Adding
    <3> QED
      BY <2>0, <2>1, <3>1, <3>2 DEF Missing
  <2>2. CASE index = Len(items)
    <3> DEFINE item == [entry |-> index, tag |-> Len(items) + 1]
    <3>1. item \in ItemType
      BY DEF ItemType
    <3>2. items' = Append(items, item)
      BY <2>2, <3>1, InsertAtEnd DEF AddPorxyItem
    <3> HIDE DEF item
    <3>3. items' \in Seq(ItemType) /\ Len(items') = index + 1
      BY <2>2, <3>1, <3>2
    <3>4. \A k \in 1..Len(items) : items'[k] = items[k]
      BY <3>1, <3>2
    <3>5. items'[Len(items) + 1] = item
      BY <3>1, <3>2
    <3>6. item = [entry |-> (Len(items) + 1) - 1, tag |-> Len(items) + 1]
      BY <2>2 DEF item
    <3>7. \A k \in 1..Len(items') : items'[k] = [entry |-> k - 1, tag |-> k]
      <4> SUFFICES ASSUME NEW k \in 1..Len(items')
                   PROVE  items'[k] = [entry |-> k - 1, tag |-> k]
        OBVIOUS
      <4>1. k \in 1..Len(items) \/ k = Len(items) + 1
        BY <2>2, <3>3
      <4> QED
        BY <3>4, <3>5, <3>6, <4>1
    <3>8. window = "adding"
      BY DEF AddPorxyItem, Adding
    <3> QED
      BY <2>0, <2>2, <3>3, <3>7, <3>8
  <2> QED
    BY <2>1, <2>2
<1>7. CASE ListComplete
  BY <1>3, <1>7 DEF ListComplete, Missing
<1> QED
  BY <1>1, <1>2, <1>4, <1>5, <1>6, <1>7 DEF Next, ListStep, vars

\* However entries are skipped and items fail, the list shows the servers from
\* the first on, in order, up to the first gap and nothing after it.
THEOREM ShownUpToFirstGapAlways == SafeSpec => []ShownUpToFirstGap
<1>1. ListInv /\ ShownUpToFirstGap /\ [Next]_vars
        => (ListInv /\ ShownUpToFirstGap)'
  BY ListInvStep
<1> QED
  BY <1>1, ListInvInit, PTL DEF SafeSpec

-------------------------------------------------------------------------------
(* Types. *)

\* A list of entries has a length in the bound.
LEMMA ListLength ==
  \A d \in UNION {[1..n -> Entries] : n \in 0..MaxEntries} :
    Len(d) \in 0..MaxEntries
<1> SUFFICES ASSUME NEW n \in 0..MaxEntries, NEW d \in [1..n -> Entries]
             PROVE  Len(d) \in 0..MaxEntries
  BY Zenon
<1>1. n \in Nat
  BY ServerListAssumption
<1>2. Len(d) = n
  BY <1>1
<1> QED
  BY <1>2

\* No answer has more servers than the longest list.
LEMMA ServersBounded == Len(Servers) \in 0..MaxEntries
<1>1. CASE result \in {Text(d) : d \in Documents \ {<<"no list">>}}
  <2>1. PICK d \in Documents \ {<<"no list">>} : result = Text(d)
    BY <1>1
  <2>2. d \in UNION {[1..n -> Entries] : n \in 0..MaxEntries}
    BY <2>1, Zenon DEF Documents
  <2>3. Servers = d
    BY <1>1, <2>1 DEF Servers, Text
  <2> QED
    BY <2>2, <2>3, ListLength, Zenon
<1>2. CASE result \notin {Text(d) : d \in Documents \ {<<"no list">>}}
  <2>1. Servers = <<>>
    BY <1>2, Zenon DEF Servers
  <2> QED
    BY <2>1, ServerListAssumption
<1> QED
  BY <1>1, <1>2

\* The entry loadServerlist is at is one of the list.
ListBounds ==
  /\ window \in {"loading", "adding", "ready", "thrown"}
  /\ index \in 0..MaxEntries
  /\ failed \subseteq 0..(MaxEntries - 1)

LEMMA ListBoundsStep == ListBounds /\ [Next]_vars => ListBounds'
<1> SUFFICES ASSUME ListBounds, [Next]_vars PROVE ListBounds'
  OBVIOUS
<1> USE ServerListAssumption DEF ListBounds, listVars
<1>1. CASE UNCHANGED listVars
  BY <1>1
<1>2. CASE Dispatched \/ ListComplete
  BY <1>2 DEF Dispatched, ListComplete
<1>3. CASE SkipEntry \/ CreateFails \/ AddPorxyItem
  <2>1. index \in 0..(MaxEntries - 1)
    BY <1>3, ServersBounded DEF SkipEntry, CreateFails, AddPorxyItem, Adding
  <2>2. /\ window' = window /\ index' = index + 1
        /\ failed' = failed \/ failed' = failed \cup {index}
    BY <1>3 DEF SkipEntry, CreateFails, AddPorxyItem
  <2>3. failed' \subseteq 0..(MaxEntries - 1)
    BY <2>1, <2>2
  <2>4. index' \in 0..MaxEntries
    BY <2>1, <2>2
  <2> QED
    BY <2>2, <2>3, <2>4
<1> QED
  BY <1>1, <1>2, <1>3 DEF Next, ListStep, vars

\* What the list shows fits the longest answer.
LEMMA ItemsTyped ==
  ListInv /\ ShownUpToFirstGap /\ ListBounds =>
    items \in Seq([entry : 0..(MaxEntries - 1), tag : 0..MaxEntries])
<1> SUFFICES ASSUME ListInv, ShownUpToFirstGap, ListBounds
             PROVE  items \in
                      Seq([entry : 0..(MaxEntries - 1), tag : 0..MaxEntries])
  OBVIOUS
<1> DEFINE T == [entry : 0..(MaxEntries - 1), tag : 0..MaxEntries]
<1>1. Len(items) \in 0..MaxEntries /\ items \in Seq(ItemType)
  BY ServerListAssumption DEF ListInv, ShownUpToFirstGap, ListBounds
<1>2. ASSUME NEW k \in 1..Len(items) PROVE items[k] \in T
  <2>1. items[k] = [entry |-> k - 1, tag |-> k]
    BY DEF ShownUpToFirstGap
  <2>2. k - 1 \in 0..(MaxEntries - 1) /\ k \in 0..MaxEntries
    BY <1>1, ServerListAssumption
  <2> QED
    BY <2>1, <2>2
<1> HIDE DEF T
<1>3. items \in Seq(T)
  BY <1>1, <1>2
<1> QED
  BY <1>3 DEF T

\* Loading the list is no step of the call.
LEMMA ListCalls == SafeSpec => DispatchSafeSpec
<1>1. Init => DispatchInit
  BY DEF Init
<1>2. [Next]_vars => [DispatchNext]_dispatchVars
  BY DEF Next, ListStep, Dispatched, SkipEntry, CreateFails, AddPorxyItem,
         ListComplete, vars
<1> QED
  BY <1>1, <1>2, PTL DEF SafeSpec, DispatchSafeSpec

\* Every variable stays in its range: no answer drives the index past its list,
\* and every item's entry and tag fit the longest list.
THEOREM ListTypeCorrect == SafeSpec => []TypeOK
<1>1. Init => ListBounds
  BY ServerListAssumption DEF Init, ListBounds
<1>2. ListBounds /\ [Next]_vars => ListBounds'
  BY ListBoundsStep
<1>3. ListInv /\ ShownUpToFirstGap /\ [Next]_vars
        => (ListInv /\ ShownUpToFirstGap)'
  BY ListInvStep
<1>4. DispatchTypeOK /\ ListInv /\ ShownUpToFirstGap /\ ListBounds => TypeOK
  BY ItemsTyped DEF TypeOK, ListBounds
<1> QED
  BY <1>1, <1>2, <1>3, <1>4, ListInvInit, ListCalls, DispatchTypeCorrect, PTL
  DEF SafeSpec
===============================================================================
