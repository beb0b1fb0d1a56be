---------------------------- MODULE PipeClientProofs --------------------------
(***************************************************************************)
(* Theorems about module PipeClient, for any number of attempts to connect *)
(* and of messages.                                                        *)
(***************************************************************************)
EXTENDS PipeClient, UvLoopProofs

MainPlaces == {"queue", "new", "reset", "wipe", "connect", "register", "run"}
UiPlaces == {"none", "idle", "reset", "wipe", "connect", "link", "register",
             "wrote", "closed"}
PcType == [main : MainPlaces, ui : UiPlaces]
Owing == {"waiting", "opened", "error"}
StatusType ==
  [Attempts -> {"none", "waiting", "opened", "error", "taken", "failed",
                "reported"}]
PipeType == [wiped : Attempts \cup {None}, count : Int,
             conn : Attempts \cup {None}, used : BOOLEAN]

-------------------------------------------------------------------------------
(* The numbers that the counts of the loop and of the handle are made of. *)

\* The attempts that the pipe owes a callback when their status is f.
OwedIn(f) == {n \in Attempts : f[n] \in Owing}
Owes(v) == IF v \in Owing THEN 1 ELSE 0

\* The threads at p whose request is there and not yet registered.
Late(p) == (IF p.main = "register" THEN 1 ELSE 0)
             + (IF p.ui \in {"link", "register", "wrote"} THEN 1 ELSE 0)

\* The window is open, and counted as a request.
Window(p) == IF p.ui \in {"none", "closed"} THEN 0 ELSE 1

\* Outstanding, with the threads spelled out.
Balance == Cardinality(OwedIn(status)) + (sent - reported) - Late(pc)

\* The messages whose callback is to come.
OpenWrites == {k \in 1..MaxWrites : Copies(WriteReq(k)) = 1}

-------------------------------------------------------------------------------
(* The inductive invariant. *)

\* The variables that are not lists of requests stay in their ranges.
ClientType ==
  /\ lpc \in {"before", "check", "take", "process", "sleep", "peek", "drain",
              "process_more", "left", "undefined"}
  /\ active \subseteq {"pipe"} \X Attempts
  /\ endgame = {}
  /\ pc \in PcType
  /\ rpcc \in BOOLEAN
  /\ reqConnect \in Attempts \cup {None, Garbage}
  /\ tries \in Attempts
  /\ status \in StatusType
  /\ pipe \in PipeType
  /\ sent \in 0..MaxWrites /\ reported \in Nat
  /\ overlapped \in BOOLEAN

\* The loop runs once run() has made its attempt, and until rpcc is there the
\* window does nothing.
PlaceInv ==
  /\ pc.main = "queue" => lpc = "before"
  /\ pc.main # "run" => lpc \in {"before", "undefined"}
  /\ pc.main = "run" => lpc # "before"
  /\ pc.main = "queue" <=> pc.ui = "none"
  /\ pc.main \in {"queue", "new"} => ~rpcc
  /\ ~rpcc => pc.ui \in {"none", "idle", "closed"}

\* What a thread inside initPipeClient knows of its attempt.
StatusInv ==
  /\ \A n \in Attempts : n > tries => status[n] = "none"
  /\ pc.main \in {"queue", "new", "reset", "wipe", "connect"} =>
       status[1] = "none"
  /\ pc.main = "register" => status[1] \in Owing
  /\ pc.ui \in {"reset", "wipe", "connect"} => status[tries] = "none"
  /\ pc.ui \in {"reset", "wipe", "connect", "link"} => tries > 1
  /\ pc.ui = "link" => status[tries] \in {"opened", "error"}

\* The UI thread is in the middle of an insertion exactly at "link".
LinkInv ==
  /\ pc.ui = "link" <=> inserting # Nobody
  /\ pc.ui = "link" => inserting.req = ConnectReq(tries)

\* The work of the window ends once, when it is closed.
WorkInv == Copies(WorkReq) <= IF pc.ui = "closed" THEN 1 ELSE 0

\* A message is on its way at most once, and those on their way are the ones
\* that were sent and not reported.
WritesInv ==
  /\ \A k \in 1..MaxWrites :
       Copies(WriteReq(k)) <= IF k <= sent THEN 1 ELSE 0
  /\ sent - reported = Cardinality(OpenWrites)

\* Nobody registers or connects a handle that no attempt initialised.
WipedInv ==
  pipe.wiped = None =>
    /\ pc.main \in {"queue", "new", "reset", "wipe"}
    /\ pc.ui \notin {"connect", "link", "register", "wrote"}
    /\ pipe.conn = None

\* The loop's count, and the handle's.
CountInv == reqs = Balance + Copies(WorkReq) + Window(pc)

HandleInv ==
  ~overlapped =>
    /\ pipe.count = Balance
    /\ active # {} <=> pipe.count > 0
    /\ active \subseteq {<<"pipe", pipe.wiped>>}

IInv ==
  /\ LoopType(Reqs) /\ ClientType /\ WalkInv /\ PlaceInv /\ StatusInv /\ LinkInv
  /\ WorkInv /\ WritesInv /\ WipedInv /\ CountInv /\ HandleInv
  /\ AttemptsOnTheWay /\ UsableConnection /\ LoopOutlivesIdleWindow

-------------------------------------------------------------------------------
(* Requests, places and numbers. *)

LEMMA ReqsMembers ==
  /\ WorkReq \in Reqs
  /\ \A n \in Attempts : ConnectReq(n) \in Reqs
  /\ \A k \in 1..MaxWrites : WriteReq(k) \in Reqs
  BY DEF Reqs

LEMMA ReqsDiffer ==
  /\ WorkReq # <<>>
  /\ \A n : /\ ConnectReq(n) # <<>> /\ ConnectReq(n) # WorkReq
            /\ \A m : ConnectReq(n) = ConnectReq(m) => n = m
            /\ \A k : ConnectReq(n) # WriteReq(k)
  /\ \A k : /\ WriteReq(k) # <<>> /\ WriteReq(k) # WorkReq
            /\ \A j : WriteReq(k) = WriteReq(j) => k = j
  BY DEF WorkReq, ConnectReq, WriteReq

LEMMA AttemptNumbers ==
  /\ MaxAttempts \in Nat /\ MaxWrites \in Nat /\ 1 \in Attempts
  /\ None \notin Attempts /\ Garbage \notin Attempts /\ None # Garbage
  /\ \A n \in Attempts : n \in Nat /\ n >= 1
  /\ \A n \in Attempts : n < MaxAttempts => n + 1 \in Attempts
  BY PipeClientAssumption DEF Attempts, None, Garbage

LEMMA GotoMain ==
  ASSUME pc \in PcType, NEW from, NEW to \in MainPlaces, Goto("main", from, to)
  PROVE  /\ lpc \notin {"left", "undefined"} /\ pc.main = from
         /\ pc' \in PcType /\ pc'.main = to /\ pc'.ui = pc.ui
  BY DEF Goto, Running, PcType

LEMMA GotoUi ==
  ASSUME pc \in PcType, NEW from, NEW to \in UiPlaces, Goto("ui", from, to)
  PROVE  /\ lpc \notin {"left", "undefined"} /\ pc.ui = from
         /\ pc' \in PcType /\ pc'.ui = to /\ pc'.main = pc.main
  BY DEF Goto, Running, PcType

LEMMA QuietCopies ==
  ASSUME LoopType(Reqs), UNCHANGED <<ring, batch, iocp, inserting, lost>>
  PROVE  LoopType(Reqs)' /\ \A r : Copies(r)' = Copies(r)
  BY CopiesUnchanged DEF LoopType

\* A set that gains or loses at most one element.
LEMMA CardinalityChange ==
  ASSUME NEW A, NEW B, NEW e, IsFiniteSet(A), IsFiniteSet(B),
         A \ {e} = B \ {e}
  PROVE  Cardinality(A) + Has(B, e) = Cardinality(B) + Has(A, e)
<1>1. /\ Cardinality(A \ {e}) = Cardinality(A) - Has(A, e)
      /\ Cardinality(B \ {e}) = Cardinality(B) - Has(B, e)
      /\ Cardinality(A) \in Nat /\ Cardinality(B) \in Nat
  BY FS_RemoveElement, FS_CardinalityType DEF Has
<1>2. Has(A, e) \in Nat /\ Has(B, e) \in Nat
  BY DEF Has
<1>3. Cardinality(A \ {e}) = Cardinality(B \ {e})
  BY Zenon
<1>4. Cardinality(A) - Has(A, e) = Cardinality(B) - Has(B, e)
  BY <1>1, <1>3
<1> QED
  BY <1>1, <1>2, <1>4

LEMMA OwedFinite ==
  ASSUME NEW f
  PROVE  /\ IsFiniteSet(OwedIn(f)) /\ Cardinality(OwedIn(f)) \in Nat
         /\ Cardinality(OwedIn(f)) <= MaxAttempts
<1>1. IsFiniteSet(Attempts) /\ Cardinality(Attempts) = MaxAttempts
  BY AttemptNumbers, FS_Interval DEF Attempts
<1>2. OwedIn(f) \in SUBSET Attempts
  BY DEF OwedIn
<1> QED
  BY <1>1, <1>2, FS_Subset, FS_CardinalityType

LEMMA OwedChange ==
  ASSUME NEW f \in StatusType, NEW n \in Attempts, NEW v
  PROVE  Cardinality(OwedIn([f EXCEPT ![n] = v])) + Owes(f[n])
           = Cardinality(OwedIn(f)) + Owes(v)
<1> DEFINE g == [f EXCEPT ![n] = v]
<1>1. OwedIn(g) \ {n} = OwedIn(f) \ {n}
  BY DEF OwedIn, StatusType
<1>2. Has(OwedIn(g), n) = Owes(v) /\ Has(OwedIn(f), n) = Owes(f[n])
  BY DEF OwedIn, StatusType, Has, Owes
<1>3. Cardinality(OwedIn(g)) + Has(OwedIn(f), n)
        = Cardinality(OwedIn(f)) + Has(OwedIn(g), n)
  BY <1>1, OwedFinite, CardinalityChange
<1> QED
  BY <1>2, <1>3

\* An attempt that is owed a callback is counted.
LEMMA OwedOne ==
  ASSUME NEW f, NEW n \in OwedIn(f)
  PROVE  Cardinality(OwedIn(f)) >= 1
<1>1. OwedIn(f) # {}
  OBVIOUS
<1> QED
  BY <1>1, OwedFinite, FS_EmptySet

LEMMA OwedTwo ==
  ASSUME NEW f, NEW m \in OwedIn(f), NEW n \in OwedIn(f), m # n
  PROVE  Cardinality(OwedIn(f)) >= 2
<1>1. Cardinality(OwedIn(f) \ {m}) = Cardinality(OwedIn(f)) - 1
        /\ IsFiniteSet(OwedIn(f) \ {m})
  BY OwedFinite, FS_RemoveElement
<1>2. OwedIn(f) \ {m} # {}
  OBVIOUS
<1>3. Cardinality(OwedIn(f) \ {m}) \in Nat /\ Cardinality(OwedIn(f) \ {m}) # 0
  BY <1>1, <1>2, FS_EmptySet, FS_CardinalityType
<1> QED
  BY <1>1, <1>3, OwedFinite

LEMMA LateThreads ==
  ASSUME NEW p \in PcType
  PROVE  /\ Cardinality({t \in Threads : p[t] \in {"link", "register", "wrote"}})
              = Late(p)
         /\ Late(p) \in 0..2 /\ Window(p) \in 0..1
<1> DEFINE L == {t \in Threads : p[t] \in {"link", "register", "wrote"}}
<1>1. p["main"] = p.main /\ p["ui"] = p.ui /\ p.main \notin {"link", "wrote"}
  BY DEF PcType, MainPlaces
<1>2. L = (IF p.main = "register" THEN {"main"} ELSE {})
            \cup (IF p.ui \in {"link", "register", "wrote"} THEN {"ui"} ELSE {})
  BY <1>1 DEF Threads
<1>3. Cardinality({}) = 0 /\ Cardinality({"main"}) = 1 /\ Cardinality({"ui"}) = 1
        /\ Cardinality({"main", "ui"}) = 2
  <2>1. IsFiniteSet({"main"}) /\ Cardinality({"main"}) = 1
          /\ Cardinality({"ui"}) = 1
    BY FS_Singleton
  <2>2. Cardinality({"main"} \cup {"ui"}) = Cardinality({"main"}) + 1
    BY <2>1, FS_AddElement
  <2>3. {"main"} \cup {"ui"} = {"main", "ui"}
    OBVIOUS
  <2> QED
    BY <2>1, <2>2, <2>3, FS_EmptySet
<1>4. Late(p) \in 0..2 /\ Window(p) \in 0..1
  BY DEF Late, Window
<1>5. Cardinality(L) = Late(p)
  <2>1. CASE p.main = "register" /\ p.ui \in {"link", "register", "wrote"}
    BY <2>1, <1>2, <1>3 DEF Late
  <2>2. CASE p.main = "register" /\ p.ui \notin {"link", "register", "wrote"}
    BY <2>2, <1>2, <1>3 DEF Late
  <2>3. CASE p.main # "register" /\ p.ui \in {"link", "register", "wrote"}
    BY <2>3, <1>2, <1>3 DEF Late
  <2>4. CASE p.main # "register" /\ p.ui \notin {"link", "register", "wrote"}
    <3>1. L = {}
      BY <2>4, <1>2
    <3> QED
      BY <2>4, <3>1, <1>3 DEF Late
  <2> QED
    BY <2>1, <2>2, <2>3, <2>4
<1> QED
  BY <1>4, <1>5

LEMMA OutstandingIsBalance == ClientType => Outstanding = Balance
  BY LateThreads DEF ClientType, Outstanding, Balance, OwedIn, Owing

LEMMA BalanceType ==
  ASSUME ClientType
  PROVE  /\ Cardinality(OwedIn(status)) \in Nat
         /\ sent \in Nat /\ reported \in Nat /\ sent - reported \in Int
         /\ Late(pc) \in 0..2 /\ Window(pc) \in 0..1 /\ Balance \in Int
<1>1. sent \in Nat /\ reported \in Nat /\ sent - reported \in Int
  BY AttemptNumbers DEF ClientType
<1>2. Cardinality(OwedIn(status)) \in Nat
  BY OwedFinite
<1>3. Late(pc) \in 0..2 /\ Window(pc) \in 0..1
  BY LateThreads DEF ClientType
<1> QED
  BY <1>1, <1>2, <1>3 DEF Balance

LEMMA OpenWritesFinite ==
  /\ IsFiniteSet(OpenWrites) /\ Cardinality(OpenWrites) \in Nat
<1>1. IsFiniteSet(1..MaxWrites)
  BY AttemptNumbers, FS_Interval
<1>2. OpenWrites \in SUBSET (1..MaxWrites)
  BY DEF OpenWrites
<1> QED
  BY <1>1, <1>2, FS_Subset, FS_CardinalityType

\* Of the requests that the pipe owes, at most one was processed before it is
\* registered: the one that the UI thread is about to register.
LEMMA BalanceBounds ==
  ASSUME ClientType, StatusInv, WritesInv
  PROVE  /\ reported <= sent
         /\ Balance >= 0 - (IF pc.ui \in {"register", "wrote"} THEN 1 ELSE 0)
         /\ Balance <= MaxAttempts + MaxWrites
<1>1. sent - reported \in Nat /\ sent - reported <= MaxWrites
  <2>1. sent - reported \in Nat
    BY OpenWritesFinite DEF WritesInv
  <2> QED
    BY <2>1, AttemptNumbers DEF ClientType
<1>2. reported <= sent
  BY <1>1, BalanceType
<1>3. CASE pc.main = "register" /\ pc.ui = "link"
  <2>1. 1 \in OwedIn(status) /\ tries \in OwedIn(status) /\ tries # 1
    BY <1>3, AttemptNumbers DEF ClientType, StatusInv, OwedIn, Owing
  <2>2. Cardinality(OwedIn(status)) >= 2
    BY <2>1, OwedTwo
  <2>3. Late(pc) = 2
    BY <1>3 DEF Late
  <2> QED
    BY <1>1, <1>2, <1>3, <2>2, <2>3, OwedFinite, AttemptNumbers DEF Balance
<1>4. CASE pc.main = "register" /\ pc.ui # "link"
  <2>1. 1 \in OwedIn(status)
    BY <1>4, AttemptNumbers DEF StatusInv, OwedIn
  <2>2. Cardinality(OwedIn(status)) >= 1
    BY <2>1, OwedOne
  <2>3. Late(pc) = 1 + (IF pc.ui \in {"register", "wrote"} THEN 1 ELSE 0)
    BY <1>4 DEF Late
  <2> QED
    BY <1>1, <1>2, <1>4, <2>2, <2>3, OwedFinite, AttemptNumbers DEF Balance
<1>5. CASE pc.main # "register" /\ pc.ui = "link"
  <2>1. tries \in OwedIn(status)
    BY <1>5, AttemptNumbers DEF ClientType, StatusInv, OwedIn, Owing
  <2>2. Cardinality(OwedIn(status)) >= 1
    BY <2>1, OwedOne
  <2>3. Late(pc) = 1
    BY <1>5 DEF Late
  <2> QED
    BY <1>1, <1>2, <1>5, <2>2, <2>3, OwedFinite, AttemptNumbers DEF Balance
<1>6. CASE pc.main # "register" /\ pc.ui # "link"
  <2>1. Late(pc) = IF pc.ui \in {"register", "wrote"} THEN 1 ELSE 0
    BY <1>6 DEF Late
  <2> QED
    BY <1>1, <1>2, <1>6, <2>1, OwedFinite, AttemptNumbers DEF Balance
<1> QED
  BY <1>3, <1>4, <1>5, <1>6

LEMMA TypeParts == IInv => TypeOK
<1> SUFFICES ASSUME IInv PROVE TypeOK
  OBVIOUS
<1>1. /\ LoopType(Reqs) /\ ClientType /\ WalkInv /\ PlaceInv /\ StatusInv
      /\ LinkInv /\ WorkInv /\ WritesInv /\ WipedInv /\ CountInv /\ HandleInv
      /\ AttemptsOnTheWay /\ UsableConnection /\ LoopOutlivesIdleWindow
  BY DEF IInv
<1>2. reqs \in 0..(1 + MaxAttempts + MaxWrites)
  <2>1. Copies(WorkReq) \in Nat /\ Copies(WorkReq) + Window(pc) <= 1
    BY <1>1, CountsType DEF WorkInv, Window
  <2>2. Balance + Window(pc) >= 0
    BY <1>1, BalanceBounds, BalanceType DEF Window
  <2> QED
    BY <1>1, <2>1, <2>2, BalanceBounds, BalanceType, AttemptNumbers
       DEF CountInv
<1>3. sent \in 0..MaxWrites /\ reported \in 0..sent
  BY <1>1, BalanceBounds, AttemptNumbers DEF ClientType
<1>4. /\ pc.main \in MainPlaces /\ pc.ui \in UiPlaces
  BY <1>1 DEF ClientType, PcType
<1> QED
  BY <1>1, <1>2, <1>3, <1>4 DEF TypeOK, ClientType, LoopType, MainPlaces,
     UiPlaces, StatusType, PipeType

LEMMA InitInv == Init => IInv
<1> SUFFICES ASSUME Init PROVE IInv
  OBVIOUS
<1>1. LoopInit /\ inserting = Nobody /\ pc = [main |-> "queue", ui |-> "none"]
      /\ status = [n \in Attempts |-> "none"] /\ pipe = FreshPipe(None)
      /\ reqConnect = Garbage
  BY DEF Init, LoopInit
<1>2. LoopType(Reqs) /\ WalkInv
  BY <1>1 DEF LoopInit, LoopType, WalkInv
<1>3. ClientType
  <2>1. pc \in PcType /\ status \in StatusType
    BY <1>1 DEF PcType, MainPlaces, UiPlaces, StatusType
  <2>2. pipe \in PipeType
    BY <1>1 DEF PipeType, FreshPipe
  <2>3. active \subseteq {"pipe"} \X Attempts
    BY DEF Init, LoopInit
  <2>4. /\ lpc = "before" /\ endgame = {} /\ rpcc = FALSE /\ tries = 1
        /\ sent = 0 /\ reported = 0 /\ overlapped = FALSE
    BY DEF Init, LoopInit
  <2>5. /\ sent \in 0..MaxWrites /\ reported \in Nat /\ tries \in Attempts
        /\ reqConnect \in Attempts \cup {None, Garbage}
    BY <1>1, <2>4, AttemptNumbers
  <2> QED
    BY <2>1, <2>2, <2>3, <2>4, <2>5 DEF ClientType
<1>4. \A r \in Reqs : Copies(r) = 0
  <2>1. <<>> \notin Reqs
    BY ReqsDiffer DEF Reqs
  <2> QED
    BY <1>1, <2>1, CopiesInit
<1>5. PlaceInv /\ StatusInv /\ LinkInv
  BY <1>1, AttemptNumbers DEF Init, LoopInit, PlaceInv, StatusInv, LinkInv
<1>6. WorkInv /\ WritesInv
  <2>1. OpenWrites = {}
    BY <1>4, ReqsMembers DEF OpenWrites
  <2>2. Cardinality(OpenWrites) = 0
    BY <2>1, FS_EmptySet
  <2> QED
    BY <1>1, <1>4, <2>2, ReqsMembers DEF Init, WorkInv, WritesInv
<1>7. Balance = 0
  <2>1. OwedIn(status) = {}
    BY <1>1 DEF OwedIn, Owing
  <2>2. Cardinality(OwedIn(status)) = 0 /\ Late(pc) = 0
    BY <1>1, <2>1, FS_EmptySet DEF Late
  <2> QED
    BY <2>2 DEF Init, Balance
<1>8. WipedInv /\ CountInv /\ HandleInv
  BY <1>1, <1>4, <1>7, ReqsMembers DEF LoopInit, WipedInv, CountInv, HandleInv,
     FreshPipe, Window
<1>9. AttemptsOnTheWay
  BY <1>1, <1>4, ReqsMembers DEF AttemptsOnTheWay
<1>10. UsableConnection /\ LoopOutlivesIdleWindow
  BY <1>1, AttemptNumbers DEF LoopInit, UsableConnection, LoopOutlivesIdleWindow
<1> QED
  BY <1>2, <1>3, <1>5, <1>6, <1>8, <1>9, <1>10 DEF IInv
-------------------------------------------------------------------------------
(* The steps that leave the requests where they are. *)

\* The thread of run() and the UI thread, outside the calls into the loop.
LEMMA MoveInv ==
  ASSUME IInv,
         QueueUi \/ NewRpcmgr \/ ClickConnects
           \/ ResetConnect("main") \/ ResetConnect("ui")
  PROVE  IInv'
<1>1. /\ LoopType(Reqs) /\ ClientType /\ WalkInv /\ PlaceInv /\ StatusInv
      /\ LinkInv /\ WorkInv /\ WritesInv /\ WipedInv /\ CountInv /\ HandleInv
      /\ AttemptsOnTheWay /\ UsableConnection /\ LoopOutlivesIdleWindow
  BY DEF IInv
<1>2. /\ UNCHANGED <<lpc, ring, batch, iocp, active, endgame, inserting, lost>>
      /\ UNCHANGED <<status, pipe, sent, reported, overlapped>>
  BY DEF QueueUi, NewRpcmgr, ClickConnects, ResetConnect, loopVars
<1>3. LoopType(Reqs)' /\ \A r : Copies(r)' = Copies(r)
  BY <1>1, <1>2, QuietCopies
<1>4. pc \in PcType /\ pc' \in PcType
      /\ \/ /\ pc.main = "queue" /\ pc'.main = "new"
            /\ pc.ui = "none" /\ pc'.ui = "idle" /\ lpc = "before"
            /\ reqs' = reqs + 1 /\ UNCHANGED <<rpcc, reqConnect, tries>>
         \/ /\ pc.main = "new" /\ pc'.main = "reset" /\ pc'.ui = pc.ui
            /\ rpcc' = TRUE /\ UNCHANGED <<reqs, reqConnect, tries>>
            /\ lpc # "undefined" /\ lpc # "left"
         \/ /\ pc'.main = pc.main /\ pc.ui = "idle" /\ pc'.ui = "reset" /\ rpcc
            /\ tries < MaxAttempts /\ tries' = tries + 1
            /\ UNCHANGED <<reqs, rpcc, reqConnect>>
            /\ lpc # "undefined" /\ lpc # "left"
         \/ /\ \/ pc.main = "reset" /\ pc'.main = "wipe" /\ pc'.ui = pc.ui
               \/ pc.ui = "reset" /\ pc'.ui = "wipe" /\ pc'.main = pc.main
            /\ reqConnect' = None /\ UNCHANGED <<reqs, rpcc, tries>>
            /\ lpc # "undefined" /\ lpc # "left"
  <2>1. CASE QueueUi
    BY <1>1, <2>1 DEF QueueUi, ClientType, PlaceInv, PcType, MainPlaces,
                      UiPlaces
  <2>2. CASE NewRpcmgr
    BY <1>1, <2>2, GotoMain DEF NewRpcmgr, ClientType, MainPlaces, loopVars
  <2>3. CASE ClickConnects
    BY <1>1, <2>3, GotoUi DEF ClickConnects, ClientType, UiPlaces, loopVars
  <2>4. CASE ResetConnect("main")
    BY <1>1, <2>4, GotoMain DEF ResetConnect, ClientType, MainPlaces, loopVars
  <2>5. CASE ResetConnect("ui")
    BY <1>1, <2>5, GotoUi DEF ResetConnect, ClientType, UiPlaces, loopVars
  <2> QED
    BY <2>1, <2>2, <2>3, <2>4, <2>5
<1>5. ClientType' /\ WalkInv'
  BY <1>1, <1>2, <1>4, AttemptNumbers DEF ClientType, WalkInv
<1>6. PlaceInv'
  BY <1>1, <1>2, <1>4 DEF PlaceInv
<1>7. StatusInv'
  BY <1>1, <1>2, <1>4, AttemptNumbers DEF ClientType, StatusInv
<1>8. LinkInv' /\ WipedInv'
  BY <1>1, <1>2, <1>4 DEF LinkInv, WipedInv, PlaceInv
<1>9. WorkInv' /\ WritesInv'
  <2>1. OpenWrites' = OpenWrites
    BY <1>3 DEF OpenWrites
  <2> QED
    BY <1>1, <1>2, <1>3, <1>4, <2>1 DEF WorkInv, WritesInv
<1>10. CountInv' /\ HandleInv'
  <2>1. Late(pc') = Late(pc)
    BY <1>4 DEF Late
  <2>2. Balance' = Balance
    BY <1>2, <2>1 DEF Balance
  <2>3. reqs' = reqs + Window(pc') - Window(pc)
    <3>1. reqs \in Int
      BY <1>1, BalanceType, CountsType DEF CountInv
    <3> QED
      BY <1>4, <3>1 DEF Window
  <2>4. /\ Balance \in Int /\ Copies(WorkReq) \in Nat
        /\ Window(pc) \in 0..1 /\ Window(pc') \in 0..1
    BY <1>1, <1>4, BalanceType, LateThreads, CountsType
  <2>5. CountInv'
    BY <1>1, <1>3, <2>2, <2>3, <2>4 DEF CountInv
  <2> QED
    BY <1>1, <1>2, <2>2, <2>5 DEF HandleInv
<1>11. AttemptsOnTheWay'
  BY <1>1, <1>2, <1>3 DEF AttemptsOnTheWay
<1>12. UsableConnection' /\ LoopOutlivesIdleWindow'
  BY <1>1, <1>2, <1>4, AttemptNumbers DEF UsableConnection,
     LoopOutlivesIdleWindow
<1> QED
  BY <1>3, <1>5, <1>6, <1>7, <1>8, <1>9, <1>10, <1>11, <1>12 DEF IInv

\* What makes the behaviour undefined changes nothing before that.
LEMMA UndefinedInv ==
  ASSUME IInv, ClickTooEarly \/ CountersCollide
  PROVE  IInv'
<1>1. /\ LoopType(Reqs) /\ ClientType /\ WalkInv /\ PlaceInv /\ StatusInv
      /\ LinkInv /\ WorkInv /\ WritesInv /\ WipedInv /\ CountInv /\ HandleInv
      /\ AttemptsOnTheWay /\ UsableConnection /\ LoopOutlivesIdleWindow
  BY DEF IInv
<1>2. /\ UNCHANGED <<ring, batch, iocp, active, reqs, endgame, inserting, lost>>
      /\ UNCHANGED clientVars /\ lpc' = "undefined"
      /\ pc.main # "queue"
  BY <1>1 DEF ClickTooEarly, CountersCollide, PlaceInv
<1>3. LoopType(Reqs)' /\ \A r : Copies(r)' = Copies(r)
  BY <1>1, <1>2, QuietCopies
<1>4. ClientType' /\ WalkInv' /\ PlaceInv' /\ StatusInv' /\ LinkInv' /\ WipedInv'
  BY <1>1, <1>2 DEF clientVars, ClientType, WalkInv, PlaceInv, StatusInv,
     LinkInv, WipedInv
<1>5. WorkInv' /\ WritesInv'
  <2>1. OpenWrites' = OpenWrites
    BY <1>3 DEF OpenWrites
  <2> QED
    BY <1>1, <1>2, <1>3, <2>1 DEF clientVars, WorkInv, WritesInv
<1>6. CountInv' /\ HandleInv'
  <2>1. Balance' = Balance
    BY <1>2 DEF clientVars, Balance
  <2> QED
    BY <1>1, <1>2, <1>3, <2>1 DEF clientVars, CountInv, HandleInv
<1>7. AttemptsOnTheWay' /\ UsableConnection' /\ LoopOutlivesIdleWindow'
  BY <1>1, <1>2 DEF clientVars, AttemptsOnTheWay, UsableConnection,
     LoopOutlivesIdleWindow
<1> QED
  BY <1>3, <1>4, <1>5, <1>6, <1>7 DEF IInv

\* uv_run goes from one part of its round to the next, or is left when neither
\* the window nor a request is counted.
LEMMA LoopStepInv ==
  ASSUME IInv, LoopStep \/ Endgames, UNCHANGED clientVars
  PROVE  IInv'
<1>1. /\ LoopType(Reqs) /\ ClientType /\ WalkInv /\ PlaceInv /\ StatusInv
      /\ LinkInv /\ WorkInv /\ WritesInv /\ WipedInv /\ CountInv /\ HandleInv
      /\ AttemptsOnTheWay /\ UsableConnection /\ LoopOutlivesIdleWindow
  BY DEF IInv
<1>2. UNCHANGED <<active, reqs, endgame, inserting, lost>>
  BY <1>1 DEF LoopStep, LoopCheck, TakeRing, BackendTimeout, Poll, MoreDone,
     Endgames, ClientType
<1>3. LoopType(Reqs)' /\ WalkInv' /\ \A r : Copies(r)' = Copies(r)
  BY <1>1, CopiesLoopStep, CopiesEndgames
<1>4. /\ lpc \notin {"before", "left", "undefined"}
      /\ lpc' \in {"left", "check", "take", "process", "process_more", "sleep",
                   "peek", "drain"}
      /\ lpc' = "left" => reqs = 0
  <2>1. CASE LoopStep
    <3>1. LoopCheck /\ lpc' = "left" => ~(reqs > 0)
      BY DEF LoopCheck, Alive, HasActive
    <3>2. reqs \in 0..(1 + MaxAttempts + MaxWrites)
      BY TypeParts DEF TypeOK
    <3>3. ~(reqs > 0) => reqs = 0
      BY <3>2, AttemptNumbers
    <3> QED
      BY <2>1, <3>1, <3>3 DEF LoopStep, LoopCheck, TakeRing, BackendTimeout,
         Poll, MoreDone
  <2>2. CASE Endgames
    BY <2>2 DEF Endgames
  <2> QED
    BY <2>1, <2>2
<1>5. ClientType' /\ PlaceInv' /\ StatusInv' /\ LinkInv' /\ WipedInv'
  BY <1>1, <1>2, <1>4 DEF clientVars, ClientType, PlaceInv, StatusInv, LinkInv,
     WipedInv
<1>6. WorkInv' /\ WritesInv'
  <2>1. OpenWrites' = OpenWrites
    BY <1>3 DEF OpenWrites
  <2> QED
    BY <1>1, <1>3, <2>1 DEF clientVars, WorkInv, WritesInv
<1>7. CountInv' /\ HandleInv'
  <2>1. Balance' = Balance
    BY DEF clientVars, Balance
  <2> QED
    BY <1>1, <1>2, <1>3, <2>1 DEF clientVars, CountInv, HandleInv
<1>8. AttemptsOnTheWay' /\ UsableConnection'
  BY <1>1, <1>3, <1>4 DEF clientVars, AttemptsOnTheWay, UsableConnection
<1>9. LoopOutlivesIdleWindow'
  <2> SUFFICES ASSUME lpc' = "left"
               PROVE  pc.ui \in {"closed", "wrote", "register"}
    BY DEF clientVars, LoopOutlivesIdleWindow
  <2>1. Copies(WorkReq) \in Nat
    BY <1>1, CountsType
  <2>2. reqs = 0 /\ pc.ui # "none"
    BY <1>1, <1>4 DEF PlaceInv
  <2>3. pc.ui \notin {"closed", "wrote", "register"} =>
          Balance >= 0 /\ Window(pc) = 1
    BY <1>1, <2>2, BalanceBounds DEF Window
  <2> QED
    BY <1>1, <2>1, <2>2, <2>3, BalanceType DEF CountInv
<1> QED
  BY <1>3, <1>5, <1>6, <1>7, <1>8, <1>9 DEF IInv
-------------------------------------------------------------------------------
(* rpcmgr::initPipeClient. *)

\* The attempt that a thread is making.
LEMMA AttemptType ==
  ASSUME ClientType, NEW t \in Threads
  PROVE  Attempt(t) \in Attempts
  BY AttemptNumbers DEF ClientType, Attempt, Threads

LEMMA WipePipeInv ==
  ASSUME IInv, NEW t \in Threads, WipePipe(t)
  PROVE  IInv'
<1>1. /\ LoopType(Reqs) /\ ClientType /\ WalkInv /\ PlaceInv /\ StatusInv
      /\ LinkInv /\ WorkInv /\ WritesInv /\ WipedInv /\ CountInv /\ HandleInv
      /\ AttemptsOnTheWay /\ UsableConnection /\ LoopOutlivesIdleWindow
  BY DEF IInv
<1>2. /\ UNCHANGED <<lpc, ring, batch, iocp, active, reqs, endgame, inserting,
                     lost>>
      /\ UNCHANGED <<rpcc, reqConnect, tries, status, sent, reported>>
      /\ pipe' = FreshPipe(Attempt(t))
      /\ overlapped' = (overlapped \/ pipe.count # 0 \/ pipe.conn # None)
  BY DEF WipePipe, loopVars
<1>3. LoopType(Reqs)' /\ \A r : Copies(r)' = Copies(r)
  BY <1>1, <1>2, QuietCopies
<1>4. /\ pc \in PcType /\ pc' \in PcType /\ lpc # "undefined" /\ lpc # "left"
      /\ \/ pc.main = "wipe" /\ pc'.main = "connect" /\ pc'.ui = pc.ui
         \/ pc.ui = "wipe" /\ pc'.ui = "connect" /\ pc'.main = pc.main
  <2>1. CASE t = "main"
    BY <1>1, <2>1, GotoMain DEF WipePipe, ClientType, MainPlaces
  <2>2. CASE t = "ui"
    BY <1>1, <2>2, GotoUi DEF WipePipe, ClientType, UiPlaces
  <2> QED
    BY <2>1, <2>2 DEF Threads
<1>5. /\ pipe' \in PipeType /\ pipe'.wiped # None /\ pipe'.count = 0
      /\ pipe'.conn = None /\ overlapped' \in BOOLEAN
  BY <1>1, <1>2, AttemptType, AttemptNumbers DEF FreshPipe, PipeType, ClientType
<1>6. ClientType' /\ WalkInv' /\ PlaceInv' /\ LinkInv' /\ WipedInv'
  BY <1>1, <1>2, <1>4, <1>5 DEF ClientType, WalkInv, PlaceInv, LinkInv, WipedInv
<1>7. StatusInv'
  BY <1>1, <1>2, <1>4 DEF StatusInv
<1>8. WorkInv' /\ WritesInv'
  <2>1. OpenWrites' = OpenWrites
    BY <1>3 DEF OpenWrites
  <2> QED
    BY <1>1, <1>2, <1>3, <1>4, <2>1 DEF WorkInv, WritesInv
<1>9. CountInv' /\ HandleInv'
  <2>1. Balance' = Balance /\ Window(pc') = Window(pc)
    BY <1>2, <1>4 DEF Balance, Late, Window
  <2>2. ~overlapped' => ~overlapped /\ pipe.count = 0
    BY <1>1, <1>2 DEF ClientType
  <2>3. HandleInv'
    BY <1>1, <1>2, <1>5, <2>1, <2>2 DEF HandleInv
  <2> QED
    BY <1>1, <1>2, <1>3, <2>1, <2>3 DEF CountInv
<1>10. AttemptsOnTheWay' /\ LoopOutlivesIdleWindow'
  BY <1>1, <1>2, <1>3, <1>4 DEF AttemptsOnTheWay, LoopOutlivesIdleWindow
<1>11. UsableConnection'
  <2>1. ~overlapped' => ~overlapped /\ pipe.conn = None
    BY <1>1, <1>2 DEF ClientType
  <2> QED
    BY <1>1, <1>2, <2>1, AttemptNumbers DEF UsableConnection
<1> QED
  BY <1>3, <1>6, <1>7, <1>8, <1>9, <1>10, <1>11 DEF IInv

\* What uv_pipe_connect does to the lists and to the places.
LEMMA PipeConnectShape ==
  ASSUME IInv, NEW t \in Threads, PipeConnect(t) \/ PipeConnectBusy(t)
  PROVE  /\ LoopType(Reqs)' /\ lpc # "undefined" /\ lpc # "left"
         /\ status[Attempt(t)] = "none" /\ pc' \in PcType
         /\ \E v \in Owing :
              /\ status' = [status EXCEPT ![Attempt(t)] = v]
              /\ \A r \in Reqs :
                   Copies(r)' = Copies(r) + IF v = "waiting" THEN 0
                                            ELSE Is(ConnectReq(Attempt(t)), r)
              /\ \/ /\ t = "main" /\ pc.main = "connect"
                    /\ pc'.main = "register" /\ pc'.ui = pc.ui
                    /\ UNCHANGED inserting
                 \/ /\ t = "ui" /\ pc.ui = "connect" /\ v # "waiting"
                    /\ pc'.ui = "link" /\ pc'.main = pc.main
                    /\ inserting = Nobody /\ inserting' # Nobody
                    /\ inserting'.req = ConnectReq(Attempt(t))
                 \/ /\ t = "ui" /\ pc.ui = "connect" /\ v = "waiting"
                    /\ pc'.ui = "register" /\ pc'.main = pc.main
                    /\ UNCHANGED inserting
<1>1. /\ LoopType(Reqs) /\ ClientType /\ WalkInv /\ PlaceInv /\ StatusInv
      /\ LinkInv /\ WorkInv /\ WritesInv /\ WipedInv /\ CountInv /\ HandleInv
      /\ AttemptsOnTheWay /\ UsableConnection /\ LoopOutlivesIdleWindow
  BY DEF IInv
<1> DEFINE e == ConnectReq(Attempt(t))
<1>2. e \in Reqs /\ e # <<>> /\ <<>> \notin Reqs
  BY <1>1, AttemptType, ReqsMembers, ReqsDiffer DEF Reqs
<1>3. t = "main" \/ t = "ui"
  BY DEF Threads
<1>4. ASSUME t = "main", PipeConnect(t)
      PROVE  /\ LoopType(Reqs)'
             /\ \A r : Copies(r)' = Copies(r) + Is(e, r)
  <2>1. Insert(e) /\ UNCHANGED <<batch, iocp, inserting, lost>>
    BY <1>4 DEF PipeConnect
  <2> HIDE DEF e
  <2> QED
    BY <1>1, <1>2, <2>1, CopiesInsert
<1>5. ASSUME t = "ui", PipeConnect(t)
      PROVE  /\ LoopType(Reqs)'
             /\ \A r \in Reqs : Copies(r)' = Copies(r) + Is(e, r)
             /\ inserting = Nobody /\ inserting' # Nobody /\ inserting'.req = e
  <2>1. InsertLook(e) /\ UNCHANGED <<ring, batch, iocp, lost>>
    BY <1>5 DEF PipeConnect
  <2>2. inserting = Nobody /\ inserting' # Nobody /\ inserting'.req = e
    BY <1>2, <2>1 DEF InsertLook, Nobody
  <2> HIDE DEF e
  <2> QED
    BY <1>1, <1>2, <2>1, <2>2, CopiesLook
<1>6. ASSUME PipeConnectBusy(t)
      PROVE  LoopType(Reqs)' /\ \A r : Copies(r)' = Copies(r) + 0
  <2>1. UNCHANGED <<ring, batch, iocp, inserting, lost>>
    BY <1>6 DEF PipeConnectBusy, loopVars
  <2>2. LoopType(Reqs)' /\ \A r : Copies(r)' = Copies(r) /\ Copies(r) \in Nat
    BY <1>1, <2>1, QuietCopies, CountsType
  <2> QED
    BY <2>2
<1>7. /\ lpc # "undefined" /\ lpc # "left" /\ pc' \in PcType
      /\ t = "main" => /\ pc.main = "connect" /\ pc'.main = "register"
                       /\ pc'.ui = pc.ui
      /\ t = "ui" => /\ pc.ui = "connect" /\ pc'.main = pc.main
                     /\ pc'.ui = IF PipeConnect(t) THEN "link" ELSE "register"
  <2>1. CASE t = "main"
    BY <1>1, <2>1, GotoMain DEF PipeConnect, PipeConnectBusy, ClientType,
                                MainPlaces
  <2>2. CASE t = "ui" /\ PipeConnect(t)
    BY <1>1, <2>2, GotoUi DEF PipeConnect, ClientType, UiPlaces
  <2>3. CASE t = "ui" /\ ~PipeConnect(t)
    BY <1>1, <2>3, GotoUi DEF PipeConnectBusy, ClientType, UiPlaces
  <2> QED
    BY <1>3, <2>1, <2>2, <2>3
<1>8. status[Attempt(t)] = "none"
  BY <1>1, <1>3, <1>7 DEF StatusInv, Attempt
<1>9. CASE PipeConnect(t)
  <2>1. PICK v \in {"opened", "error"} :
          status' = [status EXCEPT ![Attempt(t)] = v]
    BY <1>9 DEF PipeConnect
  <2>2. v \in Owing /\ v # "waiting"
    BY DEF Owing
  <2>3. t = "main" => UNCHANGED inserting
    BY <1>9 DEF PipeConnect
  <2> HIDE DEF e
  <2>4. CASE t = "main"
    BY <1>4, <1>7, <1>8, <1>9, <2>1, <2>2, <2>3, <2>4 DEF e
  <2>5. CASE t = "ui"
    BY <1>5, <1>7, <1>8, <1>9, <2>1, <2>2, <2>5 DEF e
  <2> QED
    BY <1>3, <2>4, <2>5
<1>10. CASE PipeConnectBusy(t) /\ ~PipeConnect(t)
  <2>1. /\ status' = [status EXCEPT ![Attempt(t)] = "waiting"]
        /\ UNCHANGED inserting /\ "waiting" \in Owing
    BY <1>10 DEF PipeConnectBusy, loopVars, Owing
  <2> QED
    BY <1>3, <1>6, <1>7, <1>8, <1>10, <2>1
<1> QED
  BY <1>9, <1>10
\* The attempt is owed a callback and not yet registered: neither count is
\* right until it is, and both are wrong by the same number.
LEMMA PipeConnectInv ==
  ASSUME IInv, NEW t \in Threads, PipeConnect(t) \/ PipeConnectBusy(t)
  PROVE  IInv'
<1>1. /\ LoopType(Reqs) /\ ClientType /\ WalkInv /\ PlaceInv /\ StatusInv
      /\ LinkInv /\ WorkInv /\ WritesInv /\ WipedInv /\ CountInv /\ HandleInv
      /\ AttemptsOnTheWay /\ UsableConnection /\ LoopOutlivesIdleWindow
  BY DEF IInv
<1> DEFINE n == Attempt(t)
<1>2. /\ UNCHANGED <<lpc, batch, iocp, active, reqs, endgame, lost>>
      /\ UNCHANGED <<rpcc, reqConnect, tries, sent, reported, overlapped>>
      /\ pipe' = [pipe EXCEPT !.used = TRUE]
  BY DEF PipeConnect, PipeConnectBusy, loopVars
<1>3. n \in Attempts
  BY <1>1, AttemptType
<1>4. /\ LoopType(Reqs)' /\ lpc # "undefined" /\ lpc # "left"
      /\ status[n] = "none" /\ pc \in PcType /\ pc' \in PcType
      /\ status \in StatusType
  BY <1>1, PipeConnectShape DEF ClientType
<1>5. PICK v \in Owing :
        /\ status' = [status EXCEPT ![n] = v]
        /\ \A r \in Reqs : Copies(r)' = Copies(r) + IF v = "waiting" THEN 0
                                                    ELSE Is(ConnectReq(n), r)
        /\ \/ /\ t = "main" /\ pc.main = "connect"
              /\ pc'.main = "register" /\ pc'.ui = pc.ui
              /\ UNCHANGED inserting
           \/ /\ t = "ui" /\ pc.ui = "connect" /\ v # "waiting"
              /\ pc'.ui = "link" /\ pc'.main = pc.main
              /\ inserting = Nobody /\ inserting' # Nobody
              /\ inserting'.req = ConnectReq(n)
           \/ /\ t = "ui" /\ pc.ui = "connect" /\ v = "waiting"
              /\ pc'.ui = "register" /\ pc'.main = pc.main
              /\ UNCHANGED inserting
  BY PipeConnectShape
<1>6. /\ t = "main" => n = 1
      /\ t = "ui" => n = tries /\ tries > 1
  BY <1>1, <1>5 DEF Attempt, StatusInv
<1>7. \A r \in Reqs : r # ConnectReq(n) => Copies(r)' = Copies(r)
  <2> SUFFICES ASSUME NEW r \in Reqs, r # ConnectReq(n)
               PROVE  Copies(r)' = Copies(r)
    OBVIOUS
  <2>1. Is(ConnectReq(n), r) = 0 /\ Copies(r) \in Nat
    BY <1>1, CountsType DEF Is
  <2> QED
    BY <1>5, <2>1
<1>8. ClientType' /\ WalkInv'
  <2>1. pipe' \in PipeType /\ status' \in StatusType
    BY <1>1, <1>2, <1>3, <1>5 DEF ClientType, PipeType, StatusType, Owing
  <2> QED
    BY <1>1, <1>2, <1>4, <2>1 DEF ClientType, WalkInv
<1>9. PlaceInv'
  BY <1>1, <1>2, <1>5 DEF PlaceInv
<1>10. StatusInv'
  <2>1. /\ status'[n] \in Owing
        /\ \A m \in Attempts : m # n => status'[m] = status[m]
    BY <1>3, <1>4, <1>5 DEF StatusType
  <2>2. tries \in Attempts /\ tries \in Nat /\ n <= tries /\ n \in Nat
    BY <1>1, <1>3, <1>6, AttemptNumbers DEF ClientType, Threads
  <2>3. \A m \in Attempts : m > tries => status'[m] = "none"
    BY <1>1, <2>1, <2>2, AttemptNumbers DEF StatusInv
  <2>4. CASE t = "main"
    BY <1>1, <1>2, <1>5, <1>6, <2>1, <2>2, <2>3, <2>4 DEF StatusInv
  <2>5. CASE t = "ui"
    <3>1. pc'.ui = "link" => status'[tries] \in {"opened", "error"}
      BY <1>3, <1>4, <1>5, <1>6, <2>5 DEF StatusType, Owing
    <3>2. status'[1] = status[1]
      BY <1>6, <2>1, <2>5, AttemptNumbers
    <3> QED
      BY <1>1, <1>2, <1>5, <1>6, <2>3, <2>5, <3>1, <3>2 DEF StatusInv
  <2> QED
    BY <2>4, <2>5 DEF Threads
<1>11. LinkInv'
  BY <1>1, <1>2, <1>5, <1>6 DEF LinkInv
<1>12. WipedInv'
  <2>1. pipe'.wiped = pipe.wiped /\ pipe'.conn = pipe.conn
    BY <1>1, <1>2 DEF ClientType, PipeType
  <2> QED
    BY <1>1, <1>5, <2>1 DEF WipedInv
<1>13. WorkInv' /\ WritesInv'
  <2>1. Copies(WorkReq)' = Copies(WorkReq)
    BY <1>7, ReqsMembers, ReqsDiffer
  <2>2. \A k \in 1..MaxWrites : Copies(WriteReq(k))' = Copies(WriteReq(k))
    BY <1>7, ReqsMembers, ReqsDiffer
  <2>3. OpenWrites' = OpenWrites
    BY <2>2 DEF OpenWrites
  <2> QED
    BY <1>1, <1>2, <1>5, <2>1, <2>2, <2>3 DEF WorkInv, WritesInv
<1>14. CountInv' /\ HandleInv'
  <2>1. Cardinality(OwedIn(status')) = Cardinality(OwedIn(status)) + 1
    <3>1. Owes(status[n]) = 0 /\ Owes(v) = 1
      BY <1>4 DEF Owes, Owing
    <3>2. Cardinality(OwedIn(status')) + Owes(status[n])
            = Cardinality(OwedIn(status)) + Owes(v)
      BY <1>3, <1>4, <1>5, OwedChange
    <3> QED
      BY <3>1, <3>2, OwedFinite
  <2>2. Late(pc') = Late(pc) + 1 /\ Window(pc') = Window(pc)
    BY <1>5 DEF Late, Window
  <2>3. Balance' = Balance
    BY <1>1, <1>2, <2>1, <2>2, BalanceType DEF Balance
  <2>4. pipe'.count = pipe.count /\ pipe'.wiped = pipe.wiped
    BY <1>1, <1>2 DEF ClientType, PipeType
  <2>5. Copies(WorkReq)' = Copies(WorkReq)
    BY <1>7, ReqsMembers, ReqsDiffer
  <2> QED
    BY <1>1, <1>2, <2>2, <2>3, <2>4, <2>5 DEF CountInv, HandleInv
<1>15. AttemptsOnTheWay'
  <2> SUFFICES ASSUME NEW m \in Attempts
               PROVE  Copies(ConnectReq(m))' =
                        IF status'[m] \in {"opened", "error", "taken", "failed"}
                        THEN 1 ELSE 0
    BY DEF AttemptsOnTheWay
  <2>1. CASE m = n
    <3>1. Copies(ConnectReq(m)) = 0 /\ Is(ConnectReq(n), ConnectReq(m)) = 1
      BY <1>1, <1>4, <2>1 DEF AttemptsOnTheWay, Is
    <3>2. Copies(ConnectReq(m))' = IF v = "waiting" THEN 0 ELSE 1
      BY <1>5, <3>1, ReqsMembers
    <3>3. status'[m] = v
      BY <1>4, <1>5, <2>1 DEF StatusType
    <3> QED
      BY <3>2, <3>3 DEF Owing
  <2>2. CASE m # n
    <3>1. Copies(ConnectReq(m))' = Copies(ConnectReq(m))
      BY <1>7, <2>2, ReqsMembers, ReqsDiffer
    <3>2. status'[m] = status[m]
      BY <1>3, <1>4, <1>5, <2>2 DEF StatusType
    <3> QED
      BY <1>1, <1>4, <3>1, <3>2 DEF AttemptsOnTheWay
  <2> QED
    BY <2>1, <2>2
<1>16. UsableConnection' /\ LoopOutlivesIdleWindow'
  <2>1. pipe'.conn = pipe.conn
    BY <1>1, <1>2 DEF ClientType, PipeType
  <2> QED
    BY <1>1, <1>2, <1>4, <2>1 DEF UsableConnection, LoopOutlivesIdleWindow
<1> QED
  BY <1>4, <1>8, <1>9, <1>10, <1>11, <1>12, <1>13, <1>14, <1>15, <1>16 DEF IInv

\* Linking the request of an attempt keeps every request where it is, up to the
\* one that makes the behaviour undefined.
LEMMA LinkCopies ==
  ASSUME IInv, LinkConnect
  PROVE  /\ LoopType(Reqs)'
         /\ \A r \in Reqs :
              lpc' # "undefined" \/ r # ConnectReq(tries) =>
                Copies(r)' = Copies(r)
<1>1. /\ LoopType(Reqs) /\ ClientType /\ WalkInv /\ PlaceInv /\ StatusInv
      /\ LinkInv /\ WorkInv /\ WritesInv /\ WipedInv /\ CountInv /\ HandleInv
      /\ AttemptsOnTheWay /\ UsableConnection /\ LoopOutlivesIdleWindow
  BY DEF IInv
<1>2. InsertLink /\ UNCHANGED <<batch, iocp>> /\ lpc # "undefined"
        /\ inserting.req = ConnectReq(tries) /\ tries \in Attempts
  BY <1>1 DEF LinkConnect, Goto, Running, LinkInv, ClientType
<1>3. LoopType(Reqs)'
  BY <1>1, <1>2, LinkType
<1>4. ASSUME NEW r \in Reqs, lpc' # "undefined"
      PROVE  Copies(r)' = Copies(r)
  <2>1. Copies(r) <= 1
    <3>1. CASE r = WorkReq
      BY <1>1, <3>1, CountsType DEF WorkInv
    <3>2. ASSUME NEW n \in Attempts, r = ConnectReq(n) PROVE Copies(r) <= 1
      BY <1>1, <1>2, <3>2 DEF AttemptsOnTheWay
    <3>3. ASSUME NEW k \in 1..MaxWrites, r = WriteReq(k) PROVE Copies(r) <= 1
      BY <1>1, <3>3, CountsType DEF WritesInv
    <3> QED
      BY <3>1, <3>2, <3>3 DEF Reqs
  <2>2. Count(batch, r) \in Nat /\ Copies(r) \in Nat
    BY <1>1, CountsType
  <2>3. Copies(r) <= 1 + Count(batch, r) /\ r # <<>>
    BY <2>1, <2>2, ReqsDiffer DEF Reqs
  <2> QED
    BY <1>1, <1>2, <1>4, <2>3, CopiesLink
<1>5. ASSUME NEW r \in Reqs, r # ConnectReq(tries), lpc' = "undefined"
      PROVE  Copies(r)' = Copies(r)
  <2>1. UNCHANGED <<ring, batch, iocp, lost>> /\ inserting' = Nobody
    BY <1>2, <1>5 DEF InsertLink
  <2>2. Is(inserting.req, r) = 0 /\ Is(inserting.req, r)' = 0
    BY <1>2, <1>5, <2>1, ReqsDiffer DEF Reqs, Is, Nobody
  <2> QED
    BY <2>1, <2>2 DEF Copies
<1> QED
  BY <1>3, <1>4, <1>5

LEMMA LinkConnectInv ==
  ASSUME IInv, LinkConnect
  PROVE  IInv'
<1>1. /\ LoopType(Reqs) /\ ClientType /\ WalkInv /\ PlaceInv /\ StatusInv
      /\ LinkInv /\ WorkInv /\ WritesInv /\ WipedInv /\ CountInv /\ HandleInv
      /\ AttemptsOnTheWay /\ UsableConnection /\ LoopOutlivesIdleWindow
  BY DEF IInv
<1>2. /\ UNCHANGED <<batch, iocp, active, reqs, endgame>>
      /\ UNCHANGED <<rpcc, reqConnect, tries, status, pipe, sent, reported,
                     overlapped>>
      /\ inserting' = Nobody /\ lpc' \in {lpc, "undefined"}
  BY DEF LinkConnect, InsertLink
<1>3. /\ lpc \notin {"left", "undefined"} /\ pc \in PcType /\ pc' \in PcType
      /\ pc.ui = "link" /\ pc'.ui = "register" /\ pc'.main = pc.main
  BY <1>1, GotoUi DEF LinkConnect, ClientType, UiPlaces
<1>4. /\ LoopType(Reqs)'
      /\ \A r \in Reqs : lpc' # "undefined" \/ r # ConnectReq(tries) =>
                           Copies(r)' = Copies(r)
  BY LinkCopies
<1>5. ClientType' /\ WalkInv'
  BY <1>1, <1>2, <1>3 DEF ClientType, WalkInv
<1>6. PlaceInv' /\ StatusInv' /\ LinkInv' /\ WipedInv'
  BY <1>1, <1>2, <1>3 DEF PlaceInv, StatusInv, LinkInv, WipedInv, Owing
<1>7. WorkInv' /\ WritesInv'
  <2>1. Copies(WorkReq)' = Copies(WorkReq)
    BY <1>4, ReqsMembers, ReqsDiffer
  <2>2. \A k \in 1..MaxWrites : Copies(WriteReq(k))' = Copies(WriteReq(k))
    BY <1>4, ReqsMembers, ReqsDiffer
  <2>3. OpenWrites' = OpenWrites
    BY <2>2 DEF OpenWrites
  <2> QED
    BY <1>1, <1>2, <1>3, <2>1, <2>2, <2>3 DEF WorkInv, WritesInv
<1>8. CountInv' /\ HandleInv'
  <2>1. Late(pc') = Late(pc) /\ Window(pc') = Window(pc)
    BY <1>3 DEF Late, Window
  <2>2. Balance' = Balance
    BY <1>2, <2>1 DEF Balance
  <2>3. Copies(WorkReq)' = Copies(WorkReq)
    BY <1>4, ReqsMembers, ReqsDiffer
  <2> QED
    BY <1>1, <1>2, <2>1, <2>2, <2>3 DEF CountInv, HandleInv
<1>9. AttemptsOnTheWay'
  BY <1>1, <1>2, <1>3, <1>4, ReqsMembers DEF AttemptsOnTheWay
<1>10. UsableConnection' /\ LoopOutlivesIdleWindow'
  BY <1>1, <1>2, <1>3 DEF UsableConnection, LoopOutlivesIdleWindow
<1> QED
  BY <1>4, <1>5, <1>6, <1>7, <1>8, <1>9, <1>10 DEF IInv

\* A request is counted by the loop and by the handle in one step; the thread
\* of run() then enters uv_run.
LEMMA RegisterInv ==
  ASSUME IInv,
         RegisterConnect("main") \/ RegisterConnect("ui") \/ RegisterWrite
  PROVE  IInv'
<1>1. /\ LoopType(Reqs) /\ ClientType /\ WalkInv /\ PlaceInv /\ StatusInv
      /\ LinkInv /\ WorkInv /\ WritesInv /\ WipedInv /\ CountInv /\ HandleInv
      /\ AttemptsOnTheWay /\ UsableConnection /\ LoopOutlivesIdleWindow
  BY DEF IInv
<1>2. /\ UNCHANGED <<ring, batch, iocp, endgame, inserting, lost>>
      /\ UNCHANGED <<rpcc, reqConnect, tries, status, sent, reported,
                     overlapped>>
      /\ Register
  BY DEF RegisterConnect, RegisterWrite
<1>3. LoopType(Reqs)' /\ \A r : Copies(r)' = Copies(r)
  BY <1>1, <1>2, QuietCopies
<1>4. /\ lpc \notin {"left", "undefined"} /\ pc \in PcType /\ pc' \in PcType
      /\ \/ /\ pc.main = "register" /\ pc'.main = "run" /\ pc'.ui = pc.ui
            /\ lpc' = "check" /\ lpc = "before"
         \/ /\ pc.ui \in {"register", "wrote"} /\ pc'.ui = "idle"
            /\ pc'.main = pc.main /\ lpc' = lpc
  <2>1. CASE RegisterConnect("main")
    BY <1>1, <2>1, GotoMain DEF RegisterConnect, ClientType, MainPlaces, PlaceInv
  <2>2. CASE RegisterConnect("ui")
    BY <1>1, <2>2, GotoUi DEF RegisterConnect, ClientType, UiPlaces
  <2>3. CASE RegisterWrite
    BY <1>1, <2>3, GotoUi DEF RegisterWrite, ClientType, UiPlaces
  <2> QED
    BY <2>1, <2>2, <2>3
<1>5. /\ pipe.wiped # None /\ pipe \in PipeType /\ pipe.wiped \in Attempts
      /\ pipe.count \in Int
  BY <1>1, <1>4 DEF ClientType, WipedInv, PipeType
<1>6. /\ pipe' \in PipeType /\ pipe'.count = pipe.count + 1
      /\ pipe'.wiped = pipe.wiped /\ pipe'.conn = pipe.conn
      /\ active' = IF pipe.count = 0 THEN active \cup {<<"pipe", pipe.wiped>>}
                                     ELSE active
      /\ reqs' = reqs + 1
  BY <1>2, <1>5 DEF Register, PipeType
<1>7. ClientType' /\ WalkInv'
  <2>1. <<"pipe", pipe.wiped>> \in {"pipe"} \X Attempts
    BY <1>5
  <2>2. active' \subseteq {"pipe"} \X Attempts
    BY <1>1, <1>6, <2>1 DEF ClientType
  <2> QED
    BY <1>1, <1>2, <1>4, <1>6, <2>2 DEF ClientType, WalkInv
<1>8. PlaceInv' /\ StatusInv' /\ LinkInv' /\ WipedInv'
  BY <1>1, <1>2, <1>4, <1>5, <1>6 DEF PlaceInv, StatusInv, LinkInv, WipedInv
<1>9. WorkInv' /\ WritesInv'
  <2>1. OpenWrites' = OpenWrites
    BY <1>3 DEF OpenWrites
  <2> QED
    BY <1>1, <1>2, <1>3, <1>4, <2>1 DEF WorkInv, WritesInv
<1>10. CountInv' /\ HandleInv'
  <2>1. Late(pc') = Late(pc) - 1 /\ Window(pc') = Window(pc)
    BY <1>4 DEF Late, Window
  <2>2. Balance' = Balance + 1
    BY <1>1, <1>2, <2>1, BalanceType DEF Balance
  <2>3. CountInv'
    BY <1>1, <1>3, <1>6, <2>1, <2>2, BalanceType, CountsType DEF CountInv
  <2>4. HandleInv'
    <3> SUFFICES ASSUME ~overlapped
                 PROVE  /\ pipe'.count = Balance'
                        /\ active' # {} <=> pipe'.count > 0
                        /\ active' \subseteq {<<"pipe", pipe'.wiped>>}
      BY <1>2 DEF HandleInv
    <3>1. /\ pipe.count = Balance /\ (active # {} <=> pipe.count > 0)
          /\ active \subseteq {<<"pipe", pipe.wiped>>}
      BY <1>1 DEF HandleInv
    <3>2. CASE pipe.count = 0
      <4>1. active = {} /\ pipe'.count = 1
        BY <1>6, <3>1, <3>2
      <4>2. active' = {<<"pipe", pipe.wiped>>}
        BY <1>6, <3>2, <4>1
      <4> QED
        BY <1>6, <2>2, <3>1, <3>2, <4>1, <4>2
    <3>3. CASE pipe.count # 0
      BY <1>5, <1>6, <2>2, <3>1, <3>3
    <3> QED
      BY <3>2, <3>3
  <2> QED
    BY <2>3, <2>4
<1>11. AttemptsOnTheWay'
  BY <1>1, <1>2, <1>3, <1>4 DEF AttemptsOnTheWay
<1>12. UsableConnection' /\ LoopOutlivesIdleWindow'
  BY <1>1, <1>2, <1>4, <1>6 DEF UsableConnection, LoopOutlivesIdleWindow
<1> QED
  BY <1>3, <1>7, <1>8, <1>9, <1>10, <1>11, <1>12 DEF IInv

-------------------------------------------------------------------------------
(* Requests that complete through the port. *)

\* The thread that waits for a busy pipe ends: the attempt stays owed.
LEMMA BusyEndsInv ==
  ASSUME IInv, NEW n \in Attempts, BusyEnds(n)
  PROVE  IInv'
<1>1. /\ LoopType(Reqs) /\ ClientType /\ WalkInv /\ PlaceInv /\ StatusInv
      /\ LinkInv /\ WorkInv /\ WritesInv /\ WipedInv /\ CountInv /\ HandleInv
      /\ AttemptsOnTheWay /\ UsableConnection /\ LoopOutlivesIdleWindow
  BY DEF IInv
<1>2. /\ UNCHANGED <<lpc, ring, batch, active, reqs, endgame, inserting, lost>>
      /\ UNCHANGED <<pc, rpcc, reqConnect, tries, pipe, sent, reported,
                     overlapped>>
      /\ lpc \notin {"left", "undefined"} /\ status[n] = "waiting"
      /\ Post(ConnectReq(n))
  BY DEF BusyEnds, Running
<1>3. PICK v \in {"opened", "error"} : status' = [status EXCEPT ![n] = v]
  BY DEF BusyEnds
<1>4. LoopType(Reqs)' /\ \A r : Copies(r)' = Copies(r) + Is(ConnectReq(n), r)
  BY <1>1, <1>2, CopiesPost, ReqsMembers
<1>5. \A r : r # ConnectReq(n) => Copies(r)' = Copies(r)
  BY <1>1, <1>4, CountsType DEF Is
<1>6. /\ status \in StatusType /\ status' \in StatusType /\ status'[n] = v
      /\ \A m \in Attempts : m # n => status'[m] = status[m]
  BY <1>1, <1>3 DEF ClientType, StatusType
<1>7. ClientType' /\ WalkInv' /\ PlaceInv' /\ LinkInv' /\ WipedInv'
  BY <1>1, <1>2, <1>6 DEF ClientType, WalkInv, PlaceInv, LinkInv, WipedInv
<1>8. StatusInv'
  <2>1. tries \in Attempts /\ 1 \in Attempts
    BY <1>1, AttemptNumbers DEF ClientType
  <2> QED
    BY <1>1, <1>2, <1>6, <2>1 DEF StatusInv, Owing
<1>9. WorkInv' /\ WritesInv'
  <2>1. Copies(WorkReq)' = Copies(WorkReq)
    BY <1>5, ReqsDiffer
  <2>2. \A k \in 1..MaxWrites : Copies(WriteReq(k))' = Copies(WriteReq(k))
    BY <1>5, ReqsDiffer
  <2>3. OpenWrites' = OpenWrites
    BY <2>2 DEF OpenWrites
  <2> QED
    BY <1>1, <1>2, <2>1, <2>2, <2>3 DEF WorkInv, WritesInv
<1>10. CountInv' /\ HandleInv'
  <2>1. OwedIn(status') = OwedIn(status)
    BY <1>2, <1>6 DEF OwedIn, Owing
  <2>2. Balance' = Balance
    BY <1>2, <2>1 DEF Balance
  <2>3. Copies(WorkReq)' = Copies(WorkReq)
    BY <1>5, ReqsDiffer
  <2> QED
    BY <1>1, <1>2, <2>2, <2>3 DEF CountInv, HandleInv
<1>11. AttemptsOnTheWay'
  <2> SUFFICES ASSUME NEW m \in Attempts
               PROVE  Copies(ConnectReq(m))' =
                        IF status'[m] \in {"opened", "error", "taken", "failed"}
                        THEN 1 ELSE 0
    BY DEF AttemptsOnTheWay
  <2>1. CASE m = n
    <3>1. Copies(ConnectReq(m)) = 0 /\ Is(ConnectReq(n), ConnectReq(m)) = 1
      BY <1>1, <1>2, <2>1 DEF AttemptsOnTheWay, Is
    <3> QED
      BY <1>4, <1>6, <2>1, <3>1
  <2>2. CASE m # n
    <3>1. Copies(ConnectReq(m))' = Copies(ConnectReq(m))
      BY <1>5, <2>2, ReqsDiffer
    <3> QED
      BY <1>1, <1>2, <1>6, <2>2, <3>1 DEF AttemptsOnTheWay
  <2> QED
    BY <2>1, <2>2
<1>12. UsableConnection' /\ LoopOutlivesIdleWindow'
  BY <1>1, <1>2 DEF UsableConnection, LoopOutlivesIdleWindow
<1> QED
  BY <1>4, <1>7, <1>8, <1>9, <1>10, <1>11, <1>12 DEF IInv

\* A message goes to the port before it is registered.
LEMMA ClickWritesInv ==
  ASSUME IInv, ClickWrites
  PROVE  IInv'
<1>1. /\ LoopType(Reqs) /\ ClientType /\ WalkInv /\ PlaceInv /\ StatusInv
      /\ LinkInv /\ WorkInv /\ WritesInv /\ WipedInv /\ CountInv /\ HandleInv
      /\ AttemptsOnTheWay /\ UsableConnection /\ LoopOutlivesIdleWindow
  BY DEF IInv
<1> DEFINE k == sent + 1
<1>2. /\ UNCHANGED <<lpc, ring, batch, active, reqs, endgame, inserting, lost>>
      /\ UNCHANGED <<rpcc, reqConnect, tries, status, pipe, reported,
                     overlapped>>
      /\ sent' = k /\ k \in 1..MaxWrites /\ sent \in 0..MaxWrites
      /\ sent \in Nat /\ rpcc /\ pipe.conn # None /\ Post(WriteReq(k))
  BY <1>1, AttemptNumbers DEF ClickWrites, ClientType
<1>3. /\ lpc \notin {"left", "undefined"} /\ pc \in PcType /\ pc' \in PcType
      /\ pc.ui = "idle" /\ pc'.ui = "wrote" /\ pc'.main = pc.main
  BY <1>1, GotoUi DEF ClickWrites, ClientType, UiPlaces
<1> HIDE DEF k
<1>4. LoopType(Reqs)' /\ \A r : Copies(r)' = Copies(r) + Is(WriteReq(k), r)
  BY <1>1, <1>2, CopiesPost, ReqsMembers
<1>5. \A r : r # WriteReq(k) => Copies(r)' = Copies(r)
  BY <1>1, <1>4, CountsType DEF Is
<1>6. ClientType' /\ WalkInv'
  <2>1. sent' \in 0..MaxWrites
    BY <1>2, AttemptNumbers
  <2> QED
    BY <1>1, <1>2, <1>3, <2>1 DEF ClientType, WalkInv
<1>7. PlaceInv' /\ StatusInv' /\ LinkInv' /\ WipedInv'
  BY <1>1, <1>2, <1>3 DEF PlaceInv, StatusInv, LinkInv, WipedInv
<1>8. WorkInv'
  <2>1. Copies(WorkReq)' = Copies(WorkReq)
    BY <1>5, ReqsDiffer
  <2> QED
    BY <1>1, <1>3, <2>1 DEF WorkInv
<1>9. \A j \in 1..MaxWrites :
        /\ Copies(WriteReq(j)) \in Nat
        /\ j = k => Copies(WriteReq(j)) = 0 /\ Copies(WriteReq(j))' = 1
        /\ j # k => Copies(WriteReq(j))' = Copies(WriteReq(j))
  <2> SUFFICES ASSUME NEW j \in 1..MaxWrites
               PROVE  /\ Copies(WriteReq(j)) \in Nat
                      /\ j = k => /\ Copies(WriteReq(j)) = 0
                                  /\ Copies(WriteReq(j))' = 1
                      /\ j # k => Copies(WriteReq(j))' = Copies(WriteReq(j))
    OBVIOUS
  <2>1. Copies(WriteReq(j)) \in Nat
    BY <1>1, CountsType
  <2>2. j # k => Copies(WriteReq(j))' = Copies(WriteReq(j))
    BY <1>5, ReqsDiffer
  <2>3. ASSUME j = k
        PROVE  Copies(WriteReq(j)) = 0 /\ Copies(WriteReq(j))' = 1
    <3>1. ~(j <= sent)
      BY <1>2, <2>3 DEF k
    <3>2. Copies(WriteReq(j)) = 0
      BY <1>1, <2>1, <3>1 DEF WritesInv
    <3>3. Is(WriteReq(k), WriteReq(j)) = 1
      BY <2>3 DEF Is
    <3> QED
      BY <1>4, <3>2, <3>3
  <2> QED
    BY <2>1, <2>2, <2>3
<1>10. WritesInv'
  <2>1. Cardinality(OpenWrites') = Cardinality(OpenWrites) + 1
    <3>1. OpenWrites' = {j \in 1..MaxWrites : Copies(WriteReq(j))' = 1}
      BY DEF OpenWrites
    <3>2. OpenWrites' = OpenWrites \cup {k} /\ k \notin OpenWrites
      BY <1>2, <1>9, <3>1 DEF OpenWrites
    <3> QED
      BY <3>2, OpenWritesFinite, FS_AddElement
  <2>2. \A j \in 1..MaxWrites : Copies(WriteReq(j))' <= IF j <= sent' THEN 1 ELSE 0
    <3> SUFFICES ASSUME NEW j \in 1..MaxWrites
                 PROVE  Copies(WriteReq(j))' <= IF j <= sent' THEN 1 ELSE 0
      OBVIOUS
    <3>1. CASE j = k
      BY <1>2, <1>9, <3>1
    <3>2. CASE j # k
      <4>1. Copies(WriteReq(j))' <= IF j <= sent THEN 1 ELSE 0
        BY <1>1, <1>9, <3>2 DEF WritesInv
      <4>2. j <= sent => j <= sent'
        BY <1>2 DEF k
      <4> QED
        BY <1>9, <3>2, <4>1, <4>2
    <3> QED
      BY <3>1, <3>2
  <2>3. sent' - reported' = (sent - reported) + 1
    BY <1>1, <1>2, BalanceType DEF k
  <2> QED
    BY <1>1, <2>1, <2>2, <2>3 DEF WritesInv
<1>11. CountInv' /\ HandleInv'
  <2>1. Late(pc') = Late(pc) + 1 /\ Window(pc') = Window(pc)
    BY <1>3 DEF Late, Window
  <2>2. Balance' = Balance
    BY <1>1, <1>2, <2>1, BalanceType DEF Balance, k
  <2>3. Copies(WorkReq)' = Copies(WorkReq)
    BY <1>5, ReqsDiffer
  <2> QED
    BY <1>1, <1>2, <2>1, <2>2, <2>3 DEF CountInv, HandleInv
<1>12. AttemptsOnTheWay'
  <2>1. \A n \in Attempts : Copies(ConnectReq(n))' = Copies(ConnectReq(n))
    BY <1>5, ReqsDiffer
  <2> QED
    BY <1>1, <1>2, <1>3, <2>1 DEF AttemptsOnTheWay
<1>13. UsableConnection' /\ LoopOutlivesIdleWindow'
  BY <1>1, <1>2, <1>3 DEF UsableConnection, LoopOutlivesIdleWindow
<1> QED
  BY <1>4, <1>6, <1>7, <1>8, <1>10, <1>11, <1>12, <1>13 DEF IInv

\* The window is closed: its work is a completion instead.
LEMMA CloseWindowInv ==
  ASSUME IInv, CloseWindow
  PROVE  IInv'
<1>1. /\ LoopType(Reqs) /\ ClientType /\ WalkInv /\ PlaceInv /\ StatusInv
      /\ LinkInv /\ WorkInv /\ WritesInv /\ WipedInv /\ CountInv /\ HandleInv
      /\ AttemptsOnTheWay /\ UsableConnection /\ LoopOutlivesIdleWindow
  BY DEF IInv
<1>2. /\ UNCHANGED <<lpc, ring, batch, active, reqs, endgame, inserting, lost>>
      /\ UNCHANGED <<rpcc, reqConnect, tries, status, pipe, sent, reported,
                     overlapped>>
      /\ Post(WorkReq)
  BY DEF CloseWindow
<1>3. /\ lpc \notin {"left", "undefined"} /\ pc \in PcType /\ pc' \in PcType
      /\ pc.ui = "idle" /\ pc'.ui = "closed" /\ pc'.main = pc.main
  BY <1>1, GotoUi DEF CloseWindow, ClientType, UiPlaces
<1>4. LoopType(Reqs)' /\ \A r : Copies(r)' = Copies(r) + Is(WorkReq, r)
  BY <1>1, <1>2, CopiesPost, ReqsMembers
<1>5. \A r : r # WorkReq => Copies(r)' = Copies(r)
  BY <1>1, <1>4, CountsType DEF Is
<1>6. Copies(WorkReq) = 0 /\ Copies(WorkReq)' = 1
  <2>1. Copies(WorkReq) \in Nat /\ Is(WorkReq, WorkReq) = 1
    BY <1>1, CountsType DEF Is
  <2>2. Copies(WorkReq) = 0
    BY <1>1, <1>3, <2>1 DEF WorkInv
  <2> QED
    BY <1>4, <2>1, <2>2
<1>7. ClientType' /\ WalkInv' /\ PlaceInv' /\ StatusInv' /\ LinkInv' /\ WipedInv'
  BY <1>1, <1>2, <1>3 DEF ClientType, WalkInv, PlaceInv, StatusInv, LinkInv,
     WipedInv
<1>8. WorkInv' /\ WritesInv'
  <2>1. \A k \in 1..MaxWrites : Copies(WriteReq(k))' = Copies(WriteReq(k))
    BY <1>5, ReqsDiffer
  <2>2. OpenWrites' = OpenWrites
    BY <2>1 DEF OpenWrites
  <2> QED
    BY <1>1, <1>2, <1>3, <1>6, <2>1, <2>2 DEF WorkInv, WritesInv
<1>9. CountInv' /\ HandleInv'
  <2>1. Late(pc') = Late(pc) /\ Window(pc') = 0 /\ Window(pc) = 1
    BY <1>3 DEF Late, Window
  <2>2. Balance' = Balance
    BY <1>2, <2>1 DEF Balance
  <2>3. CountInv'
    BY <1>1, <1>2, <1>6, <2>1, <2>2, BalanceType DEF CountInv
  <2> QED
    BY <1>1, <1>2, <2>2, <2>3 DEF HandleInv
<1>10. AttemptsOnTheWay'
  <2>1. \A n \in Attempts : Copies(ConnectReq(n))' = Copies(ConnectReq(n))
    BY <1>5, ReqsDiffer
  <2> QED
    BY <1>1, <1>2, <1>3, <2>1 DEF AttemptsOnTheWay
<1>11. UsableConnection' /\ LoopOutlivesIdleWindow'
  BY <1>1, <1>2, <1>3 DEF UsableConnection, LoopOutlivesIdleWindow
<1> QED
  BY <1>4, <1>7, <1>8, <1>9, <1>10, <1>11 DEF IInv
-------------------------------------------------------------------------------
(* The callbacks. *)

\* A callback uses up its own request.
LEMMA CallbackCopies ==
  ASSUME IInv, NEW e, Processing(e), UNCHANGED <<lpc, ring, iocp, inserting, lost>>
  PROVE  /\ LoopType(Reqs)' /\ WalkInv' /\ pc.main = "run"
         /\ lpc \notin {"before", "left", "undefined"}
         /\ Head(batch) = e /\ batch # <<>>
         /\ Copies(e) >= 1 /\ Copies(e)' = Copies(e) - 1
         /\ \A r : r # e => Copies(r)' = Copies(r)
         /\ \A r : Copies(r) \in Nat
<1>1. LoopType(Reqs) /\ PlaceInv
  BY DEF IInv
<1>2. /\ lpc \in {"process", "process_more"} /\ batch # <<>>
      /\ Head(batch) = e /\ batch' = Tail(batch)
  BY DEF Processing
<1>3. pc.main = "run" /\ WalkInv'
  BY <1>1, <1>2 DEF PlaceInv, WalkInv
<1> QED
  BY <1>1, <1>2, <1>3, CopiesProcessed

\* The head of the list that is walked is on its way to its callback, and the
\* UI thread is not in the middle of inserting it.
LEMMA HeadCopies ==
  ASSUME IInv, lpc # "undefined", batch # <<>>, NEW n \in Attempts,
         Head(batch) = ConnectReq(n)
  PROVE  /\ status[n] \in {"opened", "error", "taken", "failed"}
         /\ inserting.req # ConnectReq(n)
<1>1. /\ LoopType(Reqs) /\ ClientType /\ WalkInv /\ PlaceInv /\ StatusInv
      /\ LinkInv /\ WorkInv /\ WritesInv /\ WipedInv /\ CountInv /\ HandleInv
      /\ AttemptsOnTheWay /\ UsableConnection /\ LoopOutlivesIdleWindow
  BY DEF IInv
<1>2. /\ Count(batch, ConnectReq(n))
           = Is(Head(batch), ConnectReq(n)) + Count(Tail(batch), ConnectReq(n))
      /\ Tail(batch) \in Seq(Reqs)
  BY <1>1, CountTail DEF LoopType
<1>3. Count(Tail(batch), ConnectReq(n)) \in Nat
  BY <1>2, AtFinite
<1>4. Is(Head(batch), ConnectReq(n)) = 1
  BY DEF Is
<1>5. Count(batch, ConnectReq(n)) >= 1
  BY <1>2, <1>3, <1>4
<1>6. /\ Copies(ConnectReq(n)) \in Nat
      /\ Copies(ConnectReq(n)) >= 1 + Is(inserting.req, ConnectReq(n))
  BY <1>1, <1>5, CountsType DEF Copies
<1>7. Copies(ConnectReq(n)) =
        IF status[n] \in {"opened", "error", "taken", "failed"} THEN 1 ELSE 0
  BY <1>1 DEF AttemptsOnTheWay
<1>8. Is(inserting.req, ConnectReq(n)) \in {0, 1}
  BY DEF Is
<1>9. Is(inserting.req, ConnectReq(n)) = 0
  BY <1>6, <1>7, <1>8
<1> QED
  BY <1>6, <1>7, <1>8, <1>9 DEF Is

\* A request is no longer counted, by the loop and by the handle.
LEMMA UnregisterHandle ==
  ASSUME IInv, Unregister, overlapped' = overlapped, Balance' = Balance - 1
  PROVE  /\ active' \subseteq {"pipe"} \X Attempts /\ pipe' \in PipeType
         /\ pipe'.wiped = pipe.wiped /\ pipe'.conn = pipe.conn
         /\ HandleInv' /\ reqs' = reqs - 1
<1>1. /\ LoopType(Reqs) /\ ClientType /\ WalkInv /\ PlaceInv /\ StatusInv
      /\ LinkInv /\ WorkInv /\ WritesInv /\ WipedInv /\ CountInv /\ HandleInv
      /\ AttemptsOnTheWay /\ UsableConnection /\ LoopOutlivesIdleWindow
  BY DEF IInv
<1>2. pipe \in PipeType /\ pipe.count \in Int
  BY <1>1 DEF ClientType, PipeType
<1>3. /\ pipe' \in PipeType /\ pipe'.count = pipe.count - 1
      /\ pipe'.wiped = pipe.wiped /\ pipe'.conn = pipe.conn
      /\ active' = IF pipe.count = 1 THEN active \ {<<"pipe", pipe.wiped>>}
                                     ELSE active
      /\ reqs' = reqs - 1
  BY <1>2 DEF Unregister, PipeType
<1>4. active' \subseteq {"pipe"} \X Attempts
  BY <1>1, <1>3 DEF ClientType
<1>5. HandleInv'
  <2> SUFFICES ASSUME ~overlapped
               PROVE  /\ pipe'.count = Balance'
                      /\ active' # {} <=> pipe'.count > 0
                      /\ active' \subseteq {<<"pipe", pipe'.wiped>>}
    BY DEF HandleInv
  <2>1. /\ pipe.count = Balance /\ (active # {} <=> pipe.count > 0)
        /\ active \subseteq {<<"pipe", pipe.wiped>>}
    BY <1>1 DEF HandleInv
  <2>2. CASE pipe.count = 1
    <3>1. active' = {} /\ pipe'.count = 0
      BY <1>3, <2>1, <2>2
    <3> QED
      BY <2>1, <2>2, <3>1
  <2>3. CASE pipe.count # 1
    BY <1>2, <1>3, <2>1, <2>3
  <2> QED
    BY <2>2, <2>3
<1> QED
  BY <1>3, <1>4, <1>5

\* The first part of the callback of an attempt.
LEMMA ConnectTakenInv ==
  ASSUME IInv, NEW n \in Attempts, ConnectTaken(n)
  PROVE  IInv'
<1>1. /\ LoopType(Reqs) /\ ClientType /\ WalkInv /\ PlaceInv /\ StatusInv
      /\ LinkInv /\ WorkInv /\ WritesInv /\ WipedInv /\ CountInv /\ HandleInv
      /\ AttemptsOnTheWay /\ UsableConnection /\ LoopOutlivesIdleWindow
  BY DEF IInv
<1>2. /\ UNCHANGED <<lpc, ring, batch, iocp, endgame, inserting, lost>>
      /\ UNCHANGED <<pc, rpcc, reqConnect, tries, sent, reported, overlapped>>
      /\ lpc \in {"process", "process_more"} /\ batch # <<>>
      /\ Head(batch) = ConnectReq(n) /\ status[n] \in {"opened", "error"}
      /\ status' = [status EXCEPT ![n] = IF @ = "opened" THEN "taken"
                                                         ELSE "failed"]
      /\ Unregister
  BY DEF ConnectTaken
<1>3. LoopType(Reqs)' /\ \A r : Copies(r)' = Copies(r)
  BY <1>1, <1>2, QuietCopies
<1>4. /\ status \in StatusType /\ status' \in StatusType
      /\ status'[n] \in {"taken", "failed"}
      /\ \A m \in Attempts : m # n => status'[m] = status[m]
  BY <1>1, <1>2 DEF ClientType, StatusType
<1>5. pc.main = "run"
  BY <1>1, <1>2 DEF PlaceInv
<1>6. Balance' = Balance - 1
  <2>1. PICK v \in {"taken", "failed"} : status' = [status EXCEPT ![n] = v]
    BY <1>1, <1>2 DEF ClientType, StatusType
  <2>2. Owes(status[n]) = 1 /\ Owes(v) = 0
    BY <1>2 DEF Owes, Owing
  <2>3. Cardinality(OwedIn(status')) + Owes(status[n])
          = Cardinality(OwedIn(status)) + Owes(v)
    BY <1>4, <2>1, OwedChange
  <2>4. Cardinality(OwedIn(status')) = Cardinality(OwedIn(status)) - 1
    BY <2>2, <2>3, OwedFinite
  <2>5. Balance' = Cardinality(OwedIn(status')) + (sent - reported) - Late(pc)
    BY <1>2 DEF Balance
  <2> QED
    BY <1>1, <2>4, <2>5, BalanceType DEF Balance
<1>7. /\ active' \subseteq {"pipe"} \X Attempts /\ pipe' \in PipeType
      /\ pipe'.wiped = pipe.wiped /\ pipe'.conn = pipe.conn
      /\ HandleInv' /\ reqs' = reqs - 1
  BY <1>2, <1>6, UnregisterHandle
<1>8. ClientType' /\ WalkInv' /\ PlaceInv' /\ LinkInv' /\ WipedInv'
  BY <1>1, <1>2, <1>4, <1>7 DEF ClientType, WalkInv, PlaceInv, LinkInv, WipedInv
<1>9. StatusInv'
  <2>1. tries \in Attempts
    BY <1>1 DEF ClientType
  <2>2. pc.ui = "link" => n # tries
    BY <1>1, <1>2, HeadCopies DEF LinkInv
  <2> QED
    BY <1>1, <1>2, <1>4, <1>5, <2>1, <2>2 DEF StatusInv
<1>10. WorkInv' /\ WritesInv'
  <2>1. OpenWrites' = OpenWrites
    BY <1>3 DEF OpenWrites
  <2> QED
    BY <1>1, <1>2, <1>3, <2>1 DEF WorkInv, WritesInv
<1>11. CountInv'
  <2>1. Copies(WorkReq)' = Copies(WorkReq) /\ Copies(WorkReq) \in Nat
    BY <1>1, <1>3, CountsType
  <2> QED
    BY <1>1, <1>2, <1>6, <1>7, <2>1, BalanceType DEF CountInv
<1>12. AttemptsOnTheWay'
  BY <1>1, <1>2, <1>3, <1>4 DEF AttemptsOnTheWay
<1>13. UsableConnection' /\ LoopOutlivesIdleWindow'
  BY <1>1, <1>2, <1>7 DEF UsableConnection, LoopOutlivesIdleWindow
<1> QED
  BY <1>3, <1>7, <1>8, <1>9, <1>10, <1>11, <1>12, <1>13 DEF IInv
\* The second part: on_connect remembers the request if its pipe is in the
\* handle now.
LEMMA ConnectReportedInv ==
  ASSUME IInv, NEW n \in Attempts, ConnectReported(n)
  PROVE  IInv'
<1>1. /\ LoopType(Reqs) /\ ClientType /\ WalkInv /\ PlaceInv /\ StatusInv
      /\ LinkInv /\ WorkInv /\ WritesInv /\ WipedInv /\ CountInv /\ HandleInv
      /\ AttemptsOnTheWay /\ UsableConnection /\ LoopOutlivesIdleWindow
  BY DEF IInv
<1>2. /\ UNCHANGED <<lpc, ring, iocp, active, reqs, endgame, inserting, lost>>
      /\ UNCHANGED <<pc, rpcc, tries, sent, reported, overlapped>>
      /\ Processing(ConnectReq(n)) /\ status[n] \in {"taken", "failed"}
      /\ status' = [status EXCEPT ![n] = "reported"]
  BY DEF ConnectReported
<1>3. /\ LoopType(Reqs)' /\ WalkInv' /\ pc.main = "run"
      /\ lpc \notin {"before", "left", "undefined"}
      /\ Copies(ConnectReq(n))' = Copies(ConnectReq(n)) - 1
      /\ \A r : r # ConnectReq(n) => Copies(r)' = Copies(r)
  BY <1>2, CallbackCopies
<1>4. /\ status \in StatusType /\ status' \in StatusType
      /\ status'[n] = "reported"
      /\ \A m \in Attempts : m # n => status'[m] = status[m]
  BY <1>1, <1>2 DEF ClientType, StatusType
<1>5. /\ pipe' \in PipeType /\ pipe'.wiped = pipe.wiped
      /\ pipe'.count = pipe.count
      /\ \/ pipe'.conn = n /\ reqConnect' = n
         \/ pipe'.conn = pipe.conn /\ reqConnect' = reqConnect
  <2>1. pipe \in PipeType
    BY <1>1 DEF ClientType
  <2>2. \/ pipe' = [pipe EXCEPT !.conn = n] /\ reqConnect' = n
        \/ pipe' = pipe /\ reqConnect' = reqConnect
    BY DEF ConnectReported
  <2> QED
    BY <2>1, <2>2 DEF PipeType
<1>6. ClientType' /\ PlaceInv' /\ LinkInv'
  BY <1>1, <1>2, <1>4, <1>5 DEF ClientType, PlaceInv, LinkInv
<1>7. StatusInv'
  <2>1. tries \in Attempts
    BY <1>1 DEF ClientType
  <2> QED
    BY <1>1, <1>2, <1>3, <1>4, <2>1 DEF StatusInv
<1>8. WipedInv'
  BY <1>1, <1>2, <1>3, <1>5 DEF WipedInv
<1>9. WorkInv' /\ WritesInv'
  <2>1. Copies(WorkReq)' = Copies(WorkReq)
    BY <1>3, ReqsDiffer
  <2>2. \A k \in 1..MaxWrites : Copies(WriteReq(k))' = Copies(WriteReq(k))
    BY <1>3, ReqsDiffer
  <2>3. OpenWrites' = OpenWrites
    BY <2>2 DEF OpenWrites
  <2> QED
    BY <1>1, <1>2, <2>1, <2>2, <2>3 DEF WorkInv, WritesInv
<1>10. CountInv' /\ HandleInv'
  <2>1. OwedIn(status') = OwedIn(status)
    BY <1>2, <1>4 DEF OwedIn, Owing
  <2>2. Balance' = Balance
    BY <1>2, <2>1 DEF Balance
  <2>3. Copies(WorkReq)' = Copies(WorkReq)
    BY <1>3, ReqsDiffer
  <2> QED
    BY <1>1, <1>2, <1>5, <2>2, <2>3 DEF CountInv, HandleInv
<1>11. AttemptsOnTheWay'
  <2> SUFFICES ASSUME NEW m \in Attempts
               PROVE  Copies(ConnectReq(m))' =
                        IF status'[m] \in {"opened", "error", "taken", "failed"}
                        THEN 1 ELSE 0
    BY DEF AttemptsOnTheWay
  <2>1. CASE m = n
    <3>1. Copies(ConnectReq(m)) = 1
      BY <1>1, <1>2, <1>3, <2>1 DEF AttemptsOnTheWay
    <3> QED
      BY <1>3, <1>4, <2>1, <3>1
  <2>2. CASE m # n
    <3>1. Copies(ConnectReq(m))' = Copies(ConnectReq(m))
      BY <1>3, <2>2, ReqsDiffer
    <3> QED
      BY <1>1, <1>3, <1>4, <2>2, <3>1 DEF AttemptsOnTheWay
  <2> QED
    BY <2>1, <2>2
<1>12. UsableConnection' /\ LoopOutlivesIdleWindow'
  BY <1>1, <1>2, <1>3, <1>5 DEF UsableConnection, LoopOutlivesIdleWindow
<1> QED
  BY <1>3, <1>6, <1>7, <1>8, <1>9, <1>10, <1>11, <1>12 DEF IInv

LEMMA WriteReportedInv ==
  ASSUME IInv, NEW k \in 1..MaxWrites, WriteReported(k)
  PROVE  IInv'
<1>1. /\ LoopType(Reqs) /\ ClientType /\ WalkInv /\ PlaceInv /\ StatusInv
      /\ LinkInv /\ WorkInv /\ WritesInv /\ WipedInv /\ CountInv /\ HandleInv
      /\ AttemptsOnTheWay /\ UsableConnection /\ LoopOutlivesIdleWindow
  BY DEF IInv
<1>2. /\ UNCHANGED <<lpc, ring, iocp, endgame, inserting, lost>>
      /\ UNCHANGED <<pc, rpcc, reqConnect, tries, status, sent, overlapped>>
      /\ Processing(WriteReq(k)) /\ Unregister /\ reported' = reported + 1
  BY DEF WriteReported
<1>3. /\ LoopType(Reqs)' /\ WalkInv' /\ lpc \notin {"left", "undefined"}
      /\ Copies(WriteReq(k)) >= 1
      /\ Copies(WriteReq(k))' = Copies(WriteReq(k)) - 1
      /\ \A r : r # WriteReq(k) => Copies(r)' = Copies(r)
      /\ \A r : Copies(r) \in Nat
  BY <1>2, CallbackCopies
<1>4. Copies(WriteReq(k)) = 1 /\ Copies(WriteReq(k))' = 0
  BY <1>1, <1>3 DEF WritesInv
<1>5. \A j \in 1..MaxWrites : j # k => Copies(WriteReq(j))' = Copies(WriteReq(j))
  BY <1>3, ReqsDiffer
<1>6. Balance' = Balance - 1
  BY <1>1, <1>2, BalanceType DEF Balance
<1>7. /\ active' \subseteq {"pipe"} \X Attempts /\ pipe' \in PipeType
      /\ pipe'.wiped = pipe.wiped /\ pipe'.conn = pipe.conn
      /\ HandleInv' /\ reqs' = reqs - 1
  BY <1>2, <1>6, UnregisterHandle
<1>8. ClientType' /\ PlaceInv' /\ StatusInv' /\ LinkInv' /\ WipedInv'
  BY <1>1, <1>2, <1>7 DEF ClientType, PlaceInv, StatusInv, LinkInv, WipedInv
<1>9. WritesInv'
  <2>1. OpenWrites' = {j \in 1..MaxWrites : Copies(WriteReq(j))' = 1}
    BY DEF OpenWrites
  <2>2. OpenWrites' = OpenWrites \ {k} /\ k \in OpenWrites
    BY <1>4, <1>5, <2>1 DEF OpenWrites
  <2>3. Cardinality(OpenWrites') = Cardinality(OpenWrites) - 1
    BY <2>2, OpenWritesFinite, FS_RemoveElement
  <2>4. sent' - reported' = (sent - reported) - 1
    BY <1>1, <1>2, BalanceType
  <2>5. \A j \in 1..MaxWrites : Copies(WriteReq(j))' <= IF j <= sent' THEN 1 ELSE 0
    BY <1>1, <1>2, <1>4, <1>5 DEF WritesInv
  <2> QED
    BY <1>1, <2>3, <2>4, <2>5 DEF WritesInv
<1>10. WorkInv' /\ CountInv'
  <2>1. Copies(WorkReq)' = Copies(WorkReq) /\ Copies(WorkReq) \in Nat
    BY <1>3, ReqsDiffer
  <2> QED
    BY <1>1, <1>2, <1>6, <1>7, <2>1, BalanceType DEF WorkInv, CountInv
<1>11. AttemptsOnTheWay'
  <2>1. \A n \in Attempts : Copies(ConnectReq(n))' = Copies(ConnectReq(n))
    BY <1>3, ReqsDiffer
  <2> QED
    BY <1>1, <1>2, <2>1 DEF AttemptsOnTheWay
<1>12. UsableConnection' /\ LoopOutlivesIdleWindow'
  BY <1>1, <1>2, <1>7 DEF UsableConnection, LoopOutlivesIdleWindow
<1> QED
  BY <1>3, <1>7, <1>8, <1>9, <1>10, <1>11, <1>12 DEF IInv

LEMMA WorkDoneInv ==
  ASSUME IInv, WorkDone
  PROVE  IInv'
<1>1. /\ LoopType(Reqs) /\ ClientType /\ WalkInv /\ PlaceInv /\ StatusInv
      /\ LinkInv /\ WorkInv /\ WritesInv /\ WipedInv /\ CountInv /\ HandleInv
      /\ AttemptsOnTheWay /\ UsableConnection /\ LoopOutlivesIdleWindow
  BY DEF IInv
<1>2. /\ UNCHANGED <<lpc, ring, iocp, active, endgame, inserting, lost>>
      /\ UNCHANGED clientVars /\ Processing(WorkReq) /\ reqs' = reqs - 1
  BY DEF WorkDone
<1>3. /\ LoopType(Reqs)' /\ WalkInv' /\ lpc \notin {"left", "undefined"}
      /\ Copies(WorkReq)' = Copies(WorkReq) - 1
      /\ \A r : r # WorkReq => Copies(r)' = Copies(r)
      /\ \A r : Copies(r) \in Nat
  BY <1>2, CallbackCopies
<1>4. ClientType' /\ PlaceInv' /\ StatusInv' /\ LinkInv' /\ WipedInv'
  BY <1>1, <1>2 DEF clientVars, ClientType, PlaceInv, StatusInv, LinkInv,
     WipedInv
<1>5. WorkInv' /\ WritesInv'
  <2>1. \A k \in 1..MaxWrites : Copies(WriteReq(k))' = Copies(WriteReq(k))
    BY <1>3, ReqsDiffer
  <2>2. OpenWrites' = OpenWrites
    BY <2>1 DEF OpenWrites
  <2>3. WorkInv'
    BY <1>1, <1>2, <1>3 DEF clientVars, WorkInv
  <2> QED
    BY <1>1, <1>2, <2>1, <2>2, <2>3 DEF clientVars, WritesInv
<1>6. CountInv' /\ HandleInv'
  <2>1. Balance' = Balance
    BY <1>2 DEF clientVars, Balance
  <2> QED
    BY <1>1, <1>2, <1>3, <2>1, BalanceType DEF clientVars, CountInv, HandleInv
<1>7. AttemptsOnTheWay'
  <2>1. \A n \in Attempts : Copies(ConnectReq(n))' = Copies(ConnectReq(n))
    BY <1>3, ReqsDiffer
  <2> QED
    BY <1>1, <1>2, <2>1 DEF clientVars, AttemptsOnTheWay
<1>8. UsableConnection' /\ LoopOutlivesIdleWindow'
  BY <1>1, <1>2 DEF clientVars, UsableConnection, LoopOutlivesIdleWindow
<1> QED
  BY <1>3, <1>4, <1>5, <1>6, <1>7, <1>8 DEF IInv
-------------------------------------------------------------------------------
(* The theorems. *)

LEMMA StutterInv ==
  ASSUME IInv, UNCHANGED vars
  PROVE  IInv'
<1>1. /\ LoopType(Reqs) /\ ClientType /\ WalkInv /\ PlaceInv /\ StatusInv
      /\ LinkInv /\ WorkInv /\ WritesInv /\ WipedInv /\ CountInv /\ HandleInv
      /\ AttemptsOnTheWay /\ UsableConnection /\ LoopOutlivesIdleWindow
  BY DEF IInv
<1>2. /\ UNCHANGED <<lpc, ring, batch, iocp, active, reqs, endgame, inserting,
                     lost>>
      /\ UNCHANGED clientVars
  BY DEF vars, loopVars
<1>3. LoopType(Reqs)' /\ \A r : Copies(r)' = Copies(r)
  BY <1>1, <1>2, QuietCopies
<1>4. ClientType' /\ WalkInv' /\ PlaceInv' /\ StatusInv' /\ LinkInv' /\ WipedInv'
  BY <1>1, <1>2 DEF clientVars, ClientType, WalkInv, PlaceInv, StatusInv,
     LinkInv, WipedInv
<1>5. WorkInv' /\ WritesInv' /\ CountInv' /\ HandleInv'
  <2>1. OpenWrites' = OpenWrites /\ Balance' = Balance
    BY <1>2, <1>3 DEF clientVars, OpenWrites, Balance
  <2> QED
    BY <1>1, <1>2, <1>3, <2>1 DEF clientVars, WorkInv, WritesInv, CountInv,
       HandleInv
<1>6. AttemptsOnTheWay' /\ UsableConnection' /\ LoopOutlivesIdleWindow'
  BY <1>1, <1>2, <1>3 DEF clientVars, AttemptsOnTheWay, UsableConnection,
     LoopOutlivesIdleWindow
<1> QED
  BY <1>3, <1>4, <1>5, <1>6 DEF IInv

LEMMA StepInv == IInv /\ [Next]_vars => IInv'
<1> SUFFICES ASSUME IInv, [Next]_vars PROVE IInv'
  OBVIOUS
<1>1. CASE UNCHANGED vars
  BY <1>1, StutterInv
<1>2. ASSUME NEW t \in Threads, InitPipeClient(t)
      PROVE  IInv'
  <2>1. CASE ResetConnect(t) \/ RegisterConnect(t)
    BY <2>1, MoveInv, RegisterInv DEF Threads
  <2>2. CASE WipePipe(t) \/ PipeConnect(t) \/ PipeConnectBusy(t)
    BY <2>2, WipePipeInv, PipeConnectInv
  <2> QED
    BY <1>2, <2>1, <2>2 DEF InitPipeClient
<1>3. "main" \in Threads /\ "ui" \in Threads
  BY DEF Threads
<1>4. CASE MainThread
  BY <1>2, <1>3, <1>4, MoveInv, LoopStepInv, ConnectTakenInv,
     ConnectReportedInv, WriteReportedInv, WorkDoneInv DEF MainThread
<1>5. CASE UiThread
  BY <1>2, <1>3, <1>5, LinkConnectInv, RegisterInv DEF UiThread
<1>6. CASE User
  BY <1>6, UndefinedInv, MoveInv, ClickWritesInv, CloseWindowInv DEF User
<1>7. CASE System
  BY <1>7, UndefinedInv, BusyEndsInv DEF System
<1> QED
  BY <1>1, <1>4, <1>5, <1>6, <1>7 DEF Next

\* The inductive invariant holds in every behaviour.
LEMMA Inductive == SafeSpec => []IInv
  BY InitInv, StepInv, PTL DEF SafeSpec

\* For any number of attempts and messages the variables stay in their ranges:
\* in particular the loop's count of requests never goes below zero, although
\* a request may be processed before it is counted.
THEOREM ClientTypeCorrect == SafeSpec => []TypeOK
  BY Inductive, TypeParts, PTL

\* Every attempt whose connect completed is on its way to on_connect exactly
\* once until it is reported, as long as the insertion from the UI thread did
\* not corrupt the list.
THEOREM AttemptsOnTheWayAlways == SafeSpec => []AttemptsOnTheWay
<1>1. IInv => AttemptsOnTheWay
  BY DEF IInv
<1> QED
  BY <1>1, Inductive, PTL

\* uv_run's count is the requests that are owed a callback and the window; the
\* handle's agrees with it unless an attempt cleared the handle in use.
THEOREM RequestsCountedAlways == SafeSpec => []RequestsCounted
<1>1. IInv => RequestsCounted
  <2> SUFFICES ASSUME IInv PROVE RequestsCounted
    OBVIOUS
  <2>1. Outstanding = Balance /\ Balance \in Int
    BY OutstandingIsBalance, BalanceType DEF IInv
  <2>2. Copies(WorkReq) \in Nat /\ Window(pc) \in 0..1
    BY CountsType, BalanceType DEF IInv
  <2>3. reqs = Outstanding + Copies(WorkReq)
                 + (IF pc.ui \in {"none", "closed"} THEN 0 ELSE 1)
    BY <2>1, <2>2 DEF IInv, CountInv, Window
  <2>4. ~overlapped => /\ pipe.count = Outstanding
                       /\ active # {} <=> pipe.count > 0
    BY <2>1 DEF IInv, HandleInv
  <2> QED
    BY <2>3, <2>4 DEF RequestsCounted
<1> QED
  BY <1>1, Inductive, PTL

\* send_data writes into the connection that on_connect reported to it, unless
\* an attempt cleared the handle in use.
THEOREM UsableConnectionAlways == SafeSpec => []UsableConnection
<1>1. IInv => UsableConnection
  BY DEF IInv
<1> QED
  BY <1>1, Inductive, PTL

\* uv_run is left with the window open only from inside a call of the UI thread
\* that has a request completed and not yet counted.
THEOREM LoopOutlivesIdleWindowAlways == SafeSpec => []LoopOutlivesIdleWindow
<1>1. IInv => LoopOutlivesIdleWindow
  BY DEF IInv
<1> QED
  BY <1>1, Inductive, PTL
===============================================================================
