---------------------------- MODULE PipeServerProofs ---------------------------
(***************************************************************************)
(* Theorems about module PipeServer, for any number of pipe instances,     *)
(* clients, messages and failures.                                         *)
(***************************************************************************)
EXTENDS PipeServer, UvLoopProofs

-------------------------------------------------------------------------------
(* The inductive invariant. *)

\* The variables that are not lists of requests stay in their ranges.
ServerType ==
  /\ lpc \in {"before", "check", "take", "process", "sleep", "peek", "drain",
              "process_more", "left", "undefined"}
  /\ active \subseteq {"server"} \cup Clients /\ reqs \in {0, 1}
  /\ endgame \subseteq Clients
  /\ worker \in {"idle", "queued", "bind", "listen", "arm", "link", "return",
                 "done"}
  /\ next \in 1..(Instances + 1)
  /\ server \in {"none", "open", "bound", "listening", "failed"}
  /\ nameFree \in BOOLEAN
  /\ inst \in [Insts -> {"none", "created", "early", "waiting", "connected",
                         "pending", "error"}]
  /\ conn \in [Insts -> Clients \cup {NoClient}]
  /\ pendingAccepts \in Seq(Insts)
  /\ client \in [Clients -> {"out", "in", "gone", "dropped"}]
  /\ unread \in [Clients -> 0..MaxMsgs] /\ writes \in [Clients -> 0..MaxMsgs]
  /\ handle \in [Clients -> {"none", "reading", "closing", "closed"}]
  /\ reading \in [Clients -> BOOLEAN]
  /\ faults \in 0..MaxFaults

\* The work is counted from the moment it is queued until its callback ran.
WorkInv ==
  /\ lpc = "before" <=> worker = "idle"
  /\ lpc \in {"before", "left"} => reqs = 0
  /\ lpc # "undefined" =>
       reqs = Copies(WorkReq) + (IF worker \notin {"idle", "done"} THEN 1 ELSE 0)

\* There is no instance before the worker binds, and it is in the middle of
\* arming one when it inserts into the ring.
LinkInv ==
  /\ worker \in {"idle", "queued", "bind"} =>
       \A i \in Insts : inst[i] = "none"
  /\ worker = "link" => next \in Insts

\* Exactly the instances that a client reached have one.
InstInv ==
  \A i \in Insts :
    conn[i] \in IF inst[i] \in {"early", "connected", "pending"}
                THEN Clients ELSE {NoClient}

\* A client that got in is at one instance, until it gets a handle; one that was
\* dropped is at none, and never gets one.
OwnerInv ==
  /\ \A c \in Clients : handle[c] # "none" => client[c] \in {"in", "gone"}
  /\ \A c \in Clients :
       client[c] \in {"in", "gone"} /\ handle[c] = "none" => \E i \in Insts : conn[i] = c
  /\ \A i \in Insts :
       conn[i] # NoClient =>
         /\ handle[conn[i]] = "none" /\ client[conn[i]] \in {"in", "gone"}
         /\ \A j \in Insts : conn[j] = conn[i] => j = i

\* Only an open handle reads, and only a closing one waits for its endgame.
HandleInv ==
  \A c \in Clients :
    /\ reading[c] => handle[c] = "reading"
    /\ c \in endgame => handle[c] = "closing"
    /\ unread[c] <= writes[c]

\* The handle of the server keeps uv_run going from the moment it listens.
ServeInv == server = "listening" => "server" \in active /\ lpc # "left"

IInv ==
  /\ TypeOK /\ WalkInv /\ WorkInv /\ LinkInv /\ InstInv /\ OwnerInv
  /\ HandleInv /\ ServeInv /\ NothingForgotten /\ ReadBeforeClose

-------------------------------------------------------------------------------
(* Requests. *)

LEMMA TypeParts == TypeOK <=> LoopType(Reqs) /\ ServerType
  BY DEF TypeOK, LoopType, ServerType

LEMMA ReqsMembers ==
  /\ WorkReq \in Reqs
  /\ \A i \in Insts : AcceptReq(i) \in Reqs
  /\ \A c \in Clients : ReadReq(c) \in Reqs
  BY DEF Reqs

LEMMA ReqsDiffer ==
  /\ WorkReq # <<>>
  /\ \A i : /\ AcceptReq(i) # <<>> /\ AcceptReq(i) # WorkReq
            /\ \A j : AcceptReq(i) = AcceptReq(j) => i = j
            /\ \A c : AcceptReq(i) # ReadReq(c)
  /\ \A c : /\ ReadReq(c) # <<>> /\ ReadReq(c) # WorkReq
            /\ \A d : ReadReq(c) = ReadReq(d) => c = d
  BY DEF WorkReq, AcceptReq, ReadReq

LEMMA NoClientApart == NoClient \notin Clients /\ "server" \notin Clients
  BY PipeServerAssumption

\* NothingForgotten, in the numbers that the steps change.
AcceptsInv ==
  lpc # "undefined" =>
    \A i \in Insts :
      Copies(AcceptReq(i)) = (IF inst[i] \in {"connected", "error"} THEN 1 ELSE 0)

ReadsInv ==
  lpc # "undefined" =>
    \A c \in Clients :
      Copies(ReadReq(c)) = (IF handle[c] = "reading" /\ ~reading[c] THEN 1 ELSE 0)

LEMMA ForgottenParts == NothingForgotten <=> AcceptsInv /\ ReadsInv
  BY DEF NothingForgotten, AcceptsInv, ReadsInv, Is, Has

\* The parts of the invariant, before and after a step.
LEMMA Parts ==
  ASSUME IInv
  PROVE  /\ LoopType(Reqs) /\ ServerType /\ WalkInv /\ WorkInv /\ LinkInv
         /\ InstInv /\ OwnerInv /\ HandleInv /\ ServeInv
         /\ AcceptsInv /\ ReadsInv /\ ReadBeforeClose
  BY TypeParts, ForgottenParts DEF IInv

LEMMA Together ==
  ASSUME LoopType(Reqs)', ServerType', WalkInv', WorkInv', LinkInv', InstInv',
         OwnerInv', HandleInv', ServeInv', AcceptsInv', ReadsInv',
         ReadBeforeClose'
  PROVE  IInv'
<1>1. TypeOK'
  BY DEF TypeOK, LoopType, ServerType
<1>2. NothingForgotten'
  BY DEF NothingForgotten, AcceptsInv, ReadsInv, Is, Has
<1> QED
  BY <1>1, <1>2 DEF IInv

\* The instance or handle that a request on its way belongs to is in the state
\* in which its callback expects it.
LEMMA OnTheWay ==
  ASSUME IInv, lpc # "undefined", batch # <<>>
  PROVE  /\ Head(batch) \in Reqs
         /\ \A r : Head(batch) = r => Copies(r) >= 1
         /\ \A i \in Insts : Head(batch) = AcceptReq(i) =>
              inst[i] \in {"connected", "error"}
         /\ \A c \in Clients : Head(batch) = ReadReq(c) =>
              handle[c] = "reading" /\ reading[c] = FALSE
<1>1. LoopType(Reqs)
  BY TypeParts DEF IInv
<1>2. Head(batch) \in Reqs
  BY <1>1 DEF LoopType
<1>3. ASSUME NEW r, Head(batch) = r PROVE Copies(r) >= 1
  <2>1. Count(batch, r) = Is(Head(batch), r) + Count(Tail(batch), r)
    BY <1>1, CountTail DEF LoopType
  <2>2. Tail(batch) \in Seq(Reqs)
    BY <1>1 DEF LoopType
  <2>3. Count(Tail(batch), r) \in Nat
    BY <2>2, AtFinite
  <2>4. Is(Head(batch), r) = 1
    BY <1>3 DEF Is, Has
  <2>5. Count(batch, r) >= 1
    BY <2>1, <2>3, <2>4
  <2> QED
    BY <1>1, <2>5, CountsType DEF Copies
<1>4. AcceptsInv /\ ReadsInv
  BY ForgottenParts DEF IInv
<1>5. ASSUME NEW i \in Insts, Head(batch) = AcceptReq(i)
      PROVE  inst[i] \in {"connected", "error"}
  BY <1>3, <1>4, <1>5 DEF AcceptsInv, Is, Has
<1>6. ASSUME NEW c \in Clients, Head(batch) = ReadReq(c)
      PROVE  handle[c] = "reading" /\ reading[c] = FALSE
  <2>1. handle[c] = "reading" /\ ~reading[c]
    BY <1>3, <1>4, <1>6 DEF ReadsInv, Is, Has
  <2>2. reading[c] \in BOOLEAN
    BY DEF IInv, TypeOK
  <2> QED
    BY <2>1, <2>2
<1> QED
  BY <1>2, <1>3, <1>5, <1>6

LEMMA InitInv == Init => IInv
<1> SUFFICES ASSUME Init PROVE IInv
  OBVIOUS
<1>1. LoopInit
  BY DEF Init
<1>2. LoopType(Reqs) /\ WalkInv
  BY <1>1 DEF LoopInit, LoopType, WalkInv
<1>3. ServerType
  BY <1>1, PipeServerAssumption DEF Init, LoopInit, ServerType, Insts
<1>4. TypeOK
  BY <1>2, <1>3, TypeParts
<1>5. Copies(WorkReq) = 0
  BY <1>1, CopiesInit, ReqsDiffer
<1>6. WorkInv
  BY <1>1, <1>5 DEF WorkInv, Init, LoopInit, Is, Has
<1>7. AcceptsInv
  <2>1. \A i \in Insts : Copies(AcceptReq(i)) = 0
    BY <1>1, CopiesInit, ReqsDiffer
  <2> QED
    BY <2>1 DEF AcceptsInv, Init, Is, Has
<1>8. ReadsInv
  <2>1. \A c \in Clients : Copies(ReadReq(c)) = 0
    BY <1>1, CopiesInit, ReqsDiffer
  <2> QED
    BY <2>1 DEF ReadsInv, Init, Is, Has
<1>9. LinkInv /\ InstInv /\ OwnerInv /\ HandleInv /\ ServeInv /\ ReadBeforeClose
  BY <1>1 DEF LinkInv, InstInv, OwnerInv, HandleInv, ServeInv, ReadBeforeClose,
              Init, LoopInit
<1> QED
  BY <1>2, <1>4, <1>6, <1>7, <1>8, <1>9, ForgottenParts DEF IInv

-------------------------------------------------------------------------------
(* The loop. *)

LEMMA LoopStepInv ==
  ASSUME IInv, LoopStep, UNCHANGED serverVars
  PROVE  IInv'
<1>1. /\ LoopType(Reqs) /\ ServerType /\ WalkInv /\ WorkInv /\ LinkInv
      /\ InstInv /\ OwnerInv /\ HandleInv /\ ServeInv
      /\ AcceptsInv /\ ReadsInv /\ ReadBeforeClose
  BY Parts
<1>2. LoopType(Reqs)' /\ WalkInv'
  BY <1>1, CopiesLoopStep
<1>3. \A r : Copies(r)' = Copies(r)
  BY <1>1, CopiesLoopStep
<1>4. /\ UNCHANGED <<active, reqs, endgame>>
      /\ lpc \notin {"before", "left", "undefined"}
      /\ lpc' \in {"left", "take", "process", "process_more", "sleep", "peek",
                   "drain"}
      /\ lpc' = "left" => active = {} /\ reqs = 0
  BY <1>1 DEF LoopStep, LoopCheck, TakeRing, BackendTimeout, Poll, MoreDone,
              Alive, HasActive, ServerType
<1>5. UNCHANGED <<worker, next, server, nameFree, inst, conn, pendingAccepts,
                  client, unread, writes, handle, reading, faults>>
  BY DEF serverVars
<1>6. ServerType'
  BY <1>1, <1>4, <1>5 DEF ServerType
<1>7. WorkInv'
  BY <1>1, <1>3, <1>4, <1>5 DEF WorkInv
<1>8. AcceptsInv' /\ ReadsInv'
  BY <1>1, <1>3, <1>4, <1>5 DEF AcceptsInv, ReadsInv
<1>9. LinkInv' /\ InstInv' /\ OwnerInv' /\ HandleInv' /\ ReadBeforeClose'
  BY <1>1, <1>4, <1>5 DEF LinkInv, InstInv, OwnerInv, HandleInv, ReadBeforeClose
<1>10. ServeInv'
  BY <1>1, <1>4, <1>5 DEF ServeInv
<1> QED
  BY <1>2, <1>6, <1>7, <1>8, <1>9, <1>10, Together

LEMMA RunInv ==
  ASSUME IInv, Run
  PROVE  IInv'
<1>1. /\ LoopType(Reqs) /\ ServerType /\ WalkInv /\ WorkInv /\ LinkInv
      /\ InstInv /\ OwnerInv /\ HandleInv /\ ServeInv
      /\ AcceptsInv /\ ReadsInv /\ ReadBeforeClose
  BY Parts
<1>2. /\ lpc = "before" /\ lpc' = "check" /\ worker' = "queued"
      /\ reqs' = reqs + 1
      /\ UNCHANGED <<ring, batch, iocp, active, endgame, inserting, lost>>
      /\ UNCHANGED <<next, server, nameFree, inst, conn, pendingAccepts, client,
                     unread, writes, handle, reading, faults>>
  BY DEF Run
<1>3. LoopType(Reqs)' /\ \A r : Copies(r)' = Copies(r)
  BY <1>1, <1>2, CopiesUnchanged DEF LoopType
<1>4. WalkInv'
  BY <1>1, <1>2 DEF WalkInv
<1>5. worker = "idle" /\ reqs = 0 /\ Copies(WorkReq) = 0
  BY <1>1, <1>2, CountsType DEF WorkInv, Is, Has
<1>6. ServerType'
  BY <1>1, <1>2, <1>5 DEF ServerType
<1>7. WorkInv'
  BY <1>2, <1>3, <1>5 DEF WorkInv, Is, Has
<1>8. AcceptsInv' /\ ReadsInv'
  BY <1>1, <1>2, <1>3 DEF AcceptsInv, ReadsInv
<1>9. LinkInv' /\ InstInv' /\ OwnerInv' /\ HandleInv' /\ ServeInv' /\ ReadBeforeClose'
  BY <1>1, <1>2, <1>5 DEF LinkInv, InstInv, OwnerInv, HandleInv, ServeInv,
                    ReadBeforeClose
<1> QED
  BY <1>3, <1>4, <1>6, <1>7, <1>8, <1>9, Together

\* uv__process_endgames: what is closed was closing, and the server never is.
LEMMA CloseHandlesInv ==
  ASSUME IInv, CloseHandles
  PROVE  IInv'
<1>1. /\ LoopType(Reqs) /\ ServerType /\ WalkInv /\ WorkInv /\ LinkInv
      /\ InstInv /\ OwnerInv /\ HandleInv /\ ServeInv
      /\ AcceptsInv /\ ReadsInv /\ ReadBeforeClose
  BY Parts
<1>2. /\ lpc = "drain" /\ lpc' = "check" /\ endgame' = {}
      /\ active' = active \ endgame
      /\ UNCHANGED <<ring, batch, iocp, reqs, inserting, lost>>
      /\ handle' = [c \in Clients |-> IF c \in endgame THEN "closed"
                                      ELSE handle[c]]
      /\ UNCHANGED <<worker, next, server, nameFree, inst, conn, pendingAccepts,
                     client, unread, writes, reading, faults>>
  BY DEF CloseHandles, Endgames
<1>3. LoopType(Reqs)' /\ WalkInv'
  BY <1>1, CopiesEndgames DEF CloseHandles
<1>4. \A r : Copies(r)' = Copies(r)
  BY <1>2, CopiesUnchanged
<1>5. \A c \in Clients :
        /\ handle'[c] = "reading" <=> handle[c] = "reading"
        /\ handle'[c] = "none" <=> handle[c] = "none"
        /\ handle'[c] \in {"closing", "closed"} <=> handle[c] \in {"closing", "closed"}
  BY <1>1, <1>2 DEF HandleInv, ServerType
<1>6. ServerType'
  BY <1>1, <1>2 DEF ServerType
<1>7. WorkInv'
  BY <1>1, <1>2, <1>4 DEF WorkInv
<1>8. AcceptsInv' /\ ReadsInv'
  BY <1>1, <1>2, <1>4, <1>5 DEF AcceptsInv, ReadsInv, Is, Has
<1>9. LinkInv' /\ InstInv' /\ ServeInv'
  BY <1>1, <1>2, NoClientApart DEF LinkInv, InstInv, ServeInv, ServerType
<1>10. OwnerInv'
  BY <1>1, <1>2, <1>5 DEF OwnerInv, ServerType
<1>11. HandleInv' /\ ReadBeforeClose'
  BY <1>1, <1>2, <1>5 DEF HandleInv, ReadBeforeClose
<1> QED
  BY <1>3, <1>6, <1>7, <1>8, <1>9, <1>10, <1>11, Together

-------------------------------------------------------------------------------
(* The worker. *)

\* Up to the first armed instance, and the owner of the pipe's name: the loop's
\* lists and the handles stay as they are.
LEMMA WorkerStartInv ==
  ASSUME IInv, WorkerInit \/ WorkerBind \/ WorkerListen \/ NameFreed
  PROVE  IInv'
<1>1. /\ LoopType(Reqs) /\ ServerType /\ WalkInv /\ WorkInv /\ LinkInv
      /\ InstInv /\ OwnerInv /\ HandleInv /\ ServeInv
      /\ AcceptsInv /\ ReadsInv /\ ReadBeforeClose
  BY Parts
<1>2. /\ UNCHANGED <<lpc, ring, batch, iocp, reqs, endgame, inserting, lost>>
      /\ UNCHANGED <<next, conn, pendingAccepts, client, unread, writes, handle,
                     reading, faults>>
      /\ \/ worker' = worker
         \/ worker \in {"queued", "bind", "listen"}
            /\ worker' \in {"bind", "listen", "return", "arm"}
      /\ nameFree' \in BOOLEAN
  BY <1>1 DEF WorkerInit, WorkerBind, WorkerListen, NameFreed, loopVars,
              ServerType
<1>3. LoopType(Reqs)' /\ WalkInv' /\ \A r : Copies(r)' = Copies(r)
  BY <1>1, <1>2, CopiesUnchanged DEF LoopType, WalkInv
<1>4. /\ \/ worker' = worker /\ server' = server /\ inst' = inst
            /\ active' = active
         \/ /\ worker = "queued" /\ worker' = "bind" /\ server' = "open"
            /\ inst' = inst /\ active' = active
         \/ /\ worker = "bind" /\ worker' = "listen" /\ server' = "bound"
            /\ inst' = [inst EXCEPT ![1] = "created"] /\ active' = active
         \/ /\ worker = "bind" /\ worker' = "return" /\ server' = "failed"
            /\ inst' = inst /\ active' = active
         \/ /\ worker = "listen" /\ worker' = "arm" /\ server' = "listening"
            /\ inst' = inst /\ active' = active \cup {"server"}
  BY DEF WorkerInit, WorkerBind, WorkerListen, NameFreed, loopVars
<1>5. ServerType'
  BY <1>1, <1>2, <1>4 DEF ServerType
<1>6. WorkInv'
  BY <1>1, <1>2, <1>3, <1>4 DEF WorkInv, Is, Has
<1>7. worker = "listen" => lpc # "left"
  BY <1>1, CountsType DEF WorkInv, Is, Has
<1>8. ServeInv'
  BY <1>1, <1>2, <1>4, <1>7 DEF ServeInv
<1>9. \A i \in Insts :
        \/ inst'[i] = inst[i]
        \/ inst[i] = "none" /\ inst'[i] = "created"
  BY <1>1, <1>4 DEF LinkInv, ServerType
<1>10. LinkInv'
  BY <1>1, <1>2, <1>4 DEF LinkInv
<1>11. AcceptsInv' /\ ReadsInv' /\ InstInv'
  BY <1>1, <1>2, <1>3, <1>9 DEF AcceptsInv, ReadsInv, InstInv, Is, Has
<1>12. OwnerInv' /\ HandleInv' /\ ReadBeforeClose'
  BY <1>1, <1>2 DEF OwnerInv, HandleInv, ReadBeforeClose
<1> QED
  BY <1>3, <1>5, <1>6, <1>8, <1>10, <1>11, <1>12, Together
\* The worker's own step on the instance that it is arming: the state of the
\* instance changes, and its request may be on its way from now on.
LEMMA WorkerArmInv ==
  ASSUME IInv, WorkerCreate \/ WorkerConnect \/ WorkerConnectFails
  PROVE  IInv'
<1>1. /\ LoopType(Reqs) /\ ServerType /\ WalkInv /\ WorkInv /\ LinkInv
      /\ InstInv /\ OwnerInv /\ HandleInv /\ ServeInv
      /\ AcceptsInv /\ ReadsInv /\ ReadBeforeClose
  BY Parts
<1>2. /\ UNCHANGED <<lpc, ring, batch, iocp, active, reqs, endgame, lost>>
      /\ UNCHANGED <<server, nameFree, pendingAccepts, unread, writes, handle,
                     reading>>
      /\ worker = "arm" /\ worker' \in {"arm", "link"}
      /\ next \in Insts
  BY DEF WorkerCreate, WorkerConnect, WorkerConnectFails, Insts
<1>3. \/ /\ inst[next] = "none" /\ inst' = [inst EXCEPT ![next] = "created"]
         /\ UNCHANGED <<inserting, worker, faults, next>>
      \/ /\ inst[next] = "none" /\ inst' = [inst EXCEPT ![next] = "error"]
         /\ Fail /\ InsertLook(AcceptReq(next))
         /\ UNCHANGED next
      \/ /\ inst[next] = "created" /\ inst' = [inst EXCEPT ![next] = "waiting"]
         /\ next' = next + 1 /\ UNCHANGED <<inserting, worker, faults>>
      \/ /\ inst[next] = "early" /\ inst' = [inst EXCEPT ![next] = "connected"]
         /\ InsertLook(AcceptReq(next)) /\ UNCHANGED <<next, faults>>
      \/ /\ inst[next] \in {"created", "early"}
         /\ inst' = [inst EXCEPT ![next] = "error"]
         /\ Fail \/ UNCHANGED faults
         /\ InsertLook(AcceptReq(next)) /\ UNCHANGED next
  BY DEF WorkerCreate, WorkerConnect, WorkerConnectFails
<1>4. /\ inst'[next] \in {"created", "error", "waiting", "connected"}
      /\ inst[next] \in {"none", "created", "early"}
      /\ inst'[next] = "connected" => inst[next] = "early"
      /\ inst'[next] # "error" => (inst[next] = "early" <=> inst'[next] = "connected")
      /\ \A i \in Insts : i # next => inst'[i] = inst[i]
      /\ inst' \in [Insts -> {"none", "created", "early", "waiting",
                              "connected", "pending", "error"}]
  BY <1>1, <1>2, <1>3 DEF ServerType
<1>5. /\ LoopType(Reqs)'
      /\ \A r : r # <<>> =>
           Copies(r)' = Copies(r)
             + (IF inst'[next] \in {"error", "connected"} /\ AcceptReq(next) = r THEN 1 ELSE 0)
  <2>1. CASE UNCHANGED inserting /\ inst'[next] \in {"created", "waiting"}
    <3>1. LoopType(Reqs)' /\ \A r : Copies(r)' = Copies(r)
      BY <1>1, <1>2, <2>1, CopiesUnchanged DEF LoopType
    <3>2. \A r : (IF inst'[next] \in {"error", "connected"} /\ AcceptReq(next) = r THEN 1 ELSE 0) = 0
      BY <2>1 DEF Is, Has
    <3>3. \A r : Copies(r) \in Nat
      BY <1>1, CountsType
    <3>4. ASSUME NEW r
          PROVE  Copies(r)' = Copies(r)
             + (IF inst'[next] \in {"error", "connected"} /\ AcceptReq(next) = r THEN 1 ELSE 0)
      BY <3>1, <3>2, <3>3
    <3> QED
      BY <3>1, <3>4
  <2>2. CASE InsertLook(AcceptReq(next)) /\ inst'[next] \in {"error", "connected"}
    <3>1. AcceptReq(next) \in Reqs /\ AcceptReq(next) # <<>>
      BY <1>2, ReqsMembers, ReqsDiffer
    <3>2. LoopType(Reqs)'
      BY <1>1, <1>2, <2>2, <3>1, CopiesLook
    <3>3. \A r : r # <<>> => Copies(r)' = Copies(r) + Is(AcceptReq(next), r)
      BY <1>1, <1>2, <2>2, <3>1, CopiesLook
    <3>4. \A r : (IF inst'[next] \in {"error", "connected"} /\ AcceptReq(next) = r THEN 1 ELSE 0)
                   = Is(AcceptReq(next), r)
      BY <2>2 DEF Is, Has
    <3> QED
      BY <3>2, <3>3, <3>4
  <2> QED
    BY <1>1, <1>2, <1>3, <2>1, <2>2 DEF ServerType
<1>6. WalkInv' /\ HandleInv' /\ ServeInv'
  BY <1>1, <1>2 DEF WalkInv, HandleInv, ServeInv
<1>7. \/ UNCHANGED <<conn, client>> /\ inst'[next] # "error"
      \/ /\ inst'[next] = "error"
         /\ conn' = [conn EXCEPT ![next] = NoClient]
         /\ client' = [c \in Clients |-> IF c = conn[next] THEN "dropped"
                                         ELSE client[c]]
  <2>1. CASE WorkerCreate
    <3>1. conn[next] = NoClient
      BY <1>1, <1>2, <2>1 DEF WorkerCreate, InstInv
    <3>2. conn = [conn EXCEPT ![next] = NoClient]
      BY <1>1, <1>2, <3>1 DEF ServerType
    <3>3. client = [c \in Clients |-> IF c = conn[next] THEN "dropped"
                                      ELSE client[c]]
      BY <1>1, <3>1, NoClientApart DEF ServerType
    <3>4. UNCHANGED <<conn, client>>
      BY <2>1 DEF WorkerCreate
    <3> QED
      BY <3>2, <3>3, <3>4
  <2>2. CASE WorkerConnect
    BY <1>1, <1>2, <2>2 DEF WorkerConnect, ServerType
  <2>3. CASE WorkerConnectFails
    BY <1>1, <1>2, <2>3 DEF WorkerConnectFails, ServerType
  <2> QED
    BY <2>1, <2>2, <2>3
<1>8. /\ conn' \in [Insts -> Clients \cup {NoClient}]
      /\ client' \in [Clients -> {"out", "in", "gone", "dropped"}]
      /\ \A i \in Insts : i # next => conn'[i] = conn[i]
      /\ inst'[next] = "error" => conn'[next] = NoClient
      /\ inst'[next] # "error" => conn'[next] = conn[next]
      /\ \A c \in Clients : c # conn[next] => client'[c] = client[c]
      /\ inst'[next] # "error" => client' = client
      /\ \A c \in Clients :
           inst'[next] = "error" /\ c = conn[next] => client'[c] = "dropped"
  BY <1>1, <1>2, <1>7 DEF ServerType
<1>9. OwnerInv'
  <2>1. ASSUME NEW c \in Clients, handle'[c] # "none"
        PROVE  client'[c] \in {"in", "gone"}
    <3>1. client[c] \in {"in", "gone"} /\ conn[next] # c
      BY <1>1, <1>2, <2>1, NoClientApart DEF OwnerInv
    <3> QED
      BY <1>8, <3>1
  <2>2. ASSUME NEW c \in Clients, client'[c] \in {"in", "gone"},
               handle'[c] = "none"
        PROVE  \E i \in Insts : conn'[i] = c
    <3>1. client[c] \in {"in", "gone"} /\ handle[c] = "none"
      BY <1>2, <1>8, <2>2
    <3>2. PICK i \in Insts : conn[i] = c
      BY <1>1, <3>1 DEF OwnerInv
    <3>3. i = next => inst'[next] # "error"
      BY <1>8, <2>2, <3>2
    <3> QED
      BY <1>8, <3>2, <3>3
  <2>3. ASSUME NEW i \in Insts, conn'[i] # NoClient
        PROVE  /\ handle'[conn'[i]] = "none" /\ client'[conn'[i]] \in {"in", "gone"}
               /\ \A j \in Insts : conn'[j] = conn'[i] => j = i
    <3>1. conn'[i] = conn[i] /\ (i = next => inst'[next] # "error")
      BY <1>8, <2>3
    <3>2. /\ handle[conn[i]] = "none" /\ client[conn[i]] \in {"in", "gone"}
          /\ \A j \in Insts : conn[j] = conn[i] => j = i
      BY <1>1, <2>3, <3>1 DEF OwnerInv
    <3>3. conn[i] \in Clients
      BY <1>1, <2>3, <3>1 DEF ServerType
    <3>4. client'[conn[i]] = client[conn[i]]
      BY <1>2, <1>8, <3>1, <3>2, <3>3
    <3>5. \A j \in Insts : conn'[j] \in {conn[j], NoClient}
      BY <1>2, <1>8
    <3> QED
      BY <1>2, <2>3, <3>1, <3>2, <3>4, <3>5
  <2> QED
    BY <2>1, <2>2, <2>3 DEF OwnerInv
<1>10. ServerType'
  BY <1>1, <1>2, <1>3, <1>4, <1>8, PipeServerAssumption DEF ServerType, Fail, Insts
<1>11. WorkInv'
  <2>1. Copies(WorkReq)' = Copies(WorkReq)
    BY <1>1, <1>2, <1>5, ReqsDiffer, CountsType DEF Is, Has
  <2> QED
    BY <1>1, <1>2, <2>1 DEF WorkInv
<1>12. AcceptsInv'
  <2> SUFFICES ASSUME lpc # "undefined", NEW i \in Insts
               PROVE  Copies(AcceptReq(i))' = (IF inst'[i] \in {"connected", "error"} THEN 1 ELSE 0)
    BY <1>2 DEF AcceptsInv
  <2>1. Copies(AcceptReq(i)) = (IF inst[i] \in {"connected", "error"} THEN 1 ELSE 0)
    BY <1>1 DEF AcceptsInv
  <2>2. CASE i = next
    BY <1>4, <1>5, <2>1, <2>2, ReqsDiffer DEF Is, Has
  <2>3. CASE i # next
    BY <1>2, <1>4, <1>5, <2>1, <2>3, ReqsDiffer DEF Is, Has
  <2> QED
    BY <2>2, <2>3
<1>13. ReadsInv'
  BY <1>1, <1>2, <1>5, ReqsDiffer DEF ReadsInv, Is, Has
<1>14. LinkInv' /\ InstInv'
  BY <1>1, <1>2, <1>3, <1>4, <1>8 DEF LinkInv, InstInv
<1>15. ReadBeforeClose'
  BY <1>1, <1>2, <1>3, PipeServerAssumption DEF ReadBeforeClose, Fail, ServerType
<1> QED
  BY <1>5, <1>6, <1>10, <1>11, <1>12, <1>13, <1>14, <1>15, <1>9, Together

\* The insertion that began while the loop was elsewhere is completed.
LEMMA WorkerLinkInv ==
  ASSUME IInv, WorkerLink
  PROVE  IInv'
<1>1. /\ LoopType(Reqs) /\ ServerType /\ WalkInv /\ WorkInv /\ LinkInv
      /\ InstInv /\ OwnerInv /\ HandleInv /\ ServeInv
      /\ AcceptsInv /\ ReadsInv /\ ReadBeforeClose
  BY Parts
<1>2. /\ UNCHANGED <<batch, iocp, active, reqs, endgame>>
      /\ UNCHANGED <<server, nameFree, inst, conn, pendingAccepts, client,
                     unread, writes, handle, reading, faults>>
      /\ worker = "link" /\ worker' = "arm" /\ next' = next + 1
      /\ next \in Insts /\ InsertLink
      /\ lpc' = lpc \/ lpc' = "undefined"
  BY <1>1 DEF WorkerLink, LinkInv, InsertLink
<1>3. LoopType(Reqs)' /\ WalkInv'
  BY <1>1, <1>2, LinkType DEF WalkInv
<1>4. ASSUME NEW r, r # <<>>, Copies(r) \in {0, 1}, lpc' # "undefined"
      PROVE  Copies(r)' = Copies(r)
  <2>1. Copies(r) <= 1 + Count(batch, r)
    BY <1>1, <1>4, CountsType
  <2> QED
    BY <1>1, <1>2, <1>4, <2>1, CopiesLink
<1>5. ServerType'
  BY <1>1, <1>2, PipeServerAssumption DEF ServerType, Insts
<1>6. WorkInv'
  <2>1. lpc # "undefined" => Copies(WorkReq) = 0
    BY <1>1, <1>2, CountsType DEF WorkInv, ServerType, Is, Has
  <2> QED
    BY <1>1, <1>2, <1>4, <2>1, ReqsDiffer DEF WorkInv, Is, Has
<1>7. AcceptsInv' /\ ReadsInv'
  BY <1>1, <1>2, <1>4, ReqsDiffer DEF AcceptsInv, ReadsInv, Is, Has
<1>8. LinkInv' /\ InstInv' /\ OwnerInv' /\ HandleInv' /\ ServeInv' /\ ReadBeforeClose'
  BY <1>1, <1>2 DEF LinkInv, InstInv, OwnerInv, HandleInv, ServeInv,
                    ReadBeforeClose
<1> QED
  BY <1>3, <1>5, <1>6, <1>7, <1>8, Together

LEMMA WorkerReturnInv ==
  ASSUME IInv, WorkerReturn
  PROVE  IInv'
<1>1. /\ LoopType(Reqs) /\ ServerType /\ WalkInv /\ WorkInv /\ LinkInv
      /\ InstInv /\ OwnerInv /\ HandleInv /\ ServeInv
      /\ AcceptsInv /\ ReadsInv /\ ReadBeforeClose
  BY Parts
<1>2. /\ worker \in {"return", "arm"} /\ worker' = "done" /\ Post(WorkReq)
      /\ UNCHANGED <<lpc, ring, batch, active, reqs, endgame, inserting, lost>>
      /\ UNCHANGED <<next, server, nameFree, inst, conn, pendingAccepts, client,
                     unread, writes, handle, reading, faults>>
  BY DEF WorkerReturn
<1>3. LoopType(Reqs)' /\ \A r : Copies(r)' = Copies(r) + Is(WorkReq, r)
  BY <1>1, <1>2, CopiesPost, ReqsMembers
<1>4. ServerType'
  BY <1>1, <1>2 DEF ServerType
<1>5. WorkInv'
  BY <1>1, <1>2, <1>3, CountsType DEF WorkInv, Is, Has
<1>6. AcceptsInv' /\ ReadsInv'
  BY <1>1, <1>2, <1>3, CountsType, ReqsDiffer DEF AcceptsInv, ReadsInv, Is, Has
<1>7. /\ WalkInv' /\ LinkInv' /\ InstInv' /\ OwnerInv' /\ HandleInv'
      /\ ServeInv' /\ ReadBeforeClose'
  BY <1>1, <1>2 DEF WalkInv, LinkInv, InstInv, OwnerInv, HandleInv, ServeInv,
                    ReadBeforeClose
<1> QED
  BY <1>3, <1>4, <1>5, <1>6, <1>7, Together
-------------------------------------------------------------------------------
(* The callbacks. *)

\* What a callback does to the copies: it uses up its own and adds those that
\* it puts into the ring and posts.
LEMMA CallbackCopies ==
  ASSUME IInv, NEW e \in Reqs, Processing(e),
         NEW a \in Seq(Reqs), NEW b \in Seq(Reqs),
         ring' = ring \o a, iocp' = iocp \o b,
         UNCHANGED <<lpc, inserting, lost>>
  PROVE  /\ LoopType(Reqs)' /\ WalkInv'
         /\ \A r : /\ Copies(r)' + Is(e, r)
                        = Copies(r) + Count(a, r) + Count(b, r)
                   /\ Copies(r) \in Nat /\ Copies(r)' \in Nat
                   /\ Count(a, r) \in Nat /\ Count(b, r) \in Nat
<1>1. LoopType(Reqs)
  BY Parts
<1>2. batch # <<>> /\ batch' = Tail(batch) /\ Head(batch) = e
      /\ lpc \in {"process", "process_more"}
  BY DEF Processing
<1>3. LoopType(Reqs)'
  BY <1>1, <1>2, CopiesCallback
<1>4. WalkInv'
  BY <1>2 DEF WalkInv
<1>5. \A r : Copies(r)' + Is(e, r)
               = Copies(r) + Count(a, r) + Count(b, r)
  <2>1. UNCHANGED <<inserting, lost>>
    OBVIOUS
  <2>2. \A r : Copies(r)' + Is(Head(batch), r)
                 = Copies(r) + Count(a, r) + Count(b, r)
    BY <1>1, <1>2, <2>1, CopiesCallback, Zenon
  <2> QED
    BY <1>2, <2>2, Zenon
<1>6. ASSUME NEW r
      PROVE  Count(a, r) \in Nat /\ Count(b, r) \in Nat /\ Copies(r) \in Nat
  BY <1>1, AtFinite, CountsType, Zenon
<1>7. ASSUME NEW r PROVE Copies(r)' \in Nat
  <2>1. /\ Count(ring, r)' \in Nat /\ Count(batch, r)' \in Nat
        /\ Count(iocp, r)' \in Nat
    BY <1>3, AtFinite DEF LoopType
  <2>2. Is(inserting.req, r)' \in Nat /\ Has(lost, r)' \in Nat
    BY DEF Is, Has
  <2> QED
    BY <2>1, <2>2 DEF Copies
<1> QED
  BY <1>3, <1>4, <1>5, <1>6, <1>7

\* A step keeps client b, up to the drop of one that nobody had accepted.
Keeps(b) ==
  client'[b] = client[b] \/ (client[b] = "out" /\ client'[b] = "dropped")

\* The instance that is armed again, and the client that it found, if any.
LEMMA RearmShape ==
  ASSUME ServerType, NEW i \in Insts, NEW again, Rearm(i, again)
  PROVE  \E s \in {"waiting", "connected", "error"}, d \in Clients \cup {NoClient} :
           /\ inst' = [inst EXCEPT ![i] = s] /\ conn' = [conn EXCEPT ![i] = d]
           /\ again = IF s # "waiting" THEN <<AcceptReq(i)>> ELSE <<>>
           /\ IF s = "connected"
              THEN d \in Clients /\ client[d] = "out" /\ client'[d] = "in"
              ELSE d = NoClient
           /\ client' \in [Clients -> {"out", "in", "gone", "dropped"}]
           /\ \A b \in Clients : b = d \/ Keeps(b)
           /\ faults' \in 0..MaxFaults /\ faults' >= faults
<1>1. faults \in 0..MaxFaults /\ MaxFaults \in Nat
  BY PipeServerAssumption DEF ServerType
<1>2. CASE /\ again = <<>> /\ inst' = [inst EXCEPT ![i] = "waiting"]
           /\ conn' = [conn EXCEPT ![i] = NoClient]
           /\ UNCHANGED <<client, faults>>
  <2>1. \A b \in Clients : b = NoClient \/ Keeps(b)
    BY <1>2 DEF Keeps
  <2> WITNESS "waiting" \in {"waiting", "connected", "error"},
              NoClient \in Clients \cup {NoClient}
  <2> QED
    BY <1>1, <1>2, <2>1 DEF ServerType
<1>3. CASE /\ again = <<AcceptReq(i)>>
           /\ inst' = [inst EXCEPT ![i] = "connected"]
           /\ \E c \in Clients :
                /\ client[c] = "out"
                /\ client' = [client EXCEPT ![c] = "in"]
                /\ conn' = [conn EXCEPT ![i] = c]
           /\ UNCHANGED faults
  <2>1. PICK c \in Clients : /\ client[c] = "out"
                             /\ client' = [client EXCEPT ![c] = "in"]
                             /\ conn' = [conn EXCEPT ![i] = c]
    BY <1>3
  <2>2. /\ again = <<AcceptReq(i)>> /\ inst' = [inst EXCEPT ![i] = "connected"]
        /\ faults' = faults
    BY <1>3
  <2>3. /\ client' \in [Clients -> {"out", "in", "gone", "dropped"}]
        /\ client'[c] = "in" /\ \A b \in Clients : b = c \/ Keeps(b)
    BY <2>1 DEF ServerType, Keeps
  <2> WITNESS "connected" \in {"waiting", "connected", "error"},
              c \in Clients \cup {NoClient}
  <2> QED
    BY <1>1, <2>1, <2>2, <2>3
<1>4. CASE /\ again = <<AcceptReq(i)>>
           /\ inst' = [inst EXCEPT ![i] = "error"]
           /\ conn' = [conn EXCEPT ![i] = NoClient]
           /\ \/ Fail /\ UNCHANGED client
              \/ /\ \E c \in Clients :
                      client[c] = "out" /\ client' = [client EXCEPT ![c] = "dropped"]
                 /\ UNCHANGED faults
  <2>1. faults' \in 0..MaxFaults /\ faults' >= faults
    BY <1>1, <1>4 DEF Fail
  <2>2. /\ client' \in [Clients -> {"out", "in", "gone", "dropped"}]
        /\ \A b \in Clients : b = NoClient \/ Keeps(b)
    BY <1>4 DEF ServerType, Keeps
  <2> WITNESS "error" \in {"waiting", "connected", "error"},
              NoClient \in Clients \cup {NoClient}
  <2> QED
    BY <1>4, <2>1, <2>2
<1> QED
  BY <1>2, <1>3, <1>4 DEF Rearm

LEMMA RearmCount ==
  ASSUME NEW i \in Insts, NEW p \in BOOLEAN, NEW r
  PROVE  /\ (IF p THEN <<AcceptReq(i)>> ELSE <<>>) \in Seq(Reqs)
         /\ Count(IF p THEN <<AcceptReq(i)>> ELSE <<>>, r)
              = IF p THEN Is(AcceptReq(i), r) ELSE 0
<1>1. AcceptReq(i) \in Reqs
  BY ReqsMembers
<1> QED
  BY <1>1, CountIf

\* The request of a zero-read that does not wait.
LEMMA ReadCount ==
  ASSUME NEW c \in Clients, NEW n \in Nat, NEW r
  PROVE  /\ ReadFailed(c, n) \in Seq(Reqs) /\ ReadPosted(c, n) \in Seq(Reqs)
         /\ Count(ReadFailed(c, n), r)
              = IF n = 0 /\ client[c] = "gone" THEN Is(ReadReq(c), r) ELSE 0
         /\ Count(ReadPosted(c, n), r) = IF n > 0 THEN Is(ReadReq(c), r) ELSE 0
<1>1. ReadReq(c) \in Reqs
  BY ReqsMembers
<1>2. <<ReadReq(c)>> \in Seq(Reqs) /\ <<>> \in Seq(Reqs)
  BY <1>1
<1>3. Count(<<ReadReq(c)>>, r) = Is(ReadReq(c), r) /\ Count(<<>>, r) = 0
  BY CountOne, CountEmpty
<1> QED
  BY <1>2, <1>3 DEF ReadFailed, ReadPosted

LEMMA AcceptInv ==
  ASSUME IInv, NEW i \in Insts, Accept(i)
  PROVE  IInv'
<1>1. /\ LoopType(Reqs) /\ ServerType /\ WalkInv /\ WorkInv /\ LinkInv
      /\ InstInv /\ OwnerInv /\ HandleInv /\ ServeInv
      /\ AcceptsInv /\ ReadsInv /\ ReadBeforeClose
  BY Parts
<1> DEFINE c == conn[i]
           n == unread[c]
<1>2. /\ Processing(AcceptReq(i)) /\ inst[i] = "connected"
      /\ lpc \in {"process", "process_more"}
      /\ handle' = [handle EXCEPT ![c] = "reading"]
      /\ active' = active \cup {c}
      /\ reading' = [reading EXCEPT ![c] = ReadWaits(c, n)]
      /\ iocp' = iocp \o ReadPosted(c, n)
      /\ UNCHANGED <<lpc, reqs, endgame, inserting, lost, worker, next, server,
                     nameFree, pendingAccepts, unread, writes>>
  BY DEF Accept, Processing
<1>3. PICK again \in {<<>>, <<AcceptReq(i)>>} :
        Rearm(i, again) /\ ring' = ring \o again \o ReadFailed(c, n)
  BY DEF Accept
<1>4. PICK s \in {"waiting", "connected", "error"}, d \in Clients \cup {NoClient} :
        /\ inst' = [inst EXCEPT ![i] = s] /\ conn' = [conn EXCEPT ![i] = d]
        /\ again = IF s # "waiting" THEN <<AcceptReq(i)>> ELSE <<>>
        /\ IF s = "connected"
           THEN d \in Clients /\ client[d] = "out" /\ client'[d] = "in"
           ELSE d = NoClient
        /\ client' \in [Clients -> {"out", "in", "gone", "dropped"}]
        /\ \A b \in Clients : b = d \/ Keeps(b)
        /\ faults' \in 0..MaxFaults /\ faults' >= faults
  BY <1>1, <1>3, RearmShape
<1>5. /\ c \in Clients /\ handle[c] = "none" /\ client[c] \in {"in", "gone"}
      /\ c # NoClient /\ d # c /\ c \notin endgame
      /\ n \in Nat
  <2>1. c \in Clients
    BY <1>1, <1>2 DEF InstInv
  <2>2. c # NoClient
    BY <2>1, NoClientApart
  <2>3. handle[c] = "none" /\ client[c] \in {"in", "gone"}
    BY <1>1, <2>2 DEF OwnerInv
  <2>4. client[c] \in {"in", "gone"} /\ n \in Nat
    BY <1>1, <2>1, <2>3, PipeServerAssumption DEF ServerType
  <2> QED
    BY <1>1, <1>4, <2>1, <2>2, <2>3, <2>4 DEF HandleInv
<1> HIDE DEF c, n
<1>6. /\ again \in Seq(Reqs) /\ ReadFailed(c, n) \in Seq(Reqs)
      /\ ReadPosted(c, n) \in Seq(Reqs) /\ again \o ReadFailed(c, n) \in Seq(Reqs)
  <2>1. again \in Seq(Reqs)
    BY <1>4, RearmCount
  <2>2. ReadFailed(c, n) \in Seq(Reqs) /\ ReadPosted(c, n) \in Seq(Reqs)
    BY <1>5, ReadCount
  <2> QED
    BY <2>1, <2>2
<1>7. ring' = ring \o (again \o ReadFailed(c, n))
  <2>1. ring \in Seq(Reqs)
    BY <1>1 DEF LoopType
  <2>2. (ring \o again) \o ReadFailed(c, n) = ring \o (again \o ReadFailed(c, n))
    BY <1>6, <2>1, ConcatAssociative, SMT
  <2> QED
    BY <1>3, <2>2, Zenon
<1>8. /\ LoopType(Reqs)' /\ WalkInv'
      /\ \A r : /\ Copies(r)' + Is(AcceptReq(i), r)
                     = Copies(r) + Count(again \o ReadFailed(c, n), r)
                         + Count(ReadPosted(c, n), r)
                /\ Copies(r) \in Nat /\ Copies(r)' \in Nat
                /\ Count(again \o ReadFailed(c, n), r) \in Nat
                /\ Count(ReadPosted(c, n), r) \in Nat
  <2>1. AcceptReq(i) \in Reqs
    BY ReqsMembers
  <2>2. UNCHANGED <<lpc, inserting, lost>>
    BY <1>2
  <2> QED
    BY <1>2, <1>6, <1>7, <2>1, <2>2, CallbackCopies, Zenon
<1>9. \A r : Copies(r)' + Is(AcceptReq(i), r)
               = Copies(r) + (IF s # "waiting" THEN Is(AcceptReq(i), r) ELSE 0)
                   + (IF n = 0 /\ client[c] = "gone" THEN Is(ReadReq(c), r) ELSE 0)
                   + (IF n > 0 THEN Is(ReadReq(c), r) ELSE 0)
  <2> SUFFICES ASSUME NEW r
               PROVE  Copies(r)' + Is(AcceptReq(i), r)
               = Copies(r) + (IF s # "waiting" THEN Is(AcceptReq(i), r) ELSE 0)
                   + (IF n = 0 /\ client[c] = "gone" THEN Is(ReadReq(c), r) ELSE 0)
                   + (IF n > 0 THEN Is(ReadReq(c), r) ELSE 0)
    OBVIOUS
  <2>1. Count(again \o ReadFailed(c, n), r)
          = Count(again, r) + Count(ReadFailed(c, n), r)
    BY <1>6, CountConcat
  <2>2. Count(again, r) = IF s # "waiting" THEN Is(AcceptReq(i), r) ELSE 0
    BY <1>4, RearmCount
  <2>3. /\ Count(ReadFailed(c, n), r)
             = IF n = 0 /\ client[c] = "gone" THEN Is(ReadReq(c), r) ELSE 0
        /\ Count(ReadPosted(c, n), r) = IF n > 0 THEN Is(ReadReq(c), r) ELSE 0
    BY <1>5, ReadCount
  <2>4. Is(AcceptReq(i), r) \in Nat /\ Is(ReadReq(c), r) \in Nat
    BY DEF Is
  <2>5. Copies(r)' + Is(AcceptReq(i), r)
          = Copies(r) + Count(again \o ReadFailed(c, n), r)
              + Count(ReadPosted(c, n), r)
    BY <1>8
  <2>6. Copies(r) \in Nat /\ Copies(r)' \in Nat
    BY <1>8
  <2> QED
    BY <2>6, <2>1, <2>2, <2>3, <2>4, <2>5
<1>10. /\ inst' \in [Insts -> {"none", "created", "early", "waiting",
                               "connected", "pending", "error"}]
       /\ inst'[i] = s /\ \A j \in Insts : j # i => inst'[j] = inst[j]
       /\ conn' \in [Insts -> Clients \cup {NoClient}]
       /\ conn'[i] = d /\ \A j \in Insts : j # i => conn'[j] = conn[j]
       /\ handle' \in [Clients -> {"none", "reading", "closing", "closed"}]
       /\ handle'[c] = "reading"
       /\ \A b \in Clients : b # c => handle'[b] = handle[b]
       /\ reading' \in [Clients -> BOOLEAN]
       /\ reading'[c] = (n = 0 /\ client[c] = "in")
       /\ \A b \in Clients : b # c => reading'[b] = reading[b]
       /\ client' \in [Clients -> {"out", "in", "gone", "dropped"}]
       /\ client'[c] = client[c]
       /\ d \in Clients => client'[d] = "in" /\ client[d] = "out"
       /\ \A b \in Clients : b # d => (client'[b] \in {"in", "gone"} <=> client[b] \in {"in", "gone"})
  BY <1>1, <1>2, <1>4, <1>5, NoClientApart DEF ServerType, ReadWaits, Keeps
<1>11. ServerType'
  <2>1. active' \subseteq {"server"} \cup Clients
    BY <1>1, <1>2, <1>5 DEF ServerType
  <2>2. faults' \in 0..MaxFaults
    BY <1>4
  <2> QED
    BY <1>1, <1>2, <1>10, <2>1, <2>2 DEF ServerType
<1>12. WorkInv'
  <2>1. Copies(WorkReq)' = Copies(WorkReq)
    BY <1>5, <1>8, <1>9, ReqsDiffer DEF Is
  <2> QED
    BY <1>1, <1>2, <2>1 DEF WorkInv
<1>13. LinkInv' /\ ServeInv'
  BY <1>1, <1>2, <1>10 DEF LinkInv, ServeInv
<1>14. InstInv'
  BY <1>1, <1>4, <1>10 DEF InstInv
<1>15. HandleInv'
  BY <1>1, <1>2, <1>5, <1>10 DEF HandleInv
<1>16. ReadBeforeClose'
  BY <1>1, <1>2, <1>4, <1>10, PipeServerAssumption DEF ReadBeforeClose, ServerType
<1>17. AcceptsInv'
  <2> SUFFICES ASSUME NEW j \in Insts
               PROVE  Copies(AcceptReq(j))'
                        = IF inst'[j] \in {"connected", "error"} THEN 1 ELSE 0
    BY DEF AcceptsInv
  <2>1. Copies(AcceptReq(j)) = IF inst[j] \in {"connected", "error"} THEN 1 ELSE 0
    BY <1>1, <1>2 DEF AcceptsInv
  <2>2. Is(ReadReq(c), AcceptReq(j)) = 0
    BY ReqsDiffer DEF Is
  <2>3. CASE j = i
    BY <1>2, <1>8, <1>9, <1>10, <2>1, <2>2, <2>3 DEF Is
  <2>4. CASE j # i
    <3>1. Is(AcceptReq(i), AcceptReq(j)) = 0
      BY <2>4, ReqsDiffer DEF Is
    <3> QED
      BY <1>8, <1>9, <1>10, <2>1, <2>2, <2>4, <3>1
  <2> QED
    BY <2>3, <2>4
<1>18. ReadsInv'
  <2> SUFFICES ASSUME NEW b \in Clients
               PROVE  Copies(ReadReq(b))'
                        = IF handle'[b] = "reading" /\ ~reading'[b] THEN 1 ELSE 0
    BY DEF ReadsInv
  <2>1. Copies(ReadReq(b))
          = IF handle[b] = "reading" /\ ~reading[b] THEN 1 ELSE 0
    BY <1>1, <1>2 DEF ReadsInv
  <2>2. Is(AcceptReq(i), ReadReq(b)) = 0
    BY ReqsDiffer DEF Is
  <2>3. CASE b = c
    <3>1. Is(ReadReq(c), ReadReq(b)) = 1
      BY <2>3 DEF Is
    <3>2. Copies(ReadReq(b)) = 0
      BY <1>5, <2>1, <2>3
    <3>3. Copies(ReadReq(b))' = (IF n = 0 /\ client[c] = "gone" THEN 1 ELSE 0)
                                  + (IF n > 0 THEN 1 ELSE 0)
      BY <1>8, <1>9, <2>2, <3>1, <3>2
    <3>4. handle'[b] = "reading" /\ (reading'[b] <=> n = 0 /\ client[c] = "in")
      BY <1>10, <2>3
    <3>5. (handle'[b] = "reading" /\ ~reading'[b]) <=> ~(n = 0 /\ client[c] = "in")
      BY <3>4
    <3>6. Copies(ReadReq(b))' = IF n = 0 /\ client[c] = "in" THEN 0 ELSE 1
      BY <1>5, <3>3
    <3> QED
      BY <3>5, <3>6
  <2>4. CASE b # c
    <3>1. Is(ReadReq(c), ReadReq(b)) = 0
      BY <2>4, ReqsDiffer DEF Is
    <3> QED
      BY <1>8, <1>9, <1>10, <2>1, <2>2, <2>4, <3>1
  <2> QED
    BY <2>3, <2>4
<1>19. OwnerInv'
  <2>1. \A b \in Clients : handle'[b] # "none" => client'[b] \in {"in", "gone"}
    BY <1>1, <1>5, <1>10 DEF OwnerInv
  <2>2. ASSUME NEW b \in Clients, client'[b] \in {"in", "gone"}, handle'[b] = "none"
        PROVE  \E j \in Insts : conn'[j] = b
    BY <1>1, <1>5, <1>10, <2>2 DEF OwnerInv, c
  <2>3. ASSUME NEW j \in Insts, conn'[j] # NoClient
        PROVE  /\ handle'[conn'[j]] = "none" /\ client'[conn'[j]] \in {"in", "gone"}
               /\ \A k \in Insts : conn'[k] = conn'[j] => k = j
    BY <1>1, <1>5, <1>10, <2>3 DEF OwnerInv, c
  <2> QED
    BY <2>1, <2>2, <2>3 DEF OwnerInv
<1> QED
  BY <1>8, <1>11, <1>12, <1>13, <1>14, <1>15, <1>16, <1>17, <1>18, <1>19, Together

\* The error of an instance that could not be created or connected: it is
\* armed again, and nobody gets a handle.
LEMMA AcceptErrorInv ==
  ASSUME IInv, NEW i \in Insts, AcceptError(i)
  PROVE  IInv'
<1>1. /\ LoopType(Reqs) /\ ServerType /\ WalkInv /\ WorkInv /\ LinkInv
      /\ InstInv /\ OwnerInv /\ HandleInv /\ ServeInv
      /\ AcceptsInv /\ ReadsInv /\ ReadBeforeClose
  BY Parts
<1>2. /\ Processing(AcceptReq(i)) /\ inst[i] = "error" /\ conn[i] = NoClient
      /\ lpc \in {"process", "process_more"}
      /\ UNCHANGED <<lpc, iocp, active, reqs, endgame, inserting, lost, worker,
                     next, server, nameFree, pendingAccepts, unread, writes,
                     handle, reading>>
  BY <1>1 DEF AcceptError, Processing, InstInv
<1>3. PICK again \in {<<>>, <<AcceptReq(i)>>} :
        Rearm(i, again) /\ ring' = ring \o again
  BY DEF AcceptError
<1>4. PICK s \in {"waiting", "connected", "error"}, d \in Clients \cup {NoClient} :
        /\ inst' = [inst EXCEPT ![i] = s] /\ conn' = [conn EXCEPT ![i] = d]
        /\ again = IF s # "waiting" THEN <<AcceptReq(i)>> ELSE <<>>
        /\ IF s = "connected"
           THEN d \in Clients /\ client[d] = "out" /\ client'[d] = "in"
           ELSE d = NoClient
        /\ client' \in [Clients -> {"out", "in", "gone", "dropped"}]
        /\ \A b \in Clients : b = d \/ Keeps(b)
        /\ faults' \in 0..MaxFaults /\ faults' >= faults
  BY <1>1, <1>3, RearmShape
<1>5. again \in Seq(Reqs) /\ <<>> \in Seq(Reqs) /\ iocp' = iocp \o <<>>
  <2>1. again \in Seq(Reqs)
    BY <1>4, RearmCount
  <2>2. iocp \in Seq(Reqs)
    BY <1>1 DEF LoopType
  <2> QED
    BY <1>2, <2>1, <2>2
<1>6. /\ LoopType(Reqs)' /\ WalkInv'
      /\ \A r : /\ Copies(r)' + Is(AcceptReq(i), r)
                     = Copies(r) + Count(again, r) + Count(<<>>, r)
                /\ Copies(r) \in Nat /\ Copies(r)' \in Nat
                /\ Count(again, r) \in Nat /\ Count(<<>>, r) \in Nat
  <2>1. AcceptReq(i) \in Reqs
    BY ReqsMembers
  <2>2. UNCHANGED <<lpc, inserting, lost>>
    BY <1>2
  <2> QED
    BY <1>2, <1>3, <1>5, <2>1, <2>2, CallbackCopies, Zenon
<1>7. \A r : Copies(r)' + Is(AcceptReq(i), r)
               = Copies(r) + (IF s # "waiting" THEN Is(AcceptReq(i), r) ELSE 0)
  <2> SUFFICES ASSUME NEW r
               PROVE  Copies(r)' + Is(AcceptReq(i), r)
               = Copies(r) + (IF s # "waiting" THEN Is(AcceptReq(i), r) ELSE 0)
    OBVIOUS
  <2>1. Count(again, r) = IF s # "waiting" THEN Is(AcceptReq(i), r) ELSE 0
    BY <1>4, RearmCount
  <2>2. Count(<<>>, r) = 0
    BY CountEmpty
  <2>3. Is(AcceptReq(i), r) \in Nat
    BY DEF Is
  <2> QED
    BY <1>6, <2>1, <2>2, <2>3
<1>8. /\ inst' \in [Insts -> {"none", "created", "early", "waiting",
                              "connected", "pending", "error"}]
      /\ inst'[i] = s /\ \A j \in Insts : j # i => inst'[j] = inst[j]
      /\ conn' \in [Insts -> Clients \cup {NoClient}]
      /\ conn'[i] = d /\ \A j \in Insts : j # i => conn'[j] = conn[j]
      /\ client' \in [Clients -> {"out", "in", "gone", "dropped"}]
      /\ d \in Clients => /\ client'[d] = "in" /\ client[d] = "out"
                          /\ handle[d] = "none"
      /\ \A b \in Clients : b # d => (client'[b] \in {"in", "gone"} <=> client[b] \in {"in", "gone"})
  <2>1. d \in Clients => client[d] = "out" /\ d # NoClient
    BY <1>4, NoClientApart
  <2>2. d \in Clients => handle[d] = "none"
    BY <1>1, <2>1 DEF OwnerInv
  <2>3. /\ inst' \in [Insts -> {"none", "created", "early", "waiting",
                                "connected", "pending", "error"}]
        /\ inst'[i] = s /\ \A j \in Insts : j # i => inst'[j] = inst[j]
    BY <1>1, <1>4 DEF ServerType
  <2>4. /\ conn' \in [Insts -> Clients \cup {NoClient}]
        /\ conn'[i] = d /\ \A j \in Insts : j # i => conn'[j] = conn[j]
    BY <1>1, <1>4 DEF ServerType
  <2>5. /\ client' \in [Clients -> {"out", "in", "gone", "dropped"}]
        /\ d \in Clients => client'[d] = "in"
        /\ \A b \in Clients : b # d => (client'[b] \in {"in", "gone"} <=> client[b] \in {"in", "gone"})
    BY <1>1, <1>4, <2>1 DEF ServerType, Keeps
  <2> QED
    BY <2>1, <2>2, <2>3, <2>4, <2>5
<1>9. ServerType'
  BY <1>1, <1>2, <1>4, <1>8 DEF ServerType
<1>10. WorkInv'
  <2>1. Copies(WorkReq)' = Copies(WorkReq)
    BY <1>6, <1>7, ReqsDiffer DEF Is
  <2> QED
    BY <1>1, <1>2, <2>1 DEF WorkInv
<1>11. LinkInv' /\ ServeInv' /\ InstInv' /\ HandleInv'
  BY <1>1, <1>2, <1>4, <1>8 DEF LinkInv, ServeInv, InstInv, HandleInv
<1>12. ReadBeforeClose'
  BY <1>1, <1>2, <1>4, PipeServerAssumption DEF ReadBeforeClose, ServerType
<1>13. AcceptsInv'
  <2> SUFFICES ASSUME NEW j \in Insts
               PROVE  Copies(AcceptReq(j))'
                        = IF inst'[j] \in {"connected", "error"} THEN 1 ELSE 0
    BY DEF AcceptsInv
  <2>1. Copies(AcceptReq(j)) = IF inst[j] \in {"connected", "error"} THEN 1 ELSE 0
    BY <1>1, <1>2 DEF AcceptsInv
  <2>2. CASE j = i
    BY <1>2, <1>6, <1>7, <1>8, <2>1, <2>2 DEF Is
  <2>3. CASE j # i
    <3>1. Is(AcceptReq(i), AcceptReq(j)) = 0
      BY <2>3, ReqsDiffer DEF Is
    <3> QED
      BY <1>6, <1>7, <1>8, <2>1, <2>3, <3>1
  <2> QED
    BY <2>2, <2>3
<1>14. ReadsInv'
  <2>1. \A c \in Clients : Copies(ReadReq(c))' = Copies(ReadReq(c))
    BY <1>6, <1>7, ReqsDiffer DEF Is
  <2> QED
    BY <1>1, <1>2, <2>1 DEF ReadsInv
<1>15. OwnerInv'
  <2>1. \A b \in Clients : handle'[b] # "none" => client'[b] \in {"in", "gone"}
    BY <1>1, <1>2, <1>8 DEF OwnerInv
  <2>2. ASSUME NEW b \in Clients, client'[b] \in {"in", "gone"}, handle'[b] = "none"
        PROVE  \E j \in Insts : conn'[j] = b
    BY <1>1, <1>2, <1>8, <2>2, NoClientApart DEF OwnerInv
  <2>3. ASSUME NEW j \in Insts, conn'[j] # NoClient
        PROVE  /\ handle'[conn'[j]] = "none" /\ client'[conn'[j]] \in {"in", "gone"}
               /\ \A k \in Insts : conn'[k] = conn'[j] => k = j
    BY <1>1, <1>2, <1>8, <2>3 DEF OwnerInv
  <2> QED
    BY <2>1, <2>2, <2>3 DEF OwnerInv
<1> QED
  BY <1>6, <1>9, <1>10, <1>11, <1>12, <1>13, <1>14, <1>15, Together

\* The callback that gets no memory: the client stays at its instance.
LEMMA AcceptNoMemoryInv ==
  ASSUME IInv, NEW i \in Insts, AcceptNoMemory(i)
  PROVE  IInv'
<1>1. /\ LoopType(Reqs) /\ ServerType /\ WalkInv /\ WorkInv /\ LinkInv
      /\ InstInv /\ OwnerInv /\ HandleInv /\ ServeInv
      /\ AcceptsInv /\ ReadsInv /\ ReadBeforeClose
  BY Parts
<1>2. /\ Processing(AcceptReq(i)) /\ inst[i] = "connected" /\ Fail
      /\ lpc \in {"process", "process_more"}
      /\ inst' = [inst EXCEPT ![i] = "pending"]
      /\ pendingAccepts' = <<i>> \o pendingAccepts
      /\ UNCHANGED <<lpc, ring, iocp, active, reqs, endgame, inserting, lost,
                     worker, next, server, nameFree, conn, client, unread,
                     writes, handle, reading>>
  BY DEF AcceptNoMemory, Processing
<1>3. <<>> \in Seq(Reqs) /\ iocp' = iocp \o <<>> /\ ring' = ring \o <<>>
  BY <1>1, <1>2 DEF LoopType
<1>4. /\ LoopType(Reqs)' /\ WalkInv'
      /\ \A r : /\ Copies(r)' + Is(AcceptReq(i), r)
                     = Copies(r) + Count(<<>>, r) + Count(<<>>, r)
                /\ Copies(r) \in Nat /\ Copies(r)' \in Nat
  <2>1. AcceptReq(i) \in Reqs
    BY ReqsMembers
  <2>2. UNCHANGED <<lpc, inserting, lost>>
    BY <1>2
  <2> QED
    BY <1>2, <1>3, <2>1, <2>2, CallbackCopies, Zenon
<1>5. \A r : Copies(r)' + Is(AcceptReq(i), r) = Copies(r)
  BY <1>4, CountEmpty
<1>6. /\ inst' \in [Insts -> {"none", "created", "early", "waiting",
                              "connected", "pending", "error"}]
      /\ inst'[i] = "pending" /\ \A j \in Insts : j # i => inst'[j] = inst[j]
  BY <1>1, <1>2 DEF ServerType
<1>7. ServerType'
  <2>1. pendingAccepts' \in Seq(Insts)
    BY <1>1, <1>2 DEF ServerType
  <2>2. faults' \in 0..MaxFaults
    BY <1>1, <1>2, PipeServerAssumption DEF ServerType, Fail
  <2> QED
    BY <1>1, <1>2, <1>6, <2>1, <2>2 DEF ServerType
<1>8. WorkInv'
  <2>1. Copies(WorkReq)' = Copies(WorkReq)
    BY <1>4, <1>5, ReqsDiffer DEF Is
  <2> QED
    BY <1>1, <1>2, <2>1 DEF WorkInv
<1>9. LinkInv' /\ ServeInv' /\ InstInv' /\ HandleInv' /\ OwnerInv'
  BY <1>1, <1>2, <1>6 DEF LinkInv, ServeInv, InstInv, HandleInv, OwnerInv
<1>10. ReadBeforeClose'
  BY <1>1, <1>2, PipeServerAssumption DEF ReadBeforeClose, ServerType, Fail
<1>11. AcceptsInv'
  <2> SUFFICES ASSUME NEW j \in Insts
               PROVE  Copies(AcceptReq(j))'
                        = IF inst'[j] \in {"connected", "error"} THEN 1 ELSE 0
    BY DEF AcceptsInv
  <2>1. Copies(AcceptReq(j)) = IF inst[j] \in {"connected", "error"} THEN 1 ELSE 0
    BY <1>1, <1>2 DEF AcceptsInv
  <2>2. CASE j = i
    BY <1>2, <1>4, <1>5, <1>6, <2>1, <2>2 DEF Is
  <2>3. CASE j # i
    <3>1. Is(AcceptReq(i), AcceptReq(j)) = 0
      BY <2>3, ReqsDiffer DEF Is
    <3> QED
      BY <1>4, <1>5, <1>6, <2>1, <2>3, <3>1
  <2> QED
    BY <2>2, <2>3
<1>12. ReadsInv'
  <2>1. \A c \in Clients : Copies(ReadReq(c))' = Copies(ReadReq(c))
    BY <1>4, <1>5, ReqsDiffer DEF Is
  <2> QED
    BY <1>1, <1>2, <2>1 DEF ReadsInv
<1> QED
  BY <1>4, <1>7, <1>8, <1>9, <1>10, <1>11, <1>12, Together

\* The data is read, and the next zero-read starts.
LEMMA OnDataInv ==
  ASSUME IInv, NEW c \in Clients, OnData(c)
  PROVE  IInv'
<1>1. /\ LoopType(Reqs) /\ ServerType /\ WalkInv /\ WorkInv /\ LinkInv
      /\ InstInv /\ OwnerInv /\ HandleInv /\ ServeInv
      /\ AcceptsInv /\ ReadsInv /\ ReadBeforeClose
  BY Parts
<1>2. /\ Processing(ReadReq(c)) /\ unread[c] > 0
      /\ lpc \in {"process", "process_more"}
      /\ unread' = [unread EXCEPT ![c] = 0]
      /\ reading' = [reading EXCEPT ![c] = ReadWaits(c, 0)]
      /\ ring' = ring \o ReadFailed(c, 0)
      /\ UNCHANGED <<lpc, iocp, active, reqs, endgame, inserting, lost, worker,
                     next, server, nameFree, inst, conn, pendingAccepts, client,
                     writes, handle, faults>>
  BY DEF OnData, Processing
<1>3. handle[c] = "reading" /\ reading[c] = FALSE
  <2>1. batch # <<>> /\ Head(batch) = ReadReq(c)
    BY <1>2 DEF Processing
  <2> QED
    BY <1>2, <2>1, OnTheWay
<1>4. client[c] \in {"in", "gone"}
  BY <1>1, <1>3 DEF OwnerInv, ServerType
<1>5. /\ ReadFailed(c, 0) \in Seq(Reqs) /\ <<>> \in Seq(Reqs)
      /\ iocp' = iocp \o <<>>
  <2>1. ReadFailed(c, 0) \in Seq(Reqs)
    BY ReadCount
  <2> QED
    BY <1>1, <1>2, <2>1 DEF LoopType
<1>6. /\ LoopType(Reqs)' /\ WalkInv'
      /\ \A r : /\ Copies(r)' + Is(ReadReq(c), r)
                     = Copies(r) + Count(ReadFailed(c, 0), r) + Count(<<>>, r)
                /\ Copies(r) \in Nat /\ Copies(r)' \in Nat
  <2>1. ReadReq(c) \in Reqs
    BY ReqsMembers
  <2>2. UNCHANGED <<lpc, inserting, lost>>
    BY <1>2
  <2> QED
    BY <1>2, <1>5, <2>1, <2>2, CallbackCopies, Zenon
<1>7. \A r : Copies(r)' + Is(ReadReq(c), r)
               = Copies(r) + (IF client[c] = "gone" THEN Is(ReadReq(c), r) ELSE 0)
  <2> SUFFICES ASSUME NEW r
               PROVE  Copies(r)' + Is(ReadReq(c), r)
               = Copies(r) + (IF client[c] = "gone" THEN Is(ReadReq(c), r) ELSE 0)
    OBVIOUS
  <2>1. Count(ReadFailed(c, 0), r)
          = IF client[c] = "gone" THEN Is(ReadReq(c), r) ELSE 0
    BY ReadCount
  <2>2. Count(<<>>, r) = 0
    BY CountEmpty
  <2>3. Is(ReadReq(c), r) \in Nat
    BY DEF Is
  <2> QED
    BY <1>6, <2>1, <2>2, <2>3
<1>8. /\ unread' \in [Clients -> 0..MaxMsgs]
      /\ unread'[c] = 0 /\ \A b \in Clients : b # c => unread'[b] = unread[b]
      /\ reading' \in [Clients -> BOOLEAN]
      /\ reading'[c] = (client[c] = "in")
      /\ \A b \in Clients : b # c => reading'[b] = reading[b]
  BY <1>1, <1>2, PipeServerAssumption DEF ServerType, ReadWaits
<1>9. ServerType'
  BY <1>1, <1>2, <1>8 DEF ServerType
<1>10. WorkInv'
  <2>1. Copies(WorkReq)' = Copies(WorkReq)
    BY <1>6, <1>7, ReqsDiffer DEF Is
  <2> QED
    BY <1>1, <1>2, <2>1 DEF WorkInv
<1>11. LinkInv' /\ ServeInv' /\ InstInv' /\ OwnerInv'
  BY <1>1, <1>2 DEF LinkInv, ServeInv, InstInv, OwnerInv
<1>12. HandleInv'
  BY <1>1, <1>2, <1>3, <1>8 DEF HandleInv, ServerType
<1>13. ReadBeforeClose'
  BY <1>1, <1>2, <1>8 DEF ReadBeforeClose
<1>14. AcceptsInv'
  <2>1. \A i \in Insts : Copies(AcceptReq(i))' = Copies(AcceptReq(i))
    BY <1>6, <1>7, ReqsDiffer DEF Is
  <2> QED
    BY <1>1, <1>2, <2>1 DEF AcceptsInv
<1>15. ReadsInv'
  <2> SUFFICES ASSUME NEW b \in Clients
               PROVE  Copies(ReadReq(b))'
                        = IF handle'[b] = "reading" /\ ~reading'[b] THEN 1 ELSE 0
    BY DEF ReadsInv
  <2>1. Copies(ReadReq(b))
          = IF handle[b] = "reading" /\ ~reading[b] THEN 1 ELSE 0
    BY <1>1, <1>2 DEF ReadsInv
  <2>2. CASE b = c
    <3>1. Is(ReadReq(c), ReadReq(b)) = 1
      BY <2>2 DEF Is
    <3> QED
      BY <1>2, <1>3, <1>4, <1>6, <1>7, <1>8, <2>1, <2>2, <3>1
  <2>3. CASE b # c
    <3>1. Is(ReadReq(c), ReadReq(b)) = 0
      BY <2>3, ReqsDiffer DEF Is
    <3> QED
      BY <1>2, <1>6, <1>7, <1>8, <2>1, <2>3, <3>1
  <2> QED
    BY <2>2, <2>3
<1> QED
  BY <1>6, <1>9, <1>10, <1>11, <1>12, <1>13, <1>14, <1>15, Together

\* The end of a connection, orderly or not: the read request is used up, and
\* the handle waits for its endgame.
LEMMA CloseInv ==
  ASSUME IInv, NEW c \in Clients, OnDataError(c) \/ OnEof(c)
  PROVE  IInv'
<1>1. /\ LoopType(Reqs) /\ ServerType /\ WalkInv /\ WorkInv /\ LinkInv
      /\ InstInv /\ OwnerInv /\ HandleInv /\ ServeInv
      /\ AcceptsInv /\ ReadsInv /\ ReadBeforeClose
  BY Parts
<1>2. /\ Processing(ReadReq(c))
      /\ lpc \in {"process", "process_more"}
      /\ handle' = [handle EXCEPT ![c] = "closing"]
      /\ endgame' = endgame \cup {c}
      /\ (unread[c] = 0 /\ faults' = faults) \/ Fail
      /\ UNCHANGED <<lpc, ring, iocp, active, reqs, inserting, lost, worker,
                     next, server, nameFree, inst, conn, pendingAccepts, client,
                     unread, writes, reading>>
  BY DEF OnDataError, OnEof, Close, Processing
<1>3. handle[c] = "reading" /\ reading[c] = FALSE
  <2>1. batch # <<>> /\ Head(batch) = ReadReq(c)
    BY <1>2 DEF Processing
  <2> QED
    BY <1>2, <2>1, OnTheWay
<1>4. <<>> \in Seq(Reqs) /\ iocp' = iocp \o <<>> /\ ring' = ring \o <<>>
  BY <1>1, <1>2 DEF LoopType
<1>5. /\ LoopType(Reqs)' /\ WalkInv'
      /\ \A r : /\ Copies(r)' + Is(ReadReq(c), r)
                     = Copies(r) + Count(<<>>, r) + Count(<<>>, r)
                /\ Copies(r) \in Nat /\ Copies(r)' \in Nat
  <2>1. ReadReq(c) \in Reqs
    BY ReqsMembers
  <2>2. UNCHANGED <<lpc, inserting, lost>>
    BY <1>2
  <2> QED
    BY <1>2, <1>4, <2>1, <2>2, CallbackCopies, Zenon
<1>6. \A r : Copies(r)' + Is(ReadReq(c), r) = Copies(r)
  BY <1>5, CountEmpty
<1>7. /\ handle' \in [Clients -> {"none", "reading", "closing", "closed"}]
      /\ handle'[c] = "closing"
      /\ \A b \in Clients : b # c => handle'[b] = handle[b]
      /\ faults' \in 0..MaxFaults
      /\ faults' = 0 => faults = 0 /\ unread[c] = 0
  BY <1>1, <1>2, PipeServerAssumption DEF ServerType, Fail
<1>8. ServerType'
  BY <1>1, <1>2, <1>7 DEF ServerType
<1>9. WorkInv'
  <2>1. Copies(WorkReq)' = Copies(WorkReq)
    BY <1>5, <1>6, ReqsDiffer DEF Is
  <2> QED
    BY <1>1, <1>2, <2>1 DEF WorkInv
<1>10. LinkInv' /\ ServeInv' /\ InstInv'
  BY <1>1, <1>2 DEF LinkInv, ServeInv, InstInv
<1>11. OwnerInv'
  <2>1. \A b \in Clients : handle'[b] = "none" <=> handle[b] = "none"
    BY <1>3, <1>7
  <2>2. \A j \in Insts : conn[j] # NoClient => conn[j] \in Clients
    BY <1>1 DEF ServerType
  <2> QED
    BY <1>1, <1>2, <2>1, <2>2 DEF OwnerInv
<1>12. HandleInv'
  BY <1>1, <1>2, <1>3, <1>7 DEF HandleInv
<1>13. ReadBeforeClose'
  BY <1>1, <1>2, <1>7 DEF ReadBeforeClose
<1>14. AcceptsInv'
  <2>1. \A i \in Insts : Copies(AcceptReq(i))' = Copies(AcceptReq(i))
    BY <1>5, <1>6, ReqsDiffer DEF Is
  <2> QED
    BY <1>1, <1>2, <2>1 DEF AcceptsInv
<1>15. ReadsInv'
  <2> SUFFICES ASSUME NEW b \in Clients
               PROVE  Copies(ReadReq(b))'
                        = IF handle'[b] = "reading" /\ ~reading'[b] THEN 1 ELSE 0
    BY DEF ReadsInv
  <2>1. Copies(ReadReq(b))
          = IF handle[b] = "reading" /\ ~reading[b] THEN 1 ELSE 0
    BY <1>1, <1>2 DEF ReadsInv
  <2>2. CASE b = c
    <3>1. Is(ReadReq(c), ReadReq(b)) = 1
      BY <2>2 DEF Is
    <3> QED
      BY <1>3, <1>5, <1>6, <1>7, <2>1, <2>2, <3>1
  <2>3. CASE b # c
    <3>1. Is(ReadReq(c), ReadReq(b)) = 0
      BY <2>3, ReqsDiffer DEF Is
    <3> QED
      BY <1>2, <1>5, <1>6, <1>7, <2>1, <2>3, <3>1
  <2> QED
    BY <2>2, <2>3
<1> QED
  BY <1>5, <1>8, <1>9, <1>10, <1>11, <1>12, <1>13, <1>14, <1>15, Together

\* The callback of the work itself.
LEMMA WorkDoneInv ==
  ASSUME IInv, WorkDone
  PROVE  IInv'
<1>1. /\ LoopType(Reqs) /\ ServerType /\ WalkInv /\ WorkInv /\ LinkInv
      /\ InstInv /\ OwnerInv /\ HandleInv /\ ServeInv
      /\ AcceptsInv /\ ReadsInv /\ ReadBeforeClose
  BY Parts
<1>2. /\ Processing(WorkReq) /\ reqs' = reqs - 1
      /\ lpc \in {"process", "process_more"}
      /\ UNCHANGED <<lpc, ring, iocp, active, endgame, inserting, lost>>
      /\ UNCHANGED <<worker, next, server, nameFree, inst, conn, pendingAccepts,
                     client, unread, writes, handle, reading, faults>>
  BY DEF WorkDone, Processing, serverVars
<1>3. <<>> \in Seq(Reqs) /\ iocp' = iocp \o <<>> /\ ring' = ring \o <<>>
  BY <1>1, <1>2 DEF LoopType
<1>4. /\ LoopType(Reqs)' /\ WalkInv'
      /\ \A r : /\ Copies(r)' + Is(WorkReq, r)
                     = Copies(r) + Count(<<>>, r) + Count(<<>>, r)
                /\ Copies(r) \in Nat /\ Copies(r)' \in Nat
  <2>1. UNCHANGED <<lpc, inserting, lost>>
    BY <1>2
  <2> QED
    BY <1>2, <1>3, <2>1, ReqsMembers, CallbackCopies, Zenon
<1>5. \A r : Copies(r)' + Is(WorkReq, r) = Copies(r)
  BY <1>4, CountEmpty
<1>6. Copies(WorkReq) >= 1
  <2>1. batch # <<>> /\ Head(batch) = WorkReq
    BY <1>2 DEF Processing
  <2> QED
    BY <1>2, <2>1, OnTheWay
<1>7. /\ reqs = 1 /\ reqs' = 0
      /\ Copies(WorkReq) = 1 /\ worker \in {"idle", "done"}
  BY <1>1, <1>2, <1>4, <1>6 DEF WorkInv, ServerType
<1>8. ServerType'
  BY <1>1, <1>2, <1>7 DEF ServerType
<1>9. WorkInv'
  <2>1. Copies(WorkReq)' = 0
    BY <1>4, <1>5, <1>7 DEF Is
  <2> QED
    BY <1>1, <1>2, <1>7, <2>1 DEF WorkInv
<1>10. AcceptsInv' /\ ReadsInv'
  <2>1. \A r : r # WorkReq => Copies(r)' = Copies(r)
    BY <1>4, <1>5 DEF Is
  <2> QED
    BY <1>1, <1>2, <2>1, ReqsDiffer DEF AcceptsInv, ReadsInv
<1>11. /\ LinkInv' /\ ServeInv' /\ InstInv' /\ OwnerInv' /\ HandleInv'
       /\ ReadBeforeClose'
  BY <1>1, <1>2 DEF LinkInv, ServeInv, InstInv, OwnerInv, HandleInv,
                    ReadBeforeClose
<1> QED
  BY <1>4, <1>8, <1>9, <1>10, <1>11, Together

-------------------------------------------------------------------------------
(* The clients. *)

LEMMA ClientConnectInv ==
  ASSUME IInv, NEW c \in Clients, ClientConnect(c)
  PROVE  IInv'
<1>1. /\ LoopType(Reqs) /\ ServerType /\ WalkInv /\ WorkInv /\ LinkInv
      /\ InstInv /\ OwnerInv /\ HandleInv /\ ServeInv
      /\ AcceptsInv /\ ReadsInv /\ ReadBeforeClose
  BY Parts
<1>2. /\ client[c] = "out" /\ client' = [client EXCEPT ![c] = "in"]
      /\ UNCHANGED <<lpc, ring, batch, active, reqs, endgame, inserting, lost,
                     worker, next, server, nameFree, pendingAccepts, unread,
                     writes, handle, reading, faults>>
  BY DEF ClientConnect
<1>3. PICK i \in Insts :
        /\ \/ inst[i] = "created" /\ inst' = [inst EXCEPT ![i] = "early"]
              /\ UNCHANGED iocp
           \/ inst[i] = "waiting" /\ inst' = [inst EXCEPT ![i] = "connected"]
              /\ Post(AcceptReq(i))
        /\ conn' = [conn EXCEPT ![i] = c]
  BY DEF ClientConnect
<1>4. /\ LoopType(Reqs)'
      /\ \A r : Copies(r)' = Copies(r)
           + (IF inst'[i] = "connected" /\ AcceptReq(i) = r THEN 1 ELSE 0)
  <2>1. CASE inst' = [inst EXCEPT ![i] = "early"] /\ UNCHANGED iocp
    <3>1. LoopType(Reqs)' /\ \A r : Copies(r)' = Copies(r)
      BY <1>1, <1>2, <2>1, CopiesUnchanged DEF LoopType
    <3>2. inst'[i] = "early"
      BY <1>1, <2>1 DEF ServerType
    <3>3. \A r : Copies(r) \in Nat
      BY <1>1, CountsType
    <3>4. ASSUME NEW r
          PROVE  Copies(r)' = Copies(r)
             + (IF inst'[i] = "connected" /\ AcceptReq(i) = r THEN 1 ELSE 0)
      BY <3>1, <3>2, <3>3
    <3> QED
      BY <3>1, <3>4
  <2>2. CASE inst' = [inst EXCEPT ![i] = "connected"] /\ Post(AcceptReq(i))
    <3>1. inst'[i] = "connected" /\ AcceptReq(i) \in Reqs
      BY <1>1, <2>2, ReqsMembers DEF ServerType
    <3>2. LoopType(Reqs)' /\ \A r : Copies(r)' = Copies(r) + Is(AcceptReq(i), r)
      BY <1>1, <1>2, <2>2, <3>1, CopiesPost
    <3> QED
      BY <3>1, <3>2 DEF Is
  <2> QED
    BY <1>3, <2>1, <2>2
<1>5. /\ inst[i] \in {"created", "waiting"} /\ inst'[i] \in {"early", "connected"}
      /\ \A j \in Insts : j # i => inst'[j] = inst[j]
      /\ inst' \in [Insts -> {"none", "created", "early", "waiting",
                              "connected", "pending", "error"}]
      /\ conn[i] = NoClient /\ conn'[i] = c
      /\ \A j \in Insts : j # i => conn'[j] = conn[j]
      /\ conn' \in [Insts -> Clients \cup {NoClient}]
      /\ client'[c] = "in" /\ \A b \in Clients : b # c => client'[b] = client[b]
      /\ client' \in [Clients -> {"out", "in", "gone", "dropped"}]
  BY <1>1, <1>2, <1>3 DEF ServerType, InstInv
<1>6. handle[c] = "none" /\ \A j \in Insts : conn[j] # c
  BY <1>1, <1>2, NoClientApart DEF OwnerInv
<1>7. ServerType'
  BY <1>1, <1>2, <1>5 DEF ServerType
<1>8. WorkInv'
  <2>1. Copies(WorkReq)' = Copies(WorkReq)
    BY <1>1, <1>4, CountsType, ReqsDiffer
  <2> QED
    BY <1>1, <1>2, <2>1 DEF WorkInv
<1>9. AcceptsInv'
  <2> SUFFICES ASSUME lpc # "undefined", NEW j \in Insts
               PROVE  Copies(AcceptReq(j))'
                        = (IF inst'[j] \in {"connected", "error"} THEN 1 ELSE 0)
    BY <1>2 DEF AcceptsInv
  <2>1. Copies(AcceptReq(j)) = (IF inst[j] \in {"connected", "error"} THEN 1 ELSE 0)
    BY <1>1 DEF AcceptsInv
  <2>2. CASE j = i
    BY <1>4, <1>5, <2>1, <2>2
  <2>3. CASE j # i
    BY <1>4, <1>5, <2>1, <2>3, ReqsDiffer
  <2> QED
    BY <2>2, <2>3
<1>10. ReadsInv'
  <2>1. \A b \in Clients : Copies(ReadReq(b))' = Copies(ReadReq(b))
    BY <1>1, <1>4, CountsType, ReqsDiffer
  <2> QED
    BY <1>1, <1>2, <2>1 DEF ReadsInv
<1>11. WalkInv' /\ HandleInv' /\ ServeInv' /\ ReadBeforeClose'
  BY <1>1, <1>2 DEF WalkInv, HandleInv, ServeInv, ReadBeforeClose
<1>12. LinkInv' /\ InstInv'
  BY <1>1, <1>2, <1>5 DEF LinkInv, InstInv
<1>13. OwnerInv'
  <2>1. \A b \in Clients : handle'[b] # "none" => client'[b] \in {"in", "gone"}
    BY <1>1, <1>2, <1>5, <1>6 DEF OwnerInv
  <2>2. ASSUME NEW b \in Clients, client'[b] \in {"in", "gone"}, handle'[b] = "none"
        PROVE  \E j \in Insts : conn'[j] = b
    BY <1>1, <1>2, <1>5, <2>2, NoClientApart DEF OwnerInv
  <2>3. ASSUME NEW j \in Insts, conn'[j] # NoClient
        PROVE  /\ handle'[conn'[j]] = "none" /\ client'[conn'[j]] \in {"in", "gone"}
               /\ \A k \in Insts : conn'[k] = conn'[j] => k = j
    <3>1. CASE j = i
      BY <1>1, <1>2, <1>5, <1>6, <3>1
    <3>2. CASE j # i
      <4>1. conn'[j] = conn[j] /\ conn[j] # NoClient /\ conn[j] # c
        BY <1>5, <1>6, <2>3, <3>2
      <4>2. conn[j] \in Clients
        BY <1>1, <4>1 DEF ServerType
      <4>3. /\ handle[conn[j]] = "none" /\ client[conn[j]] \in {"in", "gone"}
            /\ \A k \in Insts : conn[k] = conn[j] => k = j
        BY <1>1, <4>1 DEF OwnerInv
      <4> QED
        BY <1>2, <1>5, <4>1, <4>2, <4>3
    <3> QED
      BY <3>1, <3>2
  <2> QED
    BY <2>1, <2>2, <2>3 DEF OwnerInv
<1> QED
  BY <1>4, <1>7, <1>8, <1>9, <1>10, <1>11, <1>12, <1>13, Together

\* Whatever a client does ends a read that waits in the kernel, and only that
\* puts its request on the way.
LEMMA EndReadCopies ==
  ASSUME IInv, NEW c \in Clients, EndRead(c),
         UNCHANGED <<lpc, ring, batch, inserting, lost, handle, inst>>
  PROVE  /\ LoopType(Reqs)' /\ WalkInv' /\ AcceptsInv' /\ ReadsInv'
         /\ Copies(WorkReq)' = Copies(WorkReq)
         /\ reading' \in [Clients -> BOOLEAN] /\ reading'[c] = FALSE
         /\ \A b \in Clients : b # c => reading'[b] = reading[b]
<1>1. /\ LoopType(Reqs) /\ ServerType /\ WalkInv /\ WorkInv /\ LinkInv
      /\ InstInv /\ OwnerInv /\ HandleInv /\ ServeInv
      /\ AcceptsInv /\ ReadsInv /\ ReadBeforeClose
  BY Parts
<1>2. /\ reading' = [reading EXCEPT ![c] = FALSE]
      /\ iocp' = IF reading[c] THEN Append(iocp, ReadReq(c)) ELSE iocp
  BY DEF EndRead
<1>3. /\ reading' \in [Clients -> BOOLEAN] /\ reading'[c] = FALSE
      /\ \A b \in Clients : b # c => reading'[b] = reading[b]
      /\ reading[c] \in BOOLEAN
  BY <1>1, <1>2 DEF ServerType
<1>4. CASE ~reading[c]
  <2>1. LoopType(Reqs)' /\ \A r : Copies(r)' = Copies(r)
    BY <1>1, <1>2, <1>4, CopiesUnchanged DEF LoopType
  <2>2. \A b \in Clients : reading'[b] <=> reading[b]
    BY <1>3, <1>4
  <2>3. AcceptsInv' /\ ReadsInv' /\ WalkInv'
    BY <1>1, <2>1, <2>2 DEF AcceptsInv, ReadsInv, WalkInv
  <2> QED
    BY <1>3, <2>1, <2>3
<1>5. CASE reading[c]
  <2>1. ReadReq(c) \in Reqs /\ Post(ReadReq(c)) /\ handle[c] = "reading"
    BY <1>1, <1>2, <1>5, ReqsMembers DEF Post, HandleInv
  <2>2. LoopType(Reqs)' /\ \A r : Copies(r)' = Copies(r) + Is(ReadReq(c), r)
    BY <1>1, <2>1, CopiesPost
  <2>3. \A r : Copies(r) \in Nat
    BY <1>1, CountsType
  <2>4. \A r : r # ReadReq(c) => Copies(r)' = Copies(r)
    BY <2>2, <2>3 DEF Is
  <2>5. AcceptsInv' /\ WalkInv' /\ Copies(WorkReq)' = Copies(WorkReq)
    BY <1>1, <2>4, ReqsDiffer DEF AcceptsInv, WalkInv
  <2>6. ReadsInv'
    <3> SUFFICES ASSUME lpc # "undefined", NEW b \in Clients
                 PROVE  Copies(ReadReq(b))'
                          = (IF handle[b] = "reading" /\ ~reading'[b] THEN 1 ELSE 0)
      BY DEF ReadsInv
    <3>1. Copies(ReadReq(b)) = (IF handle[b] = "reading" /\ ~reading[b] THEN 1 ELSE 0)
      BY <1>1 DEF ReadsInv
    <3>2. CASE b = c
      <4>1. Is(ReadReq(c), ReadReq(b)) = 1
        BY <3>2 DEF Is
      <4> QED
        BY <1>3, <1>5, <2>1, <2>2, <3>1, <3>2, <4>1
    <3>3. CASE b # c
      BY <1>3, <2>4, <3>1, <3>3, ReqsDiffer
    <3> QED
      BY <3>2, <3>3
  <2> QED
    BY <1>3, <2>2, <2>5, <2>6
<1> QED
  BY <1>4, <1>5

LEMMA ClientWriteInv ==
  ASSUME IInv, NEW c \in Clients, ClientWrite(c)
  PROVE  IInv'
<1>1. /\ LoopType(Reqs) /\ ServerType /\ WalkInv /\ WorkInv /\ LinkInv
      /\ InstInv /\ OwnerInv /\ HandleInv /\ ServeInv
      /\ AcceptsInv /\ ReadsInv /\ ReadBeforeClose
  BY Parts
<1>2. /\ client[c] = "in" /\ writes[c] < MaxMsgs
      /\ handle[c] \notin {"closing", "closed"}
      /\ writes' = [writes EXCEPT ![c] = @ + 1]
      /\ unread' = [unread EXCEPT ![c] = @ + 1]
      /\ EndRead(c)
      /\ UNCHANGED <<lpc, ring, batch, active, reqs, endgame, inserting, lost,
                     worker, next, server, nameFree, inst, conn, pendingAccepts,
                     client, handle, faults>>
  BY DEF ClientWrite
<1>3. /\ LoopType(Reqs)' /\ WalkInv' /\ AcceptsInv' /\ ReadsInv'
      /\ Copies(WorkReq)' = Copies(WorkReq)
      /\ reading' \in [Clients -> BOOLEAN] /\ reading'[c] = FALSE
      /\ \A b \in Clients : b # c => reading'[b] = reading[b]
  BY <1>2, EndReadCopies
<1>4. /\ unread[c] <= writes[c] /\ unread[c] \in Nat /\ writes[c] \in Nat
      /\ writes[c] + 1 \in 0..MaxMsgs /\ unread[c] + 1 \in 0..MaxMsgs
  BY <1>1, <1>2, PipeServerAssumption DEF HandleInv, ServerType
<1>5. /\ writes' \in [Clients -> 0..MaxMsgs] /\ unread' \in [Clients -> 0..MaxMsgs]
      /\ writes'[c] = writes[c] + 1 /\ unread'[c] = unread[c] + 1
      /\ \A b \in Clients : b # c => writes'[b] = writes[b] /\ unread'[b] = unread[b]
  BY <1>1, <1>2, <1>4 DEF ServerType
<1>6. ServerType'
  BY <1>1, <1>2, <1>3, <1>5 DEF ServerType
<1>7. /\ WorkInv' /\ LinkInv' /\ InstInv' /\ OwnerInv' /\ ServeInv'
  BY <1>1, <1>2, <1>3 DEF WorkInv, LinkInv, InstInv, OwnerInv, ServeInv
<1>8. HandleInv'
  BY <1>1, <1>2, <1>3, <1>4, <1>5 DEF HandleInv
<1>9. ReadBeforeClose'
  BY <1>1, <1>2, <1>5 DEF ReadBeforeClose
<1> QED
  BY <1>3, <1>6, <1>7, <1>8, <1>9, Together

LEMMA ClientLeaveInv ==
  ASSUME IInv, NEW c \in Clients, ClientLeave(c)
  PROVE  IInv'
<1>1. /\ LoopType(Reqs) /\ ServerType /\ WalkInv /\ WorkInv /\ LinkInv
      /\ InstInv /\ OwnerInv /\ HandleInv /\ ServeInv
      /\ AcceptsInv /\ ReadsInv /\ ReadBeforeClose
  BY Parts
<1>2. /\ client[c] = "in" /\ client' = [client EXCEPT ![c] = "gone"]
      /\ EndRead(c)
      /\ UNCHANGED <<lpc, ring, batch, active, reqs, endgame, inserting, lost,
                     worker, next, server, nameFree, inst, conn, pendingAccepts,
                     unread, writes, handle, faults>>
  BY DEF ClientLeave
<1>3. /\ LoopType(Reqs)' /\ WalkInv' /\ AcceptsInv' /\ ReadsInv'
      /\ Copies(WorkReq)' = Copies(WorkReq)
      /\ reading' \in [Clients -> BOOLEAN] /\ reading'[c] = FALSE
      /\ \A b \in Clients : b # c => reading'[b] = reading[b]
  BY <1>2, EndReadCopies
<1>4. /\ client' \in [Clients -> {"out", "in", "gone", "dropped"}]
      /\ \A b \in Clients :
           client'[b] \in {"in", "gone"} <=> client[b] \in {"in", "gone"}
  BY <1>1, <1>2 DEF ServerType
<1>5. ServerType'
  BY <1>1, <1>2, <1>3, <1>4 DEF ServerType
<1>6. WorkInv' /\ LinkInv' /\ InstInv' /\ ServeInv' /\ ReadBeforeClose'
  BY <1>1, <1>2, <1>3 DEF WorkInv, LinkInv, InstInv, ServeInv, ReadBeforeClose
<1>7. HandleInv'
  BY <1>1, <1>2, <1>3 DEF HandleInv
<1>8. OwnerInv'
  <2>1. \A i \in Insts : conn[i] # NoClient => conn[i] \in Clients
    BY <1>1 DEF ServerType
  <2> QED
    BY <1>1, <1>2, <1>4, <2>1 DEF OwnerInv
<1> QED
  BY <1>3, <1>5, <1>6, <1>7, <1>8, Together

-------------------------------------------------------------------------------
(* The theorems. *)

LEMMA StutterInv ==
  ASSUME IInv, UNCHANGED vars
  PROVE  IInv'
<1>1. /\ LoopType(Reqs) /\ ServerType /\ WalkInv /\ WorkInv /\ LinkInv
      /\ InstInv /\ OwnerInv /\ HandleInv /\ ServeInv
      /\ AcceptsInv /\ ReadsInv /\ ReadBeforeClose
  BY Parts
<1>2. /\ UNCHANGED <<lpc, ring, batch, iocp, active, reqs, endgame, inserting,
                     lost>>
      /\ UNCHANGED <<worker, next, server, nameFree, inst, conn, pendingAccepts,
                     client, unread, writes, handle, reading, faults>>
  BY DEF vars, loopVars, serverVars
<1>3. LoopType(Reqs)' /\ \A r : Copies(r)' = Copies(r)
  BY <1>1, <1>2, CopiesUnchanged DEF LoopType
<1>4. ServerType' /\ WalkInv' /\ WorkInv' /\ LinkInv' /\ InstInv'
  BY <1>1, <1>2, <1>3 DEF ServerType, WalkInv, WorkInv, LinkInv, InstInv
<1>5. AcceptsInv' /\ ReadsInv'
  BY <1>1, <1>2, <1>3 DEF AcceptsInv, ReadsInv
<1>6. OwnerInv' /\ HandleInv' /\ ServeInv' /\ ReadBeforeClose'
  BY <1>1, <1>2 DEF OwnerInv, HandleInv, ServeInv, ReadBeforeClose
<1> QED
  BY <1>3, <1>4, <1>5, <1>6, Together

LEMMA StepInv == IInv /\ [Next]_vars => IInv'
<1> SUFFICES ASSUME IInv, [Next]_vars PROVE IInv'
  OBVIOUS
<1>1. CASE UNCHANGED vars
  BY <1>1, StutterInv
<1>2. CASE LoopThread
  <2>1. CASE Run
    BY <2>1, RunInv
  <2>2. CASE LoopStep /\ UNCHANGED serverVars
    BY <2>2, LoopStepInv
  <2>3. ASSUME NEW i \in Insts, Accept(i) \/ AcceptNoMemory(i) \/ AcceptError(i)
        PROVE  IInv'
    BY <2>3, AcceptInv, AcceptNoMemoryInv, AcceptErrorInv
  <2>4. ASSUME NEW c \in Clients, OnData(c) \/ OnDataError(c) \/ OnEof(c)
        PROVE  IInv'
    BY <2>4, OnDataInv, CloseInv
  <2>5. CASE WorkDone
    BY <2>5, WorkDoneInv
  <2>6. CASE CloseHandles
    BY <2>6, CloseHandlesInv
  <2> QED
    BY <1>2, <2>1, <2>2, <2>3, <2>4, <2>5, <2>6 DEF LoopThread
<1>3. CASE WorkerThread
  BY <1>3, WorkerStartInv, WorkerArmInv, WorkerLinkInv, WorkerReturnInv
     DEF WorkerThread
<1>4. CASE Environment
  <2>1. ASSUME NEW c \in Clients,
               ClientConnect(c) \/ ClientWrite(c) \/ ClientLeave(c)
        PROVE  IInv'
    BY <2>1, ClientConnectInv, ClientWriteInv, ClientLeaveInv
  <2>2. CASE NameFreed
    BY <2>2, WorkerStartInv
  <2> QED
    BY <1>4, <2>1, <2>2 DEF Environment
<1> QED
  BY <1>1, <1>2, <1>3, <1>4 DEF Next

\* The inductive invariant holds in every behaviour of the daemon's pipe server.
LEMMA Inductive == SafeSpec => []IInv
  BY InitInv, StepInv, PTL DEF SafeSpec

\* Whatever the loop, the worker and the clients do, every variable of the
\* daemon's pipe server stays in its range; in particular the count of active
\* requests, which uv_run looks at, never goes below zero or above one.
THEOREM PipeServerTypeCorrect == SafeSpec => []TypeOK
<1>1. IInv => TypeOK
  BY DEF IInv
<1> QED
  BY <1>1, Inductive, PTL

\* As long as the worker's insertions into the loop's ring have not broken it,
\* every request that completed is on its way to its callback exactly once (or
\* was recorded as lost), and no other request is.
THEOREM CompletionsNotForgotten == SafeSpec => []NothingForgotten
<1>1. IInv => NothingForgotten
  BY DEF IInv
<1> QED
  BY <1>1, Inductive, PTL

\* An accept request or the handle it is accepted into owns the pipe of a client,
\* never both and never two: no client is served twice, and none gets out of sight
\* but one whose instance was closed by a ConnectNamedPipe that failed.
THEOREM ClientHasOneOwner == SafeSpec => []OneOwner
<1>1. IInv => OneOwner
  <2> SUFFICES ASSUME IInv, NEW c \in Clients
               PROVE  Cardinality({i \in Insts : conn[i] = c})
                        + (IF handle[c] = "none" THEN 0 ELSE 1)
                        = IF client[c] \in {"out", "dropped"} THEN 0 ELSE 1
    BY DEF OneOwner
  <2>1. OwnerInv /\ c # NoClient
    BY NoClientApart DEF IInv
  <2>2. CASE \E i \in Insts : conn[i] = c
    <3>1. PICK i \in Insts : conn[i] = c
      BY <2>2
    <3>2. {j \in Insts : conn[j] = c} = {i}
      BY <2>1, <3>1 DEF OwnerInv
    <3>3. Cardinality({j \in Insts : conn[j] = c}) = 1
      BY <3>2, FS_Singleton
    <3>4. handle[c] = "none" /\ client[c] \in {"in", "gone"}
      BY <2>1, <3>1 DEF OwnerInv
    <3> QED
      BY <3>3, <3>4
  <2>3. CASE ~ \E i \in Insts : conn[i] = c
    <3>1. {j \in Insts : conn[j] = c} = {}
      BY <2>3
    <3>2. Cardinality({j \in Insts : conn[j] = c}) = 0
      BY <3>1, FS_EmptySet
    <3>3. handle[c] = "none" <=> client[c] \in {"out", "dropped"}
      <4>1. client[c] \in {"out", "in", "gone", "dropped"}
        BY DEF IInv, TypeOK
      <4> QED
        BY <2>1, <2>3, <4>1 DEF OwnerInv
    <3> QED
      BY <3>2, <3>3
  <2> QED
    BY <2>2, <2>3
<1> QED
  BY <1>1, Inductive, PTL

\* uv_run is not left while the daemon listens: although the handle that keeps
\* it going is made active by the worker while the loop runs, the queued work
\* is counted until then.
THEOREM LoopRunsWhileServing == SafeSpec => []ServingLoopRuns
<1>1. IInv => ServingLoopRuns
  BY DEF IInv, ServeInv, ServingLoopRuns
<1> QED
  BY <1>1, Inductive, PTL

\* Without a failure the daemon closes the handle of a client only after it read
\* all that the client wrote, even if the client left at once.
THEOREM AllReadBeforeClose == SafeSpec => []ReadBeforeClose
<1>1. IInv => ReadBeforeClose
  BY DEF IInv
<1> QED
  BY <1>1, Inductive, PTL
================================================================================
