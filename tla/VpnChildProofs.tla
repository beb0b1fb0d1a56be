----------------------------- MODULE VpnChildProofs ----------------------------
(***************************************************************************)
(* Theorems about module VpnChild, for any number of clicks on connect.    *)
(***************************************************************************)
EXTENDS VpnChild, UvLoopProofs

MainPlaces == {"queue", "enter", "run", "on_exit", "wait_for_ever",
               "wait_a_moment", "done"}
UiPlaces == {"none", "idle", "init", "create", "register", "start", "read",
             "link", "closed"}
PcType == [main : MainPlaces, ui : UiPlaces]
ProcType ==
  [spawn : 0..MaxSpawns, pid : 0..MaxSpawns, handle : 0..MaxSpawns,
   wait : 0..MaxSpawns, active : BOOLEAN, closing : BOOLEAN, queued : BOOLEAN,
   pending : BOOLEAN]
ChildType == [Spawns -> {"none", "running", "exited", "signalled", "reported"}]

-------------------------------------------------------------------------------
(* The inductive invariant. *)

\* The variables that are not lists of requests stay in their ranges.
VpnType ==
  /\ lpc \in {"before", "check", "take", "process", "sleep", "peek", "drain",
              "process_more", "left", "undefined"}
  /\ active \subseteq {"active", "closing"} \X Spawns
  /\ reqs \in 0..1
  /\ endgame \subseteq {Closing(n) : n \in Spawns}
  /\ pc \in PcType /\ child \in ChildType /\ proc \in ProcType
  /\ read \in {"none", "kernel", "done"}
  /\ reused \in BOOLEAN /\ early \in BOOLEAN

\* Where the main thread is in the loop: inside on_exit it is in the callback
\* of the exit request, and it has left uv_run only without a window.
MainInv ==
  /\ lpc = "before" => pc.main \in {"queue", "enter"}
  /\ pc.main \in {"queue", "enter"} => lpc \in {"before", "undefined"}
  /\ pc.main = "queue" => pc.ui = "none" /\ reqs = 0
  /\ pc.main = "on_exit" =>
       /\ lpc \in {"process", "process_more", "undefined"}
       /\ batch # <<>> /\ Head(batch) = ExitReq
  /\ pc.main \in {"wait_for_ever", "wait_a_moment", "done"} => lpc = "left"
  /\ pc.main \in {"wait_for_ever", "wait_a_moment"} => proc.pid # None
  /\ lpc = "left" => reqs = 0 /\ pc.ui = "closed"

\* The window is counted until the callback of its work ran.
WorkInv ==
  lpc # "undefined" =>
    reqs = Copies(WorkReq)
             + (IF pc.main # "queue" /\ pc.ui # "closed" THEN 1 ELSE 0)

\* The exit request is on its way once for an end that is pending, and once
\* more while on_exit runs.
ExitInv ==
  lpc # "undefined" =>
    Copies(ExitReq) = (IF pc.main = "on_exit" THEN 1 ELSE 0)
                        + (IF proc.pending THEN 1 ELSE 0)

\* The UI thread is in the middle of an insertion exactly at "link".
LinkInv == pc.ui = "link" <=> inserting # Nobody

\* Between the click and the return from uv_spawn there is a spawn to name.
SpawnInv ==
  /\ pc.ui = "init" => proc.spawn < MaxSpawns
  /\ pc.ui \in {"create", "register", "start", "read", "link"} =>
       proc.spawn # None
  /\ pc.main = "on_exit" => proc.spawn # None
  /\ \A n \in Spawns : Closing(n) \in active => n <= proc.spawn

\* The pid, if any, is that of the last spawn, and only its end is waited for
\* and reported.
PidInv ==
  /\ proc.pid # None => proc.pid = proc.spawn
  /\ proc.wait # None => proc.wait = proc.pid
  /\ proc.pending => proc.pid # None /\ child[proc.pid] = "signalled"
  /\ pc.ui \in {"init", "create"} => proc.pid = None
  /\ pc.ui = "register" => proc.pid # None /\ proc.wait = None /\ ~proc.pending

\* The open handle of a child counts, as active or as closing; and unless
\* a closing handle was used again, it is not closed while there is a pid.
HandleInv ==
  /\ endgame \subseteq active
  /\ pc.ui \notin {"register", "start"} /\ proc.pid # None /\ proc.handle # None =>
       Active(proc.spawn) \in active \/ Closing(proc.spawn) \in active
  /\ ~reused => endgame \subseteq {Closing(proc.spawn)}
  /\ ~reused /\ (proc.pid # None \/ pc.ui = "create") =>
       pc.main # "on_exit" /\ Closing(proc.spawn) \notin active

\* After uv_run there is no pid, or at least no handle.
LeftInv ==
  lpc = "left" => /\ reused \/ proc.pid = None
                  /\ proc.pid # None => proc.handle = None

IInv ==
  /\ LoopType(Reqs) /\ VpnType /\ WalkInv /\ MainInv /\ WorkInv /\ ExitInv
  /\ LinkInv /\ SpawnInv /\ PidInv /\ HandleInv /\ LeftInv
  /\ OneChild /\ PidHasHandle

-------------------------------------------------------------------------------
(* Requests, handles and places. *)

LEMMA ReqsMembers ==
  /\ ExitReq \in Reqs /\ ReadReq \in Reqs /\ WorkReq \in Reqs
  /\ ExitReq # ReadReq /\ ExitReq # WorkReq /\ ReadReq # WorkReq
  /\ ExitReq # <<>> /\ ReadReq # <<>> /\ WorkReq # <<>>
  BY DEF Reqs, ExitReq, ReadReq, WorkReq

LEMMA HandleNames ==
  /\ \A m, n : Active(m) # Closing(n)
  /\ \A m, n : Closing(m) = Closing(n) => m = n
  /\ \A n \in Spawns : Active(n) \in {"active", "closing"} \X Spawns
  /\ \A n \in Spawns : Closing(n) \in {"active", "closing"} \X Spawns
  BY DEF Active, Closing

LEMMA SpawnNumbers ==
  /\ MaxSpawns \in Nat /\ None \in 0..MaxSpawns
  /\ \A n \in 0..MaxSpawns : n # None => n \in Spawns
  /\ \A n \in 0..MaxSpawns : n < MaxSpawns => n + 1 \in Spawns
  /\ Spawns \subseteq 0..MaxSpawns /\ None \notin Spawns
  BY VpnChildAssumption DEF Spawns, None

LEMMA GotoMain ==
  ASSUME pc \in PcType, NEW from, NEW to \in MainPlaces, Goto("main", from, to)
  PROVE  /\ lpc # "undefined" /\ pc.main = from
         /\ pc' \in PcType /\ pc'.main = to /\ pc'.ui = pc.ui
  BY DEF Goto, PcType

LEMMA GotoUi ==
  ASSUME pc \in PcType, NEW from, NEW to \in UiPlaces, Goto("ui", from, to)
  PROVE  /\ lpc # "undefined" /\ pc.ui = from
         /\ pc' \in PcType /\ pc'.ui = to /\ pc'.main = pc.main
  BY DEF Goto, PcType

LEMMA QuietCopies ==
  ASSUME LoopType(Reqs), UNCHANGED <<ring, batch, iocp, inserting, lost>>
  PROVE  LoopType(Reqs)' /\ \A r : Copies(r)' = Copies(r)
  BY CopiesUnchanged DEF LoopType

LEMMA TypeParts == LoopType(Reqs) /\ VpnType => TypeOK
  BY DEF LoopType, VpnType, TypeOK, PcType, MainPlaces, UiPlaces, ChildType,
         ProcType

\* The callback of the exit request finds an end that is pending.
LEMMA ExitOnItsWay ==
  ASSUME IInv, lpc # "undefined", batch # <<>>
  PROVE  /\ \A r : Head(batch) = r => Copies(r) >= 1
         /\ Head(batch) = ExitReq /\ pc.main # "on_exit" =>
              /\ proc.pending /\ proc.pid # None /\ proc.pid = proc.spawn
              /\ child[proc.pid] = "signalled"
<1>1. LoopType(Reqs)
  BY DEF IInv
<1>2. ASSUME NEW r, Head(batch) = r PROVE Copies(r) >= 1
  <2>1. Count(batch, r) = Is(Head(batch), r) + Count(Tail(batch), r)
    BY <1>1, CountTail DEF LoopType
  <2>2. Tail(batch) \in Seq(Reqs)
    BY <1>1 DEF LoopType
  <2>3. Count(Tail(batch), r) \in Nat
    BY <2>2, AtFinite
  <2>4. Is(Head(batch), r) = 1
    BY <1>2 DEF Is
  <2>5. Count(batch, r) >= 1
    BY <2>1, <2>3, <2>4
  <2> QED
    BY <1>1, <2>5, CountsType DEF Copies
<1>3. Head(batch) = ExitReq /\ pc.main # "on_exit" => proc.pending
  BY <1>2 DEF IInv, ExitInv
<1> QED
  BY <1>2, <1>3 DEF IInv, PidInv

LEMMA InitInv == Init => IInv
<1> SUFFICES ASSUME Init PROVE IInv
  OBVIOUS
<1>1. LoopInit
  BY DEF Init
<1>2. LoopType(Reqs) /\ WalkInv
  BY <1>1 DEF LoopInit, LoopType, WalkInv
<1>3. proc \in ProcType /\ proc = FreshProc(None)
  BY SpawnNumbers DEF Init, ProcType, FreshProc
<1>4. VpnType
  <2>1. pc \in PcType
    BY DEF Init, PcType, MainPlaces, UiPlaces
  <2>2. child \in ChildType
    BY DEF Init, ChildType
  <2>3. /\ lpc = "before" /\ active = {} /\ reqs = 0 /\ endgame = {}
        /\ read = "none"
    BY <1>1 DEF Init, LoopInit
  <2>4. reused \in BOOLEAN /\ early \in BOOLEAN
    BY DEF Init
  <2> QED
    BY <1>3, <2>1, <2>2, <2>3, <2>4 DEF VpnType
<1>5. Copies(WorkReq) = 0 /\ Copies(ExitReq) = 0
  BY <1>1, CopiesInit, ReqsMembers
<1>6. MainInv /\ WorkInv /\ ExitInv /\ LinkInv
  BY <1>1, <1>3, <1>5 DEF Init, LoopInit, MainInv, WorkInv, ExitInv, LinkInv,
                          FreshProc
<1>7. SpawnInv /\ PidInv /\ HandleInv /\ LeftInv
  BY <1>1, <1>3 DEF Init, LoopInit, SpawnInv, PidInv, HandleInv, LeftInv,
                    FreshProc
<1>8. OneChild /\ PidHasHandle
  BY <1>3 DEF Init, OneChild, PidHasHandle, FreshProc
<1> QED
  BY <1>2, <1>4, <1>6, <1>7, <1>8 DEF IInv

-------------------------------------------------------------------------------
(* The main thread, outside the callbacks. *)

\* The steps that only move a thread, or count the window.
LEMMA MoveInv ==
  ASSUME IInv,
         \/ QueueUi \/ OpenWindow \/ DeleteInstance \/ Disconnect
         \/ ClickConnect \/ CreateFails
  PROVE  IInv'
<1>1. /\ LoopType(Reqs) /\ VpnType /\ WalkInv /\ MainInv /\ WorkInv /\ ExitInv
      /\ LinkInv /\ SpawnInv /\ PidInv /\ HandleInv /\ LeftInv
      /\ OneChild /\ PidHasHandle
  BY DEF IInv
<1>2. /\ UNCHANGED <<lpc, ring, batch, iocp, active, endgame, inserting, lost>>
      /\ UNCHANGED <<child, proc, read, reused, early>>
  BY DEF QueueUi, OpenWindow, DeleteInstance, Disconnect, ClickConnect,
         CreateFails, loopVars
<1>3. LoopType(Reqs)' /\ \A r : Copies(r)' = Copies(r)
  BY <1>1, <1>2, QuietCopies
<1>4. pc' \in PcType /\ lpc # "undefined"
      /\ \/ /\ pc.main = "queue" /\ pc'.main = "enter" /\ pc.ui = "none"
            /\ pc'.ui = "none" /\ reqs' = reqs + 1
         \/ /\ pc.main = "run" /\ pc'.ui = pc.ui /\ reqs' = reqs
            /\ lpc = "left"
            /\ \/ pc'.main = "done"
               \/ /\ proc.pid # None
                  /\ pc'.main \in {"wait_for_ever", "wait_a_moment"}
         \/ /\ pc'.main = pc.main /\ reqs' = reqs
            /\ \/ pc.ui = "none" /\ pc'.ui = "idle" /\ reqs > 0
               \/ /\ pc.ui = "idle" /\ pc'.ui = "init"
                  /\ proc.pid = None /\ proc.spawn < MaxSpawns
               \/ pc.ui = "create" /\ pc'.ui = "idle"
  BY <1>1, GotoMain, GotoUi DEF QueueUi, OpenWindow, DeleteInstance, Disconnect,
       ClickConnect, CreateFails, loopVars, VpnType, MainPlaces, UiPlaces
<1>5. VpnType' /\ WalkInv'
  BY <1>1, <1>2, <1>4 DEF VpnType, WalkInv, MainInv
<1>6. MainInv'
  BY <1>1, <1>2, <1>4 DEF MainInv
<1>7. WorkInv' /\ ExitInv' /\ LinkInv'
  <2>1. Copies(WorkReq) \in Nat
    BY <1>1, CountsType
  <2>2. WorkInv'
    BY <1>1, <1>2, <1>3, <1>4, <2>1 DEF WorkInv, MainInv
  <2>3. ExitInv'
    BY <1>1, <1>2, <1>3, <1>4 DEF ExitInv
  <2> QED
    BY <1>1, <1>2, <1>4, <2>2, <2>3 DEF LinkInv
<1>8. SpawnInv' /\ PidInv' /\ HandleInv' /\ LeftInv'
  BY <1>1, <1>2, <1>4 DEF SpawnInv, PidInv, HandleInv, LeftInv
<1>9. OneChild' /\ PidHasHandle'
  BY <1>1, <1>2 DEF OneChild, PidHasHandle
<1> QED
  BY <1>3, <1>5, <1>6, <1>7, <1>8, <1>9 DEF IInv

\* uv_run begins, or goes from one part of its round to the next.
LEMMA LoopStepInv ==
  ASSUME IInv, EnterLoop \/ (pc.main = "run" /\ LoopStep /\ UNCHANGED childVars)
  PROVE  IInv'
<1>1. /\ LoopType(Reqs) /\ VpnType /\ WalkInv /\ MainInv /\ WorkInv /\ ExitInv
      /\ LinkInv /\ SpawnInv /\ PidInv /\ HandleInv /\ LeftInv
      /\ OneChild /\ PidHasHandle
  BY DEF IInv
<1>2. /\ UNCHANGED <<active, reqs, endgame, inserting, lost>>
      /\ UNCHANGED <<child, proc, read, reused, early>>
  BY DEF EnterLoop, LoopStep, LoopCheck, TakeRing, BackendTimeout, Poll,
         MoreDone, childVars
<1>3. LoopType(Reqs)' /\ WalkInv' /\ \A r : Copies(r)' = Copies(r)
  <2>1. CASE EnterLoop
    BY <1>1, <2>1, QuietCopies DEF EnterLoop, Goto, MainInv, WalkInv
  <2>2. CASE LoopStep
    BY <1>1, <2>2, CopiesLoopStep
  <2> QED
    BY <2>1, <2>2
<1>4. /\ pc' \in PcType /\ pc'.main = "run" /\ pc'.ui = pc.ui
      /\ pc.main \in {"enter", "run"}
      /\ lpc # "undefined"
      /\ lpc' \in {"left", "check", "take", "process", "process_more", "sleep",
                   "peek", "drain"}
      /\ lpc' = "left" => /\ active = {} /\ reqs = 0 /\ pc.main = "run"
  <2>1. CASE EnterLoop
    BY <1>1, <2>1, GotoMain DEF EnterLoop, VpnType, MainPlaces
  <2>2. CASE pc.main = "run" /\ LoopStep /\ UNCHANGED childVars
    BY <1>1, <2>2 DEF LoopStep, LoopCheck, TakeRing, BackendTimeout, Poll,
       MoreDone, Alive, HasActive, childVars, VpnType
  <2> QED
    BY <2>1, <2>2
<1>5. VpnType'
  BY <1>1, <1>2, <1>4 DEF VpnType
<1>6. WorkInv' /\ ExitInv' /\ LinkInv'
  BY <1>1, <1>2, <1>3, <1>4 DEF WorkInv, ExitInv, LinkInv
<1>7. lpc' = "left" => pc.ui = "closed"
  <2>1. Copies(WorkReq) \in Nat
    BY <1>1, CountsType
  <2> QED
    BY <1>1, <1>4, <2>1 DEF WorkInv
<1>8. MainInv'
  BY <1>1, <1>2, <1>4, <1>7 DEF MainInv
<1>9. SpawnInv' /\ PidInv' /\ HandleInv'
  BY <1>1, <1>2, <1>4 DEF SpawnInv, PidInv, HandleInv
<1>10. LeftInv'
  <2> SUFFICES ASSUME lpc' = "left"
               PROVE  (reused \/ proc.pid = None) /\
                      (proc.pid # None => proc.handle = None)
    BY <1>2 DEF LeftInv
  <2>1. proc.pid # None => proc.handle = None
    BY <1>1, <1>4, <1>7 DEF HandleInv
  <2> QED
    BY <1>1, <2>1 DEF PidHasHandle, VpnType
<1>11. OneChild' /\ PidHasHandle'
  BY <1>1, <1>2 DEF OneChild, PidHasHandle
<1> QED
  BY <1>3, <1>5, <1>6, <1>8, <1>9, <1>10, <1>11 DEF IInv

\* TerminateProcess in the destructor ends a child.
LEMMA TerminateInv ==
  ASSUME IInv, Terminate
  PROVE  IInv'
<1>1. /\ LoopType(Reqs) /\ VpnType /\ WalkInv /\ MainInv /\ WorkInv /\ ExitInv
      /\ LinkInv /\ SpawnInv /\ PidInv /\ HandleInv /\ LeftInv
      /\ OneChild /\ PidHasHandle
  BY DEF IInv
<1>2. /\ UNCHANGED <<lpc, ring, batch, iocp, active, reqs, endgame, inserting,
                     lost>>
      /\ UNCHANGED <<proc, read, reused, early>>
      /\ child' = [n \in Spawns |-> IF n = proc.handle /\ child[n] = "running"
                                    THEN "exited" ELSE child[n]]
  BY DEF Terminate, loopVars
<1>3. /\ pc' \in PcType /\ pc'.ui = pc.ui /\ pc'.main = "done"
      /\ pc.main \in {"wait_for_ever", "wait_a_moment"} /\ lpc = "left"
  BY <1>1, GotoMain DEF Terminate, VpnType, MainPlaces, MainInv
<1>4. LoopType(Reqs)' /\ \A r : Copies(r)' = Copies(r)
  BY <1>1, <1>2, QuietCopies
<1>5. /\ child' \in ChildType
      /\ \A n \in Spawns : /\ child'[n] = "running" => child[n] = "running"
                           /\ child[n] = "signalled" => child'[n] = "signalled"
  BY <1>1, <1>2 DEF VpnType, ChildType
<1>6. VpnType' /\ WalkInv' /\ MainInv'
  BY <1>1, <1>2, <1>3, <1>5 DEF VpnType, WalkInv, MainInv
<1>7. WorkInv' /\ ExitInv' /\ LinkInv'
  BY <1>1, <1>2, <1>3, <1>4 DEF WorkInv, ExitInv, LinkInv
<1>8. SpawnInv' /\ HandleInv' /\ LeftInv' /\ PidHasHandle'
  BY <1>1, <1>2, <1>3 DEF SpawnInv, HandleInv, LeftInv, PidHasHandle
<1>9. PidInv'
  <2>1. proc.pid \in 0..MaxSpawns
    BY <1>1 DEF VpnType, ProcType
  <2> QED
    BY <1>1, <1>2, <1>3, <1>5, <2>1, SpawnNumbers DEF PidInv
<1>10. OneChild'
  BY <1>1, <1>2, <1>5 DEF OneChild
<1> QED
  BY <1>4, <1>6, <1>7, <1>8, <1>9, <1>10 DEF IInv

-------------------------------------------------------------------------------
(* vpnmgr::connect on the UI thread. *)

\* What the UI thread does inside connect() leaves the loop's lists alone, until
\* it inserts the read.  The steps on child_req:
LEMMA InitHandlesInv ==
  ASSUME IInv, InitHandles
  PROVE  IInv'
<1>1. /\ LoopType(Reqs) /\ VpnType /\ WalkInv /\ MainInv /\ WorkInv /\ ExitInv
      /\ LinkInv /\ SpawnInv /\ PidInv /\ HandleInv /\ LeftInv
      /\ OneChild /\ PidHasHandle
  BY DEF IInv
<1>2. /\ UNCHANGED <<lpc, ring, batch, iocp, active, reqs, endgame, inserting,
                     lost>>
      /\ UNCHANGED <<child, early>>
      /\ proc' = FreshProc(proc.spawn + 1) /\ read' = "none"
      /\ reused' \in BOOLEAN
      /\ ~reused' => /\ ~reused /\ pc.main # "on_exit"
                     /\ Closing(proc.spawn) \notin active
  BY DEF InitHandles, loopVars
<1>3. /\ pc' \in PcType /\ pc.ui = "init" /\ pc'.ui = "create"
      /\ pc'.main = pc.main /\ lpc # "undefined"
  BY <1>1, GotoUi DEF InitHandles, VpnType, UiPlaces
<1>4. LoopType(Reqs)' /\ \A r : Copies(r)' = Copies(r)
  BY <1>1, <1>2, QuietCopies
<1>5. /\ proc.pid = None /\ ~proc.pending
      /\ proc.spawn \in 0..MaxSpawns /\ proc.spawn < MaxSpawns
      /\ proc.spawn + 1 \in Spawns
  BY <1>1, <1>3, SpawnNumbers DEF PidInv, SpawnInv, VpnType, ProcType
<1>6. /\ proc' \in ProcType /\ proc'.spawn = proc.spawn + 1 /\ proc'.pid = None
      /\ proc'.handle = None /\ proc'.wait = None /\ proc'.pending = FALSE
  BY <1>2, <1>5, SpawnNumbers DEF FreshProc, ProcType
<1>7. VpnType'
  BY <1>1, <1>2, <1>3, <1>6 DEF VpnType
<1>8. WalkInv' /\ MainInv' /\ LinkInv'
  BY <1>1, <1>2, <1>3, <1>6 DEF WalkInv, MainInv, LinkInv
<1>9. WorkInv' /\ ExitInv'
  BY <1>1, <1>2, <1>3, <1>4, <1>5, <1>6 DEF WorkInv, ExitInv
<1>10. \A n \in Spawns : Closing(n) \in active => n <= proc.spawn /\ n # proc.spawn + 1
  BY <1>1, <1>5, SpawnNumbers DEF SpawnInv
<1>11. SpawnInv'
  BY <1>1, <1>2, <1>3, <1>5, <1>6, <1>10, SpawnNumbers DEF SpawnInv
<1>12. PidInv' /\ LeftInv' /\ PidHasHandle'
  BY <1>6, <1>3 DEF PidInv, LeftInv, PidHasHandle
<1>13. HandleInv'
  BY <1>1, <1>2, <1>3, <1>5, <1>6, <1>10 DEF HandleInv
<1>14. OneChild'
  BY <1>1, <1>2, <1>5, SpawnNumbers DEF OneChild
<1> QED
  BY <1>4, <1>7, <1>8, <1>9, <1>11, <1>12, <1>13, <1>14 DEF IInv

LEMMA CreateChildInv ==
  ASSUME IInv, CreateChild
  PROVE  IInv'
<1>1. /\ LoopType(Reqs) /\ VpnType /\ WalkInv /\ MainInv /\ WorkInv /\ ExitInv
      /\ LinkInv /\ SpawnInv /\ PidInv /\ HandleInv /\ LeftInv
      /\ OneChild /\ PidHasHandle
  BY DEF IInv
<1>2. /\ UNCHANGED <<lpc, ring, batch, iocp, active, reqs, endgame, inserting,
                     lost>>
      /\ UNCHANGED <<read, reused, early>>
      /\ child' = [child EXCEPT ![proc.spawn] = "running"]
      /\ proc' = [proc EXCEPT !.handle = proc.spawn, !.pid = proc.spawn]
  BY DEF CreateChild, loopVars
<1>3. /\ pc' \in PcType /\ pc.ui = "create" /\ pc'.ui = "register"
      /\ pc'.main = pc.main /\ lpc # "undefined"
  BY <1>1, GotoUi DEF CreateChild, VpnType, UiPlaces
<1>4. LoopType(Reqs)' /\ \A r : Copies(r)' = Copies(r)
  BY <1>1, <1>2, QuietCopies
<1>5. /\ proc.pid = None /\ proc.wait = None /\ ~proc.pending
      /\ proc.spawn \in Spawns /\ proc.spawn \in 0..MaxSpawns /\ proc.spawn # None
  BY <1>1, <1>3, SpawnNumbers DEF PidInv, SpawnInv, VpnType, ProcType
<1>6. /\ proc' \in ProcType /\ proc'.spawn = proc.spawn
      /\ proc'.pid = proc.spawn /\ proc'.handle = proc.spawn
      /\ proc'.wait = None /\ proc'.pending = proc.pending
  BY <1>1, <1>2, <1>5 DEF VpnType, ProcType
<1>7. child' \in ChildType /\ \A n \in Spawns : child'[n] # "running" \/ n = proc.spawn
  BY <1>1, <1>2, <1>5, SpawnNumbers DEF OneChild, VpnType, ChildType
<1>8. VpnType'
  BY <1>1, <1>2, <1>3, <1>6, <1>7 DEF VpnType
<1>9. WalkInv' /\ LinkInv' /\ LeftInv'
  BY <1>1, <1>2, <1>3 DEF WalkInv, LinkInv, LeftInv, MainInv
<1>10. MainInv'
  BY <1>1, <1>2, <1>3, <1>5, <1>6 DEF MainInv
<1>11. WorkInv' /\ ExitInv'
  BY <1>1, <1>2, <1>3, <1>4, <1>6 DEF WorkInv, ExitInv
<1>12. SpawnInv'
  BY <1>1, <1>2, <1>3, <1>5, <1>6 DEF SpawnInv
<1>13. PidInv'
  BY <1>3, <1>5, <1>6 DEF PidInv
<1>14. HandleInv'
  BY <1>1, <1>2, <1>3, <1>6 DEF HandleInv
<1>15. OneChild' /\ PidHasHandle'
  BY <1>6, <1>7 DEF OneChild, PidHasHandle
<1> QED
  BY <1>4, <1>8, <1>9, <1>10, <1>11, <1>12, <1>13, <1>14, <1>15 DEF IInv

LEMMA RegisterWaitInv ==
  ASSUME IInv, RegisterWait
  PROVE  IInv'
<1>1. /\ LoopType(Reqs) /\ VpnType /\ WalkInv /\ MainInv /\ WorkInv /\ ExitInv
      /\ LinkInv /\ SpawnInv /\ PidInv /\ HandleInv /\ LeftInv
      /\ OneChild /\ PidHasHandle
  BY DEF IInv
<1>2. /\ UNCHANGED <<lpc, ring, batch, iocp, active, reqs, endgame, inserting,
                     lost>>
      /\ UNCHANGED <<child, read, reused, early>>
      /\ proc' = [proc EXCEPT !.wait = proc.spawn]
  BY DEF RegisterWait, loopVars
<1>3. /\ pc' \in PcType /\ pc.ui = "register" /\ pc'.ui = "start"
      /\ pc'.main = pc.main /\ lpc # "undefined"
  BY <1>1, GotoUi DEF RegisterWait, VpnType, UiPlaces
<1>4. LoopType(Reqs)' /\ \A r : Copies(r)' = Copies(r)
  BY <1>1, <1>2, QuietCopies
<1>5. /\ proc' \in ProcType /\ proc'.spawn = proc.spawn
      /\ proc'.pid = proc.pid /\ proc'.handle = proc.handle
      /\ proc'.wait = proc.spawn /\ proc'.pending = proc.pending
  BY <1>1, <1>2 DEF VpnType, ProcType
<1>6. VpnType'
  BY <1>1, <1>2, <1>3, <1>5 DEF VpnType
<1>7. WalkInv' /\ LinkInv' /\ LeftInv' /\ MainInv'
  BY <1>1, <1>2, <1>3, <1>5 DEF WalkInv, LinkInv, LeftInv, MainInv
<1>8. WorkInv' /\ ExitInv'
  BY <1>1, <1>2, <1>3, <1>4, <1>5 DEF WorkInv, ExitInv
<1>9. SpawnInv' /\ PidInv'
  BY <1>1, <1>2, <1>3, <1>5 DEF SpawnInv, PidInv
<1>10. HandleInv' /\ OneChild' /\ PidHasHandle'
  BY <1>1, <1>2, <1>3, <1>5 DEF HandleInv, OneChild, PidHasHandle
<1> QED
  BY <1>4, <1>6, <1>7, <1>8, <1>9, <1>10 DEF IInv

LEMMA StartHandleInv ==
  ASSUME IInv, StartHandle
  PROVE  IInv'
<1>1. /\ LoopType(Reqs) /\ VpnType /\ WalkInv /\ MainInv /\ WorkInv /\ ExitInv
      /\ LinkInv /\ SpawnInv /\ PidInv /\ HandleInv /\ LeftInv
      /\ OneChild /\ PidHasHandle
  BY DEF IInv
<1>2. /\ UNCHANGED <<lpc, ring, batch, iocp, reqs, endgame, inserting, lost>>
      /\ UNCHANGED <<child, read, reused, early>>
      /\ active' = active \cup {Active(proc.spawn)}
      /\ proc' = [proc EXCEPT !.active = TRUE]
  BY DEF StartHandle
<1>3. /\ pc' \in PcType /\ pc.ui = "start" /\ pc'.ui = "read"
      /\ pc'.main = pc.main /\ lpc # "undefined"
  BY <1>1, GotoUi DEF StartHandle, VpnType, UiPlaces
<1>4. LoopType(Reqs)' /\ \A r : Copies(r)' = Copies(r)
  BY <1>1, <1>2, QuietCopies
<1>5. /\ proc' \in ProcType /\ proc'.spawn = proc.spawn
      /\ proc'.pid = proc.pid /\ proc'.handle = proc.handle
      /\ proc'.wait = proc.wait /\ proc'.pending = proc.pending
  BY <1>1, <1>2 DEF VpnType, ProcType
<1>6. proc.spawn # None /\ proc.spawn \in Spawns
  BY <1>1, <1>3, SpawnNumbers DEF SpawnInv, VpnType, ProcType
<1>7. active' \subseteq {"active", "closing"} \X Spawns
  BY <1>1, <1>2, <1>6, HandleNames DEF VpnType
<1>8. \A n : Closing(n) \in active' <=> Closing(n) \in active
  BY <1>2, HandleNames
<1>9. VpnType'
  BY <1>1, <1>2, <1>3, <1>5, <1>7 DEF VpnType
<1>10. WalkInv' /\ LinkInv' /\ LeftInv' /\ MainInv'
  BY <1>1, <1>2, <1>3, <1>5 DEF WalkInv, LinkInv, LeftInv, MainInv
<1>11. WorkInv' /\ ExitInv'
  BY <1>1, <1>2, <1>3, <1>4, <1>5 DEF WorkInv, ExitInv
<1>12. SpawnInv' /\ PidInv'
  BY <1>1, <1>2, <1>3, <1>5, <1>8 DEF SpawnInv, PidInv
<1>13. HandleInv' /\ OneChild' /\ PidHasHandle'
  BY <1>1, <1>2, <1>3, <1>5, <1>8 DEF HandleInv, OneChild, PidHasHandle
<1> QED
  BY <1>4, <1>9, <1>10, <1>11, <1>12, <1>13 DEF IInv

\* What the two threads may do to each other's data stops the model.
LEMMA UndefinedInv ==
  ASSUME IInv, RegisterWaitFails \/ ReadTwice \/ CountersCollide
  PROVE  IInv'
<1>1. /\ LoopType(Reqs) /\ VpnType /\ WalkInv /\ MainInv /\ WorkInv /\ ExitInv
      /\ LinkInv /\ SpawnInv /\ PidInv /\ HandleInv /\ LeftInv
      /\ OneChild /\ PidHasHandle
  BY DEF IInv
<1>2. /\ UNCHANGED <<ring, batch, iocp, active, reqs, endgame, inserting, lost>>
      /\ UNCHANGED <<pc, child, proc, read, reused, early>>
      /\ lpc' = "undefined"
      /\ pc.ui \in {"register", "read", "start"}
  BY DEF RegisterWaitFails, ReadTwice, CountersCollide, childVars
<1>3. LoopType(Reqs)'
  BY <1>1, <1>2, QuietCopies
<1>4. lpc # "left"
  BY <1>1, <1>2 DEF MainInv
<1>5. VpnType' /\ WalkInv' /\ MainInv' /\ WorkInv' /\ ExitInv'
  BY <1>1, <1>2, <1>4 DEF VpnType, WalkInv, MainInv, WorkInv, ExitInv
<1>6. LinkInv' /\ SpawnInv' /\ PidInv' /\ HandleInv' /\ LeftInv'
  BY <1>1, <1>2 DEF LinkInv, SpawnInv, PidInv, HandleInv, LeftInv
<1>7. OneChild' /\ PidHasHandle'
  BY <1>1, <1>2 DEF OneChild, PidHasHandle
<1> QED
  BY <1>3, <1>5, <1>6, <1>7 DEF IInv

\* The read that fails at once is inserted by this thread.
LEMMA ReadStartInv ==
  ASSUME IInv, ReadStart \/ ReadStartFails
  PROVE  IInv'
<1>1. /\ LoopType(Reqs) /\ VpnType /\ WalkInv /\ MainInv /\ WorkInv /\ ExitInv
      /\ LinkInv /\ SpawnInv /\ PidInv /\ HandleInv /\ LeftInv
      /\ OneChild /\ PidHasHandle
  BY DEF IInv
<1>2. /\ UNCHANGED <<lpc, ring, batch, iocp, active, reqs, endgame, lost>>
      /\ UNCHANGED <<child, proc, reused, early>>
      /\ read' \in {"none", "kernel", "done"}
  BY DEF ReadStart, ReadStartFails, loopVars
<1>3. /\ pc' \in PcType /\ pc.ui = "read" /\ pc'.main = pc.main
      /\ lpc # "undefined"
      /\ \/ pc'.ui = "idle" /\ inserting' = inserting
         \/ pc'.ui = "link" /\ InsertLook(ReadReq)
  BY <1>1, GotoUi DEF ReadStart, ReadStartFails, VpnType, UiPlaces, loopVars
<1>4. LoopType(Reqs)' /\ \A r \in {WorkReq, ExitReq} : Copies(r)' = Copies(r)
  <2>1. CASE inserting' = inserting
    BY <1>1, <1>2, <2>1, QuietCopies
  <2>2. CASE InsertLook(ReadReq)
    <3>1. \A r : r # <<>> =>
            LoopType(Reqs)' /\ Copies(r)' = Copies(r) + Is(ReadReq, r)
      BY <1>1, <1>2, <2>2, CopiesLook, ReqsMembers
    <3>2. Copies(WorkReq) \in Nat /\ Copies(ExitReq) \in Nat
      BY <1>1, CountsType
    <3> QED
      BY <3>1, <3>2, ReqsMembers DEF Is
  <2> QED
    BY <1>3, <2>1, <2>2
<1>5. VpnType' /\ WalkInv' /\ MainInv'
  BY <1>1, <1>2, <1>3 DEF VpnType, WalkInv, MainInv
<1>6. WorkInv' /\ ExitInv'
  BY <1>1, <1>2, <1>3, <1>4 DEF WorkInv, ExitInv
<1>7. LinkInv'
  <2>1. CASE pc'.ui = "idle" /\ inserting' = inserting
    BY <1>1, <1>3, <2>1 DEF LinkInv
  <2>2. CASE pc'.ui = "link" /\ InsertLook(ReadReq)
    BY <2>2, ReqsMembers DEF LinkInv, InsertLook, Nobody
  <2> QED
    BY <1>3, <2>1, <2>2
<1>8. SpawnInv' /\ PidInv' /\ HandleInv' /\ LeftInv'
  BY <1>1, <1>2, <1>3 DEF SpawnInv, PidInv, HandleInv, LeftInv
<1>9. OneChild' /\ PidHasHandle'
  BY <1>1, <1>2 DEF OneChild, PidHasHandle
<1> QED
  BY <1>4, <1>5, <1>6, <1>7, <1>8, <1>9 DEF IInv

LEMMA LinkReadInv ==
  ASSUME IInv, LinkRead
  PROVE  IInv'
<1>1. /\ LoopType(Reqs) /\ VpnType /\ WalkInv /\ MainInv /\ WorkInv /\ ExitInv
      /\ LinkInv /\ SpawnInv /\ PidInv /\ HandleInv /\ LeftInv
      /\ OneChild /\ PidHasHandle
  BY DEF IInv
<1>2. /\ UNCHANGED <<batch, iocp, active, reqs, endgame>>
      /\ UNCHANGED <<child, proc, read, reused, early>>
      /\ InsertLink /\ inserting' = Nobody
      /\ lpc' = lpc \/ lpc' = "undefined"
  BY DEF LinkRead, InsertLink
<1>3. /\ pc' \in PcType /\ pc.ui = "link" /\ pc'.main = pc.main
      /\ pc'.ui = "idle" /\ lpc # "undefined"
  BY <1>1, GotoUi DEF LinkRead, VpnType, UiPlaces
<1>4. LoopType(Reqs)'
  BY <1>1, <1>2, LinkType
<1>5. lpc # "left" /\ pc.main # "queue"
  BY <1>1, <1>3 DEF MainInv
<1>6. ASSUME lpc' # "undefined" PROVE Copies(WorkReq)' = Copies(WorkReq)
  <2>1. Copies(WorkReq) = 0
    BY <1>1, <1>3, <1>5, CountsType DEF WorkInv, VpnType
  <2>2. Copies(WorkReq) <= 1 + Count(batch, WorkReq)
    BY <1>1, <2>1, CountsType
  <2> QED
    BY <1>1, <1>2, <1>6, <2>2, CopiesLink, ReqsMembers
<1>7. ASSUME lpc' # "undefined" PROVE Copies(ExitReq)' = Copies(ExitReq)
  <2>1. Count(batch, ExitReq) \in Nat
    BY <1>1, CountsType
  <2>2. pc.main = "on_exit" => Count(batch, ExitReq) >= 1
    <3> SUFFICES ASSUME pc.main = "on_exit" PROVE Count(batch, ExitReq) >= 1
      OBVIOUS
    <3>1. batch # <<>> /\ Head(batch) = ExitReq
      BY <1>1 DEF MainInv
    <3>2. Count(batch, ExitReq)
            = Is(Head(batch), ExitReq) + Count(Tail(batch), ExitReq)
      BY <1>1, <3>1, CountTail DEF LoopType
    <3>3. Tail(batch) \in Seq(Reqs)
      BY <1>1, <3>1 DEF LoopType
    <3>4. Count(Tail(batch), ExitReq) \in Nat
      BY <3>3, AtFinite
    <3>5. Is(Head(batch), ExitReq) = 1
      BY <3>1 DEF Is
    <3> QED
      BY <3>2, <3>4, <3>5
  <2>3. Copies(ExitReq) <= 1 + Count(batch, ExitReq)
    BY <1>1, <1>3, <2>1, <2>2 DEF ExitInv
  <2> QED
    BY <1>1, <1>2, <1>7, <2>3, CopiesLink, ReqsMembers
<1>8. VpnType' /\ WalkInv' /\ MainInv'
  BY <1>1, <1>2, <1>3, <1>5 DEF VpnType, WalkInv, MainInv
<1>9. WorkInv' /\ ExitInv' /\ LinkInv'
  BY <1>1, <1>2, <1>3, <1>6, <1>7 DEF WorkInv, ExitInv, LinkInv
<1>10. SpawnInv' /\ PidInv' /\ HandleInv' /\ LeftInv'
  BY <1>1, <1>2, <1>3, <1>5 DEF SpawnInv, PidInv, HandleInv, LeftInv
<1>11. OneChild' /\ PidHasHandle'
  BY <1>1, <1>2 DEF OneChild, PidHasHandle
<1> QED
  BY <1>4, <1>8, <1>9, <1>10, <1>11 DEF IInv

\* The window's work ends, and a child ends: a request is posted, which says
\* nothing about the exit of a child yet.
LEMMA PostInv ==
  ASSUME IInv, CloseWindow \/ \E n \in Spawns : ChildExits(n)
  PROVE  IInv'
<1>1. /\ LoopType(Reqs) /\ VpnType /\ WalkInv /\ MainInv /\ WorkInv /\ ExitInv
      /\ LinkInv /\ SpawnInv /\ PidInv /\ HandleInv /\ LeftInv
      /\ OneChild /\ PidHasHandle
  BY DEF IInv
<1>2. /\ UNCHANGED <<lpc, ring, batch, active, reqs, endgame, inserting, lost>>
      /\ UNCHANGED <<proc, reused, early>>
      /\ lpc # "undefined"
  BY DEF CloseWindow, ChildExits, Goto
<1>3. /\ pc' \in PcType /\ pc'.main = pc.main
      /\ \/ /\ pc.ui = "idle" /\ pc'.ui = "closed" /\ Post(WorkReq)
            /\ UNCHANGED <<child, read>>
         \/ /\ pc' = pc
            /\ Post(ReadReq) \/ iocp' = iocp
            /\ read' \in {"none", "kernel", "done"}
            /\ \E n \in Spawns : child[n] = "running"
                                 /\ child' = [child EXCEPT ![n] = "exited"]
  <2>1. CASE CloseWindow
    BY <1>1, <2>1, GotoUi DEF CloseWindow, VpnType, UiPlaces
  <2>2. ASSUME NEW n \in Spawns, ChildExits(n)
        PROVE  /\ pc' = pc
               /\ Post(ReadReq) \/ iocp' = iocp
               /\ read' \in {"none", "kernel", "done"}
               /\ child[n] = "running"
               /\ child' = [child EXCEPT ![n] = "exited"]
    BY <1>1, <2>2 DEF ChildExits, VpnType
  <2> QED
    BY <1>1, <2>1, <2>2 DEF VpnType
<1>4. /\ child' \in ChildType
      /\ \A n \in Spawns : /\ child'[n] = "running" => child[n] = "running"
                           /\ child[n] = "signalled" => child'[n] = "signalled"
  <2>1. CASE child' = child
    BY <1>1, <2>1 DEF VpnType
  <2>2. ASSUME NEW n \in Spawns, child[n] = "running",
               child' = [child EXCEPT ![n] = "exited"]
        PROVE  /\ child' \in ChildType
               /\ \A m \in Spawns :
                    /\ child'[m] = "running" => child[m] = "running"
                    /\ child[m] = "signalled" => child'[m] = "signalled"
    BY <1>1, <2>2 DEF VpnType, ChildType
  <2> QED
    BY <1>3, <2>1, <2>2
<1>5. /\ LoopType(Reqs)' /\ Copies(ExitReq)' = Copies(ExitReq)
      /\ Copies(WorkReq)' = Copies(WorkReq)
           + (IF pc.ui # "closed" /\ pc'.ui = "closed" THEN 1 ELSE 0)
  <2>1. Copies(WorkReq) \in Nat /\ Copies(ExitReq) \in Nat
    BY <1>1, CountsType
  <2>2. CASE Post(WorkReq) /\ pc.ui = "idle" /\ pc'.ui = "closed"
    <3>1. \A r : LoopType(Reqs)' /\ Copies(r)' = Copies(r) + Is(WorkReq, r)
      BY <1>1, <1>2, <2>2, CopiesPost, ReqsMembers
    <3> QED
      BY <2>1, <2>2, <3>1, ReqsMembers DEF Is
  <2>3. CASE Post(ReadReq) /\ pc' = pc
    <3>1. \A r : LoopType(Reqs)' /\ Copies(r)' = Copies(r) + Is(ReadReq, r)
      BY <1>1, <1>2, <2>3, CopiesPost, ReqsMembers
    <3> QED
      BY <2>1, <2>3, <3>1, ReqsMembers DEF Is
  <2>4. CASE iocp' = iocp /\ pc' = pc
    BY <1>1, <1>2, <2>1, <2>4, QuietCopies
  <2> QED
    BY <1>3, <2>2, <2>3, <2>4
<1>6. VpnType'
  BY <1>1, <1>2, <1>3, <1>4 DEF VpnType
<1>7. WalkInv' /\ MainInv' /\ LinkInv'
  BY <1>1, <1>2, <1>3 DEF WalkInv, MainInv, LinkInv
<1>8. WorkInv' /\ ExitInv'
  <2>1. pc.ui # "closed" /\ pc'.ui = "closed" => pc.main # "queue"
    BY <1>1, <1>3 DEF MainInv
  <2>2. Copies(WorkReq) \in Nat
    BY <1>1, CountsType
  <2> QED
    BY <1>1, <1>2, <1>3, <1>5, <2>1, <2>2 DEF WorkInv, ExitInv
<1>9. SpawnInv' /\ HandleInv' /\ LeftInv'
  BY <1>1, <1>2, <1>3 DEF SpawnInv, HandleInv, LeftInv
<1>10. PidInv'
  <2>1. proc.pid # None => proc.pid \in Spawns
    BY <1>1, SpawnNumbers DEF VpnType, ProcType
  <2> QED
    BY <1>1, <1>2, <1>3, <1>4, <2>1 DEF PidInv
<1>11. OneChild' /\ PidHasHandle'
  BY <1>1, <1>2, <1>4 DEF OneChild, PidHasHandle
<1> QED
  BY <1>5, <1>6, <1>7, <1>8, <1>9, <1>10, <1>11 DEF IInv

\* exit_wait_callback: the end of the child is pending, and its request posted.
LEMMA ExitSignalInv ==
  ASSUME IInv, NEW n \in Spawns, ExitSignal(n)
  PROVE  IInv'
<1>1. /\ LoopType(Reqs) /\ VpnType /\ WalkInv /\ MainInv /\ WorkInv /\ ExitInv
      /\ LinkInv /\ SpawnInv /\ PidInv /\ HandleInv /\ LeftInv
      /\ OneChild /\ PidHasHandle
  BY DEF IInv
<1>2. /\ UNCHANGED <<lpc, ring, batch, active, reqs, endgame, inserting, lost>>
      /\ UNCHANGED <<pc, read, reused, early>>
      /\ lpc # "undefined" /\ child[n] = "exited" /\ proc.wait = n
      /\ child' = [child EXCEPT ![n] = "signalled"]
      /\ proc' = [proc EXCEPT !.pending = TRUE]
      /\ Post(ExitReq)
  BY DEF ExitSignal
<1>3. /\ proc' \in ProcType /\ proc'.spawn = proc.spawn
      /\ proc'.pid = proc.pid /\ proc'.handle = proc.handle
      /\ proc'.wait = proc.wait /\ proc'.pending = TRUE
  BY <1>1, <1>2 DEF VpnType, ProcType
<1>4. n # None /\ proc.pid = n /\ proc.wait # None
  BY <1>1, <1>2, SpawnNumbers DEF PidInv
<1>5. ~proc.pending
  BY <1>1, <1>2, <1>4 DEF PidInv
<1>6. /\ child' \in ChildType /\ child'[n] = "signalled"
      /\ \A m \in Spawns : child'[m] = "running" => child[m] = "running"
  BY <1>1, <1>2 DEF VpnType, ChildType
<1>7. \A r : LoopType(Reqs)' /\ Copies(r)' = Copies(r) + Is(ExitReq, r)
  BY <1>1, <1>2, CopiesPost, ReqsMembers
<1>8. /\ Copies(ExitReq)' = Copies(ExitReq) + 1
      /\ Copies(WorkReq)' = Copies(WorkReq)
  <2>1. Copies(WorkReq) \in Nat
    BY <1>1, CountsType
  <2> QED
    BY <1>7, <2>1, ReqsMembers DEF Is
<1>9. VpnType'
  BY <1>1, <1>2, <1>3, <1>6 DEF VpnType
<1>10. WalkInv' /\ MainInv' /\ LinkInv' /\ SpawnInv'
  BY <1>1, <1>2, <1>3 DEF WalkInv, MainInv, LinkInv, SpawnInv
<1>11. WorkInv' /\ ExitInv'
  BY <1>1, <1>2, <1>3, <1>5, <1>8 DEF WorkInv, ExitInv
<1>12. PidInv'
  BY <1>1, <1>2, <1>3, <1>4, <1>6 DEF PidInv
<1>13. HandleInv' /\ LeftInv'
  BY <1>1, <1>2, <1>3 DEF HandleInv, LeftInv
<1>14. OneChild' /\ PidHasHandle'
  BY <1>1, <1>2, <1>3, <1>6 DEF OneChild, PidHasHandle
<1> QED
  BY <1>7, <1>9, <1>10, <1>11, <1>12, <1>13, <1>14 DEF IInv

-------------------------------------------------------------------------------
(* The callbacks. *)

\* A callback that inserts nothing uses up its own request.
LEMMA CallbackCopies ==
  ASSUME IInv, NEW e, Processing(e), UNCHANGED <<ring, iocp, inserting, lost>>
  PROVE  /\ LoopType(Reqs)' /\ Head(batch) = e /\ batch # <<>>
         /\ lpc \in {"process", "process_more"}
         /\ Copies(e) >= 1 /\ Copies(e)' = Copies(e) - 1
         /\ \A r : r # e => Copies(r)' = Copies(r)
         /\ \A r : Copies(r) \in Nat
<1>1. LoopType(Reqs)
  BY DEF IInv
<1>2. /\ batch # <<>> /\ Head(batch) = e
      /\ lpc \in {"process", "process_more"}
  BY DEF Processing
<1> QED
  BY <1>1, <1>2, CopiesProcessed

\* The window's work, and the read that ended.
LEMMA OtherCallbacksInv ==
  ASSUME IInv, ReadEnds \/ WorkDone
  PROVE  IInv'
<1>1. /\ LoopType(Reqs) /\ VpnType /\ WalkInv /\ MainInv /\ WorkInv /\ ExitInv
      /\ LinkInv /\ SpawnInv /\ PidInv /\ HandleInv /\ LeftInv
      /\ OneChild /\ PidHasHandle
  BY DEF IInv
<1>2. /\ UNCHANGED <<lpc, ring, iocp, active, endgame, inserting, lost>>
      /\ UNCHANGED <<pc, child, proc, reused, early>>
      /\ read' \in {"none", "kernel", "done"}
      /\ \/ Processing(ReadReq) /\ reqs' = reqs
         \/ Processing(WorkReq) /\ reqs' = reqs - 1
  BY <1>1 DEF ReadEnds, WorkDone, childVars, VpnType
<1>3. /\ LoopType(Reqs)' /\ Head(batch) # ExitReq /\ batch # <<>>
      /\ lpc \in {"process", "process_more"}
      /\ Copies(ExitReq)' = Copies(ExitReq)
      /\ \/ reqs' = reqs /\ Copies(WorkReq)' = Copies(WorkReq)
         \/ /\ reqs' = reqs - 1 /\ Copies(WorkReq) >= 1
            /\ Copies(WorkReq)' = Copies(WorkReq) - 1
      /\ Copies(WorkReq) \in Nat
  <2>1. CASE Processing(ReadReq) /\ reqs' = reqs
    BY <1>2, <2>1, CallbackCopies, ReqsMembers
  <2>2. CASE Processing(WorkReq) /\ reqs' = reqs - 1
    BY <1>2, <2>2, CallbackCopies, ReqsMembers
  <2> QED
    BY <1>2, <2>1, <2>2
<1>4. reqs' \in 0..1 /\ pc.main \notin {"queue", "on_exit"}
  BY <1>1, <1>3 DEF WorkInv, MainInv, VpnType
<1>5. VpnType' /\ WalkInv' /\ MainInv'
  BY <1>1, <1>2, <1>3, <1>4 DEF VpnType, WalkInv, MainInv
<1>6. WorkInv' /\ ExitInv' /\ LinkInv'
  BY <1>1, <1>2, <1>3, <1>4 DEF WorkInv, ExitInv, LinkInv, VpnType
<1>7. SpawnInv' /\ PidInv' /\ HandleInv' /\ LeftInv'
  BY <1>1, <1>2 DEF SpawnInv, PidInv, HandleInv, LeftInv
<1>8. OneChild' /\ PidHasHandle'
  BY <1>1, <1>2 DEF OneChild, PidHasHandle
<1> QED
  BY <1>3, <1>5, <1>6, <1>7, <1>8 DEF IInv

\* The first half of on_exit: only the child of the pid, which had ended, is
\* reported, and the pid is cleared.
LEMMA ExitReportedInv ==
  ASSUME IInv, ExitReported
  PROVE  IInv'
<1>1. /\ LoopType(Reqs) /\ VpnType /\ WalkInv /\ MainInv /\ WorkInv /\ ExitInv
      /\ LinkInv /\ SpawnInv /\ PidInv /\ HandleInv /\ LeftInv
      /\ OneChild /\ PidHasHandle
  BY DEF IInv
<1>2. /\ lpc \in {"process", "process_more"} /\ batch # <<>>
      /\ Head(batch) = ExitReq
      /\ UNCHANGED <<lpc, ring, batch, iocp, reqs, endgame, inserting, lost>>
      /\ UNCHANGED <<read, reused>>
      /\ child' = [n \in Spawns |-> IF child[n] = "signalled" THEN "reported"
                                    ELSE child[n]]
      /\ active' = active \ {Active(proc.spawn)}
      /\ proc' = [proc EXCEPT !.pending = FALSE, !.wait = None, !.active = FALSE,
                              !.pid = None]
      /\ early' = (early \/ pc.ui = "start")
  BY DEF ExitReported
<1>3. /\ pc' \in PcType /\ pc.main = "run" /\ pc'.main = "on_exit"
      /\ pc'.ui = pc.ui /\ lpc # "undefined"
  BY <1>1, GotoMain DEF ExitReported, VpnType, MainPlaces
<1>4. LoopType(Reqs)' /\ \A r : Copies(r)' = Copies(r)
  BY <1>1, <1>2, QuietCopies
<1>5. /\ proc.pending /\ proc.pid # None /\ proc.pid = proc.spawn
      /\ child[proc.pid] = "signalled" /\ proc.pid \in Spawns
  <2>1. /\ proc.pending /\ proc.pid # None /\ proc.pid = proc.spawn
        /\ child[proc.pid] = "signalled"
    BY <1>2, <1>3, ExitOnItsWay
  <2> QED
    BY <1>1, <2>1, SpawnNumbers DEF VpnType, ProcType
<1>6. /\ proc' \in ProcType /\ proc'.spawn = proc.spawn
      /\ proc'.pid = None /\ proc'.handle = proc.handle
      /\ proc'.wait = None /\ proc'.pending = FALSE
  BY <1>1, <1>2, SpawnNumbers DEF VpnType, ProcType
<1>7. /\ child' \in ChildType
      /\ \A n \in Spawns : child'[n] # "running"
  BY <1>1, <1>2, <1>5 DEF VpnType, ChildType, OneChild
<1>8. \A n : Closing(n) \in active' <=> Closing(n) \in active
  BY <1>2, HandleNames
<1>9. VpnType'
  <2>1. early' \in BOOLEAN /\ active' \subseteq {"active", "closing"} \X Spawns
    BY <1>1, <1>2 DEF VpnType
  <2> QED
    BY <1>1, <1>2, <1>3, <1>6, <1>7, <2>1 DEF VpnType
<1>10. WalkInv' /\ MainInv' /\ LinkInv' /\ LeftInv'
  BY <1>1, <1>2, <1>3, <1>6 DEF WalkInv, MainInv, LinkInv, LeftInv
<1>11. WorkInv' /\ ExitInv'
  BY <1>1, <1>2, <1>3, <1>4, <1>5, <1>6 DEF WorkInv, ExitInv
<1>12. pc.ui \notin {"init", "create", "register"}
  BY <1>1, <1>5 DEF PidInv
<1>13. SpawnInv' /\ PidInv'
  BY <1>1, <1>2, <1>3, <1>5, <1>6, <1>8, <1>12 DEF SpawnInv, PidInv
<1>14. HandleInv'
  <2>1. endgame' \subseteq active'
    BY <1>1, <1>2, HandleNames DEF HandleInv, VpnType
  <2> QED
    BY <1>1, <1>2, <1>3, <1>6, <1>12, <2>1 DEF HandleInv
<1>15. OneChild' /\ PidHasHandle'
  BY <1>6, <1>7 DEF OneChild, PidHasHandle
<1> QED
  BY <1>4, <1>9, <1>10, <1>11, <1>13, <1>14, <1>15 DEF IInv

\* uv__want_endgame queues the handle as it is now, or breaks the list.
LEMMA WantEndgameShape ==
  ASSUME NEW counted, WantEndgame(counted)
  PROVE  /\ lpc' = lpc \/ lpc' = "undefined"
         /\ \/ endgame' = endgame
            \/ endgame' = {Closing(proc.spawn)} /\ Closing(proc.spawn) \in counted
  BY DEF WantEndgame

\* uv_close in on_exit, on the handle as it is by now.
LEMMA CloseProcessInv ==
  ASSUME IInv, CloseProcess
  PROVE  IInv'
<1>1. /\ LoopType(Reqs) /\ VpnType /\ WalkInv /\ MainInv /\ WorkInv /\ ExitInv
      /\ LinkInv /\ SpawnInv /\ PidInv /\ HandleInv /\ LeftInv
      /\ OneChild /\ PidHasHandle
  BY DEF IInv
<1>2. /\ Processing(ExitReq)
      /\ UNCHANGED <<ring, iocp, reqs, inserting, lost>>
      /\ UNCHANGED <<child, read, reused, early>>
      /\ active' = (active \ {Active(proc.spawn)}) \cup {Closing(proc.spawn)}
      /\ lpc' = lpc \/ lpc' = "undefined"
      /\ endgame' = endgame \/ endgame' = {Closing(proc.spawn)}
      /\ proc' = [proc EXCEPT !.closing = TRUE, !.active = FALSE, !.wait = None,
                              !.queued = ~proc.pending]
  BY WantEndgameShape DEF CloseProcess
<1>3. /\ pc' \in PcType /\ pc.main = "on_exit" /\ pc'.main = "run"
      /\ pc'.ui = pc.ui /\ lpc # "undefined"
  BY <1>1, GotoMain DEF CloseProcess, VpnType, MainPlaces
<1>4. /\ LoopType(Reqs)' /\ lpc \in {"process", "process_more"}
      /\ Copies(ExitReq)' = Copies(ExitReq) - 1
      /\ Copies(WorkReq)' = Copies(WorkReq)
      /\ Copies(ExitReq) \in Nat
  BY <1>2, CallbackCopies, ReqsMembers
<1>5. /\ proc' \in ProcType /\ proc'.spawn = proc.spawn
      /\ proc'.pid = proc.pid /\ proc'.handle = proc.handle
      /\ proc'.wait = None /\ proc'.pending = proc.pending
  BY <1>1, <1>2, SpawnNumbers DEF VpnType, ProcType
<1>6. proc.spawn # None /\ proc.spawn \in Spawns
  BY <1>1, <1>3, SpawnNumbers DEF SpawnInv, VpnType, ProcType
<1>7. /\ active' \subseteq {"active", "closing"} \X Spawns
      /\ Closing(proc.spawn) \in active'
      /\ \A n : Closing(n) \in active' => Closing(n) \in active \/ n = proc.spawn
  BY <1>1, <1>2, <1>6, HandleNames DEF VpnType
<1>8. endgame' \subseteq {Closing(n) : n \in Spawns}
  BY <1>1, <1>2, <1>6 DEF VpnType
<1>9. endgame' \subseteq active'
  BY <1>1, <1>2, <1>7, HandleNames DEF HandleInv, VpnType
<1>10. VpnType'
  BY <1>1, <1>2, <1>3, <1>5, <1>7, <1>8 DEF VpnType
<1>11. WalkInv' /\ MainInv' /\ LinkInv' /\ LeftInv'
  BY <1>1, <1>2, <1>3, <1>4, <1>5 DEF WalkInv, MainInv, LinkInv, LeftInv
<1>12. WorkInv' /\ ExitInv'
  BY <1>1, <1>2, <1>3, <1>4, <1>5 DEF WorkInv, ExitInv
<1>13. SpawnInv'
  <2>1. ASSUME NEW n \in Spawns, Closing(n) \in active'
        PROVE  n <= proc.spawn
    <3>1. CASE Closing(n) \in active
      BY <1>1, <3>1 DEF SpawnInv
    <3>2. CASE n = proc.spawn
      BY <1>6, <3>2 DEF Spawns
    <3> QED
      BY <1>7, <2>1, <3>1, <3>2
  <2> QED
    BY <1>1, <1>3, <1>5, <2>1 DEF SpawnInv
<1>14. PidInv'
  BY <1>1, <1>2, <1>3, <1>5 DEF PidInv
<1>15. HandleInv'
  BY <1>1, <1>2, <1>3, <1>5, <1>7, <1>9 DEF HandleInv
<1>16. OneChild' /\ PidHasHandle'
  BY <1>1, <1>2, <1>5 DEF OneChild, PidHasHandle
<1> QED
  BY <1>4, <1>10, <1>11, <1>12, <1>13, <1>14, <1>15, <1>16 DEF IInv

\* The exit of a child whose handle is being closed is not reported, and the
\* pid stays.
LEMMA ExitWhileClosingInv ==
  ASSUME IInv, ExitWhileClosing
  PROVE  IInv'
<1>1. /\ LoopType(Reqs) /\ VpnType /\ WalkInv /\ MainInv /\ WorkInv /\ ExitInv
      /\ LinkInv /\ SpawnInv /\ PidInv /\ HandleInv /\ LeftInv
      /\ OneChild /\ PidHasHandle
  BY DEF IInv
<1>2. /\ Processing(ExitReq) /\ pc.main = "run"
      /\ UNCHANGED <<ring, iocp, active, reqs, inserting, lost>>
      /\ UNCHANGED <<pc, child, read, reused, early>>
      /\ lpc' = lpc \/ lpc' = "undefined"
      /\ \/ endgame' = endgame
         \/ endgame' = {Closing(proc.spawn)} /\ Closing(proc.spawn) \in active
      /\ proc' = [proc EXCEPT !.pending = FALSE, !.queued = TRUE]
  BY WantEndgameShape DEF ExitWhileClosing
<1>3. /\ LoopType(Reqs)' /\ lpc \in {"process", "process_more"}
      /\ batch # <<>> /\ Head(batch) = ExitReq
      /\ Copies(ExitReq)' = Copies(ExitReq) - 1
      /\ Copies(WorkReq)' = Copies(WorkReq)
      /\ Copies(ExitReq) \in Nat
  BY <1>2, CallbackCopies, ReqsMembers
<1>4. proc.pending /\ proc.pid # None /\ proc.pid = proc.spawn
  BY <1>2, <1>3, ExitOnItsWay
<1>5. /\ proc' \in ProcType /\ proc'.spawn = proc.spawn
      /\ proc'.pid = proc.pid /\ proc'.handle = proc.handle
      /\ proc'.wait = proc.wait /\ proc'.pending = FALSE
  BY <1>1, <1>2 DEF VpnType, ProcType
<1>6. proc.spawn \in Spawns
  BY <1>1, <1>4, SpawnNumbers DEF VpnType, ProcType
<1>7. VpnType'
  <2>1. endgame' \subseteq {Closing(n) : n \in Spawns}
    BY <1>1, <1>2, <1>6 DEF VpnType
  <2> QED
    BY <1>1, <1>2, <1>5, <2>1 DEF VpnType
<1>8. WalkInv' /\ MainInv' /\ LinkInv' /\ LeftInv'
  BY <1>1, <1>2, <1>3, <1>5 DEF WalkInv, MainInv, LinkInv, LeftInv
<1>9. WorkInv' /\ ExitInv'
  BY <1>1, <1>2, <1>3, <1>4, <1>5 DEF WorkInv, ExitInv
<1>10. SpawnInv' /\ PidInv'
  BY <1>1, <1>2, <1>5 DEF SpawnInv, PidInv
<1>11. HandleInv'
  BY <1>1, <1>2, <1>5 DEF HandleInv
<1>12. OneChild' /\ PidHasHandle'
  BY <1>1, <1>2, <1>5 DEF OneChild, PidHasHandle
<1> QED
  BY <1>3, <1>7, <1>8, <1>9, <1>10, <1>11, <1>12 DEF IInv

\* The endgame closes the handle that child_req holds now.
LEMMA CloseHandlesInv ==
  ASSUME IInv, CloseHandles
  PROVE  IInv'
<1>1. /\ LoopType(Reqs) /\ VpnType /\ WalkInv /\ MainInv /\ WorkInv /\ ExitInv
      /\ LinkInv /\ SpawnInv /\ PidInv /\ HandleInv /\ LeftInv
      /\ OneChild /\ PidHasHandle
  BY DEF IInv
<1>2. /\ Endgames /\ lpc = "drain" /\ lpc' = "check" /\ endgame' = {}
      /\ active' = active \ endgame
      /\ UNCHANGED <<ring, batch, iocp, reqs, inserting, lost>>
      /\ UNCHANGED <<pc, child, read, reused, early>>
      /\ proc' = IF endgame = {} THEN proc
                 ELSE [proc EXCEPT !.queued = FALSE, !.handle = None]
  BY DEF CloseHandles, Endgames
<1>3. \A r : LoopType(Reqs)' /\ WalkInv' /\ Copies(r)' = Copies(r)
  BY <1>1, <1>2, CopiesEndgames
<1>4. /\ proc' \in ProcType /\ proc'.spawn = proc.spawn
      /\ proc'.pid = proc.pid /\ proc'.wait = proc.wait
      /\ proc'.pending = proc.pending
      /\ \/ endgame = {} /\ proc'.handle = proc.handle
         \/ endgame # {} /\ proc'.handle = None
  BY <1>1, <1>2, SpawnNumbers DEF VpnType, ProcType
<1>5. VpnType'
  BY <1>1, <1>2, <1>4 DEF VpnType
<1>6. MainInv' /\ LinkInv' /\ LeftInv' /\ SpawnInv' /\ PidInv' /\ OneChild'
  BY <1>1, <1>2, <1>4 DEF MainInv, LinkInv, LeftInv, SpawnInv, PidInv, OneChild
<1>7. WorkInv' /\ ExitInv'
  BY <1>1, <1>2, <1>3, <1>4 DEF WorkInv, ExitInv
<1>8. HandleInv'
  BY <1>1, <1>2, <1>4 DEF HandleInv
<1>9. PidHasHandle'
  <2>1. ~reused /\ endgame # {} => proc.pid = None
    BY <1>1 DEF HandleInv
  <2> QED
    BY <1>1, <1>2, <1>4, <2>1 DEF PidHasHandle
<1> QED
  BY <1>3, <1>5, <1>6, <1>7, <1>8, <1>9 DEF IInv

-------------------------------------------------------------------------------
(* The theorems. *)

LEMMA StutterInv ==
  ASSUME IInv, UNCHANGED vars
  PROVE  IInv'
<1>1. /\ LoopType(Reqs) /\ VpnType /\ WalkInv /\ MainInv /\ WorkInv /\ ExitInv
      /\ LinkInv /\ SpawnInv /\ PidInv /\ HandleInv /\ LeftInv
      /\ OneChild /\ PidHasHandle
  BY DEF IInv
<1>2. /\ UNCHANGED <<lpc, ring, batch, iocp, active, reqs, endgame, inserting,
                     lost>>
      /\ UNCHANGED <<pc, child, proc, read, reused, early>>
  BY DEF vars, loopVars, childVars
<1>3. LoopType(Reqs)' /\ \A r : Copies(r)' = Copies(r)
  BY <1>1, <1>2, QuietCopies
<1>4. VpnType' /\ WalkInv' /\ MainInv' /\ WorkInv' /\ ExitInv' /\ LinkInv'
  BY <1>1, <1>2, <1>3 DEF VpnType, WalkInv, MainInv, WorkInv, ExitInv, LinkInv
<1>5. SpawnInv' /\ PidInv' /\ HandleInv' /\ LeftInv' /\ OneChild' /\ PidHasHandle'
  BY <1>1, <1>2 DEF SpawnInv, PidInv, HandleInv, LeftInv, OneChild, PidHasHandle
<1> QED
  BY <1>3, <1>4, <1>5 DEF IInv

LEMMA StepInv == IInv /\ [Next]_vars => IInv'
<1> SUFFICES ASSUME IInv, [Next]_vars PROVE IInv'
  OBVIOUS
<1>1. CASE UNCHANGED vars
  BY <1>1, StutterInv
<1>2. CASE MainThread
  BY <1>2, MoveInv, LoopStepInv, TerminateInv, ExitReportedInv, CloseProcessInv,
     ExitWhileClosingInv, CloseHandlesInv, OtherCallbacksInv DEF MainThread
<1>3. CASE UiThread
  BY <1>3, MoveInv, InitHandlesInv, CreateChildInv, RegisterWaitInv,
     StartHandleInv, UndefinedInv, ReadStartInv, LinkReadInv DEF UiThread
<1>4. CASE User \/ OpenWindow \/ CountersCollide
  BY <1>4, MoveInv, PostInv, UndefinedInv DEF User
<1>5. ASSUME NEW n \in Spawns, ChildExits(n) \/ ExitSignal(n)
      PROVE  IInv'
  BY <1>5, PostInv, ExitSignalInv
<1> QED
  BY <1>1, <1>2, <1>3, <1>4, <1>5 DEF Next

\* The inductive invariant holds in every behaviour.
LEMMA Inductive == SafeSpec => []IInv
  BY InitInv, StepInv, PTL DEF SafeSpec

\* For any number of clicks the variables stay in their ranges: in particular
\* the endgame list never holds anything but the one uv_process_t, and uv_run's
\* count of requests never goes below zero.
THEOREM VpnTypeCorrect == SafeSpec => []TypeOK
<1>1. IInv => TypeOK
  BY TypeParts DEF IInv
<1> QED
  BY <1>1, Inductive, PTL

\* There are never two VPN processes at a time: the pid, which the UI thread
\* tests without a lock and the main thread clears, names the running child,
\* also when a closing uv_process_t was initialised again.
THEOREM NeverTwoChildren == SafeSpec => []OneChild
<1>1. IInv => OneChild
  BY DEF IInv
<1> QED
  BY <1>1, Inductive, PTL

\* As long as there is a pid, disconnect() finds the open handle of that child,
\* unless a closing uv_process_t was initialised again.
THEOREM PidHasHandleAlways == SafeSpec => []PidHasHandle
<1>1. IInv => PidHasHandle
  BY DEF IInv
<1> QED
  BY <1>1, Inductive, PTL

\* uv_run is not left while a child runs, so that the destructor waits for none;
\* after a closing uv_process_t was initialised again it may, but then not on
\* the handle of a process.
THEOREM LoopOutlivesChildAlways == SafeSpec => []LoopOutlivesChild
<1>1. IInv => LoopOutlivesChild
  BY DEF IInv, MainInv, LeftInv, OneChild, LoopOutlivesChild, Spawns, None
<1> QED
  BY <1>1, Inductive, PTL
===============================================================================
