------------------------------- MODULE PipeServer -----------------------------
(***************************************************************************)
(* The daemon's named-pipe server: CMachine::run and worker_rpc            *)
(* (src/deamon/machine.cpp), rpsmgr (src/deamon/rpsmgr.cpp) and what they  *)
(* make libuv's pipe code do (src/depends/libuv/src/win/pipe.c).           *)
(*                                                                         *)
(* The loop thread runs uv_run; meanwhile worker_rpc, on a thread of       *)
(* libuv's pool, initialises, binds and listens on a pipe of that loop,    *)
(* which arms one accept request per pipe instance.  Clients are external: *)
(* each connects at most once, writes and leaves when it likes, also while *)
(* the worker is still arming instances.  The server answers nothing; it   *)
(* reads until the client is gone and closes.                              *)
(***************************************************************************)
EXTENDS UvLoop, FiniteSets

CONSTANTS
  Clients,      \* connections that may be made
  NoClient,     \* stands for: no client
  Instances,    \* how many pipe instances wait for a client at a time
  MaxMsgs,      \* messages a client writes
  MaxFaults     \* how many system calls and allocations fail

ASSUME PipeServerAssumption ==
  /\ Instances \in Nat \ {0}
  /\ MaxMsgs \in Nat /\ MaxFaults \in Nat
  /\ NoClient \notin Clients
  /\ "server" \notin Clients

VARIABLES
  worker,     \* where worker_rpc is
  next,       \* the instance uv__pipe_listen arms next
  server,     \* pipeServer: "none", "open", "bound", "listening", "failed"
  nameFree,   \* no other process serves PIPENAME
  inst,       \* state of each pipe instance
  conn,       \* the client connected to each instance, or NoClient
  pendingAccepts, \* connected instances not yet accepted, latest first
  client,     \* external: each client's end, "out", "in", "gone" or "dropped"
  unread,     \* messages in each client's pipe that nobody has read
  writes,     \* messages each client has written
  handle,     \* the daemon's uv_pipe_t for each client
  reading,    \* a zero-read is outstanding in the kernel for that handle
  faults      \* failures that happened so far

serverVars == <<worker, next, server, nameFree, inst, conn, pendingAccepts,
                client, unread, writes, handle, reading, faults>>
vars == <<loopVars, serverVars>>

Insts == 1..Instances
AcceptReq(i) == <<"accept", i>>
ReadReq(c) == <<"read", c>>
WorkReq == <<"work">>

Init ==
  /\ LoopInit
  /\ worker = "idle" /\ next = 1
  /\ server = "none" /\ nameFree \in BOOLEAN
  /\ inst = [i \in Insts |-> "none"]
  /\ conn = [i \in Insts |-> NoClient]
  /\ pendingAccepts = <<>>
  /\ client = [c \in Clients |-> "out"]
  /\ unread = [c \in Clients |-> 0] /\ writes = [c \in Clients |-> 0]
  /\ handle = [c \in Clients |-> "none"]
  /\ reading = [c \in Clients |-> FALSE]
  /\ faults = 0

Fail == faults < MaxFaults /\ faults' = faults + 1

-------------------------------------------------------------------------------
(* The loop thread starts: CMachine::run. *)

\* Seeded fault: the work is handed to the pool without registering it.
RunUnregistered ==
  /\ lpc = "before"
  /\ lpc' = "check" /\ worker' = "queued"
  /\ UNCHANGED <<ring, batch, iocp, active, reqs, endgame, inserting, lost,
                 next, server, nameFree, inst, conn, pendingAccepts, client,
                 unread, writes, handle, reading, faults>>

\* uv_queue_work registers the request, which keeps uv_run going.
Run ==
  /\ lpc = "before"
  /\ lpc' = "check"
  /\ reqs' = reqs + 1
  /\ worker' = "queued"
  /\ UNCHANGED <<ring, batch, iocp, active, endgame, inserting, lost, next,
                 server, nameFree, inst, conn, pendingAccepts, client, unread,
                 writes, handle, reading, faults>>

-------------------------------------------------------------------------------
(* worker_rpc and initLocalServer, on a pool thread. *)

WorkerInit ==
  /\ worker = "queued"
  /\ worker' = "bind"
  /\ server' = "open"
  /\ UNCHANGED <<loopVars, next, nameFree, inst, conn, pendingAccepts, client,
                 unread, writes, handle, reading, faults>>

\* Seeded fault: the worker keeps trying to bind.
WorkerBindRetries ==
  /\ worker = "bind"
  /\ IF nameFree
     THEN /\ server' = "bound" /\ worker' = "listen"
          /\ inst' = [inst EXCEPT ![1] = "created"]
     ELSE server' = "failed" /\ UNCHANGED <<worker, inst>>
  /\ UNCHANGED <<loopVars, next, nameFree, conn, pendingAccepts, client,
                 unread, writes, handle, reading, faults>>

\* uv_pipe_bind creates the first instance: from here on clients can connect.
WorkerBind ==
  /\ worker = "bind"
  /\ IF nameFree
     THEN /\ server' = "bound" /\ worker' = "listen"
          /\ inst' = [inst EXCEPT ![1] = "created"]
     ELSE /\ server' = "failed" /\ worker' = "return"
          /\ UNCHANGED inst
  /\ UNCHANGED <<loopVars, next, nameFree, conn, pendingAccepts, client,
                 unread, writes, handle, reading, faults>>

\* uv__pipe_listen makes the handle active before it arms the instances.
WorkerListen ==
  /\ worker = "listen"
  /\ server' = "listening" /\ worker' = "arm"
  /\ active' = active \cup {"server"}
  /\ UNCHANGED <<lpc, ring, batch, iocp, reqs, endgame, inserting, lost, next,
                 nameFree, inst, conn, pendingAccepts, client, unread, writes,
                 handle, reading, faults>>

\* pipe_alloc_accept for all instances but the first.
WorkerCreate ==
  /\ worker = "arm" /\ next \in 2..Instances /\ inst[next] = "none"
  /\ \/ /\ inst' = [inst EXCEPT ![next] = "created"]
        /\ UNCHANGED <<inserting, worker, faults>>
     \/ /\ Fail
        /\ InsertLook(AcceptReq(next))
        /\ inst' = [inst EXCEPT ![next] = "error"]
        /\ worker' = "link"
  /\ UNCHANGED <<lpc, ring, batch, iocp, active, reqs, endgame, lost, next,
                 server, nameFree, conn, pendingAccepts, client, unread,
                 writes, handle, reading>>

\* ConnectNamedPipe: the kernel waits for a client, or one is there already
\* (ERROR_PIPE_CONNECTED) and the request goes into the ring of the loop, from
\* this thread.
WorkerConnect ==
  /\ worker = "arm" /\ next \in Insts
  /\ \/ /\ inst[next] = "created"
        /\ inst' = [inst EXCEPT ![next] = "waiting"]
        /\ next' = next + 1
        /\ UNCHANGED <<inserting, worker>>
     \/ /\ inst[next] = "early" /\ client[conn[next]] = "in"
        /\ InsertLook(AcceptReq(next))
        /\ inst' = [inst EXCEPT ![next] = "connected"]
        /\ worker' = "link"
        /\ UNCHANGED next
  /\ UNCHANGED <<lpc, ring, batch, iocp, active, reqs, endgame, lost, server,
                 nameFree, conn, pendingAccepts, client, unread, writes,
                 handle, reading, faults>>

\* ConnectNamedPipe fails, with ERROR_NO_DATA if the client that opened the
\* instance left it already: the instance is closed, which drops that client, and
\* the request goes into the ring with the error.
WorkerConnectFails ==
  /\ worker = "arm" /\ next \in Insts /\ inst[next] \in {"created", "early"}
  /\ \/ Fail
     \/ inst[next] = "early" /\ client[conn[next]] = "gone" /\ UNCHANGED faults
  /\ inst' = [inst EXCEPT ![next] = "error"]
  /\ conn' = [conn EXCEPT ![next] = NoClient]
  /\ client' = [c \in Clients |-> IF c = conn[next] THEN "dropped" ELSE client[c]]
  /\ InsertLook(AcceptReq(next))
  /\ worker' = "link"
  /\ UNCHANGED <<lpc, ring, batch, iocp, active, reqs, endgame, lost, next,
                 server, nameFree, pendingAccepts, unread, writes, handle,
                 reading>>

WorkerLink ==
  /\ worker = "link"
  /\ InsertLink
  /\ worker' = "arm" /\ next' = next + 1
  /\ UNCHANGED <<batch, iocp, active, reqs, endgame, server, nameFree, inst,
                 conn, pendingAccepts, client, unread, writes, handle,
                 reading, faults>>

\* Seeded fault: the end of the work does not wake the loop.
WorkerReturnsSilently ==
  /\ worker = "return" \/ (worker = "arm" /\ next > Instances)
  /\ worker' = "done"
  /\ UNCHANGED <<loopVars, next, server, nameFree, inst, conn, pendingAccepts,
                 client, unread, writes, handle, reading, faults>>

\* worker_rpc returns, whatever initLocalServer returned; the pool reports it
\* with uv_async_send, which wakes the loop.
WorkerReturn ==
  /\ worker = "return" \/ (worker = "arm" /\ next > Instances)
  /\ worker' = "done"
  /\ Post(WorkReq)
  /\ UNCHANGED <<lpc, ring, batch, active, reqs, endgame, inserting, lost,
                 next, server, nameFree, inst, conn, pendingAccepts, client,
                 unread, writes, handle, reading, faults>>

-------------------------------------------------------------------------------
(* The callbacks, on the loop thread. *)

\* Seeded fault: the accepted pipe stays in the accept request.
RearmKeepsPipe(i, again) ==
  /\ again = <<>>
  /\ inst' = [inst EXCEPT ![i] = "waiting"]
  /\ UNCHANGED <<conn, client, faults>>

\* uv__pipe_queue_accept on the loop thread gives instance i to the next client;
\* again is what it inserts into the ring: nothing, or the request of i because
\* a client slipped in before ConnectNamedPipe (and may have left, which closes
\* the instance and drops that client) or a call failed.
Rearm(i, again) ==
  \/ /\ again = <<>>
     /\ inst' = [inst EXCEPT ![i] = "waiting"]
     /\ conn' = [conn EXCEPT ![i] = NoClient]
     /\ UNCHANGED <<client, faults>>
  \/ /\ again = <<AcceptReq(i)>>
     /\ inst' = [inst EXCEPT ![i] = "connected"]
     /\ \E c \in Clients :
          /\ client[c] = "out"
          /\ client' = [client EXCEPT ![c] = "in"]
          /\ conn' = [conn EXCEPT ![i] = c]
     /\ UNCHANGED faults
  \/ /\ again = <<AcceptReq(i)>>
     /\ inst' = [inst EXCEPT ![i] = "error"]
     /\ conn' = [conn EXCEPT ![i] = NoClient]
     /\ \/ Fail /\ UNCHANGED client
        \/ /\ \E c \in Clients :
                client[c] = "out" /\ client' = [client EXCEPT ![c] = "dropped"]
           /\ UNCHANGED faults

\* Seeded fault: a zero-read that fails at once is not made pending.
ReadFailureDropped(c, n) == <<>>

\* uv__pipe_queue_read: the zero-read of c completes through the port when n
\* messages are there, waits in the kernel while the client may still write,
\* and otherwise fails at once, which puts its request into the ring.
ReadWaits(c, n) == n = 0 /\ client[c] = "in"
ReadPosted(c, n) == IF n > 0 THEN <<ReadReq(c)>> ELSE <<>>
ReadFailed(c, n) == IF n = 0 /\ client[c] = "gone" THEN <<ReadReq(c)>> ELSE <<>>

\* onPipeConnection: the connected instance goes to the list of pending
\* accepts; uv_accept takes it from there, unless malloc fails before.
Accept(i) ==
  /\ Processing(AcceptReq(i)) /\ inst[i] = "connected"
  /\ LET c == conn[i] IN
     /\ handle' = [handle EXCEPT ![c] = "reading"]
     /\ active' = active \cup {c}
     /\ reading' = [reading EXCEPT ![c] = ReadWaits(c, unread[c])]
     /\ \E again \in {<<>>, <<AcceptReq(i)>>} :
          /\ Rearm(i, again)
          /\ ring' = ring \o again \o ReadFailed(c, unread[c])
     /\ iocp' = iocp \o ReadPosted(c, unread[c])
  /\ UNCHANGED <<lpc, reqs, endgame, inserting, lost, worker, next, server,
                 nameFree, pendingAccepts, unread, writes>>

AcceptNoMemory(i) ==
  /\ Processing(AcceptReq(i)) /\ inst[i] = "connected"
  /\ Fail
  /\ inst' = [inst EXCEPT ![i] = "pending"]
  /\ pendingAccepts' = <<i>> \o pendingAccepts
  /\ UNCHANGED <<lpc, ring, iocp, active, reqs, endgame, inserting, lost,
                 worker, next, server, nameFree, conn, client, unread, writes,
                 handle, reading>>

AcceptError(i) ==
  /\ Processing(AcceptReq(i)) /\ inst[i] = "error"
  /\ \E again \in {<<>>, <<AcceptReq(i)>>} :
       Rearm(i, again) /\ ring' = ring \o again
  /\ UNCHANGED <<lpc, iocp, active, reqs, endgame, inserting, lost, worker,
                 next, server, nameFree, pendingAccepts, unread, writes,
                 handle, reading>>

\* Data: one buffer takes all that is there, onPipeRead frees it, and the next
\* zero-read starts.
OnData(c) ==
  /\ Processing(ReadReq(c)) /\ unread[c] > 0
  /\ unread' = [unread EXCEPT ![c] = 0]
  /\ reading' = [reading EXCEPT ![c] = ReadWaits(c, 0)]
  /\ ring' = ring \o ReadFailed(c, 0)
  /\ UNCHANGED <<lpc, iocp, active, reqs, endgame, inserting, lost, worker,
                 next, server, nameFree, inst, conn, pendingAccepts, client,
                 writes, handle, faults>>

\* Seeded fault: the server handle is closed in place of the client's.
CloseServer(c) ==
  /\ handle' = [handle EXCEPT ![c] = "closing"]
  /\ endgame' = endgame \cup {"server"}

\* uv_close on the client's handle: no request of it is pending, so its
\* endgame comes at the end of this iteration.
Close(c) ==
  /\ handle' = [handle EXCEPT ![c] = "closing"]
  /\ endgame' = endgame \cup {c}

\* The data cannot be read: onPipeRead gets the error (together with the buffer
\* that was allocated for the data, which it does not free).
OnDataError(c) ==
  /\ Processing(ReadReq(c)) /\ unread[c] > 0
  /\ Fail
  /\ Close(c)
  /\ UNCHANGED <<lpc, ring, iocp, active, reqs, inserting, lost, worker, next,
                 server, nameFree, inst, conn, pendingAccepts, client, unread,
                 writes, reading>>

\* Seeded fault: a client that is gone is closed before its data is read.
OnEofEager(c) ==
  /\ Processing(ReadReq(c)) /\ (unread[c] = 0 \/ client[c] = "gone")
  /\ Close(c)
  /\ UNCHANGED <<lpc, ring, iocp, active, reqs, inserting, lost, worker, next,
                 server, nameFree, inst, conn, pendingAccepts, client, unread,
                 writes, reading, faults>>

\* Seeded fault: UV_EOF is not taken for an error.
OnEofIgnored(c) ==
  /\ Processing(ReadReq(c)) /\ unread[c] = 0
  /\ UNCHANGED <<lpc, ring, iocp, active, reqs, endgame, inserting, lost,
                 serverVars>>

\* The zero-read failed: the client is gone, nread is UV_EOF.
OnEof(c) ==
  /\ Processing(ReadReq(c)) /\ unread[c] = 0
  /\ Close(c)
  /\ UNCHANGED <<lpc, ring, iocp, active, reqs, inserting, lost, worker, next,
                 server, nameFree, inst, conn, pendingAccepts, client, unread,
                 writes, reading, faults>>

\* The after-work callback is empty; the request is no longer active.
WorkDone ==
  /\ Processing(WorkReq)
  /\ reqs' = reqs - 1
  /\ UNCHANGED <<lpc, ring, iocp, active, endgame, inserting, lost, serverVars>>

CloseHandles ==
  /\ Endgames
  /\ handle' = [c \in Clients |-> IF c \in endgame THEN "closed" ELSE handle[c]]
  /\ UNCHANGED <<worker, next, server, nameFree, inst, conn, pendingAccepts,
                 client, unread, writes, reading, faults>>

-------------------------------------------------------------------------------
(* The clients and other processes. *)

ClientConnect(c) ==
  /\ client[c] = "out"
  /\ client' = [client EXCEPT ![c] = "in"]
  /\ \E i \in Insts :
       /\ \/ inst[i] = "created" /\ inst' = [inst EXCEPT ![i] = "early"]
             /\ UNCHANGED iocp
          \/ inst[i] = "waiting" /\ inst' = [inst EXCEPT ![i] = "connected"]
             /\ Post(AcceptReq(i))
       /\ conn' = [conn EXCEPT ![i] = c]
  /\ UNCHANGED <<lpc, ring, batch, active, reqs, endgame, inserting, lost,
                 worker, next, server, nameFree, pendingAccepts, unread,
                 writes, handle, reading, faults>>

\* Whatever the client does ends a zero-read that waits in the kernel.
EndRead(c) ==
  /\ reading' = [reading EXCEPT ![c] = FALSE]
  /\ iocp' = IF reading[c] THEN Append(iocp, ReadReq(c)) ELSE iocp

ClientWrite(c) ==
  /\ client[c] = "in" /\ writes[c] < MaxMsgs
  /\ handle[c] \notin {"closing", "closed"}
  /\ writes' = [writes EXCEPT ![c] = @ + 1]
  /\ unread' = [unread EXCEPT ![c] = @ + 1]
  /\ EndRead(c)
  /\ UNCHANGED <<lpc, ring, batch, active, reqs, endgame, inserting, lost,
                 worker, next, server, nameFree, inst, conn, pendingAccepts,
                 client, handle, faults>>

ClientLeave(c) ==
  /\ client[c] = "in"
  /\ client' = [client EXCEPT ![c] = "gone"]
  /\ EndRead(c)
  /\ UNCHANGED <<lpc, ring, batch, active, reqs, endgame, inserting, lost,
                 worker, next, server, nameFree, inst, conn, pendingAccepts,
                 unread, writes, handle, faults>>

\* The process that owned the pipe name ends.
NameFreed ==
  /\ ~nameFree
  /\ nameFree' = TRUE
  /\ UNCHANGED <<loopVars, worker, next, server, inst, conn, pendingAccepts,
                 client, unread, writes, handle, reading, faults>>

-------------------------------------------------------------------------------
LoopThread ==
  \/ Run
  \/ LoopStep /\ UNCHANGED serverVars
  \/ \E i \in Insts : Accept(i) \/ AcceptNoMemory(i) \/ AcceptError(i)
  \/ \E c \in Clients : OnData(c) \/ OnDataError(c) \/ OnEof(c)
  \/ WorkDone \/ CloseHandles

WorkerThread ==
  \/ WorkerInit \/ WorkerBind \/ WorkerListen \/ WorkerCreate
  \/ WorkerConnect \/ WorkerConnectFails \/ WorkerLink \/ WorkerReturn

Environment ==
  \/ \E c \in Clients : ClientConnect(c) \/ ClientWrite(c) \/ ClientLeave(c)
  \/ NameFreed

Next == LoopThread \/ WorkerThread \/ Environment

\* The two threads of the daemon are scheduled; clients do what they like.
Fairness == WF_vars(LoopThread) /\ WF_vars(WorkerThread)

SafeSpec == Init /\ [][Next]_vars
Spec == SafeSpec /\ Fairness

-------------------------------------------------------------------------------
(* Properties. *)

Reqs == {WorkReq} \cup {AcceptReq(i) : i \in Insts}
                  \cup {ReadReq(c) : c \in Clients}

TypeOK ==
  /\ lpc \in {"before", "check", "take", "process", "sleep", "peek", "drain",
              "process_more", "left", "undefined"}
  /\ ring \in Seq(Reqs) /\ batch \in Seq(Reqs) /\ iocp \in Seq(Reqs)
  /\ active \subseteq {"server"} \cup Clients /\ reqs \in {0, 1}
  /\ endgame \subseteq Clients
  /\ inserting = Nobody \/ inserting \in [req : Reqs, seen : Seq(Reqs)]
  /\ lost \subseteq Reqs
  /\ worker \in {"idle", "queued", "bind", "listen", "arm", "link", "return",
                 "done"}
  /\ next \in 1..(Instances + 1)
  /\ server \in {"none", "open", "bound", "listening", "failed"}
  /\ nameFree \in BOOLEAN
  /\ inst \in [Insts -> {"none", "created", "early", "waiting", "connected",
                         "pending", "error"}]
  /\ conn \in [Insts -> Clients \cup {NoClient}]
  /\ pendingAccepts \in Seq(Insts)
  /\ client \in [Clients -> {"out", "in", "gone", "dropped"}]
  /\ unread \in [Clients -> 0..MaxMsgs] /\ writes \in [Clients -> 0..MaxMsgs]
  /\ handle \in [Clients -> {"none", "reading", "closing", "closed"}]
  /\ reading \in [Clients -> BOOLEAN]
  /\ faults \in 0..MaxFaults

\* Every completion gets to the loop exactly once: an instance with a client
\* (or an error) to report has its accept request on the way, an open handle
\* has either a read waiting in the kernel or its read request on the way,
\* and no request is on the way twice.
NothingForgotten ==
  lpc # "undefined" =>
    /\ \A i \in Insts :
         Copies(AcceptReq(i)) = IF inst[i] \in {"connected", "error"} THEN 1 ELSE 0
    /\ \A c \in Clients :
         Copies(ReadReq(c)) = IF handle[c] = "reading" /\ ~reading[c] THEN 1 ELSE 0

\* Every client that got in is in the hands of exactly one instance or handle;
\* one whose instance was closed under it, before it was accepted, is in nobody's.
OneOwner ==
  \A c \in Clients :
    Cardinality({i \in Insts : conn[i] = c})
      + (IF handle[c] = "none" THEN 0 ELSE 1)
      = IF client[c] \in {"out", "dropped"} THEN 0 ELSE 1

\* uv_run is not left while the daemon serves, although the handle that keeps
\* it going is made active by another thread while the loop runs.
ServingLoopRuns == server = "listening" => lpc # "left"

\* A client may write and leave at once: all it wrote is read before its
\* handle is closed, unless reading failed.
ReadBeforeClose ==
  \A c \in Clients :
    handle[c] \in {"closing", "closed"} /\ faults = 0 => unread[c] = 0

\* What the calls from the wrong thread and the failures may do to a client.
Excused == lost # {} \/ lpc = "undefined" \/ faults > 0

\* A client that connected is accepted, although the insertion of its request
\* by the worker does not wake the loop, unless it left before ConnectNamedPipe
\* was called for its instance, racing insertions lost its request or a call
\* failed.
ConnectedIsAccepted ==
  \A c \in Clients :
    client[c] = "in" ~> handle[c] # "none" \/ client[c] = "dropped" \/ Excused

\* The handle of a client that left is closed.
GoneIsClosed ==
  \A c \in Clients :
    handle[c] = "reading" /\ client[c] = "gone" ~>
      handle[c] = "closed" \/ lost # {} \/ lpc = "undefined"

\* A daemon that cannot bind its pipe falls out of uv_run: MyMain returns.
FailedBindEndsLoop == server = "failed" ~> lpc = "left"

\* stream.rst of libuv: "When a new incoming connection is received the
\* uv_connection_cb callback is called", which is what onPipeConnection counts
\* on.  A client that left before the daemon waited for it is not asked for.
EveryConnectionIsReported ==
  \A c \in Clients :
    client[c] = "in" ~>
      handle[c] # "none" \/ client[c] = "dropped" \/ lpc = "undefined"
===============================================================================
