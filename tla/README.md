# shimmer.win: a TLA+ model

shimmer.win is a Windows VPN client.  A service, the *daemon* (`src/deamon`),
runs in the background; a desktop program, the *client* (`src/shimmer`), talks
to it over a named pipe.  Both are single programs built around one libuv loop
(`src/depends/libuv`), and both call into that loop from threads that do not own
it.  Most of what can go wrong in them is a matter of which thread does what
first, and that is what is modelled here.

## 1. The system

| Part | Source | State it keeps | Operations | Hard about it |
|---|---|---|---|---|
| Service lifecycle | `deamon/winsvr.cpp` | `gSvcStatus`, the check point counter, `ghSvcStopEvent`, the worker thread | install, delete, main, SvcMain, SvcInit, SvcCtrlHandler, ReportSvcStatus | two threads fill and report one status block; process death; the SCM's view |
| libuv loop | `depends/libuv/src/win/core.c`, `req-inl.h`, `handle-inl.h`, `threadpool.c` | pending-request list, completion port, active counts, endgame list | uv_run, insertion and posting of requests | one insertion wakes the loop, the other does not; neither is thread-safe |
| Daemon pipe server | `deamon/machine.cpp`, `rpsmgr.cpp`, `libuv/src/win/pipe.c` | server handle, pipe instances, a handle per client | bind, listen, accept, read, close | set up on a pool thread of a running loop; clients come and go meanwhile |
| Client pipe manager | `shimmer/Machine.cpp`, `rpcmgr.cpp`, `pipe.c` | `rpcc`, `reqConnect`, one `uv_pipe_t` for all attempts | connect, on_connect, send_data, write callback | UI thread and loop thread share the loop and the handle |
| VPN child | `shimmer/VPNMgr.cpp`, `libuv/src/win/process.c` | `child_req`, `stdin_pipe` | connect, disconnect, on_exit | the pid is cleared before the handle is closed; unlimited wait |
| RPC data manager | `shimmer/DataMgr.h`, `depends/rpclib/lib/rpc/client.cc` | an rpclib client per call: connection state, promise, io thread | rpcjson_dispath | state read before the connect ends; wait without a limit |
| Main window | `shimmer/MainWinFrame.cpp`, `depends/DuiLib/Utils/Utils.cpp` | the list control | InitWindow, loadServerlist, AddPorxyItem | index arithmetic with skipped entries; nothing is shown before the call returns |
| Admin token | `deamon/appmgr.cpp` | handles, session records, impersonation | createAdminProcess, createAdminToken and its helpers | handles on every error path; the choice of a token; compiled, not called |
| Remote configuration | `deamon/firebase.cpp` | a map of settings | get_configure | not called |
| String encryption | `deamon/DataEncrypt.cpp`, `algorighm/base64.cpp` | none | EncryptA_ECB, DecryptA_ECB, SimpleEncode, SimpleDecode | boundaries of blocks, ambiguous padding |
| Ciphers, UI, asyncDispath, third-party code | | | | not modelled, see section 7 |

How they interact.  `SvcInit` starts a thread that runs `MyMain`, which runs
`CMachine::run` and its loop: the service's worker is the pipe server.  The
result of that thread goes nowhere, so the service's state and the server's are
independent.  The client's `rpcmgr` opens the pipe that `rpsmgr` serves and only
ever writes to it; the daemon only ever reads.  The client's whole user
interface is one piece of work of libuv's thread pool: as long as the window is
open, that request keeps `uv_run` going; buttons call into the loop from it.
Before the main window is shown, it asks a server on the same machine for the
list of VPN servers, through rpclib, which has a thread of its own.

## 2. Modules

    ServiceLifecycle        what the service promises (abstract)
      ^ implemented by
    Service  <- MCService   winsvr.cpp
      ^ ServiceProofs       theorems

    UvLoop                  the loop
      ^ UvLoopProofs        lemmas about its lists
      ^ extended by
      PipeServer <- MCPipeServer     machine.cpp, rpsmgr.cpp, pipe.c (server)
        ^ PipeServerProofs           theorems, with UvLoopProofs
      PipeClient <- MCPipeClient     Machine.cpp, rpcmgr.cpp, pipe.c (client)
        ^ PipeClientProofs           theorems, with UvLoopProofs
      VpnChild   <- MCVpnChild       VPNMgr.cpp, process.c
        ^ VpnChildProofs             theorems, with UvLoopProofs

    MessageStream           what the pipe promises (abstract)
      ^ implemented by
    Ipc  <- MCIpc           rpcmgr.cpp with rpsmgr.cpp and a daemon that restarts
      ^ IpcProofs           theorems

    RemoteCall              what a remote call promises (abstract)
      ^ implemented by
    RpcDispatch             DataMgr.h, client.cc
      ^ extended by
    ServerList <- MCServerList   MainWinFrame.cpp, Utils.cpp
      ^ ServerListProofs    theorems about both

    AdminToken  <- MCAdminToken    appmgr.cpp
    DataEncrypt <- MCDataEncrypt   DataEncrypt.cpp
      ^ SequentialProofs    theorems about both

Each module keeps next to an operator, under the comment "Seeded fault", a
changed form of it with a bug the code could plausibly have.  They are not part
of the specification; replacing the operator by one of them must make a named
property fail, which shows that the property looks at something.

### Service

`pc` gives the place of three threads: "main" (main and, inside
StartServiceCtrlDispatcher, the control handler), "svc" (SvcMain, SvcInit) and
"work" (MainThread).  `ReportSvcStatus` is three steps, WriteState (the first
three assignments), WriteRest (controls and check point) and SetStatus (the
call), so that the two reporting threads interleave inside it; `call` holds its
argument and return point.  `scm` is the status the SCM holds.  The SCM is
external: it refuses reports after STOPPED (`connected`), sends one control at
a time, refuses a STOP that is not accepted, and takes a process that died for
STOPPED.  Abstractions: exit code and wait hint, which are constants, are left
out; there is one process at a time (a start waits for the process of the start
before).

### UvLoop

`lpc` is the place of the loop thread in uv_run.  `ring` is
`loop->pending_reqs_tail`, `batch` the list that uv__process_reqs took from it
and walks through, `iocp` the completion port, `active` and `reqs` the two counts
that keep the loop alive, `endgame` the handles being closed.  `Post` wakes a
sleeping loop and may be used by any thread; `Insert` does not wake it and is
meant for the loop thread.  A second thread that inserts does so in two steps,
InsertLook and InsertLink.  When the loop thread changed the list in between, a
request is lost (`lost`), or, if the list that was read is being walked already,
the behaviour is undefined (`lpc = "undefined"`): the links of the circular list
are then those of two lists.  The walk after the poll is repeated up to eight
times in the code, and any number of times here, so a list may or may not be
empty when the loop goes round.  `Copies(r)` is how often a request is on its way,
in `iocp`, `ring` and `batch`, in the hands of an inserting thread, or in `lost`; most of the properties of the three programs
over the loop are about it.

### PipeServer

The loop thread runs Run, the loop's steps and one action per kind of request:
Accept (with AcceptError and AcceptNoMemory), OnData, OnDataError, OnEof,
WorkDone, CloseHandles.  The pool thread runs worker_rpc: WorkerInit, WorkerBind,
WorkerListen, and per instance WorkerCreate, WorkerConnect and WorkerLink.  An
instance goes "none", "created" (exists, a client may open it), "early" (opened
before ConnectNamedPipe), "waiting", "connected", and back to "waiting" when it
is given to the next client.  ConnectNamedPipe may fail (WorkerConnectFails, and
inside Rearm): always for a client that opened the instance and left already
(ERROR_NO_DATA), and as a fault otherwise.  Then the instance is closed and armed
again through the list.  A client is external; it is "out", "in", "gone" or
"dropped" by such a close, which OneOwner and ConnectedIsAccepted name; it
connects at most once, writes and leaves at any time.  `handle` is the daemon's
uv_pipe_t for it.  A read is libuv's zero-byte read: it waits in the kernel
(`reading`), or its completion is in `iocp`, `ring` or `batch`.  Data is a count of
messages: the daemon only counts and drops it.  `faults` counts failed calls and
allocations.  The static callbacks read `ts` behind the end of a plain uv_pipe_t
and hand it on as a `this` that nobody uses; that read has no effect in the
build and is not modelled.

### PipeClient

`pc` gives the place of the main thread in run() and of the UI thread in
send_data.  initPipeClient is the same four steps for either: ResetConnect,
WipePipe (memset and uv_pipe_init), PipeConnect, RegisterConnect.  Attempts are
numbered; `pipe` is the one uv_pipe_t they share, with its active count, the
attempt whose connection is open in it and the attempt that cleared it last; an
entry of `active` names the attempt whose clearing made the handle active, and a
later clearing leaves it there.  The loop thread's part of a connect is two
steps, ConnectTaken (UNREGISTER_HANDLE_REQ) and ConnectReported (set the handle,
call on_connect), so that the UI thread can come in between.  The counts are
those of a build without assertions, so `pipe.count` may be -1 between the
processing of a request and its late registration.  Whether the daemon answers,
refuses or has no free instance is the choice of PipeConnect, PipeConnectBusy
and BusyEnds.  A click before `rpcc` and `reqConnect` are set (ClickTooEarly), and
a collision on the loop's counters (CountersCollide), make the behaviour
undefined.  CountersCollide is possible whenever the UI thread is at a step that
changes the handle or the counts while the main thread is at one too: in its own
initPipeClient in run(), before the loop, or in a callback of the loop.  The
properties are about the other behaviours, and the exactness of the counts is
claimed for those only.  Abstractions: the VPN child on the same loop is in VpnChild, not here
(its process handle would keep the loop alive and its end would wake it); a write
that is refused changes nothing and is not an action.

### VpnChild

`pc` gives the place of the main thread, in run(), in on_exit and in the
destructor, and of the UI thread in connect().  `proc` is `child_req`, the one
uv_process_t of all spawns: its pid, the child whose handle is open in it, the
child that is waited for, and the flags that decide what closing does.  `read` is
the read request of `stdin_pipe`.  connect() is five steps or six: ClickConnect
(the test of the pid), InitHandles, CreateChild or CreateFails, RegisterWait,
StartHandle, and ReadStart or ReadStartFails with LinkRead.  The end of a child is
ChildExits, ExitSignal (a system thread), ExitReported (up to the clearing of the
pid), CloseProcess (uv_close) and CloseHandles (the endgame), so that a click can
come between any two.  connect() clears all flags of `stdin_pipe`, the one that
makes it count among them, so it is in no count.  `reused` records that something
was initialised while libuv still had it in use, `early` that a child was reported
before its handle was active: the two things the properties excuse.
Behaviour that depends on a list linked to itself, one request in two lists, a
counter written by both threads, or uv_fatal_error is "undefined".
Abstractions: the child writes nothing to the pipe; the message of disconnect() is
only accepted or not; libuv's list of all handles, which the second
initialisation of a handle corrupts, is read by nothing but uv_loop_close, whose
result run() drops.  The connection to the daemon on the same loop is left out.
LoopOutlivesChild also says of disconnect(), whose wait has no limit, that it is
never on the handle of a process.

### Ipc and MessageStream

Ipc puts client and daemon together, a level above PipeClient and PipeServer: an
attempt to connect is opened in one step and reported in one step, a connected
client is accepted in one step, and the loops do not end early (PipeClient and
PipeServer say when they do).  That a client is accepted and read is not taken for
granted: the daemon may lose a request of it (LoseRequest: the insertion of
PipeServer's pool thread, or no memory in onPipeConnection), after which that
connection is `unheard` for ever, and may close its end unread (CloseUnread:
ConnectNamedPipe or a read failed).  CarriedIsReceived excuses just the connections
to which one of these, or the death of the daemon, happened.  What stays apart is what the UI thread reads and
clears, `reqConnect` and `pipe`, while the loop thread sets it: initPipeClient is
the same three steps as in PipeClient, on either thread, and on_connect comes in
between.  `conn` is the connection of each attempt: "open", "left" by the client,
"closed" by the daemon or "broken" by its death; `buffer` the messages in it.  The
daemon dies at any time, with what is in its pipes, and is started again.
A message is its number.  ClickTooEarly of PipeClient, where behaviour is
undefined, is left out: Click waits until run() has reset `reqConnect`.
MessageStream says what the user of the option button may rely on: messages are
dropped only before the first that is carried and after the connection is cut, so
the daemon reads a run of them without a gap, once and in order; after a cut nothing is
ever carried again, because the code makes no further attempt then.

### RpcDispatch, RemoteCall and ServerList

RpcDispatch is one call of rpcjson_dispath.  `caller` is the calling thread,
through constructor, look at the state, async_call, wait and destructor; `io` is
the thread that runs the client's io_service, one action per handler
(OnConnected, OnConnectError, OnPosted, OnReply, OnReadError) and RunReturns for
run() out of work or stopped.  `link` is the connection: a server may refuse it,
and one that is open may end by eof, by a reset, or with any other error
("broken"), of which client.cc tells only the first two.  The request is packed and
written in OnPosted; a write ends by itself.  RemoteCall is the promise: asked at
most once; a result is the reply; "{}" only if the server was not asked.
ServerList extends RpcDispatch by InitWindow: Dispatched takes the result of the
call, SkipEntry, CreateFails and AddPorxyItem go through the entries, InsertItem
is DuiLib's array, which drops what is inserted beyond its end.  An answer is a
sequence of entries that are a server or are not, or a text without a list.

### AdminToken

One run of createAdminProcess, from AdjustProcessTokenPrivilege on.  When that
cannot open the process's token it goes on and closes an uninitialised handle
(AdjustGarbage), the one entry that HandlesAccounted allows in `stray`.  Two calls
whose result the code does not look at end in a NULL pointer, after which the
process is gone (`pc = "crashed"`): a failed WTSEnumerateSessions (CrashAtList), and
the statistics of the explorer's token, always if there is no such token
(CrashAtStatistics; ScanToken is a session that gets past it).  RevertToSelf is
taken to succeed.  `open` are the kernel handles that are open,
`stray` those closed while they were not, `records` the session records not given
back.  The locals that decide what is closed later are variables.  LookAtProcess
is one round of the search, which begins with closing what the round before
left; each kind of process names the call that fails for it.  Each kind of
session names what the scan finds out about it.  `exit` has the code's own numbers
of its early returns.

### DataEncrypt

A text is hidden and got back once.  Pad and Unpad are the padding as the code
adds and takes it off; Encode64 and Decode64 its base64; Interleave and
KeepSecond the noise.  The block cipher is any permutation of bytes.  The
properties say exactly which texts come back: DecryptionInverts states what
becomes of a text that ends like its own padding.

## 3. What is checked

| Run | Question | Result |
|---|---|---|
| service | Do a stop, a start and the end of the process work whatever the order of the two reporting threads? Is the SCM's view a behaviour of ServiceLifecycle? | holds |
| service_running | Is a service that displays RUNNING initialised? | no: RUNNING is reported when CreateThread failed |
| pipe_server | Is each completion on its way exactly once, each client in one hand, the loop alive while it serves, all data read before a close? Is a client that connected and stays accepted, one that was accepted and left closed, a failed bind the end of the loop? | holds, the first two liveness properties unless racing insertions lost a request, the first unless the instance was closed before it was accepted |
| pipe_server_reported | Is *every* connection reported? | no: two threads link into one list |
| pipe_client | Is each attempt on its way exactly once, are the counts exact, is the connection that is written to the one that was reported, does the loop stay while the window is idle? Is the attempt of run() reported, and does the program end with its window? | holds, unless two threads wrote the counts at once (then nothing is claimed), an attempt cleared a handle in use or another named race happened |
| pipe_client_callback | Is every attempt reported? | no: one made from the UI does not wake the loop |
| vpn_child | Is there one VPN process at a time, do pid and handle belong together, does the loop outlive the child, and is disconnect()'s wait harmless? Is the end of a child reported, and does the program end with its window when no child runs? | holds, pid and handle, the loop and the liveness unless a closing handle was used again or another named race happened |
| vpn_child_reuse | Is the handle that gets its endgame closing? | no: connect() may have initialised it again |
| ipc | Does the daemon read a run of the messages without a gap, once and in order, from one connection, and all that was carried? | holds, the last unless the daemon died, closed its end unread or lost a request of that client |
| server_list | Does the call ask once, return what was replied and give up only unasked? Can it hang while a reply could come? Does the window come up, and with the servers in order? | holds: it hangs only on a server that is silent or lost, and the list ends at the first entry without an item |
| admin_token | What does each return leave open, is the thread itself again, which token is used? | holds as stated, with what stays open, the uninitialised handle and the return 5 named |
| data_encrypt | Which texts come back? | all by the noise, all but ambiguous ones by the cipher |

Eight more facts met on the way are not runs of their own.  onPipeRead frees no
buffer that comes with an error.  An attempt that clears a connected handle leaves
its active count behind, which keeps uv_run after the window is closed
(ClosedWindowEndsLoop excuses it).  A write that completes before the UI thread
has registered it takes the window's count, and uv_run may be left while the
window is open; LoopOutlivesIdleWindow says that this happens only from inside a
write or a busy connect.  A child that ends inside uv_spawn leaves its handle
active (`early` in VpnChild).  createAdminToken's return 5 leaves the thread
impersonating.  AdjustProcessTokenPrivilege closes an uninitialised handle when
OpenProcessToken fails.  getTokenFromPid answers true without a token, and
createUserToken then reads through NULL.  And a pipe instance whose client met a
failed malloc stays behind later ones in the list of pending accepts and is not
armed again, so the server has one instance less.

The properties, with what they guard against, are stated in the modules next to
their definitions.  The negative results quote libuv's documents, or the comment
in the code, in PROJECT.json.

Bounds.  *Service*: MaxStarts = 2, so that a process meets what the one before
left at the SCM; nothing else is bounded, and check points are finite because a
process makes few START_PENDING and STOP_PENDING reports.  *PipeServer*: two
instances of the code's four, which is the least for which the loop accepts on
one while the worker arms the other; two clients, so that an instance is used
again and one client can slip in while the other is accepted; MaxMsgs = 1, as
one read takes all that is there; MaxFaults = 1 (the properties
name what a failure excuses).  *PipeClient*: three
attempts, two in the runs that look for one race: one pending and one that clears
its handle; one message, because the race of a write is between that write and
its own registration.  *VpnChild*: three spawns, one whose child
ends, one that finds its handle closing, and one after what that left; two, and
one, where the question needs no more.  *Ipc*: three attempts, the one of run()
and two of the UI thread, so that one clears the handle of another that is
connecting and of one that is connected; four messages, to drop one before, carry two
and lose one after a cut; two lives of the daemon.  *ServerList*: lists of up to
three entries, a gap at either end or in the middle and an entry after it; the
call itself has no bound.  *AdminToken*: two processes, for a round that closes
what the round before opened; three sessions, for a full token before, between and
after two of the default type.  *DataEncrypt*: the code's block of 16, texts of up
to 18 characters around the block's boundary whose last two are any of the
possible paddings or another character, one cipher and one noise (the theorems have
any length, cipher and noise).

Deadlock is not checked in the runs over UvLoop: a loop that waits for clients or
for the user, who need not come, may really stop.  Nor is it checked in ipc, where
the user and a daemon need not come, in server_list, where a call may hang, and in
admin_token and data_encrypt, which end.

## 4. Fairness

The threads of a program are scheduled: weak fairness of MainThreadStep and
SvcThreadStep (Service), LoopThread and WorkerThread (PipeServer), MainThread and
UiThread (PipeClient, VpnChild), CallerStep and IoStep (RpcDispatch), ListStep
(ServerList), Serve of each connection (Ipc), and the system's wait on an open
process handle (ExitSignal) and end of an attempt to connect (ConnectEnds).  Serve
says that the daemon's loop gets to each request it did not lose, which is what
ConnectedIsAccepted and GoneIsClosed show of PipeServer; lost requests and closed
instances are actions of Ipc that may happen to any connection at any time.  In Ipc no
attempt to connect is promised a report.  No strong fairness is used.  Nothing is
assumed of clients, of the rpc server, of the VPN child, of the user, of the administrator,
of the SCM's controls, of crashes or of a daemon's restart;
nor of the worker thread "work" of Service, whose MyMain may run for ever, nor of
the system thread that waits for a busy pipe, because others may take every free
instance first.

## 5. What is proved

ServiceProofs, for any number of starts (MaxStarts \in Nat):

* TypeCorrect: SafeSpec => []TypeOK.
* PhasesInvariant: SafeSpec => []Phases.
* StopIsHeardAlways, PendingIsBackedAlways, StopIsFinalAlways.
* ServiceImplementsLifecycle: SafeSpec implements the safety part of
  ServiceLifecycle.

The argument.  None of the safety properties is inductive: that STOPPED is final,
for instance, depends on what the other thread will still write into the shared
block and report.  `Phases` is: it says that threads, event, status block and
SCM are together in one of seven phases (NoProcess, Console, Entered, Starting,
StartFailed, Running, Stopping), and in each what either thread has left to do.
The important conjuncts are those of Stopping: both threads may be inside
ReportSvcStatus at once, and then whatever they leave in `gSvcStatus.state` is
STOP_PENDING or STOPPED.  PhasesInit and PhasesStep show Phases inductive
together with TypeOK, one step per action; the three safety properties follow
from it state by state; the refinement follows by mapping SetStatus to Started,
Stop, Stopped, Die or a stutter (ReportRefines) and every other action to a
stutter, a Start or a Die (StepRefines).

UvLoopProofs has the lemmas about the loop that the next three modules rest on.
Count of a list is 0 or more, and adds up over concatenation, Append and Tail
(CountConcat, CountAppend, CountTail).  From that each operation of the loop is
shown to keep or change the number of copies of every request by exactly what it
should: Post and Insert add one (CopiesPost, CopiesInsert), a processed request loses one
(CopiesProcessed), a poll, the taking of the ring and the endgames keep all
(CopiesLoopStep, CopiesEndgames), and an insertion by another thread adds one when it looks (CopiesLook)
and none when it links: unless the behaviour is then undefined, what the ring drops is in
`lost` (CopiesLink).  WalkInv, which says where a batch may be under way, is the part of each
inductive invariant that these lemmas need.

PipeServerProofs, for any number of clients, instances, messages and failures:
PipeServerTypeCorrect, CompletionsNotForgotten, ClientHasOneOwner,
LoopRunsWhileServing, AllReadBeforeClose.  ClientHasOneOwner says of a client that
ConnectNamedPipe dropped that it is in no hand.  NothingForgotten equates, for each
instance and each client, the copies of its request with what the instance or the handle says
of it; a callback may therefore be assumed to be the only copy of its request.
What it lacks to be inductive is in InstInv and OwnerInv (which client an instance
holds, and that a client which is in, or was and left, is at exactly one instance or has a handle),
HandleInv (who reads, who waits for an endgame), LinkInv (how far the pool thread
is) and WorkInv with ServeInv: `reqs` counts the work until its callback has run,
and when it no longer does the server's handle is active.

VpnChildProofs, for any number of spawns: VpnTypeCorrect, NeverTwoChildren,
PidHasHandleAlways, LoopOutlivesChildAlways.  The exit request is the one
that uv_process_t embeds, so two ends of children would share it; ExitInv says that it is
on its way once for an end not yet reported, and once more while on_exit runs.  PidInv ties
`child_req.pid` to the last spawn and to what is waited for, HandleInv says which
handles count, and LeftInv what uv_run can have left behind.  Only `reused` excuses
anything here; `early` is an excuse of the liveness properties.

PipeClientProofs, for any number of attempts and messages: ClientTypeCorrect,
AttemptsOnTheWayAlways, RequestsCountedAlways, UsableConnectionAlways,
LoopOutlivesIdleWindowAlways.  The counts are exact in every state that is not "undefined", that is, when no two
threads wrote them at once.  They are the hard part: a request may complete and
be processed before the thread that made it has counted it.  Balance is the number of
requests that are owed a callback less the number of threads that have yet to
register one; CountInv and HandleInv say that the loop's count and the handle's
are Balance at all times, and BalanceBounds that Balance is never below 0, except
for -1 while the UI thread is between a call and its registration.  As the open window is one more request in
the loop's count, that count is 0 too early only there, which is what
LoopOutlivesIdleWindow says.  StatusInv (what a thread inside initPipeClient knows of
its attempt), WritesInv (each message is on its way at most once), PlaceInv and
WipedInv complete it.

ServerListProofs is about RpcDispatch and ServerList.  For any set of texts a server may
reply: DispatchTypeCorrect, NobodyToAnswerAlways and DispatchImplementsRemoteCall
(Spec of RemoteCall under the mapping outcome <- result).  The inductive invariant is
DispatchInv: what the caller's place says about the call, the request and the result
(Answered), what the state says about the connection (StateTold), and when the io
thread may be gone (ThreadEnds).  The refinement needs it for the fallback: a caller
that goes there has posted nothing, so no server was asked.  For answers of any
length (MaxEntries \in Nat): ShownUpToFirstGapAlways and ListTypeCorrect.
ShownUpToFirstGap is inductive with the fact that the answer is final once the list
is made from it (ResultFinal); the step is InsertAtEnd, as an item is inserted at the
end of the list or dropped.  The types of the call come from DispatchTypeCorrect,
since no step of the list is one of the call (ListCalls).

IpcProofs, for any number of messages, attempts and lives of the daemon:
IpcTypeCorrect, OneConnectionAlways and IpcImplementsStream.  OneConnection is
inductive with what the places of the threads say of `reqConnect` and `pipe` (ClientInv):
after the attempt of run() only the sender clears them, and not while it has a
connection.  The refinement needs
besides that the received messages and the buffer of the one connection together are
the carried ones.

SequentialProofs is about AdminToken and DataEncrypt.  For any number of processes
and sessions: HandlesAccountedAlways, ImpersonationEndsAlways, FullTokenChosenAlways.
What is closed without being open is at most the uninitialised handle.  The
invariant gives for each place of the code the set of handles that are open in terms of
the locals, and what the sessions scanned so far have left in hToken and
hTokenBack.  For texts of any length, any noise, any permutation of bytes as the cipher
and any block of up to 255 bytes: DecodingInvertsAlways, by the lemma that KeepSecond
inverts Interleave, index by index; and DecryptionInvertsAlways.  The latter needs
that four digits give back three bytes (DigitsInvert, by arithmetic on bytes), that
only the last group is filled up, so that the count of '=' tells the length
(EncodedShape, Base64Inverts), that a padded text is whole blocks (PaddedBlocks),
and, case by case, where the last character other than the last is found in a padded text
(LastOtherUnique, UnpadPadded).

The assumptions are the named ones on the constants and nothing else: every type
invariant, safety invariant and action property of a passing run is proved, and the safety part of
each refinement.  Liveness (the leads-to properties and the fairness part of
the refinements) is model-checked only, as the prover handles neither ENABLED nor
fairness.

## 6. Plan

Done: Service, PipeServer, PipeClient, VpnChild, the composition of client and
daemon (Ipc), RpcDispatch with ServerList, AdminToken, DataEncrypt, and the proofs
of section 5.  Left are the safety facts behind the liveness properties, which
could be stated and proved as invariants: that the loop thread sleeps with a
request in the ring only if another thread inserted it (PipeServer, PipeClient,
VpnChild), and that a closed window or a failed bind leaves nothing counted
that no request is on its way for.

What recursive definitions compute for every input would stay with TLC; no module
here declares a RECURSIVE operator.

## 7. Not modelled

* Ciphers and digests (`algorighm/`): published arithmetic on words, no protocol.
* Windows, layout and painting; asyncDispath.cpp, which no project file compiles;
  vendored code beyond the parts of libuv named above.
* The client's connection and its VPN child on one loop: they share only the
  counts that keep it alive, which are checked in PipeClient and in VpnChild.
* The service with the pipe server as its worker: the worker's result goes
  nowhere, so neither reads the other's state.
* firebase.cpp: one HTTP request whose only call is commented out.
* In appmgr.cpp: the contents of the tokens that createUserToken builds, the
  memory of the questions about them, and LaunchAppIntoDifferentSession; nothing
  calls any of it.
* In DataEncrypt.cpp: the master-key functions, whose base64 step is commented
  out, and the P_ copies of the N_ functions.
* In client.cc: timeouts, notifications and several calls at once.
* In winsvr.cpp: the event log, `g_bRun`, which nothing reads, and ShowMenu,
  which nothing calls.
* In rpsmgr.cpp: remove_sock, which ends the process on SIGINT.
* In libuv's pipe.c: shutdown, handle passing, non-overlapped and emulated pipes,
  which neither program uses.
