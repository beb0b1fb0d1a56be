--------------------------------- MODULE UvLoop -------------------------------
(***************************************************************************)
(* One libuv event loop on Windows as the daemon and the client run it     *)
(* (src/depends/libuv/src/win): uv_run on its own thread, and one other    *)
(* thread that calls into the same loop although libuv allows that for     *)
(* uv_async_send only.                                                     *)
(*                                                                         *)
(* A request that has completed gets to its callback in one of two ways.   *)
(* The kernel posts it to the completion port "iocp", which wakes a        *)
(* sleeping loop; or code puts it directly into "ring", the loop's list of *)
(* pending requests, which wakes nobody.  The modules that extend this one *)
(* own the requests: they take Head(batch) and run its callback.           *)
(***************************************************************************)
EXTENDS Naturals, Sequences, Functions, FiniteSets

VARIABLES
  lpc,      \* where the loop thread is in uv_run
  ring,     \* loop->pending_reqs_tail: requests waiting for their callback
  batch,    \* the list that uv__process_reqs took and is walking through
  iocp,     \* completions posted to the loop's completion port
  active,   \* the active handles, which keep uv_run going
  reqs,     \* loop->active_reqs.count: so do the active requests
  endgame,  \* loop->endgame_handles: handles to be closed this iteration
  inserting,\* the other thread inside uv__insert_pending_req, or Nobody
  lost      \* requests that a racing insertion dropped from the ring

loopVars == <<lpc, ring, batch, iocp, active, reqs, endgame, inserting, lost>>

Nobody == [req |-> <<>>, seen |-> <<>>]

LoopInit ==
  /\ lpc = "before"
  /\ ring = <<>> /\ batch = <<>> /\ iocp = <<>>
  /\ active = {} /\ reqs = 0 /\ endgame = {}
  /\ inserting = Nobody /\ lost = {}

HasActive == active # {} \/ reqs > 0
Alive == HasActive \/ ring # <<>> \/ endgame # {}

-------------------------------------------------------------------------------
(* uv_run(UV_RUN_DEFAULT), on the loop thread. *)

\* The loop condition: uv_run is left when nothing is alive.
LoopCheck ==
  /\ lpc = "check"
  /\ lpc' = IF Alive THEN "take" ELSE "left"
  /\ UNCHANGED <<ring, batch, iocp, active, reqs, endgame, inserting, lost>>

\* uv__process_reqs empties the ring and walks what was in it, once before
\* the poll and up to eight times after it.
TakeRing ==
  /\ \/ lpc = "take" /\ lpc' = "process"
     \/ lpc = "drain" /\ ring # <<>> /\ lpc' = "process_more"
  /\ batch' = ring
  /\ ring' = <<>>
  /\ UNCHANGED <<iocp, active, reqs, endgame, inserting, lost>>

\* The step of the loop thread that runs the callback of request r.
Processing(r) ==
  /\ lpc \in {"process", "process_more"}
  /\ batch # <<>> /\ r = Head(batch)
  /\ batch' = Tail(batch)

\* The first walk is over: uv_backend_timeout decides how long to poll.
BackendTimeout ==
  /\ lpc = "process" /\ batch = <<>>
  /\ lpc' = IF HasActive /\ ring = <<>> /\ endgame = {}
            THEN "sleep" ELSE "peek"
  /\ UNCHANGED <<ring, batch, iocp, active, reqs, endgame, inserting, lost>>

\* GetQueuedCompletionStatusEx: without a timeout only a completion ends it.
Poll ==
  /\ lpc = "peek" \/ (lpc = "sleep" /\ iocp # <<>>)
  /\ lpc' = "drain"
  /\ ring' = ring \o iocp
  /\ iocp' = <<>>
  /\ UNCHANGED <<batch, active, reqs, endgame, inserting, lost>>

MoreDone ==
  /\ lpc = "process_more" /\ batch = <<>>
  /\ lpc' = "drain"
  /\ UNCHANGED <<ring, batch, iocp, active, reqs, endgame, inserting, lost>>

\* The ring is empty, or it was walked eight times: the handles that were
\* closed get their endgame, and the loop goes round.
Endgames ==
  /\ lpc = "drain"
  /\ lpc' = "check"
  /\ endgame' = {}
  /\ active' = active \ endgame
  /\ UNCHANGED <<ring, batch, iocp, reqs, inserting, lost>>

LoopStep == \/ LoopCheck \/ TakeRing \/ BackendTimeout \/ Poll \/ MoreDone

-------------------------------------------------------------------------------
(* Requests that complete. *)

\* Through the port, from the kernel or from uv_async_send.
Post(r) == iocp' = Append(iocp, r)

\* Seeded fault: an empty ring stays empty.
InsertBehindOnly(r) == ring' = IF ring = <<>> THEN <<>> ELSE Append(ring, r)

\* uv__insert_pending_req on the loop thread.
Insert(r) == ring' = Append(ring, r)

\* The same function on another thread: it looks at the ring ...
InsertLook(r) ==
  /\ inserting = Nobody
  /\ inserting' = [req |-> r, seen |-> ring]

\* ... and links the request to what it saw.  When the loop thread changed an
\* empty ring in between, the two writes to the tail pointer collide, and what
\* is reachable only from the overwritten one is lost.  When it changed a ring
\* that was not empty, the request is linked into a list that is being walked
\* or was walked already: the loop's behaviour is undefined from then on.
InsertLink ==
  /\ inserting # Nobody
  /\ inserting' = Nobody
  /\ \/ /\ ring' = Append(ring, inserting.req)
        /\ UNCHANGED <<lpc, lost>>
     \/ /\ ring # inserting.seen /\ inserting.seen = <<>>
        /\ \/ ring' = <<inserting.req>> /\ lost' = lost \cup Range(ring)
           \/ ring' = ring /\ lost' = lost \cup {inserting.req}
        /\ UNCHANGED lpc
     \/ /\ ring # inserting.seen /\ inserting.seen # <<>>
        /\ lpc' = "undefined"
        /\ UNCHANGED <<ring, lost>>

-------------------------------------------------------------------------------
(* Where a request is, for the properties of the modules that own it. *)

Count(s, r) == Cardinality({k \in DOMAIN s : s[k] = r})
Is(e, r) == IF e = r THEN 1 ELSE 0
Has(s, r) == IF r \in s THEN 1 ELSE 0

\* How often request r is on its way to its callback, or was lost there.
Copies(r) ==
  Count(ring, r) + Count(batch, r) + Count(iocp, r)
    + Is(inserting.req, r) + Has(lost, r)
===============================================================================
