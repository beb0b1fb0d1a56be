----------------------------- MODULE MessageStream ----------------------------
(***************************************************************************)
(* What the pipe between the client and the daemon promises to whoever     *)
(* clicks the option button (src/shimmer/rpcmgr.cpp,                       *)
(* src/deamon/rpsmgr.cpp): what is dropped is dropped before the first     *)
(* message that is carried or after the connection is cut, so that the     *)
(* daemon receives, once and in order, a run of messages without a gap;    *)
(* and a cut connection is never replaced.                                 *)
(***************************************************************************)
EXTENDS Naturals, Sequences

VARIABLES
  offered,  \* how many messages there were; they are numbered from 1
  carried,  \* those that went into the pipe
  received, \* those that the daemon read
  cut       \* the connection that carried them is gone

vars == <<offered, carried, received, cut>>

Init == offered = 0 /\ carried = <<>> /\ received = <<>> /\ cut = FALSE

Drop ==
  /\ carried = <<>> \/ cut
  /\ offered' = offered + 1
  /\ UNCHANGED <<carried, received, cut>>

Carry ==
  /\ ~cut
  /\ offered' = offered + 1
  /\ carried' = Append(carried, offered')
  /\ UNCHANGED <<received, cut>>

Receive ==
  /\ ~cut
  /\ \E k \in (Len(received) + 1)..Len(carried) :
       received' = SubSeq(carried, 1, k)
  /\ UNCHANGED <<offered, carried, cut>>

Cut ==
  /\ ~cut /\ cut' = TRUE
  /\ UNCHANGED <<offered, carried, received>>

Next == Drop \/ Carry \/ Receive \/ Cut

Spec == Init /\ [][Next]_vars
===============================================================================
