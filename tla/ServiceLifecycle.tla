--------------------------- MODULE ServiceLifecycle ---------------------------
(***************************************************************************)
(* What the Windows service "shimmer" promises to whoever manages it: the  *)
(* state that the service control manager (SCM) displays moves along       *)
(*                                                                         *)
(*     STOPPED -> START_PENDING -> RUNNING -> STOP_PENDING -> STOPPED      *)
(*                                                                         *)
(* and nowhere else, except that a service process that dies, or a start   *)
(* that fails, takes it back to STOPPED from any state.  A stop that was   *)
(* asked for is completed.  Module Service, the model of winsvr.cpp,       *)
(* implements this specification with state <- scm.state.                  *)
(***************************************************************************)

VARIABLE state

States == {"STOPPED", "START_PENDING", "RUNNING", "STOP_PENDING"}

Init == state = "STOPPED"

Start   == state = "STOPPED"       /\ state' = "START_PENDING"
Started == state = "START_PENDING" /\ state' = "RUNNING"
Stop    == state = "RUNNING"       /\ state' = "STOP_PENDING"
Stopped == state = "STOP_PENDING"  /\ state' = "STOPPED"
Die     == state # "STOPPED"       /\ state' = "STOPPED"

Next == Start \/ Started \/ Stop \/ Stopped \/ Die

Safe == Init /\ [][Next]_state
Spec == Safe /\ WF_state(Stopped)
===============================================================================
