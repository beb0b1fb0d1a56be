--------------------------------- MODULE MCIpc --------------------------------
(* Module Ipc with the attempt of run() and two more, four messages and two   *)
(* lives of the daemon: enough for an attempt to clear the handle of another  *)
(* one, and for messages before, on and after a connection that breaks.       *)
EXTENDS Ipc
===============================================================================
