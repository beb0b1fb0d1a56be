----------------------------- MODULE MCPipeClient -----------------------------
(* Module PipeClient with the attempt of run() and two more from the UI, and  *)
(* one message: enough for an attempt to clear the pipe of a pending one and  *)
(* for a write to race with the loop.                                         *)
EXTENDS PipeClient
===============================================================================
