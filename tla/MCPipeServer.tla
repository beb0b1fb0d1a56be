----------------------------- MODULE MCPipeServer -----------------------------
(* Module PipeServer with two pipe instances and two clients: the worker can *)
(* be arming the second instance while the loop accepts on the first.        *)
EXTENDS PipeServer

CONSTANTS c1, c2
===============================================================================
