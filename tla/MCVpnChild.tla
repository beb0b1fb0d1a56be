------------------------------ MODULE MCVpnChild ------------------------------
(* Module VpnChild with three clicks that reach uv_spawn: one that fails or   *)
(* whose child ends, one that finds its handle closing, and one after it.     *)
EXTENDS VpnChild
===============================================================================
