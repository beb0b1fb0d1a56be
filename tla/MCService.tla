------------------------------- MODULE MCService ------------------------------
(* Module Service with two processes, one after the other: the second start *)
(* finds whatever the first one left behind.                                *)
EXTENDS Service
===============================================================================
