------------------------------ MODULE MCPQueue ------------------------------
(* TLC instance of PQueue: see PQueue.cfg for the constants. *)
EXTENDS PQueue
=============================================================================
