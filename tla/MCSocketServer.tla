--------------------------- MODULE MCSocketServer ---------------------------
(* An instance of SocketServer for TLC: the connections. *)
EXTENDS SocketServer

CONSTANTS c1, c2
=============================================================================
