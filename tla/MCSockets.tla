------------------------------ MODULE MCSockets ------------------------------
(* Values of the constants of Sockets for TLC. *)
EXTENDS Sockets
=============================================================================
