--------------------------- MODULE MCConnections ----------------------------
(* Four connections of one address, at most three at a time, and two       *)
(* permits to a listener: enough for the address to meet its cap and each  *)
(* listener its own, and for both loops to be between the block list and   *)
(* the count while two other tasks fail the handshakes that block it.      *)
(* Addresses only meet in the permits.                                     *)
EXTENDS Connections
=============================================================================
