------------------------------ MODULE MCProxy -------------------------------
(* Two requests, one after the other on HTTP/1 and at once on HTTP/2.  The *)
(* connection's 60 seconds are 3 ticks: enough for both timers of 1 tick   *)
(* with a tick to spare or none, too little for two timers of 2 ticks.     *)
EXTENDS Proxy
=============================================================================
