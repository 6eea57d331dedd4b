-------------------------- MODULE MCHealthChecker ---------------------------
(* Two backends.  The settings: a round shorter than the interval, as long *)
(* as it, and longer; a gap between reports short enough for the reset     *)
(* time, by one second, and too long.                                      *)
EXTENDS HealthChecker

SettingsValue ==
  {[interval |-> 2, timeout |-> 1], [interval |-> 1, timeout |-> 1],
   [interval |-> 3, timeout |-> 1], [interval |-> 1, timeout |-> 2]}
=============================================================================
