----------------------------- MODULE Admission ------------------------------
(***************************************************************************)
(* What the accept loops and the SecurityChecker keep together, without    *)
(* semaphores, counts, locks or a window between one check and the next:   *)
(* connections are let in one at a time, each within the limit of its      *)
(* listener and of its address, and a banned address is let in once more   *)
(* by each listener at the most.  There is no limit across the listeners:  *)
(* the documented one is not kept (GlobalCap of Connections).              *)
(***************************************************************************)
EXTENDS Integers, FiniteSets

CONSTANTS
  Conns,          \* connections that may exist at a time
  IPs,            \* peer addresses
  ListenerLimit,  \* connections that one listener lets in at a time
  MaxPerIp        \* connections of an address, on both

VARIABLES
  open,   \* open[l][a]: the connections of address a that listener l let in
  banned, \* addresses that failed too many handshakes
  late    \* late[l]: banned addresses that l has let in all the same

vars == <<open, banned, late>>

Listeners == {"http", "https"}

OpenAt(l) == UNION {open[l][a] : a \in IPs}
OpenFrom(a) == UNION {open[l][a] : l \in Listeners}

Admit(c, l, a) ==
  /\ \A k \in Listeners : c \notin OpenAt(k)
  /\ Cardinality(OpenAt(l)) < ListenerLimit
  /\ Cardinality(OpenFrom(a)) < MaxPerIp
  /\ open' = [open EXCEPT ![l][a] = @ \cup {c}]
  /\ IF a \in banned
     THEN a \notin late[l] /\ late' = [late EXCEPT ![l] = @ \cup {a}]
     ELSE UNCHANGED late
  /\ UNCHANGED banned

\* Only who has come in through the TLS listener can have failed a handshake.
Ban(a) ==
  /\ open["https"][a] # {}
  /\ banned' = banned \cup {a}
  /\ UNCHANGED <<open, late>>

Leave(c, l, a) ==
  /\ c \in open[l][a]
  /\ open' = [open EXCEPT ![l][a] = @ \ {c}]
  /\ UNCHANGED <<banned, late>>

Init ==
  /\ open = [l \in Listeners |-> [a \in IPs |-> {}]]
  /\ banned = {}
  /\ late = [l \in Listeners |-> {}]

Next ==
  \E a \in IPs :
    \/ Ban(a)
    \/ \E c \in Conns, l \in Listeners : Admit(c, l, a) \/ Leave(c, l, a)

Spec == Init /\ [][Next]_vars
=============================================================================
