------------------------------ MODULE MCStartup -----------------------------
(* Two domains out of a handful of sections, ports that coincide by default *)
(* or by the command line, and other programs on 80, 443, both or none.     *)
EXTENDS Startup

Good == [certs |-> "chain", keys |-> {"rsa", "ec"}, supported |-> {"rsa"},
         named |-> TRUE]
Sections == {
  <<>>,
  [backends |-> <<"b1">>, tls |-> Good, health_check |-> <<>>],
  [backends |-> <<"b1", "b2">>, health_check |-> [interval_secs |-> 0]],
  [backends |-> <<"b1">>, tls |-> [Good EXCEPT !.keys = {"ec", "pkcs8"}]],
  [tls |-> [Good EXCEPT !.certs = "empty"], static_files |-> <<>>],
  [tls |-> [Good EXCEPT !.keys = {}]],
  [backends |-> <<"b1">>, tls |-> [Good EXCEPT !.named = FALSE],
   health_check |-> [enabled |-> FALSE], static_files |-> [autoindex |-> TRUE]]}
Servers == {
  Absent,
  <<>>,
  [http_port |-> 443, security |-> <<>>],
  [timeout_secs |-> 1, security |-> [waf_sqli |-> FALSE]]}
MCFiles ==
  {Absent} \cup [server: Servers, domains: [Domains -> Sections]]
MCOverrides ==
  {[http_port |-> Absent, https_port |-> Absent],
   [http_port |-> 80, https_port |-> 80]}
=============================================================================
