------------------------------- MODULE Config -------------------------------
(***************************************************************************)
(* What curf.yml means (config.rs): the values of omitted fields.  A       *)
(* section of the file is a function on the fields it gives, or Absent;    *)
(* serde fills a section that is written field by field, and takes Default *)
(* for one that is not.                                                    *)
(***************************************************************************)
EXTENDS Integers, Sequences

CONSTANT Absent  \* a section, or a value, that is not given

Filled(section, defaults) ==
  [f \in DOMAIN defaults |->
     IF f \in DOMAIN section THEN section[f] ELSE defaults[f]]

-----------------------------------------------------------------------------
\* #[serde(default = ...)] of the fields of SecurityFlags, and its Default.
FlagDefaults ==
  [waf_sqli |-> TRUE, waf_xss |-> TRUE, waf_path_traversal |-> TRUE,
   block_tls_abusers |-> TRUE, max_tls_failures |-> 10,
   block_empty_user_agent |-> FALSE]

DefaultFlags ==
  [waf_sqli |-> TRUE, waf_xss |-> TRUE, waf_path_traversal |-> TRUE,
   block_tls_abusers |-> TRUE, max_tls_failures |-> 10,
   block_empty_user_agent |-> FALSE]

\* The same for ServerConfig, whose Default calls the functions of its fields.
ServerDefaults ==
  [http_port |-> 80, https_port |-> 443, timeout_secs |-> 30,
   max_connections |-> 10000, max_connections_per_ip |-> 100,
   rate_limit_rps |-> 100, rate_limit_burst |-> 200, security |-> DefaultFlags]

\* A file gives its section security inside of server.
ServerSettings(server) ==
  IF server = Absent THEN ServerDefaults
  ELSE LET section == Filled(server, ServerDefaults)
       IN  IF "security" \in DOMAIN server
           THEN [section EXCEPT !.security = Filled(@, FlagDefaults)]
           ELSE section

\* HealthCheckConfig: the defaults of its fields, and its Default, which writes
\* the same values once more.
CheckDefaults ==
  [enabled |-> TRUE, interval_secs |-> 15, timeout_secs |-> 5, path |-> "/"]

DefaultCheck ==
  [enabled |-> TRUE, interval_secs |-> 15, timeout_secs |-> 5, path |-> "/"]

StaticDefaults == [index |-> <<"index.html">>, autoindex |-> FALSE]

\* DomainConfig: only the names of domains are mandatory.
DomainDefaults ==
  [backends |-> <<>>, load_balance |-> "round_robin", tls |-> Absent,
   static_files |-> Absent, redirect_to_https |-> FALSE,
   health_check |-> DefaultCheck, headers |-> <<>>]

DomainSettings(domain) ==
  LET section == Filled(domain, DomainDefaults)
      checked == IF "health_check" \in DOMAIN domain
                 THEN [section EXCEPT !.health_check = Filled(@, CheckDefaults)]
                 ELSE section
  IN  IF "static_files" \in DOMAIN domain
      THEN [checked EXCEPT !.static_files = Filled(@, StaticDefaults)]
      ELSE checked
=============================================================================
