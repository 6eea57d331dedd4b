---------------------------- MODULE RequestPaths ----------------------------
(***************************************************************************)
(* What a request's path goes through in ProxyHandler::handle before a     *)
(* file is touched: the patterns of the WAF (security.rs, check_request),  *)
(* which sees the path as it was sent, then safe_path, which decodes it.   *)
(* Neither keeps any state.                                                *)
(***************************************************************************)
EXTENDS SafePath, FiniteSets

CONSTANT Segments, MaxSegments  \* bound: the paths that are asked for

ASSUME PathsAssumption ==
  Segments \cup {Up, "a", "b"} \subseteq STRING /\ MaxSegments \in Nat

Paths == BoundedSeq(Segments, MaxSegments)

-----------------------------------------------------------------------------
(* The WAF                                                                 *)

\* SecurityFlags that check_request looks at.
Flags == [block_empty_user_agent: BOOLEAN, waf_path_traversal: BOOLEAN,
          waf_sqli: BOOLEAN, waf_xss: BOOLEAN]

\* Segments that end in two dots as they were sent: a parent, and names.
DotsAtEnd == {Up, "..%2f..", "x.."}

\* A name with two dots and a backslash in it, which separates nothing here.
Backslashed == "..\\x"

\* Mutant: only a path that begins with it is found.
BeginsWithTraversal(path) ==
  path # <<>> /\ \/ path[1] = Backslashed
                 \/ path[1] \in DotsAtEnd /\ Len(path) > 1

\* "../" or "..\" in the path as it was sent.
HasTraversal(path) ==
  \E i \in DOMAIN path : \/ path[i] = Backslashed
                         \/ path[i] \in DotsAtEnd /\ i < Len(path)

\* check_request: the reason of the refusal, or "ok".  agent is "" for a
\* missing or blank User-Agent; marks are the kinds of patterns found in the
\* query, and of those of SQL and XSS in the path.
CheckRequest(on, path, agent, marks) ==
  IF on.block_empty_user_agent /\ agent = "" THEN "No User-Agent"
  ELSE IF /\ on.waf_path_traversal
          /\ HasTraversal(path) \/ "traversal" \in marks
       THEN "Path traversal attempt"
  ELSE IF on.waf_sqli /\ "sqli" \in marks
       THEN "SQL injection pattern detected"
  ELSE IF on.waf_xss /\ "xss" \in marks THEN "XSS pattern detected"
  ELSE "ok"

-----------------------------------------------------------------------------
(* Where a path leads, by counting instead of walking                      *)

\* Step k of s goes up: what is in the root is a name, ".." too.
IsParent(s, k) == k > Len(Root) /\ s[k] = Up

\* How deep the first i steps lead: one down for a name, one up for a parent.
Height(s, i) == i - 2 * Cardinality({k \in 1 .. i : IsParent(s, k)})

\* The last of the first i steps that put a name at depth d.
LastAt(s, i, d) == Max({k \in 1 .. i : ~IsParent(s, k) /\ Height(s, k) = d})

\* Where the first i steps lead, unless one of them climbs above "/": at each
\* depth there is the name that was put there last.
Trace(s, i) ==
  IF \E j \in 1 .. i : Height(s, j) < 0 THEN NoPath
  ELSE [d \in 1 .. Height(s, i) |-> s[LastAt(s, i, d)]]

LeadsTo(path) ==
  LET s == Root \o Clean(path)
      end == Trace(s, Len(s))
  IN  IF Contains(path, BadUtf8) \/ end = NoPath \/ ~IsPrefix(Root, end)
      THEN NoPath
      ELSE end

-----------------------------------------------------------------------------
(* Mistakes, and the paths of the bound that are prey to one               *)

\* A path that is resolved to a place where it does not lead, or not at all
\* although nothing in it climbs.
IsMisled(path) ==
  \/ SafePath(path) \notin {NoPath, LeadsTo(path)}
  \/ /\ SafePath(path) = NoPath
     /\ Up \notin ToSet(Clean(path)) /\ ~Contains(path, BadUtf8)

\* Spellings that the WAF cannot see through.
Encoded == EncodedUp \cup {"..%2f..", "a%2fb", BadUtf8, Question}

\* An unencoded path that safe_path refuses, other than "..", although some
\* request for it passes a WAF that looks for traversals.
Slips(path) ==
  /\ ToSet(path) \cap Encoded = {}
  /\ SafePath(path) = NoPath /\ Clean(path) # <<Up>>
  /\ \E on \in Flags, agent \in {"", "curl"}, marks \in SUBSET {"sqli", "xss"} :
       on.waf_path_traversal /\ CheckRequest(on, path, agent, marks) = "ok"

Misled == {path \in Paths : IsMisled(path)}
Slipping == {path \in Paths : Slips(path)}
=============================================================================
