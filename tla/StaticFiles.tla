----------------------------- MODULE StaticFiles ----------------------------
(***************************************************************************)
(* StaticFileServer::serve (static_files.rs) for one client that keeps a   *)
(* copy of what it got, while the files change under both of them.         *)
(*                                                                         *)
(* Every call to the file system is a step of its own: metadata of the     *)
(* resolved path, exists for each index file, metadata of the file to      *)
(* serve, and the read of its content.  Modification times are in ticks,   *)
(* TPS to the second: the ETag and Last-Modified cut them to seconds, the  *)
(* comparison with If-Modified-Since does not.                             *)
(***************************************************************************)
EXTENDS RequestPaths

CONSTANTS
  Urls,        \* paths the client asks for
  Dirs,        \* directories; they do not change
  Files,       \* places where a file may be
  IndexFiles,  \* StaticFileServer::index_files
  Contents,    \* what a file may hold,
  Lengths,     \* Lengths[c]: and how long that is
  Unreadable,  \* what a directory holds, or a file without read permission
  Gone,        \* no file
  MaxTime,     \* bound: modification times
  TPS

ASSUME StaticFilesAssumption ==
  /\ Dirs \cap Files = {} /\ NoPath \notin Dirs \cup Files \cup Urls
  /\ Urls \subseteq Seq(STRING)
  /\ Unreadable \in Contents
  /\ IndexFiles \in Seq(STRING)
  /\ Lengths \in [Contents -> Nat]
  /\ MaxTime \in Nat /\ TPS \in Nat \ {0}
  /\ Gone \notin [content: Contents, mtime: 0 .. MaxTime]

VARIABLES
  autoindex,  \* fixed
  disk,       \* disk[p]: the version of p, or Gone
  pc, url, method, cond, \* the request: where it is, what it asks for, and
                         \* the validators it sends
  place,      \* what url resolves to
  index,      \* the number of the index file looked for
  meta,       \* what metadata said of the file to serve
  answer,
  copy,       \* the client's copy: of which url, with its ETag, Last-Modified
              \* and content
  newest,     \* history: the latest time a file has had
  orderly,    \* history: every version was newer than all before (see Write),
  spaced,     \* and of a later second
  steady      \* history: no file has changed since the request began

request == <<pc, url, method, cond, place, index, meta, answer>>
history == <<newest, orderly, spaced>>
vars == <<autoindex, disk, request, copy, history, steady>>

Versions == [content: Contents, mtime: 0 .. MaxTime]
Nothing == [url |-> NoPath, etag |-> <<0, 0>>, modified |-> 0,
            content |-> Unreadable]

\* What metadata finds at a path.
Node(p) ==
  IF p \in Dirs THEN [content |-> Unreadable, mtime |-> 0]
  ELSE IF p \in Files THEN disk[p] ELSE Gone

Exists(p) == Node(p) # Gone

\* The beginning of the second that t is in.
Second(t) == t - (t % TPS)

\* Mutant: the modification time is not available and left out of the tag.
ETagOfLength(v) == <<Lengths[v.content], 0>>

ETag(v) == <<Lengths[v.content], Second(v.mtime)>>

LastModified(v) == Second(v.mtime)

\* Mutant: both sides of the comparison are cut to seconds.
NotModifiedSinceSeconds(v, ims) == LastModified(v) <= ims

NotModifiedSince(v, ims) == v.mtime <= ims

\* The files a request for a directory is answered from, in order; a path that
\* is no directory stands for itself.
Candidate(p, k) == IF p \in Dirs THEN Append(p, IndexFiles[k]) ELSE p
Candidates(p) == IF p \in Dirs THEN DOMAIN IndexFiles ELSE {1}

-----------------------------------------------------------------------------
(* serve and serve_file                                                    *)

\* The proxy goes on to the backend after None.
End(a) == pc' = "done" /\ answer' = a

\* A request the WAF lets through, which may send the validators of the copy the
\* client has of this url.
Ask(u, m, validators) ==
  /\ pc = "idle"
  /\ validators # {} => copy.url = u
  /\ url' = u /\ method' = m /\ cond' = validators
  /\ place' = SafePath(u)
  /\ IF m \notin {"GET", "HEAD"} \/ SafePath(u) = NoPath
     THEN End("backend")
     ELSE pc' = "resolve" /\ UNCHANGED answer
  /\ UNCHANGED <<autoindex, disk, index, meta, copy, history, steady>>

\* The first metadata: nothing there, a directory, or a file.
Resolve ==
  /\ pc = "resolve"
  /\ IF ~Exists(place) THEN End("backend") /\ UNCHANGED index
     ELSE /\ index' = 1
          /\ pc' = IF place \in Dirs THEN "index" ELSE "stat"
          /\ UNCHANGED answer
  /\ UNCHANGED <<autoindex, disk, url, method, cond, place, meta, copy, history,
                 steady>>

\* Mutant: only the first index file is tried.
TryIndexOnce ==
  /\ pc = "index"
  /\ IF index = 1 /\ index \in DOMAIN IndexFiles /\ Exists(Candidate(place, index))
     THEN pc' = "stat" /\ UNCHANGED <<answer, index>>
     ELSE End(IF autoindex THEN "listing" ELSE "backend") /\ UNCHANGED index
  /\ UNCHANGED <<autoindex, disk, url, method, cond, place, meta, copy, history,
                 steady>>

\* candidate.exists(); after the last one a listing, if there is to be one.
TryIndex ==
  /\ pc = "index"
  /\ IF index \notin DOMAIN IndexFiles
     THEN End(IF autoindex THEN "listing" ELSE "backend") /\ UNCHANGED index
     ELSE IF Exists(Candidate(place, index))
     THEN pc' = "stat" /\ UNCHANGED <<answer, index>>
     ELSE index' = index + 1 /\ UNCHANGED <<pc, answer>>
  /\ UNCHANGED <<autoindex, disk, url, method, cond, place, meta, copy, history,
                 steady>>

Target == Candidate(place, index)

\* The validators of the client's copy, each compared on its own.
NotModified(v) ==
  \/ "if_none_match" \in cond /\ copy.etag = ETag(v)
  \/ "if_modified_since" \in cond /\ NotModifiedSince(v, copy.modified)

\* serve_file up to the read.
Stat ==
  /\ pc = "stat"
  /\ meta' = Node(Target)
  /\ IF ~Exists(Target) THEN End("backend")
     ELSE IF NotModified(Node(Target)) THEN End("304")
     ELSE IF method = "HEAD" THEN End("200")
     ELSE pc' = "read" /\ UNCHANGED answer
  /\ UNCHANGED <<autoindex, disk, url, method, cond, place, index, copy, history,
                 steady>>

\* The read, and the response: its headers come from the metadata before.
Read ==
  /\ pc = "read"
  /\ IF Exists(Target) /\ Node(Target).content # Unreadable
     THEN /\ End("200")
          /\ copy' = [url |-> url, etag |-> ETag(meta),
                      modified |-> LastModified(meta),
                      content |-> Node(Target).content]
     ELSE End("backend") /\ UNCHANGED copy
  /\ UNCHANGED <<autoindex, disk, url, method, cond, place, index, meta, history,
                 steady>>

Finish ==
  /\ pc = "done"
  /\ pc' = "idle" /\ url' = NoPath /\ method' = "GET" /\ cond' = {}
  /\ place' = NoPath /\ index' = 1 /\ meta' = Gone /\ answer' = "none"
  /\ steady' = TRUE
  /\ UNCHANGED <<autoindex, disk, copy, history>>

-----------------------------------------------------------------------------
(* The files                                                               *)

\* A request is between its first look and the metadata of its file.
Looking == pc \in {"index", "stat"}

\* p is an index file that stands before another one that exists.
Hides(p) ==
  \E d \in Dirs, k, l \in DOMAIN IndexFiles :
    p = Candidate(d, k) /\ k < l /\ Exists(Candidate(d, l))

\* From then on the history does not tell what the properties can trust.
Disorder == orderly' = FALSE /\ spaced' = FALSE /\ newest' = MaxTime

\* A file is written, with a time of the writer's choice: tools that restore
\* or unpack files set old ones.  It is orderly when the time is later than
\* any before and no file appears while a request looks for one.
Write(p, v) ==
  /\ v # disk[p]
  /\ disk' = [disk EXCEPT ![p] = v]
  /\ IF orderly /\ v.mtime > newest /\ ~(disk[p] = Gone /\ Looking)
     THEN /\ newest' = v.mtime
          /\ spaced' = (spaced /\ Second(v.mtime) > Second(newest))
          /\ UNCHANGED orderly
     ELSE Disorder
  /\ steady' = (pc = "idle")
  /\ UNCHANGED <<autoindex, request, copy>>

\* It is orderly when no older index file takes over.
Delete(p) ==
  /\ disk[p] # Gone
  /\ disk' = [disk EXCEPT ![p] = Gone]
  /\ IF orderly /\ ~Hides(p) THEN UNCHANGED history ELSE Disorder
  /\ steady' = (pc = "idle")
  /\ UNCHANGED <<autoindex, request, copy>>

-----------------------------------------------------------------------------
Init ==
  /\ autoindex \in BOOLEAN
  /\ disk \in [Files -> Versions \cup {Gone}]
  /\ pc = "idle" /\ url = NoPath /\ method = "GET" /\ cond = {}
  /\ place = NoPath /\ index = 1 /\ meta = Gone /\ answer = "none"
  /\ copy = Nothing
  /\ newest \in {0} \cup {disk[p].mtime : p \in {q \in Files : Exists(q)}}
  /\ \A p \in Files : Exists(p) => disk[p].mtime <= newest
  /\ orderly = TRUE /\ spaced = TRUE /\ steady = TRUE

Serve == Resolve \/ TryIndex \/ Stat \/ Read

Next ==
  \/ \E u \in Urls, m \in {"GET", "HEAD", "POST"},
        validators \in SUBSET {"if_none_match", "if_modified_since"} :
       Ask(u, m, validators)
  \/ Serve
  \/ Finish
  \/ \E p \in Files : Delete(p) \/ \E v \in Versions : Write(p, v)

Spec == Init /\ [][Next]_vars
-----------------------------------------------------------------------------
(* Properties                                                              *)

\* Types of the request, the files and the client's copy; a request is only
\* ever answered from below the root directory (safe_path).
TypeOK ==
  /\ autoindex \in BOOLEAN
  /\ disk \in [Files -> Versions \cup {Gone}]
  /\ pc \in {"idle", "resolve", "index", "stat", "read", "done"}
  /\ method \in {"GET", "HEAD", "POST"}
  /\ cond \subseteq {"if_none_match", "if_modified_since"}
  /\ place = NoPath \/ IsPrefix(Root, place)
  /\ index \in 1 .. Len(IndexFiles) + 1
  /\ meta \in Versions \cup {Gone}
  /\ answer \in {"none", "200", "304", "listing", "backend"}
  /\ copy.content \in Contents /\ copy.modified \in 0 .. MaxTime
  /\ newest \in 0 .. MaxTime
  /\ orderly \in BOOLEAN /\ spaced \in BOOLEAN /\ steady \in BOOLEAN

\* A 304 is true: the copy that the client sent the validators of has the
\* content of the file that was looked at, as long as every version is of a
\* later second than all before it.  Neither a file that is replaced between
\* its metadata and its read nor an index file that appears makes the client
\* keep a stale copy.  (Without the premise it may: two versions of one second
\* and one length have the same ETag.)
NotModifiedIsTrue ==
  spaced /\ answer = "304" => copy.content = meta.content

\* A client that sends If-Modified-Since alone is safe from any newer version,
\* one of the same second too: Last-Modified is cut to seconds, the time it is
\* compared with is not (serve_file).
NotModifiedSinceIsTrue ==
  /\ orderly /\ answer = "304" /\ "if_none_match" \notin cond
  => copy.content = meta.content

\* The file a place stands for: the first index file that exists, or none.
Served(p) ==
  LET found == {k \in Candidates(p) : Exists(Candidate(p, k))}
  IN  IF found = {} THEN Gone
      ELSE Node(Candidate(p, CHOOSE k \in found : \A l \in found : k <= l))

\* When no file changes during a request it is answered with what is there:
\* from the one file its path stands for, with headers and content of the same
\* version; with a listing or by the backend only when there is no such file or
\* it cannot be read (serve returns None).
SteadyIsServed ==
  steady /\ pc = "done" =>
    LET file == Served(place)
    IN  CASE answer \in {"304", "200"} ->
               /\ file # Gone /\ meta = file
               /\ answer = "200" /\ method = "GET" =>
                    /\ copy.content = file.content
                    /\ copy.etag = ETag(file)
          [] answer = "listing" ->
               autoindex /\ place \in Dirs /\ file = Gone
          [] answer = "backend" ->
               \/ file = Gone
               \/ file.content = Unreadable /\ method = "GET"
               \/ method = "POST"

\* Walking leads where counting leads: whatever is encoded in a path and
\* wherever it climbs on its way, a request is looked for where its path leads
\* or not at all, never outside the root directory, and a path without parents
\* is always looked for (safe_path).  It does not say whether a path that climbs
\* and ends inside is to be served: the code does so.
SafePathExact ==
  Misled = {} /\ (pc # "idle" => place \in {NoPath, LeadsTo(url)})

\* With waf_path_traversal, the one unencoded path that check_request leaves
\* to safe_path to refuse is "..": any other path out of the root has a parent
\* with a slash after it somewhere, not only at its beginning.
ClimbsAreRefusedFirst == Slipping = {} /\ (pc # "idle" => ~Slips(url))
=============================================================================
