-------------------------- MODULE StaticFilesProofs -------------------------
(***************************************************************************)
(* Proofs about the static file server, for any directories, files, index  *)
(* files and lengths, and about the paths it is asked for.                 *)
(*                                                                         *)
(* While every version is newer than all before it, a 304 for              *)
(* If-Modified-Since is true; while every version is of a later second, so *)
(* is one for an ETag.  The argument follows the file a path stands for:   *)
(* the client's copy has its content, or the copy's validators do not      *)
(* match it.                                                               *)
(*                                                                         *)
(* safe_path leads where a path leads (second part): its loop is followed  *)
(* step by step against the count of names and parents.  Induction is over *)
(* the members of a set, from the well-founded order of the numbers.       *)
(***************************************************************************)
EXTENDS StaticFiles, FiniteSetTheorems, SequenceTheorems,
        WellFoundedInduction, TLAPS

\* The request in hand and what it has found.
Placed ==
  pc # "idle" => /\ url \in Urls
                 /\ place = SafePath(url)
                 /\ cond # {} => copy.url = url

Indexed ==
  /\ pc = "index" => place \in Dirs
  /\ pc \in {"stat", "read"} => index \in Candidates(place)
  /\ pc = "read" => meta \in Versions
  /\ pc # "done" => answer = "none"

\* What files have on them is in the history.
Known(etag, modified) ==
  /\ modified <= newest
  /\ etag[2] \in Int /\ (spaced => etag[2] <= Second(newest))

DiskKnown == \A p : Exists(p) => Known(ETag(Node(p)), Node(p).mtime)

\* A version that the time does not match, nor the tag if it can be trusted.
Fresh(v, etag, modified) == v.mtime > modified /\ (spaced => ETag(v) # etag)

\* The k-th candidate is the one a request for q is answered from.
First(q, k) ==
  /\ k \in Candidates(q) /\ Exists(Candidate(q, k))
  /\ \A l \in Candidates(q) : l < k => ~Exists(Candidate(q, l))

CopyTrue ==
  copy.url \in Urls =>
    LET q == SafePath(copy.url)
    IN  /\ Known(copy.etag, copy.modified)
        /\ \A k : First(q, k) =>
             LET v == Node(Candidate(q, k))
             IN  v.content = copy.content \/ Fresh(v, copy.etag, copy.modified)

NoneBefore ==
  Looking => \A l \in Candidates(place) :
               l < index => ~Exists(Candidate(place, l))

\* Between metadata and read: the file is still the one, or one is that the
\* headers under way do not match.
MetaKnown ==
  pc = "read" =>
    /\ Known(ETag(meta), meta.mtime)
    /\ \A k : First(place, k) =>
         \/ Candidate(place, k) = Target
         \/ Fresh(Node(Candidate(place, k)), ETag(meta), LastModified(meta))

Order == DiskKnown /\ CopyTrue /\ NoneBefore /\ MetaKnown

IInv ==
  /\ TypeOK /\ Placed /\ Indexed
  /\ spaced => orderly
  /\ orderly => Order
  /\ NotModifiedIsTrue /\ NotModifiedSinceIsTrue

-----------------------------------------------------------------------------
\* A time is not before the second it is in.
LEMMA SecondBefore ==
  ASSUME NEW t \in 0 .. MaxTime
  PROVE  Second(t) \in 0 .. t /\ Second(t) \in 0 .. MaxTime
<1>1. t % TPS \in 0 .. TPS - 1
  BY StaticFilesAssumption
<1>2. t % TPS <= t
  <2>1. CASE t < TPS
    BY <2>1, StaticFilesAssumption
  <2>2. CASE t >= TPS
    BY <2>2, <1>1, StaticFilesAssumption
  <2> QED BY <2>1, <2>2, StaticFilesAssumption
<1> QED BY <1>1, <1>2, StaticFilesAssumption DEF Second

\* Multiples of a number lie that number apart.
LEMMA MultiplesApart ==
  ASSUME NEW a \in Nat, NEW b \in Nat, NEW n \in Nat, a < b
  PROVE  n * a + n <= n * b
<1>1. PICK c \in Nat : b = a + 1 + c
  <2>1. b - a - 1 \in Nat
    OBVIOUS
  <2> QED BY <2>1
<1>2. n * b = n * a + n + n * c
  BY <1>1
<1>3. n * c \in Nat /\ n * a \in Nat
  OBVIOUS
<1> QED BY <1>2, <1>3

LEMMA SecondIsMultiple ==
  ASSUME NEW t \in Nat
  PROVE  \E n \in Nat : Second(t) = TPS * n
<1>1. t \div TPS \in Nat
  BY StaticFilesAssumption
<1>2. t = TPS * (t \div TPS) + (t % TPS)
  BY StaticFilesAssumption
<1>3. PICK n, r : n = t \div TPS /\ r = t % TPS
  OBVIOUS
<1>4. n \in Nat /\ r \in Int /\ TPS * n \in Int /\ t = TPS * n + r
  BY <1>1, <1>2, <1>3, StaticFilesAssumption
<1>5. Second(t) = TPS * n
  BY <1>3, <1>4 DEF Second
<1> QED BY <1>4, <1>5

\* A later time is not in an earlier second.
LEMMA SecondsInOrder ==
  ASSUME NEW t \in Nat, NEW u \in Nat, t <= u
  PROVE  Second(t) <= Second(u)
<1>1. PICK a \in Nat : Second(t) = TPS * a
  BY SecondIsMultiple
<1>2. PICK b \in Nat : Second(u) = TPS * b
  BY SecondIsMultiple
<1>3. TPS \in Nat \ {0} /\ t % TPS \in 0 .. TPS - 1 /\ u % TPS \in 0 .. TPS - 1
  BY StaticFilesAssumption
<1>4. CASE b < a
  <2>1. TPS * b + TPS <= TPS * a
    BY <1>3, <1>4, MultiplesApart
  <2>2. Second(u) + TPS <= Second(t)
    BY <1>1, <1>2, <2>1
  <2> QED BY <1>3, <2>2 DEF Second
<1>5. CASE a = b
  <2>1. Second(t) = Second(u) /\ Second(t) \in Int
    BY <1>1, <1>2, <1>3, <1>5
  <2> QED BY <2>1
<1>6. CASE a < b
  <2>1. TPS * a + TPS <= TPS * b
    BY <1>3, <1>6, MultiplesApart
  <2>2. Second(t) + TPS <= Second(u) /\ Second(t) \in Int /\ Second(u) \in Int
    BY <1>1, <1>2, <1>3, <2>1
  <2> QED BY <1>3, <2>2
<1> QED BY <1>4, <1>5, <1>6

\* The versions that exist are versions.
LEMMA NodeType ==
  ASSUME TypeOK, NEW p, Exists(p)
  PROVE  Node(p) \in Versions
BY StaticFilesAssumption DEF TypeOK, Exists, Node, Versions

\* safe_path leads below the root or nowhere.
LEMMA SafePathInside ==
  ASSUME NEW u
  PROVE  SafePath(u) = NoPath \/ IsPrefix(Root, SafePath(u))
BY DEF SafePath

LEMMA InitIInv == Init => IInv
<1> SUFFICES ASSUME Init PROVE IInv
  OBVIOUS
<1>0. Gone \notin Versions /\ MaxTime \in Nat /\ Unreadable \in Contents
  BY StaticFilesAssumption DEF Versions
<1>1. newest \in 0 .. MaxTime /\ \A p \in Files : Exists(p) => disk[p].mtime <= newest
  BY <1>0, NodeType, StaticFilesAssumption DEF Init, Exists, Node, Versions
<1>2. TypeOK
  BY <1>0, <1>1, StaticFilesAssumption DEF Init, TypeOK, Nothing
<1>3. Placed /\ Indexed /\ NotModifiedIsTrue /\ NotModifiedSinceIsTrue
      /\ (spaced => orderly)
  BY DEF Init, Placed, Indexed, NotModifiedIsTrue, NotModifiedSinceIsTrue
<1>4. DiskKnown
  <2> SUFFICES ASSUME NEW p, Exists(p) PROVE Known(ETag(Node(p)), Node(p).mtime)
    BY DEF DiskKnown
  <2>1. Node(p).mtime <= newest
    BY <1>0, <1>1 DEF Exists, Node
  <2>2. Node(p).mtime \in Nat /\ newest \in Nat
    BY <1>0, <1>1, <1>2, NodeType DEF Versions
  <2>3. Second(Node(p).mtime) <= Second(newest) /\ Second(Node(p).mtime) \in Int
    BY <2>1, <2>2, SecondsInOrder, StaticFilesAssumption DEF Second
  <2> QED BY <2>1, <2>3 DEF Known, ETag
<1>5. CopyTrue /\ NoneBefore /\ MetaKnown
  BY StaticFilesAssumption DEF Init, CopyTrue, NoneBefore, MetaKnown, Nothing, Looking
<1> QED BY <1>2, <1>3, <1>4, <1>5 DEF IInv, Order

-----------------------------------------------------------------------------
(* Steps of the server                                                     *)

\* Where the files do not change, nor does what a path stands for.
LEMMA SameDisk ==
  ASSUME UNCHANGED disk
  PROVE  /\ \A p : Node(p)' = Node(p) /\ (Exists(p)' <=> Exists(p))
         /\ \A q, k : First(q, k)' <=> First(q, k)
<1>1. \A p : Node(p)' = Node(p)
  BY DEF Node
<1>2. \A p : Exists(p)' <=> Exists(p)
  BY <1>1 DEF Exists
<1> QED BY <1>1, <1>2 DEF First

LEMMA SameHistory ==
  ASSUME Order, UNCHANGED <<disk, history>>
  PROVE  /\ DiskKnown' /\ spaced' = spaced
         /\ \A e, t : Known(e, t)' <=> Known(e, t)
<1>1. \A e, t : Known(e, t)' <=> Known(e, t)
  BY DEF Known, history
<1>2. spaced' = spaced
  BY DEF history
<1> QED BY <1>1, <1>2, SameDisk DEF DiskKnown, Order, ETag

\* The copy stays true while it and the files stay as they are.
LEMMA SameCopy ==
  ASSUME Order, UNCHANGED <<disk, history, copy>>
  PROVE  CopyTrue'
<1>1. \A k : First(SafePath(copy.url), k)' <=> First(SafePath(copy.url), k)
  BY SameDisk
<1>2. \A k : Node(Candidate(SafePath(copy.url), k))' = Node(Candidate(SafePath(copy.url), k))
  BY SameDisk DEF Candidate
<1> QED BY <1>1, <1>2, SameHistory, SameDisk DEF CopyTrue, Order, Fresh, Candidate, ETag

LEMMA AskIInv ==
  ASSUME IInv, NEW u \in Urls, NEW m \in {"GET", "HEAD", "POST"},
         NEW validators \in SUBSET {"if_none_match", "if_modified_since"},
         Ask(u, m, validators)
  PROVE  IInv'
<1> USE DEF Ask, End, IInv
<1>1. TypeOK'
  BY SafePathInside DEF TypeOK, history
<1>2. Placed' /\ Indexed' /\ NotModifiedIsTrue' /\ NotModifiedSinceIsTrue'
      /\ (spaced' => orderly')
  BY DEF Placed, Indexed, NotModifiedIsTrue, NotModifiedSinceIsTrue, history
<1>3. ASSUME orderly' PROVE Order'
  <2>1. orderly /\ Order /\ UNCHANGED <<disk, history, copy>>
    BY <1>3 DEF history
  <2>2. NoneBefore' /\ MetaKnown'
    BY DEF NoneBefore, MetaKnown, Looking
  <2> QED BY <2>1, <2>2, SameHistory, SameCopy DEF Order
<1> QED BY <1>1, <1>2, <1>3

LEMMA ResolveIInv == ASSUME IInv, Resolve PROVE IInv'
<1> USE DEF Resolve, End, IInv
<1>1. TypeOK'
  BY StaticFilesAssumption DEF TypeOK, history
<1>2. Placed' /\ Indexed' /\ NotModifiedIsTrue' /\ NotModifiedSinceIsTrue'
      /\ (spaced' => orderly')
  BY DEF Placed, Indexed, NotModifiedIsTrue, NotModifiedSinceIsTrue, history, Candidates
<1>3. ASSUME orderly' PROVE Order'
  <2>1. orderly /\ Order /\ UNCHANGED <<disk, history, copy>>
    BY <1>3 DEF history
  <2>2. \A l \in Candidates(place) : l < 1 => FALSE
    BY StaticFilesAssumption DEF Candidates
  <2>3. NoneBefore' /\ MetaKnown'
    BY <2>2 DEF NoneBefore, MetaKnown, Looking, Candidates
  <2> QED BY <2>1, <2>3, SameHistory, SameCopy DEF Order
<1> QED BY <1>1, <1>2, <1>3

LEMMA TryIndexIInv == ASSUME IInv, TryIndex PROVE IInv'
<1> USE DEF TryIndex, End, IInv
<1>0. pc = "index" /\ place \in Dirs /\ DOMAIN IndexFiles = 1 .. Len(IndexFiles)
  BY StaticFilesAssumption DEF Indexed
<1>1. TypeOK'
  BY <1>0, StaticFilesAssumption DEF TypeOK, history
<1>2. Placed' /\ Indexed' /\ NotModifiedIsTrue' /\ NotModifiedSinceIsTrue'
      /\ (spaced' => orderly')
  BY <1>0 DEF Placed, Indexed, NotModifiedIsTrue, NotModifiedSinceIsTrue, history, Candidates
<1>3. ASSUME orderly' PROVE Order'
  <2>1. orderly /\ Order /\ UNCHANGED <<disk, history, copy>>
    BY <1>3 DEF history
  <2>2. \A l \in Candidates(place) : l < index => ~Exists(Candidate(place, l))
    BY <2>1, <1>0 DEF Order, NoneBefore, Looking
  <2>3. NoneBefore'
    <3>1. \A l \in Candidates(place) :
            ~Exists(Candidate(place, l)) => ~Exists(Candidate(place, l))'
      BY SameDisk DEF Candidate
    <3>2. index' \in {index, index + 1} /\ index \in Nat
      BY <1>0, StaticFilesAssumption DEF TypeOK
    <3>3. index' = index + 1 => ~Exists(Candidate(place, index))
      BY <3>2
    <3>4. Candidates(place) \subseteq Nat /\ UNCHANGED place
      BY <1>0 DEF Candidates
    <3> QED BY <2>2, <3>1, <3>2, <3>3, <3>4 DEF NoneBefore, Candidates, Candidate
  <2>4. MetaKnown'
    BY <1>0 DEF MetaKnown
  <2> QED BY <2>1, <2>3, <2>4, SameHistory, SameCopy DEF Order
<1> QED BY <1>1, <1>2, <1>3

\* The candidate that a request has found is the one its path stands for.
LEMMA TargetIsFirst ==
  ASSUME IInv, orderly, pc = "stat", Exists(Target)
  PROVE  /\ First(place, index)
         /\ \A k : First(place, k) => Candidate(place, k) = Target
<1>1. First(place, index)
  BY DEF IInv, Indexed, Order, NoneBefore, Looking, First, Target
<1>2. Candidates(place) \subseteq Nat
  BY StaticFilesAssumption DEF Candidates
<1>3. \A k : First(place, k) => k = index
  BY <1>1, <1>2 DEF First
<1> QED BY <1>1, <1>3 DEF Target

LEMMA StatIInv == ASSUME IInv, Stat PROVE IInv'
<1> USE DEF Stat, End, IInv
<1>0. Exists(Target) => Node(Target) \in Versions
  BY NodeType
<1>1. TypeOK'
  <2>1. Node(Target) \in Versions \cup {Gone}
    BY <1>0 DEF Exists
  <2> QED BY <2>1 DEF TypeOK, history
<1>2. Placed' /\ Indexed' /\ (spaced' => orderly')
  BY <1>0 DEF Placed, Indexed, history, Candidates
<1>3. NotModifiedIsTrue' /\ NotModifiedSinceIsTrue'
  <2> SUFFICES ASSUME orderly, Exists(Target), NotModified(Node(Target)),
                      spaced \/ "if_none_match" \notin cond
               PROVE  copy.content = Node(Target).content
    BY DEF NotModifiedIsTrue, NotModifiedSinceIsTrue, history, Indexed
  <2>1. copy.url = url /\ url \in Urls /\ place = SafePath(url)
    BY DEF NotModified, Placed
  <2>2. First(SafePath(copy.url), index) /\ Candidate(SafePath(copy.url), index) = Target
    BY <2>1, TargetIsFirst DEF Target
  <2>3. Node(Target).content = copy.content
          \/ Fresh(Node(Target), copy.etag, copy.modified)
    BY <2>1, <2>2 DEF Order, CopyTrue
  <2>4. ~Fresh(Node(Target), copy.etag, copy.modified)
    <3>1. Node(Target).mtime \in Nat /\ copy.modified \in Nat
      BY <1>0, StaticFilesAssumption DEF Versions, TypeOK
    <3> QED BY <3>1 DEF Fresh, NotModified, NotModifiedSince
  <2> QED BY <2>3, <2>4
<1>4. ASSUME orderly' PROVE Order'
  <2>1. orderly /\ Order /\ UNCHANGED <<disk, history, copy, place, index>>
    BY <1>4 DEF history
  <2>2. NoneBefore'
    BY DEF NoneBefore, Looking
  <2>3. MetaKnown'
    <3> SUFFICES ASSUME pc' = "read" PROVE MetaKnown'
      BY DEF MetaKnown
    <3>1. Exists(Target) /\ meta' = Node(Target)
      OBVIOUS
    <3>2. Known(ETag(meta'), meta'.mtime)
      BY <2>1, <3>1 DEF Order, DiskKnown
    <3>3. \A k : First(place, k)' => Candidate(place, k)' = Target'
      BY <2>1, <3>1, TargetIsFirst, SameDisk DEF Candidate, Target
    <3> QED BY <2>1, <3>2, <3>3, SameHistory DEF MetaKnown, ETag
  <2> QED BY <2>1, <2>2, <2>3, SameHistory, SameCopy DEF Order
<1> QED BY <1>1, <1>2, <1>3, <1>4

LEMMA ReadIInv == ASSUME IInv, Read PROVE IInv'
<1> USE DEF Read, End, IInv
<1>0. meta \in Versions /\ LastModified(meta) \in 0 .. meta.mtime
        /\ LastModified(meta) \in 0 .. MaxTime /\ meta.mtime \in 0 .. MaxTime
  BY SecondBefore DEF Indexed, LastModified, Versions
<1>1. TypeOK'
  <2>1. Exists(Target) => Node(Target).content \in Contents
    BY NodeType DEF Versions
  <2> QED BY <1>0, <2>1 DEF TypeOK, history
<1>2. Placed' /\ Indexed' /\ NotModifiedIsTrue' /\ NotModifiedSinceIsTrue'
      /\ (spaced' => orderly')
  BY DEF Placed, Indexed, NotModifiedIsTrue, NotModifiedSinceIsTrue, history, Candidates
<1>3. ASSUME orderly' PROVE Order'
  <2>1. orderly /\ Order /\ UNCHANGED <<disk, history, place, index>>
    BY <1>3 DEF history
  <2>2. NoneBefore' /\ MetaKnown'
    BY DEF NoneBefore, MetaKnown, Looking
  <2>3. CASE UNCHANGED copy
    BY <2>1, <2>2, <2>3, SameHistory, SameCopy DEF Order
  <2>4. CASE copy' = [url |-> url, etag |-> ETag(meta),
                      modified |-> LastModified(meta),
                      content |-> Node(Target).content]
    <3>1. url \in Urls /\ place = SafePath(url)
      BY DEF Placed
    <3>2. Known(ETag(meta), LastModified(meta))
      BY <2>1, <1>0 DEF Order, MetaKnown, Known, TypeOK
    <3>3. PICK e, t, c, q : /\ e = ETag(meta) /\ t = LastModified(meta)
                            /\ c = Node(Target).content /\ q = place
      OBVIOUS
    <3>4. /\ copy'.url = url /\ copy'.etag = e /\ copy'.modified = t
          /\ copy'.content = c
      BY <2>4, <3>3
    <3>5. \A k : First(q, k) =>
             Node(Candidate(q, k)).content = c \/ Fresh(Node(Candidate(q, k)), e, t)
      BY <2>1, <3>3 DEF Order, MetaKnown
    <3>6. \A k : First(q, k)' =>
             \/ Node(Candidate(q, k))'.content = c
             \/ Fresh(Node(Candidate(q, k))', e, t)
      BY <2>1, <3>5, SameDisk DEF Candidate
    <3>7. Known(e, t)'
      BY <2>1, <3>2, <3>3, SameHistory
    <3>8. CopyTrue'
      BY <2>1, <3>1, <3>3, <3>4, <3>6, <3>7, SameHistory
         DEF CopyTrue, Fresh, ETag, Candidate
    <3> QED BY <2>1, <2>2, <3>8, SameHistory DEF Order
  <2> QED BY <2>3, <2>4
<1> QED BY <1>1, <1>2, <1>3

LEMMA FinishIInv == ASSUME IInv, Finish PROVE IInv'
<1> USE DEF Finish, IInv
<1>1. TypeOK'
  BY StaticFilesAssumption DEF TypeOK, history
<1>2. Placed' /\ Indexed' /\ NotModifiedIsTrue' /\ NotModifiedSinceIsTrue'
      /\ (spaced' => orderly')
  BY DEF Placed, Indexed, NotModifiedIsTrue, NotModifiedSinceIsTrue, history
<1>3. ASSUME orderly' PROVE Order'
  <2>1. orderly /\ Order /\ UNCHANGED <<disk, history, copy>>
    BY <1>3 DEF history
  <2>2. NoneBefore' /\ MetaKnown'
    BY DEF NoneBefore, MetaKnown, Looking
  <2> QED BY <2>1, <2>2, SameHistory, SameCopy DEF Order
<1> QED BY <1>1, <1>2, <1>3

-----------------------------------------------------------------------------
(* Steps of the files                                                      *)

\* After an orderly write a path stands for the file it stood for, as it was,
\* or for the new version.
LEMMA WriteFirst ==
  ASSUME TypeOK, NEW p \in Files, NEW v \in Versions, Write(p, v),
         NEW q, NEW k, First(q, k)'
  PROVE  \/ First(q, k) /\ Node(Candidate(q, k))' = Node(Candidate(q, k))
         \/ Candidate(q, k) = p /\ Node(Candidate(q, k))' = v
<1>0. v # Gone /\ p \notin Dirs
  BY StaticFilesAssumption DEF Versions
<1>1. Node(p)' = v
  BY <1>0 DEF Write, Node, TypeOK
<1>2. \A r : r # p => Node(r)' = Node(r)
  BY DEF Write, Node, TypeOK
<1>3. \A r : Exists(r) => Exists(r)'
  BY <1>0, <1>1, <1>2 DEF Exists
<1>4. Candidate(q, k)' = Candidate(q, k) /\ \A l : Candidate(q, l)' = Candidate(q, l)
  BY DEF Candidate
<1>5. CASE Candidate(q, k) = p
  BY <1>5, <1>1
<1>6. CASE Candidate(q, k) # p
  <2>1. Exists(Candidate(q, k))
    BY <1>6, <1>2 DEF First, Exists
  <2>2. \A l \in Candidates(q) : l < k => ~Exists(Candidate(q, l))
    BY <1>3, <1>4 DEF First, Candidates
  <2> QED BY <1>2, <1>6, <2>1, <2>2 DEF First, Candidates
<1> QED BY <1>5, <1>6

\* After an orderly deletion a path stands for the file it stood for.
LEMMA DeleteFirst ==
  ASSUME TypeOK, NEW p \in Files, Delete(p), ~Hides(p),
         NEW q, NEW k, First(q, k)'
  PROVE  First(q, k) /\ Node(Candidate(q, k))' = Node(Candidate(q, k))
<1>0. Node(p)' = Gone /\ p \notin Dirs
  BY StaticFilesAssumption DEF Delete, Node, TypeOK
<1>2. \A r : r # p => Node(r)' = Node(r)
  BY DEF Delete, Node, TypeOK
<1>3. Candidate(q, k) # p /\ Exists(Candidate(q, k))
  BY <1>0, <1>2 DEF First, Exists, Candidate
<1>4. ASSUME NEW l \in Candidates(q), l < k PROVE ~Exists(Candidate(q, l))
  <2>1. ~Exists(Candidate(q, l))'
    BY <1>4 DEF First, Candidates
  <2>2. CASE Candidate(q, l) # p
    BY <2>1, <2>2, <1>2 DEF Exists, Candidate
  <2>3. CASE Candidate(q, l) = p /\ q \in Dirs
    BY <2>3, <1>3, <1>4 DEF Hides, First, Candidates
  <2>4. CASE q \notin Dirs
    BY <2>4, <1>4 DEF First, Candidates
  <2> QED BY <2>2, <2>3, <2>4
<1>5. First(q, k)
  BY <1>3, <1>4 DEF First, Candidates
<1>6. Node(Candidate(q, k))' = Node(Candidate(q, k))
  <2>1. PICK r : r = Candidate(q, k)
    OBVIOUS
  <2>2. Node(r)' = Node(r)
    BY <1>2, <1>3, <2>1
  <2> QED BY <2>1, <2>2 DEF Candidate, Node
<1> QED BY <1>5, <1>6

LEMMA WriteIInv ==
  ASSUME IInv, NEW p \in Files, NEW v \in Versions, Write(p, v)
  PROVE  IInv'
<1> USE DEF IInv
<1>0. v # Gone /\ p \notin Dirs /\ v.mtime \in 0 .. MaxTime /\ MaxTime \in Nat
  BY StaticFilesAssumption DEF Versions
<1>1. TypeOK'
  <2>1. disk' \in [Files -> Versions \cup {Gone}]
    BY DEF Write, TypeOK
  <2>2. newest' \in 0 .. MaxTime
    BY <1>0 DEF Write, Disorder, TypeOK
  <2>4. orderly' \in BOOLEAN /\ spaced' \in BOOLEAN
    BY ZenonT(30) DEF Write, Disorder, TypeOK
  <2>3. steady' \in BOOLEAN
    BY DEF Write
  <2> QED BY <2>1, <2>2, <2>3, <2>4 DEF Write, TypeOK, request
<1>2. Placed' /\ Indexed' /\ (spaced' => orderly')
  BY DEF Write, Disorder, Placed, Indexed, request, Candidates
<1>3. NotModifiedIsTrue' /\ NotModifiedSinceIsTrue'
  BY DEF Write, Disorder, NotModifiedIsTrue, NotModifiedSinceIsTrue, request
<1>4. ASSUME orderly' PROVE Order'
  <2>1. /\ orderly /\ Order
        /\ v.mtime > newest
        /\ disk[p] = Gone => ~Looking
        /\ newest' = v.mtime
        /\ spaced' => spaced /\ Second(v.mtime) > Second(newest)
    BY <1>4 DEF Write, Disorder
  <2>9. Second(v.mtime) \in Int /\ Second(newest) \in Int /\ newest \in Int
    BY <1>0, SecondBefore DEF TypeOK
  <2>2. \A e : \A t \in Int : Known(e, t) => Known(e, t)'
    BY <2>1, <2>9, <1>0 DEF Known, Second
  <2>3. Known(ETag(v), v.mtime)'
    BY <2>1, <2>9, <1>0 DEF Known, ETag, Second
  <2>0. PICK sp \in BOOLEAN : sp = spaced'
    BY <1>1 DEF TypeOK
  <2> DEFINE FreshNow(w, e, t) == w.mtime > t /\ (sp => ETag(w) # e)
  <2>4. ASSUME NEW e, NEW t \in Int, Known(e, t) PROVE FreshNow(v, e, t)
    BY <2>0, <2>1, <2>4, <2>9, <1>0 DEF Known, ETag
  <2>10. \A w, e, t : Fresh(w, e, t) => FreshNow(w, e, t)
    BY <2>0, <2>1 DEF Fresh
  <2>5. DiskKnown'
    <3> SUFFICES ASSUME NEW r, Exists(r)'
                 PROVE  Known(ETag(Node(r)), Node(r).mtime)'
      BY DEF DiskKnown
    <3>1. CASE r = p
      BY <3>1, <2>3, <1>0 DEF Write, Node, TypeOK, ETag
    <3>2. CASE r # p
      <4>1. Node(r)' = Node(r) /\ Exists(r)
        BY <3>2 DEF Write, Node, TypeOK, Exists
      <4>2. Node(r).mtime \in Int /\ Known(ETag(Node(r)), Node(r).mtime)
        BY <4>1, <2>1, NodeType DEF Order, DiskKnown, Versions
      <4> QED BY <4>1, <4>2, <2>2 DEF ETag
    <3> QED BY <3>1, <3>2
  <2>6. CopyTrue'
    <3> SUFFICES ASSUME copy.url \in Urls PROVE CopyTrue'
      BY DEF CopyTrue, Write
    <3>0. PICK q : q = SafePath(copy.url)
      OBVIOUS
    <3>1. copy' = copy /\ copy.modified \in Int
      BY DEF Write, TypeOK
    <3>2. Known(copy.etag, copy.modified)
      BY <2>1 DEF Order, CopyTrue
    <3>3. ASSUME NEW k, First(q, k)'
          PROVE  \/ Node(Candidate(q, k))'.content = copy.content
                 \/ FreshNow(Node(Candidate(q, k))', copy.etag, copy.modified)
      <4>1. CASE First(q, k) /\ Node(Candidate(q, k))' = Node(Candidate(q, k))
        <5>1. \/ Node(Candidate(q, k)).content = copy.content
              \/ Fresh(Node(Candidate(q, k)), copy.etag, copy.modified)
          BY <4>1, <2>1, <3>0 DEF Order, CopyTrue
        <5> QED BY <4>1, <5>1, <2>10
      <4>2. CASE Node(Candidate(q, k))' = v
        BY <4>2, <3>1, <3>2, <2>4
      <4> QED BY <4>1, <4>2, <3>3, WriteFirst
    <3> QED BY <3>0, <3>1, <3>2, <3>3, <2>0, <2>2 DEF CopyTrue, Fresh, ETag, Candidate
  <2>7. NoneBefore'
    <3> SUFFICES ASSUME Looking PROVE NoneBefore'
      BY DEF NoneBefore, Looking, Write, request
    <3>1. \A r : Exists(r)' => Exists(r)
      BY <2>1 DEF Write, Exists, Node, TypeOK
    <3> QED BY <3>1, <2>1 DEF NoneBefore, Order, Write, request, Candidates, Candidate
  <2>8. MetaKnown'
    <3> SUFFICES ASSUME pc = "read" PROVE MetaKnown'
      BY DEF MetaKnown, Write, request
    <3>1. UNCHANGED <<meta, place, index>>
      BY DEF Write, request
    <3>2. meta \in Versions /\ meta.mtime \in Int /\ LastModified(meta) \in Int
            /\ LastModified(meta) <= meta.mtime
      BY SecondBefore DEF Indexed, Versions, LastModified
    <3>3. Known(ETag(meta), meta.mtime) /\ Known(ETag(meta), LastModified(meta))
      BY <2>1, <3>2 DEF Order, MetaKnown, Known, TypeOK
    <3>4. ASSUME NEW k, First(place, k)'
          PROVE  \/ Candidate(place, k) = Target
                 \/ FreshNow(Node(Candidate(place, k))', ETag(meta),
                             LastModified(meta))
      <4>1. PICK q : q = place
        OBVIOUS
      <4>2. First(q, k)'
        BY <3>1, <3>4, <4>1
      <4>3. CASE First(q, k) /\ Node(Candidate(q, k))' = Node(Candidate(q, k))
        <5>1. Node(Candidate(place, k))' = Node(Candidate(place, k))
          BY <4>1, <4>3, <3>1 DEF Candidate
        <5>2. \/ Candidate(place, k) = Target
              \/ Fresh(Node(Candidate(place, k)), ETag(meta), LastModified(meta))
          BY <4>1, <4>3, <2>1 DEF Order, MetaKnown
        <5> QED BY <5>1, <5>2, <2>10
      <4>4. CASE Node(Candidate(q, k))' = v
        <5>1. Node(Candidate(place, k))' = v
          BY <4>1, <4>4, <3>1 DEF Candidate
        <5> QED BY <5>1, <3>2, <3>3, <2>4
      <4> QED BY <4>2, <4>3, <4>4, WriteFirst
    <3> QED BY <3>1, <3>2, <3>3, <3>4, <2>0, <2>2
            DEF MetaKnown, Fresh, ETag, Candidate, Target, LastModified
  <2> QED BY <2>5, <2>6, <2>7, <2>8 DEF Order
<1> QED BY <1>1, <1>2, <1>3, <1>4

LEMMA DeleteIInv == ASSUME IInv, NEW p \in Files, Delete(p) PROVE IInv'
<1> USE DEF IInv
<1>1. TypeOK'
  <2>1. disk' \in [Files -> Versions \cup {Gone}]
    BY DEF Delete, TypeOK
  <2>2. newest' \in 0 .. MaxTime
    BY StaticFilesAssumption DEF Delete, Disorder, TypeOK, history
  <2>3. steady' \in BOOLEAN
    BY DEF Delete
  <2>4. orderly' \in BOOLEAN /\ spaced' \in BOOLEAN
    BY ZenonT(30) DEF Delete, Disorder, TypeOK, history
  <2> QED BY <2>1, <2>2, <2>3, <2>4 DEF Delete, TypeOK, request
<1>2. Placed' /\ Indexed' /\ (spaced' => orderly')
  BY DEF Delete, Disorder, Placed, Indexed, request, history, Candidates
<1>3. NotModifiedIsTrue' /\ NotModifiedSinceIsTrue'
  BY DEF Delete, Disorder, NotModifiedIsTrue, NotModifiedSinceIsTrue, request, history
<1>4. ASSUME orderly' PROVE Order'
  <2>1. orderly /\ Order /\ ~Hides(p) /\ UNCHANGED <<newest, spaced>>
    BY <1>4 DEF Delete, Disorder, history
  <2>2. \A e, t : Known(e, t) => Known(e, t)'
    BY <2>1 DEF Known
  <2>3. \A r : Exists(r)' => Exists(r) /\ Node(r)' = Node(r)
    BY StaticFilesAssumption DEF Delete, Exists, Node, TypeOK
  <2>4. DiskKnown'
    BY <2>1, <2>2, <2>3 DEF DiskKnown, Order, ETag
  <2>5. CopyTrue'
    <3> SUFFICES ASSUME copy.url \in Urls PROVE CopyTrue'
      BY DEF CopyTrue, Delete
    <3>0. PICK q : q = SafePath(copy.url)
      OBVIOUS
    <3>1. \A k : First(q, k)' =>
            First(q, k) /\ Node(Candidate(q, k))' = Node(Candidate(q, k))
      BY <2>1, DeleteFirst
    <3> QED BY <3>0, <3>1, <2>1, <2>2
            DEF CopyTrue, Order, Delete, Fresh, ETag, Candidate
  <2>6. NoneBefore'
    BY <2>1, <2>3 DEF NoneBefore, Looking, Order, Delete, request, Candidates, Candidate
  <2>7. MetaKnown'
    <3>0. PICK q : q = place
      OBVIOUS
    <3>1. \A k : First(q, k)' =>
            First(q, k) /\ Node(Candidate(q, k))' = Node(Candidate(q, k))
      BY <2>1, DeleteFirst
    <3> QED BY <3>0, <3>1, <2>1, <2>2
            DEF MetaKnown, Order, Delete, request, Fresh, ETag, Candidate, Target,
                LastModified
  <2> QED BY <2>4, <2>5, <2>6, <2>7 DEF Order
<1> QED BY <1>1, <1>2, <1>3, <1>4

-----------------------------------------------------------------------------
LEMMA NextIInv == IInv /\ [Next]_vars => IInv'
<1> SUFFICES ASSUME IInv, [Next]_vars PROVE IInv'
  OBVIOUS
<1>1. CASE UNCHANGED vars
  <2>1. UNCHANGED <<disk, history, copy, request, autoindex, steady>>
    BY <1>1 DEF vars, history, request
  <2>2. TypeOK' /\ Placed' /\ Indexed' /\ NotModifiedIsTrue' /\ NotModifiedSinceIsTrue'
        /\ (spaced' => orderly')
    BY <2>1 DEF IInv, TypeOK, Placed, Indexed, NotModifiedIsTrue, NotModifiedSinceIsTrue,
                request, history, Candidates
  <2>3. ASSUME orderly' PROVE Order'
    <3>1. Order
      BY <2>1, <2>3 DEF IInv, history
    <3>2. NoneBefore' /\ MetaKnown'
      BY <2>1, <3>1, SameDisk, SameHistory
         DEF Order, NoneBefore, MetaKnown, Looking, request, Candidates, Candidate,
             Target, Fresh, ETag, LastModified
    <3> QED BY <2>1, <3>1, <3>2, SameHistory, SameCopy DEF Order
  <2> QED BY <2>2, <2>3 DEF IInv
<1>2. CASE \E u \in Urls, m \in {"GET", "HEAD", "POST"},
              validators \in SUBSET {"if_none_match", "if_modified_since"} :
             Ask(u, m, validators)
  BY <1>2, AskIInv
<1>3. CASE Serve
  BY <1>3, ResolveIInv, TryIndexIInv, StatIInv, ReadIInv DEF Serve
<1>4. CASE Finish
  BY <1>4, FinishIInv
<1>5. CASE \E p \in Files : Delete(p) \/ \E v \in Versions : Write(p, v)
  BY <1>5, DeleteIInv, WriteIInv
<1> QED BY <1>1, <1>2, <1>3, <1>4, <1>5 DEF Next

\* The invariant of the static file server, for any directories and files.
THEOREM StaticFilesInvariant == Spec => []IInv
BY InitIInv, NextIInv, PTL DEF Spec

\* Types, and that a request is only answered from below the root directory,
\* whatever path it asks for (StaticFileServer::safe_path).
THEOREM TypeCorrect == Spec => []TypeOK
<1>1. IInv => TypeOK
  BY DEF IInv
<1> QED BY <1>1, StaticFilesInvariant, PTL

\* While every version is of a later second than all before it, a 304 is true:
\* the client's copy has the content of the file (serve_file), whatever is
\* replaced between metadata and read and whichever index file answers.
THEOREM NotModifiedMeansSame == Spec => []NotModifiedIsTrue
<1>1. IInv => NotModifiedIsTrue
  BY DEF IInv
<1> QED BY <1>1, StaticFilesInvariant, PTL

\* While every version is newer than all before it, by less than a second too,
\* a 304 for If-Modified-Since alone is true (serve_file).
THEOREM NotModifiedSinceMeansSame == Spec => []NotModifiedSinceIsTrue
<1>1. IInv => NotModifiedSinceIsTrue
  BY DEF IInv
<1> QED BY <1>1, StaticFilesInvariant, PTL

-----------------------------------------------------------------------------
(* Requests that are not disturbed                                         *)

\* What a request knows of the file its path stands for, if no file has changed
\* since it began.
Seen ==
  /\ pc \in {"resolve", "index", "stat", "read"} => method \in {"GET", "HEAD"}
  /\ pc = "read" => method = "GET"
  /\ steady =>
       /\ pc = "index" => \A l \in DOMAIN IndexFiles :
                            l < index => ~Exists(Candidate(place, l))
       /\ pc \in {"stat", "read"} => First(place, index)
       /\ pc = "read" => meta = Node(Target)

SInv == IInv /\ Seen /\ SteadyIsServed

\* The file a path stands for is that of its first candidate.
LEMMA ServedIsFirst ==
  ASSUME NEW q
  PROVE  /\ \A k : First(q, k) => Served(q) = Node(Candidate(q, k)) /\ Served(q) # Gone
         /\ (\A k \in Candidates(q) : ~Exists(Candidate(q, k))) => Served(q) = Gone
<1>1. Candidates(q) \subseteq Nat
  BY StaticFilesAssumption DEF Candidates
<1>2. PICK found : found = {k \in Candidates(q) : Exists(Candidate(q, k))}
  OBVIOUS
<1>3. ASSUME NEW k, First(q, k)
      PROVE  Served(q) = Node(Candidate(q, k)) /\ Served(q) # Gone
  <2>1. k \in found /\ \A l \in found : k <= l
    BY <1>1, <1>2, <1>3 DEF First
  <2>2. PICK j : j = CHOOSE i \in found : \A l \in found : i <= l
    OBVIOUS
  <2>3. j \in found /\ \A l \in found : j <= l
    BY <2>1, <2>2
  <2>4. j = k
    BY <1>1, <1>2, <2>1, <2>3
  <2>5. Served(q) = Node(Candidate(q, k))
    BY <1>2, <2>1, <2>2, <2>4 DEF Served
  <2> QED BY <1>2, <2>1, <2>5 DEF Exists
<1>4. ASSUME \A k \in Candidates(q) : ~Exists(Candidate(q, k)) PROVE Served(q) = Gone
  <2>1. found = {}
    BY <1>2, <1>4
  <2> QED BY <1>2, <2>1 DEF Served
<1> QED BY <1>3, <1>4

LEMMA SameServed ==
  ASSUME UNCHANGED disk, NEW q
  PROVE  Served(q)' = Served(q)
<1>1. PICK found : found = {k \in Candidates(q) : Exists(Candidate(q, k))}
  OBVIOUS
<1>2. \A p : Node(p)' = Node(p) /\ (Exists(p)' <=> Exists(p))
  BY SameDisk
<1>3. {k \in Candidates(q) : Exists(Candidate(q, k))'} = found
  BY <1>1, <1>2
<1>4. PICK k : k = CHOOSE j \in found : \A l \in found : j <= l
  OBVIOUS
<1>5. Served(q) = IF found = {} THEN Gone ELSE Node(Candidate(q, k))
  BY <1>1, <1>4 DEF Served
<1>6. Served(q)' = IF found = {} THEN Gone ELSE Node(Candidate(q, k))'
  <2>1. found = {i \in Candidates(q)' : Exists(Candidate(q, i))'}
    BY <1>3 DEF Candidates
  <2> QED BY <1>4, <2>1 DEF Served
<1> QED BY <1>2, <1>5, <1>6

\* What is known of the request after a step that does not end it; and the end
\* of it with the file it stands for.
LEMMA AskSInv ==
  ASSUME SInv, NEW u \in Urls, NEW m \in {"GET", "HEAD", "POST"}, NEW vs, Ask(u, m, vs)
  PROVE  Seen' /\ SteadyIsServed'
<1>1. /\ place' = SafePath(u) /\ method' = m /\ UNCHANGED <<disk, steady>>
      /\ \/ pc' = "resolve" /\ m # "POST"
         \/ /\ pc' = "done" /\ answer' = "backend"
            /\ m = "POST" \/ SafePath(u) = NoPath
  BY DEF Ask, End, history
<1>2. Served(NoPath) = Gone
  <2>1. NoPath \notin Dirs /\ Candidates(NoPath) = {1} /\ \A k : Candidate(NoPath, k) = NoPath
    BY StaticFilesAssumption DEF Candidates, Candidate
  <2>2. ~Exists(NoPath)
    BY StaticFilesAssumption DEF Exists, Node
  <2> QED BY <2>1, <2>2, ServedIsFirst
<1>3. Seen'
  BY <1>1 DEF Seen
<1>4. SteadyIsServed'
  <2>1. CASE pc' = "resolve"
    BY <2>1 DEF SteadyIsServed
  <2>2. CASE /\ pc' = "done" /\ answer' = "backend"
             /\ method' = "POST" \/ place' = NoPath
    <3>1. place' = NoPath => Served(place)' = Gone
      <4>1. Served(NoPath)' = Gone
        BY <1>1, <1>2, SameServed
      <4> QED BY <4>1 DEF Served
    <3> QED BY <2>2, <3>1 DEF SteadyIsServed
  <2> QED BY <1>1, <2>1, <2>2
<1> QED BY <1>3, <1>4

\* The end of a request that knows its file.
LEMMA ServeEnds ==
  ASSUME UNCHANGED <<disk, place, method, autoindex>>, pc' = "done",
         \/ /\ answer' = "listing"
            /\ autoindex /\ place \in Dirs /\ Served(place) = Gone
         \/ /\ answer' = "backend"
            /\ \/ Served(place) = Gone
               \/ Served(place).content = Unreadable /\ method = "GET"
         \/ /\ answer' \in {"304", "200"}
            /\ Served(place) # Gone /\ meta' = Served(place)
            /\ answer' = "200" /\ method = "GET" =>
                 /\ copy'.content = Served(place).content
                 /\ copy'.etag = ETag(Served(place))
  PROVE  SteadyIsServed'
<1>1. PICK p : p = place
  OBVIOUS
<1>2. Served(place)' = Served(place)
  <2>1. Served(p)' = Served(p)
    BY SameServed
  <2> QED BY <1>1, <2>1 DEF Served
<1>3. PICK file : file = Served(place)
  OBVIOUS
<1> QED BY <1>2, <1>3 DEF SteadyIsServed, ETag

LEMMA ResolveSInv == ASSUME SInv, Resolve PROVE Seen' /\ SteadyIsServed'
<1>1. /\ pc = "resolve" /\ UNCHANGED <<disk, place, method, autoindex, steady>>
      /\ method \in {"GET", "HEAD"}
  BY DEF Resolve, SInv, Seen
<1>2. place \notin Dirs => Candidates(place) = {1} /\ \A k : Candidate(place, k) = place
  BY DEF Candidates, Candidate
<1>3. CASE ~Exists(place)
  <2>1. pc' = "done" /\ answer' = "backend"
    BY <1>3 DEF Resolve, End
  <2>2. place \notin Dirs
    BY <1>3, StaticFilesAssumption DEF Exists, Node
  <2>3. Served(place) = Gone
    BY <1>2, <1>3, <2>2, ServedIsFirst
  <2> QED BY <1>1, <2>1, <2>3, ServeEnds DEF Seen
<1>4. CASE Exists(place)
  <2>1. index' = 1 /\ pc' = IF place \in Dirs THEN "index" ELSE "stat"
    BY <1>4 DEF Resolve
  <2>2. place \notin Dirs => First(place, 1)
    BY <1>2, <1>4 DEF First
  <2>3. place \notin Dirs => First(place, index)'
    <3>1. \A q, k : First(q, k)' <=> First(q, k)
      BY <1>1, SameDisk
    <3> QED BY <1>1, <2>1, <2>2, <3>1 DEF First
  <2>4. \A l \in DOMAIN IndexFiles : ~(l < index')
    BY <2>1, StaticFilesAssumption
  <2> QED BY <1>1, <2>1, <2>3, <2>4 DEF Seen, SteadyIsServed
<1> QED BY <1>3, <1>4

LEMMA TryIndexSInv == ASSUME SInv, TryIndex PROVE Seen' /\ SteadyIsServed'
<1>1. /\ pc = "index" /\ UNCHANGED <<disk, place, method, autoindex, steady>>
      /\ method \in {"GET", "HEAD"} /\ place \in Dirs
      /\ Candidates(place) = DOMAIN IndexFiles
      /\ index \in 1 .. Len(IndexFiles) + 1
  BY DEF TryIndex, SInv, Seen, IInv, Indexed, TypeOK, Candidates
<1>2. steady => \A l \in DOMAIN IndexFiles : l < index => ~Exists(Candidate(place, l))
  BY <1>1 DEF SInv, Seen
<1>3. DOMAIN IndexFiles = 1 .. Len(IndexFiles) /\ Len(IndexFiles) \in Nat
  BY StaticFilesAssumption
<1>4. CASE index \notin DOMAIN IndexFiles
  <2>1. pc' = "done" /\ answer' = IF autoindex THEN "listing" ELSE "backend"
    BY <1>4 DEF TryIndex, End
  <2>2. steady => Served(place) = Gone
    <3>1. \A l \in DOMAIN IndexFiles : l < index
      BY <1>1, <1>3, <1>4
    <3> QED BY <1>1, <1>2, <3>1, ServedIsFirst
  <2>3. CASE steady
    BY <1>1, <2>1, <2>2, <2>3, ServeEnds DEF Seen
  <2>4. CASE ~steady
    BY <1>1, <2>1, <2>4 DEF Seen, SteadyIsServed
  <2> QED BY <2>3, <2>4
<1>5. CASE index \in DOMAIN IndexFiles /\ Exists(Candidate(place, index))
  <2>1. pc' = "stat" /\ UNCHANGED index
    BY <1>5 DEF TryIndex
  <2>2. steady => First(place, index)
    BY <1>1, <1>2, <1>5 DEF First
  <2>3. steady => First(place, index)'
    <3>1. \A q, k : First(q, k)' <=> First(q, k)
      BY <1>1, SameDisk
    <3> QED BY <1>1, <2>1, <2>2, <3>1 DEF First
  <2> QED BY <1>1, <2>1, <2>3 DEF Seen, SteadyIsServed
<1>6. CASE index \in DOMAIN IndexFiles /\ ~Exists(Candidate(place, index))
  <2>1. pc' = "index" /\ index' = index + 1
    BY <1>1, <1>6 DEF TryIndex
  <2>2. steady => \A l \in DOMAIN IndexFiles : l < index + 1 => ~Exists(Candidate(place, l))
    BY <1>1, <1>2, <1>3, <1>6
  <2>3. \A l : Exists(Candidate(place, l))' <=> Exists(Candidate(place, l))
    BY <1>1 DEF Exists, Node, Candidate
  <2> QED BY <1>1, <2>1, <2>2, <2>3 DEF Seen, SteadyIsServed
<1> QED BY <1>4, <1>5, <1>6

LEMMA StatSInv == ASSUME SInv, Stat PROVE Seen' /\ SteadyIsServed'
<1>1. /\ pc = "stat" /\ UNCHANGED <<disk, place, method, autoindex, steady, index>>
      /\ method \in {"GET", "HEAD"} /\ meta' = Node(Target)
  BY DEF Stat, SInv, Seen
<1>2. steady => /\ First(place, index) /\ Exists(Target)
                /\ Served(place) = Node(Target) /\ Served(place) # Gone
  BY <1>1, ServedIsFirst DEF SInv, Seen, First, Target
<1>3. CASE pc' = "done"
  <2>1. steady => answer' = "304" \/ (answer' = "200" /\ method = "HEAD")
    BY <1>2, <1>3 DEF Stat, End
  <2>2. Seen'
    BY <1>3 DEF Seen
  <2>3. CASE steady
    BY <1>1, <1>2, <1>3, <2>1, <2>2, <2>3, ServeEnds
  <2>4. CASE ~steady
    BY <1>1, <2>2, <2>4 DEF SteadyIsServed
  <2> QED BY <2>3, <2>4
<1>4. CASE pc' = "read"
  <2>1. method = "GET"
    BY <1>1, <1>4 DEF Stat, End
  <2>2. steady => First(place, index)' /\ meta' = Node(Target)'
    <3>1. \A q, k : First(q, k)' <=> First(q, k)
      BY <1>1, SameDisk
    <3>2. Node(Target)' = Node(Target)
      BY <1>1 DEF Node, Target, Candidate
    <3> QED BY <1>1, <1>2, <3>1, <3>2 DEF First
  <2> QED BY <1>1, <1>4, <2>1, <2>2 DEF Seen, SteadyIsServed
<1>5. pc' \in {"done", "read"}
  BY DEF Stat, End
<1> QED BY <1>3, <1>4, <1>5

LEMMA ReadSInv == ASSUME SInv, Read PROVE Seen' /\ SteadyIsServed'
<1>1. /\ pc = "read" /\ UNCHANGED <<disk, place, method, autoindex, steady, meta>>
      /\ method = "GET" /\ pc' = "done"
  BY DEF Read, End, SInv, Seen
<1>2. steady => /\ meta = Node(Target) /\ Exists(Target)
                /\ Served(place) = Node(Target) /\ Served(place) # Gone
  BY <1>1, ServedIsFirst DEF SInv, Seen, First, Target
<1>3. Seen'
  BY <1>1 DEF Seen
<1>4. CASE steady
  <2>1. CASE Node(Target).content # Unreadable
    <3>1. /\ answer' = "200" /\ copy'.content = Node(Target).content
          /\ copy'.etag = ETag(meta)
      BY <1>2, <1>4, <2>1 DEF Read, End
    <3> QED BY <1>1, <1>2, <1>3, <1>4, <3>1, ServeEnds
  <2>2. CASE Node(Target).content = Unreadable
    <3>1. answer' = "backend"
      BY <2>2 DEF Read, End
    <3> QED BY <1>1, <1>2, <1>3, <1>4, <2>2, <3>1, ServeEnds
  <2> QED BY <2>1, <2>2
<1>5. CASE ~steady
  BY <1>1, <1>3, <1>5 DEF SteadyIsServed
<1> QED BY <1>4, <1>5

LEMMA NextSInv == SInv /\ [Next]_vars => SInv'
<1> SUFFICES ASSUME SInv, [Next]_vars PROVE Seen' /\ SteadyIsServed'
  BY NextIInv DEF SInv
<1>1. CASE UNCHANGED vars
  <2>1. UNCHANGED <<disk, copy, pc, url, method, cond, place, index, meta, answer,
                    autoindex, steady>>
    BY <1>1 DEF vars, request
  <2>2. Seen'
    BY <2>1 DEF SInv, Seen, First, Candidates, Candidate, Exists, Node, Target
  <2>3. SteadyIsServed'
    <3>1. PICK p : p = place
      OBVIOUS
    <3>2. Served(place)' = Served(place)
      <4>1. Served(p)' = Served(p)
        BY <2>1, SameServed
      <4> QED BY <2>1, <3>1, <4>1 DEF Served
    <3> QED BY <2>1, <3>2 DEF SInv, SteadyIsServed, ETag
  <2> QED BY <2>2, <2>3
<1>2. CASE \E u \in Urls, m \in {"GET", "HEAD", "POST"},
              validators \in SUBSET {"if_none_match", "if_modified_since"} :
             Ask(u, m, validators)
  BY <1>2, AskSInv
<1>3. CASE Serve
  BY <1>3, ResolveSInv, TryIndexSInv, StatSInv, ReadSInv DEF Serve
<1>4. CASE Finish
  BY <1>4 DEF Finish, Seen, SteadyIsServed
<1>5. CASE \E p \in Files : Delete(p) \/ \E v \in Versions : Write(p, v)
  <2>1. UNCHANGED <<pc, method>> /\ (steady' => pc = "idle")
    BY <1>5 DEF Delete, Write, request
  <2> QED BY <2>1 DEF SInv, Seen, SteadyIsServed
<1> QED BY <1>1, <1>2, <1>3, <1>4, <1>5 DEF Next

\* A request during which no file changes is answered with what is there, for
\* any directories, files and index files (StaticFileServer::serve).
THEOREM UndisturbedIsServed == Spec => []SteadyIsServed
<1>1. Init => SInv
  BY InitIInv DEF Init, SInv, Seen, SteadyIsServed
<1>2. SInv => SteadyIsServed
  BY DEF SInv
<1> QED BY <1>1, <1>2, NextSInv, PTL DEF Spec
-----------------------------------------------------------------------------
(* The paths: induction, and what a fold does                              *)

\* A set of numbers has a least one.
LEMMA LeastNumber ==
  ASSUME NEW T \in SUBSET Nat, T # {}
  PROVE  \E m \in T : \A k \in T : m <= k
<1>1. PICK m \in T : \A k \in T : ~(<<k, m>> \in OpToRel(<, Nat))
  BY NatLessThanWellFounded, WFMin
<1>2. \A k \in T : k < m => <<k, m>> \in OpToRel(<, Nat)
  BY DEF OpToRel
<1>3. \A k \in T : ~(k < m)
  BY <1>1, <1>2, Zenon
<1> QED BY <1>3

\* Induction, for the members of a set.
LEMMA InductionOver ==
  ASSUME NEW T, 0 \in T, \A n \in Nat : n \in T => n + 1 \in T
  PROVE  \A n \in Nat : n \in T
<1> SUFFICES ASSUME NEW n \in Nat, n \notin T PROVE FALSE
  OBVIOUS
<1>1. PICK m \in Nat \ T : \A k \in Nat \ T : m <= k
  BY LeastNumber
<1>2. m # 0
  BY <1>1
<1>3. m - 1 \in Nat /\ m - 1 \in T
  BY <1>1, <1>2
<1> QED BY <1>1, <1>3

\* The greatest of a set of numbers that has one.
LEMMA MaxIs ==
  ASSUME NEW S \in SUBSET Int, NEW m \in S, \A k \in S : k <= m
  PROVE  Max(S) = m
<1>1. Max(S) \in S /\ \A y \in S : Max(S) >= y
  BY DEF Max
<1>2. PICK x \in S : x = Max(S)
  BY <1>1
<1>3. x \in Int /\ m \in Int /\ x >= m /\ x <= m
  BY <1>1, <1>2
<1> QED BY <1>2, <1>3

\* The fold over a sequence is a function of the sets of its indices; there is one.
LEMMA FoldExists ==
  ASSUME NEW c
  PROVE  \A n \in Nat : \E f : f = [s \in SUBSET (1 .. n) |->
           IF s = {} THEN Root ELSE Walk(f[s \ {Max(s)}], c[Max(s)])]
<1> DEFINE Is(f, n) == f = [s \in SUBSET (1 .. n) |->
             IF s = {} THEN Root ELSE Walk(f[s \ {Max(s)}], c[Max(s)])]
           T == {n \in Nat : \E f : Is(f, n)}
<1>1. 0 \in T
  <2> DEFINE f == [s \in SUBSET (1 .. 0) |-> Root]
  <2>1. \A s \in SUBSET (1 .. 0) : s = {}
    OBVIOUS
  <2>2. Is(f, 0)
    BY <2>1
  <2> QED BY <2>2
<1>2. ASSUME NEW n \in Nat, n \in T PROVE n + 1 \in T
  <2>1. PICK f : Is(f, n)
    BY <1>2
  <2> DEFINE g == [s \in SUBSET (1 .. n + 1) |->
               IF n + 1 \in s THEN Walk(f[s \ {n + 1}], c[n + 1]) ELSE f[s]]
  <2>2. ASSUME NEW s \in SUBSET (1 .. n + 1)
        PROVE  g[s] = IF s = {} THEN Root ELSE Walk(g[s \ {Max(s)}], c[Max(s)])
    <3>1. CASE n + 1 \in s
      <4>1. Max(s) = n + 1
        BY <3>1, MaxIs
      <4>2. s \ {n + 1} \in SUBSET (1 .. n) /\ s \ {n + 1} \in SUBSET (1 .. n + 1)
        OBVIOUS
      <4>3. g[s \ {n + 1}] = f[s \ {n + 1}]
        BY <4>2
      <4> QED BY <3>1, <4>1, <4>3
    <3>2. CASE n + 1 \notin s
      <4>1. s \in SUBSET (1 .. n)
        BY <3>2
      <4>2. g[s] = IF s = {} THEN Root ELSE Walk(f[s \ {Max(s)}], c[Max(s)])
        BY <2>1, <3>2, <4>1
      <4>3. s \ {Max(s)} \in SUBSET (1 .. n + 1) /\ n + 1 \notin s \ {Max(s)}
        BY <3>2
      <4>4. g[s \ {Max(s)}] = f[s \ {Max(s)}]
        BY <4>3
      <4> QED BY <4>2, <4>4
    <3> QED BY <3>1, <3>2
  <2> HIDE DEF g
  <2>3. g = [s \in SUBSET (1 .. n + 1) |-> g[s]]
    BY DEF g
  <2>4. Is(g, n + 1)
    BY <2>2, <2>3
  <2> QED BY <2>4
<1> HIDE DEF T
<1>3. \A n \in Nat : n \in T
  BY <1>1, <1>2, InductionOver
<1> QED BY <1>3 DEF T

\* The loop of safe_path, step by step.
LEMMA WalkSteps ==
  ASSUME NEW S, NEW c \in Seq(S)
  PROVE  \E g : /\ g[0] = Root
                /\ \A n \in 1 .. Len(c) : g[n] = Walk(g[n - 1], c[n])
                /\ FoldLeft(Walk, Root, c) = g[Len(c)]
<1> DEFINE Is(f) == f = [s \in SUBSET DOMAIN c |->
             IF s = {} THEN Root ELSE Walk(f[s \ {Max(s)}], c[Max(s)])]
<1>1. DOMAIN c = 1 .. Len(c) /\ Len(c) \in Nat
  OBVIOUS
<1>2. \E f : Is(f)
  <2> DEFINE D == 1 .. Len(c)
  <2>1. \E f : f = [s \in SUBSET D |->
                 IF s = {} THEN Root ELSE Walk(f[s \ {Max(s)}], c[Max(s)])]
    BY <1>1, FoldExists
  <2>2. D = DOMAIN c
    BY <1>1
  <2> HIDE DEF D
  <2> QED BY <2>1, <2>2
<1>3. PICK f : Is(f) /\ FoldLeft(Walk, Root, c) = f[DOMAIN c]
  BY <1>2 DEF FoldLeft, MapThenFoldSet
<1> DEFINE g == [n \in 0 .. Len(c) |-> f[1 .. n]]
<1>4. g[0] = Root
  <2>1. 1 .. 0 = {} /\ {} \in SUBSET DOMAIN c
    OBVIOUS
  <2>2. f[{}] = Root
    BY <1>3, <2>1
  <2> QED BY <1>1, <2>1, <2>2
<1>5. ASSUME NEW n \in 1 .. Len(c) PROVE g[n] = Walk(g[n - 1], c[n])
  <2>1. 1 .. n \in SUBSET DOMAIN c /\ 1 .. n # {}
    <3>1. n \in 1 .. n /\ \A k \in 1 .. n : k \in 1 .. Len(c)
      OBVIOUS
    <3> QED BY <1>1, <3>1
  <2>2. Max(1 .. n) = n
    <3>1. 1 .. n \in SUBSET Int /\ n \in 1 .. n /\ \A k \in 1 .. n : k <= n
      OBVIOUS
    <3> QED BY <3>1, MaxIs, Zenon
  <2>3. (1 .. n) \ {n} = 1 .. n - 1
    OBVIOUS
  <2>4. f[1 .. n] = Walk(f[1 .. n - 1], c[n])
    BY <1>3, <2>1, <2>2, <2>3
  <2> QED BY <1>1, <2>4
<1>6. FoldLeft(Walk, Root, c) = g[Len(c)]
  BY <1>1, <1>3
<1> QED BY <1>4, <1>5, <1>6
-----------------------------------------------------------------------------
(* Counting                                                                *)

LEMMA HeightSteps ==
  ASSUME NEW s, NEW i \in Nat
  PROVE  /\ Height(s, 0) = 0 /\ Height(s, i) \in Int
         /\ Height(s, i + 1) = IF IsParent(s, i + 1) THEN Height(s, i) - 1
                                                     ELSE Height(s, i) + 1
<1> DEFINE Parents(j) == {k \in 1 .. j : IsParent(s, k)}
<1>1. \A j \in Nat : IsFiniteSet(Parents(j)) /\ Cardinality(Parents(j)) \in Nat
  <2> SUFFICES ASSUME NEW j \in Nat
               PROVE  IsFiniteSet(Parents(j)) /\ Cardinality(Parents(j)) \in Nat
    OBVIOUS
  <2>1. IsFiniteSet(1 .. j) /\ Parents(j) \in SUBSET (1 .. j)
    BY FS_Interval
  <2> QED BY <2>1, FS_Subset, FS_CardinalityType
<1>2. \A j : Height(s, j) = j - 2 * Cardinality(Parents(j))
  BY DEF Height
<1>3. Cardinality(Parents(0)) = 0
  <2>1. Parents(0) = {}
    OBVIOUS
  <2> QED BY <2>1, FS_EmptySet
<1>4. CASE IsParent(s, i + 1)
  <2>1. Parents(i + 1) = Parents(i) \cup {i + 1} /\ i + 1 \notin Parents(i)
    BY <1>4
  <2>2. Cardinality(Parents(i + 1)) = Cardinality(Parents(i)) + 1
    BY <1>1, <2>1, FS_AddElement
  <2> HIDE DEF Parents
  <2> QED BY <1>1, <1>3, <1>4, <1>2, <2>2
<1>5. CASE ~IsParent(s, i + 1)
  <2>1. Parents(i + 1) = Parents(i)
    BY <1>5
  <2> HIDE DEF Parents
  <2> QED BY <1>1, <1>3, <1>5, <1>2, <2>1
<1> QED BY <1>4, <1>5

\* Without parents each step leads one deeper and every name stays.
LEMMA NamesStay ==
  ASSUME NEW s, NEW i \in Nat, \A k \in 1 .. i : ~IsParent(s, k)
  PROVE  /\ \A k \in 0 .. i : Height(s, k) = k
         /\ \A d \in 1 .. i : LastAt(s, i, d) = d
<1>1. ASSUME NEW k \in 0 .. i PROVE Height(s, k) = k
  <2>1. {j \in 1 .. k : IsParent(s, j)} = {}
    OBVIOUS
  <2> QED BY <2>1, FS_EmptySet DEF Height
<1>2. ASSUME NEW d \in 1 .. i PROVE LastAt(s, i, d) = d
  <2>1. {k \in 1 .. i : ~IsParent(s, k) /\ Height(s, k) = d} = {d}
    BY <1>1
  <2>2. Max({d}) = d
    BY MaxIs
  <2> QED BY <2>1, <2>2 DEF LastAt
<1> QED BY <1>1, <1>2

\* A name is the last one at its depth; nothing else changes.
LEMMA LastAtSteps ==
  ASSUME NEW s, NEW i \in Nat, NEW d
  PROVE  /\ IsParent(s, i + 1) \/ d # Height(s, i) + 1 => LastAt(s, i + 1, d) = LastAt(s, i, d)
         /\ ~IsParent(s, i + 1) /\ d = Height(s, i) + 1 => LastAt(s, i + 1, d) = i + 1
<1> DEFINE At(j) == {k \in 1 .. j : ~IsParent(s, k) /\ Height(s, k) = d}
<1>1. CASE IsParent(s, i + 1) \/ d # Height(s, i) + 1
  <2>1. ~(~IsParent(s, i + 1) /\ Height(s, i + 1) = d)
    BY <1>1, HeightSteps
  <2>2. At(i + 1) = At(i)
    BY <2>1
  <2> QED BY <1>1, <2>2 DEF LastAt
<1>2. CASE ~IsParent(s, i + 1) /\ d = Height(s, i) + 1
  <2>1. Height(s, i + 1) = d
    BY <1>2, HeightSteps
  <2>2. i + 1 \in At(i + 1) /\ (\A k \in At(i + 1) : k <= i + 1) /\ At(i + 1) \in SUBSET Int
    BY <1>2, <2>1
  <2>3. Max(At(i + 1)) = i + 1
    <3> HIDE DEF At
    <3> QED BY <2>2, MaxIs
  <2> QED BY <1>2, <2>3 DEF LastAt
<1> QED BY <1>1, <1>2

\* One step of the walk is one more step counted.
LEMMA TraceSteps ==
  ASSUME NEW s, NEW i \in Nat, NEW S, NEW r \in Seq(S), NEW x \in S,
         Trace(s, i) = r, NoPath \notin Seq(S), i + 1 > Len(Root), s[i + 1] = x
  PROVE  /\ Trace(s, i + 1) = Walk(r, x)
         /\ Walk(r, x) \in Seq(S)
            \/ (Walk(r, x) = NoPath /\ \E j \in 1 .. i + 1 : Height(s, j) < 0)
<1>0. r # NoPath
  OBVIOUS
<1>1. (\A j \in 1 .. i : ~(Height(s, j) < 0))
      /\ r = [d \in 1 .. Height(s, i) |-> s[LastAt(s, i, d)]]
  BY <1>0 DEF Trace
<1>2. Height(s, i) \in Nat
  <2>1. Height(s, i) \in Int /\ Height(s, 0) = 0
    BY HeightSteps
  <2>2. CASE i = 0
    BY <2>1, <2>2
  <2>3. CASE i # 0
    BY <1>1, <2>1, <2>3
  <2> QED BY <2>2, <2>3
<1>3. PICK h \in Nat : h = Height(s, i)
  BY <1>2
<1>4. Len(r) = h /\ \A d \in 1 .. h : r[d] = s[LastAt(s, i, d)]
  BY <1>1, <1>3
<1>5. CASE x # Up
  <2>1. ~IsParent(s, i + 1) /\ Height(s, i + 1) = h + 1
    BY <1>3, <1>5, HeightSteps DEF IsParent
  <2>2. \A j \in 1 .. i + 1 : ~(Height(s, j) < 0)
    BY <1>1, <1>3, <2>1
  <2>3. \A d \in 1 .. h : LastAt(s, i + 1, d) = LastAt(s, i, d)
    BY <1>3, LastAtSteps
  <2>4. LastAt(s, i + 1, h + 1) = i + 1
    BY <1>3, <2>1, LastAtSteps
  <2>5. Trace(s, i + 1) = [d \in 1 .. h + 1 |-> s[LastAt(s, i + 1, d)]]
    BY <2>1, <2>2 DEF Trace
  <2>6. [d \in 1 .. h + 1 |-> s[LastAt(s, i + 1, d)]] = Append(r, x)
    <3>1. \A d \in 1 .. h + 1 : s[LastAt(s, i + 1, d)] = Append(r, x)[d]
      <4> SUFFICES ASSUME NEW d \in 1 .. h + 1
                   PROVE  s[LastAt(s, i + 1, d)] = Append(r, x)[d]
        OBVIOUS
      <4>1. CASE d \in 1 .. h
        BY <1>4, <2>3, <4>1
      <4>2. CASE d = h + 1
        BY <1>4, <2>4, <4>2
      <4>3. d \in 1 .. h \/ d = h + 1
        OBVIOUS
      <4> QED BY <4>1, <4>2, <4>3, Zenon
    <3>2. Append(r, x) = [d \in 1 .. h + 1 |-> Append(r, x)[d]]
      <4>1. PICK a \in Seq(S) : a = Append(r, x) /\ Len(a) = h + 1
        BY <1>4, AppendProperties
      <4>2. a = [d \in 1 .. h + 1 |-> a[d]]
        BY <4>1, LenProperties
      <4> QED BY <4>1, <4>2
    <3> QED BY <3>1, <3>2
  <2>7. Walk(r, x) = Append(r, x)
    BY <1>0, <1>5 DEF Walk
  <2>8. Append(r, x) \in Seq(S)
    BY AppendProperties
  <2> QED BY <2>5, <2>6, <2>7, <2>8, Zenon
<1>6. CASE x = Up
  <2>1. IsParent(s, i + 1) /\ Height(s, i + 1) = h - 1
    BY <1>3, <1>6, HeightSteps DEF IsParent
  <2>2. CASE h = 0
    <3>1. i + 1 \in 1 .. i + 1 /\ Height(s, i + 1) < 0
      BY <2>1, <2>2
    <3>2. Trace(s, i + 1) = NoPath
      BY <3>1 DEF Trace
    <3>3. r = <<>>
      BY <1>4, <2>2
    <3>4. Walk(r, x) = NoPath
      BY <1>0, <1>6, <3>3 DEF Walk
    <3> QED BY <3>1, <3>2, <3>4, Zenon
  <2>3. CASE h # 0
    <3>1. \A j \in 1 .. i + 1 : ~(Height(s, j) < 0)
      BY <1>1, <1>3, <2>1, <2>3
    <3>2. Trace(s, i + 1) = [d \in 1 .. h - 1 |-> s[LastAt(s, i + 1, d)]]
      BY <2>1, <3>1 DEF Trace
    <3>3. \A d \in 1 .. h - 1 : LastAt(s, i + 1, d) = LastAt(s, i, d)
      BY <2>1, LastAtSteps
    <3>4. [d \in 1 .. h - 1 |-> s[LastAt(s, i + 1, d)]] = [d \in 1 .. h - 1 |-> r[d]]
      BY <1>4, <3>3
    <3>5. Front(r) = [d \in 1 .. h - 1 |-> r[d]]
      BY <1>4, <2>3 DEF Front
    <3>6. r # <<>>
      BY <1>4, <2>3
    <3>7. Front(r) \in Seq(S)
      <4>1. \A d \in 1 .. h - 1 : r[d] \in S
        BY <1>4, LenProperties
      <4> QED BY <1>4, <2>3, <4>1, SubSeqProperties DEF Front
    <3>8. Walk(r, x) = Front(r)
      BY <1>0, <1>6, <3>6 DEF Walk
    <3> QED BY <3>2, <3>4, <3>5, <3>7, <3>8, Zenon
  <2> QED BY <2>2, <2>3
<1> QED BY <1>5, <1>6
\* The walk leads where the count says.
LEMMA WalkIsTrace ==
  ASSUME NEW c \in Seq(STRING)
  PROVE  /\ FoldLeft(Walk, Root, c) = Trace(Root \o c, Len(Root) + Len(c))
         /\ FoldLeft(Walk, Root, c) \in Seq(STRING) \cup {NoPath}
<1> DEFINE R == Len(Root)
           s == Root \o c
<1>1. /\ Root \in Seq(STRING) /\ NoPath \notin Seq(STRING) /\ R \in Nat /\ Len(c) \in Nat
      /\ \A k \in 1 .. R : s[k] = Root[k]
      /\ \A n \in 1 .. Len(c) : s[R + n] = c[n] /\ c[n] \in STRING
  <2>1. Root \in Seq(STRING) /\ NoPath \notin Seq(STRING)
    BY RootAssumption
  <2>2. R \in Nat /\ Len(c) \in Nat /\ \A n \in 1 .. Len(c) : c[n] \in STRING
    BY <2>1, LenProperties
  <2>3. \A i \in 1 .. R + Len(c) : s[i] = IF i <= R THEN Root[i] ELSE c[i - R]
    BY <2>1, ConcatProperties
  <2>4. \A n \in 1 .. Len(c) : s[R + n] = c[n]
    <3> SUFFICES ASSUME NEW n \in 1 .. Len(c) PROVE s[R + n] = c[n]
      OBVIOUS
    <3> HIDE DEF R, s
    <3>1. R + n \in 1 .. R + Len(c) /\ ~(R + n <= R) /\ (R + n) - R = n
      BY <2>2
    <3> QED BY <2>3, <3>1
  <2>5. \A k \in 1 .. R : s[k] = Root[k]
    <3> HIDE DEF R, s
    <3> QED BY <2>2, <2>3
  <2> QED BY <2>1, <2>2, <2>4, <2>5
<1>2. PICK g : /\ g[0] = Root
               /\ \A n \in 1 .. Len(c) : g[n] = Walk(g[n - 1], c[n])
               /\ FoldLeft(Walk, Root, c) = g[Len(c)]
  BY WalkSteps
<1> DEFINE Fell(i) == \E j \in 1 .. i : Height(s, j) < 0
           T == {n \in Nat : n <= Len(c) =>
                   /\ g[n] = Trace(s, R + n)
                   /\ g[n] \in Seq(STRING) \/ (g[n] = NoPath /\ Fell(R + n))}
<1> HIDE DEF R, s
<1>3. 0 \in T
  <2>1. \A k \in 1 .. R : ~IsParent(s, k)
    BY <1>1 DEF IsParent, R
  <2>2. (\A k \in 0 .. R : Height(s, k) = k) /\ (\A d \in 1 .. R : LastAt(s, R, d) = d)
    BY <1>1, <2>1, NamesStay
  <2>3. Trace(s, R) = [d \in 1 .. R |-> s[LastAt(s, R, d)]]
    BY <1>1, <2>2 DEF Trace
  <2>4. [d \in 1 .. R |-> s[LastAt(s, R, d)]] = [d \in 1 .. R |-> Root[d]]
    BY <1>1, <2>2
  <2>5. Root = [d \in 1 .. R |-> Root[d]]
    BY <1>1, LenProperties DEF R
  <2>6. R + 0 = R
    BY <1>1
  <2> QED BY <1>1, <1>2, <2>3, <2>4, <2>5, <2>6
<1>4. ASSUME NEW n \in Nat, n \in T PROVE n + 1 \in T
  <2> SUFFICES ASSUME n + 1 <= Len(c)
               PROVE  /\ g[n + 1] = Trace(s, R + (n + 1))
                      /\ g[n + 1] \in Seq(STRING)
                         \/ (g[n + 1] = NoPath /\ Fell(R + (n + 1)))
    OBVIOUS
  <2>1. /\ g[n] = Trace(s, R + n)
        /\ g[n] \in Seq(STRING) \/ (g[n] = NoPath /\ Fell(R + n))
    BY <1>1, <1>4
  <2>2. g[n + 1] = Walk(g[n], c[n + 1])
    BY <1>1, <1>2
  <2>3. PICK x \in STRING : x = c[n + 1] /\ x = s[R + (n + 1)]
    <3>1. n + 1 \in 1 .. Len(c)
      BY <1>1
    <3> QED BY <1>1, <3>1, Zenon
  <2>4. PICK i \in Nat : i = R + n /\ i + 1 = R + (n + 1) /\ i + 1 > R
    BY <1>1
  <2>5. CASE g[n] = NoPath
    <3>1. Fell(i)
      BY <1>1, <2>1, <2>4, <2>5
    <3>2. Fell(i + 1)
      BY <3>1
    <3>3. Trace(s, i + 1) = NoPath
      BY <3>2 DEF Trace
    <3> QED BY <2>2, <2>4, <2>5, <3>2, <3>3 DEF Walk
  <2>6. CASE g[n] # NoPath
    <3>1. PICK r \in Seq(STRING) : r = g[n]
      BY <2>1, <2>6
    <3>2. /\ Trace(s, i + 1) = Walk(r, x)
          /\ Walk(r, x) \in Seq(STRING) \/ (Walk(r, x) = NoPath /\ Fell(i + 1))
      <4>1. Trace(s, i) = r /\ i + 1 > Len(Root) /\ s[i + 1] = x
        BY <2>1, <2>3, <2>4, <3>1 DEF R
      <4>2. PICK S : S = STRING
        OBVIOUS
      <4>3. r \in Seq(S) /\ x \in S /\ NoPath \notin Seq(S)
        BY <1>1, <4>2, Zenon
      <4>4. /\ Trace(s, i + 1) = Walk(r, x)
            /\ Walk(r, x) \in Seq(S)
               \/ (Walk(r, x) = NoPath /\ \E j \in 1 .. i + 1 : Height(s, j) < 0)
        <5>1. \A ii \in Nat, rr \in Seq(S), xx \in S :
                Trace(s, ii) = rr /\ ii + 1 > Len(Root) /\ s[ii + 1] = xx =>
                  /\ Trace(s, ii + 1) = Walk(rr, xx)
                  /\ Walk(rr, xx) \in Seq(S)
                     \/ (Walk(rr, xx) = NoPath /\ \E j \in 1 .. ii + 1 : Height(s, j) < 0)
          BY <4>3, TraceSteps
        <5> QED BY <4>1, <4>3, <5>1, Zenon
      <4> QED BY <4>2, <4>4, Zenon
    <3>3. g[n + 1] = Walk(r, x)
      BY <2>2, <2>3, <3>1
    <3> QED BY <2>4, <3>2, <3>3
  <2> QED BY <2>5, <2>6
<1>5. \A n \in Nat : n \in T
  <2> HIDE DEF T
  <2> QED BY <1>3, <1>4, InductionOver
<1> QED BY <1>1, <1>2, <1>5 DEF R, s

\* What safe_path makes of a path is where it leads.
LEMMA SafePathIsLeadsTo ==
  ASSUME NEW path, Clean(path) \in Seq(STRING)
  PROVE  SafePath(path) = LeadsTo(path)
<1>1. PICK c \in Seq(STRING) : c = Clean(path)
  OBVIOUS
<1>2. Len(Root \o c) = Len(Root) + Len(c)
  BY RootAssumption, ConcatProperties
<1>3. FoldLeft(Walk, Root, c) = Trace(Root \o c, Len(Root \o c))
  BY <1>2, WalkIsTrace
<1> QED BY <1>1, <1>3 DEF SafePath, LeadsTo
-----------------------------------------------------------------------------
(* The components of a path                                                *)

\* A sequence of sequences is put together one after the other.
LEMMA FlattenSteps ==
  ASSUME NEW S, NEW q \in Seq(Seq(S))
  PROVE  \E f : /\ f[0] = <<>>
                /\ \A i \in 0 .. Len(q) : f[i] \in Seq(S)
                /\ \A i \in 1 .. Len(q) : f[i] = f[i - 1] \o q[i]
                /\ FlattenSeq(q) = f[Len(q)]
<1> DEFINE Is(f, n) == f = [i \in 1 .. n |-> IF i = 1 THEN q[i] ELSE f[i - 1] \o q[i]]
           T == {n \in Nat : \E f : Is(f, n)}
           N == Len(q)
<1>1. N \in Nat /\ \A i \in 1 .. N : q[i] \in Seq(S)
  BY LenProperties
<1>2. 0 \in T
  <2> DEFINE f == [i \in 1 .. 0 |-> q[i]]
  <2>1. Is(f, 0)
    OBVIOUS
  <2> QED BY <2>1
<1>3. ASSUME NEW n \in Nat, n \in T PROVE n + 1 \in T
  <2>1. PICK f : Is(f, n)
    BY <1>3
  <2> DEFINE h == [i \in 1 .. n + 1 |->
               IF i = 1 THEN q[i] ELSE f[i - 1] \o q[i]]
  <2>2. ASSUME NEW i \in 1 .. n + 1
        PROVE  h[i] = IF i = 1 THEN q[i] ELSE h[i - 1] \o q[i]
    <3>1. CASE i = 1
      BY <3>1
    <3>2. CASE i # 1
      <4>1. i - 1 \in 1 .. n /\ i - 1 \in 1 .. n + 1
        BY <3>2
      <4>2. f[i - 1] = IF i - 1 = 1 THEN q[i - 1] ELSE f[i - 1 - 1] \o q[i - 1]
        BY <2>1, <4>1
      <4>3. h[i - 1] = IF i - 1 = 1 THEN q[i - 1] ELSE f[i - 1 - 1] \o q[i - 1]
        BY <4>1
      <4>4. h[i - 1] = f[i - 1]
        BY <4>2, <4>3
      <4>5. h[i] = f[i - 1] \o q[i]
        BY <3>2
      <4> QED BY <3>2, <4>4, <4>5
    <3> QED BY <3>1, <3>2
  <2> HIDE DEF h
  <2>3. h = [i \in 1 .. n + 1 |-> h[i]]
    BY DEF h
  <2>4. Is(h, n + 1)
    BY <2>2, <2>3
  <2>5. \E e : Is(e, n + 1)
    BY <2>4, Zenon
  <2>6. n + 1 \in Nat
    OBVIOUS
  <2> QED BY <2>5, <2>6, Zenon
<1>4. \E f : Is(f, N)
  <2> HIDE DEF T
  <2>1. \A n \in Nat : n \in T
    BY <1>2, <1>3, InductionOver
  <2> QED BY <1>1, <2>1 DEF T
<1>5. PICK f : Is(f, N) /\ (N # 0 => FlattenSeq(q) = f[N])
  BY <1>4 DEF FlattenSeq
<1> DEFINE g == [i \in 0 .. N |-> IF i = 0 THEN <<>> ELSE f[i]]
<1>6. g[0] = <<>>
  BY <1>1
<1>7. ASSUME NEW i \in 1 .. N PROVE g[i] = g[i - 1] \o q[i]
  <2>1. CASE i = 1
    <3>1. f[i] = q[i] /\ q[i] \in Seq(S) /\ g[i] = f[i] /\ g[i - 1] = <<>>
      BY <1>1, <1>5, <2>1
    <3> QED BY <3>1, ConcatEmptySeq
  <2>2. CASE i # 1
    <3>1. f[i] = f[i - 1] \o q[i]
      BY <1>5, <2>2
    <3>2. g[i] = f[i] /\ g[i - 1] = f[i - 1]
      BY <1>1, <2>2
    <3> QED BY <3>1, <3>2
  <2> QED BY <2>1, <2>2
<1>8. \A i \in 0 .. N : g[i] \in Seq(S)
  <2> DEFINE U == {n \in Nat : n <= N => g[n] \in Seq(S)}
  <2> HIDE DEF g
  <2>1. 0 \in U
    BY <1>6, EmptySeq
  <2>2. ASSUME NEW n \in Nat, n \in U PROVE n + 1 \in U
    <3> SUFFICES ASSUME n + 1 <= N PROVE g[n + 1] \in Seq(S)
      OBVIOUS
    <3>1. n + 1 \in 1 .. N /\ g[n] \in Seq(S) /\ (n + 1) - 1 = n
      BY <1>1, <2>2
    <3>2. g[n + 1] = g[n] \o q[n + 1] /\ q[n + 1] \in Seq(S)
      BY <1>1, <1>7, <3>1
    <3> QED BY <3>1, <3>2, ConcatProperties
  <2> HIDE DEF U
  <2>3. \A n \in Nat : n \in U
    BY <2>1, <2>2, InductionOver
  <2> QED BY <1>1, <2>3 DEF U
<1>9. FlattenSeq(q) = g[N]
  <2>1. CASE N = 0
    <3>1. q = <<>>
      BY <2>1
    <3>2. FlattenSeq(q) = q
      BY <2>1 DEF FlattenSeq
    <3>3. g[N] = <<>>
      BY <1>6, <2>1
    <3> HIDE DEF g
    <3> QED BY <3>1, <3>2, <3>3
  <2>2. CASE N # 0
    <3>1. FlattenSeq(q) = f[N]
      BY <1>5, <2>2, Zenon
    <3>2. g[N] = f[N]
      BY <1>1, <2>2
    <3> QED BY <3>1, <3>2, Zenon
  <2> QED BY <2>1, <2>2
<1> HIDE DEF g
<1> QED BY <1>6, <1>7, <1>8, <1>9

LEMMA ShortSeqs ==
  ASSUME NEW S, NEW a \in S, NEW b \in S
  PROVE  <<>> \in Seq(S) /\ <<a>> \in Seq(S) /\ <<a, b>> \in Seq(S)
OBVIOUS

\* A segment is some components, and unless it is encoded it is itself or none.
LEMMA ComponentsAre ==
  ASSUME NEW x \in STRING
  PROVE  /\ Components(x) \in Seq(STRING)
         /\ x \notin Encoded => Components(x) \in {<<>>, <<x>>}
<1>1. /\ <<Up>> \in Seq(STRING) /\ <<Up, Up>> \in Seq(STRING) /\ <<>> \in Seq(STRING)
      /\ <<x>> \in Seq(STRING) /\ <<"a", "b">> \in Seq(STRING)
  <2>1. Up \in STRING /\ "a" \in STRING /\ "b" \in STRING
    BY PathsAssumption
  <2> QED BY <2>1, ShortSeqs
<1>2. Components(x) \in {<<Up>>, <<Up, Up>>, <<"a", "b">>, <<>>, <<x>>}
  BY DEF Components
<1>3. x \notin Encoded => Components(x) \in {<<>>, <<x>>}
  BY DEF Components, Encoded
<1> QED BY <1>1, <1>2, <1>3

\* The components of a path, as a sequence of sequences: those of all its
\* segments unless one is an encoded question mark.
LEMMA CleanParts ==
  ASSUME NEW path \in Seq(STRING)
  PROVE  \E q \in Seq(Seq(STRING)) :
           /\ Clean(path) = FlattenSeq(q)
           /\ (\A i \in 1 .. Len(path) : path[i] # Question) =>
                /\ Len(q) = Len(path)
                /\ \A i \in 1 .. Len(path) : q[i] = Components(path[i])
<1> DEFINE I == {i \in 1 .. Len(path) : path[i] = Question}
           cut == SelectInSeq(path, LAMBDA x : x = Question)
           kept == IF cut = 0 THEN path ELSE SubSeq(path, 1, cut - 1)
           q == [i \in DOMAIN kept |-> Components(kept[i])]
<1>1. Len(path) \in Nat /\ \A i \in 1 .. Len(path) : path[i] \in STRING
  BY LenProperties
<1>2. cut = IF I # {} THEN Min(I) ELSE 0
  BY DEF SelectInSeq
<1>3. cut \in 0 .. Len(path) /\ (I = {} => cut = 0)
  <2>1. CASE I = {}
    BY <1>1, <1>2, <2>1
  <2>2. CASE I # {}
    <3>1. PICK m \in I : \A k \in I : m <= k
      <4>1. I \in SUBSET Nat
        BY <1>1
      <4> HIDE DEF I
      <4> QED BY <2>2, <4>1, LeastNumber
    <3>2. Min(I) \in I
      <4> HIDE DEF I
      <4> QED BY <3>1 DEF Min
    <3> QED BY <1>2, <2>2, <3>2
  <2> QED BY <2>1, <2>2
<1>4. kept \in Seq(STRING)
  <2> HIDE DEF cut
  <2>1. \A i \in 1 .. cut - 1 : path[i] \in STRING
    BY <1>1, <1>3
  <2>2. cut - 1 \in Int
    BY <1>3
  <2>3. SubSeq(path, 1, cut - 1) \in Seq(STRING)
    BY <2>1, <2>2, SubSeqProperties
  <2> QED BY <2>3
<1>5. q \in Seq(Seq(STRING)) /\ Len(q) = Len(kept)
      /\ \A i \in 1 .. Len(kept) : q[i] = Components(kept[i])
  <2> HIDE DEF kept
  <2>1. DOMAIN kept = 1 .. Len(kept) /\ Len(kept) \in Nat
        /\ \A i \in 1 .. Len(kept) : kept[i] \in STRING
    BY <1>4, LenProperties
  <2>2. \A i \in 1 .. Len(kept) : Components(kept[i]) \in Seq(STRING)
    BY <2>1, ComponentsAre
  <2> QED BY <2>1, <2>2
<1>6. Clean(path) = FlattenSeq(q)
  BY DEF Clean
<1>7. (\A i \in 1 .. Len(path) : path[i] # Question) => kept = path
  BY <1>3
<1> HIDE DEF q, kept
<1> QED BY <1>5, <1>6, <1>7

LEMMA CleanIsSeq ==
  ASSUME NEW path \in Seq(STRING)
  PROVE  Clean(path) \in Seq(STRING)
<1>1. PICK q \in Seq(Seq(STRING)) : Clean(path) = FlattenSeq(q)
  BY CleanParts
<1>2. PICK f : (\A i \in 0 .. Len(q) : f[i] \in Seq(STRING)) /\ FlattenSeq(q) = f[Len(q)]
  BY FlattenSteps
<1>3. Len(q) \in 0 .. Len(q)
  BY LenProperties
<1> QED BY <1>1, <1>2, <1>3, Zenon
-----------------------------------------------------------------------------
(* Paths without encodings                                                 *)

LEMMA OneLonger ==
  ASSUME NEW S, NEW a \in Seq(S), NEW x \in S, NEW b \in {<<>>, <<x>>}
  PROVE  a \o b = a \/ a \o b = Append(a, x)
<1>1. CASE b = <<>>
  BY <1>1, ConcatEmptySeq
<1>2. CASE b = <<x>>
  <2>1. Append(a, x) = a \o <<x>>
    BY AppendIsConcat
  <2> QED BY <1>2, <2>1
<1> QED BY <1>1, <1>2

LEMMA OnlyTheLast ==
  ASSUME NEW S, NEW a \in Seq(S), NEW x \in S, NEW u,
         \A n \in 1 .. Len(a) : a[n] # u
  PROVE  \A n \in 1 .. Len(Append(a, x)) :
           n < Len(Append(a, x)) => Append(a, x)[n] # u
BY AppendProperties

\* In what check_request lets through only the last component is a parent.
LEMMA ParentsComeLast ==
  ASSUME NEW path \in Seq(STRING), ~HasTraversal(path),
         \A i \in 1 .. Len(path) : path[i] \notin Encoded
  PROVE  \A n \in 1 .. Len(Clean(path)) : n < Len(Clean(path)) => Clean(path)[n] # Up
<1> DEFINE L == Len(path)
           Plain(a) == \A n \in 1 .. Len(a) : a[n] # Up
<1>1. L \in Nat /\ DOMAIN path = 1 .. L /\ \A i \in 1 .. L : path[i] \in STRING
  BY LenProperties
<1>2. PICK q \in Seq(Seq(STRING)) : /\ Clean(path) = FlattenSeq(q)
                                    /\ Len(q) = L
                                    /\ \A i \in 1 .. L : q[i] = Components(path[i])
  BY CleanParts DEF Encoded
<1>3. PICK f : /\ f[0] = <<>>
               /\ \A i \in 0 .. L : f[i] \in Seq(STRING)
               /\ \A i \in 1 .. L : f[i] = f[i - 1] \o q[i]
               /\ FlattenSeq(q) = f[L]
  <2>1. \E f : /\ f[0] = <<>>
               /\ \A i \in 0 .. Len(q) : f[i] \in Seq(STRING)
               /\ \A i \in 1 .. Len(q) : f[i] = f[i - 1] \o q[i]
               /\ FlattenSeq(q) = f[Len(q)]
    BY FlattenSteps
  <2> QED BY <1>2, <2>1, Zenon
<1>4. ASSUME NEW i \in 1 .. L
      PROVE  f[i] = f[i - 1] \/ f[i] = Append(f[i - 1], path[i])
  <2>1. i - 1 \in 0 .. L
    BY <1>1
  <2>2. f[i - 1] \in Seq(STRING) /\ path[i] \in STRING /\ f[i] = f[i - 1] \o q[i]
    BY <1>1, <1>3, <2>1
  <2>3. q[i] \in {<<>>, <<path[i]>>}
    BY <1>2, <2>2, ComponentsAre
  <2> QED BY <2>2, <2>3, OneLonger
<1>5. \A i \in 1 .. L : i < L => path[i] # Up
  BY <1>1 DEF HasTraversal, DotsAtEnd
<1> DEFINE T == {i \in Nat : i < L => Plain(f[i])}
<1>6. 0 \in T
  BY <1>3
<1>7. ASSUME NEW i \in Nat, i \in T PROVE i + 1 \in T
  <2> SUFFICES ASSUME i + 1 < L PROVE Plain(f[i + 1])
    OBVIOUS
  <2>1. i + 1 \in 1 .. L /\ i \in 0 .. L /\ (i + 1) - 1 = i /\ i < L
    BY <1>1
  <2>2. PICK x \in STRING : x = path[i + 1] /\ x # Up
    BY <1>1, <1>5, <2>1
  <2>3. PICK a \in Seq(STRING) : a = f[i] /\ Plain(a)
    BY <1>3, <1>7, <2>1
  <2>4. f[i + 1] = a \/ f[i + 1] = Append(a, x)
    BY <1>4, <2>1, <2>2, <2>3
  <2>5. Plain(Append(a, x))
    BY <2>2, <2>3, AppendProperties
  <2> QED BY <2>3, <2>4, <2>5
<1>8. \A i \in Nat : i < L => Plain(f[i])
  <2> HIDE DEF T
  <2>1. \A i \in Nat : i \in T
    BY <1>6, <1>7, InductionOver
  <2> QED BY <2>1 DEF T
<1>9. CASE L = 0
  BY <1>2, <1>3, <1>9
<1>10. CASE L # 0
  <2>1. L - 1 \in Nat /\ L - 1 < L /\ L - 1 \in 0 .. L /\ L \in 1 .. L
    BY <1>1, <1>10
  <2>2. PICK a \in Seq(STRING) : a = f[L - 1] /\ Plain(a)
    BY <1>3, <1>8, <2>1
  <2>3. PICK x \in STRING : x = path[L]
    BY <1>1, <2>1
  <2>4. Clean(path) = a \/ Clean(path) = Append(a, x)
    BY <1>2, <1>3, <1>4, <2>1, <2>2, <2>3
  <2>5. \A n \in 1 .. Len(Append(a, x)) : n < Len(Append(a, x)) => Append(a, x)[n] # Up
    BY <2>2, OnlyTheLast
  <2> QED BY <2>2, <2>4, <2>5
<1> QED BY <1>9, <1>10

\* A walk with no parent, or only a last one, stays below the root unless that
\* parent is all there is.
LEMMA PlainWalk ==
  ASSUME NEW S, NEW c \in Seq(S), Root \in Seq(S), NoPath \notin Seq(S),
         \A n \in 1 .. Len(c) : n < Len(c) => c[n] # Up
  PROVE  \/ c = <<Up>>
         \/ /\ FoldLeft(Walk, Root, c) # NoPath
            /\ IsPrefix(Root, FoldLeft(Walk, Root, c))
<1> DEFINE R == Len(Root)
           L == Len(c)
           Below(e) == e \in Seq(S) /\ Len(e) >= R /\ \A k \in 1 .. R : e[k] = Root[k]
<1>1. R \in Nat /\ L \in Nat /\ \A n \in 1 .. L : c[n] \in S
  BY LenProperties
<1>2. PICK g : /\ g[0] = Root
               /\ \A n \in 1 .. L : g[n] = Walk(g[n - 1], c[n])
               /\ FoldLeft(Walk, Root, c) = g[L]
  BY WalkSteps
<1>3. ASSUME NEW e, Below(e) PROVE e # NoPath /\ IsPrefix(Root, e)
  <2>1. \A k \in 1 .. R : k \in 1 .. Len(e)
    BY <1>1, <1>3
  <2>2. SubSeq(Root, 1, R) = [k \in 1 .. R |-> Root[k]]
    BY <1>1
  <2>3. SubSeq(e, 1, R) = [k \in 1 .. R |-> e[k]]
    BY <1>1, <1>3
  <2> QED BY <1>1, <1>3, <2>2, <2>3 DEF IsPrefix
<1>4. ASSUME NEW e \in Seq(S), Below(e), NEW x \in S, x # Up
      PROVE  Below(Walk(e, x)) /\ Len(Walk(e, x)) = Len(e) + 1
  <2>1. e # NoPath
    OBVIOUS
  <2>2. Walk(e, x) = Append(e, x)
    BY <1>4, <2>1 DEF Walk
  <2>3. \A k \in 1 .. R : k \in 1 .. Len(e)
    BY <1>1, <1>4
  <2> QED BY <1>1, <1>4, <2>2, <2>3, AppendProperties
<1>5. ASSUME NEW e \in Seq(S), Below(e), Len(e) > R PROVE Below(Walk(e, Up))
  <2>1. e # NoPath /\ e # <<>>
    BY <1>1, <1>5
  <2>2. Walk(e, Up) = Front(e)
    BY <2>1 DEF Walk
  <2>3. \A k \in 1 .. Len(e) - 1 : e[k] \in S
    BY LenProperties
  <2>4. Front(e) \in Seq(S) /\ Len(Front(e)) = Len(e) - 1
        /\ \A k \in 1 .. Len(e) - 1 : Front(e)[k] = e[k]
    <3>0. Len(e) \in Nat /\ Len(e) > 0
      <4>1. Len(e) \in Nat
        BY LenProperties
      <4> HIDE DEF R, L, Below
      <4> QED BY <1>1, <1>5, <4>1
    <3>1. PICK m \in Nat : m = Len(e) - 1
      <4> HIDE DEF R, L, Below
      <4>1. PICK l : l = Len(e)
        OBVIOUS
      <4>2. l \in Nat /\ l > 0
        BY <3>0, <4>1
      <4>3. l - 1 \in Nat
        BY <4>2
      <4> QED BY <4>1, <4>3, Zenon
    <3>2. Front(e) = SubSeq(e, 1, m)
      BY <3>1 DEF Front
    <3>3. /\ SubSeq(e, 1, m) \in Seq(S)
          /\ Len(SubSeq(e, 1, m)) = IF 1 <= m THEN m - 1 + 1 ELSE 0
          /\ \A i \in 1 .. m - 1 + 1 : SubSeq(e, 1, m)[i] = e[1 + i - 1]
      BY <2>3, <3>1, SubSeqProperties
    <3> HIDE DEF R, L
    <3>4. Len(SubSeq(e, 1, m)) = m /\ \A i \in 1 .. m : SubSeq(e, 1, m)[i] = e[i]
      BY <3>3
    <3> QED BY <3>1, <3>2, <3>3, <3>4, Zenon
  <2> QED BY <1>1, <1>5, <2>2, <2>4
<1> DEFINE T == {n \in Nat : n < L => Below(g[n]) /\ Len(g[n]) = R + n}
<1>6. 0 \in T
  BY <1>1, <1>2
<1>7. ASSUME NEW n \in Nat, n \in T PROVE n + 1 \in T
  <2> SUFFICES ASSUME n + 1 < L PROVE Below(g[n + 1]) /\ Len(g[n + 1]) = R + (n + 1)
    OBVIOUS
  <2>1. n + 1 \in 1 .. L /\ (n + 1) - 1 = n /\ n < L
    BY <1>1
  <2>2. Below(g[n]) /\ Len(g[n]) = R + n
    BY <1>7, <2>1
  <2>3. c[n + 1] \in S /\ c[n + 1] # Up /\ g[n + 1] = Walk(g[n], c[n + 1])
    BY <1>1, <1>2, <2>1
  <2>4. PICK e \in Seq(S), x \in S : e = g[n] /\ x = c[n + 1]
    BY <2>2, <2>3
  <2> HIDE DEF R, L, Below
  <2>5. Below(Walk(e, x)) /\ Len(Walk(e, x)) = Len(e) + 1
    BY <1>4, <2>2, <2>3, <2>4
  <2> QED BY <1>1, <2>2, <2>3, <2>4, <2>5
<1>8. \A n \in Nat : n < L => Below(g[n]) /\ Len(g[n]) = R + n
  <2> HIDE DEF T
  <2>1. \A n \in Nat : n \in T
    BY <1>6, <1>7, InductionOver
  <2> QED BY <2>1 DEF T
<1>9. CASE L = 0
  <2>1. Below(g[L])
    BY <1>1, <1>2, <1>9
  <2> QED BY <1>2, <1>3, <2>1
<1>10. CASE L # 0
  <2>1. L - 1 \in Nat /\ L - 1 < L /\ L \in 1 .. L
    BY <1>1, <1>10
  <2>2. PICK e \in Seq(S) : e = g[L - 1] /\ Below(e) /\ Len(e) = R + (L - 1)
    BY <1>8, <2>1
  <2>3. PICK x \in S : x = c[L] /\ g[L] = Walk(e, x)
    BY <1>1, <1>2, <2>1, <2>2
  <2>4. CASE x # Up
    <3> HIDE DEF Below
    <3>1. Below(Walk(e, x))
      BY <1>4, <2>2, <2>4
    <3> QED BY <1>2, <1>3, <2>3, <3>1
  <2>5. CASE x = Up /\ L = 1
    <3>1. c[1] = Up /\ Len(c) = 1
      BY <2>3, <2>5
    <3>2. c = <<Up>>
      BY <3>1
    <3> QED BY <3>2
  <2>6. CASE x = Up /\ L # 1
    <3>1. Len(e) > R
      <4> HIDE DEF R, L, Below
      <4> QED BY <1>1, <2>1, <2>2, <2>6
    <3> HIDE DEF Below
    <3>2. Below(Walk(e, Up))
      BY <1>5, <2>2, <3>1
    <3> QED BY <1>2, <1>3, <2>3, <2>6, <3>2
  <2> QED BY <2>4, <2>5, <2>6
<1> QED BY <1>9, <1>10
-----------------------------------------------------------------------------
(* All paths                                                               *)

LEMMA PathsAreSeqs == ASSUME NEW u \in Paths PROVE u \in Seq(STRING)
<1>1. PICK m \in 0 .. MaxSegments : u \in [1 .. m -> Segments]
  BY DEF Paths, BoundedSeq, SeqOf
<1>2. m \in Nat /\ \A i \in 1 .. m : u[i] \in STRING
  BY <1>1, PathsAssumption
<1>3. PICK S : S = STRING
  OBVIOUS
<1>4. u \in Seq(S)
  BY <1>1, <1>2, <1>3
<1> QED BY <1>3, <1>4, Zenon

\* A path of which only the last component may be a parent is resolved, unless
\* that parent is all there is.
LEMMA PlainIsResolved ==
  ASSUME NEW u \in Seq(STRING), ~Contains(u, BadUtf8), Clean(u) # <<Up>>,
         \A n \in 1 .. Len(Clean(u)) : n < Len(Clean(u)) => Clean(u)[n] # Up
  PROVE  SafePath(u) # NoPath
<1>1. PICK c \in Seq(STRING) : c = Clean(u)
  BY CleanIsSeq
<1>2. FoldLeft(Walk, Root, c) # NoPath /\ IsPrefix(Root, FoldLeft(Walk, Root, c))
  <2>1. PICK S : S = STRING
    OBVIOUS
  <2>2. c \in Seq(S) /\ Root \in Seq(S) /\ NoPath \notin Seq(S)
    BY <2>1, RootAssumption, Zenon
  <2>3. \A n \in 1 .. Len(c) : n < Len(c) => c[n] # Up
    BY <1>1, Zenon
  <2> QED BY <1>1, <2>2, <2>3, PlainWalk
<1> QED BY <1>1, <1>2 DEF SafePath

LEMMA NoneIsMisled == ASSUME NEW u \in Seq(STRING) PROVE ~IsMisled(u)
<1>1. Clean(u) \in Seq(STRING)
  BY CleanIsSeq
<1>2. SafePath(u) = LeadsTo(u)
  BY <1>1, SafePathIsLeadsTo
<1>3. ASSUME Up \notin ToSet(Clean(u)), ~Contains(u, BadUtf8)
      PROVE  SafePath(u) # NoPath
  <2>1. PICK c \in Seq(STRING) : c = Clean(u)
    BY <1>1
  <2>2. DOMAIN c = 1 .. Len(c)
    BY LenProperties
  <2>3. \A n \in 1 .. Len(c) : c[n] # Up
    BY <1>3, <2>1, <2>2 DEF ToSet
  <2>4. c # <<Up>>
    <3>1. c = <<Up>> => Len(c) = 1 /\ c[1] = Up
      OBVIOUS
    <3> QED BY <2>3, <3>1
  <2> QED BY <1>3, <2>1, <2>3, <2>4, PlainIsResolved
<1> QED BY <1>2, <1>3 DEF IsMisled

LEMMA NoneSlips == ASSUME NEW u \in Seq(STRING) PROVE ~Slips(u)
<1> SUFFICES ASSUME ToSet(u) \cap Encoded = {}, Clean(u) # <<Up>>,
                    NEW on \in Flags, NEW agent, NEW marks,
                    on.waf_path_traversal, CheckRequest(on, u, agent, marks) = "ok"
             PROVE  SafePath(u) # NoPath
  BY DEF Slips
<1>1. DOMAIN u = 1 .. Len(u)
  BY LenProperties
<1>2. ~HasTraversal(u)
  BY DEF CheckRequest
<1>3. \A i \in 1 .. Len(u) : u[i] \notin Encoded
  BY <1>1 DEF ToSet
<1>4. \A n \in 1 .. Len(Clean(u)) : n < Len(Clean(u)) => Clean(u)[n] # Up
  BY <1>2, <1>3, ParentsComeLast
<1>5. ~Contains(u, BadUtf8)
  BY <1>3 DEF Contains, Encoded
<1> QED BY <1>4, <1>5, PlainIsResolved

\* Whatever is encoded and wherever a path climbs, safe_path leads where the
\* path leads, never out of the root, and it resolves every path that does not
\* climb: for every root, for paths of any length, and for every request.
THEOREM SafePathCorrect == Spec => []SafePathExact
<1>1. Misled = {}
  BY PathsAreSeqs, NoneIsMisled DEF Misled
<1>2. IInv /\ pc # "idle" => place \in {NoPath, LeadsTo(url)}
  <2> SUFFICES ASSUME IInv, pc # "idle" PROVE place \in {NoPath, LeadsTo(url)}
    OBVIOUS
  <2>1. url \in Seq(STRING) /\ place = SafePath(url)
    BY StaticFilesAssumption DEF IInv, Placed
  <2> QED BY <2>1, NoneIsMisled DEF IsMisled
<1>3. IInv => SafePathExact
  BY <1>1, <1>2 DEF SafePathExact
<1> QED BY <1>3, StaticFilesInvariant, PTL

\* Without encodings the WAF's patterns (check_request) find every way out of the
\* root but "..", for every root and for paths of any length.
THEOREM WafPatternComplete == Spec => []ClimbsAreRefusedFirst
<1>1. Slipping = {}
  BY PathsAreSeqs, NoneSlips DEF Slipping
<1>2. IInv /\ pc # "idle" => ~Slips(url)
  <2> SUFFICES ASSUME IInv, pc # "idle" PROVE ~Slips(url)
    OBVIOUS
  <2>1. url \in Seq(STRING)
    BY StaticFilesAssumption DEF IInv, Placed
  <2> QED BY <2>1, NoneSlips
<1>3. IInv => ClimbsAreRefusedFirst
  BY <1>1, <1>2 DEF ClimbsAreRefusedFirst
<1> QED BY <1>3, StaticFilesInvariant, PTL
=============================================================================
