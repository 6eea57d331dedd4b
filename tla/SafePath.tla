------------------------------ MODULE SafePath ------------------------------
(***************************************************************************)
(* StaticFileServer::safe_path (static_files.rs): the path of a request is *)
(* decoded and walked from the root directory.                             *)
(*                                                                         *)
(* A path is a sequence of segments between slashes as they were sent.  A  *)
(* segment is spelled in one of the ways below, one for each thing that    *)
(* decoding can make of it, or it stands for the name it decodes to.  A    *)
(* file system path is a sequence of names from "/" (or from the working   *)
(* directory, when the root is relative: pop fails on the empty one too).  *)
(***************************************************************************)
EXTENDS Integers, Sequences, SequencesExt

CONSTANTS
  Root,    \* StaticFileServer::root
  NoPath   \* None

ASSUME RootAssumption == Root \in Seq(STRING) /\ NoPath \notin Seq(STRING)

Up == ".."

\* A parent with one or both of its dots encoded.
EncodedUp == {".%2e", "%2e.", "%2e%2e"}

\* What percent-decoding and Path::components make of a segment.  An encoded
\* slash makes several components of it, an empty segment and "." make none.
Components(segment) ==
  CASE segment \in EncodedUp -> <<Up>>
    [] segment = "..%2f.." -> <<Up, Up>>
    [] segment = "a%2fb" -> <<"a", "b">>
    [] segment \in {"", ".", "%2e"} -> <<>>
    [] OTHER -> <<segment>>

\* Bytes that are no UTF-8, and a question mark that was sent encoded: the
\* rest of the path is cut off as if it were a query.
BadUtf8 == "%ff"
Question == "%3f"

Clean(path) ==
  LET cut == SelectInSeq(path, LAMBDA s : s = Question)
      kept == IF cut = 0 THEN path ELSE SubSeq(path, 1, cut - 1)
  IN  FlattenSeq([i \in DOMAIN kept |-> Components(kept[i])])

\* result.pop() and result.push(part): pop fails at "/" only, so a path may
\* leave the root and come back.
Walk(result, component) ==
  IF result = NoPath THEN NoPath
  ELSE IF component # Up THEN Append(result, component)
  ELSE IF result = <<>> THEN NoPath ELSE Front(result)

\* Mutant: the walk is trusted, the final test of the root left out.
SafePathUnchecked(path) ==
  IF Contains(path, BadUtf8) THEN NoPath ELSE FoldLeft(Walk, Root, Clean(path))

SafePath(path) ==
  LET result == FoldLeft(Walk, Root, Clean(path))
  IN  IF Contains(path, BadUtf8) \/ result = NoPath \/ ~IsPrefix(Root, result)
      THEN NoPath
      ELSE result

=============================================================================
