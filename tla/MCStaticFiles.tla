---------------------------- MODULE MCStaticFiles ---------------------------
(* A root "w" two levels below "/", with the index files "i" and "j", of   *)
(* which "j" in directory "w/d" is a directory itself.  Two contents have  *)
(* the same length.  Times 0 and 1 are in one second, 2 is in the next.    *)
(* The paths of safe_path have up to four segments: enough to climb above  *)
(* the root and above "/", and to come back.                               *)
EXTENDS StaticFiles

MCRoot == <<"srv", "w">>
MCUrls == {<<>>, <<"..", "i">>, <<"d", "%2e%2e", "i">>, <<"d">>}
MCDirs == {MCRoot, MCRoot \o <<"d">>, MCRoot \o <<"d", "j">>}
MCFiles == {MCRoot \o <<"i">>, MCRoot \o <<"j">>}
MCIndexFiles == <<"i", "j">>
MCSegments == {"srv", "w", "f", Up, "%2e.", "..%2f..", "a%2fb", "x..",
               Backslashed, BadUtf8, Question}
MCLengths == [c \in {"old", "new", "none"} |-> IF c = "none" THEN 0 ELSE 1]
=============================================================================
