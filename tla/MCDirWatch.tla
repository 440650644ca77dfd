----------------------------- MODULE MCDirWatch ------------------------------
(* A file, and a name that is a directory with a file in it or a file.     *)
EXTENDS DirWatch

MCOrder  == <<"d", "d/x", "e">>
MCParent == [p \in {"d", "d/x", "e"} |-> IF p = "d/x" THEN "d" ELSE "."]
MCKinds  == [p \in {"d", "d/x", "e"} |-> IF p = "d" THEN {"reg", "dir"} ELSE {"reg"}]
=============================================================================
