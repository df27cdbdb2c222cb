------------------------- MODULE MCFileMutationQueue -------------------------
(* Two paths of one file, one of them through a symbolic link, and another *)
(* file.                                                                   *)
EXTENDS FileMutationQueue

MCPaths == {"file", "link", "other"}
MCReal == [p \in MCPaths |-> IF p = "link" THEN "file" ELSE p]
=============================================================================
