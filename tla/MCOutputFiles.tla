--------------------------- MODULE MCOutputFiles ---------------------------
(***************************************************************************)
(* OutputFiles with two detached builds and a command line edit of the     *)
(* same pair of files and a build of another image, in every order, each   *)
(* stopped anywhere or nowhere, beside one reader.  Eight inodes: a file   *)
(* and a temporary file for each path, the reader's, and one that only a   *)
(* descriptor keeps.                                                       *)
(***************************************************************************)
EXTENDS OutputFiles, TLC

CONSTANTS b1, b2, b3, edit, reader

MCProc == {b1, b2, b3, edit}
MCKind == (b1 :> "detached") @@ (b2 :> "detached") @@ (b3 :> "build") @@ (edit :> "cmdline")
MCPmiOf == [p \in MCProc |-> IF p = b3 THEN "other" ELSE "pmi"]
MCDtbOf == [p \in MCProc |-> "dtb"]
=============================================================================
