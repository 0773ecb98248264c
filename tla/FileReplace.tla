---------------------------- MODULE FileReplace ----------------------------
(***************************************************************************)
(* What AtomicWrite of src/fs_ext.rs promises: a path has no file or a     *)
(* complete one, and a step replaces the file of one path by another       *)
(* complete one.  No intermediate content is ever visible.                 *)
(***************************************************************************)
CONSTANTS Path, Complete, NoFile

VARIABLE visible  \* what a reader of each path gets

Init == visible = [p \in Path |-> NoFile]

Replace(p, c) == visible' = [visible EXCEPT ![p] = c]

Next == \E p \in Path, c \in Complete : Replace(p, c)

Spec == Init /\ [][Next]_visible
=============================================================================
