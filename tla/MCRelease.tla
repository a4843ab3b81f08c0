------------------------------ MODULE MCRelease ------------------------------
(* One example and two revisions of each part of the tree: enough for an edit    *)
(* between any two steps of a command to show in one file and not in another.   *)
EXTENDS Release
=============================================================================
