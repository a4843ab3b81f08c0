------------------------------- MODULE Storage -------------------------------
(***************************************************************************)
(* Where an application without a heap keeps its data: blocks of an arena and  *)
(* bounded strings (src/src/arena.rs, src/src/fixed.rs). Neither uses the      *)
(* other.                                                                     *)
(***************************************************************************)
EXTENDS Arena, FixedString

\* Storage is handed out and filled soundly: no two blocks of an arena overlap or leave it, a
\* request is refused only when it cannot be met (arena.rs), and a bounded string holds whole
\* characters only (fixed.rs).
StorageSound == ArenaSound /\ StringWhole
=============================================================================
