------------------------------ MODULE MCStorage ------------------------------
(***************************************************************************)
(* Storage instantiated for TLC.                                           *)
(***************************************************************************)
EXTENDS Storage

CONSTANTS p1, p2

TwoProcesses == {p1, p2}

Tree(parent, root, blobs, tmp) ==
  [p \in Paths |-> CASE p = "parent" -> parent [] p = "root" -> root
                     [] p = "blobs" -> blobs [] p = "tmp" -> tmp]

\* Nothing, an empty place for it, a complete tree, and unfit ones.
SomeTrees ==
  { Tree("absent", "absent", "absent", "absent"),
    Tree("shared", "absent", "absent", "absent"),
    Tree("shared", "private", "private", "private"),
    Tree("shared", "shared", "absent", "absent"),
    Tree("shared", "private", "absent", "shared"),
    Tree("link", "absent", "absent", "absent") }

=============================================================================
