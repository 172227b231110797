----------------------------- MODULE MCFileSystem -----------------------------
(* A small disk to check FileSystem with.                                  *)
EXTENDS FileSystem

Symmetry == Permutations(Name)

=============================================================================
