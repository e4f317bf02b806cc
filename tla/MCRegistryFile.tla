---------------------------- MODULE MCRegistryFile ----------------------------
(***************************************************************************)
(* Instances of RegistryFile for TLC: two threads of two processes, two    *)
(* keys and two panes; the stamps 1 and 2 tell an older entry from a newer.*)
(***************************************************************************)
EXTENDS RegistryFile, TLC

MCSymmetry == Permutations(Key) \union Permutations(Pane) \union Permutations(Window)
=============================================================================
