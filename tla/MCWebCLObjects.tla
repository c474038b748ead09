----------------------------- MODULE MCWebCLObjects -----------------------------
(* Small instances of WebCLObjects for TLC. *)
EXTENDS WebCLObjects, TLC

Symmetry == Permutations(Wrappers) \cup Permutations(Handles)

=============================================================================
