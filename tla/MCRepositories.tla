--------------------------- MODULE MCRepositories ---------------------------
(* Repositories for TLC, with symmetric requests and owners.                *)
EXTENDS Repositories

Symmetry == Permutations(Request) \cup Permutations(Owner)
=============================================================================
