--------------------------- MODULE MCAuthService ---------------------------
(* Symmetry for the runs of AuthService.                                   *)
EXTENDS AuthService, TLC

Symmetry == Permutations(Request) \cup Permutations(User) \cup Permutations(Token)
=============================================================================
