------------------------- MODULE MCRequestPipeline -------------------------
(* RequestPipeline with two tokens and a clock that outruns them.          *)
EXTENDS RequestPipeline, TLC

Symmetry == Permutations(Token) \cup Permutations(User)
=============================================================================
