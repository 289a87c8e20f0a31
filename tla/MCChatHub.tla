----------------------------- MODULE MCChatHub -----------------------------
(* Symmetry for the safety runs of ChatHub.                                *)
EXTENDS ChatHub, TLC

Symmetry == Permutations(Room) \cup Permutations(User)
              \cup Permutations(Conn) \cup Permutations(Sub)
=============================================================================
