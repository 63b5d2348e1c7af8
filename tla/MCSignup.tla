------------------------------ MODULE MCSignup ------------------------------
(* Small instances of Signup for TLC. *)
EXTENDS Signup, TLC

Symmetry == Permutations(Req) \cup Permutations(Email) \cup Permutations(Subject)
              \cup Permutations(Code) \cup Permutations(Token)
=============================================================================
