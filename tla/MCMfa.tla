------------------------------- MODULE MCMfa -------------------------------
(* Small instances of Mfa for TLC. *)
EXTENDS Mfa, TLC

Symmetry == Permutations(Req) \cup Permutations(Secret) \cup Permutations(Code)
              \cup Permutations(Recovery) \cup Permutations(Challenge)
=============================================================================
