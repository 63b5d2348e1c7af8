----------------------------- MODULE MCPasskeys -----------------------------
(* Small instances of Passkeys for TLC. *)
EXTENDS Passkeys, TLC

Symmetry == Permutations(Req) \cup Permutations(User) \cup Permutations(Cred)
              \cup Permutations(Challenge)
=============================================================================
