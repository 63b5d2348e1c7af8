--------------------------- MODULE MCCredentials ---------------------------
(* Small instances of Credentials for TLC. *)
EXTENDS Credentials, TLC

Symmetry == Permutations(Req) \cup Permutations(Password) \cup Permutations(ResetToken)
=============================================================================
