----------------------------- MODULE MCSessions -----------------------------
(* Small instances of Sessions for TLC. *)
EXTENDS Sessions, TLC

Symmetry == Permutations(Req) \cup Permutations(Sid) \cup Permutations(Token)
=============================================================================
