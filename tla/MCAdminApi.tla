----------------------------- MODULE MCAdminApi -----------------------------
(* A small instance of AdminApi for TLC. *)
EXTENDS AdminApi, TLC
=============================================================================
