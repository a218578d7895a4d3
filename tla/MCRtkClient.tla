----------------------------- MODULE MCRtkClient -----------------------------
(* The client's specification, as TLC checks it. *)
EXTENDS RtkClient
=============================================================================
