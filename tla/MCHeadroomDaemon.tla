-------------------------- MODULE MCHeadroomDaemon --------------------------
(* The daemons and their clients, as TLC checks them. *)
EXTENDS HeadroomDaemon
=============================================================================
