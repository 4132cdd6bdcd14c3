---------------------------- MODULE MCConnection ----------------------------
(* Connection on small instances: the cfg gives the bounds. *)
EXTENDS Connection
=============================================================================
