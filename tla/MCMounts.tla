------------------------------ MODULE MCMounts ------------------------------
(* Mounts on small instances: the cfgs give the bounds. *)
EXTENDS Mounts
=============================================================================
