----------------------------- MODULE MCStorage ------------------------------
(* Storage on its own: a text nobody can read, two launches and a save.      *)
EXTENDS Storage
=============================================================================
