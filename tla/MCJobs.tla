------------------------------- MODULE MCJobs -------------------------------
(* Jobs on small instances. *)
EXTENDS Jobs

=============================================================================
