------------------------------ MODULE MCQuery ------------------------------
(* Query on small instances, and the abstract specification it implements.  *)
EXTENDS Query

Shown == INSTANCE ShownListing WITH Versions <- 0 .. MaxVersion

\* Query keeps the promise of ShownListing: each step of the cache, of a fetch
\* or of the clock is a step of the listing on screen or none, and the busy
\* states end.
Implements == Shown!Spec

=============================================================================
