------------------------ MODULE MCReleasePublication ------------------------
(* TLC instance of ReleasePublication: two rebuilds and their process ids. *)
EXTENDS ReleasePublication

CONSTANTS p1, p2

\* The fifth release is large.
MCSize == [n \in 1..MaxReleases |-> IF n = 5 THEN 4 ELSE 1]
=============================================================================
