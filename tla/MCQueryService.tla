--------------------------- MODULE MCQueryService ---------------------------
(* TLC instance of QueryService: two stages whose windows follow each     *)
(* other, one thread that reads rooms and one that competes for the gate. *)
EXTENDS QueryService

CONSTANTS r1, r2

MCAsks == r1 :> {"search", "record"} @@ r2 :> {"did", "snapshot"}

MCAfter == [s \in Stages |-> IF s = 1 THEN 1 ELSE 2]
MCLength == [s \in Stages |-> s]
=============================================================================
