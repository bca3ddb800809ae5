-------------------------- MODULE MCRoomLifecycle --------------------------
(* TLC instance of RoomLifecycle: the second senders of the generations     *)
(* alternate, so that a check which reads a newer generation disagrees.     *)
EXTENDS RoomLifecycle, TLC

Symmetry == Permutations(Procs) \cup Permutations(Names)

MCSecondSender == [k \in 1..MaxEvents |-> IF k % 2 = 1 THEN "signed" ELSE "other"]
MCApart == [k \in 1..MaxEvents |-> IF k = 1 THEN {0} ELSE {2}]
=============================================================================
