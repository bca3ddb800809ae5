------------------------ MODULE MCTickLedgerRollback ------------------------
(* TLC instance of TickLedgerRollback: two operations and a recovery.      *)
EXTENDS TickLedgerRollback

CONSTANTS p1, p2, opA, opB, tickX, tickY

MCRequests ==
  {[kind |-> "once", op |-> opA, user |-> tickX],
   [kind |-> "once", op |-> opB, user |-> tickY],
   [kind |-> "recover", op |-> NoOp, user |-> NoLine]}
=============================================================================
