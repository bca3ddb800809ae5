---------------------------- MODULE MCTickLedger ----------------------------
(* TLC instance of TickLedger: two processes that publish and recover.     *)
EXTENDS TickLedgerInvariant

CONSTANTS p1, p2, opA, tickX, tickY

\* An operation, the same operation id reused for another payload, an append
\* without an operation id, and a recovery.
MCRequests ==
  {[kind |-> "once", op |-> opA, user |-> tickX],
   [kind |-> "once", op |-> opA, user |-> tickY],
   [kind |-> "append", op |-> NoOp, user |-> tickX],
   [kind |-> "recover", op |-> NoOp, user |-> NoLine]}
=============================================================================
