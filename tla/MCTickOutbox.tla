---------------------------- MODULE MCTickOutbox ----------------------------
(* TLC instance of TickOutbox: one daemon, census invocations, a recovery. *)
EXTENDS TickOutbox
=============================================================================
