------------------------- MODULE TickLedgerRollback -------------------------
(***************************************************************************)
(* The tick ledger when the operator puts back an older copy of the ledger *)
(* file alone instead of the whole family: the sidecars beside it then     *)
(* know more than it does.  The calls must notice, so that no tick which   *)
(* was published is replaced by another one.                               *)
(***************************************************************************)
EXTENDS TickLedger

\* The file is a shorter prefix of itself, with new metadata.
RollBack ==
  /\ external < MaxExternal
  /\ lock = NoProc
  /\ external' = external + 1
  /\ \E n \in 0..(Len(disk.lines) - 1) :
       disk' = [disk EXCEPT !.lines = SubSeq(@, 1, n), !.tail = NoTail,
                            !.stamp = @ + 1]
  /\ images' = {disk'}
  /\ UNCHANGED <<procVars, acked, alarm, calls, faults>>

RollbackNext == Next \/ RollBack

RollbackSpec == Init /\ [][RollbackNext]_vars

-----------------------------------------------------------------------------
\* The checkpoint knows a tick that neither the file nor the journal holds.
Behind ==
  /\ disk.ckpt # None
  /\ disk.ckpt.size > Len(disk.lines)
  /\ disk.pending # None => disk.ckpt.size > disk.pending.base.size + 1

\* No call extends a ledger that is behind its checkpoint or rebinds the
\* checkpoint to it ("ledger checkpoint does not match ...", collect.py's
\* _checkpointed_ledger_tip and test_checkpoint_rejects_valid_prefix_rollback),
\* and a checkpoint is only replaced by one further down the same ledger, or by
\* one of the same tick.
RolledBackIsFrozen ==
  [][/\ Behind /\ external' = external /\ faults' = faults => UNCHANGED <<disk, images>>
     /\ disk.ckpt # None /\ disk'.ckpt # disk.ckpt /\ faults' = faults =>
          /\ disk'.ckpt # None
          /\ disk.ckpt.size <= Len(disk'.lines)
          /\ SameBytes(disk'.lines[disk.ckpt.size], disk.ckpt.tip)]_vars
=============================================================================
