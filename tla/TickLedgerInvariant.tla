------------------------ MODULE TickLedgerInvariant ------------------------
(***************************************************************************)
(* The inductive invariant of TickLedger.  A family is sound when every    *)
(* check that a later call makes of it succeeds; the file that processes   *)
(* see and every file a power loss could leave are sound, and a process in *)
(* the middle of an append knows what it has already made durable.         *)
(***************************************************************************)
EXTENDS TickLedger

SoundCheckpoint(s) ==
  s.ckpt # None =>
    /\ s.ckpt.size \in 1..Len(s.lines)
    /\ s.ckpt.tip = s.lines[s.ckpt.size]

\* The journal describes the end of the file: nothing, some bytes or all of
\* its record follow its base.
SoundPending(s) ==
  LET b == s.pending.base
      r == s.pending.record
  IN s.pending # None =>
       /\ b.size <= Len(s.lines) /\ Len(s.lines) <= b.size + 1
       /\ r.prev = Link(s.lines, b.size)
       /\ b.prev = Link(s.lines, b.size)
       /\ b.anchor = Anchor(s, b.size)
       /\ Len(s.lines) = b.size + 1 => s.lines[b.size + 1] = r /\ s.tail = NoTail
       /\ s.tail.n > 0 => s.tail.of = r
       /\ s.exists \/ b.fresh
       /\ b.fresh => b.size = 0 /\ LegacyTicks = 0
       /\ s.ckpt # None /\ s.ckpt.size = b.size + 1 => s.ckpt.op = r.op

Sound(s) ==
  /\ ChainOK(s.lines, Len(s.lines))
  /\ s.lines # <<>> \/ LegacyTicks > 0 => s.exists
  /\ s.pending = None => s.tail = NoTail
  /\ SoundCheckpoint(s)
  /\ SoundPending(s)

\* The bytes of the ledger file itself.
SameFile(s, t) == s.lines = t.lines /\ s.tail = t.tail /\ s.exists = t.exists

\* The family of every power loss is sound, and so is the mixture of its
\* ledger with the sidecars that processes see now.
Recoverable ==
  /\ disk \in images
  /\ \A s \in images : Sound(s) /\ Sound(WithSidecars(s, disk))

\* Without an open append every byte of the ledger is on disk.
Settled ==
  disk.pending = None \/ (disk.ckpt # None /\ disk.ckpt.size > disk.pending.base.size)
    => \A s \in images : SameFile(s, disk)

Completing == {"complete", "freshSync", "suffix", "write", "fsync", "entrySync", "ckpt",
               "ckptSync", "unlink"}
NoJournal == {"unlinkSync", "recovered", "tip", "tipSync", "decide"}

\* What a process in its critical section relies on.
Progress(p) ==
  /\ pc[p] \in Locked <=> lock = p
  /\ pc[p] # "idle" => call[p] # None
  /\ pc[p] \in Completing => disk.pending # None /\ job[p] = disk.pending
  /\ pc[p] = "pendSync" => disk.pending # None
  /\ pc[p] \in NoJournal => disk.pending = None
  /\ pc[p] \in {"fsync", "entrySync", "ckpt", "ckptSync", "unlink"} =>
       Appended(disk, disk.pending)
  /\ pc[p] = "entrySync" => \A s \in images : ~s.exists \/ SameFile(s, disk)
  /\ pc[p] = "ckpt" => \A s \in images : SameFile(s, disk)
  /\ pc[p] \in {"ckptSync", "unlink"} =>
       disk.ckpt # None /\ disk.ckpt.size = Len(disk.lines)

IInv ==
  /\ TypeOK
  /\ Recoverable
  /\ Settled
  /\ \A p \in Procs : Progress(p)
  /\ ~alarm

-----------------------------------------------------------------------------
(* What the refinement of AppendOnceLog relies on besides: which ticks and *)
(* operations the families of the possible power losses hold.              *)

\* A family is the one that processes see, with or without the last tick of
\* the open append; an older journal that it still has is completed.
OneAppend(s) ==
  /\ Len(s.lines) <= Len(Completed(disk))
  /\ \A i \in 1..Len(s.lines) : s.lines[i] = Completed(disk)[i]
  /\ disk.pending = None => Len(s.lines) = Len(disk.lines)
  /\ s.pending # None /\ s.pending # disk.pending => Len(s.lines) = s.pending.base.size + 1

\* The checkpoint records the operation of the tick that it names.
NamesOperation(s) == s.ckpt # None => s.ckpt.op = s.lines[s.ckpt.size].op

\* Ticks that neither checkpoint nor journal knows were written for nobody.
ForeignGrowth(s) ==
  \A i \in 1..Len(s.lines) :
    \/ s.ckpt # None /\ i <= s.ckpt.size
    \/ s.pending # None /\ i = s.pending.base.size + 1
    \/ s.lines[i].op = NoOp

\* A journal is never written for the operation that was published last.
NewOperation(s) ==
  LET n == s.pending.base.size
      op == s.pending.record.op
  IN s.pending # None => n = 0 \/ op = NoOp \/ s.lines[n].op # op

Traced(s) == OneAppend(s) /\ NamesOperation(s) /\ ForeignGrowth(s) /\ NewOperation(s)

\* The tick of a journal is the one that a call asked for.
Records(journal, request) ==
  /\ request.kind # "recover"
  /\ journal.record.user = request.user /\ journal.record.op = request.op

\* A journal of the operation that a call names holds the tick of that call.
Answers(journal, request) ==
  request.kind = "once" /\ journal.record.op = request.op =>
    journal.record.user = request.user

Recovering == Completing \cup {"unlinkSync", "recovered"}

Serving(p) ==
  /\ pc[p] \in Outside => ~own[p]
  /\ pc[p] = "pendSync" => Records(disk.pending, call[p])
  /\ own[p] => job[p] # None /\ Records(job[p], call[p])
  /\ pc[p] \in Recovering => Answers(job[p], call[p])
  /\ pc[p] \in {"unlinkSync", "recovered"} =>
       job[p] # None /\ \E i \in 1..Len(disk.lines) : disk.lines[i] = job[p].record

RInv ==
  /\ IInv
  /\ \A s \in images : Traced(s)
  /\ \A p \in Procs : Serving(p)
=============================================================================
