----------------------------- MODULE TickLedger -----------------------------
(***************************************************************************)
(* The hash-chained tick ledger of collect.py: the file ticks.jsonl, its   *)
(* sidecars ticks.jsonl.ledger-checkpoint.json (the checkpoint) and        *)
(* ticks.jsonl.ledger-pending.json (the pending journal), and the          *)
(* processes that append to it: append_jsonl, append_jsonl_once and        *)
(* recover_pending_jsonl, each under the exclusive flock of the ledger.    *)
(*                                                                         *)
(* Every durable side effect (a rename, an unlink, a write of some bytes,  *)
(* an fsync) is an action of its own, so a process can be interrupted, and *)
(* the machine can lose power, between any two of them.  What a process    *)
(* reads between two side effects is read under the lock and is part of    *)
(* the side effect that follows.                                           *)
(*                                                                         *)
(* Abstractions: a tick is a payload and the link it declares; a SHA-256   *)
(* over a tick is the sequence of payloads it commits to, so equal hashes  *)
(* mean equal chains; a tick occupies RecordBytes bytes, so sizes and      *)
(* offsets count ticks; device, inode, mtime and ctime are one stamp.      *)
(***************************************************************************)
EXTENDS Naturals, Sequences, FiniteSets

CONSTANTS
  Procs,         \* collector daemon, census invocation, recovery tool
  NoProc,        \* the lock's owner when nobody holds it
  Ops,           \* operation ids drawn by _insert_tick_outbox
  NoOp,          \* operation_id None
  Payloads,      \* canonical user payloads
  NoLine,        \* no tick (an empty base, an empty tail)
  None,          \* a sidecar that does not exist, a process without a call
  Requests,      \* the calls the processes make
  LegacyTicks,   \* unchained ticks already in the file at the start
  RecordBytes,   \* bytes of one tick with its newline
  MaxCalls,      \* bound: calls made
  MaxFaults,     \* bound: interruptions and power losses
  MaxExternal    \* bound: unjournaled appends and restored copies

Request == [kind : {"once"}, op : Ops, user : Payloads]
             \cup [kind : {"append"}, op : {NoOp}, user : Payloads]
             \cup [kind : {"recover"}, op : {NoOp}, user : {NoLine}]

OpId == Ops \cup {NoOp}

\* One chained tick.  `op' is history: the operation the tick was written
\* for.  The file does not hold it and no definition of the code reads it.
Line == [user : Payloads, prev : Seq(Payloads), op : OpId]

SameBytes(a, b) == a.user = b.user /\ a.prev = b.prev

\* canonical_sha256 of the n-th chained tick (n = 0: the null link).
Link(l, n) == [j \in 1..n |-> l[j].user]

\* The bytes of a tick after the last newline of the file.
NoTail == [of |-> NoLine, n |-> 0]
Tail_ == {NoTail} \cup [of : Line, n : 1..(RecordBytes - 1)]

Checkpoint == [size : Nat, tip : Line, op : OpId, stamp : Nat]

Base == [fresh : BOOLEAN, size : Nat, prev : Seq(Payloads),
         anchor : Line \cup {NoLine}, stamp : Nat]

Pending == [base : Base, record : Line]

\* What a file system holds of the ledger family.
Store == [exists : BOOLEAN, lines : Seq(Line), tail : Tail_, stamp : Nat,
          ckpt : Checkpoint \cup {None}, pending : Pending \cup {None}]

ASSUME ConstantsAssumption ==
  /\ NoProc \notin Procs
  /\ NoOp \notin Ops
  /\ NoLine \notin Payloads \cup Line
  /\ None \notin Request \cup Checkpoint \cup Pending
  /\ Requests \subseteq Request
  /\ LegacyTicks \in Nat
  /\ RecordBytes \in Nat /\ RecordBytes > 1
  /\ MaxCalls \in Nat /\ MaxFaults \in Nat /\ MaxExternal \in Nat

VARIABLES
  disk,      \* the family as running processes see it
  images,    \* the families a power loss may leave behind
  lock,      \* owner of the flock on ticks.jsonl.lock
  pc,        \* next side effect of each process
  call,      \* the request each process serves
  job,       \* the pending journal each process is completing
  own,       \* whether it is the process's own append (else a recovery)
  acked,     \* history: requests whose call returned normally
  alarm,     \* history: some call found the family inconsistent
  calls, faults, external   \* counters of the bounded events

vars == <<disk, images, lock, pc, call, job, own, acked, alarm,
          calls, faults, external>>
procVars == <<lock, pc, call, job, own>>
counters == <<calls, faults, external>>

Outside == {"idle", "lock"}
Locked == {"inspect", "complete", "freshSync", "suffix", "write", "fsync", "entrySync",
           "ckpt", "ckptSync", "unlink", "unlinkSync", "recovered", "tip",
           "tipSync", "decide", "pendSync"}

TypeOK ==
  /\ disk \in Store
  /\ images \subseteq Store
  /\ lock \in Procs \cup {NoProc}
  /\ pc \in [Procs -> Outside \cup Locked]
  /\ call \in [Procs -> Requests \cup {None}]
  /\ job \in [Procs -> Pending \cup {None}]
  /\ own \in [Procs -> BOOLEAN]
  /\ acked \subseteq Requests
  /\ alarm \in BOOLEAN
  /\ calls \in Nat /\ faults \in Nat /\ external \in Nat

EmptyStore ==
  [exists |-> LegacyTicks > 0, lines |-> <<>>, tail |-> NoTail, stamp |-> 0,
   ckpt |-> None, pending |-> None]

Init ==
  /\ disk = EmptyStore
  /\ images = {EmptyStore}
  /\ lock = NoProc
  /\ pc = [p \in Procs |-> "idle"]
  /\ call = [p \in Procs |-> None]
  /\ job = [p \in Procs |-> None]
  /\ own = [p \in Procs |-> FALSE]
  /\ acked = {}
  /\ alarm = FALSE
  /\ calls = 0 /\ faults = 0 /\ external = 0

-----------------------------------------------------------------------------
(* Side effects on the family.                                             *)

\* A write to the ledger file: visible at once, on disk after the next sync.
WriteFile(s) == disk' = s /\ images' = images \cup {s}

WithSidecars(s, t) == [s EXCEPT !.ckpt = t.ckpt, !.pending = t.pending]

\* A rename or unlink of a sidecar.  The file system journals directory
\* changes in order, but it may save them before older bytes of the ledger.
ChangeSidecar(s) ==
  /\ disk' = s
  /\ images' = images \cup {WithSidecars(t, s) : t \in images \cup {s}}

\* _fsync_directory: no older rename, unlink or creation is lost; bytes of
\* the ledger still may be.
SyncDirectory ==
  /\ images' = {WithSidecars(t, disk) : t \in {u \in images : u.exists = disk.exists}}
  /\ UNCHANGED disk

\* fsync of the ledger: no older byte is lost, but a ledger just created may
\* still be without its directory entry.
SyncLedger(created) ==
  /\ images' = {disk} \cup {t \in images : created /\ ~t.exists}
  /\ UNCHANGED disk

Goto(p, step) == pc' = [pc EXCEPT ![p] = step]

Forget(p) ==
  /\ Goto(p, "idle")
  /\ call' = [call EXCEPT ![p] = None]
  /\ job' = [job EXCEPT ![p] = None]
  /\ own' = [own EXCEPT ![p] = FALSE]

\* The call returns or raises: the `with' block gives the lock back.
Leave(p) ==
  /\ lock' = NoProc
  /\ Forget(p)
  /\ UNCHANGED counters

Return(p) ==
  /\ Leave(p)
  /\ acked' = acked \cup {call[p]}
  /\ UNCHANGED <<disk, images, alarm>>

\* CollectionError because the caller reused an operation id.
Refuse(p) ==
  /\ Leave(p)
  /\ UNCHANGED <<disk, images, acked, alarm>>

\* CollectionError because the ledger family does not fit together.
Alarm(p) ==
  /\ Leave(p)
  /\ alarm' = TRUE
  /\ UNCHANGED <<disk, images, acked>>

-----------------------------------------------------------------------------
(* Reading the family.                                                     *)

\* verify_ledger of the first n chained ticks.
ChainOK(l, n) == \A i \in 1..n : l[i].prev = Link(l, i - 1)

\* verify_ledger of the whole file: a torn last line does not parse.
VerifiedLedger(s) == s.tail.n = 0 /\ ChainOK(s.lines, Len(s.lines))

Anchor(s, n) == IF n = 0 THEN NoLine ELSE s.lines[n]

\* _verify_ledger_prefix of a base of n ticks.
VerifiedPrefix(s, n, prev) == ChainOK(s.lines, n) /\ Link(s.lines, n) = prev

\* Fault: a ledger shorter than the checkpoint passes.
TipIntactUnlessShort(s) ==
  s.exists /\ s.lines # <<>> /\ (s.ckpt.size <= Len(s.lines) =>
                                   SameBytes(s.lines[s.ckpt.size], s.ckpt.tip))

\* The checkpointed tip is still where the checkpoint says.
TipIntact(s) ==
  /\ s.exists
  /\ s.ckpt.size <= Len(s.lines)
  /\ SameBytes(s.lines[s.ckpt.size], s.ckpt.tip)

Grown(s) == Len(s.lines) > s.ckpt.size \/ s.tail.n > 0

NeedsRebind(s) == s.ckpt # None /\ (Grown(s) \/ s.ckpt.stamp # s.stamp)

CheckpointOf(s, op) ==
  [size |-> Len(s.lines), tip |-> s.lines[Len(s.lines)], op |-> op,
   stamp |-> s.stamp]

\* A fresh pending journal (no ledger file yet) beside a checkpoint must be
\* the append that the checkpoint already records.
FreshConflict(s, p) ==
  /\ p.base.fresh
  /\ s.ckpt # None
  /\ \/ s.ckpt.op # p.record.op
     \/ s.ckpt.tip.user # p.record.user
     \/ ~s.exists
     \/ Len(s.lines) # 1
     \/ s.tail.n > 0
     \/ ~TipIntact(s)
     \/ Len(s.lines) = 1 /\ s.lines[1].user # p.record.user
     \/ NeedsRebind(s) /\ ~VerifiedLedger(s)

\* Fault: a torn append is not recognised as a prefix of the record.
SuffixFitsWhole(s, p) ==
  /\ s.tail.n = 0
  /\ Len(s.lines) > p.base.size => SameBytes(s.lines[p.base.size + 1], p.record)
  /\ Len(s.lines) \in {p.base.size, p.base.size + 1}

\* The bytes after the base are a prefix of the pending append.
SuffixFits(s, p) ==
  \/ /\ Len(s.lines) = p.base.size
     /\ s.tail.n > 0 => SameBytes(s.tail.of, p.record)
  \/ /\ Len(s.lines) = p.base.size + 1
     /\ s.tail.n = 0
     /\ SameBytes(s.lines[p.base.size + 1], p.record)

\* Recovery re-verifies a base it did not just read itself.
MustVerifyBase(s, p) ==
  /\ LegacyTicks + p.base.size > 0
  /\ \/ Len(s.lines) > p.base.size
     \/ s.tail.n > 0
     \/ s.stamp # p.base.stamp

PendingFits(s, p) ==
  /\ s.exists \/ p.base.fresh
  /\ SuffixFits(s, p)
  /\ Anchor(s, p.base.size) = p.base.anchor
  /\ MustVerifyBase(s, p) => VerifiedPrefix(s, p.base.size, p.base.prev)

-----------------------------------------------------------------------------
(* _append_jsonl and recover_pending_jsonl, step by step.                  *)

Call(p) ==
  /\ pc[p] = "idle"
  /\ calls < MaxCalls
  /\ \E r \in Requests : call' = [call EXCEPT ![p] = r]
  /\ calls' = calls + 1
  /\ Goto(p, "lock")
  /\ UNCHANGED <<disk, images, lock, job, own, acked, alarm, faults, external>>

Acquire(p) ==
  /\ pc[p] = "lock"
  /\ lock = NoProc
  /\ lock' = p
  /\ Goto(p, "inspect")
  /\ UNCHANGED <<disk, images, call, job, own, acked, alarm, counters>>

\* The deadline passes while another process holds the lock.
LockTimeout(p) ==
  /\ pc[p] = "lock"
  /\ lock # NoProc
  /\ Forget(p)
  /\ UNCHANGED <<disk, images, lock, acked, alarm, counters>>

\* Fault: a journal of the caller's operation is taken for the caller's tick.
ReusedPendingUnchecked(p) == FALSE

ReusedPending(p) ==
  /\ call[p].kind = "once"
  /\ disk.pending.record.op = call[p].op
  /\ disk.pending.record.user # call[p].user

Inspect(p) ==
  /\ pc[p] = "inspect"
  /\ \/ /\ disk.pending = None
        /\ Goto(p, "tip")
        /\ UNCHANGED <<disk, images, lock, call, job, own, acked, alarm, counters>>
     \/ /\ disk.pending # None
        /\ ReusedPending(p)
        /\ Refuse(p)
     \/ /\ disk.pending # None
        /\ ~ReusedPending(p)
        /\ Goto(p, "complete")
        /\ job' = [job EXCEPT ![p] = disk.pending]
        /\ own' = [own EXCEPT ![p] = FALSE]
        /\ UNCHANGED <<disk, images, lock, call, acked, alarm, counters>>

\* _complete_pending_append after the checkpoint of a fresh journal: the end
\* of the file against the journal, up to the reopening of the ledger.
CheckSuffix(p) ==
  \/ /\ ~PendingFits(disk, job[p])
     /\ Alarm(p)
  \/ /\ PendingFits(disk, job[p])
     /\ Goto(p, "write")
     /\ UNCHANGED <<disk, images, lock, call, job, own, acked, alarm, counters>>

\* _complete_pending_append from its start: a fresh journal beside a
\* checkpoint, whose metadata a copied file may have outdated, comes first.
Complete(p) ==
  /\ pc[p] = "complete"
  /\ \/ /\ FreshConflict(disk, job[p])
        /\ Alarm(p)
     \/ /\ ~FreshConflict(disk, job[p])
        /\ job[p].base.fresh /\ NeedsRebind(disk)
        /\ ChangeSidecar([disk EXCEPT !.ckpt = CheckpointOf(disk, disk.ckpt.op)])
        /\ Goto(p, "freshSync")
        /\ UNCHANGED <<lock, call, job, own, acked, alarm, counters>>
     \/ /\ ~FreshConflict(disk, job[p])
        /\ ~(job[p].base.fresh /\ NeedsRebind(disk))
        /\ CheckSuffix(p)

SyncThen(p, from, to) ==
  /\ pc[p] = from
  /\ SyncDirectory
  /\ Goto(p, to)
  /\ UNCHANGED <<lock, call, job, own, acked, alarm, counters>>

FreshSync(p) == SyncThen(p, "freshSync", "suffix")

Suffix(p) == pc[p] = "suffix" /\ CheckSuffix(p)

\* Fault: a resumed append starts from its first byte again.
AppendedNever(s, p) == FALSE

Appended(s, p) == Len(s.lines) = p.base.size + 1

\* Fault: the ledger is opened with O_TRUNC.
WrittenTruncating(s, rec, k) ==
  IF s.tail.n + k = RecordBytes
    THEN [s EXCEPT !.lines = <<rec>>, !.tail = NoTail, !.stamp = @ + 1]
    ELSE [s EXCEPT !.tail = [of |-> rec, n |-> s.tail.n + k], !.stamp = @ + 1]

\* One os.write: k more bytes of the record reach the file.
Written(s, rec, k) ==
  IF s.tail.n + k = RecordBytes
    THEN [s EXCEPT !.lines = Append(@, rec), !.tail = NoTail, !.stamp = @ + 1]
    ELSE [s EXCEPT !.tail = [of |-> rec, n |-> s.tail.n + k], !.stamp = @ + 1]

\* Open with O_CREAT and O_APPEND, then write what is missing.
Write(p) ==
  /\ pc[p] = "write"
  /\ \/ /\ ~disk.exists
        /\ WriteFile([disk EXCEPT !.exists = TRUE, !.stamp = @ + 1])
        /\ UNCHANGED pc
     \/ /\ disk.exists /\ ~Appended(disk, job[p])
        /\ \E k \in 1..(RecordBytes - disk.tail.n) :
             /\ WriteFile(Written(disk, job[p].record, k))
             /\ Goto(p, IF disk.tail.n + k = RecordBytes THEN "fsync" ELSE "write")
     \/ /\ disk.exists /\ Appended(disk, job[p])
        /\ Goto(p, "fsync")
        /\ UNCHANGED <<disk, images>>
  /\ UNCHANGED <<lock, call, job, own, acked, alarm, counters>>

\* Fault: the directory entry of a new ledger is not synced.
FsyncWithoutEntry(p) ==
  /\ pc[p] = "fsync"
  /\ SyncLedger(job[p].base.fresh)
  /\ Goto(p, "ckpt")
  /\ UNCHANGED <<lock, call, job, own, acked, alarm, counters>>

Fsync(p) ==
  /\ pc[p] = "fsync"
  /\ SyncLedger(job[p].base.fresh)
  /\ Goto(p, IF job[p].base.fresh THEN "entrySync" ELSE "ckpt")
  /\ UNCHANGED <<lock, call, job, own, acked, alarm, counters>>

EntrySync(p) == SyncThen(p, "entrySync", "ckpt")

SaveCheckpoint(p) ==
  /\ pc[p] = "ckpt"
  /\ ChangeSidecar([disk EXCEPT !.ckpt = CheckpointOf(disk, job[p].record.op)])
  /\ Goto(p, "ckptSync")
  /\ UNCHANGED <<lock, call, job, own, acked, alarm, counters>>

CheckpointSync(p) == SyncThen(p, "ckptSync", "unlink")

UnlinkPending(p) ==
  /\ pc[p] = "unlink"
  /\ ChangeSidecar([disk EXCEPT !.pending = None])
  /\ Goto(p, "unlinkSync")
  /\ UNCHANGED <<lock, call, job, own, acked, alarm, counters>>

UnlinkSync(p) == SyncThen(p, "unlinkSync", "recovered")

\* The completed append was the caller's own, or the same operation, or (for
\* an append without an operation id) the same payload.
Satisfied(p) ==
  \/ own[p]
  \/ call[p].kind = "once" /\ job[p].record.op = call[p].op
  \/ call[p].kind = "append" /\ job[p].record.user = call[p].user

Recovered(p) ==
  /\ pc[p] = "recovered"
  /\ \/ /\ Satisfied(p)
        /\ Return(p)
     \/ /\ ~Satisfied(p)
        /\ Goto(p, "tip")
        /\ UNCHANGED <<disk, images, lock, call, job, own, acked, alarm, counters>>

\* Fault: a ledger that grew past its checkpoint is refused, not rebound.
TipRefusedIfGrown(s) ==
  IF s.ckpt = None THEN s.exists /\ ~VerifiedLedger(s) ELSE ~TipIntact(s) \/ Grown(s)

\* _ledger_tip_for_append: bootstrap by a full walk, trust the checkpoint, or
\* walk the ledger and rebind the checkpoint.  Growth the journal did not
\* record forgets the operation; a copied file keeps it.
TipRefused(s) ==
  IF s.ckpt = None
    THEN s.exists /\ ~VerifiedLedger(s)
    ELSE \/ ~TipIntact(s)
         \/ NeedsRebind(s) /\ ~VerifiedLedger(s)

ReboundOp(s) == IF Grown(s) THEN NoOp ELSE s.ckpt.op

Tip(p) ==
  /\ pc[p] = "tip"
  /\ \/ /\ TipRefused(disk)
        /\ Alarm(p)
     \/ /\ ~TipRefused(disk)
        /\ ~NeedsRebind(disk)
        /\ Goto(p, "decide")
        /\ UNCHANGED <<disk, images, lock, call, job, own, acked, alarm, counters>>
     \/ /\ ~TipRefused(disk)
        /\ NeedsRebind(disk)
        /\ ChangeSidecar([disk EXCEPT !.ckpt = CheckpointOf(disk, ReboundOp(disk))])
        /\ Goto(p, "tipSync")
        /\ UNCHANGED <<lock, call, job, own, acked, alarm, counters>>

TipSync(p) == SyncThen(p, "tipSync", "decide")

\* Fault: the operation recorded in the checkpoint is not consulted.
AlreadyPublishedUnchecked(p) == FALSE

\* The checkpoint already records this operation.
AlreadyPublished(p) ==
  /\ call[p].kind = "once"
  /\ disk.ckpt # None
  /\ disk.ckpt.op = call[p].op

NewPending(s, r) ==
  LET n == Len(s.lines)
  IN [base |-> [fresh |-> ~s.exists, size |-> n, prev |-> Link(s.lines, n),
                anchor |-> Anchor(s, n), stamp |-> s.stamp],
      record |-> [user |-> r.user, prev |-> Link(s.lines, n), op |-> r.op]]

Decide(p) ==
  /\ pc[p] = "decide"
  /\ \/ /\ call[p].kind = "recover"
        /\ Return(p)
     \/ /\ AlreadyPublished(p)
        /\ disk.ckpt.tip.user = call[p].user
        /\ Return(p)
     \/ /\ AlreadyPublished(p)
        /\ disk.ckpt.tip.user # call[p].user
        /\ Refuse(p)
     \/ /\ call[p].kind # "recover"
        /\ ~AlreadyPublished(p)
        /\ ChangeSidecar([disk EXCEPT !.pending = NewPending(disk, call[p])])
        /\ Goto(p, "pendSync")
        /\ UNCHANGED <<lock, call, job, own, acked, alarm, counters>>

PendingSync(p) ==
  /\ pc[p] = "pendSync"
  /\ SyncDirectory
  /\ Goto(p, "complete")
  /\ job' = [job EXCEPT ![p] = disk.pending]
  /\ own' = [own EXCEPT ![p] = TRUE]
  /\ UNCHANGED <<lock, call, acked, alarm, counters>>

-----------------------------------------------------------------------------
(* The environment.                                                        *)

\* The process is killed, or a system call of it fails and the error leaves
\* the `with' block: the lock is released, what was done stays done.
Interrupt(p) ==
  /\ pc[p] # "idle"
  /\ faults < MaxFaults
  /\ faults' = faults + 1
  /\ lock' = IF lock = p THEN NoProc ELSE lock
  /\ Forget(p)
  /\ UNCHANGED <<disk, images, acked, alarm, calls, external>>

\* The machine stops: what was not synced may or may not be there.
PowerLoss ==
  /\ faults < MaxFaults
  /\ faults' = faults + 1
  /\ \E s \in images : disk' = s /\ images' = {s}
  /\ lock' = NoProc
  /\ pc' = [p \in Procs |-> "idle"]
  /\ call' = [p \in Procs |-> None]
  /\ job' = [p \in Procs |-> None]
  /\ own' = [p \in Procs |-> FALSE]
  /\ UNCHANGED <<acked, alarm, calls, external>>

\* A collector older than the checkpoint appends under the same lock.
UnjournaledAppend ==
  /\ external < MaxExternal
  /\ lock = NoProc
  /\ disk.pending = None
  /\ external' = external + 1
  /\ \E u \in Payloads :
       LET n == Len(disk.lines)
           line == [user |-> u, prev |-> Link(disk.lines, n), op |-> NoOp]
       IN disk' = [disk EXCEPT !.exists = TRUE, !.stamp = @ + 1,
                               !.lines = Append(@, line)]
  /\ images' = {disk'}
  /\ UNCHANGED <<procVars, acked, alarm, calls, faults>>

\* The operator restores the family from a copy: same bytes, new metadata.
RestoreCopy ==
  /\ external < MaxExternal
  /\ lock = NoProc
  /\ disk.exists
  /\ external' = external + 1
  /\ disk' = [disk EXCEPT !.stamp = @ + 1]
  /\ images' = {disk'}
  /\ UNCHANGED <<procVars, acked, alarm, calls, faults>>

Step(p) ==
  \/ Acquire(p) \/ LockTimeout(p) \/ Inspect(p) \/ Complete(p) \/ FreshSync(p)
  \/ Suffix(p) \/ Write(p) \/ Fsync(p) \/ EntrySync(p) \/ SaveCheckpoint(p)
  \/ CheckpointSync(p) \/ UnlinkPending(p) \/ UnlinkSync(p) \/ Recovered(p) \/ Tip(p)
  \/ TipSync(p) \/ Decide(p) \/ PendingSync(p)

Next ==
  \/ \E p \in Procs : Call(p) \/ Step(p) \/ Interrupt(p)
  \/ PowerLoss \/ UnjournaledAppend \/ RestoreCopy

Spec == Init /\ [][Next]_vars

-----------------------------------------------------------------------------
(* What the ledger promises.                                               *)

Served(r, l) ==
  \E i \in 1..Len(l) : l[i].user = r.user /\ (r.kind = "once" => l[i].op = r.op)

\* Whatever is interrupted, the complete lines always form one chain, in the
\* file and in every file a power loss could leave: a resumed append repeats
\* no byte and two appenders never write siblings (collect.py:2456-2458).
ChainIntact == \A s \in images \cup {disk} : ChainOK(s.lines, Len(s.lines))

\* Recovery always succeeds: no interruption, power loss, restored copy or
\* verified foreign append leaves a family that a later call refuses.
NeverWedged == ~alarm

\* The checkpoint never names a tick that a power loss could take away.
CheckpointAnchored ==
  \A s \in images \cup {disk} : s.ckpt # None => TipIntact(s)

\* What had reached the disk is never rewritten: every possible crash state
\* after a step extends a possible crash state before it.
LedgerOnlyGrows ==
  [][\A s \in images' : \E t \in images :
       /\ Len(t.lines) <= Len(s.lines)
       /\ \A i \in 1..Len(t.lines) : t.lines[i] = s.lines[i]]_vars

-----------------------------------------------------------------------------
(* The ledger implements AppendOnceLog: a tick is published at the moment  *)
(* no power loss can take its journal entry away any more.                 *)

\* The ticks a family amounts to once its journal is completed.
Completed(s) ==
  IF s.pending # None /\ Len(s.lines) = s.pending.base.size
    THEN Append(s.lines, s.pending.record) ELSE s.lines

Ticks(l) == [i \in 1..Len(l) |-> [user |-> l[i].user, op |-> l[i].op]]

Logical(s) == Ticks(Completed(s))

DurableLog ==
  LET logs == {Logical(s) : s \in images}
  IN CHOOSE l \in logs : \A m \in logs : Len(l) <= Len(m)

Abstract == INSTANCE AppendOnceLog WITH log <- DurableLog

\* Every step of the ledger family is an atomic publication, an
\* acknowledgement of a published tick, or invisible.
ImplementsAppendOnceLog == Abstract!Spec
=============================================================================
