-------------------------- MODULE TickLedgerProofs --------------------------
(***************************************************************************)
(* The tick ledger for every set of processes, operations, payloads and    *)
(* calls and every bound.  TickLedgerInvariant!IInv is inductive: the      *)
(* lemmas about one family come first (each change the code makes to a     *)
(* sound family leaves a sound family, and a sound family passes every     *)
(* check of the code).  Then TickLedger implements AppendOnceLog, and what *)
(* has reached the disk only grows: RInv adds to IInv which ticks and      *)
(* operations the families of the possible power losses hold, and a tick   *)
(* is published by the step after which no power loss can take its append  *)
(* away.  Last, a ledger that was rolled back alone (TickLedgerRollback)   *)
(* stays as it is.                                                         *)
(***************************************************************************)
EXTENDS TickLedgerInvariant, TickLedgerRollback, TLAPS

-----------------------------------------------------------------------------
(* Lines and links.                                                        *)

\* The hash of a tick is a sequence of payloads.
LEMMA LinkType ==
  ASSUME NEW l \in Seq(Line), NEW n \in 0..Len(l)
  PROVE  Link(l, n) \in Seq(Payloads)
<1>1. \A j \in 1..n : l[j].user \in Payloads
  <2> TAKE j \in 1..n
  <2>1. l[j] \in Line
    OBVIOUS
  <2> QED BY <2>1 DEF Line
<1> QED BY <1>1 DEF Link

\* A longer file keeps the hashes of its earlier ticks.
LEMMA LinkAppend ==
  ASSUME NEW l \in Seq(Line), NEW x \in Line, NEW n \in 0..Len(l)
  PROVE  Link(Append(l, x), n) = Link(l, n)
BY DEF Link

\* Appending a tick that links to the tip extends the chain.
LEMMA ChainAppend ==
  ASSUME NEW l \in Seq(Line), NEW x \in Line,
         ChainOK(l, Len(l)), x.prev = Link(l, Len(l))
  PROVE  ChainOK(Append(l, x), Len(Append(l, x)))
<1> DEFINE m == Append(l, x)
<1>1. m \in Seq(Line) /\ Len(m) = Len(l) + 1 /\ m[Len(l) + 1] = x
      /\ \A i \in 1..Len(l) : m[i] = l[i]
  OBVIOUS
<1>2. ASSUME NEW i \in 1..Len(m) PROVE m[i].prev = Link(m, i - 1)
  <2>1. i - 1 \in 0..Len(l) /\ Link(m, i - 1) = Link(l, i - 1)
    BY <1>1, LinkAppend
  <2>2. CASE i = Len(l) + 1
    BY <1>1, <2>1, <2>2
  <2>3. CASE i \in 1..Len(l)
    BY <1>1, <2>1, <2>3 DEF ChainOK
  <2> QED BY <1>1, <2>2, <2>3
<1> QED BY <1>2 DEF ChainOK

-----------------------------------------------------------------------------
(* Families.                                                               *)

\* The fields of a family; a tail is shorter than a tick.
LEMMA StoreFields ==
  ASSUME NEW s \in Store
  PROVE  /\ s.exists \in BOOLEAN /\ s.lines \in Seq(Line) /\ s.tail \in Tail_
         /\ s.stamp \in Nat /\ s.ckpt \in Checkpoint \cup {None}
         /\ s.pending \in Pending \cup {None}
         /\ s.tail.n \in 0..(RecordBytes - 1)
         /\ s.tail.n = 0 => s.tail = NoTail
         /\ s = [exists |-> s.exists, lines |-> s.lines, tail |-> s.tail,
                 stamp |-> s.stamp, ckpt |-> s.ckpt, pending |-> s.pending]
<1>1. s.tail \in Tail_
  BY DEF Store
<1>2. s.tail.n \in 0..(RecordBytes - 1) /\ (s.tail.n = 0 => s.tail = NoTail)
  BY <1>1, ConstantsAssumption DEF Tail_, NoTail
<1> QED BY <1>1, <1>2 DEF Store

\* A journal names its base and a tick.
LEMMA PendingFields ==
  ASSUME NEW q \in Pending
  PROVE  /\ q # None
         /\ q.record \in Line /\ q.record.op \in OpId /\ q.record.user \in Payloads
         /\ q.base \in Base /\ q.base.size \in Nat /\ q.base.fresh \in BOOLEAN
BY ConstantsAssumption DEF Pending, Base, Line

\* Soundness is about the bytes of the ledger and the two sidecars only.
LEMMA SoundSameFile ==
  ASSUME NEW s \in Store, NEW t \in Store, Sound(s), SameFile(s, t),
         s.ckpt = t.ckpt, s.pending = t.pending
  PROVE  Sound(t)
BY DEF Sound, SameFile, SoundCheckpoint, SoundPending, Anchor

\* The mixture of one family's ledger with the sidecars of another one.
LEMMA Mixed ==
  ASSUME NEW s \in Store, NEW t \in Store
  PROVE  /\ WithSidecars(s, t) \in Store
         /\ WithSidecars(s, t).ckpt = t.ckpt
         /\ WithSidecars(s, t).pending = t.pending
         /\ SameFile(WithSidecars(s, t), s)
         /\ WithSidecars(s, s) = s
<1>1. WithSidecars(s, t) = [exists |-> s.exists, lines |-> s.lines, tail |-> s.tail,
                            stamp |-> s.stamp, ckpt |-> t.ckpt, pending |-> t.pending]
  BY StoreFields DEF WithSidecars, Store
<1>2. WithSidecars(s, t) \in Store
  <2>1. s.exists \in BOOLEAN /\ s.lines \in Seq(Line) /\ s.tail \in Tail_ /\ s.stamp \in Nat
        /\ t.ckpt \in Checkpoint \cup {None} /\ t.pending \in Pending \cup {None}
    BY StoreFields
  <2> QED BY <1>1, <2>1 DEF Store
<1>3. WithSidecars(s, s) = s
  BY StoreFields DEF WithSidecars, Store
<1> QED BY <1>1, <1>2, <1>3 DEF SameFile

\* Some more bytes of the journaled record leave a sound family.
LEMMA WrittenSound ==
  ASSUME NEW s \in Store, Sound(s), s.pending # None, s.exists,
         ~Appended(s, s.pending), NEW k \in 1..(RecordBytes - s.tail.n)
  PROVE  /\ Written(s, s.pending.record, k) \in Store
         /\ Sound(Written(s, s.pending.record, k))
         /\ Written(s, s.pending.record, k).pending = s.pending
         /\ Written(s, s.pending.record, k).ckpt = s.ckpt
         /\ s.tail.n + k = RecordBytes =>
              Appended(Written(s, s.pending.record, k), s.pending)
<1> DEFINE r == s.pending.record
           b == s.pending.base
           w == Written(s, r, k)
<1>1. r \in Line /\ b \in Base /\ s.pending \in Pending /\ b.size \in Nat
  BY StoreFields, PendingFields
<1>2. s.lines \in Seq(Line) /\ s.tail.n \in 0..(RecordBytes - 1)
      /\ RecordBytes \in Nat /\ k \in Nat /\ s.stamp \in Nat /\ s.exists \in BOOLEAN
      /\ s.ckpt \in Checkpoint \cup {None} /\ s.pending \in Pending \cup {None}
  BY StoreFields, ConstantsAssumption
<1>3. Len(s.lines) = b.size /\ r.prev = Link(s.lines, Len(s.lines))
  BY <1>1, <1>2 DEF Sound, SoundPending, Appended
<1>4. CASE s.tail.n + k = RecordBytes
  <2>1. w = [exists |-> s.exists, lines |-> Append(s.lines, r), tail |-> NoTail,
             stamp |-> s.stamp + 1, ckpt |-> s.ckpt, pending |-> s.pending]
    BY <1>4, StoreFields DEF Written, Store
  <2>2. w \in Store
    <3>1. Append(s.lines, r) \in Seq(Line) /\ NoTail \in Tail_ /\ s.stamp + 1 \in Nat
      BY <1>1, <1>2 DEF Tail_
    <3> HIDE DEF w
    <3> QED BY <1>2, <2>1, <3>1 DEF Store
  <2>3. w.lines = Append(s.lines, r) /\ w.tail = NoTail /\ w.ckpt = s.ckpt
        /\ w.pending = s.pending /\ w.exists = s.exists
    BY <2>1
  <2>4. ChainOK(w.lines, Len(w.lines))
    BY <1>1, <1>2, <1>3, <2>3, ChainAppend DEF Sound
  <2>5. Len(w.lines) = Len(s.lines) + 1 /\ w.lines[b.size + 1] = r
        /\ \A i \in 1..Len(s.lines) : w.lines[i] = s.lines[i]
    BY <1>1, <1>2, <1>3, <2>3
  <2>6. SoundCheckpoint(w)
    BY <1>2, <2>3, <2>5 DEF Sound, SoundCheckpoint
  <2>7. Link(w.lines, b.size) = Link(s.lines, b.size) /\ Anchor(w, b.size) = Anchor(s, b.size)
    BY <1>1, <1>2, <1>3, <2>3, <2>5, LinkAppend DEF Anchor
  <2>8. SoundPending(w)
    BY <1>1, <1>2, <1>3, <2>3, <2>5, <2>7 DEF Sound, SoundPending, NoTail, SoundCheckpoint
  <2> QED BY <1>3, <2>2, <2>3, <2>4, <2>5, <2>6, <2>8 DEF Sound, Appended
<1>5. CASE s.tail.n + k # RecordBytes
  <2> DEFINE u == [of |-> r, n |-> s.tail.n + k]
  <2>1. w = [exists |-> s.exists, lines |-> s.lines, tail |-> u,
             stamp |-> s.stamp + 1, ckpt |-> s.ckpt, pending |-> s.pending]
    BY <1>5, StoreFields DEF Written, Store
  <2>2. u \in Tail_ /\ s.stamp + 1 \in Nat
    BY <1>1, <1>2, <1>5 DEF Tail_
  <2>3. w \in Store
    <3> HIDE DEF w, u
    <3> QED BY <1>2, <2>1, <2>2 DEF Store
  <2>4. w.lines = s.lines /\ w.tail.of = r /\ w.ckpt = s.ckpt
        /\ w.pending = s.pending /\ w.exists = s.exists
    BY <2>1
  <2>5. SoundPending(w)
    BY <1>1, <1>2, <1>3, <2>4 DEF Sound, SoundPending, Anchor
  <2> QED BY <1>1, <1>5, <2>3, <2>4, <2>5 DEF Sound, SoundCheckpoint
<1> QED BY <1>4, <1>5

\* The bytes of a sound family under new metadata are a sound family.
LEMMA CopySound ==
  ASSUME NEW s \in Store, Sound(s)
  PROVE  [s EXCEPT !.stamp = @ + 1] \in Store /\ Sound([s EXCEPT !.stamp = @ + 1])
<1> DEFINE w == [s EXCEPT !.stamp = @ + 1]
<1>1. w = [exists |-> s.exists, lines |-> s.lines, tail |-> s.tail,
           stamp |-> s.stamp + 1, ckpt |-> s.ckpt, pending |-> s.pending]
  BY StoreFields DEF Store
<1>2. SameFile(s, w) /\ s.ckpt = w.ckpt /\ s.pending = w.pending
  BY <1>1 DEF SameFile
<1>3. w \in Store
  <2>1. s.exists \in BOOLEAN /\ s.lines \in Seq(Line) /\ s.tail \in Tail_
        /\ s.stamp + 1 \in Nat /\ s.ckpt \in Checkpoint \cup {None}
        /\ s.pending \in Pending \cup {None}
    BY StoreFields
  <2> HIDE DEF w
  <2> QED BY <1>1, <2>1 DEF Store
<1> QED BY <1>2, <1>3, SoundSameFile

\* Creating the ledger file leaves a sound family.
LEMMA CreatedSound ==
  ASSUME NEW s \in Store, Sound(s)
  PROVE  LET w == [s EXCEPT !.exists = TRUE, !.stamp = @ + 1]
         IN w \in Store /\ Sound(w) /\ w.lines = s.lines /\ w.ckpt = s.ckpt
            /\ w.pending = s.pending
<1> DEFINE w == [s EXCEPT !.exists = TRUE, !.stamp = @ + 1]
<1>1. s.lines \in Seq(Line) /\ s.tail \in Tail_ /\ s.stamp \in Nat
      /\ s.ckpt \in Checkpoint \cup {None} /\ s.pending \in Pending \cup {None}
  BY StoreFields
<1>2. w = [exists |-> TRUE, lines |-> s.lines, tail |-> s.tail,
           stamp |-> s.stamp + 1, ckpt |-> s.ckpt, pending |-> s.pending]
  <2>1. ASSUME NEW v, v = [s EXCEPT !.exists = TRUE, !.stamp = @ + 1]
        PROVE  v = [exists |-> TRUE, lines |-> s.lines, tail |-> s.tail,
                    stamp |-> s.stamp + 1, ckpt |-> s.ckpt, pending |-> s.pending]
    BY <2>1, StoreFields DEF Store
  <2> QED BY <2>1
<1>3. w.exists /\ w.lines = s.lines /\ w.tail = s.tail /\ w.ckpt = s.ckpt
      /\ w.pending = s.pending
  BY <1>2
<1>4. w \in Store
  <2>1. w = [exists |-> w.exists, lines |-> s.lines, tail |-> s.tail,
             stamp |-> w.stamp, ckpt |-> s.ckpt, pending |-> s.pending]
        /\ w.exists \in BOOLEAN /\ w.stamp \in Nat
    BY <1>1, <1>2
  <2> HIDE DEF w
  <2> QED BY <1>1, <2>1 DEF Store
<1>5. Sound(w)
  <2> HIDE DEF w
  <2> QED BY <1>3 DEF Sound, SoundCheckpoint, SoundPending, Anchor
<1> QED BY <1>3, <1>4, <1>5

\* A checkpoint of the whole ledger, naming the operation of the open append
\* if that append is complete, leaves a sound family.
LEMMA CheckpointSound ==
  ASSUME NEW s \in Store, Sound(s), s.lines # <<>>, NEW op \in OpId,
         s.pending # None /\ Appended(s, s.pending) => op = s.pending.record.op
  PROVE  /\ [s EXCEPT !.ckpt = CheckpointOf(s, op)] \in Store
         /\ Sound([s EXCEPT !.ckpt = CheckpointOf(s, op)])
         /\ SameFile([s EXCEPT !.ckpt = CheckpointOf(s, op)], s)
         /\ [s EXCEPT !.ckpt = CheckpointOf(s, op)].pending = s.pending
         /\ [s EXCEPT !.ckpt = CheckpointOf(s, op)].stamp = s.stamp
         /\ [s EXCEPT !.ckpt = CheckpointOf(s, op)].ckpt = CheckpointOf(s, op)
         /\ CheckpointOf(s, op) # None
<1> DEFINE c == CheckpointOf(s, op)
           w == [s EXCEPT !.ckpt = CheckpointOf(s, op)]
<1>1. s.lines \in Seq(Line) /\ Len(s.lines) \in Nat /\ Len(s.lines) > 0
      /\ s.lines[Len(s.lines)] \in Line /\ s.stamp \in Nat
      /\ s.exists \in BOOLEAN /\ s.tail \in Tail_ /\ s.pending \in Pending \cup {None}
  BY StoreFields
<1>2. c \in Checkpoint /\ c # None
  BY <1>1, ConstantsAssumption DEF CheckpointOf, Checkpoint
<1>3. w = [exists |-> s.exists, lines |-> s.lines, tail |-> s.tail,
           stamp |-> s.stamp, ckpt |-> c, pending |-> s.pending]
  BY StoreFields DEF Store
<1>4. w \in Store
  <2> HIDE DEF w, c
  <2> QED BY <1>1, <1>2, <1>3 DEF Store
<1>5. w.ckpt = c /\ w.pending = s.pending /\ SameFile(w, s) /\ w.stamp = s.stamp
  BY <1>3 DEF SameFile
<1>6. c.size = Len(s.lines) /\ c.tip = s.lines[Len(s.lines)] /\ c.op = op
  BY DEF CheckpointOf
<1>7. SoundCheckpoint(w)
  <2> HIDE DEF w, c
  <2> QED BY <1>1, <1>5, <1>6 DEF SoundCheckpoint, SameFile
<1>8. SoundPending(w)
  <2> HIDE DEF w, c
  <2>1. s.pending # None => s.pending.base.size \in Nat
    BY StoreFields, PendingFields
  <2> QED BY <1>1, <1>5, <1>6, <2>1 DEF Sound, SoundPending, SameFile, Anchor, Appended
<1>9. Sound(w)
  <2> HIDE DEF w, c
  <2> QED BY <1>5, <1>7, <1>8 DEF Sound, SameFile
<1> QED BY <1>2, <1>4, <1>5, <1>9

\* Removing the journal of a complete append leaves a sound family.
LEMMA UnlinkSound ==
  ASSUME NEW s \in Store, Sound(s), s.tail = NoTail
  PROVE  /\ [s EXCEPT !.pending = None] \in Store
         /\ Sound([s EXCEPT !.pending = None])
         /\ SameFile([s EXCEPT !.pending = None], s)
         /\ [s EXCEPT !.pending = None].pending = None
         /\ [s EXCEPT !.pending = None].ckpt = s.ckpt
<1> DEFINE w == [s EXCEPT !.pending = None]
<1>1. s.lines \in Seq(Line) /\ s.stamp \in Nat /\ s.exists \in BOOLEAN
      /\ s.tail \in Tail_ /\ s.ckpt \in Checkpoint \cup {None}
  BY StoreFields
<1>2. w = [exists |-> s.exists, lines |-> s.lines, tail |-> s.tail,
           stamp |-> s.stamp, ckpt |-> s.ckpt, pending |-> None]
  BY StoreFields DEF Store
<1>3. w \in Store /\ SameFile(w, s) /\ w.pending = None /\ w.ckpt = s.ckpt
  <2>1. SameFile(w, s) /\ w.pending = None /\ w.ckpt = s.ckpt
    BY <1>2 DEF SameFile
  <2> HIDE DEF w
  <2> QED BY <1>1, <1>2, <2>1 DEF Store
<1>4. Sound(w)
  <2> HIDE DEF w
  <2> QED BY <1>3 DEF Sound, SameFile, SoundCheckpoint, SoundPending
<1> QED BY <1>3, <1>4

\* A new journal describes the family it is written beside.
LEMMA JournalSound ==
  ASSUME NEW s \in Store, Sound(s), s.pending = None,
         NEW r \in Requests, r.kind # "recover"
  PROVE  /\ [s EXCEPT !.pending = NewPending(s, r)] \in Store
         /\ Sound([s EXCEPT !.pending = NewPending(s, r)])
         /\ SameFile([s EXCEPT !.pending = NewPending(s, r)], s)
         /\ [s EXCEPT !.pending = NewPending(s, r)].pending = NewPending(s, r)
         /\ NewPending(s, r) # None
<1> DEFINE n == Len(s.lines)
           q == NewPending(s, r)
           w == [s EXCEPT !.pending = NewPending(s, r)]
<1>1. s.lines \in Seq(Line) /\ n \in Nat /\ s.stamp \in Nat /\ s.exists \in BOOLEAN
      /\ s.tail \in Tail_ /\ s.ckpt \in Checkpoint \cup {None}
  BY StoreFields
<1>2. Link(s.lines, n) \in Seq(Payloads)
  BY <1>1, LinkType
<1>3. Anchor(s, n) \in Line \cup {NoLine}
  BY <1>1 DEF Anchor
<1>4. r.user \in Payloads /\ r.op \in OpId
  BY ConstantsAssumption DEF Request, OpId
<1>5. /\ q.base = [fresh |-> ~s.exists, size |-> n, prev |-> Link(s.lines, n),
                   anchor |-> Anchor(s, n), stamp |-> s.stamp]
      /\ q.record = [user |-> r.user, prev |-> Link(s.lines, n), op |-> r.op]
      /\ q = [base |-> q.base, record |-> q.record]
  BY DEF NewPending
<1>6. q \in Pending /\ q # None
  <2>1. q.base \in Base
    <3> HIDE DEF q
    <3> QED BY <1>1, <1>2, <1>3, <1>5 DEF Base
  <2>2. q.record \in Line
    <3> HIDE DEF q
    <3> QED BY <1>2, <1>4, <1>5 DEF Line
  <2>3. q \in Pending
    <3> HIDE DEF q
    <3> QED BY <1>5, <2>1, <2>2 DEF Pending
  <2> QED BY <2>3, PendingFields
<1>7. w = [exists |-> s.exists, lines |-> s.lines, tail |-> s.tail,
           stamp |-> s.stamp, ckpt |-> s.ckpt, pending |-> q]
  BY StoreFields DEF Store
<1>8. SameFile(w, s) /\ w.pending = q /\ w.ckpt = s.ckpt
  BY <1>7 DEF SameFile
<1>9. w \in Store
  <2> HIDE DEF w, q
  <2> QED BY <1>1, <1>6, <1>7 DEF Store
<1>10. SoundPending(w)
  <2> HIDE DEF w, q
  <2>1. q.base.size = n /\ q.base.fresh = ~s.exists /\ q.base.prev = Link(s.lines, n)
        /\ q.base.anchor = Anchor(s, n) /\ q.record.prev = Link(s.lines, n)
    BY <1>5
  <2>2. s.tail.n = 0
    BY DEF Sound, NoTail
  <2>3. ~s.exists => n = 0 /\ ~(LegacyTicks > 0)
    BY <1>1 DEF Sound
  <2>4. s.ckpt # None => s.ckpt.size <= n
    BY <1>1 DEF Sound, SoundCheckpoint
  <2>5. s.ckpt # None => s.ckpt.size # n + 1
    BY <1>1, <2>4 DEF Sound, SoundCheckpoint
  <2>6. w.tail = s.tail /\ w.lines = s.lines /\ w.exists = s.exists
    BY <1>8 DEF SameFile
  <2>7. Anchor(w, n) = Anchor(s, n)
    BY <2>6 DEF Anchor
  <2>8. (w.exists \/ q.base.fresh) /\ (q.base.fresh => n = 0 /\ ~(LegacyTicks > 0))
    BY <1>1, <2>1, <2>3, <2>6
  <2>9. q.base.fresh => n = 0 /\ LegacyTicks = 0
    BY <2>8, ConstantsAssumption
  <2> HIDE DEF n
  <2> QED BY <1>1, <1>8, <2>1, <2>2, <2>5, <2>6, <2>7, <2>8, <2>9 DEF SoundPending, n
<1>11. Sound(w)
  <2> HIDE DEF w, q
  <2> QED BY <1>6, <1>8, <1>10 DEF Sound, SameFile, SoundCheckpoint
<1> QED BY <1>6, <1>8, <1>9, <1>11

\* Without a journal, the next append finds its tip.
LEMMA NoRefusal ==
  ASSUME NEW s \in Store, Sound(s), s.pending = None
  PROVE  ~TipRefused(s)
<1>1. s.tail.n = 0 /\ VerifiedLedger(s)
  BY DEF Sound, NoTail, VerifiedLedger
<1>2. s.ckpt # None => TipIntact(s)
  BY StoreFields DEF Sound, SoundCheckpoint, TipIntact, SameBytes
<1> QED BY <1>1, <1>2 DEF TipRefused

\* The journal of a sound family can be completed.
LEMMA PendingCompletes ==
  ASSUME NEW s \in Store, Sound(s), s.pending # None
  PROVE  PendingFits(s, s.pending) /\ ~FreshConflict(s, s.pending)
<1> DEFINE q == s.pending
           b == s.pending.base
<1>1. q \in Pending /\ b.size \in Nat /\ s.lines \in Seq(Line) /\ Len(s.lines) \in Nat
  BY StoreFields, PendingFields
<1>2. SoundPending(s)
  BY DEF Sound
<1>3. SuffixFits(s, q)
  BY <1>1, <1>2, StoreFields DEF SuffixFits, SoundPending, SameBytes, NoTail
<1>4. VerifiedPrefix(s, b.size, b.prev)
  BY <1>1, <1>2 DEF VerifiedPrefix, SoundPending, Sound, ChainOK
<1>5. PendingFits(s, q)
  BY <1>2, <1>3, <1>4 DEF PendingFits, SoundPending
<1>6. ASSUME b.fresh, s.ckpt # None PROVE ~FreshConflict(s, q)
  <2>1. b.size = 0 /\ s.ckpt.size = 1 /\ Len(s.lines) = 1
    <3>1. b.size = 0 /\ Len(s.lines) <= b.size + 1
      BY <1>2, <1>6 DEF SoundPending
    <3>2. s.ckpt.size \in Nat /\ 1 <= s.ckpt.size /\ s.ckpt.size <= Len(s.lines)
      BY <1>1, <1>6 DEF Sound, SoundCheckpoint
    <3>3. Len(s.lines) \in Nat
      BY <1>1
    <3>4. Len(s.lines) <= 1
      BY <3>1
    <3>5. \A i, n \in Nat : 1 <= i /\ i <= n /\ n <= 1 => i = 1 /\ n = 1
      OBVIOUS
    <3> QED BY <3>1, <3>2, <3>3, <3>4, <3>5
  <2>2. s.lines[1] = q.record /\ s.tail = NoTail /\ s.ckpt.op = q.record.op
        /\ s.ckpt.tip = q.record /\ s.exists
    BY <1>1, <1>2, <1>6, <2>1 DEF Sound, SoundPending, SoundCheckpoint
  <2>3. TipIntact(s) /\ VerifiedLedger(s)
    BY <2>1, <2>2 DEF TipIntact, VerifiedLedger, SameBytes, NoTail, Sound
  <2> QED BY <2>1, <2>2, <2>3 DEF FreshConflict, NoTail
<1> QED BY <1>5, <1>6 DEF FreshConflict

\* A verified foreign append leaves a sound family.
LEMMA ForeignSound ==
  ASSUME NEW s \in Store, Sound(s), s.pending = None, NEW u \in Payloads,
         NEW w, w = [s EXCEPT !.exists = TRUE, !.stamp = @ + 1,
                       !.lines = Append(@, [user |-> u,
                                            prev |-> Link(s.lines, Len(s.lines)),
                                            op |-> NoOp])]
  PROVE  w \in Store /\ Sound(w) /\ w.pending = None
<1> DEFINE x == [user |-> u, prev |-> Link(s.lines, Len(s.lines)), op |-> NoOp]
<1>1. s.lines \in Seq(Line) /\ Len(s.lines) \in Nat /\ s.stamp \in Nat
      /\ s.tail \in Tail_ /\ s.ckpt \in Checkpoint \cup {None}
  BY StoreFields
<1>2. x \in Line /\ x.prev = Link(s.lines, Len(s.lines))
  <2>1. Link(s.lines, Len(s.lines)) \in Seq(Payloads)
    BY <1>1, LinkType
  <2> QED BY <2>1 DEF Line, OpId
<1>3. w = [exists |-> TRUE, lines |-> Append(s.lines, x), tail |-> s.tail,
           stamp |-> s.stamp + 1, ckpt |-> s.ckpt, pending |-> None]
  BY StoreFields DEF Store
<1>4. w.exists /\ w.lines = Append(s.lines, x) /\ w.tail = s.tail /\ w.ckpt = s.ckpt
      /\ w.pending = None
  BY <1>3
<1> HIDE DEF x
<1>5. w \in Store
  <2>1. Append(s.lines, x) \in Seq(Line) /\ s.stamp + 1 \in Nat
    BY <1>1, <1>2
  <2>2. w = [exists |-> w.exists, lines |-> Append(s.lines, x), tail |-> s.tail,
             stamp |-> s.stamp + 1, ckpt |-> s.ckpt, pending |-> w.pending]
    BY <1>3
  <2>3. w.exists \in BOOLEAN /\ w.pending \in Pending \cup {None}
    BY <1>4
  <2> QED BY <1>1, <2>1, <2>2, <2>3 DEF Store
<1>6. ChainOK(w.lines, Len(w.lines))
  BY <1>1, <1>2, <1>4, ChainAppend DEF Sound
<1>7. SoundCheckpoint(w)
  BY <1>1, <1>2, <1>4 DEF Sound, SoundCheckpoint
<1> QED BY <1>4, <1>5, <1>6, <1>7 DEF Sound, SoundPending

-----------------------------------------------------------------------------
(* What a side effect does to the families.                                *)

\* A rename or unlink of a sidecar, when every byte of the ledger is on disk.
LEMMA ChangeSidecarKeeps ==
  ASSUME TypeOK, Recoverable, \A t \in images : SameFile(t, disk),
         NEW s \in Store, Sound(s), SameFile(s, disk), ChangeSidecar(s)
  PROVE  /\ disk' = s /\ images' \subseteq Store
         /\ Recoverable'
         /\ \A t \in images' : SameFile(t, s)
<1>1. disk' = s /\ disk \in images /\ images \subseteq Store
      /\ images' = images \cup {WithSidecars(t, s) : t \in images \cup {s}}
  BY DEF ChangeSidecar, Recoverable, TypeOK
<1>2. ASSUME NEW t \in images \cup {s}
      PROVE  /\ WithSidecars(t, s) \in Store /\ SameFile(t, s)
             /\ SameFile(WithSidecars(t, s), s) /\ Sound(WithSidecars(t, s))
  <2>1. t \in Store /\ SameFile(t, s)
    BY <1>1 DEF SameFile
  <2>2. WithSidecars(t, s) \in Store /\ WithSidecars(t, s).ckpt = s.ckpt
        /\ WithSidecars(t, s).pending = s.pending
        /\ SameFile(WithSidecars(t, s), t)
    BY <2>1, Mixed
  <2>3. SameFile(WithSidecars(t, s), s) /\ SameFile(s, WithSidecars(t, s))
    BY <2>1, <2>2 DEF SameFile
  <2>4. Sound(WithSidecars(t, s))
    BY <2>2, <2>3, SoundSameFile
  <2> QED BY <2>1, <2>2, <2>3, <2>4
<1>3. WithSidecars(s, s) = s
  BY Mixed
<1>4. s \in images'
  BY <1>1, <1>3
<1>5. ASSUME NEW t \in images'
      PROVE  t \in Store /\ SameFile(t, s) /\ Sound(t) /\ Sound(WithSidecars(t, s))
  <2>1. CASE t \in images
    BY <1>1, <1>2, <2>1 DEF Recoverable
  <2>2. CASE \E u \in images \cup {s} : t = WithSidecars(u, s)
    <3>1. PICK u \in images \cup {s} : t = WithSidecars(u, s)
      BY <2>2
    <3>2. u \in Store
      BY <1>1
    <3>3. t \in Store /\ SameFile(t, s) /\ Sound(t)
      BY <1>2, <3>1
    <3>4. WithSidecars(t, s) = t
      BY <3>1, <3>2 DEF WithSidecars, Store
    <3> QED BY <3>3, <3>4
  <2> QED BY <1>1, <2>1, <2>2
<1> QED BY <1>1, <1>4, <1>5 DEF Recoverable

\* fsync of the directory.
LEMMA SyncDirectoryKeeps ==
  ASSUME TypeOK, Recoverable, SyncDirectory
  PROVE  /\ disk' = disk /\ images' \subseteq Store
         /\ Recoverable'
         /\ \A t \in images' : \E u \in images : u.exists = disk.exists /\ SameFile(t, u)
<1>1. disk' = disk /\ disk \in images /\ images \subseteq Store
      /\ images' = {WithSidecars(t, disk) : t \in {u \in images : u.exists = disk.exists}}
  BY DEF SyncDirectory, Recoverable, TypeOK
<1>2. ASSUME NEW t \in images'
      PROVE  /\ t \in Store /\ Sound(t) /\ WithSidecars(t, disk) = t
             /\ \E u \in images : u.exists = disk.exists /\ SameFile(t, u)
  <2>1. PICK u \in images : u.exists = disk.exists /\ t = WithSidecars(u, disk)
    BY <1>1
  <2>2. u \in Store /\ disk \in Store
    BY <1>1
  <2>3. t \in Store /\ SameFile(t, u)
    BY <2>1, <2>2, Mixed
  <2>4. Sound(t)
    BY <2>1 DEF Recoverable
  <2>5. WithSidecars(t, disk) = t
    BY <2>1, <2>2 DEF WithSidecars, Store
  <2> QED BY <2>1, <2>3, <2>4, <2>5
<1>3. disk \in images'
  BY <1>1, Mixed
<1> QED BY <1>1, <1>2, <1>3 DEF Recoverable

\* A write to the ledger file that leaves the family sound.
LEMMA WriteFileKeeps ==
  ASSUME TypeOK, Recoverable, NEW s \in Store, Sound(s),
         s.ckpt = disk.ckpt, s.pending = disk.pending, WriteFile(s)
  PROVE  disk' = s /\ images' \subseteq Store /\ Recoverable'
<1>1. disk' = s /\ images' = images \cup {s} /\ images \subseteq Store
  BY DEF WriteFile, TypeOK
<1>2. WithSidecars(s, s) = s
  BY Mixed
<1>3. ASSUME NEW t \in images PROVE WithSidecars(t, s) = WithSidecars(t, disk)
  BY DEF WithSidecars
<1> QED BY <1>1, <1>2, <1>3 DEF Recoverable

-----------------------------------------------------------------------------
(* What a step does to the processes.                                      *)

\* A process outside the critical section relies on nothing.
LEMMA OthersKeep ==
  ASSUME TypeOK, NEW p \in Procs, Progress(p), lock = p,
         NEW q \in Procs, q # p, Progress(q),
         lock' \in {p, NoProc}, pc'[q] = pc[q], call'[q] = call[q]
  PROVE  Progress(q)'
<1>1. pc[q] \notin Locked /\ lock' # q /\ pc[q] \in {"idle", "lock"}
  BY ConstantsAssumption DEF Progress, TypeOK, Outside
<1>2. pc'[q] \notin Locked /\ (pc'[q] # "idle" => call'[q] # None)
  BY <1>1 DEF Progress
<1> QED BY <1>1, <1>2 DEF Progress, Locked, Completing, NoJournal

\* A step within the critical section.
LEMMA LockedFrame ==
  ASSUME IInv, NEW p \in Procs, pc[p] \in Locked, NEW step \in Locked,
         Goto(p, step), UNCHANGED <<lock, call>>, Progress(p)'
  PROVE  \A q \in Procs : Progress(q)'
<1>1. lock = p
  BY DEF IInv, Progress
<1>2. ASSUME NEW q \in Procs, q # p PROVE Progress(q)'
  <2>1. pc'[q] = pc[q] /\ call'[q] = call[q]
    BY <1>2 DEF Goto, IInv, TypeOK
  <2> QED BY <1>1, <1>2, <2>1, OthersKeep DEF IInv
<1> QED BY <1>2

\* Leaving the critical section.
LEMMA LeaveFrame ==
  ASSUME IInv, NEW p \in Procs, pc[p] \in Locked, lock' = NoProc, Forget(p)
  PROVE  /\ \A q \in Procs : Progress(q)'
         /\ pc' \in [Procs -> Outside \cup Locked]
         /\ call' \in [Procs -> Requests \cup {None}]
         /\ job' \in [Procs -> Pending \cup {None}]
         /\ own' \in [Procs -> BOOLEAN]
<1>1. lock = p
  BY DEF IInv, Progress
<1>2. ASSUME NEW q \in Procs, q # p PROVE Progress(q)'
  <2>1. pc'[q] = pc[q] /\ call'[q] = call[q]
    BY <1>2 DEF Forget, Goto, IInv, TypeOK
  <2> QED BY <1>1, <1>2, <2>1, OthersKeep DEF IInv
<1>3. pc'[p] = "idle"
  BY DEF Forget, Goto, IInv, TypeOK
<1>4. Progress(p)'
  BY <1>3, ConstantsAssumption DEF Progress, Locked, Completing, NoJournal
<1>5. pc' \in [Procs -> Outside \cup Locked]
  BY DEF Forget, Goto, IInv, TypeOK, Outside
<1>6. /\ call' \in [Procs -> Requests \cup {None}]
      /\ job' \in [Procs -> Pending \cup {None}]
      /\ own' \in [Procs -> BOOLEAN]
  BY DEF Forget, IInv, TypeOK
<1> QED BY <1>2, <1>4, <1>5, <1>6

\* A step that touches no file.
LEMMA QuietKeeps ==
  ASSUME IInv, UNCHANGED <<disk, images>>
  PROVE  Recoverable' /\ Settled' /\ disk' \in Store /\ images' \subseteq Store
BY DEF IInv, TypeOK, Recoverable, Settled

\* A step of a process that stays outside the critical section.
LEMMA OutsideFrame ==
  ASSUME IInv, NEW p \in Procs, pc[p] \in Outside, pc'[p] \in Outside,
         pc'[p] # "idle" => call'[p] # None,
         UNCHANGED <<disk, images, lock>>, pc' \in [Procs -> Outside \cup Locked],
         \A q \in Procs \ {p} : pc'[q] = pc[q] /\ call'[q] = call[q] /\ job'[q] = job[q]
  PROVE  \A q \in Procs : Progress(q)'
<1>1. Progress(p)'
  BY DEF IInv, Progress, Outside, Locked, Completing, NoJournal
<1>2. ASSUME NEW q \in Procs \ {p} PROVE Progress(q)'
  <2>1. Progress(q) /\ pc'[q] = pc[q] /\ call'[q] = call[q]
    BY DEF IInv
  <2>2. disk' = disk /\ images' = images /\ lock' = lock
    OBVIOUS
  <2>3. pc[q] \in Completing => job'[q] = job[q]
    BY <1>2
  <2> QED BY <2>1, <2>2, <2>3 DEF Progress, Appended, SameFile
<1> QED BY <1>1, <1>2

-----------------------------------------------------------------------------
(* One lemma per action.                                                   *)

\* A new call touches no file.
LEMMA CallStep ==
  ASSUME IInv, NEW p \in Procs, Call(p)
  PROVE  IInv'
<1>1. PICK r \in Requests : call' = [call EXCEPT ![p] = r]
  BY DEF Call
<1>2. r # None
  BY ConstantsAssumption
<1>3. pc' = [pc EXCEPT ![p] = "lock"] /\ pc[p] = "idle"
  BY DEF Call, Goto
<1>4. TypeOK'
  BY <1>1, <1>3 DEF Call, IInv, TypeOK, Outside
<1>5. \A q \in Procs : Progress(q)'
  <2>1. pc'[p] = "lock" /\ call'[p] # None
    BY <1>1, <1>2, <1>3 DEF IInv, TypeOK
  <2>2. \A q \in Procs \ {p} : pc'[q] = pc[q] /\ call'[q] = call[q] /\ job'[q] = job[q]
    BY <1>1, <1>3 DEF Call, IInv, TypeOK
  <2> QED BY <1>3, <1>4, <2>1, <2>2, OutsideFrame DEF Call, Outside, TypeOK
<1> QED BY <1>4, <1>5, QuietKeeps DEF Call, IInv

\* The process that gets the lock starts to rely on the family.
LEMMA AcquireStep ==
  ASSUME IInv, NEW p \in Procs, Acquire(p)
  PROVE  IInv'
<1>1. pc' = [pc EXCEPT ![p] = "inspect"] /\ lock = NoProc /\ lock' = p /\ pc[p] = "lock"
  BY DEF Acquire, Goto
<1>2. TypeOK'
  BY <1>1 DEF Acquire, IInv, TypeOK, Locked, counters
<1>3. ASSUME NEW q \in Procs \ {p} PROVE Progress(q)'
  <2>1. pc'[q] = pc[q] /\ call'[q] = call[q] /\ pc[q] \notin Locked
    BY <1>1, ConstantsAssumption DEF Acquire, IInv, TypeOK, Progress
  <2> QED BY <1>1, <2>1 DEF IInv, Progress, Locked, Completing, NoJournal
<1>4. Progress(p)'
  <2>1. pc'[p] = "inspect" /\ call'[p] # None
    BY <1>1 DEF Acquire, IInv, TypeOK, Progress
  <2> QED BY <1>1, <2>1 DEF Progress, Locked, Completing, NoJournal
<1> QED BY <1>2, <1>3, <1>4, QuietKeeps DEF Acquire, IInv

\* A call that gives up waiting never was in the critical section.
LEMMA LockTimeoutStep ==
  ASSUME IInv, NEW p \in Procs, LockTimeout(p)
  PROVE  IInv'
<1>1. pc' = [pc EXCEPT ![p] = "idle"] /\ call' = [call EXCEPT ![p] = None]
      /\ pc[p] = "lock"
  BY DEF LockTimeout, Forget, Goto
<1>2. TypeOK'
  BY <1>1 DEF LockTimeout, Forget, IInv, TypeOK, Outside, counters
<1>3. \A q \in Procs : Progress(q)'
  <2>1. pc'[p] = "idle"
    BY <1>1 DEF IInv, TypeOK
  <2>2. \A q \in Procs \ {p} : pc'[q] = pc[q] /\ call'[q] = call[q] /\ job'[q] = job[q]
    BY <1>1 DEF LockTimeout, Forget, IInv, TypeOK
  <2> QED BY <1>1, <1>2, <2>1, <2>2, OutsideFrame DEF LockTimeout, Outside, TypeOK
<1> QED BY <1>2, <1>3, QuietKeeps DEF LockTimeout, IInv

\* A call that ends leaves the files alone.
LEMMA LeaveStep ==
  ASSUME IInv, NEW p \in Procs, pc[p] \in Locked, Return(p) \/ Refuse(p)
  PROVE  IInv'
<1>1. lock' = NoProc /\ Forget(p) /\ UNCHANGED <<disk, images, alarm, counters>>
  BY DEF Return, Refuse, Leave
<1>2. acked' \subseteq Requests
  <2>1. call[p] \in Requests
    BY DEF IInv, TypeOK, Progress, Locked
  <2> QED BY <2>1 DEF Return, Refuse, IInv, TypeOK
<1>3. TypeOK'
  BY <1>1, <1>2, LeaveFrame DEF IInv, TypeOK, counters
<1> QED BY <1>1, <1>3, LeaveFrame, QuietKeeps DEF IInv

\* The journal that a process finds becomes its job.
LEMMA InspectStep ==
  ASSUME IInv, NEW p \in Procs, Inspect(p)
  PROVE  IInv'
<1>1. pc[p] = "inspect" /\ pc[p] \in Locked
  BY DEF Inspect, Locked
<1>2. CASE Refuse(p)
  BY <1>1, <1>2, LeaveStep
<1>3. ASSUME disk.pending = None, Goto(p, "tip"),
             UNCHANGED <<disk, images, lock, call, job, own, acked, alarm, counters>>
      PROVE  IInv'
  <2>1. TypeOK'
    BY <1>3 DEF Goto, IInv, TypeOK, Locked, counters
  <2>2. Progress(p)'
    BY <1>1, <1>3 DEF Goto, IInv, TypeOK, Progress, Locked, Completing, NoJournal
  <2>3. "tip" \in Locked
    BY DEF Locked
  <2> QED BY <1>1, <1>3, <2>1, <2>2, <2>3, LockedFrame, QuietKeeps DEF IInv
<1>4. ASSUME disk.pending # None, Goto(p, "complete"),
             job' = [job EXCEPT ![p] = disk.pending], own' = [own EXCEPT ![p] = FALSE],
             UNCHANGED <<disk, images, lock, call, acked, alarm, counters>>
      PROVE  IInv'
  <2>1. disk.pending \in Pending \cup {None}
    BY StoreFields DEF IInv, TypeOK
  <2>2. TypeOK'
    BY <1>4, <2>1 DEF Goto, IInv, TypeOK, Locked, counters
  <2>3. Progress(p)'
    BY <1>1, <1>4 DEF Goto, IInv, TypeOK, Progress, Locked, Completing, NoJournal
  <2>4. "complete" \in Locked
    BY DEF Locked
  <2> QED BY <1>1, <1>4, <2>2, <2>3, <2>4, LockedFrame, QuietKeeps DEF IInv
<1> QED BY <1>2, <1>3, <1>4 DEF Inspect

\* The family that processes see is sound.
LEMMA DiskSound ==
  ASSUME IInv
  PROVE  disk \in Store /\ Sound(disk) /\ disk \in images /\ images \subseteq Store
BY DEF IInv, TypeOK, Recoverable

\* An fsync of the directory inside the critical section.
LEMMA SyncThenStep ==
  ASSUME IInv, NEW p \in Procs, pc[p] \in Locked, NEW to \in Locked,
         SyncDirectory, Goto(p, to), UNCHANGED <<lock, call, acked, alarm, counters>>,
         job' \in [Procs -> Pending \cup {None}], own' \in [Procs -> BOOLEAN],
         Progress(p)'
  PROVE  IInv'
<1>1. disk' = disk /\ images' \subseteq Store /\ Recoverable'
      /\ \A t \in images' : \E u \in images : u.exists = disk.exists /\ SameFile(t, u)
  BY SyncDirectoryKeeps DEF IInv
<1>2. TypeOK'
  BY <1>1 DEF Goto, IInv, TypeOK, counters
<1>3. Settled'
  BY <1>1 DEF IInv, Settled, SameFile
<1>4. \A q \in Procs : Progress(q)'
  BY LockedFrame
<1> QED BY <1>1, <1>2, <1>3, <1>4 DEF IInv

\* The directory sync after a rebound checkpoint changes no ledger byte.
LEMMA FreshSyncStep ==
  ASSUME IInv, NEW p \in Procs, FreshSync(p)
  PROVE  IInv'
<1>1. pc[p] = "freshSync" /\ pc'[p] = "suffix" /\ pc[p] \in Locked /\ "suffix" \in Locked
      /\ disk' = disk /\ UNCHANGED <<lock, call, job, own>>
  BY DEF FreshSync, SyncThen, SyncDirectory, Goto, IInv, TypeOK, Locked
<1>2. Progress(p)'
  BY <1>1 DEF IInv, Progress, Locked, Completing, NoJournal
<1> QED BY <1>1, <1>2, SyncThenStep DEF FreshSync, SyncThen, IInv, TypeOK

\* Once its directory entry is synced, every byte of the append is on disk.
LEMMA EntrySyncStep ==
  ASSUME IInv, NEW p \in Procs, EntrySync(p)
  PROVE  IInv'
<1>1. pc[p] = "entrySync" /\ pc'[p] = "ckpt" /\ pc[p] \in Locked /\ "ckpt" \in Locked
      /\ disk' = disk /\ SyncDirectory /\ UNCHANGED <<lock, call, job, own>>
  BY DEF EntrySync, SyncThen, SyncDirectory, Goto, IInv, TypeOK, Locked
<1>2. /\ \A u \in images : ~u.exists \/ SameFile(u, disk)
      /\ disk.pending # None /\ job[p] = disk.pending /\ Appended(disk, disk.pending)
  BY <1>1 DEF IInv, Progress, Completing
<1>3. disk.exists
  <2>1. disk.pending.base.size \in Nat /\ disk.lines \in Seq(Line)
    BY <1>2, DiskSound, StoreFields, PendingFields
  <2>2. disk.lines # <<>>
    BY <1>2, <2>1 DEF Appended
  <2> QED BY <2>2, DiskSound DEF Sound
<1>4. \A t \in images' : SameFile(t, disk)
  <2>1. \A t \in images' : \E u \in images : u.exists = disk.exists /\ SameFile(t, u)
    BY <1>1, SyncDirectoryKeeps DEF IInv
  <2> QED BY <1>2, <1>3, <2>1 DEF SameFile
<1>5. Progress(p)'
  BY <1>1, <1>2, <1>4 DEF IInv, Progress, Locked, Completing, NoJournal, Appended, SameFile
<1> QED BY <1>1, <1>5, SyncThenStep DEF EntrySync, SyncThen, IInv, TypeOK

\* The directory sync after the checkpoint keeps it the whole ledger's.
LEMMA CheckpointSyncStep ==
  ASSUME IInv, NEW p \in Procs, CheckpointSync(p)
  PROVE  IInv'
<1>1. pc[p] = "ckptSync" /\ pc'[p] = "unlink" /\ pc[p] \in Locked /\ "unlink" \in Locked
      /\ disk' = disk /\ UNCHANGED <<lock, call, job, own>>
  BY DEF CheckpointSync, SyncThen, SyncDirectory, Goto, IInv, TypeOK, Locked
<1>2. Progress(p)'
  BY <1>1 DEF IInv, Progress, Locked, Completing, NoJournal, Appended
<1> QED BY <1>1, <1>2, SyncThenStep DEF CheckpointSync, SyncThen, IInv, TypeOK

\* The directory sync after the unlink leaves no journal behind.
LEMMA UnlinkSyncStep ==
  ASSUME IInv, NEW p \in Procs, UnlinkSync(p)
  PROVE  IInv'
<1>1. pc[p] = "unlinkSync" /\ pc'[p] = "recovered" /\ pc[p] \in Locked
      /\ "recovered" \in Locked /\ disk' = disk /\ UNCHANGED <<lock, call, job, own>>
  BY DEF UnlinkSync, SyncThen, SyncDirectory, Goto, IInv, TypeOK, Locked
<1>2. Progress(p)'
  BY <1>1 DEF IInv, Progress, Locked, Completing, NoJournal
<1> QED BY <1>1, <1>2, SyncThenStep DEF UnlinkSync, SyncThen, IInv, TypeOK

\* The directory sync after a rebound tip leaves no journal behind.
LEMMA TipSyncStep ==
  ASSUME IInv, NEW p \in Procs, TipSync(p)
  PROVE  IInv'
<1>1. pc[p] = "tipSync" /\ pc'[p] = "decide" /\ pc[p] \in Locked /\ "decide" \in Locked
      /\ disk' = disk /\ UNCHANGED <<lock, call, job, own>>
  BY DEF TipSync, SyncThen, SyncDirectory, Goto, IInv, TypeOK, Locked
<1>2. Progress(p)'
  BY <1>1 DEF IInv, Progress, Locked, Completing, NoJournal
<1> QED BY <1>1, <1>2, SyncThenStep DEF TipSync, SyncThen, IInv, TypeOK

\* The journal a process has just saved becomes its job.
LEMMA PendingSyncStep ==
  ASSUME IInv, NEW p \in Procs, PendingSync(p)
  PROVE  IInv'
<1>1. pc[p] = "pendSync" /\ pc'[p] = "complete" /\ pc[p] \in Locked
      /\ "complete" \in Locked /\ disk' = disk /\ UNCHANGED <<lock, call>>
  BY DEF PendingSync, SyncDirectory, Goto, IInv, TypeOK, Locked
<1>2. disk.pending \in Pending \cup {None}
  BY DiskSound, StoreFields
<1>3. /\ job' \in [Procs -> Pending \cup {None}] /\ job'[p] = disk.pending
      /\ own' \in [Procs -> BOOLEAN]
  BY <1>2 DEF PendingSync, IInv, TypeOK
<1>4. Progress(p)'
  BY <1>1, <1>3 DEF IInv, Progress, Locked, Completing, NoJournal
<1> QED BY <1>1, <1>3, <1>4, SyncThenStep DEF PendingSync

\* A step of the critical section that touches no file.
LEMMA QuietStep ==
  ASSUME IInv, NEW p \in Procs, pc[p] \in Locked, NEW to \in Locked, Goto(p, to),
         UNCHANGED <<disk, images, lock, call, job, own, acked, alarm, counters>>,
         Progress(p)'
  PROVE  IInv'
<1>1. TypeOK'
  BY DEF Goto, IInv, TypeOK, counters
<1>2. \A q \in Procs : Progress(q)'
  BY LockedFrame
<1> QED BY <1>1, <1>2, QuietKeeps DEF IInv

\* A rename or unlink of a sidecar inside the critical section, made when
\* every byte of the ledger is on disk.
LEMMA SidecarStep ==
  ASSUME IInv, NEW p \in Procs, pc[p] \in Locked, NEW to \in Locked, Goto(p, to),
         \A t \in images : SameFile(t, disk),
         NEW s \in Store, Sound(s), SameFile(s, disk), ChangeSidecar(s),
         UNCHANGED <<lock, call, job, own, acked, alarm, counters>>,
         Progress(p)'
  PROVE  IInv'
<1>1. disk' = s /\ images' \subseteq Store /\ Recoverable'
      /\ \A t \in images' : SameFile(t, s)
  BY ChangeSidecarKeeps DEF IInv
<1>2. TypeOK'
  BY <1>1 DEF Goto, IInv, TypeOK, counters
<1>3. Settled'
  BY <1>1 DEF Settled, SameFile
<1>4. \A q \in Procs : Progress(q)'
  BY LockedFrame
<1> QED BY <1>1, <1>2, <1>3, <1>4 DEF IInv

\* A checkpoint beyond the base of the journal is the checkpoint of the whole
\* ledger, and then the whole ledger is on disk.
LEMMA FreshCheckpoint ==
  ASSUME IInv, disk.pending # None, disk.pending.base.fresh, disk.ckpt # None
  PROVE  /\ \A t \in images : SameFile(t, disk)
         /\ disk.lines # <<>> /\ disk.ckpt.op \in OpId
         /\ disk.ckpt.op = disk.pending.record.op
<1>1. disk.pending.base.size = 0 /\ disk.ckpt.size \in 1..Len(disk.lines)
      /\ Len(disk.lines) <= 1
  BY DiskSound DEF Sound, SoundPending, SoundCheckpoint
<1>2. disk.lines \in Seq(Line) /\ Len(disk.lines) \in Nat
  BY DiskSound, StoreFields
<1>3. disk.ckpt.size = 1 /\ disk.ckpt.size > 0 /\ Len(disk.lines) = 1
  <2>1. \A n \in Nat : \A i \in 1..n : n <= 1 => i = 1 /\ n = 1 /\ i > 0
    OBVIOUS
  <2> QED BY <1>1, <1>2, <2>1
<1>4. \A t \in images : SameFile(t, disk)
  BY <1>1, <1>3 DEF IInv, Settled
<1>5. disk.ckpt.op = disk.pending.record.op
  BY <1>1, <1>3, DiskSound DEF Sound, SoundPending
<1>6. disk.pending.record.op \in OpId
  BY DiskSound, StoreFields, PendingFields
<1>7. disk.lines # <<>>
  <2>1. \A l \in Seq(Line) : Len(l) = 1 => l # <<>>
    OBVIOUS
  <2> QED BY <1>2, <1>3, <2>1
<1> QED BY <1>4, <1>5, <1>6, <1>7

\* The end of a sound family is a prefix of its journal's append.
LEMMA CheckSuffixStep ==
  ASSUME IInv, NEW p \in Procs, pc[p] \in {"complete", "suffix"}, CheckSuffix(p)
  PROVE  IInv'
<1>1. pc[p] \in Locked /\ "write" \in Locked
  BY DEF Locked
<1>2. disk.pending # None /\ job[p] = disk.pending /\ lock = p /\ call[p] # None
  BY <1>1 DEF IInv, Progress, Completing
<1>3. PendingFits(disk, job[p])
  BY <1>2, DiskSound, PendingCompletes
<1>4. Goto(p, "write") /\ UNCHANGED <<disk, images, lock, call, job, own, acked, alarm, counters>>
  BY <1>3 DEF CheckSuffix
<1>5. pc'[p] = "write"
  BY <1>4 DEF Goto, IInv, TypeOK
<1>6. Progress(p)'
  BY <1>1, <1>2, <1>4, <1>5 DEF Progress, Locked, Completing, NoJournal
<1> QED BY <1>1, <1>4, <1>6, QuietStep

\* The same checks after a rebound checkpoint.
LEMMA SuffixStep ==
  ASSUME IInv, NEW p \in Procs, Suffix(p)
  PROVE  IInv'
BY CheckSuffixStep DEF Suffix

\* Completing a sound journal never refuses; rebinding keeps its operation.
LEMMA CompleteStep ==
  ASSUME IInv, NEW p \in Procs, Complete(p)
  PROVE  IInv'
<1>1. pc[p] = "complete" /\ pc[p] \in Locked /\ {"write", "freshSync"} \subseteq Locked
  BY DEF Complete, Locked
<1>2. disk.pending # None /\ job[p] = disk.pending /\ lock = p /\ call[p] # None
  BY <1>1 DEF IInv, Progress, Completing
<1>3. ~FreshConflict(disk, job[p])
  BY <1>2, DiskSound, PendingCompletes
<1>4. ASSUME job[p].base.fresh, NeedsRebind(disk), Goto(p, "freshSync"),
             ChangeSidecar([disk EXCEPT !.ckpt = CheckpointOf(disk, disk.ckpt.op)]),
             UNCHANGED <<lock, call, job, own, acked, alarm, counters>>
      PROVE  IInv'
  <2> DEFINE s == [disk EXCEPT !.ckpt = CheckpointOf(disk, disk.ckpt.op)]
  <2>1. disk.ckpt # None /\ disk.pending.base.fresh
    BY <1>2, <1>4 DEF NeedsRebind
  <2>2. s \in Store /\ Sound(s) /\ SameFile(s, disk) /\ s.pending = disk.pending
    BY <1>2, <2>1, DiskSound, FreshCheckpoint, CheckpointSound
  <2>3. disk' = s
    BY <1>4 DEF ChangeSidecar
  <2>4. Progress(p)'
    <3>1. pc'[p] = "freshSync" /\ call'[p] = call[p] /\ lock' = lock /\ job'[p] = job[p]
      BY <1>4 DEF Goto, IInv, TypeOK
    <3>2. disk'.pending = disk.pending
      BY <2>2, <2>3
    <3> QED BY <1>1, <1>2, <3>1, <3>2 DEF Progress, Locked, Completing, NoJournal
  <2> HIDE DEF s
  <2> QED BY <1>1, <1>2, <1>4, <2>1, <2>2, <2>4, FreshCheckpoint, SidecarStep DEF s
<1>5. CASE CheckSuffix(p)
  BY <1>1, <1>5, CheckSuffixStep
<1> QED BY <1>3, <1>4, <1>5 DEF Complete

\* A write to the ledger inside the critical section: it only adds bytes of
\* an append that the checkpoint does not name yet.
LEMMA FileStep ==
  ASSUME IInv, NEW p \in Procs, pc[p] \in Locked, NEW to \in Locked, Goto(p, to),
         NEW s \in Store, Sound(s), s.ckpt = disk.ckpt, s.pending = disk.pending,
         disk.pending # None, Len(disk.lines) = disk.pending.base.size,
         WriteFile(s), UNCHANGED <<lock, call, job, own, acked, alarm, counters>>,
         Progress(p)'
  PROVE  IInv'
<1>1. disk' = s /\ images' \subseteq Store /\ Recoverable'
  BY WriteFileKeeps DEF IInv
<1>2. TypeOK'
  BY <1>1 DEF Goto, IInv, TypeOK, counters
<1>3. Settled'
  <2>1. s.ckpt # None => ~(s.ckpt.size > disk.pending.base.size)
    <3>1. disk.ckpt # None => disk.ckpt.size \in 1..Len(disk.lines)
      BY DiskSound DEF Sound, SoundCheckpoint
    <3>2. Len(disk.lines) \in Nat
      BY DiskSound, StoreFields
    <3>3. \A n \in Nat : \A i \in 1..n : ~(i > n)
      OBVIOUS
    <3> QED BY <3>1, <3>2, <3>3
  <2> QED BY <1>1, <2>1 DEF Settled
<1>4. \A q \in Procs : Progress(q)'
  BY LockedFrame
<1> QED BY <1>1, <1>2, <1>3, <1>4 DEF IInv

\* Creating the ledger or writing bytes of the journaled tick.
LEMMA WriteStep ==
  ASSUME IInv, NEW p \in Procs, Write(p)
  PROVE  IInv'
<1>1. pc[p] = "write" /\ pc[p] \in Locked /\ "write" \in Locked /\ "fsync" \in Locked
      /\ UNCHANGED <<lock, call, job, own, acked, alarm, counters>>
  BY DEF Write, Locked
<1>2. disk.pending # None /\ job[p] = disk.pending /\ lock = p /\ call[p] # None
  BY <1>1 DEF IInv, Progress, Completing
<1>3. disk \in Store /\ Sound(disk) /\ disk.lines \in Seq(Line) /\ disk.stamp \in Nat
      /\ disk.tail \in Tail_ /\ disk.ckpt \in Checkpoint \cup {None}
      /\ disk.pending \in Pending \cup {None} /\ disk.pending.base.size \in Nat
      /\ disk.tail.n \in 0..(RecordBytes - 1) /\ RecordBytes \in Nat
  BY <1>2, DiskSound, StoreFields, PendingFields, ConstantsAssumption
<1>4. CASE ~disk.exists /\ WriteFile([disk EXCEPT !.exists = TRUE, !.stamp = @ + 1])
           /\ UNCHANGED pc
  <2> DEFINE s == [disk EXCEPT !.exists = TRUE, !.stamp = @ + 1]
  <2>2. s.lines = disk.lines /\ s.ckpt = disk.ckpt /\ s.pending = disk.pending
        /\ s \in Store /\ Sound(s)
    BY <1>3, CreatedSound
  <2> HIDE DEF s
  <2>5. disk.lines = <<>> /\ Len(disk.lines) = disk.pending.base.size
    <3>1. disk.lines = <<>> /\ disk.pending.base.size <= Len(disk.lines)
      BY <1>2, <1>3, <1>4 DEF Sound, SoundPending
    <3> QED BY <1>3, <3>1
  <2>6. Goto(p, "write")
    BY <1>1, <1>4 DEF Goto, IInv, TypeOK
  <2>7. disk' = s
    BY <1>4 DEF WriteFile, s
  <2>8. Progress(p)'
    BY <1>1, <1>2, <1>4, <2>2, <2>7 DEF Progress, Locked, Completing, NoJournal
  <2> QED BY <1>1, <1>2, <1>4, <2>2, <2>5, <2>6, <2>8, FileStep DEF s
<1>5. CASE disk.exists /\ ~Appended(disk, job[p])
           /\ \E k \in 1..(RecordBytes - disk.tail.n) :
                /\ WriteFile(Written(disk, job[p].record, k))
                /\ Goto(p, IF disk.tail.n + k = RecordBytes THEN "fsync" ELSE "write")
  <2>1. PICK k \in 1..(RecordBytes - disk.tail.n) :
             /\ WriteFile(Written(disk, job[p].record, k))
             /\ Goto(p, IF disk.tail.n + k = RecordBytes THEN "fsync" ELSE "write")
    BY <1>5
  <2> DEFINE s == Written(disk, disk.pending.record, k)
             to == IF disk.tail.n + k = RecordBytes THEN "fsync" ELSE "write"
  <2>2. s \in Store /\ Sound(s) /\ s.pending = disk.pending /\ s.ckpt = disk.ckpt
        /\ (to = "fsync" => Appended(s, disk.pending)) /\ to \in {"write", "fsync"}
    BY <1>2, <1>3, <1>5, WrittenSound
  <2>3. Len(disk.lines) = disk.pending.base.size
    <3>1. disk.pending.base.size <= Len(disk.lines)
          /\ Len(disk.lines) <= disk.pending.base.size + 1
          /\ Len(disk.lines) # disk.pending.base.size + 1
      BY <1>2, <1>3, <1>5 DEF Sound, SoundPending, Appended
    <3>2. Len(disk.lines) \in Nat
      BY <1>3
    <3>3. \A a, b \in Nat : b <= a /\ a <= b + 1 /\ a # b + 1 => a = b
      OBVIOUS
    <3> QED BY <1>3, <3>1, <3>2, <3>3
  <2> HIDE DEF s, to
  <2>4. WriteFile(s) /\ disk' = s /\ Goto(p, to)
    BY <1>2, <2>1 DEF s, to, WriteFile
  <2>5. Progress(p)'
    <3>1. pc'[p] = to /\ pc'[p] \in {"write", "fsync"}
      BY <2>2, <2>4 DEF Goto, IInv, TypeOK
    <3>2. disk'.pending = disk.pending /\ (pc'[p] = "fsync" => Appended(disk', disk'.pending))
      BY <2>2, <2>4, <3>1
    <3> QED BY <1>1, <1>2, <3>1, <3>2 DEF Progress, Locked, Completing, NoJournal
  <2> QED BY <1>1, <1>2, <2>2, <2>3, <2>4, <2>5, FileStep
<1>6. CASE Appended(disk, job[p]) /\ Goto(p, "fsync") /\ UNCHANGED <<disk, images>>
  <2>1. Progress(p)'
    <3>1. pc'[p] = "fsync"
      BY <1>6 DEF Goto, IInv, TypeOK
    <3> QED BY <1>1, <1>2, <1>6, <3>1
            DEF Progress, Locked, Completing, NoJournal, Appended
  <2> QED BY <1>1, <1>6, <2>1, QuietStep
<1> QED BY <1>4, <1>5, <1>6 DEF Write

\* fsync: every byte of the ledger is on disk, unless its name is not.
LEMMA FsyncStep ==
  ASSUME IInv, NEW p \in Procs, Fsync(p)
  PROVE  IInv'
<1> DEFINE to == IF job[p].base.fresh THEN "entrySync" ELSE "ckpt"
<1>1. pc[p] = "fsync" /\ pc[p] \in Locked /\ to \in Locked /\ Goto(p, to)
      /\ SyncLedger(job[p].base.fresh)
      /\ UNCHANGED <<lock, call, job, own, acked, alarm, counters>>
  BY DEF Fsync, Locked
<1>2. disk.pending # None /\ job[p] = disk.pending /\ lock = p /\ call[p] # None
      /\ Appended(disk, disk.pending)
  BY <1>1 DEF IInv, Progress, Completing
<1>3. disk' = disk
      /\ images' = {disk} \cup {t \in images : job[p].base.fresh /\ ~t.exists}
  BY <1>1 DEF SyncLedger
<1>4. images' \subseteq images /\ disk \in images'
  BY <1>3, DiskSound
<1>5. TypeOK'
  BY <1>1, <1>3, <1>4 DEF Goto, IInv, TypeOK, counters
<1>6. Recoverable' /\ Settled'
  BY <1>3, <1>4 DEF IInv, Recoverable, Settled
<1>7. Progress(p)'
  <2>1. pc'[p] = to
    BY <1>1 DEF Goto, IInv, TypeOK
  <2>2. to = "ckpt" => \A t \in images' : SameFile(t, disk)
    BY <1>3 DEF SameFile
  <2>3. to = "entrySync" => \A t \in images' : ~t.exists \/ SameFile(t, disk)
    BY <1>3 DEF SameFile
  <2>4. /\ to \in {"entrySync", "ckpt"}
        /\ disk'.pending # None /\ job'[p] = disk'.pending /\ lock' = p /\ call'[p] # None
        /\ Appended(disk', disk'.pending)
    BY <1>1, <1>2, <1>3 DEF Appended
  <2>5. /\ to = "ckpt" => \A t \in images' : SameFile(t, disk')
        /\ to = "entrySync" => \A t \in images' : ~t.exists \/ SameFile(t, disk')
    BY <1>3, <2>2, <2>3
  <2> HIDE DEF to
  <2> QED BY <2>1, <2>4, <2>5 DEF Progress, Locked, Completing, NoJournal
<1>8. \A q \in Procs : Progress(q)'
  BY <1>1, <1>7, LockedFrame
<1> QED BY <1>1, <1>5, <1>6, <1>8 DEF IInv

\* The checkpoint of a completed append names the append's operation.
LEMMA SaveCheckpointStep ==
  ASSUME IInv, NEW p \in Procs, SaveCheckpoint(p)
  PROVE  IInv'
<1> DEFINE s == [disk EXCEPT !.ckpt = CheckpointOf(disk, job[p].record.op)]
<1>1. pc[p] = "ckpt" /\ pc[p] \in Locked /\ "ckptSync" \in Locked /\ Goto(p, "ckptSync")
      /\ ChangeSidecar(s) /\ UNCHANGED <<lock, call, job, own, acked, alarm, counters>>
  BY DEF SaveCheckpoint, Locked
<1>2. disk.pending # None /\ job[p] = disk.pending /\ lock = p /\ call[p] # None
      /\ Appended(disk, disk.pending) /\ \A t \in images : SameFile(t, disk)
  BY <1>1 DEF IInv, Progress, Completing
<1>3. disk.pending.record.op \in OpId /\ disk.pending.base.size \in Nat
      /\ disk.lines \in Seq(Line)
  BY <1>2, DiskSound, StoreFields, PendingFields
<1>4. disk.lines # <<>>
  BY <1>2, <1>3 DEF Appended
<1>5. s \in Store /\ Sound(s) /\ SameFile(s, disk) /\ s.pending = disk.pending
      /\ s.ckpt = CheckpointOf(disk, job[p].record.op) /\ s.ckpt # None
  BY <1>2, <1>3, <1>4, DiskSound, CheckpointSound
<1>6. Progress(p)'
  <2>1. pc'[p] = "ckptSync" /\ disk' = s /\ call'[p] = call[p] /\ lock' = p
        /\ job'[p] = job[p]
    BY <1>1, <1>2 DEF Goto, IInv, TypeOK, ChangeSidecar
  <2>2. s.ckpt.size = Len(s.lines) /\ s.lines = disk.lines
    BY <1>5 DEF CheckpointOf, SameFile
  <2> HIDE DEF s
  <2> QED BY <1>2, <1>5, <2>1, <2>2 DEF Progress, Locked, Completing, NoJournal, Appended
<1> HIDE DEF s
<1> QED BY <1>1, <1>2, <1>5, <1>6, SidecarStep

\* The journal goes once the checkpoint names its append.
LEMMA UnlinkPendingStep ==
  ASSUME IInv, NEW p \in Procs, UnlinkPending(p)
  PROVE  IInv'
<1> DEFINE s == [disk EXCEPT !.pending = None]
<1>1. pc[p] = "unlink" /\ pc[p] \in Locked /\ "unlinkSync" \in Locked
      /\ Goto(p, "unlinkSync")
      /\ ChangeSidecar(s) /\ UNCHANGED <<lock, call, job, own, acked, alarm, counters>>
  BY DEF UnlinkPending, Locked
<1>2. disk.pending # None /\ lock = p /\ call[p] # None
      /\ Appended(disk, disk.pending) /\ disk.ckpt # None
      /\ disk.ckpt.size = Len(disk.lines)
  BY <1>1 DEF IInv, Progress, Completing
<1>3. disk.pending.base.size \in Nat /\ disk.lines \in Seq(Line)
  BY <1>2, DiskSound, StoreFields, PendingFields
<1>4. disk.tail = NoTail
  BY <1>2, DiskSound DEF Appended, Sound, SoundPending
<1>5. \A t \in images : SameFile(t, disk)
  BY <1>2, <1>3 DEF Appended, IInv, Settled
<1>6. s \in Store /\ Sound(s) /\ SameFile(s, disk) /\ s.pending = None
  BY <1>4, DiskSound, UnlinkSound
<1>7. Progress(p)'
  <2>1. pc'[p] = "unlinkSync" /\ disk' = s /\ call'[p] = call[p] /\ lock' = p
    BY <1>1, <1>2 DEF Goto, IInv, TypeOK, ChangeSidecar
  <2> HIDE DEF s
  <2> QED BY <1>2, <1>6, <2>1 DEF Progress, Locked, Completing, NoJournal
<1> HIDE DEF s
<1> QED BY <1>1, <1>5, <1>6, <1>7, SidecarStep

\* After a completed append the call returns or looks for the tip.
LEMMA RecoveredStep ==
  ASSUME IInv, NEW p \in Procs, Recovered(p)
  PROVE  IInv'
<1>1. pc[p] = "recovered" /\ pc[p] \in Locked /\ "tip" \in Locked
  BY DEF Recovered, Locked
<1>2. CASE Return(p)
  BY <1>1, <1>2, LeaveStep
<1>3. CASE Goto(p, "tip")
           /\ UNCHANGED <<disk, images, lock, call, job, own, acked, alarm, counters>>
  <2>1. Progress(p)'
    <3>1. pc'[p] = "tip"
      BY <1>3 DEF Goto, IInv, TypeOK
    <3> QED BY <1>1, <1>3, <3>1 DEF IInv, Progress, Locked, Completing, NoJournal
  <2> QED BY <1>1, <1>3, <2>1, QuietStep
<1> QED BY <1>2, <1>3 DEF Recovered

\* Finding the tip never refuses; a rebound checkpoint is sound.
LEMMA TipStep ==
  ASSUME IInv, NEW p \in Procs, Tip(p)
  PROVE  IInv'
<1>1. pc[p] = "tip" /\ pc[p] \in Locked /\ "decide" \in Locked /\ "tipSync" \in Locked
  BY DEF Tip, Locked
<1>2. disk.pending = None /\ lock = p /\ call[p] # None
  BY <1>1 DEF IInv, Progress, NoJournal
<1>3. ~TipRefused(disk) /\ \A t \in images : SameFile(t, disk)
  BY <1>2, DiskSound, NoRefusal DEF IInv, Settled
<1>4. CASE Goto(p, "decide")
           /\ UNCHANGED <<disk, images, lock, call, job, own, acked, alarm, counters>>
  <2>1. Progress(p)'
    <3>1. pc'[p] = "decide"
      BY <1>4 DEF Goto, IInv, TypeOK
    <3> QED BY <1>2, <1>4, <3>1 DEF Progress, Locked, Completing, NoJournal
  <2> QED BY <1>1, <1>4, <2>1, QuietStep
<1>5. CASE /\ NeedsRebind(disk)
           /\ ChangeSidecar([disk EXCEPT !.ckpt = CheckpointOf(disk, ReboundOp(disk))])
           /\ Goto(p, "tipSync")
           /\ UNCHANGED <<lock, call, job, own, acked, alarm, counters>>
  <2> DEFINE s == [disk EXCEPT !.ckpt = CheckpointOf(disk, ReboundOp(disk))]
  <2>1. disk.ckpt \in Checkpoint /\ disk.lines \in Seq(Line)
    BY <1>5, DiskSound, StoreFields DEF NeedsRebind
  <2>2. ReboundOp(disk) \in OpId
    BY <2>1 DEF ReboundOp, OpId, Checkpoint
  <2>3. disk.lines # <<>>
    BY <1>5, <2>1, DiskSound DEF NeedsRebind, Sound, SoundCheckpoint
  <2>4. s \in Store /\ Sound(s) /\ SameFile(s, disk) /\ s.pending = disk.pending
    BY <1>2, <2>2, <2>3, DiskSound, CheckpointSound
  <2>5. Progress(p)'
    <3>1. pc'[p] = "tipSync" /\ disk' = s /\ call'[p] = call[p] /\ lock' = p
      BY <1>2, <1>5 DEF Goto, IInv, TypeOK, ChangeSidecar
    <3> HIDE DEF s
    <3> QED BY <1>2, <2>4, <3>1 DEF Progress, Locked, Completing, NoJournal
  <2> HIDE DEF s
  <2> QED BY <1>1, <1>3, <1>5, <2>4, <2>5, SidecarStep DEF s
<1> QED BY <1>3, <1>4, <1>5 DEF Tip

\* A call returns, refuses, or journals its tick beside a sound family.
LEMMA DecideStep ==
  ASSUME IInv, NEW p \in Procs, Decide(p)
  PROVE  IInv'
<1>1. pc[p] = "decide" /\ pc[p] \in Locked /\ "pendSync" \in Locked
  BY DEF Decide, Locked
<1>2. disk.pending = None /\ lock = p /\ call[p] # None /\ call[p] \in Requests
  BY <1>1 DEF IInv, TypeOK, Progress, NoJournal
<1>3. \A t \in images : SameFile(t, disk)
  BY <1>2 DEF IInv, Settled
<1>4. CASE Return(p) \/ Refuse(p)
  BY <1>1, <1>4, LeaveStep
<1>5. CASE /\ call[p].kind # "recover"
           /\ ChangeSidecar([disk EXCEPT !.pending = NewPending(disk, call[p])])
           /\ Goto(p, "pendSync")
           /\ UNCHANGED <<lock, call, job, own, acked, alarm, counters>>
  <2> DEFINE s == [disk EXCEPT !.pending = NewPending(disk, call[p])]
  <2>1. s \in Store /\ Sound(s) /\ SameFile(s, disk) /\ s.pending # None
    BY <1>2, <1>5, DiskSound, JournalSound
  <2>2. Progress(p)'
    <3>1. pc'[p] = "pendSync" /\ disk' = s /\ call'[p] = call[p] /\ lock' = p
      BY <1>2, <1>5 DEF Goto, IInv, TypeOK, ChangeSidecar
    <3> HIDE DEF s
    <3> QED BY <1>2, <2>1, <3>1 DEF Progress, Locked, Completing, NoJournal
  <2> HIDE DEF s
  <2> QED BY <1>1, <1>3, <1>5, <2>1, <2>2, SidecarStep DEF s
<1> QED BY <1>4, <1>5 DEF Decide

\* A killed process leaves the family as it was and the lock free.
LEMMA InterruptStep ==
  ASSUME IInv, NEW p \in Procs, Interrupt(p)
  PROVE  IInv'
<1>1. pc[p] # "idle" /\ Forget(p) /\ UNCHANGED <<disk, images, acked, alarm, calls, external>>
      /\ faults' = faults + 1 /\ lock' = IF lock = p THEN NoProc ELSE lock
  BY DEF Interrupt
<1>2. /\ pc' \in [Procs -> Outside \cup Locked]
      /\ call' \in [Procs -> Requests \cup {None}]
      /\ job' \in [Procs -> Pending \cup {None}]
      /\ own' \in [Procs -> BOOLEAN]
      /\ pc'[p] = "idle"
      /\ \A q \in Procs \ {p} : pc'[q] = pc[q] /\ call'[q] = call[q] /\ job'[q] = job[q]
  BY <1>1 DEF Forget, Goto, IInv, TypeOK, Outside
<1>3. TypeOK'
  BY <1>1, <1>2 DEF IInv, TypeOK
<1>4. \A q \in Procs : Progress(q)'
  <2>1. CASE pc[p] \in Locked
    <3>1. lock' = NoProc
      BY <1>1, <2>1 DEF IInv, Progress
    <3> QED BY <1>1, <2>1, <3>1, LeaveFrame
  <2>2. CASE pc[p] \notin Locked
    <3>1. pc[p] \in Outside /\ lock' = lock
      BY <1>1, <2>2 DEF IInv, TypeOK, Progress
    <3> QED BY <1>1, <1>2, <3>1, OutsideFrame DEF Outside
  <2> QED BY <2>1, <2>2
<1> QED BY <1>1, <1>3, <1>4, QuietKeeps DEF IInv

\* With nobody in the critical section, what remains of a process relies on
\* no file.
LEMMA IdleFrame ==
  ASSUME IInv, lock = NoProc, lock' = NoProc, UNCHANGED <<pc, call>>
  PROVE  \A q \in Procs : Progress(q)'
<1> TAKE q \in Procs
<1>1. Progress(q) /\ pc[q] \notin Locked /\ lock' # q
  BY ConstantsAssumption DEF IInv, Progress
<1> QED BY <1>1 DEF Progress, Locked, Completing, NoJournal

\* When only one family is possible, every byte of it is on disk.
LEMMA OneFamily ==
  ASSUME NEW s \in Store, Sound(s), disk' = s, images' = {s}
  PROVE  Recoverable' /\ Settled' /\ disk' \in Store /\ images' \subseteq Store
<1>1. WithSidecars(s, s) = s
  BY Mixed
<1> QED BY <1>1 DEF Recoverable, Settled, SameFile

\* Any family a power loss may leave is sound.
LEMMA PowerLossStep ==
  ASSUME IInv, PowerLoss
  PROVE  IInv'
<1>1. PICK s \in images : disk' = s /\ images' = {s}
  BY DEF PowerLoss
<1>2. Recoverable' /\ Settled' /\ disk' \in Store /\ images' \subseteq Store
  BY <1>1, OneFamily DEF IInv, TypeOK, Recoverable
<1>3. /\ pc' = [p \in Procs |-> "idle"] /\ call' = [p \in Procs |-> None]
      /\ job' = [p \in Procs |-> None] /\ own' = [p \in Procs |-> FALSE]
      /\ lock' = NoProc /\ faults' = faults + 1
      /\ UNCHANGED <<acked, alarm, calls, external>>
  BY DEF PowerLoss
<1>4. TypeOK'
  BY <1>2, <1>3 DEF IInv, TypeOK, Outside
<1>5. ASSUME NEW q \in Procs PROVE Progress(q)'
  <2>1. pc'[q] = "idle" /\ lock' # q
    BY <1>3, ConstantsAssumption
  <2> QED BY <2>1 DEF Progress, Locked, Completing, NoJournal
<1> QED BY <1>2, <1>3, <1>4, <1>5 DEF IInv

\* An older collector's append leaves a sound family.
LEMMA UnjournaledAppendStep ==
  ASSUME IInv, UnjournaledAppend
  PROVE  IInv'
<1>1. lock = NoProc /\ disk.pending = None /\ images' = {disk'} /\ external' = external + 1
      /\ UNCHANGED <<procVars, acked, alarm, calls, faults>>
  BY DEF UnjournaledAppend
<1>2. PICK u \in Payloads :
        disk' = [disk EXCEPT !.exists = TRUE, !.stamp = @ + 1,
                   !.lines = Append(@, [user |-> u,
                                        prev |-> Link(disk.lines, Len(disk.lines)),
                                        op |-> NoOp])]
  BY DEF UnjournaledAppend
<1>3. disk' \in Store /\ Sound(disk)'
  BY <1>1, <1>2, DiskSound, ForeignSound
<1>4. Recoverable' /\ Settled' /\ images' \subseteq Store
  BY <1>1, <1>3, OneFamily
<1>5. TypeOK'
  BY <1>1, <1>3, <1>4 DEF IInv, TypeOK, procVars
<1> QED BY <1>1, <1>4, <1>5, IdleFrame DEF IInv, procVars

\* A restored copy is a sound family.
LEMMA RestoreCopyStep ==
  ASSUME IInv, RestoreCopy
  PROVE  IInv'
<1> DEFINE s == [disk EXCEPT !.stamp = @ + 1]
<1>1. lock = NoProc /\ disk' = s /\ images' = {s} /\ external' = external + 1
      /\ UNCHANGED <<procVars, acked, alarm, calls, faults>>
  BY DEF RestoreCopy
<1>2. s \in Store /\ Sound(s)
  BY DiskSound, CopySound
<1> HIDE DEF s
<1>3. Recoverable' /\ Settled' /\ disk' \in Store /\ images' \subseteq Store
  BY <1>1, <1>2, OneFamily
<1>4. TypeOK'
  BY <1>1, <1>3 DEF IInv, TypeOK, procVars
<1> QED BY <1>1, <1>3, <1>4, IdleFrame DEF IInv, procVars

-----------------------------------------------------------------------------
(* The invariant is inductive, and what follows from it.                   *)

\* The family the program starts with is sound.
LEMMA IInvInit == Init => IInv
<1> SUFFICES ASSUME Init PROVE IInv
  OBVIOUS
<1>1. EmptyStore \in Store /\ Sound(EmptyStore)
  <2> DEFINE x == LegacyTicks > 0
  <2>1. /\ EmptyStore = [exists |-> x, lines |-> <<>>, tail |-> NoTail, stamp |-> 0,
                         ckpt |-> None, pending |-> None]
        /\ x \in BOOLEAN /\ <<>> \in Seq(Line) /\ NoTail \in Tail_ /\ 0 \in Nat
    BY DEF EmptyStore, Tail_
  <2>2. EmptyStore \in Store
    <3> HIDE DEF x
    <3> QED BY <2>1 DEF Store
  <2>3. Sound(EmptyStore)
    <3>1. /\ EmptyStore.lines = <<>> /\ EmptyStore.tail = NoTail
          /\ EmptyStore.ckpt = None /\ EmptyStore.pending = None
          /\ (LegacyTicks > 0 => EmptyStore.exists)
      BY <2>1
    <3>2. Len(<<>>) = 0 /\ ChainOK(<<>>, 0)
      BY DEF ChainOK
    <3> QED BY <3>1, <3>2 DEF Sound, SoundCheckpoint, SoundPending
  <2> QED BY <2>2, <2>3
<1>2. disk = EmptyStore /\ images = {EmptyStore}
  BY DEF Init
<1>3. TypeOK
  BY <1>1, <1>2 DEF Init, TypeOK, Outside
<1>4. Recoverable /\ Settled
  <2>1. WithSidecars(EmptyStore, EmptyStore) = EmptyStore
    BY <1>1, Mixed
  <2> QED BY <1>1, <1>2, <2>1 DEF Recoverable, Settled, SameFile
<1>5. ASSUME NEW q \in Procs PROVE Progress(q)
  <2>1. pc[q] = "idle" /\ lock # q
    BY ConstantsAssumption DEF Init
  <2> QED BY <2>1 DEF Progress, Locked, Completing, NoJournal
<1> QED BY <1>3, <1>4, <1>5 DEF IInv, Init

\* Every step of Next keeps the invariant.
LEMMA IInvStep == IInv /\ [Next]_vars => IInv'
<1> SUFFICES ASSUME IInv, [Next]_vars PROVE IInv'
  OBVIOUS
<1>1. ASSUME NEW p \in Procs, Step(p) PROVE IInv'
  BY <1>1, AcquireStep, LockTimeoutStep, InspectStep, CompleteStep, FreshSyncStep, SuffixStep,
     WriteStep, FsyncStep, EntrySyncStep, SaveCheckpointStep, CheckpointSyncStep,
     UnlinkPendingStep, UnlinkSyncStep, RecoveredStep, TipStep, TipSyncStep,
     DecideStep, PendingSyncStep DEF Step
<1>2. CASE UNCHANGED vars
  <2>1. TypeOK'
    BY <1>2 DEF IInv, TypeOK, vars
  <2>2. \A q \in Procs : Progress(q)'
    BY <1>2 DEF IInv, Progress, Appended, SameFile, vars
  <2> QED BY <1>2, <2>1, <2>2, QuietKeeps DEF IInv, vars
<1> QED BY <1>1, <1>2, CallStep, InterruptStep, PowerLossStep, UnjournaledAppendStep,
        RestoreCopyStep DEF Next

\* Whatever is interrupted, lost or copied, the ledger family stays sound in
\* every state a power loss could leave (collect.py:2104-2548).
THEOREM Invariance == Spec => []IInv
<1>1. Init => IInv
  BY IInvInit
<1>2. IInv /\ [Next]_vars => IInv'
  BY IInvStep
<1> QED BY <1>1, <1>2, PTL DEF Spec

\* Type correctness of the ledger family and of the processes.
THEOREM TypeCorrect == Spec => []TypeOK
<1>1. IInv => TypeOK
  BY DEF IInv
<1> QED BY <1>1, Invariance, PTL

\* The complete ticks of the ledger always form one hash chain, in the file
\* and in every file a power loss could leave (collect.py:2456-2458).
THEOREM ChainNeverBroken == Spec => []ChainIntact
<1>1. IInv => ChainIntact
  BY DEF IInv, Recoverable, Sound, ChainIntact
<1> QED BY <1>1, Invariance, PTL

\* No interruption, power loss, copy or verified foreign append leaves a
\* family that a later call refuses (collect.py:2116-2258, 2262-2439).
THEOREM RecoveryNeverWedged == Spec => []NeverWedged
<1>1. IInv => NeverWedged
  BY DEF IInv, NeverWedged
<1> QED BY <1>1, Invariance, PTL

\* The checkpoint never outlives the tick it names: a saved checkpoint is of
\* bytes that a power loss cannot take away (collect.py:2225-2252).
THEOREM CheckpointNeverAhead == Spec => []CheckpointAnchored
<1>1. IInv => CheckpointAnchored
  <2> SUFFICES ASSUME IInv, NEW s \in images \cup {disk}, s.ckpt # None
               PROVE  TipIntact(s)
    BY DEF CheckpointAnchored
  <2>1. Sound(s) /\ s \in Store
    BY DEF IInv, TypeOK, Recoverable
  <2>2. s.lines \in Seq(Line) /\ Len(s.lines) \in Nat
    BY <2>1, StoreFields
  <2> QED BY <2>1, <2>2 DEF Sound, SoundCheckpoint, TipIntact, SameBytes
<1> QED BY <1>1, Invariance, PTL

-----------------------------------------------------------------------------
(* Sequences of ticks under the side effects.                              *)

\* A longer or equal file with the same first lines.
Extends(l, m) == Len(m) <= Len(l) /\ \A i \in 1..Len(m) : m[i] = l[i]

\* A file extends itself.
LEMMA ExtendsSelf ==
  ASSUME NEW l \in Seq(Line)
  PROVE  Extends(l, l)
BY DEF Extends

\* The bytes that a write adds leave the lines before them alone.
LEMMA WrittenLines ==
  ASSUME NEW s \in Store, NEW rec \in Line, NEW k \in Nat
  PROVE  /\ Written(s, rec, k).lines \in {s.lines, Append(s.lines, rec)}
         /\ Extends(Written(s, rec, k).lines, s.lines)
         /\ Written(s, rec, k).pending = s.pending /\ Written(s, rec, k).ckpt = s.ckpt
<1>1. s.lines \in Seq(Line) /\ s = [exists |-> s.exists, lines |-> s.lines,
        tail |-> s.tail, stamp |-> s.stamp, ckpt |-> s.ckpt, pending |-> s.pending]
  BY StoreFields
<1>2. Extends(s.lines, s.lines) /\ Extends(Append(s.lines, rec), s.lines)
  BY <1>1 DEF Extends
<1>3. CASE s.tail.n + k = RecordBytes
  <2>1. Written(s, rec, k) = [exists |-> s.exists, lines |-> Append(s.lines, rec),
          tail |-> NoTail, stamp |-> s.stamp + 1, ckpt |-> s.ckpt, pending |-> s.pending]
    BY <1>1, <1>3 DEF Written
  <2> QED BY <1>2, <2>1
<1>4. CASE s.tail.n + k # RecordBytes
  <2>1. Written(s, rec, k) = [exists |-> s.exists, lines |-> s.lines,
          tail |-> [of |-> rec, n |-> s.tail.n + k], stamp |-> s.stamp + 1,
          ckpt |-> s.ckpt, pending |-> s.pending]
    BY <1>1, <1>4 DEF Written
  <2> QED BY <1>2, <2>1
<1> QED BY <1>3, <1>4

\* The families of a step extend families before it.
Grows == \A s \in images' : \E t \in images : Extends(s.lines, t.lines)

\* A step that leaves the possible families alone, or removes some.
LEMMA GrowsFewer ==
  ASSUME TypeOK, images' \subseteq images
  PROVE  Grows
<1> SUFFICES ASSUME NEW s \in images' PROVE \E t \in images : Extends(s.lines, t.lines)
  BY DEF Grows
<1>1. s \in images /\ s.lines \in Seq(Line)
  BY StoreFields DEF TypeOK
<1> QED BY <1>1, ExtendsSelf

\* A rename or unlink of a sidecar.
LEMMA GrowsSidecar ==
  ASSUME IInv, NEW s \in Store, s.lines = disk.lines, ChangeSidecar(s)
  PROVE  Grows
<1> SUFFICES ASSUME NEW v \in images' PROVE \E t \in images : Extends(v.lines, t.lines)
  BY DEF Grows
<1>1. disk \in images /\ images \subseteq Store
      /\ images' = images \cup {WithSidecars(t, s) : t \in images \cup {s}}
  BY DiskSound DEF ChangeSidecar
<1>2. CASE v \in images
  BY <1>1, <1>2, StoreFields, ExtendsSelf
<1>3. ASSUME NEW t \in images \cup {s}, v = WithSidecars(t, s)
      PROVE  \E u \in images : Extends(v.lines, u.lines)
  <2>1. t \in Store /\ v.lines = t.lines /\ t.lines \in Seq(Line)
    BY <1>1, <1>3, Mixed, StoreFields DEF SameFile
  <2>2. \E u \in images : u.lines = t.lines
    BY <1>1
  <2> QED BY <2>1, <2>2, ExtendsSelf
<1> QED BY <1>1, <1>2, <1>3

\* An fsync of the directory.
LEMMA GrowsDirectory ==
  ASSUME IInv, SyncDirectory
  PROVE  Grows
<1>1. \A t \in images' : \E u \in images : SameFile(t, u)
  BY SyncDirectoryKeeps DEF IInv
<1>2. \A u \in images : u.lines \in Seq(Line)
  BY DiskSound, StoreFields
<1> QED BY <1>1, <1>2, ExtendsSelf DEF Grows, SameFile

\* A step whose new families extend the file that processes see.
LEMMA GrowsDisk ==
  ASSUME IInv, NEW s, Extends(s.lines, disk.lines), images' \subseteq images \cup {s}
  PROVE  Grows
<1>1. disk \in images /\ \A t \in images : t.lines \in Seq(Line)
  BY DiskSound, StoreFields
<1>2. \A t \in images : Extends(t.lines, t.lines)
  BY <1>1, ExtendsSelf
<1> QED BY <1>1, <1>2 DEF Grows

\* Every step of Next lets the families of the power losses only grow.
LEMMA GrowsStep ==
  ASSUME IInv, [Next]_vars
  PROVE  Grows
<1>1. disk \in Store /\ disk.lines \in Seq(Line) /\ disk \in images /\ TypeOK
      /\ disk = [exists |-> disk.exists, lines |-> disk.lines, tail |-> disk.tail,
                 stamp |-> disk.stamp, ckpt |-> disk.ckpt, pending |-> disk.pending]
      /\ disk.ckpt \in Checkpoint \cup {None} /\ disk.pending \in Pending \cup {None}
  BY DiskSound, StoreFields DEF IInv
<1>2. CASE UNCHANGED images
  BY <1>1, <1>2, GrowsFewer
<1>3. ASSUME NEW p \in Procs, Complete(p) \/ SaveCheckpoint(p) \/ Tip(p) \/ UnlinkPending(p)
                              \/ Decide(p)
      PROVE  Grows
  <2>1. CASE UNCHANGED images
    BY <2>1, <1>2
  <2>2. ASSUME NEW s, ChangeSidecar(s), s.lines = disk.lines, s = disk'
        PROVE  Grows
    <3>1. s \in Store
      BY <2>2, <1>3, IInvStep DEF IInv, TypeOK, Next, Step
    <3> QED BY <2>2, <3>1, GrowsSidecar
  <2>3. \A c : [disk EXCEPT !.ckpt = c].lines = disk.lines
    BY <1>1
  <2>4. \A q : [disk EXCEPT !.pending = q].lines = disk.lines
    BY <1>1
  <2>5. \A s : ChangeSidecar(s) => s = disk'
    BY DEF ChangeSidecar
  <2>6. CASE Complete(p)
    BY <2>1, <2>2, <2>3, <2>5, <2>6 DEF Complete, CheckSuffix, Alarm
  <2>7. CASE SaveCheckpoint(p)
    BY <2>2, <2>3, <2>5, <2>7 DEF SaveCheckpoint
  <2>8. CASE Tip(p)
    BY <2>1, <2>2, <2>3, <2>5, <2>8 DEF Tip, Alarm
  <2>9. CASE UnlinkPending(p)
    BY <2>2, <2>4, <2>5, <2>9 DEF UnlinkPending
  <2>10. CASE Decide(p)
    BY <2>1, <2>2, <2>4, <2>5, <2>10 DEF Decide, Return, Refuse
  <2> QED BY <1>3, <2>6, <2>7, <2>8, <2>9, <2>10
<1>4. ASSUME NEW p \in Procs, Write(p) PROVE Grows
  <2>1. CASE UNCHANGED <<disk, images>>
    BY <2>1, <1>2
  <2>2. CASE WriteFile([disk EXCEPT !.exists = TRUE, !.stamp = @ + 1])
    <3>1. [disk EXCEPT !.exists = TRUE, !.stamp = @ + 1].lines = disk.lines
      BY <1>1
    <3> QED BY <1>1, <2>2, <3>1, ExtendsSelf, GrowsDisk DEF WriteFile
  <2>3. ASSUME NEW k \in 1..(RecordBytes - disk.tail.n),
               WriteFile(Written(disk, job[p].record, k))
        PROVE  Grows
    <3>1. job[p].record \in Line
      BY <1>4, PendingFields DEF Write, IInv, TypeOK, Progress, Completing
    <3>2. k \in Nat
      BY <1>1, StoreFields, ConstantsAssumption
    <3> QED BY <1>1, <2>3, <3>1, <3>2, WrittenLines, GrowsDisk DEF WriteFile
  <2> QED BY <1>4, <2>1, <2>2, <2>3 DEF Write
<1>5. ASSUME NEW p \in Procs, Fsync(p) PROVE Grows
  BY <1>1, <1>5, GrowsFewer DEF Fsync, SyncLedger
<1>6. ASSUME NEW p \in Procs, Step(p) PROVE Grows
  BY <1>2, <1>3, <1>4, <1>5, <1>6, GrowsDirectory
     DEF Step, Acquire, LockTimeout, Inspect, Refuse, FreshSync, Suffix, CheckSuffix, Alarm,
         EntrySync, CheckpointSync, UnlinkSync, Recovered, Return, TipSync, PendingSync, SyncThen
<1>7. CASE PowerLoss
  BY <1>1, <1>7, GrowsFewer DEF PowerLoss
<1>8. CASE UnjournaledAppend
  <2>1. PICK u \in Payloads :
          disk' = [disk EXCEPT !.exists = TRUE, !.stamp = @ + 1,
                     !.lines = Append(@, [user |-> u,
                                          prev |-> Link(disk.lines, Len(disk.lines)),
                                          op |-> NoOp])]
    BY <1>8 DEF UnjournaledAppend
  <2> DEFINE x == [user |-> u, prev |-> Link(disk.lines, Len(disk.lines)), op |-> NoOp]
  <2>2. disk'.lines = Append(disk.lines, x)
    BY <1>1, <2>1
  <2>3. Extends(disk'.lines, disk.lines)
    BY <1>1, <2>2 DEF Extends
  <2> QED BY <1>8, <2>3, GrowsDisk DEF UnjournaledAppend
<1>9. CASE RestoreCopy
  <2>1. disk'.lines = disk.lines
    BY <1>1, <1>9 DEF RestoreCopy
  <2> QED BY <1>1, <1>9, <2>1, ExtendsSelf, GrowsDisk DEF RestoreCopy
<1> QED BY <1>2, <1>6, <1>7, <1>8, <1>9 DEF Next, Call, Interrupt, vars

\* What had reached the disk is never rewritten, whatever is interrupted or
\* lost (collect.py:2116-2258).
THEOREM NothingRewritten == Spec => LedgerOnlyGrows
<1>1. IInv /\ [Next]_vars =>
        [\A s \in images' : \E t \in images :
           /\ Len(t.lines) <= Len(s.lines)
           /\ \A i \in 1..Len(t.lines) : t.lines[i] = s.lines[i]]_vars
  BY GrowsStep DEF Grows, Extends
<1> QED BY <1>1, Invariance, PTL DEF Spec, LedgerOnlyGrows

-----------------------------------------------------------------------------
(* Families whose ticks are accounted for.                                 *)

\* What Traced says of one family by itself.
Named(s) == NamesOperation(s) /\ ForeignGrowth(s) /\ NewOperation(s)

\* Completing the journal of a sound family yields its lines, and the tick
\* of the journal right after the base.
LEMMA CompletedLines ==
  ASSUME NEW s \in Store, Sound(s)
  PROVE  /\ Completed(s) \in Seq(Line)
         /\ Extends(Completed(s), s.lines)
         /\ s.pending = None => Completed(s) = s.lines
         /\ s.pending # None =>
              /\ s.pending.base.size \in Nat
              /\ Len(Completed(s)) = s.pending.base.size + 1
              /\ Completed(s)[s.pending.base.size + 1] = s.pending.record
<1>1. s.lines \in Seq(Line) /\ Extends(s.lines, s.lines)
  BY StoreFields, ExtendsSelf
<1>2. CASE s.pending = None
  BY <1>1, <1>2 DEF Completed
<1>3. CASE s.pending # None
  <2>1. s.pending.base.size \in Nat /\ s.pending.record \in Line
    BY <1>3, StoreFields, PendingFields
  <2>2. /\ s.pending.base.size <= Len(s.lines)
        /\ Len(s.lines) <= s.pending.base.size + 1
        /\ Len(s.lines) = s.pending.base.size + 1 =>
             s.lines[s.pending.base.size + 1] = s.pending.record
    BY <1>3 DEF Sound, SoundPending
  <2>3. CASE Len(s.lines) = s.pending.base.size
    <3>1. Completed(s) = Append(s.lines, s.pending.record)
      BY <1>3, <2>3 DEF Completed
    <3> QED BY <1>1, <1>3, <2>1, <2>3, <3>1 DEF Extends
  <2>4. CASE Len(s.lines) # s.pending.base.size
    <3>1. Completed(s) = s.lines /\ Len(s.lines) = s.pending.base.size + 1
      BY <1>1, <2>1, <2>2, <2>4 DEF Completed
    <3> QED BY <1>1, <1>3, <2>1, <2>2, <3>1
  <2> QED BY <2>3, <2>4
<1> QED BY <1>2, <1>3

\* Being accounted for is about the lines and the two sidecars only.
LEMMA NamedSame ==
  ASSUME NEW s, NEW t, Named(s),
         s.lines = t.lines, s.ckpt = t.ckpt, s.pending = t.pending
  PROVE  Named(t)
BY DEF Named, NamesOperation, ForeignGrowth, NewOperation

\* The family that processes see is its own completion.
LEMMA OneAppendSelf ==
  ASSUME disk \in Store, Sound(disk)
  PROVE  OneAppend(disk)
BY CompletedLines DEF OneAppend, Extends

\* The sidecars that processes see account for the ledger of every family.
LEMMA NamedMixed ==
  ASSUME IInv, NEW u \in images, OneAppend(u), Named(disk)
  PROVE  Named(WithSidecars(u, disk))
<1> DEFINE w == WithSidecars(u, disk)
<1>1. /\ u \in Store /\ disk \in Store /\ Sound(disk) /\ Sound(w)
      /\ w.lines = u.lines /\ w.ckpt = disk.ckpt /\ w.pending = disk.pending
  BY DiskSound, Mixed DEF IInv, Recoverable, SameFile
<1>2. u.lines \in Seq(Line) /\ disk.lines \in Seq(Line)
  BY <1>1, StoreFields
<1>3. \A i \in 1..Len(u.lines) : i <= Len(disk.lines) => u.lines[i] = disk.lines[i]
  BY <1>1, <1>2, CompletedLines DEF OneAppend, Extends
<1>4. disk.ckpt # None =>
        /\ disk.ckpt.size \in 1..Len(u.lines) /\ disk.ckpt.size \in 1..Len(disk.lines)
  BY <1>1 DEF Sound, SoundCheckpoint
<1>5. NamesOperation(w)
  BY <1>1, <1>2, <1>3, <1>4 DEF Named, NamesOperation
<1>6. ASSUME NEW i \in 1..Len(w.lines)
      PROVE  \/ w.ckpt # None /\ i <= w.ckpt.size
             \/ w.pending # None /\ i = w.pending.base.size + 1
             \/ w.lines[i].op = NoOp
  <2>1. CASE i <= Len(disk.lines)
    BY <1>1, <1>2, <1>3, <2>1 DEF Named, ForeignGrowth
  <2>2. CASE i > Len(disk.lines)
    <3>1. i <= Len(Completed(disk)) /\ disk.pending # None
      BY <1>1, <1>2, <2>2, CompletedLines DEF OneAppend
    <3>2. Len(disk.lines) >= disk.pending.base.size
      BY <1>1, <3>1 DEF Sound, SoundPending
    <3> QED BY <1>1, <1>2, <2>2, <3>1, <3>2, CompletedLines
  <2> QED BY <1>2, <2>1, <2>2, <1>1
<1>7. NewOperation(w)
  <2> SUFFICES ASSUME disk.pending # None
               PROVE  \/ disk.pending.base.size = 0 \/ disk.pending.record.op = NoOp
                      \/ u.lines[disk.pending.base.size].op # disk.pending.record.op
    BY <1>1 DEF NewOperation
  <2>1. /\ disk.pending.base.size <= Len(u.lines)
        /\ disk.pending.base.size <= Len(disk.lines) /\ disk.pending.base.size \in Nat
    BY <1>1, CompletedLines DEF Sound, SoundPending
  <2> QED BY <1>2, <1>3, <2>1 DEF Named, NewOperation
<1> QED BY <1>5, <1>6, <1>7 DEF Named, ForeignGrowth

\* The tick that a journal announces is accounted for by the journal.
LEMMA NamedWritten ==
  ASSUME NEW s \in Store, Sound(s), Named(s), s.pending # None, ~Appended(s, s.pending),
         NEW k \in 1..(RecordBytes - s.tail.n)
  PROVE  /\ Named(Written(s, s.pending.record, k))
         /\ Completed(Written(s, s.pending.record, k)) = Completed(s)
<1> DEFINE r == s.pending.record
           n == s.pending.base.size
           w == Written(s, r, k)
<1>1. s.lines \in Seq(Line) /\ r \in Line /\ n \in Nat /\ k \in Nat
  BY StoreFields, PendingFields, ConstantsAssumption
<1>2. w.lines \in {s.lines, Append(s.lines, r)} /\ w.pending = s.pending /\ w.ckpt = s.ckpt
  BY <1>1, WrittenLines
<1>3. Len(s.lines) = n
  BY <1>1 DEF Sound, SoundPending, Appended
<1> HIDE DEF w
<1>4. ASSUME w.lines = s.lines PROVE Named(w) /\ Completed(w) = Completed(s)
  BY <1>2, <1>4, NamedSame DEF Completed
<1>5. ASSUME w.lines = Append(s.lines, r) PROVE Named(w) /\ Completed(w) = Completed(s)
  <2>1. Len(w.lines) = n + 1 /\ \A i \in 1..n : w.lines[i] = s.lines[i]
    BY <1>1, <1>3, <1>5
  <2>2. Completed(w) = Completed(s)
    BY <1>1, <1>2, <1>3, <1>5, <2>1 DEF Completed
  <2>3. s.ckpt # None => s.ckpt.size \in 1..n
    BY <1>3 DEF Sound, SoundCheckpoint
  <2>4. NamesOperation(w)
    BY <1>2, <2>1, <2>3 DEF Named, NamesOperation
  <2>5. ASSUME NEW i \in 1..Len(w.lines)
        PROVE  \/ w.ckpt # None /\ i <= w.ckpt.size
               \/ w.pending # None /\ i = w.pending.base.size + 1
               \/ w.lines[i].op = NoOp
    <3>1. CASE i = n + 1
      BY <1>2, <3>1
    <3>2. CASE i # n + 1
      <4>1. i \in 1..n /\ i \in 1..Len(s.lines) /\ w.lines[i] = s.lines[i]
        BY <1>1, <1>3, <2>1, <3>2
      <4> QED BY <1>2, <4>1 DEF Named, ForeignGrowth
    <3> QED BY <3>1, <3>2
  <2>6. NewOperation(w)
    <3>1. n = 0 \/ n \in 1..n
      BY <1>1
    <3> QED BY <1>2, <2>1, <3>1 DEF Named, NewOperation
  <2> QED BY <2>2, <2>4, <2>5, <2>6 DEF Named, ForeignGrowth
<1> QED BY <1>2, <1>4, <1>5 DEF w

\* A checkpoint of the whole ledger that names the operation of its last tick.
LEMMA NamedCheckpoint ==
  ASSUME NEW s \in Store, Named(s), s.lines # <<>>, NEW op, op = s.lines[Len(s.lines)].op,
         NEW w, w.lines = s.lines, w.pending = s.pending,
         w.ckpt = CheckpointOf(s, op), w.ckpt # None
  PROVE  Named(w)
<1>1. s.lines \in Seq(Line) /\ Len(s.lines) \in Nat
  BY StoreFields
<1>2. w.ckpt.size = Len(s.lines) /\ w.ckpt.op = op
  BY DEF CheckpointOf
<1>3. NamesOperation(w)
  BY <1>2 DEF NamesOperation
<1>4. ForeignGrowth(w)
  BY <1>1, <1>2 DEF ForeignGrowth
<1> QED BY <1>3, <1>4 DEF Named, NewOperation

-----------------------------------------------------------------------------
(* What a side effect does to the accounts.                                *)

\* A rename or unlink of a sidecar, when every byte of the ledger is on disk;
\* a journal is only replaced once its append is complete.
LEMMA SidecarTraces ==
  ASSUME RInv, \A t \in images : SameFile(t, disk), NEW s \in Store, Sound(s),
         SameFile(s, disk), Named(s), ChangeSidecar(s),
         disk.pending # None /\ s.pending # disk.pending => Appended(disk, disk.pending)
  PROVE  \A t \in images' : Traced(t)'
<1>1. /\ IInv /\ TypeOK /\ Recoverable /\ disk \in images
      /\ \A t \in images : Traced(t) /\ t \in Store
  BY DiskSound DEF RInv, IInv
<1>2. /\ disk' = s /\ \A t \in images' : SameFile(t, s)
      /\ images' = images \cup {WithSidecars(t, s) : t \in images \cup {s}}
  BY <1>1, ChangeSidecarKeeps DEF ChangeSidecar
<1>3. s.lines \in Seq(Line) /\ Completed(s) \in Seq(Line) /\ Extends(Completed(s), s.lines)
  BY StoreFields, CompletedLines
<1>4. ASSUME NEW t \in images',
             t.pending # None /\ t.pending # s.pending =>
               Len(t.lines) = t.pending.base.size + 1
      PROVE  OneAppend(t)'
  <2>1. t.lines = s.lines
    BY <1>2 DEF SameFile
  <2>2. Extends(Completed(s), t.lines)
    BY <1>3, <2>1
  <2> QED BY <1>2, <1>4, <2>1, <2>2 DEF OneAppend, Extends, Completed
<1>5. ASSUME NEW t \in images PROVE Traced(t)'
  <2>1. t \in images' /\ Traced(t) /\ t.lines = disk.lines
    BY <1>1, <1>2 DEF SameFile
  <2>2. t.pending # None /\ t.pending # s.pending => Len(t.lines) = t.pending.base.size + 1
    BY <2>1 DEF Traced, OneAppend, Appended
  <2> QED BY <1>4, <2>1, <2>2 DEF Traced, NamesOperation, ForeignGrowth, NewOperation
<1>6. ASSUME NEW u \in images \cup {s}, NEW t, t = WithSidecars(u, s)
      PROVE  Traced(t)'
  <2>1. t \in images' /\ u \in Store
    BY <1>1, <1>2, <1>6
  <2>2. t.ckpt = s.ckpt /\ t.pending = s.pending /\ t.lines = s.lines
    BY <1>2, <1>6, <2>1, Mixed DEF SameFile
  <2>3. Named(t)
    BY <2>2, NamedSame
  <2> QED BY <1>4, <2>1, <2>2, <2>3
          DEF Named, Traced, NamesOperation, ForeignGrowth, NewOperation
<1> QED BY <1>2, <1>5, <1>6

\* An fsync of the directory pairs every ledger with the sidecars seen now.
LEMMA DirectoryTraces ==
  ASSUME RInv, SyncDirectory
  PROVE  \A t \in images' : Traced(t)'
<1>1. /\ IInv /\ disk \in images /\ disk \in Store
      /\ \A t \in images : Traced(t) /\ t \in Store
  BY DiskSound DEF RInv
<1>2. /\ disk' = disk
      /\ images' = {WithSidecars(t, disk) : t \in {u \in images : u.exists = disk.exists}}
  BY DEF SyncDirectory
<1>3. Named(disk)
  BY <1>1 DEF Traced, Named
<1> SUFFICES ASSUME NEW u \in images, NEW t, t = WithSidecars(u, disk) PROVE Traced(t)'
  BY <1>2
<1>4. Named(t)
  BY <1>1, <1>3, NamedMixed DEF Traced
<1>5. t.lines = u.lines /\ t.pending = disk.pending
  BY <1>1, Mixed DEF SameFile
<1>6. OneAppend(t)'
  BY <1>1, <1>2, <1>5 DEF Traced, OneAppend, Completed
<1> QED BY <1>4, <1>6 DEF Named, Traced, NamesOperation, ForeignGrowth, NewOperation

\* A write of bytes that the open journal announces.
LEMMA WriteTraces ==
  ASSUME RInv, NEW s \in Store, Sound(s), Named(s), WriteFile(s),
         s.pending = disk.pending, disk.pending # None, Completed(s) = Completed(disk)
  PROVE  \A t \in images' : Traced(t)'
<1>1. disk' = s /\ images' = images \cup {s} /\ \A t \in images : Traced(t)
  BY DEF WriteFile, RInv
<1>2. Extends(Completed(s), s.lines)
  BY CompletedLines
<1>3. Completed(disk)' = Completed(disk)
  BY <1>1 DEF Completed
<1>4. ASSUME NEW t \in images PROVE Traced(t)'
  BY <1>1, <1>3 DEF Traced, OneAppend, NamesOperation, ForeignGrowth, NewOperation
<1>5. Traced(s)'
  BY <1>1, <1>2, <1>3
     DEF Named, Extends, Traced, OneAppend, NamesOperation, ForeignGrowth, NewOperation
<1> QED BY <1>1, <1>4, <1>5

\* A step that leaves the family alone and possible families behind.
LEMMA FewerTraces ==
  ASSUME RInv, disk' = disk, images' \subseteq images
  PROVE  \A t \in images' : Traced(t)'
BY DEF RInv, Traced, OneAppend, Completed, NamesOperation, ForeignGrowth, NewOperation

\* When only one family is possible, it is the one that processes see.
LEMMA OneFamilyTraces ==
  ASSUME NEW s \in Store, Sound(s), Named(s), disk' = s, images' = {s}
  PROVE  \A t \in images' : Traced(t)'
<1>1. Extends(Completed(s), s.lines)
  BY CompletedLines
<1>2. Completed(disk)' = Completed(s)
  BY DEF Completed
<1> QED BY <1>1, <1>2
        DEF Named, Extends, Traced, OneAppend, NamesOperation, ForeignGrowth, NewOperation

\* A step of another process: what a process in its critical section serves
\* it serves still.
LEMMA ServingOthers ==
  ASSUME RInv, NEW p \in Procs, NEW q \in Procs, q # p, lock = p \/ UNCHANGED disk,
         pc'[q] = pc[q], call'[q] = call[q], job'[q] = job[q], own'[q] = own[q]
  PROVE  Serving(q)'
<1>1. Serving(q) /\ Progress(q) /\ pc[q] \in Outside \cup Locked
  BY DEF RInv, IInv, TypeOK
<1>2. CASE UNCHANGED disk
  BY <1>1, <1>2 DEF Serving, Records, Answers
<1>3. CASE lock = p
  <2>1. pc[q] \in Outside
    BY <1>1, <1>3 DEF Progress
  <2>2. pc[q] \notin {"pendSync", "unlinkSync", "recovered"} \cup Recovering
    BY <2>1 DEF Outside, Recovering, Completing
  <2> QED BY <1>1, <2>2 DEF Serving, Records
<1> QED BY <1>2, <1>3

\* A call that ends serves nothing any more.
LEMMA ForgetServes ==
  ASSUME RInv, NEW p \in Procs, Forget(p), UNCHANGED disk
  PROVE  \A q \in Procs : Serving(q)'
<1>1. ASSUME NEW q \in Procs, q # p PROVE Serving(q)'
  <2>1. pc'[q] = pc[q] /\ call'[q] = call[q] /\ job'[q] = job[q] /\ own'[q] = own[q]
    BY <1>1 DEF Forget, Goto, RInv, IInv, TypeOK
  <2> QED BY <1>1, <2>1, ServingOthers
<1>2. pc'[p] = "idle" /\ own'[p] = FALSE
  BY DEF Forget, Goto, RInv, IInv, TypeOK
<1> QED BY <1>1, <1>2 DEF Serving, Recovering, Completing

\* A step inside the critical section that keeps the call and the job.
LEMMA LockedServes ==
  ASSUME RInv, NEW p \in Procs, pc[p] \in Locked, NEW step, Goto(p, step),
         UNCHANGED <<call, job, own>>, step \notin Outside,
         step = "pendSync" => Records(disk'.pending, call[p]),
         step \in Recovering => pc[p] \in Recovering,
         step \in {"unlinkSync", "recovered"} =>
           job[p] # None /\ \E i \in 1..Len(disk'.lines) : disk'.lines[i] = job[p].record
  PROVE  \A q \in Procs : Serving(q)'
<1>1. lock = p /\ pc'[p] = step /\ \A q \in Procs \ {p} : pc'[q] = pc[q]
  BY DEF RInv, IInv, TypeOK, Progress, Goto
<1>2. \A q \in Procs \ {p} : Serving(q)'
  BY <1>1, ServingOthers
<1>3. Serving(p)'
  BY <1>1 DEF RInv, Serving, Records, Answers
<1> QED BY <1>2, <1>3

-----------------------------------------------------------------------------
(* One lemma per action that changes a sidecar or the ledger.              *)

\* The checkpoint that a completed append rebinds names the same tick still.
LEMMA CompleteTraces ==
  ASSUME RInv, NEW p \in Procs, Complete(p)
  PROVE  \A t \in images' : Traced(t)'
<1>1. IInv /\ disk \in Store /\ Sound(disk) /\ Named(disk)
      /\ disk.pending # None /\ job[p] = disk.pending
  BY DiskSound DEF Complete, RInv, IInv, Progress, Completing, Traced, Named
<1>2. CASE UNCHANGED <<disk, images>>
  BY <1>2, FewerTraces
<1>3. ASSUME disk.pending.base.fresh, disk.ckpt # None,
             ChangeSidecar([disk EXCEPT !.ckpt = CheckpointOf(disk, disk.ckpt.op)])
      PROVE  \A t \in images' : Traced(t)'
  <2> DEFINE s == [disk EXCEPT !.ckpt = CheckpointOf(disk, disk.ckpt.op)]
  <2>1. /\ \A t \in images : SameFile(t, disk)
        /\ disk.lines # <<>> /\ disk.ckpt.op \in OpId
        /\ disk.ckpt.op = disk.pending.record.op
    BY <1>1, <1>3, FreshCheckpoint
  <2>2. disk.ckpt.op = disk.lines[Len(disk.lines)].op
    <3>1. disk.lines \in Seq(Line) /\ disk.pending.base.size \in Nat
      BY <1>1, StoreFields, PendingFields
    <3>2. /\ Len(disk.lines) <= 1 /\ disk.ckpt.size \in 1..Len(disk.lines)
      BY <1>1, <1>3 DEF Sound, SoundPending, SoundCheckpoint
    <3>3. disk.ckpt.size = Len(disk.lines)
      BY <3>1, <3>2
    <3> QED BY <1>1, <1>3, <3>3 DEF Named, NamesOperation
  <2>3. /\ s \in Store /\ Sound(s) /\ SameFile(s, disk) /\ s.pending = disk.pending
        /\ s.ckpt = CheckpointOf(disk, disk.ckpt.op) /\ CheckpointOf(disk, disk.ckpt.op) # None
    BY <1>1, <2>1, CheckpointSound
  <2> HIDE DEF s
  <2>4. Named(s)
    BY <1>1, <2>1, <2>2, <2>3, NamedCheckpoint DEF SameFile
  <2> QED BY <1>3, <2>1, <2>3, <2>4, SidecarTraces DEF s
<1> QED BY <1>1, <1>2, <1>3 DEF Complete, CheckSuffix, Alarm, NeedsRebind

\* The bytes that Write adds are those of the journal.
LEMMA WriteActionTraces ==
  ASSUME RInv, NEW p \in Procs, Write(p)
  PROVE  \A t \in images' : Traced(t)'
<1>1. /\ IInv /\ disk \in Store /\ Sound(disk) /\ Named(disk)
      /\ disk.pending # None /\ job[p] = disk.pending
  BY DiskSound DEF Write, RInv, IInv, Progress, Completing, Traced, Named
<1>2. CASE UNCHANGED <<disk, images>>
  BY <1>2, FewerTraces
<1>3. CASE WriteFile([disk EXCEPT !.exists = TRUE, !.stamp = @ + 1])
  <2> DEFINE w == [disk EXCEPT !.exists = TRUE, !.stamp = @ + 1]
  <2>1. w \in Store /\ Sound(w) /\ w.lines = disk.lines /\ w.ckpt = disk.ckpt
        /\ w.pending = disk.pending
    BY <1>1, CreatedSound
  <2> HIDE DEF w
  <2>2. Named(w) /\ Completed(w) = Completed(disk)
    BY <1>1, <2>1, NamedSame DEF Completed
  <2> QED BY <1>1, <1>3, <2>1, <2>2, WriteTraces DEF w
<1>4. ASSUME NEW k \in 1..(RecordBytes - disk.tail.n), disk.exists, ~Appended(disk, job[p]),
             WriteFile(Written(disk, job[p].record, k))
      PROVE  \A t \in images' : Traced(t)'
  BY <1>1, <1>4, WrittenSound, NamedWritten, WriteTraces
<1> QED BY <1>2, <1>3, <1>4 DEF Write

\* The checkpoint of a completed append names the tick of the journal.
LEMMA SaveCheckpointTraces ==
  ASSUME RInv, NEW p \in Procs, SaveCheckpoint(p)
  PROVE  \A t \in images' : Traced(t)'
<1> DEFINE s == [disk EXCEPT !.ckpt = CheckpointOf(disk, job[p].record.op)]
<1>1. /\ IInv /\ disk \in Store /\ Sound(disk) /\ Named(disk)
      /\ disk.pending # None /\ job[p] = disk.pending /\ Appended(disk, disk.pending)
      /\ \A t \in images : SameFile(t, disk)
  BY DiskSound DEF SaveCheckpoint, RInv, IInv, Progress, Completing, Traced, Named
<1>2. disk.pending.record.op \in OpId /\ disk.pending.base.size \in Nat
      /\ disk.lines \in Seq(Line)
  BY <1>1, StoreFields, PendingFields
<1>3. disk.lines # <<>> /\ disk.lines[Len(disk.lines)] = disk.pending.record
  BY <1>1, <1>2 DEF Appended, Sound, SoundPending
<1>4. /\ s \in Store /\ Sound(s) /\ SameFile(s, disk) /\ s.pending = disk.pending
      /\ s.ckpt = CheckpointOf(disk, job[p].record.op)
      /\ CheckpointOf(disk, job[p].record.op) # None
  BY <1>1, <1>2, <1>3, CheckpointSound
<1> HIDE DEF s
<1>5. Named(s)
  BY <1>1, <1>3, <1>4, NamedCheckpoint DEF SameFile
<1> QED BY <1>1, <1>4, <1>5, SidecarTraces DEF s, SaveCheckpoint

\* The journal goes once the checkpoint accounts for its tick.
LEMMA UnlinkTraces ==
  ASSUME RInv, NEW p \in Procs, UnlinkPending(p)
  PROVE  \A t \in images' : Traced(t)'
<1> DEFINE s == [disk EXCEPT !.pending = None]
<1>1. /\ IInv /\ disk \in Store /\ Sound(disk) /\ Named(disk)
      /\ disk.pending # None /\ Appended(disk, disk.pending)
      /\ disk.ckpt # None /\ disk.ckpt.size = Len(disk.lines)
  BY DiskSound DEF UnlinkPending, RInv, IInv, Progress, Completing, Traced, Named
<1>2. disk.pending.base.size \in Nat /\ disk.lines \in Seq(Line)
  BY <1>1, StoreFields, PendingFields
<1>3. \A t \in images : SameFile(t, disk)
  BY <1>1, <1>2 DEF Appended, IInv, Settled
<1>4. s \in Store /\ Sound(s) /\ SameFile(s, disk) /\ s.pending = None /\ s.ckpt = disk.ckpt
  BY <1>1, UnlinkSound DEF Appended, Sound, SoundPending
<1> HIDE DEF s
<1>5. Named(s)
  BY <1>1, <1>2, <1>4 DEF SameFile, Named, NamesOperation, ForeignGrowth, NewOperation
<1> QED BY <1>1, <1>3, <1>4, <1>5, SidecarTraces DEF s, UnlinkPending

\* The rebound checkpoint names an operation only if it is the last tick's.
LEMMA TipTraces ==
  ASSUME RInv, NEW p \in Procs, Tip(p)
  PROVE  \A t \in images' : Traced(t)'
<1>1. IInv /\ disk \in Store /\ Sound(disk) /\ Named(disk) /\ disk.pending = None
      /\ \A t \in images : SameFile(t, disk)
  BY DiskSound DEF Tip, RInv, IInv, Settled, Progress, NoJournal, Traced, Named
<1>2. CASE UNCHANGED <<disk, images>>
  BY <1>2, FewerTraces
<1>3. ASSUME disk.ckpt # None,
             ChangeSidecar([disk EXCEPT !.ckpt = CheckpointOf(disk, ReboundOp(disk))])
      PROVE  \A t \in images' : Traced(t)'
  <2> DEFINE s == [disk EXCEPT !.ckpt = CheckpointOf(disk, ReboundOp(disk))]
  <2>1. /\ disk.ckpt \in Checkpoint /\ disk.lines \in Seq(Line)
        /\ disk.ckpt.size \in 1..Len(disk.lines) /\ disk.tail.n = 0
    BY <1>1, <1>3, StoreFields DEF Sound, SoundCheckpoint, NoTail
  <2>2. ReboundOp(disk) \in OpId /\ disk.lines # <<>>
    BY <2>1 DEF ReboundOp, OpId, Checkpoint
  <2>3. ReboundOp(disk) = disk.lines[Len(disk.lines)].op
    <3>1. CASE Len(disk.lines) > disk.ckpt.size
      <4>1. disk.lines[Len(disk.lines)].op = NoOp
        BY <1>1, <2>1, <3>1 DEF Named, ForeignGrowth
      <4> QED BY <3>1, <4>1 DEF ReboundOp, Grown
    <3>2. CASE Len(disk.lines) = disk.ckpt.size
      <4>1. ~Grown(disk)
        BY <2>1, <3>2 DEF Grown
      <4> QED BY <1>1, <1>3, <3>2, <4>1 DEF ReboundOp, Named, NamesOperation
    <3> QED BY <2>1, <3>1, <3>2
  <2>4. /\ s \in Store /\ Sound(s) /\ SameFile(s, disk) /\ s.pending = disk.pending
        /\ s.ckpt = CheckpointOf(disk, ReboundOp(disk))
        /\ CheckpointOf(disk, ReboundOp(disk)) # None
    BY <1>1, <2>2, CheckpointSound
  <2> HIDE DEF s
  <2>5. Named(s)
    BY <1>1, <2>2, <2>3, <2>4, NamedCheckpoint DEF SameFile
  <2> QED BY <1>1, <1>3, <2>4, <2>5, SidecarTraces DEF s
<1> QED BY <1>2, <1>3 DEF Tip, Alarm, NeedsRebind

\* A new journal is never of the operation that was published last: the
\* checkpoint would have answered the call.
LEMMA DecideTraces ==
  ASSUME RInv, NEW p \in Procs, Decide(p)
  PROVE  \A t \in images' : Traced(t)'
<1>1. IInv /\ disk \in Store /\ Sound(disk) /\ Named(disk) /\ disk.pending = None
      /\ (\A t \in images : SameFile(t, disk)) /\ call[p] \in Requests
  BY DiskSound DEF Decide, RInv, IInv, TypeOK, Settled, Progress, NoJournal, Traced, Named
<1>2. CASE UNCHANGED <<disk, images>>
  BY <1>2, FewerTraces
<1>3. ASSUME call[p].kind # "recover", ~AlreadyPublished(p),
             ChangeSidecar([disk EXCEPT !.pending = NewPending(disk, call[p])])
      PROVE  \A t \in images' : Traced(t)'
  <2> DEFINE q == NewPending(disk, call[p])
             s == [disk EXCEPT !.pending = NewPending(disk, call[p])]
             n == Len(disk.lines)
  <2>1. /\ s \in Store /\ Sound(s) /\ SameFile(s, disk) /\ s.pending = q /\ q # None
    BY <1>1, <1>3, JournalSound
  <2>2. s.ckpt = disk.ckpt
    BY <1>1, StoreFields
  <2>3. q.base.size = n /\ q.record.op = call[p].op
    BY DEF NewPending
  <2>4. disk.lines \in Seq(Line) /\ n \in Nat
    BY <1>1, StoreFields
  <2> HIDE DEF s, q
  <2>5. n = 0 \/ call[p].op = NoOp \/ disk.lines[n].op # call[p].op
    <3> SUFFICES ASSUME n > 0, call[p].op # NoOp, disk.lines[n].op = call[p].op
                 PROVE  FALSE
      BY <2>4
    <3>1. call[p].kind = "once"
      BY <1>1, <1>3, ConstantsAssumption DEF Request
    <3>2. disk.ckpt # None /\ n <= disk.ckpt.size
      BY <1>1, <2>4 DEF Named, ForeignGrowth
    <3>3. disk.ckpt.size = n
      BY <1>1, <2>4, <3>2 DEF Sound, SoundCheckpoint
    <3>4. disk.ckpt.op = call[p].op
      BY <1>1, <3>2, <3>3 DEF Named, NamesOperation
    <3> QED BY <1>3, <3>1, <3>2, <3>4 DEF AlreadyPublished
  <2>6. Named(s)
    BY <1>1, <2>1, <2>2, <2>3, <2>5
       DEF SameFile, Named, NamesOperation, ForeignGrowth, NewOperation
  <2> QED BY <1>1, <1>3, <2>1, <2>6, SidecarTraces DEF s
<1> QED BY <1>2, <1>3 DEF Decide, Return, Refuse

\* An older collector's tick is written for no operation.
LEMMA UnjournaledTraces ==
  ASSUME RInv, UnjournaledAppend
  PROVE  \A t \in images' : Traced(t)'
<1>1. IInv /\ disk \in Store /\ Sound(disk) /\ Named(disk) /\ disk.pending = None
      /\ images' = {disk'}
  BY DiskSound DEF UnjournaledAppend, RInv, Traced, Named
<1>2. PICK u \in Payloads :
        disk' = [disk EXCEPT !.exists = TRUE, !.stamp = @ + 1,
                   !.lines = Append(@, [user |-> u,
                                        prev |-> Link(disk.lines, Len(disk.lines)),
                                        op |-> NoOp])]
  BY DEF UnjournaledAppend
<1> DEFINE x == [user |-> u, prev |-> Link(disk.lines, Len(disk.lines)), op |-> NoOp]
           w == [disk EXCEPT !.exists = TRUE, !.stamp = @ + 1, !.lines = Append(@, x)]
<1>3. w \in Store /\ Sound(w) /\ w.pending = None
  BY <1>1, ForeignSound
<1>4. w.lines = Append(disk.lines, x) /\ w.ckpt = disk.ckpt /\ x.op = NoOp
      /\ disk.lines \in Seq(Line) /\ disk' = w
  BY <1>1, <1>2, StoreFields
<1> HIDE DEF w, x
<1>5. Len(w.lines) = Len(disk.lines) + 1 /\ w.lines[Len(disk.lines) + 1] = x
      /\ \A i \in 1..Len(disk.lines) : w.lines[i] = disk.lines[i]
  BY <1>4
<1>6. disk.ckpt # None => disk.ckpt.size \in 1..Len(disk.lines)
  BY <1>1 DEF Sound, SoundCheckpoint
<1>7. ASSUME NEW i \in 1..Len(w.lines)
      PROVE  (w.ckpt # None /\ i <= w.ckpt.size) \/ w.lines[i].op = NoOp
  <2>1. CASE i = Len(disk.lines) + 1
    BY <1>4, <1>5, <2>1
  <2>2. CASE i \in 1..Len(disk.lines)
    BY <1>1, <1>4, <1>5, <2>2 DEF Named, ForeignGrowth
  <2> QED BY <1>4, <1>5, <2>1, <2>2
<1>8. Named(w)
  BY <1>1, <1>3, <1>4, <1>5, <1>6, <1>7 DEF Named, NamesOperation, ForeignGrowth, NewOperation
<1> QED BY <1>1, <1>3, <1>4, <1>8, OneFamilyTraces

\* A restored copy holds the same ticks.
LEMMA RestoreCopyTraces ==
  ASSUME RInv, RestoreCopy
  PROVE  \A t \in images' : Traced(t)'
<1> DEFINE w == [disk EXCEPT !.stamp = @ + 1]
<1>1. IInv /\ disk \in Store /\ Sound(disk) /\ Named(disk)
  BY DiskSound DEF RInv, Traced, Named
<1>2. w \in Store /\ Sound(w)
  BY <1>1, CopySound
<1>3. w.lines = disk.lines /\ w.ckpt = disk.ckpt /\ w.pending = disk.pending
  BY <1>1, StoreFields
<1> HIDE DEF w
<1>4. Named(w)
  BY <1>1, <1>3, NamedSame
<1> QED BY <1>2, <1>4, OneFamilyTraces DEF RestoreCopy, w

\* Any family that a power loss may leave is accounted for.
LEMMA PowerLossTraces ==
  ASSUME RInv, PowerLoss
  PROVE  \A t \in images' : Traced(t)'
BY OneFamilyTraces, DiskSound DEF PowerLoss, RInv, IInv, Recoverable, Traced, Named

-----------------------------------------------------------------------------
(* What the processes serve.                                               *)

\* A process in its critical section keeps serving its call.
LEMMA StepServes ==
  ASSUME RInv, NEW p \in Procs, Step(p)
  PROVE  \A q \in Procs : Serving(q)'
<1>1. IInv /\ TypeOK /\ Progress(p) /\ Serving(p)
  BY DEF RInv, IInv
<1>2. CASE Acquire(p) \/ LockTimeout(p)
  <2>1. \A q \in Procs \ {p} : Serving(q)'
    <3> TAKE q \in Procs \ {p}
    <3>1. UNCHANGED disk /\ pc'[q] = pc[q] /\ call'[q] = call[q] /\ job'[q] = job[q]
          /\ own'[q] = own[q]
      BY <1>1, <1>2 DEF Acquire, LockTimeout, Forget, Goto, TypeOK
    <3> QED BY <3>1, ServingOthers
  <2>2. pc'[p] \in {"inspect", "idle"} /\ ~own'[p]
    BY <1>1, <1>2 DEF Acquire, LockTimeout, Forget, Goto, TypeOK, Serving, Outside
  <2> QED BY <2>1, <2>2 DEF Serving, Recovering, Completing
<1>3. ASSUME Return(p) \/ Refuse(p) \/ Alarm(p) PROVE \A q \in Procs : Serving(q)'
  BY <1>3, ForgetServes DEF Return, Refuse, Alarm, Leave
<1>4. CASE Inspect(p) \/ PendingSync(p)
  <2>1. CASE Refuse(p)
    BY <1>3, <2>1
  <2>2. CASE UNCHANGED <<call, job, own>> /\ Goto(p, "tip")
    <3>1. pc[p] \in Locked /\ "tip" \notin Outside
      BY <1>4 DEF Inspect, PendingSync, Locked, Outside
    <3> QED BY <2>2, <3>1, LockedServes DEF Recovering, Completing
  <2>3. ASSUME lock = p, Goto(p, "complete"), UNCHANGED <<disk, call>>,
               job' = [job EXCEPT ![p] = disk.pending], NEW b \in BOOLEAN,
               own' = [own EXCEPT ![p] = b],
               b => disk.pending # None /\ Records(disk.pending, call[p]),
               Answers(disk.pending, call[p])
        PROVE  \A q \in Procs : Serving(q)'
    <3>1. pc'[p] = "complete" /\ job'[p] = disk.pending /\ own'[p] = b
      BY <1>1, <2>3 DEF TypeOK, Goto
    <3>2. Serving(p)'
      BY <2>3, <3>1 DEF Serving, Records, Answers, Outside
    <3>3. ASSUME NEW q \in Procs, q # p PROVE Serving(q)'
      <4>1. pc'[q] = pc[q] /\ call'[q] = call[q] /\ job'[q] = job[q] /\ own'[q] = own[q]
        BY <1>1, <2>3, <3>3 DEF TypeOK, Goto
      <4> QED BY <2>3, <3>3, <4>1, ServingOthers
    <3> QED BY <3>2, <3>3
  <2>4. CASE Inspect(p)
    <3>1. lock = p
      BY <1>1, <2>4 DEF Inspect, Progress, Locked
    <3>2. CASE /\ ~ReusedPending(p) /\ Goto(p, "complete") /\ own' = [own EXCEPT ![p] = FALSE]
               /\ job' = [job EXCEPT ![p] = disk.pending] /\ UNCHANGED <<disk, call>>
      BY <2>3, <3>1, <3>2 DEF ReusedPending, Answers
    <3> QED BY <2>1, <2>2, <2>4, <3>2 DEF Inspect
  <2>5. CASE PendingSync(p)
    <3>1. lock = p /\ disk.pending # None /\ Records(disk.pending, call[p])
      BY <1>1, <2>5 DEF PendingSync, Progress, Locked, Serving
    <3> QED BY <2>3, <2>5, <3>1 DEF PendingSync, SyncDirectory, Records, Answers
  <2> QED BY <1>4, <2>4, <2>5
<1>5. CASE UnlinkPending(p)
  <2>1. pc[p] = "unlink" /\ pc[p] \in Locked /\ "unlinkSync" \notin Outside
        /\ Goto(p, "unlinkSync") /\ UNCHANGED <<call, job, own>>
        /\ disk' = [disk EXCEPT !.pending = None]
    BY <1>5 DEF UnlinkPending, Locked, Outside, ChangeSidecar
  <2>2. /\ job[p] # None /\ disk.lines \in Seq(Line) /\ disk.pending.base.size \in Nat
        /\ job[p] = disk.pending /\ Appended(disk, disk.pending)
    BY <1>1, <2>1, DiskSound, StoreFields, PendingFields DEF Progress, Completing
  <2>3. disk.lines[Len(disk.lines)] = job[p].record /\ Len(disk.lines) \in 1..Len(disk.lines)
    BY <1>1, <2>2, DiskSound DEF Appended, Sound, SoundPending
  <2>4. disk'.lines = disk.lines
    BY <1>1, <2>1, DiskSound, StoreFields
  <2>5. job[p] # None /\ \E i \in 1..Len(disk'.lines) : disk'.lines[i] = job[p].record
    BY <2>2, <2>3, <2>4
  <2> QED BY <2>1, <2>5, LockedServes DEF Recovering, Completing
<1>6. CASE UnlinkSync(p)
  <2>1. pc[p] \in Locked /\ Goto(p, "recovered") /\ UNCHANGED <<disk, call, job, own>>
        /\ "recovered" \notin Outside /\ pc[p] \in Recovering
        /\ job[p] # None /\ \E i \in 1..Len(disk.lines) : disk.lines[i] = job[p].record
    BY <1>1, <1>6 DEF UnlinkSync, SyncThen, SyncDirectory, Locked, Outside, Serving, Recovering
  <2> QED BY <2>1, LockedServes
<1>7. CASE Decide(p)
  <2>1. CASE Return(p) \/ Refuse(p)
    BY <1>3, <2>1
  <2>2. CASE /\ call[p].kind # "recover" /\ Goto(p, "pendSync") /\ UNCHANGED <<call, job, own>>
             /\ disk' = [disk EXCEPT !.pending = NewPending(disk, call[p])]
    <3>1. pc[p] \in Locked /\ "pendSync" \notin Outside
      BY <1>7 DEF Decide, Locked, Outside
    <3>2. disk'.pending = NewPending(disk, call[p])
      BY <1>1, <2>2, DiskSound, StoreFields
    <3>3. Records(disk'.pending, call[p])
      BY <2>2, <3>2 DEF Records, NewPending
    <3> QED BY <2>2, <3>1, <3>3, LockedServes DEF Recovering, Completing
  <2> QED BY <1>7, <2>1, <2>2 DEF Decide, ChangeSidecar
<1>8. CASE /\ pc[p] \in Locked /\ UNCHANGED <<call, job, own>>
           /\ \E step \in {"write", "fsync", "entrySync", "ckpt", "ckptSync", "unlink",
                           "freshSync", "suffix", "tip", "tipSync", "decide"} :
                Goto(p, step) /\ (step \in Recovering => pc[p] \in Recovering)
  <2>1. PICK step \in {"write", "fsync", "entrySync", "ckpt", "ckptSync", "unlink",
                       "freshSync", "suffix", "tip", "tipSync", "decide"} :
               Goto(p, step) /\ (step \in Recovering => pc[p] \in Recovering)
    BY <1>8
  <2> QED BY <1>8, <2>1, LockedServes DEF Outside
<1>9. CASE /\ pc[p] \in Locked /\ UNCHANGED <<pc, call, job, own>>
           /\ pc[p] \notin {"pendSync", "unlinkSync", "recovered"}
  <2>1. lock = p
    BY <1>1, <1>9 DEF Progress
  <2>2. \A q \in Procs \ {p} : Serving(q)'
    BY <1>9, <2>1, ServingOthers
  <2>3. Serving(p)'
    BY <1>1, <1>9 DEF Serving, Records, Answers
  <2> QED BY <2>2, <2>3
<1>10. CASE Complete(p) \/ Suffix(p) \/ Tip(p) \/ Recovered(p)
  BY <1>3, <1>8, <1>10 DEF Complete, Suffix, CheckSuffix, Tip, Recovered, Locked, Recovering, Completing
<1>11. CASE Write(p)
  <2>1. pc[p] \in Locked /\ pc[p] \notin {"pendSync", "unlinkSync", "recovered"}
        /\ UNCHANGED <<call, job, own>>
    BY <1>11 DEF Write, Locked
  <2>2. UNCHANGED pc \/ Goto(p, "fsync") \/ Goto(p, "write")
    BY <1>11 DEF Write
  <2> QED BY <1>8, <1>9, <1>11, <2>1, <2>2 DEF Write, Recovering, Completing
<1>12. CASE Fsync(p)
  <2>1. pc[p] \in Locked /\ UNCHANGED <<call, job, own>>
    BY <1>12 DEF Fsync, Locked
  <2>2. Goto(p, "entrySync") \/ Goto(p, "ckpt")
    BY <1>12 DEF Fsync
  <2> QED BY <1>8, <1>12, <2>1, <2>2 DEF Fsync, Recovering, Completing
<1>13. CASE FreshSync(p) \/ EntrySync(p) \/ SaveCheckpoint(p) \/ CheckpointSync(p) \/ TipSync(p)
  BY <1>8, <1>13 DEF FreshSync, EntrySync, SaveCheckpoint, CheckpointSync, TipSync,
                     SyncThen, Locked, Recovering, Completing
<1> QED BY <1>2, <1>4, <1>5, <1>6, <1>7, <1>10, <1>11, <1>12, <1>13 DEF Step

-----------------------------------------------------------------------------
(* The accounts are inductive.                                             *)

\* The program starts with nothing to account for.
LEMMA RInvInit == Init => RInv
<1> SUFFICES ASSUME Init PROVE RInv
  OBVIOUS
<1>1. IInv
  BY IInvInit
<1>2. disk = EmptyStore /\ images = {EmptyStore} /\ disk \in Store /\ Sound(disk)
  BY <1>1, DiskSound DEF Init
<1>3. disk.lines = <<>> /\ disk.ckpt = None /\ disk.pending = None
  BY <1>2 DEF EmptyStore
<1>4. Traced(disk)
  BY <1>2, <1>3, OneAppendSelf DEF Traced, NamesOperation, ForeignGrowth, NewOperation
<1>5. \A p \in Procs : Serving(p)
  BY DEF Init, Serving, Recovering, Completing
<1> QED BY <1>1, <1>2, <1>4, <1>5 DEF RInv

\* Every step of Next keeps the accounts.
LEMMA RInvStep == RInv /\ [Next]_vars => RInv'
<1> SUFFICES ASSUME RInv, [Next]_vars PROVE RInv'
  OBVIOUS
<1>1. IInv'
  BY IInvStep DEF RInv
<1>2. ASSUME NEW p \in Procs, Step(p) PROVE \A t \in images' : Traced(t)'
  <2>1. CASE Complete(p) \/ Write(p) \/ SaveCheckpoint(p) \/ UnlinkPending(p) \/ Tip(p)
             \/ Decide(p)
    BY <2>1, CompleteTraces, WriteActionTraces, SaveCheckpointTraces, UnlinkTraces,
       TipTraces, DecideTraces
  <2>2. CASE SyncDirectory
    BY <2>2, DirectoryTraces
  <2>3. CASE disk' = disk /\ images' \subseteq images
    BY <2>3, FewerTraces
  <2>4. CASE Fsync(p)
    BY <2>3, <2>4, DiskSound DEF Fsync, SyncLedger, RInv
  <2> QED BY <1>2, <2>1, <2>2, <2>3, <2>4
          DEF Step, Acquire, LockTimeout, Inspect, Refuse, FreshSync, Suffix, CheckSuffix, Alarm,
              EntrySync, CheckpointSync, UnlinkSync, Recovered, Return, TipSync, PendingSync, SyncThen
<1>3. ASSUME NEW p \in Procs, Call(p) PROVE RInv'
  <2>1. UNCHANGED <<disk, images>>
    BY <1>3 DEF Call
  <2>2. /\ pc[p] = "idle" /\ pc'[p] = "lock" /\ own' = own
        /\ \A q \in Procs \ {p} : /\ pc'[q] = pc[q] /\ call'[q] = call[q]
                                  /\ job'[q] = job[q] /\ own'[q] = own[q]
    BY <1>3 DEF Call, Goto, RInv, IInv, TypeOK
  <2>3. ASSUME NEW q \in Procs, q # p PROVE Serving(q)'
    BY <2>1, <2>2, <2>3, ServingOthers
  <2>4. Serving(p)'
    BY <2>2 DEF RInv, Serving, Outside, Recovering, Completing
  <2> QED BY <1>1, <2>1, <2>3, <2>4, FewerTraces DEF RInv
<1>4. ASSUME NEW p \in Procs, Interrupt(p) PROVE RInv'
  BY <1>1, <1>4, FewerTraces, ForgetServes DEF RInv, Interrupt
<1>5. CASE PowerLoss
  <2>1. \A p \in Procs : pc'[p] = "idle" /\ ~own'[p]
    BY <1>5 DEF PowerLoss
  <2>2. \A p \in Procs : Serving(p)'
    BY <2>1 DEF Serving, Recovering, Completing
  <2> QED BY <1>1, <1>5, <2>2, PowerLossTraces DEF RInv
<1>6. CASE UnjournaledAppend \/ RestoreCopy
  <2>1. lock = NoProc /\ UNCHANGED <<pc, call, job, own>>
    BY <1>6 DEF UnjournaledAppend, RestoreCopy, procVars
  <2>2. ASSUME NEW q \in Procs PROVE Serving(q)'
    <3>1. pc[q] \notin Locked
      BY <2>1, ConstantsAssumption DEF RInv, IInv, Progress
    <3> QED BY <2>1, <3>1 DEF RInv, Serving, Records, Locked, Recovering, Completing
  <2> QED BY <1>1, <1>6, <2>2, UnjournaledTraces, RestoreCopyTraces DEF RInv
<1>7. CASE UNCHANGED vars
  <2>1. \A q \in Procs : Serving(q)'
    BY <1>7 DEF RInv, Serving, Records, Answers, vars
  <2> QED BY <1>1, <1>7, <2>1, FewerTraces DEF RInv, vars
<1> QED BY <1>1, <1>2, <1>3, <1>4, <1>5, <1>6, <1>7, StepServes DEF Next, RInv

\* The ledger family always accounts for its ticks: which operation each was
\* written for, and for whom (collect.py:2262-2548).
THEOREM Accounted == Spec => []RInv
<1>1. Init => RInv
  BY RInvInit
<1>2. RInv /\ [Next]_vars => RInv'
  BY RInvStep
<1> QED BY <1>1, <1>2, PTL DEF Spec

-----------------------------------------------------------------------------
(* The durable log: the ticks that no power loss can take away.            *)

\* A power loss into this family loses the tick of the open append.
Loses(s) ==
  /\ disk.pending # None
  /\ s.pending # disk.pending
  /\ Len(s.lines) = disk.pending.base.size

\* The n first ticks that the family amounts to.
FirstTicks(n) ==
  [i \in 1..n |-> [user |-> Completed(disk)[i].user, op |-> Completed(disk)[i].op]]

DurableLength ==
  IF \E s \in images : Loses(s) THEN disk.pending.base.size ELSE Len(Completed(disk))

\* Every family amounts to the ticks of the one that processes see, with or
\* without the tick of the open append.
LEMMA LogicalTicks ==
  ASSUME RInv, NEW s \in images
  PROVE  Logical(s) = FirstTicks(IF Loses(s) THEN disk.pending.base.size
                                             ELSE Len(Completed(disk)))
<1> DEFINE c == Completed(disk)
           d == Completed(s)
           m == IF Loses(s) THEN disk.pending.base.size ELSE Len(c)
<1>1. /\ disk \in Store /\ s \in Store /\ Sound(disk) /\ Sound(s) /\ OneAppend(s)
      /\ Sound(WithSidecars(s, disk)) /\ WithSidecars(s, disk).lines = s.lines
      /\ WithSidecars(s, disk).pending = disk.pending
  BY DiskSound, Mixed DEF RInv, IInv, Recoverable, Traced, SameFile
<1>2. /\ c \in Seq(Line) /\ d \in Seq(Line) /\ s.lines \in Seq(Line)
      /\ disk.lines \in Seq(Line) /\ Extends(d, s.lines) /\ Extends(c, s.lines)
  BY <1>1, CompletedLines, StoreFields DEF OneAppend, Extends
<1>3. Len(d) = m /\ \A i \in 1..m : d[i] = c[i]
  <2>1. CASE disk.pending = None
    <3>1. c = disk.lines /\ Len(s.lines) = Len(c) /\ m = Len(c)
      BY <1>1, <2>1, CompletedLines DEF OneAppend, Loses
    <3>2. d = s.lines
      <4>1. s.pending # None => Len(s.lines) = s.pending.base.size + 1
                                /\ s.pending.base.size \in Nat
        BY <1>1, <2>1, CompletedLines DEF OneAppend
      <4> QED BY <4>1 DEF Completed
    <3> HIDE DEF c, d, m
    <3> QED BY <1>2, <3>1, <3>2 DEF Extends
  <2>2. CASE disk.pending # None
    <3> DEFINE b == disk.pending.base.size
    <3>1. /\ b \in Nat /\ Len(c) = b + 1 /\ c[b + 1] = disk.pending.record
          /\ Len(s.lines) \in {b, b + 1}
      <4>1. b \in Nat /\ Len(c) = b + 1 /\ c[b + 1] = disk.pending.record
        BY <1>1, <2>2, CompletedLines
      <4>2. b <= Len(s.lines) /\ Len(s.lines) <= b + 1
        BY <1>1, <2>2 DEF Sound, SoundPending
      <4> HIDE DEF c
      <4> QED BY <1>2, <4>1, <4>2
    <3>2. CASE s.pending = disk.pending
      <4>1. Len(d) = b + 1 /\ d[b + 1] = disk.pending.record
        BY <1>1, <2>2, <3>2, CompletedLines
      <4>2. m = b + 1
        BY <3>1, <3>2 DEF Loses
      <4> HIDE DEF c, d, m, b
      <4>3. \A i \in 1..b : i <= Len(s.lines)
        BY <3>1
      <4> QED BY <1>2, <3>1, <4>1, <4>2, <4>3 DEF Extends
    <3>3. CASE s.pending # disk.pending
      <4>1. d = s.lines
        <5>1. s.pending # None => Len(s.lines) = s.pending.base.size + 1
                                  /\ s.pending.base.size \in Nat
          BY <1>1, <3>3, CompletedLines DEF OneAppend
        <5> QED BY <5>1 DEF Completed
      <4>2. m = Len(s.lines)
        BY <2>2, <3>1, <3>3 DEF Loses
      <4> HIDE DEF c, d, m, b
      <4> QED BY <1>2, <4>1, <4>2 DEF Extends
    <3> QED BY <3>2, <3>3
  <2> QED BY <2>1, <2>2
<1>4. Logical(s) = [i \in 1..Len(d) |-> [user |-> d[i].user, op |-> d[i].op]]
  BY DEF Logical, Ticks
<1>5. FirstTicks(m) = [i \in 1..m |-> [user |-> c[i].user, op |-> c[i].op]]
  BY DEF FirstTicks
<1> HIDE DEF c, d, m
<1>6. FirstTicks(m) = Logical(s)
  BY <1>3, <1>4, <1>5
<1> QED BY <1>6 DEF m, c

\* The length of the first ticks.
LEMMA FirstTicksLength ==
  ASSUME NEW n \in Nat
  PROVE  Len(FirstTicks(n)) = n /\ DOMAIN FirstTicks(n) = 1..n
BY DEF FirstTicks

\* The durable log lacks the tick of the open append exactly if some power
\* loss could still lose it.
LEMMA DurableTicks ==
  ASSUME RInv
  PROVE  DurableLog = FirstTicks(DurableLength) /\ DurableLength \in Nat
<1> DEFINE c == Completed(disk)
           logs == {Logical(s) : s \in images}
           Shortest(l) == l \in logs /\ \A m \in logs : Len(l) <= Len(m)
<1>1. disk \in Store /\ Sound(disk) /\ disk \in images /\ c \in Seq(Line) /\ Len(c) \in Nat
  BY DiskSound, CompletedLines DEF RInv
<1>2. disk.pending # None => disk.pending.base.size \in Nat /\ Len(c) = disk.pending.base.size + 1
  BY <1>1, CompletedLines
<1>3. DurableLength \in Nat
  BY <1>1, <1>2 DEF DurableLength, Loses
<1>4. CASE \E s \in images : Loses(s)
  <2> DEFINE b == disk.pending.base.size
  <2>1. PICK s \in images : Loses(s)
    BY <1>4
  <2>2. b \in Nat /\ Len(c) = b + 1 /\ DurableLength = b
    BY <1>2, <1>4 DEF Loses, DurableLength
  <2>3. Logical(s) = FirstTicks(b) /\ FirstTicks(b) \in logs
    BY <2>1, LogicalTicks
  <2>4. \A m \in logs : m = FirstTicks(b) \/ m = FirstTicks(b + 1)
    BY <2>2, LogicalTicks
  <2>5. Len(FirstTicks(b)) = b /\ Len(FirstTicks(b + 1)) = b + 1
    BY <2>2, FirstTicksLength
  <2>6. \A l : Shortest(l) <=> l = FirstTicks(b)
    <3> HIDE DEF logs, b
    <3> QED BY <2>2, <2>3, <2>4, <2>5
  <2>7. DurableLog = CHOOSE l : Shortest(l)
    <3>1. DurableLog = CHOOSE l \in logs : \A m \in logs : Len(l) <= Len(m)
      BY DEF DurableLog
    <3> QED BY <3>1
  <2> HIDE DEF Shortest
  <2> QED BY <1>3, <2>2, <2>6, <2>7
<1>5. CASE ~\E s \in images : Loses(s)
  <2>1. DurableLength = Len(c)
    BY <1>5 DEF DurableLength
  <2>2. \A m \in logs : m = FirstTicks(Len(c))
    BY <1>5, LogicalTicks
  <2>3. FirstTicks(Len(c)) \in logs
    BY <1>1, <2>2
  <2>4. Len(FirstTicks(Len(c))) = Len(c)
    BY <1>1, FirstTicksLength
  <2>5. \A l : Shortest(l) <=> l = FirstTicks(Len(c))
    <3> HIDE DEF logs, c
    <3> QED BY <1>1, <2>2, <2>3, <2>4
  <2>6. DurableLog = CHOOSE l : Shortest(l)
    <3>1. DurableLog = CHOOSE l \in logs : \A m \in logs : Len(l) <= Len(m)
      BY DEF DurableLog
    <3> QED BY <3>1
  <2> HIDE DEF Shortest
  <2> QED BY <1>3, <2>1, <2>5, <2>6
<1> QED BY <1>4, <1>5

\* The same in one formula, which holds after a step as well.
DurableAsTicks == DurableLog = FirstTicks(DurableLength)

\* The durable log after a step.
LEMMA DurableTicksNext == RInv' => DurableAsTicks'
<1>1. RInv => DurableAsTicks
  BY DurableTicks DEF DurableAsTicks
<1> QED BY <1>1, PTL

-----------------------------------------------------------------------------
(* Every step publishes at most one tick, or acknowledges a call.          *)

\* AppendOnceLog publishes a tick.
Publishes ==
  \E u \in Payloads, op \in OpId :
    /\ ~Abstract!Latest(op)
    /\ DurableLog' = Append(DurableLog, [user |-> u, op |-> op])

\* What the durable log is after a step.
LEMMA DurableNext ==
  ASSUME RInv'
  PROVE  DurableLog' = [i \in 1..DurableLength' |->
           [user |-> Completed(disk)'[i].user, op |-> Completed(disk)'[i].op]]
BY DurableTicksNext DEF DurableAsTicks, FirstTicks

\* The durable log of a family without an open append is the whole ledger.
LEMMA SettledLog ==
  ASSUME RInv, disk.pending = None
  PROVE  DurableLog = [i \in 1..Len(disk.lines) |->
           [user |-> disk.lines[i].user, op |-> disk.lines[i].op]]
BY DurableTicks DEF DurableLength, Loses, FirstTicks, Completed

\* Once no power loss can lose the tick of the open append, it is published;
\* its operation is not the one published last.
LEMMA OpenAppendPublished ==
  ASSUME RInv, \E s \in images : Loses(s),
         DurableLog' = FirstTicks(Len(Completed(disk)))
  PROVE  Publishes
<1> DEFINE c == Completed(disk)
           b == disk.pending.base.size
           r == disk.pending.record
           d == FirstTicks(b)
           x == [user |-> r.user, op |-> r.op]
<1>1. /\ disk.pending # None /\ disk \in Store /\ Sound(disk) /\ NewOperation(disk)
      /\ c \in Seq(Line) /\ Extends(c, disk.lines)
      /\ b \in Nat /\ Len(c) = b + 1 /\ c[b + 1] = r
  BY DiskSound, CompletedLines DEF Loses, RInv, Traced
<1>2. DurableLog = d
  BY DurableTicks DEF DurableLength
<1>3. d = [i \in 1..b |-> [user |-> c[i].user, op |-> c[i].op]]
  BY DEF FirstTicks
<1>4. DurableLog' = [i \in 1..(b + 1) |-> [user |-> c[i].user, op |-> c[i].op]]
  BY <1>1 DEF FirstTicks
<1>5. r.user \in Payloads /\ r.op \in OpId
  BY <1>1, StoreFields, PendingFields
<1>6. b <= Len(disk.lines) /\ Len(disk.lines) \in Nat
  BY <1>1, StoreFields DEF Sound, SoundPending
<1>7. ~Abstract!Latest(r.op)
  <2> SUFFICES ASSUME r.op # NoOp, d # <<>>, d[Len(d)].op = r.op PROVE FALSE
    BY <1>2 DEF Abstract!Latest
  <2>1. Len(d) = b /\ b # 0
    <3>1. Len(d) = b
      BY <1>1, FirstTicksLength
    <3>2. b = 0 => d = <<>>
      BY <1>3
    <3> QED BY <3>1, <3>2
  <2>2. d[b].op = c[b].op /\ b \in 1..Len(disk.lines)
    BY <1>1, <1>3, <1>6, <2>1
  <2>3. disk.lines[b].op = r.op
    BY <2>1, <2>2, <1>1 DEF Extends
  <2> QED BY <1>1, <2>1, <2>3 DEF NewOperation
<1>8. DurableLog' = Append(d, x)
  <2> HIDE DEF c, b, d
  <2>1. d \in Seq({d[i] : i \in 1..b} \cup {x}) /\ Len(d) = b
    BY <1>1, <1>3
  <2> QED BY <1>1, <1>3, <1>4, <2>1
<1> QED BY <1>2, <1>5, <1>7, <1>8 DEF Publishes

\* A step of the open append publishes its tick or nothing.
LEMMA OpenAppendStep ==
  ASSUME RInv, RInv', disk'.pending = disk.pending, Completed(disk)' = Completed(disk),
         (\E s \in images : Loses(s))' => \E s \in images : Loses(s)
  PROVE  DurableLog' = DurableLog \/ Publishes
<1>1. DurableLog = FirstTicks(DurableLength)
      /\ DurableLog' = [i \in 1..DurableLength' |->
           [user |-> Completed(disk)[i].user, op |-> Completed(disk)[i].op]]
  BY DurableTicks, DurableNext
<1>2. CASE DurableLength' = DurableLength
  BY <1>1, <1>2 DEF FirstTicks
<1>3. CASE DurableLength' # DurableLength
  <2>1. (\E s \in images : Loses(s)) /\ DurableLength' = Len(Completed(disk))
    BY <1>3 DEF DurableLength
  <2> QED BY <1>1, <2>1, OpenAppendPublished DEF FirstTicks
<1> QED BY <1>2, <1>3

\* A step that changes no journal, and no tick that the family amounts to;
\* a family that it makes possible has the journal that processes see.
LEMMA SameJournalStep ==
  ASSUME RInv, RInv', disk'.pending = disk.pending, Completed(disk)' = Completed(disk),
         \A s \in images' : s \in images \/ s.pending = disk.pending
  PROVE  DurableLog' = DurableLog \/ Publishes
<1>1. (\E s \in images : Loses(s))' => \E s \in images : Loses(s)
  BY DEF Loses
<1> QED BY <1>1, OpenAppendStep

\* A step that touches no file.
LEMMA QuietLog ==
  ASSUME UNCHANGED images
  PROVE  DurableLog' = DurableLog
BY DEF DurableLog

\* A rename of the checkpoint.
LEMMA CheckpointLog ==
  ASSUME RInv, RInv', NEW c, ChangeSidecar([disk EXCEPT !.ckpt = c])
  PROVE  DurableLog' = DurableLog \/ Publishes
<1> DEFINE s == [disk EXCEPT !.ckpt = c]
<1>1. disk' = s /\ images' = images \cup {WithSidecars(t, s) : t \in images \cup {s}}
  BY DEF ChangeSidecar
<1>2. disk \in Store /\ disk' \in Store /\ \A t \in images : t \in Store
  BY DiskSound DEF RInv, IInv, TypeOK
<1>3. s.pending = disk.pending /\ s.lines = disk.lines
  BY <1>2, StoreFields
<1>4. s \in Store
  BY <1>1, <1>2
<1>5. \A t \in images \cup {s} : WithSidecars(t, s).pending = s.pending
  BY <1>2, <1>4, Mixed
<1> HIDE DEF s
<1>6. Completed(disk)' = Completed(disk)
  BY <1>1, <1>3 DEF Completed
<1> QED BY <1>1, <1>3, <1>5, <1>6, SameJournalStep

\* An fsync of the directory may publish the tick of the open append.
LEMMA DirectoryLog ==
  ASSUME RInv, RInv', SyncDirectory
  PROVE  DurableLog' = DurableLog \/ Publishes
<1>1. /\ disk' = disk /\ disk \in Store /\ \A t \in images : t \in Store
      /\ images' = {WithSidecars(t, disk) : t \in {u \in images : u.exists = disk.exists}}
  BY DiskSound DEF SyncDirectory, RInv
<1>2. \A t \in images' : t.pending = disk.pending
  BY <1>1, Mixed
<1> QED BY <1>1, <1>2, SameJournalStep DEF Completed

\* Bytes of the open append are no tick yet, or one that its journal holds.
LEMMA WriteLog ==
  ASSUME RInv, RInv', NEW p \in Procs, Write(p)
  PROVE  DurableLog' = DurableLog \/ Publishes
<1>1. /\ disk \in Store /\ Sound(disk) /\ Named(disk)
      /\ disk.pending # None /\ job[p] = disk.pending
  BY DiskSound DEF Write, RInv, IInv, Progress, Completing, Traced, Named
<1>2. CASE UNCHANGED <<disk, images>>
  BY <1>2, QuietLog
<1>3. ASSUME NEW s, WriteFile(s), s.pending = disk.pending, Completed(s) = Completed(disk)
      PROVE  DurableLog' = DurableLog \/ Publishes
  <2>1. disk' = s /\ images' = images \cup {s}
    BY <1>3 DEF WriteFile
  <2> QED BY <1>3, <2>1, SameJournalStep DEF Completed
<1>4. CASE WriteFile([disk EXCEPT !.exists = TRUE, !.stamp = @ + 1])
  <2> DEFINE w == [disk EXCEPT !.exists = TRUE, !.stamp = @ + 1]
  <2>1. w.lines = disk.lines /\ w.pending = disk.pending
    BY <1>1, CreatedSound
  <2>2. WriteFile(w)
    BY <1>4
  <2> HIDE DEF w
  <2>3. Completed(w) = Completed(disk)
    BY <2>1 DEF Completed
  <2> QED BY <1>3, <2>1, <2>2, <2>3
<1>5. ASSUME NEW k \in 1..(RecordBytes - disk.tail.n), disk.exists, ~Appended(disk, job[p]),
             WriteFile(Written(disk, job[p].record, k))
      PROVE  DurableLog' = DurableLog \/ Publishes
  <2>1. Written(disk, job[p].record, k).pending = disk.pending
    BY <1>1, <1>5, WrittenSound
  <2>2. Completed(Written(disk, job[p].record, k)) = Completed(disk)
    BY <1>1, <1>5, NamedWritten
  <2> QED BY <1>3, <1>5, <2>1, <2>2
<1> QED BY <1>2, <1>4, <1>5 DEF Write

\* The fsync of the ledger may publish the tick of the open append.
LEMMA FsyncLog ==
  ASSUME RInv, RInv', NEW p \in Procs, Fsync(p)
  PROVE  DurableLog' = DurableLog \/ Publishes
BY DiskSound, SameJournalStep DEF RInv, Fsync, SyncLedger, Completed

\* Removing the journal of a published tick changes no log.
LEMMA UnlinkLog ==
  ASSUME RInv, RInv', NEW p \in Procs, UnlinkPending(p)
  PROVE  DurableLog' = DurableLog
<1>1. /\ IInv /\ disk \in Store /\ Sound(disk)
      /\ disk.pending # None /\ Appended(disk, disk.pending)
      /\ disk.ckpt # None /\ disk.ckpt.size = Len(disk.lines)
  BY DiskSound DEF UnlinkPending, RInv, IInv, Progress, Completing
<1>2. disk.pending.base.size \in Nat /\ disk.lines \in Seq(Line)
  BY <1>1, StoreFields, PendingFields
<1>3. \A t \in images : SameFile(t, disk)
  BY <1>1, <1>2 DEF Appended, IInv, Settled
<1>4. ~\E s \in images : Loses(s)
  BY <1>1, <1>2, <1>3 DEF Loses, SameFile, Appended
<1>5. Completed(disk) = disk.lines
  BY <1>1, <1>2 DEF Completed, Appended
<1>6. disk'.pending = None /\ disk'.lines = disk.lines
  BY <1>1, StoreFields DEF UnlinkPending, ChangeSidecar
<1>7. DurableLength' = Len(disk.lines) /\ Completed(disk)' = disk.lines
  BY <1>6 DEF DurableLength, Loses, Completed
<1> QED BY <1>4, <1>5, <1>7, DurableTicks, DurableNext DEF DurableLength, FirstTicks

\* A new journal is published only when its directory entry is synced.
LEMMA DecideLog ==
  ASSUME RInv, RInv', NEW p \in Procs, Decide(p), call[p].kind # "recover",
         ChangeSidecar([disk EXCEPT !.pending = NewPending(disk, call[p])])
  PROVE  DurableLog' = DurableLog
<1> DEFINE q == NewPending(disk, call[p])
<1>1. IInv /\ disk \in Store /\ Sound(disk) /\ disk \in images /\ disk.pending = None
      /\ call[p] \in Requests
  BY DiskSound DEF Decide, RInv, IInv, TypeOK, Progress, NoJournal
<1>2. disk' = [disk EXCEPT !.pending = q] /\ images \subseteq images'
  BY DEF ChangeSidecar
<1>3. disk'.pending = q /\ disk'.lines = disk.lines /\ q # None
  BY <1>1, <1>2, StoreFields, JournalSound
<1>4. q.base.size = Len(disk.lines) /\ disk.lines \in Seq(Line)
  BY <1>1, StoreFields DEF NewPending
<1> HIDE DEF q
<1>5. Completed(disk)' = Append(disk.lines, q.record)
  BY <1>3, <1>4 DEF Completed
<1>6. DurableLength' = Len(disk.lines)
  BY <1>1, <1>2, <1>3, <1>4 DEF DurableLength, Loses
<1>7. \A i \in 1..Len(disk.lines) : Completed(disk)'[i] = disk.lines[i]
  <2>1. q.record \in Line
    BY <1>1, <1>3, StoreFields, PendingFields DEF RInv, IInv, TypeOK
  <2> QED BY <1>4, <1>5, <2>1
<1> QED BY <1>1, <1>6, <1>7, SettledLog, DurableNext

\* A power loss keeps the log, or completes an append that nothing has
\* synced yet.
LEMMA PowerLossLog ==
  ASSUME RInv, RInv', PowerLoss
  PROVE  DurableLog' = DurableLog \/ Publishes
<1>1. PICK s \in images : disk' = s /\ images' = {s}
  BY DEF PowerLoss
<1>2. ~(\E t \in images : Loses(t))'
  BY <1>1 DEF Loses
<1>3. DurableLog' = Logical(s)
  <2>1. DurableLength' = Len(Completed(disk)')
    BY <1>2 DEF DurableLength
  <2>2. Completed(disk)' = Completed(s)
    BY <1>1 DEF Completed
  <2> QED BY <2>1, <2>2, DurableNext DEF Logical, Ticks
<1>4. CASE Loses(s)
  BY <1>3, <1>4, LogicalTicks, DurableTicks DEF DurableLength
<1>5. CASE ~Loses(s) /\ \E t \in images : Loses(t)
  BY <1>3, <1>5, LogicalTicks, OpenAppendPublished
<1>6. CASE ~\E t \in images : Loses(t)
  BY <1>3, <1>6, LogicalTicks, DurableTicks DEF DurableLength
<1> QED BY <1>4, <1>5, <1>6

\* An older collector's append is published at once, for no operation.
LEMMA UnjournaledLog ==
  ASSUME RInv, RInv', UnjournaledAppend
  PROVE  Publishes
<1>1. disk \in Store /\ disk.pending = None /\ disk.lines \in Seq(Line)
  BY DiskSound, StoreFields DEF UnjournaledAppend, RInv
<1>2. PICK u \in Payloads :
        disk' = [disk EXCEPT !.exists = TRUE, !.stamp = @ + 1,
                   !.lines = Append(@, [user |-> u,
                                        prev |-> Link(disk.lines, Len(disk.lines)),
                                        op |-> NoOp])]
  BY DEF UnjournaledAppend
<1> DEFINE x == [user |-> u, prev |-> Link(disk.lines, Len(disk.lines)), op |-> NoOp]
           n == Len(disk.lines)
           d == [i \in 1..n |-> [user |-> disk.lines[i].user, op |-> disk.lines[i].op]]
           y == [user |-> u, op |-> NoOp]
<1>3. disk'.lines = Append(disk.lines, x) /\ disk'.pending = None
  BY <1>1, <1>2, StoreFields
<1>4. x.user = u /\ x.op = NoOp /\ n \in Nat
  BY <1>1
<1>5. DurableLog = d
  BY <1>1, SettledLog
<1> HIDE DEF x
<1>6. Len(disk'.lines) = n + 1 /\ disk'.lines[n + 1] = x
      /\ \A i \in 1..n : disk'.lines[i] = disk.lines[i]
  BY <1>1, <1>3
<1>7. DurableLog' = [i \in 1..(n + 1) |->
                       [user |-> disk'.lines[i].user, op |-> disk'.lines[i].op]]
  <2>1. DurableLength' = Len(disk'.lines) /\ Completed(disk)' = disk'.lines
    BY <1>3 DEF DurableLength, Loses, Completed
  <2> QED BY <1>6, <2>1, DurableNext
<1>8. DurableLog' = Append(d, y)
  <2>1. d \in Seq({d[i] : i \in 1..n} \cup {y}) /\ Len(d) = n
    BY <1>4
  <2>2. \A i \in 1..n : d[i] = [user |-> disk.lines[i].user, op |-> disk.lines[i].op]
    BY <1>4
  <2> HIDE DEF d, n
  <2> QED BY <1>4, <1>6, <1>7, <2>1, <2>2
<1>9. ~Abstract!Latest(NoOp)
  BY DEF Abstract!Latest
<1> QED BY <1>5, <1>8, <1>9 DEF Publishes, OpId

\* A restored copy holds the same journal and the same ticks.
LEMMA RestoreCopyLog ==
  ASSUME RInv, RInv', RestoreCopy
  PROVE  DurableLog' = DurableLog \/ Publishes
<1>1. disk'.pending = disk.pending /\ disk'.lines = disk.lines
  BY DiskSound, StoreFields DEF RestoreCopy, RInv
<1>2. \A s \in images' : s.pending = disk.pending
  BY <1>1 DEF RestoreCopy
<1> QED BY <1>1, <1>2, SameJournalStep DEF Completed

\* A call returns only once its tick is published.
LEMMA ReturnAcks ==
  ASSUME RInv, NEW p \in Procs, Return(p),
         \/ pc[p] = "recovered" /\ Satisfied(p)
         \/ pc[p] = "decide" /\ call[p].kind = "recover"
         \/ pc[p] = "decide" /\ AlreadyPublished(p) /\ disk.ckpt.tip.user = call[p].user
  PROVE  Abstract!Ack(call[p]) /\ call[p] \in Requests
<1>1. /\ IInv /\ disk \in Store /\ Sound(disk) /\ Named(disk) /\ Serving(p)
      /\ disk.pending = None /\ call[p] \in Requests /\ call[p] \in Request
  BY DiskSound, ConstantsAssumption
     DEF RInv, IInv, TypeOK, Progress, NoJournal, Traced, Named
<1>2. DurableLog' = DurableLog /\ acked' = acked \cup {call[p]}
  BY QuietLog DEF Return
<1>3. disk.lines \in Seq(Line)
  BY <1>1, StoreFields
<1>4. ASSUME NEW i \in 1..Len(disk.lines), disk.lines[i].user = call[p].user,
             call[p].kind = "once" => disk.lines[i].op = call[p].op
      PROVE  Abstract!Published(call[p])
  <2> DEFINE l == disk.lines
  <2>1. DurableLog = [j \in 1..Len(l) |-> [user |-> l[j].user, op |-> l[j].op]]
    BY <1>1, SettledLog
  <2>2. Len(DurableLog) = Len(l)
    BY <1>3, <2>1
  <2> QED BY <1>4, <2>1, <2>2 DEF Abstract!Published
<1>5. CASE call[p].kind = "recover"
  BY <1>1, <1>2, <1>5 DEF Abstract!Ack
<1>6. CASE pc[p] = "recovered" /\ Satisfied(p)
  <2>1. PICK i \in 1..Len(disk.lines) : disk.lines[i] = job[p].record
    BY <1>1, <1>6 DEF Serving
  <2>2. CASE own[p]
    <3>1. Records(job[p], call[p])
      BY <1>1, <2>2, Zenon DEF Serving
    <3> QED BY <1>1, <1>2, <1>4, <2>1, <3>1 DEF Records, Abstract!Ack
  <2>3. CASE call[p].kind = "once" /\ job[p].record.op = call[p].op
    <3>1. Answers(job[p], call[p])
      BY <1>1, <1>6 DEF Serving, Recovering
    <3> QED BY <1>1, <1>2, <1>4, <2>1, <2>3, <3>1 DEF Answers, Abstract!Ack
  <2>4. CASE call[p].kind = "append" /\ job[p].record.user = call[p].user
    BY <1>1, <1>2, <1>4, <2>1, <2>4 DEF Abstract!Ack
  <2> QED BY <1>6, <2>2, <2>3, <2>4 DEF Satisfied
<1>7. CASE AlreadyPublished(p) /\ disk.ckpt.tip.user = call[p].user
  <2>1. /\ disk.ckpt.size \in 1..Len(disk.lines)
        /\ disk.ckpt.tip = disk.lines[disk.ckpt.size]
        /\ disk.ckpt.op = disk.lines[disk.ckpt.size].op
    BY <1>1, <1>7 DEF AlreadyPublished, Sound, SoundCheckpoint, Named, NamesOperation
  <2> QED BY <1>1, <1>2, <1>4, <1>7, <2>1 DEF AlreadyPublished, Abstract!Ack
<1> QED BY <1>5, <1>6, <1>7

\* Every step of Next publishes a tick, acknowledges a call or is invisible.
LEMMA RefinementStep ==
  ASSUME RInv, RInv', [Next]_vars
  PROVE  [Abstract!Next]_<<DurableLog, acked>>
<1>1. ASSUME acked' = acked, DurableLog' = DurableLog \/ Publishes
      PROVE  [Abstract!Next]_<<DurableLog, acked>>
  BY <1>1 DEF Publishes, OpId, Abstract!Next, Abstract!Publish
<1>2. CASE acked' = acked /\ UNCHANGED images
  BY <1>1, <1>2, QuietLog
<1>3. ASSUME NEW p \in Procs, Return(p),
             \/ pc[p] = "recovered" /\ Satisfied(p)
             \/ pc[p] = "decide" /\ call[p].kind = "recover"
             \/ pc[p] = "decide" /\ AlreadyPublished(p) /\ disk.ckpt.tip.user = call[p].user
      PROVE  [Abstract!Next]_<<DurableLog, acked>>
  BY <1>3, ReturnAcks DEF Abstract!Next
<1>4. ASSUME NEW p \in Procs, Complete(p) \/ Suffix(p) \/ SaveCheckpoint(p) \/ Tip(p)
      PROVE  [Abstract!Next]_<<DurableLog, acked>>
  <2>1. acked' = acked
    BY <1>4 DEF Complete, Suffix, CheckSuffix, SaveCheckpoint, Tip, Alarm
  <2>2. CASE \E c : ChangeSidecar([disk EXCEPT !.ckpt = c])
    BY <1>1, <2>1, <2>2, CheckpointLog
  <2>3. CASE UNCHANGED images
    BY <1>2, <2>1, <2>3
  <2> QED BY <1>4, <2>2, <2>3 DEF Complete, Suffix, CheckSuffix, SaveCheckpoint, Tip, Alarm
<1>5. ASSUME NEW p \in Procs, Recovered(p) \/ Decide(p)
      PROVE  [Abstract!Next]_<<DurableLog, acked>>
  <2>1. CASE Recovered(p)
    BY <1>2, <1>3, <2>1 DEF Recovered
  <2>2. CASE Decide(p)
    <3>1. CASE /\ call[p].kind # "recover" /\ acked' = acked
               /\ ChangeSidecar([disk EXCEPT !.pending = NewPending(disk, call[p])])
      BY <1>1, <2>2, <3>1, DecideLog
    <3> QED BY <1>2, <1>3, <2>2, <3>1 DEF Decide, Refuse
  <2> QED BY <1>5, <2>1, <2>2
<1>6. ASSUME NEW p \in Procs, Step(p)
      PROVE  [Abstract!Next]_<<DurableLog, acked>>
  <2>1. CASE Acquire(p) \/ LockTimeout(p) \/ Inspect(p)
    BY <1>2, <2>1 DEF Acquire, LockTimeout, Inspect, Refuse
  <2>2. CASE SyncDirectory /\ acked' = acked
    BY <1>1, <2>2, DirectoryLog
  <2>3. CASE Write(p) \/ Fsync(p) \/ UnlinkPending(p)
    BY <1>1, <2>3, WriteLog, FsyncLog, UnlinkLog DEF Write, Fsync, UnlinkPending
  <2> QED BY <1>4, <1>5, <1>6, <2>1, <2>2, <2>3
          DEF Step, FreshSync, EntrySync, CheckpointSync, UnlinkSync, TipSync, PendingSync,
              SyncThen
<1>7. CASE PowerLoss
  BY <1>1, <1>7, PowerLossLog DEF PowerLoss
<1>8. CASE UnjournaledAppend
  BY <1>1, <1>8, UnjournaledLog DEF UnjournaledAppend
<1>9. CASE RestoreCopy
  BY <1>1, <1>9, RestoreCopyLog DEF RestoreCopy
<1> QED BY <1>2, <1>6, <1>7, <1>8, <1>9 DEF Next, Call, Interrupt, vars

\* The ledger publishes its ticks one at a time, whole and for good, at most
\* once while their operation is the latest one, and acknowledges a call only
\* after its tick is published, whatever is interrupted (collect.py:2262-2548).
THEOREM Refinement == Spec => ImplementsAppendOnceLog
<1>1. Init => Abstract!Init
  <2> SUFFICES ASSUME Init PROVE DurableLog = <<>> /\ acked = {}
    BY DEF Abstract!Init
  <2>1. RInv
    BY RInvInit
  <2>2. disk.pending = None /\ disk.lines = <<>>
    BY DEF Init, EmptyStore
  <2> QED BY <2>1, <2>2, SettledLog DEF Init
<1>2. RInv /\ RInv' /\ [Next]_vars => [Abstract!Next]_<<DurableLog, acked>>
  BY RefinementStep
<1> QED BY <1>1, <1>2, Accounted, PTL DEF Spec, ImplementsAppendOnceLog, Abstract!Spec

-----------------------------------------------------------------------------
(* A ledger that the operator has put back alone.  Its families are not    *)
(* sound: the checkpoint and the journal may know ticks that the file does *)
(* not hold.  The invariant is what remains.                               *)

\* The tick after the first n, if it is the last one, is x.
EndsWith(s, n, x) == Len(s.lines) = n + 1 => SameBytes(s.lines[n + 1], x)

\* The checkpoint is that of the last tick.
AtTip(s) ==
  s.ckpt # None =>
    s.ckpt.size = Len(s.lines) /\ SameBytes(s.lines[s.ckpt.size], s.ckpt.tip)

\* A journal is one tick ahead of its checkpoint at most, and they agree with
\* each other and with the file on the ticks that both know.
Agrees(s) ==
  LET b == s.pending.base
      r == s.pending.record
  IN s.pending # None =>
       /\ b.fresh => b.size = 0 /\ r.prev = <<>>
       /\ s.ckpt # None =>
            /\ s.ckpt.size <= b.size + 1
            /\ s.ckpt.size = b.size + 1 => SameBytes(s.ckpt.tip, r)
            /\ s.ckpt.size <= Len(s.lines) => SameBytes(s.lines[s.ckpt.size], s.ckpt.tip)

Remembers(s) ==
  /\ s.lines # <<>> => s.exists
  /\ s.ckpt # None => s.ckpt.size > 0
  /\ Agrees(s)

\* Every family that a power loss could leave has the first ticks of the file.
Kept ==
  /\ \A s \in images \cup {disk} : Remembers(s)
  /\ \A t \in images : Extends(disk.lines, t.lines)

Publishing == {"fsync", "entrySync", "ckpt", "ckptSync", "unlink"}

\* What a process in its critical section relies on.
Relies(p) ==
  LET b == disk.pending.base
      r == disk.pending.record
  IN /\ pc[p] \in Locked <=> lock = p
     /\ pc[p] # "idle" => call[p] # None
     /\ pc[p] \in Completing => disk.pending # None /\ job[p] = disk.pending
     /\ pc[p] = "pendSync" => disk.pending # None
     /\ pc[p] \in NoJournal => disk.pending = None
     /\ pc[p] \in {"unlinkSync", "tipSync", "decide"} => AtTip(disk)
     /\ pc[p] = "write" => Len(disk.lines) \in {b.size, b.size + 1}
     /\ pc[p] \in Publishing => Appended(disk, disk.pending)
     /\ pc[p] \in Publishing \cup {"write"} => EndsWith(disk, b.size, r)
     /\ pc[p] \in {"ckptSync", "unlink"} => disk.ckpt # None
                                            /\ disk.ckpt.size = Len(disk.lines)

BInv == TypeOK /\ Kept /\ \A p \in Procs : Relies(p)

\* A file extends every file that one it extends does.
LEMMA ExtendsThrough ==
  ASSUME NEW k \in Seq(Line), NEW l \in Seq(Line), NEW m \in Seq(Line),
         Extends(k, l), Extends(l, m)
  PROVE  Extends(k, m)
<1>1. Len(k) \in Nat /\ Len(l) \in Nat /\ Len(m) \in Nat
  OBVIOUS
<1>2. Len(m) <= Len(l) /\ Len(l) <= Len(k)
  BY DEF Extends
<1>3. ASSUME NEW i \in 1..Len(m) PROVE m[i] = k[i]
  <2>1. i \in 1..Len(l)
    BY <1>1, <1>2
  <2> QED BY <2>1 DEF Extends
<1> QED BY <1>1, <1>2, <1>3 DEF Extends

\* The first ticks of a ledger beside the sidecars of the whole one.
LEMMA RemembersMixed ==
  ASSUME NEW s \in Store, NEW t \in Store, Remembers(s), Remembers(t),
         Extends(t.lines, s.lines)
  PROVE  Remembers(WithSidecars(s, t))
<1> DEFINE w == WithSidecars(s, t)
<1>1. w.ckpt = t.ckpt /\ w.pending = t.pending /\ w.lines = s.lines /\ w.exists = s.exists
  BY Mixed DEF SameFile
<1>2. s.lines \in Seq(Line) /\ t.lines \in Seq(Line) /\ t.ckpt \in Checkpoint \cup {None}
  BY StoreFields
<1>3. t.ckpt # None => t.ckpt.size \in Nat /\ t.ckpt.size > 0
  BY <1>2 DEF Remembers, Checkpoint
<1>4. t.ckpt # None /\ t.ckpt.size <= Len(s.lines) =>
        t.ckpt.size <= Len(t.lines) /\ s.lines[t.ckpt.size] = t.lines[t.ckpt.size]
  BY <1>2, <1>3 DEF Extends
<1> HIDE DEF w
<1>5. Agrees(w)
  BY <1>1, <1>4 DEF Remembers, Agrees
<1>6. Remembers(w)
  BY <1>1, <1>5 DEF Remembers
<1> QED BY <1>6 DEF w

\* A rename or unlink of a sidecar.
LEMMA SidecarRemembers ==
  ASSUME TypeOK, Kept, NEW s \in Store, Remembers(s), s.lines = disk.lines, ChangeSidecar(s)
  PROVE  disk' = s /\ images' \subseteq Store /\ Kept'
<1>1. disk' = s /\ disk \in Store /\ images \subseteq Store
      /\ images' = images \cup {WithSidecars(t, s) : t \in images \cup {s}}
  BY DEF ChangeSidecar, TypeOK
<1>2. s.lines \in Seq(Line)
  BY StoreFields
<1>3. ASSUME NEW t \in images'
      PROVE  t \in Store /\ Remembers(t) /\ Extends(s.lines, t.lines)
  <2>1. CASE t \in images
    BY <1>1, <2>1 DEF Kept
  <2>2. ASSUME NEW u \in images \cup {s}, t = WithSidecars(u, s)
        PROVE  t \in Store /\ Remembers(t) /\ Extends(s.lines, t.lines)
    <3>1. u \in Store /\ Remembers(u) /\ Extends(s.lines, u.lines)
      BY <1>1, <1>2, ExtendsSelf DEF Kept
    <3> QED BY <2>2, <3>1, Mixed, RemembersMixed DEF SameFile
  <2> QED BY <1>1, <2>1, <2>2
<1> QED BY <1>1, <1>3 DEF Kept

\* fsync of the directory.
LEMMA DirectoryRemembers ==
  ASSUME TypeOK, Kept, SyncDirectory
  PROVE  disk' = disk /\ images' \subseteq Store /\ Kept'
<1>1. disk' = disk /\ disk \in Store /\ images \subseteq Store
      /\ images' = {WithSidecars(t, disk) : t \in {u \in images : u.exists = disk.exists}}
  BY DEF SyncDirectory, TypeOK
<1>2. ASSUME NEW t \in images'
      PROVE  t \in Store /\ Remembers(t) /\ Extends(disk.lines, t.lines)
  <2>1. PICK u \in images : t = WithSidecars(u, disk)
    BY <1>1
  <2>2. u \in Store /\ Remembers(u) /\ Remembers(disk) /\ Extends(disk.lines, u.lines)
    BY <1>1 DEF Kept
  <2> QED BY <1>1, <2>1, <2>2, Mixed, RemembersMixed DEF SameFile
<1> QED BY <1>1, <1>2 DEF Kept

\* A write to the ledger file.
LEMMA FileRemembers ==
  ASSUME TypeOK, Kept, NEW s \in Store, Remembers(s), Extends(s.lines, disk.lines),
         WriteFile(s)
  PROVE  disk' = s /\ images' \subseteq Store /\ Kept'
<1>1. disk' = s /\ disk \in Store /\ images \subseteq Store /\ images' = images \cup {s}
  BY DEF WriteFile, TypeOK
<1>2. s.lines \in Seq(Line) /\ disk.lines \in Seq(Line) /\ \A t \in images : t.lines \in Seq(Line)
  BY <1>1, StoreFields
<1>3. Extends(s.lines, s.lines) /\ \A t \in images : Extends(s.lines, t.lines)
  BY <1>2, ExtendsSelf, ExtendsThrough DEF Kept
<1> QED BY <1>1, <1>3 DEF Kept

\* One family, in which every power loss ends.
LEMMA OneRemembers ==
  ASSUME NEW s \in Store, Remembers(s), disk' = s, images' = {s}
  PROVE  disk' \in Store /\ images' \subseteq Store /\ Kept'
<1>1. Extends(s.lines, s.lines)
  BY StoreFields, ExtendsSelf
<1> QED BY <1>1 DEF Kept

\* A process outside the critical section relies on nothing.
LEMMA OutsideRelies ==
  ASSUME NEW q \in Procs, pc'[q] \notin Locked, lock' # q,
         pc'[q] # "idle" => call'[q] # None
  PROVE  Relies(q)'
BY DEF Relies, Locked, Completing, NoJournal, Publishing

\* A step of one process leaves what the others rely on.
LEMMA OthersRely ==
  ASSUME BInv, NEW p \in Procs, lock = p, lock' \in {p, NoProc},
         NEW q \in Procs \ {p}, pc'[q] = pc[q], call'[q] = call[q]
  PROVE  Relies(q)'
<1>1. pc[q] \notin Locked /\ lock' # q /\ (pc[q] # "idle" => call[q] # None)
  BY ConstantsAssumption DEF BInv, Relies
<1> QED BY <1>1, OutsideRelies

\* A step within the critical section.
LEMMA LockedRelies ==
  ASSUME BInv, NEW p \in Procs, pc[p] \in Locked, NEW to \in Locked, Goto(p, to),
         UNCHANGED <<lock, call, acked, alarm, counters>>,
         job' \in [Procs -> Pending \cup {None}], own' \in [Procs -> BOOLEAN],
         disk' \in Store, images' \subseteq Store, Kept', Relies(p)'
  PROVE  BInv'
<1>1. lock = p
  BY DEF BInv, Relies
<1>2. ASSUME NEW q \in Procs \ {p} PROVE Relies(q)'
  <2>1. pc'[q] = pc[q] /\ call'[q] = call[q]
    BY DEF Goto, BInv, TypeOK
  <2> QED BY <1>1, <2>1, OthersRely
<1>3. TypeOK'
  BY DEF Goto, BInv, TypeOK, counters
<1> QED BY <1>2, <1>3 DEF BInv

\* A step within the critical section that touches no file.
LEMMA QuietRelies ==
  ASSUME BInv, NEW p \in Procs, pc[p] \in Locked, NEW to \in Locked, Goto(p, to),
         UNCHANGED <<disk, images, lock, call, job, own, acked, alarm, counters>>,
         Relies(p)'
  PROVE  BInv'
<1>1. disk' \in Store /\ images' \subseteq Store /\ Kept'
  BY DEF BInv, TypeOK, Kept
<1>2. job' \in [Procs -> Pending \cup {None}] /\ own' \in [Procs -> BOOLEAN]
  BY DEF BInv, TypeOK
<1> QED BY <1>1, <1>2, LockedRelies

\* A call that ends, in the critical section or before it.
LEMMA EndRelies ==
  ASSUME BInv, NEW p \in Procs, Forget(p), UNCHANGED <<disk, images, calls, external>>,
         lock' = IF lock = p THEN NoProc ELSE lock,
         acked' \subseteq Requests, alarm' \in BOOLEAN, faults' \in Nat
  PROVE  BInv'
<1>1. /\ pc' = [pc EXCEPT ![p] = "idle"]
      /\ pc' \in [Procs -> Outside \cup Locked]
      /\ call' \in [Procs -> Requests \cup {None}]
      /\ job' \in [Procs -> Pending \cup {None}]
      /\ own' \in [Procs -> BOOLEAN]
      /\ \A q \in Procs \ {p} : pc'[q] = pc[q] /\ job'[q] = job[q] /\ call'[q] = call[q]
  BY DEF Forget, Goto, BInv, TypeOK, Outside
<1>2. TypeOK'
  BY <1>1 DEF BInv, TypeOK
<1>3. Kept'
  BY DEF BInv, Kept
<1>4. Relies(p)'
  <2>1. pc'[p] = "idle" /\ lock' # p
    BY <1>1, ConstantsAssumption DEF BInv, TypeOK
  <2> QED BY <2>1, OutsideRelies DEF Locked
<1>5. ASSUME NEW q \in Procs \ {p} PROVE Relies(q)'
  <2>1. pc'[q] = pc[q] /\ job'[q] = job[q] /\ call'[q] = call[q]
        /\ disk' = disk /\ Relies(q)
    BY <1>1 DEF BInv
  <2>2. lock' = q <=> lock = q
    BY ConstantsAssumption
  <2> QED BY <2>1, <2>2 DEF Relies, AtTip, Appended, EndsWith
<1> QED BY <1>2, <1>3, <1>4, <1>5 DEF BInv

\* Returning, refusing and raising the alarm.
LEMMA LeaveRelies ==
  ASSUME BInv, NEW p \in Procs, pc[p] \in Locked,
         Return(p) \/ Refuse(p) \/ Alarm(p)
  PROVE  BInv'
<1>1. lock = p /\ lock' = NoProc /\ Forget(p) /\ UNCHANGED <<disk, images, counters>>
  BY DEF Return, Refuse, Alarm, Leave, BInv, Relies
<1>2. acked' \subseteq Requests /\ alarm' \in BOOLEAN
  <2>1. call[p] \in Requests
    BY DEF BInv, TypeOK, Relies, Locked
  <2> QED BY <2>1 DEF Return, Refuse, Alarm, BInv, TypeOK
<1> QED BY <1>1, <1>2, EndRelies DEF counters, BInv, TypeOK

\* The fields of the family that processes see.
LEMMA DiskFields ==
  ASSUME BInv
  PROVE  /\ disk \in Store /\ Remembers(disk)
         /\ disk.lines \in Seq(Line) /\ Len(disk.lines) \in Nat
         /\ disk.ckpt # None => disk.ckpt \in Checkpoint /\ disk.ckpt.size \in Nat \ {0}
         /\ disk.pending # None =>
              /\ disk.pending \in Pending /\ disk.pending.base.size \in Nat
              /\ disk.pending.record \in Line
<1>1. disk \in Store /\ Remembers(disk)
  BY DEF BInv, TypeOK, Kept
<1>2. /\ disk.ckpt \in Checkpoint \cup {None} /\ disk.pending \in Pending \cup {None}
      /\ disk.lines \in Seq(Line)
  BY <1>1, StoreFields
<1>3. disk.ckpt # None => disk.ckpt.size \in Nat \ {0}
  BY <1>1, <1>2 DEF Remembers, Checkpoint
<1> QED BY <1>1, <1>2, <1>3, PendingFields

\* A new call.
LEMMA CallRelies ==
  ASSUME BInv, NEW p \in Procs, Call(p)
  PROVE  BInv'
<1>1. PICK r \in Requests : call' = [call EXCEPT ![p] = r]
  BY DEF Call
<1>2. r # None
  BY ConstantsAssumption
<1>3. pc' = [pc EXCEPT ![p] = "lock"] /\ pc[p] = "idle" /\ calls' = calls + 1
      /\ UNCHANGED <<disk, images, lock, job, own, acked, alarm, faults, external>>
  BY DEF Call, Goto
<1>4. TypeOK'
  BY <1>1, <1>3 DEF BInv, TypeOK, Outside
<1>5. Kept'
  BY <1>3 DEF BInv, Kept
<1>6. Relies(p)'
  <2>1. pc'[p] = "lock" /\ call'[p] # None /\ lock # p
    BY <1>1, <1>2, <1>3 DEF BInv, TypeOK, Relies, Locked
  <2> QED BY <1>3, <2>1, OutsideRelies DEF Locked
<1>7. ASSUME NEW q \in Procs \ {p} PROVE Relies(q)'
  <2>1. pc'[q] = pc[q] /\ call'[q] = call[q] /\ Relies(q)
    BY <1>1, <1>3 DEF BInv, TypeOK
  <2> QED BY <1>3, <2>1 DEF Relies, AtTip, Appended, EndsWith
<1> QED BY <1>4, <1>5, <1>6, <1>7 DEF BInv

\* The lock is given to one process.
LEMMA AcquireRelies ==
  ASSUME BInv, NEW p \in Procs, Acquire(p)
  PROVE  BInv'
<1>1. pc' = [pc EXCEPT ![p] = "inspect"] /\ lock = NoProc /\ lock' = p /\ pc[p] = "lock"
      /\ UNCHANGED <<disk, images, call, job, own, acked, alarm, calls, faults, external>>
  BY DEF Acquire, Goto, counters
<1>2. TypeOK'
  BY <1>1 DEF BInv, TypeOK, Locked
<1>3. Kept'
  BY <1>1 DEF BInv, Kept
<1>4. Relies(p)'
  <2>1. pc'[p] = "inspect" /\ call'[p] # None
    BY <1>1 DEF BInv, TypeOK, Relies
  <2> QED BY <1>1, <2>1 DEF Relies, Locked, Completing, NoJournal, Publishing
<1>5. ASSUME NEW q \in Procs \ {p} PROVE Relies(q)'
  <2>1. pc'[q] = pc[q] /\ pc[q] \notin Locked /\ lock' # q
        /\ (pc[q] # "idle" => call[q] # None)
    BY <1>1, ConstantsAssumption DEF BInv, TypeOK, Relies
  <2> QED BY <1>1, <2>1, OutsideRelies
<1> QED BY <1>2, <1>3, <1>4, <1>5 DEF BInv

\* Giving up the wait for the lock, and being killed.
LEMMA GiveUpRelies ==
  ASSUME BInv, NEW p \in Procs, LockTimeout(p) \/ Interrupt(p)
  PROVE  BInv'
<1>1. Forget(p) /\ UNCHANGED <<disk, images, acked, alarm, calls, external>>
      /\ faults' \in Nat
  BY DEF LockTimeout, Interrupt, counters, BInv, TypeOK
<1>2. lock' = IF lock = p THEN NoProc ELSE lock
  BY DEF LockTimeout, Interrupt, BInv, Relies, Locked
<1> QED BY <1>1, <1>2, EndRelies DEF BInv, TypeOK

\* The journal that a process finds becomes its job.
LEMMA InspectRelies ==
  ASSUME BInv, NEW p \in Procs, Inspect(p)
  PROVE  BInv'
<1>1. pc[p] = "inspect" /\ pc[p] \in Locked /\ lock = p /\ call[p] # None
      /\ {"tip", "complete"} \subseteq Locked
  BY DEF Inspect, Locked, BInv, Relies
<1>2. CASE Refuse(p)
  BY <1>1, <1>2, LeaveRelies
<1>3. ASSUME disk.pending = None, Goto(p, "tip"),
             UNCHANGED <<disk, images, lock, call, job, own, acked, alarm, counters>>
      PROVE  BInv'
  <2>1. pc'[p] = "tip"
    BY <1>3 DEF Goto, BInv, TypeOK
  <2>2. Relies(p)'
    BY <1>1, <1>3, <2>1 DEF Relies, Locked, Completing, NoJournal, Publishing
  <2> QED BY <1>1, <1>3, <2>2, QuietRelies
<1>4. ASSUME disk.pending # None, Goto(p, "complete"),
             job' = [job EXCEPT ![p] = disk.pending], own' = [own EXCEPT ![p] = FALSE],
             UNCHANGED <<disk, images, lock, call, acked, alarm, counters>>
      PROVE  BInv'
  <2>1. pc'[p] = "complete" /\ job'[p] = disk.pending
        /\ job' \in [Procs -> Pending \cup {None}] /\ own' \in [Procs -> BOOLEAN]
    BY <1>4, DiskFields DEF Goto, BInv, TypeOK
  <2>2. Relies(p)'
    BY <1>1, <1>4, <2>1 DEF Relies, Locked, Completing, NoJournal, Publishing
  <2>3. disk' \in Store /\ images' \subseteq Store /\ Kept'
    BY <1>4 DEF BInv, TypeOK, Kept
  <2> QED BY <1>1, <1>4, <2>1, <2>2, <2>3, LockedRelies
<1> QED BY <1>2, <1>3, <1>4 DEF Inspect

\* The directory syncs, after which a process goes on with what it knows.
LEMMA DirectoryRelies ==
  ASSUME BInv, NEW p \in Procs,
         FreshSync(p) \/ EntrySync(p) \/ CheckpointSync(p) \/ UnlinkSync(p)
         \/ TipSync(p) \/ PendingSync(p)
  PROVE  BInv'
<1> DEFINE to == pc'[p]
<1>1. /\ SyncDirectory /\ Goto(p, to) /\ UNCHANGED <<lock, call, acked, alarm, counters>>
      /\ \/ pc[p] = "freshSync" /\ to = "suffix"
         \/ pc[p] = "entrySync" /\ to = "ckpt"
         \/ pc[p] = "ckptSync" /\ to = "unlink"
         \/ pc[p] = "unlinkSync" /\ to = "recovered"
         \/ pc[p] = "tipSync" /\ to = "decide"
         \/ pc[p] = "pendSync" /\ to = "complete"
  BY DEF FreshSync, EntrySync, CheckpointSync, UnlinkSync, TipSync, PendingSync, SyncThen,
         Goto, BInv, TypeOK
<1>2. pc[p] \in Locked /\ to \in Locked
  BY <1>1 DEF Locked
<1>3. \/ pc[p] # "pendSync" /\ UNCHANGED <<job, own>>
      \/ /\ pc[p] = "pendSync" /\ job' = [job EXCEPT ![p] = disk.pending]
         /\ own' = [own EXCEPT ![p] = TRUE]
  BY DEF FreshSync, EntrySync, CheckpointSync, UnlinkSync, TipSync, PendingSync, SyncThen
<1>4. job' \in [Procs -> Pending \cup {None}] /\ own' \in [Procs -> BOOLEAN]
      /\ job'[p] = IF pc[p] = "pendSync" THEN disk.pending ELSE job[p]
  BY <1>3, DiskFields DEF BInv, TypeOK
<1>5. disk' = disk /\ disk' \in Store /\ images' \subseteq Store /\ Kept'
  BY <1>1, DirectoryRemembers DEF BInv, TypeOK
<1>6. Relies(p)'
  <2>1. Relies(p)
    BY DEF BInv
  <2> HIDE DEF to
  <2>2. pc'[p] = to
    BY DEF to
  <2> QED BY <1>1, <1>4, <1>5, <2>1, <2>2
          DEF Relies, Locked, Completing, NoJournal, Publishing, AtTip, Appended, EndsWith
<1> HIDE DEF to
<1> QED BY <1>1, <1>2, <1>4, <1>5, <1>6, LockedRelies

\* fsync of the ledger.
LEMMA FsyncRelies ==
  ASSUME BInv, NEW p \in Procs, Fsync(p)
  PROVE  BInv'
<1> DEFINE to == IF job[p].base.fresh THEN "entrySync" ELSE "ckpt"
<1>1. pc[p] = "fsync" /\ pc[p] \in Locked /\ to \in Locked /\ Goto(p, to)
      /\ SyncLedger(job[p].base.fresh) /\ to \in {"entrySync", "ckpt"}
      /\ UNCHANGED <<lock, call, job, own, acked, alarm, counters>>
  BY DEF Fsync, Locked
<1>2. disk' = disk /\ images' \subseteq images \cup {disk}
  BY <1>1 DEF SyncLedger
<1>3. disk' \in Store /\ images' \subseteq Store /\ Kept'
  <2>1. Extends(disk.lines, disk.lines)
    BY DiskFields, ExtendsSelf
  <2> QED BY <1>2, <2>1 DEF BInv, TypeOK, Kept
<1>4. Relies(p)'
  <2>1. pc'[p] = to /\ Relies(p)
    BY <1>1 DEF Goto, BInv, TypeOK
  <2> HIDE DEF to
  <2> QED BY <1>1, <1>2, <2>1
          DEF Relies, Locked, Completing, NoJournal, Publishing, AtTip, Appended, EndsWith
<1>5. job' \in [Procs -> Pending \cup {None}] /\ own' \in [Procs -> BOOLEAN]
  BY <1>1 DEF BInv, TypeOK
<1> HIDE DEF to
<1> QED BY <1>1, <1>3, <1>4, <1>5, LockedRelies

\* A checkpoint of the whole ledger, which repeats the journal's tick if it
\* is the next one, is a checkpoint that agrees with both.
LEMMA CheckpointRemembers ==
  ASSUME NEW s \in Store, Remembers(s), s.lines # <<>>, NEW op \in OpId,
         s.pending # None =>
           /\ Len(s.lines) <= s.pending.base.size + 1
           /\ EndsWith(s, s.pending.base.size, s.pending.record),
         NEW w, w = [s EXCEPT !.ckpt = CheckpointOf(s, op)]
  PROVE  /\ w \in Store /\ Remembers(w) /\ w.lines = s.lines /\ w.pending = s.pending
         /\ w.ckpt = CheckpointOf(s, op) /\ w.ckpt # None
         /\ w.ckpt.size = Len(s.lines) /\ AtTip(w)
<1>1. s.lines \in Seq(Line) /\ Len(s.lines) \in Nat /\ Len(s.lines) > 0
      /\ s.lines[Len(s.lines)] \in Line /\ s.stamp \in Nat
      /\ s.exists \in BOOLEAN /\ s.tail \in Tail_ /\ s.pending \in Pending \cup {None}
  BY StoreFields
<1> DEFINE c == CheckpointOf(s, op)
<1>2. c \in Checkpoint /\ c # None
  BY <1>1, ConstantsAssumption DEF CheckpointOf, Checkpoint
<1>3. c.size = Len(s.lines) /\ c.tip = s.lines[Len(s.lines)]
  BY DEF CheckpointOf
<1>4. w = [exists |-> s.exists, lines |-> s.lines, tail |-> s.tail,
           stamp |-> s.stamp, ckpt |-> c, pending |-> s.pending]
  BY StoreFields DEF Store
<1> HIDE DEF c
<1>5. w \in Store /\ w.exists = s.exists /\ w.lines = s.lines /\ w.pending = s.pending
      /\ w.ckpt = c
  BY <1>1, <1>2, <1>4 DEF Store
<1>6. s.pending # None => s.pending.base.size \in Nat
  BY <1>1, PendingFields
<1>7. Agrees(w)
  BY <1>1, <1>3, <1>5, <1>6 DEF Remembers, Agrees, EndsWith, SameBytes
<1>8. AtTip(w)
  BY <1>3, <1>5 DEF AtTip, SameBytes
<1> QED BY <1>1, <1>2, <1>3, <1>5, <1>7, <1>8 DEF Remembers, c

\* A process that changes a sidecar in its critical section.
LEMMA SidecarRelies ==
  ASSUME BInv, NEW p \in Procs, pc[p] \in Locked, NEW to \in Locked, Goto(p, to),
         NEW s \in Store, Remembers(s), s.lines = disk.lines, ChangeSidecar(s),
         UNCHANGED <<lock, call, job, own, acked, alarm, counters>>,
         Relies(p)'
  PROVE  BInv'
<1>1. disk' \in Store /\ images' \subseteq Store /\ Kept'
  BY SidecarRemembers DEF BInv
<1>2. job' \in [Procs -> Pending \cup {None}] /\ own' \in [Procs -> BOOLEAN]
  BY DEF BInv, TypeOK
<1> QED BY <1>1, <1>2, LockedRelies

\* Before a byte of a fresh append is written, the ledger is what the
\* checkpoint says, if there is one: one tick, that of the journal.
LEMMA FreshTip ==
  ASSUME BInv, disk.pending # None, disk.pending.base.fresh, NeedsRebind(disk),
         ~FreshConflict(disk, disk.pending)
  PROVE  /\ disk.pending.base.size = 0 /\ Len(disk.lines) = 1 /\ TipIntact(disk)
         /\ EndsWith(disk, 0, disk.pending.record)
         /\ disk.ckpt # None /\ disk.ckpt \in Checkpoint /\ disk.lines # <<>>
<1>1. disk.ckpt # None /\ disk.ckpt \in Checkpoint
  BY DiskFields DEF NeedsRebind
<1>2. /\ Len(disk.lines) = 1 /\ TipIntact(disk) /\ VerifiedLedger(disk)
      /\ disk.lines[1].user = disk.pending.record.user
  BY <1>1 DEF FreshConflict
<1>3. disk.pending.base.size = 0 /\ disk.pending.record.prev = <<>>
  BY DiskFields DEF Remembers, Agrees
<1>4. disk.lines[1].prev = Link(disk.lines, 0)
  BY <1>2 DEF VerifiedLedger, ChainOK
<1>5. Link(disk.lines, 0) = <<>>
  BY DiskFields, LinkType DEF Link
<1>6. EndsWith(disk, 0, disk.pending.record)
  BY <1>2, <1>3, <1>4, <1>5 DEF EndsWith, SameBytes
<1>7. disk.lines # <<>>
  <2>1. \A l \in Seq(Line) : Len(l) = 1 => l # <<>>
    OBVIOUS
  <2> QED BY <1>2, <2>1, DiskFields
<1> QED BY <1>1, <1>2, <1>3, <1>6, <1>7

\* The end of the file is refused or is what Write relies on.
LEMMA CheckSuffixRelies ==
  ASSUME BInv, NEW p \in Procs, pc[p] \in {"complete", "suffix"}, CheckSuffix(p)
  PROVE  BInv'
<1>1. pc[p] \in Locked /\ "write" \in Locked
  BY DEF Locked
<1>2. disk.pending # None /\ job[p] = disk.pending /\ lock = p /\ call[p] # None
  BY <1>1 DEF BInv, Relies, Completing
<1>3. CASE Alarm(p)
  BY <1>1, <1>3, LeaveRelies
<1>4. ASSUME PendingFits(disk, job[p]), Goto(p, "write"),
             UNCHANGED <<disk, images, lock, call, job, own, acked, alarm, counters>>
      PROVE  BInv'
  <2>1. pc'[p] = "write"
    BY <1>4 DEF Goto, BInv, TypeOK
  <2>2. /\ Len(disk.lines) \in {disk.pending.base.size, disk.pending.base.size + 1}
        /\ EndsWith(disk, disk.pending.base.size, disk.pending.record)
    BY <1>2, <1>4, DiskFields DEF PendingFits, SuffixFits, EndsWith
  <2>3. Relies(p)'
    BY <1>1, <1>2, <1>4, <2>1, <2>2
       DEF Relies, Locked, Completing, NoJournal, Publishing, EndsWith
  <2> QED BY <1>1, <1>4, <2>3, QuietRelies
<1> QED BY <1>3, <1>4 DEF CheckSuffix

\* The same after a rebound checkpoint.
LEMMA SuffixRelies ==
  ASSUME BInv, NEW p \in Procs, Suffix(p)
  PROVE  BInv'
BY CheckSuffixRelies DEF Suffix

\* Completing a journal refuses, rebinds the checkpoint to the journal's
\* tick, or goes on to write what follows the base.
LEMMA CompleteRelies ==
  ASSUME BInv, NEW p \in Procs, Complete(p)
  PROVE  BInv'
<1>1. pc[p] = "complete" /\ pc[p] \in Locked /\ {"write", "freshSync"} \subseteq Locked
  BY DEF Complete, Locked
<1>2. disk.pending # None /\ job[p] = disk.pending /\ lock = p /\ call[p] # None
  BY <1>1 DEF BInv, Relies, Completing
<1>3. CASE Alarm(p)
  BY <1>1, <1>3, LeaveRelies
<1>4. ASSUME ~FreshConflict(disk, job[p]), job[p].base.fresh, NeedsRebind(disk),
             Goto(p, "freshSync"),
             ChangeSidecar([disk EXCEPT !.ckpt = CheckpointOf(disk, disk.ckpt.op)]),
             UNCHANGED <<lock, call, job, own, acked, alarm, counters>>
      PROVE  BInv'
  <2>1. PICK s : s = [disk EXCEPT !.ckpt = CheckpointOf(disk, disk.ckpt.op)]
    OBVIOUS
  <2>2. /\ disk.pending.base.size = 0 /\ Len(disk.lines) = 1
        /\ EndsWith(disk, 0, disk.pending.record)
        /\ disk.ckpt \in Checkpoint /\ disk.lines # <<>>
    BY <1>2, <1>4, FreshTip
  <2>3. s \in Store /\ Remembers(s) /\ s.lines = disk.lines /\ s.pending = disk.pending
    <3>1. disk.ckpt.op \in OpId
      BY <2>2 DEF Checkpoint
    <3>2. /\ Len(disk.lines) <= disk.pending.base.size + 1
          /\ EndsWith(disk, disk.pending.base.size, disk.pending.record)
      BY <2>2
    <3> QED BY <2>1, <2>2, <3>1, <3>2, DiskFields, CheckpointRemembers
  <2>4. ChangeSidecar(s) /\ disk' = s
    BY <1>4, <2>1 DEF ChangeSidecar
  <2>5. Relies(p)'
    <3>1. pc'[p] = "freshSync"
      BY <1>4 DEF Goto, BInv, TypeOK
    <3> QED BY <1>1, <1>2, <1>4, <2>3, <2>4, <3>1
            DEF Relies, Locked, Completing, NoJournal, Publishing
  <2> QED BY <1>1, <1>4, <2>3, <2>4, <2>5, SidecarRelies
<1>5. CASE CheckSuffix(p)
  BY <1>1, <1>5, CheckSuffixRelies
<1> QED BY <1>3, <1>4, <1>5 DEF Complete

\* The checkpoint of a completed append.
LEMMA SaveCheckpointRelies ==
  ASSUME BInv, NEW p \in Procs, SaveCheckpoint(p)
  PROVE  BInv'
<1>1. PICK s : s = [disk EXCEPT !.ckpt = CheckpointOf(disk, job[p].record.op)]
  OBVIOUS
<1>2. pc[p] = "ckpt" /\ pc[p] \in Locked /\ "ckptSync" \in Locked /\ Goto(p, "ckptSync")
      /\ ChangeSidecar(s) /\ UNCHANGED <<lock, call, job, own, acked, alarm, counters>>
  BY <1>1 DEF SaveCheckpoint, Locked
<1>3. disk.pending # None /\ job[p] = disk.pending /\ lock = p /\ call[p] # None
      /\ Appended(disk, disk.pending)
      /\ EndsWith(disk, disk.pending.base.size, disk.pending.record)
  BY <1>2 DEF BInv, Relies, Completing, Publishing
<1>4. disk.pending.record.op \in OpId /\ disk.lines # <<>>
      /\ Len(disk.lines) <= disk.pending.base.size + 1
  BY <1>3, DiskFields, PendingFields DEF Appended
<1>5. s \in Store /\ Remembers(s) /\ s.lines = disk.lines /\ s.pending = disk.pending
      /\ s.ckpt # None /\ s.ckpt.size = Len(s.lines)
  BY <1>1, <1>3, <1>4, DiskFields, CheckpointRemembers
<1>6. Relies(p)'
  <2>1. pc'[p] = "ckptSync" /\ disk' = s
    BY <1>2 DEF Goto, BInv, TypeOK, ChangeSidecar
  <2> QED BY <1>2, <1>3, <1>5, <2>1
          DEF Relies, Locked, Completing, NoJournal, Publishing, Appended, EndsWith
<1> QED BY <1>2, <1>5, <1>6, SidecarRelies

\* The journal goes when the checkpoint is that of the last tick.
LEMMA UnlinkRelies ==
  ASSUME BInv, NEW p \in Procs, UnlinkPending(p)
  PROVE  BInv'
<1>1. PICK s : s = [disk EXCEPT !.pending = None]
  OBVIOUS
<1>2. pc[p] = "unlink" /\ pc[p] \in Locked /\ "unlinkSync" \in Locked
      /\ Goto(p, "unlinkSync")
      /\ ChangeSidecar(s) /\ UNCHANGED <<lock, call, job, own, acked, alarm, counters>>
  BY <1>1 DEF UnlinkPending, Locked
<1>3. disk.pending # None /\ lock = p /\ call[p] # None
      /\ disk.ckpt # None /\ disk.ckpt.size = Len(disk.lines)
  BY <1>2 DEF BInv, Relies, Completing
<1>4. SameBytes(disk.lines[disk.ckpt.size], disk.ckpt.tip)
  BY <1>3, DiskFields DEF Remembers, Agrees
<1>5. /\ s = [exists |-> disk.exists, lines |-> disk.lines, tail |-> disk.tail,
              stamp |-> disk.stamp, ckpt |-> disk.ckpt, pending |-> None]
      /\ disk.exists \in BOOLEAN /\ disk.lines \in Seq(Line) /\ disk.tail \in Tail_
      /\ disk.stamp \in Nat /\ disk.ckpt \in Checkpoint \cup {None}
  BY <1>1, DiskFields, StoreFields DEF Store
<1>6. s \in Store /\ s.exists = disk.exists /\ s.lines = disk.lines /\ s.ckpt = disk.ckpt
      /\ s.pending = None
  BY <1>5 DEF Store
<1>7. Remembers(s) /\ AtTip(s)
  BY <1>3, <1>4, <1>6, DiskFields DEF Remembers, Agrees, AtTip
<1>8. Relies(p)'
  <2>1. pc'[p] = "unlinkSync" /\ disk' = s
    BY <1>2 DEF Goto, BInv, TypeOK, ChangeSidecar
  <2> QED BY <1>2, <1>3, <1>6, <1>7, <2>1 DEF Relies, Locked, Completing, NoJournal, Publishing
<1> QED BY <1>2, <1>6, <1>7, <1>8, SidecarRelies

\* After a completed append the call returns or looks for the tip.
LEMMA RecoveredRelies ==
  ASSUME BInv, NEW p \in Procs, Recovered(p)
  PROVE  BInv'
<1>1. pc[p] = "recovered" /\ pc[p] \in Locked /\ "tip" \in Locked
      /\ lock = p /\ call[p] # None /\ disk.pending = None
  BY DEF Recovered, Locked, BInv, Relies, NoJournal
<1>2. CASE Return(p)
  BY <1>1, <1>2, LeaveRelies
<1>3. CASE Goto(p, "tip")
           /\ UNCHANGED <<disk, images, lock, call, job, own, acked, alarm, counters>>
  <2>1. pc'[p] = "tip"
    BY <1>3 DEF Goto, BInv, TypeOK
  <2>2. Relies(p)'
    BY <1>1, <1>3, <2>1 DEF Relies, Locked, Completing, NoJournal, Publishing
  <2> QED BY <1>1, <1>3, <2>2, QuietRelies
<1> QED BY <1>2, <1>3 DEF Recovered

\* A ledger that passes the check of its tip has the tick of its checkpoint.
LEMMA TipRelies ==
  ASSUME BInv, NEW p \in Procs, Tip(p)
  PROVE  BInv'
<1>1. pc[p] = "tip" /\ pc[p] \in Locked /\ "decide" \in Locked /\ "tipSync" \in Locked
      /\ disk.pending = None /\ lock = p /\ call[p] # None
  BY DEF Tip, Locked, BInv, Relies, NoJournal
<1>2. CASE Alarm(p)
  BY <1>1, <1>2, LeaveRelies
<1>3. ASSUME ~TipRefused(disk), ~NeedsRebind(disk), Goto(p, "decide"),
             UNCHANGED <<disk, images, lock, call, job, own, acked, alarm, counters>>
      PROVE  BInv'
  <2>1. pc'[p] = "decide"
    BY <1>3 DEF Goto, BInv, TypeOK
  <2>2. AtTip(disk)
    BY <1>3, DiskFields DEF AtTip, TipRefused, NeedsRebind, Grown, TipIntact
  <2>3. Relies(p)'
    BY <1>1, <1>3, <2>1, <2>2
       DEF Relies, Locked, Completing, NoJournal, Publishing, AtTip
  <2> QED BY <1>1, <1>3, <2>3, QuietRelies
<1>4. ASSUME ~TipRefused(disk), NeedsRebind(disk), Goto(p, "tipSync"),
             ChangeSidecar([disk EXCEPT !.ckpt = CheckpointOf(disk, ReboundOp(disk))]),
             UNCHANGED <<lock, call, job, own, acked, alarm, counters>>
      PROVE  BInv'
  <2>1. PICK s : s = [disk EXCEPT !.ckpt = CheckpointOf(disk, ReboundOp(disk))]
    OBVIOUS
  <2>2. disk.ckpt # None /\ disk.ckpt.size <= Len(disk.lines)
    BY <1>4 DEF NeedsRebind, TipRefused, TipIntact
  <2>3. ReboundOp(disk) \in OpId /\ disk.lines # <<>>
    BY <2>2, DiskFields DEF ReboundOp, OpId, Checkpoint
  <2>4. s \in Store /\ Remembers(s) /\ s.lines = disk.lines /\ s.pending = disk.pending
        /\ AtTip(s)
    BY <1>1, <2>1, <2>3, DiskFields, CheckpointRemembers
  <2>5. ChangeSidecar(s) /\ disk' = s
    BY <1>4, <2>1 DEF ChangeSidecar
  <2>6. Relies(p)'
    <3>1. pc'[p] = "tipSync"
      BY <1>4 DEF Goto, BInv, TypeOK
    <3> QED BY <1>1, <1>4, <2>4, <2>5, <3>1
            DEF Relies, Locked, Completing, NoJournal, Publishing
  <2> QED BY <1>1, <1>4, <2>4, <2>5, <2>6, SidecarRelies
<1> QED BY <1>2, <1>3, <1>4 DEF Tip

\* A journal written beside a checkpoint of the last tick, or none.
LEMMA JournalRemembers ==
  ASSUME NEW s \in Store, Remembers(s), AtTip(s), NEW r \in Requests, r.kind # "recover",
         NEW w, w = [s EXCEPT !.pending = NewPending(s, r)]
  PROVE  w \in Store /\ Remembers(w) /\ w.lines = s.lines /\ w.pending # None
<1> DEFINE n == Len(s.lines)
           q == NewPending(s, r)
<1>1. s.lines \in Seq(Line) /\ n \in Nat /\ s.stamp \in Nat /\ s.exists \in BOOLEAN
      /\ s.tail \in Tail_ /\ s.ckpt \in Checkpoint \cup {None}
  BY StoreFields
<1>2. Link(s.lines, n) \in Seq(Payloads) /\ Anchor(s, n) \in Line \cup {NoLine}
  BY <1>1, LinkType DEF Anchor
<1>3. r.user \in Payloads /\ r.op \in OpId
  BY ConstantsAssumption DEF Request, OpId
<1>4. /\ q.base = [fresh |-> ~s.exists, size |-> n, prev |-> Link(s.lines, n),
                   anchor |-> Anchor(s, n), stamp |-> s.stamp]
      /\ q.record = [user |-> r.user, prev |-> Link(s.lines, n), op |-> r.op]
      /\ q = [base |-> q.base, record |-> q.record]
  BY DEF NewPending
<1>5. w = [exists |-> s.exists, lines |-> s.lines, tail |-> s.tail,
           stamp |-> s.stamp, ckpt |-> s.ckpt, pending |-> q]
  BY StoreFields DEF Store
<1>6. ~s.exists => n = 0 /\ Link(s.lines, n) = <<>>
  <2>1. ~s.exists => n = 0
    BY <1>1 DEF Remembers
  <2>2. n = 0 => Link(s.lines, n) = <<>>
    BY <1>2 DEF Link
  <2> QED BY <2>1, <2>2
<1> HIDE DEF n, q
<1>7. q \in Pending /\ q # None
  <2>1. q.base \in Base /\ q.record \in Line
    BY <1>1, <1>2, <1>3, <1>4 DEF Base, Line
  <2> QED BY <1>4, <2>1, PendingFields DEF Pending
<1>8. w \in Store /\ w.exists = s.exists /\ w.lines = s.lines /\ w.pending = q
      /\ w.ckpt = s.ckpt
  BY <1>1, <1>5, <1>7 DEF Store
<1>9. /\ q.base.size = n /\ (q.base.fresh => ~s.exists)
      /\ q.record.prev = Link(s.lines, n)
  <2>1. q.base.fresh = ~s.exists
    BY <1>4
  <2>2. q.base.size = n /\ q.record.prev = Link(s.lines, n)
    BY <1>4
  <2> QED BY <2>1, <2>2
<1>10. Agrees(w)
  <2>1. w.ckpt # None => w.ckpt.size = n /\ SameBytes(w.lines[w.ckpt.size], w.ckpt.tip)
    BY <1>8 DEF AtTip, n
  <2> QED BY <1>1, <1>6, <1>8, <1>9, <2>1 DEF Agrees
<1> QED BY <1>7, <1>8, <1>10 DEF Remembers

\* A call returns, refuses, or journals its tick.
LEMMA DecideRelies ==
  ASSUME BInv, NEW p \in Procs, Decide(p)
  PROVE  BInv'
<1>1. pc[p] = "decide" /\ pc[p] \in Locked /\ "pendSync" \in Locked
      /\ lock = p /\ call[p] # None /\ call[p] \in Requests /\ AtTip(disk)
  BY DEF Decide, Locked, BInv, TypeOK, Relies
<1>2. CASE Return(p) \/ Refuse(p)
  BY <1>1, <1>2, LeaveRelies
<1>3. ASSUME call[p].kind # "recover", Goto(p, "pendSync"),
             ChangeSidecar([disk EXCEPT !.pending = NewPending(disk, call[p])]),
             UNCHANGED <<lock, call, job, own, acked, alarm, counters>>
      PROVE  BInv'
  <2>1. PICK s : s = [disk EXCEPT !.pending = NewPending(disk, call[p])]
    OBVIOUS
  <2>2. s \in Store /\ Remembers(s) /\ s.lines = disk.lines /\ s.pending # None
    BY <1>1, <1>3, <2>1, DiskFields, JournalRemembers
  <2>3. ChangeSidecar(s) /\ disk' = s
    BY <1>3, <2>1 DEF ChangeSidecar
  <2>4. Relies(p)'
    <3>1. pc'[p] = "pendSync"
      BY <1>3 DEF Goto, BInv, TypeOK
    <3> QED BY <1>1, <1>3, <2>2, <2>3, <3>1
            DEF Relies, Locked, Completing, NoJournal, Publishing
  <2> QED BY <1>1, <1>3, <2>2, <2>3, <2>4, SidecarRelies
<1> QED BY <1>2, <1>3 DEF Decide

\* The bytes that a write adds are those of the journal's tick, which is the
\* one that a checkpoint beyond the base names.
LEMMA WrittenRemembers ==
  ASSUME NEW s \in Store, Remembers(s), s.pending # None, s.exists,
         Len(s.lines) = s.pending.base.size,
         NEW k \in 1..(RecordBytes - s.tail.n), NEW w, w = Written(s, s.pending.record, k)
  PROVE  /\ w \in Store /\ Remembers(w) /\ w.pending = s.pending
         /\ Extends(w.lines, s.lines)
         /\ w.lines = IF s.tail.n + k = RecordBytes
                        THEN Append(s.lines, s.pending.record) ELSE s.lines
<1> DEFINE r == s.pending.record
           b == s.pending.base
<1>1. r \in Line /\ b.size \in Nat /\ s.lines \in Seq(Line)
  BY StoreFields, PendingFields
<1>2. s.tail.n \in 0..(RecordBytes - 1) /\ RecordBytes \in Nat /\ k \in Nat
      /\ s.stamp + 1 \in Nat /\ s.exists \in BOOLEAN
      /\ s.ckpt \in Checkpoint \cup {None} /\ s.pending \in Pending \cup {None}
      /\ (s.ckpt # None => s.ckpt.size \in Nat \ {0})
  BY StoreFields, ConstantsAssumption DEF Remembers, Checkpoint
<1>3. Extends(s.lines, s.lines) /\ Extends(Append(s.lines, r), s.lines)
  BY <1>1 DEF Extends
<1>4. CASE s.tail.n + k = RecordBytes
  <2>1. w = [exists |-> s.exists, lines |-> Append(s.lines, r), tail |-> NoTail,
             stamp |-> s.stamp + 1, ckpt |-> s.ckpt, pending |-> s.pending]
    BY <1>4, StoreFields DEF Written, Store
  <2>2. Append(s.lines, r) \in Seq(Line) /\ NoTail \in Tail_
    BY <1>1 DEF Tail_
  <2> HIDE DEF r, b
  <2>3. w \in Store /\ w.lines = Append(s.lines, r) /\ w.ckpt = s.ckpt
        /\ w.pending = s.pending /\ w.exists
    BY <1>2, <2>1, <2>2 DEF Store
  <2>4. Len(w.lines) = b.size + 1 /\ w.lines[b.size + 1] = r
        /\ \A i \in 1..b.size : w.lines[i] = s.lines[i]
    BY <1>1, <2>3 DEF b
  <2>5. Agrees(w)
    <3>1. /\ b.fresh => b.size = 0 /\ r.prev = <<>>
          /\ s.ckpt # None =>
               /\ s.ckpt.size <= b.size + 1
               /\ s.ckpt.size = b.size + 1 => SameBytes(s.ckpt.tip, r)
               /\ s.ckpt.size <= b.size => SameBytes(s.lines[s.ckpt.size], s.ckpt.tip)
      BY DEF Remembers, Agrees, b, r
    <3>2. s.ckpt # None => SameBytes(w.lines[s.ckpt.size], s.ckpt.tip)
      <4>1. CASE s.ckpt # None /\ s.ckpt.size = b.size + 1
        BY <2>4, <3>1, <4>1 DEF SameBytes
      <4>2. CASE s.ckpt # None /\ s.ckpt.size \in 1..b.size
        BY <1>1, <2>4, <3>1, <4>2
      <4> QED BY <1>1, <1>2, <3>1, <4>1, <4>2 DEF b
    <3> QED BY <2>3, <3>1, <3>2 DEF Agrees, b, r
  <2> QED BY <1>2, <1>3, <1>4, <2>3, <2>5 DEF Remembers, r
<1>5. CASE s.tail.n + k # RecordBytes
  <2> DEFINE u == [of |-> r, n |-> s.tail.n + k]
  <2>1. w = [exists |-> s.exists, lines |-> s.lines, tail |-> u,
             stamp |-> s.stamp + 1, ckpt |-> s.ckpt, pending |-> s.pending]
    BY <1>5, StoreFields DEF Written, Store
  <2>2. u \in Tail_
    BY <1>1, <1>2, <1>5 DEF Tail_
  <2> HIDE DEF u
  <2>3. w \in Store /\ w.lines = s.lines /\ w.ckpt = s.ckpt
        /\ w.pending = s.pending /\ w.exists
    BY <1>1, <1>2, <2>1, <2>2 DEF Store
  <2> QED BY <1>3, <1>5, <2>3 DEF Remembers, Agrees
<1> QED BY <1>4, <1>5

\* The same bytes under other metadata, or in a file that did not exist.
LEMMA CopyRemembers ==
  ASSUME NEW s \in Store, Remembers(s), NEW e \in BOOLEAN, s.exists => e,
         NEW w, w = [s EXCEPT !.exists = e, !.stamp = @ + 1]
  PROVE  w \in Store /\ Remembers(w) /\ w.lines = s.lines /\ w.pending = s.pending
<1>1. w = [exists |-> e, lines |-> s.lines, tail |-> s.tail, stamp |-> s.stamp + 1,
           ckpt |-> s.ckpt, pending |-> s.pending]
  BY StoreFields DEF Store
<1>2. /\ s.lines \in Seq(Line) /\ s.tail \in Tail_ /\ s.stamp + 1 \in Nat
      /\ s.ckpt \in Checkpoint \cup {None} /\ s.pending \in Pending \cup {None}
  BY StoreFields
<1>3. w \in Store /\ w.exists = e /\ w.lines = s.lines /\ w.ckpt = s.ckpt
      /\ w.pending = s.pending
  BY <1>1, <1>2 DEF Store
<1> QED BY <1>3 DEF Remembers, Agrees

\* Creating the ledger or writing bytes of the journal's tick.
LEMMA WriteRelies ==
  ASSUME BInv, NEW p \in Procs, Write(p)
  PROVE  BInv'
<1>1. pc[p] = "write" /\ pc[p] \in Locked /\ "write" \in Locked /\ "fsync" \in Locked
      /\ UNCHANGED <<lock, call, job, own, acked, alarm, counters>>
  BY DEF Write, Locked
<1>2. /\ disk.pending # None /\ job[p] = disk.pending /\ lock = p /\ call[p] # None
      /\ Len(disk.lines) \in {disk.pending.base.size, disk.pending.base.size + 1}
      /\ EndsWith(disk, disk.pending.base.size, disk.pending.record)
  BY <1>1 DEF BInv, Relies, Completing
<1>3. ASSUME NEW s \in Store, Remembers(s), Extends(s.lines, disk.lines), WriteFile(s),
             s.pending = disk.pending, NEW to \in {"write", "fsync"}, Goto(p, to),
             Len(s.lines) \in {disk.pending.base.size, disk.pending.base.size + 1},
             EndsWith(s, disk.pending.base.size, disk.pending.record),
             to = "fsync" => Appended(s, disk.pending)
      PROVE  BInv'
  <2>1. disk' = s /\ images' \subseteq Store /\ Kept'
    BY <1>3, FileRemembers DEF BInv
  <2>2. pc'[p] = to
    BY <1>3 DEF Goto, BInv, TypeOK
  <2>3. Relies(p)'
    BY <1>1, <1>2, <1>3, <2>1, <2>2
       DEF Relies, Locked, Completing, NoJournal, Publishing, Appended, EndsWith
  <2>4. job' \in [Procs -> Pending \cup {None}] /\ own' \in [Procs -> BOOLEAN]
    BY <1>1 DEF BInv, TypeOK
  <2> QED BY <1>1, <1>3, <2>1, <2>3, <2>4, LockedRelies
<1>4. ASSUME ~disk.exists, WriteFile([disk EXCEPT !.exists = TRUE, !.stamp = @ + 1]),
             UNCHANGED pc
      PROVE  BInv'
  <2>1. PICK s : s = [disk EXCEPT !.exists = TRUE, !.stamp = @ + 1]
    OBVIOUS
  <2>2. s \in Store /\ Remembers(s) /\ s.lines = disk.lines /\ s.pending = disk.pending
    BY <2>1, DiskFields, CopyRemembers
  <2>3. Extends(s.lines, disk.lines) /\ Goto(p, "write") /\ WriteFile(s)
    BY <1>1, <1>4, <2>1, <2>2, DiskFields, ExtendsSelf DEF Goto, BInv, TypeOK
  <2> QED BY <1>2, <1>3, <2>2, <2>3 DEF EndsWith
<1>5. ASSUME disk.exists, ~Appended(disk, job[p]), NEW k \in 1..(RecordBytes - disk.tail.n),
             WriteFile(Written(disk, job[p].record, k)),
             Goto(p, IF disk.tail.n + k = RecordBytes THEN "fsync" ELSE "write")
      PROVE  BInv'
  <2>1. PICK s : s = Written(disk, disk.pending.record, k)
    OBVIOUS
  <2>2. PICK to : to = IF disk.tail.n + k = RecordBytes THEN "fsync" ELSE "write"
    OBVIOUS
  <2>3. Len(disk.lines) = disk.pending.base.size
    BY <1>2, <1>5 DEF Appended
  <2>4. /\ s \in Store /\ Remembers(s) /\ s.pending = disk.pending
        /\ Extends(s.lines, disk.lines)
        /\ s.lines = IF disk.tail.n + k = RecordBytes
                       THEN Append(disk.lines, disk.pending.record) ELSE disk.lines
    BY <1>2, <1>5, <2>1, <2>3, DiskFields, WrittenRemembers
  <2>5. /\ to = "fsync" => Appended(s, disk.pending)
        /\ to \in {"write", "fsync"}
        /\ Len(s.lines) \in {disk.pending.base.size, disk.pending.base.size + 1}
        /\ EndsWith(s, disk.pending.base.size, disk.pending.record)
    BY <1>2, <2>2, <2>3, <2>4, DiskFields DEF Appended, EndsWith, SameBytes
  <2>6. WriteFile(s) /\ Goto(p, to)
    BY <1>2, <1>5, <2>1, <2>2
  <2> QED BY <1>3, <2>4, <2>5, <2>6
<1>6. CASE Appended(disk, job[p]) /\ Goto(p, "fsync") /\ UNCHANGED <<disk, images>>
  <2>1. pc'[p] = "fsync"
    BY <1>6 DEF Goto, BInv, TypeOK
  <2>2. Relies(p)'
    BY <1>1, <1>2, <1>6, <2>1
       DEF Relies, Locked, Completing, NoJournal, Publishing, Appended, EndsWith
  <2> QED BY <1>1, <1>6, <2>2, QuietRelies
<1> QED BY <1>4, <1>5, <1>6 DEF Write

\* With nobody in the critical section no process relies on a file.
LEMMA ExternalRelies ==
  ASSUME BInv, lock = NoProc, UNCHANGED <<procVars, acked, alarm, calls, faults>>,
         external' = external + 1, disk' \in Store, Remembers(disk)', images' = {disk'}
  PROVE  BInv'
<1>1. PICK s \in Store : disk' = s /\ images' = {s} /\ Remembers(s)
  BY DEF Remembers, Agrees
<1>2. Kept' /\ images' \subseteq Store
  BY <1>1, OneRemembers
<1>3. TypeOK'
  BY <1>2 DEF procVars, BInv, TypeOK
<1>4. ASSUME NEW q \in Procs PROVE Relies(q)'
  <2>1. pc'[q] \notin Locked /\ lock' # q /\ (pc'[q] # "idle" => call'[q] # None)
    BY ConstantsAssumption DEF procVars, BInv, Relies
  <2> QED BY <2>1, OutsideRelies
<1> QED BY <1>2, <1>3, <1>4 DEF BInv

\* The append of an older collector, beside no journal.
LEMMA UnjournaledRelies ==
  ASSUME BInv, UnjournaledAppend
  PROVE  BInv'
<1>1. lock = NoProc /\ disk.pending = None /\ images' = {disk'} /\ external' = external + 1
      /\ UNCHANGED <<procVars, acked, alarm, calls, faults>>
  BY DEF UnjournaledAppend
<1>2. PICK u \in Payloads :
        disk' = [disk EXCEPT !.exists = TRUE, !.stamp = @ + 1,
                   !.lines = Append(@, [user |-> u,
                                        prev |-> Link(disk.lines, Len(disk.lines)),
                                        op |-> NoOp])]
  BY DEF UnjournaledAppend
<1>3. PICK x : x = [user |-> u, prev |-> Link(disk.lines, Len(disk.lines)), op |-> NoOp]
  OBVIOUS
<1>4. x \in Line
  <2>1. Link(disk.lines, Len(disk.lines)) \in Seq(Payloads)
    BY DiskFields, LinkType
  <2> QED BY <1>3, <2>1 DEF Line, OpId
<1>5. disk' = [exists |-> TRUE, lines |-> Append(disk.lines, x), tail |-> disk.tail,
               stamp |-> disk.stamp + 1, ckpt |-> disk.ckpt, pending |-> None]
  BY <1>1, <1>2, <1>3, DiskFields, StoreFields DEF Store
<1>6. Append(disk.lines, x) \in Seq(Line) /\ disk.tail \in Tail_ /\ disk.stamp + 1 \in Nat
      /\ disk.ckpt \in Checkpoint \cup {None}
  BY <1>4, DiskFields, StoreFields
<1>7. disk' \in Store /\ disk'.exists /\ disk'.ckpt = disk.ckpt /\ disk'.pending = None
  BY <1>5, <1>6 DEF Store
<1>8. Remembers(disk)'
  BY <1>7, DiskFields DEF Remembers, Agrees
<1> QED BY <1>1, <1>7, <1>8, ExternalRelies

\* A copy of the whole family.
LEMMA RestoreRelies ==
  ASSUME BInv, RestoreCopy
  PROVE  BInv'
<1>1. lock = NoProc /\ disk' = [disk EXCEPT !.stamp = @ + 1] /\ images' = {disk'}
      /\ external' = external + 1 /\ UNCHANGED <<procVars, acked, alarm, calls, faults>>
  BY DEF RestoreCopy
<1>2. disk.exists \in BOOLEAN
  BY DiskFields, StoreFields
<1>3. disk' = [disk EXCEPT !.exists = disk.exists, !.stamp = @ + 1]
  BY <1>1, DiskFields, StoreFields DEF Store
<1>4. \A w : w = disk' => w \in Store /\ Remembers(w)
  BY <1>2, <1>3, DiskFields, CopyRemembers
<1>5. Remembers(disk)'
  BY <1>4 DEF Remembers, Agrees
<1> QED BY <1>1, <1>4, <1>5, ExternalRelies

\* An older copy of the ledger file alone.
LEMMA RollBackRelies ==
  ASSUME BInv, RollBack
  PROVE  BInv'
<1>1. PICK n \in 0..(Len(disk.lines) - 1) :
        disk' = [disk EXCEPT !.lines = SubSeq(@, 1, n), !.tail = NoTail, !.stamp = @ + 1]
  BY DEF RollBack
<1>2. lock = NoProc /\ images' = {disk'} /\ external' = external + 1
      /\ UNCHANGED <<procVars, acked, alarm, calls, faults>>
  BY DEF RollBack
<1>3. PICK l : l = SubSeq(disk.lines, 1, n)
  OBVIOUS
<1>4. l \in Seq(Line) /\ Len(l) = n /\ disk.lines # <<>>
      /\ \A i \in 1..n : l[i] = disk.lines[i]
  BY <1>3, DiskFields
<1>5. disk' = [exists |-> disk.exists, lines |-> l, tail |-> NoTail,
               stamp |-> disk.stamp + 1, ckpt |-> disk.ckpt, pending |-> disk.pending]
  BY <1>1, <1>3, DiskFields, StoreFields DEF Store
<1>6. /\ NoTail \in Tail_ /\ disk.stamp + 1 \in Nat /\ disk.exists \in BOOLEAN
      /\ disk.ckpt \in Checkpoint \cup {None} /\ disk.pending \in Pending \cup {None}
  BY DiskFields, StoreFields DEF Tail_
<1>7. PICK w : w = disk'
  OBVIOUS
<1>8. w \in Store /\ w.lines = l /\ w.ckpt = disk.ckpt /\ w.pending = disk.pending
      /\ w.exists = disk.exists
  BY <1>4, <1>5, <1>6, <1>7 DEF Store
<1>9. Remembers(w)
  <2>1. disk.ckpt # None /\ disk.ckpt.size <= n =>
          disk.ckpt.size <= Len(disk.lines) /\ l[disk.ckpt.size] = disk.lines[disk.ckpt.size]
    BY <1>4, DiskFields
  <2>2. Agrees(w)
    BY <1>4, <1>8, <2>1, DiskFields DEF Remembers, Agrees
  <2> QED BY <1>4, <1>8, <2>2, DiskFields DEF Remembers
<1>10. disk' \in Store /\ Remembers(disk)'
  BY <1>7, <1>8, <1>9 DEF Remembers, Agrees
<1> QED BY <1>2, <1>10, ExternalRelies

\* A power loss leaves one of the possible families.
LEMMA PowerLossRelies ==
  ASSUME BInv, PowerLoss
  PROVE  BInv'
<1>1. PICK s \in images : disk' = s /\ images' = {s}
  BY DEF PowerLoss
<1>2. disk' \in Store /\ images' \subseteq Store /\ Kept'
  BY <1>1, OneRemembers DEF BInv, TypeOK, Kept
<1>3. /\ pc' = [p \in Procs |-> "idle"] /\ call' = [p \in Procs |-> None]
      /\ job' = [p \in Procs |-> None] /\ own' = [p \in Procs |-> FALSE]
      /\ lock' = NoProc /\ faults' = faults + 1
      /\ UNCHANGED <<acked, alarm, calls, external>>
  BY DEF PowerLoss
<1>4. TypeOK'
  BY <1>2, <1>3 DEF BInv, TypeOK, Outside
<1>5. ASSUME NEW q \in Procs PROVE Relies(q)'
  <2>1. pc'[q] = "idle" /\ lock' # q
    BY <1>3, ConstantsAssumption
  <2> QED BY <2>1, OutsideRelies DEF Locked
<1> QED BY <1>2, <1>4, <1>5 DEF BInv

\* The invariant holds at first, when there is no sidecar.
LEMMA BInvInit == Init => BInv
<1> SUFFICES ASSUME Init PROVE BInv
  OBVIOUS
<1>1. TypeOK /\ disk = EmptyStore /\ images = {EmptyStore}
  BY IInvInit DEF IInv, Init
<1>2. Remembers(EmptyStore) /\ EmptyStore \in Store
  BY <1>1 DEF EmptyStore, Remembers, Agrees, TypeOK
<1>3. Kept
  BY <1>1, <1>2, StoreFields, ExtendsSelf DEF Kept
<1>4. ASSUME NEW p \in Procs PROVE Relies(p)
  <2>1. pc[p] = "idle" /\ lock # p
    BY ConstantsAssumption DEF Init
  <2> QED BY <2>1 DEF Relies, Locked, Completing, NoJournal, Publishing
<1> QED BY <1>1, <1>3, <1>4 DEF BInv

\* Every step keeps the invariant, also the operator's.
LEMMA BInvStep == BInv /\ [RollbackNext]_vars => BInv'
<1> SUFFICES ASSUME BInv, [RollbackNext]_vars PROVE BInv'
  OBVIOUS
<1>1. ASSUME NEW p \in Procs, Step(p) PROVE BInv'
  BY <1>1, AcquireRelies, GiveUpRelies, InspectRelies, CompleteRelies, SuffixRelies, DirectoryRelies,
     WriteRelies, FsyncRelies, SaveCheckpointRelies, UnlinkRelies, RecoveredRelies,
     TipRelies, DecideRelies DEF Step
<1>2. CASE UNCHANGED vars
  <2>1. TypeOK' /\ Kept'
    BY <1>2 DEF BInv, TypeOK, Kept, vars
  <2>2. \A q \in Procs : Relies(q)'
    BY <1>2 DEF BInv, Relies, AtTip, Appended, EndsWith, vars
  <2> QED BY <2>1, <2>2 DEF BInv
<1> QED BY <1>1, <1>2, CallRelies, GiveUpRelies, PowerLossRelies, UnjournaledRelies,
        RestoreRelies, RollBackRelies DEF RollbackNext, Next

\* No call touches a ledger that is behind its checkpoint: it finds no
\* journal, and the tip that it needs is not there.
LEMMA BehindStays ==
  ASSUME BInv, Behind, NEW p \in Procs, Call(p) \/ Step(p)
  PROVE  UNCHANGED <<disk, images>>
<1>1. disk.pending = None
  BY DiskFields DEF Behind, Remembers, Agrees
<1>2. ~TipIntact(disk) /\ ~AtTip(disk)
  BY DiskFields DEF Behind, TipIntact, AtTip
<1>3. pc[p] \notin Completing \cup {"pendSync", "unlinkSync", "tipSync", "decide"}
  BY <1>1, <1>2 DEF BInv, Relies
<1>4. TipRefused(disk)
  BY <1>2 DEF Behind, TipRefused
<1>5. CASE Tip(p)
  BY <1>4, <1>5 DEF Tip, Alarm
<1>6. CASE Call(p) \/ Acquire(p) \/ LockTimeout(p) \/ Inspect(p) \/ Recovered(p)
  BY <1>6 DEF Call, Acquire, LockTimeout, Inspect, Refuse, Recovered, Return
<1>7. pc[p] \notin {"complete", "freshSync", "suffix", "write", "fsync", "entrySync", "ckpt", "ckptSync",
                    "unlink", "pendSync", "unlinkSync", "tipSync", "decide"}
  BY <1>3 DEF Completing
<1> QED BY <1>5, <1>6, <1>7
        DEF Step, Complete, FreshSync, Suffix, Write, Fsync, EntrySync, SaveCheckpoint,
            CheckpointSync, UnlinkPending, UnlinkSync, TipSync, Decide, PendingSync, SyncThen

Supersedes ==
  disk.ckpt # None /\ disk'.ckpt # disk.ckpt =>
    /\ disk'.ckpt # None
    /\ disk.ckpt.size <= Len(disk'.lines)
    /\ SameBytes(disk'.lines[disk.ckpt.size], disk.ckpt.tip)

\* A new checkpoint replaces one whose tick is in the ledger.
LEMMA IntactSupersedes ==
  ASSUME BInv, TipIntact(disk), NEW op \in OpId, disk.ckpt # None,
         ChangeSidecar([disk EXCEPT !.ckpt = CheckpointOf(disk, op)])
  PROVE  Supersedes
<1>1. disk' = [exists |-> disk.exists, lines |-> disk.lines, tail |-> disk.tail,
               stamp |-> disk.stamp, ckpt |-> CheckpointOf(disk, op),
               pending |-> disk.pending]
  BY DiskFields, StoreFields DEF ChangeSidecar, Store
<1>2. disk.lines # <<>> /\ Len(disk.lines) > 0
  BY DiskFields DEF TipIntact
<1>3. CheckpointOf(disk, op) # None
  <2>1. disk.lines[Len(disk.lines)] \in Line /\ disk.stamp \in Nat
    BY <1>2, DiskFields, StoreFields
  <2>2. CheckpointOf(disk, op) \in Checkpoint
    BY <2>1, DiskFields DEF CheckpointOf, Checkpoint
  <2> QED BY <2>2, ConstantsAssumption
<1> QED BY <1>1, <1>3 DEF Supersedes, TipIntact

\* No step of a call loses the checkpoint or replaces it by that of another
\* ledger.
LEMMA StepSupersedes ==
  ASSUME BInv, NEW p \in Procs, Call(p) \/ Step(p)
  PROVE  Supersedes
<1>1. CASE disk'.ckpt = disk.ckpt
  BY <1>1 DEF Supersedes
<1>2. ASSUME disk.ckpt # None, Complete(p), disk'.ckpt # disk.ckpt PROVE Supersedes
  <2>1. ~FreshConflict(disk, job[p]) /\ job[p].base.fresh /\ NeedsRebind(disk)
        /\ ChangeSidecar([disk EXCEPT !.ckpt = CheckpointOf(disk, disk.ckpt.op)])
    BY <1>2 DEF Complete, CheckSuffix, Alarm
  <2>2. disk.pending # None /\ job[p] = disk.pending
    BY <1>2 DEF Complete, BInv, Relies, Completing
  <2>3. TipIntact(disk) /\ disk.ckpt.op \in OpId
    BY <2>1, <2>2, FreshTip DEF Checkpoint
  <2> QED BY <1>2, <2>1, <2>3, IntactSupersedes
<1>3. ASSUME disk.ckpt # None, Tip(p), disk'.ckpt # disk.ckpt PROVE Supersedes
  <2>1. ~TipRefused(disk)
        /\ ChangeSidecar([disk EXCEPT !.ckpt = CheckpointOf(disk, ReboundOp(disk))])
    BY <1>3 DEF Tip, Alarm
  <2>2. TipIntact(disk) /\ ReboundOp(disk) \in OpId
    BY <1>3, <2>1, DiskFields DEF TipRefused, ReboundOp, OpId, Checkpoint
  <2> QED BY <1>3, <2>1, <2>2, IntactSupersedes
<1>4. ASSUME disk.ckpt # None, SaveCheckpoint(p) PROVE Supersedes
  <2>1. disk.pending # None /\ job[p] = disk.pending /\ Appended(disk, disk.pending)
        /\ disk.ckpt.size <= Len(disk.lines) /\ disk.lines # <<>> /\ disk.pending \in Pending
        /\ SameBytes(disk.lines[disk.ckpt.size], disk.ckpt.tip)
    <3>1. disk.pending # None /\ job[p] = disk.pending /\ Appended(disk, disk.pending)
      BY <1>4 DEF SaveCheckpoint, BInv, Relies, Completing, Publishing
    <3>2. /\ disk.ckpt.size <= disk.pending.base.size + 1
          /\ disk.ckpt.size <= Len(disk.lines) =>
               SameBytes(disk.lines[disk.ckpt.size], disk.ckpt.tip)
      BY <1>4, <3>1, DiskFields DEF Remembers, Agrees
    <3> QED BY <3>1, <3>2, DiskFields DEF Appended
  <2>2. TipIntact(disk) /\ disk.pending.record.op \in OpId
    BY <2>1, DiskFields, PendingFields DEF TipIntact, Remembers
  <2> QED BY <1>4, <2>1, <2>2, IntactSupersedes DEF SaveCheckpoint
<1>5. CASE UnlinkPending(p)
  <2>1. [disk EXCEPT !.pending = None].ckpt = disk.ckpt
    BY DiskFields, StoreFields DEF Store
  <2> QED BY <1>1, <1>5, <2>1 DEF UnlinkPending, ChangeSidecar
<1>6. CASE Decide(p)
  <2>1. \A q : [disk EXCEPT !.pending = q].ckpt = disk.ckpt
    BY DiskFields, StoreFields DEF Store
  <2> QED BY <1>1, <1>6, <2>1 DEF Decide, Return, Refuse, ChangeSidecar
<1>7. CASE Write(p)
  <2>1. [disk EXCEPT !.exists = TRUE, !.stamp = @ + 1].ckpt = disk.ckpt
    BY DiskFields, StoreFields DEF Store
  <2>2. job[p].record \in Line
    BY <1>7, DiskFields DEF Write, BInv, Relies, Completing
  <2>3. \A k \in 1..(RecordBytes - disk.tail.n) :
          Written(disk, job[p].record, k).ckpt = disk.ckpt
    <3>1. \A k \in 1..(RecordBytes - disk.tail.n) : k \in Nat
      BY DiskFields, StoreFields, ConstantsAssumption
    <3> QED BY <2>2, <3>1, DiskFields, WrittenLines
  <2> QED BY <1>1, <1>7, <2>1, <2>3 DEF Write, WriteFile
<1>8. CASE FreshSync(p) \/ EntrySync(p) \/ CheckpointSync(p) \/ UnlinkSync(p) \/ TipSync(p)
           \/ PendingSync(p) \/ Fsync(p)
  BY <1>1, <1>8 DEF FreshSync, EntrySync, CheckpointSync, UnlinkSync, TipSync, PendingSync,
                    SyncThen, SyncDirectory, Fsync, SyncLedger
<1>9. CASE Call(p) \/ Acquire(p) \/ LockTimeout(p) \/ Inspect(p) \/ Recovered(p) \/ Suffix(p)
  BY <1>1, <1>9 DEF Call, Acquire, LockTimeout, Inspect, Refuse, Recovered, Return, Suffix,
                    CheckSuffix, Alarm
<1> QED BY <1>1, <1>2, <1>3, <1>4, <1>5, <1>6, <1>7, <1>8, <1>9 DEF Step, Supersedes

\* The three interventions touch neither sidecar.
LEMMA ExternalSidecars ==
  ASSUME BInv, UnjournaledAppend \/ RestoreCopy \/ RollBack
  PROVE  Supersedes /\ external' # external
<1>1. external' # external
  <2>1. external' = external + 1
    BY DEF UnjournaledAppend, RestoreCopy, RollBack
  <2>2. external \in Nat
    BY DEF BInv, TypeOK
  <2> QED BY <2>1, <2>2
<1>2. disk'.ckpt = disk.ckpt
  <2>1. CASE UnjournaledAppend
    BY <2>1, DiskFields, StoreFields DEF UnjournaledAppend, Store
  <2>2. CASE RestoreCopy
    BY <2>2, DiskFields, StoreFields DEF RestoreCopy, Store
  <2>3. CASE RollBack
    BY <2>3, DiskFields, StoreFields DEF RollBack, Store
  <2> QED BY <2>1, <2>2, <2>3
<1> QED BY <1>1, <1>2 DEF Supersedes

\* The inductive invariant of a ledger that may have been put back alone, with
\* its types (collect.py:2116-2258, 2262-2439).
THEOREM RolledBackInvariance == RollbackSpec => []BInv
<1>1. Init => BInv
  BY BInvInit
<1>2. BInv /\ [RollbackNext]_vars => BInv'
  BY BInvStep
<1> QED BY <1>1, <1>2, PTL DEF RollbackSpec

\* A ledger that the operator put back without its sidecars is neither extended
\* nor taken for the checkpointed one: no published tick is replaced by another
\* (collect.py:_checkpointed_ledger_tip, test_checkpoint_rejects_valid_prefix_rollback).
THEOREM RolledBackStays == RollbackSpec => RolledBackIsFrozen
<1>1. BInv /\ [RollbackNext]_vars =>
        [/\ Behind /\ external' = external /\ faults' = faults => UNCHANGED <<disk, images>>
         /\ disk.ckpt # None /\ disk'.ckpt # disk.ckpt /\ faults' = faults =>
              /\ disk'.ckpt # None
              /\ disk.ckpt.size <= Len(disk'.lines)
              /\ SameBytes(disk'.lines[disk.ckpt.size], disk.ckpt.tip)]_vars
  <2> SUFFICES ASSUME BInv, RollbackNext, faults' = faults
               PROVE  /\ Behind /\ external' = external => UNCHANGED <<disk, images>>
                      /\ Supersedes
    BY DEF Supersedes
  <2>1. \A p \in Procs : ~Interrupt(p)
    BY DEF Interrupt, BInv, TypeOK
  <2>2. ~PowerLoss
    BY DEF PowerLoss, BInv, TypeOK
  <2> QED BY <2>1, <2>2, BehindStays, StepSupersedes, ExternalSidecars DEF RollbackNext, Next
<1> QED BY <1>1, RolledBackInvariance, PTL DEF RollbackSpec, RolledBackIsFrozen
=============================================================================
