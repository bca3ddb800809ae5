-------------------------- MODULE TickOutboxProofs --------------------------
(***************************************************************************)
(* Proofs about TickOutbox: its inductive invariant OInv, and from it that *)
(* the ledger holds the committed collections, each once and in order, and *)
(* that no census walk is discarded before its total is published, while a *)
(* power loss undoes at most two commits.                                  *)
(***************************************************************************)
EXTENDS TickOutbox, FiniteSetTheorems, FunctionTheorems, TLAPS

(***************************************************************************)
(* Types, by what the steps change together.                               *)
(***************************************************************************)

StoreTypes ==
  /\ db \in Database
  /\ undone \in Seq(Database) /\ Len(undone) <= MaxLostCommits
  /\ log \in Seq([user : Walk \cup {None}, op : 1..MaxTicks])
  /\ nextOp \in 1..(MaxTicks + 1)
  /\ faults \in 0..MaxFaults

CensusTypes == census \in [walk : Walk, counted : SUBSET Shard, published : BOOLEAN]

ProcTypes ==
  /\ signerLock \in Procs \cup {NoProc}
  /\ censusLock \in Procs \cup {NoProc}
  /\ pc \in [Procs -> Steps]
  /\ second \in [Procs -> BOOLEAN]
  /\ item \in [Procs -> Row \cup {None}]
  /\ carried \in [Procs -> Walk \cup {None}]
  /\ todo \in [Procs -> SUBSET Shard]
  /\ pass \in [Procs -> 0..MaxPasses]

\* TypeOK is these three parts.
LEMMA TypeParts == TypeOK <=> StoreTypes /\ CensusTypes /\ ProcTypes
BY DEF TypeOK, StoreTypes, CensusTypes, ProcTypes

\* The invariant from its parts, in the next state.
LEMMA PartsNext ==
  ASSUME StoreTypes', CensusTypes', ProcTypes', StoreOK', CensusOK',
         \A q \in Procs : Working(q)'
  PROVE  OInv'
BY DEF OInv, TypeOK, StoreTypes, CensusTypes, ProcTypes

(***************************************************************************)
(* The processes.                                                          *)
(***************************************************************************)

\* Steps under the signer lock.
Critical == {"append", "ack", "delete", "fetch"}

\* One process at a time.
LEMMA Exclusive ==
  ASSUME OInv, NEW p \in Procs, pc[p] \in Critical \/ signerLock = NoProc
  PROVE  \A q \in Procs : q # p => pc[q] \notin Critical
BY ConstantsAssumption DEF OInv, Working, Critical

\* The process goes on without the lock; the others notice nothing.
LEMMA Leaves ==
  ASSUME OInv, NEW p \in Procs, UNCHANGED <<db, undone, log>>,
         NEW step \in Steps \ Critical, pc' = [pc EXCEPT ![p] = step],
         signerLock' = signerLock \/ signerLock' = Release(signerLock, p),
         UNCHANGED item \/ item' = [item EXCEPT ![p] = None]
  PROVE  \A q \in Procs : Working(q)'
<1>1. pc \in [Procs -> Steps] /\ item \in [Procs -> Row \cup {None}]
  BY DEF OInv, TypeOK
<1>2. ASSUME NEW q \in Procs, q # p PROVE Working(q)'
  <2>1. Working(q) /\ pc'[q] = pc[q] /\ item'[q] = item[q]
    BY <1>1, <1>2 DEF OInv
  <2>2. signerLock = q => signerLock' = q
    BY <1>2 DEF Release
  <2> QED
    BY <2>1, <2>2 DEF Working, Published
<1>3. Working(p)'
  <2>1. pc'[p] = step
    BY <1>1
  <2> QED
    BY <2>1 DEF Working, Critical
<1> QED
  BY <1>2, <1>3

\* What an ended cycle keeps.
LEMMA EndTypes ==
  ASSUME ProcTypes, NEW p \in Procs, EndCycle(p),
         signerLock' \in Procs \cup {NoProc}, censusLock' \in Procs \cup {NoProc}
  PROVE  ProcTypes'
<1>1. "idle" \in Steps /\ 0 \in 0..MaxPasses
  BY ConstantsAssumption DEF Steps
<1> QED
  BY <1>1 DEF ProcTypes, EndCycle, Goto

\* A lock that is given back.
LEMMA ReleaseTypes ==
  ASSUME NEW lock \in Procs \cup {NoProc}, NEW p
  PROVE  Release(lock, p) \in Procs \cup {NoProc}
BY DEF Release

(***************************************************************************)
(* The store and the ledger.                                               *)
(***************************************************************************)

\* A power loss takes two commits at most.
LEMMA Scaled ==
  ASSUME NEW n \in Nat, NEW k \in Nat, NEW m \in Nat, m <= 2
  PROVE  /\ n * m \in Nat /\ (n + 1) * m = n * m + m
         /\ n <= k => n * m <= k * m
<1>1. CASE m = 0
  BY <1>1
<1>2. CASE m = 1
  BY <1>2
<1>3. CASE m = 2
  BY <1>3
<1> QED
  BY <1>1, <1>2, <1>3

\* Steps that commit and publish nothing.
LEMMA StoreKept ==
  ASSUME MaxLostCommits <= 2, StoreTypes, StoreOK, CensusOK, UNCHANGED <<db, undone, log, nextOp>>,
         faults' = faults \/ (faults < MaxFaults /\ faults' = faults + 1)
  PROVE  StoreTypes' /\ StoreOK' /\ (census' = census => CensusOK')
<1>1. /\ faults \in Nat /\ MaxFaults \in Nat /\ MaxLostCommits \in Nat
      /\ faults' \in 0..MaxFaults /\ faults <= faults'
  BY ConstantsAssumption DEF StoreTypes
<1>2. StoreTypes'
  BY <1>1 DEF StoreTypes
<1>3. /\ faults * MaxLostCommits \in Nat /\ faults' * MaxLostCommits \in Nat
      /\ faults * MaxLostCommits <= faults' * MaxLostCommits
  <2>1. faults' \in Nat
    BY <1>1
  <2> QED
    BY <1>1, <2>1, Scaled
<1>4. IsFiniteSet(DOMAIN log) /\ Unknown(db.applied) \subseteq DOMAIN log
  BY FS_Interval DEF Unknown, StoreTypes
<1>5. Cardinality(Unknown(db.applied)) \in Nat
  BY <1>4, FS_Subset, FS_CardinalityType
<1>6. Cardinality(Unknown(db.applied))' <= faults' * MaxLostCommits
  <2>1. Cardinality(Unknown(db.applied)) <= faults * MaxLostCommits
    BY DEF StoreOK
  <2>2. Unknown(db.applied)' = Unknown(db.applied)
    BY DEF Unknown, Holds
  <2> QED
    BY <1>3, <1>5, <2>1, <2>2
<1>7. LogOK' /\ OneRow' /\ Undoable' /\ \A s \in Images' : Follows(s)'
  BY DEF StoreOK, LogOK, OneRow, Undoable, Images, Follows, Increasing, Published
<1> QED
  BY <1>2, <1>6, <1>7 DEF StoreOK, CensusOK

\* A step of a process alone.
LEMMA LocalKept ==
  ASSUME MaxLostCommits <= 2, OInv, UNCHANGED <<db, undone, log, census, nextOp>>,
         faults' = faults \/ (faults < MaxFaults /\ faults' = faults + 1),
         ProcTypes', \A q \in Procs : Working(q)'
  PROVE  OInv'
<1>1. StoreTypes /\ CensusTypes /\ StoreOK /\ CensusOK
  BY TypeParts DEF OInv
<1>2. CensusTypes'
  BY <1>1 DEF CensusTypes
<1> QED
  BY <1>1, <1>2, StoreKept, PartsNext

\* A failed cycle.
LEMMA FailKept ==
  ASSUME MaxLostCommits <= 2, OInv, NEW p \in Procs, Fail(p),
         UNCHANGED <<db, undone, log, census, nextOp>>,
         faults' = faults \/ (faults < MaxFaults /\ faults' = faults + 1)
  PROVE  OInv'
<1>1. ProcTypes
  BY TypeParts DEF OInv
<1>2. ProcTypes'
  BY <1>1, EndTypes, ReleaseTypes DEF Fail, ProcTypes
<1>3. \A q \in Procs : Working(q)'
  BY Leaves DEF Fail, EndCycle, Goto, Steps, Critical
<1> QED
  BY <1>2, <1>3, LocalKept

\* Sequences.
LEMMA Elements ==
  ASSUME NEW S, NEW s \in Seq(S)
  PROVE  Len(s) \in Nat /\ DOMAIN s = 1..Len(s) /\ \A i \in 1..Len(s) : s[i] \in S
OBVIOUS

\* One element more.
LEMMA Appended ==
  ASSUME NEW S, NEW s \in Seq(S), NEW x \in S
  PROVE  /\ Append(s, x) \in Seq(S) /\ Len(Append(s, x)) = Len(s) + 1
         /\ DOMAIN Append(s, x) = 1..(Len(s) + 1)
         /\ \A i \in 1..Len(s) : Append(s, x)[i] = s[i]
         /\ Append(s, x)[Len(s) + 1] = x
OBVIOUS

\* A sequence over a larger set.
LEMMA ElementsIn ==
  ASSUME NEW S, NEW T, S \subseteq T, NEW s \in Seq(S)
  PROVE  s \in Seq(T)
BY Elements

\* Numbers of operations and of commits.
LEMMA StoreNumbers ==
  ASSUME StoreTypes
  PROVE  /\ Len(undone) \in Nat /\ MaxLostCommits \in Nat /\ nextOp \in Nat /\ MaxTicks \in Nat
         /\ DOMAIN undone = 1..Len(undone) /\ \A i \in 1..Len(undone) : undone[i] \in Database
         /\ Len(log) \in Nat /\ DOMAIN log = 1..Len(log)
         /\ \A i \in 1..Len(log) : log[i].op \in Nat
<1>1. undone \in Seq(Database) /\ log \in Seq([user : Walk \cup {None}, op : 1..MaxTicks])
  BY DEF StoreTypes
<1>2. MaxLostCommits \in Nat /\ nextOp \in Nat /\ MaxTicks \in Nat
  BY ConstantsAssumption DEF StoreTypes
<1>3. \A i \in 1..Len(log) : log[i] \in [user : Walk \cup {None}, op : 1..MaxTicks]
  BY <1>1, Elements
<1>4. \A i \in 1..Len(log) : log[i].op \in Nat
  BY <1>3
<1> QED
  BY <1>1, <1>2, <1>4, Elements

\* The operations of a database.
LEMMA Operations ==
  ASSUME NEW s \in Database
  PROVE  /\ s.applied \in Seq(1..MaxTicks) /\ Len(s.applied) \in Nat
         /\ DOMAIN s.applied = 1..Len(s.applied)
         /\ \A k \in 1..Len(s.applied) : s.applied[k] \in Nat
<1>1. s.applied \in Seq(1..MaxTicks)
  BY DEF Database
<1>2. \A k \in 1..Len(s.applied) : s.applied[k] \in 1..MaxTicks
  BY <1>1, Elements
<1> QED
  BY <1>1, <1>2, Elements

\* A commit of the database: what a power loss may now return to.
LEMMA Committed ==
  ASSUME StoreTypes, NEW state \in Database, Commit(state)
  PROVE  /\ db' \in Database /\ undone' \in Seq(Database) /\ Len(undone') <= MaxLostCommits
         /\ \E drop \in Nat :
              /\ Len(undone') = Len(undone) + 1 - drop
              /\ \A i \in 1..Len(undone') :
                   \/ i + drop \in 1..Len(undone) /\ undone'[i] = undone[i + drop]
                   \/ i + drop = Len(undone) + 1 /\ undone'[i] = db
<1> DEFINE all == Append(undone, db)
<1>1. /\ db \in Database /\ undone \in Seq(Database) /\ MaxLostCommits \in Nat
      /\ Len(undone) \in Nat
  BY ConstantsAssumption DEF StoreTypes
<1>2. /\ all \in Seq(Database) /\ Len(all) = Len(undone) + 1
      /\ \A i \in 1..Len(undone) : all[i] = undone[i]
      /\ all[Len(undone) + 1] = db
  BY <1>1
<1>3. db' = state /\ undone' = LastCommits(all)
  BY DEF Commit
<1> HIDE DEF all
<1>4. CASE Len(all) > MaxLostCommits
  <2> DEFINE drop == Len(all) - MaxLostCommits
  <2>1. drop \in Nat /\ drop + MaxLostCommits = Len(all)
    BY <1>1, <1>2, <1>4
  <2>2. undone' = SubSeq(all, drop + 1, Len(all))
    BY <1>3, <1>4 DEF LastCommits
  <2>3. /\ undone' \in Seq(Database) /\ Len(undone') = MaxLostCommits
        /\ \A i \in 1..Len(undone') : undone'[i] = all[i + drop]
    <3> HIDE DEF drop
    <3> QED
      BY <1>1, <1>2, <2>1, <2>2
  <2>4. Len(undone') = Len(undone) + 1 - drop
    BY <1>1, <1>2, <2>1, <2>3
  <2>5. \A i \in 1..Len(undone') :
          \/ i + drop \in 1..Len(undone) /\ undone'[i] = undone[i + drop]
          \/ i + drop = Len(undone) + 1 /\ undone'[i] = db
    <3> HIDE DEF drop
    <3>1. TAKE i \in 1..Len(undone')
    <3>2. i + drop \in 1..(Len(undone) + 1) /\ undone'[i] = all[i + drop]
      BY <1>1, <1>2, <2>1, <2>3
    <3> QED
      BY <1>1, <1>2, <3>2
  <2> HIDE DEF drop
  <2>6. \E d \in Nat :
          /\ Len(undone') = Len(undone) + 1 - d
          /\ \A i \in 1..Len(undone') :
               \/ i + d \in 1..Len(undone) /\ undone'[i] = undone[i + d]
               \/ i + d = Len(undone) + 1 /\ undone'[i] = db
    BY <2>1, <2>4, <2>5
  <2>7. db' \in Database /\ undone' \in Seq(Database) /\ Len(undone') <= MaxLostCommits
    BY <1>1, <1>3, <2>3
  <2> QED
    BY <2>6, <2>7
<1>5. CASE ~(Len(all) > MaxLostCommits)
  <2>1. undone' = all
    BY <1>3, <1>5 DEF LastCommits
  <2>2. \A i \in 1..Len(undone') : i + 0 = i
    BY <2>1, <1>2, <1>1
  <2> QED
    BY <1>1, <1>2, <1>3, <1>5, <2>1, <2>2
<1> QED
  BY <1>4, <1>5

\* The ledger stays as it is, and the state that is committed follows it.
LEMMA CommitKept ==
  ASSUME StoreTypes, StoreOK, NEW state \in Database, Commit(state),
         MaxLostCommits <= 2, log' = log, faults' = faults,
         nextOp' \in 1..(MaxTicks + 1), nextOp <= nextOp', Follows(state)',
         state.applied = db.applied \/ state.applied = Append(db.applied, nextOp),
         state.outbox # None =>
           db.outbox = None /\ (undone # <<>> => undone[Len(undone)].outbox = None)
  PROVE  StoreTypes' /\ StoreOK'
<1>1. /\ db \in Database /\ undone \in Seq(Database) /\ MaxLostCommits \in Nat
      /\ Len(undone) \in Nat /\ nextOp \in Nat /\ nextOp' \in Nat /\ db' = state
      /\ DOMAIN undone = 1..Len(undone) /\ DOMAIN log = 1..Len(log)
      /\ \A i \in 1..Len(log) : log[i].op \in Nat
  BY StoreNumbers DEF StoreTypes, Commit
<1>2. PICK drop \in Nat :
        /\ Len(undone') = Len(undone) + 1 - drop
        /\ \A i \in 1..Len(undone') :
             \/ i + drop \in 1..Len(undone) /\ undone'[i] = undone[i + drop]
             \/ i + drop = Len(undone) + 1 /\ undone'[i] = db
  BY Committed
<1>3. undone' \in Seq(Database) /\ Len(undone') <= MaxLostCommits /\ Len(undone') \in Nat
  BY Committed
<1>4. StoreTypes'
  BY <1>1, <1>3 DEF StoreTypes
<1>5. \A t \in Images' : t = state \/ t \in Images
  BY <1>1, <1>2, <1>3 DEF Images
<1>6. ASSUME NEW t \in Images' PROVE Follows(t)'
  <2>1. CASE t = state
    BY <2>1
  <2>2. CASE t \in Images
    <3>1. Follows(t) /\ t \in Database
      BY <1>1, <2>2 DEF StoreOK, Images
    <3>2. \A k \in DOMAIN t.applied : t.applied[k] < nextOp'
      <4>1. \A k \in DOMAIN t.applied : t.applied[k] < nextOp /\ t.applied[k] \in Nat
        BY <3>1, Operations DEF Follows
      <4> QED
        BY <1>1, <4>1
    <3> QED
      BY <3>1, <3>2 DEF Follows, Increasing, Published
  <2> QED
    BY <1>5, <2>1, <2>2
<1>7. OneRow'
  <2>1. CASE state.outbox = None
    BY <1>5, <2>1 DEF StoreOK, OneRow
  <2>2. CASE state.outbox # None
    <3>1. ASSUME NEW i \in 1..Len(undone') PROVE undone'[i].outbox = None
      <4>1. i + drop = Len(undone) \/ i + drop = Len(undone) + 1
        <5>1. Len(undone') = Len(undone) + 1 - drop /\ Len(undone') \in {0, 1, 2}
          BY <1>1, <1>2, <1>3
        <5>2. i \in 1..Len(undone') /\ drop \in Nat /\ Len(undone) \in Nat
          BY <1>1
        <5>3. (i = 1 /\ Len(undone') = 1) \/ (i \in {1, 2} /\ Len(undone') = 2)
          BY <5>1, <5>2
        <5> QED
          BY <5>1, <5>2, <5>3
      <4>2. CASE i + drop = Len(undone)
        <5>1. undone'[i] = undone[Len(undone)] /\ undone # <<>>
          BY <1>1, <1>2, <1>3, <4>2
        <5> QED
          BY <2>2, <5>1
      <4>3. CASE i + drop = Len(undone) + 1
        BY <1>1, <1>2, <2>2, <4>3
      <4> QED
        BY <4>1, <4>2, <4>3
    <3>2. \A t \in Images' : t.outbox # None => t = state
      BY <1>1, <3>1 DEF Images
    <3> QED
      BY <3>2 DEF OneRow
  <2> QED
    BY <2>1, <2>2
<1>8. Undoable'
  <2>1. /\ Len(db'.applied) \in Nat /\ Len(db.applied) \in Nat
        /\ DOMAIN db.applied = 1..Len(db.applied)
        /\ Len(db'.applied) <= Len(db.applied) + 1 /\ Len(db.applied) <= Len(db'.applied)
        /\ \A k \in 1..Len(db.applied) : db'.applied[k] = db.applied[k]
    <3>1. CASE state.applied = db.applied
      BY <1>1, <3>1, Operations
    <3>2. CASE state.applied = Append(db.applied, nextOp)
      <4>1. db.applied \in Seq(Nat)
        <5>1. 1..MaxTicks \subseteq Nat
          OBVIOUS
        <5> QED
          BY <1>1, <5>1, Operations, ElementsIn
      <4> QED
        BY <1>1, <3>2, <4>1, Operations, Appended
    <3> QED
      BY <3>1, <3>2
  <2>2. ASSUME NEW i \in 1..Len(undone')
        PROVE  LET ops == undone'[i].applied
               IN  /\ Len(ops) <= Len(db'.applied)
                   /\ Len(db'.applied) <= Len(ops) + Len(undone') + 1 - i
                   /\ \A k \in DOMAIN ops : ops[k] = db'.applied[k]
    <3>1. CASE i + drop = Len(undone) + 1 /\ undone'[i] = db
      <4>1. undone'[i].applied = db.applied /\ i = Len(undone')
        BY <1>1, <1>2, <1>3, <3>1
      <4>2. Len(db.applied) + Len(undone') + 1 - i = Len(db.applied) + 1
        BY <1>3, <2>1, <4>1
      <4>3. \A k \in DOMAIN db.applied : db.applied[k] = db'.applied[k]
        BY <2>1
      <4>4. /\ Len(undone'[i].applied) <= Len(db'.applied)
            /\ Len(db'.applied) <= Len(undone'[i].applied) + Len(undone') + 1 - i
        BY <2>1, <4>1, <4>2
      <4> QED
        BY <4>1, <4>3, <4>4
    <3>2. CASE i + drop \in 1..Len(undone) /\ undone'[i] = undone[i + drop]
      <4> DEFINE ops == undone[i + drop].applied
      <4>1. /\ Len(ops) <= Len(db.applied)
            /\ Len(db.applied) <= Len(ops) + Len(undone) + 1 - (i + drop)
            /\ \A k \in DOMAIN ops : ops[k] = db.applied[k]
        BY <1>1, <3>2 DEF StoreOK, Undoable
      <4>2. Len(ops) \in Nat /\ DOMAIN ops = 1..Len(ops)
        BY <3>2, StoreNumbers, Operations
      <4> HIDE DEF ops
      <4>3. /\ Len(ops) <= Len(db'.applied)
            /\ Len(db'.applied) <= Len(ops) + Len(undone') + 1 - i
        <5>1. Len(undone') = Len(undone) + 1 - drop /\ i \in Nat
          BY <1>2, <1>3
        <5> QED
          BY <1>1, <2>1, <4>1, <4>2, <5>1
      <4>4. \A k \in DOMAIN ops : ops[k] = db'.applied[k]
        <5>1. TAKE k \in DOMAIN ops
        <5>2. k \in 1..Len(db.applied)
          BY <2>1, <4>1, <4>2
        <5> QED
          BY <2>1, <4>1, <5>2
      <4>5. undone'[i].applied = ops
        BY <3>2 DEF ops
      <4> QED
        BY <4>3, <4>4, <4>5
    <3> QED
      BY <1>2, <3>1, <3>2
  <2> QED
    <3>1. DOMAIN undone' = 1..Len(undone')
      BY <1>3, Elements
    <3> QED
      BY <2>2, <3>1 DEF Undoable
<1>9. LogOK'
  BY <1>1 DEF StoreOK, LogOK
<1>10. Unknown(db.applied)' = Unknown(db.applied)
  <2>1. \A i \in DOMAIN log : Holds(state.applied, log[i].op) <=> Holds(db.applied, log[i].op)
    <3>1. CASE state.applied = db.applied
      BY <3>1
    <3>2. CASE state.applied = Append(db.applied, nextOp)
      <4>1. db.applied \in Seq(Nat)
        <5>1. 1..MaxTicks \subseteq Nat
          OBVIOUS
        <5> QED
          BY <1>1, <5>1, Operations, ElementsIn
      <4>2. \A i \in 1..Len(log) : log[i].op # nextOp
        BY <1>1 DEF StoreOK, LogOK
      <4>3. /\ DOMAIN state.applied = 1..(Len(db.applied) + 1) /\ DOMAIN db.applied = 1..Len(db.applied)
            /\ \A k \in 1..Len(db.applied) : state.applied[k] = db.applied[k]
            /\ state.applied[Len(db.applied) + 1] = nextOp /\ Len(db.applied) \in Nat
        BY <1>1, <3>2, <4>1, Appended, Elements
      <4>4. ASSUME NEW i \in 1..Len(log) PROVE Holds(state.applied, log[i].op) <=> Holds(db.applied, log[i].op)
        <5>1. ASSUME Holds(state.applied, log[i].op) PROVE Holds(db.applied, log[i].op)
          <6>1. PICK k \in 1..(Len(db.applied) + 1) : state.applied[k] = log[i].op
            BY <4>3, <5>1 DEF Holds
          <6>2. k \in 1..Len(db.applied)
            BY <4>2, <4>3, <6>1
          <6> QED
            BY <4>3, <6>1, <6>2 DEF Holds
        <5>2. ASSUME Holds(db.applied, log[i].op) PROVE Holds(state.applied, log[i].op)
          BY <4>3, <5>2 DEF Holds
        <5> QED
          BY <5>1, <5>2
      <4> QED
        BY <1>1, <4>4
    <3> QED
      BY <3>1, <3>2
  <2> QED
    BY <1>1, <2>1 DEF Unknown
<1> QED
  BY <1>4, <1>6, <1>7, <1>8, <1>9, <1>10 DEF StoreOK

\* A tick is published: the row that waits, if its tick is not the latest.
LEMMA PublishKept ==
  ASSUME MaxLostCommits <= 2, StoreTypes, StoreOK, CensusOK,
         UNCHANGED <<db, undone, census, nextOp, faults>>,
         db.outbox # None, ~Ledger!Latest(db.outbox.op),
         log' = Append(log, [user |-> db.outbox.walk, op |-> db.outbox.op])
  PROVE  StoreTypes' /\ StoreOK' /\ CensusOK' /\ Published(db.outbox.op)'
<1> DEFINE op == db.outbox.op
           n == Len(log)
<1>1. /\ db \in Database /\ db.outbox \in Row /\ op \in 1..MaxTicks
      /\ db.outbox.walk \in Walk \cup {None}
      /\ log \in Seq([user : Walk \cup {None}, op : 1..MaxTicks]) /\ n \in Nat
      /\ nextOp \in Nat /\ MaxTicks \in Nat
      /\ DOMAIN log = 1..n /\ \A i \in 1..n : log[i].op \in Nat
  <2>1. db \in Database /\ log \in Seq([user : Walk \cup {None}, op : 1..MaxTicks])
    BY DEF StoreTypes
  <2>2. db.outbox \in Row
    BY <2>1 DEF Database
  <2>3. op \in 1..MaxTicks /\ db.outbox.walk \in Walk \cup {None}
    BY <2>2 DEF Row
  <2> QED
    BY <2>1, <2>2, <2>3, StoreNumbers
<1>2. /\ log' \in Seq([user : Walk \cup {None}, op : 1..MaxTicks])
      /\ Len(log') = n + 1 /\ DOMAIN log' = 1..(n + 1) /\ DOMAIN log = 1..n
      /\ \A i \in 1..n : log'[i] = log[i]
      /\ log'[n + 1].op = op /\ log'[n + 1].user = db.outbox.walk
  <2>1. [user |-> db.outbox.walk, op |-> op] \in [user : Walk \cup {None}, op : 1..MaxTicks]
    BY <1>1
  <2> QED
    BY <1>1, <2>1, Appended
<1>3. /\ \A i, j \in 1..n : i < j => log[i].op < log[j].op
      /\ \A i \in 1..n : log[i].op < nextOp
  BY <1>2 DEF StoreOK, LogOK
<1>4. Follows(db) /\ db \in Images
  BY DEF StoreOK, Images
<1>5. op < nextOp /\ \A i \in 1..n : log[i].op < op
  <2>1. db.applied \in Seq(1..MaxTicks) /\ db.applied # <<>> /\ db.applied[Len(db.applied)] = op
    BY <1>1, <1>4 DEF Follows, Database
  <2>2. op < nextOp
    BY <1>4, <2>1 DEF Follows
  <2>3. ASSUME NEW i \in 1..n PROVE log[i].op < op
    <3>1. log[i].op <= op
      BY <1>2, <1>4 DEF Follows
    <3>2. log[i].op = op => log[n].op = op
      <4>1. CASE i = n
        BY <4>1
      <4>2. CASE i # n
        <5>1. i < n /\ n \in 1..n
          <6>1. n \in Nat /\ i \in 1..n
            BY <1>1
          <6> QED
            BY <4>2, <6>1
        <5>2. log[i].op < log[n].op
          BY <1>3, <5>1
        <5>3. log[n].op <= op
          BY <1>2, <1>4, <5>1 DEF Follows
        <5>4. log[i].op \in Nat /\ log[n].op \in Nat /\ op \in Nat
          BY <1>1, <5>1
        <5> QED
          BY <3>1, <5>2, <5>3, <5>4
      <4> QED
        BY <4>1, <4>2
    <3>3. log[n].op # op
      <4>1. op # 0 /\ log # <<>>
        BY <1>1
      <4> QED
        BY <4>1 DEF Ledger!Latest
    <3> QED
      BY <1>1, <3>1, <3>2, <3>3
  <2> QED
    BY <2>2, <2>3
<1> HIDE DEF op, n
<1>6. LogOK'
  BY <1>1, <1>2, <1>3, <1>5 DEF LogOK
<1>7. \A x : Published(x) => Published(x)'
  BY <1>1, <1>2 DEF Published
<1>8. Published(op)'
  <2>1. n + 1 \in DOMAIN log' /\ log'[n + 1].op = op
    BY <1>1, <1>2
  <2>2. op' = op
    BY DEF op
  <2> QED
    BY <2>1, <2>2 DEF Published
<1>9. ASSUME NEW s \in Images PROVE Follows(s)'
  <2>1. Follows(s)
    BY DEF StoreOK
  <2>2. s.outbox # None => s.outbox = db.outbox
    BY <1>4 DEF StoreOK, OneRow
  <2>3. s.outbox # None =>
          \A i \in DOMAIN log' : /\ log'[i].op <= s.outbox.op
                                 /\ log'[i].op = s.outbox.op => log'[i].user = s.outbox.walk
    <3>1. SUFFICES ASSUME s.outbox # None, NEW i \in 1..(n + 1)
                   PROVE  /\ log'[i].op <= s.outbox.op
                          /\ log'[i].op = s.outbox.op => log'[i].user = s.outbox.walk
      BY <1>2
    <3>2. CASE i = n + 1
      BY <1>1, <1>2, <2>2, <3>1, <3>2 DEF op
    <3>3. CASE i # n + 1
      <4>1. i \in 1..n
        BY <1>1, <3>3
      <4> QED
        BY <1>2, <2>1, <3>1, <4>1 DEF Follows
    <3> QED
      BY <3>2, <3>3
  <2> QED
    BY <1>7, <2>1, <2>3 DEF Follows, Increasing
<1>10. Images' = Images /\ OneRow' /\ Undoable'
  BY DEF StoreOK, Images, OneRow, Undoable
<1>11. Unknown(db.applied)' = Unknown(db.applied)
  <2>1. Holds(db.applied, op)
    <3>1. db.applied \in Seq(1..MaxTicks)
      BY <1>1 DEF Database
    <3> QED
      BY <1>4, <3>1 DEF Holds, Follows, op
  <2> QED
    BY <1>1, <1>2, <2>1 DEF Unknown
<1>12. CensusOK'
  BY <1>1, <1>2 DEF CensusOK
<1>13. StoreTypes'
  BY <1>2 DEF StoreTypes
<1>14. StoreOK'
  BY <1>6, <1>9, <1>10, <1>11 DEF StoreOK
<1> QED
  BY <1>8, <1>12, <1>13, <1>14 DEF op

(***************************************************************************)
(* The steps.                                                              *)
(***************************************************************************)

\* A process that is not in a critical step meets no condition.
LEMMA Outside ==
  ASSUME NEW p, pc[p] \notin Critical
  PROVE  Working(p)
BY DEF Working, Critical

\* The same of the next state.
LEMMA OutsideNext ==
  ASSUME NEW p, pc'[p] \notin Critical
  PROVE  Working(p)'
BY DEF Working, Critical

\* main begins a cycle.
LEMMA StartCycleKept ==
  ASSUME MaxLostCommits <= 2, OInv, NEW p \in Procs, StartCycle(p)
  PROVE  OInv'
<1>1. /\ UNCHANGED <<db, undone, log, census, signerLock, censusLock, second, item, carried,
                     todo, pass, nextOp, faults>>
      /\ pc' = [pc EXCEPT ![p] = "drain"]
  BY DEF StartCycle, Goto, walkVars
<1>2. ProcTypes'
  BY <1>1 DEF OInv, TypeOK, ProcTypes, Steps
<1>3. \A q \in Procs : Working(q)'
  BY <1>1, Leaves DEF Steps, Critical
<1> QED
  BY <1>1, <1>2, <1>3, LocalKept

\* The row is loaded under the lock.
LEMMA LoadKept ==
  ASSUME MaxLostCommits <= 2, OInv, NEW p \in Procs, Load(p)
  PROVE  OInv'
<1>1. /\ UNCHANGED <<db, undone, log, census, censusLock, nextOp, faults>>
      /\ signerLock = NoProc /\ ProcTypes
      /\ db.outbox \in Row \cup {None} /\ pc \in [Procs -> Steps]
  BY TypeParts DEF Load, SignerLockFree, OInv, StoreTypes, Database, ProcTypes
<1>2. CASE db.outbox = None /\ UNCHANGED signerLock
  <2>1. \/ EndCycle(p)
        \/ \E step \in {"census", "collect"} :
             Goto(p, step) /\ UNCHANGED <<second, item, carried, todo, pass>>
    BY <1>2, ConstantsAssumption DEF Load, AfterDrain, walkVars
  <2>2. CASE EndCycle(p)
    <3>1. ProcTypes'
      BY <1>1, <1>2, <2>2, EndTypes DEF ProcTypes
    <3>2. \A q \in Procs : Working(q)'
      BY <1>1, <1>2, <2>2, Leaves DEF EndCycle, Goto, Steps, Critical
    <3> QED
      BY <1>1, <3>1, <3>2, LocalKept
  <2>3. ASSUME NEW step \in {"census", "collect"},
               Goto(p, step) /\ UNCHANGED <<second, item, carried, todo, pass>>
        PROVE  OInv'
    <3>1. ProcTypes'
      BY <1>1, <1>2, <2>3 DEF ProcTypes, Goto, Steps
    <3>2. \A q \in Procs : Working(q)'
      BY <1>1, <1>2, <2>3, Leaves DEF Goto, Steps, Critical
    <3> QED
      BY <1>1, <3>1, <3>2, LocalKept
  <2> QED
    BY <2>1, <2>2, <2>3
<1>3. CASE db.outbox # None /\ signerLock' = p
  <2>1. /\ item' = [item EXCEPT ![p] = db.outbox] /\ pc' = [pc EXCEPT ![p] = "append"]
        /\ UNCHANGED <<second, carried, todo, pass>>
    BY <1>3 DEF Load, Goto, walkVars
  <2>2. ProcTypes'
    BY <1>1, <1>3, <2>1 DEF ProcTypes, Steps
  <2>3. Working(p)'
    BY <1>1, <1>3, <2>1 DEF Working, ProcTypes
  <2>4. ASSUME NEW q \in Procs, q # p PROVE Working(q)'
    <3>1. pc'[q] \notin Critical
      BY <1>1, <2>1, <2>4, Exclusive
    <3> QED
      BY <3>1, OutsideNext
  <2> QED
    BY <1>1, <2>2, <2>3, <2>4, LocalKept
<1> QED
  BY <1>2, <1>3 DEF Load

\* append_jsonl_once
LEMMA AppendKept ==
  ASSUME MaxLostCommits <= 2, OInv, NEW p \in Procs, AppendOnce(p)
  PROVE  OInv'
<1>1. /\ UNCHANGED <<db, undone, census, signerLock, censusLock, second, item, carried,
                     todo, pass, nextOp, faults>>
      /\ pc[p] = "append" /\ \E step \in {"delete", "ack"} : pc' = [pc EXCEPT ![p] = step]
      /\ item[p] = db.outbox /\ db.outbox # None /\ signerLock = p
  BY DEF AppendOnce, Goto, walkVars, OInv, Working
<1>2. /\ StoreTypes /\ CensusTypes /\ ProcTypes /\ StoreOK /\ CensusOK /\ pc \in [Procs -> Steps]
  BY TypeParts DEF OInv, ProcTypes
<1>3. StoreTypes' /\ StoreOK' /\ CensusOK' /\ Published(db.outbox.op)'
  <2>1. CASE Ledger!Latest(db.outbox.op) /\ UNCHANGED log
    <3>1. Published(db.outbox.op)
      <4>1. log # <<>> /\ log[Len(log)].op = db.outbox.op
        BY <2>1 DEF Ledger!Latest
      <4>2. Len(log) \in DOMAIN log
        BY <1>2, <4>1 DEF StoreTypes
      <4> QED
        BY <4>1, <4>2 DEF Published
    <3>2. StoreTypes' /\ StoreOK' /\ CensusOK'
      BY <1>1, <1>2, <2>1, StoreKept
    <3> QED
      BY <1>1, <2>1, <3>1, <3>2 DEF Published
  <2>2. CASE Ledger!Publish(db.outbox.walk, db.outbox.op)
    BY <1>1, <1>2, <2>2, PublishKept DEF Ledger!Publish
  <2> QED
    BY <1>1, <2>1, <2>2 DEF AppendOnce
<1>4. CensusTypes'
  BY <1>1, <1>2 DEF CensusTypes
<1>5. ProcTypes'
  BY <1>1, <1>2 DEF ProcTypes, Steps
<1>6. Working(p)'
  <2>1. item'[p] = db.outbox /\ item'[p].op = db.outbox'.op
    BY <1>1
  <2>2. pc'[p] \in {"delete", "ack"}
    BY <1>1, <1>2
  <2>3. Published(item[p].op)'
    BY <1>1, <1>3
  <2> QED
    BY <1>1, <2>1, <2>2, <2>3 DEF Working
<1>7. ASSUME NEW q \in Procs, q # p PROVE Working(q)'
  <2>1. pc'[q] \notin Critical
    BY <1>1, <1>2, <1>7, Exclusive DEF Critical
  <2> QED
    BY <2>1, OutsideNext
<1> QED
  BY <1>3, <1>4, <1>5, <1>6, <1>7, PartsNext

\* _acknowledge_census_publication_locked
LEMMA AcknowledgeKept ==
  ASSUME MaxLostCommits <= 2, OInv, NEW p \in Procs, Acknowledge(p)
  PROVE  OInv'
<1>1. /\ UNCHANGED <<db, undone, log, nextOp, faults>>
      /\ pc[p] = "ack" /\ item[p] = db.outbox /\ db.outbox # None /\ signerLock = p
      /\ Published(db.outbox.op)
  BY DEF Acknowledge, OInv, Working
<1>2. /\ StoreTypes /\ CensusTypes /\ ProcTypes /\ StoreOK /\ CensusOK /\ pc \in [Procs -> Steps]
  BY TypeParts DEF OInv, ProcTypes
<1>3. CASE Fail(p) /\ UNCHANGED census
  BY <1>1, <1>3, FailKept
<1>4. CASE AckMatches(item[p].walk) /\ census' = [census EXCEPT !.published = TRUE]
  <2>1. /\ pc' = [pc EXCEPT ![p] = "delete"]
        /\ UNCHANGED <<signerLock, censusLock, second, item, carried, todo, pass>>
    BY <1>4 DEF Acknowledge, Goto, walkVars, Fail, EndCycle
  <2>2. StoreTypes' /\ StoreOK'
    BY <1>1, <1>2, StoreKept
  <2>3. CensusTypes' /\ census'.walk = census.walk
    BY <1>2, <1>4 DEF CensusTypes
  <2>4. CensusOK'
    <3>1. db.outbox.walk = census.walk
      BY <1>1, <1>4 DEF AckMatches
    <3>2. PICK i \in DOMAIN log : log[i].op = db.outbox.op
      BY <1>1 DEF Published
    <3>3. log[i].user = db.outbox.walk
      BY <1>1, <1>2, <3>2 DEF StoreOK, Images, Follows
    <3> QED
      BY <1>1, <2>3, <3>1, <3>3 DEF CensusOK
  <2>5. ProcTypes'
    BY <1>2, <2>1 DEF ProcTypes, Steps
  <2>6. Working(p)'
    BY <1>1, <1>2, <2>1 DEF Working, Published
  <2>7. ASSUME NEW q \in Procs, q # p PROVE Working(q)'
    <3>1. pc'[q] \notin Critical
      BY <1>1, <1>2, <2>1, <2>7, Exclusive DEF Critical
    <3> QED
      BY <3>1, OutsideNext
  <2> QED
    BY <2>2, <2>3, <2>4, <2>5, <2>6, <2>7, PartsNext
<1> QED
  BY <1>3, <1>4 DEF Acknowledge

\* The row is removed.
LEMMA DeleteRowKept ==
  ASSUME MaxLostCommits <= 2, OInv, NEW p \in Procs, DeleteRow(p)
  PROVE  OInv'
<1>1. /\ UNCHANGED <<log, census, censusLock, nextOp, faults>>
      /\ pc[p] = "delete" /\ item[p] = db.outbox /\ db.outbox # None /\ signerLock = p
      /\ Published(db.outbox.op) /\ Commit([db EXCEPT !.outbox = None]) /\ signerLock' = NoProc
  BY DEF DeleteRow, OInv, Working
<1>2. /\ StoreTypes /\ CensusTypes /\ ProcTypes /\ StoreOK /\ CensusOK /\ pc \in [Procs -> Steps]
  BY TypeParts DEF OInv, ProcTypes
<1>3. PICK state \in Database :
        state.outbox = None /\ state.applied = db.applied /\ Commit(state)
  <2>1. db \in Database
    BY <1>2 DEF StoreTypes
  <2>2. /\ [db EXCEPT !.outbox = None] \in Database
        /\ [db EXCEPT !.outbox = None].outbox = None
        /\ [db EXCEPT !.outbox = None].applied = db.applied
    BY <2>1 DEF Database
  <2> QED
    BY <1>1, <2>2
<1>4. Follows(state)'
  <2>1. Follows(db)
    BY <1>2 DEF StoreOK, Images
  <2>2. \A k \in DOMAIN db.applied : Published(db.applied[k])
    BY <1>1, <2>1 DEF Follows
  <2> QED
    BY <1>1, <1>3, <2>1, <2>2 DEF Follows, Increasing, Published
<1>5. StoreTypes' /\ StoreOK'
  <2>1. nextOp' \in 1..(MaxTicks + 1) /\ nextOp <= nextOp'
    BY <1>1, <1>2, StoreNumbers DEF StoreTypes
  <2> QED
    BY <1>1, <1>2, <1>3, <1>4, <2>1, CommitKept
<1>6. CensusTypes' /\ CensusOK'
  BY <1>1, <1>2 DEF CensusTypes, CensusOK
<1>7. \/ EndCycle(p)
      \/ /\ \E step \in {"census", "collect"} : Goto(p, step)
         /\ item' = [item EXCEPT ![p] = None]
         /\ UNCHANGED <<second, carried, todo, pass>>
  BY ConstantsAssumption DEF DeleteRow, AfterDrain, walkVars
<1>8. ProcTypes'
  <2>1. CASE EndCycle(p)
    BY <1>1, <1>2, <2>1, EndTypes DEF ProcTypes
  <2>2. CASE ~EndCycle(p)
    BY <1>1, <1>2, <1>7, <2>2 DEF ProcTypes, Goto, Steps
  <2> QED
    BY <2>1, <2>2
<1>9. ASSUME NEW q \in Procs PROVE Working(q)'
  <2>1. pc'[p] \notin Critical
    BY <1>2, <1>7 DEF EndCycle, Goto, Critical
  <2>2. q # p => pc'[q] \notin Critical
    BY <1>1, <1>2, <1>7, Exclusive DEF EndCycle, Goto, Critical
  <2> QED
    BY <2>1, <2>2, OutsideNext
<1> QED
  BY <1>5, <1>6, <1>8, <1>9, PartsNext

\* The census lock; the walk is replaced only when its total is published.
LEMMA WalkStartKept ==
  ASSUME MaxLostCommits <= 2, OInv, NEW p \in Procs, WalkStart(p)
  PROVE  OInv' /\ (census'.walk # census.walk => \E i \in DOMAIN log : log[i].user = census.walk)
<1>1. /\ UNCHANGED <<db, undone, log, signerLock, second, item, carried, nextOp, faults>>
      /\ pc' = [pc EXCEPT ![p] = "walk"] /\ censusLock' = p
      /\ todo' = [todo EXCEPT ![p] = Shard \ census'.counted]
      /\ pass' = [pass EXCEPT ![p] = 1]
      /\ Replaceable(census) => census.walk < MaxWalks
      /\ census' = IF Replaceable(census)
                     THEN [walk |-> census.walk + 1, counted |-> {}, published |-> FALSE]
                     ELSE census
  BY DEF WalkStart, Goto
<1>2. /\ StoreTypes /\ CensusTypes /\ ProcTypes /\ StoreOK /\ CensusOK
  BY TypeParts DEF OInv
<1>3. CensusTypes'
  <2>1. CASE Replaceable(census)
    <3>1. census.walk + 1 \in Walk
      BY <1>1, <1>2, <2>1, ConstantsAssumption DEF CensusTypes, Walk
    <3> QED
      BY <1>1, <2>1, <3>1 DEF CensusTypes
  <2>2. CASE ~Replaceable(census)
    BY <1>1, <1>2, <2>2 DEF CensusTypes
  <2> QED
    BY <2>1, <2>2
<1>4. ProcTypes'
  <2>1. 1 \in 0..MaxPasses
    BY ConstantsAssumption
  <2> QED
    BY <1>1, <1>2, <2>1 DEF ProcTypes, Steps
<1>5. StoreTypes' /\ StoreOK'
  BY <1>1, <1>2, StoreKept
<1>6. CensusOK'
  BY <1>1, <1>2 DEF CensusOK
<1>7. \A q \in Procs : Working(q)'
  BY <1>1, Leaves DEF Steps, Critical
<1>8. census'.walk # census.walk => \E i \in DOMAIN log : log[i].user = census.walk
  BY <1>1, <1>2 DEF CensusOK, Replaceable
<1> QED
  BY <1>3, <1>4, <1>5, <1>6, <1>7, <1>8, PartsNext

\* The other steps of a walk.
LEMMA WalkKept ==
  ASSUME MaxLostCommits <= 2, OInv, NEW p \in Procs, ReadShard(p) \/ NextPass(p) \/ WalkEnd(p)
  PROVE  OInv' /\ census'.walk = census.walk
<1>1. UNCHANGED <<db, undone, log, signerLock, second, item, nextOp, faults>>
  BY DEF ReadShard, NextPass, WalkEnd
<1>2. /\ StoreTypes /\ CensusTypes /\ ProcTypes /\ StoreOK /\ CensusOK /\ pc[p] = "walk"
      /\ pc \in [Procs -> Steps]
  BY TypeParts DEF OInv, ReadShard, NextPass, WalkEnd, ProcTypes
<1>3. /\ CensusTypes' /\ census'.walk = census.walk /\ census'.published = census.published
  <2>1. CASE ReadShard(p)
    <3>1. PICK s \in todo[p] : census' = [census EXCEPT !.counted = @ \cup {s}] \/ UNCHANGED census
      BY <2>1 DEF ReadShard
    <3>2. s \in Shard
      BY <1>2 DEF ProcTypes
    <3> QED
      BY <1>2, <3>1, <3>2 DEF CensusTypes
  <2>2. CASE NextPass(p) \/ WalkEnd(p)
    BY <1>2, <2>2 DEF NextPass, WalkEnd, CensusTypes
  <2> QED
    BY <2>1, <2>2
<1>4. ProcTypes'
  <2>1. CASE ReadShard(p)
    <3>1. PICK s \in todo[p] : todo' = [todo EXCEPT ![p] = @ \ {s}]
      BY <2>1 DEF ReadShard
    <3> QED
      BY <1>2, <2>1, <3>1 DEF ReadShard, ProcTypes
  <2>2. CASE NextPass(p)
    <3>1. pass[p] + 1 \in 0..MaxPasses
      BY <1>2, <2>2, ConstantsAssumption DEF NextPass, ProcTypes
    <3> QED
      BY <1>2, <2>2, <3>1 DEF NextPass, ProcTypes
  <2>3. CASE WalkEnd(p)
    <3>1. 0 \in 0..MaxPasses /\ census.walk \in Walk
      BY <1>2, ConstantsAssumption DEF CensusTypes
    <3> QED
      BY <1>2, <2>3, <3>1 DEF WalkEnd, Goto, ProcTypes, Steps
  <2> QED
    BY <2>1, <2>2, <2>3
<1>5. StoreTypes' /\ StoreOK'
  BY <1>1, <1>2, StoreKept
<1>6. CensusOK'
  BY <1>1, <1>2, <1>3 DEF CensusOK
<1>7. \E step \in Steps \ Critical : pc' = [pc EXCEPT ![p] = step]
  <2>1. pc' = [pc EXCEPT ![p] = "walk"] \/ pc' = [pc EXCEPT ![p] = "collect"]
    BY <1>2 DEF ReadShard, NextPass, WalkEnd, Goto
  <2> QED
    BY <2>1 DEF Steps, Critical
<1>8. \A q \in Procs : Working(q)'
  BY <1>1, <1>7, Leaves
<1> QED
  BY <1>3, <1>4, <1>5, <1>6, <1>8, PartsNext

\* The store as it is committed follows the ledger, except when a row is added.
LEMMA LastUndone ==
  ASSUME StoreTypes, Commit(db), db.outbox = None
  PROVE  undone' # <<>> => undone'[Len(undone')].outbox = None
<1>1. db \in Database /\ Len(undone) \in Nat
  BY StoreNumbers DEF StoreTypes
<1>2. PICK drop \in Nat :
        /\ Len(undone') = Len(undone) + 1 - drop
        /\ \A i \in 1..Len(undone') :
             \/ i + drop \in 1..Len(undone) /\ undone'[i] = undone[i + drop]
             \/ i + drop = Len(undone) + 1 /\ undone'[i] = db
  BY <1>1, Committed
<1>3. undone' \in Seq(Database)
  BY <1>1, Committed
<1> SUFFICES ASSUME undone' # <<>> PROVE undone'[Len(undone')].outbox = None
  OBVIOUS
<1>4. Len(undone') \in 1..Len(undone') /\ Len(undone') \in Nat
  BY <1>3
<1>5. Len(undone') + drop = Len(undone) + 1
  BY <1>1, <1>2, <1>4
<1> QED
  BY <1>1, <1>2, <1>4, <1>5

\* The metadata, under the lock and over an empty outbox.
LEMMA BeginKept ==
  ASSUME MaxLostCommits <= 2, OInv, NEW p \in Procs, Begin(p)
  PROVE  OInv'
<1>1. /\ UNCHANGED <<log, census, nextOp, faults>>
      /\ signerLock = NoProc
  BY DEF Begin, SignerLockFree
<1>2. /\ StoreTypes /\ CensusTypes /\ ProcTypes /\ StoreOK /\ CensusOK
      /\ pc \in [Procs -> Steps] /\ db \in Database
  BY TypeParts DEF OInv, ProcTypes, StoreTypes
<1>3. CASE Fail(p) /\ UNCHANGED <<db, undone>>
  BY <1>1, <1>3, FailKept
<1>4. CASE ~(Fail(p) /\ UNCHANGED <<db, undone>>)
  <2>1. /\ db.outbox = None /\ Commit(db) /\ db' = db /\ signerLock' = p
        /\ pc' = [pc EXCEPT ![p] = "fetch"]
        /\ UNCHANGED <<censusLock, second, item, carried, todo, pass>>
    BY <1>4 DEF Begin, Goto, walkVars, Commit
  <2>2. Follows(db)'
    <3>1. Follows(db)
      BY <1>2 DEF StoreOK, Images
    <3> QED
      BY <1>1, <2>1, <3>1 DEF Follows, Increasing, Published
  <2>3. StoreTypes' /\ StoreOK'
    <3>1. nextOp' \in 1..(MaxTicks + 1) /\ nextOp <= nextOp'
      BY <1>1, <1>2, StoreNumbers DEF StoreTypes
    <3>2. PICK state \in Database : state = db /\ Follows(state)'
      <4>1. PICK state \in Database : state = db
        BY <1>2
      <4>2. state = db'
        BY <2>1, <4>1
      <4>3. Follows(state)'
        BY <2>2, <4>2
      <4> QED
        BY <4>1, <4>3
    <3>3. Commit(state) /\ state.outbox = None /\ state.applied = db.applied
      BY <2>1, <3>2
    <3> QED
      BY <1>1, <1>2, <3>1, <3>2, <3>3, CommitKept
  <2>4. CensusTypes' /\ CensusOK'
    BY <1>1, <1>2 DEF CensusTypes, CensusOK
  <2>5. ProcTypes'
    BY <1>2, <2>1 DEF ProcTypes, Steps
  <2>6. Working(p)'
    <3>1. undone' # <<>> => undone'[Len(undone')].outbox = None
      BY <1>2, <2>1, LastUndone
    <3>2. pc'[p] = "fetch"
      BY <1>2, <2>1
    <3> QED
      BY <2>1, <3>1, <3>2 DEF Working
  <2>7. ASSUME NEW q \in Procs, q # p PROVE Working(q)'
    <3>1. pc'[q] \notin Critical
      BY <1>1, <1>2, <2>1, <2>7, Exclusive
    <3> QED
      BY <3>1, OutsideNext
  <2> QED
    BY <2>3, <2>4, <2>5, <2>6, <2>7, PartsNext
<1> QED
  BY <1>3, <1>4

\* The collection and its row.
LEMMA CommitTickKept ==
  ASSUME MaxLostCommits <= 2, OInv, NEW p \in Procs, CommitTick(p)
  PROVE  OInv'
<1>1. /\ UNCHANGED <<log, census, faults>> /\ pc[p] = "fetch" /\ nextOp <= MaxTicks
      /\ db.outbox = None /\ nextOp' = nextOp + 1 /\ signerLock = p
      /\ undone # <<>> => undone[Len(undone)].outbox = None
      /\ Commit([outbox |-> [op |-> nextOp, walk |-> carried[p]],
                 applied |-> Append(db.applied, nextOp)])
  BY DEF CommitTick, OInv, Working
<1>2. /\ StoreTypes /\ CensusTypes /\ ProcTypes /\ StoreOK /\ CensusOK
      /\ pc \in [Procs -> Steps] /\ db \in Database
  BY TypeParts DEF OInv, ProcTypes, StoreTypes
<1>3. /\ nextOp \in 1..MaxTicks /\ nextOp \in Nat /\ MaxTicks \in Nat
      /\ nextOp' \in 1..(MaxTicks + 1) /\ nextOp <= nextOp'
  BY <1>1, <1>2, ConstantsAssumption DEF StoreTypes
<1>4. PICK state \in Database :
        /\ state.outbox = [op |-> nextOp, walk |-> carried[p]]
        /\ state.applied = Append(db.applied, nextOp) /\ Commit(state)
  <2>1. [op |-> nextOp, walk |-> carried[p]] \in Row
    BY <1>2, <1>3 DEF Row, ProcTypes
  <2>2. Append(db.applied, nextOp) \in Seq(1..MaxTicks)
    BY <1>2, <1>3, Operations, Appended
  <2>3. [outbox |-> [op |-> nextOp, walk |-> carried[p]],
         applied |-> Append(db.applied, nextOp)] \in Database
    BY <2>1, <2>2 DEF Database
  <2> QED
    BY <1>1, <2>3
<1>5. /\ state.outbox.op = nextOp
      /\ Len(db.applied) \in Nat /\ DOMAIN db.applied = 1..Len(db.applied)
      /\ \A k \in 1..Len(db.applied) : db.applied[k] \in Nat
      /\ DOMAIN state.applied = 1..(Len(db.applied) + 1)
      /\ Len(state.applied) = Len(db.applied) + 1
      /\ \A k \in 1..Len(db.applied) : state.applied[k] = db.applied[k]
      /\ state.applied[Len(db.applied) + 1] = nextOp
  <2>1. db.applied \in Seq(1..MaxTicks)
    BY <1>2, Operations
  <2>2. \A k \in 1..Len(db.applied) : state.applied[k] = db.applied[k]
    BY <1>3, <1>4, <2>1, Appended
  <2> QED
    BY <1>2, <1>3, <1>4, <2>1, <2>2, Operations, Appended
<1>6. Follows(state)'
  <2>1. Follows(db)
    BY <1>2 DEF StoreOK, Images
  <2> DEFINE n == Len(db.applied)
  <2>2. \A k \in 1..n : db.applied[k] < nextOp
    BY <1>5, <2>1 DEF Follows
  <2>3. n \in Nat /\ \A k \in 1..(n + 1) : k = n + 1 \/ k \in 1..n
    BY <1>5
  <2>4. \A i, j \in 1..n : i < j => db.applied[i] < db.applied[j]
    BY <1>5, <2>1 DEF Follows, Increasing
  <2> HIDE DEF n
  <2>5. /\ DOMAIN state.applied = 1..(n + 1) /\ Len(state.applied) = n + 1
        /\ \A k \in 1..n : state.applied[k] = db.applied[k]
        /\ state.applied[n + 1] = nextOp /\ \A k \in 1..n : db.applied[k] \in Nat
        /\ DOMAIN db.applied = 1..n
    BY <1>5 DEF n
  <2>6. Increasing(state.applied)
    <3>1. ASSUME NEW i \in 1..(n + 1), NEW j \in 1..(n + 1), i < j
          PROVE  state.applied[i] < state.applied[j]
      <4>1. i \in 1..n
        BY <2>3, <3>1
      <4>2. CASE j = n + 1
        BY <2>2, <2>5, <4>1, <4>2
      <4>3. CASE j # n + 1
        BY <2>3, <2>4, <2>5, <3>1, <4>1, <4>3
      <4> QED
        BY <4>2, <4>3
    <3> QED
      BY <2>5, <3>1 DEF Increasing
  <2>7. \A k \in DOMAIN state.applied : state.applied[k] < nextOp'
    <3>1. ASSUME NEW k \in 1..(n + 1) PROVE state.applied[k] < nextOp + 1
      <4>1. CASE k = n + 1
        BY <1>3, <2>5, <4>1
      <4>2. CASE k # n + 1
        BY <1>3, <2>2, <2>3, <2>5, <3>1, <4>2
      <4> QED
        BY <4>1, <4>2
    <3> QED
      BY <1>1, <2>5, <3>1
  <2>8. \A k \in DOMAIN state.applied :
          Published(state.applied[k])' \/ (state.outbox # None /\ k = Len(state.applied))
    <3>1. state.outbox # None
      <4>1. [op |-> nextOp, walk |-> carried[p]] \in Row
        BY <1>2, <1>3 DEF Row, ProcTypes
      <4> QED
        BY <1>4, <4>1, NoneIsNoRow
    <3>2. \A k \in 1..n : Published(db.applied[k])
      BY <1>1, <2>1, <2>5 DEF Follows
    <3>3. ASSUME NEW k \in 1..n PROVE Published(state.applied[k])'
      BY <1>1, <2>5, <3>2 DEF Published
    <3> QED
      BY <2>3, <2>5, <3>1, <3>3
  <2>9. state.applied # <<>> /\ state.applied[Len(state.applied)] = state.outbox.op
    <3>1. n + 1 \in DOMAIN state.applied
      BY <2>3, <2>5
    <3> QED
      BY <1>5, <2>5, <3>1
  <2>10. \A i \in DOMAIN log' : /\ log'[i].op <= state.outbox.op
                                /\ log'[i].op = state.outbox.op => log'[i].user = state.outbox.walk
    <3>1. \A i \in DOMAIN log : log[i].op < nextOp /\ log[i].op \in Nat
      BY <1>2, StoreNumbers DEF StoreOK, LogOK
    <3> QED
      BY <1>1, <1>3, <1>5, <3>1
  <2> QED
    BY <2>6, <2>7, <2>8, <2>9, <2>10 DEF Follows, Increasing
<1>7. StoreTypes' /\ StoreOK'
  BY <1>1, <1>2, <1>3, <1>4, <1>6, CommitKept
<1>8. CensusTypes' /\ CensusOK'
  BY <1>1, <1>2 DEF CensusTypes, CensusOK
<1>9. \/ Fail(p)
      \/ /\ signerLock' = NoProc /\ pc' = [pc EXCEPT ![p] = "drain"]
         /\ second' = [second EXCEPT ![p] = TRUE]
         /\ carried' = [carried EXCEPT ![p] = None]
         /\ UNCHANGED <<censusLock, item, todo, pass>>
  BY DEF CommitTick, Goto, walkVars
<1>10. ProcTypes'
  <2>1. CASE Fail(p)
    BY <1>2, <2>1, EndTypes, ReleaseTypes DEF Fail, ProcTypes
  <2>2. CASE ~Fail(p)
    BY <1>2, <1>9, <2>2 DEF ProcTypes, Steps
  <2> QED
    BY <2>1, <2>2
<1>11. ASSUME NEW q \in Procs PROVE Working(q)'
  <2>1. pc'[p] \notin Critical
    BY <1>2, <1>9 DEF Fail, EndCycle, Goto, Critical
  <2>2. q # p => pc'[q] \notin Critical
    BY <1>1, <1>2, <1>9, Exclusive DEF Fail, EndCycle, Goto, Critical
  <2> QED
    BY <2>1, <2>2, OutsideNext
<1> QED
  BY <1>7, <1>8, <1>10, <1>11, PartsNext

(***************************************************************************)
(* What a power loss costs.                                                *)
(***************************************************************************)

\* A database that comes back lacks at most as many operations as commits
\* were undone.
LEMMA LostOperations ==
  ASSUME StoreTypes, StoreOK, NEW s \in Images
  PROVE  /\ Len(s.applied) <= Len(db.applied)
         /\ Len(db.applied) <= Len(s.applied) + MaxLostCommits
         /\ \A k \in 1..Len(s.applied) : s.applied[k] = db.applied[k]
<1>1. /\ Len(db.applied) \in Nat /\ DOMAIN db.applied = 1..Len(db.applied)
      /\ MaxLostCommits \in Nat /\ Len(undone) \in Nat /\ Len(undone) <= MaxLostCommits
  BY StoreNumbers, Operations DEF StoreTypes
<1>2. CASE s = db
  BY <1>1, <1>2
<1>3. CASE \E i \in 1..Len(undone) : s = undone[i]
  <2>1. PICK i \in 1..Len(undone) : s = undone[i]
    BY <1>3
  <2>2. s \in Database /\ i \in DOMAIN undone
    BY <2>1, StoreNumbers
  <2>3. /\ Len(s.applied) <= Len(db.applied)
        /\ Len(db.applied) <= Len(s.applied) + Len(undone) + 1 - i
        /\ \A k \in DOMAIN s.applied : s.applied[k] = db.applied[k]
    BY <2>1, <2>2 DEF StoreOK, Undoable
  <2>4. Len(s.applied) \in Nat /\ DOMAIN s.applied = 1..Len(s.applied)
    BY <2>2, Operations
  <2> QED
    BY <1>1, <2>1, <2>3, <2>4
<1> QED
  BY <1>2, <1>3 DEF Images

\* Each of these operations is in the ledger once at most.
LEMMA LostTicks ==
  ASSUME StoreTypes, StoreOK, NEW s \in Images
  PROVE  Cardinality(Unknown(s.applied)) <= Cardinality(Unknown(db.applied)) + MaxLostCommits
<1> DEFINE a == Len(s.applied)
           b == Len(db.applied)
           Lost == {i \in DOMAIN log : \E k \in (a + 1)..b : log[i].op = db.applied[k]}
           where == [i \in Lost |-> CHOOSE k \in (a + 1)..b : log[i].op = db.applied[k]]
<1>1. s \in Database /\ db \in Database
  BY StoreNumbers DEF StoreTypes, Images
<1>2. /\ a \in Nat /\ b \in Nat /\ a <= b /\ b <= a + MaxLostCommits /\ MaxLostCommits \in Nat
      /\ DOMAIN s.applied = 1..a /\ DOMAIN db.applied = 1..b
      /\ \A k \in 1..a : s.applied[k] = db.applied[k]
  BY <1>1, Operations, LostOperations, StoreNumbers
<1>3. /\ DOMAIN log = 1..Len(log) /\ Len(log) \in Nat /\ \A i \in 1..Len(log) : log[i].op \in Nat
      /\ \A i, j \in 1..Len(log) : i < j => log[i].op < log[j].op
  BY StoreNumbers DEF StoreOK, LogOK
<1> HIDE DEF a, b
<1>4. where \in Injection(Lost, (a + 1)..b)
  <2>1. \A i \in Lost : where[i] \in (a + 1)..b /\ log[i].op = db.applied[where[i]]
    OBVIOUS
  <2>2. where \in [Lost -> (a + 1)..b]
    <3>1. where = [i \in Lost |-> where[i]]
      OBVIOUS
    <3> HIDE DEF where, Lost
    <3> QED
      BY <2>1, <3>1
  <2>3. \A i, j \in Lost : where[i] = where[j] => i = j
    <3>1. Lost \subseteq 1..Len(log)
      BY <1>3
    <3> HIDE DEF where, Lost
    <3>2. ASSUME NEW i \in Lost, NEW j \in Lost, where[i] = where[j] PROVE i = j
      <4>1. log[i].op = log[j].op
        BY <2>1, <3>2
      <4>2. i \in 1..Len(log) /\ j \in 1..Len(log)
        BY <3>1, <3>2
      <4> QED
        BY <1>3, <4>1, <4>2
    <3> QED
      BY <3>2
  <2> HIDE DEF where, Lost
  <2> QED
    BY <2>2, <2>3, Fun_IsInj
<1>5. IsFiniteSet((a + 1)..b) /\ Cardinality((a + 1)..b) <= MaxLostCommits
  <2>1. a + 1 \in Int /\ b \in Int
    BY <1>2
  <2>2. /\ IsFiniteSet((a + 1)..b)
        /\ Cardinality((a + 1)..b) = IF a + 1 > b THEN 0 ELSE b - (a + 1) + 1
    BY <2>1, FS_Interval
  <2> QED
    BY <1>2, <2>2
<1>6. Unknown(s.applied) \subseteq Unknown(db.applied) \cup Lost
  <2>1. ASSUME NEW i \in DOMAIN log, ~Holds(s.applied, log[i].op), Holds(db.applied, log[i].op)
        PROVE  i \in Lost
    <3>1. PICK k \in 1..b : db.applied[k] = log[i].op
      BY <1>2, <2>1 DEF Holds
    <3>2. k \notin 1..a
      BY <1>2, <2>1, <3>1 DEF Holds
    <3>3. k \in (a + 1)..b
      BY <1>2, <3>1, <3>2
    <3> QED
      BY <3>1, <3>3
  <2> HIDE DEF Lost
  <2> QED
    BY <2>1 DEF Unknown
<1> HIDE DEF where, Lost
<1>7. IsFiniteSet(Lost) /\ Cardinality(Lost) <= Cardinality((a + 1)..b)
  BY <1>4, <1>5, FS_Injection
<1>8. IsFiniteSet(Unknown(db.applied))
  <2>1. Unknown(db.applied) \in SUBSET (1..Len(log)) /\ IsFiniteSet(1..Len(log))
    BY <1>3, FS_Interval DEF Unknown
  <2> QED
    BY <2>1, FS_Subset
<1>9. /\ IsFiniteSet(Unknown(db.applied) \cup Lost)
      /\ Cardinality(Unknown(db.applied) \cup Lost) <= Cardinality(Unknown(db.applied)) + Cardinality(Lost)
  <2>1. IsFiniteSet(Unknown(db.applied) \cap Lost)
    BY <1>8, FS_Subset
  <2>2. /\ Cardinality(Unknown(db.applied)) \in Nat /\ Cardinality(Lost) \in Nat
        /\ Cardinality(Unknown(db.applied) \cap Lost) \in Nat
    BY <1>7, <1>8, <2>1, FS_CardinalityType
  <2>3. /\ IsFiniteSet(Unknown(db.applied) \cup Lost)
        /\ Cardinality(Unknown(db.applied) \cup Lost)
             = Cardinality(Unknown(db.applied)) + Cardinality(Lost)
               - Cardinality(Unknown(db.applied) \cap Lost)
    BY <1>7, <1>8, FS_Union
  <2> QED
    BY <2>2, <2>3
<1>10. Cardinality(Unknown(s.applied)) <= Cardinality(Unknown(db.applied) \cup Lost)
  BY <1>6, <1>9, FS_Subset
<1>11. IsFiniteSet(Unknown(s.applied))
  BY <1>6, <1>9, FS_Subset
<1>12. /\ Cardinality(Unknown(s.applied)) \in Nat /\ Cardinality(Lost) \in Nat
       /\ Cardinality(Unknown(db.applied)) \in Nat /\ Cardinality((a + 1)..b) \in Nat
       /\ Cardinality(Unknown(db.applied) \cup Lost) \in Nat
  BY <1>5, <1>7, <1>8, <1>9, <1>11, FS_CardinalityType
<1> QED
  BY <1>2, <1>5, <1>7, <1>9, <1>10, <1>12

\* The database comes back as one of its images and every process is gone.
LEMMA PowerLossKept ==
  ASSUME MaxLostCommits <= 2, OInv, PowerLoss
  PROVE  OInv'
<1>1. /\ UNCHANGED <<log, census, nextOp>> /\ faults < MaxFaults /\ faults' = faults + 1
      /\ db' \in Images /\ undone' = <<>>
      /\ signerLock' = NoProc /\ censusLock' = NoProc
      /\ pc' = [p \in Procs |-> "idle"]
  BY DEF PowerLoss, Images
<1>2. StoreTypes /\ CensusTypes /\ ProcTypes /\ StoreOK /\ CensusOK
  BY TypeParts DEF OInv
<1>3. /\ faults \in Nat /\ MaxFaults \in Nat /\ MaxLostCommits \in Nat
      /\ faults' \in 0..MaxFaults /\ db' \in Database
  BY <1>1, <1>2, StoreNumbers, ConstantsAssumption DEF StoreTypes, Images
<1>4. StoreTypes'
  <2>1. undone' \in Seq(Database) /\ Len(undone') = 0 /\ 0 <= MaxLostCommits
    BY <1>1, <1>3
  <2> QED
    BY <1>1, <1>2, <1>3, <2>1 DEF StoreTypes
<1>5. Cardinality(Unknown(db.applied))' <= faults' * MaxLostCommits
  <2>1. PICK s \in Images : db' = s
    BY <1>1
  <2>2. Unknown(db.applied)' = Unknown(s.applied)
    BY <1>1, <2>1 DEF Unknown, Holds
  <2>3. Cardinality(Unknown(s.applied)) <= Cardinality(Unknown(db.applied)) + MaxLostCommits
    BY <1>2, LostTicks
  <2>4. /\ Cardinality(Unknown(s.applied)) \in Nat /\ Cardinality(Unknown(db.applied)) \in Nat
    <3>1. IsFiniteSet(1..Len(log)) /\ DOMAIN log = 1..Len(log)
      BY <1>2, StoreNumbers, FS_Interval
    <3>2. Unknown(s.applied) \in SUBSET (1..Len(log)) /\ Unknown(db.applied) \in SUBSET (1..Len(log))
      BY <3>1 DEF Unknown
    <3> QED
      BY <3>1, <3>2, FS_Subset, FS_CardinalityType
  <2>5. faults * MaxLostCommits \in Nat /\ faults' * MaxLostCommits = faults * MaxLostCommits + MaxLostCommits
    BY <1>1, <1>3, Scaled
  <2>6. Cardinality(Unknown(db.applied)) <= faults * MaxLostCommits
    BY <1>2 DEF StoreOK
  <2> QED
    BY <1>3, <2>2, <2>3, <2>4, <2>5, <2>6
<1>6. Images' = {db'} /\ DOMAIN undone' = {}
  BY <1>1 DEF Images
<1>7. Follows(db)'
  <2>1. PICK s \in Images : db' = s
    BY <1>1
  <2>2. Follows(s)
    BY <1>2 DEF StoreOK
  <2>3. Follows(s)'
    BY <1>1, <2>2 DEF Follows, Increasing, Published
  <2> QED
    BY <2>1, <2>3 DEF Follows, Increasing, Published
<1>8. ASSUME NEW s \in Images' PROVE Follows(s)'
  <2>1. s = db'
    BY <1>6
  <2> QED
    BY <1>7, <2>1 DEF Follows, Increasing, Published
<1>9. OneRow' /\ Undoable' /\ LogOK'
  BY <1>1, <1>2, <1>6 DEF StoreOK, OneRow, Undoable, LogOK
<1>10. StoreOK'
  BY <1>5, <1>8, <1>9 DEF StoreOK
<1>11. CensusTypes' /\ CensusOK'
  BY <1>1, <1>2 DEF CensusTypes, CensusOK
<1>12. ProcTypes'
  BY ConstantsAssumption DEF PowerLoss, ProcTypes, Steps
<1>13. \A q \in Procs : Working(q)'
  BY <1>1, OutsideNext DEF Critical
<1> QED
  BY <1>4, <1>10, <1>11, <1>12, <1>13, PartsNext

(***************************************************************************)
(* The invariant.                                                          *)
(***************************************************************************)

\* The empty database and ledger.
LEMMA OInvInit ==
  ASSUME Init
  PROVE  OInv
<1>1. /\ db = [outbox |-> None, applied |-> <<>>] /\ undone = <<>> /\ log = <<>>
      /\ nextOp = 1 /\ faults = 0 /\ census.published = FALSE
      /\ pc = [p \in Procs |-> "idle"]
  BY DEF Init
<1>2. StoreTypes
  <2>1. db \in Database /\ undone \in Seq(Database) /\ Len(undone) = 0
        /\ log \in Seq([user : Walk \cup {None}, op : 1..MaxTicks])
    BY <1>1 DEF Database
  <2> QED
    BY <1>1, <2>1, ConstantsAssumption DEF StoreTypes
<1>3. CensusTypes /\ ProcTypes
  BY ConstantsAssumption DEF Init, CensusTypes, ProcTypes, Steps, Walk
<1>4. Unknown(db.applied) = {}
  BY <1>1 DEF Unknown
<1>5. Cardinality(Unknown(db.applied)) <= faults * MaxLostCommits
  <2>1. faults * MaxLostCommits = 0
    BY <1>1, ConstantsAssumption
  <2>2. Cardinality(Unknown(db.applied)) = 0
    BY <1>4, FS_EmptySet
  <2> QED
    BY <2>1, <2>2
<1>6. Images = {db} /\ Follows(db)
  BY <1>1 DEF Images, Follows, Increasing
<1>7. LogOK /\ OneRow /\ Undoable
  BY <1>1, <1>6 DEF LogOK, OneRow, Undoable
<1>8. StoreOK /\ CensusOK
  BY <1>1, <1>5, <1>6, <1>7 DEF StoreOK, CensusOK
<1>9. \A q \in Procs : Working(q)
  BY <1>1, Outside DEF Critical
<1> QED
  BY <1>2, <1>3, <1>8, <1>9, TypeParts DEF OInv

\* Steps of a failed cycle.
LEMMA FailingKept ==
  ASSUME MaxLostCommits <= 2, OInv, NEW p \in Procs,
         \/ DrainTimeout(p) \/ AckTimeout(p) \/ WalkTimeout(p) \/ CollectTimeout(p)
         \/ WalkBound(p) \/ RoomsFail(p) \/ FetchFails(p) \/ Interrupt(p)
  PROVE  OInv' /\ census' = census
<1>1. /\ Fail(p) /\ UNCHANGED <<db, undone, log, census, nextOp>>
      /\ faults' = faults \/ (faults < MaxFaults /\ faults' = faults + 1)
  BY DEF DrainTimeout, AckTimeout, WalkTimeout, CollectTimeout, LockTimeout, WalkBound,
         RoomsFail, FetchFails, Interrupt
<1> QED
  BY <1>1, FailKept

\* Every step keeps the invariant, and only a published walk is left behind.
LEMMA OInvNext ==
  ASSUME MaxLostCommits <= 2, OInv, [Next]_vars
  PROVE  /\ OInv'
         /\ census'.walk # census.walk => \E i \in DOMAIN log : log[i].user = census.walk
<1>1. CASE UNCHANGED vars
  <2>1. UNCHANGED <<db, undone, log, census, nextOp, faults>> /\ ProcTypes'
    BY <1>1, TypeParts DEF vars, OInv, ProcTypes
  <2>2. \A q \in Procs : Working(q)'
    BY <1>1 DEF vars, OInv, Working, Published
  <2> QED
    BY <2>1, <2>2, LocalKept
<1>2. CASE PowerLoss
  BY <1>2, PowerLossKept DEF PowerLoss
<1>3. ASSUME NEW p \in Procs, StartCycle(p) \/ Load(p) \/ AppendOnce(p) \/ DeleteRow(p)
                              \/ Begin(p) \/ CommitTick(p)
      PROVE  OInv' /\ census' = census
  <2>1. OInv'
    BY <1>3, StartCycleKept, LoadKept, AppendKept, DeleteRowKept, BeginKept, CommitTickKept
  <2>2. census' = census
    BY <1>3 DEF StartCycle, Load, AppendOnce, DeleteRow, Begin, CommitTick
  <2> QED
    BY <2>1, <2>2
<1>4. ASSUME NEW p \in Procs, Acknowledge(p)
      PROVE  OInv' /\ census'.walk = census.walk
  <2>1. census \in [walk : Walk, counted : SUBSET Shard, published : BOOLEAN]
    BY DEF OInv, TypeOK
  <2> QED
    BY <1>4, <2>1, AcknowledgeKept DEF Acknowledge
<1>5. CASE \E p \in Procs : StartCycle(p) \/ Step(p) \/ Interrupt(p)
  <2>1. PICK p \in Procs : StartCycle(p) \/ Step(p) \/ Interrupt(p)
    BY <1>5
  <2>2. CASE \/ DrainTimeout(p) \/ AckTimeout(p) \/ WalkTimeout(p) \/ CollectTimeout(p)
             \/ WalkBound(p) \/ RoomsFail(p) \/ FetchFails(p) \/ Interrupt(p)
    BY <2>2, FailingKept
  <2>3. CASE StartCycle(p) \/ Load(p) \/ AppendOnce(p) \/ DeleteRow(p) \/ Begin(p) \/ CommitTick(p)
    BY <1>3, <2>3
  <2>4. CASE ReadShard(p) \/ NextPass(p) \/ WalkEnd(p)
    BY <2>4, WalkKept
  <2>5. CASE WalkStart(p)
    BY <2>5, WalkStartKept
  <2>6. CASE Acknowledge(p)
    BY <1>4, <2>6
  <2> QED
    BY <2>1, <2>2, <2>3, <2>4, <2>5, <2>6 DEF Step
<1> QED
  BY <1>1, <1>2, <1>5 DEF Next

\* The ledger and the database, from the invariant.
LEMMA Matches ==
  ASSUME OInv
  PROVE  LedgerMatchesStore
<1>1. StoreTypes /\ StoreOK /\ CensusOK /\ Follows(db) /\ db \in Database
  BY TypeParts DEF OInv, StoreOK, Images, StoreTypes
<1>2. /\ DOMAIN db.applied = 1..Len(db.applied) /\ Len(db.applied) \in Nat
      /\ \A k \in 1..Len(db.applied) : db.applied[k] \in Nat
      /\ DOMAIN log = 1..Len(log) /\ Len(log) \in Nat /\ \A i \in 1..Len(log) : log[i].op \in Nat
  BY <1>1, Operations, StoreNumbers
<1>3. \A i, j \in DOMAIN log, k, l \in DOMAIN db.applied :
        i < j /\ log[i].op = db.applied[k] /\ log[j].op = db.applied[l] => k < l
  <2>1. TAKE i, j \in DOMAIN log, k, l \in DOMAIN db.applied
  <2>2. SUFFICES ASSUME i < j, log[i].op = db.applied[k], log[j].op = db.applied[l] PROVE k < l
    OBVIOUS
  <2>3. db.applied[k] < db.applied[l]
    BY <1>1, <2>2 DEF StoreOK, LogOK
  <2>4. l < k => db.applied[l] < db.applied[k]
    BY <1>1 DEF Follows, Increasing
  <2>5. k \in Nat /\ l \in Nat /\ db.applied[k] \in Nat /\ db.applied[l] \in Nat
    BY <1>2
  <2> QED
    BY <2>3, <2>4, <2>5
<1> QED
  BY <1>1, <1>3 DEF LedgerMatchesStore, StoreOK, Follows, CensusOK

(***************************************************************************)
(* The theorems, for a power loss that undoes at most two commits          *)
(* (DEPLOY.md names one).                                                  *)
(***************************************************************************)

\* The collector processes, the database, its lost commits and the ledger stay
\* consistent: the inductive invariant.
THEOREM Outbox == MaxLostCommits <= 2 /\ Spec => []OInv
<1>1. MaxLostCommits <= 2 /\ Init => OInv
  BY OInvInit
<1>2. MaxLostCommits <= 2 /\ OInv /\ [Next]_vars => OInv'
  BY OInvNext
<1>3. MaxLostCommits <= 2 => [](MaxLostCommits <= 2)
  OBVIOUS
<1> QED
  BY <1>1, <1>2, <1>3, PTL DEF Spec

\* Types: what every variable of the collector processes may hold.
THEOREM OutboxTypes == MaxLostCommits <= 2 /\ Spec => []TypeOK
<1>1. OInv => TypeOK
  BY DEF OInv
<1> QED
  BY <1>1, Outbox, PTL

\* The ledger holds exactly the committed collections, each once and in commit
\* order, but for the last while its row waits; only undone commits leave ticks
\* that the store does not know; a published walk has its total in the ledger.
THEOREM OnceInOrder == MaxLostCommits <= 2 /\ Spec => []LedgerMatchesStore
<1>1. OInv => LedgerMatchesStore
  BY Matches
<1> QED
  BY <1>1, Outbox, PTL

\* run_census leaves no walk behind whose total no tick has published.
THEOREM WalksPublished == MaxLostCommits <= 2 /\ Spec => NoWalkDiscarded
<1>1. MaxLostCommits <= 2 /\ OInv /\ [Next]_vars =>
        [census'.walk # census.walk => \E i \in DOMAIN log : log[i].user = census.walk]_census
  BY OInvNext
<1>2. MaxLostCommits <= 2 => [](MaxLostCommits <= 2)
  OBVIOUS
<1> QED
  BY <1>1, <1>2, Outbox, PTL DEF Spec, NoWalkDiscarded
=============================================================================
