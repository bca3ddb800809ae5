--------------------------- MODULE TelemetryProofs ---------------------------
(***************************************************************************)
(* Theorems about the telemetry store and its writers, for any collectors  *)
(* and probes, routes, deadlines, retention and sizes of the file.         *)
(***************************************************************************)
EXTENDS TelemetryWriters, FunctionTheorems, FiniteSetTheorems, TLAPS

USE DEF Starting, Queries

-----------------------------------------------------------------------------
(* Ids: ranks, the largest one, the next one.                              *)

\* The ranks of the ids of a set go up with the ids.
LEMMA RankGrows ==
  ASSUME NEW S, S \subseteq Nat, IsFiniteSet(S), NEW i \in S
  PROVE  /\ Rank(S, i) \in 1..Cardinality(S)
         /\ \A j \in S : j < i => Rank(S, j) < Rank(S, i)
<1> DEFINE Below(j) == {x \in S : x <= j}
<1>1. \A j \in S : /\ Below(j) \in SUBSET S /\ IsFiniteSet(Below(j))
                   /\ Cardinality(Below(j)) \in Nat /\ Cardinality(Below(j)) <= Cardinality(S)
                   /\ Cardinality(Below(j)) # 0
  <2>1. SUFFICES ASSUME NEW j \in S
                 PROVE  /\ Below(j) \in SUBSET S /\ IsFiniteSet(Below(j))
                        /\ Cardinality(Below(j)) \in Nat
                        /\ Cardinality(Below(j)) <= Cardinality(S)
                        /\ Cardinality(Below(j)) # 0
    OBVIOUS
  <2>2. Below(j) \in SUBSET S /\ j \in Below(j) OBVIOUS
  <2> QED BY <2>2, FS_Subset, FS_CardinalityType, FS_EmptySet
<1>2. ASSUME NEW j \in S, j < i PROVE Cardinality(Below(j)) < Cardinality(Below(i))
  <2>0. i \in Nat /\ j \in Nat /\ \A x \in S : x \in Nat OBVIOUS
  <2>1. Below(j) \in SUBSET Below(i)
    <3>1. \A x \in S : x <= j => x <= i BY <1>2, <2>0
    <3> QED BY <3>1
  <2>2. Below(j) # Below(i)
    <3>1. i \in Below(i) /\ i \notin Below(j) BY <1>2
    <3> QED BY <3>1
  <2>3. Cardinality(Below(j)) <= Cardinality(Below(i)) /\ Cardinality(Below(j)) # Cardinality(Below(i))
    BY <1>1, <2>1, <2>2, FS_Subset
  <2> QED BY <1>1, <2>3
<1>3. Cardinality(S) \in Nat BY FS_CardinalityType
<1> QED BY <1>1, <1>2, <1>3 DEF Rank

\* Every rank up to the number of ids is the rank of an id.
LEMMA RankOnto ==
  ASSUME NEW S, S \subseteq Nat, IsFiniteSet(S), NEW k \in 1..Cardinality(S)
  PROVE  \E i \in S : Rank(S, i) = k
<1> DEFINE n == Cardinality(S)
           f == [i \in S |-> Rank(S, i)]
<1>1. n \in Nat BY FS_CardinalityType
<1>2. \A i \in S : Rank(S, i) \in 1..n /\ \A j \in S : j < i => Rank(S, j) < Rank(S, i)
  BY RankGrows
<1>3. f \in Injection(S, 1..n)
  <2>1. f \in [S -> 1..n] BY <1>2
  <2>2. ASSUME NEW a \in S, NEW b \in S, f[a] = f[b] PROVE a = b
    <3>1. Rank(S, a) = Rank(S, b) /\ Rank(S, a) \in Nat BY <2>2, <1>2
    <3>2. ~(a < b) /\ ~(b < a) BY <3>1, <1>2
    <3> QED BY <3>2
  <2> QED BY <2>1, <2>2, Fun_IsInj
<1>4. IsFiniteSet(1..n) /\ Cardinality(1..n) = n BY <1>1, FS_Interval
<1>5. f \in Surjection(S, 1..n) BY <1>3, <1>4, FS_Injection
<1>6. k \in 1..n OBVIOUS
<1>7. \E i \in S : f[i] = k
  <2>1. \A t \in 1..n : \E i \in S : f[i] = t
    <3> HIDE DEF f, n
    <3> QED BY <1>5, Fun_SurjectionProperties
  <2> QED BY <1>6, <2>1
<1> QED BY <1>7

\* A nonempty finite set of ids has a largest one.
LEMMA MaxIs ==
  ASSUME NEW S, S \subseteq Nat, IsFiniteSet(S), S # {}
  PROVE  Max(S) \in S /\ \A j \in S : j <= Max(S)
<1>1. Cardinality(S) \in Nat /\ Cardinality(S) # 0 BY FS_CardinalityType, FS_EmptySet
<1>2. PICK i \in S : Rank(S, i) = Cardinality(S)
  <2>1. Cardinality(S) \in 1..Cardinality(S) BY <1>1
  <2> QED BY <2>1, RankOnto
<1>3. \A j \in S : j <= i
  <2>1. {j \in S : j <= i} \in SUBSET S OBVIOUS
  <2>2. S = {j \in S : j <= i} BY <1>2, <2>1, FS_Subset DEF Rank
  <2> QED BY <2>2
<1>4. \E m \in S : \A j \in S : m >= j BY <1>3
<1> QED BY <1>4 DEF Max

\* A nonempty finite set of ids has a smallest one.
LEMMA MinIs ==
  ASSUME NEW S, S \subseteq Nat, IsFiniteSet(S), S # {}
  PROVE  \E m \in S : \A j \in S : m <= j
<1>1. Cardinality(S) \in Nat /\ Cardinality(S) # 0 BY FS_CardinalityType, FS_EmptySet
<1>2. 1 \in 1..Cardinality(S) BY <1>1
<1>3. PICK m \in S : Rank(S, m) = 1 BY <1>2, RankOnto
<1>4. ASSUME NEW j \in S, j < m PROVE FALSE
  <2>1. Rank(S, j) < 1 /\ Rank(S, j) \in 1..Cardinality(S) BY <1>3, <1>4, RankGrows
  <2> QED BY <1>1, <2>1
<1> QED BY <1>4

\* The id of the next row is larger than all.
LEMMA NextIs ==
  ASSUME NEW table, Ids(table)
  PROVE  NextId(table) \in Nat /\ \A i \in DOMAIN table : i < NextId(table)
<1>1. DOMAIN table \cup {0} \subseteq Nat /\ IsFiniteSet(DOMAIN table \cup {0})
  BY FS_AddElement DEF Ids
<1> QED BY <1>1, MaxIs DEF NextId

\* A new row.
LEMMA Inserted ==
  ASSUME NEW table, Ids(table), NEW row, NEW new, new = Insert(table, row)
  PROVE  /\ Ids(new) /\ DOMAIN new = DOMAIN table \cup {NextId(table)}
         /\ NextId(table) \notin DOMAIN table
         /\ new[NextId(table)] = row
         /\ \A i \in DOMAIN table : new[i] = table[i]
<1> DEFINE n == NextId(table)
<1>1. n \in Nat /\ n \notin DOMAIN table BY NextIs
<1>2. DOMAIN table \cup {n} \subseteq Nat /\ IsFiniteSet(DOMAIN table \cup {n})
  BY <1>1, FS_AddElement DEF Ids
<1> HIDE DEF n
<1>3. new = [i \in DOMAIN table \cup {n} |-> IF i \in DOMAIN table THEN table[i] ELSE row]
  BY DEF Insert, n
<1> QED BY <1>1, <1>2, <1>3 DEF Ids, n

\* Rows that go.
LEMMA Deleted ==
  ASSUME NEW table, Ids(table), NEW ids, NEW new, new = Delete(table, ids)
  PROVE  /\ Ids(new) /\ DOMAIN new = DOMAIN table \ ids
         /\ \A i \in DOMAIN new : i \in DOMAIN table /\ new[i] = table[i]
<1>1. DOMAIN table \ ids \in SUBSET DOMAIN table OBVIOUS
<1>2. IsFiniteSet(DOMAIN table \ ids) BY <1>1, FS_Subset DEF Ids
<1> QED BY <1>1, <1>2 DEF Ids, Delete, Restrict

-----------------------------------------------------------------------------
(* The tables.                                                             *)

\* What a prune deletes of each table.
LEMMA Batches ==
  ASSUME NEW cycs, NEW atts, NEW snaps, NEW pressed, NEW t
  PROVE  /\ DuplicateBatch(snaps) \subseteq Duplicates(snaps)
         /\ AttemptBatch(atts, snaps, pressed, t) \subseteq DOMAIN atts \ Sampled(snaps)
         /\ CycleBatch(cycs, atts, t) \subseteq Childless(cycs, atts, t)
<1>1. DuplicateBatch(snaps) \subseteq Duplicates(snaps) BY DEF DuplicateBatch, Batch
<1>2. AttemptBatch(atts, snaps, pressed, t) \subseteq Expired(atts, snaps, pressed, t)
  BY DEF AttemptBatch, Batch
<1>3. CycleBatch(cycs, atts, t) \subseteq Childless(cycs, atts, t) BY DEF CycleBatch, Batch
<1>4. Expired(atts, snaps, pressed, t) \subseteq DOMAIN atts \ Sampled(snaps) BY DEF Expired
<1> QED BY <1>1, <1>2, <1>3, <1>4

\* The types of the rows.
Rows ==
  /\ \A i \in DOMAIN cycles : cycles[i] \in Cycle
  /\ \A i \in DOMAIN attempts : attempts[i] \in Attempt /\ attempts[i].cycle \in DOMAIN cycles
  /\ \A i \in DOMAIN snapshots : snapshots[i] \in Snapshot /\ snapshots[i].attempt \in DOMAIN attempts

\* The tables after a step: well-formed rows under ids, cycles in their time.
TablesOK ==
  /\ Rows /\ Ids(cycles) /\ Ids(attempts) /\ Ids(snapshots)
  /\ Dated(cycles, now) /\ NewestFresh(cycles, now)

\* A childless cycle is old.
LEMMA ChildlessOld ==
  ASSUME NEW t \in Nat, Ids(cycles), \A i \in DOMAIN cycles : cycles[i] \in Cycle,
         Dated(cycles, now), NEW atts, NEW c \in Childless(cycles, atts, t)
  PROVE  c \in DOMAIN cycles /\ OldBy(c, t) /\ \A a \in DOMAIN atts : atts[a].cycle # c
<1>1. c \in DOMAIN cycles /\ \A a \in DOMAIN atts : atts[a].cycle # c BY DEF Childless
<1>2. (IF cycles[c].finished = None THEN cycles[c].started ELSE cycles[c].finished) + Retention < t
  BY DEF Childless
<1>3. cycles[c].started \in Nat /\ cycles[c].finished \in Nat \cup {None} BY <1>1 DEF Cycle
<1>4. cycles[c].finished # None => cycles[c].started <= cycles[c].finished BY <1>1 DEF Dated
<1>5. Retention \in Nat BY TelemetryAssumption
<1>6. cycles[c].started + Retention < t
  <2>1. CASE cycles[c].finished = None BY <2>1, <1>2
  <2>2. CASE cycles[c].finished # None
    <3> DEFINE f == cycles[c].finished
               b == cycles[c].started
    <3>1. f \in Nat /\ b \in Nat /\ b <= f /\ f + Retention < t BY <2>2, <1>2, <1>3, <1>4
    <3> HIDE DEF f, b
    <3>2. b + Retention < t BY <3>1, <1>5
    <3> QED BY <3>2 DEF b
  <2> QED BY <2>1, <2>2
<1> QED BY <1>1, <1>6 DEF OldBy

\* An old cycle is not the newest.
LEMMA NewestStays ==
  ASSUME Ids(cycles), \A i \in DOMAIN cycles : cycles[i] \in Cycle, now \in Nat,
         NewestFresh(cycles, now), NEW t \in Nat, t <= now,
         NEW c \in DOMAIN cycles, OldBy(c, t)
  PROVE  \E d \in DOMAIN cycles :
           c < d /\ (\A j \in DOMAIN cycles : j <= d) /\ now <= cycles[d].started + Retention
<1>1. PICK d \in DOMAIN cycles :
        (\A j \in DOMAIN cycles : j <= d) /\ now <= cycles[d].started + Retention
  BY DEF NewestFresh
<1>2. Retention \in Nat /\ cycles[c].started \in Nat /\ cycles[d].started \in Nat
  BY TelemetryAssumption DEF Cycle
<1>3. cycles[c].started + Retention < now BY <1>2 DEF OldBy
<1>4. c # d BY <1>1, <1>2, <1>3
<1>5. c <= d /\ c \in Nat /\ d \in Nat BY <1>1 DEF Ids
<1> QED BY <1>1, <1>4, <1>5

\* The transaction of a prune: what is left is as it was and refers to what is
\* left, and the cycles that go are old.
LEMMA Pruned ==
  ASSUME TablesOK, now \in Nat, now' = now, NEW w \in Writers, st[w].sel \in Selections,
         st[w].at \in Nat, st[w].at <= now, Chosen(w),
         ~Restricted(st[w].sel), Prune(st[w].sel, st[w].at)
  PROVE  /\ TablesOK'
         /\ DOMAIN cycles' \subseteq DOMAIN cycles
         /\ \A c \in DOMAIN cycles' : cycles'[c] = cycles[c]
         /\ \A c \in DOMAIN cycles : c \notin DOMAIN cycles' => OldBy(c, st[w].at)
         /\ \A d \in DOMAIN cycles : \E e \in DOMAIN cycles' : d <= e
<1> DEFINE sel == st[w].sel
           t == st[w].at
<1>1. \E sn, an, cn : /\ snapshots' = Delete(snapshots, sn) \/ snapshots' = snapshots
                      /\ attempts' = Delete(attempts, an) \/ attempts' = attempts
                      /\ cycles' = Delete(cycles, cn)
  BY DEF Prune, Selections
<1>2. /\ Ids(snapshots') /\ Ids(attempts') /\ Ids(cycles')
      /\ DOMAIN snapshots' \subseteq DOMAIN snapshots
      /\ \A i \in DOMAIN snapshots' : snapshots'[i] = snapshots[i]
      /\ DOMAIN attempts' \subseteq DOMAIN attempts
      /\ \A i \in DOMAIN attempts' : attempts'[i] = attempts[i]
      /\ DOMAIN cycles' \subseteq DOMAIN cycles
      /\ \A i \in DOMAIN cycles' : cycles'[i] = cycles[i]
  <2>1. PICK sn, an, cn : /\ snapshots' = Delete(snapshots, sn) \/ snapshots' = snapshots
                          /\ attempts' = Delete(attempts, an) \/ attempts' = attempts
                          /\ cycles' = Delete(cycles, cn)
    BY <1>1
  <2>5. Ids(cycles) /\ Ids(attempts) /\ Ids(snapshots) BY DEF TablesOK
  <2>2. /\ Ids(snapshots')
        /\ DOMAIN snapshots' \subseteq DOMAIN snapshots
        /\ \A i \in DOMAIN snapshots' : snapshots'[i] = snapshots[i]
    <3>1. CASE snapshots' = snapshots BY <3>1, <2>5
    <3>2. CASE snapshots' = Delete(snapshots, sn) BY <3>2, <2>5, Deleted
    <3> QED BY <2>1, <3>1, <3>2
  <2>3. /\ Ids(attempts')
        /\ DOMAIN attempts' \subseteq DOMAIN attempts
        /\ \A i \in DOMAIN attempts' : attempts'[i] = attempts[i]
    <3>1. CASE attempts' = attempts BY <3>1, <2>5
    <3>2. CASE attempts' = Delete(attempts, an) BY <3>2, <2>5, Deleted
    <3> QED BY <2>1, <3>1, <3>2
  <2>4. /\ Ids(cycles')
        /\ DOMAIN cycles' \subseteq DOMAIN cycles
        /\ \A i \in DOMAIN cycles' : cycles'[i] = cycles[i]
    BY <2>1, <2>5, Deleted
  <2> QED BY <2>2, <2>3, <2>4
<1>3. \A i \in DOMAIN snapshots' : snapshots'[i].attempt \in DOMAIN attempts'
  <2>1. SUFFICES ASSUME NEW i \in DOMAIN snapshots' PROVE snapshots'[i].attempt \in DOMAIN attempts'
    OBVIOUS
  <2>2. snapshots'[i].attempt \in DOMAIN attempts /\ i \in DOMAIN snapshots
        /\ snapshots'[i] = snapshots[i]
    BY <1>2 DEF TablesOK, Rows
  <2>3. CASE sel.of = "snapshots"
    <3> DEFINE pressed == UnderPressure(attempts, snapshots')
    <3>1. attempts' = Delete(attempts, AttemptBatch(attempts, snapshots', pressed, t))
      BY <2>3 DEF Prune
    <3>2. snapshots'[i].attempt \notin AttemptBatch(attempts, snapshots', pressed, t)
      <4>1. snapshots'[i].attempt \in Sampled(snapshots') BY DEF Sampled
      <4> HIDE DEF t, pressed
      <4> QED BY <4>1, Batches
    <3> QED BY <3>1, <3>2, <2>2 DEF Delete, Restrict
  <2>4. CASE sel.of = "attempts"
    <3>1. attempts' = Delete(attempts, sel.ids) BY <2>4 DEF Prune
    <3>3. snapshots[i].attempt \notin sel.ids BY <2>2, <2>4 DEF Restricted
    <3> QED BY <3>1, <3>3, <2>2 DEF Delete, Restrict
  <2>5. CASE sel.of = "cycles"
    <3>1. attempts' = attempts BY <2>5 DEF Prune
    <3> QED BY <3>1, <2>2
  <2> QED BY <2>3, <2>4, <2>5 DEF Selections
<1>4. \A c \in DOMAIN cycles : c \notin DOMAIN cycles' =>
        OldBy(c, t) /\ \A a \in DOMAIN attempts' : attempts'[a].cycle # c
  <2>1. SUFFICES ASSUME NEW c \in DOMAIN cycles, c \notin DOMAIN cycles'
                 PROVE  OldBy(c, t) /\ \A a \in DOMAIN attempts' : attempts'[a].cycle # c
    OBVIOUS
  <2>2. CASE sel.of = "cycles"
    <3>1. cycles' = Delete(cycles, sel.ids) /\ attempts' = attempts BY <2>2 DEF Prune
    <3>2. c \in sel.ids BY <3>1, <2>1 DEF Delete, Restrict
    <3>3. OldBy(c, t) BY <2>2, <3>2 DEF Chosen
    <3>4. \A a \in DOMAIN attempts : attempts[a].cycle # c BY <2>2, <3>2 DEF Restricted
    <3> QED BY <3>1, <3>3, <3>4
  <2>3. CASE sel.of # "cycles"
    <3>1. cycles' = Delete(cycles, CycleBatch(cycles, attempts', t)) BY <2>3 DEF Prune
    <3>2. c \in CycleBatch(cycles, attempts', t) BY <3>1, <2>1 DEF Delete, Restrict
    <3>3. c \in Childless(cycles, attempts', t)
      <4> HIDE DEF t
      <4> QED BY <3>2, Batches
    <3>4. t \in Nat OBVIOUS
    <3>5. Ids(cycles) /\ Dated(cycles, now) /\ \A i \in DOMAIN cycles : cycles[i] \in Cycle
      BY DEF TablesOK, Rows
    <3> HIDE DEF t
    <3> QED BY <3>3, <3>4, <3>5, ChildlessOld
  <2> QED BY <2>2, <2>3
<1>5. Rows'
  <2>1. \A i \in DOMAIN attempts' : attempts'[i].cycle \in DOMAIN cycles'
    BY <1>2, <1>4 DEF TablesOK, Rows
  <2> QED BY <1>2, <1>3, <2>1 DEF TablesOK, Rows
<1>6. Dated(cycles, now)' BY <1>2 DEF TablesOK, Dated
<1>7. ASSUME NEW c \in DOMAIN cycles, c \notin DOMAIN cycles'
      PROVE  \E d \in DOMAIN cycles' :
               c < d /\ (\A j \in DOMAIN cycles : j <= d) /\ now <= cycles[d].started + Retention
  <2>1. OldBy(c, t) BY <1>4, <1>7
  <2>2. PICK d \in DOMAIN cycles :
          c < d /\ (\A j \in DOMAIN cycles : j <= d) /\ now <= cycles[d].started + Retention
    BY <2>1, NewestStays DEF TablesOK, Rows
  <2>3. ~OldBy(d, t)
    <3>1. cycles[d].started \in Nat /\ Retention \in Nat
      BY TelemetryAssumption DEF TablesOK, Rows, Cycle
    <3> QED BY <3>1, <2>2 DEF OldBy
  <2>4. d \in DOMAIN cycles' BY <1>4, <2>3
  <2> QED BY <2>2, <2>4
<1>8. NewestFresh(cycles, now)'
  <2>1. SUFFICES ASSUME DOMAIN cycles' # {}
                 PROVE  \E i \in DOMAIN cycles' : /\ \A j \in DOMAIN cycles' : j <= i
                                                  /\ now <= cycles'[i].started + Retention
    BY DEF NewestFresh
  <2>2. CASE DOMAIN cycles' = DOMAIN cycles
    <3>1. \E i \in DOMAIN cycles : /\ \A j \in DOMAIN cycles : j <= i
                                   /\ now <= cycles[i].started + Retention
      BY <2>1, <2>2 DEF TablesOK, NewestFresh
    <3> QED BY <3>1, <2>2, <1>2
  <2>3. CASE DOMAIN cycles' # DOMAIN cycles
    <3>1. PICK c \in DOMAIN cycles : c \notin DOMAIN cycles' BY <2>3, <1>2
    <3>2. PICK d \in DOMAIN cycles' :
            (\A j \in DOMAIN cycles : j <= d) /\ now <= cycles[d].started + Retention
      BY <1>7, <3>1
    <3> QED BY <3>2, <1>2
  <2> QED BY <2>2, <2>3
<1>9. \A d \in DOMAIN cycles : \E e \in DOMAIN cycles' : d <= e
  <2>1. SUFFICES ASSUME NEW d \in DOMAIN cycles PROVE \E e \in DOMAIN cycles' : d <= e
    OBVIOUS
  <2>2. d \in Nat BY DEF TablesOK, Ids
  <2>3. CASE d \in DOMAIN cycles' BY <2>2, <2>3
  <2>4. CASE d \notin DOMAIN cycles'
    <3>1. PICK e \in DOMAIN cycles' : d < e BY <1>7, <2>4
    <3>2. e \in Nat BY <3>1, <1>2 DEF TablesOK, Ids
    <3> QED BY <2>2, <3>1, <3>2
  <2> QED BY <2>3, <2>4
<1>10. TablesOK' BY <1>2, <1>5, <1>6, <1>8 DEF TablesOK
<1> QED BY <1>2, <1>4, <1>9, <1>10

-----------------------------------------------------------------------------
(* The processes.                                                          *)

\* What a process may come to, when it does not begin or end a cycle.
Comes(w, new) ==
  /\ new \in Writer
  /\ new.cyc = None <=> new.pc \in Starting
  /\ new.pc # "idle" => new.at <= now /\ now <= new.at + Retention
  /\ new.cyc # None => new.cyc = st[w].cyc /\ new.at = st[w].at
  /\ new.cyc # None /\ new.cyc \in unrecorded' => ~new.client
  /\ new.pc = "delete" /\ new.sel.of = "cycles" =>
       \A c \in new.sel.ids : (\E d \in DOMAIN cycles : c < d) /\ (c \in DOMAIN cycles => OldBy(c, new.at))
  /\ new.pc = "snap" => new.route \in Discovery /\ new.digest \in Digests

\* A step of a process within its cycle, or from one cycle to the next.
LEMMA Local ==
  ASSUME WInv, TypeOK', Ids(attempts'), Ids(snapshots'), NEW w \in Writers, NEW new,
         Comes(w, new), st' = [st EXCEPT ![w] = new], now' = now, cycles' = cycles,
         unrecorded' \subseteq unrecorded \cup {st[w].cyc}, unrecorded \subseteq unrecorded'
  PROVE  WInv'
<1>1. /\ st \in [Writers -> Writer] /\ st'[w] = new
      /\ \A v \in Writers : v # w => st'[v] = st[v]
  BY DEF WInv, TypeOK
<1>2. \A v \in Writers : Step(v) BY DEF WInv
<1>3. Step(w)'
  <2>1. new.cyc # None => Owns(w)'
    <3>1. SUFFICES ASSUME new.cyc # None PROVE Owns(w)' OBVIOUS
    <3>2. new.cyc = st[w].cyc /\ new.at = st[w].at /\ (new.cyc \in unrecorded' => ~new.client)
      BY <3>1 DEF Comes
    <3>3. Owns(w) BY <1>2, <3>1, <3>2 DEF Step
    <3> QED BY <1>1, <3>2, <3>3 DEF Owns, Source
  <2>2. new.pc = "delete" => Chosen(w)' BY <1>1 DEF Comes, Chosen, OldBy
  <2> QED BY <1>1, <2>1, <2>2 DEF Step, Comes
<1>4. ASSUME NEW v \in Writers, v # w PROVE Step(v)'
  <2>1. Step(v) /\ st'[v] = st[v] BY <1>1, <1>2, <1>4
  <2>2. st[v].cyc # None => Owns(v)'
    <3>1. SUFFICES ASSUME st[v].cyc # None PROVE Owns(v)' OBVIOUS
    <3>2. Owns(v) BY <2>1, <3>1 DEF Step
    <3>3. \A u \in Writers : u # v => st'[u].cyc # st'[v].cyc
      <4>1. SUFFICES ASSUME NEW u \in Writers, u # v PROVE st'[u].cyc # st[v].cyc BY <2>1
      <4>2. st[u].cyc # st[v].cyc BY <3>2, <4>1 DEF Owns
      <4>3. CASE u = w
        <5>1. new.cyc = None \/ new.cyc = st[w].cyc BY DEF Comes
        <5> QED BY <1>1, <3>1, <4>2, <4>3, <5>1
      <4>4. CASE u # w BY <1>1, <4>2, <4>4
      <4> QED BY <4>3, <4>4
    <3>4. st[v].cyc \in unrecorded' => st[v].cyc \in unrecorded
      <4>1. st[w].cyc # st[v].cyc BY <3>2, <1>4 DEF Owns
      <4> QED BY <4>1
    <3> QED BY <2>1, <3>2, <3>3, <3>4 DEF Owns, Source
  <2>3. st[v].pc = "delete" => Chosen(v)' BY <2>1 DEF Step, Chosen, OldBy
  <2> QED BY <2>1, <2>2, <2>3 DEF Step
<1>5. SuccessIsComplete'
  <2>1. SUFFICES ASSUME NEW c \in DOMAIN cycles, c \in unrecorded',
                        cycles[c].source = "collector"
                 PROVE  cycles[c].outcome # "success"
    BY DEF SuccessIsComplete
  <2>2. CASE c \in unrecorded BY <2>1, <2>2 DEF WInv, SuccessIsComplete
  <2>3. CASE c \notin unrecorded
    <3>1. c = st[w].cyc BY <2>1, <2>3
    <3>2. c # None BY WritersAssumption DEF WInv, Ids
    <3>3. Owns(w) BY <1>2, <3>1, <3>2 DEF Step
    <3> QED BY <3>1, <3>3 DEF Owns
  <2> QED BY <2>2, <2>3
<1>7. Dated(cycles, now)' /\ NewestFresh(cycles, now)' /\ Ids(cycles)'
  BY DEF WInv, Dated, NewestFresh, Ids
<1>8. \A v \in Writers : Step(v)' BY <1>3, <1>4
<1>9. (\A v \in Writers : Step(v))' BY <1>8
<1> QED BY <1>5, <1>7, <1>9 DEF WInv

\* A process that has ended, with its store open or not.
LEMMA FreshIs == Fresh \in Writer
<1>1. NoSelection \in Selections BY DEF NoSelection, Selections
<1>2. Health \in Routes BY DEF Routes
<1>3. "idle" \in Steps BY DEF Steps
<1>4. 0 \in 0..MaxRetries BY WritersAssumption
<1>5. <<>> \in Seq(Routes) OBVIOUS
<1> QED BY <1>1, <1>2, <1>3, <1>4, <1>5 DEF Fresh, Writer

\* The next process may begin.
LEMMA FreshComes ==
  ASSUME NEW w \in Writers, NEW b \in BOOLEAN
  PROVE  /\ Comes(w, Fresh) /\ Comes(w, [Fresh EXCEPT !.store = b])
         /\ Fresh \in Writer /\ [Fresh EXCEPT !.store = b] \in Writer
<1>6. Fresh \in Writer BY FreshIs
<1>7. [Fresh EXCEPT !.store = b] \in Writer BY <1>6 DEF Writer
<1>8. Fresh.pc = "idle" /\ Fresh.cyc = None BY DEF Fresh
<1>9. [Fresh EXCEPT !.store = b].pc = "idle" /\ [Fresh EXCEPT !.store = b].cyc = None BY DEF Fresh
<1> QED BY <1>6, <1>7, <1>8, <1>9 DEF Comes

\* A process that goes on with its cycle.
LEMMA Inside ==
  ASSUME WInv, NEW w \in Writers, st[w].cyc # None, NEW s \in Writer,
         s.cyc = st[w].cyc, s.at = st[w].at, s.pc \notin Starting,
         s.cyc \in unrecorded' => ~s.client,
         s.pc = "snap" => s.route \in Discovery /\ s.digest \in Digests
  PROVE  Comes(w, s)
<1>1. Step(w) BY DEF WInv
<1>2. st[w].at <= now /\ now <= st[w].at + Retention BY <1>1 DEF Step
<1> QED BY <1>2 DEF Comes

\* The end of a request.
LEMMA DoneIs ==
  ASSUME NEW s \in Writer
  PROVE  /\ Done(s) \in Writer /\ Done(s).pc = "go" /\ Done(s).cyc = s.cyc
         /\ Done(s).at = s.at /\ Done(s).client = s.client /\ Done(s).sel = s.sel
         /\ Done(s).todo = s.todo /\ Done(s).route = Health
<1>1. "go" \in Steps /\ Health \in Routes /\ 0 \in 0..MaxRetries
  BY WritersAssumption DEF Steps, Routes
<1>2. Done(s) \in Writer BY <1>1 DEF Done, Writer
<1> QED BY <1>2 DEF Done, Writer

\* What a process with a request is, whose record is as the Client knows.
Asking(w, s) ==
  /\ s \in Writer /\ s.cyc = st[w].cyc /\ s.cyc # None /\ s.at = st[w].at
  /\ s.cyc \in unrecorded' => ~s.client

\* After a request that failed, a process goes on or ends its cycle.
LEMMA GoesOnComes ==
  ASSUME WInv, NEW w \in Writers, NEW s, Asking(w, s), GoesOn(w, s)
  PROVE  \E new : st' = [st EXCEPT ![w] = new] /\ Comes(w, new)
<1> DEFINE d == Done(s)
<1>1. /\ d \in Writer /\ d.pc = "go" /\ d.cyc = s.cyc /\ d.at = s.at /\ d.client = s.client
  BY DoneIs DEF Asking
<1>2. \/ To(w, [d EXCEPT !.failed = TRUE]) \/ To(w, d)
      \/ To(w, [d EXCEPT !.todo = <<>>, !.failed = TRUE])
  BY DEF GoesOn
<1> HIDE DEF d
<1>3. /\ [d EXCEPT !.failed = TRUE] \in Writer
      /\ [d EXCEPT !.todo = <<>>, !.failed = TRUE] \in Writer
  <2>1. <<>> \in Seq(Routes) OBVIOUS
  <2> QED BY <1>1, <2>1 DEF Writer
<1>4. \A e \in {d, [d EXCEPT !.failed = TRUE], [d EXCEPT !.todo = <<>>, !.failed = TRUE]} :
        e \in Writer /\ e.pc = "go" /\ e.cyc = s.cyc /\ e.at = s.at /\ e.client = s.client
  BY <1>1, <1>3 DEF Writer
<1>5. \A e \in {d, [d EXCEPT !.failed = TRUE], [d EXCEPT !.todo = <<>>, !.failed = TRUE]} :
        Comes(w, e)
  BY <1>4, Inside DEF Asking
<1> QED BY <1>2, <1>5 DEF To

\* A probe marks an invalid answer before it goes on.
LEMMA RaisedComes ==
  ASSUME WInv, NEW w \in Writers, NEW s, Asking(w, s), NEW o, Raised(w, s, o)
  PROVE  \E new : st' = [st EXCEPT ![w] = new] /\ Comes(w, new)
<1>1. CASE GoesOn(w, s) BY <1>1, GoesOnComes
<1>2. CASE To(w, [s EXCEPT !.pc = "mark"])
  <2> DEFINE m == [s EXCEPT !.pc = "mark"]
  <2>1. "mark" \in Steps BY DEF Steps
  <2>2. m \in Writer BY <2>1 DEF Writer, Asking
  <2>3. m.pc = "mark" /\ m.cyc = s.cyc /\ m.at = s.at /\ m.client = s.client
    BY DEF Writer, Asking
  <2> HIDE DEF m
  <2>4. Comes(w, m) BY <2>2, <2>3, Inside DEF Asking
  <2> QED BY <1>2, <2>4 DEF To, m
<1> QED BY <1>1, <1>2 DEF Raised

\* The smaller of two numbers.
LEMMA MinOfTwo ==
  ASSUME NEW a \in Nat, NEW b \in Nat
  PROVE  Min({a, b}) \in Nat /\ Min({a, b}) <= b
<1>1. \E x \in {a, b} : \A y \in {a, b} : x =< y
  <2>1. CASE a <= b BY <2>1
  <2>2. CASE b <= a BY <2>2
  <2> QED BY <2>1, <2>2
<1>2. Min({a, b}) \in {a, b} /\ \A y \in {a, b} : Min({a, b}) =< y BY <1>1 DEF Min
<1> QED BY <1>2

\* What follows from an answer.
LEMMA DecidedComes ==
  ASSUME WInv, NEW w \in Writers, NEW s, Asking(w, s), s.pc = "get",
         NEW answer \in Answers, NEW delay \in Nat, NEW spent \in Nat,
         s.left # None => spent <= s.left, Decided(w, s, answer, spent, delay)
  PROVE  \E new : st' = [st EXCEPT ![w] = new] /\ Comes(w, new)
<1> DEFINE left == IF s.left = None THEN None ELSE s.left - spent
           parse == [s EXCEPT !.pc = "parse", !.try = 0, !.left = None]
           after == IF left = None THEN None ELSE left - delay
           again == [s EXCEPT !.try = @ + 1, !.left = after]
<1>1. s \in Writer /\ s.left \in Nat \cup {None} /\ s.try \in 0..MaxRetries
  BY DEF Asking, Writer
<1>2. left \in Nat \cup {None} /\ (s.left # None => left \in Nat)
  BY <1>1, WritersAssumption
<1>3. CASE answer.outcome = "success"
  <2>1. To(w, parse) BY <1>3 DEF Decided
  <2>2. "parse" \in Steps /\ 0 \in 0..MaxRetries BY WritersAssumption DEF Steps
  <2>3. parse \in Writer BY <1>1, <2>2 DEF Writer
  <2>4. parse.pc = "parse" /\ parse.cyc = s.cyc /\ parse.at = s.at /\ parse.client = s.client
    BY <1>1 DEF Writer
  <2> HIDE DEF parse
  <2>5. Comes(w, parse) BY <2>3, <2>4, Inside DEF Asking
  <2> QED BY <2>1, <2>5 DEF To
<1>4. CASE answer.outcome # "success" /\ answer.retry /\ s.try < Retries(w) /\ WorthWaiting(left, delay)
  <2>1. To(w, again) BY <1>4 DEF Decided
  <2>2. s.try + 1 \in 0..MaxRetries
    <3>1. Retries(w) \in 0..MaxRetries BY WritersAssumption DEF Retries
    <3> QED BY <1>1, <1>4, <3>1, WritersAssumption
  <2>3. after \in Nat \cup {None} /\ after # 0
    <3>1. CASE left = None BY <3>1, WritersAssumption
    <3>2. CASE left # None
      <4>1. left \in Nat /\ delay < left /\ after = left - delay
        BY <1>2, <1>4, <3>2 DEF WorthWaiting
      <4> HIDE DEF left, after
      <4> QED BY <4>1
    <3> QED BY <3>1, <3>2
  <2> HIDE DEF left, after
  <2>4. again \in Writer BY <1>1, <2>2, <2>3 DEF Writer
  <2>5. /\ again.pc = "get" /\ again.cyc = s.cyc /\ again.at = s.at
        /\ again.client = s.client /\ again.left = after
    BY <1>1 DEF Writer
  <2> HIDE DEF again
  <2>6. Comes(w, again) BY <2>3, <2>4, <2>5, Inside DEF Asking
  <2> QED BY <2>1, <2>6 DEF To
<1>5. CASE Raised(w, s, answer.outcome) BY <1>5, RaisedComes
<1> QED BY <1>3, <1>4, <1>5 DEF Decided

-----------------------------------------------------------------------------
(* The steps keep the invariant.                                           *)

\* The types of a state whose tables are well-formed.
LEMMA Typed ==
  ASSUME WInv, TablesOK', now' \in 0..MaxNow, st' \in [Writers -> Writer],
         started' = started \/ (started < MaxCycles /\ started' = started + 1),
         UNCHANGED faults \/ (faults < MaxFaults /\ faults' = faults + 1),
         abandoned' \subseteq Nat, unrecorded' \subseteq Nat, evicted' \subseteq Nat,
         seen' \in [Discovery -> Seq(Digests)]
  PROVE  TypeOK'
<1>1. started' \in 0..MaxCycles BY WritersAssumption DEF WInv, TypeOK
<1>2. faults' \in 0..MaxFaults BY WritersAssumption DEF WInv, TypeOK
<1> QED BY <1>1, <1>2 DEF TypeOK, TablesOK, Rows

\* What the invariant says about the tables and the history.
LEMMA Before ==
  ASSUME WInv
  PROVE  /\ TablesOK /\ now \in Nat /\ now \in 0..MaxNow /\ st \in [Writers -> Writer]
         /\ abandoned \subseteq Nat /\ unrecorded \subseteq Nat /\ evicted \subseteq Nat
         /\ seen \in [Discovery -> Seq(Digests)]
         /\ \A w \in Writers : st[w] \in Writer /\ Step(w)
<1>1. TypeOK BY DEF WInv
<1>2. Rows BY <1>1 DEF TypeOK, Rows
<1>3. TablesOK BY <1>2 DEF WInv, TablesOK
<1> QED BY <1>1, <1>3 DEF WInv, TypeOK

\* The cycle of a process is a number.
LEMMA CycIs ==
  ASSUME WInv, NEW w \in Writers
  PROVE  /\ st[w].cyc \in Nat \cup {None}
         /\ st[w].pc \notin Starting => st[w].cyc # None
         /\ st[w].cyc # None => Owns(w) /\ st[w].cyc \in Nat
<1>1. st[w] \in Writer /\ Step(w) BY Before
<1>2. st[w].cyc \in Nat \cup {None} BY <1>1 DEF Writer
<1> QED BY <1>1, <1>2 DEF Step

\* A step that leaves the tables and the history as they are.
LEMMA Quiet ==
  ASSUME WInv, NEW w \in Writers, UNCHANGED <<now, tables, unrecorded, evicted>>,
         started' = started \/ (started < MaxCycles /\ started' = started + 1),
         UNCHANGED faults \/ (faults < MaxFaults /\ faults' = faults + 1),
         abandoned' \subseteq Nat, seen' \in [Discovery -> Seq(Digests)],
         NEW new, st' = [st EXCEPT ![w] = new], Comes(w, new)
  PROVE  WInv'
<1>1. new \in Writer /\ st' \in [Writers -> Writer] BY Before DEF Comes
<1>2. now' = now /\ cycles' = cycles /\ attempts' = attempts /\ snapshots' = snapshots
  BY DEF tables
<1>3. TablesOK BY Before
<1>4. TablesOK' BY <1>2, <1>3 DEF TablesOK, Rows, Dated, NewestFresh, Ids
<1>5. now' \in 0..MaxNow /\ unrecorded' \subseteq Nat /\ evicted' \subseteq Nat BY Before, <1>2
<1>6. TypeOK' BY <1>1, <1>4, <1>5, Typed
<1>7. Ids(attempts') /\ Ids(snapshots') BY <1>2, <1>3 DEF TablesOK
<1>8. unrecorded' \subseteq unrecorded \cup {st[w].cyc} /\ unrecorded \subseteq unrecorded' OBVIOUS
<1> QED BY <1>2, <1>6, <1>7, <1>8, Local

\* A process ends.
LEMMA Ends ==
  ASSUME WInv, NEW w \in Writers, UNCHANGED <<now, tables, unrecorded, evicted>>,
         started' = started \/ (started < MaxCycles /\ started' = started + 1),
         UNCHANGED faults \/ (faults < MaxFaults /\ faults' = faults + 1),
         abandoned' \subseteq abandoned \cup ({st[w].cyc} \ {None}), seen' \in [Discovery -> Seq(Digests)],
         Exit(w) \/ CloseStore(w)
  PROVE  WInv'
<1>1. abandoned' \subseteq Nat
  <2>1. st[w].cyc \in Nat \cup {None} /\ abandoned \subseteq Nat BY Before, CycIs
  <2> QED BY <2>1
<1>2. Comes(w, Fresh) /\ Comes(w, [Fresh EXCEPT !.store = w \in Pulses])
  <2>1. (w \in Pulses) \in BOOLEAN OBVIOUS
  <2> QED BY <2>1, FreshComes
<1>3. \E new : st' = [st EXCEPT ![w] = new] /\ Comes(w, new)
  BY <1>2 DEF To, Exit, CloseStore
<1> QED BY <1>1, <1>3, Quiet

\* A query of prune: its ids are a selection if they are ids and, for cycles,
\* those of old cycles that are not the newest.
LEMMA SelectedKept ==
  ASSUME WInv, NEW w \in Writers, UNCHANGED <<now, tables, history>>,
         started' = started \/ (started < MaxCycles /\ started' = started + 1),
         UNCHANGED faults, NEW s \in Writer, s.cyc = None, s.at <= now, now <= s.at + Retention,
         NEW table \in {"snapshots", "attempts", "cycles"}, NEW ids \in SUBSET Nat,
         table = "cycles" => \A c \in ids : (\E d \in DOMAIN cycles : c < d) /\ OldBy(c, s.at),
         NEW next \in {"pages", "cycles", "insert"}, Selected(w, s, table, ids, next)
  PROVE  WInv'
<1> DEFINE sel == [of |-> table, ids |-> ids]
           on == [s EXCEPT !.pc = next]
           del == [s EXCEPT !.pc = "delete", !.sel = sel]
<1>1. sel \in Selections /\ sel.of = table /\ sel.ids = ids BY DEF Selections
<1>2. next \in Steps /\ "delete" \in Steps BY DEF Steps
<1> HIDE DEF sel
<1>3. /\ on \in Writer /\ on.pc = next /\ on.at = s.at /\ on.cyc = None
  BY <1>2 DEF Writer
<1>4. /\ del \in Writer /\ del.pc = "delete" /\ del.at = s.at /\ del.cyc = None /\ del.sel = sel
  BY <1>1, <1>2 DEF Writer
<1>5. To(w, on) \/ To(w, del) BY DEF Selected, sel
<1> HIDE DEF on, del
<1>6. Comes(w, on) BY <1>3 DEF Comes
<1>7. Comes(w, del) BY <1>1, <1>4 DEF Comes
<1>8. UNCHANGED <<now, tables, unrecorded, evicted, abandoned, seen>> BY DEF history
<1>9. seen \in [Discovery -> Seq(Digests)] /\ abandoned \subseteq Nat BY Before
<1> QED BY <1>5, <1>6, <1>7, <1>8, <1>9, Quiet DEF To

\* prune looks for duplicates.
LEMMA BeginKept == ASSUME WInv, NEW w \in Writers, Begin(w) PROVE WInv'
<1>1. now \in Nat /\ TablesOK /\ seen \in [Discovery -> Seq(Digests)] BY Before
<1>2. UNCHANGED <<now, tables, history>> BY DEF Begin
<1>3. started < MaxCycles /\ started' = started + 1 BY DEF Begin
<1>4. CASE /\ Selected(w, [Fresh EXCEPT !.at = now], "snapshots", DuplicateBatch(snapshots), "pages")
           /\ UNCHANGED faults
  <2> DEFINE s == [Fresh EXCEPT !.at = now]
             ids == DuplicateBatch(snapshots)
  <2>1. ids \in SUBSET Nat
    <3>1. ids \subseteq Duplicates(snapshots) BY Batches
    <3>2. Duplicates(snapshots) \subseteq Nat BY <1>1 DEF Duplicates, TablesOK, Ids
    <3> QED BY <3>1, <3>2
  <2>2. s \in Writer /\ s.cyc = None /\ s.at = now
    BY <1>1, FreshIs DEF Fresh, Writer
  <2>3. s.at <= now /\ now <= s.at + Retention BY <1>1, <2>2, TelemetryAssumption
  <2>4. "snapshots" # "cycles" /\ "pages" \in {"pages", "cycles", "insert"}
        /\ "snapshots" \in {"snapshots", "attempts", "cycles"}
    OBVIOUS
  <2>5. Selected(w, s, "snapshots", ids, "pages") BY <1>4
  <2> HIDE DEF s, ids
  <2> QED BY <1>2, <1>3, <1>4, <2>1, <2>2, <2>3, <2>4, <2>5, SelectedKept
<1>5. CASE Raises(TRUE) /\ CloseStore(w)
  <2>1. UNCHANGED faults \/ (faults < MaxFaults /\ faults' = faults + 1) BY <1>5 DEF Raises
  <2> QED BY <1>1, <1>2, <1>3, <1>5, <2>1, Ends DEF history
<1> QED BY <1>4, <1>5 DEF Begin

\* A process that is about to start its cycle.
LEMMA Starts ==
  ASSUME WInv, NEW w \in Writers, st[w].pc \in Queries
  PROVE  /\ st[w] \in Writer /\ st[w].cyc = None /\ st[w].at \in Nat
         /\ st[w].at <= now /\ now <= st[w].at + Retention
<1>1. st[w] \in Writer /\ Step(w) BY Before
<1> QED BY <1>1 DEF Step, Writer

\* The pages are counted.
LEMMA CountPagesKept == ASSUME WInv, NEW w \in Writers, CountPages(w) PROVE WInv'
<1> DEFINE new == [st[w] EXCEPT !.pc = "attempts", !.pressed = UnderPressure(attempts, snapshots)]
<1>1. st[w].pc \in Queries /\ To(w, new) BY DEF CountPages, At
<1>2. UNCHANGED <<now, tables, unrecorded, evicted, abandoned, seen, started, faults>>
  BY DEF CountPages, history
<1>3. st[w] \in Writer /\ st[w].cyc = None /\ st[w].at <= now /\ now <= st[w].at + Retention
  BY <1>1, Starts
<1>4. UnderPressure(attempts, snapshots) \in BOOLEAN BY DEF UnderPressure
<1>5. "attempts" \in Steps BY DEF Steps
<1>6. new \in Writer /\ new.pc = "attempts" /\ new.cyc = None /\ new.at = st[w].at
  BY <1>3, <1>4, <1>5 DEF Writer
<1> HIDE DEF new
<1>7. Comes(w, new) BY <1>3, <1>6 DEF Comes
<1>8. seen \in [Discovery -> Seq(Digests)] /\ abandoned \subseteq Nat BY Before
<1> QED BY <1>1, <1>2, <1>7, <1>8, Quiet DEF To

\* prune looks for attempts.
LEMMA SelectAttemptsKept == ASSUME WInv, NEW w \in Writers, SelectAttempts(w) PROVE WInv'
<1> DEFINE pressed == st[w].pressed
           t == st[w].at
           ids == AttemptBatch(attempts, snapshots, pressed, t)
<1>1. st[w].pc \in Queries /\ Selected(w, st[w], "attempts", ids, "cycles")
  BY DEF SelectAttempts, At
<1>2. UNCHANGED <<now, tables, history, started, faults>> BY DEF SelectAttempts
<1>3. st[w] \in Writer /\ st[w].cyc = None /\ st[w].at <= now /\ now <= st[w].at + Retention
  BY <1>1, Starts
<1>4. TablesOK BY Before
<1> HIDE DEF pressed, t
<1>5. ids \subseteq DOMAIN attempts BY Batches
<1> HIDE DEF ids
<1>6. ids \in SUBSET Nat BY <1>4, <1>5 DEF TablesOK, Ids
<1>7. "attempts" # "cycles" /\ "cycles" \in {"pages", "cycles", "insert"}
      /\ "attempts" \in {"snapshots", "attempts", "cycles"}
  OBVIOUS
<1> QED BY <1>1, <1>2, <1>3, <1>6, <1>7, SelectedKept

\* prune looks for cycles.
LEMMA SelectCyclesKept == ASSUME WInv, NEW w \in Writers, SelectCycles(w) PROVE WInv'
<1> DEFINE s == [st[w] EXCEPT !.pressed = FALSE]
           t == st[w].at
           ids == CycleBatch(cycles, attempts, t)
<1>1. st[w].pc \in Queries /\ Selected(w, s, "cycles", ids, "insert") BY DEF SelectCycles, At
<1>2. UNCHANGED <<now, tables, history, started, faults>> BY DEF SelectCycles
<1>3. st[w] \in Writer /\ st[w].cyc = None /\ t <= now /\ now <= t + Retention /\ t \in Nat
  BY <1>1, Starts
<1>4. TablesOK /\ now \in Nat BY Before
<1>5. s \in Writer /\ s.cyc = None /\ s.at = t BY <1>3 DEF Writer
<1> HIDE DEF t, s
<1>6. ids \subseteq Childless(cycles, attempts, t) BY Batches
<1> HIDE DEF ids
<1>7. \A c \in ids : c \in DOMAIN cycles /\ OldBy(c, t)
  BY <1>3, <1>4, <1>6, ChildlessOld DEF TablesOK, Rows
<1>8. \A c \in ids : \E d \in DOMAIN cycles : c < d
  BY <1>3, <1>4, <1>7, NewestStays DEF TablesOK, Rows
<1>9. ids \in SUBSET Nat BY <1>4, <1>7 DEF TablesOK, Ids
<1>10. "insert" \in {"pages", "cycles", "insert"} /\ "cycles" \in {"snapshots", "attempts", "cycles"}
  OBVIOUS
<1>11. \A c \in ids : (\E d \in DOMAIN cycles : c < d) /\ OldBy(c, s.at) BY <1>5, <1>7, <1>8
<1> QED BY <1>1, <1>2, <1>3, <1>5, <1>9, <1>10, <1>11, SelectedKept

\* A cycle that does not begin.
LEMMA StartFailsKept == ASSUME WInv, NEW w \in Writers, StartFails(w) PROVE WInv'
<1>1. UNCHANGED faults \/ (faults < MaxFaults /\ faults' = faults + 1) BY DEF StartFails, Raises
<1>2. UNCHANGED <<now, tables, unrecorded, evicted, abandoned, seen, started>> /\ CloseStore(w)
  BY DEF StartFails, history
<1>3. seen \in [Discovery -> Seq(Digests)] BY Before
<1> QED BY <1>1, <1>2, <1>3, Ends

\* A cycle that does not end.
LEMMA FinishFailsKept == ASSUME WInv, NEW w \in Writers, FinishFails(w) PROVE WInv'
<1>1. UNCHANGED faults \/ (faults < MaxFaults /\ faults' = faults + 1) BY DEF FinishFails
<1>2. UNCHANGED <<now, tables, unrecorded, evicted, seen, started>> BY DEF FinishFails
<1>3. seen \in [Discovery -> Seq(Digests)] BY Before
<1>4. (Exit(w) \/ CloseStore(w)) /\ abandoned' \subseteq abandoned \cup ({st[w].cyc} \ {None})
  BY DEF FinishFails, Abandon
<1> QED BY <1>1, <1>2, <1>3, <1>4, Ends

\* A process that is killed.
LEMMA KillKept == ASSUME WInv, NEW w \in Writers, Kill(w) PROVE WInv'
<1>1. faults < MaxFaults /\ faults' = faults + 1 BY DEF Kill
<1>2. UNCHANGED <<now, tables, unrecorded, evicted, seen, started>> /\ Exit(w)
      /\ abandoned' \subseteq abandoned \cup ({st[w].cyc} \ {None})
  BY DEF Kill, Abandon
<1>3. seen \in [Discovery -> Seq(Digests)] BY Before
<1> QED BY <1>1, <1>2, <1>3, Ends

\* A collector that opens the store again.
LEMMA RestartKept == ASSUME WInv, NEW w \in Writers, Restart(w) PROVE WInv'
<1>1. UNCHANGED <<now, tables, unrecorded, evicted, abandoned, seen, started, faults>> /\ Exit(w)
  BY DEF Restart, history
<1>2. seen \in [Discovery -> Seq(Digests)] BY Before
<1> QED BY <1>1, <1>2, Ends

\* The digest that was asked for is noted.
LEMMA NotedIs ==
  ASSUME seen \in [Discovery -> Seq(Digests)], NEW r \in Discovery, NEW d \in Digests
  PROVE  Noted(r, d) \in [Discovery -> Seq(Digests)]
BY DEF Noted

\* The next request, of a route that is due.
LEMMA RequestKept == ASSUME WInv, NEW w \in Writers, Request(w) PROVE WInv'
<1> DEFINE r == Head(st[w].todo)
           rest == Tail(st[w].todo)
           skip == [st[w] EXCEPT !.todo = rest]
           ask(d) == [st[w] EXCEPT !.pc = "get", !.todo = rest, !.route = r,
                                   !.last = None, !.try = 0, !.left = d]
<1>1. UNCHANGED <<now, tables, unrecorded, evicted, abandoned, seen, started, faults>>
  BY DEF Request, history
<1>2. seen \in [Discovery -> Seq(Digests)] /\ abandoned \subseteq Nat /\ st[w] \in Writer /\ Step(w)
  BY Before
<1>3. st[w].pc = "go" /\ st[w].todo # <<>> /\ st[w].cyc # None BY CycIs DEF Request, At
<1>4. r \in Routes /\ rest \in Seq(Routes)
  <2>1. st[w].todo \in Seq(Routes) BY <1>2 DEF Writer
  <2> QED BY <2>1, <1>3
<1>5. st[w].cyc \in unrecorded => ~st[w].client BY <1>2, <1>3 DEF Step, Owns
<1>6. "get" \in Steps /\ 0 \in 0..MaxRetries BY WritersAssumption DEF Steps
<1>7. \/ To(w, skip) \/ \E d \in Nat \cup {None} : To(w, ask(d))
  BY WritersAssumption DEF Request
<1> HIDE DEF r, rest
<1>8. CASE To(w, skip)
  <2>1. skip \in Writer BY <1>2, <1>4 DEF Writer
  <2>2. skip.pc = "go" /\ skip.cyc = st[w].cyc /\ skip.at = st[w].at /\ skip.client = st[w].client
    BY <1>2, <1>3 DEF Writer
  <2> HIDE DEF skip
  <2>3. Comes(w, skip) BY <1>1, <1>3, <1>5, <2>1, <2>2, Inside
  <2> QED BY <1>1, <1>2, <1>8, <2>3, Quiet DEF To
<1>9. CASE \E d \in Nat \cup {None} : To(w, ask(d))
  <2>1. PICK d \in Nat \cup {None} : To(w, ask(d)) BY <1>9
  <2>2. ask(d) \in Writer BY <1>2, <1>4, <1>6 DEF Writer
  <2>3. /\ ask(d).pc = "get" /\ ask(d).cyc = st[w].cyc /\ ask(d).at = st[w].at
        /\ ask(d).client = st[w].client /\ ask(d).try = 0
    BY <1>2 DEF Writer
  <2> HIDE DEF ask
  <2>4. Comes(w, ask(d)) BY <1>1, <1>3, <1>5, <2>2, <2>3, Inside
  <2> QED BY <1>1, <1>2, <2>1, <2>4, Quiet DEF To
<1> QED BY <1>7, <1>8, <1>9

\* The process that has come to a point of its request.
LEMMA Asks ==
  ASSUME WInv, NEW w \in Writers, st[w].pc \notin Starting,
         unrecorded' = unrecorded
  PROVE  Asking(w, st[w]) /\ Asking(w, Done(st[w]))
<1>1. st[w] \in Writer /\ Step(w) /\ st[w].cyc # None /\ Owns(w) BY Before, CycIs
<1>2. Done(st[w]) \in Writer /\ Done(st[w]).cyc = st[w].cyc /\ Done(st[w]).at = st[w].at
      /\ Done(st[w]).client = st[w].client
  BY <1>1, DoneIs
<1> QED BY <1>1, <1>2 DEF Asking, Owns

\* The cycle of a probe fails; a request is over.
LEMMA AbortComes ==
  ASSUME WInv, NEW w \in Writers, st[w].pc \notin Starting,
         unrecorded' = unrecorded
  PROVE  Comes(w, [Done(st[w]) EXCEPT !.pc = "abort"]) /\ Comes(w, Done(st[w]))
<1> DEFINE d == Done(st[w])
           a == [d EXCEPT !.pc = "abort"]
<1>1. Asking(w, d) /\ st[w].cyc # None BY Asks, CycIs
<1>2. d.pc = "go" /\ d \in Writer BY <1>1, Before, DoneIs
<1> HIDE DEF d
<1>3. "abort" \in Steps BY DEF Steps
<1>4. a \in Writer BY <1>2, <1>3 DEF Writer
<1>5. a.pc = "abort" /\ a.cyc = d.cyc /\ a.at = d.at /\ a.client = d.client BY <1>2 DEF Writer
<1> HIDE DEF a
<1>6. Comes(w, a) BY <1>1, <1>4, <1>5, Inside DEF Asking
<1>7. Comes(w, d) BY <1>1, <1>2, Inside DEF Asking
<1> QED BY <1>6, <1>7 DEF a, d

\* The deadline has passed.
LEMMA TooLateKept == ASSUME WInv, NEW w \in Writers, TooLate(w) PROVE WInv'
<1>1. UNCHANGED <<now, tables, unrecorded, evicted, abandoned, seen, started, faults>>
  BY DEF TooLate, history
<1>2. seen \in [Discovery -> Seq(Digests)] /\ abandoned \subseteq Nat BY Before
<1>3. st[w].pc = "get" /\ GoesOn(w, st[w]) BY DEF TooLate, At
<1>4. Asking(w, st[w]) BY <1>1, <1>3, Asks
<1>5. \E new : st' = [st EXCEPT ![w] = new] /\ Comes(w, new) BY <1>3, <1>4, GoesOnComes
<1> QED BY <1>1, <1>2, <1>5, Quiet

\* A response that is accepted.
LEMMA AcceptKept == ASSUME WInv, NEW w \in Writers, Accept(w) PROVE WInv'
<1>1. UNCHANGED <<now, tables, unrecorded, evicted, abandoned, seen, started, faults>>
  BY DEF Accept, history
<1>2. seen \in [Discovery -> Seq(Digests)] /\ abandoned \subseteq Nat BY Before
<1>3. st[w].pc = "parse" /\ To(w, Done(st[w])) BY DEF Accept, At
<1>4. Comes(w, Done(st[w])) BY <1>1, <1>3, AbortComes
<1> QED BY <1>1, <1>2, <1>3, <1>4, Quiet DEF To

\* The comparison of a digest with the latest.
LEMMA CompareKept == ASSUME WInv, NEW w \in Writers, Compare(w) PROVE WInv'
<1>1. UNCHANGED <<now, tables, unrecorded, evicted, abandoned, started, faults>> BY DEF Compare
<1>2. seen \in [Discovery -> Seq(Digests)] /\ abandoned \subseteq Nat /\ st[w] \in Writer
  BY Before
<1>3. st[w].pc = "parse" /\ st[w].route \in Discovery BY DEF Compare, At
<1>4. Comes(w, Done(st[w])) /\ Comes(w, [Done(st[w]) EXCEPT !.pc = "abort"])
  BY <1>1, <1>3, AbortComes
<1>5. PICK d \in Digests :
        \/ To(w, [Done(st[w]) EXCEPT !.pc = "abort"]) /\ UNCHANGED seen
        \/ To(w, Done(st[w])) /\ seen' = Noted(st[w].route, d)
        \/ To(w, [st[w] EXCEPT !.pc = "snap", !.digest = d]) /\ UNCHANGED seen
  BY DEF Compare
<1>6. seen' \in [Discovery -> Seq(Digests)] BY <1>2, <1>3, <1>5, NotedIs
<1>7. Comes(w, [st[w] EXCEPT !.pc = "snap", !.digest = d])
  <2> DEFINE s == [st[w] EXCEPT !.pc = "snap", !.digest = d]
  <2>1. "snap" \in Steps BY DEF Steps
  <2>2. s \in Writer BY <1>2, <2>1 DEF Writer
  <2>3. /\ s.pc = "snap" /\ s.cyc = st[w].cyc /\ s.at = st[w].at /\ s.client = st[w].client
        /\ s.route = st[w].route /\ s.digest = d
    BY <1>2 DEF Writer
  <2>4. Asking(w, st[w]) /\ st[w].cyc # None BY <1>1, <1>3, Asks, CycIs
  <2> HIDE DEF s
  <2>5. Comes(w, s) BY <1>3, <2>2, <2>3, <2>4, Inside DEF Asking
  <2> QED BY <2>5 DEF s
<1>8. \E new : st' = [st EXCEPT ![w] = new] /\ Comes(w, new) BY <1>4, <1>5, <1>7 DEF To
<1> QED BY <1>1, <1>2, <1>6, <1>8, Quiet

\* A snapshot that cannot be stored.
LEMMA SnapshotFailsKept == ASSUME WInv, NEW w \in Writers, SnapshotFails(w) PROVE WInv'
<1>1. UNCHANGED <<now, tables, unrecorded, evicted, abandoned, seen, started>> BY DEF SnapshotFails, history
<1>2. UNCHANGED faults \/ (faults < MaxFaults /\ faults' = faults + 1) BY DEF SnapshotFails, Raises
<1>3. seen \in [Discovery -> Seq(Digests)] /\ abandoned \subseteq Nat BY Before
<1>4. st[w].pc \in {"parse", "snap"} /\ To(w, [Done(st[w]) EXCEPT !.pc = "abort"])
  BY DEF SnapshotFails, At
<1>5. Comes(w, [Done(st[w]) EXCEPT !.pc = "abort"]) BY <1>1, <1>4, AbortComes
<1> QED BY <1>1, <1>2, <1>3, <1>4, <1>5, Quiet DEF To

\* Rows that come or change, apart from the cycles.
LEMMA RowsKept ==
  ASSUME TablesOK, UNCHANGED <<now, cycles>>, Ids(attempts'), Ids(snapshots'),
         \A i \in DOMAIN attempts' :
           attempts'[i] \in Attempt /\ attempts'[i].cycle \in DOMAIN cycles,
         \A i \in DOMAIN snapshots' :
           snapshots'[i] \in Snapshot /\ snapshots'[i].attempt \in DOMAIN attempts'
  PROVE  TablesOK'
BY DEF TablesOK, Rows, Dated, NewestFresh, Ids

\* A new snapshot.
LEMMA RecordKept == ASSUME WInv, NEW w \in Writers, Record(w) PROVE WInv'
<1>1. UNCHANGED <<now, started, evicted, abandoned, unrecorded, cycles, attempts, faults>>
  BY DEF Record, InsertSnapshot, Works
<1>2. /\ seen \in [Discovery -> Seq(Digests)] /\ abandoned \subseteq Nat /\ evicted \subseteq Nat
      /\ st[w] \in Writer /\ TablesOK /\ unrecorded \subseteq Nat /\ now \in 0..MaxNow /\ Step(w)
      /\ st \in [Writers -> Writer]
  BY Before
<1>3. st[w].pc = "snap" /\ To(w, Done(st[w])) BY DEF Record, At
<1>4. st[w].route \in Discovery /\ st[w].digest \in Digests BY <1>2, <1>3 DEF Step
<1>5. seen' \in [Discovery -> Seq(Digests)] BY <1>2, <1>4, NotedIs DEF Record
<1>6. Comes(w, Done(st[w])) /\ Done(st[w]) \in Writer BY <1>1, <1>2, <1>3, AbortComes, DoneIs
<1>7. Ids(snapshots') /\ TablesOK'
  <2> DEFINE row == [attempt |-> st[w].last, route |-> st[w].route, digest |-> st[w].digest]
  <2>1. snapshots' = Insert(snapshots, row) BY DEF Record, InsertSnapshot
  <2>2. st[w].last \in DOMAIN attempts BY DEF Record, Works
  <2>3. Ids(attempts) /\ Ids(snapshots) BY <1>2 DEF TablesOK
  <2>4. row \in Snapshot /\ row.attempt \in DOMAIN attempts
    <3>1. st[w].last \in Nat BY <2>2, <2>3 DEF Ids
    <3> QED BY <1>4, <2>2, <3>1 DEF Snapshot
  <2> HIDE DEF row
  <2>5. /\ Ids(snapshots') /\ DOMAIN snapshots' = DOMAIN snapshots \cup {NextId(snapshots)}
        /\ snapshots'[NextId(snapshots)] = row
        /\ \A i \in DOMAIN snapshots : snapshots'[i] = snapshots[i]
    BY <2>1, <2>3, Inserted
  <2>6. \A i \in DOMAIN snapshots' :
          snapshots'[i] \in Snapshot /\ snapshots'[i].attempt \in DOMAIN attempts'
    BY <1>1, <1>2, <2>4, <2>5 DEF TablesOK, Rows
  <2>7. \A i \in DOMAIN attempts' :
          attempts'[i] \in Attempt /\ attempts'[i].cycle \in DOMAIN cycles
    BY <1>1, <1>2 DEF TablesOK, Rows
  <2>8. Ids(attempts') BY <1>1, <2>3
  <2> QED BY <1>1, <1>2, <2>5, <2>6, <2>7, <2>8, RowsKept
<1>8. st' \in [Writers -> Writer] BY <1>2, <1>3, <1>6 DEF To
<1>9. TypeOK' BY <1>1, <1>2, <1>5, <1>7, <1>8, Typed
<1>10. Ids(attempts') BY <1>1, <1>2 DEF TablesOK
<1>11. st' = [st EXCEPT ![w] = Done(st[w])] /\ unrecorded' \subseteq unrecorded \cup {st[w].cyc}
       /\ unrecorded \subseteq unrecorded'
  BY <1>1, <1>3 DEF To
<1> QED BY <1>1, <1>6, <1>7, <1>9, <1>10, <1>11, Local

\* A process goes on with other attempts in the table.
LEMMA AttemptsKept ==
  ASSUME WInv, NEW w \in Writers, UNCHANGED <<now, started, evicted, seen, cycles, snapshots>>,
         abandoned' \subseteq Nat,
         Ids(attempts'), DOMAIN attempts \subseteq DOMAIN attempts',
         \A i \in DOMAIN attempts' :
           attempts'[i] \in Attempt /\ attempts'[i].cycle \in DOMAIN cycles,
         UNCHANGED faults \/ (faults < MaxFaults /\ faults' = faults + 1),
         unrecorded' = unrecorded \/ (unrecorded' = unrecorded \cup {st[w].cyc} /\ st[w].cyc \in Nat),
         NEW new, st' = [st EXCEPT ![w] = new], Comes(w, new)
  PROVE  WInv'
<1>1. /\ seen \in [Discovery -> Seq(Digests)] /\ abandoned \subseteq Nat /\ evicted \subseteq Nat
      /\ TablesOK /\ unrecorded \subseteq Nat /\ now \in 0..MaxNow /\ st \in [Writers -> Writer]
  BY Before
<1>2. Ids(snapshots') /\ TablesOK'
  <2>1. Ids(snapshots') BY <1>1 DEF TablesOK
  <2>2. \A i \in DOMAIN snapshots' :
          snapshots'[i] \in Snapshot /\ snapshots'[i].attempt \in DOMAIN attempts'
    BY <1>1 DEF TablesOK, Rows
  <2> QED BY <1>1, <2>1, <2>2, RowsKept
<1>3. st' \in [Writers -> Writer] BY <1>1 DEF Comes
<1>4. unrecorded' \subseteq Nat BY <1>1
<1>5. TypeOK' BY <1>1, <1>2, <1>3, <1>4, Typed
<1>6. unrecorded' \subseteq unrecorded \cup {st[w].cyc} /\ unrecorded \subseteq unrecorded' OBVIOUS
<1> QED BY <1>2, <1>5, <1>6, Local

\* A response that does not parse.
LEMMA RejectKept == ASSUME WInv, NEW w \in Writers, Reject(w) PROVE WInv'
<1>1. UNCHANGED <<now, started, evicted, unrecorded, seen>> BY DEF Reject, history
<1>2. /\ seen \in [Discovery -> Seq(Digests)] /\ abandoned \subseteq Nat /\ evicted \subseteq Nat
      /\ st[w] \in Writer /\ TablesOK
  BY Before
<1>3. st[w].pc \in {"parse", "mark"} BY DEF Reject, At
<1>4. Asking(w, st[w]) BY <1>1, <1>3, Asks
<1>5. UNCHANGED faults \/ (faults < MaxFaults /\ faults' = faults + 1)
  BY DEF Reject, Works, Raises
<1>6. CASE GoesOn(w, st[w]) /\ UNCHANGED <<tables, abandoned>>
  <2>1. \E new : st' = [st EXCEPT ![w] = new] /\ Comes(w, new) BY <1>4, <1>6, GoesOnComes
  <2> QED BY <1>1, <1>2, <1>5, <1>6, <2>1, Quiet
<1>7. CASE /\ st[w].last \in DOMAIN attempts
           /\ UpdateAttemptOutcome(st[w].last, "invalid_response") /\ GoesOn(w, st[w])
           /\ UNCHANGED abandoned
  <2>1. PICK new : st' = [st EXCEPT ![w] = new] /\ Comes(w, new) BY <1>4, <1>7, GoesOnComes
  <2>2. /\ attempts' = [attempts EXCEPT ![st[w].last].outcome = "invalid_response"]
        /\ UNCHANGED <<cycles, snapshots>>
    BY <1>7 DEF UpdateAttemptOutcome
  <2>3. DOMAIN attempts' = DOMAIN attempts BY <2>2
  <2>4. Ids(attempts') BY <1>2, <2>3 DEF TablesOK, Ids
  <2>5. ASSUME NEW i \in DOMAIN attempts'
        PROVE  attempts'[i] \in Attempt /\ attempts'[i].cycle \in DOMAIN cycles
    <3>1. attempts[i] \in Attempt /\ attempts[i].cycle \in DOMAIN cycles
      BY <1>2, <2>3 DEF TablesOK, Rows
    <3>2. \/ attempts'[i] = attempts[i]
          \/ attempts'[i] = [attempts[i] EXCEPT !.outcome = "invalid_response"]
      BY <2>2, <2>3
    <3>3. [attempts[i] EXCEPT !.outcome = "invalid_response"] \in Attempt
          /\ [attempts[i] EXCEPT !.outcome = "invalid_response"].cycle = attempts[i].cycle
      BY <3>1 DEF Attempt, Outcomes
    <3> QED BY <3>1, <3>2, <3>3
  <2>6. UNCHANGED <<now, started, evicted, seen, cycles, snapshots, unrecorded>> BY <1>1, <2>2
  <2>7. abandoned' \subseteq Nat BY <1>2, <1>7
  <2> QED BY <1>5, <2>1, <2>3, <2>4, <2>5, <2>6, <2>7, AttemptsKept
<1>8. CASE To(w, [Done(st[w]) EXCEPT !.pc = "abort"]) /\ UNCHANGED <<tables, abandoned>>
  <2>1. Comes(w, [Done(st[w]) EXCEPT !.pc = "abort"]) BY <1>1, <1>3, AbortComes
  <2> QED BY <1>1, <1>2, <1>5, <1>8, <2>1, Quiet DEF To
<1>9. CASE GoesOn(w, [st[w] EXCEPT !.client = FALSE]) /\ UNCHANGED <<tables, abandoned>>
  <2> DEFINE s == [st[w] EXCEPT !.client = FALSE]
  <2>1. Asking(w, s) BY <1>2, <1>4 DEF Asking, Writer
  <2>2. \E new : st' = [st EXCEPT ![w] = new] /\ Comes(w, new) BY <1>9, <2>1, GoesOnComes
  <2> QED BY <1>1, <1>2, <1>5, <1>9, <2>2, Quiet
<1>10. CASE Exit(w) /\ UNCHANGED tables /\ abandoned' = abandoned \cup (evicted \cap {st[w].cyc})
  <2>1. None \notin evicted BY <1>2, WritersAssumption
  <2>2. abandoned' \subseteq abandoned \cup ({st[w].cyc} \ {None}) BY <1>10, <2>1
  <2> QED BY <1>1, <1>2, <1>5, <1>10, <2>2, Ends
<1> QED BY <1>6, <1>7, <1>8, <1>9, <1>10 DEF Reject, Works

\* A try, recorded or not, and what follows from it.
LEMMA TryKept == ASSUME WInv, NEW w \in Writers, Try(w) PROVE WInv'
<1>1. UNCHANGED <<now, started, evicted, abandoned, seen>> BY DEF Try
<1>2. /\ seen \in [Discovery -> Seq(Digests)] /\ abandoned \subseteq Nat /\ evicted \subseteq Nat
      /\ st[w] \in Writer /\ TablesOK /\ unrecorded \subseteq Nat /\ now \in Nat
  BY Before
<1>3. st[w].pc = "get" /\ st[w].cyc # None /\ st[w].cyc \in Nat /\ Owns(w) BY CycIs DEF Try, At
<1>4. Ids(attempts) BY <1>2 DEF TablesOK
<1>5. \E answer \in Answers, delay \in Delays, spent \in Nat :
        /\ st[w].left # None => spent <= st[w].left
        /\ \/ /\ Works(HasRoom /\ st[w].cyc \in DOMAIN cycles)
              /\ RecordAttempt(st[w].cyc, st[w].route, answer.outcome)
              /\ Decided(w, [st[w] EXCEPT !.last = NextId(attempts)], answer, spent, delay)
              /\ UNCHANGED unrecorded
           \/ /\ UNCHANGED faults \/ (faults < MaxFaults /\ faults' = faults + 1)
              /\ Decided(w, [st[w] EXCEPT !.last = None, !.client = FALSE], answer, spent, delay)
              /\ unrecorded' = unrecorded \cup {st[w].cyc}
              /\ UNCHANGED tables
  <2> DEFINE most == IF st[w].left = None THEN 0 ELSE Min({Timeout, st[w].left})
  <2>1. \A spent \in 0..most : spent \in Nat /\ (st[w].left # None => spent <= st[w].left)
    <3>1. CASE st[w].left = None BY <3>1
    <3>2. CASE st[w].left # None
      <4>1. st[w].left \in Nat BY <1>2, <3>2 DEF Writer
      <4>2. most \in Nat /\ most <= st[w].left BY <3>2, <4>1, MinOfTwo, WritersAssumption
      <4> HIDE DEF most
      <4> QED BY <4>1, <4>2
    <3> QED BY <3>1, <3>2
  <2>2. \E answer \in Answers, delay \in Delays, spent \in 0..most :
        /\ \/ /\ Works(HasRoom /\ st[w].cyc \in DOMAIN cycles)
              /\ RecordAttempt(st[w].cyc, st[w].route, answer.outcome)
              /\ Decided(w, [st[w] EXCEPT !.last = NextId(attempts)], answer, spent, delay)
              /\ UNCHANGED unrecorded
           \/ /\ UNCHANGED faults \/ (faults < MaxFaults /\ faults' = faults + 1)
              /\ Decided(w, [st[w] EXCEPT !.last = None, !.client = FALSE], answer, spent, delay)
              /\ unrecorded' = unrecorded \cup {st[w].cyc}
              /\ UNCHANGED tables
    BY DEF Try, Raises
  <2> HIDE DEF most
  <2> QED BY <2>1, <2>2
<1>6. PICK answer \in Answers, delay \in Delays, spent \in Nat :
        /\ st[w].left # None => spent <= st[w].left
        /\ \/ /\ Works(HasRoom /\ st[w].cyc \in DOMAIN cycles)
              /\ RecordAttempt(st[w].cyc, st[w].route, answer.outcome)
              /\ Decided(w, [st[w] EXCEPT !.last = NextId(attempts)], answer, spent, delay)
              /\ UNCHANGED unrecorded
           \/ /\ UNCHANGED faults \/ (faults < MaxFaults /\ faults' = faults + 1)
              /\ Decided(w, [st[w] EXCEPT !.last = None, !.client = FALSE], answer, spent, delay)
              /\ unrecorded' = unrecorded \cup {st[w].cyc}
              /\ UNCHANGED tables
  BY <1>5
<1>7. delay \in Nat BY WritersAssumption
<1>8. CASE /\ Works(HasRoom /\ st[w].cyc \in DOMAIN cycles)
           /\ RecordAttempt(st[w].cyc, st[w].route, answer.outcome)
           /\ Decided(w, [st[w] EXCEPT !.last = NextId(attempts)], answer, spent, delay)
           /\ UNCHANGED unrecorded
  <2> DEFINE s == [st[w] EXCEPT !.last = NextId(attempts)]
             row == [cycle |-> st[w].cyc, route |-> st[w].route, at |-> now,
                     outcome |-> answer.outcome]
  <2>1. attempts' = Insert(attempts, row) /\ UNCHANGED <<cycles, snapshots, faults>>
    BY <1>8 DEF RecordAttempt, Works
  <2>2. row \in Attempt /\ row.cycle \in DOMAIN cycles
    <3>1. answer.outcome \in Outcomes BY DEF Answers, Outcomes
    <3>2. st[w].route \in Routes BY <1>2 DEF Writer
    <3>3. st[w].cyc \in DOMAIN cycles BY <1>3 DEF Owns
    <3> QED BY <1>2, <1>3, <3>1, <3>2, <3>3 DEF Attempt
  <2>3. NextId(attempts) \in Nat BY <1>4, NextIs
  <2>4. Asking(w, s) /\ s.pc = "get" /\ s.left = st[w].left
    BY <1>2, <1>3, <1>8, <2>3 DEF Asking, Writer, Owns
  <2> HIDE DEF s, row
  <2>5. PICK new : st' = [st EXCEPT ![w] = new] /\ Comes(w, new)
    BY <1>6, <1>7, <1>8, <2>4, DecidedComes DEF s
  <2>6. /\ Ids(attempts') /\ DOMAIN attempts' = DOMAIN attempts \cup {NextId(attempts)}
        /\ attempts'[NextId(attempts)] = row
        /\ \A i \in DOMAIN attempts : attempts'[i] = attempts[i]
    <3>1. PICK n : n = NextId(attempts) OBVIOUS
    <3>2. PICK added : added = Insert(attempts, row) OBVIOUS
    <3>3. Ids(attempts) BY <1>4
    <3>4. /\ Ids(added) /\ DOMAIN added = DOMAIN attempts \cup {n} /\ added[n] = row
          /\ \A i \in DOMAIN attempts : added[i] = attempts[i]
      BY <3>1, <3>2, <3>3, Inserted
    <3>5. attempts' = added BY <2>1, <3>2
    <3> QED BY <3>1, <3>4, <3>5
  <2>7. \A i \in DOMAIN attempts' :
          attempts'[i] \in Attempt /\ attempts'[i].cycle \in DOMAIN cycles
    BY <1>2, <2>2, <2>6 DEF TablesOK, Rows
  <2>8. DOMAIN attempts \subseteq DOMAIN attempts' BY <2>6
  <2>9. UNCHANGED <<now, started, evicted, seen, cycles, snapshots, faults, unrecorded>>
    BY <1>1, <1>8, <2>1
  <2>10. abandoned' \subseteq Nat BY <1>1, <1>2
  <2> QED BY <2>5, <2>6, <2>7, <2>8, <2>9, <2>10, AttemptsKept
<1>9. CASE /\ UNCHANGED faults \/ (faults < MaxFaults /\ faults' = faults + 1)
           /\ Decided(w, [st[w] EXCEPT !.last = None, !.client = FALSE], answer, spent, delay)
           /\ unrecorded' = unrecorded \cup {st[w].cyc}
           /\ UNCHANGED tables
  <2> DEFINE s == [st[w] EXCEPT !.last = None, !.client = FALSE]
  <2>1. UNCHANGED <<cycles, attempts, snapshots>> BY <1>9 DEF tables
  <2>2. Asking(w, s) /\ s.pc = "get" /\ s.left = st[w].left
    BY <1>2, <1>3 DEF Asking, Writer
  <2> HIDE DEF s
  <2>3. PICK new : st' = [st EXCEPT ![w] = new] /\ Comes(w, new)
    BY <1>6, <1>7, <1>9, <2>2, DecidedComes DEF s
  <2>4. \A i \in DOMAIN attempts' :
          attempts'[i] \in Attempt /\ attempts'[i].cycle \in DOMAIN cycles
    BY <1>2, <2>1 DEF TablesOK, Rows
  <2>5. Ids(attempts') /\ DOMAIN attempts \subseteq DOMAIN attempts' BY <1>4, <2>1
  <2>6. UNCHANGED <<now, started, evicted, seen, cycles, snapshots>> BY <1>1, <2>1
  <2>7. abandoned' \subseteq Nat BY <1>1, <1>2
  <2> QED BY <1>3, <1>9, <2>3, <2>4, <2>5, <2>6, <2>7, AttemptsKept
<1> QED BY <1>6, <1>8, <1>9

\* What was chosen still is, when no id is given out twice.
LEMMA ChosenStays ==
  ASSUME NEW v \in Writers, Ids(cycles), Ids(cycles'), st[v].sel \in Selections,
         st'[v] = st[v], Chosen(v),
         \A d \in DOMAIN cycles : \E e \in DOMAIN cycles' : d <= e,
         \A c \in DOMAIN cycles' : \/ c \in DOMAIN cycles /\ cycles'[c].started = cycles[c].started
                                   \/ \A d \in DOMAIN cycles : d < c
  PROVE  Chosen(v)'
<1>1. SUFFICES ASSUME st[v].sel.of = "cycles", NEW c \in st[v].sel.ids
               PROVE  /\ \E d \in DOMAIN cycles' : c < d
                      /\ c \in DOMAIN cycles' => cycles'[c].started + Retention < st[v].at
  BY DEF Chosen, OldBy
<1>2. PICK d \in DOMAIN cycles : c < d BY <1>1 DEF Chosen
<1>3. PICK e \in DOMAIN cycles' : d <= e OBVIOUS
<1>4. c \in Nat /\ d \in Nat /\ e \in Nat BY <1>1 DEF Ids, Selections
<1>5. c < e BY <1>2, <1>3, <1>4
<1>6. ASSUME c \in DOMAIN cycles' PROVE cycles'[c].started + Retention < st[v].at
  <2>1. ~(d < c) BY <1>2, <1>4
  <2>2. c \in DOMAIN cycles /\ cycles'[c].started = cycles[c].started BY <1>6, <2>1
  <2> QED BY <1>1, <2>2 DEF Chosen, OldBy
<1> QED BY <1>5, <1>6

\* The cycle of a process has not expired.
LEMMA OwnedIsYoung ==
  ASSUME WInv, NEW v \in Writers, st[v].cyc # None, NEW t \in Nat, t <= now
  PROVE  ~OldBy(st[v].cyc, t)
<1>1. Owns(v) /\ Step(v) /\ st[v] \in Writer /\ now \in Nat BY Before, CycIs
<1>2. now <= st[v].at + Retention /\ cycles[st[v].cyc].started = st[v].at BY <1>1 DEF Step, Owns
<1>3. st[v].at \in Nat /\ Retention \in Nat BY <1>1, TelemetryAssumption DEF Writer
<1> QED BY <1>1, <1>2, <1>3 DEF OldBy

\* A prune deletes what it chose, and more.
LEMMA PruneDeleteKept == ASSUME WInv, NEW w \in Writers, PruneDelete(w) PROVE WInv'
<1> DEFINE new == [st[w] EXCEPT !.pc = "insert", !.sel = NoSelection, !.pressed = FALSE]
<1>1. UNCHANGED <<now, started, abandoned, unrecorded, seen, faults>> BY DEF PruneDelete, Works
<1>2. /\ seen \in [Discovery -> Seq(Digests)] /\ abandoned \subseteq Nat /\ evicted \subseteq Nat
      /\ st[w] \in Writer /\ TablesOK /\ unrecorded \subseteq Nat /\ now \in Nat /\ now \in 0..MaxNow /\ Step(w)
      /\ st \in [Writers -> Writer]
  BY Before
<1>3. st[w].pc = "delete" /\ st' = [st EXCEPT ![w] = new] BY DEF PruneDelete, At, To
<1>4. st[w].cyc = None /\ st[w].at <= now /\ now <= st[w].at + Retention /\ Chosen(w)
  BY <1>2, <1>3 DEF Step
<1>5. st[w].sel \in Selections /\ st[w].at \in Nat BY <1>2 DEF Writer
<1>6. ~Restricted(st[w].sel) /\ Prune(st[w].sel, st[w].at) BY DEF PruneDelete, Works
<1>7. /\ TablesOK' /\ DOMAIN cycles' \subseteq DOMAIN cycles
      /\ \A c \in DOMAIN cycles' : cycles'[c] = cycles[c]
      /\ \A c \in DOMAIN cycles : c \notin DOMAIN cycles' => OldBy(c, st[w].at)
      /\ \A d \in DOMAIN cycles : \E e \in DOMAIN cycles' : d <= e
  BY <1>1, <1>2, <1>4, <1>5, <1>6, Pruned
<1>8. /\ new \in Writer /\ new.pc = "insert" /\ new.cyc = None /\ new.at = st[w].at
  <2>1. "insert" \in Steps /\ NoSelection \in Selections BY DEF Steps, NoSelection, Selections
  <2> QED BY <1>2, <1>4, <2>1 DEF Writer
<1> HIDE DEF new
<1>9. st'[w] = new /\ \A v \in Writers : v # w => st'[v] = st[v] BY <1>2, <1>3
<1>10. st' \in [Writers -> Writer] BY <1>2, <1>3, <1>8
<1>11. TypeOK'
  <2>1. \A i \in DOMAIN attempts : attempts[i].cycle \in Nat BY <1>2 DEF TablesOK, Rows, Attempt
  <2>2. {attempts[i].cycle : i \in DOMAIN attempts \ DOMAIN attempts'} \subseteq Nat BY <2>1
  <2>3. evicted' \subseteq Nat
    <3> DEFINE gone == {attempts[i].cycle : i \in DOMAIN attempts \ DOMAIN attempts'}
    <3>1. evicted' = evicted \cup IF Pressed(w) THEN gone ELSE {} BY DEF PruneDelete
    <3> HIDE DEF gone
    <3> QED BY <1>2, <2>2, <3>1 DEF gone
  <2> QED BY <1>1, <1>2, <1>7, <1>10, <2>3, Typed
<1>12. Ids(cycles) /\ Ids(cycles') /\ Ids(attempts') /\ Ids(snapshots') BY <1>2, <1>7 DEF TablesOK
<1>13. Step(w)' BY <1>1, <1>4, <1>8, <1>9 DEF Step
<1>14. ASSUME NEW v \in Writers, v # w PROVE Step(v)'
  <2>1. Step(v) /\ st'[v] = st[v] /\ st[v] \in Writer BY <1>9, <1>14, Before
  <2>2. st[v].cyc # None => Owns(v)'
    <3>1. SUFFICES ASSUME st[v].cyc # None PROVE Owns(v)' OBVIOUS
    <3>2. Owns(v) /\ ~OldBy(st[v].cyc, st[w].at) BY <1>4, <1>5, <3>1, CycIs, OwnedIsYoung
    <3>3. st[v].cyc \in DOMAIN cycles' /\ cycles'[st[v].cyc] = cycles[st[v].cyc]
      BY <1>7, <3>2 DEF Owns
    <3>4. \A u \in Writers : u # v => st'[u].cyc # st'[v].cyc
      BY <1>4, <1>8, <1>9, <2>1, <3>1, <3>2 DEF Owns
    <3> QED BY <1>1, <2>1, <3>2, <3>3, <3>4 DEF Owns, Source
  <2>3. st[v].pc = "delete" => Chosen(v)'
    <3>1. st[v].sel \in Selections BY <2>1 DEF Writer
    <3> QED BY <1>7, <1>12, <2>1, <3>1, ChosenStays DEF Step
  <2> QED BY <1>1, <2>1, <2>2, <2>3 DEF Step
<1>15. SuccessIsComplete' BY <1>1, <1>7 DEF WInv, SuccessIsComplete
<1>17. \A v \in Writers : Step(v)' BY <1>13, <1>14
<1>18. (\A v \in Writers : Step(v))' BY <1>17
<1> QED BY <1>7, <1>11, <1>15, <1>18 DEF WInv, TablesOK

\* The discovery routes in some order.
LEMMA SetInOrder ==
  ASSUME NEW S, IsFiniteSet(S)
  PROVE  SetToSeq(S) \in Seq(S)
<1>1. Cardinality(S) \in Nat /\ ExistsBijection(1..Cardinality(S), S) BY FS_CardinalityType
<1>2. PICK g \in Bijection(1..Cardinality(S), S) : TRUE BY <1>1 DEF ExistsBijection
<1>3. g \in [1..Cardinality(S) -> S] /\ IsInjective(g)
  BY <1>2 DEF Bijection, Injection
<1>4. SetToSeq(S) \in [1..Cardinality(S) -> S] BY <1>3 DEF SetToSeq
<1> QED BY <1>1, <1>4

\* A new row among the cycles.
LEMMA CycleInserted ==
  ASSUME Ids(cycles), NEW row, cycles' = Insert(cycles, row)
  PROVE  /\ Ids(cycles') /\ DOMAIN cycles' = DOMAIN cycles \cup {NextId(cycles)}
         /\ cycles'[NextId(cycles)] = row
         /\ \A c \in DOMAIN cycles : cycles'[c] = cycles[c]
BY Inserted

\* The row of a new cycle.
LEMMA StartCycleKept == ASSUME WInv, NEW w \in Writers, StartCycle(w) PROVE WInv'
<1> DEFINE n == NextId(cycles)
           row == [source |-> Source(w), started |-> st[w].at,
                   finished |-> None, outcome |-> "running"]
           begun(todo) == [st[w] EXCEPT !.pc = "go", !.cyc = n, !.todo = todo]
<1>1. UNCHANGED <<now, started, seen, faults, attempts, snapshots>>
  BY DEF StartCycle, Works, InsertCycle
<1>2. /\ seen \in [Discovery -> Seq(Digests)] /\ abandoned \subseteq Nat /\ evicted \subseteq Nat
      /\ st[w] \in Writer /\ TablesOK /\ unrecorded \subseteq Nat /\ now \in Nat /\ now \in 0..MaxNow /\ Step(w)
      /\ st \in [Writers -> Writer]
  BY Before
<1>3. st[w].pc = "insert" /\ cycles' = Insert(cycles, row) BY DEF StartCycle, At, InsertCycle
<1>4. st[w].at <= now /\ now <= st[w].at + Retention /\ st[w].at \in Nat
  BY <1>2, <1>3 DEF Step, Writer
<1>5. /\ abandoned' = abandoned \ {n} /\ unrecorded' = unrecorded \ {n}
      /\ evicted' = evicted \ {n}
  BY DEF StartCycle
<1>6. \E todo \in Seq(Routes) : st' = [st EXCEPT ![w] = begun(todo)]
  <2>1. PICK k \in 1..MaxRequests, r \in Metered :
          To(w, [st[w] EXCEPT !.pc = "go", !.cyc = NextId(cycles),
                   !.todo = IF w \in Collectors THEN [i \in 1..k |-> r]
                            ELSE <<Health>> \o SetToSeq(Discovery)])
    BY DEF StartCycle
  <2>2. [i \in 1..k |-> r] \in Seq(Routes)
    <3>1. k \in Nat /\ r \in Routes BY WritersAssumption DEF Routes
    <3> QED BY <3>1
  <2>3. <<Health>> \o SetToSeq(Discovery) \in Seq(Routes)
    <3>1. SetToSeq(Discovery) \in Seq(Discovery) BY SetInOrder, WritersAssumption
    <3>2. SetToSeq(Discovery) \in Seq(Routes) /\ Health \in Routes BY <3>1 DEF Routes
    <3> QED BY <3>2
  <2> DEFINE todo == IF w \in Collectors THEN [i \in 1..k |-> r]
                     ELSE <<Health>> \o SetToSeq(Discovery)
  <2>4. todo \in Seq(Routes) BY <2>2, <2>3
  <2>5. st' = [st EXCEPT ![w] = begun(todo)] BY <2>1 DEF To
  <2> HIDE DEF todo, begun
  <2> QED BY <2>4, <2>5
<1>7. PICK todo \in Seq(Routes) : st' = [st EXCEPT ![w] = begun(todo)] BY <1>6
<1>8. Ids(cycles) /\ Ids(attempts) /\ Ids(snapshots) BY <1>2 DEF TablesOK
<1>9. n \in Nat /\ n # None /\ \A i \in DOMAIN cycles : i < n BY <1>8, NextIs, WritersAssumption
<1>10. row \in Cycle
  <2>1. Source(w) \in {"collector", "pulse_probe"} BY DEF Source
  <2> QED BY <1>4, <2>1 DEF Cycle
<1>11. /\ begun(todo) \in Writer /\ begun(todo).pc = "go" /\ begun(todo).cyc = n
       /\ begun(todo).at = st[w].at
  <2>1. "go" \in Steps BY DEF Steps
  <2> QED BY <1>2, <1>9, <2>1 DEF Writer
<1>12. row.started = st[w].at /\ row.finished = None /\ row.outcome = "running"
       /\ row.source = Source(w)
  OBVIOUS
<1> HIDE DEF begun, row, n
<1>13. /\ Ids(cycles') /\ DOMAIN cycles' = DOMAIN cycles \cup {n} /\ cycles'[n] = row
       /\ \A c \in DOMAIN cycles : cycles'[c] = cycles[c]
  <2>1. /\ Ids(cycles') /\ DOMAIN cycles' = DOMAIN cycles \cup {NextId(cycles)}
        /\ cycles'[NextId(cycles)] = row
        /\ \A c \in DOMAIN cycles : cycles'[c] = cycles[c]
    BY <1>3, <1>8, CycleInserted
  <2> QED BY <2>1 DEF n
<1>14. st'[w] = begun(todo) /\ \A v \in Writers : v # w => st'[v] = st[v] BY <1>2, <1>7
<1>15. TablesOK'
  <2>1. \A i \in DOMAIN cycles' : cycles'[i] \in Cycle
    BY <1>2, <1>10, <1>13 DEF TablesOK, Rows
  <2>2. Rows' BY <1>1, <1>2, <1>13, <2>1 DEF TablesOK, Rows
  <2>3. Dated(cycles, now)'
    BY <1>1, <1>2, <1>4, <1>12, <1>13 DEF TablesOK, Dated
  <2>4. n \in DOMAIN cycles' /\ (\A j \in DOMAIN cycles' : j <= n) /\ now' <= cycles'[n].started + Retention
    <3>1. \A j \in DOMAIN cycles : j \in Nat BY <1>8 DEF Ids
    <3> QED BY <1>1, <1>4, <1>9, <1>12, <1>13, <3>1
  <2>5. NewestFresh(cycles, now)' BY <2>4 DEF NewestFresh
  <2>6. Ids(attempts') /\ Ids(snapshots') BY <1>1, <1>8
  <2> QED BY <1>13, <2>2, <2>3, <2>5, <2>6 DEF TablesOK
<1>16. st' \in [Writers -> Writer] BY <1>2, <1>7, <1>11
<1>17. TypeOK' BY <1>1, <1>2, <1>5, <1>15, <1>16, Typed
<1>18. Step(w)'
  <2>1. Owns(w)'
    <3>1. \A v \in Writers : v # w => st'[v].cyc # n
      <4>1. SUFFICES ASSUME NEW v \in Writers, v # w PROVE st[v].cyc # n BY <1>14
      <4>2. st[v].cyc # None => st[v].cyc \in DOMAIN cycles BY CycIs DEF Owns
      <4>3. st[v].cyc # None => st[v].cyc < n BY <1>9, <4>2
      <4>4. st[v].cyc # None => st[v].cyc \in Nat BY CycIs
      <4> QED BY <1>9, <4>3, <4>4
    <3>2. n \notin unrecorded' BY <1>5
    <3> QED BY <1>11, <1>12, <1>13, <1>14, <3>1, <3>2 DEF Owns, Source
  <2> QED BY <1>1, <1>4, <1>9, <1>11, <1>14, <2>1 DEF Step
<1>19. ASSUME NEW v \in Writers, v # w PROVE Step(v)'
  <2>1. Step(v) /\ st'[v] = st[v] /\ st[v] \in Writer BY <1>14, <1>19, Before
  <2>2. st[v].cyc # None => Owns(v)'
    <3>1. SUFFICES ASSUME st[v].cyc # None PROVE Owns(v)' OBVIOUS
    <3>2. Owns(v) /\ st[v].cyc \in DOMAIN cycles BY <3>1, CycIs DEF Owns
    <3>3. st[v].cyc \in DOMAIN cycles' /\ cycles'[st[v].cyc] = cycles[st[v].cyc]
      BY <1>13, <3>2
    <3>4. \A u \in Writers : u # v => st'[u].cyc # st[v].cyc
      <4>1. st[v].cyc < n /\ st[v].cyc \in Nat BY <1>9, <3>1, <3>2, CycIs
      <4> QED BY <1>9, <1>11, <1>14, <3>2, <4>1 DEF Owns
    <3> QED BY <1>5, <2>1, <3>2, <3>3, <3>4 DEF Owns, Source
  <2>3. st[v].pc = "delete" => Chosen(v)'
    <3>1. st[v].sel \in Selections BY <2>1 DEF Writer
    <3>2. \A d \in DOMAIN cycles : \E e \in DOMAIN cycles' : d <= e
      <4>1. \A d \in DOMAIN cycles : d \in Nat BY <1>8 DEF Ids
      <4>2. \A d \in DOMAIN cycles : d \in DOMAIN cycles' /\ d <= d BY <1>13, <4>1
      <4> QED BY <4>2
    <3>3. \A c \in DOMAIN cycles' : \/ c \in DOMAIN cycles /\ cycles'[c].started = cycles[c].started
                                    \/ \A d \in DOMAIN cycles : d < c
      BY <1>9, <1>13
    <3> QED BY <1>8, <1>13, <2>1, <3>1, <3>2, <3>3, ChosenStays DEF Step
  <2> QED BY <1>1, <2>1, <2>2, <2>3 DEF Step
<1>20. SuccessIsComplete' BY <1>5, <1>12, <1>13 DEF WInv, SuccessIsComplete
<1>22. \A v \in Writers : Step(v)' BY <1>18, <1>19
<1>23. (\A v \in Writers : Step(v))' BY <1>22
<1> QED BY <1>15, <1>17, <1>20, <1>23 DEF WInv, TablesOK

\* The end of a cycle.
LEMMA FinishKept == ASSUME WInv, NEW w \in Writers, Finish(w) PROVE WInv'
<1> DEFINE n == st[w].cyc
<1>1. UNCHANGED <<now, started, seen, faults, evicted, abandoned, unrecorded, attempts, snapshots>>
  BY DEF Finish, Works, FinishCycle, history
<1>2. /\ seen \in [Discovery -> Seq(Digests)] /\ abandoned \subseteq Nat /\ evicted \subseteq Nat
      /\ st[w] \in Writer /\ TablesOK /\ unrecorded \subseteq Nat /\ now \in Nat /\ now \in 0..MaxNow /\ Step(w)
      /\ st \in [Writers -> Writer]
  BY Before
<1>3. st[w].pc \in {"go", "abort"} /\ st' = [st EXCEPT ![w] = Fresh]
  BY DEF Finish, AtEnd, At, Exit, To
<1>4. Owns(w) /\ n \in Nat /\ n \in DOMAIN cycles BY <1>3, CycIs DEF Owns
<1>5. PICK outcome \in Result(w) :
        cycles' = [cycles EXCEPT ![n].outcome = outcome, ![n].finished = now]
  BY DEF Finish, FinishCycle
<1>6. outcome \in {"success", "failure"} BY DEF Result
<1>7. /\ DOMAIN cycles' = DOMAIN cycles
      /\ cycles'[n] = [cycles[n] EXCEPT !.outcome = outcome, !.finished = now]
      /\ \A c \in DOMAIN cycles : c # n => cycles'[c] = cycles[c]
  BY <1>4, <1>5
<1>8. cycles[n] \in Cycle BY <1>2, <1>4 DEF TablesOK, Rows
<1>9. /\ cycles'[n] \in Cycle /\ cycles'[n].source = cycles[n].source
      /\ cycles'[n].started = cycles[n].started /\ cycles'[n].outcome = outcome
      /\ cycles'[n].finished = now
  BY <1>2, <1>6, <1>7, <1>8 DEF Cycle
<1> HIDE DEF n
<1>10. \A c \in DOMAIN cycles : /\ cycles'[c] \in Cycle
                                /\ cycles'[c].started = cycles[c].started
                                /\ cycles'[c].source = cycles[c].source
  BY <1>2, <1>7, <1>9 DEF TablesOK, Rows
<1>11. Ids(cycles) /\ Ids(cycles') /\ Ids(attempts') /\ Ids(snapshots')
  BY <1>1, <1>2, <1>7 DEF TablesOK, Ids
<1>12. TablesOK'
  <2>1. Rows' BY <1>1, <1>2, <1>7, <1>10 DEF TablesOK, Rows
  <2>2. Dated(cycles, now)'
    <3>1. SUFFICES ASSUME NEW c \in DOMAIN cycles
                   PROVE  /\ cycles'[c].started <= now
                          /\ cycles'[c].finished # None => cycles'[c].started <= cycles'[c].finished
      BY <1>1, <1>7 DEF Dated
    <3>2. /\ cycles[c].started <= now
          /\ cycles[c].finished # None => cycles[c].started <= cycles[c].finished
      BY <1>2 DEF TablesOK, Dated
    <3>3. CASE c = n BY <1>9, <3>2, <3>3
    <3>4. CASE c # n BY <1>7, <3>2, <3>4
    <3> QED BY <3>3, <3>4
  <2>3. NewestFresh(cycles, now)'
    BY <1>1, <1>2, <1>7, <1>10 DEF TablesOK, NewestFresh
  <2> QED BY <1>11, <2>1, <2>2, <2>3 DEF TablesOK
<1>13. st' \in [Writers -> Writer] /\ st'[w] = Fresh /\ \A v \in Writers : v # w => st'[v] = st[v]
  BY <1>2, <1>3, FreshComes
<1>14. TypeOK' BY <1>1, <1>2, <1>12, <1>13, Typed
<1>15. Fresh.pc = "idle" /\ Fresh.cyc = None BY DEF Fresh
<1>16. Step(w)' BY <1>13, <1>15 DEF Step
<1>17. ASSUME NEW v \in Writers, v # w PROVE Step(v)'
  <2>1. Step(v) /\ st'[v] = st[v] /\ st[v] \in Writer BY <1>13, <1>17, Before
  <2>2. st[v].cyc # None => Owns(v)'
    <3>1. SUFFICES ASSUME st[v].cyc # None PROVE Owns(v)' OBVIOUS
    <3>2. Owns(v) /\ st[v].cyc \in DOMAIN cycles BY <3>1, CycIs DEF Owns
    <3>3. st[v].cyc # n BY <1>4, <1>17 DEF Owns, n
    <3>4. st[v].cyc \in DOMAIN cycles' /\ cycles'[st[v].cyc] = cycles[st[v].cyc]
      BY <1>7, <3>2, <3>3
    <3>5. \A u \in Writers : u # v => st'[u].cyc # st[v].cyc
      BY <1>13, <1>15, <3>1, <3>2 DEF Owns
    <3> QED BY <1>1, <2>1, <3>2, <3>4, <3>5 DEF Owns, Source
  <2>3. st[v].pc = "delete" => Chosen(v)'
    <3>1. st[v].sel \in Selections BY <2>1 DEF Writer
    <3>2. \A d \in DOMAIN cycles : \E e \in DOMAIN cycles' : d <= e
      <4>1. \A d \in DOMAIN cycles : d \in Nat BY <1>11 DEF Ids
      <4>2. \A d \in DOMAIN cycles : d \in DOMAIN cycles' /\ d <= d BY <1>7, <4>1
      <4> QED BY <4>2
    <3> QED BY <1>7, <1>10, <1>11, <2>1, <3>1, <3>2, ChosenStays DEF Step
  <2> QED BY <1>1, <2>1, <2>2, <2>3 DEF Step
<1>18. SuccessIsComplete'
  <2>1. SUFFICES ASSUME NEW c \in DOMAIN cycles, c \in unrecorded,
                        cycles[c].source = "collector"
                 PROVE  cycles'[c].outcome # "success"
    BY <1>1, <1>7, <1>10 DEF SuccessIsComplete
  <2>2. CASE c = n
    <3>1. Source(w) = "collector" /\ ~st[w].client BY <1>4, <2>1, <2>2 DEF Owns, n
    <3>2. w \in Collectors /\ w \notin Pulses BY <3>1, WritersAssumption DEF Source
    <3>3. outcome # "success" BY <3>1, <3>2 DEF Result
    <3> QED BY <1>9, <2>2, <3>3
  <2>3. CASE c # n BY <1>7, <2>1, <2>3 DEF WInv, SuccessIsComplete
  <2> QED BY <2>2, <2>3
<1>20. \A v \in Writers : Step(v)' BY <1>16, <1>17
<1>21. (\A v \in Writers : Step(v))' BY <1>20
<1> QED BY <1>12, <1>14, <1>18, <1>21 DEF WInv, TablesOK

\* Time passes.
LEMMA TickKept == ASSUME WInv, Tick PROVE WInv'
<1>1. UNCHANGED <<cycles, attempts, snapshots, st, started, faults, evicted, abandoned, unrecorded, seen>>
  BY DEF Tick, tables, history
<1>2. /\ seen \in [Discovery -> Seq(Digests)] /\ abandoned \subseteq Nat /\ evicted \subseteq Nat
      /\ TablesOK /\ unrecorded \subseteq Nat /\ now \in Nat
      /\ st \in [Writers -> Writer]
  BY Before
<1>3. now < MaxNow /\ now' = now + 1 /\ now' \in 0..MaxNow
  BY <1>2, WritersAssumption DEF Tick
<1>4. TablesOK'
  <2>1. Rows' /\ Ids(cycles') /\ Ids(attempts') /\ Ids(snapshots')
    BY <1>1, <1>2 DEF TablesOK, Rows
  <2>2. Dated(cycles, now)'
    <3>1. \A c \in DOMAIN cycles : cycles[c].started \in Nat BY <1>2 DEF TablesOK, Rows, Cycle
    <3>2. \A c \in DOMAIN cycles : cycles[c].started <= now + 1
      BY <1>2, <3>1 DEF TablesOK, Dated
    <3> QED BY <1>1, <1>2, <1>3, <3>2 DEF TablesOK, Dated
  <2>3. NewestFresh(cycles, now)'
    <3>1. SUFFICES ASSUME DOMAIN cycles # {}
                   PROVE  \E i \in DOMAIN cycles : /\ \A j \in DOMAIN cycles : j <= i
                                                   /\ now + 1 <= cycles[i].started + Retention
      BY <1>1, <1>3 DEF NewestFresh
    <3>2. cycles # Empty BY <3>1 DEF Empty
    <3> DEFINE m == Max(DOMAIN cycles)
    <3>3. cycles[m].started + Retention > now BY <3>2 DEF Tick
    <3>4. m \in DOMAIN cycles /\ \A j \in DOMAIN cycles : j <= m
      BY <1>2, <3>1, MaxIs DEF TablesOK, Ids
    <3>5. cycles[m].started \in Nat /\ Retention \in Nat
      BY <1>2, <3>4, TelemetryAssumption DEF TablesOK, Rows, Cycle
    <3> HIDE DEF m
    <3>6. now + 1 <= cycles[m].started + Retention BY <1>2, <3>3, <3>5
    <3> QED BY <3>4, <3>6
  <2> QED BY <2>1, <2>2, <2>3 DEF TablesOK
<1>5. TypeOK' BY <1>1, <1>2, <1>3, <1>4, Typed
<1>6. ASSUME NEW v \in Writers PROVE Step(v)'
  <2>1. Step(v) /\ st'[v] = st[v] /\ st[v] \in Writer BY <1>1, Before
  <2>2. st[v].pc # "idle" => st[v].at + Retention > now BY DEF Tick, At
  <2>3. st[v].at \in Nat /\ Retention \in Nat BY <2>1, TelemetryAssumption DEF Writer
  <2>4. st[v].pc # "idle" => st[v].at <= now' /\ now' <= st[v].at + Retention
    BY <1>2, <1>3, <2>1, <2>2, <2>3 DEF Step
  <2>5. Owns(v) => Owns(v)' BY <1>1 DEF Owns, Source
  <2>6. Chosen(v) => Chosen(v)' BY <1>1 DEF Chosen, OldBy
  <2> QED BY <2>1, <2>4, <2>5, <2>6 DEF Step
<1>7. SuccessIsComplete' BY <1>1 DEF WInv, SuccessIsComplete
<1>8. (\A v \in Writers : Step(v))' BY <1>6
<1> QED BY <1>4, <1>5, <1>7, <1>8 DEF WInv, TablesOK

\* What earlier cycles left.
LEMMA WInvInit == ASSUME Init PROVE WInv
<1> USE DEF Init
<1>1. now = StartTime /\ now \in 0..MaxNow BY WritersAssumption
<1>2. TablesOK BY OldAssumption DEF TablesOK, Rows
<1>3. Fresh \in Writer BY FreshIs
<1>4. st \in [Writers -> Writer] /\ \A w \in Writers : st[w] = Fresh BY <1>3
<1>5. seen \in [Discovery -> Seq(Digests)]
  <2>1. SUFFICES ASSUME NEW r \in Discovery PROVE Stored(r) \in Seq(Digests)
    OBVIOUS
  <2> DEFINE ids == OfRoute(snapshots, r) \ Duplicates(snapshots)
  <2>2. ids \subseteq DOMAIN snapshots BY DEF OfRoute
  <2>3. Ids(snapshots) BY <1>2 DEF TablesOK
  <2>4. ids \in SUBSET DOMAIN snapshots BY <2>2
  <2>5. ids \subseteq Nat /\ IsFiniteSet(ids) /\ Cardinality(ids) \in Nat
    BY <2>3, <2>4, FS_Subset, FS_CardinalityType DEF Ids
  <2> HIDE DEF ids
  <2>6. ASSUME NEW k \in 1..Cardinality(ids) PROVE snapshots[Nth(ids, k)].digest \in Digests
    <3>1. \E i \in ids : Rank(ids, i) = k BY <2>5, RankOnto
    <3>2. Nth(ids, k) \in ids BY <3>1 DEF Nth
    <3> QED BY <1>2, <2>2, <3>2 DEF TablesOK, Rows, Snapshot
  <2>7. [k \in 1..Cardinality(ids) |-> snapshots[Nth(ids, k)].digest] \in Seq(Digests)
    BY <2>5, <2>6
  <2> QED BY <2>7 DEF Stored, ids
<1>6. TypeOK BY <1>1, <1>2, <1>4, <1>5, WritersAssumption DEF TypeOK, TablesOK, Rows
<1>7. Fresh.pc = "idle" /\ Fresh.cyc = None BY DEF Fresh
<1>8. \A w \in Writers : Step(w) BY <1>4, <1>7 DEF Step
<1>9. SuccessIsComplete BY DEF SuccessIsComplete
<1> QED BY <1>2, <1>6, <1>8, <1>9 DEF WInv, TablesOK

\* Every step keeps the invariant.
LEMMA WInvNext == ASSUME WInv, [Next]_vars PROVE WInv'
<1>1. CASE UNCHANGED vars
  BY <1>1 DEF vars, tables, WInv, TypeOK, Ids, Dated, NewestFresh, Step, Owns, Chosen, OldBy,
              Source, SuccessIsComplete
<1>2. CASE Tick BY <1>2, TickKept
<1>3. ASSUME NEW w \in Writers,
             \/ Begin(w) \/ CountPages(w) \/ SelectAttempts(w) \/ SelectCycles(w)
             \/ PruneDelete(w) \/ StartCycle(w)
             \/ StartFails(w) \/ Request(w) \/ Try(w) \/ TooLate(w) \/ Accept(w)
             \/ Reject(w) \/ Compare(w) \/ Record(w) \/ SnapshotFails(w)
             \/ Finish(w) \/ FinishFails(w) \/ Kill(w) \/ Restart(w)
      PROVE  WInv'
  <2>1. CASE Begin(w) BY <2>1, BeginKept
  <2>2. CASE PruneDelete(w) BY <2>2, PruneDeleteKept
  <2>3. CASE StartCycle(w) BY <2>3, StartCycleKept
  <2>4. CASE StartFails(w) BY <2>4, StartFailsKept
  <2>5. CASE Request(w) BY <2>5, RequestKept
  <2>6. CASE Try(w) BY <2>6, TryKept
  <2>7. CASE TooLate(w) BY <2>7, TooLateKept
  <2>8. CASE Accept(w) BY <2>8, AcceptKept
  <2>9. CASE Reject(w) BY <2>9, RejectKept
  <2>10. CASE Compare(w) BY <2>10, CompareKept
  <2>11. CASE Record(w) BY <2>11, RecordKept
  <2>12. CASE SnapshotFails(w) BY <2>12, SnapshotFailsKept
  <2>13. CASE Finish(w) BY <2>13, FinishKept
  <2>14. CASE FinishFails(w) BY <2>14, FinishFailsKept
  <2>15. CASE Kill(w) BY <2>15, KillKept
  <2>16. CASE Restart(w) BY <2>16, RestartKept
  <2>17. CASE CountPages(w) BY <2>17, CountPagesKept
  <2>18. CASE SelectAttempts(w) BY <2>18, SelectAttemptsKept
  <2>19. CASE SelectCycles(w) BY <2>19, SelectCyclesKept
  <2> QED BY <1>3, <2>1, <2>2, <2>3, <2>4, <2>5, <2>6, <2>7, <2>8, <2>9, <2>10, <2>11, <2>12,
             <2>13, <2>14, <2>15, <2>16, <2>17, <2>18, <2>19
<1> QED BY <1>1, <1>2, <1>3 DEF Next

-----------------------------------------------------------------------------
(* The theorems.                                                           *)

\* Rows refer to rows that are there, the cycle of a process is its own and
\* running, and no cycle that a prune is about to delete is or becomes one of
\* those, although ids are given out again: start_cycle, record_attempt,
\* finish_cycle and prune of telemetry.py, called by any number of processes
\* that are killed or lose the store at any point.
THEOREM Telemetry == Spec => []WInv
<1>1. Init => WInv BY WInvInit
<1>2. WInv /\ [Next]_vars => WInv' BY WInvNext
<1> QED BY <1>1, <1>2, PTL DEF Spec

\* Types and references of the rows, and the types of the processes.
THEOREM TelemetryTypes == Spec => []TypeOK
<1>1. WInv => TypeOK BY DEF WInv
<1> QED BY <1>1, Telemetry, PTL

\* A collector cycle that counts as a success has a record of every try, also
\* when the Client lost the store in the middle (telemetry_degraded).
THEOREM CompleteSuccess == Spec => []SuccessIsComplete
<1>1. WInv => SuccessIsComplete BY DEF WInv
<1> QED BY <1>1, Telemetry, PTL

-----------------------------------------------------------------------------
(* The history of the discovery fields.                                    *)

\* What the table of the snapshots is.
SnapsOK(snaps) == Ids(snaps) /\ \A i \in DOMAIN snaps : snaps[i] \in Snapshot

\* The snapshots before another on its route.
Prior(snaps, i) == {j \in DOMAIN snaps : j < i /\ snaps[j].route = snaps[i].route}

\* The digest before a snapshot, if there is one.
LEMMA PreviousIs ==
  ASSUME NEW snaps, SnapsOK(snaps), NEW i \in DOMAIN snaps
  PROVE  \/ Previous(snaps, i) = None /\ Prior(snaps, i) = {}
         \/ \E m \in Prior(snaps, i) :
              (\A j \in Prior(snaps, i) : j <= m) /\ Previous(snaps, i) = snaps[m].digest
<1> DEFINE S == Prior(snaps, i)
<1>1. Previous(snaps, i) = IF S = {} THEN None ELSE snaps[Max(S)].digest
  BY DEF Previous, Prior
<1>2. S \in SUBSET DOMAIN snaps BY DEF Prior
<1> HIDE DEF S
<1>3. IsFiniteSet(S) /\ S \subseteq Nat BY <1>2, FS_Subset DEF SnapsOK, Ids
<1>4. S # {} => Max(S) \in S /\ \A j \in S : j <= Max(S) BY <1>3, MaxIs
<1> QED BY <1>1, <1>4 DEF S

\* Duplicates after a snapshot have its digest.
LEMMA Chain ==
  ASSUME NEW snaps, SnapsOK(snaps), NEW p \in DOMAIN snaps, NEW q \in DOMAIN snaps, p <= q,
         snaps[q].route = snaps[p].route,
         \A j \in DOMAIN snaps :
           p < j /\ j <= q /\ snaps[j].route = snaps[p].route => j \in Duplicates(snaps)
  PROVE  snaps[q].digest = snaps[p].digest
<1> DEFINE bad == {j \in DOMAIN snaps : /\ p <= j /\ j <= q /\ snaps[j].route = snaps[p].route
                                        /\ snaps[j].digest # snaps[p].digest}
<1>1. SUFFICES ASSUME snaps[q].digest # snaps[p].digest PROVE FALSE OBVIOUS
<1>2. \A j \in DOMAIN snaps : j \in Nat BY DEF SnapsOK, Ids
<1>3. q \in bad BY <1>1, <1>2
<1>4. bad \in SUBSET DOMAIN snaps OBVIOUS
<1> HIDE DEF bad
<1>5. IsFiniteSet(bad) /\ bad \subseteq Nat BY <1>4, FS_Subset DEF SnapsOK, Ids
<1>6. PICK e \in bad : \A j \in bad : e <= j BY <1>3, <1>5, MinIs
<1>7. /\ e \in DOMAIN snaps /\ p <= e /\ e <= q /\ snaps[e].route = snaps[p].route
      /\ snaps[e].digest # snaps[p].digest
  BY <1>6 DEF bad
<1>8. p < e BY <1>2, <1>7
<1>9. Previous(snaps, e) = snaps[e].digest BY <1>7, <1>8 DEF Duplicates
<1>10. p \in Prior(snaps, e) BY <1>7, <1>8 DEF Prior
<1>11. PICK m \in Prior(snaps, e) :
         (\A j \in Prior(snaps, e) : j <= m) /\ Previous(snaps, e) = snaps[m].digest
  BY <1>7, <1>10, PreviousIs
<1>12. p <= m /\ m < e /\ m \in DOMAIN snaps /\ snaps[m].route = snaps[p].route
  BY <1>7, <1>10, <1>11 DEF Prior
<1>13. m <= q /\ ~(e <= m) BY <1>2, <1>7, <1>12
<1>14. m \notin bad BY <1>6, <1>13
<1>15. snaps[m].digest = snaps[p].digest BY <1>12, <1>13, <1>14 DEF bad
<1> QED BY <1>7, <1>9, <1>11, <1>15

\* Before a snapshot, or at it, is one that is no duplicate and has its digest.
LEMMA LastChange ==
  ASSUME NEW snaps, SnapsOK(snaps), NEW i \in DOMAIN snaps
  PROVE  \E p \in DOMAIN snaps \ Duplicates(snaps) :
           /\ p <= i /\ snaps[p].route = snaps[i].route /\ snaps[p].digest = snaps[i].digest
           /\ \A j \in DOMAIN snaps :
                p < j /\ j <= i /\ snaps[j].route = snaps[p].route => j \in Duplicates(snaps)
<1> DEFINE all == {j \in DOMAIN snaps : j <= i /\ snaps[j].route = snaps[i].route}
           S == all \ Duplicates(snaps)
<1>1. \A j \in DOMAIN snaps : j \in Nat /\ snaps[j].digest # None
  BY TelemetryAssumption DEF SnapsOK, Ids, Snapshot
<1>2. all \in SUBSET DOMAIN snaps /\ S \in SUBSET DOMAIN snaps OBVIOUS
<1>3. i \in all BY <1>1
<1>4. \A T \in SUBSET DOMAIN snaps : IsFiniteSet(T) /\ T \subseteq Nat
  BY FS_Subset DEF SnapsOK, Ids
<1>5. PICK m \in all : \A j \in all : m <= j
  <2> HIDE DEF all
  <2> QED BY <1>2, <1>3, <1>4, MinIs
<1>6. m \notin Duplicates(snaps)
  <2>1. m \in DOMAIN snaps OBVIOUS
  <2>2. Prior(snaps, m) = {}
    <3>1. SUFFICES ASSUME NEW j \in Prior(snaps, m) PROVE FALSE OBVIOUS
    <3>2. j \in DOMAIN snaps /\ j < m /\ snaps[j].route = snaps[m].route BY <3>1 DEF Prior
    <3>3. j \in all BY <1>1, <2>1, <3>2
    <3> QED BY <1>1, <1>5, <2>1, <3>2, <3>3
  <2>3. Previous(snaps, m) = None BY <2>1, <2>2, PreviousIs
  <2> QED BY <1>1, <2>1, <2>3 DEF Duplicates
<1>7. S # {} BY <1>6
<1>8. PICK p \in S : \A j \in S : j <= p
  <2> HIDE DEF S
  <2> QED BY <1>2, <1>4, <1>7, MaxIs
<1>9. /\ p \in DOMAIN snaps \ Duplicates(snaps) /\ p <= i /\ snaps[p].route = snaps[i].route
  OBVIOUS
<1>10. \A j \in DOMAIN snaps :
         p < j /\ j <= i /\ snaps[j].route = snaps[p].route => j \in Duplicates(snaps)
  <2>1. SUFFICES ASSUME NEW j \in DOMAIN snaps, p < j, j <= i, snaps[j].route = snaps[p].route,
                        j \notin Duplicates(snaps)
                 PROVE  FALSE
    OBVIOUS
  <2>2. j \in S BY <1>9, <2>1
  <2> QED BY <1>1, <1>8, <1>9, <2>1, <2>2
<1> HIDE DEF all, S
<1>11. snaps[i].digest = snaps[p].digest BY <1>9, <1>10, Chain
<1> QED BY <1>9, <1>10, <1>11

\* The last of the first snapshots of a route keeps its digest when duplicates
\* among them are left out.
LEMMA MaxKept ==
  ASSUME NEW snaps, SnapsOK(snaps), NEW S \in SUBSET DOMAIN snaps, S # {}, NEW route,
         \A j \in S : snaps[j].route = route,
         \A j \in S : \A k \in DOMAIN snaps : k <= j /\ snaps[k].route = route => k \in S,
         NEW gone, gone \cap DOMAIN snaps \subseteq Duplicates(snaps)
  PROVE  /\ S \ gone # {} /\ Max(S \ gone) \in S /\ Max(S) \in S
         /\ snaps[Max(S \ gone)].digest = snaps[Max(S)].digest
<1>1. \A T \in SUBSET DOMAIN snaps : IsFiniteSet(T) /\ T \subseteq Nat
  BY FS_Subset DEF SnapsOK, Ids
<1>2. S \ gone \in SUBSET DOMAIN snaps OBVIOUS
<1>3. PICK m : m = Max(S) OBVIOUS
<1>4. m \in S /\ \A j \in S : j <= m BY <1>1, <1>3, MaxIs
<1>5. m \in DOMAIN snaps BY <1>4
<1>6. PICK p \in DOMAIN snaps \ Duplicates(snaps) :
        /\ p <= m /\ snaps[p].route = snaps[m].route /\ snaps[p].digest = snaps[m].digest
        /\ \A j \in DOMAIN snaps :
             p < j /\ j <= m /\ snaps[j].route = snaps[p].route => j \in Duplicates(snaps)
  BY <1>5, LastChange
<1>7. p \in S /\ p \notin gone BY <1>4, <1>6
<1>8. PICK k : k = Max(S \ gone) OBVIOUS
<1>9. k \in S \ gone /\ \A j \in S \ gone : j <= k BY <1>1, <1>2, <1>7, <1>8, MaxIs
<1>10. k \in DOMAIN snaps /\ snaps[k].route = snaps[p].route /\ p <= k /\ k <= m
  BY <1>4, <1>6, <1>7, <1>9
<1>11. \A j \in DOMAIN snaps :
         p < j /\ j <= k /\ snaps[j].route = snaps[p].route => j \in Duplicates(snaps)
  <2>1. \A j \in DOMAIN snaps : j \in Nat BY DEF SnapsOK, Ids
  <2>2. \A j \in DOMAIN snaps : j <= k => j <= m BY <1>5, <1>10, <2>1
  <2> QED BY <1>6, <2>2
<1>12. snaps[k].digest = snaps[p].digest BY <1>6, <1>10, <1>11, Chain
<1> QED BY <1>3, <1>4, <1>6, <1>7, <1>8, <1>9, <1>12

\* Without some of its duplicates, a table has the others.
LEMMA DuplicatesGone ==
  ASSUME NEW snaps, SnapsOK(snaps), NEW gone, gone \cap DOMAIN snaps \subseteq Duplicates(snaps),
         NEW new, new = Delete(snaps, gone)
  PROVE  /\ SnapsOK(new) /\ DOMAIN new = DOMAIN snaps \ gone
         /\ \A i \in DOMAIN new : new[i] = snaps[i]
         /\ Duplicates(new) = Duplicates(snaps) \ gone
<1>1. /\ Ids(new) /\ DOMAIN new = DOMAIN snaps \ gone
      /\ \A i \in DOMAIN new : i \in DOMAIN snaps /\ new[i] = snaps[i]
  <2>1. Ids(snaps) BY DEF SnapsOK
  <2> QED BY <2>1, Deleted
<1>2. SnapsOK(new) BY <1>1 DEF SnapsOK
<1>3. ASSUME NEW i \in DOMAIN new PROVE Previous(new, i) = Previous(snaps, i)
  <2> DEFINE S == Prior(snaps, i)
             T == Prior(new, i)
  <2>1. Previous(snaps, i) = IF S = {} THEN None ELSE snaps[Max(S)].digest
    BY DEF Previous, Prior
  <2>2. Previous(new, i) = IF T = {} THEN None ELSE new[Max(T)].digest
    BY DEF Previous, Prior
  <2>3. T = S \ gone BY <1>1 DEF Prior
  <2>4. /\ S \in SUBSET DOMAIN snaps
        /\ \A j \in S : snaps[j].route = snaps[i].route
        /\ \A j \in S : \A k \in DOMAIN snaps : k <= j /\ snaps[k].route = snaps[i].route => k \in S
    <3>1. \A j \in DOMAIN snaps : j \in Nat BY DEF SnapsOK, Ids
    <3>2. i \in Nat BY <1>1, <3>1
    <3>3. \A j, k \in DOMAIN snaps : k <= j /\ j < i => k < i BY <3>1, <3>2
    <3> QED BY <3>3 DEF Prior
  <2> HIDE DEF S, T
  <2>5. CASE S = {} BY <2>1, <2>2, <2>3, <2>5
  <2>6. CASE S # {}
    <3>1. /\ S \ gone # {} /\ Max(S \ gone) \in S
          /\ snaps[Max(S \ gone)].digest = snaps[Max(S)].digest
      BY <2>4, <2>6, MaxKept
    <3>2. Max(T) \in T
      <4>1. T \in SUBSET DOMAIN new BY <2>3, <2>4, <1>1
      <4>2. IsFiniteSet(T) /\ T \subseteq Nat BY <1>1, <4>1, FS_Subset DEF Ids
      <4> QED BY <2>3, <3>1, <4>2, MaxIs
    <3>3. Max(T) \in DOMAIN new BY <1>1, <2>3, <2>4, <3>2
    <3> QED BY <1>1, <2>1, <2>2, <2>3, <2>6, <3>1, <3>3
  <2> QED BY <2>5, <2>6
<1>4. Duplicates(new) = Duplicates(snaps) \ gone BY <1>1, <1>3 DEF Duplicates
<1> QED BY <1>1, <1>2, <1>4

\* Then what repeats still does, and the ids are never given out again.
LEMMA RepeatingKept ==
  ASSUME NEW snaps, SnapsOK(snaps), NEW gone, gone \cap DOMAIN snaps \subseteq Duplicates(snaps),
         NEW new, new = Delete(snaps, gone), Repeating(snaps, Duplicates(snaps)),
         NEW ids \in SUBSET Nat, Repeating(snaps, ids)
  PROVE  Repeating(new, ids)
<1>1. /\ DOMAIN new = DOMAIN snaps \ gone
      /\ Duplicates(new) = Duplicates(snaps) \ gone
  BY DuplicatesGone
<1>2. SUFFICES ASSUME NEW i \in ids
               PROVE  /\ \E j \in DOMAIN new : i < j
                      /\ i \in DOMAIN new => i \in Duplicates(new)
  BY DEF Repeating
<1>3. PICK j \in DOMAIN snaps : i < j BY <1>2 DEF Repeating
<1>4. Ids(snaps) BY DEF SnapsOK
<1>5. PICK m \in DOMAIN snaps : \A k \in DOMAIN snaps : k <= m BY <1>3, <1>4, MaxIs DEF Ids
<1>6. i \in Nat /\ \A k \in DOMAIN snaps : k \in Nat BY <1>4 DEF Ids
<1>7. m \notin Duplicates(snaps)
  <2>1. SUFFICES ASSUME m \in Duplicates(snaps) PROVE FALSE OBVIOUS
  <2>2. PICK k \in DOMAIN snaps : m < k BY <2>1 DEF Repeating
  <2> QED BY <1>5, <1>6, <2>2
<1>8. m \in DOMAIN new /\ i < m BY <1>1, <1>3, <1>5, <1>6, <1>7
<1>9. i \in DOMAIN new => i \in Duplicates(snaps) BY <1>1, <1>2 DEF Repeating
<1> QED BY <1>1, <1>8, <1>9

\* The digests of a route, by the ranks of their ids.
LEMMA StoredIs ==
  ASSUME TablesOK, NEW r
  PROVE  LET ids == OfRoute(snapshots, r) \ Duplicates(snapshots) IN
         /\ ids \subseteq DOMAIN snapshots /\ ids \subseteq Nat /\ IsFiniteSet(ids)
         /\ Cardinality(ids) \in Nat
         /\ \A k \in 1..Cardinality(ids) : Nth(ids, k) \in ids /\ Rank(ids, Nth(ids, k)) = k
         /\ Stored(r) = [k \in 1..Cardinality(ids) |-> snapshots[Nth(ids, k)].digest]
         /\ Stored(r) \in Seq(Digests) /\ Len(Stored(r)) = Cardinality(ids)
<1> DEFINE ids == OfRoute(snapshots, r) \ Duplicates(snapshots)
<1>1. ids \in SUBSET DOMAIN snapshots BY DEF OfRoute
<1>2. Ids(snapshots) BY DEF TablesOK
<1>3. ids \subseteq Nat /\ IsFiniteSet(ids) /\ Cardinality(ids) \in Nat
  BY <1>1, <1>2, FS_Subset, FS_CardinalityType DEF Ids
<1> HIDE DEF ids
<1>4. ASSUME NEW k \in 1..Cardinality(ids)
      PROVE  /\ Nth(ids, k) \in ids /\ Rank(ids, Nth(ids, k)) = k
             /\ snapshots[Nth(ids, k)].digest \in Digests
  <2>1. \E i \in ids : Rank(ids, i) = k BY <1>3, RankOnto
  <2>2. Nth(ids, k) \in ids /\ Rank(ids, Nth(ids, k)) = k BY <2>1 DEF Nth
  <2> QED BY <1>1, <2>2 DEF TablesOK, Rows, Snapshot
<1>5. Stored(r) = [k \in 1..Cardinality(ids) |-> snapshots[Nth(ids, k)].digest]
  BY DEF Stored, ids
<1>6. Stored(r) \in Seq(Digests) BY <1>3, <1>4, <1>5
<1>7. DOMAIN Stored(r) = 1..Cardinality(ids) BY <1>5
<1>8. Len(Stored(r)) = Cardinality(ids) BY <1>3, <1>6, <1>7
<1> QED BY <1>1, <1>3, <1>4, <1>5, <1>6, <1>8 DEF ids

\* The last digest of a route is that of its largest id.
LEMMA LastStored ==
  ASSUME TablesOK, NEW r
  PROVE  /\ OfRoute(snapshots, r) = {} => Stored(r) = <<>> /\ LatestDigest(r) = None
         /\ OfRoute(snapshots, r) # {} => /\ Stored(r) # <<>>
                                          /\ Last(Stored(r)) = LatestDigest(r)
                                          /\ LatestDigest(r) \in Digests
<1> DEFINE all == OfRoute(snapshots, r)
           ids == all \ Duplicates(snapshots)
           n == Cardinality(ids)
<1>1. /\ ids \subseteq DOMAIN snapshots /\ ids \subseteq Nat /\ IsFiniteSet(ids) /\ n \in Nat
      /\ \A k \in 1..n : Nth(ids, k) \in ids /\ Rank(ids, Nth(ids, k)) = k
      /\ Stored(r) = [k \in 1..n |-> snapshots[Nth(ids, k)].digest]
      /\ Stored(r) \in Seq(Digests) /\ Len(Stored(r)) = n
  BY StoredIs
<1>2. n = 0 <=> ids = {} BY <1>1, FS_EmptySet
<1>3. LatestDigest(r) = IF all = {} THEN None ELSE snapshots[Max(all)].digest BY DEF LatestDigest
<1>4. all # {} => ids # {} /\ snapshots[Max(ids)].digest = snapshots[Max(all)].digest
  <2>1. SnapsOK(snapshots) BY DEF TablesOK, Rows, SnapsOK
  <2>2. /\ all \in SUBSET DOMAIN snapshots
        /\ \A j \in all : snapshots[j].route = r
        /\ \A j \in all : \A k \in DOMAIN snapshots : k <= j /\ snapshots[k].route = r => k \in all
    BY DEF OfRoute
  <2>3. Duplicates(snapshots) \cap DOMAIN snapshots \subseteq Duplicates(snapshots) OBVIOUS
  <2> HIDE DEF all
  <2> QED BY <2>1, <2>2, <2>3, MaxKept
<1>5. all = {} => ids = {} OBVIOUS
<1> HIDE DEF n, ids
<1>6. ASSUME ids # {}
      PROVE  Stored(r) # <<>> /\ Last(Stored(r)) = snapshots[Max(ids)].digest
             /\ snapshots[Max(ids)].digest \in Digests
  <2>1. n # 0 /\ n \in 1..n BY <1>1, <1>2, <1>6
  <2>2. Max(ids) \in ids /\ \A j \in ids : j <= Max(ids) BY <1>1, <1>6, MaxIs
  <2>3. Nth(ids, n) = Max(ids)
    <3>1. Nth(ids, n) \in ids /\ Rank(ids, Nth(ids, n)) = n BY <1>1, <2>1
    <3>2. {j \in ids : j <= Max(ids)} = ids BY <2>2
    <3>3. Rank(ids, Max(ids)) = n BY <3>2 DEF Rank, n
    <3>4. \A j \in ids : j < Max(ids) => Rank(ids, j) < Rank(ids, Max(ids))
      BY <1>1, <2>2, RankGrows
    <3>5. Nth(ids, n) \in Nat /\ Max(ids) \in Nat /\ Nth(ids, n) <= Max(ids) BY <1>1, <2>2, <3>1
    <3>6. ~(Nth(ids, n) < Max(ids)) BY <1>1, <3>1, <3>3, <3>4
    <3> QED BY <3>5, <3>6
  <2>4. Last(Stored(r)) = Stored(r)[n] BY <1>1 DEF Last
  <2>5. Stored(r) # <<>> BY <1>1, <2>1
  <2>6. snapshots[Max(ids)].digest \in Digests BY <1>1, <2>2 DEF TablesOK, Rows, Snapshot
  <2> QED BY <1>1, <2>1, <2>3, <2>4, <2>5, <2>6
<1>7. ids = {} => Stored(r) = <<>> BY <1>1, <1>2
<1> HIDE DEF all
<1>8. all # {} => Stored(r) # <<>> /\ Last(Stored(r)) = LatestDigest(r) /\ LatestDigest(r) \in Digests
  BY <1>3, <1>4, <1>6
<1>9. all = {} => Stored(r) = <<>> /\ LatestDigest(r) = None BY <1>3, <1>5, <1>7
<1> QED BY <1>8, <1>9 DEF all

\* The latest digest and the changes of a route stay when duplicates go.
LEMMA StoredKept ==
  ASSUME TablesOK, NEW gone, gone \cap DOMAIN snapshots \subseteq Duplicates(snapshots),
         snapshots' = Delete(snapshots, gone), NEW r
  PROVE  Stored(r)' = Stored(r) /\ LatestDigest(r)' = LatestDigest(r)
<1> DEFINE all == OfRoute(snapshots, r)
           ids == all \ Duplicates(snapshots)
<1>1. SnapsOK(snapshots) BY DEF TablesOK, Rows, SnapsOK
<1> HIDE DEF ids, all
<1>2. /\ DOMAIN snapshots' = DOMAIN snapshots \ gone
      /\ \A i \in DOMAIN snapshots' : snapshots'[i] = snapshots[i]
      /\ Duplicates(snapshots') = Duplicates(snapshots) \ gone
  <2>1. Ids(snapshots) BY DEF TablesOK
  <2>2. Duplicates(snapshots') = Duplicates(snapshots) \ gone BY <1>1, DuplicatesGone
  <2>3. DOMAIN snapshots' = DOMAIN snapshots \ gone BY <2>1, Deleted
  <2>4. \A i \in DOMAIN snapshots' : snapshots'[i] = snapshots[i] BY <2>1, Deleted
  <2> QED BY <2>2, <2>3, <2>4
<1> USE DEF ids, all
<1>3. OfRoute(snapshots', r) = all \ gone BY <1>2 DEF OfRoute
<1>4. OfRoute(snapshots', r) \ Duplicates(snapshots') = ids
  <2>1. all \subseteq DOMAIN snapshots BY DEF OfRoute
  <2>2. (all \ gone) \ (Duplicates(snapshots) \ gone) = ids BY <2>1
  <2> QED BY <1>2, <1>3, <2>2
<1>5. Stored(r)' = Stored(r)
  <2>1. /\ \A k \in 1..Cardinality(ids) : Nth(ids, k) \in ids
        /\ Stored(r) = [k \in 1..Cardinality(ids) |-> snapshots[Nth(ids, k)].digest]
    BY StoredIs
  <2>2. Stored(r)' = [k \in 1..Cardinality(ids) |-> snapshots'[Nth(ids, k)].digest]
    <3> HIDE DEF ids
    <3> QED BY <1>4 DEF Stored
  <2>3. \A i \in ids : snapshots'[i] = snapshots[i]
    <3>1. ids \subseteq DOMAIN snapshots \ gone BY DEF OfRoute
    <3> QED BY <1>2, <3>1
  <2> HIDE DEF ids
  <2> QED BY <2>1, <2>2, <2>3
<1>6. LatestDigest(r)' = LatestDigest(r)
  <2>1. LatestDigest(r) = IF all = {} THEN None ELSE snapshots[Max(all)].digest BY DEF LatestDigest
  <2>2. LatestDigest(r)' = IF all \ gone = {} THEN None ELSE snapshots'[Max(all \ gone)].digest
    <3> HIDE DEF all
    <3> QED BY <1>3 DEF LatestDigest
  <2>3. /\ all \in SUBSET DOMAIN snapshots
        /\ \A j \in all : snapshots[j].route = r
        /\ \A j \in all : \A k \in DOMAIN snapshots : k <= j /\ snapshots[k].route = r => k \in all
    BY DEF OfRoute
  <2> HIDE DEF all
  <2>4. CASE all = {} BY <2>1, <2>2, <2>4
  <2>5. CASE all # {}
    <3>1. /\ all \ gone # {}
          /\ snapshots[Max(all \ gone)].digest = snapshots[Max(all)].digest
      BY <1>1, <2>3, <2>5, MaxKept
    <3>2. Max(all \ gone) \in all \ gone
      <4>1. all \ gone \in SUBSET DOMAIN snapshots BY <2>3
      <4>2. IsFiniteSet(all \ gone) /\ all \ gone \subseteq Nat
        BY <1>1, <4>1, FS_Subset DEF SnapsOK, Ids
      <4> QED BY <3>1, <4>2, MaxIs
    <3>3. Max(all \ gone) \in DOMAIN snapshots' BY <1>2, <2>3, <3>2
    <3> QED BY <1>2, <2>1, <2>2, <2>5, <3>1, <3>3
  <2> QED BY <2>4, <2>5
<1> QED BY <1>5, <1>6

\* A new row among the snapshots.
LEMMA SnapshotInserted ==
  ASSUME Ids(snapshots), NEW row, snapshots' = Insert(snapshots, row)
  PROVE  /\ Ids(snapshots')
         /\ DOMAIN snapshots' = DOMAIN snapshots \cup {NextId(snapshots)}
         /\ NextId(snapshots) \notin DOMAIN snapshots
         /\ snapshots'[NextId(snapshots)] = row
         /\ \A i \in DOMAIN snapshots : snapshots'[i] = snapshots[i]
<1>1. /\ Ids(snapshots') /\ DOMAIN snapshots' = DOMAIN snapshots \cup {NextId(snapshots)}
      /\ snapshots'[NextId(snapshots)] = row
      /\ \A i \in DOMAIN snapshots : snapshots'[i] = snapshots[i]
  BY Inserted
<1>2. NextId(snapshots) \notin DOMAIN snapshots BY NextIs
<1> QED BY <1>1, <1>2

\* A digest that is not the latest of its route is no duplicate.
LEMMA NoDuplicate ==
  ASSUME TablesOK, NEW row \in Snapshot, snapshots' = Insert(snapshots, row),
         row.digest # LatestDigest(row.route)
  PROVE  Duplicates(snapshots') = Duplicates(snapshots)
<1> DEFINE n == NextId(snapshots)
           Of(snaps, i) == {j \in DOMAIN snaps : j < i /\ snaps[j].route = snaps[i].route}
<1>1. Ids(snapshots) BY DEF TablesOK
<1>2. n \in Nat /\ \A i \in DOMAIN snapshots : i < n /\ i \in Nat BY <1>1, NextIs DEF Ids
<1>3. /\ DOMAIN snapshots' = DOMAIN snapshots \cup {n} /\ n \notin DOMAIN snapshots
      /\ snapshots'[n] = row /\ \A i \in DOMAIN snapshots : snapshots'[i] = snapshots[i]
  BY <1>1, SnapshotInserted
<1>4. \A snaps, i : Previous(snaps, i) = IF Of(snaps, i) = {} THEN None ELSE snaps[Max(Of(snaps, i))].digest
  BY DEF Previous
<1> HIDE DEF n
<1>5. n \notin Duplicates(snapshots')
  <2>1. Of(snapshots', n) = OfRoute(snapshots, row.route)
    BY <1>2, <1>3 DEF OfRoute
  <2> DEFINE ids == OfRoute(snapshots, row.route)
  <2>2. Previous(snapshots', n) = IF ids = {} THEN None ELSE snapshots'[Max(ids)].digest
    BY <1>4, <2>1
  <2>3. ids \in SUBSET DOMAIN snapshots BY DEF OfRoute
  <2>4. LatestDigest(row.route) = IF ids = {} THEN None ELSE snapshots[Max(ids)].digest
    BY DEF LatestDigest
  <2>5. ids # {} => Max(ids) \in DOMAIN snapshots
    <3>1. IsFiniteSet(ids) /\ ids \subseteq Nat BY <1>1, <2>3, FS_Subset DEF Ids
    <3> HIDE DEF ids
    <3> QED BY <2>3, <3>1, MaxIs
  <2> HIDE DEF ids
  <2>6. Previous(snapshots', n) = LatestDigest(row.route) BY <1>3, <2>2, <2>4, <2>5
  <2> QED BY <1>3, <2>6 DEF Duplicates
<1>6. ASSUME NEW i \in DOMAIN snapshots PROVE Previous(snapshots', i) = Previous(snapshots, i)
  <2>1. Of(snapshots', i) = Of(snapshots, i)
    <3>1. ~(n < i) BY <1>2
    <3> QED BY <1>3, <3>1
  <2>2. Of(snapshots, i) \in SUBSET DOMAIN snapshots OBVIOUS
  <2>3. Of(snapshots, i) # {} => Max(Of(snapshots, i)) \in DOMAIN snapshots
    <3>1. IsFiniteSet(Of(snapshots, i)) /\ Of(snapshots, i) \subseteq Nat
      BY <1>1, <2>2, FS_Subset DEF Ids
    <3> HIDE DEF Of
    <3> QED BY <2>2, <3>1, MaxIs
  <2> HIDE DEF Of
  <2> QED BY <1>3, <1>4, <2>1, <2>3
<1>7. Duplicates(snapshots') \subseteq DOMAIN snapshots BY <1>3, <1>5 DEF Duplicates
<1> QED BY <1>3, <1>6, <1>7 DEF Duplicates

\* What repeats still does after a new row, whose id it does not name.
LEMMA RepeatingGrows ==
  ASSUME Ids(snapshots), NEW row, snapshots' = Insert(snapshots, row),
         Duplicates(snapshots') = Duplicates(snapshots),
         NEW ids \in SUBSET Nat, Repeating(snapshots, ids)
  PROVE  Repeating(snapshots', ids)
<1> DEFINE n == NextId(snapshots)
<1>1. DOMAIN snapshots' = DOMAIN snapshots \cup {n} BY SnapshotInserted
<1>2. n \in Nat /\ \A i \in DOMAIN snapshots : i < n /\ i \in Nat BY NextIs DEF Ids
<1> HIDE DEF n
<1>3. SUFFICES ASSUME NEW i \in ids
               PROVE  /\ \E j \in DOMAIN snapshots' : i < j
                      /\ i \in DOMAIN snapshots' => i \in Duplicates(snapshots')
  BY DEF Repeating
<1>4. PICK j \in DOMAIN snapshots : i < j BY <1>3 DEF Repeating
<1>5. i # n BY <1>2, <1>4
<1>6. i \in DOMAIN snapshots => i \in Duplicates(snapshots) BY <1>3 DEF Repeating
<1> QED BY <1>1, <1>4, <1>5, <1>6

\* A new snapshot is the last of its route.
LEMMA StoredGrows ==
  ASSUME TablesOK, TablesOK', NEW row \in Snapshot, snapshots' = Insert(snapshots, row),
         row.digest # LatestDigest(row.route), NEW r
  PROVE  Stored(r)' = IF r = row.route THEN Append(Stored(r), row.digest) ELSE Stored(r)
<1> DEFINE n == NextId(snapshots)
           ids == OfRoute(snapshots, r) \ Duplicates(snapshots)
           new == OfRoute(snapshots', r) \ Duplicates(snapshots')
           m == Cardinality(ids)
<1>1. /\ ids \subseteq DOMAIN snapshots /\ ids \subseteq Nat /\ IsFiniteSet(ids) /\ m \in Nat
      /\ \A k \in 1..m : Nth(ids, k) \in ids /\ Rank(ids, Nth(ids, k)) = k
      /\ Stored(r) = [k \in 1..m |-> snapshots[Nth(ids, k)].digest]
      /\ Stored(r) \in Seq(Digests) /\ Len(Stored(r)) = m
  BY StoredIs
<1>2. /\ Stored(r)' = [k \in 1..Cardinality(new) |-> snapshots'[Nth(new, k)].digest]
      /\ IsFiniteSet(new) /\ Cardinality(new) \in Nat /\ new \subseteq Nat
  <2>1. Stored(r)' = [k \in 1..Cardinality(new) |-> snapshots'[Nth(new, k)].digest]
    BY DEF Stored
  <2>2. new \in SUBSET DOMAIN snapshots' BY DEF OfRoute
  <2>3. Ids(snapshots') BY DEF TablesOK
  <2>4. IsFiniteSet(new) /\ new \subseteq Nat BY <2>2, <2>3, FS_Subset DEF Ids
  <2>5. Cardinality(new) \in Nat BY <2>4, FS_CardinalityType
  <2> HIDE DEF new
  <2> QED BY <2>1, <2>4, <2>5
<1>3. Ids(snapshots) BY DEF TablesOK
<1>4. n \in Nat /\ \A i \in DOMAIN snapshots : i < n BY <1>3, NextIs
<1>5. /\ DOMAIN snapshots' = DOMAIN snapshots \cup {n} /\ n \notin DOMAIN snapshots
      /\ snapshots'[n] = row /\ \A i \in DOMAIN snapshots : snapshots'[i] = snapshots[i]
  BY <1>3, SnapshotInserted
<1>6. new = IF r = row.route THEN ids \cup {n} ELSE ids
  <2>1. Duplicates(snapshots') = Duplicates(snapshots) BY NoDuplicate
  <2>2. n \notin Duplicates(snapshots) BY <1>5 DEF Duplicates
  <2> QED BY <1>5, <2>1, <2>2 DEF OfRoute
<1> HIDE DEF ids, new, n
<1>7. CASE r # row.route
  <2>1. \A k \in 1..m : snapshots'[Nth(ids, k)] = snapshots[Nth(ids, k)] BY <1>1, <1>5
  <2> QED BY <1>1, <1>2, <1>6, <1>7, <2>1
<1>8. CASE r = row.route
  <2>1. new = ids \cup {n} /\ n \notin ids BY <1>1, <1>5, <1>6, <1>8
  <2>2. Cardinality(new) = m + 1 BY <1>1, <2>1, FS_AddElement
  <2>3. \A i \in ids : Rank(new, i) = Rank(ids, i) /\ Rank(ids, i) \in 1..m
    <3>1. SUFFICES ASSUME NEW i \in ids PROVE Rank(new, i) = Rank(ids, i) /\ Rank(ids, i) \in 1..m
      OBVIOUS
    <3>2. i < n /\ i \in Nat BY <1>1, <1>4
    <3>3. {j \in new : j <= i} = {j \in ids : j <= i} BY <1>4, <2>1, <3>2
    <3>4. Rank(ids, i) \in 1..m BY <1>1, RankGrows
    <3> QED BY <3>3, <3>4 DEF Rank
  <2>4. Rank(new, n) = m + 1
    <3>1. \A j \in new : j <= n BY <1>1, <1>4, <2>1
    <3>2. {j \in new : j <= n} = new BY <3>1
    <3> QED BY <2>2, <3>2 DEF Rank
  <2>5. ASSUME NEW k \in 1..m PROVE snapshots'[Nth(new, k)].digest = Stored(r)[k]
    <3>1. k # m + 1 BY <1>1
    <3>2. {j \in new : Rank(new, j) = k} = {j \in ids : Rank(ids, j) = k}
      BY <2>1, <2>3, <2>4, <3>1
    <3>3. Nth(new, k) = Nth(ids, k) BY <3>2 DEF Nth
    <3>4. Nth(ids, k) \in DOMAIN snapshots BY <1>1
    <3> QED BY <1>1, <1>5, <3>3, <3>4
  <2>6. snapshots'[Nth(new, m + 1)].digest = row.digest
    <3>1. {j \in new : Rank(new, j) = m + 1} = {n}
      <4>1. \A j \in ids : Rank(new, j) # m + 1 BY <1>1, <2>3
      <4> QED BY <2>1, <2>4, <4>1
    <3>2. Nth(new, m + 1) = n BY <3>1 DEF Nth
    <3> QED BY <1>5, <3>2
  <2>7. Stored(r)' = [k \in 1..(m + 1) |-> IF k \in 1..m THEN Stored(r)[k] ELSE row.digest]
    <3>1. \A k \in 1..(m + 1) : k \in 1..m \/ k = m + 1 BY <1>1
    <3>2. \A k \in 1..(m + 1) :
            snapshots'[Nth(new, k)].digest = IF k \in 1..m THEN Stored(r)[k] ELSE row.digest
      <4>1. m + 1 \notin 1..m BY <1>1
      <4> HIDE DEF m
      <4> QED BY <2>5, <2>6, <3>1, <4>1
    <3> HIDE DEF m
    <3> QED BY <1>2, <2>2, <3>2
  <2>8. Append(Stored(r), row.digest) = [k \in 1..(m + 1) |-> IF k \in 1..m THEN Stored(r)[k] ELSE row.digest]
    <3> HIDE DEF m
    <3> QED BY <1>1
  <2> QED BY <1>8, <2>7, <2>8
<1> QED BY <1>7, <1>8

\* What most steps leave of a process.
Plain(w, new) ==
  /\ new.sel \in {st[w].sel, NoSelection}
  /\ new.todo \in {st[w].todo, <<>>}
  /\ new.route \in {st[w].route, Health}
  /\ new.pc # "snap"

\* The same for the record that a process goes on with.
SameShape(w, s) ==
  s \in Writer /\ s.sel = st[w].sel /\ s.todo = st[w].todo /\ s.route = st[w].route

\* The process that ends.
LEMMA PlainEnd ==
  ASSUME WInv, NEW w \in Writers, Exit(w) \/ CloseStore(w)
  PROVE  \E new : st' = [st EXCEPT ![w] = new] /\ Plain(w, new)
<1>1. Fresh \in Writer BY FreshIs
<1>2. /\ Fresh.sel = NoSelection /\ Fresh.todo = <<>> /\ Fresh.route = Health /\ Fresh.pc = "idle"
  BY DEF Fresh
<1>3. Plain(w, Fresh) BY <1>2 DEF Plain
<1>4. \A b : Plain(w, [Fresh EXCEPT !.store = b])
  <2>1. SUFFICES ASSUME NEW b PROVE Plain(w, [Fresh EXCEPT !.store = b]) OBVIOUS
  <2>2. /\ [Fresh EXCEPT !.store = b].sel = NoSelection /\ [Fresh EXCEPT !.store = b].todo = <<>>
        /\ [Fresh EXCEPT !.store = b].route = Health /\ [Fresh EXCEPT !.store = b].pc = "idle"
    BY DEF Fresh
  <2> QED BY <2>2 DEF Plain
<1> QED BY <1>3, <1>4 DEF Exit, CloseStore, To

\* The process that is done with a request.
LEMMA PlainDone ==
  ASSUME NEW w \in Writers, NEW s, SameShape(w, s)
  PROVE  Plain(w, Done(s)) /\ Plain(w, [Done(s) EXCEPT !.pc = "abort"])
<1> DEFINE d == Done(s)
<1>1. d \in Writer /\ d.pc = "go" /\ d.sel = st[w].sel /\ d.todo = st[w].todo /\ d.route = Health
  BY DoneIs DEF SameShape
<1> HIDE DEF d
<1>2. Plain(w, d) BY <1>1 DEF Plain
<1>3. Plain(w, [d EXCEPT !.pc = "abort"]) BY <1>1 DEF Plain, Writer
<1> QED BY <1>2, <1>3 DEF d

\* The process whose request failed.
LEMMA PlainGoesOn ==
  ASSUME NEW w \in Writers, NEW s, SameShape(w, s), GoesOn(w, s)
  PROVE  \E new : st' = [st EXCEPT ![w] = new] /\ Plain(w, new)
<1> DEFINE d == Done(s)
<1>1. d \in Writer /\ d.pc = "go" /\ d.sel = st[w].sel /\ d.todo = st[w].todo /\ d.route = Health
  BY DoneIs DEF SameShape
<1>2. \/ To(w, [d EXCEPT !.failed = TRUE]) \/ To(w, d)
      \/ To(w, [d EXCEPT !.todo = <<>>, !.failed = TRUE])
  BY DEF GoesOn
<1> HIDE DEF d
<1>3. Plain(w, d) BY <1>1 DEF Plain
<1>4. Plain(w, [d EXCEPT !.failed = TRUE]) BY <1>1 DEF Plain, Writer
<1>5. Plain(w, [d EXCEPT !.todo = <<>>, !.failed = TRUE]) BY <1>1 DEF Plain, Writer
<1> QED BY <1>2, <1>3, <1>4, <1>5 DEF To

\* The process that has an answer.
LEMMA PlainDecided ==
  ASSUME NEW w \in Writers, NEW s, SameShape(w, s), s.pc = "get",
         NEW answer, NEW spent, NEW delay, Decided(w, s, answer, spent, delay)
  PROVE  \E new : st' = [st EXCEPT ![w] = new] /\ Plain(w, new)
<1>1. \/ To(w, [s EXCEPT !.pc = "parse", !.try = 0, !.left = None])
      \/ \E left : To(w, [s EXCEPT !.try = @ + 1, !.left = left])
      \/ To(w, [s EXCEPT !.pc = "mark"])
      \/ GoesOn(w, s)
  BY DEF Decided, Raised
<1>2. Plain(w, [s EXCEPT !.pc = "parse", !.try = 0, !.left = None])
  BY DEF Plain, SameShape, Writer
<1>3. \A left : Plain(w, [s EXCEPT !.try = @ + 1, !.left = left])
  BY DEF Plain, SameShape, Writer
<1>4. Plain(w, [s EXCEPT !.pc = "mark"])
  BY DEF Plain, SameShape, Writer
<1>5. CASE GoesOn(w, s) BY <1>5, PlainGoesOn
<1> QED BY <1>1, <1>2, <1>3, <1>4, <1>5 DEF To

\* Every step of a process but the queries of prune, the beginning of a cycle,
\* the next request and the comparison of digests is plain.
LEMMA PlainSteps ==
  ASSUME WInv, NEW w \in Writers,
         \/ StartFails(w) \/ Try(w) \/ TooLate(w) \/ Accept(w) \/ Reject(w)
         \/ Record(w) \/ SnapshotFails(w) \/ Finish(w) \/ FinishFails(w) \/ Kill(w)
         \/ Restart(w) \/ PruneDelete(w) \/ CountPages(w)
  PROVE  \E new : st' = [st EXCEPT ![w] = new] /\ Plain(w, new)
<1>1. st[w] \in Writer BY Before
<1>2. SameShape(w, st[w]) BY <1>1 DEF SameShape
<1>3. CASE Exit(w) \/ CloseStore(w) BY <1>3, PlainEnd
<1>4. CASE \/ To(w, Done(st[w])) \/ To(w, [Done(st[w]) EXCEPT !.pc = "abort"])
  BY <1>2, <1>4, PlainDone DEF To
<1>5. CASE GoesOn(w, st[w]) BY <1>2, <1>5, PlainGoesOn
<1>6. CASE GoesOn(w, [st[w] EXCEPT !.client = FALSE])
  <2>1. SameShape(w, [st[w] EXCEPT !.client = FALSE]) BY <1>1 DEF SameShape, Writer
  <2> QED BY <1>6, <2>1, PlainGoesOn
<1>7. CASE PruneDelete(w) \/ CountPages(w)
  <2> DEFINE gone == [st[w] EXCEPT !.pc = "insert", !.sel = NoSelection, !.pressed = FALSE]
             more(b) == [st[w] EXCEPT !.pc = "attempts", !.pressed = b]
  <2>1. To(w, gone) \/ \E b : To(w, more(b)) BY <1>7 DEF PruneDelete, CountPages
  <2>2. Plain(w, gone) /\ \A b : Plain(w, more(b)) BY <1>1 DEF Plain, Writer
  <2> HIDE DEF gone, more
  <2> QED BY <2>1, <2>2 DEF To
<1>8. CASE Try(w)
  <2>1. Ids(attempts) BY DEF WInv
  <2>2. NextId(attempts) \in Nat BY <2>1, NextIs
  <2>3. \E s : SameShape(w, s) /\ s.pc = "get"
               /\ \E answer, spent, delay : Decided(w, s, answer, spent, delay)
    <3> DEFINE s1 == [st[w] EXCEPT !.last = NextId(attempts)]
               s2 == [st[w] EXCEPT !.last = None, !.client = FALSE]
    <3>1. \E answer, spent, delay : \/ Decided(w, s1, answer, spent, delay)
                                    \/ Decided(w, s2, answer, spent, delay)
      BY <1>8 DEF Try
    <3>2. st[w].pc = "get" BY <1>8 DEF Try, At
    <3>3. SameShape(w, s1) /\ s1.pc = "get" BY <1>1, <2>2, <3>2 DEF SameShape, Writer
    <3>4. SameShape(w, s2) /\ s2.pc = "get" BY <1>1, <3>2 DEF SameShape, Writer
    <3> HIDE DEF s1, s2
    <3> QED BY <3>1, <3>3, <3>4
  <2> QED BY <2>3, PlainDecided
<1>9. \/ Exit(w) \/ CloseStore(w) \/ To(w, Done(st[w]))
      \/ To(w, [Done(st[w]) EXCEPT !.pc = "abort"]) \/ GoesOn(w, st[w])
      \/ GoesOn(w, [st[w] EXCEPT !.client = FALSE]) \/ PruneDelete(w) \/ CountPages(w)
      \/ Try(w)
  BY DEF StartFails, TooLate, Accept, Reject, Record, SnapshotFails, Finish, FinishFails, Kill,
         Restart
<1> QED BY <1>3, <1>4, <1>5, <1>6, <1>7, <1>8, <1>9

\* What repeats goes on to repeat; each route keeps its latest digest.
StillRepeating == \A ids \in SUBSET Nat : Repeating(snapshots, ids) => Repeating(snapshots', ids)
SameLatest == \A r : LatestDigest(r)' = LatestDigest(r)

\* A process that has come to a point where the history agrees.
LEMMA HLocal ==
  ASSUME WInv, HInv, \A p, q \in Pulses : p = q, NEW w \in Writers, NEW new,
         st' = [st EXCEPT ![w] = new], HistoryKept',
         Repeating(snapshots', Duplicates(snapshots')), StillRepeating,
         st[w].pc = "snap" \/ SameLatest,
         new.sel.of = "snapshots" => Repeating(snapshots', new.sel.ids),
         new.pc = "snap" => SameLatest /\ new.digest # LatestDigest(new.route),
         w \in Collectors => new.todo \in Seq(Metered \cup {Health}) /\ new.route \notin Discovery
  PROVE  HInv'
<1>1. /\ st \in [Writers -> Writer] /\ st'[w] = new
      /\ \A v \in Writers : v # w => st'[v] = st[v]
  BY Before
<1>2. ASSUME NEW v \in Writers
      PROVE  (/\ st[v].sel.of = "snapshots" => Repeating(snapshots, st[v].sel.ids)
              /\ st[v].pc = "snap" => st[v].digest # LatestDigest(st[v].route))'
  <2>1. PICK x : x = st'[v] OBVIOUS
  <2>2. x.sel.of = "snapshots" => Repeating(snapshots', x.sel.ids)
    <3>1. CASE v = w
      <4>1. x = new BY <1>1, <2>1, <3>1
      <4> QED BY <4>1
    <3>2. CASE v # w
      <4>1. x = st[v] BY <1>1, <2>1, <3>2
      <4>2. x.sel.of = "snapshots" => Repeating(snapshots, x.sel.ids) BY <4>1 DEF HInv
      <4>3. x.sel.ids \in SUBSET Nat BY <1>1, <4>1 DEF Writer, Selections
      <4> QED BY <4>2, <4>3 DEF StillRepeating
    <3> QED BY <3>1, <3>2
  <2>3. x.pc = "snap" => x.digest # LatestDigest(x.route)'
    <3>1. CASE v = w
      <4>1. x = new BY <1>1, <2>1, <3>1
      <4> QED BY <4>1 DEF SameLatest
    <3>2. CASE v # w
      <4>1. x = st[v] BY <1>1, <2>1, <3>2
      <4>2. x.pc = "snap" => x.digest # LatestDigest(x.route) BY <4>1 DEF HInv
      <4>3. x.pc = "snap" => st[w].pc # "snap"
        <5>1. SUFFICES ASSUME st[v].pc = "snap", st[w].pc = "snap" PROVE FALSE BY <4>1
        <5>2. st[v].route \in Discovery /\ st[w].route \in Discovery
          BY <5>1, Before DEF Step
        <5>3. v \in Pulses /\ w \in Pulses BY <5>2 DEF HInv, Writers
        <5> QED BY <5>3, <3>2
      <4> QED BY <4>2, <4>3 DEF SameLatest
    <3> QED BY <3>1, <3>2
  <2> QED BY <2>1, <2>2, <2>3
<1>3. ASSUME NEW v \in Collectors
      PROVE  st'[v].todo \in Seq(Metered \cup {Health}) /\ st'[v].route \notin Discovery
  <2>1. v \in Writers BY DEF Writers
  <2>2. CASE v = w BY <1>1, <2>2
  <2>3. CASE v # w BY <1>1, <2>1, <2>3 DEF HInv
  <2> QED BY <2>2, <2>3
<1>4. (\A v \in Writers :
         /\ st[v].sel.of = "snapshots" => Repeating(snapshots, st[v].sel.ids)
         /\ st[v].pc = "snap" => st[v].digest # LatestDigest(st[v].route))'
  BY <1>2
<1>5. (\A v \in Collectors :
         st[v].todo \in Seq(Metered \cup {Health}) /\ st[v].route \notin Discovery)'
  BY <1>3
<1>6. Repeating(snapshots, Duplicates(snapshots))' OBVIOUS
<1> QED BY <1>4, <1>5, <1>6 DEF HInv

\* A step that stores and notes nothing.
LEMMA HQuiet ==
  ASSUME WInv, HInv, \A p, q \in Pulses : p = q, NEW w \in Writers, NEW new,
         st' = [st EXCEPT ![w] = new], UNCHANGED <<snapshots, seen>>,
         new.sel.of = "snapshots" => Repeating(snapshots, new.sel.ids),
         new.pc = "snap" => new.digest # LatestDigest(new.route),
         w \in Collectors => new.todo \in Seq(Metered \cup {Health}) /\ new.route \notin Discovery
  PROVE  HInv'
<1>1. HistoryKept' BY DEF HInv, HistoryKept, Stored
<1>2. Repeating(snapshots', Duplicates(snapshots')) /\ StillRepeating
  BY DEF HInv, StillRepeating
<1>3. SameLatest BY DEF SameLatest, LatestDigest, OfRoute
<1>4. new.sel.of = "snapshots" => Repeating(snapshots', new.sel.ids) OBVIOUS
<1> QED BY <1>1, <1>2, <1>3, <1>4, HLocal

\* What a plain step leaves of a process is as good as it was.
LEMMA PlainIs ==
  ASSUME HInv, NEW w \in Writers, NEW new, Plain(w, new)
  PROVE  /\ new.sel.of = "snapshots" => new.sel = st[w].sel /\ Repeating(snapshots, new.sel.ids)
         /\ new.pc # "snap"
         /\ w \in Collectors => new.todo \in Seq(Metered \cup {Health}) /\ new.route \notin Discovery
<1>1. new.sel.of = "snapshots" => new.sel = st[w].sel /\ Repeating(snapshots, new.sel.ids)
  <2>1. NoSelection.of = "cycles" BY DEF NoSelection
  <2>2. st[w].sel.of = "snapshots" => Repeating(snapshots, st[w].sel.ids) BY DEF HInv
  <2>3. new.sel = st[w].sel \/ new.sel = NoSelection BY DEF Plain
  <2> QED BY <2>1, <2>2, <2>3
<1>2. w \in Collectors => new.todo \in Seq(Metered \cup {Health}) /\ new.route \notin Discovery
  <2>1. SUFFICES ASSUME w \in Collectors
                 PROVE  new.todo \in Seq(Metered \cup {Health}) /\ new.route \notin Discovery
    OBVIOUS
  <2>2. st[w].todo \in Seq(Metered \cup {Health}) /\ st[w].route \notin Discovery
    BY <2>1 DEF HInv
  <2>3. <<>> \in Seq(Metered \cup {Health}) OBVIOUS
  <2>4. Health \notin Discovery BY TelemetryAssumption
  <2> QED BY <2>2, <2>3, <2>4 DEF Plain
<1> QED BY <1>1, <1>2 DEF Plain

\* A plain step that stores no snapshot.
LEMMA HPlain ==
  ASSUME WInv, HInv, \A p, q \in Pulses : p = q, NEW w \in Writers, NEW new,
         st' = [st EXCEPT ![w] = new], Plain(w, new), UNCHANGED <<snapshots, seen>>
  PROVE  HInv'
BY PlainIs, HQuiet

\* The history at the start.
LEMMA HInvInit == ASSUME Init, OneProbe PROVE HInv
<1>1. /\ snapshots = OldSnapshots /\ seen = [r \in Discovery |-> Stored(r)]
      /\ \A w \in Writers : st[w] = Fresh
  BY DEF Init
<1>2. HistoryKept BY <1>1 DEF HistoryKept
<1>3. Repeating(snapshots, Duplicates(snapshots)) BY <1>1 DEF OneProbe
<1>4. /\ Fresh.sel.of = "cycles" /\ Fresh.pc = "idle" /\ Fresh.todo = <<>> /\ Fresh.route = Health
  BY DEF Fresh, NoSelection
<1>5. <<>> \in Seq(Metered \cup {Health}) /\ Health \notin Discovery BY TelemetryAssumption
<1>6. \A w \in Collectors : w \in Writers BY DEF Writers
<1> QED BY <1>1, <1>2, <1>3, <1>4, <1>5, <1>6 DEF HInv

\* A query of prune that finds snapshots finds duplicates.
LEMMA HSelected ==
  ASSUME WInv, HInv, \A p, q \in Pulses : p = q, NEW w \in Writers, UNCHANGED <<snapshots, seen>>,
         NEW s \in Writer, s.sel.of = "snapshots" => Repeating(snapshots, s.sel.ids), s.pc # "snap",
         w \in Collectors => s.todo \in Seq(Metered \cup {Health}) /\ s.route \notin Discovery,
         NEW table, NEW ids, NEW next, next # "snap", Selected(w, s, table, ids, next),
         table = "snapshots" => Repeating(snapshots, ids)
  PROVE  HInv'
<1> DEFINE a == [s EXCEPT !.pc = next]
           b == [s EXCEPT !.pc = "delete", !.sel = [of |-> table, ids |-> ids]]
<1>1. To(w, a) \/ To(w, b) BY DEF Selected
<1>2. a.sel = s.sel /\ a.pc = next /\ a.todo = s.todo /\ a.route = s.route BY DEF Writer
<1>3. /\ b.sel.of = table /\ b.sel.ids = ids /\ b.pc = "delete" /\ b.todo = s.todo
      /\ b.route = s.route
  BY DEF Writer
<1> HIDE DEF a, b
<1>4. CASE To(w, a) BY <1>2, <1>4, HQuiet DEF To
<1>5. CASE To(w, b) BY <1>3, <1>5, HQuiet DEF To
<1> QED BY <1>1, <1>4, <1>5

\* The queries of prune find duplicates, attempts and cycles.
LEMMA HSelect ==
  ASSUME WInv, HInv, \A p, q \in Pulses : p = q, NEW w \in Writers,
         Begin(w) \/ SelectAttempts(w) \/ SelectCycles(w)
  PROVE  HInv'
<1>1. UNCHANGED <<snapshots, seen>> BY DEF Begin, SelectAttempts, SelectCycles, tables, history
<1>2. CASE Begin(w)
  <2> DEFINE s == [Fresh EXCEPT !.at = now]
  <2>1. CASE Selected(w, s, "snapshots", DuplicateBatch(snapshots), "pages")
    <3>1. Repeating(snapshots, DuplicateBatch(snapshots))
      <4>1. DuplicateBatch(snapshots) \subseteq Duplicates(snapshots) BY Batches
      <4> QED BY <4>1 DEF HInv, Repeating
    <3>2. now \in Nat /\ Fresh \in Writer
      <4>1. now \in 0..MaxNow BY DEF WInv, TypeOK
      <4> QED BY <4>1, FreshIs, WritersAssumption
    <3>3. s \in Writer BY <3>2 DEF Writer
    <3>4. s.sel.of = "cycles" /\ s.pc = "idle" /\ s.todo = <<>> /\ s.route = Health
      BY DEF Fresh, NoSelection
    <3>5. <<>> \in Seq(Metered \cup {Health}) /\ Health \notin Discovery BY TelemetryAssumption
    <3> HIDE DEF s
    <3> QED BY <1>1, <2>1, <3>1, <3>3, <3>4, <3>5, HSelected
  <2>2. CASE CloseStore(w)
    <3>1. PICK x : st' = [st EXCEPT ![w] = x] /\ Plain(w, x) BY <2>2, PlainEnd
    <3> QED BY <1>1, <3>1, HPlain
  <2> QED BY <1>2, <2>1, <2>2 DEF Begin
<1>3. st[w].sel.of = "snapshots" => Repeating(snapshots, st[w].sel.ids) BY DEF HInv
<1>4. /\ st[w] \in Writer
      /\ w \in Collectors => st[w].todo \in Seq(Metered \cup {Health}) /\ st[w].route \notin Discovery
  BY Before DEF HInv
<1>5. CASE SelectAttempts(w)
  <2>1. st[w].pc # "snap" BY <1>5 DEF SelectAttempts, At
  <2>2. \E ids : Selected(w, st[w], "attempts", ids, "cycles") BY <1>5 DEF SelectAttempts
  <2> QED BY <1>1, <1>3, <1>4, <1>5, <2>1, <2>2, HSelected
<1>6. CASE SelectCycles(w)
  <2> DEFINE s == [st[w] EXCEPT !.pressed = FALSE]
  <2>1. st[w].pc # "snap" BY <1>6 DEF SelectCycles, At
  <2>2. \E ids : Selected(w, s, "cycles", ids, "insert") BY <1>6 DEF SelectCycles
  <2>3. /\ s \in Writer /\ s.sel = st[w].sel /\ s.pc = st[w].pc /\ s.todo = st[w].todo
        /\ s.route = st[w].route
    BY <1>4 DEF Writer
  <2> HIDE DEF s
  <2> QED BY <1>1, <1>3, <1>4, <1>6, <2>1, <2>2, <2>3, HSelected
<1> QED BY <1>2, <1>5, <1>6

\* The delete of prune takes away duplicates, whatever was stored since they
\* were found.
LEMMA HPruneDelete ==
  ASSUME WInv, HInv, \A p, q \in Pulses : p = q, NEW w \in Writers, PruneDelete(w)
  PROVE  HInv'
<1>1. PICK new : st' = [st EXCEPT ![w] = new] /\ Plain(w, new) BY PlainSteps
<1>2. seen' = seen BY DEF PruneDelete
<1>3. CASE st[w].sel.of # "snapshots"
  <2>1. snapshots' = snapshots BY <1>3 DEF PruneDelete, Prune
  <2> QED BY <1>1, <1>2, <2>1, HPlain
<1>4. CASE st[w].sel.of = "snapshots"
  <2> DEFINE gone == st[w].sel.ids
  <2>1. snapshots' = Delete(snapshots, gone) BY <1>4 DEF PruneDelete, Prune
  <2>2. TablesOK BY Before
  <2>3. SnapsOK(snapshots) BY <2>2 DEF TablesOK, Rows, SnapsOK
  <2>4. Repeating(snapshots, gone) BY <1>4 DEF HInv
  <2>5. gone \cap DOMAIN snapshots \subseteq Duplicates(snapshots) BY <2>4 DEF Repeating
  <2>6. Repeating(snapshots, Duplicates(snapshots)) BY DEF HInv
  <2> HIDE DEF gone
  <2>7. /\ DOMAIN snapshots' = DOMAIN snapshots \ gone
        /\ Duplicates(snapshots') = Duplicates(snapshots) \ gone
    BY <2>1, <2>3, <2>5, DuplicatesGone
  <2>8. StillRepeating BY <2>1, <2>3, <2>5, <2>6, RepeatingKept DEF StillRepeating
  <2>9. Repeating(snapshots', Duplicates(snapshots'))
    <3>1. Duplicates(snapshots) \in SUBSET Nat BY <2>3 DEF SnapsOK, Ids, Duplicates
    <3>2. Repeating(snapshots', Duplicates(snapshots)) BY <2>6, <2>8, <3>1 DEF StillRepeating
    <3> QED BY <2>7, <3>2 DEF Repeating
  <2>10. SameLatest BY <2>1, <2>2, <2>5, StoredKept DEF SameLatest
  <2>11. HistoryKept'
    <3>1. \A r \in Discovery : Stored(r)' = Stored(r) BY <2>1, <2>2, <2>5, StoredKept
    <3>2. \A r \in Discovery : Stored(r)' = seen'[r] BY <1>2, <3>1 DEF HInv, HistoryKept
    <3> QED BY <3>2 DEF HistoryKept
  <2>12. new.sel.of = "snapshots" => Repeating(snapshots', new.sel.ids)
    <3>1. st[w].sel.ids \in SUBSET Nat BY Before DEF Writer, Selections
    <3> QED BY <1>1, <2>8, <3>1, PlainIs DEF StillRepeating
  <2> QED BY <1>1, <2>8, <2>9, <2>10, <2>11, <2>12, HLocal, PlainIs
<1> QED BY <1>3, <1>4

\* The requests of a collector's cycle are not for the discovery routes.
LEMMA HStartCycle ==
  ASSUME WInv, HInv, \A p, q \in Pulses : p = q, NEW w \in Writers, StartCycle(w)
  PROVE  HInv'
<1>1. snapshots' = snapshots /\ seen' = seen BY DEF StartCycle, InsertCycle
<1>2. PICK k \in 1..MaxRequests, r \in Metered :
        To(w, [st[w] EXCEPT !.pc = "go", !.cyc = NextId(cycles),
                 !.todo = IF w \in Collectors THEN [i \in 1..k |-> r]
                          ELSE <<Health>> \o SetToSeq(Discovery)])
  BY DEF StartCycle
<1> DEFINE todo == IF w \in Collectors THEN [i \in 1..k |-> r]
                   ELSE <<Health>> \o SetToSeq(Discovery)
           new == [st[w] EXCEPT !.pc = "go", !.cyc = NextId(cycles), !.todo = todo]
<1>3. w \in Collectors => todo \in Seq(Metered \cup {Health})
  <2>1. k \in Nat /\ r \in Metered \cup {Health} BY WritersAssumption
  <2>2. [i \in 1..k |-> r] \in Seq(Metered \cup {Health}) BY <2>1
  <2> QED BY <2>2
<1>4. st[w] \in Writer BY Before
<1>7. st' = [st EXCEPT ![w] = new] BY <1>2 DEF To
<1> HIDE DEF todo
<1>8. new.sel = st[w].sel /\ new.pc = "go" /\ new.todo = todo /\ new.route = st[w].route
  BY <1>4 DEF Writer
<1> HIDE DEF new
<1>9. new.sel.of = "snapshots" => Repeating(snapshots, new.sel.ids) BY <1>8 DEF HInv
<1>10. w \in Collectors => new.todo \in Seq(Metered \cup {Health}) /\ new.route \notin Discovery
  BY <1>3, <1>8 DEF HInv
<1> QED BY <1>1, <1>7, <1>8, <1>9, <1>10, HQuiet

\* The next request of a collector is not for a discovery route.
LEMMA HRequest ==
  ASSUME WInv, HInv, \A p, q \in Pulses : p = q, NEW w \in Writers, Request(w)
  PROVE  HInv'
<1> DEFINE r == Head(st[w].todo)
           rest == Tail(st[w].todo)
           skip == [st[w] EXCEPT !.todo = rest]
           ask(d) == [st[w] EXCEPT !.pc = "get", !.todo = rest, !.route = r,
                                   !.last = None, !.try = 0, !.left = d]
<1>1. snapshots' = snapshots /\ seen' = seen BY DEF Request, tables, history
<1>2. st[w] \in Writer /\ st[w].pc = "go" /\ st[w].todo # <<>> BY Before DEF Request, At
<1>3. To(w, skip) \/ \E d : To(w, ask(d)) BY DEF Request
<1>4. w \in Collectors => r \in Metered \cup {Health} /\ rest \in Seq(Metered \cup {Health})
  <2>1. SUFFICES ASSUME w \in Collectors
                 PROVE  r \in Metered \cup {Health} /\ rest \in Seq(Metered \cup {Health})
    OBVIOUS
  <2>2. st[w].todo \in Seq(Metered \cup {Health}) BY <2>1 DEF HInv
  <2> QED BY <1>2, <2>2
<1>5. (Metered \cup {Health}) \cap Discovery = {} BY TelemetryAssumption, WritersAssumption
<1> HIDE DEF r, rest
<1>8. \E new : /\ st' = [st EXCEPT ![w] = new] /\ new.sel = st[w].sel /\ new.pc # "snap"
               /\ new.todo = rest /\ new.route \in {st[w].route, r}
  <2>1. CASE To(w, skip)
    <3>1. skip.sel = st[w].sel /\ skip.pc # "snap" /\ skip.todo = rest /\ skip.route = st[w].route
      BY <1>2 DEF Writer
    <3> QED BY <2>1, <3>1 DEF To
  <2>2. CASE \E d : To(w, ask(d))
    <3>1. PICK d : To(w, ask(d)) BY <2>2
    <3>2. ask(d).sel = st[w].sel /\ ask(d).pc # "snap" /\ ask(d).todo = rest /\ ask(d).route = r
      BY <1>2 DEF Writer
    <3> QED BY <3>1, <3>2 DEF To
  <2> QED BY <1>3, <2>1, <2>2
<1>9. PICK new : /\ st' = [st EXCEPT ![w] = new] /\ new.sel = st[w].sel /\ new.pc # "snap"
                 /\ new.todo = rest /\ new.route \in {st[w].route, r}
  BY <1>8
<1>10. new.sel.of = "snapshots" => Repeating(snapshots, new.sel.ids) BY <1>9 DEF HInv
<1>11. w \in Collectors => new.todo \in Seq(Metered \cup {Health}) /\ new.route \notin Discovery
  BY <1>4, <1>5, <1>9 DEF HInv
<1> QED BY <1>1, <1>9, <1>10, <1>11, HQuiet

\* A digest that is already the latest changes nothing, another one is new.
LEMMA HCompare ==
  ASSUME WInv, HInv, \A p, q \in Pulses : p = q, NEW w \in Writers, Compare(w)
  PROVE  HInv'
<1>1. snapshots' = snapshots BY DEF Compare, tables
<1>2. st[w] \in Writer /\ TablesOK BY Before
<1>3. st[w].pc = "parse" /\ st[w].route \in Discovery BY DEF Compare, At
<1>4. w \notin Collectors BY <1>3 DEF HInv
<1> DEFINE r == st[w].route
           snap(d) == [st[w] EXCEPT !.pc = "snap", !.digest = d]
<1>5. SameShape(w, st[w]) BY <1>2 DEF SameShape
<1>6. Plain(w, Done(st[w])) /\ Plain(w, [Done(st[w]) EXCEPT !.pc = "abort"]) BY <1>5, PlainDone
<1>7. PICK d \in Digests :
        \/ To(w, [Done(st[w]) EXCEPT !.pc = "abort"]) /\ UNCHANGED seen
        \/ To(w, Done(st[w])) /\ seen' = Noted(r, d) /\ LatestDigest(r) = d
        \/ To(w, snap(d)) /\ UNCHANGED seen /\ LatestDigest(r) # d
  BY DEF Compare
<1>8. CASE To(w, [Done(st[w]) EXCEPT !.pc = "abort"]) /\ UNCHANGED seen
  BY <1>1, <1>6, <1>8, HPlain DEF To
<1>9. CASE To(w, Done(st[w])) /\ seen' = Noted(r, d) /\ LatestDigest(r) = d
  <2>1. Stored(r) = seen[r] BY <1>3 DEF HInv, HistoryKept
  <2>2. OfRoute(snapshots, r) # {} BY <1>2, <1>9, LastStored, TelemetryAssumption
  <2>3. Stored(r) # <<>> /\ Last(Stored(r)) = d BY <1>2, <1>9, <2>2, LastStored
  <2>4. seen' = seen BY <1>9, <2>1, <2>3 DEF Noted
  <2> QED BY <1>1, <1>6, <1>9, <2>4, HPlain DEF To
<1>10. CASE To(w, snap(d)) /\ UNCHANGED seen /\ LatestDigest(r) # d
  <2>3. snap(d).sel = st[w].sel /\ snap(d).digest = d /\ snap(d).route = r BY <1>2 DEF Writer
  <2>4. snap(d).sel.of = "snapshots" => Repeating(snapshots, snap(d).sel.ids) BY <2>3 DEF HInv
  <2>5. st' = [st EXCEPT ![w] = snap(d)] BY <1>10 DEF To
  <2>6. snap(d).digest # LatestDigest(snap(d).route) BY <1>10, <2>3
  <2> HIDE DEF snap
  <2> QED BY <1>1, <1>4, <1>10, <2>4, <2>5, <2>6, HQuiet
<1> QED BY <1>7, <1>8, <1>9, <1>10

\* The new digest is stored after the others, as it is noted.
LEMMA HRecord ==
  ASSUME WInv, WInv', HInv, \A p, q \in Pulses : p = q, NEW w \in Writers, Record(w)
  PROVE  HInv'
<1> DEFINE r == st[w].route
           d == st[w].digest
           row == [attempt |-> st[w].last, route |-> r, digest |-> d]
<1>1. /\ st[w] \in Writer /\ Step(w) /\ TablesOK /\ seen \in [Discovery -> Seq(Digests)]
  BY Before
<1>2. TablesOK'
  <2>1. TypeOK' BY DEF WInv
  <2> QED BY <2>1 DEF WInv, TablesOK, TypeOK, Rows
<1>3. st[w].pc = "snap" BY DEF Record, At
<1>4. r \in Discovery /\ d \in Digests BY <1>1, <1>3 DEF Step
<1>5. d # LatestDigest(r) BY <1>3 DEF HInv
<1>6. snapshots' = Insert(snapshots, row) /\ seen' = Noted(r, d) BY DEF Record, InsertSnapshot
<1>7. row.route = r /\ row.digest = d /\ row \in Snapshot
  <2>1. st[w].last \in DOMAIN attempts BY DEF Record, Works
  <2>2. Ids(attempts) BY DEF WInv
  <2>3. st[w].last \in Nat BY <2>1, <2>2 DEF Ids
  <2> QED BY <1>4, <2>3 DEF Snapshot
<1>8. PICK new : st' = [st EXCEPT ![w] = new] /\ Plain(w, new) BY PlainSteps
<1> HIDE DEF row
<1>9. Ids(snapshots) /\ Duplicates(snapshots') = Duplicates(snapshots)
  BY <1>1, <1>5, <1>6, <1>7, NoDuplicate DEF TablesOK
<1>10. seen' = [seen EXCEPT ![r] = Append(@, d)]
  <2>1. Stored(r) = seen[r] BY <1>4 DEF HInv, HistoryKept
  <2>2. ~(Stored(r) # <<>> /\ Last(Stored(r)) = d)
    BY <1>1, <1>5, LastStored
  <2> QED BY <1>6, <2>1, <2>2 DEF Noted
<1>11. HistoryKept'
  <2>1. ASSUME NEW q \in Discovery PROVE Stored(q)' = seen'[q]
    <3>1. Stored(q)' = IF q = row.route THEN Append(Stored(q), row.digest) ELSE Stored(q)
      BY <1>1, <1>2, <1>5, <1>6, <1>7, StoredGrows
    <3>2. Stored(q) = seen[q] BY DEF HInv, HistoryKept
    <3> QED BY <1>1, <1>4, <1>7, <1>10, <3>1, <3>2
  <2> QED BY <2>1 DEF HistoryKept
<1>12. StillRepeating BY <1>6, <1>9, RepeatingGrows DEF StillRepeating
<1>13. Repeating(snapshots', Duplicates(snapshots'))
  <2>1. Duplicates(snapshots) \in SUBSET Nat BY <1>9 DEF Ids, Duplicates
  <2> QED BY <1>9, <1>12, <2>1 DEF StillRepeating, HInv
<1>14. new.sel.of = "snapshots" => Repeating(snapshots', new.sel.ids)
  <2>1. st[w].sel.ids \in SUBSET Nat BY <1>1 DEF Writer, Selections
  <2> QED BY <1>8, <1>12, <2>1, PlainIs DEF StillRepeating
<1>15. w \notin Collectors BY <1>4 DEF HInv
<1>16. new.pc # "snap" BY <1>8 DEF Plain
<1> QED BY <1>3, <1>8, <1>11, <1>12, <1>13, <1>14, <1>15, <1>16, HLocal

\* No step loses, repeats or reorders what was noted.
LEMMA HInvNext ==
  ASSUME WInv, WInv', HInv, \A p, q \in Pulses : p = q, [Next]_vars
  PROVE  HInv'
<1>1. CASE UNCHANGED <<snapshots, seen, st>>
  <2>1. HistoryKept' BY <1>1 DEF HInv, HistoryKept, Stored
  <2>2. SameLatest BY <1>1 DEF SameLatest, LatestDigest, OfRoute
  <2>3. Repeating(snapshots, Duplicates(snapshots))' BY <1>1 DEF HInv
  <2>4. (\A w \in Writers :
           /\ st[w].sel.of = "snapshots" => Repeating(snapshots, st[w].sel.ids)
           /\ st[w].pc = "snap" => st[w].digest # LatestDigest(st[w].route))'
    <3>1. ASSUME NEW w \in Writers
          PROVE  (/\ st[w].sel.of = "snapshots" => Repeating(snapshots, st[w].sel.ids)
                  /\ st[w].pc = "snap" => st[w].digest # LatestDigest(st[w].route))'
      <4>1. PICK x : x = st'[w] OBVIOUS
      <4>2. x = st[w] BY <1>1, <4>1
      <4>3. x.pc = "snap" => x.digest # LatestDigest(x.route) BY <4>2 DEF HInv
      <4>4. x.pc = "snap" => x.digest # LatestDigest(x.route)' BY <2>2, <4>3 DEF SameLatest
      <4>5. x.sel.of = "snapshots" => Repeating(snapshots', x.sel.ids) BY <1>1, <4>2 DEF HInv
      <4> QED BY <4>1, <4>4, <4>5
    <3> QED BY <3>1
  <2>5. (\A w \in Collectors :
           st[w].todo \in Seq(Metered \cup {Health}) /\ st[w].route \notin Discovery)'
    BY <1>1 DEF HInv
  <2> QED BY <2>1, <2>3, <2>4, <2>5 DEF HInv
<1>2. ASSUME NEW w \in Writers, UNCHANGED <<snapshots, seen>>,
             \/ StartFails(w) \/ Try(w) \/ TooLate(w) \/ Accept(w) \/ Reject(w)
             \/ SnapshotFails(w) \/ Finish(w) \/ FinishFails(w) \/ Kill(w)
             \/ Restart(w) \/ CountPages(w)
      PROVE  HInv'
  <2>1. PICK new : st' = [st EXCEPT ![w] = new] /\ Plain(w, new) BY <1>2, PlainSteps
  <2> QED BY <1>2, <2>1, HPlain
<1>4. ASSUME NEW w \in Writers,
             \/ StartFails(w) \/ Try(w) \/ TooLate(w) \/ Accept(w) \/ Reject(w)
             \/ SnapshotFails(w) \/ Finish(w) \/ FinishFails(w) \/ Kill(w) \/ Restart(w)
             \/ CountPages(w)
      PROVE  UNCHANGED <<snapshots, seen>>
  BY <1>4 DEF CountPages, StartFails, Try, TooLate, Accept, Reject, SnapshotFails, Finish, FinishFails, Kill,
              Restart, RecordAttempt, UpdateAttemptOutcome, FinishCycle, tables, history
<1>5. ASSUME NEW w \in Writers,
             \/ Begin(w) \/ CountPages(w) \/ SelectAttempts(w) \/ SelectCycles(w)
             \/ PruneDelete(w) \/ StartCycle(w)
             \/ StartFails(w) \/ Request(w) \/ Try(w) \/ TooLate(w) \/ Accept(w)
             \/ Reject(w) \/ Compare(w) \/ Record(w) \/ SnapshotFails(w)
             \/ Finish(w) \/ FinishFails(w) \/ Kill(w) \/ Restart(w)
      PROVE  HInv'
  <2>1. CASE Begin(w) \/ SelectAttempts(w) \/ SelectCycles(w) BY <2>1, HSelect
  <2>2. CASE StartCycle(w) BY <2>2, HStartCycle
  <2>3. CASE Request(w) BY <2>3, HRequest
  <2>4. CASE Compare(w) BY <2>4, HCompare
  <2>5. CASE Record(w) BY <2>5, HRecord
  <2>6. CASE PruneDelete(w) BY <2>6, HPruneDelete
  <2>7. CASE \/ StartFails(w) \/ Try(w) \/ TooLate(w) \/ Accept(w) \/ Reject(w)
             \/ SnapshotFails(w) \/ Finish(w) \/ FinishFails(w) \/ Kill(w) \/ Restart(w)
             \/ CountPages(w)
    <3>1. UNCHANGED <<snapshots, seen>> BY <1>4, <2>7
    <3> QED BY <1>2, <2>7, <3>1
  <2> QED BY <1>5, <2>1, <2>2, <2>3, <2>4, <2>5, <2>6, <2>7
<1>6. CASE Tick BY <1>1, <1>6 DEF Tick, tables, history
<1>7. CASE UNCHANGED vars BY <1>1, <1>7 DEF vars, tables
<1> QED BY <1>5, <1>6, <1>7 DEF Next

\* Every change of what /config and agent.json say is stored once and in order,
\* and no prune removes it, although prune finds the duplicates that it deletes
\* before its transaction, with other commits in between
\* (record_discovery_snapshot and prune of telemetry.py).  The timer starts one
\* probe at a time, and the last of the old snapshots is no duplicate: the id
\* of one that a prune has found, and another deleted, could otherwise be given
\* to a new row before the first deletes it.
THEOREM HistorySurvives == OneProbe /\ Spec => []HistoryKept
<1>1. SUFFICES ASSUME OneProbe PROVE Spec => []HistoryKept OBVIOUS
<1>2. Init => WInv /\ HInv BY <1>1, WInvInit, HInvInit
<1>3. WInv /\ HInv /\ [Next]_vars => (WInv /\ HInv)'
  <2>1. SUFFICES ASSUME WInv, HInv, [Next]_vars PROVE (WInv /\ HInv)' OBVIOUS
  <2>2. WInv' BY <2>1, WInvNext
  <2>3. \A p, q \in Pulses : p = q BY <1>1 DEF OneProbe
  <2>4. HInv' BY <2>1, <2>2, <2>3, HInvNext
  <2> QED BY <2>2, <2>4
<1>4. HInv => HistoryKept BY DEF HInv
<1> QED BY <1>2, <1>3, <1>4, PTL DEF Spec
=============================================================================
