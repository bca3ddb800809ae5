---------------------------- MODULE SignerProofs ----------------------------
(***************************************************************************)
(* Proofs about SignerStore: its inductive invariants, CycleInv of what    *)
(* cycles and the migration hold of the store, StoreInv of what the store  *)
(* holds of the committed ticks, and FrameInv of where the room sampler    *)
(* stands after them.                                                      *)
(*                                                                         *)
(* And about SignerSchema: its inductive invariant SInv, and from it that  *)
(* a collector never works on a store that is not whole, that the version  *)
(* is set last and that no alternation is forgotten, for every consistent  *)
(* store and any number of starts, each killed anywhere.                   *)
(***************************************************************************)
EXTENDS SignerStore, SignerSchema,
        SequenceTheorems, FunctionTheorems, FiniteSetTheorems, TLAPS

-----------------------------------------------------------------------------
(* Finite sets in an order.                                                *)

\* The elements that weigh no more than one, and those below one.
AtMost(S, f, r) == {s \in S : f[s] <= f[r]}

Under(S, r) == {s \in S : s < r}

\* In a set with distinct weights every number up to its size is the number of
\* elements that weigh no more than one of them.
LEMMA OrderOnto ==
  ASSUME NEW S, IsFiniteSet(S), NEW f, \A r \in S : f[r] \in Int,
         \A a, b \in S : f[a] = f[b] => a = b,
         NEW k \in 1..Cardinality(S)
  PROVE  \E r \in S : Cardinality(AtMost(S, f, r)) = k
<1> DEFINE Below(r) == AtMost(S, f, r)
           n == Cardinality(S)
           place == [r \in S |-> Cardinality(Below(r))]
<1>1. n \in Nat BY FS_CardinalityType
<1>2. ASSUME NEW r \in S
      PROVE  /\ IsFiniteSet(Below(r)) /\ Cardinality(Below(r)) \in 1..n
  <2>1. Below(r) \in SUBSET S /\ r \in Below(r) BY DEF AtMost
  <2> QED BY <1>1, <2>1, FS_Subset, FS_CardinalityType, FS_EmptySet
<1>3. ASSUME NEW a \in S, NEW b \in S, f[a] < f[b]
      PROVE  Cardinality(Below(a)) # Cardinality(Below(b))
  <2>1. f[a] \in Int /\ f[b] \in Int /\ \A s \in S : f[s] \in Int OBVIOUS
  <2>2. Below(a) \in SUBSET Below(b) BY <1>3, <2>1 DEF AtMost
  <2>3. b \in Below(b) /\ b \notin Below(a) BY <1>3, <2>1 DEF AtMost
  <2> QED BY <1>2, <2>2, <2>3, FS_Subset
<1>4. place \in Injection(S, 1..n)
  <2>1. place \in [S -> 1..n] BY <1>2
  <2>2. ASSUME NEW a \in S, NEW b \in S, place[a] = place[b] PROVE a = b
    <3>1. ~(f[a] < f[b]) /\ ~(f[b] < f[a]) BY <1>3, <2>2
    <3>2. f[a] = f[b] BY <3>1
    <3> QED BY <3>2
  <2> QED BY <2>1, <2>2, Fun_IsInj
<1>5. IsFiniteSet(1..n) /\ Cardinality(1..n) = n BY <1>1, FS_Interval
<1>6. place \in Surjection(S, 1..n) BY <1>4, <1>5, FS_Injection
<1>7. \A t \in 1..n : \E r \in S : place[r] = t
  <2> HIDE DEF place, n
  <2> QED BY <1>6, Fun_SurjectionProperties
<1> QED BY <1>7

\* The elements of a set of numbers that have less than so many below them.
LEMMA SmallestOnto ==
  ASSUME NEW S \in SUBSET Nat, IsFiniteSet(S), NEW k \in 1..Cardinality(S)
  PROVE  \E r \in S : Cardinality(Under(S, r)) = k - 1
<1> DEFINE f == [r \in S |-> r]
<1>1. /\ f \in [S -> Int] /\ \A a, b \in S : f[a] = f[b] => a = b
      /\ \A s \in S : f[s] = s
  OBVIOUS
<1> HIDE DEF f
<1>2. \E r \in S : Cardinality(AtMost(S, f, r)) = k
  <2>1. \A a, b \in S : f[a] = f[b] => a = b BY <1>1
  <2>2. f \in [S -> Int] BY <1>1
  <2> QED BY <2>1, <2>2, OrderOnto
<1>7. PICK r \in S : Cardinality(AtMost(S, f, r)) = k BY <1>2
<1>3. AtMost(S, f, r) = Under(S, r) \cup {r}
  <2>1. \A s \in S : s \in Nat /\ f[s] = s BY <1>1
  <2>2. \A s \in S : f[s] <= f[r] <=> s < r \/ s = r BY <2>1
  <2> QED BY <2>2 DEF Under, AtMost
<1>4. IsFiniteSet(Under(S, r)) /\ Cardinality(Under(S, r)) \in Nat
  <2>1. Under(S, r) \in SUBSET S BY DEF Under
  <2> QED BY <2>1, FS_Subset, FS_CardinalityType
<1>5. r \notin Under(S, r) BY DEF Under
<1>6. Cardinality(Under(S, r) \cup {r}) = Cardinality(Under(S, r)) + 1
  BY <1>4, <1>5, FS_AddElement
<1> QED BY <1>7, <1>3, <1>4, <1>6

\* A part of a finite set is finite and no larger.
LEMMA Part ==
  ASSUME NEW S, IsFiniteSet(S), NEW T \in SUBSET S
  PROVE  /\ IsFiniteSet(T) /\ Cardinality(T) \in Nat /\ Cardinality(S) \in Nat
         /\ Cardinality(T) <= Cardinality(S)
BY FS_Subset, FS_CardinalityType

-----------------------------------------------------------------------------
(* The rooms that are kept for a DID.                                      *)

\* They are some of the rooms; all of them if there are few.
LEMMA KeptIs ==
  ASSUME NEW S \in SUBSET Nat, IsFiniteSet(S)
  PROVE  /\ Kept(S) \subseteq S /\ IsFiniteSet(Kept(S))
         /\ Cardinality(S) <= RoomsKept => Kept(S) = S
<1>1. Kept(S) \in SUBSET S BY DEF Kept
<1>2. RoomsKept \in Nat BY SignerAssumption
<1>3. ASSUME Cardinality(S) <= RoomsKept, NEW r \in S
      PROVE  Cardinality(Under(S, r)) < RoomsKept
  <2>1. Under(S, r) \in SUBSET S /\ r \in S /\ r \notin Under(S, r) BY DEF Under
  <2>2. Cardinality(Under(S, r)) # Cardinality(S) BY <2>1, FS_Subset
  <2> QED BY <1>2, <1>3, <2>1, <2>2, Part
<1> QED BY <1>1, <1>3, Part DEF Kept, Under

\* What was forgotten before does not matter for what is kept later.
LEMMA KeptAgain ==
  ASSUME NEW A \in SUBSET Nat, NEW B \in SUBSET Nat, IsFiniteSet(A), IsFiniteSet(B)
  PROVE  Kept(Kept(A) \cup B) = Kept(A \cup B)
<1> DEFINE U == A \cup B
           V == Kept(A) \cup B
<1>1. IsFiniteSet(U) /\ U \in SUBSET Nat BY FS_Union
<1>2. V \in SUBSET U /\ IsFiniteSet(V) BY <1>1, KeptIs, Part
<1>3. RoomsKept \in Nat \ {0} BY SignerAssumption
<1>4. ASSUME NEW S \in SUBSET U, NEW r
      PROVE  /\ IsFiniteSet(Under(S, r)) /\ Cardinality(Under(S, r)) \in Nat
             /\ Cardinality(Under(S, r)) <= Cardinality(Under(U, r))
  <2>1. Under(S, r) \in SUBSET Under(U, r) /\ Under(U, r) \in SUBSET U BY DEF Under
  <2> QED BY <1>1, <2>1, Part
<1>5. ASSUME NEW r \in Kept(U) PROVE r \in Kept(V)
  <2>1. r \in U /\ Cardinality(Under(U, r)) < RoomsKept BY DEF Kept, Under
  <2>2. r \in V
    <3>1. CASE r \in B BY <3>1
    <3>2. CASE r \in A
      <4>1. A \in SUBSET U OBVIOUS
      <4>2. Cardinality(Under(A, r)) < RoomsKept
        <5> HIDE DEF Under, U
        <5>1. Cardinality(Under(U, r)) \in Nat BY <1>4
        <5>2. Cardinality(Under(A, r)) \in Nat BY <4>1, <1>4
        <5>3. Cardinality(Under(A, r)) <= Cardinality(Under(U, r)) BY <4>1, <1>4
        <5> QED BY <1>3, <2>1, <5>1, <5>2, <5>3
      <4> QED BY <3>2, <4>2 DEF Kept, Under
    <3> QED BY <2>1, <3>1, <3>2
  <2>3. Cardinality(Under(V, r)) < RoomsKept
    <3> HIDE DEF Under, U, V
    <3>1. Cardinality(Under(U, r)) \in Nat BY <1>4
    <3>2. Cardinality(Under(V, r)) \in Nat BY <1>2, <1>4
    <3>3. Cardinality(Under(V, r)) <= Cardinality(Under(U, r)) BY <1>2, <1>4
    <3> QED BY <1>3, <2>1, <3>1, <3>2, <3>3
  <2> QED BY <2>2, <2>3 DEF Kept, Under
<1>6. ASSUME NEW r \in Kept(V) PROVE r \in Kept(U)
  <2>1. r \in V /\ r \in U /\ Cardinality(Under(V, r)) < RoomsKept BY <1>2 DEF Kept, Under
  <2>2. CASE Under(U, r) \subseteq V
    <3>1. Under(U, r) = Under(V, r) BY <1>2, <2>2 DEF Under
    <3> QED BY <2>1, <3>1 DEF Kept, Under
  <2>3. CASE ~(Under(U, r) \subseteq V)
    <3>1. PICK a \in A : a < r /\ a \notin Kept(A) BY <2>3 DEF Under
    <3>2. ~(Cardinality(Under(A, a)) < RoomsKept) BY <3>1 DEF Kept, Under
    <3> DEFINE W == Under(A, a)
               n == Cardinality(W)
    <3>3. W \in SUBSET Nat /\ IsFiniteSet(W) /\ n \in Nat /\ W \in SUBSET A
      <4>1. W \in SUBSET A BY DEF Under
      <4> QED BY <4>1, Part
    <3>4. RoomsKept <= n BY <1>3, <3>2, <3>3
    <3>5. \A k \in 1..n : \E s \in W : Cardinality(Under(W, s)) = k - 1
      <4> HIDE DEF W
      <4> QED BY <3>3, SmallestOnto
    <3>6. \A s \in W : Under(A, s) = Under(W, s)
      <4>1. \A s \in W, t \in A : t < s => t < a BY <3>1 DEF Under
      <4> QED BY <4>1 DEF Under
    <3> DEFINE F(k) == CHOOSE s \in W : Cardinality(Under(W, s)) = k - 1
               g == [k \in 1..RoomsKept |-> F(k)]
    <3>7. \A k \in 1..RoomsKept : F(k) \in W /\ Cardinality(Under(W, F(k))) = k - 1
      <4>1. \A k \in 1..RoomsKept : k \in 1..n BY <1>3, <3>3, <3>4
      <4> HIDE DEF W, n
      <4> QED BY <3>5, <4>1
    <3> HIDE DEF F
    <3>8. \A k \in 1..RoomsKept : F(k) \in Under(V, r)
      <4>1. ASSUME NEW k \in 1..RoomsKept PROVE F(k) \in Under(V, r)
        <5>1. F(k) \in A /\ F(k) < a BY <3>7 DEF Under
        <5>2. F(k) < r
          <6>1. F(k) \in Nat /\ a \in Nat /\ r \in Nat BY <1>1, <2>1, <5>1
          <6> QED BY <3>1, <5>1, <6>1
        <5>3. Cardinality(Under(A, F(k))) = k - 1 BY <3>6, <3>7
        <5>4. k - 1 < RoomsKept BY <1>3
        <5>5. F(k) \in Kept(A) BY <5>1, <5>3, <5>4 DEF Kept, Under
        <5> QED BY <5>2, <5>5 DEF Under
      <4> QED BY <4>1
    <3>9. g \in Injection(1..RoomsKept, Under(V, r))
      <4>1. g \in [1..RoomsKept -> Under(V, r)] BY <3>8
      <4>2. ASSUME NEW i \in 1..RoomsKept, NEW j \in 1..RoomsKept, g[i] = g[j] PROVE i = j
        <5>1. F(i) = F(j) BY <4>2
        <5>2. i - 1 = j - 1 BY <3>7, <5>1
        <5> QED BY <1>3, <5>2
      <4> HIDE DEF g
      <4> QED BY <4>1, <4>2, Fun_IsInj
    <3>10. IsFiniteSet(Under(V, r)) BY <1>2, <1>4
    <3>11. Cardinality(1..RoomsKept) = RoomsKept /\ IsFiniteSet(1..RoomsKept)
      BY <1>3, FS_Interval
    <3>12. RoomsKept <= Cardinality(Under(V, r))
      <4> HIDE DEF g, V, Under
      <4> QED BY <3>9, <3>10, <3>11, FS_Injection
    <3>13. Cardinality(Under(V, r)) \in Nat BY <1>2, <1>4
    <3> QED BY <1>3, <2>1, <3>12, <3>13
  <2> QED BY <2>2, <2>3
<1> QED BY <1>5, <1>6

\* A DID keeps two rooms if it was in two.
LEMMA KeptTwo ==
  ASSUME NEW S \in SUBSET Nat, IsFiniteSet(S)
  PROVE  Cardinality(Kept(S)) >= 2 <=> Cardinality(S) >= 2
<1>1. /\ Kept(S) \in SUBSET S /\ Cardinality(S) \in Nat /\ Cardinality(Kept(S)) \in Nat
      /\ Cardinality(Kept(S)) <= Cardinality(S) /\ IsFiniteSet(Kept(S))
  BY KeptIs, Part
<1>2. ASSUME Cardinality(S) >= 2 PROVE Cardinality(Kept(S)) >= 2
  <2>1. 1 \in 1..Cardinality(S) /\ 2 \in 1..Cardinality(S) BY <1>1, <1>2
  <2>2. PICK a \in S : Cardinality(Under(S, a)) = 1 - 1 BY <2>1, SmallestOnto
  <2>3. PICK b \in S : Cardinality(Under(S, b)) = 2 - 1 BY <2>1, SmallestOnto
  <2>4. a # b BY <2>2, <2>3
  <2>5. RoomsKept \in Nat /\ 1 < RoomsKept BY SignerAssumption
  <2>6. {a, b} \in SUBSET Kept(S) BY <2>2, <2>3, <2>5 DEF Kept, Under
  <2>7. Cardinality({a, b}) = 2
    <3>1. IsFiniteSet({a}) /\ Cardinality({a}) = 1 /\ b \notin {a} BY <2>4, FS_Singleton
    <3>2. Cardinality({a} \cup {b}) = 2 BY <3>1, FS_AddElement
    <3>3. {a} \cup {b} = {a, b} OBVIOUS
    <3> QED BY <3>2, <3>3
  <2>8. Cardinality({a, b}) <= Cardinality(Kept(S)) BY <1>1, <2>6, Part
  <2> QED BY <1>1, <2>7, <2>8
<1> QED BY <1>1, <1>2

-----------------------------------------------------------------------------
(* The room sampler.                                                       *)

\* The listing in the order of its ranks is a sequence of rooms.
LEMMA FrameIs ==
  ASSUME NEW e \in 0..MaxEpoch, NEW listing \in SUBSET Rooms
  PROVE  Frame(e, listing) \in Seq(Rooms)
<1> DEFINE n == Cardinality(listing)
           room(k) == CHOOSE r \in listing : Place(e, listing, r) = k
<1>1. IsFiniteSet(listing) /\ n \in Nat BY SignerAssumption, Part
<1>2. \A r \in listing : Place(e, listing, r) = Cardinality(AtMost(listing, Rank[e], r))
  BY DEF Place, AtMost
<1>3. ASSUME NEW k \in 1..n PROVE room(k) \in Rooms
  <2>1. \A r \in listing : Rank[e][r] \in Int BY SignerAssumption
  <2>2. \A a, b \in listing : Rank[e][a] = Rank[e][b] => a = b BY SignerAssumption
  <2>3. \E r \in listing : Cardinality(AtMost(listing, Rank[e], r)) = k
    BY <1>1, <2>1, <2>2, OrderOnto
  <2>4. \E r \in listing : Place(e, listing, r) = k BY <1>2, <2>3
  <2> QED BY <2>4
<1>4. Frame(e, listing) = [k \in 1..n |-> room(k)] BY DEF Frame
<1> HIDE DEF room, n
<1> QED BY <1>1, <1>3, <1>4

\* A slice of the frame, up to its end.
LEMMA SliceIs ==
  ASSUME NEW m \in Metas
  PROVE  /\ Slice(m).slice \in Seq(Rooms)
         /\ \E stop \in Nat : Slice(m).state = [m EXCEPT !.position = stop]
<1> DEFINE stops == {m.position + ReadBudget - 1, Len(m.frame)}
           stop == Min(stops)
<1>1. m.position \in Nat /\ m.frame \in Seq(Rooms) /\ Len(m.frame) \in Nat
  BY LenProperties DEF Metas
<1>2. ReadBudget \in Nat /\ ReadBudget > 1 BY SignerAssumption
<1>3. m.position + ReadBudget - 1 \in Nat BY <1>1, <1>2
<1>4. stop \in stops /\ stop <= Len(m.frame)
  <2>1. \E x \in stops : \A y \in stops : x <= y BY <1>1, <1>3
  <2>2. stop \in stops /\ \A y \in stops : stop <= y BY <2>1 DEF Min
  <2> QED BY <2>2
<1>5. stop \in Nat BY <1>1, <1>3, <1>4
<1> HIDE DEF stop, stops
<1>6. \A i \in m.position + 1..stop : m.frame[i] \in Rooms
  <2>1. \A i \in m.position + 1..stop : i \in 1..Len(m.frame) BY <1>1, <1>4, <1>5
  <2> QED BY <1>1, <2>1, ElementOfSeq
<1>7. m.position + 1 \in Int /\ stop \in Int BY <1>1, <1>5
<1>8. SubSeq(m.frame, m.position + 1, stop) \in Seq(Rooms) BY <1>6, <1>7, SubSeqProperties
<1> QED BY <1>5, <1>8 DEF Slice, stop, stops

\* The metadata with which a tick is sampled: a later epoch or the same one, and
\* everything else but the frame and the position as before.
LEMMA SampleIs ==
  ASSUME NEW m \in Metas, ~Exhausted(m), NEW listing \in Listings
  PROVE  /\ RoomSample(m, listing).slice \in Seq(Rooms)
         /\ RoomSample(m, listing).state \in Metas
         /\ LET s == RoomSample(m, listing).state
            IN  /\ m.epoch <= s.epoch
                /\ s.started = m.started /\ s.saturated = m.saturated /\ s.census = m.census
                /\ s.firstDate = m.firstDate /\ s.lastDate = m.lastDate /\ s.dates = m.dates
                /\ s.updated = m.updated
<1> DEFINE f == Framed(m, listing)
<1>1. f \in Metas /\ m.epoch <= f.epoch
      /\ f.started = m.started /\ f.saturated = m.saturated /\ f.census = m.census
      /\ f.firstDate = m.firstDate /\ f.lastDate = m.lastDate /\ f.dates = m.dates
      /\ f.updated = m.updated
  <2>1. CASE m.position < Len(m.frame)
    <3>1. f = m BY <2>1 DEF Framed
    <3>2. m.epoch <= m.epoch
      <4>1. m.epoch \in Int BY DEF Metas
      <4> QED BY <4>1
    <3> HIDE DEF f
    <3>3. f \in Metas BY <3>1
    <3>4. m.epoch <= f.epoch BY <3>1, <3>2
    <3>5. f.saturated = m.saturated BY <3>1, Zenon
    <3>6. /\ f.started = m.started /\ f.census = m.census
          /\ f.firstDate = m.firstDate /\ f.lastDate = m.lastDate /\ f.dates = m.dates
          /\ f.updated = m.updated
      BY <3>1, Zenon
    <3> QED BY <3>3, <3>4, <3>5, <3>6, Zenon
  <2>2. CASE ~(m.position < Len(m.frame))
    <3>1. m.position \in Nat /\ Len(m.frame) \in Nat /\ m.epoch \in -1..MaxEpoch
      BY LenProperties DEF Metas
    <3>2. MaxEpoch \in Nat /\ ~(m.epoch >= MaxEpoch)
      BY <2>2, <3>1, SignerAssumption DEF Exhausted
    <3>3. m.epoch + 1 \in 0..MaxEpoch BY <3>1, <3>2
    <3>4. Frame(m.epoch + 1, listing) \in Seq(Rooms) BY <3>3, FrameIs, SignerAssumption
    <3>5. f = [m EXCEPT !.epoch = m.epoch + 1, !.frame = Frame(m.epoch + 1, listing),
                        !.position = 0]
      BY <2>2 DEF Framed
    <3> HIDE DEF f
    <3>6. f \in Metas
      <4>1. m.epoch + 1 \in -1..MaxEpoch BY <3>2, <3>3
      <4> QED BY <3>4, <3>5, <4>1 DEF Metas
    <3>7. f.epoch = m.epoch + 1 BY <3>5 DEF Metas
    <3>8. m.epoch <= f.epoch BY <3>1, <3>7
    <3>9. f.saturated = m.saturated BY <3>5 DEF Metas
    <3>10. /\ f.started = m.started /\ f.census = m.census
           /\ f.firstDate = m.firstDate /\ f.lastDate = m.lastDate /\ f.dates = m.dates
           /\ f.updated = m.updated
      BY <3>5 DEF Metas
    <3> QED BY <3>6, <3>8, <3>9, <3>10, Zenon
  <2> QED BY <2>1, <2>2
<1> HIDE DEF f
<1>2. RoomSample(m, listing) = Slice(f) BY DEF RoomSample, f
<1>3. PICK stop \in Nat : Slice(f).state = [f EXCEPT !.position = stop] BY <1>1, SliceIs
<1>4. Slice(f).slice \in Seq(Rooms) BY <1>1, SliceIs
<1> DEFINE s == Slice(f).state
<1>5. s \in Metas /\ s.epoch = f.epoch
      /\ s.started = f.started /\ s.saturated = f.saturated /\ s.census = f.census
      /\ s.firstDate = f.firstDate /\ s.lastDate = f.lastDate /\ s.dates = f.dates
      /\ s.updated = f.updated
  BY <1>1, <1>3 DEF Metas
<1> HIDE DEF s
<1>6. RoomSample(m, listing).state = s BY <1>2 DEF s
<1> QED BY <1>1, <1>2, <1>4, <1>5, <1>6

-----------------------------------------------------------------------------
(* What a tick makes of the rows.                                          *)

\* What a tick saw is of known DIDs and rooms.
LEMMA ObservedIs ==
  ASSUME NEW reads, \A r \in reads : r[1] \in Rooms \cup {Lobby} /\ r[2] \in Windows
  PROVE  Observed(reads) \in Seens
<1> DEFINE ds == UNION {Signers(r[2]) : r \in reads}
           rooms(d) == {r[1] : r \in {x \in reads : d \in Signers(x[2])}}
           mutual(d) == \E r \in reads : d \in Counterparties(r[2])
<1>1. ASSUME NEW r \in reads PROVE Signers(r[2]) \subseteq Dids
  <2>1. r[2] \in Seq([from : Dids, nonce : BOOLEAN, at : Int]) BY SignerAssumption
  <2>2. \A i \in DOMAIN r[2] : r[2][i] \in [from : Dids, nonce : BOOLEAN, at : Int]
    <3> DEFINE M == [from : Dids, nonce : BOOLEAN, at : Int]
    <3> HIDE DEF M
    <3>1. r[2] \in [1..Len(r[2]) -> M] BY <2>1, LenProperties DEF M
    <3>2. \A i \in DOMAIN r[2] : r[2][i] \in M BY <3>1
    <3> QED BY <3>2 DEF M
  <2> QED BY <2>2 DEF Signers, Signed
<1>2. ds \in SUBSET Dids BY <1>1
<1>3. \A d \in ds : rooms(d) \in SUBSET (Rooms \cup {Lobby}) OBVIOUS
<1>4. \A d \in ds : mutual(d) \in BOOLEAN OBVIOUS
<1>5. Observed(reads) = [d \in ds |-> [rooms |-> rooms(d), counterparty |-> mutual(d)]]
  BY DEF Observed
<1> HIDE DEF ds, rooms, mutual
<1>6. \A d \in ds : [rooms |-> rooms(d), counterparty |-> mutual(d)]
                      \in [rooms : SUBSET (Rooms \cup {Lobby}), counterparty : BOOLEAN]
  BY <1>3, <1>4
<1>7. Observed(reads)
        \in [ds -> [rooms : SUBSET (Rooms \cup {Lobby}), counterparty : BOOLEAN]]
  BY <1>5, <1>6
<1> QED BY <1>2, <1>7 DEF Seens

\* What a tick saw of one DID.
Saw == [rooms : SUBSET (Rooms \cup {Lobby}), counterparty : BOOLEAN]

\* A tick sees DIDs, in rooms.
LEMMA SeenIs ==
  ASSUME NEW seen \in Seens
  PROVE  /\ DOMAIN seen \subseteq Dids
         /\ \A d \in DOMAIN seen :
              seen[d] \in Saw
<1>1. PICK ds \in SUBSET Dids :
        seen \in [ds -> Saw]
  BY DEF Seens, Saw
<1> QED BY <1>1

\* Dates are numbers, in the order of the readings.
LEMMA DateIs ==
  ASSUME NEW s \in Nat, NEW t \in Nat, s <= t
  PROVE  Date(s) \in Nat /\ Date(t) \in Nat /\ Date(s) <= Date(t)
BY SignerAssumption DEF Date

\* The number of dates of a row after a tick on date `day`.
DatesThen(row, day) ==
  IF row.dates > 0 /\ row.lastDate = day THEN row.dates ELSE row.dates + 1

\* The dates of a row after a tick, and nothing else.
LEMMA DatesAre ==
  ASSUME NEW row \in Row, NEW day \in Nat, NEW y, y = DatesAfter(row, day)
  PROVE  /\ y \in Row /\ y.rooms = row.rooms
         /\ y.counterparty = row.counterparty
<1>1. /\ row.dates \in Nat /\ row.firstDate \in Int BY DEF Row
<1>2. CASE row.dates > 0 /\ row.lastDate = day BY <1>2 DEF DatesAfter
<1>3. CASE ~(row.dates > 0 /\ row.lastDate = day)
  <2> DEFINE fd == IF row.dates = 0 THEN day ELSE row.firstDate
  <2>1. fd \in Int /\ day \in Int /\ row.dates + 1 \in Nat BY <1>1
  <2>2. y = [row EXCEPT !.firstDate = fd, !.lastDate = day, !.dates = row.dates + 1]
    BY <1>3 DEF DatesAfter
  <2> HIDE DEF fd
  <2>3. y \in Row BY <2>1, <2>2 DEF Row
  <2>4. y.rooms = row.rooms BY <2>2 DEF Row
  <2>5. y.counterparty = row.counterparty BY <2>2 DEF Row
  <2> QED BY <2>3, <2>4, <2>5
<1> QED BY <1>2, <1>3

\* Their number, and the ticks.
LEMMA DatesCount ==
  ASSUME NEW row \in Row, NEW day \in Nat, NEW y, y = DatesAfter(row, day)
  PROVE  y.ticks = row.ticks /\ y.lastDate = day /\ y.dates = DatesThen(row, day)
<1>1. CASE row.dates > 0 /\ row.lastDate = day BY <1>1 DEF DatesAfter, DatesThen
<1>2. CASE ~(row.dates > 0 /\ row.lastDate = day)
  BY <1>2 DEF DatesAfter, DatesThen, Row
<1> QED BY <1>1, <1>2

\* A row after a tick.
LEMMA UpdatedIs ==
  ASSUME NEW row \in Row, NEW at \in Nat, NEW seen \in Saw,
         NEW new, new = Updated(row, seen, at)
  PROVE  new \in Row /\ new.rooms = Kept(row.rooms \cup seen.rooms)
<1> DEFINE y == DatesAfter(row, Date(at))
           first == IF y.first = Never THEN at ELSE y.first
           mutual == y.counterparty \/ seen.counterparty
           kept == Kept(y.rooms \cup seen.rooms)
           count == y.ticks + 1
<1>1. Date(at) \in Nat BY DateIs
<1>2. y \in Row /\ y.rooms = row.rooms BY <1>1, DatesAre
<1>3. new = [y EXCEPT !.ticks = count, !.first = first, !.last = at, !.rooms = kept,
                      !.counterparty = mutual]
  BY DEF Updated, KeptUnion
<1>4. mutual \in BOOLEAN OBVIOUS
<1> HIDE DEF y
<1>5. first \in Int
  <2>1. y.first \in Int /\ at \in Int BY <1>2 DEF Row
  <2> QED BY <2>1
<1>6. count \in Nat
  <2>1. y.ticks \in Nat BY <1>2 DEF Row
  <2> QED BY <2>1
<1>7. kept \in SUBSET (Rooms \cup {Lobby})
  <2>1. y.rooms \in SUBSET (Rooms \cup {Lobby}) BY <1>2 DEF Row
  <2>2. seen.rooms \in SUBSET (Rooms \cup {Lobby}) BY DEF Saw
  <2> QED BY <2>1, <2>2 DEF Kept
<1> HIDE DEF first, mutual, kept, count
<1> DEFINE z == [y EXCEPT !.counterparty = mutual]
           w == [z EXCEPT !.rooms = kept]
<1>8. z \in Row BY <1>2, <1>4 DEF Row
<1>9. new = [w EXCEPT !.ticks = count, !.first = first, !.last = at]
  BY <1>2, <1>3 DEF Row
<1> HIDE DEF z
<1>10. w \in Row BY <1>7, <1>8 DEF Row
<1> HIDE DEF w
<1>11. at \in Int OBVIOUS
<1>12. new \in Row BY <1>5, <1>6, <1>9, <1>10, <1>11 DEF Row
<1>13. new.rooms = kept BY <1>2, <1>3 DEF Row
<1> QED BY <1>2, <1>12, <1>13 DEF kept

\* Its counters.
LEMMA CountsUpdated ==
  ASSUME NEW row \in Row, NEW at \in Nat, NEW seen \in Saw,
         NEW new, new = Updated(row, seen, at)
  PROVE  /\ new.ticks = row.ticks + 1 /\ new.last = at /\ new.lastDate = Date(at)
         /\ new.dates = DatesThen(row, Date(at))
<1> DEFINE y == DatesAfter(row, Date(at))
<1>1. Date(at) \in Nat BY DateIs
<1>2. y \in Row BY <1>1, DatesAre
<1>3. y.ticks = row.ticks /\ y.lastDate = Date(at) /\ y.dates = DatesThen(row, Date(at))
  BY <1>1, DatesCount
<1>4. new = [y EXCEPT !.ticks = y.ticks + 1, !.first = IF y.first = Never THEN at ELSE y.first,
                      !.last = at, !.rooms = Kept(y.rooms \cup seen.rooms),
                      !.counterparty = y.counterparty \/ seen.counterparty]
  BY DEF Updated, KeptUnion
<1> HIDE DEF y
<1>5. /\ new.ticks = y.ticks + 1 /\ new.last = at /\ new.lastDate = y.lastDate
      /\ new.dates = y.dates
  BY <1>2, <1>4 DEF Row
<1> QED BY <1>3, <1>5

\* Whether it alternated.
LEMMA MutualUpdated ==
  ASSUME NEW row \in Row, NEW at \in Nat, NEW seen \in Saw
  PROVE  Updated(row, seen, at).counterparty = (row.counterparty \/ seen.counterparty)
<1> DEFINE y == DatesAfter(row, Date(at))
           new == Updated(row, seen, at)
<1>0. Date(at) \in Nat BY DateIs
<1>1. y \in Row /\ y.counterparty = row.counterparty BY <1>0, DatesAre, Zenon
<1>2. new = [y EXCEPT !.ticks = y.ticks + 1, !.first = IF y.first = Never THEN at ELSE y.first,
                      !.last = at, !.rooms = Kept(y.rooms \cup seen.rooms),
                      !.counterparty = y.counterparty \/ seen.counterparty]
  BY DEF Updated, KeptUnion
<1> HIDE DEF y, new
<1>3. new.counterparty = (y.counterparty \/ seen.counterparty) BY <1>1, <1>2 DEF Row
<1> QED BY <1>1, <1>3, Zenon DEF new

\* A row that no tick has counted.
LEMMA NewRowIs ==
  NewRow \in Row
BY DEF NewRow, Row, Never

\* The rows after a tick: those of the DIDs that it saw are updated.
LEMMA RowsAre ==
  ASSUME NEW dids \in Tables, NEW seen \in Seens, NEW at \in Nat,
         NEW new, new = UpdatedRows(dids, seen, at)
  PROVE  /\ new \in Tables
         /\ \A d \in Dids :
              IF d \in DOMAIN seen
              THEN new[d] = Updated(IF dids[d] = None THEN NewRow ELSE dids[d], seen[d], at)
              ELSE new[d] = dids[d]
<1> DEFINE old(d) == IF dids[d] = None THEN NewRow ELSE dids[d]
<1>1. new = [d \in Dids |-> IF d \notin DOMAIN seen THEN dids[d]
                            ELSE Updated(old(d), seen[d], at)]
  BY DEF UpdatedRows
<1>2. ASSUME NEW d \in Dids PROVE old(d) \in Row /\ dids[d] \in Row \cup {None}
  BY NewRowIs DEF Tables
<1>3. ASSUME NEW d \in Dids, d \in DOMAIN seen PROVE Updated(old(d), seen[d], at) \in Row
  <2> HIDE DEF old
  <2> QED BY <1>2, <1>3, SeenIs, UpdatedIs
<1> HIDE DEF old
<1>4. new \in Tables BY <1>1, <1>2, <1>3 DEF Tables
<1>5. \A d \in Dids : IF d \in DOMAIN seen THEN new[d] = Updated(old(d), seen[d], at)
                      ELSE new[d] = dids[d]
  BY <1>1
<1> QED BY <1>4, <1>5 DEF old

\* The metadata after a tick: what it is of, but for the dates and the time.
LEMMA MetaIs ==
  ASSUME NEW m \in Metas, NEW at \in Nat, NEW new, new = UpdatedMeta(m, at)
  PROVE  /\ new \in Metas /\ new.updated = at
         /\ new.started = m.started /\ new.saturated = m.saturated /\ new.census = m.census
         /\ new.epoch = m.epoch
<1> DEFINE D == Date(at)
           y == DatesAfter(m, D)
<1>1. D \in Nat BY DateIs
<1>2. y \in Metas /\ y.started = m.started /\ y.saturated = m.saturated
      /\ y.census = m.census /\ y.epoch = m.epoch
  <2> HIDE DEF D
  <2>1. CASE m.dates > 0 /\ m.lastDate = D BY <2>1 DEF DatesAfter
  <2>2. CASE ~(m.dates > 0 /\ m.lastDate = D)
    <3>1. y = [m EXCEPT !.firstDate = IF m.dates = 0 THEN D ELSE m.firstDate,
                        !.lastDate = D, !.dates = m.dates + 1]
      BY <2>2 DEF DatesAfter
    <3> HIDE DEF y
    <3>2. m.firstDate \in Int /\ m.lastDate \in Int /\ m.dates \in Nat BY DEF Metas
    <3>3. y \in Metas
      <4> DEFINE fd == IF m.dates = 0 THEN D ELSE m.firstDate
      <4>1. fd \in Int /\ D \in Int /\ m.dates + 1 \in Nat BY <1>1, <3>2
      <4>2. y = [m EXCEPT !.firstDate = fd, !.lastDate = D, !.dates = m.dates + 1]
        BY <3>1
      <4> HIDE DEF fd
      <4> QED BY <4>1, <4>2 DEF Metas
    <3>4. y.started = m.started /\ y.census = m.census /\ y.epoch = m.epoch
      BY <3>1 DEF Metas
    <3>5. y.saturated = m.saturated BY <3>1 DEF Metas
    <3> QED BY <3>3, <3>4, <3>5
  <2> QED BY <2>1, <2>2
<1>3. new = [y EXCEPT !.updated = at] BY DEF UpdatedMeta
<1> HIDE DEF y
<1>4. new \in Metas
  <2>1. y \in Metas /\ at \in Int BY <1>2
  <2> QED BY <2>1, <1>3 DEF Metas
<1>5. new.updated = at /\ new.started = y.started /\ new.census = y.census
      /\ new.epoch = y.epoch
  BY <1>2, <1>3 DEF Metas
<1>6. new.saturated = y.saturated BY <1>2, <1>3 DEF Metas
<1> QED BY <1>2, <1>4, <1>5, <1>6

\* The stages of a funnel are numbers.
LEMMA CountsAre ==
  ASSUME NEW dids
  PROVE  FunnelCounts(dids) \in Nat \X Nat \X Nat \X Nat \X Nat
<1>1. \A S \in SUBSET Dids : Cardinality(S) \in Nat BY SignerAssumption, Part
<1> QED BY <1>1 DEF FunnelCounts

-----------------------------------------------------------------------------
(* The history of the committed ticks.                                     *)

\* A set of indices has a largest one.
LEMMA Largest ==
  ASSUME NEW n \in Nat, NEW S \in SUBSET (1..n), S # {}
  PROVE  Max(S) \in S /\ \A i \in S : i <= Max(S)
<1> DEFINE f == [i \in S |-> i]
<1>1. IsFiniteSet(S) /\ Cardinality(S) \in Nat
  <2>1. IsFiniteSet(1..n) BY FS_Interval
  <2> QED BY <2>1, Part
<1>2. Cardinality(S) \in 1..Cardinality(S) BY <1>1, FS_EmptySet
<1>3. \A i \in S : f[i] = i /\ f[i] \in Int OBVIOUS
<1> HIDE DEF f
<1>4. \A i, j \in S : f[i] = f[j] => i = j BY <1>3
<1>5. \A i \in S : f[i] \in Int BY <1>3
<1>6. PICK r \in S : Cardinality(AtMost(S, f, r)) = Cardinality(S)
  <2>1. \A k \in 1..Cardinality(S) : \E r \in S : Cardinality(AtMost(S, f, r)) = k
    <3>1. IsFiniteSet(S) BY <1>1
    <3> QED BY <1>4, <1>5, <3>1, OrderOnto
  <2> QED BY <1>2, <2>1
<1>7. AtMost(S, f, r) \in SUBSET S BY DEF AtMost
<1>8. AtMost(S, f, r) = S BY <1>1, <1>6, <1>7, FS_Subset
<1>9. \A i \in S : i <= r BY <1>3, <1>8 DEF AtMost
<1>10. \E x \in S : \A y \in S : x >= y BY <1>9
<1>11. Max(S) \in S /\ \A y \in S : Max(S) >= y BY <1>10 DEF Max
<1> QED BY <1>11

\* The newest of a set of indices is their largest.
LEMMA LargestNew ==
  ASSUME NEW n \in Nat, NEW S \in SUBSET (1..n + 1), n + 1 \in S
  PROVE  Max(S) = n + 1
<1>1. n + 1 \in Nat OBVIOUS
<1>2. Max(S) \in S /\ \A i \in S : i <= Max(S) BY <1>1, Largest
<1>3. Max(S) \in 1..n + 1 /\ n + 1 <= Max(S) BY <1>2
<1> QED BY <1>3

\* The committed ticks: those that were published and the one in the outbox.
LEMMA HistoryIs ==
  ASSUME TypeOK
  PROVE  /\ History \in Seq(Ticks) /\ Len(History) \in Nat
         /\ \A i \in 1..Len(History) : History[i] \in Ticks
<1>1. ledger \in Seq(Ticks) /\ db.outbox \in Ticks \cup {None} BY DEF TypeOK, Stores
<1>2. History \in Seq(Ticks) BY <1>1, AppendProperties DEF History
<1> QED BY <1>2, LenProperties, ElementOfSeq

\* It stays when neither changes.
LEMMA HistorySame ==
  ASSUME ledger' = ledger, db'.outbox = db.outbox
  PROVE  History' = History
BY DEF History

\* Publishing the outbox does not change it.
LEMMA HistoryDrained ==
  ASSUME db.outbox # None, ledger' = Append(ledger, db.outbox), db'.outbox = None
  PROVE  History' = History
BY DEF History

\* A commit adds its tick.
LEMMA HistoryGrown ==
  ASSUME TypeOK, db.outbox = None, ledger' = ledger, NEW tick \in Ticks, db'.outbox = tick
  PROVE  /\ Len(History') = Len(History) + 1 /\ History'[Len(History) + 1] = tick
         /\ \A i \in 1..Len(History) : History'[i] = History[i]
<1>1. None \notin Ticks BY SourceAssumption
<1>2. History = ledger /\ History' = Append(ledger, tick) BY <1>1 DEF History
<1>3. ledger \in Seq(Ticks) BY DEF TypeOK
<1> QED BY <1>2, <1>3, AppendProperties

\* There is no outbox when nothing was committed.
LEMMA HistoryEmpty ==
  ASSUME TypeOK, History = <<>>
  PROVE  db.outbox = None /\ ledger = <<>>
<1>1. ledger \in Seq(Ticks) /\ db.outbox \in Ticks \cup {None} BY DEF TypeOK, Stores
<1>2. ASSUME db.outbox # None PROVE FALSE
  <2>1. Append(ledger, db.outbox) = <<>> BY <1>2 DEF History
  <2>2. Len(Append(ledger, db.outbox)) = Len(ledger) + 1 /\ Len(ledger) \in Nat
    BY <1>1, <1>2, AppendProperties, LenProperties
  <2> QED BY <2>1, <2>2, EmptySeq
<1> QED BY <1>2 DEF History

\* The latest census of some ticks depends on them and on the origin only.
LEMMA CensusSame ==
  ASSUME NEW n \in Nat, source' = source, db'.meta.started = db.meta.started,
         \A i \in 1..n : History'[i] = History[i]
  PROVE  LastCensus(n)' = LastCensus(n)
<1> DEFINE C == {i \in 1..n : History[i].total # None}
<1>1. {i \in 1..n : History'[i].total # None} = C OBVIOUS
<1>2. C # {} => Max(C) \in 1..n BY Largest
<1>3. C # {} => History'[Max(C)] = History[Max(C)] BY <1>2
<1>4. LastCensus(n) = IF C # {} THEN History[Max(C)].total
                      ELSE IF db.meta.started = "legacy" THEN source.meta.census ELSE None
  BY DEF LastCensus
<1>5. LastCensus(n)' = IF C # {} THEN History'[Max(C)].total
                       ELSE IF db.meta.started = "legacy" THEN source.meta.census ELSE None
  BY <1>1 DEF LastCensus
<1> HIDE DEF C
<1> QED BY <1>3, <1>4, <1>5

\* A tick records the total of its census, or keeps the one before.
LEMMA CensusNext ==
  ASSUME NEW n \in Nat, source' = source, db'.meta.started = db.meta.started,
         \A i \in 1..n : History'[i] = History[i]
  PROVE  LastCensus(n + 1)' = IF History'[n + 1].total # None THEN History'[n + 1].total
                              ELSE LastCensus(n)
<1> DEFINE H == History'
           C == {i \in 1..n : H[i].total # None}
           D == {i \in 1..n + 1 : H[i].total # None}
           origin == IF db.meta.started = "legacy" THEN source.meta.census ELSE None
<1>1. LastCensus(n + 1)' = IF D # {} THEN H[Max(D)].total ELSE origin BY DEF LastCensus
<1>2. LastCensus(n)' = IF C # {} THEN H[Max(C)].total ELSE origin BY DEF LastCensus
<1>3. LastCensus(n)' = LastCensus(n) BY CensusSame
<1> HIDE DEF H, origin
<1>4. 1..n + 1 = 1..n \cup {n + 1} OBVIOUS
<1>5. CASE H[n + 1].total # None
  <2>1. n + 1 \in D /\ D \in SUBSET (1..n + 1) BY <1>4, <1>5
  <2>2. Max(D) = n + 1 BY <2>1, LargestNew
  <2>3. LastCensus(n + 1)' = H[n + 1].total BY <1>1, <2>1, <2>2
  <2> QED BY <1>5, <2>3 DEF H
<1>6. CASE H[n + 1].total = None
  <2>1. D = C BY <1>4, <1>6
  <2> HIDE DEF C, D
  <2>2. LastCensus(n + 1)' = LastCensus(n)' BY <1>1, <1>2, <2>1
  <2> QED BY <1>3, <1>6, <2>2 DEF H
<1> QED BY <1>5, <1>6

-----------------------------------------------------------------------------
(* What the state is made of.                                              *)

\* New metadata.
LEMMA NewStateIs ==
  /\ NewSignerState \in Metas
  /\ NewSignerState.started = "fresh" /\ NewSignerState.saturated = FALSE
  /\ NewSignerState.census = None
<1>1. <<>> \in Seq(Rooms) BY EmptySeq
<1>2. -1 \in -1..MaxEpoch BY SignerAssumption
<1> QED BY <1>1, <1>2 DEF NewSignerState, Metas, Never

\* The store, by its parts.
LEMMA StoreIs ==
  ASSUME TypeOK
  PROVE  /\ db.meta \in Metas \cup {None} /\ db.dids \in Tables
         /\ db.outbox \in Ticks \cup {None}
         /\ db = [meta |-> db.meta, dids |-> db.dids, outbox |-> db.outbox]
BY DEF TypeOK, Stores

\* An empty store.
LEMMA EmptyIs ==
  /\ EmptyStore \in Stores /\ EmptyStore.meta = None /\ EmptyStore.dids = NoRows
  /\ EmptyStore.outbox = None
BY DEF EmptyStore, Stores, NoRows, Tables

\* A collector, by the step it is at.
LEMMA CycleIs ==
  ASSUME TypeOK, NEW c \in Collectors
  PROVE  /\ cycle[c].pc \in {"idle", "loaded", "reading", "committed"}
         /\ cycle[c].pc # "idle" => cycle[c].state \in Metas
         /\ cycle[c].pc = "reading" => cycle[c].rooms \in Seq(Rooms) /\ cycle[c].at \in Nat
<1>1. cycle[c] \in Cycles BY DEF TypeOK
<1> QED BY <1>1 DEF Cycles, Idle

\* What a collector turns to is one of these.
LEMMA CycleMay ==
  ASSUME NEW m \in Metas
  PROVE  /\ Idle \in Cycles
         /\ [pc |-> "loaded", state |-> m] \in Cycles
         /\ [pc |-> "committed", state |-> m] \in Cycles
         /\ \A s \in Seq(Rooms), t \in Nat :
              [pc |-> "reading", state |-> m, rooms |-> s, at |-> t] \in Cycles
BY DEF Cycles, Idle

\* Metadata, rows and ticks are not None.
LEMMA NoneIsNot ==
  None \notin Metas /\ None \notin Ticks /\ None \notin Row /\ None \notin Collectors
  /\ None \notin Nat
BY SourceAssumption

\* What the history says of a census stays when it and the metadata stay.
LEMMA OriginKept ==
  ASSUME TypeOK, CensusKept, Origin,
         source' = source, History' = History, db'.meta = db.meta
  PROVE  CensusKept' /\ Origin'
<1>1. Len(History) \in Nat BY HistoryIs
<1>2. \A i \in 1..Len(History) : History'[i] = History[i] OBVIOUS
<1>3. \A n \in 0..Len(History) : LastCensus(n)' = LastCensus(n)
  <2>1. SUFFICES ASSUME NEW n \in 0..Len(History) PROVE LastCensus(n)' = LastCensus(n)
    OBVIOUS
  <2>2. n \in Nat /\ \A i \in 1..n : History'[i] = History[i] BY <1>1
  <2> QED BY <2>2, CensusSame
<1>4. CensusKept'
  <2>1. SUFFICES ASSUME NEW n \in 1..Len(History)
                 PROVE  History[n].funnel.census = LastCensus(n)'
    BY DEF CensusKept
  <2>2. n \in 0..Len(History) BY <1>1
  <2>3. LastCensus(n)' = LastCensus(n) BY <1>3, <2>2
  <2> QED BY <2>3 DEF CensusKept
<1>5. LastCensus(Len(History))' = LastCensus(Len(History)) BY DEF LastCensus
<1>6. Origin' BY <1>5 DEF Origin
<1> QED BY <1>4, <1>6

\* Nothing is committed yet, and the metadata is new or was migrated.
LEMMA OriginEmpty ==
  ASSUME History' = <<>>,
         db'.meta # None =>
           /\ db'.meta.started = "legacy" => source' # None
           /\ db'.meta.saturated = (db'.meta.started = "legacy" /\ source'.capHit)
           /\ db'.meta.census = IF db'.meta.started = "legacy" THEN source'.meta.census
                                ELSE None
  PROVE  CensusKept' /\ Origin'
<1>1. Len(History') = 0 BY EmptySeq
<1>2. CensusKept' BY <1>1 DEF CensusKept
<1>3. LastCensus(0)' = IF db'.meta.started = "legacy" THEN source'.meta.census ELSE None
  BY DEF LastCensus
<1>4. LastCensus(Len(History))' = LastCensus(0)' BY <1>1 DEF LastCensus
<1>5. Origin' BY <1>3, <1>4 DEF Origin
<1> QED BY <1>2, <1>5

-----------------------------------------------------------------------------
(* The steps of a cycle.                                                   *)

\* The store and the metadata that a cycle begins with.
LEMMA LoadKeeps ==
  ASSUME CycleInv, NEW c \in Collectors, Load(c)
  PROVE  CycleInv'
<1> USE DEF CycleInv, MirrorHasStore
<1>1. TypeOK /\ Origin /\ Migrating /\ CensusKept /\ \A d \in Collectors : Holding(d)
  OBVIOUS
<1>2. /\ cycle[c].pc = "idle" /\ lock = None /\ migration = "off" /\ db.outbox = None
      /\ lock' = c /\ exists' = TRUE /\ mirror' = RepairedMirror
      /\ db' = [db EXCEPT !.meta = Loaded]
      /\ cycle' = [cycle EXCEPT ![c] = [pc |-> "loaded", state |-> Loaded]]
      /\ source' = source /\ migration' = migration /\ ledger' = ledger
      /\ db.meta = None => mirror = None
  BY DEF Load, LockFree, Unmigrated
<1>3. /\ Loaded \in Metas
      /\ db.meta # None => Loaded = db.meta
      /\ db.meta = None => Loaded = NewSignerState
  BY <1>1, StoreIs, NewStateIs DEF Loaded
<1>4. /\ db'.meta = Loaded /\ db'.dids = db.dids /\ db'.outbox = None
      /\ db' = [meta |-> Loaded, dids |-> db.dids, outbox |-> None]
  BY <1>1, <1>2, StoreIs
<1>5. db'.meta # None BY <1>3, <1>4, NoneIsNot
<1>6. History' = History BY <1>2, <1>4, HistorySame
<1>7. TypeOK'
  <2>1. db' \in Stores BY <1>1, <1>3, <1>4, StoreIs DEF Stores
  <2>2. mirror' \in Metas \cup {None} BY <1>1, <1>2, StoreIs DEF TypeOK, RepairedMirror
  <2>3. cycle' \in [Collectors -> Cycles] BY <1>1, <1>2, <1>3, CycleMay DEF TypeOK
  <2> QED BY <1>1, <1>2, <1>5, <2>1, <2>2, <2>3 DEF TypeOK
<1>8. (mirror # None /\ exists => db.meta # None /\ mirror.updated <= db.meta.updated
                                  /\ mirror.epoch <= db.meta.epoch)'
  <2>1. CASE db.meta = None BY <1>2, <2>1 DEF RepairedMirror
  <2>2. CASE db.meta # None
    <3>1. mirror' = db.meta /\ db'.meta = db.meta
      BY <1>2, <1>3, <1>4, <2>2 DEF RepairedMirror
    <3>2. db.meta.updated <= db.meta.updated /\ db.meta.epoch <= db.meta.epoch
      <4>1. db.meta \in Metas BY <1>1, <2>2, StoreIs
      <4>2. db.meta.updated \in Int /\ db.meta.epoch \in Int BY <4>1 DEF Metas
      <4> QED BY <4>2
    <3> QED BY <1>5, <3>1, <3>2
  <2> QED BY <2>1, <2>2
<1>9. CensusKept' /\ Origin'
  <2>1. CASE db.meta # None
    <3>1. db'.meta = db.meta BY <1>3, <1>4, <2>1
    <3> QED BY <1>1, <1>2, <1>6, <3>1, OriginKept
  <2>2. CASE db.meta = None
    <3>1. History' = <<>> BY <1>1, <1>6, <2>2 DEF Migrating
    <3>2. db'.meta = NewSignerState BY <1>3, <1>4, <2>2
    <3> QED BY <3>1, <3>2, NewStateIs, OriginEmpty
  <2> QED BY <2>1, <2>2
<1>10. Migrating' BY <1>1, <1>2, <1>5 DEF Migrating
<1>11. \A d \in Collectors : Holding(d)'
  <2>1. SUFFICES ASSUME NEW d \in Collectors PROVE Holding(d)' OBVIOUS
  <2>2. CASE d = c
    <3>1. cycle'[d] = [pc |-> "loaded", state |-> Loaded] BY <1>1, <1>2, <2>2 DEF TypeOK
    <3> QED BY <1>2, <1>4, <1>5, <2>2, <3>1 DEF Holding
  <2>3. CASE d # c
    <3>1. cycle'[d] = cycle[d] BY <1>1, <1>2, <2>3 DEF TypeOK
    <3>2. cycle[d].pc = "idle" BY <1>1, <1>2, NoneIsNot DEF Holding
    <3> QED BY <3>1, <3>2 DEF Holding
  <2> QED BY <2>2, <2>3
<1> QED BY <1>7, <1>8, <1>9, <1>10, <1>11

\* The sample is taken in memory; the mirror is saved.
LEMMA SelectKeeps ==
  ASSUME CycleInv, NEW c \in Collectors, Select(c)
  PROVE  CycleInv'
<1> USE DEF CycleInv, MirrorHasStore
<1>1. TypeOK /\ Origin /\ Migrating /\ CensusKept /\ \A d \in Collectors : Holding(d)
  OBVIOUS
<1>2. PICK listing \in Listings, at \in 0..MaxClock :
        /\ cycle' = [cycle EXCEPT ![c] =
                       [pc |-> "reading", state |-> RoomSample(cycle[c].state, listing).state,
                        rooms |-> RoomSample(cycle[c].state, listing).slice, at |-> at]]
        /\ db' = db
  BY DEF Select, Selected
<1>3. /\ cycle[c].pc = "loaded" /\ ~Exhausted(cycle[c].state)
      /\ mirror' = cycle[c].state
      /\ source' = source /\ migration' = migration /\ exists' = exists /\ lock' = lock
      /\ ledger' = ledger
  BY DEF Select
<1>4. /\ lock = c /\ exists /\ migration = "off" /\ db.meta # None
      /\ cycle[c].state = db.meta /\ db.outbox = None
  BY <1>1, <1>3 DEF Holding
<1> DEFINE s == RoomSample(cycle[c].state, listing).state
           slice == RoomSample(cycle[c].state, listing).slice
<1>5. cycle[c].state \in Metas /\ db.meta \in Metas BY <1>1, <1>3, <1>4, CycleIs
<1>6. slice \in Seq(Rooms) /\ s \in Metas BY <1>3, <1>5, SampleIs
<1>7. /\ db.meta.epoch <= s.epoch /\ s.started = db.meta.started
      /\ s.census = db.meta.census /\ s.updated = db.meta.updated
  BY <1>3, <1>4, <1>5, SampleIs
<1>8. s.saturated = db.meta.saturated BY <1>3, <1>4, <1>5, SampleIs
<1> HIDE DEF s, slice
<1>9. cycle' = [cycle EXCEPT ![c] = [pc |-> "reading", state |-> s, rooms |-> slice, at |-> at]]
  BY <1>2 DEF s, slice
<1>10. at \in Nat BY SignerAssumption
<1>11. History' = History BY <1>2, <1>3, HistorySame
<1>12. TypeOK'
  <2>1. [pc |-> "reading", state |-> s, rooms |-> slice, at |-> at] \in Cycles
    BY <1>6, <1>10, CycleMay
  <2>2. cycle' \in [Collectors -> Cycles] BY <1>1, <1>9, <2>1 DEF TypeOK
  <2> QED BY <1>1, <1>2, <1>3, <1>4, <1>5, <2>2 DEF TypeOK
<1>13. db.meta.updated <= db.meta.updated /\ db.meta.epoch <= db.meta.epoch
  <2>1. db.meta.updated \in Int /\ db.meta.epoch \in Int BY <1>5 DEF Metas
  <2> QED BY <2>1
<1>14. (mirror # None /\ exists => db.meta # None /\ mirror.updated <= db.meta.updated
                                   /\ mirror.epoch <= db.meta.epoch)'
  BY <1>2, <1>3, <1>4, <1>13
<1>15. CensusKept' /\ Origin'
  <2>1. db'.meta = db.meta BY <1>2
  <2> QED BY <1>1, <1>3, <1>11, <2>1, OriginKept
<1>16. Migrating' BY <1>1, <1>2, <1>3, <1>4, <1>11 DEF Migrating
<1>17. \A d \in Collectors : Holding(d)'
  <2>1. SUFFICES ASSUME NEW d \in Collectors PROVE Holding(d)' OBVIOUS
  <2>2. CASE d = c
    <3>1. cycle'[d] = [pc |-> "reading", state |-> s, rooms |-> slice, at |-> at]
      BY <1>1, <1>9, <2>2 DEF TypeOK
    <3>2. cycle'[d].pc = "reading" /\ cycle'[d].state = s BY <3>1
    <3> QED BY <1>2, <1>3, <1>4, <1>7, <1>8, <2>2, <3>2 DEF Holding
  <2>3. CASE d # c
    <3>1. cycle'[d] = cycle[d] BY <1>1, <1>9, <2>3 DEF TypeOK
    <3>2. cycle[d].pc = "idle" BY <1>1, <1>4, <2>3 DEF Holding
    <3> QED BY <3>1, <3>2 DEF Holding
  <2> QED BY <2>2, <2>3
<1> QED BY <1>12, <1>14, <1>15, <1>16, <1>17

\* The mirror is saved and the lock released.
LEMMA FinishKeeps ==
  ASSUME CycleInv, NEW c \in Collectors, Finish(c)
  PROVE  CycleInv'
<1> USE DEF CycleInv, MirrorHasStore
<1>1. TypeOK /\ Origin /\ Migrating /\ CensusKept /\ \A d \in Collectors : Holding(d)
  OBVIOUS
<1>2. /\ cycle[c].pc = "committed" /\ mirror' = cycle[c].state /\ lock' = None
      /\ cycle' = [cycle EXCEPT ![c] = Idle]
      /\ source' = source /\ migration' = migration /\ exists' = exists /\ db' = db
      /\ ledger' = ledger
  BY DEF Finish
<1>3. /\ lock = c /\ exists /\ migration = "off" /\ db.meta # None
      /\ cycle[c].state = db.meta
  BY <1>1, <1>2 DEF Holding
<1>4. db.meta \in Metas BY <1>1, <1>3, StoreIs
<1>5. History' = History BY <1>2, HistorySame
<1>6. TypeOK'
  <2>1. Idle \in Cycles BY <1>4, CycleMay
  <2>2. cycle' \in [Collectors -> Cycles] BY <1>1, <1>2, <2>1 DEF TypeOK
  <2> QED BY <1>1, <1>2, <1>3, <1>4, <2>2 DEF TypeOK
<1>7. db.meta.updated <= db.meta.updated /\ db.meta.epoch <= db.meta.epoch
  <2>1. db.meta.updated \in Int /\ db.meta.epoch \in Int BY <1>4 DEF Metas
  <2> QED BY <2>1
<1>8. (mirror # None /\ exists => db.meta # None /\ mirror.updated <= db.meta.updated
                                  /\ mirror.epoch <= db.meta.epoch)'
  BY <1>2, <1>3, <1>7
<1>9. CensusKept' /\ Origin'
  <2>1. db'.meta = db.meta BY <1>2
  <2> QED BY <1>1, <1>2, <1>5, <2>1, OriginKept
<1>10. Migrating' BY <1>1, <1>2, <1>3, <1>5 DEF Migrating
<1>11. \A d \in Collectors : Holding(d)'
  <2>1. SUFFICES ASSUME NEW d \in Collectors PROVE Holding(d)' OBVIOUS
  <2>2. cycle'[d].pc = "idle"
    <3>1. CASE d = c BY <1>1, <1>2, <3>1 DEF TypeOK, Idle
    <3>2. CASE d # c BY <1>1, <1>2, <1>3, <3>2 DEF TypeOK, Holding
    <3> QED BY <3>1, <3>2
  <2> QED BY <2>2 DEF Holding
<1> QED BY <1>6, <1>8, <1>9, <1>10, <1>11

\* A cycle that fails leaves the store as it is.
LEMMA AbortKeeps ==
  ASSUME CycleInv, NEW c \in Collectors, Abort(c)
  PROVE  CycleInv'
<1> USE DEF CycleInv, MirrorHasStore
<1>1. TypeOK /\ Origin /\ Migrating /\ CensusKept /\ \A d \in Collectors : Holding(d)
  OBVIOUS
<1>2. /\ cycle[c].pc # "idle" /\ lock' = (IF lock = c THEN None ELSE lock)
      /\ cycle' = [cycle EXCEPT ![c] = Idle]
      /\ source' = source /\ migration' = migration /\ exists' = exists /\ db' = db
      /\ mirror' = mirror /\ ledger' = ledger
  BY DEF Abort
<1>3. lock = c /\ exists /\ migration = "off" /\ db.meta # None
  BY <1>1, <1>2 DEF Holding
<1>4. db.meta \in Metas BY <1>1, <1>3, StoreIs
<1>5. History' = History BY <1>2, HistorySame
<1>6. TypeOK'
  <2>1. Idle \in Cycles BY <1>4, CycleMay
  <2>2. cycle' \in [Collectors -> Cycles] BY <1>1, <1>2, <2>1 DEF TypeOK
  <2> QED BY <1>1, <1>2, <1>3, <2>2 DEF TypeOK
<1>7. (mirror # None /\ exists => db.meta # None /\ mirror.updated <= db.meta.updated
                                  /\ mirror.epoch <= db.meta.epoch)'
  BY <1>2
<1>8. CensusKept' /\ Origin'
  <2>1. db'.meta = db.meta BY <1>2
  <2> QED BY <1>1, <1>2, <1>5, <2>1, OriginKept
<1>9. Migrating' BY <1>1, <1>2, <1>3, <1>5 DEF Migrating
<1>10. \A d \in Collectors : Holding(d)'
  <2>1. SUFFICES ASSUME NEW d \in Collectors PROVE Holding(d)' OBVIOUS
  <2>2. cycle'[d].pc = "idle"
    <3>1. CASE d = c BY <1>1, <1>2, <3>1 DEF TypeOK, Idle
    <3>2. CASE d # c BY <1>1, <1>2, <1>3, <3>2 DEF TypeOK, Holding
    <3> QED BY <3>1, <3>2
  <2> QED BY <2>2 DEF Holding
<1> QED BY <1>6, <1>7, <1>8, <1>9, <1>10

\* The outbox becomes a published tick.
LEMMA DrainKeeps ==
  ASSUME CycleInv, NEW c \in Collectors, Drain(c)
  PROVE  CycleInv'
<1> USE DEF CycleInv, MirrorHasStore
<1>1. TypeOK /\ Origin /\ Migrating /\ CensusKept /\ \A d \in Collectors : Holding(d)
  OBVIOUS
<1>2. /\ lock = None /\ db.outbox # None
      /\ ledger' = Append(ledger, db.outbox) /\ db' = [db EXCEPT !.outbox = None]
      /\ source' = source /\ migration' = migration /\ exists' = exists
      /\ mirror' = mirror /\ lock' = lock /\ cycle' = cycle
  BY DEF Drain, LockFree
<1>3. /\ db'.meta = db.meta /\ db'.dids = db.dids /\ db'.outbox = None
      /\ db' = [meta |-> db.meta, dids |-> db.dids, outbox |-> None]
  BY <1>1, <1>2, StoreIs
<1>4. History' = History BY <1>2, <1>3, HistoryDrained
<1>5. db.meta # None
  <2>1. SUFFICES ASSUME db.meta = None PROVE FALSE OBVIOUS
  <2> QED BY <1>1, <1>2, <2>1 DEF TypeOK
<1>6. migration = "off"
  <2>1. History # <<>> BY <1>1, <1>2, HistoryEmpty
  <2>2. migration # "committed" BY <1>1, <2>1 DEF Migrating
  <2>3. migration # "streaming"
    <3>1. db # EmptyStore BY <1>2, EmptyIs
    <3> QED BY <1>1, <3>1 DEF Migrating
  <2> QED BY <1>1, <2>2, <2>3 DEF TypeOK
<1>7. exists
  <2>1. SUFFICES ASSUME ~exists PROVE FALSE OBVIOUS
  <2> QED BY <1>1, <1>2, <2>1, EmptyIs DEF TypeOK
<1>8. TypeOK'
  <2>1. db' \in Stores BY <1>1, <1>3, StoreIs DEF Stores
  <2>2. ledger' \in Seq(Ticks)
    <3>1. ledger \in Seq(Ticks) /\ db.outbox \in Ticks BY <1>1, <1>2, StoreIs DEF TypeOK
    <3> QED BY <1>2, <3>1, AppendProperties
  <2> QED BY <1>1, <1>2, <1>3, <1>5, <1>7, <2>1, <2>2 DEF TypeOK
<1>9. (mirror # None /\ exists => db.meta # None /\ mirror.updated <= db.meta.updated
                                  /\ mirror.epoch <= db.meta.epoch)'
  BY <1>2, <1>3
<1>10. CensusKept' /\ Origin' BY <1>1, <1>2, <1>3, <1>4, OriginKept
<1>11. Migrating' BY <1>1, <1>2, <1>3, <1>4, <1>5, <1>6 DEF Migrating
<1>12. \A d \in Collectors : Holding(d)'
  <2>1. SUFFICES ASSUME NEW d \in Collectors PROVE Holding(d)' OBVIOUS
  <2>2. cycle[d].pc = "idle" BY <1>1, <1>2, NoneIsNot DEF Holding
  <2> QED BY <1>2, <2>2 DEF Holding
<1> QED BY <1>8, <1>9, <1>10, <1>11, <1>12

-----------------------------------------------------------------------------
(* The commit of a tick.                                                   *)

\* A tick is made of what its cycle saw.
LEMMA TickIs ==
  ASSUME NEW c \in Collectors, NEW m \in Metas, NEW dids, NEW seen \in Seens,
         NEW total \in Nat \cup {None},
         cycle[c].at \in Nat, cycle[c].rooms \in Seq(Rooms)
  PROVE  Tick(c, m, dids, seen, total) \in Ticks
<1> DEFINE funnel == Funnel(dids, m)
<1>1. /\ m.dates \in Nat /\ m.census \in Nat \cup {None} /\ m.started \in {"fresh", "legacy"}
      /\ m.epoch \in -1..MaxEpoch /\ m.frame \in Seq(Rooms)
  BY DEF Metas
<1>2. m.saturated \in BOOLEAN BY DEF Metas
<1>3. funnel \in Funnels
  <2> DEFINE counts == FunnelCounts(dids)
  <2>1. counts \in Nat \X Nat \X Nat \X Nat \X Nat BY CountsAre
  <2>2. funnel = [counts |-> counts, dates |-> m.dates, census |-> m.census,
                  started |-> m.started, disclosed |-> m.saturated]
    BY DEF Funnel
  <2> HIDE DEF counts, funnel
  <2> QED BY <1>1, <1>2, <2>1, <2>2 DEF Funnels
<1> HIDE DEF funnel
<1>4. Tick(c, m, dids, seen, total) =
        [at |-> cycle[c].at, epoch |-> m.epoch, frame |-> m.frame,
         sampled |-> cycle[c].rooms, funnel |-> funnel, total |-> total, seen |-> seen]
  BY DEF Tick, funnel
<1> QED BY <1>1, <1>3, <1>4 DEF Ticks

\* What a commit writes: the rows and the metadata after a tick that saw `seen`
\* and recorded the census `total`, and the tick itself.
LEMMA CommitIs ==
  ASSUME TypeOK, NEW c \in Collectors, Commit(c)
  PROVE  \E seen \in Seens, total \in Nat \cup {None}, m \in Metas, dids \in Tables,
            tick \in Ticks :
           LET old == cycle[c].state
               at == cycle[c].at
           IN  /\ old \in Metas /\ at \in Nat
               /\ ~UpdateRefused(old, db.dids, seen, at)
               /\ dids = UpdatedRows(db.dids, seen, at)
               /\ m.updated = at /\ m.started = old.started /\ m.saturated = old.saturated
               /\ m.epoch = old.epoch
               /\ m.census = IF total = None THEN old.census ELSE total
               /\ tick = Tick(c, m, dids, seen, total)
               /\ db' = [meta |-> m, dids |-> dids, outbox |-> tick]
               /\ cycle' = [cycle EXCEPT ![c] = [pc |-> "committed", state |-> m]]
<1> DEFINE old == cycle[c].state
           at == cycle[c].at
<1>1. PICK reads \in Reads(c), total \in Census(c) :
        LET seen == Observed(reads)
            dids == UpdatedRows(db.dids, seen, at)
            m == UpdatedMeta(IF total = None THEN old ELSE [old EXCEPT !.census = total], at)
        IN  /\ ~UpdateRefused(old, db.dids, seen, at)
            /\ db' = [meta |-> m, dids |-> dids, outbox |-> Tick(c, m, dids, seen, total)]
            /\ cycle' = [cycle EXCEPT ![c] = [pc |-> "committed", state |-> m]]
  BY DEF Commit
<1>2. cycle[c].pc = "reading" BY DEF Commit
<1>3. old \in Metas /\ at \in Nat /\ cycle[c].rooms \in Seq(Rooms) BY <1>2, CycleIs
<1> DEFINE seen == Observed(reads)
           old2 == IF total = None THEN old ELSE [old EXCEPT !.census = total]
           dids == UpdatedRows(db.dids, seen, at)
           m == UpdatedMeta(old2, at)
           tick == Tick(c, m, dids, seen, total)
<1>4. total \in Nat \cup {None} BY <1>3 DEF Census
<1>5. \A r \in reads : r[1] \in Rooms \cup {Lobby} /\ r[2] \in Windows
  <2>1. PICK read \in SUBSET ToSet(cycle[c].rooms) :
          reads \in {{<<r, f[r]>> : r \in DOMAIN f} : f \in [read \cup {Lobby} -> Windows]}
    BY DEF Reads
  <2>2. PICK f \in [read \cup {Lobby} -> Windows] : reads = {<<r, f[r]>> : r \in DOMAIN f}
    BY <2>1
  <2>3. ToSet(cycle[c].rooms) \subseteq Rooms
    <3>1. cycle[c].rooms \in [1..Len(cycle[c].rooms) -> Rooms] BY <1>3, LenProperties
    <3> QED BY <3>1 DEF ToSet
  <2> QED BY <2>2, <2>3
<1>6. seen \in Seens BY <1>5, ObservedIs
<1> HIDE DEF seen
<1>7. /\ old2 \in Metas
      /\ old2.census = IF total = None THEN old.census ELSE total
      /\ old2.started = old.started /\ old2.epoch = old.epoch
  BY <1>3, <1>4 DEF Metas
<1>8. old2.saturated = old.saturated BY <1>3, <1>4 DEF Metas
<1> HIDE DEF old2
<1>9. dids \in Tables
  <2>1. db.dids \in Tables BY StoreIs
  <2> QED BY <1>3, <1>6, <2>1, RowsAre
<1> HIDE DEF dids
<1>10. /\ m \in Metas /\ m.updated = at /\ m.started = old2.started /\ m.epoch = old2.epoch
       /\ m.census = old2.census
  <2>1. at \in Nat /\ old2 \in Metas BY <1>3, <1>7
  <2> HIDE DEF at
  <2> QED BY <2>1, MetaIs
<1>11. m.saturated = old2.saturated BY <1>3, <1>7, MetaIs
<1> HIDE DEF m
<1>12. tick \in Ticks BY <1>3, <1>4, <1>6, <1>10, TickIs
<1>13. /\ ~UpdateRefused(old, db.dids, seen, at)
       /\ db' = [meta |-> m, dids |-> dids, outbox |-> tick]
       /\ cycle' = [cycle EXCEPT ![c] = [pc |-> "committed", state |-> m]]
  BY <1>1 DEF seen, old2, dids, m
<1>14. m.saturated = old.saturated BY <1>8, <1>11, Zenon
<1>15. /\ m.updated = at /\ m.started = old.started /\ m.epoch = old.epoch
       /\ m.census = IF total = None THEN old.census ELSE total
  BY <1>7, <1>10
<1>16. dids = UpdatedRows(db.dids, seen, at) BY DEF dids
<1>17. tick = Tick(c, m, dids, seen, total) OBVIOUS
<1> HIDE DEF tick, old, at
<1>18. /\ old \in Metas /\ at \in Nat
       /\ ~UpdateRefused(old, db.dids, seen, at)
       /\ dids = UpdatedRows(db.dids, seen, at)
       /\ m.updated = at /\ m.started = old.started /\ m.saturated = old.saturated
       /\ m.epoch = old.epoch
       /\ m.census = IF total = None THEN old.census ELSE total
       /\ tick = Tick(c, m, dids, seen, total)
       /\ db' = [meta |-> m, dids |-> dids, outbox |-> tick]
       /\ cycle' = [cycle EXCEPT ![c] = [pc |-> "committed", state |-> m]]
  BY <1>3, <1>13, <1>14, <1>15, <1>16, <1>17, Zenon
<1> QED BY <1>4, <1>6, <1>9, <1>10, <1>12, <1>18, Zenon DEF old, at

\* A tick is added to the history, with the census that it recorded or the
\* latest one before.
LEMMA CommitKeeps ==
  ASSUME CycleInv, NEW c \in Collectors, Commit(c)
  PROVE  CycleInv'
<1> USE DEF CycleInv, MirrorHasStore
<1>1. TypeOK /\ Origin /\ Migrating /\ CensusKept /\ \A d \in Collectors : Holding(d)
  OBVIOUS
<1> DEFINE old == cycle[c].state
           at == cycle[c].at
<1>2. PICK seen \in Seens, total \in Nat \cup {None}, m \in Metas, dids \in Tables,
            tick \in Ticks :
        /\ old \in Metas /\ at \in Nat
        /\ ~UpdateRefused(old, db.dids, seen, at)
        /\ dids = UpdatedRows(db.dids, seen, at)
        /\ m.updated = at /\ m.started = old.started /\ m.saturated = old.saturated
        /\ m.epoch = old.epoch
        /\ m.census = IF total = None THEN old.census ELSE total
        /\ tick = Tick(c, m, dids, seen, total)
        /\ db' = [meta |-> m, dids |-> dids, outbox |-> tick]
        /\ cycle' = [cycle EXCEPT ![c] = [pc |-> "committed", state |-> m]]
  BY <1>1, CommitIs
<1>3. /\ cycle[c].pc = "reading"
      /\ source' = source /\ migration' = migration /\ exists' = exists
      /\ mirror' = mirror /\ lock' = lock /\ ledger' = ledger
  BY DEF Commit
<1>4. /\ lock = c /\ exists /\ migration = "off" /\ db.meta # None /\ db.outbox = None
      /\ db.meta.epoch <= old.epoch /\ old.updated = db.meta.updated
      /\ old.census = db.meta.census /\ old.started = db.meta.started
  BY <1>1, <1>3 DEF Holding
<1>5. old.saturated = db.meta.saturated BY <1>1, <1>3 DEF Holding
<1>6. db.meta \in Metas /\ m # None /\ tick # None BY <1>1, <1>4, StoreIs, NoneIsNot
<1>7. db'.meta = m /\ db'.dids = dids /\ db'.outbox = tick BY <1>2
<1>8. old.updated <= at
  <2>1. ~(at < old.updated) BY <1>2 DEF UpdateRefused
  <2>2. old.updated \in Int /\ at \in Int BY <1>2 DEF Metas
  <2> QED BY <2>1, <2>2
<1> HIDE DEF old, at
<1>9. /\ Len(History') = Len(History) + 1 /\ History'[Len(History) + 1] = tick
      /\ \A i \in 1..Len(History) : History'[i] = History[i]
  BY <1>1, <1>3, <1>4, <1>7, HistoryGrown
<1>10. PICK last \in Nat : last = Len(History) BY <1>1, HistoryIs
<1>11. Len(History') = last + 1 BY <1>9, <1>10
<1>12. TypeOK'
  <2>1. cycle' \in [Collectors -> Cycles] BY <1>1, <1>2, CycleMay DEF TypeOK
  <2>2. db' \in Stores BY <1>2 DEF Stores
  <2> QED BY <1>1, <1>3, <1>4, <1>6, <1>7, <2>1, <2>2 DEF TypeOK
<1>13. (mirror # None /\ exists => db.meta # None /\ mirror.updated <= db.meta.updated
                                   /\ mirror.epoch <= db.meta.epoch)'
  <2>1. SUFFICES ASSUME mirror # None
                 PROVE  mirror.updated <= m.updated /\ mirror.epoch <= m.epoch
    BY <1>3, <1>6, <1>7
  <2>2. mirror \in Metas BY <1>1, <2>1 DEF TypeOK
  <2>3. mirror.updated <= db.meta.updated /\ mirror.epoch <= db.meta.epoch BY <1>4, <2>1
  <2>4. /\ mirror.updated \in Int /\ db.meta.updated \in Int /\ m.updated \in Int
        /\ mirror.epoch \in Int /\ db.meta.epoch \in Int /\ m.epoch \in Int
    <3>1. \A x \in Metas : x.updated \in Int /\ x.epoch \in Int BY DEF Metas
    <3> QED BY <1>6, <2>2, <3>1
  <2>5. m.updated = at /\ m.epoch = old.epoch BY <1>2 DEF at, old
  <2> QED BY <1>4, <1>8, <2>3, <2>4, <2>5
<1>14. db'.meta.started = db.meta.started BY <1>2, <1>4, <1>7 DEF old
<1>15. \A n \in 0..last : LastCensus(n)' = LastCensus(n)
  <2>1. SUFFICES ASSUME NEW n \in 0..last PROVE LastCensus(n)' = LastCensus(n)
    OBVIOUS
  <2>2. n \in Nat /\ \A i \in 1..n : History'[i] = History[i] BY <1>9, <1>10
  <2> QED BY <1>3, <1>14, <2>2, CensusSame
<1>16. LastCensus(last + 1)' = m.census
  <2>1. \A i \in 1..last : History'[i] = History[i] BY <1>9, <1>10
  <2>2. LastCensus(last + 1)' = IF History'[last + 1].total # None
                                THEN History'[last + 1].total ELSE LastCensus(last)
    BY <1>3, <1>14, <2>1, CensusNext
  <2>3. History'[last + 1].total = total BY <1>2, <1>9, <1>10 DEF Tick
  <2>4. LastCensus(last) = db.meta.census BY <1>1, <1>4, <1>10 DEF Origin
  <2>5. m.census = IF total = None THEN db.meta.census ELSE total BY <1>2, <1>4 DEF old
  <2> QED BY <2>2, <2>3, <2>4, <2>5
<1>17. CensusKept'
  <2>1. SUFFICES ASSUME NEW n \in 1..last + 1
                 PROVE  History'[n].funnel.census = LastCensus(n)'
    BY <1>11 DEF CensusKept
  <2>2. CASE n = last + 1
    <3>1. tick.funnel.census = m.census BY <1>2 DEF Tick, Funnel
    <3> QED BY <1>9, <1>10, <1>16, <2>2, <3>1
  <2>3. CASE n # last + 1
    <3>1. n \in 1..last BY <2>3
    <3>2. History[n].funnel.census = LastCensus(n) BY <1>1, <1>10, <3>1 DEF CensusKept
    <3>3. n \in 0..last BY <3>1
    <3> QED BY <1>9, <1>10, <1>15, <3>1, <3>2, <3>3
  <2> QED BY <2>2, <2>3
<1>18. Origin'
  <2>1. m.started = "legacy" => source' # None
    BY <1>1, <1>2, <1>3, <1>4 DEF Origin, old
  <2>2. m.saturated = (m.started = "legacy" /\ source'.capHit)
    <3>1. db.meta.saturated = (db.meta.started = "legacy" /\ source.capHit)
      BY <1>1, <1>4 DEF Origin
    <3>2. m.started = db.meta.started BY <1>2, <1>4 DEF old
    <3>3. m.saturated = db.meta.saturated BY <1>2, <1>5 DEF old
    <3> QED BY <1>3, <3>1, <3>2, <3>3, Zenon
  <2>3. m.census = LastCensus(Len(History))'
    <3>1. LastCensus(Len(History))' = LastCensus(last + 1)' BY <1>11 DEF LastCensus
    <3> QED BY <1>16, <3>1
  <2> QED BY <1>7, <2>1, <2>2, <2>3 DEF Origin
<1>19. Migrating' BY <1>3, <1>4, <1>6, <1>7 DEF Migrating
<1>20. \A d \in Collectors : Holding(d)'
  <2>1. SUFFICES ASSUME NEW d \in Collectors PROVE Holding(d)' OBVIOUS
  <2>2. CASE d = c
    <3>1. cycle'[d] = [pc |-> "committed", state |-> m] BY <1>1, <1>2, <2>2 DEF TypeOK
    <3> QED BY <1>3, <1>4, <1>6, <1>7, <2>2, <3>1 DEF Holding
  <2>3. CASE d # c
    <3>1. cycle'[d] = cycle[d] BY <1>1, <1>2, <2>3 DEF TypeOK
    <3>2. cycle[d].pc = "idle" BY <1>1, <1>4, <2>3 DEF Holding
    <3> QED BY <3>1, <3>2 DEF Holding
  <2> QED BY <2>2, <2>3
<1> QED BY <1>12, <1>13, <1>17, <1>18, <1>19, <1>20

-----------------------------------------------------------------------------
(* The steps of the migration.                                             *)

\* What a v2 store is migrated to.
LEMMA MigratedIs ==
  ASSUME source \in Sources, source # None, NEW saturated \in BOOLEAN
  PROVE  /\ source \in Source
         /\ MigratedRows \in Tables /\ MigratedMeta(saturated) \in Metas
         /\ MigratedMeta(saturated).started = "legacy"
         /\ MigratedMeta(saturated).saturated = saturated
         /\ MigratedMeta(saturated).census = source.meta.census
<1>1. source \in Source BY SourceAssumption
<1>2. source.meta \in Metas /\ source.meta.started = "legacy" /\ source.dids \in Tables
  BY <1>1 DEF Source
<1>3. MigratedMeta(saturated) = [source.meta EXCEPT !.saturated = saturated]
  BY DEF MigratedMeta
<1> DEFINE m == MigratedMeta(saturated)
<1> HIDE DEF m
<1>4. m = [source.meta EXCEPT !.saturated = saturated] BY <1>3 DEF m
<1>5. m \in Metas BY <1>2, <1>4 DEF Metas
<1>6. m.started = "legacy" /\ m.census = source.meta.census BY <1>2, <1>4 DEF Metas
<1>7. m.saturated = saturated BY <1>2, <1>4 DEF Metas
<1> QED BY <1>1, <1>2, <1>5, <1>6, <1>7 DEF m, MigratedRows

\* The migration creates the file.
LEMMA MigrationStartKeeps ==
  ASSUME CycleInv, MigrationStart
  PROVE  CycleInv'
<1> USE DEF CycleInv, MirrorHasStore
<1>1. TypeOK /\ Origin /\ Migrating /\ CensusKept /\ \A d \in Collectors : Holding(d)
  OBVIOUS
<1>2. /\ migration = "off" /\ lock = None /\ source # None /\ mirror = None /\ ~exists
      /\ migration' = "streaming" /\ exists' = TRUE
      /\ source' = source /\ db' = db /\ mirror' = mirror /\ lock' = lock
      /\ cycle' = cycle /\ ledger' = ledger
  BY DEF MigrationStart, OutputsAbsent
<1>3. db = EmptyStore BY <1>1, <1>2 DEF TypeOK
<1>4. History' = History /\ db'.meta = db.meta BY <1>2, HistorySame
<1>5. TypeOK' BY <1>1, <1>2 DEF TypeOK
<1>6. CensusKept' /\ Origin' BY <1>1, <1>2, <1>4, OriginKept
<1>7. Migrating' BY <1>1, <1>2, <1>3, <1>4 DEF Migrating
<1>8. \A d \in Collectors : Holding(d)'
  <2>1. SUFFICES ASSUME NEW d \in Collectors PROVE Holding(d)' OBVIOUS
  <2>2. cycle[d].pc = "idle" BY <1>1, <1>2, NoneIsNot DEF Holding
  <2> QED BY <1>2, <2>2 DEF Holding
<1> QED BY <1>2, <1>5, <1>6, <1>7, <1>8

\* It commits the rows of the v2 store and its metadata.
LEMMA MigrationCommitKeeps ==
  ASSUME CycleInv, MigrationCommit
  PROVE  CycleInv'
<1> USE DEF CycleInv, MirrorHasStore
<1>1. TypeOK /\ Origin /\ Migrating /\ CensusKept /\ \A d \in Collectors : Holding(d)
  OBVIOUS
<1>2. PICK saturated \in BOOLEAN :
        /\ saturated = source.capHit
        /\ db' = [meta |-> MigratedMeta(saturated), dids |-> MigratedRows, outbox |-> None]
  BY DEF MigrationCommit
<1>3. /\ migration = "streaming" /\ migration' = "committed"
      /\ source' = source /\ exists' = exists /\ mirror' = mirror /\ lock' = lock
      /\ cycle' = cycle /\ ledger' = ledger
  BY DEF MigrationCommit
<1>4. lock = None /\ mirror = None /\ exists /\ source # None /\ db = EmptyStore
  BY <1>1, <1>3 DEF Migrating
<1>5. source \in Sources BY <1>1 DEF TypeOK
<1> DEFINE m == MigratedMeta(saturated)
           rows == MigratedRows
<1>6. rows \in Tables /\ m \in Metas /\ m.started = "legacy" /\ m.census = source.meta.census
  BY <1>4, <1>5, MigratedIs
<1>7. m.saturated = source.capHit
  <2>1. m.saturated = saturated BY <1>4, <1>5, MigratedIs
  <2> QED BY <1>2, <2>1, Zenon
<1> HIDE DEF m, rows
<1>8. db' = [meta |-> m, dids |-> rows, outbox |-> None] BY <1>2 DEF m, rows
<1>9. m # None BY <1>6, NoneIsNot
<1>10. History = <<>> /\ History' = History
  <2>1. db.meta = None BY <1>4, EmptyIs
  <2>2. History = <<>> BY <1>1, <2>1 DEF Migrating
  <2>3. db.outbox = None BY <1>4, EmptyIs
  <2> QED BY <1>3, <1>8, <2>2, <2>3, HistorySame
<1>11. TypeOK'
  <2>1. db' \in Stores BY <1>6, <1>8 DEF Stores
  <2> QED BY <1>1, <1>3, <1>4, <1>8, <1>9, <2>1 DEF TypeOK
<1>12. CensusKept' /\ Origin'
  <2>1. db'.meta = m BY <1>8
  <2>2. db'.meta.started = "legacy" /\ db'.meta.census = source'.meta.census
        /\ source' # None
    BY <1>3, <1>4, <1>6, <2>1
  <2>3. db'.meta.saturated = (db'.meta.started = "legacy" /\ source'.capHit)
    <3>1. source'.capHit \in BOOLEAN BY <1>2, <1>3
    <3>2. db'.meta.saturated = source'.capHit BY <1>3, <1>7, <2>1, Zenon
    <3> QED BY <2>2, <3>1, <3>2, Zenon
  <2>4. db'.meta.census = IF db'.meta.started = "legacy" THEN source'.meta.census ELSE None
    BY <2>2
  <2>5. History' = <<>> BY <1>10
  <2> QED BY <2>2, <2>3, <2>4, <2>5, OriginEmpty, Zenon
<1>13. Migrating' BY <1>1, <1>3, <1>4, <1>8, <1>9, <1>10 DEF Migrating
<1>14. \A d \in Collectors : Holding(d)'
  <2>1. SUFFICES ASSUME NEW d \in Collectors PROVE Holding(d)' OBVIOUS
  <2>2. cycle[d].pc = "idle" BY <1>1, <1>4, NoneIsNot DEF Holding
  <2> QED BY <1>3, <2>2 DEF Holding
<1> QED BY <1>3, <1>4, <1>11, <1>12, <1>13, <1>14

\* It saves the mirror, with which the collectors may begin.
LEMMA MigrationFinishKeeps ==
  ASSUME CycleInv, MigrationFinish
  PROVE  CycleInv'
<1> USE DEF CycleInv, MirrorHasStore
<1>1. TypeOK /\ Origin /\ Migrating /\ CensusKept /\ \A d \in Collectors : Holding(d)
  OBVIOUS
<1>2. /\ migration = "committed" /\ migration' = "off" /\ mirror' = db.meta
      /\ source' = source /\ exists' = exists /\ db' = db /\ lock' = lock
      /\ cycle' = cycle /\ ledger' = ledger
  BY DEF MigrationFinish
<1>3. lock = None /\ exists /\ source # None /\ db.meta # None
  BY <1>1, <1>2 DEF Migrating
<1>4. db.meta \in Metas BY <1>1, <1>3, StoreIs
<1>5. db.meta.updated <= db.meta.updated /\ db.meta.epoch <= db.meta.epoch
  <2>1. db.meta.updated \in Int /\ db.meta.epoch \in Int BY <1>4 DEF Metas
  <2> QED BY <2>1
<1>6. History' = History /\ db'.meta = db.meta BY <1>2, HistorySame
<1>7. TypeOK' BY <1>1, <1>2, <1>4 DEF TypeOK
<1>8. CensusKept' /\ Origin' BY <1>1, <1>2, <1>6, OriginKept
<1>9. Migrating' BY <1>1, <1>2, <1>3, <1>6 DEF Migrating
<1>10. \A d \in Collectors : Holding(d)'
  <2>1. SUFFICES ASSUME NEW d \in Collectors PROVE Holding(d)' OBVIOUS
  <2>2. cycle[d].pc = "idle" BY <1>1, <1>3, NoneIsNot DEF Holding
  <2> QED BY <1>2, <2>2 DEF Holding
<1> QED BY <1>2, <1>3, <1>5, <1>7, <1>8, <1>9, <1>10

\* An error removes the database, and may leave a mirror.
LEMMA MigrationFailKeeps ==
  ASSUME CycleInv, MigrationFail
  PROVE  CycleInv'
<1> USE DEF CycleInv, MirrorHasStore
<1>1. TypeOK /\ Origin /\ Migrating /\ CensusKept /\ \A d \in Collectors : Holding(d)
  OBVIOUS
<1>2. /\ migration # "off" /\ migration' = "off" /\ exists' = FALSE /\ db' = EmptyStore
      /\ mirror' \in {None, db.meta}
      /\ source' = source /\ lock' = lock /\ cycle' = cycle /\ ledger' = ledger
  BY DEF MigrationFail
<1>3. lock = None BY <1>1, <1>2 DEF Migrating
<1>4. History' = <<>>
  <2>1. History = <<>>
    <3>1. CASE migration = "streaming"
      <4>1. db.meta = None BY <1>1, <3>1, EmptyIs DEF Migrating
      <4> QED BY <1>1, <4>1 DEF Migrating
    <3>2. CASE migration = "committed" BY <1>1, <3>2 DEF Migrating
    <3> QED BY <1>1, <1>2, <3>1, <3>2 DEF TypeOK
  <2>2. db.outbox = None BY <1>1, <2>1, HistoryEmpty
  <2>3. db'.outbox = None BY <1>2, EmptyIs
  <2> QED BY <1>2, <2>1, <2>2, <2>3, HistorySame
<1>5. db'.meta = None /\ db'.dids = NoRows /\ db'.outbox = None BY <1>2, EmptyIs
<1>6. TypeOK'
  <2>1. mirror' \in Metas \cup {None} BY <1>1, <1>2, StoreIs
  <2> QED BY <1>1, <1>2, <1>5, <2>1, EmptyIs DEF TypeOK
<1>7. CensusKept' /\ Origin' BY <1>4, <1>5, OriginEmpty
<1>8. Migrating' BY <1>2, <1>4 DEF Migrating
<1>9. \A d \in Collectors : Holding(d)'
  <2>1. SUFFICES ASSUME NEW d \in Collectors PROVE Holding(d)' OBVIOUS
  <2>2. cycle[d].pc = "idle" BY <1>1, <1>3, NoneIsNot DEF Holding
  <2> QED BY <1>2, <2>2 DEF Holding
<1> QED BY <1>2, <1>6, <1>7, <1>8, <1>9

\* A kill leaves everything as it is.
LEMMA MigrationKillKeeps ==
  ASSUME CycleInv, MigrationKill
  PROVE  CycleInv'
<1> USE DEF CycleInv, MirrorHasStore
<1>1. TypeOK /\ Origin /\ Migrating /\ CensusKept /\ \A d \in Collectors : Holding(d)
  OBVIOUS
<1>2. /\ migration # "off" /\ migration' = "off"
      /\ source' = source /\ exists' = exists /\ db' = db /\ mirror' = mirror
      /\ lock' = lock /\ cycle' = cycle /\ ledger' = ledger
  BY DEF MigrationKill
<1>3. lock = None BY <1>1, <1>2 DEF Migrating
<1>4. History' = History /\ db'.meta = db.meta BY <1>2, HistorySame
<1>5. TypeOK' BY <1>1, <1>2 DEF TypeOK
<1>6. CensusKept' /\ Origin' BY <1>1, <1>2, <1>4, OriginKept
<1>7. Migrating' BY <1>1, <1>2, <1>4 DEF Migrating
<1>8. \A d \in Collectors : Holding(d)'
  <2>1. SUFFICES ASSUME NEW d \in Collectors PROVE Holding(d)' OBVIOUS
  <2>2. cycle[d].pc = "idle" BY <1>1, <1>3, NoneIsNot DEF Holding
  <2> QED BY <1>2, <2>2 DEF Holding
<1> QED BY <1>2, <1>5, <1>6, <1>7, <1>8

-----------------------------------------------------------------------------
(* The store and its mirror, in every behaviour.                           *)

\* Nothing is there at first.
LEMMA CycleInit ==
  ASSUME Init
  PROVE  CycleInv
<1> USE DEF Init
<1>1. History = <<>> BY EmptyIs DEF History
<1>2. Len(History) = 0 BY <1>1, EmptySeq
<1>3. TypeOK
  <2>1. Idle \in Cycles BY DEF Cycles
  <2>2. cycle \in [Collectors -> Cycles] BY <2>1
  <2>3. <<>> \in Seq(Ticks) BY EmptySeq
  <2> QED BY <2>2, <2>3, EmptyIs DEF TypeOK
<1>4. MirrorHasStore BY <1>3 DEF MirrorHasStore
<1>5. CensusKept BY <1>2 DEF CensusKept
<1>6. Migrating BY <1>1 DEF Migrating
<1>7. Origin BY EmptyIs DEF Origin
<1>8. \A c \in Collectors : Holding(c) BY DEF Holding, Idle
<1> QED BY <1>4, <1>5, <1>6, <1>7, <1>8 DEF CycleInv

\* A step that changes nothing.
LEMMA CycleStutter ==
  ASSUME CycleInv, UNCHANGED vars
  PROVE  CycleInv'
<1> USE DEF CycleInv, MirrorHasStore
<1>1. TypeOK /\ Origin /\ Migrating /\ CensusKept /\ \A d \in Collectors : Holding(d)
  OBVIOUS
<1>2. /\ source' = source /\ exists' = exists /\ db' = db /\ mirror' = mirror
      /\ lock' = lock /\ cycle' = cycle /\ ledger' = ledger /\ migration' = migration
  BY DEF vars
<1>3. History' = History /\ db'.meta = db.meta BY <1>2, HistorySame
<1>4. CensusKept' /\ Origin' BY <1>1, <1>2, <1>3, OriginKept
<1>5. TypeOK' BY <1>1, <1>2 DEF TypeOK
<1>6. Migrating' BY <1>1, <1>2, <1>3 DEF Migrating
<1>7. \A d \in Collectors : Holding(d)' BY <1>1, <1>2 DEF Holding
<1> QED BY <1>2, <1>4, <1>5, <1>6, <1>7

\* Every step keeps it.
LEMMA CycleNext ==
  ASSUME CycleInv, [Next]_vars
  PROVE  CycleInv'
<1>1. CASE UNCHANGED vars BY <1>1, CycleStutter
<1>2. ASSUME NEW c \in Collectors,
             Load(c) \/ Select(c) \/ Commit(c) \/ Finish(c) \/ Abort(c) \/ Drain(c)
      PROVE  CycleInv'
  BY <1>2, LoadKeeps, SelectKeeps, CommitKeeps, FinishKeeps, AbortKeeps, DrainKeeps
<1>3. CASE \/ MigrationStart \/ MigrationCommit \/ MigrationFinish
           \/ MigrationFail \/ MigrationKill
  BY <1>3, MigrationStartKeeps, MigrationCommitKeeps, MigrationFinishKeeps,
     MigrationFailKeeps, MigrationKillKeeps
<1> QED BY <1>1, <1>2, <1>3 DEF Next

\* What cycles and the migration hold of the store, as they hold it, survives
\* every interleaving, failure and kill.
THEOREM Cycle ==
  Spec => []CycleInv
<1>1. Init => CycleInv BY CycleInit
<1>2. CycleInv /\ [Next]_vars => CycleInv' BY CycleNext
<1> QED BY <1>1, <1>2, PTL DEF Spec

\* A mirror is never beside a database without metadata, nor ahead of it
\* (load_signer_state).
THEOREM MirrorHasItsStore ==
  Spec => []MirrorHasStore
<1>1. CycleInv => MirrorHasStore BY DEF CycleInv
<1> QED BY <1>1, Cycle, PTL

\* The census total of a cron run is in every later tick until the next one
\* (collect_tick).
THEOREM CensusSurvives ==
  Spec => []CensusKept
<1>1. CycleInv => CensusKept BY DEF CycleInv
<1> QED BY <1>1, Cycle, PTL

-----------------------------------------------------------------------------
(* What the ticks saw of a DID.                                            *)

\* The ticks that saw a DID.
LEMMA TicksAre ==
  ASSUME NEW d, NEW n \in Nat
  PROVE  /\ TicksOf(d, n) \in SUBSET (1..n) /\ IsFiniteSet(TicksOf(d, n))
         /\ Cardinality(TicksOf(d, n)) \in Nat
<1>1. TicksOf(d, n) \in SUBSET (1..n) BY DEF TicksOf
<1>2. IsFiniteSet(1..n) BY FS_Interval
<1> QED BY <1>1, <1>2, Part

\* The parts of a tick.
LEMMA TickHas ==
  ASSUME NEW tick \in Ticks
  PROVE  /\ tick.at \in Nat /\ tick.seen \in Seens
         /\ \A d \in DOMAIN tick.seen :
              /\ tick.seen[d].rooms \in SUBSET (Rooms \cup {Lobby})
              /\ tick.seen[d].counterparty \in BOOLEAN
<1>1. tick.at \in Nat /\ tick.seen \in Seens BY DEF Ticks
<1>2. \A d \in DOMAIN tick.seen : tick.seen[d] \in Saw BY <1>1, SeenIs
<1> QED BY <1>1, <1>2 DEF Saw

\* Rooms, the lobby among them, are finitely many numbers.
LEMMA RoomsAre ==
  ASSUME NEW S \in SUBSET (Rooms \cup {Lobby})
  PROVE  S \in SUBSET Nat /\ IsFiniteSet(S)
<1>1. IsFiniteSet(Rooms \cup {Lobby}) BY SignerAssumption, FS_AddElement
<1>2. Rooms \cup {Lobby} \subseteq Nat BY SignerAssumption DEF Lobby
<1> QED BY <1>1, <1>2, Part

\* What a migrated store had of a DID.
LEMMA BaseIs ==
  ASSUME TypeOK, Origin, db.meta # None, NEW d \in Dids
  PROVE  /\ BaseRow(d) \in Row \cup {None}
         /\ BaseRow(d) # None => Cardinality(BaseRow(d).rooms) <= RoomsKept
<1>1. CASE db.meta.started # "legacy" BY <1>1 DEF BaseRow
<1>2. CASE db.meta.started = "legacy"
  <2>1. source \in Source BY <1>2, SourceAssumption DEF Origin, TypeOK
  <2>2. BaseRow(d) = source.dids[d] BY <1>2 DEF BaseRow
  <2>3. /\ source.dids \in Tables
        /\ source.dids[d] # None => Cardinality(source.dids[d].rooms) <= RoomsKept
    BY <2>1 DEF Source
  <2> QED BY <2>2, <2>3 DEF Tables
<1> QED BY <1>1, <1>2

\* The rooms in which a DID was seen.
LEMMA SeenRooms ==
  ASSUME TypeOK, Origin, db.meta # None, NEW d \in Dids, NEW n \in Nat, n <= Len(History)
  PROVE  RoomsOf(d, n) \in SUBSET (Rooms \cup {Lobby})
<1>1. BaseRow(d) # None => BaseRow(d).rooms \in SUBSET (Rooms \cup {Lobby})
  BY BaseIs DEF Row
<1>2. \A i \in TicksOf(d, n) : History[i].seen[d].rooms \in SUBSET (Rooms \cup {Lobby})
  <2>1. SUFFICES ASSUME NEW i \in TicksOf(d, n)
                 PROVE  History[i].seen[d].rooms \in SUBSET (Rooms \cup {Lobby})
    OBVIOUS
  <2>2. i \in 1..n /\ d \in DOMAIN History[i].seen BY DEF TicksOf
  <2>3. i \in 1..Len(History) BY <2>2, HistoryIs
  <2> QED BY <2>2, <2>3, HistoryIs, TickHas
<1> QED BY <1>1, <1>2 DEF RoomsOf

\* What earlier ticks saw does not change while the origin stays.
LEMMA PastSame ==
  ASSUME NEW n \in Nat, NEW d, source' = source, db'.meta.started = db.meta.started,
         \A i \in 1..n : History'[i] = History[i]
  PROVE  /\ BaseRow(d)' = BaseRow(d)
         /\ TicksOf(d, n)' = TicksOf(d, n)
         /\ RoomsOf(d, n)' = RoomsOf(d, n)
         /\ DatesOf(d, n)' = DatesOf(d, n)
         /\ CountOf(d, n)' = CountOf(d, n)
         /\ Has(d, n)' <=> Has(d, n)
         /\ Alternated(d, n)' <=> Alternated(d, n)
<1>1. BaseRow(d)' = BaseRow(d) BY DEF BaseRow
<1>2. TicksOf(d, n)' = TicksOf(d, n) BY DEF TicksOf
<1> DEFINE T == TicksOf(d, n)
<1>3. \A i \in T : History'[i] = History[i] BY DEF TicksOf
<1>4. RoomsOf(d, n)' = RoomsOf(d, n)
  <2>1. UNION {History'[i].seen[d].rooms : i \in T} = UNION {History[i].seen[d].rooms : i \in T}
    <3> HIDE DEF T
    <3> QED BY <1>3
  <2> QED BY <1>1, <1>2, <2>1 DEF RoomsOf
<1>5. DatesOf(d, n)' = DatesOf(d, n)
  <2>1. {Date(History'[i].at) : i \in T} = {Date(History[i].at) : i \in T}
    <3> HIDE DEF T
    <3> QED BY <1>3
  <2> QED BY <1>1, <1>2, <2>1 DEF DatesOf
<1>6. CountOf(d, n)' = CountOf(d, n) BY <1>1, <1>2 DEF CountOf
<1>7. Has(d, n)' <=> Has(d, n) BY <1>1, <1>2 DEF Has
<1>8. Alternated(d, n)' <=> Alternated(d, n)
  <2>1. (\E i \in T : History'[i].seen[d].counterparty)
          <=> (\E i \in T : History[i].seen[d].counterparty)
    <3> HIDE DEF T
    <3> QED BY <1>3
  <2> QED BY <1>1, <1>2, <2>1 DEF Alternated
<1> QED BY <1>1, <1>2, <1>4, <1>5, <1>6, <1>7, <1>8

\* What the next tick adds to what was seen.
LEMMA PastNext ==
  ASSUME NEW n \in Nat, NEW d, source' = source, db'.meta.started = db.meta.started,
         \A i \in 1..n : History'[i] = History[i]
  PROVE  /\ d \in DOMAIN History'[n + 1].seen =>
              TicksOf(d, n + 1)' = TicksOf(d, n) \cup {n + 1}
         /\ d \notin DOMAIN History'[n + 1].seen =>
              TicksOf(d, n + 1)' = TicksOf(d, n)
<1> DEFINE H == History'
<1>1. TicksOf(d, n + 1)' = {i \in 1..n + 1 : d \in DOMAIN H[i].seen} BY DEF TicksOf
<1>2. TicksOf(d, n) = {i \in 1..n : d \in DOMAIN H[i].seen} BY DEF TicksOf
<1>3. 1..n + 1 = 1..n \cup {n + 1} OBVIOUS
<1> HIDE DEF H
<1>4. /\ d \in DOMAIN H[n + 1].seen =>
           TicksOf(d, n + 1)' = TicksOf(d, n) \cup {n + 1}
      /\ d \notin DOMAIN H[n + 1].seen => TicksOf(d, n + 1)' = TicksOf(d, n)
  BY <1>1, <1>2, <1>3
<1> QED BY <1>4 DEF H

\* The funnel of the rows is that of the ticks.
LEMMA FunnelIs ==
  \A n : n = Len(History) /\ TypeOK /\ Origin /\ db.meta # None /\ RowsMatch
           => FunnelCounts(db.dids) = CountsAt(n)
<1> SUFFICES ASSUME NEW n, n = Len(History), TypeOK, Origin, db.meta # None, RowsMatch
             PROVE  FunnelCounts(db.dids) = CountsAt(n)
  OBVIOUS
<1> DEFINE rows == db.dids
<1>1. n \in Nat BY HistoryIs
<1>2. \A d \in Dids : IF ~Has(d, n) THEN rows[d] = None
                      ELSE /\ rows[d] # None
                           /\ rows[d].ticks = CountOf(d, n) /\ rows[d].dates = DatesOf(d, n)
                           /\ rows[d].rooms = Kept(RoomsOf(d, n))
                           /\ rows[d].counterparty = Alternated(d, n)
  BY DEF RowsMatch, RowMatches
<1>3. \A d \in Dids : Cardinality(Kept(RoomsOf(d, n))) >= 2
                        <=> Cardinality(RoomsOf(d, n)) >= 2
  <2>1. \A d \in Dids : RoomsOf(d, n) \in SUBSET (Rooms \cup {Lobby}) BY <1>1, SeenRooms
  <2>2. \A d \in Dids : RoomsOf(d, n) \in SUBSET Nat /\ IsFiniteSet(RoomsOf(d, n))
    BY <2>1, RoomsAre
  <2> QED BY <2>2, KeptTwo
<1> HIDE DEF rows
<1> DEFINE observed == {d \in Dids : Has(d, n)}
           ticks == {d \in observed : CountOf(d, n) >= 2}
           dates == {d \in ticks : DatesOf(d, n) >= 2}
           rooms == {d \in dates : Cardinality(RoomsOf(d, n)) >= 2}
           mutual == {d \in rooms : Alternated(d, n)}
<1>4. {d \in Dids : rows[d] # None} = observed BY <1>2
<1>5. {d \in observed : rows[d].ticks >= 2} = ticks BY <1>2
<1>6. {d \in ticks : rows[d].dates >= 2} = dates BY <1>2
<1>7. {d \in dates : Cardinality(rows[d].rooms) >= 2} = rooms BY <1>2, <1>3
<1>8. {d \in rooms : rows[d].counterparty} = mutual BY <1>2
<1> HIDE DEF observed, ticks, dates, rooms, mutual
<1>9. FunnelCounts(rows) = <<Cardinality(observed), Cardinality(ticks), Cardinality(dates),
                             Cardinality(rooms), Cardinality(mutual)>>
  BY <1>4, <1>5, <1>6, <1>7, <1>8, Zenon DEF FunnelCounts
<1>10. CountsAt(n) = <<Cardinality(observed), Cardinality(ticks), Cardinality(dates),
                       Cardinality(rooms), Cardinality(mutual)>>
  BY Zenon DEF CountsAt, observed, ticks, dates, rooms, mutual
<1> QED BY <1>9, <1>10 DEF rows

\* It is so after a step as well.
LEMMA FunnelIsLater ==
  (\A n : n = Len(History) /\ TypeOK /\ Origin /\ db.meta # None /\ RowsMatch
            => FunnelCounts(db.dids) = CountsAt(n))'
BY FunnelIs, PTL

\* What is said of rows and dates at the length of the history.
LEMMA AtLength ==
  \A n : n = Len(History) =>
    /\ RowsMatch <=> \A d \in Dids : RowMatches(d, n)
    /\ Dated <=> (db.meta # None => TicksDated(n) /\ \A d \in Dids : RowDated(d, n))
BY DEF RowsMatch, Dated

\* And after a step.
LEMMA AtLengthLater ==
  (\A n : n = Len(History) =>
    /\ RowsMatch <=> \A d \in Dids : RowMatches(d, n)
    /\ Dated <=> (db.meta # None => TicksDated(n) /\ \A d \in Dids : RowDated(d, n)))'
BY AtLength, PTL

\* The images of finitely many are finitely many.
LEMMA Image ==
  ASSUME NEW S, IsFiniteSet(S), NEW f
  PROVE  IsFiniteSet({f[x] : x \in S})
<1> DEFINE T == {f[x] : x \in S}
           g == [x \in S |-> f[x]]
<1>1. g \in [S -> T] /\ \A t \in T : \E x \in S : g[x] = t OBVIOUS
<1> HIDE DEF g, T
<1>2. g \in Surjection(S, T) BY <1>1, Fun_IsSurj
<1>3. IsFiniteSet(T) BY <1>2, FS_Surjection
<1> QED BY <1>3 DEF T

\* The dates of some ticks are finitely many.
LEMMA DaysAre ==
  ASSUME NEW d, NEW n \in Nat
  PROVE  IsFiniteSet({Date(History[i].at) : i \in TicksOf(d, n)})
<1> DEFINE T == TicksOf(d, n)
           f == [i \in T |-> Date(History[i].at)]
<1>1. IsFiniteSet(T) BY TicksAre
<1>2. \A i \in T : f[i] = Date(History[i].at) OBVIOUS
<1> HIDE DEF f, T
<1>3. {Date(History[i].at) : i \in T} = {f[i] : i \in T} BY <1>2
<1>4. IsFiniteSet({f[i] : i \in T}) BY <1>1, Image
<1> QED BY <1>3, <1>4 DEF T

-----------------------------------------------------------------------------
(* A row and the history.                                                  *)

\* A tick that a row precedes: what a commit checks and does for a DID that it saw.
Follows(d, n, tick) ==
  /\ \A i \in 1..n : History'[i] = History[i]
  /\ History'[n + 1] = tick /\ d \in DOMAIN tick.seen
  /\ db.meta.updated <= tick.at
  /\ db.dids[d] # None => ~Inconsistent(db.dids[d], tick.at)
  /\ db'.meta # None
  /\ db'.dids[d] = Updated(IF db.dids[d] = None THEN NewRow ELSE db.dids[d],
                           tick.seen[d], tick.at)

\* There is a row for what was seen or migrated.
LEMMA RowIs ==
  ASSUME TypeOK, Origin, db.meta # None, NEW n \in Nat, NEW d \in Dids, RowMatches(d, n)
  PROVE  /\ db.dids[d] \in Row \cup {None}
         /\ db.dids[d] = None <=> TicksOf(d, n) = {} /\ BaseRow(d) = None
         /\ db.dids[d] # None =>
              /\ db.dids[d] \in Row
              /\ db.dids[d].ticks = CountOf(d, n) /\ db.dids[d].dates = DatesOf(d, n)
              /\ db.dids[d].rooms = Kept(RoomsOf(d, n))
              /\ TicksOf(d, n) # {} => db.dids[d].last = History[Max(TicksOf(d, n))].at
              /\ db.dids[d].counterparty = Alternated(d, n)
<1>1. db.dids[d] \in Row \cup {None} BY StoreIs DEF Tables
<1> QED BY <1>1 DEF RowMatches, Has

\* The rooms kept of a DID after a tick that saw it.
LEMMA RoomsFollow ==
  ASSUME TypeOK, Origin, db.meta # None, NEW n \in Nat, n = Len(History), NEW d \in Dids,
         RowMatches(d, n), source' = source, db'.meta.started = db.meta.started,
         NEW tick \in Ticks, Follows(d, n, tick)
  PROVE  db'.dids[d].rooms = Kept(RoomsOf(d, n + 1)')
<1> DEFINE H == History'
           T == TicksOf(d, n)
           old == db.dids[d]
           R == RoomsOf(d, n)
           S == tick.seen[d].rooms
           base == IF BaseRow(d) = None THEN {} ELSE BaseRow(d).rooms
<1>1. H[n + 1] = tick /\ d \in DOMAIN tick.seen /\ \A i \in 1..n : H[i] = History[i]
  BY DEF Follows
<1>2. TicksOf(d, n + 1)' = T \cup {n + 1} BY <1>1, PastNext
<1>3. BaseRow(d)' = BaseRow(d) BY DEF BaseRow
<1>4. \A i \in T : H[i] = History[i] BY <1>1 DEF TicksOf
<1>5. RoomsOf(d, n + 1)' = base \cup UNION {H[i].seen[d].rooms : i \in T \cup {n + 1}}
  BY <1>2, <1>3 DEF RoomsOf
<1>6. R = base \cup UNION {History[i].seen[d].rooms : i \in T} BY DEF RoomsOf
<1>7. R \in SUBSET (Rooms \cup {Lobby}) BY SeenRooms
<1>8. S \in SUBSET (Rooms \cup {Lobby}) BY <1>1, TickHas
<1>9. tick.seen[d] \in Saw
      /\ tick.at \in Nat
  BY <1>1, TickHas, SeenIs
<1>10. old = None => R = {}
  <2>1. SUFFICES ASSUME old = None PROVE R = {} OBVIOUS
  <2>2. T = {} /\ BaseRow(d) = None BY <2>1, RowIs
  <2> QED BY <2>2 DEF RoomsOf
<1>11. old # None => old \in Row /\ old.rooms = Kept(R) BY RowIs
<1>12. /\ old = None => db'.dids[d] = Updated(NewRow, tick.seen[d], tick.at)
       /\ old # None => db'.dids[d] = Updated(old, tick.seen[d], tick.at)
  BY DEF Follows
<1> HIDE DEF H, T, R, S, old, base
<1>13. RoomsOf(d, n + 1)' = R \cup S
  <2>1. {H[i].seen[d].rooms : i \in T \cup {n + 1}}
          = {History[i].seen[d].rooms : i \in T} \cup {S}
    BY <1>1, <1>4 DEF S
  <2> QED BY <1>5, <1>6, <2>1
<1>14. CASE old = None
  <2>1. db'.dids[d].rooms = Kept(NewRow.rooms \cup S)
    BY <1>9, <1>12, <1>14, NewRowIs, UpdatedIs DEF S
  <2>2. NewRow.rooms \cup S = R \cup S BY <1>10, <1>14 DEF NewRow
  <2> QED BY <1>13, <2>1, <2>2
<1>15. CASE old # None
  <2>1. db'.dids[d].rooms = Kept(old.rooms \cup S)
    BY <1>9, <1>11, <1>12, <1>15, UpdatedIs DEF S
  <2>2. db'.dids[d].rooms = Kept(Kept(R) \cup S) BY <1>11, <1>15, <2>1
  <2>3. Kept(Kept(R) \cup S) = Kept(R \cup S) BY <1>7, <1>8, RoomsAre, KeptAgain
  <2> QED BY <1>13, <2>2, <2>3
<1> QED BY <1>14, <1>15

\* The dates counted for a DID after a tick that saw it: its date is counted
\* unless the row, with its last date, already has it.
LEMMA DatesFollow ==
  ASSUME TypeOK, Origin, db.meta # None, NEW n \in Nat, n = Len(History), NEW d \in Dids,
         RowMatches(d, n), RowDated(d, n), TicksDated(n),
         source' = source, db'.meta.started = db.meta.started,
         NEW tick \in Ticks, Follows(d, n, tick)
  PROVE  /\ db'.dids[d].dates = DatesOf(d, n + 1)'
         /\ BaseRow(d) # None => BaseRow(d).lastDate <= Date(tick.at)
<1> DEFINE H == History'
           T == TicksOf(d, n)
           old == db.dids[d]
           base == BaseRow(d)
           D == Date(tick.at)
           days == {Date(History[i].at) : i \in T}
           dates == [i \in T |-> Date(History[i].at)]
<1>1. H[n + 1] = tick /\ d \in DOMAIN tick.seen /\ \A i \in 1..n : H[i] = History[i]
  BY DEF Follows
<1>2. TicksOf(d, n + 1)' = T \cup {n + 1} BY <1>1, PastNext
<1>3. BaseRow(d)' = BaseRow(d) BY DEF BaseRow
<1>4. T \in SUBSET (1..n) /\ \A i \in T : H[i] = History[i] BY <1>1 DEF TicksOf
<1>5. tick.seen[d] \in Saw
      /\ tick.at \in Nat
  BY <1>1, TickHas, SeenIs
<1>6. D \in Nat BY <1>5, DateIs
<1>7. IsFiniteSet(days) BY DaysAre
<1>8. DatesOf(d, n) = IF base = None THEN Cardinality(days)
                      ELSE base.dates + Cardinality(days \ {base.lastDate})
  BY DEF DatesOf
<1>9. DatesOf(d, n + 1)' =
        IF base = None THEN Cardinality(days \cup {D})
        ELSE base.dates + Cardinality((days \cup {D}) \ {base.lastDate})
  <2>1. DatesOf(d, n + 1)' =
          LET now == {Date(H[i].at) : i \in T \cup {n + 1}}
          IN  IF base = None THEN Cardinality(now)
              ELSE base.dates + Cardinality(now \ {base.lastDate})
    BY <1>2, <1>3 DEF DatesOf
  <2>2. {Date(H[i].at) : i \in T \cup {n + 1}} = days \cup {D}
    <3> HIDE DEF H, T
    <3> QED BY <1>1, <1>4
  <2> HIDE DEF days, base, D, H, T
  <2> QED BY <2>1, <2>2
<1>10. base \in Row \cup {None} BY BaseIs
<1>11. base # None => base.dates \in Nat /\ base.lastDate \in Int BY <1>10 DEF Row
<1>12. /\ old = None <=> T = {} /\ base = None
       /\ old # None => old \in Row /\ old.dates = DatesOf(d, n)
       /\ T # {} /\ old # None => old.last = History[Max(T)].at
  BY RowIs
<1>13. /\ T = {} => old = base
       /\ T # {} => /\ old.dates > 0 /\ old.lastDate = Date(old.last)
                    /\ base # None => \A i \in T : base.lastDate <= Date(History[i].at)
  BY DEF RowDated
<1>14. old # None => ~Inconsistent(old, tick.at) BY DEF Follows
<1>15. old # None =>
         /\ old.lastDate \in Int /\ old.dates \in Nat /\ old.lastDate <= D
         /\ old.dates = 0 => old.lastDate = Never
  <2>1. SUFFICES ASSUME old # None
                 PROVE  /\ old.lastDate \in Int /\ old.dates \in Nat /\ old.lastDate <= D
                        /\ old.dates = 0 => old.lastDate = Never
    OBVIOUS
  <2>2. old.lastDate \in Int /\ old.dates \in Nat BY <1>12, <2>1 DEF Row
  <2>3. ~(old.lastDate > D) BY <1>14, <2>1 DEF Inconsistent
  <2>4. (old.firstDate = Never <=> old.lastDate = Never)
        /\ (old.firstDate = Never <=> old.dates = 0)
    BY <1>14, <2>1 DEF Inconsistent
  <2> QED BY <1>6, <2>2, <2>3, <2>4
<1>16. T # {} => /\ Max(T) \in T /\ \A i \in T : /\ Date(History[i].at) \in Nat
                                                 /\ Date(History[i].at) <= old.lastDate
                 /\ old.lastDate = Date(History[Max(T)].at)
  <2>1. SUFFICES ASSUME T # {}
                 PROVE  /\ Max(T) \in T /\ old.lastDate = Date(History[Max(T)].at)
                        /\ \A i \in T : /\ Date(History[i].at) \in Nat
                                        /\ Date(History[i].at) <= Date(History[Max(T)].at)
    OBVIOUS
  <2>2. Max(T) \in T /\ \A i \in T : i <= Max(T) BY <1>4, <2>1, Largest
  <2>3. \A i \in T : i \in 1..Len(History) /\ History[i].at \in Nat
    BY <1>4, HistoryIs, TickHas
  <2>4. \A i \in T : History[i].at <= History[Max(T)].at
    <3>1. \A i \in T : i \in 1..Max(T) BY <1>4, <2>2
    <3>2. Max(T) \in 1..n BY <1>4, <2>2
    <3> QED BY <3>1, <3>2 DEF TicksDated
  <2>5. old.last = History[Max(T)].at BY <1>12, <2>1
  <2>6. old.lastDate = Date(History[Max(T)].at) BY <1>13, <2>1, <2>5
  <2> QED BY <2>2, <2>3, <2>4, <2>6, DateIs
<1>17. /\ old = None => db'.dids[d] = Updated(NewRow, tick.seen[d], tick.at)
       /\ old # None => db'.dids[d] = Updated(old, tick.seen[d], tick.at)
  BY DEF Follows
<1> HIDE DEF H, T, old, base, D, days
<1>18. \A x \in days : x \in Nat /\ x <= old.lastDate BY <1>16 DEF days
<1>19. T # {} => old.lastDate \in days BY <1>16 DEF days
<1>20. T = {} => days = {} BY DEF days
<1>21. base # None => base.lastDate <= D
  <2>1. SUFFICES ASSUME base # None PROVE base.lastDate <= D OBVIOUS
  <2>2. CASE T = {} BY <1>13, <1>15, <2>1, <2>2
  <2>3. CASE T # {}
    <3>1. old # None BY <1>12, <2>3
    <3>2. base.lastDate <= old.lastDate BY <1>13, <1>16, <2>1, <2>3
    <3> QED BY <1>6, <1>11, <1>15, <2>1, <3>1, <3>2
  <2> QED BY <2>2, <2>3
<1>22. Cardinality({D}) = 1 /\ Cardinality({}) = 0 /\ IsFiniteSet({})
  BY FS_Singleton, FS_EmptySet
<1>23. ASSUME old = None PROVE db'.dids[d].dates = DatesOf(d, n + 1)'
  <2>1. T = {} /\ base = None /\ days = {} BY <1>12, <1>20, <1>23
  <2>2. days \cup {D} = {D} BY <2>1
  <2>3. DatesOf(d, n + 1)' = 1 BY <1>9, <1>22, <2>1, <2>2
  <2>4. db'.dids[d].dates = NewRow.dates + 1
    <3>1. NewRow.dates = 0 BY DEF NewRow
    <3>2. db'.dids[d] = Updated(NewRow, tick.seen[d], tick.at) BY <1>17, <1>23
    <3>3. db'.dids[d].dates = DatesThen(NewRow, Date(tick.at))
      BY <1>5, <3>2, NewRowIs, CountsUpdated
    <3> QED BY <3>1, <3>3 DEF DatesThen
  <2> QED BY <2>1, <2>3, <2>4 DEF NewRow
<1>24. ASSUME old # None PROVE db'.dids[d].dates = DatesOf(d, n + 1)'
  <2>1. old \in Row /\ old.dates \in Nat /\ old.lastDate \in Int /\ old.lastDate <= D
    BY <1>12, <1>15, <1>24
  <2>2. db'.dids[d].dates = IF old.dates > 0 /\ old.lastDate = D
                            THEN old.dates ELSE old.dates + 1
    <3>1. db'.dids[d] = Updated(old, tick.seen[d], tick.at) BY <1>17, <1>24
    <3>2. db'.dids[d].dates = DatesThen(old, Date(tick.at))
      BY <1>5, <2>1, <3>1, CountsUpdated
    <3> QED BY <3>2 DEF D, DatesThen
  <2>3. CASE old.dates > 0 /\ old.lastDate = D
    <3>1. CASE T # {}
      <4>1. days \cup {D} = days BY <1>19, <2>3, <3>1
      <4> QED BY <1>8, <1>9, <1>12, <1>24, <2>2, <2>3, <4>1
    <3>2. CASE T = {}
      <4>1. base = old /\ days = {} BY <1>13, <1>20, <3>2
      <4>2. (days \cup {D}) \ {base.lastDate} = {} /\ days \ {base.lastDate} = {}
        BY <2>3, <4>1
      <4> QED BY <1>8, <1>9, <1>12, <1>24, <2>2, <2>3, <4>1, <4>2
    <3> QED BY <3>1, <3>2
  <2>4. CASE ~(old.dates > 0 /\ old.lastDate = D)
    <3>1. D \notin days /\ (base # None => D # base.lastDate)
      <4>1. CASE T # {}
        <5>1. old.lastDate < D BY <1>6, <1>13, <2>1, <2>4, <4>1
        <5>2. base # None => base.lastDate <= old.lastDate BY <1>13, <1>16, <4>1
        <5> QED BY <1>6, <1>11, <1>18, <2>1, <5>1, <5>2
      <4>2. CASE T = {}
        <5>1. base = old /\ days = {} BY <1>13, <1>20, <4>2
        <5>2. old.lastDate # D
          <6>1. CASE old.dates > 0 BY <2>4, <6>1
          <6>2. CASE old.dates = 0
            <7>1. old.lastDate = Never BY <1>15, <1>24, <6>2
            <7> QED BY <1>6, <7>1 DEF Never
          <6> QED BY <2>1, <6>1, <6>2
        <5> QED BY <5>1, <5>2
      <4> QED BY <4>1, <4>2
    <3>2. db'.dids[d].dates = DatesOf(d, n) + 1 BY <1>12, <1>24, <2>2, <2>4
    <3>3. CASE base = None
      <4>1. Cardinality(days \cup {D}) = Cardinality(days) + 1
        BY <1>7, <3>1, FS_AddElement
      <4> QED BY <1>8, <1>9, <3>2, <3>3, <4>1
    <3>4. CASE base # None
      <4> DEFINE E == days \ {base.lastDate}
      <4>1. IsFiniteSet(E) /\ D \notin E
        <5>1. E \in SUBSET days OBVIOUS
        <5> QED BY <1>7, <3>1, <5>1, Part
      <4>2. (days \cup {D}) \ {base.lastDate} = E \cup {D} BY <3>1, <3>4
      <4>3. Cardinality(E) \in Nat BY <4>1, FS_CardinalityType
      <4> HIDE DEF E
      <4>4. Cardinality(E \cup {D}) = Cardinality(E) + 1 BY <4>1, FS_AddElement
      <4>5. DatesOf(d, n) = base.dates + Cardinality(E) BY <1>8, <3>4 DEF E
      <4>6. DatesOf(d, n + 1)' = base.dates + (Cardinality(E) + 1)
        BY <1>9, <3>4, <4>2, <4>4
      <4> QED BY <1>11, <3>2, <3>4, <4>3, <4>5, <4>6
    <3> QED BY <3>3, <3>4
  <2> QED BY <2>3, <2>4
<1> QED BY <1>21, <1>23, <1>24 DEF base, D

\* Whether a DID alternated, after a tick that saw it.
LEMMA MutualFollows ==
  ASSUME TypeOK, Origin, db.meta # None, NEW n \in Nat, n = Len(History), NEW d \in Dids,
         RowMatches(d, n), source' = source, db'.meta.started = db.meta.started,
         NEW tick \in Ticks, Follows(d, n, tick)
  PROVE  db'.dids[d].counterparty = Alternated(d, n + 1)'
<1> DEFINE H == History'
           T == TicksOf(d, n)
           old == db.dids[d]
           base == BaseRow(d)
           saw == tick.seen[d]
<1>1. H[n + 1] = tick /\ d \in DOMAIN tick.seen /\ \A i \in 1..n : H[i] = History[i]
  BY DEF Follows
<1>2. TicksOf(d, n + 1)' = T \cup {n + 1} BY <1>1, PastNext
<1>3. BaseRow(d)' = base BY DEF BaseRow
<1>4. \A i \in T : H[i] = History[i] BY <1>1 DEF TicksOf
<1>5. saw \in Saw /\ tick.at \in Nat BY <1>1, TickHas, SeenIs
<1>6. Alternated(d, n + 1)' <=> \/ base # None /\ base.counterparty
                                \/ \E i \in T \cup {n + 1} : H[i].seen[d].counterparty
  BY <1>2, <1>3 DEF Alternated
<1>7. Alternated(d, n) <=> \/ base # None /\ base.counterparty
                           \/ \E i \in T : History[i].seen[d].counterparty
  BY DEF Alternated
<1>8. Alternated(d, n + 1)' <=> Alternated(d, n) \/ saw.counterparty
  <2>1. (\E i \in T \cup {n + 1} : H[i].seen[d].counterparty)
          <=> (\E i \in T : History[i].seen[d].counterparty) \/ saw.counterparty
    <3> HIDE DEF H, T
    <3> QED BY <1>1, <1>4
  <2> HIDE DEF H, T, base, saw
  <2> QED BY <1>6, <1>7, <2>1
<1>9. CASE old = None
  <2>1. T = {} /\ base = None BY <1>9, RowIs
  <2>2. ~Alternated(d, n) BY <2>1 DEF Alternated
  <2>3. db'.dids[d] = Updated(NewRow, saw, tick.at) BY <1>9 DEF Follows
  <2>4. Updated(NewRow, saw, tick.at).counterparty = (NewRow.counterparty \/ saw.counterparty)
    BY <1>5, NewRowIs, MutualUpdated
  <2>5. ~NewRow.counterparty BY DEF NewRow
  <2>6. saw.counterparty \in BOOLEAN BY <1>5 DEF Saw
  <2>7. Alternated(d, n + 1)' \in BOOLEAN BY DEF Alternated
  <2> HIDE DEF saw
  <2> QED BY <1>8, <2>2, <2>3, <2>4, <2>5, <2>6, <2>7, Zenon
<1>10. CASE old # None
  <2>1. old \in Row BY <1>10, RowIs
  <2>2. old.counterparty = Alternated(d, n) BY <1>10, RowIs
  <2>3. db'.dids[d] = Updated(old, saw, tick.at) BY <1>10 DEF Follows
  <2>4. Updated(old, saw, tick.at).counterparty = (old.counterparty \/ saw.counterparty)
    BY <1>5, <2>1, MutualUpdated
  <2>5. saw.counterparty \in BOOLEAN /\ old.counterparty \in BOOLEAN BY <1>5, <2>1 DEF Saw, Row
  <2>6. Alternated(d, n + 1)' \in BOOLEAN BY DEF Alternated
  <2> HIDE DEF saw, old
  <2> QED BY <1>8, <2>2, <2>3, <2>4, <2>5, <2>6, Zenon
<1> QED BY <1>9, <1>10

\* The row of a DID after a tick that saw it.
LEMMA RowSeen ==
  ASSUME TypeOK, Origin, db.meta # None, NEW n \in Nat, n = Len(History), NEW d \in Dids,
         RowMatches(d, n), RowDated(d, n), TicksDated(n),
         source' = source, db'.meta.started = db.meta.started,
         NEW tick \in Ticks, Follows(d, n, tick)
  PROVE  RowMatches(d, n + 1)' /\ RowDated(d, n + 1)'
<1> DEFINE H == History'
           T == TicksOf(d, n)
           old == db.dids[d]
           new == db'.dids[d]
           base == BaseRow(d)
           from == IF old = None THEN NewRow ELSE old
<1>1. H[n + 1] = tick /\ d \in DOMAIN tick.seen /\ \A i \in 1..n : H[i] = History[i]
  BY DEF Follows
<1>2. TicksOf(d, n + 1)' = T \cup {n + 1} BY <1>1, PastNext
<1>3. BaseRow(d)' = base BY DEF BaseRow
<1>4. T \in SUBSET (1..n) /\ \A i \in T : H[i] = History[i] BY <1>1 DEF TicksOf
<1>5. tick.seen[d] \in Saw /\ tick.at \in Nat BY <1>1, TickHas, SeenIs
<1>6. from \in Row BY NewRowIs, RowIs
<1>7. new = Updated(from, tick.seen[d], tick.at) BY DEF Follows
<1>8. new \in Row
  <2> HIDE DEF from, new
  <2> QED BY <1>5, <1>6, <1>7, UpdatedIs
<1>9. new.ticks = from.ticks + 1 /\ new.last = tick.at /\ new.lastDate = Date(tick.at)
      /\ new.dates = DatesThen(from, Date(tick.at))
  <2> HIDE DEF from, new
  <2> QED BY <1>5, <1>6, <1>7, CountsUpdated
<1>10. new.ticks = CountOf(d, n + 1)'
  <2>1. IsFiniteSet(T) /\ Cardinality(T) \in Nat /\ n + 1 \notin T BY <1>4, TicksAre
  <2>2. Cardinality(T \cup {n + 1}) = Cardinality(T) + 1
    <3> HIDE DEF T
    <3> QED BY <2>1, FS_AddElement
  <2>3. CountOf(d, n + 1)' = Cardinality(T \cup {n + 1}) + (IF base = None THEN 0 ELSE base.ticks)
    BY <1>2, <1>3 DEF CountOf
  <2>4. CountOf(d, n) = Cardinality(T) + (IF base = None THEN 0 ELSE base.ticks)
    BY DEF CountOf
  <2>5. base # None => base.ticks \in Nat BY BaseIs DEF Row
  <2>6. from.ticks = CountOf(d, n)
    <3>1. CASE old = None
      <4>1. T = {} /\ base = None BY <3>1, RowIs
      <4>2. CountOf(d, n) = 0 BY <2>4, <4>1, FS_EmptySet
      <4> QED BY <3>1, <4>2 DEF NewRow
    <3>2. CASE old # None BY <3>2, RowIs
    <3> QED BY <3>1, <3>2
  <2> HIDE DEF T, base, from
  <2> QED BY <1>9, <2>1, <2>2, <2>3, <2>4, <2>5, <2>6
<1>11. new.dates = DatesOf(d, n + 1)' BY DatesFollow
<1>12. new.rooms = Kept(RoomsOf(d, n + 1)') BY RoomsFollow
<1>13. new.counterparty = Alternated(d, n + 1)' BY MutualFollows
<1>14. new.last = H[Max(T \cup {n + 1})].at
  <2>1. T \cup {n + 1} \in SUBSET (1..n + 1) BY <1>4
  <2>2. Max(T \cup {n + 1}) = n + 1
    <3> HIDE DEF T
    <3> QED BY <2>1, LargestNew
  <2> QED BY <1>1, <1>9, <2>2
<1>15. new # None BY <1>8, NoneIsNot
<1>16. Has(d, n + 1)' BY <1>2 DEF Has
<1>17. db'.meta # None BY DEF Follows
<1>18. RowMatches(d, n + 1)'
  <2> HIDE DEF H, T, new
  <2>1. /\ new # None
        /\ new.ticks = CountOf(d, n + 1)' /\ new.dates = DatesOf(d, n + 1)'
        /\ new.rooms = Kept(RoomsOf(d, n + 1)')
        /\ TicksOf(d, n + 1)' # {} => new.last = H[Max(TicksOf(d, n + 1)')].at
    BY <1>2, <1>10, <1>11, <1>12, <1>14, <1>15
  <2> QED BY <1>13, <1>16, <1>17, <2>1 DEF RowMatches, H, new
<1>19. RowDated(d, n + 1)'
  <2>1. new.dates > 0
    <3>1. from.dates \in Nat BY <1>6 DEF Row
    <3> HIDE DEF from, new
    <3> QED BY <1>9, <3>1 DEF DatesThen
  <2>2. new.lastDate = Date(new.last) BY <1>9
  <2>3. base # None => \A i \in T \cup {n + 1} : base.lastDate <= Date(H[i].at)
    <3>1. base # None => base.lastDate <= Date(tick.at) BY DatesFollow
    <3>2. base # None => \A i \in T : base.lastDate <= Date(History[i].at) BY DEF RowDated
    <3> HIDE DEF H, T, base
    <3> QED BY <1>1, <1>4, <3>1, <3>2
  <2>4. T \cup {n + 1} # {} OBVIOUS
  <2> HIDE DEF T, base
  <2> QED BY <1>2, <1>3, <2>1, <2>2, <2>3, <2>4 DEF RowDated
<1> QED BY <1>18, <1>19

\* The row of a DID that a tick did not see, and any row when nothing is added.
LEMMA RowUnseen ==
  ASSUME NEW n \in Nat, NEW k \in {n, n + 1}, NEW d \in Dids,
         RowMatches(d, n), RowDated(d, n), source' = source,
         db.meta # None /\ db'.meta # None, db'.meta.started = db.meta.started,
         db'.dids[d] = db.dids[d],
         \A i \in 1..n : History'[i] = History[i],
         k = n + 1 => d \notin DOMAIN History'[n + 1].seen
  PROVE  RowMatches(d, k)' /\ RowDated(d, k)'
<1>1. TicksOf(d, k)' = TicksOf(d, n)
  <2>1. CASE k = n BY <2>1, PastSame
  <2>2. CASE k = n + 1 BY <2>2, PastNext
  <2> QED BY <2>1, <2>2
<1>2. BaseRow(d)' = BaseRow(d) BY PastSame
<1> DEFINE T == TicksOf(d, n)
<1>3. \A i \in T : History'[i] = History[i] BY DEF TicksOf
<1>4. UNION {History'[i].seen[d].rooms : i \in T} = UNION {History[i].seen[d].rooms : i \in T}
      /\ {Date(History'[i].at) : i \in T} = {Date(History[i].at) : i \in T}
      /\ ((\E i \in T : History'[i].seen[d].counterparty)
            <=> (\E i \in T : History[i].seen[d].counterparty))
  <2> HIDE DEF T
  <2> QED BY <1>3
<1>5. RoomsOf(d, k)' = RoomsOf(d, n) BY <1>1, <1>2, <1>4 DEF RoomsOf
<1>6. DatesOf(d, k)' = DatesOf(d, n) BY <1>1, <1>2, <1>4 DEF DatesOf
<1>7. CountOf(d, k)' = CountOf(d, n) BY <1>1, <1>2 DEF CountOf
<1>8. Has(d, k)' <=> Has(d, n) BY <1>1, <1>2 DEF Has
<1>9. Alternated(d, k)' = Alternated(d, n)
  <2>1. Alternated(d, k)' <=> Alternated(d, n) BY <1>1, <1>2, <1>4 DEF Alternated
  <2>2. Alternated(d, k)' \in BOOLEAN /\ Alternated(d, n) \in BOOLEAN BY DEF Alternated
  <2> QED BY <2>1, <2>2
<1>10. T # {} => Max(T) \in T BY TicksAre, Largest
<1>11. T # {} => History'[Max(T)].at = History[Max(T)].at BY <1>3, <1>10
<1> HIDE DEF T
<1>12. RowMatches(d, k)'
  <2>1. CASE ~Has(d, n) BY <1>8, <2>1 DEF RowMatches
  <2>2. CASE Has(d, n)
    <3> DEFINE row == db.dids[d]
    <3>1. /\ row # None /\ row.ticks = CountOf(d, n) /\ row.dates = DatesOf(d, n)
          /\ row.rooms = Kept(RoomsOf(d, n))
          /\ T # {} => row.last = History[Max(T)].at
      BY <2>2 DEF RowMatches, T
    <3>2. row.counterparty = Alternated(d, n) BY <2>2 DEF RowMatches
    <3> HIDE DEF row
    <3>3. /\ row # None /\ row.ticks = CountOf(d, k)' /\ row.dates = DatesOf(d, k)'
          /\ row.rooms = Kept(RoomsOf(d, k)')
          /\ TicksOf(d, k)' # {} => row.last = History'[Max(TicksOf(d, k)')].at
      BY <1>1, <1>5, <1>6, <1>7, <1>11, <3>1 DEF T
    <3>4. row.counterparty = Alternated(d, k)' BY <1>9, <3>2, Zenon
    <3> QED BY <1>8, <2>2, <3>3, <3>4 DEF RowMatches, row
  <2> QED BY <2>1, <2>2
<1>13. RowDated(d, k)' BY <1>1, <1>2, <1>3 DEF RowDated, T
<1> QED BY <1>12, <1>13

-----------------------------------------------------------------------------
(* The store and the history.                                              *)

\* The funnels that were published stay what the ticks before them give.
LEMMA CountsSame ==
  ASSUME NEW n \in Nat, source' = source, db'.meta.started = db.meta.started,
         \A i \in 1..n : History'[i] = History[i]
  PROVE  CountsAt(n)' = CountsAt(n)
<1>1. \A d \in Dids : /\ RoomsOf(d, n)' = RoomsOf(d, n) /\ DatesOf(d, n)' = DatesOf(d, n)
                      /\ CountOf(d, n)' = CountOf(d, n)
                      /\ Has(d, n)' <=> Has(d, n)
                      /\ Alternated(d, n)' <=> Alternated(d, n)
  BY PastSame
<1> DEFINE observed == {d \in Dids : Has(d, n)}
           ticks == {d \in observed : CountOf(d, n) >= 2}
           dates == {d \in ticks : DatesOf(d, n) >= 2}
           rooms == {d \in dates : Cardinality(RoomsOf(d, n)) >= 2}
           mutual == {d \in rooms : Alternated(d, n)}
<1>2. {d \in Dids : Has(d, n)'} = observed BY <1>1
<1>3. {d \in observed : CountOf(d, n)' >= 2} = ticks BY <1>1
<1>4. {d \in ticks : DatesOf(d, n)' >= 2} = dates BY <1>1
<1>5. {d \in dates : Cardinality(RoomsOf(d, n)') >= 2} = rooms BY <1>1
<1>6. {d \in rooms : Alternated(d, n)'} = mutual BY <1>1
<1>7. CountsAt(n) = <<Cardinality(observed), Cardinality(ticks), Cardinality(dates),
                      Cardinality(rooms), Cardinality(mutual)>>
  BY Zenon DEF CountsAt
<1> HIDE DEF observed, ticks, dates, rooms, mutual
<1>8. CountsAt(n)' = <<Cardinality(observed), Cardinality(ticks), Cardinality(dates),
                       Cardinality(rooms), Cardinality(mutual)>>
  BY <1>2, <1>3, <1>4, <1>5, <1>6, Zenon DEF CountsAt
<1> QED BY <1>7, <1>8

\* Nothing of what the history says changes while store and history stay.
LEMMA StoreKept ==
  ASSUME TypeOK, StoreMatchesHistory, Dated,
         source' = source, History' = History, db'.meta = db.meta, db'.dids = db.dids
  PROVE  StoreMatchesHistory' /\ Dated'
<1>1. PICK n \in Nat : n = Len(History) BY HistoryIs
<1>2. n = Len(History)' /\ \A i \in 1..n : History'[i] = History[i] BY <1>1
<1>3. /\ \A d \in Dids : RowMatches(d, n)
      /\ db.meta # None => TicksDated(n) /\ \A d \in Dids : RowDated(d, n)
  BY <1>1, AtLength DEF StoreMatchesHistory
<1>4. CASE db.meta = None
  <2>1. \A d \in Dids : RowMatches(d, n)' BY <1>3, <1>4 DEF RowMatches
  <2>2. RowsMatch' BY <1>2, <2>1, AtLengthLater
  <2>3. Dated' BY <1>4 DEF Dated
  <2>4. FunnelMatches'
    <3>1. SUFFICES ASSUME NEW k \in 1..n
                   PROVE  /\ History[k].funnel.counts = CountsAt(k)'
                          /\ (History[k].funnel.disclosed
                                = (db.meta.started = "legacy" /\ source.capHit))
      BY <1>2 DEF FunnelMatches
    <3>2. CountsAt(k)' = CountsAt(k)
      <4>1. k \in Nat /\ \A i \in 1..k : History'[i] = History[i] BY <1>2
      <4> QED BY <4>1, CountsSame
    <3> QED BY <1>1, <3>2 DEF StoreMatchesHistory, FunnelMatches
  <2> QED BY <2>2, <2>3, <2>4 DEF StoreMatchesHistory
<1>5. CASE db.meta # None
  <2>1. \A d \in Dids : RowMatches(d, n)' /\ RowDated(d, n)'
    BY <1>2, <1>3, <1>5, RowUnseen
  <2>2. TicksDated(n)' BY <1>2, <1>3, <1>5 DEF TicksDated
  <2>3. RowsMatch' /\ Dated' BY <1>2, <2>1, <2>2, AtLengthLater
  <2>4. FunnelMatches'
    <3>1. SUFFICES ASSUME NEW k \in 1..n
                   PROVE  /\ History[k].funnel.counts = CountsAt(k)'
                          /\ (History[k].funnel.disclosed
                                = (db.meta.started = "legacy" /\ source.capHit))
      BY <1>2 DEF FunnelMatches
    <3>2. CountsAt(k)' = CountsAt(k)
      <4>1. k \in Nat /\ \A i \in 1..k : History'[i] = History[i] BY <1>2
      <4> QED BY <4>1, CountsSame
    <3> QED BY <1>1, <3>2 DEF StoreMatchesHistory, FunnelMatches
  <2> QED BY <2>3, <2>4 DEF StoreMatchesHistory
<1> QED BY <1>4, <1>5

\* Before the first tick every row is what was migrated.
LEMMA StoreFresh ==
  ASSUME History' = <<>>,
         \A d \in Dids :
           /\ db'.meta = None => db'.dids[d] = None
           /\ db'.meta # None => db'.dids[d] = BaseRow(d)'
           /\ db'.meta # None /\ BaseRow(d)' # None =>
                BaseRow(d)' \in Row /\ Cardinality((BaseRow(d)').rooms) <= RoomsKept
  PROVE  StoreMatchesHistory' /\ Dated'
<1>1. 0 = Len(History)' BY EmptySeq
<1>2. FunnelMatches' BY <1>1 DEF FunnelMatches
<1>3. TicksDated(0)' BY DEF TicksDated
<1>4. \A d \in Dids : TicksOf(d, 0)' = {} BY DEF TicksOf
<1>5. \A d \in Dids : db'.meta # None => RowDated(d, 0)' BY <1>4 DEF RowDated
<1>6. \A d \in Dids : RowMatches(d, 0)'
  <2>1. SUFFICES ASSUME NEW d \in Dids PROVE RowMatches(d, 0)' OBVIOUS
  <2>2. CASE db'.meta = None BY <2>2 DEF RowMatches
  <2>3. CASE db'.meta # None
    <3> DEFINE base == BaseRow(d)'
    <3>1. CASE base = None
      <4>1. ~Has(d, 0)' BY <1>4, <3>1 DEF Has
      <4> QED BY <2>3, <3>1, <4>1 DEF RowMatches
    <3>2. CASE base # None
      <4>1. base \in Row /\ Cardinality(base.rooms) <= RoomsKept BY <2>3, <3>2
      <4>2. base.ticks \in Nat /\ base.dates \in Nat /\ base.rooms \in SUBSET (Rooms \cup {Lobby})
        BY <4>1 DEF Row
      <4>3. base.counterparty \in BOOLEAN BY <4>1 DEF Row
      <4>4. CountOf(d, 0)' = base.ticks BY <1>4, <3>2, <4>2, FS_EmptySet DEF CountOf
      <4>5. DatesOf(d, 0)' = base.dates
        <5>1. {Date(History'[i].at) : i \in TicksOf(d, 0)'} = {} BY <1>4
        <5>2. DatesOf(d, 0)' = base.dates + Cardinality({} \ {base.lastDate})
          BY <3>2, <5>1 DEF DatesOf
        <5>3. Cardinality({} \ {base.lastDate}) = 0
          <6>1. {} \ {base.lastDate} = {} OBVIOUS
          <6> QED BY <6>1, FS_EmptySet
        <5> HIDE DEF base
        <5> QED BY <4>2, <5>2, <5>3
      <4>6. Kept(RoomsOf(d, 0)') = base.rooms
        <5>1. RoomsOf(d, 0)' = base.rooms BY <1>4, <3>2 DEF RoomsOf
        <5>2. Kept(base.rooms) = base.rooms BY <4>1, <4>2, RoomsAre, KeptIs
        <5> QED BY <5>1, <5>2
      <4>7. Alternated(d, 0)' <=> base.counterparty BY <1>4, <3>2 DEF Alternated
      <4>8. Alternated(d, 0)' \in BOOLEAN BY DEF Alternated
      <4>9. Has(d, 0)' BY <3>2 DEF Has
      <4>10. db'.dids[d] = base /\ db'.meta # None BY <2>3
      <4> HIDE DEF base
      <4>11. base.counterparty = Alternated(d, 0)' BY <4>3, <4>7, <4>8
      <4> QED BY <1>4, <3>2, <4>4, <4>5, <4>6, <4>9, <4>10, <4>11 DEF RowMatches
    <3> QED BY <3>1, <3>2
  <2> QED BY <2>2, <2>3
<1>7. RowsMatch' /\ Dated' BY <1>1, <1>3, <1>5, <1>6, AtLengthLater
<1> QED BY <1>2, <1>7 DEF StoreMatchesHistory

\* Nothing is there at first.
LEMMA StoreEmpty ==
  ASSUME Init
  PROVE  StoreMatchesHistory /\ Dated
<1>1. History = <<>> /\ db.meta = None BY EmptyIs DEF History, Init
<1>2. Len(History) = 0 BY <1>1, EmptySeq
<1>3. RowsMatch
  <2>1. \A d \in Dids : db.dids[d] = None BY EmptyIs DEF Init, NoRows
  <2> QED BY <1>1, <2>1 DEF RowsMatch, RowMatches
<1>4. FunnelMatches BY <1>2 DEF FunnelMatches
<1>5. Dated BY <1>1 DEF Dated
<1> QED BY <1>3, <1>4, <1>5 DEF StoreMatchesHistory

\* The steps that leave the metadata, the rows and the history as they are.
LEMMA OtherStore ==
  ASSUME StoreInv,
         \/ \E c \in Collectors : Select(c) \/ Finish(c) \/ Abort(c) \/ Drain(c)
         \/ MigrationStart \/ MigrationFinish \/ MigrationKill \/ UNCHANGED vars
  PROVE  StoreMatchesHistory' /\ Dated'
<1>1. TypeOK /\ StoreMatchesHistory /\ Dated BY DEF StoreInv, CycleInv, MirrorHasStore
<1>2. CASE \E c \in Collectors : Drain(c)
  <2>1. /\ db.outbox # None /\ source' = source
        /\ ledger' = Append(ledger, db.outbox) /\ db' = [db EXCEPT !.outbox = None]
    BY <1>2 DEF Drain
  <2>2. db'.meta = db.meta /\ db'.dids = db.dids /\ db'.outbox = None
    BY <1>1, <2>1, StoreIs
  <2>3. History' = History BY <2>1, <2>2, HistoryDrained
  <2> QED BY <1>1, <2>1, <2>2, <2>3, StoreKept
<1>3. CASE ~\E c \in Collectors : Drain(c)
  <2>1. db' = db /\ source' = source /\ ledger' = ledger
    BY <1>3 DEF Select, Selected, Finish, Abort, MigrationStart, MigrationFinish,
                MigrationKill, vars
  <2>2. History' = History BY <2>1, HistorySame
  <2> QED BY <1>1, <2>1, <2>2, StoreKept
<1> QED BY <1>2, <1>3

\* A cycle that begins with new metadata begins before the first tick.
LEMMA LoadStore ==
  ASSUME StoreInv, NEW c \in Collectors, Load(c)
  PROVE  StoreMatchesHistory' /\ Dated'
<1>1. TypeOK /\ Migrating /\ StoreMatchesHistory /\ Dated
  BY DEF StoreInv, CycleInv, MirrorHasStore
<1>2. /\ db.outbox = None /\ db' = [db EXCEPT !.meta = Loaded]
      /\ source' = source /\ ledger' = ledger
  BY DEF Load
<1>3. db'.meta = Loaded /\ db'.dids = db.dids /\ db'.outbox = db.outbox
  BY <1>1, <1>2, StoreIs
<1>4. History' = History BY <1>2, <1>3, HistorySame
<1>5. CASE db.meta # None
  <2>1. db'.meta = db.meta BY <1>3, <1>5 DEF Loaded
  <2> QED BY <1>1, <1>2, <1>3, <1>4, <2>1, StoreKept
<1>6. CASE db.meta = None
  <2>1. History' = <<>> BY <1>1, <1>4, <1>6 DEF Migrating
  <2>2. db'.meta = NewSignerState BY <1>3, <1>6 DEF Loaded
  <2>3. db'.meta # None BY <2>2, NewStateIs, NoneIsNot
  <2>4. \A d \in Dids : db'.dids[d] = None BY <1>1, <1>3, <1>6 DEF TypeOK, NoRows
  <2>5. \A d \in Dids : BaseRow(d)' = None BY <2>2, NewStateIs DEF BaseRow
  <2> QED BY <2>1, <2>3, <2>4, <2>5, StoreFresh
<1> QED BY <1>5, <1>6

\* The migration leaves the rows of the v2 store.
LEMMA MigrationStore ==
  ASSUME StoreInv, MigrationCommit
  PROVE  StoreMatchesHistory' /\ Dated'
<1>1. TypeOK /\ Migrating BY DEF StoreInv, CycleInv, MirrorHasStore
<1>2. PICK saturated \in BOOLEAN :
        db' = [meta |-> MigratedMeta(saturated), dids |-> MigratedRows, outbox |-> None]
  BY DEF MigrationCommit
<1>3. migration = "streaming" /\ source' = source /\ ledger' = ledger
  BY DEF MigrationCommit
<1>4. source # None /\ db = EmptyStore BY <1>1, <1>3 DEF Migrating
<1>5. source \in Source /\ MigratedMeta(saturated) \in Metas
      /\ MigratedMeta(saturated).started = "legacy"
  <2>1. source \in Sources BY <1>1 DEF TypeOK
  <2> QED BY <1>4, <2>1, MigratedIs
<1>6. db'.meta = MigratedMeta(saturated) /\ db'.dids = source.dids /\ db'.outbox = None
  BY <1>2 DEF MigratedRows
<1>7. db'.meta # None /\ db'.meta.started = "legacy" BY <1>5, <1>6, NoneIsNot
<1>8. History' = <<>>
  <2>1. db.meta = None /\ db.outbox = None BY <1>4, EmptyIs
  <2>2. History = <<>> BY <1>1, <2>1 DEF Migrating
  <2> QED BY <1>3, <1>6, <2>1, <2>2, HistorySame
<1>9. \A d \in Dids : BaseRow(d)' = source.dids[d] BY <1>3, <1>7 DEF BaseRow
<1>10. \A d \in Dids : source.dids[d] # None =>
         source.dids[d] \in Row /\ Cardinality(source.dids[d].rooms) <= RoomsKept
  BY <1>5 DEF Source, Tables
<1> QED BY <1>6, <1>7, <1>8, <1>9, <1>10, StoreFresh

\* A migration that failed leaves nothing.
LEMMA FailedStore ==
  ASSUME StoreInv, CycleInv', MigrationFail
  PROVE  StoreMatchesHistory' /\ Dated'
<1>1. db' = EmptyStore BY DEF MigrationFail
<1>2. db'.meta = None /\ db'.dids = NoRows BY <1>1, EmptyIs
<1>3. History' = <<>> BY <1>2 DEF CycleInv, Migrating
<1>4. \A d \in Dids : db'.dids[d] = None BY <1>2 DEF NoRows
<1> QED BY <1>2, <1>3, <1>4, StoreFresh

\* A commit brings rows and history forward together.
LEMMA CommitStore ==
  ASSUME StoreInv, NEW c \in Collectors, Commit(c)
  PROVE  StoreMatchesHistory' /\ Dated'
<1>1. /\ TypeOK /\ Origin /\ CycleInv /\ StoreMatchesHistory /\ Dated
      /\ \A e \in Collectors : Holding(e)
  BY DEF StoreInv, CycleInv, MirrorHasStore
<1>2. TypeOK' /\ Origin' BY <1>1, CommitKeeps DEF CycleInv, MirrorHasStore
<1> DEFINE old == cycle[c].state
           at == cycle[c].at
<1>3. PICK seen \in Seens, total \in Nat \cup {None}, m \in Metas, dids \in Tables,
            tick \in Ticks :
        /\ old \in Metas /\ at \in Nat
        /\ ~UpdateRefused(old, db.dids, seen, at)
        /\ dids = UpdatedRows(db.dids, seen, at)
        /\ m.updated = at /\ m.started = old.started /\ m.saturated = old.saturated
        /\ m.epoch = old.epoch
        /\ m.census = IF total = None THEN old.census ELSE total
        /\ tick = Tick(c, m, dids, seen, total)
        /\ db' = [meta |-> m, dids |-> dids, outbox |-> tick]
        /\ cycle' = [cycle EXCEPT ![c] = [pc |-> "committed", state |-> m]]
  BY <1>1, CommitIs
<1>4. cycle[c].pc = "reading" /\ source' = source /\ ledger' = ledger BY DEF Commit
<1>5. /\ db.meta # None /\ db.outbox = None
      /\ old.updated = db.meta.updated /\ old.started = db.meta.started
  BY <1>1, <1>4 DEF Holding
<1>6. /\ db'.meta = m /\ db'.dids = dids /\ db'.outbox = tick
      /\ db'.meta # None /\ db'.meta.started = db.meta.started /\ db'.meta.updated = at
  BY <1>3, <1>5, NoneIsNot
<1>7. tick.at = at /\ tick.seen = seen /\ tick.funnel.counts = FunnelCounts(dids)
  BY <1>3 DEF Tick, Funnel
<1>8. tick.funnel.disclosed = m.saturated BY <1>3 DEF Tick, Funnel
<1>9. PICK n \in Nat : n = Len(History) BY <1>1, HistoryIs
<1>10. /\ n + 1 = Len(History)' /\ History'[n + 1] = tick
       /\ \A i \in 1..n : History'[i] = History[i]
  BY <1>1, <1>4, <1>5, <1>6, <1>9, HistoryGrown
<1>11. /\ \A d \in Dids : RowMatches(d, n) /\ RowDated(d, n)
       /\ TicksDated(n)
  BY <1>1, <1>5, <1>9, AtLength DEF StoreMatchesHistory
<1>12. db.meta.updated <= at /\ db.meta.updated \in Int /\ at \in Nat
  <2>1. ~(at < old.updated) BY <1>3 DEF UpdateRefused
  <2>2. old.updated \in Int BY <1>3 DEF Metas
  <2> QED BY <1>3, <1>5, <2>1, <2>2
<1>13. \A d \in DOMAIN seen : db.dids[d] # None => ~Inconsistent(db.dids[d], at)
  BY <1>3 DEF UpdateRefused
<1>14. \A d \in Dids : IF d \in DOMAIN seen
                       THEN dids[d] = Updated(IF db.dids[d] = None THEN NewRow
                                              ELSE db.dids[d], seen[d], at)
                       ELSE dids[d] = db.dids[d]
  <2>1. db.dids \in Tables BY <1>1, StoreIs
  <2> QED BY <1>3, <2>1, RowsAre
<1> HIDE DEF old, at
<1>15. \A d \in Dids : RowMatches(d, n + 1)' /\ RowDated(d, n + 1)'
  <2>1. SUFFICES ASSUME NEW d \in Dids PROVE RowMatches(d, n + 1)' /\ RowDated(d, n + 1)'
    OBVIOUS
  <2>2. CASE d \in DOMAIN seen
    <3>1. Follows(d, n, tick)
      BY <1>6, <1>7, <1>10, <1>12, <1>13, <1>14, <2>2 DEF Follows
    <3> QED BY <1>1, <1>4, <1>5, <1>6, <1>9, <1>11, <3>1, RowSeen
  <2>3. CASE d \notin DOMAIN seen
    <3>1. db'.dids[d] = db.dids[d] BY <1>6, <1>14, <2>3
    <3>2. d \notin DOMAIN History'[n + 1].seen BY <1>7, <1>10, <2>3
    <3>3. n + 1 \in {n, n + 1} OBVIOUS
    <3> QED BY <1>4, <1>5, <1>6, <1>10, <1>11, <3>1, <3>2, <3>3, RowUnseen
  <2> QED BY <2>2, <2>3
<1>16. TicksDated(n + 1)'
  <2>1. \A i \in 1..n : History[i].at \in Nat BY <1>1, <1>9, HistoryIs, TickHas
  <2>2. \A i \in 1..n : /\ History[i].at <= db.meta.updated
                        /\ \A j \in 1..i : History[j].at <= History[i].at
    BY <1>11 DEF TicksDated
  <2> DEFINE H == History'
  <2>3. \A i \in 1..n : H[i].at \in Nat /\ H[i].at <= at BY <1>10, <1>12, <2>1, <2>2
  <2>4. H[n + 1].at = at BY <1>7, <1>10
  <2>5. \A i, j \in 1..n : j <= i => H[j].at <= H[i].at BY <1>10, <2>2
  <2> HIDE DEF H
  <2>6. \A i \in 1..n + 1 : H[i].at <= at /\ \A j \in 1..i : H[j].at <= H[i].at
    <3>1. SUFFICES ASSUME NEW i \in 1..n + 1, NEW j \in 1..i
                   PROVE  H[i].at <= at /\ H[j].at <= H[i].at
      OBVIOUS
    <3>2. CASE i = n + 1
      <4>1. H[i].at = at BY <2>4, <3>2
      <4>2. j = n + 1 \/ j \in 1..n BY <3>2
      <4> QED BY <1>12, <2>3, <2>4, <4>1, <4>2
    <3>3. CASE i # n + 1
      <4>1. i \in 1..n /\ j \in 1..n /\ j <= i BY <3>3
      <4> QED BY <2>3, <2>5, <4>1
    <3> QED BY <3>2, <3>3
  <2> QED BY <1>6, <2>6 DEF TicksDated, H
<1>17. RowsMatch' /\ Dated' BY <1>10, <1>15, <1>16, AtLengthLater
<1>18. FunnelMatches'
  <2>1. SUFFICES ASSUME NEW k \in 1..n + 1
                 PROVE  /\ History'[k].funnel.counts = CountsAt(k)'
                        /\ (History'[k].funnel.disclosed
                              = (db'.meta.started = "legacy" /\ source'.capHit))
    BY <1>10 DEF FunnelMatches
  <2>2. CASE k = n + 1
    <3>1. FunnelCounts(dids) = CountsAt(n + 1)'
      BY <1>2, <1>6, <1>10, <1>17, FunnelIsLater
    <3>2. m.saturated = (db'.meta.started = "legacy" /\ source'.capHit)
      BY <1>2, <1>6 DEF Origin
    <3>3. History'[k].funnel.disclosed = m.saturated BY <1>8, <1>10, <2>2
    <3>4. History'[k].funnel.counts = CountsAt(k)' BY <1>7, <1>10, <2>2, <3>1
    <3> QED BY <3>2, <3>3, <3>4, Zenon
  <2>3. CASE k # n + 1
    <3>1. k \in Nat /\ k \in 1..n BY <2>3
    <3>2. \A i \in 1..k : History'[i] = History[i] BY <1>10, <3>1
    <3>3. CountsAt(k)' = CountsAt(k) BY <1>4, <1>6, <3>1, <3>2, CountsSame
    <3>4. /\ History[k].funnel.counts = CountsAt(k)
          /\ (History[k].funnel.disclosed
                = (db.meta.started = "legacy" /\ source.capHit))
      BY <1>1, <1>9, <3>1 DEF StoreMatchesHistory, FunnelMatches
    <3>5. History'[k] = History[k] BY <1>10, <3>1
    <3> QED BY <1>4, <1>6, <3>3, <3>4, <3>5
  <2> QED BY <2>2, <2>3
<1> QED BY <1>17, <1>18 DEF StoreMatchesHistory

\* Every step keeps it.
LEMMA StoreNext ==
  ASSUME StoreInv, [Next]_vars
  PROVE  StoreInv'
<1>1. CycleInv' BY CycleNext DEF StoreInv
<1>2. ASSUME NEW c \in Collectors, Load(c) \/ Commit(c)
      PROVE  StoreMatchesHistory' /\ Dated'
  BY <1>2, LoadStore, CommitStore
<1>3. ASSUME MigrationCommit \/ MigrationFail PROVE StoreMatchesHistory' /\ Dated'
  BY <1>1, <1>3, MigrationStore, FailedStore
<1>4. ASSUME \/ \E c \in Collectors : Select(c) \/ Finish(c) \/ Abort(c) \/ Drain(c)
             \/ MigrationStart \/ MigrationFinish \/ MigrationKill \/ UNCHANGED vars
      PROVE  StoreMatchesHistory' /\ Dated'
  BY <1>4, OtherStore
<1>5. StoreMatchesHistory' /\ Dated' BY <1>2, <1>3, <1>4 DEF Next
<1> QED BY <1>1, <1>5 DEF StoreInv

\* Rows and funnels are those of the history, in the order of time.
THEOREM StoreHolds ==
  Spec => []StoreInv
<1>1. Init => StoreInv BY CycleInit, StoreEmpty DEF StoreInv
<1>2. StoreInv /\ [Next]_vars => StoreInv' BY StoreNext
<1> QED BY <1>1, <1>2, PTL DEF Spec

\* A row holds what every committed tick, and the migrated store, saw of its
\* DID, and every published funnel can be recomputed from the ticks up to it
\* (signer_dids, aggregate_funnel).
THEOREM RowsAndFunnels ==
  Spec => []StoreMatchesHistory
<1>1. StoreInv => StoreMatchesHistory BY DEF StoreInv
<1> QED BY <1>1, StoreHolds, PTL

-----------------------------------------------------------------------------
(* Flattened sequences.                                                    *)

\* What holds of 0 and of each number after one of which it holds.
LEMMA Upward ==
  ASSUME NEW n \in Nat, NEW S, 0 \in S, \A k \in 0..n - 1 : k \in S => k + 1 \in S
  PROVE  \A k \in 0..n : k \in S
<1> DEFINE T == {k \in 0..n : k \notin S}
<1>1. SUFFICES ASSUME T # {} PROVE FALSE OBVIOUS
<1>2. IsFiniteSet(0..n) /\ T \in SUBSET (0..n) /\ T \in SUBSET Nat BY FS_Interval
<1>3. IsFiniteSet(T) /\ Cardinality(T) \in Nat BY <1>2, Part
<1>4. Cardinality(T) # 0 BY <1>1, <1>3, FS_EmptySet
<1>5. 1 \in 1..Cardinality(T) BY <1>3, <1>4
<1>6. PICK r \in T : Cardinality(Under(T, r)) = 1 - 1
  <2> HIDE DEF T
  <2> QED BY <1>2, <1>3, <1>5, SmallestOnto
<1>7. Under(T, r) = {}
  <2>1. Under(T, r) \in SUBSET T BY DEF Under
  <2>2. IsFiniteSet(Under(T, r)) BY <1>3, <2>1, Part
  <2> HIDE DEF T
  <2> QED BY <1>6, <2>2, FS_EmptySet
<1>8. r # 0 /\ r \in 0..n /\ r \notin S OBVIOUS
<1>9. r - 1 \in 0..n - 1 /\ r - 1 < r BY <1>8
<1>10. r - 1 \notin T BY <1>7, <1>9 DEF Under
<1> QED BY <1>8, <1>9, <1>10

\* The first elements of a sequence of sequences, joined.
FlatTo(f, s, n) == f = [i \in 1..n |-> IF i = 1 THEN s[i] ELSE f[i - 1] \o s[i]]

\* One step of joining them.
LEMMA FlatAt ==
  ASSUME NEW n \in Nat, NEW s, NEW f, FlatTo(f, s, n), NEW k \in 1..n
  PROVE  f[k] = IF k = 1 THEN s[k] ELSE f[k - 1] \o s[k]
<1> DEFINE h == [i \in 1..n |-> IF i = 1 THEN s[i] ELSE f[i - 1] \o s[i]]
<1>1. f = h BY DEF FlatTo
<1>2. h[k] = IF k = 1 THEN s[k] ELSE f[k - 1] \o s[k] OBVIOUS
<1> HIDE DEF h
<1> QED BY <1>1, <1>2, Zenon

\* They can be joined one by one.
LEMMA FlatExists ==
  ASSUME NEW s, NEW n \in Nat
  PROVE  \E f : FlatTo(f, s, n)
<1> DEFINE S == {k \in 0..n : \E f : FlatTo(f, s, k)}
<1>1. 0 \in S
  <2>1. FlatTo(<<>>, s, 0)
    <3>1. <<>> = [i \in 1..0 |-> IF i = 1 THEN s[i] ELSE <<>>[i - 1] \o s[i]] OBVIOUS
    <3> QED BY <3>1 DEF FlatTo
  <2> QED BY <2>1
<1>2. ASSUME NEW k \in 0..n - 1, k \in S PROVE k + 1 \in S
  <2>1. PICK f : FlatTo(f, s, k) BY <1>2
  <2> DEFINE x == IF k = 0 THEN s[1] ELSE f[k] \o s[k + 1]
             g == [i \in 1..k + 1 |-> IF i = k + 1 THEN x ELSE f[i]]
  <2>2. \A i \in 1..k : g[i] = f[i] /\ f[i] = (IF i = 1 THEN s[i] ELSE f[i - 1] \o s[i])
    <3>1. k \in Nat /\ \A i \in 1..k : i # k + 1 /\ i \in 1..k + 1 OBVIOUS
    <3> QED BY <2>1, <3>1, FlatAt
  <2>3. g[k + 1] = x /\ DOMAIN g = 1..k + 1 OBVIOUS
  <2>4. g = [i \in 1..k + 1 |-> g[i]] OBVIOUS
  <2> HIDE DEF g
  <2>5. \A i \in 1..k + 1 : g[i] = IF i = 1 THEN s[i] ELSE g[i - 1] \o s[i]
    <3>1. SUFFICES ASSUME NEW i \in 1..k + 1
                   PROVE  g[i] = IF i = 1 THEN s[i] ELSE g[i - 1] \o s[i]
      OBVIOUS
    <3>2. CASE i = k + 1
      <4>1. k # 0 => g[k] = f[k] BY <2>2
      <4>2. i - 1 = k /\ (i = 1 <=> k = 0) BY <3>2
      <4> QED BY <2>3, <3>2, <4>1, <4>2
    <3>3. CASE i # k + 1
      <4>1. i \in 1..k /\ (i # 1 => i - 1 \in 1..k) BY <3>3
      <4> QED BY <2>2, <4>1
    <3> QED BY <3>2, <3>3
  <2>6. FlatTo(g, s, k + 1)
    <3>1. g = [i \in 1..k + 1 |-> IF i = 1 THEN s[i] ELSE g[i - 1] \o s[i]]
      BY <2>4, <2>5
    <3> QED BY <3>1 DEF FlatTo
  <2>7. k + 1 \in 0..n OBVIOUS
  <2> QED BY <2>6, <2>7
<1> HIDE DEF S
<1>3. \A k \in 0..n : k \in S BY <1>1, <1>2, Upward
<1> QED BY <1>3 DEF S

\* How far they are joined depends on them only.
LEMMA FlatSame ==
  ASSUME NEW n \in Nat, NEW m \in Nat, n <= m, NEW s, NEW t, \A i \in 1..n : s[i] = t[i],
         NEW f, FlatTo(f, s, n), NEW g, FlatTo(g, t, m), NEW j \in 1..n
  PROVE  f[j] = g[j]
<1> DEFINE S == {k \in 0..n : k = 0 \/ f[k] = g[k]}
<1>1. 0 \in S OBVIOUS
<1>2. ASSUME NEW k \in 0..n - 1, k \in S PROVE k + 1 \in S
  <2>1. k + 1 \in 1..n /\ k + 1 \in 1..m /\ k + 1 - 1 = k OBVIOUS
  <2>2. f[k + 1] = IF k + 1 = 1 THEN s[k + 1] ELSE f[k] \o s[k + 1] BY <2>1, FlatAt
  <2>3. g[k + 1] = IF k + 1 = 1 THEN t[k + 1] ELSE g[k] \o t[k + 1] BY <2>1, FlatAt
  <2>4. s[k + 1] = t[k + 1] BY <2>1
  <2>5. k # 0 => f[k] = g[k] BY <1>2
  <2>6. f[k + 1] = g[k + 1] BY <2>2, <2>3, <2>4, <2>5
  <2> QED BY <2>1, <2>6
<1>3. \A k \in 0..n : k \in S
  <2> HIDE DEF S
  <2> QED BY <1>1, <1>2, Upward
<1> QED BY <1>3

\* One more joined leaves the others.
LEMMA FlatLast ==
  ASSUME NEW n \in Nat, n # 0, NEW s, NEW t, \A i \in 1..n : s[i] = t[i],
         NEW f, FlatTo(f, s, n), NEW g, FlatTo(g, t, n + 1)
  PROVE  f[n] = g[n]
<1>1. PICK m \in Nat : m = n + 1 OBVIOUS
<1>2. FlatTo(g, t, m) BY <1>1
<1>3. n <= m /\ n \in 1..n BY <1>1
<1> QED BY <1>2, <1>3, FlatSame

\* The flattened sequence is what joining all of its elements gives.
LEMMA FlattenIs ==
  ASSUME NEW n \in Nat, NEW s, Len(s) = n
  PROVE  IF n = 0 THEN FlattenSeq(s) = s
         ELSE \E f : FlatTo(f, s, n) /\ FlattenSeq(s) = f[n]
<1>1. CASE n = 0 BY <1>1 DEF FlattenSeq
<1>2. CASE n # 0
  <2> DEFINE f == CHOOSE g : FlatTo(g, s, n)
  <2>1. FlatTo(f, s, n)
    <3>1. \E g : FlatTo(g, s, n) BY FlatExists
    <3> QED BY <3>1
  <2>2. FlattenSeq(s) = f[n] BY <1>2 DEF FlattenSeq, FlatTo
  <2> QED BY <1>2, <2>1, <2>2
<1> QED BY <1>1, <1>2

\* Sequences of rooms are joined to one.
LEMMA FlattenType ==
  ASSUME NEW s \in Seq(Seq(Rooms))
  PROVE  FlattenSeq(s) \in Seq(Rooms)
<1>1. PICK n \in Nat : n = Len(s) BY LenProperties
<1>2. \A i \in 1..n : s[i] \in Seq(Rooms) BY <1>1, ElementOfSeq
<1>3. CASE n = 0
  <2>1. FlattenSeq(s) = <<>> BY <1>1, <1>3, FlattenIs, EmptySeq
  <2> QED BY <2>1, EmptySeq
<1>4. CASE n # 0
  <2>1. PICK f : FlatTo(f, s, n) /\ FlattenSeq(s) = f[n] BY <1>1, <1>4, FlattenIs
  <2> DEFINE S == {k \in 0..n : k = 0 \/ f[k] \in Seq(Rooms)}
  <2>2. 0 \in S OBVIOUS
  <2>3. ASSUME NEW k \in 0..n - 1, k \in S PROVE k + 1 \in S
    <3>1. k + 1 \in 1..n /\ k + 1 - 1 = k /\ k + 1 \in 0..n OBVIOUS
    <3>2. f[k + 1] = IF k + 1 = 1 THEN s[k + 1] ELSE f[k] \o s[k + 1]
      BY <2>1, <3>1, FlatAt
    <3>3. k # 0 => f[k] \in Seq(Rooms) BY <2>3
    <3>4. f[k + 1] \in Seq(Rooms) BY <1>2, <3>1, <3>2, <3>3, ConcatProperties
    <3> QED BY <3>1, <3>4
  <2>4. \A k \in 0..n : k \in S
    <3> HIDE DEF S
    <3> QED BY <2>2, <2>3, Upward
  <2> QED BY <1>4, <2>1, <2>4
<1> QED BY <1>3, <1>4

\* One more at the end.
LEMMA FlattenStep ==
  ASSUME NEW n \in Nat, n # 0, NEW s, Len(s) = n, NEW t, Len(t) = n + 1,
         \A i \in 1..n : s[i] = t[i]
  PROVE  FlattenSeq(t) = FlattenSeq(s) \o t[n + 1]
<1>1. PICK f : FlatTo(f, s, n) /\ FlattenSeq(s) = f[n] BY FlattenIs
<1>2. PICK g : FlatTo(g, t, n + 1) /\ FlattenSeq(t) = g[n + 1]
  <2>1. n + 1 \in Nat /\ n + 1 # 0 OBVIOUS
  <2> QED BY <2>1, FlattenIs
<1>3. g[n + 1] = IF n + 1 = 1 THEN t[n + 1] ELSE g[n] \o t[n + 1]
  <2>1. n + 1 \in 1..n + 1 /\ n + 1 - 1 = n /\ n + 1 \in Nat OBVIOUS
  <2> QED BY <1>2, <2>1, FlatAt
<1>4. f[n] = g[n] BY <1>1, <1>2, FlatLast
<1>5. n + 1 # 1 OBVIOUS
<1> QED BY <1>1, <1>2, <1>3, <1>4, <1>5

\* Of sequences of rooms, also after none.
LEMMA FlattenNext ==
  ASSUME NEW s \in Seq(Seq(Rooms)), NEW t \in Seq(Seq(Rooms)), Len(t) = Len(s) + 1,
         \A i \in 1..Len(s) : t[i] = s[i]
  PROVE  FlattenSeq(t) = FlattenSeq(s) \o t[Len(t)]
<1>1. PICK n \in Nat : n = Len(s) BY LenProperties
<1>2. n + 1 = Len(t) /\ n + 1 \in Nat /\ n + 1 # 0 BY <1>1
<1>3. CASE n = 0
  <2>1. FlattenSeq(s) = <<>> BY <1>1, <1>3, FlattenIs, EmptySeq
  <2>2. t[n + 1] \in Seq(Rooms) BY <1>2, ElementOfSeq
  <2>3. <<>> \o t[n + 1] = t[n + 1] BY <2>2, ConcatEmptySeq
  <2>4. PICK g : FlatTo(g, t, n + 1) /\ FlattenSeq(t) = g[n + 1] BY <1>2, FlattenIs
  <2>5. g[n + 1] = IF n + 1 = 1 THEN t[n + 1] ELSE g[n + 1 - 1] \o t[n + 1]
    <3>1. n + 1 \in 1..n + 1 OBVIOUS
    <3> QED BY <1>2, <2>4, <3>1, FlatAt
  <2> QED BY <1>2, <1>3, <2>1, <2>3, <2>4, <2>5
<1>4. CASE n # 0
  <2>1. \A i \in 1..n : s[i] = t[i] BY <1>1
  <2>2. FlattenSeq(t) = FlattenSeq(s) \o t[n + 1] BY <1>1, <1>2, <1>4, <2>1, FlattenStep
  <2> QED BY <1>2, <2>2
<1> QED BY <1>3, <1>4

\* Nothing is joined to nothing.
LEMMA FlattenNothing ==
  ASSUME NEW s \in Seq(Seq(Rooms)), \A i \in 1..Len(s) : s[i] = <<>>
  PROVE  FlattenSeq(s) = <<>>
<1>1. PICK n \in Nat : n = Len(s) BY LenProperties
<1>2. CASE n = 0 BY <1>1, <1>2, FlattenIs, EmptySeq
<1>3. CASE n # 0
  <2>1. PICK f : FlatTo(f, s, n) /\ FlattenSeq(s) = f[n] BY <1>1, <1>3, FlattenIs
  <2> DEFINE S == {k \in 0..n : k = 0 \/ f[k] = <<>>}
  <2>2. 0 \in S OBVIOUS
  <2>3. ASSUME NEW k \in 0..n - 1, k \in S PROVE k + 1 \in S
    <3>1. k + 1 \in 1..n /\ k + 1 - 1 = k /\ k + 1 \in 0..n OBVIOUS
    <3>2. f[k + 1] = IF k + 1 = 1 THEN s[k + 1] ELSE f[k] \o s[k + 1]
      BY <2>1, <3>1, FlatAt
    <3>3. k # 0 => f[k] = <<>> BY <2>3
    <3>4. <<>> \o <<>> = <<>>
      <4>1. <<>> \in Seq(Rooms) BY EmptySeq
      <4> QED BY <4>1, ConcatEmptySeq
    <3>5. s[k + 1] = <<>> BY <1>1, <3>1
    <3> QED BY <3>1, <3>2, <3>3, <3>4, <3>5
  <2>4. \A k \in 0..n : k \in S
    <3> HIDE DEF S
    <3> QED BY <2>2, <2>3, Upward
  <2> QED BY <1>3, <2>1, <2>4
<1> QED BY <1>2, <1>3

-----------------------------------------------------------------------------
(* What the ticks of an epoch have sampled.                                *)

\* What each of the first ticks has sampled of an epoch.
Parts(h, epoch, n) == [i \in 1..n |-> IF h[i].epoch = epoch THEN h[i].sampled ELSE <<>>]

\* The first n entries of h are ticks.
TicksTo(h, n) == n \in Nat /\ \A i \in 1..n : h[i] \in Ticks

\* s lists what each of the first n ticks of h has sampled of an epoch.
PartsListed(s, h, epoch, n) ==
  /\ s \in Seq(Seq(Rooms)) /\ Len(s) = n
  /\ \A i \in 1..n : s[i] = IF h[i].epoch = epoch THEN h[i].sampled ELSE <<>>

\* Sequences of rooms.
LEMMA PartsAre ==
  ASSUME NEW n, NEW h, TicksTo(h, n), NEW epoch
  PROVE  PartsListed(Parts(h, epoch, n), h, epoch, n)
<1>1. \A t \in Ticks : t.sampled \in Seq(Rooms) BY DEF Ticks
<1>2. <<>> \in Seq(Rooms) BY EmptySeq
<1>3. \A i \in 1..n : (IF h[i].epoch = epoch THEN h[i].sampled ELSE <<>>) \in Seq(Rooms)
  BY <1>1, <1>2 DEF TicksTo
<1> DEFINE s == Parts(h, epoch, n)
<1>4. /\ DOMAIN s = 1..n
      /\ \A i \in 1..n : s[i] = IF h[i].epoch = epoch THEN h[i].sampled ELSE <<>>
      /\ s \in [1..n -> Seq(Rooms)]
  BY <1>3 DEF Parts
<1> HIDE DEF s
<1>5. s \in Seq(Seq(Rooms)) /\ Len(s) = n BY <1>4 DEF TicksTo
<1>6. PartsListed(s, h, epoch, n) BY <1>4, <1>5 DEF PartsListed
<1> QED BY <1>6 DEF s

\* What was used up of an epoch's frame before the first tick.
Inherited(base, epoch) ==
  IF base.epoch = epoch THEN SubSeq(base.frame, 1, base.position) ELSE <<>>

\* Rooms.
LEMMA InheritedIs ==
  ASSUME NEW base \in Metas, base.position <= Len(base.frame), NEW epoch
  PROVE  Inherited(base, epoch) \in Seq(Rooms)
<1>1. base.position \in Nat /\ base.frame \in Seq(Rooms) /\ Len(base.frame) \in Nat
  BY LenProperties DEF Metas
<1>2. \A i \in 1..base.position : base.frame[i] \in Rooms BY <1>1, ElementOfSeq
<1>3. SubSeq(base.frame, 1, base.position) \in Seq(Rooms) BY <1>1, <1>2, SubSeqProperties
<1> QED BY <1>3, EmptySeq DEF Inherited

\* The ticks k are the first n ones h and one more.
Grown(h, k, n) ==
  /\ n \in Nat /\ Len(h) = n /\ Len(k) = n + 1
  /\ \A i \in 1..n : h[i] \in Ticks /\ k[i] = h[i]
  /\ k[n + 1] \in Ticks

\* What one tick more has sampled.
LEMMA SampledNext ==
  ASSUME NEW base \in Metas, base.position <= Len(base.frame), NEW epoch,
         NEW n, NEW h, NEW k, Grown(h, k, n)
  PROVE  /\ SampledIn(k, base, epoch, n) = SampledIn(h, base, epoch, n)
         /\ SampledIn(h, base, epoch, n) \in Seq(Rooms)
         /\ SampledIn(k, base, epoch, n + 1) =
              SampledIn(h, base, epoch, n)
                \o (IF k[n + 1].epoch = epoch THEN k[n + 1].sampled ELSE <<>>)
<1> DEFINE s == Parts(h, epoch, n)
           t == Parts(k, epoch, n + 1)
           x == IF k[n + 1].epoch = epoch THEN k[n + 1].sampled ELSE <<>>
           b == Inherited(base, epoch)
<1> USE DEF Grown
<1>1. SampledIn(h, base, epoch, n) = b \o FlattenSeq(s) BY DEF SampledIn, Parts, Inherited
<1>2. SampledIn(k, base, epoch, n + 1) = b \o FlattenSeq(t) BY DEF SampledIn, Parts, Inherited
<1>3. SampledIn(k, base, epoch, n) = SampledIn(h, base, epoch, n)
  <2>1. Parts(k, epoch, n) = Parts(h, epoch, n) BY DEF Parts
  <2>2. SampledIn(k, base, epoch, n) = b \o FlattenSeq(Parts(k, epoch, n))
    BY DEF SampledIn, Parts, Inherited
  <2> QED BY <1>1, <2>1, <2>2
<1>4. TicksTo(k, n + 1) /\ TicksTo(h, n)
  <2>1. \A i \in 1..n + 1 : i \in 1..n \/ i = n + 1 OBVIOUS
  <2> QED BY <2>1 DEF TicksTo
<1>5. PartsListed(s, h, epoch, n) BY <1>4, PartsAre
<1>6. PartsListed(t, k, epoch, n + 1) BY <1>4, PartsAre
<1>7. b \in Seq(Rooms) BY InheritedIs
<1> HIDE DEF b, s, t
<1> USE DEF PartsListed
<1>8. t[n + 1] = x /\ \A i \in 1..n : t[i] = s[i]
  <2>1. n + 1 \in 1..n + 1 /\ \A i \in 1..n : i \in 1..n + 1 OBVIOUS
  <2> QED BY <1>5, <1>6, <2>1
<1>9. FlattenSeq(t) = FlattenSeq(s) \o x
  <2>1. FlattenSeq(t) = FlattenSeq(s) \o t[Len(t)] BY <1>5, <1>6, <1>8, FlattenNext
  <2> QED BY <1>6, <1>8, <2>1
<1>10. x \in Seq(Rooms)
  <2>1. n + 1 \in 1..Len(t) BY <1>6
  <2> QED BY <1>6, <1>8, <2>1, ElementOfSeq
<1>11. FlattenSeq(s) \in Seq(Rooms) BY <1>5, FlattenType
<1> HIDE DEF x
<1>12. b \o (FlattenSeq(s) \o x) = (b \o FlattenSeq(s)) \o x
  <2>1. \A u, v, w \in Seq(Rooms) : u \o (v \o w) = (u \o v) \o w BY ConcatAssociative
  <2> QED BY <1>7, <1>10, <1>11, <2>1
<1>13. b \o FlattenSeq(s) \in Seq(Rooms) BY <1>7, <1>11, ConcatProperties
<1> QED BY <1>1, <1>2, <1>3, <1>9, <1>12, <1>13 DEF x

\* An epoch that has not begun.
LEMMA SampledNone ==
  ASSUME NEW base, NEW epoch, base.epoch # epoch, NEW n \in Nat,
         NEW h, \A i \in 1..n : h[i] \in Ticks /\ h[i].epoch # epoch
  PROVE  SampledIn(h, base, epoch, n) = <<>>
<1> DEFINE s == Parts(h, epoch, n)
<1>1. SampledIn(h, base, epoch, n) = <<>> \o FlattenSeq(s) BY DEF SampledIn, Parts
<1>2. PartsListed(s, h, epoch, n)
  <2>1. TicksTo(h, n) BY DEF TicksTo
  <2> QED BY <2>1, PartsAre
<1> HIDE DEF s
<1>3. FlattenSeq(s) = <<>>
  <2>1. s \in Seq(Seq(Rooms)) /\ \A i \in 1..Len(s) : s[i] = <<>> BY <1>2 DEF PartsListed
  <2> QED BY <2>1, FlattenNothing
<1>4. <<>> \o <<>> = <<>>
  <2>1. <<>> \in Seq(Rooms) BY EmptySeq
  <2> QED BY <2>1, ConcatEmptySeq
<1> QED BY <1>1, <1>3, <1>4

\* Before the first tick.
LEMMA SampledFirst ==
  ASSUME NEW base \in Metas, base.position <= Len(base.frame), NEW h
  PROVE  SampledIn(h, base, base.epoch, 0) = SubSeq(base.frame, 1, base.position)
<1> DEFINE s == Parts(h, base.epoch, 0)
           b == SubSeq(base.frame, 1, base.position)
<1>1. SampledIn(h, base, base.epoch, 0) = b \o FlattenSeq(s) BY DEF SampledIn, Parts
<1>2. PartsListed(s, h, base.epoch, 0)
  <2>1. TicksTo(h, 0) BY DEF TicksTo
  <2> QED BY <2>1, PartsAre
<1>3. b \in Seq(Rooms) BY InheritedIs DEF Inherited
<1> HIDE DEF s, b
<1> USE DEF PartsListed
<1>4. FlattenSeq(s) = <<>>
  <2>1. \A i \in 1..Len(s) : s[i] = <<>> BY <1>2
  <2> QED BY <1>2, <2>1, FlattenNothing
<1> QED BY <1>1, <1>3, <1>4, ConcatEmptySeq DEF b

\* The first places of a frame.
LEMMA PrefixIs ==
  ASSUME NEW f \in Seq(Rooms), NEW p \in Nat, p <= Len(f)
  PROVE  /\ IsPrefix(SubSeq(f, 1, p), f)
         /\ p = Len(f) => SubSeq(f, 1, p) = f
<1> DEFINE s == SubSeq(f, 1, p)
<1>1. Len(f) \in Nat BY LenProperties
<1>2. \A i \in 1..p : f[i] \in Rooms BY <1>1, ElementOfSeq
<1>3. s \in Seq(Rooms) /\ Len(s) = p BY <1>2, SubSeqProperties
<1> HIDE DEF s
<1>4. SubSeq(s, 1, p) = s BY <1>3, SubSeqFull
<1> QED BY <1>3, <1>4, SubSeqFull DEF IsPrefix, s

\* The next slice of a frame, the current one or a new one.
LEMMA SampleTakes ==
  ASSUME NEW m \in Metas, ~Exhausted(m), m.position <= Len(m.frame),
         NEW listing \in Listings,
         NEW s, s = RoomSample(m, listing).state, NEW r, r = RoomSample(m, listing).slice
  PROVE  /\ s.position <= Len(s.frame)
         /\ \/ /\ s.epoch = m.epoch /\ s.frame = m.frame /\ m.position <= s.position
               /\ r = SubSeq(s.frame, m.position + 1, s.position)
            \/ /\ s.epoch = m.epoch + 1 /\ m.position = Len(m.frame)
               /\ r = SubSeq(s.frame, 1, s.position)
<1> DEFINE f == Framed(m, listing)
           stop == Min({f.position + ReadBudget - 1, Len(f.frame)})
<1>1. m.position \in Nat /\ m.frame \in Seq(Rooms) /\ Len(m.frame) \in Nat
      /\ m.epoch \in -1..MaxEpoch
  BY LenProperties DEF Metas
<1>2. /\ f \in Metas /\ f.position <= Len(f.frame)
      /\ \/ f = m
         \/ f.epoch = m.epoch + 1 /\ f.position = 0 /\ m.position = Len(m.frame)
  <2>1. CASE m.position < Len(m.frame)
    <3>1. f = m BY <2>1 DEF Framed
    <3> HIDE DEF f
    <3> QED BY <3>1
  <2>2. CASE ~(m.position < Len(m.frame))
    <3>1. MaxEpoch \in Nat /\ ~(m.epoch >= MaxEpoch)
      BY <1>1, <2>2, SignerAssumption DEF Exhausted
    <3>2. m.epoch + 1 \in 0..MaxEpoch /\ m.epoch + 1 \in -1..MaxEpoch BY <1>1, <3>1
    <3>3. Frame(m.epoch + 1, listing) \in Seq(Rooms) BY <3>2, FrameIs, SignerAssumption
    <3>4. f = [m EXCEPT !.epoch = m.epoch + 1, !.frame = Frame(m.epoch + 1, listing),
                        !.position = 0]
      BY <2>2 DEF Framed
    <3> HIDE DEF f
    <3>5. f \in Metas BY <3>2, <3>3, <3>4 DEF Metas
    <3>6. f.epoch = m.epoch + 1 /\ f.position = 0 BY <3>4 DEF Metas
    <3>7. m.position = Len(m.frame) BY <1>1, <2>2
    <3>8. f.position <= Len(f.frame)
      <4>1. f.frame \in Seq(Rooms) BY <3>5 DEF Metas
      <4>2. Len(f.frame) \in Nat BY <4>1, LenProperties
      <4> QED BY <3>6, <4>2
    <3> QED BY <3>5, <3>6, <3>7, <3>8
  <2> QED BY <2>1, <2>2
<1>3. s = [f EXCEPT !.position = stop] /\ r = SubSeq(f.frame, f.position + 1, stop)
  BY DEF RoomSample, Slice
<1> HIDE DEF f
<1>4. f.position \in Nat /\ f.frame \in Seq(Rooms) /\ Len(f.frame) \in Nat
  BY <1>2, LenProperties DEF Metas
<1>5. stop \in Nat /\ stop <= Len(f.frame) /\ f.position <= stop
  <2> DEFINE stops == {f.position + ReadBudget - 1, Len(f.frame)}
  <2>1. ReadBudget \in Nat /\ ReadBudget > 1 BY SignerAssumption
  <2>2. f.position + ReadBudget - 1 \in Nat /\ f.position <= f.position + ReadBudget - 1
    BY <1>4, <2>1
  <2>3. stop \in stops /\ \A y \in stops : stop <= y
    <3>1. \E x \in stops : \A y \in stops : x <= y BY <1>4, <2>2
    <3> QED BY <3>1 DEF Min
  <2> HIDE DEF stop
  <2> QED BY <1>2, <1>4, <2>2, <2>3
<1> HIDE DEF stop
<1>6. s.position = stop /\ s.frame = f.frame /\ s.epoch = f.epoch BY <1>2, <1>3 DEF Metas
<1>7. CASE f = m BY <1>3, <1>5, <1>6, <1>7
<1>8. CASE f.epoch = m.epoch + 1 /\ f.position = 0 /\ m.position = Len(m.frame)
  <2>1. f.position + 1 = 1 BY <1>8
  <2> QED BY <1>3, <1>5, <1>6, <1>8, <2>1
<1> QED BY <1>2, <1>7, <1>8

\* A tick that a cycle commits after such a step continues the frames.
LEMMA CoveredNext ==
  ASSUME NEW base \in Metas, base.position <= Len(base.frame),
         NEW n, NEW h, NEW k, Grown(h, k, n),
         NEW m \in Metas, AtPlace(m, h, base), \A i \in 1..n : FrameCovered(h, base, i),
         NEW s \in Metas, s.position <= Len(s.frame),
         k[n + 1].epoch = s.epoch, k[n + 1].frame = s.frame,
         \/ /\ s.epoch = m.epoch /\ s.frame = m.frame /\ m.position <= s.position
            /\ k[n + 1].sampled = SubSeq(s.frame, m.position + 1, s.position)
         \/ /\ s.epoch = m.epoch + 1 /\ m.position = Len(m.frame)
            /\ k[n + 1].sampled = SubSeq(s.frame, 1, s.position)
  PROVE  AtPlace(s, k, base) /\ \A i \in 1..n + 1 : FrameCovered(k, base, i)
<1> DEFINE last == IF n = 0 THEN base ELSE h[n]
           x == k[n + 1].sampled
<1>1. /\ m.epoch = last.epoch /\ m.frame = last.frame /\ m.position <= Len(m.frame)
      /\ SampledIn(h, base, m.epoch, n) = SubSeq(m.frame, 1, m.position)
      /\ base.epoch <= m.epoch /\ \A i \in 1..n : h[i].epoch <= m.epoch
  BY DEF AtPlace, Grown
<1>2. /\ m.position \in Nat /\ m.frame \in Seq(Rooms) /\ Len(m.frame) \in Nat
      /\ s.position \in Nat /\ s.frame \in Seq(Rooms) /\ Len(s.frame) \in Nat
      /\ m.epoch \in Int /\ s.epoch \in Int /\ base.epoch \in Int
  BY LenProperties DEF Metas
<1>3. \A i \in 1..n : h[i].epoch \in Int
  <2>1. \A t \in Ticks : t.epoch \in Int BY DEF Ticks
  <2> QED BY <2>1 DEF Grown
<1>4. \A epoch :
        /\ SampledIn(k, base, epoch, n) = SampledIn(h, base, epoch, n)
        /\ SampledIn(k, base, epoch, n + 1) =
             SampledIn(h, base, epoch, n) \o (IF k[n + 1].epoch = epoch THEN x ELSE <<>>)
  <2>1. SUFFICES ASSUME NEW epoch
                 PROVE  /\ SampledIn(k, base, epoch, n) = SampledIn(h, base, epoch, n)
                        /\ SampledIn(k, base, epoch, n + 1) =
                             SampledIn(h, base, epoch, n)
                               \o (IF k[n + 1].epoch = epoch THEN x ELSE <<>>)
    OBVIOUS
  <2> QED BY SampledNext
<1> USE DEF Grown
<1>5. x \in Seq(Rooms) BY DEF Ticks
<1> HIDE DEF last, x
<1>6. SampledIn(k, base, s.epoch, n + 1) = SubSeq(s.frame, 1, s.position)
  <2>1. SampledIn(k, base, s.epoch, n + 1) = SampledIn(h, base, s.epoch, n) \o x
    BY <1>4
  <2>2. CASE /\ s.epoch = m.epoch /\ s.frame = m.frame /\ m.position <= s.position
             /\ x = SubSeq(s.frame, m.position + 1, s.position)
    <3>1. SampledIn(h, base, s.epoch, n) = SubSeq(s.frame, 1, m.position) BY <1>1, <2>2
    <3>2. 1 \in 1..Len(s.frame) + 1 /\ m.position \in 1 - 1..Len(s.frame)
          /\ s.position \in m.position..Len(s.frame)
      BY <1>1, <1>2, <2>2
    <3>3. SubSeq(s.frame, 1, m.position) \o SubSeq(s.frame, m.position + 1, s.position)
            = SubSeq(s.frame, 1, s.position)
      BY <1>2, <3>2, ConcatAdjacentSubSeq
    <3> QED BY <2>1, <2>2, <3>1, <3>3
  <2>3. CASE s.epoch = m.epoch + 1 /\ x = SubSeq(s.frame, 1, s.position)
    <3>1. base.epoch # s.epoch /\ \A i \in 1..n : h[i].epoch # s.epoch
      BY <1>1, <1>2, <1>3, <2>3
    <3>2. SampledIn(h, base, s.epoch, n) = <<>> BY <3>1, SampledNone
    <3> QED BY <1>5, <2>1, <2>3, <3>2, ConcatEmptySeq
  <2> QED BY <2>2, <2>3 DEF x
<1>7. \A i \in 1..n : FrameCovered(k, base, i)
  <2>1. SUFFICES ASSUME NEW i \in 1..n PROVE FrameCovered(k, base, i) OBVIOUS
  <2>2. FrameCovered(h, base, i) /\ k[i] = h[i] OBVIOUS
  <2>3. Before(k, base, i) = Before(h, base, i)
    <3>1. i # 1 => i - 1 \in 1..n OBVIOUS
    <3> QED BY <3>1 DEF Before
  <2>4. \A epoch, j : j \in 0..n => SampledIn(k, base, epoch, j) = SampledIn(h, base, epoch, j)
    <3>1. SUFFICES ASSUME NEW epoch, NEW j \in 0..n
                   PROVE  SampledIn(k, base, epoch, j) = SampledIn(h, base, epoch, j)
      OBVIOUS
    <3>2. \A l \in 1..j : k[l] = h[l] OBVIOUS
    <3>3. Parts(k, epoch, j) = Parts(h, epoch, j) BY <3>2 DEF Parts
    <3> QED BY <3>3 DEF SampledIn, Parts
  <2>5. i \in 0..n /\ i - 1 \in 0..n OBVIOUS
  <2> QED BY <2>2, <2>3, <2>4, <2>5 DEF FrameCovered
<1>8. FrameCovered(k, base, n + 1)
  <2>1. Before(k, base, n + 1) = last
    <3>1. n + 1 = 1 <=> n = 0 OBVIOUS
    <3>2. n # 0 => n \in 1..n /\ n + 1 - 1 = n OBVIOUS
    <3> QED BY <3>1, <3>2 DEF Before, last
  <2>2. IsPrefix(SubSeq(s.frame, 1, s.position), s.frame) BY <1>2, PrefixIs
  <2>3. s.epoch = last.epoch => s.frame = last.frame BY <1>1, <1>2
  <2>4. s.epoch # last.epoch =>
          s.epoch = last.epoch + 1 /\ SampledIn(k, base, last.epoch, n + 1 - 1) = last.frame
    <3>1. SUFFICES ASSUME s.epoch # m.epoch
                   PROVE  s.epoch = m.epoch + 1 /\ SampledIn(k, base, m.epoch, n) = m.frame
      <4>1. n + 1 - 1 = n OBVIOUS
      <4> QED BY <1>1, <4>1
    <3>2. s.epoch = m.epoch + 1 /\ m.position = Len(m.frame) BY <3>1
    <3>3. SubSeq(m.frame, 1, m.position) = m.frame BY <1>2, <3>2, PrefixIs
    <3> QED BY <1>1, <1>4, <3>2, <3>3
  <2>5. IsPrefix(SampledIn(k, base, k[n + 1].epoch, n + 1), k[n + 1].frame)
    BY <1>6, <2>2
  <2>6. k[n + 1].epoch = last.epoch => k[n + 1].frame = last.frame BY <2>3
  <2>7. k[n + 1].epoch # last.epoch =>
          /\ k[n + 1].epoch = last.epoch + 1
          /\ SampledIn(k, base, last.epoch, n + 1 - 1) = last.frame
    BY <2>4
  <2>8. PICK b : b = last OBVIOUS
  <2>9. Before(k, base, n + 1) = b BY <2>1, <2>8
  <2>10. /\ k[n + 1].epoch = b.epoch => k[n + 1].frame = b.frame
         /\ k[n + 1].epoch # b.epoch =>
              /\ k[n + 1].epoch = b.epoch + 1
              /\ SampledIn(k, base, b.epoch, n + 1 - 1) = b.frame
    BY <2>6, <2>7, <2>8
  <2> QED BY <2>5, <2>9, <2>10 DEF FrameCovered
<1>9. AtPlace(s, k, base)
  <2>1. m.epoch <= s.epoch BY <1>2
  <2>2. base.epoch <= s.epoch BY <1>1, <1>2, <2>1
  <2>3. \A i \in 1..n + 1 : k[i].epoch <= s.epoch
    <3>1. SUFFICES ASSUME NEW i \in 1..n + 1 PROVE k[i].epoch <= s.epoch OBVIOUS
    <3>2. CASE i = n + 1 BY <1>2, <3>2
    <3>3. CASE i # n + 1
      <4>1. i \in 1..n BY <3>3
      <4>2. k[i].epoch <= m.epoch /\ k[i].epoch \in Int BY <1>1, <1>3, <4>1
      <4> QED BY <1>2, <2>1, <4>2
    <3> QED BY <3>2, <3>3
  <2>4. n + 1 # 0 OBVIOUS
  <2> QED BY <1>6, <2>2, <2>3, <2>4 DEF AtPlace
<1>10. \A i \in 1..n + 1 : i \in 1..n \/ i = n + 1 OBVIOUS
<1> QED BY <1>7, <1>8, <1>9, <1>10

-----------------------------------------------------------------------------
(* The frames of the committed ticks.                                      *)

\* Where the sampler stood at first.
LEMMA BaseMeta ==
  ASSUME NEW m, NEW s \in Sources, m.started = "legacy" => s # None,
         NEW base, base = IF m.started = "legacy" THEN s.meta ELSE NewSignerState
  PROVE  base \in Metas /\ base.position <= Len(base.frame)
<1>1. CASE m.started = "legacy"
  <2>1. s \in Source BY <1>1, SourceAssumption
  <2> QED BY <1>1, <2>1 DEF Source
<1>2. CASE m.started # "legacy"
  <2>1. base = NewSignerState BY <1>2
  <2>2. NewSignerState.position = 0 /\ NewSignerState.frame = <<>> BY DEF NewSignerState
  <2>3. Len(<<>>) = 0 BY EmptySeq
  <2> QED BY <2>1, <2>2, <2>3, NewStateIs
<1> QED BY <1>1, <1>2

\* Metadata that begins where the store began.
LEMMA PlaceFirst ==
  ASSUME NEW m \in Metas, NEW base \in Metas, base.position <= Len(base.frame),
         m.epoch = base.epoch, m.frame = base.frame, m.position = base.position,
         NEW h, Len(h) = 0
  PROVE  AtPlace(m, h, base)
<1>1. SampledIn(h, base, base.epoch, 0) = SubSeq(base.frame, 1, base.position)
  BY SampledFirst
<1>2. m.epoch <= m.epoch
  <2>1. m.epoch \in Int BY DEF Metas
  <2> QED BY <2>1
<1>3. \A i \in 1..0 : h[i].epoch <= m.epoch OBVIOUS
<1> QED BY <1>1, <1>2, <1>3 DEF AtPlace

\* What the metadata and the committed ticks say of the frames.
FramesOf == FramesCovered /\ (db.meta # None => AtPlace(db.meta, History, Base))

\* The steps that change neither the metadata nor the history.
LEMMA FramesSame ==
  ASSUME FramesOf, source' = source, History' = History, db'.meta = db.meta
  PROVE  FramesOf'
<1>1. Base' = Base BY DEF Base
<1> QED BY <1>1 DEF FramesOf, FramesCovered

\* New or migrated metadata, before the first tick.
LEMMA FramesFirst ==
  ASSUME TypeOK', Origin', History' = <<>>,
         db'.meta # None => /\ db'.meta.epoch = Base'.epoch /\ db'.meta.frame = Base'.frame
                            /\ db'.meta.position = Base'.position
  PROVE  FramesOf'
<1>1. Len(History') = 0 BY EmptySeq
<1>2. FramesCovered' BY <1>1 DEF FramesCovered
<1>3. ASSUME db'.meta # None PROVE AtPlace(db.meta, History, Base)'
  <2>1. Base' \in Metas /\ Base'.position <= Len(Base'.frame)
    <3>1. source' \in Sources /\ (db'.meta.started = "legacy" => source' # None)
      BY <1>3 DEF TypeOK, Origin
    <3>2. Base' = IF db'.meta.started = "legacy" THEN source'.meta ELSE NewSignerState
      BY DEF Base
    <3> QED BY <3>1, <3>2, BaseMeta
  <2>2. db'.meta \in Metas BY <1>3 DEF TypeOK, Stores
  <2> QED BY <1>1, <1>3, <2>1, <2>2, PlaceFirst
<1> QED BY <1>2, <1>3 DEF FramesOf

\* The steps of the collectors but the commit, and of the migration.
LEMMA FramesStay ==
  ASSUME CycleInv, CycleInv', FramesOf,
         \/ \E c \in Collectors : Load(c) \/ Select(c) \/ Finish(c) \/ Abort(c) \/ Drain(c)
         \/ MigrationStart \/ MigrationCommit \/ MigrationFinish
         \/ MigrationFail \/ MigrationKill \/ UNCHANGED vars
  PROVE  FramesOf'
<1>1. TypeOK /\ Migrating /\ TypeOK' /\ Origin' /\ Migrating'
  BY DEF CycleInv, MirrorHasStore
<1>2. CASE \E c \in Collectors : Drain(c)
  <2>1. /\ db.outbox # None /\ source' = source
        /\ ledger' = Append(ledger, db.outbox) /\ db' = [db EXCEPT !.outbox = None]
    BY <1>2 DEF Drain
  <2>2. db'.meta = db.meta /\ db'.outbox = None BY <1>1, <2>1, StoreIs
  <2>3. History' = History BY <2>1, <2>2, HistoryDrained
  <2> QED BY <2>1, <2>2, <2>3, FramesSame
<1>3. CASE \E c \in Collectors : Load(c)
  <2>1. db' = [db EXCEPT !.meta = Loaded] /\ source' = source /\ ledger' = ledger
    BY <1>3 DEF Load
  <2>2. db'.meta = Loaded /\ db'.outbox = db.outbox BY <1>1, <2>1, StoreIs
  <2>3. History' = History BY <2>1, <2>2, HistorySame
  <2>4. CASE db.meta # None
    <3>1. db'.meta = db.meta BY <2>2, <2>4 DEF Loaded
    <3> QED BY <2>1, <2>3, <3>1, FramesSame
  <2>5. CASE db.meta = None
    <3>1. History' = <<>> BY <1>1, <2>3, <2>5 DEF Migrating
    <3>2. db'.meta = NewSignerState BY <2>2, <2>5 DEF Loaded
    <3>3. Base' = NewSignerState
      <4>1. db'.meta.started # "legacy" BY <3>2, NewStateIs
      <4> QED BY <4>1 DEF Base
    <3> QED BY <1>1, <3>1, <3>2, <3>3, FramesFirst
  <2> QED BY <2>4, <2>5
<1>4. CASE MigrationCommit
  <2>1. PICK saturated \in BOOLEAN :
          db' = [meta |-> MigratedMeta(saturated), dids |-> MigratedRows, outbox |-> None]
    BY <1>4 DEF MigrationCommit
  <2>2. migration = "streaming" /\ source' = source /\ ledger' = ledger
    BY <1>4 DEF MigrationCommit
  <2>3. source # None /\ db = EmptyStore /\ source \in Sources
    BY <1>1, <2>2 DEF Migrating, TypeOK
  <2>4. source \in Source /\ MigratedMeta(saturated).started = "legacy"
    BY <2>3, MigratedIs
  <2>5. db'.meta = MigratedMeta(saturated) /\ db'.outbox = None BY <2>1
  <2>6. History' = <<>>
    <3>1. db.meta = None /\ db.outbox = None BY <2>3, EmptyIs
    <3>2. History = <<>> BY <1>1, <3>1 DEF Migrating
    <3> QED BY <2>2, <2>5, <3>1, <3>2, HistorySame
  <2>7. Base' = source.meta BY <2>2, <2>4, <2>5 DEF Base
  <2>8. /\ MigratedMeta(saturated).epoch = source.meta.epoch
        /\ MigratedMeta(saturated).frame = source.meta.frame
        /\ MigratedMeta(saturated).position = source.meta.position
    <3>1. source.meta \in Metas BY <2>4 DEF Source
    <3> QED BY <3>1 DEF MigratedMeta, Metas
  <2> QED BY <1>1, <2>5, <2>6, <2>7, <2>8, FramesFirst
<1>5. CASE MigrationFail
  <2>1. db'.meta = None BY <1>5, EmptyIs DEF MigrationFail
  <2>2. History' = <<>> BY <1>1, <2>1 DEF Migrating
  <2> QED BY <1>1, <2>1, <2>2, FramesFirst
<1>6. CASE \/ \E c \in Collectors : Select(c) \/ Finish(c) \/ Abort(c)
          \/ MigrationStart \/ MigrationFinish \/ MigrationKill \/ UNCHANGED vars
  <2>1. db' = db /\ source' = source /\ ledger' = ledger
    BY <1>6 DEF Select, Selected, Finish, Abort, MigrationStart, MigrationFinish,
                MigrationKill, vars
  <2>2. History' = History BY <2>1, HistorySame
  <2> QED BY <2>1, <2>2, FramesSame
<1> QED BY <1>2, <1>3, <1>4, <1>5, <1>6

\* The metadata of a tick keeps the place of the sampler.
LEMMA PlaceKept ==
  ASSUME NEW m \in Metas, NEW at, NEW new, new = UpdatedMeta(m, at)
  PROVE  new.epoch = m.epoch /\ new.frame = m.frame /\ new.position = m.position
<1> DEFINE y == DatesAfter(m, Date(at))
           d == Date(at)
<1>1. y.epoch = m.epoch /\ y.frame = m.frame /\ y.position = m.position
      /\ DOMAIN y = DOMAIN m
  <2>1. CASE m.dates > 0 /\ m.lastDate = d BY <2>1 DEF DatesAfter
  <2>2. CASE ~(m.dates > 0 /\ m.lastDate = d)
    <3>1. y = [m EXCEPT !.firstDate = IF m.dates = 0 THEN d ELSE m.firstDate,
                        !.lastDate = d, !.dates = m.dates + 1]
      BY <2>2 DEF DatesAfter
    <3> HIDE DEF y, d
    <3> QED BY <3>1 DEF Metas
  <2> QED BY <2>1, <2>2
<1>2. new = [y EXCEPT !.updated = at] BY DEF UpdatedMeta
<1>3. DOMAIN y = DOMAIN m /\ {"epoch", "frame", "position"} \subseteq DOMAIN m
  BY <1>1 DEF Metas
<1> HIDE DEF y
<1> QED BY <1>1, <1>2, <1>3

\* A commit stores the place of the sampler that its cycle held, and publishes
\* what was sampled there.
LEMMA CommitPlace ==
  ASSUME TypeOK, NEW c \in Collectors, Commit(c),
         NEW old, old = cycle[c].state
  PROVE  /\ db'.meta.epoch = old.epoch /\ db'.meta.frame = old.frame
         /\ db'.meta.position = old.position
         /\ db'.outbox.epoch = old.epoch /\ db'.outbox.frame = old.frame
         /\ db'.outbox.sampled = cycle[c].rooms
<1> DEFINE at == cycle[c].at
<1>1. PICK reads \in Reads(c), total \in Census(c) :
        LET seen == Observed(reads)
            dids == UpdatedRows(db.dids, seen, at)
            m == UpdatedMeta(IF total = None THEN old ELSE [old EXCEPT !.census = total], at)
        IN  db' = [meta |-> m, dids |-> dids, outbox |-> Tick(c, m, dids, seen, total)]
  BY DEF Commit
<1>2. cycle[c].pc = "reading" BY DEF Commit
<1>3. old \in Metas /\ at \in Nat BY <1>2, CycleIs
<1> DEFINE old2 == IF total = None THEN old ELSE [old EXCEPT !.census = total]
           m == UpdatedMeta(old2, at)
<1>4. total \in Nat \cup {None} BY <1>3 DEF Census
<1>5. /\ old2 \in Metas /\ old2.epoch = old.epoch /\ old2.frame = old.frame
      /\ old2.position = old.position
  BY <1>3, <1>4 DEF Metas
<1> HIDE DEF old2, at
<1>6. m.epoch = old2.epoch /\ m.frame = old2.frame /\ m.position = old2.position
  BY <1>5, PlaceKept
<1>7. db'.meta = m /\ db'.outbox.epoch = m.epoch /\ db'.outbox.frame = m.frame
      /\ db'.outbox.sampled = cycle[c].rooms
  <2> HIDE DEF m
  <2> QED BY <1>1 DEF m, old2, at, Tick
<1> HIDE DEF m
<1> QED BY <1>5, <1>6, <1>7

\* Its tick continues the frames.
LEMMA CommitFrames ==
  ASSUME CycleInv, FramesOf, NEW c \in Collectors, Advancing(c), Commit(c)
  PROVE  FramesOf'
<1>1. TypeOK /\ Origin /\ \A e \in Collectors : Holding(e)
  BY DEF CycleInv, MirrorHasStore
<1>2. PICK old : old = cycle[c].state OBVIOUS
<1>3. PICK m \in Metas, tick \in Ticks :
        db'.meta = m /\ db'.outbox = tick /\ m.started = old.started /\ old \in Metas
  <2>1. PICK seen \in Seens, total \in Nat \cup {None}, m \in Metas, dids \in Tables,
              tick \in Ticks :
          /\ old \in Metas /\ m.started = old.started
          /\ db' = [meta |-> m, dids |-> dids, outbox |-> tick]
    BY <1>1, <1>2, CommitIs
  <2>2. db'.meta = m /\ db'.outbox = tick BY <2>1
  <2> QED BY <2>1, <2>2
<1>4. cycle[c].pc = "reading" /\ source' = source /\ ledger' = ledger BY DEF Commit
<1>5. db.meta # None /\ db.outbox = None /\ old.started = db.meta.started
  BY <1>1, <1>2, <1>4 DEF Holding
<1>6. /\ m.epoch = old.epoch /\ m.frame = old.frame /\ m.position = old.position
      /\ tick.epoch = old.epoch /\ tick.frame = old.frame /\ tick.sampled = cycle[c].rooms
  BY <1>1, <1>2, <1>3, CommitPlace
<1>7. /\ m.position <= Len(m.frame)
      /\ \/ /\ m.epoch = db.meta.epoch /\ m.frame = db.meta.frame
            /\ db.meta.position <= m.position
            /\ tick.sampled = SubSeq(m.frame, db.meta.position + 1, m.position)
         \/ /\ m.epoch = db.meta.epoch + 1 /\ db.meta.position = Len(db.meta.frame)
            /\ tick.sampled = SubSeq(m.frame, 1, m.position)
  BY <1>2, <1>4, <1>6 DEF Advancing
<1>8. PICK n : n = Len(History) OBVIOUS
<1>9. PICK h : h = History OBVIOUS
<1>10. PICK k : k = History' OBVIOUS
<1>11. Grown(h, k, n)
  <2>1. n \in Nat /\ \A i \in 1..n : h[i] \in Ticks BY <1>1, <1>8, <1>9, HistoryIs
  <2>2. /\ Len(History') = Len(History) + 1 /\ History'[Len(History) + 1] = tick
        /\ \A i \in 1..Len(History) : History'[i] = History[i]
    BY <1>1, <1>3, <1>4, <1>5, HistoryGrown
  <2>3. Len(k) = n + 1 /\ k[n + 1] = tick /\ \A i \in 1..n : k[i] = h[i]
    BY <1>8, <1>9, <1>10, <2>2
  <2> QED BY <1>8, <1>9, <2>1, <2>3 DEF Grown
<1>12. k[n + 1] = tick
  <2>1. History'[Len(History) + 1] = tick BY <1>1, <1>3, <1>4, <1>5, HistoryGrown
  <2> QED BY <1>8, <1>10, <2>1
<1>13. PICK base : base = Base OBVIOUS
<1>14. base \in Metas /\ base.position <= Len(base.frame)
  <2>1. source \in Sources /\ (db.meta.started = "legacy" => source # None)
    BY <1>1, <1>5 DEF TypeOK, Origin
  <2> QED BY <1>13, <2>1, BaseMeta DEF Base
<1>15. Base' = base BY <1>3, <1>4, <1>5, <1>13 DEF Base
<1>16. /\ db.meta \in Metas /\ AtPlace(db.meta, h, base)
       /\ \A i \in 1..n : FrameCovered(h, base, i)
  BY <1>1, <1>5, <1>8, <1>9, <1>13, StoreIs DEF FramesOf, FramesCovered
<1>17. AtPlace(m, k, base) /\ \A i \in 1..n + 1 : FrameCovered(k, base, i)
  <2>1. k[n + 1].epoch = m.epoch /\ k[n + 1].frame = m.frame BY <1>6, <1>12
  <2>2. PICK p \in Metas : p = db.meta BY <1>16
  <2>3. AtPlace(p, h, base) BY <1>16, <2>2
  <2>4. \/ /\ m.epoch = p.epoch /\ m.frame = p.frame /\ p.position <= m.position
           /\ k[n + 1].sampled = SubSeq(m.frame, p.position + 1, m.position)
        \/ /\ m.epoch = p.epoch + 1 /\ p.position = Len(p.frame)
           /\ k[n + 1].sampled = SubSeq(m.frame, 1, m.position)
    BY <1>7, <1>12, <2>2
  <2> QED BY <1>7, <1>11, <1>14, <1>16, <2>1, <2>3, <2>4, CoveredNext
<1>18. Len(k) = n + 1 BY <1>11 DEF Grown
<1> QED BY <1>3, <1>10, <1>15, <1>17, <1>18 DEF FramesOf, FramesCovered

\* Who has selected rooms holds the lock.
LEMMA AdvancingNext ==
  ASSUME CycleInv, CycleInv', FramesOf, \A c \in Collectors : Advancing(c), [Next]_vars
  PROVE  \A c \in Collectors : Advancing(c)'
<1>1. TypeOK /\ Migrating /\ \A e \in Collectors : Holding(e)
  BY DEF CycleInv, MirrorHasStore
<1>2. SUFFICES ASSUME NEW c \in Collectors, cycle'[c].pc = "reading" PROVE Advancing(c)'
  BY DEF Advancing
<1>3. CASE cycle'[c] = cycle[c] /\ db' = db BY <1>3 DEF Advancing
<1>4. CASE cycle'[c] = cycle[c] /\ db' # db
  <2>1. cycle[c].pc = "reading" BY <1>2, <1>4
  <2>2. lock = c /\ migration = "off" /\ lock # None
    BY <1>1, <2>1, NoneIsNot DEF Holding
  <2>3. PICK d \in Collectors : Commit(d)
    BY <1>4, <2>2 DEF Next, vars, Load, LockFree, Select, Selected, Finish, Abort, Drain,
                      MigrationStart, MigrationCommit, MigrationFinish, MigrationFail,
                      MigrationKill
  <2>4. cycle[d].pc = "reading" /\ lock = d
    <3>1. cycle[d].pc = "reading" BY <2>3 DEF Commit
    <3> QED BY <1>1, <3>1 DEF Holding
  <2>5. d = c BY <2>2, <2>4
  <2>6. \E m : cycle' = [cycle EXCEPT ![c] = [pc |-> "committed", state |-> m]]
    BY <2>3, <2>5 DEF Commit
  <2>7. cycle'[c].pc = "committed" BY <1>1, <2>6 DEF TypeOK
  <2> QED BY <1>2, <2>7
<1>5. CASE cycle'[c] # cycle[c]
  <2>1. PICK d \in Collectors : Load(d) \/ Select(d) \/ Commit(d) \/ Finish(d) \/ Abort(d)
    BY <1>5 DEF Next, vars, Drain, MigrationStart, MigrationCommit, MigrationFinish,
                MigrationFail, MigrationKill
  <2>2. d = c
    <3>1. \E x : cycle' = [cycle EXCEPT ![d] = x]
      BY <2>1 DEF Load, Select, Commit, Finish, Abort
    <3> QED BY <1>1, <1>5, <3>1 DEF TypeOK
  <2>3. Select(c)
    <3>1. ASSUME NEW x, x.pc # "reading", cycle' = [cycle EXCEPT ![c] = x] PROVE FALSE
      <4>1. cycle'[c] = x BY <1>1, <3>1 DEF TypeOK
      <4> QED BY <1>2, <3>1, <4>1
    <3>2. ASSUME Load(c) PROVE FALSE
      <4>1. PICK x : x = [pc |-> "loaded", state |-> Loaded] OBVIOUS
      <4>2. x.pc # "reading" /\ cycle' = [cycle EXCEPT ![c] = x] BY <3>2, <4>1 DEF Load
      <4> QED BY <3>1, <4>2
    <3>3. ASSUME Commit(c) PROVE FALSE
      <4>1. PICK m : cycle' = [cycle EXCEPT ![c] = [pc |-> "committed", state |-> m]]
        BY <3>3 DEF Commit
      <4>2. PICK x : x = [pc |-> "committed", state |-> m] OBVIOUS
      <4>3. x.pc # "reading" /\ cycle' = [cycle EXCEPT ![c] = x] BY <4>1, <4>2
      <4> QED BY <3>1, <4>3
    <3>4. ASSUME Finish(c) \/ Abort(c) PROVE FALSE
      <4>1. cycle' = [cycle EXCEPT ![c] = Idle] BY <3>4 DEF Finish, Abort
      <4>2. Idle.pc # "reading" BY DEF Idle
      <4> QED BY <3>1, <4>1, <4>2
    <3> QED BY <2>1, <2>2, <3>2, <3>3, <3>4
  <2>4. PICK listing \in Listings, at \in 0..MaxClock :
          /\ cycle' = [cycle EXCEPT ![c] =
                         [pc |-> "reading", state |-> RoomSample(cycle[c].state, listing).state,
                          rooms |-> RoomSample(cycle[c].state, listing).slice, at |-> at]]
          /\ db' = db
    BY <2>3 DEF Select, Selected
  <2>5. cycle[c].pc = "loaded" /\ ~Exhausted(cycle[c].state) BY <2>3 DEF Select
  <2>6. db.meta # None /\ cycle[c].state = db.meta BY <1>1, <2>5 DEF Holding
  <2>7. PICK m \in Metas : m = db.meta BY <1>1, <2>6, StoreIs
  <2>8. m.position <= Len(m.frame) BY <2>6, <2>7 DEF FramesOf, AtPlace
  <2>9. PICK s : s = RoomSample(m, listing).state OBVIOUS
  <2>10. PICK r : r = RoomSample(m, listing).slice OBVIOUS
  <2>11. cycle'[c].state = s /\ cycle'[c].rooms = r
    <3>1. cycle'[c] = [pc |-> "reading", state |-> s, rooms |-> r, at |-> at]
      BY <1>1, <2>4, <2>6, <2>7, <2>9, <2>10 DEF TypeOK
    <3> QED BY <3>1
  <2>12. /\ s.position <= Len(s.frame)
         /\ \/ /\ s.epoch = m.epoch /\ s.frame = m.frame /\ m.position <= s.position
               /\ r = SubSeq(s.frame, m.position + 1, s.position)
            \/ /\ s.epoch = m.epoch + 1 /\ m.position = Len(m.frame)
               /\ r = SubSeq(s.frame, 1, s.position)
    BY <2>5, <2>6, <2>7, <2>8, <2>9, <2>10, SampleTakes
  <2>13. db'.meta = m BY <2>4, <2>7
  <2> QED BY <2>11, <2>12, <2>13 DEF Advancing
<1> QED BY <1>3, <1>4, <1>5

\* Nothing is committed yet.
LEMMA FramesInit ==
  ASSUME Init
  PROVE  FramesOf /\ \A c \in Collectors : Advancing(c)
<1>1. History = <<>> /\ db.meta = None BY EmptyIs DEF History, Init
<1>2. Len(History) = 0 BY <1>1, EmptySeq
<1>3. \A c \in Collectors : cycle[c].pc = "idle" BY DEF Init, Idle
<1> QED BY <1>1, <1>2, <1>3 DEF FramesOf, FramesCovered, Advancing

\* The place of the sampler follows from the committed ticks, and a cycle that
\* has selected rooms is one slice ahead.
THEOREM Frames ==
  Spec => []FrameInv
<1>1. FrameInv <=> CycleInv /\ FramesOf /\ \A c \in Collectors : Advancing(c)
  BY DEF FrameInv, FramesOf
<1>2. Init => FrameInv BY CycleInit, FramesInit, <1>1
<1>3. FrameInv /\ [Next]_vars => FrameInv'
  <2> SUFFICES ASSUME FrameInv, [Next]_vars PROVE FrameInv' OBVIOUS
  <2>1. CycleInv /\ FramesOf /\ \A c \in Collectors : Advancing(c) BY <1>1
  <2>2. CycleInv' BY <2>1, CycleNext
  <2>3. \A c \in Collectors : Advancing(c)' BY <2>1, <2>2, AdvancingNext
  <2>4. ASSUME NEW c \in Collectors, Commit(c) PROVE FramesOf'
    BY <2>1, <2>4, CommitFrames
  <2>5. ASSUME \/ \E c \in Collectors :
                    Load(c) \/ Select(c) \/ Finish(c) \/ Abort(c) \/ Drain(c)
               \/ MigrationStart \/ MigrationCommit \/ MigrationFinish
               \/ MigrationFail \/ MigrationKill \/ UNCHANGED vars
        PROVE  FramesOf'
    BY <2>1, <2>2, <2>5, FramesStay
  <2>6. FramesOf' BY <2>4, <2>5 DEF Next
  <2> QED BY <2>2, <2>3, <2>6 DEF FrameInv, FramesOf
<1> QED BY <1>2, <1>3, PTL DEF Spec

\* The ticks of an epoch sample its frame place by place, and the next epoch
\* begins when all of it was sampled, also after a migration in the middle of a
\* frame and whatever cycles failed in between (room_sample_names).
THEOREM FramesSampled ==
  Spec => []FramesCovered
<1>1. FrameInv => FramesCovered BY DEF FrameInv
<1> QED BY <1>1, Frames, PTL

-----------------------------------------------------------------------------
(* The upgrade of the schema.                                              *)

\* The places of the steps.
LEMMA Places ==
  /\ Order["refused"] = 0 /\ Order["search"] = 1 /\ Order["tables"] = 2 /\ Order["sha"] = 3
  /\ Order["outcome"] = 4 /\ Order["fillSha"] = 5 /\ Order["fillOutcome"] = 6
  /\ Order["generations"] = 7 /\ Order["agedOut"] = 8 /\ Order["triggers"] = 9
  /\ Order["dropping"] = 10 /\ Order["totals"] = 11 /\ Order["columns"] = 12
  /\ Order["drop"] = 13 /\ Order["create"] = 14 /\ Order["count"] = 15
  /\ Order["install"] = 16 /\ Order["current"] = 17 /\ Order["index"] = 18
  /\ Order["rebuild"] = 19 /\ Order["version"] = 20 /\ Order["ready"] = 21
BY DEF Order

\* The names of the steps.
LEMMA Names ==
  {"refused", "search", "tables", "sha", "outcome", "fillSha", "fillOutcome", "generations",
   "agedOut", "triggers", "dropping", "totals", "columns", "drop", "create", "count",
   "install", "current", "index", "rebuild", "version", "ready"} = DOMAIN Order
BY DEF Order

\* A start that has come to a step.
Going(step) ==
  /\ run.pc = step /\ run \in Run /\ Consistent(run.store) /\ Final(run.store)
  /\ Progress(run) /\ disk \in Store /\ began \in Store

\* The new values of a start that has come to a step.
LEMMA Started ==
  ASSUME SInv, NEW step, At(step)
  PROVE  Going(step)
BY DEF SInv, At, Going

\* Stores with several parts changed at once.
LEMMA NewParts ==
  ASSUME NEW s \in Store, NEW v \in {0, 3, 4, 5, Version},
         NEW x \in {"cooccurrence", "none", "alternation"}
  PROVE  /\ [s EXCEPT !.rooms = "byCreation", !.sha = "filled", !.outcome = "filled",
                      !.agedOut = TRUE] \in Store
         /\ [s EXCEPT !.rooms = "byCreation", !.agedOut = FALSE, !.search = "none"] \in Store
         /\ [s EXCEPT !.meta = v, !.version = Version] \in Store
         /\ [s EXCEPT !.meta = v, !.parties = x] \in Store
         /\ [s EXCEPT !.parties = x] \in Store
<1> DEFINE A == {0, 3, 4, 5, Version}
           B == {"none", "byName", "byCreation"}
           C == {"none", "null", "filled"}
           D == {"none", "some", "old", "current"}
           E == {"none", "old", "empty", "exact"}
           F == {"none", "old", "empty", "full"}
           G == {"cooccurrence", "none", "alternation"}
<1>1. Store = [version : A, meta : A, rooms : B, sha : C, outcome : C, agedOut : BOOLEAN,
               triggers : D, totals : E, search : F, parties : G]
  BY DEF Store
<1>2. Version \in A /\ "byCreation" \in B /\ "filled" \in C /\ "none" \in F /\ v \in A /\ x \in G
  OBVIOUS
<1> HIDE DEF A, B, C, D, E, F, G
<1> QED
  BY <1>1, <1>2

\* A start that goes on.
LEMMA Onward ==
  ASSUME SInv, NEW next \in DOMAIN Order \ {"ready"}, NEW new \in Run, NEW open \in BOOLEAN,
         Goes(next, new, open), Consistent(new.store), Final(new.store),
         Progress([new EXCEPT !.pc = next, !.open = open])
  PROVE  SInv' /\ disk'.parties = disk.parties
<1> DEFINE to == [new EXCEPT !.pc = next, !.open = open]
<1>1. /\ to \in Run /\ to.store = new.store /\ to.store \in Store /\ to.pc = next
  BY DEF Run
<1>2. /\ run' = to /\ UNCHANGED <<began, runs>>
      /\ (disk' = disk \/ disk' = to.store)
  BY <1>1 DEF Goes
<1> HIDE DEF to
<1>3. disk' \in Store /\ Consistent(disk') /\ Final(disk)'
  BY <1>1, <1>2 DEF SInv, Final
<1>4. disk'.parties = disk.parties
  BY <1>1, <1>2 DEF Progress, to
<1>5. ~Reached(to, "ready")
  BY <1>1, Places, Names DEF Reached
<1>6. Progress(run)'
  BY <1>2, <1>4, <1>5 DEF Progress, Reached, to
<1> QED
  BY <1>1, <1>2, <1>3, <1>4, <1>6 DEF SInv, Final

(***************************************************************************)
(* initialize_signer_database                                              *)
(***************************************************************************)

\* A case-insensitive search goes.
LEMMA DropSearchKept ==
  ASSUME SInv, DropSearch
  PROVE  SInv' /\ disk'.parties = disk.parties
<1>1. Going("search")
  BY Started DEF DropSearch, Ddl
<1> DEFINE new == WithIf(Sees("search") = "old", "search", "none")
<1>2. new \in Run /\ \E open \in BOOLEAN : Goes("tables", new, open)
  <2>1. new \in Run
    BY <1>1 DEF Going, WithIf, With, Sees, Run, Store, Version
  <2>2. \E open \in BOOLEAN : Goes("tables", new, open)
    BY <1>1 DEF DropSearch, Ddl, Going, Run
  <2> QED
    BY <2>1, <2>2
<1>3. PICK open \in BOOLEAN : Goes("tables", new, open)
  BY <1>2
<1>4. Consistent(new.store) /\ Final(new.store) /\ Progress([new EXCEPT !.pc = "tables", !.open = open])
  BY <1>1, Places DEF Going, WithIf, With, Sees, Run, Store, Consistent, Final, Complete, Progress, Reached, Version
<1> HIDE DEF new
<1> QED
  BY <1>2, <1>3, <1>4, Names, Onward

\* The tables that are missing.
LEMMA CreateTablesKept ==
  ASSUME SInv, CreateTables
  PROVE  SInv' /\ disk'.parties = disk.parties
<1>1. Going("tables")
  BY Started DEF CreateTables, Ddl
<1> DEFINE new == IF Sees("rooms") # "none" THEN run
                  ELSE [run EXCEPT !.store = [run.store EXCEPT
                          !.rooms = "byCreation", !.sha = "filled", !.outcome = "filled",
                          !.agedOut = TRUE]]
<1>2. new \in Run /\ \E open \in BOOLEAN : Goes("sha", new, open)
  <2>1. new \in Run
    <3>1. [run.store EXCEPT !.rooms = "byCreation", !.sha = "filled",
                        !.outcome = "filled", !.agedOut = TRUE] \in Store
      BY <1>1, NewParts DEF Going, With, Run
    <3>2. [run EXCEPT !.store = [run.store EXCEPT !.rooms = "byCreation", !.sha = "filled",
             !.outcome = "filled", !.agedOut = TRUE]] \in Run
      BY <1>1, <3>1 DEF Going, With, Run
    <3> QED
      BY <1>1, <3>1, <3>2 DEF Going, WithIf
  <2>2. \E open \in BOOLEAN : Goes("sha", new, open)
    BY <1>1 DEF CreateTables, Ddl, Going, Run
  <2> QED
    BY <2>1, <2>2
<1>3. PICK open \in BOOLEAN : Goes("sha", new, open)
  BY <1>2
<1>4. Consistent(new.store) /\ Final(new.store) /\ Progress([new EXCEPT !.pc = "sha", !.open = open])
  BY <1>1, Places DEF Going, WithIf, With, Sees, Run, Store, Consistent, Final, Complete, Progress, Reached, Version
<1> HIDE DEF new
<1> QED
  BY <1>2, <1>3, <1>4, Names, Onward

\* The digests, still empty.
LEMMA AddShaKept ==
  ASSUME SInv, AddSha
  PROVE  SInv' /\ disk'.parties = disk.parties
<1>1. Going("sha")
  BY Started DEF AddSha, Ddl
<1> DEFINE new == IF Sees("sha") # "none" THEN run
                  ELSE [With("sha", "null") EXCEPT !.shaMissing = TRUE]
<1>2. new \in Run /\ \E open \in BOOLEAN : Goes("outcome", new, open)
  <2>1. new \in Run
    <3>1. With("sha", "null") \in Run
      BY <1>1 DEF Going, With, Run, Store
    <3>2. [With("sha", "null") EXCEPT !.shaMissing = TRUE] \in Run
      BY <1>1, <3>1 DEF Going, With, Run
    <3> QED
      BY <1>1, <3>1, <3>2 DEF Going, WithIf
  <2>2. \E open \in BOOLEAN : Goes("outcome", new, open)
    BY <1>1 DEF AddSha, Ddl, Going, Run
  <2> QED
    BY <2>1, <2>2
<1>3. PICK open \in BOOLEAN : Goes("outcome", new, open)
  BY <1>2
<1>4. Consistent(new.store) /\ Final(new.store) /\ Progress([new EXCEPT !.pc = "outcome", !.open = open])
  BY <1>1, Places DEF Going, WithIf, With, Sees, Run, Store, Consistent, Final, Complete, Progress, Reached, Version
<1> HIDE DEF new
<1> QED
  BY <1>2, <1>3, <1>4, Names, Onward

\* The outcomes, still empty.
LEMMA AddOutcomeKept ==
  ASSUME SInv, AddOutcome
  PROVE  SInv' /\ disk'.parties = disk.parties
<1>1. Going("outcome")
  BY Started DEF AddOutcome, Ddl
<1> DEFINE new == IF Sees("outcome") # "none" THEN run
                  ELSE [With("outcome", "null") EXCEPT !.outcomeMissing = TRUE]
<1>2. new \in Run /\ \E open \in BOOLEAN : Goes("fillSha", new, open)
  <2>1. new \in Run
    <3>1. With("outcome", "null") \in Run
      BY <1>1 DEF Going, With, Run, Store
    <3>2. [With("outcome", "null") EXCEPT !.outcomeMissing = TRUE] \in Run
      BY <1>1, <3>1 DEF Going, With, Run
    <3> QED
      BY <1>1, <3>1, <3>2 DEF Going, WithIf
  <2>2. \E open \in BOOLEAN : Goes("fillSha", new, open)
    BY <1>1 DEF AddOutcome, Ddl, Going, Run
  <2> QED
    BY <2>1, <2>2
<1>3. PICK open \in BOOLEAN : Goes("fillSha", new, open)
  BY <1>2
<1>4. Consistent(new.store) /\ Final(new.store) /\ Progress([new EXCEPT !.pc = "fillSha", !.open = open])
  BY <1>1, Places DEF Going, WithIf, With, Sees, Run, Store, Consistent, Final, Complete, Progress, Reached, Version
<1> HIDE DEF new
<1> QED
  BY <1>2, <1>3, <1>4, Names, Onward

\* The digests of the rooms.
LEMMA FillShaKept ==
  ASSUME SInv, FillSha
  PROVE  SInv' /\ disk'.parties = disk.parties
<1>1. Going("fillSha")
  BY Started DEF FillSha, Dml
<1> DEFINE new == WithIf(run.shaMissing, "sha", "filled")
<1>2. new \in Run /\ \E open \in BOOLEAN : Goes("fillOutcome", new, open)
  <2>1. new \in Run
    BY <1>1 DEF Going, WithIf, With, Sees, Run, Store, Version
  <2>2. \E open \in BOOLEAN : Goes("fillOutcome", new, open)
    BY <1>1 DEF FillSha, Dml, Going, Run
  <2> QED
    BY <2>1, <2>2
<1>3. PICK open \in BOOLEAN : Goes("fillOutcome", new, open)
  BY <1>2
<1>4. Consistent(new.store) /\ Final(new.store) /\ Progress([new EXCEPT !.pc = "fillOutcome", !.open = open])
  BY <1>1, Places DEF Going, WithIf, With, Sees, Run, Store, Consistent, Final, Complete, Progress, Reached, Version
<1> HIDE DEF new
<1> QED
  BY <1>2, <1>3, <1>4, Names, Onward

\* The outcomes of the rooms.
LEMMA FillOutcomeKept ==
  ASSUME SInv, FillOutcome
  PROVE  SInv' /\ disk'.parties = disk.parties
<1>1. Going("fillOutcome")
  BY Started DEF FillOutcome, Dml
<1> DEFINE new == WithIf(run.outcomeMissing, "outcome", "filled")
<1>2. new \in Run /\ \E open \in BOOLEAN : Goes("generations", new, open)
  <2>1. new \in Run
    BY <1>1 DEF Going, WithIf, With, Sees, Run, Store, Version
  <2>2. \E open \in BOOLEAN : Goes("generations", new, open)
    BY <1>1 DEF FillOutcome, Dml, Going, Run
  <2> QED
    BY <2>1, <2>2
<1>3. PICK open \in BOOLEAN : Goes("generations", new, open)
  BY <1>2
<1>4. Consistent(new.store) /\ Final(new.store) /\ Progress([new EXCEPT !.pc = "generations", !.open = open])
  BY <1>1, Places DEF Going, WithIf, With, Sees, Run, Store, Consistent, Final, Complete, Progress, Reached, Version
<1> HIDE DEF new
<1> QED
  BY <1>2, <1>3, <1>4, Names, Onward

\* _migrate_room_generation_schema, in one transaction.
LEMMA GenerationsKept ==
  ASSUME SInv, Generations
  PROVE  SInv' /\ disk'.parties = disk.parties
<1>1. Going("generations") /\ (Sees("rooms") = "byName" => RowsValid)
  BY Started DEF Generations, Commits, Sees
<1> DEFINE new == IF Sees("rooms") # "byName" THEN run
                  ELSE [run EXCEPT !.store = [@ EXCEPT !.rooms = "byCreation", !.agedOut = FALSE,
                                                       !.search = "none"],
                                   !.searched = FALSE]
<1>2. new \in Run /\ \E open \in BOOLEAN : Goes("agedOut", new, open)
  <2>1. new \in Run
    <3>1. [run.store EXCEPT !.rooms = "byCreation", !.agedOut = FALSE, !.search = "none"] \in Store
      BY <1>1, NewParts DEF Going, With, Run
    <3>2. [run EXCEPT !.store = [@ EXCEPT !.rooms = "byCreation", !.agedOut = FALSE,
                                           !.search = "none"],
                      !.searched = FALSE] \in Run
      BY <1>1, <3>1 DEF Going, With, Run
    <3> QED
      BY <1>1, <3>1, <3>2 DEF Going, WithIf
  <2>2. \E open \in BOOLEAN : Goes("agedOut", new, open)
    BY <1>1 DEF Generations, Commits, Going, Run
  <2> QED
    BY <2>1, <2>2
<1>3. PICK open \in BOOLEAN : Goes("agedOut", new, open)
  BY <1>2
<1>4. Consistent(new.store) /\ Final(new.store) /\ Progress([new EXCEPT !.pc = "agedOut", !.open = open])
  BY <1>1, Places DEF Going, WithIf, With, Sees, Run, Store, Consistent, Final, Complete, Progress, Reached, Version, RowsValid
<1> HIDE DEF new
<1> QED
  BY <1>2, <1>3, <1>4, Names, Onward

\* The counter of rooms that are too old.
LEMMA AddAgedOutKept ==
  ASSUME SInv, AddAgedOut
  PROVE  SInv' /\ disk'.parties = disk.parties
<1>1. Going("agedOut")
  BY Started DEF AddAgedOut, Ddl
<1> DEFINE new == WithIf(~Sees("agedOut"), "agedOut", TRUE)
<1>2. new \in Run /\ \E open \in BOOLEAN : Goes("triggers", new, open)
  <2>1. new \in Run
    <3>1. With("agedOut", TRUE) \in Run
      BY <1>1 DEF Going, With, Run, Store
    <3> QED
      BY <1>1, <3>1 DEF Going, WithIf
  <2>2. \E open \in BOOLEAN : Goes("triggers", new, open)
    BY <1>1 DEF AddAgedOut, Ddl, Going, Run
  <2> QED
    BY <2>1, <2>2
<1>3. PICK open \in BOOLEAN : Goes("triggers", new, open)
  BY <1>2
<1>4. Consistent(new.store) /\ Final(new.store) /\ Progress([new EXCEPT !.pc = "triggers", !.open = open])
  BY <1>1, Places DEF Going, WithIf, With, Sees, Run, Store, Consistent, Final, Complete, Progress, Reached, Version
<1> HIDE DEF new
<1> QED
  BY <1>2, <1>3, <1>4, Names, Onward

(***************************************************************************)
(* _initialize_room_lifecycle_rollup                                       *)
(***************************************************************************)

\* Triggers of an earlier release.
LEMMA DropTriggersOnceKept ==
  ASSUME SInv, DropTriggersOnce
  PROVE  SInv' /\ disk'.parties = disk.parties
<1>1. Going("triggers") /\ Sees("triggers") = "old"
  BY Started DEF DropTriggersOnce, Sees
<1> DEFINE new == With("triggers", "some")
<1>2. new \in Run /\ \E open \in BOOLEAN : Goes("dropping", new, open)
  <2>1. new \in Run
    BY <1>1 DEF Going, WithIf, With, Sees, Run, Store, Version
  <2>2. \E open \in BOOLEAN : Goes("dropping", new, open)
    BY <1>1 DEF DropTriggersOnce, Going, Run
  <2> QED
    BY <2>1, <2>2
<1>3. PICK open \in BOOLEAN : Goes("dropping", new, open)
  BY <1>2
<1>4. Consistent(new.store) /\ Final(new.store) /\ Progress([new EXCEPT !.pc = "dropping", !.open = open])
  BY <1>1, Places DEF Going, WithIf, With, Sees, Run, Store, Consistent, Final, Complete, Progress, Reached, Version
<1> HIDE DEF new
<1> QED
  BY <1>2, <1>3, <1>4, Names, Onward

\* Whether all the current triggers and the totals are there.
LEMMA KeptTriggersKept ==
  ASSUME SInv, KeptTriggers
  PROVE  SInv' /\ disk'.parties = disk.parties
<1>1. Going("triggers") /\ Sees("triggers") # "old"
  BY Started DEF KeptTriggers, Sees
<1> DEFINE new == [run EXCEPT !.kept = Sees("triggers") = "current" /\ Sees("totals") # "none"]
<1>2. new \in Run /\ \E open \in BOOLEAN : Goes("totals", new, open)
  <2>1. new \in Run
    BY <1>1 DEF Going, WithIf, With, Sees, Run, Store, Version
  <2>2. \E open \in BOOLEAN : Goes("totals", new, open)
    BY <1>1 DEF KeptTriggers, Going, Run
  <2> QED
    BY <2>1, <2>2
<1>3. PICK open \in BOOLEAN : Goes("totals", new, open)
  BY <1>2
<1>4. Consistent(new.store) /\ Final(new.store) /\ Progress([new EXCEPT !.pc = "totals", !.open = open])
  BY <1>1, Places DEF Going, WithIf, With, Sees, Run, Store, Consistent, Final, Complete, Progress, Reached, Version
<1> HIDE DEF new
<1> QED
  BY <1>2, <1>3, <1>4, Names, Onward

\* The rest of the earlier triggers.
LEMMA DropTriggersKept ==
  ASSUME SInv, DropTriggers
  PROVE  SInv' /\ disk'.parties = disk.parties
<1>1. Going("dropping")
  BY Started DEF DropTriggers, Ddl
<1> DEFINE new == With("triggers", "none")
<1>2. new \in Run /\ \E open \in BOOLEAN : Goes("totals", new, open)
  <2>1. new \in Run
    BY <1>1 DEF Going, WithIf, With, Sees, Run, Store, Version
  <2>2. \E open \in BOOLEAN : Goes("totals", new, open)
    BY <1>1 DEF DropTriggers, Ddl, Going, Run
  <2> QED
    BY <2>1, <2>2
<1>3. PICK open \in BOOLEAN : Goes("totals", new, open)
  BY <1>2
<1>4. Consistent(new.store) /\ Final(new.store) /\ Progress([new EXCEPT !.pc = "totals", !.open = open])
  BY <1>1, Places DEF Going, WithIf, With, Sees, Run, Store, Consistent, Final, Complete, Progress, Reached, Version
<1> HIDE DEF new
<1> QED
  BY <1>2, <1>3, <1>4, Names, Onward

\* A table of totals, still empty.
LEMMA CreateTotalsKept ==
  ASSUME SInv, CreateTotals
  PROVE  SInv' /\ disk'.parties = disk.parties
<1>1. Going("totals")
  BY Started DEF CreateTotals, Ddl
<1> DEFINE new == WithIf(Sees("totals") = "none", "totals", "empty")
<1>2. new \in Run /\ \E open \in BOOLEAN : Goes("columns", new, open)
  <2>1. new \in Run
    BY <1>1 DEF Going, WithIf, With, Sees, Run, Store, Version
  <2>2. \E open \in BOOLEAN : Goes("columns", new, open)
    BY <1>1 DEF CreateTotals, Ddl, Going, Run
  <2> QED
    BY <2>1, <2>2
<1>3. PICK open \in BOOLEAN : Goes("columns", new, open)
  BY <1>2
<1>4. Consistent(new.store) /\ Final(new.store) /\ Progress([new EXCEPT !.pc = "columns", !.open = open])
  BY <1>1, Places DEF Going, WithIf, With, Sees, Run, Store, Consistent, Final, Complete, Progress, Reached, Version
<1> HIDE DEF new
<1> QED
  BY <1>2, <1>3, <1>4, Names, Onward

\* Totals of an earlier release.
LEMMA DropTotalsKept ==
  ASSUME SInv, DropTotals
  PROVE  SInv' /\ disk'.parties = disk.parties
<1>1. Going("drop")
  BY Started DEF DropTotals, Ddl
<1> DEFINE new == With("totals", "none")
<1>2. new \in Run /\ \E open \in BOOLEAN : Goes("create", new, open)
  <2>1. new \in Run
    BY <1>1 DEF Going, WithIf, With, Sees, Run, Store, Version
  <2>2. \E open \in BOOLEAN : Goes("create", new, open)
    BY <1>1 DEF DropTotals, Ddl, Going, Run
  <2> QED
    BY <2>1, <2>2
<1>3. PICK open \in BOOLEAN : Goes("create", new, open)
  BY <1>2
<1>4. Consistent(new.store) /\ Final(new.store) /\ Progress([new EXCEPT !.pc = "create", !.open = open])
  BY <1>1, Places DEF Going, WithIf, With, Sees, Run, Store, Consistent, Final, Complete, Progress, Reached, Version
<1> HIDE DEF new
<1> QED
  BY <1>2, <1>3, <1>4, Names, Onward

\* Their new table.
LEMMA CreateNewTotalsKept ==
  ASSUME SInv, CreateNewTotals
  PROVE  SInv' /\ disk'.parties = disk.parties
<1>1. Going("create")
  BY Started DEF CreateNewTotals, Ddl
<1> DEFINE new == With("totals", "empty")
<1>2. new \in Run /\ \E open \in BOOLEAN : Goes("count", new, open)
  <2>1. new \in Run
    BY <1>1 DEF Going, WithIf, With, Sees, Run, Store, Version
  <2>2. \E open \in BOOLEAN : Goes("count", new, open)
    BY <1>1 DEF CreateNewTotals, Ddl, Going, Run
  <2> QED
    BY <2>1, <2>2
<1>3. PICK open \in BOOLEAN : Goes("count", new, open)
  BY <1>2
<1>4. Consistent(new.store) /\ Final(new.store) /\ Progress([new EXCEPT !.pc = "count", !.open = open])
  BY <1>1, Places DEF Going, WithIf, With, Sees, Run, Store, Consistent, Final, Complete, Progress, Reached, Version
<1> HIDE DEF new
<1> QED
  BY <1>2, <1>3, <1>4, Names, Onward

\* The totals are counted, unless they were kept.
LEMMA CountKept ==
  ASSUME SInv, Count
  PROVE  SInv' /\ disk'.parties = disk.parties
<1>1. Going("count")
  BY Started DEF Count, Dml
<1> DEFINE new == WithIf(NeedsBackfill, "totals", "exact")
<1>2. new \in Run /\ \E open \in BOOLEAN : Goes("install", new, open)
  <2>1. new \in Run
    BY <1>1 DEF Going, WithIf, With, Sees, Run, Store, Version, NeedsBackfill
  <2>2. \E open \in BOOLEAN : Goes("install", new, open)
    BY <1>1 DEF Count, Dml, Going, Run
  <2> QED
    BY <2>1, <2>2
<1>3. PICK open \in BOOLEAN : Goes("install", new, open)
  BY <1>2
<1>4. Consistent(new.store) /\ Final(new.store) /\ Progress([new EXCEPT !.pc = "install", !.open = open])
  BY <1>1, Places DEF Going, WithIf, With, Sees, Run, Store, Consistent, Final, Complete, Progress, Reached, Version, NeedsBackfill
<1> HIDE DEF new
<1> QED
  BY <1>2, <1>3, <1>4, Names, Onward

\* The triggers that all releases share.
LEMMA InstallKept ==
  ASSUME SInv, Install
  PROVE  SInv' /\ disk'.parties = disk.parties
<1>1. Going("install")
  BY Started DEF Install, Commits
<1> DEFINE new == WithIf(Sees("triggers") = "none", "triggers", "some")
<1>2. new \in Run /\ \E open \in BOOLEAN : Goes("current", new, open)
  <2>1. new \in Run
    BY <1>1 DEF Going, WithIf, With, Sees, Run, Store, Version
  <2>2. \E open \in BOOLEAN : Goes("current", new, open)
    BY <1>1 DEF Install, Commits, Going, Run
  <2> QED
    BY <2>1, <2>2
<1>3. PICK open \in BOOLEAN : Goes("current", new, open)
  BY <1>2
<1>4. Consistent(new.store) /\ Final(new.store) /\ Progress([new EXCEPT !.pc = "current", !.open = open])
  BY <1>1, Places DEF Going, WithIf, With, Sees, Run, Store, Consistent, Final, Complete, Progress, Reached, Version
<1> HIDE DEF new
<1> QED
  BY <1>2, <1>3, <1>4, Names, Onward

\* The current triggers.
LEMMA InstallRestKept ==
  ASSUME SInv, InstallRest
  PROVE  SInv' /\ disk'.parties = disk.parties
<1>1. Going("current")
  BY Started DEF InstallRest, Ddl
<1> DEFINE new == With("triggers", "current")
<1>2. new \in Run /\ \E open \in BOOLEAN : Goes("index", new, open)
  <2>1. new \in Run
    BY <1>1 DEF Going, WithIf, With, Sees, Run, Store, Version
  <2>2. \E open \in BOOLEAN : Goes("index", new, open)
    BY <1>1 DEF InstallRest, Ddl, Going, Run
  <2> QED
    BY <2>1, <2>2
<1>3. PICK open \in BOOLEAN : Goes("index", new, open)
  BY <1>2
<1>4. Consistent(new.store) /\ Final(new.store) /\ Progress([new EXCEPT !.pc = "index", !.open = open])
  BY <1>1, Places DEF Going, WithIf, With, Sees, Run, Store, Consistent, Final, Complete, Progress, Reached, Version
<1> HIDE DEF new
<1> QED
  BY <1>2, <1>3, <1>4, Names, Onward

(***************************************************************************)
(* The search index, the metadata and the version.                         *)
(***************************************************************************)

\* A search index, still without its rows.
LEMMA CreateSearchKept ==
  ASSUME SInv, CreateSearch
  PROVE  SInv' /\ disk'.parties = disk.parties
<1>1. Going("index")
  BY Started DEF CreateSearch, Commits
<1> DEFINE new == WithIf(Sees("search") = "none", "search", "empty")
<1>2. new \in Run /\ \E open \in BOOLEAN : Goes("rebuild", new, open)
  <2>1. new \in Run
    BY <1>1 DEF Going, WithIf, With, Sees, Run, Store, Version
  <2>2. \E open \in BOOLEAN : Goes("rebuild", new, open)
    BY <1>1 DEF CreateSearch, Commits, Going, Run
  <2> QED
    BY <2>1, <2>2
<1>3. PICK open \in BOOLEAN : Goes("rebuild", new, open)
  BY <1>2
<1>4. Consistent(new.store) /\ Final(new.store) /\ Progress([new EXCEPT !.pc = "rebuild", !.open = open])
  BY <1>1, Places DEF Going, WithIf, With, Sees, Run, Store, Consistent, Final, Complete, Progress, Reached, Version
<1> HIDE DEF new
<1> QED
  BY <1>2, <1>3, <1>4, Names, Onward

\* Its rows, for every start that has a version to set.
LEMMA RebuildKept ==
  ASSUME SInv, Rebuild
  PROVE  SInv' /\ disk'.parties = disk.parties
<1>1. Going("rebuild")
  BY Started DEF Rebuild, Dml
<1> DEFINE new == WithIf(NeedsRebuild, "search", "full")
<1>2. new \in Run /\ \E open \in BOOLEAN : Goes("version", new, open)
  <2>1. new \in Run
    BY <1>1 DEF Going, WithIf, With, Sees, Run, Store, Version, NeedsRebuild
  <2>2. \E open \in BOOLEAN : Goes("version", new, open)
    BY <1>1 DEF Rebuild, Dml, Going, Run
  <2> QED
    BY <2>1, <2>2
<1>3. PICK open \in BOOLEAN : Goes("version", new, open)
  BY <1>2
<1>4. Consistent(new.store) /\ Final(new.store) /\ Progress([new EXCEPT !.pc = "version", !.open = open])
  BY <1>1, Places DEF Going, WithIf, With, Sees, Run, Store, Consistent, Final, Complete, Progress, Reached, Version, NeedsRebuild
<1> HIDE DEF new
<1> QED
  BY <1>2, <1>3, <1>4, Names, Onward

\* Totals without a column: the triggers go first.
LEMMA DropOldTotalsKept ==
  ASSUME SInv, DropOldTotals
  PROVE  SInv' /\ disk'.parties = disk.parties
<1>1. Going("columns") /\ run.open \in BOOLEAN
  BY Started DEF DropOldTotals, Going, Run
<1>2. CASE Sees("totals") # "old"
  <2>1. Goes("count", run, run.open) /\ run \in Run
    BY <1>1, <1>2 DEF DropOldTotals, Going
  <2>2. Progress([run EXCEPT !.pc = "count", !.open = run.open])
    BY <1>1, <1>2, Places DEF Going, Sees, Run, Progress, Reached
  <2> QED
    BY <1>1, <2>1, <2>2, Names, Onward DEF Going
<1>3. CASE Sees("totals") = "old"
  <2> DEFINE new == [With("triggers", "none") EXCEPT !.kept = FALSE]
  <2>1. new \in Run
    <3>1. With("triggers", "none") \in Run
      BY <1>1 DEF Going, With, Run, Store
    <3> QED
      BY <3>1 DEF Run
  <2>2. Goes("drop", new, run.open)
    BY <1>3 DEF DropOldTotals
  <2>3. Consistent(new.store) /\ Final(new.store) /\ Progress([new EXCEPT !.pc = "drop", !.open = run.open])
    BY <1>1, <1>3, Places DEF Going, With, Sees, Run, Store, Consistent, Final, Complete, Progress,
                             Reached, Version
  <2> HIDE DEF new
  <2> QED
    BY <1>1, <2>1, <2>2, <2>3, Names, Onward
<1> QED
  BY <1>2, <1>3

\* The version is set and the metadata upgraded: the store is whole.
LEMMA SetVersionKept ==
  ASSUME SInv, SetVersion
  PROVE  /\ SInv'
         /\ disk.parties = "alternation" => disk'.parties = "alternation"
<1> DEFINE store == Upgraded
           to == [run EXCEPT !.store = store, !.pc = "ready", !.open = FALSE]
<1>1. Going("version") /\ MetaValid
  BY Started DEF SetVersion
<1>2. store \in Store
  <2> DEFINE meta == IF run.version \in {3, 4, 5} /\ run.store.meta # 0 THEN Version
                     ELSE run.store.meta
             new == [run.store EXCEPT !.meta = meta, !.version = Version]
  <2>1. run.store \in Store /\ meta \in {0, 3, 4, 5, Version}
    BY <1>1 DEF Going, Run, Store
  <2> HIDE DEF meta
  <2>2. new \in Store
    BY <2>1, NewParts
  <2>3. store = IF Forgets(run.version) THEN [new EXCEPT !.parties = "none"] ELSE new
    BY DEF Upgraded, meta
  <2> HIDE DEF new, store
  <2> QED
    BY <2>2, <2>3, NewParts
<1>3. /\ store.version = Version /\ Complete(store) /\ Consistent(store)
      /\ store.parties = IF run.version = 3 THEN "none" ELSE run.store.parties
      /\ store.search = run.store.search
  BY <1>1, Places DEF Going, Upgraded, Forgets, MetaValid, Sees, Run, Store, Consistent, Complete,
                     Progress, Reached, Version
<1>4. Final(store)
  <2>1. run.version = Version => Final(store)
    BY <1>1, <1>3 DEF Going, Final, Progress
  <2>2. run.version # Version => store.search = "full"
    BY <1>1, <1>3, Places DEF Going, Progress, Reached
  <2> QED
    BY <1>3, <2>1, <2>2 DEF Final
<1>5. run' = to /\ disk' = store /\ UNCHANGED <<began, runs>>
  <2>1. Goes("ready", [run EXCEPT !.store = store], FALSE)
    BY DEF SetVersion, Commits
  <2> HIDE DEF store
  <2> QED
    BY <1>1, <2>1 DEF Goes, Going, Run
<1> HIDE DEF store
<1>6. to \in Run /\ to.store = store /\ to.pc = "ready" /\ to.version = run.version
      /\ to.kept = run.kept
  BY <1>1, <1>2, Names DEF Going, Run
<1> HIDE DEF to
<1>7. Progress(run)'
  <2>1. run.kept => Reached(to, "totals") /\ store.triggers = "current"
    BY <1>3, <1>6, Places DEF Complete, Reached
  <2>2. Reached(to, "version") /\ run.version # Version => store.search = "full"
    BY <1>1, <1>3, Places DEF Going, Progress, Reached
  <2> QED
    BY <1>3, <1>5, <1>6, <2>1, <2>2, Places DEF Progress, Reached, Complete
<1>8. disk.parties = "alternation" => disk'.parties = "alternation"
  BY <1>1, <1>3, <1>5 DEF Going, Progress, Consistent
<1> QED
  BY <1>2, <1>3, <1>4, <1>5, <1>6, <1>7, <1>8 DEF SInv, Final

(***************************************************************************)
(* The life of a start.                                                    *)
(***************************************************************************)

\* A start sees what is committed.
LEMMA StartKept ==
  ASSUME SInv, Start
  PROVE  SInv'
<1>1. /\ run' = [pc |-> "search", open |-> FALSE, store |-> disk, version |-> disk.version,
                 searched |-> disk.search \in {"empty", "full"},
                 shaMissing |-> FALSE, outcomeMissing |-> FALSE, kept |-> FALSE]
      /\ UNCHANGED <<began, disk>> /\ runs' = runs + 1 /\ runs < MaxRuns
  BY DEF Start
<1>2. runs' \in 0..MaxRuns
  BY <1>1, SchemaAssumption DEF SInv
<1>3. /\ disk \in Store /\ disk.version \in {0, 3, 4, 5, Version}
      /\ (disk.search \in {"empty", "full"}) \in BOOLEAN
  BY DEF SInv, Store
<1>4. run' \in Run
  BY <1>1, <1>3, Names DEF Run
<1>5. Progress(run)'
  <2>1. run'.pc = "search" /\ run'.store = disk /\ run'.version = disk.version /\ ~run'.kept
    BY <1>1
  <2> QED
    BY <1>1, <2>1, Places DEF Progress, Reached
<1> QED
  BY <1>1, <1>2, <1>4, <1>5 DEF SInv, Final

\* A refused start commits nothing.
LEMMA RefuseKept ==
  ASSUME SInv, Refuse
  PROVE  SInv'
<1>1. /\ run \in Run /\ run' = [run EXCEPT !.pc = "refused"] /\ UNCHANGED <<began, disk, runs>>
      /\ run.pc \in {"generations", "count", "version"} /\ Progress(run)
      /\ Consistent(run.store) /\ Final(run.store)
  BY DEF SInv, Refuse, Refused, At
<1>2. run' \in Run /\ run'.store = run.store /\ run'.pc = "refused" /\ run'.version = run.version
      /\ run'.kept = run.kept
  BY <1>1, Names DEF Run
<1>3. Progress(run)'
  BY <1>1, <1>2, Places DEF Progress, Reached
<1> QED
  BY <1>1, <1>2, <1>3 DEF SInv, Final

\* A tick of a collector that is ready.
LEMMA CommitTickKept ==
  ASSUME SInv, CommitTick
  PROVE  /\ SInv'
         /\ disk.parties = "alternation" => disk'.parties = "alternation"
<1>1. Going("ready") /\ UNCHANGED <<began, run, runs>>
      /\ disk' = [disk EXCEPT !.meta = Version, !.parties = "alternation"]
  BY Started DEF CommitTick
<1>2. Complete(disk) /\ disk \in Store
  BY <1>1, Places DEF Going, Progress, Reached
<1>3. /\ disk' \in Store /\ Complete(disk') /\ Consistent(disk') /\ disk'.parties = "alternation"
      /\ disk'.search = disk.search /\ disk'.version = disk.version
  <2>1. disk' \in Store
    BY <1>1, <1>2, NewParts
  <2> QED
    BY <1>1, <1>2, <2>1 DEF Store, Complete, Consistent, Version
<1>4. Final(disk)'
  BY <1>1, <1>3 DEF SInv, Final
<1>5. Progress(run)'
  BY <1>1, <1>3 DEF Going, Progress, Reached
<1> QED
  BY <1>1, <1>3, <1>4, <1>5 DEF SInv, Final

\* What earlier releases left.
LEMMA SInvInit ==
  ASSUME UpgradeInit
  PROVE  SInv
<1>1. began \in Store /\ Consistent(began) /\ disk = began /\ run = NoStart /\ runs = 0
  BY SchemaAssumption DEF UpgradeInit
<1>2. runs \in 0..MaxRuns
  BY <1>1, SchemaAssumption
<1> QED
  BY <1>1, <1>2 DEF SInv, Final

\* Every step keeps the invariant, and none forgets an alternation.
LEMMA SInvNext ==
  ASSUME SInv, [UpgradeNext]_upgradeVars
  PROVE  /\ SInv'
         /\ disk.parties = "alternation" => disk'.parties = "alternation"
<1>1. CASE UNCHANGED upgradeVars
  <2>1. UNCHANGED <<began, disk, run, runs>>
    BY <1>1 DEF upgradeVars
  <2> QED
    BY <2>1 DEF SInv, Final, Progress
<1>2. CASE Start
  BY <1>2, StartKept DEF Start
<1>3. CASE End
  BY <1>3 DEF End, SInv, Final
<1>4. CASE Refuse
  BY <1>4, RefuseKept DEF Refuse
<1>5. CASE CommitTick
  BY <1>5, CommitTickKept
<1>6. CASE SetVersion
  BY <1>6, SetVersionKept
<1>7. CASE \/ DropSearch \/ CreateTables \/ AddSha \/ AddOutcome \/ FillSha \/ FillOutcome
           \/ Generations \/ AddAgedOut \/ DropTriggersOnce \/ KeptTriggers \/ DropTriggers
           \/ CreateTotals \/ DropOldTotals \/ DropTotals \/ CreateNewTotals \/ Count
           \/ Install \/ InstallRest \/ CreateSearch \/ Rebuild
  BY <1>7, DropSearchKept, CreateTablesKept, AddShaKept, AddOutcomeKept, FillShaKept, FillOutcomeKept,
     GenerationsKept, AddAgedOutKept, DropTriggersOnceKept, KeptTriggersKept, DropTriggersKept,
     CreateTotalsKept, DropOldTotalsKept, DropTotalsKept, CreateNewTotalsKept, CountKept,
     InstallKept, InstallRestKept, CreateSearchKept, RebuildKept
<1> QED
  BY <1>1, <1>2, <1>3, <1>4, <1>5, <1>6, <1>7 DEF UpgradeNext

(***************************************************************************)
(* The theorems.                                                           *)
(***************************************************************************)

\* The inductive invariant: every store that is committed, by whatever start
\* and however it ended, is one that an earlier release could have left or one
\* on the way to the current schema.
THEOREM Upgrade == UpgradeSpec => []SInv
<1>1. UpgradeInit => SInv
  BY SInvInit
<1>2. SInv /\ [UpgradeNext]_upgradeVars => SInv'
  BY SInvNext
<1> QED
  BY <1>1, <1>2, PTL DEF UpgradeSpec

\* A collector that is ready works on a store with every table, column and
\* trigger of the current schema and with exact totals.
THEOREM ReadyIsWhole == UpgradeSpec => []ReadyIsComplete
<1>1. SInv => ReadyIsComplete
  <2> SUFFICES ASSUME SInv PROVE ReadyIsComplete
    OBVIOUS
  <2>1. UpgradeTypeOK
    BY DEF SInv, UpgradeTypeOK, Run, Consistent
  <2>2. At("ready") => Complete(disk)
    BY Places DEF At, SInv, Progress, Reached
  <2> QED
    BY <2>1, <2>2 DEF ReadyIsComplete
<1> QED
  BY <1>1, Upgrade, PTL

\* A store older than version 6 gets that version only when it is complete and
\* its search finds every room.
THEOREM VersionSetLast == UpgradeSpec => []VersionIsLast
<1>1. SInv => VersionIsLast
  BY DEF SInv, Final, VersionIsLast
<1> QED
  BY <1>1, Upgrade, PTL

\* The upgrade forgets the co-occurrences of version 3 and no alternation.
THEOREM AlternationsKept == UpgradeSpec => AlternationsStay
<1>1. SInv /\ [UpgradeNext]_upgradeVars =>
        [/\ disk.parties = "alternation" => disk'.parties = "alternation"
         /\ disk'.version = Version => disk'.parties # "cooccurrence"]_upgradeVars
  <2> SUFFICES ASSUME SInv, [UpgradeNext]_upgradeVars
               PROVE  /\ disk.parties = "alternation" => disk'.parties = "alternation"
                      /\ disk'.version = Version => disk'.parties # "cooccurrence"
    OBVIOUS
  <2>1. disk'.version = Version => disk'.parties # "cooccurrence"
    BY SInvNext DEF SInv, Consistent, Version
  <2> QED
    BY <2>1, SInvNext
<1> QED
  BY <1>1, Upgrade, PTL DEF UpgradeSpec, AlternationsStay
=============================================================================
