------------------------ MODULE RoomLifecycleProofs ------------------------
(***************************************************************************)
(* The room lifecycle for every set of collectors, names, classes, stages  *)
(* and events.  The inductive invariant LInv adds two facts to the three   *)
(* that the runs check: what the tick under way has planned still holds of *)
(* the store (Planned), and the store's times bound what its rows have     *)
(* settled (Settled).  The sums of the rollup are handled by their value   *)
(* on the empty set and with one more element; what needs induction over a *)
(* finite set is proved with a smallest counterexample.                    *)
(***************************************************************************)
EXTENDS RoomLifecycle, FiniteSetTheorems, WellFoundedInduction, TLAPS

Known == DOMAIN store.rooms \cup tick.created

\* What a tick has planned is still so: its listing is no older than the last
\* one committed, its new rooms are new, its checks are due and pending, and
\* none is both read and finalized.
Planned ==
  tick # Idle =>
    /\ tick.owner \in Procs /\ listing[tick.owner] # NoListing
    /\ listing[tick.owner].at >= store.listed
    /\ tick.created \subseteq DOMAIN events \ DOMAIN store.rooms
    /\ tick.credited \subseteq Known
    /\ \A c \in tick.selected \cup tick.superseded \cup tick.agedOut :
         c[1] \in Known /\ Outcome(c[1], c[2]) = "pending" /\ Due(c[1], c[2]) <= tick.ts
    /\ tick.selected \cap (tick.superseded \cup tick.agedOut) = {}
    /\ tick.superseded \cap tick.agedOut = {}
    /\ \A c \in tick.superseded : \E j \in Known :
         j > c[1] /\ events[j].name = events[c[1]].name
                  /\ events[j].created < WindowEnd(c[1], c[2])
    /\ \A c \in DOMAIN tick.results : Attempted(tick.results[c])

\* No room was listed after the last listing committed, and a check with an
\* outcome was due at the last tick committed.
Settled ==
  \A k \in DOMAIN store.rooms :
    /\ store.rooms[k] <= store.listed
    /\ \A s \in Stages : store.checks[k][s].outcome # "pending" => Due(k, s) <= store.updated

LInv == RollupExact /\ SupersededJustified /\ Planned /\ Settled

-----------------------------------------------------------------------------
(* Sums over finite sets.                                                  *)

\* Some set of a family of subsets of a finite set has no other below it.
LEMMA SmallestSet ==
  ASSUME NEW S, IsFiniteSet(S), NEW F, \A U \in F : U \subseteq S, F # {}
  PROVE  \E U \in F : \A V \in F : V \subseteq U => V = U
<1>1. IsWellFoundedOn(StrictSubsetOrdering(S), SUBSET S)
  BY FS_StrictSubsetOrderingWellFounded, FS_FiniteSubsetsOfFinite
<1>2. PICK U \in F : \A V \in F : ~ (<<V, U>> \in StrictSubsetOrdering(S))
  <2>1. F \subseteq SUBSET S
    OBVIOUS
  <2> QED BY <1>1, <2>1, WFMin, Zenon
<1>3. ASSUME NEW V \in F, V \subseteq U PROVE V = U
  <2>1. V \in SUBSET S /\ U \in SUBSET S
    OBVIOUS
  <2>2. V # U => <<V, U>> \in StrictSubsetOrdering(S)
    BY <1>3, <2>1 DEF StrictSubsetOrdering
  <2> QED BY <1>2, <2>2
<1> QED BY <1>3

\* h is the sum of f over each subset of S.
Sums(h, f, S) ==
  /\ h \in [SUBSET S -> Int] /\ h[{}] = 0
  /\ \A U \in SUBSET S, x \in S : x \in U => h[U] = f[x] + h[U \ {x}]

\* Sums over the subsets of a set extend to those with one more element.
LEMMA SumsWithOneMore ==
  ASSUME NEW f, NEW S, NEW h, Sums(h, f, S), NEW x, x \notin S, f[x] \in Int,
         \A y \in S : f[y] \in Int
  PROVE  \E g : Sums(g, f, S \cup {x})
<1> DEFINE T == S \cup {x}
           g == [U \in SUBSET T |-> IF x \in U THEN f[x] + h[U \ {x}] ELSE h[U]]
<1>1. g \in [SUBSET T -> Int]
  <2> SUFFICES ASSUME NEW U \in SUBSET T
               PROVE  (IF x \in U THEN f[x] + h[U \ {x}] ELSE h[U]) \in Int
    OBVIOUS
  <2>1. U \ {x} \in SUBSET S /\ (x \notin U => U \in SUBSET S)
    OBVIOUS
  <2> QED BY <2>1 DEF Sums
<1>2. g[{}] = 0
  BY DEF Sums
<1>3. ASSUME NEW U \in SUBSET T, NEW y \in T, y \in U
      PROVE  g[U] = f[y] + g[U \ {y}]
  <2>1. U \ {x} \in SUBSET S /\ U \ {y} \in SUBSET T
    OBVIOUS
  <2>2. CASE y = x
    <3>1. g[U] = f[x] + h[U \ {x}] /\ g[U \ {y}] = h[U \ {x}]
      BY <1>3, <2>1, <2>2
    <3> QED BY <2>2, <3>1
  <2>3. CASE y # x /\ x \in U
    <3>1. g[U] = f[x] + h[U \ {x}] /\ g[U \ {y}] = f[x] + h[(U \ {y}) \ {x}]
      BY <2>1, <2>3
    <3>2. (U \ {y}) \ {x} = (U \ {x}) \ {y} /\ y \in U \ {x} /\ y \in S
          /\ (U \ {x}) \ {y} \in SUBSET S
      BY <1>3, <2>3
    <3>3. h[U \ {x}] = f[y] + h[(U \ {x}) \ {y}]
      BY <2>1, <3>2 DEF Sums
    <3>4. h[(U \ {x}) \ {y}] \in Int /\ f[y] \in Int
      BY <3>2 DEF Sums
    <3> DEFINE n == h[(U \ {x}) \ {y}]
               m == g[U \ {y}]
    <3>5. g[U] = f[x] + (f[y] + n) /\ m = f[x] + n
      BY <3>1, <3>2, <3>3
    <3>6. n \in Int /\ f[y] \in Int /\ f[x] \in Int
      BY <3>4
    <3> HIDE DEF g, n, m
    <3>7. g[U] = f[y] + m
      BY <3>5, <3>6
    <3> QED BY <3>7 DEF m
  <2>4. CASE x \notin U
    <3>1. U \in SUBSET S /\ y \in S
      BY <1>3, <2>4
    <3>2. g[U] = h[U] /\ g[U \ {y}] = h[U \ {y}]
      BY <2>1, <2>4
    <3> QED BY <1>3, <3>1, <3>2 DEF Sums
  <2> QED BY <2>2, <2>3, <2>4
<1> HIDE DEF g
<1> QED BY <1>1, <1>2, <1>3 DEF Sums

\* Every finite set has its sums.
LEMMA SumsExist ==
  ASSUME NEW f, NEW S, IsFiniteSet(S), \A x \in S : f[x] \in Int
  PROVE  \E h : Sums(h, f, S)
<1> DEFINE F == {U \in SUBSET S : ~ \E h : Sums(h, f, U)}
<1>1. SUFFICES F = {}
  <2>1. S \in SUBSET S
    OBVIOUS
  <2> QED BY <1>1, <2>1
<1>2. SUFFICES ASSUME F # {} PROVE FALSE
  OBVIOUS
<1>3. PICK U \in F : \A V \in F : V \subseteq U => V = U
  <2>1. \A U \in F : U \subseteq S
    OBVIOUS
  <2> HIDE DEF F
  <2> QED BY <1>2, <2>1, SmallestSet
<1>4. U # {}
  <2>1. Sums([V \in SUBSET {} |-> 0], f, {})
    BY DEF Sums
  <2> QED BY <2>1
<1>5. PICK x \in U : TRUE
  BY <1>4
<1>6. U \ {x} \in SUBSET S /\ U \ {x} # U /\ U \ {x} \subseteq U
  BY <1>5
<1>7. PICK h : Sums(h, f, U \ {x})
  BY <1>3, <1>6
<1>8. (U \ {x}) \cup {x} = U /\ x \notin U \ {x} /\ x \in S
  BY <1>5
<1>9. f[x] \in Int /\ \A y \in U \ {x} : f[y] \in Int
  BY <1>8
<1>10. \E g : Sums(g, f, (U \ {x}) \cup {x})
  BY <1>7, <1>8, <1>9, SumsWithOneMore
<1> QED BY <1>8, <1>10

\* One step of the fold that defines SumFunctionOnSet.
FoldStep(f, h, U) ==
  IF U = {} THEN 0 ELSE f[CHOOSE x \in U : TRUE] + h[U \ {CHOOSE x \in U : TRUE}]

\* SumFunctionOnSet is the sum.
LEMMA SumIsSums ==
  ASSUME NEW f, NEW S, IsFiniteSet(S), NEW h, Sums(h, f, S), NEW T \in SUBSET S
  PROVE  SumFunctionOnSet(f, T) = h[T]
<1> DEFINE P(g) == g = [U \in SUBSET T |-> FoldStep(f, g, U)]
           c == CHOOSE g : P(g)
           k == [U \in SUBSET T |-> h[U]]
<1>1. P(k)
  <2>1. ASSUME NEW U \in SUBSET T PROVE h[U] = FoldStep(f, k, U)
    <3>1. U \in SUBSET S
      OBVIOUS
    <3>2. CASE U = {}
      BY <3>2 DEF FoldStep, Sums
    <3>3. CASE U # {}
      <4> DEFINE x == CHOOSE x \in U : TRUE
      <4>1. x \in U
        BY <3>3
      <4> HIDE DEF x
      <4>2. U \ {x} \in SUBSET T /\ x \in S
        BY <4>1
      <4>3. h[U] = f[x] + h[U \ {x}]
        BY <3>1, <4>1, <4>2 DEF Sums
      <4>4. k[U \ {x}] = h[U \ {x}]
        BY <4>2
      <4> HIDE DEF k
      <4>5. FoldStep(f, k, U) = f[x] + k[U \ {x}]
        BY <3>3, Zenon DEF FoldStep, x
      <4> QED BY <4>3, <4>4, <4>5
    <3> QED BY <3>2, <3>3
  <2> QED BY <2>1
<1> HIDE DEF k
<1>2. P(c)
  BY <1>1, Zenon
<1>3. SumFunctionOnSet(f, T) = c[T]
  BY DEF SumFunctionOnSet, FoldFunctionOnSet, MapThenFoldSet, FoldStep
<1> HIDE DEF c
<1>4. ASSUME NEW U \in SUBSET T PROVE c[U] = FoldStep(f, c, U)
  <2>1. c[U] = [V \in SUBSET T |-> FoldStep(f, c, V)][U]
    BY <1>2, Zenon
  <2> QED BY <2>1
<1> DEFINE F == {U \in SUBSET T : c[U] # h[U]}
<1>5. F = {}
  <2> SUFFICES ASSUME F # {} PROVE FALSE
    OBVIOUS
  <2>1. IsFiniteSet(T)
    BY FS_Subset
  <2>2. PICK U \in F : \A V \in F : V \subseteq U => V = U
    <3>1. \A U \in F : U \subseteq T
      OBVIOUS
    <3> HIDE DEF F
    <3> QED BY <2>1, <3>1, SmallestSet
  <2>3. U # {}
    BY <1>4 DEF FoldStep, Sums
  <2> DEFINE x == CHOOSE x \in U : TRUE
  <2>4. x \in U
    BY <2>3
  <2>5. c[U] = f[x] + c[U \ {x}]
    BY <1>4, <2>3 DEF FoldStep
  <2> HIDE DEF x
  <2>6. U \ {x} \in SUBSET T /\ U \ {x} # U /\ x \in S /\ U \in SUBSET S
    BY <2>4
  <2>7. c[U \ {x}] = h[U \ {x}]
    BY <2>2, <2>6
  <2>8. h[U] = f[x] + h[U \ {x}]
    BY <2>4, <2>6 DEF Sums
  <2> QED BY <2>5, <2>7, <2>8
<1> QED BY <1>3, <1>5

\* The sum of no values, the sum with one value apart, and its type.
LEMMA SumFacts ==
  ASSUME NEW f, NEW S, IsFiniteSet(S), \A x \in S : f[x] \in Int
  PROVE  /\ SumFunctionOnSet(f, {}) = 0 /\ SumFunctionOnSet(f, S) \in Int
         /\ \A x \in S : /\ SumFunctionOnSet(f, S) = f[x] + SumFunctionOnSet(f, S \ {x})
                         /\ SumFunctionOnSet(f, S \ {x}) \in Int
<1>1. PICK h : Sums(h, f, S)
  BY SumsExist
<1>2. \A T \in SUBSET S : SumFunctionOnSet(f, T) = h[T]
  BY <1>1, SumIsSums
<1>3. {} \in SUBSET S /\ S \in SUBSET S /\ \A x \in S : S \ {x} \in SUBSET S
  OBVIOUS
<1>4. h[{}] = 0 /\ h[S] \in Int
      /\ \A x \in S : h[S] = f[x] + h[S \ {x}] /\ h[S \ {x}] \in Int
  BY <1>1, <1>3 DEF Sums
<1> QED BY <1>2, <1>3, <1>4

\* A sum of natural numbers is one.
LEMMA SumOfNaturals ==
  ASSUME NEW f, NEW S, IsFiniteSet(S), \A x \in S : f[x] \in Nat
  PROVE  SumFunctionOnSet(f, S) \in Nat
<1> DEFINE F == {U \in SUBSET S : SumFunctionOnSet(f, U) \notin Nat}
<1>1. SUFFICES F = {}
  <2>1. S \in SUBSET S
    OBVIOUS
  <2> QED BY <1>1, <2>1
<1>2. SUFFICES ASSUME F # {} PROVE FALSE
  OBVIOUS
<1>3. PICK U \in F : \A V \in F : V \subseteq U => V = U
  <2>1. \A U \in F : U \subseteq S
    OBVIOUS
  <2> HIDE DEF F
  <2> QED BY <1>2, <2>1, SmallestSet
<1>4. IsFiniteSet(U) /\ U \in SUBSET S /\ \A x \in U : f[x] \in Int
  BY FS_Subset
<1>5. PICK x \in U : TRUE
  BY <1>4, SumFacts
<1>6. U \ {x} \in SUBSET S /\ U \ {x} # U /\ U \ {x} \subseteq U
  BY <1>5
<1>7. SumFunctionOnSet(f, U \ {x}) \in Nat
  BY <1>3, <1>6
<1>8. SumFunctionOnSet(f, U) = f[x] + SumFunctionOnSet(f, U \ {x})
  BY <1>4, SumFacts
<1>9. f[x] \in Nat
  BY <1>4
<1> QED BY <1>7, <1>8, <1>9

\* The sum changes by what each touched element has changed.
LEMMA SumOfChanges ==
  ASSUME NEW E, IsFiniteSet(E), NEW D \in SUBSET E, NEW T \in SUBSET E, E \ D \subseteq T,
         NEW f, NEW g, NEW d, \A k \in D : f[k] \in Int, \A k \in E : g[k] \in Int,
         \A k \in T : d[k] = g[k] - (IF k \in D THEN f[k] ELSE 0),
         \A k \in E \ T : g[k] = f[k]
  PROVE  SumFunctionOnSet(g, E) = SumFunctionOnSet(f, D) + SumFunctionOnSet(d, T)
<1> DEFINE F == {U \in SUBSET E : SumFunctionOnSet(g, U) #
                   SumFunctionOnSet(f, U \cap D) + SumFunctionOnSet(d, U \cap T)}
<1>1. SUFFICES F = {}
  <2>1. E \in SUBSET E /\ E \cap D = D /\ E \cap T = T
    OBVIOUS
  <2> QED BY <1>1, <2>1
<1>2. SUFFICES ASSUME F # {} PROVE FALSE
  OBVIOUS
<1>3. PICK U \in F : \A V \in F : V \subseteq U => V = U
  <2>1. \A U \in F : U \subseteq E
    OBVIOUS
  <2> HIDE DEF F
  <2> QED BY <1>2, <2>1, SmallestSet
<1>4. U \in SUBSET E /\ IsFiniteSet(U) /\ IsFiniteSet(U \cap D) /\ IsFiniteSet(U \cap T)
  BY FS_Subset, FS_Intersection
<1>5. /\ \A k \in U : g[k] \in Int
      /\ \A k \in U \cap D : f[k] \in Int
      /\ \A k \in U \cap T : d[k] \in Int
  OBVIOUS
<1>6. U # {}
  <2> SUFFICES ASSUME U = {} PROVE FALSE
    OBVIOUS
  <2>1. {} \cap D = {} /\ {} \cap T = {}
    OBVIOUS
  <2>2. SumFunctionOnSet(g, {}) = 0
    BY <1>4, <1>5, SumFacts
  <2>3. SumFunctionOnSet(f, {}) = 0
    BY <1>4, <1>5, SumFacts
  <2>4. SumFunctionOnSet(d, {}) = 0
    BY <1>4, <1>5, SumFacts
  <2>5. U \notin F
    BY <2>1, <2>2, <2>3, <2>4
  <2> QED BY <2>5
<1>7. PICK x \in U : TRUE
  BY <1>6
<1> DEFINE V == U \ {x}
           gU == SumFunctionOnSet(g, U)
           gV == SumFunctionOnSet(g, V)
           fU == SumFunctionOnSet(f, U \cap D)
           fV == SumFunctionOnSet(f, V \cap D)
           dU == SumFunctionOnSet(d, U \cap T)
           dV == SumFunctionOnSet(d, V \cap T)
<1>8. gV = fV + dV
  <2>1. V \in SUBSET E /\ V # U /\ V \subseteq U
    BY <1>4, <1>7
  <2> QED BY <1>3, <2>1
<1>9. gU = g[x] + gV /\ gU \in Int /\ gV \in Int
  BY <1>4, <1>5, <1>7, SumFacts
<1>10. (U \cap D) \ {x} = V \cap D /\ (U \cap T) \ {x} = V \cap T
  OBVIOUS
<1>11. x \in D => fU = f[x] + fV /\ fV \in Int /\ f[x] \in Int
  <2>1. x \in D => x \in U \cap D
    BY <1>7
  <2> QED BY <1>4, <1>5, <1>10, <2>1, SumFacts
<1>12. x \in T => dU = d[x] + dV /\ dV \in Int /\ d[x] \in Int
  <2>1. x \in T => x \in U \cap T
    BY <1>7
  <2> QED BY <1>4, <1>5, <1>10, <2>1, SumFacts
<1>13. x \notin D => V \cap D = U \cap D
  OBVIOUS
<1>14. x \notin T => V \cap T = U \cap T
  OBVIOUS
<1>15. fU \in Int
  BY <1>4, <1>5, SumFacts
<1>16. dU \in Int
  BY <1>4, <1>5, SumFacts
<1>17. (x \notin D => fV = fU) /\ (x \notin T => dV = dU)
  BY <1>13, <1>14
<1>18. g[x] \in Int /\ x \in E
  BY <1>4, <1>7
<1> HIDE DEF gU, gV, fU, fV, dU, dV
<1>19. CASE x \in D /\ x \in T
  <2>1. d[x] = g[x] - f[x]
    BY <1>19
  <2>2. gU = fU + dU
    BY <1>8, <1>9, <1>11, <1>12, <1>18, <1>19, <2>1
  <2> QED BY <2>2 DEF gU, fU, dU
<1>20. CASE x \in D /\ x \notin T
  <2>1. g[x] = f[x]
    BY <1>18, <1>20
  <2>2. gU = fU + dU
    BY <1>8, <1>9, <1>11, <1>16, <1>17, <1>18, <1>20, <2>1
  <2> QED BY <2>2 DEF gU, fU, dU
<1>21. CASE x \notin D
  <2>1. x \in T
    BY <1>18, <1>21
  <2>2. d[x] = g[x]
    BY <1>18, <1>21, <2>1
  <2>3. gU = fU + dU
    BY <1>8, <1>9, <1>12, <1>15, <1>17, <1>18, <1>21, <2>1, <2>2
  <2> QED BY <2>3 DEF gU, fU, dU
<1> QED BY <1>19, <1>20, <1>21

\* A sum of zeros and ones counts the ones.
LEMMA SumCounts ==
  ASSUME NEW S, IsFiniteSet(S), NEW f, \A k \in S : f[k] \in {0, 1}
  PROVE  SumFunctionOnSet(f, S) = Cardinality({k \in S : f[k] = 1})
<1> DEFINE Ones(U) == {k \in U : f[k] = 1}
           F == {U \in SUBSET S : SumFunctionOnSet(f, U) # Cardinality(Ones(U))}
<1>1. SUFFICES F = {}
  <2>1. S \in SUBSET S
    OBVIOUS
  <2> QED BY <1>1, <2>1
<1>2. SUFFICES ASSUME F # {} PROVE FALSE
  OBVIOUS
<1>3. PICK U \in F : \A V \in F : V \subseteq U => V = U
  <2>1. \A U \in F : U \subseteq S
    OBVIOUS
  <2> HIDE DEF F
  <2> QED BY <1>2, <2>1, SmallestSet
<1>4. U \in SUBSET S /\ IsFiniteSet(U) /\ \A x \in U : f[x] \in Int
  BY FS_Subset
<1>5. Ones({}) = {}
  OBVIOUS
<1>6. U # {}
  BY <1>4, <1>5, SumFacts, FS_EmptySet
<1>7. PICK x \in U : TRUE
  BY <1>6
<1>8. U \ {x} \in SUBSET S /\ U \ {x} # U /\ U \ {x} \subseteq U
  BY <1>7
<1>9. SumFunctionOnSet(f, U \ {x}) = Cardinality(Ones(U \ {x}))
  BY <1>3, <1>8
<1>10. SumFunctionOnSet(f, U) = f[x] + SumFunctionOnSet(f, U \ {x})
  BY <1>4, SumFacts
<1>11. IsFiniteSet(Ones(U \ {x}))
  <2>1. Ones(U \ {x}) \in SUBSET S
    BY <1>8
  <2> QED BY <2>1, FS_Subset
<1>12. Ones(U) = IF f[x] = 1 THEN Ones(U \ {x}) \cup {x} ELSE Ones(U \ {x})
  OBVIOUS
<1>13. Cardinality(Ones(U)) = IF f[x] = 1 THEN Cardinality(Ones(U \ {x})) + 1
                              ELSE Cardinality(Ones(U \ {x}))
  <2>1. x \notin Ones(U \ {x})
    OBVIOUS
  <2> HIDE DEF Ones
  <2> QED BY <1>11, <1>12, <2>1, FS_AddElement
<1>14. Cardinality(Ones(U \ {x})) \in Nat
  BY <1>11, FS_CardinalityType
<1>15. f[x] \in {0, 1}
  BY <1>4, <1>7
<1>16. SumFunctionOnSet(f, U) = Cardinality(Ones(U))
  <2> HIDE DEF Ones
  <2> QED BY <1>9, <1>10, <1>13, <1>14, <1>15
<1> QED BY <1>16

-----------------------------------------------------------------------------
(* Types.                                                                  *)

\* There is a stage.
LEMMA StageCount == Cardinality(Stages) \in Nat \ {0}
BY ConstantsAssumption, FS_CardinalityType, FS_EmptySet

\* A room contributes a natural number to each counter.
LEMMA TallyType ==
  ASSUME NEW rows
  PROVE  Tally(rows) \in [Counters -> Nat]
<1>1. \A T \in SUBSET Stages : Cardinality(T) \in Nat
  BY ConstantsAssumption, FS_Subset, FS_CardinalityType
<1>3. WholeTally(rows) \in [WholeCounters -> Nat]
  <2> DEFINE present == {s \in Stages : rows[s].outcome = "present"}
             failed == {s \in Stages : rows[s].outcome = "failed"}
             attempted == {s \in Stages : Attempted(rows[s])}
             heard == {rows[s].second : s \in present}
  <2>1. Cardinality(failed) \in Nat /\ Cardinality(attempted) \in Nat
    BY <1>1
  <2>2. \A x : /\ One(attempted # {}) \in Nat /\ One(present # {}) \in Nat
               /\ One(heard \ {"none"} # {}) \in Nat /\ One(x \in heard) \in Nat
               /\ One("notObserved" \in heard /\ heard \cap Classes = {}) \in Nat
    BY DEF One
  <2> HIDE DEF present, failed, attempted, heard
  <2>3. WholeTally(rows) = [x \in WholeCounters |->
          CASE x = "rooms"       -> 1
            [] x = "revisited"   -> One(attempted # {})
            [] x = "successful"  -> One(present # {})
            [] x = "spoken"      -> One(heard \ {"none"} # {})
            [] x = "attempted"   -> Cardinality(attempted)
            [] x = "failed"      -> Cardinality(failed)
            [] x = "notObserved" -> One("notObserved" \in heard /\ heard \cap Classes = {})
            [] OTHER             -> One(x \in heard)]
    BY DEF WholeTally, present, failed, attempted, heard
  <2> HIDE DEF WholeTally
  <2> QED BY <2>1, <2>2, <2>3
<1>4. \A s \in Stages, y \in StageCounters : StageTally(rows[s])[y] \in Nat
  <2> SUFFICES ASSUME NEW s \in Stages, NEW y \in StageCounters
               PROVE  StageTally(rows[s])[y] \in Nat
    OBVIOUS
  <2> QED BY DEF StageTally, StageCounters, One
<1>5. ASSUME NEW x \in Counters
      PROVE  (IF x[1] = 0 THEN WholeTally(rows)[x[2]]
              ELSE [s \in Stages |-> StageTally(rows[s])][x[1]][x[2]]) \in Nat
  <2>1. CASE x \in {0} \X WholeCounters
    BY <1>3, <2>1
  <2>2. CASE x \in Stages \X StageCounters
    <3>1. x[1] \in Stages /\ x[2] \in StageCounters /\ x[1] # 0
      BY <2>2, ConstantsAssumption
    <3> QED BY <1>4, <3>1
  <2> QED BY <2>1, <2>2 DEF Counters
<1> QED BY <1>5 DEF Tally

\* The contributions of the rooms to a counter.
Contributions(x) == [k \in DOMAIN store.checks |-> Tally(store.checks[k])[x]]

\* RollupExact in terms of the sum of the contributions.
LEMMA RollupForm ==
  RollupExact <=>
    TypeOK /\ store.totals = [x \in Counters |->
                SumFunctionOnSet(Contributions(x), DOMAIN store.checks)]
<1> DEFINE tally == [k \in DOMAIN store.checks |-> Tally(store.checks[k])]
           old(x) == SumFunction([k \in DOMAIN tally |-> tally[k][x]])
           new(x) == SumFunctionOnSet(Contributions(x), DOMAIN store.checks)
<1>1. ASSUME NEW x PROVE old(x) = new(x)
  <2>1. [k \in DOMAIN tally |-> tally[k][x]] = Contributions(x)
    BY DEF Contributions
  <2>2. DOMAIN Contributions(x) = DOMAIN store.checks
    BY DEF Contributions
  <2> QED BY <2>1, <2>2 DEF SumFunction
<1>2. RollupExact <=> TypeOK /\ store.totals = [x \in Counters |-> old(x)]
  BY DEF RollupExact
<1> HIDE DEF old, new
<1>3. [x \in Counters |-> old(x)] = [x \in Counters |-> new(x)]
  BY <1>1
<1>4. RollupExact <=> TypeOK /\ store.totals = [x \in Counters |-> new(x)]
  BY <1>2, <1>3
<1> QED BY <1>4 DEF new

\* The rooms recorded are finitely many.
LEMMA RoomsFinite ==
  ASSUME TypeOK
  PROVE  IsFiniteSet(DOMAIN events) /\ IsFiniteSet(DOMAIN store.checks)
<1>1. DOMAIN events = 1..Len(events) /\ Len(events) \in Nat
  BY DEF TypeOK
<1>2. IsFiniteSet(DOMAIN events)
  BY <1>1, FS_Interval
<1>3. DOMAIN store.checks \in SUBSET DOMAIN events
  BY DEF TypeOK
<1> QED BY <1>2, <1>3, FS_Subset

\* A nonempty finite set of integers has a largest element.
LEMMA MaxIn ==
  ASSUME NEW S, S \subseteq Int, IsFiniteSet(S), S # {}
  PROVE  Max(S) \in S /\ \A y \in S : Max(S) >= y
<1>1. PICK F : F = {{y \in S : y > x} : x \in S}
  OBVIOUS
<1>2. PICK U \in F : \A V \in F : V \subseteq U => V = U
  <2>1. (\A U \in F : U \subseteq S) /\ F # {}
    BY <1>1
  <2> QED BY <2>1, SmallestSet
<1>3. PICK x \in S : U = {y \in S : y > x}
  BY <1>1
<1>4. ASSUME NEW y \in S, y > x PROVE FALSE
  <2>1. PICK V : V = {z \in S : z > y}
    OBVIOUS
  <2>2. V \in F
    BY <1>1, <2>1
  <2>3. ASSUME NEW z \in V PROVE z \in U
    <3>1. x \in Int /\ y \in Int /\ z \in Int /\ z \in S /\ z > y
      BY <2>1
    <3> QED BY <1>3, <1>4, <3>1
  <2>4. y \in U /\ y \notin V
    BY <1>3, <1>4, <2>1
  <2> QED BY <1>2, <2>2, <2>3, <2>4
<1>5. \A y \in S : x >= y
  BY <1>4
<1>6. \E m \in S : \A y \in S : m >= y
  BY <1>5
<1> QED BY <1>6 DEF Max

\* The empty tick is a tick.
LEMMA IdleType == Idle \in Tick /\ DOMAIN Idle.results \subseteq Idle.selected
<1>1. <<>> \in Readings /\ DOMAIN <<>> = {}
  <2>1. <<>> \in [{} -> Row] /\ DOMAIN <<>> = {}
    OBVIOUS
  <2> QED BY <2>1 DEF Readings
<1>2. 0 \in Time
  BY ConstantsAssumption DEF Time
<1> QED BY <1>1, <1>2 DEF Idle, Tick

\* What the origin can show of a recorded check has the type of a row.
LEMMA EvidenceType ==
  ASSUME TypeOK, NEW k \in DOMAIN events, NEW e \in Evidence(events[k].name)
  PROVE  e.outcome \in {"present", "absent", "failed"} /\ e.second \in Seconds
<1> DEFINE J == {j \in DOMAIN events : events[j].name = events[k].name}
<1>1. DOMAIN events = 1..Len(events) /\ Len(events) \in Nat /\ Len(events) <= MaxEvents
      /\ MaxEvents \in Nat
  BY ConstantsAssumption DEF TypeOK
<1>2. k \in J /\ J \subseteq Int
  BY <1>1
<1>3. IsFiniteSet(J)
  BY RoomsFinite, FS_Subset
<1>4. Max(J) \in J
  BY <1>2, <1>3, MaxIn
<1>5. Current(events[k].name) \in 1..MaxEvents
  BY <1>1, <1>4 DEF Current
<1>6. SecondSender[Current(events[k].name)] \in Classes
  BY <1>5, ConstantsAssumption
<1> QED BY <1>6 DEF Evidence, Seconds

\* Reading a check adds its row to the tick's.
LEMMA ReadingsGrow ==
  ASSUME NEW r \in Readings, NEW c \in Check, NEW row \in Row
  PROVE  [d \in DOMAIN r \cup {c} |-> IF d = c THEN row ELSE r[d]] \in Readings
<1>1. PICK D \in SUBSET Check : r \in [D -> Row]
  BY DEF Readings
<1>2. DOMAIN r \cup {c} \in SUBSET Check
  BY <1>1
<1>3. [d \in DOMAIN r \cup {c} |-> IF d = c THEN row ELSE r[d]] \in [DOMAIN r \cup {c} -> Row]
  BY <1>1
<1> QED BY <1>2, <1>3 DEF Readings

\* The operators of a selection choose among the checks that they are given.
LEMMA SelectionsChoose ==
  /\ \A active : \A C \in Selections(active) : C \subseteq active
  /\ \A checks, n : \A C \in FirstDue(checks, n) : C \subseteq checks
<1>1. \A n, C : \A R \in kSubset(n, C) : R \subseteq C
  BY DEF kSubset
<1>2. ASSUME NEW active, NEW C \in Selections(active) PROVE C \subseteq active
  <2> DEFINE initial == {F \in SUBSET active : \A s \in Stages :
                           Cardinality(OfStage(F, s)) =
                             Min({Allocation(s), Cardinality(OfStage(active, s))})}
             rest(F) == kSubset(Min({ReadBudget - Cardinality(F), Cardinality(active \ F)}),
                                active \ F)
  <2>1. initial \subseteq SUBSET active
    OBVIOUS
  <2>2. \A F : \A R \in rest(F) : R \subseteq active
    BY <1>1
  <2>3. C \in UNION {{F \cup R : R \in rest(F)} : F \in initial}
    BY DEF Selections
  <2> HIDE DEF initial, rest
  <2>4. \E F \in initial : \E R \in rest(F) : C = F \cup R
    BY <2>3
  <2> QED BY <2>1, <2>2, <2>4
<1> QED BY <1>2 DEF FirstDue

\* A listed name is credited to a room that the tick knows.
LEMMA CreditedAreKnown ==
  ASSUME NEW known, IsFiniteSet(known), known \subseteq Int, NEW list
  PROVE  CreditedRooms(known, list) \subseteq known
<1> DEFINE visible(name) ==
             {k \in known : events[k].name = name /\ events[k].created <= list.at}
<1>1. ASSUME NEW name, visible(name) # {} PROVE Max(visible(name)) \in known
  <2>1. visible(name) \subseteq Int /\ IsFiniteSet(visible(name))
    BY FS_Subset
  <2> HIDE DEF visible
  <2>2. Max(visible(name)) \in visible(name)
    BY <1>1, <2>1, MaxIn
  <2> QED BY <2>2 DEF visible
<1> QED BY <1>1 DEF CreditedRooms

\* The events known stay as they are.
EventsKept ==
  DOMAIN events \subseteq DOMAIN events' /\ \A k \in DOMAIN events : events'[k] = events[k]

\* Every step keeps the events, and their type.
LEMMA EventsStep ==
  ASSUME TypeOK, [Next]_vars
  PROVE  EventsKept /\ events' \in Seq([name : Names, created : Time]) /\ Len(events') <= MaxEvents
<1>1. events \in Seq([name : Names, created : Time]) /\ Len(events) <= MaxEvents
      /\ now \in 0..MaxTime
  BY DEF TypeOK
<1>2. CASE Create
  <2>1. PICK name \in Names, lead \in 0..ClockLead :
          events' = Append(events, [name |-> name, created |-> now + lead])
    BY <1>2 DEF Create
  <2>2. now + lead \in Time
    BY <1>1, ConstantsAssumption DEF Time
  <2>3. [name |-> name, created |-> now + lead] \in [name : Names, created : Time]
    BY <2>2
  <2>4. Len(events) < MaxEvents /\ MaxEvents \in Nat
    BY <1>2, ConstantsAssumption DEF Create
  <2> QED BY <1>1, <2>1, <2>3, <2>4 DEF EventsKept
<1>3. CASE events' = events
  BY <1>1, <1>3 DEF EventsKept
<1>4. CASE ~Create
  BY <1>3, <1>4 DEF Next, vars, ReadListing, Plan, Refused, Read, EarlyAttempt, Commit,
     RolledBack, Advance, StepBack, Abandon
<1> QED BY <1>2, <1>4

\* The end of a tick leaves well-formed listings, and no tick.
LEMMA EndTickTypes ==
  ASSUME TypeOK, EndTick
  PROVE  /\ listing' \in [Procs -> [at : Time \cup {Never}, names : SUBSET Names]]
         /\ tick' \in Tick /\ DOMAIN tick'.results \subseteq tick'.selected
<1>1. NoListing \in [at : Time \cup {Never}, names : SUBSET Names]
  BY DEF NoListing
<1>2. listing' \in [Procs -> [at : Time \cup {Never}, names : SUBSET Names]]
  BY <1>1 DEF TypeOK, EndTick
<1> QED BY <1>2, IdleType DEF EndTick

\* The part of TypeOK about the store.
StoreOK ==
  /\ DOMAIN store.rooms = DOMAIN store.checks /\ DOMAIN store.rooms \subseteq DOMAIN events
  /\ \A k \in DOMAIN store.rooms :
       store.rooms[k] \in Time \cup {Never} /\ store.checks[k] \in [Stages -> Row]
  /\ store.totals \in [Counters -> Nat]
  /\ store.rotation \in 0..(Cardinality(Stages) - 1)
  /\ {store.updated, store.listed} \subseteq Time \cup {Never}

\* The tick that a plan makes is a tick.
LEMMA PlanTypes ==
  ASSUME TypeOK, NEW p \in Procs, Plan(p)
  PROVE  /\ tick' \in Tick /\ DOMAIN tick'.results = {}
         /\ tick'.owner = p /\ tick'.ts = now
         /\ tick'.created = EventWindow \ DOMAIN store.rooms
         /\ tick'.credited = CreditedRooms(DOMAIN store.rooms \cup tick'.created, listing[p])
         /\ tick'.selected \subseteq ActiveChecks(DOMAIN store.rooms \cup tick'.created, now)
         /\ tick'.superseded \subseteq SupersededChecks(DOMAIN store.rooms \cup tick'.created, now)
         /\ tick'.agedOut \subseteq AgedOutChecks(DOMAIN store.rooms \cup tick'.created, now)
<1> DEFINE created == EventWindow \ DOMAIN store.rooms
           known == DOMAIN store.rooms \cup created
<1>0. PICK selected \in Selections(ActiveChecks(known, now)) :
        \E superseded \in FirstDue(SupersededChecks(known, now),
                                   BatchLimit - Cardinality(selected)) :
        \E agedOut \in FirstDue(AgedOutChecks(known, now), FinalizationLimit) :
          tick' = [owner |-> p, ts |-> now, created |-> created,
                   credited |-> CreditedRooms(known, listing[p]),
                   selected |-> selected, superseded |-> superseded,
                   agedOut |-> agedOut, results |-> <<>>]
  BY DEF Plan
<1>1. PICK superseded \in FirstDue(SupersededChecks(known, now),
                                  BatchLimit - Cardinality(selected)),
           agedOut \in FirstDue(AgedOutChecks(known, now), FinalizationLimit) :
        tick' = [owner |-> p, ts |-> now, created |-> created,
                 credited |-> CreditedRooms(known, listing[p]),
                 selected |-> selected, superseded |-> superseded,
                 agedOut |-> agedOut, results |-> <<>>]
  BY <1>0
<1>2. /\ selected \subseteq ActiveChecks(known, now)
      /\ superseded \subseteq SupersededChecks(known, now)
      /\ agedOut \subseteq AgedOutChecks(known, now)
  BY SelectionsChoose
<1>3. DOMAIN events = 1..Len(events) /\ Len(events) \in Nat /\ Len(events) <= MaxEvents
      /\ MaxEvents \in Nat
  BY ConstantsAssumption DEF TypeOK
<1>4. known \subseteq DOMAIN events /\ known \subseteq Seq_ /\ known \subseteq Int
      /\ created \subseteq Seq_
  BY <1>3 DEF EventWindow, Seq_, TypeOK
<1>5. IsFiniteSet(known)
  BY <1>4, RoomsFinite, FS_Subset
<1>6. CreditedRooms(known, listing[p]) \subseteq Seq_
  BY <1>4, <1>5, CreditedAreKnown
<1>7. /\ ActiveChecks(known, now) \subseteq Check
      /\ SupersededChecks(known, now) \subseteq Check
      /\ AgedOutChecks(known, now) \subseteq Check
  <2> HIDE DEF known
  <2>1. DueChecks(known, now) \subseteq Check
    BY <1>4 DEF DueChecks, Check
  <2> QED BY <2>1 DEF ActiveChecks, SupersededChecks, AgedOutChecks
<1>8. <<>> \in Readings /\ DOMAIN <<>> = {}
  BY IdleType DEF Idle, Tick
<1>9. now \in Time
  BY ConstantsAssumption DEF TypeOK, Time
<1> HIDE DEF created, known
<1>10. tick' \in Tick
  BY <1>1, <1>2, <1>4, <1>6, <1>7, <1>8, <1>9 DEF Tick
<1>11. tick'.created = created /\ known = DOMAIN store.rooms \cup tick'.created
  BY <1>1 DEF known
<1> QED BY <1>1, <1>2, <1>8, <1>10, <1>11 DEF created

\* Steps other than a commit preserve TypeOK.
LEMMA TypeStep ==
  ASSUME TypeOK, Planned, [Next]_vars, ~Commit
  PROVE  TypeOK'
<1> DEFINE Listings == [Procs -> [at : Time \cup {Never}, names : SUBSET Names]]
<1>1. EventsKept /\ events' \in Seq([name : Names, created : Time]) /\ Len(events') <= MaxEvents
  BY EventsStep
<1>2. store' = store
  BY DEF Next, vars, ReadListing, Plan, Refused, Read, EarlyAttempt, RolledBack, Advance,
     StepBack, Create, Abandon
<1>3. StoreOK'
  BY <1>1, <1>2 DEF TypeOK, StoreOK, EventsKept
<1>4. now' \in 0..MaxTime /\ steps' \in 0..MaxSteps
  <2>1. now \in 0..MaxTime /\ steps \in 0..MaxSteps /\ MaxTime \in Nat /\ MaxSteps \in Nat
    BY ConstantsAssumption DEF TypeOK
  <2>2. CASE Advance
    BY <2>1, <2>2 DEF Advance
  <2>3. CASE StepBack
    BY <2>1, <2>3 DEF StepBack
  <2>4. CASE ~Advance /\ ~StepBack
    <3>1. now' = now /\ steps' = steps
      BY <2>4 DEF Next, vars, ReadListing, Plan, Refused, Read, EarlyAttempt, RolledBack,
         Create, Abandon
    <3> QED BY <2>1, <3>1
  <2> QED BY <2>2, <2>3, <2>4
<1> DEFINE Rest == /\ listing' \in Listings
                   /\ tick' \in Tick /\ DOMAIN tick'.results \subseteq tick'.selected
<1>5. SUFFICES Rest
  BY <1>1, <1>3, <1>4 DEF TypeOK, StoreOK
<1>6. listing \in Listings /\ tick \in Tick /\ DOMAIN tick.results \subseteq tick.selected
      /\ now \in 0..MaxTime
  BY DEF TypeOK
<1>7. NoListing \in [at : Time \cup {Never}, names : SUBSET Names] /\ now \in Time
  BY <1>6, ConstantsAssumption DEF NoListing, Time
<1>8. ASSUME NEW p \in Procs, ReadListing(p) PROVE Rest
  <2>1. {events[j].name : j \in DOMAIN events} \subseteq Names
    <3> DEFINE Event == [name : Names, created : Time]
    <3>1. events \in Seq(Event)
      BY DEF TypeOK
    <3> HIDE DEF Event
    <3>2. \A j \in DOMAIN events : events[j] \in Event
      BY <3>1
    <3> QED BY <3>2 DEF Event
  <2> QED BY <1>6, <1>7, <1>8, <2>1 DEF ReadListing
<1>9. ASSUME NEW p \in Procs, Plan(p) PROVE Rest
  <2>1. listing' = listing
    BY <1>9 DEF Plan
  <2>2. tick' \in Tick /\ DOMAIN tick'.results = {}
    BY <1>9, PlanTypes
  <2> QED BY <1>6, <2>1, <2>2
<1>10. ASSUME NEW p \in Procs, Refused(p) PROVE Rest
  BY <1>6, <1>7, <1>10 DEF Refused
<1>11. ASSUME Read PROVE Rest
  <2>0. PICK c \in Unread : \E e \in Evidence(events[c[1]].name) :
          tick' = [tick EXCEPT !.results =
                     [d \in DOMAIN tick.results \cup {c} |->
                        IF d = c THEN [outcome |-> e.outcome, second |-> e.second,
                                       timely |-> now < WindowEnd(c[1], c[2])]
                        ELSE tick.results[d]]]
    BY <1>11 DEF Read
  <2>1. PICK e \in Evidence(events[c[1]].name) :
          tick' = [tick EXCEPT !.results =
                     [d \in DOMAIN tick.results \cup {c} |->
                        IF d = c THEN [outcome |-> e.outcome, second |-> e.second,
                                       timely |-> now < WindowEnd(c[1], c[2])]
                        ELSE tick.results[d]]]
    BY <2>0
  <2>2. c \in tick.selected /\ c \in Check /\ tick.results \in Readings
    BY <1>6, <2>1 DEF Unread, Tick
  <2>3. tick # Idle
    BY <2>2 DEF Idle
  <2>4. c[1] \in DOMAIN events
    <3>1. c[1] \in Known /\ tick.created \subseteq DOMAIN events
      BY <2>2, <2>3 DEF Planned
    <3> QED BY <3>1 DEF Known, TypeOK
  <2> DEFINE row == [outcome |-> e.outcome, second |-> e.second,
                     timely |-> now < WindowEnd(c[1], c[2])]
             rows == [d \in DOMAIN tick.results \cup {c} |->
                        IF d = c THEN row ELSE tick.results[d]]
  <2>5. row \in Row
    <3>1. e.outcome \in Outcomes /\ e.second \in Seconds
      BY <2>4, EvidenceType DEF Outcomes
    <3>2. (now < WindowEnd(c[1], c[2])) \in BOOLEAN
      OBVIOUS
    <3> QED BY <3>1, <3>2 DEF Row
  <2> HIDE DEF row
  <2>6. rows \in Readings
    BY <2>2, <2>5, ReadingsGrow
  <2>7. DOMAIN rows = DOMAIN tick.results \cup {c}
    OBVIOUS
  <2>8. tick' = [tick EXCEPT !.results = rows]
    BY <2>1 DEF row
  <2> HIDE DEF rows
  <2>9. tick' \in Tick /\ tick'.results = rows /\ tick'.selected = tick.selected
    BY <1>6, <2>6, <2>8 DEF Tick
  <2>10. listing' = listing
    BY <1>11 DEF Read
  <2> QED BY <1>6, <2>2, <2>7, <2>9, <2>10
<1>12. ASSUME EndTick PROVE Rest
  BY <1>12, EndTickTypes
<1>13. ASSUME NEW p \in Procs, Abandon(p) PROVE Rest
  <2>1. listing' \in Listings
    BY <1>6, <1>7, <1>13 DEF Abandon
  <2>2. tick' = Idle \/ tick' = tick
    BY <1>13 DEF Abandon
  <2> QED BY <1>6, <2>1, <2>2, IdleType
<1>14. ASSUME listing' = listing, tick' = tick PROVE Rest
  BY <1>6, <1>14
<1> HIDE DEF Rest
<1> QED
  BY <1>8, <1>9, <1>10, <1>11, <1>12, <1>13, <1>14 DEF Next, vars, EarlyAttempt, RolledBack,
     Advance, StepBack, Create

-----------------------------------------------------------------------------
(* The inductive invariant.                                                *)

\* It holds at the start.
LEMMA InitLInv == Init => LInv
<1> SUFFICES ASSUME Init PROVE LInv
  OBVIOUS
<1>1. /\ store = [rooms |-> <<>>, checks |-> <<>>, totals |-> [x \in Counters |-> 0],
                  rotation |-> 0, updated |-> Never, listed |-> Never]
      /\ events = <<>> /\ tick = Idle /\ listing = [p \in Procs |-> NoListing]
      /\ now = 0 /\ steps = 0
  BY DEF Init
<1>2. DOMAIN store.rooms = {} /\ DOMAIN store.checks = {}
  BY <1>1
<1>3. TypeOK
  <2>1. events \in Seq([name : Names, created : Time]) /\ Len(events) = 0 /\ 0 <= MaxEvents
    BY <1>1, ConstantsAssumption
  <2>2. now \in 0..MaxTime /\ steps \in 0..MaxSteps
    BY <1>1, ConstantsAssumption
  <2>3. store.rotation \in 0..(Cardinality(Stages) - 1)
    BY <1>1, StageCount
  <2>4. store.totals \in [Counters -> Nat] /\ {store.updated, store.listed} \subseteq {Never}
    BY <1>1
  <2>5. listing \in [Procs -> [at : Time \cup {Never}, names : SUBSET Names]]
    BY <1>1 DEF NoListing
  <2> QED BY <1>1, <1>2, <2>1, <2>2, <2>3, <2>4, <2>5, IdleType DEF TypeOK
<1>4. \A x : SumFunctionOnSet(Contributions(x), {}) = 0
  BY SumFacts, FS_EmptySet
<1>5. RollupExact
  BY <1>1, <1>2, <1>3, <1>4, RollupForm
<1>6. SupersededJustified /\ Settled
  BY <1>2 DEF SupersededJustified, Settled
<1>7. Planned
  BY <1>1 DEF Planned
<1> QED BY <1>5, <1>6, <1>7 DEF LInv

\* What is known of the events stays true when rooms are created.
LEMMA TimesKept ==
  ASSUME EventsKept, NEW k \in DOMAIN events, NEW s
  PROVE  Due(k, s)' = Due(k, s) /\ WindowEnd(k, s)' = WindowEnd(k, s)
BY DEF EventsKept, Due, WindowEnd

\* Steps that leave the store alone preserve what the invariant says of it.
LEMMA StoreKept ==
  ASSUME RollupExact, SupersededJustified, Settled, EventsKept, store' = store, TypeOK'
  PROVE  RollupExact' /\ SupersededJustified' /\ Settled'
<1>1. DOMAIN store.rooms \subseteq DOMAIN events /\ DOMAIN store.checks = DOMAIN store.rooms
  BY DEF RollupExact, TypeOK
<1>2. RollupExact'
  BY DEF RollupExact
<1>3. SupersededJustified'
  <2> SUFFICES ASSUME NEW k \in DOMAIN store.checks, NEW s \in Stages,
                      store.checks[k][s].outcome = "superseded"
               PROVE  \E j \in DOMAIN store.rooms :
                        /\ j > k /\ events'[j].name = events'[k].name
                        /\ events'[j].created < WindowEnd(k, s)'
    BY DEF SupersededJustified
  <2>1. PICK j \in DOMAIN store.rooms :
          j > k /\ events[j].name = events[k].name /\ events[j].created < WindowEnd(k, s)
    BY DEF SupersededJustified
  <2>2. j \in DOMAIN events /\ k \in DOMAIN events
    BY <1>1
  <2> QED BY <2>1, <2>2, TimesKept DEF EventsKept
<1>4. Settled'
  <2> SUFFICES ASSUME NEW k \in DOMAIN store.rooms
               PROVE  /\ store.rooms[k] <= store.listed
                      /\ \A s \in Stages : store.checks[k][s].outcome # "pending" =>
                           Due(k, s)' <= store.updated
    BY DEF Settled
  <2>1. k \in DOMAIN events
    BY <1>1
  <2> QED BY <2>1, TimesKept DEF Settled
<1> QED BY <1>2, <1>3, <1>4

\* What a tick has planned holds as long as the store and its listing stay.
LEMMA PlanKept ==
  ASSUME TypeOK, Planned, EventsKept, store' = store, tick # Idle,
         listing'[tick.owner] = listing[tick.owner],
         tick'.owner = tick.owner, tick'.ts = tick.ts, tick'.created = tick.created,
         tick'.credited = tick.credited, tick'.selected = tick.selected,
         tick'.superseded = tick.superseded, tick'.agedOut = tick.agedOut,
         \A c \in DOMAIN tick'.results : Attempted(tick'.results[c])
  PROVE  Planned'
<1>1. Known \subseteq DOMAIN events
  BY DEF Known, Planned, TypeOK
<1>2. Known' = Known
  BY DEF Known
<1>3. \A c \in tick.selected \cup tick.superseded \cup tick.agedOut :
        Outcome(c[1], c[2])' = Outcome(c[1], c[2])
  BY DEF Outcome
<1>4. \A c \in tick.selected \cup tick.superseded \cup tick.agedOut :
        c[1] \in Known /\ Outcome(c[1], c[2]) = "pending" /\ Due(c[1], c[2]) <= tick.ts
  BY DEF Planned
<1>5. \A c \in tick.selected \cup tick.superseded \cup tick.agedOut :
        Due(c[1], c[2])' = Due(c[1], c[2]) /\ WindowEnd(c[1], c[2])' = WindowEnd(c[1], c[2])
  BY <1>1, <1>4, TimesKept
<1>6. ASSUME NEW c \in tick.superseded
      PROVE  \E j \in Known : j > c[1] /\ events'[j].name = events'[c[1]].name
                                /\ events'[j].created < WindowEnd(c[1], c[2])'
  <2>1. PICK j \in Known : j > c[1] /\ events[j].name = events[c[1]].name
                             /\ events[j].created < WindowEnd(c[1], c[2])
    BY DEF Planned
  <2>2. j \in DOMAIN events /\ c[1] \in DOMAIN events
    BY <1>1, <1>4
  <2> QED BY <1>5, <2>1, <2>2 DEF EventsKept
<1>7. tick.created \subseteq DOMAIN events' \ DOMAIN store.rooms
  BY DEF Planned, EventsKept
<1>8. /\ tick.owner \in Procs /\ listing'[tick.owner] # NoListing
      /\ listing'[tick.owner].at >= store.listed /\ tick.credited \subseteq Known
      /\ tick.selected \cap (tick.superseded \cup tick.agedOut) = {}
      /\ tick.superseded \cap tick.agedOut = {}
  BY DEF Planned
<1> QED BY <1>2, <1>3, <1>4, <1>5, <1>6, <1>7, <1>8 DEF Planned

\* A tick that has just been planned.
LEMMA PlanMade ==
  ASSUME TypeOK, NEW p \in Procs, Plan(p)
  PROVE  Planned'
<1> DEFINE known == DOMAIN store.rooms \cup tick'.created
<1>1. /\ tick' \in Tick /\ DOMAIN tick'.results = {}
      /\ tick'.owner = p /\ tick'.ts = now
      /\ tick'.created = EventWindow \ DOMAIN store.rooms
      /\ tick'.credited = CreditedRooms(known, listing[p])
      /\ tick'.selected \subseteq ActiveChecks(known, now)
      /\ tick'.superseded \subseteq SupersededChecks(known, now)
      /\ tick'.agedOut \subseteq AgedOutChecks(known, now)
  BY PlanTypes
<1>2. listing' = listing /\ store' = store /\ events' = events
  BY DEF Plan
<1>3. known = Known'
  BY <1>2 DEF Known
<1>4. listing[p] # NoListing /\ listing[p].at >= store.listed
  <2>1. listing[p].at \in Int /\ store.listed \in Int
    BY ConstantsAssumption DEF TypeOK, Time, Never
  <2> QED BY <2>1 DEF Plan, GetsLock, PlanRefused
<1>5. tick'.created \subseteq DOMAIN events \ DOMAIN store.rooms
  BY <1>1 DEF EventWindow
<1>6. known \subseteq DOMAIN events /\ known \subseteq Int
  BY <1>5 DEF TypeOK
<1>7. IsFiniteSet(known)
  BY <1>6, RoomsFinite, FS_Subset
<1> HIDE DEF known
<1>8. tick'.credited \subseteq known
  BY <1>1, <1>6, <1>7, CreditedAreKnown
<1>9. ASSUME NEW c \in tick'.selected \cup tick'.superseded \cup tick'.agedOut
      PROVE  c[1] \in known /\ Outcome(c[1], c[2]) = "pending" /\ Due(c[1], c[2]) <= now
  <2>1. c \in DueChecks(known, now)
    BY <1>1 DEF ActiveChecks, SupersededChecks, AgedOutChecks
  <2> QED BY <2>1 DEF DueChecks
<1>10. ASSUME NEW c \in tick'.superseded
       PROVE  \E j \in known : j > c[1] /\ events[j].name = events[c[1]].name
                                 /\ events[j].created < WindowEnd(c[1], c[2])
  <2>1. SupersededIn(known, c[1], c[2], now)
    BY <1>1 DEF SupersededChecks
  <2> QED BY <2>1 DEF SupersededIn, NewerCreated
<1>11. \A c : /\ Outcome(c[1], c[2])' = Outcome(c[1], c[2])
              /\ Due(c[1], c[2])' = Due(c[1], c[2])
              /\ WindowEnd(c[1], c[2])' = WindowEnd(c[1], c[2])
  BY <1>2 DEF Outcome, Due, WindowEnd
<1>12. /\ tick'.selected \cap (tick'.superseded \cup tick'.agedOut) = {}
       /\ tick'.superseded \cap tick'.agedOut = {}
  BY <1>1 DEF ActiveChecks, AgedOutChecks
<1> QED BY <1>1, <1>2, <1>3, <1>4, <1>5, <1>8, <1>9, <1>10, <1>11, <1>12 DEF Planned

-----------------------------------------------------------------------------
(* A tick that is committed.                                               *)

\* The checks of which a tick changes the row.
Written == DOMAIN tick.results \cup tick.superseded \cup tick.agedOut

\* A tick writes due checks of rooms it knows, which have no outcome yet.
LEMMA WrittenPending ==
  ASSUME TypeOK, Planned, tick # Idle, NEW c \in Written
  PROVE  /\ c = <<c[1], c[2]>> /\ c[1] \in Known /\ c[2] \in Stages
         /\ Outcome(c[1], c[2]) = "pending" /\ Due(c[1], c[2]) <= tick.ts
<1>1. c \in tick.selected \cup tick.superseded \cup tick.agedOut
  BY DEF Written, TypeOK
<1>2. c \in Check
  BY <1>1 DEF TypeOK, Tick
<1> QED BY <1>1, <1>2 DEF Planned, Check

\* The rows of a tick: each is a row, and differs from the recorded one only
\* where the tick writes it.
LEMMA NewRows ==
  ASSUME TypeOK, Planned, tick # Idle, NEW k \in Known, NEW s \in Stages
  PROVE  /\ NewRow(k, s) \in Row
         /\ <<k, s>> \notin Written =>
              NewRow(k, s) = IF k \in tick.created THEN PendingRow ELSE store.checks[k][s]
         /\ NewRow(k, s).outcome = "superseded" =>
              \/ <<k, s>> \in tick.superseded
              \/ k \in DOMAIN store.checks /\ store.checks[k][s].outcome = "superseded"
<1> DEFINE c == <<k, s>>
<1>0. /\ c \in DOMAIN tick.results => c \notin tick.superseded /\ c \notin tick.agedOut
      /\ c \in tick.superseded => c \notin tick.agedOut
  BY DEF Planned, TypeOK
<1>1. PendingRow \in Row
  BY DEF PendingRow, Row, Outcomes, Seconds
<1>2. /\ [PendingRow EXCEPT !.outcome = "superseded"] \in Row
      /\ [PendingRow EXCEPT !.outcome = "agedOut"] \in Row
      /\ [PendingRow EXCEPT !.outcome = "agedOut"].outcome = "agedOut"
      /\ PendingRow.outcome = "pending"
  BY DEF PendingRow, Row, Outcomes, Seconds
<1>3. CASE c \in DOMAIN tick.results
  <2>1. NewRow(k, s) = tick.results[c]
    BY <1>0, <1>3 DEF NewRow
  <2>2. tick.results \in Readings
    BY DEF TypeOK, Tick
  <2>3. tick.results[c] \in Row
    BY <1>3, <2>2 DEF Readings
  <2>4. Attempted(tick.results[c])
    BY <1>3 DEF Planned
  <2> QED BY <1>3, <2>1, <2>3, <2>4 DEF Written, Attempted
<1>4. CASE c \notin DOMAIN tick.results /\ c \in tick.superseded
  <2>1. NewRow(k, s) = [PendingRow EXCEPT !.outcome = "superseded"]
    BY <1>0, <1>4 DEF NewRow
  <2> QED BY <1>2, <1>4, <2>1 DEF Written
<1>5. CASE c \notin DOMAIN tick.results /\ c \notin tick.superseded /\ c \in tick.agedOut
  <2>1. NewRow(k, s) = [PendingRow EXCEPT !.outcome = "agedOut"]
    BY <1>5 DEF NewRow
  <2> QED BY <1>2, <1>5, <2>1 DEF Written
<1>6. CASE c \notin Written
  <2>1. NewRow(k, s) = IF k \in tick.created THEN PendingRow ELSE store.checks[k][s]
    BY <1>6 DEF NewRow, Written
  <2>2. k \notin tick.created => k \in DOMAIN store.checks /\ store.checks[k][s] \in Row
    BY DEF Known, TypeOK
  <2> QED BY <1>1, <1>2, <2>1, <2>2
<1> QED BY <1>3, <1>4, <1>5, <1>6 DEF Written

\* A row with an outcome is left as it is.
LEMMA SettledRowKept ==
  ASSUME TypeOK, Planned, tick # Idle, NEW k \in DOMAIN store.checks, NEW s \in Stages,
         store.checks[k][s].outcome # "pending"
  PROVE  NewRow(k, s) = store.checks[k][s]
<1>1. k \in Known /\ k \notin tick.created
  BY DEF Known, TypeOK, Planned
<1>2. <<k, s>> \notin Written
  <2> SUFFICES ASSUME <<k, s>> \in Written PROVE FALSE
    OBVIOUS
  <2>1. Outcome(k, s) = "pending"
    BY WrittenPending
  <2> QED BY <2>1 DEF Outcome
<1> QED BY <1>1, <1>2, NewRows

\* A row with an outcome had it before, or was due when the tick was planned.
LEMMA OutcomeIsDue ==
  ASSUME TypeOK, Planned, tick # Idle, NEW k \in Known, NEW s \in Stages,
         NewRow(k, s).outcome # "pending"
  PROVE  \/ Due(k, s) <= tick.ts
         \/ k \in DOMAIN store.checks /\ store.checks[k][s].outcome # "pending"
<1>1. CASE <<k, s>> \in Written
  <2>1. Due(k, s) <= tick.ts
    BY <1>1, WrittenPending
  <2> QED BY <2>1
<1>2. CASE <<k, s>> \notin Written
  <2>1. NewRow(k, s) = IF k \in tick.created THEN PendingRow ELSE store.checks[k][s]
    BY <1>2, NewRows
  <2>2. k \notin tick.created
    BY <2>1 DEF PendingRow
  <2> QED BY <2>1, <2>2 DEF Known, TypeOK
<1> QED BY <1>1, <1>2

\* The store after a commit.
LEMMA CommittedStore ==
  ASSUME TypeOK, Commit
  PROVE  /\ store'.checks = NewChecks /\ DOMAIN NewChecks = Known
         /\ DOMAIN store'.checks = Known /\ DOMAIN store'.rooms = Known
         /\ \A k \in Known : store'.rooms[k] =
              IF k \in tick.credited THEN listing[tick.owner].at
              ELSE IF k \in tick.created THEN Never ELSE store.rooms[k]
         /\ \A k \in Known : store'.checks[k] = [s \in Stages |-> NewRow(k, s)]
         /\ store'.totals = Rollup(store.totals, store.checks, NewChecks, Touched)
         /\ store'.rotation = (store.rotation + 1) % Cardinality(Stages)
         /\ store'.updated = tick.ts /\ store'.listed = listing[tick.owner].at
         /\ tick # Idle /\ ~CommitRefused /\ EndTick
         /\ now' = now /\ steps' = steps /\ events' = events
<1> DEFINE checks == NewChecks
           rooms == [k \in DOMAIN checks |->
                       IF k \in tick.credited THEN listing[tick.owner].at
                       ELSE IF k \in tick.created THEN Never ELSE store.rooms[k]]
           totals == Rollup(store.totals, store.checks, checks, Touched)
<1>1. DOMAIN NewChecks = Known /\ \A k \in Known : NewChecks[k] = [s \in Stages |-> NewRow(k, s)]
  BY DEF NewChecks, Known
<1>2. store' = [rooms |-> rooms, checks |-> checks, totals |-> totals,
                rotation |-> (store.rotation + 1) % Cardinality(Stages),
                updated |-> tick.ts, listed |-> listing[tick.owner].at]
  BY DEF Commit
<1>3. DOMAIN rooms = Known /\ \A k \in Known : rooms[k] =
              IF k \in tick.credited THEN listing[tick.owner].at
              ELSE IF k \in tick.created THEN Never ELSE store.rooms[k]
  BY <1>1
<1>4. tick # Idle /\ ~CommitRefused /\ EndTick /\ now' = now /\ steps' = steps /\ events' = events
  BY DEF Commit
<1> HIDE DEF rooms, totals
<1> QED BY <1>1, <1>2, <1>3, <1>4 DEF totals

\* A commit moves each counter to the sum of the new contributions.
LEMMA CommittedTotals ==
  ASSUME RollupExact, Planned, Commit, NEW x \in Counters
  PROVE  /\ store'.totals[x] = SumFunctionOnSet([k \in Known |-> Tally(NewChecks[k])[x]], Known)
         /\ store'.totals[x] \in Nat
<1> DEFINE f == Contributions(x)
           g == [k \in Known |-> Tally(NewChecks[k])[x]]
           before == [k \in Touched |-> IF k \in DOMAIN store.checks
                        THEN Tally(store.checks[k]) ELSE [y \in Counters |-> 0]]
           after == [k \in Touched |-> Tally(NewChecks[k])]
           d == [k \in Touched |-> after[k][x] - before[k][x]]
           D == DOMAIN store.checks
<1>1. TypeOK /\ store.totals = [y \in Counters |-> SumFunctionOnSet(Contributions(y), D)]
  BY RollupForm
<1>2. /\ store'.totals = Rollup(store.totals, store.checks, NewChecks, Touched)
      /\ DOMAIN NewChecks = Known /\ tick # Idle
      /\ \A k \in Known : NewChecks[k] = [s \in Stages |-> NewRow(k, s)]
  BY <1>1, CommittedStore DEF NewChecks
<1>3. store'.totals[x] = store.totals[x] + SumFunction(d)
  BY <1>2 DEF Rollup
<1>4. SumFunction(d) = SumFunctionOnSet(d, Touched)
  BY DEF SumFunction
<1>5. Known \subseteq DOMAIN events /\ D \subseteq Known /\ D = DOMAIN store.rooms
  BY <1>1, <1>2 DEF Known, TypeOK, Planned
<1>6. IsFiniteSet(Known)
  BY <1>1, <1>5, RoomsFinite, FS_Subset
<1>7. Touched \subseteq Known /\ Known \ D \subseteq Touched
  <2>1. \A c \in Written : c[1] \in Known
    BY <1>1, <1>2, WrittenPending
  <2>2. Touched = tick.created \cup {c[1] : c \in Written}
    BY DEF Touched, Written
  <2> QED BY <1>5, <2>1, <2>2 DEF Known
<1>8. \A k \in Known : g[k] \in Nat
  BY TallyType
<1>9. \A k \in D : f[k] \in Int
  BY TallyType DEF Contributions
<1>10. ASSUME NEW k \in Touched
       PROVE  d[k] = g[k] - (IF k \in D THEN f[k] ELSE 0)
  <2>1. d[k] = Tally(NewChecks[k])[x] - before[k][x]
    OBVIOUS
  <2>2. before[k][x] = IF k \in D THEN Tally(store.checks[k])[x] ELSE 0
    OBVIOUS
  <2>3. k \in D => f[k] = Tally(store.checks[k])[x]
    BY DEF Contributions
  <2>4. g[k] = Tally(NewChecks[k])[x]
    BY <1>7
  <2> HIDE DEF d, before, f, g
  <2> QED BY <2>1, <2>2, <2>3, <2>4
<1>11. ASSUME NEW k \in Known \ Touched
       PROVE  g[k] = f[k]
  <2>1. k \in D /\ k \notin tick.created /\ store.checks[k] \in [Stages -> Row]
    BY <1>1, <1>5, <1>7 DEF Touched, TypeOK
  <2>2. ASSUME NEW s \in Stages PROVE NewRow(k, s) = store.checks[k][s]
    <3>1. <<k, s>> \notin Written
      <4> SUFFICES ASSUME <<k, s>> \in Written PROVE FALSE
        OBVIOUS
      <4>1. <<k, s>>[1] \in Touched
        BY DEF Touched, Written
      <4> QED BY <4>1
    <3> QED BY <1>1, <1>2, <2>1, <3>1, NewRows
  <2>3. NewChecks[k] = store.checks[k]
    BY <1>2, <2>1, <2>2
  <2> QED BY <2>1, <2>3 DEF Contributions
<1> HIDE DEF f, g, d, before, after, D
<1>12. SumFunctionOnSet(g, Known) = SumFunctionOnSet(f, D) + SumFunctionOnSet(d, Touched)
  <2>1. \A k \in Known : g[k] \in Int
    BY <1>8
  <2> QED BY <1>5, <1>6, <1>7, <1>9, <1>10, <1>11, <2>1, SumOfChanges
<1>13. store'.totals[x] = SumFunctionOnSet(g, Known)
  BY <1>1, <1>3, <1>4, <1>12 DEF f
<1>14. SumFunctionOnSet(g, Known) \in Nat
  BY <1>6, <1>8, SumOfNaturals
<1> QED BY <1>13, <1>14 DEF g

\* A commit preserves the types.
LEMMA CommittedTypes ==
  ASSUME RollupExact, Planned, Commit
  PROVE  TypeOK'
<1>1. TypeOK
  BY DEF RollupExact
<1>2. /\ DOMAIN store'.checks = Known /\ DOMAIN store'.rooms = Known
      /\ \A k \in Known : store'.rooms[k] =
              IF k \in tick.credited THEN listing[tick.owner].at
              ELSE IF k \in tick.created THEN Never ELSE store.rooms[k]
      /\ \A k \in Known : store'.checks[k] = [s \in Stages |-> NewRow(k, s)]
      /\ store'.totals = Rollup(store.totals, store.checks, NewChecks, Touched)
      /\ store'.rotation = (store.rotation + 1) % Cardinality(Stages)
      /\ store'.updated = tick.ts /\ store'.listed = listing[tick.owner].at
      /\ tick # Idle /\ EndTick
      /\ now' = now /\ steps' = steps /\ events' = events
  BY <1>1, CommittedStore
<1>3. /\ listing' \in [Procs -> [at : Time \cup {Never}, names : SUBSET Names]]
      /\ tick' \in Tick /\ DOMAIN tick'.results \subseteq tick'.selected
  BY <1>1, <1>2, EndTickTypes
<1>4. Known \subseteq DOMAIN events /\ DOMAIN store.rooms = DOMAIN store.checks
  BY <1>1, <1>2 DEF Known, TypeOK, Planned
<1>5. listing[tick.owner].at \in Time \cup {Never} /\ tick.ts \in Time
  BY <1>1, <1>2 DEF Planned, TypeOK, Tick
<1>6. ASSUME NEW k \in Known PROVE store'.rooms[k] \in Time \cup {Never}
  BY <1>1, <1>2, <1>5 DEF Known, TypeOK
<1>7. ASSUME NEW k \in Known PROVE store'.checks[k] \in [Stages -> Row]
  <2>1. \A s \in Stages : NewRow(k, s) \in Row
    BY <1>1, <1>2, NewRows
  <2> QED BY <1>2, <2>1
<1>8. store'.totals \in [Counters -> Nat]
  <2>1. \A x \in Counters : store'.totals[x] \in Nat
    BY CommittedTotals
  <2>2. store'.totals = [x \in Counters |-> store'.totals[x]]
    BY <1>2 DEF Rollup
  <2> QED BY <2>1, <2>2
<1>9. store'.rotation \in 0..(Cardinality(Stages) - 1)
  <2>1. store.rotation \in 0..(Cardinality(Stages) - 1) /\ Cardinality(Stages) \in Nat \ {0}
    BY <1>1, StageCount DEF TypeOK
  <2> DEFINE n == Cardinality(Stages)
  <2> HIDE DEF n
  <2>2. \A i \in 0..(n - 1) : n \in Nat \ {0} => (i + 1) % n \in 0..(n - 1)
    OBVIOUS
  <2> QED BY <1>2, <2>1, <2>2 DEF n
<1>10. {store'.updated, store'.listed} \subseteq Time \cup {Never}
  BY <1>2, <1>5
<1>11. StoreOK'
  BY <1>2, <1>4, <1>6, <1>7, <1>8, <1>9, <1>10 DEF StoreOK
<1>12. now' \in 0..MaxTime /\ steps' \in 0..MaxSteps
       /\ events' \in Seq([name : Names, created : Time]) /\ Len(events') <= MaxEvents
  BY <1>1, <1>2 DEF TypeOK
<1> QED BY <1>3, <1>11, <1>12 DEF TypeOK, StoreOK

\* A commit preserves the invariant.
LEMMA CommittedLInv ==
  ASSUME LInv, Commit
  PROVE  LInv'
<1>1. RollupExact /\ SupersededJustified /\ Planned /\ Settled /\ TypeOK
  BY DEF LInv, RollupExact
<1>2. /\ DOMAIN store'.checks = Known /\ DOMAIN store'.rooms = Known
      /\ store'.checks = NewChecks
      /\ \A k \in Known : store'.rooms[k] =
              IF k \in tick.credited THEN listing[tick.owner].at
              ELSE IF k \in tick.created THEN Never ELSE store.rooms[k]
      /\ \A k \in Known : store'.checks[k] = [s \in Stages |-> NewRow(k, s)]
      /\ store'.totals = Rollup(store.totals, store.checks, NewChecks, Touched)
      /\ store'.updated = tick.ts /\ store'.listed = listing[tick.owner].at
      /\ tick # Idle /\ ~CommitRefused /\ EndTick /\ events' = events
  BY <1>1, CommittedStore
<1>3. TypeOK'
  BY <1>1, CommittedTypes
<1>4. RollupExact'
  <2>1. store'.totals = [x \in Counters |-> store'.totals[x]]
    BY <1>2 DEF Rollup
  <2>2. \A x \in Counters : store'.totals[x] =
          SumFunctionOnSet([k \in Known |-> Tally(NewChecks[k])[x]], Known)
    BY <1>1, CommittedTotals
  <2>3. \A x : Contributions(x)' = [k \in Known |-> Tally(NewChecks[k])[x]]
    BY <1>2 DEF Contributions
  <2>4. store'.totals = [x \in Counters |->
                           SumFunctionOnSet(Contributions(x)', DOMAIN store'.checks)]
    BY <1>2, <2>1, <2>2, <2>3
  <2>5. (RollupExact <=>
          TypeOK /\ store.totals = [x \in Counters |->
                SumFunctionOnSet(Contributions(x), DOMAIN store.checks)])'
    BY RollupForm, PTL
  <2> QED BY <1>3, <2>4, <2>5
<1>5. \A k, s : Due(k, s)' = Due(k, s) /\ WindowEnd(k, s)' = WindowEnd(k, s)
  BY <1>2 DEF Due, WindowEnd
<1>6. SupersededJustified'
  <2> SUFFICES ASSUME NEW k \in Known, NEW s \in Stages, NewRow(k, s).outcome = "superseded"
               PROVE  \E j \in Known : j > k /\ events[j].name = events[k].name
                                         /\ events[j].created < WindowEnd(k, s)
    BY <1>2, <1>5 DEF SupersededJustified
  <2>1. CASE <<k, s>> \in tick.superseded
    BY <1>1, <1>2, <2>1 DEF Planned
  <2>2. CASE k \in DOMAIN store.checks /\ store.checks[k][s].outcome = "superseded"
    BY <1>1, <2>2 DEF SupersededJustified, Known
  <2> QED BY <1>1, <1>2, <2>1, <2>2, NewRows
<1>7. Settled'
  <2> SUFFICES ASSUME NEW k \in Known
               PROVE  /\ store'.rooms[k] <= listing[tick.owner].at
                      /\ \A s \in Stages : NewRow(k, s).outcome # "pending" =>
                           Due(k, s) <= tick.ts
    BY <1>2, <1>5 DEF Settled
  <2>1. /\ listing[tick.owner].at \in Int /\ store.listed \in Int /\ store.updated \in Int
        /\ tick.ts \in Int
        /\ listing[tick.owner].at >= store.listed /\ listing[tick.owner].at >= Never
    BY <1>1, <1>2, ConstantsAssumption DEF Planned, TypeOK, Tick, Time, Never
  <2>2. store'.rooms[k] <= listing[tick.owner].at
    <3>1. k \in DOMAIN store.rooms => store.rooms[k] <= store.listed /\ store.rooms[k] \in Int
      BY <1>1, ConstantsAssumption DEF Settled, TypeOK, Time, Never
    <3> QED BY <1>2, <2>1, <3>1 DEF Known, Never
  <2>3. ASSUME NEW s \in Stages, NewRow(k, s).outcome # "pending"
        PROVE  Due(k, s) <= tick.ts
    <3>1. CASE k \in DOMAIN store.checks /\ store.checks[k][s].outcome # "pending"
      <4>1. k \in DOMAIN store.rooms /\ Due(k, s) <= store.updated
        BY <1>1, <3>1 DEF Settled, TypeOK
      <4>2. tick.ts >= store.updated
        BY <1>2, <2>1 DEF CommitRefused
      <4>3. Due(k, s) \in Int
        <5>1. k \in DOMAIN events /\ s \in Int
          BY <1>1, <4>1, ConstantsAssumption DEF TypeOK
        <5>2. events[k].created \in Int
          <6> DEFINE Event == [name : Names, created : Time]
          <6>1. events \in Seq(Event)
            BY <1>1 DEF TypeOK
          <6> HIDE DEF Event
          <6>2. events[k] \in Event
            BY <5>1, <6>1
          <6> QED BY <6>2, ConstantsAssumption DEF Event, Time
        <5> QED BY <5>1, <5>2 DEF Due
      <4> QED BY <2>1, <4>1, <4>2, <4>3
    <3> QED BY <1>1, <1>2, <2>3, <3>1, OutcomeIsDue
  <2> QED BY <2>2, <2>3
<1>8. Planned'
  BY <1>2 DEF EndTick, Planned
<1> QED BY <1>4, <1>6, <1>7, <1>8 DEF LInv

-----------------------------------------------------------------------------
(* The theorems.                                                           *)

\* The other steps keep what the tick under way has planned.
LEMMA PlannedStep ==
  ASSUME TypeOK, Planned, [Next]_vars, ~Commit
  PROVE  Planned'
<1>1. EventsKept
  BY EventsStep
<1>2. store' = store
  BY DEF Next, vars, ReadListing, Plan, Refused, Read, EarlyAttempt, RolledBack, Advance,
     StepBack, Create, Abandon
<1>3. tick' = Idle => Planned'
  BY DEF Planned
<1>4. ASSUME tick' = tick, tick = Idle \/ listing'[tick.owner] = listing[tick.owner]
      PROVE  Planned'
  <2>1. CASE tick = Idle
    BY <1>3, <1>4, <2>1
  <2>2. CASE tick # Idle
    <3>1. \A c \in DOMAIN tick'.results : Attempted(tick'.results[c])
      BY <1>4, <2>2 DEF Planned
    <3> QED BY <1>1, <1>2, <1>4, <2>2, <3>1, PlanKept
  <2> QED BY <2>1, <2>2
<1>5. ASSUME NEW p \in Procs, ReadListing(p) PROVE Planned'
  <2>1. tick = Idle \/ tick.owner # p
    BY <1>5 DEF ReadListing, Planned
  <2>2. tick' = tick /\ listing' = [listing EXCEPT ![p] = listing'[p]]
        /\ listing \in [Procs -> [at : Time \cup {Never}, names : SUBSET Names]]
    BY <1>5 DEF ReadListing, TypeOK
  <2>3. tick = Idle \/ listing'[tick.owner] = listing[tick.owner]
    BY <2>1, <2>2 DEF Planned
  <2> QED BY <1>4, <2>2, <2>3
<1>6. ASSUME NEW p \in Procs, Plan(p) PROVE Planned'
  BY <1>6, PlanMade
<1>7. ASSUME NEW p \in Procs, Refused(p) PROVE Planned'
  BY <1>3, <1>7 DEF Refused, GetsLock
<1>8. ASSUME Read PROVE Planned'
  <2>0. PICK c \in Unread : \E e \in Evidence(events[c[1]].name) :
          tick' = [tick EXCEPT !.results =
                     [d \in DOMAIN tick.results \cup {c} |->
                        IF d = c THEN [outcome |-> e.outcome, second |-> e.second,
                                       timely |-> now < WindowEnd(c[1], c[2])]
                        ELSE tick.results[d]]]
    BY <1>8 DEF Read
  <2>1. PICK e \in Evidence(events[c[1]].name) :
          tick' = [tick EXCEPT !.results =
                     [d \in DOMAIN tick.results \cup {c} |->
                        IF d = c THEN [outcome |-> e.outcome, second |-> e.second,
                                       timely |-> now < WindowEnd(c[1], c[2])]
                        ELSE tick.results[d]]]
    BY <2>0
  <2>2. c \in tick.selected /\ tick \in Tick
    BY DEF Unread, TypeOK
  <2>3. tick # Idle
    BY <2>2 DEF Idle
  <2>4. c[1] \in DOMAIN events
    <3>1. c[1] \in Known /\ tick.created \subseteq DOMAIN events
      BY <2>2, <2>3 DEF Planned
    <3> QED BY <3>1 DEF Known, TypeOK
  <2> DEFINE row == [outcome |-> e.outcome, second |-> e.second,
                     timely |-> now < WindowEnd(c[1], c[2])]
             rows == [d \in DOMAIN tick.results \cup {c} |->
                        IF d = c THEN row ELSE tick.results[d]]
  <2>5. Attempted(row)
    BY <2>4, EvidenceType DEF Attempted
  <2> HIDE DEF row
  <2>6. \A d \in DOMAIN rows : Attempted(rows[d])
    BY <2>3, <2>5 DEF Planned
  <2>7. tick' = [tick EXCEPT !.results = rows]
    BY <2>1 DEF row
  <2> HIDE DEF rows
  <2>8. /\ tick'.results = rows
        /\ tick'.owner = tick.owner /\ tick'.ts = tick.ts /\ tick'.created = tick.created
        /\ tick'.credited = tick.credited /\ tick'.selected = tick.selected
        /\ tick'.superseded = tick.superseded /\ tick'.agedOut = tick.agedOut
    BY <2>2, <2>7 DEF Tick
  <2>9. listing' = listing
    BY <1>8 DEF Read
  <2> QED BY <1>1, <1>2, <2>3, <2>6, <2>8, <2>9, PlanKept
<1>9. ASSUME EndTick PROVE Planned'
  BY <1>3, <1>9 DEF EndTick
<1>10. ASSUME NEW p \in Procs, Abandon(p) PROVE Planned'
  <2>1. CASE tick.owner = p
    BY <1>3, <1>10, <2>1 DEF Abandon
  <2>2. CASE tick.owner # p
    <3>1. tick' = tick /\ listing' = [listing EXCEPT ![p] = NoListing]
          /\ listing \in [Procs -> [at : Time \cup {Never}, names : SUBSET Names]]
      BY <1>10, <2>2 DEF Abandon, TypeOK
    <3>2. tick = Idle \/ listing'[tick.owner] = listing[tick.owner]
      BY <2>2, <3>1 DEF Planned
    <3> QED BY <1>4, <3>1, <3>2
  <2> QED BY <2>1, <2>2
<1>11. ASSUME listing' = listing, tick' = tick PROVE Planned'
  BY <1>4, <1>11
<1> QED
  BY <1>5, <1>6, <1>7, <1>8, <1>9, <1>10, <1>11 DEF Next, vars, EarlyAttempt, RolledBack,
     Advance, StepBack, Create

\* Every step preserves the invariant.
LEMMA NextLInv == LInv /\ [Next]_vars => LInv'
<1> SUFFICES ASSUME LInv, [Next]_vars PROVE LInv'
  OBVIOUS
<1>1. CASE Commit
  BY <1>1, CommittedLInv
<1>2. CASE ~Commit
  <2>1. RollupExact /\ SupersededJustified /\ Planned /\ Settled /\ TypeOK
    BY DEF LInv, RollupExact
  <2>2. TypeOK' /\ Planned' /\ EventsKept
    BY <1>2, <2>1, TypeStep, PlannedStep, EventsStep
  <2>3. store' = store
    BY <1>2 DEF Next, vars, ReadListing, Plan, Refused, Read, EarlyAttempt, RolledBack,
       Advance, StepBack, Create, Abandon
  <2> QED BY <2>1, <2>2, <2>3, StoreKept DEF LInv
<1> QED BY <1>1, <1>2

\* After any sequence of ticks, kills and steps of the clock, the counters are
\* those of the source rows, a supersession has its newer room, and the tick
\* under way has planned what the store still allows.
THEOREM Lifecycle == Spec => []LInv
<1>1. Init => LInv
  BY InitLInv
<1>2. LInv /\ [Next]_vars => LInv'
  BY NextLInv
<1> QED BY <1>1, <1>2, PTL DEF Spec

\* The counters that triggers keep are those recomputed from the source rows.
THEOREM CountersMatchRows == Spec => []RollupExact
<1>1. LInv => RollupExact
  BY DEF LInv
<1> QED BY <1>1, Lifecycle, PTL

\* A check is superseded only by a newer room, created before its window closed.
THEOREM SupersededByNewer == Spec => []SupersededJustified
<1>1. LInv => SupersededJustified
  BY DEF LInv
<1> QED BY <1>1, Lifecycle, PTL

\* No step takes back an outcome, or the listing time of a room.
LEMMA StepAdvances ==
  ASSUME LInv, [Next]_vars
  PROVE  \A k \in DOMAIN store.checks :
           /\ store'.rooms[k] >= store.rooms[k]
           /\ \A s \in Stages : store.checks[k][s].outcome # "pending" =>
                store'.checks[k][s] = store.checks[k][s]
<1> SUFFICES ASSUME NEW k \in DOMAIN store.checks
             PROVE  /\ store'.rooms[k] >= store.rooms[k]
                    /\ \A s \in Stages : store.checks[k][s].outcome # "pending" =>
                         store'.checks[k][s] = store.checks[k][s]
  OBVIOUS
<1>1. TypeOK /\ Planned /\ Settled
  BY DEF LInv, RollupExact
<1>2. store.rooms[k] \in Int /\ store.listed \in Int /\ store.rooms[k] <= store.listed
  BY <1>1, ConstantsAssumption DEF TypeOK, Settled, Time, Never
<1>3. CASE Commit
  <2>1. /\ k \in Known /\ k \notin tick.created
        /\ store'.rooms[k] = IF k \in tick.credited THEN listing[tick.owner].at
                             ELSE store.rooms[k]
        /\ store'.checks[k] = [s \in Stages |-> NewRow(k, s)]
        /\ tick # Idle
    BY <1>1, <1>3, CommittedStore DEF Known, TypeOK, Planned
  <2>2. listing[tick.owner].at \in Int /\ listing[tick.owner].at >= store.listed
    BY <1>1, <2>1, ConstantsAssumption DEF Planned, TypeOK, Time, Never
  <2>3. \A s \in Stages : store.checks[k][s].outcome # "pending" =>
          NewRow(k, s) = store.checks[k][s]
    BY <1>1, <2>1, SettledRowKept
  <2> QED BY <1>2, <2>1, <2>2, <2>3
<1>4. CASE ~Commit
  <2>1. store' = store
    BY <1>4 DEF Next, vars, ReadListing, Plan, Refused, Read, EarlyAttempt, RolledBack,
       Advance, StepBack, Create, Abandon
  <2> QED BY <1>2, <2>1
<1> QED BY <1>3, <1>4

\* What ticks have settled stays so, whichever collector commits first.
THEOREM SettledForGood == Spec => RoomsAdvance
<1>1. LInv /\ [Next]_vars =>
        [\A k \in DOMAIN store.checks :
           /\ store'.rooms[k] >= store.rooms[k]
           /\ \A s \in Stages : store.checks[k][s].outcome # "pending" =>
                store'.checks[k][s] = store.checks[k][s]]_vars
  BY StepAdvances
<1> QED BY <1>1, Lifecycle, PTL DEF Spec, RoomsAdvance

-----------------------------------------------------------------------------
(* The published coverage.                                                 *)

\* A counter of a stage counts the rooms of which a check is so.
LEMMA StageCounterCounts ==
  ASSUME RollupExact, NEW s \in Stages, NEW y \in StageCounters
  PROVE  store.totals[<<s, y>>] =
           Cardinality({k \in DOMAIN store.checks : StageTally(store.checks[k][s])[y] = 1})
<1> DEFINE x == <<s, y>>
           f == Contributions(x)
           D == DOMAIN store.checks
<1>1. TypeOK /\ store.totals = [z \in Counters |-> SumFunctionOnSet(Contributions(z), D)]
  BY RollupForm
<1>2. x \in Counters /\ x[1] = s /\ x[2] = y /\ s # 0
  BY ConstantsAssumption DEF Counters
<1>3. ASSUME NEW k \in D PROVE f[k] = StageTally(store.checks[k][s])[y]
  BY <1>2 DEF Contributions, Tally
<1>4. \A k \in D : StageTally(store.checks[k][s])[y] \in {0, 1}
  BY DEF StageTally, StageCounters, One
<1>5. IsFiniteSet(D)
  BY <1>1, RoomsFinite
<1> HIDE DEF f, x
<1>6. SumFunctionOnSet(f, D) = Cardinality({k \in D : f[k] = 1})
  <2>1. \A k \in D : f[k] \in {0, 1}
    BY <1>3, <1>4
  <2> HIDE DEF D
  <2> QED BY <1>5, <2>1, SumCounts
<1>7. {k \in D : f[k] = 1} = {k \in D : StageTally(store.checks[k][s])[y] = 1}
  BY <1>3
<1> QED BY <1>1, <1>2, <1>6, <1>7 DEF f, x

\* The counters that coverage takes for its classes, as in StageCoverage.
Counted == [completed |-> "completed", failed |-> "failed", late |-> "late",
            agedOut |-> "finalized"]

\* The checks of a stage that coverage scans, as in StageCoverage.
Scanned(s, c) ==
  {k \in DOMAIN store.checks :
     /\ store.checks[k][s].outcome \in {"pending", "superseded"}
     /\ Due(k, s) <= store.updated
     /\ ScanClass(DOMAIN store.checks, k, s, store.updated) = c}

\* The checks of a stage whose class their outcome decides.
Terminal(s, c) ==
  {k \in DOMAIN store.checks :
     /\ store.checks[k][s].outcome \notin {"pending", "superseded"}
     /\ RowClass(k, s, store.updated) = c}

\* The checks that looking at every row puts in a class.
InClass(s, c) ==
  {k \in DOMAIN store.checks :
     Due(k, s) <= store.updated /\ RowClass(k, s, store.updated) = c}

\* A class has the scanned checks and the terminal ones.
LEMMA ClassParts ==
  ASSUME LInv, NEW s \in Stages, NEW c
  PROVE  InClass(s, c) = Scanned(s, c) \cup Terminal(s, c) /\ Scanned(s, c) \cap Terminal(s, c) = {}
<1>1. TypeOK /\ Settled
  BY DEF LInv, RollupExact
<1>2. ASSUME NEW k \in DOMAIN store.checks
      PROVE  /\ store.checks[k][s].outcome \in {"pending", "superseded"} =>
                  RowClass(k, s, store.updated) =
                    ScanClass(DOMAIN store.checks, k, s, store.updated)
             /\ store.checks[k][s].outcome # "pending" => Due(k, s) <= store.updated
  BY <1>1 DEF RowClass, Attempted, Settled, TypeOK
<1> QED BY <1>2 DEF InClass, Scanned, Terminal

\* The outcome decides the classes that are counted, and no others.
LEMMA TerminalCounted ==
  ASSUME TypeOK, NEW s \in Stages, NEW c \in CoverageClasses
  PROVE  Terminal(s, c) = IF c \in DOMAIN Counted
           THEN {k \in DOMAIN store.checks : StageTally(store.checks[k][s])[Counted[c]] = 1}
           ELSE {}
<1>1. \A k \in DOMAIN store.checks : store.checks[k][s] \in Row
  BY DEF TypeOK
<1>2. \A k \in DOMAIN store.checks : store.checks[k][s].outcome \in Outcomes
                                     /\ store.checks[k][s].timely \in BOOLEAN
  BY <1>1 DEF Row
<1>3. DOMAIN Counted = {"completed", "failed", "late", "agedOut"}
      /\ Counted["completed"] = "completed" /\ Counted["failed"] = "failed"
      /\ Counted["late"] = "late" /\ Counted["agedOut"] = "finalized"
  BY DEF Counted
<1>4. ASSUME NEW k \in DOMAIN store.checks,
             store.checks[k][s].outcome \notin {"pending", "superseded"}
      PROVE  RowClass(k, s, store.updated) = c <=>
               c \in DOMAIN Counted /\ StageTally(store.checks[k][s])[Counted[c]] = 1
  <2>1. store.checks[k][s].outcome \in {"present", "absent", "failed", "agedOut"}
    BY <1>2, <1>4 DEF Outcomes
  <2>2. CASE c = "completed"
    BY <1>2, <1>3, <2>1, <2>2 DEF RowClass, StageTally, Attempted, One
  <2>3. CASE c = "failed"
    BY <1>2, <1>3, <2>1, <2>3 DEF RowClass, StageTally, Attempted, One
  <2>4. CASE c = "late"
    BY <1>2, <1>3, <2>1, <2>4 DEF RowClass, StageTally, Attempted, One
  <2>5. CASE c = "agedOut"
    BY <1>2, <1>3, <2>1, <2>5 DEF RowClass, StageTally, Attempted, One
  <2>6. CASE c \in {"ineligible", "superseded", "deferred"}
    BY <1>2, <1>3, <2>1, <2>6 DEF RowClass, Attempted
  <2> QED BY <2>2, <2>3, <2>4, <2>5, <2>6 DEF CoverageClasses
<1>5. ASSUME NEW k \in DOMAIN store.checks, c \in DOMAIN Counted,
             store.checks[k][s].outcome \in {"pending", "superseded"}
      PROVE  StageTally(store.checks[k][s])[Counted[c]] # 1
  BY <1>3, <1>5 DEF StageTally, Attempted, One
<1> QED BY <1>4, <1>5 DEF Terminal

\* Coverage computed with the counters is that of the rows.
LEMMA CoverageOfRows == LInv => CoverageExact
<1> SUFFICES ASSUME LInv PROVE CoverageExact
  OBVIOUS
<1>1. RollupExact /\ TypeOK
  BY DEF LInv, RollupExact
<1> DEFINE D == DOMAIN store.checks
           class == [k \in D |-> [s \in Stages |->
                       IF Due(k, s) <= store.updated THEN RowClass(k, s, store.updated)
                       ELSE "future"]]
           taken(s, c) == IF c \in DOMAIN Counted THEN store.totals[<<s, Counted[c]>>] ELSE 0
<1>2. ASSUME NEW s \in Stages, NEW c \in CoverageClasses
      PROVE  Cardinality(Scanned(s, c)) + taken(s, c) =
               Cardinality({k \in DOMAIN class : class[k][s] = c})
  <2>1. IsFiniteSet(Scanned(s, c)) /\ IsFiniteSet(Terminal(s, c))
    <3>1. Scanned(s, c) \in SUBSET D /\ Terminal(s, c) \in SUBSET D
      BY DEF Scanned, Terminal
    <3> QED BY <1>1, <3>1, RoomsFinite, FS_Subset
  <2>2. Cardinality(InClass(s, c)) = Cardinality(Scanned(s, c)) + Cardinality(Terminal(s, c))
    <3>1. Cardinality(Scanned(s, c)) \in Nat /\ Cardinality(Terminal(s, c)) \in Nat
      BY <2>1, FS_CardinalityType
    <3>2. Cardinality(Scanned(s, c) \cup Terminal(s, c)) =
            Cardinality(Scanned(s, c)) + Cardinality(Terminal(s, c))
              - Cardinality(Scanned(s, c) \cap Terminal(s, c))
      BY <2>1, FS_Union
    <3>3. InClass(s, c) = Scanned(s, c) \cup Terminal(s, c)
          /\ Cardinality(Scanned(s, c) \cap Terminal(s, c)) = 0
      BY ClassParts, FS_EmptySet
    <3> QED BY <3>1, <3>2, <3>3
  <2>3. Cardinality(Terminal(s, c)) = taken(s, c)
    <3>1. CASE c \in DOMAIN Counted
      <4>1. Counted[c] \in StageCounters
        BY <3>1 DEF Counted, StageCounters
      <4> QED BY <1>1, <3>1, <4>1, TerminalCounted, StageCounterCounts
    <3>2. CASE c \notin DOMAIN Counted
      BY <1>1, <3>2, TerminalCounted, FS_EmptySet
    <3> QED BY <3>1, <3>2
  <2>4. InClass(s, c) = {k \in DOMAIN class : class[k][s] = c}
    <3>1. c # "future"
      BY DEF CoverageClasses
    <3> QED BY <3>1 DEF InClass
  <2> QED BY <2>2, <2>3, <2>4
<1>3. Published = [s \in Stages |-> [c \in CoverageClasses |->
                     Cardinality(Scanned(s, c)) + taken(s, c)]]
  BY DEF Published, StageCoverage, Scanned, Counted
<1>4. CoverageExact <=> Published = [s \in Stages |-> [c \in CoverageClasses |->
                          Cardinality({k \in DOMAIN class : class[k][s] = c})]]
  BY DEF CoverageExact
<1> HIDE DEF class, taken
<1> QED BY <1>2, <1>3, <1>4

\* Every check that was due is published in exactly the class of its row.
THEOREM CoverageMatchesRows == Spec => []CoverageExact
<1> QED BY Lifecycle, CoverageOfRows, PTL
=============================================================================
