--------------------------- MODULE IncidentsProofs ---------------------------
(***************************************************************************)
(* Proofs about Incidents: its invariant OInv; that reading the newest     *)
(* attempts with a carry of the others gives the incidents that the whole  *)
(* table gives; and that no release forgets what the one before it called  *)
(* open.                                                                   *)
(*                                                                         *)
(* The argument for the carry: after each row the pass holds what Active   *)
(* and Done say of the rows up to it, the carry is what Active says of     *)
(* those left out, and at the end both are what the whole table says.      *)
(***************************************************************************)
EXTENDS Incidents, SequenceTheorems, FunctionTheorems, FiniteSetTheorems,
        WellFoundedInduction, TLAPS

-----------------------------------------------------------------------------
(* Smallest and largest elements.                                          *)

\* Some set of a family of subsets of a finite set has no other below it.
LEMMA SmallestSet ==
  ASSUME NEW S, IsFiniteSet(S), NEW F, \A U \in F : U \subseteq S, F # {}
  PROVE  \E U \in F : \A V \in F : V \subseteq U => V = U
<1>1. IsWellFoundedOn(StrictSubsetOrdering(S), SUBSET S)
  BY FS_StrictSubsetOrderingWellFounded, FS_FiniteSubsetsOfFinite
<1>2. PICK U \in F : \A V \in F : ~ (<<V, U>> \in StrictSubsetOrdering(S))
  <2>1. F \subseteq SUBSET S
    OBVIOUS
  <2> QED BY <1>1, <2>1, WFMin, Zenon
<1>3. ASSUME NEW V \in F, V \subseteq U PROVE V = U
  <2>1. V \in SUBSET S /\ U \in SUBSET S
    OBVIOUS
  <2>2. V # U => <<V, U>> \in StrictSubsetOrdering(S)
    BY <1>3, <2>1 DEF StrictSubsetOrdering
  <2> QED BY <1>2, <2>2
<1> QED BY <1>3

\* A nonempty finite set of integers has a largest element.
LEMMA MaxIn ==
  ASSUME NEW S, S \subseteq Int, IsFiniteSet(S), S # {}
  PROVE  Max(S) \in S /\ \A y \in S : y <= Max(S)
<1>1. PICK F : F = {{y \in S : y > x} : x \in S} OBVIOUS
<1>2. PICK U \in F : \A V \in F : V \subseteq U => V = U
  <2>1. (\A U \in F : U \subseteq S) /\ F # {} BY <1>1
  <2> QED BY <2>1, SmallestSet
<1>3. PICK x \in S : U = {y \in S : y > x} BY <1>1
<1>4. ASSUME NEW y \in S, y > x PROVE FALSE
  <2>1. PICK V : V = {z \in S : z > y} OBVIOUS
  <2>2. V \in F BY <1>1, <2>1
  <2>3. ASSUME NEW z \in V PROVE z \in U
    <3>1. x \in Int /\ y \in Int /\ z \in Int /\ z \in S /\ z > y BY <2>1
    <3> QED BY <1>3, <1>4, <3>1
  <2>4. y \in U /\ y \notin V BY <1>3, <1>4, <2>1
  <2> QED BY <1>2, <2>2, <2>3, <2>4
<1>5. \A y \in S : x >= y BY <1>4
<1>6. \E m \in S : \A y \in S : m >= y BY <1>5
<1>7. Max(S) \in S /\ \A y \in S : Max(S) >= y BY <1>6 DEF Max
<1> QED BY <1>7

\* And a smallest one.
LEMMA MinIn ==
  ASSUME NEW S, S \subseteq Int, IsFiniteSet(S), S # {}
  PROVE  Min(S) \in S /\ \A y \in S : Min(S) <= y
<1>1. PICK F : F = {{y \in S : y < x} : x \in S} OBVIOUS
<1>2. PICK U \in F : \A V \in F : V \subseteq U => V = U
  <2>1. (\A U \in F : U \subseteq S) /\ F # {} BY <1>1
  <2> QED BY <2>1, SmallestSet
<1>3. PICK x \in S : U = {y \in S : y < x} BY <1>1
<1>4. ASSUME NEW y \in S, y < x PROVE FALSE
  <2>1. PICK V : V = {z \in S : z < y} OBVIOUS
  <2>2. V \in F BY <1>1, <2>1
  <2>3. ASSUME NEW z \in V PROVE z \in U
    <3>1. x \in Int /\ y \in Int /\ z \in Int /\ z \in S /\ z < y BY <2>1
    <3> QED BY <1>3, <1>4, <3>1
  <2>4. y \in U /\ y \notin V BY <1>3, <1>4, <2>1
  <2> QED BY <1>2, <2>2, <2>3, <2>4
<1>5. \A y \in S : x <= y BY <1>4
<1>6. \E m \in S : \A y \in S : m <= y BY <1>5
<1> QED BY <1>6 DEF Min

\* There is one largest element.
LEMMA MaxEquals ==
  ASSUME NEW S, S \subseteq Int, NEW x \in S, \A y \in S : y <= x
  PROVE  Max(S) = x
<1>1. \E m \in S : \A y \in S : m >= y OBVIOUS
<1>2. Max(S) \in S /\ \A y \in S : Max(S) >= y BY <1>1 DEF Max
<1>3. PICK m : m = Max(S) OBVIOUS
<1>4. m \in Int /\ x \in Int /\ m >= x /\ x >= m BY <1>2, <1>3
<1> QED BY <1>3, <1>4

\* And one smallest.
LEMMA MinEquals ==
  ASSUME NEW S, S \subseteq Int, NEW x \in S, \A y \in S : x <= y
  PROVE  Min(S) = x
<1>1. \E m \in S : \A y \in S : m <= y OBVIOUS
<1>2. Min(S) \in S /\ \A y \in S : Min(S) <= y BY <1>1 DEF Min
<1>3. PICK m : m = Min(S) OBVIOUS
<1>4. m \in Int /\ x \in Int /\ m <= x /\ x <= m BY <1>2, <1>3
<1> QED BY <1>3, <1>4

\* A set of numbers that holds m and, with each of them, the next one.
LEMMA Upward ==
  ASSUME NEW m \in Nat, NEW n \in Nat, NEW S, m \in S,
         \A k \in m..n - 1 : k \in S => k + 1 \in S
  PROVE  \A k \in m..n : k \in S
<1> DEFINE T == {k \in m..n : k \notin S}
<1>1. SUFFICES ASSUME T # {} PROVE FALSE OBVIOUS
<1>2. IsFiniteSet(m..n) /\ T \in SUBSET (m..n) BY FS_Interval
<1>3. IsFiniteSet(T) /\ T \subseteq Int BY <1>2, FS_Subset
<1>4. Min(T) \in T /\ \A y \in T : Min(T) <= y
  <2> HIDE DEF T
  <2> QED BY <1>1, <1>3, MinIn
<1>5. PICK r : r = Min(T) OBVIOUS
<1>6. r \in m..n /\ r \notin S /\ r # m BY <1>4, <1>5
<1>7. r - 1 \in m..n - 1 /\ r - 1 \in m..n /\ ~(r <= r - 1) /\ r - 1 + 1 = r BY <1>6
<1>8. r - 1 \notin T BY <1>4, <1>5, <1>7
<1>9. r - 1 \in S BY <1>7, <1>8
<1> QED BY <1>6, <1>7, <1>9

-----------------------------------------------------------------------------
(* The rows in order.                                                      *)

\* The rows of the table are attempts, and times go up with places.
Sorted ==
  /\ Len(attempts) \in Nat /\ Rows = 1..Len(attempts)
  /\ \A a \in Rows : attempts[a] \in Attempt
  /\ \A a, b \in Rows : a <= b => attempts[a].at <= attempts[b].at

\* Each row is later than all before it when it is later than the last.
LEMMA SortedRows ==
  ASSUME attempts \in Seq(Attempt),
         \A a \in Rows : a > 1 => attempts[a - 1].at <= attempts[a].at
  PROVE  Sorted
<1> DEFINE n == Len(attempts)
<1>1. n \in Nat /\ Rows = 1..n BY LenProperties DEF Rows
<1>2. \A a \in Rows : attempts[a] \in Attempt BY <1>1, ElementOfSeq
<1>3. \A a \in Rows : attempts[a].at \in Int BY <1>2, IncidentsAssumption DEF Attempt, Time
<1> HIDE DEF n
<1>4. ASSUME NEW a \in Rows PROVE \A b \in a..n : attempts[a].at <= attempts[b].at
  <2> DEFINE S == {b \in a..n : attempts[a].at <= attempts[b].at}
  <2>1. a \in Nat /\ a \in S BY <1>1, <1>3
  <2>2. ASSUME NEW k \in a..n - 1, k \in S PROVE k + 1 \in S
    <3>1. k \in Rows /\ k + 1 \in Rows /\ k + 1 > 1 /\ k + 1 - 1 = k /\ k + 1 \in a..n
      BY <1>1, <2>1
    <3>2. attempts[k].at <= attempts[k + 1].at BY <3>1
    <3> QED BY <1>3, <2>2, <3>1, <3>2
  <2>3. \A b \in a..n : b \in S
    <3> HIDE DEF S
    <3> QED BY <1>1, <2>1, <2>2, Upward
  <2> QED BY <2>3
<1>5. \A a, b \in Rows : a <= b => attempts[a].at <= attempts[b].at
  <2>1. \A a, b \in Rows : a <= b => b \in a..n BY <1>1
  <2> QED BY <1>4, <2>1
<1> QED BY <1>1, <1>2, <1>5 DEF Sorted, n

-----------------------------------------------------------------------------
(* What is active after the first rows.                                    *)

\* A success of a route.
Good(route, s) == attempts[s].route = route /\ attempts[s].result = "success"

\* The rows of a route among the first m, after its last success there.
Since(route, m) ==
  {a \in 1..m : attempts[a].route = route /\ \A s \in a..m : ~Good(route, s)}

\* The incident that they leave open.
Active(rule, route, m) ==
  LET opening == Opening(rule, Since(route, m))
  IN  IF opening = {} THEN None
      ELSE Opened(rule, route, {a \in Since(route, m) : a >= Min(opening)},
                  attempts[Min(opening)].at)

Rules == {"health", "5xx"}

\* Where the rows begin that are passed over.
LEMMA CutoffIs ==
  ASSUME Sorted
  PROVE  Cutoff \in 0..Len(attempts)
<1>1. MaxAttempts \in Nat BY IncidentsAssumption
<1> QED BY <1>1 DEF Cutoff, Sorted

\* The rows since the last success are failures in the table.
LEMMA SinceType ==
  ASSUME Sorted, NEW m \in 0..Len(attempts), NEW route
  PROVE  /\ Since(route, m) \in SUBSET (1..m) /\ Since(route, m) \in SUBSET Rows
         /\ \A a \in Since(route, m) : attempts[a].route = route /\ attempts[a].result # "success"
<1>1. \A a \in 1..m : a \in a..m /\ a \in 1..Len(attempts) BY DEF Sorted
<1> QED BY <1>1 DEF Since, Good, Sorted

\* One row more.
LEMMA SinceNext ==
  ASSUME Sorted, NEW m \in 1..Len(attempts), NEW route
  PROVE  /\ attempts[m].route # route => Since(route, m) = Since(route, m - 1)
         /\ Good(route, m) => Since(route, m) = {}
         /\ attempts[m].route = route /\ attempts[m].result # "success" =>
              Since(route, m) = Since(route, m - 1) \cup {m} /\ m \notin Since(route, m - 1)
<1>0. m \in Nat /\ m \in 1..m BY DEF Sorted
<1>1. \A a \in 1..m - 1 : a \in 1..m /\ a # m /\ a \in Nat BY <1>0
<1>2. \A a \in 1..m : a \in 1..m - 1 \/ a = m BY <1>0
<1>3. ~Good(route, m) => \A a \in 1..m - 1 : (\A s \in a..m : ~Good(route, s))
                                                <=> \A s \in a..m - 1 : ~Good(route, s)
  <2>1. \A a \in 1..m - 1 : \A s \in a..m : s \in a..m - 1 \/ s = m BY <1>0
  <2>2. \A a \in 1..m - 1 : \A s \in a..m - 1 : s \in a..m BY <1>0
  <2> QED BY <2>1, <2>2
<1>4. \A a \in 1..m : m \in a..m BY <1>0
<1>5. ~Good(route, m) => \A s \in m..m : ~Good(route, s)
  <2>1. \A s \in m..m : s = m BY <1>0
  <2> QED BY <2>1
<1>6. CASE attempts[m].route # route
  <2>1. ~Good(route, m) BY <1>6 DEF Good
  <2>2. Since(route, m) = Since(route, m - 1) BY <1>1, <1>2, <1>3, <1>6, <2>1 DEF Since
  <2> QED BY <1>6, <2>1, <2>2
<1>7. CASE Good(route, m)
  <2>1. Since(route, m) = {} BY <1>4, <1>7 DEF Since
  <2> QED BY <1>7, <2>1 DEF Good
<1>8. CASE attempts[m].route = route /\ attempts[m].result # "success"
  <2>1. ~Good(route, m) BY <1>8 DEF Good
  <2>2. Since(route, m) = Since(route, m - 1) \cup {m}
    BY <1>0, <1>1, <1>2, <1>3, <1>5, <1>8, <2>1 DEF Since
  <2>3. m \notin Since(route, m - 1) BY <1>1 DEF Since
  <2> QED BY <1>8, <2>1, <2>2, <2>3
<1> QED BY <1>6, <1>7, <1>8 DEF Good

\* Which rows open an incident.
LEMMA OpeningIs ==
  ASSUME NEW rule, NEW R, \A a \in R : attempts[a].result # "success"
  PROVE  Opening(rule, R) = {a \in R : rule = "health" \/ attempts[a].result = "5xx"}
BY DEF Opening, Failed, Succeeded, Errors

\* Sets of rows are finite.
LEMMA PlacesFinite ==
  ASSUME Sorted, NEW R \in SUBSET Rows
  PROVE  IsFiniteSet(R) /\ Cardinality(R) \in Nat /\ R \subseteq Int
<1>1. IsFiniteSet(1..Len(attempts)) /\ 1..Len(attempts) = Rows /\ Rows \subseteq Int
  <2>1. 1 \in Int /\ Len(attempts) \in Int BY DEF Sorted
  <2> QED BY <2>1, FS_Interval DEF Sorted
<1>2. IsFiniteSet(R) BY <1>1, FS_Subset
<1> QED BY <1>1, <1>2, FS_CardinalityType

\* The times of rows: the last one is the time of the last row.
LEMMA LastTime ==
  ASSUME Sorted, NEW R \in SUBSET Rows, NEW m \in R, \A a \in R : a <= m
  PROVE  Max(Times(R)) = attempts[m].at /\ attempts[m].at \in Nat
<1>1. \A a \in R : attempts[a].at \in Nat /\ attempts[a].at <= attempts[m].at
  BY IncidentsAssumption DEF Sorted, Attempt, Time
<1>2. Times(R) \subseteq Int /\ attempts[m].at \in Times(R)
      /\ \A y \in Times(R) : y <= attempts[m].at
  BY <1>1 DEF Times
<1> QED BY <1>1, <1>2, MaxEquals

\* Failures, the last of which is m.
FailuresTo(R, m) ==
  R \in SUBSET Rows /\ m \in R /\ \A a \in R : a <= m /\ attempts[a].result # "success"

\* The record of failures that follow each other.
LEMMA OpenedIs ==
  ASSUME Sorted, NEW rule \in Rules, NEW route \in Routes, NEW R, NEW m, FailuresTo(R, m),
         NEW f \in Rows
  PROVE  /\ Opened(rule, route, R, attempts[f].at) =
              [rule |-> rule, route |-> route, opened |-> attempts[f].at,
               last |-> attempts[m].at, resolved |-> None,
               attempts |-> Cardinality(R), failures |-> Cardinality(R)]
         /\ Opened(rule, route, R, attempts[f].at) \in Incident
         /\ Opened(rule, route, R, attempts[f].at) # None
         /\ IsFiniteSet(R) /\ Cardinality(R) \in Nat
<1>0. R \in SUBSET Rows /\ m \in R /\ \A a \in R : a <= m /\ attempts[a].result # "success"
  BY DEF FailuresTo
<1>1. Max(Times(R)) = attempts[m].at /\ attempts[m].at \in Nat
  <2>1. \A a \in R : a <= m BY <1>0
  <2> QED BY <1>0, <2>1, LastTime
<1>2. Failed(R) = R BY <1>0 DEF Failed, Succeeded
<1>3. IsFiniteSet(R) /\ Cardinality(R) \in Nat
  BY <1>0, PlacesFinite
<1>4. attempts[f].at \in Nat BY IncidentsAssumption DEF Sorted, Attempt, Time
<1>5. Opened(rule, route, R, attempts[f].at) =
        [rule |-> rule, route |-> route, opened |-> attempts[f].at,
         last |-> attempts[m].at, resolved |-> None,
         attempts |-> Cardinality(R), failures |-> Cardinality(R)]
  BY <1>1, <1>2 DEF Opened
<1>6. Opened(rule, route, R, attempts[f].at) \in Incident
  BY <1>1, <1>3, <1>4, <1>5 DEF Incident, Rules
<1> QED BY <1>3, <1>5, <1>6, NoneAssumption

\* Failures have a last one.
LEMMA LastFailure ==
  ASSUME Sorted, NEW R \in SUBSET Rows, R # {}, \A a \in R : attempts[a].result # "success"
  PROVE  \E m : FailuresTo(R, m)
<1>1. Max(R) \in R /\ \A a \in R : a <= Max(R) BY PlacesFinite, MaxIn
<1> QED BY <1>1 DEF FailuresTo

\* The incident A of the failures R, the first of which is f: it is opened by the
\* first of O.
Opener(A, rule, route, O, f, R) ==
  /\ f \in O /\ \A a \in O : f <= a
  /\ f \in R /\ R \in SUBSET Rows
  /\ \A a \in R : attempts[a].result # "success"
  /\ A = Opened(rule, route, R, attempts[f].at)
  /\ A # None /\ A \in Incident

\* What is active when nothing opened an incident, and when something did.
LEMMA ActiveIs ==
  ASSUME Sorted, NEW rule \in Rules, NEW route \in Routes, NEW m \in 0..Len(attempts),
         NEW S, S = Since(route, m), NEW O, O = Opening(rule, S),
         NEW f, f = Min(O), NEW R, R = {a \in S : a >= f},
         NEW A, A = Active(rule, route, m)
  PROVE  /\ O = {} => A = None
         /\ O # {} => Opener(A, rule, route, O, f, R)
<1>1. S \in SUBSET Rows /\ \A a \in S : attempts[a].result # "success" BY SinceType
<1>2. O = {a \in S : rule = "health" \/ attempts[a].result = "5xx"} BY <1>1, OpeningIs
<1>3. O = {} => A = None BY DEF Active
<1>4. ASSUME O # {} PROVE Opener(A, rule, route, O, f, R)
  <2>1. O \in SUBSET Rows BY <1>1, <1>2
  <2>2. f \in O /\ \A a \in O : f <= a
    <3>1. O \subseteq Int /\ IsFiniteSet(O) BY <2>1, PlacesFinite
    <3>2. Min(O) \in O /\ \A y \in O : Min(O) <= y BY <1>4, <3>1, MinIn
    <3> QED BY <3>2
  <2>3. f \in S /\ f \in Rows BY <1>1, <1>2, <2>2
  <2>4. f \in Int BY <2>3 DEF Sorted
  <2>5. f \in R /\ R \in SUBSET Rows /\ \A a \in R : attempts[a].result # "success"
    BY <1>1, <2>3, <2>4
  <2>6. A = Opened(rule, route, R, attempts[f].at) BY <1>4 DEF Active
  <2>7. PICK l : FailuresTo(R, l)
    <3>1. R # {} BY <2>5
    <3> QED BY <2>5, <3>1, LastFailure
  <2>8. /\ Opened(rule, route, R, attempts[f].at) \in Incident
        /\ Opened(rule, route, R, attempts[f].at) # None
    BY <2>3, <2>7, OpenedIs
  <2> QED BY <2>2, <2>5, <2>6, <2>8 DEF Opener
<1> QED BY <1>3, <1>4

\* A failure extends what is active, or opens it.
LEMMA ActiveExtended ==
  ASSUME Sorted, NEW rule \in Rules, NEW route \in Routes, NEW m \in 1..Len(attempts),
         attempts[m].route = route, attempts[m].result # "success",
         NEW old, old = Active(rule, route, m - 1), NEW A, A = Active(rule, route, m)
  PROVE  A = Extended(rule, old, m)
<1>0. m \in Int /\ m - 1 \in 0..Len(attempts) /\ m \in 0..Len(attempts) /\ m \in Rows
  BY DEF Sorted
<1>1. PICK S : S = Since(route, m - 1) OBVIOUS
<1>2. PICK T : T = Since(route, m) OBVIOUS
<1>3. T = S \cup {m} /\ m \notin S BY <1>1, <1>2, SinceNext
<1>4. PICK O : O = Opening(rule, S) OBVIOUS
<1>5. PICK P : P = Opening(rule, T) OBVIOUS
<1>6. PICK f : f = Min(O) OBVIOUS
<1>7. PICK g : g = Min(P) OBVIOUS
<1>8. PICK R : R = {a \in S : a >= f} OBVIOUS
<1>9. PICK Q : Q = {a \in T : a >= g} OBVIOUS
<1>10. (O = {} => old = None) /\ (O # {} => Opener(old, rule, route, O, f, R))
  BY <1>0, <1>1, <1>4, <1>6, <1>8, ActiveIs
<1>11. (P = {} => A = None) /\ (P # {} => Opener(A, rule, route, P, g, Q))
  BY <1>0, <1>2, <1>5, <1>7, <1>9, ActiveIs
<1>12. PICK X : X = Opening(rule, {m}) OBVIOUS
<1>13. S \in SUBSET Rows /\ \A a \in S : a \in Int /\ a < m /\ attempts[a].result # "success"
  <2>1. /\ S \in SUBSET (1..m - 1) /\ S \in SUBSET Rows
        /\ \A a \in S : attempts[a].result # "success"
    BY <1>0, <1>1, SinceType
  <2> QED BY <1>0, <2>1
<1>14. O \in SUBSET S /\ X \in SUBSET {m} /\ P = O \cup X
  <2>1. O = {a \in S : rule = "health" \/ attempts[a].result = "5xx"}
    BY <1>4, <1>13, OpeningIs
  <2>2. X = {a \in {m} : rule = "health" \/ attempts[a].result = "5xx"}
    BY <1>12, OpeningIs
  <2>3. P = {a \in T : rule = "health" \/ attempts[a].result = "5xx"}
    BY <1>3, <1>5, <1>13, OpeningIs
  <2> QED BY <1>3, <2>1, <2>2, <2>3
<1>15. CASE O # {}
  <2>1. Opener(old, rule, route, O, f, R) BY <1>10, <1>15
  <2>2. f \in O /\ f \in R /\ (\A a \in O : f <= a) /\ R \in SUBSET Rows
        /\ \A a \in R : attempts[a].result # "success"
    BY <2>1 DEF Opener
  <2>3. f \in Int /\ f < m /\ f \in Rows BY <1>13, <1>14, <2>2
  <2>4. \A a \in X : f <= a BY <1>0, <1>14, <2>3
  <2>5. f \in P /\ \A a \in P : f <= a BY <1>14, <2>2, <2>4
  <2>6. P \subseteq Int BY <1>0, <1>13, <1>14
  <2>7. g = f BY <1>7, <2>5, <2>6, MinEquals
  <2>8. Q = R \cup {m} BY <1>0, <1>3, <1>8, <1>9, <1>13, <2>3, <2>7
  <2>9. m \notin R BY <1>3, <1>8
  <2>10. A = Opened(rule, route, Q, attempts[f].at) BY <1>11, <2>5, <2>7 DEF Opener
  <2>11. FailuresTo(Q, m)
    <3>1. \A a \in R : a <= m BY <1>0, <1>8, <1>13
    <3>2. \A a \in Q : a = m \/ a \in R BY <2>8
    <3>3. Q \in SUBSET Rows /\ m \in Q BY <1>0, <2>2, <2>8
    <3> QED BY <1>0, <2>2, <3>1, <3>2, <3>3 DEF FailuresTo
  <2>12. Opened(rule, route, Q, attempts[f].at) =
           [rule |-> rule, route |-> route, opened |-> attempts[f].at,
            last |-> attempts[m].at, resolved |-> None,
            attempts |-> Cardinality(Q), failures |-> Cardinality(Q)]
    BY <2>3, <2>11, OpenedIs
  <2>13. PICK l : FailuresTo(R, l) BY <2>2, LastFailure
  <2>14. /\ Opened(rule, route, R, attempts[f].at) =
              [rule |-> rule, route |-> route, opened |-> attempts[f].at,
               last |-> attempts[l].at, resolved |-> None,
               attempts |-> Cardinality(R), failures |-> Cardinality(R)]
         /\ IsFiniteSet(R) /\ Cardinality(R) \in Nat
    BY <2>3, <2>13, OpenedIs
  <2>15. Cardinality(Q) = Cardinality(R) + 1 BY <2>8, <2>9, <2>14, FS_AddElement
  <2>16. old = Opened(rule, route, R, attempts[f].at) /\ old # None BY <2>1 DEF Opener
  <2>17. PICK c : c = Cardinality(R) OBVIOUS
  <2>18. old = [rule |-> rule, route |-> route, opened |-> attempts[f].at,
                last |-> attempts[l].at, resolved |-> None, attempts |-> c, failures |-> c]
    BY <2>14, <2>16, <2>17
  <2>19. A = [rule |-> rule, route |-> route, opened |-> attempts[f].at,
              last |-> attempts[m].at, resolved |-> None, attempts |-> c + 1, failures |-> c + 1]
    BY <2>10, <2>12, <2>15, <2>17
  <2>20. A = [old EXCEPT !.attempts = @ + 1, !.failures = @ + 1, !.last = attempts[m].at]
    <3>1. PICK u, v : u = attempts[f].at /\ v = attempts[l].at OBVIOUS
    <3>2. PICK w : w = attempts[m].at OBVIOUS
    <3>3. old = [rule |-> rule, route |-> route, opened |-> u, last |-> v, resolved |-> None,
                 attempts |-> c, failures |-> c]
      BY <2>18, <3>1
    <3>4. A = [rule |-> rule, route |-> route, opened |-> u, last |-> w, resolved |-> None,
               attempts |-> c + 1, failures |-> c + 1]
      BY <2>19, <3>1, <3>2
    <3>5. A = [old EXCEPT !.attempts = @ + 1, !.failures = @ + 1, !.last = w]
      <4>1. c \in Nat BY <2>14, <2>17
      <4>2. old.attempts = c /\ old.failures = c BY <3>3
      <4>3. PICK x : x = [old EXCEPT !.attempts = c + 1] OBVIOUS
      <4>4. x = [rule |-> rule, route |-> route, opened |-> u, last |-> v, resolved |-> None,
                 attempts |-> c + 1, failures |-> c]
        BY <3>3, <4>3
      <4>5. PICK y : y = [x EXCEPT !.failures = c + 1] OBVIOUS
      <4>6. y = [rule |-> rule, route |-> route, opened |-> u, last |-> v, resolved |-> None,
                 attempts |-> c + 1, failures |-> c + 1]
        BY <4>4, <4>5
      <4>7. [y EXCEPT !.last = w] = A BY <3>4, <4>6
      <4>8. [old EXCEPT !.attempts = c + 1, !.failures = c + 1, !.last = w]
              = [y EXCEPT !.last = w]
        BY <4>3, <4>5
      <4> QED BY <4>1, <4>2, <4>7, <4>8
    <3> QED BY <3>2, <3>5
  <2> QED BY <2>16, <2>20 DEF Extended
<1>16. CASE O = {}
  <2>1. old = None /\ P = X BY <1>10, <1>14, <1>16
  <2>2. CASE X = {}
    <3>1. A = None BY <1>11, <2>1, <2>2
    <3> QED BY <1>12, <2>1, <2>2, <3>1 DEF Extended
  <2>3. CASE X # {}
    <3>1. X = {m} BY <1>14, <2>3
    <3>2. g = m
      <4>1. P = {m} BY <2>1, <3>1
      <4>2. P \subseteq Int /\ m \in P /\ \A y \in P : m <= y BY <1>0, <4>1
      <4>3. Min(P) = m BY <4>2, MinEquals
      <4> QED BY <1>7, <4>3
    <3>3. Q = {m}
      <4>1. \A a \in S : ~(a >= m) BY <1>0, <1>13
      <4>2. m >= m BY <1>0
      <4> QED BY <1>3, <1>9, <3>2, <4>1, <4>2
    <3>4. A = Opened(rule, route, {m}, attempts[m].at)
      BY <1>11, <2>1, <2>3, <3>2, <3>3 DEF Opener
    <3> QED BY <1>12, <2>1, <2>3, <3>4 DEF Extended
  <2> QED BY <2>2, <2>3
<1> QED BY <1>15, <1>16

\* Other rows leave what is active, a success ends it.
LEMMA ActiveKept ==
  ASSUME Sorted, NEW rule, NEW route, NEW m \in 1..Len(attempts)
  PROVE  /\ attempts[m].route # route => Active(rule, route, m) = Active(rule, route, m - 1)
         /\ Good(route, m) => Active(rule, route, m) = None
<1>1. CASE attempts[m].route # route
  <2>1. Since(route, m) = Since(route, m - 1) BY <1>1, SinceNext
  <2>2. Active(rule, route, m) = Active(rule, route, m - 1) BY <2>1 DEF Active
  <2> QED BY <1>1, <2>2 DEF Good
<1>2. CASE Good(route, m)
  <2>1. Since(route, m) = {} BY <1>2, SinceNext
  <2>2. Opening(rule, {}) = {} BY DEF Opening, Failed, Succeeded, Errors
  <2>3. Active(rule, route, m) = None BY <2>1, <2>2 DEF Active
  <2> QED BY <1>2, <2>3 DEF Good
<1> QED BY <1>1, <1>2

-----------------------------------------------------------------------------
(* One pass over the rows after the cutoff.                                *)

\* The incident that a success ends.
Closed(rule, route, s) == Ended(rule, Active(rule, route, s - 1), s)

\* Successes after the cutoff that end an incident.
Closing(rule, route, m) ==
  {s \in Cutoff + 1..m : Good(route, s) /\ Active(rule, route, s - 1) # None}

Done(rule, route, m) == {Closed(rule, route, s) : s \in Closing(rule, route, m)}

\* Where the pass is after m rows.
PassAt(rule, route, m) ==
  [active |-> Active(rule, route, m), done |-> Done(rule, route, m)]

\* One row more ends at most one incident.
LEMMA DoneNext ==
  ASSUME Sorted, NEW rule, NEW route, NEW m \in Cutoff + 1..Len(attempts)
  PROVE  Done(rule, route, m) =
           IF Good(route, m) /\ Active(rule, route, m - 1) # None
             THEN Done(rule, route, m - 1) \cup {Closed(rule, route, m)}
             ELSE Done(rule, route, m - 1)
<1>1. Cutoff \in Int /\ m \in Int BY CutoffIs DEF Sorted
<1>2. Closing(rule, route, m) =
        IF Good(route, m) /\ Active(rule, route, m - 1) # None
          THEN Closing(rule, route, m - 1) \cup {m} ELSE Closing(rule, route, m - 1)
  <2>1. \A s : s \in Cutoff + 1..m <=> s \in Cutoff + 1..m - 1 \/ s = m BY <1>1
  <2> QED BY <2>1 DEF Closing
<1> QED BY <1>2 DEF Done

\* Each step of the pass keeps it where it should be.
LEMMA StepIs ==
  ASSUME Sorted, NEW rule \in Rules, NEW route \in Routes,
         NEW m \in Cutoff + 1..Len(attempts)
  PROVE  Step(rule, route, PassAt(rule, route, m - 1), m) = PassAt(rule, route, m)
<1>0. m \in 1..Len(attempts)
  <2>1. Cutoff \in Nat BY CutoffIs DEF Sorted
  <2> QED BY <2>1 DEF Sorted
<1>1. PICK old : old = Active(rule, route, m - 1) OBVIOUS
<1>2. PICK done : done = Done(rule, route, m - 1) OBVIOUS
<1>3. PICK pass : pass = PassAt(rule, route, m - 1) OBVIOUS
<1>4. pass = [active |-> old, done |-> done] BY <1>1, <1>2, <1>3 DEF PassAt
<1>5. CASE attempts[m].route # route
  <2>1. Active(rule, route, m) = old BY <1>0, <1>1, <1>5, ActiveKept
  <2>2. Done(rule, route, m) = done BY <1>2, <1>5, DoneNext DEF Good
  <2>3. Step(rule, route, pass, m) = pass BY <1>5 DEF Step
  <2> QED BY <1>3, <1>4, <2>1, <2>2, <2>3 DEF PassAt
<1>6. CASE Good(route, m)
  <2>1. Active(rule, route, m) = None BY <1>0, <1>6, ActiveKept
  <2>2. Step(rule, route, pass, m) = Success(rule, pass, m) BY <1>6 DEF Step, Good
  <2>3. CASE old = None
    <3>1. Done(rule, route, m) = done BY <1>1, <1>2, <2>3, DoneNext
    <3>2. Success(rule, pass, m) = pass BY <1>4, <2>3 DEF Success
    <3> QED BY <1>3, <1>4, <2>1, <2>2, <2>3, <3>1, <3>2 DEF PassAt
  <2>4. CASE old # None
    <3>1. Done(rule, route, m) = done \cup {Closed(rule, route, m)}
      BY <1>1, <1>2, <1>6, <2>4, DoneNext
    <3>2. Closed(rule, route, m) = Ended(rule, old, m) BY <1>1 DEF Closed
    <3>3. pass.active = old /\ pass.done = done BY <1>4
    <3>4. Success(rule, pass, m) = [active |-> None, done |-> done \cup {Ended(rule, old, m)}]
      BY <2>4, <3>3 DEF Success
    <3>5. Success(rule, pass, m) =
            [active |-> None, done |-> done \cup {Closed(rule, route, m)}]
      BY <3>2, <3>4
    <3> QED BY <1>3, <2>1, <2>2, <3>1, <3>5 DEF PassAt
  <2> QED BY <2>3, <2>4
<1>7. CASE attempts[m].route = route /\ attempts[m].result # "success"
  <2>1. Active(rule, route, m) = Extended(rule, old, m)
    BY <1>0, <1>1, <1>7, ActiveExtended
  <2>2. Done(rule, route, m) = done BY <1>2, <1>7, DoneNext DEF Good
  <2>3. Step(rule, route, pass, m) = Failure(rule, pass, m) BY <1>7 DEF Step
  <2>4. Failure(rule, pass, m) = [pass EXCEPT !.active = Extended(rule, old, m)]
    <3>1. pass.active = old BY <1>4
    <3> QED BY <3>1 DEF Failure
  <2>5. PICK x : x = Extended(rule, old, m) OBVIOUS
  <2>6. [pass EXCEPT !.active = x] = [active |-> x, done |-> done] BY <1>4
  <2> QED BY <1>3, <2>1, <2>2, <2>3, <2>4, <2>5, <2>6 DEF PassAt
<1> QED BY <1>5, <1>6, <1>7 DEF Good

\* The pass, as a function of the rows passed.
RunOf(g, rule, route, carry) ==
  g = [a \in Cutoff..Len(attempts) |->
         IF a = Cutoff THEN [active |-> carry, done |-> {}]
         ELSE Step(rule, route, g[a - 1], a)]

\* Begun with what is active at the cutoff, it ends with the incidents that end
\* after it and with what is active at the end.
LEMMA PassIs ==
  ASSUME Sorted, NEW rule \in Rules, NEW route \in Routes,
         NEW carry, carry = Active(rule, route, Cutoff)
  PROVE  Pass(rule, route, carry) =
           Done(rule, route, Len(attempts)) \cup ({Active(rule, route, Len(attempts))} \ {None})
<1>1. PICK c : c = Cutoff OBVIOUS
<1>2. PICK n : n = Len(attempts) OBVIOUS
<1>3. c \in Nat /\ n \in Nat /\ c <= n BY <1>1, <1>2, CutoffIs DEF Sorted
<1>4. PassAt(rule, route, c) = [active |-> carry, done |-> {}]
  <2>1. Closing(rule, route, c) = {}
    <3>1. c + 1..c = {} BY <1>3
    <3> QED BY <1>1, <3>1 DEF Closing
  <2>2. Done(rule, route, c) = {} BY <2>1 DEF Done
  <2> QED BY <1>1, <2>2 DEF PassAt
<1>5. \A a \in c + 1..n : Step(rule, route, PassAt(rule, route, a - 1), a) = PassAt(rule, route, a)
  BY <1>1, <1>2, StepIs
<1>6. \E g : RunOf(g, rule, route, carry)
  <2> DEFINE h == [a \in c..n |-> PassAt(rule, route, a)]
  <2>1. \A a \in c..n : h[a] = IF a = c THEN [active |-> carry, done |-> {}]
                               ELSE Step(rule, route, h[a - 1], a)
    <3>1. SUFFICES ASSUME NEW a \in c..n
                   PROVE  h[a] = IF a = c THEN [active |-> carry, done |-> {}]
                                 ELSE Step(rule, route, h[a - 1], a)
      OBVIOUS
    <3>2. h[a] = PassAt(rule, route, a) OBVIOUS
    <3>3. a # c => a \in c + 1..n /\ a - 1 \in c..n BY <1>3
    <3>4. a # c => h[a - 1] = PassAt(rule, route, a - 1) BY <3>3
    <3> HIDE DEF h
    <3> QED BY <1>4, <1>5, <3>2, <3>3, <3>4
  <2>2. h = [a \in c..n |-> h[a]] OBVIOUS
  <2> HIDE DEF h
  <2>3. h = [a \in c..n |-> IF a = c THEN [active |-> carry, done |-> {}]
                            ELSE Step(rule, route, h[a - 1], a)]
    BY <2>1, <2>2
  <2>4. RunOf(h, rule, route, carry) BY <1>1, <1>2, <2>3 DEF RunOf
  <2> QED BY <2>4
<1>7. PICK g : g = CHOOSE h : RunOf(h, rule, route, carry) OBVIOUS
<1>8. RunOf(g, rule, route, carry) BY <1>6, <1>7
<1>9. Pass(rule, route, carry) = g[n].done \cup ({g[n].active} \ {None})
  BY <1>2, <1>7 DEF Pass, RunOf
<1>10. \A a \in c..n : g[a] = IF a = c THEN [active |-> carry, done |-> {}]
                              ELSE Step(rule, route, g[a - 1], a)
  <2> DEFINE f == [a \in c..n |-> IF a = c THEN [active |-> carry, done |-> {}]
                                  ELSE Step(rule, route, g[a - 1], a)]
  <2>1. g = f BY <1>1, <1>2, <1>8 DEF RunOf
  <2>2. \A a \in c..n : f[a] = IF a = c THEN [active |-> carry, done |-> {}]
                               ELSE Step(rule, route, g[a - 1], a)
    OBVIOUS
  <2> HIDE DEF f
  <2> QED BY <2>1, <2>2, Zenon
<1>11. \A a \in c..n : g[a] = PassAt(rule, route, a)
  <2> DEFINE S == {a \in c..n : g[a] = PassAt(rule, route, a)}
  <2>1. c \in S
    <3>1. c \in c..n BY <1>3
    <3> QED BY <1>4, <1>10, <3>1
  <2>2. ASSUME NEW k \in c..n - 1, k \in S PROVE k + 1 \in S
    <3>1. k + 1 \in c..n /\ k + 1 \in c + 1..n /\ k + 1 # c /\ k + 1 - 1 = k BY <1>3
    <3>2. g[k + 1] = Step(rule, route, g[k], k + 1) BY <1>10, <3>1
    <3>3. g[k] = PassAt(rule, route, k) BY <2>2
    <3>4. Step(rule, route, PassAt(rule, route, k), k + 1) = PassAt(rule, route, k + 1)
      BY <1>5, <3>1
    <3> QED BY <3>1, <3>2, <3>3, <3>4
  <2>3. \A k \in c..n : k \in S
    <3> HIDE DEF S
    <3> QED BY <1>3, <2>1, <2>2, Upward
  <2> QED BY <2>3
<1>12. g[n] = PassAt(rule, route, n)
  <2>1. n \in c..n BY <1>3
  <2> QED BY <1>11, <2>1
<1>13. g[n].done = Done(rule, route, n) /\ g[n].active = Active(rule, route, n)
  BY <1>12 DEF PassAt
<1> QED BY <1>2, <1>9, <1>13

-----------------------------------------------------------------------------
(* What the carry says is what was active at the cutoff.                   *)

\* The rows after the last success, as the queries of the carry select them.
LEMMA SinceSuccessIs ==
  ASSUME Sorted, NEW route
  PROVE  SinceSuccess(route) = Since(route, Cutoff)
<1>1. PICK c : c = Cutoff OBVIOUS
<1>2. c \in Nat BY <1>1, CutoffIs DEF Sorted
<1>3. PICK rows : rows = OfRoute(Omitted, route) OBVIOUS
<1>4. rows = {a \in 1..c : attempts[a].route = route} BY <1>1, <1>3 DEF OfRoute, Omitted
<1>5. Succeeded(rows) = {s \in 1..c : Good(route, s)} BY <1>4 DEF Succeeded, Good
<1>6. SinceSuccess(route) = {a \in rows : \A s \in Succeeded(rows) : s < a}
  BY <1>3 DEF SinceSuccess
<1>7. \A a \in 1..c : (\A s \in Succeeded(rows) : s < a) <=> \A s \in a..c : ~Good(route, s)
  <2>1. SUFFICES ASSUME NEW a \in 1..c
                 PROVE  (\A s \in Succeeded(rows) : s < a) <=> \A s \in a..c : ~Good(route, s)
    OBVIOUS
  <2>2. a \in Int BY <1>2
  <2>3. \A s \in 1..c : s \in Int /\ (~(s < a) <=> s \in a..c) BY <1>2, <2>2
  <2>4. \A s \in a..c : s \in 1..c BY <1>2, <2>2
  <2> QED BY <1>5, <2>3, <2>4
<1> QED BY <1>1, <1>4, <1>6, <1>7 DEF Since

\* The carry of failed health probes.
LEMMA HealthCarryIs ==
  ASSUME Sorted
  PROVE  HealthCarry = Active("health", Health, Cutoff)
<1>1. PICK S : S = Since(Health, Cutoff) OBVIOUS
<1>2. Cutoff \in 0..Len(attempts) BY CutoffIs
<1>3. S \in SUBSET Rows /\ \A a \in S : attempts[a].result # "success"
  BY <1>1, <1>2, SinceType
<1>4. Failed(SinceSuccess(Health)) = S
  <2>1. SinceSuccess(Health) = S BY <1>1, SinceSuccessIs
  <2> QED BY <1>3, <2>1 DEF Failed, Succeeded
<1>5. HealthCarry = IF S = {} THEN None ELSE Opened("health", Health, S, Min(Times(S)))
  BY <1>4 DEF HealthCarry
<1>6. Opening("health", S) = S BY <1>3, OpeningIs
<1>7. Active("health", Health, Cutoff) =
        IF S = {} THEN None
        ELSE Opened("health", Health, {a \in S : a >= Min(S)}, attempts[Min(S)].at)
  BY <1>1, <1>6 DEF Active
<1>8. ASSUME S # {}
      PROVE  {a \in S : a >= Min(S)} = S /\ Min(Times(S)) = attempts[Min(S)].at
  <2>1. S \subseteq Int /\ IsFiniteSet(S) BY <1>3, PlacesFinite
  <2>2. Min(S) \in S /\ \A y \in S : Min(S) <= y BY <1>8, <2>1, MinIn
  <2>3. PICK f : f = Min(S) OBVIOUS
  <2>4. \A a \in S : a >= f BY <2>1, <2>2, <2>3
  <2>5. \A a \in S : attempts[a].at \in Int /\ attempts[f].at <= attempts[a].at
    <3>1. f \in Rows /\ f \in S BY <1>3, <2>2, <2>3
    <3>2. \A a \in S : a \in Rows /\ f <= a BY <1>3, <2>2, <2>3
    <3>3. \A a \in Rows : attempts[a].at \in Int
      BY IncidentsAssumption DEF Sorted, Attempt, Time
    <3> QED BY <3>1, <3>2, <3>3 DEF Sorted
  <2>6. Times(S) \subseteq Int /\ attempts[f].at \in Times(S)
        /\ \A y \in Times(S) : attempts[f].at <= y
    BY <2>2, <2>3, <2>5 DEF Times
  <2>7. Min(Times(S)) = attempts[f].at BY <2>6, MinEquals
  <2> QED BY <2>3, <2>4, <2>7
<1> QED BY <1>5, <1>7, <1>8

\* The carry of server errors.
LEMMA EndpointCarryIs ==
  ASSUME Sorted, NEW route
  PROVE  EndpointCarry(route) = Active("5xx", route, Cutoff)
<1>1. PICK S : S = Since(route, Cutoff) OBVIOUS
<1>2. Cutoff \in 0..Len(attempts) /\ Cutoff \in Nat BY CutoffIs DEF Sorted
<1>3. /\ S \in SUBSET (1..Cutoff) /\ S \in SUBSET Rows
      /\ \A a \in S : attempts[a].route = route /\ attempts[a].result # "success"
  BY <1>1, <1>2, SinceType
<1>4. PICK O : O = Opening("5xx", S) OBVIOUS
<1>5. Errors(SinceSuccess(route)) = O
  <2>1. SinceSuccess(route) = S BY <1>1, SinceSuccessIs
  <2> QED BY <1>4, <2>1 DEF Opening
<1>6. PICK f : f = Min(O) OBVIOUS
<1>7. EndpointCarry(route) =
        IF O = {} THEN None
        ELSE Opened("5xx", route, {a \in OfRoute(Omitted, route) : a >= f}, attempts[f].at)
  BY <1>5, <1>6 DEF EndpointCarry
<1>8. Active("5xx", route, Cutoff) =
        IF O = {} THEN None ELSE Opened("5xx", route, {a \in S : a >= f}, attempts[f].at)
  BY <1>1, <1>4, <1>6 DEF Active
<1>9. ASSUME O # {}
      PROVE  {a \in OfRoute(Omitted, route) : a >= f} = {a \in S : a >= f}
  <2>1. O \in SUBSET S BY <1>4 DEF Opening, Errors
  <2>2. O \subseteq Int /\ IsFiniteSet(O) BY <1>3, <2>1, PlacesFinite
  <2>3. f \in S
    <3>1. Min(O) \in O BY <1>9, <2>2, MinIn
    <3> QED BY <1>6, <2>1, <3>1
  <2>4. f \in 1..Cutoff /\ \A s \in f..Cutoff : ~Good(route, s) BY <1>1, <2>3 DEF Since
  <2>5. ASSUME NEW a \in OfRoute(Omitted, route), a >= f PROVE a \in S
    <3>1. a \in 1..Cutoff /\ attempts[a].route = route BY DEF OfRoute, Omitted
    <3>2. \A s \in a..Cutoff : s \in f..Cutoff BY <1>2, <2>4, <2>5, <3>1
    <3> QED BY <1>1, <2>4, <3>1, <3>2 DEF Since
  <2>6. \A a \in S : a \in OfRoute(Omitted, route) BY <1>3 DEF OfRoute, Omitted
  <2> QED BY <2>5, <2>6
<1> QED BY <1>7, <1>8, <1>9

-----------------------------------------------------------------------------
(* The incidents of the whole table.                                       *)

\* Rows that may open an incident, and the successes after a row.
Opens(rule, route, a) ==
  /\ attempts[a].route = route /\ attempts[a].result # "success"
  /\ rule = "health" \/ attempts[a].result = "5xx"

Ends(route, a) == {s \in Rows : Good(route, s) /\ s > a}

\* The first rows of incidents, and those that the release shows.
Begins(rule, route, a) ==
  /\ a \in Rows /\ Opens(rule, route, a)
  /\ \A b \in Rows : Opens(rule, route, b) /\ Ends(route, b) = Ends(route, a) => ~(b < a)

Shown(rule, route) ==
  {a \in Rows : Begins(rule, route, a)
                /\ (Ends(route, a) = {} \/ Min(Ends(route, a)) \notin Omitted)}

\* The incident that begins with a row.
From(rule, route, a) ==
  LET run == {b \in Rows : /\ attempts[b].route = route /\ attempts[b].result # "success"
                           /\ Ends(route, b) = Ends(route, a) /\ b >= a}
      i == Opened(rule, route, run, attempts[a].at)
  IN  IF Ends(route, a) = {} THEN i ELSE Ended(rule, i, Min(Ends(route, a)))

\* The reference definition in these terms.
LEMMA WholeIs ==
  ASSUME NEW rule \in Rules, NEW route
  PROVE  WholeIncidents(rule, route) = {From(rule, route, a) : a \in Shown(rule, route)}
<1> DEFINE rows == OfRoute(Rows, route)
           E(a) == {s \in Succeeded(rows) : s > a}
           B(a) == {b \in rows : E(b) = E(a) /\ b < a}
           F(a) == {b \in Failed(rows) : E(b) = E(a) /\ b >= a}
           Of(a) == LET i == Opened(rule, route, F(a), attempts[a].at)
                    IN  IF E(a) = {} THEN i
                        ELSE [i EXCEPT !.resolved = attempts[Min(E(a))].at,
                                       !.attempts = @ + Counted(rule)]
           A == {b \in Opening(rule, rows) :
                   Opening(rule, B(b)) = {} /\ (E(b) = {} \/ Min(E(b)) \notin Omitted)}
<1>1. WholeIncidents(rule, route) = {Of(a) : a \in A} BY DEF WholeIncidents
<1>2. \A a : E(a) = Ends(route, a) BY DEF Succeeded, OfRoute, Ends, Good
<1>3. \A R : Opening(rule, R) =
               {b \in R : attempts[b].result # "success" /\ (rule = "health" \/ attempts[b].result = "5xx")}
  BY DEF Opening, Failed, Succeeded, Errors, Rules
<1>4. Opening(rule, rows) = {b \in Rows : Opens(rule, route, b)}
  BY <1>3 DEF OfRoute, Opens
<1>5. \A a : B(a) = {b \in Rows : attempts[b].route = route /\ Ends(route, b) = Ends(route, a) /\ b < a}
  BY <1>2 DEF OfRoute
<1>6. \A a : F(a) = {b \in Rows : /\ attempts[b].route = route /\ attempts[b].result # "success"
                                  /\ Ends(route, b) = Ends(route, a) /\ b >= a}
  BY <1>2 DEF OfRoute, Failed, Succeeded
<1>7. ASSUME NEW a PROVE Of(a) = From(rule, route, a)
  <2>1. PICK e : e = E(a) OBVIOUS
  <2>2. PICK run : run = F(a) OBVIOUS
  <2>3. PICK i : i = Opened(rule, route, run, attempts[a].at) OBVIOUS
  <2>4. Of(a) = IF e = {} THEN i
                ELSE [i EXCEPT !.resolved = attempts[Min(e)].at, !.attempts = @ + Counted(rule)]
    BY <2>1, <2>2, <2>3
  <2>5. e = Ends(route, a) BY <1>2, <2>1
  <2>6. run = {b \in Rows : /\ attempts[b].route = route /\ attempts[b].result # "success"
                            /\ Ends(route, b) = Ends(route, a) /\ b >= a}
    BY <1>6, <2>2
  <2>7. From(rule, route, a) = IF e = {} THEN i ELSE Ended(rule, i, Min(e))
    BY <2>3, <2>5, <2>6 DEF From
  <2> HIDE DEF Of
  <2> QED BY <2>4, <2>7 DEF Ended
<1>8. \A a : Opening(rule, B(a)) = {} <=>
               \A b \in Rows : Opens(rule, route, b) /\ Ends(route, b) = Ends(route, a) => ~(b < a)
  <2>1. \A a : Opening(rule, B(a)) =
                 {b \in Rows : Opens(rule, route, b) /\ Ends(route, b) = Ends(route, a) /\ b < a}
    BY <1>3, <1>5 DEF Opens
  <2> HIDE DEF B
  <2> QED BY <2>1
<1>9. A = Shown(rule, route) BY <1>2, <1>4, <1>8 DEF Shown, Begins
<1> HIDE DEF A, Of
<1> QED BY <1>1, <1>7, <1>9

\* A success or the end of the table comes after the first m rows.
EndsRun(route, m) ==
  m \in 0..Len(attempts) /\ (m = Len(attempts) \/ (m + 1 \in Rows /\ Good(route, m + 1)))

\* The end of the table ends a run.
LEMMA TableEnds ==
  ASSUME Sorted, NEW route
  PROVE  EndsRun(route, Len(attempts))
<1>1. Len(attempts) \in 0..Len(attempts) BY DEF Sorted
<1> QED BY <1>1 DEF EndsRun

\* The successes after a row of the last run are those after the run.
LEMMA EndsAre ==
  ASSUME Sorted, NEW route, NEW m \in 0..Len(attempts), NEW a \in Since(route, m)
  PROVE  Ends(route, a) = {s \in Rows : Good(route, s) /\ s > m}
<1>1. a \in 1..m /\ \A s \in a..m : ~Good(route, s) BY DEF Since
<1>2. m \in Int /\ a \in Int /\ \A s \in Rows : s \in Int BY <1>1 DEF Sorted
<1>3. \A s \in Rows : Good(route, s) => (s > a <=> s > m)
  <2>1. \A s \in Rows : s > a /\ ~(s > m) => s \in a..m BY <1>2
  <2>2. \A s \in Rows : s > m => s > a BY <1>1, <1>2
  <2> QED BY <1>1, <2>1, <2>2
<1> QED BY <1>3 DEF Ends

\* The failures with the same successes after them are one run.
LEMMA SameEnds ==
  ASSUME Sorted, NEW route, NEW m, EndsRun(route, m), NEW a \in Since(route, m),
         NEW b \in Rows, attempts[b].route = route, attempts[b].result # "success"
  PROVE  Ends(route, b) = Ends(route, a) <=> b \in Since(route, m)
<1>0. m \in 0..Len(attempts) /\ (m = Len(attempts) \/ (m + 1 \in Rows /\ Good(route, m + 1)))
  BY DEF EndsRun
<1>1. Ends(route, a) = {s \in Rows : Good(route, s) /\ s > m} BY <1>0, EndsAre
<1>2. b \in Since(route, m) => Ends(route, b) = {s \in Rows : Good(route, s) /\ s > m}
  BY <1>0, EndsAre
<1>3. ASSUME Ends(route, b) = Ends(route, a) PROVE b \in Since(route, m)
  <2>0. b \in Int /\ m \in Int /\ Len(attempts) \in Int /\ b >= 1 /\ b <= Len(attempts)
    BY <1>0 DEF Sorted
  <2>1. b <= m
    <3>1. CASE m = Len(attempts) BY <2>0, <3>1
    <3>2. CASE m + 1 \in Rows /\ Good(route, m + 1)
      <4>1. m + 1 > m BY <2>0
      <4>2. m + 1 \in Ends(route, b) BY <1>1, <1>3, <3>2, <4>1
      <4>3. m + 1 > b BY <4>2 DEF Ends
      <4> QED BY <2>0, <4>3
    <3> QED BY <1>0, <3>1, <3>2
  <2>2. ASSUME NEW t \in b..m, Good(route, t) PROVE FALSE
    <3>1. t # b BY <2>2 DEF Good
    <3>2. t \in Rows /\ t > b /\ ~(t > m) BY <1>0, <2>0, <3>1 DEF Sorted
    <3>3. t \in Ends(route, b) BY <2>2, <3>2 DEF Ends
    <3> QED BY <1>1, <1>3, <3>2, <3>3
  <2> QED BY <2>0, <2>1, <2>2 DEF Since
<1> QED BY <1>1, <1>2, <1>3

\* A row opens an incident when it opens one of its run.
LEMMA OpensIs ==
  ASSUME Sorted, NEW rule, NEW route, NEW m \in 0..Len(attempts)
  PROVE  Opening(rule, Since(route, m)) = {a \in Since(route, m) : Opens(rule, route, a)}
<1>1. \A a \in Since(route, m) : attempts[a].route = route /\ attempts[a].result # "success"
  BY SinceType
<1>2. \A a \in Since(route, m) : attempts[a].result # "success" BY <1>1
<1>3. Opening(rule, Since(route, m)) =
        {a \in Since(route, m) : rule = "health" \/ attempts[a].result = "5xx"}
  BY <1>2, OpeningIs
<1> QED BY <1>1, <1>3 DEF Opens

\* In each run one row begins an incident, and that incident is what is active
\* after the run, if anything is.
LEMMA RunIs ==
  ASSUME Sorted, NEW rule \in Rules, NEW route \in Routes, NEW m, EndsRun(route, m)
  PROVE  /\ Active(rule, route, m) # None =>
              \E a \in Since(route, m) : Begins(rule, route, a)
         /\ \A a \in Since(route, m) : Begins(rule, route, a) =>
              /\ Active(rule, route, m) # None
              /\ Active(rule, route, m) =
                   Opened(rule, route,
                          {b \in Rows : /\ attempts[b].route = route
                                        /\ attempts[b].result # "success"
                                        /\ Ends(route, b) = Ends(route, a) /\ b >= a},
                          attempts[a].at)
<1>0. m \in 0..Len(attempts) BY DEF EndsRun
<1>1. PICK S : S = Since(route, m) OBVIOUS
<1>2. PICK O : O = Opening(rule, S) OBVIOUS
<1>3. PICK f : f = Min(O) OBVIOUS
<1>4. PICK R : R = {a \in S : a >= f} OBVIOUS
<1>5. PICK A : A = Active(rule, route, m) OBVIOUS
<1>6. (O = {} => A = None) /\ (O # {} => Opener(A, rule, route, O, f, R))
  <2>1. Opener(A, rule, route, O, f, R) \/ O = {}
    BY <1>0, <1>1, <1>2, <1>3, <1>4, <1>5, ActiveIs
  <2>2. O = {} => A = None BY <1>1, <1>2, <1>5 DEF Active
  <2> QED BY <2>1, <2>2
<1>7. O = {a \in S : Opens(rule, route, a)} BY <1>0, <1>1, <1>2, OpensIs
<1>8. S \in SUBSET Rows
      /\ \A a \in S : attempts[a].route = route /\ attempts[a].result # "success"
  BY <1>0, <1>1, SinceType
<1>9. \A a \in S : \A b \in Rows : attempts[b].route = route /\ attempts[b].result # "success" =>
                      (Ends(route, b) = Ends(route, a) <=> b \in S)
  BY <1>1, SameEnds
<1>10. O # {} => f \in O /\ f \in S /\ (\A a \in O : f <= a)
                 /\ A = Opened(rule, route, R, attempts[f].at) /\ A # None
  BY <1>6, <1>7 DEF Opener
<1>11. \A b \in Rows : Opens(rule, route, b) =>
                         attempts[b].route = route /\ attempts[b].result # "success"
  BY DEF Opens
<1>12. \A a \in S : Begins(rule, route, a) <=> a \in O /\ \A b \in O : ~(b < a)
  <2>1. SUFFICES ASSUME NEW a \in S
                 PROVE  Begins(rule, route, a) <=> a \in O /\ \A b \in O : ~(b < a)
    OBVIOUS
  <2>2. \A b \in Rows : Opens(rule, route, b) /\ Ends(route, b) = Ends(route, a) <=> b \in O
    BY <1>7, <1>8, <1>9, <1>11
  <2>3. a \in Rows /\ (Opens(rule, route, a) <=> a \in O) /\ \A b \in O : b \in Rows
    BY <1>7, <1>8
  <2> QED BY <2>2, <2>3 DEF Begins
<1>13. \A a \in S : a \in Int BY <1>8, PlacesFinite
<1>14. ASSUME O # {} PROVE Begins(rule, route, f)
  <2>1. \A b \in O : ~(b < f) BY <1>7, <1>10, <1>13, <1>14
  <2> QED BY <1>10, <1>12, <1>14, <2>1
<1>15. ASSUME NEW a \in S, Begins(rule, route, a)
       PROVE  /\ A # None
              /\ A = Opened(rule, route,
                            {b \in Rows : /\ attempts[b].route = route
                                          /\ attempts[b].result # "success"
                                          /\ Ends(route, b) = Ends(route, a) /\ b >= a},
                            attempts[a].at)
  <2>1. a \in O /\ \A b \in O : ~(b < a) BY <1>12, <1>15
  <2>2. f \in O /\ f <= a /\ ~(f < a) BY <1>10, <2>1
  <2>3. a = f BY <1>7, <1>13, <2>1, <2>2
  <2>4. {b \in Rows : /\ attempts[b].route = route /\ attempts[b].result # "success"
                      /\ Ends(route, b) = Ends(route, a) /\ b >= a} = R
    BY <1>4, <1>8, <1>9, <2>3
  <2> QED BY <1>10, <2>1, <2>3, <2>4
<1> QED BY <1>1, <1>5, <1>6, <1>10, <1>14, <1>15

\* An incident of the whole table is what is active at the end of its run.
LEMMA FromIs ==
  ASSUME Sorted, NEW rule \in Rules, NEW route \in Routes, NEW a, Begins(rule, route, a)
  PROVE  /\ Ends(route, a) = {} =>
              /\ From(rule, route, a) = Active(rule, route, Len(attempts))
              /\ Active(rule, route, Len(attempts)) # None
         /\ Ends(route, a) # {} =>
              LET s == Min(Ends(route, a))
              IN  /\ s \in Rows /\ Good(route, s) /\ s > a
                  /\ Active(rule, route, s - 1) # None
                  /\ From(rule, route, a) = Closed(rule, route, s)
<1>1. a \in Rows /\ attempts[a].route = route /\ attempts[a].result # "success"
  BY DEF Begins, Opens
<1>2. PICK run : run = {b \in Rows : /\ attempts[b].route = route
                                     /\ attempts[b].result # "success"
                                     /\ Ends(route, b) = Ends(route, a) /\ b >= a}
  OBVIOUS
<1>3. PICK i : i = Opened(rule, route, run, attempts[a].at) OBVIOUS
<1>4. From(rule, route, a) = IF Ends(route, a) = {} THEN i
                             ELSE Ended(rule, i, Min(Ends(route, a)))
  BY <1>2, <1>3 DEF From
<1>5. a \in Int /\ a >= 1 /\ a <= Len(attempts) /\ Len(attempts) \in Nat
      /\ \A t \in Rows : t \in Int /\ t >= 1 /\ t <= Len(attempts)
  BY <1>1 DEF Sorted
<1>6. \A m : EndsRun(route, m) /\ a \in Since(route, m) =>
               Active(rule, route, m) # None /\ Active(rule, route, m) = i
  BY <1>2, <1>3, RunIs
<1>7. ASSUME Ends(route, a) = {}
      PROVE  /\ From(rule, route, a) = Active(rule, route, Len(attempts))
             /\ Active(rule, route, Len(attempts)) # None
  <2>1. EndsRun(route, Len(attempts)) BY TableEnds
  <2>2. \A t \in a..Len(attempts) : ~Good(route, t)
    <3>1. \A t \in a..Len(attempts) : t \in Rows /\ (t = a \/ t > a) BY <1>5 DEF Sorted
    <3>2. ~Good(route, a) BY <1>1 DEF Good
    <3> QED BY <1>7, <3>1, <3>2 DEF Ends
  <2>3. a \in Since(route, Len(attempts)) BY <1>1, <1>5, <2>2 DEF Since
  <2> QED BY <1>4, <1>6, <1>7, <2>1, <2>3
<1>8. ASSUME NEW s, s = Min(Ends(route, a)), Ends(route, a) # {}
      PROVE  /\ s \in Rows /\ Good(route, s) /\ s > a
             /\ Active(rule, route, s - 1) # None
             /\ From(rule, route, a) = Closed(rule, route, s)
  <2>1. Ends(route, a) \in SUBSET Rows BY DEF Ends
  <2>2. s \in Ends(route, a) /\ \A t \in Ends(route, a) : s <= t
    <3>1. Ends(route, a) \subseteq Int /\ IsFiniteSet(Ends(route, a)) BY <2>1, PlacesFinite
    <3>2. Min(Ends(route, a)) \in Ends(route, a)
          /\ \A t \in Ends(route, a) : Min(Ends(route, a)) <= t
      BY <1>8, <3>1, MinIn
    <3> QED BY <1>8, <3>2
  <2>3. s \in Rows /\ Good(route, s) /\ s > a BY <2>2 DEF Ends
  <2>4. EndsRun(route, s - 1)
    <3>1. s - 1 \in 0..Len(attempts) /\ s - 1 + 1 = s BY <1>5, <2>3
    <3> QED BY <2>3, <3>1 DEF EndsRun
  <2>5. \A t \in a..s - 1 : ~Good(route, t)
    <3>1. \A t \in a..s - 1 : t \in Rows /\ (t = a \/ t > a) /\ ~(s <= t)
      BY <1>5, <2>3 DEF Sorted
    <3>2. ~Good(route, a) BY <1>1 DEF Good
    <3> QED BY <2>2, <3>1, <3>2 DEF Ends
  <2>6. a \in Since(route, s - 1)
    <3>1. a \in 1..s - 1 BY <1>5, <2>3
    <3> QED BY <1>1, <2>5, <3>1 DEF Since
  <2>7. Active(rule, route, s - 1) # None /\ Active(rule, route, s - 1) = i
    BY <1>6, <2>4, <2>6
  <2> QED BY <1>4, <1>8, <2>3, <2>7 DEF Closed
<1> QED BY <1>7, <1>8

\* All rows give what the pass gives.
LEMMA WholeIsPass ==
  ASSUME Sorted, NEW rule \in Rules, NEW route \in Routes
  PROVE  WholeIncidents(rule, route) =
           Done(rule, route, Len(attempts)) \cup ({Active(rule, route, Len(attempts))} \ {None})
<1>1. PICK n : n = Len(attempts) OBVIOUS
<1>2. WholeIncidents(rule, route) = {From(rule, route, a) : a \in Shown(rule, route)}
  BY WholeIs
<1>3. n \in Nat /\ Cutoff \in Nat /\ Rows = 1..n BY <1>1, CutoffIs DEF Sorted
<1>4. ASSUME NEW a \in Shown(rule, route)
      PROVE  \/ From(rule, route, a) = Active(rule, route, n) /\ Active(rule, route, n) # None
             \/ From(rule, route, a) \in Done(rule, route, n)
  <2>1. Begins(rule, route, a)
        /\ (Ends(route, a) = {} \/ Min(Ends(route, a)) \notin Omitted)
    BY DEF Shown
  <2>2. CASE Ends(route, a) = {} BY <1>1, <2>1, <2>2, FromIs
  <2>3. CASE Ends(route, a) # {}
    <3>1. PICK s : s = Min(Ends(route, a)) OBVIOUS
    <3>2. /\ s \in Rows /\ Good(route, s)
          /\ Active(rule, route, s - 1) # None
          /\ From(rule, route, a) = Closed(rule, route, s)
      BY <2>1, <2>3, <3>1, FromIs
    <3>3. s \in Cutoff + 1..n BY <1>3, <2>1, <2>3, <3>1, <3>2 DEF Omitted
    <3> QED BY <3>2, <3>3 DEF Done, Closing
  <2> QED BY <2>2, <2>3
<1>5. ASSUME Active(rule, route, n) # None
      PROVE  \E a \in Shown(rule, route) : From(rule, route, a) = Active(rule, route, n)
  <2>1. EndsRun(route, n) BY <1>1, TableEnds
  <2>2. PICK a \in Since(route, n) : Begins(rule, route, a) BY <1>5, <2>1, RunIs
  <2>3. Ends(route, a) = {}
    <3>1. n \in 0..n BY <1>3
    <3>2. Ends(route, a) = {s \in Rows : Good(route, s) /\ s > n} BY <1>1, <3>1, EndsAre
    <3>3. \A s \in Rows : ~(s > n) BY <1>3
    <3> QED BY <3>2, <3>3
  <2>4. From(rule, route, a) = Active(rule, route, n) BY <1>1, <2>2, <2>3, FromIs
  <2>5. a \in Shown(rule, route) BY <2>2, <2>3 DEF Shown, Begins
  <2> QED BY <2>4, <2>5
<1>6. ASSUME NEW s \in Closing(rule, route, n)
      PROVE  \E a \in Shown(rule, route) : From(rule, route, a) = Closed(rule, route, s)
  <2>1. s \in Cutoff + 1..n /\ Good(route, s) /\ Active(rule, route, s - 1) # None
    BY DEF Closing
  <2>2. s \in Rows /\ s - 1 \in 0..n /\ s - 1 + 1 = s /\ s \in Int BY <1>3, <2>1
  <2>3. EndsRun(route, s - 1) BY <1>1, <2>1, <2>2 DEF EndsRun
  <2>4. PICK a \in Since(route, s - 1) : Begins(rule, route, a) BY <2>1, <2>3, RunIs
  <2>5. Ends(route, a) = {t \in Rows : Good(route, t) /\ t > s - 1} BY <1>1, <2>2, EndsAre
  <2>6. s \in Ends(route, a) /\ \A t \in Ends(route, a) : t \in Int /\ s <= t
    BY <1>3, <2>1, <2>2, <2>5
  <2>7. Min(Ends(route, a)) = s
    <3>1. Ends(route, a) \subseteq Int BY <2>6
    <3> QED BY <2>6, <3>1, MinEquals
  <2>8. s \notin Omitted BY <1>3, <2>1 DEF Omitted
  <2>9. a \in Shown(rule, route) BY <2>4, <2>7, <2>8 DEF Shown, Begins
  <2>10. From(rule, route, a) = Closed(rule, route, s)
    <3>1. Ends(route, a) # {} BY <2>6
    <3> QED BY <2>4, <2>7, <3>1, FromIs
  <2> QED BY <2>9, <2>10
<1> QED BY <1>1, <1>2, <1>4, <1>5, <1>6 DEF Done

\* What a release derives from attempts is what all rows give.
LEMMA CarryIsExact ==
  ASSUME Sorted
  PROVE  CarryExact
<1>1. "health" \in Rules /\ "5xx" \in Rules /\ Health \in Routes
  BY IncidentsAssumption DEF Rules
<1>2. Pass("health", Health, HealthCarry) = WholeIncidents("health", Health)
  BY <1>1, HealthCarryIs, PassIs, WholeIsPass
<1>3. ASSUME NEW route \in Routes
      PROVE  Pass("5xx", route, EndpointCarry(route)) = WholeIncidents("5xx", route)
  <2>1. EndpointCarry(route) = Active("5xx", route, Cutoff) BY EndpointCarryIs
  <2>2. Pass("5xx", route, EndpointCarry(route)) =
          Done("5xx", route, Len(attempts)) \cup ({Active("5xx", route, Len(attempts))} \ {None})
    BY <1>1, <2>1, PassIs
  <2>3. WholeIncidents("5xx", route) =
          Done("5xx", route, Len(attempts)) \cup ({Active("5xx", route, Len(attempts))} \ {None})
    BY <1>1, WholeIsPass
  <2> QED BY <2>2, <2>3
<1> QED BY <1>2, <1>3 DEF CarryExact, AttemptIncidents

-----------------------------------------------------------------------------
(* What was open goes on.                                                  *)

\* The first row of a run that has rows which may open an incident.
LEMMA FirstBegins ==
  ASSUME Sorted, NEW rule, NEW route, NEW a \in Rows, Opens(rule, route, a)
  PROVE  \E f \in Rows : Begins(rule, route, f) /\ Ends(route, f) = Ends(route, a) /\ f <= a
<1>1. PICK X : X = {b \in Rows : Opens(rule, route, b) /\ Ends(route, b) = Ends(route, a)}
  OBVIOUS
<1>2. X \in SUBSET Rows /\ X # {} /\ a \in X BY <1>1
<1>3. X \subseteq Int /\ IsFiniteSet(X) BY <1>2, PlacesFinite
<1>4. Min(X) \in X /\ \A y \in X : Min(X) <= y BY <1>2, <1>3, MinIn
<1>5. PICK f : f = Min(X) OBVIOUS
<1>6. f \in Rows /\ Opens(rule, route, f) /\ Ends(route, f) = Ends(route, a) /\ f <= a
  BY <1>1, <1>2, <1>4, <1>5
<1>7. \A b \in Rows : Opens(rule, route, b) /\ Ends(route, b) = Ends(route, f) => ~(b < f)
  <2>1. \A b \in X : b \in Int /\ f \in Int /\ f <= b BY <1>3, <1>4, <1>5
  <2>2. \A b \in X : ~(b < f) BY <2>1
  <2> QED BY <1>1, <1>6, <2>2
<1>8. Begins(rule, route, f) BY <1>6, <1>7 DEF Begins
<1> QED BY <1>6, <1>8

\* While the row that opened an incident is stored, an incident takes it up,
\* unless its end was left out.
LEMMA AttemptTaken ==
  ASSUME Sorted, NEW i, NEW rule \in Rules, NEW route \in Routes,
         rule = "health" => route = Health, i.rule = rule, i.route = route,
         NEW rows, rows = OfRoute(Rows, route), i.opened \in Times(Opening(rule, rows)),
         ~ \E s \in Succeeded(rows) \cap Omitted : attempts[s].at >= i.opened
  PROVE  \E j \in AttemptIncidents : TakesUp(j, i)
<1>1. rows = OfRoute(Rows, route) OBVIOUS
<1>2. i.opened \in Times(Opening(rule, rows)) OBVIOUS
<1>3. PICK a \in Rows : Opens(rule, route, a) /\ attempts[a].at = i.opened
  BY <1>1, <1>2 DEF Times, Opening, Failed, Succeeded, Errors, OfRoute, Opens, Rules
<1>4. PICK f \in Rows : Begins(rule, route, f) /\ Ends(route, f) = Ends(route, a) /\ f <= a
  BY <1>3, FirstBegins
<1>5. \A r \in Rows : attempts[r].at \in Nat
  BY IncidentsAssumption DEF Sorted, Attempt, Time
<1>6. attempts[f].at <= i.opened /\ attempts[f].at \in Nat /\ i.opened \in Nat
  BY <1>3, <1>4, <1>5 DEF Sorted
<1>7. \A g \in Shown(rule, route) : From(rule, route, g) \in AttemptIncidents
  <2>1. CarryExact BY CarryIsExact
  <2>2. \A g \in Shown(rule, route) : From(rule, route, g) \in WholeIncidents(rule, route)
    BY WholeIs
  <2>3. WholeIncidents(rule, route) \subseteq AttemptIncidents BY <2>1 DEF CarryExact, Rules
  <2> QED BY <2>2, <2>3
<1>8. PICK run : run = {b \in Rows : /\ attempts[b].route = route
                                     /\ attempts[b].result # "success"
                                     /\ Ends(route, b) = Ends(route, f) /\ b >= f}
  OBVIOUS
<1>9. PICK o : o = Opened(rule, route, run, attempts[f].at) OBVIOUS
<1>10. From(rule, route, f) = IF Ends(route, f) = {} THEN o
                              ELSE Ended(rule, o, Min(Ends(route, f)))
  BY <1>8, <1>9 DEF From
<1>11. o.rule = rule /\ o.route = route /\ o.opened = attempts[f].at /\ o.resolved = None
  BY <1>9 DEF Opened
<1>14. ASSUME NEW j, j.rule = rule, j.route = route, j.opened = attempts[f].at,
              j.resolved = None \/ j.resolved >= i.opened
       PROVE  TakesUp(j, i)
  <2>1. Opening(rule, rows) = {b \in Rows : Opens(rule, route, b)}
    BY <1>1 DEF Opening, Failed, Succeeded, Errors, OfRoute, Opens, Rules
  <2>2. f \in Opening(rule, rows) /\ a \in Opening(rule, rows) /\ f <= a
    BY <1>3, <1>4, <2>1 DEF Begins
  <2>3. ASSUME NEW s \in Succeeded(rows) PROVE s < f \/ a < s
    <3>1. s \in Rows /\ Good(route, s) BY <1>1 DEF Succeeded, OfRoute, Good
    <3>2. s # f BY <1>4, <3>1 DEF Begins, Opens, Good
    <3>3. CASE s > f
      <4>1. s \in Ends(route, a) BY <1>4, <3>1, <3>3 DEF Ends
      <4> QED BY <1>3, <3>1, <4>1 DEF Ends, Sorted
    <3>4. s \in Int /\ f \in Int BY <3>1 DEF Sorted
    <3> QED BY <3>2, <3>3, <3>4
  <2> QED BY <1>1, <1>3, <1>14, <2>2, <2>3 DEF TakesUp
<1>12. CASE Ends(route, f) = {}
  <2>1. f \in Shown(rule, route) BY <1>4, <1>12 DEF Shown
  <2>2. o \in AttemptIncidents BY <1>7, <1>10, <1>12, <2>1
  <2>3. TakesUp(o, i) BY <1>11, <1>14
  <2> QED BY <2>2, <2>3
<1>13. CASE Ends(route, f) # {}
  <2>1. PICK s : s = Min(Ends(route, f)) OBVIOUS
  <2>2. s \in Rows /\ Good(route, s) /\ s > a
    <3>1. Ends(route, a) \in SUBSET Rows BY DEF Ends
    <3>2. Ends(route, a) \subseteq Int /\ IsFiniteSet(Ends(route, a)) BY <3>1, PlacesFinite
    <3>3. Min(Ends(route, a)) \in Ends(route, a) BY <1>4, <1>13, <3>2, MinIn
    <3>4. s \in Ends(route, a) BY <1>4, <2>1, <3>3
    <3> QED BY <3>4 DEF Ends
  <2>3. attempts[s].at >= i.opened
    <3>1. a \in Int /\ s \in Int BY <1>3, <2>2 DEF Sorted
    <3>2. attempts[a].at <= attempts[s].at BY <1>3, <2>2, <3>1 DEF Sorted
    <3> QED BY <1>3, <1>5, <2>2, <3>2
  <2>4. s \in Succeeded(rows) BY <1>1, <2>2 DEF Succeeded, OfRoute, Good
  <2>5. s \notin Omitted BY <1>2, <2>3, <2>4
  <2>6. f \in Shown(rule, route) BY <1>4, <2>1, <2>5 DEF Shown
  <2>7. PICK j : j = Ended(rule, o, s) OBVIOUS
  <2>8. j \in AttemptIncidents BY <1>7, <1>10, <1>13, <2>1, <2>6, <2>7
  <2>9. j.rule = rule /\ j.route = route /\ j.opened = attempts[f].at
        /\ j.resolved = attempts[s].at
    BY <1>9, <1>11, <2>7 DEF Ended, Opened
  <2>10. TakesUp(j, i) BY <1>14, <2>3, <2>9
  <2> QED BY <2>8, <2>10
<1> QED BY <1>12, <1>13

-----------------------------------------------------------------------------
(* Counting the newest gaps.                                               *)

\* The image of a finite set.
LEMMA ImageFinite ==
  ASSUME NEW S, IsFiniteSet(S), NEW f
  PROVE  /\ IsFiniteSet({f[x] : x \in S})
         /\ Cardinality({f[x] : x \in S}) <= Cardinality(S)
<1> DEFINE T == {f[x] : x \in S}
           g == [x \in S |-> f[x]]
<1>1. g \in [S -> T] /\ \A t \in T : \E x \in S : g[x] = t OBVIOUS
<1>2. g \in Surjection(S, T)
  <2> HIDE DEF g, T
  <2> QED BY <1>1, Fun_IsSurj
<1> HIDE DEF g
<1> QED BY <1>2, FS_Surjection

\* Things that were opened at different times.
Distinct(T) ==
  /\ IsFiniteSet(T)
  /\ \A g \in T : g.opened \in Nat
  /\ \A g, h \in T : g.opened = h.opened => g = h

\* Those opened later.
Newer(T, g) == {h \in T : h.opened > g.opened}

\* Of such things the newest m are m, if there are as many.
LEMMA NewestCount ==
  ASSUME NEW T, Distinct(T), NEW m \in Nat, m <= Cardinality(T)
  PROVE  Cardinality({g \in T : Cardinality(Newer(T, g)) < m}) = m
<1> DEFINE n == Cardinality(T)
           f == [g \in T |-> Cardinality(Newer(T, g))]
           N == {g \in T : Cardinality(Newer(T, g)) < m}
<1>1. n \in Nat BY FS_CardinalityType DEF Distinct
<1>2. \A g \in T : g.opened \in Nat BY DEF Distinct
<1>3. \A g \in T : IsFiniteSet(Newer(T, g)) /\ Cardinality(Newer(T, g)) \in 0..n - 1
  <2>1. SUFFICES ASSUME NEW g \in T
                 PROVE  IsFiniteSet(Newer(T, g)) /\ Cardinality(Newer(T, g)) \in 0..n - 1
    OBVIOUS
  <2>2. Newer(T, g) \in SUBSET T /\ g \notin Newer(T, g) BY <1>2 DEF Newer
  <2>3. IsFiniteSet(T) BY DEF Distinct
  <2>4. /\ IsFiniteSet(Newer(T, g)) /\ Cardinality(Newer(T, g)) <= n
        /\ Cardinality(Newer(T, g)) # n
    BY <2>2, <2>3, FS_Subset
  <2>5. Cardinality(Newer(T, g)) \in Nat BY <2>4, FS_CardinalityType
  <2> QED BY <1>1, <2>4, <2>5
<1>4. \A g, h \in T : g.opened > h.opened => Cardinality(Newer(T, g)) < Cardinality(Newer(T, h))
  <2>1. SUFFICES ASSUME NEW g \in T, NEW h \in T, g.opened > h.opened
                 PROVE  Cardinality(Newer(T, g)) < Cardinality(Newer(T, h))
    OBVIOUS
  <2>2. Newer(T, g) \in SUBSET Newer(T, h) BY <1>2, <2>1 DEF Newer
  <2>3. g \in Newer(T, h) /\ g \notin Newer(T, g) BY <1>2, <2>1 DEF Newer
  <2>4. Newer(T, g) # Newer(T, h) BY <2>3
  <2>5. /\ Cardinality(Newer(T, g)) <= Cardinality(Newer(T, h))
        /\ Cardinality(Newer(T, g)) # Cardinality(Newer(T, h))
    BY <1>3, <2>2, <2>4, FS_Subset
  <2>6. Cardinality(Newer(T, g)) \in Int /\ Cardinality(Newer(T, h)) \in Int BY <1>1, <1>3
  <2> QED BY <2>5, <2>6
<1>5. \A g, h \in T : f[g] = f[h] => g = h
  <2>1. SUFFICES ASSUME NEW g \in T, NEW h \in T, f[g] = f[h] PROVE g = h OBVIOUS
  <2>2. Cardinality(Newer(T, g)) = Cardinality(Newer(T, h)) BY <2>1
  <2>3. Cardinality(Newer(T, g)) \in Int BY <1>1, <1>3
  <2>4. ~(g.opened > h.opened) /\ ~(h.opened > g.opened) BY <1>4, <2>2, <2>3
  <2>5. g.opened = h.opened BY <1>2, <2>4
  <2> QED BY <2>5 DEF Distinct
<1>6. f \in [T -> 0..n - 1] BY <1>3
<1>7. f \in Injection(T, 0..n - 1)
  <2> HIDE DEF f, n
  <2> QED BY <1>5, <1>6, Fun_IsInj
<1>8. IsFiniteSet(0..n - 1) /\ Cardinality(0..n - 1) = n
  <2>1. 0 \in Int /\ n - 1 \in Int BY <1>1
  <2> HIDE DEF n
  <2>2. IsFiniteSet(0..n - 1) /\ Cardinality(0..n - 1) = IF 0 > n - 1 THEN 0 ELSE n - 1 - 0 + 1
    BY <2>1, FS_Interval
  <2> QED BY <1>1, <2>2
<1>9. f \in Surjection(T, 0..n - 1) BY <1>7, <1>8, FS_Injection
<1>10. \A k \in 0..n - 1 : \E g \in T : f[g] = k
  <2> HIDE DEF f, n
  <2> QED BY <1>9, Fun_SurjectionProperties
<1> DEFINE b == [g \in N |-> Cardinality(Newer(T, g))]
<1>11. b \in [N -> 0..m - 1] BY <1>1, <1>3
<1>12. \A g, h \in N : b[g] = b[h] => g = h
  <2>1. \A g \in N : b[g] = f[g] /\ g \in T OBVIOUS
  <2> HIDE DEF b, f, N
  <2> QED BY <1>5, <2>1
<1>13. \A k \in 0..m - 1 : \E g \in N : b[g] = k
  <2>1. SUFFICES ASSUME NEW k \in 0..m - 1 PROVE \E g \in N : b[g] = k OBVIOUS
  <2>2. k \in 0..n - 1 BY <1>1
  <2>3. PICK g \in T : f[g] = k BY <1>10, <2>2
  <2>4. Cardinality(Newer(T, g)) = k BY <2>3
  <2>5. k < m OBVIOUS
  <2>6. g \in N BY <2>4, <2>5
  <2>7. b[g] = k BY <2>4, <2>6
  <2> QED BY <2>6, <2>7
<1>14. b \in Bijection(N, 0..m - 1)
  <2> HIDE DEF b, N
  <2> QED BY <1>11, <1>12, <1>13, Fun_IsBij
<1>15. IsFiniteSet(N) /\ IsFiniteSet(T)
  <2>1. N \in SUBSET T OBVIOUS
  <2>2. IsFiniteSet(T) BY DEF Distinct
  <2> HIDE DEF N
  <2> QED BY <2>1, <2>2, FS_Subset
<1>16. Cardinality(0..m - 1) = Cardinality(N)
  <2>1. ExistsBijection(N, 0..m - 1) BY <1>14 DEF ExistsBijection
  <2> HIDE DEF N
  <2> QED BY <1>15, <2>1, FS_Bijection
<1>17. Cardinality(0..m - 1) = m
  <2>1. 0 \in Int /\ m - 1 \in Int OBVIOUS
  <2>2. Cardinality(0..m - 1) = IF 0 > m - 1 THEN 0 ELSE m - 1 - 0 + 1 BY <2>1, FS_Interval
  <2> QED BY <2>2
<1> QED BY <1>16, <1>17

-----------------------------------------------------------------------------
(* Collector gaps.                                                         *)

\* The accepted ticks are not of the future.
LEMMA AcceptedIs ==
  ASSUME TypeOK
  PROVE  /\ Accepted \in SUBSET Nat /\ \A ts \in Accepted : ts <= now
         /\ IsFiniteSet(Accepted) /\ now \in Nat /\ GapSeconds \in Nat
<1>1. Delay \in Nat /\ MaxTime \in Nat /\ GapSeconds \in Nat BY IncidentsAssumption
<1>2. now \in Nat BY <1>1 DEF TypeOK
<1>3. \A k \in DOMAIN lines : lines[k] \in 0..now
  <2>1. lines \in Seq(0..now) BY DEF TypeOK
  <2>2. DOMAIN lines = 1..Len(lines) BY <2>1, LenProperties
  <2> QED BY <2>1, <2>2, ElementOfSeq
<1>4. \A ts \in Accepted : ts \in 0..now BY <1>3 DEF Accepted
<1>5. Accepted \in SUBSET (0..now) BY <1>4
<1>6. IsFiniteSet(0..now)
  <2>1. 0 \in Int /\ now \in Int BY <1>2
  <2> QED BY <2>1, FS_Interval
<1>7. IsFiniteSet(Accepted) BY <1>5, <1>6, FS_Subset
<1>8. Accepted \in SUBSET Nat /\ \A ts \in Accepted : ts <= now BY <1>2, <1>5
<1> QED BY <1>1, <1>2, <1>7, <1>8

\* The gap after a tick: the next one comes too late, or none has come.
GapAfter(g, ts) ==
  \/ \E to \in Accepted : /\ to > ts + GapSeconds
                          /\ \A t \in Accepted : t <= ts \/ to <= t
                          /\ g = Gap(ts, to)
  \/ /\ now > ts + GapSeconds /\ \A t \in Accepted : t <= ts
     /\ g = [Gap(ts, now) EXCEPT !.resolved = None]

\* All gaps are gaps after ticks.
LEMMA GapsAre == \A g : g \in Gaps <=> \E ts \in Accepted : GapAfter(g, ts)
<1>1. SUFFICES ASSUME NEW g PROVE g \in Gaps <=> \E ts \in Accepted : GapAfter(g, ts)
  OBVIOUS
<1> DEFINE long == {p \in Accepted \X Accepted :
                      p[2] > p[1] + GapSeconds /\ \A ts \in Accepted : ts <= p[1] \/ p[2] <= ts}
           C == {Gap(p[1], p[2]) : p \in long}
           O == {[Gap(ts, now) EXCEPT !.resolved = None] :
                   ts \in {l \in Accepted : now > l + GapSeconds /\ \A m \in Accepted : m <= l}}
<1>2. Gaps = C \cup O BY DEF Gaps
<1>3. g \in C <=> \E ts \in Accepted : \E to \in Accepted :
                    /\ to > ts + GapSeconds /\ \A t \in Accepted : t <= ts \/ to <= t
                    /\ g = Gap(ts, to)
  <2>1. ASSUME g \in C
        PROVE  \E ts \in Accepted : \E to \in Accepted :
                 /\ to > ts + GapSeconds /\ \A t \in Accepted : t <= ts \/ to <= t
                 /\ g = Gap(ts, to)
    <3>1. PICK p \in long : g = Gap(p[1], p[2]) BY <2>1
    <3> QED BY <3>1
  <2>2. ASSUME NEW ts \in Accepted, NEW to \in Accepted, to > ts + GapSeconds,
               \A t \in Accepted : t <= ts \/ to <= t, g = Gap(ts, to)
        PROVE  g \in C
    <3>1. PICK p : p = <<ts, to>> OBVIOUS
    <3>2. p[1] = ts /\ p[2] = to BY <3>1
    <3>3. p \in long BY <2>2, <3>1, <3>2
    <3> QED BY <2>2, <3>2, <3>3
  <2> HIDE DEF C
  <2> QED BY <2>1, <2>2
<1>4. g \in O <=> \E ts \in Accepted : /\ now > ts + GapSeconds /\ \A t \in Accepted : t <= ts
                                       /\ g = [Gap(ts, now) EXCEPT !.resolved = None]
  OBVIOUS
<1> HIDE DEF C, O
<1> QED BY <1>2, <1>3, <1>4 DEF GapAfter

\* When the gap after a tick opened.
LEMMA GapOpened ==
  ASSUME NEW g, NEW ts, GapAfter(g, ts)
  PROVE  g.opened = ts + GapSeconds /\ g.rule = "gap" /\ g.route = None
BY DEF GapAfter, Gap

\* No tick has two gaps, and all open at different times.
LEMMA GapsDistinct ==
  ASSUME TypeOK
  PROVE  Distinct(Gaps)
<1>1. /\ Accepted \in SUBSET Nat /\ \A ts \in Accepted : ts <= now
      /\ now \in Nat /\ GapSeconds \in Nat
  BY AcceptedIs
<1>2. ASSUME NEW g \in Gaps
      PROVE  \E ts \in Accepted : GapAfter(g, ts) /\ g.opened = ts + GapSeconds
  BY GapsAre, GapOpened
<1>3. \A g \in Gaps : g.opened \in 0..now + GapSeconds BY <1>1, <1>2
<1>4. ASSUME NEW ts \in Accepted, NEW g, GapAfter(g, ts), NEW h, GapAfter(h, ts)
      PROVE  g = h
  <2>1. CASE \E to \in Accepted : /\ to > ts + GapSeconds
                                  /\ \A t \in Accepted : t <= ts \/ to <= t
                                  /\ g = Gap(ts, to)
    <3>1. PICK to \in Accepted : /\ to > ts + GapSeconds
                                 /\ \A t \in Accepted : t <= ts \/ to <= t
                                 /\ g = Gap(ts, to)
      BY <2>1
    <3>2. to > ts /\ ~(to <= ts) BY <1>1, <3>1
    <3>3. PICK to2 \in Accepted : /\ to2 > ts + GapSeconds
                                  /\ \A t \in Accepted : t <= ts \/ to2 <= t
                                  /\ h = Gap(ts, to2)
      BY <1>4, <3>2 DEF GapAfter
    <3>4. to2 > ts /\ ~(to2 <= ts) BY <1>1, <3>3
    <3>5. to <= to2 /\ to2 <= to BY <3>1, <3>2, <3>3, <3>4
    <3>6. to = to2 BY <1>1, <3>5
    <3> QED BY <3>1, <3>3, <3>6
  <2>2. CASE /\ now > ts + GapSeconds /\ \A t \in Accepted : t <= ts
             /\ g = [Gap(ts, now) EXCEPT !.resolved = None]
    <3>1. \A to \in Accepted : ~(to > ts + GapSeconds) BY <1>1, <2>2
    <3> QED BY <1>4, <2>2, <3>1 DEF GapAfter
  <2> QED BY <1>4, <2>1, <2>2 DEF GapAfter
<1>5. \A g, h \in Gaps : g.opened = h.opened => g = h
  <2>1. SUFFICES ASSUME NEW g \in Gaps, NEW h \in Gaps, g.opened = h.opened PROVE g = h
    OBVIOUS
  <2>2. PICK ts \in Accepted : GapAfter(g, ts) /\ g.opened = ts + GapSeconds BY <1>2
  <2>3. PICK us \in Accepted : GapAfter(h, us) /\ h.opened = us + GapSeconds BY <1>2
  <2>4. ts \in Nat /\ us \in Nat BY <1>1
  <2>5. ts + GapSeconds = us + GapSeconds BY <2>1, <2>2, <2>3
  <2>6. ts = us BY <1>1, <2>4, <2>5
  <2> QED BY <1>4, <2>2, <2>3, <2>6
<1>6. IsFiniteSet(Gaps)
  <2> DEFINE f == [g \in Gaps |-> g.opened]
             N == 0..now + GapSeconds
  <2>1. f \in [Gaps -> N] /\ \A g, h \in Gaps : f[g] = f[h] => g = h BY <1>3, <1>5
  <2>2. IsFiniteSet(N)
    <3>1. 0 \in Int /\ now + GapSeconds \in Int BY <1>1
    <3> QED BY <3>1, FS_Interval
  <2> HIDE DEF f, N
  <2>3. f \in Injection(Gaps, N) BY <2>1, Fun_IsInj
  <2> QED BY <2>2, <2>3, FS_Injection
<1>7. \A g \in Gaps : g.opened \in Nat BY <1>1, <1>3
<1> QED BY <1>5, <1>6, <1>7 DEF Distinct

\* While the tick before an open gap is accepted, the gap is still there, unless
\* the next tick comes before it opened or enough newer gaps followed.
LEMMA GapKept ==
  ASSUME TypeOK, NEW ts \in Accepted, now > ts + GapSeconds,
         NEW i, i = [rule |-> "gap", route |-> None, opened |-> ts + GapSeconds]
  PROVE  \/ \E t \in Accepted : ts < t /\ t <= i.opened
         \/ \E j \in GapIncidents : Key(j) = i
         \/ Cardinality({j \in GapIncidents : j.opened > i.opened}) = MaxIncidents
<1>1. /\ Accepted \in SUBSET Nat /\ IsFiniteSet(Accepted)
      /\ now \in Nat /\ GapSeconds \in Nat /\ ts \in Nat
  BY AcceptedIs
<1>2. i.opened = ts + GapSeconds /\ i.opened - GapSeconds = ts BY <1>1
<1>3. ASSUME \A t \in Accepted : ~(ts < t /\ t <= i.opened)
      PROVE  \E g \in Gaps : Key(g) = i /\ g.opened = i.opened
  <2>1. PICK later : later = {t \in Accepted : t > ts} OBVIOUS
  <2>2. \E g : GapAfter(g, ts)
    <3>1. CASE later = {}
      <4>1. \A t \in Accepted : t <= ts BY <1>1, <2>1, <3>1
      <4> QED BY <4>1 DEF GapAfter
    <3>2. CASE later # {}
      <4>1. later \in SUBSET Accepted BY <2>1
      <4>2. later \subseteq Int /\ IsFiniteSet(later)
        <5>1. IsFiniteSet(later) BY <1>1, <4>1, FS_Subset
        <5>2. \A y \in later : y \in Int BY <1>1, <4>1
        <5> QED BY <5>1, <5>2
      <4>3. Min(later) \in later /\ \A y \in later : Min(later) <= y BY <3>2, <4>2, MinIn
      <4>4. PICK to : to = Min(later) OBVIOUS
      <4>5. to \in Accepted /\ to > ts /\ \A t \in Accepted : t > ts => to <= t
        BY <2>1, <4>3, <4>4
      <4>6. to > ts + GapSeconds BY <1>1, <1>2, <1>3, <4>5
      <4>7. \A t \in Accepted : t <= ts \/ to <= t BY <1>1, <4>5
      <4> QED BY <4>5, <4>6, <4>7 DEF GapAfter
    <3> QED BY <3>1, <3>2
  <2>3. PICK g : GapAfter(g, ts) BY <2>2
  <2>4. g \in Gaps BY <2>3, GapsAre
  <2>5. g.opened = ts + GapSeconds /\ g.rule = "gap" /\ g.route = None BY <2>3, GapOpened
  <2>6. Key(g) = i BY <2>5 DEF Key
  <2> QED BY <1>2, <2>4, <2>5, <2>6
<1>4. ASSUME NEW g \in Gaps, Key(g) = i, g.opened = i.opened
      PROVE  \/ \E j \in GapIncidents : Key(j) = i
             \/ Cardinality({j \in GapIncidents : j.opened > i.opened}) = MaxIncidents
  <2>1. Distinct(Gaps) BY GapsDistinct
  <2>2. GapIncidents = {h \in Gaps : Cardinality(Newer(Gaps, h)) < MaxIncidents}
    BY DEF GapIncidents, Newer
  <2>3. CASE Cardinality(Newer(Gaps, g)) < MaxIncidents BY <1>4, <2>2, <2>3
  <2>4. CASE ~(Cardinality(Newer(Gaps, g)) < MaxIncidents)
    <3>1. PICK T : T = Newer(Gaps, g) OBVIOUS
    <3>2. T \in SUBSET Gaps /\ IsFiniteSet(Gaps) BY <2>1, <3>1 DEF Newer, Distinct
    <3>3. IsFiniteSet(T) /\ Cardinality(T) \in Nat BY <3>2, FS_Subset, FS_CardinalityType
    <3>4. Distinct(T) BY <2>1, <3>2, <3>3 DEF Distinct
    <3>5. MaxIncidents \in Nat /\ MaxIncidents <= Cardinality(T)
      <4>1. MaxIncidents \in Nat BY IncidentsAssumption
      <4> QED BY <2>4, <3>1, <3>3, <4>1
    <3>6. \A h \in Gaps : h.opened \in Nat BY <2>1 DEF Distinct
    <3>7. \A j \in T : Newer(Gaps, j) = Newer(T, j)
      <4>1. SUFFICES ASSUME NEW j \in T PROVE Newer(Gaps, j) = Newer(T, j) OBVIOUS
      <4>2. j \in Gaps /\ j.opened > g.opened BY <3>1 DEF Newer
      <4>3. \A h \in Gaps : h.opened > j.opened => h \in T BY <3>1, <3>6, <4>2 DEF Newer
      <4> QED BY <3>2, <4>3 DEF Newer
    <3>8. {j \in GapIncidents : j.opened > i.opened} =
            {j \in T : Cardinality(Newer(T, j)) < MaxIncidents}
      <4>1. {j \in GapIncidents : j.opened > i.opened} =
              {j \in T : Cardinality(Newer(Gaps, j)) < MaxIncidents}
        BY <1>4, <2>2, <3>1 DEF Newer
      <4> QED BY <3>7, <4>1
    <3>9. Cardinality({j \in T : Cardinality(Newer(T, j)) < MaxIncidents}) = MaxIncidents
      BY <3>4, <3>5, NewestCount
    <3> QED BY <3>8, <3>9
  <2> QED BY <2>3, <2>4
<1> QED BY <1>3, <1>4

-----------------------------------------------------------------------------
(* Rows inserted, replaced and removed.                                    *)

\* One row more than there were.
WithRow(t, s, p, e) ==
  /\ Len(t) = Len(s) + 1
  /\ \A a \in 1..Len(s) + 1 :
       t[a] = IF a < p THEN s[a] ELSE IF a = p THEN e ELSE s[a - 1]

\* A row in its place.
LEMMA Inserted ==
  ASSUME NEW S, NEW s \in Seq(S), NEW p \in 1..Len(s) + 1, NEW e \in S,
         NEW t, t = InsertAt(s, p, e)
  PROVE  t \in Seq(S) /\ WithRow(t, s, p, e)
<1>1. Len(s) \in Nat /\ p \in Nat /\ p >= 1 BY LenProperties
<1>2. PICK x : x = SubSeq(s, 1, p - 1) OBVIOUS
<1>3. PICK y : y = SubSeq(s, p, Len(s)) OBVIOUS
<1>4. PICK z : z = x \o <<e>> OBVIOUS
<1>5. t = z \o y BY <1>2, <1>3, <1>4 DEF InsertAt
<1>6. \A i \in 1..Len(s) : s[i] \in S BY ElementOfSeq
<1>7. x \in Seq(S) /\ Len(x) = p - 1 /\ \A i \in 1..p - 1 : x[i] = s[i]
  <2>1. \A i \in 1..p - 1 : s[i] \in S BY <1>1, <1>6
  <2>2. 1 \in Int /\ p - 1 \in Int BY <1>1
  <2>3. /\ x \in Seq(S) /\ Len(x) = IF 1 <= p - 1 THEN p - 1 - 1 + 1 ELSE 0
        /\ \A i \in 1..p - 1 - 1 + 1 : x[i] = s[1 + i - 1]
    BY <1>2, <2>1, <2>2, SubSeqProperties
  <2>4. \A i \in 1..p - 1 : i \in 1..p - 1 - 1 + 1 /\ 1 + i - 1 = i BY <1>1
  <2> QED BY <1>1, <2>3, <2>4
<1>8. /\ y \in Seq(S) /\ Len(y) = Len(s) - p + 1
      /\ \A i \in 1..Len(s) - p + 1 : y[i] = s[p + i - 1]
  <2>1. \A i \in p..Len(s) : s[i] \in S BY <1>1, <1>6
  <2>2. p \in Int /\ Len(s) \in Int BY <1>1
  <2>3. /\ y \in Seq(S) /\ Len(y) = IF p <= Len(s) THEN Len(s) - p + 1 ELSE 0
        /\ \A i \in 1..Len(s) - p + 1 : y[i] = s[p + i - 1]
    BY <1>3, <2>1, <2>2, SubSeqProperties
  <2> QED BY <1>1, <2>3
<1>9. /\ z \in Seq(S) /\ Len(z) = p
      /\ \A i \in 1..p : z[i] = IF i < p THEN s[i] ELSE e
  <2>1. <<e>> \in Seq(S) /\ Len(<<e>>) = 1 /\ <<e>>[1] = e OBVIOUS
  <2>2. /\ z \in Seq(S) /\ Len(z) = Len(x) + 1
        /\ \A i \in 1..Len(x) + 1 : z[i] = IF i <= Len(x) THEN x[i] ELSE <<e>>[i - Len(x)]
    BY <1>4, <1>7, <2>1, ConcatProperties
  <2>3. Len(z) = p BY <1>1, <1>7, <2>2
  <2>4. ASSUME NEW i \in 1..p PROVE z[i] = IF i < p THEN s[i] ELSE e
    <3>1. i \in 1..Len(x) + 1 BY <1>1, <1>7
    <3>2. CASE i < p
      <4>1. i <= Len(x) /\ i \in 1..p - 1 BY <1>1, <1>7, <3>2
      <4> QED BY <1>7, <2>2, <3>1, <3>2, <4>1
    <3>3. CASE ~(i < p)
      <4>1. i = p BY <1>1, <3>3
      <4>2. ~(i <= Len(x)) /\ i - Len(x) = 1 BY <1>1, <1>7, <4>1
      <4> QED BY <2>1, <2>2, <3>1, <3>3, <4>2
    <3> QED BY <3>2, <3>3
  <2> QED BY <2>2, <2>3, <2>4
<1>10. /\ t \in Seq(S) /\ Len(t) = Len(z) + Len(y)
       /\ \A i \in 1..Len(z) + Len(y) : t[i] = IF i <= Len(z) THEN z[i] ELSE y[i - Len(z)]
  BY <1>5, <1>8, <1>9, ConcatProperties
<1>11. Len(t) = Len(s) + 1 BY <1>1, <1>8, <1>9, <1>10
<1>12. ASSUME NEW a \in 1..Len(s) + 1
       PROVE  t[a] = IF a < p THEN s[a] ELSE IF a = p THEN e ELSE s[a - 1]
  <2>1. a \in 1..Len(z) + Len(y) BY <1>1, <1>8, <1>9
  <2>2. CASE a <= p
    <3>1. a \in 1..p /\ a <= Len(z) BY <1>1, <1>9, <2>2
    <3>2. t[a] = z[a] BY <1>10, <2>1, <3>1
    <3>3. a < p \/ a = p BY <1>1, <2>2
    <3> QED BY <1>9, <3>1, <3>2, <3>3
  <2>3. CASE ~(a <= p)
    <3>1. ~(a <= Len(z)) /\ a - p \in 1..Len(s) - p + 1 /\ p + (a - p) - 1 = a - 1
      BY <1>1, <1>9, <2>3
    <3>2. t[a] = y[a - p] BY <1>9, <1>10, <2>1, <3>1
    <3>3. y[a - p] = s[a - 1] BY <1>8, <3>1
    <3>4. ~(a < p) /\ a # p BY <1>1, <2>3
    <3> QED BY <3>2, <3>3, <3>4
  <2> QED BY <2>2, <2>3
<1> QED BY <1>10, <1>11, <1>12 DEF WithRow

\* A row taken out.
LEMMA Removed ==
  ASSUME NEW S, NEW s \in Seq(S), NEW p \in 1..Len(s), NEW t, t = RemoveAt(s, p)
  PROVE  /\ t \in Seq(S) /\ Len(t) = Len(s) - 1
         /\ \A a \in 1..Len(s) - 1 : t[a] = IF a < p THEN s[a] ELSE s[a + 1]
<1>1. Len(s) \in Nat /\ p \in Nat /\ p >= 1 /\ p <= Len(s) BY LenProperties
<1>2. PICK x : x = SubSeq(s, 1, p - 1) OBVIOUS
<1>3. PICK y : y = SubSeq(s, p + 1, Len(s)) OBVIOUS
<1>4. t = x \o y BY <1>2, <1>3 DEF RemoveAt
<1>5. \A i \in 1..Len(s) : s[i] \in S BY ElementOfSeq
<1>6. x \in Seq(S) /\ Len(x) = p - 1 /\ \A i \in 1..p - 1 : x[i] = s[i]
  <2>1. \A i \in 1..p - 1 : s[i] \in S BY <1>1, <1>5
  <2>2. 1 \in Int /\ p - 1 \in Int BY <1>1
  <2>3. /\ x \in Seq(S) /\ Len(x) = IF 1 <= p - 1 THEN p - 1 - 1 + 1 ELSE 0
        /\ \A i \in 1..p - 1 - 1 + 1 : x[i] = s[1 + i - 1]
    BY <1>2, <2>1, <2>2, SubSeqProperties
  <2>4. \A i \in 1..p - 1 : i \in 1..p - 1 - 1 + 1 /\ 1 + i - 1 = i BY <1>1
  <2> QED BY <1>1, <2>3, <2>4
<1>7. /\ y \in Seq(S) /\ Len(y) = Len(s) - p
      /\ \A i \in 1..Len(s) - p : y[i] = s[p + i]
  <2>1. \A i \in p + 1..Len(s) : s[i] \in S BY <1>1, <1>5
  <2>2. p + 1 \in Int /\ Len(s) \in Int BY <1>1
  <2>3. /\ y \in Seq(S) /\ Len(y) = IF p + 1 <= Len(s) THEN Len(s) - (p + 1) + 1 ELSE 0
        /\ \A i \in 1..Len(s) - (p + 1) + 1 : y[i] = s[p + 1 + i - 1]
    BY <1>3, <2>1, <2>2, SubSeqProperties
  <2>4. \A i \in 1..Len(s) - p : i \in 1..Len(s) - (p + 1) + 1 /\ p + 1 + i - 1 = p + i BY <1>1
  <2> QED BY <1>1, <2>3, <2>4
<1>8. /\ t \in Seq(S) /\ Len(t) = Len(x) + Len(y)
      /\ \A i \in 1..Len(x) + Len(y) : t[i] = IF i <= Len(x) THEN x[i] ELSE y[i - Len(x)]
  <2>1. x \in Seq(S) /\ y \in Seq(S) BY <1>6, <1>7
  <2> QED BY <1>4, <2>1, ConcatProperties
<1>9. Len(t) = Len(s) - 1 BY <1>1, <1>6, <1>7, <1>8
<1>10. ASSUME NEW a \in 1..Len(s) - 1 PROVE t[a] = IF a < p THEN s[a] ELSE s[a + 1]
  <2>1. a \in 1..Len(x) + Len(y) BY <1>1, <1>6, <1>7
  <2>2. CASE a < p
    <3>1. a <= Len(x) /\ a \in 1..p - 1 BY <1>1, <1>6, <2>2
    <3> QED BY <1>6, <1>8, <2>1, <2>2, <3>1
  <2>3. CASE ~(a < p)
    <3>1. /\ ~(a <= Len(x)) /\ a - Len(x) = a - p + 1
          /\ a - p + 1 \in 1..Len(s) - p /\ p + (a - p + 1) = a + 1
      BY <1>1, <1>6, <2>3
    <3>2. t[a] = y[a - p + 1] BY <1>8, <2>1, <3>1
    <3> QED BY <1>7, <2>3, <3>1, <3>2
  <2> QED BY <2>2, <2>3
<1> QED BY <1>8, <1>9, <1>10

\* Rows in the order of their times, and none later than some time.
Ordered(rows, time) ==
  /\ rows \in Seq(Attempt)
  /\ \A a \in DOMAIN rows : /\ rows[a].at <= time
                            /\ a > 1 => rows[a - 1].at <= rows[a].at

\* The rows of an ordered table and their times.
LEMMA OrderedRows ==
  ASSUME NEW rows, NEW time, Ordered(rows, time)
  PROVE  /\ rows \in Seq(Attempt) /\ Len(rows) \in Nat /\ DOMAIN rows = 1..Len(rows)
         /\ \A a \in 1..Len(rows) : rows[a] \in Attempt /\ rows[a].at \in Nat
                                    /\ rows[a].at <= time
         /\ \A a \in 1..Len(rows) : a > 1 => rows[a - 1].at <= rows[a].at
<1>1. Len(rows) \in Nat /\ DOMAIN rows = 1..Len(rows) BY LenProperties DEF Ordered
<1>2. \A a \in 1..Len(rows) : rows[a] \in Attempt BY ElementOfSeq DEF Ordered
<1>3. \A a \in 1..Len(rows) : rows[a].at \in Nat
  BY <1>2, IncidentsAssumption DEF Attempt, Time
<1> QED BY <1>1, <1>2, <1>3 DEF Ordered

\* The rows not later than a time come first.
LEMMA PlaceIs ==
  ASSUME NEW rows, NEW time \in Nat, Ordered(rows, time), NEW at \in Nat,
         NEW k, k = Cardinality({a \in DOMAIN rows : rows[a].at <= at})
  PROVE  k \in 0..Len(rows) /\ \A a \in 1..Len(rows) : a <= k <=> rows[a].at <= at
<1> DEFINE P == {a \in DOMAIN rows : rows[a].at <= at}
           n == Len(rows)
<1>1. /\ n \in Nat /\ DOMAIN rows = 1..n
      /\ \A a \in 1..n : rows[a].at \in Nat
      /\ \A a \in 1..n : a > 1 => rows[a - 1].at <= rows[a].at
  BY OrderedRows
<1>2. ASSUME NEW a \in 1..n PROVE \A b \in a..n : rows[a].at <= rows[b].at
  <2> DEFINE S == {b \in a..n : rows[a].at <= rows[b].at}
  <2> HIDE DEF n, P
  <2>1. a \in Nat /\ a \in S BY <1>1
  <2>2. ASSUME NEW j \in a..n - 1, j \in S PROVE j + 1 \in S
    <3>1. j \in 1..n /\ j + 1 \in 1..n /\ j + 1 > 1 /\ j + 1 - 1 = j /\ j + 1 \in a..n
      BY <1>1, <2>1
    <3>2. rows[j].at <= rows[j + 1].at BY <1>1, <3>1
    <3>3. /\ rows[a].at \in Nat /\ rows[j].at \in Nat /\ rows[j + 1].at \in Nat
          /\ rows[a].at <= rows[j].at
      BY <1>1, <2>2, <3>1
    <3> QED BY <3>1, <3>2, <3>3
  <2>3. \A b \in a..n : b \in S
    <3> HIDE DEF S
    <3> QED BY <1>1, <2>1, <2>2, Upward
  <2> QED BY <2>3
<1>3. P \in SUBSET (1..n) BY <1>1
<1>4. IsFiniteSet(1..n)
  <2>1. 1 \in Int /\ n \in Int BY <1>1
  <2> HIDE DEF n
  <2> QED BY <2>1, FS_Interval
<1>5. IsFiniteSet(P) /\ P \subseteq Int
  <2> HIDE DEF P, n
  <2>1. IsFiniteSet(P) BY <1>3, <1>4, FS_Subset
  <2>2. \A a \in P : a \in Int BY <1>1, <1>3
  <2> QED BY <2>1, <2>2
<1>6. \A a \in 1..n : a \in P <=> rows[a].at <= at BY <1>1
<1>7. k = Cardinality(P) OBVIOUS
<1>8. \E m \in 0..n : P = 1..m
  <2>1. CASE P = {}
    <3>1. 0 \in 0..n /\ 1..0 = {} BY <1>1
    <3> QED BY <2>1, <3>1
  <2>2. CASE P # {}
    <3> HIDE DEF P, n
    <3>1. Max(P) \in P /\ \A y \in P : y <= Max(P) BY <1>5, <2>2, MaxIn
    <3>2. PICK m : m = Max(P) OBVIOUS
    <3>3. m \in 1..n /\ rows[m].at <= at BY <1>3, <1>6, <3>1, <3>2
    <3>4. ASSUME NEW a \in 1..m PROVE a \in P
      <4>1. a \in 1..n /\ m \in a..n BY <1>1, <3>3
      <4>2. rows[a].at <= rows[m].at BY <1>2, <4>1
      <4>3. rows[a].at \in Nat /\ rows[m].at \in Nat BY <1>1, <3>3, <4>1
      <4>4. rows[a].at <= at BY <3>3, <4>2, <4>3
      <4> QED BY <1>6, <4>1, <4>4
    <3>5. \A a \in P : a \in 1..m BY <1>1, <1>3, <3>1, <3>2, <3>3
    <3>6. P = 1..m BY <3>4, <3>5
    <3>7. m \in 0..n BY <1>1, <3>3
    <3> QED BY <3>6, <3>7
  <2> QED BY <2>1, <2>2
<1>9. PICK m \in 0..n : P = 1..m BY <1>8
<1>10. Cardinality(1..m) = m
  <2> HIDE DEF P, n
  <2>1. 1 \in Int /\ m \in Int BY <1>1
  <2>2. Cardinality(1..m) = IF 1 > m THEN 0 ELSE m - 1 + 1 BY <2>1, FS_Interval
  <2> QED BY <1>1, <2>2
<1>11. k = m BY <1>7, <1>9, <1>10
<1>12. ASSUME NEW a \in 1..n PROVE a <= k <=> rows[a].at <= at
  <2> HIDE DEF P, n
  <2>1. a \in P <=> a <= m BY <1>1, <1>9
  <2> QED BY <1>6, <1>11, <2>1
<1> QED BY <1>9, <1>11, <1>12

\* A row inserted after those that are not later keeps the order.
LEMMA InsertedOrdered ==
  ASSUME NEW rows, NEW time \in Nat, Ordered(rows, time),
         NEW e \in Attempt, e.at \in Nat, e.at <= time,
         NEW k, k = Cardinality({a \in DOMAIN rows : rows[a].at <= e.at}),
         NEW t, t = InsertAt(rows, k + 1, e)
  PROVE  Ordered(t, time)
<1>1. PICK n \in Nat : n = Len(rows) BY OrderedRows
<1>2. /\ rows \in Seq(Attempt)
      /\ \A a \in 1..n : rows[a].at \in Nat /\ rows[a].at <= time
      /\ \A a \in 1..n : a > 1 => rows[a - 1].at <= rows[a].at
  BY <1>1, OrderedRows
<1>3. k \in 0..n /\ \A a \in 1..n : a <= k <=> rows[a].at <= e.at
  BY <1>1, PlaceIs
<1>4. k + 1 \in 1..Len(rows) + 1 BY <1>1, <1>3
<1>5. PICK p : p = k + 1 OBVIOUS
<1>6. p \in 1..Len(rows) + 1 /\ t = InsertAt(rows, p, e) BY <1>4, <1>5
<1>7. /\ t \in Seq(Attempt) /\ Len(t) = n + 1
      /\ \A a \in 1..n + 1 :
           t[a] = IF a < p THEN rows[a] ELSE IF a = p THEN e ELSE rows[a - 1]
  <2>1. rows \in Seq(Attempt) /\ e \in Attempt BY <1>2
  <2>2. t \in Seq(Attempt) /\ WithRow(t, rows, p, e) BY <1>6, <2>1, Inserted
  <2> QED BY <1>1, <2>2 DEF WithRow
<1>8. DOMAIN t = 1..n + 1 BY <1>7, LenProperties
<1>9. ASSUME NEW a \in 1..n + 1
      PROVE  t[a].at <= time /\ (a > 1 => t[a - 1].at <= t[a].at)
  <2>1. CASE a < p
    <3>1. a \in 1..n /\ t[a] = rows[a] BY <1>3, <1>5, <1>7, <2>1
    <3>2. a > 1 => a - 1 \in 1..n + 1 /\ a - 1 < p BY <1>3, <1>5, <2>1
    <3>3. a > 1 => t[a - 1] = rows[a - 1] BY <1>7, <3>2
    <3> QED BY <1>2, <3>1, <3>3
  <2>2. CASE a = p
    <3>1. t[a] = e BY <1>7, <2>2
    <3>2. a > 1 => a - 1 \in 1..n /\ a - 1 \in 1..n + 1 /\ a - 1 < p /\ a - 1 <= k
      BY <1>3, <1>5, <2>2
    <3>3. a > 1 => t[a - 1] = rows[a - 1] /\ rows[a - 1].at <= e.at BY <1>3, <1>7, <3>2
    <3> QED BY <3>1, <3>3
  <2>3. CASE ~(a < p) /\ a # p
    <3>1. /\ a - 1 \in 1..n /\ a > p /\ a \in 1..n + 1 /\ a - 1 \in 1..n + 1
          /\ (a - 1) - 1 = a - 2
      BY <1>3, <1>5, <2>3
    <3>2. t[a] = rows[a - 1] BY <1>7, <2>3
    <3>3. CASE a - 1 = p
      <4>1. t[a - 1] = e BY <1>7, <3>1, <3>3
      <4>2. ~(a - 1 <= k) BY <1>3, <1>5, <3>3
      <4>3. ~(rows[a - 1].at <= e.at) BY <1>3, <3>1, <4>2
      <4> QED BY <1>2, <3>1, <3>2, <4>1, <4>3
    <3>4. CASE a - 1 # p
      <4>1. ~(a - 1 < p) /\ a - 1 > 1 BY <1>3, <1>5, <3>1, <3>4
      <4>2. t[a - 1] = rows[(a - 1) - 1] BY <1>7, <3>1, <3>4, <4>1
      <4> QED BY <1>2, <3>1, <3>2, <4>1, <4>2
    <3> QED BY <3>3, <3>4
  <2> QED BY <2>1, <2>2, <2>3
<1> QED BY <1>7, <1>8, <1>9 DEF Ordered

\* A row taken out leaves the others in order.
LEMMA RemovedOrdered ==
  ASSUME NEW rows, NEW time \in Nat, Ordered(rows, time), NEW p \in DOMAIN rows,
         NEW t, t = RemoveAt(rows, p)
  PROVE  Ordered(t, time)
<1>1. PICK n \in Nat : n = Len(rows) BY OrderedRows
<1>2. /\ rows \in Seq(Attempt) /\ DOMAIN rows = 1..n
      /\ \A a \in 1..n : rows[a].at \in Nat /\ rows[a].at <= time
      /\ \A a \in 1..n : a > 1 => rows[a - 1].at <= rows[a].at
  BY <1>1, OrderedRows
<1>3. p \in 1..n BY <1>2
<1>4. /\ t \in Seq(Attempt) /\ Len(t) = n - 1
      /\ \A a \in 1..n - 1 : t[a] = IF a < p THEN rows[a] ELSE rows[a + 1]
  BY <1>1, <1>2, <1>3, Removed
<1>5. DOMAIN t = 1..n - 1 BY <1>4, LenProperties
<1>6. ASSUME NEW a \in 1..n - 1
      PROVE  t[a].at <= time /\ (a > 1 => t[a - 1].at <= t[a].at)
  <2>1. a \in 1..n /\ a + 1 \in 1..n /\ (a + 1) - 1 = a /\ a + 1 > 1 BY <1>1
  <2>2. CASE a < p
    <3>1. a > 1 => a - 1 \in 1..n - 1 /\ a - 1 < p BY <1>3, <2>2
    <3>2. t[a] = rows[a] /\ (a > 1 => t[a - 1] = rows[a - 1]) BY <1>4, <2>2, <3>1
    <3> QED BY <1>2, <2>1, <3>2
  <2>3. CASE ~(a < p)
    <3>1. t[a] = rows[a + 1] BY <1>4, <2>3
    <3>2. CASE a > 1 /\ a - 1 < p
      <4>1. a - 1 \in 1..n - 1 /\ a - 1 \in 1..n BY <3>2
      <4>2. t[a - 1] = rows[a - 1] BY <1>4, <3>2, <4>1
      <4>3. rows[a - 1].at <= rows[a].at /\ rows[a].at <= rows[a + 1].at
        BY <1>2, <2>1, <3>2
      <4>4. rows[a - 1].at \in Nat /\ rows[a].at \in Nat /\ rows[a + 1].at \in Nat
        BY <1>2, <2>1, <4>1
      <4>5. rows[a - 1].at <= rows[a + 1].at BY <4>3, <4>4
      <4> QED BY <1>2, <2>1, <3>1, <4>2, <4>5
    <3>3. CASE a > 1 /\ ~(a - 1 < p)
      <4>1. a - 1 \in 1..n - 1 /\ (a - 1) + 1 = a BY <3>3
      <4>2. t[a - 1] = rows[a] BY <1>4, <3>3, <4>1
      <4> QED BY <1>2, <2>1, <3>1, <4>2
    <3>4. CASE ~(a > 1) BY <1>2, <2>1, <3>1, <3>4
    <3> QED BY <3>2, <3>3, <3>4
  <2> QED BY <2>2, <2>3
<1> QED BY <1>4, <1>5, <1>6 DEF Ordered

\* The order does not depend on results.
LEMMA ChangedOrdered ==
  ASSUME NEW rows, NEW time \in Nat, Ordered(rows, time), NEW p \in DOMAIN rows,
         NEW t, t = [rows EXCEPT ![p].result = "failure"]
  PROVE  Ordered(t, time)
<1>1. PICK n \in Nat : n = Len(rows) BY OrderedRows
<1>2. /\ rows \in Seq(Attempt) /\ DOMAIN rows = 1..n
      /\ \A a \in 1..n : rows[a] \in Attempt /\ rows[a].at \in Nat /\ rows[a].at <= time
      /\ \A a \in 1..n : a > 1 => rows[a - 1].at <= rows[a].at
  BY <1>1, OrderedRows
<1>3. PICK e : e = [rows[p] EXCEPT !.result = "failure"] OBVIOUS
<1>4. e \in Attempt /\ e.at = rows[p].at BY <1>2, <1>3 DEF Attempt
<1>5. t = [rows EXCEPT ![p] = e] BY <1>3
<1>6. p \in 1..Len(rows) BY <1>1, <1>2
<1>7. t \in Seq(Attempt) /\ Len(t) = n
      /\ \A a \in 1..n : t[a] = IF a = p THEN e ELSE rows[a]
  <2>1. PICK u : u = [rows EXCEPT ![p] = e] OBVIOUS
  <2>2. rows \in Seq(Attempt) /\ e \in Attempt BY <1>2, <1>4
  <2>3. /\ u \in Seq(Attempt) /\ Len(u) = Len(rows)
        /\ \A a \in 1..Len(rows) : u[a] = IF a = p THEN e ELSE rows[a]
    BY <1>6, <2>1, <2>2, ExceptSeq
  <2> QED BY <1>1, <1>5, <2>1, <2>3
<1>8. \A a \in 1..n : t[a].at = rows[a].at BY <1>4, <1>7
<1>9. DOMAIN t = 1..n BY <1>7, LenProperties
<1>10. ASSUME NEW a \in 1..n
       PROVE  t[a].at <= time /\ (a > 1 => t[a - 1].at <= t[a].at)
  <2>1. a > 1 => a - 1 \in 1..n BY <1>1
  <2> QED BY <1>2, <1>8, <2>1
<1> QED BY <1>7, <1>9, <1>10 DEF Ordered

-----------------------------------------------------------------------------
(* What a release lists.                                                   *)

\* The incidents of a rule and route are finitely many.
LEMMA PassesFinite ==
  ASSUME Sorted, NEW rule \in Rules, NEW route
  PROVE  /\ IsFiniteSet(WholeIncidents(rule, route))
         /\ \A i \in WholeIncidents(rule, route) :
              i.rule = rule /\ i.route = route /\ i.opened \in Nat
<1>1. PICK S : S = Shown(rule, route) OBVIOUS
<1>2. S \in SUBSET Rows BY <1>1 DEF Shown
<1>3. IsFiniteSet(S) BY <1>2, PlacesFinite
<1>4. PICK f : f = [a \in S |-> From(rule, route, a)] OBVIOUS
<1>5. IsFiniteSet({f[a] : a \in S}) BY <1>3, ImageFinite
<1>6. WholeIncidents(rule, route) = {f[a] : a \in S} BY <1>1, <1>4, WholeIs
<1>7. ASSUME NEW a \in S
      PROVE  f[a].rule = rule /\ f[a].route = route /\ f[a].opened \in Nat
  <2>1. PICK run : run = {b \in Rows : /\ attempts[b].route = route
                                       /\ attempts[b].result # "success"
                                       /\ Ends(route, b) = Ends(route, a) /\ b >= a}
    OBVIOUS
  <2>2. PICK o : o = Opened(rule, route, run, attempts[a].at) OBVIOUS
  <2>3. f[a] = IF Ends(route, a) = {} THEN o ELSE Ended(rule, o, Min(Ends(route, a)))
    BY <1>4, <2>1, <2>2 DEF From
  <2>4. o.rule = rule /\ o.route = route /\ o.opened = attempts[a].at BY <2>2 DEF Opened
  <2>5. \A s : /\ Ended(rule, o, s).rule = o.rule /\ Ended(rule, o, s).route = o.route
               /\ Ended(rule, o, s).opened = o.opened
    BY <2>2 DEF Ended, Opened
  <2>6. attempts[a].at \in Nat BY <1>2, IncidentsAssumption DEF Sorted, Attempt, Time
  <2> QED BY <2>3, <2>4, <2>5, <2>6
<1> QED BY <1>5, <1>6, <1>7

\* So are those of attempts.
LEMMA AttemptsFinite ==
  ASSUME Sorted
  PROVE  /\ IsFiniteSet(AttemptIncidents)
         /\ \A i \in AttemptIncidents : i.opened \in Nat
         /\ \A i \in AttemptIncidents : \/ i.rule = "health" /\ i.route = Health
                                        \/ i.rule = "5xx" /\ i.route \in Routes
<1>1. "health" \in Rules /\ "5xx" \in Rules BY DEF Rules
<1>2. PICK H : H = WholeIncidents("health", Health) OBVIOUS
<1>3. PICK f : f = [route \in Routes |-> WholeIncidents("5xx", route)] OBVIOUS
<1>4. PICK E : E = {f[route] : route \in Routes} OBVIOUS
<1>5. AttemptIncidents = H \cup UNION E
  <2>1. AttemptIncidents = H \cup UNION {WholeIncidents("5xx", route) : route \in Routes}
    BY <1>2, CarryIsExact DEF CarryExact
  <2>2. {WholeIncidents("5xx", route) : route \in Routes} = E BY <1>3, <1>4
  <2> QED BY <2>1, <2>2
<1>6. /\ IsFiniteSet(H)
      /\ \A i \in H : i.rule = "health" /\ i.route = Health /\ i.opened \in Nat
  BY <1>1, <1>2, PassesFinite
<1>7. ASSUME NEW route \in Routes
      PROVE  /\ IsFiniteSet(f[route])
             /\ \A i \in f[route] : i.rule = "5xx" /\ i.route = route /\ i.opened \in Nat
  <2>1. f[route] = WholeIncidents("5xx", route) BY <1>3
  <2> QED BY <1>1, <2>1, PassesFinite
<1>8. IsFiniteSet(UNION E)
  <2>1. IsFiniteSet(E)
    <3>1. IsFiniteSet(Routes) BY IncidentsAssumption
    <3> QED BY <1>4, <3>1, ImageFinite
  <2>2. \A T \in E : IsFiniteSet(T) BY <1>4, <1>7
  <2> QED BY <2>1, <2>2, FS_UNION
<1>9. \A i \in UNION E : i.rule = "5xx" /\ i.route \in Routes /\ i.opened \in Nat
  BY <1>4, <1>7
<1>10. IsFiniteSet(AttemptIncidents) BY <1>5, <1>6, <1>8, FS_Union
<1> QED BY <1>5, <1>6, <1>9, <1>10

\* An open gap is after the last accepted tick.
LEMMA OpenGap ==
  ASSUME TypeOK, NEW g \in Gaps, g.resolved = None
  PROVE  OpenKey(Key(g))
<1>1. /\ Accepted \in SUBSET Nat /\ now \in Nat /\ GapSeconds \in Nat BY AcceptedIs
<1>2. PICK ts \in Accepted : GapAfter(g, ts) BY GapsAre
<1>3. g.opened = ts + GapSeconds /\ g.rule = "gap" /\ g.route = None BY <1>2, GapOpened
<1>4. \A to \in Accepted : g # Gap(ts, to) BY <1>1, NoneAssumption DEF Gap
<1>5. now > ts + GapSeconds BY <1>2, <1>4 DEF GapAfter
<1>6. PICK k : k = Key(g) OBVIOUS
<1>7. k = [rule |-> "gap", route |-> None, opened |-> ts + GapSeconds]
  BY <1>3, <1>6 DEF Key
<1>8. now > k.opened BY <1>5, <1>7
<1> QED BY <1>6, <1>7, <1>8 DEF OpenKey

\* All incidents are finitely many, and the open ones are as OpenKey says.
LEMMA AllFinite ==
  ASSUME TypeOK
  PROVE  /\ IsFiniteSet(All) /\ \A i \in All : i.opened \in Nat
         /\ \A i \in All : i.resolved = None => OpenKey(Key(i))
<1>1. Sorted
  <2>1. /\ attempts \in Seq(Attempt)
        /\ \A a \in Rows : a > 1 => attempts[a - 1].at <= attempts[a].at
    BY DEF TypeOK
  <2> QED BY <2>1, SortedRows
<1>2. GapIncidents \in SUBSET Gaps BY DEF GapIncidents
<1>3. IsFiniteSet(GapIncidents)
  <2>1. IsFiniteSet(Gaps) BY GapsDistinct DEF Distinct
  <2> QED BY <1>2, <2>1, FS_Subset
<1>4. IsFiniteSet(AttemptIncidents) BY <1>1, AttemptsFinite
<1>5. IsFiniteSet(All) BY <1>3, <1>4, FS_Union DEF All
<1>6. ASSUME NEW i \in All, i.resolved = None PROVE OpenKey(Key(i))
  <2>1. CASE i \in AttemptIncidents
    <3>1. \/ i.rule = "health" /\ i.route = Health
          \/ i.rule = "5xx" /\ i.route \in Routes
      BY <1>1, <2>1, AttemptsFinite
    <3>2. Key(i).rule = i.rule /\ Key(i).route = i.route BY DEF Key
    <3> QED BY <3>1, <3>2 DEF OpenKey
  <2>2. CASE i \in GapIncidents BY <1>2, <1>6, <2>2, OpenGap
  <2> QED BY <2>1, <2>2 DEF All
<1>7. \A i \in All : i.opened \in Nat
  <2>1. \A i \in Gaps : i.opened \in Nat BY GapsDistinct DEF Distinct
  <2>2. \A i \in AttemptIncidents : i.opened \in Nat BY <1>1, AttemptsFinite
  <2> QED BY <1>2, <2>1, <2>2 DEF All
<1> QED BY <1>5, <1>6, <1>7

\* A release lists all incidents, or a full list of the newest.
LEMMA ListedAre ==
  ASSUME TypeOK, NEW listed \in Bounded(All)
  PROVE  /\ listed \in SUBSET All /\ IsFiniteSet(listed)
         /\ \A i \in listed, j \in All \ listed : i.opened >= j.opened
         /\ Cardinality(listed) <= MaxIncidents
         /\ \/ listed = All
            \/ Cardinality(listed) = MaxIncidents
<1>1. IsFiniteSet(All) BY AllFinite
<1>2. PICK m : m = Cardinality(All) OBVIOUS
<1>3. m \in Nat /\ MaxIncidents \in Nat BY <1>1, <1>2, FS_CardinalityType, IncidentsAssumption
<1>4. /\ listed \in SUBSET All /\ Cardinality(listed) = Min({MaxIncidents, m})
      /\ \A i \in listed, j \in All \ listed : i.opened >= j.opened
  BY <1>2 DEF Bounded
<1>5. PICK T : T = {MaxIncidents, m} OBVIOUS
<1>6. Min(T) \in T /\ Min(T) <= MaxIncidents
  <2>1. T \subseteq Int /\ T # {} /\ MaxIncidents \in T BY <1>3, <1>5
  <2>2. IsFiniteSet(T)
    <3>1. IsFiniteSet({} \cup {MaxIncidents}) BY FS_EmptySet, FS_AddElement
    <3>2. IsFiniteSet({} \cup {MaxIncidents} \cup {m}) BY <3>1, FS_AddElement
    <3>3. T = {} \cup {MaxIncidents} \cup {m} BY <1>5
    <3> QED BY <3>2, <3>3
  <2> QED BY <2>1, <2>2, MinIn
<1>7. IsFiniteSet(listed) /\ (Cardinality(listed) = m => listed = All)
  BY <1>1, <1>2, <1>4, FS_Subset
<1> QED BY <1>4, <1>5, <1>6, <1>7

\* What is not in the list was pushed out of it.
LEMMA ListedOrPushedOut ==
  ASSUME TypeOK, NEW listed \in Bounded(All), NEW j \in All
  PROVE  j \in listed \/ PushedOut(j, listed)
<1>1. SUFFICES ASSUME j \notin listed PROVE PushedOut(j, listed) OBVIOUS
<1>2. Cardinality(listed) = MaxIncidents /\ \A k \in listed : k.opened >= j.opened
  BY <1>1, ListedAre
<1> QED BY <1>2 DEF PushedOut

\* As many newer incidents as a release may list push out an older one.
LEMMA NewerPushOut ==
  ASSUME TypeOK, NEW listed \in Bounded(All), NEW i, i.opened \in Nat,
         NEW N, N \in SUBSET All, \A j \in N : j.opened > i.opened,
         Cardinality(N) = MaxIncidents
  PROVE  PushedOut(i, listed)
<1>1. /\ listed \in SUBSET All /\ IsFiniteSet(listed)
      /\ \A k \in listed, j \in All \ listed : k.opened >= j.opened
      /\ Cardinality(listed) <= MaxIncidents
      /\ listed = All \/ Cardinality(listed) = MaxIncidents
  BY ListedAre
<1>2. \A k \in All : k.opened \in Nat BY AllFinite
<1>3. MaxIncidents \in Nat /\ Cardinality(listed) \in Nat
  BY <1>1, FS_CardinalityType, IncidentsAssumption
<1>4. Cardinality(listed) = MaxIncidents
  <2>1. CASE listed = All
    <3>1. Cardinality(N) <= Cardinality(listed) BY <1>1, <2>1, FS_Subset
    <3> QED BY <1>1, <1>3, <3>1
  <2> QED BY <1>1, <2>1
<1>5. ASSUME NEW k \in listed, ~(k.opened >= i.opened) PROVE FALSE
  <2>1. k \in All /\ k.opened \in Nat BY <1>1, <1>2
  <2>2. ASSUME NEW x \in N PROVE x \in listed
    <3>1. x \in All /\ x.opened \in Nat /\ x.opened > i.opened BY <1>2
    <3>2. ~(k.opened >= x.opened) BY <1>5, <2>1, <3>1
    <3> QED BY <1>1, <3>1, <3>2
  <2>3. N \in SUBSET listed BY <2>2
  <2>4. N = listed BY <1>1, <1>4, <2>3, FS_Subset
  <2>5. k.opened > i.opened BY <2>4
  <2> QED BY <1>5, <2>1, <2>5
<1> QED BY <1>4, <1>5 DEF PushedOut

\* What is open is in the next list, or is missing for a reason that is named.
LEMMA OpenContinues ==
  ASSUME OInv, NEW listed \in Bounded(All), NEW i \in open
  PROVE  Continues(i, listed)
<1>1. TypeOK /\ OpenKey(i) BY DEF OInv
<1>2. Sorted
  <2>1. /\ attempts \in Seq(Attempt)
        /\ \A a \in Rows : a > 1 => attempts[a - 1].at <= attempts[a].at
    BY <1>1 DEF TypeOK
  <2> QED BY <2>1, SortedRows
<1>3. ASSUME NEW rule \in Rules, NEW route \in Routes, rule = "health" => route = Health,
             i.rule = rule, i.route = route
      PROVE  Continues(i, listed)
  <2>1. PICK rows : rows = OfRoute(Rows, route) OBVIOUS
  <2>2. i.rule # "gap" BY <1>3 DEF Rules
  <2>3. CASE i.opened \notin Times(Opening(rule, rows))
    BY <1>3, <2>1, <2>2, <2>3 DEF Continues, AttemptContinues
  <2>4. CASE \E s \in Succeeded(rows) \cap Omitted : attempts[s].at >= i.opened
    BY <1>3, <2>1, <2>2, <2>4 DEF Continues, AttemptContinues
  <2>5. CASE /\ i.opened \in Times(Opening(rule, rows))
             /\ ~ \E s \in Succeeded(rows) \cap Omitted : attempts[s].at >= i.opened
    <3>1. PICK j \in AttemptIncidents : TakesUp(j, i)
      BY <1>2, <1>3, <2>1, <2>5, AttemptTaken
    <3>2. j \in listed \/ PushedOut(j, listed) BY <1>1, ListedOrPushedOut DEF All
    <3> QED BY <2>2, <3>1, <3>2 DEF Continues, AttemptContinues
  <2> QED BY <2>3, <2>4, <2>5
<1>4. CASE i.rule = "health" /\ i.route = Health
  <2>1. "health" \in Rules /\ Health \in Routes BY IncidentsAssumption DEF Rules
  <2> QED BY <1>3, <1>4, <2>1
<1>5. CASE i.rule = "5xx" /\ i.route \in Routes
  <2>1. PICK route \in Routes : route = i.route BY <1>5
  <2>2. "5xx" \in Rules /\ "5xx" # "health" BY DEF Rules
  <2> QED BY <1>3, <1>5, <2>1, <2>2
<1>6. CASE \E ts \in Accepted :
             /\ i = [rule |-> "gap", route |-> None, opened |-> ts + GapSeconds]
             /\ now > i.opened
  <2>1. PICK ts \in Accepted :
               /\ i = [rule |-> "gap", route |-> None, opened |-> ts + GapSeconds]
               /\ now > i.opened
    BY <1>6
  <2>2. i.rule = "gap" /\ i.opened = ts + GapSeconds /\ now > ts + GapSeconds BY <2>1
  <2>3. ts \in Nat /\ GapSeconds \in Nat BY <1>1, AcceptedIs
  <2>4. i.opened \in Nat /\ i.opened - GapSeconds = ts BY <2>2, <2>3
  <2>5. \/ \E t \in Accepted : ts < t /\ t <= i.opened
        \/ \E j \in GapIncidents : Key(j) = i
        \/ Cardinality({j \in GapIncidents : j.opened > i.opened}) = MaxIncidents
    BY <1>1, <2>1, <2>2, GapKept
  <2>6. CASE \E t \in Accepted : ts < t /\ t <= i.opened
    BY <2>2, <2>4, <2>6 DEF Continues, GapContinues
  <2>7. CASE \E j \in GapIncidents : Key(j) = i
    <3>1. PICK j \in GapIncidents : Key(j) = i BY <2>7
    <3>2. j \in listed \/ PushedOut(j, listed) BY <1>1, ListedOrPushedOut DEF All
    <3>3. j.opened = i.opened BY <3>1 DEF Key
    <3>4. PushedOut(j, listed) => PushedOut(i, listed) BY <3>3 DEF PushedOut
    <3> QED BY <2>2, <3>1, <3>2, <3>4 DEF Continues, GapContinues
  <2>8. CASE Cardinality({j \in GapIncidents : j.opened > i.opened}) = MaxIncidents
    <3>1. PICK N : N = {j \in GapIncidents : j.opened > i.opened} OBVIOUS
    <3>2. N \in SUBSET All /\ \A j \in N : j.opened > i.opened BY <3>1 DEF All
    <3>3. PushedOut(i, listed) BY <1>1, <2>4, <2>8, <3>1, <3>2, NewerPushOut
    <3> QED BY <2>2, <3>3 DEF Continues, GapContinues
  <2> QED BY <2>5, <2>6, <2>7, <2>8
<1> QED BY <1>1, <1>4, <1>5, <1>6 DEF OpenKey

\* A release lists no more than MaxIncidents.
LEMMA ListedFew ==
  ASSUME TypeOK, NEW listed \in Bounded(All),
         NEW keys, keys = {Key(i) : i \in {j \in listed : j.resolved = None}}
  PROVE  /\ IsFiniteSet(keys) /\ Cardinality(keys) <= MaxIncidents
         /\ \A k \in keys : OpenKey(k)
<1>1. IsFiniteSet(All) /\ \A i \in All : i.resolved = None => OpenKey(Key(i))
  BY AllFinite
<1>7. IsFiniteSet(listed) /\ Cardinality(listed) <= MaxIncidents /\ listed \in SUBSET All
  BY ListedAre
<1>3. MaxIncidents \in Nat BY IncidentsAssumption
<1>8. PICK S : S = {j \in listed : j.resolved = None} OBVIOUS
<1>9. S \in SUBSET listed BY <1>8
<1>10. IsFiniteSet(S) /\ Cardinality(S) <= Cardinality(listed) BY <1>7, <1>9, FS_Subset
<1>11. PICK f : f = [i \in S |-> Key(i)] OBVIOUS
<1>12. IsFiniteSet({f[i] : i \in S}) /\ Cardinality({f[i] : i \in S}) <= Cardinality(S)
  BY <1>10, ImageFinite
<1>13. keys = {f[i] : i \in S} BY <1>8, <1>11
<1>14. IsFiniteSet(keys) /\ Cardinality(keys) <= Cardinality(S) BY <1>12, <1>13
<1>15. /\ Cardinality(keys) \in Nat /\ Cardinality(S) \in Nat /\ Cardinality(listed) \in Nat
  BY <1>7, <1>10, <1>14, FS_CardinalityType
<1>17. Cardinality(keys) <= MaxIncidents BY <1>3, <1>7, <1>10, <1>14, <1>15
<1>18. ASSUME NEW k \in keys PROVE OpenKey(k)
  <2>1. PICK i \in S : k = Key(i) BY <1>8
  <2>2. i \in All /\ i.resolved = None BY <1>7, <1>8
  <2> QED BY <1>1, <2>1, <2>2
<1> QED BY <1>14, <1>17, <1>18

-----------------------------------------------------------------------------
(* The invariant.                                                          *)

\* Ticks later than all before them, and what is open at a time after some
\* accepted ticks.
AcceptedOf(ticks) ==
  {ticks[i] : i \in {k \in DOMAIN ticks : \A j \in 1..(k - 1) : ticks[j] < ticks[k]}}

KeyOf(i, accepted, time) ==
  \/ i.rule = "health" /\ i.route = Health
  \/ i.rule = "5xx" /\ i.route \in Routes
  \/ \E ts \in accepted : /\ i = [rule |-> "gap", route |-> None, opened |-> ts + GapSeconds]
                          /\ time > i.opened

\* The invariant of given values of the variables.
Invariant(rows, ticks, time, keys) ==
  /\ Ordered(rows, time) /\ ticks \in Seq(0..time) /\ time \in Delay..MaxTime
  /\ IsFiniteSet(keys) /\ Cardinality(keys) <= MaxIncidents
  /\ \A i \in keys : KeyOf(i, AcceptedOf(ticks), time)

\* It is the one of the module.
LEMMA InvariantIs == OInv <=> Invariant(attempts, lines, now, open)
<1>1. \A i : OpenKey(i) <=> KeyOf(i, AcceptedOf(lines), now)
  BY DEF OpenKey, KeyOf, Accepted, AcceptedOf
<1> QED BY <1>1 DEF OInv, TypeOK, Invariant, Ordered, Rows

\* A tick that is appended leaves the accepted ones accepted.
LEMMA AcceptedGrows ==
  ASSUME NEW S, NEW s \in Seq(S), NEW e \in S, NEW t, t = Append(s, e)
  PROVE  AcceptedOf(s) \subseteq AcceptedOf(t)
<1>1. PICK n \in Nat : n = Len(s) /\ DOMAIN s = 1..n BY LenProperties
<1>2. t \in Seq(S) /\ Len(t) = n + 1 /\ \A i \in 1..n : t[i] = s[i]
  BY <1>1, AppendProperties
<1>3. DOMAIN t = 1..n + 1 BY <1>2, LenProperties
<1>4. ASSUME NEW i \in 1..n, \A j \in 1..(i - 1) : s[j] < s[i]
      PROVE  s[i] \in AcceptedOf(t)
  <2>1. i \in DOMAIN t /\ t[i] = s[i] BY <1>1, <1>2, <1>3
  <2>2. ASSUME NEW j \in 1..(i - 1) PROVE t[j] < t[i]
    <3>1. j \in 1..n BY <1>1
    <3>2. t[j] = s[j] /\ s[j] < s[i] BY <1>2, <1>4, <3>1
    <3> QED BY <2>1, <3>2
  <2>3. i \in {k \in DOMAIN t : \A j \in 1..(k - 1) : t[j] < t[k]} BY <2>1, <2>2
  <2>4. t[i] \in AcceptedOf(t) BY <2>3 DEF AcceptedOf
  <2> QED BY <2>1, <2>4
<1> QED BY <1>1, <1>4 DEF AcceptedOf

\* The times of accepted ticks are numbers.
LEMMA AcceptedNat ==
  ASSUME NEW time \in Nat, NEW ticks \in Seq(0..time)
  PROVE  AcceptedOf(ticks) \in SUBSET Nat
<1>1. DOMAIN ticks = 1..Len(ticks) BY LenProperties
<1>2. \A k \in 1..Len(ticks) : ticks[k] \in 0..time BY ElementOfSeq
<1> QED BY <1>1, <1>2 DEF AcceptedOf

\* What is open stays so as ticks are accepted and time goes on.
LEMMA KeysKept ==
  ASSUME NEW A \in SUBSET Nat, NEW B, A \subseteq B, NEW m \in Nat, NEW n \in Nat, m <= n,
         NEW i, KeyOf(i, A, m)
  PROVE  KeyOf(i, B, n)
<1>1. CASE \E ts \in A : /\ i = [rule |-> "gap", route |-> None, opened |-> ts + GapSeconds]
                         /\ m > i.opened
  <2>1. PICK ts \in A : /\ i = [rule |-> "gap", route |-> None, opened |-> ts + GapSeconds]
                        /\ m > i.opened
    BY <1>1
  <2>2. GapSeconds \in Nat BY IncidentsAssumption
  <2>3. i.opened = ts + GapSeconds /\ i.opened \in Nat BY <2>1, <2>2
  <2>4. n > i.opened BY <2>1, <2>3
  <2> QED BY <2>1, <2>4 DEF KeyOf
<1> QED BY <1>1 DEF KeyOf

\* At first nothing is stored and nothing open.
LEMMA InitKeeps ==
  ASSUME Init
  PROVE  OInv
<1>1. Delay \in Nat /\ MaxTime \in Nat /\ Delay <= MaxTime /\ MaxIncidents \in Nat
  BY IncidentsAssumption
<1>2. attempts = <<>> /\ lines = <<>> /\ now = Delay /\ open = {} BY DEF Init
<1>3. <<>> \in Seq(Attempt) /\ <<>> \in Seq(0..now) /\ DOMAIN <<>> = {}
  <2>1. \A S : <<>> \in Seq(S) /\ Len(<<>>) = 0 BY EmptySeq
  <2>2. DOMAIN <<>> = 1..0 BY <2>1, LenProperties
  <2> QED BY <2>1, <2>2
<1>4. Ordered(attempts, now) BY <1>2, <1>3 DEF Ordered
<1>5. IsFiniteSet(open) /\ Cardinality(open) <= MaxIncidents
  <2>1. IsFiniteSet(open) /\ Cardinality(open) = 0 BY <1>2, FS_EmptySet
  <2> QED BY <1>1, <2>1
<1>6. now \in Delay..MaxTime BY <1>1, <1>2
<1>7. lines \in Seq(0..now) /\ \A i \in open : KeyOf(i, AcceptedOf(lines), now)
  BY <1>2, <1>3
<1>8. Invariant(attempts, lines, now, open) BY <1>4, <1>5, <1>6, <1>7 DEF Invariant
<1> QED BY <1>8, InvariantIs

\* A release replaces what is open.
LEMMA PublishKeeps ==
  ASSUME OInv, Publish
  PROVE  Invariant(attempts', lines', now', open')
<1>1. Invariant(attempts, lines, now, open) /\ TypeOK BY InvariantIs DEF OInv
<1>2. PICK listed \in Bounded(All) :
             open' = {Key(i) : i \in {j \in listed : j.resolved = None}}
  BY DEF Publish, Release
<1>3. attempts' = attempts /\ lines' = lines /\ now' = now BY DEF Publish, Release
<1>4. PICK keys : keys = open' OBVIOUS
<1>5. keys = {Key(i) : i \in {j \in listed : j.resolved = None}} BY <1>2, <1>4
<1>6. /\ IsFiniteSet(keys) /\ Cardinality(keys) <= MaxIncidents
      /\ \A k \in keys : OpenKey(k)
  BY <1>1, <1>5, ListedFew
<1>7. \A k \in keys : KeyOf(k, AcceptedOf(lines), now)
  BY <1>6 DEF OpenKey, KeyOf, Accepted, AcceptedOf
<1>8. Invariant(attempts, lines, now, keys) BY <1>1, <1>6, <1>7 DEF Invariant
<1> QED BY <1>3, <1>4, <1>8

\* An attempt gets its place in the order of times.
LEMMA RecordKeeps ==
  ASSUME OInv, NEW x \in Answers, Record(x[1], x[2])
  PROVE  Invariant(attempts', lines', now', open')
<1>1. Invariant(attempts, lines, now, open) BY InvariantIs
<1>2. /\ Delay \in Nat /\ MaxTime \in Nat /\ now \in Nat /\ now <= MaxTime /\ now >= Delay
  <2>1. Delay \in Nat /\ MaxTime \in Nat BY IncidentsAssumption
  <2> QED BY <1>1, <2>1 DEF Invariant
<1>3. x[1] \in Routes /\ x[2] \in {"success", "5xx", "failure"} BY IncidentsAssumption
<1>4. lines' = lines /\ now' = now /\ open' = open BY DEF Record
<1>5. PICK at \in (now - Delay)..now :
        LET place == Cardinality({a \in Rows : attempts[a].at <= at}) + 1
        IN  attempts' = InsertAt(attempts, place, [route |-> x[1], at |-> at, result |-> x[2]])
  BY DEF Record
<1>6. at \in Nat /\ at <= now /\ at \in 0..MaxTime BY <1>2
<1>7. PICK e : e = [route |-> x[1], at |-> at, result |-> x[2]] OBVIOUS
<1>8. e \in Attempt /\ e.at = at BY <1>3, <1>6, <1>7 DEF Attempt, Time
<1>9. PICK k : k = Cardinality({a \in DOMAIN attempts : attempts[a].at <= e.at}) OBVIOUS
<1>10. PICK t : t = InsertAt(attempts, k + 1, e) OBVIOUS
<1>11. t = attempts' BY <1>5, <1>7, <1>8, <1>9, <1>10 DEF Rows
<1>12. Ordered(attempts, now) BY <1>1 DEF Invariant
<1>13. Ordered(t, now) BY <1>2, <1>6, <1>8, <1>9, <1>10, <1>12, InsertedOrdered
<1>14. Invariant(t, lines, now, open) BY <1>1, <1>13 DEF Invariant
<1> QED BY <1>4, <1>11, <1>14

\* A row that is rejected or pruned leaves the order.
LEMMA RowsKeep ==
  ASSUME OInv, MarkInvalid \/ Prune
  PROVE  Invariant(attempts', lines', now', open')
<1>1. Invariant(attempts, lines, now, open) BY InvariantIs
<1>2. now \in Nat
  <2>1. Delay \in Nat /\ MaxTime \in Nat BY IncidentsAssumption
  <2> QED BY <1>1, <2>1 DEF Invariant
<1>3. lines' = lines /\ now' = now /\ open' = open BY DEF MarkInvalid, Prune
<1>4. Ordered(attempts, now) BY <1>1 DEF Invariant
<1>5. PICK t : t = attempts' OBVIOUS
<1>6. CASE MarkInvalid
  <2>1. PICK a \in DOMAIN attempts : attempts' = [attempts EXCEPT ![a].result = "failure"]
    BY <1>6 DEF MarkInvalid, Succeeded, Rows
  <2>2. Ordered(t, now) BY <1>2, <1>4, <1>5, <2>1, ChangedOrdered
  <2>3. Invariant(t, lines, now, open) BY <1>1, <2>2 DEF Invariant
  <2> QED BY <1>3, <1>5, <2>3
<1>7. CASE Prune
  <2>1. PICK a \in DOMAIN attempts : attempts' = RemoveAt(attempts, a)
    BY <1>7 DEF Prune, Rows
  <2>2. Ordered(t, now) BY <1>2, <1>4, <1>5, <2>1, RemovedOrdered
  <2>3. Invariant(t, lines, now, open) BY <1>1, <2>2 DEF Invariant
  <2> QED BY <1>3, <1>5, <2>3
<1> QED BY <1>6, <1>7

\* A tick is appended.
LEMMA AppendTickKeeps ==
  ASSUME OInv, AppendTick
  PROVE  Invariant(attempts', lines', now', open')
<1>1. Invariant(attempts, lines, now, open) BY InvariantIs
<1>2. Delay \in Nat /\ now \in Nat /\ now >= Delay
  <2>1. Delay \in Nat /\ MaxTime \in Nat BY IncidentsAssumption
  <2> QED BY <1>1, <2>1 DEF Invariant
<1>3. attempts' = attempts /\ now' = now /\ open' = open BY DEF AppendTick
<1>4. PICK ts \in (now - Delay)..now : lines' = Append(lines, ts) BY DEF AppendTick
<1>5. ts \in 0..now /\ lines \in Seq(0..now) BY <1>1, <1>2 DEF Invariant
<1>6. PICK t : t = Append(lines, ts) OBVIOUS
<1>7. t \in Seq(0..now) BY <1>5, <1>6, AppendProperties
<1>8. AcceptedOf(lines) \subseteq AcceptedOf(t) BY <1>5, <1>6, AcceptedGrows
<1>9. AcceptedOf(lines) \in SUBSET Nat BY <1>2, <1>5, AcceptedNat
<1>10. ASSUME NEW i \in open PROVE KeyOf(i, AcceptedOf(t), now)
  <2>1. KeyOf(i, AcceptedOf(lines), now) /\ now <= now BY <1>1, <1>2 DEF Invariant
  <2> QED BY <1>2, <1>8, <1>9, <2>1, KeysKept
<1>11. Invariant(attempts, t, now, open) BY <1>1, <1>7, <1>10 DEF Invariant
<1> QED BY <1>3, <1>4, <1>6, <1>11

\* Time goes on.
LEMMA AdvanceKeeps ==
  ASSUME OInv, Advance
  PROVE  Invariant(attempts', lines', now', open')
<1>1. Invariant(attempts, lines, now, open) BY InvariantIs
<1>2. Delay \in Nat /\ MaxTime \in Nat /\ now \in Nat /\ now >= Delay /\ now < MaxTime
  <2>1. Delay \in Nat /\ MaxTime \in Nat BY IncidentsAssumption
  <2> QED BY <1>1, <2>1 DEF Invariant, Advance
<1>3. attempts' = attempts /\ lines' = lines /\ open' = open /\ now' = now + 1
  BY DEF Advance
<1>4. PICK n : n = now + 1 OBVIOUS
<1>5. n \in Nat /\ now <= n /\ n \in Delay..MaxTime BY <1>2, <1>4
<1>6. Ordered(attempts, n)
  <2>1. Ordered(attempts, now) BY <1>1 DEF Invariant
  <2>2. /\ attempts \in Seq(Attempt) /\ DOMAIN attempts = 1..Len(attempts)
        /\ \A a \in 1..Len(attempts) : attempts[a].at \in Nat /\ attempts[a].at <= now
        /\ \A a \in 1..Len(attempts) : a > 1 => attempts[a - 1].at <= attempts[a].at
    BY <2>1, OrderedRows
  <2>3. \A a \in 1..Len(attempts) : attempts[a].at <= n BY <1>2, <1>5, <2>2
  <2> QED BY <2>2, <2>3 DEF Ordered
<1>7. lines \in Seq(0..now) /\ lines \in Seq(0..n)
  <2>1. lines \in Seq(0..now) BY <1>1 DEF Invariant
  <2>2. \A k \in 0..now : k \in 0..n BY <1>2, <1>5
  <2>3. \A k \in 1..Len(lines) : lines[k] \in 0..n
    <3>1. \A k \in 1..Len(lines) : lines[k] \in 0..now BY <2>1, ElementOfSeq
    <3> QED BY <2>2, <3>1
  <2>4. 1 \in Int /\ Len(lines) \in Int
    <3>1. Len(lines) \in Nat BY <2>1, LenProperties
    <3> QED BY <3>1
  <2>5. SubSeq(lines, 1, Len(lines)) \in Seq(0..n) BY <2>3, <2>4, SubSeqProperties
  <2>6. SubSeq(lines, 1, Len(lines)) = lines BY <2>1, SubSeqFull
  <2> QED BY <2>1, <2>5, <2>6
<1>8. AcceptedOf(lines) \in SUBSET Nat BY <1>2, <1>7, AcceptedNat
<1>9. ASSUME NEW i \in open PROVE KeyOf(i, AcceptedOf(lines), n)
  <2>1. KeyOf(i, AcceptedOf(lines), now) BY <1>1 DEF Invariant
  <2>2. AcceptedOf(lines) \subseteq AcceptedOf(lines) OBVIOUS
  <2> QED BY <1>2, <1>5, <1>8, <2>1, <2>2, KeysKept
<1>10. Invariant(attempts, lines, n, open) BY <1>1, <1>5, <1>6, <1>7, <1>9 DEF Invariant
<1> QED BY <1>3, <1>4, <1>10

\* Every step keeps the invariant.
LEMMA StepKeeps ==
  ASSUME OInv, [Next]_vars
  PROVE  OInv'
<1>1. Invariant(attempts', lines', now', open')
  <2>1. CASE Publish BY <2>1, PublishKeeps
  <2>2. CASE \E x \in Answers : Record(x[1], x[2]) BY <2>2, RecordKeeps
  <2>3. CASE MarkInvalid BY <2>3, RowsKeep
  <2>4. CASE Prune BY <2>4, RowsKeep
  <2>5. CASE AppendTick BY <2>5, AppendTickKeeps
  <2>6. CASE Advance BY <2>6, AdvanceKeeps
  <2>7. CASE UNCHANGED vars
    <3>1. attempts' = attempts /\ lines' = lines /\ now' = now /\ open' = open
      BY <2>7 DEF vars
    <3> QED BY <3>1, InvariantIs
  <2> QED BY <2>1, <2>2, <2>3, <2>4, <2>5, <2>6, <2>7 DEF Next
<1>2. \A i : OpenKey(i)' <=> KeyOf(i, AcceptedOf(lines'), now')
  BY DEF OpenKey, KeyOf, Accepted, AcceptedOf
<1> QED BY <1>1, <1>2 DEF OInv, TypeOK, Invariant, Ordered, Rows

-----------------------------------------------------------------------------
(* The theorems.                                                           *)

\* Rows stay in order, and of what is open the cause is still known.
THEOREM OInvHolds == Spec => []OInv
<1>1. Init => OInv BY InitKeeps
<1>2. OInv /\ [Next]_vars => OInv' BY StepKeeps
<1> QED BY <1>1, <1>2, PTL DEF Spec

\* Rows and lines are never of the future, rows are in the order of their times
\* and a release keeps no more open incidents than the limit.
THEOREM IncidentsTypeOK == Spec => []TypeOK
<1>1. OInv => TypeOK BY DEF OInv
<1> QED BY <1>1, OInvHolds, PTL

\* Whatever limit cuts the table, the incidents of attempts that reading the
\* newest rows with a carry gives are those that all rows give.
THEOREM CarryIsExactAlways == Spec => []CarryExact
<1>1. OInv => CarryExact
  <2>1. SUFFICES ASSUME OInv PROVE CarryExact OBVIOUS
  <2>2. /\ attempts \in Seq(Attempt)
        /\ \A a \in Rows : a > 1 => attempts[a - 1].at <= attempts[a].at
    BY <2>1 DEF OInv, TypeOK
  <2>3. Sorted BY <2>2, SortedRows
  <2> QED BY <2>3, CarryIsExact
<1> QED BY <1>1, OInvHolds, PTL

\* Whatever is stored between two releases, what the first calls open is in the
\* list of the second, with the exceptions that Continues names and no other.
THEOREM OpenIncidentsContinue == Spec => OpenContinue
<1>1. OInv => \A listed \in Bounded(All) : \A i \in open : Continues(i, listed)
  BY OpenContinues
<1>2. OInv => [\A listed \in Bounded(All) :
                 Release(listed) => \A i \in open : Continues(i, listed)]_vars
  BY <1>1
<1> QED BY <1>2, OInvHolds, PTL DEF OpenContinue
=============================================================================
