------------------------------ MODULE Incidents ------------------------------
(***************************************************************************)
(* The incident history that every release publishes: snapshots.py reads   *)
(* the newest attempts of the telemetry database with a carry of what the  *)
(* older ones left open, and the gaps of the accepted ticks (derive.py).   *)
(*                                                                         *)
(* An attempt is timed when its request starts and stored when it ends,    *)
(* and a tick is timed before its rooms are read and appended after its    *)
(* commit: rows and lines come later than the time they carry, and their   *)
(* times need not be in order.  Of a release only the incidents that it    *)
(* calls open are kept.                                                    *)
(***************************************************************************)
EXTENDS Naturals, Sequences, FiniteSets, FiniteSetsExt, SequencesExt

CONSTANTS
  Routes, Health,  \* routes of attempts, and /healthz
  Answers,         \* results that routes have
  MaxAttempts,     \* MAX_ATTEMPTS
  MaxIncidents,    \* MAX_INCIDENTS
  GapSeconds,      \* cadence beyond which ticks have a gap
  None,
  Delay,           \* by how much a time may be older than what is stored
  MaxTime, MaxRows, MaxLines, MaxSize   \* bounds

ASSUME IncidentsAssumption ==
  /\ Health \in Routes /\ Answers \subseteq Routes \X {"success", "5xx", "failure"}
  /\ {MaxAttempts, MaxIncidents} \subseteq Nat \ {0}
  /\ {GapSeconds, Delay, MaxTime, MaxRows, MaxLines, MaxSize} \subseteq Nat
  /\ IsFiniteSet(Routes) /\ Delay <= MaxTime

VARIABLES
  attempts,  \* request_attempts, in the order of (observed_at, id)
  lines,     \* times of the ticks in the ledger
  now,
  open       \* incidents that the last release calls open

vars == <<attempts, lines, now, open>>

Time == 0..MaxTime

Attempt == [route : Routes, at : Time, result : {"success", "5xx", "failure"}]

Init == attempts = <<>> /\ lines = <<>> /\ now = Delay /\ open = {}

-----------------------------------------------------------------------------
(* load_telemetry: rows go by their place in the order.                    *)

\* How many of the oldest rows the cutoff leaves out.
Cutoff == IF Len(attempts) > MaxAttempts THEN Len(attempts) - MaxAttempts ELSE 0

\* Places of all rows, and of those left out.
Rows == DOMAIN attempts
Omitted == 1..Cutoff

OfRoute(rows, route) == {a \in rows : attempts[a].route = route}
Succeeded(rows) == {a \in rows : attempts[a].result = "success"}
Failed(rows) == rows \ Succeeded(rows)
Errors(rows) == {a \in rows : attempts[a].result = "5xx"}
Times(rows) == {attempts[a].at : a \in rows}

\* Variant: a success before the cutoff is forgotten.
SinceEver(route) == OfRoute(Omitted, route)

\* The rows of a route that the cutoff leaves out, after its last success.
SinceSuccess(route) ==
  LET rows == OfRoute(Omitted, route)
  IN  {a \in rows : \A s \in Succeeded(rows) : s < a}

\* Records of attempts; they differ from Python's None.
Incident ==
  [rule : {"health", "5xx"}, route : Routes, opened : Nat, last : Nat,
   resolved : Nat \cup {None}, attempts : Nat, failures : Nat]

ASSUME NoneAssumption == None \notin Nat \cup Incident

\* An open incident of a rule and a route.
Opened(rule, route, rows, at) ==
  [rule |-> rule, route |-> route, opened |-> at, last |-> Max(Times(rows)),
   resolved |-> None, attempts |-> Cardinality(rows), failures |-> Cardinality(Failed(rows))]

HealthCarry ==
  LET rows == Failed(SinceSuccess(Health))
  IN  IF rows = {} THEN None ELSE Opened("health", Health, rows, Min(Times(rows)))

\* Variant: the carry begins with the last error.
EndpointCarryLast(route) ==
  LET errors == Errors(SinceSuccess(route))
  IN  IF errors = {} THEN None
      ELSE Opened("5xx", route, {Max(errors)}, attempts[Max(errors)].at)

\* The first 5xx since the last success, and every row from it on.
EndpointCarry(route) ==
  LET errors == Errors(SinceSuccess(route))
      rows == {a \in OfRoute(Omitted, route) : a >= Min(errors)}
  IN  IF errors = {} THEN None ELSE Opened("5xx", route, rows, attempts[Min(errors)].at)

-----------------------------------------------------------------------------
(* health_incidents and endpoint_5xx_incidents: one pass over the rows.    *)

Opening(rule, rows) == IF rule = "health" THEN Failed(rows) ELSE Errors(rows)

\* A resolving success counts as an attempt of a 5xx incident only.
Counted(rule) == IF rule = "health" THEN 0 ELSE 1

\* What a failure leaves active, and the incident that a success ends.
Extended(rule, active, a) ==
  IF active # None THEN [active EXCEPT !.attempts = @ + 1, !.failures = @ + 1,
                                       !.last = attempts[a].at]
  ELSE IF Opening(rule, {a}) = {} THEN None
  ELSE Opened(rule, attempts[a].route, {a}, attempts[a].at)

Ended(rule, active, a) ==
  [active EXCEPT !.resolved = attempts[a].at, !.attempts = @ + Counted(rule)]

\* `pass` holds what is active and what was resolved.
Failure(rule, pass, a) == [pass EXCEPT !.active = Extended(rule, @, a)]

Success(rule, pass, a) ==
  IF pass.active = None THEN pass
  ELSE [active |-> None, done |-> pass.done \cup {Ended(rule, pass.active, a)}]

Step(rule, route, pass, a) ==
  IF attempts[a].route # route THEN pass
  ELSE IF attempts[a].result = "success" THEN Success(rule, pass, a)
  ELSE Failure(rule, pass, a)

Pass(rule, route, carry) ==
  LET run[a \in Cutoff..Len(attempts)] ==
        IF a = Cutoff THEN [active |-> carry, done |-> {}]
        ELSE Step(rule, route, run[a - 1], a)
      end == run[Len(attempts)]
  IN  end.done \cup ({end.active} \ {None})

AttemptIncidents ==
  Pass("health", Health, HealthCarry)
    \cup UNION {Pass("5xx", route, EndpointCarry(route)) : route \in Routes}

-----------------------------------------------------------------------------
(* Collector gaps: derive.py accepts ticks whose times increase.           *)

\* That is, ticks later than all lines before them.
Accepted ==
  {lines[i] : i \in {k \in DOMAIN lines : \A j \in 1..(k - 1) : lines[j] < lines[k]}}

Gap(from, to) ==
  [rule |-> "gap", route |-> None, opened |-> from + GapSeconds, last |-> to,
   resolved |-> to, attempts |-> 0, failures |-> 0]

\* Gaps between ticks, and one that is still open.
Gaps ==
  LET long == {p \in Accepted \X Accepted :
                 p[2] > p[1] + GapSeconds /\ \A ts \in Accepted : ts <= p[1] \/ p[2] <= ts}
  IN  {Gap(p[1], p[2]) : p \in long}
        \cup {[Gap(ts, now) EXCEPT !.resolved = None] :
                ts \in {l \in Accepted : now > l + GapSeconds /\ \A m \in Accepted : m <= l}}

\* A queue keeps the newest ones.
GapIncidents ==
  {g \in Gaps : Cardinality({h \in Gaps : h.opened > g.opened}) < MaxIncidents}

-----------------------------------------------------------------------------
(* incident_resource: the newest incidents by opening.                     *)

All == AttemptIncidents \cup GapIncidents

\* Variant: the bound is for the incidents of attempts.
BoundedAttempts(all) ==
  {listed \in SUBSET all :
     LET own == {i \in all : i.rule # "gap"} IN
       /\ all \ listed \subseteq own
       /\ Cardinality(listed \cap own) = Min({MaxIncidents, Cardinality(own)})}

Bounded(all) ==
  {listed \in SUBSET all :
     /\ Cardinality(listed) = Min({MaxIncidents, Cardinality(all)})
     /\ \A i \in listed, j \in all \ listed : i.opened >= j.opened}

Key(i) == [rule |-> i.rule, route |-> i.route, opened |-> i.opened]

Release(listed) ==
  /\ open' = {Key(i) : i \in {j \in listed : j.resolved = None}}
  /\ UNCHANGED <<attempts, lines, now>>

Publish == \E listed \in Bounded(All) : Release(listed)

-----------------------------------------------------------------------------
(* What collector and pulse probe store meanwhile.                         *)

InBounds(rows, ticks) == Len(rows) + Len(ticks) <= MaxSize

\* A new row has the largest id.
Record(route, result) ==
  /\ Len(attempts) < MaxRows
  /\ \E at \in (now - Delay)..now :
       LET place == Cardinality({a \in Rows : attempts[a].at <= at}) + 1
       IN  attempts' = InsertAt(attempts, place, [route |-> route, at |-> at, result |-> result])
  /\ InBounds(attempts', lines)
  /\ UNCHANGED <<lines, now, open>>

\* The parser of the caller rejects a response that was just received.
MarkInvalid ==
  \E a \in Succeeded(Rows) :
    /\ attempts[a].at >= now - Delay
    /\ attempts' = [attempts EXCEPT ![a].result = "failure"]
    /\ UNCHANGED <<lines, now, open>>

\* Pruning takes the oldest rows and spares those of discovery snapshots.
Prune ==
  \E a \in Rows :
    /\ 1..(a - 1) \subseteq Succeeded(Rows)
    /\ attempts' = RemoveAt(attempts, a)
    /\ UNCHANGED <<lines, now, open>>

AppendTick ==
  /\ Len(lines) < MaxLines
  /\ \E ts \in (now - Delay)..now : lines' = Append(lines, ts)
  /\ InBounds(attempts, lines')
  /\ UNCHANGED <<attempts, now, open>>

Advance ==
  /\ now < MaxTime
  /\ now' = now + 1
  /\ UNCHANGED <<attempts, lines, open>>

Next ==
  \/ Publish
  \/ \E x \in Answers : Record(x[1], x[2])
  \/ MarkInvalid \/ Prune \/ AppendTick \/ Advance

Spec == Init /\ [][Next]_vars

-----------------------------------------------------------------------------
(* Type correctness: rows are in the order of their times, no row and no    *)
(* line is of the future, and a release calls no more incidents open than  *)
(* it may list.                                                            *)
TypeOK ==
  /\ attempts \in Seq(Attempt) /\ lines \in Seq(0..now) /\ now \in Delay..MaxTime
  /\ \A a \in Rows : attempts[a].at <= now /\ (a > 1 => attempts[a - 1].at <= attempts[a].at)
  /\ Cardinality(open) <= MaxIncidents

\* The incidents of a rule and route over the whole table: from an opening
\* row that no open incident precedes to the next success.
WholeIncidents(rule, route) ==
  LET rows == OfRoute(Rows, route)
      Ends(a) == {s \in Succeeded(rows) : s > a}
      Before(a) == {b \in rows : Ends(b) = Ends(a) /\ b < a}
      First(a) == Opening(rule, Before(a)) = {}
      Of(a) == LET i == Opened(rule, route, {b \in Failed(rows) : Ends(b) = Ends(a) /\ b >= a},
                               attempts[a].at)
               IN  IF Ends(a) = {} THEN i
                   ELSE [i EXCEPT !.resolved = attempts[Min(Ends(a))].at,
                                  !.attempts = @ + Counted(rule)]
  IN  {Of(a) : a \in {b \in Opening(rule, rows) :
                        First(b) /\ (Ends(b) = {} \/ Min(Ends(b)) \notin Omitted)}}

\* Reading only the newest rows loses nothing of an incident that was not
\* resolved before them: its opening and its counts are those that all rows
\* give (attempt_input: "active_incident_state_carried").
CarryExact ==
  AttemptIncidents =
    WholeIncidents("health", Health)
      \cup UNION {WholeIncidents("5xx", route) : route \in Routes}

\* A full list of incidents that were opened no earlier.
PushedOut(i, listed) ==
  Cardinality(listed) = MaxIncidents /\ \A k \in listed : k.opened >= i.opened

\* j is i, still open or resolved no earlier than i was opened.  It has another
\* opening, and so another id, only when an earlier row also opens an incident
\* and no success is stored between the two: rows that came late or were
\* reclassified joined it to one that began before.
TakesUp(j, i) ==
  LET rows == OfRoute(Rows, i.route)
  IN  /\ j.rule = i.rule /\ j.route = i.route
      /\ j.resolved = None \/ j.resolved >= i.opened
      /\ \E b, a \in Opening(i.rule, rows) :
           /\ b <= a /\ attempts[b].at = j.opened /\ attempts[a].at = i.opened
           /\ \A s \in Succeeded(rows) : s < b \/ a < s

\* A release lists what takes up an incident of attempts, unless the row that
\* opened it was pruned, the success that ended it is left out, or the list is
\* full of incidents that are no older.
AttemptContinues(i, listed) ==
  LET rows == OfRoute(Rows, i.route)
  IN  \/ i.opened \notin Times(Opening(i.rule, rows))
      \/ \E s \in Succeeded(rows) \cap Omitted : attempts[s].at >= i.opened
      \/ \E j \in AttemptIncidents : TakesUp(j, i) /\ (j \in listed \/ PushedOut(j, listed))

\* It lists a gap, resolved by the tick that follows it, unless that tick carries
\* a time before the gap opened or the list is full of what is no older.
GapContinues(i, listed) ==
  \/ \E j \in listed : Key(j) = i
  \/ \E ts \in Accepted : i.opened - GapSeconds < ts /\ ts <= i.opened
  \/ PushedOut(i, listed)

Continues(i, listed) ==
  IF i.rule = "gap" THEN GapContinues(i, listed) ELSE AttemptContinues(i, listed)

\* What a release called open is in the list of the next one, under the same id
\* ("the next tick resolves this observation record"): rows and ticks that come
\* late, a pruned or reclassified attempt and the limits on rows, gaps and
\* incidents lose or rename it in no other case than the five named above.
OpenContinue ==
  [][\A listed \in Bounded(All) :
       Release(listed) => \A i \in open : Continues(i, listed)]_vars

-----------------------------------------------------------------------------
(* What the proofs use beyond the types.  Of an open gap the tick before   *)
(* it is still accepted and the cadence has passed.                        *)
OpenKey(i) ==
  \/ i.rule = "health" /\ i.route = Health
  \/ i.rule = "5xx" /\ i.route \in Routes
  \/ \E ts \in Accepted : /\ i = [rule |-> "gap", route |-> None, opened |-> ts + GapSeconds]
                          /\ now > i.opened

OInv == TypeOK /\ IsFiniteSet(open) /\ \A i \in open : OpenKey(i)
=============================================================================
