----------------------------- MODULE Telemetry -----------------------------
(***************************************************************************)
(* The telemetry store (telemetry.py): cycles, request attempts and        *)
(* discovery snapshots in one SQLite database, written by the collector    *)
(* and the pulse probe.  This module has the tables and what each method   *)
(* of TelemetryStore does to them; TelemetryWriters has the processes.     *)
(*                                                                         *)
(* A table maps row ids to rows.  Ids are SQLite rowids without            *)
(* AUTOINCREMENT: a row gets the id after the largest one present, so that *)
(* the id of a removed last row is given out again.                        *)
(***************************************************************************)
EXTENDS Naturals, Sequences, FiniteSets, Functions, FiniteSetsExt

CONSTANTS
  Metered,       \* routes of the collector
  Health,        \* the route /healthz
  Discovery,     \* /config and /.well-known/agent.json
  Digests,       \* digests of the canonical discovery fields
  None,          \* SQL NULL
  Retention,     \* RAW_RETENTION_SECONDS, in steps of the clock
  Cadence,       \* DISCOVERY_CADENCE_SECONDS, in steps of the clock
  BatchSize,     \* PRUNE_BATCH_SIZE
  SnapshotPages, \* pages of a snapshot, where an attempt takes one
  PressurePages, \* nine tenths of max_page_count
  MaxPages       \* max_page_count

ASSUME TelemetryAssumption ==
  /\ BatchSize \in Nat \ {0} /\ Retention \in Nat \ {0} /\ Cadence \in Nat
  /\ SnapshotPages \in Nat /\ PressurePages \in Nat /\ MaxPages \in Nat
  /\ None \notin Digests /\ Health \notin Discovery \cup Metered

VARIABLES
  now,        \* utc_now()
  cycles,     \* rows of cycles
  attempts,   \* rows of request_attempts
  snapshots   \* rows of discovery_snapshots

tables == <<cycles, attempts, snapshots>>

Routes == Metered \cup {Health} \cup Discovery

\* What get records of a try (ATTEMPT_OUTCOMES; "failed" stands for
\* http_error, timeout, transport_error, decode_error and empty_response).
Outcomes == {"success", "failed", "invalid_response"}

\* The CHECK constraints of the tables.
Cycle == [source : {"collector", "pulse_probe"}, started : Nat,
          finished : Nat \cup {None}, outcome : {"running", "success", "failure"}]
Attempt == [cycle : Nat, route : Routes, at : Nat, outcome : Outcomes]
Snapshot == [attempt : Nat, route : Discovery, digest : Digests]

Empty == [i \in {} |-> None]

NextId(table) == Max(DOMAIN table \cup {0}) + 1
Insert(table, row) == [i \in DOMAIN table \cup {NextId(table)} |->
                         IF i \in DOMAIN table THEN table[i] ELSE row]
Delete(table, ids) == Restrict(table, DOMAIN table \ ids)

\* What a table of the database is; a time that a cycle may have.
Ids(table) == DOMAIN table \subseteq Nat /\ IsFiniteSet(DOMAIN table)
Dated(cycs, t) ==
  \A i \in DOMAIN cycs : /\ cycs[i].started <= t
                         /\ cycs[i].finished # None => cycs[i].started <= cycs[i].finished

\* The newest cycle is within the retention.
NewestFresh(cycs, t) ==
  DOMAIN cycs # {} =>
    \E i \in DOMAIN cycs : /\ \A j \in DOMAIN cycs : j <= i
                           /\ t <= cycs[i].started + Retention

\* The snapshots of a route, and the id that has k - 1 smaller ones.
OfRoute(snaps, route) == {i \in DOMAIN snaps : snaps[i].route = route}
Rank(ids, i) == Cardinality({j \in ids : j <= i})
Nth(ids, k) == CHOOSE i \in {j \in ids : Rank(ids, j) = k} : TRUE

-----------------------------------------------------------------------------
(* prune.                                                                  *)

AnyEarlier(snaps, i) ==  \* Variant: any earlier snapshot with the same digest.
  IF \E j \in DOMAIN snaps : j < i /\ snaps[j].route = snaps[i].route
                                   /\ snaps[j].digest = snaps[i].digest
  THEN snaps[i].digest ELSE None

\* The snapshot before snapshot i on its route (LAG ... ORDER BY id).
Previous(snaps, i) ==
  LET before == {j \in DOMAIN snaps : j < i /\ snaps[j].route = snaps[i].route}
  IN  IF before = {} THEN None ELSE snaps[Max(before)].digest

Duplicates(snaps) == {i \in DOMAIN snaps : Previous(snaps, i) = snaps[i].digest}

Used(atts, snaps) ==
  Cardinality(DOMAIN atts) + SnapshotPages * Cardinality(DOMAIN snaps)

UnderPressure(atts, snaps) == Used(atts, snaps) >= PressurePages

SampledLast(snaps) ==  \* Variant: the query joins the last snapshot only.
  {snaps[j].attempt : j \in {Max(DOMAIN snaps \cup {0})} \cap DOMAIN snaps}

\* The attempts for which the LEFT JOIN finds a snapshot.
Sampled(snaps) == {snaps[j].attempt : j \in DOMAIN snaps}

ExpiredAtAnyAge(atts, snaps, pressed, t) ==  \* Variant: the time is not compared.
  DOMAIN atts \ Sampled(snaps)

\* Attempts past the retention, or any of them when the file is nearly full.
Expired(atts, snaps, pressed, t) ==
  {i \in DOMAIN atts \ Sampled(snaps) : atts[i].at + Retention < t \/ pressed}

\* Cycles past the retention that have no attempt (any more).
Childless(cycs, atts, t) ==
  {i \in DOMAIN cycs :
     /\ \A a \in DOMAIN atts : atts[a].cycle # i
     /\ (IF cycs[i].finished = None THEN cycs[i].started ELSE cycs[i].finished)
          + Retention < t}

\* ORDER BY a time, then the id, LIMIT BatchSize.
Batch(ids, Time(_)) ==
  {i \in ids : Cardinality({j \in ids : \/ Time(j) < Time(i)
                                        \/ Time(j) = Time(i) /\ j < i}) < BatchSize}

DuplicateBatch(snaps) == Batch(Duplicates(snaps), LAMBDA i : 0)
AttemptBatch(atts, snaps, pressed, t) ==
  Batch(Expired(atts, snaps, pressed, t), LAMBDA i : atts[i].at)
CycleBatch(cycs, atts, t) ==
  Batch(Childless(cycs, atts, t), LAMBDA i : cycs[i].started)

\* REFERENCES: a row that another row refers to cannot be deleted.
Restricted(sel) ==
  \/ sel.of = "attempts" /\ \E j \in DOMAIN snapshots : snapshots[j].attempt \in sel.ids
  \/ sel.of = "cycles" /\ \E a \in DOMAIN attempts : attempts[a].cycle \in sel.ids

\* The queries run in autocommit until one finds rows: their DELETE begins the
\* transaction in which the queries after it run too.
Prune(sel, t) ==
  /\ snapshots' = IF sel.of = "snapshots" THEN Delete(snapshots, sel.ids) ELSE snapshots
  /\ attempts' = CASE sel.of = "snapshots" ->
                        Delete(attempts, AttemptBatch(attempts, snapshots',
                                           UnderPressure(attempts, snapshots'), t))
                   [] sel.of = "attempts"  -> Delete(attempts, sel.ids)
                   [] sel.of = "cycles"    -> attempts
  /\ cycles' = Delete(cycles, IF sel.of = "cycles" THEN sel.ids
                              ELSE CycleBatch(cycles, attempts', t))

-----------------------------------------------------------------------------
(* The other methods; HasRoom is false when an INSERT finds the file full. *)

HasRoom == Used(attempts, snapshots) < MaxPages

InsertCycle(source, t) ==
  /\ cycles' = Insert(cycles, [source |-> source, started |-> t,
                               finished |-> None, outcome |-> "running"])
  /\ UNCHANGED <<attempts, snapshots>>

IsRunning(c) == c \in DOMAIN cycles /\ cycles[c].outcome = "running"

FinishCycle(c, outcome) ==
  /\ cycles' = [cycles EXCEPT ![c].outcome = outcome, ![c].finished = now]
  /\ UNCHANGED <<attempts, snapshots>>

RecordAttempt(c, route, outcome) ==
  /\ attempts' = Insert(attempts, [cycle |-> c, route |-> route, at |-> now,
                                   outcome |-> outcome])
  /\ UNCHANGED <<cycles, snapshots>>

UpdateAttemptOutcome(a, outcome) ==
  /\ attempts' = [attempts EXCEPT ![a].outcome = outcome]
  /\ UNCHANGED <<cycles, snapshots>>

\* record_discovery_snapshot: what it checks, what it compares, what it adds.
Snapshotable(a, route) ==
  a \in DOMAIN attempts /\ attempts[a].route = route /\ attempts[a].outcome = "success"

LatestDigest(route) ==
  LET ids == OfRoute(snapshots, route)
  IN  IF ids = {} THEN None ELSE snapshots[Max(ids)].digest

InsertSnapshot(a, route, digest) ==
  /\ snapshots' = Insert(snapshots, [attempt |-> a, route |-> route, digest |-> digest])
  /\ UNCHANGED <<cycles, attempts>>

\* route_due: measured from the start of the latest cycle that tried the route.
RouteDue(route, t) ==
  \A a \in DOMAIN attempts :
    attempts[a].route = route => t >= cycles[attempts[a].cycle].started + Cadence
=============================================================================
