---------------------------- MODULE SignerSchema ----------------------------
(***************************************************************************)
(* The schema upgrade of the signer database: initialize_signer_database,  *)
(* which every start of a collector runs, with _migrate_room_generation_   *)
(* schema and _initialize_room_lifecycle_rollup (collect.py).              *)
(*                                                                         *)
(* sqlite3 opens a transaction before an INSERT, UPDATE or DELETE and not  *)
(* before other statements; executescript commits first.  A statement      *)
(* outside a transaction is committed by itself, and a kill leaves what    *)
(* was committed, for the next start to make sense of.                     *)
(*                                                                         *)
(* A store holds rooms with attempted checks; of each part only its stage  *)
(* of the upgrade is kept.                                                 *)
(***************************************************************************)
EXTENDS Naturals, FiniteSets

CONSTANTS
  OldStores,  \* stores that earlier releases have left
  NoStart,    \* no process
  MaxRuns     \* starts of a collector

Version == 6  \* SIGNER_STATE_VERSION

\* What is there of each part. A "null" column was added and not filled; the
\* triggers and totals of releases before 2.14.0 and a case-insensitive
\* search are "old"; an "empty" search misses rooms; `parties` is what the
\* counterparty flags stand for. Triggers are "some" when those that all
\* releases share are there, or a part of the current ones.
Store == [version : {0, 3, 4, 5, Version}, meta : {0, 3, 4, 5, Version},
          rooms : {"none", "byName", "byCreation"},
          sha : {"none", "null", "filled"}, outcome : {"none", "null", "filled"},
          agedOut : BOOLEAN,
          triggers : {"none", "some", "old", "current"},
          totals : {"none", "old", "empty", "exact"},
          search : {"none", "old", "empty", "full"},
          parties : {"cooccurrence", "none", "alternation"}]

\* What every release has kept to: tables by creation had the digest and the
\* outcome from the beginning, the metadata carries the version of its store,
\* and only version 3 counted co-occurrences as counterparties.
Consistent(store) ==
  /\ store.rooms = "byCreation" => store.sha = "filled" /\ store.outcome = "filled"
  /\ store.meta \in {0, store.version}
  /\ store.parties = "cooccurrence" => store.version = 3
  /\ store.parties = "alternation" => store.version # 3

ASSUME SchemaAssumption ==
  /\ OldStores \subseteq {store \in Store : Consistent(store)}
  /\ MaxRuns \in Nat

VARIABLES
  began,  \* the store that the first start found
  disk,   \* committed
  run,    \* the start, with its connection's view of the store
  runs    \* starts so far

upgradeVars == <<began, disk, run, runs>>

UpgradeInit ==
  /\ began \in OldStores /\ disk = began
  /\ run = NoStart /\ runs = 0

-----------------------------------------------------------------------------
(* Statements.                                                             *)

At(step) == run # NoStart /\ run.pc = step

\* The connection goes on to a step: with the store that it now sees, in a
\* transaction or not.
Goes(next, new, open) ==
  /\ run' = [new EXCEPT !.pc = next, !.open = open]
  /\ disk' = IF open THEN disk ELSE new.store
  /\ UNCHANGED <<began, runs>>

\* A part of the store becomes `new`: by DDL, or by DML; a condition or the
\* store may not ask for it.
Ddl(step, next, new) == At(step) /\ Goes(next, new, run.open)
Dml(step, next, new) == At(step) /\ Goes(next, new, run.open \/ new # run)
Commits(step, next, new) == At(step) /\ Goes(next, new, FALSE)

Sees(part) == run.store[part]
With(part, value) == [run EXCEPT !.store = [@ EXCEPT ![part] = value]]
WithIf(condition, part, value) == IF condition THEN With(part, value) ELSE run

-----------------------------------------------------------------------------
(* initialize_signer_database                                              *)

Start ==
  /\ run = NoStart /\ runs < MaxRuns
  /\ runs' = runs + 1
  /\ run' = [pc |-> "search", open |-> FALSE, store |-> disk, version |-> disk.version,
             searched |-> disk.search \in {"empty", "full"},
             shaMissing |-> FALSE, outcomeMissing |-> FALSE, kept |-> FALSE]
  /\ UNCHANGED <<began, disk>>

\* A case-insensitive search is dropped, to be built again.
DropSearch == Ddl("search", "tables", WithIf(Sees("search") = "old", "search", "none"))

\* CREATE TABLE IF NOT EXISTS of the signer and room tables.
CreateTables ==
  LET created == [run.store EXCEPT !.rooms = "byCreation", !.sha = "filled",
                                   !.outcome = "filled", !.agedOut = TRUE]
  IN  Ddl("tables", "sha", IF Sees("rooms") # "none" THEN run
                           ELSE [run EXCEPT !.store = created])

AddSha ==
  Ddl("sha", "outcome", IF Sees("sha") # "none" THEN run
                        ELSE [With("sha", "null") EXCEPT !.shaMissing = TRUE])

AddOutcome ==
  Ddl("outcome", "fillSha", IF Sees("outcome") # "none" THEN run
                            ELSE [With("outcome", "null") EXCEPT !.outcomeMissing = TRUE])

\* The new columns are filled by the start that added them.
FillSha == Dml("fillSha", "fillOutcome", WithIf(run.shaMissing, "sha", "filled"))

FillOutcome ==
  Dml("fillOutcome", "generations", WithIf(run.outcomeMissing, "outcome", "filled"))

\* Both validations of rows: _migrate_room_generation_schema and
\* _validate_room_lifecycle_store.
RowsValid == Sees("sha") = "filled" /\ Sees("outcome") = "filled"

\* _migrate_room_generation_schema, in one transaction.
Generations ==
  /\ At("generations")
  /\ Sees("rooms") = "byName" => RowsValid
  /\ Commits("generations", "agedOut",
       IF Sees("rooms") # "byName" THEN run
       ELSE [run EXCEPT !.store = [@ EXCEPT !.rooms = "byCreation", !.agedOut = FALSE,
                                            !.search = "none"],
                        !.searched = FALSE])

AddAgedOut == Ddl("agedOut", "triggers", WithIf(~Sees("agedOut"), "agedOut", TRUE))

-----------------------------------------------------------------------------
(* _initialize_room_lifecycle_rollup                                       *)

\* Triggers of an earlier release go one by one; `kept` says that all the
\* current ones and a table were there.
DropTriggersOnce == At("triggers") /\ Sees("triggers") = "old"
                      /\ Goes("dropping", With("triggers", "some"), run.open)

KeptTriggers ==
  /\ At("triggers") /\ Sees("triggers") # "old"
  /\ Goes("totals", [run EXCEPT !.kept = Sees("triggers") = "current"
                                           /\ Sees("totals") # "none"], run.open)

DropTriggers == Ddl("dropping", "totals", With("triggers", "none"))

CreateTotals == Ddl("totals", "columns", WithIf(Sees("totals") = "none", "totals", "empty"))

\* Totals without the columns of a stage are derived again, and so the
\* triggers go first.
DropOldTotals ==
  /\ At("columns")
  /\ IF Sees("totals") # "old" THEN Goes("count", run, run.open)
     ELSE Goes("drop", [With("triggers", "none") EXCEPT !.kept = FALSE], run.open)

DropTotals == Ddl("drop", "create", With("totals", "none"))

CreateNewTotals == Ddl("create", "count", With("totals", "empty"))

NeedsBackfill == ~run.kept \/ Sees("totals") = "empty"

Count ==
  /\ At("count")
  /\ NeedsBackfill => RowsValid
  /\ Dml("count", "install", WithIf(NeedsBackfill, "totals", "exact"))

\* Variant: triggers that are there are taken for all of them.
InstallUnlessSome ==
  /\ At("install")
  /\ IF Sees("triggers") = "none" THEN Goes("current", With("triggers", "some"), FALSE)
     ELSE Goes("index", run, FALSE)

\* executescript commits before it creates the triggers.
Install == Commits("install", "current", WithIf(Sees("triggers") = "none", "triggers", "some"))

InstallRest == Ddl("current", "index", With("triggers", "current"))

-----------------------------------------------------------------------------
(* The search index, the metadata and the version.                         *)

\* executescript commits; a missing index is created without its rows.
CreateSearch == Commits("index", "rebuild", WithIf(Sees("search") = "none", "search", "empty"))

RebuildIfNew == ~run.searched  \* Variant: the version is not asked for.

NeedsRebuild == run.version < Version \/ ~run.searched

Rebuild == Dml("rebuild", "version", WithIf(NeedsRebuild, "search", "full"))

\* The metadata of versions 3, 4 and 5 is rewritten, and the co-occurrences
\* of version 3 are forgotten.
ForgetsAny(version) == version < Version  \* Variant: at every upgrade.

Forgets(version) == version = 3

Upgraded ==
  LET store == [run.store EXCEPT !.meta = IF run.version \in {3, 4, 5} /\ @ # 0
                                          THEN Version ELSE @,
                                 !.version = Version]
  IN  IF Forgets(run.version) THEN [store EXCEPT !.parties = "none"] ELSE store

MetaValid == run.version \in {3, 4, 5} => Sees("meta") \in {0, run.version}

SetVersion ==
  /\ At("version") /\ MetaValid
  /\ Commits("version", "ready", [run EXCEPT !.store = Upgraded])

\* CollectionError: the transaction is rolled back and the process ends.
Refused ==
  \/ At("generations") /\ Sees("rooms") = "byName" /\ ~RowsValid
  \/ At("count") /\ NeedsBackfill /\ ~RowsValid
  \/ At("version") /\ ~MetaValid

Refuse ==
  /\ Refused
  /\ run' = [run EXCEPT !.pc = "refused"]
  /\ UNCHANGED <<began, disk, runs>>

-----------------------------------------------------------------------------
(* A collector that is ready commits ticks: metadata, alternations, rooms. *)
CommitTick ==
  /\ At("ready")
  /\ disk' = [disk EXCEPT !.meta = Version, !.parties = "alternation"]
  /\ UNCHANGED <<began, run, runs>>

\* It ends or is killed, at any step.
End ==
  /\ run # NoStart
  /\ run' = NoStart
  /\ UNCHANGED <<began, disk, runs>>

UpgradeNext ==
  \/ Start \/ DropSearch \/ CreateTables \/ AddSha \/ AddOutcome \/ FillSha \/ FillOutcome
  \/ Generations \/ AddAgedOut
  \/ DropTriggersOnce \/ KeptTriggers \/ DropTriggers \/ CreateTotals
  \/ DropOldTotals \/ DropTotals \/ CreateNewTotals \/ Count \/ Install \/ InstallRest
  \/ CreateSearch \/ Rebuild \/ SetVersion \/ Refuse \/ CommitTick \/ End

UpgradeSpec == UpgradeInit /\ [][UpgradeNext]_upgradeVars

-----------------------------------------------------------------------------
(* Type correctness: the parts of the store and the shape of a start; and   *)
(* the current tables never hold a room without its digest or outcome.     *)
UpgradeTypeOK ==
  /\ disk \in Store
  /\ disk.rooms = "byCreation" => disk.sha = "filled" /\ disk.outcome = "filled"
  /\ run # NoStart => run.store \in Store /\ run.open \in BOOLEAN
  /\ runs \in 0..MaxRuns

Complete(store) ==
  /\ store.version = Version /\ store.rooms = "byCreation"
  /\ store.sha = "filled" /\ store.outcome = "filled" /\ store.agedOut
  /\ store.triggers = "current" /\ store.totals = "exact"
  /\ store.meta \in {0, Version}

\* A collector that has opened its store writes to one with the current
\* tables and triggers and with totals that agree with them, however many
\* starts before it were killed and wherever: triggers that were missing while
\* nobody counted have the totals counted again (connect_signer_database).
ReadyIsComplete == UpgradeTypeOK /\ (At("ready") => Complete(disk))

\* Version 6, which readers take for the whole schema (query_service.py
\* refuses any other), is set last: an older store that has it is complete,
\* and its search finds every room.
VersionIsLast ==
  began.version # Version /\ disk.version = Version =>
    Complete(disk) /\ disk.search = "full"

\* The upgrade forgets what version 3 counted as counterparties, with the
\* version or before, and never an alternation: one that a tick has stored, or
\* that a later version had, stays, whatever starts follow.
AlternationsStay ==
  [][/\ disk.parties = "alternation" => disk'.parties = "alternation"
     /\ disk'.version = Version => disk'.parties # "cooccurrence"]_upgradeVars

\* DEPLOY.md:461-463: recovery "opens that database through the same
\* initializer as the collector and therefore performs the additive upgrade to
\* schema v6": no start refuses a store that an earlier start has left.
NeverRefused == ~At("refused")

-----------------------------------------------------------------------------
(* The inductive invariant: every committed state and the one that a start *)
(* would commit next are consistent, and how far the start has come.       *)

\* The steps of a start, in their order.
Order == [refused |-> 0, search |-> 1, tables |-> 2, sha |-> 3, outcome |-> 4, fillSha |-> 5,
          fillOutcome |-> 6, generations |-> 7, agedOut |-> 8, triggers |-> 9,
          dropping |-> 10, totals |-> 11, columns |-> 12, drop |-> 13, create |-> 14,
          count |-> 15, install |-> 16, current |-> 17, index |-> 18, rebuild |-> 19,
          version |-> 20, ready |-> 21]

Run == [pc : DOMAIN Order, open : BOOLEAN, store : Store,
        version : {0, 3, 4, 5, Version}, searched : BOOLEAN,
        shaMissing : BOOLEAN, outcomeMissing : BOOLEAN, kept : BOOLEAN]

Reached(r, step) == Order[step] <= Order[r.pc]

\* A version that was set by this code stays the last.
Final(store) ==
  began.version # Version /\ store.version = Version =>
    Complete(store) /\ store.search = "full"

Progress(r) ==
  /\ r.pc # "ready" => r.version = r.store.version /\ r.store.parties = disk.parties
  /\ Reached(r, "sha") => r.store.rooms # "none"
  /\ Reached(r, "agedOut") => r.store.rooms = "byCreation"
  /\ Reached(r, "triggers") => r.store.agedOut
  /\ r.kept => r.store.triggers = "current" /\ (Reached(r, "totals") \/ r.pc = "refused")
  /\ Reached(r, "totals") => r.store.triggers # "old"
  /\ r.pc = "dropping" => r.store.triggers = "some"
  /\ r.pc = "drop" => r.store.totals = "old" /\ ~r.kept
  /\ r.pc = "create" => r.store.totals = "none" /\ ~r.kept
  /\ Reached(r, "columns") /\ r.pc # "create" => r.store.totals # "none"
  /\ Reached(r, "count") => r.store.totals # "old"
  /\ Reached(r, "install") => r.store.totals = "exact"
  /\ Reached(r, "index") => r.store.triggers = "current"
  /\ Reached(r, "version") /\ r.version # Version => r.store.search = "full"
  /\ Reached(r, "ready") => Complete(disk)

SInv ==
  /\ began \in Store
  /\ disk \in Store /\ Consistent(disk) /\ Final(disk)
  /\ runs \in 0..MaxRuns
  /\ run # NoStart => /\ run \in Run
                   /\ Consistent(run.store) /\ Final(run.store) /\ Progress(run)
=============================================================================
