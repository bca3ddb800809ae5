---------------------------- MODULE SignerStore ----------------------------
(***************************************************************************)
(* The signer store of collect.py: the metadata row with the room sampler  *)
(* (load_signer_state, room_sample_names), one row per DID                 *)
(* (update_signer_state), the funnel of each tick, the JSON mirror of the  *)
(* metadata, and the migration of the v2 JSON store (migrate_signers.py).  *)
(*                                                                         *)
(* The collectors are the daemon and the census cron job: whole cycles     *)
(* under one lock, which fail or are killed at any step.  What else a      *)
(* cycle stores is in RoomLifecycle, how its outbox is published in        *)
(* TickOutbox; here a drain is one step.                                   *)
(***************************************************************************)
EXTENDS Integers, Sequences, FiniteSets, SequencesExt, FiniteSetsExt

CONSTANTS
  Collectors,   \* processes of collect.py
  Cron,         \* those that run a census first
  Rooms,        \* room names but the lobby, in their order
  Rank,         \* epoch -> room -> its digest under the selector's seed
  Listings,     \* sets of rooms that /rooms may list
  Dids,
  Windows,      \* message windows that a room read may return
  MaxSpan,      \* positions that an alternation may span (10)
  MaxSeconds,   \* and seconds (900)
  ReadBudget,   \* ROOM_READ_BUDGET, the lobby included
  RoomsKept,    \* rooms kept for a DID (8)
  DayLength,    \* clock readings of one date
  Sources,      \* v2 stores, and None
  None,
  MaxEpoch,     \* SQLITE_INTEGER_MAX
  MaxClock,     \* last reading of the host's clock
  MaxTicks      \* ticks ever committed

Never == -1     \* SQL NULL for a timestamp or a date
Lobby == 0

ASSUME SignerAssumption ==
  /\ Cron \subseteq Collectors
  /\ Rooms \subseteq Nat \ {Lobby} /\ IsFiniteSet(Rooms) /\ IsFiniteSet(Dids)
  /\ Rank \in [0..MaxEpoch -> [Rooms -> Int]]
  /\ \A e \in 0..MaxEpoch, r, s \in Rooms : Rank[e][r] = Rank[e][s] => r = s
  /\ Listings \subseteq SUBSET Rooms
  /\ Windows \subseteq Seq([from : Dids, nonce : BOOLEAN, at : Int])
  /\ ReadBudget \in Nat \ {0, 1} /\ RoomsKept \in Nat \ {0, 1} /\ DayLength \in Nat \ {0}
  /\ MaxEpoch \in Nat /\ MaxClock \in Nat

VARIABLES
  source,    \* the v2 JSON store that the migration reads
  migration, \* step of migrate_signers.py
  exists,    \* the SQLite file is there
  db,        \* its committed content
  mirror,    \* the JSON copy of the metadata
  lock,      \* holder of the signer lock
  cycle,     \* the collectors
  ledger     \* published ticks

vars == <<source, migration, exists, db, mirror, lock, cycle, ledger>>

Date(t) == t \div DayLength

Row == [ticks : Nat, first : Int, last : Int, firstDate : Int, lastDate : Int,
        dates : Nat, rooms : SUBSET (Rooms \cup {Lobby}), counterparty : BOOLEAN]

NoRows == [d \in Dids |-> None]
EmptyStore == [meta |-> None, dids |-> NoRows, outbox |-> None]

\* new_signer_state: `started` stands for the origin of the counters.
NewSignerState == [started |-> "fresh", saturated |-> FALSE, census |-> None,
                   epoch |-> -1, frame |-> <<>>, position |-> 0,
                   firstDate |-> Never, lastDate |-> Never, dates |-> 0,
                   updated |-> Never]

Idle == [pc |-> "idle"]

Init ==
  /\ source \in Sources
  /\ migration = "off"
  /\ exists = FALSE /\ db = EmptyStore /\ mirror = None
  /\ lock = None
  /\ cycle = [c \in Collectors |-> Idle]
  /\ ledger = <<>>

\* Ticks of committed transactions, in their order.
History == IF db.outbox = None THEN ledger ELSE Append(ledger, db.outbox)

-----------------------------------------------------------------------------
(* The room sampler.                                                       *)

\* sorted(candidates, key = digest of the seed, the epoch and the name)
Place(epoch, listing, r) == Cardinality({s \in listing : Rank[epoch][s] <= Rank[epoch][r]})

Frame(epoch, listing) ==
  [k \in 1..Cardinality(listing) |-> CHOOSE r \in listing : Place(epoch, listing, r) = k]

\* A new frame when the old one is used up, then the next slice of it.
Framed(m, listing) ==
  IF m.position < Len(m.frame) THEN m
  ELSE [m EXCEPT !.epoch = @ + 1, !.frame = Frame(m.epoch + 1, listing), !.position = 0]

Slice(m) ==
  LET stop == Min({m.position + ReadBudget - 1, Len(m.frame)})
  IN  [slice |-> SubSeq(m.frame, m.position + 1, stop),
       state |-> [m EXCEPT !.position = stop]]

\* room_sample_names raises.
Exhausted(m) == m.position >= Len(m.frame) /\ m.epoch >= MaxEpoch

RoomSample(m, listing) == Slice(Framed(m, listing))

-----------------------------------------------------------------------------
(* What a tick makes of the messages: update_signer_state.                 *)

Signed(window) == {i \in DOMAIN window : window[i].nonce}

\* Senders of a signed reciprocal alternation: A, B, A close together.
Counterparties(window) ==
  UNION {{window[q[1]].from, window[q[2]].from} :
           q \in {p \in Signed(window) \X Signed(window) :
             /\ p[1] < p[2] /\ window[p[1]].from # window[p[2]].from
             /\ \E k \in Signed(window) :
                  /\ p[2] < k /\ k - p[1] <= MaxSpan
                  /\ window[k].from = window[p[1]].from
                  /\ LET gap == window[k].at - window[p[1]].at
                     IN  Max({gap, -gap}) <= MaxSeconds}}

Signers(window) == {window[i].from : i \in Signed(window)}

\* DID -> the rooms in which it signed, and whether it alternated in one;
\* `reads` has the rooms that were read, with their messages.
Observed(reads) ==
  [d \in UNION {Signers(r[2]) : r \in reads} |->
     [rooms |-> {r[1] : r \in {x \in reads : d \in Signers(x[2])}},
      counterparty |-> \E r \in reads : d \in Counterparties(r[2])]]

\* sorted(...)[:8]
Kept(rooms) == {r \in rooms : Cardinality({s \in rooms : s < r}) < RoomsKept}

KeptUnion(old, new) == Kept(old \cup new)

\* The collection dates of a row or of the metadata, after one on date `day`.
DatesEveryTick(x, day) ==  \* Variant: counts ticks.
  [x EXCEPT !.firstDate = IF x.dates = 0 THEN day ELSE @, !.lastDate = day, !.dates = @ + 1]

DatesAfter(x, day) ==
  IF x.dates > 0 /\ x.lastDate = day THEN x
  ELSE [x EXCEPT !.firstDate = IF x.dates = 0 THEN day ELSE @, !.lastDate = day,
                 !.dates = @ + 1]

\* A row that the update refuses.
Inconsistent(row, at) ==
  \/ row.ticks = 0 /\ row.last # Never
  \/ (row.first = Never) # (row.last = Never)
  \/ row.first > row.last \/ row.last > at
  \/ (row.firstDate = Never) # (row.lastDate = Never)
  \/ (row.firstDate = Never) # (row.dates = 0)
  \/ row.lastDate < row.firstDate \/ row.dates > row.lastDate - row.firstDate + 1
  \/ row.lastDate > Date(at)

NewRow == [ticks |-> 0, first |-> Never, last |-> Never, firstDate |-> Never,
           lastDate |-> Never, dates |-> 0, rooms |-> {}, counterparty |-> FALSE]

Updated(row, seen, at) ==
  [DatesAfter(row, Date(at)) EXCEPT
     !.ticks = @ + 1, !.first = IF @ = Never THEN at ELSE @, !.last = at,
     !.rooms = KeptUnion(@, seen.rooms), !.counterparty = @ \/ seen.counterparty]

UpdateRefused(m, dids, seen, at) ==
  \/ at < m.updated
  \/ m.dates > 0 /\ m.lastDate > Date(at)
  \/ \E d \in DOMAIN seen : dids[d] # None /\ Inconsistent(dids[d], at)

UpdatedRows(dids, seen, at) ==
  [d \in Dids |-> IF d \notin DOMAIN seen THEN dids[d]
                  ELSE Updated(IF dids[d] = None THEN NewRow ELSE dids[d], seen[d], at)]

UpdatedMeta(m, at) == [DatesAfter(m, Date(at)) EXCEPT !.updated = at]

\* signer_funnel_counts: each stage counts only rows of the stage before it.
FunnelCounts(dids) ==
  LET observed == {d \in Dids : dids[d] # None}
      ticks == {d \in observed : dids[d].ticks >= 2}
      dates == {d \in ticks : dids[d].dates >= 2}
      rooms == {d \in dates : Cardinality(dids[d].rooms) >= 2}
      mutual == {d \in rooms : dids[d].counterparty}
  IN  <<Cardinality(observed), Cardinality(ticks), Cardinality(dates),
        Cardinality(rooms), Cardinality(mutual)>>

\* aggregate_funnel and tracking_disclosure.
Funnel(dids, m) ==
  [counts |-> FunnelCounts(dids), dates |-> m.dates, census |-> m.census,
   started |-> m.started, disclosed |-> m.saturated]

-----------------------------------------------------------------------------
(* The cycle of a collector: collect_tick.                                 *)

LockIgnored(c) == TRUE  \* Variant: the cycle does not take the lock.

LockFree(c) == lock = None

\* main and collect_tick: a mirror without its store has to be migrated.
StoreUsable == mirror # None => exists

\* load_signer_state fails.
Unmigrated == db.meta = None /\ mirror # None

\* The repair of the mirror, which precedes the commit.
RepairedMirror == IF db.meta = None THEN mirror ELSE db.meta

Loaded == IF db.meta = None THEN NewSignerState ELSE db.meta

\* A process has started, or the daemon begins its next cycle: main creates
\* the file (connect_signer_database); phase 1a, up to its commit.
Load(c) ==
  /\ cycle[c].pc = "idle" /\ LockFree(c) /\ migration = "off"
  /\ StoreUsable /\ db.outbox = None /\ ~Unmigrated
  /\ Len(ledger) < MaxTicks
  /\ lock' = c /\ exists' = TRUE
  /\ mirror' = RepairedMirror
  /\ db' = [db EXCEPT !.meta = Loaded]
  /\ cycle' = [cycle EXCEPT ![c] = [pc |-> "loaded", state |-> Loaded]]
  /\ UNCHANGED <<source, migration, ledger>>

SelectedEarly(m) == [db EXCEPT !.meta = m]  \* Variant: the advance is saved here.

Selected(m) == db  \* the advance is only in memory

\* The mirror is saved, the rooms to read are selected, the events are read
\* and the host's clock, which may have been set back.
Select(c) ==
  /\ cycle[c].pc = "loaded" /\ ~Exhausted(cycle[c].state)
  /\ \E listing \in Listings, at \in 0..MaxClock :
       LET sample == RoomSample(cycle[c].state, listing)
       IN  /\ cycle' = [cycle EXCEPT ![c] =
                          [pc |-> "reading", state |-> sample.state,
                           rooms |-> sample.slice, at |-> at]]
           /\ db' = Selected(sample.state)
  /\ mirror' = cycle[c].state
  /\ UNCHANGED <<source, migration, exists, lock, ledger>>

\* The rooms that can be read, with their messages; the lobby has to be.
Reads(c) ==
  UNION {{{<<r, f[r]>> : r \in DOMAIN f} : f \in [read \cup {Lobby} -> Windows]} :
           read \in SUBSET ToSet(cycle[c].rooms)}

\* The total that run_census returned to this process, if any.
Census(c) == IF c \in Cron THEN {None, cycle[c].at} ELSE {None}

Tick(c, m, dids, seen, total) ==
  [at |-> cycle[c].at, epoch |-> m.epoch, frame |-> m.frame, sampled |-> cycle[c].rooms,
   funnel |-> Funnel(dids, m), total |-> total, seen |-> seen]

\* Phase 3: one transaction for the rows, the metadata and the outbox.
Commit(c) ==
  /\ cycle[c].pc = "reading"
  /\ \E reads \in Reads(c), total \in Census(c) :
       LET at == cycle[c].at
           seen == Observed(reads)
           dids == UpdatedRows(db.dids, seen, at)
           m == UpdatedMeta(IF total = None THEN cycle[c].state
                            ELSE [cycle[c].state EXCEPT !.census = total], at)
       IN  /\ ~UpdateRefused(cycle[c].state, db.dids, seen, at)
           /\ db' = [meta |-> m, dids |-> dids, outbox |-> Tick(c, m, dids, seen, total)]
           /\ cycle' = [cycle EXCEPT ![c] = [pc |-> "committed", state |-> m]]
  /\ UNCHANGED <<source, migration, exists, mirror, lock, ledger>>

\* The mirror is saved and the lock released.
Finish(c) ==
  /\ cycle[c].pc = "committed"
  /\ mirror' = cycle[c].state
  /\ lock' = None
  /\ cycle' = [cycle EXCEPT ![c] = Idle]
  /\ UNCHANGED <<source, migration, exists, db, ledger>>

\* A failed read, a refused update, a failed commit or save, or a kill ends
\* the cycle and releases the lock.
Abort(c) ==
  /\ cycle[c].pc # "idle"
  /\ cycle' = [cycle EXCEPT ![c] = Idle]
  /\ lock' = IF lock = c THEN None ELSE lock
  /\ UNCHANGED <<source, migration, exists, db, mirror, ledger>>

\* drain_tick_outbox, which begins and ends the cycles of main.
Drain(c) ==
  /\ cycle[c].pc = "idle" /\ LockFree(c) /\ db.outbox # None
  /\ ledger' = Append(ledger, db.outbox)
  /\ db' = [db EXCEPT !.outbox = None]
  /\ UNCHANGED <<source, migration, exists, mirror, lock, cycle>>

-----------------------------------------------------------------------------
(* The migration, run by the operator while no collector runs.             *)

OutputsReplaced == TRUE  \* Variant: what is there is migrated over.

OutputsAbsent == mirror = None /\ ~exists

\* connect_signer_database creates the file.
MigrationStart ==
  /\ migration = "off" /\ lock = None /\ source # None
  /\ OutputsAbsent
  /\ migration' = "streaming" /\ exists' = TRUE
  /\ UNCHANGED <<source, db, mirror, lock, cycle, ledger>>

\* validate_source_record refuses records of another shape, and the metadata
\* must answer --cap-saturated-at with its own cap_hit.
MigratedRows == source.dids

MigratedMeta(saturatedAt) == [source.meta EXCEPT !.saturated = saturatedAt]

MigrationCommit ==
  /\ migration = "streaming"
  /\ \E saturatedAt \in BOOLEAN :
       /\ saturatedAt = source.capHit
       /\ FunnelCounts(source.dids) = FunnelCounts(MigratedRows)
       /\ db' = [meta |-> MigratedMeta(saturatedAt), dids |-> MigratedRows, outbox |-> None]
  /\ migration' = "committed"
  /\ UNCHANGED <<source, exists, mirror, lock, cycle, ledger>>

MigrationFinish ==
  /\ migration = "committed"
  /\ migration' = "off" /\ mirror' = db.meta
  /\ UNCHANGED <<source, exists, db, lock, cycle, ledger>>

\* An error removes the database. save_atomic_json may fail after it renamed
\* the mirror, which then stays.
MigrationFail ==
  /\ migration # "off"
  /\ migration' = "off" /\ exists' = FALSE /\ db' = EmptyStore
  /\ mirror' \in {None, db.meta}
  /\ UNCHANGED <<source, lock, cycle, ledger>>

MigrationKill ==
  /\ migration # "off"
  /\ migration' = "off"
  /\ UNCHANGED <<source, exists, db, mirror, lock, cycle, ledger>>

-----------------------------------------------------------------------------
Next ==
  \/ \E c \in Collectors :
       Load(c) \/ Select(c) \/ Commit(c) \/ Finish(c) \/ Abort(c) \/ Drain(c)
  \/ MigrationStart \/ MigrationCommit \/ MigrationFinish
  \/ MigrationFail \/ MigrationKill

Spec == Init /\ [][Next]_vars

-----------------------------------------------------------------------------
(* Type correctness: the shape of the store, the mirror and the cycles.    *)
Metas == [started : {"fresh", "legacy"}, saturated : BOOLEAN, census : Nat \cup {None},
          epoch : -1..MaxEpoch, frame : Seq(Rooms), position : Nat,
          firstDate : Int, lastDate : Int, dates : Nat, updated : Int]

Funnels == [counts : Nat \X Nat \X Nat \X Nat \X Nat, dates : Nat,
            census : Nat \cup {None}, started : {"fresh", "legacy"}, disclosed : BOOLEAN]

Seens == UNION {[ds -> [rooms : SUBSET (Rooms \cup {Lobby}), counterparty : BOOLEAN]] :
                  ds \in SUBSET Dids}

Ticks == [at : Nat, epoch : -1..MaxEpoch, frame : Seq(Rooms), sampled : Seq(Rooms),
          funnel : Funnels, total : Nat \cup {None}, seen : Seens]

Tables == [Dids -> Row \cup {None}]

Stores == [meta : Metas \cup {None}, dids : Tables, outbox : Ticks \cup {None}]

Cycles == {Idle} \cup [pc : {"loaded", "committed"}, state : Metas]
            \cup [pc : {"reading"}, state : Metas, rooms : Seq(Rooms), at : Nat]

\* A v2 store that the migration accepts: complete records of at most
\* RoomsKept rooms (validate_source_record, validate_signer_metadata).
Source == [capHit : BOOLEAN,
           meta : {m \in Metas : m.started = "legacy" /\ m.position <= Len(m.frame)},
           dids : {t \in Tables : \A d \in Dids :
                     t[d] # None => Cardinality(t[d].rooms) <= RoomsKept}]

ASSUME SourceAssumption ==
  /\ \A s \in Sources : s # None => s \in Source
  /\ None \notin Nat \cup Collectors \cup Row \cup Metas \cup Ticks

TypeOK ==
  /\ source \in Sources
  /\ migration \in {"off", "streaming", "committed"} /\ exists \in BOOLEAN
  /\ db \in Stores
  /\ db.meta = None => db.dids = NoRows /\ db.outbox = None
  /\ ~exists => db = EmptyStore
  /\ mirror \in Metas \cup {None}
  /\ lock \in Collectors \cup {None}
  /\ cycle \in [Collectors -> Cycles]
  /\ ledger \in Seq(Ticks)

\* What the store was before its first tick.
BaseRow(d) == IF db.meta.started = "legacy" THEN source.dids[d] ELSE None

TicksOf(d, n) == {i \in 1..n : d \in DOMAIN History[i].seen}

RoomsOf(d, n) ==
  (IF BaseRow(d) = None THEN {} ELSE BaseRow(d).rooms)
    \cup UNION {History[i].seen[d].rooms : i \in TicksOf(d, n)}

DatesOf(d, n) ==
  LET days == {Date(History[i].at) : i \in TicksOf(d, n)}
  IN  IF BaseRow(d) = None THEN Cardinality(days)
      ELSE BaseRow(d).dates + Cardinality(days \ {BaseRow(d).lastDate})

Has(d, n) == TicksOf(d, n) # {} \/ BaseRow(d) # None

CountOf(d, n) ==
  Cardinality(TicksOf(d, n)) + (IF BaseRow(d) = None THEN 0 ELSE BaseRow(d).ticks)

Alternated(d, n) ==
  \/ BaseRow(d) # None /\ BaseRow(d).counterparty
  \/ \E i \in TicksOf(d, n) : History[i].seen[d].counterparty

\* A DID's row keeps exactly what the committed ticks, and the v2 store that
\* was migrated, saw of it: failed and killed cycles leave no trace, no date
\* is counted twice, and of its rooms the smallest are kept (signer_dids).
RowMatches(d, n) ==
  LET row == db.dids[d]
      ticks == TicksOf(d, n)
  IN  IF db.meta = None \/ ~Has(d, n) THEN row = None
      ELSE /\ row # None
           /\ row.ticks = CountOf(d, n) /\ row.dates = DatesOf(d, n)
           /\ row.rooms = Kept(RoomsOf(d, n))
           /\ ticks # {} => row.last = History[Max(ticks)].at
           /\ row.counterparty = Alternated(d, n)

RowsMatch == \A d \in Dids : RowMatches(d, Len(History))

\* The funnel that a tick publishes can be recomputed from the ticks up to it:
\* DIDs that signed, on two ticks, on two dates, in two rooms, with a
\* counterparty, whatever was left of them in the store; and a store that was
\* migrated after its cap was hit says so in every tick (aggregate_funnel).
CountsAt(n) ==
  LET observed == {d \in Dids : Has(d, n)}
      ticks == {d \in observed : CountOf(d, n) >= 2}
      dates == {d \in ticks : DatesOf(d, n) >= 2}
      rooms == {d \in dates : Cardinality(RoomsOf(d, n)) >= 2}
      mutual == {d \in rooms : Alternated(d, n)}
  IN  <<Cardinality(observed), Cardinality(ticks), Cardinality(dates),
        Cardinality(rooms), Cardinality(mutual)>>

FunnelMatches ==
  \A n \in 1..Len(History) :
    /\ History[n].funnel.counts = CountsAt(n)
    /\ History[n].funnel.disclosed = (db.meta.started = "legacy" /\ source.capHit)

\* Rows and published funnels agree with the history of ticks.
StoreMatchesHistory == RowsMatch /\ FunnelMatches

LastCensus(n) ==
  LET censuses == {i \in 1..n : History[i].total # None}
  IN  IF censuses # {} THEN History[Max(censuses)].total
      ELSE IF db.meta.started = "legacy" THEN source.meta.census ELSE None

\* A census total that a cron run recorded is in every later tick's funnel,
\* until the next one: no cycle writes back metadata that it read before it
\* (collect_tick: "an unlocked cycle here let the daemon clobber a census
\* result the cron invocation had just recorded").
CensusKept == \A n \in 1..Len(History) : History[n].funnel.census = LastCensus(n)

\* Where the sampler stood before the first tick.
Base == IF db.meta.started = "legacy" THEN source.meta ELSE NewSignerState

\* The rooms of an epoch's frame that were used up by the first n of the ticks h,
\* in their order, and before them by the store that was migrated.
SampledIn(h, base, epoch, n) ==
  (IF base.epoch = epoch THEN SubSeq(base.frame, 1, base.position) ELSE <<>>)
    \o FlattenSeq([i \in 1..n |-> IF h[i].epoch = epoch THEN h[i].sampled ELSE <<>>])

Before(h, base, n) == IF n = 1 THEN base ELSE h[n - 1]

FrameCovered(h, base, n) ==
  LET last == Before(h, base, n)
  IN  /\ IsPrefix(SampledIn(h, base, h[n].epoch, n), h[n].frame)
      /\ h[n].epoch = last.epoch => h[n].frame = last.frame
      /\ h[n].epoch # last.epoch =>
           /\ h[n].epoch = last.epoch + 1
           /\ SampledIn(h, base, last.epoch, n - 1) = last.frame

\* The ticks of one epoch publish one frame, and sample its places in their
\* order, each once; a new epoch begins when all of them were, also after a
\* migration in the middle of a frame. A cycle that failed has used up nothing
\* (room_sample_names).
FramesCovered == \A n \in 1..Len(History) : FrameCovered(History, Base, n)

\* A mirror is never beside a database without metadata, which every later
\* cycle would refuse, nor is it ahead of the database: whatever was killed,
\* the counters that others read from it are committed (load_signer_state).
MirrorHasStore ==
  /\ TypeOK
  /\ mirror # None /\ exists =>
       db.meta # None /\ mirror.updated <= db.meta.updated /\ mirror.epoch <= db.meta.epoch

-----------------------------------------------------------------------------
(* The inductive invariant.                                                *)

\* What a cycle holds is of the store as it is, but for what it has read.
Holding(c) ==
  /\ cycle[c].pc # "idle" => lock = c /\ exists /\ migration = "off" /\ db.meta # None
  /\ cycle[c].pc \in {"loaded", "committed"} => cycle[c].state = db.meta
  /\ cycle[c].pc \in {"loaded", "reading"} => db.outbox = None
  /\ cycle[c].pc = "reading" =>
       LET m == cycle[c].state
       IN  /\ db.meta.epoch <= m.epoch /\ m.updated = db.meta.updated
           /\ m.census = db.meta.census /\ m.started = db.meta.started
           /\ m.saturated = db.meta.saturated

\* A migration runs alone, and before the first tick.
Migrating ==
  /\ migration # "off" => lock = None /\ mirror = None /\ exists /\ source # None
  /\ migration = "streaming" => db = EmptyStore
  /\ migration = "committed" => db.meta # None /\ History = <<>>
  /\ db.meta = None => History = <<>>

\* What the metadata keeps of its origin and of the latest census.
Origin ==
  db.meta # None =>
    /\ db.meta.started = "legacy" => source # None
    /\ db.meta.saturated = (db.meta.started = "legacy" /\ source.capHit)
    /\ db.meta.census = LastCensus(Len(History))

CycleInv ==
  /\ MirrorHasStore /\ CensusKept
  /\ Migrating /\ Origin
  /\ \A c \in Collectors : Holding(c)

\* The ticks and the last date of each row are in the order of time.
RowDated(d, n) ==
  LET row == db.dids[d]
      ticks == TicksOf(d, n)
  IN  IF ticks = {} THEN row = BaseRow(d)
      ELSE /\ row.dates > 0 /\ row.lastDate = Date(row.last)
           /\ BaseRow(d) # None =>
                \A i \in ticks : BaseRow(d).lastDate <= Date(History[i].at)

TicksDated(n) ==
  \A i \in 1..n : /\ History[i].at <= db.meta.updated
                  /\ \A j \in 1..i : History[j].at <= History[i].at

Dated ==
  db.meta # None =>
    TicksDated(Len(History)) /\ \A d \in Dids : RowDated(d, Len(History))

StoreInv == CycleInv /\ StoreMatchesHistory /\ Dated

\* The metadata is at the place that the latest tick left the sampler at.
AtPlace(m, h, base) ==
  LET n == Len(h)
      last == IF n = 0 THEN base ELSE h[n]
  IN  /\ m.epoch = last.epoch /\ m.frame = last.frame /\ m.position <= Len(m.frame)
      /\ SampledIn(h, base, m.epoch, n) = SubSeq(m.frame, 1, m.position)
      /\ base.epoch <= m.epoch /\ \A i \in 1..n : h[i].epoch <= m.epoch

\* A cycle has taken the next slice of the stored frame, or the first of a new one.
Advancing(c) ==
  LET m == db.meta
      s == cycle[c].state
  IN  cycle[c].pc = "reading" =>
        /\ s.position <= Len(s.frame)
        /\ \/ /\ s.epoch = m.epoch /\ s.frame = m.frame /\ m.position <= s.position
              /\ cycle[c].rooms = SubSeq(s.frame, m.position + 1, s.position)
           \/ /\ s.epoch = m.epoch + 1 /\ m.position = Len(m.frame)
              /\ cycle[c].rooms = SubSeq(s.frame, 1, s.position)

FrameInv ==
  /\ CycleInv /\ FramesCovered
  /\ db.meta # None => AtPlace(db.meta, History, Base)
  /\ \A c \in Collectors : Advancing(c)

=============================================================================
