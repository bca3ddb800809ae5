----------------------------- MODULE TickOutbox -----------------------------
(***************************************************************************)
(* The collector processes of collect.py around the signer database: the   *)
(* daemon, the census cron invocation and recover_publication.py.  A cycle *)
(* drains a committed tick, walks the identity census (census invocation   *)
(* only), collects a tick into the signer database together with a row of  *)
(* its outbox, and drains that row into the tick ledger.                   *)
(*                                                                         *)
(* The database commits atomically, but it runs in WAL mode with           *)
(* synchronous=NORMAL: a power loss may undo its latest commits.  The      *)
(* census state file is fsynced on every save.  The tick ledger is the     *)
(* abstract AppendOnceLog that TickLedger implements.                      *)
(*                                                                         *)
(* Abstractions: an operation id is a number never drawn twice; a census   *)
(* walk is named by a number standing for its started_at; shard counts are *)
(* the set of shards counted, since a complete walk no longer changes and  *)
(* so fixes its total; what a collection writes to the signer tables is    *)
(* the operation it was committed under.                                   *)
(***************************************************************************)
EXTENDS Naturals, Sequences, FiniteSets

CONSTANTS
  Daemons, Censuses, Recoveries,   \* the processes, by what they run
  NoProc, None,
  Shards,           \* number of shards: did-00 .. did-ff
  MaxPasses,        \* CENSUS_MAX_PASSES
  MaxTicks,         \* bound: collections committed
  MaxWalks,         \* bound: census walks started
  MaxFaults,        \* bound: interruptions and power losses
  MaxLostCommits    \* bound: commits a power loss can undo

Procs == Daemons \cup Censuses \cup Recoveries

ASSUME ConstantsAssumption ==
  /\ Daemons \cap Censuses = {}
  /\ Daemons \cap Recoveries = {} /\ Censuses \cap Recoveries = {}
  /\ NoProc \notin Procs
  /\ None \notin Nat
  /\ Shards \in Nat \ {0} /\ MaxPasses \in Nat \ {0} /\ MaxTicks \in Nat
  /\ MaxWalks \in Nat \ {0} /\ MaxFaults \in Nat /\ MaxLostCommits \in Nat

VARIABLES
  db,          \* signer database: outbox row, operations applied
  undone,      \* earlier database states a power loss may return to
  log,         \* the tick ledger: one [user, op] per tick
  census,      \* census state file
  signerLock, censusLock,   \* owners of the two flocks
  pc,          \* next step of each process
  second,      \* whether it drains after its own collection
  item,        \* the outbox row it is publishing
  carried,     \* the walk whose total its next tick reports
  todo, pass,  \* shards left in its census pass, number of the pass
  nextOp, faults

vars == <<db, undone, log, census, signerLock, censusLock, pc, second, item,
          carried, todo, pass, nextOp, faults>>
walkVars == <<todo, pass>>

Walk == 1..MaxWalks
Shard == 1..Shards
Row == [op : 1..MaxTicks, walk : Walk \cup {None}]
ASSUME NoneIsNoRow == None \notin Row
Database == [outbox : Row \cup {None}, applied : Seq(1..MaxTicks)]

Ledger == INSTANCE AppendOnceLog
            WITH Ops <- 1..MaxTicks, NoOp <- 0, Payloads <- Walk \cup {None},
                 Requests <- {}, acked <- {}

Steps == {"idle", "drain", "append", "ack", "delete", "census",
          "walk", "collect", "fetch"}

TypeOK ==
  /\ db \in Database
  /\ undone \in Seq(Database) /\ Len(undone) <= MaxLostCommits
  /\ log \in Seq([user : Walk \cup {None}, op : 1..MaxTicks])
  /\ census \in [walk : Walk, counted : SUBSET Shard, published : BOOLEAN]
  /\ signerLock \in Procs \cup {NoProc}
  /\ censusLock \in Procs \cup {NoProc}
  /\ pc \in [Procs -> Steps]
  /\ second \in [Procs -> BOOLEAN]
  /\ item \in [Procs -> Row \cup {None}]
  /\ carried \in [Procs -> Walk \cup {None}]
  /\ todo \in [Procs -> SUBSET Shard]
  /\ pass \in [Procs -> 0..MaxPasses]
  /\ nextOp \in 1..(MaxTicks + 1)
  /\ faults \in 0..MaxFaults

Init ==
  /\ db = [outbox |-> None, applied |-> <<>>]
  /\ undone = <<>>
  /\ log = <<>>
  /\ census = [walk |-> 1, counted |-> {}, published |-> FALSE]
  /\ signerLock = NoProc /\ censusLock = NoProc
  /\ pc = [p \in Procs |-> "idle"]
  /\ second = [p \in Procs |-> FALSE]
  /\ item = [p \in Procs |-> None]
  /\ carried = [p \in Procs |-> None]
  /\ todo = [p \in Procs |-> {}]
  /\ pass = [p \in Procs |-> 0]
  /\ nextOp = 1
  /\ faults = 0

-----------------------------------------------------------------------------
Goto(p, step) == pc' = [pc EXCEPT ![p] = step]

\* The cycle ends: an invocation exits, the daemon sleeps.
EndCycle(p) ==
  /\ Goto(p, "idle")
  /\ second' = [second EXCEPT ![p] = FALSE]
  /\ item' = [item EXCEPT ![p] = None]
  /\ carried' = [carried EXCEPT ![p] = None]
  /\ todo' = [todo EXCEPT ![p] = {}]
  /\ pass' = [pass EXCEPT ![p] = 0]

Release(lock, p) == IF lock = p THEN NoProc ELSE lock

\* An exception: `with' blocks give the locks back, the transaction is
\* rolled back, main reports the failed cycle.
Fail(p) ==
  /\ EndCycle(p)
  /\ signerLock' = Release(signerLock, p)
  /\ censusLock' = Release(censusLock, p)

\* COMMIT of the signer database; a power loss may undo the latest ones.
LastCommits(s) ==
  IF Len(s) > MaxLostCommits THEN SubSeq(s, Len(s) - MaxLostCommits + 1, Len(s)) ELSE s
Commit(state) == db' = state /\ undone' = LastCommits(Append(undone, db))

Complete(c) == c.counted = Shard

-----------------------------------------------------------------------------
(* main: one cycle.                                                        *)

StartCycle(p) ==
  /\ pc[p] = "idle"
  /\ Goto(p, "drain")
  /\ UNCHANGED <<db, undone, log, census, signerLock, censusLock, second, item,
                 carried, walkVars, nextOp, faults>>

\* Fault: neither the flock nor SQLite's write lock excludes anybody.
SignerLockShared == TRUE

\* The flock is free to be taken; the deadline passes while another holds it.
SignerLockFree == signerLock = NoProc

LockTimeout(p, lock, from) ==
  /\ pc[p] = from
  /\ lock # NoProc
  /\ Fail(p)
  /\ UNCHANGED <<db, undone, log, census, nextOp, faults>>

(* drain_tick_outbox                                                       *)

DrainTimeout(p) == LockTimeout(p, signerLock, "drain")

\* After a drain: a census invocation walks, a daemon that had nothing to
\* drain collects; every other cycle is over.
AfterDrain(p, drained) ==
  IF second[p] THEN "idle"
  ELSE IF p \in Censuses THEN "census"
  ELSE IF p \in Daemons /\ ~drained THEN "collect"
  ELSE "idle"

\* Takes the lock and loads the row; without one the lock is given back at
\* once, and main raises if that follows its own collection.
Load(p) ==
  /\ pc[p] = "drain" /\ SignerLockFree
  /\ \/ /\ db.outbox = None
        /\ UNCHANGED signerLock
        /\ IF AfterDrain(p, FALSE) = "idle" THEN EndCycle(p)
             ELSE Goto(p, AfterDrain(p, FALSE))
                  /\ UNCHANGED <<second, item, carried, walkVars>>
     \/ /\ db.outbox # None
        /\ item' = [item EXCEPT ![p] = db.outbox]
        /\ Goto(p, "append")
        /\ signerLock' = p
        /\ UNCHANGED <<second, carried, walkVars>>
  /\ UNCHANGED <<db, undone, log, census, censusLock, nextOp, faults>>

\* append_jsonl_once: a retry of the latest operation writes nothing.
AppendOnce(p) ==
  /\ pc[p] = "append"
  /\ \/ /\ Ledger!Latest(item[p].op)
        /\ UNCHANGED log
     \/ Ledger!Publish(item[p].walk, item[p].op)
  /\ Goto(p, IF item[p].walk = None THEN "delete" ELSE "ack")
  /\ UNCHANGED <<db, undone, census, signerLock, censusLock, second, item,
                 carried, walkVars, nextOp, faults>>

\* Fault: a walk already published does not match.
AckMatchesUnpublished(walk) ==
  Complete(census) /\ census.walk = walk /\ ~census.published

AckMatches(walk) == Complete(census) /\ census.walk = walk

\* _acknowledge_census_publication_locked, under the census lock.
Acknowledge(p) ==
  /\ pc[p] = "ack"
  /\ censusLock = NoProc
  /\ \/ /\ AckMatches(item[p].walk)
        /\ census' = [census EXCEPT !.published = TRUE]
        /\ Goto(p, "delete")
        /\ UNCHANGED <<signerLock, censusLock, second, item, carried, walkVars>>
     \/ /\ ~AckMatches(item[p].walk)
        /\ Fail(p)
        /\ UNCHANGED census
  /\ UNCHANGED <<db, undone, log, nextOp, faults>>

AckTimeout(p) == LockTimeout(p, censusLock, "ack")

DeleteRow(p) ==
  /\ pc[p] = "delete"
  /\ db.outbox = item[p]
  /\ Commit([db EXCEPT !.outbox = None])
  /\ signerLock' = NoProc
  /\ IF AfterDrain(p, TRUE) = "idle" THEN EndCycle(p)
       ELSE /\ Goto(p, AfterDrain(p, TRUE))
            /\ item' = [item EXCEPT ![p] = None]
            /\ UNCHANGED <<second, carried, walkVars>>
  /\ UNCHANGED <<log, census, censusLock, nextOp, faults>>

(* run_census                                                              *)

WalkTimeout(p) == LockTimeout(p, censusLock, "census")

\* Fault: a complete walk is replaced before it is published.
ReplaceableUnpublished(c) == Complete(c)

\* A walk whose total is in the ledger makes room for the next one.
Replaceable(c) == Complete(c) /\ c.published

WalkStart(p) ==
  /\ pc[p] = "census" /\ censusLock = NoProc
  /\ Replaceable(census) => census.walk < MaxWalks
  /\ censusLock' = p
  /\ census' = IF Replaceable(census)
                 THEN [walk |-> census.walk + 1, counted |-> {}, published |-> FALSE]
                 ELSE census
  /\ todo' = [todo EXCEPT ![p] = Shard \ census'.counted]
  /\ pass' = [pass EXCEPT ![p] = 1]
  /\ Goto(p, "walk")
  /\ UNCHANGED <<db, undone, log, signerLock, second, item, carried, nextOp, faults>>

\* Beyond the bound on walks an invocation just ends.
WalkBound(p) ==
  /\ pc[p] = "census" /\ censusLock = NoProc
  /\ Replaceable(census) /\ census.walk = MaxWalks
  /\ Fail(p)
  /\ UNCHANGED <<db, undone, log, census, nextOp, faults>>

\* One shard read, in their order; only a good answer changes the saved counts.
ReadShard(p) ==
  /\ pc[p] = "walk"
  /\ \E s \in todo[p] :
       /\ \A t \in todo[p] : s <= t
       /\ todo' = [todo EXCEPT ![p] = @ \ {s}]
       /\ \/ census' = [census EXCEPT !.counted = @ \cup {s}]
          \/ UNCHANGED census
  /\ UNCHANGED <<db, undone, log, signerLock, censusLock, pc, second, item,
                 carried, pass, nextOp, faults>>

\* Fault: one pass too many.
NextPassTooMany(p) ==
  /\ pc[p] = "walk"
  /\ todo[p] = {} /\ ~Complete(census) /\ pass[p] <= MaxPasses
  /\ pass' = [pass EXCEPT ![p] = @ + 1]
  /\ todo' = [todo EXCEPT ![p] = Shard \ census.counted]
  /\ UNCHANGED <<db, undone, log, census, signerLock, censusLock, pc, second,
                 item, carried, nextOp, faults>>

NextPass(p) ==
  /\ pc[p] = "walk"
  /\ todo[p] = {} /\ ~Complete(census) /\ pass[p] < MaxPasses
  /\ pass' = [pass EXCEPT ![p] = @ + 1]
  /\ todo' = [todo EXCEPT ![p] = Shard \ census.counted]
  /\ UNCHANGED <<db, undone, log, census, signerLock, censusLock, pc, second,
                 item, carried, nextOp, faults>>

\* All shards counted, the passes used up, or the deadline reached.
WalkEnd(p) ==
  /\ pc[p] = "walk"
  /\ carried' = [carried EXCEPT ![p] = IF Complete(census) THEN census.walk ELSE None]
  /\ todo' = [todo EXCEPT ![p] = {}]
  /\ pass' = [pass EXCEPT ![p] = 0]
  /\ censusLock' = NoProc
  /\ Goto(p, "collect")
  /\ UNCHANGED <<db, undone, log, census, signerLock, second, item, nextOp, faults>>

(* collect_tick                                                            *)

\* GET /rooms, before the lock, changes nothing unless it fails.
RoomsFail(p) ==
  /\ pc[p] = "collect"
  /\ Fail(p)
  /\ UNCHANGED <<db, undone, log, census, nextOp, faults>>

CollectTimeout(p) == LockTimeout(p, signerLock, "collect")

\* Takes the lock. Phase 1a: refuses a pending outbox, commits the signer metadata.
Begin(p) ==
  /\ pc[p] = "collect" /\ SignerLockFree
  /\ \/ /\ db.outbox # None
        /\ Fail(p)
        /\ UNCHANGED <<db, undone>>
     \/ /\ db.outbox = None
        /\ Commit(db)
        /\ signerLock' = p
        /\ Goto(p, "fetch")
        /\ UNCHANGED <<censusLock, second, item, carried, walkVars>>
  /\ UNCHANGED <<log, census, nextOp, faults>>

\* Every origin read between the two transactions is made under the lock and
\* changes nothing unless it fails.
FetchFails(p) ==
  /\ pc[p] = "fetch"
  /\ Fail(p)
  /\ UNCHANGED <<db, undone, log, census, nextOp, faults>>

\* Phase 3: the collection and its outbox row in one transaction.  If the
\* JSON mirror cannot be saved the cycle fails with the row committed.
CommitTick(p) ==
  /\ pc[p] = "fetch" /\ nextOp <= MaxTicks
  /\ db.outbox = None
  /\ Commit([outbox |-> [op |-> nextOp, walk |-> carried[p]],
             applied |-> Append(db.applied, nextOp)])
  /\ nextOp' = nextOp + 1
  /\ \/ /\ signerLock' = NoProc
        /\ Goto(p, "drain")
        /\ second' = [second EXCEPT ![p] = TRUE]
        /\ carried' = [carried EXCEPT ![p] = None]
        /\ UNCHANGED <<censusLock, item, walkVars>>
     \/ Fail(p)
  /\ UNCHANGED <<log, census, faults>>

-----------------------------------------------------------------------------
(* Faults                                                                  *)

\* The process is killed or one of its system calls fails.
Interrupt(p) ==
  /\ pc[p] # "idle"
  /\ faults < MaxFaults
  /\ faults' = faults + 1
  /\ Fail(p)
  /\ UNCHANGED <<db, undone, log, census, nextOp>>

\* Synced files stay; the database may return to an earlier commit.
PowerLoss ==
  /\ faults < MaxFaults
  /\ faults' = faults + 1
  /\ db' \in {db} \cup {undone[i] : i \in 1..Len(undone)}
  /\ undone' = <<>>
  /\ signerLock' = NoProc /\ censusLock' = NoProc
  /\ pc' = [p \in Procs |-> "idle"]
  /\ second' = [p \in Procs |-> FALSE]
  /\ item' = [p \in Procs |-> None]
  /\ carried' = [p \in Procs |-> None]
  /\ todo' = [p \in Procs |-> {}]
  /\ pass' = [p \in Procs |-> 0]
  /\ UNCHANGED <<log, census, nextOp>>

Step(p) ==
  \/ DrainTimeout(p) \/ Load(p) \/ AppendOnce(p)
  \/ Acknowledge(p) \/ AckTimeout(p) \/ DeleteRow(p)
  \/ WalkTimeout(p) \/ WalkStart(p) \/ WalkBound(p)
  \/ ReadShard(p) \/ NextPass(p) \/ WalkEnd(p)
  \/ RoomsFail(p) \/ CollectTimeout(p) \/ Begin(p) \/ FetchFails(p)
  \/ CommitTick(p)

Next ==
  \/ \E p \in Procs : StartCycle(p) \/ Step(p) \/ Interrupt(p)
  \/ PowerLoss

Spec == Init /\ [][Next]_vars

\* A running process is scheduled; only the daemon (systemd restarts it)
\* is sure to start another cycle.
FairSpec ==
  /\ Spec
  /\ \A p \in Procs : WF_vars(Step(p))
  /\ \A p \in Daemons : WF_vars(StartCycle(p))

-----------------------------------------------------------------------------
(* What the collector promises.                                            *)

Holds(ops, op) == \E k \in DOMAIN ops : ops[k] = op

\* Positions of the ticks that a store with these operations knows nothing of.
Unknown(ops) == {i \in DOMAIN log : ~Holds(ops, log[i].op)}

Published(op) == \E i \in DOMAIN log : log[i].op = op

\* The ledger holds exactly the committed collections, each once and in commit
\* order, but for the last one while its outbox row is waiting (README.md:72-74).
\* Only a power loss that undoes commits leaves ticks of which the store knows
\* nothing. A walk that the census file marks as published has its total in the
\* ledger.
LedgerMatchesStore ==
  LET applied == db.applied
  IN /\ Cardinality(Unknown(applied)) <= faults * MaxLostCommits
     /\ db.outbox # None => applied # <<>> /\ applied[Len(applied)] = db.outbox.op
     /\ \A k \in DOMAIN applied :
          Published(applied[k]) \/ (db.outbox # None /\ k = Len(applied))
     /\ \A i, j \in DOMAIN log, k, l \in DOMAIN applied :
          i < j /\ log[i].op = applied[k] /\ log[j].op = applied[l] => k < l
     /\ census.published => \E i \in DOMAIN log : log[i].user = census.walk

\* run_census never leaves a walk behind whose total no tick has published (a
\* lost slot costs nothing but time).
NoWalkDiscarded ==
  [][census'.walk # census.walk => \E i \in DOMAIN log : log[i].user = census.walk]_census

\* A row whose tick is in the ledger, but whose walk the census file has left
\* behind: a power loss brought it back, or two census invocations overlapped.
Stuck ==
  /\ Published(db.outbox.op)
  /\ db.outbox.walk \notin {None, census.walk}

\* Every committed row is published and removed, whoever committed it, unless
\* it is acknowledged a second time too late (DEPLOY.md 69-72).
OutboxDrained == db.outbox # None ~> db.outbox = None \/ Stuck
-----------------------------------------------------------------------------
(* The inductive invariant. It needs MaxLostCommits <= 2: the removal of a *)
(* row, the metadata and the next row are three commits, and a power loss  *)
(* that undoes them all brings a row back whose tick is not the latest.    *)

\* What a power loss may leave of the database.
Images == {db} \cup {undone[i] : i \in 1..Len(undone)}

Increasing(ops) == \A i, j \in DOMAIN ops : i < j => ops[i] < ops[j]

\* Operations are published in the order in which they are drawn.
LogOK ==
  /\ \A i, j \in DOMAIN log : i < j => log[i].op < log[j].op
  /\ \A i \in DOMAIN log : log[i].op < nextOp

\* A database and the ledger: all but its waiting row is published, and that
\* row not at all or last.
Follows(s) ==
  /\ Increasing(s.applied)
  /\ \A k \in DOMAIN s.applied : s.applied[k] < nextOp
  /\ \A k \in DOMAIN s.applied :
       Published(s.applied[k]) \/ (s.outbox # None /\ k = Len(s.applied))
  /\ s.outbox # None =>
       /\ s.applied # <<>> /\ s.applied[Len(s.applied)] = s.outbox.op
       /\ \A i \in DOMAIN log : /\ log[i].op <= s.outbox.op
                                /\ log[i].op = s.outbox.op => log[i].user = s.outbox.walk

\* No power loss brings back an older row than the one that waits.
OneRow == \A s, t \in Images : s.outbox # None /\ t.outbox # None => s.outbox = t.outbox

\* A commit that is undone takes one operation with it.
Undoable ==
  \A i \in DOMAIN undone :
    LET ops == undone[i].applied
    IN  /\ Len(ops) <= Len(db.applied) /\ Len(db.applied) <= Len(ops) + Len(undone) + 1 - i
        /\ \A k \in DOMAIN ops : ops[k] = db.applied[k]

StoreOK ==
  /\ LogOK /\ OneRow /\ Undoable
  /\ \A s \in Images : Follows(s)
  /\ Cardinality(Unknown(db.applied)) <= faults * MaxLostCommits

CensusOK == census.published => \E i \in DOMAIN log : log[i].user = census.walk

\* A process that publishes holds the lock and the row that waits; one that
\* collects holds it over an empty outbox, after its first commit.
Working(p) ==
  /\ pc[p] \in {"append", "ack", "delete", "fetch"} => signerLock = p
  /\ pc[p] \in {"append", "ack", "delete"} => db.outbox # None /\ item[p] = db.outbox
  /\ pc[p] \in {"ack", "delete"} => Published(item[p].op)
  /\ pc[p] = "fetch" =>
       db.outbox = None /\ (undone # <<>> => undone[Len(undone)].outbox = None)

OInv == TypeOK /\ StoreOK /\ CensusOK /\ \A p \in Procs : Working(p)
=============================================================================
