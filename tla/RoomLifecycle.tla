--------------------------- MODULE RoomLifecycle ---------------------------
(***************************************************************************)
(* The room lifecycle of collect.py: a collection records the rooms whose  *)
(* creation it observes, schedules one check per room and stage, credits   *)
(* the newest listed generation of a room, selects due checks under a read *)
(* budget, reads them from the origin without a transaction open, and      *)
(* commits everything at once.  Triggers keep cumulative counters of the   *)
(* checks; the published coverage combines them with a scan of the checks  *)
(* whose class can still change.                                           *)
(*                                                                         *)
(* Every collector first reads the room listing, then takes the signer     *)
(* lock, reads the event window, plans, reads the selected checks, and     *)
(* commits.  The clock may step backwards, reads take any time, and room   *)
(* names are created again while a tick is under way.                      *)
(*                                                                         *)
(* Abstractions: a room generation is its event sequence number; times are *)
(* small numbers; the second sender is all that is kept of a room's        *)
(* messages; ranks are arbitrary, so any selection that the allocation     *)
(* allows may be made; of an attempt's time only its being timely is kept. *)
(***************************************************************************)
EXTENDS Integers, Sequences, FiniteSets, FiniteSetsExt

CONSTANTS
  Procs, NoProc,
  Names,            \* room names
  Classes,          \* the four concrete second-sender classes
  SecondSender,     \* class of the second message of each generation
  Stages,           \* ROOM_REVISIT_STAGES_SECONDS
  ReadBudget,       \* ROOM_REVISIT_READ_BUDGET
  BatchLimit,       \* ROOM_REVISIT_PUBLICATION_BATCH_LIMIT
  FinalizationLimit,\* ROOM_REVISIT_AGED_OUT_FINALIZATION_LIMIT
  Window,           \* events in one response of the origin
  ClockLead,        \* ORIGIN_CLOCK_TOLERANCE
  MaxTime,          \* bound: the clock
  CreationTimes,    \* bound: when the k-th creation may happen
  MaxEvents,        \* bound: creations
  MaxSteps          \* bound: backward steps of the clock

ASSUME ConstantsAssumption ==
  /\ NoProc \notin Procs
  /\ IsFiniteSet(Stages) /\ Stages # {} /\ Stages \subseteq Nat \ {0}
  /\ Classes \cap {"none", "notObserved"} = {}
  /\ SecondSender \in [1..MaxEvents -> Classes]
  /\ CreationTimes \in [1..MaxEvents -> SUBSET (0..MaxTime)]
  /\ {ReadBudget, ClockLead, MaxTime, MaxEvents, MaxSteps} \subseteq Nat
  /\ BatchLimit > ReadBudget /\ FinalizationLimit \in Nat \ {0} /\ Window \in Nat \ {0}

VARIABLES
  now, steps,   \* the wall clock, how often it stepped back
  events,       \* the origin: creations [name, created] by sequence number
  store,        \* the room tables, their rollup, and the lifecycle metadata
  listing,      \* the room listing that each collector holds
  tick          \* the tick of the collector that holds the signer lock

vars == <<now, steps, events, store, listing, tick>>

Never == -1
Time == 0..(MaxTime + ClockLead)
Seq_ == 1..MaxEvents
Check == Seq_ \X Stages

Seconds == Classes \cup {"none", "notObserved"}
Outcomes == {"pending", "present", "absent", "failed", "superseded", "agedOut"}
Row == [outcome : Outcomes, timely : BOOLEAN, second : Seconds]
PendingRow == [outcome |-> "pending", timely |-> FALSE, second |-> "none"]

WholeCounters == {"rooms", "revisited", "successful", "spoken", "attempted",
                  "failed", "notObserved"} \cup Classes
StageCounters == {"finalized", "completed", "failed", "late", "present", "spoken"}
Counters == ({0} \X WholeCounters) \cup (Stages \X StageCounters)

CoverageClasses == {"completed", "failed", "late", "ineligible", "superseded",
                    "agedOut", "deferred"}

NoListing == [at |-> Never, names |-> {}]
Idle == [owner |-> NoProc, ts |-> 0, created |-> {}, credited |-> {}, selected |-> {},
         superseded |-> {}, agedOut |-> {}, results |-> <<>>]

\* The rows read so far, by check.
Readings == UNION {[checks -> Row] : checks \in SUBSET Check}

\* A collection between its plan and its commit.
Tick == [owner : Procs \cup {NoProc}, ts : Time,
         created : SUBSET Seq_, credited : SUBSET Seq_,
         selected : SUBSET Check, superseded : SUBSET Check, agedOut : SUBSET Check,
         results : Readings]

TypeOK ==
  /\ now \in 0..MaxTime /\ steps \in 0..MaxSteps
  /\ events \in Seq([name : Names, created : Time])
  /\ Len(events) <= MaxEvents
  /\ DOMAIN store.rooms = DOMAIN store.checks /\ DOMAIN store.rooms \subseteq DOMAIN events
  /\ \A k \in DOMAIN store.rooms :
       store.rooms[k] \in Time \cup {Never} /\ store.checks[k] \in [Stages -> Row]
  /\ store.totals \in [Counters -> Nat]
  /\ store.rotation \in 0..(Cardinality(Stages) - 1)
  /\ {store.updated, store.listed} \subseteq Time \cup {Never}
  /\ listing \in [Procs -> [at : Time \cup {Never}, names : SUBSET Names]]
  /\ tick \in Tick /\ DOMAIN tick.results \subseteq tick.selected

Init ==
  /\ now = 0 /\ steps = 0
  /\ events = <<>>
  /\ store = [rooms |-> <<>>, checks |-> <<>>, totals |-> [x \in Counters |-> 0],
              rotation |-> 0, updated |-> Never, listed |-> Never]
  /\ listing = [p \in Procs |-> NoListing]
  /\ tick = Idle

-----------------------------------------------------------------------------
(* Rooms, generations and due checks. *)

Due(k, s) == events[k].created + s
WindowEnd(k, s) == Due(k, s) + s

\* Variant: an older generation of the room supersedes a newer one.
NewerCreatedEither(rooms, k, at) ==
  {events[j].created : j \in {i \in rooms :
     i # k /\ events[i].name = events[k].name /\ events[i].created <= at}}

\* Creation times of newer generations of room k that have happened by `at'.
NewerCreated(rooms, k, at) ==
  {events[j].created : j \in {i \in rooms :
     i > k /\ events[i].name = events[k].name /\ events[i].created <= at}}

Outcome(k, s) == IF k \in DOMAIN store.checks THEN store.checks[k][s].outcome ELSE "pending"

\* Variant: a check that failed is due again.
DueChecksRetrying(known, at) ==
  {c \in known \X Stages :
     Outcome(c[1], c[2]) \in {"pending", "failed"} /\ Due(c[1], c[2]) <= at}

\* `known': the room ledger overlaid with the rooms this tick will insert.
DueChecks(known, at) ==
  {c \in known \X Stages : Outcome(c[1], c[2]) = "pending" /\ Due(c[1], c[2]) <= at}

SupersededIn(rooms, k, s, at) ==
  \E t \in NewerCreated(rooms, k, at) : t < WindowEnd(k, s)

SupersededChecks(known, at) ==
  {c \in DueChecks(known, at) : SupersededIn(known, c[1], c[2], at)}
AgedOutChecks(known, at) ==
  {c \in DueChecks(known, at) \ SupersededChecks(known, at) : at >= WindowEnd(c[1], c[2])}
ActiveChecks(known, at) ==
  DueChecks(known, at) \ (SupersededChecks(known, at) \cup AgedOutChecks(known, at))

\* The first n checks in due-time order; equal due times leave a choice.
FirstDue(checks, n) ==
  {F \in SUBSET checks :
     /\ Cardinality(F) = Min({n, Cardinality(checks)})
     /\ \A c \in F, d \in checks \ F : Due(c[1], c[2]) <= Due(d[1], d[2])}

\* Every stage has an equal share of the budget; what does not divide goes
\* to the stages that follow the rotation.
Allocation(s) ==
  LET n == Cardinality(Stages)
      index == Cardinality({u \in Stages : u < s})
      extra == \E offset \in 0..((ReadBudget % n) - 1) :
                 index = (store.rotation + 1 + offset) % n
  IN ReadBudget \div n + (IF extra THEN 1 ELSE 0)

OfStage(checks, s) == {c \in checks : c[2] = s}

\* Any ranking: the stages' shares first, unused slots to what remains.
Selections(active) ==
  LET initial == {F \in SUBSET active : \A s \in Stages :
                    Cardinality(OfStage(F, s)) =
                      Min({Allocation(s), Cardinality(OfStage(active, s))})}
  IN UNION {{F \cup R : R \in
       kSubset(Min({ReadBudget - Cardinality(F), Cardinality(active \ F)}), active \ F)}
       : F \in initial}

-----------------------------------------------------------------------------
(* The counters kept by triggers, and the coverage computed with them. *)

One(condition) == IF condition THEN 1 ELSE 0
Attempted(row) == row.outcome \in {"present", "absent", "failed"}

WholeTally(rows) ==
  LET present == {s \in Stages : rows[s].outcome = "present"}
      heard == {rows[s].second : s \in present}
      failed == {s \in Stages : rows[s].outcome = "failed"}
      attempted == {s \in Stages : Attempted(rows[s])}
  IN [x \in WholeCounters |->
        CASE x = "rooms"       -> 1
          [] x = "revisited"   -> One(attempted # {})
          [] x = "successful"  -> One(present # {})
          [] x = "spoken"      -> One(heard \ {"none"} # {})
          [] x = "attempted"   -> Cardinality(attempted)
          [] x = "failed"      -> Cardinality(failed)
          [] x = "notObserved" -> One("notObserved" \in heard /\ heard \cap Classes = {})
          [] OTHER             -> One(x \in heard)]

StageTally(row) ==
  [finalized |-> One(row.outcome = "agedOut"),
   completed |-> One(row.outcome \in {"present", "absent"} /\ row.timely),
   failed    |-> One(row.outcome = "failed" /\ row.timely),
   late      |-> One(Attempted(row) /\ ~row.timely),
   present   |-> One(row.outcome = "present" /\ row.timely),
   spoken    |-> One(row.outcome = "present" /\ row.second # "none" /\ row.timely)]

\* What one room contributes to each counter.
Tally(rows) ==
  LET whole == WholeTally(rows)
      stage == [s \in Stages |-> StageTally(rows[s])]
  IN [x \in Counters |-> IF x[1] = 0 THEN whole[x[2]] ELSE stage[x[1]][x[2]]]

\* Variant: a change of a row only adds, as an insertion does.
RollupAdding(totals, old, new, touched) ==
  [x \in Counters |-> totals[x] + SumFunction([k \in touched |-> Tally(new[k])[x]])]

\* The triggers: the room's contribution is subtracted before a row of it
\* changes, and added again after.
Rollup(totals, old, new, touched) ==
  LET before == [k \in touched |-> IF k \in DOMAIN old THEN Tally(old[k])
                                   ELSE [x \in Counters |-> 0]]
      after == [k \in touched |-> Tally(new[k])]
  IN [x \in Counters |->
        totals[x] + SumFunction([k \in touched |-> after[k][x] - before[k][x]])]

\* Class of a check that is due at `at' and not terminal.
ScanClass(rooms, k, s, at) ==
  LET newer == NewerCreated(rooms, k, at)
  IN IF \E t \in newer : t <= Due(k, s) THEN "ineligible"
     ELSE IF \E t \in newer : t < WindowEnd(k, s) THEN "superseded"
     ELSE IF at >= WindowEnd(k, s) THEN "agedOut"
     ELSE "deferred"

\* Terminal checks come from the counters, the others from the scan.
StageCoverage(checks, totals, at) ==
  LET scanned(s, c) == {k \in DOMAIN checks :
        /\ checks[k][s].outcome \in {"pending", "superseded"}
        /\ Due(k, s) <= at
        /\ ScanClass(DOMAIN checks, k, s, at) = c}
      counted == [completed |-> "completed", failed |-> "failed",
                  late |-> "late", agedOut |-> "finalized"]
  IN [s \in Stages |-> [c \in CoverageClasses |->
        Cardinality(scanned(s, c)) +
          (IF c \in DOMAIN counted THEN totals[<<s, counted[c]>>] ELSE 0)]]

\* The coverage that the tick which changed the store last has published.
Published == StageCoverage(store.checks, store.totals, store.updated)

-----------------------------------------------------------------------------
(* The origin and the clock. *)

Advance ==
  /\ now < MaxTime /\ now' = now + 1
  /\ UNCHANGED <<steps, events, store, listing, tick>>

StepBack ==
  /\ steps < MaxSteps /\ now > 0
  /\ now' = now - 1 /\ steps' = steps + 1
  /\ UNCHANGED <<events, store, listing, tick>>

\* A room is created, or created again; the origin's clock may lead.
Create ==
  /\ Len(events) < MaxEvents /\ now \in CreationTimes[Len(events) + 1]
  /\ \E name \in Names, lead \in 0..ClockLead :
       events' = Append(events, [name |-> name, created |-> now + lead])
  /\ UNCHANGED <<now, steps, store, listing, tick>>

\* The generation that holds a name now.
Current(name) == Max({j \in DOMAIN events : events[j].name = name})

-----------------------------------------------------------------------------
(* One tick of a collector. *)

\* collect_tick reads the room listing before it takes the signer lock.
\* Collections before the first creation, which only store times, are left
\* out, and every room stays listed.
ReadListing(p) ==
  /\ listing[p] = NoListing /\ events # <<>>
  /\ listing' = [listing EXCEPT ![p] =
                   [at |-> now, names |-> {events[j].name : j \in DOMAIN events}]]
  /\ UNCHANGED <<now, steps, events, store, tick>>

\* The lock is released and the collector's tick is over.
EndTick ==
  /\ tick' = Idle
  /\ listing' = [listing EXCEPT ![tick.owner] = NoListing]

\* The newest events, as many as one response holds.
EventWindow == {k \in DOMAIN events : k > Len(events) - Window}

\* plan_created_rooms and plan_listed_rooms raise.
PlanRefused(p) ==
  \/ \E k \in EventWindow : events[k].created > now + ClockLead
  \/ listing[p].at < store.listed

\* A listed name is credited to its newest generation visible at the listing.
CreditedRooms(known, list) ==
  LET visible(name) == {k \in known : events[k].name = name /\ events[k].created <= list.at}
  IN {Max(visible(name)) : name \in {n \in list.names : visible(n) # {}}}

\* A collector that got the signer lock has nothing to wait for but the origin.
GetsLock(p) == listing[p] # NoListing /\ tick = Idle

\* The event window is read and the whole tick is planned from it.
Plan(p) ==
  /\ GetsLock(p) /\ ~PlanRefused(p)
  /\ LET created == EventWindow \ DOMAIN store.rooms
         known == DOMAIN store.rooms \cup created
     IN \E selected \in Selections(ActiveChecks(known, now)) :
        \E superseded \in FirstDue(SupersededChecks(known, now),
                                   BatchLimit - Cardinality(selected)) :
        \E agedOut \in FirstDue(AgedOutChecks(known, now), FinalizationLimit) :
          tick' = [owner |-> p, ts |-> now, created |-> created,
                   credited |-> CreditedRooms(known, listing[p]),
                   selected |-> selected, superseded |-> superseded,
                   agedOut |-> agedOut, results |-> <<>>]
  /\ UNCHANGED <<now, steps, events, store, listing>>

Refused(p) ==
  /\ GetsLock(p) /\ PlanRefused(p)
  /\ listing' = [listing EXCEPT ![p] = NoListing]
  /\ UNCHANGED <<now, steps, events, store, tick>>

\* What a read of a name can show: the room that holds the name now, whose
\* second message is or is not there, or has left the transcript.
Evidence(name) ==
  [outcome : {"absent", "failed"}, second : {"none"}]
    \cup [outcome : {"present"},
          second : {"none", SecondSender[Current(name)], "notObserved"}]

Unread == tick.selected \ DOMAIN tick.results

\* One selected check is read; an attempt before its due time raises.
Read ==
  /\ \E c \in Unread : \E e \in Evidence(events[c[1]].name) :
       /\ now >= Due(c[1], c[2])
       /\ tick' = [tick EXCEPT
            !.results = [d \in DOMAIN tick.results \cup {c} |->
                           IF d = c THEN [outcome |-> e.outcome, second |-> e.second,
                                          timely |-> now < WindowEnd(c[1], c[2])]
                           ELSE tick.results[d]]]
  /\ UNCHANGED <<now, steps, events, store, listing>>

EarlyAttempt ==
  /\ \E c \in Unread : now < Due(c[1], c[2])
  /\ EndTick
  /\ UNCHANGED <<now, steps, events, store>>

\* Variant: the finalization matches no row.
NewRowUnfinalized(k, s) ==
  LET c == <<k, s>>
  IN IF c \in DOMAIN tick.results THEN tick.results[c]
     ELSE IF c \in tick.superseded THEN [PendingRow EXCEPT !.outcome = "superseded"]
     ELSE IF k \in tick.created THEN PendingRow ELSE store.checks[k][s]

\* The row of check <<k, s>> after the tick's inserts and updates.
NewRow(k, s) ==
  LET c == <<k, s>>
  IN CASE c \in DOMAIN tick.results -> tick.results[c]
       [] c \in tick.superseded -> [PendingRow EXCEPT !.outcome = "superseded"]
       [] c \in tick.agedOut    -> [PendingRow EXCEPT !.outcome = "agedOut"]
       [] OTHER -> IF k \in tick.created THEN PendingRow ELSE store.checks[k][s]

NewChecks ==
  [k \in DOMAIN store.rooms \cup tick.created |-> [s \in Stages |-> NewRow(k, s)]]

\* The concrete second-sender classes of a room's checks.
Heard(rows) == {rows[s].second : s \in Stages} \cap Classes

\* Variant: ticks may be committed in any order of their times.
CommitRefusedUnordered ==
  \/ \E c \in tick.superseded : now < Due(c[1], c[2])
  \/ \E c \in tick.agedOut : now < WindowEnd(c[1], c[2])
  \/ \E k \in DOMAIN NewChecks : Cardinality(Heard(NewChecks[k])) > 1

\* The triggers abort the transaction, or update_signer_state raises.  The
\* guards against a change of a settled check, against a supersession without
\* a newer room and against counters that disagree are left out: RoomsAdvance,
\* SupersededJustified and RollupExact show that no tick meets them.
CommitRefused ==
  \/ \E c \in tick.superseded : now < Due(c[1], c[2])
  \/ \E c \in tick.agedOut : now < WindowEnd(c[1], c[2])
  \/ \E k \in DOMAIN NewChecks : Cardinality(Heard(NewChecks[k])) > 1
  \/ tick.ts < store.updated

\* Rooms of which some row is inserted or updated.
Touched ==
  tick.created \cup {c[1] : c \in DOMAIN tick.results \cup tick.superseded \cup tick.agedOut}

\* The whole tick is applied in one transaction.  Reads that were not issued
\* before the tick's deadline stay pending.
Commit ==
  /\ tick # Idle /\ EndTick /\ ~CommitRefused
  /\ LET checks == NewChecks
         totals == Rollup(store.totals, store.checks, checks, Touched)
     IN store' =
             [rooms |-> [k \in DOMAIN checks |->
                 IF k \in tick.credited THEN listing[tick.owner].at
                 ELSE IF k \in tick.created THEN Never ELSE store.rooms[k]],
              checks |-> checks, totals |-> totals,
              rotation |-> (store.rotation + 1) % Cardinality(Stages),
              updated |-> tick.ts, listed |-> listing[tick.owner].at]
  /\ UNCHANGED <<now, steps, events>>

RolledBack ==
  /\ tick # Idle /\ EndTick /\ CommitRefused
  /\ UNCHANGED <<now, steps, events, store>>

\* A kill, a failed read of the events or the lobby, a lock that timed out.
Abandon(p) ==
  /\ listing[p] # NoListing
  /\ listing' = [listing EXCEPT ![p] = NoListing]
  /\ tick' = IF tick.owner = p THEN Idle ELSE tick
  /\ UNCHANGED <<now, steps, events, store>>

Next ==
  \/ \E p \in Procs : ReadListing(p) \/ Plan(p) \/ Refused(p)
  \/ Read \/ EarlyAttempt \/ Commit \/ RolledBack
  \/ Advance \/ StepBack \/ Create
  \/ \E p \in Procs : Abandon(p)

Spec == Init /\ [][Next]_vars

\* Time passes, collections are started for ever, and not every one of them is
\* interrupted before its plan or after it: it commits, or is rolled back.
FairSpec ==
  /\ Spec /\ WF_vars(Advance)
  /\ \A p \in Procs : WF_vars(ReadListing(p)) /\ SF_vars(Plan(p) \/ Refused(p))
  /\ SF_vars(EarlyAttempt \/ RolledBack \/ Commit)

-----------------------------------------------------------------------------
(* Properties. *)

\* The store is well formed, and the counters kept by triggers are those
\* recomputed from the source rows (verify_lifecycle_rollup), after any
\* sequence of ticks.
RollupExact ==
  LET tally == [k \in DOMAIN store.checks |-> Tally(store.checks[k])]
  IN  /\ TypeOK
      /\ store.totals = [x \in Counters |->
                           SumFunction([k \in DOMAIN tally |-> tally[k][x]])]

\* The class of a check in the per-row computation that the counters replace.
RowClass(k, s, at) ==
  LET row == store.checks[k][s]
  IN IF row.outcome = "agedOut" THEN "agedOut"
     ELSE IF Attempted(row)
          THEN IF ~row.timely THEN "late"
               ELSE IF row.outcome = "failed" THEN "failed" ELSE "completed"
     ELSE ScanClass(DOMAIN store.checks, k, s, at)

\* The published coverage puts every check that was due when the tick was
\* selected in exactly the class that looking at all rows would give it.
CoverageExact ==
  LET class == [k \in DOMAIN store.checks |-> [s \in Stages |->
                  IF Due(k, s) <= store.updated THEN RowClass(k, s, store.updated)
                  ELSE "future"]]
  IN Published = [s \in Stages |-> [c \in CoverageClasses |->
                    Cardinality({k \in DOMAIN class : class[k][s] = c})]]

\* A check is recorded as superseded only if the ledger has a newer
\* generation of the room, created before the check's window closed.
SupersededJustified ==
  \A k \in DOMAIN store.checks, s \in Stages :
    store.checks[k][s].outcome = "superseded" =>
      \E j \in DOMAIN store.rooms :
        j > k /\ events[j].name = events[k].name /\ events[j].created < WindowEnd(k, s)

\* What ticks have settled stays so, whichever collector commits first and
\* whatever the clock does: a check with an outcome is neither read again nor
\* finalized otherwise, and the listing time of a room never goes back.
RoomsAdvance ==
  [][\A k \in DOMAIN store.checks :
       /\ store'.rooms[k] >= store.rooms[k]
       /\ \A s \in Stages : store.checks[k][s].outcome # "pending" =>
            store'.checks[k][s] = store.checks[k][s]]_vars

\* Every scheduled check of a recorded room whose window closes before the clock
\* stops gets an outcome, although reads may be starved by the budget and a tick
\* that learns of two different second senders of a room, because the name was
\* taken by another room in the meantime, is rolled back as a whole.
ChecksSettle ==
  <>[](\A k \in DOMAIN store.checks, s \in Stages :
         WindowEnd(k, s) <= MaxTime => store.checks[k][s].outcome # "pending")

=============================================================================
