-------------------------- MODULE TelemetryWriters --------------------------
(***************************************************************************)
(* The processes that write the telemetry store: the collector's loop      *)
(* (main in collect.py) and the one-shot pulse probe (pulse_probe.py),     *)
(* both through the origin client (class Client in collect.py), whose      *)
(* retry loop is modelled with the time that it has left.                  *)
(*                                                                         *)
(* An action is what a process does between two points where the other     *)
(* can come in: a query that decides about a later statement, a committed  *)
(* transaction, an answer of the origin.                                   *)
(***************************************************************************)
EXTENDS Telemetry, SequencesExt

CONSTANTS
  Collectors, Pulses,
  OldCycles, OldAttempts, OldSnapshots,  \* what earlier cycles left
  Timeout,       \* --timeout, in units of a request's time
  Delays,        \* what Retry-After, a 429 body or 2**attempt may ask to wait
  Deadlines,     \* deadlines of requests; None for those without
  MaxRetries,    \* --retries of the collector
  MaxRequests,   \* requests of a collector cycle
  MaxCycles,     \* cycles of all processes
  StartTime, MaxNow, \* first and last time of the clock
  MaxFaults      \* storage errors and kills

ASSUME WritersAssumption ==
  /\ Collectors \cap Pulses = {} /\ Metered \cap Discovery = {}
  /\ IsFiniteSet(Discovery) /\ None \notin Nat
  /\ Timeout \in Nat \ {0} /\ Delays \subseteq Nat
  /\ Deadlines \subseteq Nat \cup {None} /\ MaxRetries \in Nat
  /\ MaxRequests \in Nat /\ MaxCycles \in Nat /\ MaxFaults \in Nat
  /\ StartTime \in Nat /\ MaxNow \in Nat /\ StartTime <= MaxNow

\* What earlier cycles left: rows that refer to rows, cycles that ended after
\* they began, and a newest cycle that has not expired.
ASSUME OldAssumption ==
  /\ Ids(OldCycles) /\ Ids(OldAttempts) /\ Ids(OldSnapshots)
  /\ \A i \in DOMAIN OldCycles : OldCycles[i] \in Cycle
  /\ \A i \in DOMAIN OldAttempts :
       OldAttempts[i] \in Attempt /\ OldAttempts[i].cycle \in DOMAIN OldCycles
  /\ \A i \in DOMAIN OldSnapshots :
       OldSnapshots[i] \in Snapshot /\ OldSnapshots[i].attempt \in DOMAIN OldAttempts
  /\ Dated(OldCycles, StartTime) /\ NewestFresh(OldCycles, StartTime)

VARIABLES
  st,         \* the processes
  started,    \* cycles begun so far (bounded by MaxCycles)
  faults,     \* storage errors and kills so far
  evicted,    \* history: cycles with a try that a nearly full file did not keep
  abandoned,  \* history: cycles whose writer was killed, lost the store or met
              \* a try of its own that had been evicted
  unrecorded, \* history: cycles with a try that could not be recorded
  seen        \* history: per discovery route, the digests it went through

vars == <<now, tables, st, started, faults, evicted, abandoned, unrecorded, seen>>
history == <<evicted, abandoned, unrecorded, seen>>

Writers == Collectors \cup Pulses
Source(w) == IF w \in Collectors THEN "collector" ELSE "pulse_probe"
Retries(w) == IF w \in Collectors THEN MaxRetries ELSE 0

Selections == [of : {"snapshots", "attempts", "cycles"}, ids : SUBSET Nat]
NoSelection == [of |-> "cycles", ids |-> {}]

\* pressed: under_pressure of prune; store: the TelemetryStore is open; client:
\* the Client still uses it (telemetry_degraded is its negation); last:
\* last_attempt_id; try and left: retries made and time left of the current
\* request; todo: requests before the cycle ends; failed: the cycle has failed.
Fresh == [pc |-> "idle", at |-> 0, cyc |-> None, sel |-> NoSelection,
          pressed |-> FALSE, store |-> TRUE, client |-> TRUE, last |-> None, route |-> Health,
          try |-> 0, left |-> None, digest |-> None, todo |-> <<>>,
          failed |-> FALSE]

Queries == {"pages", "attempts", "cycles"}
Starting == Queries \cup {"idle", "delete", "insert"}
Steps == Starting \cup {"go", "get", "parse", "mark",
          "snap", "abort"}

Writer == [pc : Steps, at : Nat, cyc : Nat \cup {None}, sel : Selections,
           pressed : BOOLEAN, store : BOOLEAN, client : BOOLEAN,
           last : Nat \cup {None}, route : Routes, try : 0..MaxRetries,
           left : Nat \cup {None}, digest : Digests \cup {None},
           todo : Seq(Routes), failed : BOOLEAN]

TypeOK ==
  /\ now \in 0..MaxNow
  /\ \A i \in DOMAIN cycles : cycles[i] \in Cycle
  /\ \A i \in DOMAIN attempts :
       attempts[i] \in Attempt /\ attempts[i].cycle \in DOMAIN cycles
  /\ \A i \in DOMAIN snapshots :
       snapshots[i] \in Snapshot /\ snapshots[i].attempt \in DOMAIN attempts
  /\ st \in [Writers -> Writer]
  /\ started \in 0..MaxCycles /\ faults \in 0..MaxFaults
  /\ evicted \subseteq Nat /\ abandoned \subseteq Nat /\ unrecorded \subseteq Nat
  /\ seen \in [Discovery -> Seq(Digests)]

\* The digests that are stored for a route, in the order of the ids, each once
\* per change.
Stored(route) ==
  LET ids == OfRoute(snapshots, route) \ Duplicates(snapshots)
  IN  [k \in 1..Cardinality(ids) |-> snapshots[Nth(ids, k)].digest]

Init ==
  /\ now = StartTime
  /\ cycles = OldCycles /\ attempts = OldAttempts /\ snapshots = OldSnapshots
  /\ st = [w \in Writers |-> Fresh]
  /\ started = 0 /\ faults = 0
  /\ evicted = {} /\ abandoned = {} /\ unrecorded = {}
  /\ seen = [r \in Discovery |-> Stored(r)]

-----------------------------------------------------------------------------
(* Helpers.                                                                *)

At(w, step) == st[w].pc = step
To(w, new) == st' = [st EXCEPT ![w] = new]

\* A statement succeeds if it can, and may always fail for other reasons (the
\* database stays locked, the disk fails): sqlite3.Error.
Works(can) == can /\ UNCHANGED faults
Raises(can) == \/ ~can /\ UNCHANGED faults
               \/ faults < MaxFaults /\ faults' = faults + 1

\* The process ends or closes the store; the next one begins afresh.
Exit(w) == To(w, Fresh)
CloseStore(w) == To(w, [Fresh EXCEPT !.store = w \in Pulses])
Abandon(w) == abandoned' = abandoned \cup ({st[w].cyc} \ {None})

-----------------------------------------------------------------------------
(* start_cycle: prune, then the new row.                                   *)

\* A query of prune: the ids it finds are deleted later, in a transaction; if
\* there are none, the process goes on, and another may commit before it does.
Selected(w, s, table, ids, next) ==
  To(w, IF ids = {} THEN [s EXCEPT !.pc = next]
        ELSE [s EXCEPT !.pc = "delete", !.sel = [of |-> table, ids |-> ids]])

\* The collector's loop and the timer of the probe, which does not start a
\* probe while one runs; prune looks for duplicates ...
Begin(w) ==
  /\ At(w, "idle") /\ st[w].store /\ started < MaxCycles
  /\ started' = started + 1
  /\ \/ /\ Selected(w, [Fresh EXCEPT !.at = now], "snapshots", DuplicateBatch(snapshots), "pages")
        /\ UNCHANGED faults
     \/ Raises(TRUE) /\ CloseStore(w)
  /\ UNCHANGED <<now, tables, history>>

\* ... counts the pages ...
CountPages(w) ==
  /\ At(w, "pages")
  /\ To(w, [st[w] EXCEPT !.pc = "attempts", !.pressed = UnderPressure(attempts, snapshots)])
  /\ UNCHANGED <<now, tables, started, faults, history>>

\* ... and looks for expired attempts ...
SelectAttempts(w) ==
  /\ At(w, "attempts")
  /\ Selected(w, st[w], "attempts",
              AttemptBatch(attempts, snapshots, st[w].pressed, st[w].at), "cycles")
  /\ UNCHANGED <<now, tables, started, faults, history>>

\* ... and for expired cycles.
SelectCycles(w) ==
  /\ At(w, "cycles")
  /\ Selected(w, [st[w] EXCEPT !.pressed = FALSE], "cycles",
              CycleBatch(cycles, attempts, st[w].at), "insert")
  /\ UNCHANGED <<now, tables, started, faults, history>>

\* The pages that the choice of attempts was made with.
Pressed(w) ==
  IF st[w].sel.of = "snapshots" THEN UnderPressure(attempts, snapshots') ELSE st[w].pressed

PruneDelete(w) ==
  /\ At(w, "delete")
  /\ Works(~Restricted(st[w].sel))
  /\ Prune(st[w].sel, st[w].at)
  /\ evicted' = evicted \cup
       IF Pressed(w) THEN {attempts[i].cycle : i \in DOMAIN attempts \ DOMAIN attempts'} ELSE {}
  /\ To(w, [st[w] EXCEPT !.pc = "insert", !.sel = NoSelection, !.pressed = FALSE])
  /\ UNCHANGED <<now, started, abandoned, unrecorded, seen>>

StartCycle(w) ==
  /\ At(w, "insert")
  /\ Works(HasRoom)
  /\ InsertCycle(Source(w), st[w].at)
  /\ \E n \in 1..MaxRequests, r \in Metered :
       To(w, [st[w] EXCEPT !.pc = "go", !.cyc = NextId(cycles),
                !.todo = IF w \in Collectors THEN [i \in 1..n |-> r]
                         ELSE <<Health>> \o SetToSeq(Discovery)])
  /\ evicted' = evicted \ {NextId(cycles)}
  /\ abandoned' = abandoned \ {NextId(cycles)}
  /\ unrecorded' = unrecorded \ {NextId(cycles)}
  /\ UNCHANGED <<now, started, seen>>

\* The collector goes on without telemetry until it is restarted, the probe
\* ends; closing the connection rolls the transaction back.
StartFails(w) ==
  /\ \/ st[w].pc \in Queries /\ Raises(TRUE)
     \/ At(w, "delete") /\ Raises(~Restricted(st[w].sel))
     \/ At(w, "insert") /\ Raises(HasRoom)
  /\ CloseStore(w)
  /\ UNCHANGED <<now, tables, started, history>>

-----------------------------------------------------------------------------
(* Client.get.                                                             *)

\* The next request; the probe asks the discovery routes that are due.
Request(w) ==
  /\ At(w, "go") /\ st[w].todo # <<>>
  /\ LET r == Head(st[w].todo) rest == Tail(st[w].todo)
     IN  IF r \in Discovery /\ ~RouteDue(r, st[w].at)
         THEN To(w, [st[w] EXCEPT !.todo = rest])
         ELSE \E d \in (IF w \in Collectors THEN Deadlines ELSE {None}) :
                To(w, [st[w] EXCEPT !.pc = "get", !.todo = rest, !.route = r,
                         !.last = None, !.try = 0, !.left = d])
  /\ UNCHANGED <<now, tables, started, faults, history>>

\* What the origin may answer and what get makes of it: the outcome that is
\* recorded, and whether get may try again.
Answers ==
  {[outcome |-> "success", retry |-> FALSE],           \* a decoded body
   [outcome |-> "invalid_response", retry |-> FALSE],  \* too long, a redirect
   [outcome |-> "failed", retry |-> FALSE],            \* empty, 4xx
   [outcome |-> "failed", retry |-> TRUE]}             \* 429, 5xx, undecodable,
                                                       \* a timeout, no transport

\* The request is over.
Done(s) == [s EXCEPT !.pc = "go", !.try = 0, !.left = None, !.last = None,
                     !.route = Health, !.digest = None]

\* The caller of a request that failed: the probe notes the failure and goes
\* on; so do the collector's census, sampling and revisit stages, while its
\* other stages end the tick.
GoesOn(w, r) ==
  LET s == Done(r) IN
  \/ w \in Pulses /\ To(w, [s EXCEPT !.failed = TRUE])
  \/ w \in Collectors /\ To(w, s)
  \/ w \in Collectors /\ To(w, [s EXCEPT !.todo = <<>>, !.failed = TRUE])

\* The probe marks the try of an invalid discovery response once more.
Raised(w, s, outcome) ==
  IF /\ w \in Pulses /\ s.route \in Discovery
     /\ outcome = "invalid_response" /\ s.last # None
  THEN To(w, [s EXCEPT !.pc = "mark"])
  ELSE GoesOn(w, s)

\* A retry is only worth waiting for if it can begin before the deadline.
WorthWaiting(left, delay) == left = None \/ delay < left

\* What get does with an answer that took `spent`: it returns the body, waits
\* for another try, or raises.
Decided(w, s, answer, spent, delay) ==
  LET left == IF s.left = None THEN None ELSE s.left - spent
  IN  IF answer.outcome = "success" THEN To(w, [s EXCEPT !.pc = "parse", !.try = 0, !.left = None])
      ELSE IF answer.retry /\ s.try < Retries(w) /\ WorthWaiting(left, delay)
      THEN To(w, [s EXCEPT !.try = @ + 1,
                           !.left = IF left = None THEN None ELSE left - delay])
      ELSE Raised(w, s, answer.outcome)

\* One turn of the retry loop: the try, its record and what follows from it.
\* _record_attempt swallows a storage error and the Client forgets the store.
Try(w) ==
  /\ At(w, "get") /\ st[w].left # 0
  /\ \E answer \in Answers, delay \in Delays,
        spent \in 0..(IF st[w].left = None THEN 0 ELSE Min({Timeout, st[w].left})) :
       \/ /\ st[w].client /\ Works(HasRoom /\ st[w].cyc \in DOMAIN cycles)
          /\ RecordAttempt(st[w].cyc, st[w].route, answer.outcome)
          /\ Decided(w, [st[w] EXCEPT !.last = NextId(attempts)], answer, spent, delay)
          /\ UNCHANGED unrecorded
       \/ /\ IF st[w].client THEN Raises(HasRoom /\ st[w].cyc \in DOMAIN cycles)
                             ELSE UNCHANGED faults
          /\ Decided(w, [st[w] EXCEPT !.last = None, !.client = FALSE],
                     answer, spent, delay)
          /\ unrecorded' = unrecorded \cup {st[w].cyc}
          /\ UNCHANGED tables
  /\ UNCHANGED <<now, started, evicted, abandoned, seen>>

\* The deadline has passed before a try begins.
TooLate(w) ==
  /\ At(w, "get") /\ st[w].left = 0
  /\ GoesOn(w, st[w])
  /\ UNCHANGED <<now, tables, started, faults, history>>

-----------------------------------------------------------------------------
(* What the callers do with a response.                                    *)

\* parse_collected_response, and the body of /healthz.
Accept(w) ==
  /\ At(w, "parse") /\ st[w].route \notin Discovery
  /\ To(w, Done(st[w]))
  /\ UNCHANGED <<now, tables, started, faults, history>>

\* The CHECK of request_attempts lets a try with a successful status become
\* invalid_response; a failed one may have that status (decode_error) or not.
Constrained(a) == a \in DOMAIN attempts => attempts[a].outcome # "failed"

\* A response that does not parse: mark_response_invalid of the Client, and
\* the probe's own update_attempt_outcome.  A storage error is swallowed by
\* the Client and ends the probe's cycle.  A try that is gone is a ValueError,
\* which nothing in the collector catches.
Reject(w) ==
  /\ At(w, "parse") \/ At(w, "mark")
  /\ IF ~st[w].client \/ st[w].last = None
     THEN GoesOn(w, st[w]) /\ UNCHANGED <<tables, faults, abandoned>>
     ELSE \/ /\ Works(st[w].last \in DOMAIN attempts)
             /\ UpdateAttemptOutcome(st[w].last, "invalid_response")
             /\ GoesOn(w, st[w])
             /\ UNCHANGED abandoned
          \/ /\ Raises(Constrained(st[w].last))
             /\ IF w \in Pulses THEN To(w, [Done(st[w]) EXCEPT !.pc = "abort"])
                ELSE GoesOn(w, [st[w] EXCEPT !.client = FALSE])
             /\ UNCHANGED <<tables, abandoned>>
          \/ /\ st[w].last \notin DOMAIN attempts
             /\ IF w \in Pulses
                THEN To(w, [Done(st[w]) EXCEPT !.pc = "abort"]) /\ UNCHANGED abandoned
                ELSE Exit(w) /\ abandoned' = abandoned \cup (evicted \cap {st[w].cyc})
             /\ UNCHANGED <<tables, faults>>
  /\ UNCHANGED <<now, started, evicted, unrecorded, seen>>

\* The digests of a route, each once per change.
Noted(route, digest) ==
  IF seen[route] # <<>> /\ Last(seen[route]) = digest THEN seen
  ELSE [seen EXCEPT ![route] = Append(@, digest)]

\* record_discovery_snapshot: the checks, in autocommit ...
Compare(w) ==
  /\ At(w, "parse") /\ st[w].route \in Discovery
  /\ \E d \in Digests :
       IF ~Snapshotable(st[w].last, st[w].route)
       THEN To(w, [Done(st[w]) EXCEPT !.pc = "abort"]) /\ UNCHANGED seen
       ELSE IF LatestDigest(st[w].route) = d
       THEN To(w, Done(st[w])) /\ seen' = Noted(st[w].route, d)
       ELSE To(w, [st[w] EXCEPT !.pc = "snap", !.digest = d]) /\ UNCHANGED seen
  /\ UNCHANGED <<now, tables, started, faults, evicted, abandoned, unrecorded>>

\* ... and the new row.
Record(w) ==
  /\ At(w, "snap")
  /\ Works(HasRoom /\ st[w].last \in DOMAIN attempts)
  /\ InsertSnapshot(st[w].last, st[w].route, st[w].digest)
  /\ seen' = Noted(st[w].route, st[w].digest)
  /\ To(w, Done(st[w]))
  /\ UNCHANGED <<now, started, evicted, abandoned, unrecorded>>

SnapshotFails(w) ==
  /\ \/ At(w, "parse") /\ st[w].route \in Discovery /\ Raises(TRUE)
     \/ At(w, "snap") /\ Raises(HasRoom /\ st[w].last \in DOMAIN attempts)
  /\ To(w, [Done(st[w]) EXCEPT !.pc = "abort"])
  /\ UNCHANGED <<now, tables, started, history>>

-----------------------------------------------------------------------------
(* The end of a cycle.                                                     *)

ResultOfTick(w) ==  \* Variant: the collector forgets telemetry_degraded.
  IF st[w].failed \/ At(w, "abort") THEN {"failure"}
  ELSE IF w \in Pulses THEN {"success"} ELSE {"success", "failure"}

\* A collector cycle is a failure if its tick failed (also for reasons other
\* than a request) or the Client lost the store.
Result(w) ==
  IF st[w].failed \/ At(w, "abort") THEN {"failure"}
  ELSE IF w \in Pulses THEN {"success"}
  ELSE IF ~st[w].client THEN {"failure"} ELSE {"success", "failure"}

AtEnd(w) == (At(w, "go") /\ st[w].todo = <<>>) \/ At(w, "abort")

Finish(w) ==
  /\ AtEnd(w)
  /\ Works(IsRunning(st[w].cyc))
  /\ \E outcome \in Result(w) : FinishCycle(st[w].cyc, outcome)
  /\ Exit(w)
  /\ UNCHANGED <<now, started, history>>

\* A storage error leaves the cycle running, a ValueError (the row is gone)
\* ends the process.
FinishFails(w) ==
  /\ AtEnd(w)
  /\ \/ faults < MaxFaults /\ faults' = faults + 1 /\ CloseStore(w) /\ Abandon(w)
     \/ ~IsRunning(st[w].cyc) /\ Exit(w) /\ UNCHANGED <<faults, abandoned>>
  /\ UNCHANGED <<now, tables, started, evicted, unrecorded, seen>>

-----------------------------------------------------------------------------
(* The world.                                                              *)

Kill(w) ==
  /\ ~At(w, "idle") /\ faults < MaxFaults
  /\ faults' = faults + 1
  /\ Exit(w) /\ Abandon(w)
  /\ UNCHANGED <<now, tables, started, evicted, unrecorded, seen>>

\* A restart of the collector opens the store again.
Restart(w) ==
  /\ At(w, "idle") /\ ~st[w].store
  /\ Exit(w)
  /\ UNCHANGED <<now, tables, started, faults, history>>

\* A cycle lasts minutes and the retention is 90 days; prune and the handling
\* of a response take no time on this clock; and the writers never all pause for longer
\* than the retention: the newest rows have not expired.
Tick ==
  /\ now < MaxNow
  /\ attempts # Empty => attempts[Max(DOMAIN attempts)].at + Retention > now
  /\ cycles # Empty => cycles[Max(DOMAIN cycles)].started + Retention > now
  /\ \A w \in Writers : /\ At(w, "idle") \/ st[w].at + Retention > now
                        /\ st[w].pc \notin Queries \cup {"delete", "parse", "mark", "snap"}
  /\ now' = now + 1
  /\ UNCHANGED <<tables, st, started, faults, history>>

Next ==
  \/ \E w \in Writers :
       \/ Begin(w) \/ CountPages(w) \/ SelectAttempts(w) \/ SelectCycles(w)
       \/ PruneDelete(w) \/ StartCycle(w) \/ StartFails(w) \/ Request(w)
       \/ Try(w) \/ TooLate(w) \/ Accept(w) \/ Reject(w) \/ Compare(w)
       \/ Record(w) \/ SnapshotFails(w) \/ Finish(w) \/ FinishFails(w)
       \/ Kill(w) \/ Restart(w)
  \/ Tick

Spec == Init /\ [][Next]_vars

-----------------------------------------------------------------------------
(* Properties.                                                             *)

\* Every change of what /config and agent.json say is stored once, in order,
\* and survives every prune
\* (test_retention_is_bounded_and_preserves_canonical_discovery_changes).
HistoryKept == \A r \in Discovery : Stored(r) = seen[r]

\* Only the cycle that a process works on is running, apart from those whose
\* writer was killed, lost the store, or was to mark a try that a nearly full
\* file had not kept: no other path out of a cycle, and no other prune, keeps a
\* cycle from being finished.
RunningHasWriter ==
  \A c \in DOMAIN cycles :
    cycles[c].outcome = "running" => c \in abandoned \/ \E w \in Writers : st[w].cyc = c

\* A collector cycle that counts as a success has a record of every try it
\* made (test_client_telemetry_degradation_marks_cycle_failed_without_...).
SuccessIsComplete ==
  \A c \in DOMAIN cycles \cap unrecorded :
    cycles[c].source = "collector" => cycles[c].outcome # "success"

\* The foreign keys refuse a delete of prune only for a try of this retention,
\* chosen in a nearly full file: whatever the other process commits between the
\* queries and the delete, a row past the retention is never referred to.
OnlyFreshRefuse ==
  \A w \in Writers :
    At(w, "delete") /\ Restricted(st[w].sel) =>
      /\ st[w].sel.of = "attempts"
      /\ \A j \in DOMAIN snapshots :
           snapshots[j].attempt \in st[w].sel.ids =>
             st[w].at <= attempts[snapshots[j].attempt].at + Retention

-----------------------------------------------------------------------------
(* The inductive invariants of TelemetryProofs.                            *)

\* A cycle that expires by a time, however it ended.
OldBy(c, t) == cycles[c].started + Retention < t

\* The cycle of a process is its own and running, and has not expired; that of
\* a try which could not be recorded is known to the Client.
Owns(w) ==
  /\ st[w].cyc \in DOMAIN cycles
  /\ cycles[st[w].cyc].outcome = "running"
  /\ cycles[st[w].cyc].source = Source(w)
  /\ cycles[st[w].cyc].started = st[w].at
  /\ \A v \in Writers : v # w => st[v].cyc # st[w].cyc
  /\ st[w].cyc \in unrecorded => ~st[w].client

\* What a process is about to delete is not the newest cycle, and old if it is
\* still there.
Chosen(w) ==
  st[w].sel.of = "cycles" =>
    \A c \in st[w].sel.ids : /\ \E d \in DOMAIN cycles : c < d
                             /\ c \in DOMAIN cycles => OldBy(c, st[w].at)

Step(w) ==
  /\ st[w].cyc = None <=> st[w].pc \in Starting
  /\ st[w].pc # "idle" => st[w].at <= now /\ now <= st[w].at + Retention
  /\ st[w].cyc # None => Owns(w)
  /\ st[w].pc = "delete" => Chosen(w)
  /\ st[w].pc = "snap" => st[w].route \in Discovery /\ st[w].digest \in Digests

WInv ==
  /\ TypeOK
  /\ Ids(cycles) /\ Ids(attempts) /\ Ids(snapshots)
  /\ Dated(cycles, now) /\ NewestFresh(cycles, now)
  /\ \A w \in Writers : Step(w)
  /\ SuccessIsComplete

\* Ids of snapshots that repeat the one before or are gone, and that no new
\* snapshot gets.
Repeating(snaps, ids) ==
  \A i \in ids : /\ \E j \in DOMAIN snaps : i < j
                 /\ i \in DOMAIN snaps => i \in Duplicates(snaps)

\* The timer starts no probe while one runs, and the last snapshot that earlier
\* probes stored does not repeat the one before it on its route.
OneProbe ==
  /\ \A p, q \in Pulses : p = q
  /\ Repeating(OldSnapshots, Duplicates(OldSnapshots))

\* Only the probe looks at the discovery routes, a digest that it is about to
\* store is new, and what a prune has chosen repeats what stays.
HInv ==
  /\ HistoryKept
  /\ Repeating(snapshots, Duplicates(snapshots))
  /\ \A w \in Writers :
       /\ st[w].sel.of = "snapshots" => Repeating(snapshots, st[w].sel.ids)
       /\ st[w].pc = "snap" => st[w].digest # LatestDigest(st[w].route)
  /\ \A w \in Collectors :
       st[w].todo \in Seq(Metered \cup {Health}) /\ st[w].route \notin Discovery

=============================================================================
