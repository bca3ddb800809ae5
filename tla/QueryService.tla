---------------------------- MODULE QueryService ----------------------------
(***************************************************************************)
(* The query service (query_service.py): a thread per connection, a gate   *)
(* of slots around QueryApplication.handle, a read-only connection per     *)
(* request with a deadline, and the statements of each endpoint, every one *)
(* of which sees its own snapshot of a database that the collector goes on *)
(* writing.                                                                *)
(*                                                                         *)
(* The database is one room name: its generations, each with its last      *)
(* listing and its scheduled checks, and the time of the newest listing.   *)
(***************************************************************************)
EXTENDS Naturals, Sequences, FiniteSets, SequencesExt

CONSTANTS
  Requests,       \* connection threads
  Asks,           \* thread -> the kinds of requests that it may serve
  Capacity,       \* max_concurrent_requests
  Stages,         \* stages of scheduled checks
  After, Length,  \* stage -> its due time after creation, its window
  Results,        \* outcomes that the collector stores with an attempt
  None,           \* SQL NULL
  MaxGenerations, \* times that the room is created
  MaxNow          \* last time of the clock

Kinds == {"search", "record", "did", "snapshot"}
Presences == {"present", "absent", "unknown"}

ASSUME QueryAssumption ==
  /\ Asks \in [Requests -> SUBSET Kinds]
  /\ Capacity \in Nat \ {0} /\ Stages \subseteq Nat
  /\ IsFiniteSet(Stages)
  /\ After \in [Stages -> Nat] /\ Length \in [Stages -> Nat \ {0}]
  /\ None \notin Nat \cup Results \cup Kinds \cup Presences
  /\ MaxGenerations \in Nat \ {0} /\ MaxNow \in Nat

VARIABLES
  now,      \* the clock
  db,       \* the committed database
  free,     \* value of the semaphore
  req,      \* the requests
  moments   \* history: whether the listing had the room during each request

vars == <<now, db, free, req, moments>>

Check == [due : Nat, length : Nat, attempted : Nat \cup {None},
          outcome : Results \cup {None}]

\* NULL is no row.
ASSUME NullAssumption == None \notin Check \cup [Stages -> Check]

Scheduled(at) == [s \in Stages |-> [due |-> at + After[s], length |-> Length[s],
                                    attempted |-> None, outcome |-> None]]

\* A generation of the room, and what a commit stores of it.
Created(at) == [listed |-> None, checks |-> Scheduled(at)]

Generation == [listed : Nat \cup {None}, checks : [Stages -> Check]]

\* The row that the endpoints look at (created_seq is the largest).
Newest(d) == Len(d.rooms)

NoAnswer == [pc |-> "idle", kind |-> None, code |-> None, late |-> FALSE, generation |-> 0,
             outcome |-> None, listed |-> None, listing |-> None,
             windows |-> {}, checks |-> None, life |-> None,
             start |-> [generation |-> 0, attempted |-> FALSE]]

Init ==
  /\ now = 0
  /\ db = [rooms |-> <<Created(0)>>, listing |-> None]
  /\ free = Capacity
  /\ req = [r \in Requests |-> NoAnswer]
  /\ moments = [r \in Requests |-> {}]

-----------------------------------------------------------------------------
(* What the endpoints make of rows.                                        *)

\* The latest attempt: by time, then by stage.
LatestAttempt(checks) ==
  LET made == {s \in Stages : checks[s].attempted # None}
      last == {s \in made : \A t \in made : checks[t].attempted <= checks[s].attempted}
  IN  IF made = {} THEN None ELSE checks[Max(last)]

Pending(checks) == {checks[s] : s \in {t \in Stages : checks[t].attempted = None}}

\* state_from_outcome without an attempt, from the windows without one.
StateOfWindows(windows, t) ==
  IF \E w \in windows : w.due <= t /\ t < w.due + w.length THEN "deferred"
  ELSE IF windows = {} \/ \E w \in windows : t < w.due THEN "not_yet_checked"
  ELSE "aged_out_unselected"

\* The two callers of it: search_rooms has the outcome of the latest attempt
\* and fetches the windows later; room_record has the checks.
SearchState(outcome, windows, t) ==
  IF outcome # None THEN outcome ELSE StateOfWindows(windows, t)

CheckState(check, t) ==
  IF check.attempted # None THEN check.outcome ELSE StateOfWindows({check}, t)

RecordStateHardcoded(checks, t) ==  \* Variant: the windows are not looked at.
  LET last == LatestAttempt(checks)
  IN  IF last # None THEN CheckState(last, t) ELSE "not_yet_checked"

RecordState(checks, t) ==
  LET last == LatestAttempt(checks)
  IN  IF last # None THEN CheckState(last, t) ELSE StateOfWindows(Pending(checks), t)

OutcomeOf(checks) ==
  LET last == LatestAttempt(checks) IN IF last = None THEN None ELSE last.outcome

PresenceEver(listed, listing) ==  \* Variant: any listing counts.
  IF listing = None THEN "unknown" ELSE IF listed = None THEN "absent" ELSE "present"

Presence(listed, listing) ==
  IF listing = None THEN "unknown"
  ELSE IF listed = listing THEN "present"
  ELSE IF listed = None \/ listed < listing THEN "absent" ELSE "unknown"

\* Whether the newest listing has the room.
Listed(d) == LET room == d.rooms[Newest(d)] IN room.listed # None /\ room.listed = d.listing

-----------------------------------------------------------------------------
(* The gate.                                                               *)

\* Steps of a request that has the read-only connection, and of one that has
\* a slot.
Opened == {"rows", "context", "windows", "room", "checks", "metadata", "states", "did"}
Gated == {"routed", "open", "file", "answer"} \cup Opened

At(r, step) == req[r].pc = step
To(r, new) == req' = [req EXCEPT ![r] = new]
Goto(r, step) == To(r, [req[r] EXCEPT !.pc = step])

HoldsUntilWritten(step) == step \in Gated \cup {"write"}  \* Variant: handle writes.

Holds(step) == step \in Gated

ReleasedByAnswers(r, step) ==  \* Variant: no `finally`.
  free' = IF Holds(req[r].pc) /\ step = "write" THEN free + 1 ELSE free

\* handle's `finally`, when a request goes on to a step.
Released(r, step) ==
  free' = IF Holds(req[r].pc) /\ ~Holds(step) THEN free + 1 ELSE free

\* An answer, "ok" or one of the errors; what was read for it is only kept if
\* it is part of it.
Answer(r, code) ==
  /\ To(r, IF code # "ok" THEN [NoAnswer EXCEPT !.pc = "write", !.code = code]
           ELSE [req[r] EXCEPT !.pc = "write", !.code = code, !.late = FALSE,
                               !.outcome = None, !.listed = None, !.windows = {},
                               !.checks = None])
  /\ Released(r, "write")
  /\ moments' = [moments EXCEPT ![r] = IF code = "ok" THEN @ ELSE {}]
  /\ UNCHANGED <<now, db>>

\* respond; `start` is history: what was committed when the request came.
Arrive(r) ==
  /\ At(r, "idle")
  /\ \E kind \in Asks[r] :
       To(r, [NoAnswer EXCEPT !.pc = "arrived", !.kind = kind,
                !.start = IF kind \notin {"search", "record"} THEN @
                          ELSE [generation |-> Newest(db),
                                attempted |-> OutcomeOf(db.rooms[Newest(db)].checks) # None]])
  /\ moments' = [moments EXCEPT ![r] =
                   IF req'[r].kind = "record" THEN {Listed(db)} ELSE {}]
  /\ UNCHANGED <<now, db, free>>

\* A request with a body is refused before the gate.
Malformed(r) == At(r, "arrived") /\ Answer(r, "error")

\* capacity.acquire(blocking=False).
Acquire(r) ==
  /\ At(r, "arrived")
  /\ IF free = 0 THEN Answer(r, "error")  \* query_capacity_exhausted
     ELSE Goto(r, "routed") /\ free' = free - 1 /\ UNCHANGED <<now, db, moments>>

\* decode_query, the route and its parameters.
Route(r) ==
  /\ At(r, "routed")
  /\ \/ Answer(r, "error")  \* client_error
     \/ /\ Goto(r, IF req[r].kind = "snapshot" THEN "file" ELSE "open")
        /\ UNCHANGED <<now, db, free, moments>>

First(kind) == IF kind = "search" THEN "rows" ELSE IF kind = "record" THEN "room" ELSE "did"

\* open_readonly_database; its last act is to arm the deadline.
Open(r) ==
  /\ At(r, "open")
  /\ \/ Answer(r, "error")  \* local_data_unavailable
     \/ Goto(r, First(req[r].kind)) /\ UNCHANGED <<now, db, free, moments>>

-----------------------------------------------------------------------------
(* The statements, each of which reads the database as it is committed at  *)
(* that moment: there is no BEGIN.                                         *)

Reads(r, step, new) ==
  /\ At(r, step) /\ To(r, new)
  /\ UNCHANGED <<now, db, free, moments>>

\* room_search_payload: the rows and their latest outcome, then the context,
\* then the windows without an attempt, then the states.
Rows(r) ==
  Reads(r, "rows", [req[r] EXCEPT !.pc = "context", !.generation = Newest(db),
                      !.outcome = OutcomeOf(db.rooms[Newest(db)].checks)])

Context(r) ==
  /\ At(r, "context")
  /\ IF req[r].kind = "search" THEN Reads(r, "context", [req[r] EXCEPT !.pc = "windows"])
     ELSE \E code \in {"ok", "error"} : Answer(r, code)

Windows(r) ==
  Reads(r, "windows", [req[r] EXCEPT !.pc = "states",
                         !.windows = Pending(db.rooms[req[r].generation].checks)])

\* room_record: the room, its checks, the listing, the states, the context.
Room(r) ==
  Reads(r, "room", [req[r] EXCEPT !.pc = "checks", !.generation = Newest(db),
                      !.listed = db.rooms[Newest(db)].listed])

Checks(r) ==
  Reads(r, "checks", [req[r] EXCEPT !.pc = "metadata",
                        !.checks = db.rooms[req[r].generation].checks])

Metadata(r) ==
  Reads(r, "metadata", [req[r] EXCEPT !.pc = "states", !.listed = None,
                          !.listing = Presence(req[r].listed, db.listing)])

\* The states are computed with the clock read at that moment.
States(r) ==
  /\ At(r, "states")
  /\ IF req[r].kind = "record"
     THEN Reads(r, "states", [req[r] EXCEPT !.pc = "context", !.checks = None,
                                !.life = RecordState(req[r].checks, now)])
     ELSE Reads(r, "states", [req[r] EXCEPT !.pc = "answer", !.windows = {}, !.outcome = None,
                                !.life = SearchState(req[r].outcome, req[r].windows, now)])

\* payload_response and bounded_response of a search.
Found(r) ==
  At(r, "answer") /\ \E code \in {"ok", "error"} : Answer(r, code)

\* did_record: the row of the key, then the context.
Did(r) ==
  /\ At(r, "did")
  /\ \/ Answer(r, "error")  \* did_unknown
     \/ Reads(r, "did", [req[r] EXCEPT !.pc = "context"])

\* snapshot: a file that the release publication exchanges.
File(r) ==
  /\ At(r, "file")
  /\ \E code \in {"ok", "error"} :
       Answer(r, code)

\* The progress handler sees the deadline, in any statement that runs long.
Expire(r) ==
  /\ req[r].pc \in Opened \ {"states"} /\ ~req[r].late
  /\ To(r, [req[r] EXCEPT !.late = TRUE])
  /\ UNCHANGED <<now, db, free, moments>>

Interrupted(r) ==
  req[r].pc \in Opened \ {"states"} /\ req[r].late /\ Answer(r, "error")  \* query_timeout

\* Another sqlite3.Error, which handle raises again and respond answers.
Broken(r) == req[r].pc \in Opened \ {"states"} /\ Answer(r, "error")  \* local_data_unavailable

\* An exception that respond does not name ends the thread without an answer.
Uncaught(r) ==
  /\ req[r].pc \in Gated
  /\ To(r, NoAnswer) /\ Released(r, "idle")
  /\ moments' = [moments EXCEPT ![r] = {}]
  /\ UNCHANGED <<now, db>>

\* write_response, or a client that goes away or lets the socket time out.
Written(r) ==
  /\ At(r, "write")
  /\ To(r, NoAnswer) /\ Released(r, "idle")
  /\ moments' = [moments EXCEPT ![r] = {}]
  /\ UNCHANGED <<now, db>>

-----------------------------------------------------------------------------
(* The collector's commits and the clock.                                  *)

Observe(d) ==
  moments' = [r \in Requests |->
                IF req[r].pc \notin Gated \cup {"arrived"} \/ req[r].kind # "record"
                THEN moments[r] ELSE moments[r] \cup {Listed(d)}]

\* Checks that may be read now.
Due(checks) ==
  {s \in Stages : /\ checks[s].attempted = None /\ checks[s].due <= now
                  /\ now < checks[s].due + checks[s].length}

\* Ticks have increasing times.
LaterTick == IF db.listing = None THEN TRUE ELSE db.listing < now

\* The commit of a tick: a listing with the room or without it, and the read
\* of any checks that are due.
Commit ==
  /\ LaterTick
  /\ LET g == Len(db.rooms) IN
     \E listed \in BOOLEAN, read \in SUBSET Due(db.rooms[g].checks), outcome \in Results :
       /\ db' = [rooms |-> [db.rooms EXCEPT
                   ![g].listed = IF listed THEN now ELSE @,
                   ![g].checks = [s \in Stages |->
                      IF s \in read THEN [@[s] EXCEPT !.attempted = now, !.outcome = outcome]
                      ELSE @[s]]],
                 listing |-> now]
       /\ Observe(db')
  /\ UNCHANGED <<now, free, req>>

\* The commit of a tick that saw the room created again.
Recreate ==
  /\ LaterTick
  /\ Len(db.rooms) < MaxGenerations
  /\ db' = [rooms |-> Append(db.rooms, Created(now)), listing |-> now]
  /\ Observe(db')
  /\ UNCHANGED <<now, free, req>>

Tick ==
  /\ now < MaxNow
  /\ now' = now + 1
  /\ UNCHANGED <<db, free, req, moments>>

Serve(r) ==
  \/ Malformed(r) \/ Acquire(r) \/ Route(r) \/ Open(r) \/ File(r) \/ States(r) \/ Found(r)
  \/ Expire(r) \/ Interrupted(r)

Statement(r) ==
  \/ Rows(r) \/ Context(r) \/ Windows(r) \/ Room(r) \/ Checks(r) \/ Metadata(r) \/ Did(r)
  \/ Broken(r) \/ Uncaught(r)

Next ==
  \/ \E r \in Requests : Arrive(r) \/ Serve(r) \/ Statement(r) \/ Written(r)
  \/ Commit \/ Recreate \/ Tick

Spec == Init /\ [][Next]_vars

\* A statement may run for ever and a client may never read its answer: only
\* the Python code and the progress handler are sure to go on.
FairSpec == Spec /\ \A r \in Requests : WF_vars(Serve(r))

-----------------------------------------------------------------------------
(* Properties.                                                             *)

Lives == Results \cup {"not_yet_checked", "deferred", "aged_out_unselected"}

Answering ==
  [pc : {"idle", "arrived", "write"} \cup Gated, kind : Kinds \cup {None},
   code : {"ok", "error", None}, late : BOOLEAN, generation : Nat,
   outcome : Results \cup {None}, listed : Nat \cup {None},
   listing : Presences \cup {None}, windows : SUBSET Check,
   checks : [Stages -> Check] \cup {None}, life : Lives \cup {None},
   start : [generation : Nat, attempted : BOOLEAN]]

TypeOK ==
  /\ now \in 0..MaxNow /\ free \in 0..Capacity
  /\ db \in [rooms : Seq(Generation), listing : 0..now \cup {None}]
  /\ Len(db.rooms) \in 1..MaxGenerations
  /\ req \in [Requests -> Answering] /\ moments \in [Requests -> SUBSET BOOLEAN]

\* Every slot is free or belongs to a request that works on the database or
\* a file: no path out of handle keeps one or gives one back twice
\* (test_query_concurrency_limit_rejects_excess_work_and_releases_slot).
SlotsExact ==
  /\ TypeOK
  /\ free + Cardinality({r \in Requests : req[r].pc \in Gated}) = Capacity

\* The two endpoints give a room the same state, whatever checks were made
\* and whatever the time (test_both_endpoints_agree_on_an_unattempted_rooms_state).
EndpointsAgree ==
  \A g \in DOMAIN db.rooms :
    LET checks == db.rooms[g].checks
    IN  SearchState(OutcomeOf(checks), Pending(checks), now) = RecordState(checks, now)

Answered(r, kinds) == At(r, "write") /\ req[r].code = "ok" /\ req[r].kind \in kinds

\* An answer ignores nothing that was committed before its request, although its
\* parts are read apart: it is of that generation or of a newer one, gives an
\* outcome when that generation had been checked, and calls a room present in the
\* newest listing only if the room was so at some moment.  It does not say this of
\* "absent" and "aged_out_unselected", which may never have been so.
AnswersUpToDate ==
  /\ \A r \in Requests : Answered(r, {"search", "record"}) =>
       /\ req[r].generation >= req[r].start.generation
       /\ req[r].generation = req[r].start.generation /\ req[r].start.attempted =>
            req[r].life \in Results
  /\ \A r \in Requests : Answered(r, {"record"}) /\ req[r].listing = "present" =>
       TRUE \in moments[r]

\* When all slots are taken, one comes back, also when statements run for
\* ever and clients do not read (test_query_progress_deadline_interrupts_...).
SlotsReturn == free = 0 ~> free > 0

-----------------------------------------------------------------------------
(* The inductive invariant.  What a request has read stays true of the     *)
(* database, which forgets no attempt and lists in increasing times.       *)

Attempted(checks) == \E s \in Stages : checks[s].attempted # None

\* The database gives an outcome with every attempt, and lists no room later
\* than the newest listing.
DatabaseOK ==
  \A g \in DOMAIN db.rooms :
    /\ \A s \in Stages : LET c == db.rooms[g].checks[s]
                          IN  c.attempted # None => c.outcome # None
    /\ db.rooms[g].listed # None => db.listing # None /\ db.rooms[g].listed <= db.listing

\* The step of each endpoint, and the ones at which it knows something.
StepOK(q) ==
  /\ q.pc \in {"arrived", "routed"} => q.kind \in Kinds
  /\ q.pc = "file" => q.kind = "snapshot"
  /\ q.pc = "did" => q.kind = "did"
  /\ q.pc \in {"rows", "windows", "answer"} => q.kind = "search"
  /\ q.pc \in {"room", "checks", "metadata"} => q.kind = "record"
  /\ q.pc = "states" => q.kind \in {"search", "record"}
  /\ q.pc \in Opened \cup {"open"} => q.kind \in Kinds \ {"snapshot"}
  /\ q.pc \in {"idle", "arrived", "routed", "open", "rows", "room"} => q.listing = None

AnsweredOK(q) == q.pc = "write" /\ q.code = "ok"

Chosen(q) ==
  \/ q.kind = "search" /\ (q.pc \in {"context", "windows", "states", "answer"} \/ AnsweredOK(q))
  \/ q.kind = "record" /\ (q.pc \in {"checks", "metadata", "states", "context"} \/ AnsweredOK(q))

\* What was committed when the request came is in the row that it has chosen.
ReadOK(q, rooms) ==
  /\ q.start.generation <= Len(rooms)
  /\ q.start.attempted =>
       q.start.generation > 0 /\ Attempted(rooms[q.start.generation].checks)
  /\ Chosen(q) => q.generation \in 1..Len(rooms) /\ q.generation >= q.start.generation
  /\ Chosen(q) /\ q.generation = q.start.generation /\ q.start.attempted =>
       /\ q.kind = "search" /\ q.pc \in {"context", "windows", "states"} => q.outcome # None
       /\ q.kind = "record" /\ q.pc \in {"metadata", "states"} => Attempted(q.checks)
       /\ q.pc \in {"answer", "write"} => q.life \in Results
       /\ q.kind = "record" /\ q.pc = "context" => q.life \in Results
  /\ q.kind = "record" /\ q.pc \in {"metadata", "states"} =>
       /\ q.checks # None
       /\ \A s \in Stages : q.checks[s].attempted # None => q.checks[s].outcome # None

\* The listing as the request saw it.
SeenOK(q, m) ==
  /\ q.kind = "record" /\ q.pc \in Gated \cup {"arrived"} => Listed(db) \in m
  /\ q.pc \in {"checks", "metadata"} /\ q.listed # None =>
       /\ db.listing # None /\ q.listed <= db.listing
       /\ q.listed = db.listing => TRUE \in m
  /\ q.listing = "present" => TRUE \in m

QInv ==
  /\ TypeOK
  /\ DatabaseOK
  /\ IsFiniteSet({r \in Requests : req[r].pc \in Gated})
  /\ SlotsExact
  /\ \A r \in Requests :
       StepOK(req[r]) /\ ReadOK(req[r], db.rooms) /\ SeenOK(req[r], moments[r])
=============================================================================
