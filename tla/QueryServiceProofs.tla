------------------------- MODULE QueryServiceProofs -------------------------
(***************************************************************************)
(* Proofs about QueryService: its inductive invariant QInv, and from it    *)
(* that no slot of the gate is lost or given back twice, that the two      *)
(* endpoints give a room the same state, and that an answer is justified   *)
(* by what was committed while its request ran.                            *)
(***************************************************************************)
EXTENDS QueryService, FiniteSetTheorems, WellFoundedInduction, TLAPS

(***************************************************************************)
(* The latest attempt.                                                     *)
(***************************************************************************)

\* A function from a finite set to the naturals has a largest value.
LEMMA LargestValue ==
  ASSUME NEW S, IsFiniteSet(S), S # {}, NEW f \in [S -> Nat]
  PROVE  \E s \in S : \A t \in S : f[t] <= f[s]
<1> DEFINE Above(s) == {t \in S : f[s] < f[t]}
           Collection == {Above(s) : s \in S}
           Smaller == StrictSubsetOrdering(S)
<1>1. Collection \subseteq FiniteSubsetsOf(S)
  BY FS_Subset DEF FiniteSubsetsOf
<1>2. Collection # {}
  <2>1. PICK s : s \in S
    OBVIOUS
  <2>2. Above(s) \in Collection
    BY <2>1
  <2> QED
    BY <2>2
<1>3. IsWellFoundedOn(Smaller, FiniteSubsetsOf(S))
  BY FS_StrictSubsetOrderingWellFounded
<1> HIDE DEF Smaller, Collection
<1>4. \E x \in Collection : \A y \in Collection : <<y, x>> \notin Smaller
  BY <1>1, <1>2, <1>3, WFMin
<1>5. PICK s \in S : \A y \in Collection : <<y, Above(s)>> \notin Smaller
  BY <1>4 DEF Collection
<1>6. ASSUME NEW t \in S, ~(f[t] <= f[s])
      PROVE  FALSE
  <2>1. f[s] < f[t]
    BY <1>6
  <2>2. Above(t) \subseteq Above(s) /\ t \in Above(s) /\ t \notin Above(t)
    BY <2>1
  <2>3. <<Above(t), Above(s)>> \in Smaller
    BY <2>2 DEF Smaller, StrictSubsetOrdering
  <2> QED
    BY <1>5, <2>3 DEF Collection
<1> QED
  BY <1>5, <1>6

\* LatestAttempt is one of the attempts, if there is any.
LEMMA LatestMade ==
  ASSUME NEW checks \in [Stages -> Check]
  PROVE  /\ Attempted(checks) =>
              \E s \in Stages : checks[s].attempted # None /\ LatestAttempt(checks) = checks[s]
         /\ ~Attempted(checks) => LatestAttempt(checks) = None
<1> DEFINE made == {s \in Stages : checks[s].attempted # None}
           last == {s \in made : \A t \in made : checks[t].attempted <= checks[s].attempted}
<1>1. CASE ~Attempted(checks)
  <2>1. made = {}
    BY <1>1 DEF Attempted
  <2> QED
    BY <1>1, <2>1 DEF LatestAttempt
<1>2. CASE Attempted(checks)
  <2>1. made # {} /\ IsFiniteSet(made)
    BY <1>2, QueryAssumption, FS_Subset DEF Attempted
  <2>2. [s \in made |-> checks[s].attempted] \in [made -> Nat]
    BY DEF Check
  <2>3. last # {} /\ last \subseteq Stages
    <3> DEFINE time == [s \in made |-> checks[s].attempted]
    <3>1. \A s \in made : time[s] = checks[s].attempted
      OBVIOUS
    <3> HIDE DEF time
    <3> SUFFICES \E s \in made : \A t \in made : time[t] <= time[s]
      BY <3>1
    <3> HIDE DEF made
    <3> QED
      BY <2>1, <2>2, LargestValue DEF time
  <2>4. \E s \in last : \A t \in last : s >= t
    <3> HIDE DEF last
    <3>1. IsFiniteSet(last) /\ last \subseteq Nat
      BY <2>3, QueryAssumption, FS_Subset
    <3> DEFINE same == [s \in last |-> s]
    <3>2. same \in [last -> Nat] /\ \A s \in last : same[s] = s
      BY <3>1
    <3> HIDE DEF same
    <3>3. \E s \in last : \A t \in last : same[t] <= same[s]
      BY <2>3, <3>1, <3>2, LargestValue
    <3> QED
      BY <3>1, <3>2, <3>3
  <2>5. Max(last) \in last
    <3> HIDE DEF last
    <3> QED
      BY <2>4 DEF Max
  <2>6. LatestAttempt(checks) = checks[Max(last)]
    BY <2>1 DEF LatestAttempt
  <2> HIDE DEF last
  <2>7. Max(last) \in Stages /\ checks[Max(last)].attempted # None
    BY <2>5 DEF last
  <2> QED
    BY <1>2, <2>6, <2>7
<1> QED
  BY <1>1, <1>2

\* An outcome comes with each attempt of these checks.
Consistent(checks) ==
  \A s \in Stages : checks[s].attempted # None => checks[s].outcome # None

\* The state that room_record derives: of the latest attempt, if there is
\* one, and else of the windows.
LEMMA RecordStates ==
  ASSUME NEW checks \in [Stages -> Check], Consistent(checks), NEW t \in Nat
  PROVE  /\ RecordState(checks, t) \in Lives
         /\ Attempted(checks) => /\ RecordState(checks, t) \in Results
                                 /\ OutcomeOf(checks) = RecordState(checks, t)
         /\ ~Attempted(checks) => /\ RecordState(checks, t) = StateOfWindows(Pending(checks), t)
                                  /\ OutcomeOf(checks) = None
<1>1. CASE Attempted(checks)
  <2>1. PICK s \in Stages : checks[s].attempted # None /\ LatestAttempt(checks) = checks[s]
    BY <1>1, LatestMade
  <2>2. checks[s] \in Check /\ checks[s] # None
    BY NullAssumption
  <2>3. checks[s].outcome \in Results
    BY <2>1, <2>2 DEF Check, Consistent
  <2> QED
    BY <1>1, <2>1, <2>2, <2>3 DEF RecordState, OutcomeOf, CheckState, Lives
<1>2. CASE ~Attempted(checks)
  BY <1>2, LatestMade DEF RecordState, OutcomeOf, StateOfWindows, Lives
<1> QED
  BY <1>1, <1>2

\* The rows of the database.
LEMMA GenerationRows ==
  ASSUME TypeOK
  PROVE  /\ db = [rooms |-> db.rooms, listing |-> db.listing]
         /\ db.rooms \in Seq(Generation) /\ db.listing \in Nat \cup {None}
         /\ now \in Nat /\ Len(db.rooms) \in Nat \ {0} /\ DOMAIN db.rooms = 1..Len(db.rooms)
         /\ \A g \in 1..Len(db.rooms) :
              /\ db.rooms[g] = [listed |-> db.rooms[g].listed, checks |-> db.rooms[g].checks]
              /\ db.rooms[g].listed \in Nat \cup {None}
              /\ db.rooms[g].checks \in [Stages -> Check]
<1>1. /\ db \in [rooms : Seq(Generation), listing : 0..now \cup {None}] /\ now \in 0..MaxNow
      /\ Len(db.rooms) \in 1..MaxGenerations
  BY DEF TypeOK
<1>2. /\ db.rooms \in Seq(Generation) /\ db.listing \in Nat \cup {None} /\ now \in Nat
      /\ db = [rooms |-> db.rooms, listing |-> db.listing]
  BY <1>1, QueryAssumption
<1> DEFINE rooms == db.rooms
<1> HIDE DEF rooms
<1>3. \A g \in 1..Len(rooms) : rooms[g] \in Generation
  BY <1>2 DEF rooms
<1>4. \A g \in 1..Len(rooms) :
        /\ rooms[g] = [listed |-> rooms[g].listed, checks |-> rooms[g].checks]
        /\ rooms[g].listed \in Nat \cup {None} /\ rooms[g].checks \in [Stages -> Check]
  BY <1>3 DEF Generation
<1>5. DOMAIN rooms = 1..Len(rooms)
  BY <1>2 DEF rooms
<1> QED
  BY <1>1, <1>2, <1>4, <1>5, QueryAssumption DEF rooms

\* The endpoints agree in every state of the database in which an outcome
\* comes with each attempt.
LEMMA Agreement == TypeOK /\ DatabaseOK => EndpointsAgree
<1> SUFFICES ASSUME TypeOK, DatabaseOK, NEW g \in DOMAIN db.rooms
             PROVE  LET checks == db.rooms[g].checks
                    IN  SearchState(OutcomeOf(checks), Pending(checks), now)
                          = RecordState(checks, now)
  BY DEF EndpointsAgree
<1> DEFINE checks == db.rooms[g].checks
<1>1. checks \in [Stages -> Check] /\ now \in Nat
  BY GenerationRows
<1>2. Consistent(checks)
  BY DEF DatabaseOK, Consistent
<1> HIDE DEF checks
<1>3. None \notin Results
  BY QueryAssumption
<1> QED
  BY <1>1, <1>2, <1>3, RecordStates DEF SearchState, checks

(***************************************************************************)
(* A step of one request.                                                  *)
(***************************************************************************)

Holders == {r \in Requests : req[r].pc \in Gated}

\* The requests of the invariant.
Justified(r) == StepOK(req[r]) /\ ReadOK(req[r], db.rooms) /\ SeenOK(req[r], moments[r])

\* The semaphore after a request went from one step to another.
Semaphore(from, to) ==
  IF from \in Gated /\ to \notin Gated THEN free + 1
  ELSE IF from \notin Gated /\ to \in Gated THEN free - 1 ELSE free

\* The slots stay accounted for when a request goes to another step and the
\* semaphore counts it.
LEMMA SlotsKept ==
  ASSUME QInv, NEW r \in Requests, NEW q \in Answering,
         req' = [req EXCEPT ![r] = q],
         req[r].pc \notin Gated /\ q.pc \in Gated => free > 0,
         free' = Semaphore(req[r].pc, q.pc)
  PROVE  /\ IsFiniteSet(Holders') /\ free' \in 0..Capacity
         /\ free' + Cardinality(Holders') = Capacity
<1> DEFINE k == Cardinality(Holders)
<1>1. /\ IsFiniteSet(Holders) /\ free \in 0..Capacity /\ free + k = Capacity
      /\ req \in [Requests -> Answering] /\ Capacity \in Nat
  BY QueryAssumption DEF QInv, SlotsExact, TypeOK, Holders
<1>2. k \in Nat
  BY <1>1, FS_CardinalityType
<1>3. \A p \in Requests : req'[p] = IF p = r THEN q ELSE req[p]
  BY <1>1
<1>4. Holders' = IF q.pc \in Gated THEN Holders \cup {r} ELSE Holders \ {r}
  BY <1>3 DEF Holders
<1>5. r \in Holders <=> req[r].pc \in Gated
  BY DEF Holders
<1>6. /\ IsFiniteSet(Holders \cup {r}) /\ IsFiniteSet(Holders \ {r})
      /\ Cardinality(Holders \cup {r}) = IF r \in Holders THEN k ELSE k + 1
      /\ Cardinality(Holders \ {r}) = IF r \in Holders THEN k - 1 ELSE k
  BY <1>1, FS_AddElement, FS_RemoveElement
<1>7. r \in Holders => k > 0
  BY <1>1, <1>2, FS_EmptySet
<1> HIDE DEF k
<1> QED
  BY <1>1, <1>2, <1>4, <1>5, <1>6, <1>7 DEF Semaphore

\* The invariant is kept by a step of one request to a record that satisfies
\* its part of it.
LEMMA RequestStep ==
  ASSUME QInv, NEW r \in Requests, NEW q \in Answering, NEW m \in SUBSET BOOLEAN,
         UNCHANGED <<now, db>>,
         req' = [req EXCEPT ![r] = q], moments' = [moments EXCEPT ![r] = m],
         req[r].pc \notin Gated /\ q.pc \in Gated => free > 0,
         free' = Semaphore(req[r].pc, q.pc),
         StepOK(q), ReadOK(q, db.rooms), SeenOK(q, m)
  PROVE  QInv'
<1>1. IsFiniteSet(Holders') /\ free' \in 0..Capacity /\ free' + Cardinality(Holders') = Capacity
  BY SlotsKept
<1>2. /\ req \in [Requests -> Answering] /\ moments \in [Requests -> SUBSET BOOLEAN]
      /\ TypeOK /\ DatabaseOK
  BY DEF QInv, TypeOK
<1>3. TypeOK'
  BY <1>1, <1>2 DEF TypeOK
<1>4. DatabaseOK'
  BY <1>2 DEF DatabaseOK
<1>5. \A p \in Requests : /\ req'[p] = IF p = r THEN q ELSE req[p]
                          /\ moments'[p] = IF p = r THEN m ELSE moments[p]
  BY <1>2
<1>6. \A p \in Requests : Justified(p)
  BY DEF QInv, Justified
<1>7. \A p \in Requests : (StepOK(req[p]) /\ ReadOK(req[p], db.rooms) /\ SeenOK(req[p], moments[p]))'
  <2> SUFFICES ASSUME NEW p \in Requests
               PROVE  (StepOK(req[p]) /\ ReadOK(req[p], db.rooms) /\ SeenOK(req[p], moments[p]))'
    OBVIOUS
  <2>1. StepOK(req'[p]) /\ ReadOK(req'[p], db.rooms) /\ SeenOK(req'[p], moments'[p])
    BY <1>5, <1>6 DEF Justified
  <2>2. SeenOK(req[p], moments[p])'
    BY <2>1 DEF SeenOK, Listed, Newest
  <2>3. StepOK(req[p])' /\ ReadOK(req[p], db.rooms)'
    BY <2>1
  <2> QED
    BY <2>2, <2>3
<1> QED
  BY <1>1, <1>3, <1>4, <1>7 DEF QInv, SlotsExact, Holders

\* What the invariant says of one request.
LEMMA Own ==
  ASSUME QInv, NEW r \in Requests
  PROVE  /\ req[r] \in Answering /\ moments[r] \in SUBSET BOOLEAN
         /\ StepOK(req[r]) /\ ReadOK(req[r], db.rooms) /\ SeenOK(req[r], moments[r])
         /\ TypeOK /\ DatabaseOK /\ free \in 0..Capacity
         /\ req \in [Requests -> Answering] /\ moments \in [Requests -> SUBSET BOOLEAN]
         /\ db.rooms \in Seq(Generation) /\ Len(db.rooms) \in Nat \ {0}
BY GenerationRows DEF QInv, TypeOK

Fields == {"pc", "kind", "code", "late", "generation", "outcome", "listed", "listing",
           "windows", "checks", "life", "start"}

\* The records that have the fields of a request.
IsRequest(q) == DOMAIN q = Fields /\ q = [field \in Fields |-> q[field]]

Typed(q) ==
  /\ q.pc \in {"idle", "arrived", "write"} \cup Gated /\ q.kind \in Kinds \cup {None}
  /\ q.code \in {"ok", "error", None} /\ q.late \in BOOLEAN /\ q.generation \in Nat
  /\ q.outcome \in Results \cup {None} /\ q.listed \in Nat \cup {None}
  /\ q.listing \in Presences \cup {None} /\ q.windows \in SUBSET Check
  /\ q.checks \in [Stages -> Check] \cup {None} /\ q.life \in Lives \cup {None}
  /\ q.start \in [generation : Nat, attempted : BOOLEAN]

\* The type of a request is that of its fields.
LEMMA RequestType == \A q : q \in Answering <=> IsRequest(q) /\ Typed(q)
<1>1. ASSUME NEW q \in Answering
      PROVE  IsRequest(q) /\ Typed(q)
  BY DEF Answering, IsRequest, Typed, Fields
<1>2. ASSUME NEW q, IsRequest(q), Typed(q)
      PROVE  q \in Answering
  <2>1. q = [pc |-> q.pc, kind |-> q.kind, code |-> q.code, late |-> q.late,
             generation |-> q.generation, outcome |-> q.outcome, listed |-> q.listed,
             listing |-> q.listing, windows |-> q.windows, checks |-> q.checks,
             life |-> q.life, start |-> q.start]
    BY <1>2 DEF IsRequest, Fields
  <2> QED
    BY <1>2, <2>1 DEF Answering, Typed
<1> QED
  BY <1>1, <1>2

\* A request that has nothing yet.
LEMMA NothingRead ==
  /\ IsRequest(NoAnswer) /\ NoAnswer \in Answering
  /\ \A rooms \in Seq(Generation) : ReadOK(NoAnswer, rooms)
  /\ StepOK(NoAnswer) /\ \A m : SeenOK(NoAnswer, m)
<1>1. IsRequest(NoAnswer)
  BY DEF NoAnswer, IsRequest, Fields
<1>2. Typed(NoAnswer)
  BY DEF NoAnswer, Typed
<1>3. \A rooms \in Seq(Generation) : ReadOK(NoAnswer, rooms)
  BY QueryAssumption DEF NoAnswer, ReadOK, Chosen, AnsweredOK
<1>4. StepOK(NoAnswer)
  BY QueryAssumption DEF NoAnswer, StepOK, Opened
<1>5. NoAnswer.kind = None /\ NoAnswer.pc = "idle" /\ NoAnswer.listing = None
  BY DEF NoAnswer
<1>6. \A m : SeenOK(NoAnswer, m)
  BY <1>5, QueryAssumption DEF SeenOK, Presences, Kinds
<1> QED
  BY <1>1, <1>2, <1>3, <1>4, <1>6, RequestType

\* An answer: an error keeps nothing of what was read, and a success comes
\* last, from a context, a search or a file.
LEMMA AnswerStep ==
  ASSUME QInv, NEW r \in Requests, NEW code \in {"ok", "error"}, Answer(r, code),
         req[r].pc \in Gated \cup {"arrived"},
         code = "ok" => \/ req[r].pc = "context" /\ req[r].kind # "search"
                        \/ req[r].pc = "answer" \/ req[r].pc = "file"
  PROVE  QInv'
<1> DEFINE old == req[r]
           good == [old EXCEPT !.pc = "write", !.code = code, !.late = FALSE,
                               !.outcome = None, !.listed = None, !.windows = {},
                               !.checks = None]
           bad == [NoAnswer EXCEPT !.pc = "write", !.code = code]
<1>1. /\ old \in Answering /\ IsRequest(old) /\ Typed(old)
      /\ StepOK(old) /\ ReadOK(old, db.rooms) /\ SeenOK(old, moments[r])
      /\ moments[r] \in SUBSET BOOLEAN /\ moments \in [Requests -> SUBSET BOOLEAN]
  BY Own, RequestType
<1>2. /\ UNCHANGED <<now, db>> /\ free' = Semaphore(old.pc, "write")
      /\ "write" \notin Gated
  BY DEF Answer, Released, Holds, Semaphore, Gated, Opened
<1>3. CASE code = "error"
  <2>1. req' = [req EXCEPT ![r] = bad] /\ moments' = [moments EXCEPT ![r] = {}]
    BY <1>1, <1>3 DEF Answer, To
  <2>2. /\ bad.pc = "write" /\ bad.code = "error" /\ IsRequest(bad)
        /\ \A field \in Fields \ {"pc", "code"} : bad[field] = NoAnswer[field]
    BY <1>3, NothingRead DEF IsRequest, Fields
  <2> HIDE DEF bad
  <2>3. bad \in Answering
    <3>1. Typed(bad)
      BY <2>2, NothingRead, RequestType DEF Typed, Fields
    <3> QED
      BY <2>2, <3>1, RequestType
  <2>4. ReadOK(bad, db.rooms)
    BY <2>2, NothingRead, Own, QueryAssumption DEF NoAnswer, ReadOK, Chosen, AnsweredOK, Fields
  <2>5. StepOK(bad) /\ SeenOK(bad, {})
    BY <1>2, <2>2, QueryAssumption
       DEF NoAnswer, StepOK, SeenOK, Opened, Presences, Kinds, Fields
  <2> HIDE DEF old
  <2> QED
    BY <1>2, <2>1, <2>2, <2>3, <2>4, <2>5, RequestStep DEF old
<1>4. CASE code = "ok"
  <2>1. req' = [req EXCEPT ![r] = good] /\ moments' = [moments EXCEPT ![r] = moments[r]]
    BY <1>1, <1>4 DEF Answer, To
  <2>2. /\ good.pc = "write" /\ good.code = "ok" /\ good.late = FALSE /\ good.outcome = None
        /\ good.listed = None /\ good.windows = {} /\ good.checks = None /\ IsRequest(good)
        /\ \A field \in {"kind", "generation", "listing", "life", "start"} :
             good[field] = old[field]
    BY <1>1, <1>4 DEF IsRequest, Fields
  <2>3. (old.pc = "context" /\ old.kind # "search") \/ old.pc = "answer" \/ old.pc = "file"
    BY <1>4
  <2> HIDE DEF good, old
  <2>4. good \in Answering
    <3>1. Typed(good)
      BY <1>1, <2>2 DEF Typed
    <3> QED
      BY <2>2, <3>1, RequestType
  <2>5. /\ Chosen(good) => Chosen(old)
        /\ old.kind = "record" /\ Chosen(good) => old.pc = "context"
        /\ old.kind = "search" /\ Chosen(good) => old.pc = "answer"
    <3>1. old.pc = "answer" => old.kind = "search"
      BY <1>1 DEF StepOK
    <3>2. good.kind = old.kind
      BY <2>2
    <3>3. Chosen(good) => old.kind \in {"search", "record"}
      BY <3>2 DEF Chosen
    <3>4. old.pc = "file" => old.kind \notin {"search", "record"}
      BY <1>1 DEF StepOK
    <3> QED
      BY <2>3, <3>1, <3>3, <3>4 DEF Chosen
  <2>6. ReadOK(good, db.rooms)
    BY <1>1, <2>2, <2>3, <2>5 DEF ReadOK, Chosen
  <2>7. StepOK(good) /\ SeenOK(good, moments[r])
    BY <1>1, <1>2, <2>2 DEF StepOK, SeenOK, Opened
  <2> QED
    BY <1>1, <1>2, <2>1, <2>2, <2>4, <2>6, <2>7, RequestStep DEF old
<1> QED
  BY <1>3, <1>4

\* The steps that only go on.
LEMMA GotoStep ==
  ASSUME QInv, NEW r \in Requests, NEW step, Goto(r, step), UNCHANGED <<now, db, moments>>,
         \/ At(r, "arrived") /\ step = "routed" /\ free > 0 /\ free' = free - 1
         \/ /\ free' = free
            /\ \/ At(r, "routed") /\ step = IF req[r].kind = "snapshot" THEN "file" ELSE "open"
               \/ At(r, "open") /\ step = First(req[r].kind)
               \/ At(r, "context") /\ req[r].kind = "search" /\ step = "windows"
               \/ At(r, "did") /\ step = "context"
  PROVE  QInv'
<1> DEFINE old == req[r]
           new == [old EXCEPT !.pc = step]
<1>1. /\ old \in Answering /\ IsRequest(old) /\ Typed(old) /\ free \in 0..Capacity
      /\ StepOK(old) /\ ReadOK(old, db.rooms) /\ SeenOK(old, moments[r])
      /\ moments[r] \in SUBSET BOOLEAN /\ moments \in [Requests -> SUBSET BOOLEAN]
  BY Own, RequestType
<1>2. req' = [req EXCEPT ![r] = new] /\ moments' = [moments EXCEPT ![r] = moments[r]]
  BY <1>1 DEF Goto, To
<1>3. /\ new.pc = step /\ IsRequest(new)
      /\ \A field \in Fields \ {"pc"} : new[field] = old[field]
  BY <1>1 DEF IsRequest, Fields
<1>4. \/ old.pc = "arrived" /\ step = "routed" /\ free > 0 /\ free' = free - 1
      \/ /\ free' = free
         /\ \/ old.pc = "routed" /\ old.kind # "snapshot" /\ step = "open"
            \/ old.pc = "routed" /\ old.kind = "snapshot" /\ step = "file"
            \/ old.pc = "open" /\ old.kind = "search" /\ step = "rows"
            \/ old.pc = "open" /\ old.kind = "record" /\ step = "room"
            \/ old.pc = "open" /\ old.kind = "did" /\ step = "did"
            \/ old.pc = "context" /\ old.kind = "search" /\ step = "windows"
            \/ old.pc = "did" /\ old.kind = "did" /\ step = "context"
  BY <1>1 DEF At, First, StepOK, Kinds
<1> HIDE DEF new, old
<1>5. step \in Gated /\ old.pc \in Gated \cup {"arrived"}
  BY <1>4 DEF Gated, Opened
<1>6. new \in Answering
  <2>1. Typed(new)
    BY <1>1, <1>3, <1>5 DEF Typed, Fields
  <2> QED
    BY <1>3, <2>1, RequestType
<1>7. free' = Semaphore(old.pc, step) /\ (old.pc \notin Gated => free > 0)
  BY <1>1, <1>4 DEF Semaphore, Gated, Opened
<1>8. StepOK(new)
  BY <1>1, <1>3, <1>4 DEF StepOK, Fields, Opened, Kinds
<1>9. ReadOK(new, db.rooms)
  <2>1. Chosen(new) => old.pc = "context" /\ step = "windows" /\ old.kind = "search" /\ Chosen(old)
    BY <1>3, <1>4 DEF Chosen, AnsweredOK, Fields
  <2> QED
    BY <1>1, <1>3, <1>4, <2>1 DEF ReadOK, Fields
<1>10. SeenOK(new, moments[r])
  BY <1>1, <1>3, <1>4, <1>5 DEF SeenOK, Fields
<1> QED
  BY <1>1, <1>2, <1>3, <1>6, <1>7, <1>8, <1>9, <1>10, RequestStep DEF old

\* A request without an answer yet is forgotten, and the one that is answered.
LEMMA EndStep ==
  ASSUME QInv, NEW r \in Requests, Uncaught(r) \/ Written(r)
  PROVE  QInv'
<1>1. /\ req' = [req EXCEPT ![r] = NoAnswer] /\ moments' = [moments EXCEPT ![r] = {}]
      /\ UNCHANGED <<now, db>> /\ NoAnswer.pc = "idle" /\ "idle" \notin Gated
      /\ free' = Semaphore(req[r].pc, "idle")
  BY DEF Uncaught, Written, To, At, Released, Holds, Semaphore, NoAnswer, Gated, Opened
<1> QED
  BY <1>1, NothingRead, Own, RequestStep

\* The deadline passes.
LEMMA ExpireStep ==
  ASSUME QInv, NEW r \in Requests, Expire(r)
  PROVE  QInv'
<1> DEFINE old == req[r]
           new == [old EXCEPT !.late = TRUE]
<1>1. /\ old \in Answering /\ IsRequest(old) /\ Typed(old)
      /\ StepOK(old) /\ ReadOK(old, db.rooms) /\ SeenOK(old, moments[r])
      /\ moments[r] \in SUBSET BOOLEAN /\ moments \in [Requests -> SUBSET BOOLEAN]
  BY Own, RequestType
<1>2. /\ req' = [req EXCEPT ![r] = new] /\ moments' = [moments EXCEPT ![r] = moments[r]]
      /\ UNCHANGED <<now, db>> /\ free' = free
  BY <1>1 DEF Expire, To
<1>3. /\ new.late = TRUE /\ IsRequest(new)
      /\ \A field \in Fields \ {"late"} : new[field] = old[field]
  BY <1>1 DEF IsRequest, Fields
<1> HIDE DEF new, old
<1>4. new \in Answering
  <2>1. Typed(new)
    BY <1>1, <1>3 DEF Typed, Fields
  <2> QED
    BY <1>3, <2>1, RequestType
<1>5. StepOK(new) /\ SeenOK(new, moments[r]) /\ new.pc = old.pc
  BY <1>1, <1>3 DEF StepOK, SeenOK, Fields
<1>6. ReadOK(new, db.rooms)
  BY <1>1, <1>3 DEF ReadOK, Chosen, AnsweredOK, Fields
<1> QED
  BY <1>1, <1>2, <1>4, <1>5, <1>6, RequestStep DEF old, Semaphore

\* The newest row of the database.
LEMMA NewestRow ==
  ASSUME QInv
  PROVE  /\ Newest(db) \in 1..Len(db.rooms)
         /\ db.rooms[Newest(db)].checks \in [Stages -> Check]
         /\ Consistent(db.rooms[Newest(db)].checks)
         /\ db.rooms[Newest(db)].listed \in Nat \cup {None}
<1>1. /\ Len(db.rooms) \in Nat \ {0} /\ DOMAIN db.rooms = 1..Len(db.rooms) /\ DatabaseOK
      /\ \A g \in 1..Len(db.rooms) : /\ db.rooms[g].checks \in [Stages -> Check]
                                     /\ db.rooms[g].listed \in Nat \cup {None}
  BY GenerationRows DEF QInv
<1>2. Newest(db) \in 1..Len(db.rooms)
  BY <1>1 DEF Newest
<1>3. Consistent(db.rooms[Newest(db)].checks)
  BY <1>1, <1>2 DEF DatabaseOK, Consistent
<1> QED
  BY <1>1, <1>2, <1>3

\* A request comes; what was committed then is what the database holds.
LEMMA ArriveStep ==
  ASSUME QInv, NEW r \in Requests, Arrive(r)
  PROVE  QInv'
<1> DEFINE begun == [generation |-> Newest(db),
                     attempted |-> OutcomeOf(db.rooms[Newest(db)].checks) # None]
           nothing == NoAnswer.start
<1>1. PICK kind \in Asks[r] :
        req' = [req EXCEPT ![r] =
                  [NoAnswer EXCEPT !.pc = "arrived", !.kind = kind,
                     !.start = IF kind \notin {"search", "record"} THEN nothing ELSE begun]]
  BY DEF Arrive, To
<1> DEFINE start == IF kind \notin {"search", "record"} THEN nothing ELSE begun
           new == [NoAnswer EXCEPT !.pc = "arrived", !.kind = kind, !.start = start]
           m == IF kind = "record" THEN {Listed(db)} ELSE {}
<1>2. /\ req \in [Requests -> Answering] /\ moments \in [Requests -> SUBSET BOOLEAN]
      /\ req[r].pc = "idle" /\ kind \in Kinds /\ UNCHANGED <<now, db, free>>
  BY Own, QueryAssumption DEF Arrive, At
<1>3. /\ new.pc = "arrived" /\ new.kind = kind /\ new.start = start /\ IsRequest(new)
      /\ \A field \in Fields \ {"pc", "kind", "start"} : new[field] = NoAnswer[field]
  BY NothingRead DEF IsRequest, Fields
<1>4. req' = [req EXCEPT ![r] = new]
  BY <1>1
<1> HIDE DEF new
<1>5. moments' = [moments EXCEPT ![r] = m]
  BY <1>2, <1>3, <1>4 DEF Arrive
<1>6. /\ start.generation \in 0..Len(db.rooms) /\ start.attempted \in BOOLEAN
      /\ start \in [generation : Nat, attempted : BOOLEAN]
      /\ start.attempted => /\ start.generation > 0
                            /\ Attempted(db.rooms[start.generation].checks)
  <2>1. nothing = [generation |-> 0, attempted |-> FALSE]
    BY DEF NoAnswer
  <2>2. begun.attempted => Attempted(db.rooms[Newest(db)].checks)
    BY NewestRow, LatestMade DEF OutcomeOf
  <2>3. /\ Newest(db) \in 1..Len(db.rooms) /\ Len(db.rooms) \in Nat
        /\ begun.generation = Newest(db) /\ begun.attempted \in BOOLEAN
        /\ begun \in [generation : Nat, attempted : BOOLEAN]
    BY NewestRow, Own
  <2> HIDE DEF begun, nothing
  <2>4. CASE kind \in {"search", "record"}
    BY <2>2, <2>3, <2>4
  <2>5. CASE kind \notin {"search", "record"}
    BY <2>1, <2>3, <2>5
  <2> QED
    BY <2>4, <2>5
<1> HIDE DEF start
<1>7. new \in Answering
  <2>1. Typed(new)
    BY <1>2, <1>3, <1>6, NothingRead, RequestType DEF Typed, Fields
  <2> QED
    BY <1>3, <2>1, RequestType
<1>8. m \in SUBSET BOOLEAN /\ SeenOK(new, m)
  <2>1. new.listing = None /\ new.listed = None
    BY <1>3 DEF Fields, NoAnswer
  <2> QED
    BY <1>3, <2>1, QueryAssumption DEF SeenOK, Presences, Listed
<1>9. StepOK(new)
  BY <1>2, <1>3 DEF StepOK, Fields, NoAnswer, Opened
<1>10. ReadOK(new, db.rooms)
  BY <1>3, <1>6 DEF ReadOK, Chosen, AnsweredOK
<1> HIDE DEF m
<1> QED
  BY <1>2, <1>3, <1>4, <1>5, <1>7, <1>8, <1>9, <1>10, RequestStep
     DEF Semaphore, Gated, Opened

(***************************************************************************)
(* The statements.                                                         *)
(***************************************************************************)

\* A statement that reads something for its request.
LEMMA ReadStep ==
  ASSUME QInv, NEW r \in Requests, NEW step, NEW q, Reads(r, step, q), IsRequest(q), Typed(q),
         step \in Gated, q.pc \in Gated, StepOK(q), ReadOK(q, db.rooms), SeenOK(q, moments[r])
  PROVE  QInv'
<1>1. /\ req' = [req EXCEPT ![r] = q] /\ moments' = [moments EXCEPT ![r] = moments[r]]
      /\ UNCHANGED <<now, db>> /\ free' = free /\ req[r].pc = step
  BY Own DEF Reads, At, To
<1> QED
  BY <1>1, Own, RequestType, RequestStep DEF Semaphore

\* room_search_payload reads the newest row and its latest outcome.
LEMMA RowsStep ==
  ASSUME QInv, NEW r \in Requests, Rows(r)
  PROVE  QInv'
<1> DEFINE old == req[r]
           checks == db.rooms[Newest(db)].checks
           new == [old EXCEPT !.pc = "context", !.generation = Newest(db),
                              !.outcome = OutcomeOf(checks)]
<1>1. /\ old \in Answering /\ IsRequest(old) /\ Typed(old) /\ old.pc = "rows"
      /\ StepOK(old) /\ ReadOK(old, db.rooms) /\ SeenOK(old, moments[r])
      /\ Reads(r, "rows", new) /\ Len(db.rooms) \in Nat \ {0} /\ Newest(db) = Len(db.rooms)
  BY Own, RequestType DEF Rows, Reads, At, Newest
<1>2. /\ new.pc = "context" /\ new.generation = Newest(db) /\ new.outcome = OutcomeOf(checks)
      /\ IsRequest(new)
      /\ \A field \in Fields \ {"pc", "generation", "outcome"} : new[field] = old[field]
  BY <1>1 DEF IsRequest, Fields
<1>3. checks \in [Stages -> Check] /\ Consistent(checks)
  BY NewestRow
<1>4. OutcomeOf(checks) \in Results \cup {None} /\ (Attempted(checks) => OutcomeOf(checks) # None)
  <2>1. 0 \in Nat /\ None \notin Results
    BY QueryAssumption
  <2> HIDE DEF checks
  <2> QED
    BY <1>3, <2>1, RecordStates
<1> HIDE DEF new, old
<1>5. old.kind = "search"
  BY <1>1 DEF StepOK
<1>6. Typed(new)
  BY <1>1, <1>2, <1>4 DEF Typed, Fields, Gated, Opened
<1>7. StepOK(new) /\ SeenOK(new, moments[r])
  BY <1>1, <1>2, <1>5 DEF StepOK, SeenOK, Fields, Opened, Kinds
<1>8. ReadOK(new, db.rooms)
  BY <1>1, <1>2, <1>4, <1>5 DEF ReadOK, Chosen, Fields, Typed
<1> QED
  BY <1>1, <1>2, <1>6, <1>7, <1>8, ReadStep DEF Gated, Opened

\* The windows without an attempt.
LEMMA WindowsStep ==
  ASSUME QInv, NEW r \in Requests, Windows(r)
  PROVE  QInv'
<1> DEFINE old == req[r]
           windows == Pending(db.rooms[old.generation].checks)
           new == [old EXCEPT !.pc = "states", !.windows = windows]
<1>1. /\ old \in Answering /\ IsRequest(old) /\ Typed(old) /\ old.pc = "windows"
      /\ StepOK(old) /\ ReadOK(old, db.rooms) /\ SeenOK(old, moments[r])
      /\ Reads(r, "windows", new)
  BY Own, RequestType DEF Windows, Reads, At
<1>2. /\ new.pc = "states" /\ new.windows = windows /\ IsRequest(new)
      /\ \A field \in Fields \ {"pc", "windows"} : new[field] = old[field]
  BY <1>1 DEF IsRequest, Fields
<1>3. old.kind = "search" /\ Chosen(old)
  BY <1>1 DEF StepOK, Chosen
<1>4. windows \in SUBSET Check
  <2>1. old.generation \in 1..Len(db.rooms)
    BY <1>1, <1>3 DEF ReadOK
  <2>2. db.rooms[old.generation].checks \in [Stages -> Check]
    BY <2>1, GenerationRows DEF QInv
  <2> QED
    BY <2>2 DEF Pending
<1> HIDE DEF new, old, windows
<1>5. Typed(new)
  BY <1>1, <1>2, <1>4 DEF Typed, Fields, Gated, Opened
<1>6. StepOK(new) /\ SeenOK(new, moments[r])
  BY <1>1, <1>2, <1>3 DEF StepOK, SeenOK, Fields, Opened, Kinds
<1>7. ReadOK(new, db.rooms)
  BY <1>1, <1>2, <1>3 DEF ReadOK, Chosen, Fields
<1> QED
  BY <1>1, <1>2, <1>5, <1>6, <1>7, ReadStep DEF Gated, Opened

\* room_record reads the newest row.
LEMMA RoomStep ==
  ASSUME QInv, NEW r \in Requests, Room(r)
  PROVE  QInv'
<1> DEFINE old == req[r]
           listed == db.rooms[Newest(db)].listed
           new == [old EXCEPT !.pc = "checks", !.generation = Newest(db), !.listed = listed]
<1>1. /\ old \in Answering /\ IsRequest(old) /\ Typed(old) /\ old.pc = "room"
      /\ StepOK(old) /\ ReadOK(old, db.rooms) /\ SeenOK(old, moments[r])
      /\ Reads(r, "room", new) /\ Len(db.rooms) \in Nat \ {0} /\ Newest(db) = Len(db.rooms)
  BY Own, RequestType DEF Room, Reads, At, Newest
<1>2. /\ new.pc = "checks" /\ new.generation = Newest(db) /\ new.listed = listed
      /\ IsRequest(new)
      /\ \A field \in Fields \ {"pc", "generation", "listed"} : new[field] = old[field]
  BY <1>1 DEF IsRequest, Fields
<1>3. /\ old.kind = "record" /\ old.listing = None
      /\ Listed(db) \in moments[r]
  BY <1>1 DEF StepOK, SeenOK, Gated, Opened
<1>4. listed \in Nat \cup {None}
  BY NewestRow
<1>5. listed # None => /\ db.listing # None /\ listed <= db.listing
                       /\ listed = db.listing => TRUE \in moments[r]
  <2>1. DatabaseOK /\ Newest(db) \in DOMAIN db.rooms
    BY NewestRow, GenerationRows DEF QInv
  <2> QED
    BY <1>3, <2>1 DEF DatabaseOK, Listed
<1> HIDE DEF new, old, listed
<1>6. Typed(new)
  BY <1>1, <1>2, <1>4 DEF Typed, Fields, Gated, Opened
<1>7. StepOK(new)
  BY <1>1, <1>2, <1>3 DEF StepOK, Fields, Opened, Kinds
<1>8. SeenOK(new, moments[r])
  BY <1>2, <1>3, <1>5, QueryAssumption DEF SeenOK, Fields, Presences
<1>9. ReadOK(new, db.rooms)
  BY <1>1, <1>2, <1>3 DEF ReadOK, Chosen, Fields, Typed
<1> QED
  BY <1>1, <1>2, <1>6, <1>7, <1>8, <1>9, ReadStep DEF Gated, Opened

\* room_record reads the checks of that row; an attempt that was committed
\* before the request is among them.
LEMMA ChecksStep ==
  ASSUME QInv, NEW r \in Requests, Checks(r)
  PROVE  QInv'
<1> DEFINE old == req[r]
           checks == db.rooms[old.generation].checks
           new == [old EXCEPT !.pc = "metadata", !.checks = checks]
<1>1. /\ old \in Answering /\ IsRequest(old) /\ Typed(old) /\ old.pc = "checks"
      /\ StepOK(old) /\ ReadOK(old, db.rooms) /\ SeenOK(old, moments[r])
      /\ Reads(r, "checks", new)
  BY Own, RequestType DEF Checks, Reads, At
<1>2. /\ new.pc = "metadata" /\ new.checks = checks /\ IsRequest(new)
      /\ \A field \in Fields \ {"pc", "checks"} : new[field] = old[field]
  BY <1>1 DEF IsRequest, Fields
<1>3. old.kind = "record" /\ Chosen(old)
  BY <1>1 DEF StepOK, Chosen
<1>4. /\ checks \in [Stages -> Check] /\ checks # None
      /\ \A s \in Stages : checks[s].attempted # None => checks[s].outcome # None
  <2>1. old.generation \in 1..Len(db.rooms)
    BY <1>1, <1>3 DEF ReadOK
  <2>2. checks \in [Stages -> Check] /\ old.generation \in DOMAIN db.rooms
    BY <2>1, GenerationRows DEF QInv
  <2> QED
    BY <2>2, NullAssumption DEF QInv, DatabaseOK
<1>5. old.generation = old.start.generation /\ old.start.attempted => Attempted(checks)
  BY <1>1 DEF ReadOK
<1> HIDE DEF new, old, checks
<1>6. Typed(new)
  BY <1>1, <1>2, <1>4 DEF Typed, Fields, Gated, Opened
<1>7. StepOK(new) /\ SeenOK(new, moments[r])
  BY <1>1, <1>2, <1>3 DEF StepOK, SeenOK, Fields, Opened, Kinds, Gated
<1>8. ReadOK(new, db.rooms)
  BY <1>1, <1>2, <1>3, <1>4, <1>5 DEF ReadOK, Chosen, Fields
<1> QED
  BY <1>1, <1>2, <1>6, <1>7, <1>8, ReadStep DEF Gated, Opened

\* room_record reads the newest listing: a room that is present in it by the
\* row that was read before was so when that row was read.
LEMMA MetadataStep ==
  ASSUME QInv, NEW r \in Requests, Metadata(r)
  PROVE  QInv'
<1> DEFINE old == req[r]
           listing == Presence(old.listed, db.listing)
           new == [old EXCEPT !.pc = "states", !.listed = None, !.listing = listing]
<1>1. /\ old \in Answering /\ IsRequest(old) /\ Typed(old) /\ old.pc = "metadata"
      /\ StepOK(old) /\ ReadOK(old, db.rooms) /\ SeenOK(old, moments[r])
      /\ Reads(r, "metadata", new)
  BY Own, RequestType DEF Metadata, Reads, At
<1>2. /\ new.pc = "states" /\ new.listed = None /\ new.listing = listing /\ IsRequest(new)
      /\ \A field \in Fields \ {"pc", "listed", "listing"} : new[field] = old[field]
  BY <1>1 DEF IsRequest, Fields
<1>3. old.kind = "record" /\ Listed(db) \in moments[r]
  BY <1>1 DEF StepOK, SeenOK, Gated, Opened
<1>4. listing \in Presences
  BY DEF Presence, Presences
<1>5. listing = "present" => TRUE \in moments[r]
  BY <1>1 DEF SeenOK, Presence
<1> HIDE DEF new, old, listing
<1>6. Typed(new)
  BY <1>1, <1>2, <1>4 DEF Typed, Fields, Gated, Opened
<1>7. StepOK(new) /\ SeenOK(new, moments[r])
  BY <1>1, <1>2, <1>3, <1>5 DEF StepOK, SeenOK, Fields, Opened, Kinds
<1>8. ReadOK(new, db.rooms)
  BY <1>1, <1>2, <1>3 DEF ReadOK, Chosen, Fields
<1> QED
  BY <1>1, <1>2, <1>6, <1>7, <1>8, ReadStep DEF Gated, Opened

\* The states are those of the checks, or of the outcome and the windows.
LEMMA StatesStep ==
  ASSUME QInv, NEW r \in Requests, States(r)
  PROVE  QInv'
<1> DEFINE old == req[r]
           ofRecord == [old EXCEPT !.pc = "context", !.checks = None,
                                   !.life = RecordState(old.checks, now)]
           ofSearch == [old EXCEPT !.pc = "answer", !.windows = {}, !.outcome = None,
                                   !.life = SearchState(old.outcome, old.windows, now)]
<1>1. /\ old \in Answering /\ IsRequest(old) /\ Typed(old) /\ old.pc = "states"
      /\ StepOK(old) /\ ReadOK(old, db.rooms) /\ SeenOK(old, moments[r])
      /\ old.kind \in {"search", "record"} /\ Chosen(old)
  BY Own, RequestType DEF States, At, StepOK, Chosen
<1>2. CASE old.kind = "record"
  <2> DEFINE new == ofRecord
  <2>1. Reads(r, "states", new)
    BY <1>2 DEF States
  <2>2. /\ new.pc = "context" /\ new.checks = None /\ IsRequest(new)
        /\ new.life = RecordState(old.checks, now)
        /\ \A field \in Fields \ {"pc", "checks", "life"} : new[field] = old[field]
    BY <1>1 DEF IsRequest, Fields
  <2>3. /\ new.life \in Lives
        /\ Attempted(old.checks) => new.life \in Results
    <3>1. old.checks \in [Stages -> Check] /\ Consistent(old.checks)
      BY <1>1, <1>2 DEF Typed, ReadOK, Consistent
    <3>2. now \in Nat
      BY GenerationRows DEF QInv
    <3> HIDE DEF old, new
    <3> QED
      BY <2>2, <3>1, <3>2, RecordStates
  <2> HIDE DEF new, old
  <2>4. Typed(new)
    BY <1>1, <2>2, <2>3 DEF Typed, Fields, Gated, Opened
  <2>5. StepOK(new) /\ SeenOK(new, moments[r])
    <3>1. StepOK(new)
      BY <1>2, <2>2 DEF StepOK, Fields, Opened, Kinds
    <3>2. SeenOK(new, moments[r])
      BY <1>1, <1>2, <2>2 DEF SeenOK, Fields, Gated, Opened
    <3> QED
      BY <3>1, <3>2
  <2>6. ReadOK(new, db.rooms)
    BY <1>1, <1>2, <2>2, <2>3 DEF ReadOK, Chosen, Fields
  <2> QED
    BY <2>1, <2>2, <2>4, <2>5, <2>6, ReadStep DEF Gated, Opened
<1>3. CASE old.kind = "search"
  <2> DEFINE new == ofSearch
  <2>1. Reads(r, "states", new)
    BY <1>3 DEF States
  <2>2. /\ new.pc = "answer" /\ new.windows = {} /\ new.outcome = None /\ IsRequest(new)
        /\ new.life = SearchState(old.outcome, old.windows, now)
        /\ \A field \in Fields \ {"pc", "windows", "outcome", "life"} : new[field] = old[field]
    BY <1>1 DEF IsRequest, Fields
  <2>3. /\ new.life \in Lives
        /\ old.outcome # None => new.life \in Results
    BY <1>1, <2>2 DEF Typed, SearchState, StateOfWindows, Lives
  <2> HIDE DEF new, old
  <2>4. Typed(new)
    BY <1>1, <2>2, <2>3 DEF Typed, Fields, Gated, Opened
  <2>5. StepOK(new) /\ SeenOK(new, moments[r])
    <3>1. StepOK(new)
      BY <1>3, <2>2 DEF StepOK, Fields, Opened, Kinds
    <3>2. SeenOK(new, moments[r])
      BY <1>1, <1>3, <2>2 DEF SeenOK, Fields
    <3> QED
      BY <3>1, <3>2
  <2>6. ReadOK(new, db.rooms)
    BY <1>1, <1>3, <2>2, <2>3 DEF ReadOK, Chosen, Fields
  <2> QED
    BY <2>1, <2>2, <2>4, <2>5, <2>6, ReadStep DEF Gated, Opened
<1> QED
  BY <1>1, <1>2, <1>3

(***************************************************************************)
(* The collector and the clock.                                            *)
(***************************************************************************)

\* A listing is in the future of every listing before it.
LEMMA Later ==
  ASSUME QInv, LaterTick
  PROVE  db.listing # None => db.listing < now
BY DEF LaterTick

\* The invariant is kept by a commit that keeps every attempt, lists no row
\* later than its listing, and lists at a later time than before.
LEMMA CommitStep ==
  ASSUME QInv, LaterTick, UNCHANGED <<now, free, req>>, Observe(db'),
         NEW rooms \in Seq(Generation), db' = [rooms |-> rooms, listing |-> now],
         Len(rooms) \in 1..MaxGenerations, Len(db.rooms) <= Len(rooms),
         \A g \in 1..Len(rooms) :
           Consistent(rooms[g].checks) /\ (rooms[g].listed # None => rooms[g].listed <= now),
         \A g \in 1..Len(db.rooms) :
           Attempted(db.rooms[g].checks) => Attempted(rooms[g].checks)
  PROVE  QInv'
<1>1. /\ TypeOK /\ DatabaseOK /\ now \in Nat /\ db.listing \in Nat \cup {None}
      /\ Len(db.rooms) \in Nat /\ Len(rooms) \in Nat
  BY GenerationRows, QueryAssumption DEF QInv
<1>2. db'.rooms = rooms /\ db'.listing = now
  OBVIOUS
<1>3. \A p \in Requests :
        moments'[p] = IF req[p].pc \notin Gated \cup {"arrived"} \/ req[p].kind # "record"
                      THEN moments[p] ELSE moments[p] \cup {Listed(db')}
  BY DEF Observe
<1>4. TypeOK'
  <2>1. db' \in [rooms : Seq(Generation), listing : 0..now \cup {None}]
    BY <1>1
  <2>2. Listed(db') \in BOOLEAN
    BY DEF Listed
  <2>3. moments' \in [Requests -> SUBSET BOOLEAN]
    BY <1>1, <2>2 DEF Observe, TypeOK
  <2> QED
    BY <1>1, <1>2, <2>1, <2>3 DEF TypeOK
<1>5. DatabaseOK'
  <2>1. DOMAIN rooms = 1..Len(rooms)
    OBVIOUS
  <2>2. now # None
    BY <1>1, QueryAssumption
  <2> QED
    BY <1>2, <2>1, <2>2 DEF DatabaseOK, Consistent
<1>6. IsFiniteSet({r \in Requests : req[r].pc \in Gated})' /\ SlotsExact'
  BY <1>4 DEF QInv, SlotsExact
<1>7. ASSUME NEW p \in Requests
      PROVE  (StepOK(req[p]) /\ ReadOK(req[p], db.rooms) /\ SeenOK(req[p], moments[p]))'
  <2> DEFINE q == req[p]
  <2>1. /\ q \in Answering /\ Typed(q) /\ StepOK(q) /\ ReadOK(q, db.rooms)
        /\ SeenOK(q, moments[p])
    BY Own, RequestType
  <2>2. q.start.generation \in Nat
    BY <2>1 DEF Typed
  <2> HIDE DEF q
  <2>3. ReadOK(q, rooms)
    BY <1>1, <2>1, <2>2 DEF ReadOK
  <2>4. moments[p] \subseteq moments'[p]
    BY <1>3
  <2>5. q.kind = "record" /\ q.pc \in Gated \cup {"arrived"} => Listed(db') \in moments'[p]
    BY <1>3 DEF q
  <2>6. q.listed \in Nat \cup {None} /\ now # None
    BY <1>1, <2>1, QueryAssumption DEF Typed
  <2>7. q.pc \in {"checks", "metadata"} /\ q.listed # None =>
          /\ db'.listing # None /\ q.listed <= db'.listing
          /\ q.listed = db'.listing => TRUE \in moments'[p]
    <3>1. q.pc \in {"checks", "metadata"} /\ q.listed # None =>
            /\ q.listed \in Nat /\ db.listing \in Nat
            /\ q.listed <= db.listing /\ db.listing < now
      BY <1>1, <2>1, <2>6, Later DEF SeenOK
    <3>2. \A a, b \in Nat : a <= b /\ b < now => a <= now /\ a # now
      BY <1>1
    <3>3. q.pc \in {"checks", "metadata"} /\ q.listed # None => q.listed <= now /\ q.listed # now
      BY <3>1, <3>2
    <3> QED
      BY <1>2, <2>6, <3>3
  <2>8. q.listing = "present" => TRUE \in moments'[p]
    BY <2>1, <2>4 DEF SeenOK
  <2>9. SeenOK(q, moments[p])'
    BY <2>5, <2>7, <2>8 DEF SeenOK, Listed, Newest, q
  <2>10. StepOK(q)' /\ ReadOK(q, db.rooms)'
    BY <1>2, <2>1, <2>3 DEF q
  <2> QED
    BY <2>9, <2>10 DEF q
<1> QED
  BY <1>4, <1>5, <1>6, <1>7 DEF QInv

\* The commit of a tick makes attempts of checks that had none.
LEMMA TickCommit == ASSUME QInv, Commit PROVE QInv'
<1> DEFINE g == Len(db.rooms)
<1>1. PICK listed \in BOOLEAN, read \in SUBSET Due(db.rooms[g].checks), outcome \in Results :
        /\ db' = [rooms |-> [db.rooms EXCEPT
                    ![g].listed = IF listed THEN now ELSE @,
                    ![g].checks = [s \in Stages |->
                       IF s \in read THEN [@[s] EXCEPT !.attempted = now, !.outcome = outcome]
                       ELSE @[s]]],
                  listing |-> now]
        /\ Observe(db')
  BY DEF Commit
<1> DEFINE row == db.rooms[g]
           checks == [s \in Stages |->
                        IF s \in read
                        THEN [row.checks[s] EXCEPT !.attempted = now, !.outcome = outcome]
                        ELSE row.checks[s]]
           room == [listed |-> IF listed THEN now ELSE row.listed, checks |-> checks]
           rooms == [db.rooms EXCEPT ![g] = room]
<1>2. /\ g \in 1..Len(db.rooms) /\ db.rooms \in Seq(Generation) /\ now \in Nat /\ now # None
      /\ row = [listed |-> row.listed, checks |-> row.checks] /\ row.listed \in Nat \cup {None}
      /\ row.checks \in [Stages -> Check] /\ Consistent(row.checks)
      /\ g \in 1..MaxGenerations
  <2>1. Newest(db) = g /\ g \in 1..MaxGenerations
    BY DEF Newest, QInv, TypeOK
  <2> QED
    BY <2>1, NewestRow, GenerationRows, QueryAssumption DEF QInv
<1>3. db' = [rooms |-> rooms, listing |-> now]
  <2>1. \A a, b, x, y : [[listed |-> a, checks |-> b] EXCEPT !.listed = x, !.checks = y]
                             = [listed |-> x, checks |-> y]
    <3> TAKE a, b, x, y
    <3> DEFINE z == [[listed |-> a, checks |-> b] EXCEPT !.listed = x, !.checks = y]
    <3>1. /\ DOMAIN z = {"listed", "checks"} /\ z.listed = x /\ z.checks = y
          /\ z = [i \in {"listed", "checks"} |-> z[i]]
      OBVIOUS
    <3> HIDE DEF z
    <3>2. z = [listed |-> x, checks |-> y]
      BY <3>1
    <3> QED
      BY <3>2 DEF z
  <2>2. [[listed |-> row.listed, checks |-> row.checks] EXCEPT
           !.listed = IF listed THEN now ELSE row.listed, !.checks = checks] = room
    BY <2>1
  <2>3. [row EXCEPT !.listed = IF listed THEN now ELSE @, !.checks = checks] = room
    BY <1>2, <2>2
  <2> QED
    BY <1>1, <1>2, <2>3
<1>4. /\ checks \in [Stages -> Check] /\ Consistent(checks)
      /\ Attempted(row.checks) => Attempted(checks)
  <2>1. \A s \in Stages :
          /\ s \in read => /\ checks[s] \in Check /\ checks[s].attempted = now
                           /\ checks[s].outcome = outcome
          /\ s \notin read => checks[s] = row.checks[s] /\ checks[s] \in Check
    BY <1>2 DEF Check
  <2>2. outcome # None
    BY QueryAssumption
  <2> HIDE DEF checks, row
  <2>3. Consistent(checks)
    BY <1>2, <2>1, <2>2 DEF Consistent
  <2>4. Attempted(row.checks) => Attempted(checks)
    BY <1>2, <2>1 DEF Attempted
  <2>5. checks \in [Stages -> Check]
    BY <2>1 DEF checks
  <2> QED
    BY <2>3, <2>4, <2>5
<1>5. /\ room \in Generation /\ room.checks = checks
      /\ room.listed # None => room.listed = now \/ room.listed = row.listed
  BY <1>2, <1>4 DEF Generation
<1> HIDE DEF room, checks
<1>6. /\ rooms \in Seq(Generation) /\ Len(rooms) = Len(db.rooms)
      /\ \A i \in 1..Len(rooms) : rooms[i] = IF i = g THEN room ELSE db.rooms[i]
  BY <1>2, <1>5
<1>7. \A i \in 1..Len(db.rooms) :
        /\ Consistent(db.rooms[i].checks) /\ db.rooms[i].listed \in Nat \cup {None}
        /\ db.rooms[i].listed # None => db.listing \in Nat /\ db.rooms[i].listed <= db.listing
  BY GenerationRows, QueryAssumption DEF QInv, DatabaseOK, Consistent
<1>8. \A i \in 1..Len(db.rooms) : db.rooms[i].listed # None => db.rooms[i].listed <= now
  <2>1. db.listing # None => db.listing < now
    BY Later DEF Commit
  <2>2. \A a, b \in Nat : a <= b /\ b < now => a <= now
    BY <1>2
  <2>3. None \notin Nat
    BY QueryAssumption
  <2> QED
    BY <1>7, <2>1, <2>2, <2>3
<1>9. \A i \in 1..Len(rooms) :
        Consistent(rooms[i].checks) /\ (rooms[i].listed # None => rooms[i].listed <= now)
  BY <1>2, <1>4, <1>5, <1>6, <1>7, <1>8
<1>10. \A i \in 1..Len(db.rooms) : Attempted(db.rooms[i].checks) => Attempted(rooms[i].checks)
  BY <1>4, <1>5, <1>6
<1>11. Len(rooms) \in 1..MaxGenerations /\ Len(db.rooms) <= Len(rooms)
  BY <1>2, <1>6
<1>12. LaterTick /\ UNCHANGED <<now, free, req>>
  BY DEF Commit
<1> HIDE DEF rooms
<1> QED
  BY <1>1, <1>3, <1>6, <1>9, <1>10, <1>11, <1>12, CommitStep

\* A new generation has no attempt and no listing yet.
LEMMA TickRecreate == ASSUME QInv, Recreate PROVE QInv'
<1> DEFINE room == Created(now)
           rooms == Append(db.rooms, room)
<1>1. /\ db.rooms \in Seq(Generation) /\ now \in Nat /\ now # None
      /\ Len(db.rooms) \in Nat \ {0} /\ Len(db.rooms) < MaxGenerations /\ MaxGenerations \in Nat
      /\ db' = [rooms |-> rooms, listing |-> now] /\ Observe(db')
  BY GenerationRows, QueryAssumption DEF Recreate, QInv
<1>2. Scheduled(now) \in [Stages -> Check] /\ Consistent(Scheduled(now))
  <2>1. \A s \in Stages : now + After[s] \in Nat /\ Length[s] \in Nat
    BY <1>1, QueryAssumption
  <2> QED
    BY <2>1 DEF Scheduled, Check, Consistent
<1>3. room \in Generation /\ room.checks = Scheduled(now) /\ room.listed = None
  BY <1>2 DEF Created, Generation
<1> HIDE DEF room
<1>4. /\ rooms \in Seq(Generation) /\ Len(rooms) = Len(db.rooms) + 1
      /\ \A i \in 1..Len(rooms) : rooms[i] = IF i = Len(rooms) THEN room ELSE db.rooms[i]
  BY <1>1, <1>3
<1> HIDE DEF rooms
<1>5. \A i \in 1..Len(db.rooms) :
        /\ Consistent(db.rooms[i].checks) /\ db.rooms[i].listed \in Nat \cup {None}
        /\ db.rooms[i].listed # None => db.listing \in Nat /\ db.rooms[i].listed <= db.listing
  BY GenerationRows, QueryAssumption DEF QInv, DatabaseOK, Consistent
<1>6. \A i \in 1..Len(db.rooms) : db.rooms[i].listed # None => db.rooms[i].listed <= now
  <2>1. db.listing # None => db.listing < now
    BY Later DEF Recreate
  <2>2. \A a, b \in Nat : a <= b /\ b < now => a <= now
    BY <1>1
  <2>3. None \notin Nat
    BY QueryAssumption
  <2> QED
    BY <1>5, <2>1, <2>2, <2>3
<1>7. \A i \in 1..Len(rooms) :
        Consistent(rooms[i].checks) /\ (rooms[i].listed # None => rooms[i].listed <= now)
  BY <1>1, <1>2, <1>3, <1>4, <1>5, <1>6
<1>8. \A i \in 1..Len(db.rooms) : Attempted(db.rooms[i].checks) => Attempted(rooms[i].checks)
  BY <1>1, <1>4
<1>9. Len(rooms) \in 1..MaxGenerations /\ Len(db.rooms) <= Len(rooms)
  BY <1>1, <1>4
<1> QED
  BY <1>1, <1>4, <1>7, <1>8, <1>9, CommitStep DEF Recreate

\* The clock changes no answer and no row.
LEMMA ClockStep == ASSUME QInv, Tick PROVE QInv'
<1>1. /\ now' = now + 1 /\ now \in Nat /\ now < MaxNow /\ UNCHANGED <<db, free, req, moments>>
  BY GenerationRows DEF Tick, QInv
<1>2. TypeOK'
  BY <1>1, QueryAssumption DEF QInv, TypeOK
<1>3. DatabaseOK' /\ SlotsExact' /\ IsFiniteSet({r \in Requests : req[r].pc \in Gated})'
  BY <1>1, <1>2 DEF QInv, DatabaseOK, SlotsExact
<1>4. \A r \in Requests :
        (StepOK(req[r]) /\ ReadOK(req[r], db.rooms) /\ SeenOK(req[r], moments[r]))'
  BY <1>1 DEF QInv, SeenOK, Listed, Newest
<1> QED
  BY <1>2, <1>3, <1>4 DEF QInv

(***************************************************************************)
(* The theorems.                                                           *)
(***************************************************************************)

\* The first database and the open gate satisfy the invariant.
LEMMA QInvInit == Init => QInv
<1> SUFFICES ASSUME Init PROVE QInv
  OBVIOUS
<1>1. /\ now = 0 /\ free = Capacity /\ req = [r \in Requests |-> NoAnswer]
      /\ moments = [r \in Requests |-> {}]
      /\ db = [rooms |-> <<Created(0)>>, listing |-> None]
  BY DEF Init
<1>2. Created(0) \in Generation /\ Created(0).listed = None /\ Consistent(Created(0).checks)
  <2>1. \A s \in Stages : 0 + After[s] \in Nat /\ Length[s] \in Nat
    BY QueryAssumption
  <2> QED
    BY <2>1 DEF Created, Scheduled, Generation, Check, Consistent
<1>3. db.rooms \in Seq(Generation) /\ Len(db.rooms) = 1 /\ db.rooms[1] = Created(0)
  BY <1>1, <1>2
<1>4. TypeOK
  BY <1>1, <1>3, NothingRead, QueryAssumption DEF TypeOK
<1>5. DatabaseOK
  BY <1>2, <1>3 DEF DatabaseOK, Consistent
<1>6. {r \in Requests : req[r].pc \in Gated} = {}
  BY <1>1 DEF NoAnswer, Gated, Opened
<1>7. SlotsExact
  <2>1. Cardinality({r \in Requests : req[r].pc \in Gated}) = 0
    BY <1>6, FS_EmptySet
  <2>2. Capacity + 0 = Capacity
    BY QueryAssumption
  <2> QED
    BY <1>1, <1>4, <2>1, <2>2 DEF SlotsExact
<1>8. \A r \in Requests :
        StepOK(req[r]) /\ ReadOK(req[r], db.rooms) /\ SeenOK(req[r], moments[r])
  BY <1>1, <1>3, NothingRead
<1> QED
  BY <1>4, <1>5, <1>6, <1>7, <1>8, FS_EmptySet DEF QInv

\* Every step of the service, the collector and the clock keeps the invariant.
LEMMA QInvStep == QInv /\ [Next]_vars => QInv'
<1> SUFFICES ASSUME QInv, [Next]_vars PROVE QInv'
  OBVIOUS
<1> USE DEF At
<1>1. ASSUME NEW r \in Requests, Arrive(r) PROVE QInv'
  BY <1>1, ArriveStep
<1>2. ASSUME NEW r \in Requests, Serve(r) PROVE QInv'
  <2>1. CASE Malformed(r)
    BY <2>1, AnswerStep DEF Malformed
  <2>2. CASE Acquire(r)
    <3>1. CASE free = 0
      BY <2>2, <3>1, AnswerStep DEF Acquire
    <3>2. CASE free # 0
      BY <2>2, <3>2, Own, GotoStep, QueryAssumption DEF Acquire
    <3> QED
      BY <3>1, <3>2
  <2>3. CASE Route(r)
    BY <2>3, AnswerStep, GotoStep DEF Route, Gated
  <2>4. CASE Open(r)
    BY <2>4, AnswerStep, GotoStep DEF Open, Gated
  <2>5. CASE File(r)
    BY <2>5, AnswerStep DEF File, Gated
  <2>6. CASE States(r)
    BY <2>6, StatesStep
  <2>7. CASE Found(r)
    BY <2>7, AnswerStep DEF Found, Gated
  <2>8. CASE Expire(r)
    BY <2>8, ExpireStep
  <2>9. CASE Interrupted(r)
    BY <2>9, AnswerStep DEF Interrupted, Gated
  <2> QED
    BY <1>2, <2>1, <2>2, <2>3, <2>4, <2>5, <2>6, <2>7, <2>8, <2>9 DEF Serve
<1>3. ASSUME NEW r \in Requests, Statement(r) PROVE QInv'
  <2>1. CASE Context(r)
    <3>1. CASE req[r].kind = "search"
      BY <2>1, <3>1, GotoStep DEF Context, Reads, Goto
    <3>2. CASE req[r].kind # "search"
      BY <2>1, <3>2, AnswerStep DEF Context, Gated, Opened
    <3> QED
      BY <3>1, <3>2
  <2>2. CASE Did(r)
    BY <2>2, AnswerStep, GotoStep DEF Did, Reads, Goto, Gated, Opened
  <2>3. CASE Broken(r)
    BY <2>3, AnswerStep DEF Broken, Gated
  <2> QED
    BY <1>3, <2>1, <2>2, <2>3, RowsStep, WindowsStep, RoomStep, ChecksStep, MetadataStep, EndStep
       DEF Statement
<1>4. ASSUME NEW r \in Requests, Written(r) PROVE QInv'
  BY <1>4, EndStep
<1>5. CASE UNCHANGED vars
  <2>1. UNCHANGED <<now, db, free, req, moments>>
    BY <1>5 DEF vars
  <2> QED
    BY <2>1 DEF QInv, TypeOK, DatabaseOK, SlotsExact, SeenOK, Listed, Newest
<1> QED
  BY <1>1, <1>2, <1>3, <1>4, <1>5, TickCommit, TickRecreate, ClockStep DEF Next

\* The invariant: what a request has read stays true of the database that the
\* collector goes on writing, and every slot is accounted for.
THEOREM Serving == Spec => []QInv
<1> QED
  BY QInvInit, QInvStep, PTL DEF Spec

\* Types of the service.
THEOREM ServiceTypes == Spec => []TypeOK
<1>1. QInv => TypeOK
  BY DEF QInv
<1> QED
  BY <1>1, Serving, PTL

\* No path out of handle, answered, refused, timed out or broken, keeps a slot
\* or gives one back twice.
THEOREM SlotsAccounted == Spec => []SlotsExact
<1>1. QInv => SlotsExact
  BY DEF QInv
<1> QED
  BY <1>1, Serving, PTL

\* The search and the record of a room give it the same state, whatever checks
\* the collector has made and whatever the time.
THEOREM SameState == Spec => []EndpointsAgree
<1>1. QInv => EndpointsAgree
  BY Agreement DEF QInv
<1> QED
  BY <1>1, Serving, PTL

\* An answer is not of an older generation than was committed before its request,
\* gives an outcome if that generation had been checked by then, and calls a room
\* present only if the newest listing had it at some moment of the request.
THEOREM UpToDate == Spec => []AnswersUpToDate
<1>1. QInv => AnswersUpToDate
  <2> SUFFICES ASSUME QInv, NEW r \in Requests, Answered(r, {"search", "record"})
               PROVE  /\ req[r].generation >= req[r].start.generation
                      /\ req[r].generation = req[r].start.generation /\ req[r].start.attempted =>
                           req[r].life \in Results
                      /\ req[r].kind = "record" /\ req[r].listing = "present" =>
                           TRUE \in moments[r]
    BY DEF AnswersUpToDate, Answered
  <2>1. Chosen(req[r]) /\ req[r].pc = "write"
    BY DEF Answered, At, Chosen, AnsweredOK
  <2> QED
    BY <2>1, Own DEF ReadOK, SeenOK
<1> QED
  BY <1>1, Serving, PTL
=============================================================================
