---------------------- MODULE ReleasePublicationProofs ----------------------
(***************************************************************************)
(* Proofs about ReleasePublication: its inductive invariant PInv, and from *)
(* it that the root is always one that the next rebuild repairs, that what *)
(* is served is whole and guarded, that no rebuild serves an older ledger  *)
(* and that none removes the served release or its predecessor.            *)
(***************************************************************************)
EXTENDS ReleasePublication, FiniteSetTheorems, TLAPS

(***************************************************************************)
(* The order of the modification times.                                    *)
(***************************************************************************)

Linear(S, R) ==
  /\ R \subseteq S \X S
  /\ \A m, n \in S : <<m, n>> \in R <=> m # n /\ <<n, m>> \notin R
  /\ \A l, m, n \in S : <<l, m>> \in R /\ <<m, n>> \in R => <<l, n>> \in R

Minus(R, n) == {t \in R : t[1] # n /\ t[2] # n}

\* A directory that is gone has no time.
LEMMA LinearWithout ==
  ASSUME NEW S, NEW R, Linear(S, R), NEW n
  PROVE  Linear(S \ {n}, Minus(R, n))
BY DEF Linear, Minus

\* A directory that is made or changed is the newest.
LEMMA LinearTouched ==
  ASSUME NEW S, NEW R, Linear(S, R), NEW n
  PROVE  Linear(S \cup {n}, Minus(R, n) \cup ((S \ {n}) \X {n}))
<1> DEFINE T == Minus(R, n) \cup ((S \ {n}) \X {n})
<1>1. T \subseteq (S \cup {n}) \X (S \cup {n})
  BY DEF Linear, Minus
<1>2. \A a, b \in S \cup {n} :
        <<a, b>> \in T <=> IF b = n THEN a # n ELSE a # n /\ <<a, b>> \in R
  BY DEF Linear, Minus
<1> HIDE DEF T
<1>3. Linear(S \cup {n}, T)
  BY <1>1, <1>2 DEF Linear
<1> QED
  BY <1>3 DEF T

(***************************************************************************)
(* What the steps have in common.                                          *)
(***************************************************************************)

\* The types of what a rebuild keeps.
RunTypes ==
  /\ rootLock \in Runs \cup {NoRun}
  /\ pc \in [Runs -> Steps]
  /\ copy \in [Runs -> 0..MaxTicks]
  /\ target \in [Runs -> Release \cup {None}]
  /\ previous \in [Runs -> Release \cup {None}]
  /\ doomed \in [Runs -> SUBSET Release]

\* The types but for the directories and their times.
Types ==
  /\ RunTypes
  /\ source \in [Release -> 0..MaxTicks]
  /\ guarded \subseteq Release /\ sidecars \subseteq Release /\ staging \subseteq Release
  /\ current \in Release \cup {None} /\ before \in Release \cup {None}
  /\ links \in [Runs -> Release \cup {None}]
  /\ ledger \in 0..MaxTicks /\ appending \in BOOLEAN
  /\ surprised \in BOOLEAN /\ stumbles \in Nat
  /\ nextId \in 1..(MaxReleases + 1)
  /\ faults \in 0..MaxFaults /\ rollbacks \in 0..MaxRollbacks

Tree == dirs \in [Release -> {"absent", "built", "finished", "damaged"}] /\ Linear(Present, older)

\* Types, in two parts.
LEMMA TypeParts == TypeOK <=> Types /\ Tree
BY DEF TypeOK, Types, RunTypes, Tree, Linear

\* A release without its guards is marked.
MarkedUnlessGuarded == \A n \in Release : dirs[n] # "absent" /\ n \notin guarded => n \in sidecars

\* The invariant in the parts that the steps are proved for.
LEMMA Parts ==
  PInv <=> /\ Types /\ Tree
           /\ MarkedUnlessGuarded /\ surprised = FALSE
           /\ ServedComplete /\ Fresh /\ LinksStale /\ Derived
           /\ \A p \in Runs : Active(p)
BY TypeParts DEF PInv, RootSound, MarkedUnlessGuarded, TypeOK

\* The same of the next state.
LEMMA PartsNext ==
  ASSUME Types', Tree', MarkedUnlessGuarded', surprised' = FALSE,
         ServedComplete', Fresh', LinksStale', Derived', \A p \in Runs : Active(p)'
  PROVE  PInv'
<1>1. TypeOK'
  BY DEF TypeOK, Types, RunTypes, Tree, Linear
<1> QED
  BY <1>1 DEF PInv, RootSound, MarkedUnlessGuarded

\* A running rebuild is alone.
LEMMA Alone ==
  ASSUME PInv, NEW p \in Runs, pc[p] # "idle"
  PROVE  rootLock = p /\ \A q \in Runs \ {p} : pc[q] = "idle"
BY DEF PInv, Active

\* Removing a release takes two steps and leaves the others alone.
LEMMA Removal ==
  ASSUME Tree, NEW n \in Present, RemoveTree(n)
  PROVE  /\ Tree' /\ dirs'[n] \in {"damaged", "absent"}
         /\ \A m \in Release \ {n} : dirs'[m] = dirs[m]
<1>1. /\ dirs \in [Release -> {"absent", "built", "finished", "damaged"}]
      /\ n \in Release /\ Linear(Present, older)
  BY DEF Tree, Present
<1>2. CASE dirs[n] = "damaged"
  <2>1. dirs' = [dirs EXCEPT ![n] = "absent"] /\ older' = Without(n)
    BY <1>2 DEF RemoveTree, EndRemoval
  <2>2. Present' = Present \ {n}
    BY <1>1, <2>1 DEF Present
  <2>3. Linear(Present \ {n}, Without(n))
    <3>1. Without(n) = Minus(older, n)
      BY DEF Without, Minus
    <3>2. Linear(Present \ {n}, Minus(older, n))
      BY <1>1, LinearWithout
    <3> QED
      BY <3>1, <3>2
  <2>4. Linear(Present', older')
    BY <2>1, <2>2, <2>3
  <2> QED
    BY <1>1, <2>1, <2>4 DEF Tree
<1>3. CASE dirs[n] # "damaged"
  <2>1. dirs' = [dirs EXCEPT ![n] = "damaged"] /\ (older' = older \/ older' = Touched(n))
    BY <1>3 DEF RemoveTree, BeginRemoval
  <2>2. Present' = Present /\ Present \cup {n} = Present
    BY <1>1, <2>1 DEF Present
  <2>3. Linear(Present, Touched(n))
    <3>1. Linear(Present \cup {n}, Touched(n))
      BY <1>1, LinearTouched DEF Touched, Without, Minus
    <3> QED
      BY <2>2, <3>1
  <2>4. Linear(Present', older')
    BY <1>1, <2>1, <2>2, <2>3
  <2> QED
    BY <1>1, <2>1, <2>4 DEF Tree
<1> QED
  BY <1>2, <1>3

\* A release that is renamed or gets its error pages is the newest.
LEMMA Writing ==
  ASSUME Tree, NEW n \in Release, NEW state \in {"built", "finished"},
         dirs' = [dirs EXCEPT ![n] = state], older' = Touched(n)
  PROVE  /\ Tree' /\ dirs'[n] = state
         /\ \A m \in Release \ {n} : dirs'[m] = dirs[m]
<1>1. dirs \in [Release -> {"absent", "built", "finished", "damaged"}] /\ Linear(Present, older)
  BY DEF Tree
<1>2. Present' = Present \cup {n}
  BY <1>1 DEF Present
<1>3. Linear(Present', older')
  BY <1>1, <1>2, LinearTouched DEF Touched, Without, Minus
<1> QED
  BY <1>1, <1>3 DEF Tree

\* Directories that no step touches.
LEMMA TreeKept ==
  ASSUME Tree, UNCHANGED <<dirs, older>>
  PROVE  Tree'
BY DEF Tree, Present

\* The rebuild that runs.
Running(p) ==
  /\ rootLock = p /\ pc[p] # "idle" /\ \A q \in Runs : q # p => pc[q] = "idle"
  /\ Types /\ Tree /\ MarkedUnlessGuarded /\ surprised = FALSE /\ ServedComplete /\ Fresh
  /\ LinksStale /\ Derived /\ Active(p)
  /\ target[p] \in Release \cup {None} /\ (pc[p] \in Named => target[p] \in Release)
  /\ \A n \in Release : n \in Nat /\ n # None

\* What a step of a rebuild may use.
LEMMA RunningFacts ==
  ASSUME PInv, NEW p \in Runs, pc[p] # "idle"
  PROVE  Running(p)
<1>1. \A n \in Release : n \in Nat /\ n # None
  BY ConstantsAssumption DEF Release
<1> QED
  BY <1>1, Alone, Parts DEF Running, Types, RunTypes, Fresh

\* A rebuild that ends has nothing left.
LEMMA ExitTypes ==
  ASSUME RunTypes, NEW p \in Runs, rootLock' = NoRun,
         pc' = [pc EXCEPT ![p] = "idle"], copy' = [copy EXCEPT ![p] = 0],
         target' = [target EXCEPT ![p] = None], previous' = [previous EXCEPT ![p] = None],
         doomed' = [doomed EXCEPT ![p] = {}]
  PROVE  RunTypes'
<1>1. 0 \in 0..MaxTicks /\ "idle" \in Steps
  BY ConstantsAssumption DEF Steps
<1> QED
  BY <1>1 DEF RunTypes

\* The other rebuilds stay idle.
LEMMA OthersIdle ==
  ASSUME NEW p \in Runs, \A q \in Runs : q # p => pc[q] = "idle",
         pc \in [Runs -> Steps], NEW step, pc' = [pc EXCEPT ![p] = step], Active(p)'
  PROVE  \A q \in Runs : Active(q)'
BY DEF Active

(***************************************************************************)
(* The steps of a rebuild.                                                 *)
(***************************************************************************)

\* release_maintenance recover: the staging directories.
LEMMA RecoverStagingKept ==
  ASSUME PInv, NEW p \in Runs, RecoverStaging(p)
  PROVE  PInv'
<1>1. Running(p) /\ pc[p] = "recover" /\ target[p] = None
  BY RunningFacts DEF RecoverStaging, Running, Fresh, Named, Steps, Recovering
<1>2. /\ UNCHANGED <<dirs, older, source, guarded, sidecars, current, before, links, ledger,
                     appending, rootLock, pc, copy, target, previous, doomed, faults,
                     rollbacks, stumbles, surprised, nextId>>
      /\ staging' \subseteq staging
  BY <1>1 DEF RecoverStaging, Running, Continue, Exit, Goto, tree, public, collector, counters, runVars
<1>3. Types'
  BY <1>1, <1>2, ConstantsAssumption DEF Running, Types, RunTypes, Steps, Release
<1>4. Tree'
  BY <1>1, <1>2, TreeKept DEF Running
<1>5. MarkedUnlessGuarded' /\ surprised' = FALSE
  BY <1>1, <1>2, <1>4 DEF Running, MarkedUnlessGuarded, ServedComplete, Active, OwnRelease,
                              Marked, Approved, Served
<1>6. ServedComplete'
  BY <1>1, <1>2, <1>4 DEF Running, ServedComplete, Active, OwnRelease, Marked, Approved, Types, RunTypes
<1>7. Fresh'
  BY <1>1, <1>2, <1>4 DEF Running, Fresh, Types, RunTypes, Named, Steps, Recovering
<1>8. LinksStale'
  BY <1>1, <1>2, <1>4 DEF Running, LinksStale, Active, OwnRelease, Marked, Types, RunTypes
<1>9. Derived'
  BY <1>1, <1>2 DEF Running, Derived, Active, Types, RunTypes
<1>10. \A q \in Runs : Active(q)'
  <2>1. OwnRelease(p)'
    BY <1>1, <1>2, <1>4
       DEF Running, Types, RunTypes, Active, OwnRelease, Fresh, Marked, Approved, Served, Named, Steps, Recovering
  <2>2. Active(p)'
    BY <1>1, <1>2, <1>4, <2>1
       DEF Running, Types, RunTypes, Active, OwnRelease, Fresh, Derived, LinksStale,
           Marked, Served, Named, Steps, Recovering
  <2> QED
    BY <1>1, <1>2, <2>2, OthersIdle DEF Running, Types, RunTypes, Steps
<1> QED
  BY <1>3, <1>4, <1>5, <1>6, <1>7, <1>8, <1>9, <1>10, PartsNext

\* Recovery is done when nothing is marked.
LEMMA RecoveredKept ==
  ASSUME PInv, NEW p \in Runs, Recovered(p)
  PROVE  PInv'
<1>1. Running(p) /\ pc[p] = "recover" /\ target[p] = None
  BY RunningFacts DEF Recovered, Running, Fresh, Named, Steps, Recovering
<1>2. /\ UNCHANGED <<dirs, older, source, guarded, sidecars, staging, current, before,
                     links, ledger, appending, rootLock, copy, target, previous, doomed,
                     faults, rollbacks, stumbles, surprised, nextId>>
      /\ sidecars = {}
      /\ pc' = [pc EXCEPT ![p] = "copy"]
  BY <1>1 DEF Recovered, Running, Continue, Exit, Goto, tree, public, collector, counters, runVars
<1>3. Types'
  BY <1>1, <1>2, ConstantsAssumption DEF Running, Types, RunTypes, Steps, Release
<1>4. Tree'
  BY <1>1, <1>2, TreeKept DEF Running
<1>5. MarkedUnlessGuarded' /\ surprised' = FALSE
  BY <1>1, <1>2, <1>4 DEF Running, MarkedUnlessGuarded, ServedComplete, Active, OwnRelease,
                              Marked, Approved, Served
<1>6. ServedComplete'
  BY <1>1, <1>2, <1>4 DEF Running, ServedComplete, Active, OwnRelease, Marked, Approved, Types, RunTypes
<1>7. Fresh'
  BY <1>1, <1>2, <1>4 DEF Running, Fresh, Types, RunTypes, Named, Steps, Recovering
<1>8. LinksStale'
  BY <1>1, <1>2, <1>4 DEF Running, LinksStale, Active, OwnRelease, Marked, Types, RunTypes
<1>9. Derived'
  BY <1>1, <1>2 DEF Running, Derived, Active, Types, RunTypes
<1>10. \A q \in Runs : Active(q)'
  <2>1. OwnRelease(p)'
    BY <1>1, <1>2, <1>4
       DEF Running, Types, RunTypes, Active, OwnRelease, Fresh, Marked, Approved, Served, Named, Steps, Recovering
  <2>2. Active(p)'
    BY <1>1, <1>2, <1>4, <2>1
       DEF Running, Types, RunTypes, Active, OwnRelease, Fresh, Derived, LinksStale,
           Marked, Served, Named, Steps, Recovering
  <2> QED
    BY <1>1, <1>2, <2>2, OthersIdle DEF Running, Types, RunTypes, Steps
<1> QED
  BY <1>3, <1>4, <1>5, <1>6, <1>7, <1>8, <1>9, <1>10, PartsNext

\* The copy of the ledger.
LEMMA CopyKept ==
  ASSUME PInv, NEW p \in Runs, Copy(p)
  PROVE  PInv'
<1>1. Running(p) /\ pc[p] = "copy" /\ target[p] = None
  BY RunningFacts DEF Copy, Running, Fresh, Named, Steps, Recovering
<1>2. /\ UNCHANGED <<dirs, older, source, guarded, sidecars, staging, current, before,
                     links, ledger, appending, rootLock, target, previous, doomed, faults,
                     rollbacks, stumbles, surprised, nextId>>
      /\ copy' = [copy EXCEPT ![p] = ledger]
      /\ pc' = [pc EXCEPT ![p] = "build"]
  BY <1>1 DEF Copy, Running, Continue, Exit, Goto, tree, public, collector, counters, runVars
<1>3. Types'
  BY <1>1, <1>2, ConstantsAssumption DEF Running, Types, RunTypes, Steps, Release
<1>4. Tree'
  BY <1>1, <1>2, TreeKept DEF Running
<1>5. MarkedUnlessGuarded' /\ surprised' = FALSE
  BY <1>1, <1>2, <1>4 DEF Running, MarkedUnlessGuarded, ServedComplete, Active, OwnRelease,
                              Marked, Approved, Served
<1>6. ServedComplete'
  BY <1>1, <1>2, <1>4 DEF Running, ServedComplete, Active, OwnRelease, Marked, Approved, Types, RunTypes
<1>7. Fresh'
  BY <1>1, <1>2, <1>4 DEF Running, Fresh, Types, RunTypes, Named, Steps, Recovering
<1>8. LinksStale'
  BY <1>1, <1>2, <1>4 DEF Running, LinksStale, Active, OwnRelease, Marked, Types, RunTypes
<1>9. Derived'
  BY <1>1, <1>2 DEF Running, Derived, Active, Types, RunTypes
<1>10. \A q \in Runs : Active(q)'
  <2>1. OwnRelease(p)'
    BY <1>1, <1>2, <1>4
       DEF Running, Types, RunTypes, Active, OwnRelease, Fresh, Marked, Approved, Served, Named, Steps, Recovering
  <2>2. Active(p)'
    BY <1>1, <1>2, <1>4, <2>1
       DEF Running, Types, RunTypes, Active, OwnRelease, Fresh, Derived, LinksStale,
           Marked, Served, Named, Steps, Recovering
  <2> QED
    BY <1>1, <1>2, <2>2, OthersIdle DEF Running, Types, RunTypes, Steps
<1> QED
  BY <1>3, <1>4, <1>5, <1>6, <1>7, <1>8, <1>9, <1>10, PartsNext

\* build_release stages a release under a new number.
LEMMA BuildKept ==
  ASSUME PInv, NEW p \in Runs, Build(p)
  PROVE  PInv'
<1>1. Running(p) /\ pc[p] = "build" /\ target[p] = None
  BY RunningFacts DEF Build, Running, Fresh, Named, Steps, Recovering
<1>2. /\ UNCHANGED <<dirs, older, guarded, sidecars, current, before, links, ledger,
                     appending, faults, rollbacks, stumbles, surprised>>
      /\ \/ /\ nextId \in Release
            /\ staging' = staging \cup {nextId}
            /\ source' = [source EXCEPT ![nextId] = copy[p]]
            /\ target' = [target EXCEPT ![p] = nextId]
            /\ nextId' = nextId + 1
            /\ pc' = [pc EXCEPT ![p] = "sidecar"]
            /\ UNCHANGED <<rootLock, copy, previous, doomed>>
         \/ /\ pc' = [pc EXCEPT ![p] = "idle"]
            /\ rootLock' = NoRun
            /\ copy' = [copy EXCEPT ![p] = 0]
            /\ target' = [target EXCEPT ![p] = None]
            /\ previous' = [previous EXCEPT ![p] = None]
            /\ doomed' = [doomed EXCEPT ![p] = {}]
            /\ UNCHANGED <<source, staging, nextId>>
  BY <1>1 DEF Build, Running, Continue, Exit, Goto, tree, public, collector, counters, runVars
<1>3. Types'
  <2>1. RunTypes'
    <3>1. CASE pc'[p] = "idle"
      BY <1>1, <1>2, <3>1, ExitTypes DEF Running, Types, RunTypes
    <3>2. CASE pc'[p] # "idle"
      <4>1. nextId \in Release /\ target' = [target EXCEPT ![p] = nextId]
        BY <1>1, <1>2, <3>2 DEF Running, Types, RunTypes
      <4> QED
        BY <1>1, <1>2, <4>1 DEF Running, Types, RunTypes, Steps
    <3> QED
      BY <3>1, <3>2
  <2>2. source' \in [Release -> 0..MaxTicks]
    <3>1. copy[p] \in 0..MaxTicks /\ source \in [Release -> 0..MaxTicks]
      BY <1>1 DEF Running, Types, RunTypes
    <3>2. source' = source \/ source' = [source EXCEPT ![nextId] = copy[p]]
      BY <1>2
    <3> QED
      BY <3>1, <3>2
  <2>3. nextId' \in 1..(MaxReleases + 1)
    <3>1. nextId \in 1..(MaxReleases + 1)
      BY <1>1 DEF Running, Types
    <3>2. nextId' = nextId \/ (nextId \in Release /\ nextId' = nextId + 1)
      BY <1>2
    <3> QED
      BY <3>1, <3>2, ConstantsAssumption DEF Release
  <2> QED
    BY <1>1, <1>2, <2>1, <2>2, <2>3, ConstantsAssumption DEF Running, Types, Release
<1>4. Tree'
  BY <1>1, <1>2, TreeKept DEF Running
<1>5. MarkedUnlessGuarded' /\ surprised' = FALSE
  BY <1>1, <1>2, <1>4 DEF Running, MarkedUnlessGuarded, ServedComplete, Active, OwnRelease,
                              Marked, Approved, Served
<1>6. ServedComplete'
  BY <1>1, <1>2, <1>4 DEF Running, ServedComplete, Active, OwnRelease, Marked, Approved, Types, RunTypes
<1>7. Fresh'
  BY <1>1, <1>2, <1>4 DEF Running, Fresh, Types, RunTypes, Named, Steps, Recovering
<1>8. LinksStale'
  BY <1>1, <1>2, <1>4 DEF Running, LinksStale, Active, OwnRelease, Marked, Types, RunTypes
<1>9. Derived'
  <2>1. copy[p] <= ledger
    BY <1>1 DEF Running, Active, Recovering
  <2> QED
    BY <1>1, <1>2, <2>1 DEF Running, Derived, Types
<1>10. \A q \in Runs : Active(q)'
  <2>1. OwnRelease(p)'
    <3>1. CASE pc' = [pc EXCEPT ![p] = "sidecar"]
      BY <1>1, <1>2, <1>4, <3>1
         DEF Running, Types, RunTypes, Active, OwnRelease, Fresh, Marked,
            Approved, Served, Named, Steps, Recovering
    <3>2. CASE pc' = [pc EXCEPT ![p] = "idle"]
      BY <1>1, <1>2, <1>4, <3>2
         DEF Running, Types, RunTypes, Active, OwnRelease, Fresh, Marked,
            Approved, Served, Named, Steps, Recovering
    <3> QED
      BY <1>2, <3>1, <3>2
  <2>2. Active(p)'
    BY <1>1, <1>2, <1>4, <2>1
       DEF Running, Types, RunTypes, Active, OwnRelease, Fresh, Derived, LinksStale,
           Marked, Served, Named, Steps, Recovering
  <2> QED
    BY <1>1, <1>2, <2>2, OthersIdle DEF Running, Types, RunTypes, Steps
<1> QED
  BY <1>3, <1>4, <1>5, <1>6, <1>7, <1>8, <1>9, <1>10, PartsNext

\* The release is marked before it exists.
LEMMA CreateSidecarKept ==
  ASSUME PInv, NEW p \in Runs, CreateSidecar(p)
  PROVE  PInv'
<1>1. Running(p) /\ pc[p] = "sidecar" /\ target[p] \in Release
  BY RunningFacts DEF CreateSidecar, Running, Fresh, Named, Steps, Recovering
<1>2. /\ UNCHANGED <<dirs, older, source, guarded, current, before, links, ledger,
                     appending, faults, rollbacks, stumbles, surprised, nextId>>
      /\ \/ /\ sidecars' = sidecars \cup {target[p]}
            /\ pc' = [pc EXCEPT ![p] = "rename"]
            /\ UNCHANGED <<staging, rootLock, copy, target, previous, doomed>>
         \/ /\ pc' = [pc EXCEPT ![p] = "idle"]
            /\ rootLock' = NoRun
            /\ copy' = [copy EXCEPT ![p] = 0]
            /\ target' = [target EXCEPT ![p] = None]
            /\ previous' = [previous EXCEPT ![p] = None]
            /\ doomed' = [doomed EXCEPT ![p] = {}]
            /\ staging' = staging \ {target[p]}
            /\ UNCHANGED <<sidecars>>
  BY <1>1 DEF CreateSidecar, Running, Continue, Exit, Goto, tree, public, collector, counters, runVars
<1>3. Types'
  <2>1. RunTypes'
    <3>1. CASE pc'[p] = "idle"
      BY <1>1, <1>2, <3>1, ExitTypes DEF Running, Types, RunTypes
    <3>2. CASE pc'[p] # "idle"
      BY <1>1, <1>2, <3>2, ConstantsAssumption DEF Running, Types, RunTypes, Steps, Release
    <3> QED
      BY <3>1, <3>2
  <2> QED
    BY <1>1, <1>2, <2>1, ConstantsAssumption DEF Running, Types, Release
<1>4. Tree'
  BY <1>1, <1>2, TreeKept DEF Running
<1>5. MarkedUnlessGuarded' /\ surprised' = FALSE
  BY <1>1, <1>2, <1>4 DEF Running, MarkedUnlessGuarded, ServedComplete, Active, OwnRelease,
                              Marked, Approved, Served
<1>6. ServedComplete'
  BY <1>1, <1>2, <1>4 DEF Running, ServedComplete, Active, OwnRelease, Marked, Approved, Types, RunTypes
<1>7. Fresh'
  BY <1>1, <1>2, <1>4 DEF Running, Fresh, Types, RunTypes, Named, Steps, Recovering
<1>8. LinksStale'
  BY <1>1, <1>2, <1>4 DEF Running, LinksStale, Active, OwnRelease, Marked, Types, RunTypes
<1>9. Derived'
  BY <1>1, <1>2 DEF Running, Derived, Active, Types, RunTypes
<1>10. \A q \in Runs : Active(q)'
  <2>1. OwnRelease(p)'
    <3>1. CASE pc' = [pc EXCEPT ![p] = "rename"]
      BY <1>1, <1>2, <1>4, <3>1
         DEF Running, Types, RunTypes, Active, OwnRelease, Fresh, Marked,
            Approved, Served, Named, Steps, Recovering
    <3>2. CASE pc' = [pc EXCEPT ![p] = "idle"]
      BY <1>1, <1>2, <1>4, <3>2
         DEF Running, Types, RunTypes, Active, OwnRelease, Fresh, Marked,
            Approved, Served, Named, Steps, Recovering
    <3> QED
      BY <1>2, <3>1, <3>2
  <2>2. Active(p)'
    BY <1>1, <1>2, <1>4, <2>1
       DEF Running, Types, RunTypes, Active, OwnRelease, Fresh, Derived, LinksStale,
           Marked, Served, Named, Steps, Recovering
  <2> QED
    BY <1>1, <1>2, <2>2, OthersIdle DEF Running, Types, RunTypes, Steps
<1> QED
  BY <1>3, <1>4, <1>5, <1>6, <1>7, <1>8, <1>9, <1>10, PartsNext

\* The staged release becomes a release.
LEMMA RenameKept ==
  ASSUME PInv, NEW p \in Runs, Rename(p)
  PROVE  PInv'
<1>1. Running(p) /\ pc[p] = "rename" /\ target[p] \in Release
  BY RunningFacts DEF Rename, Running, Fresh, Named, Steps, Recovering
<1>2. /\ UNCHANGED <<source, guarded, current, before, links, ledger, appending, faults,
                     rollbacks, stumbles, surprised, nextId>>
      /\ \/ /\ staging' = staging \ {target[p]}
            /\ dirs' = [dirs EXCEPT ![target[p]] = "built"]
            /\ older' = Touched(target[p])
            /\ pc' = [pc EXCEPT ![p] = "errors"]
            /\ UNCHANGED <<sidecars, rootLock, copy, target, previous, doomed>>
         \/ /\ pc' = [pc EXCEPT ![p] = "idle"]
            /\ rootLock' = NoRun
            /\ copy' = [copy EXCEPT ![p] = 0]
            /\ target' = [target EXCEPT ![p] = None]
            /\ previous' = [previous EXCEPT ![p] = None]
            /\ doomed' = [doomed EXCEPT ![p] = {}]
            /\ staging' = staging \ {target[p]}
            /\ sidecars' = sidecars \ {target[p]}
            /\ UNCHANGED <<dirs, older>>
  BY <1>1 DEF Rename, Running, Continue, Exit, Goto, tree, public, collector, counters, runVars
<1>3. Types'
  <2>1. RunTypes'
    <3>1. CASE pc'[p] = "idle"
      BY <1>1, <1>2, <3>1, ExitTypes DEF Running, Types, RunTypes
    <3>2. CASE pc'[p] # "idle"
      BY <1>1, <1>2, <3>2, ConstantsAssumption DEF Running, Types, RunTypes, Steps, Release
    <3> QED
      BY <3>1, <3>2
  <2> QED
    BY <1>1, <1>2, <2>1, ConstantsAssumption DEF Running, Types, Release
<1>4. Tree' /\ \A m \in Release \ {target[p]} : dirs'[m] = dirs[m]
  BY <1>1, <1>2, Writing, TreeKept DEF Running, Types
<1>5. MarkedUnlessGuarded' /\ surprised' = FALSE
  BY <1>1, <1>2, <1>4 DEF Running, MarkedUnlessGuarded, ServedComplete, Active, OwnRelease,
                              Marked, Approved, Served
<1>6. ServedComplete'
  BY <1>1, <1>2, <1>4 DEF Running, ServedComplete, Active, OwnRelease, Marked, Approved, Types, RunTypes
<1>7. Fresh'
  BY <1>1, <1>2, <1>4 DEF Running, Fresh, Types, RunTypes, Named, Steps, Recovering
<1>8. LinksStale'
  BY <1>1, <1>2, <1>4 DEF Running, LinksStale, Active, OwnRelease, Marked, Types, RunTypes
<1>9. Derived'
  BY <1>1, <1>2 DEF Running, Derived, Active, Types, RunTypes
<1>10. \A q \in Runs : Active(q)'
  <2>1. OwnRelease(p)'
    <3>1. CASE pc' = [pc EXCEPT ![p] = "errors"]
      BY <1>1, <1>2, <1>4, <3>1
         DEF Running, Types, RunTypes, Active, OwnRelease, Fresh, Marked,
            Approved, Served, Named, Steps, Recovering
    <3>2. CASE pc' = [pc EXCEPT ![p] = "idle"]
      BY <1>1, <1>2, <1>4, <3>2
         DEF Running, Types, RunTypes, Active, OwnRelease, Fresh, Marked,
            Approved, Served, Named, Steps, Recovering
    <3> QED
      BY <1>2, <3>1, <3>2
  <2>2. Active(p)'
    BY <1>1, <1>2, <1>4, <2>1
       DEF Running, Types, RunTypes, Active, OwnRelease, Fresh, Derived, LinksStale,
           Marked, Served, Named, Steps, Recovering
  <2> QED
    BY <1>1, <1>2, <2>2, OthersIdle DEF Running, Types, RunTypes, Steps
<1> QED
  BY <1>3, <1>4, <1>5, <1>6, <1>7, <1>8, <1>9, <1>10, PartsNext

\* The error pages.
LEMMA AddErrorsKept ==
  ASSUME PInv, NEW p \in Runs, AddErrors(p)
  PROVE  PInv'
<1>1. Running(p) /\ pc[p] = "errors" /\ target[p] \in Release
  BY RunningFacts DEF AddErrors, Running, Fresh, Named, Steps, Recovering
<1>2. /\ UNCHANGED <<source, guarded, sidecars, staging, current, before, links, ledger,
                     appending, rootLock, copy, target, previous, doomed, faults, rollbacks, stumbles,
                     surprised, nextId>>
      /\ \/ /\ dirs' = [dirs EXCEPT ![target[p]] = "finished"]
            /\ older' = Touched(target[p])
            /\ pc' = [pc EXCEPT ![p] = "guards"]
         \/ /\ pc' = [pc EXCEPT ![p] = "cleanup"]
            /\ UNCHANGED <<dirs, older>>
  BY <1>1 DEF AddErrors, Running, Continue, Exit, Goto, tree, public, collector, counters, runVars
<1>3. Types'
  BY <1>1, <1>2, ConstantsAssumption DEF Running, Types, RunTypes, Steps, Release
<1>4. /\ Tree' /\ \A m \in Release \ {target[p]} : dirs'[m] = dirs[m]
      /\ pc'[p] = "guards" => dirs'[target[p]] = "finished"
  BY <1>1, <1>2, Writing, TreeKept DEF Running, Types, RunTypes
<1>5. MarkedUnlessGuarded' /\ surprised' = FALSE
  BY <1>1, <1>2, <1>4 DEF Running, MarkedUnlessGuarded, ServedComplete, Active, OwnRelease,
                              Marked, Approved, Served
<1>6. ServedComplete'
  BY <1>1, <1>2, <1>4 DEF Running, ServedComplete, Active, OwnRelease, Marked, Approved, Types, RunTypes
<1>7. Fresh'
  BY <1>1, <1>2, <1>4 DEF Running, Fresh, Types, RunTypes, Named, Steps, Recovering
<1>8. LinksStale'
  BY <1>1, <1>2, <1>4 DEF Running, LinksStale, Active, OwnRelease, Marked, Types, RunTypes
<1>9. Derived'
  BY <1>1, <1>2 DEF Running, Derived, Active, Types, RunTypes
<1>10. \A q \in Runs : Active(q)'
  <2>1. OwnRelease(p)'
    <3>1. CASE pc' = [pc EXCEPT ![p] = "guards"]
      BY <1>1, <1>2, <1>4, <3>1
         DEF Running, Types, RunTypes, Active, OwnRelease, Fresh, Marked,
            Approved, Served, Named, Steps, Recovering
    <3>2. CASE pc' = [pc EXCEPT ![p] = "cleanup"]
      BY <1>1, <1>2, <1>4, <3>2
         DEF Running, Types, RunTypes, Active, OwnRelease, Fresh, Marked,
            Approved, Served, Named, Steps, Recovering
    <3> QED
      BY <1>2, <3>1, <3>2
  <2>2. Active(p)'
    BY <1>1, <1>2, <1>4, <2>1
       DEF Running, Types, RunTypes, Active, OwnRelease, Fresh, Derived, LinksStale,
           Marked, Served, Named, Steps, Recovering
  <2> QED
    BY <1>1, <1>2, <2>2, OthersIdle DEF Running, Types, RunTypes, Steps
<1> QED
  BY <1>3, <1>4, <1>5, <1>6, <1>7, <1>8, <1>9, <1>10, PartsNext

\* guards.py
LEMMA GuardsKept ==
  ASSUME PInv, NEW p \in Runs, Guards(p)
  PROVE  PInv'
<1>1. Running(p) /\ pc[p] = "guards" /\ target[p] \in Release
  BY RunningFacts DEF Guards, Running, Fresh, Named, Steps, Recovering
<1>2. /\ UNCHANGED <<dirs, older, source, sidecars, staging, current, before, links, ledger,
                     appending, rootLock, copy, target, previous, doomed, faults, rollbacks, stumbles,
                     surprised, nextId>>
      /\ \/ /\ guarded' = guarded \cup {target[p]}
            /\ pc' = [pc EXCEPT ![p] = "previous"]
         \/ /\ pc' = [pc EXCEPT ![p] = "cleanup"]
            /\ UNCHANGED <<guarded>>
  BY <1>1 DEF Guards, Running, Continue, Exit, Goto, tree, public, collector, counters, runVars
<1>3. Types'
  BY <1>1, <1>2, ConstantsAssumption DEF Running, Types, RunTypes, Steps, Release
<1>4. Tree'
  BY <1>1, <1>2, TreeKept DEF Running
<1>5. MarkedUnlessGuarded' /\ surprised' = FALSE
  BY <1>1, <1>2, <1>4 DEF Running, MarkedUnlessGuarded, ServedComplete, Active, OwnRelease,
                              Marked, Approved, Served
<1>6. ServedComplete'
  BY <1>1, <1>2, <1>4 DEF Running, ServedComplete, Active, OwnRelease, Marked, Approved, Types, RunTypes
<1>7. Fresh'
  BY <1>1, <1>2, <1>4 DEF Running, Fresh, Types, RunTypes, Named, Steps, Recovering
<1>8. LinksStale'
  BY <1>1, <1>2, <1>4 DEF Running, LinksStale, Active, OwnRelease, Marked, Types, RunTypes
<1>9. Derived'
  BY <1>1, <1>2 DEF Running, Derived, Active, Types, RunTypes
<1>10. \A q \in Runs : Active(q)'
  <2>1. OwnRelease(p)'
    <3>1. CASE pc' = [pc EXCEPT ![p] = "previous"]
      BY <1>1, <1>2, <1>4, <3>1
         DEF Running, Types, RunTypes, Active, OwnRelease, Fresh, Marked,
            Approved, Served, Named, Steps, Recovering
    <3>2. CASE pc' = [pc EXCEPT ![p] = "cleanup"]
      BY <1>1, <1>2, <1>4, <3>2
         DEF Running, Types, RunTypes, Active, OwnRelease, Fresh, Marked,
            Approved, Served, Named, Steps, Recovering
    <3> QED
      BY <1>2, <3>1, <3>2
  <2>2. Active(p)'
    BY <1>1, <1>2, <1>4, <2>1
       DEF Running, Types, RunTypes, Active, OwnRelease, Fresh, Derived, LinksStale,
           Marked, Served, Named, Steps, Recovering
  <2> QED
    BY <1>1, <1>2, <2>2, OthersIdle DEF Running, Types, RunTypes, Steps
<1> QED
  BY <1>3, <1>4, <1>5, <1>6, <1>7, <1>8, <1>9, <1>10, PartsNext

\* The release that is served is there.
LEMMA PreviousKept ==
  ASSUME PInv, NEW p \in Runs, Previous(p)
  PROVE  PInv'
<1>1. Running(p) /\ pc[p] = "previous" /\ target[p] \in Release
  BY RunningFacts DEF Previous, Lost, Running, Fresh, Named, Steps, Recovering
<1>2. /\ UNCHANGED <<dirs, older, source, guarded, sidecars, staging, current, before,
                     links, ledger, appending, rootLock, copy, target, doomed, faults,
                     rollbacks, stumbles, nextId>>
      /\ surprised' = (surprised \/ (current # None /\ dirs[current] = "absent"))
      /\ previous' = [previous EXCEPT ![p] = current]
      /\ pc' = [pc EXCEPT ![p] = IF current # None /\ dirs[current] = "absent" THEN "cleanup" ELSE "link"]
  BY <1>1 DEF Previous, Lost, Running, Continue, Exit, Goto, tree, public, collector, counters, runVars
<1>3. Types'
  BY <1>1, <1>2, ConstantsAssumption DEF Running, Types, RunTypes, Steps, Release
<1>4. Tree'
  BY <1>1, <1>2, TreeKept DEF Running
<1>5. MarkedUnlessGuarded' /\ surprised' = FALSE
  BY <1>1, <1>2, <1>4 DEF Running, MarkedUnlessGuarded, ServedComplete, Active, OwnRelease,
                              Marked, Approved, Served
<1>6. ServedComplete'
  BY <1>1, <1>2, <1>4 DEF Running, ServedComplete, Active, OwnRelease, Marked, Approved, Types, RunTypes
<1>7. Fresh'
  BY <1>1, <1>2, <1>4 DEF Running, Fresh, Types, RunTypes, Named, Steps, Recovering
<1>8. LinksStale'
  BY <1>1, <1>2, <1>4 DEF Running, LinksStale, Active, OwnRelease, Marked, Types, RunTypes
<1>9. Derived'
  BY <1>1, <1>2 DEF Running, Derived, Active, Types, RunTypes
<1>10. \A q \in Runs : Active(q)'
  <2>1. OwnRelease(p)'
    BY <1>1, <1>2, <1>4
       DEF Running, Types, RunTypes, Active, OwnRelease, Fresh, Marked, Approved, Served, Named, Steps, Recovering
  <2>2. Active(p)'
    BY <1>1, <1>2, <1>4, <2>1
       DEF Running, Types, RunTypes, Active, OwnRelease, Fresh, Derived, LinksStale,
           Marked, Served, Named, Steps, Recovering
  <2> QED
    BY <1>1, <1>2, <2>2, OthersIdle DEF Running, Types, RunTypes, Steps
<1> QED
  BY <1>3, <1>4, <1>5, <1>6, <1>7, <1>8, <1>9, <1>10, PartsNext

\* ln -s
LEMMA LinkKept ==
  ASSUME PInv, NEW p \in Runs, Link(p)
  PROVE  PInv'
<1>1. Running(p) /\ pc[p] = "link" /\ target[p] \in Release
  BY RunningFacts DEF Link, Running, Fresh, Named, Steps, Recovering
<1>2. /\ UNCHANGED <<dirs, older, source, guarded, sidecars, staging, current, before,
                     ledger, appending, rootLock, copy, target, previous, doomed, faults,
                     rollbacks, surprised, nextId>>
      /\ stumbles' \in {stumbles, stumbles + 1}
      /\ \/ /\ links[p] # None => dirs[links[p]] # "absent"
            /\ links' = [links EXCEPT ![p] = IF links[p] = None THEN target[p] ELSE links[p]]
            /\ pc' = [pc EXCEPT ![p] = "flip"]
         \/ /\ pc' = [pc EXCEPT ![p] = "cleanup"]
            /\ UNCHANGED <<links>>
  BY <1>1 DEF Link, Dangling, Running, Continue, Exit, Goto, tree, public, collector, counters, runVars
<1>3. Types'
  <2>1. stumbles' \in Nat
    BY <1>1, <1>2 DEF Running, Types
  <2> QED
    BY <1>1, <1>2, <2>1, ConstantsAssumption DEF Running, Types, RunTypes, Steps, Release
<1>4. Tree'
  BY <1>1, <1>2, TreeKept DEF Running
<1>5. MarkedUnlessGuarded' /\ surprised' = FALSE
  BY <1>1, <1>2, <1>4 DEF Running, MarkedUnlessGuarded, ServedComplete, Active, OwnRelease,
                              Marked, Approved, Served
<1>6. ServedComplete'
  BY <1>1, <1>2, <1>4 DEF Running, ServedComplete, Active, OwnRelease, Marked, Approved, Types, RunTypes
<1>7. Fresh'
  BY <1>1, <1>2, <1>4 DEF Running, Fresh, Types, RunTypes, Named, Steps, Recovering
<1>8. LinksStale'
  BY <1>1, <1>2, <1>4 DEF Running, LinksStale, Active, OwnRelease, Marked, Types, RunTypes
<1>9. Derived'
  BY <1>1, <1>2 DEF Running, Derived, Active, Types, RunTypes
<1>10. \A q \in Runs : Active(q)'
  <2>1. OwnRelease(p)'
    <3>1. CASE pc' = [pc EXCEPT ![p] = "flip"]
      BY <1>1, <1>2, <1>4, <3>1
         DEF Running, Types, RunTypes, Active, OwnRelease, Fresh, Marked,
            Approved, Served, Named, Steps, Recovering
    <3>2. CASE pc' = [pc EXCEPT ![p] = "cleanup"]
      BY <1>1, <1>2, <1>4, <3>2
         DEF Running, Types, RunTypes, Active, OwnRelease, Fresh, Marked,
            Approved, Served, Named, Steps, Recovering
    <3> QED
      BY <1>2, <3>1, <3>2
  <2>2. Active(p)'
    BY <1>1, <1>2, <1>4, <2>1
       DEF Running, Types, RunTypes, Active, OwnRelease, Fresh, Derived, LinksStale,
           Marked, Served, Named, Steps, Recovering
  <2> QED
    BY <1>1, <1>2, <2>2, OthersIdle DEF Running, Types, RunTypes, Steps
<1> QED
  BY <1>3, <1>4, <1>5, <1>6, <1>7, <1>8, <1>9, <1>10, PartsNext

\* mv -Tf
LEMMA FlipKept ==
  ASSUME PInv, NEW p \in Runs, Flip(p)
  PROVE  PInv'
<1>1. Running(p) /\ pc[p] = "flip" /\ target[p] \in Release
  BY RunningFacts DEF Flip, Running, Fresh, Named, Steps, Recovering
<1>2. /\ UNCHANGED <<dirs, older, source, guarded, sidecars, staging, ledger, appending,
                     rootLock, copy, target, previous, doomed, faults, rollbacks, stumbles, surprised,
                     nextId>>
      /\ \/ /\ current' = links[p]
            /\ before' = current
            /\ links' = [links EXCEPT ![p] = None]
            /\ pc' = [pc EXCEPT ![p] = "publish"]
         \/ /\ pc' = [pc EXCEPT ![p] = "cleanup"]
            /\ UNCHANGED <<current, before, links>>
  BY <1>1 DEF Flip, Running, Continue, Exit, Goto, tree, public, collector, counters, runVars
<1>3. Types'
  BY <1>1, <1>2, ConstantsAssumption DEF Running, Types, RunTypes, Steps, Release
<1>4. Tree'
  BY <1>1, <1>2, TreeKept DEF Running
<1>5. MarkedUnlessGuarded' /\ surprised' = FALSE
  BY <1>1, <1>2, <1>4 DEF Running, MarkedUnlessGuarded, ServedComplete, Active, OwnRelease,
                              Marked, Approved, Served
<1>6. ServedComplete'
  BY <1>1, <1>2, <1>4 DEF Running, ServedComplete, Active, OwnRelease, Marked, Approved, Types, RunTypes
<1>7. Fresh'
  BY <1>1, <1>2, <1>4 DEF Running, Fresh, Types, RunTypes, Named, Steps, Recovering
<1>8. LinksStale'
  BY <1>1, <1>2, <1>4 DEF Running, LinksStale, Active, OwnRelease, Marked, Types, RunTypes
<1>9. Derived'
  BY <1>1, <1>2 DEF Running, Derived, Active, Types, RunTypes
<1>10. \A q \in Runs : Active(q)'
  <2>1. OwnRelease(p)'
    <3>1. CASE pc' = [pc EXCEPT ![p] = "publish"]
      BY <1>1, <1>2, <1>4, <3>1
         DEF Running, Types, RunTypes, Active, OwnRelease, Fresh, Marked,
            Approved, Served, Named, Steps, Recovering
    <3>2. CASE pc' = [pc EXCEPT ![p] = "cleanup"]
      BY <1>1, <1>2, <1>4, <3>2
         DEF Running, Types, RunTypes, Active, OwnRelease, Fresh, Marked,
            Approved, Served, Named, Steps, Recovering
    <3> QED
      BY <1>2, <3>1, <3>2
  <2>2. Active(p)'
    BY <1>1, <1>2, <1>4, <2>1
       DEF Running, Types, RunTypes, Active, OwnRelease, Fresh, Derived, LinksStale,
           Marked, Served, Named, Steps, Recovering
  <2> QED
    BY <1>1, <1>2, <2>2, OthersIdle DEF Running, Types, RunTypes, Steps
<1> QED
  BY <1>3, <1>4, <1>5, <1>6, <1>7, <1>8, <1>9, <1>10, PartsNext

\* release_maintenance publish
LEMMA PublishKept ==
  ASSUME PInv, NEW p \in Runs, Publish(p)
  PROVE  PInv'
<1>1. Running(p) /\ pc[p] = "publish" /\ target[p] \in Release
  BY RunningFacts DEF Publish, Running, Fresh, Named, Steps, Recovering
<1>2. /\ UNCHANGED <<dirs, older, source, guarded, staging, current, before, links, ledger,
                     appending, rootLock, copy, target, previous, doomed, faults, rollbacks, stumbles,
                     nextId>>
      /\ \/ /\ current = target[p]
            /\ sidecars' = sidecars \ {target[p]}
            /\ pc' = [pc EXCEPT ![p] = "prune"]
            /\ UNCHANGED <<surprised>>
         \/ /\ pc' = [pc EXCEPT ![p] = "cleanup"]
            /\ surprised' = (surprised \/ current # target[p])
            /\ UNCHANGED <<sidecars>>
  BY <1>1 DEF Publish, Running, Continue, Exit, Goto, tree, public, collector, counters, runVars
<1>3. Types'
  BY <1>1, <1>2, ConstantsAssumption DEF Running, Types, RunTypes, Steps, Release
<1>4. Tree'
  BY <1>1, <1>2, TreeKept DEF Running
<1>5. MarkedUnlessGuarded' /\ surprised' = FALSE
  BY <1>1, <1>2, <1>4 DEF Running, MarkedUnlessGuarded, ServedComplete, Active, OwnRelease,
                              Marked, Approved, Served
<1>6. ServedComplete'
  BY <1>1, <1>2, <1>4 DEF Running, ServedComplete, Active, OwnRelease, Marked, Approved, Types, RunTypes
<1>7. Fresh'
  BY <1>1, <1>2, <1>4 DEF Running, Fresh, Types, RunTypes, Named, Steps, Recovering
<1>8. LinksStale'
  BY <1>1, <1>2, <1>4 DEF Running, LinksStale, Active, OwnRelease, Marked, Types, RunTypes
<1>9. Derived'
  BY <1>1, <1>2 DEF Running, Derived, Active, Types, RunTypes
<1>10. \A q \in Runs : Active(q)'
  <2>1. OwnRelease(p)'
    <3>1. CASE pc' = [pc EXCEPT ![p] = "prune"]
      BY <1>1, <1>2, <1>4, <3>1
         DEF Running, Types, RunTypes, Active, OwnRelease, Fresh, Marked,
            Approved, Served, Named, Steps, Recovering
    <3>2. CASE pc' = [pc EXCEPT ![p] = "cleanup"]
      BY <1>1, <1>2, <1>4, <3>2
         DEF Running, Types, RunTypes, Active, OwnRelease, Fresh, Marked,
            Approved, Served, Named, Steps, Recovering
    <3> QED
      BY <1>2, <3>1, <3>2
  <2>2. Active(p)'
    BY <1>1, <1>2, <1>4, <2>1
       DEF Running, Types, RunTypes, Active, OwnRelease, Fresh, Derived, LinksStale,
           Marked, Served, Named, Steps, Recovering
  <2> QED
    BY <1>1, <1>2, <2>2, OthersIdle DEF Running, Types, RunTypes, Steps
<1> QED
  BY <1>3, <1>4, <1>5, <1>6, <1>7, <1>8, <1>9, <1>10, PartsNext

\* release_maintenance prune
LEMMA PruneKept ==
  ASSUME PInv, NEW p \in Runs, Prune(p)
  PROVE  PInv'
<1>1. Running(p) /\ pc[p] = "prune" /\ target[p] \in Release
  BY RunningFacts DEF Prune, Running, Fresh, Named, Steps, Recovering
<1>2. /\ UNCHANGED <<dirs, older, source, guarded, sidecars, current, before, links, ledger,
                     appending, rootLock, copy, target, previous, faults, rollbacks, stumbles,
                     surprised, nextId>>
      /\ staging' = {}
      /\ doomed' = [doomed EXCEPT ![p] = Discarded(p)]
      /\ pc' = [pc EXCEPT ![p] = "delete"]
  BY <1>1 DEF Prune, Running, Continue, Exit, Goto, tree, public, collector, counters, runVars
<1>3. Discarded(p) \subseteq Release /\ Discarded(p) \subseteq Present \ {target[p], previous[p]}
  <2>1. None \notin Present /\ Present \subseteq Release
    BY <1>1 DEF Running, Present
  <2> QED
    BY <2>1 DEF Discarded, Protected
<1>4. Types'
  BY <1>1, <1>2, <1>3 DEF Running, Types, RunTypes, Steps
<1>5. Tree'
  BY <1>1, <1>2, TreeKept DEF Running
<1>6. MarkedUnlessGuarded' /\ surprised' = FALSE
  BY <1>1, <1>2, <1>5 DEF Running, MarkedUnlessGuarded, ServedComplete, Active, OwnRelease,
                              Marked, Approved, Served
<1>7. ServedComplete'
  BY <1>1, <1>2, <1>5 DEF Running, ServedComplete, Active, OwnRelease, Marked, Approved, Types, RunTypes
<1>8. Fresh'
  BY <1>1, <1>2, <1>5 DEF Running, Fresh, Types, RunTypes, Named, Steps, Recovering
<1>9. LinksStale'
  BY <1>1, <1>2, <1>5 DEF Running, LinksStale, Active, OwnRelease, Marked, Types, RunTypes
<1>10. Derived'
  BY <1>1, <1>2 DEF Running, Derived, Active, Types, RunTypes
<1>11. \A q \in Runs : Active(q)'
  <2>1. OwnRelease(p)'
    BY <1>1, <1>2, <1>5
       DEF Running, Types, RunTypes, Active, OwnRelease, Fresh, Marked, Approved, Served, Named, Steps, Recovering
  <2>2. Present' = Present /\ doomed'[p] = Discarded(p) /\ pc'[p] = "delete"
    BY <1>1, <1>2 DEF Running, Types, RunTypes, Present
  <2>3. Active(p)'
    BY <1>1, <1>2, <1>3, <2>1, <2>2
       DEF Running, Active, Served, Named, Steps, Recovering
  <2> QED
    BY <1>1, <1>2, <2>3, OthersIdle DEF Running, Types, RunTypes, Steps
<1> QED
  BY <1>4, <1>5, <1>6, <1>7, <1>8, <1>9, <1>10, <1>11, PartsNext

\* The end of a published run.
LEMMA FinishKept ==
  ASSUME PInv, NEW p \in Runs, Finish(p)
  PROVE  PInv'
<1>1. Running(p) /\ pc[p] = "delete" /\ target[p] \in Release
  BY RunningFacts DEF Finish, Running, Fresh, Named, Steps, Recovering
<1>2. /\ UNCHANGED <<dirs, older, source, guarded, sidecars, staging, current, before,
                     links, ledger, appending, faults, rollbacks, stumbles, surprised, nextId>>
      /\ pc' = [pc EXCEPT ![p] = "idle"]
      /\ rootLock' = NoRun
      /\ copy' = [copy EXCEPT ![p] = 0]
      /\ target' = [target EXCEPT ![p] = None]
      /\ previous' = [previous EXCEPT ![p] = None]
      /\ doomed' = [doomed EXCEPT ![p] = {}]
  BY <1>1 DEF Finish, Running, Continue, Exit, Goto, tree, public, collector, counters, runVars
<1>3. Types'
  <2>1. RunTypes'
    BY <1>1, <1>2, ExitTypes DEF Running, Types
  <2> QED
    BY <1>1, <1>2, <2>1, ConstantsAssumption DEF Running, Types, Release
<1>4. Tree'
  BY <1>1, <1>2, TreeKept DEF Running
<1>5. MarkedUnlessGuarded' /\ surprised' = FALSE
  BY <1>1, <1>2, <1>4 DEF Running, MarkedUnlessGuarded, ServedComplete, Active, OwnRelease,
                              Marked, Approved, Served
<1>6. ServedComplete'
  BY <1>1, <1>2, <1>4 DEF Running, ServedComplete, Active, OwnRelease, Marked, Approved, Types, RunTypes
<1>7. Fresh'
  BY <1>1, <1>2, <1>4 DEF Running, Fresh, Types, RunTypes, Named, Steps, Recovering
<1>8. LinksStale'
  BY <1>1, <1>2, <1>4 DEF Running, LinksStale, Active, OwnRelease, Marked, Types, RunTypes
<1>9. Derived'
  BY <1>1, <1>2 DEF Running, Derived, Active, Types, RunTypes
<1>10. \A q \in Runs : Active(q)'
  BY <1>1, <1>2 DEF Running, Active, Types, RunTypes
<1> QED
  BY <1>3, <1>4, <1>5, <1>6, <1>7, <1>8, <1>9, <1>10, PartsNext

\* The trap of an unpublished run.
LEMMA CleanupKept ==
  ASSUME PInv, NEW p \in Runs, Cleanup(p)
  PROVE  PInv'
<1>1. Running(p) /\ pc[p] = "cleanup" /\ target[p] \in Release
  BY RunningFacts DEF Cleanup, Running, Fresh, Named, Steps, Recovering
<1>2. /\ UNCHANGED <<dirs, older, source, guarded, sidecars, staging, current, before,
                     ledger, appending, faults, rollbacks, stumbles, nextId>>
      /\ \/ /\ links' = [links EXCEPT ![p] = None]
            /\ current = target[p]
            /\ pc' = [pc EXCEPT ![p] = "idle"]
            /\ rootLock' = NoRun
            /\ copy' = [copy EXCEPT ![p] = 0]
            /\ target' = [target EXCEPT ![p] = None]
            /\ previous' = [previous EXCEPT ![p] = None]
            /\ doomed' = [doomed EXCEPT ![p] = {}]
            /\ UNCHANGED <<surprised>>
         \/ /\ links' = [links EXCEPT ![p] = None]
            /\ current # target[p]
            /\ target[p] \in sidecars
            /\ surprised' = (surprised \/ target[p] \notin sidecars)
            /\ pc' = [pc EXCEPT ![p] = "discard"]
            /\ UNCHANGED <<rootLock, copy, target, previous, doomed>>
         \/ /\ links' = [links EXCEPT ![p] = None]
            /\ current # target[p]
            /\ target[p] \notin sidecars
            /\ surprised' = (surprised \/ target[p] \notin sidecars)
            /\ pc' = [pc EXCEPT ![p] = "idle"]
            /\ rootLock' = NoRun
            /\ copy' = [copy EXCEPT ![p] = 0]
            /\ target' = [target EXCEPT ![p] = None]
            /\ previous' = [previous EXCEPT ![p] = None]
            /\ doomed' = [doomed EXCEPT ![p] = {}]
  BY <1>1 DEF Cleanup, Running, Continue, Exit, Goto, tree, public, collector, counters, runVars
<1>3. Types'
  <2>1. RunTypes'
    <3>1. CASE pc'[p] = "idle"
      BY <1>1, <1>2, <3>1, ExitTypes DEF Running, Types, RunTypes
    <3>2. CASE pc'[p] # "idle"
      BY <1>1, <1>2, <3>2, ConstantsAssumption DEF Running, Types, RunTypes, Steps, Release
    <3> QED
      BY <3>1, <3>2
  <2> QED
    BY <1>1, <1>2, <2>1, ConstantsAssumption DEF Running, Types, Release
<1>4. Tree'
  BY <1>1, <1>2, TreeKept DEF Running
<1>5. MarkedUnlessGuarded' /\ surprised' = FALSE
  BY <1>1, <1>2, <1>4 DEF Running, MarkedUnlessGuarded, ServedComplete, Active, OwnRelease,
                              Marked, Approved, Served
<1>6. ServedComplete'
  BY <1>1, <1>2, <1>4 DEF Running, ServedComplete, Active, OwnRelease, Marked, Approved, Types, RunTypes
<1>7. Fresh'
  BY <1>1, <1>2, <1>4 DEF Running, Fresh, Types, RunTypes, Named, Steps, Recovering
<1>8. LinksStale'
  BY <1>1, <1>2, <1>4 DEF Running, LinksStale, Active, OwnRelease, Marked, Types, RunTypes
<1>9. Derived'
  BY <1>1, <1>2 DEF Running, Derived, Active, Types, RunTypes
<1>10. \A q \in Runs : Active(q)'
  <2>1. OwnRelease(p)'
    <3>1. CASE pc' = [pc EXCEPT ![p] = "idle"]
      BY <1>1, <1>2, <1>4, <3>1
         DEF Running, Types, RunTypes, Active, OwnRelease, Fresh, Marked,
            Approved, Served, Named, Steps, Recovering
    <3>2. CASE pc' = [pc EXCEPT ![p] = "discard"]
      BY <1>1, <1>2, <1>4, <3>2
         DEF Running, Types, RunTypes, Active, OwnRelease, Fresh, Marked,
            Approved, Served, Named, Steps, Recovering
    <3> QED
      BY <1>2, <3>1, <3>2
  <2>2. Active(p)'
    BY <1>1, <1>2, <1>4, <2>1
       DEF Running, Types, RunTypes, Active, OwnRelease, Fresh, Derived, LinksStale,
           Marked, Served, Named, Steps, Recovering
  <2> QED
    BY <1>1, <1>2, <2>2, OthersIdle DEF Running, Types, RunTypes, Steps
<1> QED
  BY <1>3, <1>4, <1>5, <1>6, <1>7, <1>8, <1>9, <1>10, PartsNext

\* release_maintenance discard-unpublished
LEMMA DiscardKept ==
  ASSUME PInv, NEW p \in Runs, Discard(p)
  PROVE  PInv'
<1>1. Running(p) /\ pc[p] = "discard" /\ target[p] \in Release
  BY RunningFacts DEF Discard, Running, Fresh, Named, Steps, Recovering
<1>2. /\ UNCHANGED <<source, guarded, staging, current, before, links, ledger, appending,
                     faults, rollbacks, stumbles, surprised, nextId>>
      /\ \/ /\ dirs[target[p]] # "absent"
            /\ RemoveTree(target[p])
            /\ UNCHANGED <<sidecars, rootLock, pc, copy, target, previous, doomed>>
         \/ /\ dirs[target[p]] = "absent"
            /\ sidecars' = sidecars \ {target[p]}
            /\ pc' = [pc EXCEPT ![p] = "idle"]
            /\ rootLock' = NoRun
            /\ copy' = [copy EXCEPT ![p] = 0]
            /\ target' = [target EXCEPT ![p] = None]
            /\ previous' = [previous EXCEPT ![p] = None]
            /\ doomed' = [doomed EXCEPT ![p] = {}]
            /\ UNCHANGED <<dirs, older>>
  BY <1>1 DEF Discard, Running, Continue, Exit, Goto, tree, public, collector, counters, runVars
<1>3. Types'
  <2>1. RunTypes'
    <3>1. CASE pc'[p] = "idle"
      BY <1>1, <1>2, <3>1, ExitTypes DEF Running, Types, RunTypes
    <3>2. CASE pc'[p] # "idle"
      BY <1>1, <1>2, <3>2, ConstantsAssumption DEF Running, Types, RunTypes, Steps, Release
    <3> QED
      BY <3>1, <3>2
  <2> QED
    BY <1>1, <1>2, <2>1, ConstantsAssumption DEF Running, Types, Release
<1>4. /\ Tree' /\ (\A m \in Release \ {target[p]} : dirs'[m] = dirs[m])
      /\ dirs'[target[p]] \in {"absent", "damaged"}
  BY <1>1, <1>2, Removal, TreeKept DEF Running, Present
<1>5. MarkedUnlessGuarded' /\ surprised' = FALSE
  BY <1>1, <1>2, <1>4 DEF Running, MarkedUnlessGuarded, ServedComplete, Active, OwnRelease,
                              Marked, Approved, Served
<1>6. ServedComplete'
  BY <1>1, <1>2, <1>4 DEF Running, ServedComplete, Active, OwnRelease, Marked, Approved, Types, RunTypes
<1>7. Fresh'
  BY <1>1, <1>2, <1>4 DEF Running, Fresh, Types, RunTypes, Named, Steps, Recovering
<1>8. LinksStale'
  BY <1>1, <1>2, <1>4 DEF Running, LinksStale, Active, OwnRelease, Marked, Types, RunTypes
<1>9. Derived'
  BY <1>1, <1>2 DEF Running, Derived, Active, Types, RunTypes
<1>10. \A q \in Runs : Active(q)'
  <2>1. OwnRelease(p)'
    <3>1. CASE UNCHANGED pc
      BY <1>1, <1>2, <1>4, <3>1
         DEF Running, Types, RunTypes, Active, OwnRelease, Fresh, Marked,
            Approved, Served, Named, Steps, Recovering
    <3>2. CASE pc' = [pc EXCEPT ![p] = "idle"]
      BY <1>1, <1>2, <1>4, <3>2
         DEF Running, Types, RunTypes, Active, OwnRelease, Fresh, Marked,
            Approved, Served, Named, Steps, Recovering
    <3> QED
      BY <1>2, <3>1, <3>2
  <2>2. Active(p)'
    BY <1>1, <1>2, <1>4, <2>1
       DEF Running, Types, RunTypes, Active, OwnRelease, Fresh, Derived, LinksStale,
           Marked, Served, Named, Steps, Recovering
  <2> QED
    BY <1>1, <1>2, <2>2, OthersIdle DEF Running, Types, RunTypes, Steps
<1> QED
  BY <1>3, <1>4, <1>5, <1>6, <1>7, <1>8, <1>9, <1>10, PartsNext

\* release_maintenance recover: the sidecars and what they mark.
LEMMA RecoverSidecarKept ==
  ASSUME PInv, NEW p \in Runs, RecoverSidecar(p)
  PROVE  PInv'
<1>1. Running(p) /\ pc[p] = "recover" /\ target[p] = None
  BY RunningFacts DEF RecoverSidecar, Running, Fresh, Named, Steps, Recovering
<1>2. UNCHANGED <<source, guarded, staging, current, before, links, ledger, appending,
                  rootLock, pc, copy, target, previous, doomed, faults, rollbacks, stumbles,
                  surprised, nextId>>
  BY DEF RecoverSidecar, public, collector, counters, runVars
<1>3. PICK n \in sidecars :
        \/ Leftover(n) /\ RemoveTree(n) /\ UNCHANGED sidecars
        \/ ~Leftover(n) /\ sidecars' = sidecars \ {n} /\ UNCHANGED <<dirs, older>>
  BY DEF RecoverSidecar
<1>4. n \in Release
  BY <1>1 DEF Running, Types
<1>5. Types'
  BY <1>1, <1>2, <1>3, ConstantsAssumption DEF Running, Types, RunTypes, Steps, Release
<1>6. /\ Tree'
      /\ \/ /\ dirs[n] # "absent" /\ n # current /\ dirs'[n] \in {"absent", "damaged"}
            /\ \A m \in Release \ {n} : dirs'[m] = dirs[m]
            /\ UNCHANGED sidecars
         \/ /\ dirs[n] = "absent" \/ n = current
            /\ sidecars' = sidecars \ {n} /\ UNCHANGED dirs
  <2>1. CASE Leftover(n) /\ RemoveTree(n) /\ UNCHANGED sidecars
    <3>1. n \in Present
      BY <1>4, <2>1 DEF Leftover, Present
    <3> QED
      BY <1>1, <2>1, <3>1, Removal DEF Running, Leftover
  <2>2. CASE ~Leftover(n) /\ sidecars' = sidecars \ {n} /\ UNCHANGED <<dirs, older>>
    BY <1>1, <2>2, TreeKept DEF Running, Leftover
  <2> QED
    BY <1>3, <2>1, <2>2
<1>7. MarkedUnlessGuarded' /\ surprised' = FALSE
  BY <1>1, <1>2, <1>4, <1>6 DEF Running, MarkedUnlessGuarded, ServedComplete
<1>8. ServedComplete'
  BY <1>1, <1>2, <1>4, <1>6 DEF Running, ServedComplete, Types
<1>9. Fresh'
  BY <1>1, <1>2, <1>4, <1>6 DEF Running, Fresh, Types, RunTypes, Named, Steps, Recovering
<1>10. LinksStale'
  BY <1>1, <1>2, <1>4, <1>6 DEF Running, LinksStale, Types
<1>11. Derived'
  BY <1>1, <1>2 DEF Running, Derived
<1>12. Active(p)'
  <2>1. OwnRelease(p)'
    BY <1>1, <1>2 DEF Running, OwnRelease, Marked, Approved, Served
  <2> QED
    BY <1>1, <1>2, <2>1 DEF Running, Active, Served, Named, Recovering
<1>13. \A q \in Runs : Active(q)'
  BY <1>1, <1>2, <1>12 DEF Running, Active
<1> QED
  BY <1>5, <1>6, <1>7, <1>8, <1>9, <1>10, <1>11, <1>13, PartsNext

\* prune: one step of a removal.
LEMMA DeleteKept ==
  ASSUME PInv, NEW p \in Runs, Delete(p)
  PROVE  PInv'
<1>1. Running(p) /\ pc[p] = "delete" /\ target[p] \in Release
  BY RunningFacts DEF Delete, Running, Fresh, Named, Steps, Recovering
<1>2. UNCHANGED <<source, guarded, sidecars, staging, current, before, links, ledger,
                  appending, rootLock, pc, copy, target, previous, faults, rollbacks, stumbles,
                  surprised, nextId>>
  BY DEF Delete, public, collector, counters
<1>3. PICK n \in doomed[p] :
        /\ RemoveTree(n)
        /\ doomed' = IF dirs[n] = "damaged" THEN [doomed EXCEPT ![p] = @ \ {n}] ELSE doomed
  BY DEF Delete
<1>4. /\ n \in Present /\ n \in Release /\ n # current /\ n # before /\ n # target[p]
      /\ sidecars \subseteq {target[p]} /\ doomed[p] \subseteq Present \ {current, before}
      /\ previous[p] = before /\ current = target[p]
  BY <1>1, <1>3 DEF Running, Active, OwnRelease, Served, Present, Recovering
<1>5. /\ Tree' /\ dirs'[n] \in {"absent", "damaged"}
      /\ \A m \in Release \ {n} : dirs'[m] = dirs[m]
  BY <1>1, <1>3, <1>4, Removal DEF Running
<1>6. doomed' \in [Runs -> SUBSET Release] /\ doomed'[p] \subseteq Present' \ {current, before}
  <2>1. dirs \in [Release -> {"absent", "built", "finished", "damaged"}]
        /\ doomed \in [Runs -> SUBSET Release]
    BY <1>1 DEF Running, Tree, Types, RunTypes
  <2>2. CASE dirs[n] = "damaged"
    <3>1. doomed' = [doomed EXCEPT ![p] = @ \ {n}]
      BY <1>3, <2>2
    <3> QED
      BY <1>4, <1>5, <2>1, <3>1 DEF Present
  <2>3. CASE dirs[n] # "damaged"
    <3>1. doomed' = doomed /\ dirs' = [dirs EXCEPT ![n] = "damaged"]
      BY <1>3, <2>3 DEF RemoveTree, BeginRemoval
    <3> QED
      BY <1>4, <2>1, <3>1 DEF Present
  <2> QED
    BY <2>2, <2>3
<1>7. Types'
  BY <1>1, <1>2, <1>6, ConstantsAssumption DEF Running, Types, RunTypes, Steps, Release
<1>8. MarkedUnlessGuarded' /\ surprised' = FALSE
  BY <1>1, <1>2, <1>4, <1>5 DEF Running, MarkedUnlessGuarded, Present
<1>9. ServedComplete'
  BY <1>1, <1>2, <1>4, <1>5 DEF Running, ServedComplete, Types
<1>10. Fresh'
  BY <1>1, <1>2, <1>4, <1>5 DEF Running, Fresh, Types, RunTypes, Present
<1>11. LinksStale'
  BY <1>1, <1>2, <1>4, <1>5 DEF Running, LinksStale, Types, Present
<1>12. Derived'
  BY <1>1, <1>2 DEF Running, Derived
<1>13. Active(p)'
  <2>1. OwnRelease(p)'
    BY <1>1, <1>2, <1>4, <1>5 DEF Running, Active, OwnRelease, Marked, Approved, Served
  <2> QED
    BY <1>1, <1>2, <1>4, <1>6, <2>1 DEF Running, Active, Served, Named, Recovering
<1>14. \A q \in Runs : Active(q)'
  BY <1>1, <1>2, <1>13 DEF Running, Active
<1> QED
  BY <1>5, <1>7, <1>8, <1>9, <1>10, <1>11, <1>12, <1>14, PartsNext

\* The lock of the root is taken.
LEMMA StartKept ==
  ASSUME PInv, NEW p \in Runs, Start(p)
  PROVE  PInv'
<1>1. /\ pc[p] = "idle" /\ rootLock' = p /\ pc' = [pc EXCEPT ![p] = "recover"]
      /\ UNCHANGED <<dirs, older, source, guarded, sidecars, staging, current, before,
                     links, ledger, appending, copy, target, previous, doomed,
                     faults, rollbacks, stumbles, surprised, nextId>>
  <2>1. ~Lost /\ surprised = FALSE
    BY DEF PInv, RootSound, TypeOK, ServedComplete, Lost
  <2> QED
    BY <2>1 DEF Start, Goto, tree, public, collector, counters, runVars
<1>2. /\ \A q \in Runs : pc[q] = "idle"
      /\ Types /\ Tree /\ MarkedUnlessGuarded /\ surprised = FALSE /\ ServedComplete
      /\ Fresh /\ LinksStale /\ Derived
  BY Parts, ConstantsAssumption DEF Start, PInv, Active
<1>3. \A q \in Runs : target[q] = None
  BY <1>2 DEF Fresh, Named, Recovering
<1>4. Types'
  BY <1>1, <1>2 DEF Types, RunTypes, Steps
<1>5. Tree' /\ MarkedUnlessGuarded' /\ surprised' = FALSE /\ ServedComplete' /\ LinksStale'
      /\ Derived'
  BY <1>1, <1>2, TreeKept DEF MarkedUnlessGuarded, ServedComplete, LinksStale, Derived
<1>6. Fresh'
  BY <1>1, <1>2 DEF Fresh, Named, Recovering, Types, RunTypes
<1>7. Active(p)'
  <2>1. OwnRelease(p)' /\ pc'[p] = "recover"
    BY <1>1, <1>2 DEF OwnRelease, Marked, Approved, Served, Types, RunTypes
  <2> QED
    BY <1>1, <1>3, <2>1 DEF Active, Served, Named, Recovering
<1>8. \A q \in Runs : Active(q)'
  BY <1>1, <1>2, <1>7 DEF Active, Types, RunTypes
<1> QED
  BY <1>4, <1>5, <1>6, <1>8, PartsNext

\* A kill at any step.
LEMMA KillKept ==
  ASSUME PInv, NEW p \in Runs, Kill(p)
  PROVE  PInv'
<1>1. Running(p)
  BY RunningFacts DEF Kill
<1>2. /\ UNCHANGED <<dirs, older, source, guarded, sidecars, staging, current, before,
                     links, ledger, appending, rollbacks, stumbles, surprised, nextId>>
      /\ faults < MaxFaults /\ faults' = faults + 1
      /\ pc' = [pc EXCEPT ![p] = "idle"]
      /\ rootLock' = NoRun
      /\ copy' = [copy EXCEPT ![p] = 0]
      /\ target' = [target EXCEPT ![p] = None]
      /\ previous' = [previous EXCEPT ![p] = None]
      /\ doomed' = [doomed EXCEPT ![p] = {}]
  BY <1>1 DEF Kill, Running, Exit, Goto, tree, public, collector, runVars
<1>3. Types'
  <2>1. RunTypes'
    BY <1>1, <1>2, ExitTypes DEF Running, Types
  <2>2. faults' \in 0..MaxFaults
    BY <1>1, <1>2, ConstantsAssumption DEF Running, Types
  <2> QED
    BY <1>1, <1>2, <2>1, <2>2 DEF Running, Types
<1>4. Tree' /\ MarkedUnlessGuarded' /\ surprised' = FALSE /\ ServedComplete' /\ LinksStale'
      /\ Derived'
  BY <1>1, <1>2, TreeKept DEF Running, MarkedUnlessGuarded, ServedComplete, LinksStale, Derived
<1>5. Fresh'
  BY <1>1, <1>2 DEF Running, Fresh, Types, RunTypes, Named, Recovering
<1>6. \A q \in Runs : Active(q)'
  BY <1>1, <1>2 DEF Running, Active, Types, RunTypes
<1> QED
  BY <1>3, <1>4, <1>5, <1>6, PartsNext

(***************************************************************************)
(* The environment.                                                        *)
(***************************************************************************)

\* A collector appends to the ledger.
LEMMA AppendKept ==
  ASSUME PInv, BeginAppend \/ EndAppend
  PROVE  PInv'
<1>1. /\ UNCHANGED <<dirs, older, source, guarded, sidecars, staging, current, before,
                     links, rootLock, pc, copy, target, previous, doomed, faults,
                     rollbacks, stumbles, surprised, nextId>>
      /\ \/ ledger < MaxTicks /\ appending' = TRUE /\ ledger' = ledger
         \/ appending /\ appending' = FALSE /\ ledger' = ledger + 1
  BY DEF BeginAppend, EndAppend, tree, public, counters, runVars
<1>2. /\ Types /\ Tree /\ MarkedUnlessGuarded /\ surprised = FALSE /\ ServedComplete
      /\ Fresh /\ LinksStale /\ Derived /\ \A q \in Runs : Active(q)
  BY Parts
<1>3. /\ ledger \in 0..MaxTicks /\ ledger' \in 0..MaxTicks /\ ledger <= ledger'
      /\ appending' => ledger' < MaxTicks
  BY <1>1, <1>2, ConstantsAssumption DEF Types, Derived
<1>4. Types'
  <2>1. appending' \in BOOLEAN
    BY <1>1
  <2> QED
    BY <1>1, <1>2, <1>3, <2>1 DEF Types, RunTypes
<1>5. Tree' /\ MarkedUnlessGuarded' /\ surprised' = FALSE /\ ServedComplete' /\ Fresh'
      /\ LinksStale'
  BY <1>1, <1>2, TreeKept DEF MarkedUnlessGuarded, ServedComplete, Fresh, LinksStale
<1>6. Derived'
  <2>1. \A n \in Release : source[n] \in 0..MaxTicks
    BY <1>2 DEF Types
  <2> QED
    BY <1>1, <1>2, <1>3, <2>1, ConstantsAssumption DEF Derived
<1>7. \A q \in Runs : Active(q)'
  <2>1. TAKE q \in Runs
  <2>2. copy[q] \in 0..MaxTicks /\ (copy[q] <= ledger => copy[q] <= ledger')
    BY <1>2, <1>3, ConstantsAssumption DEF Types, RunTypes
  <2>3. OwnRelease(q) => OwnRelease(q)'
    BY <1>1 DEF OwnRelease
  <2> QED
    BY <1>1, <1>2, <2>2, <2>3 DEF Active, Present
<1> QED
  BY <1>4, <1>5, <1>6, <1>7, PartsNext

\* The operator's rollback.
LEMMA RollbackKept ==
  ASSUME PInv, Rollback
  PROVE  PInv'
<1>1. /\ UNCHANGED <<dirs, older, source, guarded, sidecars, staging, links, ledger,
                     appending, rootLock, pc, copy, target, previous, doomed, faults,
                     stumbles, surprised, nextId>>
      /\ rollbacks < MaxRollbacks /\ rollbacks' = rollbacks + 1
      /\ before' = current
      /\ current' \in guarded \ sidecars /\ dirs[current'] = "finished"
  BY DEF Rollback, tree, collector, runVars
<1>2. /\ \A q \in Runs : pc[q] = "idle"
      /\ Types /\ Tree /\ MarkedUnlessGuarded /\ surprised = FALSE /\ ServedComplete
      /\ Fresh /\ LinksStale /\ Derived
  BY Parts, ConstantsAssumption DEF Rollback, PInv, Active
<1>3. current' \in Release /\ current' # None /\ current' < nextId
  <2>1. current' \in Release /\ nextId \in 1..(MaxReleases + 1)
    BY <1>1, <1>2 DEF Types
  <2>2. ~(current' >= nextId)
    BY <1>1, <1>2, <2>1 DEF Fresh
  <2> QED
    BY <2>1, <2>2, ConstantsAssumption DEF Release
<1>4. Types'
  <2>1. rollbacks' \in 0..MaxRollbacks
    BY <1>1, <1>2, ConstantsAssumption DEF Types
  <2> QED
    BY <1>1, <1>2, <1>3, <2>1 DEF Types, RunTypes
<1>5. Tree' /\ MarkedUnlessGuarded' /\ surprised' = FALSE /\ ServedComplete' /\ Derived'
  BY <1>1, <1>2, TreeKept DEF MarkedUnlessGuarded, ServedComplete, Derived
<1>6. Fresh' /\ LinksStale'
  BY <1>1, <1>2, <1>3 DEF Fresh, LinksStale
<1>7. \A q \in Runs : Active(q)'
  BY <1>1, <1>2 DEF Active
<1> QED
  BY <1>4, <1>5, <1>6, <1>7, PartsNext

(***************************************************************************)
(* The theorems.                                                           *)
(***************************************************************************)

\* The empty root.
LEMMA Empty == Init => PInv
<1> SUFFICES ASSUME Init PROVE PInv
  OBVIOUS
<1>1. /\ 0 \in 0..MaxTicks /\ "idle" \in Steps /\ 1 \in 1..(MaxReleases + 1)
      /\ 0 \in 0..MaxFaults /\ 0 \in 0..MaxRollbacks /\ Present = {}
  BY ConstantsAssumption DEF Init, Steps, Present
<1>2. Types
  BY <1>1 DEF Init, Types, RunTypes
<1>3. Tree
  BY <1>1 DEF Init, Tree, Linear
<1>4. MarkedUnlessGuarded /\ surprised = FALSE /\ ServedComplete /\ LinksStale /\ Derived
  BY ConstantsAssumption DEF Init, MarkedUnlessGuarded, ServedComplete, LinksStale, Derived
<1>5. Fresh /\ \A p \in Runs : Active(p)
  BY DEF Init, Fresh, Active, Named, Recovering
<1> QED
  BY <1>2, <1>3, <1>4, <1>5, Parts

\* Every step.
LEMMA Inductive == PInv /\ [Next]_vars => PInv'
<1> SUFFICES ASSUME PInv, [Next]_vars PROVE PInv'
  OBVIOUS
<1>1. CASE UNCHANGED vars
  <2>1. UNCHANGED <<dirs, older, source, guarded, sidecars, staging, current, before, links,
                    ledger, appending, rootLock, pc, copy, target, previous, doomed,
                    faults, rollbacks, stumbles, surprised, nextId>>
    BY <1>1 DEF vars, tree, public, collector, counters, runVars
  <2>2. Types' /\ Tree'
    BY <2>1, Parts, TreeKept DEF Types, RunTypes
  <2>3. MarkedUnlessGuarded' /\ surprised' = FALSE /\ ServedComplete' /\ Fresh' /\ LinksStale'
        /\ Derived'
    BY <2>1, Parts DEF MarkedUnlessGuarded, ServedComplete, Fresh, LinksStale, Derived
  <2>4. ASSUME NEW p \in Runs PROVE Active(p)'
    <3>1. Active(p) /\ (OwnRelease(p) => OwnRelease(p)')
      BY <2>1, Parts DEF OwnRelease
    <3> QED
      BY <2>1, <3>1 DEF Active, Present
  <2> QED
    BY <2>2, <2>3, <2>4, PartsNext
<1>2. ASSUME NEW p \in Runs, Start(p) \/ Step(p) \/ Kill(p)
      PROVE  PInv'
  BY <1>2, StartKept, KillKept, RecoverSidecarKept, RecoverStagingKept, RecoveredKept,
     CopyKept, BuildKept, CreateSidecarKept, RenameKept, AddErrorsKept, GuardsKept,
     PreviousKept, LinkKept, FlipKept, PublishKept, PruneKept, DeleteKept, FinishKept,
     CleanupKept, DiscardKept
     DEF Step
<1> QED
  BY <1>1, <1>2, AppendKept, RollbackKept DEF Next

\* PInv holds in every state of every behaviour: the discipline of the
\* sidecars, the links and the root's lock in rebuild.sh and build_release.
THEOREM Publication == Spec => []PInv
BY Empty, Inductive, PTL DEF Spec

\* What a rebuild that was killed left is marked, and no rebuild is refused but
\* by a dangling link, of which OneFailurePerKill tells.
THEOREM Repairable == Spec => []RootSound
<1>1. PInv => RootSound
  BY DEF PInv
<1> QED
  BY <1>1, Publication, PTL

\* Counting what a step does to a set.
LEMMA Counting ==
  ASSUME NEW S, IsFiniteSet(S), NEW T, NEW s \in Nat, NEW f \in Nat,
         s + Cardinality(S) <= f
  PROVE  /\ T \subseteq S => s + Cardinality(T) <= f
         /\ \A x : T \subseteq S \cup {x} => s + Cardinality(T) <= f + 1
         /\ \A x \in S : T = S \ {x} => s + 1 + Cardinality(T) <= f
<1>1. Cardinality(S) \in Nat
  BY FS_CardinalityType
<1>2. ASSUME T \subseteq S PROVE s + Cardinality(T) <= f
  <2>1. Cardinality(T) \in Nat /\ Cardinality(T) <= Cardinality(S)
    BY <1>2, FS_Subset, FS_CardinalityType
  <2> QED
    BY <1>1, <2>1
<1>3. ASSUME NEW x, T \subseteq S \cup {x} PROVE s + Cardinality(T) <= f + 1
  <2>1. /\ IsFiniteSet(S \cup {x})
        /\ Cardinality(S \cup {x}) \in {Cardinality(S), Cardinality(S) + 1}
    BY <1>1, FS_AddElement
  <2>2. Cardinality(T) \in Nat /\ Cardinality(T) <= Cardinality(S \cup {x})
    BY <1>3, <2>1, FS_Subset, FS_CardinalityType
  <2> QED
    BY <1>1, <2>1, <2>2
<1>4. ASSUME NEW x \in S, T = S \ {x} PROVE s + 1 + Cardinality(T) <= f
  <2>1. Cardinality(T) = Cardinality(S) - 1
    BY <1>4, FS_RemoveElement
  <2> QED
    BY <1>1, <2>1
<1> QED
  BY <1>2, <1>3, <1>4

\* No step but a kill leaves a link behind, and who fails on one removes it.
LEMMA LeftoversStep ==
  ASSUME PInv, [Next]_vars
  PROVE  \/ Leftovers' \subseteq Leftovers /\ stumbles' = stumbles /\ faults' \in {faults, faults + 1}
         \/ \E p \in Runs : /\ Leftovers' \subseteq Leftovers \cup {p}
                            /\ stumbles' = stumbles /\ faults' = faults + 1
         \/ \E p \in Leftovers : /\ Leftovers' = Leftovers \ {p}
                                 /\ stumbles' = stumbles + 1 /\ faults' = faults
<1>1. pc \in [Runs -> Steps] /\ links \in [Runs -> Release \cup {None}]
  BY DEF PInv, RootSound, TypeOK
<1>2. CASE UNCHANGED <<links, pc, stumbles, faults>>
  BY <1>2 DEF Leftovers
<1>3. ASSUME NEW p \in Runs, Start(p) PROVE Leftovers' \subseteq Leftovers /\ UNCHANGED <<stumbles, faults>>
  BY <1>1, <1>3 DEF Start, Goto, public, counters, Leftovers
<1>4. ASSUME NEW p \in Runs, Kill(p)
      PROVE  Leftovers' \subseteq Leftovers \cup {p} /\ stumbles' = stumbles /\ faults' = faults + 1
  BY <1>1, <1>4 DEF Kill, Exit, Goto, public, Leftovers
<1>5. ASSUME NEW p \in Runs, Link(p)
      PROVE  \/ Leftovers' \subseteq Leftovers /\ UNCHANGED <<stumbles, faults>>
             \/ /\ p \in Leftovers /\ Leftovers' = Leftovers \ {p}
                /\ stumbles' = stumbles + 1 /\ faults' = faults
  BY <1>1, <1>5 DEF Link, Continue, Goto, Dangling, Leftovers
<1>6. ASSUME NEW p \in Runs, Flip(p) \/ Cleanup(p)
      PROVE  Leftovers' \subseteq Leftovers /\ UNCHANGED <<stumbles, faults>>
  BY <1>1, <1>6 DEF Flip, Cleanup, Continue, Exit, Goto, public, counters, Leftovers
<1>7. ASSUME NEW p \in Runs, Step(p), ~Link(p), ~Flip(p), ~Cleanup(p)
      PROVE  Leftovers' \subseteq Leftovers /\ UNCHANGED <<stumbles, faults>>
  <2>1. UNCHANGED <<links, stumbles, faults>> /\ pc[p] \notin {"flip", "cleanup"}
    BY <1>7 DEF Step, RecoverSidecar, RecoverStaging, Recovered, Copy, Build, CreateSidecar,
       Rename, AddErrors, Guards, Previous, Publish, Prune, Delete, Finish, Discard,
       public, counters
  <2>2. \A q \in Runs : q # p => pc'[q] = pc[q]
    BY <1>1, <1>7 DEF Step, RecoverSidecar, RecoverStaging, Recovered, Copy, Build,
       CreateSidecar, Rename, AddErrors, Guards, Previous, Publish, Prune, Delete, Finish,
       Discard, Continue, Exit, Goto
  <2> QED
    BY <1>1, <2>1, <2>2 DEF Leftovers
<1>8. (BeginAppend \/ EndAppend \/ Rollback \/ UNCHANGED vars) =>
        UNCHANGED <<links, pc, stumbles, faults>>
  BY DEF BeginAppend, EndAppend, Rollback, vars, public, counters
<1> QED
  BY <1>2, <1>3, <1>4, <1>5, <1>6, <1>7, <1>8 DEF Next

\* A kill makes at most one later rebuild fail on the link that it left.
THEOREM OneFailurePerKill == Spec => []OneRunPerKill
<1>1. Init => OneRunPerKill
  <2> SUFFICES ASSUME Init PROVE OneRunPerKill
    OBVIOUS
  <2>1. Leftovers = {} /\ stumbles = 0 /\ faults = 0
    BY DEF Init, Leftovers
  <2> QED
    BY <2>1, FS_EmptySet DEF OneRunPerKill
<1>2. PInv /\ OneRunPerKill /\ [Next]_vars => OneRunPerKill'
  <2> SUFFICES ASSUME PInv, OneRunPerKill, [Next]_vars PROVE OneRunPerKill'
    OBVIOUS
  <2>1. stumbles \in Nat /\ faults \in Nat
    BY ConstantsAssumption DEF PInv, RootSound, TypeOK
  <2>2. IsFiniteSet(Leftovers)
    BY ConstantsAssumption, FS_Subset DEF Leftovers
  <2>3. stumbles + Cardinality(Leftovers) <= faults
    BY DEF OneRunPerKill
  <2>4. PICK T : T = Leftovers'
    OBVIOUS
  <2>5. /\ T \subseteq Leftovers => stumbles + Cardinality(T) <= faults
        /\ \A x : T \subseteq Leftovers \cup {x} => stumbles + Cardinality(T) <= faults + 1
        /\ \A x \in Leftovers : T = Leftovers \ {x} => stumbles + 1 + Cardinality(T) <= faults
    BY <2>1, <2>2, <2>3, Counting
  <2>6. Cardinality(T) \in Nat
    <3>1. Leftovers' \subseteq Runs
      BY DEF Leftovers
    <3> QED
      BY <2>4, <3>1, ConstantsAssumption, FS_Subset, FS_CardinalityType
  <2>7. stumbles' + Cardinality(T) <= faults'
    BY <2>1, <2>4, <2>5, <2>6, LeftoversStep
  <2> QED
    BY <2>4, <2>7 DEF OneRunPerKill
<1> QED
  BY <1>1, <1>2, Publication, PTL DEF Spec

\* The release that is served is whole and passed every guard.
THEOREM ServedIsGuarded == Spec => []ServedComplete
<1>1. PInv => ServedComplete
  BY DEF PInv
<1> QED
  BY <1>1, Publication, PTL

\* A rebuild changes `current' in Flip only.
LEMMA OnlyFlipServes ==
  ASSUME PInv, [Next]_vars, current' # current, rollbacks' = rollbacks
  PROVE  \E p \in Runs : pc[p] = "flip" /\ current' = links[p] /\ UNCHANGED source
<1>1. rollbacks \in Nat
  BY ConstantsAssumption DEF PInv, RootSound, TypeOK
<1>2. ~Rollback
  BY <1>1 DEF Rollback
<1>3. PICK p \in Runs : Flip(p)
  BY <1>2 DEF Next, Start, Step, Kill, BeginAppend, EndAppend, vars, public,
     RecoverSidecar, RecoverStaging, Recovered, Copy, Build, CreateSidecar, Rename,
     AddErrors, Guards, Previous, Link, Publish, Prune, Delete, Finish, Cleanup, Discard
<1> QED
  BY <1>3 DEF Flip, public, tree

\* What is served goes back in time by a rollback only: a rebuild's release
\* derives from a copy that is no older than any release.
THEOREM ServedForward == Spec => NeverOlder
<1>1. ASSUME PInv, [Next]_vars, current' # current, current # None, rollbacks' = rollbacks
      PROVE  source[current'] >= source[current]
  <2>1. PICK p \in Runs : pc[p] = "flip" /\ current' = links[p] /\ UNCHANGED source
    BY <1>1, OnlyFlipServes
  <2>2. Running(p) /\ current \in Release
    BY <1>1, <2>1, RunningFacts DEF PInv, RootSound, TypeOK
  <2>3. current' = target[p] /\ source[target[p]] = copy[p] /\ source[current] <= copy[p]
    BY <2>1, <2>2 DEF Running, Active, Named, Recovering, Steps
  <2>4. source[current] \in Nat /\ copy[p] \in Nat
    BY <2>1, <2>2, ConstantsAssumption DEF Running, Types, RunTypes
  <2> QED
    BY <2>3, <2>4
<1>2. PInv /\ [Next]_vars =>
        [current' # current /\ current # None /\ rollbacks' = rollbacks =>
           source[current'] >= source[current]]_vars
  BY <1>1
<1> QED
  BY <1>2, Publication, PTL DEF Spec, NeverOlder

\* Which directories a step may change.
LEMMA DirectoriesTouched ==
  ASSUME PInv, [Next]_vars, NEW n \in {current, before} \ ({None} \cup sidecars)
  PROVE  dirs'[n] = dirs[n]
<1>1. n \in Release /\ n \notin sidecars
  BY DEF PInv, RootSound, TypeOK
<1>2. CASE UNCHANGED dirs
  BY <1>2
<1>3. ASSUME NEW p \in Runs, RecoverSidecar(p) PROVE dirs'[n] = dirs[n]
  <2>1. PICK m \in sidecars : (Leftover(m) /\ RemoveTree(m)) \/ UNCHANGED dirs
    BY <1>3 DEF RecoverSidecar
  <2>2. m \in Release /\ m # n /\ Tree
    BY <1>1, TypeParts DEF PInv, RootSound, Types
  <2>3. Leftover(m) => m \in Present
    BY <2>2 DEF Leftover, Present
  <2> QED
    BY <1>1, <2>1, <2>2, <2>3, Removal
<1>4. ASSUME NEW p \in Runs, Rename(p) \/ AddErrors(p) \/ Discard(p) PROVE dirs'[n] = dirs[n]
  <2>1. Running(p) /\ pc[p] \in Marked /\ target[p] \in Release
    BY <1>4, RunningFacts DEF Rename, AddErrors, Discard, Running, Named, Recovering, Steps, Marked
  <2>2. target[p] \in sidecars /\ target[p] # n /\ Tree
    BY <1>1, <2>1 DEF Running, Active, OwnRelease
  <2>3. \/ UNCHANGED dirs
        \/ dirs' = [dirs EXCEPT ![target[p]] = "built"]
        \/ dirs' = [dirs EXCEPT ![target[p]] = "finished"]
        \/ target[p] \in Present /\ RemoveTree(target[p])
    BY <1>4, <2>1 DEF Rename, AddErrors, Discard, Present
  <2> QED
    BY <1>1, <2>2, <2>3, Removal DEF Tree
<1>5. ASSUME NEW p \in Runs, Delete(p) PROVE dirs'[n] = dirs[n]
  <2>1. Running(p) /\ pc[p] = "delete"
    BY <1>5, RunningFacts DEF Delete
  <2>2. PICK m \in doomed[p] : RemoveTree(m)
    BY <1>5 DEF Delete
  <2>3. m \in Present /\ m # n /\ Tree
    BY <2>1, <2>2 DEF Running, Active, OwnRelease, Served
  <2> QED
    BY <1>1, <2>2, <2>3, Removal
<1>6. ASSUME NEW p \in Runs, Start(p) \/ Step(p) \/ Kill(p) PROVE dirs'[n] = dirs[n]
  <2>1. \/ UNCHANGED dirs
        \/ RecoverSidecar(p) \/ Rename(p) \/ AddErrors(p) \/ Discard(p) \/ Delete(p)
    BY <1>6 DEF Start, Step, Kill, tree, RecoverStaging, Recovered, Copy, Build, CreateSidecar,
       Guards, Previous, Link, Flip, Publish, Prune, Finish, Cleanup
  <2> QED
    BY <1>2, <1>3, <1>4, <1>5, <2>1
<1>7. (BeginAppend \/ EndAppend \/ Rollback \/ UNCHANGED vars) => UNCHANGED dirs
  BY DEF BeginAppend, EndAppend, Rollback, vars, tree
<1> QED
  BY <1>2, <1>6, <1>7 DEF Next

\* No rebuild changes the release that is served or, once it is published, its
\* immediate predecessor.
THEOREM RollbackPossible == Spec => PredecessorKept
<1>1. PInv /\ [Next]_vars =>
        [\A n \in {current, before} \ ({None} \cup sidecars) : dirs'[n] = dirs[n]]_vars
  BY DirectoriesTouched
<1> QED
  BY <1>1, Publication, PTL DEF Spec, PredecessorKept
=============================================================================
