------------------------- MODULE ReleasePublication -------------------------
(***************************************************************************)
(* rebuild.sh and build_release of build_site.py: how a static release is  *)
(* staged, marked unpublished, guarded, made `current' by one rename of a  *)
(* symbolic link, and how leftovers and old releases are removed.          *)
(*                                                                         *)
(* Every change of the publication root is an action of its own, and a     *)
(* rebuild may fail (its cleanup trap runs) or be killed (nothing runs)    *)
(* between any two.  A recursive removal has a state in between, in which  *)
(* part of the release is gone.                                            *)
(*                                                                         *)
(* Abstractions: a release is named by a number, since its identifier      *)
(* starts with its publication time; what it shows is the length of the    *)
(* ledger it was derived from; the modification times of directories are   *)
(* the relation `older'; the staging directory of a release has its        *)
(* number.                                                                 *)
(* Nothing here is fsynced, so a power loss is a kill of every process and *)
(* what it does to the contents of files is not modelled.                  *)
(***************************************************************************)
EXTENDS Naturals, FiniteSets

LOCAL INSTANCE FiniteSetsExt

CONSTANTS
  Runs,          \* rebuilds, by process id (which is reused)
  NoRun, None,
  Size,          \* bytes of each release
  MaxCount,      \* max_release_count
  MaxBytes,      \* max_release_bytes
  MaxReleases,   \* bound: releases built
  MaxTicks,      \* bound: length of the ledger
  MaxFaults,     \* bound: kills
  MaxRollbacks   \* bound: rollbacks by the operator

Release == 1..MaxReleases

ASSUME ConstantsAssumption ==
  /\ NoRun \notin Runs /\ IsFiniteSet(Runs)
  /\ None \notin Nat
  /\ MaxReleases \in Nat /\ MaxTicks \in Nat /\ MaxFaults \in Nat
  /\ MaxRollbacks \in Nat
  /\ Size \in [Release -> Nat \ {0}]
  /\ MaxCount \in Nat \ {0} /\ MaxBytes \in Nat \ {0}

VARIABLES
  dirs,       \* releases/<id>: absent, built, finished (with its error
              \* pages), damaged (partly removed)
  older,      \* pairs of release directories, the first modified earlier
  source,     \* length of the ledger each release was derived from
  guarded,    \* history: releases that passed guards.py
  sidecars,   \* .unpublished-<id>
  staging,    \* .building-*
  current,    \* target of the `current' link
  before,     \* history: its target before the latest change
  links,      \* .current.<pid>
  ledger,     \* length of the tick ledger
  appending,  \* a collector holds the ledger's lock
  rootLock,   \* flock on the publication root
  pc,         \* next step of each rebuild
  copy,       \* its copy of the ledger
  target,     \* release_path
  previous,   \* previous_release
  doomed,     \* releases that its retention still removes
  surprised,  \* history: some rebuild met a state that it refuses
  stumbles,   \* history: rebuilds that `ln' failed on the link of a killed one
  nextId, faults, rollbacks

tree == <<dirs, older, source, guarded, sidecars, staging>>
public == <<current, before, links>>
collector == <<ledger, appending>>
runVars == <<copy, target, previous, doomed>>
counters == <<faults, rollbacks, stumbles>>
vars == <<tree, public, collector, runVars, counters, rootLock, pc, surprised, nextId>>

Steps == {"idle", "recover", "copy", "build", "sidecar", "rename", "errors",
          "guards", "previous", "link", "flip", "publish", "prune", "delete",
          "cleanup", "discard"}

Present == {n \in Release : dirs[n] # "absent"}

TypeOK ==
  /\ dirs \in [Release -> {"absent", "built", "finished", "damaged"}]
  /\ older \subseteq Present \X Present
  /\ \A m, n \in Present : <<m, n>> \in older <=> m # n /\ <<n, m>> \notin older
  /\ \A l, m, n \in Present : <<l, m>> \in older /\ <<m, n>> \in older => <<l, n>> \in older
  /\ source \in [Release -> 0..MaxTicks]
  /\ guarded \subseteq Release /\ sidecars \subseteq Release /\ staging \subseteq Release
  /\ current \in Release \cup {None} /\ before \in Release \cup {None}
  /\ links \in [Runs -> Release \cup {None}]
  /\ ledger \in 0..MaxTicks /\ appending \in BOOLEAN
  /\ rootLock \in Runs \cup {NoRun}
  /\ pc \in [Runs -> Steps]
  /\ copy \in [Runs -> 0..MaxTicks]
  /\ target \in [Runs -> Release \cup {None}]
  /\ previous \in [Runs -> Release \cup {None}]
  /\ doomed \in [Runs -> SUBSET Release]
  /\ surprised \in BOOLEAN /\ stumbles \in Nat
  /\ nextId \in 1..(MaxReleases + 1)
  /\ faults \in 0..MaxFaults /\ rollbacks \in 0..MaxRollbacks

Init ==
  /\ dirs = [n \in Release |-> "absent"]
  /\ older = {}
  /\ source = [n \in Release |-> 0]
  /\ guarded = {} /\ sidecars = {} /\ staging = {}
  /\ current = None /\ before = None
  /\ links = [p \in Runs |-> None]
  /\ ledger = 0 /\ appending = FALSE
  /\ rootLock = NoRun
  /\ pc = [p \in Runs |-> "idle"]
  /\ copy = [p \in Runs |-> 0]
  /\ target = [p \in Runs |-> None]
  /\ previous = [p \in Runs |-> None]
  /\ doomed = [p \in Runs |-> {}]
  /\ surprised = FALSE /\ stumbles = 0
  /\ nextId = 1
  /\ faults = 0 /\ rollbacks = 0

-----------------------------------------------------------------------------
Goto(p, step) == pc' = [pc EXCEPT ![p] = step]

\* The shell exits: its descriptors close.
Exit(p) ==
  /\ Goto(p, "idle")
  /\ rootLock' = IF rootLock = p THEN NoRun ELSE rootLock
  /\ copy' = [copy EXCEPT ![p] = 0]
  /\ target' = [target EXCEPT ![p] = None]
  /\ previous' = [previous EXCEPT ![p] = None]
  /\ doomed' = [doomed EXCEPT ![p] = {}]

Continue(p, step) == Goto(p, step) /\ UNCHANGED <<rootLock, runVars>>

\* The modification time of a release directory changes.
Without(n) == {t \in older : t[1] # n /\ t[2] # n}
Touched(n) == Without(n) \cup ((Present \ {n}) \X {n})

\* shutil.rmtree: entries go one by one; the time of the directory itself
\* changes with the first entry directly below it.
BeginRemoval(n) ==
  /\ dirs' = [dirs EXCEPT ![n] = "damaged"]
  /\ older' \in {older, Touched(n)}
EndRemoval(n) ==
  /\ dirs' = [dirs EXCEPT ![n] = "absent"]
  /\ older' = Without(n)
RemoveTree(n) == IF dirs[n] = "damaged" THEN EndRemoval(n) ELSE BeginRemoval(n)

\* `current' is a link that leads nowhere.
Lost == current # None /\ dirs[current] = "absent"

\* Fault: two rebuilds may run at once.
StartUnlocked(p) ==
  /\ pc[p] = "idle"
  /\ IF Lost THEN UNCHANGED <<rootLock, pc>> ELSE rootLock' = p /\ Goto(p, "recover")
  /\ surprised' = (surprised \/ Lost)
  /\ UNCHANGED <<tree, public, collector, runVars, counters, nextId>>

\* flock -n on the publication root; a second rebuild exits at once.  The
\* recovery refuses a `current' that cannot be resolved before it changes
\* anything, and the rebuild exits.
Start(p) ==
  /\ pc[p] = "idle"
  /\ rootLock = NoRun
  /\ IF Lost THEN UNCHANGED <<rootLock, pc>> ELSE rootLock' = p /\ Goto(p, "recover")
  /\ surprised' = (surprised \/ Lost)
  /\ UNCHANGED <<tree, public, collector, runVars, counters, nextId>>

(* release_maintenance recover                                             *)

\* Faults: the active release is removed too; no release is removed.
LeftoverEvenActive(n) == dirs[n] # "absent"
LeftoverNever(n) == FALSE

\* An unpublished release that is not served.
Leftover(n) == dirs[n] # "absent" /\ n # current

RecoverSidecar(p) ==
  /\ pc[p] = "recover"
  /\ \E n \in sidecars :
       \/ /\ Leftover(n)
          /\ RemoveTree(n)
          /\ UNCHANGED sidecars
       \/ /\ ~Leftover(n)
          /\ sidecars' = sidecars \ {n}
          /\ UNCHANGED <<dirs, older>>
  /\ UNCHANGED <<source, guarded, staging, public, collector, runVars, counters,
                 rootLock, pc, surprised, nextId>>

RecoverStaging(p) ==
  /\ pc[p] = "recover"
  /\ sidecars = {}
  /\ staging # {}
  /\ \E n \in staging : staging' = staging \ {n}
  /\ UNCHANGED <<dirs, older, source, guarded, sidecars, public, collector, runVars,
                 counters, rootLock, pc, surprised, nextId>>

Recovered(p) ==
  /\ pc[p] = "recover"
  /\ sidecars = {} /\ staging = {}
  /\ Continue(p, "copy")
  /\ UNCHANGED <<tree, public, collector, counters, surprised, nextId>>

\* Waiting for the collector's lock, then one copy for build and guards.
Copy(p) ==
  /\ pc[p] = "copy"
  /\ ~appending
  /\ copy' = [copy EXCEPT ![p] = ledger]
  /\ Goto(p, "build")
  /\ UNCHANGED <<tree, public, collector, target, previous, doomed, counters, rootLock,
                 surprised, nextId>>

(* build_release                                                           *)

\* The identifier is the publication time with a digest, so it is new.
Build(p) ==
  /\ pc[p] = "build"
  /\ \/ /\ nextId \in Release
        /\ staging' = staging \cup {nextId}
        /\ source' = [source EXCEPT ![nextId] = copy[p]]
        /\ target' = [target EXCEPT ![p] = nextId]
        /\ nextId' = nextId + 1
        /\ Goto(p, "sidecar")
        /\ UNCHANGED <<rootLock, copy, previous, doomed>>
     \/ /\ Exit(p)
        /\ UNCHANGED <<staging, source, nextId>>
  /\ UNCHANGED <<dirs, older, guarded, sidecars, public, collector, counters, surprised>>

CreateSidecar(p) ==
  /\ pc[p] = "sidecar"
  /\ \/ /\ sidecars' = sidecars \cup {target[p]}
        /\ Continue(p, "rename")
        /\ UNCHANGED staging
     \/ /\ Exit(p)
        /\ staging' = staging \ {target[p]}
        /\ UNCHANGED sidecars
  /\ UNCHANGED <<dirs, older, source, guarded, public, collector, counters, surprised, nextId>>

Rename(p) ==
  /\ pc[p] = "rename"
  /\ staging' = staging \ {target[p]}
  /\ \/ /\ dirs' = [dirs EXCEPT ![target[p]] = "built"]
        /\ older' = Touched(target[p])
        /\ Continue(p, "errors")
        /\ UNCHANGED sidecars
     \/ /\ Exit(p)
        /\ sidecars' = sidecars \ {target[p]}
        /\ UNCHANGED <<dirs, older>>
  /\ UNCHANGED <<source, guarded, public, collector, counters, surprised, nextId>>

(* From here on the cleanup trap is armed: a failing step runs it.         *)

AddErrors(p) ==
  /\ pc[p] = "errors"
  /\ \/ /\ dirs' = [dirs EXCEPT ![target[p]] = "finished"]
        /\ older' = Touched(target[p])
        /\ Continue(p, "guards")
     \/ /\ Continue(p, "cleanup")
        /\ UNCHANGED <<dirs, older>>
  /\ UNCHANGED <<source, guarded, sidecars, staging, public, collector, counters,
                 surprised, nextId>>

Guards(p) ==
  /\ pc[p] = "guards"
  /\ \/ /\ guarded' = guarded \cup {target[p]}
        /\ Continue(p, "previous")
     \/ /\ Continue(p, "cleanup")
        /\ UNCHANGED guarded
  /\ UNCHANGED <<dirs, older, source, sidecars, staging, public, collector, counters,
                 surprised, nextId>>

Previous(p) ==
  /\ pc[p] = "previous"
  /\ surprised' = (surprised \/ Lost)
  /\ previous' = [previous EXCEPT ![p] = current]
  /\ Goto(p, IF Lost THEN "cleanup" ELSE "link")
  /\ UNCHANGED <<tree, public, collector, counters, rootLock, copy, target, doomed, nextId>>

\* The link that a killed rebuild with this process id left leads nowhere.
Dangling(p) == links[p] # None /\ dirs[links[p]] = "absent"

\* ln -s.  Over a dangling link of an earlier rebuild with this process id ln
\* fails and the cleanup runs; over one that leads to a release ln creates its
\* link inside that release and the old one stays.
Link(p) ==
  /\ pc[p] = "link"
  /\ \/ /\ ~Dangling(p)
        /\ links' = [links EXCEPT ![p] = IF @ = None THEN target[p] ELSE @]
        /\ Continue(p, "flip")
        /\ UNCHANGED stumbles
     \/ /\ Continue(p, "cleanup")
        /\ stumbles' = IF Dangling(p) THEN stumbles + 1 ELSE stumbles
        /\ UNCHANGED links
  /\ UNCHANGED <<tree, current, before, collector, faults, rollbacks, surprised, nextId>>

\* mv -Tf: `current' changes in one rename.
Flip(p) ==
  /\ pc[p] = "flip"
  /\ \/ /\ current' = links[p]
        /\ before' = current
        /\ links' = [links EXCEPT ![p] = None]
        /\ Continue(p, "publish")
     \/ /\ Continue(p, "cleanup")
        /\ UNCHANGED public
  /\ UNCHANGED <<tree, collector, counters, surprised, nextId>>

Publish(p) ==
  /\ pc[p] = "publish"
  /\ \/ /\ current = target[p]
        /\ sidecars' = sidecars \ {target[p]}
        /\ Continue(p, "prune")
        /\ UNCHANGED surprised
     \/ /\ Continue(p, "cleanup")
        /\ surprised' = (surprised \/ current # target[p])
        /\ UNCHANGED sidecars
  /\ UNCHANGED <<dirs, older, source, guarded, staging, public, collector, counters, nextId>>

(* release_maintenance prune                                               *)

\* Fault: only the active release is protected.
ProtectedActive(p) == {target[p]}

Protected(p) == {target[p], previous[p]} \ {None}

\* apparent_size: a partly removed release counts what is left of it.
Bytes(n) == IF dirs[n] = "damaged" THEN 1 ELSE Size[n]

Fits(S) == Cardinality(S) <= MaxCount /\ MapThenSumSet(Bytes, S) <= MaxBytes

Newer(n) == {m \in Present : <<n, m>> \in older}

\* Newest first, releases are kept while all that is kept fits; from the
\* first that does not fit on, everything goes.
Discarded(p) ==
  {n \in Present \ Protected(p) : ~Fits(Protected(p) \cup Newer(n) \cup {n})}

Prune(p) ==
  /\ pc[p] = "prune"
  /\ staging' = {}
  /\ doomed' = [doomed EXCEPT ![p] = Discarded(p)]
  /\ Goto(p, "delete")
  /\ UNCHANGED <<dirs, older, source, guarded, sidecars, public, collector, copy, target,
                 previous, counters, rootLock, surprised, nextId>>

Delete(p) ==
  /\ pc[p] = "delete"
  /\ \E n \in doomed[p] :
       /\ doomed[p] \cap Newer(n) = {}
       /\ RemoveTree(n)
       /\ doomed' = IF dirs[n] = "damaged" THEN [doomed EXCEPT ![p] = @ \ {n}] ELSE doomed
  /\ UNCHANGED <<source, guarded, sidecars, staging, public, collector, copy, target,
                 previous, counters, rootLock, pc, surprised, nextId>>

\* All removed, or a removal failed: the release is published all the same.
Finish(p) ==
  /\ pc[p] = "delete"
  /\ Exit(p)
  /\ UNCHANGED <<tree, public, collector, counters, surprised, nextId>>

(* The cleanup trap of an unpublished run.                                 *)

\* Fault: the link is not removed.
CleanupLeavingLink(p) ==
  /\ pc[p] = "cleanup"
  /\ \/ /\ current = target[p]
        /\ Exit(p)
        /\ UNCHANGED surprised
     \/ /\ current # target[p]
        /\ surprised' = (surprised \/ target[p] \notin sidecars)
        /\ IF target[p] \in sidecars THEN Continue(p, "discard") ELSE Exit(p)
  /\ UNCHANGED <<tree, public, collector, counters, nextId>>

Cleanup(p) ==
  /\ pc[p] = "cleanup"
  /\ links' = [links EXCEPT ![p] = None]
  /\ \/ /\ current = target[p]
        /\ Exit(p)
        /\ UNCHANGED surprised
     \/ /\ current # target[p]
        /\ surprised' = (surprised \/ target[p] \notin sidecars)
        /\ IF target[p] \in sidecars THEN Continue(p, "discard") ELSE Exit(p)
  /\ UNCHANGED <<tree, current, before, collector, counters, nextId>>

\* discard-unpublished: the release, then its sidecar.
Discard(p) ==
  /\ pc[p] = "discard"
  /\ \/ /\ dirs[target[p]] # "absent"
        /\ RemoveTree(target[p])
        /\ UNCHANGED <<sidecars, pc, rootLock, runVars>>
     \/ /\ dirs[target[p]] = "absent"
        /\ sidecars' = sidecars \ {target[p]}
        /\ Exit(p)
        /\ UNCHANGED <<dirs, older>>
  /\ UNCHANGED <<source, guarded, staging, public, collector, counters, surprised, nextId>>

-----------------------------------------------------------------------------
(* The environment.                                                        *)

\* SIGKILL, TimeoutStartSec, or an untrapped signal before the trap is set.
Kill(p) ==
  /\ pc[p] # "idle"
  /\ faults < MaxFaults
  /\ faults' = faults + 1
  /\ Exit(p)
  /\ UNCHANGED <<tree, public, collector, rollbacks, stumbles, surprised, nextId>>

\* _append_jsonl of a collector.
BeginAppend ==
  /\ ~appending /\ ledger < MaxTicks
  /\ appending' = TRUE
  /\ UNCHANGED <<tree, public, ledger, runVars, counters, rootLock, pc, surprised, nextId>>
EndAppend ==
  /\ appending
  /\ appending' = FALSE
  /\ ledger' = ledger + 1
  /\ UNCHANGED <<tree, public, runVars, counters, rootLock, pc, surprised, nextId>>

\* The runbook's rollback to a verified release, under the root's lock.
Rollback ==
  /\ rootLock = NoRun
  /\ rollbacks < MaxRollbacks
  /\ rollbacks' = rollbacks + 1
  /\ \E n \in guarded \ (sidecars \cup {current}) :
       dirs[n] = "finished" /\ current' = n
  /\ before' = current
  /\ UNCHANGED <<tree, links, collector, runVars, faults, stumbles, rootLock, pc, surprised,
                 nextId>>

Step(p) ==
  \/ RecoverSidecar(p) \/ RecoverStaging(p) \/ Recovered(p) \/ Copy(p) \/ Build(p)
  \/ CreateSidecar(p) \/ Rename(p) \/ AddErrors(p) \/ Guards(p) \/ Previous(p)
  \/ Link(p) \/ Flip(p) \/ Publish(p) \/ Prune(p) \/ Delete(p) \/ Finish(p)
  \/ Cleanup(p) \/ Discard(p)

Next ==
  \/ \E p \in Runs : Start(p) \/ Step(p) \/ Kill(p)
  \/ BeginAppend \/ EndAppend \/ Rollback

Spec == Init /\ [][Next]_vars

-----------------------------------------------------------------------------
(* What a reader of the site and the operator may rely on.                 *)

\* The release that is served is whole and passed every guard (README.md
\* 45-46, DEPLOY.md 49-51).
ServedComplete ==
  current # None => dirs[current] = "finished" /\ current \in guarded

\* No rebuild removes the release that is served or, once it is published,
\* its immediate predecessor (README.md 46-47).
PredecessorKept ==
  [][\A n \in {current, before} \ ({None} \cup sidecars) : dirs'[n] = dirs[n]]_vars

\* A release that has not passed its guards is marked from before it exists
\* until it is gone (DEPLOY.md 521-524), and whatever kills and failures left,
\* every rebuild finds that `current' leads to a release, that the link which
\* it flips leads to its own release (even if its process id was used before)
\* and that its cleanup finds its sidecar.  The leftover that does make a later
\* rebuild fail, a dangling link of its process id, is that of OneRunPerKill.
RootSound ==
  /\ TypeOK
  /\ \A n \in Release : dirs[n] # "absent" /\ n \notin guarded => n \in sidecars
  /\ ~surprised

\* What is served never goes back in time but by the operator's hand.
NeverOlder ==
  [][current' # current /\ current # None /\ rollbacks' = rollbacks =>
       source[current'] >= source[current]]_vars

\* The links that `ln' of a later rebuild may meet.
Leftovers == {p \in Runs : links[p] # None /\ pc[p] \notin {"flip", "cleanup"}}

\* A kill makes at most one later rebuild fail: links are left by kills only,
\* and the rebuild that fails on one takes it away (rebuild.sh 293, 337).
OneRunPerKill == stumbles + Cardinality(Leftovers) <= faults

-----------------------------------------------------------------------------
(* The inductive invariant.                                                *)

\* Steps of a rebuild after its recovery, and of one that has named, marked,
\* finished, guarded and served its release.
Recovering == {"idle", "recover"}
Named == Steps \ (Recovering \cup {"copy", "build"})
Marked == {"rename", "errors", "guards", "previous", "link", "flip", "discard"}
Served == {"publish", "prune", "delete"}
Approved == {"previous", "link", "flip"} \cup Served

\* A number is given to one release only.
Fresh ==
  /\ \A n \in Release : n >= nextId =>
       dirs[n] = "absent" /\ n \notin guarded \cup sidecars /\ source[n] = 0
  /\ current # None => current < nextId
  /\ before # None => before < nextId
  /\ \A p \in Runs : /\ links[p] # None => links[p] < nextId
                     /\ target[p] # None => target[p] < nextId
                     /\ target[p] # None <=> pc[p] \in Named

\* The release of a rebuild, as it was left by the step before.
OwnRelease(p) ==
  /\ pc[p] \in Marked => target[p] \in sidecars /\ current # target[p]
  /\ pc[p] \in Approved => target[p] \in guarded /\ dirs[target[p]] = "finished"
  /\ pc[p] \in Served => current = target[p]
  /\ pc[p] = "sidecar" => target[p] \notin sidecars
  /\ pc[p] \in {"sidecar", "rename"} =>
       dirs[target[p]] = "absent" /\ target[p] # current /\ target[p] # before
  /\ pc[p] = "guards" => dirs[target[p]] = "finished"
  /\ pc[p] = "publish" => target[p] \in sidecars
  /\ pc[p] = "cleanup" => target[p] \in sidecars \/ current = target[p]

\* Links lead to the release that is about to be served, or to one that the
\* next recovery removes or has removed.
LinksStale ==
  \A p \in Runs : links[p] # None =>
    \/ links[p] \in sidecars /\ links[p] # current
    \/ dirs[links[p]] = "absent"

\* One rebuild runs at a time; nothing is marked but its own release once it
\* has recovered, and no other link leads there.
Active(p) ==
  pc[p] # "idle" =>
    /\ rootLock = p
    /\ OwnRelease(p)
    /\ pc[p] # "recover" => sidecars \subseteq {target[p]}
    /\ \A q \in Runs : target[p] # None /\ links[q] = target[p] =>
         q = p /\ pc[p] \in {"flip", "cleanup"}
    /\ pc[p] = "flip" => links[p] = target[p]
    /\ pc[p] \in {"link", "flip"} => previous[p] = current
    /\ pc[p] \in Served => previous[p] = before
    /\ pc[p] = "delete" => doomed[p] \subseteq Present \ {target[p], previous[p]}
    /\ pc[p] \notin Recovering \cup {"copy"} =>
         /\ copy[p] <= ledger
         /\ \A n \in Release : source[n] <= copy[p]
    /\ pc[p] \in Named => source[target[p]] = copy[p]

\* Every release derives from the ledger of its time, which the bound lets
\* grow by the line that is being appended.
Derived ==
  /\ \A n \in Release : source[n] <= ledger
  /\ appending => ledger < MaxTicks

PInv ==
  /\ RootSound
  /\ ServedComplete
  /\ Fresh
  /\ LinksStale
  /\ Derived
  /\ \A p \in Runs : Active(p)
=============================================================================
