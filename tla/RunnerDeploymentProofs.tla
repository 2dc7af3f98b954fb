----------------------- MODULE RunnerDeploymentProofs ------------------------
(*****************************************************************************)
(* Theorems about RunnerDeployment, for every installation in Modes:         *)
(* RunnerDeployments and RunnerSets, static and ephemeral runners, any       *)
(* number of owners, replicas, revisions, jobs, late registrations and       *)
(* owners that the cached list shows late.                                   *)
(* Every step is described by what it does to each owner (Moves) and to      *)
(* the sets (SetsMoves), and the invariants look at that only.               *)
(*****************************************************************************)
EXTENDS RunnerDeployment, FiniteSetTheorems, SequenceTheorems, TLAPS

(* The RunnerReplicaSets are in order of their revisions, the last of them  *)
(* is the newest and is not deleted, and a RunnerSet has one; an owner      *)
(* belongs to one of them.                                                  *)
SetsInv ==
    /\ mode.direct => Len(sets) = 1
    /\ Len(sets) > 0 => sets[Len(sets)].st = "live"
    /\ \A s \in DOMAIN sets : sets[s].tpl <= spec.tpl /\ s <= sets[s].tpl
    /\ \A n \in Owners : owner[n].st # "none" => owner[n].set \in DOMAIN sets

(* The annotations of an owner go in order: synced, asked to stop,          *)
(* unregistered, completed. A pod that is marked done is idle or has        *)
(* stopped.                                                                 *)
DrainInv ==
    \A n \in Owners :
        /\ owner[n].st = "none" => owner[n] = NoOwner
        /\ owner[n].synced => owner[n].pod # "none"
        /\ owner[n].ann # "none" => owner[n].synced
        /\ owner[n].ann = "completed" => owner[n].done
        /\ owner[n].done => owner[n].pod \in {"idle", "stopped"}

(* The runner of the owner does no work any more. *)
Finished(o) == o.pod = "stopped" \/ o.done

(* An owner that goes has finished, or its set went in ignorance of it, or  *)
(* it had an earlier template.                                              *)
LossInv ==
    \A n \in Owners :
        \/ Finished(owner[n]) \/ blind \/ outdated
        \/ owner[n].st = "none"
        \/ owner[n].st = "live" /\ sets[owner[n].set].st = "live"

(* The pods that have not registered in time and may yet. *)
LateOnes == {n \in Owners : owner[n].pod = "late"}

(* The owners that the cached list lacks. *)
HiddenOnes == {n \in Owners : owner[n].st # "none" /\ ~owner[n].shown}

(* The owners that count for template t, late ones included. *)
Holding(t) == {n \in Owners : /\ owner[n].st = "live" /\ owner[n].tpl = t /\ owner[n].ann = "none"
                              /\ owner[n].pod # "stopped"}

(* The count of owners: of a template, no more than were asked for, the     *)
(* late ones and those that were not shown.                                 *)
CountInv ==
    /\ Cardinality(LateOnes) <= lates
    /\ Cardinality(HiddenOnes) <= lags
    /\ \A t \in 1..mode.tpl : Cardinality(Holding(t)) <= MaxReplicas + lates + lags

(* The inductive invariant. *)
IInv == TypeOK /\ mode \in Modes /\ SetsInv /\ DrainInv /\ LossInv /\ CountInv /\ JobsSurvive
-----------------------------------------------------------------------------
(* The owner is deleted, for one of four reasons. *)
IsDeleted(n) ==
    /\ owner[n].st = "live"
    /\ owner'[n] = [owner[n] EXCEPT !.st = "deleting"]
    /\ owner[n].ann = "completed" \/ owner[n].pod = "stopped" \/ outdated' \/ sets[owner[n].set].st = "deleted"

(* The owner of a pod that is done is marked as completed. *)
IsReleased(n) ==
    /\ owner[n].st = "live" /\ Releasable(n)
    /\ owner'[n] = [owner[n] EXCEPT !.ann = "completed"]

(* The owner is created, by a set that waits for none of its owners. *)
IsCreated(n) ==
    /\ owner[n].st = "none"
    /\ UNCHANGED sets
    /\ \E s \in LiveSets, b \in BOOLEAN :
           CreateOwners(s) /\ Stoppers(s) = {} /\ owner'[n] = NewOwner(s, b)

(* The owner is asked to stop, being synced. *)
IsRequested(n) ==
    /\ owner[n].st = "live" /\ owner[n].ann = "none" /\ owner[n].synced
    /\ owner'[n] = Request(n)

(* What may become of a pod. *)
PodSteps == {<<"none", "pending">>, <<"pending", "idle">>, <<"pending", "late">>, <<"late", "idle">>,
             <<"idle", "busy">>, <<"busy", "idle">>, <<"busy", "stopped">>, <<"idle", "stopped">>}

(* The pod goes on. No job starts on one that is done. *)
PodMoves(n) ==
    \E p : /\ owner[n].st # "none"
           /\ <<owner[n].pod, p>> \in PodSteps
           /\ p = "busy" => ~owner[n].done
           /\ p = "late" => lates' = lates + 1
           /\ owner'[n] = [owner[n] EXCEPT !.pod = p]

(* The status of the owner is written. *)
IsSynced(n) == owner[n].st = "live" /\ owner[n].pod # "none" /\ owner'[n] = [owner[n] EXCEPT !.synced = TRUE]

(* The runner is unregistered, not being busy. *)
IsUnregistered(n) ==
    /\ owner[n].st # "none" /\ owner[n].pod \in {"idle", "stopped"}
    /\ owner'[n] = [owner[n] EXCEPT !.done = TRUE]

(* The cached list shows the owner. *)
IsShown(n) == owner[n].st # "none" /\ owner'[n] = [owner[n] EXCEPT !.shown = TRUE]

(* The owner is gone. *)
IsGone(n) == owner[n].st = "deleting" /\ owner'[n] = NoOwner /\ killed' = (killed \/ owner[n].pod = "busy")

(* The owner is no longer a recent one. *)
Ages(n) == owner'[n] = [owner[n] EXCEPT !.recent = FALSE]

(* What a step does to owner n. *)
Move(n) ==
    \/ owner'[n] = owner[n]
    \/ IsDeleted(n) \/ IsReleased(n) \/ IsCreated(n) \/ IsRequested(n)
    \/ PodMoves(n) \/ IsSynced(n) \/ IsUnregistered(n) \/ IsGone(n) \/ Ages(n)
    \/ IsShown(n)
-----------------------------------------------------------------------------
(* What the assumption says of the installation. *)
LEMMA Constants ==
  ASSUME mode \in Modes
  PROVE  /\ MaxOwners \in Nat /\ MaxReplicas \in Nat /\ MaxJobs \in Nat
         /\ mode \in ModeType /\ mode.direct \in BOOLEAN /\ mode.ephemeral \in BOOLEAN
         /\ mode.from \in Nat /\ mode.owners \in Nat /\ mode.tpl \in Nat /\ mode.scale \in Nat
         /\ mode.late \in Nat /\ mode.lag \in Nat /\ mode.time \in Nat
         /\ mode.from <= MaxReplicas /\ mode.owners <= MaxOwners /\ mode.tpl >= 1 /\ mode.time >= 1
         /\ 1..mode.owners \subseteq Owners
<1>1. mode \in ModeType /\ MaxOwners \in Nat /\ MaxReplicas \in Nat /\ MaxJobs \in Nat
  BY RunnerDeploymentAssumption
<1>2. mode.from <= MaxReplicas /\ mode.owners <= MaxOwners /\ mode.tpl >= 1 /\ mode.time >= 1
  BY RunnerDeploymentAssumption
<1> QED
  BY <1>1, <1>2 DEF ModeType, Owners

(* Owners can be counted. *)
LEMMA Finite ==
  /\ MaxOwners \in Nat /\ IsFiniteSet(Owners) /\ Cardinality(Owners) = MaxOwners
  /\ \A S \in SUBSET Owners : /\ IsFiniteSet(S)
                              /\ Cardinality(S) \in Nat /\ Cardinality(S) <= MaxOwners
<1>1. MaxOwners \in Nat
  BY RunnerDeploymentAssumption
<1>2. IsFiniteSet(Owners) /\ Cardinality(Owners) = MaxOwners
  BY <1>1, FS_Interval DEF Owners
<1> QED
  BY <1>1, <1>2, FS_Subset, FS_CardinalityType

(* What a set creates, of which the cached list may hide some. *)
LEMMA Creation ==
  ASSUME NEW s, CreateOwners(s)
  PROVE  \E num \in 0..Wanted(s), new \in SUBSET {n \in 1..mode.owners : owner[n].st = "none"},
            hidden \in SUBSET (1..mode.owners) :
            /\ Wanted(s) > 0 /\ Cardinality(new) = num /\ hidden \subseteq new
            /\ lags' = lags + Cardinality(hidden)
            /\ owner' = [n \in Owners |-> IF n \in new THEN NewOwner(s, n \notin hidden)
                                          ELSE IF n \in Passed(s) THEN PassOn(n) ELSE owner[n]]
<1> DEFINE Free == {n \in 1..mode.owners : owner[n].st = "none"}
           New(num) == {n \in Free : Cardinality({m \in Free : m < n}) < num}
           Made(new, hidden) ==
             owner' = [n \in Owners |-> IF n \in new THEN NewOwner(s, n \notin hidden)
                                        ELSE IF n \in Passed(s) THEN PassOn(n) ELSE owner[n]]
<1>1. PICK num \in 0..Wanted(s) :
        /\ Cardinality(New(num)) = num
        /\ \E hidden \in SUBSET New(num) : lags' = lags + Cardinality(hidden) /\ Made(New(num), hidden)
  BY Zenon DEF CreateOwners
<1>2. PICK hidden \in SUBSET New(num) : lags' = lags + Cardinality(hidden) /\ Made(New(num), hidden)
  BY <1>1
<1>3. New(num) \in SUBSET Free /\ Free \in SUBSET (1..mode.owners)
  OBVIOUS
<1>4. hidden \in SUBSET (1..mode.owners) /\ hidden \subseteq New(num)
  BY <1>2, <1>3
<1>5. Wanted(s) > 0
  BY DEF CreateOwners
<1> HIDE DEF New, Made
<1>6. \E new \in SUBSET Free : /\ Cardinality(new) = num /\ hidden \subseteq new
                              /\ Made(new, hidden)
  BY <1>1, <1>2, <1>3, <1>4
<1> QED
  BY <1>2, <1>4, <1>5, <1>6 DEF Made

(* Every step does one of these to each owner, action by action. *)
LEMMA Moves ==
  ASSUME owner \in [Owners -> OwnerType], DrainInv, mode \in Modes, Next
  PROVE  /\ owner' = [n \in Owners |-> owner'[n]]
         /\ \A n \in Owners : Move(n)
<1> USE DEF history, bounds
<1>d. owner = [n \in Owners |-> owner[n]]
  OBVIOUS
<1>n. \A n \in Owners : owner[n].st = "none" => owner[n] = NoOwner
  BY DEF DrainInv
<1>u. ASSUME UNCHANGED owner
      PROVE  owner' = [n \in Owners |-> owner'[n]] /\ \A n \in Owners : Move(n)
  BY <1>u, <1>d DEF Move
<1>1. CASE DeploymentController \/ Scale \/ ChangeTemplate \/ Tick
  BY <1>1, <1>u DEF DeploymentController, CreateSet, ScaleNewest, RetireOldSets, Scale,
     ChangeTemplate, SetSpec, Tick
<1>2. ASSUME NEW s \in LiveSets, CollectStops(s)
      PROVE  owner' = [n \in Owners |-> owner'[n]] /\ \A n \in Owners : Move(n)
  <2>1. PICK x \in Stoppers(s), before \in SUBSET Passed(s) :
          owner' = [n \in Owners |->
                       IF n \in before THEN PassOn(n)
                       ELSE IF n = x /\ Completed(n) THEN [owner[n] EXCEPT !.st = "deleting"]
                       ELSE owner[n]]
    BY <1>2 DEF CollectStops
  <2>2. ASSUME NEW n \in Owners, n \in before
        PROVE  Move(n)
    BY <2>1, <2>2 DEF Passed, PassOn, Unregistered, Move, IsDeleted, IsReleased
  <2>3. ASSUME NEW n \in Owners, n \notin before, n = x, Completed(n)
        PROVE  Move(n)
    BY <2>1, <2>3 DEF Stoppers, Kept, Completed, Move, IsDeleted
  <2>4. ASSUME NEW n \in Owners, n \notin before, ~(n = x /\ Completed(n))
        PROVE  Move(n)
    BY <2>1, <2>4 DEF Move
  <2> QED
    BY <2>1, <2>2, <2>3, <2>4
<1>3. ASSUME NEW s \in LiveSets, CreateOwners(s), Stoppers(s) = {}
      PROVE  owner' = [n \in Owners |-> owner'[n]] /\ \A n \in Owners : Move(n)
  <2>1. PICK new \in SUBSET {n \in 1..mode.owners : owner[n].st = "none"},
             hidden \in SUBSET (1..mode.owners) :
          owner' = [n \in Owners |-> IF n \in new THEN NewOwner(s, n \notin hidden)
                                     ELSE IF n \in Passed(s) THEN PassOn(n) ELSE owner[n]]
    BY <1>3, Creation
  <2>2. UNCHANGED sets
    BY <1>3 DEF CreateOwners
  <2>3. ASSUME NEW n \in Owners, n \in new
        PROVE  Move(n)
    BY <1>3, <2>1, <2>2, <2>3 DEF Move, IsCreated
  <2>4. ASSUME NEW n \in Owners, n \notin new, n \in Passed(s)
        PROVE  Move(n)
    BY <2>1, <2>4 DEF Passed, PassOn, Unregistered, Move, IsDeleted, IsReleased
  <2>5. ASSUME NEW n \in Owners, n \notin new, n \notin Passed(s)
        PROVE  Move(n)
    BY <2>1, <2>5 DEF Move
  <2> QED
    BY <2>1, <2>3, <2>4, <2>5
<1>4. ASSUME NEW s \in LiveSets, UpdateOwners(s), Stoppers(s) = {}
      PROVE  owner' = [n \in Owners |-> owner'[n]] /\ \A n \in Owners : Move(n)
  <2>1. PICK keep, gone :
          /\ gone = {} \/ \E n \in Old(s) : gone = {n}
          /\ owner' = [n \in Owners |->
                          IF n \in Passed(s) THEN PassOn(n)
                          ELSE IF n \in gone THEN [owner[n] EXCEPT !.st = "deleting"]
                          ELSE IF n \in Redundant(s, keep) THEN Request(n)
                          ELSE owner[n]]
          /\ outdated' = (outdated \/ gone # {})
    BY <1>4 DEF UpdateOwners
  <2>2. ASSUME NEW n \in Owners, n \in Passed(s)
        PROVE  Move(n)
    BY <2>1, <2>2 DEF Passed, PassOn, Unregistered, Move, IsDeleted, IsReleased
  <2>3. ASSUME NEW n \in Owners, n \notin Passed(s), n \in gone
        PROVE  Move(n)
    <3>1. owner[n].st = "live"
      BY <2>1, <2>3 DEF Old, Kept
    <3>2. outdated'
      BY <2>1, <2>3
    <3> QED
      BY <2>1, <2>3, <3>1, <3>2 DEF Move, IsDeleted
  <2>4. ASSUME NEW n \in Owners, n \notin Passed(s), n \notin gone, n \in Redundant(s, keep)
        PROVE  Move(n)
    <3>1. owner[n].st = "live" /\ owner[n].ann = "none" /\ owner[n].synced
      BY <2>4, <1>4 DEF Redundant, Current, Kept, Stoppers
    <3> QED
      BY <2>1, <2>4, <3>1 DEF Move, IsRequested
  <2>5. ASSUME NEW n \in Owners, n \notin Passed(s), n \notin gone, n \notin Redundant(s, keep)
        PROVE  Move(n)
    BY <2>1, <2>5 DEF Move
  <2> QED
    BY <2>1, <2>2, <2>3, <2>4, <2>5
<1>5. CASE \E s \in LiveSets : SetController(s)
  BY <1>2, <1>3, <1>4, <1>5 DEF SetController, ReconcileSet
<1>6. ASSUME NEW m \in Owners, NEW p, SetPod(m, p),
             owner[m].st # "none", <<owner[m].pod, p>> \in PodSteps,
             p = "busy" => ~owner[m].done, p = "late" => lates' = lates + 1
      PROVE  owner' = [n \in Owners |-> owner'[n]] /\ \A n \in Owners : Move(n)
  <2>1. owner' = [owner EXCEPT ![m].pod = p]
    BY <1>6 DEF SetPod
  <2>2. PodMoves(m)
    BY <1>6, <2>1 DEF PodMoves
  <2>3. \A n \in Owners \ {m} : owner'[n] = owner[n]
    BY <2>1
  <2> QED
    BY <2>1, <2>2, <2>3 DEF Move
<1>7. ASSUME NEW m \in Owners, \/ PodMade(m) \/ Registers(m) \/ RegistersAfterAll(m) \/ RegistersTooLate(m)
                               \/ JobStarts(m) \/ JobEnds(m) \/ Exits(m)
      PROVE  owner' = [n \in Owners |-> owner'[n]] /\ \A n \in Owners : Move(n)
  <2>1. owner[m].pod # "none" => owner[m].st # "none"
    BY <1>n DEF NoOwner
  <2>2. CASE PodMade(m)
    BY <2>2, <1>6 DEF PodMade, PodSteps
  <2>3. CASE Registers(m)
    BY <2>3, <1>6 DEF Registers, PodSteps
  <2>4. CASE RegistersAfterAll(m)
    BY <2>4, <2>1, <1>6 DEF RegistersAfterAll, PodSteps
  <2>5. CASE RegistersTooLate(m)
    BY <2>5, <2>1, <1>6 DEF RegistersTooLate, PodSteps
  <2>6. CASE JobStarts(m)
    BY <2>6, <2>1, <1>6 DEF JobStarts, PodSteps
  <2>7. CASE JobEnds(m)
    BY <2>7, <2>1, <1>6 DEF JobEnds, PodSteps
  <2>8. CASE Exits(m)
    BY <2>8, <2>1, <1>6 DEF Exits, PodSteps
  <2> QED
    BY <1>7, <2>2, <2>3, <2>4, <2>5, <2>6, <2>7, <2>8
<1>8. ASSUME NEW m \in Owners, \/ GarbageCollect(m) \/ StatusSynced(m) \/ Unregisters(m) \/ OwnerGoes(m)
                               \/ ListShows(m)
      PROVE  owner' = [n \in Owners |-> owner'[n]] /\ \A n \in Owners : Move(n)
  <2>0. owner[m].pod # "none" => owner[m].st # "none"
    BY <1>n DEF NoOwner
  <2>1. owner' = [n \in Owners |-> owner'[n]] /\ \A n \in Owners \ {m} : owner'[n] = owner[n]
    BY <1>8 DEF GarbageCollect, StatusSynced, Unregisters, OwnerGoes, ListShows
  <2>2. IsDeleted(m) \/ IsSynced(m) \/ IsUnregistered(m) \/ IsGone(m) \/ IsShown(m)
    BY <1>8, <2>0 DEF GarbageCollect, StatusSynced, Unregisters, OwnerGoes, ListShows, IsDeleted, IsSynced,
       IsUnregistered, IsGone, IsShown
  <2> QED
    BY <2>1, <2>2 DEF Move
<1>9. CASE DelayEnds
  BY <1>9 DEF DelayEnds, Move, Ages
<1> QED
  BY <1>1, <1>5, <1>7, <1>8, <1>9 DEF Next, Lives

(* Every step keeps DrainInv, move by move. *)
LEMMA DrainStep ==
  ASSUME owner \in [Owners -> OwnerType], DrainInv, mode \in Modes, Next
  PROVE  DrainInv'
<1> SUFFICES ASSUME NEW n \in Owners
             PROVE  /\ owner'[n].st = "none" => owner'[n] = NoOwner
                    /\ owner'[n].synced => owner'[n].pod # "none"
                    /\ owner'[n].ann # "none" => owner'[n].synced
                    /\ owner'[n].ann = "completed" => owner'[n].done
                    /\ owner'[n].done => owner'[n].pod \in {"idle", "stopped"}
  BY DEF DrainInv
<1>1. /\ owner[n].st = "none" => owner[n] = NoOwner
      /\ owner[n].synced => owner[n].pod # "none"
      /\ owner[n].ann # "none" => owner[n].synced
      /\ owner[n].ann = "completed" => owner[n].done
      /\ owner[n].done => owner[n].pod \in {"idle", "stopped"}
  BY DEF DrainInv
<1>2. owner[n] \in OwnerType
  OBVIOUS
<1>3. CASE owner'[n] = owner[n]
  BY <1>1, <1>3
<1>4. CASE IsDeleted(n)
  BY <1>1, <1>2, <1>4 DEF IsDeleted, OwnerType
<1>5. CASE IsReleased(n)
  BY <1>1, <1>2, <1>5 DEF IsReleased, Releasable, OwnerType
<1>6. CASE IsCreated(n)
  BY <1>6 DEF IsCreated, NewOwner, NoOwner
<1>7. CASE IsRequested(n)
  BY <1>1, <1>2, <1>7 DEF IsRequested, Request, OwnerType
<1>8. CASE PodMoves(n)
  BY <1>1, <1>2, <1>8 DEF PodMoves, PodSteps, OwnerType
<1>9. CASE IsSynced(n)
  BY <1>1, <1>2, <1>9 DEF IsSynced, OwnerType
<1>10. CASE IsUnregistered(n)
  BY <1>1, <1>2, <1>10 DEF IsUnregistered, OwnerType
<1>11. CASE IsGone(n)
  BY <1>11 DEF IsGone, NoOwner
<1>12. CASE Ages(n)
  <2>1. owner[n].st = "none" => owner'[n] = NoOwner
    <3>1. ASSUME NEW a \in OwnerType, a.recent = FALSE
          PROVE  [a EXCEPT !.recent = FALSE] = a
      BY <3>1 DEF OwnerType
    <3>2. NoOwner.recent = FALSE
      BY DEF NoOwner
    <3> QED
      BY <1>1, <1>2, <1>12, <3>1, <3>2 DEF Ages
  <2> QED
    BY <1>1, <1>2, <1>12, <2>1 DEF Ages, OwnerType
<1>13. CASE IsShown(n)
  BY <1>1, <1>2, <1>13 DEF IsShown, OwnerType
<1> QED
  BY <1>3, <1>4, <1>5, <1>6, <1>7, <1>8, <1>9, <1>10, <1>11, <1>12, <1>13, Moves DEF Move

(* The newest RunnerReplicaSet is the last in order of creation. *)
LEMMA NewestIsLast ==
  ASSUME sets \in Seq(SetType), SetsInv, Len(sets) > 0
  PROVE  Newest = Len(sets) /\ Newest \in LiveSets
<1>1. Len(sets) \in LiveSets
  BY DEF LiveSets, SetsInv
<1>2. \A y \in LiveSets : Len(sets) >= y
  BY DEF LiveSets
<1>3. LiveSets \subseteq Nat
  BY DEF LiveSets
<1>4. Max(LiveSets) \in LiveSets /\ \A y \in LiveSets : Max(LiveSets) >= y
  BY <1>1, <1>2 DEF Max
<1>5. /\ Len(sets) \in Nat /\ Max(LiveSets) \in Nat /\ Max(LiveSets) >= Len(sets)
      /\ Len(sets) >= Max(LiveSets)
  BY <1>1, <1>2, <1>3, <1>4
<1>6. Max(LiveSets) = Len(sets)
  BY <1>5
<1> QED
  BY <1>1, <1>6 DEF Newest

(* No set is deleted or gets another template. *)
SetsStay == \A s \in DOMAIN sets : sets'[s].st = sets[s].st /\ sets'[s].tpl = sets[s].tpl

(* What a step does to the sets: nothing, a new one, a change of numbers,   *)
(* retirement, or a change of the RunnerSet itself.                         *)
SetsMove ==
    \/ UNCHANGED <<spec, sets>>
    \/ ~mode.direct /\ NeedsSet /\ UNCHANGED <<spec, owner>> /\ sets' = Append(sets, NewSet(spec))
    \/ Len(sets') = Len(sets) /\ SetsStay /\ spec' = spec
    \/ ~mode.direct /\ RetireOldSets
    \/ /\ UNCHANGED owner /\ spec'.tpl \in {spec.tpl, spec.tpl + 1} /\ Len(sets') = Len(sets)
       /\ IF mode.direct THEN sets'[1].st = sets[1].st /\ sets'[1].tpl = spec'.tpl ELSE sets' = sets

(* Every step does one of these to the sets, action by action. *)
LEMMA SetsMoves ==
  ASSUME TypeOK, SetsInv, mode \in Modes, Next
  PROVE  /\ mode' = mode
         /\ sets' \in Seq(SetType)
         /\ spec' \in [tpl : 1..mode.tpl, replicas : 0..MaxReplicas, effective : 0..mode.time]
         /\ SetsMove
<1> USE DEF history, bounds
<1>t. /\ sets \in Seq(SetType) /\ now \in 1..mode.time
      /\ spec \in [tpl : 1..mode.tpl, replicas : 0..MaxReplicas, effective : 0..mode.time]
  BY DEF TypeOK
<1>n. mode.tpl \in Nat /\ mode.time \in Nat /\ MaxReplicas \in Nat /\ MaxOwners \in Nat
  BY Constants
<1>s. \A s \in DOMAIN sets : sets[s] \in SetType
  BY <1>t
<1>w. NewSet(spec) \in SetType
  BY <1>t, <1>n DEF NewSet, SetType
<1>k. ASSUME NEW s \in DOMAIN sets, NEW r, r \in SetType, sets' = [sets EXCEPT ![s] = r]
      PROVE  /\ sets' \in Seq(SetType) /\ Len(sets') = Len(sets) /\ sets'[s] = r
             /\ \A x \in DOMAIN sets \ {s} : sets'[x] = sets[x]
  BY <1>t, <1>k
<1>1. CASE CreateSet
  BY <1>1, <1>t, <1>w DEF CreateSet, SetsMove
<1>2. CASE ScaleNewest
  <2> DEFINE r == [sets[Newest] EXCEPT !.replicas = spec.replicas, !.effective = spec.effective]
  <2>1. Newest \in DOMAIN sets
    BY <1>2 DEF ScaleNewest, NeedsSet, LiveSets
  <2>2. r \in SetType /\ r.st = sets[Newest].st /\ r.tpl = sets[Newest].tpl
    BY <2>1, <1>s, <1>t DEF SetType
  <2>3. sets' = [sets EXCEPT ![Newest] = r] /\ UNCHANGED <<mode, spec>>
    BY <1>2 DEF ScaleNewest
  <2> HIDE DEF r
  <2>4. SetsStay
    BY <2>1, <2>2, <2>3, <1>k DEF SetsStay
  <2> QED
    BY <2>1, <2>2, <2>3, <2>4, <1>k, <1>t DEF SetsMove
<1>3. CASE RetireOldSets
  <2>1. \A s \in DOMAIN sets : /\ [sets[s] EXCEPT !.st = "deleted"] \in SetType
                               /\ [sets[s] EXCEPT !.replicas = 0] \in SetType
    BY <1>s, <1>n DEF SetType
  <2>2. \A s \in DOMAIN sets : sets'[s] \in SetType
    BY <1>3, <1>s, <2>1 DEF RetireOldSets
  <2>3. sets' = [s \in 1..Len(sets) |-> sets'[s]]
    BY <1>3, <1>t DEF RetireOldSets
  <2>4. sets' \in Seq(SetType)
    BY <2>2, <2>3, <1>t
  <2> QED
    BY <1>3, <1>t, <2>4 DEF RetireOldSets, SetsMove
<1>4. ASSUME NEW s \in LiveSets, CreateOwners(s) \/ CollectStops(s)
      PROVE  UNCHANGED sets
  BY <1>4 DEF CreateOwners, CollectStops
<1>5. ASSUME NEW s \in LiveSets, UpdateOwners(s)
      PROVE  sets' \in Seq(SetType) /\ Len(sets') = Len(sets) /\ SetsStay
  <2> DEFINE a == Cardinality({n \in Current(s) : owner[n].pod # "none"})
             b == Cardinality({n \in Current(s) : Running(n)})
             r == [sets[s] EXCEPT !.status = a, !.ready = b]
  <2>1. s \in DOMAIN sets /\ sets[s] \in SetType
    BY <1>s DEF LiveSets
  <2>2. a \in 0..MaxOwners /\ b \in 0..MaxOwners
    <3>1. Current(s) \subseteq Owners
      BY DEF Current, Kept, Listed
    <3> QED
      BY <3>1, Finite
  <2>3. sets' = sets \/ sets' = [sets EXCEPT ![s] = r]
    BY <1>5 DEF UpdateOwners
  <2> HIDE DEF a, b
  <2>4. r \in SetType /\ r.st = sets[s].st /\ r.tpl = sets[s].tpl
    BY <2>1, <2>2 DEF SetType
  <2> HIDE DEF r
  <2> QED
    BY <2>1, <2>3, <2>4, <1>k, <1>t DEF SetsStay
<1>6. CASE \E s \in LiveSets : SetController(s)
  <2>1. UNCHANGED <<mode, spec>>
    BY <1>6 DEF SetController, ReconcileSet, CollectStops
  <2> QED
    BY <1>4, <1>5, <1>6, <1>t, <2>1 DEF SetController, ReconcileSet, SetsMove
<1>7. ASSUME NEW sp, SetSpec(sp), sp \in [tpl : 1..mode.tpl, replicas : 0..MaxReplicas, effective : 0..mode.time],
             sp.tpl \in {spec.tpl, spec.tpl + 1}
      PROVE  mode' = mode /\ sets' \in Seq(SetType) /\ spec' = sp /\ SetsMove
  <2> DEFINE r == [sets[1] EXCEPT !.tpl = sp.tpl, !.replicas = sp.replicas, !.effective = sp.effective]
  <2>1. mode' = mode /\ spec' = sp /\ UNCHANGED owner
    BY <1>7 DEF SetSpec
  <2>2. CASE ~mode.direct
    BY <1>7, <1>t, <2>1, <2>2 DEF SetSpec, SetsMove
  <2>3. CASE mode.direct
    <3>1. 1 \in DOMAIN sets
      BY <1>t, <2>3 DEF SetsInv
    <3>2. r \in SetType /\ r.st = sets[1].st /\ r.tpl = sp.tpl
      BY <1>7, <1>s, <3>1 DEF SetType
    <3>3. sets' = [sets EXCEPT ![1] = r]
      BY <1>7, <2>3 DEF SetSpec
    <3> HIDE DEF r
    <3> QED
      BY <1>7, <2>1, <2>3, <3>1, <3>2, <3>3, <1>k DEF SetsMove
  <2> QED
    BY <2>2, <2>3
<1>8. CASE Scale
  <2>1. PICK r \in 0..MaxReplicas, e \in {spec.effective, now} :
           SetSpec([spec EXCEPT !.replicas = r, !.effective = e])
    BY <1>8 DEF Scale
  <2> DEFINE sp == [spec EXCEPT !.replicas = r, !.effective = e]
  <2>2. e \in 0..mode.time
    BY <1>t, <1>n
  <2>3. /\ sp \in [tpl : 1..mode.tpl, replicas : 0..MaxReplicas, effective : 0..mode.time]
        /\ sp.tpl = spec.tpl
    BY <1>t, <2>2
  <2> HIDE DEF sp
  <2> QED
    BY <1>7, <2>1, <2>3 DEF sp
<1>9. CASE ChangeTemplate
  <2> DEFINE sp == [spec EXCEPT !.tpl = spec.tpl + 1]
  <2>1. SetSpec(sp)
    BY <1>9, <1>t DEF ChangeTemplate
  <2>2. spec.tpl + 1 \in 1..mode.tpl
    BY <1>9, <1>t, <1>n DEF ChangeTemplate
  <2>3. /\ sp \in [tpl : 1..mode.tpl, replicas : 0..MaxReplicas, effective : 0..mode.time]
        /\ sp.tpl = spec.tpl + 1
    BY <1>t, <2>2
  <2> HIDE DEF sp
  <2> QED
    BY <1>7, <2>1, <2>3
<1>10. CASE UNCHANGED <<mode, spec, sets>>
  BY <1>10, <1>t DEF SetsMove
<1>11. CASE \/ Tick \/ DelayEnds
            \/ \E n \in Owners : \/ Lives(n) \/ ListShows(n) \/ RegistersTooLate(n) \/ RegistersAfterAll(n)
                               \/ JobStarts(n)
  BY <1>10, <1>11 DEF Tick, DelayEnds, Lives, GarbageCollect, PodMade, Registers, StatusSynced,
     JobEnds, Unregisters, Exits, OwnerGoes, ListShows, RegistersTooLate, RegistersAfterAll, JobStarts, SetPod
<1> QED
  BY <1>1, <1>2, <1>3, <1>6, <1>8, <1>9, <1>11 DEF Next, DeploymentController

(* The clock, the counters and the histories only grow, and killed only     *)
(* with an owner that goes.                                                 *)
LEMMA Histories ==
  ASSUME TypeOK, mode \in Modes, Next
  PROVE  /\ now' \in 1..mode.time /\ jobs' \in 0..MaxJobs /\ scales' \in 0..mode.scale
         /\ {killed', blind', outdated'} \subseteq BOOLEAN
         /\ blind => blind'
         /\ outdated => outdated'
         /\ killed' => killed \/ \E n \in Owners : owner[n].st = "deleting" /\ owner[n].pod = "busy"
         /\ \/ lates' = lates
            \/ lates' = lates + 1 /\ lates' <= mode.late /\ \E n \in Owners : RegistersTooLate(n)
         /\ lags' \in 0..mode.lag /\ lags <= lags'
         /\ lags' = lags \/ \E s \in LiveSets : CreateOwners(s)
<1>1. /\ now \in 1..mode.time /\ jobs \in 0..MaxJobs /\ scales \in 0..mode.scale /\ lates \in 0..mode.late
      /\ {killed, blind, outdated} \subseteq BOOLEAN
  BY DEF TypeOK
<1>2. mode.time \in Nat /\ MaxJobs \in Nat /\ mode.scale \in Nat /\ mode.late \in Nat
  BY Constants
<1>3. /\ now' = now \/ (now < mode.time /\ now' = now + 1)
      /\ jobs' = jobs \/ (jobs < MaxJobs /\ jobs' = jobs + 1)
      /\ scales' = scales \/ (scales < mode.scale /\ scales' = scales + 1)
      /\ \/ lates' = lates
         \/ lates < mode.late /\ lates' = lates + 1 /\ \E n \in Owners : RegistersTooLate(n)
      /\ \/ killed' = killed
         \/ \E n \in Owners : killed' = (killed \/ owner[n].pod = "busy") /\ owner[n].st = "deleting"
      /\ blind' = blind \/ \E c \in BOOLEAN : blind' = (blind \/ c)
      /\ outdated' = outdated \/ \E c \in BOOLEAN : outdated' = (outdated \/ c)
  <2> USE DEF history, bounds, DeploymentController, CreateSet, ScaleNewest, RetireOldSets, SetController,
        ReconcileSet, CollectStops, CreateOwners, UpdateOwners, Lives, GarbageCollect, PodMade, Registers,
        StatusSynced, JobEnds, Unregisters, Exits, OwnerGoes, ListShows, RegistersTooLate, RegistersAfterAll, JobStarts,
        SetPod, Scale, ChangeTemplate, SetSpec, Tick, DelayEnds, Next
  <2>1. now' = now \/ (now < mode.time /\ now' = now + 1)
    OBVIOUS
  <2>2. jobs' = jobs \/ (jobs < MaxJobs /\ jobs' = jobs + 1)
    OBVIOUS
  <2>3. scales' = scales \/ (scales < mode.scale /\ scales' = scales + 1)
    OBVIOUS
  <2>4. \/ lates' = lates
        \/ lates < mode.late /\ lates' = lates + 1 /\ \E n \in Owners : RegistersTooLate(n)
    OBVIOUS
  <2>5. \/ killed' = killed
        \/ \E n \in Owners : killed' = (killed \/ owner[n].pod = "busy") /\ owner[n].st = "deleting"
    OBVIOUS
  <2>6. blind' = blind \/ \E c \in BOOLEAN : blind' = (blind \/ c)
    OBVIOUS
  <2>7. outdated' = outdated \/ \E c \in BOOLEAN : outdated' = (outdated \/ c)
    OBVIOUS
  <2> QED
    BY <2>1, <2>2, <2>3, <2>4, <2>5, <2>6, <2>7
<1>4. now' \in 1..mode.time /\ jobs' \in 0..MaxJobs /\ scales' \in 0..mode.scale
  BY <1>1, <1>2, <1>3
<1>5. killed' \in BOOLEAN /\ blind' \in BOOLEAN /\ outdated' \in BOOLEAN
  BY <1>1, <1>3
<1>6. (blind => blind') /\ (outdated => outdated')
  <2>1. blind => blind'
    BY <1>1, <1>3
  <2>2. outdated => outdated'
    BY <1>1, <1>3
  <2> QED
    BY <2>1, <2>2
<1>7. killed' => killed \/ \E n \in Owners : owner[n].st = "deleting" /\ owner[n].pod = "busy"
  BY <1>3
<1>8. \/ lates' = lates
      \/ lates' = lates + 1 /\ lates' <= mode.late /\ \E n \in Owners : RegistersTooLate(n)
  BY <1>1, <1>2, <1>3
<1>9. lags' = lags \/ \E s \in LiveSets : CreateOwners(s)
  BY DEF history, bounds, DeploymentController, CreateSet, ScaleNewest, RetireOldSets, SetController,
     ReconcileSet, CollectStops, UpdateOwners, Lives, GarbageCollect, PodMade, Registers,
     StatusSynced, JobEnds, Unregisters, Exits, OwnerGoes, ListShows, RegistersTooLate, RegistersAfterAll,
     JobStarts, SetPod, Scale, ChangeTemplate, SetSpec, Tick, DelayEnds, Next
<1>10. lags \in 0..mode.lag /\ mode.lag \in Nat
  BY Constants DEF TypeOK
<1>11. lags' \in 0..mode.lag /\ lags <= lags'
  <2>1. ASSUME NEW s \in LiveSets, CreateOwners(s)
        PROVE  lags' \in 0..mode.lag /\ lags <= lags'
    <3>1. PICK hidden \in SUBSET Owners : lags' = lags + Cardinality(hidden) /\ lags' <= mode.lag
      <4>1. PICK hidden \in SUBSET (1..mode.owners) : lags' = lags + Cardinality(hidden) /\ lags' <= mode.lag
        BY <2>1 DEF CreateOwners
      <4> QED
        BY <4>1, Constants
    <3>2. Cardinality(hidden) \in Nat
      BY Finite
    <3> QED
      BY <1>10, <3>1, <3>2
  <2> QED
    BY <1>9, <1>10, <2>1
<1> QED
  BY <1>4, <1>5, <1>6, <1>7, <1>8, <1>9, <1>11

(* What can be said of an owner before the step that it is there, late or   *)
(* counted after.                                                           *)
LEMMA Stays ==
  ASSUME owner \in [Owners -> OwnerType], DrainInv, mode \in Modes, Next, NEW n \in Owners
  PROVE  /\ owner'[n].st # "none" =>
              \/ owner[n].st # "none" /\ owner'[n].set = owner[n].set /\ owner'[n].tpl = owner[n].tpl
              \/ IsCreated(n) /\ owner'[n].set \in LiveSets
         /\ owner'[n].pod = "late" => owner[n].pod = "late" \/ lates' = lates + 1
         /\ owner'[n].st = "live" /\ owner'[n].ann = "none" /\ owner'[n].pod # "stopped" =>
              \/ owner[n].st = "live" /\ owner[n].ann = "none" /\ owner[n].pod # "stopped"
              \/ IsCreated(n)
         /\ owner'[n].st # "none" /\ ~owner'[n].shown => (owner[n].st # "none" /\ ~owner[n].shown) \/ IsCreated(n)
<1>2. owner[n] \in OwnerType
  OBVIOUS
<1>4. CASE IsDeleted(n)
  BY <1>2, <1>4 DEF IsDeleted, OwnerType
<1>5. CASE IsReleased(n)
  BY <1>2, <1>5 DEF IsReleased, OwnerType
<1>6. CASE IsCreated(n)
  <2>1. PICK s \in LiveSets, b \in BOOLEAN : owner'[n] = NewOwner(s, b)
    BY <1>6 DEF IsCreated
  <2> QED
    BY <1>6, <2>1 DEF NewOwner, NoOwner
<1>7. CASE IsRequested(n)
  BY <1>2, <1>7 DEF IsRequested, Request, OwnerType
<1>8. CASE PodMoves(n)
  BY <1>2, <1>8 DEF PodMoves, PodSteps, OwnerType
<1>9. CASE IsSynced(n)
  BY <1>2, <1>9 DEF IsSynced, OwnerType
<1>10. CASE IsUnregistered(n)
  BY <1>2, <1>10 DEF IsUnregistered, OwnerType
<1>11. CASE IsGone(n)
  BY <1>11 DEF IsGone, NoOwner
<1>12. CASE Ages(n)
  <2>1. owner[n].st = "none" => owner'[n].st = "none"
    BY <1>2, <1>12 DEF Ages, OwnerType
  <2> QED
    BY <1>2, <1>12, <2>1 DEF Ages, OwnerType
<1>13. CASE IsShown(n)
  BY <1>2, <1>13 DEF IsShown, OwnerType
<1> QED
  BY <1>4, <1>5, <1>6, <1>7, <1>8, <1>9, <1>10, <1>11, <1>12, <1>13, Moves DEF Move

(* Every step keeps SetsInv. *)
LEMMA SetsStep ==
  ASSUME TypeOK, SetsInv, DrainInv, mode \in Modes, Next
  PROVE  SetsInv' /\ DOMAIN sets \subseteq DOMAIN sets'
<1>1. /\ mode' = mode /\ SetsMove
      /\ sets' \in Seq(SetType) /\ spec' \in [tpl : 1..mode.tpl, replicas : 0..MaxReplicas, effective : 0..mode.time]
  BY SetsMoves
<1>2. /\ sets \in Seq(SetType) /\ owner \in [Owners -> OwnerType]
      /\ spec \in [tpl : 1..mode.tpl, replicas : 0..MaxReplicas, effective : 0..mode.time]
  BY DEF TypeOK
<1>n. mode.tpl \in Nat
  BY Constants
<1>3. /\ mode.direct => Len(sets) = 1
      /\ Len(sets) > 0 => sets[Len(sets)].st = "live"
      /\ \A s \in DOMAIN sets : sets[s].tpl <= spec.tpl /\ s <= sets[s].tpl
  BY DEF SetsInv
<1>t. \A s \in DOMAIN sets : sets[s] \in SetType /\ sets[s].tpl \in Nat
  <2>1. \A s \in DOMAIN sets : sets[s] \in SetType
    BY <1>2
  <2> QED
    BY <2>1, <1>n DEF SetType
<1> DEFINE Good == /\ DOMAIN sets \subseteq DOMAIN sets'
                   /\ mode.direct => Len(sets') = 1
                   /\ Len(sets') > 0 => sets'[Len(sets')].st = "live"
                   /\ \A s \in DOMAIN sets' : sets'[s].tpl <= spec'.tpl /\ s <= sets'[s].tpl
<1>4. ASSUME UNCHANGED <<spec, sets>>
      PROVE  Good
  BY <1>3, <1>4
<1>5. ASSUME ~mode.direct, NeedsSet, UNCHANGED <<spec, owner>>, sets' = Append(sets, NewSet(spec))
      PROVE  Good
  <2>1. Len(sets) < spec.tpl
    <3>1. CASE Len(sets) = 0
      BY <3>1, <1>2, <1>n
    <3>2. CASE Len(sets) > 0
      <4>1. Newest = Len(sets) /\ Newest \in LiveSets
        BY <3>2, <1>2, NewestIsLast
      <4>2. sets[Len(sets)].tpl # spec.tpl
        BY <4>1, <1>5 DEF NeedsSet
      <4>3. Len(sets) \in DOMAIN sets
        BY <3>2, <1>2
      <4> QED
        BY <4>2, <4>3, <1>2, <1>3, <1>t, <1>n
    <3> QED
      BY <3>1, <3>2, <1>2
  <2>2. Len(sets') = Len(sets) + 1 /\ \A s \in DOMAIN sets : sets'[s] = sets[s]
    BY <1>5, <1>2
  <2>3. sets'[Len(sets')] = NewSet(spec)
    BY <1>5, <1>2
  <2>4. NewSet(spec).st = "live" /\ NewSet(spec).tpl = spec.tpl
    BY DEF NewSet
  <2>5. Len(sets) \in Nat /\ spec.tpl \in Nat /\ spec' = spec
    BY <1>2, <1>5, <1>n
  <2>6. DOMAIN sets = 1..Len(sets) /\ DOMAIN sets' = 1..(Len(sets) + 1)
    BY <1>1, <1>2, <2>2
  <2>7. ASSUME NEW s \in DOMAIN sets'
        PROVE  sets'[s].tpl <= spec'.tpl /\ s <= sets'[s].tpl
    <3>1. CASE s \in DOMAIN sets
      BY <3>1, <2>2, <2>5, <1>3
    <3>2. CASE s = Len(sets) + 1
      BY <3>2, <2>1, <2>2, <2>3, <2>4, <2>5
    <3> QED
      BY <3>1, <3>2, <2>5, <2>6
  <2> QED
    BY <1>5, <2>2, <2>3, <2>4, <2>5, <2>6, <2>7
<1>6. ASSUME Len(sets') = Len(sets), SetsStay, spec' = spec
      PROVE  Good
  <2>1. DOMAIN sets' = DOMAIN sets
    BY <1>1, <1>2, <1>6
  <2>2. Len(sets) > 0 => Len(sets) \in DOMAIN sets
    BY <1>2
  <2> QED
    BY <2>1, <2>2, <1>3, <1>6 DEF SetsStay
<1>7. ASSUME ~mode.direct, RetireOldSets
      PROVE  Good
  <2>1. Newest \in LiveSets
    BY <1>7 DEF RetireOldSets, NeedsSet
  <2>2. Len(sets) > 0
    BY <2>1, <1>2 DEF LiveSets
  <2>3. Newest = Len(sets)
    BY <2>2, <1>2, NewestIsLast
  <2>4. DOMAIN sets' = DOMAIN sets /\ Len(sets') = Len(sets) /\ spec' = spec
    BY <1>1, <1>2, <1>7 DEF RetireOldSets
  <2>5. sets'[Len(sets)] = sets[Len(sets)]
    BY <1>7, <2>1, <2>3 DEF RetireOldSets, LiveSets
  <2>6. ASSUME NEW s \in DOMAIN sets
        PROVE  sets'[s].tpl = sets[s].tpl
    <3>1. \/ sets'[s] = [sets[s] EXCEPT !.st = "deleted"] \/ sets'[s] = [sets[s] EXCEPT !.replicas = 0]
          \/ sets'[s] = sets[s]
      BY <1>7 DEF RetireOldSets
    <3> QED
      BY <3>1, <1>t DEF SetType
  <2> QED
    BY <1>3, <1>7, <2>2, <2>4, <2>5, <2>6
<1>8. ASSUME UNCHANGED owner, spec'.tpl \in {spec.tpl, spec.tpl + 1}, Len(sets') = Len(sets),
             IF mode.direct THEN sets'[1].st = sets[1].st /\ sets'[1].tpl = spec'.tpl ELSE sets' = sets
      PROVE  Good
  <2>0. spec.tpl \in Nat /\ spec'.tpl \in Nat /\ spec.tpl <= spec'.tpl /\ spec'.tpl >= 1
    BY <1>1, <1>2, <1>8, <1>n
  <2>1. CASE mode.direct
    <3>1. DOMAIN sets' = {1} /\ DOMAIN sets = {1} /\ Len(sets') = 1 /\ Len(sets) = 1
      BY <2>1, <1>1, <1>2, <1>3, <1>8
    <3> QED
      BY <2>0, <2>1, <3>1, <1>3, <1>8
  <2>2. CASE ~mode.direct
    BY <2>0, <2>2, <1>3, <1>8, <1>t
  <2> QED
    BY <2>1, <2>2
<1>9. Good
  BY <1>1, <1>4, <1>5, <1>6, <1>7, <1>8 DEF SetsMove
<1>10. ASSUME NEW n \in Owners, owner'[n].st # "none"
       PROVE  owner'[n].set \in DOMAIN sets'
  <2>1. \/ owner[n].st # "none" /\ owner'[n].set = owner[n].set
        \/ owner'[n].set \in LiveSets
    BY <1>2, <1>10, Stays
  <2>2. owner'[n].set \in DOMAIN sets
    BY <2>1 DEF SetsInv, LiveSets
  <2> QED
    BY <2>2, <1>9
<1> QED
  BY <1>1, <1>9, <1>10 DEF SetsInv

(* The owners keep their type, move by move. *)
LEMMA OwnerTyped ==
  ASSUME TypeOK, SetsInv, DrainInv, mode \in Modes, Next
  PROVE  owner' \in [Owners -> OwnerType]
<1>1. /\ owner \in [Owners -> OwnerType] /\ sets \in Seq(SetType) /\ now \in 1..mode.time
  BY DEF TypeOK
<1>2. mode.tpl \in Nat /\ mode.time \in Nat
  BY Constants
<1>3. NoOwner \in OwnerType
  BY <1>2 DEF NoOwner, OwnerType
<1> SUFFICES ASSUME NEW n \in Owners
             PROVE  owner'[n] \in OwnerType
  BY <1>1, Moves
<1>4. owner[n] \in OwnerType
  BY <1>1
<1>5. CASE owner'[n] = owner[n]
  BY <1>4, <1>5
<1>6. CASE IsDeleted(n)
  BY <1>4, <1>6 DEF IsDeleted, OwnerType
<1>7. CASE IsReleased(n)
  BY <1>4, <1>7 DEF IsReleased, OwnerType
<1>8. CASE IsCreated(n)
  <2>1. PICK s \in LiveSets, b \in BOOLEAN : owner'[n] = NewOwner(s, b)
    BY <1>8 DEF IsCreated
  <2>2. s \in DOMAIN sets /\ sets[s] \in SetType /\ s <= sets[s].tpl
    BY <1>1 DEF LiveSets, SetsInv
  <2>3. s \in 0..mode.tpl /\ sets[s].tpl \in 0..mode.tpl /\ now \in 0..mode.time
    <3>1. sets[s].tpl \in 1..mode.tpl
      BY <2>2 DEF SetType
    <3>2. s \in Nat
      BY <1>1, <2>2
    <3> QED
      BY <1>1, <1>2, <2>2, <3>1, <3>2
  <2> QED
    BY <1>3, <2>1, <2>3 DEF NewOwner, OwnerType
<1>9. CASE IsRequested(n)
  BY <1>4, <1>9 DEF IsRequested, Request, OwnerType
<1>10. CASE PodMoves(n)
  BY <1>4, <1>10 DEF PodMoves, PodSteps, OwnerType
<1>11. CASE IsSynced(n)
  BY <1>4, <1>11 DEF IsSynced, OwnerType
<1>12. CASE IsUnregistered(n)
  BY <1>4, <1>12 DEF IsUnregistered, OwnerType
<1>13. CASE IsGone(n)
  BY <1>3, <1>13 DEF IsGone
<1>14. CASE Ages(n)
  BY <1>4, <1>14 DEF Ages, OwnerType
<1>15. CASE IsShown(n)
  BY <1>4, <1>15 DEF IsShown, OwnerType
<1> QED
  BY <1>1, <1>5, <1>6, <1>7, <1>8, <1>9, <1>10, <1>11, <1>12, <1>13, <1>14, <1>15, Moves DEF Move

(* Every step keeps the types. *)
LEMMA TypeStep ==
  ASSUME TypeOK, SetsInv, DrainInv, mode \in Modes, Next
  PROVE  TypeOK'
<1>1. /\ mode' = mode /\ sets' \in Seq(SetType)
      /\ spec' \in [tpl : 1..mode.tpl, replicas : 0..MaxReplicas, effective : 0..mode.time]
  BY SetsMoves
<1>2. /\ OwnerType' = OwnerType /\ SetType' = SetType
  BY <1>1 DEF OwnerType, SetType
<1>3. owner' \in [Owners -> OwnerType]
  BY OwnerTyped
<1>4. Len(sets') <= mode.tpl
  <2>1. CASE Len(sets') = 0
    BY <2>1, Constants
  <2>2. CASE Len(sets') > 0
    <3>1. Len(sets') \in DOMAIN sets' /\ Len(sets') \in Nat
      BY <1>1, <2>2
    <3>2. sets'[Len(sets')].tpl <= spec'.tpl /\ Len(sets') <= sets'[Len(sets')].tpl
      BY <3>1, SetsStep DEF SetsInv
    <3>3. sets'[Len(sets')] \in SetType
      BY <1>1, <3>1
    <3>4. sets'[Len(sets')].tpl \in 1..mode.tpl
      BY <3>3 DEF SetType
    <3> QED
      BY <3>1, <3>2, <3>4, Constants
  <2> QED
    BY <1>1, <2>1, <2>2
<1>5. lates' \in 0..mode.late
  <2>1. lates \in 0..mode.late /\ mode.late \in Nat
    BY Constants DEF TypeOK
  <2> QED
    BY <2>1, Histories
<1>6. /\ now' \in 1..mode.time /\ jobs' \in 0..MaxJobs /\ scales' \in 0..mode.scale
      /\ {killed', blind', outdated'} \subseteq BOOLEAN /\ lags' \in 0..mode.lag
  BY Histories
<1>7. mode \in ModeType
  BY Constants
<1> QED
  BY <1>1, <1>2, <1>3, <1>4, <1>5, <1>6, <1>7 DEF TypeOK

(* Every step keeps LossInv: a set is retired with no active owner, or      *)
(* blindly, and an owner is created for a live set.                         *)
LEMMA LossStep ==
  ASSUME TypeOK, SetsInv, DrainInv, LossInv, mode \in Modes, Next
  PROVE  LossInv'
<1>1. owner \in [Owners -> OwnerType] /\ sets \in Seq(SetType)
  BY DEF TypeOK
<1> SUFFICES ASSUME NEW n \in Owners, ~Finished(owner'[n]), ~blind', ~outdated', owner'[n].st # "none"
             PROVE  owner'[n].st = "live" /\ sets'[owner'[n].set].st = "live"
  BY DEF LossInv, Finished
<1>2. ~blind /\ ~outdated
  BY Histories
<1>3. owner[n] \in OwnerType
  BY <1>1
<1>4. /\ owner[n].ann = "completed" => owner[n].done
      /\ owner[n].st = "none" => owner[n] = NoOwner
  BY DEF DrainInv
<1>5. \/ Finished(owner[n]) \/ owner[n].st = "none"
      \/ owner[n].st = "live" /\ sets[owner[n].set].st = "live"
  BY <1>2 DEF LossInv
<1>c. CASE IsCreated(n)
  <2>1. PICK s \in LiveSets, b \in BOOLEAN : owner'[n] = NewOwner(s, b)
    BY <1>c DEF IsCreated
  <2> QED
    BY <1>c, <2>1 DEF IsCreated, NewOwner, NoOwner, LiveSets
<1>6. ASSUME ~IsCreated(n)
      PROVE  /\ owner[n].st = "live" /\ sets[owner[n].set].st = "live" /\ ~Finished(owner[n])
             /\ owner'[n].st = "live" /\ owner'[n].set = owner[n].set
  <2>1. CASE owner'[n] = owner[n]
    BY <2>1, <1>5
  <2>2. CASE IsDeleted(n)
    BY <2>2, <1>3, <1>4, <1>5 DEF IsDeleted, OwnerType, Finished
  <2>3. CASE IsReleased(n)
    BY <2>3, <1>3, <1>5 DEF IsReleased, OwnerType, Finished
  <2>4. CASE IsRequested(n)
    BY <2>4, <1>3, <1>5 DEF IsRequested, Request, OwnerType, Finished
  <2>5. CASE PodMoves(n)
    BY <2>5, <1>3, <1>5 DEF PodMoves, PodSteps, OwnerType, Finished
  <2>6. CASE IsSynced(n)
    BY <2>6, <1>3, <1>5 DEF IsSynced, OwnerType, Finished
  <2>7. CASE IsUnregistered(n)
    BY <2>7, <1>3 DEF IsUnregistered, OwnerType, Finished
  <2>8. CASE IsGone(n)
    BY <2>8 DEF IsGone, NoOwner
  <2>9. CASE Ages(n)
    BY <2>9, <1>3, <1>5 DEF Ages, OwnerType, Finished
  <2>10. CASE IsShown(n)
    BY <2>10, <1>3, <1>5 DEF IsShown, OwnerType, Finished
  <2> QED
    BY <1>1, <1>6, <2>1, <2>2, <2>3, <2>4, <2>5, <2>6, <2>7, <2>8, <2>9, <2>10, Moves DEF Move
<1>7. ASSUME ~IsCreated(n)
      PROVE  sets'[owner[n].set].st = "live"
  <2> DEFINE s == owner[n].set
  <2>1. s \in DOMAIN sets /\ sets[s].st = "live" /\ owner[n].st = "live" /\ ~Finished(owner[n])
    BY <1>6, <1>7 DEF SetsInv
  <2> SUFFICES sets'[s].st = "live"
    OBVIOUS
  <2> HIDE DEF s
  <2>2. CASE UNCHANGED <<spec, sets>>
    BY <2>1, <2>2
  <2>3. CASE sets' = Append(sets, NewSet(spec))
    BY <2>1, <2>3, <1>1
  <2>4. CASE SetsStay
    BY <2>1, <2>4 DEF SetsStay
  <2>5. CASE RetireOldSets
    <3>1. Active(n)
      BY <2>1 DEF Active, Finished
    <3>2. ~(s \in LiveSets \ {Newest} /\ sets[s].status = 0)
      BY <2>5, <3>1 DEF RetireOldSets, s
    <3>3. sets'[s] = [sets[s] EXCEPT !.replicas = 0] \/ sets'[s] = sets[s]
      BY <2>1, <2>5, <3>2 DEF RetireOldSets
    <3>4. sets[s] \in SetType
      BY <2>1, <1>1
    <3> QED
      BY <2>1, <3>3, <3>4 DEF SetType
  <2>6. CASE IF mode.direct THEN sets'[1].st = sets[1].st /\ sets'[1].tpl = spec'.tpl ELSE sets' = sets
    <3>1. CASE mode.direct
      <4>1. s = 1
        BY <2>1, <3>1, <1>1 DEF SetsInv
      <4> QED
        BY <2>1, <2>6, <3>1, <4>1
    <3>2. CASE ~mode.direct
      BY <2>1, <2>6, <3>2
    <3> QED
      BY <3>1, <3>2
  <2>7. SetsMove
    BY SetsMoves
  <2> QED
    BY <2>2, <2>3, <2>4, <2>5, <2>6, <2>7 DEF SetsMove, s
<1> QED
  BY <1>c, <1>6, <1>7

(* A union has no more elements than its parts together. *)
LEMMA UnionCount ==
  ASSUME NEW S \in SUBSET Owners, NEW T \in SUBSET Owners
  PROVE  Cardinality(S \cup T) <= Cardinality(S) + Cardinality(T)
<1>1. /\ IsFiniteSet(S) /\ IsFiniteSet(T) /\ Cardinality(S) \in Nat /\ Cardinality(T) \in Nat
      /\ Cardinality(S \cap T) \in Nat
  BY Finite
<1>2. Cardinality(S \cup T) = Cardinality(S) + Cardinality(T) - Cardinality(S \cap T)
  BY <1>1, FS_Union
<1> QED
  BY <1>1, <1>2

(* An owner that the list lacks has been counted. *)
LEMMA HiddenStep ==
  ASSUME TypeOK, DrainInv, mode \in Modes, Next, Cardinality(HiddenOnes) <= lags
  PROVE  Cardinality(HiddenOnes') <= lags'
<1>1. owner \in [Owners -> OwnerType] /\ lags \in Nat /\ lags' \in Nat /\ lags <= lags'
  BY Constants, Histories DEF TypeOK
<1>2. HiddenOnes \subseteq Owners /\ HiddenOnes' \subseteq Owners
  BY DEF HiddenOnes
<1>3. Cardinality(HiddenOnes) \in Nat /\ Cardinality(HiddenOnes') \in Nat /\ IsFiniteSet(HiddenOnes)
  BY <1>2, Finite
<1>4. CASE HiddenOnes' \subseteq HiddenOnes
  <2>1. Cardinality(HiddenOnes') <= Cardinality(HiddenOnes)
    BY <1>3, <1>4, FS_Subset
  <2> QED
    BY <1>1, <1>3, <2>1
<1>5. ASSUME NEW x \in HiddenOnes', x \notin HiddenOnes
      PROVE  Cardinality(HiddenOnes') <= lags'
  <2>1. IsCreated(x)
    BY <1>1, <1>5, Stays DEF HiddenOnes
  <2>2. PICK s \in LiveSets : CreateOwners(s)
    BY <2>1 DEF IsCreated
  <2>3. PICK new \in SUBSET (1..mode.owners), hidden \in SUBSET (1..mode.owners) :
           /\ lags' = lags + Cardinality(hidden)
           /\ owner' = [n \in Owners |-> IF n \in new THEN NewOwner(s, n \notin hidden)
                                         ELSE IF n \in Passed(s) THEN PassOn(n) ELSE owner[n]]
    BY <2>2 DEF CreateOwners
  <2>4. hidden \subseteq Owners
    BY <2>3, Constants
  <2>5. HiddenOnes' \subseteq HiddenOnes \cup hidden
    <3> SUFFICES ASSUME NEW n \in Owners, owner'[n].st # "none", ~owner'[n].shown, n \notin hidden
                 PROVE  owner[n].st # "none" /\ ~owner[n].shown
      BY DEF HiddenOnes
    <3>1. owner[n] \in OwnerType
      BY <1>1
    <3>2. n \notin new
      BY <2>3 DEF NewOwner, NoOwner
    <3>3. CASE n \in Passed(s)
      BY <2>3, <3>1, <3>2, <3>3 DEF PassOn, Passed, OwnerType
    <3>4. CASE n \notin Passed(s)
      BY <2>3, <3>2, <3>4
    <3> QED
      BY <3>3, <3>4
  <2>6. IsFiniteSet(HiddenOnes \cup hidden) /\ Cardinality(hidden) \in Nat /\ Cardinality(HiddenOnes \cup hidden) \in Nat
    BY <1>2, <2>4, Finite
  <2>7. Cardinality(HiddenOnes') <= Cardinality(HiddenOnes \cup hidden)
    BY <2>5, <2>6, FS_Subset
  <2>8. Cardinality(HiddenOnes \cup hidden) <= Cardinality(HiddenOnes) + Cardinality(hidden)
    BY <1>2, <2>4, UnionCount
  <2> QED
    BY <1>1, <1>3, <2>3, <2>6, <2>7, <2>8
<1> QED
  BY <1>4, <1>5

(* A pod is late only if it has been counted. *)
LEMMA LateStep ==
  ASSUME TypeOK, DrainInv, mode \in Modes, Next, Cardinality(LateOnes) <= lates
  PROVE  Cardinality(LateOnes') <= lates'
<1>1. owner \in [Owners -> OwnerType] /\ lates \in Nat
  BY Constants DEF TypeOK
<1>2. LateOnes \subseteq Owners /\ LateOnes' \subseteq Owners
  BY DEF LateOnes
<1>3. CASE lates' = lates
  <2>1. LateOnes' \subseteq LateOnes
    BY <1>1, <1>3, Stays DEF LateOnes
  <2>2. Cardinality(LateOnes') <= Cardinality(LateOnes)
    BY <1>2, <2>1, Finite, FS_Subset
  <2> QED
    BY <1>1, <1>2, <1>3, <2>2, Finite
<1>4. ASSUME NEW n \in Owners, RegistersTooLate(n)
      PROVE  Cardinality(LateOnes') <= lates'
  <2>1. owner' = [owner EXCEPT ![n].pod = "late"] /\ lates' = lates + 1
    BY <1>4 DEF RegistersTooLate, SetPod
  <2>2. LateOnes' \subseteq LateOnes \cup {n}
    BY <1>1, <2>1 DEF LateOnes
  <2>3. IsFiniteSet(LateOnes \cup {n}) /\ Cardinality(LateOnes \cup {n}) <= Cardinality(LateOnes) + 1
    <3>1. IsFiniteSet(LateOnes) /\ Cardinality(LateOnes) \in Nat
      BY <1>2, Finite
    <3>2. /\ IsFiniteSet(LateOnes \cup {n})
          /\ Cardinality(LateOnes \cup {n}) = Cardinality(LateOnes)
               \/ Cardinality(LateOnes \cup {n}) = Cardinality(LateOnes) + 1
      <4>1. CASE n \in LateOnes
        <5>1. LateOnes \cup {n} = LateOnes
          BY <4>1
        <5> QED
          BY <3>1, <5>1
      <4>2. CASE n \notin LateOnes
        BY <3>1, <4>2, FS_AddElement
      <4> QED
        BY <4>1, <4>2
    <3> QED
      BY <3>1, <3>2
  <2>4. Cardinality(LateOnes') <= Cardinality(LateOnes \cup {n})
    BY <2>2, <2>3, FS_Subset
  <2>5. /\ Cardinality(LateOnes) \in Nat /\ Cardinality(LateOnes') \in Nat
        /\ Cardinality(LateOnes \cup {n}) \in Nat
    BY <1>2, <2>3, Finite, FS_CardinalityType
  <2> QED
    BY <1>1, <2>1, <2>3, <2>4, <2>5
<1> QED
  BY <1>3, <1>4, Histories

(* A set creates as many owners as it lacks. It has waited for each of its  *)
(* owners to be synced, so every owner that it does not count as running is *)
(* late.                                                                    *)
LEMMA HoldingStep ==
  ASSUME TypeOK, DrainInv, CountInv, mode \in Modes, Next, NEW t \in 1..mode.tpl
  PROVE  Cardinality(Holding(t)') <= MaxReplicas + lates' + lags'
<1>1. owner \in [Owners -> OwnerType] /\ lates \in Nat /\ lags \in Nat /\ sets \in Seq(SetType)
  BY Constants DEF TypeOK
<1>2. MaxReplicas \in Nat
  BY Constants
<1>3. Holding(t) \subseteq Owners /\ Holding(t)' \subseteq Owners
  BY DEF Holding
<1>4. lates' \in Nat /\ lates <= lates' /\ lags' \in Nat /\ lags <= lags'
  <2>1. mode.lag \in Nat
    BY Constants
  <2>2. lates' = lates \/ lates' = lates + 1
    BY Histories
  <2>3. lags' \in 0..mode.lag /\ lags <= lags'
    BY Histories
  <2> QED
    BY <1>1, <2>1, <2>2, <2>3
<1>5. Cardinality(Holding(t)) <= MaxReplicas + lates + lags
  BY DEF CountInv
<1>6. CASE Holding(t)' \subseteq Holding(t)
  <2>1. Cardinality(Holding(t)') <= Cardinality(Holding(t))
    BY <1>3, <1>6, Finite, FS_Subset
  <2>2. Cardinality(Holding(t)) \in Nat /\ Cardinality(Holding(t)') \in Nat
    BY <1>3, Finite
  <2> QED
    BY <1>1, <1>2, <1>4, <1>5, <2>1, <2>2
<1>7. ASSUME NEW x \in Holding(t)', x \notin Holding(t)
      PROVE  Cardinality(Holding(t)') <= MaxReplicas + lates' + lags'
  <2>1. x \in Owners /\ owner'[x].st = "live" /\ owner'[x].tpl = t /\ owner'[x].ann = "none"
        /\ owner'[x].pod # "stopped"
    BY <1>7 DEF Holding
  <2>2. IsCreated(x)
    BY <1>1, <1>7, <2>1, Stays DEF Holding
  <2>3. PICK s \in LiveSets, b \in BOOLEAN :
          CreateOwners(s) /\ Stoppers(s) = {} /\ owner'[x] = NewOwner(s, b)
    BY <2>2 DEF IsCreated
  <2>4. sets[s].tpl = t /\ s \in DOMAIN sets
    BY <2>1, <2>3 DEF NewOwner, NoOwner, LiveSets
  <2>5. PICK num \in 0..Wanted(s), new \in SUBSET Owners, hidden \in SUBSET (1..mode.owners) :
           /\ Wanted(s) > 0 /\ Cardinality(new) = num
           /\ owner' = [n \in Owners |-> IF n \in new THEN NewOwner(s, n \notin hidden)
                                         ELSE IF n \in Passed(s) THEN PassOn(n) ELSE owner[n]]
    <3>1. 1..mode.owners \subseteq Owners
      BY Constants
    <3>2. PICK num \in 0..Wanted(s), new \in SUBSET {n \in 1..mode.owners : owner[n].st = "none"},
               hidden \in SUBSET (1..mode.owners) :
             /\ Wanted(s) > 0 /\ Cardinality(new) = num /\ hidden \subseteq new
             /\ lags' = lags + Cardinality(hidden)
             /\ owner' = [n \in Owners |-> IF n \in new THEN NewOwner(s, n \notin hidden)
                                           ELSE IF n \in Passed(s) THEN PassOn(n) ELSE owner[n]]
      BY <2>3, Creation
    <3> QED
      BY <3>1, <3>2
  <2> DEFINE A == {n \in Current(s) : MaybeRunning(n)}
  <2>6. A \subseteq Owners
    BY DEF Current, Kept, Listed
  <2> DEFINE U == LateOnes \cup HiddenOnes
  <2>7. Holding(t)' \subseteq (A \cup new) \cup U
    <3> SUFFICES ASSUME NEW n \in Owners, n \in Holding(t)', n \notin new
                 PROVE  n \in A \/ n \in LateOnes \/ n \in HiddenOnes
      BY <1>3
    <3>1. owner[n] \in OwnerType
      BY <1>1
    <3>2. /\ owner'[n].st = "live" /\ owner'[n].tpl = t /\ owner'[n].ann = "none"
          /\ owner'[n].pod # "stopped"
      BY DEF Holding
    <3>3. n \notin Passed(s)
      <4>1. PassOn(n).st = "deleting" \/ PassOn(n).ann = "completed"
        BY <3>1 DEF PassOn, OwnerType
      <4> QED
        BY <2>5, <3>2, <4>1
    <3>4. owner'[n] = owner[n]
      BY <2>5, <3>3
    <3>h. CASE ~owner[n].shown
      BY <3>h, <3>2, <3>4 DEF HiddenOnes
    <3>l. CASE owner[n].shown
      <4>5. n \in Current(s)
        BY <2>4, <3>2, <3>3, <3>4, <3>l DEF Current, Kept, Listed
      <4>6. owner[n].synced
        BY <2>3, <4>5 DEF Stoppers, Current
      <4>7. owner[n].pod \in {"pending", "late", "idle", "busy"}
        BY <3>1, <3>2, <3>4, <4>6 DEF DrainInv, OwnerType
      <4> QED
        BY <4>5, <4>7 DEF LateOnes, MaybeRunning, Running
    <3> QED
      BY <3>h, <3>l
  <2>8. Cardinality(A) + num <= MaxReplicas
    <3>1. sets[s].replicas \in 0..MaxReplicas
      <4>1. sets[s] \in SetType
        BY <1>1, <2>4
      <4> QED
        BY <4>1 DEF SetType
    <3>2. Cardinality(A) \in Nat
      BY <2>6, Finite
    <3>3. Wanted(s) = IF sets[s].replicas > Cardinality(A) THEN sets[s].replicas - Cardinality(A) ELSE 0
      BY DEF Wanted
    <3> HIDE DEF A
    <3> QED
      BY <1>2, <2>5, <3>1, <3>2, <3>3
  <2> HIDE DEF A
  <2>9. LateOnes \subseteq Owners /\ HiddenOnes \subseteq Owners /\ U \subseteq Owners
    BY DEF LateOnes, HiddenOnes
  <2>10. Cardinality(U) <= Cardinality(LateOnes) + Cardinality(HiddenOnes)
    BY <2>9, UnionCount
  <2> HIDE DEF U
  <2>11. Cardinality(A \cup new) <= Cardinality(A) + Cardinality(new)
    BY <2>5, <2>6, UnionCount
  <2>12. Cardinality((A \cup new) \cup U) <= Cardinality(A \cup new) + Cardinality(U)
    BY <2>5, <2>6, <2>9, UnionCount
  <2>13. Cardinality(Holding(t)') <= Cardinality((A \cup new) \cup U)
    <3>1. IsFiniteSet((A \cup new) \cup U)
      BY <2>5, <2>6, <2>9, Finite
    <3> QED
      BY <2>7, <3>1, FS_Subset
  <2>14. Cardinality(LateOnes) <= lates /\ Cardinality(HiddenOnes) <= lags
    BY DEF CountInv
  <2>15. /\ Cardinality(A) \in Nat /\ Cardinality(new) \in Nat /\ Cardinality(U) \in Nat
         /\ Cardinality(LateOnes) \in Nat /\ Cardinality(HiddenOnes) \in Nat
         /\ Cardinality(A \cup new) \in Nat /\ Cardinality((A \cup new) \cup U) \in Nat
         /\ Cardinality(Holding(t)') \in Nat
    BY <1>3, <2>5, <2>6, <2>9, Finite
  <2> QED
    <3>1. /\ Cardinality(new) = num
          /\ Cardinality(Holding(t)') <= Cardinality(A) + Cardinality(new) + Cardinality(U)
      BY <2>5, <2>11, <2>12, <2>13, <2>15
    <3>2. \A u, l, h, m, n, m2, n2 \in Nat :
             u <= l + h /\ l <= m /\ h <= n /\ m <= m2 /\ n <= n2 => u <= m2 + n2
      OBVIOUS
    <3>3. Cardinality(U) <= lates' + lags'
      <4>1. lates \in Nat /\ lags \in Nat
        BY <1>1
      <4> QED
        BY <1>4, <2>10, <2>14, <2>15, <3>2, <4>1, Zenon
    <3>4. \A y, c, n, u, r, l, h \in Nat : y <= c + n + u /\ c + n <= r /\ u <= l + h => y <= r + l + h
      OBVIOUS
    <3>5. Cardinality(A) + Cardinality(new) <= MaxReplicas
      BY <2>8, <3>1
    <3> QED
      BY <1>2, <1>4, <2>15, <3>1, <3>3, <3>4, <3>5, Zenon
<1> QED
  BY <1>6, <1>7

(* The invariant holds in the beginning. *)
LEMMA InitInv ==
  ASSUME Init
  PROVE  IInv
<1>1. mode \in Modes
  BY DEF Init
<1>2. /\ MaxOwners \in Nat /\ MaxReplicas \in Nat /\ MaxJobs \in Nat /\ mode \in ModeType
      /\ mode.tpl \in Nat /\ mode.scale \in Nat /\ mode.late \in Nat /\ mode.lag \in Nat /\ mode.time \in Nat /\ mode.from \in Nat
      /\ mode.from <= MaxReplicas /\ mode.tpl >= 1 /\ mode.time >= 1
  BY <1>1, Constants
<1>3. spec \in [tpl : 1..mode.tpl, replicas : 0..MaxReplicas, effective : 0..mode.time] /\ spec.tpl = 1
  BY <1>2 DEF Init
<1>4. NewSet(spec) \in SetType /\ NewSet(spec).st = "live" /\ NewSet(spec).tpl = 1
  BY <1>2, <1>3 DEF NewSet, SetType
<1>5. sets = <<NewSet(spec)>> \/ (sets = <<>> /\ ~mode.direct)
  BY DEF Init
<1>6. /\ sets \in Seq(SetType) /\ Len(sets) <= 1 /\ (mode.direct => Len(sets) = 1)
      /\ \A s \in DOMAIN sets : s = 1 /\ sets[s] = NewSet(spec)
  <2>1. CASE sets = <<NewSet(spec)>>
    BY <1>4, <2>1
  <2>2. CASE sets = <<>> /\ ~mode.direct
    BY <2>2
  <2> QED
    BY <1>5, <2>1, <2>2
<1>7. NoOwner \in OwnerType
  BY <1>2 DEF NoOwner, OwnerType
<1>8. owner \in [Owners -> OwnerType] /\ \A n \in Owners : owner[n] = NoOwner
  BY <1>7 DEF Init
<1>9. TypeOK
  <2>1. killed \in BOOLEAN /\ blind \in BOOLEAN /\ outdated \in BOOLEAN
    BY DEF Init
  <2>3. now = 1 /\ scales = 0 /\ jobs = 0 /\ lates = 0 /\ lags = 0
    BY DEF Init
  <2>4. /\ now \in 1..mode.time /\ scales \in 0..mode.scale /\ jobs \in 0..MaxJobs
        /\ lates \in 0..mode.late /\ lags \in 0..mode.lag
    BY <1>2, <2>3
  <2>2. Len(sets) <= mode.tpl
    BY <1>2, <1>6
  <2> QED
    BY <1>2, <1>3, <1>6, <1>8, <2>1, <2>2, <2>4 DEF TypeOK
<1>10. SetsInv
  <2>1. \A n \in Owners : owner[n].st = "none"
    BY <1>8 DEF NoOwner
  <2>2. Len(sets) > 0 => Len(sets) \in DOMAIN sets
    BY <1>6
  <2> QED
    BY <1>3, <1>4, <1>6, <2>1, <2>2 DEF SetsInv
<1>11. DrainInv /\ LossInv
  BY <1>8 DEF DrainInv, LossInv, NoOwner
<1>12. CountInv
  <2>1. LateOnes = {} /\ HiddenOnes = {} /\ \A t \in 1..mode.tpl : Holding(t) = {}
    BY <1>8 DEF LateOnes, HiddenOnes, Holding, NoOwner
  <2>2. Cardinality({}) = 0
    BY FS_EmptySet
  <2>3. lates = 0 /\ lags = 0
    BY DEF Init
  <2> QED
    BY <1>2, <2>1, <2>2, <2>3 DEF CountInv
<1>13. JobsSurvive
  BY DEF Init, JobsSurvive
<1> QED
  BY <1>1, <1>9, <1>10, <1>11, <1>12, <1>13 DEF IInv

(* Every step keeps the invariant. *)
LEMMA NextInv ==
  ASSUME IInv, [Next]_vars
  PROVE  IInv'
<1>1. TypeOK /\ mode \in Modes /\ SetsInv /\ DrainInv /\ LossInv /\ CountInv /\ JobsSurvive
  BY DEF IInv
<1>2. CASE UNCHANGED vars
  <2>1. TypeOK' /\ mode' \in Modes
    BY <1>1, <1>2 DEF vars, TypeOK, OwnerType, SetType
  <2>2. SetsInv' /\ DrainInv'
    BY <1>1, <1>2 DEF vars, SetsInv, DrainInv
  <2>3. LossInv' /\ JobsSurvive'
    BY <1>1, <1>2 DEF vars, LossInv, JobsSurvive
  <2>4. CountInv'
    BY <1>1, <1>2 DEF vars, CountInv, LateOnes, HiddenOnes, Holding
  <2> QED
    BY <2>1, <2>2, <2>3, <2>4 DEF IInv
<1>3. CASE Next
  <2>1. mode' = mode
    BY <1>1, <1>3, SetsMoves
  <2>2. TypeOK' /\ SetsInv' /\ LossInv'
    BY <1>1, <1>3, TypeStep, SetsStep, LossStep
  <2>3. DrainInv'
    BY <1>1, <1>3, DrainStep DEF TypeOK
  <2>4. CountInv'
    BY <1>1, <1>3, <2>1, LateStep, HiddenStep, HoldingStep DEF CountInv
  <2>5. JobsSurvive'
    <3>1. ASSUME NEW n \in Owners, owner[n].st = "deleting", owner[n].pod = "busy"
          PROVE  blind \/ outdated
      <4>1. ~Finished(owner[n])
        BY <1>1, <3>1 DEF DrainInv, Finished
      <4> QED
        BY <1>1, <3>1, <4>1 DEF LossInv
    <3>2. /\ blind => blind'
          /\ outdated => outdated'
          /\ killed' => killed \/ \E n \in Owners : owner[n].st = "deleting" /\ owner[n].pod = "busy"
      BY <1>1, <1>3, Histories
    <3> QED
      BY <1>1, <3>1, <3>2 DEF JobsSurvive
  <2> QED
    BY <1>1, <2>1, <2>2, <2>3, <2>4, <2>5 DEF IInv
<1> QED
  BY <1>2, <1>3

(* Theorem: the invariant is inductive. *)
THEOREM RunnerDeploymentInvariant == Spec => []IInv
  BY InitInv, NextInv, PTL DEF Spec

(* Theorem: scaling down and rolling out cut no job short, however the      *)
(* controllers interleave, except where JobsSurvive says so: a              *)
(* RunnerReplicaSet deleted on a late status, and a StatefulSet of an       *)
(* earlier template.                                                        *)
THEOREM RunnerDeploymentKeepsJobs == Spec => []JobsSurvive
<1>1. IInv => JobsSurvive
  BY DEF IInv
<1> QED
  BY <1>1, RunnerDeploymentInvariant, PTL

(* Theorem: no more runners of a template are kept than were ever asked     *)
(* for, have registered late or were shown late by the cached list,         *)
(* whatever fails or completes: syncRunnerPodsOwners waits for what it      *)
(* knows to have created.                                                   *)
THEOREM RunnerDeploymentConsistent == Spec => []Consistent
<1>1. ASSUME IInv
      PROVE  Consistent
  <2>1. TypeOK /\ mode \in Modes /\ CountInv
    BY <1>1 DEF IInv
  <2>2. ASSUME NEW t \in 1..mode.tpl
        PROVE  Cardinality(Serving(t)) <= MaxReplicas + lates + lags
    <3>1. Serving(t) \subseteq Holding(t) /\ Holding(t) \subseteq Owners /\ Serving(t) \subseteq Owners
      BY DEF Serving, Holding
    <3>2. Cardinality(Serving(t)) <= Cardinality(Holding(t))
      BY <3>1, Finite, FS_Subset
    <3>3. Cardinality(Serving(t)) \in Nat /\ Cardinality(Holding(t)) \in Nat
      BY <3>1, Finite
    <3>4. Cardinality(Holding(t)) <= MaxReplicas + lates + lags
      BY <2>1 DEF CountInv
    <3>5. MaxReplicas \in Nat /\ lates \in Nat /\ lags \in Nat
      BY <2>1, Constants DEF TypeOK
    <3> QED
      BY <3>2, <3>3, <3>4, <3>5
  <2> QED
    BY <2>1, <2>2 DEF Consistent, NoSurplus
<1> QED
  BY <1>1, RunnerDeploymentInvariant, PTL
=============================================================================
