--------------------------- MODULE CapacityProofs ----------------------------
(*****************************************************************************)
(* Theorems about Capacity, for any caps, numbers of clusters, slots,        *)
(* jobs, failed calls and restarts, and any growth factor of the fresh       *)
(* queue. A cycle of the provisioner creates pairs one call at a time from   *)
(* a count it made in the beginning: the invariant relates that count to     *)
(* the pairs there are now.                                                  *)
(*****************************************************************************)
EXTENDS Capacity, FiniteSetTheorems, WellFoundedInduction, TLAPS

(* The cap on pairs: on runners, and on bursts if there is one. *)
Cap == Min({MaxRunners} \cup (IF MaxBurst > 0 THEN {MaxBurst} ELSE {}))

(* No pair is owned by a listener process that is yet to come. *)
OwnerInv == id <= trouble + 1 /\ \A s \in Slots : owner[s] <= id

(* The cycle under way: the healthy pairs it has listed include all that    *)
(* are whole, the pair it is at is one, and the whole pairs and those it    *)
(* will still create stay within the cap. Pairs only break or go behind its *)
(* back: nobody else makes one with its id.                                 *)
CycleInv ==
    /\ ppc = "sweep" => Whole \subseteq healthy
    /\ ppc \in {"second", "undo"} => \E s \in Slots : todo = {s}
    /\ ppc \in {"create", "second", "undo", "pass1", "pass2"} => count >= 1
    /\ ppc \in {"create", "second", "undo"} => Cardinality(Whole) + count <= Cap

(* The inductive invariant. *)
IInv == TypeOK /\ OwnerInv /\ CycleInv /\ CapRespected

(* What the cluster does to half a pair. *)
PodMoves(s, h) == PodStarts(s, h) \/ PodLate(s, h) \/ Cordon(s, h) \/ PodEnds(s, h)

(* What a real runner does. *)
RunnerMoves(r) == RunnerAppears(r) \/ RunnerBinds(r) \/ JobStarts(r) \/ RunnerEnds(r)
-----------------------------------------------------------------------------
(* Min of a set of numbers is in the set. *)
LEMMA LeastExists ==
  ASSUME NEW S \in SUBSET Nat, S # {}
  PROVE  Min(S) \in S
<1>1. PICK m \in S : \A n \in S : ~(<<n, m>> \in OpToRel(<, Nat))
  BY NatLessThanWellFounded, WFMin
<1>2. \A n \in S : m =< n
  <2> TAKE n \in S
  <2>1. n \in Nat /\ m \in Nat
    OBVIOUS
  <2>2. n < m => <<n, m>> \in OpToRel(<, Nat)
    BY <2>1 DEF OpToRel
  <2>3. ~(n < m)
    BY <1>1, <2>2
  <2> QED
    BY <2>1, <2>3
<1> QED
  BY <1>2 DEF Min

(* Min of three numbers is none of the larger ones. *)
LEMMA LeastOfThree ==
  ASSUME NEW a \in Nat, NEW b \in Nat, NEW c \in Nat
  PROVE  /\ Min({a, b, c}) \in Nat
         /\ Min({a, b, c}) <= a /\ Min({a, b, c}) <= b /\ Min({a, b, c}) <= c
<1>1. \E x \in {a, b, c} : \A y \in {a, b, c} : x =< y
  OBVIOUS
<1>2. Min({a, b, c}) \in {a, b, c} /\ \A y \in {a, b, c} : Min({a, b, c}) =< y
  BY <1>1 DEF Min
<1> QED
  BY <1>2

(* Cap is the least of the caps there are. *)
LEMMA CapBounds ==
  /\ Cap \in Nat /\ Cap <= MaxRunners /\ (MaxBurst > 0 => Cap <= MaxBurst)
  /\ \A x \in Nat : x <= MaxRunners /\ (MaxBurst > 0 => x <= MaxBurst) => x <= Cap
<1> DEFINE S == {MaxRunners} \cup (IF MaxBurst > 0 THEN {MaxBurst} ELSE {})
<1>1. MaxRunners \in Nat /\ MaxBurst \in Nat
  BY CapacityAssumption DEF ValidCaps
<1>2. \E x \in S : \A y \in S : x =< y
  BY <1>1
<1>3. Cap \in S /\ \A y \in S : Cap =< y
  BY <1>2 DEF Cap, Min
<1> QED
  BY <1>1, <1>3

(* computeDesiredPairs never asks for more pairs than the cap. *)
LEMMA DesiredBound ==
  ASSUME NEW n \in Nat \cup {NoHud}, NEW running \in Nat
  PROVE  Desired(n, running) \in Nat /\ Desired(n, running) <= Cap
<1> DEFINE x == IF n = NoHud THEN FailurePairs ELSE Proactive + n
           y == Headroom(running)
           S == {x, y} \cup (IF MaxBurst > 0 THEN {MaxBurst} ELSE {})
<1>1. {MaxRunners, MaxBurst, Proactive, FailurePairs} \subseteq Nat
  BY CapacityAssumption DEF ValidCaps
<1>2. x \in Nat
  BY <1>1 DEF NoHud
<1>3. y \in Nat /\ y <= MaxRunners
  BY <1>1 DEF Headroom
<1>4. \E a \in S : \A b \in S : a =< b
  <2> HIDE DEF x, y
  <2> QED
    BY <1>1, <1>2, <1>3
<1>5. Desired(n, running) \in S /\ \A b \in S : Desired(n, running) =< b
  BY <1>4 DEF Desired, Min
<1>6. Desired(n, running) \in Nat
  BY <1>1, <1>2, <1>3, <1>5
<1>7. Desired(n, running) <= MaxRunners
  <2> HIDE DEF x, y
  <2> QED
    BY <1>1, <1>3, <1>5, <1>6
<1>8. MaxBurst > 0 => Desired(n, running) <= MaxBurst
  BY <1>5
<1> QED
  BY <1>6, <1>7, <1>8, CapBounds

(* Slots and runners can be counted. *)
LEMMA Finite ==
  /\ MaxSlots \in Nat /\ IsFiniteSet(Slots) /\ Cardinality(Slots) = MaxSlots
  /\ \A S \in SUBSET Slots : /\ IsFiniteSet(S)
                             /\ Cardinality(S) \in Nat /\ Cardinality(S) <= MaxSlots
  /\ \A R \in SUBSET Runners : Cardinality(R) \in Nat
<1>1. MaxSlots \in Nat /\ MaxSlots > 0 /\ IsFiniteSet(Runners)
  BY CapacityAssumption
<1>2. IsFiniteSet(Slots) /\ Cardinality(Slots) = MaxSlots
  BY <1>1, FS_Interval DEF Slots
<1>3. \A S \in SUBSET Slots : IsFiniteSet(S) /\ Cardinality(S) \in Nat /\ Cardinality(S) <= MaxSlots
  BY <1>2, FS_Subset, FS_CardinalityType
<1>4. \A R \in SUBSET Runners : Cardinality(R) \in Nat
  BY <1>1, FS_Subset, FS_CardinalityType
<1> QED
  BY <1>1, <1>2, <1>3, <1>4

(* What is advertised is at most MaxRunners. *)
LEMMA CapacityTyped == CapacityNow \in 0..MaxRunners
<1>1. MaxRunners \in Nat
  BY CapacityAssumption DEF ValidCaps
<1>2. \A h : Counted(h) \in Nat
  BY Finite DEF Counted, Mine
<1>3. RunnerSide \in Nat /\ WorkflowSide \in Nat
  <2>1. Cardinality({r \in Runners : real[r] \in {"bound", "working"}}) \in Nat
    BY Finite
  <2>2. Cardinality({r \in Runners : real[r] = "working"}) \in Nat
    BY Finite
  <2> QED
    BY <1>2, <2>1, <2>2 DEF RunnerSide, WorkflowSide
<1> QED
  BY <1>1, <1>3, LeastOfThree DEF CapacityNow

(* A share of the queue that is rounded is a number of jobs. *)
LEMMA RoundTyped ==
  ASSUME NEW a \in Nat
  PROVE  Round(a * FreshNum, FreshDen) \in Nat
<1> DEFINE p == 2 * (a * FreshNum) + FreshDen
           q == 2 * FreshDen
<1>1. FreshNum \in Nat /\ FreshDen \in Nat \ {0}
  BY CapacityAssumption DEF ValidSharding
<1>2. a * FreshNum \in Nat
  BY <1>1
<1>3. p \in Nat /\ q \in Nat \ {0}
  BY <1>1, <1>2
<1>4. p \div q \in Nat
  <2> HIDE DEF p, q
  <2> QED
    BY <1>3
<1> QED
  BY <1>4 DEF Round

(* So is the fresh part of the queue. *)
LEMMA AdjustedTyped ==
  ASSUME NEW total \in Nat, NEW aged \in Nat
  PROVE  AdjustedFresh(total, aged) \in Nat
BY RoundTyped DEF AdjustedFresh

(* The claim of this cluster on the queue is a number of jobs. *)
LEMMA ClaimTyped ==
  ASSUME NEW total \in Nat, NEW aged \in Nat
  PROVE  Claim(total, aged) \in Nat
<1>1. ClusterCount \in Nat \ {0} /\ ClusterIndex \in Nat
  BY CapacityAssumption DEF ValidSharding
<1>2. ASSUME NEW f \in Nat
      PROVE  Slice(f, ClusterIndex) \in Nat
  <2>1. f \div ClusterCount \in Nat
    BY <1>1
  <2> QED
    BY <2>1 DEF Slice
<1>3. AdjustedFresh(total, aged) \in Nat /\ Round(total * FreshNum, FreshDen) \in Nat
  BY RoundTyped, AdjustedTyped
<1>4. Slice(AdjustedFresh(total, aged), ClusterIndex) \in Nat
  BY <1>2, <1>3
<1> QED
  BY <1>3, <1>4 DEF Claim

(* What is made of the pairs are pairs. *)
LEMMA PairsTyped ==
  ASSUME pods \in [Slots -> [Halves -> Phases]]
  PROVE  /\ \A S : Without(S, pods) \in [Slots -> [Halves -> Phases]]
         /\ \A s \in Slots, h \in Halves, p \in Phases :
               [pods EXCEPT ![s][h] = p] \in [Slots -> [Halves -> Phases]]
         /\ \A s \in Slots, h \in Halves, p \in Phases :
               [pods EXCEPT ![s] = [pods[s] EXCEPT ![h] = p]] \in [Slots -> [Halves -> Phases]]
         /\ Unused # {} => Min(Unused) \in Slots /\ Min(Unused) \in Unused
<1>1. \A S : Without(S, pods) \in [Slots -> [Halves -> Phases]]
  BY DEF Without, Phases
<1>2. \A s \in Slots, h \in Halves, p \in Phases :
         [pods EXCEPT ![s][h] = p] \in [Slots -> [Halves -> Phases]]
  OBVIOUS
<1>3. Unused # {} => Min(Unused) \in Slots /\ Min(Unused) \in Unused
  <2>1. Unused \subseteq Slots /\ Slots \subseteq Nat
    BY Finite DEF Unused, Slots
  <2> QED
    BY <2>1, LeastExists
<1>4. \A s \in Slots, h \in Halves, p \in Phases :
         [pods EXCEPT ![s] = [pods[s] EXCEPT ![h] = p]] \in [Slots -> [Halves -> Phases]]
  OBVIOUS
<1> QED
  BY <1>1, <1>2, <1>3, <1>4

(* Who writes which variable. *)
LEMMA Writers ==
  ASSUME Next
  PROVE  /\ \/ UNCHANGED <<pods, owner>>
            \/ CreateRunnerHalf \/ CreateWorkflowHalf \/ UndoRunnerHalf \/ CleanupOrphans
            \/ CleanupAll
            \/ \E s \in Slots : DeleteUnwanted(s)
            \/ \E s \in Slots : DeleteExcess(s)
            \/ \E s \in Slots, h \in Halves : PodMoves(s, h)
            \/ \E r \in Runners : RunnerMoves(r)
         /\ \/ UNCHANGED <<real, queue, synced>>
            \/ Start \/ NodeCacheSyncs \/ QueueChanges
            \/ \E r \in Runners : RunnerMoves(r)
         /\ \/ UNCHANGED <<proc, id>>
            \/ Start \/ CleanupOrphans \/ FirstReport \/ Cancel \/ CleanupAll \/ Kill
         /\ \/ UNCHANGED <<advertised, rpc, snap>>
            \/ ReportList \/ ReportSet \/ Start \/ FirstReport \/ CleanupAll \/ Kill
         /\ \/ UNCHANGED <<ppc, jobs>>
            \/ StartCycle \/ StartCycleWithoutTimeouts \/ ListPairs \/ CountRunners
            \/ CreateRunnerHalf \/ CreateWorkflowHalf \/ UndoRunnerHalf \/ EndPass
            \/ FirstReport \/ Cancel \/ Kill
            \/ \E s \in Slots : DeleteExcess(s)
         /\ \/ UNCHANGED <<healthy, idle, todo>>
            \/ StartCycle \/ ListPairs \/ CountRunners \/ CreateRunnerHalf \/ CreateWorkflowHalf
            \/ UndoRunnerHalf \/ EndPass \/ Cancel \/ Kill
            \/ \E s \in Slots : DeleteUnwanted(s)
            \/ \E s \in Slots : DeleteExcess(s)
         /\ \/ UNCHANGED <<count>>
            \/ ListPairs \/ CountRunners \/ CreateRunnerHalf \/ CreateWorkflowHalf
            \/ UndoRunnerHalf \/ EndPass \/ Cancel \/ Kill
            \/ \E s \in Slots : DeleteExcess(s)
         /\ \/ UNCHANGED <<faults, trouble>>
            \/ ReportSkipped \/ StartCycle \/ StartCycleWithoutTimeouts \/ ListPairs
            \/ CountRunners \/ CreateRunnerHalf \/ CreateWorkflowHalf \/ UndoRunnerHalf
            \/ CleanupOrphans \/ FirstReport \/ Cancel \/ CleanupAll \/ Kill
            \/ \E s \in Slots : DeleteUnwanted(s)
            \/ \E s \in Slots : DeleteExcess(s)
            \/ \E s \in Slots, h \in Halves : PodMoves(s, h)
         /\ trouble' = trouble \/ trouble' = trouble + 1
         /\ Start \/ CreateRunnerHalf \/ UNCHANGED <<id, owner>>
         /\ \/ UNCHANGED <<pods, owner, id>>
            \/ Start \/ CreateRunnerHalf \/ CreateWorkflowHalf
            \/ UndoRunnerHalf \/ CleanupOrphans \/ CleanupAll
            \/ \E s \in Slots : DeleteUnwanted(s) \/ DeleteExcess(s)
            \/ \E s \in Slots, h \in Halves : PodMoves(s, h)
            \/ \E r \in Runners : RunnerMoves(r)
         /\ \/ UNCHANGED <<ppc, todo, count, healthy>>
            \/ ppc' \in {"stopped", "idle", "timeouts"}
            \/ \E s \in Slots : DeleteUnwanted(s)
            \/ ListPairs \/ CountRunners \/ CreateRunnerHalf \/ UndoRunnerHalf
            \/ CreateWorkflowHalf \/ EndPass \/ \E s \in Slots : DeleteExcess(s)
<1> USE DEF Next, Report, Provision, Run, podVars, provVars, repVars, ReportList, ReportSet,
  ReportSkipped, Fault, StartCycle, StartCycleWithoutTimeouts, ListPairs, EndCycle, CountRunners,
  CreateRunnerHalf, CountDown, CreateWorkflowHalf, UndoRunnerHalf, EndPass, DeleteUnwanted,
  DeletePair, DeleteExcess, Start, CleanupOrphans, FirstReport, Cancel, Trouble, CleanupAll, Kill,
  NodeCacheSyncs, QueueChanges, PodMoves, PodStarts, PodLate, Cordon, PodEnds, PodBecomes,
  RunnerMoves, RunnerAppears, RunnerBinds, JobStarts, RunnerEnds, RunnerBecomes, TakePlace
<1>1. \/ UNCHANGED <<pods, owner>>
      \/ CreateRunnerHalf \/ CreateWorkflowHalf \/ UndoRunnerHalf \/ CleanupOrphans
      \/ CleanupAll
      \/ \E s \in Slots : DeleteUnwanted(s)
      \/ \E s \in Slots : DeleteExcess(s)
      \/ \E s \in Slots, h \in Halves : PodMoves(s, h)
      \/ \E r \in Runners : RunnerMoves(r)
  OBVIOUS
<1>2. \/ UNCHANGED <<real, queue, synced>>
      \/ Start \/ NodeCacheSyncs \/ QueueChanges
      \/ \E r \in Runners : RunnerMoves(r)
  OBVIOUS
<1>3. \/ UNCHANGED <<proc, id>>
      \/ Start \/ CleanupOrphans \/ FirstReport \/ Cancel \/ CleanupAll \/ Kill
  OBVIOUS
<1>4. \/ UNCHANGED <<advertised, rpc, snap>>
      \/ ReportList \/ ReportSet \/ Start \/ FirstReport \/ CleanupAll \/ Kill
  OBVIOUS
<1>5. \/ UNCHANGED <<ppc, jobs>>
      \/ StartCycle \/ StartCycleWithoutTimeouts \/ ListPairs \/ CountRunners
      \/ CreateRunnerHalf \/ CreateWorkflowHalf \/ UndoRunnerHalf \/ EndPass
      \/ FirstReport \/ Cancel \/ Kill
      \/ \E s \in Slots : DeleteExcess(s)
  OBVIOUS
<1>6. \/ UNCHANGED <<healthy, idle, todo>>
      \/ StartCycle \/ ListPairs \/ CountRunners \/ CreateRunnerHalf \/ CreateWorkflowHalf
      \/ UndoRunnerHalf \/ EndPass \/ Cancel \/ Kill
      \/ \E s \in Slots : DeleteUnwanted(s)
      \/ \E s \in Slots : DeleteExcess(s)
  OBVIOUS
<1>7. \/ UNCHANGED <<count>>
      \/ ListPairs \/ CountRunners \/ CreateRunnerHalf \/ CreateWorkflowHalf
      \/ UndoRunnerHalf \/ EndPass \/ Cancel \/ Kill
      \/ \E s \in Slots : DeleteExcess(s)
  OBVIOUS
<1>8. \/ UNCHANGED <<faults, trouble>>
      \/ ReportSkipped \/ StartCycle \/ StartCycleWithoutTimeouts \/ ListPairs
      \/ CountRunners \/ CreateRunnerHalf \/ CreateWorkflowHalf \/ UndoRunnerHalf
      \/ CleanupOrphans \/ FirstReport \/ Cancel \/ CleanupAll \/ Kill
      \/ \E s \in Slots : DeleteUnwanted(s)
      \/ \E s \in Slots : DeleteExcess(s)
      \/ \E s \in Slots, h \in Halves : PodMoves(s, h)
  OBVIOUS
<1>9. trouble' = trouble \/ trouble' = trouble + 1
  OBVIOUS
<1>10. Start \/ CreateRunnerHalf \/ UNCHANGED <<id, owner>>
  OBVIOUS
<1>11. \/ UNCHANGED <<pods, owner, id>>
       \/ Start \/ CreateRunnerHalf \/ CreateWorkflowHalf
       \/ UndoRunnerHalf \/ CleanupOrphans \/ CleanupAll
       \/ \E s \in Slots : DeleteUnwanted(s) \/ DeleteExcess(s)
       \/ \E s \in Slots, h \in Halves : PodMoves(s, h)
       \/ \E r \in Runners : RunnerMoves(r)
  OBVIOUS
<1>12. \/ UNCHANGED <<ppc, todo, count, healthy>>
       \/ ppc' \in {"stopped", "idle", "timeouts"}
       \/ \E s \in Slots : DeleteUnwanted(s)
       \/ ListPairs \/ CountRunners \/ CreateRunnerHalf \/ UndoRunnerHalf
       \/ CreateWorkflowHalf \/ EndPass \/ \E s \in Slots : DeleteExcess(s)
  OBVIOUS
<1> QED
  BY <1>1, <1>2, <1>3, <1>4, <1>5, <1>6, <1>7, <1>8, <1>9, <1>10, <1>11, <1>12

(* The pairs and their owners keep their type. *)
LEMMA PodsTyped ==
  ASSUME TypeOK, OwnerInv, CycleInv, Next
  PROVE  pods' \in [Slots -> [Halves -> Phases]] /\ owner' \in [Slots -> 0..(MaxTrouble + 1)]
<1> USE DEF podVars, provVars, repVars
<1>n. MaxSlots \in Nat \ {0} /\ {MaxQueue, MaxFaults, MaxTrouble, MaxRunners} \subseteq Nat
  BY CapacityAssumption DEF ValidCaps
<1>t. TypeOK
  OBVIOUS
<1> USE DEF TypeOK
<1>1. CASE CreateRunnerHalf
  <2>1. CASE UNCHANGED podVars
    BY <2>1
  <2>2. CASE /\ Unused # {}
             /\ pods' = [pods EXCEPT ![Min(Unused)] = RunnerPlaceholder(Min(Unused))]
             /\ owner' = [owner EXCEPT ![Min(Unused)] = id]
    <3>1. Min(Unused) \in Slots
      BY <2>2, PairsTyped
    <3>2. pods' \in [Slots -> [Halves -> Phases]]
      BY <2>2 DEF RunnerPlaceholder, Phases
    <3>3. id \in 0..(MaxTrouble + 1)
      BY <1>n
    <3> QED
      BY <2>2, <3>1, <3>2, <3>3
  <2> QED
    BY <1>1, <2>1, <2>2 DEF CreateRunnerHalf
<1>2. CASE CreateWorkflowHalf
  BY <1>2 DEF CreateWorkflowHalf, WorkflowPlaceholder, Halves, Phases
<1>3. CASE UndoRunnerHalf
  BY <1>3, PairsTyped DEF UndoRunnerHalf
<1>4. CASE \E s \in Slots : DeleteUnwanted(s)
  BY <1>4, PairsTyped DEF DeleteUnwanted, DeletePair, Fault, Without, RunnerPlaceholder,
     WorkflowPlaceholder, Halves
<1>5. CASE \E s \in Slots : DeleteExcess(s)
  BY <1>5 DEF DeleteExcess, DeletePair, Without, RunnerPlaceholder, WorkflowPlaceholder, Halves,
     Phases
<1>6. CASE CleanupOrphans
  BY <1>6, PairsTyped DEF CleanupOrphans
<1>7. CASE CleanupAll
  BY <1>7, PairsTyped DEF CleanupAll
<1>8. CASE \E s \in Slots, h \in Halves : PodMoves(s, h)
  <2>1. PICK s \in Slots, h \in Halves : PodMoves(s, h)
    BY <1>8
  <2>2. \E p \in Phases : pods' = [pods EXCEPT ![s][h] = p]
    BY <2>1 DEF PodMoves, PodStarts, PodLate, Cordon, PodEnds, PodBecomes, Phases
  <2>3. owner' = owner
    BY <2>1 DEF PodMoves, PodStarts, PodLate, Cordon, PodEnds, PodBecomes
  <2> QED
    BY <2>2, <2>3, PairsTyped
<1>9. CASE \E r \in Runners : RunnerMoves(r)
  BY <1>9, <1>t, PairsTyped DEF RunnerMoves, RunnerAppears, RunnerBinds, JobStarts, RunnerEnds,
     RunnerBecomes, TakePlace, Without, RunnerPlaceholder, WorkflowPlaceholder, Halves
<1> QED
  BY Writers, <1>1, <1>2, <1>3, <1>4, <1>5, <1>6, <1>7, <1>8, <1>9

(* The cluster and the queue keep their type. *)
LEMMA ClusterTyped ==
  ASSUME TypeOK, OwnerInv, CycleInv, Next
  PROVE  real' \in [Runners -> RealPhases] /\ queue' \in 0..MaxQueue /\ synced' \in BOOLEAN
<1> USE DEF podVars, provVars, repVars
<1>t. TypeOK
  OBVIOUS
<1> USE DEF TypeOK
<1>1. CASE Start
  BY <1>1, <1>t DEF Start, RealPhases
<1>2. CASE NodeCacheSyncs
  BY <1>2, <1>t DEF NodeCacheSyncs, RealPhases
<1>3. CASE QueueChanges
  BY <1>3, <1>t DEF QueueChanges, RealPhases
<1>4. CASE \E r \in Runners : RunnerMoves(r)
  BY <1>4 DEF RunnerMoves, RunnerAppears, RunnerBinds, JobStarts, RunnerEnds, RunnerBecomes,
     TakePlace, RealPhases
<1> QED
  BY Writers, <1>1, <1>2, <1>3, <1>4

(* The process and its id keep their type. *)
LEMMA ProcessTyped ==
  ASSUME TypeOK, OwnerInv, CycleInv, Next
  PROVE  proc' \in {"down", "orphans", "report", "up", "stopping"} /\ id' \in 1..(MaxTrouble + 1)
<1> USE DEF podVars, provVars, repVars
<1>n. MaxSlots \in Nat \ {0} /\ {MaxQueue, MaxFaults, MaxTrouble, MaxRunners} \subseteq Nat
  BY CapacityAssumption DEF ValidCaps
<1>t. TypeOK
  OBVIOUS
<1> USE DEF TypeOK
<1>1. CASE Start
  BY <1>1, <1>t, <1>n DEF Start, OwnerInv
<1>2. CASE CleanupOrphans
  BY <1>2 DEF CleanupOrphans
<1>3. CASE FirstReport
  BY <1>3 DEF FirstReport
<1>4. CASE Cancel
  BY <1>4 DEF Cancel
<1>5. CASE CleanupAll
  BY <1>5 DEF CleanupAll
<1>6. CASE Kill
  BY <1>6 DEF Kill
<1> QED
  BY Writers, <1>1, <1>2, <1>3, <1>4, <1>5, <1>6

(* The reporter keeps its type. *)
LEMMA ReportTyped ==
  ASSUME TypeOK, OwnerInv, CycleInv, Next
  PROVE  advertised' \in 0..MaxRunners /\ rpc' \in {"stopped", "idle", "set"} /\ snap' \in 0..MaxRunners
<1> USE DEF podVars, provVars, repVars
<1>n. MaxSlots \in Nat \ {0} /\ {MaxQueue, MaxFaults, MaxTrouble, MaxRunners} \subseteq Nat
  BY CapacityAssumption DEF ValidCaps
<1>t. TypeOK
  OBVIOUS
<1> USE DEF TypeOK
<1>1. CASE ReportList
  BY <1>1, <1>t, <1>n, CapacityTyped DEF ReportList
<1>2. CASE ReportSet
  BY <1>2, <1>t, <1>n, CapacityTyped DEF ReportSet
<1>3. CASE Start
  BY <1>3, <1>t, <1>n, CapacityTyped DEF Start
<1>4. CASE FirstReport
  BY <1>4, CapacityTyped DEF FirstReport
<1>5. CASE CleanupAll
  BY <1>5 DEF CleanupAll
<1>6. CASE Kill
  BY <1>6, <1>n DEF Kill
<1> QED
  BY Writers, <1>1, <1>2, <1>3, <1>4, <1>5, <1>6

(* The position of the provisioner in its cycle and the jobs it counts keep *)
(* their type.                                                              *)
LEMMA CycleTyped ==
  ASSUME TypeOK, OwnerInv, CycleInv, Next
  PROVE  /\ ppc' \in {"stopped", "idle", "timeouts", "sweep", "create", "second", "undo", "pass1", "pass2"}
         /\ jobs' \in Nat \cup {NoHud}
<1> USE DEF podVars, provVars, repVars
<1>t. TypeOK
  OBVIOUS
<1> USE DEF TypeOK
<1>1. CASE StartCycle
  BY <1>1, ClaimTyped DEF StartCycle
<1>2. CASE StartCycleWithoutTimeouts
  BY <1>2, ClaimTyped DEF StartCycleWithoutTimeouts
<1>3. CASE ListPairs
  BY <1>3, <1>t DEF ListPairs, Fault, EndCycle
<1>4. CASE CountRunners
  BY <1>4, <1>t DEF CountRunners, Fault, EndCycle
<1>5. CASE CreateRunnerHalf
  BY <1>5 DEF CreateRunnerHalf, EndCycle, CountDown
<1>6. CASE CreateWorkflowHalf
  BY <1>6 DEF CreateWorkflowHalf, EndCycle, CountDown
<1>7. CASE UndoRunnerHalf
  BY <1>7 DEF UndoRunnerHalf, EndCycle, CountDown
<1>8. CASE EndPass
  BY <1>8, <1>t DEF EndPass, EndCycle
<1>9. CASE \E s \in Slots : DeleteExcess(s)
  BY <1>9 DEF DeleteExcess, EndCycle
<1>10. CASE FirstReport
  BY <1>10, <1>t DEF FirstReport, Fault
<1>11. CASE Cancel
  BY <1>11, <1>t DEF Cancel, Trouble
<1>12. CASE Kill
  BY <1>12, <1>t DEF Kill, Trouble
<1> QED
  BY Writers, <1>1, <1>2, <1>3, <1>4, <1>5, <1>6, <1>7, <1>8, <1>9, <1>10, <1>11, <1>12

(* The lists of its cycle keep their type. *)
LEMMA ListsTyped ==
  ASSUME TypeOK, OwnerInv, CycleInv, Next
  PROVE  healthy' \subseteq Slots /\ idle' \subseteq Slots /\ todo' \subseteq Slots
<1> USE DEF podVars, provVars, repVars
<1> USE DEF TypeOK
<1>1. CASE StartCycle
  BY <1>1 DEF StartCycle, Mine
<1>2. CASE ListPairs
  BY <1>2 DEF ListPairs, EndCycle, Mine
<1>3. CASE CountRunners
  BY <1>3 DEF CountRunners, EndCycle
<1>4. CASE CreateRunnerHalf
  BY <1>4, PairsTyped DEF CreateRunnerHalf, EndCycle, CountDown, Mine
<1>5. CASE CreateWorkflowHalf
  BY <1>5 DEF CreateWorkflowHalf, EndCycle, CountDown
<1>6. CASE UndoRunnerHalf
  BY <1>6 DEF UndoRunnerHalf, EndCycle, CountDown
<1>7. CASE EndPass
  BY <1>7 DEF EndPass, EndCycle
<1>8. CASE \E s \in Slots : DeleteUnwanted(s)
  BY <1>8 DEF DeleteUnwanted
<1>9. CASE \E s \in Slots : DeleteExcess(s)
  BY <1>9 DEF DeleteExcess, EndCycle
<1>10. CASE Cancel
  BY <1>10 DEF Cancel
<1>11. CASE Kill
  BY <1>11 DEF Kill
<1> QED
  BY Writers, <1>1, <1>2, <1>3, <1>4, <1>5, <1>6, <1>7, <1>8, <1>9, <1>10, <1>11

(* So does the number of pairs it has still to create or delete. *)
LEMMA CountTyped ==
  ASSUME TypeOK, OwnerInv, CycleInv, Next
  PROVE  count' \in 0..(MaxRunners + MaxSlots)
<1> USE DEF podVars, provVars, repVars
<1>n. MaxSlots \in Nat \ {0} /\ {MaxQueue, MaxFaults, MaxTrouble, MaxRunners} \subseteq Nat
  BY CapacityAssumption DEF ValidCaps
<1>t. TypeOK
  OBVIOUS
<1> USE DEF TypeOK
<1>1. CASE ListPairs
  BY <1>1, <1>n DEF ListPairs, EndCycle
<1>2. CASE CountRunners
  <2> DEFINE have == Cardinality(healthy)
             want == Desired(jobs, Cardinality({r \in Runners : real[r] # "none"}))
  <2>1. have \in Nat /\ have <= MaxSlots
    BY Finite
  <2>2. want \in Nat /\ want <= MaxRunners
    <3>1. Cardinality({r \in Runners : real[r] # "none"}) \in Nat
      BY Finite
    <3>2. want \in Nat /\ want <= Cap
      BY <3>1, <1>t, DesiredBound
    <3> HIDE DEF want
    <3> QED
      BY <3>2, CapBounds, <1>n
  <2> QED
    BY <2>1, <2>2, <1>2, <1>n DEF CountRunners, EndCycle
<1>3. CASE CreateRunnerHalf
  BY <1>3, <1>n DEF CreateRunnerHalf, EndCycle, CountDown, CycleInv
<1>4. CASE CreateWorkflowHalf
  BY <1>4, <1>n DEF CreateWorkflowHalf, EndCycle, CountDown, CycleInv
<1>5. CASE UndoRunnerHalf
  BY <1>5, <1>n DEF UndoRunnerHalf, EndCycle, CountDown, CycleInv
<1>6. CASE EndPass
  BY <1>6, <1>n DEF EndPass, EndCycle
<1>7. CASE \E s \in Slots : DeleteExcess(s)
  BY <1>7, <1>n DEF DeleteExcess, EndCycle, CycleInv
<1>8. CASE Cancel
  BY <1>8, <1>n DEF Cancel
<1>9. CASE Kill
  BY <1>9, <1>n DEF Kill
<1> QED
  BY Writers, <1>1, <1>2, <1>3, <1>4, <1>5, <1>6, <1>7, <1>8, <1>9

(* Faults and restarts keep their bounds. *)
LEMMA TroubleTyped ==
  ASSUME TypeOK, OwnerInv, CycleInv, Next
  PROVE  faults' \in 0..MaxFaults /\ trouble' \in 0..MaxTrouble
<1> USE DEF podVars, provVars, repVars
<1>n. MaxSlots \in Nat \ {0} /\ {MaxQueue, MaxFaults, MaxTrouble, MaxRunners} \subseteq Nat
  BY CapacityAssumption DEF ValidCaps
<1>t. TypeOK
  OBVIOUS
<1> USE DEF TypeOK
<1>1. CASE ReportSkipped
  BY <1>1, <1>t, <1>n DEF ReportSkipped, Fault
<1>2. CASE StartCycle
  BY <1>2, <1>t, <1>n DEF StartCycle, Fault
<1>3. CASE StartCycleWithoutTimeouts
  BY <1>3, <1>t, <1>n DEF StartCycleWithoutTimeouts, Fault
<1>4. CASE ListPairs
  BY <1>4, <1>n DEF ListPairs, Fault
<1>5. CASE CountRunners
  BY <1>5, <1>n DEF CountRunners, Fault
<1>6. CASE CreateRunnerHalf
  BY <1>6, <1>n DEF CreateRunnerHalf, Fault
<1>7. CASE CreateWorkflowHalf
  BY <1>7, <1>n DEF CreateWorkflowHalf, Fault
<1>8. CASE UndoRunnerHalf
  BY <1>8, <1>n DEF UndoRunnerHalf, Fault
<1>9. CASE \E s \in Slots : DeleteUnwanted(s)
  BY <1>9, <1>n DEF DeleteUnwanted, DeletePair, Fault
<1>10. CASE \E s \in Slots : DeleteExcess(s)
  BY <1>10, <1>n DEF DeleteExcess, DeletePair, Fault
<1>11. CASE CleanupOrphans
  BY <1>11, <1>t, <1>n DEF CleanupOrphans, Fault
<1>12. CASE FirstReport
  BY <1>12, <1>t, <1>n DEF FirstReport, Fault
<1>13. CASE Cancel
  BY <1>13, <1>t, <1>n DEF Cancel, Trouble
<1>14. CASE CleanupAll
  BY <1>14, <1>t, <1>n DEF CleanupAll, Fault
<1>15. CASE Kill
  BY <1>15, <1>t, <1>n DEF Kill, Trouble
<1>16. CASE \E s \in Slots, h \in Halves : PodMoves(s, h)
  BY <1>16, <1>n DEF PodMoves, PodStarts, PodLate, Cordon, PodEnds, PodBecomes, Trouble
<1> QED
  BY <1>t, Writers, <1>1, <1>2, <1>3, <1>4, <1>5, <1>6, <1>7, <1>8, <1>9, <1>10, <1>11, <1>12, <1>13,
     <1>14, <1>15, <1>16

(* Every variable keeps its type. *)
LEMMA TypeStep ==
  ASSUME TypeOK, OwnerInv, CycleInv, Next
  PROVE  TypeOK'
  BY PodsTyped, ClusterTyped, ProcessTyped, ReportTyped, CycleTyped, ListsTyped, CountTyped,
     TroubleTyped DEF TypeOK

(* Every step keeps OwnerInv. *)
LEMMA OwnerStep ==
  ASSUME TypeOK, OwnerInv, Next
  PROVE  OwnerInv'
<1> USE DEF podVars, provVars, repVars
<1>1. /\ \A s \in Slots : owner[s] \in Nat /\ owner[s] <= id
      /\ id \in Nat /\ trouble \in Nat /\ id <= trouble + 1
      /\ DOMAIN owner = Slots /\ pods \in [Slots -> [Halves -> Phases]]
  BY CapacityAssumption DEF TypeOK, OwnerInv
<1>2. trouble' = trouble \/ trouble' = trouble + 1
  BY Writers
<1>3. CASE Start
  <2>1. /\ owner' = owner /\ trouble' = trouble
        /\ id' = id \/ id' = trouble + 1
    BY <1>3 DEF Start
  <2> QED
    BY <1>1, <2>1 DEF OwnerInv
<1>4. CASE UNCHANGED <<id, owner>>
  <2>1. id <= trouble' + 1
    <3>1. CASE trouble' = trouble
      BY <1>1, <3>1
    <3>2. CASE trouble' = trouble + 1
      BY <1>1, <3>2
    <3> QED
      BY <1>2, <3>1, <3>2
  <2> QED
    BY <1>1, <1>4, <2>1 DEF OwnerInv
<1>5. CASE CreateRunnerHalf
  <2>1. UNCHANGED <<id, trouble>>
    BY <1>5 DEF CreateRunnerHalf
  <2>2. owner' = owner \/ (Min(Unused) \in Slots /\ owner' = [owner EXCEPT ![Min(Unused)] = id])
    BY <1>1, <1>5, PairsTyped DEF CreateRunnerHalf
  <2> QED
    BY <1>1, <2>1, <2>2 DEF OwnerInv
<1>6. Start \/ CreateRunnerHalf \/ UNCHANGED <<id, owner>>
  BY Writers
<1> QED
  BY <1>3, <1>4, <1>5, <1>6

(* A pair becomes whole by the second of the two creates of a cycle, and by *)
(* nothing else.                                                            *)
LEMMA WholeShrinks ==
  ASSUME TypeOK, OwnerInv, Next
  PROVE  Whole' \subseteq Whole \/ (ppc = "second" /\ CreateWorkflowHalf /\ Whole' \subseteq Whole \cup todo)
<1> USE DEF podVars, provVars, repVars
<1>t. /\ pods \in [Slots -> [Halves -> Phases]] /\ owner \in [Slots -> Nat]
      /\ id \in Nat /\ trouble \in Nat /\ id <= trouble + 1
      /\ \A s \in Slots : owner[s] <= id
  BY CapacityAssumption DEF TypeOK, OwnerInv
<1>w. Whole = {s \in Slots : owner[s] = id /\ \A h \in Halves : pods[s][h] \notin {"none", "done"}}
  BY DEF Whole, Mine, Broken, Terminal, Has, Halves
<1>x. Whole' = {s \in Slots : owner'[s] = id' /\ \A h \in Halves : pods'[s][h] \notin {"none", "done"}}
  BY DEF Whole, Mine, Broken, Terminal, Has, Halves
<1>s. ASSUME UNCHANGED <<owner, id>>,
             \A s \in Slots, h \in Halves : pods'[s][h] \notin {"none", "done"} => pods[s][h] \notin {"none", "done"}
      PROVE  Whole' \subseteq Whole
  BY <1>s, <1>w, <1>x
<1>e. ASSUME UNCHANGED <<owner, id>>,
             NEW s \in Slots, NEW h \in Halves, NEW p,
             pods' = [pods EXCEPT ![s][h] = p],
             p \in {"none", "done"} \/ pods[s][h] \notin {"none", "done"}
      PROVE  Whole' \subseteq Whole
  <2>1. \A t \in Slots, g \in Halves : pods'[t][g] = IF t = s /\ g = h THEN p ELSE pods[t][g]
    BY <1>e, <1>t
  <2> QED
    BY <1>e, <1>s, <2>1
<1>d. ASSUME UNCHANGED <<owner, id>>, NEW S, pods' = Without(S, pods)
      PROVE  Whole' \subseteq Whole
  <2>1. \A s \in Slots, h \in Halves : pods'[s][h] \in {"none", pods[s][h]}
    BY <1>d, <1>t DEF Without
  <2> QED
    BY <1>d, <1>s, <2>1
<1>1. CASE UNCHANGED <<pods, owner, id>>
  BY <1>1, <1>s
<1>2. CASE Start
  <2>1. /\ UNCHANGED <<pods, owner>>
        /\ id' = id \/ id' = trouble + 1
    BY <1>2 DEF Start
  <2>2. id' # id => \A s \in Slots : owner[s] # id'
    BY <1>t, <2>1
  <2> QED
    BY <1>w, <1>x, <2>1, <2>2
<1>3. CASE CreateRunnerHalf
  <2>1. CASE UNCHANGED <<pods, owner, id>>
    BY <2>1, <1>1
  <2>2. CASE /\ Unused # {} /\ id' = id
             /\ pods' = [pods EXCEPT ![Min(Unused)] = RunnerPlaceholder(Min(Unused))]
             /\ owner' = [owner EXCEPT ![Min(Unused)] = id]
    <3>1. Min(Unused) \in Slots /\ Min(Unused) \in Unused
      BY <1>t, <2>2, PairsTyped
    <3>2. pods[Min(Unused)]["workflow"] = "none"
      BY <3>1 DEF Unused, Has, Halves
    <3>3. pods'[Min(Unused)]["workflow"] = "none"
      BY <2>2, <3>2 DEF RunnerPlaceholder
    <3>4. \A s \in Slots \ {Min(Unused)} : pods'[s] = pods[s] /\ owner'[s] = owner[s]
      BY <1>t, <2>2
    <3>5. Min(Unused) \notin Whole'
      BY <1>x, <3>3 DEF Halves
    <3> QED
      BY <1>w, <1>x, <2>2, <3>4, <3>5
  <2> QED
    BY <1>3, <2>1, <2>2 DEF CreateRunnerHalf
<1>4. CASE CreateWorkflowHalf
  <2>1. ppc = "second" /\ UNCHANGED <<owner, id>>
    BY <1>4 DEF CreateWorkflowHalf
  <2>2. \A s \in Slots : s \in todo \/ pods'[s] = pods[s]
    BY <1>4, <1>t DEF CreateWorkflowHalf
  <2> QED
    BY <1>4, <1>w, <1>x, <2>1, <2>2
<1>5. CASE UndoRunnerHalf \/ CleanupOrphans \/ CleanupAll
  <2>1. UNCHANGED <<owner, id>> /\ (pods' = pods \/ \E S : pods' = Without(S, pods))
    BY <1>5 DEF UndoRunnerHalf, CleanupOrphans, CleanupAll
  <2> QED
    BY <1>1, <1>d, <2>1
<1>6. ASSUME NEW s \in Slots, NEW ok, DeletePair(s, ok), UNCHANGED <<owner, id>>
      PROVE  Whole' \subseteq Whole
  <2>1. CASE pods' = Without({s}, pods)
    BY <1>6, <1>d, <2>1
  <2>2. CASE \E h \in Halves : pods' = [pods EXCEPT ![s][h] = "none"]
    BY <1>6, <1>e, <2>2
  <2>3. CASE UNCHANGED pods
    BY <1>6, <1>s, <2>3
  <2> QED
    BY <1>6, <2>1, <2>2, <2>3 DEF DeletePair
<1>7. CASE \E s \in Slots : DeleteUnwanted(s) \/ DeleteExcess(s)
  BY <1>6, <1>7 DEF DeleteUnwanted, DeleteExcess
<1>8. CASE \E s \in Slots, h \in Halves : PodMoves(s, h)
  <2>1. PICK s \in Slots, h \in Halves : PodMoves(s, h)
    BY <1>8
  <2>2. /\ UNCHANGED <<owner, id>> /\ pods[s][h] \notin {"none", "done"}
        /\ \E p : pods' = [pods EXCEPT ![s][h] = p]
    BY <2>1 DEF PodMoves, PodStarts, PodLate, Cordon, PodEnds, PodBecomes
  <2> QED
    BY <1>e, <2>2
<1>9. CASE \E r \in Runners : RunnerMoves(r)
  <2>1. /\ UNCHANGED <<owner, id>>
        /\ \/ UNCHANGED pods
           \/ \E s \in Slots, h \in Halves : pods' = [pods EXCEPT ![s][h] = "none"]
    BY <1>9 DEF RunnerMoves, RunnerAppears, RunnerBinds, JobStarts, RunnerEnds, RunnerBecomes,
       TakePlace, Halves
  <2> QED
    BY <1>1, <1>e, <2>1
<1>10. \/ UNCHANGED <<pods, owner, id>>
       \/ Start \/ CreateRunnerHalf \/ CreateWorkflowHalf
       \/ UndoRunnerHalf \/ CleanupOrphans \/ CleanupAll
       \/ \E s \in Slots : DeleteUnwanted(s) \/ DeleteExcess(s)
       \/ \E s \in Slots, h \in Halves : PodMoves(s, h)
       \/ \E r \in Runners : RunnerMoves(r)
  BY Writers
<1> QED
  BY <1>1, <1>2, <1>3, <1>4, <1>5, <1>7, <1>8, <1>9, <1>10

(* Every step keeps the count of the cycle, and the cap. *)
LEMMA CycleStep ==
  ASSUME IInv, Next
  PROVE  CycleInv' /\ Cardinality(Whole') <= Cap
<1> USE DEF podVars, provVars, repVars
<1>i. /\ TypeOK /\ OwnerInv /\ CycleInv
      /\ Whole \subseteq Slots /\ Whole' \subseteq Slots
      /\ count \in Nat /\ healthy \subseteq Slots /\ jobs \in Nat \cup {NoHud}
      /\ pods \in [Slots -> [Halves -> Phases]]
  BY DEF IInv, TypeOK, Whole, Mine
<1>n. /\ Cap \in Nat /\ Cardinality(Whole) \in Nat /\ Cardinality(Whole') \in Nat
      /\ Cardinality(Whole) <= Cap
  BY <1>i, Finite, CapBounds DEF IInv, CapRespected, Cap
<1>g. ASSUME NEW s, Whole' \subseteq Whole \cup {s}
      PROVE  Cardinality(Whole') <= Cardinality(Whole) + 1
  <2>1. IsFiniteSet(Whole)
    BY <1>i, Finite
  <2>2. IsFiniteSet(Whole \cup {s}) /\ Cardinality(Whole \cup {s}) <= Cardinality(Whole) + 1
    BY <2>1, <1>n, FS_AddElement
  <2>3. Cardinality(Whole') <= Cardinality(Whole \cup {s}) /\ Cardinality(Whole \cup {s}) \in Nat
    BY <1>g, <2>2, FS_Subset, FS_CardinalityType
  <2> QED
    BY <1>n, <2>2, <2>3
<1>s. Whole' \subseteq Whole => Cardinality(Whole') <= Cardinality(Whole)
  BY <1>i, Finite, FS_Subset
<1>w. Whole' \subseteq Whole \/ (ppc = "second" /\ CreateWorkflowHalf /\ Whole' \subseteq Whole \cup todo)
  BY <1>i, WholeShrinks
<1>k. /\ ppc = "sweep" => Whole \subseteq healthy
      /\ ppc \in {"second", "undo"} => \E s \in Slots : todo = {s}
      /\ ppc \in {"create", "second", "undo", "pass1", "pass2"} => count >= 1
      /\ ppc \in {"create", "second", "undo"} => Cardinality(Whole) + count <= Cap
  BY <1>i DEF CycleInv
<1>1. CASE CreateWorkflowHalf
  <2>1. ppc = "second" /\ \E s \in Slots : todo = {s}
    BY <1>1, <1>k DEF CreateWorkflowHalf
  <2>2. Whole' \subseteq Whole \cup todo
    BY <1>w
  <2>3. Cardinality(Whole') <= Cardinality(Whole) + 1
    BY <1>g, <2>1, <2>2
  <2>4. CASE CountDown("create")
    BY <1>n, <1>i, <2>1, <2>3, <2>4 DEF CountDown, EndCycle, CycleInv
  <2>5. CASE ppc' = "undo" /\ UNCHANGED <<pods, todo, count>>
    <3>1. UNCHANGED <<owner, id>>
      BY <1>1 DEF CreateWorkflowHalf
    <3>2. Whole' = Whole
      BY <2>5, <3>1 DEF Whole, Mine, Broken, Terminal, Has
    <3> QED
      BY <1>k, <1>n, <2>1, <2>5, <3>2 DEF CycleInv
  <2> QED
    BY <1>1, <2>4, <2>5 DEF CreateWorkflowHalf
<1>2. CASE ~CreateWorkflowHalf
  <2>0. /\ Whole' \subseteq Whole /\ Cardinality(Whole') <= Cardinality(Whole)
        /\ Cardinality(Whole') <= Cap
    BY <1>2, <1>w, <1>s, <1>n
  <2>1. CASE UNCHANGED <<ppc, todo, count, healthy>>
    BY <1>n, <1>i, <2>0, <2>1 DEF CycleInv
  <2>2. CASE ppc' \in {"stopped", "idle", "timeouts"}
    BY <2>0, <2>2 DEF CycleInv
  <2>3. CASE \E s \in Slots : DeleteUnwanted(s)
    BY <1>k, <2>0, <2>3 DEF DeleteUnwanted, CycleInv
  <2>4. CASE ListPairs /\ ppc' # "idle"
    <3>1. ppc' = "sweep" /\ healthy' = Mine \ {s \in Mine : Unwanted(s)}
      BY <2>4 DEF ListPairs, EndCycle
    <3>2. Whole \subseteq healthy'
      BY <3>1 DEF Whole, Unwanted
    <3> QED
      BY <2>0, <3>1, <3>2 DEF CycleInv
  <2>5. CASE CountRunners /\ ppc' # "idle"
    <3> DEFINE have == Cardinality(healthy)
               want == Desired(jobs, Cardinality({r \in Runners : real[r] # "none"}))
    <3>1. have \in Nat /\ Cardinality(Whole') <= have
      <4>1. Whole' \subseteq healthy /\ IsFiniteSet(healthy)
        BY <1>i, <1>k, <2>0, <2>5, Finite DEF CountRunners
      <4> QED
        BY <1>i, <4>1, Finite, FS_Subset
    <3>2. want \in Nat /\ want <= Cap
      <4>1. Cardinality({r \in Runners : real[r] # "none"}) \in Nat
        BY Finite
      <4> QED
        BY <4>1, <1>i, DesiredBound
    <3>3. \/ have < want /\ ppc' = "create" /\ count' = want - have
          \/ want < have /\ ppc' = "pass1" /\ count' = have - want
      <4>1. /\ have # want
            /\ ppc' = IF have < want THEN "create" ELSE "pass1"
            /\ count' = IF have < want THEN want - have ELSE have - want
        BY <2>5 DEF CountRunners, EndCycle
      <4> HIDE DEF have, want
      <4> QED
        BY <3>1, <3>2, <4>1
    <3> HIDE DEF have, want
    <3> QED
      BY <1>n, <2>0, <3>1, <3>2, <3>3 DEF CycleInv
  <2>6. CASE CreateRunnerHalf /\ ppc' # "idle"
    <3>1. ppc = "create"
      BY <2>6 DEF CreateRunnerHalf
    <3>2. CASE ppc' = "second" /\ todo' = {Min(Unused)} /\ count' = count /\ Unused # {}
      <4>1. Min(Unused) \in Slots
        BY <1>i, <3>2, PairsTyped
      <4> QED
        BY <1>i, <1>n, <2>0, <3>1, <3>2, <4>1 DEF CycleInv
    <3>3. CASE CountDown("create")
      BY <1>i, <1>n, <2>0, <3>1, <3>3 DEF CycleInv, CountDown, EndCycle
    <3> QED
      BY <2>6, <3>2, <3>3 DEF CreateRunnerHalf
  <2>7. CASE UndoRunnerHalf /\ ppc' # "idle"
    BY <1>i, <1>n, <2>0, <2>7 DEF UndoRunnerHalf, CycleInv, CountDown, EndCycle
  <2>8. CASE (EndPass \/ \E s \in Slots : DeleteExcess(s)) /\ ppc' # "idle"
    <3>1. ppc \in {"pass1", "pass2"} /\ ppc' \in {"pass1", "pass2"}
      BY <2>8 DEF EndPass, EndCycle, DeleteExcess
    <3>2. count' = count \/ (count' = count - 1 /\ count # 1)
      BY <2>8 DEF EndPass, EndCycle, DeleteExcess
    <3> QED
      BY <1>i, <2>0, <3>1, <3>2 DEF CycleInv
  <2>9. \/ UNCHANGED <<ppc, todo, count, healthy>>
        \/ ppc' \in {"stopped", "idle", "timeouts"}
        \/ \E s \in Slots : DeleteUnwanted(s)
        \/ ListPairs \/ CountRunners \/ CreateRunnerHalf \/ UndoRunnerHalf
        \/ EndPass \/ \E s \in Slots : DeleteExcess(s)
    BY <1>2, Writers
  <2> QED
    BY <2>1, <2>2, <2>3, <2>4, <2>5, <2>6, <2>7, <2>8, <2>9
<1> QED
  BY <1>1, <1>2

(* The invariant holds in the beginning. *)
LEMMA InitInv == Init => IInv
<1> SUFFICES ASSUME Init PROVE IInv
  OBVIOUS
<1>1. /\ MaxSlots \in Nat \ {0} /\ {MaxQueue, MaxFaults, MaxTrouble, MaxRunners} \subseteq Nat
  BY CapacityAssumption DEF ValidCaps
<1>2. pods \in [Slots -> [Halves -> Phases]]
  BY DEF Init, Phases
<1>3. owner \in [Slots -> 0..(MaxTrouble + 1)] /\ id \in 1..(MaxTrouble + 1)
  BY <1>1 DEF Init
<1>4. /\ real \in [Runners -> RealPhases] /\ queue \in 0..MaxQueue
      /\ 0 \in 0..MaxRunners /\ 0 \in 0..MaxFaults /\ 0 \in 0..MaxTrouble /\ 0 \in 0..(MaxRunners + MaxSlots)
  BY <1>1 DEF Init, RealPhases
<1>5. TypeOK
  BY <1>2, <1>3, <1>4 DEF Init, TypeOK
<1>6. OwnerInv
  BY DEF Init, OwnerInv
<1>7. CycleInv
  BY DEF Init, CycleInv
<1>8. CapRespected
  <2>1. Whole = {}
    BY DEF Init, Whole, Mine, Has
  <2> QED
    BY <2>1, FS_EmptySet, CapBounds DEF CapRespected, Cap
<1> QED
  BY <1>5, <1>6, <1>7, <1>8 DEF IInv

(* Every step keeps the invariant. *)
LEMMA NextInv ==
  ASSUME IInv, [Next]_vars
  PROVE  IInv'
<1>1. CASE Next
  <2>1. TypeOK' /\ OwnerInv'
    BY <1>1, TypeStep, OwnerStep DEF IInv
  <2>2. CycleInv' /\ CapRespected'
    BY <1>1, CycleStep DEF CapRespected, Cap
  <2> QED
    BY <2>1, <2>2 DEF IInv
<1>2. CASE UNCHANGED vars
  BY <1>2 DEF IInv, vars, TypeOK, OwnerInv, CycleInv, CapRespected, Whole, Mine, Broken, Terminal, Has
<1> QED
  BY <1>1, <1>2

(* Theorem: the invariant is inductive. A cycle of the provisioner that     *)
(* began within the cap stays within it, whatever fails and whatever        *)
(* happens to the pairs between its calls.                                  *)
THEOREM CapacityInvariant == Spec => []IInv
  BY InitInv, NextInv, PTL DEF Spec

(* Theorem: the pairs of a listener never exceed the cap on runners or on   *)
(* bursts (reconcileProvisioning, computeDesiredPairs), for all caps,       *)
(* queues and faults.                                                       *)
THEOREM CapacityConsistent == Spec => []Consistent
<1>1. IInv => Consistent
  BY DEF IInv, Consistent
<1> QED
  BY <1>1, CapacityInvariant, PTL
-----------------------------------------------------------------------------
(* Induction, with the set of those a claim holds for in the place of the claim. *)
LEMMA SetInduction ==
  ASSUME NEW S \in SUBSET Nat, 0 \in S, \A n \in S : n + 1 \in S
  PROVE  S = Nat
<1> DEFINE T == Nat \ S
<1>1. ASSUME T # {} PROVE FALSE
  <2>1. T \subseteq Nat
    OBVIOUS
  <2>2. PICK m \in T : \A n \in T : ~(<<n, m>> \in OpToRel(<, Nat))
    <3> HIDE DEF T
    <3> QED
      BY <1>1, <2>1, NatLessThanWellFounded, WFMin
  <2>3. m \in Nat /\ m # 0 /\ m - 1 \in Nat /\ m - 1 < m /\ (m - 1) + 1 = m
    OBVIOUS
  <2>4. <<m - 1, m>> \in OpToRel(<, Nat)
    BY <2>3 DEF OpToRel
  <2>5. m - 1 \in S
    BY <2>2, <2>3, <2>4
  <2> QED
    BY <2>3, <2>5
<1> QED
  BY <1>1

(* Quotient and remainder, as reconcileProvisioning takes them. *)
LEMMA DivisionFacts ==
  ASSUME NEW a \in Nat, NEW b \in Nat \ {0}
  PROVE  a \div b \in Nat /\ a % b \in 0..(b - 1) /\ a = (a \div b) * b + (a % b)
<1>1. a \in Int /\ b \in Int /\ b > 0
  OBVIOUS
<1>2. a = (a \div b) * b + (a % b)
  BY <1>1, Z3
<1>3. a \div b \in Nat /\ a % b \in 0..(b - 1)
  OBVIOUS
<1> QED
  BY <1>2, <1>3

(* One of the jobs that are left over *)
Extra(i, r) == IF i < r THEN 1 ELSE 0

(* The jobs that a set of peers takes, of a queue with quotient q and remainder r *)
Share(s, q, r) == q * Cardinality(s) + Cardinality({i \in s : i < r})

(* A peer adds its part to what the others take. *)
OneMore(s, x, q, r) == Share(s, q, r) = (q + Extra(x, r)) + Share(s \ {x}, q, r)

(* The part of a peer can be told from that of the others. *)
LEMMA ShareFacts ==
  ASSUME NEW s, IsFiniteSet(s), NEW x \in s, NEW q \in Nat, NEW r \in Nat
  PROVE  /\ OneMore(s, x, q, r)
         /\ Cardinality(s) \in Nat \ {0} /\ Cardinality(s \ {x}) = Cardinality(s) - 1
<1> DEFINE below(t) == {i \in t : i < r}
<1>1. IsFiniteSet(s) /\ IsFiniteSet(below(s)) /\ IsFiniteSet(s \ {x})
  <2>1. below(s) \in SUBSET s /\ s \ {x} \in SUBSET s
    OBVIOUS
  <2> HIDE DEF below
  <2> QED
    BY <2>1, FS_Subset
<1>2. Cardinality(s \ {x}) = Cardinality(s) - 1 /\ Cardinality(s) \in Nat /\ Cardinality(s \ {x}) \in Nat
  BY <1>1, FS_RemoveElement, FS_CardinalityType
<1>3. Cardinality(below(s \ {x})) = (IF x < r THEN Cardinality(below(s)) - 1 ELSE Cardinality(below(s)))
  <2>1. below(s \ {x}) = below(s) \ {x} /\ (x \in below(s) <=> x < r)
    OBVIOUS
  <2> HIDE DEF below
  <2> QED
    BY <1>1, <2>1, FS_RemoveElement
<1>4. Cardinality(below(s)) \in Nat
  BY <1>1, FS_CardinalityType
<1>5. q * Cardinality(s) = q * Cardinality(s \ {x}) + q
  BY <1>2
<1>6. Share(s, q, r) = q * Cardinality(s) + Cardinality(below(s)) /\ Share(s \ {x}, q, r) = q * Cardinality(s \ {x}) + Cardinality(below(s \ {x}))
  BY DEF Share
<1> DEFINE a == q * Cardinality(s)
           b == q * Cardinality(s \ {x})
<1>7. a = b + q /\ a \in Nat /\ b \in Nat
  BY <1>2, <1>5
<1>9. Share(s, q, r) = (q + Extra(x, r)) + Share(s \ {x}, q, r)
  <2>1. Share(s, q, r) = a + Cardinality(below(s)) /\ Share(s \ {x}, q, r) = b + Cardinality(below(s \ {x}))
    BY <1>6
  <2> HIDE DEF a, b, below
  <2> QED
    BY <1>3, <1>4, <1>7, <2>1 DEF Extra
<1>8. Cardinality(s) # 0
  BY <1>2
<1> QED
  BY <1>2, <1>8, <1>9 DEF OneMore

(* MapThenSumSet takes the peers in some order that is not known: whichever it  *)
(* is, the parts of those that it has taken add up to their share.              *)
LEMMA SumIsShare ==
  ASSUME NEW n \in Nat, NEW q \in Nat, NEW r \in Nat
  PROVE  MapThenSumSet(LAMBDA i : q + Extra(i, r), 0..n) = Share(0..n, q, r)
<1> DEFINE S == 0..n
           one(s) == CHOOSE x \in s : TRUE
           Body(f) == [s \in SUBSET S |-> IF s = {} THEN 0
                                          ELSE (q + Extra(one(s), r)) + f[s \ {one(s)}]]
           g == [s \in SUBSET S |-> Share(s, q, r)]
           f == CHOOSE f : f = Body(f)
<1>0. \A s \in SUBSET S : IsFiniteSet(s)
  <2>1. IsFiniteSet(S)
    BY FS_Interval
  <2> HIDE DEF S
  <2> QED
    BY <2>1, FS_Subset
<1>1. Share({}, q, r) = 0
  <2>1. {i \in {} : i < r} = {}
    OBVIOUS
  <2>2. Cardinality({}) = 0
    BY FS_EmptySet
  <2> QED
    BY <2>1, <2>2 DEF Share
<1>2. \A s \in SUBSET S : s # {} => one(s) \in s
  OBVIOUS
<1>3. \A s \in SUBSET S : s # {} => Share(s, q, r) = (q + Extra(one(s), r)) + Share(s \ {one(s)}, q, r)
  <2> SUFFICES ASSUME NEW s \in SUBSET S, s # {}
               PROVE  Share(s, q, r) = (q + Extra(one(s), r)) + Share(s \ {one(s)}, q, r)
    OBVIOUS
  <2> DEFINE x == one(s)
  <2>1. x \in s
    BY <1>2
  <2>0. IsFiniteSet(s)
    BY <1>0
  <2> HIDE DEF x, S, one, Body, f, g
  <2>2. OneMore(s, x, q, r)
    BY <2>0, <2>1, ShareFacts
  <2> QED
    BY <2>2 DEF x, OneMore
<1>4. g = Body(g)
  <2>1. \A s \in SUBSET S : s \ {one(s)} \in SUBSET S
    OBVIOUS
  <2> HIDE DEF one, S
  <2> QED
    BY <1>1, <1>3, <2>1
<1>5. f = Body(f)
  <2> HIDE DEF Body
  <2> QED
    BY <1>4
<1> HIDE DEF f, one
<1>6. \A s \in SUBSET S : f[s] = IF s = {} THEN 0 ELSE (q + Extra(one(s), r)) + f[s \ {one(s)}]
  <2> HIDE DEF S
  <2> QED
    BY <1>5
<1> DEFINE T == {m \in Nat : \A s \in SUBSET S : Cardinality(s) = m => f[s] = Share(s, q, r)}
<1>7. 0 \in T
  <2>1. \A s \in SUBSET S : Cardinality(s) = 0 => s = {}
    BY <1>0, FS_EmptySet
  <2> HIDE DEF S
  <2> QED
    BY <1>1, <1>6, <2>1
<1>8. \A m \in T : m + 1 \in T
  <2> SUFFICES ASSUME NEW m \in T, NEW s \in SUBSET S, Cardinality(s) = m + 1 PROVE f[s] = Share(s, q, r)
    OBVIOUS
  <2>1. s # {}
    BY FS_EmptySet
  <2>2. one(s) \in s /\ s \ {one(s)} \in SUBSET S
    BY <1>2, <2>1
  <2>3. Cardinality(s \ {one(s)}) = m
    <3> DEFINE x == one(s)
    <3>1. x \in s /\ m \in Nat /\ IsFiniteSet(s)
      BY <1>0, <2>2
    <3> HIDE DEF x
    <3>2. Cardinality(s \ {x}) = Cardinality(s) - 1
      BY <3>1, ShareFacts
    <3> QED
      BY <3>1, <3>2 DEF x
  <2>4. f[s \ {one(s)}] = Share(s \ {one(s)}, q, r)
    BY <2>2, <2>3
  <2> QED
    BY <1>3, <1>6, <2>1, <2>4
<1>9. T = Nat
  <2> HIDE DEF T
  <2> T \in SUBSET Nat BY DEF T
  <2> QED
    BY <1>7, <1>8, SetInduction
<1>10. f[S] = Share(S, q, r)
  <2>1. Cardinality(S) \in Nat
    BY FS_Interval, FS_CardinalityType
  <2>2. Cardinality(S) \in T
    <3> HIDE DEF T, S
    <3> QED
      BY <1>9, <2>1
  <2> HIDE DEF S
  <2> QED
    BY <2>2
<1>11. MapThenSumSet(LAMBDA i : q + Extra(i, r), S) = f[S]
  <2> HIDE DEF S
  <2> QED
    BY DEF MapThenSumSet, MapThenFoldSet, f, one
<1> QED
  BY <1>10, <1>11

(* The slices of all peers add up to the queue. *)
LEMMA SlicesAddUp ==
  ASSUME NEW fresh \in Nat
  PROVE  MapThenSumSet(LAMBDA i : Slice(fresh, i), 0..(ClusterCount - 1)) = fresh
<1> DEFINE c == ClusterCount
           q == fresh \div c
           r == fresh % c
<1>1. c \in Nat \ {0} /\ c - 1 \in Nat
  BY CapacityAssumption DEF ValidSharding
<1>2. q \in Nat /\ r \in 0..(c - 1) /\ fresh = q * c + r
  BY <1>1, DivisionFacts
<1>3. MapThenSumSet(LAMBDA i : Slice(fresh, i), 0..(c - 1)) = MapThenSumSet(LAMBDA i : q + Extra(i, r), 0..(c - 1))
  BY DEF Slice, Extra
<1> HIDE DEF q, r
<1>4. MapThenSumSet(LAMBDA i : q + Extra(i, r), 0..(c - 1)) = Share(0..(c - 1), q, r)
  <2> DEFINE n == c - 1
  <2>1. n \in Nat /\ r \in Nat
    BY <1>1, <1>2
  <2> HIDE DEF n, c
  <2>2. MapThenSumSet(LAMBDA i : q + Extra(i, r), 0..n) = Share(0..n, q, r)
    BY <1>2, <2>1, SumIsShare
  <2> QED
    BY <2>2 DEF n
<1>5. Cardinality(0..(c - 1)) = c
  BY <1>1, FS_Interval
<1>6. Cardinality({i \in 0..(c - 1) : i < r}) = r
  <2>1. {i \in 0..(c - 1) : i < r} = 0..(r - 1)
    BY <1>1, <1>2
  <2>2. Cardinality(0..(r - 1)) = r
    BY <1>2, FS_Interval
  <2> QED
    BY <2>1, <2>2
<1>7. Share(0..(c - 1), q, r) = q * c + r
  BY <1>5, <1>6 DEF Share
<1> QED
  BY <1>2, <1>3, <1>4, <1>7

(* Theorem: the peers' slices of the fresh queue add up to the fresh queue, for  *)
(* every number of clusters, every queue and every growth factor.               *)
THEOREM CapacitySlicesCoverQueue == Spec => []SlicesCoverQueue
<1>1. IInv => SlicesCoverQueue
  <2> SUFFICES ASSUME IInv, NEW aged \in 0..MaxQueue, NEW n \in queue..(queue + 2 * ClusterCount)
               PROVE  MapThenSumSet(LAMBDA i : Slice(AdjustedFresh(n, aged), i), 0..(ClusterCount - 1)) = AdjustedFresh(n, aged)
    BY DEF SlicesCoverQueue
  <2>1. n \in Nat /\ aged \in Nat
    BY CapacityAssumption DEF IInv, TypeOK, ValidSharding
  <2> QED
    BY <2>1, AdjustedTyped, SlicesAddUp
<1> QED
  BY <1>1, CapacityInvariant, PTL
=============================================================================
