--------------------------- MODULE ScaleSetProofs ---------------------------
(***************************************************************************)
(* Theorems about Scaler and about ScaleSet, which composes it with the     *)
(* controller, for all limits, all numbers of jobs, all sets of runner      *)
(* names, all bounds and the real wrap of patchSeq.                         *)
(***************************************************************************)
EXTENDS ScaleSet, FiniteSetTheorems, TLAPS

-----------------------------------------------------------------------------
(***************************************************************************)
(* The scaler                                                              *)
(***************************************************************************)

ScalerInv == ScalerTypeOK /\ SpecInLimits

(* The target stays within the limits. *)
LEMMA TargetInLimits ==
  ASSUME NEW asked \in Nat
  PROVE  Target(asked) \in MinRunners..MaxRunners
BY ScalerAssumption DEF Target

(* The values a patch carries, in terms of the state before it. *)
LEMMA PatchIDValues ==
  ASSUME ScalerTypeOK, NEW asked \in 0..MaxCount
  PROVE  /\ NextSeq \in 0..MaxSeq
         /\ NextSeq # patchSeq
         /\ PatchID(asked) \in {0, NextSeq}
BY ScalerAssumption DEF ScalerTypeOK, NextSeq, PatchID

(* The scaler starts within its types and limits. *)
LEMMA ScalerInvInit == ScalerInit => ScalerInv
<1> SUFFICES ASSUME ScalerInit PROVE ScalerInv
  OBVIOUS
<1>1. spec = [replicas |-> 0, patchID |-> 0] /\ spec = InitialSpec
  BY DEF ScalerInit, InitialSpec
<1>2. targetRunners = -1 /\ patchSeq = -1 /\ dirty = FALSE
  BY DEF ScalerInit, NewScaler
<1>3. spec \in [replicas : Nat, patchID : 0..MaxSeq]
  BY <1>1, ScalerAssumption
<1>4. dirty \in BOOLEAN
  BY <1>2
<1>5. targetRunners \in {-1} \cup MinRunners..MaxRunners /\ patchSeq \in -1..MaxSeq
  BY <1>2, ScalerAssumption
<1>6. SpecInLimits
  BY <1>1, <1>2 DEF SpecInLimits
<1> QED
  BY <1>3, <1>4, <1>5, <1>6 DEF ScalerInv, ScalerTypeOK

(* Every step of the scaler keeps them. *)
LEMMA ScalerInvNext == ScalerInv /\ [ScalerNext]_scalerAll => ScalerInv'
<1> SUFFICES ASSUME ScalerInv, [ScalerNext]_scalerAll PROVE ScalerInv'
  OBVIOUS
<1> USE ScalerAssumption
<1>1. CASE \E asked \in 0..MaxCount : HandleDesiredRunnerCount(asked)
  <2>1. PICK asked \in 0..MaxCount : HandleDesiredRunnerCount(asked)
    BY <1>1
  <2>2. Target(asked) \in MinRunners..MaxRunners
    BY TargetInLimits
  <2>3. NextSeq \in 0..MaxSeq /\ PatchID(asked) \in {0, NextSeq}
    BY PatchIDValues DEF ScalerInv
  <2>4. dirty' \in BOOLEAN
    BY <2>1 DEF HandleDesiredRunnerCount, SetDesiredWorkerState
  <2>5. /\ spec' = [replicas |-> Target(asked), patchID |-> PatchID(asked)]
        /\ targetRunners' = Target(asked)
        /\ patchSeq' = NextSeq
    BY <2>1 DEF HandleDesiredRunnerCount, SetDesiredWorkerState
  <2> QED
    BY <2>2, <2>3, <2>4, <2>5 DEF ScalerInv, ScalerTypeOK, SpecInLimits, InitialSpec
<1>2. CASE HandleJobEvent
  BY <1>2 DEF HandleJobEvent, ScalerInv, ScalerTypeOK, SpecInLimits, InitialSpec
<1>3. CASE ListenerRestarts
  <2>1. dirty' \in BOOLEAN
    BY <1>3 DEF ListenerRestarts
  <2>2. targetRunners' = -1 /\ patchSeq' = -1 /\ spec' = spec
    BY <1>3 DEF ListenerRestarts
  <2> QED
    BY <2>1, <2>2 DEF ScalerInv, ScalerTypeOK, SpecInLimits, InitialSpec
<1>4. CASE DrainRunnerSet
  BY <1>4 DEF DrainRunnerSet, scalerVars, InitialSpec, ScalerInv, ScalerTypeOK, SpecInLimits
<1>5. CASE UNCHANGED scalerAll
  BY <1>5 DEF scalerAll, ScalerInv, ScalerTypeOK, SpecInLimits, InitialSpec
<1> QED
  BY <1>1, <1>2, <1>3, <1>4, <1>5 DEF ScalerNext

(* scaler.go: targetRunners, patchSeq and the patched spec keep their types    *)
(* and the spec keeps within the limits, for every MinRunners <= MaxRunners.  *)
THEOREM ScalerSafety == ScalerSpec => [](ScalerTypeOK /\ SpecInLimits)
<1>1. ScalerInit => ScalerInv
  BY ScalerInvInit
<1>2. ScalerInv /\ [ScalerNext]_scalerAll => ScalerInv'
  BY ScalerInvNext
<1>3. ScalerInv => ScalerTypeOK /\ SpecInLimits
  BY DEF ScalerInv
<1> QED
  BY <1>1, <1>2, <1>3, PTL DEF ScalerSpec

(* scaler.go: after a job event the patchID is new or 0, for every wrap bound  *)
(* of at least 2 and across restarts and drains.                              *)
THEOREM ScalerEventsAreSeen == ScalerSpec => EventsAreSeen
<1> DEFINE Seen == \A asked \in 0..MaxCount :
                     dirty /\ HandleDesiredRunnerCount(asked)
                        => spec'.patchID # spec.patchID \/ spec'.patchID = 0
<1>1. ScalerInv /\ [ScalerNext]_scalerAll => [Seen]_scalerAll
  <2> SUFFICES ASSUME ScalerInv, NEW asked \in 0..MaxCount,
                      dirty, HandleDesiredRunnerCount(asked)
               PROVE  spec'.patchID # spec.patchID \/ spec'.patchID = 0
    OBVIOUS
  <2>1. /\ spec'.patchID \in {0, NextSeq}
        /\ NextSeq # patchSeq /\ NextSeq \in 0..MaxSeq
    BY PatchIDValues DEF ScalerInv, HandleDesiredRunnerCount
  <2>2. CASE patchSeq >= 0
    BY <2>1, <2>2 DEF ScalerInv, SpecInLimits
  <2>3. CASE patchSeq = -1
    BY <2>1, <2>3, ScalerAssumption DEF NextSeq
  <2> QED
    BY <2>2, <2>3, ScalerAssumption DEF ScalerInv, ScalerTypeOK
<1>2. ScalerSpec => []ScalerInv
  BY ScalerInvInit, ScalerInvNext, PTL DEF ScalerSpec
<1> QED
  BY <1>1, <1>2, PTL DEF ScalerSpec, EventsAreSeen

(* scaler.go: the exact number is enforced only by the first patch of a process *)
(* or in a quiet period at the minimum.                                       *)
THEOREM ScalerForcedOnlyWhenQuiet == ScalerSpec => ForcedOnlyWhenQuiet
<1> DEFINE Forced == \A asked \in 0..MaxCount :
                       HandleDesiredRunnerCount(asked) /\ spec'.patchID = 0 /\ patchSeq # -1
                          => ~dirty /\ spec'.replicas = MinRunners /\ targetRunners = MinRunners
<1>1. ScalerInv /\ [ScalerNext]_scalerAll => [Forced]_scalerAll
  <2> SUFFICES ASSUME ScalerInv, NEW asked \in 0..MaxCount,
                      HandleDesiredRunnerCount(asked), spec'.patchID = 0, patchSeq # -1
               PROVE  ~dirty /\ spec'.replicas = MinRunners /\ targetRunners = MinRunners
    OBVIOUS
  <2>1. NextSeq # 0
    BY ScalerAssumption DEF ScalerInv, ScalerTypeOK, NextSeq
  <2>2. Quiet(asked)
    BY <2>1 DEF HandleDesiredRunnerCount, PatchID
  <2> QED
    BY <2>2 DEF Quiet, HandleDesiredRunnerCount
<1>2. ScalerSpec => []ScalerInv
  BY ScalerInvInit, ScalerInvNext, PTL DEF ScalerSpec
<1> QED
  BY <1>1, <1>2, PTL DEF ScalerSpec, ForcedOnlyWhenQuiet

-----------------------------------------------------------------------------
(***************************************************************************)
(* The set and its runners                                                 *)
(***************************************************************************)

StatusRec == [phase : {"", "Running", "Outdated"}, pending : Nat, running : Nat, failed : Nat]
SetRec == [exists : BOOLEAN, del : BOOLEAN, fin : BOOLEAN, status : StatusRec]
SpecRec == [replicas : 0..MaxRunners, patchID : 0..MaxSeq]

ApiType ==
    /\ runner \in [Runners -> RunnerRec]
    /\ set \in SetRec

CacheType ==
    /\ runnerCache \in [Runners -> RunnerRec]
    /\ setCache \in [set : SetRec, spec : SpecRec]

LocalType ==
    /\ lList \in [Runners -> RunnerRec]
    /\ lStatus \in StatusRec
    /\ lPatchID \in 0..MaxSeq
    /\ pc \in Steps
    /\ victim \subseteq Runners
    /\ count \in 0..(MaxRunners + Cardinality(Runners))
    /\ pc = "deleteIdle" => count > 0

ServiceType ==
    /\ svc \in [Runners -> {"none", "idle", "busy"}]
    /\ started \subseteq Runners

(* A job that runs is one of the jobs that were assigned. *)
JobsInv ==
    /\ jobs \in Nat /\ arrived \in 0..MaxJobs /\ stat \in 0..MaxJobs
    /\ Cardinality(Busy) <= jobs
    /\ jobs <= arrived
    /\ trouble \in 0..MaxTrouble

TypeInv == ApiType /\ CacheType /\ LocalType /\ ServiceType /\ JobsInv /\ ScalerInv

-----------------------------------------------------------------------------
(* In terms of its own variables every step of the scale set is a step of the *)
(* Scaler or a stutter.                                                       *)
LEMMA ScalerSteps ==
  ASSUME stat \in 0..MaxJobs, [Next]_vars
  PROVE  [ScalerNext]_scalerAll
<1>1. CASE Poll
  BY <1>1, ScaleSetAssumption, ScalerAssumption DEF Poll, ScalerNext
<1>2. CASE GetMessage
  BY <1>2 DEF GetMessage, ScalerNext, scalerAll, scalerVars
<1>3. CASE HandleJobStarted
  BY <1>3 DEF HandleJobStarted, ScalerNext
<1>4. CASE RestartListener \/ DeleteListener
  BY <1>4 DEF RestartListener, DeleteListener, ScalerNext
<1>5. CASE DrainSet
  BY <1>5 DEF DrainSet, ScalerNext
<1>6. CASE UNCHANGED vars
  BY <1>6 DEF vars, scalerAll
<1>7. CASE Reconcile
  BY <1>7 DEF Reconcile, scalerAll, scalerVars, apiVars, StartReconcile, AddFinalizer, CreateRunner,
     RemoveRunner, JobStillRunning, DeleteRunner, DeleteTerminated, EndLoop, UpdateStatus, DropFinalizer
<1>8. CASE CallFails \/ ControllerRestarts \/ RunnerIsMarked \/ Watches \/ DeleteSet
  BY <1>8 DEF scalerAll, scalerVars, apiVars, CallFails, ControllerRestarts, RunnerIsMarked, Watches,
     WatchSet, WatchRunners, DeleteSet
<1>9. CASE RunnersAndJobs
  BY <1>9 DEF RunnersAndJobs, scalerAll, scalerVars, apiVars, RunnerRegisters, RunnerProgresses,
     RunnerEnds, RunnerGone, CollectGarbage, JobQueued, JobAssigned, JobCancelled, JobEnds
<1> QED
  BY <1>1, <1>2, <1>3, <1>4, <1>5, <1>6, <1>7, <1>8, <1>9 DEF Next, Troubles, Listener, Owner
-----------------------------------------------------------------------------
(* What the operators of the controller return. *)
LEMMA Constants0 ==
  /\ NoRunner \in RunnerRec
  /\ NoList \in [Runners -> RunnerRec]
  /\ NoStatus \in StatusRec
  /\ NoSet \in SetRec /\ NewSet \in SetRec
  /\ InitialSpec \in SpecRec
<1>1. NoRunner \in RunnerRec
  BY ScalerAssumption DEF NoRunner, RunnerRec, States
<1>2. NoList \in [Runners -> RunnerRec]
  BY <1>1 DEF NoList
<1>3. NoStatus \in StatusRec
  BY DEF NoStatus, StatusRec
<1>4. NoSet \in SetRec /\ NewSet \in SetRec
  BY <1>3 DEF NoSet, NewSet, SetRec
<1>5. InitialSpec \in SpecRec
  BY ScalerAssumption DEF InitialSpec, SpecRec
<1> QED
  BY <1>1, <1>2, <1>3, <1>4, <1>5

(* The spec of the set is a record with a count within the limits. *)
LEMMA SpecType == ScalerInv => spec \in SpecRec
BY ScalerAssumption DEF ScalerInv, ScalerTypeOK, SpecInLimits, SpecRec, InitialSpec

(* Sets of runners have a size. *)
LEMMA RunnersFinite ==
  ASSUME NEW S \in SUBSET Runners
  PROVE  IsFiniteSet(S) /\ Cardinality(S) \in 0..Cardinality(Runners)
<1>1. IsFiniteSet(S) /\ Cardinality(S) <= Cardinality(Runners)
  BY FS_Subset, ScaleSetAssumption
<1>2. Cardinality(S) \in Nat /\ Cardinality(Runners) \in Nat
  BY <1>1, FS_CardinalityType, ScaleSetAssumption
<1> QED
  BY <1>1, <1>2

(* The number of runners that count is one of those sizes. *)
LEMMA ScaleTotalType ==
  ASSUME NEW list
  PROVE  ScaleTotal(list) \in 0..Cardinality(Runners)
BY RunnersFinite DEF ScaleTotal, In

(* What a reconciliation begins with, and the counts that make it create or remove *)
LEMMA FirstStepValues ==
  ASSUME NEW v, NEW list
  PROVE  /\ FirstStep(v, list) \in Steps
         /\ FirstStep(v, list) = "create" => ScaleTotal(list) < v.spec.replicas
         /\ FirstStep(v, list) = "removeIdle" => ScaleTotal(list) > v.spec.replicas
         /\ FirstStep(v, list) \in {"deleteTerminated", "dropFinalizer"} => v.set.exists /\ v.set.del
         /\ FirstStep(v, list) \notin {"deleteIdle", "removeAll", "deleteAll"}
BY DEF FirstStep, ScaleStep, CleanupStep, Steps

(* The status that the controller writes is a status. *)
LEMMA DesiredStatusType ==
  ASSUME NEW v \in [set : SetRec, spec : SpecRec], NEW list
  PROVE  DesiredStatus(v, list) \in StatusRec
<1>1. Phase(v, list) \in {"", "Running", "Outdated"}
  BY DEF Phase, SetRec, StatusRec
<1>2. /\ Cardinality(Pending(list)) \in Nat /\ Cardinality(Running(list)) \in Nat
      /\ Cardinality(In(list, {"failed"})) \in Nat
  BY RunnersFinite DEF Pending, Running, In
<1> QED
  BY <1>1, <1>2 DEF DesiredStatus, StatusRec
-----------------------------------------------------------------------------
(* Types, group by group. *)
LEMMA DeletedType ==
  ASSUME runner \in [Runners -> RunnerRec], NEW r \in Runners
  PROVE  Deleted(r) \in [Runners -> RunnerRec]
BY DEF Deleted, RunnerRec, States

(* Every step keeps the types of the runners, *)
LEMMA RunnerType ==
  ASSUME TypeInv, Next
  PROVE  runner' \in [Runners -> RunnerRec]
<1> USE DEF TypeInv, ApiType
<1>1. CASE CreateRunner
  <2>1. PICK r \in Runners :
           runner' = [runner EXCEPT ![r].st = "pending", ![r].patch = lPatchID]
    BY <1>1 DEF CreateRunner
  <2>2. lPatchID \in 0..MaxSeq
    BY DEF LocalType
  <2>3. runner[r] \in RunnerRec
    OBVIOUS
  <2>4. [runner[r] EXCEPT !.st = "pending", !.patch = lPatchID] \in RunnerRec
    BY <2>2, <2>3 DEF RunnerRec, States
  <2>5. runner' = [runner EXCEPT ![r] = [runner[r] EXCEPT !.st = "pending", !.patch = lPatchID]]
    BY <2>1, <2>3 DEF RunnerRec
  <2> QED
    BY <2>4, <2>5
<1>2. CASE DeleteRunner
  BY <1>2, DeletedType DEF DeleteRunner, LocalType
<1>3. CASE DeleteTerminated
  BY <1>3, DeletedType DEF DeleteTerminated, Terminated, In
<1>4. CASE HandleJobStarted
  <2>1. PICK r \in Runners :
           runner' = IF runner[r].st = "none" THEN runner ELSE [runner EXCEPT ![r].job = TRUE]
    BY <1>4 DEF HandleJobStarted, ServiceType
  <2> QED
    BY <2>1 DEF RunnerRec
<1>5. CASE RunnerProgresses
  BY <1>5 DEF RunnerProgresses, RunnerRec, States
<1>6. CASE RunnerEnds
  BY <1>6 DEF RunnerEnds, RunnerRec, States
<1>7. CASE RunnerGone
  BY <1>7, Constants0 DEF RunnerGone
<1>8. CASE RunnerIsMarked
  BY <1>8 DEF RunnerIsMarked, RunnerRec, States
<1>9. CASE CollectGarbage
  BY <1>9 DEF CollectGarbage, RunnerRec, States, Listed, In
<1>10. CASE \/ StartReconcile \/ AddFinalizer \/ RemoveRunner \/ JobStillRunning \/ EndLoop
            \/ UpdateStatus \/ DropFinalizer \/ CallFails \/ ControllerRestarts \/ Watches
  BY <1>10 DEF StartReconcile, AddFinalizer, RemoveRunner, JobStillRunning, EndLoop, UpdateStatus,
     DropFinalizer, CallFails, ControllerRestarts, Watches, WatchSet, WatchRunners, apiVars
<1>11. CASE \/ GetMessage \/ Poll \/ RestartListener \/ Owner \/ RunnerRegisters \/ JobQueued
            \/ JobAssigned \/ JobCancelled \/ JobEnds
  BY <1>11 DEF GetMessage, Poll, RestartListener, Owner, DeleteListener, DrainSet, DeleteSet,
     RunnerRegisters, JobQueued, JobAssigned, JobCancelled, JobEnds, apiVars
<1> QED
  BY <1>1, <1>2, <1>3, <1>4, <1>5, <1>6, <1>7, <1>8, <1>9, <1>10, <1>11
     DEF Next, Reconcile, Troubles, Listener, RunnersAndJobs

(* of the set, *)
LEMMA SetType ==
  ASSUME TypeInv, Next
  PROVE  set' \in SetRec
<1> USE Constants0 DEF TypeInv, ApiType
<1>1. CASE AddFinalizer
  BY <1>1 DEF AddFinalizer, SetRec
<1>2. CASE DropFinalizer
  BY <1>2 DEF DropFinalizer
<1>3. CASE UpdateStatus
  BY <1>3 DEF UpdateStatus, SetRec, LocalType
<1>4. CASE DeleteSet
  BY <1>4 DEF DeleteSet, SetRec
<1>5. CASE \/ StartReconcile \/ CreateRunner \/ RemoveRunner \/ JobStillRunning \/ DeleteRunner
           \/ DeleteTerminated \/ EndLoop \/ Troubles \/ Watches
  BY <1>5 DEF StartReconcile, CreateRunner, RemoveRunner, JobStillRunning, DeleteRunner,
     DeleteTerminated, EndLoop, Troubles, CallFails, ControllerRestarts, RestartListener, RunnerIsMarked,
     Watches, WatchSet, WatchRunners, apiVars
<1>6. CASE Listener \/ DeleteListener \/ DrainSet \/ RunnersAndJobs
  BY <1>6 DEF Listener, GetMessage, Poll, HandleJobStarted, DeleteListener, DrainSet, RunnersAndJobs,
     RunnerRegisters, RunnerProgresses, RunnerEnds, RunnerGone, CollectGarbage, JobQueued,
     JobAssigned, JobCancelled, JobEnds, apiVars
<1> QED
  BY <1>1, <1>2, <1>3, <1>4, <1>5, <1>6 DEF Next, Reconcile, Owner

(* of the caches, *)
LEMMA CacheTypeStep ==
  ASSUME TypeInv, Next, runner' \in [Runners -> RunnerRec], set' \in SetRec, spec' \in SpecRec
  PROVE  CacheType'
<1> USE DEF TypeInv, ApiType, CacheType
<1>1. spec \in SpecRec
  BY SpecType
<1>2. ASSUME NEW q, Settle(q) PROVE CacheType'
  BY <1>2 DEF Settle, cacheVars, View
<1>3. CASE StartReconcile
  BY <1>3 DEF StartReconcile, cacheVars
<1>4. CASE ControllerRestarts
  BY <1>1, <1>4 DEF ControllerRestarts, View
<1>5. CASE WatchSet
  BY <1>1, <1>5 DEF WatchSet, View
<1>6. CASE WatchRunners
  BY <1>6 DEF WatchRunners
<1>7. CASE \/ AddFinalizer \/ CreateRunner \/ RemoveRunner \/ JobStillRunning \/ DeleteRunner
           \/ DeleteTerminated \/ EndLoop \/ UpdateStatus \/ DropFinalizer \/ CallFails
  BY <1>2, <1>7 DEF AddFinalizer, CreateRunner, RemoveRunner, JobStillRunning, DeleteRunner,
     DeleteTerminated, EndLoop, UpdateStatus, DropFinalizer, CallFails
<1>8. CASE Listener \/ Owner \/ RestartListener \/ RunnerIsMarked \/ RunnersAndJobs
  BY <1>2, <1>8 DEF Listener, GetMessage, Poll, HandleJobStarted, Owner, DeleteListener, DrainSet,
     DeleteSet, RestartListener, RunnerIsMarked, RunnersAndJobs, RunnerRegisters, RunnerProgresses,
     RunnerEnds, RunnerGone, CollectGarbage, JobQueued, JobAssigned, JobCancelled, JobEnds
<1> QED
  BY <1>3, <1>4, <1>5, <1>6, <1>7, <1>8 DEF Next, Reconcile, Troubles, Watches

(* of the variables of the reconciliation *)
LEMMA LocalTypeStep ==
  ASSUME TypeInv, Next
  PROVE  LocalType'
<1> USE Constants0, ScalerAssumption DEF TypeInv, LocalType
<1>0. Cardinality(Runners) \in Nat
  BY FS_CardinalityType, ScaleSetAssumption
<1>1. ASSUME Return PROVE LocalType'
  BY <1>0, <1>1 DEF Return, Steps
<1>2. ASSUME NEW r \in Runners, Handled(r) PROVE lList' \in [Runners -> RunnerRec]
  BY <1>2 DEF Handled
<1>3. CASE StartReconcile
  <2> DEFINE v == setCache
             list == runnerCache
             step == FirstStep(v, list)
  <2>1. v \in [set : SetRec, spec : SpecRec] /\ list \in [Runners -> RunnerRec]
    BY DEF CacheType
  <2>2. pc' \in Steps
    BY <1>3, FirstStepValues DEF StartReconcile
  <2>3. lPatchID' \in 0..MaxSeq
    BY <1>3, <2>1 DEF StartReconcile, SpecRec
  <2>4. lStatus' \in StatusRec
    BY <1>3, <2>1, DesiredStatusType DEF StartReconcile
  <2>5. lList' \in [Runners -> RunnerRec]
    <3>1. lList' = [r \in Runners |-> IF Concerns(step, list[r])
                                     THEN [list[r] EXCEPT !.patch = 0] ELSE NoRunner]
      BY <1>3 DEF StartReconcile
    <3>2. \A r \in Runners : [list[r] EXCEPT !.patch = 0] \in RunnerRec
      BY <2>1 DEF RunnerRec
    <3> QED
      BY <3>1, <3>2
  <2>6. count' \in 0..(MaxRunners + Cardinality(Runners))
    <3>1. /\ ScaleTotal(list) \in 0..Cardinality(Runners)
          /\ v.spec.replicas \in 0..MaxRunners
      BY <2>1, ScaleTotalType DEF SpecRec
    <3>2. /\ step = "create" => ScaleTotal(list) < v.spec.replicas
          /\ step = "removeIdle" => ScaleTotal(list) > v.spec.replicas
      BY FirstStepValues
    <3>3. count' = CASE step = "create" -> v.spec.replicas - ScaleTotal(list)
                     [] step = "removeIdle" -> ScaleTotal(list) - v.spec.replicas
                     [] OTHER -> 0
      BY <1>3 DEF StartReconcile
    <3> HIDE DEF v, list, step
    <3> QED
      BY <1>0, <3>1, <3>2, <3>3
  <2>7. victim' \subseteq Runners /\ pc' # "deleteIdle"
    BY <1>3, FirstStepValues DEF StartReconcile
  <2> QED
    BY <2>2, <2>3, <2>4, <2>5, <2>6, <2>7
<1>4. CASE AddFinalizer \/ UpdateStatus \/ DropFinalizer \/ ControllerRestarts
  BY <1>1, <1>4 DEF AddFinalizer, UpdateStatus, DropFinalizer, ControllerRestarts
<1>5. CASE CreateRunner
  BY <1>0, <1>5 DEF CreateRunner
<1>6. CASE RemoveRunner
  <2>1. PICK r \in NextInLine : victim' = {r} /\ Handled(r)
    BY <1>6 DEF RemoveRunner
  <2>2. r \in Runners
    BY DEF NextInLine, Pending, Running, In
  <2>3. /\ pc' \in Steps
        /\ UNCHANGED <<lPatchID, lStatus, count>>
        /\ pc' = "deleteIdle" => count > 0
    BY <1>6 DEF RemoveRunner, Removing, Steps
  <2> QED
    BY <1>2, <2>1, <2>2, <2>3
<1>7. CASE JobStillRunning
  <2>1. PICK r \in NextInLine : Handled(r)
    BY <1>7 DEF JobStillRunning
  <2>2. r \in Runners
    BY DEF NextInLine, Pending, Running, In
  <2>3. UNCHANGED <<pc, lPatchID, lStatus, count, victim>>
    BY <1>7 DEF JobStillRunning
  <2> QED
    BY <1>2, <2>1, <2>2, <2>3
<1>8. CASE DeleteRunner
  <2>1. count' \in 0..(MaxRunners + Cardinality(Runners))
    BY <1>0, <1>8 DEF DeleteRunner
  <2> QED
    BY <1>8, <2>1 DEF DeleteRunner, Steps
<1>9. CASE DeleteTerminated
  <2>1. PICK r \in Runners : Handled(r)
    BY <1>9 DEF DeleteTerminated, Terminated, In
  <2> QED
    BY <1>2, <1>9, <2>1 DEF DeleteTerminated
<1>10. CASE EndLoop
  <2>1. CASE Return
    BY <1>1, <2>1
  <2>2. CASE /\ pc' = "updateStatus"
             /\ lPatchID' = 0 /\ lList' = NoList /\ count' = 0
             /\ UNCHANGED <<lStatus, victim, errs>>
    BY <1>0, <2>2 DEF Steps
  <2>3. CASE pc' = "removeAll" /\ UNCHANGED localVars
    BY <2>3 DEF localVars, Steps
  <2> QED
    BY <1>10, <2>1, <2>2, <2>3 DEF EndLoop
<1>11. CASE CallFails
  <2>1. CASE pc \in {"addFinalizer", "updateStatus", "dropFinalizer"} /\ Return
    BY <1>1, <2>1
  <2>2. CASE /\ pc = "create" /\ count > 0
             /\ count' = count - 1 /\ errs' = TRUE
             /\ UNCHANGED <<pc, lPatchID, lStatus, lList, victim>>
    BY <1>0, <2>2
  <2>3. CASE /\ \/ pc = "deleteTerminated" /\ \E r \in Terminated(lList) : Handled(r)
                \/ Removing /\ \E r \in NextInLine : Handled(r)
             /\ errs' = TRUE
             /\ UNCHANGED <<pc, lPatchID, lStatus, count, victim>>
    <3>1. PICK r \in Runners : Handled(r)
      BY <2>3 DEF Terminated, NextInLine, Pending, Running, In
    <3> QED
      BY <1>2, <2>3, <3>1
  <2>4. CASE /\ pc \in {"deleteIdle", "deleteAll"}
             /\ pc' = IF pc = "deleteIdle" THEN "removeIdle" ELSE "removeAll"
             /\ victim' = {} /\ errs' = TRUE
             /\ UNCHANGED <<lPatchID, lStatus, lList, count>>
    BY <2>4 DEF Steps
  <2> QED
    BY <1>11, <2>1, <2>2, <2>3, <2>4 DEF CallFails
<1>12. CASE Watches \/ Listener \/ Owner \/ RestartListener \/ RunnerIsMarked \/ RunnersAndJobs
  BY <1>12 DEF Watches, WatchSet, WatchRunners, Listener, GetMessage, Poll, HandleJobStarted, Owner,
     DeleteListener, DrainSet, DeleteSet, RestartListener, RunnerIsMarked, RunnersAndJobs,
     RunnerRegisters, RunnerProgresses, RunnerEnds, RunnerGone, CollectGarbage, JobQueued,
     JobAssigned, JobCancelled, JobEnds, ctrlVars, localVars
<1> QED
  BY <1>3, <1>4, <1>5, <1>6, <1>7, <1>8, <1>9, <1>10, <1>11, <1>12 DEF Next, Reconcile, Troubles

(* and of the service. *)
LEMMA ServiceTypeStep ==
  ASSUME TypeInv, Next
  PROVE  ServiceType'
<1> USE DEF TypeInv, ServiceType
<1>1. CASE RemoveRunner
  BY <1>1 DEF RemoveRunner, msgVars
<1>2. CASE RunnerRegisters \/ RunnerGone \/ RunnerIsMarked
  BY <1>2 DEF RunnerRegisters, RunnerGone, RunnerIsMarked, msgVars
<1>3. CASE JobAssigned
  BY <1>3 DEF JobAssigned
<1>4. CASE JobEnds
  BY <1>4 DEF JobEnds, Busy
<1>5. CASE HandleJobStarted \/ RestartListener \/ DeleteListener
  BY <1>5 DEF HandleJobStarted, RestartListener, DeleteListener
<1>6. CASE \/ StartReconcile \/ AddFinalizer \/ CreateRunner \/ JobStillRunning \/ DeleteRunner
           \/ DeleteTerminated \/ EndLoop \/ UpdateStatus \/ DropFinalizer \/ CallFails
           \/ ControllerRestarts \/ Watches
  BY <1>6 DEF StartReconcile, AddFinalizer, CreateRunner, JobStillRunning, DeleteRunner,
     DeleteTerminated, EndLoop, UpdateStatus, DropFinalizer, CallFails, ControllerRestarts, Watches,
     WatchSet, WatchRunners, msgVars
<1>7. CASE \/ GetMessage \/ Poll \/ DrainSet \/ DeleteSet \/ RunnerProgresses \/ RunnerEnds
           \/ CollectGarbage \/ JobQueued \/ JobCancelled
  BY <1>7 DEF GetMessage, Poll, DrainSet, DeleteSet, RunnerProgresses, RunnerEnds,
     CollectGarbage, JobQueued, JobCancelled, msgVars
<1> QED
  BY <1>1, <1>2, <1>3, <1>4, <1>5, <1>6, <1>7
     DEF Next, Reconcile, Troubles, Listener, Owner, RunnersAndJobs

(* Every step keeps the jobs that run to those that were assigned. *)
LEMMA JobsStep ==
  ASSUME TypeInv, Next
  PROVE  JobsInv'
<1> USE ScaleSetAssumption DEF TypeInv, JobsInv
<1>0. /\ IsFiniteSet(Busy) /\ Cardinality(Busy) \in Nat
  BY RunnersFinite DEF Busy
<1>1. CASE RemoveRunner
  <2>1. Busy' = Busy
    BY <1>1 DEF RemoveRunner, Busy, ServiceType
  <2> QED
    BY <1>1, <2>1 DEF RemoveRunner, jobVars, msgVars
<1>2. CASE RunnerRegisters \/ RunnerGone \/ RunnerIsMarked
  <2>1. Busy' = Busy
    BY <1>2 DEF RunnerRegisters, RunnerGone, RunnerIsMarked, Busy, ServiceType
  <2>2. UNCHANGED <<jobs, arrived, stat>>
    BY <1>2 DEF RunnerRegisters, RunnerGone, RunnerIsMarked, jobVars, msgVars
  <2>3. trouble' = trouble \/ (trouble < MaxTrouble /\ trouble' = trouble + 1)
    BY <1>2 DEF RunnerRegisters, RunnerGone, RunnerIsMarked
  <2> QED
    BY <2>1, <2>2, <2>3
<1>3. CASE JobAssigned
  <2>1. PICK r \in Runners : svc[r] = "idle" /\ svc' = [svc EXCEPT ![r] = "busy"]
    BY <1>3 DEF JobAssigned
  <2>2. Busy' = Busy \cup {r} /\ r \notin Busy
    BY <2>1 DEF Busy, ServiceType
  <2>3. Cardinality(Busy') = Cardinality(Busy) + 1
    BY <1>0, <2>2, FS_AddElement
  <2> QED
    BY <1>0, <1>3, <2>3 DEF JobAssigned, jobVars
<1>4. CASE JobEnds
  <2>1. PICK r \in Busy : svc' = [svc EXCEPT ![r] = "none"]
    BY <1>4 DEF JobEnds
  <2>2. Busy' = Busy \ {r}
    BY <2>1 DEF Busy, ServiceType
  <2>3. Cardinality(Busy \ {r}) = Cardinality(Busy) - 1
    BY <1>0, <2>1, FS_RemoveElement
  <2>4. jobs' = jobs - 1 /\ UNCHANGED <<arrived, stat, trouble>>
    BY <1>4 DEF JobEnds
  <2>5. Cardinality(Busy \ {r}) \in Nat
    BY RunnersFinite DEF Busy
  <2> QED
    BY <1>0, <2>2, <2>3, <2>4, <2>5
<1>5. ASSUME UNCHANGED svc PROVE Busy' = Busy
  BY <1>5 DEF Busy
<1>6. CASE JobQueued
  BY <1>0, <1>5, <1>6 DEF JobQueued, msgVars
<1>7. CASE JobCancelled
  BY <1>0, <1>5, <1>7 DEF JobCancelled
<1>8. CASE GetMessage
  BY <1>0, <1>5, <1>8 DEF GetMessage, jobVars
<1>9. CASE CallFails \/ ControllerRestarts \/ RestartListener \/ DeleteListener
  <2>1. UNCHANGED <<svc, jobs, arrived>>
    BY <1>9 DEF CallFails, ControllerRestarts, RestartListener, DeleteListener, jobVars
  <2>2. trouble' = trouble \/ (trouble < MaxTrouble /\ trouble' = trouble + 1)
    BY <1>9 DEF CallFails, ControllerRestarts, RestartListener, DeleteListener
  <2>3. stat' \in {stat, 0}
    BY <1>9 DEF CallFails, ControllerRestarts, RestartListener, DeleteListener, msgVars
  <2> QED
    BY <1>5, <2>1, <2>2, <2>3
<1>10. CASE \/ StartReconcile \/ AddFinalizer \/ CreateRunner \/ JobStillRunning \/ DeleteRunner
            \/ DeleteTerminated \/ EndLoop \/ UpdateStatus \/ DropFinalizer \/ Watches
            \/ Poll \/ DrainSet \/ DeleteSet \/ RunnerProgresses \/ RunnerEnds
            \/ CollectGarbage \/ HandleJobStarted
  <2>1. UNCHANGED <<svc, jobs, arrived, stat, trouble>>
    BY <1>10 DEF StartReconcile, AddFinalizer, CreateRunner, JobStillRunning, DeleteRunner,
       DeleteTerminated, EndLoop, UpdateStatus, DropFinalizer, Watches, WatchSet, WatchRunners,
       Poll, DrainSet, DeleteSet, RunnerProgresses, RunnerEnds, CollectGarbage, HandleJobStarted,
       jobVars, msgVars
  <2> QED
    BY <1>5, <2>1
<1> QED
  BY <1>1, <1>2, <1>3, <1>4, <1>6, <1>7, <1>8, <1>9, <1>10
     DEF Next, Reconcile, Troubles, Listener, Owner, RunnersAndJobs

(* The types hold initially. *)
LEMMA TypeInvInit == Init => TypeInv
<1> SUFFICES ASSUME Init PROVE TypeInv
  OBVIOUS
<1> USE Constants0, ScaleSetAssumption, ScalerAssumption
<1>1. ScalerInv
  BY ScalerInvInit DEF Init
<1>2. ApiType
  BY DEF Init, ApiType
<1>3. CacheType
  <2>1. spec = InitialSpec
    BY DEF Init, ScalerInit
  <2> QED
    BY <2>1 DEF Init, CacheType, View, NoView
<1>4. LocalType
  <2>1. Cardinality(Runners) \in Nat
    BY FS_CardinalityType
  <2> QED
    BY <2>1 DEF Init, LocalType, Steps
<1>5. ServiceType
  BY DEF Init, ServiceType
<1>6. JobsInv
  <2>1. Busy = {}
    BY DEF Init, Busy
  <2> QED
    BY <2>1, FS_EmptySet DEF Init, JobsInv
<1> QED
  BY <1>1, <1>2, <1>3, <1>4, <1>5, <1>6 DEF TypeInv

(* Every step keeps the types. *)
LEMMA TypeInvNext == TypeInv /\ [Next]_vars => TypeInv'
<1> SUFFICES ASSUME TypeInv, [Next]_vars PROVE TypeInv'
  OBVIOUS
<1>1. ScalerInv'
  BY ScalerSteps, ScalerInvNext DEF TypeInv, JobsInv
<1>2. spec' \in SpecRec
  BY <1>1, ScalerAssumption DEF ScalerInv, ScalerTypeOK, SpecInLimits, SpecRec, InitialSpec
<1>3. CASE Next
  BY <1>1, <1>2, <1>3, RunnerType, SetType, CacheTypeStep, LocalTypeStep, ServiceTypeStep, JobsStep
     DEF TypeInv, ApiType
<1>4. CASE UNCHANGED vars
  BY <1>1, <1>4 DEF vars, TypeInv, ApiType, CacheType, LocalType, ServiceType, JobsInv, Busy
<1> QED
  BY <1>3, <1>4

(* The types always hold. *)
LEMMA TypeInvAlways == Spec => []TypeInv
BY TypeInvInit, TypeInvNext, PTL DEF Spec

(* ephemeralrunnerset_controller.go and scaler.go: counts, patchIDs and states *)
(* stay in their ranges, the loops never run below zero and no job runs that  *)
(* was not assigned.                                                          *)
THEOREM ScaleSetTypes == Spec => []TypeOK
<1>1. TypeInv => TypeOK
  BY ScalerAssumption, ScaleSetAssumption DEF TypeInv, ApiType, CacheType, LocalType, ServiceType,
     JobsInv, ScalerInv, TypeOK
<1> QED
  BY <1>1, TypeInvAlways, PTL
-----------------------------------------------------------------------------
(* Scaling down. The list a Reconcile works with may be old; what it never     *)
(* gets wrong is that a runner with an id keeps it until it is gone. So the   *)
(* service refuses to remove a runner that has a job, and a runner that was   *)
(* removed cannot get one, because only a runner without an id registers.     *)
Registered(r) == runner[r].rid \/ runner[r].st = "none"

Teardown == {"deleteTerminated", "removeAll", "deleteAll", "dropFinalizer"}

CacheIds == \A r \in Runners : runnerCache[r].rid => Registered(r)

ListIds ==
    pc \in {"removeIdle", "deleteIdle"} =>
        \A r \in Runners : lList[r].st # "none" => lList[r].rid /\ Registered(r)

VictimRemoved ==
    pc = "deleteIdle" => \A r \in victim : svc[r] = "none" /\ Registered(r)

TornDownWhenDeleted ==
    setCache.set.del \/ pc \in Teardown => set.del \/ ~set.exists

SparesInv == CacheIds /\ ListIds /\ VictimRemoved /\ TornDownWhenDeleted

(* A runner that is registered stays so until its name is used again. *)
LEMMA StaysRegistered ==
  ASSUME TypeInv, Next, NEW r \in Runners, Registered(r), ~(pc = "create" /\ Free(r))
  PROVE  Registered(r)'
<1> USE DEF Registered
<1>0. runner \in [Runners -> RunnerRec]
  BY DEF TypeInv, ApiType
<1>1. CASE CreateRunner
  BY <1>0, <1>1 DEF CreateRunner, RunnerRec
<1>2. ASSUME NEW q \in Runners, runner' = Deleted(q) PROVE Registered(r)'
  BY <1>0, <1>2 DEF Deleted, RunnerRec
<1>3. CASE DeleteRunner \/ DeleteTerminated
  <2>1. \E q \in Runners : runner' = Deleted(q)
    BY <1>3 DEF DeleteRunner, DeleteTerminated, Terminated, In, TypeInv, LocalType
  <2> QED
    BY <1>2, <2>1
<1>4. CASE HandleJobStarted
  <2>1. PICK q \in Runners :
           runner' = IF runner[q].st = "none" THEN runner ELSE [runner EXCEPT ![q].job = TRUE]
    BY <1>4 DEF HandleJobStarted, TypeInv, ServiceType
  <2> QED
    BY <1>0, <2>1 DEF RunnerRec
<1>5. CASE RunnerProgresses \/ RunnerEnds \/ RunnerIsMarked
  BY <1>0, <1>5 DEF RunnerProgresses, RunnerEnds, RunnerIsMarked, Live, RunnerRec
<1>6. CASE RunnerGone
  BY <1>0, <1>6 DEF RunnerGone, NoRunner
<1>7. CASE CollectGarbage
  BY <1>0, <1>7 DEF CollectGarbage, Listed, In, States, RunnerRec
<1>8. CASE \/ StartReconcile \/ AddFinalizer \/ RemoveRunner \/ JobStillRunning \/ EndLoop
           \/ UpdateStatus \/ DropFinalizer \/ CallFails \/ ControllerRestarts \/ Watches
  BY <1>8 DEF StartReconcile, AddFinalizer, RemoveRunner, JobStillRunning, EndLoop, UpdateStatus,
     DropFinalizer, CallFails, ControllerRestarts, Watches, WatchSet, WatchRunners, apiVars
<1>9. CASE \/ GetMessage \/ Poll \/ RestartListener \/ Owner \/ RunnerRegisters \/ JobQueued
           \/ JobAssigned \/ JobCancelled \/ JobEnds
  BY <1>9 DEF GetMessage, Poll, RestartListener, Owner, DeleteListener, DrainSet, DeleteSet,
     RunnerRegisters, JobQueued, JobAssigned, JobCancelled, JobEnds, apiVars
<1> QED
  BY <1>1, <1>3, <1>4, <1>5, <1>6, <1>7, <1>8, <1>9
     DEF Next, Reconcile, Troubles, Listener, RunnersAndJobs

(* A cache keeps its copy or gets the current one. *)
LEMMA CacheSteps ==
  ASSUME TypeInv, Next
  PROVE  /\ \A r \in Runners : runnerCache'[r] \in {runnerCache[r], runner'[r]}
         /\ setCache' \in {setCache, View'}
<1> DEFINE Keeps == /\ \A r \in Runners : runnerCache'[r] \in {runnerCache[r], runner'[r]}
                    /\ setCache' \in {setCache, View'}
<1> SUFFICES Keeps
  OBVIOUS
<1>1. ASSUME NEW q, Settle(q) PROVE Keeps
  BY <1>1 DEF Settle, cacheVars
<1>2. CASE StartReconcile \/ ControllerRestarts \/ WatchSet
  BY <1>2 DEF StartReconcile, ControllerRestarts, WatchSet, cacheVars, apiVars, View
<1>3. CASE WatchRunners
  BY <1>3 DEF WatchRunners, apiVars, TypeInv, CacheType
<1>4. CASE \/ AddFinalizer \/ CreateRunner \/ RemoveRunner \/ JobStillRunning \/ DeleteRunner
           \/ DeleteTerminated \/ EndLoop \/ UpdateStatus \/ DropFinalizer \/ CallFails
  BY <1>1, <1>4 DEF AddFinalizer, CreateRunner, RemoveRunner, JobStillRunning, DeleteRunner,
     DeleteTerminated, EndLoop, UpdateStatus, DropFinalizer, CallFails
<1>5. CASE Listener \/ Owner \/ RestartListener \/ RunnerIsMarked \/ RunnersAndJobs
  BY <1>1, <1>5 DEF Listener, GetMessage, Poll, HandleJobStarted, Owner, DeleteListener, DrainSet,
     DeleteSet, RestartListener, RunnerIsMarked, RunnersAndJobs, RunnerRegisters, RunnerProgresses,
     RunnerEnds, RunnerGone, CollectGarbage, JobQueued, JobAssigned, JobCancelled, JobEnds
<1> QED
  BY <1>2, <1>3, <1>4, <1>5 DEF Next, Reconcile, Troubles, Watches

(* How a Reconcile gets into the loop of scaling down, and goes on in it. *)
LEMMA LoopSteps ==
  ASSUME TypeInv, Next, pc' \in {"removeIdle", "deleteIdle"}
  PROVE  \/ StartReconcile /\ pc' = "removeIdle"
         \/ /\ pc \in {"removeIdle", "deleteIdle"}
            /\ \A r \in Runners : lList'[r] \in {lList[r], NoRunner}
            /\ \/ pc = "removeIdle" /\ RemoveRunner
               \/ pc' = "removeIdle"
               \/ pc = "deleteIdle" /\ pc' = "deleteIdle" /\ UNCHANGED <<victim, lList>>
<1> DEFINE Goes == \/ StartReconcile /\ pc' = "removeIdle"
                   \/ /\ pc \in {"removeIdle", "deleteIdle"}
                      /\ \A r \in Runners : lList'[r] \in {lList[r], NoRunner}
                      /\ \/ pc = "removeIdle" /\ RemoveRunner
                         \/ pc' = "removeIdle"
                         \/ pc = "deleteIdle" /\ pc' = "deleteIdle" /\ UNCHANGED <<victim, lList>>
<1> SUFFICES Goes
  OBVIOUS
<1>0. lList \in [Runners -> RunnerRec]
  BY DEF TypeInv, LocalType
<1>1. CASE StartReconcile
  BY <1>1, FirstStepValues DEF StartReconcile
<1>2. CASE RemoveRunner
  BY <1>0, <1>2 DEF RemoveRunner, Removing, Handled
<1>3. CASE JobStillRunning
  BY <1>0, <1>3 DEF JobStillRunning, Removing, Handled
<1>4. CASE DeleteRunner
  BY <1>4 DEF DeleteRunner
<1>5. CASE CreateRunner \/ DeleteTerminated
  BY <1>5 DEF CreateRunner, DeleteTerminated
<1>6. CASE AddFinalizer \/ UpdateStatus \/ DropFinalizer \/ ControllerRestarts \/ EndLoop
  BY <1>6 DEF AddFinalizer, UpdateStatus, DropFinalizer, ControllerRestarts, EndLoop, LoopDone,
     Return, localVars
<1>7. CASE CallFails
  BY <1>0, <1>7 DEF CallFails, Return, Handled, Removing
<1>8. CASE Watches \/ Listener \/ Owner \/ RestartListener \/ RunnerIsMarked \/ RunnersAndJobs
  BY <1>8 DEF Watches, WatchSet, WatchRunners, Listener, GetMessage, Poll, HandleJobStarted, Owner,
     DeleteListener, DrainSet, DeleteSet, RestartListener, RunnerIsMarked, RunnersAndJobs,
     RunnerRegisters, RunnerProgresses, RunnerEnds, RunnerGone, CollectGarbage, JobQueued,
     JobAssigned, JobCancelled, JobEnds, ctrlVars, localVars
<1> QED
  BY <1>1, <1>2, <1>3, <1>4, <1>5, <1>6, <1>7, <1>8 DEF Next, Reconcile, Troubles

(* A cached runner id belongs to a runner that was registered. *)
LEMMA CacheIdsStep ==
  ASSUME TypeInv, CacheIds, Next
  PROVE  CacheIds'
<1> SUFFICES ASSUME NEW r \in Runners, runnerCache'[r].rid
             PROVE  Registered(r)'
  BY DEF CacheIds
<1>1. CASE runnerCache'[r] = runner'[r]
  BY <1>1 DEF Registered
<1>2. CASE runnerCache'[r] = runnerCache[r]
  <2>1. Registered(r)
    BY <1>2 DEF CacheIds
  <2>2. ~Free(r)
    BY <1>2 DEF Free, NoRunner
  <2> QED
    BY <2>1, <2>2, StaysRegistered
<1> QED
  BY <1>1, <1>2, CacheSteps

(* So does the id of a runner on the list of a scale-down. *)
LEMMA ListIdsStep ==
  ASSUME TypeInv, CacheIds, ListIds, Next
  PROVE  ListIds'
<1> SUFFICES ASSUME pc' \in {"removeIdle", "deleteIdle"}, NEW r \in Runners, lList'[r].st # "none"
             PROVE  lList'[r].rid /\ Registered(r)'
  BY DEF ListIds
<1>1. CASE StartReconcile /\ pc' = "removeIdle"
  <2>1. runnerCache[r] \in RunnerRec
    BY DEF TypeInv, CacheType
  <2>2. lList'[r] = IF Concerns("removeIdle", runnerCache[r])
                    THEN [runnerCache[r] EXCEPT !.patch = 0] ELSE NoRunner
    BY <1>1 DEF StartReconcile
  <2>3. Concerns("removeIdle", runnerCache[r])
    BY <2>2 DEF NoRunner
  <2>4. runnerCache[r].rid
    BY <2>3 DEF Concerns, PassOver
  <2>5. lList'[r].rid
    BY <2>1, <2>2, <2>3, <2>4 DEF RunnerRec
  <2>6. Registered(r)'
    BY <1>1, <2>4 DEF CacheIds, Registered, StartReconcile, apiVars
  <2> QED
    BY <2>5, <2>6
<1>2. CASE pc \in {"removeIdle", "deleteIdle"} /\ lList'[r] \in {lList[r], NoRunner}
  <2>1. lList'[r] = lList[r]
    BY <1>2 DEF NoRunner
  <2>2. lList[r].rid /\ Registered(r)
    BY <1>2, <2>1 DEF ListIds
  <2>3. pc # "create"
    BY <1>2
  <2> QED
    BY <2>1, <2>2, <2>3, StaysRegistered
<1> QED
  BY <1>1, <1>2, LoopSteps

(* The runner to be deleted has left the service. *)
LEMMA VictimRemovedStep ==
  ASSUME TypeInv, ListIds, VictimRemoved, Next
  PROVE  VictimRemoved'
<1> SUFFICES ASSUME pc' = "deleteIdle", NEW r \in victim'
             PROVE  svc'[r] = "none" /\ Registered(r)'
  BY DEF VictimRemoved
<1>0. svc \in [Runners -> {"none", "idle", "busy"}] /\ lList \in [Runners -> RunnerRec]
  BY DEF TypeInv, ServiceType, LocalType
<1>1. CASE pc = "removeIdle" /\ RemoveRunner
  <2>1. r \in Runners /\ lList[r].st # "none"
    BY <1>1 DEF RemoveRunner, NextInLine, Pending, Running, In
  <2>2. lList[r].rid /\ Registered(r)
    BY <1>1, <2>1 DEF ListIds
  <2>3. svc'[r] = "none"
    BY <1>0, <1>1, <2>1, <2>2 DEF RemoveRunner
  <2>4. Registered(r)'
    BY <1>1, <2>1, <2>2, StaysRegistered
  <2> QED
    BY <2>3, <2>4
<1>2. CASE pc = "deleteIdle" /\ UNCHANGED victim
  <2>1. r \in Runners /\ svc[r] = "none" /\ Registered(r)
    BY <1>2 DEF VictimRemoved, TypeInv, LocalType
  <2>2. Registered(r)'
    BY <1>2, <2>1, StaysRegistered
  <2>3. CASE \/ RunnerRegisters \/ RunnerGone \/ RunnerIsMarked \/ JobAssigned \/ JobEnds \/ RemoveRunner
    BY <1>0, <1>2, <2>1, <2>2, <2>3 DEF Registered, RunnerRegisters, RunnerGone, RunnerIsMarked, JobAssigned,
       JobEnds, Busy, RemoveRunner, Removing
  <2>4. CASE \/ StartReconcile \/ AddFinalizer \/ CreateRunner \/ JobStillRunning \/ DeleteRunner
             \/ DeleteTerminated \/ EndLoop \/ UpdateStatus \/ DropFinalizer \/ CallFails
             \/ ControllerRestarts \/ Watches
    BY <2>1, <2>2, <2>4 DEF StartReconcile, AddFinalizer, CreateRunner, JobStillRunning, DeleteRunner,
       DeleteTerminated, EndLoop, UpdateStatus, DropFinalizer, CallFails, ControllerRestarts,
       Watches, WatchSet, WatchRunners
  <2>5. CASE \/ Listener \/ RestartListener \/ Owner \/ RunnerProgresses \/ RunnerEnds
             \/ CollectGarbage \/ JobQueued \/ JobCancelled
    BY <2>1, <2>2, <2>5 DEF Listener, GetMessage, Poll, HandleJobStarted, RestartListener, Owner,
       DeleteListener, DrainSet, DeleteSet, RunnerProgresses, RunnerEnds, CollectGarbage,
       JobQueued, JobCancelled
  <2> QED
    BY <2>2, <2>3, <2>4, <2>5 DEF Next, Reconcile, Troubles, RunnersAndJobs
<1> QED
  BY <1>1, <1>2, LoopSteps, FirstStepValues

(* A set that is deleted stays so. *)
LEMMA StaysDeleted ==
  ASSUME TypeInv, Next, set.del \/ ~set.exists
  PROVE  set'.del \/ ~set'.exists
<1>0. set \in SetRec
  BY DEF TypeInv, ApiType
<1>1. CASE AddFinalizer \/ DropFinalizer \/ UpdateStatus \/ DeleteSet
  <2>1. \/ set' = set
        \/ set' = NoSet
        \/ set' = [set EXCEPT !.fin = TRUE]
        \/ set' = [set EXCEPT !.status = lStatus]
        \/ set' = [set EXCEPT !.del = TRUE]
    BY <1>1 DEF AddFinalizer, DropFinalizer, UpdateStatus, DeleteSet
  <2>2. NoSet.exists = FALSE
    BY DEF NoSet
  <2> QED
    BY <1>0, <2>1, <2>2 DEF SetRec
<1>2. CASE \/ StartReconcile \/ CreateRunner \/ RemoveRunner \/ JobStillRunning \/ DeleteRunner
           \/ DeleteTerminated \/ EndLoop \/ Troubles \/ Watches
  BY <1>2 DEF StartReconcile, CreateRunner, RemoveRunner, JobStillRunning, DeleteRunner,
     DeleteTerminated, EndLoop, Troubles, CallFails, ControllerRestarts, RestartListener, RunnerIsMarked,
     Watches, WatchSet, WatchRunners, apiVars
<1>3. CASE Listener \/ DeleteListener \/ DrainSet \/ RunnersAndJobs
  BY <1>3 DEF Listener, GetMessage, Poll, HandleJobStarted, DeleteListener, DrainSet, RunnersAndJobs,
     RunnerRegisters, RunnerProgresses, RunnerEnds, RunnerGone, CollectGarbage, JobQueued,
     JobAssigned, JobCancelled, JobEnds, apiVars
<1> QED
  BY <1>1, <1>2, <1>3 DEF Next, Reconcile, Owner

(* A set that is torn down is deleted. *)
LEMMA TornDownStep ==
  ASSUME TypeInv, TornDownWhenDeleted, Next
  PROVE  TornDownWhenDeleted'
<1>1. CASE set.del \/ ~set.exists
  BY <1>1, StaysDeleted DEF TornDownWhenDeleted
<1>2. CASE ~set.del /\ set.exists
  <2>1. ~setCache.set.del /\ pc \notin Teardown
    BY <1>2 DEF TornDownWhenDeleted
  <2>2. setCache'.set.del => set'.del
    BY <2>1, CacheSteps DEF View
  <2>3. pc' \notin Teardown
    <3>1. CASE StartReconcile
      BY <2>1, <3>1, FirstStepValues DEF StartReconcile, Teardown
    <3>2. CASE AddFinalizer \/ UpdateStatus \/ DropFinalizer \/ ControllerRestarts
      BY <3>2 DEF AddFinalizer, UpdateStatus, DropFinalizer, ControllerRestarts, Return, Teardown
    <3>3. CASE CreateRunner \/ RemoveRunner \/ JobStillRunning \/ DeleteRunner \/ DeleteTerminated
      BY <2>1, <3>3 DEF CreateRunner, RemoveRunner, Removing, JobStillRunning, DeleteRunner,
         DeleteTerminated, Teardown
    <3>4. CASE EndLoop
      BY <2>1, <3>4 DEF EndLoop, LoopDone, Return, Teardown
    <3>5. CASE CallFails
      BY <2>1, <3>5 DEF CallFails, Return, Teardown
    <3>6. CASE Watches \/ Listener \/ Owner \/ RestartListener \/ RunnerIsMarked \/ RunnersAndJobs
      BY <2>1, <3>6 DEF Watches, WatchSet, WatchRunners, Listener, GetMessage, Poll, HandleJobStarted,
         Owner, DeleteListener, DrainSet, DeleteSet, RestartListener, RunnerIsMarked, RunnersAndJobs,
         RunnerRegisters, RunnerProgresses, RunnerEnds, RunnerGone, CollectGarbage, JobQueued,
         JobAssigned, JobCancelled, JobEnds, ctrlVars, localVars
    <3> QED
      BY <3>1, <3>2, <3>3, <3>4, <3>5, <3>6 DEF Next, Reconcile, Troubles
  <2> QED
    BY <2>2, <2>3 DEF TornDownWhenDeleted
<1> QED
  BY <1>1, <1>2 DEF TypeInv, ApiType, SetRec

(* These hold initially. *)
LEMMA SparesInvInit == Init => SparesInv
<1> SUFFICES ASSUME Init PROVE SparesInv
  OBVIOUS
<1>1. CacheIds
  BY DEF Init, CacheIds, NoList, NoRunner
<1>2. ListIds /\ VictimRemoved
  BY DEF Init, ListIds, VictimRemoved
<1>3. TornDownWhenDeleted
  BY DEF Init, TornDownWhenDeleted, Teardown, NoView, View, NewSet, NoSet
<1> QED
  BY <1>1, <1>2, <1>3 DEF SparesInv

(* Every step keeps them. *)
LEMMA SparesInvNext == TypeInv /\ SparesInv /\ [Next]_vars => SparesInv'
<1> SUFFICES ASSUME TypeInv, SparesInv, [Next]_vars PROVE SparesInv'
  OBVIOUS
<1>1. CASE Next
  BY <1>1, CacheIdsStep, ListIdsStep, VictimRemovedStep, TornDownStep DEF SparesInv
<1>2. CASE UNCHANGED vars
  BY <1>2 DEF vars, SparesInv, CacheIds, ListIds, VictimRemoved, TornDownWhenDeleted, Registered
<1> QED
  BY <1>1, <1>2

(* ephemeralrunnerset_controller.go, deleteIdleEphemeralRunners: however old   *)
(* the caches are and whatever happens between list, removal and deletion,    *)
(* scaling down never deletes a runner that has a job.                        *)
THEOREM ScaleSetSparesJobs == Spec => ScaleDownSparesJobs
<1> DEFINE Spares == \A r \in Runners :
             set.exists /\ ~set.del /\ svc[r] = "busy" /\ Live(r) => runner'[r].st # "deleting"
<1>1. TypeInv /\ SparesInv /\ [Next]_vars => [Spares]_vars
  <2> SUFFICES ASSUME TypeInv, SparesInv, Next, NEW r \in Runners,
                      set.exists, ~set.del, svc[r] = "busy", runner[r].st \in {"pending", "running"}
               PROVE  runner'[r].st # "deleting"
    BY DEF Live
  <2>0. runner \in [Runners -> RunnerRec] /\ pc \notin Teardown
    BY DEF TypeInv, ApiType, SparesInv, TornDownWhenDeleted
  <2>1. CASE DeleteRunner
    <3>1. PICK q \in victim : runner' = Deleted(q)
      BY <2>1 DEF DeleteRunner
    <3>2. q # r /\ q \in Runners
      BY <2>0, <2>1 DEF DeleteRunner, Teardown, SparesInv, VictimRemoved, TypeInv, LocalType
    <3> QED
      BY <2>0, <3>1, <3>2 DEF Deleted, RunnerRec
  <2>2. CASE DeleteTerminated
    BY <2>0, <2>2 DEF DeleteTerminated, Teardown
  <2>3. CASE CreateRunner
    BY <2>0, <2>3 DEF CreateRunner, Free, NoRunner, RunnerRec
  <2>4. CASE HandleJobStarted
    <3>1. PICK q \in Runners :
             runner' = IF runner[q].st = "none" THEN runner ELSE [runner EXCEPT ![q].job = TRUE]
      BY <2>4 DEF HandleJobStarted, TypeInv, ServiceType
    <3> QED
      BY <2>0, <3>1 DEF RunnerRec
  <2>5. CASE RunnerProgresses \/ RunnerEnds \/ RunnerGone \/ RunnerIsMarked \/ CollectGarbage
    BY <2>0, <2>5 DEF RunnerProgresses, RunnerEnds, RunnerGone, RunnerIsMarked, CollectGarbage, Live,
       Listed, In, RunnerRec, NoRunner
  <2>6. CASE \/ StartReconcile \/ AddFinalizer \/ RemoveRunner \/ JobStillRunning \/ EndLoop
             \/ UpdateStatus \/ DropFinalizer \/ CallFails \/ ControllerRestarts \/ Watches
    BY <2>6 DEF StartReconcile, AddFinalizer, RemoveRunner, JobStillRunning, EndLoop, UpdateStatus,
       DropFinalizer, CallFails, ControllerRestarts, Watches, WatchSet, WatchRunners, apiVars
  <2>7. CASE \/ GetMessage \/ Poll \/ RestartListener \/ Owner \/ RunnerRegisters \/ JobQueued
             \/ JobAssigned \/ JobCancelled \/ JobEnds
    BY <2>7 DEF GetMessage, Poll, RestartListener, Owner, DeleteListener, DrainSet, DeleteSet,
       RunnerRegisters, JobQueued, JobAssigned, JobCancelled, JobEnds, apiVars
  <2> QED
    BY <2>1, <2>2, <2>3, <2>4, <2>5, <2>6, <2>7
       DEF Next, Reconcile, Troubles, Listener, RunnersAndJobs
<1>2. Spec => []SparesInv
  BY TypeInvAlways, SparesInvInit, SparesInvNext, PTL DEF Spec
<1> QED
  BY <1>1, <1>2, TypeInvAlways, PTL DEF Spec, ScaleDownSparesJobs
-----------------------------------------------------------------------------
(* Scaling up, with prompt watches. What is left to create never exceeds the   *)
(* places that are left, because runners only ever leave while Reconcile       *)
(* creates others.                                                             *)
StandingSet == {r \in Runners : runner[r].st \in {"pending", "running", "failed"}}

Prompt == setCache = View /\ runnerCache = runner

PlacesLeft == pc = "create" => count + Standing <= MaxRunners

PromptInv == Prompt /\ PlacesLeft /\ MaxRunnersRespected

(* Caches that do not lag stay up to date. *)
LEMMA PromptStep ==
  ASSUME ~CacheLags, Prompt, Next
  PROVE  Prompt'
<1>1. ASSUME NEW q, Settle(q) PROVE Prompt'
  BY <1>1 DEF Settle, Prompt
<1>2. CASE StartReconcile \/ ControllerRestarts \/ WatchSet
  BY <1>2 DEF StartReconcile, ControllerRestarts, WatchSet, cacheVars, apiVars, View, Prompt
<1>3. CASE WatchRunners
  BY <1>3 DEF WatchRunners, Prompt
<1>4. CASE \/ AddFinalizer \/ CreateRunner \/ RemoveRunner \/ JobStillRunning \/ DeleteRunner
           \/ DeleteTerminated \/ EndLoop \/ UpdateStatus \/ DropFinalizer \/ CallFails
  BY <1>1, <1>4 DEF AddFinalizer, CreateRunner, RemoveRunner, JobStillRunning, DeleteRunner,
     DeleteTerminated, EndLoop, UpdateStatus, DropFinalizer, CallFails
<1>5. CASE Listener \/ Owner \/ RestartListener \/ RunnerIsMarked \/ RunnersAndJobs
  BY <1>1, <1>5 DEF Listener, GetMessage, Poll, HandleJobStarted, Owner, DeleteListener, DrainSet,
     DeleteSet, RestartListener, RunnerIsMarked, RunnersAndJobs, RunnerRegisters, RunnerProgresses,
     RunnerEnds, RunnerGone, CollectGarbage, JobQueued, JobAssigned, JobCancelled, JobEnds
<1> QED
  BY <1>2, <1>3, <1>4, <1>5 DEF Next, Reconcile, Troubles, Watches

(* A sum stays below its bound when its parts do not grow. *)
LEMMA SumShrinks ==
  ASSUME NEW a \in Nat, NEW b \in Nat, NEW c \in Nat, NEW d \in Nat, NEW m \in Nat,
         c <= a, d <= b, a + b <= m
  PROVE  c + d <= m
OBVIOUS

(* The runners that stand have a number. *)
LEMMA StandingType ==
  /\ IsFiniteSet(StandingSet)
  /\ Standing = Cardinality(StandingSet)
  /\ Standing \in Nat
<1>1. IsFiniteSet(StandingSet) /\ Cardinality(StandingSet) \in Nat
  BY RunnersFinite DEF StandingSet
<1> QED
  BY <1>1 DEF Standing, StandingSet

(* Only CreateRunner adds a runner. *)
LEMMA StandingShrinks ==
  ASSUME TypeInv, Next, ~CreateRunner
  PROVE  StandingSet' \subseteq StandingSet
<1>0. runner \in [Runners -> RunnerRec]
  BY DEF TypeInv, ApiType
<1>1. CASE DeleteRunner \/ DeleteTerminated
  <2>1. PICK q \in Runners : runner' = Deleted(q)
    BY <1>1 DEF DeleteRunner, DeleteTerminated, Terminated, In, TypeInv, LocalType
  <2> QED
    BY <1>0, <2>1 DEF Deleted, RunnerRec, StandingSet
<1>2. CASE HandleJobStarted
  <2>1. PICK q \in Runners :
           runner' = IF runner[q].st = "none" THEN runner ELSE [runner EXCEPT ![q].job = TRUE]
    BY <1>2 DEF HandleJobStarted, TypeInv, ServiceType
  <2> QED
    BY <1>0, <2>1 DEF RunnerRec, StandingSet
<1>3. CASE RunnerProgresses \/ RunnerEnds \/ RunnerIsMarked
  BY <1>0, <1>3 DEF RunnerProgresses, RunnerEnds, RunnerIsMarked, Live, RunnerRec, StandingSet
<1>4. CASE RunnerGone
  BY <1>0, <1>4 DEF RunnerGone, NoRunner, StandingSet
<1>5. CASE CollectGarbage
  BY <1>0, <1>5 DEF CollectGarbage, Listed, In, RunnerRec, StandingSet
<1>6. CASE \/ StartReconcile \/ AddFinalizer \/ RemoveRunner \/ JobStillRunning \/ EndLoop
           \/ UpdateStatus \/ DropFinalizer \/ CallFails \/ ControllerRestarts \/ Watches
  BY <1>6 DEF StartReconcile, AddFinalizer, RemoveRunner, JobStillRunning, EndLoop, UpdateStatus,
     DropFinalizer, CallFails, ControllerRestarts, Watches, WatchSet, WatchRunners, apiVars, StandingSet
<1>7. CASE \/ GetMessage \/ Poll \/ RestartListener \/ Owner \/ RunnerRegisters \/ JobQueued
           \/ JobAssigned \/ JobCancelled \/ JobEnds
  BY <1>7 DEF GetMessage, Poll, RestartListener, Owner, DeleteListener, DrainSet, DeleteSet,
     RunnerRegisters, JobQueued, JobAssigned, JobCancelled, JobEnds, apiVars, StandingSet
<1> QED
  BY <1>1, <1>2, <1>3, <1>4, <1>5, <1>6, <1>7
     DEF Next, Reconcile, Troubles, Listener, RunnersAndJobs

(* How a Reconcile gets into the loop of creations, and goes on in it. *)
LEMMA CreateSteps ==
  ASSUME Next, pc' = "create", ~CreateRunner
  PROVE  StartReconcile \/ (pc = "create" /\ count' \in {count, count - 1})
<1>1. CASE StartReconcile
  BY <1>1
<1>2. CASE AddFinalizer \/ UpdateStatus \/ DropFinalizer \/ ControllerRestarts
  BY <1>2 DEF AddFinalizer, UpdateStatus, DropFinalizer, ControllerRestarts, Return
<1>3. CASE RemoveRunner \/ JobStillRunning \/ DeleteRunner \/ DeleteTerminated
  BY <1>3 DEF RemoveRunner, JobStillRunning, DeleteRunner, DeleteTerminated
<1>4. CASE EndLoop
  BY <1>4 DEF EndLoop, LoopDone, Return
<1>5. CASE CallFails
  BY <1>5 DEF CallFails, Return, Removing
<1>6. CASE Watches \/ Listener \/ Owner \/ RestartListener \/ RunnerIsMarked \/ RunnersAndJobs
  BY <1>6 DEF Watches, WatchSet, WatchRunners, Listener, GetMessage, Poll, HandleJobStarted,
     Owner, DeleteListener, DrainSet, DeleteSet, RestartListener, RunnerIsMarked, RunnersAndJobs,
     RunnerRegisters, RunnerProgresses, RunnerEnds, RunnerGone, CollectGarbage, JobQueued,
     JobAssigned, JobCancelled, JobEnds, ctrlVars, localVars
<1> QED
  BY <1>1, <1>2, <1>3, <1>4, <1>5, <1>6 DEF Next, Reconcile, Troubles

(* Every step keeps the runners that stand, and those still to be created, within the limit. *)
LEMMA PromptInvNext ==
  ASSUME TypeInv, TypeInv', ~CacheLags, PromptInv, Next
  PROVE  PromptInv'
<1> USE ScalerAssumption
<1>0. Prompt'
  BY PromptStep DEF PromptInv
<1>1. CASE CreateRunner
  <2>1. PICK r \in Runners :
           /\ Free(r)
           /\ runner' = [runner EXCEPT ![r].st = "pending", ![r].patch = lPatchID]
    BY <1>1 DEF CreateRunner
  <2>2. r \notin StandingSet /\ StandingSet' = StandingSet \cup {r}
    BY <2>1 DEF StandingSet, Free, NoRunner, TypeInv, ApiType, RunnerRec
  <2>3. Cardinality(StandingSet') = Standing + 1
    BY <2>2, StandingType, FS_AddElement
  <2>4. Standing' = Cardinality(StandingSet')
    BY DEF Standing, StandingSet
  <2>5. /\ count' = count - 1 /\ count > 0 /\ count \in Nat
        /\ count + Standing <= MaxRunners
    <3>1. count \in Nat
      BY FS_CardinalityType, ScaleSetAssumption DEF TypeInv, LocalType
    <3> QED
      BY <1>1, <3>1 DEF CreateRunner, PromptInv, PlacesLeft
  <2> QED
    BY <1>0, <2>3, <2>4, <2>5, StandingType DEF PromptInv, PlacesLeft, MaxRunnersRespected
<1>2. CASE ~CreateRunner
  <2>1. StandingSet' \subseteq StandingSet
    BY <1>2, StandingShrinks
  <2>2. Standing' = Cardinality(StandingSet')
    BY DEF Standing, StandingSet
  <2>3. Standing' <= Standing /\ Standing \in Nat /\ Standing' \in Nat
    BY <2>1, <2>2, StandingType, FS_Subset, FS_CardinalityType
  <2>4. count \in Nat /\ count' \in Nat
    BY FS_CardinalityType, ScaleSetAssumption DEF TypeInv, LocalType
  <2>5. CASE StartReconcile
    <3>1. pc' = "create" => /\ FirstStep(setCache, runnerCache) = "create"
                            /\ count' = spec.replicas - ScaleTotal(runner)
      BY <2>5 DEF StartReconcile, PromptInv, Prompt, View
    <3>2. ScaleTotal(runner) = Standing
      BY DEF ScaleTotal, In, Standing
    <3>3. spec.replicas \in 0..MaxRunners
      BY SpecType DEF TypeInv, SpecRec
    <3> QED
      BY <1>0, <2>3, <3>1, <3>2, <3>3 DEF PromptInv, PlacesLeft, MaxRunnersRespected
  <2>6. CASE ~StartReconcile
    <3>1. pc' = "create" => pc = "create" /\ count' \in {count, count - 1}
      BY <1>2, <2>6, CreateSteps
    <3>2. PlacesLeft'
      <4> SUFFICES ASSUME pc' = "create" PROVE count' + Standing' <= MaxRunners
        BY DEF PlacesLeft
      <4>1. count' <= count /\ count + Standing <= MaxRunners
        BY <2>4, <3>1 DEF PromptInv, PlacesLeft
      <4> QED
        BY <2>3, <2>4, <4>1, SumShrinks
    <3>3. MaxRunnersRespected'
      BY <2>3 DEF PromptInv, MaxRunnersRespected
    <3> QED
      BY <1>0, <3>2, <3>3 DEF PromptInv
  <2> QED
    BY <2>5, <2>6
<1> QED
  BY <1>1, <1>2

(* ephemeralrunnerset_controller.go, createEphemeralRunners, with the target   *)
(* of scaler.go: as long as the list shows the runners that exist, never more *)
(* than maxRunners stand, for all limits, all numbers of jobs and all         *)
(* sequences of failures and restarts.                                        *)
THEOREM ScaleSetMaxRunners == Spec => [](~CacheLags => MaxRunnersRespected)
<1> DEFINE Inv == ~CacheLags => PromptInv
<1>1. Init => Inv
  <2> SUFFICES ASSUME Init, ~CacheLags PROVE PromptInv
    OBVIOUS
  <2>1. Prompt
    BY DEF Init, Prompt
  <2>2. StandingSet = {}
    BY DEF Init, StandingSet, NoList, NoRunner
  <2>3. Standing = 0
    BY <2>2, StandingType, FS_EmptySet
  <2> QED
    BY <2>1, <2>3, ScalerAssumption DEF Init, PromptInv, PlacesLeft, MaxRunnersRespected
<1>2. TypeInv /\ TypeInv' /\ Inv /\ [Next]_vars => Inv'
  <2> SUFFICES ASSUME TypeInv, TypeInv', Inv, [Next]_vars, ~CacheLags PROVE PromptInv'
    OBVIOUS
  <2>1. CASE Next
    BY <2>1, PromptInvNext
  <2>2. CASE UNCHANGED vars
    BY <2>2 DEF vars, PromptInv, Prompt, PlacesLeft, MaxRunnersRespected, Standing, View
  <2> QED
    BY <2>1, <2>2
<1>3. Inv => (~CacheLags => MaxRunnersRespected)
  BY DEF PromptInv
<1> QED
  BY <1>1, <1>2, <1>3, TypeInvAlways, PTL DEF Spec
-----------------------------------------------------------------------------
(* Teardown, with prompt watches. A runner is only created for a set that has  *)
(* its finalizer, and the finalizer only goes when no runner is left; between  *)
(* the list that shows this and the patch nothing can create one.             *)
OrphanInv ==
    /\ pc = "create" => set.exists /\ set.fin
    /\ pc = "dropFinalizer" \/ ~set.exists \/ ~set.fin => Listed(runner) = {}

(* A runner is created for a set with its finalizer; the finalizer goes when no runner is listed. *)
LEMMA FirstStepGuards ==
  ASSUME NEW v \in [set : SetRec, spec : SpecRec], NEW list
  PROVE  /\ FirstStep(v, list) = "create" => v.set.exists /\ v.set.fin
         /\ FirstStep(v, list) = "dropFinalizer" => Listed(list) = {}
BY DEF FirstStep, ScaleStep, CleanupStep, SetRec

(* Only a creation adds to the runners that exist. *)
LEMMA ListedShrinks ==
  ASSUME TypeInv, Next, ~CreateRunner
  PROVE  Listed(runner)' \subseteq Listed(runner)
<1> USE DEF Listed, In, States
<1>0. runner \in [Runners -> RunnerRec]
  BY DEF TypeInv, ApiType
<1>1. CASE DeleteRunner \/ DeleteTerminated
  <2>1. PICK q \in Runners : runner' = Deleted(q)
    BY <1>1 DEF DeleteRunner, DeleteTerminated, Terminated, TypeInv, LocalType
  <2> QED
    BY <1>0, <2>1 DEF Deleted, RunnerRec
<1>2. CASE HandleJobStarted
  <2>1. PICK q \in Runners :
           runner' = IF runner[q].st = "none" THEN runner ELSE [runner EXCEPT ![q].job = TRUE]
    BY <1>2 DEF HandleJobStarted, TypeInv, ServiceType
  <2> QED
    BY <1>0, <2>1 DEF RunnerRec
<1>3. CASE RunnerProgresses \/ RunnerEnds \/ RunnerIsMarked
  BY <1>0, <1>3 DEF RunnerProgresses, RunnerEnds, RunnerIsMarked, Live, RunnerRec
<1>4. CASE RunnerGone \/ CollectGarbage
  BY <1>0, <1>4 DEF RunnerGone, CollectGarbage, NoRunner, RunnerRec
<1>5. CASE \/ StartReconcile \/ AddFinalizer \/ RemoveRunner \/ JobStillRunning \/ EndLoop
           \/ UpdateStatus \/ DropFinalizer \/ CallFails \/ ControllerRestarts \/ Watches
  BY <1>5 DEF StartReconcile, AddFinalizer, RemoveRunner, JobStillRunning, EndLoop, UpdateStatus,
     DropFinalizer, CallFails, ControllerRestarts, Watches, WatchSet, WatchRunners, apiVars
<1>6. CASE \/ GetMessage \/ Poll \/ RestartListener \/ Owner \/ RunnerRegisters \/ JobQueued
           \/ JobAssigned \/ JobCancelled \/ JobEnds
  BY <1>6 DEF GetMessage, Poll, RestartListener, Owner, DeleteListener, DrainSet, DeleteSet,
     RunnerRegisters, JobQueued, JobAssigned, JobCancelled, JobEnds, apiVars
<1> QED
  BY <1>1, <1>2, <1>3, <1>4, <1>5, <1>6
     DEF Next, Reconcile, Troubles, Listener, RunnersAndJobs

(* Who may take the finalizer or the set away. *)
LEMMA FinalizerSteps ==
  ASSUME TypeInv, Next, set.exists, set.fin
  PROVE  (set'.exists /\ set'.fin) \/ pc = "dropFinalizer"
<1>0. set \in SetRec
  BY DEF TypeInv, ApiType
<1>1. CASE DropFinalizer
  BY <1>1 DEF DropFinalizer
<1>2. CASE AddFinalizer \/ UpdateStatus \/ DeleteSet
  <2>1. \/ set' = set
        \/ set' = [set EXCEPT !.fin = TRUE]
        \/ set' = [set EXCEPT !.status = lStatus]
        \/ set' = [set EXCEPT !.del = TRUE]
    BY <1>2 DEF AddFinalizer, UpdateStatus, DeleteSet
  <2> QED
    BY <1>0, <2>1 DEF SetRec
<1>3. CASE \/ StartReconcile \/ CreateRunner \/ RemoveRunner \/ JobStillRunning \/ DeleteRunner
           \/ DeleteTerminated \/ EndLoop \/ Troubles \/ Watches
  BY <1>3 DEF StartReconcile, CreateRunner, RemoveRunner, JobStillRunning, DeleteRunner,
     DeleteTerminated, EndLoop, Troubles, CallFails, ControllerRestarts, RestartListener, RunnerIsMarked,
     Watches, WatchSet, WatchRunners, apiVars
<1>4. CASE Listener \/ DeleteListener \/ DrainSet \/ RunnersAndJobs
  BY <1>4 DEF Listener, GetMessage, Poll, HandleJobStarted, DeleteListener, DrainSet, RunnersAndJobs,
     RunnerRegisters, RunnerProgresses, RunnerEnds, RunnerGone, CollectGarbage, JobQueued,
     JobAssigned, JobCancelled, JobEnds, apiVars
<1> QED
  BY <1>1, <1>2, <1>3, <1>4 DEF Next, Reconcile, Owner

(* How a Reconcile gets to the finalizer. *)
LEMMA DropSteps ==
  ASSUME Next, pc' = "dropFinalizer"
  PROVE  StartReconcile \/ pc = "dropFinalizer"
<1>1. CASE AddFinalizer \/ UpdateStatus \/ DropFinalizer \/ ControllerRestarts
  BY <1>1 DEF AddFinalizer, UpdateStatus, DropFinalizer, ControllerRestarts, Return
<1>2. CASE CreateRunner \/ RemoveRunner \/ JobStillRunning \/ DeleteRunner \/ DeleteTerminated
  BY <1>2 DEF CreateRunner, RemoveRunner, JobStillRunning, DeleteRunner, DeleteTerminated
<1>3. CASE EndLoop \/ CallFails
  BY <1>3 DEF EndLoop, CallFails, Return
<1>4. CASE Watches \/ Listener \/ Owner \/ RestartListener \/ RunnerIsMarked \/ RunnersAndJobs
  BY <1>4 DEF Watches, WatchSet, WatchRunners, Listener, GetMessage, Poll, HandleJobStarted,
     Owner, DeleteListener, DrainSet, DeleteSet, RestartListener, RunnerIsMarked, RunnersAndJobs,
     RunnerRegisters, RunnerProgresses, RunnerEnds, RunnerGone, CollectGarbage, JobQueued,
     JobAssigned, JobCancelled, JobEnds, ctrlVars, localVars
<1> QED
  BY <1>1, <1>2, <1>3, <1>4 DEF Next, Reconcile, Troubles

(* Every step keeps the finalizer as long as a runner exists. *)
LEMMA OrphanInvNext ==
  ASSUME TypeInv, Prompt, OrphanInv, Next
  PROVE  OrphanInv'
<1>0. set \in SetRec /\ setCache \in [set : SetRec, spec : SpecRec]
  BY DEF TypeInv, ApiType, CacheType
<1>1. CASE CreateRunner
  <2>1. pc = "create" /\ pc' = pc /\ set' = set
    BY <1>1 DEF CreateRunner
  <2> QED
    BY <2>1 DEF OrphanInv
<1>2. CASE ~CreateRunner
  <2>1. Listed(runner)' \subseteq Listed(runner)
    BY <1>2, ListedShrinks
  <2>2. CASE StartReconcile
    <3>1. pc' = FirstStep(setCache, runnerCache) /\ set' = set /\ runner' = runner
      BY <2>2 DEF StartReconcile, apiVars
    <3>2. setCache.set = set /\ runnerCache = runner
      BY DEF Prompt, View
    <3>3. pc' = "create" => set.exists /\ set.fin
      BY <1>0, <3>1, <3>2, FirstStepGuards
    <3>4. pc' = "dropFinalizer" => Listed(runner) = {}
      BY <1>0, <3>1, <3>2, FirstStepGuards
    <3> QED
      BY <2>1, <3>1, <3>3, <3>4 DEF OrphanInv
  <2>3. CASE ~StartReconcile
    <3>1. pc' = "create" => pc = "create"
      BY <1>2, <2>3, CreateSteps
    <3>2. pc' = "dropFinalizer" => pc = "dropFinalizer"
      BY <2>3, DropSteps
    <3>3. pc' = "create" => set'.exists /\ set'.fin
      BY <3>1, FinalizerSteps DEF OrphanInv
    <3>4. ~set'.exists \/ ~set'.fin => Listed(runner) = {}
      BY FinalizerSteps DEF OrphanInv
    <3>5. pc' = "dropFinalizer" => Listed(runner) = {}
      BY <3>2 DEF OrphanInv
    <3> QED
      BY <2>1, <3>3, <3>4, <3>5 DEF OrphanInv
  <2> QED
    BY <2>2, <2>3
<1> QED
  BY <1>1, <1>2

(* ephemeralrunnerset_controller.go, cleanUpEphemeralRunners and the finalizer: *)
(* with prompt watches the set outlives its runners, for all numbers of        *)
(* runners, however teardown is interrupted.                                   *)
THEOREM ScaleSetNoOrphans == Spec => [](~CacheLags => NoOrphans)
<1> DEFINE Inv == ~CacheLags => Prompt /\ OrphanInv
<1>1. Init => Inv
  BY DEF Init, Prompt, OrphanInv, Listed, In, NoList, NoRunner
<1>2. TypeInv /\ Inv /\ [Next]_vars => Inv'
  <2> SUFFICES ASSUME TypeInv, Inv, [Next]_vars, ~CacheLags PROVE Prompt' /\ OrphanInv'
    OBVIOUS
  <2>1. CASE Next
    BY <2>1, PromptStep, OrphanInvNext
  <2>2. CASE UNCHANGED vars
    BY <2>2 DEF vars, Prompt, OrphanInv, Listed, In, View
  <2> QED
    BY <2>1, <2>2
<1>3. Inv => (~CacheLags => NoOrphans)
  BY DEF OrphanInv, NoOrphans
<1> QED
  BY <1>1, <1>2, <1>3, TypeInvAlways, PTL DEF Spec
=============================================================================
