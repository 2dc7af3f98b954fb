-------------------------------- MODULE Scaler --------------------------------
(***************************************************************************)
(* The listener's Scaler: it turns the number of jobs GitHub has assigned   *)
(* to the scale set into a patch of the EphemeralRunnerSet's spec, replicas *)
(* and patchID. The EphemeralRunnerSet controller acts once on a patchID    *)
(* and enforces the exact number of runners when the patchID is 0.          *)
(***************************************************************************)
EXTENDS Integers

CONSTANTS
    MinRunners, MaxRunners,  \* the scale set's limits
    MaxSeq,                  \* math.MaxInt32, where patchSeq wraps
    MaxCount                 \* bound: jobs assigned to the scale set

ASSUME ScalerAssumption ==
    /\ MinRunners \in Nat
    /\ MaxRunners \in Nat
    /\ MinRunners <= MaxRunners
    /\ MaxSeq \in Nat /\ MaxSeq >= 2
    /\ MaxCount \in Nat

VARIABLES
    targetRunners,  \* Scaler.targetRunners
    patchSeq,       \* Scaler.patchSeq
    dirty,          \* Scaler.dirty: a job started or completed since the last patch
    spec            \* replicas and patchID of the EphemeralRunnerSet

scalerVars == <<targetRunners, patchSeq, dirty>>
scalerAll == <<targetRunners, patchSeq, dirty, spec>>

(* newEphemeralRunnerSet leaves both fields at 0. *)
InitialSpec == [replicas |-> 0, patchID |-> 0]

NewScaler ==
    /\ targetRunners = -1
    /\ patchSeq = -1
    /\ dirty = FALSE

ScalerInit == NewScaler /\ spec = InitialSpec
-----------------------------------------------------------------------------
(* setDesiredWorkerState *)
NextSeqWrappingLate == IF patchSeq = MaxSeq THEN 0 ELSE patchSeq + 1

NextSeq == IF patchSeq = MaxSeq THEN 1 ELSE patchSeq + 1

Target(count) ==
    IF MinRunners + count < MaxRunners THEN MinRunners + count ELSE MaxRunners

Quiet(count) ==
    /\ ~dirty
    /\ Target(count) = targetRunners
    /\ Target(count) = MinRunners

PatchIDKeptWhenUnchanged(count) ==
    IF Target(count) = targetRunners THEN spec.patchID ELSE NextSeq

PatchIDAfterSpec(count) == IF Quiet(count) THEN 0 ELSE IF spec.patchID = MaxSeq THEN 1 ELSE spec.patchID + 1

PatchID(count) == IF Quiet(count) THEN 0 ELSE NextSeq

SetDesiredWorkerStateKeepingDirty(count) ==
    /\ targetRunners' = Target(count)
    /\ patchSeq' = NextSeq
    /\ UNCHANGED dirty

(* HandleDesiredRunnerCount: the state changes before the patch is sent. *)
SetDesiredWorkerState(count) ==
    /\ targetRunners' = Target(count)
    /\ patchSeq' = NextSeq
    /\ dirty' = FALSE

HandleDesiredRunnerCount(count) ==
    /\ SetDesiredWorkerState(count)
    /\ spec' = [replicas |-> Target(count), patchID |-> PatchID(count)]

(* HandleJobStarted and HandleJobCompleted *)
HandleJobEvent ==
    /\ dirty' = TRUE
    /\ UNCHANGED <<targetRunners, patchSeq, spec>>

(* The listener's process ends, with an error of a handler (a failed patch     *)
(* included) or for any other reason, and a new one calls New.                *)
ListenerRestarts ==
    /\ targetRunners' = -1
    /\ patchSeq' = -1
    /\ dirty' = FALSE
    /\ UNCHANGED spec

(* The AutoscalingRunnerSet controller drains an EphemeralRunnerSet whose     *)
(* template changed.                                                          *)
DrainRunnerSet ==
    /\ spec' = InitialSpec
    /\ UNCHANGED scalerVars

ScalerNext ==
    \/ \E count \in 0..MaxCount : HandleDesiredRunnerCount(count)
    \/ HandleJobEvent
    \/ ListenerRestarts
    \/ DrainRunnerSet

ScalerSpec == ScalerInit /\ [][ScalerNext]_scalerAll
-----------------------------------------------------------------------------
(* Every variable holds a value of its kind. *)
ScalerTypeOK ==
    /\ targetRunners \in {-1} \cup MinRunners..MaxRunners
    /\ patchSeq \in -1..MaxSeq
    /\ dirty \in BOOLEAN
    /\ spec \in [replicas : Nat, patchID : 0..MaxSeq]

(* Safety: the replicas asked for stay within the scale set's limits, for any *)
(* number of assigned jobs, unless the set is drained; and the patchID in the *)
(* spec is 0 or the last one of this process, so a new process never          *)
(* continues the count of an old one.                                         *)
SpecInLimits ==
    /\ spec # InitialSpec => spec.replicas \in MinRunners..MaxRunners
    /\ patchSeq >= 0 => spec.patchID \in {0, patchSeq}

(* Action property: a patch that follows a job event carries a patchID that   *)
(* differs from the one in the spec or forces the state with 0. Otherwise the *)
(* EphemeralRunnerSet controller, which ignores a patchID it has acted on,    *)
(* would not see it; wrapping and restarts included.                          *)
EventsAreSeen ==
    [][\A asked \in 0..MaxCount :
          dirty /\ HandleDesiredRunnerCount(asked)
             => spec'.patchID # spec.patchID \/ spec'.patchID = 0]_scalerAll

(* Action property: the exact number of runners is only enforced (patchID 0)  *)
(* by the first patch of a process or when nothing happened since the last    *)
(* patch and the minimum is asked for twice in a row: never below a target    *)
(* that counts jobs whose start the listener has not heard of.                *)
ForcedOnlyWhenQuiet ==
    [][\A asked \in 0..MaxCount :
          HandleDesiredRunnerCount(asked) /\ spec'.patchID = 0 /\ patchSeq # -1
             => ~dirty /\ spec'.replicas = MinRunners /\ targetRunners = MinRunners]_scalerAll
=============================================================================
