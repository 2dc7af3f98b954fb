------------------------ MODULE EphemeralRunnerProofs ------------------------
(*****************************************************************************)
(* Theorems about EphemeralRunner, for all bounds, with or without container *)
(* hooks, and with caches that are prompt or lag. The inductive invariant    *)
(* has three parts: the types; PromptInv, for watches that deliver before    *)
(* anything else happens (~CachesLag), where all the rare events of RaceKinds*)
(* may happen; and LagInv, which says what an old copy of the runner or of   *)
(* the pod still tells of the object, as long as they do not happen.         *)
(*****************************************************************************)
EXTENDS EphemeralRunner, FiniteSetTheorems, TLAPS

(* The calls of a Reconcile that the runner is not being deleted in. *)
Work == {"addFinalizers", "getSecret", "generateJit", "getRunnerByName", "removeByName", "createSecret",
         "patchRunnerId", "deleteCorruptSecret", "getPod", "createPod", "markFailed", "markOutdated",
         "removeMarked", "updateStatus", "deletePodAsFailed", "patchFailure", "deleteRunner",
         "deleteRunnerWithJob", "removeBestEffort"}

(* Those before the secret exists. *)
Registering == {"generateJit", "getRunnerByName", "removeByName", "createSecret"}

(* Those after the runner id is in the status. *)
HavingId == {"getPod", "createPod", "markFailed", "markOutdated", "updateStatus",
             "deletePodAsFailed", "patchFailure", "deleteRunnerWithJob"}

(* Those after the registration is settled. *)
Teardown == {"cleanupPod", "cleanupSecret", "cleanupLinked", "dropFinalizer"}

(* The values of a field that is no runner id: none yet, or a secret that   *)
(* cannot be read.                                                          *)
NoId(s) == s \in {0, Unreadable}

(* Two places hold the same runner id, if both hold one. *)
Agree(x, y) == NoId(x) \/ NoId(y) \/ x = y

(* The object: its fields appear in the order Reconcile sets them, its      *)
(* finalizers go in the order Reconcile drops them, and who is deleted      *)
(* before the status has the runner id is counted as a race.                *)
RunnerInv ==
    /\ ~er.exists => er = NoRunner
    /\ er.exists => /\ er.afin => er.fin
                    /\ er.fin /\ ~er.afin => er.del
                    /\ er.del => er.fin
                    /\ ~er.fin => er.rid = 0 /\ er.phase = "" /\ er.fails = {}
                    /\ er.del /\ er.rid = 0 => "unregistered" \in races
    /\ Cardinality(er.fails) <= MaxFailures + 1

(* The pod is made after the runner id is known, with the config of a       *)
(* secret that had one; a runner that was marked failed or outdated has no  *)
(* pod that could still run.                                                *)
PodInv ==
    /\ pod.uid = 0 => pod = NoPod
    /\ pod.uid # 0 => pod.cfg # 0
    /\ pod.uid # 0 /\ er.exists => er.rid # 0
    /\ er.phase = "Failed" => pod.uid = 0
    /\ er.phase = "Outdated" => pod.uid = 0 \/ pod.state = "Exit7"

(* The four places that hold the runner id hold the same one, and the       *)
(* secret outlives what is derived from it until the runner is deleted or   *)
(* done.                                                                    *)
IdentityInv ==
    /\ Agree(reg, secret) /\ Agree(reg, er.rid) /\ Agree(reg, pod.cfg)
    /\ Agree(secret, er.rid) /\ Agree(secret, pod.cfg) /\ Agree(er.rid, pod.cfg)
    /\ er.exists /\ er.rid # 0 /\ secret = 0 => er.del \/ IsDone(er)

(* A job needs a registration. The registration finalizer goes when the     *)
(* service has no runner, unless the id was not known, and so the object    *)
(* goes when nothing is left of it.                                         *)
ServiceInv ==
    /\ busy => reg # 0
    /\ linked => Hooks /\ er.exists /\ er.rid # 0
    /\ er.del /\ ~er.afin => reg = 0 \/ er.rid = 0
    /\ ~er.exists => reg = 0 \/ (pod.uid = 0 /\ "unregistered" \in races)

(* What a Reconcile that is under way may still rely on, from the copy of   *)
(* the runner it read in the beginning: nobody but Reconcile writes those   *)
(* fields, so with prompt watches only the mark for deletion and the job    *)
(* come as a surprise.                                                      *)
LocalInv ==
    /\ pc # "idle" =>
         /\ lEr.exists
         /\ lEr.fin => er.exists
         /\ er.exists => /\ er.fin = lEr.fin /\ er.afin = lEr.afin /\ er.phase = lEr.phase
                         /\ er.rid = lEr.rid /\ er.fails = lEr.fails /\ (lEr.del => er.del)
    /\ pc \in Work \ {"addFinalizers"} => lEr.fin /\ lEr.afin
    /\ pc = "addFinalizers" => lEr.rid = 0
    /\ pc \in Work \ {"removeMarked"} => ~IsDone(lEr)
    /\ pc = "removeMarked" => IsDone(lEr)
    /\ pc \in Work /\ lEr.rid # 0 => secret # 0
    /\ pc \in Registering => secret = 0 /\ lEr.rid = 0
    /\ pc = "createSecret" => lSecret > 0 /\ reg \in {0, lSecret}
    /\ pc = "patchRunnerId" => lEr.rid = 0 /\ lSecret > 0 /\ secret \in {lSecret, Unreadable} /\ reg \in {0, lSecret}
    /\ pc = "deleteCorruptSecret" => lEr.rid = 0
    /\ pc \in HavingId => /\ lEr.rid # 0 /\ lSecret \in {lEr.rid, Unreadable}
                          /\ Cardinality(lEr.fails) <= MaxFailures
    /\ pc \in {"createPod", "markFailed"} => pod.uid = 0
    /\ pc = "markOutdated" => pod.uid = 0 \/ pod.state = "Exit7"
    /\ pc = "deletePodAsFailed" => pod.uid = 0 \/ pod.state \in {"ExitN", "Evicted"}
    /\ pc \in {"removeFromService", "dropActionsFinalizer"} => lEr.del /\ lEr.fin
    /\ pc = "dropActionsFinalizer" => reg = 0 \/ lEr.rid = 0
    /\ pc \in Teardown => lEr.fin /\ IF lEr.del THEN ~lEr.afin ELSE IsDone(lEr)
    /\ pc \in {"cleanupLinked", "dropFinalizer"} => lEr.del
    /\ pc = "dropFinalizer" => ~linked

(* The part of the inductive invariant that needs prompt watches. *)
PromptInv == RunnerInv /\ PodInv /\ IdentityInv /\ ServiceInv /\ LocalInv /\ ~killed

(* The calls of the deletion path, and of the cleanup of a runner that is   *)
(* done.                                                                    *)
Deleting == Teardown \cup {"removeFromService", "dropActionsFinalizer"}

(* The rest of the invariant makes no assumption on the watches: what a     *)
(* Reconcile does with a copy of the runner or of the pod that is older     *)
(* than the object. It holds as long as none of the rare events happened    *)
(* but the deletion of a runner without an id.                              *)
Quiet == races \subseteq {"unregistered"}

(* The copy that the next Reconcile reads says that the runner is to be     *)
(* deleted or is done, so that no later Reconcile works for it.             *)
Closed == erCache.del \/ IsDone(erCache)

(* Nothing of a runner that exists was torn down yet. *)
Open == er.exists /\ (pc \in Work \/ ~Closed)

(* A pod that stopped in one of these states may be replaced. *)
Crashed == {"ExitN", "Evicted"}

(* What is true of the object and of every copy that was made of it. *)
Ordered(e) ==
    /\ ~e.exists => e = NoRunner
    /\ e.afin => e.fin
    /\ e.fin /\ ~e.afin => e.del
    /\ e.del => e.fin
    /\ ~e.fin => e.rid = 0 /\ ~IsDone(e)
    /\ e.phase # "Failed"
    /\ races = {} /\ e.del => e.rid # 0

(* What a copy says that stays true of the object: its finalizers go only   *)
(* after a deletion, its mark, its id and its end stay.                     *)
Older(e) ==
    /\ e.fin /\ ~e.del => er.exists /\ er.fin
    /\ er.exists => /\ e.del => er.del
                    /\ e.rid \in {0, er.rid}
                    /\ IsDone(e) => IsDone(er)
                    /\ e.fin /\ ~e.afin => ~er.afin

(* The informer's copy of the runner and the one Reconcile holds. Where     *)
(* Reconcile is says which of its reasons are still good.                   *)
CopyInv ==
    /\ Ordered(er) /\ Ordered(erCache) /\ Ordered(lEr)
    /\ Older(erCache)
    /\ pc # "idle" => Older(lEr) /\ lEr.exists
    /\ er.exists /\ er.fin /\ ~er.afin => erCache.del /\ pc \notin Work
    /\ pc \in Work \ {"addFinalizers"} => er.exists /\ er.fin
    /\ pc \in Deleting /\ er.exists => Closed
    /\ pc \in {"removeFromService", "dropActionsFinalizer"} => lEr.del /\ (er.exists => erCache.del)
    /\ pc \in Teardown => lEr.fin /\ IF lEr.del THEN ~er.exists \/ (er.del /\ ~er.afin) ELSE IsDone(lEr)
    /\ pc \in {"cleanupLinked", "dropFinalizer"} => lEr.del

(* The pod and the informer's copy of it. Before the teardown only a pod    *)
(* that crashed is deleted, and only one that was seen; so a copy of a pod  *)
(* is of the pod that is there, and one that says how it stopped is right.  *)
PodsInv ==
    /\ pod.uid = 0 => pod = NoPod
    /\ podCache.uid = 0 => podCache = NoPod
    /\ pod.uid # 0 /\ er.exists => er.rid # 0
    /\ er.exists /\ IsDone(er) => pod.uid = 0 \/ pod.state = "Exit7"
    /\ Open => /\ pod.del => pod.state \in Crashed /\ podCache.uid # 0
               /\ podCache.uid # 0 /\ pod.uid # 0 => podCache.uid = pod.uid
               /\ podCache.state \in Crashed /\ pod.uid # 0 => pod.state \in Crashed
               /\ podCache.state = "Exit7" => pod.uid # 0 /\ pod.state = "Exit7"
               /\ IsDone(er) => podCache.state = "Exit7"
    /\ pc = "createPod" => ~pod.del /\ (podCache.uid # 0 => pod.uid # 0)
    /\ pc = "deletePodAsFailed" => /\ pod.uid = 0 \/ pod.state \in Crashed
                                   /\ pod.uid # 0 => podCache.uid # 0
    /\ pc = "markOutdated" => podCache.state = "Exit7"
    /\ IsDone(er) => pc \notin {"createPod", "updateStatus", "deletePodAsFailed", "patchFailure"}

(* The places that hold the runner id agree, and before the teardown a      *)
(* runner with an id has its secret: therefore a Reconcile that finds no    *)
(* secret registers a runner that has neither id nor pod, however old the   *)
(* copy is that it works from.                                              *)
IdsInv ==
    /\ Agree(reg, secret) /\ Agree(reg, er.rid) /\ Agree(reg, pod.cfg)
    /\ Agree(secret, er.rid) /\ Agree(secret, pod.cfg) /\ Agree(er.rid, pod.cfg)
    /\ Open /\ er.rid # 0 => secret # 0
    /\ secret # Unreadable /\ lSecret # Unreadable
    /\ pc # "deleteCorruptSecret"
    /\ pc \in Registering => secret = 0
    /\ pc = "createSecret" => lSecret > 0 /\ reg \in {0, lSecret}
    /\ pc = "patchRunnerId" => lSecret > 0 /\ secret = lSecret
    /\ pc \in HavingId => lSecret = secret /\ secret # 0 /\ er.rid # 0

(* Without any rare event the registration is gone before the finalizer     *)
(* that guards it, what the hooks made before the other one, and no job was *)
(* stopped.                                                                 *)
CleanInv ==
    /\ ~killed
    /\ er.del /\ ~er.afin => reg = 0
    /\ ~er.exists => reg = 0
    /\ linked => Hooks /\ er.exists /\ er.rid # 0
    /\ pc = "dropActionsFinalizer" => reg = 0
    /\ pc = "dropFinalizer" => ~linked

(* The part of the inductive invariant that holds with caches that lag. *)
LagInv ==
    /\ busy => reg # 0
    /\ Quiet => CopyInv /\ PodsInv /\ IdsInv
    /\ races = {} => CleanInv


(* The types of the local variables of Reconcile, and what two of its calls *)
(* take for granted.                                                        *)
LocalType ==
    /\ pc \in Steps /\ queued \in BOOLEAN
    /\ lEr \in Runner /\ lPod \in Pod /\ lSecret \in -1..MaxRegs
    /\ pc \in {"createSecret", "patchRunnerId"} => lSecret # Unreadable
    /\ pc \in {"deletePodAsFailed", "patchFailure"} => lPod.uid # 0

(* The part of the inductive invariant that holds however old the caches    *)
(* are.                                                                     *)
TypeInv == TypeOK /\ LocalType

(* The records that Reconcile, the service and the user make of an          *)
(* EphemeralRunner are EphemeralRunners.                                    *)
LEMMA RunnerEdits ==
  /\ NoRunner \in Runner
  /\ \A e \in Runner :
       /\ [e EXCEPT !.fin = TRUE, !.afin = TRUE] \in Runner
       /\ [e EXCEPT !.del = TRUE] \in Runner
       /\ [e EXCEPT !.job = TRUE] \in Runner
       /\ [e EXCEPT !.afin = FALSE] \in Runner
       /\ [e EXCEPT !.fin = FALSE] \in Runner
       /\ \A i \in 0..MaxRegs : [e EXCEPT !.rid = i] \in Runner
       /\ \A ph \in Phases : [e EXCEPT !.phase = ph] \in Runner
       /\ \A u \in 1..MaxPods : [e EXCEPT !.fails = @ \cup {u}] \in Runner
<1>1. NoRunner \in Runner
  BY BoundsAssumption DEF Runner, NoRunner, Phases
<1>2. ASSUME NEW e \in Runner
      PROVE  /\ [e EXCEPT !.fin = TRUE, !.afin = TRUE] \in Runner
             /\ [e EXCEPT !.del = TRUE] \in Runner
             /\ [e EXCEPT !.job = TRUE] \in Runner
             /\ [e EXCEPT !.afin = FALSE] \in Runner
             /\ [e EXCEPT !.fin = FALSE] \in Runner
             /\ \A i \in 0..MaxRegs : [e EXCEPT !.rid = i] \in Runner
             /\ \A ph \in Phases : [e EXCEPT !.phase = ph] \in Runner
             /\ \A u \in 1..MaxPods : [e EXCEPT !.fails = @ \cup {u}] \in Runner
  <2>1. [e EXCEPT !.fin = TRUE, !.afin = TRUE] \in Runner
    BY DEF Runner
  <2>2. [e EXCEPT !.del = TRUE] \in Runner
    BY DEF Runner
  <2>3. [e EXCEPT !.job = TRUE] \in Runner
    BY DEF Runner
  <2>4. [e EXCEPT !.afin = FALSE] \in Runner
    BY DEF Runner
  <2>5. [e EXCEPT !.fin = FALSE] \in Runner
    BY DEF Runner
  <2>6. \A i \in 0..MaxRegs : [e EXCEPT !.rid = i] \in Runner
    BY DEF Runner
  <2>7. \A ph \in Phases : [e EXCEPT !.phase = ph] \in Runner
    BY DEF Runner
  <2>8. \A u \in 1..MaxPods : [e EXCEPT !.fails = @ \cup {u}] \in Runner
    BY DEF Runner
  <2> QED
    BY <2>1, <2>2, <2>3, <2>4, <2>5, <2>6, <2>7, <2>8
<1> QED
  BY <1>1, <1>2

(* The records that Reconcile, the kubelet and the scheduler make of a pod  *)
(* are pods.                                                                *)
LEMMA PodEdits ==
  /\ NoPod \in Pod
  /\ \A u \in 0..MaxPods, c \in -1..MaxRegs : [NoPod EXCEPT !.uid = u, !.cfg = c] \in Pod
  /\ \A p \in Pod :
       /\ p.uid \in 0..MaxPods
       /\ \A b \in BOOLEAN : [p EXCEPT !.del = b] \in Pod
       /\ \A st \in PodStates : [p EXCEPT !.state = st] \in Pod
<1>1. NoPod \in Pod
  BY BoundsAssumption DEF Pod, NoPod, PodStates
<1>2. ASSUME NEW u \in 0..MaxPods, NEW c \in -1..MaxRegs
      PROVE  [NoPod EXCEPT !.uid = u, !.cfg = c] \in Pod
  BY BoundsAssumption DEF Pod, NoPod, PodStates
<1>3. ASSUME NEW p \in Pod
      PROVE  /\ p.uid \in 0..MaxPods
             /\ \A b \in BOOLEAN : [p EXCEPT !.del = b] \in Pod
             /\ \A st \in PodStates : [p EXCEPT !.state = st] \in Pod
  <2>1. p.uid \in 0..MaxPods
    BY DEF Pod
  <2>2. \A b \in BOOLEAN : [p EXCEPT !.del = b] \in Pod
    BY DEF Pod
  <2>3. \A st \in PodStates : [p EXCEPT !.state = st] \in Pod
    BY DEF Pod
  <2> QED
    BY <2>1, <2>2, <2>3
<1> QED
  BY <1>1, <1>2, <1>3

(* So are the ones that stand for no runner and no pod. *)
LEMMA NothingTypes == NoRunner \in Runner /\ NoPod \in Pod
BY RunnerEdits, PodEdits

(* Where Reconcile goes, and what it then knows. *)
LEMMA StepValues ==
  ASSUME NEW e, NEW p, NEW s
  PROVE  /\ FirstStep(e) \in {"idle", "removeFromService", "cleanupPod", "addFinalizers", "getSecret"}
         /\ StepAfterSecret(e, s) \in {"deleteCorruptSecret", "patchRunnerId", "deleteRunner", "getPod"}
         /\ StepAfterSecret(e, s) = "patchRunnerId" => s # Unreadable
         /\ StepForPod(e, p) \in {"createPod", "idle", "updateStatus", "deleteRunner", "markOutdated",
                                  "deleteRunnerWithJob", "deletePodAsFailed"}
         /\ StepForPod(e, p) = "deletePodAsFailed" => p.uid # 0
         /\ PodPhase(p) \in Phases
BY DEF FirstStep, StepAfterSecret, StepForPod, PodPhase, Phases

(* Reconcile returns: its locals are reset. *)
LEMMA LeaveTypes ==
  ASSUME TypeInv, Return \/ Requeue
  PROVE  LocalType'
<1>1. /\ pc' = "idle" /\ lEr' \in Runner /\ lPod' \in Pod /\ lSecret' = 0
  BY NothingTypes DEF Return, Requeue, Leave
<1>2. queued \in BOOLEAN
  BY DEF TypeInv, TypeOK, LocalType
<1>3. queued' \in BOOLEAN
  BY <1>2, Zenon DEF Return, Requeue
<1>4. pc' \in Steps /\ lSecret' \in -1..MaxRegs
  BY <1>1, BoundsAssumption DEF Steps
<1> QED
  BY <1>1, <1>3, <1>4 DEF LocalType

(* Reconcile goes on to its next call. *)
LEMMA ContinueTypes ==
  ASSUME TypeInv, NEW step \in Steps, NEW e \in Runner, NEW p \in Pod, NEW s \in -1..MaxRegs,
         step \in {"createSecret", "patchRunnerId"} => s # Unreadable,
         step \in {"deletePodAsFailed", "patchFailure"} => p.uid # 0,
         Continue(step, e, p, s)
  PROVE  LocalType'
<1>1. CASE step = "idle"
  BY <1>1, LeaveTypes DEF Continue
<1>2. CASE step # "idle"
  BY <1>2 DEF Continue, TypeInv, TypeOK, LocalType
<1> QED
  BY <1>1, <1>2

(* Reconcile goes on after a patch of the runner, or ends when the runner   *)
(* is gone.                                                                 *)
LEMMA PatchTypes ==
  ASSUME TypeInv, NEW step, NEW e \in Runner,
         NEW next \in Steps \ {"createSecret", "deletePodAsFailed", "patchFailure"},
         next = "patchRunnerId" => lSecret # Unreadable,
         PatchRunner(step, e, next)
  PROVE  er' \in Runner /\ LocalType'
<1>1. CASE er.exists
  BY <1>1, ContinueTypes DEF PatchRunner, TypeInv, TypeOK
<1>2. CASE ~er.exists
  BY <1>2, LeaveTypes DEF PatchRunner, TypeInv, TypeOK
<1> QED
  BY <1>1, <1>2

(* Every step keeps the types, action by action. *)
LEMMA TypeStep ==
  ASSUME TypeInv, Next
  PROVE  TypeInv'
<1> USE BoundsAssumption DEF apiVars, cacheVars, localVars, svcVars, countVars, history, LocalType, TypeInv, TypeOK
<1>1. CASE StartReconcile
  <2>1. LocalType'
    BY <1>1, StepValues, NothingTypes DEF StartReconcile, Steps
  <2> QED
    BY <1>1, <2>1 DEF StartReconcile
<1>2. CASE AddFinalizers
  <2>1. [er EXCEPT !.fin = TRUE, !.afin = TRUE] \in Runner
    BY <1>2, RunnerEdits
  <2>2. er' \in Runner /\ LocalType'
    BY <1>2, <2>1, PatchTypes DEF AddFinalizers, Steps
  <2> QED
    BY <1>2, <2>1, <2>2 DEF AddFinalizers
<1>3. CASE GetSecret
  <2>1. LocalType'
    BY <1>3, StepValues, ContinueTypes DEF GetSecret, Steps
  <2> QED
    BY <1>3, <2>1 DEF GetSecret
<1>4. CASE GenerateJit
  <2>1. LocalType' /\ lastReg' \in 0..MaxRegs /\ reg' \in 0..MaxRegs
    BY <1>4, ContinueTypes, LeaveTypes DEF GenerateJit, Goto, Steps, Unreadable
  <2> QED
    BY <1>4, <2>1 DEF GenerateJit
<1>5. CASE GetRunnerByName
  <2>1. LocalType'
    BY <1>5, ContinueTypes, LeaveTypes DEF GetRunnerByName, Goto, Steps
  <2> QED
    BY <1>5, <2>1 DEF GetRunnerByName
<1>6. CASE RemoveByName
  <2>1. LocalType'
    BY <1>6, LeaveTypes DEF RemoveByName
  <2> QED
    BY <1>6, <2>1 DEF RemoveByName, Unregister
<1>7. CASE CreateSecret
  <2>1. LocalType'
    BY <1>7, StepValues, ContinueTypes DEF CreateSecret, Goto, Steps
  <2> QED
    BY <1>7, <2>1 DEF CreateSecret
<1>8. CASE DeleteCorruptSecret
  <2>1. LocalType'
    BY <1>8, LeaveTypes DEF DeleteCorruptSecret
  <2> QED
    BY <1>8, <2>1 DEF DeleteCorruptSecret
<1>9. CASE PatchRunnerId
  <2>1. lSecret \in 0..MaxRegs
    BY <1>9 DEF PatchRunnerId, PatchRunner, Unreadable
  <2>2. [er EXCEPT !.rid = lSecret] \in Runner
    BY <1>9, <2>1, RunnerEdits
  <2>3. er' \in Runner /\ LocalType'
    BY <1>9, <2>2, StepValues, PatchTypes DEF PatchRunnerId, Steps
  <2> QED
    BY <1>9, <2>1, <2>2, <2>3 DEF PatchRunnerId
<1>10. CASE BackingOff
  <2>1. LocalType'
    BY <1>10, LeaveTypes DEF BackingOff
  <2> QED
    BY <1>10, <2>1 DEF BackingOff
<1>11. CASE GetPod
  <2>1. LocalType'
    BY <1>11, StepValues, ContinueTypes DEF GetPod, Steps
  <2> QED
    BY <1>11, <2>1 DEF GetPod
<1>12. CASE CreatePod
  <2>1. LocalType'
    BY <1>12, LeaveTypes DEF CreatePod
  <2>2. lastPod' \in 0..MaxPods
    BY <1>12 DEF CreatePod
  <2>3. lastPod < MaxPods => [NoPod EXCEPT !.uid = lastPod + 1, !.cfg = lSecret] \in Pod
    <3>1. lastPod < MaxPods => lastPod + 1 \in 0..MaxPods
      OBVIOUS
    <3>2. lSecret \in -1..MaxRegs
      OBVIOUS
    <3> HIDE DEF TypeOK, TypeInv, LocalType
    <3> QED
      BY <3>1, <3>2, PodEdits
  <2>4. pod' \in Pod
    BY <1>12, <2>3 DEF CreatePod
  <2> QED
    BY <1>12, <2>1, <2>2, <2>4 DEF CreatePod
<1>13. CASE MarkFailed
  <2>1. [er EXCEPT !.phase = "Failed"] \in Runner
    BY <1>13, RunnerEdits DEF Phases
  <2>2. er' \in Runner /\ LocalType'
    BY <1>13, <2>1, PatchTypes DEF MarkFailed, Steps
  <2> QED
    BY <1>13, <2>1, <2>2 DEF MarkFailed, RaceKinds
<1>14. CASE MarkOutdated
  <2>1. [er EXCEPT !.phase = "Outdated"] \in Runner
    BY <1>14, RunnerEdits DEF Phases
  <2>2. er' \in Runner /\ LocalType'
    BY <1>14, <2>1, PatchTypes DEF MarkOutdated, Steps
  <2> QED
    BY <1>14, <2>1, <2>2 DEF MarkOutdated
<1>15. CASE RemoveMarked
  <2>1. LocalType'
    BY <1>15, LeaveTypes DEF RemoveMarked
  <2> QED
    BY <1>15, <2>1 DEF RemoveMarked, Unregister
<1>16. CASE UpdateStatus
  <2>1. [er EXCEPT !.phase = PodPhase(lPod)] \in Runner
    BY <1>16, RunnerEdits, StepValues
  <2>2. er' \in Runner /\ LocalType'
    BY <1>16, <2>1, PatchTypes, LeaveTypes DEF UpdateStatus, Steps
  <2> QED
    BY <1>16, <2>1, <2>2 DEF UpdateStatus
<1>17. CASE DeletePodAsFailed
  <2>1. LocalType'
    BY <1>17, ContinueTypes DEF DeletePodAsFailed, Goto, Steps
  <2>2. pod' \in Pod
    BY <1>17, PodEdits DEF DeletePodAsFailed, DeletePod
  <2> QED
    BY <1>17, <2>1, <2>2 DEF DeletePodAsFailed, DeletePod
<1>18. CASE PatchFailure
  <2>1. lPod.uid \in 1..MaxPods
    <3>1. lPod \in Pod /\ lPod.uid # 0
      BY <1>18 DEF PatchFailure, PatchRunner
    <3> QED
      BY <3>1 DEF Pod
  <2>2. [er EXCEPT !.fails = @ \cup {lPod.uid}] \in Runner
    BY <1>18, <2>1, RunnerEdits
  <2>3. er' \in Runner /\ LocalType'
    BY <1>18, <2>2, PatchTypes DEF PatchFailure, Steps
  <2> QED
    BY <1>18, <2>1, <2>2, <2>3 DEF PatchFailure
<1>19. CASE DeleteRunner
  <2>1. LocalType'
    BY <1>19, ContinueTypes, LeaveTypes DEF DeleteRunner, Goto, Steps
  <2>2. er' \in Runner
    BY <1>19, RunnerEdits DEF DeleteRunner, MarkDeleted
  <2> QED
    BY <1>19, <2>1, <2>2 DEF DeleteRunner, MarkDeleted, RaceKinds
<1>20. CASE RemoveBestEffort
  <2>1. LocalType'
    BY <1>20, LeaveTypes DEF RemoveBestEffort
  <2> QED
    BY <1>20, <2>1 DEF RemoveBestEffort, Unregister
<1>21. CASE RemoveFromService
  <2>1. LocalType'
    BY <1>21, LeaveTypes, ContinueTypes DEF RemoveFromService, Goto, Steps
  <2> QED
    BY <1>21, <2>1 DEF RemoveFromService, Unregister
<1>22. CASE DropActionsFinalizer
  <2>1. WithoutFinalizers([er EXCEPT !.afin = FALSE]) \in Runner
    BY <1>22, RunnerEdits DEF WithoutFinalizers
  <2>2. er' \in Runner /\ LocalType'
    BY <1>22, <2>1, PatchTypes DEF DropActionsFinalizer, Steps
  <2> QED
    BY <1>22, <2>1, <2>2 DEF DropActionsFinalizer
<1>23. CASE CleanupPod
  <2>1. LocalType'
    BY <1>23, ContinueTypes DEF CleanupPod, Goto, Steps
  <2>2. pod' \in Pod
    BY <1>23, PodEdits DEF CleanupPod, DeletePod
  <2> QED
    BY <1>23, <2>1, <2>2 DEF CleanupPod, DeletePod
<1>24. CASE CleanupSecret
  <2>1. LocalType'
    BY <1>24, ContinueTypes DEF CleanupSecret, Goto, Steps
  <2> QED
    BY <1>24, <2>1 DEF CleanupSecret
<1>25. CASE CleanupLinked
  <2>1. LocalType'
    BY <1>25, ContinueTypes DEF CleanupLinked, Goto, Steps
  <2> QED
    BY <1>25, <2>1 DEF CleanupLinked
<1>26. CASE DropFinalizer
  <2>1. LocalType'
    BY <1>26, LeaveTypes DEF DropFinalizer
  <2>2. er' \in Runner
    BY <1>26, RunnerEdits DEF DropFinalizer, WithoutFinalizers
  <2> QED
    BY <1>26, <2>1, <2>2 DEF DropFinalizer
<1>27. CASE CreatePodDenied
  <2>1. LocalType'
    BY <1>27, ContinueTypes, LeaveTypes DEF CreatePodDenied, Goto, Steps
  <2> QED
    BY <1>27, <2>1 DEF CreatePodDenied
<1>28. CASE CallFails
  <2>1. LocalType'
    BY <1>28, LeaveTypes DEF CallFails
  <2> QED
    BY <1>28, <2>1 DEF CallFails
<1>29. CASE Restart
  <2>1. LocalType'
    BY <1>29, LeaveTypes DEF Restart
  <2> QED
    BY <1>29, <2>1 DEF Restart
<1>30. CASE PodDrained
  <2>1. pod' \in Pod
    BY <1>30, PodEdits DEF PodDrained
  <2> QED
    BY <1>30, <2>1 DEF PodDrained, RaceKinds
<1>31. CASE WatchRunner
  BY <1>31 DEF WatchRunner
<1>32. CASE WatchPod
  BY <1>32 DEF WatchPod
<1>33. CASE BackoffEnds
  BY <1>33 DEF BackoffEnds
<1>34. CASE OwnerRemoves
  BY <1>34 DEF OwnerRemoves, Unregister
<1>35. CASE OwnerDeletes
  <2>1. er' \in Runner
    BY <1>35, RunnerEdits DEF OwnerDeletes, MarkDeleted
  <2> QED
    BY <1>35, <2>1 DEF OwnerDeletes, MarkDeleted, RaceKinds
<1>36. CASE SecretEdited
  BY <1>36 DEF SecretEdited, RaceKinds, Unreadable
<1>37. CASE HandleJobStarted
  <2>1. er' \in Runner
    BY <1>37, RunnerEdits DEF HandleJobStarted
  <2> QED
    BY <1>37, <2>1 DEF HandleJobStarted
<1>38. CASE PodStarts
  <2>1. pod' \in Pod
    BY <1>38, PodEdits DEF PodStarts, PodStates
  <2> QED
    BY <1>38, <2>1 DEF PodStarts
<1>39. CASE PodStops
  <2>1. Stops \subseteq PodStates
    BY <1>39 DEF PodStates
  <2>2. PICK s \in Stops : pod' = [pod EXCEPT !.state = s]
    BY <1>39 DEF PodStops
  <2>3. pod' \in Pod
    BY <2>1, <2>2, PodEdits
  <2> QED
    BY <1>39, <2>3 DEF PodStops
<1>40. CASE RunnerRejected
  <2>1. pod' \in Pod
    BY <1>40, PodEdits DEF RunnerRejected, PodStates
  <2> QED
    BY <1>40, <2>1 DEF RunnerRejected
<1>41. CASE PodRemoved
  <2>1. pod' \in Pod
    BY <1>41, PodEdits DEF PodRemoved
  <2> QED
    BY <1>41, <2>1 DEF PodRemoved
<1>42. CASE CollectGarbage
  <2>1. pod' \in Pod
    BY <1>42, PodEdits DEF CollectGarbage, DeletePod
  <2> QED
    BY <1>42, <2>1 DEF CollectGarbage, DeletePod
<1>43. CASE ForeignRunnerLeaves
  BY <1>43 DEF ForeignRunnerLeaves
<1>44. CASE JobAssigned
  BY <1>44 DEF JobAssigned
<1>45. CASE JobEnds
  <2>1. pod' \in Pod
    BY <1>45, PodEdits DEF JobEnds, PodStates
  <2>2. linked' = FALSE \/ linked' = linked
    BY <1>45 DEF JobEnds
  <2>3. linked' \in BOOLEAN
    BY <2>2, Zenon
  <2>4. /\ reg' = 0 /\ busy' = FALSE
        /\ UNCHANGED <<er, secret, cacheVars, queued, pc, localVars, cooling, foreign, lastReg, jobMsg,
                        countVars, history>>
    BY <1>45 DEF JobEnds
  <2>5. queued' \in BOOLEAN /\ cooling' \in BOOLEAN
    BY <2>4
  <2>6. ({queued, cooling, linked} \subseteq BOOLEAN)'
    BY <2>3, <2>5, Zenon
  <2>7. reg' \in 0..MaxRegs
    BY <2>4
  <2>8. busy' \in BOOLEAN
    BY <2>4, Zenon
  <2>9. LocalType'
    BY <2>4
  <2> QED
    BY <2>1, <2>4, <2>6, <2>7, <2>8, <2>9
<1>46. CASE JobAbandoned
  BY <1>46 DEF JobAbandoned
<1> QED
  BY <1>1, <1>2, <1>3, <1>4, <1>5, <1>6, <1>7, <1>8, <1>9, <1>10, <1>11, <1>12, <1>13, <1>14, <1>15,
     <1>16, <1>17, <1>18, <1>19, <1>20, <1>21, <1>22, <1>23, <1>24, <1>25, <1>26, <1>27, <1>28,
     <1>29, <1>30, <1>31, <1>32, <1>33, <1>34, <1>35, <1>36, <1>37, <1>38, <1>39, <1>40, <1>41,
     <1>42, <1>43, <1>44, <1>45, <1>46 DEF Next, Reconcile, Faults, Watches, Surroundings

(* The failures of a runner can be counted, and a pod adds at most one. *)
LEMMA FailureCounts ==
  ASSUME NEW e \in Runner
  PROVE  /\ Cardinality(e.fails) \in Nat
         /\ \A u : /\ Cardinality(e.fails \cup {u}) \in Nat
                   /\ Cardinality(e.fails \cup {u}) <= Cardinality(e.fails) + 1
<1>1. e.fails \in SUBSET (1..MaxPods)
  BY DEF Runner
<1>2. IsFiniteSet(1..MaxPods)
  BY FS_Interval, BoundsAssumption
<1>3. IsFiniteSet(e.fails)
  BY <1>1, <1>2, FS_Subset
<1>4. Cardinality(e.fails) \in Nat
  BY <1>3, FS_CardinalityType
<1>5. ASSUME NEW u
      PROVE  /\ Cardinality(e.fails \cup {u}) \in Nat
             /\ Cardinality(e.fails \cup {u}) <= Cardinality(e.fails) + 1
  BY <1>3, <1>4, FS_AddElement
<1> QED
  BY <1>4, <1>5

(* Nothing is known of a Reconcile that is over. *)
LEMMA LeaveLocal ==
  ASSUME pc' = "idle"
  PROVE  LocalInv'
BY DEF LocalInv, Work, Registering, HavingId, Teardown

(* Return and Requeue end the Reconcile. *)
LEMMA LeftIdle ==
  ASSUME Return \/ Requeue
  PROVE  pc' = "idle"
BY DEF Return, Requeue, Leave

(* What Continue does to the locals when there is a next call. *)
LEMMA WentOn ==
  ASSUME NEW step, NEW e, NEW p, NEW s, step # "idle", Continue(step, e, p, s)
  PROVE  pc' = step /\ lEr' = e /\ lPod' = p /\ lSecret' = s
BY DEF Continue

(* What a patch does to a runner that exists. *)
LEMMA Patched ==
  ASSUME NEW step, NEW e, NEW next, er.exists, next # "idle", PatchRunner(step, e, next)
  PROVE  pc = step /\ er' = e /\ lEr' = e /\ pc' = next /\ lSecret' = lSecret
BY WentOn DEF PatchRunner

(* A patch of a runner that is gone ends the Reconcile. *)
LEMMA NotPatched ==
  ASSUME NEW step, NEW e, NEW next, ~er.exists, PatchRunner(step, e, next)
  PROVE  pc = step /\ er' = er /\ pc' = "idle"
BY LeftIdle DEF PatchRunner

(* A step that changes nothing the invariant is about but ends Reconcile. *)
LEMMA NothingDone ==
  ASSUME PromptInv, pc' = "idle", races \subseteq races',
         UNCHANGED <<er, pod, secret, reg, busy, linked, killed>>
  PROVE  PromptInv'
<1>1. LocalInv'
  BY LeaveLocal
<1>2. RunnerInv'
  BY DEF PromptInv, RunnerInv
<1>3. PodInv' /\ IdentityInv'
  BY DEF PromptInv, PodInv, IdentityInv, Agree, NoId
<1>4. ServiceInv'
  BY DEF PromptInv, ServiceInv
<1> QED
  BY <1>1, <1>2, <1>3, <1>4 DEF PromptInv

(* Each part of the invariant is about a few variables only. *)
LEMMA Kept ==
  ASSUME PromptInv
  PROVE  /\ UNCHANGED <<er, races>> => RunnerInv'
         /\ UNCHANGED <<er, pod>> => PodInv'
         /\ UNCHANGED <<er, pod, secret, reg>> => IdentityInv'
         /\ UNCHANGED <<er, pod, reg, busy, linked, races>> => ServiceInv'
         /\ UNCHANGED <<er, pod, secret, reg, linked, pc, lEr, lSecret>> => LocalInv'
<1>1. UNCHANGED <<er, races>> => RunnerInv'
  BY DEF PromptInv, RunnerInv
<1>2. UNCHANGED <<er, pod>> => PodInv'
  BY DEF PromptInv, PodInv
<1>3. UNCHANGED <<er, pod, secret, reg>> => IdentityInv'
  BY DEF PromptInv, IdentityInv, Agree, NoId
<1>4. UNCHANGED <<er, pod, reg, busy, linked, races>> => ServiceInv'
  BY DEF PromptInv, ServiceInv
<1>5. UNCHANGED <<er, pod, secret, reg, linked, pc, lEr, lSecret>> => LocalInv'
  BY DEF PromptInv, LocalInv
<1> QED
  BY <1>1, <1>2, <1>3, <1>4, <1>5

(* Reconcile registers a runner that has neither id nor pod. *)
LEMMA Unregistered ==
  ASSUME PromptInv, pc \in Registering \cup {"patchRunnerId"}
  PROVE  er.exists /\ er.rid = 0 /\ pod.uid = 0 /\ pod.cfg = 0
<1>1. er.exists /\ er.rid = 0
  BY DEF PromptInv, LocalInv, Registering, Work
<1> QED
  BY <1>1 DEF PromptInv, PodInv, NoPod

(* The fields of a runner that is gone. *)
LEMMA NoRunnerFields ==
  /\ ~NoRunner.exists /\ ~NoRunner.del /\ ~NoRunner.fin /\ ~NoRunner.afin
  /\ NoRunner.phase = "" /\ NoRunner.rid = 0 /\ NoRunner.fails = {}
  /\ Cardinality(NoRunner.fails) = 0
BY FS_EmptySet DEF NoRunner

(* Every step keeps PromptInv, action by action; under each action the      *)
(* parts it can disturb.                                                    *)
LEMMA PromptStep ==
  ASSUME ~CachesLag, TypeInv, PromptInv, Next
  PROVE  PromptInv'
<1> USE DEF apiVars, cacheVars, localVars, svcVars, countVars, history
<1>t. /\ er \in Runner /\ pod \in Pod /\ reg \in 0..MaxRegs /\ secret \in -1..MaxRegs
      /\ lSecret \in -1..MaxRegs /\ lastReg \in 0..MaxRegs /\ MaxRegs \in Nat /\ lastPod \in 0..MaxPods
      /\ MaxPods \in Nat
  BY BoundsAssumption DEF TypeInv, TypeOK
<1>f. er.rid \in 0..MaxRegs /\ pod.cfg \in -1..MaxRegs
  BY <1>t DEF Runner, Pod
<1>c. Cardinality(er.fails) \in Nat /\ Cardinality(lEr.fails) \in Nat /\ MaxFailures \in Nat
  BY FailureCounts, BoundsAssumption DEF TypeInv, TypeOK
<1>i. RunnerInv /\ PodInv /\ IdentityInv /\ ServiceInv /\ LocalInv /\ ~killed
  BY DEF PromptInv
<1>1. CASE StartReconcile
  <2>0. \/ pc' = "idle"
        \/ /\ lEr' = er /\ er.exists
           /\ \/ pc' = "removeFromService" /\ er.del /\ er.fin
              \/ pc' = "cleanupPod" /\ er.fin /\ IF er.del THEN ~er.afin ELSE IsDone(er)
              \/ pc' = "addFinalizers" /\ ~er.del /\ ~IsDone(er) /\ ~er.fin
              \/ pc' = "getSecret" /\ ~er.del /\ ~IsDone(er) /\ er.fin /\ er.afin
    BY <1>1, <1>i DEF StartReconcile, FirstStep, Delivered, IsDone, RunnerInv
  <2>1. LocalInv'
    BY <1>1, <2>0, <1>i DEF StartReconcile, RunnerInv, IdentityInv, LocalInv, Work, Registering,
       HavingId, Teardown
  <2> QED
    BY <1>1, <2>1, Kept DEF StartReconcile, PromptInv
<1>2. CASE AddFinalizers
  <2>1. CASE ~er.exists
    <3>1. er' = er /\ pc' = "idle"
      BY <1>2, <2>1, NotPatched DEF AddFinalizers
    <3> QED
      BY <1>2, <3>1, NothingDone DEF AddFinalizers
  <2>2. CASE er.exists
    <3>1. /\ pc = "addFinalizers" /\ er' = [er EXCEPT !.fin = TRUE, !.afin = TRUE] /\ lEr' = er'
          /\ pc' = "getSecret" /\ lSecret' = lSecret
      BY <1>2, <2>2, Patched, StepValues DEF AddFinalizers
    <3>2. /\ er'.exists = er.exists /\ er'.del = er.del /\ er'.fin = TRUE /\ er'.afin = TRUE
          /\ er'.phase = er.phase /\ er'.rid = er.rid /\ er'.job = er.job /\ er'.fails = er.fails
      BY <3>1, <1>t DEF Runner
    <3>3. RunnerInv'
      BY <1>2, <2>2, <3>2, <1>i DEF AddFinalizers, RunnerInv
    <3>4. PodInv'
      BY <1>2, <3>2, <1>i DEF AddFinalizers, PodInv
    <3>5. IdentityInv'
      BY <1>2, <3>2, <1>i DEF AddFinalizers, IdentityInv, IsDone
    <3>6. ServiceInv'
      BY <1>2, <3>2, <1>i DEF AddFinalizers, ServiceInv
    <3>7. LocalInv'
      BY <2>2, <3>1, <1>i DEF LocalInv, Work, Registering, HavingId, Teardown, IsDone
    <3> QED
      BY <1>2, <3>3, <3>4, <3>5, <3>6, <3>7 DEF AddFinalizers, PromptInv
  <2> QED
    BY <2>1, <2>2
<1>3. CASE GetSecret
  <2>1. /\ pc = "getSecret" /\ lEr' = lEr /\ lSecret' = secret
        /\ pc' = IF secret = 0 THEN "generateJit" ELSE StepAfterSecret(lEr, secret)
    BY <1>3, WentOn, StepValues DEF GetSecret
  <2>2. \/ pc' = "generateJit" /\ secret = 0
        \/ secret = Unreadable /\ lEr.rid = 0 /\ pc' = "deleteCorruptSecret"
        \/ secret > 0 /\ lEr.rid = 0 /\ pc' = "patchRunnerId"
        \/ secret # 0 /\ lEr.rid # 0 /\ pc' = "deleteRunner"
        \/ secret # 0 /\ lEr.rid # 0 /\ Cardinality(lEr.fails) <= MaxFailures /\ pc' = "getPod"
    BY <2>1, <1>t, <1>c DEF StepAfterSecret, TooManyFailures, Unreadable
  <2>3. LocalInv'
    BY <1>3, <2>1, <2>2, <1>t, <1>f, <1>i DEF GetSecret, IdentityInv, LocalInv, Agree, NoId, Work,
       Registering, HavingId, Teardown, Unreadable
  <2> QED
    BY <1>3, <2>1, <2>2, <2>3, <1>i, Kept DEF GetSecret, PromptInv
<1>4. CASE GenerateJit
  <2>1. /\ pc = "generateJit"
        /\ \/ reg = 0 /\ lEr' = lEr /\ lSecret' = reg' /\ reg' > 0 /\ pc' = "createSecret"
           \/ reg' = reg /\ lEr' = lEr /\ pc' = "getRunnerByName"
           \/ reg' = reg /\ pc' = "idle"
    BY <1>4, WentOn, LeftIdle, <1>t DEF GenerateJit, Goto
  <2>2. UNCHANGED <<er, pod, secret, busy, linked, races, killed>>
    BY <1>4 DEF GenerateJit
  <2>3. IdentityInv'
    BY <2>1, <2>2, <1>i, Unregistered DEF IdentityInv, LocalInv, Agree, NoId, Registering
  <2>4. ServiceInv'
    BY <2>1, <2>2, <1>i, Unregistered DEF ServiceInv, Registering
  <2>5. LocalInv'
    BY <1>4, <2>1, <1>i DEF GenerateJit, LocalInv, Work, Registering, HavingId, Teardown
  <2> QED
    BY <2>2, <2>3, <2>4, <2>5, Kept DEF PromptInv
<1>5. CASE GetRunnerByName
  <2>1. LocalInv'
    BY <1>5, <1>i DEF GetRunnerByName, Requeue, Leave, Continue, Goto, LocalInv, Work, Registering,
       HavingId, Teardown
  <2> QED
    BY <1>5, <2>1, Kept DEF GetRunnerByName, PromptInv
<1>6. CASE RemoveByName
  <2>1. pc' = "idle"
    BY <1>6, LeftIdle DEF RemoveByName
  <2>2. IdentityInv'
    BY <1>6, <1>i DEF RemoveByName, Unregister, IdentityInv, Agree, NoId
  <2>3. ServiceInv'
    BY <1>6, <1>i DEF RemoveByName, Unregister, JobStillRunning, ServiceInv
  <2>4. LocalInv'
    BY <1>6, <2>1, LeaveLocal
  <2> QED
    BY <1>6, <2>2, <2>3, <2>4, Kept DEF RemoveByName, PromptInv
<1>7. CASE CreateSecret
  <2>1. /\ pc = "createSecret" /\ secret' = lSecret /\ lEr' = lEr /\ lSecret' = lSecret
        /\ pc' = StepAfterSecret(lEr, lSecret)
    BY <1>7, WentOn, StepValues DEF CreateSecret, Goto
  <2>2. pc' = "patchRunnerId" /\ lSecret > 0 /\ secret = 0 /\ lEr.rid = 0
    BY <2>1, <1>i DEF StepAfterSecret, LocalInv, Registering, Unreadable
  <2>3. IdentityInv'
    BY <1>7, <1>i, Unregistered DEF CreateSecret, IdentityInv, LocalInv, Agree, NoId, Registering
  <2>4. LocalInv'
    BY <1>7, <2>1, <2>2, <1>i DEF CreateSecret, LocalInv, Work, Registering, HavingId, Teardown
  <2> QED
    BY <1>7, <2>3, <2>4, Kept DEF CreateSecret, PromptInv
<1>8. CASE DeleteCorruptSecret
  <2>1. pc' = "idle"
    BY <1>8, LeftIdle DEF DeleteCorruptSecret
  <2>2. IdentityInv'
    BY <1>8, <1>i DEF DeleteCorruptSecret, IdentityInv, LocalInv, Agree, NoId
  <2>3. LocalInv'
    BY <1>8, <2>1, LeaveLocal
  <2> QED
    BY <1>8, <2>1, <2>2, <2>3, <1>i, Kept DEF DeleteCorruptSecret, PromptInv
<1>9. CASE PatchRunnerId
  <2>1. CASE ~er.exists
    <3>1. er' = er /\ pc' = "idle"
      BY <1>9, <2>1, NotPatched DEF PatchRunnerId
    <3> QED
      BY <1>9, <3>1, NothingDone DEF PatchRunnerId
  <2>2. CASE er.exists
    <3>1. /\ pc = "patchRunnerId" /\ er' = [er EXCEPT !.rid = lSecret] /\ lEr' = er'
          /\ pc' = StepAfterSecret(er', lSecret) /\ lSecret' = lSecret
      BY <1>9, <2>2, Patched, StepValues DEF PatchRunnerId
    <3>2. /\ er'.exists = er.exists /\ er'.del = er.del /\ er'.fin = er.fin /\ er'.afin = er.afin
          /\ er'.phase = er.phase /\ er'.rid = lSecret /\ er'.job = er.job /\ er'.fails = er.fails
      BY <3>1, <1>t DEF Runner
    <3>3. RunnerInv'
      BY <1>9, <3>1, <3>2, <1>i DEF PatchRunnerId, RunnerInv, LocalInv, Work
    <3>4. PodInv'
      BY <1>9, <3>1, <1>i DEF PatchRunnerId, PodInv, LocalInv
    <3>5. IdentityInv'
      BY <1>9, <3>1, <1>i, Unregistered DEF PatchRunnerId, IdentityInv, LocalInv, Agree, NoId, Unreadable
    <3>6. ServiceInv'
      BY <1>9, <3>1, <1>i DEF PatchRunnerId, ServiceInv, LocalInv, Work
    <3>7. LocalInv'
      BY <1>9, <3>1, <1>c, <1>i DEF PatchRunnerId, StepAfterSecret, TooManyFailures, LocalInv, Work,
         Registering, HavingId, Teardown, Unreadable, IsDone
    <3> QED
      BY <1>9, <3>3, <3>4, <3>5, <3>6, <3>7 DEF PatchRunnerId, PromptInv
  <2> QED
    BY <2>1, <2>2
<1>10. CASE BackingOff
  <2>1. pc' = "idle"
    BY <1>10, LeftIdle DEF BackingOff
  <2> QED
    BY <1>10, <2>1, NothingDone DEF BackingOff
<1>11. CASE GetPod
  <2>1. /\ pc = "getPod"
        /\ \/ pc' = "idle"
           \/ pc' = StepForPod(lEr, pod) /\ lEr' = lEr /\ lSecret' = lSecret
    BY <1>11, WentOn, LeftIdle DEF GetPod, Continue, Delivered
  <2>2. \/ pc' = "idle"
        \/ lEr' = lEr /\ lSecret' = lSecret /\
           \/ pc' = "createPod" /\ pod.uid = 0
           \/ pc' \in {"updateStatus", "deleteRunner", "deleteRunnerWithJob"}
           \/ pc' = "markOutdated" /\ pod.state = "Exit7"
           \/ pc' = "deletePodAsFailed" /\ pod.state \in {"ExitN", "Evicted"}
    BY <2>1, <1>t DEF StepForPod, Pod, PodStates
  <2>3. LocalInv'
    BY <1>11, <2>2, <1>i DEF GetPod, LocalInv, Work, Registering, HavingId, Teardown
  <2> QED
    BY <1>11, <2>1, <2>2, <2>3, <1>i, Kept DEF GetPod, PromptInv
<1>12. CASE CreatePod
  <2>1. pc' = "idle"
    BY <1>12, LeftIdle DEF CreatePod
  <2>2. \/ pod' = pod
        \/ pod'.uid = lastPod + 1 /\ pod'.cfg = lSecret /\ pod'.state = "NoStatus"
    BY <1>12 DEF CreatePod, NoPod
  <2>3. pc = "createPod" /\ lSecret # 0 /\ UNCHANGED <<er, secret, reg, busy, linked, races, killed>>
    BY <1>12, <1>t, <1>i DEF CreatePod, LocalInv, HavingId, Unreadable
  <2>4. PodInv'
    BY <2>2, <2>3, <1>t, <1>i DEF PodInv, LocalInv, HavingId, Work, IsDone
  <2>5. IdentityInv'
    BY <2>2, <2>3, <1>i DEF IdentityInv, LocalInv, Agree, NoId, Work, HavingId
  <2>6. ServiceInv'
    BY <2>2, <2>3, <1>i DEF ServiceInv, LocalInv, Work
  <2>7. LocalInv'
    BY <1>12, <2>1, <2>2, <2>3, LeaveLocal
  <2> QED
    BY <2>3, <2>4, <2>5, <2>6, <2>7, Kept DEF PromptInv
<1>13. CASE MarkFailed
  <2>1. CASE ~er.exists
    <3>1. er' = er /\ pc' = "idle"
      BY <1>13, <2>1, NotPatched DEF MarkFailed
    <3> QED
      BY <1>13, <3>1, NothingDone DEF MarkFailed
  <2>2. CASE er.exists
    <3>1. /\ pc = "markFailed" /\ er' = [er EXCEPT !.phase = "Failed"] /\ lEr' = er'
          /\ pc' = "removeMarked" /\ lSecret' = lSecret
      BY <1>13, <2>2, Patched, StepValues DEF MarkFailed
    <3>2. /\ er'.exists = er.exists /\ er'.del = er.del /\ er'.fin = er.fin /\ er'.afin = er.afin
          /\ er'.phase = "Failed" /\ er'.rid = er.rid /\ er'.job = er.job /\ er'.fails = er.fails
      BY <3>1, <1>t DEF Runner
    <3>3. RunnerInv'
      BY <1>13, <3>1, <3>2, <1>i DEF MarkFailed, RunnerInv, LocalInv, Work
    <3>4. PodInv'
      BY <1>13, <3>1, <1>i DEF MarkFailed, PodInv, LocalInv
    <3>5. IdentityInv'
      BY <1>13, <3>2, <1>i DEF MarkFailed, IdentityInv, IsDone
    <3>6. ServiceInv'
      BY <1>13, <3>2, <1>i DEF MarkFailed, ServiceInv
    <3>7. LocalInv'
      BY <1>13, <3>1, <3>2, <1>i DEF MarkFailed, LocalInv, Work, Registering, HavingId, Teardown, IsDone
    <3> QED
      BY <1>13, <3>3, <3>4, <3>5, <3>6, <3>7 DEF MarkFailed, PromptInv
  <2> QED
    BY <2>1, <2>2
<1>14. CASE MarkOutdated
  <2>1. CASE ~er.exists
    <3>1. er' = er /\ pc' = "idle"
      BY <1>14, <2>1, NotPatched DEF MarkOutdated
    <3> QED
      BY <1>14, <3>1, NothingDone DEF MarkOutdated
  <2>2. CASE er.exists
    <3>1. /\ pc = "markOutdated" /\ er' = [er EXCEPT !.phase = "Outdated"] /\ lEr' = er'
          /\ pc' = "removeMarked" /\ lSecret' = lSecret
      BY <1>14, <2>2, Patched, StepValues DEF MarkOutdated
    <3>2. /\ er'.exists = er.exists /\ er'.del = er.del /\ er'.fin = er.fin /\ er'.afin = er.afin
          /\ er'.phase = "Outdated" /\ er'.rid = er.rid /\ er'.job = er.job /\ er'.fails = er.fails
      BY <3>1, <1>t DEF Runner
    <3>3. RunnerInv'
      BY <1>14, <3>1, <3>2, <1>i DEF MarkOutdated, RunnerInv, LocalInv, Work
    <3>4. PodInv'
      BY <1>14, <3>1, <3>2, <1>i DEF MarkOutdated, PodInv, LocalInv
    <3>5. IdentityInv'
      BY <1>14, <3>2, <1>i DEF MarkOutdated, IdentityInv, IsDone
    <3>6. ServiceInv'
      BY <1>14, <3>2, <1>i DEF MarkOutdated, ServiceInv
    <3>7. LocalInv'
      BY <1>14, <3>1, <3>2, <1>i DEF MarkOutdated, LocalInv, Work, Registering, HavingId, Teardown, IsDone
    <3> QED
      BY <1>14, <3>3, <3>4, <3>5, <3>6, <3>7 DEF MarkOutdated, PromptInv
  <2> QED
    BY <2>1, <2>2
<1>15. CASE RemoveMarked
  <2>1. pc' = "idle"
    BY <1>15, LeftIdle DEF RemoveMarked
  <2>2. IdentityInv'
    BY <1>15, <1>i DEF RemoveMarked, Unregister, IdentityInv, Agree, NoId
  <2>3. ServiceInv'
    BY <1>15, <1>i DEF RemoveMarked, Unregister, JobStillRunning, ServiceInv
  <2>4. LocalInv'
    BY <1>15, <2>1, LeaveLocal
  <2> QED
    BY <1>15, <2>2, <2>3, <2>4, Kept DEF RemoveMarked, PromptInv
<1>16. CASE UpdateStatus
  <2>1. CASE ~er.exists \/ lEr.phase = PodPhase(lPod)
    <3>1. er' = er /\ pc' = "idle"
      BY <1>16, <2>1, NotPatched, LeftIdle DEF UpdateStatus, PatchRunner
    <3> QED
      BY <1>16, <3>1, NothingDone DEF UpdateStatus
  <2>2. CASE er.exists /\ lEr.phase # PodPhase(lPod)
    <3>1. pc = "updateStatus" /\ er' = [er EXCEPT !.phase = PodPhase(lPod)] /\ pc' = "idle"
      BY <1>16, <2>2, LeftIdle DEF UpdateStatus, PatchRunner, Continue
    <3>2. /\ er'.exists = er.exists /\ er'.del = er.del /\ er'.fin = er.fin /\ er'.afin = er.afin
          /\ er'.phase = PodPhase(lPod) /\ er'.rid = er.rid /\ er'.job = er.job /\ er'.fails = er.fails
      BY <3>1, <1>t DEF Runner
    <3>3. er'.phase \in {"Running", "Pending"}
      BY <3>2 DEF PodPhase
    <3>4. RunnerInv'
      BY <3>1, <3>2, <1>i DEF RunnerInv, LocalInv, Work, HavingId
    <3>5. PodInv'
      BY <1>16, <3>2, <3>3, <1>i DEF UpdateStatus, PodInv
    <3>6. IdentityInv'
      BY <1>16, <3>1, <1>i DEF UpdateStatus, IdentityInv, LocalInv, Work
    <3>7. ServiceInv'
      BY <1>16, <3>2, <1>i DEF UpdateStatus, ServiceInv
    <3>8. LocalInv'
      BY <1>16, <2>2, <3>1, <3>2, <3>3, LeaveLocal
    <3> QED
      BY <1>16, <3>4, <3>5, <3>6, <3>7, <3>8 DEF UpdateStatus, PromptInv
  <2> QED
    BY <2>1, <2>2
<1>17. CASE DeletePodAsFailed
  <2>1. pc = "deletePodAsFailed" /\ pc' = "patchFailure" /\ lEr' = lEr /\ lSecret' = lSecret
    BY <1>17, WentOn DEF DeletePodAsFailed, Goto
  <2>2. pod'.uid = pod.uid /\ pod'.cfg = pod.cfg /\ pod'.state = pod.state
    BY <1>17, <1>t DEF DeletePodAsFailed, DeletePod, Pod
  <2>3. pod.uid = 0 => pod' = pod
    BY <1>17, <1>t, <1>i DEF DeletePodAsFailed, DeletePod, Pod, PodInv, NoPod
  <2>4. ~Executing
    BY <2>1, <1>i DEF LocalInv, Executing
  <2>5. ~killed' /\ UNCHANGED <<er, secret, linked, reg, busy, races>>
    BY <1>17, <2>4, <1>i DEF DeletePodAsFailed, DeletePod
  <2>6. PodInv'
    BY <2>2, <2>3, <2>5, <1>i DEF PodInv
  <2>7. IdentityInv'
    BY <2>2, <2>5, <1>i DEF IdentityInv
  <2>8. ServiceInv'
    BY <2>3, <2>5, <1>i DEF ServiceInv
  <2>9. LocalInv'
    BY <2>1, <2>5, <1>i DEF LocalInv, Work, Registering, HavingId, Teardown
  <2> QED
    BY <2>5, <2>6, <2>7, <2>8, <2>9, Kept DEF PromptInv
<1>18. CASE PatchFailure
  <2>1. CASE ~er.exists
    <3>1. er' = er /\ pc' = "idle"
      BY <1>18, <2>1, NotPatched DEF PatchFailure
    <3> QED
      BY <1>18, <3>1, NothingDone DEF PatchFailure
  <2>2. CASE er.exists
    <3>1. pc = "patchFailure" /\ er' = [er EXCEPT !.fails = @ \cup {lPod.uid}] /\ pc' = "idle"
      BY <1>18, <2>2, LeftIdle DEF PatchFailure, PatchRunner, Continue
    <3>2. /\ er'.exists = er.exists /\ er'.del = er.del /\ er'.fin = er.fin /\ er'.afin = er.afin
          /\ er'.phase = er.phase /\ er'.rid = er.rid /\ er'.job = er.job
          /\ er'.fails = er.fails \cup {lPod.uid}
      BY <3>1, <1>t DEF Runner
    <3>0. Cardinality(er.fails) <= MaxFailures
      BY <2>2, <3>1, <1>i DEF LocalInv, HavingId
    <3>00. /\ Cardinality(er.fails \cup {lPod.uid}) \in Nat
           /\ Cardinality(er.fails \cup {lPod.uid}) <= Cardinality(er.fails) + 1
      BY FailureCounts, <1>t
    <3>3. Cardinality(er'.fails) <= MaxFailures + 1
      BY <3>0, <3>2, <3>00, <1>c
    <3>4. RunnerInv'
      BY <3>1, <3>2, <3>3, <1>i DEF RunnerInv, LocalInv, Work, HavingId
    <3>5. PodInv'
      BY <1>18, <3>2, <1>i DEF PatchFailure, PodInv
    <3>6. IdentityInv'
      BY <1>18, <3>1, <1>i DEF PatchFailure, IdentityInv, LocalInv, Work
    <3>7. ServiceInv'
      BY <1>18, <3>2, <1>i DEF PatchFailure, ServiceInv
    <3>8. LocalInv'
      BY <1>18, <2>2, <3>1, <3>2, <3>3, LeaveLocal
    <3> QED
      BY <1>18, <3>4, <3>5, <3>6, <3>7, <3>8 DEF PatchFailure, PromptInv
  <2> QED
    BY <2>1, <2>2
<1>19. CASE DeleteRunner
  <2>1. CASE ~er.exists
    <3>1. er' = er /\ pc' = "idle" /\ UNCHANGED history
      BY <1>19, <2>1, LeftIdle DEF DeleteRunner
    <3> QED
      BY <1>19, <3>1, NothingDone DEF DeleteRunner
  <2>2. CASE er.exists
    <3>1. /\ pc \in {"deleteRunner", "deleteRunnerWithJob"} /\ MarkDeleted
          /\ \/ pc' = "idle"
             \/ pc' = "removeBestEffort" /\ pc = "deleteRunnerWithJob" /\ lEr' = lEr /\ lSecret' = lSecret
      BY <1>19, <2>2, LeftIdle, WentOn DEF DeleteRunner, Goto, Continue
    <3>2. er' = [er EXCEPT !.del = TRUE]
      BY <2>2, <3>1, <1>i DEF LocalInv, Work, MarkDeleted
    <3>3. /\ er'.exists = er.exists /\ er'.del = TRUE /\ er'.fin = er.fin /\ er'.afin = er.afin
          /\ er'.phase = er.phase /\ er'.rid = er.rid /\ er'.job = er.job /\ er'.fails = er.fails
      BY <3>2, <1>t DEF Runner
    <3>4. /\ races \subseteq races' /\ UNCHANGED <<pod, secret, reg, busy, linked, killed>>
          /\ er.rid = 0 /\ ~er.del => "unregistered" \in races'
      BY <1>19, <3>1 DEF DeleteRunner, MarkDeleted
    <3>5. RunnerInv'
      BY <3>1, <3>3, <3>4, <1>i DEF RunnerInv, LocalInv, Work
    <3>6. PodInv'
      BY <3>3, <3>4, <1>i DEF PodInv
    <3>7. IdentityInv'
      BY <3>3, <3>4, <1>i DEF IdentityInv
    <3>8. ServiceInv'
      BY <2>2, <3>3, <3>4, <1>i DEF RunnerInv, ServiceInv
    <3>9. LocalInv'
      BY <3>1, <3>3, <3>4, <1>i DEF LocalInv, Work, Registering, HavingId, Teardown
    <3> QED
      BY <3>4, <3>5, <3>6, <3>7, <3>8, <3>9 DEF PromptInv
  <2> QED
    BY <2>1, <2>2
<1>20. CASE RemoveBestEffort
  <2>1. pc' = "idle"
    BY <1>20, LeftIdle DEF RemoveBestEffort
  <2>2. IdentityInv'
    BY <1>20, <1>i DEF RemoveBestEffort, Unregister, IdentityInv, Agree, NoId
  <2>3. ServiceInv'
    BY <1>20, <1>i DEF RemoveBestEffort, Unregister, JobStillRunning, ServiceInv
  <2>4. LocalInv'
    BY <1>20, <2>1, LeaveLocal
  <2> QED
    BY <1>20, <2>2, <2>3, <2>4, Kept DEF RemoveBestEffort, PromptInv
<1>21. CASE RemoveFromService
  <2>1. /\ pc = "removeFromService"
        /\ \/ pc' = "idle" /\ reg' = reg
           \/ /\ pc' = "dropActionsFinalizer" /\ lEr' = lEr /\ lSecret' = lSecret
              /\ reg' = (IF lEr.rid = reg THEN 0 ELSE reg) /\ ~(busy /\ lEr.rid = reg)
    BY <1>21, WentOn, LeftIdle DEF RemoveFromService, Unregister, JobStillRunning, Goto
  <2>2. UNCHANGED <<er, pod, secret, busy, linked, races, killed>>
    BY <1>21 DEF RemoveFromService
  <2>3. IdentityInv'
    BY <1>21, <2>1, <1>i DEF RemoveFromService, IdentityInv, Agree, NoId
  <2>4. ServiceInv'
    BY <2>1, <2>2, <1>i DEF ServiceInv
  <2>5. LocalInv'
    BY <2>1, <2>2, <1>t, <1>f, <1>i DEF LocalInv, IdentityInv, Agree, NoId, Unreadable, Work,
       Registering, HavingId, Teardown
  <2> QED
    BY <2>2, <2>3, <2>4, <2>5, Kept DEF PromptInv
<1>22. CASE DropActionsFinalizer
  <2>1. CASE ~er.exists
    <3>1. er' = er /\ pc' = "idle"
      BY <1>22, <2>1, NotPatched DEF DropActionsFinalizer
    <3> QED
      BY <1>22, <3>1, NothingDone DEF DropActionsFinalizer
  <2>2. CASE er.exists
    <3>1. /\ pc = "dropActionsFinalizer" /\ pc' = "cleanupPod" /\ lEr' = er'
          /\ er' = WithoutFinalizers([er EXCEPT !.afin = FALSE])
      BY <1>22, <2>2, Patched DEF DropActionsFinalizer
    <3>2. er' = [er EXCEPT !.afin = FALSE]
      BY <2>2, <3>1, <1>t, <1>i DEF WithoutFinalizers, LocalInv, Runner
    <3>3. /\ er'.exists = er.exists /\ er'.del = er.del /\ er'.fin = er.fin /\ er'.afin = FALSE
          /\ er'.phase = er.phase /\ er'.rid = er.rid /\ er'.job = er.job /\ er'.fails = er.fails
      BY <3>2, <1>t DEF Runner
    <3>4. RunnerInv'
      BY <1>22, <3>1, <3>3, <1>i DEF DropActionsFinalizer, RunnerInv, LocalInv
    <3>5. PodInv'
      BY <1>22, <3>3, <1>i DEF DropActionsFinalizer, PodInv
    <3>6. IdentityInv'
      BY <1>22, <3>3, <1>i DEF DropActionsFinalizer, IdentityInv, IsDone
    <3>7. ServiceInv'
      BY <1>22, <3>1, <3>3, <1>i DEF DropActionsFinalizer, ServiceInv, LocalInv
    <3>8. LocalInv'
      BY <3>1, <3>3, <1>i DEF LocalInv, Work, Registering, HavingId
    <3> QED
      BY <1>22, <3>4, <3>5, <3>6, <3>7, <3>8 DEF DropActionsFinalizer, PromptInv
  <2> QED
    BY <2>1, <2>2
<1>23. CASE CleanupPod
  <2>1. pc = "cleanupPod" /\ pc' = "cleanupSecret" /\ lEr' = lEr /\ lSecret' = lSecret
    BY <1>23, WentOn DEF CleanupPod, Goto
  <2>2. pod'.uid = pod.uid /\ pod'.cfg = pod.cfg /\ pod'.state = pod.state
    BY <1>23, <1>t DEF CleanupPod, DeletePod, Pod
  <2>3. pod.uid = 0 => pod' = pod
    BY <1>23, <1>t, <1>i DEF CleanupPod, DeletePod, Pod, PodInv, NoPod
  <2>4. ~Executing
    BY <2>1, <1>i DEF LocalInv, Executing, Teardown, IsDone, ServiceInv, PodInv
  <2>5. ~killed' /\ UNCHANGED <<er, secret, linked, reg, busy, races>>
    BY <1>23, <2>4, <1>i DEF CleanupPod, DeletePod
  <2>6. PodInv'
    BY <2>2, <2>3, <2>5, <1>i DEF PodInv
  <2>7. IdentityInv'
    BY <2>2, <2>5, <1>i DEF IdentityInv
  <2>8. ServiceInv'
    BY <2>3, <2>5, <1>i DEF ServiceInv
  <2>9. LocalInv'
    BY <2>1, <2>5, <1>i DEF LocalInv, Work, Registering, HavingId, Teardown
  <2> QED
    BY <2>5, <2>6, <2>7, <2>8, <2>9, Kept DEF PromptInv
<1>24. CASE CleanupSecret
  <2>1. IdentityInv'
    BY <1>24, <1>i DEF CleanupSecret, IdentityInv, LocalInv, Agree, NoId, Teardown, IsDone
  <2>2. LocalInv'
    BY <1>24, <1>i DEF CleanupSecret, Return, Leave, Continue, Goto, ServiceInv, LocalInv, Work,
       Registering, HavingId, Teardown
  <2> QED
    BY <1>24, <2>1, <2>2, Kept DEF CleanupSecret, PromptInv
<1>25. CASE CleanupLinked
  <2>1. ServiceInv'
    BY <1>25, <1>i DEF CleanupLinked, ServiceInv
  <2>2. LocalInv'
    BY <1>25, <1>i DEF CleanupLinked, Continue, Goto, LocalInv, Work, Registering, HavingId, Teardown
  <2> QED
    BY <1>25, <2>1, <2>2, Kept DEF CleanupLinked, PromptInv
<1>26. CASE DropFinalizer
  <2>1. pc = "dropFinalizer" /\ pc' = "idle"
    BY <1>26, LeftIdle DEF DropFinalizer
  <2>2. CASE ~er.exists
    <3>0. [NoRunner EXCEPT !.fin = FALSE] = NoRunner
      <4>1. NoRunner.fin = FALSE /\ NoRunner \in Runner
        BY RunnerEdits DEF NoRunner
      <4> QED
        BY <4>1 DEF Runner
    <3>1. er' = er
      BY <1>26, <2>2, <3>0, <1>i, NoRunnerFields DEF DropFinalizer, WithoutFinalizers, RunnerInv
    <3> QED
      BY <1>26, <2>1, <3>1, NothingDone DEF DropFinalizer
  <2>3. CASE er.exists
    <3>1. er' = NoRunner
      BY <1>26, <1>t, <1>i DEF DropFinalizer, WithoutFinalizers, Runner, LocalInv, Teardown
    <3>3. RunnerInv'
      <4>1. ~er'.exists /\ er' = NoRunner /\ Cardinality(er'.fails) = 0
        BY <3>1, NoRunnerFields
      <4>2. Cardinality(er'.fails) <= MaxFailures + 1
        BY <4>1, <1>c
      <4> QED
        BY <4>1, <4>2 DEF RunnerInv
    <3>4. PodInv'
      BY <1>26, <3>1, NoRunnerFields, <1>i DEF DropFinalizer, PodInv
    <3>5. IdentityInv'
      BY <1>26, <3>1, NoRunnerFields, <1>i DEF DropFinalizer, IdentityInv, Agree, NoId
    <3>6. ServiceInv'
      BY <1>26, <3>1, NoRunnerFields, <1>i DEF DropFinalizer, RunnerInv, PodInv, ServiceInv, LocalInv,
         Teardown
    <3>7. LocalInv'
      BY <2>1 DEF LocalInv, Work, Registering, HavingId, Teardown
    <3> QED
      BY <1>26, <3>3, <3>4, <3>5, <3>6, <3>7 DEF DropFinalizer, PromptInv
  <2> QED
    BY <2>2, <2>3
<1>27. CASE CreatePodDenied
  <2>1. LocalInv'
    BY <1>27, <1>i DEF CreatePodDenied, Requeue, Leave, Continue, Goto, LocalInv, Work, Registering,
       HavingId, Teardown
  <2> QED
    BY <1>27, <2>1, Kept DEF CreatePodDenied, PromptInv
<1>28. CASE CallFails
  <2>1. pc' = "idle"
    BY <1>28, LeftIdle DEF CallFails
  <2> QED
    BY <1>28, <2>1, NothingDone DEF CallFails
<1>29. CASE Restart
  <2>1. pc' = "idle"
    BY <1>29, LeftIdle DEF Restart
  <2> QED
    BY <1>29, <2>1, NothingDone DEF Restart
<1>30. CASE PodDrained
  <2>1. pod'.uid = pod.uid /\ pod'.cfg = pod.cfg /\ pod'.state = pod.state /\ pod.uid # 0
    BY <1>30, <1>t DEF PodDrained, Pod
  <2>2. RunnerInv'
    BY <1>30, <1>i DEF PodDrained, RunnerInv
  <2>3. PodInv'
    BY <1>30, <2>1, <1>i DEF PodDrained, PodInv
  <2>4. IdentityInv'
    BY <1>30, <2>1, <1>i DEF PodDrained, IdentityInv
  <2>5. ServiceInv'
    BY <1>30, <1>i DEF PodDrained, ServiceInv
  <2>6. LocalInv'
    BY <1>30, <2>1, <1>t, <1>i DEF PodDrained, LocalInv
  <2> QED
    BY <1>30, <2>2, <2>3, <2>4, <2>5, <2>6 DEF PodDrained, PromptInv
<1>31. CASE WatchRunner
  BY <1>31, <1>i, Kept DEF WatchRunner, PromptInv
<1>32. CASE WatchPod
  BY <1>32, <1>i, Kept DEF WatchPod, PromptInv
<1>33. CASE BackoffEnds
  BY <1>33, <1>i, Kept DEF BackoffEnds, PromptInv
<1>34. CASE OwnerRemoves
  <2>1. IdentityInv'
    BY <1>34, <1>i DEF OwnerRemoves, Unregister, IdentityInv, Agree, NoId
  <2>2. ServiceInv'
    BY <1>34, <1>i DEF OwnerRemoves, Unregister, JobStillRunning, ServiceInv
  <2>3. LocalInv'
    BY <1>34, <1>i DEF OwnerRemoves, LocalInv, Registering
  <2> QED
    BY <1>34, <2>1, <2>2, <2>3, Kept DEF OwnerRemoves, PromptInv
<1>35. CASE OwnerDeletes
  <2>1. er' = IF er.fin THEN [er EXCEPT !.del = TRUE] ELSE NoRunner
    BY <1>35, <1>i DEF OwnerDeletes, MarkDeleted, RunnerInv
  <2>2. er.fin => /\ er'.exists = er.exists /\ er'.del = TRUE /\ er'.fin = er.fin /\ er'.afin = er.afin
                  /\ er'.phase = er.phase /\ er'.rid = er.rid /\ er'.job = er.job /\ er'.fails = er.fails
    BY <2>1, <1>t DEF Runner
  <2>3. ~er.fin => er' = NoRunner /\ er.rid = 0
    BY <1>35, <2>1, <1>i DEF RunnerInv, OwnerDeletes
  <2>4. /\ races \subseteq races' /\ UNCHANGED <<pod, secret, reg, busy, linked, killed, pc, lEr, lSecret>>
        /\ er.rid = 0 /\ ~er.del => "unregistered" \in races'
        /\ er.exists /\ ~er.del
    BY <1>35 DEF OwnerDeletes, MarkDeleted
  <2>6. RunnerInv'
    BY <2>2, <2>3, <2>4, NoRunnerFields, BoundsAssumption, <1>i DEF RunnerInv
  <2>7. PodInv'
    BY <2>2, <2>3, <2>4, <1>i DEF PodInv
  <2>8. IdentityInv'
    BY <2>2, <2>3, <2>4, NoRunnerFields, <1>i DEF IdentityInv
  <2>9. ServiceInv'
    BY <2>2, <2>3, <2>4, NoRunnerFields, <1>i DEF ServiceInv, PodInv, RunnerInv
  <2>11. er.fin => LocalInv'
    BY <2>2, <2>4, <1>i DEF LocalInv, IsDone
  <2>12. ~er.fin => LocalInv'
    BY <2>3, <2>4, NoRunnerFields, <1>i DEF LocalInv
  <2>10. LocalInv'
    BY <2>11, <2>12
  <2> QED
    BY <2>4, <2>6, <2>7, <2>8, <2>9, <2>10 DEF PromptInv
<1>36. CASE SecretEdited
  <2>1. RunnerInv'
    BY <1>36, <1>i DEF SecretEdited, RunnerInv
  <2>2. IdentityInv'
    BY <1>36, <1>i DEF SecretEdited, IdentityInv, Agree, NoId
  <2>3. ServiceInv'
    BY <1>36, <1>i DEF SecretEdited, ServiceInv
  <2>4. LocalInv'
    BY <1>36, <1>i DEF SecretEdited, LocalInv, Work
  <2> QED
    BY <1>36, <2>1, <2>2, <2>3, <2>4, Kept DEF SecretEdited, PromptInv
<1>37. CASE HandleJobStarted
  <2>1. /\ er'.exists = er.exists /\ er'.del = er.del /\ er'.fin = er.fin /\ er'.afin = er.afin
        /\ er'.phase = er.phase /\ er'.rid = er.rid /\ er'.fails = er.fails
    BY <1>37, <1>t DEF HandleJobStarted, Runner
  <2>3. RunnerInv'
    BY <1>37, <2>1, <1>i DEF HandleJobStarted, RunnerInv
  <2>4. PodInv'
    BY <1>37, <2>1, <1>i DEF HandleJobStarted, PodInv
  <2>5. IdentityInv'
    BY <1>37, <1>i DEF HandleJobStarted, IdentityInv, IsDone
  <2>6. ServiceInv'
    BY <1>37, <1>i DEF HandleJobStarted, ServiceInv
  <2>7. LocalInv'
    BY <1>37, <1>i DEF HandleJobStarted, LocalInv
  <2> QED
    BY <1>37, <2>3, <2>4, <2>5, <2>6, <2>7 DEF HandleJobStarted, PromptInv
<1>38. CASE PodStarts
  <2>1. pod'.uid = pod.uid /\ pod'.cfg = pod.cfg /\ pod.uid # 0 /\ pod.state \in {"NoStatus", "Waiting"}
    BY <1>38, <1>t DEF PodStarts, Pod
  <2>2. PodInv'
    BY <1>38, <2>1, <1>i DEF PodStarts, PodInv
  <2>3. IdentityInv'
    BY <1>38, <2>1, <1>i DEF PodStarts, IdentityInv
  <2>4. ServiceInv'
    BY <1>38, <1>i DEF PodStarts, ServiceInv
  <2>5. LocalInv'
    BY <1>38, <2>1, <1>t, <1>i DEF PodStarts, LocalInv
  <2> QED
    BY <1>38, <2>2, <2>3, <2>4, <2>5, Kept DEF PodStarts, PromptInv
<1>39. CASE PodStops
  <2>1. /\ pod'.uid = pod.uid /\ pod'.cfg = pod.cfg /\ pod.uid # 0
        /\ pod.state \in {"NoStatus", "Waiting", "Running"}
    BY <1>39, <1>t DEF PodStops, Pod
  <2>2. PodInv'
    BY <1>39, <2>1, <1>i DEF PodStops, PodInv
  <2>3. IdentityInv'
    BY <1>39, <2>1, <1>i DEF PodStops, IdentityInv
  <2>4. ServiceInv'
    BY <1>39, <1>i DEF PodStops, ServiceInv
  <2>5. LocalInv'
    BY <1>39, <2>1, <1>t, <1>i DEF PodStops, LocalInv
  <2> QED
    BY <1>39, <2>2, <2>3, <2>4, <2>5, Kept DEF PodStops, PromptInv
<1>40. CASE RunnerRejected
  <2>1. pod'.uid = pod.uid /\ pod'.cfg = pod.cfg /\ pod.uid # 0 /\ pod.state = "Running"
    BY <1>40, <1>t DEF RunnerRejected, Pod
  <2>2. PodInv'
    BY <1>40, <2>1, <1>i DEF RunnerRejected, PodInv
  <2>3. IdentityInv'
    BY <1>40, <2>1, <1>i DEF RunnerRejected, IdentityInv
  <2>4. ServiceInv'
    BY <1>40, <1>i DEF RunnerRejected, ServiceInv
  <2>5. LocalInv'
    BY <1>40, <2>1, <1>t, <1>i DEF RunnerRejected, LocalInv
  <2> QED
    BY <1>40, <2>2, <2>3, <2>4, <2>5, Kept DEF RunnerRejected, PromptInv
<1>41. CASE PodRemoved
  <2>1. PodInv'
    BY <1>41 DEF PodRemoved, NoPod, PodInv
  <2>2. IdentityInv'
    BY <1>41, <1>i DEF PodRemoved, NoPod, IdentityInv, Agree, NoId
  <2>3. ServiceInv'
    BY <1>41, <1>i DEF PodRemoved, PodInv, ServiceInv
  <2>4. LocalInv'
    BY <1>41, <1>t, <1>i DEF PodRemoved, NoPod, LocalInv
  <2> QED
    BY <1>41, <2>1, <2>2, <2>3, <2>4, Kept DEF PodRemoved, PromptInv
<1>42. CASE CollectGarbage
  <2>1. pod'.uid = pod.uid /\ pod'.cfg = pod.cfg /\ pod'.state = pod.state
    BY <1>42, <1>t DEF CollectGarbage, DeletePod, Pod
  <2>2. pod.uid = 0 => pod' = pod
    BY <1>42, <1>t, <1>i DEF CollectGarbage, DeletePod, Pod, PodInv, NoPod
  <2>3. ~Executing
    BY <1>42, <1>i DEF CollectGarbage, Executing, ServiceInv
  <2>4. /\ ~killed' /\ secret' = 0 /\ ~er.exists
        /\ UNCHANGED <<er, linked, reg, busy, races, pc, lEr, lSecret>>
    BY <1>42, <2>3, <1>i DEF CollectGarbage, DeletePod
  <2>5. PodInv'
    BY <2>1, <2>2, <2>4, <1>i DEF PodInv
  <2>6. IdentityInv'
    BY <2>1, <2>4, <1>i DEF IdentityInv, Agree, NoId
  <2>7. ServiceInv'
    BY <2>2, <2>4, <1>i DEF ServiceInv
  <2>8. LocalInv'
    BY <2>1, <2>4, <1>i DEF LocalInv, Work, Registering, HavingId, Teardown
  <2> QED
    BY <2>4, <2>5, <2>6, <2>7, <2>8, Kept DEF PromptInv
<1>43. CASE ForeignRunnerLeaves
  BY <1>43, <1>i, Kept DEF ForeignRunnerLeaves, PromptInv
<1>44. CASE JobAssigned
  <2>1. ServiceInv'
    BY <1>44, <1>i DEF JobAssigned, PodInv, ServiceInv
  <2>2. LocalInv'
    BY <1>44, <1>i DEF JobAssigned, PodInv, ServiceInv, LocalInv, Teardown
  <2> QED
    BY <1>44, <2>1, <2>2, <1>i, Kept DEF JobAssigned, PromptInv
<1>45. CASE JobEnds
  <2>1. /\ pod'.uid = pod.uid /\ pod'.cfg = pod.cfg /\ pod.uid # 0 /\ pod.state = "Running" /\ reg' = 0
        /\ busy' = FALSE
    BY <1>45, <1>t DEF JobEnds, Executing, Pod
  <2>0. linked' = FALSE \/ linked' = linked
    BY <1>45 DEF JobEnds
  <2>00. UNCHANGED <<er, secret, races, killed, pc, lEr, lSecret>>
    BY <1>45 DEF JobEnds
  <2>2. (linked' => linked) /\ UNCHANGED <<er, secret, races, killed, pc, lEr, lSecret>>
    BY <2>0, <2>00
  <2>3. PodInv'
    BY <2>1, <2>2, <1>i DEF PodInv
  <2>4. IdentityInv'
    BY <2>1, <2>2, <1>i DEF IdentityInv, Agree, NoId
  <2>5. ServiceInv'
    BY <2>1, <2>2, <1>i DEF ServiceInv
  <2>6. LocalInv'
    BY <2>1, <2>2, <1>i DEF LocalInv
  <2> QED
    BY <2>2, <2>3, <2>4, <2>5, <2>6, Kept DEF PromptInv
<1>46. CASE JobAbandoned
  <2>1. ServiceInv'
    BY <1>46, <1>i DEF JobAbandoned, ServiceInv
  <2> QED
    BY <1>46, <2>1, <1>i, Kept DEF JobAbandoned, PromptInv
<1> QED
  BY <1>1, <1>2, <1>3, <1>4, <1>5, <1>6, <1>7, <1>8, <1>9, <1>10, <1>11, <1>12, <1>13, <1>14, <1>15,
     <1>16, <1>17, <1>18, <1>19, <1>20, <1>21, <1>22, <1>23, <1>24, <1>25, <1>26, <1>27, <1>28,
     <1>29, <1>30, <1>31, <1>32, <1>33, <1>34, <1>35, <1>36, <1>37, <1>38, <1>39, <1>40, <1>41,
     <1>42, <1>43, <1>44, <1>45, <1>46 DEF Next, Reconcile, Faults, Watches, Surroundings
-----------------------------------------------------------------------------
(* The fields of an EphemeralRunner that the invariant is about. *)
Fields(r, x, d, f, a, ph, i) ==
    r.exists = x /\ r.del = d /\ r.fin = f /\ r.afin = a /\ r.phase = ph /\ r.rid = i

(* They did not change. *)
Same(r, e) == Fields(r, e.exists, e.del, e.fin, e.afin, e.phase, e.rid)

(* The fields of the records that the patches make. *)
LEMMA EditFields ==
  ASSUME NEW e \in Runner
  PROVE  /\ Same(e, e)
         /\ Fields([e EXCEPT !.fin = TRUE, !.afin = TRUE], e.exists, e.del, TRUE, TRUE, e.phase, e.rid)
         /\ Fields([e EXCEPT !.del = TRUE], e.exists, TRUE, e.fin, e.afin, e.phase, e.rid)
         /\ Same([e EXCEPT !.job = TRUE], e)
         /\ Fields([e EXCEPT !.afin = FALSE], e.exists, e.del, e.fin, FALSE, e.phase, e.rid)
         /\ Fields([e EXCEPT !.fin = FALSE], e.exists, e.del, FALSE, e.afin, e.phase, e.rid)
         /\ \A i : Fields([e EXCEPT !.rid = i], e.exists, e.del, e.fin, e.afin, e.phase, i)
         /\ \A ph : Fields([e EXCEPT !.phase = ph], e.exists, e.del, e.fin, e.afin, ph, e.rid)
         /\ \A fs : Same([e EXCEPT !.fails = fs], e)
BY DEF Runner, Fields, Same

(* The history of rare events only grows. *)
LEMMA Grow ==
  ASSUME Next
  PROVE  races \subseteq races'
<1> USE DEF apiVars, cacheVars, localVars, svcVars, countVars, history
<1>1. ASSUME Reconcile PROVE races \subseteq races'
  BY <1>1 DEF Reconcile, StartReconcile, AddFinalizers, GetSecret, GenerateJit, GetRunnerByName, RemoveByName,
     CreateSecret, DeleteCorruptSecret, PatchRunnerId, BackingOff, GetPod, CreatePod, MarkFailed,
     MarkOutdated, RemoveMarked, UpdateStatus, DeletePodAsFailed, PatchFailure, DeleteRunner,
     RemoveBestEffort, RemoveFromService, DropActionsFinalizer, CleanupPod, CleanupSecret, CleanupLinked,
     DropFinalizer, DeletePod, MarkDeleted
<1>2. ASSUME Faults \/ Watches PROVE races \subseteq races'
  BY <1>2 DEF Faults, Watches, CreatePodDenied, CallFails, Restart, PodDrained, WatchRunner, WatchPod
<1>3. ASSUME Surroundings PROVE races \subseteq races'
  BY <1>3 DEF Surroundings, BackoffEnds, OwnerRemoves, OwnerDeletes, SecretEdited, HandleJobStarted, PodStarts,
     PodStops, RunnerRejected, PodRemoved, CollectGarbage, ForeignRunnerLeaves, JobAssigned, JobEnds,
     JobAbandoned, MarkDeleted, DeletePod
<1> QED
  BY <1>1, <1>2, <1>3 DEF Next

(* A runner that has a job stays registered: the service removes none. *)
LEMMA BusyStep ==
  ASSUME busy => reg # 0, reg \in Nat, lastReg \in Nat, Next
  PROVE  (busy => reg # 0)'
<1> USE DEF apiVars, cacheVars, localVars, svcVars, countVars, history
<1>1. ASSUME Reconcile PROVE (busy => reg # 0)'
  BY <1>1 DEF Reconcile, StartReconcile, AddFinalizers, GetSecret, GenerateJit, GetRunnerByName, RemoveByName,
     CreateSecret, DeleteCorruptSecret, PatchRunnerId, BackingOff, GetPod, CreatePod, MarkFailed,
     MarkOutdated, RemoveMarked, UpdateStatus, DeletePodAsFailed, PatchFailure, DeleteRunner,
     RemoveBestEffort, RemoveFromService, DropActionsFinalizer, CleanupPod, CleanupSecret, CleanupLinked,
     DropFinalizer, Unregister, JobStillRunning
<1>2. ASSUME Faults \/ Watches PROVE (busy => reg # 0)'
  BY <1>2 DEF Faults, Watches, CreatePodDenied, CallFails, Restart, PodDrained, WatchRunner, WatchPod
<1>3. ASSUME Surroundings PROVE (busy => reg # 0)'
  BY <1>3 DEF Surroundings, BackoffEnds, OwnerRemoves, OwnerDeletes, SecretEdited, HandleJobStarted, PodStarts,
     PodStops, RunnerRejected, PodRemoved, CollectGarbage, ForeignRunnerLeaves, JobAssigned, JobEnds,
     JobAbandoned, Unregister, JobStillRunning
<1> QED
  BY <1>1, <1>2, <1>3 DEF Next

(* A runner that is gone is one of the objects Ordered describes. *)
LEMMA NothingOrdered == Ordered(NoRunner)
BY DEF Ordered, NoRunner, IsDone

(* Steps that leave the runner and its copies alone keep CopyInv when they  *)
(* end the Reconcile or go on with its work.                                *)
LEMMA CopyKept ==
  ASSUME CopyInv, races \subseteq races', UNCHANGED <<er, erCache>>,
         \/ UNCHANGED <<pc, lEr>>
         \/ pc' = "idle" /\ lEr' = NoRunner
         \/ lEr' = lEr /\ {pc, pc'} \subseteq Work \ {"addFinalizers"}
  PROVE  CopyInv'
<1>1. (Ordered(er) /\ Ordered(erCache) /\ Ordered(lEr))'
  <2>1. ASSUME NEW e, Ordered(e) PROVE Ordered(e)'
    BY <2>1 DEF Ordered
  <2> QED
    BY <2>1, NothingOrdered DEF CopyInv, Ordered
<1>2. Older(erCache)' /\ (pc # "idle" => Older(lEr) /\ lEr.exists)'
  BY DEF CopyInv, Older, Work
<1> QED
  BY <1>1, <1>2 DEF CopyInv, Work, Deleting, Teardown, Closed

(* Steps that leave the runner, its copies and the next call alone. *)
Aside == WatchPod \/ BackoffEnds \/ OwnerRemoves \/ SecretEdited \/ PodStarts \/ PodStops \/ RunnerRejected
         \/ PodRemoved \/ PodDrained \/ CollectGarbage \/ ForeignRunnerLeaves \/ JobAssigned \/ JobEnds
         \/ JobAbandoned

(* They also leave the locals of Reconcile alone. *)
LEMMA AsideKeeps ==
  ASSUME Aside
  PROVE  UNCHANGED <<er, erCache, pc, lEr, lSecret>>
BY DEF Aside, WatchPod, BackoffEnds, OwnerRemoves, SecretEdited, PodStarts, PodStops, RunnerRejected,
   PodRemoved, PodDrained, CollectGarbage, ForeignRunnerLeaves, JobAssigned, JobEnds, JobAbandoned,
   apiVars, cacheVars, localVars

(* Steps that end the Reconcile and leave the runner and its copy alone. *)
Ends == BackingOff \/ RemoveByName \/ DeleteCorruptSecret \/ CreatePod \/ RemoveMarked \/ RemoveBestEffort
        \/ CallFails

(* Reconcile starts from a fresh copy the next time. *)
LEMMA EndsKeeps ==
  ASSUME Ends
  PROVE  UNCHANGED <<er, erCache>> /\ pc' = "idle" /\ lEr' = NoRunner /\ lSecret' = 0
BY DEF Ends, BackingOff, RemoveByName, DeleteCorruptSecret, CreatePod, RemoveMarked, RemoveBestEffort,
   CallFails, apiVars, cacheVars, Return, Requeue, Leave

(* Calls that lead to the next one with the same copy of the runner. *)
Advances == GetSecret \/ GenerateJit \/ GetRunnerByName \/ CreateSecret \/ GetPod \/ CreatePodDenied
            \/ DeletePodAsFailed

(* They stay among the calls that work for the runner. *)
LEMMA AdvancesKeeps ==
  ASSUME Advances
  PROVE  /\ UNCHANGED <<er, erCache>>
         /\ \/ pc' = "idle" /\ lEr' = NoRunner /\ lSecret' = 0
            \/ lEr' = lEr /\ {pc, pc'} \subseteq Work \ {"addFinalizers"}
<1> USE DEF apiVars, cacheVars, Return, Requeue, Leave, Continue, Goto, Work
<1>1. CASE GetSecret
  BY <1>1, StepValues DEF GetSecret
<1>2. CASE GenerateJit
  BY <1>2 DEF GenerateJit
<1>3. CASE GetRunnerByName
  BY <1>3 DEF GetRunnerByName
<1>4. CASE CreateSecret
  BY <1>4, StepValues DEF CreateSecret
<1>5. CASE GetPod
  BY <1>5, StepValues DEF GetPod
<1>6. CASE CreatePodDenied
  BY <1>6 DEF CreatePodDenied
<1>7. CASE DeletePodAsFailed
  BY <1>7 DEF DeletePodAsFailed
<1> QED
  BY <1>1, <1>2, <1>3, <1>4, <1>5, <1>6, <1>7 DEF Advances

(* Steps that may write the EphemeralRunner. *)
Patching == AddFinalizers \/ PatchRunnerId \/ MarkFailed \/ MarkOutdated \/ UpdateStatus \/ PatchFailure
            \/ DropActionsFinalizer \/ DropFinalizer \/ DeleteRunner \/ OwnerDeletes \/ HandleJobStarted

(* The calls of the deletion path that leave the EphemeralRunner alone. *)
TearsDown == RemoveFromService \/ CleanupPod \/ CleanupSecret \/ CleanupLinked

(* These are all the steps there are. *)
LEMMA Classes ==
  ASSUME Next
  PROVE  Aside \/ Ends \/ Advances \/ Patching \/ TearsDown \/ StartReconcile \/ WatchRunner \/ Restart
BY DEF Next, Reconcile, Faults, Watches, Surroundings, Aside, Ends, Advances, Patching, TearsDown

(* The deletion path is walked in one direction. *)
LEMMA TearsDownKeeps ==
  ASSUME TearsDown
  PROVE  /\ UNCHANGED <<er, erCache>>
         /\ \/ pc' = "idle" /\ lEr' = NoRunner /\ lSecret' = 0
            \/ /\ lEr' = lEr /\ lSecret' = lSecret
               /\ \/ pc = "removeFromService" /\ pc' = "dropActionsFinalizer"
                  \/ pc = "cleanupPod" /\ pc' = "cleanupSecret"
                  \/ pc = "cleanupSecret" /\ pc' \in {"cleanupLinked", "dropFinalizer"} /\ lEr.del
                  \/ pc = "cleanupLinked" /\ pc' = "dropFinalizer"
<1> USE DEF apiVars, cacheVars, Return, Requeue, Leave, Continue, Goto
<1>1. CASE RemoveFromService
  BY <1>1 DEF RemoveFromService
<1>2. CASE CleanupPod
  BY <1>2 DEF CleanupPod
<1>3. CASE CleanupSecret
  BY <1>3 DEF CleanupSecret
<1>4. CASE CleanupLinked
  BY <1>4 DEF CleanupLinked
<1> QED
  BY <1>1, <1>2, <1>3, <1>4 DEF TearsDown

(* What the writes do to the runner, and where Reconcile goes. *)
LEMMA PatchEffects ==
  ASSUME TypeInv, CopyInv, Patching
  PROVE  /\ erCache' = erCache
         /\ \/ er' = er /\ pc' = "idle" /\ lEr' = NoRunner /\ lSecret' = 0
            \/ er' = er /\ UNCHANGED <<pc, lEr, lSecret>>
            \/ /\ er.exists /\ pc = "addFinalizers" /\ pc' = "getSecret" /\ lEr' = er' /\ lSecret' = lSecret
               /\ Fields(er', TRUE, er.del, TRUE, TRUE, er.phase, er.rid)
            \/ /\ er.exists /\ pc = "patchRunnerId" /\ lEr' = er' /\ lSecret' = lSecret
               /\ Fields(er', TRUE, er.del, er.fin, er.afin, er.phase, lSecret)
               /\ pc' \in {"deleteCorruptSecret", "patchRunnerId", "deleteRunner", "getPod"}
               /\ lSecret # 0 => pc' \in {"deleteRunner", "getPod"}
            \/ /\ er.exists /\ pc = "markFailed" /\ races' = races \cup {"denied"}
            \/ /\ er.exists /\ pc = "markOutdated" /\ pc' = "removeMarked" /\ lEr' = er' /\ lSecret' = lSecret
               /\ Fields(er', TRUE, er.del, er.fin, er.afin, "Outdated", er.rid)
            \/ /\ er.exists /\ pc = "updateStatus" /\ pc' = "idle" /\ lEr' = NoRunner /\ lSecret' = 0
               /\ er'.phase \in {"Running", "Pending"}
               /\ Fields(er', TRUE, er.del, er.fin, er.afin, er'.phase, er.rid)
            \/ /\ er.exists /\ pc = "patchFailure" /\ pc' = "idle" /\ lEr' = NoRunner /\ lSecret' = 0
               /\ Same(er', er)
            \/ /\ er.exists /\ pc = "dropActionsFinalizer" /\ pc' = "cleanupPod" /\ lEr' = er' /\ lSecret' = lSecret
               /\ er.del /\ er.fin
               /\ Fields(er', TRUE, TRUE, TRUE, FALSE, er.phase, er.rid)
            \/ /\ pc = "dropFinalizer" /\ pc' = "idle" /\ lEr' = NoRunner /\ lSecret' = 0 /\ er' = NoRunner
            \/ /\ er.exists /\ er.fin /\ Fields(er', TRUE, TRUE, er.fin, er.afin, er.phase, er.rid)
               /\ ~er.del /\ er.rid = 0 => "unregistered" \in races'
               /\ \/ pc \in {"deleteRunner", "deleteRunnerWithJob"} /\ pc' = "idle" /\ lEr' = NoRunner /\ lSecret' = 0
                  \/ pc = "deleteRunnerWithJob" /\ pc' = "removeBestEffort" /\ lEr' = lEr /\ lSecret' = lSecret
                  \/ ~er.del /\ UNCHANGED <<pc, lEr, lSecret>>
            \/ /\ er.exists /\ ~er.fin /\ er' = NoRunner /\ UNCHANGED <<pc, lEr, lSecret>>
               /\ "unregistered" \in races'
            \/ /\ er.exists /\ Same(er', er) /\ UNCHANGED <<pc, lEr, lSecret>>
<1> USE DEF apiVars, cacheVars, localVars, svcVars, countVars, history
<1>t. er \in Runner
  BY DEF TypeInv, TypeOK
<1>1. CASE AddFinalizers
  <2>1. CASE er.exists
    <3>1. /\ er' = [er EXCEPT !.fin = TRUE, !.afin = TRUE] /\ lEr' = er' /\ pc = "addFinalizers"
          /\ pc' = "getSecret" /\ lSecret' = lSecret
      BY <1>1, <2>1, Patched DEF AddFinalizers
    <3>2. Fields(er', er.exists, er.del, TRUE, TRUE, er.phase, er.rid)
      BY <3>1, <1>t, EditFields
    <3>3. er.exists = TRUE
      BY <2>1, <1>t DEF Runner
    <3> QED
      BY <1>1, <2>1, <3>1, <3>2, <3>3 DEF AddFinalizers
  <2>2. CASE ~er.exists
    BY <1>1, <2>2 DEF AddFinalizers, PatchRunner, Requeue, Leave
  <2> QED
    BY <2>1, <2>2
<1>2. CASE PatchRunnerId
  <2>1. CASE er.exists
    <3>1. er' = [er EXCEPT !.rid = lSecret] /\ lEr' = er' /\ pc = "patchRunnerId" /\ pc' = StepAfterSecret(er', lSecret) /\ lSecret' = lSecret
      BY <1>2, <2>1, Patched, StepValues DEF PatchRunnerId
    <3>2. Fields(er', TRUE, er.del, er.fin, er.afin, er.phase, lSecret)
      BY <3>1, <1>t, <2>1, EditFields DEF Fields
    <3>3. lSecret # 0 => pc' \in {"deleteRunner", "getPod"}
      BY <3>1, <3>2 DEF Fields, StepAfterSecret
    <3> QED
      BY <1>2, <2>1, <3>1, <3>2, <3>3, StepValues DEF PatchRunnerId
  <2>2. CASE ~er.exists
    BY <1>2, <2>2 DEF PatchRunnerId, PatchRunner, Requeue, Leave
  <2> QED
    BY <2>1, <2>2
<1>3. CASE MarkFailed
  BY <1>3 DEF MarkFailed, PatchRunner, Requeue, Leave
<1>4. CASE MarkOutdated
  <2>1. CASE er.exists
    <3>1. /\ er' = [er EXCEPT !.phase = "Outdated"] /\ lEr' = er' /\ pc = "markOutdated"
          /\ pc' = "removeMarked" /\ lSecret' = lSecret
      BY <1>4, <2>1, Patched DEF MarkOutdated
    <3>2. Fields(er', er.exists, er.del, er.fin, er.afin, "Outdated", er.rid)
      BY <3>1, <1>t, EditFields
    <3>3. er.exists = TRUE
      BY <2>1, <1>t DEF Runner
    <3> QED
      BY <1>4, <2>1, <3>1, <3>2, <3>3 DEF MarkOutdated
  <2>2. CASE ~er.exists
    BY <1>4, <2>2 DEF MarkOutdated, PatchRunner, Requeue, Leave
  <2> QED
    BY <2>1, <2>2
<1>5. CASE UpdateStatus
  <2>1. CASE er' = er
    BY <1>5, <2>1 DEF UpdateStatus, PatchRunner, Continue, Return, Requeue, Leave
  <2>2. CASE er' # er
    <3>1. er.exists /\ er' = [er EXCEPT !.phase = PodPhase(lPod)] /\ pc = "updateStatus" /\ pc' = "idle" /\ lEr' = NoRunner /\ lSecret' = 0
      BY <1>5, <2>2 DEF UpdateStatus, PatchRunner, Continue, Return, Requeue, Leave
    <3>2. PodPhase(lPod) \in {"Running", "Pending"}
      BY DEF PodPhase
    <3>3. Fields(er', TRUE, er.del, er.fin, er.afin, PodPhase(lPod), er.rid)
      BY <3>1, <1>t, EditFields DEF Fields
    <3>4. er'.phase \in {"Running", "Pending"} /\ Fields(er', TRUE, er.del, er.fin, er.afin, er'.phase, er.rid)
      BY <3>2, <3>3 DEF Fields
    <3> QED
      BY <1>5, <3>1, <3>4 DEF UpdateStatus
  <2> QED
    BY <2>1, <2>2
<1>6. CASE PatchFailure
  BY <1>6, <1>t, EditFields DEF PatchFailure, PatchRunner, Continue, Return, Requeue, Leave
<1>7. CASE DropActionsFinalizer
  <2>1. CASE er.exists
    <3>1. pc = "dropActionsFinalizer" /\ pc' = "cleanupPod" /\ lEr' = er' /\ lSecret' = lSecret
          /\ er' = WithoutFinalizers([er EXCEPT !.afin = FALSE])
      BY <1>7, <2>1, Patched DEF DropActionsFinalizer
    <3>2. er.del /\ er.fin
      BY <2>1, <3>1 DEF CopyInv, Older, Ordered
    <3>3. Fields([er EXCEPT !.afin = FALSE], TRUE, TRUE, TRUE, FALSE, er.phase, er.rid)
      BY <2>1, <3>2, <1>t, EditFields DEF Fields
    <3>4. er' = [er EXCEPT !.afin = FALSE]
      BY <3>1, <3>3 DEF WithoutFinalizers, Fields
    <3> QED
      BY <1>7, <2>1, <3>1, <3>2, <3>3, <3>4 DEF DropActionsFinalizer
  <2>2. CASE ~er.exists
    BY <1>7, <2>2 DEF DropActionsFinalizer, PatchRunner, Requeue, Leave
  <2> QED
    BY <2>1, <2>2
<1>8. CASE DropFinalizer
  <2>1. pc = "dropFinalizer" /\ pc' = "idle" /\ lEr' = NoRunner /\ lSecret' = 0
        /\ er' = WithoutFinalizers([er EXCEPT !.fin = FALSE])
    BY <1>8 DEF DropFinalizer, Return, Leave
  <2>2. CASE er.exists
    <3>1. er.del /\ ~er.afin
      BY <2>1, <2>2 DEF CopyInv, Teardown
    <3> QED
      BY <1>8, <2>1, <3>1, <1>t, EditFields DEF DropFinalizer, WithoutFinalizers, Fields
  <2>3. CASE ~er.exists
    <3>1. er = NoRunner
      BY <2>3 DEF CopyInv, Ordered
    <3>2. er.fin = FALSE
      BY <3>1 DEF NoRunner
    <3>3. [er EXCEPT !.fin = FALSE] = er
      BY <3>2, <1>t DEF Runner
    <3>4. er' = NoRunner
      BY <2>1, <3>1, <3>3 DEF WithoutFinalizers
    <3> QED
      BY <1>8, <2>1, <3>4 DEF DropFinalizer
  <2> QED
    BY <2>2, <2>3
<1>9. CASE DeleteRunner
  <2>1. /\ pc \in {"deleteRunner", "deleteRunnerWithJob"} /\ er.exists /\ er.fin
    BY <1>9 DEF DeleteRunner, CopyInv, Work
  <2>2. MarkDeleted /\ er' = [er EXCEPT !.del = TRUE]
    BY <1>9, <2>1 DEF DeleteRunner, MarkDeleted
  <2>3. \/ pc \in {"deleteRunner", "deleteRunnerWithJob"} /\ pc' = "idle" /\ lEr' = NoRunner /\ lSecret' = 0
        \/ pc = "deleteRunnerWithJob" /\ pc' = "removeBestEffort" /\ lEr' = lEr /\ lSecret' = lSecret
    BY <1>9, <2>1 DEF DeleteRunner, Goto, Continue, Return, Leave
  <2>6. Fields(er', er.exists, TRUE, er.fin, er.afin, er.phase, er.rid)
    BY <2>2, <1>t, EditFields
  <2>7. er.exists = TRUE
    BY <2>1, <1>t DEF Runner
  <2>4. Fields(er', TRUE, TRUE, er.fin, er.afin, er.phase, er.rid)
    BY <2>6, <2>7
  <2>5. ~er.del /\ er.rid = 0 => "unregistered" \in races'
    BY <2>2 DEF MarkDeleted
  <2> QED
    BY <1>9, <2>1, <2>3, <2>4, <2>5 DEF DeleteRunner
<1>10. CASE OwnerDeletes
  <2>1. er.exists /\ ~er.del /\ MarkDeleted /\ UNCHANGED <<pc, lEr, lSecret, erCache>>
    BY <1>10 DEF OwnerDeletes
  <2>2. CASE er.fin
    <3>1. er' = [er EXCEPT !.del = TRUE]
      BY <2>1, <2>2 DEF MarkDeleted
    <3>2. Fields(er', TRUE, TRUE, er.fin, er.afin, er.phase, er.rid)
      BY <2>1, <3>1, <1>t, EditFields DEF Fields
    <3>3. ~er.del /\ er.rid = 0 => "unregistered" \in races'
      BY <2>1 DEF MarkDeleted
    <3> QED
      BY <2>1, <2>2, <3>2, <3>3
  <2>3. CASE ~er.fin
    <3>1. ~er.afin /\ er.rid = 0
      BY <2>3 DEF CopyInv, Ordered
    <3> QED
      BY <2>1, <2>3, <3>1 DEF MarkDeleted
  <2> QED
    BY <2>2, <2>3
<1>11. CASE HandleJobStarted
  BY <1>11, <1>t, EditFields DEF HandleJobStarted
<1> QED
  BY <1>1, <1>2, <1>3, <1>4, <1>5, <1>6, <1>7, <1>8, <1>9, <1>10, <1>11 DEF Patching

(* Every step keeps what the copies of the runner still say. *)
LEMMA CopyStep ==
  ASSUME TypeInv, CopyInv, PodsInv, IdsInv, Quiet', Next
  PROVE  CopyInv'
<1>r. races \subseteq races'
  BY Grow
<1>t. /\ er \in Runner /\ erCache \in Runner /\ lEr \in Runner /\ er' \in Runner
      /\ er.rid \in Nat /\ MaxRegs \in Nat
  BY TypeStep, BoundsAssumption DEF TypeInv, TypeOK, Runner
<1>c. /\ Ordered(er) /\ Ordered(erCache) /\ Ordered(lEr) /\ Older(erCache)
      /\ pc # "idle" => Older(lEr) /\ lEr.exists
  BY DEF CopyInv
<1>o. Ordered(erCache) /\ races \subseteq races' /\ erCache' = erCache => Ordered(erCache)'
  BY DEF Ordered
<1>1. CASE Aside
  BY <1>1, <1>r, AsideKeeps, CopyKept
<1>2. CASE Ends
  BY <1>2, <1>r, EndsKeeps, CopyKept
<1>3. CASE Advances
  BY <1>3, <1>r, AdvancesKeeps, CopyKept
<1>4. CASE TearsDown
  <2>1. CASE pc' = "idle" /\ lEr' = NoRunner
    BY <1>4, <1>r, <2>1, TearsDownKeeps, CopyKept
  <2>2. CASE ~(pc' = "idle" /\ lEr' = NoRunner)
    <3>1. /\ UNCHANGED <<er, erCache, lEr>>
          /\ \/ pc = "removeFromService" /\ pc' = "dropActionsFinalizer"
             \/ pc = "cleanupPod" /\ pc' = "cleanupSecret"
             \/ pc = "cleanupSecret" /\ pc' \in {"cleanupLinked", "dropFinalizer"} /\ lEr.del
             \/ pc = "cleanupLinked" /\ pc' = "dropFinalizer"
      BY <1>4, <2>2, TearsDownKeeps
    <3>2. (Ordered(er) /\ Ordered(erCache) /\ Ordered(lEr))'
      BY <1>c, <1>r, <3>1 DEF Ordered
    <3>3. Older(erCache)' /\ Older(lEr)'
      BY <1>c, <3>1 DEF Older
    <3> QED
      BY <3>1, <3>2, <3>3 DEF CopyInv, Work, Deleting, Teardown, Closed
  <2> QED
    BY <2>1, <2>2
<1>5. CASE StartReconcile
  <2>0. UNCHANGED <<er, erCache>> /\ pc' = FirstStep(erCache) /\ lEr' = IF pc' = "idle" THEN NoRunner ELSE erCache
    BY <1>5 DEF StartReconcile, apiVars, cacheVars
  <2>1. CASE pc' = "idle"
    BY <2>0, <2>1, <1>r, CopyKept
  <2>2. CASE pc' # "idle"
    <3>1. /\ lEr' = erCache /\ erCache.exists
          /\ \/ pc' = "removeFromService" /\ erCache.del /\ erCache.fin
             \/ pc' = "cleanupPod" /\ erCache.fin /\ IF erCache.del THEN ~erCache.afin ELSE IsDone(erCache)
             \/ pc' = "addFinalizers" /\ ~erCache.del
             \/ pc' = "getSecret" /\ ~erCache.del /\ erCache.fin
      BY <2>0, <2>2, <1>c DEF FirstStep, Ordered
    <3>2. (Ordered(er) /\ Ordered(erCache) /\ Ordered(lEr))'
      BY <1>c, <1>r, <2>0, <3>1 DEF Ordered
    <3>3. Older(erCache)' /\ Older(lEr)'
      BY <1>c, <2>0, <3>1 DEF Older
    <3> QED
      BY <2>0, <3>1, <3>2, <3>3, <1>c DEF CopyInv, Work, Deleting, Teardown, Closed, Older, Ordered
  <2> QED
    BY <2>1, <2>2
<1>6. CASE WatchRunner \/ Restart
  <2>0. /\ er' = er /\ erCache' = er
        /\ \/ UNCHANGED <<pc, lEr>>
           \/ pc' = "idle" /\ lEr' = NoRunner
    BY <1>6 DEF WatchRunner, Restart, Requeue, Leave, apiVars, localVars
  <2>1. (Ordered(er) /\ Ordered(erCache))'
    BY <1>c, <1>r, <2>0 DEF Ordered
  <2>2. Ordered(lEr)'
    BY <1>c, <1>r, <2>0, NothingOrdered DEF Ordered
  <2>3. Older(erCache)' /\ (pc # "idle" => Older(lEr) /\ lEr.exists)'
    <3>1. er.fin => er.exists
      BY <1>c, NoRunnerFields DEF Ordered
    <3> QED
      BY <1>c, <2>0, <3>1 DEF Older
  <2> QED
    BY <2>0, <2>1, <2>2, <2>3, <1>c DEF CopyInv, Work, Deleting, Teardown, Closed, Older, Ordered
<1>7. CASE Patching
  <2>0. erCache' = erCache /\ Ordered(erCache)'
    BY <1>7, <1>r, <1>c, <1>o, PatchEffects
  <2>1. CASE er' = er /\ (UNCHANGED <<pc, lEr>> \/ (pc' = "idle" /\ lEr' = NoRunner))
    BY <2>0, <2>1, <1>r, CopyKept
  <2>2. CASE /\ er.exists /\ pc = "addFinalizers" /\ pc' = "getSecret" /\ lEr' = er'
             /\ Fields(er', TRUE, er.del, TRUE, TRUE, er.phase, er.rid)
    <3>1. Ordered(er)'
      BY <2>2, <1>r, <1>c DEF Fields, Ordered, IsDone
    <3>2. Ordered(lEr)'
      BY <2>2, <3>1 DEF Ordered
    <3>3. Older(erCache)' /\ Older(lEr)'
      BY <2>0, <2>2, <1>c DEF Fields, Older, Ordered, IsDone, CopyInv, Work
    <3> QED
      BY <2>0, <2>2, <3>1, <3>2, <3>3 DEF Fields, CopyInv, Work, Deleting, Teardown, Closed
  <2>3. CASE /\ er.exists /\ pc = "patchRunnerId" /\ lEr' = er'
             /\ Fields(er', TRUE, er.del, er.fin, er.afin, er.phase, lSecret)
             /\ pc' \in {"deleteCorruptSecret", "patchRunnerId", "deleteRunner", "getPod"}
    <3>0. er.rid \in {0, lSecret} /\ lSecret # 0 /\ er.fin
      BY <2>3, <1>t DEF IdsInv, Agree, NoId, Unreadable, CopyInv, Work
    <3>1. Ordered(er)'
      BY <2>3, <3>0, <1>r, <1>c DEF Fields, Ordered, IsDone
    <3>2. Ordered(lEr)'
      BY <2>3, <3>1 DEF Ordered
    <3>3. Older(erCache)' /\ Older(lEr)'
      BY <2>0, <2>3, <3>0, <1>c DEF Fields, Older, IsDone
    <3> QED
      BY <2>0, <2>3, <3>1, <3>2, <3>3 DEF Fields, CopyInv, Work, Deleting, Teardown, Closed
  <2>4. CASE races' = races \cup {"denied"}
    BY <2>4 DEF Quiet
  <2>5. CASE /\ er.exists /\ pc = "markOutdated" /\ pc' = "removeMarked" /\ lEr' = er'
             /\ Fields(er', TRUE, er.del, er.fin, er.afin, "Outdated", er.rid)
    <3>0. er.fin
      BY <2>5 DEF CopyInv, Work
    <3>1. Ordered(er)'
      BY <2>5, <3>0, <1>r, <1>c DEF Fields, Ordered, IsDone
    <3>2. Ordered(lEr)'
      BY <2>5, <3>1 DEF Ordered
    <3>3. Older(erCache)' /\ Older(lEr)'
      BY <2>0, <2>5, <1>c DEF Fields, Older, IsDone
    <3> QED
      BY <2>0, <2>5, <3>1, <3>2, <3>3 DEF Fields, CopyInv, Work, Deleting, Teardown, Closed
  <2>6. CASE /\ er.exists /\ pc = "updateStatus" /\ pc' = "idle" /\ lEr' = NoRunner
             /\ er'.phase \in {"Running", "Pending"}
               /\ Fields(er', TRUE, er.del, er.fin, er.afin, er'.phase, er.rid)
    <3>0. er.fin /\ ~IsDone(er)
      BY <2>6 DEF CopyInv, PodsInv, Work
    <3>1. Ordered(er)'
      BY <2>6, <3>0, <1>r, <1>c DEF Fields, Ordered, IsDone
    <3>2. Ordered(lEr)'
      BY <2>6, NothingOrdered DEF Ordered, NoRunner, IsDone
    <3>3. Older(erCache)'
      BY <2>0, <2>6, <3>0, <1>c DEF Fields, Older
    <3> QED
      BY <2>0, <2>6, <3>1, <3>2, <3>3 DEF Fields, CopyInv, Work, Deleting, Teardown, Closed
  <2>7. CASE /\ er.exists /\ Same(er', er)
             /\ UNCHANGED <<pc, lEr>> \/ (pc' = "idle" /\ lEr' = NoRunner)
    <3>1. Ordered(er)'
      BY <2>7, <1>r, <1>c DEF Same, Fields, Ordered, IsDone
    <3>4. lEr' = lEr => Ordered(lEr)'
      BY <1>r, <1>c DEF Ordered
    <3>5. lEr' = NoRunner => Ordered(lEr)'
      BY NoRunnerFields DEF Ordered, IsDone
    <3>2. Ordered(lEr)'
      BY <2>7, <3>4, <3>5
    <3>3. Older(erCache)' /\ (pc # "idle" => Older(lEr) /\ lEr.exists)'
      BY <2>0, <2>7, <1>c DEF Same, Fields, Older, IsDone
    <3> QED
      BY <2>0, <2>7, <3>1, <3>2, <3>3 DEF Same, Fields, CopyInv, Work, Deleting, Teardown, Closed
  <2>8. CASE /\ er.exists /\ pc = "dropActionsFinalizer" /\ pc' = "cleanupPod" /\ lEr' = er'
             /\ er.del /\ er.fin
             /\ Fields(er', TRUE, TRUE, TRUE, FALSE, er.phase, er.rid)
    <3>1. Ordered(er)'
      BY <2>8, <1>r, <1>c DEF Fields, Ordered, IsDone
    <3>2. Ordered(lEr)'
      BY <2>8, <3>1 DEF Ordered
    <3>3. Older(erCache)' /\ Older(lEr)'
      BY <2>0, <2>8, <1>c DEF Fields, Older, IsDone
    <3> QED
      BY <2>0, <2>8, <3>1, <3>2, <3>3 DEF Fields, CopyInv, Work, Deleting, Teardown, Closed
  <2>9. CASE /\ pc = "dropFinalizer" /\ pc' = "idle" /\ lEr' = NoRunner /\ er' = NoRunner
    <3>1. (Ordered(er) /\ Ordered(lEr))'
      BY <2>9 DEF Ordered, NoRunner, IsDone
    <3>2. ~(erCache.fin /\ ~erCache.del)
      BY <2>9, <1>c DEF CopyInv, Older, Ordered, Teardown
    <3>3. Older(erCache)'
      BY <2>0, <2>9, <3>2, NoRunnerFields DEF Older
    <3> QED
      BY <2>0, <2>9, <3>1, <3>3, NoRunnerFields DEF CopyInv, Work, Deleting, Teardown
  <2>10. CASE /\ er.exists /\ er.fin /\ Fields(er', TRUE, TRUE, er.fin, er.afin, er.phase, er.rid)
              /\ ~er.del /\ er.rid = 0 => "unregistered" \in races'
              /\ \/ pc' = "idle" /\ lEr' = NoRunner
                 \/ pc = "deleteRunnerWithJob" /\ pc' = "removeBestEffort" /\ lEr' = lEr
                 \/ UNCHANGED <<pc, lEr>>
    <3>1. Ordered(er)'
      BY <2>10, <1>r, <1>c DEF Fields, Ordered, IsDone
    <3>4. lEr' = lEr => Ordered(lEr)'
      BY <1>r, <1>c DEF Ordered
    <3>5. lEr' = NoRunner => Ordered(lEr)'
      BY NoRunnerFields DEF Ordered, IsDone
    <3>2. Ordered(lEr)'
      BY <2>10, <3>4, <3>5
    <3>3. Older(erCache)' /\ (pc # "idle" => Older(lEr) /\ lEr.exists)'
      BY <2>0, <2>10, <1>c DEF Fields, Older, IsDone
    <3> QED
      BY <2>0, <2>10, <3>1, <3>2, <3>3 DEF Fields, CopyInv, Work, Deleting, Teardown, Closed
  <2>11. CASE er.exists /\ ~er.fin /\ er' = NoRunner /\ UNCHANGED <<pc, lEr>>
    <3>1. Ordered(er)'
      BY <2>11 DEF Ordered, NoRunner, IsDone
    <3>2. Ordered(lEr)'
      BY <2>11, <1>r, <1>c DEF Ordered
    <3>3. Older(erCache)' /\ (pc # "idle" => Older(lEr) /\ lEr.exists)'
      BY <2>0, <2>11, <1>c, NoRunnerFields DEF Older
    <3> QED
      BY <2>0, <2>11, <3>1, <3>2, <3>3, NoRunnerFields DEF CopyInv, Work, Deleting, Teardown
  <2> QED
    BY <1>7, PatchEffects, <2>1, <2>2, <2>3, <2>4, <2>5, <2>6, <2>7, <2>8, <2>9, <2>10, <2>11
<1> QED
  BY <1>1, <1>2, <1>3, <1>4, <1>5, <1>6, <1>7, Classes

(* Nothing brings a runner back that is being torn down. *)
LEMMA StillOpen ==
  ASSUME TypeInv, CopyInv, PodsInv, IdsInv, Quiet', Next
  PROVE  Open' => Open
<1> SUFFICES ASSUME Open' PROVE Open
  OBVIOUS
<1>c. Older(erCache) /\ Ordered(er)
  BY DEF CopyInv
<1>1. CASE Aside \/ Ends \/ Advances \/ TearsDown
  BY <1>1, AsideKeeps, EndsKeeps, AdvancesKeeps, TearsDownKeeps DEF Open, Closed, Work
<1>2. CASE StartReconcile
  <2>1. UNCHANGED <<er, erCache>> /\ pc' = FirstStep(erCache)
    BY <1>2 DEF StartReconcile, apiVars, cacheVars
  <2>2. pc' \in Work => ~Closed
    BY <2>1 DEF FirstStep, Work, Closed
  <2> QED
    BY <2>1, <2>2 DEF Open, Closed
<1>3. CASE WatchRunner \/ Restart
  <2>1. er' = er /\ erCache' = er /\ (pc' = pc \/ pc' = "idle")
    BY <1>3 DEF WatchRunner, Restart, Requeue, Leave, apiVars
  <2> QED
    BY <2>1, <1>c DEF Open, Closed, Older, Work
<1>4. CASE Patching
  <2>1. erCache' = erCache /\ (er'.exists => er.exists)
    BY <1>4, PatchEffects, NoRunnerFields DEF Quiet, CopyInv, Ordered
  <2>2. CASE er' = er
    BY <1>4, <2>1, <2>2, PatchEffects DEF Open, Closed, Work
  <2>3. CASE er' # er
    <3>1. pc' \in Work => pc \in Work
      BY <1>4, <2>3, PatchEffects DEF Quiet, Work
    <3> QED
      BY <2>1, <3>1 DEF Open, Closed
  <2> QED
    BY <2>2, <2>3
<1> QED
  BY <1>1, <1>2, <1>3, <1>4, Classes

(* The calls PodsInv says something about. *)
PodCalls == {"createPod", "updateStatus", "deletePodAsFailed", "patchFailure", "markOutdated"}

(* Steps that leave the pod and its copy alone keep PodsInv, unless the     *)
(* runner becomes done.                                                     *)
LEMMA PodsKept ==
  ASSUME PodsInv, Open' => Open, UNCHANGED <<pod, podCache>>, er'.exists => er.exists,
         er'.exists /\ er.rid # 0 => er'.rid # 0,
         er'.exists /\ IsDone(er)' => IsDone(er),
         IsDone(er)' => er'.exists,
         pc' = pc \/ pc' \notin PodCalls
  PROVE  PodsInv'
BY DEF PodsInv, PodCalls

(* The fields of the records that are made of a pod. *)
LEMMA PodFields ==
  ASSUME NEW p \in Pod
  PROVE  /\ p.uid \in Nat
         /\ \A st : LET q == [p EXCEPT !.state = st]
                   IN  q.uid = p.uid /\ q.del = p.del /\ q.state = st /\ q.cfg = p.cfg
         /\ \A b : LET q == [p EXCEPT !.del = b]
                  IN  q.uid = p.uid /\ q.del = b /\ q.state = p.state /\ q.cfg = p.cfg
BY BoundsAssumption DEF Pod

(* And those that stand for no pod. *)
LEMMA NoPodFields == NoPod.uid = 0 /\ ~NoPod.del /\ NoPod.state = "NoStatus" /\ NoPod.cfg = 0
BY DEF NoPod

(* A Delete marks the pod that is there. *)
LEMMA PodDeleted ==
  ASSUME pod \in Pod, pod.uid = 0 => pod = NoPod, DeletePod
  PROVE  /\ pod'.uid = pod.uid /\ pod'.state = pod.state /\ pod'.cfg = pod.cfg
         /\ pod.uid = 0 => pod' = NoPod
         /\ pod'.del => pod.uid # 0
<1>1. pod' = [pod EXCEPT !.del = pod.uid # 0]
  BY DEF DeletePod
<1>2. pod'.uid = pod.uid /\ pod'.state = pod.state /\ pod'.cfg = pod.cfg /\ pod'.del = (pod.uid # 0)
  BY <1>1, PodFields
<1>3. pod.uid = 0 => pod' = NoPod
  <2>1. pod.uid = 0 => pod.del = FALSE
    BY DEF NoPod
  <2>2. pod.uid = 0 => pod' = pod
    BY <1>1, <2>1 DEF Pod
  <2> QED
    BY <2>2
<1> QED
  BY <1>2, <1>3

(* The pod starts or stops. *)
PodChanges == PodStarts \/ PodStops \/ RunnerRejected \/ JobEnds

(* None of them touches a pod that has stopped. *)
LEMMA PodChangesEffect ==
  ASSUME TypeInv, PodChanges
  PROVE  /\ pod.uid # 0 /\ pod'.uid = pod.uid /\ pod'.del = pod.del /\ pod'.cfg = pod.cfg
         /\ pod.state \in {"NoStatus", "Waiting", "Running"}
         /\ UNCHANGED <<podCache, secret>>
<1>t. pod \in Pod
  BY DEF TypeInv, TypeOK
<1>1. CASE PodStarts
  <2>1. PICK s : pod' = [pod EXCEPT !.state = s] /\ pod.uid # 0 /\ pod.state \in {"NoStatus", "Waiting"}
    BY <1>1 DEF PodStarts
  <2> QED
    BY <1>1, <2>1, <1>t, PodFields DEF PodStarts, cacheVars
<1>2. CASE PodStops
  <2>1. PICK s \in Stops : pod' = [pod EXCEPT !.state = s] /\ pod.state \in {"NoStatus", "Waiting", "Running"}
    BY <1>2 DEF PodStops
  <2> QED
    BY <1>2, <2>1, <1>t, PodFields DEF PodStops, cacheVars
<1>3. CASE RunnerRejected
  BY <1>3, <1>t, PodFields DEF RunnerRejected, cacheVars
<1>4. CASE JobEnds
  BY <1>4, <1>t, PodFields DEF JobEnds, Executing, cacheVars
<1> QED
  BY <1>1, <1>2, <1>3, <1>4 DEF PodChanges

(* Every step keeps what the copy of the pod still says. *)
LEMMA PodsStep ==
  ASSUME TypeInv, CopyInv, PodsInv, IdsInv, Quiet', Next
  PROVE  PodsInv'
<1> USE DEF apiVars, cacheVars, svcVars, countVars, history
<1>t. /\ er \in Runner /\ pod \in Pod /\ podCache \in Pod /\ lastPod \in Nat
  BY BoundsAssumption DEF TypeInv, TypeOK
<1>o. Open' => Open
  BY StillOpen
<1>d. IsDone(er) => er.exists
  BY NoRunnerFields DEF CopyInv, Ordered, IsDone
<1>w. \A x \in {"createPod", "deletePodAsFailed", "markOutdated"} : pc = x => er.exists /\ Open
  BY DEF CopyInv, Open, Work
<1>1. CASE WatchPod
  <2>1. UNCHANGED <<er, pod, pc>> /\ podCache' = pod
    BY <1>1 DEF WatchPod
  <2> QED
    BY <2>1, <1>o, <1>w, NoPodFields DEF PodsInv, Crashed
<1>2. CASE PodChanges
  <2>1. UNCHANGED <<er, erCache, pc>>
    BY <1>2, AsideKeeps DEF PodChanges, Aside
  <2>2. /\ pod.uid # 0 /\ pod'.uid = pod.uid /\ pod'.del = pod.del /\ podCache' = podCache
        /\ pod.state \in {"NoStatus", "Waiting", "Running"}
    BY <1>2, PodChangesEffect
  <2> QED
    BY <2>1, <2>2, <1>o, <1>w, <1>d DEF PodsInv, Crashed
<1>3. CASE PodRemoved
  <2>1. UNCHANGED <<er, pc, podCache>> /\ pod.del /\ pod' = NoPod
    BY <1>3 DEF PodRemoved
  <2> QED
    BY <2>1, <1>o, <1>w, <1>d, NoPodFields DEF PodsInv, Crashed
<1>4. CASE CollectGarbage
  <2>1. UNCHANGED <<er, pc, podCache>> /\ ~er.exists /\ DeletePod
    BY <1>4 DEF CollectGarbage
  <2>2. /\ pod'.uid = pod.uid /\ pod'.state = pod.state
        /\ pod.uid = 0 => pod' = NoPod
    BY <2>1, <1>t, PodDeleted DEF PodsInv
  <2>3. ~Open'
    BY <2>1 DEF Open
  <2> QED
    BY <2>1, <2>2, <2>3, <1>d, <1>w DEF PodsInv
<1>5. CASE BackoffEnds \/ OwnerRemoves \/ ForeignRunnerLeaves \/ JobAssigned \/ JobAbandoned
  <2>1. UNCHANGED <<er, pc, pod, podCache>>
    BY <1>5 DEF BackoffEnds, OwnerRemoves, ForeignRunnerLeaves, JobAssigned, JobAbandoned
  <2> QED
    BY <2>1, <1>o, <1>d, PodsKept DEF IsDone
<1>6. CASE SecretEdited \/ PodDrained
  BY <1>6 DEF SecretEdited, PodDrained, Quiet
<1>7. CASE Ends
  <2>1. UNCHANGED <<er, podCache>> /\ pc' = "idle"
    BY <1>7, EndsKeeps DEF Ends, BackingOff, RemoveByName, DeleteCorruptSecret, CreatePod, RemoveMarked, RemoveBestEffort,
       CallFails
  <2>2. CASE pod' = pod
    BY <2>1, <2>2, <1>o, <1>d, PodsKept DEF IsDone, PodCalls
  <2>3. CASE pod' # pod
    <3>1. /\ pc = "createPod" /\ pod.uid = 0
          /\ pod'.uid = lastPod + 1 /\ ~pod'.del /\ pod'.state = "NoStatus"
      BY <1>7, <2>3 DEF Ends, BackingOff, RemoveByName, DeleteCorruptSecret, CreatePod, RemoveMarked, RemoveBestEffort,
         CallFails, NoPod
    <3>2. pod'.uid # 0 /\ podCache.uid = 0 /\ podCache.state = "NoStatus" /\ ~IsDone(er) /\ er.rid # 0
      BY <3>1, <1>t, NoPodFields DEF PodsInv, IdsInv, HavingId
    <3> QED
      BY <2>1, <3>1, <3>2, <1>o DEF PodsInv, IsDone, Crashed
  <2> QED
    BY <2>2, <2>3
<1>8. CASE Advances
  <2>0. er' = er
    BY <1>8, AdvancesKeeps
  <2>1. CASE GetPod
    <3>1. /\ UNCHANGED <<er, pod, podCache>> /\ pc = "getPod" /\ Open
          /\ pc' = StepForPod(lEr, podCache)
      BY <2>1 DEF GetPod, Continue, Return, Leave, CopyInv, Open, Work
    <3>2. \/ pc' = "createPod" /\ podCache.uid = 0
          \/ pc' \in {"idle", "updateStatus", "deleteRunner", "deleteRunnerWithJob"} /\ podCache.state # "Exit7"
          \/ pc' = "markOutdated" /\ podCache.state = "Exit7"
          \/ pc' = "deletePodAsFailed" /\ podCache.uid # 0 /\ podCache.state \in Crashed
      BY <3>1, <1>t DEF StepForPod, Crashed, Pod, PodStates
    <3> QED
      BY <3>1, <3>2, <1>o, <1>d, NoPodFields DEF PodsInv, Crashed, IsDone
  <2>2. CASE DeletePodAsFailed
    <3>1. /\ UNCHANGED <<er, podCache>> /\ pc = "deletePodAsFailed" /\ pc' = "patchFailure"
          /\ pod' = pod \/ DeletePod
      BY <2>2 DEF DeletePodAsFailed, Goto, Continue
    <3>2. /\ pod'.uid = pod.uid /\ pod'.state = pod.state
          /\ pod.uid = 0 => pod' = NoPod
          /\ pod'.del => pod.uid # 0
      BY <3>1, <1>t, PodDeleted, NoPodFields DEF PodsInv
    <3> QED
      BY <3>1, <3>2, <1>o, <1>d DEF PodsInv, IsDone
  <2>3. CASE GetSecret \/ GenerateJit \/ GetRunnerByName \/ CreateSecret \/ CreatePodDenied
    <3>1. UNCHANGED <<pod, podCache>>
      BY <2>3 DEF GetSecret, GenerateJit, GetRunnerByName, CreateSecret, CreatePodDenied
    <3>2. pc' \notin PodCalls
      BY <2>3, StepValues DEF GetSecret, GenerateJit, GetRunnerByName, CreateSecret, CreatePodDenied, PodCalls,
         Goto, Continue, Requeue, Return, Leave
    <3> QED
      BY <2>0, <3>1, <3>2, <1>o, <1>d, PodsKept DEF IsDone
  <2> QED
    BY <1>8, <2>1, <2>2, <2>3 DEF Advances
<1>9. CASE TearsDown
  <2>0. er' = er /\ pc' \notin PodCalls
    BY <1>9, TearsDownKeeps DEF PodCalls
  <2>1. CASE CleanupPod
    <3>1. podCache' = podCache /\ pc = "cleanupPod" /\ pc' = "cleanupSecret" /\ (pod' = pod \/ DeletePod)
      BY <2>1 DEF CleanupPod, Goto, Continue
    <3>2. /\ pod'.uid = pod.uid /\ pod'.state = pod.state
          /\ pod.uid = 0 => pod' = NoPod
      BY <3>1, <1>t, PodDeleted DEF PodsInv
    <3>3. ~Open
      BY <3>1 DEF Open, Work, CopyInv, Deleting, Teardown
    <3> QED
      BY <2>0, <3>1, <3>2, <3>3, <1>o, <1>d DEF PodsInv, IsDone
  <2>2. CASE RemoveFromService \/ CleanupSecret \/ CleanupLinked
    <3>1. UNCHANGED <<pod, podCache>>
      BY <2>2 DEF RemoveFromService, CleanupSecret, CleanupLinked
    <3> QED
      BY <2>0, <3>1, <1>o, <1>d, PodsKept DEF IsDone
  <2> QED
    BY <1>9, <2>1, <2>2 DEF TearsDown
<1>10. CASE StartReconcile
  <2>1. UNCHANGED <<er, pod, podCache>> /\ pc' \notin PodCalls
    BY <1>10, StepValues DEF StartReconcile, PodCalls
  <2> QED
    BY <2>1, <1>o, <1>d, PodsKept DEF IsDone
<1>11. CASE WatchRunner
  <2>1. UNCHANGED <<er, pod, podCache, pc>>
    BY <1>11 DEF WatchRunner
  <2> QED
    BY <2>1, <1>o, <1>d, PodsKept DEF IsDone
<1>12. CASE Restart
  <2>1. UNCHANGED <<er, pod>> /\ podCache' = pod /\ pc' = "idle"
    BY <1>12 DEF Restart, Requeue, Leave
  <2> QED
    BY <2>1, <1>o, <1>d, NoPodFields DEF PodsInv, Crashed, IsDone
<1>13. CASE Patching
  <2>0. UNCHANGED <<pod, podCache>>
    BY <1>13 DEF Patching, AddFinalizers, PatchRunnerId, MarkFailed, MarkOutdated, UpdateStatus, PatchFailure,
       DropActionsFinalizer, DropFinalizer, DeleteRunner, OwnerDeletes, HandleJobStarted
  <2>1. CASE pc = "markOutdated" /\ er' # er /\ Fields(er', TRUE, er.del, er.fin, er.afin, "Outdated", er.rid)
             /\ pc' = "removeMarked"
    BY <2>0, <2>1, <1>o, <1>w DEF PodsInv, Fields, IsDone
  <2>2. CASE /\ er'.exists => er.exists /\ (er.rid # 0 => er'.rid # 0)
             /\ er'.exists /\ IsDone(er)' => IsDone(er)
             /\ IsDone(er)' => er'.exists
             /\ pc' = pc \/ pc' \notin PodCalls
    BY <2>0, <2>2, <1>o, PodsKept
  <2>3. pc = "patchRunnerId" => lSecret # 0
    BY DEF IdsInv
  <2>4. pc' = pc \/ pc' \notin PodCalls \/ "denied" \in races'
    BY <1>13, <2>3, PatchEffects DEF PodCalls
  <2>5. CASE er' = er
    BY <2>2, <2>4, <2>5, <1>d DEF Quiet, IsDone
  <2>6. CASE er' = NoRunner
    BY <2>2, <2>4, <2>6, NoRunnerFields DEF Quiet, IsDone
  <2>7. CASE er' # er /\ er' # NoRunner
    <3>1. \/ pc = "markOutdated" /\ Fields(er', TRUE, er.del, er.fin, er.afin, "Outdated", er.rid) /\ pc' = "removeMarked"
          \/ /\ er.exists /\ (er.rid # 0 => er'.rid # 0)
             /\ er'.phase \in {"Running", "Pending", er.phase}
             /\ er'.exists
          \/ "denied" \in races'
      <4>1. CASE Same(er', er) /\ er.exists
        BY <4>1 DEF Same, Fields
      <4>2. CASE ~Same(er', er)
        BY <1>13, <2>3, <2>7, <4>2, PatchEffects DEF Fields
      <4> QED
        BY <1>13, <2>3, <2>7, <4>1, <4>2, PatchEffects DEF Fields
    <3> QED
      BY <2>1, <2>2, <2>4, <2>7, <3>1 DEF IsDone, Quiet
  <2> QED
    BY <2>5, <2>6, <2>7
<1> QED
  BY <1>1, <1>2, <1>3, <1>4, <1>5, <1>6, <1>7, <1>8, <1>9, <1>10, <1>11, <1>12, <1>13, Classes
     DEF Aside, PodChanges

(* Steps that leave the secret and the pod alone keep IdsInv. *)
LEMMA IdsKept ==
  ASSUME IdsInv, Open' => Open, UNCHANGED <<secret, pod>>, reg' \in {0, reg}, er'.rid \in {0, er.rid},
         \/ UNCHANGED <<pc, lSecret>>
         \/ lSecret' = lSecret /\ pc' \notin Registering \cup HavingId \cup {"patchRunnerId", "deleteCorruptSecret"}
         \/ lSecret' = 0 /\ pc' = "idle",
         pc \in HavingId => er'.rid # 0
  PROVE  IdsInv'
BY DEF IdsInv, Agree, NoId, Registering, HavingId, Unreadable

(* Every step keeps the ids the same. *)
LEMMA IdsStep ==
  ASSUME TypeInv, CopyInv, PodsInv, IdsInv, Quiet', Next
  PROVE  IdsInv'
<1> USE DEF apiVars, cacheVars, svcVars, countVars, history
<1>t. /\ er \in Runner /\ pod \in Pod /\ reg \in Nat /\ lastReg \in Nat /\ secret \in -1..MaxRegs
      /\ lSecret \in -1..MaxRegs /\ MaxRegs \in Nat /\ er.rid \in Nat /\ pod.cfg \in -1..MaxRegs
      /\ lastPod \in Nat
  BY BoundsAssumption DEF TypeInv, TypeOK, Runner, Pod
<1>o. Open' => Open
  BY StillOpen
<1>w. pc \in Work \ {"addFinalizers"} => er.exists /\ er.fin /\ Open
  BY DEF CopyInv, Open
<1>h. HavingId \subseteq Work \ {"addFinalizers"} /\ Registering \subseteq Work \ {"addFinalizers"}
  BY DEF HavingId, Registering, Work
<1>n. pc \in Registering => er.rid = 0 /\ pod.uid = 0 /\ pod.cfg = 0 /\ secret = 0
  <2>1. pc \in Registering => er.exists /\ er.rid = 0 /\ secret = 0
    BY <1>w, <1>h DEF IdsInv
  <2> QED
    BY <2>1, NoPodFields DEF PodsInv
<1>1. CASE BackoffEnds \/ WatchPod \/ PodChanges \/ ForeignRunnerLeaves \/ JobAssigned \/ JobAbandoned
  <2>1. /\ UNCHANGED <<er, secret, pc, lSecret>> /\ reg' \in {0, reg} /\ pod'.cfg = pod.cfg
    <3>1. CASE PodChanges
      BY <3>1, AsideKeeps, PodChangesEffect DEF PodChanges, Aside, PodStarts, PodStops, RunnerRejected, JobEnds
    <3>2. CASE ~PodChanges
      BY <1>1, <3>2, AsideKeeps DEF Aside, BackoffEnds, WatchPod, ForeignRunnerLeaves, JobAssigned, JobAbandoned
    <3> QED
      BY <3>1, <3>2
  <2> QED
    BY <2>1, <1>o DEF IdsInv, Agree, NoId, Registering
<1>2. CASE OwnerRemoves
  <2>1. UNCHANGED <<er, secret, pc, lSecret, pod>> /\ reg' \in {0, reg}
    BY <1>2, AsideKeeps DEF Aside, OwnerRemoves, Unregister
  <2> QED
    BY <2>1, <1>o, IdsKept DEF IdsInv
<1>3. CASE PodRemoved
  <2>1. UNCHANGED <<er, secret, pc, lSecret, reg>> /\ pod'.cfg = 0
    BY <1>3, AsideKeeps, NoPodFields DEF Aside, PodRemoved
  <2> QED
    BY <2>1, <1>o DEF IdsInv, Agree, NoId
<1>4. CASE CollectGarbage
  <2>1. UNCHANGED <<er, pc, lSecret, reg>> /\ ~er.exists /\ DeletePod /\ secret' = 0
    BY <1>4, AsideKeeps DEF Aside, CollectGarbage
  <2>2. pod'.cfg = pod.cfg
    BY <2>1, <1>t, PodDeleted DEF PodsInv
  <2>3. pc \notin Work \ {"addFinalizers"} /\ ~Open
    BY <2>1, <1>w DEF Open
  <2>4. pc \notin Registering \cup HavingId \cup {"patchRunnerId", "createSecret"}
    BY <2>3, <1>h DEF Work
  <2> QED
    BY <2>1, <2>2, <2>3, <2>4, <1>o DEF IdsInv, Agree, NoId, Unreadable
<1>5. CASE SecretEdited \/ PodDrained
  BY <1>5 DEF SecretEdited, PodDrained, Quiet
<1>6. CASE Ends
  <2>0. er' = er /\ pc' = "idle" /\ lSecret' = 0
    BY <1>6, EndsKeeps
  <2>1. CASE DeleteCorruptSecret
    BY <2>1 DEF DeleteCorruptSecret, IdsInv
  <2>2. CASE CreatePod
    <3>1. UNCHANGED <<secret, reg>> /\ pc = "createPod"
      BY <2>2 DEF CreatePod
    <3>2. pod' = pod \/ pod'.cfg = lSecret
      BY <2>2 DEF CreatePod, NoPod
    <3>3. lSecret = secret /\ secret # 0
      BY <3>1 DEF IdsInv, HavingId
    <3> QED
      BY <2>0, <3>1, <3>2, <3>3, <1>o DEF IdsInv, Agree, NoId, Registering, HavingId, Unreadable
  <2>3. CASE BackingOff \/ RemoveByName \/ RemoveMarked \/ RemoveBestEffort \/ CallFails
    <3>1. UNCHANGED <<secret, pod>> /\ reg' \in {0, reg}
      BY <2>3 DEF BackingOff, RemoveByName, RemoveMarked, RemoveBestEffort, CallFails, Unregister
    <3> QED
      BY <2>0, <3>1, <1>o, IdsKept DEF IdsInv
  <2> QED
    BY <1>6, <2>1, <2>2, <2>3 DEF Ends
<1>7. CASE Advances
  <2>0. er' = er
    BY <1>7, AdvancesKeeps
  <2>1. CASE GetSecret
    <3>1. /\ pc = "getSecret" /\ UNCHANGED <<secret, pod, reg>> /\ lSecret' = secret
          /\ pc' = IF secret = 0 THEN "generateJit" ELSE StepAfterSecret(lEr, secret)
      BY <2>1, WentOn, StepValues DEF GetSecret
    <3>2. Open /\ lEr.rid \in {0, er.rid} /\ secret # Unreadable
      BY <3>1, <1>w DEF CopyInv, Older, IdsInv, Work
    <3>3. \/ pc' = "generateJit" /\ secret = 0
          \/ pc' = "patchRunnerId" /\ secret > 0
          \/ pc' = "deleteRunner"
          \/ pc' = "getPod" /\ secret # 0 /\ lEr.rid # 0
      BY <3>1, <3>2, <1>t DEF StepAfterSecret, Unreadable
    <3> QED
      BY <2>0, <3>1, <3>2, <3>3, <1>o DEF IdsInv, Agree, NoId, Registering, HavingId
  <2>2. CASE GenerateJit
    <3>1. /\ pc = "generateJit" /\ UNCHANGED <<secret, pod>>
          /\ \/ reg = 0 /\ reg' = lastReg + 1 /\ lSecret' = lastReg + 1 /\ pc' = "createSecret"
             \/ reg' = reg /\ lSecret' = lSecret /\ pc' = "getRunnerByName"
             \/ reg' = reg /\ lSecret' = 0 /\ pc' = "idle"
      BY <2>2 DEF GenerateJit, Goto, Continue, Requeue, Leave
    <3>2. er.rid = 0 /\ pod.cfg = 0 /\ secret = 0
      BY <3>1, <1>n DEF Registering
    <3> QED
      BY <2>0, <3>1, <3>2, <1>o, <1>t DEF IdsInv, Agree, NoId, Registering, HavingId, Unreadable
  <2>3. CASE GetRunnerByName
    <3>1. /\ pc = "getRunnerByName" /\ UNCHANGED <<secret, pod, reg>>
          /\ \/ lSecret' = reg /\ pc' = "removeByName"
             \/ lSecret' = lSecret /\ pc' = "deleteRunner"
             \/ lSecret' = 0 /\ pc' = "idle"
      BY <2>3 DEF GetRunnerByName, Goto, Continue, Requeue, Leave
    <3> QED
      BY <2>0, <3>1, <1>o, <1>t DEF IdsInv, Registering, HavingId, Unreadable
  <2>4. CASE CreateSecret
    <3>1. /\ pc = "createSecret" /\ UNCHANGED <<pod, reg>> /\ secret' = lSecret /\ lSecret' = lSecret
          /\ pc' = StepAfterSecret(lEr, lSecret)
      BY <2>4, WentOn, StepValues DEF CreateSecret, Goto
    <3>2. er.rid = 0 /\ pod.cfg = 0 /\ lSecret > 0 /\ reg \in {0, lSecret} /\ lSecret # Unreadable
      BY <3>1, <1>n DEF Registering, IdsInv
    <3>3. lEr.rid = 0
      BY <3>1, <3>2, <1>w DEF CopyInv, Older, Work
    <3>4. pc' = "patchRunnerId"
      BY <3>1, <3>2, <3>3 DEF StepAfterSecret
    <3> QED
      BY <2>0, <3>1, <3>2, <3>4, <1>t, <1>o DEF IdsInv, Agree, NoId, Registering, HavingId, Unreadable
  <2>5. CASE GetPod \/ CreatePodDenied
    <3>1. /\ pc \in {"getPod", "createPod"} /\ UNCHANGED <<secret, pod, reg>>
          /\ \/ lSecret' = lSecret /\ pc' \in HavingId \cup {"deleteRunner"}
             \/ lSecret' = 0 /\ pc' = "idle"
      BY <2>5, StepValues DEF GetPod, CreatePodDenied, Goto, Continue, Requeue, Return, Leave, HavingId
    <3> QED
      BY <2>0, <3>1, <1>o DEF IdsInv, Registering, HavingId, Unreadable
  <2>6. CASE DeletePodAsFailed
    <3>1. /\ pc = "deletePodAsFailed" /\ UNCHANGED <<secret, reg>> /\ lSecret' = lSecret /\ pc' = "patchFailure"
          /\ pod' = pod \/ DeletePod
      BY <2>6 DEF DeletePodAsFailed, Goto, Continue
    <3>2. pod'.cfg = pod.cfg
      BY <3>1, <1>t, PodDeleted DEF PodsInv
    <3> QED
      BY <2>0, <3>1, <3>2, <1>o DEF IdsInv, Agree, NoId, Registering, HavingId
  <2> QED
    BY <1>7, <2>1, <2>2, <2>3, <2>4, <2>5, <2>6 DEF Advances
<1>8. CASE TearsDown
  <2>0. /\ er' = er
        /\ \/ pc' = "idle" /\ lSecret' = 0
           \/ lSecret' = lSecret /\ pc' \in {"dropActionsFinalizer", "cleanupSecret", "cleanupLinked", "dropFinalizer"}
    BY <1>8, TearsDownKeeps
  <2>1. pc \in Deleting
    BY <1>8 DEF TearsDown, RemoveFromService, CleanupPod, CleanupSecret, CleanupLinked, Deleting, Teardown
  <2>2. ~Open
    BY <2>1 DEF CopyInv, Open, Deleting, Teardown, Work
  <2>3. secret' \in {0, secret} /\ reg' \in {0, reg} /\ (pod' = pod \/ DeletePod)
    BY <1>8 DEF TearsDown, RemoveFromService, CleanupPod, CleanupSecret, CleanupLinked, Unregister
  <2>4. pod'.cfg = pod.cfg
    BY <2>3, <1>t, PodDeleted DEF PodsInv
  <2>5. pc' \notin Registering \cup HavingId \cup {"patchRunnerId", "deleteCorruptSecret"}
    BY <2>0 DEF Registering, HavingId
  <2> QED
    BY <2>0, <2>2, <2>3, <2>4, <2>5, <1>o DEF IdsInv, Agree, NoId, Registering, Unreadable
<1>9. CASE StartReconcile
  <2>1. /\ UNCHANGED <<er, secret, pod, reg, lSecret>>
        /\ pc' \notin Registering \cup HavingId \cup {"patchRunnerId", "deleteCorruptSecret"}
    BY <1>9, StepValues DEF StartReconcile, Registering, HavingId
  <2> QED
    BY <2>1, <1>o DEF IdsInv, Agree, NoId, Registering
<1>10. CASE WatchRunner
  <2>1. UNCHANGED <<er, secret, pod, reg, lSecret, pc>>
    BY <1>10 DEF WatchRunner, localVars
  <2> QED
    BY <2>1, <1>o, IdsKept DEF IdsInv
<1>11. CASE Restart
  <2>1. UNCHANGED <<er, secret, pod, reg>> /\ lSecret' = 0 /\ pc' = "idle"
    BY <1>11 DEF Restart, Requeue, Leave
  <2> QED
    BY <2>1, <1>o, IdsKept DEF IdsInv
<1>12. CASE Patching
  <2>0. UNCHANGED <<pod, reg, secret>>
    BY <1>12 DEF Patching, AddFinalizers, PatchRunnerId, MarkFailed, MarkOutdated, UpdateStatus, PatchFailure,
       DropActionsFinalizer, DropFinalizer, DeleteRunner, OwnerDeletes, HandleJobStarted
  <2>1. CASE pc = "patchRunnerId" /\ Fields(er', TRUE, er.del, er.fin, er.afin, er.phase, lSecret) /\ lSecret' = lSecret
             /\ (lSecret # 0 => pc' \in {"deleteRunner", "getPod"})
    <3>1. secret = lSecret /\ lSecret > 0 /\ er'.rid = lSecret /\ pc' \in {"deleteRunner", "getPod"}
      BY <2>1, <1>t DEF IdsInv, Fields
    <3> QED
      BY <2>0, <2>1, <3>1, <1>o DEF IdsInv, Agree, NoId, Registering, HavingId
  <2>2. \/ pc = "patchRunnerId" /\ Fields(er', TRUE, er.del, er.fin, er.afin, er.phase, lSecret) /\ lSecret' = lSecret
           /\ (lSecret # 0 => pc' \in {"deleteRunner", "getPod"})
        \/ /\ er'.rid \in {0, er.rid}
           /\ er' # NoRunner => er'.rid = er.rid
           /\ \/ UNCHANGED <<pc, lSecret>>
              \/ lSecret' = lSecret /\ pc' \in {"getSecret", "removeMarked", "cleanupPod", "removeBestEffort"}
              \/ lSecret' = 0 /\ pc' = "idle"
        \/ "denied" \in races'
    <3>1. CASE Same(er', er) \/ er' = er \/ er' = NoRunner
      BY <1>12, <3>1, PatchEffects, NoRunnerFields DEF Same, Fields
    <3>2. CASE ~(Same(er', er) \/ er' = er \/ er' = NoRunner)
      BY <1>12, <3>2, PatchEffects DEF Fields
    <3> QED
      BY <3>1, <3>2
  <2>3. CASE er' = NoRunner
    <3>1. pc \notin HavingId
      <4> SUFFICES ASSUME pc \in HavingId PROVE FALSE
        OBVIOUS
      <4>1. er.exists /\ er.fin /\ ~er'.exists /\ er' # er
        BY <2>3, <1>w, <1>h, NoRunnerFields
      <4>2. ~Same(er', er)
        BY <4>1 DEF Same, Fields
      <4>3. \A d, f, a, ph, i : ~Fields(er', TRUE, d, f, a, ph, i)
        BY <4>1 DEF Fields
      <4>4. "denied" \notin races'
        BY DEF Quiet
      <4> QED
        BY <1>12, PatchEffects, <4>1, <4>2, <4>3, <4>4 DEF HavingId
    <3> QED
      BY <2>0, <2>1, <2>2, <2>3, <3>1, <1>o, IdsKept DEF Quiet, Registering, HavingId
  <2>4. CASE er' # NoRunner
    BY <2>0, <2>1, <2>2, <2>4, <1>o, IdsKept DEF Quiet, Registering, HavingId, IdsInv
  <2> QED
    BY <2>3, <2>4
<1> QED
  BY <1>1, <1>2, <1>3, <1>4, <1>5, <1>6, <1>7, <1>8, <1>9, <1>10, <1>11, <1>12, Classes DEF Aside, PodChanges

(* Every step keeps CleanInv while no rare event happens. *)
LEMMA CleanStep ==
  ASSUME TypeInv, CopyInv, PodsInv, IdsInv, CleanInv, busy => reg # 0, races' = {}, Next
  PROVE  CleanInv'
<1> USE DEF apiVars, cacheVars, svcVars, countVars, history
<1>t. /\ er \in Runner /\ pod \in Pod /\ reg \in Nat /\ er.rid \in Nat /\ {linked, Hooks} \subseteq BOOLEAN
  BY BoundsAssumption DEF TypeInv, TypeOK, Runner
<1>r. races = {}
  BY Grow
<1>w. pc \in Work \ {"addFinalizers"} => er.exists /\ er.fin /\ er.afin
  BY DEF CopyInv
<1>e. pc \in Teardown => IF lEr.del THEN reg = 0 ELSE pod.uid = 0 \/ pod.state = "Exit7"
  <2>1. CASE pc \in Teardown /\ lEr.del
    BY <2>1 DEF CopyInv, CleanInv
  <2>2. CASE pc \in Teardown /\ ~lEr.del
    <3>1. er.exists /\ IsDone(er)
      BY <2>2 DEF CopyInv, Older, Teardown
    <3> QED
      BY <2>2, <3>1 DEF PodsInv
  <2> QED
    BY <2>1, <2>2
<1>d. pc = "dropFinalizer" => reg = 0
  BY <1>e DEF CopyInv, Teardown
<1>1. CASE BackoffEnds \/ WatchPod \/ PodStarts \/ PodStops \/ RunnerRejected \/ PodRemoved
           \/ ForeignRunnerLeaves \/ JobAbandoned \/ OwnerRemoves
  <2>1. UNCHANGED <<er, pc, linked, killed>> /\ reg' \in {0, reg}
    BY <1>1, AsideKeeps DEF Aside, BackoffEnds, WatchPod, PodStarts, PodStops, RunnerRejected, PodRemoved,
       ForeignRunnerLeaves, JobAbandoned, OwnerRemoves, Unregister
  <2> QED
    BY <2>1 DEF CleanInv
<1>2. CASE JobEnds
  <2>1. UNCHANGED <<er, pc, killed>> /\ reg' = 0 /\ (linked' = FALSE \/ linked' = linked)
    BY <1>2, AsideKeeps DEF Aside, JobEnds
  <2>2. linked' => linked
    BY <2>1
  <2> QED
    BY <2>1, <2>2 DEF CleanInv
<1>3. CASE JobAssigned
  <2>1. UNCHANGED <<er, pc, killed, reg>> /\ reg # 0 /\ pod.uid # 0 /\ linked' = (linked \/ Hooks)
    BY <1>3, AsideKeeps DEF Aside, JobAssigned
  <2>2. er.exists /\ er.rid # 0 /\ pc # "dropFinalizer"
    BY <2>1, <1>d DEF CleanInv, PodsInv
  <2>3. linked' => Hooks
    BY <2>1, <1>t DEF CleanInv
  <2> QED
    BY <2>1, <2>2, <2>3 DEF CleanInv
<1>4. CASE CollectGarbage
  <2>1. UNCHANGED <<er, pc, linked, reg>> /\ ~er.exists /\ DeletePod
    BY <1>4, AsideKeeps DEF Aside, CollectGarbage
  <2>2. ~killed'
    BY <2>1 DEF DeletePod, Executing, CleanInv
  <2> QED
    BY <2>1, <2>2 DEF CleanInv
<1>5. CASE SecretEdited \/ PodDrained
  BY <1>5 DEF SecretEdited, PodDrained
<1>6. CASE Ends
  <2>1. er' = er /\ pc' = "idle"
    BY <1>6, EndsKeeps
  <2>2. UNCHANGED <<linked, killed>> /\ reg' \in {0, reg}
    BY <1>6 DEF Ends, BackingOff, RemoveByName, DeleteCorruptSecret, CreatePod, RemoveMarked, RemoveBestEffort,
       CallFails, Unregister
  <2> QED
    BY <2>1, <2>2 DEF CleanInv
<1>7. CASE Advances
  <2>1. /\ er' = er /\ linked' = linked /\ pc \in Work \ {"addFinalizers"}
        /\ pc' \notin {"dropActionsFinalizer", "dropFinalizer"}
    BY <1>7, AdvancesKeeps DEF Advances, GetSecret, GenerateJit, GetRunnerByName, CreateSecret, GetPod,
       CreatePodDenied, DeletePodAsFailed, Work
  <2>2. CASE DeletePodAsFailed
    <3>1. ~Executing
      BY <2>2 DEF DeletePodAsFailed, PodsInv, Executing, Crashed
    <3>2. ~killed' /\ reg' = reg
      BY <2>2, <3>1 DEF DeletePodAsFailed, DeletePod, CleanInv
    <3> QED
      BY <2>1, <3>2, <1>w DEF CleanInv
  <2>3. CASE ~DeletePodAsFailed
    <3>1. killed' = killed
      BY <1>7, <2>3 DEF Advances, GetSecret, GenerateJit, GetRunnerByName, CreateSecret, GetPod, CreatePodDenied
    <3> QED
      BY <2>1, <3>1, <1>w DEF CleanInv
  <2> QED
    BY <2>2, <2>3
<1>8. CASE RemoveFromService
  <2>1. /\ UNCHANGED <<er, linked, killed>> /\ pc = "removeFromService"
        /\ \/ pc' = "idle" /\ reg' = reg
           \/ pc' = "dropActionsFinalizer" /\ reg' = IF lEr.rid = reg THEN 0 ELSE reg
    BY <1>8 DEF RemoveFromService, Goto, Continue, Requeue, Leave, Unregister
  <2>2. lEr.del /\ lEr.rid # 0
    BY <2>1, <1>r DEF CopyInv, Ordered
  <2>3. er.exists => lEr.rid = er.rid
    BY <2>1, <2>2 DEF CopyInv, Older
  <2>4. reg \in {0, lEr.rid}
    BY <2>2, <2>3, <1>t DEF IdsInv, Agree, NoId, Unreadable, CleanInv
  <2> QED
    BY <2>1, <2>4 DEF CleanInv
<1>9. CASE CleanupPod
  <2>1. UNCHANGED <<er, linked, reg>> /\ pc = "cleanupPod" /\ pc' = "cleanupSecret"
    BY <1>9 DEF CleanupPod, Goto, Continue
  <2>2. ~Executing
    BY <2>1, <1>e DEF Executing, Teardown
  <2>3. ~killed'
    BY <1>9, <2>2 DEF CleanupPod, DeletePod, CleanInv
  <2> QED
    BY <2>1, <2>3 DEF CleanInv
<1>10. CASE CleanupSecret
  <2>1. /\ UNCHANGED <<er, linked, reg, killed>> /\ pc' \in {"cleanupLinked", "dropFinalizer", "idle"}
        /\ pc' = "dropFinalizer" => ~Hooks
    BY <1>10 DEF CleanupSecret, Goto, Continue, Return, Leave
  <2> QED
    BY <2>1 DEF CleanInv
<1>11. CASE CleanupLinked
  <2>1. UNCHANGED <<er, reg, killed>> /\ ~linked' /\ pc' = "dropFinalizer"
    BY <1>11 DEF CleanupLinked, Goto, Continue
  <2> QED
    BY <2>1 DEF CleanInv
<1>12. CASE StartReconcile
  <2>1. UNCHANGED <<er, reg, killed, linked>> /\ pc' \notin {"dropActionsFinalizer", "dropFinalizer"}
    BY <1>12, StepValues DEF StartReconcile
  <2> QED
    BY <2>1 DEF CleanInv
<1>13. CASE WatchRunner \/ Restart
  <2>1. UNCHANGED <<er, reg, killed, linked>> /\ (pc' = pc \/ pc' = "idle")
    BY <1>13 DEF WatchRunner, Restart, Requeue, Leave
  <2> QED
    BY <2>1 DEF CleanInv
<1>14. CASE Patching
  <2>0. UNCHANGED <<reg, linked, killed>>
    BY <1>14 DEF Patching, AddFinalizers, PatchRunnerId, MarkFailed, MarkOutdated, UpdateStatus, PatchFailure,
       DropActionsFinalizer, DropFinalizer, DeleteRunner, OwnerDeletes, HandleJobStarted, MarkDeleted
  <2>p. pc' = pc \/ pc' \notin {"dropActionsFinalizer", "dropFinalizer"}
    BY <1>14, PatchEffects
  <2>1. CASE er' = er
    BY <2>0, <2>p, <2>1 DEF CleanInv
  <2>2. CASE er' = NoRunner
    <3>1. er.exists => reg = 0 /\ ~linked
      <4>1. CASE er' = er
        BY <4>1, <2>2, NoRunnerFields
      <4>2. CASE pc = "dropFinalizer"
        BY <4>2, <1>d DEF CleanInv
      <4>3. CASE er.exists /\ er' # er /\ pc # "dropFinalizer"
        <5>1. \A d, f, a, ph, i : ~Fields(er', TRUE, d, f, a, ph, i)
          BY <2>2, NoRunnerFields DEF Fields
        <5>2. ~Same(er', er)
          BY <2>2, <4>3, NoRunnerFields DEF Same, Fields
        <5> QED
          BY <1>14, <4>3, <5>1, <5>2, PatchEffects
      <4> QED
        BY <4>1, <4>2, <4>3
    <3>2. reg = 0 /\ ~linked
      BY <3>1 DEF CleanInv
    <3> QED
      BY <2>0, <2>p, <2>2, <3>2 DEF CleanInv
  <2>3. CASE er' # er /\ er' # NoRunner
    <3>1. /\ er.exists /\ er'.exists /\ (er.rid # 0 => er'.rid # 0)
          /\ er'.del /\ ~er'.afin => reg = 0
      <4>1. CASE Same(er', er)
        BY <1>14, <2>3, <4>1, PatchEffects DEF Same, Fields, CleanInv
      <4>2. CASE ~Same(er', er) /\ pc = "patchRunnerId"
        <5>1. lSecret # 0
          BY <4>2 DEF IdsInv
        <5> QED
          BY <1>14, <2>3, <4>2, <5>1, PatchEffects DEF Fields, CleanInv, CopyInv, Ordered
      <4>3. CASE ~Same(er', er) /\ pc # "patchRunnerId"
        BY <1>14, <2>3, <4>3, PatchEffects DEF Fields, CleanInv, CopyInv, Ordered
      <4> QED
        BY <4>1, <4>2, <4>3
    <3> QED
      BY <2>0, <2>p, <3>1 DEF CleanInv
  <2> QED
    BY <2>1, <2>2, <2>3
<1> QED
  BY <1>1, <1>2, <1>3, <1>4, <1>5, <1>6, <1>7, <1>8, <1>9, <1>10, <1>11, <1>12, <1>13, <1>14, Classes
     DEF Aside, TearsDown

(* Every step keeps LagInv. *)
LEMMA LagStep ==
  ASSUME TypeInv, LagInv, Next
  PROVE  LagInv'
<1>1. races \subseteq races' /\ (Quiet' => Quiet) /\ (races' = {} => races = {} /\ Quiet /\ Quiet')
  BY Grow DEF Quiet
<1>2. (busy => reg # 0)'
  <2>1. reg \in Nat /\ lastReg \in Nat
    BY BoundsAssumption DEF TypeInv, TypeOK
  <2> QED
    BY <2>1, BusyStep DEF LagInv
<1>3. Quiet' => CopyInv' /\ PodsInv' /\ IdsInv'
  BY <1>1, CopyStep, PodsStep, IdsStep DEF LagInv
<1>4. races' = {} => CleanInv'
  BY <1>1, CleanStep DEF LagInv
<1> QED
  BY <1>2, <1>3, <1>4 DEF LagInv

(* The invariant holds of a runner that was just created. *)
LEMMA LagStarts ==
  ASSUME Init
  PROVE  LagInv
<1>1. PICK f \in BOOLEAN : er = [NoRunner EXCEPT !.exists = TRUE, !.fin = f, !.afin = f]
  BY DEF Init
<1>2. er.exists /\ ~er.del /\ (er.afin <=> er.fin) /\ er.phase = "" /\ er.rid = 0
  BY <1>1 DEF NoRunner
<1>3. CopyInv
  <2>1. Ordered(er)
    BY <1>2 DEF Ordered, IsDone
  <2>2. Ordered(erCache) /\ Ordered(lEr) /\ Older(erCache)
    BY NothingOrdered, NoRunnerFields DEF Init, Older, IsDone
  <2> QED
    BY <1>2, <2>1, <2>2 DEF Init, CopyInv, Work, Deleting, Teardown
<1>4. PodsInv
  BY <1>2, NoPodFields DEF Init, PodsInv, IsDone, Crashed
<1>5. IdsInv
  <2>1. reg = 0 /\ secret = 0 /\ lSecret = 0 /\ pc = "idle" /\ pod.cfg = 0
    BY NoPodFields DEF Init
  <2>2. 0 # Unreadable /\ NoId(0)
    BY DEF Unreadable, NoId
  <2>3. \A x : Agree(0, x) /\ Agree(x, 0)
    BY <2>2 DEF Agree
  <2>4. pc \notin Registering \cup HavingId
    BY <2>1 DEF Registering, HavingId
  <2> QED
    BY <1>2, <2>1, <2>2, <2>3, <2>4 DEF IdsInv
<1>6. CleanInv
  BY <1>2 DEF Init, CleanInv
<1> QED
  BY <1>3, <1>4, <1>5, <1>6 DEF Init, LagInv

(* And it stays when nothing changes. *)
LEMMA LagStutters ==
  ASSUME LagInv, UNCHANGED vars
  PROVE  LagInv'
<1>1. UNCHANGED <<er, erCache, lEr, pc, pod, podCache, secret, lSecret, reg, busy, linked, killed, races>>
  BY DEF vars
<1>2. CopyInv => CopyInv'
  BY <1>1, CopyKept
<1>3. PodsInv => PodsInv'
  BY <1>1 DEF PodsInv, Open, Closed, IsDone
<1>4. IdsInv => IdsInv'
  BY <1>1 DEF IdsInv, Open, Closed, IsDone, Agree, NoId
<1>5. CleanInv => CleanInv'
  BY <1>1 DEF CleanInv
<1> QED
  BY <1>1, <1>2, <1>3, <1>4, <1>5 DEF LagInv, Quiet
-----------------------------------------------------------------------------
(* The invariant holds of a runner that was just created by its set. *)
LEMMA RunnerStarts ==
  ASSUME Init
  PROVE  TypeInv /\ PromptInv
<1>1. NoRunner \in Runner /\ NoPod \in Pod
  BY NothingTypes
<1>2. PICK f \in BOOLEAN : er = [NoRunner EXCEPT !.exists = TRUE, !.fin = f, !.afin = f]
  BY DEF Init
<1>3. er.exists /\ ~er.del /\ (er.afin <=> er.fin) /\ er.phase = "" /\ er.rid = 0 /\ er.fails = {}
  BY <1>2 DEF NoRunner
<1>9. er \in Runner
  BY <1>1, <1>2 DEF Runner
<1>4. TypeOK
  <2>1. /\ er \in Runner /\ erCache \in Runner /\ lEr \in Runner
        /\ pod \in Pod /\ podCache \in Pod /\ lPod \in Pod
    BY <1>1, <1>9 DEF Init
  <2>2. queued \in BOOLEAN /\ cooling \in BOOLEAN /\ linked \in BOOLEAN
    BY DEF Init
  <2>3. foreign \in BOOLEAN /\ busy \in BOOLEAN /\ jobMsg \in BOOLEAN /\ killed \in BOOLEAN
    BY DEF Init
  <2>4. /\ secret \in -1..MaxRegs /\ lSecret \in -1..MaxRegs /\ reg \in 0..MaxRegs
        /\ lastReg \in 0..MaxRegs /\ lastPod \in 0..MaxPods /\ faults \in 0..MaxFaults
    BY BoundsAssumption DEF Init
  <2>5. pc \in Steps /\ races \subseteq RaceKinds
    BY DEF Init, Steps
  <2> QED
    BY <2>1, <2>2, <2>3, <2>4, <2>5 DEF TypeOK
<1>5. LocalType
  BY <1>4 DEF Init, TypeOK, LocalType
<1>6. RunnerInv
  <2>1. Cardinality(er.fails) = 0 /\ MaxFailures \in Nat
    BY <1>3, FS_EmptySet, BoundsAssumption
  <2>2. Cardinality(er.fails) <= MaxFailures + 1
    BY <2>1
  <2> QED
    BY <1>3, <2>2 DEF RunnerInv
<1>7. PodInv /\ IdentityInv /\ ServiceInv
  BY <1>3 DEF Init, NoPod, PodInv, IdentityInv, ServiceInv, Agree, NoId
<1>8. LocalInv /\ ~killed
  BY DEF Init, LocalInv, Work, Registering, HavingId, Teardown
<1> QED
  BY <1>4, <1>5, <1>6, <1>7, <1>8 DEF TypeInv, PromptInv

(* Nothing changes when nothing changes. *)
LEMMA Stuttering ==
  ASSUME UNCHANGED vars
  PROVE  (TypeInv => TypeInv') /\ (PromptInv => PromptInv')
<1>1. TypeInv => TypeInv'
  BY DEF vars, TypeInv, TypeOK, LocalType
<1>2. PromptInv => PromptInv'
  BY Kept DEF vars, PromptInv
<1> QED
  BY <1>1, <1>2

(* Registration, secret, status and pod hold at most one runner id. *)
LEMMA OneId ==
  ASSUME IdentityInv \/ IdsInv
  PROVE  Cardinality(Identities) <= 1 /\ Cardinality(Identities) \in Nat
<1>1. \A x, y \in Identities : x = y
  BY DEF IdentityInv, IdsInv, Agree, NoId, Identities
<1>2. CASE Identities = {}
  BY <1>2, FS_EmptySet
<1>3. CASE Identities # {}
  <2>1. PICK x \in Identities : TRUE
    BY <1>3
  <2>2. Identities = {x}
    BY <1>1, <2>1
  <2>3. Cardinality({x}) = 1
    BY FS_Singleton
  <2> QED
    BY <2>2, <2>3
<1> QED
  BY <1>2, <1>3

(* Theorem: every variable holds a value of its kind, however old the       *)
(* caches are that Reconcile reads and wherever it was interrupted.         *)
THEOREM EphemeralRunnerTypes == Spec => []TypeOK
<1>1. Init => TypeInv
  BY RunnerStarts
<1>2. TypeInv /\ [Next]_vars => TypeInv'
  BY TypeStep, Stuttering
<1>3. TypeInv => TypeOK
  BY DEF TypeInv
<1> QED
  BY <1>1, <1>2, <1>3, PTL DEF Spec

(* The invariant that carries the theorems below is inductive. *)
LEMMA RunnerInvariant == Spec => [](TypeInv /\ LagInv /\ (~CachesLag => PromptInv))
<1>1. Init => TypeInv /\ LagInv /\ (~CachesLag => PromptInv)
  BY RunnerStarts, LagStarts
<1>2. TypeInv /\ LagInv /\ (~CachesLag => PromptInv) /\ [Next]_vars
        => (TypeInv /\ LagInv /\ (~CachesLag => PromptInv))'
  BY TypeStep, PromptStep, Stuttering, LagStep, LagStutters
<1> QED
  BY <1>1, <1>2, PTL DEF Spec

(* The one identity, from the invariant. *)
LEMMA IdentityFollows ==
  ASSUME LagInv, ~CachesLag => PromptInv
  PROVE  OneIdentity
<1>1. CASE Quiet \/ ~CachesLag
  <2>1. Cardinality(Identities) <= 1 /\ Cardinality(Identities) \in Nat
    BY <1>1, OneId DEF LagInv, PromptInv
  <2> QED
    BY <2>1 DEF OneIdentity
<1>2. CASE ~Quiet /\ CachesLag
  BY <1>2 DEF Quiet, OneIdentity
<1> QED
  BY <1>1, <1>2

(* Theorem: registration, secret, status and pod of a runner never hold two    *)
(* different ids, for any number of registrations, pods, faults and restarts   *)
(* and however old the copies are that Reconcile works from, unless the runner *)
(* was marked failed, its secret was edited or its pod was drained; with       *)
(* prompt watches not even then.                                               *)
THEOREM EphemeralRunnerOneIdentity == Spec => []OneIdentity
<1>1. TypeInv /\ LagInv /\ (~CachesLag => PromptInv) => OneIdentity
  BY IdentityFollows
<1> QED
  BY <1>1, RunnerInvariant, PTL

(* Theorem: the types, the one identity, and with prompt watches at most       *)
(* maxFailures + 1 recorded failures.                                          *)
THEOREM EphemeralRunnerConsistent == Spec => []Consistent
<1>1. ASSUME TypeInv, LagInv, ~CachesLag => PromptInv
      PROVE  Consistent
  <2>1. OneIdentity
    BY <1>1, IdentityFollows
  <2>2. FailureBudget
    BY <1>1 DEF PromptInv, RunnerInv, FailureBudget
  <2> QED
    BY <1>1, <2>1, <2>2 DEF TypeInv, Consistent
<1> QED
  BY <1>1, RunnerInvariant, PTL

(* Theorem: no Delete of the controller and no garbage collection stops a pod  *)
(* whose runner executes a job; with caches that lag, as long as none of the   *)
(* rare events happened.                                                       *)
THEOREM EphemeralRunnerKeepsJobs == Spec => []NoJobKilled
<1>1. TypeInv /\ LagInv /\ (~CachesLag => PromptInv) => NoJobKilled
  BY DEF PromptInv, LagInv, CleanInv, NoJobKilled
<1> QED
  BY <1>1, RunnerInvariant, PTL

(* Theorem: a runner that is gone left neither a registration nor what the     *)
(* container hooks made, unless it was deleted before its status had the       *)
(* runner id or, with caches that lag, another of the rare events happened.    *)
THEOREM EphemeralRunnerLeavesNothing == Spec => []NothingLeft
<1>1. TypeInv /\ LagInv /\ (~CachesLag => PromptInv) => NothingLeft
  BY DEF PromptInv, ServiceInv, LagInv, CleanInv, NothingLeft
<1> QED
  BY <1>1, RunnerInvariant, PTL
=============================================================================
