--------------------------- MODULE EphemeralRunner ---------------------------
(***************************************************************************)
(* One EphemeralRunner resource and everything that acts on it:            *)
(*                                                                         *)
(*   - the EphemeralRunner controller, whose Reconcile is split into one   *)
(*     action per call it makes to the API server or to the Actions        *)
(*     service, so that everything else may happen between two calls;      *)
(*   - the informer caches Reconcile reads the EphemeralRunner and the pod *)
(*     from (Secrets are read from the API server, main.go:251-256);       *)
(*   - the API server's objects, the kubelet and the garbage collector;    *)
(*   - the Actions service, which registers runners and gives them jobs;   *)
(*   - the listener, which records a started job in the runner's status,   *)
(*     and the owner (EphemeralRunnerSet or a user), which deletes it.     *)
(*                                                                         *)
(* controller-runtime never runs two Reconciles of one key at a time.      *)
(***************************************************************************)
EXTENDS Integers, FiniteSets

CONSTANTS
    MaxFailures,   \* const maxFailures
    MaxRegs,       \* bound: registrations the service hands out
    MaxPods,       \* bound: pods created for this runner
    MaxFaults,     \* bound: failed calls, denied pods and controller restarts
    Stops,         \* how pods stop without a job's end, among Exit7, ExitN and Evicted
    Hooks,         \* HasContainerHookConfigured: jobs have pods and secrets of their own
    CachesLag      \* FALSE: the watches deliver before anything else happens

ASSUME BoundsAssumption ==
    /\ MaxFailures \in Nat
    /\ MaxRegs \in Nat
    /\ MaxPods \in Nat
    /\ MaxFaults \in Nat
    /\ Stops \subseteq {"Exit7", "ExitN", "Evicted"}
    /\ {Hooks, CachesLag} \subseteq BOOLEAN

VARIABLES
    er,       \* the EphemeralRunner in the API server
    pod,      \* its pod in the API server; uid 0: no pod
    secret,   \* runnerId in the JIT config secret; 0: no secret, -1: unreadable
    erCache,  \* the informer's copy of er
    podCache, \* the informer's copy of pod
    queued,   \* the key is in the controller's work queue
    pc,       \* the call Reconcile makes next
    lEr,      \* Reconcile's local variable ephemeralRunner
    lPod,     \* Reconcile's local variable pod
    lSecret,  \* runnerId in Reconcile's local variable secret (or jitConfig)
    cooling,  \* now is before lastFailure + backoff
    linked,   \* pods or secrets labelled with the runner's pod, made for its job
    reg,      \* id registered in our scale set under the runner's name; 0: none
    foreign,  \* another scale set has a runner of that name
    busy,     \* the registered runner has a job
    lastReg,  \* the last id the service handed out
    jobMsg,   \* JobStarted is on its way to the listener
    lastPod,  \* the last pod uid handed out
    faults,   \* faults so far
    killed,   \* history: a Delete or the garbage collector stopped a job
    races     \* history: the rare events among RaceKinds that happened

apiVars == <<er, pod, secret>>
cacheVars == <<erCache, podCache>>
localVars == <<lEr, lPod, lSecret>>
svcVars == <<reg, foreign, busy, lastReg, jobMsg>>
countVars == <<lastPod, faults>>
history == <<killed, races>>
vars == <<er, pod, secret, erCache, podCache, queued, pc, lEr, lPod, lSecret,
          cooling, linked, reg, foreign, busy, lastReg, jobMsg, lastPod, faults, killed, races>>

(* Phases of the status, and what a pod's status says of its runner: no     *)
(* container status yet, container waiting, running, terminated with exit   *)
(* code 0, 7 or another, or the pod failed before the container terminated. *)
Phases == {"", "Pending", "Running", "Failed", "Outdated"}
PodStates == {"NoStatus", "Waiting", "Running", "Exit0", "Exit7", "ExitN", "Evicted"}

Runner == [exists : BOOLEAN, del : BOOLEAN, fin : BOOLEAN, afin : BOOLEAN,
           phase : Phases, rid : 0..MaxRegs, job : BOOLEAN, fails : SUBSET (1..MaxPods)]
Pod == [uid : 0..MaxPods, del : BOOLEAN, state : PodStates, cfg : -1..MaxRegs]

NoRunner == [exists |-> FALSE, del |-> FALSE, fin |-> FALSE, afin |-> FALSE,
             phase |-> "", rid |-> 0, job |-> FALSE, fails |-> {}]
NoPod == [uid |-> 0, del |-> FALSE, state |-> "NoStatus", cfg |-> 0]
Unreadable == -1

Steps == {"idle", "addFinalizers", "getSecret", "generateJit", "getRunnerByName",
          "removeByName", "createSecret", "patchRunnerId", "deleteCorruptSecret",
          "getPod", "createPod", "markFailed", "markOutdated", "removeMarked",
          "updateStatus", "deletePodAsFailed", "patchFailure", "deleteRunner",
          "deleteRunnerWithJob", "removeBestEffort", "removeFromService",
          "dropActionsFinalizer", "cleanupPod", "cleanupSecret", "cleanupLinked",
          "dropFinalizer"}

(* The rare events some properties depend on: the runner is deleted while    *)
(* its status has no id yet, it is marked Failed, its secret is edited, its  *)
(* pod is deleted by someone else.                                           *)
RaceKinds == {"unregistered", "denied", "edited", "drained"}
-----------------------------------------------------------------------------
(* Predicates of the code, on a copy e of the EphemeralRunner. A definition  *)
(* whose name says how it differs from the next one is a slip that some      *)
(* property must catch.                                                      *)

IsDone(e) == e.phase \in {"Failed", "Outdated"}

HasJob(e) == e.job

TooManyFailures(e) == Cardinality(e.fails) > MaxFailures

(* A job is executing in the runner's pod. *)
Executing == /\ busy
             /\ pod.uid # 0
             /\ pod.state = "Running"
             /\ pod.cfg = reg

(* The Actions service refuses to remove a runner that has a job; removing   *)
(* an id it does not know succeeds.                                          *)
JobStillRunning(id) == busy /\ id = reg

Unregister(id) == reg' = IF id = reg THEN 0 ELSE reg

(* With prompt watches every step but theirs waits for them. *)
Delivered == CachesLag \/ (erCache = er /\ podCache = pod)

(* Reconcile returns, its local variables with it: nothing to do, or the key  *)
(* is put back in the queue.                                                 *)
Leave == Delivered /\ pc' = "idle" /\ lEr' = NoRunner /\ lPod' = NoPod /\ lSecret' = 0
Return == Leave /\ UNCHANGED queued
Requeue == Leave /\ queued' = TRUE

(* Reconcile goes on to its next call with the local copies e, p and s.      *)
Continue(step, e, p, s) ==
    IF step = "idle"
    THEN Return
    ELSE /\ Delivered
         /\ pc' = step /\ lEr' = e /\ lPod' = p /\ lSecret' = s
         /\ UNCHANGED queued

Goto(step) == Continue(step, lEr, lPod, lSecret)

(* Delete on the API server: an object with finalizers is only marked.       *)
MarkDeleted ==
    /\ er' = IF er.fin \/ er.afin THEN [er EXCEPT !.del = TRUE] ELSE NoRunner
    /\ races' = IF ~er.del /\ er.rid = 0 THEN races \cup {"unregistered"} ELSE races
    /\ UNCHANGED killed

(* Delete of the pod: the kubelet will stop its containers.                  *)
DeletePod ==
    /\ pod' = [pod EXCEPT !.del = pod.uid # 0]
    /\ killed' = (killed \/ (Executing /\ ~pod.del))
    /\ UNCHANGED races
-----------------------------------------------------------------------------
(* Where the two finalizers may be missing is a runner not created by the   *)
(* EphemeralRunnerSet; foreign is a name collision with another scale set.  *)
Init ==
    /\ \E f \in BOOLEAN :
          er = [NoRunner EXCEPT !.exists = TRUE, !.fin = f, !.afin = f]
    /\ pod = NoPod
    /\ secret = 0
    /\ erCache = NoRunner
    /\ podCache = NoPod
    /\ queued = FALSE
    /\ pc = "idle"
    /\ lEr = NoRunner
    /\ lPod = NoPod
    /\ lSecret = 0
    /\ cooling = FALSE
    /\ linked = FALSE
    /\ reg = 0
    /\ foreign \in BOOLEAN
    /\ busy = FALSE
    /\ lastReg = 0
    /\ jobMsg = FALSE
    /\ lastPod = 0
    /\ faults = 0
    /\ killed = FALSE
    /\ races = {}
-----------------------------------------------------------------------------
(***************************************************************************)
(* Reconcile.                                                              *)
(***************************************************************************)
(* The first call for the copy of the runner that was read. *)
FirstStep(e) ==
    CASE ~e.exists -> "idle"
      [] e.exists /\ e.del /\ ~e.fin -> "idle"
      [] e.exists /\ e.del /\ e.fin /\ e.afin -> "removeFromService"
      [] e.exists /\ e.del /\ e.fin /\ ~e.afin -> "cleanupPod"
      [] e.exists /\ ~e.del /\ IsDone(e) -> "cleanupPod"
      [] e.exists /\ ~e.del /\ ~IsDone(e) /\ ~(e.fin /\ e.afin) -> "addFinalizers"
      [] OTHER -> "getSecret"

StartReconcile ==
    /\ Delivered
    /\ pc = "idle"
    /\ queued
    /\ queued' = FALSE
    /\ pc' = FirstStep(erCache)
    /\ lEr' = IF pc' = "idle" THEN NoRunner ELSE erCache
    /\ UNCHANGED <<apiVars, cacheVars, lPod, lSecret, cooling, linked, svcVars, countVars, history>>

(* A patch of an object that is gone fails with NotFound; a successful one   *)
(* also replaces the local copy by the server's answer.                      *)
PatchRunner(step, e, next) ==
    /\ pc = step
    /\ IF er.exists
       THEN er' = e /\ Continue(next, e, lPod, lSecret)
       ELSE UNCHANGED er /\ Requeue

AddFinalizers ==
    /\ PatchRunner("addFinalizers", [er EXCEPT !.fin = TRUE, !.afin = TRUE], "getSecret")
    /\ UNCHANGED <<pod, secret, cacheVars, cooling, linked, svcVars, countVars, history>>

(* After the secret is known: the status gets the runner id, an unreadable   *)
(* one is deleted, and too many failures delete the runner.                  *)
StepAfterSecret(e, s) ==
    CASE e.rid = 0 /\ s = Unreadable -> "deleteCorruptSecret"
      [] e.rid = 0 /\ s # Unreadable -> "patchRunnerId"
      [] e.rid # 0 /\ TooManyFailures(e) -> "deleteRunner"
      [] OTHER -> "getPod"

GetSecretRegisteringUnlessInStatus ==
    /\ pc = "getSecret"
    /\ Continue(IF secret = 0 \/ lEr.rid = 0 THEN "generateJit" ELSE StepAfterSecret(lEr, secret),
                lEr, lPod, secret)
    /\ UNCHANGED <<apiVars, cacheVars, cooling, linked, svcVars, countVars, history>>

GetSecret ==
    /\ pc = "getSecret"
    /\ Continue(IF secret = 0 THEN "generateJit" ELSE StepAfterSecret(lEr, secret),
                lEr, lPod, secret)
    /\ UNCHANGED <<apiVars, cacheVars, cooling, linked, svcVars, countVars, history>>

(* createRunnerJitConfig: registering is the service's side effect. At the    *)
(* bound the service answers with an error.                                  *)
GenerateJit ==
    /\ pc = "generateJit"
    /\ \/ /\ reg = 0 /\ ~foreign /\ lastReg < MaxRegs
          /\ lastReg' = lastReg + 1
          /\ reg' = lastReg + 1
          /\ Continue("createSecret", lEr, lPod, lastReg + 1)
       \/ /\ reg # 0 \/ foreign
          /\ Goto("getRunnerByName")
          /\ UNCHANGED <<lastReg, reg>>
       \/ /\ reg = 0 /\ ~foreign /\ lastReg = MaxRegs
          /\ Requeue
          /\ UNCHANGED <<lastReg, reg>>
    /\ UNCHANGED <<apiVars, cacheVars, cooling, linked, foreign, busy, jobMsg,
                   countVars, history>>

(* The runner of that name is gone, is ours, or belongs to another scale set. *)
GetRunnerByName ==
    /\ pc = "getRunnerByName"
    /\ \/ reg # 0 /\ Continue("removeByName", lEr, lPod, reg)
       \/ reg = 0 /\ foreign /\ Goto("deleteRunner")
       \/ reg = 0 /\ ~foreign /\ Requeue
    /\ UNCHANGED <<apiVars, cacheVars, cooling, linked, svcVars, countVars, history>>

RemoveByName ==
    /\ pc = "removeByName"
    /\ IF JobStillRunning(lSecret) THEN UNCHANGED reg ELSE Unregister(lSecret)
    /\ Requeue
    /\ UNCHANGED <<apiVars, cacheVars, cooling, linked, foreign, busy, lastReg, jobMsg,
                   countVars, history>>

CreateSecret ==
    /\ pc = "createSecret"
    /\ secret' = lSecret
    /\ Goto(StepAfterSecret(lEr, lSecret))
    /\ UNCHANGED <<er, pod, cacheVars, cooling, linked, svcVars, countVars, history>>

DeleteCorruptSecret ==
    /\ pc = "deleteCorruptSecret"
    /\ secret' = 0
    /\ Requeue
    /\ UNCHANGED <<er, pod, cacheVars, cooling, linked, svcVars, countVars, history>>

PatchRunnerId ==
    /\ LET e == [er EXCEPT !.rid = lSecret]
       IN  PatchRunner("patchRunnerId", e, StepAfterSecret(e, lSecret))
    /\ UNCHANGED <<pod, secret, cacheVars, cooling, linked, svcVars, countVars, history>>

(* The call the pod's status asks for, once the backoff is over. *)
StepForPod(e, p) ==
    CASE p.uid = 0 -> "createPod"
      [] p.uid # 0 /\ p.state = "NoStatus" -> "idle"
      [] p.uid # 0 /\ p.state \in {"Waiting", "Running"} -> "updateStatus"
      [] p.uid # 0 /\ p.state = "Exit0" -> "deleteRunner"
      [] p.uid # 0 /\ p.state = "Exit7" -> "markOutdated"
      [] p.uid # 0 /\ p.state \in {"ExitN", "Evicted"} /\ HasJob(e) -> "deleteRunnerWithJob"
      [] OTHER -> "deletePodAsFailed"

(* lEr may be older than er, its last failure too: then the backoff may      *)
(* already be over.                                                          *)
BackingOffWithoutRequeue ==
    /\ pc = "getPod"
    /\ lEr.fails # {} /\ cooling
    /\ Return
    /\ UNCHANGED <<apiVars, cacheVars, cooling, linked, svcVars, countVars, history>>

BackingOff ==
    /\ pc = "getPod"
    /\ lEr.fails # {} /\ cooling
    /\ Requeue
    /\ UNCHANGED <<apiVars, cacheVars, cooling, linked, svcVars, countVars, history>>

GetPod ==
    /\ pc = "getPod"
    /\ lEr.fails = {} \/ ~cooling \/ lEr.fails # er.fails
    /\ Continue(StepForPod(lEr, podCache), lEr, podCache, lSecret)
    /\ UNCHANGED <<apiVars, cacheVars, cooling, linked, svcVars, countVars, history>>

(* The pod's container gets the JIT config of the secret. A name that is     *)
(* taken (AlreadyExists) is tried again, and so is, at the bound, a pod over *)
(* quota.                                                                    *)
CreatePod ==
    /\ pc = "createPod"
    /\ \/ /\ pod.uid = 0 /\ lastPod < MaxPods
          /\ lastPod' = lastPod + 1
          /\ pod' = [NoPod EXCEPT !.uid = lastPod + 1, !.cfg = lSecret]
          /\ Return
       \/ /\ pod.uid # 0 \/ lastPod = MaxPods
          /\ Requeue
          /\ UNCHANGED <<pod, lastPod>>
    /\ UNCHANGED <<er, secret, cacheVars, cooling, linked, svcVars, faults, history>>

(* Invalid, or forbidden by something other than a quota; over quota with a  *)
(* runner older than 10 minutes; over quota with a younger one. The API      *)
(* server validates and admits before it looks whether the name is taken.    *)
CreatePodDenied ==
    /\ pc = "createPod"
    /\ faults < MaxFaults
    /\ faults' = faults + 1
    /\ \/ Goto("markFailed")
       \/ Goto("deleteRunner")
       \/ Requeue
    /\ UNCHANGED <<apiVars, cacheVars, cooling, linked, svcVars, lastPod, history>>

(* markAsFailed and markAsOutdated: the status first, then the service. *)
MarkFailed ==
    /\ PatchRunner("markFailed", [er EXCEPT !.phase = "Failed"], "removeMarked")
    /\ races' = races \cup {"denied"}
    /\ UNCHANGED <<pod, secret, cacheVars, cooling, linked, svcVars, countVars, killed>>

MarkOutdated ==
    /\ PatchRunner("markOutdated", [er EXCEPT !.phase = "Outdated"], "removeMarked")
    /\ UNCHANGED <<pod, secret, cacheVars, cooling, linked, svcVars, countVars, history>>

RemoveMarked ==
    /\ pc = "removeMarked"
    /\ IF JobStillRunning(lEr.rid) THEN Requeue /\ UNCHANGED reg
                                   ELSE Return /\ Unregister(lEr.rid)
    /\ UNCHANGED <<apiVars, cacheVars, cooling, linked, foreign, busy, lastReg, jobMsg,
                   countVars, history>>

(* updateRunStatusFromPod: only a phase that differs from the local copy's   *)
(* is patched.                                                               *)
PodPhase(p) == IF p.state = "Running" THEN "Running" ELSE "Pending"

UpdateStatus ==
    /\ IF lEr.phase = PodPhase(lPod)
       THEN pc = "updateStatus" /\ Return /\ UNCHANGED er
       ELSE PatchRunner("updateStatus", [er EXCEPT !.phase = PodPhase(lPod)], "idle")
    /\ UNCHANGED <<pod, secret, cacheVars, cooling, linked, svcVars, countVars, history>>

(* deletePodAsFailed: the pod first, then the failure, keyed by the pod. *)
DeletePodAsFailed ==
    /\ pc = "deletePodAsFailed"
    /\ IF lPod.del THEN UNCHANGED <<pod, history>> ELSE DeletePod
    /\ Goto("patchFailure")
    /\ UNCHANGED <<er, secret, cacheVars, cooling, linked, svcVars, countVars>>

PatchFailure ==
    /\ PatchRunner("patchFailure", [er EXCEPT !.fails = @ \cup {lPod.uid}], "idle")
    /\ cooling' = TRUE
    /\ UNCHANGED <<linked, pod, secret, cacheVars, svcVars, countVars, history>>

(* r.Delete(ctx, ephemeralRunner), of a runner with a job followed by a      *)
(* removal from the service whose error is only logged.                      *)
DeleteRunner ==
    /\ pc \in {"deleteRunner", "deleteRunnerWithJob"}
    /\ IF er.exists
       THEN /\ MarkDeleted
            /\ Goto(IF pc = "deleteRunner" THEN "idle" ELSE "removeBestEffort")
       ELSE UNCHANGED <<er, history>> /\ Requeue
    /\ UNCHANGED <<pod, secret, cacheVars, cooling, linked, svcVars, countVars>>

RemoveBestEffort ==
    /\ pc = "removeBestEffort"
    /\ \/ UNCHANGED reg
       \/ ~JobStillRunning(lEr.rid) /\ Unregister(lEr.rid)
    /\ Return
    /\ UNCHANGED <<apiVars, cacheVars, cooling, linked, foreign, busy, lastReg, jobMsg,
                   countVars, history>>

(* The deletion path: the service first, then the finalizer that guards it.  *)
RemoveFromServiceIgnoringJob ==
    /\ pc = "removeFromService"
    /\ IF JobStillRunning(lEr.rid) THEN UNCHANGED reg ELSE Unregister(lEr.rid)
    /\ Goto("dropActionsFinalizer")
    /\ UNCHANGED <<apiVars, cacheVars, cooling, linked, foreign, busy, lastReg, jobMsg,
                   countVars, history>>

RemoveFromService ==
    /\ pc = "removeFromService"
    /\ IF JobStillRunning(lEr.rid)
       THEN Requeue /\ UNCHANGED reg
       ELSE Unregister(lEr.rid) /\ Goto("dropActionsFinalizer")
    /\ UNCHANGED <<apiVars, cacheVars, cooling, linked, foreign, busy, lastReg, jobMsg,
                   countVars, history>>

(* The API server deletes a marked object with its last finalizer. *)
WithoutFinalizers(e) == IF e.del /\ ~e.fin /\ ~e.afin THEN NoRunner ELSE e

DropActionsFinalizer ==
    /\ PatchRunner("dropActionsFinalizer", WithoutFinalizers([er EXCEPT !.afin = FALSE]),
                   "cleanupPod")
    /\ UNCHANGED <<pod, secret, cacheVars, cooling, linked, svcVars, countVars, history>>

(* cleanupResources. *)
CleanupPod ==
    /\ pc = "cleanupPod"
    /\ IF podCache.uid # 0 /\ ~podCache.del THEN DeletePod ELSE UNCHANGED <<pod, history>>
    /\ Goto("cleanupSecret")
    /\ UNCHANGED <<er, secret, cacheVars, cooling, linked, svcVars, countVars>>

CleanupSecret ==
    /\ pc = "cleanupSecret"
    /\ secret' = 0
    /\ Goto(CASE lEr.del /\ Hooks -> "cleanupLinked"
              [] lEr.del /\ ~Hooks -> "dropFinalizer"
              [] OTHER -> "idle")
    /\ UNCHANGED <<er, pod, cacheVars, cooling, linked, svcVars, countVars, history>>

(* cleanupContainerHooksResources: the pods and secrets that the hooks made for *)
(* the job. The runner's own pod may still be there.                           *)
CleanupLinked ==
    /\ pc = "cleanupLinked"
    /\ linked' = FALSE
    /\ Goto("dropFinalizer")
    /\ UNCHANGED <<apiVars, cacheVars, cooling, svcVars, countVars, history>>

(* NotFound is not an error here. *)
DropFinalizer ==
    /\ pc = "dropFinalizer"
    /\ er' = WithoutFinalizers([er EXCEPT !.fin = FALSE])
    /\ Return
    /\ UNCHANGED <<pod, secret, cacheVars, cooling, linked, svcVars, countVars, history>>

(* Any call may fail: Reconcile returns the error and is run again. *)
CallFails ==
    /\ pc \notin {"idle", "removeBestEffort"}
    /\ faults < MaxFaults
    /\ faults' = faults + 1
    /\ Requeue
    /\ UNCHANGED <<apiVars, cacheVars, cooling, linked, svcVars, lastPod, history>>

(* The controller stops between two calls; the next one lists everything. *)
Restart ==
    /\ faults < MaxFaults
    /\ faults' = faults + 1
    /\ erCache' = er
    /\ podCache' = pod
    /\ Requeue
    /\ UNCHANGED <<apiVars, cooling, linked, svcVars, lastPod, history>>
-----------------------------------------------------------------------------
(***************************************************************************)
(* The controller's surroundings.                                          *)
(***************************************************************************)

(* A watch event: For(EphemeralRunner), Owns(Pod). *)
WatchRunner ==
    /\ erCache # er
    /\ erCache' = er
    /\ queued' = TRUE
    /\ UNCHANGED <<apiVars, podCache, pc, localVars, cooling, linked, svcVars, countVars, history>>

WatchPodNotOwned ==
    /\ podCache # pod
    /\ podCache' = pod
    /\ UNCHANGED <<apiVars, erCache, queued, pc, localVars, cooling, linked, svcVars, countVars, history>>

WatchPod ==
    /\ podCache # pod
    /\ podCache' = pod
    /\ queued' = TRUE
    /\ UNCHANGED <<apiVars, erCache, pc, localVars, cooling, linked, svcVars, countVars, history>>

BackoffEnds ==
    /\ Delivered
    /\ cooling
    /\ cooling' = FALSE
    /\ UNCHANGED <<linked, apiVars, cacheVars, queued, pc, localVars, svcVars, countVars, history>>

(* The EphemeralRunnerSet scales down or a user deletes the resource; the     *)
(* former first removes a registration it knows the id of.                   *)
OwnerRemoves ==
    /\ Delivered
    /\ er.exists /\ er.rid # 0 /\ ~JobStillRunning(er.rid)
    /\ reg # 0
    /\ Unregister(er.rid)
    /\ UNCHANGED <<apiVars, cacheVars, queued, pc, localVars, cooling, linked, foreign, busy, lastReg,
                   jobMsg, countVars, history>>

OwnerDeletes ==
    /\ Delivered
    /\ er.exists /\ ~er.del
    /\ MarkDeleted
    /\ UNCHANGED <<pod, secret, cacheVars, queued, pc, localVars, cooling, linked, svcVars, countVars>>

(* Someone edits the secret before its id reached the status. *)
SecretEdited ==
    /\ Delivered
    /\ secret > 0 /\ er.rid = 0
    /\ faults < MaxFaults
    /\ faults' = faults + 1
    /\ secret' = Unreadable
    /\ races' = races \cup {"edited"}
    /\ UNCHANGED <<er, pod, cacheVars, queued, pc, localVars, cooling, linked, svcVars, lastPod, killed>>

(* The listener's HandleJobStarted; a runner that is gone is skipped. *)
HandleJobStarted ==
    /\ Delivered
    /\ jobMsg
    /\ jobMsg' = FALSE
    /\ er' = IF er.exists THEN [er EXCEPT !.job = TRUE] ELSE er
    /\ UNCHANGED <<pod, secret, cacheVars, queued, pc, localVars, cooling, linked, reg, foreign, busy,
                   lastReg, countVars, history>>

(* The kubelet starts the container once the secret can be read. *)
PodStarts ==
    /\ Delivered
    /\ pod.uid # 0
    /\ \/ pod.state = "NoStatus" /\ pod' = [pod EXCEPT !.state = "Waiting"]
       \/ pod.state = "Waiting" /\ secret # 0 /\ pod' = [pod EXCEPT !.state = "Running"]
    /\ UNCHANGED <<er, secret, cacheVars, queued, pc, localVars, cooling, linked, svcVars, countVars, history>>

(* The container exits: deprecated runner (only while it waits for a job),    *)
(* crash; or the pod is evicted.                                             *)
PodStops ==
    /\ Delivered
    /\ pod.uid # 0
    /\ \E s \in Stops :
          /\ pod.state \in IF s = "Evicted" THEN {"NoStatus", "Waiting", "Running"} ELSE {"Running"}
          /\ s = "Exit7" => ~Executing
          /\ pod' = [pod EXCEPT !.state = s]
    /\ UNCHANGED <<er, secret, cacheVars, queued, pc, localVars, cooling, linked, svcVars, countVars, history>>

(* A runner whose registration is gone cannot start a session and exits. *)
RunnerRejected ==
    /\ Delivered
    /\ pod.uid # 0 /\ pod.state = "Running" /\ pod.cfg # reg
    /\ pod' = [pod EXCEPT !.state = "ExitN"]
    /\ UNCHANGED <<er, secret, cacheVars, queued, pc, localVars, cooling, linked, svcVars, countVars, history>>

PodRemoved ==
    /\ Delivered
    /\ pod.del
    /\ pod' = NoPod
    /\ UNCHANGED <<er, secret, cacheVars, queued, pc, localVars, cooling, linked, svcVars, countVars, history>>

(* A drained node: the pod is deleted by someone else. *)
PodDrained ==
    /\ Delivered
    /\ pod.uid # 0 /\ ~pod.del
    /\ faults < MaxFaults
    /\ faults' = faults + 1
    /\ pod' = [pod EXCEPT !.del = TRUE]
    /\ races' = races \cup {"drained"}
    /\ UNCHANGED <<er, secret, cacheVars, queued, pc, localVars, cooling, linked, svcVars, lastPod, killed>>

(* The garbage collector follows the owner references. *)
CollectGarbage ==
    /\ Delivered
    /\ ~er.exists
    /\ pod.uid # 0 \/ secret # 0
    /\ DeletePod
    /\ secret' = 0
    /\ UNCHANGED <<er, cacheVars, queued, pc, localVars, cooling, linked, svcVars, countVars>>

ForeignRunnerLeaves ==
    /\ Delivered
    /\ foreign
    /\ foreign' = FALSE
    /\ UNCHANGED <<apiVars, cacheVars, queued, pc, localVars, cooling, linked, reg, busy, lastReg, jobMsg,
                   countVars, history>>

(* A runner that is online gets a job. *)
JobAssigned ==
    /\ Delivered
    /\ reg # 0 /\ ~busy
    /\ pod.uid # 0 /\ pod.state = "Running" /\ pod.cfg = reg
    /\ busy' = TRUE
    /\ jobMsg' = TRUE
    /\ linked' = (linked \/ Hooks)
    /\ UNCHANGED <<apiVars, cacheVars, queued, pc, localVars, cooling, reg, foreign, lastReg,
                   countVars, history>>

(* The job ends: the service forgets the ephemeral runner, which exits 0. The *)
(* hooks may leave something behind.                                          *)
JobEnds ==
    /\ Delivered
    /\ Executing
    /\ pod' = [pod EXCEPT !.state = "Exit0"]
    /\ reg' = 0
    /\ busy' = FALSE
    /\ linked' \in {FALSE, linked}
    /\ UNCHANGED <<er, secret, cacheVars, queued, pc, localVars, cooling, foreign, lastReg, jobMsg,
                   countVars, history>>

(* The service gives up on a runner it lost contact with. *)
JobAbandoned ==
    /\ Delivered
    /\ busy /\ ~Executing
    /\ busy' = FALSE
    /\ UNCHANGED <<apiVars, cacheVars, queued, pc, localVars, cooling, linked, reg, foreign, lastReg,
                   jobMsg, countVars, history>>
-----------------------------------------------------------------------------
Reconcile ==
    \/ StartReconcile \/ AddFinalizers \/ GetSecret
    \/ GenerateJit \/ GetRunnerByName \/ RemoveByName \/ CreateSecret
    \/ DeleteCorruptSecret \/ PatchRunnerId
    \/ BackingOff \/ GetPod \/ CreatePod
    \/ MarkFailed \/ MarkOutdated \/ RemoveMarked \/ UpdateStatus
    \/ DeletePodAsFailed \/ PatchFailure \/ DeleteRunner \/ RemoveBestEffort
    \/ RemoveFromService \/ DropActionsFinalizer
    \/ CleanupPod \/ CleanupSecret \/ CleanupLinked \/ DropFinalizer

Faults == CreatePodDenied \/ CallFails \/ Restart \/ PodDrained

Watches == WatchRunner \/ WatchPod

Surroundings ==
    \/ BackoffEnds \/ OwnerRemoves \/ OwnerDeletes \/ SecretEdited
    \/ HandleJobStarted \/ PodStarts \/ PodStops \/ RunnerRejected \/ PodRemoved \/ CollectGarbage
    \/ ForeignRunnerLeaves \/ JobAssigned \/ JobEnds \/ JobAbandoned

Next == Reconcile \/ Faults \/ Watches \/ Surroundings

Spec == Init /\ [][Next]_vars

(***************************************************************************)
(* Fairness. The work queue runs Reconcile for a queued key, the watches    *)
(* deliver, backoffs end, the kubelet removes deleted pods, jobs end and    *)
(* the service notices a runner that is gone. Faults may always stop.       *)
(***************************************************************************)
Fairness ==
    /\ WF_vars(Reconcile)
    /\ WF_vars(WatchRunner) /\ WF_vars(WatchPod)
    /\ WF_vars(BackoffEnds)
    /\ WF_vars(PodStarts) /\ WF_vars(PodRemoved) /\ WF_vars(RunnerRejected)
    /\ WF_vars(HandleJobStarted) /\ WF_vars(JobEnds) /\ WF_vars(JobAbandoned)

FairSpec == Spec /\ Fairness
-----------------------------------------------------------------------------
(* Every variable holds a value of its kind. *)
TypeOK ==
    /\ er \in Runner /\ erCache \in Runner /\ lEr \in Runner
    /\ pod \in Pod /\ podCache \in Pod /\ lPod \in Pod
    /\ secret \in -1..MaxRegs /\ lSecret \in -1..MaxRegs
    /\ {queued, cooling, linked} \subseteq BOOLEAN
    /\ pc \in Steps
    /\ reg \in 0..MaxRegs /\ lastReg \in 0..MaxRegs
    /\ foreign \in BOOLEAN /\ busy \in BOOLEAN /\ jobMsg \in BOOLEAN
    /\ lastPod \in 0..MaxPods
    /\ faults \in 0..MaxFaults
    /\ killed \in BOOLEAN
    /\ races \subseteq RaceKinds

(* Safety: neither a Delete of the controller nor the garbage collection      *)
(* that follows the removal of its finalizers stops a pod while the runner    *)
(* in it executes a job. With lagging caches that needs one of the rare       *)
(* events RaceKinds names; with prompt watches it never happens, crashes,     *)
(* failed calls, deletions and drains included.                               *)
NoJobKilled == killed => CachesLag /\ races # {}

(* Safety: when the EphemeralRunner is gone its registration is gone from     *)
(* the service, which the registration finalizer is for, and so is what the   *)
(* container hooks made for its job, although the runner's pod is not waited  *)
(* for when that is cleaned up. The exception with prompt watches is a runner *)
(* deleted before its status has the runner id: cleanupRunnerFromService then *)
(* removes id 0, and the runner may take a job afterwards.                    *)
NothingLeft ==
    ~er.exists /\ (reg # 0 \/ linked) =>
        "unregistered" \in races \/ (CachesLag /\ races # {})

(* The runner ids that are held somewhere. *)
Identities == {reg, secret, er.rid, pod.cfg} \ {0, Unreadable}

(* Safety: registration, secret, status and pod never hold two different      *)
(* runner ids, although registering and storing the id are separate calls     *)
(* and a crash between them makes the controller register again.              *)
OneIdentity ==
    Cardinality(Identities) > 1 => CachesLag /\ races \ {"unregistered"} # {}

(* Safety: with prompt watches at most maxFailures + 1 pods are recorded as    *)
(* failed, so a runner is restarted at most maxFailures times, and the        *)
(* backoff table of maxFailures + 1 entries is never read outside.            *)
FailureBudget == CachesLag \/ Cardinality(er.fails) <= MaxFailures + 1

(* Safety: the types, the one identity of a runner in service, secret, status *)
(* and pod, and the bound on its failures, through crashes between the calls  *)
(* of Reconcile and repeated ones.                                            *)
Consistent == TypeOK /\ OneIdentity /\ FailureBudget

(* Pods, registrations and faults being finite in number, liveness is told of  *)
(* the end. A runner that is marked for deletion goes away, whatever it was    *)
(* doing and even if it has to wait for its job to end, and after its job a    *)
(* runner goes away, woken by nothing but the events of its own pod.           *)
RunnerGoes ==
    <>[](er.exists => /\ ~er.del
                      /\ pod.uid # 0 /\ pod.state = "Exit0" => IsDone(er))

(* Liveness: a runner without a pod gets one, backoffs included, unless it    *)
(* ends or a bound of the model is reached.                                   *)
RunnerGetsPod ==
    <>[](er.exists /\ pod.uid = 0 => IsDone(er) \/ lastPod = MaxPods \/ lastReg = MaxRegs)
=============================================================================
