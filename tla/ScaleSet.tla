------------------------------ MODULE ScaleSet ------------------------------
(***************************************************************************)
(* A runner scale set at work: the listener's Scaler, which patches the     *)
(* EphemeralRunnerSet, and the EphemeralRunnerSet controller, which creates *)
(* and deletes EphemeralRunners to follow it. Reconcile of that controller  *)
(* is split into one action per call, so that runners register, get jobs,   *)
(* finish and fail between its calls, and the listener patches again.       *)
(*                                                                         *)
(* A runner is reduced to what the other two see of it (module              *)
(* EphemeralRunner has its life in detail), and the jobs to their number.   *)
(***************************************************************************)
EXTENDS Scaler, FiniteSetsExt

CONSTANTS
    Runners,    \* bound: names for the EphemeralRunners that exist at a time
    MaxJobs,    \* bound: jobs that are ever assigned to the scale set
    MaxTrouble, \* bound: failed calls, restarts, failed and outdated runners
    CacheLags   \* FALSE: the watches deliver before anything else happens

ASSUME ScaleSetAssumption ==
    /\ IsFiniteSet(Runners)
    /\ MaxJobs \in Nat
    /\ MaxJobs <= MaxCount
    /\ MaxTrouble \in Nat
    /\ CacheLags \in BOOLEAN

VARIABLES
    set,         \* the EphemeralRunnerSet in the API server, but for its spec
    runner,      \* the EphemeralRunners in the API server
    setCache,    \* the informer's copy of set and spec
    runnerCache, \* the informer's copies of the runners
    queued,      \* the key is in the controller's work queue
    pc,          \* the call Reconcile makes next
    lPatchID,    \* the patchID of Reconcile's copy of the set
    lStatus,     \* the status its list calls for; NoStatus: the copy has it
    lList,       \* the runners of its list that its loops still have to see
    count,       \* runners that are still to be created or deleted
    victim,      \* the runner that was removed from the service and is deleted next
    errs,        \* a call of a loop failed
    svc,         \* what the Actions service knows of a runner
    jobs,        \* jobs assigned to the scale set and not completed
    arrived,     \* jobs assigned so far
    listening,   \* the listener has not been deleted
    stat,        \* TotalAssignedJobs of the last message
    started,     \* runners whose JobStarted is on its way to the listener
    completed,   \* a JobCompleted is on its way to the listener
    trouble      \* troubles so far

apiVars == <<set, runner, spec>>
cacheVars == <<setCache, runnerCache>>
localVars == <<lPatchID, lStatus, lList, count, victim, errs>>
jobVars == <<jobs, arrived>>
msgVars == <<listening, stat, started, completed>>
vars == <<targetRunners, patchSeq, dirty, spec, set, runner, setCache, runnerCache, queued,
          pc, lPatchID, lStatus, lList, count, victim, errs, svc, jobs, arrived, listening, stat,
          started, completed, trouble>>

(* "none": there is no such runner; "deleting": it has a deletion timestamp.  *)
(* rid: its status has the runner id; job: its status has a job; patch: the   *)
(* annotation with the patchID it was created for.                            *)
States == {"none", "pending", "running", "failed", "outdated", "deleting"}
RunnerRec == [st : States, rid : BOOLEAN, job : BOOLEAN, patch : 0..MaxSeq]
NoRunner == [st |-> "none", rid |-> FALSE, job |-> FALSE, patch |-> 0]

NoStatus == [phase |-> "", pending |-> 0, running |-> 0, failed |-> 0]
NewSet == [exists |-> TRUE, del |-> FALSE, fin |-> FALSE, status |-> NoStatus]
NoSet == [exists |-> FALSE, del |-> FALSE, fin |-> FALSE, status |-> NoStatus]

NoView == [set |-> NoSet, spec |-> InitialSpec]
NoList == [r \in Runners |-> NoRunner]
View == [set |-> set, spec |-> spec]

Steps == {"idle", "addFinalizer", "create", "removeIdle", "deleteIdle", "updateStatus",
          "deleteTerminated", "removeAll", "deleteAll", "dropFinalizer"}
-----------------------------------------------------------------------------
(* newEphemeralRunnersByStates; CurrentReplicas of the status is scaleTotal.  *)
In(list, states) == {r \in Runners : list[r].st \in states}

Pending(list) == In(list, {"pending"})
Running(list) == In(list, {"running"})
Terminated(list) == In(list, {"failed", "outdated"})
Listed(list) == In(list, States \ {"none"})

ScaleTotalWithoutPending(list) == Cardinality(In(list, {"running", "failed"}))

ScaleTotal(list) == Cardinality(In(list, {"pending", "running", "failed"}))

LatestPatchID(list) == Max({0} \cup {list[r].patch : r \in Listed(list)})

ActsOnPatch(v, list) ==
    v.spec.patchID = 0 \/ v.spec.patchID # LatestPatchID(list)

(* updateStatus: an outdated runner makes the set outdated, for good. *)
Phase(v, list) ==
    IF In(list, {"outdated"}) # {} THEN "Outdated"
    ELSE IF v.set.status.phase = "" THEN "Running" ELSE v.set.status.phase

DesiredStatus(v, list) ==
    [phase |-> Phase(v, list), pending |-> Cardinality(Pending(list)),
     running |-> Cardinality(Running(list)), failed |-> Cardinality(In(list, {"failed"}))]

(* Reconcile returns, its local variables with it. *)
Return ==
    /\ pc' = "idle"
    /\ lPatchID' = 0 /\ lStatus' = NoStatus /\ lList' = NoList
    /\ count' = 0 /\ victim' = {} /\ errs' = FALSE

(* What the watches For(EphemeralRunnerSet) and Owns(EphemeralRunner) report   *)
(* puts the key in the queue; with prompt watches, along with the change.      *)
Wakes == View' # View \/ runner' # runner

Settle(requeue) ==
    /\ IF CacheLags THEN UNCHANGED cacheVars ELSE setCache' = View' /\ runnerCache' = runner'
    /\ queued' = (queued \/ requeue \/ (~CacheLags /\ Wakes))
-----------------------------------------------------------------------------
Init ==
    /\ ScalerInit
    /\ set = NewSet
    /\ runner = NoList
    /\ setCache = IF CacheLags THEN NoView ELSE View
    /\ runnerCache = NoList
    /\ queued = ~CacheLags
    /\ pc = "idle"
    /\ lPatchID = 0
    /\ lStatus = NoStatus
    /\ lList = NoList
    /\ count = 0
    /\ victim = {}
    /\ errs = FALSE
    /\ svc = [r \in Runners |-> "none"]
    /\ jobs = 0
    /\ arrived = 0
    /\ listening = TRUE
    /\ stat = 0
    /\ started = {}
    /\ completed = FALSE
    /\ trouble = 0
-----------------------------------------------------------------------------
(***************************************************************************)
(* Reconcile of the EphemeralRunnerSet controller.                         *)
(***************************************************************************)
CleanupStepWhenNoneLive(list) ==
    IF Pending(list) \cup Running(list) = {} THEN "dropFinalizer" ELSE "deleteTerminated"

(* cleanUpEphemeralRunners *)
CleanupStep(list) ==
    IF Listed(list) = {} THEN "dropFinalizer" ELSE "deleteTerminated"

ScaleStep(v, list) ==
    LET total == ScaleTotal(list)
    IN  CASE ActsOnPatch(v, list) /\ total < v.spec.replicas -> "create"
          [] ActsOnPatch(v, list) /\ v.spec.patchID = 0 /\ total > v.spec.replicas -> "removeIdle"
          [] OTHER -> "updateStatus"

FirstStep(v, list) ==
    CASE ~v.set.exists -> "idle"
      [] v.set.exists /\ v.set.del /\ ~v.set.fin -> "idle"
      [] v.set.exists /\ v.set.del /\ v.set.fin -> CleanupStep(list)
      [] v.set.exists /\ ~v.set.del /\ ~v.set.fin -> "addFinalizer"
      [] v.set.exists /\ ~v.set.del /\ v.set.fin /\ v.set.status.phase = "Outdated" -> "idle"
      [] OTHER -> ScaleStep(v, list)

(* deleteIdleEphemeralRunners passes over runners without an id or with a job. *)
PassOverJobs(e) == e.job

PassOver(e) == ~e.rid \/ e.job

(* Which of the listed runners the loops of a step go through. *)
Concerns(step, e) ==
    \/ step = "removeIdle" /\ e.st \in {"pending", "running"} /\ ~PassOver(e)
    \/ step = "deleteTerminated" /\ e.st \notin {"none", "deleting"}

StartReconcile ==
    /\ pc = "idle"
    /\ queued
    /\ queued' = FALSE
    /\ LET v == setCache
           list == runnerCache
           step == FirstStep(v, list)
           scales == step \in {"create", "removeIdle", "updateStatus"}
       IN  /\ pc' = step
           /\ lPatchID' = IF step = "create" THEN v.spec.patchID ELSE 0
           /\ lStatus' = IF scales /\ DesiredStatus(v, list) # v.set.status
                         THEN DesiredStatus(v, list) ELSE NoStatus
           /\ lList' = [r \in Runners |-> IF Concerns(step, list[r])
                                          THEN [list[r] EXCEPT !.patch = 0] ELSE NoRunner]
           /\ count' = CASE step = "create" -> v.spec.replicas - ScaleTotal(list)
                         [] step = "removeIdle" -> ScaleTotal(list) - v.spec.replicas
                         [] OTHER -> 0
    /\ UNCHANGED <<scalerVars, apiVars, cacheVars, victim, errs, svc, jobVars, msgVars, trouble>>

(* A patch of a set that is gone fails; removing the finalizer then is fine.  *)
(* The API server deletes a marked set with its finalizer.                    *)
AddFinalizer ==
    /\ pc = "addFinalizer"
    /\ set' = IF set.exists THEN [set EXCEPT !.fin = TRUE] ELSE set
    /\ Return
    /\ UNCHANGED <<scalerVars, spec, runner, svc, jobVars, msgVars, trouble>>
    /\ Settle(~set.exists)

DropFinalizer ==
    /\ pc = "dropFinalizer"
    /\ set' = IF set.del THEN NoSet ELSE set
    /\ Return
    /\ UNCHANGED <<scalerVars, spec, runner, svc, jobVars, msgVars, trouble>>
    /\ Settle(FALSE)

(* createEphemeralRunners: one runner; a failed call does not end the loop.   *)
(* A name is free once nothing knows of its last bearer any more.             *)
Free(r) ==
    /\ runner[r] = NoRunner /\ runnerCache[r] = NoRunner /\ lList[r] = NoRunner
    /\ svc[r] = "none" /\ r \notin started

CreateRunner ==
    /\ pc = "create" /\ count > 0
    /\ \E r \in Runners :
          /\ Free(r)
          /\ runner' = [runner EXCEPT ![r].st = "pending", ![r].patch = lPatchID]
    /\ count' = count - 1
    /\ UNCHANGED <<scalerVars, spec, set, pc, lPatchID, lStatus, lList,
                   victim, errs, svc, jobVars, msgVars, trouble>>
    /\ Settle(FALSE)

(* The loop over the pending and then the running runners, of scaling down    *)
(* until enough are deleted and of the cleanup; its runners in order.         *)
Removing == pc = "removeAll" \/ (pc = "removeIdle" /\ count > 0)

NextInLine == IF Pending(lList) # {} THEN Pending(lList) ELSE Running(lList)

Handled(r) == lList' = [lList EXCEPT ![r] = NoRunner]

(* deleteEphemeralRunnerWithActionsClient: RemoveRunner refuses a runner that *)
(* has a job, and does nothing with the id 0 of a runner without one; the     *)
(* Delete follows. Scaling down counts it, tearing down does not.             *)
RemoveRunner ==
    /\ Removing
    /\ pc' = IF pc = "removeIdle" THEN "deleteIdle" ELSE "deleteAll"
    /\ \E r \in NextInLine :
          /\ ~(lList[r].rid /\ svc[r] = "busy")
          /\ svc' = IF lList[r].rid THEN [svc EXCEPT ![r] = "none"] ELSE svc
          /\ victim' = {r}
          /\ Handled(r)
    /\ UNCHANGED <<scalerVars, apiVars, lPatchID, lStatus, count, errs,
                   jobVars, msgVars, trouble>>
    /\ Settle(FALSE)

JobStillRunning ==
    /\ Removing
    /\ \E r \in NextInLine :
          /\ lList[r].rid /\ svc[r] = "busy"
          /\ Handled(r)
    /\ UNCHANGED <<scalerVars, apiVars, pc, lPatchID, lStatus, count, victim,
                   errs, svc, jobVars, msgVars, trouble>>
    /\ Settle(FALSE)

(* r.Delete; a runner that is gone (NotFound) is no error. *)
Deleted(r) ==
    IF runner[r].st = "none" THEN runner ELSE [runner EXCEPT ![r].st = "deleting"]

DeleteRunner ==
    /\ \/ pc = "deleteIdle" /\ pc' = "removeIdle" /\ count' = count - 1
       \/ pc = "deleteAll" /\ pc' = "removeAll" /\ UNCHANGED count
    /\ \E r \in victim : runner' = Deleted(r)
    /\ victim' = {}
    /\ UNCHANGED <<scalerVars, spec, set, lPatchID, lStatus, lList, errs,
                   svc, jobVars, msgVars, trouble>>
    /\ Settle(FALSE)

(* cleanUpEphemeralRunners deletes the failed and the outdated runners first. *)
DeleteTerminated ==
    /\ pc = "deleteTerminated"
    /\ \E r \in Terminated(lList) : runner' = Deleted(r) /\ Handled(r)
    /\ UNCHANGED <<scalerVars, spec, set, pc, lPatchID, lStatus, count, victim, errs,
                   svc, jobVars, msgVars, trouble>>
    /\ Settle(FALSE)

(* A loop ends: with its errors, with the status still to update, or with the *)
(* next loop of the cleanup.                                                  *)
LoopDone ==
    \/ pc = "create" /\ count = 0
    \/ pc = "removeIdle" /\ (count = 0 \/ lList = NoList)
    \/ pc = "deleteTerminated" /\ Terminated(lList) = {}
    \/ pc = "removeAll" /\ lList = NoList

EndLoop ==
    /\ LoopDone
    /\ CASE errs -> Return
         [] ~errs /\ pc \in {"create", "removeIdle"} ->
               /\ pc' = "updateStatus"
               /\ lPatchID' = 0 /\ lList' = NoList /\ count' = 0
               /\ UNCHANGED <<lStatus, victim, errs>>
         [] ~errs /\ pc = "deleteTerminated" /\ lList # NoList ->
               /\ pc' = "removeAll"
               /\ UNCHANGED localVars
         [] OTHER -> Return
    /\ UNCHANGED <<scalerVars, apiVars, svc, jobVars, msgVars, trouble>>
    /\ Settle(errs)

(* updateStatus: the status goes out if it was news to Reconcile's copy. *)
UpdateStatus ==
    /\ pc = "updateStatus"
    /\ set' = IF set.exists /\ lStatus # NoStatus THEN [set EXCEPT !.status = lStatus] ELSE set
    /\ Return
    /\ UNCHANGED <<scalerVars, spec, runner, svc, jobVars, msgVars, trouble>>
    /\ Settle(~set.exists /\ lStatus # NoStatus)

(* A call fails: Reconcile returns the error, or remembers it and goes on     *)
(* with the loop.                                                             *)
CallFails ==
    /\ trouble < MaxTrouble
    /\ trouble' = trouble + 1
    /\ \/ pc \in {"addFinalizer", "updateStatus", "dropFinalizer"} /\ Return
       \/ /\ pc = "create" /\ count > 0
          /\ count' = count - 1 /\ errs' = TRUE
          /\ UNCHANGED <<pc, lPatchID, lStatus, lList, victim>>
       \/ /\ \/ pc = "deleteTerminated" /\ \E r \in Terminated(lList) : Handled(r)
             \/ Removing /\ \E r \in NextInLine : Handled(r)
          /\ errs' = TRUE
          /\ UNCHANGED <<pc, lPatchID, lStatus, count, victim>>
       \/ /\ pc \in {"deleteIdle", "deleteAll"}
          /\ pc' = IF pc = "deleteIdle" THEN "removeIdle" ELSE "removeAll"
          /\ victim' = {} /\ errs' = TRUE
          /\ UNCHANGED <<lPatchID, lStatus, lList, count>>
    /\ UNCHANGED <<scalerVars, apiVars, svc, jobVars, msgVars>>
    /\ Settle(pc' = "idle")

(* The controller stops between two calls; the next one lists everything. *)
ControllerRestarts ==
    /\ trouble < MaxTrouble
    /\ trouble' = trouble + 1
    /\ setCache' = View
    /\ runnerCache' = runner
    /\ Return
    /\ queued' = TRUE
    /\ UNCHANGED <<scalerVars, apiVars, svc, jobVars, msgVars>>

Reconcile ==
    \/ StartReconcile \/ AddFinalizer \/ CreateRunner \/ RemoveRunner
    \/ JobStillRunning \/ DeleteRunner \/ DeleteTerminated \/ EndLoop \/ UpdateStatus
    \/ DropFinalizer
-----------------------------------------------------------------------------
(***************************************************************************)
(* Watches: For(EphemeralRunnerSet), Owns(EphemeralRunner).                 *)
(***************************************************************************)
WatchSet ==
    /\ setCache # View
    /\ setCache' = View
    /\ queued' = TRUE
    /\ UNCHANGED <<scalerVars, apiVars, runnerCache, pc, localVars, svc, jobVars, msgVars, trouble>>

WatchRunners ==
    /\ \E r \in Runners :
          /\ runnerCache[r] # runner[r]
          /\ runnerCache' = [runnerCache EXCEPT ![r] = runner[r]]
    /\ queued' = TRUE
    /\ UNCHANGED <<scalerVars, apiVars, setCache, pc, localVars, svc, jobVars, msgVars, trouble>>
-----------------------------------------------------------------------------
(***************************************************************************)
(* The listener.                                                           *)
(***************************************************************************)
ctrlVars == <<pc, localVars>>

(* A message: new statistics, and the completed jobs HandleJobCompleted is    *)
(* called for.                                                                *)
GetMessage ==
    /\ listening /\ (stat # jobs \/ completed)
    /\ stat' = jobs
    /\ completed' = FALSE
    /\ IF completed THEN HandleJobEvent ELSE UNCHANGED <<scalerVars, spec>>
    /\ UNCHANGED <<set, runner, ctrlVars, svc, jobVars, listening, started, trouble>>
    /\ Settle(FALSE)

(* Every poll, with or without a message, ends in a patch. *)
Poll ==
    /\ listening /\ set.exists
    /\ HandleDesiredRunnerCount(stat)
    /\ UNCHANGED <<set, runner, ctrlVars, svc, jobVars, msgVars, trouble>>
    /\ Settle(FALSE)

HandleJobStarted ==
    /\ listening
    /\ \E r \in started :
          /\ started' = started \ {r}
          /\ runner' = IF runner[r].st = "none" THEN runner ELSE [runner EXCEPT ![r].job = TRUE]
    /\ HandleJobEvent
    /\ UNCHANGED <<set, ctrlVars, svc, jobVars, listening, stat, completed, trouble>>
    /\ Settle(FALSE)

(* The listener is restarted; the messages it held may be lost. *)
RestartListener ==
    /\ listening
    /\ trouble < MaxTrouble
    /\ trouble' = trouble + 1
    /\ ListenerRestarts
    /\ started' \in {started, {}}
    /\ UNCHANGED <<set, runner, ctrlVars, svc, jobVars, listening, stat, completed>>
    /\ Settle(FALSE)

(* The AutoscalingRunnerSet controller deletes the listener; then it drains   *)
(* the set when its template changed, or deletes it.                          *)
DeleteListener ==
    /\ listening
    /\ listening' = FALSE
    /\ ListenerRestarts
    /\ stat' = 0 /\ started' = {} /\ completed' = FALSE
    /\ UNCHANGED <<set, runner, ctrlVars, svc, jobVars, trouble>>
    /\ Settle(FALSE)

DrainSet ==
    /\ ~listening /\ set.exists
    /\ DrainRunnerSet
    /\ UNCHANGED <<set, runner, ctrlVars, svc, jobVars, msgVars, trouble>>
    /\ Settle(FALSE)

DeleteSet ==
    /\ ~listening /\ set.exists /\ ~set.del
    /\ set' = IF set.fin THEN [set EXCEPT !.del = TRUE] ELSE NoSet
    /\ UNCHANGED <<scalerVars, spec, runner, ctrlVars, svc, jobVars, msgVars, trouble>>
    /\ Settle(FALSE)
-----------------------------------------------------------------------------
(***************************************************************************)
(* The runners, as their own controller drives them, and their jobs.       *)
(***************************************************************************)
Live(r) == runner[r].st \in {"pending", "running"}

Busy == {r \in Runners : svc[r] = "busy"}

RunnerRegisters ==
    /\ \E r \in Runners :
          /\ runner[r].st = "pending" /\ ~runner[r].rid /\ svc[r] = "none"
          /\ svc' = [svc EXCEPT ![r] = "idle"]
    /\ UNCHANGED <<scalerVars, apiVars, ctrlVars, jobVars, msgVars, trouble>>
    /\ Settle(FALSE)

(* The id reaches the status, then the phase follows the pod's. *)
RunnerProgresses ==
    /\ \E r \in Runners :
          \/ /\ runner[r].st = "pending" /\ ~runner[r].rid /\ svc[r] # "none"
             /\ runner' = [runner EXCEPT ![r].rid = TRUE]
          \/ /\ runner[r].st = "pending" /\ runner[r].rid
             /\ runner' = [runner EXCEPT ![r].st = "running"]
    /\ UNCHANGED <<scalerVars, spec, set, ctrlVars, svc, jobVars, msgVars, trouble>>
    /\ Settle(FALSE)

(* A runner whose registration is gone (its job is done, or the controller    *)
(* removed it and then stopped) is deleted by its own controller.             *)
RunnerEnds ==
    /\ \E r \in Runners :
          /\ Live(r) /\ runner[r].rid /\ svc[r] = "none"
          /\ runner' = [runner EXCEPT ![r].st = "deleting"]
    /\ UNCHANGED <<scalerVars, spec, set, ctrlVars, svc, jobVars, msgVars, trouble>>
    /\ Settle(FALSE)

(* A runner with a deletion timestamp waits for its job, leaves the service   *)
(* and is gone.                                                               *)
RunnerGone ==
    /\ \E r \in Runners :
          /\ runner[r].st = "deleting" /\ svc[r] # "busy"
          /\ runner' = [runner EXCEPT ![r] = NoRunner]
          /\ svc' = [svc EXCEPT ![r] = "none"]
    /\ UNCHANGED <<scalerVars, spec, set, ctrlVars, jobVars, msgVars, trouble>>
    /\ Settle(FALSE)

(* A runner whose pod is refused is marked Failed, one whose version the      *)
(* service refuses Outdated; both leave the service.                          *)
RunnerIsMarked ==
    /\ trouble < MaxTrouble
    /\ trouble' = trouble + 1
    /\ \E r \in Runners, st \in {"failed", "outdated"} :
          /\ Live(r) /\ runner[r].rid /\ svc[r] = "idle"
          /\ st = "failed" => runner[r].st = "pending"
          /\ runner' = [runner EXCEPT ![r].st = st]
          /\ svc' = [svc EXCEPT ![r] = "none"]
    /\ UNCHANGED <<scalerVars, spec, set, ctrlVars, jobVars, msgVars>>
    /\ Settle(FALSE)

(* The garbage collector follows the owner references of a set that is gone. *)
CollectGarbage ==
    /\ ~set.exists
    /\ \E r \in Listed(runner) :
          /\ runner[r].st # "deleting"
          /\ runner' = [runner EXCEPT ![r].st = "deleting"]
    /\ UNCHANGED <<scalerVars, spec, set, ctrlVars, svc, jobVars, msgVars, trouble>>
    /\ Settle(FALSE)

JobQueued ==
    /\ arrived < MaxJobs
    /\ arrived' = arrived + 1
    /\ jobs' = jobs + 1
    /\ UNCHANGED <<scalerVars, apiVars, ctrlVars, svc, msgVars, trouble>>
    /\ Settle(FALSE)

(* The service gives a job to a runner whose pod is up, whatever its status   *)
(* says by then.                                                              *)
JobAssigned ==
    /\ Cardinality(Busy) < jobs
    /\ \E r \in Runners :
          /\ Live(r) \/ runner[r].st = "deleting"
          /\ runner[r].rid /\ svc[r] = "idle"
          /\ svc' = [svc EXCEPT ![r] = "busy"]
          /\ started' = IF listening THEN started \cup {r} ELSE {}
    /\ UNCHANGED <<scalerVars, apiVars, ctrlVars, jobVars, listening, stat, completed, trouble>>
    /\ Settle(FALSE)

(* A job that waits for a runner is cancelled. *)
JobCancelled ==
    /\ Cardinality(Busy) < jobs
    /\ jobs' = jobs - 1
    /\ completed' = listening
    /\ UNCHANGED <<scalerVars, apiVars, ctrlVars, svc, arrived, listening, stat, started, trouble>>
    /\ Settle(FALSE)

JobEnds ==
    /\ \E r \in Busy : svc' = [svc EXCEPT ![r] = "none"]
    /\ jobs' = jobs - 1
    /\ completed' = listening
    /\ UNCHANGED <<scalerVars, apiVars, ctrlVars, arrived, listening, stat, started, trouble>>
    /\ Settle(FALSE)
-----------------------------------------------------------------------------
Troubles == CallFails \/ ControllerRestarts \/ RestartListener \/ RunnerIsMarked

Watches == WatchSet \/ WatchRunners

Listener ==
    GetMessage \/ Poll \/ HandleJobStarted

Owner == DeleteListener \/ DrainSet \/ DeleteSet

RunnersAndJobs ==
    \/ RunnerRegisters \/ RunnerProgresses \/ RunnerEnds \/ RunnerGone \/ CollectGarbage
    \/ JobQueued \/ JobAssigned \/ JobCancelled \/ JobEnds

Next == Reconcile \/ Troubles \/ Watches \/ Listener \/ Owner \/ RunnersAndJobs

Spec == Init /\ [][Next]_vars

(***************************************************************************)
(* Fairness: the work queue runs Reconcile, the watches deliver, the        *)
(* listener polls and handles its messages, the runners make progress, the  *)
(* service gives its jobs to idle runners and jobs end. Neither jobs nor    *)
(* troubles nor the owner have to come.                                     *)
(***************************************************************************)
Fairness ==
    /\ WF_vars(Reconcile)
    /\ WF_vars(WatchSet) /\ WF_vars(WatchRunners)
    /\ WF_vars(GetMessage) /\ WF_vars(Poll)
    /\ WF_vars(HandleJobStarted)
    /\ WF_vars(RunnerRegisters) /\ WF_vars(RunnerProgresses)
    /\ WF_vars(RunnerEnds) /\ WF_vars(RunnerGone)
    /\ WF_vars(JobAssigned) /\ WF_vars(JobEnds)

FairSpec == Spec /\ Fairness
-----------------------------------------------------------------------------
(* Every variable holds a value of its kind. *)
TypeOK ==
    /\ ScalerTypeOK
    /\ runner \in [Runners -> RunnerRec]
    /\ runnerCache \in [Runners -> RunnerRec]
    /\ lList \in [Runners -> RunnerRec]
    /\ pc \in Steps
    /\ victim \subseteq Runners
    /\ lPatchID \in 0..MaxSeq
    /\ count \in 0..(MaxRunners + Cardinality(Runners))
    /\ svc \in [Runners -> {"none", "idle", "busy"}]
    /\ jobs \in 0..MaxJobs /\ stat \in 0..MaxJobs /\ arrived \in 0..MaxJobs
    /\ started \subseteq Runners
    /\ trouble \in 0..MaxTrouble

Standing == Cardinality({r \in Runners : runner[r].st \in {"pending", "running", "failed"}})
Failed == Cardinality({r \in Runners : runner[r].st = "failed"})

(* Safety: with prompt watches there are never more runners than maxRunners    *)
(* that are not on their way out, although each patch is acted on by a         *)
(* Reconcile that creates runners one by one, may fail halfway and is run      *)
(* again.                                                                      *)
MaxRunnersRespected == Standing <= MaxRunners

(* Action property: scaling down never takes a runner that has a job, whatever *)
(* the copy in the list says of it: jobs start and ids appear after the list   *)
(* was read.                                                                   *)
ScaleDownSparesJobs ==
    [][\A r \in Runners :
          set.exists /\ ~set.del /\ svc[r] = "busy" /\ Live(r) => runner'[r].st # "deleting"]_vars

(* Safety: the finalizer keeps the EphemeralRunnerSet until its last runner is *)
(* gone, so that runners are removed from the service by their controller and  *)
(* not orphaned.                                                               *)
NoOrphans == ~set.exists => Listed(runner) = {}

(* Finitely many jobs and troubles come, so liveness is told of the end. A set  *)
(* that was deleted is gone then, woken by nothing but the events of its       *)
(* runners. Otherwise every job that is assigned to the scale set is done, and  *)
(* the runners that were created for them are gone but for minRunners, or as    *)
(* many as failed; unless the listener goes away, the set becomes outdated or  *)
(* failed runners take all the places. Restarts, lost messages, patchIDs that   *)
(* wrap or repeat the ones of an earlier listener do not prevent it.           *)
JobsGetDone ==
    IF jobs = 0 THEN Standing = Max({MinRunners, Failed})
                ELSE Failed >= MaxRunners \/ Failed >= MinRunners + jobs
Settles ==
    <>[](/\ set.del => ~set.exists
         /\ listening /\ In(runner, {"outdated"}) = {} => JobsGetDone)
=============================================================================
