----------------------------- MODULE LegacyRunner ---------------------------
(***************************************************************************)
(* One Runner of the legacy controllers (actions.summerwind.net), its pod    *)
(* and its registration at GitHub: the Runner controller creates the pod,    *)
(* the runner pod controller unregisters the runner before the pod goes      *)
(* (tickRunnerGracefulStop), and the owner asks for that with an annotation. *)
(*                                                                         *)
(* A reconcile of the pod controller takes its pod from the cache once       *)
(* (view) and works on that copy: each call it makes is a step, and what     *)
(* happens to the pod in between it does not see. Pods run once              *)
(* (restartPolicy Never), so a container that stopped stays stopped.         *)
(***************************************************************************)
EXTENDS Naturals

CONSTANTS
    Kubernetes,   \* container mode kubernetes: RBAC objects and runner-linked pods and secrets
    Kinds,        \* whether runners take one job only: {TRUE}, {FALSE} or both
    Lags,         \* whether the controllers' cache may lag behind: as Kinds
    MaxFaults,    \* bound: failed calls
    MaxTrouble    \* bound: crashes of the container and deletions by a user

ASSUME LegacyRunnerAssumption ==
    {Kubernetes} \cup Kinds \cup Lags \subseteq BOOLEAN /\ {MaxFaults, MaxTrouble} \subseteq Nat

VARIABLES
    ephemeral,  \* the runner takes one job only
    lag,        \* the cache of Runners and of linked resources may lag behind
    runner,     \* the Runner
    seen,       \* its state in the cache of both controllers
    rbac,       \* how many of service account, role and role binding exist
    own,        \* the owner's annotations on the Runner
    pod,        \* the pod
    linked,     \* pods and secrets of the pod's job exist that nobody asked to delete
    gh, listed, \* the registration, and whether the cached list of runners shows it
    saved,      \* dependents of the saved GitHub client
    ppc, view,  \* the pod controller's next step and its copy of the pod
    guarded,    \* history: the Runner had a pod with a finalizer
    forced,     \* history: the stop was forced, or given up as out of ARC's hands
    crashed,    \* history: the container stopped on its own account
    killed,     \* history: a job was cut short
    stray,      \* history: a job made what the list of linked resources did not show
    unmarked,   \* history: a reconcile went on without having read the Runner
    faults, trouble

runVars == <<ephemeral, lag, runner, seen, rbac, own>>
podVars == <<pod, linked>>
ghVars == <<gh, listed>>
history == <<guarded, forced, crashed, killed, stray, unmarked>>
vars == <<ephemeral, lag, runner, seen, rbac, own, pod, linked, gh, listed, saved, ppc, view,
          guarded, forced, crashed, killed, stray, unmarked, faults, trouble>>

(* unscheduled: Pending without container statuses, pending: with them; stopped: *)
(* Succeeded, Failed, or the runner container has terminated. The                *)
(* annotations: id (runner id), req, start and complete (of the unregistration) *)
(* and wait (for the completion of a job).                                      *)
NoPod == [phase |-> "none", del |-> FALSE, fin |-> FALSE, lfin |-> FALSE, late |-> FALSE, id |-> FALSE,
          req |-> FALSE, start |-> FALSE, complete |-> FALSE, wait |-> FALSE]

(* newPod: the pod has the annotations of its Runner. What the containers are    *)
(* does not matter here, that they are not restarted does.                      *)
NewPod == [NoPod EXCEPT !.phase = "unscheduled", !.req = (own # "none"), !.complete = (own = "completed")]

(* runnerPodOrContainerIsStopped, podIsPending *)
Stopped(p) == p.phase = "stopped" \/ (p.phase = "unscheduled" /\ p.del)
Pending(p) == p.phase \in {"unscheduled", "pending"}

Registered == gh \in {"idle", "busy", "ghost"}
Exists == pod.phase # "none"

Init ==
    /\ ephemeral \in Kinds /\ lag \in Lags
    /\ runner = [st |-> "live", fin |-> FALSE, token |-> FALSE, synced |-> FALSE]
    /\ seen = "live" /\ rbac = 0 /\ own = "none"
    /\ pod = NoPod /\ linked = FALSE
    /\ gh = "never" /\ listed = FALSE
    /\ saved = {}
    /\ ppc = "idle" /\ view = NoPod
    /\ guarded = FALSE /\ forced = FALSE /\ crashed = FALSE /\ killed = FALSE
    /\ stray = FALSE /\ unmarked = FALSE
    /\ faults = 0 /\ trouble = 0

Fault == faults < MaxFaults /\ faults' = faults + 1
Trouble == trouble < MaxTrouble /\ trouble' = trouble + 1

(* MultiGitHubClient: initClientWithSecretName, derefClient *)
InitClient(d) == saved' = saved \cup {d}
DerefClient(d) == saved' = saved \ {d}

SetRunner(r) == runner' = r /\ seen' = IF lag THEN seen ELSE r.st
-----------------------------------------------------------------------------
(***************************************************************************)
(* The Runner controller                                                    *)
(***************************************************************************)

AddFinalizer ==
    /\ seen = "live" /\ runner.st = "live" /\ ~runner.fin
    /\ SetRunner([runner EXCEPT !.fin = TRUE])
    /\ UNCHANGED <<ephemeral, lag, rbac, own, podVars, ghVars, saved, ppc, view, history, faults, trouble>>

(* IsRegisterable and updateRegistrationToken, which needs the saved client. *)
UpdateToken ==
    /\ seen = "live" /\ runner.st # "none" /\ runner.fin /\ ~Exists /\ ~runner.token
    /\ \/ runner' = [runner EXCEPT !.token = TRUE] /\ UNCHANGED faults
       \/ Fault /\ UNCHANGED runner
    /\ InitClient("runner")
    /\ UNCHANGED <<ephemeral, lag, seen, rbac, own, podVars, ghVars, ppc, view, history, trouble>>

(* createObject for service account, role and role binding, in this order; one  *)
(* that exists is used.                                                         *)
CreateRbac ==
    /\ seen = "live" /\ runner.st # "none" /\ runner.token /\ ~Exists
    /\ Kubernetes /\ rbac < 3
    /\ rbac' = rbac + 1
    /\ UNCHANGED <<ephemeral, lag, runner, seen, own, podVars, ghVars, saved, ppc, view, history, faults, trouble>>

(* The pod and its admission. A pod made with a stale copy of a Runner that is   *)
(* gone has no owner, and is collected at once: it is left out.                 *)
CreatePod ==
    /\ seen = "live" /\ runner.token /\ ~Exists
    /\ Kubernetes => rbac = 3
    /\ runner.st # "none"
    /\ pod' = NewPod
    /\ gh' = IF Registered THEN gh ELSE "never"
    /\ InitClient("runner")
    /\ UNCHANGED <<runVars, linked, listed, ppc, view, history, faults, trouble>>

UpdateStatus ==
    /\ seen = "live" /\ runner.st # "none" /\ runner.fin /\ Exists /\ ~runner.synced
    /\ runner' = [runner EXCEPT !.synced = TRUE]
    /\ UNCHANGED <<ephemeral, lag, seen, rbac, own, podVars, ghVars, saved, ppc, view, history, faults, trouble>>

(* processRunnerDeletion: the finalizer goes without waiting for the pod. The   *)
(* saved client is given up only if there is a pod.                             *)
ReleaseRunner ==
    /\ seen = "deleting" /\ runner.st = "deleting"
    /\ SetRunner([runner EXCEPT !.st = "none", !.fin = FALSE])
    /\ IF Exists THEN DerefClient("runner") ELSE UNCHANGED saved
    /\ UNCHANGED <<ephemeral, lag, rbac, own, podVars, ghVars, ppc, view, history, faults, trouble>>

RunnerCacheSyncs ==
    /\ seen # runner.st
    /\ seen' = runner.st
    /\ UNCHANGED <<ephemeral, lag, runner, rbac, own, podVars, ghVars, saved, ppc, view, history, faults, trouble>>

RunnerController ==
    AddFinalizer \/ UpdateToken \/ CreateRbac \/ CreatePod \/ UpdateStatus \/ ReleaseRunner \/ RunnerCacheSyncs
-----------------------------------------------------------------------------
(***************************************************************************)
(* The owner (RunnerReplicaSet), as far as this Runner is concerned          *)
(***************************************************************************)

Delete(st) == IF st = "live" THEN (IF runner.fin THEN "deleting" ELSE "none") ELSE st

(* Scale-down: the pod is annotated, then the Runner. *)
OwnerRequests ==
    /\ runner.st = "live" /\ runner.synced /\ own = "none"
    /\ own' = "requested"
    /\ pod' = IF Exists THEN [pod EXCEPT !.req = TRUE] ELSE pod
    /\ UNCHANGED <<ephemeral, lag, runner, seen, rbac, linked, ghVars, saved, ppc, view, history, faults, trouble>>

OwnerCompletes ==
    /\ runner.st = "live" /\ own = "requested"
    /\ ~Exists \/ pod.complete \/ pod.del
    /\ own' = "completed"
    /\ UNCHANGED <<ephemeral, lag, runner, seen, rbac, podVars, ghVars, saved, ppc, view, history, faults, trouble>>

(* The Runner is deleted once it is marked complete, or when its pod stopped. *)
OwnerDeletes ==
    /\ runner.st = "live"
    /\ own = "completed" \/ Stopped(pod)
    /\ SetRunner([runner EXCEPT !.st = Delete(runner.st)])
    /\ UNCHANGED <<ephemeral, lag, rbac, own, podVars, ghVars, saved, ppc, view, history, faults, trouble>>

Owner == OwnerCompletes \/ OwnerDeletes
-----------------------------------------------------------------------------
(***************************************************************************)
(* The runner pod controller                                                *)
(***************************************************************************)

(* Reconcile: which of its parts the copy of the pod leads to. Each reconcile   *)
(* takes the saved client for the pod.                                          *)
ReadPod ==
    /\ ppc = "idle" /\ Exists
    /\ view' = pod
    /\ ppc' = IF ~pod.del THEN IF ~pod.fin \/ (Kubernetes /\ ~pod.lfin) THEN "finalizers" ELSE "register"
              ELSE "mark"
    /\ InitClient("pod")
    /\ UNCHANGED <<runVars, podVars, ghVars, history, faults, trouble>>

Done == ppc' = "idle" /\ view' = NoPod
Go(step, p) == ppc' = step /\ view' = p

(* A patch changes the pod and the copy; one that fails ends the reconcile.     *)
Patch(step, field, value) ==
    \/ /\ Exists
       /\ pod' = [pod EXCEPT ![field] = value]
       /\ Go(step, [view EXCEPT ![field] = value]) /\ UNCHANGED faults
    \/ ~Exists /\ Done /\ UNCHANGED <<pod, faults>>
    \/ Fault /\ Done /\ UNCHANGED pod

PodStep(step) ==
    /\ ppc = step
    /\ UNCHANGED <<ephemeral, lag, rbac, own, crashed, trouble>>

Unmarred == UNCHANGED <<killed, stray, unmarked>>

(* A pod that is being deleted takes no new finalizers. *)
AddPodFinalizers ==
    /\ PodStep("finalizers")
    /\ Done
    /\ pod' = IF Exists /\ ~pod.del THEN [pod EXCEPT !.fin = TRUE, !.lfin = Kubernetes] ELSE pod
    /\ guarded' = (guarded \/ pod'.fin)
    /\ Unmarred
    /\ UNCHANGED <<runner, seen, linked, ghVars, saved, forced, faults>>

AfterMark(v) == IF v.lfin THEN "linked" ELSE IF v.fin THEN "start" ELSE "force"

MarkNothing ==
    /\ PodStep("mark")
    /\ Go(AfterMark(view), view)
    /\ Unmarred
    /\ UNCHANGED <<runner, seen, podVars, ghVars, saved, guarded, forced, faults>>

(* A pod that was deleted directly takes its Runner with it, as the cache shows  *)
(* it: one that is gone in fact is not found. A Runner that cannot be read is    *)
(* left alone.                                                                  *)
MarkRunner ==
    /\ PodStep("mark")
    /\ \/ /\ seen = "live" /\ runner.st # "none"
          /\ SetRunner([runner EXCEPT !.st = Delete(runner.st)])
          /\ Go(AfterMark(view), view) /\ UNCHANGED <<unmarked, faults>>
       \/ seen = "live" /\ runner.st = "none" /\ Done /\ UNCHANGED <<runner, seen, unmarked, faults>>
       \/ seen # "live" /\ Go(AfterMark(view), view) /\ UNCHANGED <<runner, seen, unmarked, faults>>
       \/ seen = "live" /\ Fault /\ Done /\ UNCHANGED <<runner, seen, unmarked>>
       \/ Fault /\ Go(AfterMark(view), view) /\ unmarked' = TRUE /\ UNCHANGED <<runner, seen>>
    /\ UNCHANGED <<podVars, ghVars, saved, guarded, forced, killed, stray>>

ListLinkedAnyway ==
    /\ PodStep("linked")
    /\ \/ linked' = FALSE /\ UNCHANGED faults
       \/ Fault /\ UNCHANGED linked
    /\ Go("unlink", view)
    /\ UNCHANGED <<runner, seen, pod, ghVars, saved, guarded, forced, killed, stray, unmarked>>

(* cleanupRunnerLinkedPods and cleanupRunnerLinkedSecrets: the deletion of what   *)
(* the cache lists is asked for, once and without waiting for it. A job that      *)
(* still runs is cut short by it. Of several calls some may fail.                *)
ListLinked ==
    /\ PodStep("linked")
    /\ \/ /\ linked' = FALSE
          /\ killed' = (killed \/ (linked /\ gh = "busy"))
          /\ Go("unlink", view) /\ UNCHANGED <<stray, faults>>
       \/ /\ lag /\ linked
          /\ stray' = TRUE
          /\ Go("unlink", view) /\ UNCHANGED <<linked, killed, faults>>
       \/ /\ Fault
          /\ killed' \in {killed, killed \/ (linked /\ gh = "busy")}
          /\ Done /\ UNCHANGED <<linked, stray>>
    /\ UNCHANGED <<runner, seen, pod, ghVars, saved, guarded, forced, unmarked>>

(* Then the finalizer goes, whatever has been made meanwhile. *)
Unlink ==
    /\ PodStep("unlink")
    /\ Patch(AfterMark([view EXCEPT !.lfin = FALSE]), "lfin", FALSE)
    /\ Unmarred
    /\ UNCHANGED <<runner, seen, linked, ghVars, saved, guarded, forced>>

AfterRegister(v) == IF v.req THEN "start" ELSE "idle"

(* ensureRunnerPodRegistered, then whether the unregistration was asked for *)
AnnotateID ==
    /\ PodStep("register")
    /\ IF view.id \/ Stopped(view) THEN
          /\ Go(AfterRegister(view), IF view.req THEN view ELSE NoPod)
          /\ UNCHANGED <<pod, faults>>
       ELSE IF listed THEN Patch(AfterRegister(view), "id", TRUE)
       ELSE Done /\ UNCHANGED <<pod, faults>>
    /\ Unmarred
    /\ UNCHANGED <<runner, seen, linked, ghVars, saved, guarded, forced>>

AnnotateStart ==
    /\ PodStep("start")
    /\ IF view.start THEN Go("ensure", view) /\ UNCHANGED <<pod, faults>>
       ELSE Patch("ensure", "start", TRUE)
    /\ Unmarred
    /\ UNCHANGED <<runner, seen, linked, ghVars, saved, guarded, forced>>

KnowsID == view.id \/ listed

NothingToDoUnlessWaiting ==
    /\ PodStep("ensure")
    /\ view.complete \/ (Stopped(view) /\ ~view.wait)
    /\ Go("complete", view)
    /\ Unmarred
    /\ UNCHANGED <<runner, seen, podVars, ghVars, saved, guarded, forced, faults>>

(* ensureRunnerUnregistration, without a call: nothing is left to be done. *)
NothingToDo ==
    /\ PodStep("ensure")
    /\ view.complete \/ Stopped(view)
    /\ Go("complete", view)
    /\ Unmarred
    /\ UNCHANGED <<runner, seen, podVars, ghVars, saved, guarded, forced, faults>>

(* Without an ID it gives up on a pod that is pending or late, and waits        *)
(* otherwise.                                                                   *)
GiveUpOnRegistration ==
    /\ PodStep("ensure")
    /\ ~view.complete /\ ~Stopped(view) /\ ~KnowsID
    /\ IF Pending(view) \/ view.late THEN Go("complete", view) /\ forced' = TRUE
       ELSE Done /\ UNCHANGED forced
    /\ Unmarred
    /\ UNCHANGED <<runner, seen, podVars, ghVars, saved, guarded, faults>>

MustUnregister == ~view.complete /\ ~Stopped(view) /\ KnowsID

WaitForCompletion ==
    /\ PodStep("ensure")
    /\ MustUnregister /\ view.wait
    /\ Done
    /\ Unmarred
    /\ UNCHANGED <<runner, seen, podVars, ghVars, saved, guarded, forced, faults>>

UnregisterBusyToo ==
    /\ PodStep("ensure")
    /\ MustUnregister /\ ~view.wait
    /\ gh' = IF gh = "busy" THEN "busy" ELSE "none"
    /\ Go("complete", view)
    /\ Unmarred
    /\ UNCHANGED <<runner, seen, podVars, listed, saved, guarded, forced, faults>>

Removable == gh \in {"idle", "ghost"}

(* RemoveRunner answers 204, 422 for a busy runner, 404 or 403. A busy          *)
(* ephemeral runner is marked to be waited for; 404 is an error like any other, *)
(* and 403 is taken for the end of ARC's part.                                  *)
Unregister ==
    /\ PodStep("ensure")
    /\ MustUnregister /\ ~view.wait
    /\ \/ Removable /\ gh' = "none" /\ Go("complete", view) /\ UNCHANGED <<pod, forced, faults>>
       \/ /\ gh = "busy"
          /\ IF ephemeral /\ Exists THEN pod' = [pod EXCEPT !.wait = TRUE] ELSE UNCHANGED pod
          /\ Done /\ UNCHANGED <<gh, forced, faults>>
       \/ ~Registered /\ Done /\ UNCHANGED <<gh, pod, forced, faults>>
       \/ Fault /\ Go("complete", view) /\ forced' = TRUE /\ UNCHANGED <<gh, pod>>
    /\ Unmarred
    /\ UNCHANGED <<runner, seen, linked, listed, saved, guarded>>

AnnotateComplete ==
    /\ PodStep("complete")
    /\ IF view.complete THEN Go(IF view.del THEN "drop" ELSE "idle", view) /\ UNCHANGED <<pod, faults>>
       ELSE Patch(IF view.del THEN "drop" ELSE "idle", "complete", TRUE)
    /\ Unmarred
    /\ UNCHANGED <<runner, seen, linked, ghVars, saved, guarded, forced>>

DropFinalizer ==
    /\ PodStep("drop")
    /\ Patch("idle", "fin", FALSE)
    /\ IF pod' = pod THEN UNCHANGED saved ELSE DerefClient("pod")
    /\ Unmarred
    /\ UNCHANGED <<runner, seen, linked, ghVars, guarded, forced>>

Vanish ==
    /\ pod' = NoPod
    /\ killed' = (killed \/ gh = "busy")
    /\ gh' = IF gh \in {"idle", "busy"} THEN "ghost" ELSE gh

(* A pod without finalizers that does not go in time is deleted by force. *)
ForceDelete ==
    /\ ppc = "force"
    /\ Done
    /\ \/ UNCHANGED <<pod, killed, gh>>
       \/ Exists /\ ~pod.fin /\ ~pod.lfin /\ Vanish
    /\ UNCHANGED <<runVars, linked, listed, saved, guarded, forced, crashed, stray, unmarked, faults, trouble>>

PodController ==
    \/ ReadPod \/ AddPodFinalizers \/ MarkRunner \/ ListLinked \/ Unlink \/ AnnotateID \/ AnnotateStart
    \/ NothingToDo \/ GiveUpOnRegistration \/ WaitForCompletion \/ Unregister
    \/ AnnotateComplete \/ DropFinalizer \/ ForceDelete
-----------------------------------------------------------------------------
(***************************************************************************)
(* GitHub, the cluster and the user                                         *)
(***************************************************************************)

(* The scheduler and the kubelet take on no pod that is being deleted. *)
PodStarts ==
    /\ Pending(pod) /\ ~pod.del
    /\ pod' = [pod EXCEPT !.phase = IF pod.phase = "unscheduled" THEN "pending" ELSE "running"]
    /\ UNCHANGED <<runVars, linked, ghVars, saved, ppc, view, history, faults, trouble>>

(* PodReady has been true for longer than registrationTimeout. *)
PodIsLate ==
    /\ pod.phase = "running" /\ ~pod.late
    /\ pod' = [pod EXCEPT !.late = TRUE]
    /\ UNCHANGED <<runVars, linked, ghVars, saved, ppc, view, history, faults, trouble>>

Registers ==
    /\ pod.phase = "running" /\ gh = "never"
    /\ gh' = "idle"
    /\ UNCHANGED <<runVars, podVars, listed, saved, ppc, view, history, faults, trouble>>

(* Answers of ListRunners are cached for a minute. *)
ListRefreshes ==
    /\ listed # Registered
    /\ listed' = Registered
    /\ UNCHANGED <<runVars, podVars, gh, saved, ppc, view, history, faults, trouble>>

(* In container mode kubernetes a job makes pods and secrets, when it starts     *)
(* and as it goes on.                                                           *)
MakeLinked ==
    /\ linked' = (linked \/ Kubernetes)
    /\ stray' = (stray \/ (Kubernetes /\ pod.del /\ (~pod.lfin \/ ppc = "unlink")))
    /\ UNCHANGED <<runVars, pod, listed, saved, ppc, view, guarded, forced, crashed, killed, unmarked, faults, trouble>>

JobStarts ==
    /\ pod.phase = "running" /\ gh = "idle"
    /\ gh' = "busy"
    /\ MakeLinked

JobGoesOn ==
    /\ pod.phase = "running" /\ gh = "busy" /\ Kubernetes /\ ~linked
    /\ MakeLinked
    /\ UNCHANGED gh

(* A job removes what it made; an ephemeral runner unregisters itself and exits. *)
JobEnds ==
    /\ pod.phase = "running" /\ gh = "busy"
    /\ gh' = IF ephemeral THEN "none" ELSE "idle"
    /\ pod' = IF ephemeral THEN [pod EXCEPT !.phase = "stopped"] ELSE pod
    /\ linked' = FALSE
    /\ UNCHANGED <<runVars, listed, saved, ppc, view, history, faults, trouble>>

(* A runner whose registration was removed exits. *)
RunnerExits ==
    /\ pod.phase = "running" /\ gh = "none"
    /\ pod' = [pod EXCEPT !.phase = "stopped"]
    /\ UNCHANGED <<runVars, linked, ghVars, saved, ppc, view, history, faults, trouble>>

ContainerCrashes ==
    /\ pod.phase = "running"
    /\ Trouble
    /\ pod' = [pod EXCEPT !.phase = "stopped"]
    /\ gh' = IF Registered THEN "ghost" ELSE gh
    /\ crashed' = TRUE
    /\ UNCHANGED <<runVars, linked, listed, saved, ppc, view, guarded, forced, killed, stray, unmarked, faults>>

(* The grace period of a deleted pod is over. *)
KubeletKills ==
    /\ pod.phase = "running" /\ pod.del
    /\ pod' = [pod EXCEPT !.phase = "stopped"]
    /\ killed' = (killed \/ gh = "busy")
    /\ gh' = IF Registered THEN "ghost" ELSE gh
    /\ UNCHANGED <<runVars, linked, listed, saved, ppc, view, guarded, forced, crashed, stray, unmarked, faults, trouble>>

PodGoes ==
    /\ pod.phase # "running" /\ pod.del /\ ~pod.fin /\ ~pod.lfin
    /\ Vanish
    /\ UNCHANGED <<runVars, linked, listed, saved, ppc, view, guarded, forced, crashed, stray, unmarked, faults, trouble>>

(* What a Runner owns goes with it. *)
GarbageCollect ==
    /\ runner.st = "none"
    /\ \/ Exists /\ ~pod.del
       \/ rbac > 0
    /\ pod' = IF Exists THEN [pod EXCEPT !.del = TRUE] ELSE pod
    /\ rbac' = 0
    /\ UNCHANGED <<ephemeral, lag, runner, seen, own, linked, ghVars, saved, ppc, view, history, faults, trouble>>

TokenExpires ==
    /\ runner.token /\ ~Exists
    /\ Trouble
    /\ runner' = [runner EXCEPT !.token = FALSE]
    /\ UNCHANGED <<ephemeral, lag, seen, rbac, own, podVars, ghVars, saved, ppc, view, history, faults>>

UserDeletesPod ==
    /\ Exists /\ ~pod.del
    /\ Trouble
    /\ pod' = [pod EXCEPT !.del = TRUE]
    /\ forced' = TRUE
    /\ UNCHANGED <<runVars, linked, ghVars, saved, ppc, view, guarded, crashed, killed, stray, unmarked, faults>>

(* By a user, or with its RunnerReplicaSet. *)
UserDeletesRunner ==
    /\ runner.st = "live"
    /\ Trouble
    /\ SetRunner([runner EXCEPT !.st = Delete(runner.st)])
    /\ forced' = TRUE
    /\ UNCHANGED <<ephemeral, lag, rbac, own, podVars, ghVars, saved, ppc, view, guarded, crashed, killed, stray, unmarked, faults>>

Cluster == PodStarts \/ PodIsLate \/ KubeletKills \/ PodGoes \/ GarbageCollect
GitHub == ListRefreshes \/ JobEnds \/ RunnerExits

Next ==
    \/ RunnerController \/ OwnerRequests \/ Owner \/ PodController
    \/ Cluster \/ GitHub \/ Registers \/ JobStarts \/ JobGoesOn
    \/ ContainerCrashes \/ TokenExpires \/ UserDeletesPod \/ UserDeletesRunner

Spec == Init /\ [][Next]_vars

(* Controllers reconcile on events and on a retry delay, the cluster and GitHub *)
(* do their part, and jobs end. Nobody has to ask for a stop.                   *)
Fairness ==
    /\ WF_vars(RunnerController) /\ WF_vars(Owner) /\ WF_vars(PodController)
    /\ WF_vars(PodStarts) /\ WF_vars(PodIsLate) /\ WF_vars(KubeletKills) /\ WF_vars(PodGoes)
    /\ WF_vars(GarbageCollect) /\ WF_vars(GitHub)

FairSpec == Spec /\ Fairness
-----------------------------------------------------------------------------
PodType == [phase : {"none", "unscheduled", "pending", "running", "stopped"}, del : BOOLEAN, fin : BOOLEAN, lfin : BOOLEAN,
            late : BOOLEAN, id : BOOLEAN, req : BOOLEAN, start : BOOLEAN, complete : BOOLEAN, wait : BOOLEAN]

(* Every variable holds a value of its kind, and the parts of one record agree. *)
TypeOK ==
    /\ runner \in [st : {"none", "live", "deleting"}, fin : BOOLEAN, token : BOOLEAN, synced : BOOLEAN]
    /\ {ephemeral, lag} \subseteq BOOLEAN
    /\ seen \in {"none", "live", "deleting"} /\ rbac \in 0..3 /\ own \in {"none", "requested", "completed"}
    /\ {pod, view} \subseteq PodType /\ linked \in BOOLEAN
    /\ gh \in {"never", "idle", "busy", "ghost", "none"} /\ listed \in BOOLEAN
    /\ saved \subseteq {"runner", "pod"}
    /\ ppc \in {"idle", "finalizers", "mark", "linked", "unlink", "register", "start", "ensure", "complete", "drop", "force"}
    /\ {guarded, forced, crashed, killed, stray, unmarked} \subseteq BOOLEAN
    /\ faults \in 0..MaxFaults /\ trouble \in 0..MaxTrouble

(* A job is cut short only if somebody deleted its pod or Runner directly, or   *)
(* where the code says that it goes on although it cannot know (no ID in time,  *)
(* no permission): scaling down never does it, whatever the pod controller's    *)
(* copy of the pod missed.                                                      *)
NoJobKilled == killed => forced

(* When Runner and pod are gone, GitHub has no runner left, unless the stop was *)
(* forced or the container died before it could unregister.                     *)
NoRegistrationLeak ==
    runner.st = "none" /\ ~Exists /\ Registered => forced \/ crashed

(* The deletion of what a job made was asked for when its pod is gone, unless the   *)
(* list of linked resources, taken once before the finalizer goes and before the   *)
(* runner is unregistered, did not show it; or the pod, one that was made again    *)
(* perhaps, went before it had its finalizers. That a job makes something the list  *)
(* does not show happens only where a stop is forced or a cache lags: a runner that *)
(* is scaled down makes nothing after the list, whatever fails.                    *)
NothingLeftBehind ==
    /\ ~Exists /\ linked => stray \/ ~guarded \/ lag \/ unmarked
    /\ stray => forced \/ lag

(* The types; and neither a registration nor what a job made in the cluster       *)
(* outlives the runner, through lost answers, retries and crashes, except as the  *)
(* two parts say.                                                                 *)
Consistent == TypeOK /\ NoRegistrationLeak /\ NothingLeftBehind

(* A pod that the pod controller guards is not made again by the Runner           *)
(* controller, for its Runner is marked for deletion before the pod goes          *)
(* (RunnerPodReconciler.Reconcile). A cache that still shows the Runner without    *)
(* its mark makes the pod once more, and so does a mark that was passed over.      *)
PodIsNotRemade ==
    [][~Exists /\ pod'.phase # "none" => ~guarded \/ lag \/ unmarked]_vars

Gone == runner.st = "none" /\ ~Exists

(* A pod that was made again under the name of one that had registered gets the *)
(* ID of its predecessor from the list of runners. Once GitHub does not know    *)
(* that ID any more, the removal fails for as long as the pod is pending.       *)
InheritedID == pod.id /\ pod.phase = "pending"

(* A pod that was made again although its Runner was to go, and never registers,   *)
(* is waited for: without an ID nothing tells the pod controller that it may stop.  *)
RemadeUnregistered == unmarked /\ gh = "never"

(* An ephemeral Runner that registered and is asked to go, or that is deleted,  *)
(* goes, and its pod too: when the answer to a removal is lost, when the job    *)
(* takes long, when the pod was deleted behind ARC's back. (A static runner may *)
(* have the next job whenever it is asked.)                                     *)
Goes == (ephemeral /\ ((pod.req /\ pod.fin /\ gh # "never") \/ runner.st # "live")) ~> (Gone \/ InheritedID \/ RemadeUnregistered)
=============================================================================
