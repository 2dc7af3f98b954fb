------------------------ MODULE AutoscalingListener -------------------------
(***************************************************************************)
(* The AutoscalingListener controller: it keeps the listener pod of a       *)
(* runner scale set running, with the service account, role, role binding,  *)
(* proxy secret and config secret that the pod needs, and removes all of    *)
(* them before the AutoscalingListener object may go.                       *)
(*                                                                         *)
(* Objects are known by name, and every AutoscalingListener of a scale set  *)
(* has the same name; a resource is therefore reduced to the generation of  *)
(* the AutoscalingListener that it was built for, 0 when it is absent. A    *)
(* generation stands for the EphemeralRunnerSet that the listener serves.   *)
(*                                                                         *)
(* Reconcile reads AutoscalingListeners, pods, service accounts, roles and  *)
(* role bindings from a cache that may lag, and secrets from the API        *)
(* server. The reads that precede its first write are one step with that    *)
(* write: what they could miss of a concurrent change, a lagging cache      *)
(* misses too. Every further write is a step of its own.                    *)
(***************************************************************************)
EXTENDS Naturals, FiniteSets, Sequences

CONSTANTS
    MaxGens,       \* bound: AutoscalingListeners that are ever created
    MaxRotations,  \* bound: changes of the GitHub credentials
    MaxFaults,     \* bound: failed calls
    MaxTrouble,    \* bound: crashes, evictions and deletions of the pod
    Laggings       \* the sets of kinds whose cache lags, one of them per behaviour

CachedKinds == {"al", "sa", "role", "rb", "pod"}

ASSUME ListenerAssumption ==
    /\ MaxGens \in Nat \ {0}
    /\ MaxRotations \in Nat /\ MaxFaults \in Nat /\ MaxTrouble \in Nat
    /\ Laggings \subseteq SUBSET CachedKinds /\ Laggings # {}

VARIABLES
    al,        \* the AutoscalingListener in the API server
    gens,      \* AutoscalingListeners created so far
    res,       \* its resources other than the pod
    config,    \* the credentials in the config secret
    pod,       \* the listener pod
    cred,      \* the version of the credentials in the GitHub secret
    lagging,   \* the kinds whose cache lags
    cache,     \* the controller's copies of the lagging kinds
    behind,    \* the kinds with changes that have not reached the cache
    queued,    \* the key is in the work queue
    pc,        \* the call Reconcile makes next
    waiting,   \* cleanupResources found something: requeue
    gauge,     \* the metric running_listeners
    faults,    \* failed calls so far
    trouble    \* troubles of the pod so far

vars == <<al, gens, res, config, pod, cred, lagging, cache, behind, queued, pc, waiting, gauge, faults, trouble>>

Gens == 1..MaxGens
Creds == 0..MaxRotations
Kinds == {"sa", "role", "rb", "proxy", "config"}

(* An owner reference lets the garbage collector remove these when their      *)
(* AutoscalingListener is gone; role and role binding live in another         *)
(* namespace and have none.                                                   *)
Owned == {"sa", "proxy", "config"}

AlRec == [st : {"none", "up", "deleting"}, fin : BOOLEAN, gen : {0} \cup Gens, proxy : BOOLEAN]
NoAl == [st |-> "none", fin |-> FALSE, gen |-> 0, proxy |-> FALSE]

(* gen: the generation that created it; serves, cred: the set and the          *)
(* credentials of the config it was started with; proxy: its environment       *)
(* comes from the proxy secret.                                                *)
PodRec == [st : {"none", "pending", "running", "terminated", "evicted"}, del : BOOLEAN,
           gen : {0} \cup Gens, proxy : BOOLEAN, serves : {0} \cup Gens, cred : Creds]
NoPod == [st |-> "none", del |-> FALSE, gen |-> 0, proxy |-> FALSE, serves |-> 0, cred |-> 0]

Api == [al |-> al, sa |-> res["sa"], role |-> res["role"], rb |-> res["rb"], pod |-> pod]

(* What a Get of the controller's client answers. *)
See(k) == IF k \in lagging THEN cache[k] ELSE Api[k]
-----------------------------------------------------------------------------
Init ==
    /\ al = NoAl /\ gens = 0
    /\ res = [k \in Kinds |-> 0]
    /\ config = 0
    /\ pod = NoPod
    /\ cred = 0
    /\ lagging \in Laggings
    /\ cache = [k \in lagging |-> Api[k]] /\ behind = {}
    /\ queued = FALSE /\ pc = "idle" /\ waiting = FALSE
    /\ gauge = 0
    /\ faults = 0 /\ trouble = 0

(* SetupWithManager watches the AutoscalingListener, pods, service accounts,  *)
(* roles and role bindings, and no secret. An event comes with the update of   *)
(* the cache.                                                                 *)
Settle(requeue) ==
    LET changed == {k \in CachedKinds : Api'[k] # Api[k]}
    IN  /\ queued' = (requeue \/ changed \ lagging # {})
        /\ behind' = behind \cup (changed \cap lagging)

apiVars == <<al, res, config, pod>>
envVars == <<gens, cred, lagging, cache, faults, trouble>>

Return(requeue) == pc' = "idle" /\ waiting' = FALSE /\ Settle(requeue)
-----------------------------------------------------------------------------
(***************************************************************************)
(* Reconcile of an AutoscalingListener that is not being deleted            *)
(***************************************************************************)

Take == pc = "idle" /\ queued

ReconcileGone ==
    /\ Take
    /\ See("al").st = "none" \/ (See("al").st = "deleting" /\ ~See("al").fin)
    /\ queued' = FALSE
    /\ UNCHANGED <<apiVars, envVars, behind, pc, waiting, gauge>>

(* The patch names the object and no version of it, so that it may reach a     *)
(* later generation. A finalizer cannot be added to an object that is going.   *)
AddFinalizer ==
    /\ Take
    /\ See("al").st = "up" /\ ~See("al").fin
    /\ al' = IF al.st = "up" THEN [al EXCEPT !.fin = TRUE] ELSE al
    /\ UNCHANGED <<envVars, res, config, pod, gauge>>
    /\ Return(al.st # "up")

Ready == Take /\ See("al").st = "up" /\ See("al").fin

(* A Create of a name that is taken fails, and the key is retried. *)
Create(k, requeue) ==
    /\ res' = IF res[k] = 0 THEN [res EXCEPT ![k] = See("al").gen] ELSE res
    /\ UNCHANGED <<envVars, al, pod, gauge>>
    /\ config' = IF k = "config" /\ res[k] = 0 THEN cred ELSE config
    /\ Return(requeue \/ res[k] # 0)

(* createServiceAccountForListener *)
CreateServiceAccount == Ready /\ See("sa") = 0 /\ Create("sa", FALSE)

HasAccount == Ready /\ See("sa") # 0

(* createRoleForListener *)
CreateRole == HasAccount /\ See("role") = 0 /\ Create("role", TRUE)

(* updateRoleForListener: the hash of the rules is not the desired one. The    *)
(* update carries the version that was read and fails when the role changed.   *)
UpdateRole ==
    /\ HasAccount
    /\ See("role") \notin {0, See("al").gen}
    /\ res' = IF res["role"] = See("role") THEN [res EXCEPT !["role"] = See("al").gen] ELSE res
    /\ UNCHANGED <<envVars, al, config, pod, gauge>>
    /\ Return(TRUE)

HasRole == HasAccount /\ See("role") = See("al").gen

(* createRoleBindingForListener *)
CreateRoleBinding == HasRole /\ See("rb") = 0 /\ Create("rb", TRUE)

HasBinding == HasRole /\ See("rb") # 0

CreateProxySecret == HasBinding /\ See("al").proxy /\ res["proxy"] = 0 /\ Create("proxy", TRUE)

HasProxy == HasBinding /\ (See("al").proxy => res["proxy"] # 0)

(* createListenerPod: first the config secret, from the credentials of the     *)
(* day, and after another pass the pod that mounts it.                         *)
CreateConfig ==
    /\ HasProxy
    /\ See("pod").st = "none"
    /\ res["config"] = 0
    /\ gauge' = 0
    /\ res' = [res EXCEPT !["config"] = See("al").gen]
    /\ config' = cred
    /\ UNCHANGED <<envVars, al, pod>>
    /\ Return(TRUE)

NewPod(a) == [NoPod EXCEPT !.st = "pending", !.gen = a.gen, !.proxy = a.proxy]

(* The API server admits no pod whose service account does not exist. *)
CreatePod ==
    /\ HasProxy
    /\ See("pod").st = "none"
    /\ res["config"] # 0
    /\ gauge' = 0
    /\ pod' = IF pod.st = "none" /\ res["sa"] # 0 THEN NewPod(See("al")) ELSE pod
    /\ UNCHANGED <<envVars, al, res, config>>
    /\ Return(pod' = pod)

(* Nothing to do: the pod has no container status yet. *)
PodIsNotReady ==
    /\ HasProxy
    /\ See("pod").st = "pending"
    /\ UNCHANGED <<apiVars, envVars, gauge>>
    /\ Return(FALSE)

(* publishRunningListener *)
PodIsRunning ==
    /\ HasProxy
    /\ See("pod").st = "running"
    /\ gauge' = 1
    /\ UNCHANGED <<apiVars, envVars>>
    /\ Return(FALSE)

(* deleteListenerPod: nothing is left to do for a pod that is being deleted. *)
PodIsDone == HasProxy /\ See("pod").st \in {"terminated", "evicted"} /\ gauge' = 0

PodIsGoing ==
    /\ PodIsDone
    /\ See("pod").del
    /\ UNCHANGED <<apiVars, envVars>>
    /\ Return(FALSE)

MarkedPod == IF pod.st = "none" THEN pod ELSE [pod EXCEPT !.del = TRUE]

DeletePod ==
    /\ PodIsDone
    /\ ~See("pod").del
    /\ pod' = MarkedPod
    /\ pc' = "deleteConfig"
    /\ UNCHANGED <<envVars, al, res, config, waiting>>
    /\ Settle(FALSE)

DeleteConfigKept ==
    pc = "deleteConfig" /\ UNCHANGED <<apiVars, envVars, gauge>> /\ Return(queued)

(* ... so that the next pod gets a config with new data. *)
DeleteConfig ==
    /\ pc = "deleteConfig"
    /\ res' = [res EXCEPT !["config"] = 0]
    /\ config' = 0
    /\ UNCHANGED <<envVars, al, pod, gauge>>
    /\ Return(queued)
-----------------------------------------------------------------------------
(***************************************************************************)
(* cleanupResources, one step per resource, and the finalizer               *)
(***************************************************************************)

CleanupOrder == <<"pod", "config", "proxy", "rb", "role", "sa", "finalizer">>
After(k) == CleanupOrder[1 + CHOOSE i \in 1..6 : CleanupOrder[i] = k]

StartCleanup ==
    /\ Take
    /\ See("al").st = "deleting" /\ See("al").fin
    /\ queued' = FALSE
    /\ pc' = "pod"
    /\ UNCHANGED <<apiVars, envVars, behind, waiting, gauge>>

(* A Delete of what is gone already is an error here. *)
CleanupPod ==
    /\ pc = "pod"
    /\ UNCHANGED <<envVars, al, res, config>>
    /\ IF See("pod").st # "none" /\ ~See("pod").del /\ pod.st = "none"
       THEN UNCHANGED <<pod, gauge>> /\ Return(TRUE)
       ELSE /\ pod' = IF See("pod").st # "none" THEN MarkedPod ELSE pod
            /\ gauge' = IF See("pod").st = "none" THEN 0 ELSE gauge
            /\ waiting' = (See("pod").st # "none")
            /\ pc' = After("pod")
            /\ Settle(queued)

Found(k) == IF k \in CachedKinds THEN See(k) # 0 ELSE res[k] # 0

CleanupOf(kinds, k) ==
    /\ pc = k
    /\ res' = [res EXCEPT ![k] = IF k \in kinds THEN 0 ELSE @]
    /\ config' = IF res'["config"] = 0 THEN 0 ELSE config
    /\ waiting' = (waiting \/ (k \in kinds /\ Found(k)))
    /\ pc' = After(k)
    /\ UNCHANGED <<envVars, al, pod, gauge>>
    /\ Settle(queued)

CleanupForgettingConfig(k) == CleanupOf(Kinds \ {"config"}, k)
CleanupForgettingRole(k) == CleanupOf(Kinds \ {"role"}, k)

(* The proxy secret is looked for only if the spec has a proxy. *)
Cleanup(k) ==
    /\ pc = k
    /\ UNCHANGED <<envVars, al, pod, gauge>>
    /\ IF Found(k) /\ res[k] = 0
       THEN UNCHANGED <<res, config>> /\ Return(TRUE)
       ELSE /\ res' = IF Found(k) /\ (k = "proxy" => See("al").proxy) THEN [res EXCEPT ![k] = 0] ELSE res
            /\ config' = IF k = "config" THEN 0 ELSE config
            /\ waiting' = (waiting \/ (Found(k) /\ (k = "proxy" => See("al").proxy)))
            /\ pc' = After(k)
            /\ Settle(queued)

(* Reconcile comes back in a second while something was left, and otherwise    *)
(* removes the finalizer.                                                      *)
RemoveFinalizer ==
    /\ pc = "finalizer"
    /\ al' = IF waiting THEN al
             ELSE IF al.st = "deleting" THEN NoAl ELSE [al EXCEPT !.fin = FALSE]
    /\ UNCHANGED <<envVars, res, config, pod, gauge>>
    /\ Return(queued \/ waiting)

(* A call fails, or the controller restarts: Reconcile gives up and is retried. *)
CallFails ==
    /\ pc # "idle" /\ faults < MaxFaults
    /\ faults' = faults + 1
    /\ pc' = "idle" /\ waiting' = FALSE /\ queued' = TRUE
    /\ UNCHANGED <<apiVars, gauge, gens, cred, lagging, cache, behind, trouble>>

Reconcile ==
    \/ ReconcileGone \/ AddFinalizer
    \/ CreateServiceAccount \/ CreateRole \/ UpdateRole \/ CreateRoleBinding \/ CreateProxySecret
    \/ CreateConfig \/ CreatePod
    \/ PodIsNotReady \/ PodIsRunning \/ PodIsGoing \/ DeletePod \/ DeleteConfig
    \/ StartCleanup \/ CleanupPod \/ (\E k \in Kinds : Cleanup(k)) \/ RemoveFinalizer
-----------------------------------------------------------------------------
(***************************************************************************)
(* The caches, the AutoscalingRunnerSet controller, the kubelet, the        *)
(* garbage collector and the users                                          *)
(***************************************************************************)

Sync(k) ==
    /\ k \in behind
    /\ cache' = [cache EXCEPT ![k] = Api[k]]
    /\ behind' = behind \ {k}
    /\ queued' = TRUE
    /\ UNCHANGED <<apiVars, gens, cred, lagging, pc, waiting, gauge, faults, trouble>>

Outside == UNCHANGED <<lagging, cache, pc, waiting, gauge, faults>> /\ Settle(queued)

(* newAutoScalingListener, once the listener before it is gone *)
ListenerIsCreated ==
    /\ al.st = "none" /\ gens < MaxGens
    /\ gens' = gens + 1
    /\ \E proxy \in BOOLEAN : al' = [st |-> "up", fin |-> FALSE, gen |-> gens + 1, proxy |-> proxy]
    /\ UNCHANGED <<res, config, pod, cred, trouble>>
    /\ Outside

ListenerIsDeleted ==
    /\ al.st = "up"
    /\ al' = IF al.fin THEN [al EXCEPT !.st = "deleting"] ELSE NoAl
    /\ UNCHANGED <<gens, res, config, pod, cred, trouble>>
    /\ Outside

(* The kubelet starts the pod when the secrets that it refers to are there. *)
PodStarts ==
    /\ pod.st = "pending" /\ ~pod.del
    /\ res["config"] # 0 /\ (pod.proxy => res["proxy"] # 0)
    /\ pod' = [pod EXCEPT !.st = "running", !.serves = res["config"], !.cred = config]
    /\ UNCHANGED <<al, gens, res, config, cred, trouble>>
    /\ Outside

Stops(st) ==
    /\ pod' = [pod EXCEPT !.st = st]
    /\ UNCHANGED <<al, gens, res, config, cred>>
    /\ Outside

(* The listener exits when the service does not take its credentials. *)
PodIsRefused == pod.st = "running" /\ pod.cred # cred /\ Stops("terminated") /\ UNCHANGED trouble

PodCrashes == pod.st = "running" /\ trouble < MaxTrouble /\ trouble' = trouble + 1 /\ Stops("terminated")

PodIsEvicted ==
    pod.st \in {"pending", "running"} /\ trouble < MaxTrouble /\ trouble' = trouble + 1 /\ Stops("evicted")

PodIsDeleted ==
    /\ pod.st # "none" /\ ~pod.del /\ trouble < MaxTrouble
    /\ trouble' = trouble + 1
    /\ pod' = MarkedPod
    /\ UNCHANGED <<al, gens, res, config, cred>>
    /\ Outside

PodIsRemoved ==
    /\ pod.del
    /\ pod' = NoPod
    /\ UNCHANGED <<al, gens, res, config, cred, trouble>>
    /\ Outside

(* The garbage collector takes what a generation that is gone still owns. *)
OrphanIsCollected ==
    /\ \/ /\ pod.st # "none" /\ ~pod.del /\ pod.gen # al.gen
          /\ pod' = MarkedPod /\ UNCHANGED <<res, config>>
       \/ \E k \in Owned :
             /\ res[k] \notin {0, al.gen}
             /\ res' = [res EXCEPT ![k] = 0]
             /\ config' = IF k = "config" THEN 0 ELSE config
             /\ UNCHANGED pod
    /\ UNCHANGED <<al, gens, cred, trouble>>
    /\ Outside

CredentialsRotate ==
    /\ cred < MaxRotations
    /\ cred' = cred + 1
    /\ UNCHANGED <<apiVars, gens, trouble>>
    /\ Outside

Next ==
    \/ Reconcile \/ CallFails
    \/ \E k \in CachedKinds : Sync(k)
    \/ ListenerIsCreated \/ ListenerIsDeleted
    \/ PodStarts \/ PodIsRefused \/ PodCrashes \/ PodIsEvicted \/ PodIsDeleted \/ PodIsRemoved
    \/ OrphanIsCollected \/ CredentialsRotate

Spec == Init /\ [][Next]_vars

FairSpec ==
    /\ Spec
    /\ WF_vars(Reconcile)
    /\ \A k \in CachedKinds : WF_vars(Sync(k))
    /\ WF_vars(PodStarts) /\ WF_vars(PodIsRefused) /\ WF_vars(PodIsRemoved) /\ WF_vars(OrphanIsCollected)
-----------------------------------------------------------------------------
(* Every variable holds a value of its kind, and the parts of one record agree. *)
TypeOK ==
    /\ al \in AlRec /\ gens \in {0} \cup Gens
    /\ res \in [Kinds -> {0} \cup Gens]
    /\ config \in Creds /\ cred \in Creds
    /\ pod \in PodRec
    /\ (al.st = "none" => al = NoAl) /\ (pod.st = "none" => pod = NoPod)
    /\ lagging \in Laggings /\ DOMAIN cache = lagging /\ behind \subseteq lagging
    /\ queued \in BOOLEAN /\ waiting \in BOOLEAN
    /\ pc \in {"idle", "deleteConfig", "finalizer", "pod"} \cup Kinds
    /\ gauge \in {0, 1}
    /\ faults \in 0..MaxFaults /\ trouble \in 0..MaxTrouble

(* The finalizer holds the AutoscalingListener until its role and role         *)
(* binding are deleted, which nothing else would ever remove                   *)
(* (cleanupResources), provided the cache shows them: a role that was created  *)
(* but has not reached the cache is overlooked. Nor does the metric            *)
(* running_listeners stay at 1, which no Reconcile would come to correct.      *)
NoLeftovers ==
    al.st = "none" =>
        gauge = 0 /\ (lagging \cap {"role", "rb"} = {} => res["role"] = 0 /\ res["rb"] = 0)

(* A listener pod never starts from the config of an earlier generation,      *)
(* whose set is being removed: the config secret has the same name in all of   *)
(* them, and is found and mounted by name. And when it runs beside a new       *)
(* AutoscalingListener, which takes the pod of its name for its own, it is of  *)
(* that generation: cleanupResources waits for the pod to be gone. Its service *)
(* account, role and role binding exist until its object is deleted, and the   *)
(* role names its EphemeralRunnerSet, except where a stale cache hides that     *)
(* they go: the service account is garbage collected with an earlier object,   *)
(* and an earlier role binding is deleted by a cleanup that Reconcile is sent  *)
(* into by a stale copy of the object.                                         *)
OneGeneration ==
    pod.st = "running" =>
        /\ pod.serves >= pod.gen
        /\ al.st = "up" /\ "pod" \notin lagging => pod.gen = al.gen
        /\ al.st = "up" /\ pod.gen = al.gen /\ "sa" \notin lagging /\ ~({"al", "rb"} \subseteq lagging)
              => res["sa"] # 0 /\ res["role"] = al.gen /\ res["rb"] # 0

(* The types, and everything of one generation: pod, config and rights.        *)
Consistent == TypeOK /\ OneGeneration

(* AutoscalingListeners, faults and troubles being finite in number, liveness   *)
(* is told of the end. Through failed calls and stale caches, an               *)
(* AutoscalingListener that was deleted is gone (the AutoscalingRunnerSet      *)
(* waits for it), and one that stays has its pod running with the latest       *)
(* credentials, after any crash, eviction, deletion and rotation, although no  *)
(* event tells the controller of a change of a secret.                         *)
Settles ==
    <>[](\/ al.st = "none"
         \/ al.st = "up" /\ pod.st = "running" /\ pod.gen = al.gen /\ pod.cred = cred)
=============================================================================
