---------------------- MODULE AutoscalingListenerProofs ----------------------
(*****************************************************************************)
(* Theorems about AutoscalingListener, for every set of kinds of objects     *)
(* whose cache may lag, any number of AutoscalingListeners after each        *)
(* other, failed calls, crashes, evictions and rotated credentials. The      *)
(* invariant has a part for each thing that the listener pod needs: its      *)
(* object, its config, its account, its role and its binding. What a         *)
(* lagging cache makes impossible to guarantee is a condition on "lagging"   *)
(* in that part, and nowhere else.                                           *)
(*****************************************************************************)
EXTENDS AutoscalingListener, TLAPS

(* The calls of a Reconcile that cleans up. *)
Cleaning == {"pod", "finalizer"} \cup Kinds

(* A cache shows objects that existed, none of a later generation. *)
CacheInv ==
    \A k \in lagging : /\ k = "al" => cache[k] \in AlRec
                       /\ k = "pod" => cache[k] \in PodRec
                       /\ k \in {"sa", "role", "rb"} => cache[k] \in {0} \cup Gens /\ cache[k] <= gens

(* A generation is the number of AutoscalingListeners there have been;      *)
(* nothing is of a later one.                                               *)
GenInv ==
    /\ al.st # "none" => al.gen = gens
    /\ \A k \in Kinds : res[k] <= gens
    /\ pod.gen <= gens

(* The finalizer: when Reconcile sees a live object with one, that object   *)
(* is the current one; when it cleans up, there is no such object, in the   *)
(* cache or out of it.                                                      *)
HoldInv ==
    /\ See("al").st = "up" /\ See("al").fin => al.fin /\ al.gen = See("al").gen
    /\ See("al").st = "deleting" => ~(al.st = "up" /\ al.fin)
    /\ pc \in Cleaning => ~(al.st = "up" /\ al.fin) /\ ~(See("al").st = "up" /\ See("al").fin)
    /\ pc \in Cleaning /\ "al" \notin lagging => al.st = "deleting"

(* The metric counts a listener for as long as the finalizer holds. *)
GaugeInv ==
    /\ gauge = 1 => al.fin
    /\ pc \in Cleaning \ {"pod"} /\ ~waiting => gauge = 0

(* The config secret, which is not read from a cache, is of the current     *)
(* generation, and so a running pod has mounted no older one.               *)
ConfigInv ==
    /\ res["config"] # 0 => al.fin /\ res["config"] = al.gen
    /\ pc \in Cleaning \ {"pod", "config"} => res["config"] = 0
    /\ pod.st = "running" => pod.serves >= pod.gen

(* A pod that the cache shows is of the current generation, and gone before *)
(* its rights are.                                                          *)
PodInv ==
    "pod" \notin lagging =>
        /\ pod.st # "none" => al.fin /\ pod.gen = al.gen
        /\ pc \in Cleaning \ {"pod"} /\ ~waiting => pod.st = "none"

(* Role binding and role, which have no owner in the cluster, are gone      *)
(* before the finalizer.                                                    *)
LeftInv ==
    /\ "rb" \notin lagging =>
          /\ res["rb"] # 0 => al.fin
          /\ pc \in {"role", "sa", "finalizer"} => res["rb"] = 0
    /\ "role" \notin lagging =>
          /\ res["role"] # 0 => al.fin
          /\ pc \in {"sa", "finalizer"} => res["role"] = 0

(* So is the service account. *)
AccountInv ==
    "sa" \notin lagging =>
        /\ res["sa"] # 0 => al.fin /\ res["sa"] = al.gen
        /\ pc = "finalizer" => res["sa"] = 0

(* A role of the current generation in the cache is there; before the       *)
(* finalizer is, neither role nor pod is of this generation.                *)
RoleInv ==
    al.st = "up" =>
        /\ See("role") = al.gen => res["role"] = al.gen
        /\ ~al.fin => res["role"] # al.gen /\ pod.gen # al.gen

(* A role binding in the cache is there, unless both the cache of bindings  *)
(* and that of listeners lag.                                               *)
BindingInv ==
    ~({"al", "rb"} \subseteq lagging) =>
        /\ al.st # "deleting" => (See("rb") # 0 => res["rb"] # 0)
        /\ pc \in {"role", "sa", "finalizer"} /\ ~waiting => (See("rb") # 0 => res["rb"] # 0)

(* The pod of the current generation has its account, its role and its      *)
(* binding.                                                                 *)
RightsInv ==
    /\ "sa" \notin lagging /\ ~({"al", "rb"} \subseteq lagging)
    /\ al.st = "up" /\ pod.st # "none" /\ pod.gen = al.gen
    => res["sa"] # 0 /\ res["role"] = al.gen /\ res["rb"] # 0

(* The inductive invariant. *)
IInv ==
    /\ TypeOK /\ CacheInv /\ GenInv
    /\ HoldInv /\ GaugeInv /\ ConfigInv /\ PodInv /\ LeftInv
    /\ AccountInv /\ RoleInv /\ BindingInv /\ RightsInv
-----------------------------------------------------------------------------
(* What Reconcile reads: a lagging cache, or the object. *)
LEMMA Sees ==
  /\ See("al") = IF "al" \in lagging THEN cache["al"] ELSE al
  /\ See("sa") = IF "sa" \in lagging THEN cache["sa"] ELSE res["sa"]
  /\ See("role") = IF "role" \in lagging THEN cache["role"] ELSE res["role"]
  /\ See("rb") = IF "rb" \in lagging THEN cache["rb"] ELSE res["rb"]
  /\ See("pod") = IF "pod" \in lagging THEN cache["pod"] ELSE pod
  BY DEF See, Api

(* The order of the cleanup. *)
LEMMA NextKinds ==
  /\ After("pod") = "config" /\ After("config") = "proxy" /\ After("proxy") = "rb"
  /\ After("rb") = "role" /\ After("role") = "sa" /\ After("sa") = "finalizer"
<1>1. /\ CleanupOrder[1] = "pod" /\ CleanupOrder[2] = "config" /\ CleanupOrder[3] = "proxy"
      /\ CleanupOrder[4] = "rb" /\ CleanupOrder[5] = "role" /\ CleanupOrder[6] = "sa"
      /\ CleanupOrder[7] = "finalizer"
  BY DEF CleanupOrder
<1>2. ASSUME NEW i \in 1..6
      PROVE  After(CleanupOrder[i]) = CleanupOrder[1 + i]
  <2>1. \A j \in 1..6 : CleanupOrder[j] = CleanupOrder[i] => j = i
    BY <1>1
  <2>2. (CHOOSE j \in 1..6 : CleanupOrder[j] = CleanupOrder[i]) = i
    BY <2>1
  <2> QED
    BY <2>2 DEF After
<1> QED
  BY <1>1, <1>2

(* What the end of a Reconcile leaves to be reconciled. *)
LEMMA Settled ==
  ASSUME NEW r, Settle(r), behind \subseteq lagging
  PROVE  queued' \in BOOLEAN /\ behind' \subseteq lagging
  BY DEF Settle

(* What is not there has a type, too. *)
LEMMA Blanks ==
  NoAl \in AlRec /\ NoPod \in PodRec /\ 0 \in Creds
  BY ListenerAssumption DEF AlRec, PodRec, NoAl, NoPod, Creds

(* What one call of the cleanup does: it ends Reconcile, or nothing is left *)
(* of what the cache showed.                                                *)
LEMMA Cleaned ==
  ASSUME NEW k \in Kinds, Cleanup(k), res \in [Kinds -> {0} \cup Gens], waiting \in BOOLEAN
  PROVE  /\ pc = k
         /\ UNCHANGED <<al, pod, gauge, gens, lagging, cache>>
         /\ \/ res' = res /\ pc' = "idle" /\ waiting' = FALSE
            \/ /\ pc' = After(k)
               /\ \A j \in Kinds : res'[j] = res[j] \/ (j = k /\ res'[j] = 0)
               /\ k \notin lagging /\ k # "proxy" => res'[k] = 0
               /\ k = "config" => res'[k] = 0
               /\ ~waiting' => ~waiting /\ (k = "rb" => See(k) = 0)
<1> USE DEF envVars
<1>1. pc = k /\ UNCHANGED <<al, pod, gauge, gens, lagging, cache>>
  BY DEF Cleanup
<1>2. CASE Found(k) /\ res[k] = 0
  BY <1>1, <1>2 DEF Cleanup, Return
<1>3. CASE ~(Found(k) /\ res[k] = 0)
  <2>1. /\ res' = IF Found(k) /\ (k = "proxy" => See("al").proxy) THEN [res EXCEPT ![k] = 0] ELSE res
        /\ waiting' = (waiting \/ (Found(k) /\ (k = "proxy" => See("al").proxy)))
        /\ pc' = After(k)
    BY <1>3 DEF Cleanup
  <2>2. \A j \in Kinds : res'[j] = res[j] \/ (j = k /\ res'[j] = 0)
    BY <2>1
  <2>3. (k \notin lagging /\ k # "proxy") \/ k = "config" => res'[k] = 0
    BY <2>1 DEF Found, See, Api, Kinds, CachedKinds
  <2>4. ~waiting' => ~waiting /\ (k = "rb" => See(k) = 0)
    BY <2>1 DEF Found, CachedKinds
  <2> QED
    BY <1>1, <2>1, <2>2, <2>3, <2>4
<1> QED
  BY <1>2, <1>3

(* Who writes which variable. *)
LEMMA Writers ==
  ASSUME Next
  PROVE  /\ \/ UNCHANGED al
            \/ AddFinalizer \/ RemoveFinalizer \/ ListenerIsCreated \/ ListenerIsDeleted
         /\ \/ UNCHANGED gens
            \/ ListenerIsCreated
         /\ \/ UNCHANGED res
            \/ CreateServiceAccount \/ CreateRole \/ UpdateRole \/ CreateRoleBinding
            \/ CreateProxySecret \/ CreateConfig \/ DeleteConfig \/ OrphanIsCollected
            \/ \E k \in Kinds : Cleanup(k)
         /\ \/ UNCHANGED config
            \/ CreateConfig \/ DeleteConfig \/ OrphanIsCollected
            \/ \E k \in Kinds : Cleanup(k)
         /\ \/ UNCHANGED cred
            \/ CredentialsRotate
         /\ \/ UNCHANGED pod
            \/ CreatePod \/ DeletePod \/ CleanupPod \/ PodStarts \/ PodIsRefused \/ PodCrashes
            \/ PodIsEvicted \/ PodIsDeleted \/ PodIsRemoved \/ OrphanIsCollected
         /\ \/ UNCHANGED gauge
            \/ CreateConfig \/ CreatePod \/ PodIsRunning \/ PodIsGoing \/ DeletePod
            \/ CleanupPod
         /\ \/ UNCHANGED <<pc, waiting>>
            \/ AddFinalizer \/ CreateServiceAccount \/ CreateRole \/ UpdateRole
            \/ CreateRoleBinding \/ CreateProxySecret \/ CreateConfig \/ CreatePod
            \/ PodIsNotReady \/ PodIsRunning \/ PodIsGoing \/ DeletePod \/ DeleteConfig
            \/ StartCleanup \/ CleanupPod \/ RemoveFinalizer \/ CallFails
            \/ \E k \in Kinds : Cleanup(k)
         /\ \/ UNCHANGED cache
            \/ \E k \in CachedKinds : Sync(k)
         /\ \/ UNCHANGED faults
            \/ CallFails
         /\ \/ UNCHANGED trouble
            \/ PodCrashes \/ PodIsEvicted \/ PodIsDeleted
         /\ UNCHANGED lagging
<1> USE DEF Next, Reconcile, apiVars, envVars, ReconcileGone, Take, AddFinalizer, Return,
  CreateServiceAccount, Ready, Create, CreateRole, HasAccount, UpdateRole, CreateRoleBinding,
  HasRole, CreateProxySecret, HasBinding, CreateConfig, HasProxy, CreatePod, NewPod, PodIsNotReady,
  PodIsRunning, PodIsGoing, PodIsDone, DeletePod, MarkedPod, DeleteConfig, StartCleanup, CleanupPod,
  Cleanup, Found, RemoveFinalizer, CallFails, Sync, ListenerIsCreated, Outside, ListenerIsDeleted,
  PodStarts, PodIsRefused, Stops, PodCrashes, PodIsEvicted, PodIsDeleted, PodIsRemoved,
  OrphanIsCollected, CredentialsRotate
<1>1. \/ UNCHANGED al
      \/ AddFinalizer \/ RemoveFinalizer \/ ListenerIsCreated \/ ListenerIsDeleted
  OBVIOUS
<1>2. \/ UNCHANGED gens
      \/ ListenerIsCreated
  OBVIOUS
<1>3. \/ UNCHANGED res
      \/ CreateServiceAccount \/ CreateRole \/ UpdateRole \/ CreateRoleBinding
      \/ CreateProxySecret \/ CreateConfig \/ DeleteConfig \/ OrphanIsCollected
      \/ \E k \in Kinds : Cleanup(k)
  OBVIOUS
<1>4. \/ UNCHANGED config
      \/ CreateConfig \/ DeleteConfig \/ OrphanIsCollected
      \/ \E k \in Kinds : Cleanup(k)
  OBVIOUS
<1>5. \/ UNCHANGED cred
      \/ CredentialsRotate
  OBVIOUS
<1>6. \/ UNCHANGED pod
      \/ CreatePod \/ DeletePod \/ CleanupPod \/ PodStarts \/ PodIsRefused \/ PodCrashes
      \/ PodIsEvicted \/ PodIsDeleted \/ PodIsRemoved \/ OrphanIsCollected
  OBVIOUS
<1>7. \/ UNCHANGED gauge
      \/ CreateConfig \/ CreatePod \/ PodIsRunning \/ PodIsGoing \/ DeletePod
      \/ CleanupPod
  OBVIOUS
<1>8. \/ UNCHANGED <<pc, waiting>>
      \/ AddFinalizer \/ CreateServiceAccount \/ CreateRole \/ UpdateRole
      \/ CreateRoleBinding \/ CreateProxySecret \/ CreateConfig \/ CreatePod
      \/ PodIsNotReady \/ PodIsRunning \/ PodIsGoing \/ DeletePod \/ DeleteConfig
      \/ StartCleanup \/ CleanupPod \/ RemoveFinalizer \/ CallFails
      \/ \E k \in Kinds : Cleanup(k)
  OBVIOUS
<1>9. \/ UNCHANGED cache
      \/ \E k \in CachedKinds : Sync(k)
  OBVIOUS
<1>10. \/ UNCHANGED faults
       \/ CallFails
  OBVIOUS
<1>11. \/ UNCHANGED trouble
       \/ PodCrashes \/ PodIsEvicted \/ PodIsDeleted
  OBVIOUS
<1>12. UNCHANGED lagging
  OBVIOUS
<1> QED
  BY <1>1, <1>2, <1>3, <1>4, <1>5, <1>6, <1>7, <1>8, <1>9, <1>10, <1>11, <1>12

(* The queue and the caches keep their type. *)
LEMMA QueueTyped ==
  ASSUME Next, behind \subseteq lagging, queued \in BOOLEAN, DOMAIN cache = lagging
  PROVE  queued' \in BOOLEAN /\ behind' \subseteq lagging /\ DOMAIN cache' = lagging
  BY Settled DEF Next, Reconcile, envVars, ReconcileGone, AddFinalizer, Return, CreateServiceAccount,
     Create, CreateRole, UpdateRole, CreateRoleBinding, CreateProxySecret, CreateConfig, HasProxy,
     CreatePod, NewPod, PodIsNotReady, PodIsRunning, PodIsGoing, PodIsDone, DeletePod, MarkedPod,
     DeleteConfig, StartCleanup, CleanupPod, Cleanup, Found, RemoveFinalizer, CallFails, Sync,
     ListenerIsCreated, Outside, ListenerIsDeleted, PodStarts, PodIsRefused, Stops, PodCrashes,
     PodIsEvicted, PodIsDeleted, PodIsRemoved, OrphanIsCollected, CredentialsRotate

(* Every variable keeps its type, by its writers. *)
LEMMA TypeStep ==
  ASSUME TypeOK, CacheInv, Next
  PROVE  TypeOK'
<1> USE DEF apiVars, envVars
<1>t. /\ al \in AlRec /\ (al.st = "none" => al = NoAl) /\ gens \in {0} \cup Gens
      /\ res \in [Kinds -> {0} \cup Gens] /\ config \in Creds /\ cred \in Creds
      /\ pod \in PodRec /\ (pod.st = "none" => pod = NoPod)
      /\ DOMAIN cache = lagging /\ behind \subseteq lagging /\ queued \in BOOLEAN /\ waiting \in BOOLEAN
      /\ gauge \in {0, 1} /\ faults \in 0..MaxFaults /\ trouble \in 0..MaxTrouble
      /\ pc \in {"idle", "deleteConfig", "finalizer", "pod"} \cup Kinds
  BY DEF TypeOK
<1>n. MaxGens \in Nat \ {0} /\ MaxRotations \in Nat /\ MaxFaults \in Nat /\ MaxTrouble \in Nat
  BY ListenerAssumption
<1>a. See("al") \in AlRec /\ See("al").gen \in {0} \cup Gens /\ See("al").proxy \in BOOLEAN
  BY <1>t, Sees DEF CacheInv, AlRec
<1>g. gens < MaxGens => gens + 1 \in Gens
  BY <1>t, <1>n DEF Gens
<1>r. ASSUME NEW a \in AlRec, NEW b \in BOOLEAN
      PROVE  [a EXCEPT !.fin = b] \in AlRec /\ [a EXCEPT !.fin = b].st = a.st
  BY DEF AlRec
<1>f. ASSUME NEW a \in AlRec, a.fin = FALSE
      PROVE  [a EXCEPT !.fin = FALSE] = a
  BY <1>f DEF AlRec
<1>e. NoAl.fin = FALSE /\ NoAl \in AlRec
  BY Blanks DEF NoAl
<1>1. al' \in AlRec /\ (al'.st = "none" => al' = NoAl)
  <2>1. CASE AddFinalizer
    BY <2>1, <1>t, <1>r DEF AddFinalizer, Take, Return
  <2>2. CASE RemoveFinalizer
    BY <2>2, <1>t, <1>r, <1>f, <1>e DEF RemoveFinalizer
  <2>3. CASE ListenerIsCreated
    BY <2>3, <1>g DEF ListenerIsCreated, AlRec
  <2>4. CASE ListenerIsDeleted
    BY <2>4, <1>t, <1>e DEF ListenerIsDeleted, AlRec
  <2> QED
    BY <2>1, <2>2, <2>3, <2>4, <1>t, Writers
<1>2. gens' \in {0} \cup Gens
  <2>1. CASE ListenerIsCreated
    BY <2>1, <1>t, <1>n DEF ListenerIsCreated, Outside, Gens
  <2> QED
    BY <2>1, <1>t, Writers
<1>3. res' \in [Kinds -> {0} \cup Gens]
  <2>1. CASE CreateServiceAccount
    BY <2>1, <1>t, <1>a DEF CreateServiceAccount, Create
  <2>2. CASE CreateRole
    BY <2>2, <1>t, <1>a DEF CreateRole, Create
  <2>3. CASE UpdateRole
    BY <2>3, <1>t, <1>a DEF UpdateRole
  <2>4. CASE CreateRoleBinding
    BY <2>4, <1>t, <1>a DEF CreateRoleBinding, Create
  <2>5. CASE CreateProxySecret
    BY <2>5, <1>t, <1>a DEF CreateProxySecret, Create
  <2>6. CASE CreateConfig
    BY <2>6, <1>t, <1>a DEF CreateConfig
  <2>7. CASE DeleteConfig
    BY <2>7, <1>t, <1>a DEF DeleteConfig, Return, Kinds, Owned
  <2>8. CASE \E k \in Kinds : Cleanup(k)
    BY <2>8, <1>t DEF Cleanup
  <2>9. CASE OrphanIsCollected
    BY <2>9, <1>t DEF OrphanIsCollected
  <2> QED
    BY <2>1, <2>2, <2>3, <2>4, <2>5, <2>6, <2>7, <2>8, <2>9, <1>t, Writers
<1>4. config' \in Creds
  <2>1. CASE CreateConfig
    BY <2>1, <1>t DEF CreateConfig
  <2>2. CASE DeleteConfig
    BY <2>2, <1>t, Blanks DEF DeleteConfig, Return
  <2>3. CASE \E k \in Kinds : Cleanup(k)
    BY <2>3, <1>t, Blanks DEF Cleanup, Found, Return
  <2>4. CASE OrphanIsCollected
    BY <2>4, <1>t, Blanks DEF OrphanIsCollected, MarkedPod, Outside
  <2> QED
    BY <2>1, <2>2, <2>3, <2>4, <1>t, Writers
<1>5. cred' \in Creds
  <2>1. CASE CredentialsRotate
    BY <2>1, <1>t, <1>n DEF CredentialsRotate, Outside, Creds
  <2> QED
    BY <2>1, <1>t, Writers
<1>6. pod' \in PodRec /\ (pod'.st = "none" => pod' = NoPod)
  <2>1. CASE CreatePod
    BY <2>1, <1>t, <1>a DEF CreatePod, NewPod, PodRec
  <2>2. CASE DeletePod
    BY <2>2, <1>t DEF DeletePod, MarkedPod, PodRec
  <2>3. CASE CleanupPod
    BY <2>3, <1>t, <1>a DEF CleanupPod, MarkedPod, Return, PodRec, NoPod, Kinds, AlRec
  <2>4. CASE PodStarts
    BY <2>4, <1>t DEF PodStarts, PodRec, Kinds
  <2>5. CASE PodIsRefused
    BY <2>5, <1>t DEF PodIsRefused, Stops, PodRec
  <2>6. CASE PodCrashes
    BY <2>6, <1>t DEF PodCrashes, Stops, PodRec
  <2>7. CASE PodIsEvicted
    BY <2>7, <1>t DEF PodIsEvicted, Stops, PodRec
  <2>8. CASE PodIsDeleted
    BY <2>8, <1>t DEF PodIsDeleted, MarkedPod, PodRec
  <2>9. CASE PodIsRemoved
    BY <2>9, Blanks DEF PodIsRemoved, Outside
  <2>10. CASE OrphanIsCollected
    BY <2>10, <1>t DEF OrphanIsCollected, MarkedPod, PodRec
  <2> QED
    BY <2>1, <2>2, <2>3, <2>4, <2>5, <2>6, <2>7, <2>8, <2>9, <2>10, <1>t, Writers
<1>7. gauge' \in {0, 1}
  <2>1. CASE CreateConfig
    BY <2>1 DEF CreateConfig
  <2>2. CASE CreatePod
    BY <2>2 DEF CreatePod
  <2>3. CASE PodIsRunning
    BY <2>3 DEF PodIsRunning
  <2>4. CASE PodIsGoing
    BY <2>4 DEF PodIsGoing, PodIsDone
  <2>5. CASE DeletePod
    BY <2>5 DEF DeletePod, PodIsDone
  <2>6. CASE CleanupPod
    BY <2>6, <1>t DEF CleanupPod, MarkedPod, Return
  <2> QED
    BY <2>1, <2>2, <2>3, <2>4, <2>5, <2>6, <1>t, Writers
<1>8. pc' \in {"idle", "deleteConfig", "finalizer", "pod"} \cup Kinds /\ waiting' \in BOOLEAN
  <2>1. CASE AddFinalizer
    BY <2>1, <1>t, NextKinds DEF AddFinalizer, Take, Return, Kinds
  <2>2. CASE CreateServiceAccount
    BY <2>2 DEF CreateServiceAccount, Create, Return
  <2>3. CASE CreateRole
    BY <2>3 DEF CreateRole, Create, Return
  <2>4. CASE UpdateRole
    BY <2>4 DEF UpdateRole, Return
  <2>5. CASE CreateRoleBinding
    BY <2>5 DEF CreateRoleBinding, Create, Return
  <2>6. CASE CreateProxySecret
    BY <2>6 DEF CreateProxySecret, Create, Return
  <2>7. CASE CreateConfig
    BY <2>7 DEF CreateConfig, Return
  <2>8. CASE CreatePod
    BY <2>8 DEF CreatePod, Return
  <2>9. CASE PodIsNotReady
    BY <2>9 DEF PodIsNotReady, Return
  <2>10. CASE PodIsRunning
    BY <2>10 DEF PodIsRunning, Return
  <2>11. CASE PodIsGoing
    BY <2>11 DEF PodIsGoing, Return
  <2>12. CASE DeletePod
    BY <2>12, <1>t DEF DeletePod
  <2>13. CASE DeleteConfig
    BY <2>13, <1>t, NextKinds DEF DeleteConfig, Return, Kinds
  <2>14. CASE StartCleanup
    BY <2>14, <1>t, NextKinds DEF StartCleanup, Take, Kinds
  <2>15. CASE CleanupPod
    BY <2>15, <1>t, NextKinds DEF CleanupPod, MarkedPod, Return, Kinds
  <2>16. CASE \E k \in Kinds : Cleanup(k)
    BY <2>16, <1>t, NextKinds DEF Cleanup, Found, Return, Kinds
  <2>17. CASE RemoveFinalizer
    BY <2>17, <1>t, NextKinds DEF RemoveFinalizer, Return, Kinds
  <2>18. CASE CallFails
    BY <2>18, <1>t, NextKinds DEF CallFails, Kinds
  <2> QED
    BY <2>1, <2>2, <2>3, <2>4, <2>5, <2>6, <2>7, <2>8, <2>9, <2>10, <2>11, <2>12, <2>13, <2>14, <2>15,
       <2>16, <2>17, <2>18, <1>t, Writers
<1>9. faults' \in 0..MaxFaults /\ trouble' \in 0..MaxTrouble
  <2>1. CASE CallFails
    BY <2>1, <1>t, <1>n DEF CallFails
  <2>2. CASE PodCrashes
    BY <2>2, <1>t, <1>n DEF PodCrashes, Stops, Outside
  <2>3. CASE PodIsEvicted
    BY <2>3, <1>t, <1>n DEF PodIsEvicted, Stops, Outside
  <2>4. CASE PodIsDeleted
    BY <2>4, <1>t, <1>n DEF PodIsDeleted, MarkedPod, Outside
  <2> QED
    BY <2>1, <2>2, <2>3, <2>4, <1>t, Writers
<1> QED
  BY <1>1, <1>2, <1>3, <1>4, <1>5, <1>6, <1>7, <1>8, <1>9, Writers, QueueTyped DEF TypeOK

(* The parts of the invariant, and the types of the records. *)
LEMMA Facts ==
  ASSUME IInv
  PROVE  /\ TypeOK /\ CacheInv /\ GenInv /\ HoldInv /\ GaugeInv /\ ConfigInv /\ PodInv /\ LeftInv
         /\ AccountInv /\ RoleInv /\ BindingInv /\ RightsInv
         /\ al \in AlRec /\ (al.st = "none" => al = NoAl) /\ gens \in {0} \cup Gens
         /\ res \in [Kinds -> {0} \cup Gens]
         /\ pod \in PodRec /\ (pod.st = "none" => pod = NoPod)
         /\ DOMAIN cache = lagging /\ waiting \in BOOLEAN /\ gauge \in {0, 1}
         /\ See("al") \in AlRec
<1>1. /\ TypeOK /\ CacheInv /\ GenInv /\ HoldInv /\ GaugeInv /\ ConfigInv /\ PodInv /\ LeftInv
      /\ AccountInv /\ RoleInv /\ BindingInv /\ RightsInv
  BY DEF IInv
<1>2. /\ al \in AlRec /\ (al.st = "none" => al = NoAl) /\ gens \in {0} \cup Gens
      /\ res \in [Kinds -> {0} \cup Gens]
      /\ pod \in PodRec /\ (pod.st = "none" => pod = NoPod)
      /\ DOMAIN cache = lagging /\ waiting \in BOOLEAN /\ gauge \in {0, 1}
  BY <1>1 DEF TypeOK
<1>3. See("al") \in AlRec
  BY <1>1, <1>2, Sees DEF CacheInv
<1> QED
  BY <1>1, <1>2, <1>3

(* Nothing is there of a generation to come. *)
LEMMA Younger ==
  ASSUME IInv
  PROVE  /\ \A k \in Kinds : res[k] # gens + 1
         /\ pod.gen # gens + 1
         /\ See("role") # gens + 1
<1>1. gens \in Nat /\ Gens \subseteq Nat
  BY Facts, ListenerAssumption DEF Gens
<1>2. \A x \in {0} \cup Gens : x <= gens => x # gens + 1
  BY <1>1
<1>3. pod.gen \in {0} \cup Gens /\ \A k \in Kinds : res[k] \in {0} \cup Gens
  BY Facts DEF PodRec
<1>4. pod.gen # gens + 1 /\ \A k \in Kinds : res[k] # gens + 1
  BY <1>2, <1>3, Facts DEF GenInv
<1>5. "role" \in lagging => cache["role"] # gens + 1
  BY <1>2, Facts DEF CacheInv
<1> QED
  BY <1>4, <1>5, Sees DEF Kinds

(* Every step keeps CacheInv. *)
LEMMA CacheStep ==
  ASSUME IInv, Next
  PROVE  CacheInv'
<1> USE DEF apiVars, envVars
<1>u. ASSUME UNCHANGED <<cache, lagging, gens>>
      PROVE  CacheInv'
  BY Facts, <1>u DEF CacheInv, See, Api
<1>1. CASE \E k \in CachedKinds : Sync(k)
  <2>1. PICK k \in CachedKinds : Sync(k)
    BY <1>1
  <2>2. /\ Api["al"] = al /\ Api["pod"] = pod
        /\ Api["sa"] = res["sa"] /\ Api["role"] = res["role"] /\ Api["rb"] = res["rb"]
    BY DEF Api
  <2>3. \A j \in lagging' : cache'[j] = cache[j] \/ (j \in CachedKinds /\ cache'[j] = Api[j])
    BY <2>1, Facts DEF Sync
  <2>4. \A j \in {"sa", "role", "rb"} : Api[j] \in {0} \cup Gens /\ Api[j] <= gens
    BY <2>2, Facts DEF GenInv, Kinds
  <2> QED
    BY <2>1, <2>2, <2>3, <2>4, Facts DEF Sync, CacheInv
<1>2. CASE ListenerIsCreated
  <2>1. gens \in Nat /\ gens' = gens + 1 /\ lagging' = lagging /\ cache' = cache
    BY <1>2, Facts, ListenerAssumption DEF ListenerIsCreated, Outside, Gens
  <2>2. ASSUME NEW x \in {0} \cup Gens, x <= gens
        PROVE  x <= gens'
    BY <2>1, <2>2, ListenerAssumption DEF Gens
  <2> QED
    BY <2>1, <2>2, Facts DEF CacheInv
<1> QED
  BY Writers, <1>u, <1>1, <1>2

(* Every step keeps GenInv. *)
LEMMA GenStep ==
  ASSUME IInv, Next
  PROVE  GenInv'
<1> USE DEF apiVars, envVars
<1>u. ASSUME UNCHANGED <<al, res, pod, gens>>
      PROVE  GenInv'
  BY Facts, <1>u DEF GenInv, See, Api
<1>1. CASE AddFinalizer
  BY <1>1, Facts DEF AddFinalizer, GenInv
<1>2. CASE CreateServiceAccount
  BY <1>2, Facts DEF CreateServiceAccount, Ready, Create, GenInv, HoldInv, NoAl, Gens
<1>3. CASE CreateRole
  BY <1>3, Facts DEF CreateRole, HasAccount, Ready, Create, GenInv, HoldInv, NoAl, Gens
<1>4. CASE UpdateRole
  BY <1>4, Facts DEF UpdateRole, HasAccount, Ready, GenInv, HoldInv, NoAl, Gens
<1>5. CASE CreateRoleBinding
  BY <1>5, Facts DEF CreateRoleBinding, HasRole, HasAccount, Ready, Create, GenInv, HoldInv, NoAl,
     Gens
<1>6. CASE CreateProxySecret
  BY <1>6, Facts DEF CreateProxySecret, HasBinding, HasRole, HasAccount, Ready, Create, GenInv,
     HoldInv, NoAl, Gens
<1>7. CASE CreateConfig
  BY <1>7, Facts DEF CreateConfig, HasProxy, HasBinding, HasRole, HasAccount, Ready, GenInv, HoldInv,
     NoAl, Gens
<1>8. CASE CreatePod
  BY <1>8, Facts DEF CreatePod, NewPod, HasProxy, HasBinding, HasRole, HasAccount, Ready, GenInv,
     HoldInv, NoAl, Gens
<1>9. CASE DeletePod
  BY <1>9, Facts DEF DeletePod, MarkedPod, GenInv
<1>10. CASE DeleteConfig
  BY <1>10, Facts DEF DeleteConfig, GenInv, Gens
<1>11. CASE CleanupPod
  BY <1>11, Facts DEF CleanupPod, MarkedPod, GenInv, PodRec
<1>12. CASE \E k \in Kinds : Cleanup(k)
  <2>1. PICK k \in Kinds : Cleanup(k)
    BY <1>12
  <2>2. /\ pc = k
        /\ UNCHANGED <<al, pod, gauge, gens, lagging, cache>>
        /\ \/ res' = res /\ pc' = "idle" /\ waiting' = FALSE
           \/ /\ pc' = After(k)
              /\ \A j \in Kinds : res'[j] = res[j] \/ (j = k /\ res'[j] = 0)
              /\ k \notin lagging /\ k # "proxy" => res'[k] = 0
              /\ k = "config" => res'[k] = 0
              /\ ~waiting' => ~waiting /\ (k = "rb" => See(k) = 0)
    BY <2>1, Facts, Cleaned
  <2> QED
    BY <2>2, Facts DEF GenInv, Gens
<1>13. CASE RemoveFinalizer
  BY <1>13, Facts DEF RemoveFinalizer, GenInv, NoAl
<1>14. CASE ListenerIsCreated
  BY <1>14, Facts DEF ListenerIsCreated, GenInv, PodRec, Gens
<1>15. CASE ListenerIsDeleted
  BY <1>15, Facts DEF ListenerIsDeleted, GenInv, NoAl
<1>16. CASE PodStarts
  BY <1>16, Facts DEF PodStarts, GenInv
<1>17. CASE PodIsRefused
  BY <1>17, Facts DEF PodIsRefused, Stops, GenInv
<1>18. CASE PodCrashes
  BY <1>18, Facts DEF PodCrashes, Stops, GenInv
<1>19. CASE PodIsEvicted
  BY <1>19, Facts DEF PodIsEvicted, Stops, GenInv
<1>20. CASE PodIsDeleted
  BY <1>20, Facts DEF PodIsDeleted, MarkedPod, GenInv
<1>21. CASE PodIsRemoved
  BY <1>21, Facts DEF PodIsRemoved, GenInv, NoPod, Gens
<1>22. CASE OrphanIsCollected
  BY <1>22, Facts DEF OrphanIsCollected, MarkedPod, GenInv, PodRec, Gens
<1> QED
  BY Writers, <1>u, <1>1, <1>2, <1>3, <1>4, <1>5, <1>6, <1>7, <1>8, <1>9, <1>10, <1>11, <1>12, <1>13,
     <1>14, <1>15, <1>16, <1>17, <1>18, <1>19, <1>20, <1>21, <1>22

(* Every step keeps HoldInv. *)
LEMMA HoldStep ==
  ASSUME IInv, Next
  PROVE  HoldInv'
<1> USE DEF apiVars, envVars
<1>u. ASSUME UNCHANGED <<al, cache, lagging, pc>>
      PROVE  HoldInv'
  BY Facts, <1>u DEF HoldInv, See, Api
<1>1. CASE AddFinalizer
  BY <1>1 DEF AddFinalizer, Return, HoldInv, Cleaning, Kinds, See, Api
<1>2. CASE CreateServiceAccount
  BY <1>2, Facts DEF CreateServiceAccount, Ready, Take, Create, Return, HoldInv, See, Api
<1>3. CASE CreateRole
  BY <1>3, Facts DEF CreateRole, Create, Return, HoldInv, Cleaning, Kinds, See, Api
<1>4. CASE UpdateRole
  BY <1>4, Facts DEF UpdateRole, Return, HoldInv, Cleaning, Kinds, See, Api
<1>5. CASE CreateRoleBinding
  BY <1>5, Facts DEF CreateRoleBinding, Create, Return, HoldInv, Cleaning, Kinds, See, Api
<1>6. CASE CreateProxySecret
  BY <1>6, Facts DEF CreateProxySecret, Create, Return, HoldInv, Cleaning, Kinds, See, Api
<1>7. CASE CreateConfig
  BY <1>7, Facts DEF CreateConfig, Return, HoldInv, Cleaning, Kinds, See, Api
<1>8. CASE CreatePod
  BY <1>8, Facts DEF CreatePod, Return, HoldInv, Cleaning, Kinds, See, Api
<1>9. CASE PodIsNotReady
  BY <1>9, Facts DEF PodIsNotReady, Return, HoldInv, Cleaning, Kinds, See, Api
<1>10. CASE PodIsRunning
  BY <1>10, Facts DEF PodIsRunning, Return, HoldInv, Cleaning, Kinds, See, Api
<1>11. CASE PodIsGoing
  BY <1>11, Facts DEF PodIsGoing, Return, HoldInv, Cleaning, Kinds, See, Api
<1>12. CASE DeletePod
  BY <1>12, Facts DEF DeletePod, HoldInv, Cleaning, Kinds, See, Api
<1>13. CASE DeleteConfig
  BY <1>13, Facts DEF DeleteConfig, Return, HoldInv, Cleaning, Kinds, See, Api
<1>14. CASE StartCleanup
  BY <1>14, Facts DEF StartCleanup, HoldInv, See, Api
<1>15. CASE CleanupPod
  BY <1>15, Facts DEF CleanupPod, HoldInv, Cleaning, See, Api
<1>16. CASE \E k \in Kinds : Cleanup(k)
  <2>1. PICK k \in Kinds : Cleanup(k)
    BY <1>16
  <2>2. /\ pc = k
        /\ UNCHANGED <<al, pod, gauge, gens, lagging, cache>>
        /\ \/ res' = res /\ pc' = "idle" /\ waiting' = FALSE
           \/ /\ pc' = After(k)
              /\ \A j \in Kinds : res'[j] = res[j] \/ (j = k /\ res'[j] = 0)
              /\ k \notin lagging /\ k # "proxy" => res'[k] = 0
              /\ k = "config" => res'[k] = 0
              /\ ~waiting' => ~waiting /\ (k = "rb" => See(k) = 0)
    BY <2>1, Facts, Cleaned
  <2> QED
    BY <2>2, Facts DEF HoldInv, Cleaning, See, Api
<1>17. CASE RemoveFinalizer
  BY <1>17, Facts DEF RemoveFinalizer, Return, HoldInv, Cleaning, Kinds, NoAl, See, Api
<1>18. CASE CallFails
  BY <1>18, Facts DEF CallFails, HoldInv, Cleaning, Kinds, See, Api
<1>19. CASE \E k \in CachedKinds : Sync(k)
  BY <1>19, Facts DEF Sync, HoldInv, See, Api
<1>20. CASE ListenerIsCreated
  BY <1>20, Facts DEF ListenerIsCreated, Outside, HoldInv, NoAl, See, Api
<1>21. CASE ListenerIsDeleted
  BY <1>21, Facts DEF ListenerIsDeleted, Outside, HoldInv, NoAl, See, Api
<1> QED
  BY Writers, <1>u, <1>1, <1>2, <1>3, <1>4, <1>5, <1>6, <1>7, <1>8, <1>9, <1>10, <1>11, <1>12, <1>13,
     <1>14, <1>15, <1>16, <1>17, <1>18, <1>19, <1>20, <1>21

(* Every step keeps GaugeInv. *)
LEMMA GaugeStep ==
  ASSUME IInv, Next
  PROVE  GaugeInv'
<1> USE DEF apiVars, envVars
<1>u. ASSUME UNCHANGED <<gauge, al, pc, waiting>>
      PROVE  GaugeInv'
  BY Facts, <1>u DEF GaugeInv, See, Api
<1>1. CASE AddFinalizer
  BY <1>1, Facts DEF AddFinalizer, Return, GaugeInv, Cleaning, Kinds
<1>2. CASE CreateServiceAccount
  BY <1>2, Facts DEF CreateServiceAccount, Ready, Take, Create, Return, GaugeInv, HoldInv
<1>3. CASE CreateRole
  BY <1>3, Facts DEF CreateRole, Create, Return, GaugeInv, Cleaning, Kinds
<1>4. CASE UpdateRole
  BY <1>4, Facts DEF UpdateRole, Return, GaugeInv, Cleaning, Kinds
<1>5. CASE CreateRoleBinding
  BY <1>5, Facts DEF CreateRoleBinding, Create, Return, GaugeInv, Cleaning, Kinds
<1>6. CASE CreateProxySecret
  BY <1>6, Facts DEF CreateProxySecret, Create, Return, GaugeInv, Cleaning, Kinds
<1>7. CASE CreateConfig
  BY <1>7 DEF CreateConfig, GaugeInv
<1>8. CASE CreatePod
  BY <1>8 DEF CreatePod, GaugeInv
<1>9. CASE PodIsNotReady
  BY <1>9, Facts DEF PodIsNotReady, Return, GaugeInv, Cleaning, Kinds
<1>10. CASE PodIsRunning
  BY <1>10, Facts DEF PodIsRunning, HasProxy, HasBinding, HasRole, HasAccount, Ready, Take, Return,
     GaugeInv, HoldInv
<1>11. CASE PodIsGoing
  BY <1>11 DEF PodIsGoing, PodIsDone, GaugeInv
<1>12. CASE DeletePod
  BY <1>12 DEF DeletePod, PodIsDone, GaugeInv
<1>13. CASE DeleteConfig
  BY <1>13, Facts DEF DeleteConfig, Return, GaugeInv, Cleaning, Kinds
<1>14. CASE StartCleanup
  BY <1>14, Facts DEF StartCleanup, GaugeInv
<1>15. CASE CleanupPod
  BY <1>15, Facts DEF CleanupPod, Return, GaugeInv, Cleaning, Kinds
<1>16. CASE \E k \in Kinds : Cleanup(k)
  <2>1. PICK k \in Kinds : Cleanup(k)
    BY <1>16
  <2>2. /\ pc = k
        /\ UNCHANGED <<al, pod, gauge, gens, lagging, cache>>
        /\ \/ res' = res /\ pc' = "idle" /\ waiting' = FALSE
           \/ /\ pc' = After(k)
              /\ \A j \in Kinds : res'[j] = res[j] \/ (j = k /\ res'[j] = 0)
              /\ k \notin lagging /\ k # "proxy" => res'[k] = 0
              /\ k = "config" => res'[k] = 0
              /\ ~waiting' => ~waiting /\ (k = "rb" => See(k) = 0)
    BY <2>1, Facts, Cleaned
  <2> QED
    BY <2>2, Facts DEF GaugeInv, Cleaning, Kinds
<1>17. CASE RemoveFinalizer
  BY <1>17, Facts DEF RemoveFinalizer, Return, GaugeInv, Cleaning, Kinds
<1>18. CASE CallFails
  BY <1>18, Facts DEF CallFails, GaugeInv, Cleaning, Kinds
<1>19. CASE ListenerIsCreated
  BY <1>19, Facts DEF ListenerIsCreated, Outside, GaugeInv, NoAl
<1>20. CASE ListenerIsDeleted
  BY <1>20, Facts DEF ListenerIsDeleted, Outside, GaugeInv
<1> QED
  BY Writers, <1>u, <1>1, <1>2, <1>3, <1>4, <1>5, <1>6, <1>7, <1>8, <1>9, <1>10, <1>11, <1>12, <1>13,
     <1>14, <1>15, <1>16, <1>17, <1>18, <1>19, <1>20

(* Every step keeps ConfigInv. *)
LEMMA ConfigStep ==
  ASSUME IInv, Next
  PROVE  ConfigInv'
<1> USE DEF apiVars, envVars
<1>u. ASSUME UNCHANGED <<res, al, pod, pc>>
      PROVE  ConfigInv'
  BY Facts, <1>u DEF ConfigInv, See, Api
<1>1. CASE AddFinalizer
  BY <1>1, Facts DEF AddFinalizer, Take, Return, ConfigInv
<1>2. CASE CreateServiceAccount
  BY <1>2, Facts DEF CreateServiceAccount, Ready, Take, Create, Return, ConfigInv
<1>3. CASE CreateRole
  BY <1>3, Facts DEF CreateRole, HasAccount, Ready, Take, Create, Return, ConfigInv
<1>4. CASE UpdateRole
  BY <1>4, Facts DEF UpdateRole, HasAccount, Ready, Take, Return, ConfigInv
<1>5. CASE CreateRoleBinding
  BY <1>5, Facts DEF CreateRoleBinding, HasRole, HasAccount, Ready, Take, Create, Return, ConfigInv
<1>6. CASE CreateProxySecret
  BY <1>6, Facts DEF CreateProxySecret, Create, Return, ConfigInv, Cleaning, Kinds
<1>7. CASE CreateConfig
  BY <1>7, Facts DEF CreateConfig, HasProxy, HasBinding, HasRole, HasAccount, Ready, Take, Return,
     ConfigInv, HoldInv
<1>8. CASE CreatePod
  BY <1>8, Facts DEF CreatePod, NewPod, Return, ConfigInv, Cleaning, Kinds
<1>9. CASE PodIsNotReady
  BY <1>9, Facts DEF PodIsNotReady, Return, ConfigInv, Cleaning, Kinds
<1>10. CASE PodIsRunning
  BY <1>10, Facts DEF PodIsRunning, Return, ConfigInv, Cleaning, Kinds
<1>11. CASE PodIsGoing
  BY <1>11, Facts DEF PodIsGoing, Return, ConfigInv, Cleaning, Kinds
<1>12. CASE DeletePod
  BY <1>12, Facts DEF DeletePod, MarkedPod, ConfigInv, Cleaning, Kinds
<1>13. CASE DeleteConfig
  BY <1>13, Facts DEF DeleteConfig, ConfigInv, Kinds
<1>14. CASE StartCleanup
  BY <1>14, Facts DEF StartCleanup, ConfigInv
<1>15. CASE CleanupPod
  BY <1>15, Facts, NextKinds DEF CleanupPod, MarkedPod, Return, ConfigInv, Cleaning, Kinds, PodRec
<1>16. CASE \E k \in Kinds : Cleanup(k)
  <2>1. PICK k \in Kinds : Cleanup(k)
    BY <1>16
  <2>2. /\ pc = k
        /\ UNCHANGED <<al, pod, gauge, gens, lagging, cache>>
        /\ \/ res' = res /\ pc' = "idle" /\ waiting' = FALSE
           \/ /\ pc' = After(k)
              /\ \A j \in Kinds : res'[j] = res[j] \/ (j = k /\ res'[j] = 0)
              /\ k \notin lagging /\ k # "proxy" => res'[k] = 0
              /\ k = "config" => res'[k] = 0
              /\ ~waiting' => ~waiting /\ (k = "rb" => See(k) = 0)
    BY <2>1, Facts, Cleaned
  <2> QED
    BY <2>2, Facts DEF ConfigInv, Cleaning, Kinds
<1>17. CASE RemoveFinalizer
  BY <1>17, Facts DEF RemoveFinalizer, ConfigInv, Cleaning
<1>18. CASE CallFails
  BY <1>18, Facts DEF CallFails, ConfigInv, Cleaning, Kinds
<1>19. CASE ListenerIsCreated
  BY <1>19, Facts DEF ListenerIsCreated, ConfigInv, NoAl
<1>20. CASE ListenerIsDeleted
  BY <1>20, Facts DEF ListenerIsDeleted, Outside, ConfigInv
<1>21. CASE PodStarts
  BY <1>21, Facts DEF PodStarts, Outside, ConfigInv, GenInv, NoAl
<1>22. CASE PodIsRefused
  BY <1>22, Facts DEF PodIsRefused, Stops, Outside, ConfigInv
<1>23. CASE PodCrashes
  BY <1>23, Facts DEF PodCrashes, Stops, Outside, ConfigInv
<1>24. CASE PodIsEvicted
  BY <1>24, Facts DEF PodIsEvicted, Stops, Outside, ConfigInv
<1>25. CASE PodIsDeleted
  BY <1>25, Facts DEF PodIsDeleted, MarkedPod, Outside, ConfigInv
<1>26. CASE PodIsRemoved
  BY <1>26, Facts DEF PodIsRemoved, Outside, ConfigInv, NoPod
<1>27. CASE OrphanIsCollected
  BY <1>27, Facts DEF OrphanIsCollected, MarkedPod, Outside, ConfigInv, Kinds, PodRec
<1> QED
  BY Writers, <1>u, <1>1, <1>2, <1>3, <1>4, <1>5, <1>6, <1>7, <1>8, <1>9, <1>10, <1>11, <1>12, <1>13,
     <1>14, <1>15, <1>16, <1>17, <1>18, <1>19, <1>20, <1>21, <1>22, <1>23, <1>24, <1>25, <1>26,
     <1>27

(* Every step keeps PodInv. *)
LEMMA PodStep ==
  ASSUME IInv, Next
  PROVE  PodInv'
<1> USE DEF apiVars, envVars
<1>u. ASSUME UNCHANGED <<lagging, pod, al, pc, waiting>>
      PROVE  PodInv'
  BY Facts, <1>u DEF PodInv, See, Api
<1>1. CASE AddFinalizer
  BY <1>1, Facts DEF AddFinalizer, Return, PodInv, Cleaning, Kinds
<1>2. CASE CreateServiceAccount
  BY <1>2, Facts DEF CreateServiceAccount, Ready, Take, Create, Return, PodInv, HoldInv
<1>3. CASE CreateRole
  BY <1>3, Facts DEF CreateRole, Create, Return, PodInv, Cleaning, Kinds
<1>4. CASE UpdateRole
  BY <1>4, Facts DEF UpdateRole, Return, PodInv, Cleaning, Kinds
<1>5. CASE CreateRoleBinding
  BY <1>5, Facts DEF CreateRoleBinding, HasRole, HasAccount, Ready, Take, Create, Return, PodInv,
     HoldInv
<1>6. CASE CreateProxySecret
  BY <1>6, Facts DEF CreateProxySecret, Create, Return, PodInv, Cleaning, Kinds
<1>7. CASE CreateConfig
  BY <1>7 DEF CreateConfig, PodInv, See, Api
<1>8. CASE CreatePod
  BY <1>8, Facts DEF CreatePod, NewPod, HasProxy, HasBinding, HasRole, HasAccount, Ready, Take,
     Return, PodInv, HoldInv
<1>9. CASE PodIsNotReady
  BY <1>9, Facts DEF PodIsNotReady, Return, PodInv, Cleaning, Kinds
<1>10. CASE PodIsRunning
  BY <1>10, Facts DEF PodIsRunning, Return, PodInv, Cleaning, Kinds
<1>11. CASE PodIsGoing
  BY <1>11, Facts DEF PodIsGoing, Return, PodInv, Cleaning, Kinds
<1>12. CASE DeletePod
  BY <1>12, Facts DEF DeletePod, MarkedPod, PodInv, Cleaning, Kinds
<1>13. CASE DeleteConfig
  BY <1>13, Facts DEF DeleteConfig, Return, PodInv, Cleaning, Kinds
<1>14. CASE StartCleanup
  BY <1>14, Facts DEF StartCleanup, PodInv
<1>15. CASE CleanupPod
  BY <1>15, Facts DEF CleanupPod, MarkedPod, PodInv, PodRec, See, Api
<1>16. CASE \E k \in Kinds : Cleanup(k)
  <2>1. PICK k \in Kinds : Cleanup(k)
    BY <1>16
  <2>2. /\ pc = k
        /\ UNCHANGED <<al, pod, gauge, gens, lagging, cache>>
        /\ \/ res' = res /\ pc' = "idle" /\ waiting' = FALSE
           \/ /\ pc' = After(k)
              /\ \A j \in Kinds : res'[j] = res[j] \/ (j = k /\ res'[j] = 0)
              /\ k \notin lagging /\ k # "proxy" => res'[k] = 0
              /\ k = "config" => res'[k] = 0
              /\ ~waiting' => ~waiting /\ (k = "rb" => See(k) = 0)
    BY <2>1, Facts, Cleaned
  <2> QED
    BY <2>2, Facts DEF PodInv, Cleaning, Kinds
<1>17. CASE RemoveFinalizer
  BY <1>17, Facts DEF RemoveFinalizer, Return, PodInv, Cleaning, Kinds
<1>18. CASE CallFails
  BY <1>18, Facts DEF CallFails, PodInv, Cleaning, Kinds
<1>19. CASE ListenerIsCreated
  BY <1>19, Facts DEF ListenerIsCreated, Outside, PodInv, NoAl
<1>20. CASE ListenerIsDeleted
  BY <1>20, Facts DEF ListenerIsDeleted, Outside, PodInv
<1>21. CASE PodStarts
  BY <1>21, Facts DEF PodStarts, Outside, PodInv
<1>22. CASE PodIsRefused
  BY <1>22, Facts DEF PodIsRefused, Stops, Outside, PodInv
<1>23. CASE PodCrashes
  BY <1>23, Facts DEF PodCrashes, Stops, Outside, PodInv
<1>24. CASE PodIsEvicted
  BY <1>24, Facts DEF PodIsEvicted, Stops, Outside, PodInv
<1>25. CASE PodIsDeleted
  BY <1>25, Facts DEF PodIsDeleted, MarkedPod, Outside, PodInv
<1>26. CASE PodIsRemoved
  BY <1>26 DEF PodIsRemoved, PodInv, NoPod
<1>27. CASE OrphanIsCollected
  BY <1>27, Facts DEF OrphanIsCollected, Outside, PodInv
<1> QED
  BY Writers, <1>u, <1>1, <1>2, <1>3, <1>4, <1>5, <1>6, <1>7, <1>8, <1>9, <1>10, <1>11, <1>12, <1>13,
     <1>14, <1>15, <1>16, <1>17, <1>18, <1>19, <1>20, <1>21, <1>22, <1>23, <1>24, <1>25, <1>26,
     <1>27

(* Every step keeps LeftInv. *)
LEMMA LeftStep ==
  ASSUME IInv, Next
  PROVE  LeftInv'
<1> USE DEF apiVars, envVars
<1>u. ASSUME UNCHANGED <<lagging, res, al, pc>>
      PROVE  LeftInv'
  BY Facts, <1>u DEF LeftInv, See, Api
<1>1. CASE AddFinalizer
  BY <1>1, Facts DEF AddFinalizer, Return, LeftInv
<1>2. CASE CreateServiceAccount
  BY <1>2, Facts DEF CreateServiceAccount, Create, Return, LeftInv
<1>3. CASE CreateRole
  BY <1>3, Facts DEF CreateRole, HasAccount, Ready, Create, Return, LeftInv, HoldInv
<1>4. CASE UpdateRole
  BY <1>4, Facts DEF UpdateRole, Return, LeftInv
<1>5. CASE CreateRoleBinding
  BY <1>5, Facts DEF CreateRoleBinding, HasRole, HasAccount, Ready, Create, Return, LeftInv, HoldInv
<1>6. CASE CreateProxySecret
  BY <1>6, Facts DEF CreateProxySecret, Create, Return, LeftInv
<1>7. CASE CreateConfig
  BY <1>7, Facts DEF CreateConfig, Return, LeftInv
<1>8. CASE CreatePod
  BY <1>8, Facts DEF CreatePod, Return, LeftInv
<1>9. CASE PodIsNotReady
  BY <1>9, Facts DEF PodIsNotReady, Return, LeftInv
<1>10. CASE PodIsRunning
  BY <1>10, Facts DEF PodIsRunning, Return, LeftInv
<1>11. CASE PodIsGoing
  BY <1>11, Facts DEF PodIsGoing, Return, LeftInv
<1>12. CASE DeletePod
  BY <1>12, Facts DEF DeletePod, LeftInv
<1>13. CASE DeleteConfig
  BY <1>13, Facts DEF DeleteConfig, Return, LeftInv
<1>14. CASE StartCleanup
  BY <1>14, Facts DEF StartCleanup, LeftInv
<1>15. CASE CleanupPod
  BY <1>15, Facts, NextKinds DEF CleanupPod, Return, LeftInv
<1>16. CASE \E k \in Kinds : Cleanup(k)
  <2>1. PICK k \in Kinds : Cleanup(k)
    BY <1>16
  <2>2. /\ pc = k
        /\ UNCHANGED <<al, pod, gauge, gens, lagging, cache>>
        /\ \/ res' = res /\ pc' = "idle" /\ waiting' = FALSE
           \/ /\ pc' = After(k)
              /\ \A j \in Kinds : res'[j] = res[j] \/ (j = k /\ res'[j] = 0)
              /\ k \notin lagging /\ k # "proxy" => res'[k] = 0
              /\ k = "config" => res'[k] = 0
              /\ ~waiting' => ~waiting /\ (k = "rb" => See(k) = 0)
    BY <2>1, Facts, Cleaned
  <2> QED
    BY <2>2, Facts, NextKinds DEF LeftInv, Kinds
<1>17. CASE RemoveFinalizer
  BY <1>17, Facts DEF RemoveFinalizer, LeftInv
<1>18. CASE CallFails
  BY <1>18, Facts DEF CallFails, LeftInv
<1>19. CASE ListenerIsCreated
  BY <1>19, Facts DEF ListenerIsCreated, Outside, LeftInv, NoAl
<1>20. CASE ListenerIsDeleted
  BY <1>20, Facts DEF ListenerIsDeleted, Outside, LeftInv
<1>21. CASE OrphanIsCollected
  BY <1>21, Facts DEF OrphanIsCollected, Outside, LeftInv, Kinds
<1> QED
  BY Writers, <1>u, <1>1, <1>2, <1>3, <1>4, <1>5, <1>6, <1>7, <1>8, <1>9, <1>10, <1>11, <1>12, <1>13,
     <1>14, <1>15, <1>16, <1>17, <1>18, <1>19, <1>20, <1>21

(* Every step keeps AccountInv. *)
LEMMA AccountStep ==
  ASSUME IInv, Next
  PROVE  AccountInv'
<1> USE DEF apiVars, envVars
<1>u. ASSUME UNCHANGED <<lagging, res, al, pc>>
      PROVE  AccountInv'
  BY Facts, <1>u DEF AccountInv, See, Api
<1>1. CASE AddFinalizer
  BY <1>1, Facts DEF AddFinalizer, Return, AccountInv
<1>2. CASE CreateServiceAccount
  BY <1>2, Facts DEF CreateServiceAccount, Ready, Create, Return, AccountInv, HoldInv
<1>3. CASE CreateRole
  BY <1>3, Facts DEF CreateRole, Create, Return, AccountInv
<1>4. CASE UpdateRole
  BY <1>4, Facts DEF UpdateRole, Return, AccountInv
<1>5. CASE CreateRoleBinding
  BY <1>5, Facts DEF CreateRoleBinding, Create, Return, AccountInv
<1>6. CASE CreateProxySecret
  BY <1>6, Facts DEF CreateProxySecret, Create, Return, AccountInv
<1>7. CASE CreateConfig
  BY <1>7, Facts DEF CreateConfig, Return, AccountInv
<1>8. CASE CreatePod
  BY <1>8, Facts DEF CreatePod, Return, AccountInv
<1>9. CASE PodIsNotReady
  BY <1>9, Facts DEF PodIsNotReady, Return, AccountInv
<1>10. CASE PodIsRunning
  BY <1>10, Facts DEF PodIsRunning, Return, AccountInv
<1>11. CASE PodIsGoing
  BY <1>11, Facts DEF PodIsGoing, Return, AccountInv
<1>12. CASE DeletePod
  BY <1>12, Facts DEF DeletePod, AccountInv
<1>13. CASE DeleteConfig
  BY <1>13, Facts DEF DeleteConfig, Return, AccountInv
<1>14. CASE StartCleanup
  BY <1>14, Facts DEF StartCleanup, AccountInv
<1>15. CASE CleanupPod
  BY <1>15, Facts, NextKinds DEF CleanupPod, Return, AccountInv
<1>16. CASE \E k \in Kinds : Cleanup(k)
  <2>1. PICK k \in Kinds : Cleanup(k)
    BY <1>16
  <2>2. /\ pc = k
        /\ UNCHANGED <<al, pod, gauge, gens, lagging, cache>>
        /\ \/ res' = res /\ pc' = "idle" /\ waiting' = FALSE
           \/ /\ pc' = After(k)
              /\ \A j \in Kinds : res'[j] = res[j] \/ (j = k /\ res'[j] = 0)
              /\ k \notin lagging /\ k # "proxy" => res'[k] = 0
              /\ k = "config" => res'[k] = 0
              /\ ~waiting' => ~waiting /\ (k = "rb" => See(k) = 0)
    BY <2>1, Facts, Cleaned
  <2> QED
    BY <2>2, Facts, NextKinds DEF AccountInv, Kinds
<1>17. CASE RemoveFinalizer
  BY <1>17, Facts DEF RemoveFinalizer, AccountInv
<1>18. CASE CallFails
  BY <1>18, Facts DEF CallFails, AccountInv
<1>19. CASE ListenerIsCreated
  BY <1>19, Facts DEF ListenerIsCreated, Outside, AccountInv, NoAl
<1>20. CASE ListenerIsDeleted
  BY <1>20, Facts DEF ListenerIsDeleted, Outside, AccountInv
<1>21. CASE OrphanIsCollected
  BY <1>21, Facts DEF OrphanIsCollected, Outside, AccountInv, Kinds
<1> QED
  BY Writers, <1>u, <1>1, <1>2, <1>3, <1>4, <1>5, <1>6, <1>7, <1>8, <1>9, <1>10, <1>11, <1>12, <1>13,
     <1>14, <1>15, <1>16, <1>17, <1>18, <1>19, <1>20, <1>21

(* Every step keeps RoleInv. *)
LEMMA RoleStep ==
  ASSUME IInv, Next
  PROVE  RoleInv'
<1> USE DEF apiVars, envVars
<1>u. ASSUME UNCHANGED <<al, res, pod, cache, lagging>>
      PROVE  RoleInv'
  BY Facts, <1>u DEF RoleInv, See, Api
<1>1. CASE AddFinalizer
  BY <1>1, Facts DEF AddFinalizer, RoleInv, See, Api
<1>2. CASE CreateServiceAccount
  BY <1>2, Facts DEF CreateServiceAccount, Create, RoleInv, See, Api
<1>3. CASE CreateRole
  BY <1>3, Facts DEF CreateRole, HasAccount, Ready, Create, RoleInv, HoldInv, See, Api
<1>4. CASE UpdateRole
  BY <1>4, Facts DEF UpdateRole, HasAccount, Ready, RoleInv, HoldInv, See, Api
<1>5. CASE CreateRoleBinding
  BY <1>5, Facts DEF CreateRoleBinding, Create, RoleInv, See, Api
<1>6. CASE CreateProxySecret
  BY <1>6, Facts DEF CreateProxySecret, HasBinding, HasRole, HasAccount, Ready, Create, RoleInv,
     HoldInv
<1>7. CASE CreateConfig
  BY <1>7, Facts DEF CreateConfig, HasProxy, HasBinding, HasRole, HasAccount, Ready, RoleInv, HoldInv
<1>8. CASE CreatePod
  BY <1>8, Facts DEF CreatePod, NewPod, HasProxy, HasBinding, HasRole, RoleInv, See, Api
<1>9. CASE DeletePod
  BY <1>9, Facts DEF DeletePod, MarkedPod, RoleInv, See, Api
<1>10. CASE DeleteConfig
  BY <1>10, Facts DEF DeleteConfig, RoleInv, See, Api
<1>11. CASE CleanupPod
  BY <1>11, Facts DEF CleanupPod, MarkedPod, RoleInv, PodRec, See, Api
<1>12. CASE \E k \in Kinds : Cleanup(k)
  <2>1. PICK k \in Kinds : Cleanup(k)
    BY <1>12
  <2>2. /\ pc = k
        /\ UNCHANGED <<al, pod, gauge, gens, lagging, cache>>
        /\ \/ res' = res /\ pc' = "idle" /\ waiting' = FALSE
           \/ /\ pc' = After(k)
              /\ \A j \in Kinds : res'[j] = res[j] \/ (j = k /\ res'[j] = 0)
              /\ k \notin lagging /\ k # "proxy" => res'[k] = 0
              /\ k = "config" => res'[k] = 0
              /\ ~waiting' => ~waiting /\ (k = "rb" => See(k) = 0)
    BY <2>1, Facts, Cleaned
  <2>3. al.st = "up" /\ ~al.fin => al.gen # 0
    BY Facts, ListenerAssumption DEF RoleInv, GenInv, Kinds, Gens
  <2> QED
    BY <2>2, <2>3, Facts DEF RoleInv, HoldInv, Cleaning, Kinds, See, Api
<1>13. CASE RemoveFinalizer
  BY <1>13, Facts DEF RemoveFinalizer, RoleInv, HoldInv, Cleaning, NoAl, See, Api
<1>14. CASE \E k \in CachedKinds : Sync(k)
  BY <1>14, Facts DEF Sync, RoleInv, See, Api
<1>15. CASE ListenerIsCreated
  BY <1>15, Younger DEF ListenerIsCreated, Outside, RoleInv, Kinds, See, Api
<1>16. CASE ListenerIsDeleted
  BY <1>16 DEF ListenerIsDeleted, RoleInv, NoAl
<1>17. CASE PodStarts
  BY <1>17, Facts DEF PodStarts, Outside, RoleInv, See, Api
<1>18. CASE PodIsRefused
  BY <1>18, Facts DEF PodIsRefused, Stops, Outside, RoleInv, See, Api
<1>19. CASE PodCrashes
  BY <1>19, Facts DEF PodCrashes, Stops, Outside, RoleInv, See, Api
<1>20. CASE PodIsEvicted
  BY <1>20, Facts DEF PodIsEvicted, Stops, Outside, RoleInv, See, Api
<1>21. CASE PodIsDeleted
  BY <1>21, Facts DEF PodIsDeleted, MarkedPod, Outside, RoleInv, See, Api
<1>22. CASE PodIsRemoved
  BY <1>22, Facts DEF PodIsRemoved, Outside, RoleInv, GenInv, PodRec, NoPod, See, Api, Gens
<1>23. CASE OrphanIsCollected
  BY <1>23, Facts DEF OrphanIsCollected, MarkedPod, Outside, RoleInv, Kinds, Owned, PodRec, See, Api
<1> QED
  BY Writers, <1>u, <1>1, <1>2, <1>3, <1>4, <1>5, <1>6, <1>7, <1>8, <1>9, <1>10, <1>11, <1>12, <1>13,
     <1>14, <1>15, <1>16, <1>17, <1>18, <1>19, <1>20, <1>21, <1>22, <1>23

(* Every step keeps BindingInv. *)
LEMMA BindingStep ==
  ASSUME IInv, Next
  PROVE  BindingInv'
<1> USE DEF apiVars, envVars
<1>u. ASSUME UNCHANGED <<al, res, cache, lagging, pc, waiting>>
      PROVE  BindingInv'
  BY Facts, <1>u DEF BindingInv, See, Api
<1>1. CASE AddFinalizer
  BY <1>1, Facts DEF AddFinalizer, BindingInv, See, Api
<1>2. CASE CreateServiceAccount
  BY <1>2, Facts DEF CreateServiceAccount, Create, Return, BindingInv, See, Api
<1>3. CASE CreateRole
  BY <1>3, Facts DEF CreateRole, Create, Return, BindingInv, See, Api
<1>4. CASE UpdateRole
  BY <1>4, Facts DEF UpdateRole, Return, BindingInv, See, Api
<1>5. CASE CreateRoleBinding
  BY <1>5 DEF CreateRoleBinding, Create, BindingInv, See, Api
<1>6. CASE CreateProxySecret
  BY <1>6, Facts DEF CreateProxySecret, HasBinding, Create, Return, BindingInv
<1>7. CASE CreateConfig
  BY <1>7, Facts DEF CreateConfig, HasProxy, HasBinding, Return, BindingInv
<1>8. CASE CreatePod
  BY <1>8, Facts DEF CreatePod, HasProxy, HasBinding, Return, BindingInv
<1>9. CASE PodIsNotReady
  BY <1>9, Facts DEF PodIsNotReady, HasProxy, HasBinding, Return, BindingInv
<1>10. CASE PodIsRunning
  BY <1>10, Facts DEF PodIsRunning, HasProxy, HasBinding, Return, BindingInv
<1>11. CASE PodIsGoing
  BY <1>11, Facts DEF PodIsGoing, PodIsDone, HasProxy, HasBinding, Return, BindingInv
<1>12. CASE DeletePod
  BY <1>12, Facts DEF DeletePod, PodIsDone, HasProxy, HasBinding, BindingInv
<1>13. CASE DeleteConfig
  BY <1>13, Facts DEF DeleteConfig, Return, BindingInv, See, Api
<1>14. CASE StartCleanup
  BY <1>14 DEF StartCleanup, BindingInv, See, Api
<1>15. CASE CleanupPod
  BY <1>15, Facts, NextKinds DEF CleanupPod, Return, BindingInv, See, Api
<1>16. CASE \E k \in Kinds : Cleanup(k)
  <2>1. PICK k \in Kinds : Cleanup(k)
    BY <1>16
  <2>2. /\ pc = k
        /\ UNCHANGED <<al, pod, gauge, gens, lagging, cache>>
        /\ \/ res' = res /\ pc' = "idle" /\ waiting' = FALSE
           \/ /\ pc' = After(k)
              /\ \A j \in Kinds : res'[j] = res[j] \/ (j = k /\ res'[j] = 0)
              /\ k \notin lagging /\ k # "proxy" => res'[k] = 0
              /\ k = "config" => res'[k] = 0
              /\ ~waiting' => ~waiting /\ (k = "rb" => See(k) = 0)
    BY <2>1, Facts, Cleaned
  <2> QED
    BY <2>2, Facts, NextKinds DEF BindingInv, HoldInv, Cleaning, Kinds, See, Api
<1>17. CASE RemoveFinalizer
  BY <1>17, Facts DEF RemoveFinalizer, Return, BindingInv, See, Api
<1>18. CASE CallFails
  BY <1>18, Facts DEF CallFails, BindingInv, See, Api
<1>19. CASE \E k \in CachedKinds : Sync(k)
  BY <1>19, Facts DEF Sync, BindingInv, See, Api
<1>20. CASE ListenerIsCreated
  BY <1>20, Facts DEF ListenerIsCreated, Outside, BindingInv, See, Api
<1>21. CASE ListenerIsDeleted
  BY <1>21, Facts DEF ListenerIsDeleted, Outside, BindingInv, See, Api
<1>22. CASE OrphanIsCollected
  BY <1>22, Facts DEF OrphanIsCollected, Outside, BindingInv, Kinds, Owned, See, Api
<1> QED
  BY Writers, <1>u, <1>1, <1>2, <1>3, <1>4, <1>5, <1>6, <1>7, <1>8, <1>9, <1>10, <1>11, <1>12, <1>13,
     <1>14, <1>15, <1>16, <1>17, <1>18, <1>19, <1>20, <1>21, <1>22

(* Every step keeps RightsInv. *)
LEMMA RightsStep ==
  ASSUME IInv, Next
  PROVE  RightsInv'
<1> USE DEF apiVars, envVars
<1>u. ASSUME UNCHANGED <<lagging, al, pod, res>>
      PROVE  RightsInv'
  BY Facts, <1>u DEF RightsInv, See, Api
<1>1. CASE AddFinalizer
  BY <1>1, Facts DEF AddFinalizer, RightsInv
<1>2. CASE CreateServiceAccount
  BY <1>2, Facts DEF CreateServiceAccount, Create, RightsInv
<1>3. CASE CreateRole
  BY <1>3, Facts DEF CreateRole, Create, RightsInv, AccountInv
<1>4. CASE UpdateRole
  BY <1>4, Facts DEF UpdateRole, HasAccount, Ready, RightsInv, HoldInv
<1>5. CASE CreateRoleBinding
  BY <1>5, Facts DEF CreateRoleBinding, Create, RightsInv
<1>6. CASE CreateProxySecret
  BY <1>6, Facts DEF CreateProxySecret, Create, RightsInv
<1>7. CASE CreateConfig
  BY <1>7, Facts DEF CreateConfig, RightsInv
<1>8. CASE CreatePod
  BY <1>8, Facts DEF CreatePod, NewPod, HasProxy, HasBinding, HasRole, RightsInv, RoleInv, BindingInv
<1>9. CASE DeletePod
  BY <1>9, Facts DEF DeletePod, MarkedPod, RightsInv
<1>10. CASE DeleteConfig
  BY <1>10, Facts DEF DeleteConfig, RightsInv
<1>11. CASE CleanupPod
  BY <1>11, Facts DEF CleanupPod, MarkedPod, RightsInv, PodRec
<1>12. CASE \E k \in Kinds : Cleanup(k)
  <2>1. PICK k \in Kinds : Cleanup(k)
    BY <1>12
  <2>2. /\ pc = k
        /\ UNCHANGED <<al, pod, gauge, gens, lagging, cache>>
        /\ \/ res' = res /\ pc' = "idle" /\ waiting' = FALSE
           \/ /\ pc' = After(k)
              /\ \A j \in Kinds : res'[j] = res[j] \/ (j = k /\ res'[j] = 0)
              /\ k \notin lagging /\ k # "proxy" => res'[k] = 0
              /\ k = "config" => res'[k] = 0
              /\ ~waiting' => ~waiting /\ (k = "rb" => See(k) = 0)
    BY <2>1, Facts, Cleaned
  <2> QED
    BY <2>2, Facts DEF RightsInv, AccountInv, HoldInv, Cleaning
<1>13. CASE RemoveFinalizer
  BY <1>13, Facts DEF RemoveFinalizer, RightsInv, NoAl
<1>14. CASE ListenerIsCreated
  BY <1>14, Younger DEF ListenerIsCreated, RightsInv
<1>15. CASE ListenerIsDeleted
  BY <1>15 DEF ListenerIsDeleted, RightsInv, NoAl
<1>16. CASE PodStarts
  BY <1>16, Facts DEF PodStarts, Outside, RightsInv
<1>17. CASE PodIsRefused
  BY <1>17, Facts DEF PodIsRefused, Stops, Outside, RightsInv
<1>18. CASE PodCrashes
  BY <1>18, Facts DEF PodCrashes, Stops, Outside, RightsInv
<1>19. CASE PodIsEvicted
  BY <1>19, Facts DEF PodIsEvicted, Stops, Outside, RightsInv
<1>20. CASE PodIsDeleted
  BY <1>20, Facts DEF PodIsDeleted, MarkedPod, Outside, RightsInv
<1>21. CASE PodIsRemoved
  BY <1>21 DEF PodIsRemoved, RightsInv, NoPod
<1>22. CASE OrphanIsCollected
  BY <1>22, Facts DEF OrphanIsCollected, MarkedPod, Outside, RightsInv, AccountInv, Kinds, Owned,
     PodRec
<1> QED
  BY Writers, <1>u, <1>1, <1>2, <1>3, <1>4, <1>5, <1>6, <1>7, <1>8, <1>9, <1>10, <1>11, <1>12, <1>13,
     <1>14, <1>15, <1>16, <1>17, <1>18, <1>19, <1>20, <1>21, <1>22
-----------------------------------------------------------------------------
(* The invariant holds in the beginning. *)
LEMMA InitInv == Init => IInv
<1> SUFFICES ASSUME Init PROVE IInv
  OBVIOUS
<1>1. /\ al = NoAl /\ gens = 0 /\ config = 0 /\ pod = NoPod /\ cred = 0
      /\ \A k \in Kinds : res[k] = 0
      /\ lagging \in Laggings /\ lagging \subseteq CachedKinds
      /\ DOMAIN cache = lagging /\ behind = {}
      /\ queued = FALSE /\ pc = "idle" /\ waiting = FALSE /\ gauge = 0 /\ faults = 0 /\ trouble = 0
  BY ListenerAssumption DEF Init
<1>2. /\ See("al") = NoAl /\ See("pod") = NoPod
      /\ See("sa") = 0 /\ See("role") = 0 /\ See("rb") = 0
  BY DEF Init, See, Api, Kinds
<1>3. TypeOK
  <2>1. res \in [Kinds -> {0} \cup Gens]
    BY DEF Init
  <2>2. 0 \in 0..MaxFaults /\ 0 \in 0..MaxTrouble
    BY ListenerAssumption
  <2> QED
    BY <1>1, <2>1, <2>2, Blanks DEF TypeOK
<1>4. CacheInv
  BY <1>1, <1>2, Blanks DEF CacheInv, See
<1>5. GenInv /\ RoleInv
  BY <1>1 DEF GenInv, RoleInv, NoAl, NoPod
<1>6. HoldInv /\ GaugeInv /\ ConfigInv /\ PodInv /\ LeftInv /\ AccountInv
  BY <1>1, <1>2 DEF HoldInv, GaugeInv, ConfigInv, PodInv, LeftInv, AccountInv, Cleaning, Kinds, NoPod
<1>7. BindingInv /\ RightsInv
  BY <1>1, <1>2 DEF BindingInv, RightsInv, NoAl
<1> QED
  BY <1>3, <1>4, <1>5, <1>6, <1>7 DEF IInv

(* Every step keeps the invariant. *)
LEMMA StepInv ==
  ASSUME IInv, [Next]_vars
  PROVE  IInv'
<1>1. CASE Next
  BY <1>1, TypeStep, CacheStep, GenStep, HoldStep, GaugeStep, ConfigStep, PodStep, LeftStep,
     AccountStep, RoleStep, BindingStep, RightsStep DEF IInv
<1>2. CASE UNCHANGED vars
  <2>1. TypeOK' /\ CacheInv' /\ GenInv'
    BY <1>2 DEF IInv, vars, TypeOK, CacheInv, GenInv
  <2>2. HoldInv' /\ GaugeInv' /\ ConfigInv' /\ PodInv' /\ LeftInv'
    BY <1>2 DEF IInv, vars, HoldInv, GaugeInv, ConfigInv, PodInv, LeftInv, See, Api
  <2>3. AccountInv' /\ RoleInv' /\ BindingInv' /\ RightsInv'
    BY <1>2 DEF IInv, vars, AccountInv, RoleInv, BindingInv, RightsInv, See, Api
  <2> QED
    BY <2>1, <2>2, <2>3 DEF IInv
<1> QED
  BY <1>1, <1>2

(* Theorem: the invariant is inductive. What a listener pod needs is of one *)
(* generation, and the finalizer holds until the cleanup has found nothing  *)
(* that it can see.                                                         *)
THEOREM AutoscalingListenerInvariant == Spec => []IInv
  BY InitInv, StepInv, PTL DEF Spec

(* Theorem: no listener pod starts from the config of an earlier            *)
(* generation, a pod beside a live AutoscalingListener is of its            *)
(* generation, and it has its account, its role and its binding, except     *)
(* with the stale caches that OneGeneration names.                          *)
THEOREM AutoscalingListenerConsistent == Spec => []Consistent
<1>1. IInv => Consistent
  <2> SUFFICES ASSUME IInv PROVE Consistent
    OBVIOUS
  <2>1. pod.st = "running" => pod.serves >= pod.gen
    BY DEF IInv, ConfigInv
  <2>2. pod.st # "none" /\ al.st = "up" /\ "pod" \notin lagging => pod.gen = al.gen
    BY DEF IInv, PodInv
  <2> QED
    BY <2>1, <2>2 DEF IInv, Consistent, OneGeneration, RightsInv
<1> QED
  BY <1>1, AutoscalingListenerInvariant, PTL

(* Theorem: an AutoscalingListener that is gone left neither role nor role  *)
(* binding, when the caches of these two are up to date, and never a metric *)
(* that counts it.                                                          *)
THEOREM AutoscalingListenerLeavesNothing == Spec => []NoLeftovers
<1>1. IInv => NoLeftovers
  <2> SUFFICES ASSUME IInv, al.st = "none"
               PROVE  /\ gauge = 0
                      /\ (lagging \cap {"role", "rb"} = {} => res["role"] = 0 /\ res["rb"] = 0)
    BY DEF NoLeftovers
  <2>1. ~al.fin /\ gauge \in {0, 1}
    BY DEF IInv, TypeOK, NoAl
  <2> QED
    BY <2>1 DEF IInv, GaugeInv, LeftInv
<1> QED
  BY <1>1, AutoscalingListenerInvariant, PTL
=============================================================================
