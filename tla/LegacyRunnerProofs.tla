------------------------- MODULE LegacyRunnerProofs --------------------------
(*****************************************************************************)
(* Theorems about LegacyRunner, for every value of its constants: with a     *)
(* Runner cache that lags or not, for ephemeral and static runners, with     *)
(* and without container mode kubernetes, and for any number of failed       *)
(* calls, crashes and deletions by a user.                                   *)
(*****************************************************************************)
EXTENDS LegacyRunner, TLAPS

(* The Runner as TypeOK has it. *)
RunnerType == [st : {"none", "live", "deleting"}, fin : BOOLEAN, token : BOOLEAN, synced : BOOLEAN]

(* The calls of the pod controller. *)
PodSteps == {"idle", "finalizers", "mark", "linked", "unlink", "register", "start", "ensure", "complete",
             "drop", "force"}

(* No pod means none of its fields; the registration of a pod that is not    *)
(* running has no job; the second finalizer is for container mode kubernetes. *)
PodInv ==
    /\ ~Exists => pod = NoPod
    /\ pod.lfin => Kubernetes
    /\ gh \in {"idle", "busy"} => pod.phase = "running"

(* A reconcile of a pod that is being deleted has marked the Runner before it *)
(* goes on to the calls that let the pod go, if it could read it: a guarded   *)
(* pod is there, with its finalizer, for as long as the Runner is not marked. *)
MarkInv ==
    /\ ~lag => seen = runner.st
    /\ runner.st = "live" => seen = "live"
    /\ ppc \in {"mark", "linked", "unlink", "drop", "force"} => view.del
    /\ ppc \in {"finalizers", "register"} => ~view.del
    /\ ppc \in {"linked", "unlink", "start", "ensure", "complete", "drop", "force"} /\ view.del =>
           runner.st # "live" \/ unmarked
    /\ guarded => runner.st # "live" \/ unmarked \/ (Exists /\ pod.fin)

(* As long as no cache lags and no Runner was left unmarked, a guarded pod is  *)
(* the only one there ever is: its second finalizer stays until the deletion   *)
(* of what its job made was asked for, and what the job makes after that is    *)
(* stray.                                                                      *)
LinkedInv ==
    /\ linked => Kubernetes
    /\ pod.fin => guarded
    /\ guarded /\ ~lag /\ ~unmarked =>
           /\ ppc # "idle" /\ Exists /\ view.del => pod.del
           /\ Exists /\ ~pod.del => pod.lfin = Kubernetes
           /\ linked /\ (~Exists \/ ~pod.lfin \/ ppc = "unlink") => stray

(* The stop of p is over: its runner is unregistered for good, or it has no   *)
(* container that runs or ever will.                                          *)
Over(p) == gh = "none" \/ p.phase = "stopped" \/ (p.phase = "unscheduled" /\ p.del)

(* As long as nobody forced anything: the pod stays until the Runner is gone, *)
(* and its stop is over before it is annotated as complete, the Runner before *)
(* that is marked complete and before it is deleted.                          *)
PodStays ==
    /\ pod.del => runner.st = "none"
    /\ own # "none" => runner.synced
    /\ runner.st = "deleting" \/ (runner.st = "live" /\ runner.synced) => Exists
    /\ Exists => /\ pod.complete => Over(pod)
                 /\ own = "completed" => Over(pod)
                 /\ runner.st # "live" => Over(pod)

(* What the pod controller's copy says of the pod it is a copy of. *)
ViewHolds ==
    ppc # "idle" =>
        /\ view.del => runner.st = "none"
        /\ ~Exists => runner.st = "none"
        /\ Exists => /\ view.complete => pod.complete
                     /\ view.phase = "stopped" => pod.phase = "stopped"
                     /\ view.phase = "unscheduled" /\ view.del => pod.phase = "unscheduled" /\ pod.del
                     /\ ppc = "complete" => Over(pod)

(* As long as nobody forced anything, the pod and the copies of it say the  *)
(* truth about the stop, a registration that GitHub cannot reach is left by *)
(* a crash of the container only, no job was cut short, and none made      *)
(* anything after its pod's linked resources were listed.                  *)
StopInv ==
    ~forced => /\ PodStays
               /\ ViewHolds
               /\ ~crashed => gh # "ghost"
               /\ ~killed
               /\ stray => lag

(* The inductive invariant. *)
IInv == TypeOK /\ PodInv /\ MarkInv /\ LinkedInv /\ StopInv

(* A pod without anything is a pod, and so is one whose annotations or        *)
(* finalizers were edited.                                                    *)
LEMMA PodEdits ==
  /\ NoPod \in PodType
  /\ \A p \in PodType : /\ [p EXCEPT !["lfin"] = FALSE] \in PodType
                        /\ [p EXCEPT !["fin"] = FALSE] \in PodType
                        /\ [p EXCEPT !["id"] = TRUE] \in PodType
                        /\ [p EXCEPT !["start"] = TRUE] \in PodType
                        /\ [p EXCEPT !["complete"] = TRUE] \in PodType
<1>1. NoPod \in PodType
  BY DEF NoPod, PodType
<1>2. ASSUME NEW p \in PodType
      PROVE  /\ [p EXCEPT !["lfin"] = FALSE] \in PodType
             /\ [p EXCEPT !["fin"] = FALSE] \in PodType
             /\ [p EXCEPT !["id"] = TRUE] \in PodType
             /\ [p EXCEPT !["start"] = TRUE] \in PodType
             /\ [p EXCEPT !["complete"] = TRUE] \in PodType
  BY DEF PodType
<1> QED
  BY <1>1, <1>2

(* Every step keeps the types, action by action. *)
LEMMA TypeStep ==
  ASSUME TypeOK, Next
  PROVE  TypeOK'
<1> USE DEF runVars, podVars, ghVars, history, Unmarred
<1>t. /\ pod \in PodType /\ view \in PodType /\ runner \in RunnerType
      /\ faults \in 0..MaxFaults /\ trouble \in 0..MaxTrouble
      /\ MaxFaults \in Nat /\ MaxTrouble \in Nat /\ Kubernetes \in BOOLEAN
  BY LegacyRunnerAssumption DEF TypeOK, RunnerType
<1>1. CASE AddFinalizer
  BY <1>1 DEF AddFinalizer, SetRunner, TypeOK
<1>2. CASE UpdateToken
  <2>1. runner' \in RunnerType
    BY <1>2, <1>t DEF UpdateToken, Fault, InitClient, RunnerType
  <2>2. faults' \in 0..MaxFaults
    BY <1>2, <1>t DEF UpdateToken, Fault, InitClient, Exists
  <2>3. saved' \subseteq {"runner", "pod"}
    BY <1>2, <1>t DEF UpdateToken, Fault, InitClient, TypeOK
  <2>4. /\ UNCHANGED <<ephemeral, lag, seen, rbac, own, pod, linked, gh, listed, ppc, view, guarded,
                       forced, crashed, killed, stray, unmarked, trouble>>
    BY <1>2 DEF UpdateToken
  <2> QED
    BY <2>1, <2>2, <2>3, <2>4 DEF TypeOK, PodSteps, RunnerType
<1>3. CASE CreateRbac
  BY <1>3, <1>t DEF CreateRbac, TypeOK, RunnerType, PodType, NoPod, Exists
<1>4. CASE CreatePod
  <2>1. pod' \in PodType
    <3>1. \A b, c \in BOOLEAN :
            [NoPod EXCEPT !.phase = "unscheduled", !.req = b, !.complete = c] \in PodType
      BY DEF NoPod, PodType
    <3>2. NewPod \in PodType
      BY <3>1, Zenon DEF NewPod
    <3> QED
      BY <1>4, <3>2 DEF CreatePod
  <2>2. saved' \subseteq {"runner", "pod"}
    BY <1>4, <1>t DEF CreatePod, NewPod, InitClient, Registered, NoPod, TypeOK
  <2> QED
    BY <2>1, <2>2, <1>4 DEF TypeOK, CreatePod
<1>5. CASE UpdateStatus
  BY <1>5, <1>t DEF UpdateStatus, TypeOK, RunnerType, PodType, NoPod, Exists
<1>6. CASE ReleaseRunner
  BY <1>6, <1>t DEF ReleaseRunner, SetRunner, DerefClient, TypeOK, RunnerType
<1>7. CASE RunnerCacheSyncs
  BY <1>7, <1>t DEF RunnerCacheSyncs, TypeOK, RunnerType, PodType, NoPod, Exists
<1>8. CASE OwnerRequests
  <2>1. pod' \in PodType
    BY <1>8, <1>t DEF OwnerRequests, PodType, NoPod, Exists
  <2> QED
    BY <2>1, <1>8 DEF TypeOK, OwnerRequests
<1>9. CASE OwnerCompletes
  BY <1>9, <1>t DEF OwnerCompletes, TypeOK, RunnerType, PodType, NoPod, Exists
<1>10. CASE OwnerDeletes
  BY <1>10 DEF OwnerDeletes, SetRunner, Delete, TypeOK
<1>11. CASE ReadPod
  BY <1>11 DEF ReadPod, InitClient, TypeOK
<1>12. CASE AddPodFinalizers
  <2>1. pod' \in PodType
    BY <1>12, <1>t DEF AddPodFinalizers, PodStep, Done, PodType, NoPod, Exists
  <2>2. view' \in PodType
    BY <1>12, <1>t DEF AddPodFinalizers, PodStep, Done, PodType, NoPod, Exists
  <2>3. ppc' \in PodSteps
    BY <1>12, <1>t DEF AddPodFinalizers, PodStep, Done, PodSteps, TypeOK
  <2>4. guarded' \in BOOLEAN
    BY <1>12, <1>t DEF AddPodFinalizers, PodStep, Done, TypeOK, PodType
  <2>5. /\ UNCHANGED <<ephemeral, lag, runner, seen, rbac, own, linked, gh, listed, saved, forced,
                       crashed, killed, stray, unmarked, faults, trouble>>
    BY <1>12 DEF AddPodFinalizers, PodStep
  <2> QED
    BY <2>1, <2>2, <2>3, <2>4, <2>5 DEF TypeOK, PodSteps, RunnerType
<1>13. CASE MarkRunner
  <2>1. view' \in PodType
    BY <1>13, <1>t, PodEdits DEF MarkRunner, Go, Done
  <2>3. ppc' \in PodSteps
    BY <1>13 DEF MarkRunner, Go, AfterMark, Done, PodSteps
  <2>4. faults' \in 0..MaxFaults
    BY <1>13, <1>t DEF MarkRunner, Fault
  <2>5. /\ UNCHANGED <<ephemeral, lag, rbac, own, pod, linked, gh, listed, saved, guarded, forced,
                       crashed, killed, stray, trouble>>
    BY <1>13 DEF MarkRunner, PodStep
  <2> QED
    BY <2>1, <2>3, <2>4, <2>5, <1>13 DEF TypeOK, PodSteps, MarkRunner, SetRunner, Delete
<1>14. CASE ListLinked
  <2>1. view' \in PodType /\ ppc' \in PodSteps
    BY <1>14, <1>t, PodEdits DEF ListLinked, Go, Done, PodSteps
  <2>2. faults' \in 0..MaxFaults
    BY <1>14, <1>t DEF ListLinked, Fault
  <2>3. linked' \in BOOLEAN /\ killed' \in BOOLEAN /\ stray' \in BOOLEAN
    BY <1>14, Zenon DEF ListLinked, TypeOK
  <2>4. /\ UNCHANGED <<ephemeral, lag, runner, seen, rbac, own, pod, gh, listed, saved, guarded,
                       forced, crashed, unmarked, trouble>>
    BY <1>14 DEF ListLinked, PodStep
  <2> QED
    BY <2>1, <2>2, <2>3, <2>4 DEF TypeOK, PodSteps
<1>15. CASE Unlink
  <2>1. pod' \in PodType
    BY <1>15, <1>t DEF Unlink, Patch, PodType
  <2>2. view' \in PodType
    BY <1>15, <1>t, PodEdits DEF Unlink, Patch, Go, Done
  <2>3. ppc' \in PodSteps
    BY <1>15 DEF Unlink, Patch, AfterMark, Go, Done, PodSteps
  <2>4. faults' \in 0..MaxFaults
    BY <1>15, <1>t DEF Unlink, Patch, Fault
  <2>5. /\ UNCHANGED <<ephemeral, lag, runner, seen, rbac, own, linked, gh, listed, saved, guarded,
                       forced, crashed, killed, stray, unmarked, trouble>>
    BY <1>15 DEF Unlink, PodStep
  <2> QED
    BY <2>1, <2>2, <2>3, <2>4, <2>5 DEF TypeOK, PodSteps, RunnerType
<1>16. CASE AnnotateID
  <2>1. pod' \in PodType
    BY <1>16, <1>t DEF AnnotateID, Patch, PodType
  <2>2. view' \in PodType
    BY <1>16, <1>t, PodEdits DEF AnnotateID, Patch, Go, Done
  <2>3. ppc' \in PodSteps
    BY <1>16 DEF AnnotateID, Patch, AfterRegister, Go, Done, PodSteps
  <2>4. faults' \in 0..MaxFaults
    BY <1>16, <1>t DEF AnnotateID, Patch, Fault
  <2>5. /\ UNCHANGED <<ephemeral, lag, runner, seen, rbac, own, linked, gh, listed, saved, guarded,
                       forced, crashed, killed, stray, unmarked, trouble>>
    BY <1>16 DEF AnnotateID, PodStep
  <2> QED
    BY <2>1, <2>2, <2>3, <2>4, <2>5 DEF TypeOK, PodSteps, RunnerType
<1>17. CASE AnnotateStart
  <2>1. pod' \in PodType
    BY <1>17, <1>t DEF AnnotateStart, Patch, PodType
  <2>2. view' \in PodType
    BY <1>17, <1>t, PodEdits DEF AnnotateStart, Patch, Go, Done
  <2>3. ppc' \in PodSteps
    BY <1>17 DEF AnnotateStart, Patch, Go, Done, PodSteps
  <2>4. faults' \in 0..MaxFaults
    BY <1>17, <1>t DEF AnnotateStart, Patch, Fault
  <2>5. /\ UNCHANGED <<ephemeral, lag, runner, seen, rbac, own, linked, gh, listed, saved, guarded,
                       forced, crashed, killed, stray, unmarked, trouble>>
    BY <1>17 DEF AnnotateStart, PodStep
  <2> QED
    BY <2>1, <2>2, <2>3, <2>4, <2>5 DEF TypeOK, PodSteps, RunnerType
<1>18. CASE NothingToDo
  BY <1>18 DEF NothingToDo, PodStep, Go, TypeOK
<1>19. CASE GiveUpOnRegistration
  <2>1. view' \in PodType
    BY <1>19, <1>t, PodEdits DEF GiveUpOnRegistration, PodStep, Go, Done
  <2>2. ppc' \in PodSteps
    BY <1>19, <1>t DEF GiveUpOnRegistration, PodStep, Go, Done, PodSteps, TypeOK
  <2>3. forced' \in BOOLEAN
    BY <1>19, <1>t DEF GiveUpOnRegistration, PodStep, Go, Done, TypeOK
  <2>4. /\ UNCHANGED <<ephemeral, lag, runner, seen, rbac, own, pod, linked, gh, listed, saved,
                       guarded, crashed, killed, stray, unmarked, faults, trouble>>
    BY <1>19 DEF GiveUpOnRegistration, PodStep
  <2> QED
    BY <2>1, <2>2, <2>3, <2>4 DEF TypeOK, PodSteps, RunnerType
<1>20. CASE WaitForCompletion
  BY <1>20 DEF WaitForCompletion, PodStep, Done, TypeOK, PodType, NoPod
<1>21. CASE Unregister
  <2>1. pod' \in PodType
    BY <1>21, <1>t DEF Unregister, PodType
  <2>2. view' \in PodType
    BY <1>21, <1>t, PodEdits DEF Unregister, Go, Done
  <2>3. ppc' \in PodSteps
    BY <1>21 DEF Unregister, Go, Done, PodSteps
  <2>4. faults' \in 0..MaxFaults
    BY <1>21, <1>t DEF Unregister, Fault
  <2>5. forced' \in BOOLEAN
    BY <1>21 DEF Unregister, TypeOK
  <2>6. gh' \in {"never", "idle", "busy", "ghost", "none"}
    BY <1>21 DEF Unregister, TypeOK
  <2>7. /\ UNCHANGED <<ephemeral, lag, runner, seen, rbac, own, linked, listed, saved, guarded,
                       crashed, killed, stray, unmarked, trouble>>
    BY <1>21 DEF Unregister, PodStep
  <2> QED
    BY <2>1, <2>2, <2>3, <2>4, <2>5, <2>6, <2>7 DEF TypeOK, PodSteps
<1>22. CASE AnnotateComplete
  <2>1. pod' \in PodType
    BY <1>22, <1>t DEF AnnotateComplete, Patch, PodType
  <2>2. view' \in PodType
    BY <1>22, <1>t, PodEdits DEF AnnotateComplete, Patch, Go, Done
  <2>3. ppc' \in PodSteps
    BY <1>22 DEF AnnotateComplete, Patch, Go, Done, PodSteps
  <2>4. faults' \in 0..MaxFaults
    BY <1>22, <1>t DEF AnnotateComplete, Patch, Fault
  <2>5. /\ UNCHANGED <<ephemeral, lag, runner, seen, rbac, own, linked, gh, listed, saved, guarded,
                       forced, crashed, killed, stray, unmarked, trouble>>
    BY <1>22 DEF AnnotateComplete, PodStep
  <2> QED
    BY <2>1, <2>2, <2>3, <2>4, <2>5 DEF TypeOK, PodSteps, RunnerType
<1>23. CASE DropFinalizer
  <2>1. pod' \in PodType
    BY <1>23, <1>t DEF DropFinalizer, Patch, PodType
  <2>2. view' \in PodType
    BY <1>23, <1>t, PodEdits DEF DropFinalizer, Patch, Go, Done
  <2>3. ppc' \in PodSteps
    BY <1>23 DEF DropFinalizer, Patch, Go, Done, PodSteps
  <2>4. faults' \in 0..MaxFaults
    BY <1>23, <1>t DEF DropFinalizer, Patch, Fault
  <2>5. saved' \subseteq {"runner", "pod"}
    BY <1>23 DEF DropFinalizer, DerefClient, TypeOK
  <2>6. /\ UNCHANGED <<ephemeral, lag, runner, seen, rbac, own, linked, gh, listed, guarded, forced,
                       crashed, killed, stray, unmarked, trouble>>
    BY <1>23 DEF DropFinalizer, PodStep
  <2> QED
    BY <2>1, <2>2, <2>3, <2>4, <2>5, <2>6 DEF TypeOK, PodSteps
<1>24. CASE ForceDelete
  <2>1. pod' \in PodType
    BY <1>24, <1>t, PodEdits DEF ForceDelete, Done, Vanish
  <2>2. view' \in PodType
    BY <1>24, <1>t DEF ForceDelete, Done, Vanish, PodType, NoPod, Exists
  <2>3. ppc' \in PodSteps
    BY <1>24, <1>t DEF ForceDelete, Done, Vanish, PodSteps, TypeOK
  <2>4. killed' \in BOOLEAN
    BY <1>24, <1>t DEF ForceDelete, Done, Vanish, TypeOK
  <2>5. gh' \in {"never", "idle", "busy", "ghost", "none"}
    BY <1>24, <1>t DEF ForceDelete, Done, Vanish, TypeOK
  <2>6. /\ UNCHANGED <<ephemeral, lag, runner, seen, rbac, own, linked, listed, saved, guarded, forced,
                       crashed, stray, unmarked, faults, trouble>>
    BY <1>24 DEF ForceDelete
  <2> QED
    BY <2>1, <2>2, <2>3, <2>4, <2>5, <2>6 DEF TypeOK, PodSteps
<1>25. CASE PodStarts
  BY <1>25 DEF PodStarts, TypeOK, PodType
<1>26. CASE PodIsLate
  <2>1. pod' \in PodType
    BY <1>26, <1>t DEF PodIsLate, PodType, NoPod, Exists
  <2>2. /\ UNCHANGED <<ephemeral, lag, runner, seen, rbac, own, linked, gh, listed, saved, ppc, view,
                       guarded, forced, crashed, killed, stray, unmarked, faults, trouble>>
    BY <1>26 DEF PodIsLate
  <2> QED
    BY <2>1, <2>2 DEF TypeOK, PodSteps, RunnerType
<1>27. CASE KubeletKills
  BY <1>27 DEF KubeletKills, TypeOK, PodType
<1>28. CASE PodGoes
  BY <1>28 DEF PodGoes, Vanish, TypeOK, PodType, NoPod
<1>29. CASE GarbageCollect
  <2>1. pod' \in PodType
    BY <1>29, <1>t DEF GarbageCollect, PodType, NoPod, Exists
  <2> QED
    BY <2>1, <1>29 DEF TypeOK, GarbageCollect
<1>30. CASE ListRefreshes
  BY <1>30 DEF ListRefreshes, Registered, TypeOK
<1>31. CASE JobEnds
  <2>1. pod' \in PodType
    BY <1>31, <1>t DEF JobEnds, PodType, NoPod, Exists
  <2>3. /\ UNCHANGED <<ephemeral, lag, runner, seen, rbac, own, listed, saved, ppc, view, guarded,
                       forced, crashed, killed, stray, unmarked, faults, trouble>>
    BY <1>31 DEF JobEnds
  <2> QED
    BY <2>1, <2>3, <1>31 DEF TypeOK, JobEnds
<1>32. CASE RunnerExits
  BY <1>32, <1>t DEF RunnerExits, TypeOK, RunnerType, PodType, NoPod, Exists
<1>33. CASE Registers
  BY <1>33, <1>t DEF Registers, TypeOK, RunnerType, PodType, NoPod, Exists
<1>34. CASE JobStarts
  <2>1. linked' \in BOOLEAN /\ stray' \in BOOLEAN
    BY <1>34, <1>t DEF JobStarts, MakeLinked, TypeOK
  <2> QED
    BY <1>34, <2>1 DEF JobStarts, MakeLinked, TypeOK
<1>35. CASE ContainerCrashes
  BY <1>35, <1>t DEF ContainerCrashes, Trouble, TypeOK, PodType
<1>36. CASE TokenExpires
  <2>1. runner' \in RunnerType
    BY <1>36, <1>t DEF TokenExpires, Trouble, RunnerType
  <2>2. trouble' \in 0..MaxTrouble
    BY <1>36, <1>t DEF TokenExpires, Trouble, Exists
  <2>3. /\ UNCHANGED <<ephemeral, lag, seen, rbac, own, pod, linked, gh, listed, saved, ppc, view,
                       guarded, forced, crashed, killed, stray, unmarked, faults>>
    BY <1>36 DEF TokenExpires
  <2> QED
    BY <2>1, <2>2, <2>3 DEF TypeOK, PodSteps, RunnerType
<1>37. CASE UserDeletesPod
  <2>1. pod' \in PodType
    BY <1>37, <1>t DEF UserDeletesPod, Trouble, PodType, NoPod, Exists
  <2>2. trouble' \in 0..MaxTrouble
    BY <1>37, <1>t DEF UserDeletesPod, Trouble, Exists
  <2>3. forced' \in BOOLEAN
    BY <1>37, <1>t DEF UserDeletesPod, Trouble, TypeOK
  <2>4. /\ UNCHANGED <<ephemeral, lag, runner, seen, rbac, own, linked, gh, listed, saved, ppc, view,
                       guarded, crashed, killed, stray, unmarked, faults>>
    BY <1>37 DEF UserDeletesPod
  <2> QED
    BY <2>1, <2>2, <2>3, <2>4 DEF TypeOK, PodSteps, RunnerType
<1>38. CASE UserDeletesRunner
  BY <1>38, <1>t DEF UserDeletesRunner, Trouble, SetRunner, Delete, TypeOK
<1>39. CASE JobGoesOn
  <2>1. linked' \in BOOLEAN /\ stray' \in BOOLEAN
    BY <1>39, <1>t DEF JobGoesOn, MakeLinked, TypeOK
  <2> QED
    BY <1>39, <2>1 DEF JobGoesOn, MakeLinked, TypeOK
<1> QED
  BY <1>1, <1>2, <1>3, <1>4, <1>5, <1>6, <1>7, <1>8, <1>9, <1>10, <1>11, <1>12, <1>13, <1>14, <1>15,
     <1>16, <1>17, <1>18, <1>19, <1>20, <1>21, <1>22, <1>23, <1>24, <1>25, <1>26, <1>27, <1>28,
     <1>29, <1>30, <1>31, <1>32, <1>33, <1>34, <1>35, <1>36, <1>37, <1>38, <1>39 DEF Next,
     RunnerController, Owner, PodController, Cluster, GitHub

(* Every step keeps the order in which pod and Runner go, action by action. *)
LEMMA OrderStep ==
  ASSUME TypeOK, PodInv, MarkInv, Next
  PROVE  PodInv' /\ MarkInv'
<1> USE DEF runVars, podVars, ghVars, history, Unmarred
<1>t. /\ pod \in PodType /\ view \in PodType /\ runner \in RunnerType
      /\ seen \in {"none", "live", "deleting"} /\ lag \in BOOLEAN
  BY DEF TypeOK, RunnerType
<1>1. CASE AddFinalizer
  <2>1. PodInv'
    BY <1>1 DEF AddFinalizer, PodInv, Exists
  <2>2. MarkInv'
    BY <1>1 DEF AddFinalizer, SetRunner, MarkInv, Exists
  <2> QED
    BY <2>1, <2>2
<1>2. CASE UpdateToken
  <2>1. PodInv'
    BY <1>2 DEF UpdateToken, PodInv, Exists
  <2>2. MarkInv'
    BY <1>2, <1>t DEF UpdateToken, MarkInv, RunnerType
  <2> QED
    BY <2>1, <2>2
<1>3. CASE CreateRbac
  <2>1. PodInv'
    BY <1>3 DEF CreateRbac, PodInv, Exists
  <2>2. MarkInv'
    BY <1>3 DEF CreateRbac, MarkInv, Exists
  <2> QED
    BY <2>1, <2>2
<1>4. CASE CreatePod
  <2>1. PodInv'
    BY <1>4 DEF CreatePod, NewPod, PodInv, Exists
  <2>2. MarkInv'
    BY <1>4 DEF CreatePod, MarkInv
  <2> QED
    BY <2>1, <2>2
<1>5. CASE UpdateStatus
  <2>1. PodInv'
    BY <1>5 DEF UpdateStatus, PodInv, Exists
  <2>2. MarkInv'
    BY <1>5 DEF UpdateStatus, MarkInv, Exists
  <2> QED
    BY <2>1, <2>2
<1>6. CASE ReleaseRunner
  <2>1. PodInv'
    BY <1>6 DEF ReleaseRunner, PodInv, Exists
  <2>2. MarkInv'
    BY <1>6 DEF ReleaseRunner, SetRunner, MarkInv
  <2> QED
    BY <2>1, <2>2
<1>7. CASE RunnerCacheSyncs
  <2>1. PodInv'
    BY <1>7 DEF RunnerCacheSyncs, PodInv, Exists
  <2>2. MarkInv'
    BY <1>7 DEF RunnerCacheSyncs, MarkInv, Exists
  <2> QED
    BY <2>1, <2>2
<1>8. CASE OwnerRequests
  <2>1. PodInv'
    BY <1>8 DEF OwnerRequests, PodInv, Exists
  <2>2. MarkInv'
    BY <1>8 DEF OwnerRequests, MarkInv, Exists
  <2> QED
    BY <2>1, <2>2
<1>9. CASE OwnerCompletes
  <2>1. PodInv'
    BY <1>9 DEF OwnerCompletes, PodInv, Exists
  <2>2. MarkInv'
    BY <1>9 DEF OwnerCompletes, MarkInv, Exists
  <2> QED
    BY <2>1, <2>2
<1>10. CASE OwnerDeletes
  <2>1. PodInv'
    BY <1>10 DEF OwnerDeletes, PodInv, Exists
  <2>2. MarkInv'
    BY <1>10 DEF OwnerDeletes, SetRunner, Delete, MarkInv
  <2> QED
    BY <2>1, <2>2
<1>11. CASE ReadPod
  <2>1. PodInv'
    BY <1>11 DEF ReadPod, PodInv, Exists
  <2>2. MarkInv'
    BY <1>11 DEF ReadPod, MarkInv, Exists
  <2> QED
    BY <2>1, <2>2
<1>12. CASE AddPodFinalizers
  <2>1. PodInv'
    BY <1>12 DEF AddPodFinalizers, PodInv, Exists
  <2>2. MarkInv'
    BY <1>12, <1>t DEF AddPodFinalizers, PodStep, Done, PodInv, MarkInv, PodType, Exists, NoPod
  <2> QED
    BY <2>1, <2>2
<1>13. CASE MarkRunner
  <2>1. PodInv'
    BY <1>13 DEF MarkRunner, PodStep, PodInv, Exists
  <2>2. MarkInv'
    BY <1>13, <1>t DEF MarkRunner, PodStep, SetRunner, Delete, Go, AfterMark, Done, MarkInv, RunnerType,
       Exists
  <2> QED
    BY <2>1, <2>2
<1>14. CASE ListLinked
  <2>1. PodInv'
    BY <1>14 DEF ListLinked, PodStep, PodInv, Exists
  <2>2. MarkInv'
    BY <1>14 DEF ListLinked, PodStep, Go, Done, MarkInv, Exists
  <2> QED
    BY <2>1, <2>2
<1>15. CASE Unlink
  <2>1. PodInv'
    BY <1>15, <1>t DEF Unlink, Patch, PodInv, PodType, Exists
  <2>2. MarkInv'
    BY <1>15, <1>t DEF Unlink, PodStep, Patch, AfterMark, Go, Done, MarkInv, PodType
  <2> QED
    BY <2>1, <2>2
<1>16. CASE AnnotateID
  <2>1. PodInv'
    BY <1>16, <1>t DEF AnnotateID, Patch, PodInv, PodType, Exists
  <2>2. MarkInv'
    BY <1>16, <1>t DEF AnnotateID, PodStep, Patch, AfterRegister, Go, Done, MarkInv, PodType, Exists
  <2> QED
    BY <2>1, <2>2
<1>17. CASE AnnotateStart
  <2>1. PodInv'
    BY <1>17, <1>t DEF AnnotateStart, Patch, PodInv, PodType, Exists
  <2>2. MarkInv'
    BY <1>17, <1>t DEF AnnotateStart, PodStep, Patch, Go, Done, MarkInv, PodType, Exists
  <2> QED
    BY <2>1, <2>2
<1>18. CASE NothingToDo
  <2>1. PodInv'
    BY <1>18 DEF NothingToDo, PodStep, PodInv, Exists
  <2>2. MarkInv'
    BY <1>18 DEF NothingToDo, PodStep, Go, MarkInv, Exists
  <2> QED
    BY <2>1, <2>2
<1>19. CASE GiveUpOnRegistration
  <2>1. PodInv'
    BY <1>19 DEF GiveUpOnRegistration, PodStep, PodInv, Exists
  <2>2. MarkInv'
    BY <1>19 DEF GiveUpOnRegistration, PodStep, Go, Done, MarkInv, Exists
  <2> QED
    BY <2>1, <2>2
<1>20. CASE WaitForCompletion
  <2>1. PodInv'
    BY <1>20 DEF WaitForCompletion, PodStep, PodInv, Exists
  <2>2. MarkInv'
    BY <1>20 DEF WaitForCompletion, PodStep, Done, MarkInv, Exists
  <2> QED
    BY <2>1, <2>2
<1>21. CASE Unregister
  <2>1. PodInv'
    BY <1>21, <1>t DEF Unregister, PodInv, PodType, Exists
  <2>2. MarkInv'
    BY <1>21, <1>t DEF Unregister, PodStep, Go, Done, MarkInv, PodType, Exists
  <2> QED
    BY <2>1, <2>2
<1>22. CASE AnnotateComplete
  <2>1. PodInv'
    BY <1>22, <1>t DEF AnnotateComplete, Patch, PodInv, PodType, Exists
  <2>2. MarkInv'
    BY <1>22, <1>t DEF AnnotateComplete, PodStep, Patch, Go, Done, MarkInv, PodType, Exists
  <2> QED
    BY <2>1, <2>2
<1>23. CASE DropFinalizer
  <2>1. PodInv'
    BY <1>23, <1>t DEF DropFinalizer, Patch, PodInv, PodType, Exists
  <2>2. MarkInv'
    BY <1>23 DEF DropFinalizer, PodStep, Patch, Go, Done, MarkInv
  <2> QED
    BY <2>1, <2>2
<1>24. CASE ForceDelete
  <2>1. PodInv'
    BY <1>24 DEF ForceDelete, Vanish, PodInv, Exists, NoPod
  <2>2. MarkInv'
    BY <1>24 DEF ForceDelete, Done, MarkInv
  <2> QED
    BY <2>1, <2>2
<1>25. CASE PodStarts
  <2>1. PodInv'
    BY <1>25 DEF PodStarts, PodInv, Exists
  <2>2. MarkInv'
    BY <1>25 DEF PodStarts, MarkInv, Exists
  <2> QED
    BY <2>1, <2>2
<1>26. CASE PodIsLate
  <2>1. PodInv'
    BY <1>26 DEF PodIsLate, PodInv, Exists
  <2>2. MarkInv'
    BY <1>26 DEF PodIsLate, MarkInv, Exists
  <2> QED
    BY <2>1, <2>2
<1>27. CASE KubeletKills
  <2>1. PodInv'
    BY <1>27 DEF KubeletKills, Registered, PodInv, Exists
  <2>2. MarkInv'
    BY <1>27 DEF KubeletKills, MarkInv, Exists
  <2> QED
    BY <2>1, <2>2
<1>28. CASE PodGoes
  <2>1. PodInv'
    BY <1>28 DEF PodGoes, Vanish, PodInv, NoPod
  <2>2. MarkInv'
    BY <1>28 DEF PodGoes, MarkInv
  <2> QED
    BY <2>1, <2>2
<1>29. CASE GarbageCollect
  <2>1. PodInv'
    BY <1>29 DEF GarbageCollect, PodInv, Exists
  <2>2. MarkInv'
    BY <1>29 DEF GarbageCollect, MarkInv
  <2> QED
    BY <2>1, <2>2
<1>30. CASE ListRefreshes
  <2>1. PodInv'
    BY <1>30 DEF ListRefreshes, PodInv, Exists
  <2>2. MarkInv'
    BY <1>30 DEF ListRefreshes, MarkInv, Exists
  <2> QED
    BY <2>1, <2>2
<1>31. CASE JobEnds
  <2>1. PodInv'
    BY <1>31 DEF JobEnds, PodInv, Exists
  <2>2. MarkInv'
    BY <1>31 DEF JobEnds, MarkInv, Exists
  <2> QED
    BY <2>1, <2>2
<1>32. CASE RunnerExits
  <2>1. PodInv'
    BY <1>32 DEF RunnerExits, PodInv, Exists
  <2>2. MarkInv'
    BY <1>32 DEF RunnerExits, MarkInv, Exists
  <2> QED
    BY <2>1, <2>2
<1>33. CASE Registers
  <2>1. PodInv'
    BY <1>33 DEF Registers, PodInv, Exists
  <2>2. MarkInv'
    BY <1>33 DEF Registers, MarkInv, Exists
  <2> QED
    BY <2>1, <2>2
<1>34. CASE JobStarts
  <2>1. PodInv'
    BY <1>34 DEF JobStarts, MakeLinked, PodInv, Exists
  <2>2. MarkInv'
    BY <1>34 DEF JobStarts, MakeLinked, MarkInv, Exists
  <2> QED
    BY <2>1, <2>2
<1>35. CASE ContainerCrashes
  <2>1. PodInv'
    BY <1>35 DEF ContainerCrashes, Registered, PodInv, Exists
  <2>2. MarkInv'
    BY <1>35 DEF ContainerCrashes, MarkInv, Exists
  <2> QED
    BY <2>1, <2>2
<1>36. CASE TokenExpires
  <2>1. PodInv'
    BY <1>36 DEF TokenExpires, PodInv, Exists
  <2>2. MarkInv'
    BY <1>36 DEF TokenExpires, MarkInv
  <2> QED
    BY <2>1, <2>2
<1>37. CASE UserDeletesPod
  <2>1. PodInv'
    BY <1>37 DEF UserDeletesPod, PodInv, Exists
  <2>2. MarkInv'
    BY <1>37 DEF UserDeletesPod, MarkInv, Exists
  <2> QED
    BY <2>1, <2>2
<1>38. CASE UserDeletesRunner
  <2>1. PodInv'
    BY <1>38 DEF UserDeletesRunner, PodInv, Exists
  <2>2. MarkInv'
    BY <1>38 DEF UserDeletesRunner, SetRunner, Delete, MarkInv
  <2> QED
    BY <2>1, <2>2
<1>39. CASE JobGoesOn
  <2>1. PodInv'
    BY <1>39 DEF JobGoesOn, MakeLinked, PodInv, Exists
  <2>2. MarkInv'
    BY <1>39 DEF JobGoesOn, MakeLinked, MarkInv, Exists
  <2> QED
    BY <2>1, <2>2
<1> QED
  BY <1>1, <1>2, <1>3, <1>4, <1>5, <1>6, <1>7, <1>8, <1>9, <1>10, <1>11, <1>12, <1>13, <1>14, <1>15,
     <1>16, <1>17, <1>18, <1>19, <1>20, <1>21, <1>22, <1>23, <1>24, <1>25, <1>26, <1>27, <1>28,
     <1>29, <1>30, <1>31, <1>32, <1>33, <1>34, <1>35, <1>36, <1>37, <1>38, <1>39 DEF Next,
     RunnerController, Owner, PodController, Cluster, GitHub

(* Every step keeps what is known of the linked resources. *)
LEMMA LinkedStep ==
  ASSUME TypeOK, PodInv, MarkInv, LinkedInv, Next
  PROVE  LinkedInv'
<1> USE DEF runVars, podVars, ghVars, history, Unmarred
<1>t. /\ pod \in PodType /\ view \in PodType /\ Kubernetes \in BOOLEAN
      /\ linked \in BOOLEAN /\ stray \in BOOLEAN /\ guarded \in BOOLEAN
  BY LegacyRunnerAssumption DEF TypeOK
<1>1. CASE UNCHANGED <<pod, linked, lag, ppc, view, guarded, stray, unmarked>>
  BY <1>1 DEF LinkedInv, Exists
<1>2. CASE CreatePod
  BY <1>2, <1>t DEF CreatePod, NewPod, NoPod, MarkInv, LinkedInv, PodInv, Exists
<1>3. CASE OwnerRequests
  BY <1>3, <1>t DEF OwnerRequests, LinkedInv, PodType, Exists
<1>4. CASE ReadPod
  BY <1>4 DEF ReadPod, LinkedInv, Exists
<1>5. CASE AddPodFinalizers
  BY <1>5, <1>t DEF AddPodFinalizers, PodStep, Done, LinkedInv, PodInv, PodType, Exists
<1>6. CASE MarkRunner
  BY <1>6 DEF MarkRunner, PodStep, Go, Done, AfterMark, LinkedInv, MarkInv, Exists
<1>7. CASE ListLinked
  BY <1>7, <1>t DEF ListLinked, PodStep, Go, Done, LinkedInv, Exists
<1>8. CASE Unlink
  BY <1>8, <1>t DEF Unlink, PodStep, Patch, AfterMark, Go, Done, LinkedInv, MarkInv, PodType, Exists
<1>9. CASE AnnotateID
  BY <1>9, <1>t DEF AnnotateID, PodStep, Patch, AfterRegister, Go, Done, LinkedInv, MarkInv, PodType, NoPod, Exists
<1>10. CASE AnnotateStart
  BY <1>10, <1>t DEF AnnotateStart, PodStep, Patch, Go, Done, LinkedInv, PodType, Exists
<1>11. CASE NothingToDo \/ GiveUpOnRegistration \/ WaitForCompletion
  BY <1>11, <1>t DEF NothingToDo, GiveUpOnRegistration, WaitForCompletion, PodStep, Go, Done, LinkedInv, Exists
<1>12. CASE Unregister
  BY <1>12, <1>t DEF Unregister, PodStep, Go, Done, LinkedInv, PodType, Exists
<1>13. CASE AnnotateComplete
  BY <1>13, <1>t DEF AnnotateComplete, PodStep, Patch, Go, Done, LinkedInv, PodType, Exists
<1>14. CASE DropFinalizer
  BY <1>14, <1>t DEF DropFinalizer, PodStep, Patch, Go, Done, LinkedInv, MarkInv, PodType, Exists
<1>15. CASE ForceDelete
  BY <1>15, <1>t DEF ForceDelete, Vanish, Done, LinkedInv, NoPod, Exists
<1>16. CASE PodStarts
  BY <1>16, <1>t DEF PodStarts, Pending, LinkedInv, PodType, Exists
<1>17. CASE PodIsLate \/ KubeletKills \/ RunnerExits \/ ContainerCrashes
  BY <1>17, <1>t DEF PodIsLate, KubeletKills, RunnerExits, ContainerCrashes, LinkedInv, PodType, Exists
<1>18. CASE PodGoes
  BY <1>18, <1>t DEF PodGoes, Vanish, LinkedInv, NoPod, Exists
<1>19. CASE GarbageCollect \/ UserDeletesPod
  BY <1>19, <1>t DEF GarbageCollect, UserDeletesPod, LinkedInv, PodType, Exists
<1>20. CASE JobStarts \/ JobGoesOn
  BY <1>20, <1>t DEF JobStarts, JobGoesOn, MakeLinked, LinkedInv, MarkInv, Exists
<1>21. CASE JobEnds
  BY <1>21, <1>t DEF JobEnds, LinkedInv, PodType, Exists
<1>u. Next =>
        \/ UNCHANGED <<pod, linked, lag, ppc, view, guarded, stray, unmarked>>
        \/ CreatePod \/ OwnerRequests \/ ReadPod \/ AddPodFinalizers \/ MarkRunner \/ ListLinked
        \/ Unlink \/ AnnotateID \/ AnnotateStart \/ NothingToDo \/ GiveUpOnRegistration
        \/ WaitForCompletion \/ Unregister \/ AnnotateComplete \/ DropFinalizer \/ ForceDelete
        \/ PodStarts \/ PodIsLate \/ KubeletKills \/ RunnerExits \/ ContainerCrashes \/ PodGoes
        \/ GarbageCollect \/ UserDeletesPod \/ JobStarts \/ JobGoesOn \/ JobEnds
  BY DEF Next, RunnerController, Owner, PodController, Cluster, GitHub, AddFinalizer, UpdateToken,
     CreateRbac, UpdateStatus, ReleaseRunner, RunnerCacheSyncs, OwnerCompletes, OwnerDeletes,
     ListRefreshes, Registers, TokenExpires, UserDeletesRunner
<1> QED
  BY <1>1, <1>2, <1>3, <1>4, <1>5, <1>6, <1>7, <1>8, <1>9, <1>10, <1>11, <1>12, <1>13, <1>14, <1>15,
     <1>16, <1>17, <1>18, <1>19, <1>20, <1>21, <1>u

(* Every step that forces nothing keeps the stop honest, action by action;  *)
(* under each action the parts it can disturb.                              *)
LEMMA StopStep ==
  ASSUME TypeOK, PodInv, MarkInv, StopInv, Next
  PROVE  StopInv'
<1> USE DEF runVars, podVars, ghVars, history, Unmarred
<1> SUFFICES ASSUME ~forced'
             PROVE  PodStays' /\ ViewHolds' /\ (~crashed' => gh' # "ghost") /\ ~killed' /\ (stray' => lag')
  BY DEF StopInv
<1>t. /\ pod \in PodType /\ view \in PodType /\ runner \in RunnerType
      /\ seen \in {"none", "live", "deleting"} /\ lag \in BOOLEAN
  BY DEF TypeOK, RunnerType
<1>f. ~forced
  BY DEF Next, RunnerController, Owner, PodController, Cluster, GitHub, AddFinalizer, UpdateToken,
     CreateRbac, CreatePod, UpdateStatus, ReleaseRunner, RunnerCacheSyncs, OwnerRequests,
     OwnerCompletes, OwnerDeletes, ReadPod, AddPodFinalizers, MarkRunner, ListLinked, Unlink,
     AnnotateID, AnnotateStart, NothingToDo, GiveUpOnRegistration, WaitForCompletion, Unregister,
     AnnotateComplete, DropFinalizer, ForceDelete, PodStarts, PodIsLate, KubeletKills, PodGoes,
     GarbageCollect, ListRefreshes, JobEnds, RunnerExits, Registers, JobStarts, JobGoesOn,
     MakeLinked, ContainerCrashes,
     TokenExpires, UserDeletesPod, UserDeletesRunner
<1>i. PodStays /\ ViewHolds /\ (~crashed => gh # "ghost") /\ ~killed /\ (stray => lag)
  BY <1>f DEF StopInv
<1>1. CASE AddFinalizer
  <2>1. PodStays'
    BY <1>1, <1>i DEF AddFinalizer, SetRunner, PodStays, Over, Exists
  <2>2. ViewHolds'
    BY <1>1, <1>i DEF AddFinalizer, ViewHolds, Over, Exists
  <2>3. ~crashed' => gh' # "ghost"
    BY <1>1, <1>i DEF AddFinalizer, Exists, Over
  <2>4. ~killed' /\ (stray' => lag')
    BY <1>1, <1>i DEF AddFinalizer, Exists, Over
  <2> QED
    BY <2>1, <2>2, <2>3, <2>4
<1>2. CASE UpdateToken
  <2>1. PodStays'
    BY <1>2, <1>t, <1>i DEF UpdateToken, PodStays, RunnerType, Exists
  <2>2. ViewHolds'
    BY <1>2, <1>i DEF UpdateToken, ViewHolds
  <2>3. ~crashed' => gh' # "ghost"
    BY <1>2, <1>i DEF UpdateToken, Exists, Over
  <2>4. ~killed' /\ (stray' => lag')
    BY <1>2, <1>i DEF UpdateToken, Exists, Over
  <2> QED
    BY <2>1, <2>2, <2>3, <2>4
<1>3. CASE CreateRbac
  <2>1. PodStays'
    BY <1>3, <1>i DEF CreateRbac, PodStays, Exists, Over
  <2>2. ViewHolds'
    BY <1>3, <1>i DEF CreateRbac, ViewHolds, Exists, Over
  <2>3. ~crashed' => gh' # "ghost"
    BY <1>3, <1>i DEF CreateRbac, Exists, Over
  <2>4. ~killed' /\ (stray' => lag')
    BY <1>3, <1>i DEF CreateRbac, Exists, Over
  <2> QED
    BY <2>1, <2>2, <2>3, <2>4
<1>4. CASE CreatePod
  <2>1. PodStays'
    BY <1>4, <1>t, <1>i DEF CreatePod, NewPod, PodInv, PodStays, RunnerType
  <2>2. ViewHolds'
    BY <1>4, <1>i DEF CreatePod, ViewHolds
  <2>3. ~crashed' => gh' # "ghost"
    BY <1>4, <1>i DEF CreatePod
  <2>4. ~killed' /\ (stray' => lag')
    BY <1>4, <1>i DEF CreatePod, Exists, Over
  <2> QED
    BY <2>1, <2>2, <2>3, <2>4
<1>5. CASE UpdateStatus
  <2>1. PodStays'
    BY <1>5, <1>i DEF UpdateStatus, PodStays, Over, Exists
  <2>2. ViewHolds'
    BY <1>5, <1>i DEF UpdateStatus, ViewHolds, Over, Exists
  <2>3. ~crashed' => gh' # "ghost"
    BY <1>5, <1>i DEF UpdateStatus, Exists, Over
  <2>4. ~killed' /\ (stray' => lag')
    BY <1>5, <1>i DEF UpdateStatus, Exists, Over
  <2> QED
    BY <2>1, <2>2, <2>3, <2>4
<1>6. CASE ReleaseRunner
  <2>1. PodStays'
    BY <1>6, <1>i DEF ReleaseRunner, SetRunner, PodStays, Over
  <2>2. ViewHolds'
    BY <1>6, <1>i DEF ReleaseRunner, SetRunner, ViewHolds, Over
  <2>3. ~crashed' => gh' # "ghost"
    BY <1>6, <1>i DEF ReleaseRunner, Exists, Over
  <2>4. ~killed' /\ (stray' => lag')
    BY <1>6, <1>i DEF ReleaseRunner, Exists, Over
  <2> QED
    BY <2>1, <2>2, <2>3, <2>4
<1>7. CASE RunnerCacheSyncs
  <2>1. PodStays'
    BY <1>7, <1>i DEF RunnerCacheSyncs, PodStays, Exists, Over
  <2>2. ViewHolds'
    BY <1>7, <1>i DEF RunnerCacheSyncs, ViewHolds, Exists, Over
  <2>3. ~crashed' => gh' # "ghost"
    BY <1>7, <1>i DEF RunnerCacheSyncs, Exists, Over
  <2>4. ~killed' /\ (stray' => lag')
    BY <1>7, <1>i DEF RunnerCacheSyncs, Exists, Over
  <2> QED
    BY <2>1, <2>2, <2>3, <2>4
<1>8. CASE OwnerRequests
  <2>1. PodStays'
    BY <1>8, <1>i DEF OwnerRequests, PodStays, Over, Exists
  <2>2. ViewHolds'
    BY <1>8, <1>i DEF OwnerRequests, ViewHolds, Over, Exists
  <2>3. ~crashed' => gh' # "ghost"
    BY <1>8, <1>i DEF OwnerRequests, Exists, Over
  <2>4. ~killed' /\ (stray' => lag')
    BY <1>8, <1>i DEF OwnerRequests, Exists, Over
  <2> QED
    BY <2>1, <2>2, <2>3, <2>4
<1>9. CASE OwnerCompletes
  <2>1. PodStays'
    BY <1>9, <1>i DEF OwnerCompletes, PodStays, Over, Exists
  <2>2. ViewHolds'
    BY <1>9, <1>i DEF OwnerCompletes, ViewHolds, Exists, Over
  <2>3. ~crashed' => gh' # "ghost"
    BY <1>9, <1>i DEF OwnerCompletes, Exists, Over
  <2>4. ~killed' /\ (stray' => lag')
    BY <1>9, <1>i DEF OwnerCompletes, Exists, Over
  <2> QED
    BY <2>1, <2>2, <2>3, <2>4
<1>10. CASE OwnerDeletes
  <2>1. PodStays'
    BY <1>10, <1>i DEF OwnerDeletes, SetRunner, Stopped, PodStays, Over, Exists
  <2>2. ViewHolds'
    BY <1>10, <1>i DEF OwnerDeletes, ViewHolds, Over, Exists
  <2>3. ~crashed' => gh' # "ghost"
    BY <1>10, <1>i DEF OwnerDeletes, Exists, Over
  <2>4. ~killed' /\ (stray' => lag')
    BY <1>10, <1>i DEF OwnerDeletes, Exists, Over
  <2> QED
    BY <2>1, <2>2, <2>3, <2>4
<1>11. CASE ReadPod
  <2>1. PodStays'
    BY <1>11, <1>i DEF ReadPod, PodStays, Exists, Over
  <2>2. ViewHolds'
    BY <1>11, <1>i DEF ReadPod, PodStays, ViewHolds, Exists
  <2>3. ~crashed' => gh' # "ghost"
    BY <1>11, <1>i DEF ReadPod, Exists, Over
  <2>4. ~killed' /\ (stray' => lag')
    BY <1>11, <1>i DEF ReadPod, Exists, Over
  <2> QED
    BY <2>1, <2>2, <2>3, <2>4
<1>12. CASE AddPodFinalizers
  <2>1. PodStays'
    BY <1>12, <1>i DEF AddPodFinalizers, PodStep, PodStays, Over, Exists
  <2>2. ViewHolds'
    BY <1>12 DEF AddPodFinalizers, Done, ViewHolds
  <2>3. ~crashed' => gh' # "ghost"
    BY <1>12, <1>i DEF AddPodFinalizers, PodStep, Exists, Over
  <2>4. ~killed' /\ (stray' => lag')
    BY <1>12, <1>i DEF AddPodFinalizers, PodStep, Exists, Over
  <2> QED
    BY <2>1, <2>2, <2>3, <2>4
<1>13. CASE MarkRunner
  <2>1. PodStays'
    BY <1>13, <1>t, <1>i DEF MarkRunner, PodStep, SetRunner, Delete, MarkInv, PodStays, ViewHolds, Over,
       RunnerType, Exists
  <2>2. ViewHolds'
    BY <1>13, <1>t, <1>i DEF MarkRunner, PodStep, SetRunner, Delete, Go, AfterMark, Done, ViewHolds,
       RunnerType, Exists
  <2>3. ~crashed' => gh' # "ghost"
    BY <1>13, <1>i DEF MarkRunner, PodStep, Exists, Over
  <2>4. ~killed' /\ (stray' => lag')
    BY <1>13, <1>i DEF MarkRunner, PodStep, Exists, Over
  <2> QED
    BY <2>1, <2>2, <2>3, <2>4
<1>14. CASE ListLinked
  <2>1. PodStays'
    BY <1>14, <1>i DEF ListLinked, PodStep, PodStays, Exists, Over
  <2>2. ViewHolds'
    BY <1>14, <1>i DEF ListLinked, PodStep, Go, Done, ViewHolds, Exists, Over
  <2>3. ~crashed' => gh' # "ghost"
    BY <1>14, <1>i DEF ListLinked, PodStep, Exists, Over
  <2>4. ~killed' /\ (stray' => lag')
    <3>1. ~(linked /\ gh = "busy")
      BY <1>14, <1>i DEF ListLinked, PodStep, PodInv, MarkInv, PodStays, ViewHolds, Exists, Over
    <3>2. ~killed'
      BY <3>1, <1>14, <1>i, Zenon DEF ListLinked
    <3>3. stray' => lag'
      BY <1>14, <1>i DEF ListLinked, PodStep
    <3> QED
      BY <3>2, <3>3
  <2> QED
    BY <2>1, <2>2, <2>3, <2>4
<1>15. CASE Unlink
  <2>1. PodStays'
    BY <1>15, <1>t, <1>i DEF Unlink, PodStep, Patch, PodStays, Over, PodType, Exists
  <2>2. ViewHolds'
    BY <1>15, <1>t, <1>i DEF Unlink, PodStep, Patch, AfterMark, Go, Done, ViewHolds, PodType,
       Exists
  <2>3. ~crashed' => gh' # "ghost"
    BY <1>15, <1>i DEF Unlink, PodStep, Exists, Over
  <2>4. ~killed' /\ (stray' => lag')
    BY <1>15, <1>i DEF Unlink, PodStep, Exists, Over
  <2> QED
    BY <2>1, <2>2, <2>3, <2>4
<1>16. CASE AnnotateID
  <2>1. PodStays'
    BY <1>16, <1>t, <1>i DEF AnnotateID, PodStep, Patch, PodStays, Over, PodType, Exists
  <2>2. ViewHolds'
    BY <1>16, <1>t, <1>i DEF AnnotateID, PodStep, Patch, AfterRegister, Go, Done, ViewHolds, PodType,
       Exists
  <2>3. ~crashed' => gh' # "ghost"
    BY <1>16, <1>i DEF AnnotateID, PodStep, Exists, Over
  <2>4. ~killed' /\ (stray' => lag')
    BY <1>16, <1>i DEF AnnotateID, PodStep, Exists, Over
  <2> QED
    BY <2>1, <2>2, <2>3, <2>4
<1>17. CASE AnnotateStart
  <2>1. PodStays'
    BY <1>17, <1>t, <1>i DEF AnnotateStart, PodStep, Patch, PodStays, Over, PodType, Exists
  <2>2. ViewHolds'
    BY <1>17, <1>t, <1>i DEF AnnotateStart, PodStep, Patch, Go, Done, ViewHolds, PodType, Exists
  <2>3. ~crashed' => gh' # "ghost"
    BY <1>17, <1>i DEF AnnotateStart, PodStep, Exists, Over
  <2>4. ~killed' /\ (stray' => lag')
    BY <1>17, <1>i DEF AnnotateStart, PodStep, Exists, Over
  <2> QED
    BY <2>1, <2>2, <2>3, <2>4
<1>18. CASE NothingToDo
  <2>1. PodStays'
    BY <1>18, <1>i DEF NothingToDo, PodStep, PodStays, Exists, Over
  <2>2. ViewHolds'
    BY <1>18, <1>i DEF NothingToDo, PodStep, Go, Stopped, PodStays, ViewHolds, Over, Exists
  <2>3. ~crashed' => gh' # "ghost"
    BY <1>18, <1>i DEF NothingToDo, PodStep, Exists, Over
  <2>4. ~killed' /\ (stray' => lag')
    BY <1>18, <1>i DEF NothingToDo, PodStep, Exists, Over
  <2> QED
    BY <2>1, <2>2, <2>3, <2>4
<1>19. CASE GiveUpOnRegistration
  <2>1. PodStays'
    BY <1>19, <1>i DEF GiveUpOnRegistration, PodStep, PodStays, Exists, Over
  <2>2. ViewHolds'
    BY <1>19 DEF GiveUpOnRegistration, Done, ViewHolds
  <2>3. ~crashed' => gh' # "ghost"
    BY <1>19, <1>i DEF GiveUpOnRegistration, PodStep, Exists, Over
  <2>4. ~killed' /\ (stray' => lag')
    BY <1>19, <1>i DEF GiveUpOnRegistration, PodStep, Exists, Over
  <2> QED
    BY <2>1, <2>2, <2>3, <2>4
<1>20. CASE WaitForCompletion
  <2>1. PodStays'
    BY <1>20, <1>i DEF WaitForCompletion, PodStep, PodStays, Exists, Over
  <2>2. ViewHolds'
    BY <1>20 DEF WaitForCompletion, Done, ViewHolds
  <2>3. ~crashed' => gh' # "ghost"
    BY <1>20, <1>i DEF WaitForCompletion, PodStep, Exists, Over
  <2>4. ~killed' /\ (stray' => lag')
    BY <1>20, <1>i DEF WaitForCompletion, PodStep, Exists, Over
  <2> QED
    BY <2>1, <2>2, <2>3, <2>4
<1>21. CASE Unregister
  <2>1. PodStays'
    BY <1>21, <1>t, <1>i DEF Unregister, PodStep, PodStays, Over, PodType, Exists
  <2>2. ViewHolds'
    BY <1>21, <1>i DEF Unregister, PodStep, Go, Done, ViewHolds, Over, Exists
  <2>3. ~crashed' => gh' # "ghost"
    BY <1>21, <1>i DEF Unregister, PodStep
  <2>4. ~killed' /\ (stray' => lag')
    BY <1>21, <1>i DEF Unregister, PodStep, Exists, Over
  <2> QED
    BY <2>1, <2>2, <2>3, <2>4
<1>22. CASE AnnotateComplete
  <2>1. PodStays'
    BY <1>22, <1>t, <1>i DEF AnnotateComplete, PodStep, Patch, PodStays, ViewHolds, Over, PodType,
       Exists
  <2>2. ViewHolds'
    BY <1>22, <1>t, <1>i DEF AnnotateComplete, PodStep, Patch, Go, Done, ViewHolds, PodType, Exists
  <2>3. ~crashed' => gh' # "ghost"
    BY <1>22, <1>i DEF AnnotateComplete, PodStep, Exists, Over
  <2>4. ~killed' /\ (stray' => lag')
    BY <1>22, <1>i DEF AnnotateComplete, PodStep, Exists, Over
  <2> QED
    BY <2>1, <2>2, <2>3, <2>4
<1>23. CASE DropFinalizer
  <2>1. PodStays'
    BY <1>23, <1>t, <1>i DEF DropFinalizer, PodStep, Patch, PodStays, Over, PodType, Exists
  <2>2. ViewHolds'
    BY <1>23 DEF DropFinalizer, Patch, Go, Done, ViewHolds
  <2>3. ~crashed' => gh' # "ghost"
    BY <1>23, <1>i DEF DropFinalizer, PodStep, Exists, Over
  <2>4. ~killed' /\ (stray' => lag')
    BY <1>23, <1>i DEF DropFinalizer, PodStep, Exists, Over
  <2> QED
    BY <2>1, <2>2, <2>3, <2>4
<1>24. CASE ForceDelete
  <2>1. PodStays'
    BY <1>24, <1>i DEF ForceDelete, Vanish, MarkInv, PodStays, ViewHolds, Over, Exists, NoPod
  <2>2. ViewHolds'
    BY <1>24 DEF ForceDelete, Done, ViewHolds
  <2>3. ~crashed' => gh' # "ghost"
    BY <1>24, <1>i DEF ForceDelete, Vanish, PodInv, MarkInv, PodStays, ViewHolds, Over
  <2>4. ~killed' /\ (stray' => lag')
    <3>1. Vanish => gh # "busy"
      BY <1>24, <1>i DEF ForceDelete, Vanish, PodInv, MarkInv, PodStays, ViewHolds, Over
    <3>2. ~killed'
      BY <3>1, <1>24, <1>i, Zenon DEF ForceDelete, Vanish
    <3> QED
      BY <3>2, <1>24, <1>i DEF ForceDelete
  <2> QED
    BY <2>1, <2>2, <2>3, <2>4
<1>25. CASE PodStarts
  <2>1. PodStays'
    BY <1>25, <1>i DEF PodStarts, Pending, PodStays, Over, Exists
  <2>2. ViewHolds'
    BY <1>25, <1>i DEF PodStarts, Pending, ViewHolds, Over, Exists
  <2>3. ~crashed' => gh' # "ghost"
    BY <1>25, <1>i DEF PodStarts, Exists, Over
  <2>4. ~killed' /\ (stray' => lag')
    BY <1>25, <1>i DEF PodStarts, Exists, Over
  <2> QED
    BY <2>1, <2>2, <2>3, <2>4
<1>26. CASE PodIsLate
  <2>1. PodStays'
    BY <1>26, <1>i DEF PodIsLate, PodStays, Over, Exists
  <2>2. ViewHolds'
    BY <1>26, <1>i DEF PodIsLate, ViewHolds, Over, Exists
  <2>3. ~crashed' => gh' # "ghost"
    BY <1>26, <1>i DEF PodIsLate, Exists, Over
  <2>4. ~killed' /\ (stray' => lag')
    BY <1>26, <1>i DEF PodIsLate, Exists, Over
  <2> QED
    BY <2>1, <2>2, <2>3, <2>4
<1>27. CASE KubeletKills
  <2>1. PodStays'
    BY <1>27, <1>i DEF KubeletKills, PodStays, Over
  <2>2. ViewHolds'
    BY <1>27, <1>i DEF KubeletKills, ViewHolds, Over, Exists
  <2>3. ~crashed' => gh' # "ghost"
    BY <1>27, <1>i DEF KubeletKills, Registered, PodStays, Over, Exists
  <2>4. ~killed' /\ (stray' => lag')
    BY <1>27, <1>i DEF KubeletKills, PodStays, Over, Exists
  <2> QED
    BY <2>1, <2>2, <2>3, <2>4
<1>28. CASE PodGoes
  <2>1. PodStays'
    BY <1>28, <1>i DEF PodGoes, Vanish, PodStays, Exists, NoPod
  <2>2. ViewHolds'
    BY <1>28, <1>i DEF PodGoes, Vanish, PodStays, ViewHolds, Exists, NoPod
  <2>3. ~crashed' => gh' # "ghost"
    BY <1>28, <1>i DEF PodGoes, Vanish, PodInv
  <2>4. ~killed' /\ (stray' => lag')
    BY <1>28, <1>i DEF PodGoes, Vanish, PodInv
  <2> QED
    BY <2>1, <2>2, <2>3, <2>4
<1>29. CASE GarbageCollect
  <2>1. PodStays'
    BY <1>29, <1>i DEF GarbageCollect, PodStays, Over, Exists
  <2>2. ViewHolds'
    BY <1>29, <1>i DEF GarbageCollect, ViewHolds, Over, Exists
  <2>3. ~crashed' => gh' # "ghost"
    BY <1>29, <1>i DEF GarbageCollect, Exists, Over
  <2>4. ~killed' /\ (stray' => lag')
    BY <1>29, <1>i DEF GarbageCollect, Exists, Over
  <2> QED
    BY <2>1, <2>2, <2>3, <2>4
<1>30. CASE ListRefreshes
  <2>1. PodStays'
    BY <1>30, <1>i DEF ListRefreshes, PodStays, Exists, Over
  <2>2. ViewHolds'
    BY <1>30, <1>i DEF ListRefreshes, ViewHolds, Exists, Over
  <2>3. ~crashed' => gh' # "ghost"
    BY <1>30, <1>i DEF ListRefreshes, Exists, Over
  <2>4. ~killed' /\ (stray' => lag')
    BY <1>30, <1>i DEF ListRefreshes, Exists, Over
  <2> QED
    BY <2>1, <2>2, <2>3, <2>4
<1>31. CASE JobEnds
  <2>1. PodStays'
    BY <1>31, <1>i DEF JobEnds, PodStays, Over, Exists
  <2>2. ViewHolds'
    BY <1>31, <1>i DEF JobEnds, ViewHolds, Over, Exists
  <2>3. ~crashed' => gh' # "ghost"
    BY <1>31 DEF JobEnds
  <2>4. ~killed' /\ (stray' => lag')
    BY <1>31, <1>i DEF JobEnds, Exists, Over
  <2> QED
    BY <2>1, <2>2, <2>3, <2>4
<1>32. CASE RunnerExits
  <2>1. PodStays'
    BY <1>32, <1>i DEF RunnerExits, PodStays, Over, Exists
  <2>2. ViewHolds'
    BY <1>32, <1>i DEF RunnerExits, ViewHolds, Over, Exists
  <2>3. ~crashed' => gh' # "ghost"
    BY <1>32, <1>i DEF RunnerExits, Exists, Over
  <2>4. ~killed' /\ (stray' => lag')
    BY <1>32, <1>i DEF RunnerExits, Exists, Over
  <2> QED
    BY <2>1, <2>2, <2>3, <2>4
<1>33. CASE Registers
  <2>1. PodStays'
    BY <1>33, <1>i DEF Registers, PodStays, Over, Exists
  <2>2. ViewHolds'
    BY <1>33, <1>i DEF Registers, ViewHolds, Over, Exists
  <2>3. ~crashed' => gh' # "ghost"
    BY <1>33 DEF Registers
  <2>4. ~killed' /\ (stray' => lag')
    BY <1>33, <1>i DEF Registers, Exists, Over
  <2> QED
    BY <2>1, <2>2, <2>3, <2>4
<1>34. CASE JobStarts
  <2>1. PodStays'
    BY <1>34, <1>i DEF JobStarts, MakeLinked, PodStays, Over, Exists
  <2>2. ViewHolds'
    BY <1>34, <1>i DEF JobStarts, MakeLinked, ViewHolds, Over, Exists
  <2>3. ~crashed' => gh' # "ghost"
    BY <1>34 DEF JobStarts, MakeLinked
  <2>4. ~killed' /\ (stray' => lag')
    BY <1>34, <1>i DEF JobStarts, MakeLinked, PodStays, Exists, Over
  <2> QED
    BY <2>1, <2>2, <2>3, <2>4
<1>35. CASE ContainerCrashes
  <2>1. PodStays'
    BY <1>35, <1>i DEF ContainerCrashes, PodStays, Over, Exists
  <2>2. ViewHolds'
    BY <1>35, <1>i DEF ContainerCrashes, ViewHolds, Over, Exists
  <2>3. ~crashed' => gh' # "ghost"
    BY <1>35 DEF ContainerCrashes
  <2>4. ~killed' /\ (stray' => lag')
    BY <1>35, <1>i DEF ContainerCrashes, Exists, Over
  <2> QED
    BY <2>1, <2>2, <2>3, <2>4
<1>36. CASE TokenExpires
  <2>1. PodStays'
    BY <1>36, <1>i DEF TokenExpires, PodStays, Exists
  <2>2. ViewHolds'
    BY <1>36, <1>i DEF TokenExpires, ViewHolds, Exists
  <2>3. ~crashed' => gh' # "ghost"
    BY <1>36, <1>i DEF TokenExpires, Exists, Over
  <2>4. ~killed' /\ (stray' => lag')
    BY <1>36, <1>i DEF TokenExpires, Exists, Over
  <2> QED
    BY <2>1, <2>2, <2>3, <2>4
<1>37. CASE UserDeletesPod
  <2>1. PodStays'
    BY <1>37 DEF UserDeletesPod
  <2>2. ViewHolds'
    BY <1>37 DEF UserDeletesPod
  <2>3. ~crashed' => gh' # "ghost"
    BY <1>37, <1>i DEF UserDeletesPod, Exists, Over
  <2>4. ~killed' /\ (stray' => lag')
    BY <1>37, <1>i DEF UserDeletesPod, Exists, Over
  <2> QED
    BY <2>1, <2>2, <2>3, <2>4
<1>38. CASE UserDeletesRunner
  <2>1. PodStays'
    BY <1>38 DEF UserDeletesRunner
  <2>2. ViewHolds'
    BY <1>38 DEF UserDeletesRunner
  <2>3. ~crashed' => gh' # "ghost"
    BY <1>38, <1>i DEF UserDeletesRunner, Exists, Over
  <2>4. ~killed' /\ (stray' => lag')
    BY <1>38, <1>i DEF UserDeletesRunner, Exists, Over
  <2> QED
    BY <2>1, <2>2, <2>3, <2>4
<1>39. CASE JobGoesOn
  <2>1. PodStays'
    BY <1>39, <1>i DEF JobGoesOn, MakeLinked, PodStays, Over, Exists
  <2>2. ViewHolds'
    BY <1>39, <1>i DEF JobGoesOn, MakeLinked, ViewHolds, Over, Exists
  <2>3. ~crashed' => gh' # "ghost"
    BY <1>39 DEF JobGoesOn
  <2>4. ~killed' /\ (stray' => lag')
    BY <1>39, <1>i DEF JobGoesOn, MakeLinked, PodStays, Exists, Over
  <2> QED
    BY <2>1, <2>2, <2>3, <2>4
<1> QED
  BY <1>1, <1>2, <1>3, <1>4, <1>5, <1>6, <1>7, <1>8, <1>9, <1>10, <1>11, <1>12, <1>13, <1>14, <1>15,
     <1>16, <1>17, <1>18, <1>19, <1>20, <1>21, <1>22, <1>23, <1>24, <1>25, <1>26, <1>27, <1>28,
     <1>29, <1>30, <1>31, <1>32, <1>33, <1>34, <1>35, <1>36, <1>37, <1>38, <1>39 DEF Next,
     RunnerController, Owner, PodController, Cluster, GitHub
-----------------------------------------------------------------------------
(* The Runner is new, and there is nothing else. *)
LEMMA LegacyStarts ==
  ASSUME Init
  PROVE  IInv
<1>1. TypeOK
  <2>1. pod \in PodType /\ view \in PodType
    BY PodEdits DEF Init
  <2>2. ephemeral \in BOOLEAN /\ lag \in BOOLEAN
    BY LegacyRunnerAssumption DEF Init
  <2>3. runner \in [st : {"none", "live", "deleting"}, fin : BOOLEAN, token : BOOLEAN, synced : BOOLEAN]
    BY DEF Init
  <2>4. faults \in 0..MaxFaults /\ trouble \in 0..MaxTrouble /\ rbac \in 0..3
    BY LegacyRunnerAssumption DEF Init
  <2>5. {guarded, forced, crashed, killed, stray, unmarked} \subseteq BOOLEAN /\ linked \in BOOLEAN /\ listed \in BOOLEAN
    BY Zenon DEF Init
  <2> QED
    BY <2>1, <2>2, <2>3, <2>4, <2>5 DEF Init, TypeOK
<1>2. PodInv /\ MarkInv /\ LinkedInv
  BY DEF Init, PodInv, MarkInv, LinkedInv, Exists, NoPod
<1>3. StopInv
  BY DEF Init, StopInv, PodStays, ViewHolds, Exists, NoPod
<1> QED
  BY <1>1, <1>2, <1>3 DEF IInv

(* The invariant is inductive. *)
LEMMA LegacyInvariant == Spec => []IInv
<1>1. Init => IInv
  BY LegacyStarts
<1>2. IInv /\ Next => IInv'
  BY TypeStep, OrderStep, LinkedStep, StopStep DEF IInv
<1>3. IInv /\ UNCHANGED vars => IInv'
  <2> SUFFICES ASSUME IInv, UNCHANGED vars
               PROVE  IInv'
    OBVIOUS
  <2>1. TypeOK'
    BY DEF IInv, TypeOK, vars
  <2>2. PodInv' /\ MarkInv' /\ LinkedInv'
    BY DEF IInv, PodInv, MarkInv, LinkedInv, Exists, vars
  <2>3. StopInv'
    BY DEF IInv, StopInv, PodStays, ViewHolds, Over, Exists, vars
  <2> QED
    BY <2>1, <2>2, <2>3 DEF IInv
<1> QED
  BY <1>1, <1>2, <1>3, PTL DEF Spec

(* Theorem: a job is cut short only if somebody deleted its pod or its Runner   *)
(* directly, or where the controller gives up on a registration it cannot know  *)
(* of: scaling down never does it, although the pod controller works on a copy  *)
(* of the pod and every call may fail.                                          *)
THEOREM LegacyRunnerKeepsJobs == Spec => []NoJobKilled
<1>1. IInv => NoJobKilled
  BY DEF IInv, StopInv, NoJobKilled
<1> QED
  BY <1>1, LegacyInvariant, PTL

(* Theorem: the types hold; when Runner and pod are gone GitHub has no runner     *)
(* left, unless the stop was forced or the container had crashed; and the         *)
(* deletion of what a job made was asked for when its pod is gone, unless the job *)
(* made it behind the list of linked resources, which a runner that is scaled     *)
(* down never does. A pod that was not guarded, was made again from a lagging     *)
(* cache or was left unmarked is excepted.                                        *)
THEOREM LegacyRunnerConsistent == Spec => []Consistent
<1>1. IInv => NoRegistrationLeak
  BY DEF IInv, StopInv, PodInv, NoRegistrationLeak, Registered, Exists
<1>2. IInv => NothingLeftBehind
  BY DEF IInv, TypeOK, LinkedInv, StopInv, NothingLeftBehind
<1>3. IInv => Consistent
  BY <1>1, <1>2 DEF IInv, Consistent
<1> QED
  BY <1>3, LegacyInvariant, PTL

(* Theorem: the Runner of a guarded pod is marked for deletion before the pod    *)
(* goes, so that the Runner controller does not make it again, unless its cache  *)
(* lags or the pod controller could not read the Runner and went on.             *)
THEOREM LegacyPodIsNotRemade == Spec => PodIsNotRemade
<1>1. ASSUME IInv, [Next]_vars
      PROVE  ~Exists /\ pod'.phase # "none" => ~guarded \/ lag \/ unmarked
  <2>1. CASE pod' = pod
    BY <2>1 DEF Exists
  <2>2. CASE CreatePod
    BY <2>2, <1>1 DEF CreatePod, IInv, MarkInv
  <2>3. CASE Exists
    BY <2>3
  <2>4. ASSUME Next, ~Exists
        PROVE  pod' = pod \/ CreatePod
    <3>1. pod = NoPod /\ pod.phase = "none" /\ ~pod.del
      BY <1>1, <2>4 DEF IInv, PodInv, NoPod
    <3> QED
      BY <3>1, <2>4 DEF Next, RunnerController, Owner, PodController, Cluster, GitHub, podVars, Exists,
         Patch, Pending, AddFinalizer, UpdateToken, CreateRbac, UpdateStatus, ReleaseRunner,
         RunnerCacheSyncs, OwnerRequests, OwnerCompletes, OwnerDeletes, ReadPod, AddPodFinalizers,
         MarkRunner, ListLinked, Unlink, AnnotateID, AnnotateStart, NothingToDo, GiveUpOnRegistration,
         WaitForCompletion, Unregister, AnnotateComplete, DropFinalizer, ForceDelete, Vanish, PodStarts,
         PodIsLate, KubeletKills, PodGoes, GarbageCollect, ListRefreshes, JobEnds, RunnerExits,
         Registers, JobStarts, JobGoesOn, MakeLinked, ContainerCrashes, TokenExpires, UserDeletesPod,
         UserDeletesRunner
  <2> QED
    BY <1>1, <2>1, <2>2, <2>3, <2>4 DEF vars
<1>2. IInv /\ [Next]_vars => [~Exists /\ pod'.phase # "none" => ~guarded \/ lag \/ unmarked]_vars
  BY <1>1
<1> QED
  BY <1>2, LegacyInvariant, PTL DEF Spec, PodIsNotRemade
=============================================================================
