------------------------ MODULE AutoscalingRunnerSet ------------------------
(***************************************************************************)
(* The AutoscalingRunnerSet controller: it registers a runner scale set     *)
(* with the Actions service, keeps one EphemeralRunnerSet with the current  *)
(* spec and one AutoscalingListener for it, replaces both when the spec     *)
(* changes, and takes everything down when the object is deleted or its     *)
(* runners are outdated.                                                    *)
(*                                                                         *)
(* Reconcile is one action per call that changes something. Between two     *)
(* calls the user edits the spec and the other controllers go on: the       *)
(* EphemeralRunnerSet (module ScaleSet has it in detail) is reduced to      *)
(* whether it has runners and what its status says of that, the             *)
(* AutoscalingListener to a client that asks for runners until its object   *)
(* is gone.                                                                 *)
(*                                                                         *)
(* The spec is reduced to one bit per group of fields that the code treats  *)
(* alike; an edit flips it, so that the second edit of a field rolls it     *)
(* back.                                                                    *)
(***************************************************************************)
EXTENDS Naturals, Sequences, FiniteSets, FiniteSetsExt

CONSTANTS
    MaxSets,       \* bound: EphemeralRunnerSets that are ever created
    MaxChanges,    \* bound: edits, failed calls and other troubles, together
    EditFields,    \* the fields of the spec that are edited
    MaxFaults,     \* bound: failed calls
    MaxTrouble,    \* bound: outdated runners and upgrades of the controller
    Strategies     \* the update strategies that the controller may be started with

ASSUME RunnerSetAssumption ==
    /\ MaxSets \in Nat \ {0}
    /\ MaxChanges \in Nat
    /\ EditFields \subseteq {"group", "name", "tmpl", "other"}
    /\ MaxFaults \in Nat /\ MaxTrouble \in Nat
    /\ Strategies \subseteq {"immediate", "eventual"} /\ Strategies # {}

VARIABLES
    ars,       \* the AutoscalingRunnerSet in the API server
    sets,      \* its EphemeralRunnerSets, numbered in the order of their creation
    live,      \* the sets that have pending or running runners
    listeners, \* the AutoscalingListeners, by the runner group in their name
    scaleSets, \* the runner scale sets in the Actions service
    held,      \* the dependents that are kept by their finalizer, in the order of their release
    strategy,  \* the controller's flag updateStrategy
    allowed,   \* the controller's version may manage the object
    queued,    \* the key is in the work queue
    pc,        \* the call Reconcile makes next
    l,         \* Reconcile's copy of the AutoscalingRunnerSet
    latest,    \* the newest set of its list, 0 for none
    todo,      \* sets that it still has to delete
    next,      \* what it does once they are deleted, or once cleanUpResources is done
    edits,     \* edits so far
    faults,    \* failed calls so far
    trouble    \* other troubles so far

objVars == <<ars, sets, listeners>>
localVars == <<l, latest, todo, next>>
vars == <<ars, sets, live, listeners, scaleSets, held, strategy, allowed, queued, pc, l, latest, todo,
          next, edits, faults, trouble>>

Ids == 1..MaxSets
Bit == {0, 1}
ScaleSetIds == {1, 2} \* bound: scale sets that the service has at a time

(* group: spec.runnerGroup; name: spec.runnerScaleSetName; tmpl: the rest of  *)
(* what RunnerSetSpecHash covers; other: what only ListenerSpecHash covers,   *)
(* and the values hash that Helm sets.                                        *)
Specs == [group : Bit, name : Bit, tmpl : Bit, other : Bit]
SpecAtFirst == [group |-> 0, name |-> 0, tmpl |-> 0, other |-> 0]

RunnerSetSpecHash(spec) == <<spec.group, spec.name, spec.tmpl>>
ListenerSpecHashOfListenerFields(spec) == [SpecAtFirst EXCEPT !.other = spec.other]

ListenerSpecHash(spec) == spec

(* Hash covers the spec and the labels, to which the creation of the scale set *)
(* adds those of the GitHub URL.                                               *)
Hash(a) == <<a.spec, a.labels>>
NoHash == <<SpecAtFirst, "none">>

(* ssid, inGroup, called: the annotations with the id, the runner group and    *)
(* the name of the scale set; 0 and 2 for none.                                *)
ArsRec == [exists : BOOLEAN, del : BOOLEAN, fin : BOOLEAN, spec : Specs,
           hash : Specs \X {"none", "user", "url"}, labels : {"user", "url"}, ssid : {0} \cup ScaleSetIds,
           inGroup : 0..2, called : 0..2, phase : {"", "Pending", "Running", "Outdated"}]
NewArs == [exists |-> TRUE, del |-> FALSE, fin |-> FALSE, spec |-> SpecAtFirst, hash |-> NoHash,
           labels |-> "user", ssid |-> 0, inGroup |-> 2, called |-> 2, phase |-> ""]
NoArs == [NewArs EXCEPT !.exists = FALSE]

(* want: spec.replicas > 0; busy: the status counts pending or running runners. *)
SetRec == [st : {"none", "up", "deleting", "gone"}, hash : Bit \X Bit \X Bit,
           want : BOOLEAN, busy : BOOLEAN, outdated : BOOLEAN]
NoSet == [st |-> "none", hash |-> <<0, 0, 0>>, want |-> FALSE, busy |-> FALSE, outdated |-> FALSE]
NewSet(spec) == [NoSet EXCEPT !.st = "up", !.hash = RunnerSetSpecHash(spec)]
GoneSet == [NoSet EXCEPT !.st = "gone"]

ListenerRec == [st : {"none", "up", "deleting"}, set : 0..MaxSets, hash : Specs]
NoListener == [st |-> "none", set |-> 0, hash |-> SpecAtFirst]

(* scaleSetListenerName hashes the runner group into the name. *)
ListenerName(spec) == spec.group

NoScaleSet == [there |-> FALSE, group |-> 0, name |-> 0]
ScaleSetRec == [there : BOOLEAN, group : Bit, name : Bit]

(* What the chart creates with the cleanup finalizer, in the order of release: *)
(* the rights of runners in kubernetes mode, the service account of the others, *)
(* the credentials, and the rights of the controller itself.                   *)
Dependents == <<"modeRoleBinding", "modeRole", "modeServiceAccount", "serviceAccount",
                "secret", "managerRoleBinding", "managerRole">>

Holds(d) == \E i \in DOMAIN held : held[i] = d

Existing(s) == {i \in Ids : s[i].st \in {"up", "deleting"}}
-----------------------------------------------------------------------------
Init ==
    /\ ars = NewArs
    /\ sets = [i \in Ids |-> NoSet]
    /\ live = {}
    /\ listeners = [g \in Bit |-> NoListener]
    /\ scaleSets = [k \in ScaleSetIds |-> NoScaleSet]
    /\ held = Dependents
    /\ strategy \in Strategies
    /\ allowed = TRUE
    /\ queued = TRUE
    /\ pc = "idle"
    /\ l = NoArs
    /\ latest = 0
    /\ todo = {}
    /\ next = "idle"
    /\ edits = 0
    /\ faults = 0
    /\ trouble = 0

SettleWithoutWatchOfListeners(requeue) ==
    queued' = (queued \/ requeue \/ <<ars, sets>>' # <<ars, sets>>)

(* The watches For(AutoscalingRunnerSet), Owns(EphemeralRunnerSet) and          *)
(* Watches(AutoscalingListener) put the key in the queue with every change.    *)
Settle(requeue) == queued' = (queued \/ requeue \/ objVars' # objVars)

Forget == l' = NoArs /\ latest' = 0 /\ todo' = {} /\ next' = "idle"

Return == pc' = "idle" /\ Forget

envVars == <<live, strategy, allowed, edits, faults>>
-----------------------------------------------------------------------------
(***************************************************************************)
(* Reconcile.                                                              *)
(***************************************************************************)
(* What follows once the finalizer and the hash annotation are in place. *)
ScaleSetStep(a) ==
    CASE a.phase = "Outdated" -> "list"
      [] a.phase # "Outdated" /\ a.ssid = 0 -> "createScaleSet"
      [] a.phase # "Outdated" /\ a.ssid # 0 /\ a.inGroup # a.spec.group -> "updateGroup"
      [] a.phase # "Outdated" /\ a.ssid # 0 /\ a.inGroup = a.spec.group
            /\ a.called # a.spec.name -> "updateName"
      [] OTHER -> "list"

HashStep(a) == IF a.hash # Hash(a) THEN "patchHash" ELSE ScaleSetStep(a)

FirstStep(a) ==
    CASE ~a.exists \/ (a.del /\ ~a.fin) -> "idle"
      [] a.exists /\ a.del /\ a.fin -> "cleanListener"
      [] a.exists /\ ~a.del /\ ~allowed -> "deleteSelf"
      [] a.exists /\ ~a.del /\ allowed /\ ~a.fin -> "addFinalizer"
      [] OTHER -> HashStep(a)

StartReconcile ==
    /\ pc = "idle" /\ queued
    /\ queued' = FALSE
    /\ pc' = FirstStep(ars)
    /\ l' = IF pc' = "idle" THEN NoArs ELSE ars
    /\ next' = IF pc' = "cleanListener" THEN "release" ELSE "idle"
    /\ UNCHANGED <<objVars, envVars, scaleSets, held, latest, todo, trouble>>

(* A patch sends the fields that changed; Reconcile's copy is then what the   *)
(* API server answers. A patch of an object that is gone fails.               *)
Patch(new, step) ==
    /\ IF ars.exists
       THEN /\ ars' = new
            /\ IF step = "idle" THEN Return ELSE pc' = step /\ l' = new /\ UNCHANGED <<latest, todo, next>>
       ELSE UNCHANGED ars /\ Return
    /\ UNCHANGED <<envVars, sets, listeners, trouble>>
    /\ Settle(~ars.exists)

AddFinalizer ==
    /\ pc = "addFinalizer"
    /\ LET new == [ars EXCEPT !.fin = TRUE] IN Patch(new, HashStep(new))
    /\ UNCHANGED <<scaleSets, held>>

(* The annotation gets the hash of Reconcile's copy, which the user may have   *)
(* edited meanwhile; then the phase goes back to Pending.                      *)
PatchHash ==
    /\ pc = "patchHash"
    /\ LET new == [ars EXCEPT !.hash = Hash(l)]
       IN  Patch(new, IF new.phase # "Pending" THEN "setPending" ELSE ScaleSetStep(new))
    /\ UNCHANGED <<scaleSets, held>>

SetPending ==
    /\ pc = "setPending"
    /\ LET new == [ars EXCEPT !.phase = "Pending"] IN Patch(new, ScaleSetStep(new))
    /\ UNCHANGED <<scaleSets, held>>

(* IsVersionAllowed: the object of another version is deleted. *)
Marked(a) == IF a.fin THEN [a EXCEPT !.del = TRUE] ELSE NoArs

DeleteSelf ==
    /\ pc = "deleteSelf"
    /\ ars' = IF ars.exists THEN Marked(ars) ELSE ars
    /\ Return
    /\ UNCHANGED <<envVars, sets, listeners, scaleSets, held, trouble>>
    /\ Settle(FALSE)
-----------------------------------------------------------------------------
(* A call to the Actions service. *)
Service(step) ==
    /\ IF step = "idle" THEN Return ELSE pc' = step /\ UNCHANGED localVars
    /\ UNCHANGED <<objVars, envVars, held, trouble>>
    /\ Settle(step = "idle")

(* createRunnerScaleSet: a scale set of that group and name is taken over. *)
Matching(spec) ==
    {k \in ScaleSetIds : scaleSets[k] = [there |-> TRUE, group |-> spec.group, name |-> spec.name]}

Unused == {k \in ScaleSetIds : ~scaleSets[k].there /\ ars.ssid # k}

CreateRunnerScaleSet ==
    /\ pc = "createScaleSet"
    /\ IF Matching(l.spec) # {} THEN UNCHANGED scaleSets
       ELSE /\ Unused # {}
            /\ scaleSets' = [scaleSets EXCEPT ![Min(Unused)] =
                                [there |-> TRUE, group |-> l.spec.group, name |-> l.spec.name]]
    /\ Service("patchScaleSet")

PatchScaleSet ==
    /\ pc = "patchScaleSet"
    /\ \E k \in Matching(l.spec) :
          Patch([ars EXCEPT !.ssid = k, !.inGroup = scaleSets[k].group,
                            !.called = scaleSets[k].name, !.labels = "url"], "idle")
    /\ UNCHANGED <<scaleSets, held>>

(* updateRunnerScaleSetRunnerGroup, updateRunnerScaleSetName *)
UpdateRunnerScaleSet ==
    /\ pc \in {"updateGroup", "updateName"}
    /\ IF ~scaleSets[l.ssid].there
       THEN UNCHANGED scaleSets /\ Service("idle")
       ELSE /\ scaleSets' = IF pc = "updateGroup" THEN [scaleSets EXCEPT ![l.ssid].group = l.spec.group]
                            ELSE [scaleSets EXCEPT ![l.ssid].name = l.spec.name]
            /\ Service(IF pc = "updateGroup" THEN "patchGroup" ELSE "patchName")

PatchUpdated ==
    /\ \/ /\ pc = "patchGroup"
          /\ Patch([ars EXCEPT !.inGroup = scaleSets[l.ssid].group,
                               !.called = scaleSets[l.ssid].name], "idle")
       \/ /\ pc = "patchName"
          /\ Patch([ars EXCEPT !.called = scaleSets[l.ssid].name], "idle")
    /\ UNCHANGED <<scaleSets, held>>
-----------------------------------------------------------------------------
(* drainingJobs *)
Draining(set) == strategy = "eventual" /\ set.busy

(* latest(): sets that are being deleted count. *)
Newest == Max({0} \cup Existing(sets))

Current(i) == sets[i].hash = RunnerSetSpecHash(l.spec)

ListenerStep(listener, i) ==
    CASE listener.st = "none" /\ Draining(sets[i]) -> "idle"
      [] listener.st = "none" /\ ~Draining(sets[i]) -> "createListener"
      [] listener.st # "none" /\ l.phase # "Running" -> "setRunning"
      [] OTHER -> "idle"

ReplaceStep(i) == IF Draining(sets[i]) THEN "drain" ELSE "createSet"

(* What the list of the sets and the listener lead to. *)
ListStep(listener, i) ==
    LET stale == listener.st # "none" /\ listener.hash # ListenerSpecHash(l.spec)
        served == l.phase # "Outdated" /\ i # 0 /\ ~sets[i].outdated
    IN  CASE l.phase = "Outdated" -> "cleanListener"
          [] l.phase # "Outdated" /\ i = 0 -> "createSet"
          [] l.phase # "Outdated" /\ i # 0 /\ sets[i].outdated -> "setOutdated"
          [] served /\ stale -> "deleteListener"
          [] served /\ ~stale /\ ~Current(i) -> ReplaceStep(i)
          [] OTHER -> "deleteOld"

List ==
    /\ pc = "list"
    /\ LET listener == listeners[ListenerName(l.spec)]
           step == ListStep(listener, Newest)
           then == ListenerStep(listener, Newest)
           old == {j \in Existing(sets) \ {Newest} : sets[j].st = "up"}
           skip == step = "deleteOld" /\ old = {}
       IN  IF skip /\ then = "idle" THEN Return
           ELSE /\ pc' = IF skip THEN then ELSE step
                /\ latest' = Newest
                /\ todo' = IF step = "deleteOld" THEN old ELSE {}
                /\ next' = IF step = "deleteOld" /\ ~skip THEN then ELSE "idle"
                /\ UNCHANGED l
    /\ UNCHANGED <<objVars, envVars, scaleSets, held, trouble>>
    /\ Settle(FALSE)

(* A call to another object. The error of a failed one puts the key back.     *)
Call(step, rest, requeue) ==
    /\ IF step = "idle" THEN Return
       ELSE pc' = step /\ todo' = rest /\ UNCHANGED <<l, latest, next>>
    /\ UNCHANGED <<ars, envVars, scaleSets, held, trouble>>
    /\ Settle(requeue)

CreateEphemeralRunnerSet ==
    /\ pc = "createSet"
    /\ \E i \in Ids :
          /\ {j \in Ids : sets[j].st # "none"} = 1..(i - 1)
          /\ sets' = [sets EXCEPT ![i] = NewSet(l.spec)]
    /\ UNCHANGED listeners
    /\ Call("idle", {}, FALSE)

(* Draining: the patch asks for no runners at all. *)
DrainSet ==
    /\ pc = "drain"
    /\ sets' = IF sets[latest].st = "gone" THEN sets ELSE [sets EXCEPT ![latest].want = FALSE]
    /\ UNCHANGED listeners
    /\ Call("idle", {}, sets[latest].st = "gone")

(* deleteEphemeralRunnerSets, one call; a set that is gone is an error. *)
DeleteSets ==
    /\ pc \in {"deleteOld", "deleteAll"}
    /\ UNCHANGED listeners
    /\ \E i \in todo :
          IF sets[i].st = "gone" THEN UNCHANGED sets /\ Call("idle", {}, TRUE)
          ELSE /\ sets' = [sets EXCEPT ![i].st = "deleting"]
               /\ IF todo = {i} THEN Call(IF pc = "deleteAll" THEN "idle" ELSE next, {}, pc = "deleteAll")
                  ELSE Call(pc, todo \ {i}, FALSE)

(* The Delete of a listener that is gone is an error in cleanupListener only. *)
DeleteListener ==
    /\ pc \in {"deleteListener", "cleanListener"}
    /\ LET g == ListenerName(l.spec)
       IN  /\ pc = "cleanListener" => listeners[g].st = "up"
           /\ listeners' = IF listeners[g].st = "none" THEN listeners
                           ELSE [listeners EXCEPT ![g].st = "deleting"]
    /\ UNCHANGED sets
    /\ Call("idle", {}, pc = "cleanListener")

CreateListener ==
    /\ pc = "createListener"
    /\ UNCHANGED sets
    /\ LET g == ListenerName(l.spec)
       IN  listeners' = [listeners EXCEPT ![g] =
                            [st |-> "up", set |-> latest, hash |-> ListenerSpecHash(l.spec)]]
    /\ Call("idle", {}, FALSE)

SetRunning ==
    /\ pc = "setRunning"
    /\ Patch([ars EXCEPT !.phase = "Running"], "idle")
    /\ UNCHANGED <<scaleSets, held>>

SetOutdated ==
    /\ pc = "setOutdated"
    /\ Patch([ars EXCEPT !.phase = "Outdated"], "cleanListener")
    /\ UNCHANGED <<scaleSets, held>>
-----------------------------------------------------------------------------
(***************************************************************************)
(* cleanUpResources: the listener, then the sets, then the scale set. As    *)
(* long as something is left Reconcile runs again after five seconds.       *)
(***************************************************************************)

AfterSetsNever == next

AfterSets == IF l.ssid # 0 THEN "deleteScaleSet" ELSE next

ListenerIsCleanedUp ==
    /\ pc = "cleanListener"
    /\ UNCHANGED <<sets, listeners>>
    /\ LET known == listeners[ListenerName(l.spec)]
       IN  \/ known.st = "none" /\ Call("cleanSets", {}, FALSE)
           \/ known.st = "deleting" /\ Call("idle", {}, TRUE)

CleanupWithoutWaiting ==
    /\ pc = "cleanSets"
    /\ UNCHANGED <<sets, listeners>>
    /\ LET unmarked == {i \in Existing(sets) : sets[i].st = "up"}
       IN  \/ unmarked = {} /\ Call(AfterSets, {}, FALSE)
           \/ unmarked # {} /\ Call("deleteAll", unmarked, FALSE)

CleanupEphemeralRunnerSets ==
    /\ pc = "cleanSets"
    /\ UNCHANGED <<sets, listeners>>
    /\ LET known == Existing(sets)
           unmarked == {i \in known : sets[i].st = "up"}
       IN  \/ known = {} /\ Call(AfterSets, {}, FALSE)
           \/ known # {} /\ unmarked = {} /\ Call("idle", {}, TRUE)
           \/ unmarked # {} /\ Call("deleteAll", unmarked, FALSE)

(* deleteRunnerScaleSet: the annotation goes with the scale set, because       *)
(* without the secret the call could not be repeated.                          *)
DeleteRunnerScaleSet ==
    /\ pc = "deleteScaleSet"
    /\ scaleSets' = [scaleSets EXCEPT ![l.ssid] = NoScaleSet]
    /\ Service("dropId")

KeepScaleSetId ==
    /\ pc = "dropId"
    /\ Patch(ars, next)
    /\ UNCHANGED <<scaleSets, held>>

DropScaleSetId ==
    /\ pc = "dropId"
    /\ Patch([ars EXCEPT !.ssid = 0], next)
    /\ UNCHANGED <<scaleSets, held>>

(* removeFinalizersFromDependentResources: one call for each; after one that    *)
(* failed nothing more is released. What is released already is passed over.   *)
Release(d) ==
    /\ pc = "release" /\ held # <<>> /\ Head(held) = d
    /\ held' = Tail(held)
    /\ pc' = IF held' = <<>> THEN "dropFinalizer" ELSE "release"
    /\ UNCHANGED <<objVars, localVars, envVars, scaleSets, trouble>>
    /\ Settle(FALSE)

ReleaseContainerMode == \E d \in {"modeRoleBinding", "modeRole", "modeServiceAccount"} : Release(d)
ReleaseServiceAccount == Release("serviceAccount")
ReleaseSecret == Release("secret")
ReleaseManagerRights == \E d \in {"managerRoleBinding", "managerRole"} : Release(d)

NothingToRelease ==
    /\ pc = "release" /\ held = <<>>
    /\ pc' = "dropFinalizer"
    /\ UNCHANGED <<objVars, localVars, envVars, scaleSets, held, trouble>>
    /\ Settle(FALSE)

DropFinalizer ==
    /\ pc = "dropFinalizer"
    /\ ars' = NoArs
    /\ Return
    /\ UNCHANGED <<envVars, sets, listeners, scaleSets, held, trouble>>
    /\ Settle(FALSE)

Reconcile ==
    \/ StartReconcile \/ AddFinalizer \/ PatchHash \/ SetPending \/ DeleteSelf
    \/ CreateRunnerScaleSet \/ PatchScaleSet \/ UpdateRunnerScaleSet \/ PatchUpdated
    \/ List \/ CreateEphemeralRunnerSet \/ DrainSet \/ DeleteSets \/ DeleteListener
    \/ CreateListener \/ SetRunning \/ SetOutdated \/ ListenerIsCleanedUp
    \/ CleanupEphemeralRunnerSets \/ DeleteRunnerScaleSet \/ DropScaleSetId
    \/ ReleaseContainerMode \/ ReleaseServiceAccount \/ ReleaseSecret \/ ReleaseManagerRights
    \/ NothingToRelease \/ DropFinalizer

Changes == edits + faults + trouble < MaxChanges

(* A call fails, or the controller stops before it: Reconcile starts over. The  *)
(* one error that it does not return is that of the Delete after a change of    *)
(* the version.                                                                 *)
CallFails ==
    /\ pc # "idle"
    /\ faults < MaxFaults /\ Changes
    /\ faults' = faults + 1
    /\ Return
    /\ UNCHANGED <<objVars, live, strategy, allowed, edits, trouble, scaleSets, held>>
    /\ Settle(pc # "deleteSelf")

(* The controller is replaced by one of another version, between two          *)
(* Reconciles; CallFails is what happens to one that is cut off.              *)
ControllerUpgraded ==
    /\ pc = "idle" /\ allowed
    /\ trouble < MaxTrouble /\ Changes
    /\ trouble' = trouble + 1
    /\ allowed' = FALSE
    /\ queued' = TRUE
    /\ UNCHANGED <<objVars, live, strategy, scaleSets, held, pc, localVars, edits, faults>>
-----------------------------------------------------------------------------
(***************************************************************************)
(* The user.                                                               *)
(***************************************************************************)
ctrlVars == <<pc, localVars>>

EditSpec ==
    /\ ars.exists /\ ~ars.del
    /\ Changes
    /\ edits' = edits + 1
    /\ \E f \in EditFields :
          /\ f \in {"group", "name"} => ars.spec.group + ars.spec.name = 0 \* bound: one edit of group or name
          /\ ars' = [ars EXCEPT !.spec[f] = 1 - @]
    /\ UNCHANGED <<sets, listeners, live, strategy, allowed, faults, scaleSets, held, ctrlVars, trouble>>
    /\ Settle(FALSE)

DeleteArs ==
    /\ ars.exists /\ ~ars.del
    /\ ars' = Marked(ars)
    /\ UNCHANGED <<sets, listeners, envVars, scaleSets, held, ctrlVars, trouble>>
    /\ Settle(FALSE)
-----------------------------------------------------------------------------
(***************************************************************************)
(* The other controllers.                                                  *)
(***************************************************************************)
Others(i, new) ==
    /\ sets' = [sets EXCEPT ![i] = new]
    /\ UNCHANGED <<ars, listeners, strategy, allowed, edits, faults, scaleSets, held, ctrlVars>>
    /\ Settle(FALSE)

(* A listener patches its set as long as its pod may run. *)
ListenerScales ==
    /\ \E g \in Bit :
          /\ listeners[g].st # "none"
          /\ listeners[g].set \in Existing(sets)
          /\ LET i == listeners[g].set IN Others(i, [sets[i] EXCEPT !.want = ~@])
    /\ UNCHANGED <<live, trouble>>

ListenerGoes ==
    /\ \E g \in Bit :
          /\ listeners[g].st = "deleting"
          /\ listeners' = [listeners EXCEPT ![g] = NoListener]
    /\ UNCHANGED <<ars, sets, envVars, scaleSets, held, ctrlVars, trouble>>
    /\ Settle(FALSE)

SetScalesUp ==
    /\ \E i \in Ids \ live :
          /\ sets[i].st = "up" /\ sets[i].want /\ ~sets[i].outdated
          /\ live' = live \cup {i}
          /\ Others(i, sets[i])
    /\ UNCHANGED trouble

(* A job ends, or an idle runner is removed. *)
RunnersEnd(i) ==
    /\ i \in live
    /\ live' = live \ {i}
    /\ Others(i, sets[i])
    /\ UNCHANGED trouble

SetReports(i) ==
    /\ sets[i].st = "up" /\ ~sets[i].outdated
    /\ sets[i].busy # (i \in live)
    /\ Others(i, [sets[i] EXCEPT !.busy = ~@])
    /\ UNCHANGED <<live, trouble>>

(* The set is outdated with its first outdated runner; it then only waits to   *)
(* be removed, and its status stays as it is.                                  *)
RunnerIsOutdated ==
    /\ trouble < MaxTrouble /\ Changes
    /\ trouble' = trouble + 1
    /\ \E i \in live :
          /\ sets[i].st = "up"
          /\ live' \in {live, live \ {i}}
          /\ Others(i, [sets[i] EXCEPT !.outdated = TRUE, !.busy = i \in live'])

SetGoes(i) ==
    /\ sets[i].st = "deleting" /\ i \notin live
    /\ Others(i, GoneSet)
    /\ UNCHANGED <<live, trouble>>

Next ==
    \/ Reconcile \/ CallFails \/ ControllerUpgraded \/ EditSpec \/ DeleteArs
    \/ ListenerScales \/ ListenerGoes \/ SetScalesUp \/ RunnerIsOutdated
    \/ \E i \in Ids : RunnersEnd(i) \/ SetReports(i) \/ SetGoes(i)

Spec == Init /\ [][Next]_vars

FairSpec ==
    /\ Spec
    /\ WF_vars(Reconcile) /\ WF_vars(ListenerGoes)
    /\ \A i \in Ids : WF_vars(RunnersEnd(i)) /\ WF_vars(SetReports(i)) /\ WF_vars(SetGoes(i))
-----------------------------------------------------------------------------
(* Every variable holds a value of its kind, and the parts of one record agree. *)
TypeOK ==
    /\ ars \in ArsRec /\ l \in ArsRec
    /\ sets \in [Ids -> SetRec]
    /\ live \subseteq Ids /\ strategy \in Strategies
    /\ listeners \in [Bit -> ListenerRec]
    /\ scaleSets \in [ScaleSetIds -> ScaleSetRec]
    /\ \E k \in 1..(Len(Dependents) + 1) : held = SubSeq(Dependents, k, Len(Dependents))
    /\ latest \in 0..MaxSets /\ todo \subseteq Ids
    /\ edits \in 0..MaxChanges /\ faults \in 0..MaxFaults /\ trouble \in 0..MaxTrouble
    /\ pc \in {"updateGroup", "updateName", "deleteScaleSet"} => l.ssid \in ScaleSetIds
    /\ pc \in {"drain", "createListener"} => latest \in Ids
    /\ pc \in {"deleteOld", "deleteAll"} => todo # {}

(* Safety: the AutoscalingRunnerSet outlives its listeners, which are in       *)
(* another namespace and have no owner that would take them along.             *)
NoListenerLeft == ~ars.exists => \A g \in Bit : listeners[g].st = "none"

(* Safety: the scale set goes from the service before the object that knows    *)
(* its id. A failed call may leave a scale set whose id was never recorded.    *)
NoScaleSetLeak == ~ars.exists /\ faults = 0 => \A k \in ScaleSetIds : ~scaleSets[k].there

(* Safety: a listener that Reconcile takes for up to date scales a set that    *)
(* exists and is not being deleted. An outdated set that is being deleted may   *)
(* be taken for the current one when an edit is rolled back. (So may the        *)
(* listener of the first group, which Reconcile forgets: EditSpec edits the     *)
(* group once.)                                                                *)
ListenerServesSet ==
    LET listener == listeners[ListenerName(ars.spec)]
    IN  trouble = 0 /\ listener.st = "up" /\ listener.hash = ListenerSpecHash(ars.spec)
            => sets[listener.set].st = "up" \/ ~ars.exists \/ ars.del \/ ars.phase = "Outdated"

(* Safety: the credentials are released when no Reconcile, this one or one     *)
(* that starts over after an error, calls the service any more.                *)
CredentialsWhenNeeded ==
    pc \in {"createScaleSet", "updateGroup", "updateName", "deleteScaleSet"} => Holds("secret")

(* Safety: the types, what a step of Reconcile relies on when it is reached     *)
(* (TypeOK, last conjuncts), and the credentials of the calls to the service.   *)
Consistent == TypeOK /\ CredentialsWhenNeeded

(* Action property: the teardown, over many Reconciles any call of which may    *)
(* fail, keeps its order: the scale set goes after the last runner that is      *)
(* registered with it; rights and credentials go after the sets; and the object *)
(* goes last, after its sets, the listener of its spec and everything that is   *)
(* kept for it, unless it was deleted before the controller saw it.             *)
TeardownInOrder ==
    [][/\ \A k \in ScaleSetIds :
             scaleSets[k].there /\ ~scaleSets'[k].there => Existing(sets) = {} /\ live = {}
       /\ held' # held => Existing(sets) = {} /\ live = {}
       /\ ars.exists /\ ~ars'.exists
             => /\ listeners[ListenerName(ars.spec)].st = "none" /\ Existing(sets) = {}
                /\ ars.fin => held = <<>>]_vars

(* The Delete after a change of the version failed: it is not repeated. *)
Abandoned == ~allowed /\ faults > 0

(* The scale set was deleted, the call that drops its id failed, and an edit    *)
(* made Reconcile leave the teardown: the id of nothing is used ever after.     *)
Stranded == faults > 0 /\ ars.ssid # 0 /\ ~scaleSets[ars.ssid].there

(* With the strategy "eventual" the listener was deleted to apply an edit that  *)
(* keeps the set, and waits for runners that nobody drains.                     *)
Starving ==
    /\ strategy = "eventual" /\ listeners[ListenerName(ars.spec)].st = "none"
    /\ \E i \in Existing(sets) : sets[i].want

(* The listener of the runner group that was edited is still there and asks the *)
(* set for runners.                                                             *)
Haunted == \E g \in Bit \ {ListenerName(ars.spec)} : listeners[g].st # "none"

Settled ==
    \/ ~ars.exists \/ Abandoned \/ Stranded
    \/ allowed /\ ars.phase = "Outdated" /\ Existing(sets) = {} /\ listeners[ListenerName(ars.spec)].st = "none"
    \/ /\ allowed /\ ars.phase = "Running"
       /\ ars.ssid \in ScaleSetIds
       /\ scaleSets[ars.ssid] = [there |-> TRUE, group |-> ars.spec.group, name |-> ars.spec.name]
       /\ LET listener == listeners[ListenerName(ars.spec)]
          IN  /\ listener.st = "up" /\ listener.hash = ListenerSpecHash(ars.spec)
              /\ Existing(sets) = {listener.set}
              /\ sets[listener.set].hash = RunnerSetSpecHash(ars.spec)

(* Liveness: after the last edit the spec is applied, for good: one set with   *)
(* it, a listener for that set and the scale set in the service as the spec    *)
(* wants it; or everything is gone, if the object was deleted or its runners   *)
(* are outdated; and an object of a version that is not allowed is gone. The   *)
(* exceptions are Starving, Haunted and, after a failed call, Abandoned and    *)
(* Stranded.                                                                   *)
Converges == <>[](Settled \/ Starving \/ Haunted)
=============================================================================
