--------------------------- MODULE RunnerDeployment --------------------------
(***************************************************************************)
(* How the legacy controllers keep a number of runners: a RunnerDeployment    *)
(* with its RunnerReplicaSets, or a RunnerSet. Both end in                   *)
(* syncRunnerPodsOwners, which manages owners of one pod each: the Runners of *)
(* a RunnerReplicaSet, the StatefulSets of a RunnerSet. What happens to one   *)
(* owner and its pod is told in LegacyRunner and is reduced here to what the  *)
(* sets can see of it.                                                       *)
(*                                                                         *)
(* A reconcile is one step: it writes to objects that only it writes to, and  *)
(* reads a status that another controller wrote, at whatever time. The list   *)
(* of owners it takes from a cache may lack those it has just created.        *)
(***************************************************************************)
EXTENDS Naturals, Sequences, FiniteSets, FiniteSetsExt

CONSTANTS
    Modes,        \* kinds of installations, with bounds: see ModeType
    MaxOwners,    \* bound: owners at a time in any mode
    MaxReplicas,  \* bound: replicas asked for
    MaxJobs       \* bound: jobs

(* direct: a RunnerSet, whose template is changed in place; from: the replicas   *)
(* in the beginning. The bounds: on owners at a time, revisions of the template, *)
(* changes of the replicas, runners that do not register in time, owners that *)
(* the cached list shows late, the clock.                                        *)
ModeType == [direct : BOOLEAN, ephemeral : BOOLEAN, from : Nat, owners : Nat, tpl : Nat,
             scale : Nat, late : Nat, lag : Nat, time : Nat]

ASSUME RunnerDeploymentAssumption ==
    /\ Modes \subseteq ModeType /\ {MaxOwners, MaxReplicas, MaxJobs} \subseteq Nat
    /\ \A m \in Modes : m.from <= MaxReplicas /\ m.owners <= MaxOwners /\ m.tpl >= 1 /\ m.time >= 1

VARIABLES
    mode,    \* the kind of installation
    spec,    \* of the RunnerDeployment or RunnerSet; effective 0: no EffectiveTime
    sets,    \* the RunnerReplicaSets in order of creation; status 0: none or zero
    owner,   \* the owners, with their pod
    now,     \* the clock
    killed,  \* history: a job was cut short
    blind,   \* history: a set with active runners was deleted
    outdated,\* history: an owner of an earlier template was deleted
    scales, jobs, lates, lags

history == <<killed, blind, outdated>>
bounds == <<scales, jobs, lates, lags>>
vars == <<mode, spec, sets, owner, now, killed, blind, outdated, scales, jobs, lates, lags>>

Owners == 1..MaxOwners

(* sync: the time of its creation, recent: that is less than the recreation     *)
(* delay ago; ann: the annotation of the owner, req and done those of the pod;  *)
(* synced: Runner.Status.Phase is set; shown: the cached list has it. A pod     *)
(* that is marked done has no registration.                                     *)
NoOwner == [st |-> "none", set |-> 0, tpl |-> 0, sync |-> 0, recent |-> FALSE, ann |-> "none", synced |-> FALSE,
            shown |-> FALSE, pod |-> "none", req |-> FALSE, done |-> FALSE]

(* newRunner, newStatefulSet *)
NewOwner(s, shown) == [NoOwner EXCEPT !.st = "live", !.set = s, !.tpl = sets[s].tpl, !.sync = now, !.recent = TRUE,
                                !.shown = shown]

(* newRunnerReplicaSet *)
NewSet(sp) == [st |-> "live", tpl |-> sp.tpl, replicas |-> sp.replicas, effective |-> sp.effective,
               status |-> 0, ready |-> 0]

Init ==
    /\ mode \in Modes
    /\ spec \in [tpl : {1}, replicas : {mode.from}, effective : {0}]
    /\ sets = IF mode.direct THEN <<NewSet(spec)>> ELSE <<>>
    /\ owner = [n \in Owners |-> NoOwner]
    /\ now = 1
    /\ killed = FALSE /\ blind = FALSE /\ outdated = FALSE
    /\ scales = 0 /\ jobs = 0 /\ lates = 0 /\ lags = 0

LiveSets == {s \in DOMAIN sets : sets[s].st = "live"}
-----------------------------------------------------------------------------
(***************************************************************************)
(* The RunnerDeployment controller: one reconcile takes the first of these    *)
(* steps that applies.                                                       *)
(***************************************************************************)

Newest == Max(LiveSets)
NeedsSet == ~\E s \in LiveSets : s = Newest /\ sets[s].tpl = spec.tpl
NeedsScale == sets[Newest].replicas # spec.replicas \/ sets[Newest].effective # spec.effective

CreateSet ==
    /\ ~mode.direct
    /\ NeedsSet
    /\ sets' = Append(sets, NewSet(spec))
    /\ UNCHANGED <<mode, spec, owner, now, history, bounds>>

ScaleNewest ==
    /\ ~mode.direct
    /\ ~NeedsSet /\ NeedsScale
    /\ sets' = [sets EXCEPT ![Newest].replicas = spec.replicas, ![Newest].effective = spec.effective]
    /\ UNCHANGED <<mode, spec, owner, now, history, bounds>>

Active(n) == owner[n].st = "live" /\ owner[n].pod # "stopped" /\ ~owner[n].done

(* Once the newest set is 100% available the others are scaled to zero, and     *)
(* deleted when their status says that they have no replicas.                   *)
RetireOldSets ==
    /\ ~mode.direct
    /\ ~NeedsSet /\ ~NeedsScale
    /\ sets[Newest].ready >= sets[Newest].replicas
    /\ LET Old == LiveSets \ {Newest}
           Gone == {s \in Old : sets[s].status = 0}
       IN  /\ \E s \in Old : s \in Gone \/ sets[s].replicas # 0
           /\ sets' = [s \in DOMAIN sets |->
                          IF s \in Gone THEN [sets[s] EXCEPT !.st = "deleted"]
                          ELSE IF s \in Old THEN [sets[s] EXCEPT !.replicas = 0]
                          ELSE sets[s]]
           /\ blind' = (blind \/ \E n \in Owners : Active(n) /\ owner[n].set \in Gone)
    /\ UNCHANGED <<mode, spec, owner, now, killed, outdated, bounds>>

(* What a deleted set owned goes too. *)
GarbageCollect(n) ==
    /\ owner[n].st = "live" /\ sets[owner[n].set].st = "deleted"
    /\ owner' = [owner EXCEPT ![n].st = "deleting"]
    /\ UNCHANGED <<mode, spec, sets, now, history, bounds>>

DeploymentController == CreateSet \/ ScaleNewest \/ RetireOldSets
-----------------------------------------------------------------------------
(***************************************************************************)
(* syncRunnerPodsOwners, for set s                                           *)
(***************************************************************************)

(* A RunnerReplicaSet lists Runners by label, the template hash among them; a   *)
(* RunnerSet lists the StatefulSets it owns.                                    *)
Listed(s) == {n \in Owners : owner[n].st # "none" /\ owner[n].shown /\ (mode.direct \/ owner[n].tpl = sets[s].tpl)}

(* collectPodsForOwners, in the order of its tests                              *)
Unregistered(n) == owner[n].ann = "completed"
ReleasableAtOnce(n) == owner[n].ann = "requested"
Releasable(n) == owner[n].ann = "requested" /\ (owner[n].pod = "none" \/ owner[n].done)
Completed(n) == owner[n].pod = "stopped"

Passed(s) == {n \in Listed(s) : owner[n].st = "live" /\ (Unregistered(n) \/ Releasable(n))}
Kept(s) == {n \in Listed(s) : owner[n].st = "live"} \ Passed(s)

IgnoresUnsynced(s) == {n \in Kept(s) : Completed(n)}
Stoppers(s) == {n \in Kept(s) : Completed(n) \/ ~owner[n].synced}

PassOn(n) == IF Unregistered(n) THEN [owner[n] EXCEPT !.st = "deleting"] ELSE [owner[n] EXCEPT !.ann = "completed"]

(* The owners are listed in any order; the first that has completed, or has not *)
(* been synced, ends the reconcile.                                             *)
CollectStops(s) ==
    /\ \E x \in Stoppers(s), before \in SUBSET Passed(s) :
          owner' = [n \in Owners |->
                       IF n \in before THEN PassOn(n)
                       ELSE IF n = x /\ Completed(n) THEN [owner[n] EXCEPT !.st = "deleting"]
                       ELSE owner[n]]
    /\ UNCHANGED <<mode, spec, sets, now, history, bounds>>

Running(n) == owner[n].pod \in {"idle", "busy"}
MaybeRunning(n) == owner[n].pod = "pending" \/ Running(n)

Current(s) == {n \in Kept(s) : owner[n].tpl = sets[s].tpl}

Wanted(s) ==
    LET have == Cardinality({n \in Current(s) : MaybeRunning(n)})
    IN  IF sets[s].replicas > have THEN sets[s].replicas - have ELSE 0

HeldBackForGood(s) ==
    LET syncs == {owner[n].sync : n \in Kept(s)}
    IN  /\ syncs # {}
        /\ mode.ephemeral /\ sets[s].effective > 0 /\ Max(syncs) > sets[s].effective

(* Ephemeral runners that have gone since the last sync are not replaced until  *)
(* the next EffectiveTime, or the end of the delay.                             *)
HeldBack(s) ==
    LET syncs == {owner[n].sync : n \in Kept(s)}
    IN  /\ syncs # {}
        /\ mode.ephemeral /\ sets[s].effective > 0 /\ Max(syncs) > sets[s].effective
        /\ \E n \in Kept(s) : owner[n].sync = Max(syncs) /\ owner[n].recent

(* Each create is a call of its own: one that fails, the first or a later one,  *)
(* ends the reconcile. The cached list may lack what was created.               *)
CreateOwners(s) ==
    /\ Wanted(s) > 0 /\ ~HeldBack(s)
    /\ \E num \in 0..Wanted(s) :
          LET free == {n \in 1..mode.owners : owner[n].st = "none"}
              new == {n \in free : Cardinality({m \in free : m < n}) < num}
          IN  /\ Cardinality(new) = num
              /\ \E hidden \in SUBSET new :
                    /\ lags' = lags + Cardinality(hidden) /\ lags' <= mode.lag
                    /\ owner' = [n \in Owners |-> IF n \in new THEN NewOwner(s, n \notin hidden)
                                                  ELSE IF n \in Passed(s) THEN PassOn(n) ELSE owner[n]]
    /\ UNCHANGED <<sets, outdated>>

RetainAny(s) == {keep \in SUBSET {n \in Current(s) : Running(n)} : Cardinality(keep) = sets[s].replicas}

(* The newest that run, up to the replicas; owners made in the same second are  *)
(* in no order.                                                                 *)
Retained(s) == {keep \in RetainAny(s) :
                  \A n \in keep, m \in Current(s) \ keep : Running(m) => owner[n].sync >= owner[m].sync}

(* What is not retained is annotated, its pod first; once.                      *)
Redundant(s, keep) ==
    IF Wanted(s) > 0 THEN {} ELSE {n \in Current(s) \ keep : owner[n].ann = "none"}

Old(s) == Kept(s) \ Current(s)

Request(n) == [owner[n] EXCEPT !.ann = "requested", !.req = (owner[n].pod # "none" \/ owner[n].req)]

(* Termination starts, one outdated owner goes, or the status is written.       *)
UpdateOwners(s) ==
    /\ Wanted(s) = 0 \/ HeldBack(s)
    /\ LET enough == sets[s].replicas <= Cardinality({n \in Current(s) : Running(n)})
       IN  \E keep \in IF enough THEN Retained(s) ELSE {Current(s)} :
           \E gone \in IF Old(s) = {} THEN {{}} ELSE {{n} : n \in Old(s)} :
              /\ owner' = [n \in Owners |->
                              IF n \in Passed(s) THEN PassOn(n)
                              ELSE IF n \in gone THEN [owner[n] EXCEPT !.st = "deleting"]
                              ELSE IF n \in Redundant(s, keep) THEN Request(n)
                              ELSE owner[n]]
              /\ outdated' = (outdated \/ gone # {})
              /\ sets' = IF gone # {} THEN sets
                         ELSE [sets EXCEPT ![s].status = Cardinality({n \in Current(s) : owner[n].pod # "none"}),
                                           ![s].ready = Cardinality({n \in Current(s) : Running(n)})]
    /\ UNCHANGED lags

ReconcileSet(s) ==
    \/ CollectStops(s)
    \/ /\ Stoppers(s) = {}
       /\ CreateOwners(s) \/ UpdateOwners(s)
       /\ UNCHANGED <<mode, spec, now, killed, blind, scales, jobs, lates>>

SetController(s) == s \in LiveSets /\ ReconcileSet(s)
-----------------------------------------------------------------------------
(***************************************************************************)
(* One owner and its pod, as LegacyRunner has it                             *)
(***************************************************************************)

SetPod(n, p) ==
    /\ owner' = [owner EXCEPT ![n].pod = p]
    /\ UNCHANGED <<mode, spec, sets, now, history>>

PodMade(n) == owner[n].st = "live" /\ owner[n].pod = "none" /\ SetPod(n, "pending") /\ UNCHANGED bounds
Registers(n) == owner[n].st = "live" /\ owner[n].pod = "pending" /\ SetPod(n, "idle") /\ UNCHANGED bounds
RegistersAfterAll(n) == owner[n].pod = "late" /\ SetPod(n, "idle") /\ UNCHANGED bounds

RegistersTooLate(n) ==
    /\ owner[n].pod = "pending" /\ lates < mode.late
    /\ SetPod(n, "late")
    /\ lates' = lates + 1
    /\ UNCHANGED <<scales, jobs, lags>>

StatusSynced(n) ==
    /\ owner[n].st = "live" /\ owner[n].pod # "none" /\ ~owner[n].synced
    /\ owner' = [owner EXCEPT ![n].synced = TRUE]
    /\ UNCHANGED <<mode, spec, sets, now, history, bounds>>

JobStarts(n) ==
    /\ owner[n].pod = "idle" /\ ~owner[n].done /\ jobs < MaxJobs
    /\ SetPod(n, "busy")
    /\ jobs' = jobs + 1
    /\ UNCHANGED <<scales, lates, lags>>

JobEnds(n) ==
    /\ owner[n].pod = "busy"
    /\ SetPod(n, IF mode.ephemeral THEN "stopped" ELSE "idle")
    /\ UNCHANGED bounds

(* The pod controller unregisters a runner that is idle, and only then. *)
Unregisters(n) ==
    /\ owner[n].req /\ ~owner[n].done /\ owner[n].pod \in {"idle", "stopped"}
    /\ owner' = [owner EXCEPT ![n].done = TRUE]
    /\ UNCHANGED <<mode, spec, sets, now, history, bounds>>

Exits(n) == owner[n].done /\ owner[n].pod = "idle" /\ SetPod(n, "stopped") /\ UNCHANGED bounds

(* A job that outlives the grace period of its deleted pod is cut short. *)
OwnerGoes(n) ==
    /\ owner[n].st = "deleting"
    /\ owner' = [owner EXCEPT ![n] = NoOwner]
    /\ killed' = (killed \/ owner[n].pod = "busy")
    /\ UNCHANGED <<mode, spec, sets, now, blind, outdated, bounds>>

ListShows(n) ==
    /\ owner[n].st # "none" /\ ~owner[n].shown
    /\ owner' = [owner EXCEPT ![n].shown = TRUE]
    /\ UNCHANGED <<mode, spec, sets, now, history, bounds>>

Lives(n) ==
    \/ GarbageCollect(n) \/ PodMade(n) \/ Registers(n) \/ StatusSynced(n)
    \/ JobEnds(n) \/ Unregisters(n) \/ Exits(n) \/ OwnerGoes(n)
-----------------------------------------------------------------------------
(***************************************************************************)
(* The user, the autoscaler and time                                         *)
(***************************************************************************)

SetSpec(sp) ==
    /\ spec' = sp
    /\ sets' = IF mode.direct THEN [sets EXCEPT ![1].tpl = sp.tpl, ![1].replicas = sp.replicas,
                                                ![1].effective = sp.effective] ELSE sets
    /\ UNCHANGED <<mode, owner, now, history, jobs, lates, lags>>

(* A user leaves the EffectiveTime alone, the autoscaler sets it. *)
Scale ==
    /\ scales < mode.scale
    /\ scales' = scales + 1
    /\ \E r \in 0..MaxReplicas, e \in {spec.effective, now} :
          r # spec.replicas /\ SetSpec([spec EXCEPT !.replicas = r, !.effective = e])

ChangeTemplate ==
    /\ spec.tpl < mode.tpl
    /\ SetSpec([spec EXCEPT !.tpl = @ + 1])
    /\ UNCHANGED scales

Tick ==
    /\ now < mode.time
    /\ now' = now + 1
    /\ UNCHANGED <<mode, spec, sets, owner, history, bounds>>

(* DefaultRunnerPodRecreationDelayAfterWebhookScale has passed. *)
DelayEnds ==
    /\ mode.time > 1
    /\ \E n \in Owners : owner[n].recent
    /\ owner' = [n \in Owners |-> [owner[n] EXCEPT !.recent = FALSE]]
    /\ UNCHANGED <<mode, spec, sets, now, history, bounds>>

Next ==
    \/ DeploymentController
    \/ \E s \in LiveSets : SetController(s)
    \/ \E n \in Owners : Lives(n) \/ ListShows(n) \/ RegistersTooLate(n) \/ RegistersAfterAll(n) \/ JobStarts(n)
    \/ Scale \/ ChangeTemplate \/ Tick \/ DelayEnds

Spec == Init /\ [][Next]_vars

(* Controllers reconcile on events, pods go on, jobs end and time passes. *)
FairSpec ==
    /\ Spec
    /\ WF_vars(DeploymentController)
    /\ \A s \in 1..2 : WF_vars(SetController(s))
    /\ \A n \in Owners : WF_vars(Lives(n)) /\ WF_vars(ListShows(n))
    /\ WF_vars(Tick) /\ WF_vars(DelayEnds)
-----------------------------------------------------------------------------
OwnerType ==
    [st : {"none", "live", "deleting"}, set : 0..mode.tpl, tpl : 0..mode.tpl, sync : 0..mode.time, recent : BOOLEAN,
     ann : {"none", "requested", "completed"}, synced : BOOLEAN, shown : BOOLEAN,
     pod : {"none", "pending", "late", "idle", "busy", "stopped"}, req : BOOLEAN, done : BOOLEAN]

SetType ==
    [st : {"live", "deleted"}, tpl : 1..mode.tpl, replicas : 0..MaxReplicas, effective : 0..mode.time,
     status : 0..MaxOwners, ready : 0..MaxOwners]

(* Every variable holds a value of its kind, and the parts of one record agree. *)
TypeOK ==
    /\ mode \in ModeType
    /\ spec \in [tpl : 1..mode.tpl, replicas : 0..MaxReplicas, effective : 0..mode.time]
    /\ sets \in Seq(SetType) /\ Len(sets) <= mode.tpl
    /\ owner \in [Owners -> OwnerType]
    /\ now \in 1..mode.time
    /\ {killed, blind, outdated} \subseteq BOOLEAN
    /\ scales \in 0..mode.scale /\ jobs \in 0..MaxJobs /\ lates \in 0..mode.late
    /\ lags \in 0..mode.lag

(* Scaling down and rolling out cut no job short, however the steps of the      *)
(* controllers interleave, with two exceptions that the code has: an old set    *)
(* that is deleted because its status is late, and a RunnerSet's StatefulSet of *)
(* an earlier template, which is deleted without being drained.                 *)
JobsSurvive == killed => blind \/ outdated

Serving(t) == {n \in Owners : /\ owner[n].st = "live" /\ owner[n].tpl = t /\ owner[n].ann = "none"
                              /\ owner[n].pod \notin {"late", "stopped"}}

(* No more runners of a template are kept than were ever asked for, whatever    *)
(* fails or completes, and one more for each that was late when it registered   *)
(* and for each that the cached list did not show when it was made: the sets     *)
(* wait for what they know to have created.                                     *)
NoSurplus == \A t \in 1..mode.tpl : Cardinality(Serving(t)) <= MaxReplicas + lates + lags

(* The types, and no runner too many.                                           *)
Consistent == TypeOK /\ NoSurplus

Settled ==
    /\ mode.direct \/ Cardinality(LiveSets) = 1
    /\ \A n \in Owners : owner[n].st = "none" \/ (n \in Serving(spec.tpl) /\ Running(n))
    /\ Cardinality(Serving(spec.tpl)) = spec.replicas

(* When the user leaves it alone, the deployment comes to the replicas of the   *)
(* latest template and nothing else, unless a runner that did not register is   *)
(* never unregistered (LegacyRunner).                                           *)
Settles == <>[](Settled \/ \E n \in Owners : owner[n].pod = "late")
=============================================================================
