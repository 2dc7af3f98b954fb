# TLA+ models of actions-runner-controller

A verification development for the controller that runs self-hosted GitHub
Actions runners on Kubernetes: TLA+ modules translated from the Go code, TLC
configurations that check them on small instances, and TLAPS proofs for all
values of the constants. Paths are relative to the repository.

## 1. The system

A *runner scale set* is a pool of one-job runners. GitHub's Actions service tells
a *listener* how many jobs are assigned to the scale set; the listener patches the
number of replicas into an `EphemeralRunnerSet`; a controller creates and deletes
`EphemeralRunner` resources to follow it; another controller gives each of them a
registration, a secret and a pod. An `AutoscalingRunnerSet` owns all of it. The
older (summerwind) controllers do the same job with `Runner`, `RunnerDeployment`,
`RunnerSet` and `HorizontalRunnerAutoscaler` resources, polling or webhooks.

| component (source) | state it keeps | operations | talks to |
|---|---|---|---|
| EphemeralRunner controller (`ephemeralrunner_controller.go`) | status of the runner (phase, runner id, job, failures), two finalizers, pod, JIT config secret | `Reconcile`: register, store, create pod, follow pod, retry with backoff, mark failed or outdated, delete | API server (through informer caches), Actions service |
| EphemeralRunnerSet controller (`ephemeralrunnerset_controller.go`) | status of the set (phase, counts), finalizer, its runners | `Reconcile`: scale up, scale down, status, teardown | API server, Actions service |
| Listener: Scaler (`cmd/ghalistener/scaler`) | `targetRunners`, `patchSeq`, `dirty` | `HandleDesiredRunnerCount`, `HandleJobStarted`, `HandleJobCompleted` | message queue of the service, API server |
| Listener: capacity monitor (`cmd/ghalistener/capacity`) | placeholder pods in pairs, advertised capacity | `reconcileProvisioning`, `reconcileReporting`, `adjustPairs`, cleanup | API server, listener, HUD |
| AutoscalingRunnerSet controller | the scale set id, listener, EphemeralRunnerSets of the current and of old templates | create or rename the scale set, replace runner sets by the update strategy, teardown | API server, Actions service |
| AutoscalingListener controller | listener pod, its config, role, mirrored secrets | create in order, restart the pod, teardown in order | API server |
| Resource builder | none | makes the objects above: finalizers, annotations, hashes | |
| Legacy: Runner and runner pods (`controllers/actions.summerwind.net`) | annotations on pods and runners with the progress of the unregistration, finalizers, saved GitHub clients | create the pod, graceful stop, clean up linked resources | API server, GitHub API |
| Legacy: RunnerDeployment, RunnerReplicaSet, RunnerSet | a set per template; owners (Runners or StatefulSets) of one pod each | roll out, create, drain and replace owners (`syncRunnerPodsOwners`) | API server |
| Legacy: autoscaler and webhook server | capacity reservations in the spec of a HorizontalRunnerAutoscaler, a bounded queue and batches in the server, the time of the last scale-out | `Handle`, `batchScale`, `Reconcile` of the autoscaler, scheduled overrides, search for the scale target | GitHub (webhooks, API), API server |
| `pkg/actionsglob`, `pkg/hookdeliveryforwarder`, `pkg/actionsmetrics`, `vault`, `logging`, `hash` | positions of forwarded deliveries; otherwise none | pure functions and adapters | |

What is hard in it:

- **Interleaving.** A `Reconcile` makes up to a dozen calls; between any two of them
  the pod, the job, the listener, the owner and the garbage collector move on.
  (One key is never reconciled twice at the same time.)
- **Stale reads.** Runners, sets and pods are read from informer caches. (Secrets are
  read from the API server: `main.go` excludes them from the cache.)
- **Two systems of record.** A registration lives in the service and its id in Kubernetes;
  every creation, removal or marking is two calls, with a crash in between possible.
- **Retries.** An error puts the key back into the queue and everything is done again.
- **At-most-once actions.** The controller acts on a `patchID` once; ids start over with a
  new listener process and wrap at `MaxInt32`; 0 means "enforce exactly".
- **Counting without identities.** Webhook reservations, placeholder pairs and replicas are numbers
  that are raised and lowered by events which may be lost, repeated or late; nothing ties them to jobs.
- **Wake-ups.** Progress depends on a watch event or a requeue coming for every change that
  unblocks something, some of which are not changes in Kubernetes at all.

`PROJECT.json` lists these at their lines ("hazards") with the properties that cover them.

## 2. Modules

| module | models |
|---|---|
| `EphemeralRunner` | one EphemeralRunner and everything that acts on it |
| `Scaler` | the listener's Scaler and the spec it patches |
| `ScaleSet` | EXTENDS `Scaler`: listener, EphemeralRunnerSet controller, its runners and the jobs, composed |
| `AutoscalingRunnerSet` | the AutoscalingRunnerSet controller with its scale set, its EphemeralRunnerSets and its listener |
| `AutoscalingListener` | the AutoscalingListener controller with the listener pod and what the pod needs |
| `Capacity` | the capacity monitor: provisioner and reporter |
| `LegacyRunner` | one legacy Runner, its pod and its registration |
| `RunnerDeployment` | RunnerDeployment with RunnerReplicaSets, and RunnerSet, over owners of one pod each |
| `Autoscaler` | webhook server, batch scaler and HRA controller, composed |
| `ReservationLedger` | the abstract specification of the webhook server that `Autoscaler` implements |
| `ScaleTarget`, `Schedule` | the search for the HRA of an event; scheduled overrides |
| `EphemeralRunnerProofs`, `ScaleSetProofs` (with `Scaler`), `AutoscalingRunnerSetProofs`, `AutoscalingListenerProofs`, `CapacityProofs`, `LegacyRunnerProofs`, `RunnerDeploymentProofs`, `AutoscalerProofs` (with `ScaleTarget` and `Schedule`) | the theorems about the modules each extends, with their proofs |
| `MC...` | instances for TLC; `MCAutoscaler` puts `Autoscaler`, `ScaleTarget` and `Schedule` in one run |

Definitions keep the names of the code; the "map" of `PROJECT.json` gives the lines of each.
A definition whose name says how it differs from the one after it
(`RemoveFromServiceIgnoringJob` before `RemoveFromService`) is a plausible slip in that code: replacing
the real definition by it must break a property, which shows that the property looks at the code.
Each module has one invariant `Consistent`, its types together with the relation between its parts that
matters most; the other properties stand alone. The types of `ScaleSet` are proved and not run.

### EphemeralRunner

`Reconcile` is a program counter `pc` that names the next call to the API server or the service,
and local variables (`lEr`, `lPod`, `lSecret`) that keep what was read; each action is one
call together with the pure code up to the next one. `er`, `pod`, `secret` are the objects in
the API server; `erCache`, `podCache` the copies Reconcile reads; `reg`, `busy` what the
service knows. Names of resources are abstracted: there is one runner, its pods have
increasing uids and its registrations increasing ids, and `foreign` is a runner of another
scale set with the same name. A pod is reduced to what the controller distinguishes in its
status (`PodStates`), a secret to the runner id in it (or "unreadable"). `failures` is the set
of pods that failed, as in the code's map keyed by pod uid. Time is `cooling`: now is before the
end of the backoff. `CallFails` is any call returning an error, `Restart` the controller process
dying between two calls; both, and refused pods, drains and edited secrets, are limited by
`MaxFaults`. With `Hooks` a job has pods and secrets of its own (`linked`), which its end may leave behind and the
deletion of the runner cleans up. `races` and `killed` are history variables that only properties read.

With `CachesLag = FALSE` a watch event is delivered before anything else happens; with TRUE the
caches are arbitrarily old. The properties say which of them hold in which mode.

### Scaler

The three fields of the Scaler, the spec it patches, and the operations that change them. The
process ends with the first handler error, so a failed patch is `ListenerRestarts`, with New's
initial values. `MaxSeq` is the wrap of `patchSeq` (math.MaxInt32 in the code; at least 2).

### ScaleSet

`Scaler` together with `Reconcile` of the EphemeralRunnerSet controller (again one action per
call: `pc`, the list it has read in `lList`, the status it will write in `lStatus`) and what the
two see of the runners: state, runner id present, job recorded, patchID annotation. A runner's
own controller appears as the steps others can observe (`RunnerRegisters`, `RunnerProgresses`,
`RunnerEnds`, `RunnerGone`, `RunnerIsMarked`); the jobs are a number plus the set of busy runners.
`Settle` is the last conjunct of every action: with prompt watches it brings the caches up to
date along with the change and wakes the controller if there was a change to the set or a
runner; with `CacheLags` the actions `WatchSet` and `WatchRunners` do that later.
Runner names are reused once nothing remembers the last bearer (`Free`), as generated names are
never reused by the API server while an object or a cached copy has them.

### AutoscalingRunnerSet

`Reconcile` again by its calls. `ars` is the object in the API server and `l` the copy that
Reconcile works on: a patch answers with the current object, so that later steps of one Reconcile
may see a newer spec than the first ones. `FirstStep`, `HashStep`, `ScaleSetStep`, `ListStep` and
`ListenerStep` are the chain of conditions in Reconcile, each naming the next call. The spec is
one bit for each group of fields that the hashes treat alike; an edit flips a bit, so that two
edits of a field are a rollback. An EphemeralRunnerSet is what this controller sees of it (its
hash, whether its spec asks for runners, whether its status counts any, whether it is outdated)
and whether it really has pending or running runners (`live`); a listener is the set it scales
and its hash, under a name that depends on the runner group. Reads are up to date. `held` is what is kept by the
cleanup finalizer, in the order in which Reconcile releases it, one call each: the rights of the runners, then the
secret, without which calls to the service are impossible, then the controller's own rights. The service is taken to accept the repeated deletion of a scale set.
`MaxTrouble` limits outdated runners and upgrades of the controller, which make the object's
version one that is not allowed.

### AutoscalingListener

A resource is the generation of the AutoscalingListener it was built for, because all generations have
the same names. `lagging` is chosen once per behaviour: the kinds of objects whose cache is old; secrets are never cached.
The reads before the first write of a Reconcile are one step with it. `config` and `cred` are versions of
the credentials: a rotation has no event, and is noticed when the config secret is made anew.

### Capacity

`ppc` and `rpc` are the next steps of the two goroutines, which meet only in the pods. A slot has two halves,
each in one of the states the code tells apart (late: pending for longer than the timeout; cordoned: not
schedulable). Real runners may preempt placeholders at any time. The multipliers are fractions and `Round` is the rounding of the
code. A failed call is one that outlasts `retryWithBackoff`. `Timeout` says whether placeholders have an end (PlaceholderTimeout > 0);
without one, those that a killed listener left stay until somebody deletes them.

### LegacyRunner

`view` is the copy of the pod that one Reconcile of the pod controller works on, `ppc` its next call. `linked` are pods and secrets of a job
that nobody has asked to delete: they are listed once (`ListLinked`), deleted, and the finalizer dropped without a second look (`Unlink`), all
before the runner is unregistered; `stray` records that a job made something the list did not show, `unmarked` that the Runner could not be read and was
passed over. The
annotations are the fields `id`, `req`, `start`, `complete`, `wait` of the pod. `gh` is the registration (`ghost`: left by a
runner that died), `listed` what the cached list of runners shows. A removal may take effect without an answer.

### RunnerDeployment

A reconcile is one step, but statuses, pods, jobs and registrations move between any two of them. What
`LegacyRunner` tells of one owner is reduced to pod state and annotations. `mode` selects a RunnerDeployment or a
RunnerSet and the bounds. The list of owners comes from a cache: with `mode.lag` an owner that was created is `shown` later,
and `lags` counts those. `recent` is the recreation delay after a webhook scale, `effective` and `sync` the times it compares.

### Autoscaler, ReservationLedger, ScaleTarget, Schedule

A trigger goes from the bounded `queue` to `held` (the worker), to `batch` (per HRA) and, in `Scale`, into the
reservations of the HRA, each the number of ticks until it expires. `cache` is what webhook server and controller
read. Deliveries may be lost, repeated or refused by a full queue (`missed` records ends that
were); `set` is the installation, chosen in the beginning, with its bounds. A runner whose job is at an end may be
"leaving": GitHub calls it idle, its pod is known as busy and terminating, and the percentage metric counts it. `ReservationLedger` knows only accepted
triggers and counts of reservations; the refinement maps its pending triggers to batch, held target and queue, in this order.
`ScaleTarget` searches a catalog of HRAs (repository, organization, enterprise, default and custom runner groups); the groups are kept in a
list by precedence, as `VisibleRunnerGroups` does, and the
reference definition `Serves` ranks. An event carries what fails in its search: the question to GitHub (`client`) and the keys whose HRAs or targets cannot
be read (`failing`); an error of the traversal is dropped, as in the code. `Schedule` compares the windows of `MatchSchedule` with the plain definition of an override in force;
one without minReplicas changes nothing and hides those after it.

## 3. Runs

| run | shows | bounds |
|---|---|---|
| `er` | one runner is safe: no job is stopped by a delete, no registration and nothing that container hooks made outlives its runner, one identity, at most maxFailures restarts; a deleted or finished runner goes, one without a pod gets one | 1 retry, 2 registrations, 4 pods, 2 faults: a second registration after a crash, a pod lost in each attempt, and two independent faults |
| `er_lag` | identity and jobs with arbitrarily old caches, except after one of the rare events the properties name | 2 registrations, 2 pods, 1 fault; no evictions (a pod that fails takes the same way), no container hooks |
| `scaleset` | what the listener writes is in its limits, not overlooked, and exact only when quiet; scaling down spares runners with jobs, however old the caches are | 1 runner, 1 job at a time, wrap at 2 |
| `scaleset_live` | maxRunners holds through failed creations, restarts, drains; no orphans; jobs get done, surplus runners and deleted sets go | 1 runner allowed and 2 names, 1 job, 1 trouble: the surplus runner that a wrong count would create has a name |
| `ars` | edits, a deletion, a failed call, and an outdated runner or an upgrade between any two calls, with both strategies: teardown in order, the credentials after the last call that needs them; a listener serves a set that stays; an edit is applied for good, outdated runners lead to a complete teardown, objects of another version are deleted | 3 sets, any 2 changes of template, name, group and other fields (name and group change once, and not both), at most 1 a fault and 1 a trouble: the set is replaced twice, or an edit of the template is rolled back, or an edit meets a fault |
| `ars_group` | *violation*: an edit of the runner group leaves the old listener behind | 1 edit |
| `listener` | nothing is left behind; pod, config and rights are of one generation; in the end it is gone or runs with the latest credentials | 2 generations, 1 rotation, 1 fault, 1 trouble; prompt caches, late listener and pod, late rights |
| `capacity` | the caps, the shares of the queue, and what pool and report come back to | cap 1 and 2 slots, 1 real runner, 1 queued job, HUD failure asking for 2 pairs, 1 fault, 1 trouble: a pool over its cap, and half a pair, are possible |
| `legacy_runner` | no job cut short by scaling down, no registration left, what a job made left only where it came after the one list of it, no pod made again, the runner goes | ephemeral and static with 1 fault, ephemeral with a lagging cache (then a pod may be made again for a Runner that is being deleted), each with 1 trouble, kubernetes mode |
| `rollout` | jobs survive, no runner too many, the deployment settles | 2 templates with 2 replicas each (4 owners), scaling from 0, 1 and 2 to any other of them (with an owner to spare from 0 and 1), a late registration, an owner that is shown late (scaling up to 1, and a RunnerSet whose template changes); 1 job |
| `autoscaler` | the server implements the ledger; no excess reservations; the delay is kept; triggers are booked, jobs get runners, capacity is released; the two searches agree with their references | 12 installations: 3 jobs without faults, 2 with one of losses, repetitions, a full queue, failed calls, a deleted HRA, lagging caches, restarts or metrics, with or without a clock, or 1 with a clock and most of these at once; catalogs of up to 3 HRAs, pairs of overrides over 9 ticks |
| `autoscaler_stuck` | *violation*: the deletion of an HRA blocks the triggers of all others | as `WithDeletion` |

`MaxSeq = 2` in the ScaleSet runs makes patchIDs wrap and collide with those on older runners
after two patches; longer sequences only delay that. Deadlock is checked in `capacity` only: in the others an
object that was deleted is gone, the last job may have ended, and nothing has to happen after that. Since faults, jobs and edits
are finite in number, liveness is mostly stated of the end (`<>[]`); "X happens in the end" is then
"X holds for good once the environment has done what it will".

**Fairness.** Weak fairness of `Reconcile` as a whole (controller-runtime's work queue hands
out a queued key, and its rate limiter only delays), of each watch, of the end of a backoff, of the
listener's poll and message handling (one loop, which a long poll cannot block for good), of the
kubelet, and of jobs, which have timeouts. In `AutoscalingRunnerSet`, of `Reconcile`, of the end of a
listener that is being deleted, and, for each set, of the end of its runners, of its status and of its
end when it is being deleted (`ScaleSet` and `EphemeralRunner` show these of the
controllers behind them). In `Capacity`, of the two tickers, of the process and of the start and the bounded life of
placeholders. In the legacy modules, of each controller, of kubelet, garbage collector and of GitHub's updates of a registration, and of
time. One strong fairness: `Scale` of `Autoscaler`, a retry after a call failed; it is attempted
again and again, in rounds between which it is not enabled, and not every attempt fails. Nothing is assumed of faults, users or the arrival of jobs, and
nothing of the AutoscalingRunnerSet controller in the other modules.

**Assumptions that the properties name.** `MaxRunnersRespected` and `NoOrphans` need prompt watches (`ScaleSet` with `CacheLags` false). The ledger's
steps are exact unless the installation has the trouble that the ledger names: restarts of the server (triggers are lost), unanswered patches (a batch
is booked twice), a cache of the webhook server that lags (booked on an old count). `NoExcess` needs none of the three, `ScaleDownWaits` up-to-date caches;
events of one job are delivered in order. `NoLeftovers` needs up-to-date caches of roles and bindings; that a pod has its rights, in
`OneGeneration`, needs an up-to-date cache of service accounts and not both listeners and bindings from old ones. The percentage metric has its default
thresholds; periods of overrides have a fixed length.

### What the violations say

1. `ars_group`: the runner group is part of the listener's name, so an edit of the group leaves
   the old listener behind, and the deletion of the AutoscalingRunnerSet does too
   (`autoscalingrunnerset_controller_test.go:238`: "should cleanup all resources").
2. `autoscaler_stuck`: the worker repeats a batch until every HRA in it was patched, and one that was
   deleted never can be (`horizontal_runner_autoscaler_batch_scale.go:46`: "All the targets in the queue are dequeued every 3 seconds").

The models also show, as exceptions that the properties name (each is false without its exception):

- a runner deleted before its status has the id leaves its registration behind
  (`NothingLeft`, `"unregistered"`); failed runners count as runners and are never replaced (`JobsGetDone`); with an
  old list cache more than maxRunners runners are created (`values.yaml:60` calls it the maximum);
- `NoScaleSetLeak`, after a failed call: the patch that records the id of a new scale set fails, the
  object is deleted, and `deleteRunnerScaleSet` takes the missing annotation for "never created". The comment
  at `autoscalingrunnerset_controller.go:661` counts three ways to have no annotation; this is a fourth;
- `ListenerServesSet`, after an outdated runner: `latest()` includes sets that are being deleted. A
  rollback during the teardown of an outdated set makes it current again; it gets a listener that is never
  pointed to the next set, because the listener's hash does not cover the set's name;
- `Starving`: with "eventual", a change that only concerns the listener deletes it and then waits for
  runners that the set, whose replicas nobody lowers, keeps replacing (or that are idle), although
  `gha-runner-scale-set-controller/values.yaml:125` speaks of "pending / running jobs"; `Haunted` is the listener of `ars_group`;
- `Abandoned`: the error of the Delete after a version change is swallowed, and nothing repeats it;
- `Stranded`: the scale set is deleted, the patch that drops its id fails, and an edit makes
  Reconcile leave the teardown; the id of a deleted scale set is then used for good;
- `TeardownInOrder`: an object that is deleted before the controller added its finalizer goes at once, and what the chart
  created with a cleanup finalizer is released by nobody;
- `NoLeftovers`: a role that was created but has not reached the cache is overlooked by the teardown and stays;
- `JobsSurvive`: an old RunnerReplicaSet is deleted on the word of a late status (`blind`), and a RunnerSet deletes the
  StatefulSets of an earlier template without draining them (`outdated`);
- `Settles` of `RunnerDeployment`: a runner that does not register in time is never unregistered, because
  `ensureRunnerPodRegistered` returns before the requested stop is looked at, although `runner_pod_owner.go:178` says
  "Recreating the pod to see if it resolves the issue"; `Goes`: a pod that was made again with the ID of its predecessor waits while it is pending
  (`InheritedID`), and one that was made again because its Runner was passed over unmarked, and never registers, waits for ever (`RemadeUnregistered`);
- `NothingLeftBehind`: a job that goes on while its pod is deleted directly, or while the cached list lags, makes pods and secrets that stay (`stray`);
- `Consistent` of `RunnerDeployment`: a set that does not see the owners it created creates them again (`lags`), and drains the surplus later;
- `FindsBest`: an HRA without its scale target makes the search fail for all events of its organization; a group that cannot be
  read ends the traversal, whose error is replaced by a nil one (`horizontal_runner_autoscaler_webhook.go:473`), so that the delivery counts as one without an HRA; and a RunnerSet with
  a runner group is also found under the default group.

Four statements of the documentation are plainly not what the code does, and no property repeats
them. `docs/automatically-scaling-runners.md:273` says of an event for which ARC finds several HRAs: "If it finds more than one match, the event
is ignored", and the log at `horizontal_runner_autoscaler_webhook.go:270` asks for "exactly one"; but `getJobScaleTarget` returns the first HRA that
takes the job, nothing counts the others, and between HRAs of one key the order of the cached list decides. `FindsBest` says what holds instead: one of
the highest precedence is scaled (listed under "findings"). `gha-runner-scale-set-controller/values.yaml:126` promises no overprovisioning with "eventual"; but `drainingJobs` reads a status that
may not count the runners just created, the set is replaced without being scaled to 0, and
both sets then have runners. `scaler.go:164` says an unchanged target is not patched; every poll
patches, with a new patchID (and the controller depends on it: a quiet poll sends 0, which is what
removes surplus runners). `ephemeralrunner_types.go:139` reserves the phase Failed for runners that fail "after
multiple retries"; the code sets it at once for a pod that the API server refuses, and deletes a runner
that uses up its retries.

## 4. Proofs

Every safety property that a run checks is proved here for all values of the constants; the liveness properties are not.

`ScaleSetProofs` begins with the listener's part. It proves, for all `MinRunners <= MaxRunners`, job counts and wrap bounds of at least 2,
that `ScalerTypeOK` and `SpecInLimits` are invariants and that `EventsAreSeen` and
`ForcedOnlyWhenQuiet` hold of every step. The inductive invariant is `ScalerTypeOK /\ SpecInLimits`:
the action properties need that the patchID in the spec is 0 or the process's last `patchSeq`,
the second conjunct, because otherwise the next number of a process could equal one that
an earlier process left in the spec.

It then proves four facts about the composition of listener, EphemeralRunnerSet
controller, runners and service, for every set of runners, limit and number of jobs:

- `ScaleSetTypes`: `TypeOK`. Its invariant `TypeInv` adds that busy runners never outnumber the
  jobs the service counts (each job ends once, so the counter stays natural), and that the
  listener's own invariant holds of the embedded `Scaler`.
- `ScaleSetSparesJobs`: `ScaleDownSparesJobs`, also with lagging caches. A copy of a runner with an
  id is evidence of a registration whatever its age (`CacheIds`, `ListIds`); by the time the
  object is deleted the service has accepted the removal and cannot assign a job
  (`VictimRemoved`); and the branch that deletes without asking the service is only entered
  when the set is really being deleted (`TornDownWhenDeleted`).
- `ScaleSetMaxRunners`: `MaxRunnersRespected` when `~CacheLags`. Between two creations of one
  Reconcile the limit alone is not inductive; `PlacesLeft` says that what remains to be
  created fits beside what stands.
- `ScaleSetNoOrphans`: `NoOrphans` when `~CacheLags`. `OrphanInv` ties the creating loop to
  a set that still has its finalizer, and the removal of the finalizer to an empty list.

The last two are conditional because with a stale list they are false: a Reconcile that does not see
the runners it created exceeds the limit, and a teardown that lists before its cache has a runner just created
drops the finalizer too early (Kubernetes' garbage collector, which is not modelled, then
deletes the runner through its owner reference).

The other six modules go the same way. Their inductive invariants are conjunctions of named parts, each first
checked by TLC on the instance of its run and then proved to be kept by every action.

**`EphemeralRunnerProofs`.** `EphemeralRunnerTypes`, `EphemeralRunnerOneIdentity`, `EphemeralRunnerConsistent` (with the bounded number of failures),
`EphemeralRunnerKeepsJobs` and `EphemeralRunnerLeavesNothing`, with prompt and with lagging caches, with and without hooks, for all bounds.
With prompt watches the invariant is `PromptInv`:

- `IdentityInv`: registration, secret, status and pod agree wherever two of them hold an id, and the secret
  outlives what was derived from it. Agreement alone is not inductive, because a registration is
  replaced (`removeByName`) while other places may remember it;
- `LocalInv`: what each call may still rely on of the copies read earlier: nobody but Reconcile writes those fields, so only the mark for
  deletion, the job and the end of the pod come as a surprise. In `Registering` there is neither a secret nor an id yet, which is why replacing the registration is harmless;
- `RunnerInv`, `PodInv`, `ServiceInv`: fields and finalizers come and go in one order, a pod
  exists only after the id is in the status, and a finalizer is dropped only after the service has given the runner up or its id was never recorded.

With caches that lag it is `LagInv`, which says what a copy of any age still tells. `CopyInv`: fields are set once and finalizers go once, so a copy is a
former state of the object, and where Reconcile stands says which of its reasons are still good. `PodsInv`: before the teardown only a pod
that crashed is deleted, so that a copy which tells how a pod stopped is right. `IdsInv`: the places that hold an id agree, and a runner with an id has its secret; a Reconcile that finds
no secret therefore registers a runner that has neither id nor pod, however old its copy is. These hold until one of the rare
events that the properties name (`Quiet`); `CleanInv`, about what is left behind, until any of them.

**`AutoscalingRunnerSetProofs`.** `TeardownInOrder`, `NoScaleSetLeak`, `Consistent` and `ListenerServesSet`, for any number of edits, sets, failed
calls and upgrades and for both strategies. The steps are first classified by what they do to the object, to Reconcile and to the service (`Moves`);
the invariants are then shown for each kind of step. `ObjectInv` (finalized before it has anything to clean
up), `TeardownInv` and `HeldInv` say how far the teardown has come over any number of Reconciles,
and `LeakInv` that without a failed call the service has no scale set but the one whose id is recorded or about to be.
`ServeInv` is the invariant behind `ListenerServesSet`: the newest set is up, a listener of the current spec that is up scales it, and a set is
only created while there is no such listener, because otherwise the newest set would have had the right hash. It rests on the
bound of `EditSpec`: a group that is edited back finds the listener that the first edit left behind (`ars_group`), still
pointed to a set that is deleted.

**`AutoscalingListenerProofs`.** `Consistent` and `NoLeftovers` for *every* set of lagging caches, where the run has three of them. The parts of
`IInv` follow what a pod needs (object, config, account, role, binding), each under the condition on
`lagging` without which it is false. `HoldInv` carries the argument: a Reconcile that sees a live, finalized object
sees the current one, and while one cleans up there is no such object, in the cache or out of it.

**`CapacityProofs`.** `Consistent`, with `CapRespected`, for all caps, queues, clusters, faults and restarts. A cycle creates pairs one call at a
time from a count it made earlier, so the cap is not inductive; `CycleInv` says that the whole pairs and those
still to be made fit under it, because behind its back pairs only break or go. `CapacitySlicesCoverQueue`: the sum of the slices is a fold over a set in an
order that the definition leaves open; it is shown, for every set of slices, to be a share that depends only on how many of them have one more than the rest.

**`LegacyRunnerProofs`.** `NoJobKilled`, `Consistent` (with `NoRegistrationLeak` and `NothingLeftBehind`) and the action property `PodIsNotRemade`, with a lagging cache too.
The progress of a stop lies in annotations that are read from old copies: `StopInv` says that,
unless something was forced, an annotation or a copy that claims the stop to be over is right (`PodStays`, `ViewHolds`) and stays so. `MarkInv`
orders the mark on the Runner before the calls that let the pod go, and `LinkedInv` that the second
finalizer stays until the deletion of what the job made was asked for, and that what is there after that is `stray`; that nothing is stray in a stop nobody forced is part of `StopInv`.

**`RunnerDeploymentProofs`.** `JobsSurvive` and `Consistent` for every installation in `Modes`. Each step is described
by what it does to one owner (`Move`). `DrainInv` orders the annotations of an owner, `LossInv` says that what is going has
finished or is one of the two named exceptions, and `CountInv` that the owners that count for a template are at most those asked for,
the late ones and those that a list did not show: what a set creates is what it lacks of the owners it sees, and the hidden ones are no more than `lags`.

**`AutoscalerProofs`.** The loops of the code over triggers, reservations and groups are folds in the model. An induction theorem with the claim as a
parameter cannot be used here, so the proofs do induction with a *set* of numbers or lists for which the claim holds (`SetInduction`,
`SequenceInduction`); a fold is unfolded to the function that its definition chooses, which exists (`FoldExists`) and is a
loop (`ApplyLoop` and its like). On this rest:

- `AutoscalerTypes`;
- `AutoscalerImplementsLedger`: every step of server, batch scaler, controller, clock and GitHub is a step of `ReservationLedger` or a stutter. A batch does to the number of
  reservations what the ledger does to its count (`PlanLength`), cuts at zero included; reservations that expired only make it start from a smaller count;
- `AutoscalerScaleDownWaits`: `DelayInv` says that the status holds the growth of the target as long as the delay lasts, unless its write failed;
  `OrderInv` that reservations expire in the order of the list and that the effective time is no later than the last of them, which is why a new maximum never lies before it;
- `AutoscalerConsistent`: `NoExcess` alone is not inductive, since a start that is queued counts already and an end that is on its way does not yet. `EventsInv` says which
  deliveries can be on their way, and `ExcessInv` balances what is due (reservations after all pending triggers) and the starts still owed with the
  unsettled jobs and repeated deliveries;
- `ScheduleOverridesAreKept` and `ScaleTargetFindsBest`: the two searches agree with their reference definitions for any list of overrides, resp. HRAs in any order and
  groups as GitHub lists them. The insertion of a group keeps the list ordered (`AddFacts`), the traversal returns the first group with a target, and an HRA that
  serves the event is found through a visible group (`ServedIsVisible`).

What the attempts changed in the models: a failed poll of the HUD is now `NoHud = -1`, because the earlier marker was also a
possible number of jobs; the condition on `lagging` in `OneGeneration` was missing (a service account goes with the object of its own generation,
which an old cache does not show; with old listeners and old bindings a cleanup of the last object deletes the binding of the next); `Modes` of `RunnerDeployment` states that an installation
starts within its bounds; `ReservationLedger` distinguishes three troubles where it had one, since each allows its own deviation and no other; the last recurrence (`until`) no longer ends an override
that has no recurrence, which `MatchSchedule` never looks at; and the groups of `ScaleTarget` are inserted at a place, as in
the code, and come from GitHub as a list.

**Assumptions** are those named in the modules (`ScalerAssumption`, `ScaleSetAssumption` and so on); they say that bounds
are natural numbers and how they relate, set no upper limit, and are evaluated by the runs.

**Only model-checked**, and why:

- all liveness (`WF`, `SF` and `ENABLED` are outside the provers), and with it that the model can take the steps it is supposed to take;
- the two violations, which are counterexamples.

## 5. Not modelled

The proxy secret of a runner set, pod templates, volumes and labels (layout);
metrics, logging, configuration and HTTP clients (input and output); admission webhooks and
generated code. `PROJECT.json` "components" has the list with reasons. The bucket of finished
runners in the EphemeralRunnerSet controller is left out because no code sets the phase
Succeeded. `pkg/actionsglob` is used by no other package; the delivery forwarder is a tool beside the system (a failed
POST has already moved its position on, so that the delivery is not repeated, `forwarder.go:128`). In the legacy
controllers: updates of a RunnerDeployment's selector, events other than workflow_job, thresholds that are not the defaults.

## 6. Plan

1. Stale caches in `AutoscalingRunnerSet`, and its composition with an abstract scale set that `ScaleSet` is shown to implement.
2. Lagging lists of pods beside those of owners in `RunnerDeployment`.
