----------------------------- MODULE Autoscaler -----------------------------
(***************************************************************************)
(* The legacy HorizontalRunnerAutoscaler (HRA). The webhook server turns        *)
(* workflow_job events of GitHub into triggers, collects them in batches and     *)
(* books them as capacity reservations in the spec of an HRA; the HRA controller *)
(* turns reservations and metrics into the replicas of the scale target, a       *)
(* RunnerDeployment or a RunnerSet. Both read HRAs through a cache and patch      *)
(* without a check on the version.                                             *)
(*                                                                         *)
(* Time is what is left of it: a reservation is the number of ticks until it     *)
(* expires, 0 once it has.                                                     *)
(***************************************************************************)
EXTENDS Integers, Sequences, FiniteSets, FiniteSetsExt, SequencesExt

CONSTANTS
    HRAs,
    Jobs,
    Duration,    \* ticks that a reservation lasts: ScaleUpTrigger.Duration
    Delay,       \* ticks without scale-down after a scale-up
    MaxReplicas, \* bound: values of the replicas
    Settings     \* the kinds of installations, with bounds: see SettingType

None == -1
Counts == {None} \cup 0..MaxReplicas

(* jobs: those that come; home: the HRA whose runners suit a job; hooks: the HRAs have a workflowJob      *)
(* trigger; limit: QueueLimit. The bounds: on deliveries lost or repeated,         *)
(* failed calls, restarts of the server, changes of the override; gone: the HRAs   *)
(* that may be deleted; unanswered: a call may fail after it took effect.          *)
SettingType ==
    [jobs : SUBSET Jobs, home : [Jobs -> HRAs \cup {None}], hooks : BOOLEAN, metric : {"none", "runs", "busy", "both"},
     min : Counts, max : Counts, ephemeral : BOOLEAN, limit : Nat, ticks : BOOLEAN, lag : BOOLEAN,
     lost : Nat, repeated : Nat, errors : Nat, unanswered : BOOLEAN, restarts : Nat,
     gone : SUBSET HRAs, overrides : Nat]

ASSUME AutoscalerAssumption ==
    /\ Settings \subseteq SettingType
    /\ {Duration, Delay, MaxReplicas} \subseteq Nat \ {0}
    /\ IsFiniteSet(Jobs) /\ IsFiniteSet(HRAs)

VARIABLES
    set,      \* the installation
    job,      \* the jobs at GitHub
    events,   \* the deliveries on their way, per job
    queue,    \* the worker's bounded queue of scale targets
    held,     \* the target that the worker passes on to the batch scaler
    batch,    \* the triggers of the batch, per HRA
    todo,     \* the HRAs of the batch that are still to be tried; all of them were: {}
    applying, \* the batch is complete and is being applied
    hra,      \* the HRAs at the API server
    cache,    \* the HRAs as the server and the controller see them
    target,   \* replicas and effective time of the scale target of an HRA
    override, \* minReplicas of the active scheduled override
    missed,   \* history: jobs whose end did not become a trigger
    grown,    \* history: ticks left of the delay since the target last grew
    unkept,   \* history: a status was not written, and no growth since then
    uses      \* bounds

server == <<queue, held, batch, todo, applying>>
vars == <<set, job, events, queue, held, batch, todo, applying, hra, cache, target, override, missed, grown, unkept, uses>>

Readers == {"webhook", "controller"}
NewHRA == [live |-> TRUE, res |-> <<>>, desired |-> None, hold |-> 0]

Init ==
    /\ set \in Settings
    /\ job = [j \in Jobs |-> "new"]
    /\ events = [j \in Jobs |-> {}]
    /\ queue = <<>> /\ held = <<>> /\ batch = [h \in HRAs |-> <<>>] /\ todo = {} /\ applying = FALSE
    /\ hra = [h \in HRAs |-> [NewHRA EXCEPT !.live = \E j \in set.jobs : set.home[j] = h]]
    /\ cache = [r \in Readers |-> hra]
    /\ target = [h \in HRAs |-> [replicas |-> None, effective |-> None]]
    /\ override = None
    /\ missed = {}
    /\ grown = [h \in HRAs |-> 0] /\ unkept = [h \in HRAs |-> FALSE]
    /\ uses = [lost |-> 0, repeated |-> 0, errors |-> 0, restarts |-> 0, overrides |-> 0]

Use(b) == uses[b] < set[b] /\ uses' = [uses EXCEPT ![b] = @ + 1]

(* A write to an HRA. The caches follow at once, or with a lag in a step of        *)
(* their own.                                                                     *)
Write(h, v) ==
    /\ hra' = [hra EXCEPT ![h] = v]
    /\ cache' = IF set.lag THEN cache ELSE [r \in Readers |-> hra']
-----------------------------------------------------------------------------
(***************************************************************************)
(* GitHub: jobs and the deliveries of their events                           *)
(***************************************************************************)

github == <<job, events>>

GoTo(j, st, evs) ==
    /\ job' = [job EXCEPT ![j] = st]
    /\ events' = [events EXCEPT ![j] = @ \cup evs]
    /\ UNCHANGED <<set, server, hra, cache, target, override, missed, grown, unkept, uses>>

JobQueued(j) == job[j] = "new" /\ j \in set.jobs /\ GoTo(j, "queued", {"queued"})

(* A job with a false condition, or a check run: it only has an event of its end. *)
JobSkipped(j) == job[j] = "new" /\ j \in set.jobs /\ GoTo(j, "skipped", {"completed"})

Replicas(h) == IF target[h].replicas = None THEN 1 ELSE target[h].replicas
Running(h) == {j \in Jobs : set.home[j] = h /\ job[j] = "running"}
Leaving(h) == {j \in Jobs : set.home[j] = h /\ job[j] = "leaving"}
Waiting(h) == {j \in Jobs : set.home[j] = h /\ job[j] = "queued"}

JobStarts(j) ==
    /\ job[j] = "queued" /\ set.home[j] \in HRAs
    /\ Cardinality(Running(set.home[j])) < Replicas(set.home[j])
    /\ GoTo(j, "running", {})

(* A job may leave a pod behind whose unregistration was refused while it ran;     *)
(* only the metric of busy runners sees that.                                      *)
JobEnds(j) ==
    /\ job[j] = "running"
    /\ \E st \in {"ended"} \cup (IF set.metric \in {"busy", "both"} THEN {"leaving"} ELSE {}) : GoTo(j, st, {"completed"})
RunnerLeaves(j) == job[j] = "leaving" /\ GoTo(j, "ended", {})
JobCancelled(j) == job[j] = "queued" /\ GoTo(j, "ended", {"completed"})

(* The events of a job come in their order. *)
Deliverable(j, e) == e \in events[j] /\ (e = "completed" => "queued" \notin events[j])

Lose(j, e) ==
    /\ Deliverable(j, e) /\ Use("lost")
    /\ events' = [events EXCEPT ![j] = @ \ {e}]
    /\ missed' = IF e = "completed" THEN missed \cup {j} ELSE missed
    /\ UNCHANGED <<set, job, server, hra, cache, target, override, grown, unkept>>

(* A delivery that GitHub, or a user, sends again *)
Repeat(j) ==
    /\ job[j] \in {"queued", "running"} /\ events[j] = {} /\ Use("repeated")
    /\ events' = [events EXCEPT ![j] = {"queued"}]
    /\ UNCHANGED <<set, job, server, hra, cache, target, override, missed, grown, unkept>>
-----------------------------------------------------------------------------
(***************************************************************************)
(* The webhook server: Handle, the worker and the batch scaler. Which HRA an   *)
(* event belongs to is told in ScaleTarget.                                  *)
(***************************************************************************)

(* The amount of a trigger; 0: the event is answered and ignored. *)
Amount(j, e) == IF job[j] = "skipped" THEN 0 ELSE IF e = "queued" THEN 1 ELSE -1

(* The HRA that the server finds in its cache *)
Found(j) == {h \in HRAs : h = set.home[j] /\ set.hooks /\ cache["webhook"][h].live}

Handle(j, e) ==
    /\ Deliverable(j, e)
    /\ events' = [events EXCEPT ![j] = @ \ {e}]
    /\ IF Found(j) # {} /\ Amount(j, e) # 0 /\ Len(queue) < set.limit
       THEN /\ \E h \in Found(j) : queue' = Append(queue, <<h, Amount(j, e)>>)
            /\ UNCHANGED missed
       ELSE /\ missed' = IF e = "completed" THEN missed \cup {j} ELSE missed
            /\ UNCHANGED queue
    /\ UNCHANGED <<set, job, held, batch, todo, applying, hra, cache, target, override, grown, unkept, uses>>

WorkerTakes ==
    /\ held = <<>> /\ queue # <<>>
    /\ held' = Head(queue) /\ queue' = Tail(queue)
    /\ UNCHANGED <<set, github, batch, todo, applying, hra, cache, target, override, missed, grown, unkept, uses>>

BatchTakes ==
    /\ ~applying /\ held # <<>>
    /\ batch' = [batch EXCEPT ![held[1]] = Append(@, held[2])]
    /\ held' = <<>>
    /\ UNCHANGED <<set, github, queue, todo, applying, hra, cache, target, override, missed, grown, unkept, uses>>

InBatch == {h \in HRAs : batch[h] # <<>>}

(* The interval is over; or what failed is tried again after a while. *)
StartBatch ==
    /\ IF applying THEN todo = {} ELSE InBatch # {}
    /\ applying' = TRUE /\ todo' = InBatch
    /\ UNCHANGED <<set, github, queue, held, batch, hra, cache, target, override, missed, grown, unkept, uses>>

(* planBatchScale. Reservations beyond maxReplicas start anew, those that have     *)
(* expired go, and each trigger appends one or takes the oldest.                   *)
Starved(res, i) == set.max # None /\ Len(res) > set.max /\ i > set.max
Renewed(res) == [i \in DOMAIN res |-> IF Starved(res, i) THEN Duration ELSE res[i]]
Valid(res) == FoldLeft(LAMBDA valid, left : IF left > 0 THEN Append(valid, left) ELSE valid, <<>>, res)
LessUnlessLast(res) == IF Len(res) > 1 THEN Tail(res) ELSE res
OneLess(res) == IF res = <<>> THEN <<>> ELSE Tail(res)
Apply(res, a) == IF a > 0 THEN Append(res, Duration) ELSE OneLess(res)
PlanFromLast(res, amounts) == Apply(Valid(Renewed(res)), Last(amounts))
Plan(res, amounts) == FoldLeft(Apply, Valid(Renewed(res)), amounts)

(* batchScale reads the HRA from the cache and replaces the list. *)
Patched(h) ==
    LET old == cache["webhook"][h].res
        new == Plan(old, batch[h])
    IN  [hra[h] EXCEPT !.res = IF new = old THEN @ ELSE new]

Done(h) ==
    /\ batch' = [batch EXCEPT ![h] = <<>>]
    /\ todo' = todo \ {h}
    /\ applying' = (InBatch # {h})

Scale(h) ==
    /\ h \in todo /\ hra[h].live /\ cache["webhook"][h].live
    /\ Write(h, Patched(h))
    /\ Done(h)
    /\ UNCHANGED <<set, github, queue, held, target, override, missed, grown, unkept, uses>>

(* There is no such HRA, or the call fails. *)
ScaleFails(h) ==
    /\ h \in todo
    /\ IF hra[h].live /\ cache["webhook"][h].live THEN Use("errors") ELSE UNCHANGED uses
    /\ todo' = todo \ {h}
    /\ UNCHANGED <<set, github, queue, held, batch, applying, hra, cache, target, override, missed, grown, unkept>>

ScaleUnanswered(h) ==
    /\ h \in todo /\ hra[h].live /\ cache["webhook"][h].live
    /\ set.unanswered /\ Use("errors")
    /\ Write(h, Patched(h))
    /\ todo' = todo \ {h}
    /\ UNCHANGED <<set, github, queue, held, batch, applying, target, override, missed, grown, unkept>>

ServerRestarts ==
    /\ Use("restarts")
    /\ queue' = <<>> /\ held' = <<>> /\ batch' = [h \in HRAs |-> <<>>] /\ todo' = {} /\ applying' = FALSE
    /\ UNCHANGED <<set, github, hra, cache, target, override, missed, grown, unkept>>
-----------------------------------------------------------------------------
(***************************************************************************)
(* The HRA controller                                                        *)
(***************************************************************************)

(* getMinReplicas *)
MinReplicas == IF override # None THEN override ELSE IF set.min = None THEN 1 ELSE set.min

(* suggestReplicasByPercentageRunnersBusy, with the default thresholds 0.8 and      *)
(* 0.3 and factors 1.3 and 0.7. A pod that still carries a failed unregistration    *)
(* counts as busy, though its runner no longer is.                                 *)
ByPercentageBusy(h) ==
    LET busy == Cardinality(Running(h)) + Cardinality(Leaving(h))
        before == Replicas(h)
    IN  IF before = 0 THEN 0
        ELSE IF 10 * busy >= 8 * before THEN (13 * before + 9) \div 10
        ELSE IF 10 * busy < 3 * before THEN (7 * before) \div 10
        ELSE before

(* suggestReplicasByQueuedAndInProgressWorkflowRuns: jobs are the queued and running *)
(* ones that listWorkflowJobs has counted.                                          *)
ByWorkflowRuns(jobs) == Cardinality(jobs)

PositiveOrNone(n) == IF n > 0 THEN n ELSE None

(* suggestDesiredReplicas; None: there is no suggestion. *)
Suggested(h, jobs) ==
    CASE set.metric = "none" -> None
      [] set.metric = "runs" -> PositiveOrNone(ByWorkflowRuns(jobs))
      [] set.metric = "busy" -> PositiveOrNone(ByPercentageBusy(h))
      [] set.metric = "both" -> IF ByPercentageBusy(h) > 0 THEN ByPercentageBusy(h) ELSE ByWorkflowRuns(jobs)

ReservedForGood(c) == Len(c.res)
Reserved(c) == Len(Valid(c.res))

(* computeReplicasWithCache *)
WithinLimits(n) == IF n < MinReplicas THEN MinReplicas ELSE IF n > set.max THEN set.max ELSE n
Wanted(c, suggested) ==
    WithinLimits(Reserved(c) + IF suggested = None THEN MinReplicas ELSE suggested)
Desired(c, suggested) ==
    IF c.desired # None /\ c.desired >= Wanted(c, suggested) /\ c.hold > 0 THEN c.desired ELSE Wanted(c, suggested)

(* The newest of the effective times *)
Effective(c, old) == IF set.ephemeral /\ c.res # <<>> THEN Max(ToSet(c.res)) ELSE old

(* updatedDesiredReplicas: the patch of the RunnerDeployment or RunnerSet *)
UpdateTarget(h, n) ==
    /\ target' = [target EXCEPT ![h] = [replicas |-> IF Replicas(h) = n THEN @.replicas ELSE n,
                                        effective |-> Effective(cache["controller"][h], @.effective)]]
    /\ grown' = [grown EXCEPT ![h] = IF n > Replicas(h) THEN Delay ELSE @]

(* The patch of what changed in the status *)
GrowsFromNone(c, n) == c.desired = None /\ n > 1
Grows(c, n) == IF c.desired = None THEN n > 1 ELSE n > c.desired
WithStatus(h, c, n) ==
    [hra[h] EXCEPT !.desired = IF c.desired = n THEN @ ELSE n,
                   !.hold = IF c.desired # n /\ Grows(c, n) THEN Delay ELSE @]

Reconcilable(h) == cache["controller"][h].live /\ hra[h].live /\ set.min # None /\ set.max # None

ReconcileTo(h, n) ==
    LET c == cache["controller"][h]
    IN  /\ UpdateTarget(h, n)
        /\ Write(h, WithStatus(h, c, n))
        /\ unkept' = [unkept EXCEPT ![h] = @ /\ ~Grows(c, n)]
        /\ UNCHANGED <<set, github, server, missed, override>>

(* What listWorkflowJobs counts if every run can be read: the jobs, in progress and  *)
(* queued, whose labels the runners have                                           *)
Open(h) == Running(h) \cup Waiting(h)

Reconcile(h) ==
    /\ Reconcilable(h)
    /\ ReconcileTo(h, Desired(cache["controller"][h], Suggested(h, Open(h))))
    /\ UNCHANGED uses

(* The jobs of some runs could not be listed. *)
ReconcileMisses(h) ==
    /\ Reconcilable(h) /\ set.metric \in {"runs", "both"} /\ Use("errors")
    /\ \E jobs \in SUBSET Open(h) : ReconcileTo(h, Desired(cache["controller"][h], Suggested(h, jobs)))

(* The patch of the target succeeds, that of the status fails. *)
ReconcileFails(h) ==
    /\ Reconcilable(h) /\ Use("errors")
    /\ LET n == Desired(cache["controller"][h], Suggested(h, Open(h)))
       IN  /\ UpdateTarget(h, n)
           /\ unkept' = [unkept EXCEPT ![h] = @ \/ n # Replicas(h)]
    /\ UNCHANGED <<set, github, server, hra, cache, missed, override>>
-----------------------------------------------------------------------------
(***************************************************************************)
(* Users, the caches and the clock                                           *)
(***************************************************************************)

DeleteHRA(h) ==
    /\ h \in set.gone /\ hra[h].live
    /\ Write(h, [hra[h] EXCEPT !.live = FALSE])
    /\ UNCHANGED <<set, github, server, target, override, missed, grown, unkept, uses>>

CacheSyncs(r, h) ==
    /\ cache[r][h] # hra[h]
    /\ cache' = [cache EXCEPT ![r][h] = hra[h]]
    /\ UNCHANGED <<set, github, server, hra, target, override, missed, grown, unkept, uses>>

(* A scheduled override of minReplicas begins or ends: see Schedule. *)
ChangeOverride(n) ==
    /\ n # override /\ Use("overrides")
    /\ override' = n
    /\ UNCHANGED <<set, github, server, hra, cache, target, missed, grown, unkept>>

Less(n) == IF n > 0 THEN n - 1 ELSE n
Older(v) == [v EXCEPT !.res = [i \in DOMAIN @ |-> Less(@[i])], !.hold = Less(@)]

Tick ==
    /\ set.ticks
    /\ hra' = [h \in HRAs |-> Older(hra[h])]
    /\ cache' = [r \in Readers |-> [h \in HRAs |-> Older(cache[r][h])]]
    /\ target' = [h \in HRAs |-> [target[h] EXCEPT !.effective = Less(@)]]
    /\ grown' = [h \in HRAs |-> Less(grown[h])]
    /\ UNCHANGED <<set, github, server, override, missed, unkept, uses>>

GitHub == \E j \in Jobs : JobQueued(j) \/ JobSkipped(j) \/ JobStarts(j) \/ JobEnds(j) \/ RunnerLeaves(j)
                           \/ JobCancelled(j) \/ Repeat(j)
Delivery == \E j \in Jobs, e \in {"queued", "completed"} : Handle(j, e) \/ Lose(j, e)
Server == WorkerTakes \/ BatchTakes \/ StartBatch \/ ServerRestarts
BatchScaler == \E h \in HRAs : Scale(h) \/ ScaleFails(h) \/ ScaleUnanswered(h)
Controller == \E h \in HRAs : Reconcile(h) \/ ReconcileMisses(h) \/ ReconcileFails(h)
Surroundings ==
    \/ \E h \in HRAs : DeleteHRA(h)
    \/ \E r \in Readers, h \in HRAs : CacheSyncs(r, h)
    \/ \E n \in Counts : ChangeOverride(n)
    \/ Tick

Next == GitHub \/ Delivery \/ Server \/ BatchScaler \/ Controller \/ Surroundings

Spec == Init /\ [][Next]_vars

(* GitHub goes on with its jobs and its deliveries, of which there are finitely     *)
(* many, the goroutines of the server and the controller, which is run again at      *)
(* every sync period, go on, a call that is tried again and again succeeds, and time  *)
(* passes.                                                                          *)
Fairness ==
    /\ WF_vars(\E j \in Jobs : JobStarts(j) \/ JobEnds(j) \/ RunnerLeaves(j))
    /\ WF_vars(\E j \in Jobs, e \in {"queued", "completed"} : Handle(j, e))
    /\ WF_vars(WorkerTakes \/ BatchTakes) /\ WF_vars(StartBatch)
    /\ \A h \in HRAs : SF_vars(Scale(h)) /\ WF_vars(ScaleFails(h)) /\ WF_vars(Reconcile(h))
    /\ WF_vars(\E r \in Readers, h \in HRAs : CacheSyncs(r, h))
    /\ WF_vars(Tick)

FairSpec == Spec /\ Fairness
-----------------------------------------------------------------------------

(***************************************************************************)
(* Properties                                                                *)
(***************************************************************************)

HRAType == [live : BOOLEAN, res : Seq(0..Duration), desired : Counts, hold : 0..Delay]
Triggers == HRAs \X {-1, 1}

(* Every variable holds a value of its kind, and the parts of one record agree. *)
TypeOK ==
    /\ set \in Settings
    /\ job \in [Jobs -> {"new", "queued", "running", "leaving", "ended", "skipped"}]
    /\ events \in [Jobs -> SUBSET {"queued", "completed"}]
    /\ Len(queue) <= set.limit /\ ToSet(queue) \subseteq Triggers
    /\ held \in Triggers \cup {<<>>}
    /\ \A h \in HRAs : ToSet(batch[h]) \subseteq {-1, 1}
    /\ todo \subseteq InBatch /\ (applying => InBatch # {}) /\ (~applying => todo = {})
    /\ hra \in [HRAs -> HRAType] /\ cache \in [Readers -> [HRAs -> HRAType]]
    /\ target \in [HRAs -> [replicas : Counts, effective : {None} \cup 0..Duration]]
    /\ override \in Counts /\ missed \subseteq Jobs
    /\ grown \in [HRAs -> 0..Delay] /\ unkept \in [HRAs -> BOOLEAN]

Amounts(s, h) == FoldLeft(LAMBDA l, t : IF t[1] = h THEN Append(l, t[2]) ELSE l, <<>>, s)
Pending(h) == batch[h] \o Amounts((IF held = <<>> THEN <<>> ELSE <<held>>) \o queue, h)

Troubles == (IF set.restarts > 0 THEN {"restarts"} ELSE {}) \cup (IF set.unanswered THEN {"unanswered"} ELSE {})
                \cup (IF set.lag THEN {"stale"} ELSE {})
Reliable == Troubles = {}

Ledger == INSTANCE ReservationLedger WITH
              Targets <- HRAs, pending <- [h \in HRAs |-> Pending(h)],
              reserved <- [h \in HRAs |-> Len(hra[h].res)], troubles <- Troubles

(* The queue, the worker and the batch scaler implement the ledger: a trigger that  *)
(* was answered with 200 is booked exactly once and in its order, through batches,  *)
(* failures and retries.                                                          *)
ImplementsLedger == Ledger!Spec

(* Capacity is reserved for no more than the jobs that have not ended, as far as     *)
(* their ends were received: what expired, was cancelled or skipped does not let     *)
(* reservations pile up.                                                          *)
NoExcess ==
    Reliable => \A h \in HRAs :
        LET open == {j \in Jobs : /\ set.home[j] = h
                                  /\ \/ job[j] \in {"queued", "running"}
                                     \/ job[j] \in {"leaving", "ended"} /\ (j \in missed \/ "completed" \in events[j])}
        IN  Ledger!Booked(Len(hra[h].res), Pending(h)) <= Cardinality(open) + uses.repeated

(* The types, and no reservation without a job.                                    *)
Consistent == TypeOK /\ NoExcess

(* The target does not shrink within the scale-down delay after it has grown, unless *)
(* the status that tells of the growth could not be written or was not seen; and its *)
(* effective time, from which the runner controllers tell which runners a webhook    *)
(* asked for, never goes back.                                                     *)
ScaleDownWaits ==
    [][\A h \in HRAs : ~set.lag =>
          /\ Replicas(h)' < Replicas(h) => grown[h] = 0 \/ unkept[h]
          /\ target'[h].effective < target[h].effective => Tick]_vars

(* Every trigger that was accepted is booked in the end, unless the batch has one    *)
(* for an HRA that was deleted: that one is tried for ever, and the rest waits.       *)
Stuck == \E h \in HRAs : batch[h] # <<>> /\ ~hra[h].live
AcceptedIsBooked == Stuck \/ \A h \in HRAs : Pending(h) = <<>>

(* Where nothing is lost and reservations last long enough, a job that waits gets a  *)
(* runner.                                                                        *)
Dependable ==
    /\ Reliable /\ ~set.ticks /\ set.hooks /\ set.gone = {} /\ set.max > 0
    /\ set.lost = 0 /\ set.limit >= 2 * Cardinality(Jobs)
JobsRun == Dependable => \A j \in Jobs : set.home[j] \in HRAs => job[j] # "queued"

(* When the jobs have come to an end, the target goes back to the minimum, whichever *)
(* deliveries were lost. An override above maxReplicas is cut or not, depending on    *)
(* the metric.                                                                    *)
Released ==
    set.ticks /\ (\A j \in Jobs : job[j] # "running")
        => \A h \in HRAs : hra[h].live => Replicas(h) \in {MinReplicas, WithinLimits(MinReplicas)}

(* There being finitely many jobs, liveness is told of the end: what was accepted    *)
(* is booked, jobs that wait have got their runners, and what they reserved is        *)
(* released.                                                                      *)
Settles == <>[](AcceptedIsBooked /\ JobsRun /\ Released)

(* An accepted trigger is booked in the end whatever happens to the other HRAs.      *)
EveryTriggerIsBooked == \A h \in HRAs : Pending(h) # <<>> /\ hra[h].live ~> Pending(h) = <<>> \/ ~hra[h].live
=============================================================================
