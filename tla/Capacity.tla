------------------------------ MODULE Capacity ------------------------------
(***************************************************************************)
(* The capacity monitor of the listener: the provisioner keeps a pool of    *)
(* placeholder pairs (one pod in the place of a runner and one in the place *)
(* of a job's workflow pod), sized by the queue that HUD reports, and the   *)
(* reporter advertises to GitHub how many jobs would find a place.          *)
(*                                                                         *)
(* The two loops are goroutines of one process and meet in the pods only.   *)
(* Each call to the API server is a step, and fails up to MaxFaults times   *)
(* (a failure stands for one that outlasts retryWithBackoff). The scheduler *)
(* lets real runner and workflow pods take the place of placeholders.       *)
(*                                                                         *)
(* A slot ID is unique in the code (time and a counter); here it is the     *)
(* smallest number without pods.                                            *)
(***************************************************************************)
EXTENDS Integers, FiniteSets, FiniteSetsExt

CONSTANTS
    MaxSlots,        \* bound: slots that have pods at a time
    Runners,         \* names of real runners
    MaxQueue,        \* bound: jobs in the queue
    MaxFaults,       \* bound: failed calls
    MaxTrouble,      \* bound: ended or cordoned placeholders and kills of the listener
    Timeout,         \* Config.PlaceholderTimeout is above zero
    MaxRunners,      \* Config.MaxRunners, below the sentinel
    MaxBurst,        \* Config.MaxBurstCapacity, 0 for no cap
    Proactive,       \* Config.ProactiveCapacity
    FailurePairs,    \* ProactiveCapacity * HUDFailureMultiplier + HUDFailureBaseCapacity
    ClusterIndex, ClusterCount,  \* the peers that share the queue
    FreshNum, FreshDen           \* FreshMultiplier as a fraction; AgedMultiplier is 1

(* What Validate and the clamps leave of the configuration *)
ValidCaps == {MaxRunners, MaxBurst, Proactive, FailurePairs} \subseteq Nat
ValidSharding ==
    /\ ClusterCount \in Nat \ {0} /\ ClusterIndex \in 0..(ClusterCount - 1)
    /\ FreshNum \in Nat /\ FreshDen \in Nat \ {0}

ASSUME CapacityAssumption ==
    /\ MaxSlots \in Nat \ {0} /\ IsFiniteSet(Runners)
    /\ {MaxQueue, MaxFaults, MaxTrouble} \subseteq Nat /\ Timeout \in BOOLEAN
    /\ ValidCaps /\ ValidSharding

VARIABLES
    pods,        \* the two placeholders of every slot
    owner,       \* the listener that created the slot's pods, 0 for none
    real,        \* the real runner and workflow pods, by runner
    queue,       \* jobs in GitHub's queue
    synced,      \* the node cache of the schedulability check has synced
    proc,        \* where Run is
    id,          \* the name of the listener pod
    advertised,  \* the listener's maxRunners
    rpc, snap,   \* the reporter's next step, and the capacity it is about to report
    ppc,         \* the provisioner's next step
    jobs,        \* what it takes the queue for, NoHud when HUD failed
    healthy,     \* the slots in its list that are neither broken nor terminal
    idle,        \* those of them that did not have both pods running
    todo,        \* slots that its current loop has still to visit
    count,       \* pairs that it has still to create or to delete
    faults, trouble

podVars == <<pods, owner>>
provVars == <<ppc, jobs, healthy, idle, todo, count>>
repVars == <<rpc, snap>>
vars == <<pods, owner, real, queue, synced, proc, id, advertised, rpc, snap,
          ppc, jobs, healthy, idle, todo, count, faults, trouble>>

Slots == 1..MaxSlots
Halves == {"runner", "workflow"}
NoHud == -1

(* late: pending longer than PlaceholderTimeout; cordoned: running on a node    *)
(* that takes no new pods; done: Succeeded or Failed.                           *)
Phases == {"none", "pending", "late", "running", "cordoned", "done"}

(* A runner pod is pending without a node, bound to a node, or working, which   *)
(* is bound with its workflow pod bound as well.                                *)
RealPhases == {"none", "pending", "bound", "working"}

Has(s, h) == pods[s][h] # "none"
Mine == {s \in Slots : owner[s] = id /\ \E h \in Halves : Has(s, h)}
Unused == {s \in Slots : \A h \in Halves : ~Has(s, h)}

(* groupBySlot and what ListPairs' callers ask of a pair *)
Broken(s) == \E h \in Halves : ~Has(s, h)
Terminal(s) == \E h \in Halves : pods[s][h] = "done"
AnyPendingTooLong(s) == \E h \in Halves : pods[s][h] = "late"
BothRunning(s) == \A h \in Halves : pods[s][h] \in {"running", "cordoned"}
-----------------------------------------------------------------------------
Init ==
    /\ pods = [s \in Slots |-> [h \in Halves |-> "none"]]
    /\ owner = [s \in Slots |-> 0]
    /\ real = [r \in Runners |-> "none"]
    /\ queue \in 0..MaxQueue
    /\ synced = FALSE
    /\ proc = "down" /\ id = 1
    /\ advertised = 0 /\ rpc = "stopped" /\ snap = 0
    /\ ppc = "stopped" /\ jobs = 0 /\ healthy = {} /\ idle = {} /\ todo = {} /\ count = 0
    /\ faults = 0 /\ trouble = 0

Fault == faults < MaxFaults /\ faults' = faults + 1

Without(slots, ps) == [s \in Slots |-> IF s \in slots THEN [h \in Halves |-> "none"] ELSE ps[s]]
-----------------------------------------------------------------------------
(***************************************************************************)
(* The reporter                                                             *)
(***************************************************************************)

(* classifyCapacityPods: real pods that are committed to a node and            *)
(* placeholders that run, the latter only where a real pod could follow them   *)
(* if the check is on and the node cache has synced. A workflow pod counts     *)
(* with its runner, and once.                                                  *)
Counted(h) ==
    LET phases == IF synced THEN {"running"} ELSE {"running", "cordoned"}
    IN  Cardinality({s \in Mine : pods[s][h] \in phases})
RunnerSide == Cardinality({r \in Runners : real[r] \in {"bound", "working"}}) + Counted("runner")
WorkflowSide == Cardinality({r \in Runners : real[r] = "working"}) + Counted("workflow")

(* capacityCounts.capacity and the clamp of reconcileReporting *)
CapacityNow == Min({RunnerSide, WorkflowSide, MaxRunners})

ReportList ==
    /\ proc = "up" /\ rpc = "idle"
    /\ rpc' = "set"
    /\ snap' = CapacityNow
    /\ UNCHANGED <<podVars, provVars, real, queue, synced, proc, id, advertised, faults, trouble>>

(* On failure the previous capacity stands. *)
ReportSkipped ==
    /\ proc = "up" /\ rpc = "idle"
    /\ Fault
    /\ UNCHANGED <<podVars, provVars, repVars, real, queue, synced, proc, id, advertised, trouble>>

ReportSet ==
    /\ rpc = "set"
    /\ advertised' = snap
    /\ rpc' = "idle" /\ snap' = 0
    /\ UNCHANGED <<podVars, provVars, real, queue, synced, proc, id, faults, trouble>>
-----------------------------------------------------------------------------
(***************************************************************************)
(* The provisioner: one cycle is HUD, timeouts, sweep, count, adjust        *)
(***************************************************************************)

EndCycle ==
    ppc' = "idle" /\ jobs' = 0 /\ healthy' = {} /\ idle' = {} /\ todo' = {} /\ count' = 0

Round(num, den) == (2 * num + den) \div (2 * den)

(* Fresh jobs are dealt to the peers, aged ones are claimed by all of them.    *)
(* The two numbers come from two queries.                                      *)
AdjustedFresh(total, aged) == Round((IF total > aged THEN total - aged ELSE 0) * FreshNum, FreshDen)

SliceRoundedUp(fresh, index) == (fresh + ClusterCount - 1) \div ClusterCount

Slice(fresh, index) == fresh \div ClusterCount + (IF index < fresh % ClusterCount THEN 1 ELSE 0)

Claim(total, aged) ==
    IF ClusterCount > 1 THEN Slice(AdjustedFresh(total, aged), ClusterIndex) + aged
    ELSE Round(total * FreshNum, FreshDen)

(* HUD is queried, and the pairs are listed for CleanupTimedOut. A failure of   *)
(* either does not end the cycle.                                               *)
StartCycle ==
    /\ proc = "up" /\ ppc = "idle"
    /\ \/ \E aged \in 0..MaxQueue : jobs' = Claim(queue, aged) /\ UNCHANGED faults
       \/ jobs' = NoHud /\ Fault
    /\ todo' = {s \in Mine : AnyPendingTooLong(s)}
    /\ ppc' = "timeouts"
    /\ UNCHANGED <<podVars, repVars, healthy, idle, count, real, queue, synced, proc, id, advertised, trouble>>

StartCycleWithoutTimeouts ==
    /\ proc = "up" /\ ppc = "idle"
    /\ jobs' = Claim(queue, 0)
    /\ Fault
    /\ ppc' = "timeouts"
    /\ UNCHANGED <<podVars, repVars, healthy, idle, todo, count, real, queue, synced, proc, id, advertised, trouble>>

(* DeletePair is one DeleteCollection; a failure may have deleted one half. *)
DeletePair(s, ok) ==
    \/ /\ ok
       /\ pods' = Without({s}, pods) /\ UNCHANGED faults
    \/ /\ ~ok /\ Fault
       /\ \/ UNCHANGED pods
          \/ \E h \in Halves : pods' = [pods EXCEPT ![s][h] = "none"]

(* deletePairsWhere: a failed delete is left for the next cycle. *)
DeleteUnwanted(s) ==
    /\ ppc \in {"timeouts", "sweep"} /\ s \in todo
    /\ \E ok \in BOOLEAN : DeletePair(s, ok)
    /\ todo' = todo \ {s}
    /\ UNCHANGED <<owner, ppc, jobs, healthy, idle, count, repVars, real, queue, synced, proc, id, advertised, trouble>>

UnwantedOnlyBroken(s) == Broken(s)

(* CleanupBroken and CleanupTerminal *)
Unwanted(s) == Broken(s) \/ Terminal(s)

ListPairs ==
    /\ ppc = "timeouts" /\ todo = {}
    /\ \/ /\ todo' = {s \in Mine : Unwanted(s)}
          /\ healthy' = Mine \ todo'
          /\ idle' = {s \in healthy' : ~BothRunning(s)}
          /\ ppc' = "sweep"
          /\ UNCHANGED <<jobs, count, faults>>
       \/ Fault /\ EndCycle
    /\ UNCHANGED <<podVars, repVars, real, queue, synced, proc, id, advertised, trouble>>

Headroom(running) == IF running < MaxRunners THEN MaxRunners - running ELSE 0

DesiredWithoutHeadroom(n, running) == Min({IF n = NoHud THEN FailurePairs ELSE Proactive + n, MaxRunners})
DesiredWithoutCaps(n, running) == IF n = NoHud THEN FailurePairs ELSE Proactive + n
DesiredWithoutQueue(n, running) == Min({IF n = NoHud THEN FailurePairs ELSE Proactive, Headroom(running)})

Desired(n, running) ==
    Min({IF n = NoHud THEN FailurePairs ELSE Proactive + n, Headroom(running)}
        \cup (IF MaxBurst > 0 THEN {MaxBurst} ELSE {}))

(* Count the real runner pods and fix the number of pairs. Without the count    *)
(* the cycle ends here.                                                         *)
CountRunners ==
    /\ ppc = "sweep" /\ todo = {}
    /\ \/ LET have == Cardinality(healthy)
              want == Desired(jobs, Cardinality({r \in Runners : real[r] # "none"}))
          IN  /\ UNCHANGED faults
              /\ IF have = want THEN EndCycle
                 ELSE /\ ppc' = IF have < want THEN "create" ELSE "pass1"
                      /\ count' = IF have < want THEN want - have ELSE have - want
                      /\ todo' = IF have < want THEN {} ELSE idle
                      /\ UNCHANGED <<jobs, healthy, idle>>
       \/ Fault /\ EndCycle
    /\ UNCHANGED <<podVars, repVars, real, queue, synced, proc, id, advertised, trouble>>

CountDown(step) ==
    IF count = 1 THEN EndCycle
    ELSE ppc' = step /\ count' = count - 1 /\ todo' = {} /\ UNCHANGED <<jobs, healthy, idle>>

(* What a placeholder is, apart from its slot, its role and its owner, matters  *)
(* to the scheduler only.                                                       *)
RunnerPlaceholder(s) == [pods[s] EXCEPT !["runner"] = "pending"]
WorkflowPlaceholder(s) == [pods[s] EXCEPT !["workflow"] = "pending"]

(* CreatePair: the runner's placeholder, then the workflow's; when that fails   *)
(* an attempt to delete the first.                                              *)
CreateRunnerHalf ==
    /\ ppc = "create" /\ Unused # {}
    /\ \/ LET s == Min(Unused)
          IN  /\ pods' = [pods EXCEPT ![s] = RunnerPlaceholder(s)]
              /\ owner' = [owner EXCEPT ![s] = id]
              /\ ppc' = "second" /\ todo' = {s}
              /\ UNCHANGED <<jobs, healthy, idle, count, faults>>
       \/ Fault /\ CountDown("create") /\ UNCHANGED podVars
    /\ UNCHANGED <<repVars, real, queue, synced, proc, id, advertised, trouble>>

CreateWorkflowHalf ==
    /\ ppc = "second"
    /\ \/ /\ pods' = [s \in Slots |-> IF s \in todo THEN WorkflowPlaceholder(s) ELSE pods[s]]
          /\ CountDown("create") /\ UNCHANGED faults
       \/ /\ Fault
          /\ ppc' = "undo" /\ UNCHANGED <<pods, jobs, healthy, idle, todo, count>>
    /\ UNCHANGED <<owner, repVars, real, queue, synced, proc, id, advertised, trouble>>

UndoRunnerHalf ==
    /\ ppc = "undo"
    /\ \/ pods' = Without(todo, pods) /\ UNCHANGED faults
       \/ UNCHANGED pods /\ Fault
    /\ CountDown("create")
    /\ UNCHANGED <<owner, repVars, real, queue, synced, proc, id, advertised, trouble>>

(* adjustPairs with too many: first those that are not running, then the rest,  *)
(* the ones whose delete failed in the first pass included.                     *)
DeleteExcess(s) ==
    /\ ppc \in {"pass1", "pass2"} /\ s \in todo
    /\ \E ok \in BOOLEAN :
          /\ DeletePair(s, ok)
          /\ IF ok /\ count = 1 THEN EndCycle
             ELSE /\ count' = IF ok THEN count - 1 ELSE count
                  /\ healthy' = IF ok THEN healthy \ {s} ELSE healthy
                  /\ todo' = todo \ {s}
                  /\ UNCHANGED <<ppc, jobs, idle>>
    /\ UNCHANGED <<owner, repVars, real, queue, synced, proc, id, advertised, trouble>>

EndPass ==
    /\ ppc \in {"pass1", "pass2"} /\ todo = {}
    /\ IF ppc = "pass1" THEN ppc' = "pass2" /\ todo' = healthy /\ UNCHANGED <<jobs, healthy, idle, count>>
       ELSE EndCycle
    /\ UNCHANGED <<podVars, repVars, real, queue, synced, proc, id, advertised, faults, trouble>>

Provision ==
    \/ StartCycle \/ StartCycleWithoutTimeouts \/ ListPairs \/ CountRunners
    \/ CreateRunnerHalf \/ CreateWorkflowHalf \/ UndoRunnerHalf \/ EndPass
    \/ \E s \in Slots : DeleteUnwanted(s) \/ DeleteExcess(s)

Report == ReportList \/ ReportSet
-----------------------------------------------------------------------------
(***************************************************************************)
(* The process: Run                                                         *)
(***************************************************************************)

Trouble == trouble < MaxTrouble /\ trouble' = trouble + 1

(* The container starts again in its pod, or the pod was replaced. The         *)
(* listener's first poll advertises nothing (listenerInitialMaxRunners).       *)
Start ==
    /\ proc = "down"
    /\ id' \in {id, trouble + 1}
    /\ proc' = "orphans" /\ advertised' = 0 /\ synced' = FALSE
    /\ UNCHANGED <<podVars, provVars, repVars, real, queue, faults, trouble>>

Orphans == {s \in Slots : owner[s] # id /\ \E h \in Halves : Has(s, h)}

(* CleanupOrphans is tried once; Run goes on without it. *)
CleanupOrphans ==
    /\ proc = "orphans"
    /\ \/ pods' = Without(Orphans, pods) /\ UNCHANGED faults
       \/ UNCHANGED pods /\ Fault
    /\ proc' = "report"
    /\ UNCHANGED <<owner, provVars, repVars, real, queue, synced, id, advertised, trouble>>

(* The first report, and the two loops start. *)
FirstReport ==
    /\ proc = "report"
    /\ \/ advertised' = CapacityNow /\ UNCHANGED faults
       \/ UNCHANGED advertised /\ Fault
    /\ proc' = "up" /\ rpc' = "idle" /\ ppc' = "idle"
    /\ UNCHANGED <<podVars, jobs, healthy, idle, todo, count, snap, real, queue, synced, id, trouble>>

(* The context is cancelled: every further call of the provisioner's cycle      *)
(* fails, and the reporter has at most a value left to set.                     *)
Cancel ==
    /\ proc = "up"
    /\ Trouble
    /\ proc' = "stopping"
    /\ ppc' = "stopped" /\ jobs' = 0 /\ healthy' = {} /\ idle' = {} /\ todo' = {} /\ count' = 0
    /\ UNCHANGED <<podVars, repVars, real, queue, synced, id, advertised, faults>>

(* The reporter is waited for, then CleanupAll has one try. *)
CleanupAll ==
    /\ proc = "stopping" /\ rpc = "idle"
    /\ \/ pods' = Without(Mine, pods) /\ UNCHANGED faults
       \/ UNCHANGED pods /\ Fault
    /\ proc' = "down" /\ rpc' = "stopped"
    /\ UNCHANGED <<owner, provVars, snap, real, queue, synced, id, advertised, trouble>>

(* The process dies where it is. *)
Kill ==
    /\ proc = "up"
    /\ Trouble
    /\ proc' = "down" /\ rpc' = "stopped" /\ snap' = 0
    /\ ppc' = "stopped" /\ jobs' = 0 /\ healthy' = {} /\ idle' = {} /\ todo' = {} /\ count' = 0
    /\ UNCHANGED <<podVars, real, queue, synced, id, advertised, faults>>

Run == Start \/ CleanupOrphans \/ FirstReport \/ CleanupAll
-----------------------------------------------------------------------------
(***************************************************************************)
(* The cluster                                                              *)
(***************************************************************************)

PodBecomes(s, h, from, to) ==
    /\ pods[s][h] \in from
    /\ pods' = [pods EXCEPT ![s][h] = to]
    /\ UNCHANGED <<owner, provVars, repVars, real, queue, synced, proc, id, advertised, faults>>

PodStarts(s, h) == PodBecomes(s, h, {"pending", "late"}, "running") /\ UNCHANGED trouble

(* Without a timeout every pod that is pending is late. *)
PodLate(s, h) ==
    /\ PodBecomes(s, h, {"pending"}, "late")
    /\ IF Timeout THEN Trouble ELSE UNCHANGED trouble

Cordon(s, h) == PodBecomes(s, h, {"running"}, "cordoned") /\ Trouble

(* sleepArg gives a placeholder a lifetime beyond PlaceholderTimeout, so that   *)
(* the other half is late by then if it has not started; without a timeout it   *)
(* sleeps for ever. How often a listener sees its own placeholders end is       *)
(* bounded.                                                                     *)
PodEnds(s, h) ==
    /\ Timeout
    /\ \A other \in Halves : pods[s][other] # "pending"
    /\ PodBecomes(s, h, {"running", "cordoned"}, "done")
    /\ IF owner[s] = id /\ pods[s][h] = "running" THEN Trouble ELSE UNCHANGED trouble

NodeCacheSyncs ==
    /\ proc = "up" /\ ~synced
    /\ synced' = TRUE
    /\ UNCHANGED <<podVars, provVars, repVars, real, queue, proc, id, advertised, faults, trouble>>

(* A real pod finds a place of its own, or takes that of a placeholder. *)
TakePlace(h) ==
    \/ UNCHANGED pods
    \/ \E s \in Slots : pods[s][h] = "running" /\ pods' = [pods EXCEPT ![s][h] = "none"]

RunnerBecomes(r, from, to) ==
    /\ real[r] = from
    /\ real' = [real EXCEPT ![r] = to]
    /\ UNCHANGED <<owner, provVars, repVars, queue, synced, proc, id, advertised, faults, trouble>>

RunnerAppears(r) == RunnerBecomes(r, "none", "pending") /\ UNCHANGED pods
RunnerBinds(r) == RunnerBecomes(r, "pending", "bound") /\ TakePlace("runner")
JobStarts(r) == RunnerBecomes(r, "bound", "working") /\ TakePlace("workflow")
RunnerEnds(r) == (\E p \in {"bound", "working"} : RunnerBecomes(r, p, "none")) /\ UNCHANGED pods

QueueChanges ==
    /\ queue' \in (0..MaxQueue) \ {queue}
    /\ UNCHANGED <<podVars, provVars, repVars, real, synced, proc, id, advertised, faults, trouble>>

Next ==
    \/ Report \/ ReportSkipped \/ Provision
    \/ Run \/ Cancel \/ Kill
    \/ NodeCacheSyncs \/ QueueChanges
    \/ \E s \in Slots, h \in Halves : PodStarts(s, h) \/ PodLate(s, h) \/ Cordon(s, h) \/ PodEnds(s, h)
    \/ \E r \in Runners : RunnerAppears(r) \/ RunnerBinds(r) \/ JobStarts(r) \/ RunnerEnds(r)

Spec == Init /\ [][Next]_vars

(* The two loops tick, Run goes on, the API server answers, placeholders find a *)
(* node and, where the listener cannot see it, reach the end of their lifetime. *)
FairSpec ==
    /\ Spec
    /\ WF_vars(Report) /\ WF_vars(Provision) /\ WF_vars(Run)
    /\ \A s \in Slots, h \in Halves : WF_vars(PodStarts(s, h)) /\ WF_vars(PodEnds(s, h))
-----------------------------------------------------------------------------
(* Every variable holds a value of its kind, and the parts of one record agree. *)
TypeOK ==
    /\ pods \in [Slots -> [Halves -> Phases]]
    /\ owner \in [Slots -> 0..(MaxTrouble + 1)]
    /\ real \in [Runners -> RealPhases]
    /\ queue \in 0..MaxQueue /\ synced \in BOOLEAN
    /\ proc \in {"down", "orphans", "report", "up", "stopping"}
    /\ id \in 1..(MaxTrouble + 1) /\ advertised \in 0..MaxRunners
    /\ rpc \in {"stopped", "idle", "set"} /\ snap \in 0..MaxRunners
    /\ ppc \in {"stopped", "idle", "timeouts", "sweep", "create", "second", "undo", "pass1", "pass2"}
    /\ jobs \in Nat \cup {NoHud} /\ count \in 0..(MaxRunners + MaxSlots)
    /\ healthy \subseteq Slots /\ idle \subseteq Slots /\ todo \subseteq Slots
    /\ faults \in 0..MaxFaults /\ trouble \in 0..MaxTrouble

Whole == {s \in Mine : ~Broken(s) /\ ~Terminal(s)}
RealRunners == Cardinality({r \in Runners : real[r] # "none"})

(* The pairs of this listener never exceed the cap on runners or the cap on     *)
(* bursts, although a pair is two calls, a cycle works from a list that is old  *)
(* by the time it creates, and pairs whose delete failed are not counted        *)
(* (reconcileProvisioning).                                                     *)
CapRespected == Cardinality(Whole) <= Min({MaxRunners} \cup (IF MaxBurst > 0 THEN {MaxBurst} ELSE {}))

(* The types, and the caps.                                                     *)
Consistent == TypeOK /\ CapRespected

(* The peers' slices of the fresh queue add up to the fresh queue: no job is    *)
(* left without a cluster that makes room for it, and none has two, however     *)
(* many more come.                                                              *)
SlicesCoverQueue ==
    \A aged \in 0..MaxQueue, n \in queue..(queue + 2 * ClusterCount) :
        LET fresh == AdjustedFresh(n, aged)
        IN  MapThenSumSet(LAMBDA i : Slice(fresh, i), 0..(ClusterCount - 1)) = fresh

(* Real runners and placeholders do not add up to more than the cap for good:   *)
(* when the number of runners stays, the pool shrinks to the headroom.          *)
NoDoubleBooking ==
    \A n \in 0..Cardinality(Runners) :
        <>[](proc = "up" /\ RealRunners = n) => <>[](Cardinality(Whole) <= Headroom(n))

(* Jobs that wait are offered a place: with a queue, room under the cap and a   *)
(* listener that stays up, the advertised capacity comes back above zero.       *)
JobsAreOffered ==
    <>[](proc = "up" /\ queue > 0 /\ RealRunners = 0) => []<>(advertised > 0)

(* A slot that lost a half, or has a half that ended, is not kept for good.     *)
NoDeadSlots ==
    <>[](proc = "up") => []<>(Whole = Mine)

(* The placeholders of a listener that is gone do not hold nodes for good, even *)
(* when its clean-up and that of its successor failed (sleepArg), unless they   *)
(* were given no timeout.                                                       *)
OrphansEnd ==
    Timeout => []<>(\A s \in Orphans, h \in Halves : pods[s][h] \notin {"running", "cordoned"})

(* No node is held for nothing, by a slot that is of no use to this listener or *)
(* by what another one left.                                                    *)
NoWaste == NoDeadSlots /\ OrphansEnd
=============================================================================
