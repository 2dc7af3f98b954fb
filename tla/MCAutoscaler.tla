---------------------------- MODULE MCAutoscaler ----------------------------
(* The instances: jobs of one HRA whose events all arrive; losses, repetitions    *)
(* and a full queue, with a clock or without; two HRAs, one of which is deleted;    *)
(* caches that lag; a server that restarts; metrics.                               *)
(* Apart from these, the two searches that the autoscaler relies on: catalogs of    *)
(* up to three HRAs for some events, and pairs of overrides over some periods.      *)
EXTENDS Autoscaler, ScaleTarget, Schedule

CONSTANTS a, b, j1, j2, j3

Of(h) == [j \in Jobs |-> h]
Each == [j \in Jobs |-> CASE j = j1 -> a [] j = j2 -> b [] OTHER -> None]

Base == [jobs |-> Jobs, home |-> Of(a), hooks |-> TRUE, metric |-> "none", min |-> 0, max |-> 2, ephemeral |-> TRUE,
         limit |-> 6, ticks |-> FALSE, lag |-> FALSE, lost |-> 0, repeated |-> 0, errors |-> 0,
         unanswered |-> FALSE, restarts |-> 0, gone |-> {}, overrides |-> 0]
Pair == [Base EXCEPT !.jobs = {j1, j2}]
Timed == [Pair EXCEPT !.ticks = TRUE, !.limit = 1]

WithDeletion == [Pair EXCEPT !.home = Each, !.gone = {b}, !.limit = 1]
MCSettingsWithDeletion == {WithDeletion}
MCSettings ==
    {Base,
     [Timed EXCEPT !.max = 1, !.lost = 1],
     [Timed EXCEPT !.jobs = {j1}, !.lost = 1, !.repeated = 1, !.errors = 1],
     [Pair EXCEPT !.max = 1, !.limit = 1, !.repeated = 1],
     [Pair EXCEPT !.limit = 1, !.errors = 1],
     WithDeletion,
     [Pair EXCEPT !.lag = TRUE],
     [Base EXCEPT !.jobs = {j1, j3}, !.home = Each, !.errors = 1, !.unanswered = TRUE, !.restarts = 1]}
    \cup {[Timed EXCEPT !.hooks = FALSE, !.metric = m, !.overrides = 1] : m \in {"runs", "busy", "both"}}
    \cup {[Timed EXCEPT !.hooks = FALSE, !.metric = "runs", !.errors = 1]}
-----------------------------------------------------------------------------
Shape(level, group) ==
    [kind |-> "RunnerDeployment", exists |-> TRUE, live |-> TRUE, trigger |-> TRUE, level |-> level, owner |-> "own",
     group |-> group, labels |-> {"l"}]
MCShapes ==
    {Shape("repo", "default"), Shape("org", "default"), Shape("org", "g"), Shape("ent", "default"), Shape("ent", "g"),
     [Shape("repo", "default") EXCEPT !.labels = {"l", "m"}], [Shape("org", "default") EXCEPT !.labels = {"l", "m"}],
     [Shape("ent", "g") EXCEPT !.labels = {"l", "m"}], [Shape("org", "g") EXCEPT !.owner = "other"],
     [Shape("repo", "default") EXCEPT !.live = FALSE], [Shape("org", "default") EXCEPT !.trigger = FALSE],
     [Shape("org", "default") EXCEPT !.kind = "RunnerSet", !.labels = {"l", "m"}],
     [Shape("org", "g") EXCEPT !.kind = "RunnerSet"], [Shape("ent", "default") EXCEPT !.exists = FALSE]}

Event(user, inEnterprise, labels) ==
    [user |-> user, inEnterprise |-> inEnterprise, labels |-> labels, client |-> "none", groups |-> <<>>,
     failing |-> {}]
MCEvents ==
    {Event(TRUE, FALSE, {"l"}), Event(FALSE, FALSE, {"l", "m"}), Event(FALSE, TRUE, {"l"}), Event(FALSE, TRUE, {"l", "m"})}
    \cup {[Event(FALSE, TRUE, {"l"}) EXCEPT !.client = "answers", !.groups = gs] : gs \in
             {<<>>, <<[scope |-> "org", name |-> "g"]>>, <<[scope |-> "org", name |-> "g"], [scope |-> "ent", name |-> "default"]>>}}
    \cup {[Event(FALSE, FALSE, {"l"}) EXCEPT !.client = "fails"]}
    \cup {[Event(FALSE, TRUE, {"l"}) EXCEPT !.failing = {k}] : k \in {RepoKey, Key("org", "own", "default")}}

Override(start, end, every, until) == [start |-> start, end |-> end, every |-> every, until |-> until,
                                      min |-> IF start = 1 THEN 0 ELSE NoMin]
MCRules == {Override(s, e, p, u) : s \in {1, 3}, e \in {2, 4, 5}, p \in {0, 2, 3}, u \in {0, 6}}
ValidRules == {o \in MCRules : o.start < o.end}
MCOverrides == {<<o, p>> : o \in ValidRules, p \in ValidRules}

Quiet == Event(TRUE, FALSE, {})
Searching == event # Quiet \/ overrides # <<>>

MCInit ==
    /\ Init
    /\ \/ catalog = <<>> /\ event = Quiet /\ overrides = <<>> /\ now = 0
       \/ set = Base /\ TargetInit /\ overrides = <<>> /\ now = 0
       \/ set = Base /\ ScheduleInit /\ catalog = <<>> /\ event = Quiet
MCNext ==
    \/ ~Searching /\ Next /\ UNCHANGED <<catalog, event, overrides, now>>
    \/ event # Quiet /\ TargetNext /\ UNCHANGED <<vars, overrides, now>>
    \/ overrides # <<>> /\ TimePasses /\ UNCHANGED <<vars, catalog, event>>
MCSpec == MCInit /\ [][MCNext]_<<vars, catalog, event, overrides, now>> /\ Fairness
=============================================================================
