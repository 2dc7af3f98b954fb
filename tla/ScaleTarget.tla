----------------------------- MODULE ScaleTarget ----------------------------
(***************************************************************************)
(* How the webhook server finds the HRA for a workflow_job event: first among   *)
(* those of the repository, then through the runner groups that are visible to  *)
(* the repository, in order of their precedence. The catalog is the list of     *)
(* HRAs with their scale targets as the cache returns it, in any order.         *)
(***************************************************************************)
EXTENDS Naturals, Sequences, FiniteSets, SequencesExt

CONSTANTS
    Shapes,   \* HRAs with the part of their scale target that matters here
    JobEvents,
    MaxHRAs   \* bound on the catalog

VARIABLES
    catalog,
    event     \* with the runner groups that GitHub shows to the repository, in any order

(* A runner belongs to a repository, an organization or an enterprise. group: the     *)
(* default one is that of the empty name, and of a runner without a group. exists: the  *)
(* scale target does; trigger: exactly one scale-up trigger, for workflow jobs.       *)
ShapeType == [kind : {"RunnerDeployment", "RunnerSet"}, exists : BOOLEAN, live : BOOLEAN, trigger : BOOLEAN,
              level : {"repo", "org", "ent"}, owner : {"own", "other"}, group : {"default", "g"}, labels : SUBSET {"l", "m"}]

Scopes == {"org", "ent"}
GroupType == [scope : Scopes, name : {"default", "g"}]

(* user: the owner of the repository is not an organization; inEnterprise: the event  *)
(* names an enterprise; client: whether the server may ask GitHub for the groups, and  *)
(* what comes of it; failing: the keys whose HRAs, or their targets, cannot be read.   *)
KeyType == [level : {"repo", "org", "ent", "none"}, owner : {"own", "other"}, group : {"default", "g"}]
EventType == [user : BOOLEAN, inEnterprise : BOOLEAN, labels : SUBSET {"l", "m"},
              client : {"none", "answers", "fails"}, groups : Seq(GroupType), failing : SUBSET KeyType]

ASSUME ScaleTargetAssumption == Shapes \subseteq ShapeType /\ JobEvents \subseteq EventType /\ MaxHRAs \in Nat

NoKey == [level |-> "none", owner |-> "own", group |-> "default"]
Key(level, owner, group) == [level |-> level, owner |-> owner, group |-> group]

(* getHRAKeys. A RunnerSet with a group has the key of the whole level too. *)
Keys(h) ==
    IF ~h.exists THEN {}
    ELSE IF h.level = "repo" THEN {Key("repo", h.owner, "default")}
    ELSE {Key(h.level, h.owner, h.group)} \cup IF h.kind = "RunnerSet" THEN {Key(h.level, h.owner, "default")} ELSE {}

(* findHRAsByKey, as places in the catalog *)
HRAsByKey(key) == {i \in DOMAIN catalog : key \in Keys(catalog[i])}

(* getJobScaleTarget: the first that takes the job, if any *)
Takes(h) == h.live /\ h.trigger /\ event.labels \subseteq h.labels
JobScaleTarget(key) ==
    LET takers == {i \in HRAsByKey(key) : Takes(catalog[i])}
    IN  IF takers = {} THEN <<>> ELSE <<catalog[Min(takers)]>>

(* The default group precedes a custom one, the organization the enterprise. *)
Kind(g) == IF g.name = "default" THEN 0 ELSE 1
ScopeRank(g) == IF g.scope = "org" THEN 0 ELSE 1
PrecedesByScope(g, g2) == ScopeRank(g) < ScopeRank(g2) \/ (ScopeRank(g) = ScopeRank(g2) /\ Kind(g) < Kind(g2))
Precedes(g, g2) == Kind(g) < Kind(g2) \/ (Kind(g) = Kind(g2) /\ ScopeRank(g) < ScopeRank(g2))

(* VisibleRunnerGroups.Add: in front of the first that it precedes *)
Place(groups, g) == Min({i \in 1..Len(groups) + 1 : i <= Len(groups) => Precedes(g, groups[i])})
AddGroup(groups, g) == InsertAt(groups, Place(groups, g), g)

(* getManagedRunnerGroupsFromHRAs: what is irrelevant to the event is left out. *)
GroupOf(h) == [scope |-> IF h.level = "ent" THEN "ent" ELSE "org", name |-> h.group]
Relevant(h) ==
    \/ ~event.inEnterprise /\ h.level # "ent"
    \/ h.level \in Scopes /\ h.owner = "own" /\ (h.level = "ent" => event.inEnterprise)
Manage(groups, h) ==
    IF Relevant(h) /\ ~(h.level = "repo" /\ h.group # "default") THEN AddGroup(groups, GroupOf(h)) ELSE groups
Managed == FoldLeft(Manage, <<>>, catalog)
ManagedFails == \E i \in DOMAIN catalog : ~catalog[i].exists

(* GetRunnerGroupsVisibleToRepository, or all groups where GitHub cannot be asked *)
Show(groups, g) == IF g \in ToSet(Managed) THEN AddGroup(groups, g) ELSE groups
VisibleGroups == IF event.client = "answers" THEN FoldLeft(Show, <<>>, event.groups) ELSE Managed

ScaleTargetKey(g) == IF g.scope = "ent" /\ ~event.inEnterprise THEN NoKey ELSE Key(g.scope, "own", g.name)

RepoKey == Key("repo", "own", "default")

(* The errors that end the search and are returned to the handler *)
Fails ==
    \/ RepoKey \in event.failing
    \/ JobScaleTarget(RepoKey) = <<>> /\ ~event.user /\ (ManagedFails \/ event.client = "fails")

(* A group that cannot be read ends the traversal; its error is dropped, and the       *)
(* event is answered as one for which there is no HRA.                                 *)
TraverseFails ==
    \E k \in DOMAIN VisibleGroups :
        /\ ScaleTargetKey(VisibleGroups[k]) \in event.failing
        /\ \A j \in 1..k - 1 : JobScaleTarget(ScaleTargetKey(VisibleGroups[j])) = <<>>

(* getScaleUpTargetWithFunction, with the first group that has a target *)
Traverse(t, g) == IF t # <<>> THEN t ELSE JobScaleTarget(ScaleTargetKey(g))
ScaleUpTarget ==
    IF Fails THEN <<>>
    ELSE IF JobScaleTarget(RepoKey) # <<>> THEN JobScaleTarget(RepoKey)
    ELSE IF event.user \/ TraverseFails THEN <<>>
    ELSE FoldLeft(Traverse, <<>>, VisibleGroups)

TargetInit == catalog = <<>> /\ event \in JobEvents

(* A user creates an HRA; the cache lists them in any order. *)
CreateHRA(h) ==
    /\ Len(catalog) < MaxHRAs
    /\ \E i \in 1..Len(catalog) + 1 : catalog' = InsertAt(catalog, i, h)
    /\ UNCHANGED event

TargetNext == \E h \in Shapes : CreateHRA(h)
-----------------------------------------------------------------------------
(* The HRAs whose runners GitHub could give the job to, by precedence *)
Serves(h, p) ==
    /\ h.exists /\ Takes(h) /\ h.owner = "own"
    /\ IF p = 1 THEN h.level = "repo"
       ELSE /\ ~event.user
            /\ h.level = (IF p \in {2, 4} THEN "org" ELSE "ent")
            /\ h.group = (IF p \in {2, 3} THEN "default" ELSE "g")
            /\ h.level = "ent" => event.inEnterprise
            /\ event.client = "answers" => [scope |-> h.level, name |-> h.group] \in ToSet(event.groups)

(* The searches that FindsBest is not about: one that an error ends, be it reported, such   *)
(* as an HRA without a scale target, or dropped by the traversal; and one over RunnerSets  *)
(* with a group, which are found under the default group as well.                          *)
Excepted ==
    \/ Fails
    \/ JobScaleTarget(RepoKey) = <<>> /\ ~event.user /\ TraverseFails
    \/ \E i \in DOMAIN catalog : catalog[i].kind = "RunnerSet" /\ catalog[i].group # "default"

(* The target of an event is an HRA whose runners can run the job, and of the highest     *)
(* precedence among those; there is none only when no HRA serves the event. Which of       *)
(* several with that precedence it is depends on the order of the list: the search does    *)
(* not ignore an event that several match, whatever automatically-scaling-runners.md says. *)
FindsBest ==
    ~Excepted =>
        LET best == {p \in 1..5 : /\ \E i \in DOMAIN catalog : Serves(catalog[i], p)
                                  /\ \A q \in 1..p - 1 : \A i \in DOMAIN catalog : ~Serves(catalog[i], q)}
        IN  IF best = {} THEN ScaleUpTarget = <<>>
            ELSE Len(ScaleUpTarget) = 1 /\ \A p \in best : Serves(ScaleUpTarget[1], p)
=============================================================================
