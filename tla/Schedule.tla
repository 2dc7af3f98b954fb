------------------------------ MODULE Schedule ------------------------------
(***************************************************************************)
(* The scheduled overrides of minReplicas of an HRA, and how the controller     *)
(* tells which of them is active and which comes next.                        *)
(***************************************************************************)
EXTENDS Integers, Sequences, FiniteSets, FiniteSetsExt

CONSTANTS
    Overrides,  \* the scheduledOverrides of an HRA that are considered
    Horizon     \* bound on the clock

VARIABLES overrides, now

(* every: the length of the period that the frequency names, 0 for a single override; *)
(* until: 0 for ever; min: NoMin if it was omitted.                                  *)
NoMin == -1
OverrideType == [start : Nat, end : Nat, every : Nat, until : Nat, min : {NoMin} \cup Nat]

ASSUME ScheduleAssumption == Overrides \subseteq Seq(OverrideType) /\ Horizon \in Nat

Never == -1
Length(o) == o.end - o.start

(* The recurrences of the rule: external. until is the time of the last one; a single   *)
(* override has none.                                                                *)
Starts(o) ==
    {o.start + k * o.every : k \in 0..IF o.every = 0 THEN 0 ELSE 2 * Horizon}
        \cap {t \in Nat : o.every = 0 \/ o.until = 0 \/ t <= o.until}
Between(o, from, to) == {s \in Starts(o) : from <= s /\ s <= to}

(* calculateActiveAndUpcomingRecurringPeriods, with the start of each period *)
StartsUpToLength(o) == Between(o, now - Length(o), now)
ActiveStarts(o) == Between(o, now - Length(o) + 1, now)
UpcomingStarts(o) == Between(o, now + 1, now + o.every)

Invalid(o) == o.every # 0 /\ (Length(o) > o.every \/ Cardinality(ActiveStarts(o)) > 1)
Active(o) ==
    IF o.every = 0 THEN IF o.start <= now /\ now < o.end THEN o.start ELSE Never
    ELSE IF ActiveStarts(o) = {} THEN Never ELSE Min(ActiveStarts(o))
Upcoming(o) ==
    IF o.every = 0 THEN IF now < o.start THEN o.start ELSE Never
    ELSE IF UpcomingStarts(o) = {} THEN Never ELSE Min(UpcomingStarts(o))

(* matchScheduledOverrides: the first that is active, and the earliest to come *)
MatchFails == \E i \in DOMAIN overrides : Invalid(overrides[i])
FirstActive ==
    LET actives == {i \in DOMAIN overrides : Active(overrides[i]) # Never}
    IN  IF actives = {} THEN 0 ELSE Min(actives)
(* Without minReplicas it changes nothing, and the later ones are not considered. *)
ActiveMin == IF FirstActive = 0 THEN NoMin ELSE overrides[FirstActive].min
NextStart ==
    LET starts == {Upcoming(overrides[i]) : i \in DOMAIN overrides} \ {Never}
    IN  IF starts = {} THEN Never ELSE Min(starts)

ScheduleInit == overrides \in Overrides /\ now = 0
TimePasses == now < Horizon /\ now' = now + 1 /\ UNCHANGED overrides
-----------------------------------------------------------------------------
InForce(o, t) == \E s \in Starts(o) : s <= t /\ t < s + Length(o)

(* The override that the controller applies is the first in the list whose window,     *)
(* or a recurrence of it, holds the present, and its minReplicas are used, if any; a     *)
(* rule is refused only when its windows would overlap.                                *)
AppliesFirstInForce ==
    IF MatchFails THEN \E i \in DOMAIN overrides : Length(overrides[i]) > overrides[i].every
    ELSE LET live == {i \in DOMAIN overrides : InForce(overrides[i], now)}
         IN  /\ FirstActive = IF live = {} THEN 0 ELSE Min(live)
             /\ ActiveMin = IF live = {} THEN NoMin ELSE overrides[Min(live)].min

(* At every moment that passes, the override that matchScheduledOverrides applies is  *)
(* the first one of the spec that is in force; and none comes into force that was not *)
(* announced as the next one right before.                                           *)
OverridesAreKept ==
    [][/\ AppliesFirstInForce
       /\ ~MatchFails /\ ~MatchFails' =>
             \A i \in DOMAIN overrides : now' \in Starts(overrides[i]) => NextStart = now']_<<overrides, now>>
=============================================================================
