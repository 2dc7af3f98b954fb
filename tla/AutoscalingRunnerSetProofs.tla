--------------------- MODULE AutoscalingRunnerSetProofs ----------------------
(*****************************************************************************)
(* Theorems about AutoscalingRunnerSet, for every number of edits, sets,     *)
(* failed calls and changes of the controller's version, for both update     *)
(* strategies and any set of fields that are edited. The argument goes in    *)
(* three stages: the types, with what each call of Reconcile takes for       *)
(* granted; a classification of the steps by what they do to the object,     *)
(* to Reconcile and to the service (Moves); and the invariants of the        *)
(* object, of its teardown and of the scale set, which only look at the      *)
(* kind of the step. The last part is about the sets and their listener,     *)
(* as long as there is no trouble and the object is not being deleted        *)
(* (ServeInv).                                                               *)
(*****************************************************************************)
EXTENDS AutoscalingRunnerSet, SequenceTheorems, WellFoundedInduction, TLAPS

(* The calls that clean up, for a deletion or for an update. *)
Cleaning == {"cleanListener", "cleanSets", "deleteAll", "deleteScaleSet", "dropId"}

(* The calls after the scale set is gone. *)
Releasing == {"release", "dropFinalizer"}

(* The calls before the object has its finalizer. *)
Early == {"idle", "addFinalizer", "deleteSelf"}

(* The calls of a Reconcile that brings the object up to date. *)
Applying == {"patchHash", "setPending", "createScaleSet", "patchScaleSet", "updateGroup", "updateName",
             "patchGroup", "patchName", "list", "createSet", "drain", "deleteListener",
             "createListener", "setRunning", "setOutdated"}

(* All the calls, and none. *)
Steps == Early \cup Applying \cup {"deleteOld"} \cup Cleaning \cup Releasing

(* What Reconcile is at, what follows the cleanup, and what the calls that  *)
(* write a scale set rely on.                                               *)
StepInv ==
    /\ pc \in Steps
    /\ next \in {"idle", "release", "createListener", "setRunning"}
    /\ pc \in Cleaning => next \in {"idle", "release"}
    /\ pc = "setOutdated" => next = "idle"
    /\ pc = "deleteOld" => next \in {"idle", "createListener", "setRunning"} /\ latest \in Ids
    /\ pc = "createScaleSet" => l.ssid = 0
    /\ pc \in {"patchGroup", "patchName"} => l.ssid \in ScaleSetIds

(* The object is finalized before it has sets, a listener or a scale set,   *)
(* and nothing of Reconcile is left when it is gone; the scale set id that  *)
(* Reconcile read is the one the object has; runners are in sets that       *)
(* exist.                                                                   *)
ObjectInv ==
    /\ ~ars.exists => ars = NoArs /\ pc \in Early
    /\ ars.exists /\ ~ars.fin =>
          /\ ~ars.del /\ pc \in Early /\ ars.ssid = 0
          /\ Existing(sets) = {} /\ \A g \in Bit : listeners[g].st = "none"
    /\ pc # "idle" /\ ars.exists => l.ssid = ars.ssid
    /\ live \subseteq Existing(sets)

(* Reconcile is cleaning up for the deletion of the object. *)
Finishing == pc \in Releasing \/ (pc \in Cleaning /\ next = "release")

(* The teardown as far as it has come: no sets when the scale set is        *)
(* deleted, no listener of the spec after the first call, nothing kept and  *)
(* no scale set when the finalizer goes. An object that is being deleted is *)
(* not edited, so the spec that was read is the spec.                       *)
TeardownInv ==
    /\ Finishing => ars.del /\ l.spec = ars.spec
    /\ pc \in {"deleteScaleSet", "dropId"} \cup Releasing => Existing(sets) = {}
    /\ Finishing /\ pc # "cleanListener" => listeners[ListenerName(ars.spec)].st = "none"
    /\ pc = "dropFinalizer" => held = <<>>
    /\ pc \in Releasing => ars.ssid = 0

(* What is kept for the object is released only by a Reconcile of the       *)
(* deletion that found no scale set, and nothing of that is undone.         *)
HeldInv ==
    held # Dependents =>
        /\ pc \in {"idle", "cleanListener", "cleanSets", "deleteAll"} \cup Releasing
        /\ ars.exists => ars.del /\ ars.ssid = 0

(* Without a failed call the service has no scale set but the one whose id  *)
(* the object has, or whose id Reconcile is about to record.                *)
LeakInv ==
    faults = 0 =>
        /\ pc # "patchScaleSet" => \A k \in ScaleSetIds : scaleSets[k].there => k = ars.ssid
        /\ pc = "dropId" => \A k \in ScaleSetIds : ~scaleSets[k].there
        /\ pc = "patchScaleSet" =>
              \A j, k \in ScaleSetIds : scaleSets[j].there /\ scaleSets[k].there => j = k

(* The inductive invariant. *)
IInv == TypeOK /\ StepInv /\ ObjectInv /\ TeardownInv /\ HeldInv /\ LeakInv
-----------------------------------------------------------------------------
(* Max of a set of numbers up to a bound is in the set, and none is larger. *)
LEMMA NewestExists ==
  ASSUME NEW S \in SUBSET (0..MaxSets), S # {}
  PROVE  Max(S) \in S /\ \A y \in S : Max(S) >= y
<1>1. MaxSets \in Nat
  BY RunnerSetAssumption
<1> DEFINE T == {n \in 0..MaxSets : MaxSets - n \in S}
<1>2. T \subseteq Nat /\ T # {}
  <2>1. PICK x \in S : TRUE
    OBVIOUS
  <2>2. MaxSets - x \in 0..MaxSets /\ MaxSets - (MaxSets - x) = x
    BY <1>1
  <2>3. MaxSets - x \in T
    BY <2>2
  <2>4. 0..MaxSets \subseteq Nat
    BY <1>1
  <2> QED
    BY <2>3, <2>4
<1>3. PICK m \in T : \A n \in T : ~(<<n, m>> \in OpToRel(<, Nat))
  <2> HIDE DEF T
  <2> QED
    BY <1>2, NatLessThanWellFounded, WFMin
<1>4. \A n \in T : ~(n < m)
  <2> TAKE n \in T
  <2>1. n \in Nat /\ m \in Nat
    BY <1>2
  <2>2. n < m => <<n, m>> \in OpToRel(<, Nat)
    BY <2>1 DEF OpToRel
  <2> QED
    BY <1>3, <2>2
<1>5. \A y \in S : MaxSets - m >= y
  <2> TAKE y \in S
  <2>1. MaxSets - y \in T
    <3>1. MaxSets - y \in 0..MaxSets /\ MaxSets - (MaxSets - y) = y
      BY <1>1
    <3> QED
      BY <3>1
  <2>2. ~(MaxSets - y < m)
    BY <1>4, <2>1
  <2> QED
    BY <1>1, <2>2, m \in 0..MaxSets, y \in 0..MaxSets
<1>6. \E x \in S : \A y \in S : x >= y
  <2>1. MaxSets - m \in S
    OBVIOUS
  <2> QED
    BY <1>5, <2>1
<1> QED
  BY <1>6, Zenon DEF Max

(* The newest set is one of the existing sets, or 0. *)
LEMMA NewestIsASet ==
  Newest \in 0..MaxSets /\ (Newest # 0 => Newest \in Existing(sets) /\ Newest \in Ids)
<1>1. MaxSets \in Nat
  BY RunnerSetAssumption
<1>2. {0} \cup Existing(sets) \in SUBSET (0..MaxSets)
  BY <1>1 DEF Existing, Ids
<1>3. Newest \in {0} \cup Existing(sets)
  BY <1>2, NewestExists DEF Newest
<1> QED
  BY <1>1, <1>3 DEF Existing, Ids

(* Min of the unused scale set ids is unused. *)
LEMMA UnusedExists ==
  Unused # {} => Min(Unused) \in Unused
<1>1. Unused # {} => \E x \in Unused : \A y \in Unused : x =< y
  BY DEF Unused, ScaleSetIds
<1> QED
  BY <1>1, Zenon DEF Min

(* An edited object is an object. *)
LEMMA SpecEdits ==
  ASSUME NEW a \in ArsRec, NEW f \in EditFields
  PROVE  [a EXCEPT !.spec[f] = 1 - @] \in ArsRec
<1>1. f \in {"group", "name", "tmpl", "other"}
  BY RunnerSetAssumption
<1>2. a.spec \in Specs
  BY DEF ArsRec
<1>3. [a.spec EXCEPT ![f] = 1 - @] \in Specs
  <2>1. CASE f = "group"
    BY <1>2, <2>1 DEF Specs, Bit
  <2>2. CASE f = "name"
    BY <1>2, <2>2 DEF Specs, Bit
  <2>3. CASE f = "tmpl"
    BY <1>2, <2>3 DEF Specs, Bit
  <2>4. CASE f = "other"
    BY <1>2, <2>4 DEF Specs, Bit
  <2> QED
    BY <1>1, <2>1, <2>2, <2>3, <2>4
<1>4. [a EXCEPT !.spec[f] = 1 - @] = [a EXCEPT !.spec = [a.spec EXCEPT ![f] = 1 - @]]
  BY DEF ArsRec
<1> HIDE DEF Specs
<1>5. \A s \in Specs : [a EXCEPT !.spec = s] \in ArsRec
  BY DEF ArsRec
<1> QED
  BY <1>3, <1>4, <1>5

(* What Reconcile writes to the object is an object. *)
LEMMA ArsEdits ==
  /\ NewArs \in ArsRec /\ NoArs \in ArsRec
  /\ \A a \in ArsRec :
        /\ [a EXCEPT !.fin = TRUE] \in ArsRec
        /\ \A b \in ArsRec : [a EXCEPT !.hash = Hash(b)] \in ArsRec
        /\ \A p \in {"Pending", "Running", "Outdated"} : [a EXCEPT !.phase = p] \in ArsRec
        /\ [a EXCEPT !.ssid = 0] \in ArsRec
        /\ \A k \in ScaleSetIds, g, n \in Bit :
              /\ [a EXCEPT !.ssid = k, !.inGroup = g, !.called = n, !.labels = "url"] \in ArsRec
              /\ [a EXCEPT !.inGroup = g, !.called = n] \in ArsRec
              /\ [a EXCEPT !.called = n] \in ArsRec
        /\ Marked(a) \in ArsRec
<1>1. NewArs \in ArsRec /\ NoArs \in ArsRec
  <2>1. SpecAtFirst \in Specs
    BY DEF SpecAtFirst, Specs, Bit
  <2>2. NoHash \in Specs \X {"none", "user", "url"}
    BY <2>1 DEF NoHash
  <2>3. NewArs \in ArsRec
    BY <2>1, <2>2 DEF NewArs, ArsRec
  <2> QED
    BY <2>3 DEF NoArs, ArsRec
<1>2. ASSUME NEW a \in ArsRec
      PROVE  /\ [a EXCEPT !.fin = TRUE] \in ArsRec
             /\ \A p \in {"Pending", "Running", "Outdated"} : [a EXCEPT !.phase = p] \in ArsRec
             /\ [a EXCEPT !.ssid = 0] \in ArsRec
  BY DEF ArsRec
<1>3. ASSUME NEW a \in ArsRec, NEW b \in ArsRec
      PROVE  [a EXCEPT !.hash = Hash(b)] \in ArsRec
  <2>1. Hash(b) \in Specs \X {"none", "user", "url"}
    BY DEF Hash, ArsRec
  <2> QED
    BY <2>1 DEF ArsRec
<1>4. ASSUME NEW a \in ArsRec, NEW k \in ScaleSetIds, NEW g \in Bit, NEW n \in Bit
      PROVE  /\ [a EXCEPT !.ssid = k, !.inGroup = g, !.called = n, !.labels = "url"] \in ArsRec
             /\ [a EXCEPT !.inGroup = g, !.called = n] \in ArsRec
             /\ [a EXCEPT !.called = n] \in ArsRec
  <2>1. g \in 0..2 /\ n \in 0..2
    BY DEF Bit
  <2> QED
    BY <2>1 DEF ArsRec
<1>5. ASSUME NEW a \in ArsRec
      PROVE  Marked(a) \in ArsRec
  <2>1. [a EXCEPT !.del = TRUE] \in ArsRec
    BY DEF ArsRec
  <2> QED
    BY <1>1, <2>1 DEF Marked
<1> QED
  BY <1>1, <1>2, <1>3, <1>4, <1>5

(* Reconcile has come to call s for object a, with what the call relies on. *)
Ready(s, a) ==
    /\ s \in {"patchHash", "list", "createScaleSet", "updateGroup", "updateName"}
    /\ s \in {"updateGroup", "updateName"} => a.ssid \in ScaleSetIds
    /\ s = "createScaleSet" => a.ssid = 0

(* The calls that Reconcile can come to before it lists the sets. *)
LEMMA StepsOfReconcile ==
  ASSUME NEW a \in ArsRec
  PROVE  /\ Ready(ScaleSetStep(a), a)
         /\ Ready(HashStep(a), a)
         /\ \/ FirstStep(a) = "idle" /\ (~a.exists \/ (a.del /\ ~a.fin))
            \/ FirstStep(a) = "cleanListener" /\ a.exists /\ a.del /\ a.fin
            \/ FirstStep(a) \in {"deleteSelf", "addFinalizer"} /\ a.exists /\ ~a.del
            \/ Ready(FirstStep(a), a) /\ a.exists /\ ~a.del /\ a.fin
<1>1. a.ssid \in {0} \cup ScaleSetIds /\ a.exists \in BOOLEAN /\ a.del \in BOOLEAN /\ a.fin \in BOOLEAN
  BY DEF ArsRec
<1>2. Ready(ScaleSetStep(a), a)
  BY <1>1 DEF Ready, ScaleSetStep
<1>3. Ready(HashStep(a), a)
  BY <1>2 DEF Ready, HashStep
<1> QED
  BY <1>1, <1>2, <1>3 DEF FirstStep

(* The calls that it can come to when it has listed them. *)
LEMMA ListSteps ==
  ASSUME NEW listener, NEW i
  PROVE  /\ ListStep(listener, i) \in
                {"cleanListener", "createSet", "setOutdated", "deleteListener", "drain", "deleteOld"}
         /\ ListStep(listener, i) \in {"setOutdated", "deleteListener", "drain", "deleteOld"} => i # 0
         /\ ListenerStep(listener, i) \in {"idle", "createListener", "setRunning"}
<1>1. /\ ListStep(listener, i) \in
                {"cleanListener", "createSet", "setOutdated", "deleteListener", "drain", "deleteOld"}
      /\ ListStep(listener, i) \in {"setOutdated", "deleteListener", "drain", "deleteOld"} => i # 0
  BY DEF ListStep, ReplaceStep
<1>2. ListenerStep(listener, i) \in {"idle", "createListener", "setRunning"}
  BY DEF ListenerStep
<1> QED
  BY <1>1, <1>2

(* What is kept for the object. *)
Kinds == {"modeRoleBinding", "modeRole", "modeServiceAccount", "serviceAccount",
          "secret", "managerRoleBinding", "managerRole"}

(* What is held is a tail of the dependents, and releasing one leaves the   *)
(* next tail.                                                               *)
LEMMA HeldTails ==
  /\ Len(Dependents) = 7 /\ Dependents[5] = "secret"
  /\ Dependents = SubSeq(Dependents, 1, 7)
  /\ \A k \in 1..8 : /\ SubSeq(Dependents, k, 7) = <<>> <=> k = 8
                     /\ k # 8 => Tail(SubSeq(Dependents, k, 7)) = SubSeq(Dependents, k + 1, 7)
<1>1. Len(Dependents) = 7 /\ Dependents[5] = "secret"
  BY DEF Dependents
<1>2. Dependents \in Seq(Kinds)
  BY DEF Dependents, Kinds
<1>3. Dependents = SubSeq(Dependents, 1, 7)
  BY <1>1, <1>2
<1>4. ASSUME NEW k \in 1..8
      PROVE  /\ SubSeq(Dependents, k, 7) = <<>> <=> k = 8
             /\ k # 8 => Tail(SubSeq(Dependents, k, 7)) = SubSeq(Dependents, k + 1, 7)
  <2>1. ASSUME NEW j \in 1..8
        PROVE  SubSeq(Dependents, j, 7) \in Seq(Kinds)
    <3>1. \A i \in 1..7 : Dependents[i] \in Kinds
      BY DEF Dependents, Kinds
    <3> QED
      BY <3>1, SubSeqProperties
  <2>2. ASSUME NEW j \in 1..8
        PROVE  /\ Len(SubSeq(Dependents, j, 7)) = 8 - j
               /\ \A i \in 1..(8 - j) : SubSeq(Dependents, j, 7)[i] = Dependents[j + i - 1]
    BY <1>1, <1>2
  <2> DEFINE s == SubSeq(Dependents, k, 7)
  <2> DEFINE u == SubSeq(Dependents, k + 1, 7)
  <2>3. s \in Seq(Kinds) /\ Len(s) = 8 - k /\ \A i \in 1..(8 - k) : s[i] = Dependents[k + i - 1]
    BY <2>1, <2>2
  <2>4. s = <<>> <=> k = 8
    <3> HIDE DEF s
    <3> QED
      BY <2>3
  <2>5. ASSUME k # 8
        PROVE  Tail(s) = u
    <3>1. k + 1 \in 1..8 /\ 8 - (k + 1) = 7 - k
      BY <2>5
    <3>2. u \in Seq(Kinds) /\ Len(u) = 7 - k /\ \A i \in 1..(7 - k) : u[i] = Dependents[k + i]
      BY <2>1, <2>2, <3>1
    <3> HIDE DEF s, u
    <3>3. Tail(s) \in Seq(Kinds) /\ Len(Tail(s)) = 7 - k /\ \A i \in 1..(7 - k) : Tail(s)[i] = s[i + 1]
      BY <2>3, <2>4, <2>5
    <3>4. \A i \in 1..(7 - k) : Tail(s)[i] = u[i]
      BY <2>3, <3>2, <3>3
    <3> QED
      BY <3>2, <3>3, <3>4
  <2> QED
    BY <2>4, <2>5
<1> QED
  BY <1>1, <1>3, <1>4
-----------------------------------------------------------------------------
(* Who writes the sets. *)
LEMMA WritersOfSets ==
  ASSUME Next
  PROVE  UNCHANGED sets \/ CreateEphemeralRunnerSet \/ DrainSet \/ DeleteSets \/ ListenerScales \/
         SetScalesUp \/ RunnerIsOutdated \/ \E i \in Ids : RunnersEnd(i) \/ SetReports(i) \/
         SetGoes(i)
  BY DEF Patch, Call, Service, Release, Others, objVars, envVars, Next, Reconcile, StartReconcile,
     AddFinalizer, PatchHash, SetPending, DeleteSelf, CreateRunnerScaleSet, PatchScaleSet,
     UpdateRunnerScaleSet, PatchUpdated, List, DeleteListener, CreateListener, SetRunning,
     SetOutdated, ListenerIsCleanedUp, CleanupEphemeralRunnerSets, DeleteRunnerScaleSet,
     DropScaleSetId, ReleaseContainerMode, ReleaseServiceAccount, ReleaseSecret,
     ReleaseManagerRights, NothingToRelease, DropFinalizer, CallFails, ControllerUpgraded, EditSpec,
     DeleteArs, ListenerGoes

(* Who writes the listeners. *)
LEMMA WritersOfListeners ==
  ASSUME Next
  PROVE  UNCHANGED listeners \/ DeleteListener \/ CreateListener \/ ListenerGoes
  BY DEF Patch, Call, Service, Release, Others, objVars, envVars, Next, Reconcile, StartReconcile,
     AddFinalizer, PatchHash, SetPending, DeleteSelf, CreateRunnerScaleSet, PatchScaleSet,
     UpdateRunnerScaleSet, PatchUpdated, List, CreateEphemeralRunnerSet, DrainSet, DeleteSets,
     SetRunning, SetOutdated, ListenerIsCleanedUp, CleanupEphemeralRunnerSets, DeleteRunnerScaleSet,
     DropScaleSetId, ReleaseContainerMode, ReleaseServiceAccount, ReleaseSecret,
     ReleaseManagerRights, NothingToRelease, DropFinalizer, CallFails, ControllerUpgraded, EditSpec,
     DeleteArs, ListenerScales, SetScalesUp, RunnerIsOutdated, RunnersEnd, SetReports, SetGoes

(* Who writes the scale sets. *)
LEMMA WritersOfScaleSets ==
  ASSUME Next
  PROVE  UNCHANGED scaleSets \/ CreateRunnerScaleSet \/ UpdateRunnerScaleSet \/ DeleteRunnerScaleSet
  BY DEF Patch, Call, Service, Release, Others, objVars, envVars, Next, Reconcile, StartReconcile,
     AddFinalizer, PatchHash, SetPending, DeleteSelf, PatchScaleSet, PatchUpdated, List,
     CreateEphemeralRunnerSet, DrainSet, DeleteSets, DeleteListener, CreateListener, SetRunning,
     SetOutdated, ListenerIsCleanedUp, CleanupEphemeralRunnerSets, DropScaleSetId,
     ReleaseContainerMode, ReleaseServiceAccount, ReleaseSecret, ReleaseManagerRights,
     NothingToRelease, DropFinalizer, CallFails, ControllerUpgraded, EditSpec, DeleteArs,
     ListenerScales, ListenerGoes, SetScalesUp, RunnerIsOutdated, RunnersEnd, SetReports, SetGoes

(* Who writes what is kept. *)
LEMMA WritersOfHeld ==
  ASSUME Next
  PROVE  UNCHANGED held \/ ReleaseContainerMode \/ ReleaseServiceAccount \/ ReleaseSecret \/
         ReleaseManagerRights
  BY DEF Patch, Call, Service, Release, Others, objVars, envVars, Next, Reconcile, StartReconcile,
     AddFinalizer, PatchHash, SetPending, DeleteSelf, CreateRunnerScaleSet, PatchScaleSet,
     UpdateRunnerScaleSet, PatchUpdated, List, CreateEphemeralRunnerSet, DrainSet, DeleteSets,
     DeleteListener, CreateListener, SetRunning, SetOutdated, ListenerIsCleanedUp,
     CleanupEphemeralRunnerSets, DeleteRunnerScaleSet, DropScaleSetId, NothingToRelease,
     DropFinalizer, CallFails, ControllerUpgraded, EditSpec, DeleteArs, ListenerScales,
     ListenerGoes, SetScalesUp, RunnerIsOutdated, RunnersEnd, SetReports, SetGoes

(* Who makes and ends runners. *)
LEMMA WritersOfLive ==
  ASSUME Next
  PROVE  UNCHANGED live \/ SetScalesUp \/ RunnerIsOutdated \/ \E i \in Ids : RunnersEnd(i)
  BY DEF Patch, Call, Service, Release, Others, objVars, envVars, Next, Reconcile, StartReconcile,
     AddFinalizer, PatchHash, SetPending, DeleteSelf, CreateRunnerScaleSet, PatchScaleSet,
     UpdateRunnerScaleSet, PatchUpdated, List, CreateEphemeralRunnerSet, DrainSet, DeleteSets,
     DeleteListener, CreateListener, SetRunning, SetOutdated, ListenerIsCleanedUp,
     CleanupEphemeralRunnerSets, DeleteRunnerScaleSet, DropScaleSetId, ReleaseContainerMode,
     ReleaseServiceAccount, ReleaseSecret, ReleaseManagerRights, NothingToRelease, DropFinalizer,
     CallFails, ControllerUpgraded, EditSpec, DeleteArs, ListenerScales, ListenerGoes, SetReports,
     SetGoes

(* What is made of a set is a set. *)
LEMMA SetEdits ==
  /\ GoneSet \in SetRec
  /\ \A a \in ArsRec : NewSet(a.spec) \in SetRec
  /\ \A r \in SetRec : /\ [r EXCEPT !.want = FALSE] \in SetRec
                       /\ [r EXCEPT !.want = ~@] \in SetRec
                       /\ [r EXCEPT !.busy = ~@] \in SetRec
                       /\ [r EXCEPT !.st = "deleting"] \in SetRec
                       /\ \A b \in BOOLEAN : [r EXCEPT !.outdated = TRUE, !.busy = b] \in SetRec
<1>1. NoSet \in SetRec
  BY DEF NoSet, SetRec, Bit
<1>2. GoneSet \in SetRec
  BY <1>1 DEF GoneSet, SetRec
<1>3. ASSUME NEW a \in ArsRec
      PROVE  NewSet(a.spec) \in SetRec
  <2>1. a.spec \in Specs
    BY DEF ArsRec
  <2>2. RunnerSetSpecHash(a.spec) \in Bit \X Bit \X Bit
    BY <2>1 DEF RunnerSetSpecHash, Specs
  <2> QED
    BY <1>1, <2>2 DEF NewSet, SetRec
<1>4. ASSUME NEW r \in SetRec
      PROVE  /\ [r EXCEPT !.want = FALSE] \in SetRec
             /\ [r EXCEPT !.want = ~@] \in SetRec
             /\ [r EXCEPT !.busy = ~@] \in SetRec
             /\ [r EXCEPT !.st = "deleting"] \in SetRec
             /\ \A b \in BOOLEAN : [r EXCEPT !.outdated = TRUE, !.busy = b] \in SetRec
  BY DEF SetRec
<1> QED
  BY <1>2, <1>3, <1>4

(* The sets keep their type. *)
LEMMA SetsTyped ==
  ASSUME TypeOK, Next
  PROVE  sets' \in [Ids -> SetRec]
<1>t. sets \in [Ids -> SetRec] /\ l \in ArsRec /\ todo \subseteq Ids /\ live \subseteq Ids
  BY DEF TypeOK
<1>s. \A i \in Ids, r \in SetRec : [sets EXCEPT ![i] = r] \in [Ids -> SetRec]
  BY <1>t
<1>1. CASE UNCHANGED sets
  BY <1>1, <1>t
<1>2. CASE CreateEphemeralRunnerSet
  BY <1>2, <1>t, <1>s, SetEdits DEF CreateEphemeralRunnerSet
<1>3. CASE DrainSet
  <2>1. latest \in Ids
    BY <1>3 DEF DrainSet, TypeOK
  <2>2. /\ [sets EXCEPT ![latest].want = FALSE] = [sets EXCEPT ![latest] = [sets[latest] EXCEPT !.want = FALSE]]
    BY <1>t, <2>1
  <2> QED
    BY <1>3, <1>t, <1>s, <2>1, <2>2, SetEdits DEF DrainSet
<1>4. CASE DeleteSets
  <2>1. PICK i \in todo : sets' = sets \/ sets' = [sets EXCEPT ![i].st = "deleting"]
    BY <1>4 DEF DeleteSets
  <2>2. [sets EXCEPT ![i].st = "deleting"] = [sets EXCEPT ![i] = [sets[i] EXCEPT !.st = "deleting"]]
    BY <1>t
  <2>3. [sets[i] EXCEPT !.st = "deleting"] \in SetRec
    BY <1>t, SetEdits
  <2> QED
    BY <1>t, <1>s, <2>1, <2>2, <2>3
<1>5. CASE ListenerScales
  <2>1. PICK i \in Ids : sets' = [sets EXCEPT ![i] = [sets[i] EXCEPT !.want = ~@]]
    BY <1>5 DEF ListenerScales, Others, Existing
  <2> QED
    BY <1>t, <1>s, <2>1, SetEdits
<1>6. CASE SetScalesUp
  BY <1>6, <1>t, <1>s DEF SetScalesUp, Others
<1>7. CASE RunnerIsOutdated
  <2>1. PICK i \in live : sets' = [sets EXCEPT ![i] = [sets[i] EXCEPT !.outdated = TRUE, !.busy = i \in live']]
    BY <1>7 DEF RunnerIsOutdated, Others
  <2>2. sets[i] \in SetRec /\ (i \in live') \in BOOLEAN
    BY <1>t
  <2>3. [sets[i] EXCEPT !.outdated = TRUE, !.busy = i \in live'] \in SetRec
    BY <2>2, SetEdits, Zenon
  <2> QED
    BY <1>t, <1>s, <2>1, <2>3
<1>8. CASE \E i \in Ids : RunnersEnd(i) \/ SetReports(i) \/ SetGoes(i)
  <2>1. PICK i \in Ids : sets' \in {sets, [sets EXCEPT ![i] = [sets[i] EXCEPT !.busy = ~@]],
                                  [sets EXCEPT ![i] = GoneSet]}
    BY <1>8, <1>t DEF RunnersEnd, SetReports, SetGoes, Others
  <2>2. [sets[i] EXCEPT !.busy = ~@] \in SetRec
    BY <1>t, SetEdits
  <2> QED
    BY <1>t, <1>s, <2>1, <2>2, SetEdits
<1> QED
  BY <1>1, <1>2, <1>3, <1>4, <1>5, <1>6, <1>7, <1>8, WritersOfSets

(* The listeners keep their type. *)
LEMMA ListenersTyped ==
  ASSUME TypeOK, StepInv, Next
  PROVE  listeners' \in [Bit -> ListenerRec]
<1>t. listeners \in [Bit -> ListenerRec] /\ l.spec \in Specs /\ l.spec.group \in Bit
  BY DEF TypeOK, ArsRec, Specs
<1>s. \A g \in Bit, r \in ListenerRec : [listeners EXCEPT ![g] = r] \in [Bit -> ListenerRec]
  BY <1>t
<1>1. CASE UNCHANGED listeners
  BY <1>1, <1>t
<1>2. CASE DeleteListener
  <2>1. \A g \in Bit : [listeners EXCEPT ![g].st = "deleting"] \in [Bit -> ListenerRec]
    <3> TAKE g \in Bit
    <3>1. [listeners[g] EXCEPT !.st = "deleting"] \in ListenerRec
      BY <1>t DEF ListenerRec
    <3>2. [listeners EXCEPT ![g].st = "deleting"]
            = [listeners EXCEPT ![g] = [listeners[g] EXCEPT !.st = "deleting"]]
      BY <1>t
    <3> QED
      BY <1>s, <3>1, <3>2
  <2> QED
    BY <1>2, <1>t, <2>1 DEF DeleteListener, ListenerName
<1>3. CASE CreateListener
  <2>1. latest \in 0..MaxSets
    BY DEF TypeOK
  <2>2. [st |-> "up", set |-> latest, hash |-> ListenerSpecHash(l.spec)] \in ListenerRec
    BY <1>t, <2>1 DEF ListenerRec, ListenerSpecHash
  <2> QED
    BY <1>3, <1>t, <1>s, <2>2 DEF CreateListener, ListenerName
<1>4. CASE ListenerGoes
  <2>1. 0 \in 0..MaxSets
    BY RunnerSetAssumption
  <2>2. SpecAtFirst \in Specs
    BY DEF SpecAtFirst, Specs, Bit
  <2>3. NoListener \in ListenerRec
    BY <2>1, <2>2 DEF NoListener, ListenerRec
  <2> QED
    BY <1>4, <1>t, <1>s, <2>3 DEF ListenerGoes
<1> QED
  BY <1>1, <1>2, <1>3, <1>4, WritersOfListeners

(* The scale sets keep their type. *)
LEMMA ScaleSetsTyped ==
  ASSUME TypeOK, Next
  PROVE  scaleSets' \in [ScaleSetIds -> ScaleSetRec]
<1>t. /\ scaleSets \in [ScaleSetIds -> ScaleSetRec]
      /\ l.spec.group \in Bit /\ l.spec.name \in Bit
  BY DEF TypeOK, ArsRec, Specs
<1>s. \A k \in ScaleSetIds, r \in ScaleSetRec : [scaleSets EXCEPT ![k] = r] \in [ScaleSetIds -> ScaleSetRec]
  BY <1>t
<1>1. CASE UNCHANGED scaleSets
  BY <1>1, <1>t
<1>2. CASE CreateRunnerScaleSet
  <2>1. [there |-> TRUE, group |-> l.spec.group, name |-> l.spec.name] \in ScaleSetRec
    BY <1>t DEF ScaleSetRec
  <2>2. Unused \subseteq ScaleSetIds
    BY DEF Unused
  <2> QED
    BY <1>2, <1>t, <1>s, <2>1, <2>2, UnusedExists DEF CreateRunnerScaleSet
<1>3. CASE UpdateRunnerScaleSet
  <2>1. l.ssid \in ScaleSetIds
    BY <1>3 DEF UpdateRunnerScaleSet, TypeOK
  <2>2. /\ [scaleSets[l.ssid] EXCEPT !.group = l.spec.group] \in ScaleSetRec
        /\ [scaleSets[l.ssid] EXCEPT !.name = l.spec.name] \in ScaleSetRec
    BY <1>t, <2>1 DEF ScaleSetRec
  <2>3. /\ [scaleSets EXCEPT ![l.ssid].group = l.spec.group]
             = [scaleSets EXCEPT ![l.ssid] = [scaleSets[l.ssid] EXCEPT !.group = l.spec.group]]
        /\ [scaleSets EXCEPT ![l.ssid].name = l.spec.name]
             = [scaleSets EXCEPT ![l.ssid] = [scaleSets[l.ssid] EXCEPT !.name = l.spec.name]]
    BY <1>t, <2>1
  <2> QED
    BY <1>3, <1>t, <1>s, <2>1, <2>2, <2>3 DEF UpdateRunnerScaleSet
<1>4. CASE DeleteRunnerScaleSet
  <2>1. l.ssid \in ScaleSetIds
    BY <1>4 DEF DeleteRunnerScaleSet, TypeOK
  <2>2. NoScaleSet \in ScaleSetRec
    BY DEF NoScaleSet, ScaleSetRec, Bit
  <2> QED
    BY <1>4, <1>s, <2>1, <2>2 DEF DeleteRunnerScaleSet
<1> QED
  BY <1>1, <1>2, <1>3, <1>4, WritersOfScaleSets

(* The part of TypeOK about what is kept. *)
HeldOK == \E k \in 1..(Len(Dependents) + 1) : held = SubSeq(Dependents, k, Len(Dependents))

(* It is a tail of the dependents after every step. *)
LEMMA HeldTyped ==
  ASSUME HeldOK, Next
  PROVE  HeldOK'
<1>1. CASE UNCHANGED held
  BY <1>1 DEF HeldOK
<1>2. CASE ReleaseContainerMode \/ ReleaseServiceAccount \/ ReleaseSecret \/ ReleaseManagerRights
  <2>1. held # <<>> /\ held' = Tail(held)
    BY <1>2 DEF ReleaseContainerMode, ReleaseServiceAccount, ReleaseSecret, ReleaseManagerRights,
       Release
  <2>2. PICK k \in 1..8 : held = SubSeq(Dependents, k, 7)
    <3>1. Len(Dependents) + 1 = 8
      BY HeldTails
    <3> QED
      BY <3>1, HeldTails DEF HeldOK
  <2>3. k # 8 /\ held' = SubSeq(Dependents, k + 1, 7)
    BY <2>1, <2>2, HeldTails
  <2>4. k + 1 \in 1..8
    BY <2>3
  <2>5. Len(Dependents) + 1 = 8
    BY HeldTails
  <2> QED
    BY <2>3, <2>4, <2>5, HeldTails DEF HeldOK
<1> QED
  BY <1>1, <1>2, WritersOfHeld

(* The counters keep their bounds. *)
LEMMA CountersTyped ==
  ASSUME TypeOK, Next
  PROVE  /\ edits' \in 0..MaxChanges /\ faults' \in 0..MaxFaults /\ trouble' \in 0..MaxTrouble
         /\ strategy' = strategy /\ live' \subseteq Ids
<1>t. /\ MaxChanges \in Nat /\ MaxFaults \in Nat /\ MaxTrouble \in Nat
      /\ edits \in 0..MaxChanges /\ faults \in 0..MaxFaults /\ trouble \in 0..MaxTrouble
  BY RunnerSetAssumption DEF TypeOK
<1>1. \/ UNCHANGED <<edits, faults, trouble>>
      \/ edits' = edits + 1 /\ Changes /\ UNCHANGED <<faults, trouble>>
      \/ faults' = faults + 1 /\ faults < MaxFaults /\ UNCHANGED <<edits, trouble>>
      \/ trouble' = trouble + 1 /\ trouble < MaxTrouble /\ UNCHANGED <<edits, faults>>
  BY DEF Patch, Call, Service, Release, Others, objVars, envVars, Next, Reconcile, StartReconcile,
     AddFinalizer, PatchHash, SetPending, DeleteSelf, CreateRunnerScaleSet, PatchScaleSet,
     UpdateRunnerScaleSet, PatchUpdated, List, CreateEphemeralRunnerSet, DrainSet, DeleteSets,
     DeleteListener, CreateListener, SetRunning, SetOutdated, ListenerIsCleanedUp,
     CleanupEphemeralRunnerSets, DeleteRunnerScaleSet, DropScaleSetId, ReleaseContainerMode,
     ReleaseServiceAccount, ReleaseSecret, ReleaseManagerRights, NothingToRelease, DropFinalizer,
     CallFails, ControllerUpgraded, EditSpec, DeleteArs, ListenerScales, ListenerGoes, SetScalesUp,
     RunnerIsOutdated, RunnersEnd, SetReports, SetGoes
<1>2. edits' \in 0..MaxChanges /\ faults' \in 0..MaxFaults /\ trouble' \in 0..MaxTrouble
  BY <1>t, <1>1 DEF Changes
<1>3. strategy' = strategy
  BY DEF Patch, Call, Service, Release, Others, objVars, envVars, Next, Reconcile, StartReconcile,
     AddFinalizer, PatchHash, SetPending, DeleteSelf, CreateRunnerScaleSet, PatchScaleSet,
     UpdateRunnerScaleSet, PatchUpdated, List, CreateEphemeralRunnerSet, DrainSet, DeleteSets,
     DeleteListener, CreateListener, SetRunning, SetOutdated, ListenerIsCleanedUp,
     CleanupEphemeralRunnerSets, DeleteRunnerScaleSet, DropScaleSetId, ReleaseContainerMode,
     ReleaseServiceAccount, ReleaseSecret, ReleaseManagerRights, NothingToRelease, DropFinalizer,
     CallFails, ControllerUpgraded, EditSpec, DeleteArs, ListenerScales, ListenerGoes, SetScalesUp,
     RunnerIsOutdated, RunnersEnd, SetReports, SetGoes
<1>4. live' \subseteq Ids
  BY WritersOfLive DEF TypeOK, SetScalesUp, RunnerIsOutdated, RunnersEnd, SetReports, SetGoes
<1> QED
  BY <1>2, <1>3, <1>4

(* The part of TypeOK about Reconcile. *)
ControlOK ==
    /\ latest \in 0..MaxSets /\ todo \subseteq Ids
    /\ pc \in {"updateGroup", "updateName", "deleteScaleSet"} => l.ssid \in ScaleSetIds
    /\ pc \in {"drain", "createListener"} => latest \in Ids
    /\ pc \in {"deleteOld", "deleteAll"} => todo # {}

(* Reconcile comes to a call with what the call relies on, action by        *)
(* action.                                                                  *)
LEMMA ControlTyped ==
  ASSUME TypeOK, StepInv, Next
  PROVE  ControlOK' /\ StepInv'
<1> USE DEF objVars, envVars, localVars, ctrlVars
<1>t. /\ ars \in ArsRec /\ l \in ArsRec /\ live \subseteq Ids
      /\ latest \in 0..MaxSets /\ todo \subseteq Ids /\ MaxSets \in Nat \ {0}
      /\ ControlOK /\ l.ssid \in {0} \cup ScaleSetIds
  BY RunnerSetAssumption DEF TypeOK, ControlOK, ArsRec
<1>r. ASSUME Return
      PROVE  ControlOK' /\ StepInv'
  BY <1>t, <1>r DEF Return, Forget, ControlOK, StepInv, Steps, Early, Applying, Cleaning, Releasing
<1>1. CASE StartReconcile
  <2>1. next' = (IF pc' = "cleanListener" THEN "release" ELSE "idle") /\ UNCHANGED <<latest, todo>>
    BY <1>1 DEF StartReconcile
  <2>2. pc' \in {"idle", "cleanListener", "deleteSelf", "addFinalizer"} \/ Ready(pc', l')
    BY <1>1, <1>t, StepsOfReconcile DEF StartReconcile, Ready
  <2> QED
    BY <1>t, <2>1, <2>2 DEF Ready, ControlOK, StepInv, Steps, Early, Applying, Cleaning, Releasing
<1>2. CASE AddFinalizer
  <2> DEFINE new == [ars EXCEPT !.fin = TRUE]
  <2>1. new \in ArsRec
    BY <1>t, ArsEdits
  <2>2. Ready(HashStep(new), new)
    BY <2>1, StepsOfReconcile
  <2> HIDE DEF new
  <2>3. Patch(new, HashStep(new))
    BY <1>2 DEF AddFinalizer, new
  <2>4. CASE ars.exists
    <3>1. /\ pc' = HashStep(new)
          /\ l' = new /\ UNCHANGED <<latest, todo, next>>
      BY <2>2, <2>3, <2>4 DEF Patch, Ready
    <3> QED
      BY <1>t, <2>2, <3>1 DEF Ready, ControlOK, StepInv, Steps, Early, Applying, Cleaning, Releasing
  <2>5. CASE ~ars.exists
    BY <1>r, <2>3, <2>5 DEF Patch
  <2> QED
    BY <2>4, <2>5
<1>3. CASE PatchHash
  <2> DEFINE new == [ars EXCEPT !.hash = Hash(l)]
  <2>1. new \in ArsRec
    BY <1>t, ArsEdits
  <2>2. Ready(ScaleSetStep(new), new)
    BY <2>1, StepsOfReconcile
  <2> HIDE DEF new
  <2>3. Patch(new, IF new.phase # "Pending" THEN "setPending" ELSE ScaleSetStep(new))
    BY <1>3 DEF PatchHash, new
  <2>4. CASE ars.exists
    <3>1. /\ pc' = (IF new.phase # "Pending" THEN "setPending" ELSE ScaleSetStep(new))
          /\ l' = new /\ UNCHANGED <<latest, todo, next>>
      BY <2>2, <2>3, <2>4 DEF Patch, Ready
    <3> QED
      BY <1>t, <2>2, <3>1 DEF Ready, ControlOK, StepInv, Steps, Early, Applying, Cleaning, Releasing
  <2>5. CASE ~ars.exists
    BY <1>r, <2>3, <2>5 DEF Patch
  <2> QED
    BY <2>4, <2>5
<1>4. CASE SetPending
  <2> DEFINE new == [ars EXCEPT !.phase = "Pending"]
  <2>1. new \in ArsRec
    BY <1>t, ArsEdits
  <2>2. Ready(ScaleSetStep(new), new)
    BY <2>1, StepsOfReconcile
  <2> HIDE DEF new
  <2>3. Patch(new, ScaleSetStep(new))
    BY <1>4 DEF SetPending, new
  <2>4. CASE ars.exists
    <3>1. /\ pc' = ScaleSetStep(new)
          /\ l' = new /\ UNCHANGED <<latest, todo, next>>
      BY <2>2, <2>3, <2>4 DEF Patch, Ready
    <3> QED
      BY <1>t, <2>2, <3>1 DEF Ready, ControlOK, StepInv, Steps, Early, Applying, Cleaning, Releasing
  <2>5. CASE ~ars.exists
    BY <1>r, <2>3, <2>5 DEF Patch
  <2> QED
    BY <2>4, <2>5
<1>5. CASE DeleteSelf
  BY <1>5, <1>r DEF DeleteSelf
<1>6. CASE CreateRunnerScaleSet
  BY <1>6, <1>t, <1>r DEF CreateRunnerScaleSet, Service, ControlOK, StepInv, Steps, Early, Applying,
     Cleaning, Releasing
<1>7. CASE PatchScaleSet
  BY <1>7, <1>r DEF PatchScaleSet, Patch
<1>8. CASE UpdateRunnerScaleSet
  BY <1>8, <1>t, <1>r DEF UpdateRunnerScaleSet, Service, ControlOK, StepInv, Steps, Early, Applying,
     Cleaning, Releasing
<1>9. CASE PatchUpdated
  BY <1>9, <1>r DEF PatchUpdated, Patch
<1>10. CASE List
  BY <1>10, <1>t, <1>r, ListSteps, NewestIsASet DEF List, ControlOK, StepInv, Steps, Early, Applying,
     Cleaning, Releasing, Existing
<1>11. CASE CreateEphemeralRunnerSet
  BY <1>11, <1>r DEF CreateEphemeralRunnerSet, Call
<1>12. CASE DrainSet
  BY <1>12, <1>r DEF DrainSet, Call
<1>13. CASE DeleteSets
  BY <1>13, <1>t, <1>r DEF DeleteSets, Call, ControlOK, StepInv, Steps, Early, Applying, Cleaning,
     Releasing
<1>14. CASE DeleteListener
  BY <1>14, <1>r DEF DeleteListener, Call
<1>15. CASE CreateListener
  BY <1>15, <1>r DEF CreateListener, Call
<1>16. CASE SetRunning
  BY <1>16, <1>r DEF SetRunning, Patch
<1>17. CASE SetOutdated
  BY <1>17, <1>t, <1>r DEF SetOutdated, Patch, ControlOK, StepInv, Steps, Early, Applying, Cleaning,
     Releasing
<1>18. CASE ListenerIsCleanedUp
  BY <1>18, <1>t, <1>r DEF ListenerIsCleanedUp, Call, ControlOK, StepInv, Steps, Early, Applying,
     Cleaning, Releasing
<1>19. CASE CleanupEphemeralRunnerSets
  BY <1>19, <1>t, <1>r DEF CleanupEphemeralRunnerSets, Call, AfterSets, ControlOK, StepInv, Steps,
     Early, Applying, Cleaning, Releasing, Existing
<1>20. CASE DeleteRunnerScaleSet
  BY <1>20, <1>t, <1>r DEF DeleteRunnerScaleSet, Service, ControlOK, StepInv, Steps, Early, Applying,
     Cleaning, Releasing
<1>21. CASE DropScaleSetId
  BY <1>21, <1>t, <1>r DEF DropScaleSetId, Patch, ControlOK, StepInv, Steps, Early, Applying,
     Cleaning, Releasing
<1>22. CASE ReleaseContainerMode
  BY <1>22, <1>t, <1>r DEF ReleaseContainerMode, Release, ControlOK, StepInv, Steps, Early, Applying,
     Cleaning, Releasing
<1>23. CASE ReleaseServiceAccount
  BY <1>23, <1>t, <1>r DEF ReleaseServiceAccount, Release, ControlOK, StepInv, Steps, Early, Applying,
     Cleaning, Releasing
<1>24. CASE ReleaseSecret
  BY <1>24, <1>t, <1>r DEF ReleaseSecret, Release, ControlOK, StepInv, Steps, Early, Applying,
     Cleaning, Releasing
<1>25. CASE ReleaseManagerRights
  BY <1>25, <1>t, <1>r DEF ReleaseManagerRights, Release, ControlOK, StepInv, Steps, Early, Applying,
     Cleaning, Releasing
<1>26. CASE NothingToRelease
  BY <1>26, <1>t, <1>r DEF NothingToRelease, ControlOK, StepInv, Steps, Early, Applying, Cleaning,
     Releasing
<1>27. CASE DropFinalizer
  BY <1>27, <1>r DEF DropFinalizer
<1>28. CASE CallFails
  BY <1>28, <1>r DEF CallFails
<1>29. CASE ControllerUpgraded
  BY <1>29, <1>t DEF ControllerUpgraded, Changes, ControlOK, StepInv
<1>30. CASE EditSpec
  BY <1>30, <1>t DEF EditSpec, Changes, ControlOK, StepInv
<1>31. CASE DeleteArs
  BY <1>31, <1>t DEF DeleteArs, ControlOK, StepInv
<1>32. CASE ListenerScales
  BY <1>32, <1>t DEF ListenerScales, Others, ControlOK, StepInv
<1>33. CASE ListenerGoes
  BY <1>33, <1>t DEF ListenerGoes, ControlOK, StepInv
<1>34. CASE SetScalesUp
  BY <1>34, <1>t DEF SetScalesUp, Others, ControlOK, StepInv
<1>35. CASE RunnerIsOutdated
  BY <1>35, <1>t DEF RunnerIsOutdated, Others, Changes, ControlOK, StepInv
<1>36. CASE \E i \in Ids : RunnersEnd(i)
  BY <1>36, <1>t DEF RunnersEnd, Others, ControlOK, StepInv
<1>37. CASE \E i \in Ids : SetReports(i)
  BY <1>37, <1>t DEF SetReports, Others, ControlOK, StepInv
<1>38. CASE \E i \in Ids : SetGoes(i)
  BY <1>38, <1>t DEF SetGoes, Others, ControlOK, StepInv
<1> QED
  BY <1>1, <1>2, <1>3, <1>4, <1>5, <1>6, <1>7, <1>8, <1>9, <1>10, <1>11, <1>12, <1>13, <1>14, <1>15,
     <1>16, <1>17, <1>18, <1>19, <1>20, <1>21, <1>22, <1>23, <1>24, <1>25, <1>26, <1>27, <1>28,
     <1>29, <1>30, <1>31, <1>32, <1>33, <1>34, <1>35, <1>36, <1>37, <1>38 DEF Next, Reconcile

(* The object and the copy that Reconcile has keep their type, action by    *)
(* action.                                                                  *)
LEMMA ArsTyped ==
  ASSUME TypeOK, StepInv, Next
  PROVE  ars' \in ArsRec /\ l' \in ArsRec
<1> USE DEF objVars, envVars, localVars, ctrlVars
<1>t. ars \in ArsRec /\ l \in ArsRec
  BY DEF TypeOK
<1>s. \A k \in ScaleSetIds : scaleSets[k].group \in Bit /\ scaleSets[k].name \in Bit
  BY DEF TypeOK, ScaleSetRec
<1>1. CASE StartReconcile
  BY <1>1, <1>t, ArsEdits DEF StartReconcile
<1>2. CASE AddFinalizer
  BY <1>2, <1>t, ArsEdits DEF AddFinalizer, Patch, Return, Forget
<1>3. CASE PatchHash
  BY <1>3, <1>t, ArsEdits DEF PatchHash, Patch, Return, Forget
<1>4. CASE SetPending
  BY <1>4, <1>t, ArsEdits DEF SetPending, Patch, Return, Forget
<1>5. CASE DeleteSelf
  BY <1>5, <1>t, ArsEdits DEF DeleteSelf, Return, Forget
<1>6. CASE CreateRunnerScaleSet
  BY <1>6, <1>t, ArsEdits DEF CreateRunnerScaleSet, Service, Return, Forget
<1>7. CASE PatchScaleSet
  <2>1. PICK k \in Matching(l.spec) :
           Patch([ars EXCEPT !.ssid = k, !.inGroup = scaleSets[k].group,
                             !.called = scaleSets[k].name, !.labels = "url"], "idle")
    BY <1>7 DEF PatchScaleSet
  <2>2. k \in ScaleSetIds
    BY DEF Matching
  <2>3. [ars EXCEPT !.ssid = k, !.inGroup = scaleSets[k].group,
                    !.called = scaleSets[k].name, !.labels = "url"] \in ArsRec
    BY <1>t, <1>s, <2>2, ArsEdits
  <2> QED
    BY <1>t, <2>1, <2>3, ArsEdits DEF Patch, Return, Forget
<1>8. CASE UpdateRunnerScaleSet
  BY <1>8, <1>t, ArsEdits DEF UpdateRunnerScaleSet, Service, Return, Forget
<1>9. CASE PatchUpdated
  <2>1. l.ssid \in ScaleSetIds
    BY <1>9 DEF PatchUpdated, StepInv
  <2>2. /\ [ars EXCEPT !.inGroup = scaleSets[l.ssid].group, !.called = scaleSets[l.ssid].name] \in ArsRec
        /\ [ars EXCEPT !.called = scaleSets[l.ssid].name] \in ArsRec
    BY <1>t, <1>s, <2>1, ArsEdits
  <2> QED
    BY <1>9, <1>t, <2>2, ArsEdits DEF PatchUpdated, Patch, Return, Forget
<1>10. CASE List
  BY <1>10, <1>t, ArsEdits DEF List, Return, Forget
<1>11. CASE CreateEphemeralRunnerSet
  BY <1>11, <1>t, ArsEdits DEF CreateEphemeralRunnerSet, Call, Return, Forget
<1>12. CASE DrainSet
  BY <1>12, <1>t, ArsEdits DEF DrainSet, Call, Return, Forget
<1>13. CASE DeleteSets
  BY <1>13, <1>t, ArsEdits DEF DeleteSets, Call, Return, Forget
<1>14. CASE DeleteListener
  BY <1>14, <1>t, ArsEdits DEF DeleteListener, Call, Return, Forget
<1>15. CASE CreateListener
  BY <1>15, <1>t, ArsEdits DEF CreateListener, Call, Return, Forget
<1>16. CASE SetRunning
  BY <1>16, <1>t, ArsEdits DEF SetRunning, Patch, Return, Forget
<1>17. CASE SetOutdated
  BY <1>17, <1>t, ArsEdits DEF SetOutdated, Patch, Return, Forget
<1>18. CASE ListenerIsCleanedUp
  BY <1>18, <1>t, ArsEdits DEF ListenerIsCleanedUp, Call, Return, Forget
<1>19. CASE CleanupEphemeralRunnerSets
  BY <1>19, <1>t, ArsEdits DEF CleanupEphemeralRunnerSets, Call, Return, Forget, AfterSets
<1>20. CASE DeleteRunnerScaleSet
  BY <1>20, <1>t, ArsEdits DEF DeleteRunnerScaleSet, Service, Return, Forget
<1>21. CASE DropScaleSetId
  BY <1>21, <1>t, ArsEdits DEF DropScaleSetId, Patch, Return, Forget
<1>22. CASE ReleaseContainerMode
  BY <1>22, <1>t, ArsEdits DEF ReleaseContainerMode, Release
<1>23. CASE ReleaseServiceAccount
  BY <1>23, <1>t, ArsEdits DEF ReleaseServiceAccount, Release
<1>24. CASE ReleaseSecret
  BY <1>24, <1>t, ArsEdits DEF ReleaseSecret, Release
<1>25. CASE ReleaseManagerRights
  BY <1>25, <1>t, ArsEdits DEF ReleaseManagerRights, Release
<1>26. CASE NothingToRelease
  BY <1>26, <1>t, ArsEdits DEF NothingToRelease
<1>27. CASE DropFinalizer
  BY <1>27, <1>t, ArsEdits DEF DropFinalizer, Return, Forget
<1>28. CASE CallFails
  BY <1>28, <1>t, ArsEdits DEF CallFails, Return, Forget, Changes
<1>29. CASE ControllerUpgraded
  BY <1>29, <1>t, ArsEdits DEF ControllerUpgraded, Changes
<1>30. CASE EditSpec
  BY <1>30, <1>t, ArsEdits, SpecEdits DEF EditSpec, Changes
<1>31. CASE DeleteArs
  BY <1>31, <1>t, ArsEdits DEF DeleteArs
<1>32. CASE ListenerScales
  BY <1>32, <1>t, ArsEdits DEF ListenerScales, Others
<1>33. CASE ListenerGoes
  BY <1>33, <1>t, ArsEdits DEF ListenerGoes
<1>34. CASE SetScalesUp
  BY <1>34, <1>t, ArsEdits DEF SetScalesUp, Others
<1>35. CASE RunnerIsOutdated
  BY <1>35, <1>t, ArsEdits DEF RunnerIsOutdated, Others, Changes
<1>36. CASE \E i \in Ids : RunnersEnd(i)
  BY <1>36, <1>t, ArsEdits DEF RunnersEnd, Others
<1>37. CASE \E i \in Ids : SetReports(i)
  BY <1>37, <1>t, ArsEdits DEF SetReports, Others
<1>38. CASE \E i \in Ids : SetGoes(i)
  BY <1>38, <1>t, ArsEdits DEF SetGoes, Others
<1> QED
  BY <1>1, <1>2, <1>3, <1>4, <1>5, <1>6, <1>7, <1>8, <1>9, <1>10, <1>11, <1>12, <1>13, <1>14, <1>15,
     <1>16, <1>17, <1>18, <1>19, <1>20, <1>21, <1>22, <1>23, <1>24, <1>25, <1>26, <1>27, <1>28,
     <1>29, <1>30, <1>31, <1>32, <1>33, <1>34, <1>35, <1>36, <1>37, <1>38 DEF Next, Reconcile

(* Every step keeps the types. *)
LEMMA TypeStep ==
  ASSUME TypeOK, StepInv, Next
  PROVE  TypeOK' /\ StepInv'
<1>1. HeldOK' /\ strategy' \in Strategies
  BY HeldTyped, CountersTyped DEF HeldOK, TypeOK
<1> QED
  BY <1>1, ArsTyped, SetsTyped, ListenersTyped, ScaleSetsTyped, CountersTyped, ControlTyped DEF
     TypeOK, HeldOK, ControlOK
-----------------------------------------------------------------------------
(* The object stays as it is, but for fields that no invariant is about. *)
Kept ==
    /\ ars'.exists = ars.exists /\ ars'.del = ars.del /\ ars'.fin = ars.fin
    /\ ars'.ssid = ars.ssid /\ ars'.spec = ars.spec
    /\ ~ars.exists => ars' = ars

(* The object is marked for deletion, or gone when it has no finalizer. *)
Removed ==
    IF ars.fin
    THEN /\ ars'.exists = ars.exists /\ ars'.del /\ ars'.fin
         /\ ars'.ssid = ars.ssid /\ ars'.spec = ars.spec
    ELSE ars' = NoArs

(* A step of the user, a listener, a set or a runner: Reconcile notices     *)
(* nothing.                                                                 *)
Outside ==
    /\ UNCHANGED <<pc, next, l, scaleSets, held, faults>>
    /\ \/ Kept
       \/ /\ ars.exists /\ ~ars.del
          /\ ars'.exists /\ ~ars'.del /\ ars'.fin = ars.fin /\ ars'.ssid = ars.ssid
       \/ ars.exists /\ ~ars.del /\ Removed

(* Reconcile ends, having written nothing that matters, or because a call   *)
(* fails. A new scale set whose id could not be recorded is a fault, or the *)
(* object is gone.                                                          *)
Stops ==
    /\ pc' = "idle" /\ Kept
    /\ UNCHANGED <<scaleSets, held>>
    /\ \/ faults' = faults /\ (pc = "patchScaleSet" => ~ars.exists)
       \/ faults' = faults + 1

(* Reconcile deletes an object of another version of the controller. *)
Removes ==
    /\ pc = "deleteSelf" /\ pc' = "idle"
    /\ IF ars.exists THEN Removed ELSE ars' = ars
    /\ UNCHANGED <<scaleSets, held, faults>>

(* Reconcile starts. *)
Starts ==
    /\ pc = "idle" /\ ars.exists /\ l' = ars
    /\ \/ pc' = "cleanListener" /\ next' = "release" /\ ars.del /\ ars.fin
       \/ pc' \in {"deleteSelf", "addFinalizer"} /\ ~ars.del
       \/ pc' \in Applying \ {"patchScaleSet"} /\ ~ars.del /\ ars.fin
    /\ UNCHANGED <<ars, scaleSets, held, faults>>

(* Reconcile goes on with the update of the object, its sets or its         *)
(* listener.                                                                *)
Goes ==
    /\ pc \in {"addFinalizer", "deleteOld"} \cup (Applying \ {"patchScaleSet", "createScaleSet"})
    /\ \/ pc' \in {"deleteOld"} \cup (Applying \ {"patchScaleSet"})
       \/ pc' = "cleanListener" /\ next' = "idle"
    /\ \/ Kept
       \/ /\ ars.exists /\ ars'.exists /\ ars'.del = ars.del /\ ars'.fin
          /\ ars'.ssid = ars.ssid /\ ars'.spec = ars.spec
    /\ pc = "addFinalizer" => ars.exists /\ ars'.fin
    /\ l'.ssid = ars'.ssid \/ l'.ssid = l.ssid
    /\ \A k \in ScaleSetIds : scaleSets'[k].there = scaleSets[k].there
    /\ UNCHANGED <<held, faults>>

(* The scale set is created, or found in the service. *)
Registers ==
    /\ pc = "createScaleSet" /\ pc' = "patchScaleSet"
    /\ \E k \in ScaleSetIds : \A j \in ScaleSetIds :
          scaleSets'[j].there => j = k \/ scaleSets[j].there
    /\ UNCHANGED <<ars, l, next, held, faults>>

(* The id of the scale set is recorded. *)
Records ==
    /\ pc = "patchScaleSet" /\ pc' = "idle" /\ ars.exists
    /\ ars'.exists /\ ars'.del = ars.del /\ ars'.fin = ars.fin
    /\ ars'.ssid \in ScaleSetIds /\ scaleSets[ars'.ssid].there
    /\ UNCHANGED <<scaleSets, held, faults>>

(* The listener and then the sets are deleted, each after the last is gone. *)
Cleans ==
    /\ \/ pc = "cleanListener" /\ pc' = "cleanSets" /\ listeners[ListenerName(l.spec)].st = "none"
       \/ pc \in {"cleanSets", "deleteAll"} /\ pc' = "deleteAll"
       \/ /\ pc = "cleanSets" /\ Existing(sets) = {}
          /\ \/ l.ssid # 0 /\ pc' = "deleteScaleSet"
             \/ l.ssid = 0 /\ next = "release" /\ pc' = "release"
    /\ UNCHANGED <<ars, l, next, scaleSets, held, faults>>

(* The scale set is deleted from the service. *)
Unregisters ==
    /\ pc = "deleteScaleSet" /\ pc' = "dropId"
    /\ \A k \in ScaleSetIds : scaleSets'[k].there => scaleSets[k].there /\ k # l.ssid
    /\ UNCHANGED <<ars, l, next, held, faults>>

(* Its id is dropped from the object. *)
Drops ==
    /\ pc = "dropId" /\ ars.exists
    /\ ars'.exists /\ ars'.del = ars.del /\ ars'.fin = ars.fin /\ ars'.spec = ars.spec
    /\ ars'.ssid = 0
    /\ \/ pc' = "idle"
       \/ pc' = "release" /\ next = "release" /\ next' = next /\ l' = ars'
    /\ UNCHANGED <<scaleSets, held, faults>>

(* What is kept for the object is released, one after the other. *)
Releases ==
    /\ pc = "release"
    /\ pc' = "release" \/ (pc' = "dropFinalizer" /\ held' = <<>>)
    /\ UNCHANGED <<ars, l, next, scaleSets, faults>>

(* The finalizer goes, and the object with it. *)
Finishes ==
    /\ pc = "dropFinalizer" /\ pc' = "idle"
    /\ ars' = NoArs
    /\ UNCHANGED <<scaleSets, held, faults>>

(* Every step is one of these, action by action. *)
LEMMA Moves ==
  ASSUME TypeOK, StepInv, Next
  PROVE  \/ Outside \/ Stops \/ Removes \/ Starts \/ Goes \/ Registers \/ Records \/ Cleans
         \/ Unregisters \/ Drops \/ Releases \/ Finishes
<1> USE DEF objVars, envVars, localVars, ctrlVars
<1>t. ars \in ArsRec /\ l \in ArsRec
  BY DEF TypeOK
<1>s. scaleSets \in [ScaleSetIds -> ScaleSetRec]
  BY DEF TypeOK
<1>1. ASSUME StartReconcile
      PROVE  Stops \/ Starts
  BY <1>1, <1>t, StepsOfReconcile DEF StartReconcile, Stops, Starts, Kept, Ready, Applying
<1>2. ASSUME AddFinalizer
      PROVE  Stops \/ Goes
  <2> DEFINE new == [ars EXCEPT !.fin = TRUE]
  <2>1. new \in ArsRec
    BY <1>t, ArsEdits
  <2>2. Ready(HashStep(new), new)
    BY <2>1, StepsOfReconcile
  <2>3. /\ new.exists = ars.exists /\ new.del = ars.del /\ new.ssid = ars.ssid /\ new.spec = ars.spec
        /\ new.fin = TRUE
    BY <1>t DEF ArsRec
  <2> HIDE DEF new
  <2>4. Patch(new, HashStep(new)) /\ UNCHANGED <<scaleSets, held>>
    BY <1>2 DEF AddFinalizer, new
  <2>5. pc = "addFinalizer"
    BY <1>2 DEF AddFinalizer
  <2> QED
    BY <2>2, <2>3, <2>4, <2>5 DEF Patch, Return, Forget, Ready, Stops, Goes, Kept, Applying
<1>3. ASSUME PatchHash
      PROVE  Stops \/ Goes
  <2> DEFINE new == [ars EXCEPT !.hash = Hash(l)]
  <2>1. new \in ArsRec
    BY <1>t, ArsEdits
  <2>2. Ready(ScaleSetStep(new), new)
    BY <2>1, StepsOfReconcile
  <2>3. /\ new.exists = ars.exists /\ new.del = ars.del /\ new.ssid = ars.ssid /\ new.spec = ars.spec
        /\ new.fin = ars.fin
    BY <1>t DEF ArsRec
  <2> HIDE DEF new
  <2>4. /\ Patch(new, IF new.phase # "Pending" THEN "setPending" ELSE ScaleSetStep(new))
        /\ UNCHANGED <<scaleSets, held>>
    BY <1>3 DEF PatchHash, new
  <2>5. pc = "patchHash"
    BY <1>3 DEF PatchHash
  <2> QED
    BY <2>2, <2>3, <2>4, <2>5 DEF Patch, Return, Forget, Ready, Stops, Goes, Kept, Applying
<1>4. ASSUME SetPending
      PROVE  Stops \/ Goes
  <2> DEFINE new == [ars EXCEPT !.phase = "Pending"]
  <2>1. new \in ArsRec
    BY <1>t, ArsEdits
  <2>2. Ready(ScaleSetStep(new), new)
    BY <2>1, StepsOfReconcile
  <2>3. /\ new.exists = ars.exists /\ new.del = ars.del /\ new.ssid = ars.ssid /\ new.spec = ars.spec
        /\ new.fin = ars.fin
    BY <1>t DEF ArsRec
  <2> HIDE DEF new
  <2>4. Patch(new, ScaleSetStep(new)) /\ UNCHANGED <<scaleSets, held>>
    BY <1>4 DEF SetPending, new
  <2>5. pc = "setPending"
    BY <1>4 DEF SetPending
  <2> QED
    BY <2>2, <2>3, <2>4, <2>5 DEF Patch, Return, Forget, Ready, Stops, Goes, Kept, Applying
<1>5. ASSUME DeleteSelf
      PROVE  Removes
  BY <1>5, <1>t DEF DeleteSelf, Return, Forget, Removes, Kept, Removed, Marked, ArsRec
<1>6. ASSUME CreateRunnerScaleSet
      PROVE  Registers
  <2>1. Unused \subseteq ScaleSetIds
    BY DEF Unused
  <2>2. scaleSets' = scaleSets \/ \E k \in ScaleSetIds, r \in ScaleSetRec : scaleSets' = [scaleSets EXCEPT ![k] = r]
    <3>1. [there |-> TRUE, group |-> l.spec.group, name |-> l.spec.name] \in ScaleSetRec
      BY <1>t DEF ArsRec, Specs, ScaleSetRec
    <3> QED
      BY <1>6, <2>1, <3>1, UnusedExists DEF CreateRunnerScaleSet
  <2>3. \E k \in ScaleSetIds : \A j \in ScaleSetIds :
          scaleSets'[j].there => j = k \/ scaleSets[j].there
    BY <1>s, <2>2 DEF ScaleSetIds
  <2>4. pc = "createScaleSet" /\ Service("patchScaleSet")
    BY <1>6 DEF CreateRunnerScaleSet
  <2> QED
    BY <2>3, <2>4 DEF Service, Registers
<1>7. ASSUME PatchScaleSet
      PROVE  Stops \/ Records
  <2>1. PICK k \in Matching(l.spec) :
           Patch([ars EXCEPT !.ssid = k, !.inGroup = scaleSets[k].group,
                             !.called = scaleSets[k].name, !.labels = "url"], "idle")
    BY <1>7 DEF PatchScaleSet
  <2> DEFINE new == [ars EXCEPT !.ssid = k, !.inGroup = scaleSets[k].group,
                                !.called = scaleSets[k].name, !.labels = "url"]
  <2>2. k \in ScaleSetIds /\ scaleSets[k].there
    BY DEF Matching
  <2>3. new.exists = ars.exists /\ new.del = ars.del /\ new.fin = ars.fin /\ new.ssid = k
    BY <1>t DEF ArsRec
  <2> HIDE DEF new
  <2>4. Patch(new, "idle") /\ pc = "patchScaleSet" /\ UNCHANGED <<scaleSets, held>>
    BY <1>7, <2>1 DEF PatchScaleSet, new
  <2> QED
    BY <2>2, <2>3, <2>4 DEF Patch, Return, Forget, Stops, Records, Kept
<1>8. ASSUME UpdateRunnerScaleSet
      PROVE  Stops \/ Goes
  BY <1>8, <1>t, StepsOfReconcile, <1>s, UnusedExists DEF UpdateRunnerScaleSet, Service, Return,
     Forget, Stops, Goes, Kept, Ready, Applying, Unused, ScaleSetRec, NoScaleSet, TypeOK
<1>9. ASSUME PatchUpdated
      PROVE  Stops
  BY <1>9, <1>t DEF PatchUpdated, Patch, Return, Forget, Stops, Kept, ArsRec
<1>10. ASSUME List
       PROVE  Stops \/ Goes
  BY <1>10, <1>t, StepsOfReconcile, ListSteps DEF List, Return, Forget, Stops, Goes, Kept, Ready,
     Applying
<1>11. ASSUME CreateEphemeralRunnerSet
       PROVE  Stops
  BY <1>11, <1>t DEF CreateEphemeralRunnerSet, Call, Return, Forget, Stops, Kept
<1>12. ASSUME DrainSet
       PROVE  Stops
  BY <1>12, <1>t DEF DrainSet, Call, Return, Forget, Stops, Kept
<1>13. ASSUME DeleteSets
       PROVE  Stops \/ Goes \/ Cleans
  BY <1>13, <1>t, StepsOfReconcile DEF DeleteSets, Call, Return, Forget, Stops, Goes, Cleans, Kept,
     Ready, Applying, StepInv, Cleaning
<1>14. ASSUME DeleteListener
       PROVE  Stops
  BY <1>14, <1>t DEF DeleteListener, Call, Return, Forget, Stops, Kept
<1>15. ASSUME CreateListener
       PROVE  Stops
  BY <1>15, <1>t DEF CreateListener, Call, Return, Forget, Stops, Kept
<1>16. ASSUME SetRunning
       PROVE  Stops
  BY <1>16, <1>t DEF SetRunning, Patch, Return, Forget, Stops, Kept, ArsRec
<1>17. ASSUME SetOutdated
       PROVE  Stops \/ Goes
  <2> DEFINE new == [ars EXCEPT !.phase = "Outdated"]
  <2>1. /\ new.exists = ars.exists /\ new.del = ars.del /\ new.ssid = ars.ssid /\ new.spec = ars.spec
        /\ new.fin = ars.fin
    BY <1>t DEF ArsRec
  <2> HIDE DEF new
  <2>2. Patch(new, "cleanListener") /\ pc = "setOutdated" /\ UNCHANGED <<scaleSets, held>>
    BY <1>17 DEF SetOutdated, new
  <2>3. next = "idle"
    BY <2>2 DEF StepInv
  <2> QED
    BY <2>1, <2>2, <2>3 DEF Patch, Return, Forget, Stops, Goes, Kept, Applying
<1>18. ASSUME ListenerIsCleanedUp
       PROVE  Stops \/ Cleans
  BY <1>18, <1>t DEF ListenerIsCleanedUp, Call, Return, Forget, Stops, Cleans, Kept
<1>19. ASSUME CleanupEphemeralRunnerSets
       PROVE  Stops \/ Cleans
  BY <1>19, <1>t DEF CleanupEphemeralRunnerSets, Call, Return, Forget, AfterSets, Stops, Cleans, Kept,
     StepInv, Cleaning
<1>20. ASSUME DeleteRunnerScaleSet
       PROVE  Unregisters
  BY <1>20, <1>t, <1>s, UnusedExists DEF DeleteRunnerScaleSet, Service, Return, Forget, Unregisters,
     Unused, ScaleSetRec, NoScaleSet, TypeOK
<1>21. ASSUME DropScaleSetId
       PROVE  Stops \/ Drops
  BY <1>21, <1>t DEF DropScaleSetId, Patch, Return, Forget, Stops, Drops, Kept, ArsRec, StepInv,
     Cleaning
<1>22. ASSUME ReleaseContainerMode
       PROVE  Releases
  BY <1>22, <1>t DEF ReleaseContainerMode, Release, Releases
<1>23. ASSUME ReleaseServiceAccount
       PROVE  Releases
  BY <1>23, <1>t DEF ReleaseServiceAccount, Release, Releases
<1>24. ASSUME ReleaseSecret
       PROVE  Releases
  BY <1>24, <1>t DEF ReleaseSecret, Release, Releases
<1>25. ASSUME ReleaseManagerRights
       PROVE  Releases
  BY <1>25, <1>t DEF ReleaseManagerRights, Release, Releases
<1>26. ASSUME NothingToRelease
       PROVE  Releases
  BY <1>26, <1>t DEF NothingToRelease, Releases
<1>27. ASSUME DropFinalizer
       PROVE  Finishes
  BY <1>27, <1>t DEF DropFinalizer, Return, Forget, Finishes, ArsRec
<1>28. ASSUME CallFails
       PROVE  Stops
  BY <1>28, <1>t DEF CallFails, Return, Forget, Changes, Stops, Kept
<1>29. ASSUME ControllerUpgraded
       PROVE  Outside
  BY <1>29, <1>t DEF ControllerUpgraded, Changes, Outside, Kept
<1>30. ASSUME EditSpec
       PROVE  Outside
  BY <1>30, <1>t DEF EditSpec, Changes, Outside, Kept, ArsRec
<1>31. ASSUME DeleteArs
       PROVE  Outside
  BY <1>31, <1>t DEF DeleteArs, Outside, Kept, Removed, Marked, ArsRec
<1>32. ASSUME ListenerScales
       PROVE  Outside
  BY <1>32, <1>t DEF ListenerScales, Others, Outside, Kept
<1>33. ASSUME ListenerGoes
       PROVE  Outside
  BY <1>33, <1>t DEF ListenerGoes, Outside, Kept
<1>34. ASSUME SetScalesUp
       PROVE  Outside
  BY <1>34, <1>t DEF SetScalesUp, Others, Outside, Kept
<1>35. ASSUME RunnerIsOutdated
       PROVE  Outside
  BY <1>35, <1>t DEF RunnerIsOutdated, Others, Changes, Outside, Kept
<1>36. ASSUME \E i \in Ids : RunnersEnd(i)
       PROVE  Outside
  BY <1>36, <1>t DEF RunnersEnd, Others, Outside, Kept
<1>37. ASSUME \E i \in Ids : SetReports(i)
       PROVE  Outside
  BY <1>37, <1>t DEF SetReports, Others, Outside, Kept
<1>38. ASSUME \E i \in Ids : SetGoes(i)
       PROVE  Outside
  BY <1>38, <1>t DEF SetGoes, Others, Outside, Kept
<1> QED
  BY <1>1, <1>2, <1>3, <1>4, <1>5, <1>6, <1>7, <1>8, <1>9, <1>10, <1>11, <1>12, <1>13, <1>14, <1>15,
     <1>16, <1>17, <1>18, <1>19, <1>20, <1>21, <1>22, <1>23, <1>24, <1>25, <1>26, <1>27, <1>28,
     <1>29, <1>30, <1>31, <1>32, <1>33, <1>34, <1>35, <1>36, <1>37, <1>38 DEF Next, Reconcile

(* Sets come only from Reconcile, and runners only from sets. *)
LEMMA SetsFrame ==
  ASSUME TypeOK, live \subseteq Existing(sets), Next
  PROVE  /\ live' \subseteq Existing(sets')
         /\ Existing(sets') \subseteq Existing(sets) \/ pc \in {"createSet", "deleteOld", "deleteAll"}
<1>t. sets \in [Ids -> SetRec] /\ todo \subseteq Ids /\ live \subseteq Ids
  BY DEF TypeOK
<1>l. CASE UNCHANGED live
  <2>1. CASE UNCHANGED sets
    BY <1>l, <2>1
  <2>2. CASE CreateEphemeralRunnerSet
    BY <1>l, <1>t, <2>2 DEF CreateEphemeralRunnerSet, Existing, NewSet, NoSet
  <2>3. CASE DrainSet
    <3>1. latest \in Ids
      BY <2>3 DEF DrainSet, TypeOK
    <3> QED
      BY <1>l, <1>t, <2>3, <3>1 DEF DrainSet, Existing, SetRec
  <2>4. CASE DeleteSets
    BY <1>l, <1>t, <2>4 DEF DeleteSets, Existing, SetRec
  <2>5. CASE ListenerScales
    BY <1>l, <1>t, <2>5 DEF ListenerScales, Others, Existing, SetRec
  <2>6. CASE SetScalesUp
    BY <1>l, <1>t, <2>6 DEF SetScalesUp, Others, Existing
  <2>7. CASE RunnerIsOutdated
    BY <1>l, <1>t, <2>7 DEF RunnerIsOutdated, Others, Existing, SetRec
  <2>8. CASE \E i \in Ids : RunnersEnd(i)
    BY <1>l, <1>t, <2>8 DEF RunnersEnd, Others, Existing
  <2>9. CASE \E i \in Ids : SetReports(i)
    BY <1>l, <1>t, <2>9 DEF SetReports, Others, Existing, SetRec
  <2>10. CASE \E i \in Ids : SetGoes(i)
    BY <1>l, <1>t, <2>10 DEF SetGoes, Others, Existing, GoneSet, NoSet
  <2> QED
    BY <2>1, <2>2, <2>3, <2>4, <2>5, <2>6, <2>7, <2>8, <2>9, <2>10, WritersOfSets
<1>1. CASE SetScalesUp
  BY <1>t, <1>1 DEF SetScalesUp, Others, Existing
<1>2. CASE RunnerIsOutdated
  BY <1>t, <1>2 DEF RunnerIsOutdated, Others, Existing, SetRec
<1>3. CASE \E i \in Ids : RunnersEnd(i)
  BY <1>t, <1>3 DEF RunnersEnd, Others, Existing
<1> QED
  BY <1>l, <1>1, <1>2, <1>3, WritersOfLive

(* A listener comes only from Reconcile. *)
LEMMA ListenersFrame ==
  ASSUME TypeOK, Next, NEW g \in Bit, listeners[g].st = "none"
  PROVE  listeners'[g].st = "none" \/ pc = "createListener"
<1>t. listeners \in [Bit -> ListenerRec] /\ l.spec.group \in Bit
  BY DEF TypeOK, ArsRec, Specs
<1>1. CASE DeleteListener
  BY <1>1, <1>t DEF DeleteListener, ListenerName, ListenerRec
<1>2. CASE CreateListener
  BY <1>2 DEF CreateListener
<1>3. CASE ListenerGoes
  BY <1>3, <1>t DEF ListenerGoes, NoListener
<1> QED
  BY <1>1, <1>2, <1>3, WritersOfListeners

(* Every kind of step keeps ObjectInv. *)
LEMMA ObjectStep ==
  ASSUME IInv, Next
  PROVE  ObjectInv'
<1>i. TypeOK /\ StepInv /\ ObjectInv /\ TeardownInv /\ HeldInv /\ LeakInv
  BY DEF IInv
<1>n. TypeOK' /\ StepInv'
  BY <1>i, TypeStep
<1>e. /\ live' \subseteq Existing(sets')
      /\ Existing(sets') \subseteq Existing(sets) \/ pc \in {"createSet", "deleteOld", "deleteAll"}
  BY <1>i, SetsFrame DEF ObjectInv
<1>g. \A g \in Bit : listeners[g].st = "none" => listeners'[g].st = "none" \/ pc = "createListener"
  BY <1>i, ListenersFrame
<1>1. CASE Outside
  BY <1>1, <1>i, <1>n, <1>e, <1>g DEF Outside, Kept, Removed, StepInv, ObjectInv, TeardownInv, Early,
     Applying, Cleaning, Releasing, NoArs, NewArs
<1>2. CASE Stops
  BY <1>2, <1>i, <1>n, <1>e, <1>g DEF Stops, Kept, Removed, StepInv, ObjectInv, TeardownInv, Early,
     Applying, Cleaning, Releasing, NoArs, NewArs
<1>3. CASE Removes
  BY <1>3, <1>i, <1>n, <1>e, <1>g DEF Removes, Kept, Removed, StepInv, ObjectInv, TeardownInv, Early,
     Applying, Cleaning, Releasing, NoArs, NewArs
<1>4. CASE Starts
  BY <1>4, <1>i, <1>n, <1>e, <1>g DEF Starts, Kept, Removed, StepInv, ObjectInv, TeardownInv, Early,
     Applying, Cleaning, Releasing, NoArs, NewArs
<1>5. CASE Goes
  BY <1>5, <1>i, <1>n, <1>e, <1>g DEF Goes, Kept, Removed, StepInv, ObjectInv, TeardownInv, Early,
     Applying, Cleaning, Releasing, NoArs, NewArs
<1>6. CASE Registers
  BY <1>6, <1>i, <1>n, <1>e, <1>g DEF Registers, Kept, Removed, StepInv, ObjectInv, TeardownInv,
     Early, Applying, Cleaning, Releasing, NoArs, NewArs
<1>7. CASE Records
  BY <1>7, <1>i, <1>n, <1>e, <1>g DEF Records, Kept, Removed, StepInv, ObjectInv, TeardownInv, Early,
     Applying, Cleaning, Releasing, NoArs, NewArs
<1>8. CASE Cleans
  BY <1>8, <1>i, <1>n, <1>e, <1>g DEF Cleans, Kept, Removed, StepInv, ObjectInv, TeardownInv, Early,
     Applying, Cleaning, Releasing, NoArs, NewArs
<1>9. CASE Unregisters
  BY <1>9, <1>i, <1>n, <1>e, <1>g DEF Unregisters, Kept, Removed, StepInv, ObjectInv, TeardownInv,
     Early, Applying, Cleaning, Releasing, NoArs, NewArs
<1>10. CASE Drops
  BY <1>10, <1>i, <1>n, <1>e, <1>g DEF Drops, Kept, Removed, StepInv, ObjectInv, TeardownInv, Early,
     Applying, Cleaning, Releasing, NoArs, NewArs
<1>11. CASE Releases
  BY <1>11, <1>i, <1>n, <1>e, <1>g DEF Releases, Kept, Removed, StepInv, ObjectInv, TeardownInv,
     Early, Applying, Cleaning, Releasing, NoArs, NewArs
<1>12. CASE Finishes
  BY <1>12, <1>i, <1>n, <1>e, <1>g DEF Finishes, Kept, Removed, StepInv, ObjectInv, TeardownInv,
     Early, Applying, Cleaning, Releasing, NoArs, NewArs
<1> QED
  BY <1>i, Moves, <1>1, <1>2, <1>3, <1>4, <1>5, <1>6, <1>7, <1>8, <1>9, <1>10, <1>11, <1>12

(* Every kind of step keeps TeardownInv. *)
LEMMA TeardownStep ==
  ASSUME IInv, Next
  PROVE  TeardownInv'
<1>i. TypeOK /\ StepInv /\ ObjectInv /\ TeardownInv /\ HeldInv /\ LeakInv
  BY DEF IInv
<1>n. TypeOK' /\ StepInv'
  BY <1>i, TypeStep
<1>e. /\ live' \subseteq Existing(sets')
      /\ Existing(sets') \subseteq Existing(sets) \/ pc \in {"createSet", "deleteOld", "deleteAll"}
  BY <1>i, SetsFrame DEF ObjectInv
<1>g. \A g \in Bit : listeners[g].st = "none" => listeners'[g].st = "none" \/ pc = "createListener"
  BY <1>i, ListenersFrame
<1>b. ars.spec.group \in Bit
  BY <1>i DEF TypeOK, ArsRec, Specs
<1>1. CASE Outside
  BY <1>1, <1>i, <1>n, <1>e, <1>g, <1>b DEF Outside, Kept, Removed, StepInv, ObjectInv, TeardownInv,
     Finishing, Early, Applying, Cleaning, Releasing, NoArs, NewArs, ListenerName
<1>2. CASE Stops
  BY <1>2, <1>i, <1>n, <1>e, <1>g, <1>b DEF Stops, Kept, Removed, StepInv, ObjectInv, TeardownInv,
     Finishing, Early, Applying, Cleaning, Releasing, NoArs, NewArs, ListenerName
<1>3. CASE Removes
  BY <1>3, <1>i, <1>n, <1>e, <1>g, <1>b DEF Removes, Kept, Removed, StepInv, ObjectInv, TeardownInv,
     Finishing, Early, Applying, Cleaning, Releasing, NoArs, NewArs, ListenerName
<1>4. CASE Starts
  BY <1>4, <1>i, <1>n, <1>e, <1>g, <1>b DEF Starts, Kept, Removed, StepInv, ObjectInv, TeardownInv,
     Finishing, Early, Applying, Cleaning, Releasing, NoArs, NewArs, ListenerName
<1>5. CASE Goes
  BY <1>5, <1>i, <1>n, <1>e, <1>g, <1>b DEF Goes, Kept, Removed, StepInv, ObjectInv, TeardownInv,
     Finishing, Early, Applying, Cleaning, Releasing, NoArs, NewArs, ListenerName
<1>6. CASE Registers
  BY <1>6, <1>i, <1>n, <1>e, <1>g, <1>b DEF Registers, Kept, Removed, StepInv, ObjectInv, TeardownInv,
     Finishing, Early, Applying, Cleaning, Releasing, NoArs, NewArs, ListenerName
<1>7. CASE Records
  BY <1>7, <1>i, <1>n, <1>e, <1>g, <1>b DEF Records, Kept, Removed, StepInv, ObjectInv, TeardownInv,
     Finishing, Early, Applying, Cleaning, Releasing, NoArs, NewArs, ListenerName
<1>8. CASE Cleans
  BY <1>8, <1>i, <1>n, <1>e, <1>g, <1>b DEF Cleans, Kept, Removed, StepInv, ObjectInv, TeardownInv,
     Finishing, Early, Applying, Cleaning, Releasing, NoArs, NewArs, ListenerName
<1>9. CASE Unregisters
  BY <1>9, <1>i, <1>n, <1>e, <1>g, <1>b DEF Unregisters, Kept, Removed, StepInv, ObjectInv,
     TeardownInv, Finishing, Early, Applying, Cleaning, Releasing, NoArs, NewArs, ListenerName
<1>10. CASE Drops
  BY <1>10, <1>i, <1>n, <1>e, <1>g, <1>b DEF Drops, Kept, Removed, StepInv, ObjectInv, TeardownInv,
     Finishing, Early, Applying, Cleaning, Releasing, NoArs, NewArs, ListenerName
<1>11. CASE Releases
  BY <1>11, <1>i, <1>n, <1>e, <1>g, <1>b DEF Releases, Kept, Removed, StepInv, ObjectInv, TeardownInv,
     Finishing, Early, Applying, Cleaning, Releasing, NoArs, NewArs, ListenerName
<1>12. CASE Finishes
  BY <1>12, <1>i, <1>n, <1>e, <1>g, <1>b DEF Finishes, Kept, Removed, StepInv, ObjectInv, TeardownInv,
     Finishing, Early, Applying, Cleaning, Releasing, NoArs, NewArs, ListenerName
<1> QED
  BY <1>i, Moves, <1>1, <1>2, <1>3, <1>4, <1>5, <1>6, <1>7, <1>8, <1>9, <1>10, <1>11, <1>12

(* Every kind of step keeps HeldInv. *)
LEMMA HeldStep ==
  ASSUME IInv, Next
  PROVE  HeldInv'
<1>i. TypeOK /\ StepInv /\ ObjectInv /\ TeardownInv /\ HeldInv /\ LeakInv
  BY DEF IInv
<1>n. TypeOK' /\ StepInv'
  BY <1>i, TypeStep
<1>1. CASE Outside
  BY <1>1, <1>i, <1>n DEF Outside, Kept, Removed, StepInv, ObjectInv, TeardownInv, HeldInv, Finishing,
     Early, Applying, Cleaning, Releasing, NoArs, NewArs
<1>2. CASE Stops
  BY <1>2, <1>i, <1>n DEF Stops, Kept, Removed, StepInv, ObjectInv, TeardownInv, HeldInv, Finishing,
     Early, Applying, Cleaning, Releasing, NoArs, NewArs
<1>3. CASE Removes
  BY <1>3, <1>i, <1>n DEF Removes, Kept, Removed, StepInv, ObjectInv, TeardownInv, HeldInv, Finishing,
     Early, Applying, Cleaning, Releasing, NoArs, NewArs
<1>4. CASE Starts
  BY <1>4, <1>i, <1>n DEF Starts, Kept, Removed, StepInv, ObjectInv, TeardownInv, HeldInv, Finishing,
     Early, Applying, Cleaning, Releasing, NoArs, NewArs
<1>5. CASE Goes
  BY <1>5, <1>i, <1>n DEF Goes, Kept, Removed, StepInv, ObjectInv, TeardownInv, HeldInv, Finishing,
     Early, Applying, Cleaning, Releasing, NoArs, NewArs
<1>6. CASE Registers
  BY <1>6, <1>i, <1>n DEF Registers, Kept, Removed, StepInv, ObjectInv, TeardownInv, HeldInv,
     Finishing, Early, Applying, Cleaning, Releasing, NoArs, NewArs
<1>7. CASE Records
  BY <1>7, <1>i, <1>n DEF Records, Kept, Removed, StepInv, ObjectInv, TeardownInv, HeldInv, Finishing,
     Early, Applying, Cleaning, Releasing, NoArs, NewArs
<1>8. CASE Cleans
  BY <1>8, <1>i, <1>n DEF Cleans, Kept, Removed, StepInv, ObjectInv, TeardownInv, HeldInv, Finishing,
     Early, Applying, Cleaning, Releasing, NoArs, NewArs
<1>9. CASE Unregisters
  BY <1>9, <1>i, <1>n DEF Unregisters, Kept, Removed, StepInv, ObjectInv, TeardownInv, HeldInv,
     Finishing, Early, Applying, Cleaning, Releasing, NoArs, NewArs
<1>10. CASE Drops
  BY <1>10, <1>i, <1>n DEF Drops, Kept, Removed, StepInv, ObjectInv, TeardownInv, HeldInv, Finishing,
     Early, Applying, Cleaning, Releasing, NoArs, NewArs
<1>11. CASE Releases
  BY <1>11, <1>i, <1>n DEF Releases, Kept, Removed, StepInv, ObjectInv, TeardownInv, HeldInv,
     Finishing, Early, Applying, Cleaning, Releasing, NoArs, NewArs
<1>12. CASE Finishes
  BY <1>12, <1>i, <1>n DEF Finishes, Kept, Removed, StepInv, ObjectInv, TeardownInv, HeldInv,
     Finishing, Early, Applying, Cleaning, Releasing, NoArs, NewArs
<1> QED
  BY <1>i, Moves, <1>1, <1>2, <1>3, <1>4, <1>5, <1>6, <1>7, <1>8, <1>9, <1>10, <1>11, <1>12

(* Every kind of step keeps LeakInv. *)
LEMMA LeakStep ==
  ASSUME IInv, Next
  PROVE  LeakInv'
<1>i. TypeOK /\ StepInv /\ ObjectInv /\ TeardownInv /\ HeldInv /\ LeakInv
  BY DEF IInv
<1>f. faults \in Nat /\ (faults' = 0 => faults = 0)
  <2>1. faults \in Nat
    BY <1>i DEF TypeOK
  <2> QED
    BY <1>i, <2>1, Moves DEF Outside, Stops, Removes, Starts, Goes, Registers, Records, Cleans,
       Unregisters, Drops, Releases, Finishes
<1>1. CASE Outside
  BY <1>1, <1>i, <1>f DEF Outside, Kept, Removed, StepInv, ObjectInv, TeardownInv, LeakInv, Early,
     Applying, Cleaning, Releasing, NoArs, NewArs, ScaleSetIds
<1>2. CASE Stops
  <2>1. pc = "patchScaleSet" => ars.exists
    BY <1>i DEF ObjectInv, Early
  <2>2. faults' = 0 => faults' = faults /\ pc # "patchScaleSet"
    BY <1>2, <1>f, <2>1 DEF Stops
  <2>3. pc' = "idle" /\ ars'.ssid = ars.ssid /\ UNCHANGED scaleSets
    BY <1>2 DEF Stops, Kept
  <2> QED
    BY <1>i, <2>2, <2>3 DEF LeakInv
<1>3. CASE Removes
  <2>1. pc = "deleteSelf" /\ pc' = "idle" /\ UNCHANGED <<scaleSets, faults>>
    BY <1>3 DEF Removes
  <2>2. ars'.ssid = ars.ssid
    BY <1>3, <1>i DEF Removes, Removed, ObjectInv, NoArs, NewArs
  <2> QED
    BY <1>i, <2>1, <2>2 DEF LeakInv
<1>4. CASE Starts
  BY <1>4, <1>i, <1>f DEF Starts, Kept, Removed, StepInv, ObjectInv, TeardownInv, LeakInv, Early,
     Applying, Cleaning, Releasing, NoArs, NewArs, ScaleSetIds
<1>5. CASE Goes
  <2>1. ars'.ssid = ars.ssid /\ UNCHANGED faults
    BY <1>5 DEF Goes, Kept
  <2>2. pc # "patchScaleSet" /\ pc' # "patchScaleSet" /\ pc' # "dropId"
    BY <1>5 DEF Goes, Applying
  <2>3. \A k \in ScaleSetIds : scaleSets'[k].there = scaleSets[k].there
    BY <1>5 DEF Goes
  <2> QED
    BY <1>i, <2>1, <2>2, <2>3 DEF LeakInv
<1>6. CASE Registers
  BY <1>6, <1>i, <1>f DEF Registers, Kept, Removed, StepInv, ObjectInv, TeardownInv, LeakInv, Early,
     Applying, Cleaning, Releasing, NoArs, NewArs, ScaleSetIds
<1>7. CASE Records
  BY <1>7, <1>i, <1>f DEF Records, Kept, Removed, StepInv, ObjectInv, TeardownInv, LeakInv, Early,
     Applying, Cleaning, Releasing, NoArs, NewArs, ScaleSetIds
<1>8. CASE Cleans
  BY <1>8, <1>i, <1>f DEF Cleans, Kept, Removed, StepInv, ObjectInv, TeardownInv, LeakInv, Early,
     Applying, Cleaning, Releasing, NoArs, NewArs, ScaleSetIds
<1>9. CASE Unregisters
  BY <1>9, <1>i, <1>f DEF Unregisters, Kept, Removed, StepInv, ObjectInv, TeardownInv, LeakInv, Early,
     Applying, Cleaning, Releasing, NoArs, NewArs, ScaleSetIds
<1>10. CASE Drops
  BY <1>10, <1>i, <1>f DEF Drops, Kept, Removed, StepInv, ObjectInv, TeardownInv, LeakInv, Early,
     Applying, Cleaning, Releasing, NoArs, NewArs, ScaleSetIds
<1>11. CASE Releases
  BY <1>11, <1>i, <1>f DEF Releases, Kept, Removed, StepInv, ObjectInv, TeardownInv, LeakInv, Early,
     Applying, Cleaning, Releasing, NoArs, NewArs, ScaleSetIds
<1>12. CASE Finishes
  BY <1>12, <1>i, <1>f DEF Finishes, Kept, Removed, StepInv, ObjectInv, TeardownInv, LeakInv, Early,
     Applying, Cleaning, Releasing, NoArs, NewArs, ScaleSetIds
<1> QED
  BY <1>i, Moves, <1>1, <1>2, <1>3, <1>4, <1>5, <1>6, <1>7, <1>8, <1>9, <1>10, <1>11, <1>12

(* Theorem: the invariant is inductive. An AutoscalingRunnerSet is          *)
(* finalized before it has anything that must be cleaned up, and its        *)
(* teardown goes in one order over any number of Reconciles.                *)
THEOREM AutoscalingRunnerSetInvariant == Spec => []IInv
<1>1. Init => IInv
  <2> SUFFICES ASSUME Init
               PROVE  IInv
    OBVIOUS
  <2>1. NewArs \in ArsRec /\ NoArs \in ArsRec
    BY ArsEdits
  <2>2. sets \in [Ids -> SetRec] /\ Existing(sets) = {}
    <3>1. NoSet \in SetRec
      BY DEF NoSet, SetRec, Bit
    <3>2. NoSet.st = "none"
      BY DEF NoSet
    <3> QED
      BY <3>1, <3>2 DEF Init, Existing
  <2>3. listeners \in [Bit -> ListenerRec] /\ \A g \in Bit : listeners[g].st = "none"
    <3>1. 0 \in 0..MaxSets /\ SpecAtFirst \in Specs
      BY RunnerSetAssumption DEF SpecAtFirst, Specs, Bit
    <3>2. NoListener \in ListenerRec /\ NoListener.st = "none"
      BY <3>1 DEF NoListener, ListenerRec
    <3> QED
      BY <3>2 DEF Init
  <2>4. scaleSets \in [ScaleSetIds -> ScaleSetRec] /\ \A k \in ScaleSetIds : ~scaleSets[k].there
    <3>1. NoScaleSet \in ScaleSetRec /\ ~NoScaleSet.there
      BY DEF NoScaleSet, ScaleSetRec, Bit
    <3> QED
      BY <3>1 DEF Init
  <2>5. HeldOK
    <3>1. Len(Dependents) + 1 = 8 /\ 1 \in 1..8
      BY HeldTails
    <3> QED
      BY <3>1, HeldTails DEF Init, HeldOK
  <2>6. /\ edits \in 0..MaxChanges /\ faults \in 0..MaxFaults /\ trouble \in 0..MaxTrouble
        /\ latest \in 0..MaxSets
    BY RunnerSetAssumption DEF Init
  <2>7. pc = "idle" /\ next = "idle" /\ ars = NewArs /\ l = NoArs /\ live = {} /\ todo = {}
        /\ strategy \in Strategies /\ held = Dependents
    BY DEF Init
  <2>8. TypeOK
    BY <2>1, <2>2, <2>3, <2>4, <2>5, <2>6, <2>7 DEF TypeOK, HeldOK
  <2>9. StepInv
    BY <2>7 DEF StepInv, Steps, Early, Cleaning
  <2>10. ObjectInv
    BY <2>2, <2>3, <2>7 DEF ObjectInv, NewArs, Early
  <2>11. TeardownInv /\ HeldInv
    BY <2>7 DEF TeardownInv, HeldInv, Finishing, Releasing, Cleaning
  <2>12. LeakInv
    BY <2>4, <2>7 DEF LeakInv
  <2> QED
    BY <2>8, <2>9, <2>10, <2>11, <2>12 DEF IInv
<1>2. IInv /\ [Next]_vars => IInv'
  <2>1. CASE Next
    BY <2>1, TypeStep, ObjectStep, TeardownStep, HeldStep, LeakStep DEF IInv
  <2>2. CASE UNCHANGED vars
    <3>1. IInv => TypeOK'
      BY <2>2 DEF IInv, TypeOK, vars
    <3>2. IInv => StepInv' /\ ObjectInv' /\ TeardownInv' /\ HeldInv' /\ LeakInv'
      BY <2>2 DEF IInv, StepInv, ObjectInv, TeardownInv, Finishing, HeldInv, LeakInv, Existing, vars
    <3> QED
      BY <3>1, <3>2 DEF IInv
  <2> QED
    BY <2>1, <2>2
<1> QED
  BY <1>1, <1>2, PTL DEF Spec

(* Theorem: Reconcile comes to each of its calls with what the call relies  *)
(* on (the last conjuncts of TypeOK), and no Reconcile calls the service    *)
(* after the credentials were released, for all bounds.                     *)
THEOREM AutoscalingRunnerSetConsistent == Spec => []Consistent
<1>1. IInv => Consistent
  <2> SUFFICES ASSUME IInv, pc \in {"createScaleSet", "updateGroup", "updateName", "deleteScaleSet"}
               PROVE  Holds("secret")
    BY DEF IInv, Consistent, CredentialsWhenNeeded
  <2>1. held = Dependents
    BY DEF IInv, HeldInv, Releasing
  <2>2. 5 \in DOMAIN Dependents /\ Dependents[5] = "secret"
    BY DEF Dependents
  <2> QED
    BY <2>1, <2>2 DEF Holds
<1> QED
  BY <1>1, AutoscalingRunnerSetInvariant, PTL

(* Theorem: when the object is gone and no call has failed, the service has *)
(* no scale set of it: deleteRunnerScaleSet comes before the finalizer      *)
(* goes, whatever edits and version changes come between.                   *)
THEOREM AutoscalingRunnerSetLeavesNoScaleSet == Spec => []NoScaleSetLeak
<1>1. IInv => NoScaleSetLeak
  <2>1. IInv /\ ~ars.exists => pc # "patchScaleSet" /\ ars.ssid = 0
    BY DEF IInv, ObjectInv, Early, NoArs, NewArs
  <2> QED
    BY <2>1 DEF IInv, LeakInv, NoScaleSetLeak, ScaleSetIds
<1> QED
  BY <1>1, AutoscalingRunnerSetInvariant, PTL

(* Theorem: the scale set goes after the last runner, rights and            *)
(* credentials after the sets, and the object last, although the teardown   *)
(* takes many Reconciles and every call of them may fail.                   *)
THEOREM AutoscalingRunnerSetTeardown == Spec => TeardownInOrder
<1> DEFINE Order ==
      /\ \A k \in ScaleSetIds :
             scaleSets[k].there /\ ~scaleSets'[k].there => Existing(sets) = {} /\ live = {}
      /\ held' # held => Existing(sets) = {} /\ live = {}
      /\ ars.exists /\ ~ars'.exists
             => /\ listeners[ListenerName(ars.spec)].st = "none" /\ Existing(sets) = {}
                /\ ars.fin => held = <<>>
<1>1. IInv /\ [Next]_vars => [Order]_vars
  <2> SUFFICES ASSUME IInv, Next
               PROVE  Order
    OBVIOUS
  <2>i. TypeOK /\ StepInv /\ ObjectInv /\ TeardownInv
    BY DEF IInv
  <2>l. Existing(sets) = {} => live = {}
    BY <2>i DEF ObjectInv
  <2>b. ars.spec.group \in Bit
    BY <2>i DEF TypeOK, ArsRec, Specs
  <2>1. ASSUME NEW k \in ScaleSetIds, scaleSets[k].there, ~scaleSets'[k].there
        PROVE  Existing(sets) = {}
    <3>1. CASE CreateRunnerScaleSet
      BY <2>i, <2>1, <3>1, UnusedExists DEF CreateRunnerScaleSet, Unused, TypeOK, ScaleSetRec
    <3>2. CASE UpdateRunnerScaleSet
      BY <2>i, <2>1, <3>2 DEF UpdateRunnerScaleSet, TypeOK, ScaleSetRec
    <3>3. CASE DeleteRunnerScaleSet
      BY <2>i, <3>3 DEF DeleteRunnerScaleSet, TeardownInv
    <3> QED
      BY <2>1, <3>1, <3>2, <3>3, WritersOfScaleSets
  <2>2. ASSUME held' # held
        PROVE  Existing(sets) = {}
    BY <2>i, <2>2, WritersOfHeld DEF ReleaseContainerMode, ReleaseServiceAccount, ReleaseSecret,
       ReleaseManagerRights, Release, TeardownInv, Releasing
  <2>3. ASSUME ars.exists, ~ars'.exists
        PROVE  /\ listeners[ListenerName(ars.spec)].st = "none" /\ Existing(sets) = {}
               /\ ars.fin => held = <<>>
    <3>1. CASE ~ars.fin
      BY <2>i, <2>b, <2>3, <3>1 DEF ObjectInv, ListenerName
    <3>2. CASE ars.fin
      <4>1. Finishes
        BY <2>i, <2>3, <3>2, Moves DEF Outside, Stops, Removes, Starts, Goes, Registers, Records, Cleans,
           Unregisters, Drops, Releases, Kept, Removed
      <4> QED
        BY <2>i, <2>b, <4>1 DEF Finishes, TeardownInv, Finishing, Releasing, ListenerName
    <3> QED
      BY <3>1, <3>2
  <2> QED
    BY <2>l, <2>1, <2>2, <2>3
<1> QED
  BY <1>1, AutoscalingRunnerSetInvariant, PTL DEF Spec, TeardownInOrder
-----------------------------------------------------------------------------
(* The object is not being deleted, and neither an outdated runner nor an   *)
(* upgrade of the controller has come in between.                           *)
Trusted == trouble = 0 /\ ars.exists /\ ~ars.del

(* The newest set that was ever created is i, and it is up. *)
Top(i) == i \in Ids /\ sets[i].st = "up" /\ \A j \in Ids : j > i => sets[j].st = "none"

(* The calls that rely on what List has seen, and those of a teardown. *)
Acting == {"createSet", "createListener", "deleteOld", "setOutdated"} \cup Cleaning \cup Releasing

(* Nothing is outdated, in the object or in the copy of it that Reconcile   *)
(* works on, and Reconcile does not clean up.                               *)
CopyInv ==
    /\ ars.phase # "Outdated" /\ l.phase # "Outdated"
    /\ pc \notin Cleaning \cup Releasing \cup {"setOutdated"}
    /\ \A i \in Ids : ~sets[i].outdated

(* Reconcile may work on the runner group before the edit, but then there   *)
(* is no listener of the group after it. (The group is edited once; see     *)
(* EditSpec.)                                                               *)
GroupInv ==
    /\ pc # "idle" => (l.spec.group = 1 => ars.spec.group = 1)
    /\ listeners[1].st # "none" => ars.spec.group = 1 /\ (pc # "idle" => l.spec.group = 1)

(* The sets and their listener: the newest set is up, if there ever was     *)
(* one; a listener of the spec that is up scales that set, and the hash of  *)
(* the set is the one that the spec of the listener gives. Reconcile        *)
(* creates a set only when no such listener is up, a listener only for the  *)
(* newest set, and deletes no other than older ones.                        *)
TopInv ==
    /\ (\A i \in Ids : sets[i].st = "none") \/ (\E i \in Ids : Top(i))
    /\ listeners[ars.spec.group].st = "up" =>
          /\ Top(listeners[ars.spec.group].set)
          /\ sets[listeners[ars.spec.group].set].hash = RunnerSetSpecHash(listeners[ars.spec.group].hash)
    /\ pc = "createSet" => listeners[ars.spec.group].st # "up"
    /\ pc \in {"createListener", "deleteOld"} => Top(latest) /\ sets[latest].hash = RunnerSetSpecHash(l.spec)
    /\ pc = "deleteOld" => latest \notin todo /\ \A j \in todo : sets[j].st # "none"

(* The inductive invariant of the sets and their listener. *)
ServeInv == Trusted => CopyInv /\ GroupInv /\ TopInv

(* Deletion and troubles are for good. *)
LEMMA TrustedBefore ==
  ASSUME IInv, Next, Trusted'
  PROVE  Trusted
<1>1. TypeOK /\ StepInv /\ ObjectInv
  BY DEF IInv
<1>2. trouble' = trouble \/ trouble' = trouble + 1
  BY DEF Patch, Call, Service, Release, Others, objVars, envVars, Next, Reconcile, StartReconcile,
     AddFinalizer, PatchHash, SetPending, DeleteSelf, CreateRunnerScaleSet, PatchScaleSet,
     UpdateRunnerScaleSet, PatchUpdated, List, CreateEphemeralRunnerSet, DrainSet, DeleteSets,
     DeleteListener, CreateListener, SetRunning, SetOutdated, ListenerIsCleanedUp,
     CleanupEphemeralRunnerSets, DeleteRunnerScaleSet, DropScaleSetId, ReleaseContainerMode,
     ReleaseServiceAccount, ReleaseSecret, ReleaseManagerRights, NothingToRelease, DropFinalizer,
     CallFails, ControllerUpgraded, EditSpec, DeleteArs, ListenerScales, ListenerGoes, SetScalesUp,
     RunnerIsOutdated, RunnersEnd, SetReports, SetGoes
<1>3. trouble \in Nat
  BY <1>1, RunnerSetAssumption DEF TypeOK
<1>4. trouble = 0
  BY <1>2, <1>3 DEF Trusted
<1>5. ars'.exists /\ ~ars'.del
  BY DEF Trusted
<1>6. ~NoArs.exists
  BY DEF NoArs, NewArs
<1>7. ars.exists /\ ~ars.del
  BY <1>1, <1>5, <1>6, Moves DEF Outside, Stops, Removes, Starts, Goes, Registers, Records, Cleans,
     Unregisters, Drops, Releases, Finishes, Kept, Removed
<1> QED
  BY <1>4, <1>7 DEF Trusted

(* What latest() finds is the newest set. *)
LEMMA NewestIsTop ==
  ASSUME NEW i, Top(i)
  PROVE  Newest = i
<1>1. MaxSets \in Nat
  BY RunnerSetAssumption
<1>2. {0} \cup Existing(sets) \in SUBSET (0..MaxSets)
  BY <1>1 DEF Existing, Ids
<1>3. i \in Existing(sets) /\ i \in 1..MaxSets
  BY DEF Top, Existing, Ids
<1>4. Newest \in {0} \cup Existing(sets) /\ Newest >= i
  BY <1>2, <1>3, NewestExists DEF Newest
<1>5. Newest \in Existing(sets)
  BY <1>1, <1>3, <1>4
<1>6. ~(Newest > i)
  BY <1>5 DEF Top, Existing
<1> QED
  BY <1>1, <1>2, <1>3, <1>4, <1>6

(* Reconcile starts, goes on to a call before the list, or ends; sets and   *)
(* listeners stay.                                                          *)
Resumes ==
    /\ UNCHANGED <<sets, listeners>>
    /\ ars'.spec = ars.spec /\ ars'.phase # "Outdated" /\ l'.phase # "Outdated"
    /\ pc' \notin Acting
    /\ pc' # "idle" => l'.spec = ars.spec \/ (pc # "idle" /\ l'.spec = l.spec)

(* Such a step keeps the invariant. *)
LEMMA ResumesStep ==
  ASSUME CopyInv, GroupInv, TopInv, Resumes
  PROVE  CopyInv' /\ GroupInv' /\ TopInv'
<1>1. CopyInv'
  BY DEF CopyInv, Resumes, Acting
<1>2. GroupInv'
  BY DEF GroupInv, Resumes
<1>3. TopInv'
  BY DEF TopInv, Resumes, Acting, Top
<1> QED
  BY <1>1, <1>2, <1>3

(* A patch of the object that keeps its spec is such a step. *)
LEMMA PatchResumes ==
  ASSUME IInv, Trusted, Trusted', CopyInv, NEW new \in ArsRec, NEW step,
         new.spec = ars.spec, new.phase # "Outdated", step \notin Acting, Patch(new, step)
  PROVE  Resumes
<1>1. ars.exists /\ NoArs.phase # "Outdated" /\ "idle" \notin Acting
  BY DEF Trusted, NoArs, NewArs, Acting, Cleaning, Releasing
<1> QED
  BY <1>1 DEF Resumes, Patch, Return, Forget

(* So is every step of Reconcile before the list. *)
LEMMA ReconcileResumes ==
  ASSUME IInv, Trusted, Trusted', CopyInv,
         \/ StartReconcile \/ AddFinalizer \/ PatchHash \/ SetPending \/ DeleteSelf
         \/ CreateRunnerScaleSet \/ PatchScaleSet \/ UpdateRunnerScaleSet \/ PatchUpdated
         \/ SetRunning \/ CallFails
  PROVE  Resumes
<1>t. ars \in ArsRec /\ l \in ArsRec /\ scaleSets \in [ScaleSetIds -> ScaleSetRec]
  BY DEF IInv, TypeOK
<1>i. NoArs.phase # "Outdated" /\ ~NoArs.exists /\ "idle" \notin Acting
  BY DEF NoArs, NewArs, Acting, Cleaning, Releasing
<1>p. /\ ars.phase # "Outdated" /\ l.phase # "Outdated" /\ ars.exists /\ ~ars.del /\ ars'.exists
      /\ ~ars'.del
  BY DEF CopyInv, Trusted
<1>r. ASSUME NEW a \in ArsRec, NEW s, Ready(s, a) PROVE s \notin Acting
  BY <1>r DEF Ready, Acting, Cleaning, Releasing
<1>1. CASE StartReconcile
  <2>1. FirstStep(ars) \notin Acting
    BY <1>t, <1>i, <1>p, <1>r, StepsOfReconcile DEF Acting, Cleaning, Releasing
  <2> QED
    BY <1>1, <1>i, <1>p, <2>1 DEF StartReconcile, Resumes, objVars
<1>2. CASE AddFinalizer
  <2> DEFINE new == [ars EXCEPT !.fin = TRUE]
  <2>1. new \in ArsRec
    BY <1>t, ArsEdits
  <2>2. new.spec = ars.spec /\ new.phase = ars.phase
    BY <1>t DEF ArsRec
  <2>3. HashStep(new) \notin Acting
    BY <2>1, <1>r, StepsOfReconcile
  <2>4. Patch(new, HashStep(new))
    BY <1>2 DEF AddFinalizer
  <2> QED
    BY <1>p, <2>1, <2>2, <2>3, <2>4, PatchResumes
<1>3. CASE PatchHash
  <2> DEFINE new == [ars EXCEPT !.hash = Hash(l)]
  <2>1. new \in ArsRec
    BY <1>t, ArsEdits
  <2>2. new.spec = ars.spec /\ new.phase = ars.phase
    BY <1>t DEF ArsRec
  <2>3. ScaleSetStep(new) \notin Acting /\ "setPending" \notin Acting
    BY <2>1, <1>r, StepsOfReconcile DEF Acting, Cleaning, Releasing
  <2>4. Patch(new, IF new.phase # "Pending" THEN "setPending" ELSE ScaleSetStep(new))
    BY <1>3 DEF PatchHash
  <2> HIDE DEF new
  <2> QED
    BY <1>p, <2>1, <2>2, <2>3, <2>4, PatchResumes
<1>4. CASE SetPending
  <2> DEFINE new == [ars EXCEPT !.phase = "Pending"]
  <2>1. new \in ArsRec
    BY <1>t, ArsEdits
  <2>2. new.spec = ars.spec /\ new.phase = "Pending"
    BY <1>t DEF ArsRec
  <2>3. ScaleSetStep(new) \notin Acting
    BY <2>1, <1>r, StepsOfReconcile
  <2>4. Patch(new, ScaleSetStep(new))
    BY <1>4 DEF SetPending
  <2> HIDE DEF new
  <2> QED
    BY <2>1, <2>2, <2>3, <2>4, PatchResumes
<1>5. CASE DeleteSelf
  BY <1>5, <1>p, <1>i, <1>t DEF DeleteSelf, Marked, ArsRec
<1>6. CASE CreateRunnerScaleSet
  BY <1>6, <1>p DEF CreateRunnerScaleSet, Service, Resumes, objVars, localVars, Acting, Cleaning, Releasing
<1>7. CASE PatchScaleSet
  <2>1. PICK k \in Matching(l.spec) :
           Patch([ars EXCEPT !.ssid = k, !.inGroup = scaleSets[k].group,
                             !.called = scaleSets[k].name, !.labels = "url"], "idle")
    BY <1>7 DEF PatchScaleSet
  <2> DEFINE new == [ars EXCEPT !.ssid = k, !.inGroup = scaleSets[k].group,
                                !.called = scaleSets[k].name, !.labels = "url"]
  <2>2. k \in ScaleSetIds
    BY DEF Matching
  <2>3. scaleSets[k].group \in Bit /\ scaleSets[k].name \in Bit
    BY <1>t, <2>2 DEF ScaleSetRec
  <2>4. new \in ArsRec
    BY <1>t, <2>2, <2>3, ArsEdits
  <2>5. new.spec = ars.spec /\ new.phase = ars.phase
    BY <1>t DEF ArsRec
  <2>6. Patch(new, "idle")
    BY <2>1
  <2> HIDE DEF new
  <2> QED
    BY <1>p, <1>i, <2>4, <2>5, <2>6, PatchResumes
<1>8. CASE UpdateRunnerScaleSet
  BY <1>8, <1>p, <1>i DEF UpdateRunnerScaleSet, Service, Return, Forget, Resumes, objVars, localVars,
     Acting, Cleaning, Releasing
<1>9. CASE PatchUpdated
  <2>1. ars'.spec = ars.spec /\ ars'.phase = ars.phase /\ pc' = "idle" /\ l' = NoArs
        /\ UNCHANGED <<sets, listeners>>
    BY <1>9, <1>p, <1>t DEF PatchUpdated, Patch, Return, Forget, ArsRec
  <2> QED
    BY <1>p, <1>i, <2>1 DEF Resumes
<1>10. CASE SetRunning
  <2>1. ars'.spec = ars.spec /\ ars'.phase = "Running" /\ pc' = "idle" /\ l' = NoArs
        /\ UNCHANGED <<sets, listeners>>
    BY <1>10, <1>p, <1>t DEF SetRunning, Patch, Return, Forget, ArsRec
  <2> QED
    BY <1>i, <2>1 DEF Resumes
<1>11. CASE CallFails
  BY <1>11, <1>p, <1>i DEF CallFails, Return, Forget, Resumes, objVars
<1> QED
  BY <1>1, <1>2, <1>3, <1>4, <1>5, <1>6, <1>7, <1>8, <1>9, <1>10, <1>11

(* The list of the sets: the one that is taken for the latest is the        *)
(* newest, and a set is created only if that one is of another spec, so     *)
(* that no listener of this spec can be up.                                 *)
LEMMA ListServes ==
  ASSUME IInv, Trusted, CopyInv, GroupInv, TopInv, List
  PROVE  CopyInv' /\ GroupInv' /\ TopInv'
<1> DEFINE listener == listeners[ListenerName(l.spec)]
<1> DEFINE step == ListStep(listener, Newest)
<1> DEFINE then == ListenerStep(listener, Newest)
<1> DEFINE old == {j \in Existing(sets) \ {Newest} : sets[j].st = "up"}
<1>t. l \in ArsRec /\ ars \in ArsRec /\ listeners \in [Bit -> ListenerRec] /\ sets \in [Ids -> SetRec]
  BY DEF IInv, TypeOK
<1>b. l.spec \in Specs /\ l.spec.group \in Bit /\ ars.spec.group \in Bit
  BY <1>t DEF ArsRec, Specs
<1>p. pc = "list" /\ l.phase # "Outdated" /\ ars.phase # "Outdated"
  BY DEF List, CopyInv
<1>u. UNCHANGED <<ars, sets, listeners>>
  BY DEF List, objVars
<1>n. NoArs.phase # "Outdated"
  BY DEF NoArs, NewArs
<1>1. /\ step \in {"createSet", "setOutdated", "deleteListener", "drain", "deleteOld"}
      /\ then \in {"idle", "createListener", "setRunning"}
  BY <1>p, ListSteps DEF ListStep, ReplaceStep
<1>2. Newest \in 0..MaxSets /\ (Newest # 0 => Newest \in Existing(sets) /\ Newest \in Ids)
  BY NewestIsASet
<1>3. step # "setOutdated"
  BY <1>2, <1>p DEF ListStep, ReplaceStep, CopyInv
<1>4. \/ pc' = "idle" /\ l' = NoArs
      \/ /\ pc' \in {step, then} \ {"idle"} /\ l' = l /\ latest' = Newest
         /\ pc' = then => step = "deleteOld"
         /\ pc' = "deleteOld" => todo' = old
  BY <1>1, <1>p DEF List, Return, Forget
<1>5. Newest # 0 => Top(Newest)
  <2> SUFFICES ASSUME Newest # 0
               PROVE  Top(Newest)
    OBVIOUS
  <2>1. sets[Newest].st # "none"
    BY <1>2 DEF Existing
  <2>2. PICK i \in Ids : Top(i)
    BY <1>2, <2>1 DEF TopInv
  <2> QED
    BY <2>2, NewestIsTop
<1>6. step = "deleteOld" => Newest # 0 /\ Current(Newest)
  BY <1>p, <1>2 DEF ListStep, ReplaceStep
<1>7. step = "createSet" => listeners[ars.spec.group].st # "up"
  <2> SUFFICES ASSUME step = "createSet", listeners[ars.spec.group].st = "up"
               PROVE  FALSE
    OBVIOUS
  <2>1. l.spec.group = ars.spec.group
    BY <1>b, <1>p DEF GroupInv, Bit
  <2>2. listener = listeners[ars.spec.group]
    BY <2>1 DEF ListenerName
  <2>3. Top(listener.set) /\ sets[listener.set].hash = RunnerSetSpecHash(listener.hash)
    BY <2>2 DEF TopInv
  <2>4. Newest = listener.set
    BY <2>3, NewestIsTop
  <2>5. Newest # 0
    BY <2>3, <2>4 DEF Top, Ids
  <2>6. listener.hash = l.spec /\ ~Current(Newest)
    BY <1>p, <1>3, <2>2, <2>5 DEF ListStep, ReplaceStep, ListenerSpecHash
  <2> QED
    BY <2>3, <2>4, <2>6 DEF Current
<1> HIDE DEF listener, step, then
<1>8. CopyInv'
  BY <1>1, <1>3, <1>4, <1>n, <1>p, <1>u DEF CopyInv, Cleaning, Releasing
<1>9. GroupInv'
  BY <1>4, <1>p, <1>u DEF GroupInv
<1>10. TopInv'
  <2>1. pc' = "createSet" => listeners'[ars'.spec.group].st # "up"
    BY <1>1, <1>4, <1>7, <1>u
  <2>2. pc' \in {"createListener", "deleteOld"} => /\ Top(latest)' /\ l' = l /\ latest' = Newest
                                                   /\ Current(Newest)
    <3>1. pc' \in {"createListener", "deleteOld"} =>
             step = "deleteOld" /\ l' = l /\ latest' = Newest
      BY <1>1, <1>4
    <3>2. Top(Newest) /\ latest' = Newest => Top(latest)'
      BY <1>u DEF Top
    <3> QED
      BY <3>1, <3>2, <1>5, <1>6
  <2>3. pc' = "deleteOld" => latest' \notin todo' /\ \A j \in todo' : sets'[j].st # "none"
    <3>1. pc' = "deleteOld" => latest' = Newest /\ todo' = old
      BY <1>4
    <3> QED
      BY <3>1, <1>u
  <2> QED
    BY <1>u, <2>1, <2>2, <2>3 DEF TopInv, Top, Current
<1> QED
  BY <1>8, <1>9, <1>10

(* Sets change but for the newest, which stays up with its hash. *)
SetsProgress ==
    /\ UNCHANGED listeners /\ ars' = ars
    /\ \A i \in Ids : /\ sets[i].st = "none" <=> sets'[i].st = "none"
                      /\ ~sets'[i].outdated
                      /\ Top(i) => sets'[i].st = "up" /\ sets'[i].hash = sets[i].hash
    /\ \/ UNCHANGED <<pc, l, latest, todo>>
       \/ pc' = "idle" /\ l' = NoArs
       \/ /\ pc = "deleteOld" /\ pc' \in {"deleteOld", "createListener", "setRunning"}
          /\ UNCHANGED <<l, latest>> /\ todo' \subseteq todo

(* Such a step keeps the invariant. *)
LEMMA ProgressServes ==
  ASSUME IInv, CopyInv, GroupInv, TopInv, SetsProgress
  PROVE  CopyInv' /\ GroupInv' /\ TopInv'
<1>n. NoArs.phase # "Outdated"
  BY DEF NoArs, NewArs
<1>1. \A i : Top(i) => Top(i)' /\ sets'[i].hash = sets[i].hash
  <2> SUFFICES ASSUME NEW i, Top(i)
               PROVE  Top(i)' /\ sets'[i].hash = sets[i].hash
    OBVIOUS
  <2>1. i \in Ids /\ \A j \in Ids : j > i => sets'[j].st = "none"
    BY DEF Top, SetsProgress
  <2>2. sets'[i].st = "up" /\ sets'[i].hash = sets[i].hash
    BY <2>1 DEF SetsProgress
  <2> QED
    BY <2>1, <2>2 DEF Top
<1>2. CopyInv'
  BY <1>n DEF CopyInv, SetsProgress, Cleaning, Releasing
<1>3. GroupInv'
  BY DEF GroupInv, SetsProgress
<1>4. TopInv'
  <2>1. (\A i \in Ids : sets'[i].st = "none") \/ (\E i \in Ids : Top(i)')
    BY <1>1 DEF TopInv, SetsProgress
  <2>2. listeners'[ars'.spec.group].st = "up" =>
          /\ Top(listeners[ars.spec.group].set)'
          /\ sets'[listeners[ars.spec.group].set].hash = RunnerSetSpecHash(listeners[ars.spec.group].hash)
    BY <1>1 DEF TopInv, SetsProgress
  <2>4. pc' \in {"createListener", "deleteOld"} =>
           Top(latest)' /\ sets'[latest'].hash = RunnerSetSpecHash(l'.spec)
    <3> SUFFICES ASSUME pc' \in {"createListener", "deleteOld"}
                 PROVE  Top(latest)' /\ sets'[latest'].hash = RunnerSetSpecHash(l'.spec)
      OBVIOUS
    <3>1. pc \in {"createListener", "deleteOld"} /\ l' = l /\ latest' = latest
      BY DEF SetsProgress
    <3>2. Top(latest) /\ sets[latest].hash = RunnerSetSpecHash(l.spec)
      BY <3>1 DEF TopInv
    <3> QED
      BY <1>1, <3>1, <3>2 DEF Top
  <2>5. /\ pc' = "deleteOld" => latest' \notin todo' /\ \A j \in todo' : sets'[j].st # "none"
        /\ pc' = "createSet" => listeners'[ars'.spec.group].st # "up"
    <3>1. todo \subseteq Ids
      BY DEF IInv, TypeOK
    <3> QED
      BY <3>1 DEF TopInv, SetsProgress
  <2> QED
    BY <2>1, <2>2, <2>4, <2>5 DEF TopInv, Top, SetsProgress
<1> QED
  BY <1>2, <1>3, <1>4

(* Reconcile, listeners and the sets themselves change sets in no other     *)
(* way, once they are created.                                              *)
LEMMA SetsMoveOn ==
  ASSUME IInv, Trusted, CopyInv, TopInv,
         \/ DrainSet \/ DeleteSets \/ ListenerScales \/ SetScalesUp
         \/ \E i \in Ids : RunnersEnd(i) \/ SetReports(i) \/ SetGoes(i)
  PROVE  SetsProgress
<1>t. sets \in [Ids -> SetRec] /\ next \in {"idle", "release", "createListener", "setRunning"}
  BY DEF IInv, TypeOK, StepInv
<1>o. \A i \in Ids : ~sets[i].outdated
  BY DEF CopyInv
<1>r. ASSUME NEW i \in Ids, NEW r \in SetRec, sets' = [sets EXCEPT ![i] = r],
             sets[i].st = "none" <=> r.st = "none", ~r.outdated,
             Top(i) => r.st = "up" /\ r.hash = sets[i].hash
      PROVE  \A j \in Ids : /\ sets[j].st = "none" <=> sets'[j].st = "none"
                            /\ ~sets'[j].outdated
                            /\ Top(j) => sets'[j].st = "up" /\ sets'[j].hash = sets[j].hash
  BY <1>t, <1>o, <1>r DEF Top
<1>s. sets' = sets => \A j \in Ids : /\ sets[j].st = "none" <=> sets'[j].st = "none"
                                     /\ ~sets'[j].outdated
                                     /\ Top(j) => sets'[j].st = "up" /\ sets'[j].hash = sets[j].hash
  BY <1>o DEF Top
<1>e. \A r \in SetRec : /\ [r EXCEPT !.want = FALSE] \in SetRec
                        /\ [r EXCEPT !.want = ~@] \in SetRec
                        /\ [r EXCEPT !.busy = ~@] \in SetRec
                        /\ [r EXCEPT !.st = "deleting"] \in SetRec
  BY SetEdits
<1>f. \A r \in SetRec : /\ [r EXCEPT !.want = FALSE].st = r.st
                        /\ [r EXCEPT !.want = FALSE].hash = r.hash
                        /\ [r EXCEPT !.want = FALSE].outdated = r.outdated
                        /\ [r EXCEPT !.want = ~@].st = r.st
                        /\ [r EXCEPT !.want = ~@].hash = r.hash
                        /\ [r EXCEPT !.want = ~@].outdated = r.outdated
                        /\ [r EXCEPT !.busy = ~@].st = r.st
                        /\ [r EXCEPT !.busy = ~@].hash = r.hash
                        /\ [r EXCEPT !.busy = ~@].outdated = r.outdated
                        /\ [r EXCEPT !.st = "deleting"].st = "deleting"
                        /\ [r EXCEPT !.st = "deleting"].outdated = r.outdated
  BY DEF SetRec
<1>1. CASE DrainSet
  <2>1. latest \in Ids /\ listeners' = listeners /\ ars' = ars /\ pc' = "idle" /\ l' = NoArs
    BY <1>1 DEF DrainSet, Call, Return, Forget, IInv, TypeOK
  <2>2. sets' = sets \/ sets' = [sets EXCEPT ![latest] = [sets[latest] EXCEPT !.want = FALSE]]
    BY <1>1, <1>t DEF DrainSet
  <2>3. sets[latest] \in SetRec
    BY <1>t, <2>1
  <2>4. Top(latest) => sets[latest].st = "up"
    BY DEF Top
  <2> DEFINE r == [sets[latest] EXCEPT !.want = FALSE]
  <2>5. r \in SetRec /\ r.st = sets[latest].st /\ r.hash = sets[latest].hash /\ ~r.outdated
    BY <1>e, <1>f, <1>o, <2>1, <2>3
  <2>6. sets' = sets \/ sets' = [sets EXCEPT ![latest] = r]
    BY <2>2
  <2> HIDE DEF r
  <2> QED
    BY <1>r, <1>s, <2>1, <2>4, <2>5, <2>6 DEF SetsProgress
<1>2. CASE DeleteSets
  <2>1. PICK i \in todo :
          IF sets[i].st = "gone" THEN UNCHANGED sets /\ Call("idle", {}, TRUE)
          ELSE /\ sets' = [sets EXCEPT ![i].st = "deleting"]
               /\ IF todo = {i} THEN Call(IF pc = "deleteAll" THEN "idle" ELSE next, {}, pc = "deleteAll")
                  ELSE Call(pc, todo \ {i}, FALSE)
    BY <1>2 DEF DeleteSets
  <2>2. pc = "deleteOld" /\ listeners' = listeners /\ next \in {"idle", "createListener", "setRunning"}
    BY <1>2 DEF DeleteSets, CopyInv, Cleaning, IInv, StepInv
  <2>3. i \in Ids /\ sets[i] \in SetRec /\ ~Top(i)
    <3>1. i \in Ids /\ i # latest /\ Top(latest)
      BY <2>2 DEF IInv, TypeOK, TopInv
    <3>2. ~Top(i)
      BY <3>1, NewestIsTop
    <3> QED
      BY <1>t, <3>1, <3>2
  <2>4. CASE sets[i].st = "gone"
    BY <2>1, <2>2, <2>4, <1>s DEF SetsProgress, Call, Return, Forget
  <2>5. CASE sets[i].st # "gone"
    <3>1. sets' = [sets EXCEPT ![i] = [sets[i] EXCEPT !.st = "deleting"]]
      BY <2>1, <2>3, <2>5, <1>t
    <3>2. sets[i].st # "none"
      BY <2>2 DEF TopInv
    <3>3. /\ ars' = ars
          /\ \/ pc' = "idle" /\ l' = NoArs
             \/ /\ pc' \in {"deleteOld", "createListener", "setRunning"}
                /\ UNCHANGED <<l, latest>> /\ todo' \subseteq todo
      BY <2>1, <2>2, <2>5 DEF Call, Return, Forget
    <3> DEFINE r == [sets[i] EXCEPT !.st = "deleting"]
    <3>4. r \in SetRec /\ r.st = "deleting" /\ ~r.outdated
      BY <1>e, <1>f, <1>o, <2>3
    <3>5. sets' = [sets EXCEPT ![i] = r]
      BY <3>1
    <3> HIDE DEF r
    <3>6. \A j \in Ids : /\ sets[j].st = "none" <=> sets'[j].st = "none"
                         /\ ~sets'[j].outdated
                         /\ Top(j) => sets'[j].st = "up" /\ sets'[j].hash = sets[j].hash
      BY <1>r, <2>3, <3>2, <3>4, <3>5
    <3> QED
      BY <2>2, <3>3, <3>6 DEF SetsProgress
  <2> QED
    BY <2>4, <2>5
<1>3. CASE ListenerScales \/ SetScalesUp \/ \E i \in Ids : RunnersEnd(i) \/ SetReports(i)
  <2>1. PICK i \in Ids : \E r \in {sets[i], [sets[i] EXCEPT !.want = ~@], [sets[i] EXCEPT !.busy = ~@]} :
           Others(i, r)
    BY <1>3 DEF ListenerScales, SetScalesUp, RunnersEnd, SetReports, Existing
  <2>2. sets[i] \in SetRec
    BY <1>t
  <2>3. UNCHANGED <<listeners, pc, l, latest, todo>> /\ ars' = ars
    BY <2>1 DEF Others, ctrlVars, localVars
  <2>4. \E r \in SetRec : /\ sets' = [sets EXCEPT ![i] = r]
                          /\ r.st = sets[i].st /\ r.hash = sets[i].hash /\ r.outdated = sets[i].outdated
    <3>1. PICK r \in {sets[i], [sets[i] EXCEPT !.want = ~@], [sets[i] EXCEPT !.busy = ~@]} :
             sets' = [sets EXCEPT ![i] = r]
      BY <2>1 DEF Others
    <3>2. r \in SetRec /\ r.st = sets[i].st /\ r.hash = sets[i].hash /\ r.outdated = sets[i].outdated
      BY <2>2, <1>e, <1>f
    <3> QED
      BY <3>1, <3>2
  <2>5. Top(i) => sets[i].st = "up"
    BY DEF Top
  <2> QED
    BY <1>r, <1>o, <2>3, <2>4, <2>5 DEF SetsProgress
<1>4. CASE \E i \in Ids : SetGoes(i)
  <2>1. PICK i \in Ids : SetGoes(i)
    BY <1>4
  <2>2. /\ UNCHANGED <<listeners, pc, l, latest, todo>> /\ ars' = ars
        /\ sets' = [sets EXCEPT ![i] = GoneSet]
    BY <2>1 DEF SetGoes, Others, ctrlVars, localVars
  <2>3. GoneSet \in SetRec /\ GoneSet.st = "gone" /\ ~GoneSet.outdated
    BY SetEdits DEF GoneSet, NoSet
  <2>4. sets[i].st = "deleting" /\ ~Top(i)
    BY <2>1 DEF SetGoes, Top
  <2> QED
    BY <1>r, <2>2, <2>3, <2>4 DEF SetsProgress
<1> QED
  BY <1>1, <1>2, <1>3, <1>4

(* A new set is the newest. *)
LEMMA CreateSetServes ==
  ASSUME IInv, Trusted, CopyInv, GroupInv, TopInv, CreateEphemeralRunnerSet
  PROVE  CopyInv' /\ GroupInv' /\ TopInv'
<1>t. sets \in [Ids -> SetRec] /\ MaxSets \in Nat
  BY RunnerSetAssumption DEF IInv, TypeOK
<1>n. NoArs.phase # "Outdated"
  BY DEF NoArs, NewArs
<1>u. /\ pc = "createSet" /\ pc' = "idle" /\ l' = NoArs
      /\ ars' = ars /\ listeners' = listeners
  BY DEF CreateEphemeralRunnerSet, Call, Return, Forget
<1>1. PICK i \in Ids : /\ {j \in Ids : sets[j].st # "none"} = 1..(i - 1)
                       /\ sets' = [sets EXCEPT ![i] = NewSet(l.spec)]
  BY DEF CreateEphemeralRunnerSet
<1>2. NewSet(l.spec).st = "up" /\ ~NewSet(l.spec).outdated
  BY DEF NewSet, NoSet
<1>3. Top(i)'
  <2>1. sets'[i].st = "up"
    BY <1>t, <1>1, <1>2
  <2>2. ASSUME NEW j \in Ids, j > i PROVE sets'[j].st = "none"
    <3>1. j \notin 1..(i - 1) /\ j # i
      BY <1>t, <2>2 DEF Ids
    <3> QED
      BY <3>1, <1>t, <1>1
  <2> QED
    BY <2>1, <2>2 DEF Top
<1>4. CopyInv'
  BY <1>t, <1>n, <1>u, <1>1, <1>2 DEF CopyInv, Cleaning, Releasing
<1>5. GroupInv'
  BY <1>u DEF GroupInv
<1>6. TopInv'
  BY <1>u, <1>3 DEF TopInv
<1> QED
  BY <1>4, <1>5, <1>6

(* A new listener is for the newest set; otherwise listeners only go. *)
LEMMA ListenerServes ==
  ASSUME IInv, Trusted, CopyInv, GroupInv, TopInv, DeleteListener \/ CreateListener \/ ListenerGoes
  PROVE  CopyInv' /\ GroupInv' /\ TopInv'
<1>t. /\ listeners \in [Bit -> ListenerRec] /\ l \in ArsRec /\ ars \in ArsRec
      /\ l.spec.group \in Bit /\ ars.spec.group \in Bit /\ 1 \in Bit
  BY DEF IInv, TypeOK, ArsRec, Specs, Bit
<1>n. NoArs.phase # "Outdated" /\ NoListener.st = "none"
  BY DEF NoArs, NewArs, NoListener
<1>1. CASE DeleteListener \/ ListenerGoes
  <2>1. /\ UNCHANGED <<ars, sets>>
        /\ UNCHANGED <<pc, l, latest, todo>> \/ (pc' = "idle" /\ l' = NoArs)
    BY <1>1 DEF DeleteListener, ListenerGoes, Call, Return, Forget, ctrlVars, localVars
  <2>2. \A g \in Bit : /\ listeners'[g] = listeners[g] \/ listeners'[g].st # "up"
                       /\ listeners[g].st = "none" => listeners'[g].st = "none"
    <3>1. CASE DeleteListener
      <4>1. \/ listeners' = listeners
            \/ \E g \in Bit : /\ listeners[g].st # "none"
                               /\ listeners' = [listeners EXCEPT ![g].st = "deleting"]
        BY <1>t, <3>1 DEF DeleteListener, ListenerName
      <4> QED
        BY <4>1, <1>t DEF ListenerRec
    <3>2. CASE ListenerGoes
      BY <3>2, <1>t, <1>n DEF ListenerGoes
    <3> QED
      BY <1>1, <3>1, <3>2
  <2>3. CopyInv'
    BY <1>n, <2>1 DEF CopyInv, Cleaning, Releasing
  <2>4. GroupInv'
    BY <1>t, <2>1, <2>2 DEF GroupInv
  <2>5. TopInv'
    <3>1. listeners'[ars.spec.group] = listeners[ars.spec.group] \/ listeners'[ars.spec.group].st # "up"
      BY <1>t, <2>2
    <3> QED
      BY <2>1, <3>1 DEF TopInv, Top
  <2> QED
    BY <2>3, <2>4, <2>5
<1>2. CASE CreateListener
  <2> DEFINE r == [st |-> "up", set |-> latest, hash |-> ListenerSpecHash(l.spec)]
  <2>1. /\ UNCHANGED <<ars, sets>> /\ pc = "createListener" /\ pc' = "idle" /\ l' = NoArs
        /\ listeners' = [listeners EXCEPT ![l.spec.group] = r]
    BY <1>2 DEF CreateListener, Call, Return, Forget, ListenerName
  <2>2. /\ listeners'[l.spec.group] = r
        /\ \A g \in Bit : g # l.spec.group => listeners'[g] = listeners[g]
    BY <1>t, <2>1
  <2>3. r.st = "up" /\ r.set = latest /\ r.hash = l.spec
    BY DEF ListenerSpecHash
  <2> HIDE DEF r
  <2>4. Top(latest) /\ sets[latest].hash = RunnerSetSpecHash(l.spec)
    BY <2>1 DEF TopInv
  <2>5. CopyInv'
    BY <1>n, <2>1 DEF CopyInv, Cleaning, Releasing
  <2>6. GroupInv'
    BY <1>t, <2>1, <2>2 DEF GroupInv
  <2>7. TopInv'
    <3>1. CASE l.spec.group = ars.spec.group
      BY <2>1, <2>2, <2>3, <2>4, <3>1 DEF TopInv, Top
    <3>2. CASE l.spec.group # ars.spec.group
      BY <1>t, <2>1, <2>2, <3>2 DEF TopInv, Top
    <3> QED
      BY <3>1, <3>2
  <2> QED
    BY <2>5, <2>6, <2>7
<1> QED
  BY <1>1, <1>2

(* An edit keeps the group, or is the first to use the new one, which has   *)
(* no listener.                                                             *)
LEMMA EditServes ==
  ASSUME IInv, Trusted, CopyInv, GroupInv, TopInv, EditSpec
  PROVE  CopyInv' /\ GroupInv' /\ TopInv'
<1>t. ars \in ArsRec /\ ars.spec \in Specs /\ ars.spec.group \in Bit /\ ars.spec.name \in Bit
  BY DEF IInv, TypeOK, ArsRec, Specs
<1>u. UNCHANGED <<pc, l, latest, todo, sets, listeners>>
  BY DEF EditSpec, ctrlVars, localVars
<1>1. PICK f \in EditFields : /\ f \in {"group", "name"} => ars.spec.group + ars.spec.name = 0
                              /\ ars' = [ars EXCEPT !.spec[f] = 1 - @]
  BY DEF EditSpec
<1>2. ars'.phase = ars.phase /\ ars'.spec = [ars.spec EXCEPT ![f] = 1 - @]
  BY <1>t, <1>1 DEF ArsRec
<1>3. \/ ars'.spec.group = ars.spec.group
      \/ ars.spec.group = 0 /\ ars'.spec.group = 1
  <2>1. CASE f = "group"
    <3>1. ars.spec.group = 0
      BY <1>t, <1>1, <2>1 DEF Bit
    <3>2. ars'.spec.group = 1 - ars.spec.group
      BY <1>t, <1>2, <2>1 DEF Specs
    <3> QED
      BY <3>1, <3>2
  <2>2. CASE f # "group"
    <3>1. ars'.spec.group = ars.spec.group
      BY <1>t, <1>2, <2>2 DEF Specs
    <3> QED
      BY <3>1
  <2> QED
    BY <2>1, <2>2
<1>4. CopyInv'
  BY <1>u, <1>2 DEF CopyInv
<1>5. GroupInv'
  BY <1>u, <1>3 DEF GroupInv
<1>6. TopInv'
  <2>1. CASE ars'.spec.group = ars.spec.group
    BY <2>1, <1>u DEF TopInv, Top
  <2>2. CASE ars.spec.group = 0 /\ ars'.spec.group = 1
    <3>1. listeners[1].st = "none"
      BY <2>2 DEF GroupInv
    <3> QED
      BY <2>2, <3>1, <1>u DEF TopInv, Top
  <2> QED
    BY <1>3, <2>1, <2>2
<1> QED
  BY <1>4, <1>5, <1>6

(* Every step keeps the invariant. *)
LEMMA ServeStep ==
  ASSUME IInv, ServeInv, Next
  PROVE  ServeInv'
<1> SUFFICES ASSUME Trusted'
             PROVE  CopyInv' /\ GroupInv' /\ TopInv'
  BY DEF ServeInv
<1>1. Trusted /\ CopyInv /\ GroupInv /\ TopInv
  BY TrustedBefore DEF ServeInv
<1>2. CASE \/ StartReconcile \/ AddFinalizer \/ PatchHash \/ SetPending \/ DeleteSelf
           \/ CreateRunnerScaleSet \/ PatchScaleSet \/ UpdateRunnerScaleSet \/ PatchUpdated
           \/ SetRunning \/ CallFails
  BY <1>1, <1>2, ReconcileResumes, ResumesStep
<1>3. CASE List
  BY <1>1, <1>3, ListServes
<1>4. CASE CreateEphemeralRunnerSet
  BY <1>1, <1>4, CreateSetServes
<1>5. CASE \/ DrainSet \/ DeleteSets \/ ListenerScales \/ SetScalesUp
           \/ \E i \in Ids : RunnersEnd(i) \/ SetReports(i) \/ SetGoes(i)
  BY <1>1, <1>5, SetsMoveOn, ProgressServes
<1>6. CASE DeleteListener \/ CreateListener \/ ListenerGoes
  BY <1>1, <1>6, ListenerServes
<1>7. CASE EditSpec
  BY <1>1, <1>7, EditServes
<1>8. CASE \/ SetOutdated \/ ListenerIsCleanedUp \/ CleanupEphemeralRunnerSets \/ DeleteRunnerScaleSet
           \/ DropScaleSetId \/ ReleaseContainerMode \/ ReleaseServiceAccount \/ ReleaseSecret
           \/ ReleaseManagerRights \/ NothingToRelease \/ DropFinalizer
  BY <1>1, <1>8 DEF CopyInv, Cleaning, Releasing, SetOutdated, ListenerIsCleanedUp,
     CleanupEphemeralRunnerSets, DeleteRunnerScaleSet, DropScaleSetId, ReleaseContainerMode,
     ReleaseServiceAccount, ReleaseSecret, ReleaseManagerRights, NothingToRelease, DropFinalizer, Release
<1>9. CASE ControllerUpgraded \/ RunnerIsOutdated
  <2>1. trouble' = 1
    BY <1>1, <1>9 DEF Trusted, ControllerUpgraded, RunnerIsOutdated
  <2> QED
    BY <2>1 DEF Trusted
<1>10. CASE DeleteArs
  <2>1. ars \in ArsRec /\ ars' = Marked(ars)
    BY <1>10 DEF DeleteArs, IInv, TypeOK
  <2>2. ~Marked(ars).exists \/ Marked(ars).del
    BY <2>1 DEF Marked, ArsRec, NoArs, NewArs
  <2> QED
    BY <2>1, <2>2 DEF Trusted
<1> QED
  BY <1>2, <1>3, <1>4, <1>5, <1>6, <1>7, <1>8, <1>9, <1>10 DEF Next, Reconcile

(* Theorem: a listener that Reconcile takes for up to date scales a set     *)
(* that is up, through any number of edits, rollbacks, failed calls and     *)
(* deletions of older sets, as long as no runner was outdated and the       *)
(* controller was not upgraded.                                             *)
THEOREM AutoscalingRunnerSetListenerServes == Spec => []ListenerServesSet
<1>1. Init => ServeInv
  <2> SUFFICES ASSUME Init
               PROVE  CopyInv /\ GroupInv /\ TopInv
    BY DEF ServeInv
  <2>1. pc = "idle" /\ ars.phase = "" /\ l.phase = "" /\ ars.spec.group \in Bit
    BY DEF Init, NewArs, NoArs, SpecAtFirst, Bit
  <2>2. \A i \in Ids : sets[i].st = "none" /\ ~sets[i].outdated
    BY DEF Init, NoSet
  <2>3. \A g \in Bit : listeners[g].st = "none"
    BY DEF Init, NoListener
  <2>4. CopyInv
    BY <2>1, <2>2 DEF CopyInv, Cleaning, Releasing
  <2>5. GroupInv
    BY <2>1, <2>3 DEF GroupInv, Bit
  <2>6. TopInv
    BY <2>1, <2>2, <2>3 DEF TopInv
  <2> QED
    BY <2>4, <2>5, <2>6
<1>2. IInv /\ ServeInv /\ [Next]_vars => ServeInv'
  <2>1. CASE Next
    BY <2>1, ServeStep
  <2>2. CASE UNCHANGED vars
    BY <2>2 DEF vars, ServeInv, Trusted, CopyInv, GroupInv, TopInv, Top
  <2> QED
    BY <2>1, <2>2
<1>3. ServeInv => ListenerServesSet
  BY DEF ServeInv, Trusted, TopInv, Top, ListenerServesSet, ListenerName
<1> QED
  BY <1>1, <1>2, <1>3, AutoscalingRunnerSetInvariant, PTL DEF Spec
=============================================================================
