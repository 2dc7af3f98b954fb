-------------------------- MODULE AutoscalerProofs ---------------------------
(*****************************************************************************)
(* Theorems about Autoscaler and its two searches, for every set of           *)
(* installations, every number of jobs and HRAs, and all durations and        *)
(* bounds. The server's queue and batches and the plan of a batch are loops    *)
(* over lists, which the model writes as folds: what a fold computes is        *)
(* proved by induction over the list.                                         *)
(*****************************************************************************)
EXTENDS Autoscaler, Schedule, ScaleTarget, SequenceTheorems, FiniteSetTheorems,
        WellFoundedInduction, TLAPS

-----------------------------------------------------------------------------
(***************************************************************************)
(* Induction, and what a fold computes                                     *)
(***************************************************************************)

(* Induction over the numbers, with the set of those a claim holds for in *)
(* the place of the claim.                                                *)
LEMMA SetInduction ==
  ASSUME NEW S \in SUBSET Nat, 0 \in S, \A n \in S : n + 1 \in S
  PROVE  S = Nat
<1> DEFINE T == Nat \ S
<1>1. ASSUME T # {} PROVE FALSE
  <2>1. T \subseteq Nat
    OBVIOUS
  <2>2. PICK m \in T : \A n \in T : ~(<<n, m>> \in OpToRel(<, Nat))
    <3> HIDE DEF T
    <3> QED
      BY <1>1, <2>1, NatLessThanWellFounded, WFMin
  <2>3. m \in Nat /\ m # 0 /\ m - 1 \in Nat /\ m - 1 < m /\ (m - 1) + 1 = m
    OBVIOUS
  <2>4. <<m - 1, m>> \in OpToRel(<, Nat)
    BY <2>3 DEF OpToRel
  <2>5. m - 1 \in S
    BY <2>2, <2>3, <2>4
  <2> QED
    BY <2>3, <2>5
<1> QED
  BY <1>1

(* Max of a set that has its bound *)
LEMMA MaxOfInterval ==
  ASSUME NEW m \in Nat, NEW s \in SUBSET (1..m+1), m + 1 \in s
  PROVE  Max(s) = m + 1
<1>1. \A y \in s : m + 1 >= y
  OBVIOUS
<1>2. \A x \in s : (\A y \in s : x >= y) => x = m + 1
  OBVIOUS
<1>3. \E x \in s : \A y \in s : x >= y
  BY <1>1
<1>4. Max(s) \in s /\ \A y \in s : Max(s) >= y
  BY <1>3, Zenon DEF Max
<1> QED
  BY <1>2, <1>4

(* g is what FoldLeft computes with step over the indices 1..n, for each *)
(* set of them.                                                          *)
FoldOf(g, D, base, step, n) ==
    /\ g \in [SUBSET (1..n) -> D]
    /\ \A s \in SUBSET (1..n) : g[s] = IF s = {} THEN base ELSE step[<<g[s \ {Max(s)}], Max(s)>>]

(* A set of numbers below a bound has a greatest one. *)
LEMMA MaxOfSet ==
  ASSUME NEW n \in Nat, NEW s \in SUBSET (0..n), s # {}
  PROVE  Max(s) \in s /\ \A y \in s : Max(s) >= y
<1> DEFINE S == {m \in Nat : \A t \in SUBSET (0..m) : t # {} => \E x \in t : \A y \in t : x >= y}
<1>1. 0 \in S
  <2>1. ASSUME NEW t \in SUBSET (0..0), t # {} PROVE \E x \in t : \A y \in t : x >= y
    <3>1. \A y \in t : y = 0
      OBVIOUS
    <3>2. PICK x \in t : TRUE
      BY <2>1
    <3> QED
      BY <3>1, <3>2
  <2> QED
    BY <2>1
<1>2. \A m \in S : m + 1 \in S
  <2> SUFFICES ASSUME NEW m \in S, NEW t \in SUBSET (0..m+1), t # {}
               PROVE  \E x \in t : \A y \in t : x >= y
    OBVIOUS
  <2>1. CASE m + 1 \in t
    BY <2>1
  <2>2. CASE m + 1 \notin t
    <3>1. t \in SUBSET (0..m)
      BY <2>2
    <3> QED
      BY <3>1
  <2> QED
    BY <2>1, <2>2
<1>3. S = Nat
  <2> HIDE DEF S
  <2> S \in SUBSET Nat BY DEF S
  <2> QED
    BY <1>1, <1>2, SetInduction
<1>4. \E x \in s : \A y \in s : x >= y
  <2>1. n \in S
    <3> HIDE DEF S
    <3> QED
      BY <1>3
  <2> QED
    BY <2>1
<1> QED
  BY <1>4, Zenon DEF Max

(* There is such a function: it is built index by index. *)
LEMMA FoldExists ==
  ASSUME NEW D, NEW base \in D, NEW n \in Nat, NEW step \in [D \X (1..n) -> D]
  PROVE  \E g : FoldOf(g, D, base, step, n)
<1> DEFINE Fold(g, m) == /\ g \in [SUBSET (1..m) -> D]
                         /\ \A s \in SUBSET (1..m) : g[s] = IF s = {} THEN base ELSE step[<<g[s \ {Max(s)}], Max(s)>>]
           S == {m \in Nat : m =< n => \E g : Fold(g, m)}
<1>1. 0 \in S
  <2> DEFINE g == [s \in SUBSET (1..0) |-> base]
  <2>1. SUBSET (1..0) = {{}}
    OBVIOUS
  <2>2. Fold(g, 0)
    BY <2>1
  <2> QED
    BY <2>2
<1>2. \A m \in S : m + 1 \in S
  <2> SUFFICES ASSUME NEW m \in Nat, m \in S, m + 1 =< n
               PROVE  \E h : Fold(h, m + 1)
    <3> HIDE DEF Fold
    <3> QED
      OBVIOUS
  <2>0. PICK g : Fold(g, m)
    <3> HIDE DEF Fold
    <3>1. m =< n
      OBVIOUS
    <3> QED
      BY <3>1
  <2> DEFINE h == [s \in SUBSET (1..m+1) |-> IF m + 1 \in s THEN step[<<g[s \ {m + 1}], m + 1>>] ELSE g[s]]
  <2>1. ASSUME NEW s \in SUBSET (1..m+1), m + 1 \in s
        PROVE  h[s] \in D /\ s # {} /\ h[s] = step[<<h[s \ {Max(s)}], Max(s)>>]
    <3>0. Fold(g, m)
      BY <2>0
    <3>1. Max(s) = m + 1
      BY <2>1, MaxOfInterval
    <3>2. s \ {m + 1} \in SUBSET (1..m) /\ s \ {m + 1} \in SUBSET (1..m+1) /\ m + 1 \in 1..n
      OBVIOUS
    <3>3. h[s \ {m + 1}] = g[s \ {m + 1}] /\ g[s \ {m + 1}] \in D
      BY <3>0, <3>2
    <3>4. step[<<g[s \ {m + 1}], m + 1>>] \in D
      BY <3>2, <3>3
    <3>5. h[s] = step[<<g[s \ {m + 1}], m + 1>>]
      BY <2>1
    <3> HIDE DEF h
    <3> QED
      BY <2>1, <3>1, <3>3, <3>4, <3>5
  <2>2. ASSUME NEW s \in SUBSET (1..m+1), m + 1 \notin s
        PROVE  h[s] \in D /\ h[s] = IF s = {} THEN base ELSE step[<<h[s \ {Max(s)}], Max(s)>>]
    <3>0. Fold(g, m)
      BY <2>0
    <3>1. s \in SUBSET (1..m)
      BY <2>2
    <3>2. h[s] = g[s]
      BY <2>2
    <3>3. s \ {Max(s)} \in SUBSET (1..m) /\ m + 1 \notin s \ {Max(s)} /\ s \ {Max(s)} \in SUBSET (1..m+1)
      <4>1. \A y \in s : y \in 1..m /\ y \in 1..m+1 /\ y # m + 1
        BY <3>1
      <4> QED
        BY <4>1
    <3>4. h[s \ {Max(s)}] = g[s \ {Max(s)}]
      BY <3>3
    <3> HIDE DEF h
    <3> QED
      BY <3>0, <3>1, <3>2, <3>4
  <2>3. Fold(h, m + 1)
    <3>1. h \in [SUBSET (1..m+1) -> D]
      BY <2>1, <2>2
    <3> HIDE DEF h
    <3> QED
      BY <3>1, <2>1, <2>2
  <2> QED
    BY <2>3
<1>3. S = Nat
  <2> HIDE DEF S
  <2> S \in SUBSET Nat BY DEF S
  <2> QED
    BY <1>1, <1>2, SetInduction
<1>4. PICK g : Fold(g, n)
  <2> HIDE DEF Fold
  <2>1. n \in S /\ n =< n
    <3> HIDE DEF S
    <3> QED
      BY <1>3
  <2> QED
    BY <2>1
<1> QED
  BY <1>4 DEF FoldOf

(* Two runs of a loop that start alike and go on alike end alike. *)
LEMMA LoopsAgree ==
  ASSUME NEW n \in Nat, NEW p, NEW q, p[0] = q[0],
         \A k \in 1..n : p[k - 1] = q[k - 1] => p[k] = q[k]
  PROVE  p[n] = q[n]
<1> DEFINE S == {m \in Nat : m =< n => p[m] = q[m]}
<1>1. 0 \in S
  OBVIOUS
<1>2. \A m \in S : m + 1 \in S
  <2> SUFFICES ASSUME NEW m \in S, m + 1 =< n PROVE p[m + 1] = q[m + 1]
    OBVIOUS
  <2>1. m + 1 \in 1..n /\ (m + 1) - 1 = m /\ m =< n
    OBVIOUS
  <2>2. p[m] = q[m]
    BY <2>1
  <2> QED
    BY <2>1, <2>2
<1>3. S = Nat
  <2> HIDE DEF S
  <2> S \in SUBSET Nat BY DEF S
  <2> QED
    BY <1>1, <1>2, SetInduction
<1> QED
  <2>1. n \in S
    <3> HIDE DEF S
    <3> QED
      BY <1>3
  <2> QED
    BY <2>1

(* Induction over lists, which grow at their end *)
LEMMA SequenceInduction ==
  ASSUME NEW X, NEW S \in SUBSET Seq(X), <<>> \in S, \A s \in S, x \in X : Append(s, x) \in S
  PROVE  S = Seq(X)
<1> DEFINE T == {n \in Nat : \A s \in Seq(X) : Len(s) = n => s \in S}
<1>1. 0 \in T
  OBVIOUS
<1>2. \A n \in T : n + 1 \in T
  <2> SUFFICES ASSUME NEW n \in T, NEW s \in Seq(X), Len(s) = n + 1 PROVE s \in S
    <3>1. \A n \in T : n + 1 \in Nat
      OBVIOUS
    <3> QED
      BY <3>1
  <2>1. PICK f \in Seq(X), x \in X : s = Append(f, x)
    <3>1. s # <<>>
      OBVIOUS
    <3> QED
      BY <3>1, SequenceEmptyOrAppend
  <2>2. Len(f) = n
    <3>1. Len(s) = Len(f) + 1 /\ Len(f) \in Nat /\ n \in Nat
      BY <2>1, AppendProperties
    <3> QED
      BY <3>1
  <2>3. f \in S
    BY <2>2
  <2> QED
    BY <2>1, <2>3
<1>3. T = Nat
  <2> HIDE DEF T
  <2> T \in SUBSET Nat BY DEF T
  <2> QED
    BY <1>1, <1>2, SetInduction
<1>4. ASSUME NEW s \in Seq(X) PROVE s \in S
  <2>1. Len(s) \in T
    <3> HIDE DEF T
    <3> QED
      BY <1>3
  <2> QED
    BY <2>1
<1> QED
  BY <1>4

(* A trigger makes reservations of reservations. *)
LEMMA ApplyType ==
  ASSUME NEW res \in Seq(0..Duration), NEW a \in {-1, 1}
  PROVE  Apply(res, a) \in Seq(0..Duration)
<1>1. Duration \in 0..Duration
  BY AutoscalerAssumption
<1>2. Append(res, Duration) \in Seq(0..Duration)
  BY <1>1, AppendProperties
<1>3. OneLess(res) \in Seq(0..Duration)
  BY HeadTailProperties DEF OneLess
<1> QED
  BY <1>2, <1>3 DEF Apply

(* The values p that the loop over the amounts am of a batch goes through *)
ApplyRun(p, base, am) ==
    /\ p[0] = base
    /\ \A k \in 1..Len(am) : p[k] = Apply(p[k - 1], am[k])
    /\ FoldLeft(Apply, base, am) = p[Len(am)]

(* The fold of Plan is a loop that applies one trigger after the other. *)
LEMMA ApplyLoop ==
  ASSUME NEW base \in Seq(0..Duration), NEW am \in Seq({-1, 1})
  PROVE  \E p : ApplyRun(p, base, am)
<1> DEFINE n == Len(am)
           D == Seq(0..Duration)
           step == [x \in D \X (1..n) |-> Apply(x[1], am[x[2]])]
           Body(f) == [s \in SUBSET (1..n) |-> IF s = {} THEN base ELSE Apply(f[s \ {Max(s)}], am[Max(s)])]
<1>1. n \in Nat /\ DOMAIN am = 1..n /\ base \in D
  OBVIOUS
<1>2. step \in [D \X (1..n) -> D]
  <2>1. ASSUME NEW x \in D, NEW y \in {-1, 1} PROVE Apply(x, y) \in D
    BY ApplyType
  <2>2. \A k \in 1..n : am[k] \in {-1, 1}
    BY ElementOfSeq
  <2> HIDE DEF D, n
  <2> QED
    BY <2>1, <2>2
<1>3. PICK g : FoldOf(g, D, base, step, n)
  <2> HIDE DEF step, D, n
  <2> QED
    BY <1>1, <1>2, FoldExists
<1>4. g = Body(g)
  <2> SUFFICES ASSUME NEW s \in SUBSET (1..n), s # {}
               PROVE  g[s] = Apply(g[s \ {Max(s)}], am[Max(s)])
    BY <1>3 DEF FoldOf
  <2>1. Max(s) \in 1..n
    <3>1. s \in SUBSET (0..n)
      BY <1>1
    <3> HIDE DEF n
    <3> QED
      BY <1>1, <3>1, MaxOfSet
  <2>2. g[s \ {Max(s)}] \in D
    BY <1>3 DEF FoldOf
  <2>3. <<g[s \ {Max(s)}], Max(s)>> \in D \X (1..n)
    BY <2>1, <2>2
  <2>4. g[s] = step[<<g[s \ {Max(s)}], Max(s)>>]
    BY <1>3 DEF FoldOf
  <2>5. step[<<g[s \ {Max(s)}], Max(s)>>] = Apply(g[s \ {Max(s)}], am[Max(s)])
    BY <2>3
  <2> HIDE DEF step, D, n
  <2> QED
    BY <2>4, <2>5
<1> DEFINE f == CHOOSE f : f = Body(f)
<1>5. f = Body(f)
  <2> HIDE DEF Body
  <2> QED
    BY <1>4
<1>6. f[{}] = base
  <2>1. {} \in SUBSET (1..n)
    OBVIOUS
  <2>2. Body(f)[{}] = base
    BY <2>1
  <2> HIDE DEF f, Body
  <2> QED
    BY <1>5, <2>2
<1>7. ASSUME NEW k \in 1..n PROVE f[1..k] = Apply(f[1..(k - 1)], am[k])
  <2>1. k - 1 \in Nat /\ (k - 1) + 1 = k /\ k \in 1..k
    BY <1>1
  <2>2. Max(1..k) = k
    BY <2>1, MaxOfInterval
  <2>3. (1..k) \ {k} = 1..(k - 1) /\ 1..k \in SUBSET (1..n) /\ 1..k # {}
    <3>1. \A i : i \in (1..k) \ {k} <=> i \in 1..(k - 1)
      BY <2>1
    <3>2. \A i \in 1..k : i \in 1..n
      BY <1>1
    <3> QED
      BY <2>1, <3>1, <3>2
  <2> HIDE DEF f
  <2>4. Body(f)[1..k] = Apply(f[1..(k - 1)], am[k])
    BY <2>2, <2>3
  <2> HIDE DEF Body
  <2> QED
    BY <1>5, <2>4
<1>8. FoldLeft(Apply, base, am) = f[1..n]
  <2>1. FoldLeft(Apply, base, am) = f[DOMAIN am]
    BY <1>1 DEF FoldLeft, MapThenFoldSet
  <2> HIDE DEF f
  <2> QED
    BY <1>1, <2>1
<1> DEFINE p == [k \in 0..n |-> f[1..k]]
<1>9. p[0] = base /\ p[n] = f[1..n] /\ \A k \in 1..n : p[k] = f[1..k] /\ p[k - 1] = f[1..(k - 1)]
  <2> HIDE DEF f, n
  <2>1. 1..0 = {} /\ 0 \in 0..n /\ n \in 0..n /\ \A k \in 1..n : k \in 0..n /\ k - 1 \in 0..n
    BY <1>1
  <2> QED
    BY <1>6, <2>1
<1> HIDE DEF f, p
<1> QED
  BY <1>7, <1>8, <1>9 DEF ApplyRun

(* One trigger more is one round more. *)
LEMMA ApplyAppend ==
  ASSUME NEW base \in Seq(0..Duration), NEW am \in Seq({-1, 1}), NEW a \in {-1, 1}
  PROVE  FoldLeft(Apply, base, Append(am, a)) = Apply(FoldLeft(Apply, base, am), a)
<1> DEFINE n == Len(am)
           ap == Append(am, a)
<1>1. ap \in Seq({-1, 1}) /\ Len(ap) = n + 1 /\ n \in Nat /\ ap[n + 1] = a /\ \A k \in 1..n : ap[k] = am[k]
  OBVIOUS
<1>2. PICK p : ApplyRun(p, base, am)
  BY ApplyLoop
<1> HIDE DEF ap
<1>3. PICK q : ApplyRun(q, base, ap)
  BY <1>1, ApplyLoop
<1>4. \A k \in 1..n : p[k - 1] = q[k - 1] => p[k] = q[k]
  <2> TAKE k \in 1..n
  <2>1. k \in 1..Len(ap) /\ ap[k] = am[k]
    BY <1>1
  <2>2. p[k] = Apply(p[k - 1], am[k])
    BY <1>2 DEF ApplyRun
  <2>3. q[k] = Apply(q[k - 1], am[k])
    BY <1>3, <2>1 DEF ApplyRun
  <2> QED
    BY <2>2, <2>3
<1>5. p[n] = q[n]
  <2> HIDE DEF n
  <2>1. p[0] = q[0]
    BY <1>2, <1>3 DEF ApplyRun
  <2> QED
    BY <1>1, <1>4, <2>1, LoopsAgree
<1>6. q[n + 1] = Apply(q[n], a)
  <2>1. n + 1 \in 1..Len(ap) /\ (n + 1) - 1 = n
    BY <1>1
  <2> HIDE DEF n
  <2> QED
    BY <1>1, <1>3, <2>1 DEF ApplyRun
<1>7. FoldLeft(Apply, base, ap) = q[n + 1]
  BY <1>1, <1>3 DEF ApplyRun
<1>8. FoldLeft(Apply, base, am) = p[n]
  BY <1>2 DEF ApplyRun
<1> QED
  BY <1>5, <1>6, <1>7, <1>8 DEF ap

(* A loop without triggers does nothing. *)
LEMMA ApplyEmpty ==
  ASSUME NEW base \in Seq(0..Duration)
  PROVE  FoldLeft(Apply, base, <<>>) = base
<1>1. <<>> \in Seq({-1, 1}) /\ Len(<<>>) = 0
  OBVIOUS
<1>2. PICK p : ApplyRun(p, base, <<>>)
  BY <1>1, ApplyLoop
<1> QED
  BY <1>1, <1>2 DEF ApplyRun

(* The values p of the loop over the reservations am that leaves out those *)
(* that have expired                                                       *)
ValidRun(p, am) ==
    /\ p[0] = <<>>
    /\ \A k \in 1..Len(am) : p[k] = (IF am[k] > 0 THEN Append(p[k - 1], am[k]) ELSE p[k - 1])
    /\ Valid(am) = p[Len(am)]

(* The fold of Valid is that loop. *)
LEMMA ValidLoop ==
  ASSUME NEW am \in Seq(0..Duration)
  PROVE  \E p : ValidRun(p, am)
<1> DEFINE n == Len(am)
           D == Seq(0..Duration)
           step == [x \in D \X (1..n) |-> (IF am[x[2]] > 0 THEN Append(x[1], am[x[2]]) ELSE x[1])]
           Body(f) == [s \in SUBSET (1..n) |-> IF s = {} THEN <<>> ELSE (IF am[Max(s)] > 0 THEN Append(f[s \ {Max(s)}], am[Max(s)]) ELSE f[s \ {Max(s)}])]
<1>1. n \in Nat /\ DOMAIN am = 1..n /\ <<>> \in D
  OBVIOUS
<1>2. step \in [D \X (1..n) -> D]
  <2>1. ASSUME NEW x \in D, NEW y \in 0..Duration PROVE (IF y > 0 THEN Append(x, y) ELSE x) \in D
    BY AppendProperties
  <2>2. \A k \in 1..n : am[k] \in 0..Duration
    BY ElementOfSeq
  <2> HIDE DEF D, n
  <2> QED
    BY <2>1, <2>2
<1>3. PICK g : FoldOf(g, D, <<>>, step, n)
  <2> HIDE DEF step, D, n
  <2> QED
    BY <1>1, <1>2, FoldExists
<1>4. g = Body(g)
  <2> SUFFICES ASSUME NEW s \in SUBSET (1..n), s # {}
               PROVE  g[s] = (IF am[Max(s)] > 0 THEN Append(g[s \ {Max(s)}], am[Max(s)]) ELSE g[s \ {Max(s)}])
    BY <1>3 DEF FoldOf
  <2>1. Max(s) \in 1..n
    <3>1. s \in SUBSET (0..n)
      BY <1>1
    <3> HIDE DEF n
    <3> QED
      BY <1>1, <3>1, MaxOfSet
  <2>2. g[s \ {Max(s)}] \in D
    BY <1>3 DEF FoldOf
  <2>3. <<g[s \ {Max(s)}], Max(s)>> \in D \X (1..n)
    BY <2>1, <2>2
  <2>4. g[s] = step[<<g[s \ {Max(s)}], Max(s)>>]
    BY <1>3 DEF FoldOf
  <2>5. step[<<g[s \ {Max(s)}], Max(s)>>] = (IF am[Max(s)] > 0 THEN Append(g[s \ {Max(s)}], am[Max(s)]) ELSE g[s \ {Max(s)}])
    BY <2>3
  <2> HIDE DEF step, D, n
  <2> QED
    BY <2>4, <2>5
<1> DEFINE f == CHOOSE f : f = Body(f)
<1>5. f = Body(f)
  <2> HIDE DEF Body
  <2> QED
    BY <1>4
<1>6. f[{}] = <<>>
  <2>1. {} \in SUBSET (1..n)
    OBVIOUS
  <2>2. Body(f)[{}] = <<>>
    BY <2>1
  <2> HIDE DEF f, Body
  <2> QED
    BY <1>5, <2>2
<1>7. ASSUME NEW k \in 1..n PROVE f[1..k] = (IF am[k] > 0 THEN Append(f[1..(k - 1)], am[k]) ELSE f[1..(k - 1)])
  <2>1. k - 1 \in Nat /\ (k - 1) + 1 = k /\ k \in 1..k
    BY <1>1
  <2>2. Max(1..k) = k
    BY <2>1, MaxOfInterval
  <2>3. (1..k) \ {k} = 1..(k - 1) /\ 1..k \in SUBSET (1..n) /\ 1..k # {}
    <3>1. \A i : i \in (1..k) \ {k} <=> i \in 1..(k - 1)
      BY <2>1
    <3>2. \A i \in 1..k : i \in 1..n
      BY <1>1
    <3> QED
      BY <2>1, <3>1, <3>2
  <2> HIDE DEF f
  <2>4. Body(f)[1..k] = (IF am[k] > 0 THEN Append(f[1..(k - 1)], am[k]) ELSE f[1..(k - 1)])
    BY <2>2, <2>3
  <2> HIDE DEF Body
  <2> QED
    BY <1>5, <2>4
<1>8. Valid(am) = f[1..n]
  <2>1. Valid(am) = f[DOMAIN am]
    BY <1>1 DEF FoldLeft, MapThenFoldSet, Valid
  <2> HIDE DEF f
  <2> QED
    BY <1>1, <2>1
<1> DEFINE p == [k \in 0..n |-> f[1..k]]
<1>9. p[0] = <<>> /\ p[n] = f[1..n] /\ \A k \in 1..n : p[k] = f[1..k] /\ p[k - 1] = f[1..(k - 1)]
  <2> HIDE DEF f, n
  <2>1. 1..0 = {} /\ 0 \in 0..n /\ n \in 0..n /\ \A k \in 1..n : k \in 0..n /\ k - 1 \in 0..n
    BY <1>1
  <2> QED
    BY <1>6, <2>1
<1> HIDE DEF f, p
<1> QED
  BY <1>7, <1>8, <1>9 DEF ValidRun

(* One reservation more is one round more. *)
LEMMA ValidAppend ==
  ASSUME NEW am \in Seq(0..Duration), NEW a \in 0..Duration
  PROVE  Valid(Append(am, a)) = (IF a > 0 THEN Append(Valid(am), a) ELSE Valid(am))
<1> DEFINE n == Len(am)
           ap == Append(am, a)
<1>1. ap \in Seq(0..Duration) /\ Len(ap) = n + 1 /\ n \in Nat /\ ap[n + 1] = a /\ \A k \in 1..n : ap[k] = am[k]
  OBVIOUS
<1>2. PICK p : ValidRun(p, am)
  BY ValidLoop
<1> HIDE DEF ap
<1>3. PICK q : ValidRun(q, ap)
  BY <1>1, ValidLoop
<1>4. \A k \in 1..n : p[k - 1] = q[k - 1] => p[k] = q[k]
  <2> TAKE k \in 1..n
  <2>1. k \in 1..Len(ap) /\ ap[k] = am[k]
    BY <1>1
  <2>2. p[k] = (IF am[k] > 0 THEN Append(p[k - 1], am[k]) ELSE p[k - 1])
    BY <1>2 DEF ValidRun
  <2>3. q[k] = (IF am[k] > 0 THEN Append(q[k - 1], am[k]) ELSE q[k - 1])
    BY <1>3, <2>1 DEF ValidRun
  <2> QED
    BY <2>2, <2>3
<1>5. p[n] = q[n]
  <2> HIDE DEF n
  <2>1. p[0] = q[0]
    BY <1>2, <1>3 DEF ValidRun
  <2> QED
    BY <1>1, <1>4, <2>1, LoopsAgree
<1>6. q[n + 1] = (IF a > 0 THEN Append(q[n], a) ELSE q[n])
  <2>1. n + 1 \in 1..Len(ap) /\ (n + 1) - 1 = n
    BY <1>1
  <2> HIDE DEF n
  <2> QED
    BY <1>1, <1>3, <2>1 DEF ValidRun
<1>7. Valid(ap) = q[n + 1]
  BY <1>1, <1>3 DEF ValidRun
<1>8. Valid(am) = p[n]
  BY <1>2 DEF ValidRun
<1> QED
  BY <1>5, <1>6, <1>7, <1>8 DEF ap

(* Of no reservations none is valid. *)
LEMMA ValidEmpty ==
  Valid(<<>>) = <<>>
<1>1. <<>> \in Seq(0..Duration) /\ Len(<<>>) = 0
  OBVIOUS
<1>2. PICK p : ValidRun(p, <<>>)
  BY <1>1, ValidLoop
<1> QED
  BY <1>1, <1>2 DEF ValidRun

(* The values p of the loop over the triggers am that collects those for h *)
AmountsRun(p, h, am) ==
    /\ p[0] = <<>>
    /\ \A k \in 1..Len(am) : p[k] = (IF am[k][1] = h THEN Append(p[k - 1], am[k][2]) ELSE p[k - 1])
    /\ Amounts(am, h) = p[Len(am)]

(* The fold of Amounts is that loop. *)
LEMMA AmountsLoop ==
  ASSUME NEW h \in HRAs, NEW am \in Seq(Triggers)
  PROVE  \E p : AmountsRun(p, h, am)
<1> DEFINE n == Len(am)
           D == Seq({-1, 1})
           step == [x \in D \X (1..n) |-> (IF am[x[2]][1] = h THEN Append(x[1], am[x[2]][2]) ELSE x[1])]
           Body(f) == [s \in SUBSET (1..n) |-> IF s = {} THEN <<>> ELSE (IF am[Max(s)][1] = h THEN Append(f[s \ {Max(s)}], am[Max(s)][2]) ELSE f[s \ {Max(s)}])]
<1>1. n \in Nat /\ DOMAIN am = 1..n /\ <<>> \in D
  OBVIOUS
<1>2. step \in [D \X (1..n) -> D]
  <2>1. ASSUME NEW x \in D, NEW y \in Triggers PROVE (IF y[1] = h THEN Append(x, y[2]) ELSE x) \in D
    BY DEF Triggers
  <2>2. \A k \in 1..n : am[k] \in Triggers
    BY ElementOfSeq
  <2> HIDE DEF D, n
  <2> QED
    BY <2>1, <2>2
<1>3. PICK g : FoldOf(g, D, <<>>, step, n)
  <2> HIDE DEF step, D, n
  <2> QED
    BY <1>1, <1>2, FoldExists
<1>4. g = Body(g)
  <2> SUFFICES ASSUME NEW s \in SUBSET (1..n), s # {}
               PROVE  g[s] = (IF am[Max(s)][1] = h THEN Append(g[s \ {Max(s)}], am[Max(s)][2]) ELSE g[s \ {Max(s)}])
    BY <1>3 DEF FoldOf
  <2>1. Max(s) \in 1..n
    <3>1. s \in SUBSET (0..n)
      BY <1>1
    <3> HIDE DEF n
    <3> QED
      BY <1>1, <3>1, MaxOfSet
  <2>2. g[s \ {Max(s)}] \in D
    BY <1>3 DEF FoldOf
  <2>3. <<g[s \ {Max(s)}], Max(s)>> \in D \X (1..n)
    BY <2>1, <2>2
  <2>4. g[s] = step[<<g[s \ {Max(s)}], Max(s)>>]
    BY <1>3 DEF FoldOf
  <2>5. step[<<g[s \ {Max(s)}], Max(s)>>] = (IF am[Max(s)][1] = h THEN Append(g[s \ {Max(s)}], am[Max(s)][2]) ELSE g[s \ {Max(s)}])
    BY <2>3
  <2> HIDE DEF step, D, n
  <2> QED
    BY <2>4, <2>5
<1> DEFINE f == CHOOSE f : f = Body(f)
<1>5. f = Body(f)
  <2> HIDE DEF Body
  <2> QED
    BY <1>4
<1>6. f[{}] = <<>>
  <2>1. {} \in SUBSET (1..n)
    OBVIOUS
  <2>2. Body(f)[{}] = <<>>
    BY <2>1
  <2> HIDE DEF f, Body
  <2> QED
    BY <1>5, <2>2
<1>7. ASSUME NEW k \in 1..n PROVE f[1..k] = (IF am[k][1] = h THEN Append(f[1..(k - 1)], am[k][2]) ELSE f[1..(k - 1)])
  <2>1. k - 1 \in Nat /\ (k - 1) + 1 = k /\ k \in 1..k
    BY <1>1
  <2>2. Max(1..k) = k
    BY <2>1, MaxOfInterval
  <2>3. (1..k) \ {k} = 1..(k - 1) /\ 1..k \in SUBSET (1..n) /\ 1..k # {}
    <3>1. \A i : i \in (1..k) \ {k} <=> i \in 1..(k - 1)
      BY <2>1
    <3>2. \A i \in 1..k : i \in 1..n
      BY <1>1
    <3> QED
      BY <2>1, <3>1, <3>2
  <2> HIDE DEF f
  <2>4. Body(f)[1..k] = (IF am[k][1] = h THEN Append(f[1..(k - 1)], am[k][2]) ELSE f[1..(k - 1)])
    BY <2>2, <2>3
  <2> HIDE DEF Body
  <2> QED
    BY <1>5, <2>4
<1>8. Amounts(am, h) = f[1..n]
  <2>1. Amounts(am, h) = f[DOMAIN am]
    BY <1>1 DEF FoldLeft, MapThenFoldSet, Amounts
  <2> HIDE DEF f
  <2> QED
    BY <1>1, <2>1
<1> DEFINE p == [k \in 0..n |-> f[1..k]]
<1>9. p[0] = <<>> /\ p[n] = f[1..n] /\ \A k \in 1..n : p[k] = f[1..k] /\ p[k - 1] = f[1..(k - 1)]
  <2> HIDE DEF f, n
  <2>1. 1..0 = {} /\ 0 \in 0..n /\ n \in 0..n /\ \A k \in 1..n : k \in 0..n /\ k - 1 \in 0..n
    BY <1>1
  <2> QED
    BY <1>6, <2>1
<1> HIDE DEF f, p
<1> QED
  BY <1>7, <1>8, <1>9 DEF AmountsRun

(* One trigger more is one round more. *)
LEMMA AmountsAppend ==
  ASSUME NEW h \in HRAs, NEW am \in Seq(Triggers), NEW a \in Triggers
  PROVE  Amounts(Append(am, a), h) = (IF a[1] = h THEN Append(Amounts(am, h), a[2]) ELSE Amounts(am, h))
<1> DEFINE n == Len(am)
           ap == Append(am, a)
<1>1. ap \in Seq(Triggers) /\ Len(ap) = n + 1 /\ n \in Nat /\ ap[n + 1] = a /\ \A k \in 1..n : ap[k] = am[k]
  OBVIOUS
<1>2. PICK p : AmountsRun(p, h, am)
  BY AmountsLoop
<1> HIDE DEF ap
<1>3. PICK q : AmountsRun(q, h, ap)
  BY <1>1, AmountsLoop
<1>4. \A k \in 1..n : p[k - 1] = q[k - 1] => p[k] = q[k]
  <2> TAKE k \in 1..n
  <2>1. k \in 1..Len(ap) /\ ap[k] = am[k]
    BY <1>1
  <2>2. p[k] = (IF am[k][1] = h THEN Append(p[k - 1], am[k][2]) ELSE p[k - 1])
    BY <1>2 DEF AmountsRun
  <2>3. q[k] = (IF am[k][1] = h THEN Append(q[k - 1], am[k][2]) ELSE q[k - 1])
    BY <1>3, <2>1 DEF AmountsRun
  <2> QED
    BY <2>2, <2>3
<1>5. p[n] = q[n]
  <2> HIDE DEF n
  <2>1. p[0] = q[0]
    BY <1>2, <1>3 DEF AmountsRun
  <2> QED
    BY <1>1, <1>4, <2>1, LoopsAgree
<1>6. q[n + 1] = (IF a[1] = h THEN Append(q[n], a[2]) ELSE q[n])
  <2>1. n + 1 \in 1..Len(ap) /\ (n + 1) - 1 = n
    BY <1>1
  <2> HIDE DEF n
  <2> QED
    BY <1>1, <1>3, <2>1 DEF AmountsRun
<1>7. Amounts(ap, h) = q[n + 1]
  BY <1>1, <1>3 DEF AmountsRun
<1>8. Amounts(am, h) = p[n]
  BY <1>2 DEF AmountsRun
<1> QED
  BY <1>5, <1>6, <1>7, <1>8 DEF ap

(* Without triggers there is no amount. *)
LEMMA AmountsEmpty ==
  ASSUME NEW h \in HRAs
  PROVE  Amounts(<<>>, h) = <<>>
<1>1. <<>> \in Seq(Triggers) /\ Len(<<>>) = 0
  OBVIOUS
<1>2. PICK p : AmountsRun(p, h, <<>>)
  BY <1>1, AmountsLoop
<1> QED
  BY <1>1, <1>2 DEF AmountsRun

(* The counts p that the ledger goes through when it books the amounts am *)
(* from a count of m                                                      *)
BookedRun(p, m, am) ==
    /\ p[0] = m
    /\ \A k \in 1..Len(am) : p[k] = (IF p[k - 1] + am[k] > 0 THEN p[k - 1] + am[k] ELSE 0)
    /\ Ledger!Booked(m, am) = p[Len(am)]

(* The fold of Booked is that loop. *)
LEMMA BookedLoop ==
  ASSUME NEW m \in Nat, NEW am \in Seq({-1, 1})
  PROVE  \E p : BookedRun(p, m, am)
<1> DEFINE n == Len(am)
           D == Nat
           step == [x \in D \X (1..n) |-> (IF x[1] + am[x[2]] > 0 THEN x[1] + am[x[2]] ELSE 0)]
           Body(f) == [s \in SUBSET (1..n) |-> IF s = {} THEN m ELSE (IF f[s \ {Max(s)}] + am[Max(s)] > 0 THEN f[s \ {Max(s)}] + am[Max(s)] ELSE 0)]
<1>1. n \in Nat /\ DOMAIN am = 1..n /\ m \in D
  OBVIOUS
<1>2. step \in [D \X (1..n) -> D]
  <2>1. ASSUME NEW x \in D, NEW y \in {-1, 1} PROVE (IF x + y > 0 THEN x + y ELSE 0) \in D
    BY TRUE
  <2>2. \A k \in 1..n : am[k] \in {-1, 1}
    BY ElementOfSeq
  <2> HIDE DEF D, n
  <2> QED
    BY <2>1, <2>2
<1>3. PICK g : FoldOf(g, D, m, step, n)
  <2> HIDE DEF step, D, n
  <2> QED
    BY <1>1, <1>2, FoldExists
<1>4. g = Body(g)
  <2> SUFFICES ASSUME NEW s \in SUBSET (1..n), s # {}
               PROVE  g[s] = (IF g[s \ {Max(s)}] + am[Max(s)] > 0 THEN g[s \ {Max(s)}] + am[Max(s)] ELSE 0)
    BY <1>3 DEF FoldOf
  <2>1. Max(s) \in 1..n
    <3>1. s \in SUBSET (0..n)
      BY <1>1
    <3> HIDE DEF n
    <3> QED
      BY <1>1, <3>1, MaxOfSet
  <2>2. g[s \ {Max(s)}] \in D
    BY <1>3 DEF FoldOf
  <2>3. <<g[s \ {Max(s)}], Max(s)>> \in D \X (1..n)
    BY <2>1, <2>2
  <2>4. g[s] = step[<<g[s \ {Max(s)}], Max(s)>>]
    BY <1>3 DEF FoldOf
  <2>5. step[<<g[s \ {Max(s)}], Max(s)>>] = (IF g[s \ {Max(s)}] + am[Max(s)] > 0 THEN g[s \ {Max(s)}] + am[Max(s)] ELSE 0)
    BY <2>3
  <2> HIDE DEF step, D, n
  <2> QED
    BY <2>4, <2>5
<1> DEFINE f == CHOOSE f : f = Body(f)
<1>5. f = Body(f)
  <2> HIDE DEF Body
  <2> QED
    BY <1>4
<1>6. f[{}] = m
  <2>1. {} \in SUBSET (1..n)
    OBVIOUS
  <2>2. Body(f)[{}] = m
    BY <2>1
  <2> HIDE DEF f, Body
  <2> QED
    BY <1>5, <2>2
<1>7. ASSUME NEW k \in 1..n PROVE f[1..k] = (IF f[1..(k - 1)] + am[k] > 0 THEN f[1..(k - 1)] + am[k] ELSE 0)
  <2>1. k - 1 \in Nat /\ (k - 1) + 1 = k /\ k \in 1..k
    BY <1>1
  <2>2. Max(1..k) = k
    BY <2>1, MaxOfInterval
  <2>3. (1..k) \ {k} = 1..(k - 1) /\ 1..k \in SUBSET (1..n) /\ 1..k # {}
    <3>1. \A i : i \in (1..k) \ {k} <=> i \in 1..(k - 1)
      BY <2>1
    <3>2. \A i \in 1..k : i \in 1..n
      BY <1>1
    <3> QED
      BY <2>1, <3>1, <3>2
  <2> HIDE DEF f
  <2>4. Body(f)[1..k] = (IF f[1..(k - 1)] + am[k] > 0 THEN f[1..(k - 1)] + am[k] ELSE 0)
    BY <2>2, <2>3
  <2> HIDE DEF Body
  <2> QED
    BY <1>5, <2>4
<1>8. Ledger!Booked(m, am) = f[1..n]
  <2>1. Ledger!Booked(m, am) = f[DOMAIN am]
    BY <1>1 DEF Ledger!FoldLeft, Ledger!MapThenFoldSet, Ledger!Booked, Ledger!Max, Max
  <2> HIDE DEF f
  <2> QED
    BY <1>1, <2>1
<1> DEFINE p == [k \in 0..n |-> f[1..k]]
<1>9. p[0] = m /\ p[n] = f[1..n] /\ \A k \in 1..n : p[k] = f[1..k] /\ p[k - 1] = f[1..(k - 1)]
  <2> HIDE DEF f, n
  <2>1. 1..0 = {} /\ 0 \in 0..n /\ n \in 0..n /\ \A k \in 1..n : k \in 0..n /\ k - 1 \in 0..n
    BY <1>1
  <2> QED
    BY <1>6, <2>1
<1> HIDE DEF f, p
<1> QED
  BY <1>7, <1>8, <1>9 DEF BookedRun

(* One amount more is one round more. *)
LEMMA BookedAppend ==
  ASSUME NEW m \in Nat, NEW am \in Seq({-1, 1}), NEW a \in {-1, 1}
  PROVE  Ledger!Booked(m, Append(am, a)) = (IF Ledger!Booked(m, am) + a > 0 THEN Ledger!Booked(m, am) + a ELSE 0)
<1> DEFINE n == Len(am)
           ap == Append(am, a)
<1>1. ap \in Seq({-1, 1}) /\ Len(ap) = n + 1 /\ n \in Nat /\ ap[n + 1] = a /\ \A k \in 1..n : ap[k] = am[k]
  OBVIOUS
<1>2. PICK p : BookedRun(p, m, am)
  BY BookedLoop
<1> HIDE DEF ap
<1>3. PICK q : BookedRun(q, m, ap)
  BY <1>1, BookedLoop
<1>4. \A k \in 1..n : p[k - 1] = q[k - 1] => p[k] = q[k]
  <2> TAKE k \in 1..n
  <2>1. k \in 1..Len(ap) /\ ap[k] = am[k]
    BY <1>1
  <2>2. p[k] = (IF p[k - 1] + am[k] > 0 THEN p[k - 1] + am[k] ELSE 0)
    BY <1>2 DEF BookedRun
  <2>3. q[k] = (IF q[k - 1] + am[k] > 0 THEN q[k - 1] + am[k] ELSE 0)
    BY <1>3, <2>1 DEF BookedRun
  <2> QED
    BY <2>2, <2>3
<1>5. p[n] = q[n]
  <2> HIDE DEF n
  <2>1. p[0] = q[0]
    BY <1>2, <1>3 DEF BookedRun
  <2> QED
    BY <1>1, <1>4, <2>1, LoopsAgree
<1>6. q[n + 1] = (IF q[n] + a > 0 THEN q[n] + a ELSE 0)
  <2>1. n + 1 \in 1..Len(ap) /\ (n + 1) - 1 = n
    BY <1>1
  <2> HIDE DEF n
  <2> QED
    BY <1>1, <1>3, <2>1 DEF BookedRun
<1>7. Ledger!Booked(m, ap) = q[n + 1]
  BY <1>1, <1>3 DEF BookedRun
<1>8. Ledger!Booked(m, am) = p[n]
  BY <1>2 DEF BookedRun
<1> QED
  BY <1>5, <1>6, <1>7, <1>8 DEF ap

(* Booking nothing leaves the count alone. *)
LEMMA BookedEmpty ==
  ASSUME NEW m \in Nat
  PROVE  Ledger!Booked(m, <<>>) = m
<1>1. <<>> \in Seq({-1, 1}) /\ Len(<<>>) = 0
  OBVIOUS
<1>2. PICK p : BookedRun(p, m, <<>>)
  BY <1>1, BookedLoop
<1> QED
  BY <1>1, <1>2 DEF BookedRun

(* The ledger counts from zero. *)
LEMMA BookedType ==
  ASSUME NEW m \in Nat, NEW am \in Seq({-1, 1})
  PROVE  Ledger!Booked(m, am) \in Nat
<1> DEFINE S == {s \in Seq({-1, 1}) : Ledger!Booked(m, s) \in Nat}
<1>1. <<>> \in S
  BY BookedEmpty
<1>2. \A s \in S, x \in {-1, 1} : Append(s, x) \in S
  <2> SUFFICES ASSUME NEW s \in S, NEW x \in {-1, 1} PROVE Append(s, x) \in S
    OBVIOUS
  <2>1. Ledger!Booked(m, s) \in Nat /\ Append(s, x) \in Seq({-1, 1})
    OBVIOUS
  <2>2. Ledger!Booked(m, Append(s, x)) = (IF Ledger!Booked(m, s) + x > 0 THEN Ledger!Booked(m, s) + x ELSE 0)
    BY BookedAppend
  <2> QED
    BY <2>1, <2>2
<1>3. S = Seq({-1, 1})
  <2> HIDE DEF S
  <2> S \in SUBSET Seq({-1, 1}) BY DEF S
  <2> QED
    BY <1>1, <1>2, SequenceInduction
<1> QED
  BY <1>3

(* Two batches one after the other book what one batch of both books. *)
LEMMA BookedConcat ==
  ASSUME NEW m \in Nat, NEW p \in Seq({-1, 1}), NEW q \in Seq({-1, 1})
  PROVE  Ledger!Booked(m, p \o q) = Ledger!Booked(Ledger!Booked(m, p), q)
<1> DEFINE b == Ledger!Booked(m, p)
           S == {s \in Seq({-1, 1}) : Ledger!Booked(m, p \o s) = Ledger!Booked(b, s)}
<1>0. b \in Nat
  BY BookedType
<1> HIDE DEF b
<1>1. <<>> \in S
  <2>1. p \o <<>> = p
    BY ConcatEmptySeq
  <2>2. Ledger!Booked(b, <<>>) = b
    BY <1>0, BookedEmpty
  <2> QED
    BY <2>1, <2>2 DEF b
<1>2. \A s \in S, x \in {-1, 1} : Append(s, x) \in S
  <2> SUFFICES ASSUME NEW s \in S, NEW x \in {-1, 1} PROVE Append(s, x) \in S
    OBVIOUS
  <2>0. s \in Seq({-1, 1}) /\ p \o s \in Seq({-1, 1}) /\ Append(s, x) \in Seq({-1, 1})
    OBVIOUS
  <2>1. p \o Append(s, x) = Append(p \o s, x)
    <3>1. Append(s, x) = s \o <<x>> /\ Append(p \o s, x) = (p \o s) \o <<x>> /\ <<x>> \in Seq({-1, 1})
      BY <2>0, AppendIsConcat
    <3> QED
      BY <2>0, <3>1, ConcatAssociative
  <2>2. Ledger!Booked(m, Append(p \o s, x)) = (IF Ledger!Booked(m, p \o s) + x > 0 THEN Ledger!Booked(m, p \o s) + x ELSE 0)
    BY <2>0, BookedAppend
  <2>3. Ledger!Booked(b, Append(s, x)) = (IF Ledger!Booked(b, s) + x > 0 THEN Ledger!Booked(b, s) + x ELSE 0)
    BY <1>0, <2>0, BookedAppend
  <2>4. Ledger!Booked(m, p \o s) = Ledger!Booked(b, s)
    OBVIOUS
  <2>5. Ledger!Booked(m, p \o Append(s, x)) = Ledger!Booked(b, Append(s, x))
    BY <2>1, <2>2, <2>3, <2>4
  <2> QED
    BY <2>0, <2>5
<1>3. S = Seq({-1, 1})
  <2> HIDE DEF S
  <2> S \in SUBSET Seq({-1, 1}) BY DEF S
  <2> QED
    BY <1>1, <1>2, SequenceInduction
<1> QED
  BY <1>3 DEF b

(* Who starts with less has no more in the end, although amounts may be cut *)
(* at zero.                                                                 *)
LEMMA BookedMonotone ==
  ASSUME NEW m \in Nat, NEW n \in Nat, m =< n, NEW am \in Seq({-1, 1})
  PROVE  Ledger!Booked(m, am) =< Ledger!Booked(n, am)
<1> DEFINE S == {s \in Seq({-1, 1}) : Ledger!Booked(m, s) =< Ledger!Booked(n, s)}
<1>1. <<>> \in S
  BY BookedEmpty
<1>2. \A s \in S, x \in {-1, 1} : Append(s, x) \in S
  <2> SUFFICES ASSUME NEW s \in S, NEW x \in {-1, 1} PROVE Append(s, x) \in S
    OBVIOUS
  <2>1. s \in Seq({-1, 1}) /\ Append(s, x) \in Seq({-1, 1}) /\ Ledger!Booked(m, s) =< Ledger!Booked(n, s)
    OBVIOUS
  <2>2. Ledger!Booked(m, Append(s, x)) = (IF Ledger!Booked(m, s) + x > 0 THEN Ledger!Booked(m, s) + x ELSE 0)
    BY <2>1, BookedAppend
  <2>3. Ledger!Booked(n, Append(s, x)) = (IF Ledger!Booked(n, s) + x > 0 THEN Ledger!Booked(n, s) + x ELSE 0)
    BY <2>1, BookedAppend
  <2>4. Ledger!Booked(m, s) \in Nat /\ Ledger!Booked(n, s) \in Nat
    BY <2>1, BookedType
  <2> QED
    BY <2>1, <2>2, <2>3, <2>4
<1>3. S = Seq({-1, 1})
  <2> HIDE DEF S
  <2> S \in SUBSET Seq({-1, 1}) BY DEF S
  <2> QED
    BY <1>1, <1>2, SequenceInduction
<1> QED
  BY <1>3

(* To the number of reservations a trigger does what it does to the count *)
(* of the ledger.                                                         *)
LEMMA ApplyLength ==
  ASSUME NEW res \in Seq(0..Duration), NEW a \in {-1, 1}
  PROVE  Len(Apply(res, a)) = (IF Len(res) + a > 0 THEN Len(res) + a ELSE 0)
<1>1. Duration \in 0..Duration
  BY AutoscalerAssumption
<1>2. CASE a = 1
  <2>1. Len(Append(res, Duration)) = Len(res) + 1 /\ Len(res) \in Nat
    BY <1>1, AppendProperties
  <2> QED
    BY <1>2, <2>1 DEF Apply
<1>3. CASE a = -1
  <2>1. Len(OneLess(res)) = (IF res = <<>> THEN 0 ELSE Len(res) - 1) /\ Len(res) \in Nat /\ (res = <<>> <=> Len(res) = 0)
    BY HeadTailProperties DEF OneLess
  <2>2. Apply(res, a) = OneLess(res)
    BY <1>3 DEF Apply
  <2> QED
    BY <1>3, <2>1, <2>2
<1> QED
  BY <1>2, <1>3

(* What a batch makes of a list has as many members as the ledger counts. *)
LEMMA PlanLength ==
  ASSUME NEW base \in Seq(0..Duration), NEW am \in Seq({-1, 1})
  PROVE  /\ FoldLeft(Apply, base, am) \in Seq(0..Duration)
         /\ Len(FoldLeft(Apply, base, am)) = Ledger!Booked(Len(base), am)
<1> DEFINE P(s) == FoldLeft(Apply, base, s)
           S == {s \in Seq({-1, 1}) : P(s) \in Seq(0..Duration) /\ Len(P(s)) = Ledger!Booked(Len(base), s)}
<1>0. Len(base) \in Nat
  OBVIOUS
<1>1. <<>> \in S
  <2>1. P(<<>>) = base
    BY ApplyEmpty
  <2>2. Ledger!Booked(Len(base), <<>>) = Len(base)
    BY <1>0, BookedEmpty
  <2> HIDE DEF P
  <2> QED
    BY <2>1, <2>2
<1>2. \A s \in S, x \in {-1, 1} : Append(s, x) \in S
  <2> SUFFICES ASSUME NEW s \in S, NEW x \in {-1, 1} PROVE Append(s, x) \in S
    OBVIOUS
  <2>1. P(Append(s, x)) = Apply(P(s), x)
    BY ApplyAppend
  <2> HIDE DEF P
  <2>2. s \in Seq({-1, 1}) /\ Append(s, x) \in Seq({-1, 1}) /\ P(s) \in Seq(0..Duration) /\ Len(P(s)) = Ledger!Booked(Len(base), s)
    OBVIOUS
  <2>3. Ledger!Booked(Len(base), Append(s, x)) = (IF Ledger!Booked(Len(base), s) + x > 0 THEN Ledger!Booked(Len(base), s) + x ELSE 0)
    BY <1>0, <2>2, BookedAppend
  <2>4. Apply(P(s), x) \in Seq(0..Duration)
    BY <2>2, ApplyType
  <2>5. Len(Apply(P(s), x)) = (IF Len(P(s)) + x > 0 THEN Len(P(s)) + x ELSE 0)
    BY <2>2, ApplyLength
  <2> QED
    BY <2>1, <2>2, <2>3, <2>4, <2>5
<1>3. S = Seq({-1, 1})
  <2> HIDE DEF S
  <2> S \in SUBSET Seq({-1, 1}) BY DEF S
  <2> QED
    BY <1>1, <1>2, SequenceInduction
<1> HIDE DEF P
<1>4. am \in S
  <2> HIDE DEF S
  <2> QED
    BY <1>3
<1> QED
  BY <1>4 DEF P

(* What is valid are some of the reservations. *)
LEMMA ValidFacts ==
  ASSUME NEW res \in Seq(0..Duration)
  PROVE  /\ Valid(res) \in Seq(0..Duration)
         /\ Len(Valid(res)) =< Len(res)
<1> DEFINE S == {s \in Seq(0..Duration) : Valid(s) \in Seq(0..Duration) /\ Len(Valid(s)) =< Len(s)}
<1>1. <<>> \in S
  <2>1. <<>> \in Seq(0..Duration) /\ Len(<<>>) =< Len(<<>>)
    OBVIOUS
  <2> QED
    BY <2>1, ValidEmpty
<1>2. \A s \in S, x \in 0..Duration : Append(s, x) \in S
  <2> SUFFICES ASSUME NEW s \in S, NEW x \in 0..Duration PROVE Append(s, x) \in S
    OBVIOUS
  <2>0. Duration \in Nat
    BY AutoscalerAssumption
  <2>1. s \in Seq(0..Duration) /\ Append(s, x) \in Seq(0..Duration) /\ Len(Append(s, x)) = Len(s) + 1 /\ Len(s) \in Nat
    BY AppendProperties
  <2>2. Valid(s) \in Seq(0..Duration) /\ Len(Valid(s)) =< Len(s) /\ Len(Valid(s)) \in Nat
    OBVIOUS
  <2>3. Append(Valid(s), x) \in Seq(0..Duration) /\ Len(Append(Valid(s), x)) = Len(Valid(s)) + 1
    BY <2>2, AppendProperties
  <2>4. Valid(Append(s, x)) = (IF x > 0 THEN Append(Valid(s), x) ELSE Valid(s))
    BY <2>1, ValidAppend
  <2>5. CASE x > 0
    <3>1. Valid(Append(s, x)) = Append(Valid(s), x)
      BY <2>4, <2>5
    <3>2. Len(Valid(Append(s, x))) =< Len(Append(s, x))
      BY <2>1, <2>2, <2>3, <3>1
    <3> QED
      BY <2>1, <2>3, <3>1, <3>2
  <2>6. CASE ~(x > 0)
    <3>1. Valid(Append(s, x)) = Valid(s)
      BY <2>4, <2>6
    <3>2. Len(Valid(Append(s, x))) =< Len(Append(s, x))
      BY <2>1, <2>2, <3>1
    <3> QED
      BY <2>1, <2>2, <3>1, <3>2
  <2> QED
    BY <2>5, <2>6
<1>3. S = Seq(0..Duration)
  <2> HIDE DEF S
  <2> S \in SUBSET Seq(0..Duration) BY DEF S
  <2> QED
    BY <1>1, <1>2, SequenceInduction
<1> QED
  BY <1>3

(* The amounts are those of triggers. *)
LEMMA AmountsType ==
  ASSUME NEW h \in HRAs, NEW s \in Seq(Triggers)
  PROVE  Amounts(s, h) \in Seq({-1, 1})
<1> DEFINE S == {q \in Seq(Triggers) : Amounts(q, h) \in Seq({-1, 1})}
<1>1. <<>> \in S
  <2>1. <<>> \in Seq(Triggers) /\ <<>> \in Seq({-1, 1})
    OBVIOUS
  <2> QED
    BY <2>1, AmountsEmpty
<1>2. \A q \in S, x \in Triggers : Append(q, x) \in S
  <2> SUFFICES ASSUME NEW q \in S, NEW x \in Triggers PROVE Append(q, x) \in S
    OBVIOUS
  <2>1. q \in Seq(Triggers) /\ Append(q, x) \in Seq(Triggers) /\ Amounts(q, h) \in Seq({-1, 1}) /\ x[2] \in {-1, 1}
    BY DEF Triggers
  <2>2. Amounts(Append(q, x), h) = (IF x[1] = h THEN Append(Amounts(q, h), x[2]) ELSE Amounts(q, h))
    BY <2>1, AmountsAppend
  <2>3. Append(Amounts(q, h), x[2]) \in Seq({-1, 1})
    BY <2>1, AppendProperties
  <2> QED
    BY <2>1, <2>2, <2>3
<1>3. S = Seq(Triggers)
  <2> HIDE DEF S
  <2> S \in SUBSET Seq(Triggers) BY DEF S
  <2> QED
    BY <1>1, <1>2, SequenceInduction
<1> QED
  BY <1>3

(* The part of the first trigger comes first. *)
LEMMA AmountsFirst ==
  ASSUME NEW h \in HRAs, NEW t \in Triggers, NEW s \in Seq(Triggers)
  PROVE  Amounts(<<t>> \o s, h) = (IF t[1] = h THEN <<t[2]>> ELSE <<>>) \o Amounts(s, h)
<1> DEFINE a == IF t[1] = h THEN <<t[2]>> ELSE <<>>
           S == {q \in Seq(Triggers) : Amounts(<<t>> \o q, h) = a \o Amounts(q, h)}
<1>0. a \in Seq({-1, 1}) /\ <<t>> \in Seq(Triggers)
  <2>1. t[2] \in {-1, 1}
    BY DEF Triggers
  <2>2. <<t[2]>> \in Seq({-1, 1}) /\ <<>> \in Seq({-1, 1}) /\ <<t>> \in Seq(Triggers)
    BY <2>1
  <2> QED
    BY <2>2
<1>1. <<>> \in S
  <2>1. <<t>> \o <<>> = <<t>> /\ <<t>> = Append(<<>>, t) /\ <<>> \in Seq(Triggers)
    BY <1>0, ConcatEmptySeq
  <2>2. Amounts(<<>>, h) = <<>>
    BY AmountsEmpty
  <2>3. Amounts(<<t>>, h) = (IF t[1] = h THEN Append(<<>>, t[2]) ELSE <<>>)
    BY <2>1, <2>2, AmountsAppend
  <2>4. Append(<<>>, t[2]) = <<t[2]>>
    OBVIOUS
  <2>5. a \o <<>> = a
    BY <1>0, ConcatEmptySeq
  <2> QED
    BY <2>1, <2>2, <2>3, <2>4, <2>5
<1>2. \A q \in S, x \in Triggers : Append(q, x) \in S
  <2> SUFFICES ASSUME NEW q \in S, NEW x \in Triggers PROVE Append(q, x) \in S
    OBVIOUS
  <2> HIDE DEF a
  <2>1. q \in Seq(Triggers) /\ Append(q, x) \in Seq(Triggers) /\ <<t>> \o q \in Seq(Triggers) /\ x[2] \in {-1, 1}
    BY <1>0 DEF Triggers
  <2>2. <<t>> \o Append(q, x) = Append(<<t>> \o q, x)
    <3>1. Append(q, x) = q \o <<x>> /\ Append(<<t>> \o q, x) = (<<t>> \o q) \o <<x>> /\ <<x>> \in Seq(Triggers)
      BY <2>1, AppendIsConcat
    <3> QED
      BY <1>0, <2>1, <3>1, ConcatAssociative
  <2>3. Amounts(Append(q, x), h) = (IF x[1] = h THEN Append(Amounts(q, h), x[2]) ELSE Amounts(q, h))
    BY <2>1, AmountsAppend
  <2>4. Amounts(Append(<<t>> \o q, x), h) = (IF x[1] = h THEN Append(Amounts(<<t>> \o q, h), x[2]) ELSE Amounts(<<t>> \o q, h))
    BY <2>1, AmountsAppend
  <2>5. Amounts(<<t>> \o q, h) = a \o Amounts(q, h)
    OBVIOUS
  <2>6. Append(a \o Amounts(q, h), x[2]) = a \o Append(Amounts(q, h), x[2])
    <3>1. Amounts(q, h) \in Seq({-1, 1})
      BY <2>1, AmountsType
    <3>2. a \o Amounts(q, h) \in Seq({-1, 1}) /\ <<x[2]>> \in Seq({-1, 1})
      BY <1>0, <2>1, <3>1, ConcatProperties
    <3>3. Append(Amounts(q, h), x[2]) = Amounts(q, h) \o <<x[2]>>
      BY <2>1, <3>1, AppendIsConcat
    <3>4. Append(a \o Amounts(q, h), x[2]) = (a \o Amounts(q, h)) \o <<x[2]>>
      BY <2>1, <3>2, AppendIsConcat
    <3>5. (a \o Amounts(q, h)) \o <<x[2]>> = a \o (Amounts(q, h) \o <<x[2]>>)
      BY <1>0, <3>1, <3>2, ConcatAssociative
    <3> QED
      BY <3>3, <3>4, <3>5
  <2>7. Amounts(<<t>> \o Append(q, x), h) = a \o Amounts(Append(q, x), h)
    BY <2>2, <2>3, <2>4, <2>5, <2>6
  <2> QED
    BY <2>1, <2>7
<1>3. S = Seq(Triggers)
  <2> HIDE DEF S
  <2> S \in SUBSET Seq(Triggers) BY DEF S
  <2> QED
    BY <1>1, <1>2, SequenceInduction
<1>4. s \in S
  <2> HIDE DEF S
  <2> QED
    BY <1>3
<1> QED
  BY <1>4

-----------------------------------------------------------------------------
(***************************************************************************)
(* Types                                                                   *)
(***************************************************************************)

(* The events that happen a limited number of times *)
UsesType == [lost : Nat, repeated : Nat, errors : Nat, restarts : Nat, overrides : Nat]

(* TypeOK, with the lists as lists and the counters of the bounds *)
TypeInv ==
    /\ set \in Settings
    /\ job \in [Jobs -> {"new", "queued", "running", "leaving", "ended", "skipped"}]
    /\ events \in [Jobs -> SUBSET {"queued", "completed"}]
    /\ queue \in Seq(Triggers) /\ Len(queue) <= set.limit
    /\ held \in Triggers \cup {<<>>}
    /\ batch \in [HRAs -> Seq({-1, 1})]
    /\ todo \subseteq InBatch /\ applying \in BOOLEAN /\ (applying => InBatch # {}) /\ (~applying => todo = {})
    /\ hra \in [HRAs -> HRAType] /\ cache \in [Readers -> [HRAs -> HRAType]]
    /\ target \in [HRAs -> [replicas : Counts, effective : {None} \cup 0..Duration]]
    /\ override \in Counts /\ missed \subseteq Jobs
    /\ grown \in [HRAs -> 0..Delay] /\ unkept \in [HRAs -> BOOLEAN]
    /\ uses \in UsesType

(* The installation is one of those that are considered. *)
LEMMA SetType == ASSUME set \in Settings PROVE set \in SettingType
BY AutoscalerAssumption

(* The types as lists imply the types as sets. *)
LEMMA TypeInvImplies == TypeInv => TypeOK
<1> SUFFICES ASSUME TypeInv PROVE TypeOK
  OBVIOUS
<1>1. ToSet(queue) \subseteq Triggers
  BY ElementOfSeq DEF TypeInv, ToSet
<1>2. \A h \in HRAs : ToSet(batch[h]) \subseteq {-1, 1}
  <2> TAKE h \in HRAs
  <2>1. batch[h] \in Seq({-1, 1})
    BY DEF TypeInv
  <2> QED
    BY <2>1, ElementOfSeq DEF ToSet
<1> QED
  BY <1>1, <1>2 DEF TypeInv, TypeOK

(* The types hold initially. *)
LEMMA TypeInvInit == Init => TypeInv
<1> SUFFICES ASSUME Init PROVE TypeInv
  OBVIOUS
<1>1. {Duration, Delay, MaxReplicas} \subseteq Nat \ {0}
  BY AutoscalerAssumption
<1>2. set \in SettingType /\ set.limit \in Nat
  BY SetType DEF Init, SettingType
<1>3. \A h \in HRAs : hra[h] \in HRAType
  <2> TAKE h \in HRAs
  <2>1. NewHRA \in HRAType
    BY <1>1 DEF NewHRA, HRAType, Counts
  <2>2. [NewHRA EXCEPT !.live = \E j \in set.jobs : set.home[j] = h] \in HRAType
    BY <2>1 DEF HRAType
  <2> QED
    BY <2>2 DEF Init
<1>4. hra \in [HRAs -> HRAType] /\ cache \in [Readers -> [HRAs -> HRAType]]
  BY <1>3 DEF Init
<1>5. target \in [HRAs -> [replicas : Counts, effective : {None} \cup 0..Duration]] /\ override \in Counts
  BY DEF Init, Counts
<1>6. grown \in [HRAs -> 0..Delay] /\ unkept \in [HRAs -> BOOLEAN] /\ uses \in UsesType
  BY <1>1 DEF Init, UsesType
<1>7. queue \in Seq(Triggers) /\ Len(queue) <= set.limit /\ batch \in [HRAs -> Seq({-1, 1})]
  BY <1>2 DEF Init
<1> QED
  BY <1>4, <1>5, <1>6, <1>7 DEF Init, TypeInv, InBatch

(* A write keeps the types, in the cache too. *)
LEMMA WriteType ==
  ASSUME TypeInv, NEW h \in HRAs, NEW v \in HRAType, Write(h, v)
  PROVE  hra' \in [HRAs -> HRAType] /\ cache' \in [Readers -> [HRAs -> HRAType]]
<1>1. hra' \in [HRAs -> HRAType]
  BY DEF Write, TypeInv
<1> QED
  BY <1>1 DEF Write, TypeInv

(* Reservations that start anew are as many as before. *)
LEMMA RenewedFacts ==
  ASSUME TypeInv, NEW res \in Seq(0..Duration)
  PROVE  Renewed(res) \in Seq(0..Duration) /\ Len(Renewed(res)) = Len(res)
<1>1. Duration \in 0..Duration
  BY AutoscalerAssumption
<1>2. DOMAIN res = 1..Len(res) /\ Len(res) \in Nat /\ \A i \in 1..Len(res) : res[i] \in 0..Duration
  BY ElementOfSeq, LenProperties
<1>3. Renewed(res) \in [1..Len(res) -> 0..Duration]
  BY <1>1, <1>2 DEF Renewed
<1>4. Renewed(res) \in Seq(0..Duration)
  BY <1>2, <1>3, SeqDef
<1> QED
  BY <1>2, <1>3, <1>4

(* A plan is made of reservations, and counts what the ledger counts from *)
(* those that are valid.                                                  *)
LEMMA PlanFacts ==
  ASSUME TypeInv, NEW res \in Seq(0..Duration), NEW am \in Seq({-1, 1})
  PROVE  /\ Plan(res, am) \in Seq(0..Duration)
         /\ Valid(Renewed(res)) \in Seq(0..Duration)
         /\ Len(Valid(Renewed(res))) \in 0..Len(res)
         /\ Len(Plan(res, am)) = Ledger!Booked(Len(Valid(Renewed(res))), am)
<1>1. Renewed(res) \in Seq(0..Duration) /\ Len(Renewed(res)) = Len(res)
  BY RenewedFacts
<1>2. Valid(Renewed(res)) \in Seq(0..Duration) /\ Len(Valid(Renewed(res))) =< Len(Renewed(res))
  BY <1>1, ValidFacts
<1>3. Len(Valid(Renewed(res))) \in 0..Len(res)
  BY <1>1, <1>2
<1> QED
  BY <1>2, <1>3, PlanLength DEF Plan

(* A batch patches an HRA into an HRA. *)
LEMMA PatchedType ==
  ASSUME TypeInv, NEW h \in HRAs
  PROVE  Patched(h) \in HRAType
<1>1. cache["webhook"][h] \in HRAType /\ hra[h] \in HRAType /\ batch[h] \in Seq({-1, 1})
  BY DEF TypeInv, Readers
<1>2. cache["webhook"][h].res \in Seq(0..Duration)
  BY <1>1 DEF HRAType
<1>3. Plan(cache["webhook"][h].res, batch[h]) \in Seq(0..Duration)
  BY <1>1, <1>2, PlanFacts
<1> QED
  BY <1>1, <1>3 DEF HRAType, Patched

(* The fields of the records *)
LEMMA RecordFacts ==
  ASSUME TypeInv
  PROVE  /\ set \in SettingType
         /\ \A h \in HRAs : /\ hra[h] \in HRAType /\ hra[h].res \in Seq(0..Duration) /\ hra[h].desired \in Counts /\ hra[h].hold \in 0..Delay
                            /\ \A r \in Readers : /\ cache[r][h] \in HRAType /\ cache[r][h].res \in Seq(0..Duration)
                                                  /\ cache[r][h].desired \in Counts /\ cache[r][h].hold \in 0..Delay
         /\ \A h \in HRAs : target[h].replicas \in Counts /\ target[h].effective \in {None} \cup 0..Duration /\ Replicas(h) \in 0..MaxReplicas
<1>1. set \in SettingType
  BY SetType DEF TypeInv
<1>2. \A v \in HRAType : v.res \in Seq(0..Duration) /\ v.desired \in Counts /\ v.hold \in 0..Delay
  BY DEF HRAType
<1>3. \A h \in HRAs : hra[h] \in HRAType /\ \A r \in Readers : cache[r][h] \in HRAType
  BY DEF TypeInv
<1>4. \A h \in HRAs : target[h].replicas \in Counts /\ target[h].effective \in {None} \cup 0..Duration
  BY DEF TypeInv
<1>5. \A h \in HRAs : Replicas(h) \in 0..MaxReplicas
  <2> TAKE h \in HRAs
  <2>1. MaxReplicas \in Nat \ {0}
    BY AutoscalerAssumption
  <2> QED
    BY <1>4, <2>1 DEF Replicas, Counts
<1> QED
  BY <1>1, <1>2, <1>3, <1>4, <1>5

(* A metric suggests a number, or none. *)
LEMMA SuggestedType ==
  ASSUME TypeInv, NEW h \in HRAs, NEW jobs \in SUBSET Jobs
  PROVE  Suggested(h, jobs) \in Int
<1>1. Cardinality(jobs) \in Nat
  BY AutoscalerAssumption, FS_Subset, FS_CardinalityType
<1>2. Cardinality(Running(h)) \in Nat
  <2>1. Running(h) \subseteq Jobs
    BY DEF Running
  <2> QED
    BY <2>1, AutoscalerAssumption, FS_Subset, FS_CardinalityType
<1>3. Replicas(h) \in Nat
  BY RecordFacts
<1>4. ByPercentageBusy(h) \in Int
  <2> DEFINE busy == Cardinality(Running(h))
             before == Replicas(h)
  <2>1. (13 * before + 9) \div 10 \in Int /\ (7 * before) \div 10 \in Int
    BY <1>3
  <2> HIDE DEF busy, before
  <2> QED
    BY <1>2, <1>3, <2>1 DEF ByPercentageBusy, busy, before
<1>5. set.metric \in {"none", "runs", "busy", "both"}
  BY RecordFacts DEF SettingType
<1> QED
  BY <1>1, <1>4, <1>5 DEF Suggested, PositiveOrNone, ByWorkflowRuns, None

(* The controller wants a number of replicas within the bound. *)
LEMMA DesiredType ==
  ASSUME TypeInv, NEW h \in HRAs, Reconcilable(h), NEW sg \in Int
  PROVE  Desired(cache["controller"][h], sg) \in 0..MaxReplicas
<1> DEFINE c == cache["controller"][h]
<1>1. c.res \in Seq(0..Duration) /\ c.desired \in Counts
  BY RecordFacts DEF Readers
<1>2. Reserved(c) \in Nat
  BY <1>1, ValidFacts DEF Reserved
<1>3. set.min \in 0..MaxReplicas /\ set.max \in 0..MaxReplicas
  BY RecordFacts DEF SettingType, Counts, Reconcilable
<1>5. MaxReplicas \in Nat /\ 1 \in 0..MaxReplicas
  BY AutoscalerAssumption
<1>4. MinReplicas \in 0..MaxReplicas
  BY <1>3, <1>5 DEF MinReplicas, TypeInv, Counts
<1>6. \A x \in Int : WithinLimits(x) \in 0..MaxReplicas
  BY <1>3, <1>4, <1>5 DEF WithinLimits
<1> HIDE DEF c
<1>7. Wanted(c, sg) \in 0..MaxReplicas
  BY <1>2, <1>4, <1>6 DEF Wanted
<1>8. Desired(c, sg) \in 0..MaxReplicas
  BY <1>1, <1>7 DEF Desired, Counts
<1> QED
  BY <1>8 DEF c

(* The times of reservations *)
LEMMA ToSetFacts ==
  ASSUME NEW s \in Seq(0..Duration)
  PROVE  ToSet(s) \subseteq 0..Duration /\ (s # <<>> => ToSet(s) # {})
<1>1. DOMAIN s = 1..Len(s) /\ Len(s) \in Nat /\ \A i \in 1..Len(s) : s[i] \in 0..Duration
  BY ElementOfSeq, LenProperties
<1>2. s # <<>> => 1 \in 1..Len(s)
  BY EmptySeq
<1>3. s # <<>> => s[1] \in ToSet(s)
  BY <1>1, <1>2 DEF ToSet
<1> QED
  BY <1>1, <1>3 DEF ToSet

(* The effective time of the target is a time, or none. *)
LEMMA EffectiveType ==
  ASSUME TypeInv, NEW h \in HRAs
  PROVE  Effective(cache["controller"][h], target[h].effective) \in {None} \cup 0..Duration
<1> DEFINE c == cache["controller"][h]
<1>1. c.res \in Seq(0..Duration) /\ target[h].effective \in {None} \cup 0..Duration
  BY RecordFacts DEF Readers
<1> HIDE DEF c
<1>2. ToSet(c.res) \subseteq 0..Duration /\ (c.res # <<>> => ToSet(c.res) # {})
  BY <1>1, ToSetFacts
<1>4. Duration \in Nat
  BY AutoscalerAssumption
<1>5. c.res # <<>> => Max(ToSet(c.res)) \in 0..Duration
  BY <1>2, <1>4, MaxOfSet
<1> QED
  BY <1>1, <1>5 DEF Effective, c

(* So is an HRA with a new status an HRA. *)
LEMMA WithStatusType ==
  ASSUME TypeInv, NEW h \in HRAs, NEW n \in 0..MaxReplicas
  PROVE  WithStatus(h, cache["controller"][h], n) \in HRAType
<1>1. hra[h] \in HRAType /\ Delay \in 0..Delay /\ n \in Counts
  BY AutoscalerAssumption, RecordFacts DEF Counts
<1> QED
  BY <1>1 DEF WithStatus, HRAType

(* The target keeps its type, and so does the time since it has grown. *)
LEMMA UpdateTargetType ==
  ASSUME TypeInv, NEW h \in HRAs, NEW n \in 0..MaxReplicas, UpdateTarget(h, n)
  PROVE  /\ target' \in [HRAs -> [replicas : Counts, effective : {None} \cup 0..Duration]]
         /\ grown' \in [HRAs -> 0..Delay]
<1>1. Effective(cache["controller"][h], target[h].effective) \in {None} \cup 0..Duration
  BY EffectiveType
<1>2. Delay \in 0..Delay /\ n \in Counts
  BY AutoscalerAssumption DEF Counts
<1>3. target' \in [HRAs -> [replicas : Counts, effective : {None} \cup 0..Duration]]
  BY <1>1, <1>2 DEF UpdateTarget, TypeInv
<1>4. grown' \in [HRAs -> 0..Delay]
  BY <1>2 DEF UpdateTarget, TypeInv
<1> QED
  BY <1>3, <1>4

(* The clock leaves the number of reservations alone. *)
LEMMA OlderType ==
  ASSUME NEW v \in HRAType
  PROVE  /\ Older(v) \in HRAType
         /\ Len(Older(v).res) = Len(v.res)
         /\ \A i \in 1..Len(v.res) : Older(v).res[i] = Less(v.res[i])
<1>1. v.res \in Seq(0..Duration) /\ v.hold \in 0..Delay /\ Delay \in Nat /\ Duration \in Nat
  BY AutoscalerAssumption DEF HRAType
<1>2. \A d \in Nat : \A x \in 0..d : Less(x) \in 0..d
  BY DEF Less
<1> DEFINE res == v.res
           new == [i \in DOMAIN res |-> Less(res[i])]
<1>3. DOMAIN res = 1..Len(res) /\ Len(res) \in Nat /\ \A i \in 1..Len(res) : res[i] \in 0..Duration
  BY <1>1, ElementOfSeq, LenProperties
<1>4. new \in [1..Len(res) -> 0..Duration]
  <2> HIDE DEF res
  <2> QED
    BY <1>1, <1>2, <1>3
<1>5. new \in Seq(0..Duration) /\ Len(new) = Len(res)
  <2> HIDE DEF res, new
  <2>1. new \in Seq(0..Duration)
    BY <1>3, <1>4, SeqDef
  <2> QED
    BY <1>3, <1>4, <2>1
<1>6. Older(v).res = new /\ Less(v.hold) \in 0..Delay
  BY <1>1, <1>2 DEF Older, HRAType
<1>7. Older(v) \in HRAType
  <2> HIDE DEF new
  <2>1. Older(v) = [v EXCEPT !.res = new, !.hold = Less(v.hold)]
    BY DEF Older, new, HRAType
  <2> QED
    BY <1>5, <1>6, <2>1 DEF HRAType
<1> QED
  BY <1>3, <1>5, <1>6, <1>7

(* A use is counted, and within its bound. *)
LEMMA UsesStep ==
  ASSUME TypeInv, NEW b \in {"lost", "repeated", "errors", "restarts", "overrides"}, Use(b)
  PROVE  /\ uses' \in UsesType
         /\ uses[b] \in Nat /\ set[b] \in Nat /\ uses[b] < set[b]
         /\ b # "repeated" => uses'.repeated = uses.repeated
         /\ b = "repeated" => uses'.repeated = uses.repeated + 1
<1>1. uses \in UsesType /\ set \in SettingType
  BY RecordFacts DEF TypeInv
<1>2. uses' = [uses EXCEPT ![b] = @ + 1] /\ uses[b] < set[b]
  BY DEF Use
<1>3. CASE b = "lost"
  BY <1>1, <1>2, <1>3 DEF UsesType, SettingType
<1>4. CASE b = "repeated"
  BY <1>1, <1>2, <1>4 DEF UsesType, SettingType
<1>5. CASE b = "errors"
  BY <1>1, <1>2, <1>5 DEF UsesType, SettingType
<1>6. CASE b = "restarts"
  BY <1>1, <1>2, <1>6 DEF UsesType, SettingType
<1>7. CASE b = "overrides"
  BY <1>1, <1>2, <1>7 DEF UsesType, SettingType
<1> QED
  BY <1>3, <1>4, <1>5, <1>6, <1>7

(* The steps of GitHub keep the types. *)
LEMMA GitHubTypes ==
  ASSUME TypeInv, NEW j \in Jobs,
         JobQueued(j) \/ JobSkipped(j) \/ JobStarts(j) \/ JobEnds(j) \/ RunnerLeaves(j) \/ JobCancelled(j) \/ Repeat(j)
  PROVE  TypeInv'
<1> USE DEF server
<1>1. ASSUME NEW st \in {"queued", "running", "leaving", "ended", "skipped"}, NEW evs \in SUBSET {"queued", "completed"}, GoTo(j, st, evs)
      PROVE  TypeInv'
  BY <1>1 DEF GoTo, TypeInv, InBatch
<1>2. CASE Repeat(j)
  <2>1. uses' \in UsesType
    BY <1>2, UsesStep DEF Repeat
  <2> QED
    BY <1>2, <2>1 DEF Repeat, TypeInv, InBatch
<1> QED
  BY <1>1, <1>2 DEF JobQueued, JobSkipped, JobStarts, JobEnds, RunnerLeaves, JobCancelled

(* So does a delivery. *)
LEMMA HandleTypes ==
  ASSUME TypeInv, NEW j \in Jobs, NEW e \in {"queued", "completed"}, Handle(j, e)
  PROVE  TypeInv'
<1>1. events' \in [Jobs -> SUBSET {"queued", "completed"}] /\ missed' \subseteq Jobs
  BY DEF Handle, TypeInv
<1>2. queue' \in Seq(Triggers) /\ Len(queue') <= set.limit
  <2>1. CASE UNCHANGED queue
    BY <2>1 DEF TypeInv
  <2>2. CASE \E h \in Found(j) : queue' = Append(queue, <<h, Amount(j, e)>>) /\ Amount(j, e) # 0 /\ Len(queue) < set.limit
    <3>1. PICK h \in Found(j) : queue' = Append(queue, <<h, Amount(j, e)>>)
      BY <2>2
    <3>2. <<h, Amount(j, e)>> \in Triggers
      BY <2>2 DEF Triggers, Amount, Found
    <3>3. queue \in Seq(Triggers) /\ Len(queue) \in Nat /\ set.limit \in Nat
      BY RecordFacts DEF TypeInv, SettingType
    <3> QED
      BY <2>2, <3>1, <3>2, <3>3, AppendProperties
  <2> QED
    BY <2>1, <2>2 DEF Handle
<1> QED
  BY <1>1, <1>2 DEF Handle, TypeInv, InBatch

(* So do the worker and the batch scaler when they take triggers. *)
LEMMA ServerTypes ==
  ASSUME TypeInv, Server
  PROVE  TypeInv'
<1> USE DEF github
<1>1. CASE WorkerTakes
  <2>1. queue \in Seq(Triggers) /\ Len(queue) \in Nat /\ set.limit \in Nat /\ queue # <<>>
    BY <1>1, RecordFacts DEF TypeInv, SettingType, WorkerTakes
  <2>2. held' \in Triggers /\ queue' \in Seq(Triggers) /\ Len(queue') = Len(queue) - 1
    BY <1>1, <2>1, HeadTailProperties DEF WorkerTakes
  <2> QED
    BY <1>1, <2>1, <2>2 DEF WorkerTakes, TypeInv, InBatch
<1>2. CASE BatchTakes
  <2>1. held \in Triggers
    BY <1>2 DEF BatchTakes, TypeInv
  <2>2. held[1] \in HRAs /\ held[2] \in {-1, 1}
    BY <2>1 DEF Triggers
  <2>3. batch[held[1]] \in Seq({-1, 1})
    BY <2>2 DEF TypeInv
  <2>4. Append(batch[held[1]], held[2]) \in Seq({-1, 1}) 
    BY <2>2, <2>3, AppendProperties
  <2>5. batch' \in [HRAs -> Seq({-1, 1})]
    BY <1>2, <2>2, <2>4 DEF BatchTakes, TypeInv
  <2> QED
    BY <1>2, <2>5 DEF BatchTakes, TypeInv, InBatch
<1>3. CASE StartBatch
  BY <1>3 DEF StartBatch, TypeInv, InBatch
<1>4. CASE ServerRestarts
  <2>1. uses' \in UsesType
    BY <1>4, UsesStep DEF ServerRestarts
  <2>2. set.limit \in Nat
    BY RecordFacts DEF SettingType
  <2>3. queue' \in Seq(Triggers) /\ Len(queue') <= set.limit
    BY <1>4, <2>2 DEF ServerRestarts
  <2>4. batch' \in [HRAs -> Seq({-1, 1})]
    BY <1>4 DEF ServerRestarts
  <2> QED
    BY <1>4, <2>1, <2>3, <2>4 DEF ServerRestarts, TypeInv, InBatch
<1> QED
  BY <1>1, <1>2, <1>3, <1>4 DEF Server

(* What is left of a batch after one of its HRAs *)
LEMMA DoneTypes ==
  ASSUME TypeInv, NEW h \in todo, Done(h)
  PROVE  /\ batch' \in [HRAs -> Seq({-1, 1})] /\ todo' \subseteq InBatch' /\ applying' \in BOOLEAN
         /\ (applying' => InBatch' # {}) /\ (~applying' => todo' = {})
<1>1. h \in HRAs /\ h \in InBatch /\ batch[h] # <<>> /\ todo \subseteq InBatch
  BY DEF TypeInv, InBatch
<1>2. batch' \in [HRAs -> Seq({-1, 1})] /\ InBatch' = InBatch \ {h}
  BY <1>1 DEF Done, TypeInv, InBatch
<1> QED
  BY <1>1, <1>2 DEF Done

(* So does the batch. *)
LEMMA BatchScalerTypes ==
  ASSUME TypeInv, NEW h \in HRAs, Scale(h) \/ ScaleFails(h) \/ ScaleUnanswered(h)
  PROVE  TypeInv'
<1> USE DEF github
<1>1. CASE Scale(h)
  <2>1. hra' \in [HRAs -> HRAType] /\ cache' \in [Readers -> [HRAs -> HRAType]]
    BY <1>1, WriteType, PatchedType DEF Scale
  <2>2. /\ batch' \in [HRAs -> Seq({-1, 1})] /\ todo' \subseteq InBatch' /\ applying' \in BOOLEAN
        /\ (applying' => InBatch' # {}) /\ (~applying' => todo' = {})
    BY <1>1, DoneTypes DEF Scale
  <2> QED
    BY <1>1, <2>1, <2>2 DEF Scale, TypeInv
<1>2. CASE ScaleFails(h)
  <2>1. uses' \in UsesType
    BY <1>2, UsesStep DEF ScaleFails, TypeInv
  <2> QED
    BY <1>2, <2>1 DEF ScaleFails, TypeInv, InBatch
<1>3. CASE ScaleUnanswered(h)
  <2>1. hra' \in [HRAs -> HRAType] /\ cache' \in [Readers -> [HRAs -> HRAType]]
    BY <1>3, WriteType, PatchedType DEF ScaleUnanswered
  <2>2. uses' \in UsesType
    BY <1>3, UsesStep DEF ScaleUnanswered
  <2> QED
    BY <1>3, <2>1, <2>2 DEF ScaleUnanswered, TypeInv, InBatch
<1> QED
  BY <1>1, <1>2, <1>3

(* A reconcile sets the target to some number that Desired returns. *)
LEMMA ControllerValue ==
  ASSUME TypeInv, NEW h \in HRAs, Reconcile(h) \/ ReconcileMisses(h)
  PROVE  \E sg \in Int : LET n == Desired(cache["controller"][h], sg)
                         IN  n \in 0..MaxReplicas /\ ReconcileTo(h, n)
<1>1. Open(h) \subseteq Jobs
  BY DEF Open, Running, Waiting
<1>2. ASSUME NEW jobs \in SUBSET Jobs, Reconcilable(h), ReconcileTo(h, Desired(cache["controller"][h], Suggested(h, jobs)))
      PROVE  \E sg \in Int : Desired(cache["controller"][h], sg) \in 0..MaxReplicas /\ ReconcileTo(h, Desired(cache["controller"][h], sg))
  <2>1. Suggested(h, jobs) \in Int
    BY SuggestedType
  <2>2. Desired(cache["controller"][h], Suggested(h, jobs)) \in 0..MaxReplicas
    BY <1>2, <2>1, DesiredType
  <2> QED
    BY <1>2, <2>1, <2>2
<1>3. CASE Reconcile(h)
  BY <1>1, <1>2, <1>3 DEF Reconcile
<1>4. CASE ReconcileMisses(h)
  BY <1>1, <1>2, <1>4 DEF ReconcileMisses
<1> QED
  BY <1>3, <1>4

(* So does one that fails to write the status. *)
LEMMA FailedValue ==
  ASSUME TypeInv, NEW h \in HRAs, ReconcileFails(h)
  PROVE  \E sg \in Int : LET n == Desired(cache["controller"][h], sg)
                         IN  n \in 0..MaxReplicas /\ UpdateTarget(h, n) /\ unkept' = [unkept EXCEPT ![h] = @ \/ n # Replicas(h)]
<1>1. Open(h) \in SUBSET Jobs
  BY DEF Open, Running, Waiting
<1>2. Suggested(h, Open(h)) \in Int
  BY <1>1, SuggestedType
<1>3. Desired(cache["controller"][h], Suggested(h, Open(h))) \in 0..MaxReplicas
  BY <1>2, DesiredType DEF ReconcileFails
<1> QED
  BY <1>2, <1>3 DEF ReconcileFails

(* So does the controller. *)
LEMMA ControllerTypes ==
  ASSUME TypeInv, NEW h \in HRAs, Reconcile(h) \/ ReconcileMisses(h) \/ ReconcileFails(h)
  PROVE  TypeInv'
<1> USE DEF github, server
<1>1. uses' \in UsesType
  BY UsesStep DEF Reconcile, ReconcileMisses, ReconcileFails, TypeInv
<1>2. CASE Reconcile(h) \/ ReconcileMisses(h)
  <2>1. PICK n \in 0..MaxReplicas : ReconcileTo(h, n)
    BY <1>2, ControllerValue
  <2>2. hra' \in [HRAs -> HRAType] /\ cache' \in [Readers -> [HRAs -> HRAType]]
    BY <2>1, WriteType, WithStatusType DEF ReconcileTo
  <2>3. /\ target' \in [HRAs -> [replicas : Counts, effective : {None} \cup 0..Duration]]
        /\ grown' \in [HRAs -> 0..Delay]
    BY <2>1, UpdateTargetType DEF ReconcileTo
  <2>4. unkept' \in [HRAs -> BOOLEAN]
    BY <2>1 DEF ReconcileTo, TypeInv
  <2> QED
    BY <1>1, <2>1, <2>2, <2>3, <2>4 DEF ReconcileTo, TypeInv, InBatch
<1>3. CASE ReconcileFails(h)
  <2>1. PICK n \in 0..MaxReplicas : UpdateTarget(h, n) /\ unkept' = [unkept EXCEPT ![h] = @ \/ n # Replicas(h)]
    BY <1>3, FailedValue
  <2>2. /\ target' \in [HRAs -> [replicas : Counts, effective : {None} \cup 0..Duration]]
        /\ grown' \in [HRAs -> 0..Delay]
    BY <2>1, UpdateTargetType
  <2>3. unkept' \in [HRAs -> BOOLEAN]
    BY <2>1 DEF TypeInv
  <2> QED
    BY <1>1, <1>3, <2>2, <2>3 DEF ReconcileFails, TypeInv, InBatch
<1> QED
  BY <1>2, <1>3

(* So do the clock, the caches and the owner of the HRA. *)
LEMMA SurroundingsTypes ==
  ASSUME TypeInv, Surroundings
  PROVE  TypeInv'
<1> USE DEF github, server
<1>1. ASSUME NEW h \in HRAs, DeleteHRA(h) PROVE TypeInv'
  <2>1. [hra[h] EXCEPT !.live = FALSE] \in HRAType
    BY RecordFacts DEF HRAType
  <2>2. hra' \in [HRAs -> HRAType] /\ cache' \in [Readers -> [HRAs -> HRAType]]
    BY <1>1, <2>1, WriteType DEF DeleteHRA
  <2> QED
    BY <1>1, <2>2 DEF DeleteHRA, TypeInv, InBatch
<1>2. ASSUME NEW r \in Readers, NEW h \in HRAs, CacheSyncs(r, h) PROVE TypeInv'
  BY <1>2 DEF CacheSyncs, TypeInv, InBatch
<1>3. ASSUME NEW n \in Counts, ChangeOverride(n) PROVE TypeInv'
  <2>1. uses' \in UsesType
    BY <1>3, UsesStep DEF ChangeOverride
  <2> QED
    BY <1>3, <2>1 DEF ChangeOverride, TypeInv, InBatch
<1>4. CASE Tick
  <2>1. hra' \in [HRAs -> HRAType] /\ cache' \in [Readers -> [HRAs -> HRAType]]
    BY <1>4, OlderType DEF Tick, TypeInv
  <2>2. \A d \in Nat : (\A x \in 0..d : Less(x) \in 0..d) /\ \A x \in {None} \cup 0..d : Less(x) \in {None} \cup 0..d
    BY DEF Less, None
  <2>3. Duration \in Nat /\ Delay \in Nat
    BY AutoscalerAssumption
  <2>4. target' \in [HRAs -> [replicas : Counts, effective : {None} \cup 0..Duration]]
    <3>1. \A t \in [replicas : Counts, effective : {None} \cup 0..Duration] :
             [t EXCEPT !.effective = Less(@)] \in [replicas : Counts, effective : {None} \cup 0..Duration]
      BY <2>2, <2>3
    <3> QED
      BY <1>4, <3>1 DEF Tick, TypeInv
  <2>5. grown' \in [HRAs -> 0..Delay]
    BY <1>4, <2>2, <2>3 DEF Tick, TypeInv
  <2> QED
    BY <1>4, <2>1, <2>4, <2>5 DEF Tick, TypeInv, InBatch
<1> QED
  BY <1>1, <1>2, <1>3, <1>4 DEF Surroundings

(* Every step keeps the types. *)
LEMMA TypeInvStep ==
  TypeInv /\ [Next]_vars => TypeInv'
<1> SUFFICES ASSUME TypeInv, [Next]_vars PROVE TypeInv'
  OBVIOUS
<1>1. CASE GitHub
  BY <1>1, GitHubTypes DEF GitHub
<1>2. CASE Delivery
  <2>1. ASSUME NEW j \in Jobs, NEW e \in {"queued", "completed"}, Lose(j, e) PROVE TypeInv'
    <3>1. uses' \in UsesType
      BY <2>1, UsesStep DEF Lose
    <3> QED
      BY <2>1, <3>1 DEF Lose, TypeInv, InBatch, server
  <2> QED
    BY <1>2, <2>1, HandleTypes DEF Delivery
<1>3. CASE Server
  BY <1>3, ServerTypes
<1>4. CASE BatchScaler
  BY <1>4, BatchScalerTypes DEF BatchScaler
<1>5. CASE Controller
  BY <1>5, ControllerTypes DEF Controller
<1>6. CASE Surroundings
  BY <1>6, SurroundingsTypes
<1>7. CASE UNCHANGED vars
  BY <1>7 DEF vars, TypeInv, InBatch
<1> QED
  BY <1>1, <1>2, <1>3, <1>4, <1>5, <1>6, <1>7 DEF Next

(* Theorem: whatever the webhook server, the batch scaler and the          *)
(* controller do, reservations, replicas and the queue stay what they are; *)
(* the queue never exceeds QueueLimit.                                     *)
THEOREM AutoscalerTypes == Spec => []TypeOK
<1>1. Init => TypeInv
  BY TypeInvInit
<1>2. TypeInv /\ [Next]_vars => TypeInv'
  BY TypeInvStep
<1>3. TypeInv => TypeOK
  BY TypeInvImplies
<1> QED
  BY <1>1, <1>2, <1>3, PTL DEF Spec

-----------------------------------------------------------------------------
(***************************************************************************)
(* The ledger                                                              *)
(***************************************************************************)

(* What is appended to the second list is appended to both. *)
LEMMA ConcatAppend ==
  ASSUME NEW X, NEW s \in Seq(X), NEW t \in Seq(X), NEW x \in X
  PROVE  /\ s \o Append(t, x) = Append(s \o t, x)
         /\ Append(s, x) \o t = s \o (<<x>> \o t)
<1>1. <<x>> \in Seq(X) /\ s \o t \in Seq(X)
  OBVIOUS
<1>2. Append(t, x) = t \o <<x>> /\ Append(s \o t, x) = (s \o t) \o <<x>> /\ Append(s, x) = s \o <<x>>
  BY <1>1, AppendIsConcat
<1> QED
  BY <1>1, <1>2, ConcatAssociative

(* The same for amounts *)
LEMMA ConcatAmounts ==
  ASSUME NEW s \in Seq({-1, 1}), NEW t \in Seq({-1, 1}), NEW x \in {-1, 1}
  PROVE  /\ s \o Append(t, x) = Append(s \o t, x)
         /\ Append(s, x) \o t = s \o (<<x>> \o t)
<1> DEFINE X == {-1, 1}
<1>1. s \in Seq(X) /\ t \in Seq(X) /\ x \in X
  OBVIOUS
<1> HIDE DEF X
<1> QED
  BY <1>1, ConcatAppend

(* A list is its head and its tail. *)
LEMMA FirstAndRest ==
  ASSUME NEW X, NEW s \in Seq(X), s # <<>>
  PROVE  <<Head(s)>> \o Tail(s) = s
<1>1. Len(s) \in 1..Len(s) /\ 1 \in 1..Len(s)
  BY EmptySeq
<1>2. SubSeq(s, 1, Len(s)) = <<s[1]>> \o SubSeq(s, 2, Len(s))
  BY <1>1, SubSeqRecursiveFirst
<1> QED
  BY <1>2, SubSeqFull, TailIsSubSeq

(* What the worker holds comes before the queue. *)
Ahead == IF held = <<>> THEN <<>> ELSE <<held>>

(* What is still to be booked is a list of amounts: the batch, then what is *)
(* held, then the queue.                                                    *)
LEMMA AheadType ==
  ASSUME TypeInv
  PROVE  /\ Ahead \in Seq(Triggers) /\ Ahead \o queue \in Seq(Triggers)
         /\ \A h \in HRAs : batch[h] \in Seq({-1, 1}) /\ Amounts(Ahead \o queue, h) \in Seq({-1, 1}) /\ Pending(h) \in Seq({-1, 1})
         /\ \A h \in HRAs : Pending(h) = batch[h] \o Amounts(Ahead \o queue, h)
<1>1. Ahead \in Seq(Triggers) /\ queue \in Seq(Triggers)
  <2>1. CASE held = <<>>
    BY <2>1 DEF Ahead, TypeInv
  <2>2. CASE held \in Triggers
    <3>1. <<held>> \in Seq(Triggers)
      BY <2>2
    <3> QED
      BY <3>1 DEF Ahead, TypeInv
  <2> QED
    BY <2>1, <2>2 DEF TypeInv
<1>2. Ahead \o queue \in Seq(Triggers)
  BY <1>1, ConcatProperties
<1>3. \A h \in HRAs : batch[h] \in Seq({-1, 1})
  BY DEF TypeInv
<1>4. \A h \in HRAs : Amounts(Ahead \o queue, h) \in Seq({-1, 1})
  BY <1>2, AmountsType
<1>5. \A h \in HRAs : Pending(h) = batch[h] \o Amounts(Ahead \o queue, h)
  BY DEF Pending, Ahead
<1> QED
  BY <1>1, <1>2, <1>3, <1>4, <1>5, ConcatProperties

(* Who leaves the queue and the batch alone leaves alone what is to be *)
(* booked.                                                             *)
LEMMA SamePending ==
  ASSUME UNCHANGED <<queue, held, batch>>
  PROVE  \A h \in HRAs : Pending(h)' = Pending(h)
BY DEF Pending

(* A trigger that is accepted is the last one of its HRA. *)
LEMMA AcceptedPending ==
  ASSUME TypeInv, NEW t \in Triggers, queue' = Append(queue, t), UNCHANGED <<held, batch>>
  PROVE  \A h \in HRAs : Pending(h)' = IF h = t[1] THEN Append(Pending(h), t[2]) ELSE Pending(h)
<1> TAKE h \in HRAs
<1>1. Ahead' = Ahead /\ batch' = batch
  BY DEF Ahead
<1>2. queue \in Seq(Triggers)
  BY DEF TypeInv
<1>3. Ahead \o queue' = Append(Ahead \o queue, t)
  BY <1>2, AheadType, ConcatAppend
<1>4. Amounts(Ahead \o queue', h) = (IF t[1] = h THEN Append(Amounts(Ahead \o queue, h), t[2]) ELSE Amounts(Ahead \o queue, h))
  <2> DEFINE q == Ahead \o queue
  <2>1. q \in Seq(Triggers)
    BY AheadType
  <2> HIDE DEF q
  <2>2. Amounts(Append(q, t), h) = (IF t[1] = h THEN Append(Amounts(q, h), t[2]) ELSE Amounts(q, h))
    BY <2>1, AmountsAppend
  <2> QED
    BY <1>3, <2>2 DEF q
<1>5. Pending(h)' = batch[h] \o Amounts(Ahead \o queue', h)
  BY <1>1 DEF Pending, Ahead
<1>6. t[2] \in {-1, 1}
  BY DEF Triggers
<1>7. batch[h] \o Append(Amounts(Ahead \o queue, h), t[2]) = Append(Pending(h), t[2])
  <2>1. batch[h] \in Seq({-1, 1}) /\ Amounts(Ahead \o queue, h) \in Seq({-1, 1}) /\ Pending(h) = batch[h] \o Amounts(Ahead \o queue, h)
    BY AheadType
  <2>2. batch[h] \o Append(Amounts(Ahead \o queue, h), t[2]) = Append(batch[h] \o Amounts(Ahead \o queue, h), t[2])
    BY <1>6, <2>1, ConcatAmounts
  <2> QED
    BY <2>1, <2>2
<1> QED
  BY <1>4, <1>5, <1>7, AheadType

(* The worker and the batch pass triggers on and change nothing. *)
LEMMA PassedOnPending ==
  ASSUME TypeInv, WorkerTakes \/ BatchTakes \/ StartBatch
  PROVE  \A h \in HRAs : Pending(h)' = Pending(h)
<1>1. CASE WorkerTakes
  <2>1. Ahead = <<>> /\ queue # <<>> /\ queue \in Seq(Triggers) /\ held' = Head(queue) /\ queue' = Tail(queue) /\ batch' = batch
    BY <1>1 DEF WorkerTakes, TypeInv, Ahead
  <2>2. Head(queue) # <<>>
    <3>1. Head(queue) \in Triggers
      BY <2>1, HeadTailProperties
    <3>2. <<>> \notin Triggers
      BY DEF Triggers
    <3> QED
      BY <3>1, <3>2
  <2>3. Ahead' = <<Head(queue)>>
    BY <2>1, <2>2 DEF Ahead
  <2>4. Ahead' \o queue' = Ahead \o queue
    BY <2>1, <2>3, FirstAndRest, ConcatEmptySeq
  <2>5. \A h \in HRAs : Pending(h)' = batch[h] \o Amounts(Ahead' \o queue', h)
    BY <2>1 DEF Pending, Ahead
  <2> QED
    BY <2>4, <2>5, AheadType
<1>2. CASE BatchTakes
  <2>1. /\ held \in Triggers /\ held # <<>> /\ held' = <<>> /\ queue' = queue /\ queue \in Seq(Triggers)
        /\ batch' = [batch EXCEPT ![held[1]] = Append(@, held[2])]
    BY <1>2 DEF BatchTakes, TypeInv
  <2>2. held[1] \in HRAs /\ held[2] \in {-1, 1}
    BY <2>1 DEF Triggers
  <2>3. Ahead = <<held>> /\ Ahead' = <<>> /\ Ahead' \o queue' = queue
    BY <2>1, ConcatEmptySeq DEF Ahead
  <2> TAKE h \in HRAs
  <2>4. Pending(h)' = batch'[h] \o Amounts(queue, h)
    <3>1. Pending(h)' = batch'[h] \o Amounts(Ahead' \o queue', h)
      BY DEF Pending, Ahead
    <3> QED
      BY <2>3, <3>1
  <2>5. Pending(h) = batch[h] \o ((IF held[1] = h THEN <<held[2]>> ELSE <<>>) \o Amounts(queue, h))
    BY <2>1, <2>3, AmountsFirst, AheadType
  <2>6. batch[h] \in Seq({-1, 1}) /\ Amounts(queue, h) \in Seq({-1, 1})
    BY <2>1, AheadType, AmountsType
  <2>7. CASE held[1] = h
    <3>1. batch'[h] = Append(batch[h], held[2])
      BY <2>1, <2>7 DEF TypeInv
    <3>2. batch'[h] \o Amounts(queue, h) = batch[h] \o (<<held[2]>> \o Amounts(queue, h))
      <4>1. Append(batch[h], held[2]) \o Amounts(queue, h) = batch[h] \o (<<held[2]>> \o Amounts(queue, h))
        BY <2>2, <2>6, ConcatAmounts
      <4> QED
        BY <3>1, <4>1
    <3> QED
      BY <2>4, <2>5, <2>7, <3>2
  <2>8. CASE held[1] # h
    <3>1. batch'[h] = batch[h]
      BY <2>1, <2>8 DEF TypeInv
    <3>2. <<>> \o Amounts(queue, h) = Amounts(queue, h)
      BY <2>6, ConcatEmptySeq
    <3> QED
      BY <2>4, <2>5, <2>8, <3>1, <3>2
  <2> QED
    BY <2>7, <2>8
<1>3. CASE StartBatch
  BY <1>3, SamePending DEF StartBatch
<1> QED
  BY <1>1, <1>2, <1>3

(* A batch that is done was the first part of what was pending. *)
LEMMA BookedPending ==
  ASSUME TypeInv, NEW h \in HRAs, Done(h), UNCHANGED <<queue, held>>
  PROVE  /\ \A g \in HRAs \ {h} : Pending(g)' = Pending(g)
         /\ Pending(h)' \in Seq({-1, 1})
         /\ Pending(h) = batch[h] \o Pending(h)'
<1>1. batch' = [batch EXCEPT ![h] = <<>>] /\ batch \in [HRAs -> Seq({-1, 1})]
  BY DEF Done, TypeInv
<1>2. \A g \in HRAs : Pending(g)' = batch'[g] \o Amounts(Ahead \o queue, g)
  BY DEF Pending, Ahead
<1>3. \A g \in HRAs \ {h} : batch'[g] = batch[g]
  BY <1>1
<1>4. Pending(h)' = Amounts(Ahead \o queue, h)
  BY <1>1, <1>2, AheadType, ConcatEmptySeq
<1> QED
  BY <1>2, <1>3, <1>4, AheadType

(* A batch is what the ledger takes, and leaves the rest. *)
LEMMA PrefixFacts ==
  ASSUME NEW X, NEW s \in Seq(X), NEW t \in Seq(X), s # <<>>
  PROVE  /\ s \in Ledger!SomeOf(s \o t)
         /\ Ledger!Rest(s \o t, s) = t
<1> DEFINE u == s \o t
<1>1. u \in Seq(X) /\ Len(u) = Len(s) + Len(t) /\ Len(s) \in Nat \ {0} /\ Len(t) \in Nat
  BY ConcatProperties, EmptySeq
<1>2. SubSeq(u, 1, Len(s)) = s
  <2>1. 1 \in 1..Len(s) /\ Len(s) \in 1..Len(s)
    BY <1>1
  <2>2. SubSeq(s \o t, 1, Len(s)) = SubSeq(s, 1, Len(s))
    BY <2>1, SubSeqOfConcat1
  <2> QED
    BY <2>2, SubSeqFull
<1>3. SubSeq(u, Len(s) + 1, Len(u)) = t
  <2>1. CASE t = <<>>
    <3>1. Len(u) < Len(s) + 1 /\ Len(u) \in Int /\ Len(s) + 1 \in Int
      BY <1>1, <2>1
    <3> HIDE DEF u
    <3> QED
      BY <2>1, <3>1, SubSeqEmpty
  <2>2. CASE t # <<>>
    <3>1. Len(t) # 0
      BY <2>2, EmptySeq
    <3>2. Len(s) + 1 \in Len(s)+1 .. Len(s)+Len(t) /\ Len(s) + Len(t) \in Len(s)+1 .. Len(s)+Len(t)
      BY <1>1, <3>1
    <3>3. SubSeq(s \o t, Len(s) + 1, Len(s) + Len(t)) = SubSeq(t, (Len(s) + 1) - Len(s), (Len(s) + Len(t)) - Len(s))
      BY <3>2, SubSeqOfConcat2
    <3>4. (Len(s) + 1) - Len(s) = 1 /\ (Len(s) + Len(t)) - Len(s) = Len(t)
      BY <1>1
    <3> QED
      BY <1>1, <3>3, <3>4, SubSeqFull
  <2> QED
    BY <2>1, <2>2
<1>4. Len(s) \in 0..Len(u)
  BY <1>1
<1>5. s \in Ledger!Prefixes(u)
  BY <1>2, <1>4 DEF Ledger!Prefixes
<1> HIDE DEF u
<1>6. s \in Ledger!SomeOf(u) /\ Ledger!Rest(u, s) = t
  BY <1>3, <1>5 DEF Ledger!SomeOf, Ledger!Rest
<1> QED
  BY <1>6 DEF u

(* Without a lag the caches show what is there. *)
CacheInv == ~set.lag => \A r \in Readers : cache[r] = hra

(* The installation does not change. *)
LEMMA SetStays == ASSUME [Next]_vars PROVE set' = set
<1> USE DEF github, server
<1>1. CASE GitHub
  BY <1>1 DEF GitHub, JobQueued, JobSkipped, JobStarts, JobEnds, RunnerLeaves, JobCancelled, Repeat, GoTo
<1>2. CASE Delivery
  BY <1>2 DEF Delivery, Handle, Lose
<1>3. CASE Server
  BY <1>3 DEF Server, WorkerTakes, BatchTakes, StartBatch, ServerRestarts
<1>4. CASE BatchScaler
  BY <1>4 DEF BatchScaler, Scale, ScaleFails, ScaleUnanswered
<1>5. CASE Controller
  BY <1>5 DEF Controller, Reconcile, ReconcileMisses, ReconcileFails, ReconcileTo
<1>6. CASE Surroundings
  BY <1>6 DEF Surroundings, DeleteHRA, CacheSyncs, ChangeOverride, Tick
<1>7. CASE UNCHANGED vars
  BY <1>7 DEF vars
<1> QED
  BY <1>1, <1>2, <1>3, <1>4, <1>5, <1>6, <1>7 DEF Next

(* The caches are up to date initially, *)
LEMMA CacheInvInit == Init => CacheInv
BY DEF Init, CacheInv

(* and stay so where they do not lag. *)
LEMMA CacheInvStep == TypeInv /\ CacheInv /\ [Next]_vars => CacheInv'
<1> SUFFICES ASSUME TypeInv, CacheInv, [Next]_vars, ~set'.lag PROVE \A r \in Readers : cache'[r] = hra'
  BY DEF CacheInv
<1> USE DEF github, server
<1>0. ~set.lag /\ \A r \in Readers : cache[r] = hra
  BY SetStays DEF CacheInv
<1>w. ASSUME NEW h, NEW v, Write(h, v) PROVE \A r \in Readers : cache'[r] = hra'
  BY <1>0, <1>w DEF Write
<1>1. CASE GitHub
  BY <1>0, <1>1 DEF GitHub, JobQueued, JobSkipped, JobStarts, JobEnds, RunnerLeaves, JobCancelled, Repeat, GoTo
<1>2. CASE Delivery
  BY <1>0, <1>2 DEF Delivery, Handle, Lose
<1>3. CASE Server
  BY <1>0, <1>3 DEF Server, WorkerTakes, BatchTakes, StartBatch, ServerRestarts
<1>4. CASE BatchScaler
  BY <1>0, <1>w, <1>4 DEF BatchScaler, Scale, ScaleFails, ScaleUnanswered
<1>5. CASE Controller
  BY <1>0, <1>w, <1>5 DEF Controller, Reconcile, ReconcileMisses, ReconcileFails, ReconcileTo
<1>6. CASE Surroundings
  <2>1. CASE Tick
    <3>1. \A r \in Readers : cache'[r] = [h \in HRAs |-> Older(cache[r][h])]
      BY <2>1 DEF Tick
    <3> QED
      BY <1>0, <2>1, <3>1 DEF Tick
  <2>2. ASSUME NEW r \in Readers, NEW h \in HRAs, CacheSyncs(r, h) PROVE FALSE
    BY <1>0, <2>2 DEF CacheSyncs
  <2> QED
    BY <1>0, <1>w, <1>6, <2>1, <2>2 DEF Surroundings, DeleteHRA, ChangeOverride
<1>7. CASE UNCHANGED vars
  BY <1>0, <1>7 DEF vars
<1> QED
  BY <1>1, <1>2, <1>3, <1>4, <1>5, <1>6, <1>7 DEF Next

(* The troubles of an installation are settled. *)
LEMMA TroublesStay == ASSUME [Next]_vars PROVE Troubles' = Troubles
BY SetStays DEF Troubles

(* What a batch that is written makes of the reservations *)
LEMMA PatchedLength ==
  ASSUME TypeInv, CacheInv, NEW h \in HRAs, Write(h, Patched(h))
  PROVE  /\ Len(hra'[h].res) \in Nat
         /\ ~set.lag => \E n \in 0..Len(hra[h].res) : Len(hra'[h].res) = Ledger!Booked(n, batch[h])
         /\ \A g \in HRAs \ {h} : hra'[g] = hra[g]
<1> DEFINE old == cache["webhook"][h].res
           new == Plan(old, batch[h])
<1>1. hra[h] \in HRAType /\ hra[h].res \in Seq(0..Duration) /\ old \in Seq(0..Duration) /\ batch[h] \in Seq({-1, 1})
  BY RecordFacts DEF Readers, TypeInv
<1>2. /\ new \in Seq(0..Duration) /\ Len(Valid(Renewed(old))) \in 0..Len(old)
      /\ Len(new) = Ledger!Booked(Len(Valid(Renewed(old))), batch[h])
  BY <1>1, PlanFacts
<1>3. ~set.lag => old = hra[h].res
  BY DEF CacheInv, Readers
<1>4. hra'[h] = Patched(h) /\ \A g \in HRAs \ {h} : hra'[g] = hra[g]
  BY DEF Write, TypeInv
<1>5. Patched(h).res = IF new = old THEN hra[h].res ELSE new
  BY <1>1 DEF Patched, HRAType
<1> HIDE DEF old, new
<1>6. Len(hra'[h].res) \in Nat
  BY <1>1, <1>2, <1>4, <1>5
<1>7. ~set.lag => Len(hra'[h].res) = Len(new)
  BY <1>3, <1>4, <1>5
<1> QED
  BY <1>2, <1>3, <1>4, <1>6, <1>7

(* A step that changes neither what is to be booked nor the number of *)
(* reservations is a stutter of the ledger.                           *)
LEMMA LedgerStutters ==
  ASSUME set' = set, \A h \in HRAs : Pending(h)' = Pending(h) /\ Len(hra'[h].res) = Len(hra[h].res)
  PROVE  UNCHANGED Ledger!ledger
<1>1. [h \in HRAs |-> Pending(h)]' = [h \in HRAs |-> Pending(h)]
  OBVIOUS
<1>2. [h \in HRAs |-> Len(hra[h].res)]' = [h \in HRAs |-> Len(hra[h].res)]
  OBVIOUS
<1>3. Troubles' = Troubles
  BY DEF Troubles
<1> QED
  BY <1>1, <1>2, <1>3 DEF Ledger!ledger

(* Only the batch scaler changes the number of reservations; the controller *)
(* writes the status only.                                                  *)
LEMMA ReservationsStay ==
  ASSUME TypeInv, GitHub \/ Delivery \/ Server \/ (\E h \in HRAs : ScaleFails(h)) \/ Controller \/ Surroundings
  PROVE  \A g \in HRAs : Len(hra'[g].res) = Len(hra[g].res)
<1> USE DEF github, server
<1>w. ASSUME NEW h \in HRAs, NEW v, Write(h, v), v.res = hra[h].res PROVE \A g \in HRAs : Len(hra'[g].res) = Len(hra[g].res)
  BY <1>w DEF Write, TypeInv
<1>1. CASE GitHub
  BY <1>1 DEF GitHub, JobQueued, JobSkipped, JobStarts, JobEnds, RunnerLeaves, JobCancelled, Repeat, GoTo
<1>2. CASE Delivery
  BY <1>2 DEF Delivery, Handle, Lose
<1>3. CASE Server
  BY <1>3 DEF Server, WorkerTakes, BatchTakes, StartBatch, ServerRestarts
<1>4. CASE \E h \in HRAs : ScaleFails(h)
  BY <1>4 DEF ScaleFails
<1>5. CASE Controller
  <2>1. ASSUME NEW h \in HRAs, Reconcile(h) \/ ReconcileMisses(h) PROVE \A g \in HRAs : Len(hra'[g].res) = Len(hra[g].res)
    <3>1. PICK n \in 0..MaxReplicas : ReconcileTo(h, n)
      BY <2>1, ControllerValue
    <3>2. WithStatus(h, cache["controller"][h], n).res = hra[h].res
      BY RecordFacts DEF WithStatus, HRAType
    <3> QED
      BY <1>w, <3>1, <3>2 DEF ReconcileTo
  <2>2. ASSUME NEW h \in HRAs, ReconcileFails(h) PROVE hra' = hra
    BY <2>2 DEF ReconcileFails
  <2> QED
    BY <1>5, <2>1, <2>2 DEF Controller
<1>6. CASE Surroundings
  <2>1. ASSUME NEW h \in HRAs, DeleteHRA(h) PROVE \A g \in HRAs : Len(hra'[g].res) = Len(hra[g].res)
    <3>1. [hra[h] EXCEPT !.live = FALSE].res = hra[h].res
      BY RecordFacts DEF HRAType
    <3> QED
      BY <1>w, <2>1, <3>1 DEF DeleteHRA
  <2>2. CASE Tick
    BY <2>2, RecordFacts, OlderType DEF Tick
  <2> QED
    BY <1>6, <2>1, <2>2 DEF Surroundings, CacheSyncs, ChangeOverride
<1> QED
  BY <1>1, <1>2, <1>3, <1>4, <1>5, <1>6

(* The steps after which the same triggers wait in the same order *)
LEMMA PendingStays ==
  ASSUME TypeInv, \/ GitHub \/ Controller \/ Surroundings \/ WorkerTakes \/ BatchTakes \/ StartBatch
                  \/ \E h \in HRAs : ScaleFails(h) \/ ScaleUnanswered(h)
                  \/ \E j \in Jobs, e \in {"queued", "completed"} : Lose(j, e) \/ (Handle(j, e) /\ UNCHANGED queue)
  PROVE  \A g \in HRAs : Pending(g)' = Pending(g)
<1> USE DEF github, server
<1>1. CASE WorkerTakes \/ BatchTakes \/ StartBatch
  BY <1>1, PassedOnPending
<1>2. CASE GitHub
  BY <1>2, SamePending DEF GitHub, JobQueued, JobSkipped, JobStarts, JobEnds, RunnerLeaves, JobCancelled, Repeat, GoTo
<1>3. CASE Controller
  BY <1>3, SamePending DEF Controller, Reconcile, ReconcileMisses, ReconcileFails, ReconcileTo
<1>4. CASE Surroundings
  BY <1>4, SamePending DEF Surroundings, DeleteHRA, CacheSyncs, ChangeOverride, Tick
<1>5. ASSUME NEW h \in HRAs, ScaleFails(h) \/ ScaleUnanswered(h) PROVE \A g \in HRAs : Pending(g)' = Pending(g)
  BY <1>5, SamePending DEF ScaleFails, ScaleUnanswered
<1>6. ASSUME NEW j \in Jobs, NEW e \in {"queued", "completed"}, Lose(j, e) \/ (Handle(j, e) /\ UNCHANGED queue)
      PROVE  \A g \in HRAs : Pending(g)' = Pending(g)
  BY <1>6, SamePending DEF Lose, Handle
<1> QED
  BY <1>1, <1>2, <1>3, <1>4, <1>5, <1>6

(* The variables of the ledger, by the refinement mapping *)
pendingOf == [h \in HRAs |-> Pending(h)]
reservedOf == [h \in HRAs |-> Len(hra[h].res)]

(* The variables of the ledger, HRA by HRA *)
LEMMA PendFacts ==
  ASSUME TypeInv
  PROVE  /\ \A h \in HRAs : pendingOf[h] = Pending(h) /\ pendingOf'[h] = Pending(h)' /\ reservedOf[h] = Len(hra[h].res) /\ reservedOf'[h] = Len(hra'[h].res)
         /\ DOMAIN pendingOf = HRAs /\ DOMAIN pendingOf' = HRAs /\ DOMAIN reservedOf = HRAs /\ DOMAIN reservedOf' = HRAs
BY DEF pendingOf, reservedOf

(* A change of what is to be booked for one HRA *)
LEMMA PendUpdate ==
  ASSUME NEW h \in HRAs, NEW v, Pending(h)' = v, \A g \in HRAs \ {h} : Pending(g)' = Pending(g)
  PROVE  pendingOf' = [pendingOf EXCEPT ![h] = v]
BY DEF pendingOf

(* A change of what is reserved for one HRA *)
LEMMA ResvUpdate ==
  ASSUME NEW h \in HRAs, NEW v, Len(hra'[h].res) = v, \A g \in HRAs \ {h} : Len(hra'[g].res) = Len(hra[g].res)
  PROVE  reservedOf' = [reservedOf EXCEPT ![h] = v]
BY DEF reservedOf

(* An event that becomes a trigger is accepted by the ledger. *)
LEMMA LedgerAccepts ==
  ASSUME TypeInv, [Next]_vars, NEW j \in Jobs, NEW e \in {"queued", "completed"}, Handle(j, e), ~UNCHANGED queue
  PROVE  Ledger!Next
<1>1. PICK h \in Found(j) : queue' = Append(queue, <<h, Amount(j, e)>>) /\ Amount(j, e) # 0
  BY DEF Handle
<1>2. <<h, Amount(j, e)>> \in Triggers /\ h \in HRAs /\ Amount(j, e) \in {-1, 1}
  BY <1>1 DEF Triggers, Amount, Found
<1>3. UNCHANGED <<held, batch>>
  BY DEF Handle
<1>4. \A g \in HRAs : Pending(g)' = IF g = h THEN Append(Pending(g), Amount(j, e)) ELSE Pending(g)
  BY <1>1, <1>2, <1>3, AcceptedPending
<1>5. pendingOf' = [pendingOf EXCEPT ![h] = Append(pendingOf[h], Amount(j, e))]
  BY <1>2, <1>4, PendUpdate, PendFacts
<1>6. reservedOf' = reservedOf
  <2>1. \A g \in HRAs : Len(hra'[g].res) = Len(hra[g].res)
    BY ReservationsStay DEF Delivery
  <2> QED
    BY <2>1 DEF reservedOf
<1>7. Ledger!Accept(h)
  BY <1>2, <1>5, <1>6 DEF Ledger!Accept, pendingOf, reservedOf
<1> QED
  BY <1>2, <1>7, TroublesStay DEF Ledger!Next

(* A batch that is written is booked: on the count there is, or on one of *)
(* the past where the cache lags.                                         *)
LEMMA LedgerBooks ==
  ASSUME TypeInv, CacheInv, [Next]_vars, NEW h \in HRAs, Scale(h)
  PROVE  Ledger!Next
<1>1. h \in todo /\ Done(h) /\ UNCHANGED <<queue, held>> /\ Write(h, Patched(h))
  BY DEF Scale
<1>2. batch[h] # <<>> /\ batch[h] \in Seq({-1, 1})
  BY <1>1 DEF TypeInv, InBatch
<1>3. /\ \A g \in HRAs \ {h} : Pending(g)' = Pending(g)
      /\ Pending(h)' \in Seq({-1, 1}) /\ Pending(h) = batch[h] \o Pending(h)'
  BY <1>1, BookedPending
<1>4. batch[h] \in Ledger!SomeOf(Pending(h)) /\ Ledger!Rest(Pending(h), batch[h]) = Pending(h)'
  BY <1>2, <1>3, PrefixFacts
<1>5. pendingOf' = [pendingOf EXCEPT ![h] = Ledger!Rest(pendingOf[h], batch[h])] /\ batch[h] \in Ledger!SomeOf(pendingOf[h])
  BY <1>3, <1>4, PendUpdate, PendFacts
<1>6. /\ Len(hra'[h].res) \in Nat
      /\ ~set.lag => \E n \in 0..Len(hra[h].res) : Len(hra'[h].res) = Ledger!Booked(n, batch[h])
      /\ \A g \in HRAs \ {h} : hra'[g] = hra[g]
  BY <1>1, PatchedLength
<1>7. reservedOf' = [reservedOf EXCEPT ![h] = Len(hra'[h].res)]
  BY <1>6, ResvUpdate
<1>8. CASE ~set.lag
  <2>1. PICK n \in 0..reservedOf[h] : Len(hra'[h].res) = Ledger!Booked(n, batch[h])
    BY <1>6, <1>8, PendFacts
  <2>2. Ledger!Book(h)
    <3>1. reservedOf' = [reservedOf EXCEPT ![h] = Ledger!Booked(n, batch[h])]
      BY <1>7, <2>1
    <3> QED
      BY <1>5, <2>1, <3>1 DEF Ledger!Book, pendingOf, reservedOf
  <2> QED
    BY <2>2, TroublesStay DEF Ledger!Next
<1>9. CASE set.lag
  <2>1. "stale" \in Troubles
    BY <1>9 DEF Troubles
  <2>2. reservedOf'[h] \in Nat /\ \A g \in HRAs \ {h} : reservedOf'[g] = reservedOf[g]
    BY <1>6, PendFacts
  <2>3. Ledger!BookOnStale(h)
    BY <1>5, <2>2 DEF Ledger!BookOnStale, pendingOf, reservedOf
  <2> QED
    BY <2>1, <2>3, TroublesStay DEF Ledger!Next
<1> QED
  BY <1>8, <1>9

(* A batch that is written without an answer is booked, and stays pending. *)
LEMMA LedgerRebooks ==
  ASSUME TypeInv, CacheInv, [Next]_vars, NEW h \in HRAs, ScaleUnanswered(h)
  PROVE  Ledger!Next
<1>1. h \in todo /\ Write(h, Patched(h)) /\ set.unanswered
  BY DEF ScaleUnanswered
<1>2. batch[h] # <<>> /\ batch[h] \in Seq({-1, 1})
  BY <1>1 DEF TypeInv, InBatch
<1>3. Amounts(Ahead \o queue, h) \in Seq({-1, 1}) /\ Pending(h) = batch[h] \o Amounts(Ahead \o queue, h)
  BY AheadType
<1>4. batch[h] \in Ledger!SomeOf(pendingOf[h])
  <2>1. batch[h] \in Ledger!SomeOf(Pending(h))
    <3> DEFINE w == Amounts(Ahead \o queue, h)
               X == {-1, 1}
    <3>1. batch[h] \in Seq(X) /\ w \in Seq(X) /\ Pending(h) = batch[h] \o w
      BY <1>2, <1>3
    <3> HIDE DEF w, X
    <3> QED
      BY <1>2, <3>1, PrefixFacts
  <2> QED
    BY <2>1, PendFacts
<1>5. pendingOf' = pendingOf
  <2>1. \A g \in HRAs : Pending(g)' = Pending(g)
    BY PendingStays
  <2> QED
    BY <2>1 DEF pendingOf
<1>6. /\ Len(hra'[h].res) \in Nat
      /\ ~set.lag => \E n \in 0..Len(hra[h].res) : Len(hra'[h].res) = Ledger!Booked(n, batch[h])
      /\ \A g \in HRAs \ {h} : hra'[g] = hra[g]
  BY <1>1, PatchedLength
<1>7. reservedOf' = [reservedOf EXCEPT ![h] = Len(hra'[h].res)]
  BY <1>6, ResvUpdate
<1>t. "unanswered" \in Troubles
  BY <1>1 DEF Troubles
<1>8. CASE ~set.lag
  <2>1. PICK n \in 0..reservedOf[h] : Len(hra'[h].res) = Ledger!Booked(n, batch[h])
    BY <1>6, <1>8, PendFacts
  <2>2. Ledger!Rebook(h)
    <3>1. reservedOf' = [reservedOf EXCEPT ![h] = Ledger!Booked(n, batch[h])]
      BY <1>7, <2>1
    <3> QED
      BY <1>4, <1>5, <2>1, <3>1 DEF Ledger!Rebook, pendingOf, reservedOf
  <2> QED
    BY <1>t, <2>2, TroublesStay DEF Ledger!Next
<1>9. CASE set.lag
  <2>1. "stale" \in Troubles
    BY <1>9 DEF Troubles
  <2>2. reservedOf'[h] \in Nat /\ \A g \in HRAs \ {h} : reservedOf'[g] = reservedOf[g]
    BY <1>6, PendFacts
  <2>3. Ledger!BookOnStale(h)
    BY <1>t, <1>4, <1>5, <2>2 DEF Ledger!BookOnStale, pendingOf, reservedOf
  <2> QED
    BY <2>1, <2>3, TroublesStay DEF Ledger!Next
<1> QED
  BY <1>8, <1>9

(* Empty lists leave nothing to be booked. *)
LEMMA NothingPending ==
  ASSUME NEW h \in HRAs, queue = <<>>, held = <<>>, batch[h] = <<>>
  PROVE  Pending(h) = <<>>
<1>1. <<>> \o <<>> = <<>>
  OBVIOUS
<1> QED
  BY <1>1, AmountsEmpty DEF Pending

(* A server that restarts forgets. *)
LEMMA LedgerForgets ==
  ASSUME TypeInv, [Next]_vars, ServerRestarts
  PROVE  Ledger!Next
<1>1. \A h \in HRAs : Pending(h)' = <<>>
  <2> TAKE h \in HRAs
  <2>1. queue' = <<>> /\ held' = <<>> /\ batch'[h] = <<>>
    BY DEF ServerRestarts
  <2>2. Pending(h)' = batch'[h] \o Amounts((IF held' = <<>> THEN <<>> ELSE <<held'>>) \o queue', h)
    BY DEF Pending
  <2>3. <<>> \o <<>> = <<>>
    OBVIOUS
  <2> QED
    BY <2>1, <2>2, <2>3, AmountsEmpty
<1>2. [h \in HRAs |-> Pending(h)]' = [h \in HRAs |-> <<>>]
  BY <1>1
<1>3. [h \in HRAs |-> Len(hra[h].res)]' = [h \in HRAs |-> Len(hra[h].res)]
  BY DEF ServerRestarts
<1>4. "restarts" \in Troubles
  <2>1. uses["restarts"] \in Nat /\ set["restarts"] \in Nat /\ uses["restarts"] < set["restarts"]
    BY UsesStep DEF ServerRestarts
  <2> QED
    BY <2>1 DEF Troubles
<1> QED
  BY <1>2, <1>3, <1>4, TroublesStay DEF Ledger!Next, Ledger!Forget

(* The ledger starts as the ledger starts. *)
LEMMA LedgerInit == Init => Ledger!Init
<1> SUFFICES ASSUME Init PROVE Ledger!Init
  OBVIOUS
<1>1. \A h \in HRAs : Pending(h) = <<>>
  BY NothingPending DEF Init
<1>2. \A h \in HRAs : Len(hra[h].res) = 0
  <2> TAKE h \in HRAs
  <2>1. hra[h].res = <<>>
    BY DEF Init, NewHRA
  <2> QED
    BY <2>1
<1>3. Troubles \subseteq {"restarts", "unanswered", "stale"}
  BY DEF Troubles
<1> QED
  BY <1>1, <1>2, <1>3 DEF Ledger!Init

(* Every step of the autoscaler is a step of the ledger or leaves it alone. *)
LEMMA LedgerStep == TypeInv /\ CacheInv /\ [Next]_vars => [Ledger!Next]_Ledger!ledger
<1> SUFFICES ASSUME TypeInv, CacheInv, [Next]_vars PROVE Ledger!Next \/ UNCHANGED Ledger!ledger
  OBVIOUS
<1>0. set' = set
  BY SetStays
<1>1. CASE GitHub \/ Controller \/ Surroundings
  BY <1>0, <1>1, PendingStays, ReservationsStay, LedgerStutters
<1>2. CASE Delivery
  <2>1. ASSUME NEW j \in Jobs, NEW e \in {"queued", "completed"}, Lose(j, e) \/ (Handle(j, e) /\ UNCHANGED queue)
        PROVE  UNCHANGED Ledger!ledger
    BY <1>0, <1>2, <2>1, PendingStays, ReservationsStay, LedgerStutters
  <2> QED
    BY <1>2, <2>1, LedgerAccepts DEF Delivery
<1>3. CASE Server
  <2>1. CASE WorkerTakes \/ BatchTakes \/ StartBatch
    BY <1>0, <1>3, <2>1, PendingStays, ReservationsStay, LedgerStutters
  <2> QED
    BY <1>3, <2>1, LedgerForgets DEF Server
<1>4. CASE BatchScaler
  <2>1. ASSUME NEW h \in HRAs, ScaleFails(h) PROVE UNCHANGED Ledger!ledger
    BY <1>0, <2>1, PendingStays, ReservationsStay, LedgerStutters
  <2> QED
    BY <1>4, <2>1, LedgerBooks, LedgerRebooks DEF BatchScaler
<1>5. CASE UNCHANGED vars
  <2>1. \A h \in HRAs : Pending(h)' = Pending(h)
    BY <1>5, SamePending DEF vars
  <2> QED
    BY <1>0, <1>5, <2>1, LedgerStutters DEF vars
<1> QED
  BY <1>1, <1>2, <1>3, <1>4, <1>5 DEF Next

(* Theorem: the queue, the worker and the batch scaler implement the    *)
(* ledger, for all installations: a trigger that was answered is booked *)
(* once and in its order; what lagging caches, unanswered calls and     *)
(* restarts can do to it is what the ledger allows, and no more.        *)
THEOREM AutoscalerImplementsLedger == Spec => ImplementsLedger
<1>1. Init => TypeInv /\ CacheInv
  BY TypeInvInit, CacheInvInit
<1>2. TypeInv /\ CacheInv /\ [Next]_vars => TypeInv' /\ CacheInv'
  BY TypeInvStep, CacheInvStep
<1>3. Init => Ledger!Init
  BY LedgerInit
<1>4. TypeInv /\ CacheInv /\ [Next]_vars => [Ledger!Next]_Ledger!ledger
  BY LedgerStep
<1> QED
  BY <1>1, <1>2, <1>3, <1>4, PTL DEF Spec, ImplementsLedger, Ledger!Spec

-----------------------------------------------------------------------------
(***************************************************************************)
(* The delay of a scale-down                                               *)
(***************************************************************************)

(* The replicas that the status tells of; 1 is the default of the API *)
(* server.                                                            *)
Known(h) == IF hra[h].desired = None THEN 1 ELSE hra[h].desired
Kept(h) ==
    /\ Replicas(h) = Known(h)
    /\ grown[h] > 0 => hra[h].desired # None /\ hra[h].hold >= grown[h]
(* The status tells the replicas of the target, and since when, unless a *)
(* status was not written: then unkept says so until the target grows    *)
(* again.                                                                *)
DelayInv == ~set.lag => \A h \in HRAs : unkept[h] \/ Kept(h)

(* What UpdateTarget does to the target, and to its history *)
LEMMA TargetFacts ==
  ASSUME TypeInv, NEW h \in HRAs, NEW n \in 0..MaxReplicas, UpdateTarget(h, n)
  PROVE  /\ Replicas(h)' = n
         /\ grown'[h] = IF n > Replicas(h) THEN Delay ELSE grown[h]
         /\ target'[h].effective = Effective(cache["controller"][h], target[h].effective)
         /\ \A g \in HRAs \ {h} : target'[g] = target[g] /\ Replicas(g)' = Replicas(g) /\ grown'[g] = grown[g]
<1>1. target'[h] = [replicas |-> IF Replicas(h) = n THEN target[h].replicas ELSE n,
                    effective |-> Effective(cache["controller"][h], target[h].effective)]
  BY DEF UpdateTarget, TypeInv
<1>2. \A g \in HRAs \ {h} : target'[g] = target[g] /\ grown'[g] = grown[g]
  BY DEF UpdateTarget, TypeInv
<1>3. n # None
  BY DEF None
<1>4. Replicas(h)' = n
  BY <1>1, <1>3 DEF Replicas
<1>5. \A g \in HRAs \ {h} : Replicas(g)' = Replicas(g)
  BY <1>2 DEF Replicas
<1>6. grown'[h] = IF n > Replicas(h) THEN Delay ELSE grown[h]
  BY DEF UpdateTarget, TypeInv
<1> QED
  BY <1>1, <1>2, <1>4, <1>5, <1>6

(* A write changes one HRA. *)
LEMMA WriteFacts ==
  ASSUME TypeInv, NEW h \in HRAs, NEW v, Write(h, v)
  PROVE  hra'[h] = v /\ \A g \in HRAs \ {h} : hra'[g] = hra[g]
BY DEF Write, TypeInv

(* Who leaves target and status alone keeps the delay. *)
LEMMA SameKept ==
  ASSUME NEW h \in HRAs, target'[h] = target[h], grown'[h] = grown[h], hra'[h].desired = hra[h].desired, hra'[h].hold = hra[h].hold, Kept(h)
  PROVE  Kept(h)'
BY DEF Kept, Known, Replicas

(* What the controller wants is no less than what it knows, while it has to wait. *)
LEMMA DesiredWaits ==
  ASSUME TypeInv, NEW h \in HRAs, Reconcilable(h), NEW sg \in Int,
         cache["controller"][h] = hra[h], hra[h].desired # None, hra[h].hold > 0
  PROVE  Desired(cache["controller"][h], sg) >= hra[h].desired
<1> DEFINE c == hra[h]
<1>1. c.desired \in 0..MaxReplicas
  BY RecordFacts DEF Counts
<1>2. Desired(c, sg) \in 0..MaxReplicas
  BY DesiredType
<1>3. Desired(c, sg) = IF c.desired >= Wanted(c, sg) THEN c.desired ELSE Wanted(c, sg)
  BY DEF Desired
<1> HIDE DEF c
<1>4. MaxReplicas \in Nat
  BY AutoscalerAssumption
<1>5. CASE c.desired >= Wanted(c, sg)
  BY <1>1, <1>3, <1>4, <1>5 DEF c
<1>6. CASE ~(c.desired >= Wanted(c, sg))
  <2>1. Desired(c, sg) = Wanted(c, sg) /\ Wanted(c, sg) \in Int
    BY <1>2, <1>3, <1>4, <1>6
  <2>2. Desired(c, sg) >= c.desired
    BY <1>1, <1>4, <1>6, <2>1
  <2> QED
    BY <2>2 DEF c
<1> QED
  BY <1>5, <1>6

(* The status after a reconcile that saw the HRA as it is *)
LEMMA StatusFacts ==
  ASSUME TypeInv, NEW h \in HRAs, NEW n \in 0..MaxReplicas, cache["controller"][h] = hra[h], ReconcileTo(h, n)
  PROVE  /\ hra'[h].desired = n
         /\ hra'[h].hold = IF n # hra[h].desired /\ Grows(hra[h], n) THEN Delay ELSE hra[h].hold
         /\ unkept'[h] \/ ~unkept[h] \/ Grows(hra[h], n)
         /\ \A g \in HRAs \ {h} : hra'[g] = hra[g] /\ unkept'[g] = unkept[g]
<1>1. hra'[h] = WithStatus(h, hra[h], n) /\ \A g \in HRAs \ {h} : hra'[g] = hra[g]
  BY WriteFacts DEF ReconcileTo
<1>2. hra[h] \in HRAType
  BY RecordFacts
<1>3. WithStatus(h, hra[h], n).desired = n /\ WithStatus(h, hra[h], n).hold = IF n # hra[h].desired /\ Grows(hra[h], n) THEN Delay ELSE hra[h].hold
  BY <1>2 DEF WithStatus, HRAType
<1>4. unkept' = [unkept EXCEPT ![h] = @ /\ ~Grows(hra[h], n)]
  BY DEF ReconcileTo
<1> QED
  BY <1>1, <1>3, <1>4 DEF TypeInv

(* A reconciliation keeps the delay, of other HRAs too. *)
LEMMA ReconcileKeeps ==
  ASSUME TypeInv, ~set.lag, NEW h \in HRAs, NEW n \in 0..MaxReplicas, cache["controller"][h] = hra[h], ReconcileTo(h, n),
         \A g \in HRAs : unkept[g] \/ Kept(g)
  PROVE  \A g \in HRAs : unkept'[g] \/ Kept(g)'
<1>1. UpdateTarget(h, n)
  BY DEF ReconcileTo
<1>2. ASSUME NEW g \in HRAs \ {h} PROVE unkept'[g] \/ Kept(g)'
  BY <1>1, <1>2, StatusFacts, TargetFacts, SameKept
<1>3. ASSUME ~unkept'[h] PROVE Kept(h)'
  <2>1. /\ Replicas(h)' = n /\ hra'[h].desired = n /\ n # None
        /\ grown'[h] = IF n > Replicas(h) THEN Delay ELSE grown[h]
        /\ hra'[h].hold = IF n # hra[h].desired /\ Grows(hra[h], n) THEN Delay ELSE hra[h].hold
    BY <1>1, StatusFacts, TargetFacts DEF None
  <2>g. ~unkept[h] \/ Grows(hra[h], n)
    BY <1>3, StatusFacts
  <2>2. Delay \in Nat /\ grown[h] \in 0..Delay /\ hra[h].hold \in 0..Delay /\ hra[h].desired \in Counts /\ Replicas(h) \in Nat /\ MaxReplicas \in Nat
    BY AutoscalerAssumption, RecordFacts DEF TypeInv
  <2>3. Known(h)' = n
    BY <2>1 DEF Known
  <2>4. grown'[h] =< Delay
    BY <2>1, <2>2
  <2>5. CASE Grows(hra[h], n)
    <3>1. n # hra[h].desired
      BY <2>2, <2>5 DEF Grows, Counts, None
    <3>2. hra'[h].hold = Delay
      BY <2>1, <2>5, <3>1
    <3> QED
      BY <2>1, <2>2, <2>3, <2>4, <3>2 DEF Kept
  <2>6. CASE ~Grows(hra[h], n)
    <3>1. Kept(h) /\ hra'[h].hold = hra[h].hold
      BY <2>1, <2>g, <2>6
    <3>2. ~(n > Replicas(h))
      BY <2>6, <3>1 DEF Kept, Known, Grows
    <3>3. grown'[h] = grown[h]
      BY <2>1, <3>2
    <3> QED
      BY <2>1, <2>3, <3>1, <3>3 DEF Kept
  <2> QED
    BY <2>5, <2>6
<1> QED
  BY <1>2, <1>3

(* So does the controller, whichever of its writes fails. *)
LEMMA ControllerKeeps ==
  ASSUME TypeInv, ~set.lag, NEW h \in HRAs, Reconcile(h) \/ ReconcileMisses(h) \/ ReconcileFails(h),
         cache["controller"][h] = hra[h], \A g \in HRAs : unkept[g] \/ Kept(g)
  PROVE  \A g \in HRAs : unkept'[g] \/ Kept(g)'
<1>1. CASE Reconcile(h) \/ ReconcileMisses(h)
  <2>1. PICK n \in 0..MaxReplicas : ReconcileTo(h, n)
    BY <1>1, ControllerValue
  <2> QED
    BY <2>1, ReconcileKeeps
<1>2. CASE ReconcileFails(h)
  <2>1. PICK n \in 0..MaxReplicas : UpdateTarget(h, n) /\ unkept' = [unkept EXCEPT ![h] = @ \/ n # Replicas(h)]
    BY <1>2, FailedValue
  <2>2. hra' = hra /\ \A g \in HRAs \ {h} : unkept'[g] = unkept[g]
    BY <1>2, <2>1 DEF ReconcileFails, TypeInv
  <2>3. ASSUME NEW g \in HRAs \ {h} PROVE unkept'[g] \/ Kept(g)'
    BY <2>1, <2>2, <2>3, TargetFacts, SameKept
  <2>4. ASSUME ~unkept'[h] PROVE Kept(h)'
    <3>1. ~unkept[h] /\ n = Replicas(h)
      BY <2>1, <2>4 DEF TypeInv
    <3>2. Replicas(h)' = Replicas(h) /\ grown'[h] = grown[h]
      BY <2>1, <3>1, TargetFacts, RecordFacts
    <3> QED
      BY <2>2, <3>1, <3>2 DEF Kept, Known
  <2> QED
    BY <2>3, <2>4
<1> QED
  BY <1>1, <1>2

(* The delay is kept initially. *)
LEMMA DelayInvInit == Init => DelayInv
BY DEF Init, DelayInv, Kept, Known, Replicas, NewHRA, None

(* The steps that leave alone what the delay depends on. *)
DelayAside ==
    /\ UNCHANGED <<target, grown, unkept>>
    /\ \A g \in HRAs : hra'[g].desired = hra[g].desired /\ hra'[g].hold = hra[g].hold

(* Only the controller and the clock touch what the delay is about. *)
LEMMA DelayAsides ==
  ASSUME TypeInv, \/ GitHub \/ Delivery \/ Server \/ BatchScaler \/ UNCHANGED vars
                  \/ \E h \in HRAs : DeleteHRA(h)
                  \/ \E r \in Readers, h \in HRAs : CacheSyncs(r, h)
                  \/ \E n \in Counts : ChangeOverride(n)
  PROVE  DelayAside
<1> USE DEF github, server
<1>w. ASSUME NEW h \in HRAs, NEW v, Write(h, v), v.desired = hra[h].desired, v.hold = hra[h].hold
      PROVE  \A g \in HRAs : hra'[g].desired = hra[g].desired /\ hra'[g].hold = hra[g].hold
  BY <1>w, WriteFacts
<1>1. CASE GitHub
  BY <1>1 DEF DelayAside, GitHub, JobQueued, JobSkipped, JobStarts, JobEnds, RunnerLeaves, JobCancelled, Repeat, GoTo
<1>2. CASE Delivery
  BY <1>2 DEF DelayAside, Delivery, Handle, Lose
<1>3. CASE Server
  BY <1>3 DEF DelayAside, Server, WorkerTakes, BatchTakes, StartBatch, ServerRestarts
<1>4. CASE BatchScaler
  <2>1. \A h \in HRAs : Patched(h).desired = hra[h].desired /\ Patched(h).hold = hra[h].hold
    BY RecordFacts DEF Patched, HRAType
  <2> QED
    BY <1>w, <1>4, <2>1 DEF DelayAside, BatchScaler, Scale, ScaleFails, ScaleUnanswered
<1>5. ASSUME NEW h \in HRAs, DeleteHRA(h) PROVE DelayAside
  <2>1. [hra[h] EXCEPT !.live = FALSE].desired = hra[h].desired /\ [hra[h] EXCEPT !.live = FALSE].hold = hra[h].hold
    BY RecordFacts DEF HRAType
  <2> QED
    BY <1>w, <1>5, <2>1 DEF DelayAside, DeleteHRA
<1>6. CASE (\E r \in Readers, h \in HRAs : CacheSyncs(r, h)) \/ (\E n \in Counts : ChangeOverride(n))
  BY <1>6 DEF DelayAside, CacheSyncs, ChangeOverride
<1>7. CASE UNCHANGED vars
  BY <1>7 DEF DelayAside, vars
<1> QED
  BY <1>1, <1>2, <1>3, <1>4, <1>5, <1>6, <1>7

(* The clock takes from the delay what it takes from the history of the *)
(* growth.                                                              *)
LEMMA TickKeeps ==
  ASSUME TypeInv, Tick, NEW g \in HRAs, unkept[g] \/ Kept(g)
  PROVE  unkept'[g] \/ Kept(g)'
<1>1. unkept' = unkept /\ grown'[g] = Less(grown[g]) /\ hra'[g] = Older(hra[g]) /\ target'[g] = [target[g] EXCEPT !.effective = Less(@)]
  BY DEF Tick
<1>2. hra'[g].desired = hra[g].desired /\ hra'[g].hold = Less(hra[g].hold)
  BY <1>1, RecordFacts DEF Older, HRAType
<1>3. target'[g].replicas = target[g].replicas
  BY <1>1 DEF TypeInv
<1>4. Replicas(g)' = Replicas(g) /\ Known(g)' = Known(g)
  BY <1>2, <1>3 DEF Replicas, Known
<1>5. grown[g] \in 0..Delay /\ hra[g].hold \in 0..Delay /\ Delay \in Nat
  BY RecordFacts, AutoscalerAssumption DEF TypeInv
<1>6. grown[g] > 0 /\ hra[g].hold >= grown[g] => Less(hra[g].hold) >= Less(grown[g])
  BY <1>5 DEF Less
<1>7. Less(grown[g]) > 0 => grown[g] > 0
  BY <1>5 DEF Less
<1> QED
  BY <1>1, <1>2, <1>4, <1>6, <1>7 DEF Kept

(* Every step keeps the delay. *)
LEMMA DelayInvStep == TypeInv /\ CacheInv /\ DelayInv /\ [Next]_vars => DelayInv'
<1> SUFFICES ASSUME TypeInv, CacheInv, DelayInv, [Next]_vars, ~set'.lag PROVE \A g \in HRAs : unkept'[g] \/ Kept(g)'
  BY DEF DelayInv
<1>0. ~set.lag /\ (\A h \in HRAs : cache["controller"][h] = hra[h]) /\ \A g \in HRAs : unkept[g] \/ Kept(g)
  BY SetStays DEF CacheInv, DelayInv, Readers
<1>1. ASSUME DelayAside PROVE \A g \in HRAs : unkept'[g] \/ Kept(g)'
  BY <1>0, <1>1, SameKept DEF DelayAside
<1>2. CASE Controller
  BY <1>0, <1>2, ControllerKeeps DEF Controller
<1>3. CASE Tick
  BY <1>0, <1>3, TickKeeps
<1> QED
  BY <1>1, <1>2, <1>3, DelayAsides DEF Next, Surroundings

(* Within the delay the target does not shrink. *)
LEMMA DelayIsKept ==
  ASSUME TypeInv, CacheInv, DelayInv, [Next]_vars, NEW h \in HRAs, ~set.lag, Replicas(h)' < Replicas(h)
  PROVE  grown[h] = 0 \/ unkept[h]
<1>2. CASE Tick
  <2>1. target'[h] = [target[h] EXCEPT !.effective = Less(@)]
    BY <1>2 DEF Tick
  <2>2. Replicas(h)' = Replicas(h)
    BY <2>1 DEF Replicas, TypeInv
  <2> QED
    BY <2>2, RecordFacts
<1>3. ASSUME NEW g \in HRAs, Reconcile(g) \/ ReconcileMisses(g) \/ ReconcileFails(g), grown[h] > 0, ~unkept[h] PROVE FALSE
  <2>1. PICK sg \in Int : /\ Desired(cache["controller"][g], sg) \in 0..MaxReplicas
                          /\ UpdateTarget(g, Desired(cache["controller"][g], sg))
    BY <1>3, ControllerValue, FailedValue DEF ReconcileTo
  <2>2. g = h
    <3>1. \A f \in HRAs \ {g} : Replicas(f)' = Replicas(f)
      BY <2>1, TargetFacts
    <3>2. Replicas(h) \in Nat
      BY RecordFacts
    <3> QED
      BY <3>1, <3>2
  <2>3. Replicas(h)' = Desired(cache["controller"][h], sg)
    BY <2>1, <2>2, TargetFacts
  <2>4. Reconcilable(h)
    BY <1>3, <2>2 DEF Reconcile, ReconcileMisses, ReconcileFails
  <2>5. cache["controller"][h] = hra[h] /\ Kept(h)
    BY <1>3 DEF CacheInv, DelayInv, Readers
  <2>6. hra[h].desired # None /\ Replicas(h) = hra[h].desired /\ hra[h].hold >= grown[h]
    BY <1>3, <2>5 DEF Kept, Known
  <2>7. hra[h].hold > 0
    BY <1>3, <2>6, RecordFacts DEF TypeInv
  <2>8. Desired(cache["controller"][h], sg) >= hra[h].desired
    BY <2>4, <2>5, <2>6, <2>7, DesiredWaits
  <2> QED
    BY <2>1, <2>2, <2>3, <2>6, <2>8, RecordFacts
<1>4. grown[h] \in 0..Delay /\ Delay \in Nat
  BY AutoscalerAssumption DEF TypeInv
<1>5. CASE Controller
  <2>1. ~(grown[h] > 0) \/ unkept[h]
    BY <1>3, <1>5 DEF Controller
  <2> QED
    BY <1>4, <2>1
<1>6. CASE Replicas(h)' = Replicas(h)
  BY <1>6, RecordFacts
<1>7. DelayAside => Replicas(h)' = Replicas(h)
  BY DEF DelayAside, Replicas
<1> QED
  BY <1>2, <1>5, <1>6, <1>7, DelayAsides DEF Next, Surroundings

-----------------------------------------------------------------------------
(***************************************************************************)
(* Effective times                                                         *)
(***************************************************************************)

(* Reservations are kept in the order in which they expire: a new one lasts *)
(* longest. The last one lasts no shorter than the effective time of the    *)
(* target, which is that of an earlier last one.                            *)
Ascending(s) == \A i, k \in 1..Len(s) : i =< k => s[i] =< s[k]
Fresh(s, e) == s # <<>> => s[Len(s)] >= e
Good(s, e) == s \in Seq(0..Duration) /\ Ascending(s) /\ Fresh(s, e)
Times == {None} \cup 0..Duration

(* Reservations expire in the order of the list, and the last of them not *)
(* before the effective time of the target.                               *)
OrderInv == ~set.lag => \A h \in HRAs : Good(hra[h].res, target[h].effective)

(* The times in a list of reservations *)
LEMMA ElementFacts ==
  ASSUME NEW s \in Seq(0..Duration)
  PROVE  /\ Duration \in Nat /\ Len(s) \in Nat /\ DOMAIN s = 1..Len(s)
         /\ \A i \in 1..Len(s) : s[i] \in Nat /\ s[i] \in 0..Duration
         /\ s # <<>> => Len(s) \in 1..Len(s) /\ 1 \in 1..Len(s)
         /\ s = <<>> => Len(s) = 0
<1>1. Duration \in Nat
  BY AutoscalerAssumption
<1>2. Len(s) \in Nat /\ DOMAIN s = 1..Len(s)
  BY LenProperties
<1>3. \A i \in 1..Len(s) : s[i] \in 0..Duration
  BY ElementOfSeq
<1>4. s # <<>> => Len(s) \in Nat \ {0}
  BY EmptySeq
<1> QED
  BY <1>1, <1>2, <1>3, <1>4

(* A list with one reservation more *)
LEMMA AppendFacts ==
  ASSUME NEW s \in Seq(0..Duration), NEW x \in 0..Duration
  PROVE  /\ Append(s, x) \in Seq(0..Duration) /\ Append(s, x) # <<>> /\ Len(Append(s, x)) = Len(s) + 1
         /\ \A i \in 1..Len(s) : Append(s, x)[i] = s[i]
         /\ Append(s, x)[Len(s) + 1] = x
<1> DEFINE X == 0..Duration
<1>1. s \in Seq(X) /\ x \in X
  OBVIOUS
<1> HIDE DEF X
<1>2. /\ Append(s, x) \in Seq(X) /\ Append(s, x) # <<>> /\ Len(Append(s, x)) = Len(s) + 1
      /\ \A i \in 1..Len(s) : Append(s, x)[i] = s[i]
      /\ Append(s, x)[Len(s) + 1] = x
  BY <1>1, AppendProperties
<1> QED
  BY <1>2 DEF X

(* It ascends when the new one is the last to expire. *)
LEMMA AscendingAppend ==
  ASSUME NEW s \in Seq(0..Duration), NEW x \in 0..Duration
  PROVE  Ascending(Append(s, x)) <=> Ascending(s) /\ \A i \in 1..Len(s) : s[i] =< x
<1> DEFINE t == Append(s, x)
           n == Len(s)
<1>1. n \in Nat /\ Len(t) = n + 1 /\ t[n + 1] = x /\ (\A i \in 1..n : t[i] = s[i] /\ s[i] \in Nat) /\ x \in Nat
  BY ElementFacts, AppendFacts
<1> HIDE DEF t, n
<1>2. ASSUME Ascending(t) PROVE Ascending(s) /\ \A i \in 1..n : s[i] =< x
  <2>1. ASSUME NEW i \in 1..n PROVE s[i] =< x
    <3>1. i \in 1..(n + 1) /\ n + 1 \in 1..(n + 1) /\ i =< n + 1
      BY <1>1
    <3>2. t[i] =< t[n + 1]
      BY <1>1, <1>2, <3>1 DEF Ascending
    <3> QED
      BY <1>1, <3>2
  <2>2. ASSUME NEW i \in 1..n, NEW k \in 1..n, i =< k PROVE s[i] =< s[k]
    <3>1. i \in 1..(n + 1) /\ k \in 1..(n + 1)
      BY <1>1
    <3>2. t[i] =< t[k]
      BY <1>1, <1>2, <2>2, <3>1 DEF Ascending
    <3> QED
      BY <1>1, <3>2
  <2> QED
    BY <2>1, <2>2 DEF Ascending, n
<1>3. ASSUME Ascending(s), \A i \in 1..n : s[i] =< x PROVE Ascending(t)
  <2> SUFFICES ASSUME NEW i \in 1..(n + 1), NEW k \in 1..(n + 1), i =< k PROVE t[i] =< t[k]
    BY <1>1 DEF Ascending
  <2>1. CASE k \in 1..n
    <3>1. i \in 1..n
      BY <1>1, <2>1
    <3>2. s[i] =< s[k]
      BY <1>3, <2>1, <3>1 DEF Ascending, n
    <3> QED
      BY <1>1, <2>1, <3>1, <3>2
  <2>2. CASE k = n + 1
    <3>1. i \in 1..n \/ i = n + 1
      BY <1>1
    <3> QED
      BY <1>1, <1>3, <2>2, <3>1
  <2>3. k \in 1..n \/ k = n + 1
    BY <1>1
  <2> QED
    BY <2>1, <2>2, <2>3
<1> QED
  BY <1>2, <1>3 DEF t, n

(* A trigger appends the newest or takes the oldest. *)
LEMMA GoodApply ==
  ASSUME NEW s, NEW e \in Times, Good(s, e), NEW a \in {-1, 1}
  PROVE  Good(Apply(s, a), e)
<1>0. s \in Seq(0..Duration) /\ Ascending(s) /\ Fresh(s, e) /\ Duration \in 0..Duration /\ Duration \in Nat /\ Duration >= e
  BY AutoscalerAssumption DEF Good, Times, None
<1>1. Apply(s, a) \in Seq(0..Duration)
  BY <1>0, ApplyType
<1>2. CASE a = 1
  <2>1. Apply(s, a) = Append(s, Duration)
    BY <1>2 DEF Apply
  <2>2. Ascending(Append(s, Duration))
    BY <1>0, AscendingAppend, ElementFacts
  <2>3. Fresh(Append(s, Duration), e)
    BY <1>0, AppendFacts DEF Fresh
  <2> QED
    BY <1>1, <2>1, <2>2, <2>3 DEF Good
<1>3. CASE a = -1 /\ s = <<>>
  BY <1>0, <1>3 DEF Apply, OneLess, Good
<1>4. CASE a = -1 /\ s # <<>>
  <2> DEFINE t == Tail(s)
             n == Len(s)
  <2>1. Apply(s, a) = t
    BY <1>4 DEF Apply, OneLess
  <2>2. n \in Nat /\ n >= 1 /\ \A i \in 1..n : s[i] \in Nat
    BY <1>0, <1>4, ElementFacts
  <2>3. t \in Seq(0..Duration) /\ Len(t) = n - 1 /\ \A i \in 1..(n - 1) : t[i] = s[i + 1]
    BY <1>0, <1>4, HeadTailProperties
  <2> HIDE DEF t, n
  <2>4. Ascending(t)
    <3> SUFFICES ASSUME NEW i \in 1..(n - 1), NEW k \in 1..(n - 1), i =< k PROVE t[i] =< t[k]
      BY <2>3 DEF Ascending
    <3>1. i + 1 \in 1..n /\ k + 1 \in 1..n /\ i + 1 =< k + 1
      BY <2>2
    <3>2. s[i + 1] =< s[k + 1]
      BY <1>0, <3>1 DEF Ascending, n
    <3> QED
      BY <2>3, <3>2
  <2>5. Fresh(t, e)
    <3> SUFFICES ASSUME t # <<>> PROVE t[Len(t)] >= e
      BY DEF Fresh
    <3>1. n - 1 \in 1..(n - 1) /\ (n - 1) + 1 = n
      BY <2>2, <2>3, ElementFacts
    <3>2. t[Len(t)] = s[n]
      BY <2>3, <3>1
    <3> QED
      BY <1>0, <1>4, <3>2 DEF Fresh, n
  <2> QED
    BY <2>1, <2>3, <2>4, <2>5 DEF Good
<1> QED
  BY <1>2, <1>3, <1>4

(* The triggers of a batch keep the order, *)
LEMMA GoodFold ==
  ASSUME NEW s, NEW e \in Times, Good(s, e), NEW am \in Seq({-1, 1})
  PROVE  Good(FoldLeft(Apply, s, am), e)
<1> DEFINE P(q) == FoldLeft(Apply, s, q)
           S == {q \in Seq({-1, 1}) : Good(P(q), e)}
<1>0. s \in Seq(0..Duration)
  BY DEF Good
<1>1. <<>> \in S
  <2>1. P(<<>>) = s
    BY <1>0, ApplyEmpty
  <2> HIDE DEF P
  <2> QED
    BY <2>1
<1>2. \A q \in S, x \in {-1, 1} : Append(q, x) \in S
  <2> SUFFICES ASSUME NEW q \in S, NEW x \in {-1, 1} PROVE Append(q, x) \in S
    OBVIOUS
  <2>1. P(Append(q, x)) = Apply(P(q), x)
    BY <1>0, ApplyAppend
  <2> HIDE DEF P
  <2>2. Good(Apply(P(q), x), e)
    BY GoodApply
  <2> QED
    BY <2>1, <2>2
<1>3. S = Seq({-1, 1})
  <2> HIDE DEF S
  <2> S \in SUBSET Seq({-1, 1}) BY DEF S
  <2> QED
    BY <1>1, <1>2, SequenceInduction
<1> HIDE DEF P
<1>4. am \in S
  <2> HIDE DEF S
  <2> QED
    BY <1>3
<1> QED
  BY <1>4 DEF P

(* Those beyond maxReplicas are the last ones: renewed, they last longest. *)
LEMMA GoodRenewed ==
  ASSUME TypeInv, NEW s, NEW e \in Times, Good(s, e)
  PROVE  Good(Renewed(s), e)
<1> DEFINE t == Renewed(s)
           n == Len(s)
<1>1. s \in Seq(0..Duration) /\ Ascending(s) /\ Fresh(s, e)
  BY DEF Good
<1>2. t \in Seq(0..Duration) /\ Len(t) = n /\ n \in Nat
  BY <1>1, RenewedFacts
<1>3. \A i \in 1..n : t[i] = IF Starved(s, i) THEN Duration ELSE s[i]
  BY <1>1, ElementFacts DEF Renewed
<1>4. Duration \in Nat /\ Duration >= e /\ e \in Int /\ \A i \in 1..n : s[i] \in 0..Duration
  BY <1>1, ElementFacts DEF Times, None
<1>5. set.max \in Int
  BY RecordFacts, AutoscalerAssumption DEF SettingType, Counts, None
<1>6. ASSUME NEW i \in 1..n, NEW k \in 1..n, i =< k PROVE t[i] =< t[k]
  <2>1. Starved(s, i) => Starved(s, k)
    BY <1>2, <1>5, <1>6 DEF Starved
  <2>2. s[i] =< s[k]
    BY <1>1, <1>6 DEF Ascending
  <2> HIDE DEF t
  <2> QED
    BY <1>3, <1>4, <2>1, <2>2
<1>7. Fresh(t, e)
  <2> SUFFICES ASSUME t # <<>> PROVE t[n] >= e
    BY <1>2 DEF Fresh
  <2>1. n \in 1..n /\ s # <<>>
    BY <1>1, <1>2, ElementFacts
  <2>2. s[n] >= e
    BY <1>1, <2>1 DEF Fresh
  <2> HIDE DEF t
  <2> QED
    BY <1>3, <1>4, <2>1, <2>2
<1>8. Ascending(t)
  BY <1>2, <1>6 DEF Ascending
<1> QED
  BY <1>2, <1>7, <1>8 DEF Good

(* Those that have expired are the first ones. *)
LEMMA ValidKeepsLast ==
  ASSUME NEW s \in Seq(0..Duration), Ascending(s)
  PROVE  /\ Ascending(Valid(s))
         /\ Valid(s) # <<>> => s # <<>> /\ s[Len(s)] > 0 /\ Valid(s)[Len(Valid(s))] = s[Len(s)]
<1> DEFINE Q(q) == /\ Ascending(Valid(q))
                   /\ Valid(q) # <<>> => q # <<>> /\ q[Len(q)] > 0 /\ Valid(q)[Len(Valid(q))] = q[Len(q)]
           S == {q \in Seq(0..Duration) : Ascending(q) => Q(q)}
<1>1. <<>> \in S
  <2>1. <<>> \in Seq(0..Duration) /\ Ascending(<<>>)
    BY DEF Ascending
  <2> QED
    BY <2>1, ValidEmpty
<1>2. \A q \in S, x \in 0..Duration : Append(q, x) \in S
  <2> SUFFICES ASSUME NEW q \in S, NEW x \in 0..Duration, Ascending(Append(q, x)) PROVE Q(Append(q, x))
    BY AppendFacts
  <2>1. q \in Seq(0..Duration) /\ Ascending(q) /\ \A i \in 1..Len(q) : q[i] =< x
    BY AscendingAppend
  <2>2. Q(q)
    BY <2>1
  <2>3. Valid(q) \in Seq(0..Duration)
    BY <2>1, ValidFacts
  <2>4. Valid(Append(q, x)) = (IF x > 0 THEN Append(Valid(q), x) ELSE Valid(q))
    BY <2>1, ValidAppend
  <2>5. Append(q, x) # <<>> /\ Append(q, x)[Len(Append(q, x))] = x
    BY <2>1, AppendFacts
  <2>6. x \in Nat /\ (q # <<>> => q[Len(q)] =< x /\ q[Len(q)] \in Nat)
    BY <2>1, ElementFacts
  <2>7. CASE x > 0
    <3> DEFINE v == Valid(q)
    <3>1. Valid(Append(q, x)) = Append(v, x)
      BY <2>4, <2>7
    <3>2. Append(v, x)[Len(Append(v, x))] = x
      BY <2>3, AppendFacts
    <3>3. \A i \in 1..Len(v) : v[i] =< x
      <4> SUFFICES ASSUME NEW i \in 1..Len(v) PROVE v[i] =< x
        OBVIOUS
      <4>1. v # <<>> /\ Len(v) \in 1..Len(v) /\ i =< Len(v) /\ v[i] \in Nat /\ v[Len(v)] \in Nat
        BY <2>3, ElementFacts
      <4>2. v[i] =< v[Len(v)]
        BY <2>2, <4>1 DEF Ascending
      <4>3. v[Len(v)] =< x
        BY <2>2, <2>6, <4>1
      <4> HIDE DEF v
      <4> QED
        BY <2>6, <4>1, <4>2, <4>3
    <3>4. Ascending(Append(v, x))
      BY <2>2, <2>3, <3>3, AscendingAppend
    <3> HIDE DEF v
    <3> QED
      BY <2>5, <2>7, <3>1, <3>2, <3>4
  <2>8. CASE ~(x > 0)
    <3>1. Valid(Append(q, x)) = Valid(q)
      BY <2>4, <2>8
    <3>2. Valid(q) = <<>>
      BY <2>2, <2>6, <2>8
    <3>3. Ascending(Valid(q))
      BY <2>2
    <3> QED
      BY <3>1, <3>2, <3>3
  <2> QED
    BY <2>7, <2>8
<1>3. S = Seq(0..Duration)
  <2> HIDE DEF S
  <2> S \in SUBSET Seq(0..Duration) BY DEF S
  <2> QED
    BY <1>1, <1>2, SequenceInduction
<1> HIDE DEF Q
<1>4. s \in S
  <2> HIDE DEF S
  <2> QED
    BY <1>3
<1> QED
  BY <1>4 DEF Q

(* and so does leaving out what has expired, *)
LEMMA GoodValid ==
  ASSUME NEW s, NEW e \in Times, Good(s, e)
  PROVE  Good(Valid(s), e)
<1>1. s \in Seq(0..Duration) /\ Ascending(s) /\ Fresh(s, e)
  BY DEF Good
<1> QED
  BY <1>1, ValidFacts, ValidKeepsLast DEF Good, Fresh

(* and with them the plan. *)
LEMMA GoodPlan ==
  ASSUME TypeInv, NEW s, NEW e \in Times, Good(s, e), NEW am \in Seq({-1, 1})
  PROVE  Good(Plan(s, am), e)
BY GoodRenewed, GoodValid, GoodFold DEF Plan

(* The newest of the effective times is that of the last reservation. *)
LEMMA NewestIsLast ==
  ASSUME NEW s, NEW e \in Times, Good(s, e), s # <<>>
  PROVE  Max(ToSet(s)) = s[Len(s)] /\ s[Len(s)] >= e
<1>1. s \in Seq(0..Duration) /\ Ascending(s) /\ s[Len(s)] >= e
  BY DEF Good, Fresh
<1>2. /\ Duration \in Nat /\ DOMAIN s = 1..Len(s) /\ Len(s) \in Nat /\ Len(s) \in 1..Len(s)
      /\ \A i \in 1..Len(s) : s[i] \in Nat
  BY <1>1, ElementFacts
<1>3. Max(ToSet(s)) \in ToSet(s) /\ \A y \in ToSet(s) : Max(ToSet(s)) >= y
  BY <1>1, <1>2, ToSetFacts, MaxOfSet
<1>4. PICK i \in 1..Len(s) : Max(ToSet(s)) = s[i]
  BY <1>2, <1>3 DEF ToSet
<1>5. s[Len(s)] \in ToSet(s)
  BY <1>2 DEF ToSet
<1>6. s[i] =< s[Len(s)] /\ s[i] >= s[Len(s)]
  BY <1>1, <1>2, <1>3, <1>4, <1>5 DEF Ascending
<1> QED
  BY <1>1, <1>2, <1>4, <1>6

(* Time passes for all alike. *)
LEMMA LessMonotone ==
  ASSUME NEW x \in {None} \cup Nat, NEW y \in {None} \cup Nat, x =< y
  PROVE  Less(x) =< Less(y)
BY DEF Less, None

(* The clock does not change the order. *)
LEMMA GoodOlder ==
  ASSUME NEW v \in HRAType, NEW e \in Times, Good(v.res, e)
  PROVE  Good(Older(v).res, Less(e))
<1> DEFINE s == v.res
           t == Older(v).res
<1>1. s \in Seq(0..Duration) /\ Ascending(s) /\ Fresh(s, e)
  BY DEF Good
<1>2. t \in Seq(0..Duration) /\ Len(t) = Len(s) /\ \A i \in 1..Len(s) : t[i] = Less(s[i])
  BY OlderType DEF HRAType
<1>3. e \in {None} \cup Nat /\ \A i \in 1..Len(s) : s[i] \in {None} \cup Nat
  BY <1>1, ElementFacts DEF Times
<1> HIDE DEF s, t
<1>4. Ascending(t)
  BY <1>1, <1>2, <1>3, LessMonotone DEF Ascending
<1>5. Fresh(t, Less(e))
  <2> SUFFICES ASSUME t # <<>> PROVE t[Len(t)] >= Less(e)
    BY DEF Fresh
  <2>1. s # <<>> /\ Len(s) \in 1..Len(s)
    BY <1>1, <1>2, ElementFacts
  <2>2. e =< s[Len(s)]
    BY <1>1, <1>3, <2>1 DEF Fresh, None
  <2>3. Less(e) =< Less(s[Len(s)])
    BY <1>3, <2>1, <2>2, LessMonotone
  <2>4. Less(e) \in Int /\ Less(s[Len(s)]) \in Int
    BY <1>3, <2>1 DEF Less, None
  <2> QED
    BY <1>2, <2>1, <2>3, <2>4
<1> QED
  BY <1>2, <1>4, <1>5 DEF Good, t

(* The steps that leave alone what the order depends on. *)
OrderAside == \A g \in HRAs : hra'[g].res = hra[g].res /\ target'[g] = target[g]

(* The steps that touch neither reservations nor targets *)
LEMMA OrderAsides ==
  ASSUME TypeInv, \/ GitHub \/ Delivery \/ Server \/ UNCHANGED vars
                  \/ \E h \in HRAs : DeleteHRA(h) \/ ScaleFails(h)
                  \/ \E r \in Readers, h \in HRAs : CacheSyncs(r, h)
                  \/ \E n \in Counts : ChangeOverride(n)
  PROVE  OrderAside
<1> USE DEF github, server
<1>1. CASE GitHub
  BY <1>1 DEF OrderAside, GitHub, JobQueued, JobSkipped, JobStarts, JobEnds, RunnerLeaves, JobCancelled, Repeat, GoTo
<1>2. CASE Delivery
  BY <1>2 DEF OrderAside, Delivery, Handle, Lose
<1>3. CASE Server
  BY <1>3 DEF OrderAside, Server, WorkerTakes, BatchTakes, StartBatch, ServerRestarts
<1>4. ASSUME NEW h \in HRAs, DeleteHRA(h) PROVE OrderAside
  <2>1. [hra[h] EXCEPT !.live = FALSE].res = hra[h].res
    BY RecordFacts DEF HRAType
  <2>2. Write(h, [hra[h] EXCEPT !.live = FALSE]) /\ target' = target
    BY <1>4 DEF DeleteHRA
  <2>3. hra'[h].res = hra[h].res /\ \A g \in HRAs \ {h} : hra'[g] = hra[g]
    BY <2>1, <2>2, WriteFacts
  <2> QED
    BY <2>2, <2>3 DEF OrderAside
<1>5. CASE \E h \in HRAs : ScaleFails(h)
  BY <1>5 DEF OrderAside, ScaleFails
<1>6. CASE (\E r \in Readers, h \in HRAs : CacheSyncs(r, h)) \/ (\E n \in Counts : ChangeOverride(n))
  BY <1>6 DEF OrderAside, CacheSyncs, ChangeOverride
<1>7. CASE UNCHANGED vars
  BY <1>7 DEF OrderAside, vars
<1> QED
  BY <1>1, <1>2, <1>3, <1>4, <1>5, <1>6, <1>7

(* A batch keeps the order. *)
LEMMA BatchKeepsOrder ==
  ASSUME TypeInv, NEW h \in HRAs, Scale(h) \/ ScaleUnanswered(h),
         cache["webhook"][h] = hra[h], \A g \in HRAs : Good(hra[g].res, target[g].effective)
  PROVE  target' = target /\ \A g \in HRAs : Good(hra'[g].res, target'[g].effective)
<1>1. Write(h, Patched(h)) /\ target' = target
  BY DEF Scale, ScaleUnanswered
<1>2. hra'[h] = Patched(h) /\ \A g \in HRAs \ {h} : hra'[g] = hra[g]
  BY <1>1, WriteFacts
<1>3. batch[h] \in Seq({-1, 1}) /\ target[h].effective \in Times /\ hra[h] \in HRAType
  BY RecordFacts DEF TypeInv, Times
<1>4. Good(Plan(hra[h].res, batch[h]), target[h].effective)
  BY <1>3, GoodPlan
<1>5. Patched(h).res \in {hra[h].res, Plan(hra[h].res, batch[h])}
  BY <1>3 DEF Patched, HRAType
<1>6. Good(hra'[h].res, target[h].effective)
  BY <1>2, <1>4, <1>5
<1> QED
  BY <1>1, <1>2, <1>6

(* The controller sets the effective time to that of the last reservation, *)
(* which is no earlier.                                                    *)
LEMMA ControllerKeepsOrder ==
  ASSUME TypeInv, NEW h \in HRAs, Reconcile(h) \/ ReconcileMisses(h) \/ ReconcileFails(h),
         cache["controller"][h] = hra[h], \A g \in HRAs : Good(hra[g].res, target[g].effective)
  PROVE  \A g \in HRAs : target'[g].effective >= target[g].effective /\ Good(hra'[g].res, target'[g].effective)
<1>1. PICK n \in 0..MaxReplicas : UpdateTarget(h, n)
  BY ControllerValue, FailedValue DEF ReconcileTo
<1>2. \A g \in HRAs : hra'[g].res = hra[g].res
  <2>1. CASE Reconcile(h) \/ ReconcileMisses(h)
    <3>1. PICK m \in 0..MaxReplicas : ReconcileTo(h, m)
      BY <2>1, ControllerValue
    <3>2. WithStatus(h, cache["controller"][h], m).res = hra[h].res
      BY RecordFacts DEF WithStatus, HRAType
    <3>3. Write(h, WithStatus(h, cache["controller"][h], m))
      BY <3>1 DEF ReconcileTo
    <3> QED
      BY <3>2, <3>3, WriteFacts
  <2>2. CASE ReconcileFails(h)
    BY <2>2 DEF ReconcileFails
  <2> QED
    BY <2>1, <2>2
<1>3. /\ target'[h].effective = Effective(hra[h], target[h].effective)
      /\ \A g \in HRAs \ {h} : target'[g] = target[g]
  BY <1>1, TargetFacts
<1>4. \A g \in HRAs : target[g].effective \in Times /\ target[g].effective >= target[g].effective
  BY RecordFacts, AutoscalerAssumption DEF Times, None
<1>5. CASE set.ephemeral /\ hra[h].res # <<>>
  <2> DEFINE s == hra[h].res
  <2>1. Max(ToSet(s)) = s[Len(s)] /\ s[Len(s)] >= target[h].effective
    BY <1>4, <1>5, NewestIsLast
  <2>2. target'[h].effective = s[Len(s)]
    BY <1>3, <1>5, <2>1 DEF Effective
  <2>3. s[Len(s)] \in Nat /\ s \in Seq(0..Duration) /\ Ascending(s)
    BY <1>5, ElementFacts DEF Good
  <2>4. Good(s, s[Len(s)])
    BY <2>3 DEF Good, Fresh
  <2> QED
    BY <1>2, <1>3, <1>4, <2>1, <2>2, <2>4
<1>6. CASE ~(set.ephemeral /\ hra[h].res # <<>>)
  <2>1. target'[h].effective = target[h].effective
    BY <1>3, <1>6 DEF Effective
  <2> QED
    BY <1>2, <1>3, <1>4, <2>1
<1> QED
  BY <1>5, <1>6

(* The order holds initially. *)
LEMMA OrderInvInit == Init => OrderInv
<1> SUFFICES ASSUME Init, NEW h \in HRAs PROVE Good(hra[h].res, target[h].effective)
  BY DEF OrderInv
<1>1. hra[h].res = <<>>
  BY DEF Init, NewHRA
<1>2. <<>> \in Seq(0..Duration) /\ Ascending(<<>>)
  BY DEF Ascending
<1> QED
  BY <1>1, <1>2 DEF Good, Fresh

(* What holds of the lists after a step, and that only the clock sets an effective time back *)
LEMMA OrderStep ==
  ASSUME TypeInv, CacheInv, OrderInv, [Next]_vars, ~set.lag
  PROVE  /\ \A g \in HRAs : Good(hra'[g].res, target'[g].effective)
         /\ Tick \/ \A g \in HRAs : target'[g].effective >= target[g].effective
<1>0. \A g \in HRAs : /\ Good(hra[g].res, target[g].effective)
                      /\ target[g].effective \in Times /\ target[g].effective >= target[g].effective
                      /\ cache["controller"][g] = hra[g] /\ cache["webhook"][g] = hra[g]
  BY RecordFacts, AutoscalerAssumption DEF CacheInv, OrderInv, Readers, Times, None
<1>1. CASE OrderAside
  BY <1>0, <1>1 DEF OrderAside
<1>2. CASE BatchScaler
  <2>1. ASSUME NEW h \in HRAs, Scale(h) \/ ScaleUnanswered(h)
        PROVE  target' = target /\ \A g \in HRAs : Good(hra'[g].res, target'[g].effective)
    BY <1>0, <2>1, BatchKeepsOrder
  <2> QED
    BY <1>0, <1>1, <1>2, <2>1, OrderAsides DEF BatchScaler
<1>3. CASE Controller
  BY <1>0, <1>3, ControllerKeepsOrder DEF Controller
<1>4. CASE Tick
  <2> SUFFICES ASSUME NEW g \in HRAs PROVE Good(hra'[g].res, target'[g].effective)
    BY <1>4
  <2>1. hra'[g] = Older(hra[g]) /\ target'[g].effective = Less(target[g].effective)
    BY <1>4 DEF Tick, TypeInv
  <2> QED
    BY <1>0, <2>1, RecordFacts, GoodOlder
<1> QED
  BY <1>1, <1>2, <1>3, <1>4, OrderAsides DEF Next, Surroundings

(* Every step keeps the order. *)
LEMMA OrderInvStep == TypeInv /\ CacheInv /\ OrderInv /\ [Next]_vars => OrderInv'
<1> SUFFICES ASSUME TypeInv, CacheInv, OrderInv, [Next]_vars, ~set'.lag
             PROVE  \A g \in HRAs : Good(hra'[g].res, target'[g].effective)
  BY DEF OrderInv
<1> QED
  BY SetStays, OrderStep

(* Theorem: the target does not shrink within the delay after it has grown, *)
(* unless a status could not be written, and its effective time never goes  *)
(* back, for all metrics, overrides, delays and losses                      *)
(* (computeReplicasWithCache, reconcile).                                   *)
THEOREM AutoscalerScaleDownWaits == Spec => ScaleDownWaits
<1> DEFINE Inv == TypeInv /\ CacheInv /\ DelayInv /\ OrderInv
           Waits == \A h \in HRAs : ~set.lag =>
                        /\ Replicas(h)' < Replicas(h) => grown[h] = 0 \/ unkept[h]
                        /\ target'[h].effective < target[h].effective => Tick
<1>1. Init => Inv
  BY TypeInvInit, CacheInvInit, DelayInvInit, OrderInvInit
<1>2. Inv /\ [Next]_vars => Inv'
  BY TypeInvStep, CacheInvStep, DelayInvStep, OrderInvStep
<1>3. Inv /\ [Next]_vars => [Waits]_vars
  <2> SUFFICES ASSUME Inv, [Next]_vars PROVE Waits
    OBVIOUS
  <2> SUFFICES ASSUME NEW h \in HRAs, ~set.lag
               PROVE  /\ Replicas(h)' < Replicas(h) => grown[h] = 0 \/ unkept[h]
                      /\ target'[h].effective < target[h].effective => Tick
    OBVIOUS
  <2>1. Replicas(h)' < Replicas(h) => grown[h] = 0 \/ unkept[h]
    BY DelayIsKept
  <2>2. target'[h].effective < target[h].effective => Tick
    <3>1. target'[h].effective \in Int /\ target[h].effective \in Int
      <4>1. TypeInv'
        BY TypeInvStep
      <4>2. target[h].effective \in Times /\ target'[h].effective \in Times
        BY <4>1 DEF TypeInv, Times
      <4> QED
        BY <4>2, AutoscalerAssumption DEF Times, None
    <3>2. Tick \/ target'[h].effective >= target[h].effective
      BY OrderStep
    <3> QED
      BY <3>1, <3>2
  <2> QED
    BY <2>1, <2>2
<1> HIDE DEF Inv
<1>4. Spec => [][Waits]_vars
  BY <1>1, <1>2, <1>3, PTL DEF Spec
<1> QED
  BY <1>4 DEF ScaleDownWaits

-----------------------------------------------------------------------------
(***************************************************************************)
(* No excess                                                               *)
(***************************************************************************)

(* The deliveries on their way tell of what has happened to the job, in its *)
(* order.                                                                   *)
EventsInv == \A j \in Jobs :
    /\ "completed" \in events[j] => job[j] \in {"leaving", "ended", "skipped"}
    /\ "queued" \in events[j] => \/ job[j] \in {"queued", "running"}
                                 \/ job[j] \in {"leaving", "ended"} /\ "completed" \in events[j]

(* It holds initially. *)
LEMMA EventsInvInit == Init => EventsInv
BY DEF Init, EventsInv

(* The steps that are not about jobs *)
JobsAside == UNCHANGED <<set, job, events, missed>> /\ uses'.repeated = uses.repeated

(* Only GitHub and its deliveries are about jobs. *)
LEMMA JobsAsides ==
  ASSUME TypeInv, Server \/ BatchScaler \/ Controller \/ Surroundings \/ UNCHANGED vars
  PROVE  JobsAside
<1> USE DEF github, server
<1>u. ASSUME NEW b \in {"errors", "restarts", "overrides"}, Use(b) PROVE uses'.repeated = uses.repeated
  BY <1>u, UsesStep
<1>1. CASE Server
  BY <1>1, <1>u DEF JobsAside, Server, WorkerTakes, BatchTakes, StartBatch, ServerRestarts
<1>2. CASE BatchScaler
  BY <1>2, <1>u DEF JobsAside, BatchScaler, Scale, ScaleFails, ScaleUnanswered
<1>3. CASE Controller
  BY <1>3, <1>u DEF JobsAside, Controller, Reconcile, ReconcileMisses, ReconcileFails, ReconcileTo
<1>4. CASE Surroundings
  BY <1>4, <1>u DEF JobsAside, Surroundings, DeleteHRA, CacheSyncs, ChangeOverride, Tick
<1>5. CASE UNCHANGED vars
  BY <1>5 DEF JobsAside, vars
<1> QED
  BY <1>1, <1>2, <1>3, <1>4, <1>5

(* Every step keeps it. *)
LEMMA EventsInvStep == TypeInv /\ EventsInv /\ [Next]_vars => EventsInv'
<1> SUFFICES ASSUME TypeInv, EventsInv, [Next]_vars PROVE EventsInv'
  OBVIOUS
<1>0. job \in [Jobs -> {"new", "queued", "running", "leaving", "ended", "skipped"}] /\ events \in [Jobs -> SUBSET {"queued", "completed"}]
  BY DEF TypeInv
<1>1. CASE GitHub
  <2>1. PICK j \in Jobs : JobQueued(j) \/ JobSkipped(j) \/ JobStarts(j) \/ JobEnds(j) \/ RunnerLeaves(j) \/ JobCancelled(j) \/ Repeat(j)
    BY <1>1 DEF GitHub
  <2>2. \A k \in Jobs \ {j} : job'[k] = job[k] /\ events'[k] = events[k]
    BY <1>0, <2>1 DEF JobQueued, JobSkipped, JobStarts, JobEnds, RunnerLeaves, JobCancelled, Repeat, GoTo
  <2>3. /\ "completed" \in events'[j] => job'[j] \in {"leaving", "ended", "skipped"}
        /\ "queued" \in events'[j] => job'[j] \in {"queued", "running"} \/ (job'[j] \in {"leaving", "ended"} /\ "completed" \in events'[j])
    <3>0. /\ "completed" \in events[j] => job[j] \in {"leaving", "ended", "skipped"}
          /\ "queued" \in events[j] => job[j] \in {"queued", "running"} \/ (job[j] \in {"leaving", "ended"} /\ "completed" \in events[j])
      BY DEF EventsInv
    <3>1. ASSUME NEW st, NEW evs, GoTo(j, st, evs) PROVE job'[j] = st /\ events'[j] = events[j] \cup evs
      BY <1>0, <3>1 DEF GoTo
    <3>2. CASE JobQueued(j)
      <4>1. job[j] = "new" /\ job'[j] = "queued" /\ events'[j] = events[j] \cup {"queued"}
        BY <3>1, <3>2 DEF JobQueued
      <4> QED
        BY <3>0, <4>1
    <3>3. CASE JobSkipped(j)
      <4>1. job[j] = "new" /\ job'[j] = "skipped" /\ events'[j] = events[j] \cup {"completed"}
        BY <3>1, <3>3 DEF JobSkipped
      <4> QED
        BY <3>0, <4>1
    <3>4. CASE JobStarts(j)
      <4>1. job[j] = "queued" /\ job'[j] = "running" /\ events'[j] = events[j]
        BY <3>1, <3>4 DEF JobStarts
      <4> QED
        BY <3>0, <4>1
    <3>5. CASE JobEnds(j) \/ JobCancelled(j)
      <4>1. job[j] \in {"running", "queued"} /\ job'[j] \in {"leaving", "ended"} /\ events'[j] = events[j] \cup {"completed"}
        BY <3>1, <3>5 DEF JobEnds, JobCancelled
      <4> QED
        BY <3>0, <4>1
    <3>7. CASE RunnerLeaves(j)
      <4>1. job[j] = "leaving" /\ job'[j] = "ended" /\ events'[j] = events[j]
        BY <3>1, <3>7 DEF RunnerLeaves
      <4> QED
        BY <3>0, <4>1
    <3>6. CASE Repeat(j)
      <4>1. job[j] \in {"running", "queued"} /\ job' = job /\ events'[j] = {"queued"}
        BY <1>0, <3>6 DEF Repeat
      <4> QED
        BY <4>1
    <3> QED
      BY <2>1, <3>2, <3>3, <3>4, <3>5, <3>6, <3>7
  <2> QED
    BY <2>2, <2>3 DEF EventsInv
<1>2. CASE Delivery
  <2>1. PICK j \in Jobs, e \in {"queued", "completed"} : Handle(j, e) \/ Lose(j, e)
    BY <1>2 DEF Delivery
  <2>2. Deliverable(j, e) /\ events' = [events EXCEPT ![j] = @ \ {e}] /\ job' = job
    BY <2>1 DEF Handle, Lose
  <2>3. \A k \in Jobs \ {j} : events'[k] = events[k]
    BY <1>0, <2>2
  <2>4. events'[j] = events[j] \ {e}
    BY <1>0, <2>2
  <2> QED
    BY <2>2, <2>3, <2>4 DEF EventsInv, Deliverable
<1>3. CASE JobsAside
  BY <1>3 DEF JobsAside, EventsInv
<1> QED
  BY <1>1, <1>2, <1>3, JobsAsides DEF Next

(* The jobs that NoExcess counts; those whose start is still to be told;   *)
(* what the ledger will have reserved once all triggers are booked. A      *)
(* reservation is covered by a job whose end was not told, a start that is *)
(* still on its way will be covered by its job, or is one that was         *)
(* repeated.                                                               *)
Unsettled(h) == {j \in Jobs : /\ set.home[j] = h
                              /\ \/ job[j] \in {"queued", "running"}
                                 \/ job[j] \in {"leaving", "ended"} /\ (j \in missed \/ "completed" \in events[j])}
Owing(h) == {j \in Jobs : set.home[j] = h /\ "queued" \in events[j]}
Due(h) == Ledger!Booked(Len(hra[h].res), Pending(h))
Covered(h) == Due(h) + Cardinality(Owing(h)) =< Cardinality(Unsettled(h)) + uses.repeated
ExcessInv == Reliable => \A h \in HRAs : Covered(h)

(* Sets of jobs and their sizes *)
LEMMA CountFacts ==
  ASSUME NEW A \in SUBSET Jobs
  PROVE  /\ Cardinality(A) \in Nat
         /\ \A B \in SUBSET A : Cardinality(B) \in Nat /\ Cardinality(B) =< Cardinality(A)
         /\ \A j \in Jobs : Cardinality(A \cup {j}) = IF j \in A THEN Cardinality(A) ELSE Cardinality(A) + 1
         /\ \A j \in Jobs : Cardinality(A \ {j}) = IF j \in A THEN Cardinality(A) - 1 ELSE Cardinality(A)
<1>1. IsFiniteSet(A)
  BY AutoscalerAssumption, FS_Subset
<1> QED
  BY <1>1, FS_Subset, FS_CardinalityType, FS_AddElement, FS_RemoveElement

(* What is due is a number, *)
LEMMA DueFacts ==
  ASSUME TypeInv, NEW h \in HRAs
  PROVE  Due(h) \in Nat /\ Len(hra[h].res) \in Nat /\ Pending(h) \in Seq({-1, 1}) /\ uses.repeated \in Nat
<1>1. Len(hra[h].res) \in Nat
  BY RecordFacts, ElementFacts
<1>2. Pending(h) \in Seq({-1, 1})
  BY AheadType
<1>3. uses.repeated \in Nat
  BY DEF TypeInv, UsesType
<1> QED
  BY <1>1, <1>2, <1>3, BookedType DEF Due

(* after a step as well, *)
LEMMA DueStays == TypeInv' => (\A h \in HRAs : Due(h) \in Nat)'
<1>1. TypeInv => \A h \in HRAs : Due(h) \in Nat
  BY DueFacts
<1> QED
  BY <1>1, PTL

(* and stays when neither reservations nor triggers change. *)
LEMMA SameDue ==
  ASSUME NEW h \in HRAs, Pending(h)' = Pending(h), Len(hra'[h].res) = Len(hra[h].res)
  PROVE  Due(h)' = Due(h)
<1>1. Due(h)' = Ledger!Booked(Len(hra'[h].res), Pending(h)')
  BY DEF Due
<1> QED
  BY <1>1 DEF Due

(* An installation without troubles *)
LEMMA ReliableFacts ==
  ASSUME Reliable PROVE ~set.lag /\ ~set.unanswered /\ ~(set.restarts > 0)
BY DEF Reliable, Troubles

(* The jobs that are counted are jobs. *)
LEMMA Accounts ==
  ASSUME NEW h
  PROVE  Unsettled(h) \in SUBSET Jobs /\ Owing(h) \in SUBSET Jobs /\ Unsettled(h)' \in SUBSET Jobs /\ Owing(h)' \in SUBSET Jobs
BY DEF Unsettled, Owing

(* A batch that is booked leaves what is due, or less. *)
LEMMA BookedDue ==
  ASSUME TypeInv, TypeInv', CacheInv, ~set.lag, NEW h \in HRAs, Scale(h)
  PROVE  \A g \in HRAs : Due(g)' =< Due(g)
<1>1. Done(h) /\ UNCHANGED <<queue, held>> /\ Write(h, Patched(h))
  BY DEF Scale
<1>2. batch[h] \in Seq({-1, 1})
  BY DEF TypeInv
<1>3. /\ \A g \in HRAs \ {h} : Pending(g)' = Pending(g)
      /\ Pending(h)' \in Seq({-1, 1}) /\ Pending(h) = batch[h] \o Pending(h)'
  BY <1>1, BookedPending
<1>4. PICK n \in 0..Len(hra[h].res) : Len(hra'[h].res) = Ledger!Booked(n, batch[h])
  BY <1>1, PatchedLength
<1>5. \A g \in HRAs \ {h} : hra'[g] = hra[g]
  BY <1>1, PatchedLength
<1>6. Len(hra[h].res) \in Nat /\ n \in Nat /\ n =< Len(hra[h].res)
  BY DueFacts
<1>7. Due(h)' = Ledger!Booked(Ledger!Booked(n, batch[h]), Pending(h)')
  BY <1>4 DEF Due
<1>8. Due(h)' = Ledger!Booked(n, Pending(h))
  <2> DEFINE q == Pending(h)'
  <2>1. Ledger!Booked(n, batch[h] \o q) = Ledger!Booked(Ledger!Booked(n, batch[h]), q)
    BY <1>2, <1>3, <1>6, BookedConcat
  <2> QED
    BY <1>3, <1>7, <2>1
<1>9. Due(h)' =< Due(h)
  BY <1>6, <1>8, DueFacts, BookedMonotone DEF Due
<1>10. \A g \in HRAs \ {h} : Due(g)' = Due(g)
  BY <1>3, <1>5, SameDue
<1> QED
  BY <1>9, <1>10, DueFacts

(* A step that is not about jobs and adds nothing to what is due leaves the *)
(* accounts balanced.                                                       *)
LEMMA AsideCovered ==
  ASSUME TypeInv, NEW h \in HRAs, JobsAside, Due(h)' \in Nat, Due(h)' =< Due(h), Covered(h)
  PROVE  Covered(h)'
<1>1. Unsettled(h)' = Unsettled(h) /\ Owing(h)' = Owing(h) /\ uses'.repeated = uses.repeated
  BY DEF JobsAside, Unsettled, Owing
<1>2. Cardinality(Unsettled(h)) \in Nat /\ Cardinality(Owing(h)) \in Nat
  BY Accounts, CountFacts
<1> QED
  BY <1>1, <1>2, DueFacts DEF Covered

(* A job that is queued adds itself and its delivery; one that ends waits *)
(* for its delivery.                                                      *)
LEMMA GitHubCovered ==
  ASSUME TypeInv, EventsInv, GitHub, NEW h \in HRAs, Due(h)' = Due(h), Covered(h)
  PROVE  Covered(h)'
<1>0. job \in [Jobs -> {"new", "queued", "running", "leaving", "ended", "skipped"}] /\ events \in [Jobs -> SUBSET {"queued", "completed"}]
  BY DEF TypeInv
<1>c. /\ Cardinality(Unsettled(h)) \in Nat /\ Cardinality(Owing(h)) \in Nat
      /\ Due(h) \in Nat /\ uses.repeated \in Nat
  BY Accounts, CountFacts, DueFacts
<1>1. PICK j \in Jobs : JobQueued(j) \/ JobSkipped(j) \/ JobStarts(j) \/ JobEnds(j) \/ RunnerLeaves(j) \/ JobCancelled(j) \/ Repeat(j)
  BY DEF GitHub
<1>2. set' = set /\ missed' = missed /\ \A k \in Jobs \ {j} : job'[k] = job[k] /\ events'[k] = events[k]
  BY <1>0, <1>1 DEF JobQueued, JobSkipped, JobStarts, JobEnds, RunnerLeaves, JobCancelled, Repeat, GoTo
<1>3. CASE JobQueued(j) /\ set.home[j] = h
  <2>1. job[j] = "new" /\ job'[j] = "queued" /\ "queued" \in events'[j] /\ uses' = uses
    BY <1>0, <1>3 DEF JobQueued, GoTo
  <2>2. Owing(h)' = Owing(h) \cup {j}
    BY <1>2, <1>3, <2>1 DEF Owing
  <2>3. Unsettled(h)' = Unsettled(h) \cup {j}
    BY <1>2, <1>3, <2>1 DEF Unsettled
  <2>4. j \notin Unsettled(h) /\ j \notin Owing(h)
    BY <2>1 DEF Unsettled, Owing, EventsInv
  <2>5. /\ Cardinality(Owing(h) \cup {j}) = Cardinality(Owing(h)) + 1
        /\ Cardinality(Unsettled(h) \cup {j}) = Cardinality(Unsettled(h)) + 1
    BY <2>4, Accounts, CountFacts
  <2> QED
    BY <1>c, <2>1, <2>2, <2>3, <2>5 DEF Covered
<1>4. CASE Repeat(j)
  <2>1. job' = job /\ job[j] \in {"queued", "running"}
    BY <1>4 DEF Repeat
  <2>2. uses'.repeated = uses.repeated + 1
    BY <1>4, UsesStep DEF Repeat
  <2>3. Owing(h)' \subseteq Owing(h) \cup {j}
    BY <1>2 DEF Owing
  <2>4. Unsettled(h)' = Unsettled(h)
    BY <1>2, <2>1 DEF Unsettled
  <2>5. Cardinality(Owing(h)') \in Nat /\ Cardinality(Owing(h)') =< Cardinality(Owing(h)) + 1
    <3>1. Owing(h) \cup {j} \in SUBSET Jobs
      BY Accounts
    <3>2. Cardinality(Owing(h)') \in Nat /\ Cardinality(Owing(h)') =< Cardinality(Owing(h) \cup {j})
      BY <2>3, <3>1, CountFacts
    <3>3. Cardinality(Owing(h) \cup {j}) \in {Cardinality(Owing(h)), Cardinality(Owing(h)) + 1}
      BY Accounts, CountFacts
    <3> QED
      BY <1>c, <3>2, <3>3
  <2> QED
    BY <1>c, <2>2, <2>4, <2>5 DEF Covered
<1>5. CASE ~Repeat(j) /\ ~(JobQueued(j) /\ set.home[j] = h)
  <2>1. uses' = uses
    BY <1>1, <1>5 DEF JobQueued, JobSkipped, JobStarts, JobEnds, RunnerLeaves, JobCancelled, GoTo
  <2>2. Owing(h)' = Owing(h)
    <3>1. set.home[j] = h => ("queued" \in events'[j] <=> "queued" \in events[j])
      BY <1>0, <1>1, <1>5 DEF JobSkipped, JobStarts, JobEnds, RunnerLeaves, JobCancelled, GoTo
    <3> QED
      BY <1>2, <3>1 DEF Owing
  <2>3. Unsettled(h)' = Unsettled(h)
    <3>1. set.home[j] = h => (j \in Unsettled(h)' <=> j \in Unsettled(h))
      BY <1>0, <1>1, <1>2, <1>5 DEF JobSkipped, JobStarts, JobEnds, RunnerLeaves, JobCancelled, GoTo, Unsettled
    <3>2. \A k \in Jobs \ {j} : k \in Unsettled(h)' <=> k \in Unsettled(h)
      BY <1>2 DEF Unsettled
    <3>3. set.home[j] # h => j \notin Unsettled(h)' /\ j \notin Unsettled(h)
      BY <1>2 DEF Unsettled
    <3> QED
      BY <3>1, <3>2, <3>3, Accounts
  <2> QED
    BY <2>1, <2>2, <2>3 DEF Covered
<1> QED
  BY <1>3, <1>4, <1>5

(* A delivery that is lost, or that does not become a trigger *)
LEMMA IgnoredCovered ==
  ASSUME TypeInv, EventsInv, NEW j \in Jobs, NEW e \in {"queued", "completed"}, Lose(j, e) \/ (Handle(j, e) /\ UNCHANGED queue),
         NEW h \in HRAs, Due(h)' = Due(h), Covered(h)
  PROVE  Covered(h)'
<1>0. events \in [Jobs -> SUBSET {"queued", "completed"}] /\ queue \in Seq(Triggers)
  BY DEF TypeInv
<1>1. /\ set' = set /\ job' = job /\ e \in events[j] /\ events'[j] = events[j] \ {e} /\ \A k \in Jobs \ {j} : events'[k] = events[k]
      /\ uses'.repeated = uses.repeated
  BY <1>0, UsesStep DEF Lose, Handle, Deliverable
<1>2. missed' = IF e = "completed" THEN missed \cup {j} ELSE missed
  <2>1. CASE Lose(j, e)
    BY <2>1 DEF Lose
  <2>2. CASE Handle(j, e) /\ UNCHANGED queue
    <3>1. ASSUME NEW t \in Triggers, queue' = Append(queue, t) PROVE FALSE
      <4>1. Len(Append(queue, t)) = Len(queue) + 1 /\ Len(queue) \in Nat
        BY <1>0, <3>1
      <4> QED
        BY <2>2, <3>1, <4>1
    <3>2. Amount(j, e) # 0 => Amount(j, e) \in {-1, 1}
      BY DEF Amount
    <3>3. \A g \in Found(j) : Amount(j, e) # 0 => <<g, Amount(j, e)>> \in Triggers
      BY <3>2 DEF Triggers, Found
    <3> QED
      BY <2>2, <3>1, <3>3 DEF Handle
  <2> QED
    BY <2>1, <2>2
<1>3. Unsettled(h)' = Unsettled(h)
  BY <1>1, <1>2 DEF Unsettled
<1>4. Owing(h)' \in SUBSET Owing(h)
  BY <1>1 DEF Owing
<1>5. /\ Cardinality(Owing(h)') \in Nat /\ Cardinality(Owing(h)') =< Cardinality(Owing(h))
      /\ Cardinality(Owing(h)) \in Nat /\ Cardinality(Unsettled(h)) \in Nat
  BY <1>4, Accounts, CountFacts
<1> QED
  BY <1>1, <1>3, <1>5, DueFacts DEF Covered

(* The start of a job adds one to what is due and is no longer owed. Its   *)
(* end takes one; where nothing is due (expired, or never told) the starts *)
(* on their way are those of other jobs.                                   *)
LEMMA AcceptedCovered ==
  ASSUME TypeInv, TypeInv', EventsInv, NEW j \in Jobs, NEW e \in {"queued", "completed"}, Handle(j, e), ~UNCHANGED queue,
         NEW h \in HRAs, Covered(h)
  PROVE  Covered(h)'
<1>0. events \in [Jobs -> SUBSET {"queued", "completed"}] /\ job \in [Jobs -> {"new", "queued", "running", "leaving", "ended", "skipped"}]
  BY DEF TypeInv
<1>1. PICK f \in Found(j) : queue' = Append(queue, <<f, Amount(j, e)>>) /\ Amount(j, e) # 0
  BY DEF Handle
<1>2. <<f, Amount(j, e)>> \in Triggers /\ f \in HRAs /\ f = set.home[j] /\ Amount(j, e) \in {-1, 1}
  BY <1>1 DEF Triggers, Amount, Found
<1>3. /\ UNCHANGED <<set, job, held, batch, hra, missed, uses>> /\ Deliverable(j, e)
      /\ events'[j] = events[j] \ {e} /\ \A k \in Jobs \ {j} : events'[k] = events[k]
  <2>1. missed' = missed
    <3>1. Found(j) # {} /\ Amount(j, e) # 0 /\ Len(queue) < set.limit
      BY DEF Handle
    <3> QED
      BY <3>1 DEF Handle
  <2> QED
    BY <1>0, <2>1 DEF Handle
<1>4. Pending(h)' = IF h = f THEN Append(Pending(h), Amount(j, e)) ELSE Pending(h)
  BY <1>1, <1>2, <1>3, AcceptedPending
<1>c. /\ Cardinality(Owing(h)) \in Nat /\ Cardinality(Unsettled(h)) \in Nat /\ Due(h) \in Nat /\ uses.repeated \in Nat
  BY Accounts, CountFacts, DueFacts
<1>5. CASE h # f
  <2>1. Owing(h)' = Owing(h) /\ Unsettled(h)' = Unsettled(h)
    BY <1>2, <1>3, <1>5 DEF Owing, Unsettled
  <2>2. Due(h)' = Due(h)
    BY <1>3, <1>4, <1>5, SameDue
  <2> QED
    BY <1>3, <2>1, <2>2 DEF Covered
<1>6. CASE h = f
  <2>1. Due(h)' = (IF Due(h) + Amount(j, e) > 0 THEN Due(h) + Amount(j, e) ELSE 0)
    <3>1. Due(h)' = Ledger!Booked(Len(hra[h].res), Append(Pending(h), Amount(j, e)))
      BY <1>3, <1>4, <1>6 DEF Due
    <3> QED
      BY <1>2, <3>1, DueFacts, BookedAppend DEF Due
  <2>2. CASE e = "queued"
    <3>1. Amount(j, e) = 1
      BY <1>1, <2>2 DEF Amount
    <3>2. Owing(h)' = Owing(h) \ {j} /\ j \in Owing(h)
      BY <1>2, <1>3, <1>6, <2>2 DEF Owing, Deliverable
    <3>3. Unsettled(h)' = Unsettled(h)
      BY <1>3, <2>2 DEF Unsettled
    <3>4. Cardinality(Owing(h)') = Cardinality(Owing(h)) - 1
      BY <3>2, Accounts, CountFacts
    <3> QED
      BY <1>c, <1>3, <2>1, <3>1, <3>3, <3>4 DEF Covered
  <2>3. CASE e = "completed"
    <3>1. Amount(j, e) = -1 /\ job[j] # "skipped"
      BY <1>1, <2>3 DEF Amount
    <3>2. Owing(h)' = Owing(h) /\ j \notin Owing(h)
      BY <1>3, <2>3 DEF Owing, Deliverable
    <3>3. Unsettled(h) \ {j} \subseteq Unsettled(h)'
      BY <1>3 DEF Unsettled
    <3>4. Owing(h) \subseteq Unsettled(h)'
      <4>1. Owing(h) \subseteq Unsettled(h)
        BY DEF Owing, Unsettled, EventsInv
      <4> QED
        BY <3>2, <3>3, <4>1
    <3>5. /\ Cardinality(Unsettled(h)') \in Nat /\ Cardinality(Owing(h)) =< Cardinality(Unsettled(h)')
          /\ Cardinality(Unsettled(h)) - 1 =< Cardinality(Unsettled(h)')
      <4>1. Cardinality(Unsettled(h)') \in Nat /\ Cardinality(Owing(h)) =< Cardinality(Unsettled(h)')
        BY <3>4, Accounts, CountFacts
      <4>2. Cardinality(Unsettled(h) \ {j}) \in Nat /\ Cardinality(Unsettled(h) \ {j}) =< Cardinality(Unsettled(h)')
        BY <3>3, Accounts, CountFacts
      <4>3. Cardinality(Unsettled(h) \ {j}) \in {Cardinality(Unsettled(h)), Cardinality(Unsettled(h)) - 1}
        BY Accounts, CountFacts
      <4> QED
        BY <1>c, <4>1, <4>2, <4>3
    <3> QED
      BY <1>c, <1>3, <2>1, <3>1, <3>2, <3>5 DEF Covered
  <2> QED
    BY <2>2, <2>3
<1> QED
  BY <1>5, <1>6

(* The accounts are balanced initially. *)
LEMMA ExcessInvInit == Init => ExcessInv
<1> SUFFICES ASSUME Init, NEW h \in HRAs PROVE Covered(h)
  BY DEF ExcessInv
<1>1. TypeInv
  BY TypeInvInit
<1>2. hra[h].res = <<>> /\ Len(hra[h].res) = 0
  BY DEF Init, NewHRA
<1>3. Pending(h) = <<>>
  BY NothingPending DEF Init
<1>4. Due(h) = 0
  BY <1>2, <1>3, BookedEmpty DEF Due
<1>5. Owing(h) = {}
  BY DEF Init, Owing
<1>6. Cardinality(Owing(h)) = 0 /\ Cardinality(Unsettled(h)) \in Nat
  BY <1>5, Accounts, CountFacts, FS_EmptySet
<1> QED
  BY <1>1, <1>4, <1>6, DueFacts DEF Covered

(* Every step keeps them so. *)
LEMMA ExcessInvStep == TypeInv /\ CacheInv /\ EventsInv /\ ExcessInv /\ [Next]_vars => ExcessInv'
<1> SUFFICES ASSUME TypeInv, CacheInv, EventsInv, ExcessInv, [Next]_vars, Reliable', NEW h \in HRAs PROVE Covered(h)'
  BY DEF ExcessInv
<1>0. Reliable /\ Covered(h) /\ TypeInv'
  BY TroublesStay, TypeInvStep DEF Reliable, ExcessInv
<1>r. ~set.lag /\ ~set.unanswered /\ ~(set.restarts > 0)
  BY <1>0, ReliableFacts
<1>d. Due(h) \in Nat /\ Due(h)' \in Nat
  BY <1>0, DueFacts, DueStays
<1>1. ASSUME \A g \in HRAs : Pending(g)' = Pending(g) /\ Len(hra'[g].res) = Len(hra[g].res) PROVE Due(h)' = Due(h)
  BY <1>1, SameDue
<1>2. CASE GitHub
  BY <1>0, <1>1, <1>2, GitHubCovered, PendingStays, ReservationsStay
<1>3. CASE Delivery
  <2>1. PICK j \in Jobs, e \in {"queued", "completed"} : Handle(j, e) \/ Lose(j, e)
    BY <1>3 DEF Delivery
  <2>2. CASE Lose(j, e) \/ (Handle(j, e) /\ UNCHANGED queue)
    <3>1. Due(h)' = Due(h)
      BY <1>1, <1>3, <2>2, PendingStays, ReservationsStay
    <3> QED
      BY <1>0, <2>2, <3>1, IgnoredCovered
  <2>3. CASE Handle(j, e) /\ ~UNCHANGED queue
    BY <1>0, <2>3, AcceptedCovered
  <2> QED
    BY <2>1, <2>2, <2>3
<1>4. CASE Server
  <2>1. ~ServerRestarts
    BY <1>r, UsesStep, RecordFacts DEF ServerRestarts, UsesType
  <2>2. Due(h)' = Due(h)
    BY <1>1, <1>4, <2>1, PendingStays, ReservationsStay DEF Server
  <2> QED
    BY <1>0, <1>4, <1>d, <2>2, JobsAsides, AsideCovered
<1>5. CASE BatchScaler
  <2>1. PICK g \in HRAs : Scale(g) \/ ScaleFails(g)
    BY <1>5, <1>r DEF BatchScaler, ScaleUnanswered
  <2>2. CASE Scale(g)
    <3>1. Due(h)' =< Due(h)
      BY <1>0, <1>r, <2>2, BookedDue
    <3> QED
      BY <1>0, <1>5, <1>d, <3>1, JobsAsides, AsideCovered
  <2>3. CASE ScaleFails(g)
    <3>1. Due(h)' = Due(h)
      BY <1>1, <2>3, PendingStays, ReservationsStay
    <3> QED
      BY <1>0, <1>5, <1>d, <3>1, JobsAsides, AsideCovered
  <2> QED
    BY <2>1, <2>2, <2>3
<1>6. CASE Controller \/ Surroundings
  <2>1. Due(h)' = Due(h)
    BY <1>1, <1>6, PendingStays, ReservationsStay
  <2> QED
    BY <1>0, <1>6, <1>d, <2>1, JobsAsides, AsideCovered
<1>7. CASE UNCHANGED vars
  <2>1. hra' = hra /\ \A g \in HRAs : Pending(g)' = Pending(g)
    BY <1>7, SamePending DEF vars
  <2>2. Due(h)' = Due(h)
    BY <1>1, <2>1
  <2> QED
    BY <1>0, <1>7, <1>d, <2>2, JobsAsides, AsideCovered
<1> QED
  BY <1>2, <1>3, <1>4, <1>5, <1>6, <1>7 DEF Next

(* Balanced accounts have no excess. *)
LEMMA ExcessInvImplies == TypeInv /\ ExcessInv => NoExcess
<1> SUFFICES ASSUME TypeInv, ExcessInv, Reliable, NEW h \in HRAs
             PROVE  Due(h) <= Cardinality(Unsettled(h)) + uses.repeated
  BY DEF NoExcess, Due, Unsettled
<1>1. Covered(h) /\ Cardinality(Unsettled(h)) \in Nat /\ Cardinality(Owing(h)) \in Nat
  BY Accounts, CountFacts DEF ExcessInv
<1> QED
  BY <1>1, DueFacts DEF Covered

(* Theorem: capacity is reserved for no more than the jobs that have not *)
(* ended, as far as their ends were received, for any jobs, losses,      *)
(* repetitions, expiries and failed calls (planBatchScale).              *)
THEOREM AutoscalerConsistent == Spec => []Consistent
<1> DEFINE Inv == TypeInv /\ CacheInv /\ EventsInv /\ ExcessInv
<1>1. Init => Inv
  BY TypeInvInit, CacheInvInit, EventsInvInit, ExcessInvInit
<1>2. Inv /\ [Next]_vars => Inv'
  BY TypeInvStep, CacheInvStep, EventsInvStep, ExcessInvStep
<1>3. Inv => Consistent
  BY TypeInvImplies, ExcessInvImplies DEF Consistent
<1> QED
  BY <1>1, <1>2, <1>3, PTL DEF Spec

-----------------------------------------------------------------------------
(***************************************************************************)
(* The scheduled overrides                                                 *)
(***************************************************************************)

(* A set of numbers has a least one. *)
LEMMA MinOfSet ==
  ASSUME NEW S \in SUBSET Nat, S # {}
  PROVE  Min(S) \in S /\ \A y \in S : Min(S) <= y
<1>1. PICK m \in S : \A n \in S : ~(<<n, m>> \in OpToRel(<, Nat))
  BY NatLessThanWellFounded, WFMin
<1>2. \A n \in S : m <= n
  <2> SUFFICES ASSUME NEW n \in S, ~(m <= n) PROVE FALSE
    OBVIOUS
  <2>1. n \in Nat /\ m \in Nat /\ n < m
    OBVIOUS
  <2>2. <<n, m>> \in OpToRel(<, Nat)
    BY <2>1 DEF OpToRel
  <2> QED
    BY <1>1, <2>2
<1>3. \E x \in S : \A y \in S : x <= y
  BY <1>2
<1> QED
  BY <1>3, Zenon DEF Min

(* A set with more than one element has two. *)
LEMMA TwoOf ==
  ASSUME NEW S, IsFiniteSet(S), Cardinality(S) > 1
  PROVE  \E x, y \in S : x # y
<1> SUFFICES ASSUME \A x, y \in S : x = y PROVE FALSE
  OBVIOUS
<1>1. S # {}
  BY FS_EmptySet
<1>2. PICK x \in S : TRUE
  BY <1>1
<1>3. S = {x}
  BY <1>2
<1>4. Cardinality({x}) = 1
  BY FS_Singleton
<1> QED
  BY <1>3, <1>4

(* The overrides are rules with times, and the clock is a time. *)
ScheduleInv == overrides \in Seq(OverrideType) /\ now \in Nat

(* The recurrences of an override *)
LEMMA StartsFacts ==
  ASSUME NEW o \in OverrideType
  PROVE  /\ o.start \in Nat /\ o.end \in Nat /\ o.every \in Nat /\ o.until \in Nat /\ Length(o) \in Int /\ Length(o) = o.end - o.start
         /\ Starts(o) \subseteq Nat
         /\ o.every = 0 => Starts(o) = {o.start}
         /\ \A s \in Starts(o) : \E k \in Nat : s = o.start + k * o.every
<1>1. o.start \in Nat /\ o.end \in Nat /\ o.every \in Nat /\ o.until \in Nat
  BY DEF OverrideType
<1>2. \A s \in Starts(o) : s \in Nat /\ \E k \in Nat : s = o.start + k * o.every
  BY ScheduleAssumption DEF Starts
<1>3. o.every = 0 => Starts(o) = {o.start}
  <2> SUFFICES ASSUME o.every = 0 PROVE Starts(o) = {o.start}
    OBVIOUS
  <2>1. Starts(o) = {o.start + k * 0 : k \in 0..0} \cap Nat
    BY DEF Starts
  <2>2. 0..0 = {0} /\ o.start + 0 * 0 = o.start
    BY <1>1
  <2> QED
    BY <1>1, <2>1, <2>2
<1>4. Length(o) \in Int /\ Length(o) = o.end - o.start
  BY <1>1 DEF Length
<1> QED
  BY <1>1, <1>2, <1>3, <1>4

(* A window is found active exactly when it is in force. *)
LEMMA ActiveIsInForce ==
  ASSUME ScheduleInv, NEW o \in OverrideType
  PROVE  (Active(o) # Never) <=> InForce(o, now)
<1>0. now \in Nat
  BY DEF ScheduleInv
<1>1. CASE o.every = 0
  <2>1. InForce(o, now) <=> o.start <= now /\ now < o.start + Length(o)
    BY <1>1, StartsFacts DEF InForce
  <2>2. o.start + Length(o) = o.end /\ o.start # Never
    BY StartsFacts DEF Never
  <2> QED
    BY <1>1, <2>1, <2>2 DEF Active
<1>2. CASE o.every # 0
  <2>1. InForce(o, now) <=> ActiveStarts(o) # {}
    <3>1. \A s \in Starts(o) : (s <= now /\ now < s + Length(o)) <=> (now - Length(o) + 1 <= s /\ s <= now)
      BY <1>0, StartsFacts
    <3> QED
      BY <3>1 DEF InForce, ActiveStarts, Between
  <2>2. ActiveStarts(o) # {} => Min(ActiveStarts(o)) # Never
    <3>1. ActiveStarts(o) \in SUBSET Nat
      BY StartsFacts DEF ActiveStarts, Between
    <3>2. \A n \in Nat : n # Never
      BY DEF Never
    <3> QED
      BY <3>1, <3>2, MinOfSet
  <2> QED
    BY <1>2, <2>1, <2>2 DEF Active
<1> QED
  BY <1>1, <1>2

(* A rule is refused only when its windows would overlap. *)
LEMMA RefusedOverlaps ==
  ASSUME ScheduleInv, NEW o \in OverrideType, Invalid(o)
  PROVE  Length(o) > o.every
<1>0. now \in Nat /\ o.start \in Nat /\ o.every \in Nat /\ Length(o) \in Int
  BY StartsFacts DEF ScheduleInv
<1> SUFFICES ASSUME Cardinality(ActiveStarts(o)) > 1, o.every # 0 PROVE Length(o) > o.every
  BY DEF Invalid
<1>1. ActiveStarts(o) \in SUBSET (0..now)
  BY <1>0, StartsFacts DEF ActiveStarts, Between
<1>2. IsFiniteSet(ActiveStarts(o))
  <2> DEFINE I == 0..now
  <2>1. 0 \in Int /\ now \in Int
    BY <1>0
  <2>2. IsFiniteSet(I)
    BY <2>1, FS_Interval
  <2>3. ActiveStarts(o) \in SUBSET I
    BY <1>1
  <2> HIDE DEF I
  <2> QED
    BY <2>2, <2>3, FS_Subset
<1>3. PICK x \in ActiveStarts(o), y \in ActiveStarts(o) : x < y
  <2>1. PICK x \in ActiveStarts(o), y \in ActiveStarts(o) : x # y
    BY <1>2, TwoOf
  <2>2. x \in Nat /\ y \in Nat
    BY <1>1
  <2>3. x < y \/ y < x
    BY <2>1, <2>2
  <2> QED
    BY <2>1, <2>3
<1>4. x \in Starts(o) /\ y \in Starts(o) /\ now - Length(o) + 1 <= x /\ y <= now
  BY DEF ActiveStarts, Between
<1>5. PICK k \in Nat : x = o.start + k * o.every
  BY <1>4, StartsFacts
<1>6. PICK m \in Nat : y = o.start + m * o.every
  BY <1>4, StartsFacts
<1>7. y - x >= o.every
  <2> DEFINE e == o.every
             st == o.start
  <2>1. e \in Nat /\ st \in Nat /\ x = st + k * e /\ y = st + m * e
    BY <1>0, <1>5, <1>6
  <2> HIDE DEF e, st
  <2>2. k < m
    <3> SUFFICES ASSUME m <= k PROVE FALSE
      OBVIOUS
    <3>1. m * e <= k * e
      BY <2>1
    <3> QED
      BY <1>3, <2>1, <3>1
  <2>3. k * e + e = (k + 1) * e /\ (k + 1) * e <= m * e
    BY <2>1, <2>2
  <2>4. k * e \in Nat /\ m * e \in Nat
    BY <2>1
  <2>5. y - x >= e
    BY <2>1, <2>3, <2>4
  <2> QED
    BY <2>5 DEF e
<1>8. x \in Nat /\ y \in Nat
  BY <1>1
<1> QED
  BY <1>0, <1>4, <1>7, <1>8

(* The controller applies the first override of the list that is in force. *)
LEMMA FirstIsApplied == ScheduleInv => AppliesFirstInForce
<1> SUFFICES ASSUME ScheduleInv PROVE AppliesFirstInForce
  OBVIOUS
<1>1. \A i \in DOMAIN overrides : overrides[i] \in OverrideType
  BY ElementOfSeq, LenProperties DEF ScheduleInv
<1>2. MatchFails => \E i \in DOMAIN overrides : Length(overrides[i]) > overrides[i].every
  BY <1>1, RefusedOverlaps DEF MatchFails
<1>3. {i \in DOMAIN overrides : Active(overrides[i]) # Never} = {i \in DOMAIN overrides : InForce(overrides[i], now)}
  BY <1>1, ActiveIsInForce
<1>4. FirstActive = LET live == {i \in DOMAIN overrides : InForce(overrides[i], now)}
                    IN  IF live = {} THEN 0 ELSE Min(live)
  BY <1>3 DEF FirstActive
<1> DEFINE live == {i \in DOMAIN overrides : InForce(overrides[i], now)}
<1>5. ActiveMin = IF live = {} THEN NoMin ELSE overrides[Min(live)].min
  <2>1. CASE live = {}
    BY <1>4, <2>1 DEF ActiveMin
  <2>2. CASE live # {}
    <3>1. DOMAIN overrides \subseteq Nat \ {0}
      BY LenProperties DEF ScheduleInv
    <3>2. Min(live) \in live
      <4>1. live \in SUBSET Nat
        BY <3>1
      <4> HIDE DEF live
      <4> QED
        BY <2>2, <4>1, MinOfSet
    <3>3. Min(live) # 0
      BY <3>1, <3>2
    <3> QED
      BY <1>4, <2>2, <3>3 DEF ActiveMin
  <2> QED
    BY <2>1, <2>2
<1> QED
  BY <1>2, <1>4, <1>5 DEF AppliesFirstInForce

(* What begins with the next tick is found as the next one to come. *)
LEMMA UpcomingFacts ==
  ASSUME ScheduleInv, NEW o \in OverrideType
  PROVE  /\ Upcoming(o) = Never \/ (Upcoming(o) \in Nat /\ Upcoming(o) >= now + 1)
         /\ now + 1 \in Starts(o) => Upcoming(o) = now + 1
<1>0. now \in Nat /\ o.start \in Nat /\ o.every \in Nat
  BY StartsFacts DEF ScheduleInv
<1>1. CASE o.every = 0
  BY <1>0, <1>1, StartsFacts DEF Upcoming
<1>2. CASE o.every # 0
  <2>1. UpcomingStarts(o) \in SUBSET Nat /\ \A s \in UpcomingStarts(o) : s >= now + 1
    BY <1>0, StartsFacts DEF UpcomingStarts, Between
  <2>2. now + 1 \in Starts(o) => now + 1 \in UpcomingStarts(o)
    BY <1>0, <1>2 DEF UpcomingStarts, Between
  <2>3. UpcomingStarts(o) # {} => /\ Min(UpcomingStarts(o)) \in UpcomingStarts(o)
                                  /\ \A y \in UpcomingStarts(o) : Min(UpcomingStarts(o)) <= y
    BY <2>1, MinOfSet
  <2>4. Upcoming(o) = IF UpcomingStarts(o) = {} THEN Never ELSE Min(UpcomingStarts(o))
    BY <1>2 DEF Upcoming
  <2> QED
    BY <1>0, <2>1, <2>2, <2>3, <2>4
<1> QED
  BY <1>1, <1>2

(* What begins with the next tick is what the status announces. *)
LEMMA NextIsAnnounced ==
  ASSUME ScheduleInv, NEW i \in DOMAIN overrides, now + 1 \in Starts(overrides[i])
  PROVE  NextStart = now + 1
<1> DEFINE starts == {Upcoming(overrides[j]) : j \in DOMAIN overrides} \ {Never}
<1>0. now \in Nat
  BY DEF ScheduleInv
<1>1. \A j \in DOMAIN overrides : overrides[j] \in OverrideType
  BY ElementOfSeq, LenProperties DEF ScheduleInv
<1>2. \A s \in starts : s \in Nat /\ s >= now + 1
  BY <1>1, UpcomingFacts
<1>3. now + 1 \in starts
  <2>1. Upcoming(overrides[i]) = now + 1 /\ now + 1 # Never
    BY <1>0, <1>1, UpcomingFacts DEF Never
  <2> QED
    BY <2>1
<1>4. NextStart = Min(starts)
  BY <1>3 DEF NextStart
<1> HIDE DEF starts
<1>5. Min(starts) \in starts /\ Min(starts) <= now + 1
  BY <1>2, <1>3, MinOfSet
<1> QED
  BY <1>0, <1>2, <1>4, <1>5

(* Theorem: the first override in force is applied, and none begins that   *)
(* the status did not announce, for any rules whose windows do not overlap *)
(* and all times (matchScheduledOverrides, MatchSchedule).                 *)
THEOREM ScheduleOverridesAreKept ==
  ScheduleInit /\ [][TimePasses]_<<overrides, now>> => OverridesAreKept
<1> DEFINE Announced ==
             /\ AppliesFirstInForce
             /\ ~MatchFails /\ ~MatchFails' =>
                   \A i \in DOMAIN overrides : now' \in Starts(overrides[i]) => NextStart = now'
<1>1. ScheduleInit => ScheduleInv
  BY ScheduleAssumption DEF ScheduleInit, ScheduleInv
<1>2. ScheduleInv /\ [TimePasses]_<<overrides, now>> => ScheduleInv'
  BY DEF ScheduleInv, TimePasses
<1>3. ScheduleInv /\ [TimePasses]_<<overrides, now>> => [Announced]_<<overrides, now>>
  <2> SUFFICES ASSUME ScheduleInv, TimePasses PROVE Announced
    OBVIOUS
  <2>1. now' = now + 1
    BY DEF TimePasses
  <2>2. \A i \in DOMAIN overrides : now' \in Starts(overrides[i]) => NextStart = now'
    BY <2>1, NextIsAnnounced
  <2> QED
    BY <2>2, FirstIsApplied
<1>4. ScheduleInit /\ [][TimePasses]_<<overrides, now>> => [][Announced]_<<overrides, now>>
  BY <1>1, <1>2, <1>3, PTL
<1> QED
  BY <1>4 DEF OverridesAreKept

-----------------------------------------------------------------------------
(***************************************************************************)
(* The scale target of an event                                            *)
(***************************************************************************)

(* What InsertAt does *)
LEMMA InsertFacts ==
  ASSUME NEW X, NEW s \in Seq(X), NEW i \in 1..Len(s) + 1, NEW x \in X
  PROVE  /\ InsertAt(s, i, x) \in Seq(X)
         /\ Len(InsertAt(s, i, x)) = Len(s) + 1
         /\ \A j \in 1..Len(s) + 1 : InsertAt(s, i, x)[j] = IF j < i THEN s[j] ELSE IF j = i THEN x ELSE s[j - 1]
<1> DEFINE a == SubSeq(s, 1, i - 1)
           b == SubSeq(s, i, Len(s))
           c == a \o <<x>>
<1>0. Len(s) \in Nat
  BY LenProperties
<1>1. a \in Seq(X) /\ Len(a) = i - 1 /\ \A j \in 1..i - 1 : a[j] = s[j]
  BY <1>0, SubSeqProperties
<1>2. b \in Seq(X) /\ Len(b) = Len(s) - i + 1 /\ \A j \in 1..(Len(s) - i + 1) : b[j] = s[i + j - 1]
  BY <1>0, SubSeqProperties
<1>3. InsertAt(s, i, x) = c \o b
  BY DEF InsertAt
<1> HIDE DEF a, b
<1>4. c \in Seq(X) /\ Len(c) = i /\ \A j \in 1..i : c[j] = IF j < i THEN a[j] ELSE x
  BY <1>0, <1>1, ConcatProperties
<1> HIDE DEF c
<1>5. /\ c \o b \in Seq(X) /\ Len(c \o b) = Len(s) + 1
      /\ \A j \in 1..Len(s) + 1 : (c \o b)[j] = IF j <= i THEN c[j] ELSE b[j - i]
  BY <1>0, <1>2, <1>4, ConcatProperties
<1>6. ASSUME NEW j \in 1..Len(s) + 1
      PROVE  (c \o b)[j] = IF j < i THEN s[j] ELSE IF j = i THEN x ELSE s[j - 1]
  <2>1. CASE j < i
    BY <1>0, <1>1, <1>4, <1>5, <2>1
  <2>2. CASE j = i
    BY <1>0, <1>4, <1>5, <2>2
  <2>3. CASE j > i
    <3>1. j - i \in 1..(Len(s) - i + 1) /\ i + (j - i) - 1 = j - 1
      BY <1>0, <2>3
    <3> QED
      BY <1>0, <1>2, <1>5, <2>3, <3>1
  <2>4. j < i \/ j = i \/ j > i
    BY <1>0
  <2> QED
    BY <2>1, <2>2, <2>3, <2>4
<1> QED
  BY <1>3, <1>5, <1>6

(* The catalog lists HRAs, and the event is one of those that are considered. *)
TargetInv == catalog \in Seq(ShapeType) /\ event \in EventType

(* The precedence of a group, as a number *)
Rank(g) == 2 * Kind(g) + ScopeRank(g)

(* It is what Precedes compares. *)
LEMMA RankFacts ==
  ASSUME NEW g \in GroupType
  PROVE  Rank(g) \in 0..3 /\ \A d \in GroupType : Precedes(g, d) <=> Rank(g) < Rank(d)
<1>1. \A d : Kind(d) \in 0..1 /\ ScopeRank(d) \in 0..1
  BY DEF Kind, ScopeRank
<1>2. \A d : Rank(d) = 2 * Kind(d) + ScopeRank(d)
  BY DEF Rank
<1>3. \A d : Rank(d) \in 0..3
  BY <1>1, <1>2
<1>4. \A d : Precedes(g, d) <=> Rank(g) < Rank(d)
  BY <1>1, <1>2 DEF Precedes
<1> QED
  BY <1>3, <1>4

(* A list of groups by their precedence *)
Ordered(gs) == \A i, j \in 1..Len(gs) : i < j => Rank(gs[i]) <= Rank(gs[j])

(* A group is inserted behind those that it does not precede. *)
LEMMA PlaceFacts ==
  ASSUME NEW gs \in Seq(GroupType), NEW g \in GroupType
  PROVE  /\ Place(gs, g) \in 1..Len(gs) + 1
         /\ \A j \in 1..Len(gs) : j < Place(gs, g) => ~Precedes(g, gs[j])
         /\ Place(gs, g) <= Len(gs) => Precedes(g, gs[Place(gs, g)])
<1> DEFINE S == {i \in 1..Len(gs) + 1 : i <= Len(gs) => Precedes(g, gs[i])}
<1>0. Len(gs) \in Nat
  BY LenProperties
<1>1. S \in SUBSET Nat /\ Len(gs) + 1 \in S
  BY <1>0
<1>2. Place(gs, g) = Min(S)
  BY DEF Place
<1>3. Min(S) \in S /\ \A y \in S : Min(S) <= y
  <2> HIDE DEF S
  <2> QED
    BY <1>1, MinOfSet
<1> DEFINE m == Min(S)
<1>4. m \in 1..Len(gs) + 1 /\ (m <= Len(gs) => Precedes(g, gs[m]))
  BY <1>3
<1>5. ASSUME NEW j \in 1..Len(gs), j < m, Precedes(g, gs[j]) PROVE FALSE
  <2>1. j \in S /\ j \in Nat /\ m \in Nat
    BY <1>0, <1>4, <1>5
  <2>2. m <= j
    BY <1>3, <2>1
  <2> HIDE DEF m
  <2> QED
    BY <1>5, <2>1, <2>2
<1> HIDE DEF m
<1>6. Place(gs, g) = m
  BY <1>2 DEF m
<1> QED
  BY <1>4, <1>5, <1>6

(* Add keeps the order, and adds the group. *)
LEMMA AddFacts ==
  ASSUME NEW gs \in Seq(GroupType), NEW g \in GroupType
  PROVE  /\ AddGroup(gs, g) \in Seq(GroupType)
         /\ \A d : d \in ToSet(AddGroup(gs, g)) <=> d \in ToSet(gs) \/ d = g
         /\ Ordered(gs) => Ordered(AddGroup(gs, g))
<1> DEFINE p == Place(gs, g)
           t == AddGroup(gs, g)
<1>0. Len(gs) \in Nat /\ DOMAIN gs = 1..Len(gs) /\ p \in 1..Len(gs) + 1
  BY LenProperties, PlaceFacts
<1>1. /\ t \in Seq(GroupType) /\ Len(t) = Len(gs) + 1
      /\ \A j \in 1..Len(gs) + 1 : t[j] = IF j < p THEN gs[j] ELSE IF j = p THEN g ELSE gs[j - 1]
  <2>1. t = InsertAt(gs, p, g)
    BY DEF AddGroup
  <2> HIDE DEF p, t
  <2>2. ASSUME NEW i \in 1..Len(gs) + 1
        PROVE  /\ InsertAt(gs, i, g) \in Seq(GroupType)
               /\ Len(InsertAt(gs, i, g)) = Len(gs) + 1
               /\ \A j \in 1..Len(gs) + 1 :
                     InsertAt(gs, i, g)[j] = IF j < i THEN gs[j] ELSE IF j = i THEN g ELSE gs[j - 1]
    BY InsertFacts
  <2> QED
    BY <1>0, <2>1, <2>2
<1>2. DOMAIN t = 1..Len(gs) + 1
  BY <1>1, LenProperties
<1> HIDE DEF t
<1>3. ASSUME NEW d PROVE d \in ToSet(t) <=> d \in ToSet(gs) \/ d = g
  <2>1. ASSUME d \in ToSet(t) PROVE d \in ToSet(gs) \/ d = g
    <3>1. PICK j \in 1..Len(gs) + 1 : d = t[j]
      BY <1>2, <2>1 DEF ToSet
    <3>2. CASE j < p
      BY <1>0, <1>1, <3>1, <3>2 DEF ToSet
    <3>3. CASE j > p
      <4>1. j - 1 \in DOMAIN gs /\ d = gs[j - 1]
        BY <1>0, <1>1, <3>1, <3>3
      <4> QED
        BY <4>1 DEF ToSet
    <3> QED
      BY <1>0, <1>1, <3>1, <3>2, <3>3
  <2>2. ASSUME d \in ToSet(gs) PROVE d \in ToSet(t)
    <3>1. PICK j \in 1..Len(gs) : d = gs[j]
      BY <1>0, <2>2 DEF ToSet
    <3>2. \E k \in DOMAIN t : t[k] = d
      <4>1. CASE j < p
        BY <1>0, <1>1, <1>2, <3>1, <4>1
      <4>2. CASE j >= p
        <5>1. j + 1 \in 1..Len(gs) + 1 /\ (j + 1) - 1 = j /\ j + 1 > p
          BY <1>0, <4>2
        <5>2. t[j + 1] = gs[j]
          BY <1>0, <1>1, <5>1
        <5> QED
          BY <1>2, <3>1, <5>1, <5>2
      <4> QED
        BY <1>0, <4>1, <4>2
    <3> QED
      BY <3>2 DEF ToSet
  <2>3. g \in ToSet(t)
    BY <1>0, <1>1, <1>2 DEF ToSet
  <2> QED
    BY <2>1, <2>2, <2>3
<1>4. ASSUME Ordered(gs) PROVE Ordered(t)
  <2> SUFFICES ASSUME NEW i \in 1..Len(gs) + 1, NEW j \in 1..Len(gs) + 1, i < j PROVE Rank(t[i]) <= Rank(t[j])
    BY <1>1 DEF Ordered
  <2>0. Rank(g) \in Nat /\ \A k \in 1..Len(gs) : gs[k] \in GroupType /\ Rank(gs[k]) \in Nat
    BY <1>0, RankFacts, ElementOfSeq
  <2>1. \A k \in 1..Len(gs) : k < p => Rank(gs[k]) <= Rank(g)
    <3> SUFFICES ASSUME NEW k \in 1..Len(gs), k < p PROVE Rank(gs[k]) <= Rank(g)
      OBVIOUS
    <3>1. ~(Rank(g) < Rank(gs[k]))
      BY <2>0, PlaceFacts, RankFacts
    <3> QED
      BY <2>0, <3>1
  <2>2. ASSUME NEW k \in 1..Len(gs), p <= k PROVE Rank(g) <= Rank(gs[k])
    <3>1. p \in 1..Len(gs)
      BY <1>0, <2>2
    <3>2. Rank(g) < Rank(gs[p])
      BY <1>0, <2>0, <3>1, PlaceFacts, RankFacts
    <3>3. p = k \/ Rank(gs[p]) <= Rank(gs[k])
      BY <1>0, <1>4, <2>2, <3>1 DEF Ordered
    <3> QED
      BY <2>0, <3>1, <3>2, <3>3
  <2> HIDE DEF p
  <2>3. CASE j < p
    BY <1>0, <1>1, <1>4, <2>3 DEF Ordered
  <2>4. CASE j = p
    <3>1. t[j] = g /\ t[i] = gs[i] /\ i \in 1..Len(gs) /\ i < p
      BY <1>0, <1>1, <2>4
    <3> QED
      BY <2>1, <3>1
  <2>5. CASE j > p /\ i < p
    <3>1. t[j] = gs[j - 1] /\ t[i] = gs[i] /\ i \in 1..Len(gs) /\ j - 1 \in 1..Len(gs) /\ i < j - 1
      BY <1>0, <1>1, <2>5
    <3> QED
      BY <1>4, <3>1 DEF Ordered
  <2>6. CASE i = p
    <3>1. t[j] = gs[j - 1] /\ t[i] = g /\ j - 1 \in 1..Len(gs) /\ p <= j - 1
      BY <1>0, <1>1, <2>6
    <3> QED
      BY <2>2, <3>1
  <2>7. CASE i > p
    <3>1. t[j] = gs[j - 1] /\ t[i] = gs[i - 1] /\ i - 1 \in 1..Len(gs) /\ j - 1 \in 1..Len(gs) /\ i - 1 < j - 1
      BY <1>0, <1>1, <2>7
    <3> QED
      BY <1>4, <3>1 DEF Ordered
  <2> QED
    BY <1>0, <2>3, <2>4, <2>5, <2>6, <2>7
<1> QED
  BY <1>1, <1>3, <1>4 DEF t

(* The values p of the loop over the HRAs am that collects the groups of *)
(* the catalog                                                           *)
ManageRun(p, am) ==
    /\ p[0] = <<>>
    /\ \A k \in 1..Len(am) : p[k] = Manage(p[k - 1], am[k])
    /\ FoldLeft(Manage, <<>>, am) = p[Len(am)]

(* The fold over Manage is that loop. *)
LEMMA ManageLoop ==
  ASSUME NEW am \in Seq(ShapeType), NEW D, <<>> \in D, \A t \in D, x \in ShapeType : Manage(t, x) \in D
  PROVE  \E p : ManageRun(p, am)
<1> DEFINE n == Len(am)
           step == [x \in D \X (1..n) |-> Manage(x[1], am[x[2]])]
           Body(f) == [s \in SUBSET (1..n) |-> IF s = {} THEN <<>> ELSE Manage(f[s \ {Max(s)}], am[Max(s)])]
<1>1. n \in Nat /\ DOMAIN am = 1..n
  OBVIOUS
<1>2. step \in [D \X (1..n) -> D]
  <2>1. \A k \in 1..n : am[k] \in ShapeType
    BY ElementOfSeq
  <2> HIDE DEF n
  <2> QED
    BY <2>1
<1>3. PICK g : FoldOf(g, D, <<>>, step, n)
  <2> HIDE DEF step, n
  <2> QED
    BY <1>1, <1>2, FoldExists
<1>4. g = Body(g)
  <2> SUFFICES ASSUME NEW s \in SUBSET (1..n), s # {}
               PROVE  g[s] = Manage(g[s \ {Max(s)}], am[Max(s)])
    BY <1>3 DEF FoldOf
  <2>1. Max(s) \in 1..n
    <3>1. s \in SUBSET (0..n)
      BY <1>1
    <3> HIDE DEF n
    <3> QED
      BY <1>1, <3>1, MaxOfSet
  <2>2. g[s \ {Max(s)}] \in D
    BY <1>3 DEF FoldOf
  <2>3. <<g[s \ {Max(s)}], Max(s)>> \in D \X (1..n)
    BY <2>1, <2>2
  <2>4. g[s] = step[<<g[s \ {Max(s)}], Max(s)>>]
    BY <1>3 DEF FoldOf
  <2>5. step[<<g[s \ {Max(s)}], Max(s)>>] = Manage(g[s \ {Max(s)}], am[Max(s)])
    BY <2>3
  <2> HIDE DEF step, n
  <2> QED
    BY <2>4, <2>5
<1> DEFINE f == CHOOSE f : f = Body(f)
<1>5. f = Body(f)
  <2> HIDE DEF Body
  <2> QED
    BY <1>4
<1>6. f[{}] = <<>>
  <2>1. {} \in SUBSET (1..n)
    OBVIOUS
  <2>2. Body(f)[{}] = <<>>
    BY <2>1
  <2> HIDE DEF f, Body
  <2> QED
    BY <1>5, <2>2
<1>7. ASSUME NEW k \in 1..n PROVE f[1..k] = Manage(f[1..(k - 1)], am[k])
  <2>1. k - 1 \in Nat /\ (k - 1) + 1 = k /\ k \in 1..k
    BY <1>1
  <2>2. Max(1..k) = k
    BY <2>1, MaxOfInterval
  <2>3. (1..k) \ {k} = 1..(k - 1) /\ 1..k \in SUBSET (1..n) /\ 1..k # {}
    <3>1. \A i : i \in (1..k) \ {k} <=> i \in 1..(k - 1)
      BY <2>1
    <3>2. \A i \in 1..k : i \in 1..n
      BY <1>1
    <3> QED
      BY <2>1, <3>1, <3>2
  <2> HIDE DEF f
  <2>4. Body(f)[1..k] = Manage(f[1..(k - 1)], am[k])
    BY <2>2, <2>3
  <2> HIDE DEF Body
  <2> QED
    BY <1>5, <2>4
<1>8. FoldLeft(Manage, <<>>, am) = f[1..n]
  <2>1. FoldLeft(Manage, <<>>, am) = f[DOMAIN am]
    BY <1>1 DEF FoldLeft, MapThenFoldSet
  <2> HIDE DEF f
  <2> QED
    BY <1>1, <2>1
<1> DEFINE p == [k \in 0..n |-> f[1..k]]
<1>9. p[0] = <<>> /\ p[n] = f[1..n] /\ \A k \in 1..n : p[k] = f[1..k] /\ p[k - 1] = f[1..(k - 1)]
  <2> HIDE DEF f, n
  <2>1. 1..0 = {} /\ 0 \in 0..n /\ n \in 0..n /\ \A k \in 1..n : k \in 0..n /\ k - 1 \in 0..n
    BY <1>1
  <2> QED
    BY <1>6, <2>1
<1> HIDE DEF f, p
<1> QED
  BY <1>7, <1>8, <1>9 DEF ManageRun

(* The groups of the catalog are ordered, and every relevant HRA has its group among them. *)
LEMMA ManagedFacts ==
  ASSUME TargetInv
  PROVE  /\ Managed \in Seq(GroupType) /\ Ordered(Managed)
         /\ \A i \in 1..Len(catalog) :
               Relevant(catalog[i]) /\ catalog[i].level # "repo" => GroupOf(catalog[i]) \in ToSet(Managed)
<1> DEFINE n == Len(catalog)
           Meant(i) == Relevant(catalog[i]) /\ catalog[i].level # "repo"
<1>0. n \in Nat /\ catalog \in Seq(ShapeType) /\ \A i \in 1..n : catalog[i] \in ShapeType
  BY LenProperties, ElementOfSeq DEF TargetInv
<1>1. ASSUME NEW gs \in Seq(GroupType), NEW h \in ShapeType
      PROVE  /\ GroupOf(h) \in GroupType /\ Manage(gs, h) \in Seq(GroupType)
             /\ Ordered(gs) => Ordered(Manage(gs, h))
             /\ ToSet(gs) \subseteq ToSet(Manage(gs, h))
             /\ Relevant(h) /\ h.level # "repo" => GroupOf(h) \in ToSet(Manage(gs, h))
  <2>1. GroupOf(h) \in GroupType
    BY DEF GroupOf, GroupType, Scopes, ShapeType
  <2> QED
    BY <2>1, AddFacts DEF Manage
<1>2. <<>> \in Seq(GroupType)
  OBVIOUS
<1>3. PICK p : ManageRun(p, catalog)
  BY <1>0, <1>1, <1>2, ManageLoop
<1> DEFINE S == {m \in Nat : m <= n => /\ p[m] \in Seq(GroupType) /\ Ordered(p[m])
                                       /\ \A i \in 1..m : Meant(i) => GroupOf(catalog[i]) \in ToSet(p[m])}
<1> HIDE DEF n, Meant
<1>4. 0 \in S
  <2>1. p[0] = <<>> /\ 1..0 = {}
    BY <1>3 DEF ManageRun
  <2>2. p[0] \in Seq(GroupType) /\ Ordered(p[0])
    BY <2>1 DEF Ordered
  <2> QED
    BY <2>1, <2>2
<1>5. \A m \in S : m + 1 \in S
  <2> SUFFICES ASSUME NEW m \in S, m + 1 <= n PROVE m + 1 \in S
    OBVIOUS
  <2>1. /\ m \in Nat /\ m <= n /\ m + 1 \in 1..n /\ (m + 1) - 1 = m
        /\ \A i \in 1..m + 1 : i \in 1..m \/ i = m + 1
    BY <1>0
  <2>2. /\ p[m] \in Seq(GroupType) /\ Ordered(p[m])
        /\ \A i \in 1..m : Meant(i) => GroupOf(catalog[i]) \in ToSet(p[m])
    BY <2>1
  <2>3. p[m + 1] = Manage(p[m], catalog[m + 1])
    BY <1>3, <2>1 DEF ManageRun, n
  <2>4. catalog[m + 1] \in ShapeType
    BY <1>0, <2>1
  <2>5. /\ p[m + 1] \in Seq(GroupType) /\ Ordered(p[m + 1]) /\ ToSet(p[m]) \subseteq ToSet(p[m + 1])
        /\ Meant(m + 1) => GroupOf(catalog[m + 1]) \in ToSet(p[m + 1])
    BY <1>1, <2>2, <2>3, <2>4 DEF Meant
  <2>6. \A i \in 1..m + 1 : Meant(i) => GroupOf(catalog[i]) \in ToSet(p[m + 1])
    BY <2>1, <2>2, <2>5
  <2> QED
    BY <2>1, <2>5, <2>6
<1>6. S = Nat
  <2> HIDE DEF S
  <2> S \in SUBSET Nat
    BY DEF S
  <2> QED
    BY <1>4, <1>5, SetInduction
<1>7. n \in S
  <2> HIDE DEF S
  <2> QED
    BY <1>0, <1>6
<1>8. Managed = p[n]
  BY <1>3 DEF Managed, ManageRun, n
<1>9. n <= n
  BY <1>0
<1> QED
  BY <1>7, <1>8, <1>9 DEF n, Meant

(* The values p of the loop over the groups am of GitHub that keeps those *)
(* that are managed                                                       *)
ShowRun(p, am) ==
    /\ p[0] = <<>>
    /\ \A k \in 1..Len(am) : p[k] = Show(p[k - 1], am[k])
    /\ FoldLeft(Show, <<>>, am) = p[Len(am)]

(* The fold over Show is that loop. *)
LEMMA ShowLoop ==
  ASSUME NEW am \in Seq(GroupType), NEW D, <<>> \in D, \A t \in D, x \in GroupType : Show(t, x) \in D
  PROVE  \E p : ShowRun(p, am)
<1> DEFINE n == Len(am)
           step == [x \in D \X (1..n) |-> Show(x[1], am[x[2]])]
           Body(f) == [s \in SUBSET (1..n) |-> IF s = {} THEN <<>> ELSE Show(f[s \ {Max(s)}], am[Max(s)])]
<1>1. n \in Nat /\ DOMAIN am = 1..n
  OBVIOUS
<1>2. step \in [D \X (1..n) -> D]
  <2>1. \A k \in 1..n : am[k] \in GroupType
    BY ElementOfSeq
  <2> HIDE DEF n
  <2> QED
    BY <2>1
<1>3. PICK g : FoldOf(g, D, <<>>, step, n)
  <2> HIDE DEF step, n
  <2> QED
    BY <1>1, <1>2, FoldExists
<1>4. g = Body(g)
  <2> SUFFICES ASSUME NEW s \in SUBSET (1..n), s # {}
               PROVE  g[s] = Show(g[s \ {Max(s)}], am[Max(s)])
    BY <1>3 DEF FoldOf
  <2>1. Max(s) \in 1..n
    <3>1. s \in SUBSET (0..n)
      BY <1>1
    <3> HIDE DEF n
    <3> QED
      BY <1>1, <3>1, MaxOfSet
  <2>2. g[s \ {Max(s)}] \in D
    BY <1>3 DEF FoldOf
  <2>3. <<g[s \ {Max(s)}], Max(s)>> \in D \X (1..n)
    BY <2>1, <2>2
  <2>4. g[s] = step[<<g[s \ {Max(s)}], Max(s)>>]
    BY <1>3 DEF FoldOf
  <2>5. step[<<g[s \ {Max(s)}], Max(s)>>] = Show(g[s \ {Max(s)}], am[Max(s)])
    BY <2>3
  <2> HIDE DEF step, n
  <2> QED
    BY <2>4, <2>5
<1> DEFINE f == CHOOSE f : f = Body(f)
<1>5. f = Body(f)
  <2> HIDE DEF Body
  <2> QED
    BY <1>4
<1>6. f[{}] = <<>>
  <2>1. {} \in SUBSET (1..n)
    OBVIOUS
  <2>2. Body(f)[{}] = <<>>
    BY <2>1
  <2> HIDE DEF f, Body
  <2> QED
    BY <1>5, <2>2
<1>7. ASSUME NEW k \in 1..n PROVE f[1..k] = Show(f[1..(k - 1)], am[k])
  <2>1. k - 1 \in Nat /\ (k - 1) + 1 = k /\ k \in 1..k
    BY <1>1
  <2>2. Max(1..k) = k
    BY <2>1, MaxOfInterval
  <2>3. (1..k) \ {k} = 1..(k - 1) /\ 1..k \in SUBSET (1..n) /\ 1..k # {}
    <3>1. \A i : i \in (1..k) \ {k} <=> i \in 1..(k - 1)
      BY <2>1
    <3>2. \A i \in 1..k : i \in 1..n
      BY <1>1
    <3> QED
      BY <2>1, <3>1, <3>2
  <2> HIDE DEF f
  <2>4. Body(f)[1..k] = Show(f[1..(k - 1)], am[k])
    BY <2>2, <2>3
  <2> HIDE DEF Body
  <2> QED
    BY <1>5, <2>4
<1>8. FoldLeft(Show, <<>>, am) = f[1..n]
  <2>1. FoldLeft(Show, <<>>, am) = f[DOMAIN am]
    BY <1>1 DEF FoldLeft, MapThenFoldSet
  <2> HIDE DEF f
  <2> QED
    BY <1>1, <2>1
<1> DEFINE p == [k \in 0..n |-> f[1..k]]
<1>9. p[0] = <<>> /\ p[n] = f[1..n] /\ \A k \in 1..n : p[k] = f[1..k] /\ p[k - 1] = f[1..(k - 1)]
  <2> HIDE DEF f, n
  <2>1. 1..0 = {} /\ 0 \in 0..n /\ n \in 0..n /\ \A k \in 1..n : k \in 0..n /\ k - 1 \in 0..n
    BY <1>1
  <2> QED
    BY <1>6, <2>1
<1> HIDE DEF f, p
<1> QED
  BY <1>7, <1>8, <1>9 DEF ShowRun

(* The visible groups are ordered; they are those that are managed and that GitHub shows. *)
LEMMA VisibleFacts ==
  ASSUME TargetInv
  PROVE  /\ VisibleGroups \in Seq(GroupType) /\ Ordered(VisibleGroups)
         /\ event.client = "answers" => ToSet(VisibleGroups) \subseteq ToSet(event.groups)
         /\ \A g \in ToSet(Managed) : (event.client = "answers" => g \in ToSet(event.groups)) => g \in ToSet(VisibleGroups)
<1>a. CASE event.client # "answers"
  BY <1>a, ManagedFacts DEF VisibleGroups
<1>b. CASE event.client = "answers"
  <2> DEFINE es == event.groups
             n == Len(es)
  <2>0. es \in Seq(GroupType) /\ n \in Nat /\ DOMAIN es = 1..n /\ \A i \in 1..n : es[i] \in GroupType
    <3>1. es \in Seq(GroupType)
      BY DEF TargetInv, EventType
    <3> HIDE DEF es
    <3> QED
      BY <3>1, LenProperties, ElementOfSeq
  <2>1. ASSUME NEW gs \in Seq(GroupType), NEW g \in GroupType
        PROVE  /\ Show(gs, g) \in Seq(GroupType)
               /\ Ordered(gs) => Ordered(Show(gs, g))
               /\ ToSet(gs) \subseteq ToSet(Show(gs, g))
               /\ ToSet(Show(gs, g)) \subseteq ToSet(gs) \cup {g}
               /\ g \in ToSet(Managed) => g \in ToSet(Show(gs, g))
    BY <2>1, AddFacts DEF Show
  <2>2. <<>> \in Seq(GroupType)
    OBVIOUS
  <2> HIDE DEF es
  <2>3. PICK p : ShowRun(p, es)
    BY <2>0, <2>1, <2>2, ShowLoop
  <2> DEFINE S == {m \in Nat : m <= n => /\ p[m] \in Seq(GroupType) /\ Ordered(p[m])
                                         /\ \A g \in ToSet(p[m]) : \E i \in 1..m : g = es[i]
                                         /\ \A i \in 1..m : es[i] \in ToSet(Managed) => es[i] \in ToSet(p[m])}
  <2> HIDE DEF n
  <2>4. 0 \in S
    <3>1. p[0] = <<>> /\ 1..0 = {} /\ ToSet(<<>>) = {}
      BY <2>3 DEF ShowRun, ToSet
    <3>2. p[0] \in Seq(GroupType) /\ Ordered(p[0])
      BY <3>1 DEF Ordered
    <3> QED
      BY <3>1, <3>2
  <2>5. \A m \in S : m + 1 \in S
    <3>0. \A m \in S : ~(m + 1 <= n) => m + 1 \in S
      OBVIOUS
    <3> SUFFICES ASSUME NEW m \in S, m + 1 <= n PROVE m + 1 \in S
      <4> HIDE DEF S
      <4> QED
        BY <3>0
    <3>1. /\ m \in Nat /\ m <= n /\ m + 1 \in 1..n /\ (m + 1) - 1 = m
          /\ \A i \in 1..m + 1 : i \in 1..m \/ i = m + 1
          /\ \A i \in 1..m : i \in 1..m + 1
          /\ m + 1 \in 1..m + 1
      BY <2>0
    <3>2. /\ p[m] \in Seq(GroupType) /\ Ordered(p[m])
          /\ \A g \in ToSet(p[m]) : \E i \in 1..m : g = es[i]
          /\ \A i \in 1..m : es[i] \in ToSet(Managed) => es[i] \in ToSet(p[m])
      BY <3>1
    <3>3. p[m + 1] = Show(p[m], es[m + 1])
      BY <2>3, <3>1 DEF ShowRun, n
    <3>4. es[m + 1] \in GroupType
      BY <2>0, <3>1
    <3>5. /\ p[m + 1] \in Seq(GroupType) /\ Ordered(p[m + 1]) /\ ToSet(p[m]) \subseteq ToSet(p[m + 1])
          /\ ToSet(p[m + 1]) \subseteq ToSet(p[m]) \cup {es[m + 1]}
          /\ es[m + 1] \in ToSet(Managed) => es[m + 1] \in ToSet(p[m + 1])
      BY <2>1, <3>2, <3>3, <3>4
    <3>6. \A g \in ToSet(p[m + 1]) : \E i \in 1..m + 1 : g = es[i]
      BY <3>1, <3>2, <3>5
    <3>7. \A i \in 1..m + 1 : es[i] \in ToSet(Managed) => es[i] \in ToSet(p[m + 1])
      BY <3>1, <3>2, <3>5
    <3> QED
      BY <3>1, <3>5, <3>6, <3>7
  <2>6. S = Nat
    <3> HIDE DEF S
    <3> S \in SUBSET Nat
      BY DEF S
    <3> QED
      BY <2>4, <2>5, SetInduction
  <2>7. n \in S
    <3> HIDE DEF S
    <3> QED
      BY <2>0, <2>6
  <2>8. VisibleGroups = p[n]
    BY <1>b, <2>3 DEF VisibleGroups, ShowRun, n, es
  <2>9. n <= n
    BY <2>0
  <2>10. ToSet(event.groups) = {es[i] : i \in 1..n}
    BY <2>0 DEF ToSet, es
  <2>11. /\ p[n] \in Seq(GroupType) /\ Ordered(p[n])
         /\ \A g \in ToSet(p[n]) : \E i \in 1..n : g = es[i]
         /\ \A i \in 1..n : es[i] \in ToSet(Managed) => es[i] \in ToSet(p[n])
    BY <2>7, <2>9
  <2> QED
    BY <1>b, <2>8, <2>10, <2>11
<1> QED
  BY <1>a, <1>b

(* The target for a key is an HRA with that key that takes the job; without a target there is none. *)
LEMMA JobTargetFacts ==
  ASSUME TargetInv, NEW key
  PROVE  \/ /\ JobScaleTarget(key) = <<>>
            /\ \A i \in 1..Len(catalog) : ~(key \in Keys(catalog[i]) /\ Takes(catalog[i]))
         \/ \E i \in 1..Len(catalog) : /\ JobScaleTarget(key) = <<catalog[i]>>
                                       /\ key \in Keys(catalog[i]) /\ Takes(catalog[i])
<1> DEFINE takers == {i \in HRAsByKey(key) : Takes(catalog[i])}
<1>1. Len(catalog) \in Nat /\ DOMAIN catalog = 1..Len(catalog)
  BY LenProperties DEF TargetInv
<1>2. takers = {i \in 1..Len(catalog) : key \in Keys(catalog[i]) /\ Takes(catalog[i])}
  BY <1>1 DEF HRAsByKey
<1>3. JobScaleTarget(key) = IF takers = {} THEN <<>> ELSE <<catalog[Min(takers)]>>
  BY DEF JobScaleTarget
<1>4. takers \in SUBSET Nat
  BY <1>1, <1>2
<1>5. takers # {} => Min(takers) \in takers
  <2> HIDE DEF takers
  <2> QED
    BY <1>4, MinOfSet
<1> HIDE DEF takers
<1> QED
  BY <1>2, <1>3, <1>5

(* The values p of the loop over the groups am that looks for a target *)
TraverseRun(p, am) ==
    /\ p[0] = <<>>
    /\ \A k \in 1..Len(am) : p[k] = Traverse(p[k - 1], am[k])
    /\ FoldLeft(Traverse, <<>>, am) = p[Len(am)]

(* The fold over Traverse is that loop. *)
LEMMA TraverseLoop ==
  ASSUME NEW am \in Seq(GroupType), NEW D, <<>> \in D, \A t \in D, x \in GroupType : Traverse(t, x) \in D
  PROVE  \E p : TraverseRun(p, am)
<1> DEFINE n == Len(am)
           step == [x \in D \X (1..n) |-> Traverse(x[1], am[x[2]])]
           Body(f) == [s \in SUBSET (1..n) |-> IF s = {} THEN <<>> ELSE Traverse(f[s \ {Max(s)}], am[Max(s)])]
<1>1. n \in Nat /\ DOMAIN am = 1..n
  OBVIOUS
<1>2. step \in [D \X (1..n) -> D]
  <2>1. \A k \in 1..n : am[k] \in GroupType
    BY ElementOfSeq
  <2> HIDE DEF n
  <2> QED
    BY <2>1
<1>3. PICK g : FoldOf(g, D, <<>>, step, n)
  <2> HIDE DEF step, n
  <2> QED
    BY <1>1, <1>2, FoldExists
<1>4. g = Body(g)
  <2> SUFFICES ASSUME NEW s \in SUBSET (1..n), s # {}
               PROVE  g[s] = Traverse(g[s \ {Max(s)}], am[Max(s)])
    BY <1>3 DEF FoldOf
  <2>1. Max(s) \in 1..n
    <3>1. s \in SUBSET (0..n)
      BY <1>1
    <3> HIDE DEF n
    <3> QED
      BY <1>1, <3>1, MaxOfSet
  <2>2. g[s \ {Max(s)}] \in D
    BY <1>3 DEF FoldOf
  <2>3. <<g[s \ {Max(s)}], Max(s)>> \in D \X (1..n)
    BY <2>1, <2>2
  <2>4. g[s] = step[<<g[s \ {Max(s)}], Max(s)>>]
    BY <1>3 DEF FoldOf
  <2>5. step[<<g[s \ {Max(s)}], Max(s)>>] = Traverse(g[s \ {Max(s)}], am[Max(s)])
    BY <2>3
  <2> HIDE DEF step, n
  <2> QED
    BY <2>4, <2>5
<1> DEFINE f == CHOOSE f : f = Body(f)
<1>5. f = Body(f)
  <2> HIDE DEF Body
  <2> QED
    BY <1>4
<1>6. f[{}] = <<>>
  <2>1. {} \in SUBSET (1..n)
    OBVIOUS
  <2>2. Body(f)[{}] = <<>>
    BY <2>1
  <2> HIDE DEF f, Body
  <2> QED
    BY <1>5, <2>2
<1>7. ASSUME NEW k \in 1..n PROVE f[1..k] = Traverse(f[1..(k - 1)], am[k])
  <2>1. k - 1 \in Nat /\ (k - 1) + 1 = k /\ k \in 1..k
    BY <1>1
  <2>2. Max(1..k) = k
    BY <2>1, MaxOfInterval
  <2>3. (1..k) \ {k} = 1..(k - 1) /\ 1..k \in SUBSET (1..n) /\ 1..k # {}
    <3>1. \A i : i \in (1..k) \ {k} <=> i \in 1..(k - 1)
      BY <2>1
    <3>2. \A i \in 1..k : i \in 1..n
      BY <1>1
    <3> QED
      BY <2>1, <3>1, <3>2
  <2> HIDE DEF f
  <2>4. Body(f)[1..k] = Traverse(f[1..(k - 1)], am[k])
    BY <2>2, <2>3
  <2> HIDE DEF Body
  <2> QED
    BY <1>5, <2>4
<1>8. FoldLeft(Traverse, <<>>, am) = f[1..n]
  <2>1. FoldLeft(Traverse, <<>>, am) = f[DOMAIN am]
    BY <1>1 DEF FoldLeft, MapThenFoldSet
  <2> HIDE DEF f
  <2> QED
    BY <1>1, <2>1
<1> DEFINE p == [k \in 0..n |-> f[1..k]]
<1>9. p[0] = <<>> /\ p[n] = f[1..n] /\ \A k \in 1..n : p[k] = f[1..k] /\ p[k - 1] = f[1..(k - 1)]
  <2> HIDE DEF f, n
  <2>1. 1..0 = {} /\ 0 \in 0..n /\ n \in 0..n /\ \A k \in 1..n : k \in 0..n /\ k - 1 \in 0..n
    BY <1>1
  <2> QED
    BY <1>6, <2>1
<1> HIDE DEF f, p
<1> QED
  BY <1>7, <1>8, <1>9 DEF TraverseRun

(* The traversal returns the target of the first group that has one. *)
LEMMA TraverseFacts ==
  ASSUME TargetInv, NEW gs \in Seq(GroupType)
  PROVE  \/ /\ FoldLeft(Traverse, <<>>, gs) = <<>>
            /\ \A k \in 1..Len(gs) : JobScaleTarget(ScaleTargetKey(gs[k])) = <<>>
         \/ \E k \in 1..Len(gs) : /\ FoldLeft(Traverse, <<>>, gs) = JobScaleTarget(ScaleTargetKey(gs[k]))
                                  /\ JobScaleTarget(ScaleTargetKey(gs[k])) # <<>>
                                  /\ \A j \in 1..k - 1 : JobScaleTarget(ScaleTargetKey(gs[j])) = <<>>
<1> DEFINE n == Len(gs)
           T(k) == JobScaleTarget(ScaleTargetKey(gs[k]))
           First(t, m) == \/ t = <<>> /\ \A k \in 1..m : T(k) = <<>>
                          \/ \E k \in 1..m : t = T(k) /\ T(k) # <<>> /\ \A j \in 1..k - 1 : T(j) = <<>>
           D == {<<>>} \cup {JobScaleTarget(key) : key \in {ScaleTargetKey(g) : g \in GroupType}}
<1>0. n \in Nat /\ <<>> \in D
  BY LenProperties
<1>1. \A t \in D, g \in GroupType : Traverse(t, g) \in D
  BY DEF Traverse
<1>2. PICK p : TraverseRun(p, gs)
  <2> HIDE DEF D
  <2> QED
    BY <1>0, <1>1, TraverseLoop
<1>3. \A k \in 1..n : p[k] = IF p[k - 1] # <<>> THEN p[k - 1] ELSE T(k)
  BY <1>2 DEF TraverseRun, Traverse
<1> DEFINE S == {m \in Nat : m <= n => First(p[m], m)}
<1> HIDE DEF n, T
<1>4. 0 \in S
  <2>1. p[0] = <<>> /\ 1..0 = {}
    BY <1>2 DEF TraverseRun
  <2> QED
    BY <2>1
<1>5. \A m \in S : m + 1 \in S
  <2> SUFFICES ASSUME NEW m \in S, m + 1 <= n PROVE First(p[m + 1], m + 1)
    OBVIOUS
  <2>1. /\ m \in Nat /\ m <= n /\ m + 1 \in 1..n /\ (m + 1) - 1 = m
        /\ \A i \in 1..m + 1 : i \in 1..m \/ i = m + 1
        /\ \A i \in 1..m : i \in 1..m + 1
        /\ m + 1 \in 1..m + 1
    BY <1>0
  <2>2. First(p[m], m)
    BY <2>1
  <2>3. p[m + 1] = IF p[m] # <<>> THEN p[m] ELSE T(m + 1)
    BY <1>3, <2>1
  <2>4. CASE p[m] # <<>>
    BY <2>1, <2>2, <2>3, <2>4
  <2>5. CASE p[m] = <<>>
    <3>1. \A k \in 1..m : T(k) = <<>>
      BY <2>2, <2>5
    <3>2. p[m + 1] = T(m + 1)
      BY <2>3, <2>5
    <3>3. CASE T(m + 1) = <<>>
      <4>1. \A k \in 1..m + 1 : T(k) = <<>>
        BY <2>1, <3>1, <3>3
      <4> QED
        BY <3>2, <3>3, <4>1
    <3>4. CASE T(m + 1) # <<>>
      <4>1. \A j \in 1..(m + 1) - 1 : T(j) = <<>>
        BY <2>1, <3>1
      <4> QED
        BY <2>1, <3>2, <3>4, <4>1
    <3> QED
      BY <3>3, <3>4
  <2> QED
    BY <2>4, <2>5
<1>6. S = Nat
  <2> HIDE DEF S
  <2> S \in SUBSET Nat
    BY DEF S
  <2> QED
    BY <1>4, <1>5, SetInduction
<1>7. n \in S
  <2> HIDE DEF S
  <2> QED
    BY <1>0, <1>6
<1>8. FoldLeft(Traverse, <<>>, gs) = p[n] /\ n <= n
  BY <1>0, <1>2 DEF TraverseRun, n
<1>9. First(p[n], n)
  BY <1>7, <1>8
<1> QED
  BY <1>8, <1>9 DEF n, T

(* An HRA of an organization or an enterprise that serves the event is found through its group. *)
LEMMA ServedIsVisible ==
  ASSUME TargetInv, NEW i \in 1..Len(catalog), NEW q \in 2..5, Serves(catalog[i], q)
  PROVE  /\ ~event.user
         /\ GroupOf(catalog[i]) \in ToSet(VisibleGroups)
         /\ Rank(GroupOf(catalog[i])) = q - 2
         /\ ScaleTargetKey(GroupOf(catalog[i])) \in Keys(catalog[i]) /\ Takes(catalog[i])
<1> DEFINE h == catalog[i]
<1>0. h \in ShapeType
  BY ElementOfSeq DEF TargetInv
<1> HIDE DEF h
<1>1. /\ h.exists /\ Takes(h) /\ h.owner = "own" /\ ~event.user
      /\ h.level = (IF q \in {2, 4} THEN "org" ELSE "ent")
      /\ h.group = (IF q \in {2, 3} THEN "default" ELSE "g")
      /\ h.level = "ent" => event.inEnterprise
      /\ event.client = "answers" => [scope |-> h.level, name |-> h.group] \in ToSet(event.groups)
  BY DEF Serves, h
<1>2. h.level \in Scopes /\ h.level # "repo" /\ Relevant(h)
  BY <1>1 DEF Scopes, Relevant
<1>3. GroupOf(h) = [scope |-> h.level, name |-> h.group]
  BY <1>1, <1>2 DEF GroupOf, Scopes
<1>4. GroupOf(h) \in ToSet(Managed)
  BY <1>2, ManagedFacts DEF h
<1>5. GroupOf(h) \in ToSet(VisibleGroups)
  BY <1>1, <1>3, <1>4, VisibleFacts
<1>6. Rank(GroupOf(h)) = q - 2
  <2>1. q = 2 \/ q = 3 \/ q = 4 \/ q = 5
    OBVIOUS
  <2> QED
    BY <1>1, <1>3, <2>1 DEF Rank, Kind, ScopeRank
<1>7. ScaleTargetKey(GroupOf(h)) = Key(h.level, h.owner, h.group)
  BY <1>1, <1>3 DEF ScaleTargetKey
<1>8. Key(h.level, h.owner, h.group) \in Keys(h)
  BY <1>1, <1>2 DEF Keys
<1> QED
  BY <1>1, <1>5, <1>6, <1>7, <1>8 DEF h

(* An HRA that is found through a visible group serves the event, with the precedence of the group. *)
LEMMA FoundServes ==
  ASSUME TargetInv, ~event.user, NEW g \in ToSet(VisibleGroups), NEW i \in 1..Len(catalog),
         catalog[i].kind = "RunnerSet" => catalog[i].group = "default",
         ScaleTargetKey(g) \in Keys(catalog[i]), Takes(catalog[i])
  PROVE  Rank(g) + 2 \in 2..5 /\ Serves(catalog[i], Rank(g) + 2)
<1> DEFINE h == catalog[i]
<1>0. h \in ShapeType
  BY ElementOfSeq DEF TargetInv
<1>1. g \in GroupType
  BY VisibleFacts, ElementOfSeq, LenProperties DEF ToSet
<1>2. g.scope \in Scopes /\ g.name \in {"default", "g"} /\ g = [scope |-> g.scope, name |-> g.name]
  BY <1>1 DEF GroupType
<1> HIDE DEF h
<1>3. h.level \in {"repo", "org", "ent"}
  BY <1>0 DEF ShapeType
<1>4. h.exists /\ Takes(h) /\ (h.kind = "RunnerSet" => h.group = "default") /\ ScaleTargetKey(g) \in Keys(h)
  BY DEF h, Keys
<1>5. Keys(h) \subseteq {Key("repo", h.owner, "default"), Key(h.level, h.owner, h.group)}
  BY <1>4 DEF Keys
<1>6. ScaleTargetKey(g) # NoKey /\ ~(g.scope = "ent" /\ ~event.inEnterprise) /\ ScaleTargetKey(g) = Key(g.scope, "own", g.name)
  <2>1. NoKey \notin Keys(h)
    <3>1. NoKey.level = "none" /\ Key("repo", h.owner, "default").level = "repo" /\ Key(h.level, h.owner, h.group).level = h.level
      BY DEF NoKey, Key
    <3> QED
      BY <1>3, <1>5, <3>1
  <2> QED
    BY <1>4, <2>1 DEF ScaleTargetKey
<1>7. h.level = g.scope /\ h.owner = "own" /\ h.group = g.name
  <2>1. Key(g.scope, "own", g.name) # Key("repo", h.owner, "default")
    BY <1>2 DEF Key, Scopes
  <2>2. Key(g.scope, "own", g.name) = Key(h.level, h.owner, h.group)
    BY <1>4, <1>5, <1>6, <2>1
  <2> QED
    BY <2>2 DEF Key
<1>8. event.client = "answers" => [scope |-> h.level, name |-> h.group] \in ToSet(event.groups)
  BY <1>2, <1>7, VisibleFacts
<1>9. /\ Rank(g) \in 0..3
      /\ Rank(g) + 2 \in {2, 4} <=> g.scope = "org"
      /\ Rank(g) + 2 \in {2, 3} <=> g.name = "default"
  BY <1>2 DEF Rank, Kind, ScopeRank, Scopes
<1>10. /\ Rank(g) + 2 \in 2..5 /\ Rank(g) + 2 # 1
       /\ g.scope = (IF Rank(g) + 2 \in {2, 4} THEN "org" ELSE "ent")
       /\ g.name = (IF Rank(g) + 2 \in {2, 3} THEN "default" ELSE "g")
  BY <1>2, <1>9 DEF Scopes
<1>11. Serves(h, Rank(g) + 2)
  BY <1>4, <1>6, <1>7, <1>8, <1>10 DEF Serves
<1> QED
  BY <1>10, <1>11 DEF h

(* So the first target that is found is the best one. *)
LEMMA FoundIsBest == TargetInv => FindsBest
<1> DEFINE Served(q) == \E i \in DOMAIN catalog : Serves(catalog[i], q)
           best == {q \in 1..5 : Served(q) /\ \A r \in 1..q - 1 : ~Served(r)}
           Goal == IF best = {} THEN ScaleUpTarget = <<>>
                    ELSE Len(ScaleUpTarget) = 1 /\ \A q \in best : Serves(ScaleUpTarget[1], q)
           repo == RepoKey
<1> SUFFICES ASSUME TargetInv, ~Fails,
                    JobScaleTarget(repo) = <<>> /\ ~event.user => ~TraverseFails,
                    \A i \in DOMAIN catalog : catalog[i].kind = "RunnerSet" => catalog[i].group = "default"
             PROVE  Goal
  BY DEF FindsBest, Excepted
<1>0. DOMAIN catalog = 1..Len(catalog) /\ \A i \in 1..Len(catalog) : catalog[i] \in ShapeType
  BY LenProperties, ElementOfSeq DEF TargetInv
<1>1. ASSUME NEW b \in 1..5, NEW i \in 1..Len(catalog), ScaleUpTarget = <<catalog[i]>>,
             Serves(catalog[i], b), \A r \in 1..b - 1 : ~Served(r)
      PROVE  Goal
  <2>1. Served(b)
    BY <1>0, <1>1
  <2> HIDE DEF Served
  <2>2. b \in best
    BY <1>1, <2>1
  <2>3. ASSUME NEW q \in best PROVE q = b
    <3>1. q \in 1..5 /\ Served(q) /\ \A r \in 1..q - 1 : ~Served(r)
      OBVIOUS
    <3>2. q < b => q \in 1..b - 1
      BY <3>1
    <3>3. b < q => b \in 1..q - 1
      BY <3>1
    <3> QED
      BY <1>1, <2>1, <3>1, <3>2, <3>3
  <2> HIDE DEF best
  <2> QED
    BY <1>1, <2>2, <2>3
<1>2. ASSUME \A q \in 1..5 : ~Served(q), ScaleUpTarget = <<>> PROVE Goal
  <2> HIDE DEF Served
  <2>1. best = {}
    BY <1>2
  <2> QED
    BY <1>2, <2>1
<1>3. \A h \in ShapeType : repo \in Keys(h) /\ Takes(h) <=> Serves(h, 1)
  <2> TAKE h \in ShapeType
  <2>1. \A o, g : Key("repo", o, g) = repo <=> o = "own" /\ g = "default"
    BY DEF Key, RepoKey
  <2>2. h.level # "repo" => \A o, g : Key(h.level, o, g) # repo
    BY DEF Key, RepoKey
  <2>3. Serves(h, 1) <=> h.exists /\ Takes(h) /\ h.owner = "own" /\ h.level = "repo"
    BY DEF Serves
  <2>4. repo \in Keys(h) <=> h.exists /\ h.level = "repo" /\ h.owner = "own"
    <3>1. CASE h.exists /\ h.level = "repo"
      <4>1. Keys(h) = {Key("repo", h.owner, "default")}
        BY <3>1 DEF Keys
      <4> QED
        BY <2>1, <3>1, <4>1
    <3>2. CASE h.exists /\ h.level # "repo"
      <4>1. \A k \in Keys(h) : \E o, g : k = Key(h.level, o, g)
        BY <3>2 DEF Keys
      <4> QED
        BY <2>2, <3>2, <4>1
    <3>3. CASE ~h.exists
      BY <3>3 DEF Keys
    <3> QED
      BY <3>1, <3>2, <3>3
  <2> QED
    BY <2>3, <2>4
<1> HIDE DEF Goal
<1>4. CASE JobScaleTarget(repo) # <<>>
  <2>1. PICK i \in 1..Len(catalog) : JobScaleTarget(repo) = <<catalog[i]>> /\ repo \in Keys(catalog[i]) /\ Takes(catalog[i])
    BY <1>4, JobTargetFacts
  <2>2. ScaleUpTarget = <<catalog[i]>>
    BY <1>4, <2>1 DEF ScaleUpTarget
  <2>3. Serves(catalog[i], 1) /\ 1 \in 1..5 /\ 1..(1 - 1) = {}
    BY <1>0, <1>3, <2>1
  <2> HIDE DEF Served
  <2> QED
    BY <1>1, <2>2, <2>3
<1>5. CASE JobScaleTarget(repo) = <<>>
  <2>1. ~Served(1)
    <3>1. \A i \in 1..Len(catalog) : ~(repo \in Keys(catalog[i]) /\ Takes(catalog[i]))
      BY <1>5, JobTargetFacts
    <3> QED
      BY <1>0, <1>3, <3>1
  <2>2. \A q \in 1..5 : q = 1 \/ q \in 2..5
    OBVIOUS
  <2>3. CASE event.user
    <3>1. \A q \in 2..5 : ~Served(q)
      BY <1>0, <2>3, ServedIsVisible
    <3>2. ScaleUpTarget = <<>>
      BY <1>5, <2>3 DEF ScaleUpTarget
    <3> HIDE DEF Served
    <3> QED
      BY <1>2, <2>1, <2>2, <3>1, <3>2
  <2>4. CASE ~event.user
    <3> DEFINE gs == VisibleGroups
               T(k) == JobScaleTarget(ScaleTargetKey(gs[k]))
    <3>0. gs \in Seq(GroupType) /\ Ordered(gs) /\ Len(gs) \in Nat /\ ToSet(gs) = {gs[k] : k \in 1..Len(gs)}
      BY VisibleFacts, LenProperties DEF ToSet
    <3>1. ScaleUpTarget = FoldLeft(Traverse, <<>>, gs)
      BY <1>5, <2>4 DEF ScaleUpTarget
    <3>2. ASSUME NEW q \in 2..5, Served(q) PROVE \E k \in 1..Len(gs) : Rank(gs[k]) = q - 2 /\ T(k) # <<>>
      <4>1. PICK i \in 1..Len(catalog) : Serves(catalog[i], q)
        BY <1>0, <3>2
      <4>2. PICK k \in 1..Len(gs) : GroupOf(catalog[i]) = gs[k]
        BY <3>0, <4>1, ServedIsVisible
      <4>3. ScaleTargetKey(gs[k]) \in Keys(catalog[i]) /\ Takes(catalog[i]) /\ Rank(gs[k]) = q - 2
        BY <4>1, <4>2, ServedIsVisible
      <4>4. ASSUME T(k) = <<>> PROVE FALSE
        <5>1. \A j \in 1..Len(catalog) : ~(ScaleTargetKey(gs[k]) \in Keys(catalog[j]) /\ Takes(catalog[j]))
          <6> DEFINE key == ScaleTargetKey(gs[k])
          <6>1. JobScaleTarget(key) = <<>>
            BY <4>4
          <6>2. \A j : JobScaleTarget(key) # <<catalog[j]>>
            BY <6>1
          <6> HIDE DEF key
          <6>3. \A j \in 1..Len(catalog) : ~(key \in Keys(catalog[j]) /\ Takes(catalog[j]))
            BY <6>2, JobTargetFacts
          <6> QED
            BY <6>3 DEF key
        <5> QED
          BY <4>3, <5>1
      <4> QED
        BY <4>3, <4>4
    <3> HIDE DEF Served
    <3>3. CASE ScaleUpTarget = <<>> /\ \A k \in 1..Len(gs) : T(k) = <<>>
      BY <1>2, <2>1, <2>2, <3>2, <3>3
    <3>4. ASSUME NEW k \in 1..Len(gs), ScaleUpTarget = T(k), T(k) # <<>>, \A j \in 1..k - 1 : T(j) = <<>>
          PROVE  Goal
      <4>1. PICK i \in 1..Len(catalog) : T(k) = <<catalog[i]>> /\ ScaleTargetKey(gs[k]) \in Keys(catalog[i]) /\ Takes(catalog[i])
        BY <3>4, JobTargetFacts
      <4>2. gs[k] \in ToSet(gs)
        BY <3>0
      <4>3. Rank(gs[k]) + 2 \in 2..5 /\ Serves(catalog[i], Rank(gs[k]) + 2)
        BY <1>0, <2>4, <4>1, <4>2, FoundServes
      <4>4. ASSUME NEW r \in 1..(Rank(gs[k]) + 2) - 1, Served(r) PROVE FALSE
        <5>0. r # 1
          BY <2>1, <4>4
        <5>1. r \in 2..5 /\ Rank(gs[k]) \in Nat /\ r - 2 < Rank(gs[k])
          <6>1. Rank(gs[k]) \in 0..3
            BY <3>0, RankFacts, ElementOfSeq
          <6> QED
            BY <5>0, <6>1
        <5>2. PICK j \in 1..Len(gs) : Rank(gs[j]) = r - 2 /\ T(j) # <<>>
          BY <3>2, <4>4, <5>1
        <5>3. ~(j \in 1..k - 1)
          BY <3>4, <5>2
        <5>4. k = j \/ k < j
          BY <3>0, <5>3
        <5>5. Rank(gs[k]) <= Rank(gs[j])
          <6>1. CASE k = j
            <7>1. \A n \in Nat : n <= n
              OBVIOUS
            <7> QED
              BY <5>1, <6>1, <7>1, Zenon
          <6>2. CASE k < j
            <7>1. \A m, n \in 1..Len(gs) : m < n => Rank(gs[m]) <= Rank(gs[n])
              BY <3>0 DEF Ordered
            <7> QED
              BY <6>2, <7>1, Zenon
          <6> QED
            BY <5>4, <6>1, <6>2
        <5> QED
          BY <5>1, <5>2, <5>5
      <4>5. Rank(gs[k]) + 2 \in 1..5
        BY <4>3
      <4> QED
        BY <1>1, <3>4, <4>1, <4>3, <4>4, <4>5
    <3>5. \/ ScaleUpTarget = <<>> /\ \A k \in 1..Len(gs) : T(k) = <<>>
          \/ \E k \in 1..Len(gs) : ScaleUpTarget = T(k) /\ T(k) # <<>> /\ \A j \in 1..k - 1 : T(j) = <<>>
      BY <3>0, <3>1, TraverseFacts
    <3> QED
      BY <3>3, <3>4, <3>5
  <2> QED
    BY <2>3, <2>4
<1> QED
  BY <1>4, <1>5

(* Theorem: the target of a workflow_job event is an HRA whose runners can run the job, the one of   *)
(* the highest precedence, for any list of HRAs in any order and all events (getJobScaleTarget,     *)
(* getScaleUpTargetWithFunction, VisibleRunnerGroups).                                              *)
THEOREM ScaleTargetFindsBest == TargetInit /\ [][TargetNext]_<<catalog, event>> => []FindsBest
<1>1. TargetInit => TargetInv
  BY ScaleTargetAssumption DEF TargetInit, TargetInv
<1>2. TargetInv /\ [TargetNext]_<<catalog, event>> => TargetInv'
  <2> SUFFICES ASSUME TargetInv, TargetNext PROVE TargetInv'
    BY DEF TargetInv
  <2>1. PICK h \in Shapes : CreateHRA(h)
    BY DEF TargetNext
  <2>2. h \in ShapeType /\ catalog \in Seq(ShapeType) /\ event' = event
    BY <2>1, ScaleTargetAssumption DEF CreateHRA, TargetInv
  <2>3. PICK i \in 1..Len(catalog) + 1 : catalog' = InsertAt(catalog, i, h)
    BY <2>1 DEF CreateHRA
  <2>4. catalog' \in Seq(ShapeType)
    BY <2>2, <2>3, InsertFacts
  <2> QED
    BY <2>2, <2>4 DEF TargetInv
<1> QED
  BY <1>1, <1>2, FoundIsBest, PTL
=============================================================================
