---------------------------- MODULE RoutePlanProofs ----------------------------
(* Proofs about RoutePlan.  First the lists of stops the handlers build, then  *)
(* the plans they commit, then the invariants of the specification.            *)
EXTENDS RoutePlan, SequenceTheorems, TLAPS

--------------------------------------------------------------------------------
(* Lists of stops.                                                             *)

\* RemoveAt drops one element and moves the later ones up.
LEMMA RemoveAtProperties ==
  ASSUME NEW S, NEW s \in Seq(S), NEW i \in 1..Len(s)
  PROVE  /\ RemoveAt(s, i) \in Seq(S)
         /\ Len(RemoveAt(s, i)) = Len(s) - 1
         /\ \A k \in 1..Len(s) - 1 :
              RemoveAt(s, i)[k] = IF k < i THEN s[k] ELSE s[k + 1]
<1> DEFINE u == SubSeq(s, 1, i - 1)
           v == SubSeq(s, i + 1, Len(s))
<1>1. Len(s) \in Nat /\ \A k \in 1..Len(s) : s[k] \in S
  BY ElementOfSeq
<1>2. /\ u \in Seq(S)
      /\ Len(u) = i - 1
      /\ \A k \in 1..i - 1 : u[k] = s[k]
  BY <1>1, SubSeqProperties
<1>3. /\ v \in Seq(S)
      /\ Len(v) = Len(s) - i
      /\ \A k \in 1..Len(s) - i : v[k] = s[k + i]
  <2>1. \A k \in i + 1..Len(s) : s[k] \in S
    BY <1>1
  <2>2. /\ v \in Seq(S)
        /\ Len(v) = IF i + 1 <= Len(s) THEN Len(s) - (i + 1) + 1 ELSE 0
        /\ \A k \in 1..Len(s) - (i + 1) + 1 : v[k] = s[i + 1 + k - 1]
    BY <1>1, <2>1, SubSeqProperties
  <2> QED BY <1>1, <2>2
<1> HIDE DEF u, v
<1>4. /\ u \o v \in Seq(S)
      /\ Len(u \o v) = Len(u) + Len(v)
      /\ \A k \in 1..Len(u) + Len(v) : (u \o v)[k] = IF k <= Len(u) THEN u[k] ELSE v[k - Len(u)]
  BY <1>2, <1>3, ConcatProperties
<1>5. RemoveAt(s, i) = u \o v
  BY DEF RemoveAt, u, v
<1>6. Len(u \o v) = Len(s) - 1
  BY <1>1, <1>2, <1>3, <1>4
<1>7. ASSUME NEW k \in 1..Len(s) - 1
      PROVE  (u \o v)[k] = IF k < i THEN s[k] ELSE s[k + 1]
  <2>1. CASE k < i
    BY <1>1, <1>2, <1>3, <1>4, <2>1
  <2>2. CASE ~(k < i)
    <3>1. k - Len(u) \in 1..Len(s) - i /\ ~(k <= Len(u)) /\ k \in 1..Len(u) + Len(v)
      BY <1>1, <1>2, <1>3, <2>2
    <3>2. (u \o v)[k] = v[k - Len(u)]
      BY <1>4, <3>1
    <3>3. v[k - Len(u)] = s[k - Len(u) + i]
      BY <1>3, <3>1
    <3> QED BY <1>1, <1>2, <2>2, <3>2, <3>3
  <2> QED BY <2>1, <2>2
<1> QED BY <1>4, <1>5, <1>6, <1>7

\* A function on 1..n is a sequence of length n.
LEMMA FunctionIsSeq ==
  ASSUME NEW S, NEW n \in Nat, NEW f \in [1..n -> S]
  PROVE  f \in Seq(S) /\ Len(f) = n /\ DOMAIN f = 1..n
OBVIOUS

--------------------------------------------------------------------------------
(* The plans the handlers commit.                                              *)

\* A plan the owner may hold when n UUIDs have been drawn.
Legal(p, n) == /\ p \in Plan
               /\ ValidPlan(p)
               /\ \A k \in DOMAIN p.stops : p.stops[k].id <= n

\* Facts of a plan's type that the later proofs use together.
LEMMA PlanFacts ==
  ASSUME NEW p \in Plan
  PROVE  /\ p.id \in Nat /\ p.revision \in Nat /\ p.step \in Nat /\ p.keep \in BOOLEAN
         /\ p.stops \in Seq(Stop)
         /\ Len(p.stops) \in Nat
         /\ DOMAIN p.stops = 1..Len(p.stops)
         /\ \A k \in 1..Len(p.stops) : /\ p.stops[k].id \in Nat
                                       /\ p.stops[k].reached \in BOOLEAN
         /\ p.stops = <<>> <=> Len(p.stops) = 0
<1>1. /\ p.id \in Nat /\ p.revision \in Nat /\ p.step \in Nat /\ p.keep \in BOOLEAN
      /\ p.stops \in Seq(Stop)
  BY DEF Plan
<1>2. Len(p.stops) \in Nat /\ DOMAIN p.stops = 1..Len(p.stops)
  BY <1>1, LenProperties
<1>3. \A k \in 1..Len(p.stops) : p.stops[k] \in Stop
  BY <1>1, ElementOfSeq
<1>4. p.stops = <<>> <=> Len(p.stops) = 0
  BY <1>1, EmptySeq
<1> QED BY <1>1, <1>2, <1>3, <1>4 DEF Stop, Ids

\* The empty plan is legal.
LEMMA EmptyPlanLegal == \A n \in Nat : Legal(EmptyPlan, n)
<1>1. EmptyPlan \in Plan
  BY EmptySeq DEF EmptyPlan, Plan, NoId
<1>2. ValidPlan(EmptyPlan)
  BY MaxStopsAssumption DEF ValidPlan, EmptyPlan, NoId
<1> QED BY <1>1, <1>2 DEF Legal, EmptyPlan

\* A list of stops with a target in it makes a legal plan.
LEMMA LegalIntro ==
  ASSUME NEW n \in Nat, NEW p \in Plan, NEW len \in Nat,
         len = Len(p.stops), p.step < len, len <= MaxStops, p.id # NoId,
         p.keep => ~p.stops[p.step + 1].reached,
         \A i, j \in 1..len : p.stops[i].id = p.stops[j].id => i = j,
         \A k \in 1..len : p.stops[k].id <= n
  PROVE  Legal(p, n)
<1>1. DOMAIN p.stops = 1..len /\ p.stops # <<>> /\ p.step \in Nat
  BY PlanFacts
<1> QED BY <1>1 DEF Legal, ValidPlan, Target

\* Committing a legal plan under another revision keeps it legal, and a legal
\* plan stays legal when more UUIDs are drawn.
LEMMA LegalStays ==
  ASSUME NEW n \in Nat, NEW m \in Nat, n <= m, NEW p, Legal(p, n), NEW r \in Nat
  PROVE  Legal([p EXCEPT !.revision = r], m) /\ Legal(p, m)
<1> DEFINE q == [p EXCEPT !.revision = r]
<1>1. /\ q \in Plan
      /\ q.stops = p.stops /\ q.step = p.step /\ q.id = p.id /\ q.keep = p.keep
  BY DEF Legal, Plan
<1>2. ValidPlan(q)
  BY <1>1 DEF Legal, ValidPlan, Target
<1>3. \A k \in DOMAIN p.stops : p.stops[k].id <= m
  BY PlanFacts DEF Legal
<1> QED BY <1>1, <1>2, <1>3 DEF Legal

\* What a legal plan says of its stops.
LEMMA LegalFacts ==
  ASSUME NEW n \in Nat, NEW p, Legal(p, n)
  PROVE  /\ p \in Plan
         /\ Len(p.stops) <= MaxStops
         /\ p.stops # <<>> => p.step < Len(p.stops) /\ p.id \in Ids
         /\ p.keep => p.stops # <<>> /\ ~p.stops[p.step + 1].reached
         /\ \A i, j \in 1..Len(p.stops) : p.stops[i].id = p.stops[j].id => i = j
         /\ \A k \in 1..Len(p.stops) : p.stops[k].id <= n
<1>1. p \in Plan /\ DOMAIN p.stops = 1..Len(p.stops) /\ p.id \in Nat
  BY PlanFacts DEF Legal
<1> QED BY <1>1 DEF Legal, ValidPlan, Target, Ids

\* plan.replace
LEMMA ReplaceLegal ==
  ASSUME issued \in Nat, NEW n \in 1..MaxStops, NEW step \in 0..n - 1
  PROVE  Legal([id |-> issued + n + 1, revision |-> 0,
                stops |-> [i \in 1..n |-> NewStop(i, i <= step)],
                step |-> step, keep |-> FALSE], issued + n + 1)
<1> DEFINE stops == [i \in 1..n |-> NewStop(i, i <= step)]
           p == [id |-> issued + n + 1, revision |-> 0, stops |-> stops,
                 step |-> step, keep |-> FALSE]
<1>1. n \in Nat /\ step \in Nat /\ n <= MaxStops /\ step < n
  BY MaxStopsAssumption
<1>2. stops \in [1..n -> Stop]
  BY <1>1 DEF NewStop, Stop, Ids, NoId
<1>3. /\ stops \in Seq(Stop)
      /\ Len(stops) = n
      /\ \A k \in 1..n : stops[k].id = issued + k
  BY <1>1, <1>2, FunctionIsSeq DEF NewStop
<1> HIDE DEF stops
<1>4. p \in Plan /\ p.id # NoId
  BY <1>1, <1>3 DEF Plan, NoId
<1>5. /\ \A i, j \in 1..n : stops[i].id = stops[j].id => i = j
      /\ \A k \in 1..n : stops[k].id <= issued + n + 1
  BY <1>1, <1>3
<1>6. p.stops = stops /\ p.step = step /\ ~p.keep
  OBVIOUS
<1>7. issued + n + 1 \in Nat
  BY <1>1
<1> HIDE DEF p
<1>8. Legal(p, issued + n + 1)
  BY <1>1, <1>3, <1>4, <1>5, <1>6, <1>7, LegalIntro
<1> QED BY <1>8 DEF p, stops

\* plan.append: the new stop comes last, under a UUID no stop has.
LEMMA AppendLegal ==
  ASSUME issued \in Nat, Legal(plan, issued), Len(plan.stops) < MaxStops
  PROVE  Legal([plan EXCEPT !.stops = Append(@, NewStop(1, FALSE)),
                            !.id = IF @ = NoId THEN issued + 2 ELSE @],
               issued + IF plan.id = NoId THEN 2 ELSE 1)
<1> DEFINE old == plan.stops
           len == Len(old)
           new == NewStop(1, FALSE)
           stops == Append(old, new)
           p == [plan EXCEPT !.stops = Append(@, NewStop(1, FALSE)),
                             !.id = IF @ = NoId THEN issued + 2 ELSE @]
           m == issued + IF plan.id = NoId THEN 2 ELSE 1
<1>1. /\ plan \in Plan /\ old \in Seq(Stop) /\ len \in Nat
      /\ plan.step \in Nat /\ plan.id \in Nat
      /\ \A k \in 1..len : old[k].id \in Nat /\ old[k].id <= issued
      /\ \A i, j \in 1..len : old[i].id = old[j].id => i = j
  BY LegalFacts, PlanFacts
<1>2. new \in Stop /\ new.id = issued + 1 /\ ~new.reached
  BY DEF NewStop, Stop, Ids, NoId
<1>3. p.stops = stops /\ p.step = plan.step /\ p.keep = plan.keep
      /\ p.id = IF plan.id = NoId THEN issued + 2 ELSE plan.id
  BY <1>1 DEF Plan
<1>4. p \in Plan /\ p.id # NoId
  <2>1. (IF plan.id = NoId THEN issued + 2 ELSE plan.id) \in Nat \ {NoId}
    BY <1>1 DEF NoId
  <2> HIDE DEF new, old
  <2>2. stops \in Seq(Stop)
    BY <1>1, <1>2
  <2> QED BY <1>1, <1>3, <2>1, <2>2 DEF Plan, new, old
<1>5. plan.step < len + 1 /\ (plan.keep => plan.step < len /\ ~old[plan.step + 1].reached)
  <2>1. CASE len = 0
    BY <1>1, <2>1, PlanFacts DEF Legal, ValidPlan
  <2>2. CASE len # 0
    BY <1>1, <2>2, PlanFacts, LegalFacts
  <2> QED BY <2>1, <2>2
<1> HIDE DEF p, new, old
<1>6. /\ Len(stops) = len + 1
      /\ \A k \in 1..len : stops[k] = old[k]
      /\ stops[len + 1] = new
  BY <1>1, <1>2
<1> HIDE DEF stops
<1>7. \A i, j \in 1..len + 1 : stops[i].id = stops[j].id => i = j
  <2> SUFFICES ASSUME NEW i \in 1..len + 1, NEW j \in 1..len + 1, stops[i].id = stops[j].id
               PROVE  i = j
    OBVIOUS
  <2>1. \A k \in 1..len : stops[k].id = old[k].id /\ stops[k].id # issued + 1
    BY <1>1, <1>6
  <2>2. stops[len + 1].id = issued + 1
    BY <1>2, <1>6
  <2>3. CASE i \in 1..len /\ j \in 1..len
    BY <1>1, <2>1, <2>3
  <2>4. CASE i = len + 1 \/ j = len + 1
    BY <1>1, <2>1, <2>2, <2>4
  <2> QED BY <1>1, <2>3, <2>4
<1>8. m \in Nat /\ issued + 1 <= m /\ len + 1 \in Nat /\ len + 1 <= MaxStops
  BY <1>1, MaxStopsAssumption DEF old
<1>9. \A k \in 1..len + 1 : stops[k].id <= m
  <2>1. \A k \in 1..len + 1 : k \in 1..len \/ k = len + 1
    BY <1>1
  <2> HIDE DEF m
  <2> QED BY <1>1, <1>2, <1>6, <1>8, <2>1
<1>10. ASSUME p.keep
       PROVE  ~p.stops[p.step + 1].reached
  <2>1. plan.step + 1 \in 1..len /\ ~old[plan.step + 1].reached
    BY <1>1, <1>3, <1>5, <1>10
  <2>2. stops[plan.step + 1] = old[plan.step + 1]
    BY <1>6, <2>1
  <2> QED BY <1>3, <2>1, <2>2
<1> HIDE DEF m
<1>11. Legal(p, m)
  BY <1>1, <1>3, <1>4, <1>5, <1>6, <1>7, <1>8, <1>9, <1>10, LegalIntro
<1> QED BY <1>11 DEF p, m

\* A list of stops without one of them still tells its stops apart.
LEMMA RemoveKeepsIds ==
  ASSUME NEW n \in Nat, NEW s \in Seq(Stop), NEW i \in 1..Len(s),
         \A k, l \in 1..Len(s) : s[k].id = s[l].id => k = l,
         \A k \in 1..Len(s) : s[k].id <= n
  PROVE  LET t == RemoveAt(s, i)
         IN /\ t \in Seq(Stop) /\ Len(t) = Len(s) - 1
            /\ \A k, l \in 1..Len(t) : t[k].id = t[l].id => k = l
            /\ \A k \in 1..Len(t) : t[k].id <= n
            /\ \A k \in 1..Len(t) : \E l \in 1..Len(s) : t[k] = s[l]
<1> DEFINE t == RemoveAt(s, i)
           From(k) == IF k < i THEN k ELSE k + 1
<1>1. Len(s) \in Nat
  BY LenProperties
<1>2. /\ t \in Seq(Stop) /\ Len(t) = Len(s) - 1
      /\ \A k \in 1..Len(s) - 1 : t[k] = IF k < i THEN s[k] ELSE s[k + 1]
  BY RemoveAtProperties
<1> HIDE DEF t
<1>3. \A k \in 1..Len(t) : From(k) \in 1..Len(s) /\ t[k] = s[From(k)]
  BY <1>1, <1>2
<1>4. \A k, l \in 1..Len(t) : From(k) = From(l) => k = l
  BY <1>1, <1>2
<1> HIDE DEF From
<1>5. ASSUME NEW k \in 1..Len(t), NEW l \in 1..Len(t), t[k].id = t[l].id
      PROVE  k = l
  <2>1. s[From(k)].id = s[From(l)].id /\ From(k) \in 1..Len(s) /\ From(l) \in 1..Len(s)
    BY <1>3, <1>5
  <2>2. From(k) = From(l)
    BY <2>1
  <2> QED BY <1>4, <2>2
<1>6. ASSUME NEW k \in 1..Len(t)
      PROVE  t[k].id <= n /\ \E l \in 1..Len(s) : t[k] = s[l]
  BY <1>3
<1>7. /\ t \in Seq(Stop) /\ Len(t) = Len(s) - 1
      /\ \A k, l \in 1..Len(t) : t[k].id = t[l].id => k = l
      /\ \A k \in 1..Len(t) : t[k].id <= n
      /\ \A k \in 1..Len(t) : \E l \in 1..Len(s) : t[k] = s[l]
  BY <1>2, <1>5, <1>6
<1> QED BY ONLY <1>7, Zenon DEF t

\* The facts of a legal plan that has stops, in terms of its fields.
LEMMA LegalPlanWithStops ==
  ASSUME NEW n \in Nat, NEW p, Legal(p, n), NEW i \in Nat, i < Len(p.stops)
  PROVE  /\ p \in Plan /\ p.stops \in Seq(Stop) /\ Len(p.stops) \in Nat
         /\ p.step \in Nat /\ p.id \in Ids /\ p.keep \in BOOLEAN
         /\ p.step < Len(p.stops) /\ Len(p.stops) <= MaxStops
         /\ p.keep => ~p.stops[p.step + 1].reached
         /\ \A k \in 1..Len(p.stops) : p.stops[k].id <= n
         /\ \A k, l \in 1..Len(p.stops) : p.stops[k].id = p.stops[l].id => k = l
<1>1. p \in Plan
  BY DEF Legal
<1>2. p.stops # <<>>
  BY <1>1, PlanFacts
<1> QED BY <1>1, <1>2, PlanFacts, LegalFacts

\* plan.remove: the step stays within the plan, and the flag stays with its stop.
LEMMA RemoveLegal ==
  ASSUME issued \in Nat, Legal(plan, issued), NEW i \in Nat, HasStop(i)
  PROVE  Legal(WithoutStop(i), issued)
<1> DEFINE old == plan.stops
           len == Len(old)
           stops == RemoveAt(old, i + 1)
           step == StepAfterRemove(i, Len(stops))
           keep == plan.keep /\ (stops # <<>> /\ stops[step + 1].id = Target(plan).id)
                     /\ step # Len(stops) - 1
           id == IF stops = <<>> THEN NoId ELSE plan.id
           p == WithoutStop(i)
<1> SUFFICES Legal(p, issued)
  OBVIOUS
<1>1. /\ plan \in Plan /\ old \in Seq(Stop) /\ len \in Nat
      /\ plan.step \in Nat /\ plan.id \in Ids
      /\ plan.step < len /\ len <= MaxStops /\ i < len
      /\ plan.keep => ~old[plan.step + 1].reached
      /\ \A k \in 1..len : old[k].id <= issued
      /\ \A k, l \in 1..len : old[k].id = old[l].id => k = l
  BY LegalPlanWithStops DEF HasStop
<1>2. p = [plan EXCEPT !.id = id, !.stops = stops, !.step = step, !.keep = keep]
  BY DEF WithoutStop
<1>3. keep => plan.keep /\ stops[step + 1].id = old[plan.step + 1].id
  BY DEF Target
<1>4. keep \in BOOLEAN /\ (keep => stops # <<>>)
  OBVIOUS
<1>5. id \in Nat /\ (stops # <<>> => id # NoId)
  BY <1>1 DEF Ids, NoId
<1> HIDE DEF old, keep, id, p
<1>6. i + 1 \in 1..len
  BY <1>1
<1>7. /\ stops \in Seq(Stop) /\ Len(stops) = len - 1
      /\ \A k, l \in 1..Len(stops) : stops[k].id = stops[l].id => k = l
      /\ \A k \in 1..Len(stops) : stops[k].id <= issued
      /\ \A k \in 1..Len(stops) : \E l \in 1..len : stops[k] = old[l]
  BY <1>1, <1>6, RemoveKeepsIds
<1> HIDE DEF stops
<1>8. step \in Nat /\ (len # 1 => step < len - 1) /\ (len = 1 => step = 0)
  BY <1>1, <1>7 DEF StepAfterRemove
<1> HIDE DEF step
<1>9. /\ p \in Plan
      /\ p.stops = stops /\ p.step = step /\ p.id = id /\ p.keep = keep
  BY <1>1, <1>2, <1>4, <1>5, <1>7, <1>8 DEF Plan
<1>10. CASE len = 1
  <2>1. stops = <<>> /\ Len(stops) = 0 /\ DOMAIN stops = {}
    BY <1>7, <1>10, EmptySeq
  <2>2. Len(stops) <= MaxStops
    BY <2>1, MaxStopsAssumption
  <2> QED BY <1>4, <1>8, <1>9, <1>10, <2>1, <2>2 DEF Legal, ValidPlan
<1>11. CASE len # 1
  <2>1. len - 1 \in Nat /\ len - 1 # 0 /\ len - 1 <= MaxStops /\ stops # <<>>
    BY <1>1, <1>7, <1>11, EmptySeq, MaxStopsAssumption
  <2>2. keep => ~stops[step + 1].reached
    <3>1. step + 1 \in 1..Len(stops) /\ plan.step + 1 \in 1..len
      BY <1>1, <1>7, <1>8, <1>11
    <3>2. PICK k \in 1..len : stops[step + 1] = old[k]
      BY <1>7, <3>1
    <3>3. keep => k = plan.step + 1
      BY <1>1, <1>3, <3>1, <3>2
    <3> QED BY <1>1, <1>3, <3>2, <3>3
  <2> QED BY <1>5, <1>7, <1>8, <1>9, <1>11, <2>1, <2>2, LegalIntro
<1> QED BY <1>10, <1>11

\* MovedFrom in positions that count from one, as sequences do.
Source(i, j, k) == MovedFrom(i, j, k - 1) + 1

\* Moving a stop permutes the positions of the plan.
LEMMA SourcePermutes ==
  ASSUME NEW len \in Nat, NEW i \in 0..len - 1, NEW j \in 0..len - 1
  PROVE  /\ \A k \in 1..len : Source(i, j, k) \in 1..len
         /\ \A k, l \in 1..len : Source(i, j, k) = Source(i, j, l) => k = l
         /\ \A t \in 1..len : \E k \in 1..len : Source(i, j, k) = t
<1>1. \A k \in 1..len : Source(i, j, k) \in 1..len
  BY DEF MovedFrom, Source
<1>2. \A k, l \in 1..len : Source(i, j, k) = Source(i, j, l) => k = l
  BY DEF MovedFrom, Source
<1>3. ASSUME NEW t \in 1..len
      PROVE  \E k \in 1..len : Source(i, j, k) = t
  \* Where the stop at t goes.
  <2> DEFINE k == IF t - 1 = i THEN j + 1
                  ELSE IF i < t - 1 /\ t - 1 <= j THEN t - 1
                  ELSE IF j <= t - 1 /\ t - 1 < i THEN t + 1 ELSE t
  <2>1. k \in 1..len
    OBVIOUS
  <2>2. Source(i, j, k) = t
    BY DEF MovedFrom, Source
  <2> QED BY <2>1, <2>2
<1> QED BY <1>1, <1>2, <1>3

\* plan.move: the stops are permuted and the step follows the target.
LEMMA MoveLegal ==
  ASSUME issued \in Nat, Legal(plan, issued),
         NEW i \in Nat, NEW j \in Nat, HasStop(i), HasStop(j)
  PROVE  Legal(WithStopMoved(i, j), issued)
<1> DEFINE old == plan.stops
           len == Len(old)
           stops == [k \in DOMAIN old |-> old[MovedFrom(i, j, k - 1) + 1]]
           Follows(k) == stops[k + 1].id = Target(plan).id
           step == CHOOSE k \in 0..len - 1 : Follows(k)
           keep == plan.keep /\ step # Len(stops) - 1
           p == WithStopMoved(i, j)
<1> SUFFICES Legal(p, issued)
  OBVIOUS
<1>1. /\ plan \in Plan /\ old \in Seq(Stop) /\ len \in Nat
      /\ plan.step \in Nat /\ plan.id \in Ids
      /\ plan.step < len /\ len <= MaxStops /\ i < len /\ j < len
      /\ plan.keep => ~old[plan.step + 1].reached
      /\ \A k \in 1..len : old[k].id <= issued
      /\ \A k, l \in 1..len : old[k].id = old[l].id => k = l
  BY LegalPlanWithStops DEF HasStop
<1>2. p = [plan EXCEPT !.stops = stops, !.step = step, !.keep = keep]
  BY DEF WithStopMoved
<1>3. Target(plan) = old[plan.step + 1]
  BY DEF Target
<1>4. keep => plan.keep
  OBVIOUS
<1>5. keep \in BOOLEAN
  OBVIOUS
<1>6. DOMAIN old = 1..len /\ \A k \in 1..len : old[k] \in Stop
  <2> HIDE DEF old
  <2> QED BY <1>1, LenProperties, ElementOfSeq
<1> HIDE DEF old, keep, p
<1> DEFINE From(k) == Source(i, j, k)
<1>7. i \in 0..len - 1 /\ j \in 0..len - 1 /\ plan.step + 1 \in 1..len
  BY <1>1
<1>8. /\ \A k \in 1..len : From(k) \in 1..len
      /\ \A k, l \in 1..len : From(k) = From(l) => k = l
      /\ \A t \in 1..len : \E k \in 1..len : From(k) = t
  <2>1. len \in Nat
    BY <1>1
  <2> HIDE DEF len, stops, step
  <2> QED BY ONLY <1>7, <2>1, SourcePermutes
<1> HIDE DEF From
<1>9. \E k \in 1..len : From(k) = plan.step + 1
  BY <1>7, <1>8
<1>10. stops = [k \in 1..len |-> old[From(k)]]
  BY <1>6 DEF From, Source
<1> HIDE DEF stops
<1>11. stops \in [1..len -> Stop]
  BY <1>6, <1>8, <1>10
<1>12. stops \in Seq(Stop) /\ Len(stops) = len
  BY <1>1, <1>11, FunctionIsSeq
<1>13. /\ \A k, l \in 1..len : stops[k].id = stops[l].id => k = l
       /\ \A k \in 1..len : stops[k].id <= issued
  <2>1. \A k \in 1..len : stops[k].id = old[From(k)].id /\ From(k) \in 1..len
    BY <1>8, <1>10
  <2>2. ASSUME NEW k \in 1..len, NEW l \in 1..len, stops[k].id = stops[l].id
        PROVE  k = l
    <3>1. \A a, b \in 1..len : old[a].id = old[b].id => a = b
      BY <1>1
    <3>2. /\ From(k) \in 1..len /\ From(l) \in 1..len
          /\ old[From(k)].id = old[From(l)].id
      BY <2>1, <2>2
    <3>3. From(k) = From(l)
      BY <3>1, <3>2
    <3> QED BY <1>8, <3>3
  <2> QED BY <1>1, <2>1, <2>2
<1>14. step \in 0..len - 1 /\ Follows(step)
  <2>1. PICK k \in 1..len : From(k) = plan.step + 1
    BY <1>9
  <2>2. k - 1 \in 0..len - 1 /\ Follows(k - 1)
    BY <1>1, <1>3, <1>10, <2>1
  <2> HIDE DEF Follows
  <2> QED BY <2>2
<1>15. stops[step + 1].id = old[plan.step + 1].id
  BY <1>3, <1>14
<1> HIDE DEF step
<1>16. p \in Plan /\ p.stops = stops /\ p.step = step /\ p.keep = keep /\ p.id = plan.id
  <2>1. plan \in Plan /\ step \in Nat
    BY <1>1, <1>14
  <2> QED BY <1>2, <1>5, <1>12, <2>1 DEF Plan
<1>17. keep => ~stops[step + 1].reached
  <2>1. step + 1 \in 1..len /\ plan.step + 1 \in 1..len
    BY <1>1, <1>14
  <2>2. From(step + 1) = plan.step + 1
    <3>1. From(step + 1) \in 1..len /\ stops[step + 1] = old[From(step + 1)]
      BY <1>8, <1>10, <2>1
    <3>2. old[From(step + 1)].id = old[plan.step + 1].id
      BY <1>15, <3>1
    <3> QED BY <1>1, <2>1, <3>1, <3>2
  <2> QED BY <1>1, <1>4, <1>10, <2>1, <2>2
<1>18. step < len /\ p.id # NoId /\ step \in Nat
  BY <1>1, <1>14, <1>16 DEF Ids
<1> QED BY <1>1, <1>12, <1>13, <1>16, <1>17, <1>18, LegalIntro

\* plan.jump
LEMMA JumpLegal ==
  ASSUME issued \in Nat, Legal(plan, issued), NEW i \in Nat, HasStop(i)
  PROVE  Legal(WithTarget(i), issued)
<1> DEFINE old == plan.stops
           len == Len(old)
           stops == [k \in DOMAIN old |-> [old[k] EXCEPT !.reached = k <= i]]
           p == [plan EXCEPT !.step = i, !.keep = FALSE, !.stops = stops]
<1>1. /\ plan \in Plan /\ old \in Seq(Stop) /\ len \in Nat
      /\ plan.id \in Ids /\ len <= MaxStops /\ i < len
      /\ \A k \in 1..len : old[k].id <= issued
      /\ \A k, l \in 1..len : old[k].id = old[l].id => k = l
  BY LegalPlanWithStops DEF HasStop
<1> HIDE DEF old
<1>2. DOMAIN old = 1..len /\ \A k \in 1..len : old[k] \in Stop
  BY <1>1, LenProperties, ElementOfSeq
<1>3. stops \in [1..len -> Stop] /\ \A k \in 1..len : stops[k].id = old[k].id
  <2>1. ASSUME NEW k \in 1..len, NEW flag \in BOOLEAN
        PROVE  [old[k] EXCEPT !.reached = flag] \in Stop
               /\ [old[k] EXCEPT !.reached = flag].id = old[k].id
    BY <1>2 DEF Stop
  <2>2. \A k \in 1..len : (k <= i) \in BOOLEAN
    OBVIOUS
  <2>3. stops = [k \in 1..len |-> [old[k] EXCEPT !.reached = k <= i]]
    BY <1>2
  <2> HIDE DEF stops
  <2> QED BY <2>1, <2>2, <2>3
<1> HIDE DEF stops
<1>4. stops \in Seq(Stop) /\ Len(stops) = len
  BY <1>1, <1>3, FunctionIsSeq
<1>5. p \in Plan /\ p.stops = stops /\ p.step = i /\ p.keep = FALSE /\ p.id = plan.id
  BY <1>1, <1>4 DEF Plan
<1>6. p.id # NoId
  BY <1>1, <1>5 DEF Ids
<1> HIDE DEF p
<1>7. /\ p \in Plan /\ len \in Nat /\ len = Len(p.stops) /\ p.step < len /\ len <= MaxStops
      /\ p.id # NoId /\ ~p.keep
      /\ \A k \in 1..len : p.stops[k].id <= issued
      /\ \A k, l \in 1..len : p.stops[k].id = p.stops[l].id => k = l
  BY <1>1, <1>3, <1>4, <1>5, <1>6
<1>8. Legal(p, issued)
  BY <1>7, LegalIntro
<1> QED BY <1>8 DEF p, stops, old, WithTarget

\* A change of the target's reached flag and of the keep flag that do not
\* contradict each other: plan.unreach, plan.set-keep-current, plan.reached.
LEMMA FlagsLegal ==
  ASSUME issued \in Nat, Legal(plan, issued), plan.stops # <<>>,
         NEW reached \in BOOLEAN, NEW keep \in BOOLEAN, ~(keep /\ reached)
  PROVE  /\ Legal([plan EXCEPT !.stops[plan.step + 1].reached = reached, !.keep = keep], issued)
         /\ (keep => ~Target(plan).reached) => Legal([plan EXCEPT !.keep = keep], issued)
<1> DEFINE old == plan.stops
           len == Len(old)
           t == plan.step + 1
           stops == [old EXCEPT ![t].reached = reached]
           p == [plan EXCEPT !.stops[plan.step + 1].reached = reached, !.keep = keep]
<1>1. 0 < Len(plan.stops) /\ plan \in Plan
  BY PlanFacts DEF Legal
<1>2. /\ old \in Seq(Stop) /\ len \in Nat /\ plan.step \in Nat /\ plan.id \in Ids
      /\ plan.step < len /\ len <= MaxStops
      /\ \A k \in 1..len : old[k].id <= issued
      /\ \A k, l \in 1..len : old[k].id = old[l].id => k = l
  BY <1>1, LegalPlanWithStops
<1>3. p = [plan EXCEPT !.stops = stops, !.keep = keep]
  BY <1>1 DEF Plan
<1> HIDE DEF old, p
<1>4. t \in 1..len /\ DOMAIN old = 1..len /\ \A k \in 1..len : old[k] \in Stop
  BY <1>2, LenProperties, ElementOfSeq
<1>5. /\ stops \in [1..len -> Stop]
      /\ \A k \in 1..len : stops[k].id = old[k].id
      /\ stops[t].reached = reached
  <2>1. old \in [1..len -> Stop]
    BY <1>2, LenProperties
  <2> QED BY <1>4, <2>1 DEF Stop
<1> HIDE DEF stops
<1>6. stops \in Seq(Stop) /\ Len(stops) = len
  BY <1>2, <1>5, FunctionIsSeq
<1>7. p \in Plan /\ p.stops = stops /\ p.step = plan.step /\ p.keep = keep /\ p.id = plan.id
  BY <1>1, <1>3, <1>6 DEF Plan
<1>8. Legal(p, issued)
  <2>1. /\ len = Len(p.stops) /\ p.step < len /\ len <= MaxStops
        /\ p.id # NoId /\ (p.keep => ~p.stops[p.step + 1].reached)
        /\ \A k \in 1..len : p.stops[k].id <= issued
        /\ \A k, l \in 1..len : p.stops[k].id = p.stops[l].id => k = l
    BY <1>2, <1>5, <1>6, <1>7 DEF Ids
  <2> QED BY <1>2, <1>7, <2>1, LegalIntro
<1>9. ASSUME keep => ~Target(plan).reached
      PROVE  Legal([plan EXCEPT !.keep = keep], issued)
  <2> DEFINE q == [plan EXCEPT !.keep = keep]
  <2>1. q \in Plan /\ q.stops = old /\ q.step = plan.step /\ q.id = plan.id /\ q.keep = keep
    BY <1>1 DEF Plan, old
  <2>2. q.keep => ~q.stops[q.step + 1].reached
    BY <1>9, <2>1 DEF Target, old
  <2> HIDE DEF q
  <2>3. Legal(q, issued)
    BY <1>2, <2>1, <2>2, LegalIntro DEF Ids
  <2> QED BY <2>3 DEF q
<1> QED BY <1>8, <1>9 DEF p

\* plan.advance
LEMMA AdvanceLegal ==
  ASSUME issued \in Nat, Legal(plan, issued), HasStop(plan.step + 1)
  PROVE  Legal([plan EXCEPT !.step = @ + 1, !.keep = FALSE], issued)
<1> DEFINE p == [plan EXCEPT !.step = @ + 1, !.keep = FALSE]
<1>1. plan \in Plan /\ plan.step \in Nat
  BY PlanFacts DEF Legal
<1>2. plan.step + 1 \in Nat /\ plan.step + 1 < Len(plan.stops)
  BY <1>1 DEF HasStop
<1>3. /\ Len(plan.stops) \in Nat /\ Len(plan.stops) <= MaxStops /\ plan.id # NoId
      /\ \A k \in 1..Len(plan.stops) : plan.stops[k].id <= issued
      /\ \A k, l \in 1..Len(plan.stops) : plan.stops[k].id = plan.stops[l].id => k = l
  BY <1>2, LegalPlanWithStops DEF Ids
<1>4. /\ p \in Plan /\ p.stops = plan.stops /\ p.step = plan.step + 1
      /\ p.id = plan.id /\ p.keep = FALSE
  BY <1>1, <1>2 DEF Plan
<1> HIDE DEF p
<1>5. Legal(p, issued)
  BY <1>2, <1>3, <1>4, LegalIntro
<1> QED BY <1>5 DEF p

\* What the first start makes of any legacy plan is legal.
LEMMA MigratedLegal ==
  ASSUME issued \in Nat, NEW p \in Migrated
  PROVE  LET drawn == issued + IF p.stops = <<>> THEN 0 ELSE Len(p.stops) + 1
         IN drawn \in Nat /\ issued <= drawn /\ Legal(p, drawn)
<1>1. CASE p = EmptyPlan
  <2>1. p.stops = <<>>
    BY <1>1 DEF EmptyPlan
  <2> QED BY <1>1, <2>1, EmptyPlanLegal
<1>2. CASE p # EmptyPlan
  <2>1. PICK n \in 1..MaxStops :
          /\ p \in [id : {issued + n + 1}, revision : {1},
                    stops : {[i \in 1..n |-> NewStop(i, reached[i])] :
                               reached \in [1..n -> BOOLEAN]},
                    step : 0..n - 1, keep : BOOLEAN]
          /\ p.keep => ~Target(p).reached
    BY <1>2 DEF Migrated
  <2>2. PICK reached \in [1..n -> BOOLEAN] :
          p.stops = [i \in 1..n |-> NewStop(i, reached[i])]
    BY <2>1
  <2>3. n \in Nat /\ n <= MaxStops /\ n # 0
    BY MaxStopsAssumption
  <2>4. p.stops \in [1..n -> Stop] /\ \A k \in 1..n : p.stops[k].id = issued + k
    <3>1. \A k \in 1..n : NewStop(k, reached[k]) \in Stop /\ NewStop(k, reached[k]).id = issued + k
      BY <2>3 DEF NewStop, Stop, Ids, NoId
    <3> QED BY <2>2, <3>1
  <2>5. p.stops \in Seq(Stop) /\ Len(p.stops) = n
    BY <2>3, <2>4, FunctionIsSeq
  <2>6. /\ p \in Plan /\ p.id = issued + n + 1 /\ p.id # NoId
        /\ p.step \in Nat /\ p.step < n
    BY <2>1, <2>3, <2>5 DEF Plan, NoId
  <2>7. p.stops # <<>>
    BY <2>3, <2>5, <2>6, PlanFacts
  <2>8. issued + n + 1 \in Nat /\ issued <= issued + n + 1
    BY <2>3
  <2>9. /\ \A k, l \in 1..n : p.stops[k].id = p.stops[l].id => k = l
        /\ \A k \in 1..n : p.stops[k].id <= issued + n + 1
    BY <2>3, <2>4
  <2>10. p.keep => ~p.stops[p.step + 1].reached
    BY <2>1 DEF Target
  <2>11. Legal(p, issued + n + 1)
    BY <2>3, <2>5, <2>6, <2>8, <2>9, <2>10, LegalIntro
  <2> QED BY <2>3, <2>5, <2>7, <2>8, <2>11
<1> QED BY <1>1, <1>2

--------------------------------------------------------------------------------
(* Every plan the owner holds, writes or reads back is legal.                  *)

LegalInv == /\ issued \in Nat
            /\ Legal(plan, issued)
            /\ Legal(pending, issued)
            /\ disk # NoFile => Legal(disk, issued)
            /\ durable # NoFile => Legal(durable, issued)
            /\ pc \in {"down", "bootPersist", "bootPublish", "idle", "persist", "publish"}
            /\ nav \in Plan \union {Unset}
            /\ shown \subseteq Plan
            /\ faults \in 0..MaxFaults
            /\ crashes \in 0..MaxCrashes

\* What every handler that gets as far as commit does to the state.
Commits == /\ pc = "idle"
           /\ pending'.revision = plan.revision + 1
           /\ pc' = "persist"
           /\ issued' \in Nat /\ issued <= issued'
           /\ Legal(pending', issued')
           /\ UNCHANGED <<plan, disk, durable, nav, shown, faults, crashes>>

\* commit only adds the revision.
LEMMA CommitCommits ==
  ASSUME issued' \in Nat, issued \in Nat, issued <= issued', plan \in Plan,
         NEW p, Legal(p, issued'), Commit(p)
  PROVE  Commits
<1>1. plan.revision + 1 \in Nat /\ p \in Plan
  BY DEF Legal, Plan
<1>2. Legal([p EXCEPT !.revision = plan.revision + 1], issued')
  BY <1>1, LegalStays
<1>3. [p EXCEPT !.revision = plan.revision + 1].revision = plan.revision + 1
  BY <1>1 DEF Plan
<1> QED BY <1>2, <1>3 DEF Commit, Commits

\* Every handler answers or commits a legal plan.
LEMMA HandlerCommits ==
  ASSUME LegalInv, Handler
  PROVE  Answer \/ Commits
<1>1. issued \in Nat /\ plan \in Plan /\ Legal(plan, issued)
  BY DEF LegalInv, Legal
<1>2. ASSUME NEW n \in 1..MaxStops, NEW step \in 0..n - 1, Replace(n, step)
      PROVE  Commits
  <2>1. issued' \in Nat /\ issued <= issued'
    BY <1>1, <1>2, MaxStopsAssumption DEF Replace
  <2> QED BY <1>1, <1>2, <2>1, ReplaceLegal, CommitCommits DEF Replace
<1>3. ASSUME AppendStop
      PROVE  Commits
  <2>1. issued' \in Nat /\ issued <= issued'
    BY <1>1, <1>3 DEF AppendStop
  <2> QED BY <1>1, <1>3, <2>1, AppendLegal, CommitCommits DEF AppendStop
<1>4. ASSUME issued' = issued, NEW p, Legal(p, issued), Commit(p)
      PROVE  Commits
  BY <1>1, <1>4, CommitCommits
<1>5. ASSUME NEW i \in 0..MaxStops - 1, NEW rev \in 0..MaxRevision, RemoveStop(i, rev)
      PROVE  Commits
  BY <1>1, <1>4, <1>5, RemoveLegal DEF RemoveStop
<1>6. ASSUME NEW i \in 0..MaxStops - 1, NEW j \in 0..MaxStops - 1,
             NEW rev \in 0..MaxRevision, MoveStop(i, j, rev)
      PROVE  Commits
  BY <1>1, <1>4, <1>6, MoveLegal DEF MoveStop
<1>7. ASSUME NEW i \in 0..MaxStops - 1, NEW rev \in 0..MaxRevision, Jump(i, rev)
      PROVE  Commits
  BY <1>1, <1>4, <1>7, JumpLegal DEF Jump
<1>8. ASSUME NEW planId, NEW stopId, Unreach(planId, stopId)
      PROVE  Commits
  BY <1>1, <1>4, <1>8, FlagsLegal DEF Unreach, CheckProgress
<1>9. ASSUME NEW planId, NEW stopId, NEW keep \in BOOLEAN, SetKeepCurrent(planId, stopId, keep)
      PROVE  Commits
  BY <1>1, <1>4, <1>9, FlagsLegal DEF SetKeepCurrent, CheckProgress
<1>10. ASSUME NEW planId, NEW stopId, Reached(planId, stopId)
       PROVE  Commits
  BY <1>1, <1>4, <1>10, FlagsLegal DEF Reached, CheckProgress
<1>11. ASSUME NEW planId, NEW stopId, Advance(planId, stopId)
       PROVE  Commits
  BY <1>1, <1>4, <1>11, AdvanceLegal DEF Advance
<1>12. ASSUME NEW planId, Clear(planId)
       PROVE  Commits
  BY <1>1, <1>4, <1>12, EmptyPlanLegal DEF Clear
<1> QED BY <1>2, <1>3, <1>5, <1>6, <1>7, <1>8, <1>9, <1>10, <1>11, <1>12 DEF Handler

\* A plan is never mistaken for a missing file or an unset hash.
LEMMA NotAPlan == NoFile \notin Plan /\ Unset \notin Plan
<1>1. \A p \in Plan : "id" \in DOMAIN p
  BY DEF Plan
<1>2. "id" \notin DOMAIN NoFile /\ "id" \notin DOMAIN Unset
  BY DEF NoFile, Unset
<1> QED BY <1>1, <1>2

\* The start is legal.
LEMMA InitLegal == Init => LegalInv
  BY EmptyPlanLegal, BoundsAssumption DEF Init, LegalInv

\* Every step keeps every plan legal.
LEMMA NextLegal == LegalInv /\ [Next]_vars => LegalInv'
<1> SUFFICES ASSUME LegalInv, [Next]_vars
             PROVE  LegalInv'
  OBVIOUS
<1> USE BoundsAssumption
<1>1. plan \in Plan /\ pending \in Plan
  BY DEF LegalInv, Legal
<1>2. \A p, n, m : Legal(p, n) /\ n \in Nat /\ m \in Nat /\ n <= m => Legal(p, m)
  BY LegalStays
<1>3. Legal(EmptyPlan, issued)
  BY EmptyPlanLegal DEF LegalInv
<1>4. CASE LoadSnapshot
  BY <1>4 DEF LoadSnapshot, LegalInv
<1>5. CASE LoadMigrate
  BY <1>2, <1>5, MigratedLegal DEF LoadMigrate, LegalInv
<1>6. CASE Handler
  <2>1. CASE Answer
    BY <1>1, <2>1 DEF Answer, LegalInv
  <2>2. CASE Commits
    BY <1>2, <2>2 DEF Commits, LegalInv
  <2> QED BY <1>6, <2>1, <2>2, HandlerCommits
<1>7. CASE PersistOk
  BY <1>3, <1>7 DEF PersistOk, LegalInv
<1>8. CASE PersistFails
  BY <1>3, <1>8 DEF PersistFails, LegalInv
<1>9. CASE Publish
  BY <1>1, <1>9 DEF Publish, LegalInv
<1>10. CASE PublishFails
  BY <1>1, <1>10 DEF PublishFails, LegalInv
<1>11. CASE Writeback
  BY <1>11 DEF Writeback, LegalInv
<1>12. CASE Kill
  BY <1>3, <1>12 DEF Kill, Down, CrashFiles, LegalInv
<1>13. CASE PowerLoss
  BY <1>3, <1>13 DEF PowerLoss, Down, CrashFiles, LegalInv
<1>14. CASE UNCHANGED vars
  BY <1>14 DEF vars, LegalInv
<1> QED BY <1>4, <1>5, <1>6, <1>7, <1>8, <1>9, <1>10, <1>11, <1>12, <1>13, <1>14 DEF Next

\* The inductive invariant holds in every behaviour.
THEOREM LegalInvariance == Spec => []LegalInv
  BY InitLegal, NextLegal, PTL DEF Spec

\* Type correctness, for plans of any length and any number of restarts.
THEOREM TypeCorrect == Spec => []TypeOK
<1>1. LegalInv => TypeOK
  BY DEF LegalInv, Legal, TypeOK, PlanOrNoFile
<1> QED BY <1>1, LegalInvariance, PTL

\* Whatever the requests, failures and crashes, the snapshot a restart finds
\* passes validatePlan: no sequence of legal calls keeps the owner from starting.
THEOREM SnapshotsLoad == Spec => []SnapshotLoads
<1>1. LegalInv => SnapshotLoads
  BY DEF LegalInv, Legal, SnapshotLoads
<1> QED BY <1>1, LegalInvariance, PTL

--------------------------------------------------------------------------------
(* Revisions.  The files never hold anything but the plan in memory or a plan  *)
(* of the next revision that nobody has been shown: a commit that failed or    *)
(* was cut short.  A restart may take that plan up and a later commit may      *)
(* overwrite it; either way its revision belongs to one plan only.             *)

\* The plan in memory, or a plan of the next revision.
Near(p) == p = plan \/ p.revision = plan.revision + 1

RevisionInv ==
    /\ disk = NoFile => durable = NoFile
    /\ disk # NoFile => Near(disk)
    /\ durable # NoFile => Near(durable)
    /\ durable = NoFile => plan = EmptyPlan
    /\ Persisting => Near(pending)
    /\ pc = "bootPersist" => disk = NoFile
    /\ pc \notin {"down", "bootPersist"} \/ shown # {} => durable # NoFile
    /\ \A p \in shown : p.revision < plan.revision \/ p = plan
    /\ RevisionIdentifiesPlan

\* The start has shown nothing and has no file.
LEMMA InitRevision == Init => RevisionInv
  BY DEF Init, RevisionInv, Persisting, RevisionIdentifiesPlan

\* Every step keeps the files near the plan in memory, if the snapshot a
\* restart reads is one that a later power loss cannot take back.
LEMMA NextRevision ==
  ASSUME SettledBeforeLoad
  PROVE  LegalInv /\ LegalInv' /\ RevisionInv /\ [Next]_vars => RevisionInv'
<1> SUFFICES ASSUME LegalInv, LegalInv', RevisionInv, [Next]_vars
             PROVE  RevisionInv'
  OBVIOUS
<1>1. /\ plan \in Plan /\ pending \in Plan /\ plan' \in Plan /\ pending' \in Plan
      /\ plan.revision \in Nat /\ plan'.revision \in Nat
      /\ pending # NoFile /\ pending' # NoFile /\ plan # NoFile
      /\ \A p \in shown : p.revision \in Nat
  BY NotAPlan DEF LegalInv, Legal, Plan
<1>2. CASE LoadSnapshot
  BY <1>1, <1>2 DEF LoadSnapshot, RevisionInv, Near, Persisting, RevisionIdentifiesPlan
<1>3. CASE LoadMigrate
  <2>1. Near(pending')
    <3>1. plan = EmptyPlan
      BY <1>3 DEF LoadMigrate, RevisionInv
    <3>2. pending' = EmptyPlan \/ pending'.revision = 1
      BY <1>3 DEF LoadMigrate, Migrated
    <3> QED BY <3>1, <3>2 DEF Near, EmptyPlan
  <2> QED BY <1>1, <1>3, <2>1 DEF LoadMigrate, RevisionInv, Near, Persisting, RevisionIdentifiesPlan
<1>4. CASE Handler
  <2>1. CASE Answer
    BY <1>1, <2>1 DEF Answer, RevisionInv, Near, Persisting, RevisionIdentifiesPlan
  <2>2. CASE Commits
    BY <1>1, <2>2 DEF Commits, RevisionInv, Near, Persisting, RevisionIdentifiesPlan
  <2> QED BY <1>4, <2>1, <2>2, HandlerCommits
<1>5. CASE PersistOk
  BY <1>1, <1>5 DEF PersistOk, Booting, RevisionInv, Near, Persisting, RevisionIdentifiesPlan
<1>6. CASE PersistFails
  BY <1>1, <1>6 DEF PersistFails, Booting, RevisionInv, Near, Persisting, RevisionIdentifiesPlan
<1>7. CASE Publish
  BY <1>1, <1>7 DEF Publish, Publishing, RevisionInv, Near, Persisting, RevisionIdentifiesPlan
<1>8. CASE PublishFails
  BY <1>1, <1>8 DEF PublishFails, Publishing, Booting, RevisionInv, Near, Persisting,
                    RevisionIdentifiesPlan
<1>9. CASE Writeback
  BY <1>1, <1>9 DEF Writeback, RevisionInv, Near, Persisting, RevisionIdentifiesPlan
<1>10. CASE Kill
  BY <1>1, <1>10 DEF Kill, Down, CrashFiles, RevisionInv, Near, Persisting, RevisionIdentifiesPlan
<1>11. CASE PowerLoss
  BY <1>1, <1>11 DEF PowerLoss, Down, CrashFiles, RevisionInv, Near, Persisting,
                     RevisionIdentifiesPlan
<1>12. CASE UNCHANGED vars
  BY <1>12 DEF vars, RevisionInv, Near, Persisting, RevisionIdentifiesPlan
<1> QED BY <1>2, <1>3, <1>4, <1>5, <1>6, <1>7, <1>8, <1>9, <1>10, <1>11, <1>12 DEF Next

\* The inductive invariant of the revisions holds in every behaviour.
THEOREM RevisionInvariance ==
  ASSUME SettledBeforeLoad
  PROVE  Spec => []RevisionInv
<1>1. LegalInv /\ LegalInv' /\ RevisionInv /\ [Next]_vars => RevisionInv'
  BY NextRevision
<1> QED BY <1>1, InitRevision, LegalInvariance, PTL DEF Spec

\* A revision names one plan for good, across failed writes and restarts: the
\* expected_revision of remove, move and jump is as good as the plan itself.
THEOREM RevisionsIdentifyPlans ==
  ASSUME SettledBeforeLoad
  PROVE  Spec => []RevisionIdentifiesPlan
<1>1. RevisionInv => RevisionIdentifiesPlan
  BY DEF RevisionInv
<1> QED BY <1>1, RevisionInvariance, PTL

\* No power loss takes back a plan that a caller or a hash reader was shown.
THEOREM ShownPlansAreDurable ==
  ASSUME SettledBeforeLoad
  PROVE  Spec => []ShownIsDurable
<1>1. LegalInv /\ RevisionInv => ShownIsDurable
  <2> SUFFICES ASSUME LegalInv, RevisionInv, NEW p \in shown
               PROVE  Survives(p)
    BY DEF ShownIsDurable
  <2>1. p.revision \in Nat /\ plan.revision \in Nat /\ durable # NoFile
    BY DEF LegalInv, Legal, Plan, RevisionInv
  <2> QED BY <2>1 DEF RevisionInv, Near, Survives
<1> QED BY <1>1, LegalInvariance, RevisionInvariance, PTL

\* The owner implements the register of PlanRegister: its plan changes one
\* revision at a time, and everything shown is the plan of the moment.
THEOREM OwnerImplementsRegister ==
  ASSUME SettledBeforeLoad
  PROVE  Spec => RegisterSpec
<1> USE DEF Register!vars, Register!Next, Register!Mutate, Register!Show
<1>1. Init => Register!Init
  BY DEF Init, Register!Init
<1>2. LegalInv /\ LegalInv' /\ RevisionInv /\ [Next]_vars => [Register!Next]_(Register!vars)
  <2> SUFFICES ASSUME LegalInv, LegalInv', RevisionInv, [Next]_vars
               PROVE  [Register!Next]_(Register!vars)
    OBVIOUS
  <2>1. plan' \in {p \in Plan : ValidPlan(p)}
    BY DEF LegalInv, Legal
  <2>2. ASSUME UNCHANGED shown, plan' = plan \/ plan'.revision = plan.revision + 1
        PROVE  [Register!Next]_(Register!vars)
    BY <2>1, <2>2
  <2>3. CASE LoadSnapshot
    BY <2>2, <2>3 DEF LoadSnapshot, RevisionInv, Near
  <2>4. CASE LoadMigrate
    BY <2>4 DEF LoadMigrate
  <2>5. CASE Handler
    BY <2>5, HandlerCommits DEF Answer, Commits
  <2>6. CASE PersistOk
    BY <2>2, <2>6 DEF PersistOk, RevisionInv, Near
  <2>7. CASE PersistFails
    BY <2>7 DEF PersistFails
  <2>8. CASE Publish
    BY <2>8 DEF Publish
  <2>9. CASE PublishFails
    BY <2>9 DEF PublishFails
  <2>10. CASE Writeback
    BY <2>10 DEF Writeback
  <2>11. CASE Kill
    BY <2>11 DEF Kill, Down
  <2>12. CASE PowerLoss
    BY <2>12 DEF PowerLoss, Down
  <2>13. CASE UNCHANGED vars
    BY <2>13 DEF vars
  <2> QED BY <2>3, <2>4, <2>5, <2>6, <2>7, <2>8, <2>9, <2>10, <2>11, <2>12, <2>13 DEF Next
<1> QED BY <1>1, <1>2, LegalInvariance, RevisionInvariance, PTL DEF Spec, RegisterSpec, Register!Spec


--------------------------------------------------------------------------------
(* What the handlers do to the stop the rider is on the way to.  Not every legal *)
(* plan may follow another; the plan under way to the disk is one that may       *)
(* follow the plan in memory.                                                    *)

\* The target stays the same stop, or is no longer in the plan.
TargetKept(p, q) ==
    SameTarget(p, q) \/ \A i \in DOMAIN q.stops : q.stops[i].id # Target(p).id

\* A plan that may follow p.
Guides(p, q) == /\ p.stops # <<>> /\ StopIds(q) # StopIds(p) => TargetKept(p, q)
                /\ q.keep => SameTarget(p, q)

\* The plan a handler is committing may follow the one in memory.
TargetInv == pc = "persist" => Guides(plan, pending)

--------------------------------------------------------------------------------
(* What the handlers commit.                                                     *)

\* A plan may follow itself.
LEMMA GuidesItself ==
    ASSUME NEW n \in Nat, NEW p, Legal(p, n)
    PROVE  Guides(p, p)
BY LegalFacts DEF Guides, SameTarget

\* Only the stops, the step and the flag matter.
LEMMA SameFields ==
    ASSUME NEW p, NEW q \in Plan, NEW r \in Nat, Guides(p, q)
    PROVE  Guides(p, [q EXCEPT !.revision = r])
<1> DEFINE u == [q EXCEPT !.revision = r]
<1>1. u.stops = q.stops /\ u.step = q.step /\ u.keep = q.keep
  BY DEF Plan
<1> HIDE DEF u
<1>2. Target(u) = Target(q) /\ StopIds(u) = StopIds(q)
  BY <1>1 DEF Target, StopIds
<1>3. Guides(p, u)
  BY <1>1, <1>2 DEF Guides, SameTarget, TargetKept
<1> QED BY <1>3 DEF u

\* A plan with the same stops, apart from reached flags, may follow if it does
\* not carry the keep flag to another stop.
LEMMA SameStops ==
    ASSUME NEW p \in Plan, NEW q \in Plan, Len(q.stops) = Len(p.stops),
           \A k \in 1..Len(p.stops) : q.stops[k].id = p.stops[k].id,
           q.keep => SameTarget(p, q)
    PROVE  Guides(p, q)
<1>1. DOMAIN p.stops = DOMAIN q.stops /\ DOMAIN p.stops = 1..Len(p.stops)
  BY PlanFacts
<1>2. StopIds(q) = StopIds(p)
  BY <1>1 DEF StopIds
<1> QED BY <1>2 DEF Guides

\* plan.set: the stops are new ones.
LEMMA ReplaceGuides ==
    ASSUME issued \in Nat, Legal(plan, issued), NEW n \in 1..MaxStops, NEW step \in 0..n - 1
    PROVE  Guides(plan, [id |-> issued + n + 1, revision |-> 0,
                         stops |-> [i \in 1..n |-> NewStop(i, i <= step)],
                         step |-> step, keep |-> FALSE])
<1> DEFINE q == [id |-> issued + n + 1, revision |-> 0,
                 stops |-> [i \in 1..n |-> NewStop(i, i <= step)],
                 step |-> step, keep |-> FALSE]
<1>1. ASSUME plan.stops # <<>>, NEW i \in DOMAIN q.stops
      PROVE  q.stops[i].id # Target(plan).id
  <2>1. plan \in Plan /\ plan.step < Len(plan.stops)
    BY <1>1, LegalFacts
  <2>2. plan.step + 1 \in 1..Len(plan.stops)
    BY <2>1, PlanFacts
  <2>3. Target(plan).id <= issued /\ Target(plan).id \in Nat
    BY <2>1, <2>2, PlanFacts DEF Target, Legal
  <2>4. q.stops[i].id = issued + i /\ i \in 1..n
    BY DEF NewStop
  <2> QED BY <2>3, <2>4, MaxStopsAssumption
<1>2. q.keep = FALSE
  OBVIOUS
<1> HIDE DEF q
<1>3. Guides(plan, q)
  BY <1>1, <1>2 DEF Guides, TargetKept
<1> QED BY <1>3 DEF q

\* plan.append: the new stop comes last.
LEMMA AppendGuides ==
    ASSUME issued \in Nat, Legal(plan, issued)
    PROVE  Guides(plan, [plan EXCEPT !.stops = Append(@, NewStop(1, FALSE)),
                                     !.id = IF @ = NoId THEN issued + 2 ELSE @])
<1> DEFINE stops == Append(plan.stops, NewStop(1, FALSE))
           q == [plan EXCEPT !.stops = Append(@, NewStop(1, FALSE)),
                             !.id = IF @ = NoId THEN issued + 2 ELSE @]
<1>1. plan \in Plan /\ plan.stops \in Seq(Stop) /\ plan.step \in Nat
  BY LegalFacts, PlanFacts
<1>2. q.stops = stops /\ q.step = plan.step /\ q.keep = plan.keep
  BY <1>1 DEF Plan
<1> HIDE DEF q
<1>3. ASSUME plan.stops # <<>>
      PROVE  SameTarget(plan, q)
  <2>1. NewStop(1, FALSE) \in Stop
    BY DEF NewStop, Stop, Ids, NoId
  <2>2. plan.step + 1 \in 1..Len(plan.stops)
    BY <1>1, <1>3, LegalFacts, PlanFacts
  <2>3. stops # <<>> /\ stops[plan.step + 1] = plan.stops[plan.step + 1]
    <3> DEFINE old == plan.stops
               new == NewStop(1, FALSE)
    <3>1. old \in Seq(Stop) /\ new \in Stop /\ plan.step + 1 \in 1..Len(old)
      BY <1>1, <2>1, <2>2
    <3> HIDE DEF old, new
    <3>2. /\ Append(old, new) # <<>>
          /\ Append(old, new)[plan.step + 1] = old[plan.step + 1]
      BY <3>1, AppendProperties
    <3> QED BY <3>2 DEF old, new
  <2> QED BY <1>2, <1>3, <2>3 DEF SameTarget, Target
<1>4. plan.keep => plan.stops # <<>>
  BY LegalFacts
<1>5. Guides(plan, q)
  BY <1>2, <1>3, <1>4 DEF Guides, TargetKept
<1> QED BY <1>5 DEF q

\* plan.remove: the step follows the target, unless it is the stop removed.
LEMMA RemoveGuides ==
    ASSUME issued \in Nat, Legal(plan, issued), NEW i \in Nat, HasStop(i)
    PROVE  Guides(plan, WithoutStop(i))
<1> DEFINE old == plan.stops
           len == Len(old)
           stops == RemoveAt(old, i + 1)
           step == StepAfterRemove(i, Len(stops))
           keep == plan.keep /\ (stops # <<>> /\ stops[step + 1].id = Target(plan).id)
                     /\ step # Len(stops) - 1
           q == WithoutStop(i)
<1> SUFFICES Guides(plan, q)
  OBVIOUS
<1>1. /\ plan \in Plan /\ old \in Seq(Stop) /\ len \in Nat /\ plan.step \in Nat
      /\ plan.step < len /\ i < len
      /\ \A k, l \in 1..len : old[k].id = old[l].id => k = l
  BY LegalPlanWithStops DEF HasStop
<1>2. q.stops = stops /\ q.step = step /\ q.keep = keep
  BY <1>1 DEF WithoutStop, Plan
<1>3. Target(plan) = old[plan.step + 1] /\ Target(q) = stops[step + 1]
  BY <1>2 DEF Target
<1>4. keep => stops # <<>> /\ stops[step + 1].id = old[plan.step + 1].id
  BY <1>3
<1> HIDE DEF old, keep, q
<1>5. i + 1 \in 1..len /\ old # <<>>
  BY <1>1, EmptySeq
<1>6. /\ stops \in Seq(Stop) /\ Len(stops) = len - 1
      /\ \A k \in 1..len - 1 : stops[k] = IF k < i + 1 THEN old[k] ELSE old[k + 1]
  BY <1>1, <1>5, RemoveAtProperties
<1> HIDE DEF stops
<1>k. q.keep => SameTarget(plan, q)
  BY <1>2, <1>3, <1>4, <1>5 DEF SameTarget, old
<1>7. CASE i = plan.step
  <2>1. ASSUME NEW k \in 1..len - 1
        PROVE  stops[k].id # old[plan.step + 1].id
    <3>1. PICK l \in 1..len : l # plan.step + 1 /\ stops[k] = old[l]
      <4>1. CASE k < i + 1
        BY <1>1, <1>6, <1>7, <4>1
      <4>2. CASE ~(k < i + 1)
        BY <1>1, <1>6, <1>7, <4>2
      <4> QED BY <4>1, <4>2
    <3>2. plan.step + 1 \in 1..len
      BY <1>1
    <3> QED BY <1>1, <3>1, <3>2
  <2>2. DOMAIN stops = 1..len - 1
    BY <1>1, <1>6, LenProperties
  <2>3. TargetKept(plan, q)
    BY <1>2, <1>3, <2>1, <2>2 DEF TargetKept
  <2> QED BY <1>k, <2>3 DEF Guides
<1>8. CASE i # plan.step
  <2>1. step + 1 \in 1..len - 1 /\ stops[step + 1] = old[plan.step + 1]
    <3>0. step = IF i < plan.step THEN plan.step - 1 ELSE plan.step
      BY <1>1, <1>6, <1>8 DEF StepAfterRemove
    <3>1. /\ step \in Nat /\ step + 1 \in 1..len - 1
          /\ step = IF i < plan.step THEN plan.step - 1 ELSE plan.step
      BY <1>1, <1>8, <3>0
    <3> HIDE DEF step
    <3>2. CASE i < plan.step
      <4>1. step + 1 = plan.step /\ plan.step \in 1..len - 1 /\ ~(plan.step < i + 1)
        BY <1>1, <3>1, <3>2
      <4> QED BY <1>6, <4>1
    <3>3. CASE ~(i < plan.step)
      <4>1. step = plan.step /\ step + 1 \in 1..len - 1 /\ step + 1 < i + 1
        BY <1>1, <1>8, <3>1, <3>3
      <4> QED BY <1>6, <4>1
    <3> QED BY <3>2, <3>3
  <2>2. stops # <<>>
    BY <1>1, <1>6, <2>1, EmptySeq
  <2>3. SameTarget(plan, q)
    BY <1>2, <1>3, <1>5, <2>1, <2>2 DEF SameTarget, old
  <2> QED BY <2>3 DEF Guides, TargetKept
<1> QED BY <1>7, <1>8

\* plan.move: the step follows the target.
LEMMA MoveGuides ==
    ASSUME issued \in Nat, Legal(plan, issued),
           NEW i \in Nat, NEW j \in Nat, HasStop(i), HasStop(j)
    PROVE  Guides(plan, WithStopMoved(i, j))
<1> DEFINE old == plan.stops
           len == Len(old)
           stops == [k \in DOMAIN old |-> old[MovedFrom(i, j, k - 1) + 1]]
           Follows(k) == stops[k + 1].id = Target(plan).id
           step == CHOOSE k \in 0..len - 1 : Follows(k)
           q == WithStopMoved(i, j)
<1> SUFFICES Guides(plan, q)
  OBVIOUS
<1>1. /\ plan \in Plan /\ old \in Seq(Stop) /\ len \in Nat /\ DOMAIN old = 1..len
      /\ plan.step \in Nat /\ plan.step < len /\ i < len /\ j < len
  BY LegalPlanWithStops, PlanFacts DEF HasStop
<1>2. q.stops = stops /\ q.step = step
  BY <1>1 DEF WithStopMoved, Plan
<1>3. \E k \in 0..len - 1 : Follows(k)
  <2>1. i \in 0..len - 1 /\ j \in 0..len - 1 /\ plan.step + 1 \in 1..len
    BY <1>1
  <2>2. PICK k \in 1..len : Source(i, j, k) = plan.step + 1
    <3>1. len \in Nat
      BY <1>1
    <3> HIDE DEF len, stops, step
    <3> QED BY ONLY <2>1, <3>1, SourcePermutes
  <2>3. k - 1 \in 0..len - 1 /\ stops[k] = old[plan.step + 1]
    BY <1>1, <2>2 DEF Source
  <2>4. Follows(k - 1)
    BY <1>1, <2>3 DEF Target
  <2> QED BY <2>3, <2>4
<1>4. Follows(step) /\ step \in 0..len - 1
  <2> HIDE DEF Follows
  <2> QED BY <1>3
<1>5. old # <<>> /\ stops # <<>>
  <2>1. 1 \in DOMAIN old /\ DOMAIN stops = DOMAIN old
    BY <1>1
  <2>2. DOMAIN <<>> = {}
    OBVIOUS
  <2> HIDE DEF old, stops
  <2> QED BY <2>1, <2>2
<1> HIDE DEF q
<1>6. SameTarget(plan, q)
  BY <1>2, <1>4, <1>5 DEF SameTarget, Target
<1> QED BY <1>6 DEF Guides, TargetKept

\* plan.jump and plan.advance: the stops stay, and the flag is reset.
LEMMA TargetGuides ==
    ASSUME issued \in Nat, Legal(plan, issued)
    PROVE  /\ \A i \in Nat : HasStop(i) => Guides(plan, WithTarget(i))
           /\ HasStop(plan.step + 1) => Guides(plan, [plan EXCEPT !.step = @ + 1, !.keep = FALSE])
<1>1. plan \in Plan
  BY DEF Legal
<1>2. ASSUME NEW i \in Nat, HasStop(i)
      PROVE  Guides(plan, WithTarget(i))
  <2> DEFINE q == WithTarget(i)
             stops == [k \in DOMAIN plan.stops |-> [plan.stops[k] EXCEPT !.reached = k <= i]]
  <2>1. q \in Plan
    BY <1>2, JumpLegal DEF Legal
  <2>2. q.stops = stops /\ q.keep = FALSE
    BY <1>1 DEF WithTarget, Plan
  <2>3. DOMAIN stops = 1..Len(plan.stops) /\ DOMAIN plan.stops = 1..Len(plan.stops)
    BY <1>1, PlanFacts
  <2>4. \A k \in 1..Len(plan.stops) : stops[k].id = plan.stops[k].id
    BY <1>1, <2>3, ElementOfSeq, PlanFacts DEF Stop
  <2>5. Len(q.stops) = Len(plan.stops)
    BY <1>1, <2>1, <2>2, <2>3, PlanFacts
  <2> HIDE DEF q
  <2>6. Guides(plan, q)
    BY <1>1, <2>1, <2>2, <2>4, <2>5, SameStops
  <2> QED BY <2>6 DEF q
<1>3. ASSUME HasStop(plan.step + 1)
      PROVE  Guides(plan, [plan EXCEPT !.step = @ + 1, !.keep = FALSE])
  <2> DEFINE q == [plan EXCEPT !.step = @ + 1, !.keep = FALSE]
  <2>1. q \in Plan
    BY <1>3, AdvanceLegal DEF Legal
  <2>2. q.stops = plan.stops /\ q.keep = FALSE
    BY <1>1 DEF Plan
  <2> HIDE DEF q
  <2>3. Guides(plan, q)
    BY <1>1, <2>1, <2>2, SameStops
  <2> QED BY <2>3 DEF q
<1> QED BY <1>2, <1>3

\* plan.unreach, plan.set-keep-current, plan.reached: only flags change.
LEMMA FlagsGuide ==
    ASSUME issued \in Nat, Legal(plan, issued), plan.stops # <<>>,
           NEW reached \in BOOLEAN, NEW keep \in BOOLEAN
    PROVE  /\ Guides(plan, [plan EXCEPT !.stops[plan.step + 1].reached = reached, !.keep = keep])
           /\ Guides(plan, [plan EXCEPT !.keep = keep])
<1> DEFINE t == plan.step + 1
           stops == [plan.stops EXCEPT ![t].reached = reached]
           q == [plan EXCEPT !.stops[plan.step + 1].reached = reached, !.keep = keep]
           u == [plan EXCEPT !.keep = keep]
<1>1. plan \in Plan /\ t \in 1..Len(plan.stops)
  BY LegalFacts, PlanFacts
<1>2. q.stops = stops /\ q.step = plan.step /\ q.keep = keep
  BY <1>1 DEF Plan
<1>3. u.stops = plan.stops /\ u.step = plan.step /\ u.keep = keep /\ u \in Plan
  BY <1>1 DEF Plan
<1>4. /\ DOMAIN plan.stops = 1..Len(plan.stops)
      /\ plan.stops \in [1..Len(plan.stops) -> Stop] /\ Len(plan.stops) \in Nat
  BY <1>1, PlanFacts, LenProperties
<1>5. /\ stops \in [1..Len(plan.stops) -> Stop]
      /\ \A k \in 1..Len(plan.stops) : stops[k].id = plan.stops[k].id
  BY <1>1, <1>4 DEF Stop
<1>6. stops \in Seq(Stop) /\ Len(stops) = Len(plan.stops)
  <2> HIDE DEF stops
  <2> QED BY <1>4, <1>5, FunctionIsSeq
<1>7. q \in Plan
  <2>1. q = [plan EXCEPT !.stops = stops, !.keep = keep]
    BY <1>1 DEF Plan
  <2> HIDE DEF stops, q
  <2> QED BY <1>1, <1>6, <2>1 DEF Plan
<1>8. stops # <<>>
  <2> HIDE DEF stops
  <2> QED BY <1>1, <1>6, EmptySeq
<1> HIDE DEF stops, q, u
<1>9. SameTarget(plan, q) /\ SameTarget(plan, u)
  BY <1>1, <1>2, <1>3, <1>5, <1>8 DEF SameTarget, Target
<1>10. Guides(plan, q) /\ Guides(plan, u)
  BY <1>1, <1>2, <1>3, <1>5, <1>6, <1>7, <1>9, SameStops
<1> QED BY <1>10 DEF q, u

\* plan.clear: nothing is left to be reached.
LEMMA ClearGuides == Guides(plan, EmptyPlan)
BY DEF Guides, TargetKept, EmptyPlan

--------------------------------------------------------------------------------
(* Every plan that takes effect may follow the one before it.                    *)

\* commit only adds the revision.
LEMMA CommitGuides ==
    ASSUME plan \in Plan, NEW p \in Plan, Guides(plan, p), Commit(p)
    PROVE  Guides(plan, pending')
<1>1. plan.revision + 1 \in Nat
  BY PlanFacts
<1>2. Guides(plan, [p EXCEPT !.revision = plan.revision + 1])
  BY <1>1, SameFields
<1> QED BY <1>2 DEF Commit

\* Every handler answers or commits a plan that may follow.
LEMMA HandlerGuides ==
    ASSUME LegalInv, Handler
    PROVE  Answer \/ Guides(plan, pending')
<1>1. issued \in Nat /\ plan \in Plan /\ Legal(plan, issued)
  BY DEF LegalInv, Legal
<1>a. ASSUME NEW p, NEW n \in Nat, Legal(p, n), Guides(plan, p), Commit(p)
      PROVE  Guides(plan, pending')
  BY <1>1, <1>a, CommitGuides DEF Legal
<1>2. ASSUME NEW n \in 1..MaxStops, NEW step \in 0..n - 1, Replace(n, step)
      PROVE  Guides(plan, pending')
  <2>1. issued + n + 1 \in Nat
    BY <1>1, MaxStopsAssumption
  <2> QED BY <1>1, <1>2, <1>a, <2>1, ReplaceLegal, ReplaceGuides DEF Replace
<1>3. ASSUME AppendStop
      PROVE  Guides(plan, pending')
  <2>1. issued + (IF plan.id = NoId THEN 2 ELSE 1) \in Nat
    BY <1>1
  <2> QED BY <1>1, <1>3, <1>a, <2>1, AppendLegal, AppendGuides DEF AppendStop
<1>4. ASSUME NEW i \in 0..MaxStops - 1, NEW rev \in 0..MaxRevision, RemoveStop(i, rev)
      PROVE  Guides(plan, pending')
  BY <1>1, <1>4, <1>a, RemoveLegal, RemoveGuides DEF RemoveStop
<1>5. ASSUME NEW i \in 0..MaxStops - 1, NEW j \in 0..MaxStops - 1,
             NEW rev \in 0..MaxRevision, MoveStop(i, j, rev)
      PROVE  Guides(plan, pending')
  BY <1>1, <1>5, <1>a, MoveLegal, MoveGuides DEF MoveStop
<1>6. ASSUME NEW i \in 0..MaxStops - 1, NEW rev \in 0..MaxRevision, Jump(i, rev)
      PROVE  Guides(plan, pending')
  BY <1>1, <1>6, <1>a, JumpLegal, TargetGuides DEF Jump
<1>7. ASSUME NEW planId, NEW stopId, Unreach(planId, stopId)
      PROVE  Guides(plan, pending')
  BY <1>1, <1>7, <1>a, FlagsLegal, FlagsGuide DEF Unreach, CheckProgress
<1>8. ASSUME NEW planId, NEW stopId, NEW keep \in BOOLEAN, SetKeepCurrent(planId, stopId, keep)
      PROVE  Guides(plan, pending')
  BY <1>1, <1>8, <1>a, FlagsLegal, FlagsGuide DEF SetKeepCurrent, CheckProgress
<1>9. ASSUME NEW planId, NEW stopId, Reached(planId, stopId)
      PROVE  Guides(plan, pending')
  BY <1>1, <1>9, <1>a, FlagsLegal, FlagsGuide DEF Reached, CheckProgress
<1>10. ASSUME NEW planId, NEW stopId, Advance(planId, stopId)
       PROVE  Guides(plan, pending')
  BY <1>1, <1>10, <1>a, AdvanceLegal, TargetGuides DEF Advance, CheckProgress
<1>11. ASSUME NEW planId, Clear(planId)
       PROVE  Guides(plan, pending')
  BY <1>1, <1>11, <1>a, EmptyPlanLegal, ClearGuides DEF Clear
<1> QED BY <1>2, <1>3, <1>4, <1>5, <1>6, <1>7, <1>8, <1>9, <1>10, <1>11 DEF Handler

\* No step but a handler's begins a commit, and nothing touches the two plans
\* before it ends.
LEMMA NextGuides == LegalInv /\ TargetInv /\ [Next]_vars => TargetInv'
<1> SUFFICES ASSUME LegalInv, TargetInv, [Next]_vars, pc' = "persist"
             PROVE  Guides(plan, pending)'
  BY DEF TargetInv
<1>1. CASE Handler
  <2>1. CASE Answer
    BY <2>1 DEF Answer, TargetInv
  <2>2. CASE ~Answer
    <3>1. Guides(plan, pending')
      BY <1>1, <2>2, HandlerGuides
    <3>2. plan' = plan
      BY <1>1, <2>2, HandlerCommits DEF Commits
    <3> QED BY <3>1, <3>2
  <2> QED BY <2>1, <2>2
<1>2. CASE Writeback
  BY <1>2 DEF Writeback, TargetInv
<1>3. CASE UNCHANGED vars
  BY <1>3 DEF vars, TargetInv
<1>4. ~(\/ LoadSnapshot \/ LoadMigrate \/ PersistOk \/ PersistFails \/ Publish \/ PublishFails
        \/ Kill \/ PowerLoss)
  BY DEF LoadSnapshot, LoadMigrate, PersistOk, PersistFails, Publish, PublishFails,
         Kill, PowerLoss, Down
<1> QED BY <1>1, <1>2, <1>3, <1>4 DEF Next

\* A step of a serving owner leaves the plan or installs one that may follow it.
LEMMA ServingGuides ==
    ASSUME LegalInv, TargetInv, [Next]_vars, Serving, Serving'
    PROVE  Guides(plan, plan')
<1>1. CASE plan' = plan
  BY <1>1, GuidesItself DEF LegalInv
<1>2. CASE plan' # plan
  <2>1. CASE Handler
    BY <1>2, <2>1, HandlerCommits DEF Commits, Answer
  <2>2. CASE PersistOk
    BY <2>2 DEF PersistOk, Persisting, Serving, TargetInv
  <2>3. ~(\/ LoadSnapshot \/ LoadMigrate \/ PersistFails \/ Publish \/ PublishFails
          \/ Writeback \/ Kill \/ PowerLoss \/ UNCHANGED vars)
    BY <1>2 DEF LoadSnapshot, LoadMigrate, PersistFails, Publish, PublishFails,
                Writeback, Kill, PowerLoss, Down, Serving, vars
  <2> QED BY <2>1, <2>2, <2>3 DEF Next
<1> QED BY <1>1, <1>2

\* The plan under way to the disk may follow the one in memory, in every state.
THEOREM TargetInvariance == Spec => []TargetInv
<1>1. Init => TargetInv
  BY DEF Init, TargetInv
<1> QED BY <1>1, NextGuides, LegalInvariance, PTL DEF Spec

\* However stops are appended, removed and moved, the rider stays on the way to
\* the same stop until that stop itself is removed.
THEOREM EditsKeepTheTarget == Spec => EditKeepsTarget
<1>1. LegalInv /\ TargetInv /\ [Next]_vars =>
          [Serving /\ Serving' /\ plan.stops # <<>> /\ StopIds(plan') # StopIds(plan)
             => SameTarget(plan, plan')
                \/ \A i \in DOMAIN plan'.stops : plan'.stops[i].id # Target(plan).id]_vars
  BY ServingGuides DEF Guides, TargetKept
<1> QED BY <1>1, LegalInvariance, TargetInvariance, PTL DEF Spec, EditKeepsTarget

\* keep_current_stop is never carried over to another stop.
THEOREM KeepStaysWithItsStop == Spec => KeepNeverChangesStop
<1>1. LegalInv /\ TargetInv /\ [Next]_vars =>
          [Serving /\ Serving' /\ plan'.keep => SameTarget(plan, plan')]_vars
  BY ServingGuides DEF Guides
<1> QED BY <1>1, LegalInvariance, TargetInvariance, PTL DEF Spec, KeepNeverChangesStop

================================================================================
