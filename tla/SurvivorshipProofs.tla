------------------------- MODULE SurvivorshipProofs -------------------------
(***************************************************************************)
(* Proofs about Survivorship.  A candidate's place is one more than the    *)
(* number of those that outrank it; outranking is a strict total order of  *)
(* the positions, so that the places are those of a permutation and the    *)
(* first and the second candidate are what the properties need.            *)
(***************************************************************************)
EXTENDS Survivorship, FiniteSetTheorems, FunctionTheorems, SequenceTheorems, WellFoundedInduction, TLAPS

-----------------------------------------------------------------------------
(* Extrema.                                                                *)

LEMMA LeastExists ==
  ASSUME NEW S \in SUBSET Nat, S # {}
  PROVE  Min(S) \in S /\ \A x \in S : Min(S) <= x
<1>1. PICK R : R = OpToRel(<, Nat)
  OBVIOUS
<1>2. IsWellFoundedOn(R, Nat)
  BY <1>1, NatLessThanWellFounded
<1>3. PICK m \in S : \A x \in S : ~ (<<x, m>> \in R)
  BY <1>2, WFMin
<1>4. \A x \in S : <<x, m>> \in R <=> x < m
  BY <1>1 DEF OpToRel
<1>5. ASSUME NEW x \in S PROVE m <= x
  <2>1. ~ (x < m)
    BY <1>3, <1>4
  <2>2. x \in Nat /\ m \in Nat
    OBVIOUS
  <2> QED
    BY <2>1, <2>2
<1> QED
  BY <1>5 DEF Min

LEMMA MinOfTwo ==
  ASSUME NEW x \in Int, NEW y \in Int
  PROVE  Min({x, y}) = IF x <= y THEN x ELSE y
BY DEF Min

LEMMA MaxOfTwo ==
  ASSUME NEW x \in Int, NEW y \in Int
  PROVE  Max({x, y}) = IF x >= y THEN x ELSE y
BY DEF Max

-----------------------------------------------------------------------------
(* Scores.                                                                 *)

LEMMA PriorityType ==
  ASSUME NEW r \in RuleSet, NEW source
  PROVE  Priority(r, source) \in Nat
<1>1. r.source_priority \in Seq(STRING)
  BY DEF RuleSet
<1>2. PICK n \in Nat : n = Len(r.source_priority) /\ DOMAIN r.source_priority = 1..n
  BY <1>1
<1>3. Listed(r, source) \subseteq 1..n
  BY <1>2 DEF Listed
<1>4. CASE Listed(r, source) = {}
  BY <1>4 DEF Priority
<1>5. CASE Listed(r, source) # {}
  <2>1. Min(Listed(r, source)) \in Listed(r, source)
    BY <1>3, <1>5, LeastExists
  <2>2. PICK m \in 1..n : m = Min(Listed(r, source))
    BY <1>3, <2>1
  <2>3. Priority(r, source) = n - m + 1
    BY <1>2, <1>5, <2>2 DEF Priority
  <2> QED
    BY <2>3
<1> QED
  BY <1>4, <1>5

\* What the parts of a score are.
LEMMA PartTypes ==
  ASSUME NEW a \in Attributes
  PROVE  /\ Or(a.confidence, 0) \in Int
         /\ Completeness(a) \in Nat /\ Recency(a) \in Nat /\ Richness(a) \in Nat
         /\ Length[a.value] \in Nat
<1>1. Or(a.confidence, 0) \in Int
  BY DEF Attributes, Or
<1>2. Completeness(a) \in Nat /\ Recency(a) \in Nat
  BY DEF Completeness, Recency, One
<1>3. PICK l \in Nat : l = Length[a.value]
  <2>1. a.value \in DOMAIN Length
    BY DEF Attributes
  <2>2. Length[a.value] \in Nat
    BY <2>1, SurvivorshipAssumption
  <2> QED
    BY <2>2
<1>4. PICK q \in Nat : q = (l * One) \div 1000
  BY DEF One
<1>5. Richness(a) = Min({q, One})
  BY <1>3, <1>4 DEF Richness
<1>6. Richness(a) \in Nat
  BY <1>5, MinOfTwo DEF One
<1> QED
  BY <1>1, <1>2, <1>3, <1>6

LEMMA BlendType ==
  ASSUME NEW a \in Attributes,
         NEW w \in Nat, NEW x \in Nat, NEW y \in Nat, NEW z \in Nat
  PROVE  Blend([confidence |-> w, completeness |-> x, recency |-> y, richness |-> z], a) \in Int
<1>1. PICK c \in Int, k \in Nat, e \in Nat, h \in Nat :
        c = Or(a.confidence, 0) /\ k = Completeness(a) /\ e = Recency(a) /\ h = Richness(a)
  BY PartTypes
<1>2. Blend([confidence |-> w, completeness |-> x, recency |-> y, richness |-> z], a)
        = (w * c + x * k + y * e + z * h) \div 100
  BY <1>1 DEF Blend
<1>3. w * c + x * k + y * e + z * h \in Int
  <2>1. w * c \in Int /\ x * k \in Nat /\ y * e \in Nat /\ z * h \in Nat
    OBVIOUS
  <2> QED
    BY <2>1
<1>4. PICK n \in Int : n = w * c + x * k + y * e + z * h
  BY <1>3
<1> QED
  BY <1>2, <1>4

\* What is next to a number is half a unit from it at most.
LEMMA NearestIs ==
  ASSUME NEW x \in Int, NEW unit \in Nat, unit # 0
  PROVE  /\ Nearest(x, unit) \in Int
         /\ 2 * (unit * Nearest(x, unit)) <= 2 * x + unit
         /\ 2 * x - unit <= 2 * (unit * Nearest(x, unit))
<1>1. PICK low \in Int, rest \in Int : low = x \div unit /\ rest = x % unit
  OBVIOUS
<1>2. x = unit * low + rest /\ 0 <= rest /\ rest < unit
  BY <1>1
<1>3. PICK up \in BOOLEAN : up <=> (2 * rest > unit \/ (2 * rest = unit /\ low % 2 = 1))
  OBVIOUS
<1>4. Nearest(x, unit) = IF up THEN low + 1 ELSE low
  BY <1>1, <1>3 DEF Nearest
<1>5. (up => 2 * rest >= unit) /\ (~up => 2 * rest <= unit)
  <2>1. up => 2 * rest > unit \/ 2 * rest = unit
    BY <1>3
  <2>2. ~up => ~(2 * rest > unit)
    BY <1>3
  <2> QED
    BY <2>1, <2>2
<1>6. unit * (low + 1) = unit * low + unit
  OBVIOUS
<1>7. PICK z \in Int : z = unit * low
  OBVIOUS
<1>8. CASE up
  BY <1>2, <1>4, <1>5, <1>6, <1>7, <1>8
<1>9. CASE ~up
  BY <1>2, <1>4, <1>5, <1>7, <1>9
<1> QED
  BY <1>8, <1>9

LEMMA NextTo ==
  ASSUME NEW x \in Int, NEW unit \in Nat, unit # 0
  PROVE  \E n \in Int : /\ n = Nearest(x, unit)
                        /\ 2 * (unit * n) <= 2 * x + unit
                        /\ 2 * x - unit <= 2 * (unit * n)
<1>1. PICK n : n = Nearest(x, unit)
  OBVIOUS
<1>2. n \in Int /\ 2 * (unit * n) <= 2 * x + unit /\ 2 * x - unit <= 2 * (unit * n)
  BY <1>1, NearestIs, Zenon
<1> QED
  BY <1>1, <1>2, Zenon

\* Less than one unit apart are only a multiple and itself.
LEMMA MultiplesApart ==
  ASSUME NEW unit \in Nat, unit # 0, NEW m \in Int, NEW n \in Int
  PROVE  /\ unit * m <= unit * n => m <= n
         /\ m <= n => unit * m <= unit * n
         /\ unit * m < unit * n + unit => m <= n
<1>1. ASSUME n + 1 <= m PROVE unit * n + unit <= unit * m
  <2>1. PICK d \in Nat : m = n + 1 + d
    BY <1>1
  <2>2. unit * m = unit * n + unit + unit * d /\ unit * d >= 0
    BY <2>1
  <2> QED
    BY <2>2
<1>2. ASSUME m <= n PROVE unit * m <= unit * n
  <2>1. PICK d \in Nat : n = m + d
    BY <1>2
  <2>2. unit * n = unit * m + unit * d /\ unit * d >= 0
    BY <2>1
  <2> QED
    BY <2>2
<1>3. PICK u \in Int, v \in Int : u = unit * m /\ v = unit * n
  OBVIOUS
<1> QED
  BY <1>1, <1>2, <1>3

LEMMA GridIs == /\ Ulp \in Nat /\ Ulp # 0 /\ Grid \in Nat /\ Grid # 0
                /\ Epoch \in Nat /\ Epoch # 0 /\ One \in Nat /\ One # 0
<1>1. Ulp \in Nat /\ Ulp # 0 /\ Epoch \in Nat /\ Epoch # 0
  BY SurvivorshipAssumption
<1> QED
  BY <1>1 DEF Grid, One

\* A timestamp is at least a unit away from none.
LEMMA UnixTimeType ==
  ASSUME NEW a \in Attributes
  PROVE  /\ UnixTime(a) \in Nat
         /\ a.extracted = None => UnixTime(a) = 0
         /\ a.extracted # None => UnixTime(a) >= Ulp
<1>1. PICK u \in Nat, e \in Nat : u = Ulp /\ e = Epoch /\ e >= 1
  BY GridIs
<1>2. CASE a.extracted = None
  BY <1>2 DEF UnixTime
<1>3. CASE a.extracted # None
  <2>1. PICK t \in Nat : t = a.extracted
    BY <1>3 DEF Attributes
  <2>2. UnixTime(a) = e * u + t
    BY <1>1, <1>3, <2>1 DEF UnixTime
  <2>3. PICK d \in Nat : e = d + 1
    BY <1>1
  <2>4. e * u = d * u + u /\ d * u \in Nat
    BY <2>3
  <2> QED
    BY <1>1, <1>3, <2>2, <2>4
<1> QED
  BY <1>2, <1>3

LEMMA StrategyScoreType ==
  ASSUME NEW a \in Attributes, NEW r \in RuleSet
  PROVE  StrategyScore(a, r) \in Int
<1>1. r.strategy \in Strategies
  BY DEF RuleSet
<1>2. CASE r.strategy = "TrustedSource"
  <2>1. PICK n \in Nat : n = Priority(r, a.source)
    BY PriorityType
  <2> QED
    BY <1>2, <2>1 DEF StrategyScore, One
<1>3. CASE r.strategy = "HighestConfidence"
  BY <1>3, PartTypes DEF StrategyScore
<1>4. CASE r.strategy = "MostRecent"
  <2>1. PICK n \in Int : n = Nearest(UnixTime(a), Ulp)
    <3>1. UnixTime(a) \in Int
      BY UnixTimeType
    <3>2. Nearest(UnixTime(a), Ulp) \in Int
      BY <3>1, NearestIs, GridIs, Zenon
    <3> QED
      BY <3>2
  <2>2. PICK k \in Nat : k = Grid
    BY GridIs
  <2>3. StrategyScore(a, r) = k * n
    BY <1>4, <2>1, <2>2 DEF StrategyScore
  <2> QED
    BY <2>3
<1>5. CASE r.strategy = "LongestValue"
  <2>1. PICK l \in Nat : l = Length[a.value]
    BY PartTypes
  <2> QED
    BY <1>5, <2>1 DEF StrategyScore, One
<1>6. CASE r.strategy = "MostComplete"
  BY <1>6, PartTypes DEF StrategyScore
<1>7. CASE r.strategy = "AIRecommended"
  BY <1>7, BlendType DEF StrategyScore
<1>8. CASE r.strategy = "SemanticSimilarity"
  BY <1>8, BlendType DEF StrategyScore
<1>9. CASE r.strategy = "HybridWeighted"
  BY <1>9, BlendType DEF StrategyScore
<1>10. CASE r.strategy = "Custom"
  BY <1>10 DEF StrategyScore, One
<1> QED
  BY <1>1, <1>2, <1>3, <1>4, <1>5, <1>6, <1>7, <1>8, <1>9, <1>10 DEF Strategies

LEMMA ScoreType ==
  ASSUME NEW a \in Attributes, NEW r \in RuleSet
  PROVE  Score(a, r) \in Int
<1>1. PICK x \in Int : x = StrategyScore(a, r) + Or(a.confidence, 0)
  BY PartTypes, StrategyScoreType
<1>2. PICK n \in Int, k \in Nat : n = Nearest(x, Grid) /\ k = Grid
  <2>1. Nearest(x, Grid) \in Int
    BY NearestIs, GridIs, Zenon
  <2> QED
    BY <2>1, GridIs
<1>3. Score(a, r) \in {x, k * n}
  BY <1>1, <1>2 DEF Score, Rounded
<1> QED
  BY <1>3

-----------------------------------------------------------------------------
(* Positions.                                                              *)

LEMMA PositionsAre ==
  ASSUME NEW es \in Seq(Entities)
  PROVE  /\ IsFiniteSet(Positions(es))
         /\ \A p \in Positions(es) :
              /\ p = <<p[1], p[2]>> /\ p[1] \in Nat /\ p[2] \in Nat
              /\ p[1] \in DOMAIN es /\ p[2] \in DOMAIN es[p[1]].attributes
              /\ At(es, p) \in Attributes
<1>1. PICK n \in Nat : n = Len(es) /\ DOMAIN es = 1..n
  OBVIOUS
<1>2. ASSUME NEW i \in DOMAIN es
      PROVE  es[i].attributes \in Seq(Attributes)
  <2>1. es[i] \in Entities
    OBVIOUS
  <2> QED
    BY <2>1 DEF Entities
<1> DEFINE Row(i) == {i} \X DOMAIN es[i].attributes
           Rows == {Row(i) : i \in DOMAIN es}
<1>3. \A i \in DOMAIN es : IsFiniteSet(Row(i))
  <2> TAKE i \in DOMAIN es
  <2>1. PICK m \in Nat : DOMAIN es[i].attributes = 1..m
    BY <1>2
  <2>2. IsFiniteSet({i})
    BY FS_Singleton
  <2>3. IsFiniteSet(1..m)
    BY FS_Interval
  <2> QED
    BY <2>1, <2>2, <2>3, FS_Product
<1>4. IsFiniteSet(Rows)
  <2>1. PICK f : f = [i \in DOMAIN es |-> Row(i)]
    OBVIOUS
  <2>2. f \in Surjection(DOMAIN es, Rows)
    <3> HIDE DEF Row
    <3> QED
      BY <2>1 DEF Surjection
  <2>3. IsFiniteSet(DOMAIN es)
    BY <1>1, FS_Interval
  <2> QED
    BY <2>2, <2>3, FS_Surjection
<1>5. IsFiniteSet(Positions(es))
  <2>1. Positions(es) = UNION Rows
    BY Zenon DEF Positions
  <2>2. \A R \in Rows : IsFiniteSet(R)
    BY <1>3
  <2> HIDE DEF Rows
  <2> QED
    BY <1>4, <2>1, <2>2, FS_UNION
<1>6. ASSUME NEW p \in Positions(es)
      PROVE  /\ p = <<p[1], p[2]>> /\ p[1] \in Nat /\ p[2] \in Nat
             /\ p[1] \in DOMAIN es /\ p[2] \in DOMAIN es[p[1]].attributes
             /\ At(es, p) \in Attributes
  <2>1. PICK i \in DOMAIN es : p \in {i} \X DOMAIN es[i].attributes
    BY DEF Positions
  <2>2. PICK j \in DOMAIN es[i].attributes : p = <<i, j>>
    BY <2>1
  <2>3. i \in Nat /\ j \in Nat /\ es[i].attributes[j] \in Attributes
    BY <1>1, <1>2, <2>2
  <2>4. p[1] = i /\ p[2] = j
    BY <2>2
  <2> QED
    BY <2>2, <2>3, <2>4 DEF At
<1> QED
  BY <1>5, <1>6

\* Attributes and rules of an execution.
LEMMA ScoreAt ==
  ASSUME NEW es \in Seq(Entities), NEW r \in RuleSet
  PROVE  \A p \in Positions(es) : Score(At(es, p), r) \in Int
BY PositionsAre, ScoreType

LEMMA CandidatesAre ==
  ASSUME NEW es \in Seq(Entities), NEW r \in RuleSet
  PROVE  /\ Candidates(es, r) \subseteq Positions(es)
         /\ IsFiniteSet(Candidates(es, r)) /\ Cardinality(Candidates(es, r)) \in Nat
<1>1. Candidates(es, r) \in SUBSET Positions(es)
  BY DEF Candidates
<1>2. IsFiniteSet(Candidates(es, r))
  BY <1>1, PositionsAre, FS_Subset
<1> QED
  BY <1>1, <1>2, FS_CardinalityType

\* Outranking is a strict total order of the positions.
LEMMA BeforeOrders ==
  ASSUME NEW es \in Seq(Entities),
         NEW p \in Positions(es), NEW q \in Positions(es), NEW s \in Positions(es)
  PROVE  /\ ~Before(p, p)
         /\ Before(p, q) /\ Before(q, s) => Before(p, s)
         /\ p # q => Before(p, q) \/ Before(q, p)
         /\ ~(Before(p, q) /\ Before(q, p))
<1>1. PICK a \in Nat, b \in Nat : p = <<a, b>> /\ a = p[1] /\ b = p[2]
  BY PositionsAre
<1>2. PICK c \in Nat, d \in Nat : q = <<c, d>> /\ c = q[1] /\ d = q[2]
  BY PositionsAre
<1>3. PICK e \in Nat, f \in Nat : s = <<e, f>> /\ e = s[1] /\ f = s[2]
  BY PositionsAre
<1>4. /\ Before(p, p) <=> a < a \/ (a = a /\ b < b)
      /\ Before(p, q) <=> a < c \/ (a = c /\ b < d)
      /\ Before(q, p) <=> c < a \/ (c = a /\ d < b)
      /\ Before(q, s) <=> c < e \/ (c = e /\ d < f)
      /\ Before(p, s) <=> a < e \/ (a = e /\ b < f)
  BY <1>1, <1>2, <1>3 DEF Before
<1>5. p # q => a # c \/ b # d
  BY <1>1, <1>2
<1> QED
  BY <1>4, <1>5

LEMMA OutranksOrders ==
  ASSUME NEW es \in Seq(Entities), NEW r \in RuleSet,
         NEW p \in Positions(es), NEW q \in Positions(es), NEW s \in Positions(es)
  PROVE  /\ ~Outranks(es, r, p, p)
         /\ Outranks(es, r, p, q) /\ Outranks(es, r, q, s) => Outranks(es, r, p, s)
         /\ p # q => Outranks(es, r, p, q) \/ Outranks(es, r, q, p)
         /\ ~(Outranks(es, r, p, q) /\ Outranks(es, r, q, p))
<1>1. PICK x \in Int, y \in Int, z \in Int :
        x = Score(At(es, p), r) /\ y = Score(At(es, q), r) /\ z = Score(At(es, s), r)
  BY ScoreAt
<1>2. /\ Outranks(es, r, p, p) <=> x > x \/ (x = x /\ Before(p, p))
      /\ Outranks(es, r, p, q) <=> x > y \/ (x = y /\ Before(p, q))
      /\ Outranks(es, r, q, p) <=> y > x \/ (y = x /\ Before(q, p))
      /\ Outranks(es, r, q, s) <=> y > z \/ (y = z /\ Before(q, s))
      /\ Outranks(es, r, p, s) <=> x > z \/ (x = z /\ Before(p, s))
  BY <1>1 DEF Outranks
<1> QED
  BY <1>2, BeforeOrders

-----------------------------------------------------------------------------
(* The sort.                                                               *)

\* Places are those of a permutation, and the better candidate has the lower one.
LEMMA PlacesAre ==
  ASSUME NEW es \in Seq(Entities), NEW r \in RuleSet
  PROVE  /\ \A p \in Candidates(es, r) : Place(es, r, p) \in 1..Cardinality(Candidates(es, r))
         /\ \A p, q \in Candidates(es, r) :
              Outranks(es, r, p, q) => Place(es, r, p) < Place(es, r, q)
<1>1. PICK C : C = Candidates(es, r)
  OBVIOUS
<1>2. IsFiniteSet(C) /\ C \subseteq Positions(es)
  BY <1>1, CandidatesAre
<1> DEFINE Better(p) == {q \in C : Outranks(es, r, q, p)}
<1>3. \A p \in C : Place(es, r, p) = 1 + Cardinality(Better(p))
  BY <1>1 DEF Place
<1>4. \A p \in C : Better(p) \in SUBSET (C \ {p})
  BY <1>2, OutranksOrders
<1>5. ASSUME NEW p \in C
      PROVE  /\ IsFiniteSet(Better(p)) /\ Cardinality(Better(p)) \in Nat
             /\ Cardinality(Better(p)) <= Cardinality(C) - 1 /\ Cardinality(C) \in Nat
  <2>1. IsFiniteSet(C \ {p}) /\ Cardinality(C \ {p}) = Cardinality(C) - 1
    BY <1>2, FS_RemoveElement
  <2>2. IsFiniteSet(Better(p)) /\ Cardinality(Better(p)) <= Cardinality(C \ {p})
    <3> HIDE DEF Better
    <3> QED
      BY <1>4, <2>1, FS_Subset
  <2>3. Cardinality(C) \in Nat /\ Cardinality(Better(p)) \in Nat
    BY <1>2, <2>2, FS_CardinalityType
  <2> QED
    BY <2>1, <2>2, <2>3
<1>6. ASSUME NEW p \in C, NEW q \in C, Outranks(es, r, p, q)
      PROVE  Cardinality(Better(p)) < Cardinality(Better(q))
  <2>1. Better(p) \subseteq Better(q) /\ p \in Better(q) /\ p \notin Better(p)
    BY <1>2, <1>6, OutranksOrders
  <2> HIDE DEF Better
  <2>2. Better(p) \cup {p} \in SUBSET Better(q)
    BY <2>1
  <2>3. Cardinality(Better(p) \cup {p}) = Cardinality(Better(p)) + 1
    BY <1>5, <2>1, FS_AddElement
  <2>4. Cardinality(Better(p) \cup {p}) <= Cardinality(Better(q))
    BY <1>5, <2>2, FS_Subset
  <2> QED
    BY <1>5, <2>3, <2>4
<1> HIDE DEF Better
<1>7. \A p \in C : Place(es, r, p) \in 1..Cardinality(C)
  BY <1>3, <1>5
<1>8. \A p, q \in C : Outranks(es, r, p, q) => Place(es, r, p) < Place(es, r, q)
  BY <1>3, <1>5, <1>6
<1> QED
  BY <1>1, <1>7, <1>8

\* Every place is taken by one candidate, and a candidate outranks those behind it.
LEMMA OrderSorts ==
  ASSUME NEW es \in Seq(Entities), NEW r \in RuleSet
  PROVE  /\ \A n \in 1..Cardinality(Candidates(es, r)) : Order(es, r)[n] \in Candidates(es, r)
         /\ \A p \in Candidates(es, r) :
              \E n \in 1..Cardinality(Candidates(es, r)) : Order(es, r)[n] = p
         /\ \A n, m \in 1..Cardinality(Candidates(es, r)) :
              n < m => Outranks(es, r, Order(es, r)[n], Order(es, r)[m])
<1>1. PICK C : C = Candidates(es, r)
  OBVIOUS
<1>2. PICK N \in Nat : N = Cardinality(C)
  BY <1>1, CandidatesAre
<1>3. PICK f : f = [p \in C |-> Place(es, r, p)]
  OBVIOUS
<1>4. /\ \A p \in C : f[p] \in 1..N
      /\ \A p, q \in C : Outranks(es, r, p, q) => f[p] < f[q]
  BY <1>1, <1>2, <1>3, PlacesAre
<1>5. \A p, q \in C : p # q => Outranks(es, r, p, q) \/ Outranks(es, r, q, p)
  BY <1>1, CandidatesAre, OutranksOrders
<1>6. f \in Injection(C, 1..N)
  <2>1. f \in [C -> 1..N]
    BY <1>3, <1>4
  <2>2. ASSUME NEW p \in C, NEW q \in C, p # q PROVE f[p] # f[q]
    <3>1. f[p] \in Nat /\ f[q] \in Nat
      BY <1>4
    <3> QED
      BY <1>4, <1>5, <2>2, <3>1
  <2> QED
    BY <2>1, <2>2 DEF Injection, IsInjective
<1>7. f \in Surjection(C, 1..N)
  <2>1. IsFiniteSet(1..N) /\ Cardinality(1..N) = N
    BY FS_Interval
  <2> QED
    BY <1>2, <1>6, <2>1, FS_Injection
<1>8. ASSUME NEW n \in 1..N
      PROVE  Order(es, r)[n] \in C /\ f[Order(es, r)[n]] = n
  <2>1. \E p \in C : Place(es, r, p) = n
    BY <1>3, <1>7 DEF Surjection
  <2>2. Order(es, r)[n] = CHOOSE p \in C : Place(es, r, p) = n
    BY <1>1, <1>2 DEF Order
  <2> QED
    BY <1>3, <2>1, <2>2
<1>9. \A p \in C : \E n \in 1..N : Order(es, r)[n] = p
  <2> TAKE p \in C
  <2>1. f[p] \in 1..N
    BY <1>4
  <2>2. PICK q : q = Order(es, r)[f[p]]
    OBVIOUS
  <2>3. q \in C /\ f[q] = f[p]
    BY <1>8, <2>1, <2>2
  <2>4. q = p
    BY <1>6, <2>3 DEF Injection, IsInjective
  <2> QED
    BY <2>1, <2>2, <2>4
<1>10. ASSUME NEW n \in 1..N, NEW m \in 1..N, n < m
       PROVE  Outranks(es, r, Order(es, r)[n], Order(es, r)[m])
  <2>1. PICK p, q : p = Order(es, r)[n] /\ q = Order(es, r)[m]
    OBVIOUS
  <2>2. p \in C /\ q \in C /\ f[p] = n /\ f[q] = m
    BY <1>8, <2>1
  <2>3. p # q /\ ~(f[q] < f[p])
    BY <1>10, <2>2
  <2>4. Outranks(es, r, p, q)
    BY <1>4, <1>5, <2>2, <2>3
  <2> QED
    BY <2>1, <2>4
<1> QED
  BY <1>1, <1>2, <1>8, <1>9, <1>10

-----------------------------------------------------------------------------
(* The winner and its margin.                                              *)

\* The ranked candidates, by the positions they stand for.
LEMMA RankedAre ==
  ASSUME NEW es \in Seq(Entities), NEW r \in RuleSet,
         NEW n \in 1..Cardinality(Candidates(es, r))
  PROVE  LET p == Order(es, r)[n]
         IN  /\ p \in Candidates(es, r) /\ p \in Positions(es) /\ p[1] \in DOMAIN es
             /\ At(es, p) \in Attributes /\ es[p[1]].id \in Ids /\ Score(At(es, p), r) \in Int
             /\ Ranked(es, r)[n].entity = es[p[1]].id
             /\ Ranked(es, r)[n].attribute = At(es, p)
             /\ Ranked(es, r)[n].score = Score(At(es, p), r)
<1>1. PICK p : p = Order(es, r)[n]
  OBVIOUS
<1>2. p \in Candidates(es, r) /\ p \in Positions(es)
  BY <1>1, OrderSorts, CandidatesAre
<1>3. p[1] \in DOMAIN es /\ At(es, p) \in Attributes /\ Score(At(es, p), r) \in Int
  BY <1>2, PositionsAre, ScoreAt
<1>4. es[p[1]].id \in Ids
  <2>1. es[p[1]] \in Entities
    BY <1>3
  <2> QED
    BY <2>1 DEF Entities
<1>5. Ranked(es, r)[n] = [entity |-> es[p[1]].id, attribute |-> At(es, p), score |-> Score(At(es, p), r)]
  BY <1>1 DEF Ranked
<1> QED
  BY <1>1, <1>2, <1>3, <1>4, <1>5

LEMMA RankedLength ==
  ASSUME NEW es \in Seq(Entities), NEW r \in RuleSet
  PROVE  /\ Len(Ranked(es, r)) = Cardinality(Candidates(es, r))
         /\ DOMAIN Ranked(es, r) = 1..Cardinality(Candidates(es, r))
         /\ Cardinality(Candidates(es, r)) \in Nat
         /\ Candidates(es, r) # {} => Cardinality(Candidates(es, r)) >= 1
<1>1. PICK N \in Nat : N = Cardinality(Candidates(es, r))
  BY CandidatesAre
<1>2. DOMAIN Ranked(es, r) = 1..N
  BY <1>1 DEF Ranked
<1>3. Len(Ranked(es, r)) = N
  <2>1. PICK s : s = Ranked(es, r)
    OBVIOUS
  <2>2. s = [n \in 1..N |-> s[n]]
    BY <1>1, <2>1 DEF Ranked
  <2> QED
    BY <2>1, <2>2
<1>4. Candidates(es, r) # {} => N # 0
  BY <1>1, CandidatesAre, FS_EmptySet
<1> QED
  BY <1>1, <1>2, <1>3, <1>4

\* The first of the ranked candidates beats every attribute of the rule's key, those
\* below the minimum as well.
LEMMA WinnerIs ==
  ASSUME NEW es \in Seq(Entities), NEW r \in RuleSet, Candidates(es, r) # {},
         NEW w, w = Order(es, r)[1]
  PROVE  /\ 1 \in 1..Cardinality(Candidates(es, r)) /\ w \in Candidates(es, r)
         /\ \A q \in Positions(es) : At(es, q).key = r.attribute /\ q # w => Outranks(es, r, w, q)
<1>1. PICK N \in Nat : N = Cardinality(Candidates(es, r)) /\ N >= 1
  BY RankedLength
<1>2. 1 \in 1..N /\ w \in Candidates(es, r)
  BY <1>1, OrderSorts
<1>3. ASSUME NEW q \in Candidates(es, r), q # w PROVE Outranks(es, r, w, q)
  <2>1. PICK n \in 1..N : Order(es, r)[n] = q
    BY <1>1, OrderSorts
  <2>2. 1 < n
    BY <1>3, <2>1
  <2> QED
    BY <1>1, <1>2, <2>1, <2>2, OrderSorts
<1>4. ASSUME NEW q \in Positions(es), q \notin Candidates(es, r), At(es, q).key = r.attribute
      PROVE  Outranks(es, r, w, q)
  <2>1. PICK m : m = r.minimum_confidence
    OBVIOUS
  <2>2. PICK x \in Int, y \in Int : x = Score(At(es, w), r) /\ y = Score(At(es, q), r)
    BY <1>2, CandidatesAre, ScoreAt
  <2>3. m # None /\ ~(y >= m) /\ x >= m
    BY <1>2, <1>4, <2>1, <2>2 DEF Candidates, Eligible
  <2>4. m \in Int
    BY <2>1, <2>3 DEF RuleSet
  <2>5. x > y
    BY <2>3, <2>4
  <2> QED
    BY <2>2, <2>5 DEF Outranks
<1> QED
  BY <1>1, <1>2, <1>3, <1>4

LEMMA CeilingOf ==
  ASSUME NEW m \in Nat, NEW s \in Nat, s >= One
  PROVE  /\ (m * One + s - 1) \div s \in Nat
         /\ m = 0 => (m * One + s - 1) \div s = 0
         /\ m # 0 => (m * One + s - 1) \div s > 0
<1>1. PICK k \in Nat : k = One /\ k # 0
  BY DEF One
<1>2. PICK t \in Nat : t = m * k
  OBVIOUS
<1>3. s # 0 /\ t + s - 1 \in Nat
  BY <1>1, <1>2
<1>4. PICK u \in Nat : u = t + s - 1
  BY <1>3
<1>5. PICK q \in Nat : q = u \div s
  BY <1>3
<1>6. s * q <= u /\ u < s * (q + 1)
  BY <1>3, <1>5
<1>7. m = 0 => q = 0
  <2> SUFFICES ASSUME m = 0, q >= 1 PROVE FALSE
    OBVIOUS
  <2>1. s * 1 <= s * q
    OBVIOUS
  <2>2. t = 0
    BY <1>2
  <2> QED
    BY <1>4, <1>6, <2>1, <2>2
<1>8. m # 0 => q > 0
  <2> SUFFICES ASSUME m # 0, q = 0 PROVE FALSE
    OBVIOUS
  <2>1. 1 * k <= m * k
    OBVIOUS
  <2>2. u < s
    BY <1>6
  <2> QED
    BY <1>1, <1>2, <1>4, <2>1, <2>2
<1>9. (m * One + s - 1) \div s = q
  BY <1>1, <1>2, <1>4, <1>5
<1> QED
  BY <1>7, <1>8, <1>9

\* A confidence is a share; it is none if the second has the score of the first, and
\* all if there is no second.
LEMMA ConfidenceIs ==
  ASSUME NEW es \in Seq(Entities), NEW r \in RuleSet, Candidates(es, r) # {}
  PROVE  /\ Confidence(Ranked(es, r)) \in 0..One
         /\ Cardinality(Candidates(es, r)) = 1 => Confidence(Ranked(es, r)) = One
         /\ Cardinality(Candidates(es, r)) > 1 =>
              LET x == Score(At(es, Order(es, r)[1]), r)
                  y == Score(At(es, Order(es, r)[2]), r)
              IN  IF x = y THEN Confidence(Ranked(es, r)) = 0 ELSE Confidence(Ranked(es, r)) > 0
<1>1. PICK N \in Nat : N = Cardinality(Candidates(es, r)) /\ N >= 1 /\ N = Len(Ranked(es, r))
  BY RankedLength
<1>2. CASE N = 1
  <2>1. Confidence(Ranked(es, r)) = One
    BY <1>1, <1>2 DEF Confidence
  <2> QED
    BY <1>1, <1>2, <2>1 DEF One
<1>3. CASE N > 1
  <2>1. PICK x, y : x = Score(At(es, Order(es, r)[1]), r) /\ y = Score(At(es, Order(es, r)[2]), r)
    OBVIOUS
  <2>2. 1 \in 1..N /\ 2 \in 1..N
    BY <1>3
  <2>3. x \in Int /\ y \in Int /\ Ranked(es, r)[1].score = x /\ Ranked(es, r)[2].score = y
    BY <1>1, <2>1, <2>2, RankedAre
  <2>4. x >= y
    <3>1. \A n, m \in 1..N : n < m => Outranks(es, r, Order(es, r)[n], Order(es, r)[m])
      BY <1>1, OrderSorts
    <3>2. Outranks(es, r, Order(es, r)[1], Order(es, r)[2])
      BY <2>2, <3>1
    <3> QED
      BY <2>1, <2>3, <3>2 DEF Outranks
  <2>5. PICK s \in Nat : s = Max({x, One})
    BY <2>3, MaxOfTwo DEF One
  <2>6. s >= One
    BY <2>3, <2>5, MaxOfTwo DEF One
  <2>7. PICK m \in Nat : m = x - y
    BY <2>3, <2>4
  <2>8. m = 0 <=> x = y
    BY <2>3, <2>7
  <2>9. PICK q \in Nat : q = (m * One + s - 1) \div s /\ (m = 0 => q = 0) /\ (m # 0 => q > 0)
    BY <2>6, CeilingOf
  <2>10. /\ Confidence(Ranked(es, r)) \in 0..One
         /\ IF x = y THEN Confidence(Ranked(es, r)) = 0 ELSE Confidence(Ranked(es, r)) > 0
    <3>1. Confidence(Ranked(es, r)) = Max({0, Min({q, One})})
      BY <1>1, <1>3, <2>3, <2>5, <2>7, <2>9 DEF Confidence
    <3>2. PICK c \in Nat : c = Min({q, One}) /\ c = IF q <= One THEN q ELSE One
      <4>1. Min({q, One}) = IF q <= One THEN q ELSE One
        BY <2>9, MinOfTwo DEF One
      <4>2. (IF q <= One THEN q ELSE One) \in Nat
        BY <2>9 DEF One
      <4> QED
        BY <4>1, <4>2
    <3>3. Confidence(Ranked(es, r)) = c
      <4>1. Max({0, c}) = IF 0 >= c THEN 0 ELSE c
        BY MaxOfTwo
      <4> QED
        BY <3>1, <3>2, <4>1
    <3>4. c \in 0..One /\ (q = 0 => c = 0) /\ (q > 0 => c > 0)
      <4>1. PICK k \in Nat : k = One /\ k # 0
        BY GridIs
      <4>2. c = IF q <= k THEN q ELSE k
        BY <3>2, <4>1
      <4> QED
        BY <4>1, <4>2
    <3> QED
      BY <2>8, <2>9, <3>3, <3>4
  <2> QED
    BY <1>1, <1>3, <2>1, <2>10
<1> QED
  BY <1>1, <1>2, <1>3

-----------------------------------------------------------------------------
(* What is built for a rule is well formed.                                *)

LEMMA FirstIs ==
  ASSUME NEW es \in Seq(Entities), NEW r \in RuleSet, Candidates(es, r) # {}
  PROVE  /\ Ranked(es, r)[1].entity \in Ids
         /\ Ranked(es, r)[1].attribute \in Attributes
         /\ Ranked(es, r)[1].score \in Int
BY WinnerIs, RankedAre

LEMMA EvaluationType ==
  ASSUME NEW es \in Seq(Entities), NEW r \in RuleSet, Candidates(es, r) # {}
  PROVE  Evaluation(r, Ranked(es, r)) \in Evaluations
<1>1. PICK s : s = Ranked(es, r)
  OBVIOUS
<1>2. s[1].attribute \in Attributes /\ s[1].score \in Int
  BY <1>1, FirstIs
<1>3. s[1].attribute.value \in DOMAIN Length /\ s[1].attribute.source \in STRING
  BY <1>2 DEF Attributes
<1>4. Confidence(s) \in 0..One
  BY <1>1, ConfidenceIs
<1>5. r.attribute \in STRING
  BY DEF RuleSet
<1>6. Evaluation(r, s) \in Evaluations
  BY <1>2, <1>3, <1>4, <1>5 DEF Evaluation, Evaluations
<1> QED
  BY <1>1, <1>6

LEMMA ConflictType ==
  ASSUME NEW es \in Seq(Entities), NEW r \in RuleSet
  PROVE  Conflict(r, Ranked(es, r)) \in Conflicts
<1>1. PICK N \in Nat : N = Cardinality(Candidates(es, r)) /\ DOMAIN Ranked(es, r) = 1..N
  BY RankedLength
<1>2. PICK v : v = [i \in DOMAIN Ranked(es, r) |-> Ranked(es, r)[i].attribute.value]
  OBVIOUS
<1>3. \A i \in 1..N : Ranked(es, r)[i].attribute.value \in DOMAIN Length
  <2> TAKE i \in 1..N
  <2>1. Ranked(es, r)[i].attribute \in Attributes
    BY <1>1, RankedAre
  <2> QED
    BY <2>1 DEF Attributes
<1>4. v \in Seq(DOMAIN Length)
  BY <1>1, <1>2, <1>3
<1>5. r.attribute \in STRING
  BY DEF RuleSet
<1> QED
  BY <1>2, <1>4, <1>5 DEF Conflict, Conflicts

LEMMA DecisionType ==
  ASSUME NEW es \in Seq(Entities), NEW r \in RuleSet, Candidates(es, r) # {}
  PROVE  Decision(r, Ranked(es, r)) \in Decisions
<1>1. PICK s : s = Ranked(es, r)
  OBVIOUS
<1>2. s[1].entity \in Ids /\ s[1].attribute \in Attributes /\ s[1].score \in Int
  BY <1>1, FirstIs
<1>3. s[1].attribute.value \in DOMAIN Length /\ s[1].attribute.source \in STRING
  BY <1>2 DEF Attributes
<1>4. Confidence(s) \in 0..One
  BY <1>1, ConfidenceIs
<1>5. r.attribute \in STRING /\ r.strategy \in Strategies
  BY DEF RuleSet
<1>6. PICK N \in Nat : N = Cardinality(Candidates(es, r)) /\ DOMAIN s = 1..N
  BY <1>1, RankedLength
<1>7. PICK cs : cs = [i \in DOMAIN s |-> [entity |-> s[i].entity, score |-> s[i].score, ai |-> AIScore(s[i])]]
  OBVIOUS
<1> DEFINE Rated == [entity : Ids, score : Int, ai : Int]
<1>8. cs \in Seq(Rated)
  <2>1. ASSUME NEW i \in 1..N
        PROVE  s[i].entity \in Ids /\ s[i].score \in Int /\ AIScore(s[i]) \in Int
    <3>1. s[i].entity \in Ids /\ s[i].score \in Int /\ s[i].attribute \in Attributes
      <4>1. PICK p : p = Order(es, r)[i]
        OBVIOUS
      <4>2. /\ s[i].entity = es[p[1]].id /\ es[p[1]].id \in Ids
            /\ s[i].attribute = At(es, p) /\ At(es, p) \in Attributes
            /\ s[i].score = Score(At(es, p), r) /\ Score(At(es, p), r) \in Int
        BY <1>1, <1>6, <4>1, RankedAre
      <4> QED
        BY <4>2
    <3>2. PICK x \in Int : x = s[i].score
      BY <3>1
    <3>3. PICK y \in Int : y = Or(s[i].attribute.confidence, One \div 2)
      BY <3>1 DEF Attributes, Or, One
    <3>4. AIScore(s[i]) = (x + y) \div 2
      BY <3>2, <3>3 DEF AIScore
    <3> QED
      BY <3>1, <3>4
  <2>2. \A i \in 1..N : cs[i] \in Rated
    BY <1>6, <1>7, <2>1
  <2>3. DOMAIN cs = 1..N /\ cs = [i \in 1..N |-> cs[i]]
    BY <1>6, <1>7
  <2> HIDE DEF Rated
  <2> QED
    BY <2>2, <2>3
<1>9. /\ Policies(s[1]) \in SUBSET {"low_confidence_review_required"}
      /\ Recommendations(s[1]) \in SUBSET {"consider_manual_review"}
  BY DEF Policies, Recommendations
<1>10. Decision(r, s) \in Decisions
  BY <1>2, <1>3, <1>4, <1>5, <1>7, <1>8, <1>9 DEF Decision, Decisions
<1> QED
  BY <1>1, <1>10

\* A golden attribute is the attribute of the winner but for its confidence.
LEMMA GoldenAttributeIs ==
  ASSUME NEW es \in Seq(Entities), NEW r \in RuleSet, NEW n \in Nat, NEW w, NEW g,
         Candidates(es, r) # {} /\ w = Order(es, r)[1] /\ g = GoldenAttribute(n, Ranked(es, r))
  PROVE  /\ g \in Chosen /\ g.rule = n
         /\ g.score = Score(At(es, w), r) /\ g.entity = es[w[1]].id
         /\ g.attribute.confidence = Confidence(Ranked(es, r))
         /\ g.attribute.value = At(es, w).value /\ g.attribute.extracted = At(es, w).extracted
         /\ Len(g.candidates) = Cardinality(Candidates(es, r))
<1>1. PICK s : s = Ranked(es, r)
  OBVIOUS
<1>2. PICK N \in Nat : N = Cardinality(Candidates(es, r)) /\ DOMAIN s = 1..N /\ 1 \in 1..N
  BY <1>1, RankedLength, WinnerIs
<1>3. PICK a : a = At(es, w)
  OBVIOUS
<1>4. /\ s[1].entity = es[w[1]].id /\ s[1].attribute = a /\ s[1].score = Score(a, r)
      /\ a \in Attributes /\ s[1].entity \in Ids /\ s[1].score \in Int
  BY <1>1, <1>2, <1>3, RankedAre
<1>5. PICK c : c = Confidence(s) /\ c \in 0..One
  BY <1>1, ConfidenceIs
<1>6. PICK b : b = [a EXCEPT !.confidence = c]
  OBVIOUS
<1>7. b \in Attributes /\ b.confidence = c /\ b.value = a.value /\ b.extracted = a.extracted
  BY <1>4, <1>5, <1>6 DEF Attributes
<1>8. PICK cs : cs = [i \in DOMAIN s |-> s[i].entity]
  OBVIOUS
<1>9. cs \in Seq(Ids) /\ Len(cs) = N
  <2>1. \A i \in 1..N : s[i].entity \in Ids
    BY <1>1, <1>2, RankedAre
  <2> QED
    BY <1>2, <1>8, <2>1
<1>10. g = [attribute |-> b, entity |-> s[1].entity, rule |-> n, score |-> s[1].score, candidates |-> cs]
  BY <1>1, <1>4, <1>5, <1>6, <1>8, Zenon DEF GoldenAttribute
<1>11. g \in Chosen
  BY <1>4, <1>7, <1>9, <1>10 DEF Chosen
<1>12. g.attribute = b /\ g.rule = n /\ g.entity = s[1].entity /\ g.score = s[1].score /\ g.candidates = cs
  BY <1>10
<1> QED
  BY <1>1, <1>2, <1>3, <1>4, <1>5, <1>7, <1>9, <1>11, <1>12

\* Only its confidence differs from the winner's.
LEMMA GoldenCopies ==
  ASSUME NEW es \in Seq(Entities), NEW r \in RuleSet, NEW n \in Nat, NEW w, NEW g,
         Candidates(es, r) # {} /\ w = Order(es, r)[1] /\ g = GoldenAttribute(n, Ranked(es, r))
  PROVE  [At(es, w) EXCEPT !.confidence = g.attribute.confidence] = g.attribute
<1>1. PICK s, c : s = Ranked(es, r) /\ c = Confidence(s)
  OBVIOUS
<1>2. s[1].attribute = At(es, w)
  BY <1>1, WinnerIs, RankedAre
<1>3. g.attribute = [At(es, w) EXCEPT !.confidence = c]
  BY <1>1, <1>2, Zenon DEF GoldenAttribute
<1>4. g.attribute.confidence = c
  BY <1>1, GoldenAttributeIs
<1> QED
  BY <1>3, <1>4, Zenon

-----------------------------------------------------------------------------
(* The invariant: every golden attribute is what its rule gives, every     *)
(* rule before the next has its evaluation, and the conflicts are counted. *)

Built(g) ==
  /\ g.rule \in 1..(next - 1)
  /\ Candidates(entities, RuleOf(g)) # {}
  /\ g = GoldenAttribute(g.rule, Ranked(entities, RuleOf(g)))

Contested(n) == {i \in 1..n : Cardinality(Candidates(entities, rules[i])) > 1}

Accounted(i) ==
  /\ evaluations[i].attribute = rules[i].attribute
  /\ Candidates(entities, rules[i]) = {} => evaluations[i].warning
  /\ Candidates(entities, rules[i]) # {} =>
       \E j \in DOMAIN attributes :
         attributes[j].rule = i /\ attributes[j].attribute.value = evaluations[i].value

AllBuilt == \A g \in GoldenAttributes : Built(g)
AllAccounted ==
  /\ Len(evaluations) = next - 1
  /\ \A i \in 1..(next - 1) : Accounted(i)
  /\ Len(conflicts) = Cardinality(Contested(next - 1))
RecordComplete ==
  golden # NoRecord /\ entities # <<>> =>
    next = Len(rules) + 1 /\ golden.attributes = attributes /\ golden.conflicts = conflicts

IInv == TypeOK /\ AllBuilt /\ AllAccounted /\ RecordComplete

LEMMA InitHolds == Init => IInv
<1> SUFFICES ASSUME Init PROVE IInv
  OBVIOUS
<1>1. entities \in Seq(Entities) /\ rules \in Seq(RuleSet)
  BY SurvivorshipAssumption DEF Init
<1>2. Len(rules) \in Nat
  BY <1>1
<1>3. TypeOK
  BY <1>1, <1>2 DEF Init, TypeOK
<1>4. AllBuilt
  BY DEF Init, AllBuilt, GoldenAttributes, Range
<1>5. AllAccounted
  <2>1. Contested(0) = {}
    BY DEF Contested
  <2> QED
    BY <2>1, FS_EmptySet DEF Init, AllAccounted
<1>6. RecordComplete
  BY DEF Init, RecordComplete
<1> QED
  BY <1>3, <1>4, <1>5, <1>6 DEF IInv

\* A further rule is one more conflict if it has two candidates.
LEMMA ContestedGrows ==
  ASSUME entities \in Seq(Entities), rules \in Seq(RuleSet), NEW n \in 1..Len(rules)
  PROVE  /\ Cardinality(Contested(n)) =
              Cardinality(Contested(n - 1)) + (IF Cardinality(Candidates(entities, rules[n])) > 1 THEN 1 ELSE 0)
         /\ Cardinality(Contested(n - 1)) \in Nat
<1>1. n \in Nat /\ n >= 1
  BY LenProperties
<1>2. IsFiniteSet(Contested(n - 1)) /\ Contested(n - 1) \subseteq 1..(n - 1)
  <2>1. IsFiniteSet(1..(n - 1))
    BY <1>1, FS_Interval
  <2>2. Contested(n - 1) \in SUBSET (1..(n - 1))
    BY DEF Contested
  <2> QED
    BY <2>1, <2>2, FS_Subset
<1>3. n \notin Contested(n - 1)
  BY <1>1, <1>2
<1>4. CASE Cardinality(Candidates(entities, rules[n])) > 1
  <2>1. Contested(n) = Contested(n - 1) \cup {n}
    BY <1>1, <1>4 DEF Contested
  <2> QED
    BY <1>2, <1>3, <1>4, <2>1, FS_AddElement, FS_CardinalityType
<1>5. CASE ~(Cardinality(Candidates(entities, rules[n])) > 1)
  <2>1. Contested(n) = Contested(n - 1)
    BY <1>1, <1>5 DEF Contested
  <2> QED
    BY <1>2, <1>5, <2>1, FS_CardinalityType
<1> QED
  BY <1>4, <1>5

\* What holds of the rule to be processed.
LEMMA RuleIs ==
  ASSUME IInv, ProcessRule
  PROVE  /\ entities \in Seq(Entities) /\ rules \in Seq(RuleSet)
         /\ next \in Nat /\ next >= 1 /\ next \in 1..Len(rules) /\ Len(rules) \in Nat
         /\ Rule \in RuleSet /\ Rule = rules[next]
<1>1. rules \in Seq(RuleSet) /\ entities \in Seq(Entities)
  BY DEF IInv, TypeOK
<1>2. DOMAIN rules = 1..Len(rules) /\ Len(rules) \in Nat
  BY <1>1
<1>3. next \in 1..Len(rules)
  BY <1>2 DEF ProcessRule
<1>4. rules[next] \in RuleSet
  BY <1>1, <1>3
<1> QED
  BY <1>1, <1>2, <1>3, <1>4 DEF Rule

\* What has been built and accounted for stays so when attributes and evaluations are
\* only appended to.
LEMMA BuiltStays ==
  ASSUME IInv, ProcessRule, UNCHANGED <<entities, rules>>, NEW g, Built(g)
  PROVE  Built(g)'
<1>1. next \in Nat /\ next' = next + 1
  BY RuleIs DEF ProcessRule
<1>2. g.rule \in 1..(next' - 1)
  BY <1>1 DEF Built
<1> QED
  BY <1>2 DEF Built, RuleOf

LEMMA AccountedStays ==
  ASSUME IInv, ProcessRule, UNCHANGED <<entities, rules>>,
         NEW e, evaluations' = Append(evaluations, e),
         \A j \in DOMAIN attributes : j \in DOMAIN attributes' /\ attributes'[j] = attributes[j],
         NEW i \in 1..(next - 1)
  PROVE  Accounted(i)'
<1>1. evaluations \in Seq(Evaluations) /\ Len(evaluations) = next - 1 /\ Accounted(i)
  BY DEF IInv, TypeOK, AllAccounted
<1>2. evaluations'[i] = evaluations[i]
  BY <1>1
<1> QED
  BY <1>1, <1>2 DEF Accounted

LEMMA NoCandidatesHolds == IInv /\ NoCandidates => IInv'
<1> SUFFICES ASSUME IInv, NoCandidates PROVE IInv'
  OBVIOUS
<1>1. ProcessRule /\ UNCHANGED <<entities, rules, attributes, decisions, conflicts, golden>>
  BY DEF NoCandidates
<1>2. PICK n \in Nat : n = next /\ n >= 1 /\ n \in 1..Len(rules) /\ Len(rules) \in Nat
  BY <1>1, RuleIs
<1>3. next' = n + 1 /\ golden = NoRecord
  BY <1>1, <1>2 DEF ProcessRule
<1>4. PICK e : e = [attribute |-> Rule.attribute, value |-> Null, source |-> None, confidence |-> 0,
                    score |-> 0, warning |-> TRUE]
  OBVIOUS
<1>5. evaluations' = Append(evaluations, e) /\ Candidates(entities, rules[n]) = {}
  BY <1>2, <1>4 DEF NoCandidates, Rule
<1>6. e \in Evaluations /\ e.attribute = rules[n].attribute /\ e.warning
  <2>1. Rule.attribute \in STRING
    BY <1>1, RuleIs DEF RuleSet
  <2>2. Null \in DOMAIN Length
    BY SurvivorshipAssumption
  <2>3. e \in Evaluations
    BY <1>4, <2>1, <2>2 DEF Evaluations, One
  <2>4. e.attribute = rules[n].attribute
    BY <1>2, <1>4 DEF Rule
  <2>5. e.warning
    BY <1>4
  <2> QED
    BY <2>3, <2>4, <2>5
<1>7. evaluations \in Seq(Evaluations) /\ Len(evaluations) = n - 1
  BY <1>2 DEF IInv, TypeOK, AllAccounted
<1>8. /\ evaluations' \in Seq(Evaluations) /\ Len(evaluations') = n
      /\ evaluations'[n] = e
  BY <1>2, <1>5, <1>6, <1>7, AppendProperties
<1>9. TypeOK'
  BY <1>1, <1>2, <1>3, <1>8 DEF IInv, TypeOK
<1>10. AllBuilt'
  <2>1. \A g : Built(g) => Built(g)'
    BY <1>1, BuiltStays
  <2>2. GoldenAttributes' = GoldenAttributes
    BY <1>1 DEF GoldenAttributes
  <2> QED
    BY <2>1, <2>2 DEF IInv, AllBuilt
<1>11. AllAccounted'
  <2>1. \A i \in 1..(n - 1) : Accounted(i)'
    BY <1>1, <1>2, <1>5, AccountedStays
  <2>2. Accounted(n)'
    BY <1>1, <1>5, <1>6, <1>8 DEF Accounted
  <2>3. \A i \in 1..n : i \in 1..(n - 1) \/ i = n
    BY <1>2
  <2>4. Cardinality(Contested(n)) = Cardinality(Contested(n - 1))
    <3>1. Cardinality(Candidates(entities, rules[n])) = 0
      BY <1>5, FS_EmptySet
    <3>2. /\ Cardinality(Contested(n)) =
                Cardinality(Contested(n - 1)) + (IF Cardinality(Candidates(entities, rules[n])) > 1 THEN 1 ELSE 0)
          /\ Cardinality(Contested(n - 1)) \in Nat
      BY <1>2, ContestedGrows DEF IInv, TypeOK
    <3> QED
      BY <3>1, <3>2
  <2>5. Contested(n)' = Contested(n)
    BY <1>1 DEF Contested
  <2>6. Len(conflicts') = Cardinality(Contested(n)')
    BY <1>1, <1>2, <2>4, <2>5 DEF IInv, AllAccounted
  <2>7. next' - 1 = n
    BY <1>2, <1>3
  <2> QED
    BY <1>8, <2>1, <2>2, <2>3, <2>6, <2>7 DEF AllAccounted
<1>12. RecordComplete'
  BY <1>1, <1>3 DEF RecordComplete
<1> QED
  BY <1>9, <1>10, <1>11, <1>12 DEF IInv

LEMMA SelectWinnerHolds == IInv /\ SelectWinner => IInv'
<1> SUFFICES ASSUME IInv, SelectWinner PROVE IInv'
  OBVIOUS
<1>1. ProcessRule /\ UNCHANGED <<entities, rules, golden>>
  BY DEF SelectWinner
<1>2. PICK n \in Nat : n = next /\ n >= 1 /\ n \in 1..Len(rules) /\ Len(rules) \in Nat
  BY <1>1, RuleIs
<1>3. next' = n + 1 /\ golden = NoRecord
  BY <1>1, <1>2 DEF ProcessRule
<1>4. PICK r \in RuleSet : r = Rule /\ r = rules[n]
  BY <1>1, <1>2, RuleIs
<1>5. entities \in Seq(Entities) /\ Candidates(entities, r) # {}
  BY <1>4 DEF IInv, TypeOK, SelectWinner
<1>6. PICK s : s = Ranked(entities, r)
  OBVIOUS
<1>7. PICK g, e, d, k : /\ g = GoldenAttribute(n, s) /\ e = Evaluation(r, s)
                        /\ d = Decision(r, s) /\ k = Conflict(r, s)
  OBVIOUS
<1>8. /\ conflicts' = IF Len(s) > 1 THEN Append(conflicts, k) ELSE conflicts
      /\ decisions' = Append(decisions, d)
      /\ evaluations' = Append(evaluations, e)
      /\ attributes' = Append(attributes, g)
  BY <1>2, <1>4, <1>6, <1>7 DEF SelectWinner
<1>9. e \in Evaluations /\ d \in Decisions /\ k \in Conflicts
  BY <1>5, <1>6, <1>7, EvaluationType, DecisionType, ConflictType
<1>10. /\ g \in Chosen /\ g.rule = n /\ g.attribute.confidence \in 0..One
       /\ e.attribute = r.attribute /\ e.value = g.attribute.value
  <2>1. PICK w : w = Order(entities, r)[1]
    OBVIOUS
  <2>2. /\ g \in Chosen /\ g.rule = n /\ g.attribute.confidence = Confidence(s)
        /\ g.attribute.value = At(entities, w).value
    <3>1. g = GoldenAttribute(n, Ranked(entities, r))
      BY <1>6, <1>7
    <3>2. n \in Nat
      BY <1>2
    <3>3. /\ g \in Chosen /\ g.rule = n
          /\ g.attribute.confidence = Confidence(Ranked(entities, r))
          /\ g.attribute.value = At(entities, w).value
      BY <1>5, <2>1, <3>1, <3>2, GoldenAttributeIs
    <3> QED
      BY <1>6, <3>3
  <2>3. Confidence(s) \in 0..One
    BY <1>5, <1>6, ConfidenceIs
  <2>4. s[1].attribute = At(entities, w)
    BY <1>5, <1>6, <2>1, WinnerIs, RankedAre
  <2>5. e.attribute = r.attribute /\ e.value = s[1].attribute.value
    BY <1>7 DEF Evaluation
  <2> QED
    BY <2>2, <2>3, <2>4, <2>5
<1>11. /\ evaluations \in Seq(Evaluations) /\ decisions \in Seq(Decisions)
       /\ conflicts \in Seq(Conflicts) /\ attributes \in Seq(Chosen)
       /\ Len(evaluations) = n - 1 /\ Len(conflicts) = Cardinality(Contested(n - 1))
       /\ \A i \in DOMAIN attributes : attributes[i].attribute.confidence \in 0..One
  BY <1>2 DEF IInv, TypeOK, AllAccounted
<1>12. evaluations' \in Seq(Evaluations) /\ Len(evaluations') = n /\ evaluations'[n] = e
  BY <1>2, <1>8, <1>9, <1>11, AppendProperties
<1>13. decisions' \in Seq(Decisions)
  BY <1>8, <1>9, <1>11, AppendProperties
<1>14. conflicts' \in Seq(Conflicts) /\ Len(conflicts') = Len(conflicts) + (IF Len(s) > 1 THEN 1 ELSE 0)
  BY <1>8, <1>9, <1>11, AppendProperties
<1>15. PICK m \in Nat : m = Len(attributes) /\ DOMAIN attributes = 1..m
  BY <1>11
<1>16. /\ attributes' \in Seq(Chosen) /\ DOMAIN attributes' = 1..(m + 1)
       /\ attributes'[m + 1] = g /\ \A j \in 1..m : attributes'[j] = attributes[j]
  BY <1>8, <1>10, <1>11, <1>15
<1>17. \A j \in DOMAIN attributes' : j \in DOMAIN attributes \/ attributes'[j] = g
  BY <1>15, <1>16
<1>18. TypeOK'
  <2>1. \A j \in DOMAIN attributes' : attributes'[j].attribute.confidence \in 0..One
    BY <1>10, <1>11, <1>15, <1>16, <1>17
  <2>2. next' \in 1..(Len(rules') + 1)
    BY <1>1, <1>2, <1>3
  <2>3. entities' \in Seq(Entities) /\ rules' \in Seq(RuleSet)
    BY <1>1 DEF IInv, TypeOK
  <2> QED
    BY <1>12, <1>13, <1>14, <1>16, <2>1, <2>2, <2>3 DEF TypeOK
<1>19. AllBuilt'
  <2>1. \A x : Built(x) => Built(x)'
    BY <1>1, BuiltStays
  <2>2. Built(g)'
    <3>1. g.rule \in 1..(next' - 1)
      BY <1>2, <1>3, <1>10
    <3>2. RuleOf(g)' = r
      BY <1>1, <1>4, <1>10 DEF RuleOf
    <3>3. Candidates(entities, r)' # {} /\ Candidates(entities, r)' = Candidates(entities, r)
      BY <1>1, <1>5
    <3>4. g = GoldenAttribute(g.rule, Ranked(entities', r))
      BY <1>1, <1>6, <1>7, <1>10
    <3> QED
      BY <1>1, <1>5, <3>1, <3>2, <3>4 DEF Built
  <2>3. GoldenAttributes' \subseteq GoldenAttributes \cup {g}
    BY <1>15, <1>16, <1>17 DEF GoldenAttributes, Range
  <2> QED
    BY <2>1, <2>2, <2>3 DEF IInv, AllBuilt
<1>20. AllAccounted'
  <2>1. \A j \in DOMAIN attributes : j \in DOMAIN attributes' /\ attributes'[j] = attributes[j]
    BY <1>15, <1>16
  <2>2. \A i \in 1..(n - 1) : Accounted(i)'
    BY <1>1, <1>2, <1>8, <2>1, AccountedStays
  <2>3. Accounted(n)'
    <3>1. m + 1 \in DOMAIN attributes'
      BY <1>15, <1>16
    <3> QED
      BY <1>1, <1>4, <1>5, <1>10, <1>12, <1>16, <3>1 DEF Accounted
  <2>4. \A i \in 1..n : i \in 1..(n - 1) \/ i = n
    BY <1>2
  <2>5. /\ Cardinality(Contested(n)) =
              Cardinality(Contested(n - 1)) + (IF Cardinality(Candidates(entities, r)) > 1 THEN 1 ELSE 0)
        /\ Cardinality(Contested(n - 1)) \in Nat
    BY <1>2, <1>4, ContestedGrows DEF IInv, TypeOK
  <2>6. Len(s) = Cardinality(Candidates(entities, r))
    BY <1>5, <1>6, RankedLength
  <2>7. Contested(n)' = Contested(n)
    BY <1>1 DEF Contested
  <2>8. Len(conflicts') = Cardinality(Contested(n)')
    BY <1>11, <1>14, <2>5, <2>6, <2>7
  <2>9. next' - 1 = n
    BY <1>2, <1>3
  <2> QED
    BY <1>12, <2>2, <2>3, <2>4, <2>8, <2>9 DEF AllAccounted
<1>21. RecordComplete'
  BY <1>1, <1>3 DEF RecordComplete
<1> QED
  BY <1>18, <1>19, <1>20, <1>21 DEF IInv

\* Everything but the record stays as it is.
LEMMA RecordStepHolds ==
  ASSUME IInv, UNCHANGED <<entities, rules, next, attributes, decisions, evaluations, conflicts>>,
         RecordComplete'
  PROVE  IInv'
<1>1. TypeOK'
  BY DEF IInv, TypeOK
<1>2. AllBuilt'
  BY DEF IInv, AllBuilt, Built, RuleOf, GoldenAttributes
<1>3. AllAccounted'
  BY DEF IInv, AllAccounted, Accounted, Contested
<1> QED
  BY <1>1, <1>2, <1>3 DEF IInv

LEMMA StepHolds == IInv /\ [Next]_vars => IInv'
<1> SUFFICES ASSUME IInv, [Next]_vars PROVE IInv'
  OBVIOUS
<1>1. CASE NoCandidates
  BY <1>1, NoCandidatesHolds
<1>2. CASE SelectWinner
  BY <1>2, SelectWinnerHolds
<1>3. CASE BuildRecord
  <2>1. UNCHANGED <<entities, rules, next, attributes, decisions, evaluations, conflicts>>
    BY <1>3 DEF BuildRecord
  <2>2. golden'.attributes = attributes /\ golden'.conflicts = conflicts
    BY <1>3 DEF BuildRecord
  <2>3. next = Len(rules) + 1
    <3>1. next \in 1..(Len(rules) + 1) /\ rules \in Seq(RuleSet)
      BY DEF IInv, TypeOK
    <3>2. next > Len(rules)
      BY <1>3 DEF BuildRecord
    <3> QED
      BY <3>1, <3>2
  <2>4. RecordComplete'
    BY <2>1, <2>2, <2>3 DEF RecordComplete
  <2> QED
    BY <2>1, <2>4, RecordStepHolds
<1>4. CASE BuildEmptyRecord
  <2>1. UNCHANGED <<entities, rules, next, attributes, decisions, evaluations, conflicts>>
    BY <1>4 DEF BuildEmptyRecord
  <2>2. RecordComplete'
    BY <1>4, <2>1 DEF BuildEmptyRecord, RecordComplete
  <2> QED
    BY <2>1, <2>2, RecordStepHolds
<1>5. CASE UNCHANGED vars
  <2>1. UNCHANGED <<entities, rules, next, attributes, decisions, evaluations, conflicts, golden>>
    BY <1>5 DEF vars
  <2>2. RecordComplete'
    BY <2>1 DEF IInv, RecordComplete
  <2> QED
    BY <2>1, <2>2, RecordStepHolds
<1> QED
  BY <1>1, <1>2, <1>3, <1>4, <1>5 DEF Next

\* The invariant holds of every execution.
THEOREM Invariance == Spec => []IInv
<1> QED
  BY InitHolds, StepHolds, PTL DEF Spec

\* Everything that is built for a merge is well formed, and its confidences are shares.
THEOREM TypeCorrect == Spec => []TypeOK
<1>1. IInv => TypeOK
  BY DEF IInv
<1> QED
  BY <1>1, Invariance, PTL

-----------------------------------------------------------------------------
(* What is returned: the properties.                                       *)

\* The position a golden attribute was taken from.
WinnerOf(g) == Order(entities, RuleOf(g))[1]

LEMMA ChoiceIs ==
  ASSUME IInv, NEW g \in GoldenAttributes
  PROVE  /\ entities \in Seq(Entities) /\ RuleOf(g) \in RuleSet
         /\ g.rule \in 1..(next - 1)
         /\ Candidates(entities, RuleOf(g)) # {}
         /\ g = GoldenAttribute(g.rule, Ranked(entities, RuleOf(g)))
<1>1. entities \in Seq(Entities) /\ rules \in Seq(RuleSet) /\ next \in 1..(Len(rules) + 1)
  BY DEF IInv, TypeOK
<1>2. Built(g)
  BY DEF IInv, AllBuilt
<1>3. g.rule \in 1..(next - 1) /\ g.rule \in DOMAIN rules
  BY <1>1, <1>2 DEF Built
<1>4. RuleOf(g) \in RuleSet
  BY <1>1, <1>3 DEF RuleOf
<1> QED
  BY <1>1, <1>2, <1>3, <1>4 DEF Built

\* It was taken from the contender that outranks every other.
LEMMA ChoiceWins ==
  ASSUME IInv, NEW g \in GoldenAttributes
  PROVE  /\ WinnerOf(g) \in Contenders(RuleOf(g)) /\ WinnerOf(g) \in Positions(entities)
         /\ From(g, WinnerOf(g))
         /\ g.score = Score(At(entities, WinnerOf(g)), RuleOf(g))
         /\ g.attribute.extracted = At(entities, WinnerOf(g)).extracted
         /\ \A q \in Contenders(RuleOf(g)) :
              q # WinnerOf(g) => Outranks(entities, RuleOf(g), WinnerOf(g), q)
<1>1. PICK r, w : r = RuleOf(g) /\ w = WinnerOf(g)
  OBVIOUS
<1>2. /\ entities \in Seq(Entities) /\ r \in RuleSet /\ Candidates(entities, r) # {}
      /\ g.rule \in Nat /\ g = GoldenAttribute(g.rule, Ranked(entities, r))
      /\ w = Order(entities, r)[1]
  BY <1>1, ChoiceIs DEF WinnerOf
<1>3. w \in Candidates(entities, r)
  BY <1>2, WinnerIs
<1>4. w \in Positions(entities) /\ At(entities, w).key = r.attribute
  BY <1>3 DEF Candidates, Eligible
<1>5. /\ g.score = Score(At(entities, w), r) /\ g.entity = entities[w[1]].id
      /\ g.attribute.extracted = At(entities, w).extracted
  BY <1>2, GoldenAttributeIs
<1>6. [At(entities, w) EXCEPT !.confidence = g.attribute.confidence] = g.attribute
  BY <1>2, GoldenCopies
<1>7. \A q \in Positions(entities) : At(entities, q).key = r.attribute /\ q # w => Outranks(entities, r, w, q)
  BY <1>2, WinnerIs
<1>8. From(g, w)
  BY <1>5, <1>6, Zenon DEF From
<1> QED
  BY <1>1, <1>4, <1>5, <1>7, <1>8 DEF Contenders

\* No attribute is beaten by a worse one, nor by an equal one that comes later in the
\* merge.
LEMMA BestHolds == IInv => BestSurvives
<1> SUFFICES ASSUME IInv, NEW g \in GoldenAttributes
             PROVE  \E p \in Contenders(RuleOf(g)) :
                      /\ From(g, p)
                      /\ g.score = Score(At(entities, p), RuleOf(g))
                      /\ \A q \in Contenders(RuleOf(g)) :
                           \/ Score(At(entities, q), RuleOf(g)) < g.score
                           \/ Score(At(entities, q), RuleOf(g)) = g.score /\ ~Before(q, p)
  BY DEF BestSurvives
<1>1. PICK r, w : r = RuleOf(g) /\ w = WinnerOf(g)
  OBVIOUS
<1>2. entities \in Seq(Entities) /\ r \in RuleSet /\ w \in Contenders(r) /\ w \in Positions(entities)
  BY <1>1, ChoiceIs, ChoiceWins
<1>3. ASSUME NEW q \in Contenders(r)
      PROVE  \/ Score(At(entities, q), r) < g.score
             \/ Score(At(entities, q), r) = g.score /\ ~Before(q, w)
  <2>1. q \in Positions(entities)
    BY DEF Contenders
  <2>2. /\ Score(At(entities, q), r) \in Int /\ Score(At(entities, w), r) \in Int
        /\ g.score = Score(At(entities, w), r)
    BY <1>1, <1>2, <2>1, ScoreAt, ChoiceWins
  <2>3. ~Before(w, w) /\ ~(Before(w, q) /\ Before(q, w))
    BY <1>2, <2>1, BeforeOrders
  <2>4. q # w => Outranks(entities, r, w, q)
    BY <1>1, ChoiceWins
  <2> QED
    BY <2>2, <2>3, <2>4 DEF Outranks
<1> QED
  BY <1>1, <1>2, <1>3, ChoiceWins

\* The surviving entity keeps its value unless a better one is found (the stable sort
\* of engine.rs:244).
THEOREM BestCorrect == Spec => []BestSurvives
<1> QED
  BY BestHolds, Invariance, PTL

LEMMA TrustedScore ==
  ASSUME NEW a \in Attributes, NEW r \in RuleSet, r.strategy = "TrustedSource"
  PROVE  Score(a, r) = Priority(r, a.source) * One + Or(a.confidence, 0)
BY DEF Score, Rounded, StrategyScore

\* A winner of a TrustedSource rule makes up in confidence for the ranks it is behind.
LEMMA PriorityHolds ==
  ASSUME IInv, NEW g \in GoldenAttributes
  PROVE  PriorityHonoured(g)
<1>1. PICK r, w : r = RuleOf(g) /\ w = WinnerOf(g)
  OBVIOUS
<1>2. entities \in Seq(Entities) /\ r \in RuleSet /\ w \in Contenders(r) /\ w \in Positions(entities)
  BY <1>1, ChoiceIs, ChoiceWins
<1>3. PICK a : a = At(entities, w) /\ a \in Attributes
  BY <1>2, PositionsAre
<1>4. ASSUME r.strategy = "TrustedSource", NEW q \in Contenders(r), NEW lead, NEW surplus,
             lead = Priority(r, At(entities, q).source) - Priority(r, a.source),
             surplus = Or(a.confidence, 0) - Or(At(entities, q).confidence, 0)
      PROVE  lead * One < surplus \/ (lead * One = surplus /\ ~Before(q, w))
  <2>1. q \in Positions(entities)
    BY DEF Contenders
  <2>2. PICK b : b = At(entities, q) /\ b \in Attributes
    BY <1>2, <2>1, PositionsAre
  <2>3. PICK x \in Nat, y \in Nat : x = Priority(r, a.source) /\ y = Priority(r, b.source)
    BY <1>2, PriorityType
  <2>4. PICK c \in Int, d \in Int : c = Or(a.confidence, 0) /\ d = Or(b.confidence, 0)
    BY <1>3, <2>2, PartTypes
  <2>5. PICK k \in Nat : k = One
    BY GridIs
  <2>6. Score(a, r) = x * k + c /\ Score(b, r) = y * k + d
    BY <1>2, <1>3, <1>4, <2>2, <2>3, <2>4, <2>5, TrustedScore
  <2>7. PICK u \in Int, v \in Int : u = x * k /\ v = y * k
    OBVIOUS
  <2>8. lead * One = v - u /\ surplus = c - d
    BY <1>4, <2>2, <2>3, <2>4, <2>5, <2>7
  <2>9. ~Before(w, w) /\ ~(Before(w, q) /\ Before(q, w))
    BY <1>2, <2>1, BeforeOrders
  <2>10. CASE q = w
    <3>1. v = u /\ c = d
      BY <1>3, <2>2, <2>3, <2>4, <2>7, <2>10
    <3> QED
      BY <2>8, <2>9, <2>10, <3>1
  <2>11. CASE q # w
    <3>1. u + c > v + d \/ (u + c = v + d /\ Before(w, q))
      BY <1>1, <1>3, <2>2, <2>6, <2>7, <2>11, ChoiceWins DEF Outranks
    <3>2. v - u < c - d \/ (v - u = c - d /\ Before(w, q))
      BY <3>1
    <3> QED
      BY <2>8, <2>9, <3>2
  <2> QED
    BY <2>10, <2>11
<1> QED
  BY <1>1, <1>2, <1>3, <1>4, ChoiceWins DEF PriorityHonoured

\* A score of a MostRecent rule is the time and the confidence, but for the precision
\* of an f32; of a confidence that is absorbed nothing is left beside a timestamp.
LEMMA RecentScore ==
  ASSUME NEW a \in Attributes, NEW r \in RuleSet, r.strategy = "MostRecent"
  PROVE  /\ Score(a, r) - (UnixTime(a) * One + Or(a.confidence, 0)) \in (-Grid)..Grid
         /\ a.extracted = None => Score(a, r) = Or(a.confidence, 0)
         /\ a.extracted # None /\ Absorbed(a) =>
              Score(a, r) = Grid * Nearest(UnixTime(a), Ulp)
<1>1. PICK k \in Nat, h \in Nat, o \in Nat : /\ k = Ulp /\ h = Grid /\ o = One
                                            /\ k # 0 /\ h # 0 /\ o # 0 /\ h = k * o
  BY GridIs DEF Grid
<1>2. PICK t \in Nat, c \in Int : t = UnixTime(a) /\ c = Or(a.confidence, 0)
  BY UnixTimeType, PartTypes
<1>3. PICK n \in Int : /\ n = Nearest(t, k)
                       /\ 2 * (k * n) <= 2 * t + k /\ 2 * t - k <= 2 * (k * n)
  <2>1. t \in Int
    OBVIOUS
  <2> QED
    BY <1>1, <2>1, NextTo, Zenon
<1>4. StrategyScore(a, r) = h * n
  BY <1>1, <1>2, <1>3 DEF StrategyScore
<1>5. CASE a.extracted = None
  <2>1. t = 0
    BY <1>2, <1>5, UnixTimeType
  <2>2. n = 0
    BY <1>1, <1>3, <2>1 DEF Nearest
  <2>3. h * n = 0 /\ t * o = 0
    BY <2>1, <2>2
  <2>4. Score(a, r) = c
    BY <1>2, <1>4, <1>5, <2>3 DEF Score, Rounded
  <2>5. Score(a, r) - (t * o + c) = 0 /\ 0 \in (-h)..h
    BY <2>3, <2>4
  <2> QED
    BY <1>1, <1>2, <1>5, <2>4, <2>5
<1>6. CASE a.extracted # None
  <2>1. PICK x \in Int : x = h * n
    OBVIOUS
  <2>2. PICK m \in Int : /\ m = Nearest(x + c, h)
                         /\ 2 * (h * m) <= 2 * (x + c) + h /\ 2 * (x + c) - h <= 2 * (h * m)
    <3>1. PICK i \in Int : i = x + c
      OBVIOUS
    <3>2. PICK m \in Int : /\ m = Nearest(i, h)
                           /\ 2 * (h * m) <= 2 * i + h /\ 2 * i - h <= 2 * (h * m)
      BY <1>1, NextTo
    <3> QED
      BY <3>1, <3>2
  <2>3. Score(a, r) = h * m
    BY <1>1, <1>2, <1>4, <1>6, <2>1, <2>2 DEF Score, Rounded
  <2>4. PICK y \in Int, z \in Int, e \in Int : y = k * n /\ z = t * o /\ e = h * m
    OBVIOUS
  <2>5. x = o * y /\ 2 * x <= 2 * z + h /\ 2 * z - h <= 2 * x
    <3>1. x = o * y
      BY <1>1, <2>1, <2>4
    <3>2. 2 * y <= 2 * t + k /\ 2 * t - k <= 2 * y
      BY <1>3, <2>4
    <3>3. o * (2 * y) <= o * (2 * t + k) /\ o * (2 * t - k) <= o * (2 * y)
      BY <1>1, <3>2, MultiplesApart
    <3>4. /\ o * (2 * y) = 2 * x /\ o * (2 * t + k) = 2 * z + h
          /\ o * (2 * t - k) = 2 * z - h
      BY <1>1, <2>4, <3>1
    <3> QED
      BY <3>1, <3>3, <3>4
  <2>6. e - (z + c) \in (-h)..h
    BY <2>2, <2>4, <2>5
  <2>7. ASSUME Absorbed(a) PROVE m = n
    <3>1. 1 - h <= 2 * c /\ 2 * c <= h - 1
      BY <1>1, <1>2, <2>7 DEF Absorbed
    <3>2. e < x + h /\ x < e + h
      BY <2>2, <2>4, <3>1
    <3>3. m <= n /\ n <= m
      BY <1>1, <2>1, <2>4, <3>2, MultiplesApart
    <3> QED
      BY <3>3
  <2> QED
    BY <1>1, <1>2, <1>3, <1>6, <2>3, <2>4, <2>6, <2>7
<1> QED
  BY <1>5, <1>6

\* With absorbed confidences the order is that of the times, to the precision of an f32.
LEMMA AbsorbedOrder ==
  ASSUME NEW a \in Attributes, NEW b \in Attributes,
         NEW r \in RuleSet, r.strategy = "MostRecent",
         Absorbed(a), Absorbed(b), Score(a, r) >= Score(b, r)
  PROVE  /\ UnixTime(b) - UnixTime(a) <= Ulp
         /\ b.extracted # None => a.extracted # None
<1>1. PICK k \in Nat, h \in Nat : k = Ulp /\ h = Grid /\ k # 0 /\ h # 0
  BY GridIs
<1>2. PICK t \in Nat, u \in Nat : t = UnixTime(a) /\ u = UnixTime(b)
  BY UnixTimeType
<1>3. CASE b.extracted = None
  BY <1>1, <1>2, <1>3, UnixTimeType
<1>4. CASE b.extracted # None
  <2>1. PICK n \in Int : /\ n = Nearest(u, k) /\ Score(b, r) = h * n
                         /\ 2 * u - k <= 2 * (k * n)
    <3>1. Score(b, r) = h * Nearest(u, k)
      BY <1>1, <1>2, <1>4, RecentScore
    <3>2. PICK n \in Int : n = Nearest(u, k) /\ 2 * u - k <= 2 * (k * n)
      BY <1>1, NextTo
    <3> QED
      BY <3>1, <3>2
  <2>2. u >= k
    BY <1>1, <1>2, <1>4, UnixTimeType
  <2>3. n >= 1
    <3>1. PICK y \in Int : y = k * n
      OBVIOUS
    <3>2. k * 1 < k * n + k
      BY <1>1, <2>1, <2>2, <3>1
    <3> QED
      BY <1>1, <3>2, MultiplesApart
  <2>4. h * 1 <= h * n
    BY <1>1, <2>3, MultiplesApart
  <2>5. a.extracted # None
    <3>1. SUFFICES ASSUME a.extracted = None PROVE FALSE
      OBVIOUS
    <3>2. PICK c \in Int : c = Or(a.confidence, 0) /\ Score(a, r) = c
      BY <3>1, RecentScore, PartTypes
    <3>3. 2 * c <= h - 1
      BY <1>1, <3>2 DEF Absorbed
    <3>4. c >= h * n
      BY <2>1, <3>2
    <3>5. PICK z \in Int : z = h * n
      OBVIOUS
    <3> QED
      BY <1>1, <2>4, <3>3, <3>4, <3>5
  <2>6. PICK m \in Int : /\ m = Nearest(t, k) /\ Score(a, r) = h * m
                         /\ 2 * (k * m) <= 2 * t + k
    <3>1. Score(a, r) = h * Nearest(t, k)
      BY <1>1, <1>2, <2>5, RecentScore
    <3>2. PICK m \in Int : m = Nearest(t, k) /\ 2 * (k * m) <= 2 * t + k
      BY <1>1, NextTo
    <3> QED
      BY <3>1, <3>2
  <2>7. n <= m
    <3>1. h * n <= h * m
      <4>1. PICK x \in Int, y \in Int : x = h * m /\ y = h * n
        OBVIOUS
      <4> QED
        BY <2>1, <2>6, <4>1
    <3> QED
      BY <1>1, <3>1, MultiplesApart
  <2>8. k * n <= k * m
    BY <1>1, <2>7, MultiplesApart
  <2>9. u - t <= k
    <3>1. PICK x \in Int, y \in Int : x = k * m /\ y = k * n
      OBVIOUS
    <3> QED
      BY <2>1, <2>6, <2>8, <3>1
  <2> QED
    BY <1>1, <1>2, <2>5, <2>9
<1> QED
  BY <1>3, <1>4

\* Otherwise a confidence counts as so many seconds.
LEMMA TimedOrder ==
  ASSUME NEW a \in Attributes, NEW b \in Attributes,
         NEW r \in RuleSet, r.strategy = "MostRecent", Score(a, r) >= Score(b, r)
  PROVE  (UnixTime(b) - UnixTime(a)) * One
           <= Or(a.confidence, 0) - Or(b.confidence, 0) + 2 * Grid
<1>1. PICK h \in Nat, o \in Nat : h = Grid /\ o = One
  BY GridIs
<1>2. PICK t \in Nat, u \in Nat : t = UnixTime(a) /\ u = UnixTime(b)
  BY UnixTimeType
<1>3. PICK c \in Int, d \in Int : c = Or(a.confidence, 0) /\ d = Or(b.confidence, 0)
  BY PartTypes
<1>4. PICK x \in Int, y \in Int : x = Score(a, r) /\ y = Score(b, r) /\ x >= y
  BY ScoreType
<1>5. PICK v \in Int, w \in Int : v = t * o /\ w = u * o
  OBVIOUS
<1>6. x - (v + c) \in (-h)..h /\ y - (w + d) \in (-h)..h
  BY <1>1, <1>2, <1>3, <1>4, <1>5, RecentScore
<1>7. (u - t) * o = w - v
  BY <1>5
<1>8. w - v <= c - d + 2 * h
  BY <1>4, <1>6
<1> QED
  BY <1>1, <1>2, <1>3, <1>7, <1>8

LEMMA RecentHolds ==
  ASSUME IInv, NEW g \in GoldenAttributes
  PROVE  RecentHonoured(g)
<1>1. PICK r, w : r = RuleOf(g) /\ w = WinnerOf(g)
  OBVIOUS
<1>2. entities \in Seq(Entities) /\ r \in RuleSet /\ w \in Contenders(r) /\ w \in Positions(entities)
  BY <1>1, ChoiceIs, ChoiceWins
<1>3. PICK a : a = At(entities, w) /\ a \in Attributes
  BY <1>2, PositionsAre
<1>4. ASSUME r.strategy = "MostRecent", NEW q \in Contenders(r), NEW b, b = At(entities, q)
      PROVE  IF Absorbed(a) /\ Absorbed(b)
             THEN UnixTime(b) - UnixTime(a) <= Ulp /\ (b.extracted # None => a.extracted # None)
             ELSE (UnixTime(b) - UnixTime(a)) * One
                    <= Or(a.confidence, 0) - Or(b.confidence, 0) + 2 * Grid
  <2>1. b \in Attributes
    BY <1>2, <1>4, PositionsAre DEF Contenders
  <2>2. Score(a, r) \in Int /\ Score(b, r) \in Int
    BY <1>2, <1>3, <2>1, ScoreType
  <2>3. Score(a, r) >= Score(b, r)
    <3>1. q # w => Score(a, r) > Score(b, r) \/ Score(a, r) = Score(b, r)
      BY <1>1, <1>3, <1>4, ChoiceWins DEF Outranks
    <3> QED
      BY <1>3, <1>4, <2>2, <3>1
  <2> QED
    BY <1>2, <1>3, <1>4, <2>1, <2>3, AbsorbedOrder, TimedOrder
<1> QED
  BY <1>1, <1>2, <1>3, <1>4, ChoiceWins DEF RecentHonoured

\* An order of sources or of times is overturned only by the difference of the
\* confidences, whether or not they are shares (engine.rs:1222).
THEOREM StrategyCorrect == Spec => []StrategyHonoured
<1>1. IInv => StrategyHonoured
  BY PriorityHolds, RecentHolds DEF StrategyHonoured
<1> QED
  BY <1>1, Invariance, PTL

\* The candidates of the best score; the first of them is the winner.
Best(r, score) == {p \in Contenders(r) : Score(At(entities, p), r) = score}

LEMMA BestAre ==
  ASSUME IInv, NEW g \in GoldenAttributes
  PROVE  /\ Best(RuleOf(g), g.score) \subseteq Candidates(entities, RuleOf(g))
         /\ IsFiniteSet(Best(RuleOf(g), g.score))
         /\ WinnerOf(g) \in Best(RuleOf(g), g.score)
<1>1. PICK r, w : r = RuleOf(g) /\ w = WinnerOf(g)
  OBVIOUS
<1>2. /\ entities \in Seq(Entities) /\ r \in RuleSet /\ Candidates(entities, r) # {}
      /\ w = Order(entities, r)[1] /\ w \in Contenders(r)
      /\ g.score = Score(At(entities, w), r)
  BY <1>1, ChoiceIs, ChoiceWins DEF WinnerOf
<1>3. w \in Candidates(entities, r)
  BY <1>2, WinnerIs
<1>4. Best(r, g.score) \subseteq Candidates(entities, r)
  BY <1>2, <1>3 DEF Best, Contenders, Candidates, Eligible
<1>5. IsFiniteSet(Best(r, g.score))
  BY <1>2, <1>4, CandidatesAre, FS_Subset
<1>6. w \in Best(r, g.score)
  BY <1>2 DEF Best
<1> QED
  BY <1>1, <1>4, <1>5, <1>6

\* A second of the same score is there exactly if the best are several.
LEMMA SecondIs ==
  ASSUME IInv, NEW g \in GoldenAttributes, NEW r, r = RuleOf(g)
  PROVE  /\ Cardinality(Best(r, g.score)) > 1 =>
              /\ Cardinality(Candidates(entities, r)) > 1
              /\ Score(At(entities, Order(entities, r)[2]), r) = g.score
         /\ Cardinality(Best(r, g.score)) = 1 /\ Cardinality(Candidates(entities, r)) > 1 =>
              Score(At(entities, Order(entities, r)[2]), r) # g.score
<1>1. PICK w : w = WinnerOf(g)
  OBVIOUS
<1>2. PICK B, C : B = Best(r, g.score) /\ C = Candidates(entities, r)
  OBVIOUS
<1>3. /\ B \subseteq C /\ IsFiniteSet(B) /\ w \in B
      /\ entities \in Seq(Entities) /\ r \in RuleSet /\ w = Order(entities, r)[1]
      /\ g.score = Score(At(entities, w), r) /\ w \in Positions(entities)
  BY <1>1, <1>2, BestAre, ChoiceIs, ChoiceWins DEF WinnerOf
<1>4. PICK N \in Nat : N = Cardinality(C)
  BY <1>2, <1>3, CandidatesAre
<1>5. \A p \in C : p \in Positions(entities) /\ Score(At(entities, p), r) \in Int
  BY <1>2, <1>3, CandidatesAre, ScoreAt
<1>6. /\ \A n \in 1..N : Order(entities, r)[n] \in C
      /\ \A p \in C : \E n \in 1..N : Order(entities, r)[n] = p
      /\ \A n, m \in 1..N : n < m => Outranks(entities, r, Order(entities, r)[n], Order(entities, r)[m])
  BY <1>2, <1>3, <1>4, OrderSorts
<1>7. PICK z : z = Order(entities, r)[2]
  OBVIOUS
<1>8. N > 1 => z \in C /\ Outranks(entities, r, w, z) /\ z # w
  <2>1. N > 1 => 1 \in 1..N /\ 2 \in 1..N /\ 1 < 2
    OBVIOUS
  <2>2. N > 1 => z \in C /\ Outranks(entities, r, w, z)
    BY <1>3, <1>6, <1>7, <2>1
  <2>3. ~Outranks(entities, r, w, w)
    BY <1>3, OutranksOrders
  <2> QED
    BY <2>2, <2>3
<1>9. ASSUME Cardinality(B) > 1
      PROVE  N > 1 /\ Score(At(entities, z), r) = g.score
  <2>1. PICK q \in B : q # w
    <3>1. B # {w}
      <4>1. Cardinality({w}) = 1
        BY FS_Singleton
      <4> QED
        BY <1>9, <4>1
    <3> QED
      BY <1>3, <3>1
  <2>2. PICK m \in 1..N : Order(entities, r)[m] = q
    BY <1>3, <1>6, <2>1
  <2>3. m # 1
    BY <1>3, <2>1, <2>2
  <2>4. N > 1 /\ m \in Nat /\ (m = 2 \/ 2 < m) /\ 2 \in 1..N
    BY <1>4, <2>2, <2>3
  <2>5. Score(At(entities, q), r) = g.score
    BY <1>2, <2>1 DEF Best
  <2>6. z = q \/ Outranks(entities, r, z, q)
    BY <1>6, <1>7, <2>2, <2>4
  <2>7. z \in C /\ q \in C /\ w \in C
    BY <1>3, <1>8, <2>1, <2>4
  <2>8. PICK x \in Int, y \in Int : x = Score(At(entities, z), r) /\ y = g.score
    BY <1>3, <1>5, <2>7
  <2>9. x > y \/ x = y
    BY <2>5, <2>6, <2>8 DEF Outranks
  <2>10. y > x \/ y = x
    BY <1>3, <1>8, <2>4, <2>8 DEF Outranks
  <2>11. x = y
    BY <2>9, <2>10
  <2> QED
    BY <2>4, <2>8, <2>11
<1>10. ASSUME Cardinality(B) = 1, N > 1
       PROVE  Score(At(entities, z), r) # g.score
  <2>1. PICK x : B = {x}
    BY <1>3, <1>10, FS_Singleton
  <2>2. z \notin B
    BY <1>3, <1>8, <1>10, <2>1
  <2>3. z \in Contenders(r)
    BY <1>2, <1>8, <1>10 DEF Candidates, Eligible, Contenders
  <2> QED
    BY <1>2, <2>2, <2>3 DEF Best
<1> QED
  BY <1>2, <1>4, <1>7, <1>9, <1>10

LEMMA MarginHolds ==
  ASSUME IInv, NEW g \in GoldenAttributes, NEW r, r = RuleOf(g)
  PROVE  /\ Len(g.candidates) = 1 => g.attribute.confidence = One
         /\ Cardinality(Best(r, g.score)) > 1 => g.attribute.confidence = 0
         /\ Cardinality(Best(r, g.score)) = 1 => g.attribute.confidence > 0
<1>1. PICK w, c, N : /\ w = WinnerOf(g) /\ c = Confidence(Ranked(entities, r))
                     /\ N = Cardinality(Candidates(entities, r))
  OBVIOUS
<1>2. /\ entities \in Seq(Entities) /\ r \in RuleSet /\ Candidates(entities, r) # {}
      /\ w = Order(entities, r)[1] /\ g.rule \in Nat
      /\ g = GoldenAttribute(g.rule, Ranked(entities, r))
  BY <1>1, ChoiceIs DEF WinnerOf
<1>3. g.attribute.confidence = c /\ Len(g.candidates) = N /\ g.score = Score(At(entities, w), r)
  BY <1>1, <1>2, GoldenAttributeIs
<1>4. N \in Nat /\ N >= 1
  BY <1>1, <1>2, RankedLength
<1>5. PICK z : z = Order(entities, r)[2]
  OBVIOUS
<1>6. /\ N = 1 => c = One
      /\ N > 1 => IF g.score = Score(At(entities, z), r) THEN c = 0 ELSE c > 0
  BY <1>1, <1>2, <1>3, <1>5, ConfidenceIs
<1>7. CASE N = 1
  <2>1. ~(Cardinality(Best(r, g.score)) > 1)
    <3>1. Cardinality(Best(r, g.score)) > 1 => N > 1
      BY <1>1, SecondIs
    <3> QED
      BY <1>7, <3>1
  <2>2. c > 0
    BY <1>6, <1>7 DEF One
  <2> QED
    BY <1>3, <1>6, <1>7, <2>1, <2>2
<1>8. CASE N > 1
  <2>1. Cardinality(Best(r, g.score)) > 1 => Score(At(entities, z), r) = g.score
    BY <1>5, SecondIs
  <2>2. Cardinality(Best(r, g.score)) = 1 => Score(At(entities, z), r) # g.score
    BY <1>1, <1>5, <1>8, SecondIs
  <2>3. N # 1
    BY <1>8
  <2> QED
    BY <1>3, <1>6, <1>8, <2>1, <2>2, <2>3
<1> QED
  BY <1>4, <1>7, <1>8

\* The confidence of a golden attribute tells a choice without a rival from a clear one
\* and a clear one from a tie (calculate_confidence, engine.rs:1271).
THEOREM MarginCorrect == Spec => []ConfidenceIsMargin
<1>1. ASSUME IInv PROVE ConfidenceIsMargin
  <2> SUFFICES ASSUME NEW g \in GoldenAttributes
               PROVE  LET scores == [p \in Contenders(RuleOf(g)) |-> Score(At(entities, p), RuleOf(g))]
                          best == {p \in DOMAIN scores : scores[p] = g.score}
                      IN  /\ g.attribute.confidence \in 0..One
                          /\ Len(g.candidates) = 1 => g.attribute.confidence = One
                          /\ Cardinality(best) > 1 => g.attribute.confidence = 0
                          /\ Cardinality(best) = 1 => g.attribute.confidence > 0
    BY DEF ConfidenceIsMargin
  <2>1. PICK r, scores : r = RuleOf(g) /\ scores = [p \in Contenders(r) |-> Score(At(entities, p), r)]
    OBVIOUS
  <2>2. {p \in DOMAIN scores : scores[p] = g.score} = Best(r, g.score)
    BY <2>1 DEF Best
  <2>3. /\ Len(g.candidates) = 1 => g.attribute.confidence = One
        /\ Cardinality(Best(r, g.score)) > 1 => g.attribute.confidence = 0
        /\ Cardinality(Best(r, g.score)) = 1 => g.attribute.confidence > 0
    BY <1>1, <2>1, MarginHolds
  <2>4. g.attribute.confidence \in 0..One
    BY <1>1 DEF IInv, TypeOK, GoldenAttributes, Range
  <2> QED
    BY <2>1, <2>2, <2>3, <2>4
<1>2. IInv => ConfidenceIsMargin
  BY <1>1
<1> QED
  BY <1>2, Invariance, PTL

\* A rule that had candidates chose one of them, out of all of them.
LEMMA RuleHasChoice ==
  ASSUME IInv, NEW i \in 1..(next - 1), Candidates(entities, rules[i]) # {}
  PROVE  \E g \in GoldenAttributes :
           /\ g.rule = i /\ g.attribute.value = evaluations[i].value
           /\ Len(g.candidates) = Cardinality(Candidates(entities, rules[i]))
<1>1. PICK j \in DOMAIN attributes :
        attributes[j].rule = i /\ attributes[j].attribute.value = evaluations[i].value
  BY DEF IInv, AllAccounted, Accounted
<1>2. PICK g : g = attributes[j]
  OBVIOUS
<1>3. g \in GoldenAttributes
  BY <1>2 DEF GoldenAttributes, Range
<1>4. g.rule = i /\ g.attribute.value = evaluations[i].value /\ i \in Nat
  BY <1>1, <1>2 DEF IInv, TypeOK
<1>5. PICK r : r = RuleOf(g)
  OBVIOUS
<1>6. r = rules[i]
  BY <1>4, <1>5 DEF RuleOf
<1>7. /\ entities \in Seq(Entities) /\ r \in RuleSet /\ Candidates(entities, r) # {}
      /\ g = GoldenAttribute(i, Ranked(entities, r))
  BY <1>3, <1>4, <1>5, ChoiceIs
<1>8. Len(g.candidates) = Cardinality(Candidates(entities, r))
  BY <1>4, <1>7, GoldenAttributeIs
<1> QED
  BY <1>3, <1>4, <1>6, <1>8

LEMMA AccountedHolds == IInv => RulesAccounted
<1> SUFFICES ASSUME IInv, golden # NoRecord, entities # <<>> PROVE RulesAccounted
  BY DEF RulesAccounted
<1> DEFINE Eligibles(r) == {p \in Contenders(r) : r.minimum_confidence = None \/ Score(At(entities, p), r) >= r.minimum_confidence}
<1>1. \A r : Eligibles(r) = Candidates(entities, r)
  BY DEF Contenders, Candidates, Eligible
<1> HIDE DEF Eligibles
<1>2. next = Len(rules) + 1 /\ golden.attributes = attributes /\ golden.conflicts = conflicts
  BY DEF IInv, RecordComplete
<1>3. PICK n \in Nat : n = Len(rules) /\ DOMAIN rules = 1..n /\ next - 1 = n
  <2>1. rules \in Seq(RuleSet)
    BY DEF IInv, TypeOK
  <2>2. Len(rules) \in Nat /\ DOMAIN rules = 1..Len(rules)
    BY <2>1
  <2>3. next - 1 = Len(rules)
    BY <1>2, <2>2
  <2> QED
    BY <2>2, <2>3
<1>4. Len(evaluations) = n /\ \A i \in 1..n : Accounted(i)
  BY <1>3 DEF IInv, AllAccounted
<1>5. Len(golden.conflicts) = Cardinality({i \in DOMAIN rules : Cardinality(Eligibles(rules[i])) > 1})
  <2>1. {i \in DOMAIN rules : Cardinality(Eligibles(rules[i])) > 1} = Contested(n)
    BY <1>1, <1>3 DEF Contested
  <2>2. Len(conflicts) = Cardinality(Contested(n))
    BY <1>3 DEF IInv, AllAccounted
  <2> QED
    BY <1>2, <2>1, <2>2
<1>6. ASSUME NEW i \in DOMAIN rules
      PROVE  /\ evaluations[i].attribute = rules[i].attribute
             /\ IF Eligibles(rules[i]) = {} THEN evaluations[i].warning
                ELSE \E g \in Range(golden.attributes) :
                       /\ g.rule = i /\ g.attribute.value = evaluations[i].value
                       /\ Len(g.candidates) = Cardinality(Eligibles(rules[i]))
  <2>1. i \in 1..(next - 1) /\ Accounted(i)
    BY <1>3, <1>4
  <2>2. evaluations[i].attribute = rules[i].attribute
    BY <2>1 DEF Accounted
  <2>3. Candidates(entities, rules[i]) = {} => evaluations[i].warning
    BY <2>1 DEF Accounted
  <2>4. Candidates(entities, rules[i]) # {} =>
          \E g \in Range(golden.attributes) :
            /\ g.rule = i /\ g.attribute.value = evaluations[i].value
            /\ Len(g.candidates) = Cardinality(Candidates(entities, rules[i]))
    BY <1>2, <2>1, RuleHasChoice DEF GoldenAttributes
  <2> QED
    BY <1>1, <2>2, <2>3, <2>4
<1> QED
  BY <1>3, <1>4, <1>5, <1>6 DEF RulesAccounted, Eligibles

\* A finished record accounts for every rule: what it chose and from how many, or that
\* nothing was eligible (apply_survivorship, engine.rs:119).
THEOREM AccountedCorrect == Spec => []RulesAccounted
<1> QED
  BY AccountedHolds, Invariance, PTL
=============================================================================
