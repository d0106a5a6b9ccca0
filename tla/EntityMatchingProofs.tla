------------------------ MODULE EntityMatchingProofs ------------------------
(***************************************************************************)
(* Proofs about EntityMatching, for any entities, contents, workers and    *)
(* limits.  First what the scores are, then who works on what, then what   *)
(* an execution finds, and what becomes of what it stored.                 *)
(***************************************************************************)
EXTENDS EntityMatching, FiniteSetTheorems, FunctionTheorems, WellFoundedInduction, TLAPS

-----------------------------------------------------------------------------
(* Sums.  The fold of MapThenSumSet has one value: the size of a disjoint  *)
(* union, in which x has n[x] elements.                                    *)

Numbered(n, S) == UNION {{x} \X (1..n[x]) : x \in S}
Total(n, S) == Cardinality(Numbered(n, S))

\* The function that MapThenFoldSet computes the sum with.
Folds(n, S, iter) ==
  iter = [s \in SUBSET S |->
            IF s = {} THEN 0
            ELSE n[CHOOSE x \in s : TRUE] + iter[s \ {CHOOSE x \in s : TRUE}]]

LEMMA ElementsOfOne ==
  ASSUME NEW x, NEW k \in Nat
  PROVE  IsFiniteSet({x} \X (1..k)) /\ Cardinality({x} \X (1..k)) = k
<1>1. PICK s : s = {x}
  OBVIOUS
<1>2. PICK t : t = 1..k
  OBVIOUS
<1>3. IsFiniteSet(s) /\ Cardinality(s) = 1
  BY <1>1, FS_Singleton
<1>4. IsFiniteSet(t) /\ Cardinality(t) = k
  BY <1>2, FS_Interval
<1>5. IsFiniteSet(s \X t) /\ Cardinality(s \X t) = 1 * k
  BY <1>3, <1>4, FS_Product
<1> QED
  BY <1>1, <1>2, <1>5

LEMMA TotalType ==
  ASSUME NEW S, IsFiniteSet(S), NEW n, \A x \in S : n[x] \in Nat
  PROVE  IsFiniteSet(Numbered(n, S)) /\ Total(n, S) \in Nat
<1> DEFINE T == {{x} \X (1..n[x]) : x \in S}
           F == [x \in S |-> {x} \X (1..n[x])]
<1>1. F \in Surjection(S, T)
  BY DEF Surjection
<1>2. IsFiniteSet(T)
  BY <1>1, FS_Surjection
<1>3. \A t \in T : IsFiniteSet(t)
  <2> SUFFICES ASSUME NEW x \in S PROVE IsFiniteSet({x} \X (1..n[x]))
    OBVIOUS
  <2> QED
    BY ElementsOfOne
<1>4. IsFiniteSet(UNION T)
  <2> HIDE DEF T
  <2> QED
    BY <1>2, <1>3, FS_UNION
<1> QED
  BY <1>4, FS_CardinalityType DEF Numbered, Total

\* Taking one element out takes its number off.
LEMMA TotalWithout ==
  ASSUME NEW S, IsFiniteSet(S), NEW n, \A x \in S : n[x] \in Nat, NEW y \in S
  PROVE  Total(n, S) = n[y] + Total(n, S \ {y})
<1> DEFINE A == Numbered(n, S \ {y})
           B == {y} \X (1..n[y])
<1>1. Numbered(n, S) = A \cup B
  BY DEF Numbered
<1>2. IsFiniteSet(A) /\ Cardinality(A) \in Nat
  <2>1. IsFiniteSet(S \ {y})
    BY FS_RemoveElement
  <2>2. \A x \in S \ {y} : n[x] \in Nat
    OBVIOUS
  <2> QED
    BY <2>1, <2>2, TotalType DEF Total
<1>3. IsFiniteSet(B) /\ Cardinality(B) = n[y]
  BY ElementsOfOne
<1>4. A \cap B = {}
  BY DEF Numbered
<1>5. Cardinality(A \cap B) = 0
  BY <1>4, FS_EmptySet
<1>6. Total(n, S) = Cardinality(A \cup B) /\ Total(n, S \ {y}) = Cardinality(A)
  BY <1>1 DEF Total
<1> HIDE DEF A, B
<1>7. Cardinality(A \cup B) = Cardinality(A) + Cardinality(B) - Cardinality(A \cap B)
  BY <1>2, <1>3, FS_Union
<1> QED
  BY <1>2, <1>3, <1>5, <1>6, <1>7

\* The bounds of the numbers bound the sum.
LEMMA TotalBounds ==
  ASSUME NEW S, IsFiniteSet(S), NEW n, NEW lo \in Nat, NEW hi \in Nat,
         \A x \in S : n[x] \in lo..hi
  PROVE  /\ Cardinality(S) \in Nat /\ Total(n, S) \in Nat
         /\ Cardinality(S) * lo <= Total(n, S)
         /\ Total(n, S) <= Cardinality(S) * hi
<1>1. PICK L : L = 1..lo
  OBVIOUS
<1>2. PICK H : H = 1..hi
  OBVIOUS
<1>3. /\ IsFiniteSet(L) /\ Cardinality(L) = lo
      /\ IsFiniteSet(H) /\ Cardinality(H) = hi
  BY <1>1, <1>2, FS_Interval
<1>4. IsFiniteSet(Numbered(n, S)) /\ Total(n, S) \in Nat
  BY TotalType
<1>5. Cardinality(S) * lo <= Total(n, S)
  <2>1. S \X L \in SUBSET Numbered(n, S)
    BY <1>1 DEF Numbered
  <2>2. Cardinality(S \X L) = Cardinality(S) * lo
    BY <1>3, FS_Product
  <2> QED
    BY <1>4, <2>1, <2>2, FS_Subset DEF Total
<1>6. Total(n, S) <= Cardinality(S) * hi
  <2>1. Numbered(n, S) \in SUBSET (S \X H)
    BY <1>2 DEF Numbered
  <2>2. IsFiniteSet(S \X H) /\ Cardinality(S \X H) = Cardinality(S) * hi
    BY <1>3, FS_Product
  <2> QED
    BY <2>1, <2>2, FS_Subset DEF Total
<1> QED
  BY <1>4, <1>5, <1>6, FS_CardinalityType

\* There is such a function, and its value is the sum.
LEMMA TotalFolds ==
  ASSUME NEW S, IsFiniteSet(S), NEW n, \A x \in S : n[x] \in Nat
  PROVE  Folds(n, S, [s \in SUBSET S |-> Total(n, s)])
<1>1. PICK g : g = [s \in SUBSET S |-> Total(n, s)]
  OBVIOUS
<1>2. g[{}] = 0
  <2>1. Numbered(n, {}) = {}
    BY DEF Numbered
  <2> QED
    BY <1>1, <2>1, FS_EmptySet DEF Total
<1>3. ASSUME NEW s \in SUBSET S, s # {}
      PROVE  g[s] = n[CHOOSE x \in s : TRUE] + g[s \ {CHOOSE x \in s : TRUE}]
  <2>1. PICK y : y = CHOOSE x \in s : TRUE
    OBVIOUS
  <2>2. y \in s
    BY <1>3, <2>1
  <2>3. IsFiniteSet(s) /\ \A x \in s : n[x] \in Nat
    BY FS_Subset
  <2>4. Total(n, s) = n[y] + Total(n, s \ {y})
    BY <2>2, <2>3, TotalWithout
  <2> QED
    BY <1>1, <2>1, <2>4
<1>4. g = [s \in SUBSET S |->
            IF s = {} THEN 0
            ELSE n[CHOOSE x \in s : TRUE] + g[s \ {CHOOSE x \in s : TRUE}]]
  BY <1>1, <1>2, <1>3
<1> QED
  BY <1>1, <1>4 DEF Folds

LEMMA FoldIsTotal ==
  ASSUME NEW S, IsFiniteSet(S), NEW n, \A x \in S : n[x] \in Nat,
         NEW iter, Folds(n, S, iter)
  PROVE  iter[S] = Total(n, S)
<1>1. PICK g : g = [s \in SUBSET S |-> Total(n, s)] /\ Folds(n, S, g)
  BY TotalFolds
<1> DEFINE T == {s \in SUBSET S : iter[s] # g[s]}
<1>2. T = {}
  <2> SUFFICES ASSUME T # {} PROVE FALSE
    OBVIOUS
  <2>1. IsWellFoundedOn(StrictSubsetOrdering(S), SUBSET S)
    BY FS_StrictSubsetOrderingWellFounded, FS_FiniteSubsetsOfFinite
  <2>2. T \subseteq SUBSET S
    OBVIOUS
  <2>3. PICK s \in T : \A t \in T : ~ (<<t, s>> \in StrictSubsetOrdering(S))
    <3> HIDE DEF T
    <3> QED
      BY <2>1, <2>2, WFMin
  <2>4. s # {}
    BY <1>1 DEF Folds
  <2> DEFINE x == CHOOSE x \in s : TRUE
  <2>5. x \in s
    BY <2>4
  <2>6. <<s \ {x}, s>> \in StrictSubsetOrdering(S)
    BY <2>5 DEF StrictSubsetOrdering
  <2>7. iter[s \ {x}] = g[s \ {x}]
    BY <2>3, <2>6
  <2>8. iter[s] = n[x] + iter[s \ {x}] /\ g[s] = n[x] + g[s \ {x}]
    BY <1>1, <2>4 DEF Folds
  <2> QED
    BY <2>7, <2>8
<1>3. iter[S] = g[S]
  BY <1>2
<1> QED
  BY <1>1, <1>3

-----------------------------------------------------------------------------
(* Scores.                                                                 *)

\* The mean of numbers is between their bounds.
LEMMA MeanBounds ==
  ASSUME NEW k \in Nat, k # 0, NEW t \in Nat, NEW lo \in Nat, NEW hi \in Nat,
         k * lo <= t, t <= k * hi
  PROVE  t \div k \in lo..hi
<1>1. PICK q \in Nat : q = t \div k
  OBVIOUS
<1>2. k * q <= t /\ t < k * (q + 1)
  BY <1>1
<1>3. q >= lo
  <2> SUFFICES ASSUME q + 1 <= lo PROVE FALSE
    BY <1>1
  <2>1. k * (q + 1) <= k * lo
    OBVIOUS
  <2> QED
    BY <1>2, <2>1
<1>4. q <= hi
  <2> SUFFICES ASSUME hi + 1 <= q PROVE FALSE
    BY <1>1
  <2>1. k * (hi + 1) <= k * q
    OBVIOUS
  <2> QED
    BY <1>2, <2>1
<1> QED
  BY <1>1, <1>3, <1>4

LEMMA SumIsTotal ==
  ASSUME NEW S, IsFiniteSet(S), NEW n, DOMAIN n = S, \A x \in S : n[x] \in Nat
  PROVE  MapThenSumSet(LAMBDA x : n[x], DOMAIN n) = Total(n, S)
<1>1. \E iter : Folds(n, S, iter)
  BY TotalFolds
<1>2. PICK it : it = (CHOOSE iter : Folds(n, S, iter)) /\ Folds(n, S, it)
  BY <1>1
<1>3. MapThenSumSet(LAMBDA x : n[x], S) = it[S]
  BY <1>2 DEF MapThenSumSet, MapThenFoldSet, Folds
<1>4. it[S] = Total(n, S)
  BY <1>2, FoldIsTotal
<1> QED
  BY <1>3, <1>4

LEMMA MeanType ==
  ASSUME NEW n, IsFiniteSet(DOMAIN n), DOMAIN n # {},
         NEW lo \in Nat, NEW hi \in Nat, \A x \in DOMAIN n : n[x] \in lo..hi
  PROVE  /\ Mean(n) = Total(n, DOMAIN n) \div Cardinality(DOMAIN n)
         /\ Mean(n) \in lo..hi
<1>1. PICK S : S = DOMAIN n
  OBVIOUS
<1>2. \A x \in S : n[x] \in Nat
  BY <1>1
<1>3. Mean(n) = Total(n, S) \div Cardinality(S)
  BY <1>1, <1>2, SumIsTotal DEF Mean
<1>4. /\ Cardinality(S) \in Nat /\ Total(n, S) \in Nat
      /\ Cardinality(S) * lo <= Total(n, S) /\ Total(n, S) <= Cardinality(S) * hi
  BY <1>1, TotalBounds
<1>5. Cardinality(S) # 0
  BY <1>1, FS_EmptySet
<1> QED
  BY <1>1, <1>3, <1>4, <1>5, MeanBounds

LEMMA FieldScoreType ==
  ASSUME NEW g \in Weightings, NEW attrs \in Contents, NEW others \in Contents
  PROVE  FieldScore(g, attrs, others) \in 0..1000
<1>1. PICK S : S = Shared(attrs, others)
  OBVIOUS
<1>2. IsFiniteSet(S)
  <2>1. IsFiniteSet(DOMAIN attrs) /\ S \in SUBSET DOMAIN attrs
    BY <1>1, MatchingAssumption DEF Shared
  <2> QED
    BY <2>1, FS_Subset
<1>3. PICK lo, hi : lo = 0 /\ hi = 1000
  OBVIOUS
<1>4. \A f \in S : Similarity[g][<<attrs[f], others[f]>>] \in lo..hi
  BY <1>1, <1>3, MatchingAssumption DEF Shared
<1>5. CASE S = {}
  BY <1>1, <1>5 DEF FieldScore
<1>6. CASE S # {}
  <2>1. PICK n : n = [f \in S |-> Similarity[g][<<attrs[f], others[f]>>]]
    OBVIOUS
  <2>2. DOMAIN n = S /\ \A f \in DOMAIN n : n[f] \in lo..hi
    <3>1. DOMAIN n = S /\ \A f \in S : n[f] = Similarity[g][<<attrs[f], others[f]>>]
      BY <2>1
    <3>2. ASSUME NEW f \in S PROVE n[f] \in lo..hi
      <4>1. n[f] = Similarity[g][<<attrs[f], others[f]>>]
        BY <3>1
      <4>2. Similarity[g][<<attrs[f], others[f]>>] \in lo..hi
        BY <1>4
      <4> QED
        BY <4>1, <4>2, Zenon
    <3> QED
      BY <3>1, <3>2
  <2>3. Mean(n) \in 0..1000
    <3>1. IsFiniteSet(DOMAIN n) /\ DOMAIN n # {} /\ lo \in Nat /\ hi \in Nat
      BY <1>2, <1>3, <1>6, <2>2
    <3>2. Mean(n) \in lo..hi
      BY <2>2, <3>1, MeanType, Zenon
    <3> QED
      BY <1>3, <3>2
  <2>4. n = [f \in Shared(attrs, others) |-> Similarity[g][<<attrs[f], others[f]>>]]
    BY <1>1, <2>1
  <2>5. FieldScore(g, attrs, others) = Mean(n)
    BY <1>1, <1>6, <2>4 DEF FieldScore
  <2> QED
    BY <2>3, <2>5
<1> QED
  BY <1>5, <1>6

LEMMA ScoreBounds ==
  ASSUME NEW g \in Weightings, NEW attrs \in Contents, NEW others \in Contents
  PROVE  Score(g, attrs, others) \in 0..1000
<1>1. PICK s \in 0..1000 : s = FieldScore(g, attrs, others)
  BY FieldScoreType
<1>2. PICK w \in 0..1000 : w = VectorWeight[g]
  BY MatchingAssumption
<1>3. Score(g, attrs, others) = ((1000 - w) * s) \div 1000
  BY <1>1, <1>2 DEF Score, VectorSimilarity
<1>4. PICK v \in 0..1000, t \in Nat : v = 1000 - w /\ t = v * s
  OBVIOUS
<1>5. t \in Nat /\ t <= 1000 * 1000
  <2>1. v * s \in Nat /\ v * s <= 1000 * s
    OBVIOUS
  <2> QED
    BY <1>4, <2>1, SMT
<1>6. t \div 1000 \in 0..1000
  BY <1>5, SMT
<1> QED
  BY <1>3, <1>4, <1>6

LEMMA CoverageBounds ==
  ASSUME NEW attrs \in Contents, NEW others \in Contents
  PROVE  Coverage(attrs, others) \in 0..1000
<1>1. PICK S : S = Shared(attrs, others)
  OBVIOUS
<1>2. PICK A, B : A = DOMAIN attrs /\ B = DOMAIN others
  OBVIOUS
<1>3. IsFiniteSet(A) /\ IsFiniteSet(B) /\ S \in SUBSET A /\ S \in SUBSET B
  BY <1>1, <1>2, MatchingAssumption DEF Shared
<1>4. IsFiniteSet(S) /\ Cardinality(S) <= Cardinality(A) /\ Cardinality(S) <= Cardinality(B)
  BY <1>3, FS_Subset
<1>5. Cardinality(S) \in Nat /\ Cardinality(A) \in Nat /\ Cardinality(B) \in Nat
  BY <1>3, <1>4, FS_CardinalityType
<1> DEFINE s == Cardinality(S)
           a == Cardinality(A)
           b == Cardinality(B)
           g == Greatest(1, Greatest(a, b))
<1>6. Coverage(attrs, others) = (1000 * s) \div g
  BY <1>1, <1>2 DEF Coverage
<1>7. s \in Nat /\ s <= a /\ s <= b /\ a \in Nat /\ b \in Nat
  BY <1>4, <1>5
<1> HIDE DEF s, a, b
<1>8. g \in Nat /\ g # 0 /\ s <= g
  BY <1>7 DEF Greatest
<1> HIDE DEF g
<1>9. PICK lo, hi, t : lo = 0 /\ hi = 1000 /\ t = 1000 * s
  OBVIOUS
<1>10. g * lo <= t /\ t <= g * hi /\ t \in Nat /\ lo \in Nat /\ hi \in Nat
  BY <1>7, <1>8, <1>9
<1>11. t \div g \in lo..hi
  BY <1>8, <1>10, MeanBounds
<1> QED
  BY <1>6, <1>9, <1>11

\* The confidence is at least eight tenths of the score.
Eighty(score) == (800 * score) \div 1000

LEMMA ConfidenceBounds ==
  ASSUME NEW g \in Weightings, NEW attrs \in Contents, NEW others \in Contents
  PROVE  /\ Confidence(g, attrs, others) \in 0..1000
         /\ Confidence(g, attrs, others) >= Eighty(Score(g, attrs, others))
<1>1. PICK s \in 0..1000 : s = Score(g, attrs, others)
  BY ScoreBounds
<1>2. PICK c \in 0..1000 : c = Coverage(attrs, others)
  BY CoverageBounds
<1>3. Confidence(g, attrs, others) = Least((800 * s + 200 * c) \div 1000, 1000)
  BY <1>1, <1>2 DEF Confidence
<1>4. PICK q : q = (800 * s + 200 * c) \div 1000
  OBVIOUS
<1>5. q \in Nat /\ q >= (800 * s) \div 1000 /\ (800 * s) \div 1000 <= 1000
  BY <1>4
<1>6. Confidence(g, attrs, others) = Least(q, 1000)
  BY <1>3, <1>4
<1> QED
  BY <1>1, <1>5, <1>6 DEF Least, Eighty

\* What holds of a candidate scored under a policy, asked about or not.
Fits(pol, c) ==
  /\ c \in Candidate /\ c.confidence >= Eighty(c.score)
  /\ c.review <=> (c.score \in pol.review..(pol.auto - 1) /\ c.ai = "none")
  /\ c.review => c.status = "RequiresReview"

LEMMA ScoredFits ==
  ASSUME NEW pol \in Policy, NEW e \in Entities, NEW attrs \in Contents, NEW others \in Contents
  PROVE  /\ Fits(pol, Scored(pol, e, attrs, others))
         /\ Scored(pol, e, attrs, others).candidate = e
         /\ Scored(pol, e, attrs, others).ai = "none"
<1>1. PICK g, auto, review : g = pol.weighting /\ auto = pol.auto /\ review = pol.review
  OBVIOUS
<1>2. g \in Weightings /\ auto \in Int /\ review \in Int
  BY <1>1 DEF Policy
<1>3. PICK s, c : s = Score(g, attrs, others) /\ c = Confidence(g, attrs, others)
  OBVIOUS
<1>4. s \in 0..1000 /\ c \in 0..1000 /\ c >= Eighty(s)
  BY <1>2, <1>3, ScoreBounds, ConfidenceBounds
<1>5. PICK st : st = Status(pol, s)
  OBVIOUS
<1>6. st \in {"Matched", "RequiresReview", "Rejected"} /\ (st = "RequiresReview" <=> s \in review..(auto - 1))
  BY <1>1, <1>2, <1>4, <1>5 DEF Status
<1>7. PICK r : r = Scored(pol, e, attrs, others)
  OBVIOUS
<1>8. r = [candidate |-> e, score |-> s, confidence |-> c, status |-> st,
           ai |-> "none", review |-> st = "RequiresReview", recommended |-> s >= auto]
  BY <1>1, <1>3, <1>5, <1>7, Zenon DEF Scored
<1>9. r \in Candidate
  <2>1. PICK lo, hi : lo = 0 /\ hi = 1000
    OBVIOUS
  <2>2. s \in lo..hi /\ c \in lo..hi
    BY <1>4, <2>1
  <2>3. (s >= auto) \in BOOLEAN
    OBVIOUS
  <2>4. Candidate = [candidate : Entities, score : lo..hi, confidence : lo..hi, review : BOOLEAN,
                     status : {"Matched", "RequiresReview", "Rejected"}, recommended : BOOLEAN,
                     ai : {"none", "match", "no_match"}]
    BY <2>1 DEF Candidate
  <2> QED
    BY <1>6, <1>8, <2>2, <2>3, <2>4
<1>10. /\ r.candidate = e /\ r.score = s /\ r.confidence = c
       /\ r.status = st /\ r.ai = "none"
  BY <1>8
<1>11. r.review <=> st = "RequiresReview"
  BY <1>8, Zenon
<1>12. Fits(pol, r)
  BY <1>1, <1>4, <1>6, <1>9, <1>10, <1>11 DEF Fits
<1> QED
  BY <1>7, <1>10, <1>12

\* Only the grey zone is asked about.
LEMMA ResolvedFits ==
  ASSUME NEW pol, NEW c, Fits(pol, c), c.ai = "none", c.status = "RequiresReview",
         NEW ai \in {"match", "no_match", "unavailable"}
  PROVE  Fits(pol, Resolved(c, ai)) /\ Resolved(c, ai).candidate = c.candidate
<1>1. CASE ai = "match"
  <2>1. PICK r : r = [c EXCEPT !.ai = "match", !.status = "Matched", !.recommended = TRUE, !.review = FALSE]
    OBVIOUS
  <2>2. c \in Candidate
    BY DEF Fits
  <2>3. r = [candidate |-> c.candidate, score |-> c.score, confidence |-> c.confidence,
             status |-> "Matched", ai |-> "match", review |-> FALSE, recommended |-> TRUE]
    BY <2>1, <2>2, ZenonT(60) DEF Candidate
  <2>4. r \in Candidate
    BY <2>2, <2>3, SMTT(60) DEF Candidate
  <2>5. Fits(pol, r) /\ r.candidate = c.candidate
    BY <2>3, <2>4 DEF Fits
  <2> QED
    BY <1>1, <2>1, <2>5 DEF Resolved
<1>2. CASE ai = "no_match"
  <2>1. PICK r : r = [c EXCEPT !.ai = "no_match", !.status = "Rejected", !.recommended = FALSE, !.review = FALSE]
    OBVIOUS
  <2>2. c \in Candidate
    BY DEF Fits
  <2>3. r = [candidate |-> c.candidate, score |-> c.score, confidence |-> c.confidence,
             status |-> "Rejected", ai |-> "no_match", review |-> FALSE, recommended |-> FALSE]
    BY <2>1, <2>2, ZenonT(60) DEF Candidate
  <2>4. r \in Candidate
    BY <2>2, <2>3, SMTT(60) DEF Candidate
  <2>5. Fits(pol, r) /\ r.candidate = c.candidate
    BY <2>3, <2>4 DEF Fits
  <2> QED
    BY <1>2, <2>1, <2>5 DEF Resolved
<1>3. CASE ai = "unavailable"
  BY <1>3 DEF Resolved
<1> QED
  BY <1>1, <1>2, <1>3

-----------------------------------------------------------------------------
(* Types, of the data, of an execution and of the rows.                    *)

\* e is stored, was stored, or its insertion was rolled back.
Seen(e) == stored[e] # Absent \/ e \in changed

DataTyped ==
  /\ stored \in [Entities -> Contents \cup {Absent}]
  /\ cached \in [Entities -> Contents \cup {Absent}]
  /\ changed \in SUBSET Entities /\ loading \in SUBSET Bulk /\ queue \in SUBSET Bulk
  /\ fills \in SUBSET (Entities \X Contents)
  /\ \A e \in loading \cup queue : Seen(e)

Steps == {"idle", "read", "fill", "find", "score", "save", "notify"}

WorkersTyped ==
  /\ at \in [Workers -> Steps]
  /\ subject \in [Workers -> Bulk \cup {Absent}]
  /\ source \in [Workers -> Contents \cup {Absent}]
  /\ under \in [Workers -> Policy]
  /\ found \in [Workers -> SUBSET Entities]
  /\ scored \in [Workers -> SUBSET Candidate]
  /\ unsaved \in [Workers -> SUBSET Candidate]

\* A worker that is idle has nothing; one that matches an entity has found and
\* scored others, each once.
Execution(p) ==
  /\ at[p] = "idle" <=> subject[p] = Absent
  /\ at[p] # "idle" => Seen(subject[p])
  /\ at[p] \notin {"idle", "read"} => source[p] \in Contents

Finding(p) ==
  /\ at[p] = "idle" => found[p] = {}
  /\ IsFiniteSet(found[p]) /\ Cardinality(found[p]) <= MaxCandidates
  /\ \A e \in found[p] : e # subject[p] /\ Seen(e)

Scoring(p) ==
  /\ at[p] \notin {"save", "notify"} => scored[p] = {}
  /\ at[p] # "save" => unsaved[p] = {}
  /\ IsFiniteSet(scored[p]) /\ unsaved[p] \subseteq scored[p]
  /\ \A c \in scored[p] : Fits(under[p], c) /\ c.candidate # subject[p] /\ Seen(c.candidate)
  /\ \A c, d \in scored[p] : c.candidate = d.candidate => c = d

ExecutionsFit == \A p \in Workers : Execution(p) /\ Finding(p) /\ Scoring(p)

MatchRow ==
  [source : Bulk, candidate : Entities, score : 0..1000, policy : Policy,
   status : {"Matched", "RequiresReview", "Rejected"}, ai : {"none", "match", "no_match"},
   review : BOOLEAN, recommended : BOOLEAN, decided : {"none", "Matched", "Rejected"}]

RowFits(m) ==
  /\ m \in MatchRow /\ m.candidate # m.source /\ Seen(m.candidate)
  /\ m.review <=> (m.score \in m.policy.review..(m.policy.auto - 1) /\ m.ai = "none")

RowsFit == \A m \in matches : RowFits(m)

Typed == DataTyped /\ WorkersTyped /\ ExecutionsFit /\ RowsFit

\* The actions by what they write.
StoreStep ==
  \/ \E e \in Entities, attrs \in Contents :
       CreateEntity(e, attrs) \/ BulkInsert(e, attrs) \/ PatchEntity(e, attrs)
  \/ \E e \in Entities : BulkRolledBack(e) \/ EnqueueMatch(e) \/ EnqueueFails(e) \/ HardErase(e)

CacheStep ==
  \/ \E e \in Entities : View(e) \/ CacheExpire(e)
  \/ \E e \in Entities, attrs \in Contents : FillCache(e, attrs) \/ FillFails(e, attrs)

Review ==
  \E m \in matches, status \in {"Matched", "Rejected"}, id \in CandidateIds : Decide(m, status, id)

PolicyStep == \E p \in Workers : Restart(p) \/ \E u \in Updates : UpdateWeights(p, u)

LEMMA StepCases ==
  Next => \/ StoreStep \/ CacheStep \/ Review \/ PolicyStep
          \/ \E p \in Workers : Matcher(p) \/ ExecutionFails(p)
BY DEF Next, StoreStep, CacheStep, Review, PolicyStep

LEMMA PolicyOnly ==
  ASSUME PolicyStep
  PROVE  UNCHANGED <<storeVars, cacheVars, queue, workerVars, reviewVars, faults>>
BY DEF PolicyStep, Restart, UpdateWeights

-----------------------------------------------------------------------------
(* The policies of the replicas keep their bounds, whatever is requested.  *)

PolicyTyped == policy \in [Workers -> Policy]

LEMMA DefaultFits == DefaultPolicy \in Policy
BY MatchingAssumption DEF DefaultPolicy, Policy

LEMMA UpdateFits ==
  ASSUME PolicyTyped, NEW p \in Workers, NEW u \in Updates, UpdateWeights(p, u)
  PROVE  PolicyTyped'
<1>1. PICK old : old = policy[p]
  OBVIOUS
<1>2. old.weighting \in Weightings /\ old.auto \in 500..1000 /\ old.review \in 300..950
  BY <1>1 DEF PolicyTyped, Policy
<1>3. /\ u.weighting \in Weightings \cup {Absent} /\ u.auto \in Int \cup {Absent}
      /\ u.review \in Int \cup {Absent}
  BY MatchingAssumption
<1>4. PICK weighting, auto :
        /\ weighting = IF u.weighting = Absent THEN old.weighting ELSE u.weighting
        /\ auto = IF u.auto = Absent THEN old.auto ELSE Clamp(u.auto, 500, 1000)
  OBVIOUS
<1>5. weighting \in Weightings
  BY <1>2, <1>3, <1>4
<1>6. auto \in 500..1000
  <2>1. ASSUME u.auto # Absent PROVE Clamp(u.auto, 500, 1000) \in 500..1000
    <3>1. PICK x \in Int : x = u.auto
      BY <1>3, <2>1
    <3> QED
      BY <3>1 DEF Clamp, Least, Greatest
  <2> QED
    BY <1>2, <1>4, <2>1
<1>7. PICK review : review = IF u.review = Absent THEN old.review ELSE Clamp(u.review, 300, auto - 50)
  OBVIOUS
<1>8. review \in 300..950
  <2>1. ASSUME u.review # Absent PROVE Clamp(u.review, 300, auto - 50) \in 300..950
    <3>1. PICK x \in Int : x = u.review
      BY <1>3, <2>1
    <3> QED
      BY <1>6, <3>1 DEF Clamp, Least, Greatest
  <2> QED
    BY <1>2, <1>7, <2>1
<1>9. policy' = [policy EXCEPT ![p] = [weighting |-> weighting, auto |-> auto, review |-> review]]
  BY <1>1, <1>4, <1>7 DEF UpdateWeights
<1>10. [weighting |-> weighting, auto |-> auto, review |-> review] \in Policy
  BY <1>5, <1>6, <1>8 DEF Policy
<1> QED
  BY <1>9, <1>10 DEF PolicyTyped

LEMMA PolicyAlways == Spec => []PolicyTyped
<1>1. Init => PolicyTyped
  BY DefaultFits DEF Init, PolicyTyped
<1>2. PolicyTyped /\ [Next]_vars => PolicyTyped'
  <2> SUFFICES ASSUME PolicyTyped, [Next]_vars PROVE PolicyTyped'
    OBVIOUS
  <2>1. CASE UNCHANGED policy
    BY <2>1 DEF PolicyTyped
  <2>2. ASSUME NEW p \in Workers, Restarted(p) PROVE PolicyTyped'
    BY <2>2, DefaultFits DEF Restarted, PolicyTyped
  <2>3. ASSUME PolicyStep PROVE PolicyTyped'
    BY <2>2, <2>3, UpdateFits DEF PolicyStep, Restart
  <2>4. ASSUME StoreStep \/ CacheStep \/ Review PROVE UNCHANGED policy
    BY <2>4 DEF StoreStep, CreateEntity, BulkInsert, PatchEntity, BulkRolledBack, EnqueueMatch,
       EnqueueFails, HardErase, CacheStep, View, CacheExpire, FillCache, FillFails, Review, Decide
  <2>5. ASSUME NEW p \in Workers, Matcher(p) PROVE UNCHANGED policy
    BY <2>5 DEF Matcher, Dequeue, ReadCached, ReadStored, FillSource, SkipMissing, GenerateCandidates,
       ScoreCandidates, SaveCandidate, SaveFails, BuildClusters, NotifyOwner
  <2>6. ASSUME NEW p \in Workers, ExecutionFails(p) PROVE UNCHANGED policy \/ Restarted(p)
    BY <2>6 DEF ExecutionFails
  <2>7. UNCHANGED vars => UNCHANGED policy
    BY DEF vars
  <2> QED
    BY <2>1, <2>2, <2>3, <2>4, <2>5, <2>6, <2>7, StepCases
<1> QED
  BY <1>1, <1>2, PTL DEF Spec

-----------------------------------------------------------------------------
(* Types, continued.                                                       *)

\* An entity that was seen stays so.
LEMMA StaysSeen ==
  ASSUME DataTyped, [Next]_vars, NEW e \in Entities, Seen(e)
  PROVE  Seen(e)'
<1>1. ASSUME StoreStep PROVE Seen(e)'
  <2> USE DEF DataTyped, Seen
  <2>1. ASSUME NEW f \in Entities, NEW attrs \in Contents, CreateEntity(f, attrs) \/ BulkInsert(f, attrs)
        PROVE  Seen(e)'
    BY <2>1, MatchingAssumption DEF CreateEntity, BulkInsert
  <2>2. ASSUME NEW f \in Entities, NEW attrs \in Contents, PatchEntity(f, attrs)
        PROVE  Seen(e)'
    BY <2>2 DEF PatchEntity
  <2>3. ASSUME NEW f \in Entities, BulkRolledBack(f) \/ EnqueueMatch(f) \/ EnqueueFails(f) \/ HardErase(f)
        PROVE  Seen(e)'
    BY <2>3 DEF BulkRolledBack, EnqueueMatch, EnqueueFails, HardErase
  <2> QED
    BY <1>1, <2>1, <2>2, <2>3 DEF StoreStep
<1>2. CASE UNCHANGED storeVars
  BY <1>2 DEF Seen, storeVars
<1>3. ASSUME CacheStep \/ Review \/ PolicyStep PROVE UNCHANGED storeVars
  BY <1>3, PolicyOnly DEF CacheStep, View, CacheExpire, FillCache, FillFails, Review, Decide
<1>4. ASSUME NEW p \in Workers, Matcher(p) \/ ExecutionFails(p) PROVE UNCHANGED storeVars
  BY <1>4 DEF Matcher, Dequeue, ReadCached, ReadStored, FillSource, SkipMissing, GenerateCandidates,
     ScoreCandidates, SaveCandidate, SaveFails, BuildClusters, NotifyOwner, ExecutionFails
<1>5. UNCHANGED vars => UNCHANGED storeVars
  BY DEF vars
<1> QED
  BY <1>1, <1>2, <1>3, <1>4, <1>5, StepCases

\* What a worker has stays right when it is left alone.
Mine(p) == <<at[p], subject[p], source[p], under[p], found[p], scored[p], unsaved[p]>>

LEMMA LeftAlone ==
  ASSUME DataTyped, WorkersTyped, [Next]_vars, NEW p \in Workers, UNCHANGED Mine(p),
         Execution(p), Finding(p), Scoring(p)
  PROVE  Execution(p)' /\ Finding(p)' /\ Scoring(p)'
<1>1. \A e \in Entities : Seen(e) => Seen(e)'
  BY StaysSeen
<1>2. /\ at'[p] = at[p] /\ subject'[p] = subject[p] /\ source'[p] = source[p]
      /\ under'[p] = under[p] /\ found'[p] = found[p] /\ scored'[p] = scored[p] /\ unsaved'[p] = unsaved[p]
  BY DEF Mine
<1>3. Execution(p)'
  <2>1. at[p] # "idle" => subject[p] \in Entities
    BY MatchingAssumption DEF Execution, WorkersTyped
  <2> QED
    BY <1>1, <1>2, <2>1 DEF Execution
<1>4. Finding(p)'
  <2>1. found[p] \subseteq Entities
    BY DEF WorkersTyped
  <2> QED
    BY <1>1, <1>2, <2>1 DEF Finding
<1>5. Scoring(p)'
  <2>1. \A c \in scored[p] : Fits(under[p], c) /\ c.candidate \in Entities
    BY DEF Scoring, Fits, Candidate
  <2> QED
    BY <1>1, <1>2, <2>1 DEF Scoring
<1> QED
  BY <1>3, <1>4, <1>5

\* The workers whose data is left alone by a step keep it right.
LEMMA OthersLeftAlone ==
  ASSUME Typed, [Next]_vars, WorkersTyped', NEW p \in Workers,
         \A q \in Workers : q # p => UNCHANGED Mine(q),
         Execution(p)' /\ Finding(p)' /\ Scoring(p)'
  PROVE  ExecutionsFit'
BY LeftAlone DEF ExecutionsFit, Typed

LEMMA AllLeftAlone ==
  ASSUME Typed, [Next]_vars, UNCHANGED workerVars
  PROVE  WorkersTyped' /\ ExecutionsFit'
<1>1. WorkersTyped'
  BY DEF Typed, WorkersTyped, workerVars
<1>2. \A p \in Workers : UNCHANGED Mine(p)
  BY DEF Mine, workerVars
<1> QED
  BY <1>1, <1>2, LeftAlone DEF ExecutionsFit, Typed

LEMMA RowsLeftAlone ==
  ASSUME Typed, [Next]_vars, UNCHANGED matches
  PROVE  RowsFit'
<1>1. \A m \in matches : m.candidate \in Entities
  BY DEF Typed, RowsFit, RowFits, MatchRow
<1>2. \A e \in Entities : Seen(e) => Seen(e)'
  BY StaysSeen DEF Typed
<1> QED
  BY <1>1, <1>2 DEF Typed, RowsFit, RowFits

LEMMA TypedInit == Init => Typed
<1> SUFFICES ASSUME Init PROVE Typed
  OBVIOUS
<1>1. DataTyped /\ WorkersTyped /\ RowsFit
  BY DefaultFits DEF Init, DataTyped, WorkersTyped, RowsFit, Steps
<1>2. ExecutionsFit
  BY FS_EmptySet, MatchingAssumption DEF Init, ExecutionsFit, Execution, Finding, Scoring
<1> QED
  BY <1>1, <1>2 DEF Typed

LEMMA TypedStore ==
  ASSUME Typed, StoreStep
  PROVE  Typed'
<1>1. DataTyped'
  <2> USE DEF Typed, DataTyped, Seen, storeVars, cacheVars
  <2>1. ASSUME NEW e \in Entities, NEW attrs \in Contents, CreateEntity(e, attrs) \/ BulkInsert(e, attrs)
        PROVE  DataTyped'
    <3>1. attrs # Absent
      BY MatchingAssumption
    <3>2. CASE CreateEntity(e, attrs)
      BY <3>1, <3>2, MatchingAssumption DEF CreateEntity
    <3>3. CASE BulkInsert(e, attrs)
      BY <3>1, <3>3, MatchingAssumption DEF BulkInsert
    <3> QED
      BY <2>1, <3>2, <3>3
  <2>2. ASSUME NEW e \in Entities, NEW attrs \in Contents, PatchEntity(e, attrs)
        PROVE  DataTyped'
    BY <2>2, MatchingAssumption DEF PatchEntity
  <2>3. ASSUME NEW e \in Entities, BulkRolledBack(e)
        PROVE  DataTyped'
    BY <2>3, MatchingAssumption DEF BulkRolledBack
  <2>4. ASSUME NEW e \in Entities, EnqueueMatch(e) \/ EnqueueFails(e)
        PROVE  DataTyped'
    BY <2>4, MatchingAssumption DEF EnqueueMatch, EnqueueFails
  <2>5. ASSUME NEW e \in Entities, HardErase(e)
        PROVE  DataTyped'
    BY <2>5, MatchingAssumption DEF HardErase
  <2> QED
    BY <2>1, <2>2, <2>3, <2>4, <2>5 DEF StoreStep
<1>2. UNCHANGED <<workerVars, matches>>
  BY DEF StoreStep, CreateEntity, BulkInsert, PatchEntity, BulkRolledBack, EnqueueMatch, EnqueueFails,
     HardErase, reviewVars
<1>3. Next
  BY DEF StoreStep, Next
<1> QED
  BY <1>1, <1>2, <1>3, AllLeftAlone, RowsLeftAlone DEF Typed

LEMMA TypedCache ==
  ASSUME Typed, CacheStep
  PROVE  Typed'
<1>1. DataTyped'
  <2> USE DEF Typed, DataTyped, Seen, storeVars
  <2>1. ASSUME NEW e \in Entities, View(e) PROVE DataTyped'
    BY <2>1 DEF View
  <2>2. ASSUME NEW e \in Entities, CacheExpire(e) PROVE DataTyped'
    BY <2>2 DEF CacheExpire
  <2>3. ASSUME NEW e \in Entities, NEW attrs \in Contents, FillCache(e, attrs) PROVE DataTyped'
    BY <2>3 DEF FillCache
  <2>4. ASSUME NEW e \in Entities, NEW attrs \in Contents, FillFails(e, attrs) PROVE DataTyped'
    BY <2>4 DEF FillFails
  <2> QED
    BY <2>1, <2>2, <2>3, <2>4 DEF CacheStep
<1>2. UNCHANGED <<workerVars, matches>>
  BY DEF CacheStep, View, CacheExpire, FillCache, FillFails, reviewVars
<1>3. Next
  BY DEF CacheStep, Next
<1> QED
  BY <1>1, <1>2, <1>3, AllLeftAlone, RowsLeftAlone DEF Typed

\* A decision may change the status of a row, and what is acknowledged on it.
LEMMA WithStatus ==
  ASSUME NEW n \in MatchRow, NEW st \in {"Matched", "Rejected"}, NEW r, r = [n EXCEPT !.status = st]
  PROVE  /\ r \in MatchRow /\ r.source = n.source /\ r.candidate = n.candidate
         /\ r.score = n.score /\ r.policy = n.policy /\ r.ai = n.ai /\ r.review = n.review /\ r.decided = n.decided
         /\ r.status = st
<1>1. r \in MatchRow
  BY DEF MatchRow
<1> QED
  BY <1>1 DEF MatchRow

LEMMA WithDecided ==
  ASSUME NEW n \in MatchRow, NEW st \in {"Matched", "Rejected"}, NEW r, r = [n EXCEPT !.decided = st]
  PROVE  /\ r \in MatchRow /\ r.source = n.source /\ r.candidate = n.candidate
         /\ r.score = n.score /\ r.policy = n.policy /\ r.ai = n.ai /\ r.review = n.review /\ r.status = n.status
         /\ r.decided = st
<1>1. r \in MatchRow
  BY DEF MatchRow
<1> QED
  BY <1>1 DEF MatchRow

Same(r, n) ==
  /\ r.source = n.source /\ r.candidate = n.candidate /\ r.score = n.score /\ r.policy = n.policy
  /\ r.ai = n.ai /\ r.review = n.review

\* What a decision about m leaves of a row n.
AfterDecision(n, m, status, id) ==
  LET row == IF n \in Updated(m, id) THEN [n EXCEPT !.status = status] ELSE n
  IN IF n = m THEN [row EXCEPT !.decided = status] ELSE row

LEMMA DecideLeaves ==
  ASSUME RowsFit, NEW m \in matches, NEW status \in {"Matched", "Rejected"}, NEW id,
         Decide(m, status, id), NEW r \in matches'
  PROVE  \E n \in matches :
           /\ r \in MatchRow /\ Same(r, n) /\ r = AfterDecision(n, m, status, id)
           /\ IF n \in Updated(m, id) THEN r.status = status ELSE r.status = n.status
           /\ IF n = m THEN r.decided = status ELSE r.decided = n.decided
<1> DEFINE set(n) == IF n \in Updated(m, id) THEN [n EXCEPT !.status = status] ELSE n
<1>1. matches' = {set(n) : n \in matches \ {m}} \cup {[set(m) EXCEPT !.decided = status]}
  BY DEF Decide
<1>2. ASSUME NEW n \in matches
      PROVE  /\ set(n) \in MatchRow /\ Same(set(n), n) /\ set(n).decided = n.decided
             /\ IF n \in Updated(m, id) THEN set(n).status = status ELSE set(n).status = n.status
  <2>1. n \in MatchRow
    BY DEF RowsFit, RowFits
  <2>2. CASE n \in Updated(m, id)
    BY <2>1, <2>2, WithStatus DEF Same
  <2>3. CASE n \notin Updated(m, id)
    BY <2>1, <2>3 DEF Same
  <2> QED
    BY <2>2, <2>3
<1>3. /\ \A n \in matches \ {m} : AfterDecision(n, m, status, id) = set(n)
      /\ AfterDecision(m, m, status, id) = [set(m) EXCEPT !.decided = status]
  BY DEF AfterDecision
<1> HIDE DEF set
<1>4. CASE \E n \in matches \ {m} : r = set(n)
  BY <1>2, <1>4, <1>3
<1>5. CASE r = [set(m) EXCEPT !.decided = status]
  <2>1. PICK x : x = set(m)
    OBVIOUS
  <2>2. x \in MatchRow /\ r = [x EXCEPT !.decided = status]
    BY <1>2, <1>5, <2>1
  <2>3. /\ r \in MatchRow /\ Same(r, x) /\ r.status = x.status /\ r.decided = status
    BY <2>2, WithDecided DEF Same
  <2>4. Same(r, m) /\ r.status = set(m).status
    BY <1>2, <2>1, <2>3 DEF Same
  <2> QED
    BY <1>2, <1>5, <1>3, <2>3, <2>4
<1> QED
  BY <1>1, <1>4, <1>5

LEMMA DecideKeeps ==
  ASSUME RowsFit, NEW m \in matches, NEW status \in {"Matched", "Rejected"}, NEW id,
         Decide(m, status, id), NEW n \in matches
  PROVE  \E r \in matches' : r.source = n.source /\ r.candidate = n.candidate
<1> DEFINE set(l) == IF l \in Updated(m, id) THEN [l EXCEPT !.status = status] ELSE l
<1>1. matches' = {set(l) : l \in matches \ {m}} \cup {[set(m) EXCEPT !.decided = status]}
  BY DEF Decide
<1>2. \A l \in matches : set(l) \in MatchRow /\ set(l).source = l.source /\ set(l).candidate = l.candidate
  BY WithStatus DEF RowsFit, RowFits
<1> HIDE DEF set
<1>3. CASE n # m
  BY <1>1, <1>2, <1>3
<1>4. CASE n = m
  <2>1. PICK x, r : x = set(m) /\ r = [x EXCEPT !.decided = status]
    OBVIOUS
  <2>2. r.source = x.source /\ r.candidate = x.candidate
    BY <1>2, <2>1, WithDecided
  <2>3. r \in matches'
    BY <1>1, <2>1
  <2> QED
    BY <1>2, <1>4, <2>1, <2>2, <2>3
<1> QED
  BY <1>3, <1>4

LEMMA TypedReview ==
  ASSUME Typed, Review
  PROVE  Typed'
<1> PICK m \in matches, status \in {"Matched", "Rejected"}, id \in CandidateIds : Decide(m, status, id)
  BY DEF Review
<1>1. UNCHANGED <<storeVars, cacheVars, queue, workerVars>>
  BY DEF Decide
<1>2. DataTyped'
  BY <1>1 DEF Typed, DataTyped, Seen, storeVars, cacheVars
<1>3. RowsFit'
  <2> SUFFICES ASSUME NEW r \in matches' PROVE RowFits(r)'
    BY DEF RowsFit
  <2>1. PICK n \in matches : r \in MatchRow /\ Same(r, n)
    BY DecideLeaves DEF Typed
  <2>2. RowFits(n) /\ Seen(n.candidate)'
    BY <1>1 DEF Typed, RowsFit, RowFits, Seen, storeVars
  <2>3. /\ r.candidate # r.source /\ Seen(r.candidate)'
        /\ r.score = n.score /\ r.policy = n.policy /\ r.ai = n.ai /\ r.review = n.review
    BY <2>1, <2>2 DEF RowFits, Same
  <2> QED
    BY <2>1, <2>2, <2>3 DEF RowFits
<1>4. Next
  BY DEF Next
<1> QED
  BY <1>1, <1>2, <1>3, <1>4, AllLeftAlone DEF Typed

-----------------------------------------------------------------------------
(* The steps of an execution keep the types.                               *)

\* What Executing and Ended leave of the worker, and of the others.
LEMMA ExecutingEffect ==
  ASSUME WorkersTyped, NEW p \in Workers, NEW e \in Bulk, NEW attrs \in Contents \cup {Absent},
         NEW s \in Steps, at' = [at EXCEPT ![p] = s], Executing(p, e, attrs)
  PROVE  /\ WorkersTyped' /\ \A q \in Workers : q # p => UNCHANGED Mine(q)
         /\ at'[p] = s /\ subject'[p] = e /\ source'[p] = attrs
         /\ UNCHANGED <<under, found, scored, unsaved, clusters>>
BY DEF WorkersTyped, Executing, Mine

LEMMA EndedEffect ==
  ASSUME WorkersTyped, NEW p \in Workers, Ended(p)
  PROVE  /\ WorkersTyped' /\ \A q \in Workers : q # p => UNCHANGED Mine(q)
         /\ at'[p] = "idle" /\ subject'[p] = Absent
         /\ found'[p] = {} /\ scored'[p] = {} /\ unsaved'[p] = {}
BY DefaultFits DEF WorkersTyped, Ended, Mine, Steps

\* A worker that is at work matches an entity.
LEMMA AtWork ==
  ASSUME Typed, NEW p \in Workers, at[p] # "idle"
  PROVE  subject[p] \in Bulk /\ subject[p] \in Entities /\ Seen(subject[p])
BY MatchingAssumption DEF Typed, WorkersTyped, ExecutionsFit, Execution

LEMMA TypedDequeue ==
  ASSUME Typed, NEW p \in Workers, NEW e \in Entities, Dequeue(p, e)
  PROVE  Typed'
<1>1. Next
  BY DEF Next, Matcher
<1>2. e \in Bulk /\ e # Absent /\ Seen(e)
  BY MatchingAssumption DEF Dequeue, Typed, DataTyped
<1>3. /\ WorkersTyped' /\ \A q \in Workers : q # p => UNCHANGED Mine(q)
      /\ at'[p] = "read" /\ subject'[p] = e /\ source'[p] = Absent
      /\ UNCHANGED <<under, found, scored, unsaved, clusters>>
  BY <1>2, ExecutingEffect DEF Dequeue, Steps, Typed
<1>4. DataTyped'
  BY DEF Dequeue, Typed, DataTyped, Seen, storeVars, cacheVars
<1>5. Execution(p)'
  <2>1. Seen(e)'
    BY <1>1, <1>2, StaysSeen DEF Typed
  <2> QED
    BY <1>2, <1>3, <2>1 DEF Execution
<1>6. Finding(p)' /\ Scoring(p)'
  BY <1>3 DEF Dequeue, Typed, ExecutionsFit, Finding, Scoring
<1>7. RowsFit'
  BY <1>1, RowsLeftAlone DEF Dequeue, reviewVars
<1> QED
  BY <1>1, <1>3, <1>4, <1>5, <1>6, <1>7, OthersLeftAlone DEF Typed

LEMMA TypedRead ==
  ASSUME Typed, NEW p \in Workers, ReadCached(p) \/ ReadStored(p)
  PROVE  Typed'
<1>1. Next
  BY DEF Next, Matcher
<1>2. subject[p] \in Bulk /\ subject[p] \in Entities /\ Seen(subject[p]) /\ subject[p] # Absent
  BY AtWork, MatchingAssumption DEF ReadCached, ReadStored
<1>3. PICK attrs \in Contents, s \in {"find", "fill"} :
        at' = [at EXCEPT ![p] = s] /\ Executing(p, subject[p], attrs)
  BY <1>2 DEF ReadCached, ReadStored, Typed, DataTyped
<1>4. UNCHANGED <<storeVars, cacheVars, queue, reviewVars>> /\ at[p] = "read"
  BY DEF ReadCached, ReadStored
<1>5. /\ WorkersTyped' /\ \A q \in Workers : q # p => UNCHANGED Mine(q)
      /\ at'[p] = s /\ subject'[p] = subject[p] /\ source'[p] = attrs
      /\ UNCHANGED <<under, found, scored, unsaved, clusters>>
  BY <1>2, <1>3, ExecutingEffect DEF Steps, Typed
<1>6. DataTyped'
  BY <1>4 DEF Typed, DataTyped, Seen, storeVars, cacheVars
<1>7. Execution(p)'
  BY <1>2, <1>4, <1>5 DEF Execution, Seen, storeVars
<1>8. Finding(p)' /\ Scoring(p)'
  BY <1>4, <1>5 DEF Typed, ExecutionsFit, Finding, Scoring, Seen, storeVars
<1>9. RowsFit'
  BY <1>1, <1>4, RowsLeftAlone DEF reviewVars
<1> QED
  BY <1>1, <1>5, <1>6, <1>7, <1>8, <1>9, OthersLeftAlone DEF Typed

LEMMA TypedFill ==
  ASSUME Typed, NEW p \in Workers, FillSource(p)
  PROVE  Typed'
<1>1. Next
  BY DEF Next, Matcher
<1>2. subject[p] \in Bulk /\ subject[p] \in Entities /\ source[p] \in Contents /\ at[p] = "fill"
  BY AtWork DEF FillSource, Typed, ExecutionsFit, Execution
<1>3. /\ UNCHANGED <<storeVars, fills, queue, subject, source, under, found, scored, unsaved, clusters, reviewVars>>
      /\ at' = [at EXCEPT ![p] = "find"]
      /\ cached' = [cached EXCEPT ![subject[p]] = source[p]] \/ cached' = cached
  BY DEF FillSource
<1>4. DataTyped'
  BY <1>2, <1>3 DEF Typed, DataTyped, Seen, storeVars
<1>5. /\ WorkersTyped' /\ \A q \in Workers : q # p => UNCHANGED Mine(q)
      /\ at'[p] = "find"
  BY <1>3 DEF Typed, WorkersTyped, Mine, Steps
<1>6. Execution(p)' /\ Finding(p)' /\ Scoring(p)'
  BY <1>2, <1>3, <1>5 DEF Typed, ExecutionsFit, Execution, Finding, Scoring, Seen, storeVars
<1>7. RowsFit'
  BY <1>1, <1>3, RowsLeftAlone DEF reviewVars
<1> QED
  BY <1>1, <1>4, <1>5, <1>6, <1>7, OthersLeftAlone DEF Typed

LEMMA TypedEnd ==
  ASSUME Typed, NEW p \in Workers, SkipMissing(p) \/ NotifyOwner(p) \/ ExecutionFails(p)
  PROVE  Typed'
<1>1. Next
  BY DEF Next, Matcher
<1>2. Ended(p) /\ UNCHANGED <<storeVars, cacheVars, queue, matches>>
  BY DEF SkipMissing, NotifyOwner, ExecutionFails, reviewVars
<1>3. /\ WorkersTyped' /\ \A q \in Workers : q # p => UNCHANGED Mine(q)
      /\ at'[p] = "idle" /\ subject'[p] = Absent
      /\ found'[p] = {} /\ scored'[p] = {} /\ unsaved'[p] = {}
  BY <1>2, EndedEffect DEF Typed
<1>4. DataTyped'
  BY <1>2 DEF Typed, DataTyped, Seen, storeVars, cacheVars
<1>5. Execution(p)' /\ Finding(p)' /\ Scoring(p)'
  <2>1. IsFiniteSet({}) /\ Cardinality({}) <= MaxCandidates
    BY FS_EmptySet, MatchingAssumption
  <2> QED
    BY <1>3, <2>1 DEF Execution, Finding, Scoring
<1>6. RowsFit'
  BY <1>1, <1>2, RowsLeftAlone
<1> QED
  BY <1>1, <1>3, <1>4, <1>5, <1>6, OthersLeftAlone DEF Typed

\* A limit leaves no more than max_candidates.
LEMMA LimitedFits ==
  ASSUME NEW S \in SUBSET Entities, NEW T \in Limited(S)
  PROVE  T \subseteq S /\ IsFiniteSet(T) /\ Cardinality(T) <= MaxCandidates
<1>1. IsFiniteSet(S) /\ Cardinality(S) \in Nat
  BY MatchingAssumption, FS_Subset, FS_CardinalityType
<1>2. T \in SUBSET S
  BY DEF Limited
<1>3. IsFiniteSet(T)
  BY <1>1, <1>2, FS_Subset
<1> QED
  BY <1>1, <1>2, <1>3, MatchingAssumption DEF Limited

LEMMA CandidatesAre ==
  ASSUME NEW e, NEW attrs, NEW ids \in Candidates(e, attrs)
  PROVE  \E exact \in Limited(ExactMatches(attrs)), near \in SUBSET {f \in Entities : stored[f] # Absent} :
           ids \in Limited((exact \cup near) \ {e})
<1> DEFINE All == {Limited((exact \cup near) \ {e}) :
              exact \in Limited(ExactMatches(attrs)), near \in SUBSET {f \in Entities : stored[f] # Absent}}
<1>1. PICK X \in All : ids \in X
  <2> HIDE DEF All
  <2>1. Candidates(e, attrs) = UNION All
    BY DEF Candidates, All
  <2> QED
    BY <2>1
<1>2. PICK exact \in Limited(ExactMatches(attrs)), near \in SUBSET {f \in Entities : stored[f] # Absent} :
        X = Limited((exact \cup near) \ {e})
  BY SMTT(60)
<1> HIDE DEF All
<1> QED
  BY <1>1, <1>2, Zenon

LEMMA CandidatesFit ==
  ASSUME NEW e \in Entities, NEW attrs, NEW ids \in Candidates(e, attrs)
  PROVE  /\ ids \in SUBSET Entities /\ IsFiniteSet(ids) /\ Cardinality(ids) <= MaxCandidates
         /\ \A f \in ids : f # e /\ stored[f] # Absent
<1>1. PICK exact \in Limited(ExactMatches(attrs)), near \in SUBSET {f \in Entities : stored[f] # Absent} :
        ids \in Limited((exact \cup near) \ {e})
  BY CandidatesAre
<1>2. \A f \in ExactMatches(attrs) : f \in Entities /\ stored[f] # Absent
  BY DEF ExactMatches
<1>3. exact \subseteq ExactMatches(attrs)
  BY <1>2, LimitedFits
<1>4. (exact \cup near) \ {e} \in SUBSET Entities
  BY <1>2, <1>3
<1>5. ids \subseteq (exact \cup near) \ {e} /\ IsFiniteSet(ids) /\ Cardinality(ids) <= MaxCandidates
  BY <1>1, <1>4, LimitedFits
<1> QED
  BY <1>2, <1>3, <1>4, <1>5

LEMMA TypedFind ==
  ASSUME Typed, PolicyTyped, NEW p \in Workers, GenerateCandidates(p)
  PROVE  Typed'
<1>1. Next
  BY DEF Next, Matcher
<1>2. PICK ids \in Candidates(subject[p], source[p]) :
        found' = [found EXCEPT ![p] = ids] /\ under' = [under EXCEPT ![p] = policy[p]]
  BY DEF GenerateCandidates
<1>3. /\ UNCHANGED <<storeVars, cacheVars, queue, subject, source, scored, unsaved, clusters, reviewVars>>
      /\ at[p] = "find" /\ at' = [at EXCEPT ![p] = "score"]
  BY DEF GenerateCandidates
<1>4. subject[p] \in Entities
  BY <1>3, AtWork
<1>5. /\ ids \in SUBSET Entities /\ IsFiniteSet(ids) /\ Cardinality(ids) <= MaxCandidates
      /\ \A f \in ids : f # subject[p] /\ stored[f] # Absent
  BY <1>4, CandidatesFit
<1>6. /\ WorkersTyped' /\ \A q \in Workers : q # p => UNCHANGED Mine(q)
      /\ at'[p] = "score" /\ found'[p] = ids
  BY <1>2, <1>3, <1>5 DEF PolicyTyped, Typed, WorkersTyped, Mine, Steps
<1>7. DataTyped'
  BY <1>3 DEF Typed, DataTyped, Seen, storeVars, cacheVars
<1>8. Execution(p)' /\ Scoring(p)'
  BY <1>3, <1>6 DEF Typed, ExecutionsFit, Execution, Scoring, Seen, storeVars
<1>9. Finding(p)'
  BY <1>3, <1>5, <1>6 DEF Finding, Seen, storeVars
<1>10. RowsFit'
  BY <1>1, <1>3, RowsLeftAlone DEF reviewVars
<1> QED
  BY <1>1, <1>6, <1>7, <1>8, <1>9, <1>10, OthersLeftAlone DEF Typed

\* The response: each candidate that is still there once, as scored and resolved.
LEMMA ScoresEffect ==
  ASSUME Typed, NEW p \in Workers, ScoreCandidates(p)
  PROVE  \E all \in SUBSET Candidate :
           /\ scored' = [scored EXCEPT ![p] = all] /\ unsaved' = [unsaved EXCEPT ![p] = all]
           /\ IsFiniteSet(all)
           /\ \A c \in all : Fits(under[p], c) /\ c.candidate \in found[p]
           /\ \A c, d \in all : c.candidate = d.candidate => c = d
           /\ \A e \in found[p] : stored[e] # Absent => \E c \in all : c.candidate = e
<1> DEFINE loaded == {e \in found[p] : stored[e] # Absent}
           first == [e \in loaded |-> Scored(under[p], e, source[p], stored[e])]
<1>1. PICK ai \in [{e \in loaded : first[e].status = "RequiresReview"} -> {"match", "no_match", "unavailable"}] :
        LET all == {IF e \in DOMAIN ai THEN Resolved(first[e], ai[e]) ELSE first[e] : e \in loaded}
        IN scored' = [scored EXCEPT ![p] = all] /\ unsaved' = [unsaved EXCEPT ![p] = all]
  BY DEF ScoreCandidates
<1> DEFINE answer == [e \in loaded |-> IF e \in DOMAIN ai THEN Resolved(first[e], ai[e]) ELSE first[e]]
           all == {answer[e] : e \in loaded}
<1>2. scored' = [scored EXCEPT ![p] = all] /\ unsaved' = [unsaved EXCEPT ![p] = all]
  BY <1>1
<1>3. under[p] \in Policy /\ \A e \in loaded : e \in Entities /\ source[p] \in Contents /\ stored[e] \in Contents
  BY DEF ScoreCandidates, Typed, DataTyped, WorkersTyped, ExecutionsFit, Execution
<1>4. ASSUME NEW e \in loaded
      PROVE  Fits(under[p], answer[e]) /\ answer[e].candidate = e
  <2>1. PICK c : c = first[e]
    OBVIOUS
  <2>2. Fits(under[p], c) /\ c.candidate = e /\ c.ai = "none"
    BY <1>3, <2>1, ScoredFits
  <2>3. CASE e \in DOMAIN ai
    <3>1. c.status = "RequiresReview" /\ ai[e] \in {"match", "no_match", "unavailable"}
      BY <2>1, <2>3
    <3> QED
      BY <2>1, <2>2, <2>3, <3>1, ResolvedFits
  <2>4. CASE e \notin DOMAIN ai
    BY <2>1, <2>2, <2>4
  <2> QED
    BY <2>3, <2>4
<1>5. IsFiniteSet(all)
  <2>1. IsFiniteSet(found[p]) /\ loaded \in SUBSET found[p]
    BY DEF Typed, ExecutionsFit, Finding
  <2>2. IsFiniteSet(loaded)
    BY <2>1, FS_Subset
  <2>3. answer \in Surjection(loaded, all)
    BY DEF Surjection
  <2> HIDE DEF answer, all, loaded
  <2> QED
    BY <2>2, <2>3, FS_Surjection
<1> HIDE DEF answer
<1>6. all \in SUBSET Candidate
  BY <1>4 DEF Fits
<1>7. \A c \in all : Fits(under[p], c) /\ c.candidate \in found[p]
  BY <1>4
<1>8. \A c, d \in all : c.candidate = d.candidate => c = d
  BY <1>4
<1>9. \A e \in found[p] : stored[e] # Absent => \E c \in all : c.candidate = e
  BY <1>4
<1> HIDE DEF all
<1> QED
  BY <1>2, <1>5, <1>6, <1>7, <1>8, <1>9

LEMMA TypedScore ==
  ASSUME Typed, NEW p \in Workers, ScoreCandidates(p)
  PROVE  Typed'
<1>1. Next
  BY DEF Next, Matcher
<1>2. PICK all \in SUBSET Candidate :
        /\ scored' = [scored EXCEPT ![p] = all] /\ unsaved' = [unsaved EXCEPT ![p] = all]
        /\ IsFiniteSet(all)
        /\ \A c \in all : Fits(under[p], c) /\ c.candidate \in found[p]
        /\ \A c, d \in all : c.candidate = d.candidate => c = d
  BY ScoresEffect
<1>3. /\ UNCHANGED <<storeVars, cacheVars, queue, subject, source, under, found, clusters, reviewVars>>
      /\ at[p] = "score" /\ at' = [at EXCEPT ![p] = "save"]
  BY DEF ScoreCandidates
<1>4. /\ WorkersTyped' /\ \A q \in Workers : q # p => UNCHANGED Mine(q)
      /\ at'[p] = "save" /\ scored'[p] = all /\ unsaved'[p] = all
  BY <1>2, <1>3 DEF Typed, WorkersTyped, Mine, Steps
<1>5. DataTyped'
  BY <1>3 DEF Typed, DataTyped, Seen, storeVars, cacheVars
<1>6. Execution(p)' /\ Finding(p)'
  BY <1>3, <1>4 DEF Typed, ExecutionsFit, Execution, Finding, Seen, storeVars
<1>7. Scoring(p)'
  <2>1. \A e \in found[p] : e # subject'[p] /\ Seen(e)'
    BY <1>3 DEF Typed, ExecutionsFit, Finding, Seen, storeVars
  <2> QED
    BY <1>2, <1>3, <1>4, <2>1 DEF Scoring
<1>8. RowsFit'
  BY <1>1, <1>3, RowsLeftAlone DEF reviewVars
<1> QED
  BY <1>1, <1>4, <1>5, <1>6, <1>7, <1>8, OthersLeftAlone DEF Typed

\* The row of a candidate.
LEMMA RowHasFields ==
  ASSUME Typed, NEW p \in Workers, at[p] = "save", NEW c \in scored[p], NEW r, r = Row(p, c)
  PROVE  /\ r \in MatchRow /\ r.source = subject[p] /\ r.candidate = c.candidate /\ r.policy = under[p]
         /\ r.score = c.score /\ r.ai = c.ai /\ r.review = c.review /\ r.status = c.status
         /\ r.decided = "none"
<1>1. c \in Candidate /\ subject[p] \in Bulk /\ under[p] \in Policy
  BY AtWork DEF Typed, WorkersTyped
<1>2. r = [source |-> subject[p], candidate |-> c.candidate, score |-> c.score, policy |-> under[p],
           status |-> c.status, ai |-> c.ai, review |-> c.review, recommended |-> c.recommended,
           decided |-> "none"]
  BY DEF Row
<1>3. r \in MatchRow
  BY <1>1, <1>2 DEF Candidate, MatchRow
<1> QED
  BY <1>2, <1>3

\* Whether a candidate is stored or not, it is no longer to store.
LEMMA TypedSave ==
  ASSUME Typed, NEW p \in Workers, NEW c \in unsaved[p], SaveCandidate(p, c) \/ SaveFails(p, c)
  PROVE  Typed'
<1>1. Next
  BY DEF Next, Matcher
<1>2. /\ UNCHANGED <<storeVars, cacheVars, queue, at, subject, source, under, found, scored, clusters>>
      /\ at[p] = "save" /\ unsaved' = [unsaved EXCEPT ![p] = @ \ {c}]
      /\ matches' = matches \/ matches' = matches \cup {Row(p, c)}
  BY DEF SaveCandidate, SaveFails, reviewVars
<1>3. /\ WorkersTyped' /\ \A q \in Workers : q # p => UNCHANGED Mine(q)
      /\ unsaved'[p] = unsaved[p] \ {c}
  BY <1>2 DEF Typed, WorkersTyped, Mine
<1>4. DataTyped'
  BY <1>2 DEF Typed, DataTyped, Seen, storeVars, cacheVars
<1>5. Execution(p)' /\ Finding(p)'
  BY <1>2 DEF Typed, ExecutionsFit, Execution, Finding, Seen, storeVars
<1>6. Scoring(p)'
  BY <1>2, <1>3 DEF Typed, ExecutionsFit, Scoring, Seen, storeVars
<1>7. RowsFit'
  <2>1. PICK r : r = Row(p, c)
    OBVIOUS
  <2>2. c \in scored[p] /\ Fits(under[p], c) /\ c.candidate # subject[p] /\ Seen(c.candidate)
    BY DEF Typed, ExecutionsFit, Scoring
  <2>3. RowFits(r)
    BY <1>2, <2>1, <2>2, RowHasFields DEF RowFits, Fits
  <2>4. \A m \in matches' : RowFits(m)
    BY <1>2, <2>1, <2>3 DEF Typed, RowsFit
  <2> QED
    BY <1>2, <2>4 DEF RowsFit, RowFits, Seen, storeVars
<1> QED
  BY <1>1, <1>3, <1>4, <1>5, <1>6, <1>7, OthersLeftAlone DEF Typed

LEMMA TypedCluster ==
  ASSUME Typed, NEW p \in Workers, BuildClusters(p)
  PROVE  Typed'
<1>1. Next
  BY DEF Next, Matcher
<1>2. /\ UNCHANGED <<storeVars, cacheVars, queue, subject, source, under, found, scored, unsaved, reviewVars>>
      /\ at[p] = "save" /\ unsaved[p] = {} /\ at' = [at EXCEPT ![p] = "notify"]
  BY DEF BuildClusters
<1>3. /\ WorkersTyped' /\ \A q \in Workers : q # p => UNCHANGED Mine(q)
      /\ at'[p] = "notify"
  BY <1>2 DEF Typed, WorkersTyped, Mine, Steps
<1>4. DataTyped'
  BY <1>2 DEF Typed, DataTyped, Seen, storeVars, cacheVars
<1>5. Execution(p)' /\ Finding(p)' /\ Scoring(p)'
  BY <1>2, <1>3 DEF Typed, ExecutionsFit, Execution, Finding, Scoring, Seen, storeVars
<1>6. RowsFit'
  BY <1>1, <1>2, RowsLeftAlone DEF reviewVars
<1> QED
  BY <1>1, <1>3, <1>4, <1>5, <1>6, OthersLeftAlone DEF Typed

LEMMA TypedPolicy ==
  ASSUME Typed, PolicyStep
  PROVE  Typed'
<1>1. UNCHANGED <<storeVars, cacheVars, queue, workerVars, matches>>
  BY PolicyOnly DEF reviewVars
<1>2. DataTyped'
  BY <1>1 DEF Typed, DataTyped, Seen, storeVars, cacheVars
<1>3. Next
  BY DEF PolicyStep, Next
<1> QED
  BY <1>1, <1>2, <1>3, AllLeftAlone, RowsLeftAlone DEF Typed

LEMMA TypedStep == Typed /\ PolicyTyped /\ [Next]_vars => Typed'
<1> SUFFICES ASSUME Typed, PolicyTyped, [Next]_vars PROVE Typed'
  OBVIOUS
<1>1. ASSUME NEW p \in Workers, Matcher(p) PROVE Typed'
  BY <1>1, TypedDequeue, TypedRead, TypedFill, TypedEnd, TypedFind, TypedScore, TypedSave, TypedCluster
  DEF Matcher
<1>2. ASSUME NEW p \in Workers, ExecutionFails(p) PROVE Typed'
  BY <1>2, TypedEnd
<1>3. CASE UNCHANGED vars
  BY <1>3 DEF vars, storeVars, cacheVars, workerVars, reviewVars, Typed, DataTyped, WorkersTyped,
     ExecutionsFit, Execution, Finding, Scoring, RowsFit, RowFits, Seen
<1> QED
  BY <1>1, <1>2, <1>3, TypedStore, TypedCache, TypedReview, TypedPolicy, StepCases

LEMMA TypedAlways == Spec => []Typed
BY TypedInit, TypedStep, PolicyAlways, PTL DEF Spec

\* Rows name stored or once stored entities, never one as a candidate of itself,
\* and an execution has still to store only what is in its response.
THEOREM TypeCorrect == Spec => []TypeOK
<1>1. Typed /\ PolicyTyped => TypeOK
  <2> SUFFICES ASSUME Typed, PolicyTyped PROVE TypeOK
    OBVIOUS
  <2>1. \A p \in Workers :
          /\ found[p] \subseteq Entities \ {subject[p]} /\ Cardinality(found[p]) <= MaxCandidates
          /\ scored[p] \subseteq Candidate /\ unsaved[p] \subseteq scored[p]
    BY DEF Typed, WorkersTyped, ExecutionsFit, Finding, Scoring
  <2>2. \A m \in matches :
          m.candidate \in Entities \ {m.source} /\ (stored[m.candidate] # Absent \/ m.candidate \in changed)
    BY DEF Typed, RowsFit, RowFits, MatchRow, Seen
  <2> QED
    BY <2>1, <2>2 DEF Typed, PolicyTyped, DataTyped, WorkersTyped, Steps, TypeOK
<1> QED
  BY <1>1, TypedAlways, PolicyAlways, PTL

\* The review queue holds exactly the pairs in the grey zone that the AI service
\* did not decide about (matcher.rs:124-183), the grey zone of the policy when the
\* execution began, whatever policies are requested meanwhile.
THEOREM QueueCorrect == Spec => []QueueHoldsUnresolved
<1>1. Typed => QueueHoldsUnresolved
  BY DEF Typed, RowsFit, RowFits, QueueHoldsUnresolved
<1> QED
  BY <1>1, TypedAlways, PTL

-----------------------------------------------------------------------------
(* Clusters.  A candidate whose one edge outweighs the source raises the   *)
(* mean of the edges of the source itself, and the others have at least    *)
(* the review threshold: with two edges and a threshold of 550, or with    *)
(* three and one of 300, the degree of the source makes up for the rest.   *)

\* The mean m of k numbers, of which v is one and the others have lo at least.
Lifted(k, lo, v, m) == v + (k - 1) * lo < k * (m + 1)

LEMMA MeanWith ==
  ASSUME NEW n, IsFiniteSet(DOMAIN n), NEW lo \in Nat, NEW hi \in Nat,
         \A x \in DOMAIN n : n[x] \in lo..hi, NEW y \in DOMAIN n
  PROVE  /\ Mean(n) \in lo..hi
         /\ Cardinality(DOMAIN n) \in Nat \ {0}
         /\ Lifted(Cardinality(DOMAIN n), lo, n[y], Mean(n))
<1>1. PICK S : S = DOMAIN n
  OBVIOUS
<1>2. /\ Mean(n) = Total(n, S) \div Cardinality(S) /\ Mean(n) \in lo..hi
  BY <1>1, MeanType
<1>3. PICK R : R = S \ {y}
  OBVIOUS
<1>4. IsFiniteSet(R) /\ Cardinality(R) = Cardinality(S) - 1
  BY <1>1, <1>3, FS_RemoveElement
<1>5. \A x \in S : n[x] \in Nat
  BY <1>1
<1>6. Total(n, S) = n[y] + Total(n, R)
  BY <1>1, <1>3, <1>5, TotalWithout
<1>7. \A x \in R : n[x] \in lo..hi
  BY <1>1, <1>3
<1>8. Cardinality(R) \in Nat /\ Total(n, R) \in Nat /\ Cardinality(R) * lo <= Total(n, R)
  BY <1>4, <1>7, TotalBounds
<1>9. Cardinality(S) \in Nat
  BY <1>1, FS_CardinalityType
<1>10. PICK k, t, u, v, m :
         /\ k = Cardinality(S) /\ t = Total(n, S) /\ u = Total(n, R) /\ v = n[y] /\ m = Mean(n)
  OBVIOUS
<1>11. /\ k \in Nat /\ k - 1 \in Nat /\ u \in Nat /\ v \in Nat /\ t = v + u /\ (k - 1) * lo <= u
       /\ m = t \div k
  BY <1>1, <1>2, <1>4, <1>5, <1>6, <1>8, <1>9, <1>10
<1>12. k \in Nat \ {0} /\ t \in Nat /\ m \in Int
  BY <1>1, <1>2, <1>10, <1>11
<1>13. t < k * (m + 1)
  BY <1>11, <1>12
<1>14. (k - 1) * lo \in Int /\ k * (m + 1) \in Int
  BY <1>12
<1>15. Lifted(k, lo, v, m)
  BY <1>11, <1>12, <1>13, <1>14 DEF Lifted
<1> QED
  BY <1>1, <1>2, <1>10, <1>12, <1>15

\* The scores and confidences of the candidates that are worth an edge.
EdgeFits(pol, c) == Fits(pol, c) /\ c.score >= pol.review

LEMMA EdgeBounds ==
  ASSUME NEW pol \in Policy, NEW c, EdgeFits(pol, c)
  PROVE  c.score \in pol.review..1000 /\ c.confidence \in Eighty(pol.review)..1000
<1>1. PICK r, s, f : r = pol.review /\ s = c.score /\ f = c.confidence
  OBVIOUS
<1>2. r \in 300..950
  BY <1>1 DEF Policy
<1>3. s \in 0..1000 /\ f \in 0..1000
  BY <1>1 DEF EdgeFits, Fits, Candidate
<1>4. s >= r /\ f >= (800 * s) \div 1000
  BY <1>1 DEF EdgeFits, Fits, Eighty
<1>5. (800 * r) \div 1000 <= (800 * s) \div 1000 /\ (800 * r) \div 1000 \in Int /\ (800 * s) \div 1000 \in Int
  BY <1>2, <1>3, <1>4
<1>6. s \in r..1000 /\ f \in ((800 * r) \div 1000)..1000
  BY <1>2, <1>3, <1>4, <1>5
<1> QED
  BY <1>1, <1>6 DEF Eighty

LEMMA MeansOfEdges ==
  ASSUME NEW pol \in Policy, NEW edges, IsFiniteSet(edges), \A c \in edges : EdgeFits(pol, c),
         NEW c \in edges, NEW k, k = Cardinality(edges)
  PROVE  /\ k \in Nat \ {0} /\ MeanScore(edges) \in Nat /\ MeanConfidence(edges) \in Nat
         /\ Lifted(k, pol.review, c.score, MeanScore(edges))
         /\ Lifted(k, Eighty(pol.review), c.confidence, MeanConfidence(edges))
<1>1. PICK r, d : r = pol.review /\ d = Eighty(r)
  OBVIOUS
<1>2. r \in Nat /\ d \in Nat
  <2>1. r \in 300..950
    BY <1>1 DEF Policy
  <2>2. d = (800 * r) \div 1000
    BY <1>1 DEF Eighty
  <2> QED
    BY <2>1, <2>2
<1>3. PICK hi \in Nat : hi = 1000
  OBVIOUS
<1>4. \A x \in edges : x.score \in r..hi /\ x.confidence \in d..hi
  BY <1>1, <1>3, EdgeBounds
<1>5. PICK n : n = [x \in edges |-> x.score]
  OBVIOUS
<1>6. PICK l : l = [x \in edges |-> x.confidence]
  OBVIOUS
<1>7. /\ DOMAIN n = edges /\ n[c] = c.score /\ \A x \in DOMAIN n : n[x] \in r..hi
      /\ DOMAIN l = edges /\ l[c] = c.confidence /\ \A x \in DOMAIN l : l[x] \in d..hi
  BY <1>4, <1>5, <1>6
<1>8. /\ Mean(n) \in r..hi /\ Cardinality(edges) \in Nat \ {0}
      /\ Lifted(Cardinality(edges), r, c.score, Mean(n))
  <2>1. /\ Mean(n) \in r..hi /\ Cardinality(DOMAIN n) \in Nat \ {0}
        /\ Lifted(Cardinality(DOMAIN n), r, n[c], Mean(n))
    BY <1>2, <1>3, <1>7, MeanWith
  <2> QED
    BY <1>7, <2>1
<1>9. /\ Mean(l) \in d..hi
      /\ Lifted(Cardinality(edges), d, c.confidence, Mean(l))
  <2>1. /\ Mean(l) \in d..hi /\ Cardinality(DOMAIN l) \in Nat \ {0}
        /\ Lifted(Cardinality(DOMAIN l), d, l[c], Mean(l))
    <3>1. IsFiniteSet(DOMAIN l) /\ c \in DOMAIN l /\ (\A x \in DOMAIN l : l[x] \in d..hi)
      BY <1>7
    <3>2. d \in Nat /\ hi \in Nat
      BY <1>2
    <3> QED
      BY <3>1, <3>2, MeanWith
  <2> QED
    BY <1>7, <2>1
<1>10. MeanScore(edges) = Mean(n) /\ MeanConfidence(edges) = Mean(l)
  BY <1>5, <1>6 DEF MeanScore, MeanConfidence
<1>11. Mean(n) \in Nat /\ Mean(l) \in Nat
  BY <1>2, <1>3, <1>8, <1>9
<1> QED
  BY <1>1, <1>8, <1>9, <1>10, <1>11

LEMMA MeansOfOne ==
  ASSUME NEW c, c.score \in 0..1000, c.confidence \in 0..1000
  PROVE  MeanScore({c}) = c.score /\ MeanConfidence({c}) = c.confidence
<1>1. PICK C : C = {c}
  OBVIOUS
<1>2. IsFiniteSet(C) /\ C # {}
  BY <1>1, FS_Singleton
<1>3. ASSUME NEW v \in 0..1000, NEW n, DOMAIN n = C, n[c] = v
      PROVE  Mean(n) = v
  <2>1. v \in Nat /\ \A x \in DOMAIN n : n[x] \in v..v
    BY <1>1, <1>3
  <2>2. Mean(n) \in v..v
    BY <1>2, <1>3, <2>1, MeanType
  <2> QED
    BY <2>1, <2>2
<1>4. PICK n : n = [x \in C |-> x.score]
  OBVIOUS
<1>5. PICK l : l = [x \in C |-> x.confidence]
  OBVIOUS
<1>6. Mean(n) = c.score /\ Mean(l) = c.confidence
  BY <1>1, <1>3, <1>4, <1>5
<1> QED
  BY <1>1, <1>4, <1>5, <1>6 DEF MeanScore, MeanConfidence

\* The score of a source with k edges of these means, and that of a candidate.
Outweighs(k, s, f, t, g) == 500 * s + 300 * f + 200000 * k > 500 * t + 300 * g + 200000

Thousandths == 0..1000
Thresholds == 300..950

\* k edges with a threshold r.
Enough(k, r) == k >= 3 \/ (k = 2 /\ r >= 550)

\* The arithmetic of it: k edges, r and d what they have at least, s and f the
\* means of the source, t and g those of the candidate.
LEMMA DegreeDecides ==
  ASSUME NEW k \in Nat, NEW r \in Thresholds, NEW d \in Nat, d = Eighty(r), NEW s \in Nat, NEW f \in Nat,
         NEW t \in Thousandths, NEW g \in Thousandths,
         Enough(k, r), Lifted(k, r, t, s), Lifted(k, d, g, f)
  PROVE  Outweighs(k, s, f, t, g)
<1> USE DEF Thousandths, Thresholds
<1>1. PICK j \in Nat : j = k - 1
  BY DEF Enough
<1>2. 500 * (r - 1) + 300 * (d - 1) + 200000 * k > 500 * t + 300 * g
  <2>1. r >= 300 => d >= 240
    BY DEF Eighty
  <2>2. r >= 550 => d >= 440
    BY DEF Eighty
  <2> QED
    BY <2>1, <2>2, SMT DEF Enough
<1>3. PICK x, y : x = 500 * (r - 1) + 300 * (d - 1) + 200000 * k /\ y = 500 * t + 300 * g
  BY SMT
<1>4. x \in Int /\ y \in Int /\ x > y
  BY <1>2, <1>3, SMT
<1> SUFFICES ASSUME 500 * s + 300 * f + 200000 * j <= y PROVE FALSE
  BY <1>1, <1>3, SMT DEF Outweighs
<1>5. PICK z : z = 500 * s + 300 * f + 200000 * j
  BY SMT
<1>6. z \in Int /\ z <= y
  BY <1>1, <1>4, <1>5, SMT
\* The inequalities times 500 and 300, and k times that of the scores.
<1>7. 500 * (k * s) >= 500 * (t + j * r - k + 1) /\ 300 * (k * f) >= 300 * (g + j * d - k + 1)
  <2>1. PICK ks, kf, jr, jd : ks = k * s /\ kf = k * f /\ jr = j * r /\ jd = j * d
    OBVIOUS
  <2>2. ks \in Int /\ kf \in Int /\ jr \in Int /\ jd \in Int
    BY <1>1, <2>1
  <2>3. k * (s + 1) = ks + k /\ k * (f + 1) = kf + k
    BY <2>1
  <2>4. t + jr < ks + k /\ g + jd < kf + k
    BY <1>1, <2>1, <2>3 DEF Lifted
  <2> QED
    BY <2>1, <2>2, <2>4
<1>8. k * z = 500 * (k * s) + 300 * (k * f) + 200000 * (k * j)
  BY <1>1, <1>5, SMT
<1>9. k * z <= k * y
  BY <1>4, <1>6
<1>10. k * y = y + j * y
  BY <1>1, <1>4
<1>11. j * x = 500 * (j * r - j) + 300 * (j * d - j) + 200000 * (k * j)
  BY <1>1, <1>3, SMT
<1>12. j * x >= j * y + j
  <2>1. x >= y + 1
    BY <1>4
  <2>2. j * x >= j * (y + 1)
    BY <1>4, <2>1
  <2> QED
    BY <1>4, <2>2
<1>13. PICK kz, ky, jy, jx, ks, kf, jr, jd, kj :
         /\ kz = k * z /\ ky = k * y /\ jy = j * y /\ jx = j * x /\ ks = k * s /\ kf = k * f
         /\ jr = j * r /\ jd = j * d /\ kj = k * j
  OBVIOUS
<1>14. /\ kz \in Int /\ ky \in Int /\ jy \in Int /\ jx \in Int /\ ks \in Int /\ kf \in Int
       /\ jr \in Int /\ jd \in Int /\ kj \in Int
  BY <1>1, <1>4, <1>6, <1>13
<1>15. /\ 500 * ks >= 500 * (t + jr - k + 1) /\ 300 * kf >= 300 * (g + jd - k + 1)
       /\ kz = 500 * ks + 300 * kf + 200000 * kj /\ kz <= ky /\ ky = y + jy
       /\ jx = 500 * (jr - j) + 300 * (jd - j) + 200000 * kj /\ jx >= jy + j
       /\ y = 500 * t + 300 * g /\ j = k - 1 /\ j >= 1
  BY <1>1, <1>3, <1>7, <1>8, <1>9, <1>10, <1>11, <1>12, <1>13, SMT DEF Enough
<1> QED
  BY <1>14, <1>15, SMT

\* A star has at most one member more than edges.
LEMMA StarSize ==
  ASSUME NEW e, NEW edges, IsFiniteSet(edges)
  PROVE  /\ Cardinality(edges) \in Nat
         /\ Cardinality({e} \cup {c.candidate : c \in edges}) \in 0..Cardinality(edges) + 1
<1>1. PICK E : E = {c.candidate : c \in edges}
  OBVIOUS
<1>2. IsFiniteSet(E) /\ Cardinality(E) <= Cardinality(edges)
  <2>1. PICK f : f = [c \in edges |-> c.candidate]
    OBVIOUS
  <2>2. f \in Surjection(edges, E)
    BY <1>1, <2>1 DEF Surjection
  <2> QED
    BY <2>2, FS_Surjection
<1>3. Cardinality(edges) \in Nat /\ Cardinality(E) \in Nat
  BY <1>2, FS_CardinalityType
<1>4. {e} \cup {c.candidate : c \in edges} = E \cup {e}
  BY <1>1
<1>5. Cardinality(E \cup {e}) = Cardinality(E) \/ Cardinality(E \cup {e}) = Cardinality(E) + 1
  BY <1>2, FS_AddElement
<1>6. PICK k, j, x : k = Cardinality(edges) /\ j = Cardinality(E) /\ x = Cardinality(E \cup {e})
  OBVIOUS
<1>7. k \in Nat /\ j \in Nat /\ j <= k /\ (x = j \/ x = j + 1)
  BY <1>2, <1>3, <1>5, <1>6
<1>8. x \in 0..k + 1
  BY <1>7
<1> QED
  BY <1>3, <1>4, <1>6, <1>8

\* The stars of which the source must be the master.
Heavy(pol, members) ==
  \/ Cardinality(members) > 3
  \/ Cardinality(members) = 3 /\ pol.review >= 550

LEMMA SourceIsMaster ==
  ASSUME NEW pol \in Policy, NEW e, NEW edges, IsFiniteSet(edges),
         \A c \in edges : EdgeFits(pol, c) /\ c.candidate # e,
         \A c, d \in edges : c.candidate = d.candidate => c = d,
         Heavy(pol, {e} \cup {c.candidate : c \in edges}),
         NEW n \in Masters(e, edges)
  PROVE  n = e
<1> SUFFICES ASSUME n # e PROVE FALSE
  OBVIOUS
<1>1. PICK k, r : k = Cardinality(edges) /\ r = pol.review
  OBVIOUS
<1>2. r \in 300..950
  BY <1>1 DEF Policy
<1>3. k \in Nat /\ Enough(k, r)
  <2>1. PICK x : x = Cardinality({e} \cup {c.candidate : c \in edges})
    OBVIOUS
  <2>2. k \in Nat /\ x \in 0..k + 1
    BY <1>1, <2>1, StarSize
  <2>3. x > 3 \/ (x = 3 /\ r >= 550)
    BY <1>1, <2>1 DEF Heavy
  <2> QED
    BY <2>2, <2>3 DEF Enough
<1>4. PICK c \in edges : MasterScore(edges, k) <= MasterScore({c}, 1)
  <2> DEFINE of(y) == IF y = e THEN MasterScore(edges, Cardinality(edges))
                      ELSE MasterScore({d \in edges : d.candidate = y}, 1)
             members == {e} \cup {d.candidate : d \in edges}
  <2>1. Masters(e, edges) = {y \in members : \A o \in members : of(o) <= of(y)}
    BY DEF Masters
  <2> HIDE DEF of
  <2>2. PICK c \in edges : n = c.candidate
    BY <2>1
  <2>3. of(e) <= of(n)
    BY <2>1
  <2>4. {d \in edges : d.candidate = n} = {c}
    BY <2>2
  <2>5. of(e) = MasterScore(edges, k) /\ of(n) = MasterScore({c}, 1)
    BY <1>1, <2>4 DEF of
  <2> QED
    BY <2>2, <2>3, <2>5
<1>5. PICK s, f, t, g :
        s = MeanScore(edges) /\ f = MeanConfidence(edges) /\ t = c.score /\ g = c.confidence
  OBVIOUS
<1>6. PICK d : d = Eighty(r)
  OBVIOUS
<1>7. d \in Nat
  BY <1>2, <1>6 DEF Eighty
<1>8. t \in 0..1000 /\ g \in 0..1000
  BY <1>5 DEF EdgeFits, Fits, Candidate
<1>9. s \in Nat /\ f \in Nat /\ Lifted(k, r, t, s) /\ Lifted(k, d, g, f)
  <2>1. \A x \in edges : EdgeFits(pol, x)
    OBVIOUS
  <2> QED
    BY <1>1, <1>5, <1>6, <2>1, MeansOfEdges
<1>10. MeanScore({c}) = t /\ MeanConfidence({c}) = g
  <2>1. c.score \in 0..1000 /\ c.confidence \in 0..1000
    BY <1>5, <1>8
  <2>2. MeanScore({c}) = c.score /\ MeanConfidence({c}) = c.confidence
    BY <2>1, MeansOfOne
  <2> QED
    BY <1>5, <2>2
<1>11. Outweighs(k, s, f, t, g)
  <2>1. r \in Thresholds /\ t \in Thousandths /\ g \in Thousandths
    BY <1>2, <1>8 DEF Thresholds, Thousandths
  <2> QED
    BY <1>3, <1>6, <1>7, <1>9, <2>1, DegreeDecides, Zenon
<1>12. MasterScore(edges, k) = 500 * s + 300 * f + 200000 * k
  BY <1>3, <1>5, <1>9, SMT DEF MasterScore
<1>13. MasterScore({c}, 1) = 500 * t + 300 * g + 200000
  BY <1>8, <1>10, SMT DEF MasterScore
<1> QED
  BY <1>3, <1>4, <1>8, <1>9, <1>11, <1>12, <1>13, SMT DEF Outweighs

\* A worker has clusters for the notice that ends its execution only.
HubHolds ==
  /\ clusters = [p \in Workers |-> clusters[p]]
  /\ \A p \in Workers : at[p] # "notify" => clusters[p] = {}
  /\ HubIsMaster

\* In a cluster of three candidates or more the source is the suggested master, and
\* in one of two when the review threshold is 0.55 or more, however the scores of
\* the candidates, the weights and the policies that are requested
\* (cluster_builder.rs:100).
THEOREM HubCorrect == Spec => []HubIsMaster
<1>1. Init => HubHolds
  BY DEF Init, HubHolds, HubIsMaster
<1>2. Typed /\ HubHolds /\ [Next]_vars => HubHolds'
  <2> SUFFICES ASSUME Typed, HubHolds, [Next]_vars PROVE HubHolds'
    OBVIOUS
  <2> DEFINE Kept(q) == at'[q] = at[q] /\ under'[q] = under[q] /\ clusters'[q] = clusters[q]
             Right(q) == /\ at'[q] # "notify" => clusters'[q] = {}
                         /\ \A k \in clusters'[q] :
                              \/ Cardinality(k.entity_ids) > 3
                              \/ Cardinality(k.entity_ids) = 3 /\ under'[q].review >= 550
                              => k.suggested_master = k.source
  <2>1. \A q \in Workers : Kept(q) => Right(q)
    BY DEF HubHolds, HubIsMaster
  <2>2. clusters' = [p \in Workers |-> clusters'[p]] /\ (\A q \in Workers : Right(q)) => HubHolds'
    BY DEF HubHolds, HubIsMaster
  <2>3. CASE UNCHANGED workerVars
    BY <2>3 DEF workerVars, HubHolds, HubIsMaster
  <2>4. ASSUME NEW p \in Workers, Ended(p) PROVE HubHolds'
    <3>1. clusters' = [clusters EXCEPT ![p] = {}] /\ \A q \in Workers : q # p => Kept(q)
      BY <2>4 DEF Ended, HubHolds, Typed, WorkersTyped
    <3>2. clusters' = [q \in Workers |-> clusters'[q]] /\ clusters'[p] = {}
      BY <3>1 DEF HubHolds
    <3>3. Right(p)
      BY <3>2
    <3> QED
      BY <2>1, <2>2, <3>1, <3>2, <3>3
  <2>5. ASSUME NEW p \in Workers, BuildClusters(p) PROVE HubHolds'
    <3>1. PICK answer \in Clusters(subject[p], Edges(p)) : clusters' = [clusters EXCEPT ![p] = answer]
      BY <2>5 DEF BuildClusters
    <3>2. ASSUME NEW k \in answer, Heavy(under[p], k.entity_ids)
          PROVE  k.suggested_master = k.source
      <4>1. PICK n \in Masters(subject[p], Edges(p)) :
              k = [entity_ids |-> {subject[p]} \cup {c.candidate : c \in Edges(p)},
                   source |-> subject[p], suggested_master |-> n]
        <5>1. answer \in Clusters(subject[p], Edges(p)) /\ answer # {}
          BY <3>2
        <5> QED
          BY <3>2, <5>1 DEF Clusters
      <4>2. Edges(p) \in SUBSET scored[p] /\ \A c \in Edges(p) : c.score >= under[p].review
        BY DEF Edges
      <4>3. Scoring(p) /\ under[p] \in Policy
        BY DEF Typed, ExecutionsFit, WorkersTyped
      <4>4. /\ IsFiniteSet(Edges(p))
            /\ \A c \in Edges(p) : EdgeFits(under[p], c) /\ c.candidate # subject[p]
            /\ \A c, d \in Edges(p) : c.candidate = d.candidate => c = d
        BY <4>2, <4>3, FS_Subset DEF Scoring, EdgeFits
      <4>5. Heavy(under[p], {subject[p]} \cup {c.candidate : c \in Edges(p)})
        BY <3>2, <4>1
      <4>6. n = subject[p]
        BY <4>3, <4>4, <4>5, SourceIsMaster
      <4> QED
        BY <4>1, <4>6
    <3>3. /\ at'[p] = "notify" /\ under' = under /\ clusters'[p] = answer
          /\ clusters' = [q \in Workers |-> clusters'[q]]
          /\ \A q \in Workers : q # p => Kept(q)
      BY <2>5, <3>1 DEF BuildClusters, HubHolds, Typed, WorkersTyped
    <3>4. Right(p)
      BY <3>2, <3>3 DEF Heavy
    <3> QED
      BY <2>1, <2>2, <3>3, <3>4
  <2>6. ASSUME NEW p \in Workers, Matcher(p), ~ BuildClusters(p), ~ Ended(p)
        PROVE  HubHolds'
    <3>1. UNCHANGED clusters /\ at[p] # "notify" /\ \A q \in Workers : q # p => Kept(q)
      BY <2>6 DEF Matcher, Dequeue, ReadCached, ReadStored, FillSource, SkipMissing, GenerateCandidates,
         ScoreCandidates, SaveCandidate, SaveFails, NotifyOwner, Executing, Typed, WorkersTyped
    <3>2. Right(p)
      BY <3>1 DEF HubHolds
    <3>3. clusters' = [q \in Workers |-> clusters'[q]]
      BY <3>1 DEF HubHolds
    <3> QED
      BY <2>1, <2>2, <3>1, <3>2, <3>3
  <2>7. ASSUME StoreStep \/ CacheStep \/ Review \/ PolicyStep PROVE UNCHANGED workerVars
    BY <2>7, PolicyOnly DEF StoreStep, CreateEntity, BulkInsert, PatchEntity, BulkRolledBack, EnqueueMatch,
       EnqueueFails, HardErase, CacheStep, View, CacheExpire, FillCache, FillFails, Review, Decide
  <2>8. UNCHANGED vars => UNCHANGED workerVars
    BY DEF vars
  <2>9. ASSUME NEW p \in Workers, ExecutionFails(p) PROVE Ended(p)
    BY <2>9 DEF ExecutionFails
  <2> HIDE DEF Kept, Right
  <2> QED
    BY <2>3, <2>4, <2>5, <2>6, <2>7, <2>8, <2>9, StepCases
<1>3. HubHolds => HubIsMaster
  BY DEF HubHolds
<1> QED
  BY <1>1, <1>2, <1>3, TypedAlways, PTL DEF Spec

-----------------------------------------------------------------------------
(* An entity has one task in its life: it is being loaded, queued, matched *)
(* by one worker, or done with.  So its rows are of one execution, which   *)
(* stores each candidate once.                                             *)

TasksApart ==
  /\ loading \cap queue = {}
  /\ \A p \in Workers : subject[p] \notin loading \cup queue
  /\ \A p, q \in Workers : subject[p] = subject[q] /\ p # q => subject[p] = Absent

RowsApart ==
  /\ \A m \in matches : m.source \notin loading \cup queue /\ Seen(m.source)
  /\ \A m \in matches, p \in Workers :
       subject[p] = m.source =>
         at[p] \in {"save", "notify"} /\ \A c \in unsaved[p] : c.candidate # m.candidate
  /\ \A m, n \in matches : m.source = n.source /\ m.candidate = n.candidate => m = n

OneTask == TasksApart /\ RowsApart

LEMMA OneTaskInit == Init => OneTask
BY DEF Init, OneTask, TasksApart, RowsApart

LEMMA OneTaskStore ==
  ASSUME Typed, OneTask, StoreStep
  PROVE  OneTask'
<1>1. UNCHANGED <<workerVars, matches>>
  BY DEF StoreStep, CreateEntity, BulkInsert, PatchEntity, BulkRolledBack, EnqueueMatch, EnqueueFails,
     HardErase, reviewVars
<1>2. PICK e \in Entities :
        \/ loading' = loading /\ queue' = queue
        \/ New(e) /\ loading' = loading \cup {e} /\ queue' = queue
        \/ e \in loading /\ loading' = loading \ {e} /\ (queue' = queue \cup {e} \/ queue' = queue)
  BY DEF StoreStep, CreateEntity, BulkInsert, PatchEntity, BulkRolledBack, EnqueueMatch, EnqueueFails,
     HardErase
<1>3. \A m \in matches : m.source \in Entities
  BY MatchingAssumption DEF Typed, RowsFit, RowFits, MatchRow
<1>4. \A p \in Workers : subject[p] = Absent \/ Seen(subject[p])
  BY DEF Typed, ExecutionsFit, Execution
<1>5. New(e) => ~Seen(e)
  BY DEF New, Seen
<1>6. e # Absent
  BY MatchingAssumption
<1>7. TasksApart'
  BY <1>1, <1>2, <1>4, <1>5, <1>6 DEF OneTask, TasksApart, workerVars, New
<1>8. \A m \in matches : Seen(m.source)'
  <2>1. Next
    BY DEF StoreStep, Next
  <2> QED
    BY <1>3, <2>1, StaysSeen DEF OneTask, RowsApart, Typed
<1>9. \A m \in matches : m.source \notin loading' \cup queue'
  BY <1>2, <1>5 DEF OneTask, RowsApart
<1>10. RowsApart'
  BY <1>1, <1>8, <1>9 DEF OneTask, RowsApart, workerVars
<1> QED
  BY <1>7, <1>10 DEF OneTask

LEMMA OneTaskReview ==
  ASSUME Typed, OneTask, Review
  PROVE  OneTask'
<1> PICK m \in matches, status \in {"Matched", "Rejected"}, id \in CandidateIds : Decide(m, status, id)
  BY DEF Review
<1>1. UNCHANGED <<storeVars, queue, workerVars>>
  BY DEF Decide
<1>2. TasksApart'
  BY <1>1 DEF OneTask, TasksApart, storeVars, workerVars
<1>3. \A r \in matches' : \E n \in matches : Same(r, n) /\ r = AfterDecision(n, m, status, id)
  BY DecideLeaves DEF Typed
<1>4. ASSUME NEW r \in matches', NEW s \in matches', r.source = s.source, r.candidate = s.candidate
      PROVE  r = s
  <2>1. PICK n \in matches : Same(r, n) /\ r = AfterDecision(n, m, status, id)
    BY <1>3
  <2>2. PICK l \in matches : Same(s, l) /\ s = AfterDecision(l, m, status, id)
    BY <1>3
  <2>3. n.source = l.source /\ n.candidate = l.candidate
    BY <1>4, <2>1, <2>2, Zenon DEF Same
  <2>4. n = l
    BY <2>3 DEF OneTask, RowsApart
  <2> QED
    BY <2>1, <2>2, <2>4
<1>5. \A r \in matches' : \E n \in matches : r.source = n.source /\ r.candidate = n.candidate
  BY <1>3 DEF Same
<1>6. /\ loading' = loading /\ queue' = queue /\ subject' = subject /\ at' = at /\ unsaved' = unsaved
      /\ \A e \in Entities : Seen(e)' <=> Seen(e)
  BY <1>1 DEF storeVars, workerVars, Seen
<1>7. \A r \in matches' : r.source \notin loading' \cup queue' /\ Seen(r.source)'
  BY <1>1, <1>5 DEF OneTask, RowsApart, Seen, storeVars
<1>8. \A r \in matches', p \in Workers :
        subject[p] = r.source =>
          at[p] \in {"save", "notify"} /\ \A c \in unsaved[p] : c.candidate # r.candidate
  BY <1>5 DEF OneTask, RowsApart
<1>9. RowsApart'
  BY <1>4, <1>6, <1>7, <1>8 DEF RowsApart
<1> QED
  BY <1>2, <1>9 DEF OneTask

\* A worker whose execution goes on, or ends, without storing a row.
LEMMA OneTaskGoesOn ==
  ASSUME Typed, OneTask, Next, NEW p \in Workers,
         UNCHANGED <<loading, queue, matches>>,
         \A q \in Workers : q # p => UNCHANGED Mine(q),
         \/ subject'[p] = Absent
         \/ /\ subject'[p] = subject[p]
            /\ at[p] \in {"save", "notify"} => at'[p] \in {"save", "notify"}
            /\ at[p] \in {"save", "notify"} => unsaved'[p] \subseteq unsaved[p]
  PROVE  OneTask'
<1>1. Absent \notin Entities /\ loading \cup queue \subseteq Entities /\ \A m \in matches : m.source \in Entities
  BY MatchingAssumption DEF Typed, DataTyped, RowsFit, RowFits, MatchRow
<1>2. \A q \in Workers : q # p => subject'[q] = subject[q] /\ at'[q] = at[q] /\ unsaved'[q] = unsaved[q]
  BY DEF Mine
<1>3. TasksApart'
  BY <1>1, <1>2 DEF OneTask, TasksApart
<1>4. \A m \in matches : Seen(m.source)'
  BY <1>1, StaysSeen DEF OneTask, RowsApart, Typed
<1>5. \A m \in matches, q \in Workers :
        subject'[q] = m.source =>
          at'[q] \in {"save", "notify"} /\ \A c \in unsaved'[q] : c.candidate # m.candidate
  BY <1>1, <1>2 DEF OneTask, RowsApart
<1>6. RowsApart'
  BY <1>4, <1>5 DEF OneTask, RowsApart
<1> QED
  BY <1>3, <1>6 DEF OneTask

LEMMA OneTaskDequeue ==
  ASSUME Typed, OneTask, NEW p \in Workers, NEW e \in Entities, Dequeue(p, e)
  PROVE  OneTask'
<1>1. /\ e \in queue /\ queue' = queue \ {e} /\ UNCHANGED <<storeVars, matches, unsaved>>
      /\ at' = [at EXCEPT ![p] = "read"] /\ subject' = [subject EXCEPT ![p] = e]
  BY DEF Dequeue, Executing, reviewVars
<1>2. e \notin loading /\ \A q \in Workers : subject[q] # e
  BY <1>1 DEF OneTask, TasksApart
<1>3. \A m \in matches : m.source # e
  BY <1>1 DEF OneTask, RowsApart
<1>4. /\ subject'[p] = e /\ at'[p] = "read" /\ loading' = loading
      /\ \A q \in Workers : q # p => subject'[q] = subject[q] /\ at'[q] = at[q]
  BY <1>1 DEF Typed, WorkersTyped, storeVars
<1>5. TasksApart'
  BY <1>1, <1>2, <1>4 DEF OneTask, TasksApart
<1>6. \A m \in matches : Seen(m.source)'
  BY <1>1 DEF OneTask, RowsApart, Seen, storeVars
<1>7. RowsApart'
  BY <1>1, <1>3, <1>4, <1>6 DEF OneTask, RowsApart
<1> QED
  BY <1>5, <1>7 DEF OneTask

LEMMA OneTaskSave ==
  ASSUME Typed, OneTask, NEW p \in Workers, NEW c \in unsaved[p], SaveCandidate(p, c)
  PROVE  OneTask'
<1>1. PICK r : r = Row(p, c)
  OBVIOUS
<1>2. /\ UNCHANGED <<storeVars, queue, at, subject>> /\ at[p] = "save"
      /\ unsaved' = [unsaved EXCEPT ![p] = @ \ {c}] /\ matches' = matches \cup {r}
  BY <1>1 DEF SaveCandidate
<1>3. /\ c \in scored[p] /\ unsaved[p] \subseteq scored[p]
      /\ \A d \in scored[p] : d.candidate = c.candidate => d = c
  BY DEF Typed, ExecutionsFit, Scoring
<1>4. r.source = subject[p] /\ r.candidate = c.candidate
  BY <1>1, <1>2, <1>3, RowHasFields
<1>5. subject[p] \in Entities /\ Seen(subject[p]) /\ subject[p] # Absent
  BY <1>2, AtWork, MatchingAssumption
<1>6. TasksApart'
  BY <1>2 DEF OneTask, TasksApart, storeVars
<1>7. /\ unsaved'[p] = unsaved[p] \ {c}
      /\ \A q \in Workers : q # p => unsaved'[q] = unsaved[q] /\ subject[q] # subject[p]
  BY <1>2, <1>5 DEF Typed, WorkersTyped, OneTask, TasksApart
<1>8. \A m \in matches' : m.source \notin loading' \cup queue' /\ Seen(m.source)'
  BY <1>2, <1>4, <1>5 DEF OneTask, TasksApart, RowsApart, Seen, storeVars
<1>9. \A m \in matches', q \in Workers :
        subject'[q] = m.source =>
          at'[q] \in {"save", "notify"} /\ \A d \in unsaved'[q] : d.candidate # m.candidate
  <2>1. ASSUME NEW m \in matches, NEW q \in Workers, subject[q] = m.source
        PROVE  at[q] \in {"save", "notify"} /\ \A d \in unsaved'[q] : d.candidate # m.candidate
    BY <1>7, <2>1 DEF OneTask, RowsApart
  <2>2. ASSUME NEW q \in Workers, subject[q] = r.source
        PROVE  at[q] \in {"save", "notify"} /\ \A d \in unsaved'[q] : d.candidate # r.candidate
    BY <1>2, <1>3, <1>4, <1>7, <2>2
  <2> QED
    BY <1>2, <2>1, <2>2
<1>10. \A m, n \in matches' : m.source = n.source /\ m.candidate = n.candidate => m = n
  <2>1. \A m \in matches : ~(m.source = r.source /\ m.candidate = r.candidate)
    BY <1>4 DEF OneTask, RowsApart
  <2> QED
    BY <1>2, <2>1 DEF OneTask, RowsApart
<1>11. RowsApart'
  BY <1>8, <1>9, <1>10 DEF RowsApart
<1> QED
  BY <1>6, <1>11 DEF OneTask

LEMMA OneTaskMatcher ==
  ASSUME Typed, OneTask, NEW p \in Workers, Matcher(p) \/ ExecutionFails(p)
  PROVE  OneTask'
<1>1. Next
  BY DEF Next
<1> USE DEF Typed, WorkersTyped, Mine
<1>2. ASSUME SkipMissing(p) \/ NotifyOwner(p) \/ ExecutionFails(p) PROVE OneTask'
  <2>1. Ended(p) /\ UNCHANGED <<storeVars, queue, matches>>
    BY <1>2 DEF SkipMissing, NotifyOwner, ExecutionFails, reviewVars
  <2>2. subject'[p] = Absent /\ \A q \in Workers : q # p => UNCHANGED Mine(q)
    BY <2>1, EndedEffect
  <2> QED
    BY <1>1, <2>1, <2>2, OneTaskGoesOn DEF storeVars
<1>3. ASSUME ReadCached(p) \/ ReadStored(p) PROVE OneTask'
  <2>1. /\ UNCHANGED <<storeVars, queue, matches, under, found, scored, unsaved>> /\ at[p] = "read"
        /\ subject' = [subject EXCEPT ![p] = subject[p]]
        /\ \A q \in Workers : q # p => source'[q] = source[q] /\ at'[q] = at[q]
    BY <1>3 DEF ReadCached, ReadStored, Executing, reviewVars
  <2> QED
    BY <1>1, <2>1, OneTaskGoesOn DEF storeVars
<1>4. ASSUME FillSource(p) PROVE OneTask'
  <2>1. /\ UNCHANGED <<storeVars, queue, matches, subject, source, under, found, scored, unsaved>> /\ at[p] = "fill"
        /\ \A q \in Workers : q # p => at'[q] = at[q]
    BY <1>4 DEF FillSource, reviewVars
  <2> QED
    BY <1>1, <2>1, OneTaskGoesOn DEF storeVars
<1>5. ASSUME GenerateCandidates(p) PROVE OneTask'
  <2>1. /\ UNCHANGED <<storeVars, queue, matches, subject, source, scored, unsaved>> /\ at[p] = "find"
        /\ \A q \in Workers : q # p => at'[q] = at[q] /\ found'[q] = found[q] /\ under'[q] = under[q]
    BY <1>5 DEF GenerateCandidates, reviewVars
  <2> QED
    BY <1>1, <2>1, OneTaskGoesOn DEF storeVars
<1>6. ASSUME ScoreCandidates(p) PROVE OneTask'
  <2>1. /\ UNCHANGED <<storeVars, queue, matches, subject, source, under, found>> /\ at[p] = "score"
        /\ at' = [at EXCEPT ![p] = "save"]
    BY <1>6 DEF ScoreCandidates, reviewVars
  <2>2. \E all \in SUBSET Candidate :
          scored' = [scored EXCEPT ![p] = all] /\ unsaved' = [unsaved EXCEPT ![p] = all]
    BY <1>6, ScoresEffect
  <2>3. \A q \in Workers : q # p => at'[q] = at[q] /\ scored'[q] = scored[q] /\ unsaved'[q] = unsaved[q]
    BY <2>1, <2>2
  <2> QED
    BY <1>1, <2>1, <2>3, OneTaskGoesOn DEF storeVars
<1>7. ASSUME NEW c \in unsaved[p], SaveFails(p, c) PROVE OneTask'
  <2>1. /\ UNCHANGED <<storeVars, queue, matches, at, subject, source, under, found, scored>> /\ at[p] = "save"
        /\ unsaved' = [unsaved EXCEPT ![p] = @ \ {c}]
    BY <1>7 DEF SaveFails, reviewVars
  <2> QED
    BY <1>1, <2>1, OneTaskGoesOn DEF storeVars
<1>8. ASSUME BuildClusters(p) PROVE OneTask'
  <2>1. /\ UNCHANGED <<storeVars, queue, matches, subject, source, under, found, scored, unsaved>>
        /\ at' = [at EXCEPT ![p] = "notify"]
    BY <1>8 DEF BuildClusters, reviewVars
  <2> QED
    BY <1>1, <2>1, OneTaskGoesOn DEF storeVars
<1> QED
  BY <1>2, <1>3, <1>4, <1>5, <1>6, <1>7, <1>8, OneTaskDequeue, OneTaskSave DEF Matcher

LEMMA OneTaskStep == Typed /\ OneTask /\ [Next]_vars => OneTask'
<1> SUFFICES ASSUME Typed, OneTask, [Next]_vars PROVE OneTask'
  OBVIOUS
<1>1. CASE UNCHANGED <<storeVars, queue, workerVars, matches>>
  BY <1>1 DEF storeVars, workerVars, OneTask, TasksApart, RowsApart, Seen
<1>2. ASSUME CacheStep \/ PolicyStep PROVE UNCHANGED <<storeVars, queue, workerVars, matches>>
  BY <1>2, PolicyOnly DEF CacheStep, View, CacheExpire, FillCache, FillFails, reviewVars
<1>3. UNCHANGED vars => UNCHANGED <<storeVars, queue, workerVars, matches>>
  BY DEF vars, reviewVars
<1> QED
  BY <1>1, <1>2, <1>3, OneTaskStore, OneTaskReview, OneTaskMatcher, StepCases

LEMMA OneTaskAlways == Spec => []OneTask
BY OneTaskInit, OneTaskStep, TypedAlways, PTL DEF Spec

\* When the review queue gives its clients the id of the candidate, the rows have
\* the status of the last decision that was acknowledged, and a row without one
\* the status it was stored with (matching_repository.rs:581).
THEOREM DecisionsCorrect ==
  ASSUME CandidateIds \subseteq {"entity"}
  PROVE  Spec => []DecisionRecorded
<1>1. Init => DecisionRecorded
  BY DEF Init, DecisionRecorded
<1>2. Typed /\ OneTask /\ DecisionRecorded /\ [Next]_vars => DecisionRecorded'
  <2> SUFFICES ASSUME Typed, OneTask, DecisionRecorded, [Next]_vars PROVE DecisionRecorded'
    OBVIOUS
  <2>1. CASE UNCHANGED matches
    BY <2>1 DEF DecisionRecorded
  <2>2. ASSUME Review PROVE DecisionRecorded'
    <3> SUFFICES ASSUME NEW r \in matches'
                 PROVE  /\ r.decided # "none" => r.status = r.decided
                        /\ r.decided = "none" /\ r.review => r.status = "RequiresReview"
      BY DEF DecisionRecorded
    <3>1. PICK m \in matches, status \in {"Matched", "Rejected"}, id \in CandidateIds : Decide(m, status, id)
      BY <2>2 DEF Review
    <3>2. PICK n \in matches :
            /\ Same(r, n)
            /\ IF n \in Updated(m, id) THEN r.status = status ELSE r.status = n.status
            /\ IF n = m THEN r.decided = status ELSE r.decided = n.decided
      BY <3>1, DecideLeaves DEF Typed
    <3>3. id = "entity"
      OBVIOUS
    <3>4. n \in Updated(m, id) <=> n = m
      BY <3>3 DEF Updated, OneTask, RowsApart
    <3>5. CASE n = m
      BY <3>2, <3>4, <3>5
    <3>6. CASE n # m
      BY <3>2, <3>4, <3>6 DEF DecisionRecorded, Same
    <3> QED
      BY <3>5, <3>6
  <2>3. ASSUME NEW p \in Workers, NEW c \in unsaved[p], SaveCandidate(p, c) PROVE DecisionRecorded'
    <3>1. PICK r : r = Row(p, c)
      OBVIOUS
    <3>2. at[p] = "save" /\ matches' = matches \cup {r}
      BY <2>3, <3>1 DEF SaveCandidate
    <3>3. c \in scored[p] /\ Fits(under[p], c)
      BY DEF Typed, ExecutionsFit, Scoring
    <3>4. r.decided = "none" /\ r.review = c.review /\ r.status = c.status
      BY <3>1, <3>2, <3>3, RowHasFields
    <3> QED
      BY <3>2, <3>3, <3>4 DEF DecisionRecorded, Fits
  <2>4. ASSUME NEW p \in Workers, Matcher(p), \A c \in unsaved[p] : ~ SaveCandidate(p, c)
        PROVE  UNCHANGED matches
    BY <2>4 DEF Matcher, Dequeue, ReadCached, ReadStored, FillSource, SkipMissing, GenerateCandidates,
       ScoreCandidates, SaveFails, BuildClusters, NotifyOwner, reviewVars
  <2>5. ASSUME StoreStep \/ CacheStep \/ PolicyStep \/ \E p \in Workers : ExecutionFails(p)
        PROVE  UNCHANGED matches
    BY <2>5, PolicyOnly DEF StoreStep, CreateEntity, BulkInsert, PatchEntity, BulkRolledBack, EnqueueMatch,
       EnqueueFails, HardErase, CacheStep, View, CacheExpire, FillCache, FillFails, ExecutionFails,
       reviewVars
  <2>6. UNCHANGED vars => UNCHANGED matches
    BY DEF vars, reviewVars
  <2> QED
    BY <2>1, <2>2, <2>3, <2>4, <2>5, <2>6, StepCases
<1> QED
  BY <1>1, <1>2, TypedAlways, OneTaskAlways, PTL DEF Spec

-----------------------------------------------------------------------------
(* Copies.  Of an entity that did not change since it was stored, every    *)
(* copy is what the database has.                                          *)

FreshOf(e) ==
  /\ cached[e] \in {Absent, stored[e]}
  /\ \A attrs \in Contents : <<e, attrs>> \in fills => attrs = stored[e]
  /\ \A p \in Workers : subject[p] = e /\ at[p] \notin {"idle", "read"} => source[p] = stored[e]

Fresh == \A e \in Entities \ changed : FreshOf(e)

LEMMA FreshInit == Init => Fresh
BY MatchingAssumption DEF Init, Fresh, FreshOf

\* An entity that has not changed was stored now, or is as it was.
LEMMA StoreEffect ==
  ASSUME DataTyped, StoreStep, NEW f \in Entities, f \notin changed'
  PROVE  /\ f \notin changed
         /\ stored'[f] = stored[f] \/ stored[f] = Absent
         /\ \A attrs : <<f, attrs>> \in fills' => <<f, attrs>> \in fills \/ attrs = stored'[f]
<1> USE DEF DataTyped
<1>1. ASSUME NEW e \in Entities, NEW attrs \in Contents, CreateEntity(e, attrs) \/ BulkInsert(e, attrs)
      PROVE  /\ f \notin changed
             /\ stored'[f] = stored[f] \/ stored[f] = Absent
             /\ \A a : <<f, a>> \in fills' => <<f, a>> \in fills \/ a = stored'[f]
  BY <1>1 DEF CreateEntity, BulkInsert, New, cacheVars
<1>2. ASSUME NEW e \in Entities, NEW attrs \in Contents, PatchEntity(e, attrs)
      PROVE  f \notin changed /\ stored'[f] = stored[f] /\ fills' = fills
  BY <1>2 DEF PatchEntity, cacheVars
<1>3. ASSUME NEW e \in Entities, BulkRolledBack(e) \/ EnqueueMatch(e) \/ EnqueueFails(e) \/ HardErase(e)
      PROVE  f \notin changed /\ stored'[f] = stored[f] /\ fills' = fills
  BY <1>3 DEF BulkRolledBack, EnqueueMatch, EnqueueFails, HardErase, cacheVars
<1> QED
  BY <1>1, <1>2, <1>3 DEF StoreStep

LEMMA FreshStore ==
  ASSUME Typed, Fresh, StoreStep
  PROVE  Fresh'
<1> SUFFICES ASSUME NEW f \in Entities, f \notin changed' PROVE FreshOf(f)'
  BY DEF Fresh
<1>1. /\ f \notin changed
      /\ stored'[f] = stored[f] \/ stored[f] = Absent
      /\ \A attrs : <<f, attrs>> \in fills' => <<f, attrs>> \in fills \/ attrs = stored'[f]
  BY StoreEffect DEF Typed
<1>2. FreshOf(f)
  BY <1>1 DEF Fresh
<1>3. UNCHANGED <<cached, workerVars>>
  BY DEF StoreStep, CreateEntity, BulkInsert, PatchEntity, BulkRolledBack, EnqueueMatch, EnqueueFails,
     HardErase, cacheVars
<1>4. \A p \in Workers : at[p] \notin {"idle", "read"} => source[p] \in Contents
  BY DEF Typed, ExecutionsFit, Execution
<1>5. Absent \notin Contents
  BY MatchingAssumption
<1> QED
  BY <1>1, <1>2, <1>3, <1>4, <1>5 DEF FreshOf, workerVars

LEMMA FreshCache ==
  ASSUME Typed, Fresh, CacheStep
  PROVE  Fresh'
<1> SUFFICES ASSUME NEW f \in Entities, f \notin changed' PROVE FreshOf(f)'
  BY DEF Fresh
<1>1. UNCHANGED <<storeVars, workerVars>>
  BY DEF CacheStep, View, CacheExpire, FillCache, FillFails
<1>2. FreshOf(f)
  BY <1>1 DEF Fresh, storeVars
<1> USE DEF Typed, DataTyped, FreshOf, storeVars, workerVars
<1>3. ASSUME NEW e \in Entities, View(e) PROVE FreshOf(f)'
  BY <1>2, <1>3 DEF View
<1>4. ASSUME NEW e \in Entities, CacheExpire(e) PROVE FreshOf(f)'
  BY <1>2, <1>4 DEF CacheExpire
<1>5. ASSUME NEW e \in Entities, NEW attrs \in Contents, FillCache(e, attrs) PROVE FreshOf(f)'
  BY <1>2, <1>5 DEF FillCache
<1>6. ASSUME NEW e \in Entities, NEW attrs \in Contents, FillFails(e, attrs) PROVE FreshOf(f)'
  BY <1>2, <1>6 DEF FillFails
<1> QED
  BY <1>3, <1>4, <1>5, <1>6 DEF CacheStep

\* An execution that goes on has the same entity, and takes another copy of it
\* only where it reads.
LEMMA FreshMatcher ==
  ASSUME Typed, Fresh, NEW p \in Workers, Matcher(p) \/ ExecutionFails(p)
  PROVE  Fresh'
<1> SUFFICES ASSUME NEW f \in Entities, f \notin changed' PROVE FreshOf(f)'
  BY DEF Fresh
<1>1. UNCHANGED <<storeVars, fills>>
  BY DEF Matcher, Dequeue, ReadCached, ReadStored, FillSource, SkipMissing, GenerateCandidates,
     ScoreCandidates, SaveCandidate, SaveFails, BuildClusters, NotifyOwner, ExecutionFails, cacheVars
<1>2. FreshOf(f)
  BY <1>1 DEF Fresh, storeVars
<1>3. f # Absent
  BY MatchingAssumption
<1> USE DEF Typed, DataTyped, WorkersTyped, FreshOf, storeVars
<1>4. ASSUME SkipMissing(p) \/ NotifyOwner(p) \/ ExecutionFails(p) PROVE FreshOf(f)'
  <2>1. Ended(p) /\ cached' = cached
    BY <1>4 DEF SkipMissing, NotifyOwner, ExecutionFails, cacheVars
  <2> QED
    BY <1>1, <1>2, <1>3, <2>1, EndedEffect DEF Mine
<1>5. ASSUME NEW e \in Entities, Dequeue(p, e) PROVE FreshOf(f)'
  BY <1>1, <1>2, <1>5 DEF Dequeue, Executing, cacheVars
<1>6. ASSUME ReadCached(p) \/ ReadStored(p) PROVE FreshOf(f)'
  BY <1>1, <1>2, <1>6 DEF ReadCached, ReadStored, Executing, cacheVars
<1>7. ASSUME FillSource(p) PROVE FreshOf(f)'
  <2>1. /\ cached' = [cached EXCEPT ![subject[p]] = source[p]] \/ cached' = cached
        /\ at[p] = "fill" /\ at' = [at EXCEPT ![p] = "find"] /\ UNCHANGED <<subject, source>>
    BY <1>7 DEF FillSource
  <2>2. cached'[f] = cached[f] \/ (subject[p] = f /\ cached'[f] = source[p])
    BY <2>1
  <2> QED
    BY <1>1, <1>2, <2>1, <2>2
<1>8. ASSUME \/ GenerateCandidates(p) \/ ScoreCandidates(p) \/ BuildClusters(p)
             \/ \E c \in unsaved[p] : SaveCandidate(p, c) \/ SaveFails(p, c)
      PROVE  FreshOf(f)'
  <2>1. /\ UNCHANGED <<cached, subject, source>> /\ at[p] \notin {"idle", "read"}
        /\ \A q \in Workers : q # p => at'[q] = at[q]
    BY <1>8 DEF GenerateCandidates, ScoreCandidates, BuildClusters, SaveCandidate, SaveFails, cacheVars
  <2> QED
    BY <1>1, <1>2, <2>1
<1> QED
  BY <1>4, <1>5, <1>6, <1>7, <1>8 DEF Matcher

LEMMA FreshStep == Typed /\ Fresh /\ [Next]_vars => Fresh'
<1> SUFFICES ASSUME Typed, Fresh, [Next]_vars PROVE Fresh'
  OBVIOUS
<1>1. CASE UNCHANGED <<storeVars, cacheVars, workerVars>>
  BY <1>1 DEF storeVars, cacheVars, workerVars, Fresh, FreshOf
<1>2. ASSUME Review \/ PolicyStep PROVE UNCHANGED <<storeVars, cacheVars, workerVars>>
  BY <1>2, PolicyOnly DEF Review, Decide
<1>3. UNCHANGED vars => UNCHANGED <<storeVars, cacheVars, workerVars>>
  BY DEF vars
<1> QED
  BY <1>1, <1>2, <1>3, FreshStore, FreshCache, FreshMatcher, StepCases

LEMMA FreshAlways == Spec => []Fresh
BY FreshInit, FreshStep, TypedAlways, PTL DEF Spec

-----------------------------------------------------------------------------
(* Of two twins that are not crowded, one is still to be matched, or has   *)
(* the other among what it found, has to store or has stored.              *)

Waiting(x) ==
  x \in loading \cup queue \/ \E p \in Workers : subject[p] = x /\ at[p] \in {"read", "fill", "find"}

\* Worker p has y for x.
HasFor(p, x, y) ==
  /\ subject[p] = x
  /\ \/ at[p] = "score" /\ y \in found[p]
     \/ at[p] = "save" /\ \E c \in unsaved[p] : c.candidate = y

Stored(x, y) == \E m \in matches : m.source = x /\ m.candidate = y

Has(x, y) == Stored(x, y) \/ \E p \in Workers : HasFor(p, x, y)

NoPairMissed ==
  \A a, b \in Bulk :
    Twins(a, b) /\ faults = {} /\ ~Crowded(a) /\ ~Crowded(b) =>
      Waiting(a) \/ Waiting(b) \/ Has(a, b) \/ Has(b, a)

\* A limit that is not reached leaves everything.
LEMMA LimitedLeavesAll ==
  ASSUME NEW S \in SUBSET Entities, Cardinality(S) <= MaxCandidates, NEW T \in Limited(S)
  PROVE  T = S
<1>1. IsFiniteSet(S) /\ Cardinality(S) \in Nat
  BY MatchingAssumption, FS_Subset, FS_CardinalityType
<1>2. T \in SUBSET S /\ Cardinality(T) = Cardinality(S)
  BY <1>1, MatchingAssumption DEF Limited
<1> QED
  BY <1>1, <1>2, FS_Subset

LEMMA ExactMatchFound ==
  ASSUME NEW e \in Entities, NEW attrs, NEW y \in ExactMatches(attrs), y # e,
         Cardinality(ExactMatches(attrs) \cup changed) <= MaxCandidates, changed \in SUBSET Entities,
         Cardinality(Entities) <= MaxCandidates + 1,
         NEW ids \in Candidates(e, attrs)
  PROVE  y \in ids
<1>1. PICK X : X = ExactMatches(attrs)
  OBVIOUS
<1>2. X \in SUBSET Entities /\ \A f \in X : stored[f] # Absent
  BY <1>1 DEF ExactMatches
<1>3. PICK exact \in Limited(X), near \in SUBSET {f \in Entities : stored[f] # Absent} :
        ids \in Limited((exact \cup near) \ {e})
  BY <1>1, CandidatesAre
<1>4. exact = X
  <2>1. IsFiniteSet(X \cup changed) /\ X \in SUBSET (X \cup changed)
    BY <1>2, MatchingAssumption, FS_Subset
  <2>2. Cardinality(X) <= Cardinality(X \cup changed) /\ IsFiniteSet(X)
    BY <2>1, FS_Subset
  <2>3. Cardinality(X) \in Nat /\ Cardinality(X \cup changed) \in Nat /\ MaxCandidates \in Nat
    BY <2>1, <2>2, FS_CardinalityType, MatchingAssumption
  <2>4. Cardinality(X) <= MaxCandidates
    BY <1>1, <2>2, <2>3
  <2> QED
    BY <1>2, <1>3, <2>4, LimitedLeavesAll
<1>5. PICK others : others = (exact \cup near) \ {e}
  OBVIOUS
<1>6. others \in SUBSET (Entities \ {e})
  BY <1>2, <1>4, <1>5
<1>7. Cardinality(others) <= MaxCandidates
  <2>1. IsFiniteSet(Entities) /\ MaxCandidates \in Nat
    BY MatchingAssumption
  <2>2. IsFiniteSet(Entities \ {e}) /\ Cardinality(Entities \ {e}) = Cardinality(Entities) - 1
    BY <2>1, FS_RemoveElement
  <2>3. Cardinality(others) <= Cardinality(Entities \ {e}) /\ IsFiniteSet(others)
    BY <1>6, <2>2, FS_Subset
  <2>4. Cardinality(others) \in Nat /\ Cardinality(Entities) \in Nat
    BY <2>1, <2>3, FS_CardinalityType
  <2> QED
    BY <2>1, <2>2, <2>3, <2>4
<1>8. ids = others
  <2>1. others \in SUBSET Entities /\ ids \in Limited(others)
    BY <1>3, <1>5, <1>6
  <2> QED
    BY <1>7, <2>1, LimitedLeavesAll
<1> QED
  BY <1>1, <1>4, <1>5, <1>8

\* It is enough that p goes on with its pair, when the other workers are left alone.
LEMMA PairKept ==
  ASSUME NEW x, NEW y, NEW p \in Workers,
         loading' = loading, matches \subseteq matches',
         \A q \in Workers : q # p => UNCHANGED Mine(q),
         x \in queue => x \in queue' \/ (subject'[p] = x /\ at'[p] = "read"),
         subject[p] = x /\ at[p] \in {"read", "fill", "find"} =>
           (subject'[p] = x /\ at'[p] \in {"read", "fill", "find"}) \/ HasFor(p, x, y)',
         HasFor(p, x, y) => HasFor(p, x, y)' \/ Stored(x, y)'
  PROVE  /\ Waiting(x) => Waiting(x)' \/ Has(x, y)'
         /\ Has(x, y) => Has(x, y)'
<1>1. \A q \in Workers : q # p /\ HasFor(q, x, y) => HasFor(q, x, y)'
  BY DEF Mine, HasFor
<1>2. Stored(x, y) => Stored(x, y)'
  BY DEF Stored
<1>3. Has(x, y) => Has(x, y)'
  BY <1>1, <1>2 DEF Has
<1>4. ASSUME NEW q \in Workers, q # p, subject[q] = x, at[q] \in {"read", "fill", "find"}
      PROVE  Waiting(x)'
  BY <1>4 DEF Mine, Waiting
<1>5. ASSUME x \in loading \cup queue PROVE Waiting(x)'
  BY <1>5 DEF Waiting
<1>6. subject[p] = x /\ at[p] \in {"read", "fill", "find"} => Waiting(x)' \/ Has(x, y)'
  BY DEF Waiting, Has
<1> QED
  BY <1>3, <1>4, <1>5, <1>6 DEF Waiting

\* Executions go on with a pair until it is stored, unless something fails.
LEMMA PairGoesOn ==
  ASSUME Typed, Fresh, NEW x \in Bulk, NEW y \in Bulk, Twins(x, y), ~Crowded(x),
         NEW p \in Workers, Matcher(p) \/ ExecutionFails(p), faults' = {}
  PROVE  /\ Waiting(x) => Waiting(x)' \/ Has(x, y)'
         /\ Has(x, y) => Has(x, y)'
<1> DEFINE Goal == /\ Waiting(x) => Waiting(x)' \/ Has(x, y)'
                   /\ Has(x, y) => Has(x, y)'
<1> USE DEF Typed, WorkersTyped
<1>1. /\ x # Absent /\ x \in Entities /\ y \in Entities /\ x # y /\ stored[x] # Absent /\ stored[y] # Absent
      /\ x \notin changed /\ y \in ExactMatches(stored[x])
  BY MatchingAssumption DEF Twins
<1>2. ASSUME NEW e \in Entities, Dequeue(p, e) PROVE Goal
  <2>1. /\ queue' = queue \ {e} /\ at[p] = "idle" /\ UNCHANGED <<storeVars, matches>>
        /\ at' = [at EXCEPT ![p] = "read"] /\ Executing(p, e, Absent)
    BY <1>2 DEF Dequeue, reviewVars
  <2>2. /\ subject'[p] = e /\ at'[p] = "read"
        /\ \A q \in Workers : q # p => UNCHANGED Mine(q)
    BY <2>1 DEF Executing, Mine
  <2> HIDE DEF Typed, WorkersTyped
  <2> QED
    BY <2>1, <2>2, PairKept DEF HasFor, storeVars
<1>3. ASSUME ReadCached(p) \/ ReadStored(p) PROVE Goal
  <2>1. /\ UNCHANGED <<storeVars, queue, matches, under, found, scored, unsaved>> /\ at[p] = "read"
        /\ subject' = [subject EXCEPT ![p] = subject[p]]
        /\ \A q \in Workers : q # p => source'[q] = source[q] /\ at'[q] = at[q]
        /\ at'[p] \in {"find", "fill"}
    BY <1>3 DEF ReadCached, ReadStored, Executing, reviewVars
  <2>2. subject'[p] = subject[p] /\ \A q \in Workers : q # p => UNCHANGED Mine(q)
    BY <2>1 DEF Mine
  <2> HIDE DEF Typed, WorkersTyped
  <2> QED
    BY <2>1, <2>2, PairKept DEF HasFor, storeVars
<1>4. ASSUME FillSource(p) PROVE Goal
  <2>1. /\ UNCHANGED <<storeVars, queue, matches, subject, source, under, found, scored, unsaved>> /\ at[p] = "fill"
        /\ at' = [at EXCEPT ![p] = "find"]
    BY <1>4 DEF FillSource, reviewVars
  <2>2. at'[p] = "find" /\ \A q \in Workers : q # p => UNCHANGED Mine(q)
    BY <2>1 DEF Mine
  <2> HIDE DEF Typed, WorkersTyped
  <2> QED
    BY <2>1, <2>2, PairKept DEF HasFor, storeVars
<1>5. ASSUME SkipMissing(p) \/ NotifyOwner(p) PROVE Goal
  <2>1. /\ Ended(p) /\ UNCHANGED <<storeVars, queue, matches>>
        /\ at[p] = "notify" \/ (at[p] = "read" /\ stored[subject[p]] = Absent)
    BY <1>5 DEF SkipMissing, NotifyOwner, reviewVars
  <2>2. \A q \in Workers : q # p => UNCHANGED Mine(q)
    BY <2>1, EndedEffect
  <2> HIDE DEF Typed, WorkersTyped
  <2> QED
    BY <1>1, <2>1, <2>2, PairKept DEF HasFor, storeVars
<1>6. ASSUME GenerateCandidates(p) PROVE Goal
  <2>1. PICK ids \in Candidates(subject[p], source[p]) :
          found' = [found EXCEPT ![p] = ids] /\ under' = [under EXCEPT ![p] = policy[p]]
    BY <1>6 DEF GenerateCandidates
  <2>2. /\ UNCHANGED <<storeVars, queue, matches, subject, source, scored, unsaved>> /\ at[p] = "find"
        /\ at' = [at EXCEPT ![p] = "score"]
    BY <1>6 DEF GenerateCandidates, reviewVars
  <2>3. found'[p] = ids /\ at'[p] = "score" /\ \A q \in Workers : q # p => UNCHANGED Mine(q)
    BY <2>1, <2>2 DEF Mine
  <2>4. ASSUME subject[p] = x PROVE y \in ids
    <3>1. source[p] = stored[x]
      BY <1>1, <2>2, <2>4 DEF Fresh, FreshOf
    <3>2. /\ Cardinality(ExactMatches(stored[x]) \cup changed) <= MaxCandidates
          /\ Cardinality(Entities) <= MaxCandidates + 1
      <4>1. PICK k, n : k = Cardinality(ExactMatches(stored[x]) \cup changed) /\ n = Cardinality(Entities)
        OBVIOUS
      <4>2. k \in Nat /\ n \in Nat
        <5>1. ExactMatches(stored[x]) \cup changed \in SUBSET Entities
          BY DEF ExactMatches, DataTyped
        <5> QED
          BY <4>1, <5>1, FS_Subset, FS_CardinalityType, MatchingAssumption
      <4>3. ~(k > MaxCandidates) /\ ~(n > MaxCandidates + 1)
        BY <4>1 DEF Crowded
      <4> QED
        BY <4>1, <4>2, <4>3, MatchingAssumption
    <3>3. ids \in Candidates(x, stored[x]) /\ changed \in SUBSET Entities
      BY <2>4, <3>1 DEF DataTyped
    <3> QED
      BY <1>1, <3>2, <3>3, ExactMatchFound
  <2> HIDE DEF Typed, WorkersTyped
  <2>5. subject[p] = x => HasFor(p, x, y)'
    BY <2>2, <2>3, <2>4 DEF HasFor
  <2> QED
    BY <2>2, <2>3, <2>5, PairKept DEF HasFor, storeVars
<1>7. ASSUME ScoreCandidates(p) PROVE Goal
  <2>1. /\ UNCHANGED <<storeVars, queue, matches, subject, source, under, found>> /\ at[p] = "score"
        /\ at' = [at EXCEPT ![p] = "save"]
    BY <1>7 DEF ScoreCandidates, reviewVars
  <2>2. PICK all \in SUBSET Candidate :
          /\ scored' = [scored EXCEPT ![p] = all] /\ unsaved' = [unsaved EXCEPT ![p] = all]
          /\ \A e \in found[p] : stored[e] # Absent => \E c \in all : c.candidate = e
    BY <1>7, ScoresEffect
  <2>3. /\ at'[p] = "save" /\ unsaved'[p] = all
        /\ \A q \in Workers : q # p => UNCHANGED Mine(q)
    BY <2>1, <2>2 DEF Mine
  <2> HIDE DEF Typed, WorkersTyped
  <2>4. HasFor(p, x, y) => HasFor(p, x, y)'
    BY <1>1, <2>1, <2>2, <2>3 DEF HasFor
  <2> QED
    BY <2>1, <2>3, <2>4, PairKept DEF storeVars
<1>8. ASSUME NEW c \in unsaved[p], SaveCandidate(p, c) PROVE Goal
  <2>1. PICK r : r = Row(p, c)
    OBVIOUS
  <2>2. /\ UNCHANGED <<storeVars, queue, at, subject, source, under, found, scored>> /\ at[p] = "save"
        /\ unsaved' = [unsaved EXCEPT ![p] = @ \ {c}] /\ matches' = matches \cup {r}
    BY <1>8, <2>1 DEF SaveCandidate
  <2>3. unsaved'[p] = unsaved[p] \ {c} /\ \A q \in Workers : q # p => UNCHANGED Mine(q)
    BY <2>2 DEF Mine
  <2>4. r.source = subject[p] /\ r.candidate = c.candidate
    <3>1. c \in scored[p]
      BY DEF ExecutionsFit, Scoring
    <3> QED
      BY <2>1, <2>2, <3>1, RowHasFields
  <2> HIDE DEF Typed, WorkersTyped
  <2>5. HasFor(p, x, y) => HasFor(p, x, y)' \/ Stored(x, y)'
    BY <2>2, <2>3, <2>4 DEF HasFor, Stored
  <2> QED
    BY <2>2, <2>3, <2>5, PairKept DEF storeVars
<1>9. ASSUME BuildClusters(p) PROVE Goal
  <2>1. /\ UNCHANGED <<storeVars, queue, matches, subject, source, under, found, scored, unsaved>>
        /\ at[p] = "save" /\ unsaved[p] = {} /\ at' = [at EXCEPT ![p] = "notify"]
    BY <1>9 DEF BuildClusters, reviewVars
  <2>2. \A q \in Workers : q # p => UNCHANGED Mine(q)
    BY <2>1 DEF Mine
  <2> HIDE DEF Typed, WorkersTyped
  <2> QED
    BY <2>1, <2>2, PairKept DEF HasFor, storeVars
<1>10. ~ ExecutionFails(p) /\ \A c \in unsaved[p] : ~ SaveFails(p, c)
  BY DEF ExecutionFails, SaveFails, Fault
<1> HIDE DEF Goal
<1>11. Goal
  BY <1>2, <1>3, <1>4, <1>5, <1>6, <1>7, <1>8, <1>9, <1>10 DEF Matcher
<1> QED
  BY <1>11 DEF Goal

\* Twins that are stored already, and not crowded after a step, were so before it.
LEMMA WereTwins ==
  ASSUME Typed, StoreStep, NEW a \in Bulk, NEW b \in Bulk, Twins(a, b)', ~Crowded(a)',
         stored[a] # Absent, stored[b] # Absent
  PROVE  Twins(a, b) /\ ~Crowded(a)
<1>1. a \in Entities /\ b \in Entities /\ a \notin changed' /\ b \notin changed'
  BY MatchingAssumption DEF Twins
<1>2. /\ \A f \in Entities \ changed' : f \notin changed /\ (stored'[f] = stored[f] \/ stored[f] = Absent)
      /\ changed \subseteq Entities
  BY StoreEffect DEF Typed, DataTyped
<1>3. stored'[a] = stored[a] /\ stored'[b] = stored[b] /\ a \notin changed /\ b \notin changed
  BY <1>1, <1>2
<1>4. Twins(a, b)
  BY <1>1, <1>3 DEF Twins, ExactMatches
<1>5. PICK X, Y : X = ExactMatches(stored[a]) \cup changed /\ Y = (ExactMatches(stored[a]) \cup changed)'
  OBVIOUS
<1>6. X \in SUBSET Y
  <2>1. changed \subseteq changed'
    BY <1>2
  <2>2. ASSUME NEW f \in ExactMatches(stored[a]), f \notin changed' PROVE f \in ExactMatches(stored[a])'
    <3>1. f \in Entities /\ stored[f] # Absent
      BY DEF ExactMatches
    <3>2. stored'[f] = stored[f]
      BY <1>2, <2>2, <3>1
    <3> QED
      BY <1>3, <3>1, <3>2 DEF ExactMatches
  <2> QED
    BY <1>5, <2>1, <2>2
<1>7. Y \in SUBSET Entities
  <2>1. changed' \subseteq Entities
    BY TypedStore DEF Typed, DataTyped
  <2> QED
    BY <1>5, <2>1 DEF ExactMatches
<1>8. IsFiniteSet(Y) /\ IsFiniteSet(X) /\ Cardinality(X) <= Cardinality(Y)
  BY <1>6, <1>7, MatchingAssumption, FS_Subset
<1>9. Cardinality(X) \in Nat /\ Cardinality(Y) \in Nat
  BY <1>8, FS_CardinalityType
<1>10. ~(Cardinality(Y) > MaxCandidates) /\ ~(Cardinality(Entities) > MaxCandidates + 1)
  BY <1>5 DEF Crowded
<1>11. ~(Cardinality(X) > MaxCandidates)
  BY <1>8, <1>9, <1>10, MatchingAssumption
<1> QED
  BY <1>4, <1>5, <1>10, <1>11 DEF Crowded

LEMMA PairStored ==
  ASSUME Typed, NoPairMissed, StoreStep
  PROVE  NoPairMissed'
<1> SUFFICES ASSUME NEW a \in Bulk, NEW b \in Bulk, Twins(a, b)', faults' = {}, ~Crowded(a)', ~Crowded(b)'
             PROVE  (Waiting(a) \/ Waiting(b) \/ Has(a, b) \/ Has(b, a))'
  BY DEF NoPairMissed
<1>1. UNCHANGED <<workerVars, matches>>
  BY DEF StoreStep, CreateEntity, BulkInsert, PatchEntity, BulkRolledBack, EnqueueMatch, EnqueueFails,
     HardErase, reviewVars
<1>2. loading \cup queue \subseteq loading' \cup queue' /\ faults = {}
  BY DEF StoreStep, CreateEntity, BulkInsert, PatchEntity, BulkRolledBack, EnqueueMatch, EnqueueFails,
     HardErase, Fault
<1>3. /\ \A x : Waiting(x) => Waiting(x)'
      /\ \A x, y : Has(x, y) => Has(x, y)'
  BY <1>1, <1>2 DEF Waiting, Has, HasFor, Stored, workerVars
<1>4. ASSUME NEW x \in Bulk, x \notin changed', stored'[x] # Absent, stored[x] = Absent
      PROVE  Waiting(x)'
  <2>1. x \in loading'
    BY <1>4, MatchingAssumption DEF StoreStep, CreateEntity, BulkInsert, PatchEntity, BulkRolledBack,
       EnqueueMatch, EnqueueFails, HardErase, Typed, DataTyped
  <2> QED
    BY <2>1 DEF Waiting
<1>5. CASE stored[a] = Absent \/ stored[b] = Absent
  BY <1>4, <1>5 DEF Twins
<1>6. CASE stored[a] # Absent /\ stored[b] # Absent
  <2>1. Twins(b, a)'
    BY DEF Twins
  <2>2. Twins(a, b) /\ ~Crowded(a) /\ ~Crowded(b)
    BY <1>6, <2>1, WereTwins
  <2> QED
    BY <1>2, <1>3, <2>2 DEF NoPairMissed
<1> QED
  BY <1>5, <1>6

LEMMA NoPairMissedStep == Typed /\ Fresh /\ NoPairMissed /\ [Next]_vars => NoPairMissed'
<1> SUFFICES ASSUME Typed, Fresh, NoPairMissed, [Next]_vars PROVE NoPairMissed'
  OBVIOUS
<1>1. ASSUME NEW p \in Workers, Matcher(p) \/ ExecutionFails(p) PROVE NoPairMissed'
  <2> SUFFICES ASSUME NEW a \in Bulk, NEW b \in Bulk, Twins(a, b)', faults' = {}, ~Crowded(a)', ~Crowded(b)'
               PROVE  (Waiting(a) \/ Waiting(b) \/ Has(a, b) \/ Has(b, a))'
    BY DEF NoPairMissed
  <2>1. UNCHANGED storeVars
    BY <1>1 DEF Matcher, Dequeue, ReadCached, ReadStored, FillSource, SkipMissing, GenerateCandidates,
       ScoreCandidates, SaveCandidate, SaveFails, BuildClusters, NotifyOwner, ExecutionFails
  <2>2. faults = {}
    BY <1>1 DEF Matcher, Dequeue, ReadCached, ReadStored, FillSource, SkipMissing, GenerateCandidates,
       ScoreCandidates, SaveCandidate, SaveFails, BuildClusters, NotifyOwner, ExecutionFails, Fault
  <2>3. Twins(a, b) /\ Twins(b, a) /\ ~Crowded(a) /\ ~Crowded(b)
    BY <2>1 DEF Twins, Crowded, ExactMatches, storeVars
  <2>4. Waiting(a) \/ Waiting(b) \/ Has(a, b) \/ Has(b, a)
    BY <2>2, <2>3 DEF NoPairMissed
  <2> QED
    BY <1>1, <2>3, <2>4, PairGoesOn
<1>2. CASE UNCHANGED <<storeVars, queue, workerVars, faults>> /\ \A x, y : Stored(x, y) => Stored(x, y)'
  <2>1. /\ \A x : Waiting(x) => Waiting(x)'
        /\ \A x, y : Has(x, y) => Has(x, y)'
        /\ \A x, y : Twins(x, y)' => Twins(x, y)
        /\ \A x : Crowded(x) => Crowded(x)'
    BY <1>2 DEF Waiting, Has, HasFor, workerVars, storeVars, Twins, Crowded, ExactMatches
  <2> QED
    BY <1>2, <2>1 DEF NoPairMissed
<1>3. ASSUME Review
      PROVE  UNCHANGED <<storeVars, queue, workerVars, faults>> /\ \A x, y : Stored(x, y) => Stored(x, y)'
  <2>1. PICK m \in matches, status \in {"Matched", "Rejected"}, id \in CandidateIds : Decide(m, status, id)
    BY <1>3 DEF Review
  <2>2. \A n \in matches : \E r \in matches' : r.source = n.source /\ r.candidate = n.candidate
    BY <2>1, DecideKeeps DEF Typed
  <2>3. UNCHANGED <<storeVars, queue, workerVars, faults>>
    BY <2>1 DEF Decide
  <2>4. ASSUME NEW x, NEW y, Stored(x, y) PROVE Stored(x, y)'
    BY <2>2, <2>4 DEF Stored
  <2> QED
    BY <2>3, <2>4
<1>4. ASSUME CacheStep \/ PolicyStep \/ UNCHANGED vars
      PROVE  UNCHANGED <<storeVars, queue, workerVars, faults, matches>>
  BY <1>4, PolicyOnly DEF CacheStep, View, CacheExpire, FillCache, FillFails, vars, reviewVars
<1>5. UNCHANGED matches => \A x, y : Stored(x, y) => Stored(x, y)'
  BY DEF Stored
<1> QED
  BY <1>1, <1>2, <1>3, <1>4, <1>5, PairStored, StepCases

\* When all tasks are done, of two bulk-loaded entities with the same exact key
\* one is stored as a candidate of the other, in whatever order they were
\* committed, queued and matched, unless something failed or more entities share
\* the key of one of them than max_candidates (entities.rs:352, candidate_generation.rs:55).
THEOREM DuplicatesCorrect == Spec => []DuplicatesFound
<1>1. Init => NoPairMissed
  BY MatchingAssumption DEF Init, NoPairMissed, Twins
<1>2. NoPairMissed => DuplicatesFound
  <2> SUFFICES ASSUME NoPairMissed, NEW a \in Bulk, NEW b \in Bulk, loading \cup queue \cup Busy = {},
                      Twins(a, b), faults = {}, ~Crowded(a), ~Crowded(b)
               PROVE  Linked(a, b)
    BY DEF DuplicatesFound
  <2>1. \A p \in Workers : subject[p] # a /\ subject[p] # b
    <3>1. a # Absent /\ b # Absent
      BY MatchingAssumption
    <3> QED
      BY <3>1 DEF Busy
  <2>2. ~Waiting(a) /\ ~Waiting(b)
    BY <2>1 DEF Waiting
  <2>3. Stored(a, b) \/ Stored(b, a)
    BY <2>1, <2>2 DEF NoPairMissed, Has, HasFor
  <2> QED
    BY <2>3 DEF Stored, Linked
<1> QED
  BY <1>1, <1>2, NoPairMissedStep, TypedAlways, FreshAlways, PTL DEF Spec
=============================================================================
