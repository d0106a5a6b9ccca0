---------------------------- MODULE Survivorship ----------------------------
(***************************************************************************)
(* The survivorship engine of mdm-core: apply_survivorship builds a golden *)
(* record from the entities of a merge, the surviving one first, and the   *)
(* tenant's rules, the highest priority first.  Each rule scores the       *)
(* attributes of its key and takes the best.                               *)
(*                                                                         *)
(* Attributes are named by their position: that of their entity in the     *)
(* merge and their own in the entity.  Scores are in units of 1/One.  f32  *)
(* arithmetic is taken as exact but for timestamps, whose seconds need     *)
(* more than the 24 bits it keeps: sums with one are rounded to Ulp        *)
(* seconds, as they are from 2004 to 2038.  Numbers so great that an f32   *)
(* beside them loses whole units (confidences of 2^24 and more) and        *)
(* infinities are not modelled.                                            *)
(***************************************************************************)
EXTENDS Integers, Sequences, FiniteSets, FiniteSetsExt, Functions

CONSTANTS
  Ids,           \* entity_id
  Inputs,        \* the entities and rules of the executions looked at
  Length,        \* Length[v]: the bytes of value v written as JSON
  Null,          \* the JSON null
  Blank,         \* null and the empty strings, arrays and objects
  None,          \* an absent confidence, timestamp, trust score or minimum
  Ulp,           \* the seconds between two neighbouring f32 of a Unix time, 128
  Epoch          \* the first time looked at, in units of Ulp: 2^23, or later

One == 5000

\* Ulp seconds as a score.
Grid == Ulp * One

Strategies == {"TrustedSource", "HighestConfidence", "MostRecent", "LongestValue",
  "MostComplete", "AIRecommended", "SemanticSimilarity", "HybridWeighted", "Custom"}

\* Confidences and trust scores are shares, as everything that writes one means them,
\* but no type or CHECK says so: a client may send any number.  Times are in seconds
\* since Epoch.
Attributes == [key : STRING, value : DOMAIN Length, source : STRING,
               confidence : Int \cup {None}, extracted : Nat \cup {None}]
Entities == [id : Ids, trust : Int \cup {None}, attributes : Seq(Attributes)]
RuleSet == [attribute : STRING, strategy : Strategies, source_priority : Seq(STRING),
            minimum_confidence : Int \cup {None}]

ASSUME SurvivorshipAssumption ==
  /\ Length \in [DOMAIN Length -> Nat \ {0}]
  /\ Null \in Blank /\ Blank \subseteq DOMAIN Length
  /\ Inputs \subseteq [entities : Seq(Entities), rules : Seq(RuleSet)]
  /\ Ulp \in Nat \ {0} /\ Epoch \in Nat \ {0}

VARIABLES
  entities,      \* the entities of the execution
  rules,         \* its rules
  next,          \* the rule to process next
  attributes,    \* golden_attributes, in the order of their rules
  decisions,     \* the decision of each of them, for the explanation
  evaluations,   \* an evaluation for each rule processed
  conflicts,     \* the conflicts found
  golden         \* the golden record that is returned

vars == <<entities, rules, next, attributes, decisions, evaluations, conflicts, golden>>

NoRecord == <<>>

-----------------------------------------------------------------------------
(* Scores.                                                                 *)

Or(x, default) == IF x = None THEN default ELSE x

Completeness(a) == IF a.value \in Blank THEN 0 ELSE One
Recency(a) == IF a.extracted = None THEN 0 ELSE One
Richness(a) == Min({(Length[a.value] * One) \div 1000, One})

Listed(r, source) == {i \in DOMAIN r.source_priority : r.source_priority[i] = source}

\* The number of sources from the first that is the attribute's to the last of the
\* rule, and 0 for a source that is not listed.
Priority(r, source) ==
  IF Listed(r, source) = {} THEN 0 ELSE Len(r.source_priority) - Min(Listed(r, source)) + 1

\* The multiple of a unit next to x, the even one of two.
Nearest(x, unit) ==
  LET low == x \div unit
      rest == x % unit
  IN  IF 2 * rest > unit \/ (2 * rest = unit /\ low % 2 = 1) THEN low + 1 ELSE low

\* The seconds of a timestamp, and those of none.
UnixTime(a) == IF a.extracted = None THEN 0 ELSE Epoch * Ulp + a.extracted

\* A composite of percentages.
Blend(percent, a) ==
  (  percent.confidence * Or(a.confidence, 0)
   + percent.completeness * Completeness(a)
   + percent.recency * Recency(a)
   + percent.richness * Richness(a)) \div 100

StrategyScore(a, r) ==
  CASE r.strategy = "TrustedSource" -> Priority(r, a.source) * One
    [] r.strategy = "HighestConfidence" -> Or(a.confidence, 0)
    [] r.strategy = "MostRecent" -> Grid * Nearest(UnixTime(a), Ulp)
    [] r.strategy = "LongestValue" -> Length[a.value] * One
    [] r.strategy = "MostComplete" -> Completeness(a)
    [] r.strategy = "AIRecommended" ->
         Blend([confidence |-> 50, completeness |-> 30, recency |-> 20, richness |-> 0], a)
    [] r.strategy = "SemanticSimilarity" ->
         Blend([confidence |-> 40, completeness |-> 20, recency |-> 0, richness |-> 40], a)
    [] r.strategy = "HybridWeighted" ->
         Blend([confidence |-> 35, completeness |-> 25, recency |-> 20, richness |-> 20], a)
    [] r.strategy = "Custom" -> One

\* What an f32 keeps of a score that may be one of a timestamp.
Rounded(a, r, x) ==
  IF r.strategy = "MostRecent" /\ a.extracted # None THEN Grid * Nearest(x, Grid) ELSE x

\* DEFECT: the confidence is weighed as much as five ranks of sources.
ScoreFivefold(a, r) == Rounded(a, r, StrategyScore(a, r) + 5 * Or(a.confidence, 0))

\* The confidence is added whatever the strategy.
Score(a, r) == Rounded(a, r, StrategyScore(a, r) + Or(a.confidence, 0))

-----------------------------------------------------------------------------
(* The candidates of a rule.                                               *)

At(es, p) == es[p[1]].attributes[p[2]]
Positions(es) == UNION {{i} \X DOMAIN es[i].attributes : i \in DOMAIN es}
Before(p, q) == p[1] < q[1] \/ (p[1] = q[1] /\ p[2] < q[2])

\* minimum_confidence bounds the score, not the confidence.
Eligible(a, r) ==
  /\ a.key = r.attribute
  /\ r.minimum_confidence = None \/ Score(a, r) >= r.minimum_confidence

Candidates(es, r) == {p \in Positions(es) : Eligible(At(es, p), r)}

\* DEFECT: the order of equal scores is turned round.
OutranksUnstable(es, r, p, q) ==
  \/ Score(At(es, p), r) > Score(At(es, q), r)
  \/ Score(At(es, p), r) = Score(At(es, q), r) /\ Before(q, p)
\* Whether p comes before q in a stable sort by descending score.
Outranks(es, r, p, q) ==
  \/ Score(At(es, p), r) > Score(At(es, q), r)
  \/ Score(At(es, p), r) = Score(At(es, q), r) /\ Before(p, q)

Place(es, r, p) == 1 + Cardinality({q \in Candidates(es, r) : Outranks(es, r, q, p)})

\* The positions of the candidates in the order of the sort.
Order(es, r) ==
  [n \in 1..Cardinality(Candidates(es, r)) |->
    CHOOSE p \in Candidates(es, r) : Place(es, r, p) = n]

Ranked(es, r) ==
  [n \in 1..Cardinality(Candidates(es, r)) |->
    LET p == Order(es, r)[n]
    IN  [entity |-> es[p[1]].id, attribute |-> At(es, p), score |-> Score(At(es, p), r)]]

\* DEFECT: the score of the winner is taken for its margin.
ConfidenceOfWinner(ranked) == Min({ranked[1].score, One})

\* The margin of the winner over the second, as a share of its score: rounded up,
\* for an f32 tells the smallest share from none, and clamped, for a second with a
\* negative score is behind by more than the winner's own.
Confidence(ranked) ==
  IF Len(ranked) <= 1 THEN One
  ELSE LET margin == ranked[1].score - ranked[2].score
           scale == Max({ranked[1].score, One})
       IN  Max({0, Min({(margin * One + scale - 1) \div scale, One})})

AIScore(c) == (c.score + Or(c.attribute.confidence, One \div 2)) \div 2

Policies(c) == IF c.score < One \div 2 THEN {"low_confidence_review_required"} ELSE {}
Recommendations(c) == IF 10 * c.score < 7 * One THEN {"consider_manual_review"} ELSE {}

-----------------------------------------------------------------------------
(* Quality.                                                                *)

Share(part, whole) == IF whole = {} THEN 0 ELSE (Cardinality(part) * One) \div Cardinality(whole)

\* The share of the attributes that are not null.
RecordCompleteness(es) == Share({p \in Positions(es) : At(es, p).value # Null}, Positions(es))

TrustScore(es) ==
  LET rated == {i \in DOMAIN es : es[i].trust # None}
  IN  IF rated = {} THEN One \div 2
      ELSE MapThenSumSet(LAMBDA i : es[i].trust, rated) \div Cardinality(rated)

QualityScore(es) == (RecordCompleteness(es) + TrustScore(es)) \div 2

ConsistencyScore(cs) ==
  IF cs = <<>> THEN One ELSE Share({i \in DOMAIN cs : cs[i].resolved}, DOMAIN cs)

SourceContributions(es) ==
  [i \in DOMAIN es |->
    [entity |-> es[i].id,
     score |-> Share({j \in DOMAIN es[i].attributes : es[i].attributes[j].value # Null}, DOMAIN es[i].attributes),
     attributes |-> [j \in DOMAIN es[i].attributes |-> es[i].attributes[j].key]]]

-----------------------------------------------------------------------------
Init ==
  /\ \E in \in Inputs : entities = in.entities /\ rules = in.rules
  /\ next = 1
  /\ attributes = <<>> /\ decisions = <<>> /\ evaluations = <<>> /\ conflicts = <<>>
  /\ golden = NoRecord

Rule == rules[next]

ProcessRule ==
  /\ golden = NoRecord
  /\ entities # <<>>
  /\ next \in DOMAIN rules
  /\ next' = next + 1

\* DEFECT: a rule without candidates is skipped silently.
NoCandidatesSilent ==
  /\ ProcessRule
  /\ Candidates(entities, Rule) = {}
  /\ UNCHANGED <<entities, rules, attributes, decisions, evaluations, conflicts, golden>>

\* A rule no attribute is eligible for leaves a warning.
NoCandidates ==
  /\ ProcessRule
  /\ Candidates(entities, Rule) = {}
  /\ evaluations' = Append(evaluations,
       [attribute |-> Rule.attribute, value |-> Null, source |-> None, confidence |-> 0,
        score |-> 0, warning |-> TRUE])
  /\ UNCHANGED <<entities, rules, attributes, decisions, conflicts, golden>>

Decision(r, ranked) ==
  [field |-> r.attribute, entity |-> ranked[1].entity, value |-> ranked[1].attribute.value,
   source |-> ranked[1].attribute.source, strategy |-> r.strategy,
   confidence |-> Confidence(ranked), score |-> ranked[1].score,
   candidates |-> [i \in DOMAIN ranked |->
     [entity |-> ranked[i].entity, score |-> ranked[i].score, ai |-> AIScore(ranked[i])]],
   policies |-> Policies(ranked[1]), recommendations |-> Recommendations(ranked[1])]

Evaluation(r, ranked) ==
  [attribute |-> r.attribute, value |-> ranked[1].attribute.value,
   source |-> ranked[1].attribute.source, confidence |-> Confidence(ranked),
   score |-> ranked[1].score, warning |-> FALSE]

\* Two candidates conflict even if their values are equal.
Conflict(r, ranked) ==
  [attribute |-> r.attribute, resolved |-> TRUE,
   values |-> [i \in DOMAIN ranked |-> ranked[i].attribute.value]]

\* The winner's attribute, its confidence replaced by the margin.
GoldenAttribute(n, ranked) ==
  [attribute |-> [ranked[1].attribute EXCEPT !.confidence = Confidence(ranked)],
   entity |-> ranked[1].entity, rule |-> n, score |-> ranked[1].score,
   candidates |-> [i \in DOMAIN ranked |-> ranked[i].entity]]

SelectWinner ==
  /\ ProcessRule
  /\ Candidates(entities, Rule) # {}
  /\ LET ranked == Ranked(entities, Rule)
     IN  /\ conflicts' = IF Len(ranked) > 1 THEN Append(conflicts, Conflict(Rule, ranked)) ELSE conflicts
         /\ decisions' = Append(decisions, Decision(Rule, ranked))
         /\ evaluations' = Append(evaluations, Evaluation(Rule, ranked))
         /\ attributes' = Append(attributes, GoldenAttribute(next, ranked))
  /\ UNCHANGED <<entities, rules, golden>>

Quality(es) ==
  [trust |-> TrustScore(es), completeness |-> RecordCompleteness(es),
   consistency |-> ConsistencyScore(conflicts), overall |-> QualityScore(es)]

BuildRecord ==
  /\ golden = NoRecord
  /\ entities # <<>>
  /\ next > Len(rules)
  /\ golden' = [stage |-> "SurvivorshipApplied", status |-> "Active",
                sources |-> [i \in DOMAIN entities |-> entities[i].id],
                attributes |-> attributes, conflicts |-> conflicts,
                contributions |-> SourceContributions(entities), quality |-> Quality(entities)]
  /\ UNCHANGED <<entities, rules, next, attributes, decisions, evaluations, conflicts>>

BuildEmptyRecord ==
  /\ golden = NoRecord
  /\ entities = <<>>
  /\ golden' = [stage |-> "Created", status |-> "Draft", sources |-> <<>>,
                attributes |-> <<>>, conflicts |-> <<>>, contributions |-> <<>>,
                quality |-> [trust |-> 0, completeness |-> 0, consistency |-> One, overall |-> 0]]
  /\ UNCHANGED <<entities, rules, next, attributes, decisions, evaluations, conflicts>>

Next ==
  \/ NoCandidates
  \/ SelectWinner
  \/ BuildRecord
  \/ BuildEmptyRecord

Spec == Init /\ [][Next]_vars

-----------------------------------------------------------------------------
(* Properties.                                                             *)

Evaluations == [attribute : STRING, value : DOMAIN Length, source : STRING \cup {None},
                confidence : 0..One, score : Int, warning : BOOLEAN]
Decisions == [field : STRING, entity : Ids, value : DOMAIN Length, source : STRING,
              strategy : Strategies, confidence : 0..One, score : Int,
              candidates : Seq([entity : Ids, score : Int, ai : Int]),
              policies : SUBSET {"low_confidence_review_required"},
              recommendations : SUBSET {"consider_manual_review"}]
Conflicts == [attribute : STRING, resolved : {TRUE}, values : Seq(DOMAIN Length)]
Chosen == [attribute : Attributes, entity : Ids, rule : Nat, score : Int, candidates : Seq(Ids)]

\* What is built for a merge is well formed at every step: whatever the strategy, the
\* scale of its scores and the confidences sent, that of a golden attribute is between
\* 0 and 1.
TypeOK ==
  /\ entities \in Seq(Entities) /\ rules \in Seq(RuleSet)
  /\ next \in 1..(Len(rules) + 1)
  /\ evaluations \in Seq(Evaluations) /\ decisions \in Seq(Decisions)
  /\ conflicts \in Seq(Conflicts)
  /\ attributes \in Seq(Chosen)
  /\ \A i \in DOMAIN attributes : attributes[i].attribute.confidence \in 0..One

GoldenAttributes == Range(attributes)
RuleOf(g) == rules[g.rule]

\* The attributes a rule may choose from.
Contenders(r) == {p \in Positions(entities) : At(entities, p).key = r.attribute}

\* The attribute of a source entity that a golden attribute is a copy of.
From(g, p) ==
  /\ entities[p[1]].id = g.entity
  /\ [At(entities, p) EXCEPT !.confidence = g.attribute.confidence] = g.attribute

\* Each golden attribute is a copy of one of a source entity that no other one
\* scores more than, the first of those in the order of the merge: the surviving
\* entity keeps its value unless a better one is found.
BestSurvives ==
  \A g \in GoldenAttributes : \E p \in Contenders(RuleOf(g)) :
    /\ From(g, p)
    /\ g.score = Score(At(entities, p), RuleOf(g))
    /\ \A q \in Contenders(RuleOf(g)) :
         \/ Score(At(entities, q), RuleOf(g)) < g.score
         \/ Score(At(entities, q), RuleOf(g)) = g.score /\ ~Before(q, p)

\* A source that a TrustedSource rule lists some ranks before the winner's loses to it
\* only if the winner has more confidence by as many units: with shares, only the next
\* one up without confidence to a certain one, that comes first in the merge.
PriorityHonoured(g) ==
  RuleOf(g).strategy = "TrustedSource" =>
    \E p \in Contenders(RuleOf(g)) : From(g, p) /\ \A q \in Contenders(RuleOf(g)) :
      LET lead == Priority(RuleOf(g), At(entities, q).source) - Priority(RuleOf(g), At(entities, p).source)
          surplus == Or(At(entities, p).confidence, 0) - Or(At(entities, q).confidence, 0)
      IN  \/ lead * One < surplus
          \/ lead * One = surplus /\ ~Before(q, p)

\* Too small a confidence for the sum with a timestamp to be another than the timestamp.
Absorbed(a) == 2 * Or(a.confidence, 0) \in (1 - Grid)..(Grid - 1)

\* MostRecent prefers a timestamp to none, and of two timestamps the later one unless
\* an f32 may take them for the same.  A confidence that is not a share counts as that
\* many seconds.
RecentHonoured(g) ==
  RuleOf(g).strategy = "MostRecent" =>
    \E p \in Contenders(RuleOf(g)) : From(g, p) /\ \A q \in Contenders(RuleOf(g)) :
      LET a == At(entities, p)
          b == At(entities, q)
          later == UnixTime(b) - UnixTime(a)
      IN  IF Absorbed(a) /\ Absorbed(b)
          THEN later <= Ulp /\ (b.extracted # None => a.extracted # None)
          ELSE later * One <= Or(a.confidence, 0) - Or(b.confidence, 0) + 2 * Grid

\* Where the strategy is an order of sources or of times, the confidence that is added
\* to every score overturns it only by as much as it differs itself, also where the
\* confidences sent are no shares (engine.rs:1222).
StrategyHonoured == \A g \in GoldenAttributes : PriorityHonoured(g) /\ RecentHonoured(g)

\* The confidence of a golden attribute is a share, whatever the scale of the scores,
\* and tells how clear the choice was: all of it without a rival, none of it after a
\* tie, something in between otherwise.
ConfidenceIsMargin ==
  \A g \in GoldenAttributes :
    LET scores == [p \in Contenders(RuleOf(g)) |-> Score(At(entities, p), RuleOf(g))]
        best == {p \in DOMAIN scores : scores[p] = g.score}
    IN  /\ g.attribute.confidence \in 0..One
        /\ Len(g.candidates) = 1 => g.attribute.confidence = One
        /\ Cardinality(best) > 1 => g.attribute.confidence = 0
        /\ Cardinality(best) = 1 => g.attribute.confidence > 0

\* A finished record accounts for every rule in turn: the winner and all the
\* candidates it beat, a conflict if there were any, or a warning.
RulesAccounted ==
  golden # NoRecord /\ entities # <<>> =>
    LET Eligibles(r) == {p \in Contenders(r) : r.minimum_confidence = None \/ Score(At(entities, p), r) >= r.minimum_confidence}
    IN  /\ Len(evaluations) = Len(rules)
        /\ \A i \in DOMAIN rules :
             /\ evaluations[i].attribute = rules[i].attribute
             /\ IF Eligibles(rules[i]) = {} THEN evaluations[i].warning
                ELSE \E g \in Range(golden.attributes) :
                       /\ g.rule = i /\ g.attribute.value = evaluations[i].value
                       /\ Len(g.candidates) = Cardinality(Eligibles(rules[i]))
        /\ Len(golden.conflicts) = Cardinality({i \in DOMAIN rules : Cardinality(Eligibles(rules[i])) > 1})
=============================================================================
