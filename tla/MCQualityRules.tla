--------------------------- MODULE MCQualityRules ---------------------------
(* An instance of QualityRules for TLC: the second request sends the       *)
(* entity of the first again, with another age, and one more.              *)
EXTENDS QualityRules, TLC

CONSTANTS e1, e2, q1, q2, q3

Value(kind, n) == [kind |-> kind, n |-> n]
Missing == Value("missing", 0)

Condition(field, operator, value) == [field |-> field, operator |-> operator, value |-> value]

Definition(conditions, logicalOp, action, active) ==
  [conditions |-> conditions, logicalOp |-> logicalOp, action |-> action, type |-> "customer", active |-> active]

Young == Condition("age", "less_than", Value("number", 18))
City == Condition("city", "postal_city_match", Value("text", 0))

MCDefinitions ==
  {Definition({Young, City}, "OR", "flag", TRUE),
   Definition({Young}, "AND", "quarantine", TRUE),
   Definition({Young, City}, "AND", "flag", FALSE)}

MCTypeOf == (e1 :> "customer") @@ (e2 :> "customer")

Attrs(age, city) == [age |-> age, city |-> city]
Item1(age) == [entity |-> e1, attrs |-> Attrs(age, Value("text", 0))]
Item2(age) == [entity |-> e2, attrs |-> Attrs(age, Value("text", 0))]

MCChunk ==
  (q1 :> <<Item1(Value("number", 40)), Item2(Missing)>>)
  @@ (q2 :> <<Item2(Missing), Item1(Value("text", 0))>>)
  @@ (q3 :> <<Item1(Value("number", 40))>>)
=============================================================================
