--------------------------- MODULE MCSurvivorship ---------------------------
(* Instances of Survivorship for TLC.                                      *)
EXTENDS Survivorship, TLC

CONSTANTS long, short, blank, null, primary, second, third

MCLength == long :> 40 @@ short :> 7 @@ blank :> 2 @@ null :> 4

Attribute(key, value, source, confidence, extracted) ==
  [key |-> key, value |-> value, source |-> source, confidence |-> confidence, extracted |-> extracted]
Entity(id, trust, as) == [id |-> id, trust |-> trust, attributes |-> as]
MCRule(key, strategy, minimum) ==
  [attribute |-> key, strategy |-> strategy, source_priority |-> <<"crm", "erp">>, minimum_confidence |-> minimum]

Pair(a, b, strategy, minimum) ==
  [entities |-> <<Entity(primary, None, <<a>>), Entity(second, 4000, <<b>>)>>,
   rules |-> <<MCRule("name", strategy, minimum)>>]

\* None, shares, and what a client may send that is none.
Confidences == {None, 2500, One, 3 * One, -One}

\* Two entities that differ in a name: its source, or its value and time.
SourceNames == {Attribute("name", long, s, c, None) : s \in {"crm", "erp", "unknown"}, c \in Confidences}
MixedNames == {Attribute("name", v, "crm", c, t) : v \in {long, blank}, c \in Confidences, t \in {None, 6}}
NamePairs ==
  {Pair(a, b, "TrustedSource", None) : a \in SourceNames, b \in SourceNames}
    \cup {Pair(a, b, "HybridWeighted", None) : a \in MixedNames, b \in MixedNames}

\* Their times are in the same, in adjacent and in distant units of an f32, and half
\* way between two.
TimedNames == {Attribute("name", long, "crm", c, t) : c \in Confidences, t \in {None, 1, 2, 6, 10, 22}}
TimedPairs == {Pair(a, b, "MostRecent", None) : a \in TimedNames, b \in TimedNames}

\* Values and confidences only, for the other strategies and with a minimum.
PlainNames ==
  {Attribute("name", v, "crm", c, None) : v \in {long, short, blank, null}, c \in {2500, One}}
    \cup {Attribute("name", long, "crm", c, None) : c \in Confidences}
PlainPairs ==
  {Pair(a, b, strategy, minimum) : a \in PlainNames, b \in PlainNames, strategy \in Strategies, minimum \in {None, 4000}}

\* Three entities with names and phones, two rules for the name and one for a
\* key that no entity has.
Cards == {<<Attribute("name", v, s, c, None), Attribute("phone", w, s, c, None)>> :
            v \in {long, short}, w \in {short, null}, s \in {"crm", "erp"}, c \in {2500, One}}
Triples ==
  {[entities |-> <<Entity(primary, One, x), Entity(second, None, y), Entity(third, 3 * One, z)>>,
    rules |-> <<MCRule("name", "TrustedSource", None), MCRule("phone", "LongestValue", None),
                MCRule("name", "AIRecommended", 4000), MCRule("email", "MostComplete", None)>>] :
     x \in Cards, y \in Cards, z \in {card \in Cards : card[1].source = "erp"}}

MCInputs ==
  NamePairs \cup TimedPairs \cup PlainPairs \cup Triples
    \cup {[entities |-> <<>>, rules |-> <<MCRule("name", "Custom", None)>>]}
=============================================================================
