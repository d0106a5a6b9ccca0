-------------------------- MODULE MCEntityMatching --------------------------
(* Instances of EntityMatching for TLC.                                    *)
EXTENDS EntityMatching, TLC

CONSTANTS e1, e2, e3, w1, w2, mail, other, dashed, plain, ann, anna, standard, fuzzy

Values == {mail, other, dashed, plain, ann, anna}

\* A phone is looked for without its dashes, but stored with them.
MCKey == [v \in Values |-> IF v = dashed THEN plain ELSE v]
MCText == [v \in Values |-> v]

\* Besides the weights a replica starts with, those that are fuzzy only.
MCSimilarity ==
  [g \in Weightings |->
     [p \in Values \X Values |->
        CASE p[1] = p[2] -> 1000
          [] {p[1], p[2]} = {ann, anna} -> IF g = standard THEN 800 ELSE 900
          [] OTHER -> IF g = standard THEN 300 ELSE 400]]
MCVectorWeight == [g \in Weightings |-> IF g = standard THEN 100 ELSE 0]

\* Other weights together with another review threshold, and without a change of the
\* threshold for merges.
MCUpdates == {[weighting |-> fuzzy, auto |-> Absent, review |-> 550]}

Card(field, v, name) == field :> v @@ "name" :> name

\* The same mail with the same or a similar name, and the name without it.
MCContents ==
  {Card("email", mail, ann), Card("email", mail, anna), Card("email", other, ann), Card("phone", dashed, ann)}
MCFirst ==
  [e \in Entities |->
     CASE e = e1 -> {Card("email", mail, ann)}
       [] e = e2 -> {Card("email", mail, anna)}
       [] OTHER -> {Card("email", mail, ann), Card("phone", dashed, ann)}]
MCPatches == {Card("email", other, ann)}

MCSymmetry == Permutations(Workers)

\* A bound: copies of entities without a task, which no worker reads, wait to be cached.
UnreadCopiesWait == \A e \in Entities \ Bulk : cached[e] = Absent
=============================================================================
