------------------------- MODULE QualityRulesProofs -------------------------
(* The data quality rules, for every set of rules, requests and stewards   *)
(* and for chunks of any length: what is stored was allowed (IInv), what a *)
(* transaction has written (Transactions), what is found, waits for a task *)
(* and is saved (RowInv), and that none of it is lost (LossInv).           *)
EXTENDS QualityRules, TLAPS

Statuses == {"new", "check", "read", "insert", "closed"}
Ruled == Definitions \cup {None, Deleted}

Typed ==
  /\ rules \in [Rules -> Ruled]
  /\ stored \subseteq Entities /\ storedBy \in [Entities -> Requests \cup {None}]
  /\ \A e \in stored : storedBy[e] \in Requests
  /\ at \in [Requests -> Statuses] /\ next \in [Requests -> Nat \ {0}]
  /\ written \in [Requests -> SUBSET Entities]
  /\ steady \in [Requests -> [Rules -> Ruled]]

\* Nothing was written by a request that was not received.
NewIsClean ==
  \A q \in Requests :
    at[q] = "new" => written[q] = {} /\ \A e \in stored : storedBy[e] # q

\* While a request is served, a rule that was left alone is what it was.
SteadyIsCurrent ==
  \A q \in Requests, r \in Rules :
    at[q] \in {"check", "read", "insert"} /\ steady[q][r] \in Definitions => rules[r] = steady[q][r]

AllowedFor(q, e) == q \in unchecked \/ \E attrs \in Attributes(q, e) : Allowed(q, e, attrs)

\* The entity between its check and its insertion was allowed.
ItemAllowed ==
  \A q \in Requests :
    at[q] \in {"read", "insert"} =>
      /\ next[q] \in DOMAIN Chunk[q]
      /\ \A i \in DOMAIN Chunk[q] : next[q] = i => AllowedFor(q, Chunk[q][i].entity)

\* So were those in an open transaction and those that are stored.
WrittenAllowed == \A q \in Requests : \A e \in written[q] : AllowedFor(q, e)
StoredAllowed == \A q \in Requests, e \in stored : storedBy[e] = q => AllowedFor(q, e)

Allowances == ItemAllowed /\ WrittenAllowed /\ StoredAllowed
IInv == Typed /\ NewIsClean /\ SteadyIsCurrent /\ Allowances

-----------------------------------------------------------------------------
\* The elements of a sequence.
LEMMA ElementOf ==
  ASSUME NEW S, NEW s \in Seq(S)
  PROVE  DOMAIN s = 1..Len(s) /\ Len(s) \in Nat /\ \A i \in DOMAIN s : s[i] \in S
  OBVIOUS

\* A chunk is a sequence of entities with their attributes.
LEMMA ChunkItem ==
  ASSUME NEW q \in Requests, NEW i \in DOMAIN Chunk[q]
  PROVE  /\ Chunk[q][i].entity \in Entities
         /\ Chunk[q][i].attrs \in Attributes(q, Chunk[q][i].entity)
<1> DEFINE Items == [entity : Entities, attrs : {Chunk[q][j].attrs : j \in DOMAIN Chunk[q]}]
<1>1. Chunk[q] \in Seq(Items)
  BY QualityRulesAssumption
<1>2. Chunk[q][i] \in Items
  <2> HIDE DEF Items
  <2> QED BY <1>1, ElementOf
<1>3. Chunk[q][i].entity \in Entities
  BY <1>2
<1>4. QED
  BY <1>3 DEF Attributes

LEMMA ChunkDomain ==
  ASSUME NEW q \in Requests
  PROVE  DOMAIN Chunk[q] = 1..Len(Chunk[q]) /\ Len(Chunk[q]) \in Nat
<1> DEFINE Items == [entity : Entities, attrs : {Chunk[q][j].attrs : j \in DOMAIN Chunk[q]}]
<1>1. Chunk[q] \in Seq(Items)
  BY QualityRulesAssumption
<1> HIDE DEF Items
<1> QED BY <1>1, ElementOf

-----------------------------------------------------------------------------
LEMMA InitIInv == Init => IInv
<1> SUFFICES ASSUME Init PROVE IInv
  OBVIOUS
<1>1. Typed
  BY DEF Init, Typed, Unset, Ruled, Statuses
<1>2. QED
  BY <1>1 DEF Init, IInv, NewIsClean, SteadyIsCurrent, Allowances, ItemAllowed, WrittenAllowed, StoredAllowed

\* What was allowed stays allowed: no rule becomes steady for a request that is served,
\* and a request whose check failed stays known.
LEMMA AllowedStays ==
  ASSUME NEW q \in Requests, NEW e, unchecked \subseteq unchecked', AllowedFor(q, e),
         \A r \in Rules : steady'[q][r] \in Definitions => steady'[q][r] = steady[q][r]
  PROVE  AllowedFor(q, e)'
<1>1. CASE q \in unchecked
  BY <1>1 DEF AllowedFor
<1>2. CASE q \notin unchecked
  <2>1. PICK attrs \in Attributes(q, e) : Allowed(q, e, attrs)
    BY <1>2 DEF AllowedFor
  <2>2. Allowed(q, e, attrs)'
    BY <2>1 DEF Allowed, Applies, Fires, Passes, Numeric, Threshold, Empty
  <2>3. QED
    BY <2>1, <2>2 DEF AllowedFor, Attributes
<1>3. QED
  BY <1>1, <1>2

\* A change of a rule ends its being steady for every request that is served.
LEMMA RuleStep ==
  ASSUME IInv, NEW r \in Rules, NEW d \in Ruled, Change(r, d)
  PROVE  IInv'
<1>1. Typed'
  BY DEF IInv, Typed, Change, Ruled, entityVars
<1>2. NewIsClean'
  BY DEF IInv, NewIsClean, Change, entityVars
<1>3. SteadyIsCurrent'
  BY QualityRulesAssumption DEF IInv, Typed, SteadyIsCurrent, Change
<1>4. \A q \in Requests, x \in Rules : steady'[q][x] \in Definitions => steady'[q][x] = steady[q][x]
  BY QualityRulesAssumption DEF IInv, Typed, Change
<1>5. \A q \in Requests, e \in Entities : AllowedFor(q, e) => AllowedFor(q, e)'
  BY <1>4, AllowedStays DEF Change
<1>6. Allowances'
  BY <1>5, ChunkItem DEF IInv, Typed, Allowances, ItemAllowed, WrittenAllowed, StoredAllowed, Change, entityVars
<1>7. QED
  BY <1>1, <1>2, <1>3, <1>6 DEF IInv

\* The rules of a request are those there are when it is received.
LEMMA ReceiveStep ==
  ASSUME IInv, NEW q \in Requests, Receive(q)
  PROVE  IInv'
<1>1. Typed'
  BY DEF IInv, Typed, Receive, Ruled, Statuses, entityVars
<1>2. NewIsClean'
  BY DEF IInv, Typed, NewIsClean, Receive, entityVars
<1>3. SteadyIsCurrent'
  BY DEF IInv, Typed, SteadyIsCurrent, Receive
<1>4. \A p \in Requests \ {q}, e \in Entities : AllowedFor(p, e) => AllowedFor(p, e)'
  BY AllowedStays DEF IInv, Typed, Receive
<1>5. ItemAllowed'
  BY <1>4, ChunkItem DEF IInv, Typed, Allowances, ItemAllowed, Receive
<1>6. WrittenAllowed'
  BY <1>4 DEF IInv, Typed, NewIsClean, Allowances, WrittenAllowed, Receive
<1>7. StoredAllowed'
  BY <1>4 DEF IInv, Typed, NewIsClean, Allowances, StoredAllowed, Receive, entityVars
<1>8. QED
  BY <1>1, <1>2, <1>3, <1>5, <1>6, <1>7 DEF IInv, Allowances

\* A step of a request that is served: it goes on to s and n, has W in its transaction
\* and stores E, all of it allowed.
LEMMA ServedStep ==
  ASSUME IInv, NEW q \in Requests, NEW s \in Statuses \ {"new"}, NEW n \in Nat \ {0},
         NEW W \in SUBSET Entities, NEW E \in SUBSET Entities,
         at[q] \in {"check", "read", "insert"},
         at' = [at EXCEPT ![q] = s], next' = [next EXCEPT ![q] = n],
         written' = [written EXCEPT ![q] = W], StoreAll(q, E),
         UNCHANGED <<rules, steady>>, unchecked \subseteq unchecked',
         s \in {"read", "insert"} =>
           n \in DOMAIN Chunk[q] /\ AllowedFor(q, Chunk[q][n].entity)',
         \A e \in W \cup E : AllowedFor(q, e)'
  PROVE  IInv'
<1>1. Typed'
  BY DEF IInv, Typed, StoreAll, Statuses
<1>2. NewIsClean'
  BY DEF IInv, Typed, NewIsClean, StoreAll
<1>3. SteadyIsCurrent'
  BY DEF IInv, Typed, SteadyIsCurrent
<1>4. \A p \in Requests, e \in Entities : AllowedFor(p, e) => AllowedFor(p, e)'
  BY AllowedStays
<1>5. ItemAllowed'
  BY <1>4, ChunkItem DEF IInv, Typed, Allowances, ItemAllowed
<1>6. WrittenAllowed'
  BY <1>4 DEF IInv, Typed, Allowances, WrittenAllowed
<1>7. StoredAllowed'
  BY <1>4 DEF IInv, Typed, Allowances, StoredAllowed, StoreAll
<1>8. QED
  BY <1>1, <1>2, <1>3, <1>5, <1>6, <1>7 DEF IInv, Allowances

\* The same for a step that stores nothing.
LEMMA UnstoredStep ==
  ASSUME IInv, NEW q \in Requests, NEW s \in Statuses \ {"new"}, NEW n \in Nat \ {0},
         NEW W \in SUBSET Entities,
         at[q] \in {"check", "read", "insert"},
         at' = [at EXCEPT ![q] = s], next' = [next EXCEPT ![q] = n],
         written' = [written EXCEPT ![q] = W],
         UNCHANGED <<rules, entityVars, steady>>, unchecked \subseteq unchecked',
         s \in {"read", "insert"} =>
           n \in DOMAIN Chunk[q] /\ AllowedFor(q, Chunk[q][n].entity)',
         \A e \in W : AllowedFor(q, e)'
  PROVE  IInv'
<1>1. StoreAll(q, {})
  BY DEF StoreAll, entityVars, IInv, Typed
<1>2. QED
  BY <1>1, ServedStep

-----------------------------------------------------------------------------
LEMMA StaysAllowed ==
  ASSUME UNCHANGED steady, unchecked \subseteq unchecked'
  PROVE  \A q \in Requests, e \in Entities : AllowedFor(q, e) => AllowedFor(q, e)'
  BY AllowedStays

\* The rules that are loaded allow what they do not block.
LEMMA CheckAllows ==
  ASSUME IInv, NEW q \in Requests, at[q] = "check", next[q] \in DOMAIN Chunk[q],
         \A x \in Violations(q, "answered") : ~Blocks(x[4])
  PROVE  Allowed(q, Item(q).entity, Item(q).attrs)
<1> SUFFICES ASSUME NEW r \in Rules, steady[q][r] \in Definitions,
                    Applies(steady[q][r], TypeOf[Item(q).entity]),
                    steady[q][r].action \in {"reject", "quarantine"},
                    Fires(steady[q][r], Item(q).attrs, "answered")
             PROVE  FALSE
  BY DEF Allowed
<1>1. rules[r] = steady[q][r]
  BY DEF IInv, SteadyIsCurrent
<1>2. <<q, next[q], r, rules[r]>> \in Violations(q, "answered")
  BY <1>1 DEF Violations
<1>3. Blocks(rules[r])
  BY <1>1 DEF Blocks
<1>4. QED
  BY <1>2, <1>3

LEMMA CheckStep ==
  ASSUME IInv, NEW q \in Requests, NEW n, n = next[q], Check(q)
  PROVE  IInv'
<1>1. /\ at[q] = "check" /\ n \in Nat \ {0} /\ n \in DOMAIN Chunk[q]
      /\ UNCHANGED <<rules, entityVars, written, steady>> /\ unchecked \subseteq unchecked'
      /\ written[q] \in SUBSET Entities
  BY ChunkDomain DEF Check, IInv, Typed
<1>2. \A e \in written[q] : AllowedFor(q, e)'
  BY <1>1, StaysAllowed DEF IInv, Allowances, WrittenAllowed
<1>3. written' = [written EXCEPT ![q] = written[q]]
  BY <1>1 DEF IInv, Typed
<1>4. PICK lookup \in {"answered", "failed"} :
        /\ IF \E x \in Violations(q, lookup) : Blocks(x[4]) THEN Block(q) ELSE GoOn(q, Violations(q, lookup))
        /\ lookup = "failed" => unchecked' = unchecked \cup {q}
        /\ lookup = "answered" => unchecked' = unchecked
  BY DEF Check
<1>5. CASE Block(q) /\ q \in Bulk
  <2>1. at' = [at EXCEPT ![q] = "check"] /\ next' = [next EXCEPT ![q] = n + 1] /\ n + 1 \in Nat \ {0}
    BY <1>1, <1>5 DEF Block, IInv, Typed
  <2>2. "check" \in Statuses \ {"new"}
    BY DEF Statuses
  <2>3. QED
    BY <1>1, <1>2, <1>3, <2>1, <2>2, UnstoredStep
<1>6. CASE Block(q) /\ q \notin Bulk
  <2>1. at' = [at EXCEPT ![q] = "closed"] /\ next' = [next EXCEPT ![q] = n]
    BY <1>6 DEF Block, IInv, Typed
  <2>2. "closed" \in Statuses \ {"new"}
    BY DEF Statuses
  <2>3. QED
    BY <1>1, <1>2, <1>3, <2>1, <2>2, UnstoredStep
<1>7. CASE ~(\E x \in Violations(q, lookup) : Blocks(x[4]))
  <2>1. GoOn(q, Violations(q, lookup))
    BY <1>4, <1>7
  <2>2. PICK s \in {"insert", "read"} : at' = [at EXCEPT ![q] = s]
    BY <2>1 DEF GoOn
  <2>3. next' = [next EXCEPT ![q] = n] /\ s \in Statuses \ {"new"}
    BY <2>1 DEF GoOn, IInv, Typed, Statuses
  <2>4. AllowedFor(q, Chunk[q][n].entity)'
    <3>1. CASE lookup = "failed"
      BY <1>4, <3>1 DEF AllowedFor
    <3>2. CASE lookup = "answered"
      <4>1. Allowed(q, Item(q).entity, Item(q).attrs)
        BY <1>1, <1>7, <3>2, CheckAllows
      <4>2. AllowedFor(q, Chunk[q][n].entity)
        BY <4>1, <1>1, ChunkItem DEF AllowedFor, Item
      <4>3. QED
        BY <4>2, <1>1, StaysAllowed, ChunkItem
    <3>3. QED
      BY <3>1, <3>2
  <2>5. QED
    BY <1>1, <1>2, <1>3, <2>2, <2>3, <2>4, UnstoredStep
<1>8. QED
  BY <1>4, <1>5, <1>6, <1>7

LEMMA CheckFailsStep ==
  ASSUME IInv, NEW q \in Requests, NEW n, n = next[q], CheckFails(q)
  PROVE  IInv'
<1>1. /\ at[q] = "check" /\ n \in Nat \ {0} /\ n \in DOMAIN Chunk[q]
      /\ UNCHANGED <<rules, entityVars, written, steady>> /\ unchecked' = unchecked \cup {q}
      /\ written[q] \in SUBSET Entities
  BY ChunkDomain DEF CheckFails, IInv, Typed
<1>2. \A e \in written[q] : AllowedFor(q, e)'
  BY <1>1 DEF AllowedFor
<1>3. written' = [written EXCEPT ![q] = written[q]]
  BY <1>1 DEF IInv, Typed
<1>4. PICK s \in {"insert", "read"} : at' = [at EXCEPT ![q] = s]
  BY DEF CheckFails, GoOn
<1>5. next' = [next EXCEPT ![q] = n] /\ s \in Statuses \ {"new"}
  BY DEF CheckFails, GoOn, IInv, Typed, Statuses
<1>6. AllowedFor(q, Chunk[q][n].entity)'
  BY <1>1 DEF AllowedFor
<1>7. QED
  BY <1>1, <1>2, <1>3, <1>4, <1>5, <1>6, UnstoredStep

\* A request that ends and stores E of what it was allowed.
LEMMA CloseStep ==
  ASSUME IInv, NEW q \in Requests, NEW S, NEW E \in SUBSET Entities, Close(q, S), StoreAll(q, E),
         at[q] \in {"check", "read", "insert"}, UNCHANGED rules, \A e \in E : AllowedFor(q, e)
  PROVE  IInv'
<1>1. /\ at' = [at EXCEPT ![q] = "closed"] /\ next' = [next EXCEPT ![q] = 1]
      /\ written' = [written EXCEPT ![q] = {}] /\ UNCHANGED <<steady, unchecked>>
      /\ "closed" \in Statuses \ {"new"} /\ 1 \in Nat \ {0} /\ {} \in SUBSET Entities
  BY DEF Close, Statuses
<1>2. \A e \in {} \cup E : AllowedFor(q, e)'
  BY <1>1, StaysAllowed
<1>3. QED
  BY <1>1, <1>2, ServedStep

LEMMA CloseOnlyStep ==
  ASSUME IInv, NEW q \in Requests, NEW S, Close(q, S),
         at[q] \in {"check", "read", "insert"}, UNCHANGED <<rules, entityVars>>
  PROVE  IInv'
<1>1. StoreAll(q, {})
  BY DEF StoreAll, entityVars, IInv, Typed
<1>2. QED
  BY <1>1, CloseStep

LEMMA ReadExistingStep ==
  ASSUME IInv, NEW q \in Requests, NEW n, n = next[q], ReadExisting(q)
  PROVE  IInv'
<1>1. at[q] = "read" /\ UNCHANGED <<rules, entityVars>>
  BY DEF ReadExisting
<1>2. CASE Close(q, found[q])
  BY <1>1, <1>2, CloseOnlyStep
<1>3. CASE at' = [at EXCEPT ![q] = "insert"] /\ UNCHANGED <<next, written, aborted, found, steady, unchecked, saving>>
  <2>1. /\ n \in Nat \ {0} /\ n \in DOMAIN Chunk[q] /\ AllowedFor(q, Chunk[q][n].entity)
        /\ written[q] \in SUBSET Entities /\ \A e \in written[q] : AllowedFor(q, e)
        /\ "insert" \in Statuses \ {"new"}
    BY <1>1 DEF IInv, Typed, Statuses, Allowances, ItemAllowed, WrittenAllowed
  <2>2. next' = [next EXCEPT ![q] = n] /\ written' = [written EXCEPT ![q] = written[q]]
    BY <1>3 DEF IInv, Typed
  <2>3. AllowedFor(q, Chunk[q][n].entity)' /\ \A e \in written[q] : AllowedFor(q, e)'
    BY <2>1, <1>3, StaysAllowed, ChunkItem
  <2>4. QED
    BY <1>1, <1>3, <2>1, <2>2, <2>3, UnstoredStep
<1>4. QED
  BY <1>2, <1>3 DEF ReadExisting

LEMMA CreateStep ==
  ASSUME IInv, NEW q \in Requests, Create(q)
  PROVE  IInv'
<1>1. at[q] = "insert" /\ UNCHANGED rules
  BY DEF Create
<1>2. CASE StoreAll(q, {Item(q).entity}) /\ Close(q, found[q])
  <2>1. \A e \in {Item(q).entity} : e \in Entities /\ AllowedFor(q, e)
    BY <1>1, ChunkItem DEF IInv, Allowances, ItemAllowed, Item
  <2>2. {Item(q).entity} \in SUBSET Entities
    BY <2>1
  <2>3. QED
    BY <1>1, <1>2, <2>1, <2>2, CloseStep
<1>3. CASE UNCHANGED entityVars /\ Close(q, {})
  BY <1>1, <1>3, CloseOnlyStep
<1>4. QED
  BY <1>2, <1>3 DEF Create

LEMMA CreateFailsStep ==
  ASSUME IInv, NEW q \in Requests, CreateFails(q)
  PROVE  IInv'
  BY CloseOnlyStep DEF CreateFails

LEMMA CommitStep ==
  ASSUME IInv, NEW q \in Requests, Commit(q)
  PROVE  IInv'
<1>1. at[q] = "check" /\ UNCHANGED rules /\ StoreAll(q, written[q]) /\ Close(q, found[q])
  BY DEF Commit
<1>2. written[q] \in SUBSET Entities /\ \A e \in written[q] : AllowedFor(q, e)
  BY DEF IInv, Typed, Allowances, WrittenAllowed
<1>3. QED
  BY <1>1, <1>2, CloseStep

LEMMA CommitFailsStep ==
  ASSUME IInv, NEW q \in Requests, CommitFails(q)
  PROVE  IInv'
  BY CloseOnlyStep DEF CommitFails

\* An insertion, or a failed one, goes on to the check of the next entity.
LEMMA InsertedStep ==
  ASSUME IInv, NEW q \in Requests, NEW n, n = next[q], NEW W \in SUBSET Entities,
         at[q] = "insert", written' = [written EXCEPT ![q] = W],
         W \subseteq written[q] \cup {Chunk[q][n].entity},
         at' = [at EXCEPT ![q] = "check"], next' = [next EXCEPT ![q] = @ + 1],
         UNCHANGED <<rules, entityVars, steady, unchecked>>
  PROVE  IInv'
<1>1. /\ n \in DOMAIN Chunk[q] /\ n + 1 \in Nat \ {0} /\ "check" \in Statuses \ {"new"}
      /\ next' = [next EXCEPT ![q] = n + 1]
  BY ChunkDomain DEF IInv, Typed, Statuses, Allowances, ItemAllowed
<1>2. \A e \in W : AllowedFor(q, e)
  BY <1>1 DEF IInv, Allowances, ItemAllowed, WrittenAllowed
<1>3. \A e \in W : AllowedFor(q, e)'
  BY <1>2, StaysAllowed
<1>4. QED
  BY <1>1, <1>3, UnstoredStep

LEMMA InsertStep ==
  ASSUME IInv, NEW q \in Requests, NEW n, n = next[q], Insert(q)
  PROVE  IInv'
<1>1. /\ at[q] = "insert" /\ UNCHANGED <<rules, entityVars, steady, unchecked>>
      /\ at' = [at EXCEPT ![q] = "check"] /\ next' = [next EXCEPT ![q] = @ + 1]
  BY DEF Insert
<1>2. written[q] \in SUBSET Entities /\ Chunk[q][n].entity \in Entities
  BY <1>1, ChunkItem DEF IInv, Typed, Allowances, ItemAllowed
<1>3. \/ written' = [written EXCEPT ![q] = written[q] \cup {Chunk[q][n].entity}]
      \/ written' = [written EXCEPT ![q] = {}]
  BY <1>2 DEF Insert, Item, IInv, Typed
<1>4. written[q] \cup {Chunk[q][n].entity} \in SUBSET Entities /\ {} \in SUBSET Entities
  BY <1>2
<1>5. QED
  BY <1>1, <1>3, <1>4, InsertedStep

LEMMA InsertFailsStep ==
  ASSUME IInv, NEW q \in Requests, NEW n, n = next[q], InsertFails(q)
  PROVE  IInv'
<1>1. {} \in SUBSET Entities /\ {} \subseteq written[q] \cup {Chunk[q][n].entity}
  OBVIOUS
<1>2. QED
  BY <1>1, InsertedStep DEF InsertFails

LEMMA EraseStep ==
  ASSUME IInv, NEW e \in Entities, Erase(e)
  PROVE  IInv'
<1>1. /\ stored' = stored \ {e} /\ storedBy' = [storedBy EXCEPT ![e] = None]
      /\ UNCHANGED <<rules, requestVars>>
  BY DEF Erase
<1>2. Typed' /\ NewIsClean' /\ SteadyIsCurrent'
  BY <1>1 DEF IInv, Typed, NewIsClean, SteadyIsCurrent, requestVars
<1>3. \A q \in Requests, x \in Entities : AllowedFor(q, x) => AllowedFor(q, x)'
  BY <1>1, StaysAllowed DEF requestVars
<1>4. Allowances'
  BY <1>1, <1>3, ChunkItem
  DEF IInv, Typed, Allowances, ItemAllowed, WrittenAllowed, StoredAllowed, requestVars
<1>5. QED
  BY <1>2, <1>4 DEF IInv

LEMMA CrashStep ==
  ASSUME IInv, Crash
  PROVE  IInv'
<1>1. Typed' /\ NewIsClean' /\ SteadyIsCurrent'
  BY DEF IInv, Typed, NewIsClean, SteadyIsCurrent, Crash, entityVars, Statuses
<1>2. \A q \in Requests, e \in Entities : AllowedFor(q, e) => AllowedFor(q, e)'
  BY StaysAllowed DEF Crash
<1>3. Allowances'
  BY <1>2 DEF IInv, Typed, Allowances, ItemAllowed, WrittenAllowed, StoredAllowed, Crash, entityVars
<1>4. QED
  BY <1>1, <1>3 DEF IInv

\* The rows of the violations are not read by a request.
LEMMA RowStep ==
  ASSUME IInv, UNCHANGED <<rules, entityVars, requestVars>>
  PROVE  IInv'
<1>1. Typed' /\ NewIsClean' /\ SteadyIsCurrent'
  BY DEF IInv, Typed, NewIsClean, SteadyIsCurrent, entityVars, requestVars
<1>2. \A q \in Requests, e \in Entities : AllowedFor(q, e) => AllowedFor(q, e)'
  BY StaysAllowed DEF requestVars
<1>3. Allowances'
  BY <1>2, ChunkItem
  DEF IInv, Typed, Allowances, ItemAllowed, WrittenAllowed, StoredAllowed, entityVars, requestVars
<1>4. QED
  BY <1>1, <1>3 DEF IInv

LEMMA ServedNext ==
  ASSUME IInv, NEW q \in Requests, Served(q)
  PROVE  IInv'
<1>1. PICK n : n = next[q]
  OBVIOUS
<1>2. CASE Receive(q)
  BY <1>2, ReceiveStep
<1>3. CASE Check(q) \/ CheckFails(q)
  BY <1>1, <1>3, CheckStep, CheckFailsStep
<1>4. CASE ReadExisting(q)
  BY <1>1, <1>4, ReadExistingStep
<1>5. CASE Create(q) \/ CreateFails(q)
  BY <1>5, CreateStep, CreateFailsStep
<1>6. CASE Insert(q) \/ InsertFails(q)
  BY <1>1, <1>6, InsertStep, InsertFailsStep
<1>7. CASE Commit(q) \/ CommitFails(q)
  BY <1>7, CommitStep, CommitFailsStep
<1>8. QED
  BY <1>2, <1>3, <1>4, <1>5, <1>6, <1>7 DEF Served

LEMMA IInvNext == IInv /\ [Next]_vars => IInv'
<1> SUFFICES ASSUME IInv, [Next]_vars PROVE IInv'
  OBVIOUS
<1>1. ASSUME NEW r \in Rules, NEW d \in Definitions, CreateRule(r, d) \/ UpdateRule(r, d)
      PROVE  IInv'
  <2>1. Change(r, d) /\ d \in Ruled
    BY <1>1 DEF CreateRule, UpdateRule, Ruled
  <2>2. QED
    BY <2>1, RuleStep
<1>2. ASSUME NEW r \in Rules, DeleteRule(r)
      PROVE  IInv'
  <2>1. Change(r, Deleted) /\ Deleted \in Ruled
    BY <1>2 DEF DeleteRule, Ruled
  <2>2. QED
    BY <2>1, RuleStep
<1>3. ASSUME NEW ids, NEW s \in Stewards, Resolve(ids, s)
      PROVE  IInv'
  BY <1>3, RowStep DEF Resolve
<1>4. ASSUME NEW e \in Entities, Erase(e)
      PROVE  IInv'
  BY <1>4, EraseStep
<1>5. ASSUME NEW q \in Requests, Served(q)
      PROVE  IInv'
  BY <1>5, ServedNext
<1>6. ASSUME NEW x \in saving, Save(x) \/ SaveFails(x)
      PROVE  IInv'
  BY <1>6, RowStep DEF Save, SaveFails
<1>7. CASE Crash
  BY <1>7, CrashStep
<1>8. CASE UNCHANGED vars
  BY <1>8, RowStep DEF vars, entityVars, requestVars
<1>9. QED
  BY <1>1, <1>2, <1>3, <1>4, <1>5, <1>6, <1>7, <1>8 DEF Next

\* What is stored, by a request whose checks ran, was allowed by every rule that
\* rejects or quarantines and stayed as it is (handlers/entities.rs:101 and 273).
THEOREM GateHoldsAlways == Spec => []GateHolds
<1>1. IInv => GateHolds
  BY DEF IInv, Typed, Allowances, StoredAllowed, AllowedFor, GateHolds
<1>2. QED
  BY <1>1, InitIInv, IInvNext, PTL DEF Spec

-----------------------------------------------------------------------------
(* What is found, waits to be saved and is a row.  First: what a request   *)
(* has in its transaction is in the part of its chunk it has passed, is    *)
(* not stored and is in no other transaction.                              *)

InChunk(q, e, n) == \E i \in DOMAIN Chunk[q] : i < n /\ Chunk[q][i].entity = e

Transactions ==
  /\ \A e \in Entities : e \in stored <=> storedBy[e] # None
  /\ \A q \in Requests : next[q] <= Len(Chunk[q]) + 1
  /\ \A q \in Requests : \A e \in written[q] : e \notin stored /\ InChunk(q, e, next[q])
  /\ \A p, q \in Requests : p # q => written[p] \cap written[q] = {}
  /\ unchecked \subseteq Requests /\ aborted \subseteq Bulk /\ faults \in 0..MaxFaults

Key(x) == <<x[1], x[2], x[3]>>
Keys == {Key(x) : x \in Violation}

\* A violation of attributes that only flags.
Shows(d, attrs) ==
  d.action \in {"flag", "enrich"} /\ d.active /\ Fires(d, attrs, "answered")

Explained(x) == Shows(x[4], Chunk[x[1]][x[2]].attrs)

RowTyped ==
  /\ found \in [Requests -> SUBSET Violation] /\ saving \subseteq Violation
  /\ rows \subseteq [id : Keys, rule : Rules \cup {None}, snapshot : Definitions,
                     entity : Entities, resolver : Stewards \cup {None}]

RowRefers ==
  \A v \in rows : v.entity \in stored /\ (v.rule # None => rules[v.rule] \in Definitions)

AllExplained ==
  /\ \A q \in Requests : \A x \in found[q] : Explained(x)
  /\ \A x \in saving : Explained(x)
  /\ \A v \in rows : Shows(v.snapshot, Chunk[v.id[1]][v.id[2]].attrs)

\* No key is found twice, and none comes back when it was handed to a task or saved.
PassedBy(q, x) == x[1] = q /\ (x[2] < next[q] \/ (x[2] = next[q] /\ at[q] \in {"read", "insert"}))
Once(S) == \A x, y \in S : Key(x) = Key(y) => x = y

AllOnce ==
  /\ \A q \in Requests : Once(found[q]) /\ \A x \in found[q] : PassedBy(q, x)
  /\ \A q \in Requests : at[q] # "closed" => /\ \A x \in saving : x[1] # q
                                             /\ \A v \in rows : v.id[1] # q
  /\ Once(saving)
  /\ \A x \in saving, v \in rows : v.id # Key(x)
  /\ \A v, w \in rows : v.id = w.id => v = w

RowInv == RowTyped /\ RowRefers /\ AllExplained /\ AllOnce

\* The rules whose violations must not be lost: q saw r as it is, and r fires for all q
\* sent of e.
Due(q, e, r) ==
  /\ steady[q][r] \in Definitions /\ rules[r] \in Definitions
  /\ Applies(steady[q][r], TypeOf[e]) /\ steady[q][r].action \in {"flag", "enrich"}
  /\ \A attrs \in Attributes(q, e) : Fires(steady[q][r], attrs, "answered")

Noted(S, e, r, d) == \E x \in S : x[3] = r /\ x[4] = d /\ Chunk[x[1]][x[2]].entity = e
Recorded(e, r, d) == \E v \in rows : v.snapshot = d /\ v.entity = e /\ v.rule = r

StoredClosed == \A q \in Requests, e \in stored : storedBy[e] = q => at[q] = "closed"
SteadyKnown == \A q \in Requests, r \in Rules : steady[q][r] \in Definitions => rules[r] # None

\* The entities of an open transaction and the one between its check and its insertion.
Underway(q, e) == e \in written[q] \/ (at[q] \in {"read", "insert"} /\ e = Item(q).entity)

\* What is due is with the request while it is served, and then with a task or a row.
Kept(q, e, r) ==
  /\ Underway(q, e) => Noted(found[q], e, r, steady[q][r])
  /\ e \in stored /\ storedBy[e] = q => Recorded(e, r, steady[q][r]) \/ Noted(saving, e, r, steady[q][r])

NoneLost ==
  faults = 0 => \A q \in Requests, e \in Entities, r \in Rules : Due(q, e, r) => Kept(q, e, r)

LossInv == StoredClosed /\ SteadyKnown /\ NoneLost

-----------------------------------------------------------------------------
LEMMA FaultBound ==
  ASSUME faults \in 0..MaxFaults, Fault
  PROVE  faults' \in 0..MaxFaults
  BY QualityRulesAssumption DEF Fault

LEMMA InitTransactions == Init => Transactions
<1> SUFFICES ASSUME Init PROVE Transactions
  OBVIOUS
<1>1. \A q \in Requests : next[q] <= Len(Chunk[q]) + 1
  BY ChunkDomain DEF Init
<1>2. QED
  BY <1>1, QualityRulesAssumption DEF Init, Transactions

\* A step of q that neither stores nor writes, and moves at most to the entity after
\* the one q is at.
LEMMA MovesTransactions ==
  ASSUME IInv, Transactions, NEW q \in Requests, NEW n \in Nat, next' = [next EXCEPT ![q] = n],
         next[q] <= n, n <= Len(Chunk[q]) + 1, UNCHANGED <<entityVars, written>>,
         unchecked' \subseteq unchecked \cup {q}, aborted' \subseteq Bulk, faults' \in 0..MaxFaults
  PROVE  Transactions'
<1>1. DOMAIN next = Requests /\ UNCHANGED <<stored, storedBy, written>>
  BY DEF IInv, Typed, entityVars
<1>2. \A p \in Requests : next'[p] = IF p = q THEN n ELSE next[p]
  BY <1>1
<1>3. \A p \in Requests : next'[p] <= Len(Chunk[p]) + 1
  BY <1>2 DEF Transactions
<1>4. ASSUME NEW p \in Requests, NEW e \in written[p] PROVE InChunk(p, e, next'[p])
  <2>1. PICK i \in DOMAIN Chunk[p] : i < next[p] /\ Chunk[p][i].entity = e
    BY DEF Transactions, InChunk
  <2>2. i \in Nat /\ next[p] \in Nat
    BY ChunkDomain DEF IInv, Typed
  <2>3. next[p] <= next'[p] /\ next'[p] \in Nat
    BY <1>2, <2>2
  <2> QED
    BY <2>1, <2>2, <2>3 DEF InChunk
<1> QED
  BY <1>1, <1>3, <1>4 DEF Transactions

\* A request that ends stores nothing, or what is in no other transaction.
LEMMA CloseTransactions ==
  ASSUME IInv, Transactions, NEW q \in Requests, NEW S, NEW E \in SUBSET Entities,
         Close(q, S), StoreAll(q, E),
         \A p \in Requests \ {q} : written[p] \cap E = {}, faults' \in 0..MaxFaults
  PROVE  Transactions'
<1>1. \A p \in Requests : next'[p] <= Len(Chunk[p]) + 1
  BY ChunkDomain DEF IInv, Typed, Transactions, Close
<1>2. \A p \in Requests : \A e \in written'[p] : e \notin stored' /\ InChunk(p, e, next'[p])
  BY DEF IInv, Typed, Transactions, Close, StoreAll, InChunk
<1>3. \A e \in Entities : e \in stored' <=> storedBy'[e] # None
  BY QualityRulesAssumption DEF Transactions, StoreAll
<1>4. \A x, p \in Requests : x # p => written'[x] \cap written'[p] = {}
  BY DEF IInv, Typed, Transactions, Close
<1>5. unchecked' \subseteq Requests /\ aborted' \subseteq Bulk
  BY DEF Transactions, Close
<1>6. QED
  BY <1>1, <1>2, <1>3, <1>4, <1>5 DEF Transactions, InChunk

LEMMA CloseOnlyTransactions ==
  ASSUME IInv, Transactions, NEW q \in Requests, NEW S, Close(q, S), UNCHANGED entityVars,
         faults' \in 0..MaxFaults
  PROVE  Transactions'
<1>1. StoreAll(q, {})
  BY DEF StoreAll, entityVars, IInv, Typed
<1>2. QED
  BY <1>1, CloseTransactions

\* An insertion writes the entity q is at, or clears the transaction, and goes on.
LEMMA InsertTransactions ==
  ASSUME IInv, Transactions, NEW q \in Bulk, NEW n, n = next[q], NEW W, at[q] = "insert",
         written' = [written EXCEPT ![q] = W],
         \/ W = {}
         \/ /\ W = written[q] \cup {Chunk[q][n].entity}
            /\ Chunk[q][n].entity \notin stored /\ \A p \in Requests : Chunk[q][n].entity \notin written[p],
         next' = [next EXCEPT ![q] = @ + 1], UNCHANGED <<entityVars, unchecked>>,
         aborted' \in {aborted, aborted \cup {q}}, faults' \in 0..MaxFaults
  PROVE  Transactions'
<1>1. /\ q \in Requests /\ n \in DOMAIN Chunk[q] /\ n \in Nat /\ n <= Len(Chunk[q])
      /\ Len(Chunk[q]) \in Nat
  BY QualityRulesAssumption, ChunkDomain DEF IInv, Typed, Allowances, ItemAllowed
<1>2. \A p \in Requests : next'[p] <= Len(Chunk[p]) + 1
  BY <1>1 DEF IInv, Typed, Transactions
<1>3. \A p \in Requests : \A e \in written'[p] : e \notin stored' /\ InChunk(p, e, next'[p])
  <2> SUFFICES ASSUME NEW p \in Requests, NEW e \in written'[p]
               PROVE  e \notin stored' /\ InChunk(p, e, next'[p])
    OBVIOUS
  <2>1. CASE p # q
    BY <2>1, <1>1 DEF IInv, Typed, Transactions, entityVars
  <2>2. CASE p = q /\ e \in written[q]
    <3>1. PICK i \in DOMAIN Chunk[q] : i < n /\ Chunk[q][i].entity = e
      BY <2>2, <1>1 DEF Transactions, InChunk
    <3>2. i \in Nat /\ next'[q] = n + 1 /\ e \notin stored'
      BY <2>2, <1>1, ChunkDomain DEF IInv, Typed, Transactions, entityVars
    <3>3. i < next'[q]
      BY <3>1, <3>2, <1>1
    <3>4. QED
      BY <2>2, <3>1, <3>2, <3>3 DEF InChunk
  <2>3. CASE p = q /\ e \notin written[q]
    <3>1. e = Chunk[q][n].entity /\ e \notin stored'
      BY <2>3, <1>1 DEF IInv, Typed, entityVars
    <3>2. next'[q] = n + 1
      BY <1>1 DEF IInv, Typed
    <3>3. QED
      BY <2>3, <3>1, <3>2, <1>1 DEF InChunk
  <2>4. QED
    BY <2>1, <2>2, <2>3
<1>4. \A x, p \in Requests : x # p => written'[x] \cap written'[p] = {}
  BY <1>1 DEF IInv, Typed, Transactions
<1>5. QED
  BY <1>2, <1>3, <1>4 DEF Transactions, entityVars, InChunk

LEMMA ServedTransactions ==
  ASSUME IInv, Transactions, NEW q \in Requests, Served(q)
  PROVE  Transactions'
<1> DEFINE n == next[q]
<1>1. n \in Nat /\ n <= Len(Chunk[q]) + 1 /\ Len(Chunk[q]) \in Nat /\ faults \in 0..MaxFaults
  BY ChunkDomain DEF IInv, Typed, Transactions
<1>2. CASE Receive(q)
  BY <1>2 DEF Receive, Transactions, entityVars, InChunk
<1>3. CASE Check(q) \/ CheckFails(q)
  <2>1. faults' \in 0..MaxFaults /\ unchecked' \subseteq unchecked \cup {q}
    BY <1>1, <1>3, FaultBound DEF Check, CheckFails
  <2>2. n <= Len(Chunk[q]) /\ UNCHANGED <<entityVars, written, aborted>>
    BY <1>3 DEF Check, CheckFails
  <2>3. \/ next' = next
        \/ next' = [next EXCEPT ![q] = n + 1]
    BY <1>3 DEF Check, CheckFails, GoOn, Block
  <2>4. CASE next' = next
    BY <2>1, <2>2, <2>4 DEF Transactions, entityVars, InChunk
  <2>5. CASE next' = [next EXCEPT ![q] = n + 1]
    <3>1. n + 1 \in Nat /\ next[q] <= n + 1 /\ n + 1 <= Len(Chunk[q]) + 1 /\ aborted' \subseteq Bulk
      BY <1>1, <2>2 DEF Transactions
    <3>2. QED
      BY <2>1, <2>2, <2>5, <3>1, MovesTransactions
  <2>6. QED
    BY <2>3, <2>4, <2>5
<1>4. CASE ReadExisting(q)
  <2>1. UNCHANGED <<entityVars, faults>>
    BY <1>4 DEF ReadExisting
  <2>2. CASE Close(q, found[q])
    BY <1>1, <2>1, <2>2, CloseOnlyTransactions
  <2>3. CASE UNCHANGED <<next, written, aborted, unchecked>>
    BY <2>1, <2>3 DEF Transactions, entityVars, InChunk
  <2>4. QED
    BY <1>4, <2>2, <2>3 DEF ReadExisting
<1>5. CASE Create(q)
  <2>1. CASE UNCHANGED entityVars /\ Close(q, {})
    BY <1>1, <1>5, <2>1, CloseOnlyTransactions DEF Create
  <2>2. CASE /\ \A p \in Requests : Item(q).entity \notin written[p]
             /\ StoreAll(q, {Item(q).entity}) /\ Close(q, found[q])
    <3>1. {Item(q).entity} \in SUBSET Entities
      BY <1>5, ChunkItem DEF Create, IInv, Allowances, ItemAllowed, Item
    <3>2. \A p \in Requests \ {q} : written[p] \cap {Item(q).entity} = {}
      BY <2>2
    <3>3. faults' \in 0..MaxFaults
      BY <1>1, <1>5 DEF Create
    <3>4. QED
      BY <2>2, <3>1, <3>2, <3>3, CloseTransactions
  <2>3. QED
    BY <1>5, <2>1, <2>2 DEF Create
<1>6. CASE CreateFails(q) \/ CommitFails(q)
  BY <1>1, <1>6, FaultBound, CloseOnlyTransactions DEF CreateFails, CommitFails
<1>7. CASE Insert(q)
  <2>1. /\ at[q] = "insert" /\ q \in Bulk /\ next' = [next EXCEPT ![q] = @ + 1]
        /\ UNCHANGED <<entityVars, unchecked, faults>> /\ aborted' \in {aborted, aborted \cup {q}}
    BY <1>7 DEF Insert
  <2>2. CASE /\ Item(q).entity \notin stored /\ \A p \in Requests : Item(q).entity \notin written[p]
             /\ written' = [written EXCEPT ![q] = @ \cup {Item(q).entity}]
    BY <1>1, <2>1, <2>2, InsertTransactions DEF Item, IInv, Typed
  <2>3. CASE written' = [written EXCEPT ![q] = {}]
    BY <1>1, <2>1, <2>3, InsertTransactions
  <2>4. QED
    BY <1>7, <2>2, <2>3 DEF Insert
<1>8. CASE InsertFails(q)
  BY <1>1, <1>8, FaultBound, InsertTransactions DEF InsertFails
<1>9. CASE Commit(q)
  <2>1. written[q] \in SUBSET Entities /\ \A p \in Requests \ {q} : written[p] \cap written[q] = {}
    BY DEF IInv, Typed, Transactions
  <2>2. QED
    BY <1>1, <1>9, <2>1, CloseTransactions DEF Commit
<1>10. QED
  BY <1>2, <1>3, <1>4, <1>5, <1>6, <1>7, <1>8, <1>9 DEF Served

LEMMA TransactionsNext == IInv /\ Transactions /\ [Next]_vars => Transactions'
<1> SUFFICES ASSUME IInv, Transactions, [Next]_vars PROVE Transactions'
  OBVIOUS
<1>1. CASE UNCHANGED <<entityVars, next, written, aborted, unchecked>> /\ faults' \in 0..MaxFaults
  BY <1>1 DEF Transactions, entityVars, InChunk
<1>2. ASSUME NEW r \in Rules, NEW d \in Definitions, CreateRule(r, d) \/ UpdateRule(r, d) \/ DeleteRule(r)
      PROVE  Transactions'
  BY <1>1, <1>2 DEF CreateRule, UpdateRule, DeleteRule, Change, Transactions
<1>3. ASSUME NEW r \in Rules, DeleteRule(r)
      PROVE  Transactions'
  BY <1>1, <1>3 DEF DeleteRule, Change, Transactions
<1>4. ASSUME NEW ids, NEW s \in Stewards, Resolve(ids, s)
      PROVE  Transactions'
  BY <1>1, <1>4 DEF Resolve, Transactions, requestVars
<1>5. ASSUME NEW e \in Entities, Erase(e)
      PROVE  Transactions'
  BY <1>5 DEF Erase, requestVars, IInv, Typed, Transactions, InChunk
<1>6. ASSUME NEW q \in Requests, Served(q)
      PROVE  Transactions'
  BY <1>6, ServedTransactions
<1>7. ASSUME NEW x \in saving, Save(x) \/ SaveFails(x)
      PROVE  Transactions'
  BY <1>1, <1>7, FaultBound DEF Save, SaveFails, requestVars, Transactions
<1>8. CASE Crash
  <2>1. \A q \in Requests : 1 <= Len(Chunk[q]) + 1
    BY ChunkDomain
  <2>2. QED
    BY <1>8, <2>1, FaultBound DEF Crash, Transactions, entityVars, IInv, Typed
<1>9. CASE UNCHANGED vars
  BY <1>1, <1>9 DEF vars, requestVars, Transactions
<1>10. QED
  BY <1>2, <1>3, <1>4, <1>5, <1>6, <1>7, <1>8, <1>9 DEF Next

-----------------------------------------------------------------------------
LEMMA ViolationParts ==
  ASSUME NEW x \in Violation
  PROVE  /\ x[1] \in Requests /\ x[2] \in DOMAIN Chunk[x[1]] /\ x[3] \in Rules /\ x[4] \in Definitions
         /\ x = <<x[1], x[2], x[3], x[4]>>
<1>1. PICK q \in Requests : \E i \in DOMAIN Chunk[q], r \in Rules, d \in Definitions : x = <<q, i, r, d>>
  BY DEF Violation
<1>2. QED
  BY <1>1

LEMMA IsViolation ==
  ASSUME NEW q \in Requests, NEW i \in DOMAIN Chunk[q], NEW r \in Rules, NEW d \in Definitions
  PROVE  <<q, i, r, d>> \in Violation
  BY DEF Violation

\* The violations of a check are of the entity it is at, one of a rule; those of a check
\* that does not block only flag.  A lookup that fails only makes fewer rules fire.
LEMMA CheckFinds ==
  ASSUME IInv, NEW q \in Requests, NEW lookup, next[q] \in DOMAIN Chunk[q]
  PROVE  /\ Violations(q, lookup) \subseteq Violation
         /\ \A x \in Violations(q, lookup) :
              /\ x[1] = q /\ x[2] = next[q]
              /\ x[3] \in Rules /\ x[4] = rules[x[3]]
              /\ ~Blocks(x[4]) => Explained(x)
<1> SUFFICES ASSUME NEW x \in Violations(q, lookup)
             PROVE  /\ x \in Violation /\ x[1] = q /\ x[2] = next[q]
                    /\ x[3] \in Rules /\ x[4] = rules[x[3]]
                    /\ ~Blocks(x[4]) => Explained(x)
  OBVIOUS
<1>1. PICK r \in Rules : /\ x = <<q, next[q], r, rules[r]>> /\ rules[r] \in Definitions
                         /\ Applies(rules[r], TypeOf[Item(q).entity])
                         /\ Fires(rules[r], Item(q).attrs, lookup)
  BY DEF Violations
<1>2. x \in Violation /\ x[1] = q /\ x[2] = next[q] /\ x[3] = r /\ x[4] = rules[r]
  BY <1>1, IsViolation
<1>3. \A c, attrs : ~Passes(c, attrs, lookup) => ~Passes(c, attrs, "answered")
  BY DEF Passes
<1>4. Fires(rules[r], Item(q).attrs, "answered")
  BY <1>1, <1>3 DEF Fires
<1>5. ASSUME ~Blocks(x[4])
      PROVE  rules[r].action \in {"flag", "enrich"} /\ rules[r].active
  BY <1>1, <1>2, <1>5, QualityRulesAssumption DEF Blocks, Applies
<1>6. QED
  BY <1>2, <1>4, <1>5 DEF Explained, Shows, Item

RowSet == [id : Keys, rule : Rules \cup {None}, snapshot : Definitions,
           entity : Entities, resolver : Stewards \cup {None}]

LEMMA RowOf ==
  ASSUME NEW x \in Violation
  PROVE  /\ Row(x) \in RowSet /\ Row(x).id = Key(x) /\ Row(x).rule = x[3] /\ Row(x).snapshot = x[4]
         /\ Row(x).entity = Chunk[x[1]][x[2]].entity
         /\ Row(x).id[1] = x[1] /\ Row(x).id[2] = x[2]
<1>1. x[1] \in Requests /\ x[2] \in DOMAIN Chunk[x[1]] /\ x[3] \in Rules /\ x[4] \in Definitions
  BY ViolationParts
<1>2. Chunk[x[1]][x[2]].entity \in Entities
  BY <1>1, ChunkItem
<1>3. <<x[1], x[2], x[3]>> \in Keys
  BY DEF Keys, Key
<1>4. QED
  BY <1>1, <1>2, <1>3 DEF Row, RowSet, Key

-----------------------------------------------------------------------------
LEMMA InitRows == Init => RowInv
  BY DEF Init, RowInv, RowTyped, RowRefers, AllExplained, AllOnce, Once

\* A step of q that hands nothing to a task: it finds V, goes to s and n.
LEMMA RequestRows ==
  ASSUME IInv, RowInv, NEW q \in Requests, NEW s, NEW n \in Nat, NEW V \in SUBSET Violation,
         at[q] # "closed", at' = [at EXCEPT ![q] = s], next' = [next EXCEPT ![q] = n],
         found' = [found EXCEPT ![q] = @ \cup V],
         UNCHANGED <<rules, stored, saving, rows>>,
         next[q] <= n, at[q] \in {"read", "insert"} => (s = "insert" /\ n = next[q]) \/ next[q] < n,
         V # {} => at[q] = "check" /\ n = next[q] /\ s \in {"read", "insert"},
         Once(V), \A x \in V : x[1] = q /\ x[2] = next[q] /\ Explained(x)
  PROVE  RowInv'
<1>1. /\ found \in [Requests -> SUBSET Violation] /\ at \in [Requests -> Statuses]
      /\ next \in [Requests -> Nat \ {0}]
  BY DEF IInv, Typed, RowInv, RowTyped
<1>2. RowTyped' /\ RowRefers'
  BY <1>1 DEF RowInv, RowTyped, RowRefers
<1>3. AllExplained'
  BY <1>1 DEF RowInv, AllExplained, Explained
<1>4. \A x \in found[q] : x \in Violation /\ x[1] = q /\ x[2] \in Nat
                          /\ (x[2] < next[q] \/ (x[2] = next[q] /\ at[q] \in {"read", "insert"}))
  BY <1>1, ViolationParts, ChunkDomain DEF RowInv, AllOnce, PassedBy
<1>5. \A p \in Requests : \A x \in found'[p] : PassedBy(p, x)'
  <2> SUFFICES ASSUME NEW p \in Requests, NEW x \in found'[p]
               PROVE  PassedBy(p, x)'
    OBVIOUS
  <2>1. CASE p # q
    BY <1>1, <2>1 DEF RowInv, AllOnce, PassedBy
  <2>2. CASE p = q /\ x \in found[q]
    BY <1>1, <1>4, <2>2 DEF PassedBy
  <2>3. CASE p = q /\ x \in V
    BY <1>1, <2>3 DEF PassedBy
  <2>4. QED
    BY <1>1, <2>1, <2>2, <2>3
<1>6. \A p \in Requests : Once(found'[p])
  <2>1. \A x \in found[q], y \in V : Key(x) # Key(y)
    BY <1>1, <1>4 DEF Key
  <2>2. Once(found[q] \cup V)
    BY <2>1 DEF Once, RowInv, AllOnce
  <2>3. QED
    BY <1>1, <2>2 DEF RowInv, AllOnce
<1>7. AllOnce'
  BY <1>1, <1>5, <1>6 DEF RowInv, AllOnce, Once, Key
<1>8. QED
  BY <1>2, <1>3, <1>7 DEF RowInv

\* A step of q that finds nothing.
LEMMA MoveRows ==
  ASSUME IInv, RowInv, NEW q \in Requests, NEW s, NEW n \in Nat, at[q] # "closed",
         at' = [at EXCEPT ![q] = s], next' = [next EXCEPT ![q] = n],
         UNCHANGED <<rules, stored, found, saving, rows>>,
         next[q] <= n, at[q] \in {"read", "insert"} => (s = "insert" /\ n = next[q]) \/ next[q] < n
  PROVE  RowInv'
<1>1. PICK V : V = {}
  OBVIOUS
<1>2. V \in SUBSET Violation /\ Once(V) /\ \A x \in V : x[1] = q /\ x[2] = next[q] /\ Explained(x)
  BY <1>1 DEF Once
<1>3. found' = [found EXCEPT ![q] = @ \cup V]
  BY <1>1 DEF RowInv, RowTyped
<1>4. V # {} => at[q] = "check" /\ n = next[q] /\ s \in {"read", "insert"}
  BY <1>1
<1>5. QED
  BY <1>2, <1>3, <1>4, RequestRows

LEMMA CloseRows ==
  ASSUME IInv, RowInv, NEW q \in Requests, NEW S, S \in {{}, found[q]}, Close(q, S), at[q] # "closed",
         stored \subseteq stored', UNCHANGED <<rules, rows>>
  PROVE  RowInv'
<1>1. /\ found \in [Requests -> SUBSET Violation] /\ at \in [Requests -> Statuses]
      /\ next \in [Requests -> Nat \ {0}] /\ saving \subseteq Violation
  BY DEF IInv, Typed, RowInv, RowTyped
<1>2. /\ at' = [at EXCEPT ![q] = "closed"] /\ saving' = saving \cup S
      /\ found' = [found EXCEPT ![q] = {}] /\ next' = [next EXCEPT ![q] = 1]
  BY DEF Close
<1>3. RowTyped'
  BY <1>1, <1>2 DEF RowInv, RowTyped
<1>4. RowRefers'
  BY DEF RowInv, RowRefers
<1>5. AllExplained'
  BY <1>1, <1>2 DEF RowInv, AllExplained, Explained
<1>6. \A x \in S : x[1] = q
  BY DEF RowInv, AllOnce, PassedBy
<1>7. \A p \in Requests : Once(found'[p]) /\ \A x \in found'[p] : PassedBy(p, x)'
  BY <1>1, <1>2 DEF RowInv, AllOnce, PassedBy, Once
<1>8. Once(saving')
  <2>1. Once(saving) /\ Once(S) /\ \A x \in saving : x[1] # q
    BY DEF RowInv, AllOnce, Once
  <2>2. \A x \in saving, y \in S : Key(x) # Key(y)
    BY <1>6, <2>1 DEF Key
  <2>3. QED
    BY <1>2, <2>1, <2>2 DEF Once
<1>9. \A x \in saving', v \in rows' : v.id # Key(x)
  BY <1>2, <1>6 DEF RowInv, AllOnce, Key
<1>10. \A p \in Requests : at'[p] # "closed" => /\ \A x \in saving' : x[1] # p
                                               /\ \A v \in rows' : v.id[1] # p
  BY <1>1, <1>2, <1>6 DEF RowInv, AllOnce
<1>11. AllOnce'
  BY <1>7, <1>8, <1>9, <1>10 DEF RowInv, AllOnce, Once, Key
<1>12. QED
  BY <1>3, <1>4, <1>5, <1>11 DEF RowInv

\* A step that changes the rows one by one, and neither their ids nor what they show.
LEMMA RowwiseRows ==
  ASSUME IInv, RowInv, NEW F, \A v \in rows : F[v] \in RowSet,
         \A v \in rows : F[v].id = v.id /\ F[v].snapshot = v.snapshot /\ F[v].entity = v.entity,
         rows' = {F[v] : v \in rows}, UNCHANGED <<stored, at, next, found, saving>>,
         \A v \in rows : F[v].rule # None => rules'[F[v].rule] \in Definitions
  PROVE  RowInv'
<1>1. RowTyped'
  BY DEF RowInv, RowTyped, RowSet
<1>2. RowRefers'
  BY DEF RowInv, RowRefers
<1>3. AllExplained'
  BY DEF RowInv, AllExplained, Explained
<1>4. AllOnce'
  BY DEF RowInv, AllOnce, PassedBy, Once, Key
<1>5. QED
  BY <1>1, <1>2, <1>3, <1>4 DEF RowInv

\* A rule that is created or edited is a rule for the rows that refer to it.
LEMMA ChangeRows ==
  ASSUME IInv, RowInv, NEW r \in Rules, NEW d \in Definitions, Change(r, d), UNCHANGED rows
  PROVE  RowInv'
<1>1. RowTyped'
  BY DEF RowInv, RowTyped, Change
<1>2. RowRefers'
  BY DEF IInv, Typed, RowInv, RowTyped, RowRefers, Change, entityVars
<1>3. AllExplained'
  BY DEF RowInv, AllExplained, Explained, Change
<1>4. AllOnce'
  BY DEF RowInv, AllOnce, PassedBy, Once, Key, Change
<1>5. QED
  BY <1>1, <1>2, <1>3, <1>4 DEF RowInv

LEMMA DeleteRows ==
  ASSUME IInv, RowInv, NEW r \in Rules, DeleteRule(r)
  PROVE  RowInv'
<1> DEFINE F == [v \in rows |-> [v EXCEPT !.rule = IF @ = r THEN None ELSE @]]
<1>1. \A v \in rows : v \in RowSet
  BY DEF RowInv, RowTyped, RowSet
<1>2. \A v \in rows : /\ F[v] \in RowSet /\ F[v].id = v.id /\ F[v].snapshot = v.snapshot
                      /\ F[v].entity = v.entity /\ F[v].rule = IF v.rule = r THEN None ELSE v.rule
  BY <1>1 DEF RowSet
<1>3. \A v \in rows : F[v].rule # None => rules'[F[v].rule] \in Definitions
  BY <1>1, <1>2 DEF IInv, Typed, RowInv, RowRefers, RowSet, DeleteRule, Change
<1>4. rows' = {F[v] : v \in rows} /\ UNCHANGED <<stored, at, next, found, saving>>
  BY DEF DeleteRule, Change, entityVars
<1> HIDE DEF F
<1>5. QED
  BY <1>2, <1>3, <1>4, RowwiseRows

LEMMA ResolveRows ==
  ASSUME IInv, RowInv, NEW ids, NEW s \in Stewards, Resolve(ids, s)
  PROVE  RowInv'
<1> DEFINE F == [v \in rows |-> [v EXCEPT !.resolver = IF v.id \in ids /\ @ = None THEN s ELSE @]]
<1>1. \A v \in rows : v \in RowSet
  BY DEF RowInv, RowTyped, RowSet
<1>2. \A v \in rows : /\ F[v] \in RowSet /\ F[v].id = v.id /\ F[v].snapshot = v.snapshot
                      /\ F[v].entity = v.entity /\ F[v].rule = v.rule
  BY <1>1 DEF RowSet
<1>3. rows' = {F[v] : v \in rows} /\ UNCHANGED <<rules, stored, at, next, found, saving>>
  BY DEF Resolve, entityVars, requestVars
<1> HIDE DEF F
<1>4. \A v \in rows : F[v].rule # None => rules'[F[v].rule] \in Definitions
  <2>1. \A v \in rows : v.rule # None => rules[v.rule] \in Definitions
    BY DEF RowInv, RowRefers
  <2> QED
    BY <1>2, <1>3, <2>1
<1>5. QED
  BY <1>2, <1>3, <1>4, RowwiseRows

LEMMA EraseRows ==
  ASSUME IInv, RowInv, NEW e \in Entities, Erase(e)
  PROVE  RowInv'
<1>1. rows' \subseteq rows /\ stored' = stored \ {e} /\ \A v \in rows' : v.entity # e
  BY DEF Erase
<1>2. UNCHANGED <<rules, at, next, found, saving>>
  BY DEF Erase, requestVars
<1>3. RowTyped' /\ RowRefers'
  BY <1>1, <1>2 DEF RowInv, RowTyped, RowRefers
<1>4. AllExplained'
  BY <1>1, <1>2 DEF RowInv, AllExplained, Explained
<1>5. AllOnce'
  BY <1>1, <1>2 DEF RowInv, AllOnce, PassedBy, Once, Key
<1>6. QED
  BY <1>3, <1>4, <1>5 DEF RowInv

\* A task removes a violation from what waits and may save it as a row.
LEMMA SaveRows ==
  ASSUME IInv, RowInv, NEW x \in saving, Save(x) \/ SaveFails(x)
  PROVE  RowInv'
<1>1. saving' = saving \ {x} /\ UNCHANGED <<rules, stored, at, next, found>>
  BY DEF Save, SaveFails, entityVars, requestVars
<1>2. x \in Violation
  BY DEF RowInv, RowTyped
<1>3. \/ rows' = rows
      \/ rows' = rows \cup {Row(x)} /\ rules[x[3]] \in Definitions /\ Row(x).entity \in stored
  BY DEF Save, SaveFails
<1>4. RowTyped'
  BY <1>1, <1>2, <1>3, RowOf DEF RowInv, RowTyped, RowSet
<1>5. RowRefers'
  BY <1>1, <1>2, <1>3, RowOf DEF RowInv, RowRefers
<1>6. AllExplained'
  BY <1>1, <1>2, <1>3, RowOf DEF RowInv, AllExplained, Explained
<1>7. \A y \in saving', v \in rows' : v.id # Key(y)
  BY <1>1, <1>2, <1>3, RowOf DEF RowInv, AllOnce, Once
<1>8. \A v, w \in rows' : v.id = w.id => v = w
  BY <1>1, <1>2, <1>3, RowOf DEF RowInv, AllOnce
<1>9. \A q \in Requests : at[q] # "closed" => /\ \A y \in saving' : y[1] # q
                                              /\ \A v \in rows' : v.id[1] # q
  BY <1>1, <1>2, <1>3, RowOf DEF RowInv, AllOnce
<1>10. AllOnce'
  BY <1>1, <1>7, <1>8, <1>9 DEF RowInv, AllOnce, PassedBy, Once, Key
<1>11. QED
  BY <1>4, <1>5, <1>6, <1>10 DEF RowInv

LEMMA CrashRows ==
  ASSUME IInv, RowInv, Crash
  PROVE  RowInv'
<1>1. /\ found' = [q \in Requests |-> {}] /\ saving' = {} /\ UNCHANGED <<rules, stored, rows>>
      /\ \A q \in Requests : at'[q] # "closed" => at[q] # "closed"
  BY DEF Crash, entityVars
<1>2. RowTyped' /\ RowRefers'
  BY <1>1 DEF RowInv, RowTyped, RowRefers
<1>3. AllExplained'
  BY <1>1 DEF RowInv, AllExplained, Explained
<1>4. AllOnce'
  BY <1>1 DEF RowInv, AllOnce, Once
<1>5. QED
  BY <1>2, <1>3, <1>4 DEF RowInv

LEMMA ServedRows ==
  ASSUME IInv, Transactions, RowInv, NEW q \in Requests, Served(q)
  PROVE  RowInv'
<1>0. PICK n : n = next[q]
  OBVIOUS
<1>1. /\ n = next[q] /\ n \in Nat /\ found \in [Requests -> SUBSET Violation] /\ at[q] # "closed"
      /\ at \in [Requests -> Statuses] /\ next \in [Requests -> Nat \ {0}]
      /\ DOMAIN Chunk[q] = 1..Len(Chunk[q]) /\ Len(Chunk[q]) \in Nat /\ n \in Nat \ {0}
  BY <1>0, ChunkDomain
  DEF IInv, Typed, RowInv, RowTyped, Served, Receive, Check, CheckFails, ReadExisting, Create, CreateFails,
      Insert, InsertFails, Commit, CommitFails
<1>2. /\ {} \in SUBSET Violation /\ Once({}) /\ found = [found EXCEPT ![q] = @ \cup {}]
      /\ next = [next EXCEPT ![q] = n] /\ n + 1 \in Nat /\ n < n + 1 /\ n <= n + 1 /\ next[q] <= n
  BY <1>1 DEF Once
<1>3. CASE Receive(q)
  <2>1. /\ at[q] \notin {"read", "insert"} /\ at' = [at EXCEPT ![q] = "check"]
        /\ UNCHANGED <<rules, stored, found, saving, rows>> /\ next' = [next EXCEPT ![q] = n]
    BY <1>1, <1>2, <1>3 DEF Receive, entityVars
  <2>2. QED
    BY <1>1, <1>2, <2>1, MoveRows
<1>4. CASE Check(q) \/ CheckFails(q)
  <2>1. at[q] = "check" /\ UNCHANGED <<rules, stored, saving, rows>> /\ n \in DOMAIN Chunk[q]
    BY <1>1, <1>4 DEF Check, CheckFails, entityVars
  <2>2. CASE Block(q)
    <3>1. found' = found
      BY <1>1, <2>2 DEF Block
    <3>2. \/ next' = [next EXCEPT ![q] = n + 1] /\ at' = at
          \/ next' = next /\ at' = [at EXCEPT ![q] = "closed"]
      BY <1>1, <2>2 DEF Block
    <3>3. at = [at EXCEPT ![q] = "check"]
      BY <1>1, <2>1
    <3>4. QED
      BY <1>1, <1>2, <2>1, <3>1, <3>2, <3>3, MoveRows
  <2>3. ASSUME NEW V, GoOn(q, V), V \subseteq Violation, Once(V),
               \A x \in V : x[1] = q /\ x[2] = n /\ Explained(x)
        PROVE  RowInv'
    <3>1. PICK s \in {"read", "insert"} : at' = [at EXCEPT ![q] = s]
      BY <2>3 DEF GoOn
    <3>2. found' = [found EXCEPT ![q] = @ \cup V] /\ next' = [next EXCEPT ![q] = n] /\ V \in SUBSET Violation
      BY <1>2, <2>3 DEF GoOn
    <3>3. QED
      BY <1>1, <1>2, <2>1, <2>3, <3>1, <3>2, RequestRows
  <2>4. CASE CheckFails(q)
    <3>1. PICK V : V = {}
      OBVIOUS
    <3>2. GoOn(q, V) /\ V \subseteq Violation /\ Once(V) /\ \A x \in V : x[1] = q /\ x[2] = n /\ Explained(x)
      BY <2>4, <3>1 DEF CheckFails, Once
    <3>3. QED
      BY <2>3, <3>2
  <2>5. CASE Check(q) /\ ~Block(q)
    <3>1. PICK lookup \in {"answered", "failed"} :
            GoOn(q, Violations(q, lookup)) /\ \A x \in Violations(q, lookup) : ~Blocks(x[4])
      BY <2>5 DEF Check
    <3>2. /\ Violations(q, lookup) \subseteq Violation
          /\ \A x \in Violations(q, lookup) : x[1] = q /\ x[2] = n /\ Explained(x) /\ x[4] = rules[x[3]]
      BY <1>1, <2>1, <3>1, CheckFinds
    <3>3. Once(Violations(q, lookup))
      <4> SUFFICES ASSUME NEW x \in Violations(q, lookup), NEW y \in Violations(q, lookup), Key(x) = Key(y)
                   PROVE  x = y
        BY DEF Once
      <4>1. x[1] = y[1] /\ x[2] = y[2] /\ x[3] = y[3]
        BY DEF Key
      <4>2. x[4] = y[4]
        BY <3>2, <4>1
      <4>3. QED
        BY <3>2, <4>1, <4>2, ViolationParts
    <3>4. QED
      BY <3>1, <3>2, <3>3, <2>3
  <2>6. QED
    BY <1>4, <2>2, <2>4, <2>5
<1>5. ASSUME NEW S, S \in {{}, found[q]}, Close(q, S), stored \subseteq stored', UNCHANGED <<rules, rows>>
      PROVE  RowInv'
  BY <1>1, <1>5, CloseRows
<1>6. CASE ReadExisting(q)
  <2>1. at[q] = "read" /\ UNCHANGED <<rules, stored, rows>>
    BY <1>6 DEF ReadExisting, entityVars
  <2>2. CASE Close(q, found[q])
    BY <1>5, <2>1, <2>2
  <2>3. CASE at' = [at EXCEPT ![q] = "insert"] /\ UNCHANGED <<next, found, saving>>
    <3>1. next' = [next EXCEPT ![q] = n] /\ UNCHANGED <<rules, stored, found, saving, rows>>
      BY <1>1, <2>1, <2>3
    <3>2. QED
      BY <1>1, <1>2, <2>1, <2>3, <3>1, MoveRows
  <2>4. QED
    BY <1>6, <2>2, <2>3 DEF ReadExisting
<1>7. CASE Create(q) \/ CreateFails(q) \/ Commit(q) \/ CommitFails(q)
  <2>1. stored \subseteq stored' /\ UNCHANGED <<rules, rows>>
    BY <1>7 DEF Create, CreateFails, Commit, CommitFails, StoreAll, entityVars
  <2>2. Close(q, {}) \/ Close(q, found[q])
    BY <1>7 DEF Create, CreateFails, Commit, CommitFails
  <2>3. QED
    BY <1>5, <2>1, <2>2
<1>8. CASE Insert(q) \/ InsertFails(q)
  <2>1. /\ at' = [at EXCEPT ![q] = "check"] /\ next' = [next EXCEPT ![q] = n + 1]
        /\ UNCHANGED <<rules, stored, found, saving, rows>>
    BY <1>1, <1>8 DEF Insert, InsertFails, entityVars
  <2>2. QED
    BY <1>1, <1>2, <2>1, MoveRows
<1>9. QED
  BY <1>3, <1>4, <1>6, <1>7, <1>8 DEF Served

LEMMA RowNext == IInv /\ Transactions /\ RowInv /\ [Next]_vars => RowInv'
<1> SUFFICES ASSUME IInv, Transactions, RowInv, [Next]_vars PROVE RowInv'
  OBVIOUS
<1>1. ASSUME NEW r \in Rules, NEW d \in Definitions, CreateRule(r, d) \/ UpdateRule(r, d)
      PROVE  RowInv'
  BY <1>1, ChangeRows DEF CreateRule, UpdateRule
<1>2. ASSUME NEW r \in Rules, DeleteRule(r)
      PROVE  RowInv'
  BY <1>2, DeleteRows
<1>3. ASSUME NEW ids, NEW s \in Stewards, Resolve(ids, s)
      PROVE  RowInv'
  BY <1>3, ResolveRows
<1>4. ASSUME NEW e \in Entities, Erase(e)
      PROVE  RowInv'
  BY <1>4, EraseRows
<1>5. ASSUME NEW q \in Requests, Served(q)
      PROVE  RowInv'
  BY <1>5, ServedRows
<1>6. ASSUME NEW x \in saving, Save(x) \/ SaveFails(x)
      PROVE  RowInv'
  BY <1>6, SaveRows
<1>7. CASE Crash
  BY <1>7, CrashRows
<1>8. CASE UNCHANGED vars
  <2>1. UNCHANGED <<rules, stored, rows, found, saving, at, next>>
    BY <1>8 DEF vars, entityVars, requestVars
  <2>2. QED
    BY <2>1 DEF RowInv, RowTyped, RowRefers, AllExplained, AllOnce, PassedBy
<1>9. QED
  BY <1>1, <1>2, <1>3, <1>4, <1>5, <1>6, <1>7, <1>8 DEF Next

-----------------------------------------------------------------------------
LEMMA InitLoss == Init => LossInv
  BY QualityRulesAssumption DEF Init, LossInv, StoredClosed, SteadyKnown, NoneLost, Due, Unset

LEMMA StoredClosedNext ==
  ASSUME IInv, Transactions, StoredClosed, [Next]_vars
  PROVE  StoredClosed'
<1>1. ASSUME UNCHANGED <<stored, storedBy>>, \A q \in Requests : at[q] = "closed" => at'[q] = "closed"
      PROVE  StoredClosed'
  BY <1>1 DEF StoredClosed
<1>2. ASSUME NEW q \in Requests, NEW E \in SUBSET Entities, NEW S, Close(q, S), StoreAll(q, E)
      PROVE  StoredClosed'
  BY <1>2 DEF IInv, Typed, StoredClosed, Close, StoreAll
<1>3. ASSUME NEW r \in Rules, NEW d \in Definitions, CreateRule(r, d) \/ UpdateRule(r, d)
      PROVE  StoredClosed'
  BY <1>1, <1>3 DEF CreateRule, UpdateRule, Change, entityVars
<1>4. ASSUME NEW r \in Rules, DeleteRule(r)
      PROVE  StoredClosed'
  BY <1>1, <1>4 DEF DeleteRule, Change, entityVars
<1>5. ASSUME NEW ids, NEW s \in Stewards, Resolve(ids, s)
      PROVE  StoredClosed'
  BY <1>1, <1>5 DEF Resolve, entityVars, requestVars
<1>6. ASSUME NEW e \in Entities, Erase(e)
      PROVE  StoredClosed'
  BY <1>6 DEF Erase, requestVars, IInv, Typed, StoredClosed
<1>7. ASSUME NEW q \in Requests, Served(q)
      PROVE  StoredClosed'
  <2>1. CASE Receive(q) \/ Check(q) \/ CheckFails(q) \/ Insert(q) \/ InsertFails(q)
    BY <1>1, <2>1 DEF Receive, Check, CheckFails, Insert, InsertFails, GoOn, Block, entityVars, IInv, Typed
  <2>2. CASE Commit(q)
    <3>1. written[q] \in SUBSET Entities
      BY DEF IInv, Typed
    <3>2. QED
      BY <1>2, <2>2, <3>1 DEF Commit
  <2>3. CASE Create(q) /\ StoreAll(q, {Item(q).entity}) /\ Close(q, found[q])
    <3>1. {Item(q).entity} \in SUBSET Entities
      BY <2>3, ChunkItem DEF Create, IInv, Allowances, ItemAllowed, Item
    <3>2. QED
      BY <1>2, <2>3, <3>1
  <2>4. ASSUME NEW S, Close(q, S), UNCHANGED entityVars
        PROVE  StoredClosed'
    BY <1>1, <2>4 DEF Close, entityVars, IInv, Typed
  <2>5. CASE ReadExisting(q)
    <3>1. CASE Close(q, found[q])
      BY <2>4, <2>5, <3>1 DEF ReadExisting
    <3>2. CASE at' = [at EXCEPT ![q] = "insert"] /\ UNCHANGED <<next, written, aborted, found, steady, unchecked, saving>>
      BY <1>1, <2>5, <3>2 DEF ReadExisting, entityVars, IInv, Typed
    <3>3. QED
      BY <2>5, <3>1, <3>2 DEF ReadExisting
  <2>6. CASE CreateFails(q) \/ CommitFails(q)
    BY <2>4, <2>6 DEF CreateFails, CommitFails
  <2>7. CASE Create(q) /\ UNCHANGED entityVars /\ Close(q, {})
    BY <2>4, <2>7
  <2>8. QED
    BY <1>7, <2>1, <2>2, <2>3, <2>5, <2>6, <2>7 DEF Served, Create
<1>8. ASSUME NEW x \in saving, Save(x) \/ SaveFails(x)
      PROVE  StoredClosed'
  BY <1>1, <1>8 DEF Save, SaveFails, entityVars, requestVars
<1>9. CASE Crash
  BY <1>1, <1>9 DEF Crash, entityVars
<1>10. CASE UNCHANGED vars
  BY <1>1, <1>10 DEF vars, entityVars, requestVars
<1>11. QED
  BY <1>3, <1>4, <1>5, <1>6, <1>7, <1>8, <1>9, <1>10 DEF Next

\* A rule that a request saw does not become unknown.
LEMMA SteadyKnownNext ==
  ASSUME IInv, SteadyKnown, [Next]_vars
  PROVE  SteadyKnown'
<1>1. CASE UNCHANGED <<rules, steady>>
  BY <1>1 DEF SteadyKnown
<1>2. ASSUME NEW r \in Rules, NEW d \in Ruled \ {None}, Change(r, d)
      PROVE  SteadyKnown'
  BY <1>2, QualityRulesAssumption DEF IInv, Typed, SteadyKnown, Change
<1>3. ASSUME NEW r \in Rules, NEW d \in Definitions, CreateRule(r, d) \/ UpdateRule(r, d)
      PROVE  SteadyKnown'
  <2>1. d \in Ruled \ {None} /\ Change(r, d)
    BY <1>3, QualityRulesAssumption DEF CreateRule, UpdateRule, Ruled
  <2>2. QED
    BY <1>2, <2>1
<1>4. ASSUME NEW r \in Rules, DeleteRule(r)
      PROVE  SteadyKnown'
  <2>1. Deleted \in Ruled \ {None} /\ Change(r, Deleted)
    BY <1>4, QualityRulesAssumption DEF DeleteRule, Ruled
  <2>2. QED
    BY <1>2, <2>1
<1>5. ASSUME NEW ids, NEW s \in Stewards, Resolve(ids, s)
      PROVE  SteadyKnown'
  BY <1>1, <1>5 DEF Resolve, requestVars
<1>6. ASSUME NEW e \in Entities, Erase(e)
      PROVE  SteadyKnown'
  BY <1>1, <1>6 DEF Erase, requestVars
<1>7. ASSUME NEW q \in Requests, Served(q)
      PROVE  SteadyKnown'
  <2>1. CASE Receive(q)
    BY <2>1, QualityRulesAssumption DEF Receive, IInv, Typed, SteadyKnown
  <2>2. CASE ~Receive(q)
    BY <1>1, <1>7, <2>2
    DEF Served, Check, CheckFails, Insert, InsertFails, GoOn, Block, ReadExisting, Create, CreateFails,
        Commit, CommitFails, Close
  <2>3. QED
    BY <2>1, <2>2
<1>8. ASSUME NEW x \in saving, Save(x) \/ SaveFails(x)
      PROVE  SteadyKnown'
  BY <1>1, <1>8 DEF Save, SaveFails, requestVars
<1>9. CASE Crash
  BY <1>1, <1>9 DEF Crash
<1>10. CASE UNCHANGED vars
  BY <1>1, <1>10 DEF vars, requestVars
<1>11. QED
  BY <1>3, <1>4, <1>5, <1>6, <1>7, <1>8, <1>9, <1>10 DEF Next

\* A step that is no fault and leaves the rules keeps what it does not find again.
LEMMA KeptStep ==
  ASSUME LossInv, faults' = 0, faults = 0, UNCHANGED rules,
         NEW q \in Requests, NEW e \in Entities, NEW r \in Rules, Due(q, e, r)', steady'[q] = steady[q]
  PROVE  Due(q, e, r) /\ Kept(q, e, r)
<1>1. Due(q, e, r)
  BY DEF Due, Attributes
<1>2. QED
  BY <1>1 DEF LossInv, NoneLost

LEMMA NotedMore ==
  ASSUME NEW S, NEW T, S \subseteq T, NEW e, NEW r, NEW d, Noted(S, e, r, d)
  PROVE  Noted(T, e, r, d)
  BY DEF Noted

LEMMA ChangeLoss ==
  ASSUME IInv, RowInv, LossInv, NEW r \in Rules, NEW d \in Definitions \cup {Deleted}, Change(r, d),
         d = Deleted \/ rules[r] = None \/ rules[r] \in Definitions,
         \A x \in Rules, v \in rows :
           v.rule = x /\ (x # r \/ d # Deleted) =>
             \E w \in rows' : w.snapshot = v.snapshot /\ w.entity = v.entity /\ w.rule = x
  PROVE  NoneLost'
<1> SUFFICES ASSUME faults' = 0, NEW q \in Requests, NEW e \in Entities, NEW x \in Rules, Due(q, e, x)'
             PROVE  Kept(q, e, x)'
  BY DEF NoneLost
<1>1. steady'[q][x] = steady[q][x] /\ steady[q][x] \in Definitions
  BY QualityRulesAssumption DEF Due, Change, IInv, Typed
<1>2. rules[x] \in Definitions /\ (x # r \/ d # Deleted)
  BY <1>1, QualityRulesAssumption DEF Due, Change, IInv, Typed, LossInv, SteadyKnown
<1>3. Due(q, e, x)
  BY <1>1, <1>2 DEF Due, Attributes
<1>4. Kept(q, e, x) /\ faults = 0
  BY <1>3 DEF LossInv, NoneLost, Change
<1>5. Underway(q, e)' => Noted(found[q], e, x, steady[q][x])'
  BY <1>1, <1>4 DEF Kept, Underway, Item, Noted, Change
<1>6. ASSUME e \in stored', storedBy'[e] = q
      PROVE  Recorded(e, x, steady[q][x])' \/ Noted(saving, e, x, steady[q][x])'
  <2>1. CASE Recorded(e, x, steady[q][x])
    BY <1>1, <1>2, <2>1 DEF Recorded
  <2>2. CASE Noted(saving, e, x, steady[q][x])
    BY <1>1, <2>2 DEF Noted, Change
  <2>3. QED
    BY <1>4, <1>6, <2>1, <2>2 DEF Kept, Change, entityVars
<1>7. QED
  BY <1>5, <1>6 DEF Kept

LEMMA RuleLoss ==
  ASSUME IInv, RowInv, LossInv, NEW r \in Rules,
         (\E d \in Definitions : CreateRule(r, d) \/ UpdateRule(r, d)) \/ DeleteRule(r)
  PROVE  NoneLost'
<1>1. ASSUME NEW d \in Definitions, CreateRule(r, d) \/ UpdateRule(r, d)
      PROVE  NoneLost'
  <2>1. Change(r, d) /\ UNCHANGED rows /\ (rules[r] = None \/ rules[r] \in Definitions)
    BY <1>1 DEF CreateRule, UpdateRule
  <2>2. QED
    BY <2>1, ChangeLoss
<1>2. CASE DeleteRule(r)
  <2>1. Change(r, Deleted) /\ rows' = {[v EXCEPT !.rule = IF @ = r THEN None ELSE @] : v \in rows}
    BY <1>2 DEF DeleteRule
  <2>2. ASSUME NEW x \in Rules, NEW v \in rows, v.rule = x, x # r
        PROVE  \E w \in rows' : w.snapshot = v.snapshot /\ w.entity = v.entity /\ w.rule = x
    <3>1. v \in RowSet
      BY DEF RowInv, RowTyped, RowSet
    <3>2. [v EXCEPT !.rule = IF @ = r THEN None ELSE @] = v
      BY <2>2, <3>1 DEF RowSet
    <3>3. v \in rows'
      BY <2>1, <3>2
    <3>4. QED
      BY <2>2, <3>3
  <2>3. QED
    BY <2>1, <2>2, ChangeLoss
<1>3. QED
  BY <1>1, <1>2

\* A step that leaves the requests alone, keeps the rows of what it leaves stored, and
\* takes from the tasks what it makes a row.
LEMMA RowLoss ==
  ASSUME IInv, LossInv, UNCHANGED <<rules, requestVars>>, faults = 0, stored' \subseteq stored,
         \A e \in stored' : storedBy'[e] = storedBy[e],
         \A e \in stored', r \in Rules, d \in Definitions :
           rules[r] \in Definitions /\ (Recorded(e, r, d) \/ Noted(saving, e, r, d)) =>
             Recorded(e, r, d)' \/ Noted(saving', e, r, d)
  PROVE  NoneLost'
<1> SUFFICES ASSUME faults' = 0, NEW q \in Requests, NEW e \in Entities, NEW r \in Rules, Due(q, e, r)'
             PROVE  Kept(q, e, r)'
  BY DEF NoneLost
<1>1. Due(q, e, r) /\ Kept(q, e, r)
  BY KeptStep DEF requestVars
<1>2. steady'[q][r] = steady[q][r] /\ steady[q][r] \in Definitions /\ rules[r] \in Definitions
  BY <1>1 DEF Due, requestVars
<1>3. Underway(q, e)' => Noted(found[q], e, r, steady[q][r])'
  BY <1>1 DEF Kept, Underway, Item, Noted, requestVars
<1>4. ASSUME e \in stored', storedBy'[e] = q
      PROVE  Recorded(e, r, steady[q][r])' \/ Noted(saving, e, r, steady[q][r])'
  <2>1. Recorded(e, r, steady[q][r]) \/ Noted(saving, e, r, steady[q][r])
    BY <1>1, <1>4 DEF Kept
  <2>2. QED
    BY <1>2, <1>4, <2>1 DEF Recorded, Noted
<1>5. QED
  BY <1>3, <1>4 DEF Kept

LEMMA ResolveLoss ==
  ASSUME IInv, RowInv, LossInv, NEW ids, NEW s \in Stewards, Resolve(ids, s), faults = 0
  PROVE  NoneLost'
<1>1. UNCHANGED <<rules, entityVars, requestVars, saving>>
  BY DEF Resolve
<1>2. ASSUME NEW e, NEW r, NEW d, Recorded(e, r, d)
      PROVE  Recorded(e, r, d)'
  <2>1. PICK v \in rows : v.snapshot = d /\ v.entity = e /\ v.rule = r
    BY <1>2 DEF Recorded
  <2>2. PICK w \in rows' : w = [v EXCEPT !.resolver = IF v.id \in ids /\ @ = None THEN s ELSE @]
    BY DEF Resolve
  <2>3. v \in RowSet
    BY DEF RowInv, RowTyped, RowSet
  <2>4. w.snapshot = d /\ w.entity = e /\ w.rule = r
    BY <2>1, <2>2, <2>3 DEF RowSet
  <2>5. QED
    BY <2>4 DEF Recorded
<1>3. QED
  BY <1>1, <1>2, RowLoss DEF entityVars

LEMMA EraseLoss ==
  ASSUME IInv, LossInv, NEW e \in Entities, Erase(e), faults = 0
  PROVE  NoneLost'
<1>1. /\ UNCHANGED <<rules, requestVars, saving>> /\ stored' = stored \ {e}
      /\ storedBy' = [storedBy EXCEPT ![e] = None] /\ rows' = {v \in rows : v.entity # e}
  BY DEF Erase
<1>2. stored' \subseteq stored /\ \A x \in stored' : storedBy'[x] = storedBy[x]
  BY <1>1 DEF IInv, Typed
<1>3. \A x \in stored', r \in Rules, d \in Definitions : Recorded(x, r, d) => Recorded(x, r, d)'
  BY <1>1 DEF Recorded
<1>4. QED
  BY <1>1, <1>2, <1>3, RowLoss

LEMMA SaveLoss ==
  ASSUME IInv, RowInv, LossInv, NEW x \in saving, Save(x), faults = 0
  PROVE  NoneLost'
<1>1. /\ UNCHANGED <<rules, entityVars, requestVars>> /\ saving' = saving \ {x} /\ rows \subseteq rows'
      /\ rules[x[3]] \in Definitions /\ Row(x).entity \in stored => Row(x) \in rows'
  BY DEF Save
<1>2. x \in Violation
  BY DEF RowInv, RowTyped
<1>3. ASSUME NEW e \in stored', NEW r \in Rules, NEW d \in Definitions, rules[r] \in Definitions,
             Recorded(e, r, d) \/ Noted(saving, e, r, d)
      PROVE  Recorded(e, r, d)' \/ Noted(saving', e, r, d)
  <2>1. CASE Recorded(e, r, d)
    BY <1>1, <2>1 DEF Recorded
  <2>2. CASE Noted(saving, e, r, d)
    <3>1. PICK y \in saving : y[3] = r /\ y[4] = d /\ Chunk[y[1]][y[2]].entity = e
      BY <2>2 DEF Noted
    <3>2. CASE y = x
      <4>1. Row(x).entity = e /\ Row(x).rule = r /\ Row(x).snapshot = d
        BY <1>2, <3>1, <3>2, RowOf
      <4>2. Row(x) \in rows'
        BY <1>1, <1>3, <3>1, <3>2, <4>1 DEF entityVars
      <4>3. QED
        BY <4>1, <4>2 DEF Recorded
    <3>3. CASE y # x
      BY <1>1, <3>1, <3>3 DEF Noted
    <3>4. QED
      BY <3>2, <3>3
  <2>3. QED
    BY <1>3, <2>1, <2>2
<1>4. QED
  BY <1>1, <1>3, RowLoss DEF entityVars

\* A step of q that stores nothing and hands nothing to a task.
LEMMA RequestLoss ==
  ASSUME IInv, LossInv, NEW q \in Requests, faults = 0,
         UNCHANGED <<rules, entityVars, steady, saving, rows>>,
         \A p \in Requests \ {q} : at'[p] = at[p] /\ next'[p] = next[p] /\ found'[p] = found[p] /\ written'[p] = written[p],
         \A e \in Entities, r \in Rules :
           Due(q, e, r) /\ Kept(q, e, r) /\ Underway(q, e)' => Noted(found'[q], e, r, steady[q][r])
  PROVE  NoneLost'
<1> SUFFICES ASSUME faults' = 0, NEW p \in Requests, NEW e \in Entities, NEW r \in Rules, Due(p, e, r)'
             PROVE  Kept(p, e, r)'
  BY DEF NoneLost
<1>1. Due(p, e, r) /\ Kept(p, e, r)
  BY KeptStep
<1>2. Underway(p, e)' => Noted(found[p], e, r, steady[p][r])'
  <2>1. CASE p = q
    BY <1>1, <2>1 DEF Noted
  <2>2. CASE p # q
    BY <1>1, <2>2 DEF Kept, Underway, Item, Noted
  <2>3. QED
    BY <2>1, <2>2
<1>3. ASSUME e \in stored', storedBy'[e] = p
      PROVE  Recorded(e, r, steady[p][r])' \/ Noted(saving, e, r, steady[p][r])'
  BY <1>1, <1>3 DEF Kept, Recorded, Noted, entityVars
<1>4. QED
  BY <1>2, <1>3 DEF Kept

LEMMA CloseLoss ==
  ASSUME IInv, RowInv, LossInv, NEW q \in Requests, NEW S, NEW E \in SUBSET Entities, at[q] # "closed",
         Close(q, S), StoreAll(q, E), faults = 0, UNCHANGED <<rules, rows>>,
         E = {} \/ (S = found[q] /\ \A e \in E : Underway(q, e))
  PROVE  NoneLost'
<1> SUFFICES ASSUME faults' = 0, NEW p \in Requests, NEW e \in Entities, NEW r \in Rules, Due(p, e, r)'
             PROVE  Kept(p, e, r)'
  BY DEF NoneLost
<1>1. Due(p, e, r) /\ Kept(p, e, r) /\ UNCHANGED steady
  BY KeptStep DEF Close
<1>2. /\ at' = [at EXCEPT ![q] = "closed"] /\ saving' = saving \cup S /\ next' = [next EXCEPT ![q] = 1]
      /\ written' = [written EXCEPT ![q] = {}] /\ found' = [found EXCEPT ![q] = {}]
      /\ storedBy' = [x \in Entities |-> IF x \in E THEN q ELSE storedBy[x]] /\ stored' = stored \cup E
  BY DEF Close, StoreAll
<1>3. Underway(p, e)' => Noted(found[p], e, r, steady[p][r])'
  <2>1. CASE p = q
    BY <1>2, <2>1 DEF IInv, Typed, Underway
  <2>2. CASE p # q
    BY <1>1, <1>2, <2>2 DEF IInv, Typed, RowInv, RowTyped, Kept, Underway, Item, Noted
  <2>3. QED
    BY <2>1, <2>2
<1>4. ASSUME e \in stored', storedBy'[e] = p
      PROVE  Recorded(e, r, steady[p][r])' \/ Noted(saving, e, r, steady[p][r])'
  <2>1. CASE e \in E
    <3>1. p = q /\ S = found[q] /\ Underway(q, e)
      BY <1>2, <1>4, <2>1
    <3>2. Noted(S, e, r, steady[p][r])
      BY <1>1, <3>1 DEF Kept
    <3>3. QED
      BY <1>1, <1>2, <3>2 DEF Noted
  <2>2. CASE e \notin E
    BY <1>1, <1>2, <1>4, <2>2 DEF Kept, Recorded, Noted
  <2>3. QED
    BY <2>1, <2>2
<1>5. QED
  BY <1>3, <1>4 DEF Kept

LEMMA CloseOnlyLoss ==
  ASSUME IInv, RowInv, LossInv, NEW q \in Requests, NEW S, at[q] # "closed", Close(q, S),
         faults = 0, UNCHANGED <<rules, rows, entityVars>>
  PROVE  NoneLost'
<1>1. StoreAll(q, {})
  BY DEF StoreAll, entityVars, IInv, Typed
<1>2. QED
  BY <1>1, CloseLoss

LEMMA ServedLoss ==
  ASSUME IInv, Transactions, RowInv, LossInv, NEW q \in Requests, Served(q)
  PROVE  NoneLost'
<1> SUFFICES ASSUME faults' = 0 PROVE NoneLost'
  BY DEF NoneLost
<1>1. /\ faults \in Nat /\ at \in [Requests -> Statuses] /\ next \in [Requests -> Nat \ {0}]
      /\ written \in [Requests -> SUBSET Entities] /\ found \in [Requests -> SUBSET Violation]
  BY QualityRulesAssumption DEF Transactions, IInv, Typed, RowInv, RowTyped
<1>2. ~Fault
  BY <1>1 DEF Fault
<1>3. CASE Receive(q)
  <2>1. faults = 0 /\ UNCHANGED <<rules, saving, rows, found, next, written>>
    BY <1>3 DEF Receive
  <2>2. ASSUME NEW p \in Requests, NEW e \in Entities, NEW r \in Rules, Due(p, e, r)'
        PROVE  Kept(p, e, r)'
    <3>1. CASE p = q
      BY <1>1, <1>3, <2>1, <3>1 DEF Receive, IInv, NewIsClean, Typed, Kept, Underway, entityVars
    <3>2. CASE p # q
      <4>1. steady'[p] = steady[p] /\ at'[p] = at[p]
        BY <1>1, <1>3, <3>2 DEF Receive, IInv, Typed
      <4>2. Kept(p, e, r)
        BY <2>1, <2>2, <4>1, KeptStep
      <4>3. QED
        BY <1>3, <2>1, <4>1, <4>2 DEF Receive, Kept, Underway, Item, Noted, Recorded, entityVars
    <3>3. QED
      BY <3>1, <3>2
  <2>3. QED
    BY <2>2 DEF NoneLost
<1>4. CASE Check(q)
  <2>1. PICK lookup \in {"answered", "failed"} :
          /\ IF \E x \in Violations(q, lookup) : Blocks(x[4]) THEN Block(q) ELSE GoOn(q, Violations(q, lookup))
          /\ \/ lookup = "answered" /\ UNCHANGED faults
             \/ lookup = "failed" /\ Fault
    BY <1>4 DEF Check
  <2>2. lookup = "answered" /\ faults = 0
    BY <1>2, <2>1
  <2>3. /\ at[q] = "check" /\ next[q] <= Len(Chunk[q]) /\ next[q] \in DOMAIN Chunk[q]
        /\ UNCHANGED <<rules, entityVars, written, steady, saving, rows>>
    BY <1>1, <1>4, ChunkDomain DEF Check
  <2>4. \A p \in Requests \ {q} : at'[p] = at[p] /\ next'[p] = next[p] /\ found'[p] = found[p] /\ written'[p] = written[p]
    BY <1>1, <2>1, <2>3 DEF Block, GoOn
  <2>5. ASSUME NEW e \in Entities, NEW r \in Rules, Due(q, e, r), Kept(q, e, r), Underway(q, e)'
        PROVE  Noted(found'[q], e, r, steady[q][r])
    <3>1. found[q] \subseteq found'[q]
      BY <1>1, <2>1 DEF Block, GoOn
    <3>2. CASE e \in written[q]
      BY <2>5, <3>1, <3>2, NotedMore DEF Kept, Underway
    <3>3. CASE e \notin written[q]
      <4>1. at'[q] \in {"read", "insert"}
        BY <2>3, <2>5, <3>3 DEF Underway
      <4>2. GoOn(q, Violations(q, "answered"))
        BY <1>1, <2>1, <2>2, <2>3, <4>1 DEF Block
      <4>3. e = Item(q).entity
        BY <2>3, <2>5, <3>3, <4>2 DEF Underway, Item, GoOn
      <4>4. rules[r] = steady[q][r] /\ rules[r] \in Definitions
        BY <2>3, <2>5 DEF Due, IInv, SteadyIsCurrent
      <4>5. Item(q).attrs \in Attributes(q, e)
        BY <2>3, <4>3, ChunkItem DEF Item
      <4>6. Fires(rules[r], Item(q).attrs, "answered") /\ Applies(rules[r], TypeOf[e])
        BY <2>5, <4>4, <4>5 DEF Due
      <4>7. <<q, next[q], r, rules[r]>> \in Violations(q, "answered")
        BY <4>3, <4>4, <4>6 DEF Violations
      <4>8. <<q, next[q], r, rules[r]>> \in found'[q]
        BY <1>1, <4>2, <4>7 DEF GoOn
      <4>9. QED
        BY <4>3, <4>4, <4>8 DEF Noted, Item
    <3>4. QED
      BY <3>2, <3>3
  <2>6. QED
    BY <2>2, <2>3, <2>4, <2>5, RequestLoss
<1>5. CASE CheckFails(q) \/ InsertFails(q) \/ CommitFails(q)
  BY <1>2, <1>5 DEF CheckFails, InsertFails, CommitFails
<1>6. CASE ReadExisting(q)
  <2>1. at[q] = "read" /\ faults = 0 /\ UNCHANGED <<rules, rows, entityVars>>
    BY <1>6 DEF ReadExisting
  <2>2. CASE Close(q, found[q])
    BY <2>1, <2>2, CloseOnlyLoss
  <2>3. CASE at' = [at EXCEPT ![q] = "insert"] /\ UNCHANGED <<next, written, found, steady, saving>>
    <3>1. \A p \in Requests \ {q} : at'[p] = at[p]
      BY <1>1, <2>3
    <3>2. \A e \in Entities, r \in Rules :
            Kept(q, e, r) /\ Underway(q, e)' => Noted(found'[q], e, r, steady[q][r])
      BY <2>1, <2>3 DEF Kept, Underway, Item
    <3>3. QED
      BY <2>1, <2>3, <3>1, <3>2, RequestLoss
  <2>4. QED
    BY <1>6, <2>2, <2>3 DEF ReadExisting
<1>7. CASE Create(q)
  <2>1. at[q] = "insert" /\ faults = 0 /\ UNCHANGED <<rules, rows>>
    BY <1>7 DEF Create
  <2>2. CASE StoreAll(q, {Item(q).entity}) /\ Close(q, found[q])
    <3>1. {Item(q).entity} \in SUBSET Entities
      BY <2>1, ChunkItem DEF IInv, Allowances, ItemAllowed, Item
    <3>2. \A e \in {Item(q).entity} : Underway(q, e)
      BY <2>1 DEF Underway
    <3>3. QED
      BY <2>1, <2>2, <3>1, <3>2, CloseLoss
  <2>3. CASE UNCHANGED entityVars /\ Close(q, {})
    BY <2>1, <2>3, CloseOnlyLoss
  <2>4. QED
    BY <1>7, <2>2, <2>3 DEF Create
<1>8. CASE CreateFails(q)
  BY <1>8, CloseOnlyLoss DEF CreateFails
<1>9. CASE Insert(q)
  <2>1. /\ at[q] = "insert" /\ faults = 0 /\ UNCHANGED <<rules, entityVars, steady, saving, rows, found>>
        /\ at' = [at EXCEPT ![q] = "check"] /\ next' = [next EXCEPT ![q] = @ + 1]
        /\ \/ written' = [written EXCEPT ![q] = @ \cup {Item(q).entity}]
           \/ written' = [written EXCEPT ![q] = {}]
    BY <1>9 DEF Insert
  <2>2. \A p \in Requests \ {q} : at'[p] = at[p] /\ next'[p] = next[p] /\ written'[p] = written[p]
    BY <1>1, <2>1
  <2>3. \A e \in Entities : Underway(q, e)' => Underway(q, e)
    BY <1>1, <2>1 DEF Underway
  <2>4. \A e \in Entities, r \in Rules :
          Kept(q, e, r) /\ Underway(q, e)' => Noted(found'[q], e, r, steady[q][r])
    BY <2>1, <2>3 DEF Kept
  <2>5. QED
    BY <2>1, <2>2, <2>4, RequestLoss
<1>10. CASE Commit(q)
  <2>1. /\ at[q] = "check" /\ faults = 0 /\ UNCHANGED <<rules, rows>>
        /\ StoreAll(q, written[q]) /\ Close(q, found[q])
    BY <1>10 DEF Commit
  <2>2. written[q] \in SUBSET Entities /\ \A e \in written[q] : Underway(q, e)
    BY <1>1 DEF Underway
  <2>3. QED
    BY <2>1, <2>2, CloseLoss
<1>11. QED
  BY <1>3, <1>4, <1>5, <1>6, <1>7, <1>8, <1>9, <1>10 DEF Served

LEMMA LossNext == IInv /\ Transactions /\ RowInv /\ LossInv /\ [Next]_vars => LossInv'
<1> SUFFICES ASSUME IInv, Transactions, RowInv, LossInv, [Next]_vars PROVE LossInv'
  OBVIOUS
<1>1. StoredClosed' /\ SteadyKnown'
  BY StoredClosedNext, SteadyKnownNext DEF LossInv
<1>2. faults \in Nat /\ (Fault => faults' # 0)
  BY QualityRulesAssumption DEF Transactions, Fault
<1>3. NoneLost'
  <2> SUFFICES ASSUME faults' = 0 PROVE NoneLost'
    BY DEF NoneLost
  <2>1. ASSUME NEW r \in Rules, (\E d \in Definitions : CreateRule(r, d) \/ UpdateRule(r, d)) \/ DeleteRule(r)
        PROVE  NoneLost'
    BY <2>1, RuleLoss
  <2>2. ASSUME NEW ids, NEW s \in Stewards, Resolve(ids, s)
        PROVE  NoneLost'
    BY <2>2, ResolveLoss DEF Resolve
  <2>3. ASSUME NEW e \in Entities, Erase(e)
        PROVE  NoneLost'
    BY <2>3, EraseLoss DEF Erase
  <2>4. ASSUME NEW q \in Requests, Served(q)
        PROVE  NoneLost'
    BY <2>4, ServedLoss
  <2>5. ASSUME NEW x \in saving, Save(x) \/ SaveFails(x)
        PROVE  NoneLost'
    BY <1>2, <2>5, SaveLoss DEF Save, SaveFails
  <2>6. CASE Crash
    BY <1>2, <2>6 DEF Crash
  <2>7. CASE UNCHANGED vars
    BY <2>7, RowLoss DEF vars, entityVars, Recorded
  <2>8. QED
    BY <2>1, <2>2, <2>3, <2>4, <2>5, <2>6, <2>7 DEF Next
<1>4. QED
  BY <1>1, <1>3 DEF LossInv

-----------------------------------------------------------------------------
LEMMA Inductive == Spec => [](IInv /\ Transactions /\ RowInv /\ LossInv)
<1>1. Init => IInv /\ Transactions /\ RowInv /\ LossInv
  BY InitIInv, InitTransactions, InitRows, InitLoss
<1>2. IInv /\ Transactions /\ RowInv /\ LossInv /\ [Next]_vars => (IInv /\ Transactions /\ RowInv /\ LossInv)'
  BY IInvNext, TransactionsNext, RowNext, LossNext
<1>3. QED
  BY <1>1, <1>2, PTL DEF Spec

\* Violations are of entities that are stored and rules that exist, each is saved once,
\* and what a transaction has written is in its chunk and not yet stored.
THEOREM TypeOKAlways == Spec => []TypeOK
<1>1. IInv /\ Transactions /\ RowInv => TypeOK
  <2> SUFFICES ASSUME IInv, Transactions, RowInv PROVE TypeOK
    OBVIOUS
  <2>1. ASSUME NEW q \in Requests
        PROVE  next[q] \in 1..(Len(Chunk[q]) + 1)
    BY ChunkDomain DEF IInv, Typed, Transactions
  <2>2. ASSUME NEW q \in Requests
        PROVE  written[q] \subseteq {Chunk[q][i].entity : i \in 1..(next[q] - 1)} \ stored
    <3>1. next[q] \in Nat \ {0}
      BY DEF IInv, Typed
    <3>2. ASSUME NEW e \in written[q]
          PROVE  e \notin stored /\ \E i \in 1..(next[q] - 1) : e = Chunk[q][i].entity
      <4>1. PICK i \in DOMAIN Chunk[q] : i < next[q] /\ Chunk[q][i].entity = e
        BY DEF Transactions, InChunk
      <4>2. i \in 1..(next[q] - 1)
        BY <3>1, <4>1, ChunkDomain
      <4>3. QED
        BY <4>1, <4>2 DEF Transactions
    <3>3. QED
      BY <3>2
  <2>3. QED
    BY <2>1, <2>2 DEF TypeOK, IInv, Typed, Ruled, Statuses, Transactions, RowInv, RowTyped, RowRefers, AllOnce
<1>2. QED
  BY <1>1, Inductive, PTL

\* A row of the violations shows the rule that fired, as it was, and that rule flags
\* (0013_quality_rules.sql:35).
THEOREM SnapshotExplainsAlways == Spec => []SnapshotExplains
<1>1. RowInv => SnapshotExplains
  BY DEF RowInv, AllExplained, SnapshotExplains, Shows, Fires
<1>2. QED
  BY <1>1, Inductive, PTL

\* Without faults no violation of a stored entity is lost, however many requests, tasks
\* and stewards interleave (save_violations_background, data_quality_service.rs:571).
THEOREM NoViolationLostAlways == Spec => []NoViolationLost
<1>1. IInv /\ LossInv => NoViolationLost
  <2> SUFFICES ASSUME IInv, LossInv, NEW e \in stored, faults = 0, NEW r \in Rules,
                      Due(storedBy[e], e, r)
               PROVE  \/ Recorded(e, r, steady[storedBy[e]][r])
                      \/ Noted(saving, e, r, steady[storedBy[e]][r])
    BY DEF NoViolationLost, Due, Recorded, Noted
  <2>1. e \in Entities /\ storedBy[e] \in Requests
    BY DEF IInv, Typed
  <2>2. QED
    BY <2>1 DEF LossInv, NoneLost, Kept
<1>2. QED
  BY <1>1, Inductive, PTL
=============================================================================
