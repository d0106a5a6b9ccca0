---------------------------- MODULE QualityRules ----------------------------
(***************************************************************************)
(* The data quality rules of mdm-core: stewards edit them, the requests    *)
(* that create entities, one or a chunk in one transaction, check them     *)
(* first, and the violations that do not block are saved by tasks in the   *)
(* background and resolved by stewards.  One tenant, one replica.          *)
(***************************************************************************)
EXTENDS Integers, Sequences, FiniteSets

CONSTANTS
  Rules,          \* ids of rules
  Definitions,    \* what a rule can say: [conditions, logicalOp, action, type, active]
  Entities,
  TypeOf,         \* TypeOf[e]: the type of entity e
  Requests,
  Bulk,           \* the requests to /entities/ingest-bulk
  Chunk,          \* Chunk[q]: the entities and attributes request q sends, in order
  Fits,           \* <<operator, literal, value>>: the value has the prefix, format, city...
  Stewards,
  Erasable,       \* bound: the entities that may be erased
  MaxFaults,      \* bound
  None, Deleted

\* The actions are those the table admits (0013_quality_rules.sql:21).
ASSUME QualityRulesAssumption ==
  /\ Bulk \subseteq Requests
  /\ \A q \in Requests : /\ Chunk[q] \in Seq([entity : Entities, attrs : {Chunk[q][i].attrs : i \in DOMAIN Chunk[q]}])
                         /\ q \notin Bulk => Len(Chunk[q]) = 1
  /\ \A d \in Definitions : /\ d.active \in BOOLEAN
                            /\ d.action \in {"flag", "enrich", "reject", "quarantine"}
  /\ None \notin Definitions /\ Deleted \notin Definitions /\ None # Deleted
  /\ None \notin Requests /\ None \notin Rules /\ None \notin Stewards
  /\ MaxFaults \in Nat

VARIABLES
  rules,          \* quality_rules
  stored,         \* the entities
  storedBy,       \* storedBy[e]: the request that stored e
  at,             \* at[q]: what request q does next
  next,           \* next[q]: the entity it is at
  written,        \* written[q]: the entities in its transaction
  aborted,        \* the requests whose transaction has had an error
  found,          \* found[q]: violations it will save, <<request, index, rule, definition>>
  saving,         \* violations the background tasks have still to save
  rows,           \* quality_violations
  steady,         \* steady[q][r]: rule r, unless it was changed since q was received
  unchecked,      \* requests that went on after a check that failed
  faults          \* how many faults there were

requestVars == <<at, next, written, aborted, found, steady, unchecked>>
entityVars == <<stored, storedBy>>
vars == <<rules, entityVars, requestVars, saving, rows, faults>>

Unset == [r \in Rules |-> None]

Init ==
  /\ rules = Unset
  /\ stored = {} /\ storedBy = [e \in Entities |-> None]
  /\ at = [q \in Requests |-> "new"] /\ next = [q \in Requests |-> 1]
  /\ written = [q \in Requests |-> {}] /\ aborted = {}
  /\ found = [q \in Requests |-> {}]
  /\ steady = [q \in Requests |-> Unset]
  /\ unchecked = {} /\ saving = {} /\ rows = {} /\ faults = 0

Fault == faults < MaxFaults /\ faults' = faults + 1

-----------------------------------------------------------------------------
(* Evaluation.  A value is missing, blank, a text or a number n; n is 0    *)
(* unless it is a number.                                                  *)

\* The literal of a condition that is not a number compares as 0.
Threshold(c) == IF c.value.kind = "number" THEN c.value.n ELSE 0

\* A missing value counts as 0 and one that is not a number fails both.
Numeric(c, v) ==
  /\ v.kind \in {"missing", "number"}
  /\ \/ c.operator = "greater_than" /\ v.n > Threshold(c)
     \/ c.operator = "less_than" /\ v.n < Threshold(c)

Empty(v) == v.kind \in {"missing", "blank"}

\* The operators that look at the text itself.
Textual == {"contains", "starts_with", "matches", "iban_valid", "postal_format_valid"}

\* A lookup of a postal code that fails, and an operator that is not known, pass.
Passes(c, attrs, lookup) ==
  LET v == attrs[c.field]
  IN CASE c.operator = "is_not_empty" -> ~Empty(v)
       [] c.operator = "is_empty" -> Empty(v)
       [] c.operator = "equals" -> v = c.value
       [] c.operator = "not_equals" -> v # c.value
       [] c.operator \in {"greater_than", "less_than"} -> Numeric(c, v)
       [] c.operator \in Textual -> v.kind # "missing" /\ <<c.operator, c.value, v>> \in Fits
       [] c.operator = "postal_city_match" -> Empty(v) \/ lookup = "failed" \/ <<c.operator, c.value, v>> \in Fits
       [] OTHER -> TRUE

\* DEFECT: a rule of alternatives fires when one of them fails.
FiresAny(d, attrs, lookup) == \E c \in d.conditions : ~Passes(c, attrs, lookup)

\* A rule without conditions, or with conditions that cannot be read, never fires.
Fires(d, attrs, lookup) ==
  /\ d.conditions # {}
  /\ IF d.logicalOp = "OR"
     THEN \A c \in d.conditions : ~Passes(c, attrs, lookup)
     ELSE \E c \in d.conditions : ~Passes(c, attrs, lookup)

Applies(d, type) == d.active /\ d.type \in {"all", type}

\* DEFECT: quarantine does not block.
BlocksOnReject(d) == d.action = "reject"

Blocks(d) == d.action \in {"reject", "quarantine"}

-----------------------------------------------------------------------------
(* Stewards.                                                               *)

\* A change is a change for every request that is being served.
Change(r, d) ==
  /\ rules' = [rules EXCEPT ![r] = d]
  /\ steady' = [q \in Requests |-> IF at[q] \in {"new", "closed"} THEN steady[q] ELSE [steady[q] EXCEPT ![r] = None]]
  /\ UNCHANGED <<entityVars, at, next, written, aborted, found, unchecked, saving, faults>>

CreateRule(r, d) ==
  /\ rules[r] = None /\ d.active
  /\ Change(r, d)
  /\ UNCHANGED rows

\* The answer is an error, for RETURNING 1 is not the integer that is read, but the
\* statement was executed.
UpdateRule(r, d) ==
  /\ rules[r] \in Definitions \ {d}
  /\ Change(r, d)
  /\ UNCHANGED rows

\* DEFECT: the rows of the rule keep its id.
DeleteRuleOnly(r) ==
  /\ rules[r] \in Definitions
  /\ Change(r, Deleted)
  /\ UNCHANGED rows

\* The violations of the rule stay, with the snapshot of it.
DeleteRule(r) ==
  /\ rules[r] \in Definitions
  /\ Change(r, Deleted)
  /\ rows' = {[v EXCEPT !.rule = IF @ = r THEN None ELSE @] : v \in rows}

\* resolve_violation and bulk_resolve.
Resolve(ids, s) ==
  /\ \E v \in rows : v.id \in ids /\ v.resolver = None
  /\ rows' = {[v EXCEPT !.resolver = IF v.id \in ids /\ @ = None THEN s ELSE @] : v \in rows}
  /\ UNCHANGED <<rules, entityVars, requestVars, saving, faults>>

\* The erasure of an entity removes its violations.
Erase(e) ==
  /\ e \in stored \cap Erasable
  /\ stored' = stored \ {e} /\ storedBy' = [storedBy EXCEPT ![e] = None]
  /\ rows' = {v \in rows : v.entity # e}
  /\ UNCHANGED <<rules, requestVars, saving, faults>>

-----------------------------------------------------------------------------
(* Requests.                                                               *)

Item(q) == Chunk[q][next[q]]

Receive(q) ==
  /\ at[q] = "new"
  /\ at' = [at EXCEPT ![q] = "check"]
  /\ steady' = [steady EXCEPT ![q] = rules]
  /\ UNCHANGED <<rules, entityVars, next, written, aborted, found, unchecked, saving, rows, faults>>

\* load_active_rules and evaluate_rule.
Violations(q, lookup) ==
  {<<q, next[q], r, rules[r]>> :
     r \in {x \in Rules : /\ rules[x] \in Definitions
                          /\ Applies(rules[x], TypeOf[Item(q).entity])
                          /\ Fires(rules[x], Item(q).attrs, lookup)}}

\* After a check that did not block: an entity of a chunk is inserted, one alone is
\* looked up first.
GoOn(q, violations) ==
  /\ found' = [found EXCEPT ![q] = @ \cup violations]
  /\ at' = [at EXCEPT ![q] = IF q \in Bulk THEN "insert" ELSE "read"]
  /\ UNCHANGED next

\* An entity that is blocked is refused, or left out of its chunk.
Block(q) ==
  /\ IF q \in Bulk THEN next' = [next EXCEPT ![q] = @ + 1] /\ UNCHANGED at
                   ELSE at' = [at EXCEPT ![q] = "closed"] /\ UNCHANGED next
  /\ UNCHANGED found

\* check_entity.
Check(q) ==
  /\ at[q] = "check" /\ next[q] <= Len(Chunk[q])
  /\ \E lookup \in {"answered", "failed"} :
       LET violations == Violations(q, lookup)
       IN /\ IF \E x \in violations : Blocks(x[4]) THEN Block(q) ELSE GoOn(q, violations)
          /\ \/ lookup = "answered" /\ UNCHANGED <<unchecked, faults>>
             \/ lookup = "failed" /\ unchecked' = unchecked \cup {q} /\ Fault
  /\ UNCHANGED <<rules, entityVars, written, aborted, steady, saving, rows>>

\* The rules cannot be loaded: the check is left out.
CheckFails(q) ==
  /\ at[q] = "check" /\ next[q] <= Len(Chunk[q])
  /\ GoOn(q, {})
  /\ unchecked' = unchecked \cup {q}
  /\ Fault
  /\ UNCHANGED <<rules, entityVars, written, aborted, steady, saving, rows>>

\* The request ends and leaves the violations S to a task.
Close(q, S) ==
  /\ at' = [at EXCEPT ![q] = "closed"]
  /\ saving' = saving \cup S
  /\ written' = [written EXCEPT ![q] = {}]
  /\ found' = [found EXCEPT ![q] = {}]
  /\ next' = [next EXCEPT ![q] = 1] /\ aborted' = aborted \ {q}
  /\ UNCHANGED <<steady, unchecked>>

\* create_entity of one entity that exists answers as if it were created.
ReadExisting(q) ==
  /\ at[q] = "read"
  /\ IF Item(q).entity \in stored
     THEN Close(q, found[q])
     ELSE at' = [at EXCEPT ![q] = "insert"] /\ UNCHANGED <<next, written, aborted, found, steady, unchecked, saving>>
  /\ UNCHANGED <<rules, entityVars, rows, faults>>

StoreAll(q, E) ==
  /\ stored' = stored \cup E
  /\ storedBy' = [e \in Entities |-> IF e \in E THEN q ELSE storedBy[e]]

\* The transaction of one entity, which another request may have stored meanwhile.
Create(q) ==
  /\ at[q] = "insert" /\ q \notin Bulk
  /\ \/ /\ Item(q).entity \notin stored
        /\ \A p \in Requests : Item(q).entity \notin written[p]
        /\ StoreAll(q, {Item(q).entity}) /\ Close(q, found[q])
     \/ Item(q).entity \in stored /\ UNCHANGED entityVars /\ Close(q, {})
  /\ UNCHANGED <<rules, rows, faults>>

\* A request is refused for another reason, or its transaction fails.
CreateFails(q) ==
  /\ at[q] \in {"read", "insert"} /\ q \notin Bulk
  /\ Close(q, {})
  /\ UNCHANGED <<rules, entityVars, rows, faults>>

\* Two transactions wait for an entity of each other; the database ends one.
Deadlocked(q) ==
  \E p \in Bulk \ {q} :
    /\ at[p] = "insert" /\ p \notin aborted
    /\ Item(q).entity \in written[p] /\ Item(p).entity \in written[q]

\* An entity of a chunk.  An entity of another open transaction is waited for, and
\* after the first error of a transaction everything in it fails.
Insert(q) ==
  /\ at[q] = "insert" /\ q \in Bulk
  /\ LET e == Item(q).entity
     IN \/ /\ e \notin stored /\ q \notin aborted
           /\ \A p \in Requests : e \notin written[p]
           /\ written' = [written EXCEPT ![q] = @ \cup {e}]
           /\ UNCHANGED aborted
        \/ /\ e \in stored \cup written[q] \/ q \in aborted \/ Deadlocked(q)
           /\ aborted' = aborted \cup {q}
           /\ written' = [written EXCEPT ![q] = {}]
  /\ at' = [at EXCEPT ![q] = "check"] /\ next' = [next EXCEPT ![q] = @ + 1]
  /\ UNCHANGED <<rules, entityVars, found, steady, unchecked, saving, rows, faults>>

InsertFails(q) ==
  /\ at[q] = "insert" /\ q \in Bulk \ aborted
  /\ Fault
  /\ aborted' = aborted \cup {q}
  /\ written' = [written EXCEPT ![q] = {}]
  /\ at' = [at EXCEPT ![q] = "check"] /\ next' = [next EXCEPT ![q] = @ + 1]
  /\ UNCHANGED <<rules, entityVars, found, steady, unchecked, saving, rows>>

\* DEFECT: the violations are dropped.
CommitOnly(q) ==
  /\ at[q] = "check" /\ next[q] > Len(Chunk[q])
  /\ StoreAll(q, written[q])
  /\ Close(q, {})
  /\ UNCHANGED <<rules, rows, faults>>

\* The commit of a transaction that had an error is a rollback, which is no error.
Commit(q) ==
  /\ at[q] = "check" /\ next[q] > Len(Chunk[q])
  /\ StoreAll(q, written[q])
  /\ Close(q, found[q])
  /\ UNCHANGED <<rules, rows, faults>>

CommitFails(q) ==
  /\ at[q] = "check" /\ next[q] > Len(Chunk[q])
  /\ Close(q, {})
  /\ Fault
  /\ UNCHANGED <<rules, entityVars, rows>>

-----------------------------------------------------------------------------
(* The tasks in the background.                                            *)

Row(x) ==
  [id |-> <<x[1], x[2], x[3]>>, rule |-> x[3], snapshot |-> x[4],
   entity |-> Chunk[x[1]][x[2]].entity, resolver |-> None]

\* The keys of the row must still exist.
Save(x) ==
  /\ x \in saving
  /\ saving' = saving \ {x}
  /\ rows' = IF rules[x[3]] \in Definitions /\ Row(x).entity \in stored THEN rows \cup {Row(x)} ELSE rows
  /\ UNCHANGED <<rules, entityVars, requestVars, faults>>

\* An error, which is not tried again, or the answer of a statement that was
\* executed is lost.
SaveFails(x) ==
  /\ x \in saving
  /\ saving' = saving \ {x}
  /\ Fault
  /\ UNCHANGED <<rules, entityVars, requestVars, rows>>

\* The process stops: its requests and tasks are gone.
Crash ==
  /\ Fault
  /\ at' = [q \in Requests |-> IF at[q] = "new" THEN "new" ELSE "closed"]
  /\ written' = [q \in Requests |-> {}] /\ found' = [q \in Requests |-> {}]
  /\ next' = [q \in Requests |-> 1] /\ aborted' = {} /\ saving' = {}
  /\ UNCHANGED <<rules, entityVars, steady, unchecked, rows>>

-----------------------------------------------------------------------------
Served(q) ==
  \/ Receive(q) \/ Check(q) \/ ReadExisting(q) \/ Create(q) \/ Insert(q) \/ Commit(q)
  \/ CheckFails(q) \/ CreateFails(q) \/ InsertFails(q) \/ CommitFails(q)

Violation == UNION {{<<q, i, r, d>> : i \in DOMAIN Chunk[q], r \in Rules, d \in Definitions} : q \in Requests}

Next ==
  \/ \E r \in Rules : (\E d \in Definitions : CreateRule(r, d) \/ UpdateRule(r, d)) \/ DeleteRule(r)
  \/ \E ids \in SUBSET {v.id : v \in rows}, s \in Stewards : Resolve(ids, s)
  \/ \E e \in Entities : Erase(e)
  \/ \E q \in Requests : Served(q)
  \/ \E x \in saving : Save(x) \/ SaveFails(x)
  \/ Crash

Spec == Init /\ [][Next]_vars

-----------------------------------------------------------------------------
\* Violations are of entities that are stored and rules that exist.
TypeOK ==
  /\ rules \in [Rules -> Definitions \cup {None, Deleted}]
  /\ stored \subseteq Entities /\ storedBy \in [Entities -> Requests \cup {None}]
  /\ \A e \in Entities : e \in stored <=> storedBy[e] # None
  /\ \A q \in Requests :
       /\ at[q] \in {"new", "check", "read", "insert", "closed"}
       /\ next[q] \in 1..(Len(Chunk[q]) + 1)
       /\ written[q] \subseteq {Chunk[q][i].entity : i \in 1..(next[q] - 1)} \ stored
       /\ found[q] \subseteq Violation
  /\ saving \subseteq Violation
  /\ \A v \in rows : v.entity \in stored /\ (v.rule # None => rules[v.rule] \in Definitions)
  /\ \A v, w \in rows : v.id = w.id => v = w
  /\ unchecked \subseteq Requests /\ aborted \subseteq Bulk /\ faults \in 0..MaxFaults

Attributes(q, e) == {Chunk[q][i].attrs : i \in {j \in DOMAIN Chunk[q] : Chunk[q][j].entity = e}}

\* No rule that rejects or quarantines, and that was on and left alone while request q
\* was served, fires for these attributes.
Allowed(q, e, attrs) ==
  \A r \in Rules :
    LET d == steady[q][r]
    IN d \in Definitions /\ Applies(d, TypeOf[e]) /\ d.action \in {"reject", "quarantine"}
       => ~Fires(d, attrs, "answered")

\* What a request whose checks ran has stored was allowed by all the rules, whatever
\* happened between its check and its commit (the gate of entities.rs:101 and
\* entities.rs:273).
GateHolds ==
  \A e \in stored :
    LET q == storedBy[e]
    IN q \notin unchecked => \E attrs \in Attributes(q, e) : Allowed(q, e, attrs)

\* A violation that was saved shows the rule as it was when it fired, although the
\* rule has been edited or deleted since, and is never of a rule that blocks
\* (0013_quality_rules.sql:35).
SnapshotExplains ==
  \A v \in rows :
    /\ v.snapshot.action \in {"flag", "enrich"} /\ v.snapshot.active
    /\ LET attrs == Chunk[v.id[1]][v.id[2]].attrs
           failed == {c \in v.snapshot.conditions : ~Passes(c, attrs, "answered")}
       IN failed # {} /\ (v.snapshot.logicalOp = "OR" => failed = v.snapshot.conditions)

\* Without faults, the violations of an entity that is stored are in the rows or with a
\* task, for every rule that only flags and that stays as it is: only faults, the
\* erasure of the entity and the end of the rule lose one
\* (save_violations_background, data_quality_service.rs:571).
NoViolationLost ==
  \A e \in stored : LET q == storedBy[e] IN
    faults = 0 /\ at[q] = "closed" =>
      \A r \in Rules :
        LET d == steady[q][r]
            recorded == \E v \in rows : v.snapshot = d /\ v.entity = e /\ v.rule = r
            waiting == \E x \in saving : x[3] = r /\ x[4] = d /\ Chunk[x[1]][x[2]].entity = e
        IN /\ d \in Definitions /\ rules[r] = d
           /\ Applies(d, TypeOf[e]) /\ d.action \in {"flag", "enrich"}
           /\ \A attrs \in Attributes(q, e) : Fires(d, attrs, "answered")
           => recorded \/ waiting
=============================================================================
