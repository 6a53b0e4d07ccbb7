----------------------------- MODULE SqlReferences -----------------------------
(***************************************************************************)
(* Which columns of which tables a statement reads and writes, which       *)
(* columns a table has, and the evidence that is kept of a statement.      *)
(*                                                                         *)
(* A statement is                                                          *)
(*   [kind, target, sources, inner, columns, assigned, expressions,        *)
(*    predicates, ctes]                                                    *)
(* with the mentions [table, alias] of its target, of its sources and of   *)
(* the sources of subqueries in its predicates, the columns an INSERT      *)
(* lists, the assignments [left, right] of an UPDATE, and the bodies of    *)
(* its common table expressions.  An identifier in an expression is        *)
(* [owner, name, sort]: the sort, column, call or parameter, is what it    *)
(* means, of which the parser sees only the parenthesis after a call.      *)
(***************************************************************************)
EXTENDS SqlText, TLC

CONSTANT Nothing \* no owner, no alias, no table

(***************************************************************************)
(* Tables and aliases, in the order of the text: a later mention of a name *)
(* overrides an earlier one.                                               *)
(***************************************************************************)
Mentions(statement) ==
  (IF statement.kind \in {"insert", "update"} THEN <<statement.target>> ELSE <<>>)
    \o statement.sources \o statement.inner

AliasMap(statement) ==
  FoldLeft(LAMBDA aliases, mention :
             (IF mention.alias = Nothing THEN <<>> ELSE mention.alias :> mention.table)
               @@ (mention.table :> mention.table) @@ aliases,
           <<>>, Mentions(statement))

TableNamed(name, aliases) == IF name \in DOMAIN aliases THEN aliases[name] ELSE name

\* The table of the first source, if there is one.
FirstSource(statement) == IF statement.sources = <<>> THEN Nothing ELSE Head(statement.sources).table

\* DELETE o FROM orders o names its target by the alias.
ResolveDeleteWriteTable(statement) == TableNamed(statement.target.table, AliasMap(statement))

PrimaryTable(statement) ==
  CASE statement.kind = "update" -> statement.target.table
    [] statement.kind = "delete" -> ResolveDeleteWriteTable(statement)
    [] OTHER -> FirstSource(statement)

(***************************************************************************)
(* Identifiers.                                                            *)
(***************************************************************************)
Reference(table, field, type) == [table |-> table, field |-> field, type |-> type]

\* Variant for the mutants: the owner is taken for a table.
OwnerAsWritten(item, primary, aliases, type) ==
  CASE item.owner # Nothing -> {Reference(item.owner, item.name, type)}
    [] item.owner = Nothing /\ primary # Nothing /\ item.name \notin DOMAIN aliases ->
         {Reference(primary, item.name, type)}
    [] OTHER -> {}

\* Nothing, for a name that is an alias or has no table to belong to.
ResolveSqlFieldTarget(item, primary, aliases, type) ==
  CASE item.owner # Nothing -> {Reference(TableNamed(item.owner, aliases), item.name, type)}
    [] item.owner = Nothing /\ primary # Nothing /\ item.name \notin DOMAIN aliases ->
         {Reference(primary, item.name, type)}
    [] OTHER -> {}

ReadsOf(statement, items) ==
  UNION {ResolveSqlFieldTarget(item, PrimaryTable(statement), AliasMap(statement), "read") : item \in items}

\* In an expression a name before a parenthesis is a function; in a predicate
\* it is not told apart from a column.
ExpressionReads(statement, items) == ReadsOf(statement, {item \in items : item.sort # "call"})
PredicateReads(statement) == ReadsOf(statement, statement.predicates)

(***************************************************************************)
(* Statements.  An INSERT whose columns are not listed is read as its      *)
(* SELECT.                                                                 *)
(***************************************************************************)
InsertReferences(statement) ==
  {Reference(statement.target.table, column, "write") : column \in ToSet(statement.columns)}
    \cup (IF statement.sources = <<>> THEN {}
          ELSE ExpressionReads(statement, statement.expressions) \cup PredicateReads(statement))

AssignedReferences(statement, assignment) ==
  ResolveSqlFieldTarget(assignment.left, PrimaryTable(statement), AliasMap(statement), "write")
    \cup ExpressionReads(statement, assignment.right)

UpdateReferences(statement) ==
  (UNION {AssignedReferences(statement, assignment) : assignment \in statement.assigned}) \cup PredicateReads(statement)

DeleteReferences(statement) ==
  {Reference(ResolveDeleteWriteTable(statement), "*", "write")} \cup PredicateReads(statement)

SelectReferences(statement) ==
  IF statement.sources = <<>> THEN {}
  ELSE ExpressionReads(statement, statement.expressions) \cup PredicateReads(statement)

MainReferences(statement) ==
  CASE statement.kind = "insert" /\ statement.columns # <<>> -> InsertReferences(statement)
    [] statement.kind = "update" -> UpdateReferences(statement)
    [] statement.kind = "delete" -> DeleteReferences(statement)
    [] OTHER -> SelectReferences(statement)

ParseSqlReference(statement) ==
  (UNION {MainReferences(body) : body \in ToSet(statement.ctes)}) \cup MainReferences(statement)

(***************************************************************************)
(* The evidence of a statement: the tables after FROM, JOIN, UPDATE and    *)
(* INTO all take the operation its first word tells.                       *)
(***************************************************************************)
OperationForSql(statement) == IF statement.ctes # <<>> THEN "unknown" ELSE statement.kind

TableOperation(operation) ==
  CASE operation = "select" -> "read"
    [] operation \in {"insert", "update", "delete"} -> "write"
    [] OTHER -> "unknown"

CollectTables(statement) ==
  UNION {{mention.table : mention \in ToSet(Mentions(body))} : body \in ToSet(statement.ctes) \cup {statement}}

CollectSqlEvidence(statement) ==
  [operation |-> OperationForSql(statement),
   tables    |-> {[name |-> table, operation |-> TableOperation(OperationForSql(statement))] :
                    table \in CollectTables(statement)},
   fields    |-> ParseSqlReference(statement)]

(***************************************************************************)
(* The columns of CREATE TABLE.  A definition is [name, constraint, key,   *)
(* keyColumns]: keyColumns are those of PRIMARY KEY (...), key says that   *)
(* the column is marked itself.                                            *)
(***************************************************************************)
KeyColumns(definitions) == UNION {definition.keyColumns : definition \in ToSet(definitions)}

ParseSqlSchemaFields(definitions) ==
  {[field |-> definition.name, primaryKey |-> definition.key \/ definition.name \in KeyColumns(definitions)] :
     definition \in {d \in ToSet(definitions) : d.keyColumns = {} /\ ~d.constraint}}

(***************************************************************************)
(* What the references owe the statement.                                  *)
(***************************************************************************)
TablesOf(statement) ==
  UNION {{mention.table : mention \in ToSet(Mentions(body))} : body \in ToSet(statement.ctes) \cup {statement}}

\* The table an UPDATE or a DELETE changes, that of the mention its target is
\* an alias of.
TrueTarget(statement) ==
  LET known == {mention \in ToSet(statement.sources) : mention.alias = statement.target.table}
  IN  IF known = {} THEN statement.target.table ELSE (CHOOSE mention \in known : TRUE).table

\* UPDATE o SET ... FROM orders o names its target by the alias, and here the alias
\* does pass for a table.
AliasAsTarget(statement) ==
  IF statement.kind = "update" THEN {statement.target.table} \ {TrueTarget(statement)} ELSE {}

\* No other alias passes for a table, and this one only of the columns without an
\* owner; only the target is written, and what is only compared is only read; every
\* qualified column of the statement is there, under its table.
ReferencesNameTables(statement) ==
  LET references == ParseSqlReference(statement)
      written(ref) == ref.type = "write"
      alias == AliasAsTarget(statement)
      items == statement.predicates \cup statement.expressions
                 \cup UNION {assignment.right : assignment \in statement.assigned}
      ownerless == {item \in items \cup {a.left : a \in statement.assigned} : item.owner = Nothing}
  IN  /\ \A ref \in references :
           \/ ref.table \in TablesOf(statement) \ alias
           \/ ref.table \in alias /\ \E item \in ownerless : item.name = ref.field
      /\ \A ref \in references : written(ref) => ref.table \in {TrueTarget(statement)} \cup alias
      /\ statement.kind = "select" => ~\E ref \in references : written(ref)
      /\ \A item \in items, mention \in ToSet(Mentions(statement)) :
           item.owner # Nothing /\ item.owner = mention.alias =>
             Reference(mention.table, item.name, "read") \in references
=============================================================================
