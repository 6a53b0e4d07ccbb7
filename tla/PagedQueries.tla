------------------------------ MODULE PagedQueries ------------------------------
(***************************************************************************)
(* The pages of the rows an analysis has found, and the snapshot on the    *)
(* overview, read by a request statement by statement while the worker may *)
(* commit another analysis.  Every query exists twice: in memory, where    *)
(* the rows are loaded, filtered, sorted and cut, and in SQL, where the    *)
(* database does that in several statements.                               *)
(*                                                                         *)
(* Names, paths and contexts are numbers in their order of collation; a    *)
(* search is the set of those that contain its text, empty for none.       *)
(***************************************************************************)
EXTENDS Presentation

CONSTANTS Databases,   \* what an analysis may leave in the tables
          Inputs,      \* the requests for pages
          MaxReplaced  \* bound on the analyses that commit meanwhile

ASSUME PagedConstants == MaxReplaced \in Nat

(***************************************************************************)
(* What the schema guarantees of the rows: they have keys, and refer to    *)
(* rows that are there.  A key is never used again.                        *)
(***************************************************************************)
FileRow    == [id : Nat, name : Nat]
SymbolRow  == [id : Nat, name : Nat, type : STRING, file : Nat, line : Nat]
FieldRow   == [id : Nat, table : Nat, name : Nat]
UseRow     == [id : Nat, field : Nat, symbol : Nat, line : Nat, op : {"read", "write", "calculate"}, context : Nat]
DependencyRow == [id : Nat, from : Nat, to : Nat, type : STRING, line : Nat, external : Nat, kind : STRING]
FindingRow == [text : Nat, file : [path : Nat, folded : Nat], line : Nat, severity : Nat]

Ids(rows) == {row.id : row \in rows}
HaveKeys(rows) == IsFiniteSet(rows) /\ \A row, other \in rows : row.id = other.id => row = other
TablesHold(db) ==
  /\ db.files \subseteq FileRow /\ HaveKeys(db.files)
  /\ db.symbols \subseteq SymbolRow /\ HaveKeys(db.symbols)
  /\ db.fields \subseteq FieldRow /\ HaveKeys(db.fields)
  /\ db.fieldDependencies \subseteq UseRow /\ HaveKeys(db.fieldDependencies)
  /\ db.dependencies \subseteq DependencyRow /\ HaveKeys(db.dependencies)
  /\ db.risks \in Seq(FindingRow) /\ db.rules \in Seq(FindingRow)
  /\ \A s \in db.symbols : s.file \in Ids(db.files)
  /\ \A d \in db.fieldDependencies : d.field \in Ids(db.fields) /\ d.symbol \in Ids(db.symbols)
  /\ \A d \in db.dependencies : d.from \in Ids(db.symbols)
NamesStay(rows, later) == \A row \in rows, other \in later : row.id = other.id => row.name = other.name

ASSUME PagedDatabases ==
  \A db \in Databases :
    /\ TablesHold(db)
    /\ \A later \in Databases : NamesStay(db.files, later.files) /\ NamesStay(db.symbols, later.symbols)

VARIABLES tables,   \* the rows of the project
          asked,    \* the tables when the request came
          input,    \* the request
          step,     \* the statement the request is at
          read,     \* what its statements have returned
          answer,   \* the page
          replaced  \* analyses committed so far

pageVars == <<tables, asked, input, step, read, answer, replaced>>

Paged   == {"symbols", "fields", "fieldDependencies"}  \* LIMIT and OFFSET in SQL
GroupedKinds == {"risks", "rules"}                     \* grouped in memory
PageKinds == Paged \cup GroupedKinds \cup {"dependencies"}
\* The filters of all kinds of pages: none accepts a set that is empty.  only: the
\* type or operation asked for; target: the targetKind; texts: the texts of the
\* type of risk or rule; files: the normalised paths with the text of filePath;
\* hide: hideStandardLibrary or hideDuplicates.
ASSUME PagedInputs ==
  \A in \in Inputs : in.kind \in PageKinds =>
    in \in [kind : PageKinds, search : SUBSET Nat, table : Nat, only : SUBSET STRING, target : SUBSET STRING,
            texts : SUBSET Nat, severity : 0..Critical, critical : BOOLEAN, files : SUBSET Nat,
            hide : BOOLEAN, page : Int, pageSize : Int]
NoPage == [items |-> <<>>, total |-> 0, page |-> 0, pageSize |-> 0, pageCount |-> 0]
NoRead == [files |-> {}, fields |-> {}, symbols |-> {}, total |-> 0, rows |-> <<>>]

(***************************************************************************)
(* Pages.                                                                  *)
(***************************************************************************)
MaxPageSize == 100
PageCountOf(total, size) == (total + size - 1) \div size

\* Variant for the mutants: the offset counts the page before the first.
PaginationFromZero(page, pageSize, total) ==
  LET size == Min({Max({pageSize, 1}), MaxPageSize})
      pageCount == PageCountOf(total, size)
      safe == IF pageCount = 0 THEN 1 ELSE Min({Max({page, 1}), pageCount})
  IN [page |-> safe, pageSize |-> size, pageCount |-> pageCount, offset |-> safe * size]
NormalizePagination(page, pageSize, total) ==
  LET size == Min({Max({pageSize, 1}), MaxPageSize})
      pageCount == PageCountOf(total, size)
      safe == IF pageCount = 0 THEN 1 ELSE Min({Max({page, 1}), pageCount})
  IN [page |-> safe, pageSize |-> size, pageCount |-> pageCount, offset |-> (safe - 1) * size]

PageFrom(items, total, pages) ==
  [items |-> items, total |-> total, page |-> pages.page,
   pageSize |-> pages.pageSize, pageCount |-> pages.pageCount]
Cut(rows, pages) ==
  SubSeq(rows, pages.offset + 1, Min({pages.offset + pages.pageSize, Len(rows)}))
PaginateItems(items, page, pageSize) ==
  LET pages == NormalizePagination(page, pageSize, Len(items))
  IN PageFrom(Cut(items, pages), Len(items), pages)

(***************************************************************************)
(* Sorting, naming and matching.                                           *)
(***************************************************************************)
RankOf(kind, row) ==
  CASE kind = "symbols"           -> <<row.name, row.file, row.line, row.id>>
    [] kind = "fields"            -> <<row.table, row.name, row.id, 0>>
    [] kind = "fieldDependencies" -> <<row.field, row.symbol, row.line, row.id>>
    [] kind = "dependencies"      -> <<row.from, row.to, row.line, row.id>>
InOrder(kind, rows) ==
  Sorted(SetToSeq(rows), LAMBDA left, right :
    Before([i \in 1..4 |-> <<RankOf(kind, left)[i], RankOf(kind, right)[i]>>], left, right))

InOrderOfIds(rows) == Sorted(SetToSeq(rows), LAMBDA left, right : left.id < right.id)

\* The row with an id among those loaded, and what stands for one that is
\* not there: nothing, or a text made of the id.  Variant for the mutants: the
\* first row that was loaded.
LookupFirst(rows, id, column, fallback) ==
  IF rows # {} THEN (CHOOSE row \in rows : \A other \in rows : row.id <= other.id)[column] ELSE fallback
Lookup(rows, id, column, fallback) ==
  IF \E row \in rows : row.id = id THEN (CHOOSE row \in rows : row.id = id)[column] ELSE fallback
NameIn(rows, id, fallback) == Lookup(rows, id, "name", fallback)
NameOfMissing(id) == -id

UsesOf(deps, fieldId, ops) == Cardinality({d \in deps : d.field = fieldId /\ d.op \in ops})
Usage(deps, fieldId) ==
  [readCount |-> UsesOf(deps, fieldId, {"read"}), writeCount |-> UsesOf(deps, fieldId, {"write"}),
   referenceCount |-> UsesOf(deps, fieldId, {"read", "write", "calculate"})]

\* buildDependencyListItems and the mapping of the other kinds of rows: the
\* names are taken from whatever rows were loaded.
Named(kind, row, db) ==
  CASE kind = "symbols" -> [id |-> row.id, shown |-> NameIn(db.files, row.file, Absent)]
    [] kind = "fields"  -> [id |-> row.id, shown |-> Usage(db.fieldDependencies, row.id)]
    [] kind = "fieldDependencies" ->
         [id |-> row.id, shown |-> <<Lookup(db.fields, row.field, "table", Absent),
                                     NameIn(db.fields, row.field, Absent),
                                     NameIn(db.symbols, row.symbol, NameOfMissing(row.symbol))>>]
    [] kind = "dependencies" ->
         [id |-> row.id, external |-> row.external, kind |-> row.kind,
          shown |-> NameIn(db.symbols, row.from, NameOfMissing(row.from)),
          targetName |-> NameIn(db.symbols, row.to, Absent)]

\* What the search and the filters of the in-memory query look at.
Hits(in, texts) == in.search = {} \/ texts \cap in.search # {}
IsAskedFor(in, type) == in.only = {} \/ type \in in.only
MatchesInMemory(in, row, db) ==
  LET item == Named(in.kind, row, db)
  IN CASE in.kind = "symbols" -> IsAskedFor(in, row.type) /\ Hits(in, {row.name, item.shown})
       [] in.kind = "fields"  -> Hits(in, {row.table, row.name}) /\ in.table \in {Absent, row.table}
       [] in.kind = "fieldDependencies" ->
            /\ in.table \in {Absent, item.shown[1]} /\ IsAskedFor(in, row.op)
            /\ Hits(in, {item.shown[1], item.shown[2], item.shown[3], row.context})
       [] in.kind = "dependencies" ->
            /\ IsAskedFor(in, row.type) /\ (in.target = {} \/ row.kind \in in.target)
            /\ ~(in.hide /\ IsDelphiStandardLibrary(TargetName(item)))
            /\ Hits(in, {item.shown, item.targetName, row.external})

RowsOf(kind, db) ==
  CASE kind = "symbols" -> db.symbols
    [] kind = "fields" -> db.fields
    [] kind = "fieldDependencies" -> db.fieldDependencies
    [] kind = "dependencies" -> db.dependencies

FilterOf(in) ==
  [severity |-> in.severity, critical |-> in.critical, types |-> in.texts,
   files |-> in.files, search |-> in.search, hideDuplicates |-> in.hide]
Findings(in, db) == IF in.kind = "risks" THEN db.risks ELSE db.rules

\* sortProjectRisks and sortProjectRules; rows that tie stay in the order of their ids.
RiskFirst(left, right) ==
  Before(<< <<-left.severity, -right.severity>>, <<TitleOf(left.text), TitleOf(right.text)>>,
            <<left.file.path, right.file.path>>, <<left.line, right.line>> >>, left, right)
RuleFirst(left, right) ==
  Before(<< <<left.text, right.text>>, <<left.file.path, right.file.path>>, <<left.line, right.line>> >>, left, right)
InReportOrder(in, rows) == IF in.kind = "risks" THEN Sorted(rows, RiskFirst) ELSE Sorted(rows, RuleFirst)

\* In memory the rows are sorted before they are grouped; those read with SQL are
\* grouped as they come, which the model takes to be the order of their ids.
GroupsInMemory(in, db) == GroupRows(InReportOrder(in, Findings(in, db)), FilterOf(in))
GroupsInSql(in, db)    == GroupRows(Findings(in, db), FilterOf(in))

\* The items of a query on tables that do not change under it.
ItemsInMemory(in, db) ==
  IF in.kind \in GroupedKinds THEN GroupsInMemory(in, db)
  ELSE SeqMap(InOrder(in.kind, {row \in RowsOf(in.kind, db) : MatchesInMemory(in, row, db)}),
              LAMBDA row : Named(in.kind, row, db))
PageInMemory(in, db) == PaginateItems(ItemsInMemory(in, db), in.page, in.pageSize)

(***************************************************************************)
(* The statements of the SQL query.                                        *)
(***************************************************************************)
IdsWhere(rows, Test(_)) == {row.id : row \in {r \in rows : Test(r)}}

\* The ids whose names match are fetched first: they stand for the joins.
MatchingFiles(in, db) == IF in.search = {} THEN {} ELSE IdsWhere(db.files, LAMBDA f : f.name \in in.search)
MatchingSymbols(in, db) == IF in.search = {} THEN {} ELSE IdsWhere(db.symbols, LAMBDA s : s.name \in in.search)
MatchingFields(in, db) ==
  IF in.search = {} THEN {} ELSE IdsWhere(db.fields, LAMBDA f : {f.table, f.name} \cap in.search # {})
TableFields(in, db) == IdsWhere(db.fields, LAMBDA f : f.table = in.table)

\* Variant for the mutants: the names of symbols are not searched.
WhereWithoutSymbols(in, row, found) ==
  CASE in.kind = "symbols" -> IsAskedFor(in, row.type) /\ (Hits(in, {row.name}) \/ row.file \in found.files)
    [] in.kind = "fields"  -> Hits(in, {row.table, row.name}) /\ in.table \in {Absent, row.table}
    [] in.kind = "fieldDependencies" ->
         /\ IsAskedFor(in, row.op) /\ (in.table = Absent \/ row.field \in found.tableFields)
         /\ Hits(in, {row.context}) \/ row.field \in found.fields
WhereCondition(in, row, found) ==
  CASE in.kind = "symbols" -> IsAskedFor(in, row.type) /\ (Hits(in, {row.name}) \/ row.file \in found.files)
    [] in.kind = "fields"  -> Hits(in, {row.table, row.name}) /\ in.table \in {Absent, row.table}
    [] in.kind = "fieldDependencies" ->
         /\ IsAskedFor(in, row.op) /\ (in.table = Absent \/ row.field \in found.tableFields)
         /\ Hits(in, {row.context}) \/ row.field \in found.fields \/ row.symbol \in found.symbols
Selected(in, db, found) == {row \in RowsOf(in.kind, db) : WhereCondition(in, row, found)}

PageInit ==
  /\ tables \in Databases /\ asked = tables
  /\ input \in Inputs
  /\ step = "match" /\ read = NoRead /\ answer = NoPage /\ replaced = 0

ReadsOnly == UNCHANGED <<tables, asked, input, replaced>>

MatchNames ==
  /\ step = "match" /\ input.kind \in Paged
  /\ read' = [files |-> MatchingFiles(input, tables), symbols |-> MatchingSymbols(input, tables),
              fields |-> MatchingFields(input, tables), tableFields |-> TableFields(input, tables),
              total |-> 0, rows |-> <<>>]
  /\ IF input.kind = "fieldDependencies" /\ input.table # Absent /\ TableFields(input, tables) = {}
       THEN step' = "done" /\ answer' = PaginateItems(<<>>, input.page, input.pageSize)
       ELSE step' = "count" /\ UNCHANGED answer
  /\ ReadsOnly

CountMatches ==
  /\ step = "count"
  /\ read' = [read EXCEPT !.total = Cardinality(Selected(input, tables, read))]
  /\ step' = "select"
  /\ UNCHANGED answer /\ ReadsOnly

SelectPage ==
  /\ step = "select"
  /\ read' = [read EXCEPT !.rows = Cut(InOrder(input.kind, Selected(input, tables, read)),
                                       NormalizePagination(input.page, input.pageSize, read.total))]
  /\ step' = "names"
  /\ UNCHANGED answer /\ ReadsOnly

LoadNames ==
  /\ step = "names" /\ input.kind \in Paged
  /\ answer' = PageFrom(SeqMap(read.rows, LAMBDA row : Named(input.kind, row, tables)), read.total,
                        NormalizePagination(input.page, input.pageSize, read.total))
  /\ step' = "done"
  /\ UNCHANGED read /\ ReadsOnly

\* Risks and rules are read in one statement and grouped in memory.
GroupedPage ==
  /\ step = "match" /\ input.kind \in GroupedKinds
  /\ answer' = PaginateItems(GroupsInSql(input, tables), input.page, input.pageSize)
  /\ step' = "done"
  /\ UNCHANGED read /\ ReadsOnly

\* Dependencies are read without an ORDER BY: the model takes the order of
\* their ids, which is that of the index they are found by.
SelectDependencies ==
  /\ step = "match" /\ input.kind = "dependencies"
  /\ read' = [read EXCEPT !.rows = InOrderOfIds(tables.dependencies)]
  /\ step' = "names"
  /\ UNCHANGED answer /\ ReadsOnly

DependencyPage ==
  /\ step = "names" /\ input.kind = "dependencies"
  /\ answer' = PaginateItems(SeqMap(Filtered(read.rows, LAMBDA row : MatchesInMemory(input, row, tables)),
                                    LAMBDA row : Named("dependencies", row, tables)),
                             input.page, input.pageSize)
  /\ step' = "done"
  /\ UNCHANGED read /\ ReadsOnly

\* An analysis or an import commits: all rows go, others come, with new ids.
ReplaceTables ==
  /\ replaced < MaxReplaced
  /\ input.kind \in PageKinds \cup {"snapshot"}
  /\ \E db \in Databases \ {tables} : tables' = db
  /\ replaced' = replaced + 1
  /\ UNCHANGED <<asked, input, step, read, answer>>

(***************************************************************************)
(* The overview: fifteen statements at once, then two that load the names  *)
(* of what they have found.  Each sees the tables before or after an       *)
(* analysis that commits meanwhile: seen says which.                       *)
(***************************************************************************)
TopRows == 10
Tables(rows) == {row.table : row \in rows}
OfTable(deps, rows, table, ops) ==
  Cardinality({d \in deps : d.op \in ops /\ \E f \in rows : f.id = d.field /\ f.table = table})
FieldTable(count, deps, rows, table) ==
  [fieldCount |-> count, readCount |-> OfTable(deps, rows, table, {"read"}),
   writeCount |-> OfTable(deps, rows, table, {"write"}),
   referenceCount |-> OfTable(deps, rows, table, {"read", "write", "calculate"})]

\* In memory the counts of a table are summed up field by field; in SQL they
\* come from a GROUP BY of the fields and one of the join.
FieldTablesInMemory(db) ==
  LET fieldsOf(table) == {f \in db.fields : f.table = table}
      sum(table, ops) == MapThenSumSet(LAMBDA f : UsesOf(db.fieldDependencies, f.id, ops), fieldsOf(table))
  IN [table \in Tables(db.fields) |->
       [fieldCount |-> Cardinality(fieldsOf(table)),
        readCount |-> sum(table, {"read"}), writeCount |-> sum(table, {"write"}),
        referenceCount |-> sum(table, {"read", "write", "calculate"})]]
FieldTablesInSql(counted, joined) ==
  LET used == {f.table : f \in {g \in joined.fields : \E d \in joined.fieldDependencies : d.field = g.id}}
  IN [table \in Tables(counted.fields) \cup used |->
       FieldTable(Cardinality({f \in counted.fields : f.table = table}),
                  joined.fieldDependencies, joined.fields, table)]

Top(rows) == SubSeq(rows, 1, Min({TopRows, Len(rows)}))
TotalsOf(seen) ==
  [files |-> Cardinality(seen.files.files), symbols |-> Cardinality(seen.symbols.symbols),
   fields |-> Cardinality(seen.fields.fields), dependencies |-> Cardinality(seen.deps.dependencies),
   risks |-> Len(seen.risks.risks), rules |-> Len(seen.rules.rules)]
SnapshotFrom(seen, db, fieldTables) ==
  [totals |-> TotalsOf(seen),
   topSymbols |-> SeqMap(Top(InOrder("symbols", seen.topSymbols.symbols)), LAMBDA row : Named("symbols", row, db)),
   riskGroups |-> GroupRows(seen.risks.risks, NoFilter), ruleGroups |-> GroupRows(seen.rules.rules, NoFilter),
   topAffectedFiles |-> SummarizeAffectedFiles(GroupRows(seen.risks.risks, NoFilter),
                                               GroupRows(seen.rules.rules, NoFilter)),
   dependencySummary |-> BuildDependencySummary(
     SeqMap(InOrder("dependencies", seen.deps.dependencies), LAMBDA row : Named("dependencies", row, db))),
   warningSummary |-> SummarizeWarnings(db.warnings),
   partialReasons |-> SummarizePartialReasons(db.warnings, FALSE),
   fieldTables |-> fieldTables]

Statements == {"files", "symbols", "fields", "deps", "risks", "rules", "topSymbols", "tableCounts", "tableUsage"}
AllOf(db) == [s \in Statements |-> db]
SnapshotInMemory(db) == SnapshotFrom(AllOf(db), db, FieldTablesInMemory(db))

SnapshotQuery ==
  /\ step = "match" /\ input.kind = "snapshot"
  /\ \E seen \in [Statements -> {asked, tables}] :
       answer' = SnapshotFrom(seen, tables, FieldTablesInSql(seen.tableCounts, seen.tableUsage))
  /\ step' = "done"
  /\ UNCHANGED read /\ ReadsOnly

PageNext ==
  \/ SnapshotQuery
  \/ MatchNames \/ CountMatches \/ SelectPage \/ LoadNames
  \/ GroupedPage \/ SelectDependencies \/ DependencyPage \/ ReplaceTables

PageSpec == PageInit /\ [][PageNext]_pageVars

-----------------------------------------------------------------------------
(***************************************************************************)
(* Properties.                                                             *)
(***************************************************************************)
\* What is told of a group, or of an occurrence, whatever order its rows came in;
\* its place, its samples and how many files it claims depend on that order.
Told(in, group) ==
  IF in.hide THEN <<group.text, group.severity, group.count>>
             ELSE <<group.text, group.file.folded, group.line, group.severity, group.count>>
SameFindings(in, db) ==
  {Told(in, group) : group \in ToSet(GroupsInSql(in, db))} = {Told(in, group) : group \in ToSet(GroupsInMemory(in, db))}

\* With nothing committed meanwhile, the statements in the database answer as
\* the query in memory does, which is the one the tests exercise: the ids that
\* stand for the joins and the counts lose and add nothing.  Risks and rules are
\* grouped in another order there: they make the same groups of the same severity
\* and count, and the pages agree on both from place to place, although groups
\* that tie may change places and the samples they show are others.  The
\* dependencies come in another order.
SqlAnswersLikeMemory ==
  step = "done" /\ replaced = 0 =>
    LET wanted == PageInMemory(input, tables)
        SamePage == [answer EXCEPT !.items = <<>>] = [wanted EXCEPT !.items = <<>>]
    IN CASE input.kind = "snapshot" -> answer = SnapshotInMemory(tables)
         [] input.kind = "dependencies" -> SamePage /\ Len(answer.items) = Len(wanted.items)
         [] input.kind \in GroupedKinds ->
              /\ SamePage /\ SameFindings(input, tables)
              /\ SeqMap(answer.items, Severity) = SeqMap(wanted.items, Severity)
              /\ SeqMap(answer.items, Count) = SeqMap(wanted.items, Count)
         [] OTHER -> answer = wanted

\* Turning the pages from 1 to pageCount shows every item once and in order,
\* whatever page size a client asks for.
PagesPartitionItems ==
  input.kind \in PageKinds =>
    LET page(n) == PageInMemory([input EXCEPT !.page = n], asked)
    IN FlattenSeq([n \in 1..page(1).pageCount |-> page(n).items]) = ItemsInMemory(input, asked)

\* A page that an analysis overtakes shows rows of one analysis only, and next
\* to a row the names of that analysis or none: ids are never used again.
OvertakenPageNamesItsRows ==
  step = "done" /\ input.kind \in {"symbols", "dependencies"} =>
    \E db \in Databases : \A item \in ToSet(answer.items) :
      \E row \in RowsOf(input.kind, db) :
        /\ row.id = item.id
        /\ item.shown \in {Named(input.kind, row, db).shown, Absent} \cup
                         (IF input.kind = "symbols" THEN {} ELSE {NameOfMissing(row.from)})
=============================================================================
