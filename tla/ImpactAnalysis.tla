---------------------------- MODULE ImpactAnalysis ----------------------------
(***************************************************************************)
(* What a change of a symbol, file, field, table, risk or rule reaches in  *)
(* one project.  Names are sequences of parts (<<"erp", "Orders">>);       *)
(* quotes, brackets and letter case, which normalisation removes on both   *)
(* sides of every comparison, do not occur.  An index holds the rows the   *)
(* seven selects of loadProjectIndex return; they are not one transaction, *)
(* so a row may name another that is not there.                            *)
(*   files: [id, name, path]   symbols: [id, name, file, type, first, last]*)
(*   fields: [id, table, field]    uses: [symbol, field]                   *)
(*   deps: [source, target, external]   risks: [title, file, line]         *)
(*   rules: [texts, name, file, line, mentions]                            *)
(***************************************************************************)
EXTENDS Integers, Sequences, FiniteSets

CONSTANT Absent

LastOf(parts) == parts[Len(parts)]

(***************************************************************************)
(* Field identities: schema, table and field of a dotted name; the default *)
(* schema dbo is no schema.                                                *)
(***************************************************************************)
Identity(parts) ==
  [field  |-> LastOf(parts),
   table  |-> IF Len(parts) >= 2 THEN parts[Len(parts) - 1] ELSE Absent,
   schema |-> IF Len(parts) >= 3 /\ parts[Len(parts) - 2] # "dbo" THEN parts[Len(parts) - 2] ELSE Absent]

FieldIdentity(field) == Identity(Append(field.table, field.field))

(***************************************************************************)
(* What a target may stand for.                                            *)
(***************************************************************************)
MatchingSymbols(index, target) ==
  {symbol \in index.symbols : target \in {symbol.name, <<LastOf(symbol.name)>>}}

MatchingFiles(index, target) == {file \in index.files : target \in {file.name, file.path}}

MatchingRules(index, target) == {rule \in index.rules : target \in rule.texts \cup {rule.name}}

MatchingRisks(index, target) == {risk \in index.risks : risk.title = target}

MatchingSqlFields(index, target) ==
  LET wanted == Identity(target)
  IN  {field \in index.fields :
         LET found == FieldIdentity(field)
         IN  /\ wanted.table # Absent
             /\ found.table = wanted.table /\ found.field = wanted.field
             /\ Len(target) >= 3 => found.schema = wanted.schema}

MatchingSqlTable(index, target) ==
  LET wanted == Identity(Append(target, "placeholder"))
  IN  {field \in index.fields :
         LET found == FieldIdentity(field)
         IN  /\ found.table = wanted.table
             /\ Len(target) >= 2 => found.schema = wanted.schema}

TargetTypes == <<"sql_field", "symbol", "file", "sql_table", "risk", "rule">>

Matches(index, target, type) ==
  CASE type = "sql_field" -> MatchingSqlFields(index, target)
    [] type = "symbol" -> MatchingSymbols(index, target)
    [] type = "file" -> MatchingFiles(index, target)
    [] type = "sql_table" -> MatchingSqlTable(index, target)
    [] type = "risk" -> MatchingRisks(index, target)
    [] type = "rule" -> MatchingRules(index, target)

\* "auto" takes the first type that matches anything.
ResolvedType(index, target, type) ==
  LET Hit(n) == Matches(index, target, TargetTypes[n]) # {}
  IN  CASE type # "auto" -> IF Matches(index, target, type) # {} THEN type ELSE "auto"
        [] type = "auto" /\ \E n \in 1..6 : Hit(n) ->
             TargetTypes[CHOOSE n \in 1..6 : Hit(n) /\ \A m \in 1..(n - 1) : ~Hit(m)]
        [] OTHER -> "auto"

(***************************************************************************)
(* The rows around a symbol, a file and a line.                            *)
(***************************************************************************)
FileOf(index, symbol) == {file \in index.files : file.id = symbol.file}
Located(index, symbols) == {symbol \in symbols : FileOf(index, symbol) # {}}
PathOf(index, symbol) == (CHOOSE file \in FileOf(index, symbol) : TRUE).path

SymbolsOfFile(index, id) == {symbol \in index.symbols : symbol.file = id}
RulesOfFile(index, path) == {rule \in index.rules : rule.file = path}
RisksOfFile(index, path) == {risk \in index.risks : risk.file = path}

\* Variant for the mutants: only the calls a symbol makes.
CallsMade(index, symbols) ==
  {dep \in index.deps : dep.source \in {symbol.id : symbol \in symbols}}

DependenciesOf(index, symbols) ==
  {dep \in index.deps : {dep.source, dep.target} \cap {symbol.id : symbol \in symbols} # {}}

EndsOf(index, deps) ==
  {symbol \in index.symbols : \E dep \in deps : symbol.id \in {dep.source, dep.target}}

NameOf(index, id, otherwise) ==
  LET found == {symbol \in index.symbols : symbol.id = id}
  IN  IF found = {} THEN otherwise ELSE (CHOOSE symbol \in found : TRUE).name

DependencyChains(index, deps) ==
  {<<NameOf(index, dep.source, <<"symbol">>), NameOf(index, dep.target, dep.external)>> : dep \in deps}

AtLine(symbols, line) == {symbol \in symbols : symbol.first <= line /\ line <= symbol.last}

FilesAt(index, path) == {file \in index.files : file.path = path}

SymbolsIn(index, path) == UNION {SymbolsOfFile(index, file.id) : file \in FilesAt(index, path)}

SymbolsNearRule(index, rule) ==
  LET near == AtLine(SymbolsIn(index, rule.file), rule.line)
  IN  IF rule.line = Absent \/ near = {} THEN SymbolsIn(index, rule.file) ELSE near

SymbolsAtRisk(index, risk) ==
  IF risk.line = Absent THEN SymbolsIn(index, risk.file) ELSE AtLine(SymbolsIn(index, risk.file), risk.line)

(***************************************************************************)
(* The impact of each type of target.                                      *)
(***************************************************************************)
FieldPair(field) == Append(field.table, field.field)

\* A symbol whose file is not among the rows is left out.
SymbolsAndFiles(index, symbols, paths) ==
  [files   |-> {PathOf(index, symbol) : symbol \in Located(index, symbols)} \cup paths,
   symbols |-> {<<PathOf(index, symbol), symbol.name, symbol.type>> : symbol \in Located(index, symbols)},
   tables |-> {}, fields |-> {}, rules |-> {}, risks |-> {}, chains |-> {}]

Titles(risks) == {risk.title : risk \in risks}
Names(rules)  == {rule.name : rule \in rules}

UsedFields(index, uses) == {field \in index.fields : \E use \in uses : use.field = field.id}
Identities(fields) == {FieldIdentity(field) : field \in fields}

\* One chain per use whose symbol and field are both among the rows.
UseChains(index, uses) ==
  UNION {{<<symbol.name, FieldPair(field)>> :
            symbol \in {symbol \in index.symbols : symbol.id = use.symbol},
            field \in {field \in index.fields : field.id = use.field}} : use \in uses}

SymbolImpact(index, symbols) ==
  LET deps  == DependenciesOf(index, symbols)
      uses  == {use \in index.uses : use.symbol \in {symbol.id : symbol \in symbols}}
      paths == {PathOf(index, symbol) : symbol \in Located(index, symbols)}
  IN  [SymbolsAndFiles(index, symbols \cup EndsOf(index, deps), {}) EXCEPT
         !.tables = {field.table : field \in UsedFields(index, uses)},
         !.fields = Identities(UsedFields(index, uses)),
         !.rules  = Names(UNION {RulesOfFile(index, path) : path \in paths}),
         !.risks  = Titles(UNION {RisksOfFile(index, path) : path \in paths}),
         !.chains = DependencyChains(index, deps) \cup UseChains(index, uses)]

FileImpact(index, files) ==
  LET symbols == UNION {SymbolsOfFile(index, file.id) : file \in files}
      deps    == DependenciesOf(index, symbols)
      paths   == {file.path : file \in files}
  IN  [SymbolsAndFiles(index, symbols \cup EndsOf(index, deps), paths) EXCEPT
         !.rules  = Names(UNION {RulesOfFile(index, path) : path \in paths}),
         !.risks  = Titles(UNION {RisksOfFile(index, path) : path \in paths}),
         !.chains = DependencyChains(index, deps)
                    \cup (UNION {{<<file.name, rule.name>> : rule \in RulesOfFile(index, file.path)} : file \in files})
                    \cup UNION {{<<file.name, risk.title>> : risk \in RisksOfFile(index, file.path)} : file \in files}]

SqlImpact(index, fields) ==
  LET uses    == {use \in index.uses : use.field \in {field.id : field \in fields}}
      symbols == {symbol \in index.symbols : \E use \in uses : use.symbol = symbol.id}
      keys    == {<<FieldIdentity(field).table, field.field>> : field \in fields}
  IN  [SymbolsAndFiles(index, symbols, {}) EXCEPT
         !.tables = {field.table : field \in fields},
         !.fields = Identities(fields),
         !.rules  = Names({rule \in index.rules : rule.mentions \cap keys # {}}),
         !.chains = UseChains(index, uses)]

RiskImpact(index, risks) ==
  [SymbolsAndFiles(index, UNION {SymbolsAtRisk(index, risk) : risk \in risks},
                   {risk.file : risk \in risks} \ {Absent}) EXCEPT !.risks = Titles(risks)]

RuleImpact(index, rules) ==
  LET symbols == UNION {SymbolsNearRule(index, rule) : rule \in rules}
      paths   == {rule.file : rule \in rules} \ {Absent}
  IN  [SymbolsAndFiles(index, symbols, paths) EXCEPT
         !.rules  = Names(rules),
         !.risks  = Titles(UNION {RisksOfFile(index, path) : path \in paths}),
         !.chains = DependencyChains(index, DependenciesOf(index, symbols))]

ImpactOf(index, type, matched) ==
  CASE type = "symbol" -> SymbolImpact(index, matched)
    [] type = "file" -> FileImpact(index, matched)
    [] type \in {"sql_field", "sql_table"} -> SqlImpact(index, matched)
    [] type = "risk" -> RiskImpact(index, matched)
    [] type = "rule" -> RuleImpact(index, matched)

Analyze(index, target, type) ==
  LET resolved == ResolvedType(index, target, type)
  IN  IF resolved = "auto"
        THEN [type |-> type, resolved |-> FALSE, impact |-> SymbolsAndFiles(index, {}, {})]
        ELSE [type |-> resolved, resolved |-> TRUE,
              impact |-> ImpactOf(index, resolved, Matches(index, target, resolved))]
Size(impact) ==
  Cardinality(impact.files) + Cardinality(impact.symbols) + Cardinality(impact.tables)
  + Cardinality(impact.fields) + Cardinality(impact.rules) + Cardinality(impact.risks)

(***************************************************************************)
(* What the answers owe each other.                                        *)
(***************************************************************************)
Shown(index, symbol) == <<PathOf(index, symbol), symbol.name, symbol.type>>

AskSymbol(index, symbol) == Analyze(index, symbol.name, "symbol").impact

\* Whoever the change of a symbol reaches is reached back, whatever side of the
\* call it is on, if its name means only itself.
ReachIsMutual(index) ==
  \A one, other \in {symbol \in Located(index, index.symbols) : MatchingSymbols(index, symbol.name) = {symbol}} :
    Shown(index, other) \in AskSymbol(index, one).symbols
      => Shown(index, one) \in AskSymbol(index, other).symbols

\* A field and the symbols that use it name each other.
UsesAreMutual(index) ==
  \A use \in index.uses, symbol \in Located(index, index.symbols), field \in index.fields :
    use.symbol = symbol.id /\ use.field = field.id =>
      /\ FieldIdentity(field) \in AskSymbol(index, symbol).fields
      /\ Shown(index, symbol) \in Analyze(index, FieldPair(field), "sql_field").impact.symbols
      /\ Shown(index, symbol) \in Analyze(index, field.table, "sql_table").impact.symbols

\* A file's impact holds that of each of its symbols.
FilesCoverTheirSymbols(index) ==
  \A symbol \in Located(index, index.symbols) :
    SymbolImpact(index, {symbol}).symbols
      \subseteq Analyze(index, PathOf(index, symbol), "file").impact.symbols

\* "auto" answers like the type it finds, and gives up only when every type
\* would.
AutoIsSomeType(index, target) ==
  LET auto == Analyze(index, target, "auto")
  IN  IF auto.resolved THEN auto = Analyze(index, target, auto.type)
      ELSE \A n \in DOMAIN TargetTypes : ~Analyze(index, target, TargetTypes[n]).resolved
=============================================================================
