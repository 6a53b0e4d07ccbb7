----------------------------- MODULE SourceParsers -----------------------------
(***************************************************************************)
(* What the line parsers read from a Pascal, Go or SQL file.  A file is a  *)
(* record [path, language, ext, lines, ...]; a line is                     *)
(*   [kind, name, of, names, binds, opens, classes, closes, ends, fields,  *)
(*    sql]                                                                 *)
(* with what the line declares and its name (a sequence of parts), the     *)
(* kind of routine or the type it is declared with, the names it lists (a  *)
(* unit in a uses clause, a name before a parenthesis), the variables it   *)
(* gives a Go type, how many blocks it opens, says class (a class          *)
(* procedure does so too) and closes, whether it ends its clause, the      *)
(* dataset fields it touches and the columns its SQL touches.  Names the   *)
(* parsers know to be no calls do not occur, and the names of SQL objects  *)
(* are undotted.                                                           *)
(***************************************************************************)
EXTENDS DelphiSymbols, SequencesExt, TLC

CONSTANT Languages \* the language tags the parsers accept

BuildMetadata == {"dproj", "groupproj", "bdsproj", "cfg", "dof", "rc"}
Forms == {"dfm", "fmx"}
DelphiTags == {"delphi", "pas", "dpr", "inc", "dpk"} \cup Forms \cup BuildMetadata

IsLanguageSupported(language) == language \in Languages
IsDelphiLike(file) == {file.language, file.ext} \cap DelphiTags # {}

ParserOf(file) ==
  CASE file.language \in {"go", "sql"} -> file.language
    [] file.language \notin {"go", "sql"} /\ file.ext \in Forms -> "form"
    [] file.language \notin {"go", "sql"} /\ file.ext \in BuildMetadata -> "metadata"
    [] file.language \notin {"go", "sql"} /\ file.ext \notin Forms \cup BuildMetadata ->
         IF IsDelphiLike(file) THEN "delphi" ELSE "unsupported"

(***************************************************************************)
(* Symbols, in the order of the text.                                      *)
(***************************************************************************)
CreateSymbol(file, name, qualified, type, first, last) ==
  [key |-> <<file.path, IF qualified = None THEN <<name>> ELSE qualified, first>>, name |-> name,
   qualified |-> qualified, file |-> file.path, type |-> type, first |-> first, last |-> last, signature |-> None]

Qualified(file, name, type, first, last)   == CreateSymbol(file, Last(name), name, type, first, last)
Unqualified(file, name, type, first, last) == CreateSymbol(file, Last(name), None, type, first, last)

\* Variant for the mutants: a block ends where any block in it ends.
BlockEndAtFirstClose(opens, closes, start) ==
  FirstOr({i \in start..Len(closes) : closes[i] > 0}, start)

\* opens and closes count the blocks that each line opens and closes.
\* The line on which as many blocks have been closed as opened: the first after
\* the declaration, or the declaration's own if it opens one.
FindBlockEnd(opens, closes, start) ==
  LET Depth(last) == FoldLeftDomain(LAMBDA depth, i : depth + opens[i + start - 1] - closes[i + start - 1], 0,
                                    SubSeq(opens, start, last))
  IN  FirstOr({i \in start..Len(opens) : Depth(i) <= 0 /\ (i > start \/ opens[i] > 0)}, start)

Opens(lines)      == [n \in DOMAIN lines |-> lines[n].opens]
Closes(lines)     == [n \in DOMAIN lines |-> lines[n].closes]
ClassWords(lines) == [n \in DOMAIN lines |-> lines[n].classes]

DelphiType(line) ==
  CASE line.kind = "class" -> "class"
    [] line.kind = "routine" -> IF line.of \in {"constructor", "destructor"} \/ Len(line.name) > 1
                                  THEN "method" ELSE line.of

LinesOf(file, kinds) == {n \in DOMAIN file.lines : file.lines[n].kind \in kinds}

DelphiUnit(file) ==
  LET units == LinesOf(file, {"unit"})
  IN  IF units = {} THEN None ELSE file.lines[FirstOr(units, 0)].name

\* A uses clause runs to the line that ends it, or to the next section.
KeepsUses(line) == IF line.kind \in {"uses", "other"} THEN ~line.ends
                   ELSE line.kind \notin {"interface", "implementation", "closing"}
InUses(lines, n) ==
  \E first \in 1..n : lines[first].kind = "uses" /\ \A i \in first..(n - 1) : KeepsUses(lines[i])
UsesUnits(file) ==
  UNION {ToSet(file.lines[n].names) : n \in {m \in LinesOf(file, {"uses", "other"}) : InUses(file.lines, m)}}

\* One symbol for each line of these kinds, in their order.
NthOf(numbers, k) == CHOOSE n \in numbers : Cardinality({m \in numbers : m <= n}) = k
SymbolsWhere(file, kinds, SymbolAt(_)) ==
  [k \in 1..Cardinality(LinesOf(file, kinds)) |-> SymbolAt(NthOf(LinesOf(file, kinds), k))]

DelphiSymbolsOf(file) ==
  LET SymbolAt(n) ==
        LET line == file.lines[n]
            opens == IF line.kind = "class" THEN ClassWords(file.lines) ELSE Opens(file.lines)
            end   == FindBlockEnd(opens, Closes(file.lines), n)
        IN  Qualified(file, line.name, DelphiType(line), n, end)
      unit == DelphiUnit(file)
  IN  (IF unit = None THEN <<>> ELSE <<Qualified(file, unit, "class", 1, Len(file.lines))>>)
        \o SymbolsWhere(file, {"routine", "class"}, SymbolAt)

GoSymbolsOf(file) ==
  LET SymbolAt(n) ==
        LET line == file.lines[n]
        IN  IF line.kind = "class" THEN Unqualified(file, line.name, "class", n, n)
            ELSE Qualified(file, line.name, IF Len(line.name) > 1 THEN "method" ELSE "function", n,
                           FindBlockEnd(Opens(file.lines), Closes(file.lines), n))
  IN  SymbolsWhere(file, {"routine", "class"}, SymbolAt)

\* An SQL object is one line, whatever its body.
SqlSymbolsOf(file) ==
  LET SymbolAt(n) == Unqualified(file, file.lines[n].name, file.lines[n].kind, n, n)
  IN  SymbolsWhere(file, {"table", "procedure", "function", "query"}, SymbolAt)

(***************************************************************************)
(* Dependencies: [from, to, name, type, line], to None when the target is  *)
(* outside the project.                                                    *)
(***************************************************************************)
\* The one match in the owner's file, or the one match in the project.
ResolveDependencyTarget(owner, name, symbols) ==
  LET matches == {symbol \in ToSet(symbols) : symbol.name = name}
      near    == {symbol \in matches : symbol.file = owner.file}
  IN  CASE Cardinality(near) = 1 -> TheOne(near)
        [] Cardinality(near) # 1 /\ Cardinality(matches) = 1 -> TheOne(matches)
        [] OTHER -> None

Dependency(owner, target, type, line) ==
  IF target = None \/ target.key = owner.key THEN {}
  ELSE {[from |-> owner.key, to |-> target.key, name |-> PathOf(target), type |-> type, line |-> line]}

External(from, name, line) == [from |-> from, to |-> None, name |-> name, type |-> "references", line |-> line]

OnEachLine(file, At(_)) == UNION {At(n) : n \in DOMAIN file.lines}

\* The owner of a line is sought among the symbols of every file.
BuildCallDependencies(file, symbols) ==
  LET Calls(n) ==
        LET owner == MostSpecific(symbols, n, None)
        IN  IF owner = None \/ file.lines[n].kind = "uses" THEN {}
            ELSE UNION {Dependency(owner, ResolveDependencyTarget(owner, Last(name), symbols), "calls", n) :
                          name \in ToSet(file.lines[n].names)}
  IN  OnEachLine(file, Calls)

\* The units used are those of the first symbol given.
DelphiDependencies(file, symbols) ==
  LET from == IF symbols = <<>> THEN <<file.path, DelphiUnit(file), 1>> ELSE Head(symbols).key
  IN  BuildCallDependencies(file, symbols)
        \cup IF DelphiUnit(file) = None THEN {} ELSE {External(from, unit, 1) : unit \in UsesUnits(file)}

\* One map of variables for the whole file: the last type given wins.
CollectGoVariableTypes(file) ==
  FoldLeft(LAMBDA types, line :
             FoldLeft(LAMBDA known, bind : (bind.variable :> bind.type) @@ known, types, line.binds),
           <<>>, file.lines)

InImports(lines, n) ==
  \E first \in 1..n : lines[first].kind = "imports" /\ \A i \in first..n : lines[i].kind # "close"
CollectGoImports(file) ==
  {[name |-> file.lines[n].name, line |-> n] :
     n \in {m \in LinesOf(file, {"import", "path"}) :
              file.lines[m].kind = "import" \/ InImports(file.lines, m)}}

FirstSymbol(symbols, Fits(_)) ==
  LET fitting == {i \in DOMAIN symbols : Fits(symbols[i])}
  IN  IF fitting = {} THEN None ELSE symbols[FirstOr(fitting, 0)]

GoMethod(types, call, symbols) ==
  LET OfType(symbol) == symbol.type = "method" /\ call[1] \in DOMAIN types
                        /\ symbol.qualified = <<types[call[1]], call[2]>>
      OfName(symbol) == symbol.type = "method" /\ symbol.name = call[2]
      typed == FirstSymbol(symbols, OfType)
  IN  IF typed # None THEN typed ELSE FirstSymbol(symbols, OfName)

GoFunction(call, symbols) ==
  LET OfName(symbol) == symbol.type = "function" /\ symbol.name = call[1]
  IN  FirstSymbol(symbols, OfName)

GoDependencies(file, symbols) ==
  LET types == CollectGoVariableTypes(file)
      Target(n, call) ==
        CASE Len(call) = 2 -> GoMethod(types, call, symbols)
          [] Len(call) = 1 -> IF file.lines[n].kind = "routine" THEN None ELSE GoFunction(call, symbols)
      Calls(n) ==
        LET owner == MostSpecific(symbols, n, file.path)
        IN  IF owner = None THEN {}
            ELSE UNION {Dependency(owner, Target(n, call), "calls", n) : call \in ToSet(file.lines[n].names)}
  IN  OnEachLine(file, Calls)
        \cup IF symbols = <<>> THEN {}
             ELSE {External(Head(symbols).key, import.name, import.line) : import \in CollectGoImports(file)}

SqlDependencies(file, symbols) ==
  LET Executes(n) ==
        LET owner  == MostSpecific(symbols, n, file.path)
            target == ResolveDependencyTarget(owner, Last(Head(file.lines[n].names)), symbols)
        IN  IF owner = None \/ file.lines[n].names = <<>> \/ target = None THEN {}
            ELSE {[from |-> owner.key, to |-> target.key, name |-> PathOf(target), type |-> "references",
                   line |-> n]}
  IN  OnEachLine(file, Executes)

(***************************************************************************)
(* Field references: [table, field, type, file, line, symbol].             *)
(***************************************************************************)
\* FieldByName and ParamByName: a write if the value is assigned.
DatasetReferences(line) ==
  {[table |-> "delphi", field |-> field.name, type |-> IF field.written THEN "write" ELSE "read"] :
     field \in ToSet(line.fields)}

FieldReferencesOf(file, symbols) ==
  LET Found(line) == line.sql \cup (IF ParserOf(file) = "delphi" THEN DatasetReferences(line) ELSE {})
      References(n) ==
        LET owner == MostSpecific(symbols, n, file.path)
        IN  {[table |-> found.table, field |-> found.field, type |-> found.type, file |-> file.path,
              line |-> n, symbol |-> IF owner = None THEN None ELSE owner.key] : found \in Found(file.lines[n])}
  IN  IF ParserOf(file) \in {"delphi", "go", "sql"} THEN OnEachLine(file, References) ELSE {}

(***************************************************************************)
(* Warnings: [code, file, level, heuristic, about].  A file says of its    *)
(* text whether SQL is built from pieces, spans lines in a literal, spans  *)
(* lines without a semicolon, and whether it has a begin and an end.       *)
(***************************************************************************)
FileWarning(code, file, level) ==
  [code |-> code, file |-> file.path, level |-> level, heuristic |-> TRUE, about |-> None]

Flag(condition, code, file) == IF condition THEN {FileWarning(code, file, "warning")} ELSE {}

SqlHeuristicWarnings(file) ==
  Flag(file.multilineString, "SQL_STRING_MULTILINE", file)
    \cup Flag(file.dynamicSql, "SQL_DYNAMIC_STRING", file)

SqlWarnings(file) ==
  SqlHeuristicWarnings(file) \cup Flag(file.unterminated, "SQL_STATEMENT_MULTILINE", file)

DelphiWarnings(file) ==
  SqlHeuristicWarnings(file)
    \cup Flag(~file.hasBlocks, "DELPHI_BLOCK_UNBALANCED", file)
    \cup Flag(DelphiUnit(file) = None, "DELPHI_UNIT_NOT_FOUND", file)
    \cup Flag(file.ext \in {"inc", "dpk"}, "DELPHI_LIMITED_ANALYSIS", file)
    \cup {FileWarning("HEURISTIC_ANALYSIS", file, "note")}

UnsupportedWarnings(file) == {FileWarning("LANGUAGE_UNSUPPORTED", file, "warning")}
MetadataWarnings(file)    == {FileWarning("IMPORT_BUILD_METADATA", file, "note")}
=============================================================================
