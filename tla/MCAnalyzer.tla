------------------------------ MODULE MCAnalyzer ------------------------------
(***************************************************************************)
(* Model checking of ProjectAnalysis on small projects, and of the pure    *)
(* parts of the analyzer, each on inputs of its own, which are chosen at   *)
(* the start and never change.                                             *)
(***************************************************************************)
EXTENDS AnalyzerParts, FormTrees

Sql    == INSTANCE SqlReferences WITH Nothing <- None
Build  == INSTANCE BuildDoctor WITH StandardUnits <- {"SysUtils"}, StandardPackages <- {"rtl"}

UpToOne(set) == {{}} \cup {{element} : element \in set}

(***************************************************************************)
(* Projects.                                                               *)
(***************************************************************************)
Other == [kind |-> "other", name |-> <<>>, of |-> None, names |-> <<>>, binds |-> <<>>, opens |-> 0,
          classes |-> 0, closes |-> 0, ends |-> FALSE, fields |-> <<>>, sql |-> {}, marks |-> {}]
Line(kind, name) == [Other EXCEPT !.kind = kind, !.name = name]
Begin == [Other EXCEPT !.opens = 1]
End   == [Other EXCEPT !.closes = 1]
Calling(names) == [Other EXCEPT !.names = names]
Touching(field, written) == [Other EXCEPT !.fields = <<[name |-> field, written |-> written]>>]
Marked(marks) == [Other EXCEPT !.marks = marks]

FileOfLines(path, ext, lines) ==
  [path |-> path, language |-> ext, ext |-> ext, lines |-> lines, multilineString |-> FALSE,
   dynamicSql |-> FALSE, unterminated |-> FALSE, hasBlocks |-> TRUE]

Total == <<"orders", "total">>
Routine(name, of, body) ==
  <<[Line("routine", name) EXCEPT !.of = of], Begin>> \o body \o <<End>>

PascalUnit ==
  FileOfLines("u.pas", "pas",
    <<Line("unit", <<"U">>), [Line("uses", <<>>) EXCEPT !.names = <<<<"V">>>>, !.ends = TRUE]>>
      \o Routine(<<"TForm", "Save">>, "procedure",
                 <<Calling(<<<<"Store">>>>), Touching(Total, TRUE),
                   [Calling(<<<<"Store">>>>) EXCEPT !.marks = {"number", "amount"}]>>)
      \o Routine(<<"Store">>, "procedure", <<Touching(Total, TRUE), Marked({"number"})>>))
OtherUnit ==
  FileOfLines("v.pas", "pas", Routine(<<"Store">>, "function",
    <<Touching(Total, FALSE), Marked({"except"}), [Marked({"endLine"}) EXCEPT !.closes = 1]>>))
GoFile ==
  [FileOfLines("m.go", "go",
     <<Line("import", <<"fmt">>), Line("class", <<"Server">>),
       [Line("routine", <<"main">>) EXCEPT !.opens = 1],
       [Other EXCEPT !.binds = <<[variable |-> "s", type |-> "Server"]>>],
       Calling(<<<<"s", "Run">>, <<"helper">>>>), End,
       [Line("routine", <<"Server", "Run">>) EXCEPT !.opens = 1], End,
       [Line("routine", <<"Client", "Run">>) EXCEPT !.opens = 1], End,
       [Line("routine", <<"helper">>) EXCEPT !.opens = 1],
       [Other EXCEPT !.sql = {[table |-> "orders", field |-> <<"total", "net">>, type |-> "write"]}], End>>)
     EXCEPT !.dynamicSql = TRUE]
SqlFile ==
  FileOfLines("s.sql", "sql",
    <<Line("procedure", <<"Post">>), [Calling(<<<<"Store">>>>) EXCEPT !.kind = "other"],
      [Line("query", <<"Q">>) EXCEPT !.names = <<<<"Post">>>>,
         !.sql = {[table |-> "orders", field |-> <<"total", "net">>, type |-> "calculate"]},
         !.marks = {"unguarded"}]>>)
FormFile(handler, open) ==
  FileOfLines("u.dfm", "dfm",
    <<FormLine("object", "Form1", "TForm"),
      FormLine("object", "Grid", "TDBGrid"), FormLine("property", "DataSource", "Source"),
      FormLine("event", "OnClick", handler), FormLine("end", None, None),
      [FormLine("object", "Source", "TDataSource") EXCEPT !.marks = {"component"}], FormLine("property", "DataSet", "Query"),
      FormLine("end", None, None)>>
      \o IF open THEN <<>> ELSE <<FormLine("end", None, None)>>)
Metadata   == FileOfLines("p.dproj", "dproj", <<>>)
Unknown    == FileOfLines("r.txt", "txt", <<>>)

ProjectFiles == {PascalUnit, OtherUnit, GoFile, SqlFile, Metadata, Unknown,
                 FormFile("Save", FALSE), FormFile("Load", TRUE)}
FileLists ==
  {files \in [1..1 -> ProjectFiles] \cup [1..2 -> ProjectFiles] : Cardinality({file.path : file \in ToSet(files)}) = Len(files)}
    \cup {<<SqlFile, PascalUnit, OtherUnit>>, <<GoFile, Unknown, Metadata>>}

ImportWarning == AboutFile("IMPORT_LIMITED_ANALYSIS", "u.pas", "warning", None)

ProjectInputs ==
  [kind : {"project"}, files : FileLists, imports : {{}, {ImportWarning}}, long : {{}, {"flow", "rules"}}]

(***************************************************************************)
(* SQL: lists, names, bodies, lines and statements.                        *)
(***************************************************************************)
Elements == {<<"a">>, <<"f", "(", "a", ",", "b", ")">>, <<"'", ",", "'">>, <<"'", "'", "'", ",", "'">>,
             <<"[", "]">>, <<"\"", ")", "\"">>, <<"(", "'", "(", "'", ")">>}
NameParts == {<<"a">>, <<"[", "a", "]">>, <<"[", "a", ".", "]">>, <<"\"", "a", ".", "b", "\"">>, <<"back", "b", "back">>}
TextLines == {line \in [blank : BOOLEAN, starts : BOOLEAN, ends : BOOLEAN] :
                line.blank => ~line.starts /\ ~line.ends}

ListInputs == {[kind |-> "list", files |-> <<>>, list |-> list] : list \in BoundedSeq(Elements, 3)}
NameInputs == {[kind |-> "name", files |-> <<>>, parts |-> parts] : parts \in BoundedSeq(NameParts, 3)}
LineInputs == {[kind |-> "lines", files |-> <<>>, lines |-> lines] : lines \in BoundedSeq(TextLines, 3)}

Mention(table, alias) == [table |-> table, alias |-> alias]
Item(owner, name) == [owner |-> owner, name |-> name, sort |-> "column"]
SomeItems == {Item(None, "total"), Item("o", "id"), Item("orders", "id"), Item("c", "name")}

Plain(kind, target, sources) ==
  [kind |-> kind, target |-> target, sources |-> sources, inner |-> <<>>, columns |-> <<>>,
   assigned |-> {}, expressions |-> {}, predicates |-> {}, ctes |-> <<>>]

Orders  == Mention("orders", "o")
Clients == Mention("clients", "c")
NoMention == Mention(None, None)

Selects ==
  {[Plain("select", NoMention, sources) EXCEPT !.expressions = expressions, !.predicates = predicates,
                                               !.inner = inner] :
     sources \in {<<Orders, Clients>>, <<Clients, Orders>>}, expressions \in UpToOne(SomeItems),
     predicates \in UpToOne(SomeItems), inner \in {<<>>, <<Mention("items", "i")>>}}
Updates ==
  {[Plain("update", target, sources) EXCEPT
      !.assigned = {[left |-> left, right |-> right]}, !.predicates = predicates] :
     target \in {Mention("orders", "o"), Mention("orders", None), Mention("o", None)},
     sources \in {<<Clients, Orders>>}, left \in {Item(None, "total"), Item("o", "total")}, right \in UpToOne(SomeItems), predicates \in UpToOne(SomeItems)}
Deletes ==
  {[Plain("delete", Mention(target, None), <<Orders, Clients>>) EXCEPT !.predicates = predicates] :
     target \in {"orders", "o"}, predicates \in UpToOne(SomeItems)}
Inserts ==
  {[Plain("insert", Mention("items", None), <<Orders, Clients>>) EXCEPT
      !.columns = columns, !.expressions = expressions] :
     columns \in {<<"id">>, <<"id", "net">>}, expressions \in UpToOne(SomeItems)}

Statements == Selects \cup Updates \cup Deletes \cup Inserts
              \cup {[select EXCEPT !.ctes = <<Plain("select", NoMention, <<Mention("items", "i")>>)>>] :
                      select \in Selects}
StatementInputs == {[kind |-> "statement", files |-> <<>>, statement |-> statement] : statement \in Statements}

\* What is cut from a text is what was written, and what is drawn from a statement
\* is what it says, but for two forms the code misreads.  Lists split at their own
\* commas only; a table keeps its name however it is quoted, and a column its name
\* unless marks at both its ends belong to two parts; statements are whole runs of
\* lines; references name tables, with writes only to the table the statement
\* changes, and no alias but that which an UPDATE names as its target
\* (parser.ts, splitSqlList to parseSqlReference).
SqlIsReadAsWritten ==
  CASE input.kind = "list"  -> Sql!ListIsReadBack(input.list) /\ Sql!BodyIsWhole(input.list)
    [] input.kind = "name"  -> Sql!TableNameIsReadBack(input.parts) /\ Sql!FieldNamesAreReadBack(input.parts)
    [] input.kind = "lines" -> Sql!StatementsAreRuns(input.lines)
    [] input.kind = "statement" -> Sql!ReferencesNameTables(input.statement)
    [] OTHER -> TRUE

(***************************************************************************)
(* Forms and programs.  A program is [class, routines, other]: a class     *)
(* "none", "plain", or with a class procedure; routines, each with its     *)
(* body, whether it is declared in the interface too, and whether          *)
(* variables come before its first begin; and the line of another file on  *)
(* which a routine of two lines starts, or 0.                              *)
(***************************************************************************)
Node(name, class, own, columns, closed, children) ==
  [name |-> name, class |-> class, own |-> own, columns |-> columns, closed |-> closed, children |-> children]
Handles == FormLine("event", "OnClick", "Save")
Source  == FormLine("property", "DataSource", "Source")
Field(name) == FormLine("property", "FieldName", name)
ReadOnly(value) == FormLine("property", "ReadOnly", value)

Grids == {Node("Grid", "TDBGrid", own, columns, closed, <<>>) :
            own \in {<<>>, <<Source>>, <<Handles, ReadOnly("False"), Source>>}, closed \in BOOLEAN,
            columns \in {<<>>, <<<<Field("id")>>>>, <<<<Field("id"), ReadOnly("True")>>, <<Field("name")>>>>}}
Panels == {Node("Panel", "TPanel", own, <<>>, TRUE, children) :
             own \in {<<>>, <<Handles>>}, children \in BoundedSeq(Grids, 1)}
FormTrees == {Node("Form1", "TForm", <<Handles>>, <<>>, TRUE, children) :
                children \in BoundedSeq(Panels \cup Grids, 1) \cup {<<p, g>> : p \in Panels, g \in Grids}
                              \cup {<<g, p>> : p \in Panels, g \in Grids}}
FormInputs == {[kind |-> "form", files |-> <<>>, form |-> tree] : tree \in FormTrees}

Names == <<"One", "Two", "Three">>
CallsTo(n) == IF n = 0 THEN <<>> ELSE <<Calling(<<<<Names[n]>>>>)>>
Simple(a) == <<Begin>> \o CallsTo(a) \o <<End>>
Nested(a, b, c) == <<Begin>> \o CallsTo(a) \o <<Begin>> \o CallsTo(b) \o <<End>> \o CallsTo(c) \o <<End>>
Bodies == {Simple(a) : a \in 0..3} \cup {Nested(a, b, c) : a \in 0..1, b \in 0..2, c \in 0..3}

Bodied(declared, variables, body) == [declared |-> declared, variables |-> variables, body |-> body]
Program(class, routines, other) == [class |-> class, routines |-> routines, other |-> other]
Programs ==
  {Program("none", <<Bodied(FALSE, FALSE, one), Bodied(FALSE, FALSE, two)>>, 0) : one, two \in Bodies}
    \cup {Program(class, routines, other) :
             class \in {"none", "plain", "static"}, other \in {0, 4, 8},
             routines \in {routines \in [1..2 -> [declared : BOOLEAN, variables : BOOLEAN,
                                                 body : {Simple(1), Nested(2, 3, 1)}]] :
                             routines[1].declared => ~routines[2].declared}}
ProgramInputs == {[kind |-> "program", files |-> <<>>, program |-> program] : program \in Programs}

Heading(n) == [Line("routine", <<Names[n]>>) EXCEPT !.of = "procedure"]
ClassLine  == [Line("class", <<"TMisc">>) EXCEPT !.classes = 1]
ClassLines(class) ==
  CASE class = "none" -> <<>>
    [] class = "plain" -> <<ClassLine, End>>
    [] class = "static" ->
         <<ClassLine, [Line("routine", <<"Make">>) EXCEPT !.of = "procedure", !.classes = 1], End>>
Declarations(routines) ==
  FlattenSeq([n \in DOMAIN routines |-> IF routines[n].declared THEN <<Heading(n)>> ELSE <<>>])
RoutineLines(routines, n) ==
  <<Heading(n)>> \o (IF routines[n].variables THEN <<Other>> ELSE <<>>) \o routines[n].body

ClassEnd(program)  == 1 + Len(ClassLines(program.class))
Preamble(program)  == <<Line("unit", <<"U">>)>> \o ClassLines(program.class) \o Declarations(program.routines)
LinesBefore(program, m) ==
  Preamble(program) \o FlattenSeq([n \in 1..(m - 1) |-> RoutineLines(program.routines, n)])
LinesOfProgram(program) == LinesBefore(program, Len(program.routines) + 1)
OtherLines(line) == [n \in 1..(line - 1) |-> Other] \o <<Heading(3), [Begin EXCEPT !.closes = 1]>>

FirstAt(program, m) == Len(LinesBefore(program, m)) + 1
LastAt(program, m)  == Len(LinesBefore(program, m + 1))

\* What the ranges are: a routine with variables before its first begin is its heading
\* and the line after it, and a class with a class procedure goes on to the end after
\* its own.
RoutineEnd(program, m) == IF program.routines[m].variables THEN FirstAt(program, m) + 1 ELSE LastAt(program, m)
ClassRange(program) ==
  LET ends == {n \in DOMAIN LinesOfProgram(program) : LinesOfProgram(program)[n].closes = 1}
  IN  CASE program.class = "none"   -> {}
        [] program.class = "plain"  -> 2..ClassEnd(program)
        [] program.class = "static" -> 2..FirstOr({n \in ends : n > ClassEnd(program)}, 0)

\* Who a line of the routine m is said to belong to: a routine of another file that
\* has these lines and is shorter, the routine itself, the class or the unit.
TellerOf(program, m, n) ==
  CASE program.other # 0 /\ n \in {program.other, program.other + 1} -> <<"v.pas", <<"Three">>, program.other>>
    [] ~(program.other # 0 /\ n \in {program.other, program.other + 1}) /\ n <= RoutineEnd(program, m) ->
         <<"u.pas", <<Names[m]>>, FirstAt(program, m)>>
    [] OTHER -> IF n \in ClassRange(program) THEN <<"u.pas", <<"TMisc">>, 2>> ELSE <<"u.pas", <<"U">>, 1>>

\* Whom a name calls: nobody if it is declared too, which every routine of an
\* interface is.
CalledBy(program, name) ==
  IF name = <<"Three">> THEN IF program.other = 0 THEN {} ELSE {<<"v.pas", name, program.other>>}
  ELSE {<<"u.pas", name, FirstAt(program, m)>> :
          m \in {k \in DOMAIN program.routines : <<Names[k]>> = name /\ ~program.routines[k].declared}}

\* Routines have the lines they were written with, and the calls between them are
\* those in their bodies, however blocks nest, up to what the ranges misread.
CallsStayWithTheirRoutine(program) ==
  LET file    == FileOfLines("u.pas", "pas", LinesOfProgram(program))
      other   == FileOfLines("v.pas", "pas", IF program.other = 0 THEN <<>> ELSE OtherLines(program.other))
      symbols == DelphiSymbolsOf(file) \o DelphiSymbolsOf(other)
      calls   == {dependency \in DelphiDependencies(file, symbols) : dependency.type = "calls"}
      Ranges(name, first) == {symbol.last : symbol \in {s \in ToSet(symbols) : s.key = <<"u.pas", <<name>>, first>>}}
      Told(m) == UNION {{<<TellerOf(program, m, n), called>> : called \in
                           UNION {CalledBy(program, name) : name \in ToSet(file.lines[n].names)}} :
                          n \in FirstAt(program, m)..LastAt(program, m)}
      told    == UNION {Told(m) : m \in DOMAIN program.routines}
  IN  /\ \A m \in DOMAIN program.routines :
           Ranges(Names[m], FirstAt(program, m)) = {RoutineEnd(program, m)}
      /\ {<<call.from, call.to>> : call \in calls} = {pair \in told : pair[1] # pair[2]}

\* A form is read with the nesting it was written with, though one with a list of
\* columns that closes at the end of a line is called unbalanced.  A unit is read
\* with its routines and their calls, where it is as the ranges suppose: variables
\* before a routine's first begin, a class procedure or a short routine on the same
\* lines of another file give calls to another symbol, and a name that is declared
\* twice is not found (parseDfmContent, findBlockEnd, buildCallDependencies).
FilesAreReadAsWritten ==
  CASE input.kind = "form"    -> FormObjectsNest(input.form)
    [] input.kind = "program" -> CallsStayWithTheirRoutine(input.program)
    [] OTHER -> TRUE

(***************************************************************************)
(* Indexes of stored rows, and targets of an impact analysis.              *)
(***************************************************************************)
IndexFiles == {[id |-> 1, name |-> <<"a">>, path |-> <<"src", "a">>], [id |-> 2, name |-> <<"b">>, path |-> <<"b">>]}
SymbolRow(id, name, file, first) ==
  [id |-> id, name |-> name, file |-> file, type |-> "method", first |-> first, last |-> first + 3]
IndexSymbols == {SymbolRow(1, <<"TForm", "Save">>, 1, 1), SymbolRow(2, <<"Store">>, 2, 1),
                 SymbolRow(3, <<"Load">>, 3, 1), SymbolRow(4, <<"Save">>, 2, 6)}
IndexFields == {[id |-> 1, table |-> <<"dbo", "orders">>, field |-> "total"],
                [id |-> 2, table |-> <<"erp", "orders">>, field |-> "total"],
                [id |-> 3, table |-> <<"clients">>, field |-> "total"]}
Dep(source, target, external) == [source |-> source, target |-> target, external |-> external]
IndexRule == [texts |-> {<<"one", "owner">>}, name |-> <<"owner">>, file |-> <<"src", "a">>, line |-> 2,
              mentions |-> {<<"orders", "total">>}]
IndexRisk(line) == [title |-> <<"writes">>, file |-> <<"b">>, line |-> line]

Indexes ==
  {[files |-> IndexFiles, symbols |-> symbols, fields |-> IndexFields, uses |-> uses, deps |-> deps,
    rules |-> {IndexRule}, risks |-> {IndexRisk(7)}] :
     symbols \in {IndexSymbols, {symbol \in IndexSymbols : symbol.id # 2}},
     uses \in SUBSET {[symbol |-> 1, field |-> 1], [symbol |-> 2, field |-> 2], [symbol |-> 3, field |-> 3]},
     deps \in SUBSET {Dep(1, 2, None), Dep(2, 1, None), Dep(2, 3, None), Dep(1, None, <<"X">>), Dep(4, 2, None)}}
Targets == {<<"Save">>, <<"owner">>, <<"b">>, <<"orders">>, <<"dbo", "orders", "total">>, <<"writes">>, <<"gone">>}
IndexInputs == {[kind |-> "index", files |-> <<>>, index |-> index, targets |-> Targets] : index \in Indexes}

(***************************************************************************)
(* Build trees.                                                            *)
(***************************************************************************)
Ref(segments) == [absolute |-> FALSE, macro |-> FALSE, segments |-> segments]
References == {Ref(<<"U.pas">>), Ref(<<"..", "U.pas">>), Ref(<<".", "sub", "..", "U.pas">>),
               [Ref(<<"U.pas">>) EXCEPT !.absolute = TRUE], [Ref(<<"U.pas">>) EXCEPT !.macro = TRUE]}
BuildFile(path, stem, ext) ==
  [path |-> path, stem |-> stem, ext |-> ext, unit |-> None, uses |-> {}, explicit |-> {}, resources |-> {},
   package |-> None, requires |-> {}, defines |-> {}, search |-> {}, include |-> {}, output |-> {},
   runtime |-> {}, members |-> {}, evidence |-> {}, readable |-> TRUE]
Directories == {<<>>, <<"src">>}
Mains ==
  {[BuildFile(directory \o <<"Main.dpr">>, "Main", "dpr") EXCEPT
      !.explicit = {[unit |-> "U", path |-> path] : path \in paths}, !.uses = uses, !.resources = resources] :
     directory \in Directories, paths \in UpToOne(References), uses \in UpToOne({"U", "SysUtils"}),
     resources \in {{}, {Ref(<<"M.res">>)}}}
Units == {[BuildFile(directory \o <<"U.pas">>, "U", "pas") EXCEPT !.unit = unit] :
            directory \in Directories, unit \in {None, "V"}}
Packages == {BuildFile(directory \o <<"P.dpk">>, "P", "dpk") : directory \in Directories}
PackageAt(path) == [name |-> "P", stem |-> "P", path |-> path]
Required == {PackageAt(None), PackageAt(Ref(<<"P.dpk">>)), PackageAt(Ref(<<"..", "P.dpk">>)),
             [PackageAt(None) EXCEPT !.name = "P.Data"]}
Metadatas ==
  {[BuildFile(directory \o <<"Main.dproj">>, "Main", "dproj") EXCEPT
      !.requires = requires, !.evidence = {"VER"}, !.readable = readable, !.search = {Ref(<<"..">>)}] :
     directory \in Directories, readable \in BOOLEAN,
     requires \in UpToOne(Required) \cup {{PackageAt(None), PackageAt(Ref(<<"P.dpk">>))}}}
Groups == {[BuildFile(<<"All.groupproj">>, "All", "groupproj") EXCEPT
              !.members = {Ref(<<"src", "Main.dproj">>), Ref(<<"Main.dproj">>), Ref(<<".", "Main.dproj">>)}]}
BuildTrees == {main \cup units : main \in UpToOne(Mains), units \in SUBSET Units}
              \cup {project \cup packages \cup group : project \in UpToOne(Metadatas), packages \in SUBSET Packages,
                                                       group \in UpToOne(Groups)}
BuildInputs == {[kind |-> "build", files |-> <<>>, tree |-> tree] : tree \in BuildTrees}

\* The audit is about places: moving the import changes nothing, only files that
\* are not imported block a build, and a local package is where every reference
\* to it says (buildDoctor.ts, resolveRelativePath and the package resolutions).
AuditFollowsTheTree ==
  input.kind = "build" =>
    /\ Build!MovingChangesNothing(input.tree) /\ Build!BlockersAreMissingFiles(input.tree)
    /\ Build!LocalPackagesAreThere(input.tree)

(***************************************************************************)
(* Archives and repositories.                                              *)
(***************************************************************************)
Segment(stem, upper, ext) == [stem |-> stem, upper |-> upper, ext |-> ext]
Folder(stem) == Segment(stem, FALSE, "")
Entry(root, path, kind, size, legacy) ==
  [root |-> root, path |-> path, kind |-> kind, declared |-> size, size |-> size, legacy |-> legacy]
FileEntry(path, size, legacy) == Entry("none", path, "file", size, legacy)
UnitPath(upper) == <<Segment("unit", upper, "pas")>>

ImportedEntries ==
  {FileEntry(UnitPath(upper), size, FALSE) : upper \in BOOLEAN, size \in 1..3}
    \cup {Entry("slash", UnitPath(FALSE), "file", 1, FALSE), Entry("here", UnitPath(FALSE), "file", 1, FALSE),
          Entry("none", <<Folder("..")>> \o UnitPath(FALSE), "file", 1, FALSE),
          Entry("none", UnitPath(TRUE), "outside", 1, FALSE), Entry("none", <<Folder("src")>>, "directory", 0, FALSE),
          [FileEntry(<<Folder("src")>> \o UnitPath(FALSE), 3, FALSE) EXCEPT !.declared = 0],
          [FileEntry(<<Folder("src")>> \o UnitPath(FALSE), 1, FALSE) EXCEPT !.declared = 2],
          FileEntry(<<Folder("dist")>> \o UnitPath(FALSE), 1, FALSE),
          FileEntry(<<Folder(".next")>> \o UnitPath(FALSE), 1, FALSE),
          FileEntry(<<Segment("form", FALSE, "dfm")>>, 2, TRUE), FileEntry(<<Segment("query", FALSE, "sql")>>, 2, FALSE),
          FileEntry(<<Segment("app", FALSE, "ts")>>, 1, FALSE), FileEntry(<<Segment("notes", FALSE, "md")>>, 1, FALSE),
          FileEntry(<<Segment(".env", FALSE, "pas")>>, 1, FALSE),
          FileEntry(<<Segment("MyApp.Environment", FALSE, "pas")>>, 1, FALSE),
          FileEntry(<<Folder(".environments")>> \o UnitPath(FALSE), 1, FALSE),
          FileEntry(<<Segment("", FALSE, "sql")>>, 1, FALSE)}
MCEnvironmentNames == {<<".env", "pas">>, <<"MyApp.Environment", "pas">>, <<".environments", "">>}
MCImportLimits == [entries |-> 4, files |-> 3, single |-> 2, total |-> 4]

ImportInputs ==
  {[kind |-> "import", files |-> <<>>, entries |-> entries] : entries \in BoundedSeq(ImportedEntries, 3)}
    \cup {[kind |-> "import", files |-> <<>>, entries |-> <<FileEntry(<<Segment("query", FALSE, "sql")>>, 1, FALSE),
                                                           FileEntry(<<Segment("form", FALSE, "dfm")>>, 1, TRUE)>>
                                                          \o entries] : entries \in [1..2 -> ImportedEntries]}
(***************************************************************************)
(* The instance.                                                           *)
(***************************************************************************)
MCUnitOf == [path \in {"u.pas", "v.pas", "u.dfm"} |-> IF path = "v.pas" THEN "v" ELSE "u"]
MCCollation == <<<<"Form1">>, <<"Form1", "Grid", "OnClick">>, <<"helper">>, <<"main">>, <<"Make">>, <<"One">>,
                 <<"Post">>, <<"Q">>, <<"Server">>, <<"Server", "Run">>, <<"Store">>, <<"TForm", "Save">>,
                 <<"Three">>, <<"TMisc">>, <<"Two">>, <<"U">>>>
MCLanguages == KnownTypes \cup BuildMetadata

MCInputs == ProjectInputs \cup ListInputs \cup NameInputs \cup LineInputs \cup StatementInputs
              \cup FormInputs \cup ProgramInputs \cup IndexInputs \cup BuildInputs \cup ImportInputs
=============================================================================
