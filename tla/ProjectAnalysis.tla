---------------------------- MODULE ProjectAnalysis ----------------------------
(***************************************************************************)
(* One analysis of a project, from its files to the rows that are stored.  *)
(* Each file is read on its own; a file whose parser fails is skipped with *)
(* a warning.  Then the calls of each file that was read are sought among  *)
(* the symbols of all of them, the result is summed up, the warnings of    *)
(* the import are added, documents too long for their column are cut, and  *)
(* the result is stored, unless nothing was analyzed or a parser fails on  *)
(* the way.                                                                *)
(*                                                                         *)
(* An input is [files, imports, long]: the files, in order, the warnings   *)
(* of the import and the documents that will be too long.                  *)
(***************************************************************************)
EXTENDS AnalysisConfidence, DfmForms

CONSTANT Inputs

(***************************************************************************)
(* What there is to analyze (projectAnalysisRunner.ts): files whose paths  *)
(* differ and whose language is their extension, and import warnings, all  *)
(* of level "warning".  What the patterns of the parsers match has a name, *)
(* a Pascal routine is of one of four kinds or is qualified, and a call in *)
(* Go has at most a receiver.                                              *)
(***************************************************************************)
IsList(list) == list \in Seq(ToSet(list))
NamedKinds == {"unit", "routine", "class", "table", "procedure", "function", "query", "import", "path"}
RoutineKinds == {"procedure", "function", "constructor", "destructor"}

IsLine(line) ==
  /\ line.kind \in NamedKinds => line.name # <<>>
  /\ IsList(line.names) /\ <<>> \notin ToSet(line.names)
  /\ IsList(line.fields) /\ IsFiniteSet(line.sql)

IsSource(file) ==
  /\ file.language = file.ext /\ IsList(file.lines)
  /\ ParserOf(file) \in {"delphi", "go", "sql"} => \A line \in ToSet(file.lines) : IsLine(line)
  /\ ParserOf(file) = "delphi" => \A line \in ToSet(file.lines) :
                                    line.kind = "routine" => line.of \in RoutineKinds \/ Len(line.name) > 1
  /\ ParserOf(file) = "go" => \A line \in ToSet(file.lines) : \A name \in ToSet(line.names) : Len(name) \in {1, 2}

ASSUME AnalyzedLanguages == DelphiTags \cup {"go", "sql"} \subseteq Languages
ASSUME AnalyzedInputs ==
  \A in \in Inputs : in.files # <<>> =>
    /\ IsList(in.files) /\ \A file \in ToSet(in.files) : IsSource(file)
    /\ \A m, n \in DOMAIN in.files : in.files[m].path = in.files[n].path => m = n
    /\ IsFiniteSet(in.imports) /\ \A warning \in in.imports : warning.level # "note"
    /\ IsFiniteSet(in.long)

VARIABLES input,
          phase,  \* "files", "dependencies", "summary", "warnings", "documents", "persist", "stored", "failed"
          read,   \* the number of files read, in this phase
          found,  \* what the files gave so far
          result, \* the result, once summed up
          rows    \* the rows stored

vars == <<input, phase, read, found, result, rows>>

(***************************************************************************)
(* One file.                                                               *)
(***************************************************************************)
SymbolsOf(file) ==
  CASE ParserOf(file) = "delphi" -> DelphiSymbolsOf(file)
    [] ParserOf(file) = "go"     -> GoSymbolsOf(file)
    [] ParserOf(file) = "sql"    -> SqlSymbolsOf(file)
    [] ParserOf(file) = "form"   -> FormSymbols(file)
    [] OTHER -> <<>>

DependenciesOf(file, symbols) ==
  CASE ParserOf(file) = "delphi" -> DelphiDependencies(file, symbols)
    [] ParserOf(file) = "go"     -> GoDependencies(file, symbols)
    [] ParserOf(file) = "sql"    -> SqlDependencies(file, symbols)
    [] ParserOf(file) = "form"   -> FormDependencies(file, symbols)
    [] OTHER -> {}

WarningsOf(file) ==
  CASE ParserOf(file) = "delphi"   -> DelphiWarnings(file)
    [] ParserOf(file) = "go"       -> SqlHeuristicWarnings(file)
    [] ParserOf(file) = "sql"      -> SqlWarnings(file)
    [] ParserOf(file) = "form"     -> FormWarnings(file)
    [] ParserOf(file) = "metadata" -> MetadataWarnings(file)
    [] OTHER -> UnsupportedWarnings(file)

Material(warnings) == {warning \in warnings : warning.level # "note"}

Count(condition) == IF condition THEN 1 ELSE 0

\* The detectors read the text of every file, the field references of forms are none.
AnalyzeFile(so_far, file) ==
  LET symbols  == SymbolsOf(file)
      eligible == IsLanguageSupported(file.language)
  IN  [symbols    |-> so_far.symbols \o symbols,
       references |-> so_far.references \cup FieldReferencesOf(file, symbols),
       risks      |-> so_far.risks \cup RisksOfFile(file),
       warnings   |-> so_far.warnings \cup WarningsOf(file),
       parsed     |-> IF eligible THEN Append(so_far.parsed, file) ELSE so_far.parsed,
       dependencies |-> {},
       eligible   |-> so_far.eligible + Count(eligible),
       analyzed   |-> so_far.analyzed + Count(eligible),
       degraded   |-> so_far.degraded + Count(Material(WarningsOf(file)) # {})]

SkipFile(so_far, file) ==
  [so_far EXCEPT !.eligible = @ + Count(IsLanguageSupported(file.language)),
                 !.warnings = @ \cup {FileWarning("ANALYSIS_FILE_SKIPPED", file, "warning")}]

(***************************************************************************)
(* The documents: sections by entry point, by table and by severity.       *)
(***************************************************************************)
Roots(symbols) ==
  LET IsEntry(symbol) == symbol.name \in {"main", "serve", "handler"}
      entries == SelectSeq(symbols, IsEntry)
  IN  IF entries # <<>> THEN entries ELSE SubSeq(symbols, 1, IF Len(symbols) < 8 THEN Len(symbols) ELSE 8)

FlowDocument(symbols, dependencies) ==
  [n \in DOMAIN Roots(symbols) |->
     <<PathOf(Roots(symbols)[n]), {dependency.name : dependency \in
                                       {d \in dependencies : d.from = Roots(symbols)[n].key}}>>]

DataDependencyDocument(references) ==
  {<<FieldKey(reference), reference.type,
     {<<other.file, other.line>> : other \in {o \in references : FieldKey(o) = FieldKey(reference)
                                                                 /\ o.type = reference.type}}>> :
     reference \in references}

RisksDocument(risks) ==
  [severity \in DOMAIN Weights |-> {risk \in risks : risk.severity = severity}]

(***************************************************************************)
(* The whole project.                                                      *)
(***************************************************************************)
FormsOf(files) == {file \in ToSet(files) : file.ext \in Forms}
EventsOfProject(forms)   == UNION {EventBindings(form) : form \in forms}
BindingsOfProject(forms) == UNION {DataBindings(form) : form \in forms}

ResolveDelphiEventMap(files, forms, symbols) ==
  LET pascal == {file.path : file \in {f \in ToSet(files) : f.ext \in {"pas", "dpr", "inc", "dpk"}}}
  IN  {MapEntry(event, ToSet(symbols), pascal) : event \in EventsOfProject(forms)}

Unresolved(events) == {entry \in events : entry.status = "unresolved"}

AboutFile(code, path, level, about) ==
  [code |-> code, file |-> path, level |-> level, heuristic |-> TRUE, about |-> about]

EventWarningsOf(events) ==
  {AboutFile("DELPHI_EVENT_HANDLER_UNRESOLVED", entry.event.file, "warning",
             [component |-> entry.event.component, warnings |-> {entry.event.name, entry.event.handler}]) :
     entry \in Unresolved(events)}

BindingWarningsOf(bindings) ==
  {AboutFile("DELPHI_DATA_BINDING_UNRESOLVED", binding.file, "warning",
             [component |-> binding.component, warnings |-> binding.warnings]) :
     binding \in {b \in bindings : b.confidence # "high"}}

HeuristicNote == AboutFile("HEURISTIC_ANALYSIS", None, "note", None)

\* The forms are read again: those read before give the same warnings, those that
\* fail now, the limited ones, nothing else.
CombinedWarnings(forms, limited, so_far, events, bindings) ==
  so_far.warnings \cup (UNION {FormWarnings(form) : form \in forms})
    \cup {FileWarning("DFM_LIMITED_ANALYSIS", form, "warning") : form \in limited}
    \cup EventWarningsOf(events) \cup BindingWarningsOf(bindings) \cup {HeuristicNote}

StatusOf(metrics, warnings) ==
  CASE metrics.eligible = 0 \/ metrics.analyzed = 0 -> "failed"
    [] metrics.eligible > 0 /\ metrics.analyzed > 0 /\ (metrics.skipped > 0 \/ metrics.degraded > 0) -> "partial"
    [] OTHER -> IF Material(warnings) # {} THEN "completed_with_warnings" ELSE "completed"

MetricsOf(files, so_far, events, bindings) ==
  [eligible |-> so_far.eligible, analyzed |-> so_far.analyzed, skipped |-> Len(files) - so_far.analyzed,
   degraded |-> so_far.degraded, unresolvedEvents |-> Cardinality(Unresolved(events)), bindings |-> bindings]

TypesOf(files) == [n \in DOMAIN files |-> files[n].ext]

EvidenceOf(analysis, imports) ==
  [metrics |-> analysis.metrics, imports |-> imports, warnings |-> analysis.warnings,
   types |-> TypesOf(input.files), risks |-> analysis.risks]

\* Variant for the mutants: the score stays what it was.
KeptConfidence(analysis, imports) == analysis

RecalculateAnalysisResultConfidence(analysis, imports) ==
  [analysis EXCEPT !.confidence = CalculateAnalysisConfidence(EvidenceOf(analysis, imports))]

SumUp(files, limited, so_far) ==
  LET forms    == FormsOf(files) \ limited
      events   == ResolveDelphiEventMap(files, forms, so_far.symbols)
      bindings == BindingsOfProject(forms)
      warnings == CombinedWarnings(forms, limited, so_far, events, bindings)
      metrics  == MetricsOf(files, so_far, events, bindings)
      risks    == so_far.risks \cup DetectMultipleWrites(so_far.references)
  IN  RecalculateAnalysisResultConfidence(
        [status |-> StatusOf(metrics, warnings), warnings |-> warnings, metrics |-> metrics, risks |-> risks,
         rules |-> BuildRules(so_far.references, risks), score |-> CalculateRiskScore(risks),
         flow |-> FlowDocument(so_far.symbols, so_far.dependencies),
         data |-> DataDependencyDocument(so_far.references), sections |-> RisksDocument(risks),
         confidence |-> 0, cut |-> {}], {})

(***************************************************************************)
(* After the analysis.                                                     *)
(***************************************************************************)
InputSummary == AboutFile("ANALYSIS_INPUT_SUMMARY", None, "note", None)

BuildImportWarningSummaryWarnings(imports) == IF imports = {} THEN {} ELSE {InputSummary} \cup imports

\* Variant for the mutants: every result with warnings is a completed one.
StatusWithAnyWarnings(status) == "completed_with_warnings"
StatusWithMoreWarnings(status) == IF status = "completed" THEN "completed_with_warnings" ELSE status

ApplyAdditionalAnalysisWarnings(analysis, additions, imports) ==
  IF additions = {} THEN analysis
  ELSE RecalculateAnalysisResultConfidence(
         [analysis EXCEPT !.warnings = @ \cup additions, !.status = StatusWithMoreWarnings(@)], imports)

CutWarning(document) == AboutFile("ANALYSIS_DOCUMENT_TRUNCATED", None, "warning", [component |-> document, warnings |-> {}])

MakePersistable(analysis, long, imports) ==
  IF long = {} THEN analysis
  ELSE RecalculateAnalysisResultConfidence(
         [analysis EXCEPT !.cut = long, !.warnings = @ \cup {CutWarning(document) : document \in long},
                          !.status = StatusWithMoreWarnings(@)], imports)

(***************************************************************************)
(* Rows.  A dependency is stored if its source is; its target is the       *)
(* symbol its key names, or the one symbol its name fits, or a name.       *)
(***************************************************************************)
KeysOf(symbols) == {symbol.key : symbol \in ToSet(symbols)}

FitsName(symbol, dependency, symbols) ==
  \/ dependency.name \in {symbol.qualified, <<symbol.file>> \o PathOf(symbol)}
  \/ /\ dependency.name \in {<<symbol.name>>, <<Last(PathOf(symbol))>>}
     /\ \E source \in ToSet(symbols) : source.key = dependency.from /\ source.file = symbol.file

\* Variant for the mutants: the target is sought by its name alone.
TargetByName(dependency, symbols) ==
  LET fitting == {symbol \in ToSet(symbols) : FitsName(symbol, dependency, symbols)}
  IN  IF Cardinality(fitting) = 1 THEN TheOne(fitting).key ELSE None

ResolveInsertedTargetSymbolId(dependency, symbols) ==
  LET fitting == {symbol \in ToSet(symbols) : FitsName(symbol, dependency, symbols)}
  IN  CASE dependency.to \in KeysOf(symbols) -> dependency.to
        [] dependency.to \notin KeysOf(symbols) /\ Cardinality(fitting) = 1 -> TheOne(fitting).key
        [] OTHER -> None

DependencyRow(dependency, symbols) ==
  LET target == ResolveInsertedTargetSymbolId(dependency, symbols)
  IN  [source |-> dependency.from, target |-> target, external |-> IF target = None THEN dependency.name ELSE <<>>,
       type |-> dependency.type, line |-> dependency.line]

FieldOwner(reference, symbols) ==
  IF reference.symbol # None THEN {symbol \in ToSet(symbols) : symbol.key = reference.symbol}
  ELSE LET owner == MostSpecific(symbols, reference.line, reference.file)
       IN  IF owner = None THEN {} ELSE {owner}

PersistRows(so_far) ==
  [symbols      |-> KeysOf(so_far.symbols),
   fields       |-> {FieldKey(reference) : reference \in so_far.references},
   uses         |-> UNION {{<<owner.key, FieldKey(reference), reference.type, reference.line>> :
                              owner \in FieldOwner(reference, so_far.symbols)} : reference \in so_far.references},
   dependencies |-> {DependencyRow(dependency, so_far.symbols) :
                       dependency \in {d \in so_far.dependencies : d.from \in KeysOf(so_far.symbols)}}]

(***************************************************************************)
(* Steps.                                                                  *)
(***************************************************************************)
NothingFound == [symbols |-> <<>>, references |-> {}, risks |-> {}, warnings |-> {}, parsed |-> <<>>,
                 dependencies |-> {}, eligible |-> 0, analyzed |-> 0, degraded |-> 0]
NoRows == [symbols |-> {}, fields |-> {}, uses |-> {}, dependencies |-> {}]

Init ==
  /\ input \in Inputs
  /\ phase = IF input.files = <<>> THEN "idle" ELSE "files"
  /\ read = 0 /\ found = NothingFound /\ result = None /\ rows = NoRows

NextFile == input.files[read + 1]

Read ==
  /\ phase = "files" /\ read < Len(input.files)
  /\ found' = AnalyzeFile(found, NextFile)
  /\ read' = read + 1
  /\ UNCHANGED <<input, phase, result, rows>>

Skip ==
  /\ phase = "files" /\ read < Len(input.files)
  /\ found' = SkipFile(found, NextFile)
  /\ read' = read + 1
  /\ UNCHANGED <<input, phase, result, rows>>

AllRead ==
  /\ phase = "files" /\ read = Len(input.files)
  /\ phase' = "dependencies" /\ read' = 0
  /\ UNCHANGED <<input, found, result, rows>>

Link ==
  /\ phase = "dependencies" /\ read < Len(found.parsed)
  /\ found' = [found EXCEPT !.dependencies = @ \cup DependenciesOf(found.parsed[read + 1], found.symbols)]
  /\ read' = read + 1
  /\ UNCHANGED <<input, phase, result, rows>>

\* A parser that fails here fails the analysis.
LinkFails ==
  /\ phase = "dependencies" /\ read < Len(found.parsed)
  /\ phase' = "failed"
  /\ UNCHANGED <<input, read, found, result, rows>>

\* Only a form that was skipped can fail to be read again.
Summarize ==
  /\ phase = "dependencies" /\ read = Len(found.parsed)
  /\ \E limited \in SUBSET (FormsOf(input.files) \ ToSet(found.parsed)) :
       result' = SumUp(input.files, limited, found)
  /\ phase' = "warnings"
  /\ UNCHANGED <<input, read, found, rows>>

AddImportWarnings ==
  /\ phase = "warnings"
  /\ result' = ApplyAdditionalAnalysisWarnings(result, BuildImportWarningSummaryWarnings(input.imports), input.imports)
  /\ phase' = "documents"
  /\ UNCHANGED <<input, read, found, rows>>

\* The score is computed once more, whatever was cut.
CutDocuments ==
  /\ phase = "documents"
  /\ result' = RecalculateAnalysisResultConfidence(MakePersistable(result, input.long, input.imports), input.imports)
  /\ phase' = IF result'.status = "failed" THEN "failed" ELSE "persist"
  /\ UNCHANGED <<input, read, found, rows>>

\* All rows, or none and the analysis fails.
Persist ==
  /\ phase = "persist"
  /\ rows' = PersistRows(found)
  /\ phase' = "stored"
  /\ UNCHANGED <<input, read, found, result>>

PersistFails ==
  /\ phase = "persist"
  /\ phase' = "failed"
  /\ UNCHANGED <<input, read, found, result, rows>>

Next == Read \/ Skip \/ AllRead \/ Link \/ LinkFails \/ Summarize \/ AddImportWarnings \/ CutDocuments
        \/ Persist \/ PersistFails

Spec == Init /\ [][Next]_vars /\ WF_vars(Next)

(***************************************************************************)
(* What a stored analysis owes its files.                                  *)
(***************************************************************************)
IsNamed(path) == \E warning \in Material(result.warnings) : warning.file = path
Degraded(file) == Material(WarningsOf(file)) # {}
Parsed(file) == file \in ToSet(found.parsed)

\* Nothing is missed silently.  A file whose parser failed, or that was read with
\* reservations, is named by a warning of the stored result, whose status then is
\* partial; a result that is completed had no warning at all, from the analysis, the
\* import or the storage; a field written in two places is among the risks and the
\* rules, whichever files the places are in; and an analysis without any file read
\* is not stored (analyzeProject, applyAdditionalAnalysisWarnings).
NothingIsMissedSilently ==
  phase = "stored" =>
    /\ \A file \in ToSet(input.files) : ~Parsed(file) \/ Degraded(file) => IsNamed(file.path)
    /\ (result.status = "partial") <=> \E file \in ToSet(input.files) : ~Parsed(file) \/ Degraded(file)
    /\ input.imports \subseteq result.warnings
    /\ Cardinality(result.cut) <= Cardinality({w \in result.warnings : w.code = "ANALYSIS_DOCUMENT_TRUNCATED"})
    /\ (result.status = "completed") <=> Material(result.warnings) = {}
    /\ \A one, other \in Writes(found.references) :
         one # other /\ FieldKey(one) = FieldKey(other) =>
           /\ \E risk \in result.sections.high \cup result.sections.medium :
                risk.title = "multiple writes" /\ risk.about = FieldKey(one)
           /\ \E rule \in result.rules : rule.type = "validation" /\ rule.of[1] = one.table
    /\ found.parsed # <<>>

\* The stored score is that of the stored warnings and risks, no single one of
\* them raised it, and a full score means that every file was read without
\* reservation, though not that the code is free of risks: an empty exception handler
\* never costs anything (calculateAnalysisConfidence, recalculated after each change).
ConfidenceAnswersToEvidence ==
  phase = "stored" =>
    LET evidence == EvidenceOf(result, input.imports)
        Score(changed) == CalculateAnalysisConfidence(changed)
    IN  /\ result.confidence = Score(evidence) /\ result.confidence \in 0..100
        /\ \A warning \in result.warnings :
             Score([evidence EXCEPT !.warnings = @ \ {warning}, !.imports = @ \ {warning}]) >= result.confidence
        /\ \A risk \in result.risks :
             /\ Score([evidence EXCEPT !.risks = @ \ {risk}]) >= result.confidence
             /\ risk.title = "broad or empty handling" =>
                  Score([evidence EXCEPT !.risks = @ \ {risk}]) = result.confidence
        /\ result.confidence = 100 =>
             /\ Material(result.warnings) = {}
             /\ \A file \in ToSet(input.files) : Parsed(file) /\ ~Degraded(file)

\* The rows hang together: what a row names is a row, every call between symbols is
\* stored between the same two, a dependency without a target keeps its name, and
\* every field a routine touches is stored with the routine.
StoredRowsHangTogether ==
  phase = "stored" =>
    /\ \A row \in rows.dependencies :
         /\ row.source \in rows.symbols /\ row.target \in rows.symbols \cup {None}
         /\ row.target = None => row.external # <<>>
    /\ \A dependency \in found.dependencies :
         dependency.to \in rows.symbols =>
           \E row \in rows.dependencies : row.source = dependency.from /\ row.target = dependency.to
                                          /\ row.type = dependency.type /\ row.line = dependency.line
    /\ \A use \in rows.uses : use[1] \in rows.symbols /\ use[2] \in rows.fields
    /\ \A reference \in found.references :
         reference.symbol # None =>
           <<reference.symbol, FieldKey(reference), reference.type, reference.line>> \in rows.uses
=============================================================================
