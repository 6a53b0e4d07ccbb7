------------------------------ MODULE Presentation ------------------------------
(***************************************************************************)
(* The summaries a reader of an analysis is shown: risks and rules without *)
(* their duplicates and grouped, warnings by code, the files most          *)
(* affected, and the dependencies by kind of target.                       *)
(*                                                                         *)
(* Texts and file paths are numbers in their order of collation; 0 is an   *)
(* absent one.  A file is [path, folded]: folded is what normalizeText     *)
(* leaves of the path, which case and digits that stand alone do not tell  *)
(* apart.  The normalised kind, title, description and recommendation of a *)
(* row are one text; texts of one title may differ in the others.          *)
(***************************************************************************)
EXTENDS Integers, Sequences, SequencesExt, FiniteSetsExt, TLC

MaxSamples == 5
MaxFiles   == 10
Absent     == 0

Before(ranks, earlier, later) == \* the first rank that differs decides
  \E i \in DOMAIN ranks : /\ ranks[i][1] # ranks[i][2]
                          /\ \A j \in 1..(i - 1) : ranks[j][1] = ranks[j][2]
                          /\ ranks[i][1] < ranks[i][2] /\ earlier # later

SeqMap(rows, F(_)) == [i \in DOMAIN rows |-> F(rows[i])]

\* Filtering and sorting by the positions of the rows, so that proofs can speak
\* of what they return.  As Array.sort, Sorted leaves rows that tie as they were.
RowsAt(rows, kept) ==
  [n \in 1..Cardinality(kept) |-> rows[CHOOSE i \in kept : Cardinality({j \in kept : j < i}) = n - 1]]
Filtered(rows, Test(_)) == RowsAt(rows, {i \in DOMAIN rows : Test(rows[i])})
Sorted(rows, Ahead(_, _)) ==
  LET before(i) == {j \in DOMAIN rows : \/ Ahead(rows[j], rows[i])
                                        \/ j < i /\ ~Ahead(rows[i], rows[j])}
  IN [n \in DOMAIN rows |-> rows[CHOOSE i \in DOMAIN rows : Cardinality(before(i)) = n - 1]]

\* A JavaScript Map in its order of insertion: the distinct keys of the rows.
KeysInOrder(rows, Key(_)) ==
  SeqMap(RowsAt(rows, {i \in DOMAIN rows : \A j \in 1..(i - 1) : Key(rows[j]) # Key(rows[i])}), Key)
WithKey(rows, Key(_), key) == Filtered(rows, LAMBDA row : Key(row) = key)
Total(rows, F(_)) == FoldLeft(LAMBDA sum, row : sum + F(row), 0, rows)
Count(row)    == row.count
Severity(row) == row.severity
Location(row) == [file |-> row.file, line |-> row.line]

\* The first distinct ones of some values: pushed one by one, none twice and none
\* beyond the limit.
FirstDistinct(values, limit) ==
  LET distinct == KeysInOrder(values, LAMBDA value : value)
  IN SubSeq(distinct, 1, Min({limit, Len(distinct)}))
SampleLocations(locations) == FirstDistinct(locations, MaxSamples)
FilesOf(locations) == {location.file.path : location \in ToSet(locations)}

(***************************************************************************)
(* Risks and rules.  A rule has no severity of its own: its rows carry 0.  *)
(***************************************************************************)
\* Variant for the mutants: the severity of the first row.
FirstSeverity(rows) == Head(rows).severity
WorstSeverity(rows) == Max({row.severity : row \in ToSet(rows)})

DedupeKey(row) == <<row.text, row.file.folded, row.line>>

Deduped(same) ==
  LET samples == SampleLocations(SeqMap(same, Location))
  IN [text |-> Head(same).text, file |-> Head(same).file, line |-> Head(same).line,
      severity |-> WorstSeverity(same),
      count |-> Len(same), samples |-> samples,
      affected |-> Cardinality(FilesOf(samples))]

DedupeOccurrences(rows) ==
  SeqMap(KeysInOrder(rows, DedupeKey), LAMBDA key : Deduped(WithKey(rows, DedupeKey, key)))

\* Variant for the mutants: a duplicate is counted once.
CountedOnce(rows) == Len(rows)
CountOf(rows) == Total(rows, Count)

\* All locations of a group are pushed, and its count of files is taken from
\* the samples that are kept and the last row.
Grouped(same) ==
  LET samples == SampleLocations(FlattenSeq(SeqMap(same, LAMBDA row : row.samples)))
  IN [text |-> Head(same).text, file |-> Head(same).file, line |-> Head(same).line,
      severity |-> WorstSeverity(same),
      count |-> CountOf(same), samples |-> samples,
      affected |-> Cardinality(FilesOf(samples) \cup {Last(same).file.path})]

Text(row) == row.text
TitleOf(text) == text \div 2
Critical == 4
\* types: the texts of the type asked for; files and search: the normalised paths
\* and texts that contain what is looked for.
NoFilter == [severity |-> 0, critical |-> FALSE, types |-> {}, files |-> {}, search |-> {}, hideDuplicates |-> TRUE]
Matches(row, options) ==
  /\ options.severity = 0 \/ row.severity = options.severity
  /\ options.types = {} \/ row.text \in options.types
  /\ options.critical => row.severity = Critical
  /\ options.files = {} \/ row.file.folded \in options.files
  /\ options.search = {} \/ {row.text, row.file.folded} \cap options.search # {}

WorstFirst(left, right) ==
  Before(<< <<-left.severity, -right.severity>>, <<-left.count, -right.count>>,
            <<TitleOf(left.text), TitleOf(right.text)>> >>, left, right)
WorstGroupFirst(left, right) ==
  Before(<< <<-left.severity, -right.severity>>, <<-left.count, -right.count>>,
            <<-left.affected, -right.affected>>,
            <<TitleOf(left.text), TitleOf(right.text)>> >>, left, right)

\* groupRisks, and groupRules with the severities all 0.
GroupRows(rows, options) ==
  LET shown == Filtered(DedupeOccurrences(rows), LAMBDA row : Matches(row, options))
  IN IF options.hideDuplicates
       THEN Sorted(SeqMap(KeysInOrder(shown, Text), LAMBDA text : Grouped(WithKey(shown, Text, text))),
                   WorstGroupFirst)
       ELSE Sorted(shown, WorstFirst)

\* summarizeAffectedFiles: of the samples only, the ten most affected files.
SummarizeAffectedFiles(risks, rules) ==
  LET named(rows) == Filtered(FlattenSeq(SeqMap(rows, LAMBDA row : row.samples)),
                              LAMBDA location : location.file.path # Absent)
      Path(location) == location.file.path
      in(rows, path) == Len(Filtered(named(rows), LAMBDA location : Path(location) = path))
      entries == SeqMap(KeysInOrder(named(risks) \o named(rules), Path),
                        LAMBDA path : [path |-> path, risks |-> in(risks, path), rules |-> in(rules, path),
                                       total |-> in(risks, path) + in(rules, path)])
      sorted == Sorted(entries, LAMBDA left, right :
                  Before(<< <<-left.total, -right.total>>, <<left.path, right.path>> >>, left, right))
  IN SubSeq(sorted, 1, Min({MaxFiles, Len(sorted)}))

(***************************************************************************)
(* Warnings and dependencies.                                              *)
(***************************************************************************)
\* The codes that explain a partial result, of those warningPresentation knows.
PartialReasons == {"IMPORT_LIMITED_ANALYSIS", "IMPORT_ENCODING_DETECTED",
                   "ANALYSIS_DOCUMENT_TRUNCATED", "ANALYSIS_FILE_SKIPPED"}
Present(values) == Filtered(values, LAMBDA value : value # Absent)

\* Ties are listed in the order of the codes' labels.
LabelRank(code) == CASE code = "IMPORT_LIMITED_ANALYSIS" -> 1 [] code = "HEURISTIC_ANALYSIS" -> 2
                     [] code = "ANALYSIS_FILE_SKIPPED" -> 3 [] OTHER -> 4
CodeOf(warning) == warning.code
CodeGroup(warnings, code) ==
  LET same == WithKey(warnings, CodeOf, code)
  IN [code |-> code, count |-> Len(same),
      messages |-> FirstDistinct(Present(SeqMap(same, LAMBDA w : w.message)), 3),
      files |-> FirstDistinct(Present(SeqMap(same, LAMBDA w : w.path)), 50)]
MostFirst(left, right) ==
  Before(<< <<-left.count, -right.count>>, <<LabelRank(left.code), LabelRank(right.code)>> >>, left, right)
SummarizeWarnings(warnings) ==
  Sorted(SeqMap(KeysInOrder(warnings, CodeOf), LAMBDA code : CodeGroup(warnings, code)), MostFirst)

SummarizePartialReasons(warnings, withWarnings) ==
  ({warning.code : warning \in ToSet(warnings)} \cap PartialReasons)
    \cup (IF withWarnings THEN {"Analysis completed with warnings."} ELSE {})

\* A target is standard if its unit is one of Delphi's; the model's units of
\* that kind are the even names.
IsDelphiStandardLibrary(name) == name # Absent /\ name % 2 = 0
TargetName(row) == IF row.external # Absent THEN row.external ELSE row.targetName
BuildDependencySummary(rows) ==
  LET of(kind) == Filtered(rows, LAMBDA row : row.kind = kind)
      outside == Filtered(rows, LAMBDA row : row.kind \notin {"internal", "unresolved"})
      hidden == Filtered(outside, LAMBDA row : IsDelphiStandardLibrary(TargetName(row)))
  IN [internal |-> Len(of("internal")), unresolved |-> Len(of("unresolved")),
      external |-> Len(outside), standard |-> Len(hidden)]

(***************************************************************************)
(* What the summaries must not get wrong.                                  *)
(***************************************************************************)
\* Every row found is counted in exactly one group, hidden duplicates or not.
NothingIsLost(rows) ==
  \A hide \in BOOLEAN :
    CountOf(GroupRows(rows, [NoFilter EXCEPT !.hideDuplicates = hide])) = Len(rows)

AllWarningsCounted(warnings) ==
  /\ Total(SummarizeWarnings(warnings), Count) = Len(warnings)
  /\ SummarizePartialReasons(warnings, FALSE) = {w.code : w \in ToSet(SummarizeWarnings(warnings))} \cap PartialReasons

\* A group is as severe as the worst of its rows, and the list starts with it.
WorstIsFirst(rows) ==
  rows # <<>> => Head(GroupRows(rows, NoFilter)).severity = Max({row.severity : row \in ToSet(rows)})

\* A group never claims more files than its rows are in, and while its
\* locations fit among the samples it claims every one.
RealFiles(rows, text) == {row.file.path : row \in {r \in ToSet(rows) : r.text = text}}
AffectedFilesAreReal(rows) ==
  \A group \in ToSet(GroupRows(rows, NoFilter)) :
    LET real == RealFiles(rows, group.text)
        locations == {Location(row) : row \in {r \in ToSet(rows) : r.text = group.text}}
    IN /\ group.affected <= Cardinality(real)
       /\ Cardinality(locations) <= MaxSamples => group.affected = Cardinality(real)
=============================================================================
