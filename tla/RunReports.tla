------------------------------- MODULE RunReports -------------------------------
(***************************************************************************)
(* What is computed from the runs of a project: the list of runs, the      *)
(* status a project is shown with, the difference of two snapshots, and    *)
(* the files of the exported report.                                       *)
(*                                                                         *)
(* An item of a snapshot is [key, body, ...]: key is what the diff          *)
(* identifies it by, body everything else of it.  Keys, bodies and paths   *)
(* are numbers in their order of collation.                                *)
(***************************************************************************)
EXTENDS Presentation

CONSTANTS DiffLimit,     \* entries a bucket of a diff shows
          ArchiveBytes   \* size limit of an exported archive

ASSUME ReportConstants == {DiffLimit, ArchiveBytes} \subseteq Nat

NoRun == 0
UsableStatuses == {"completed", "completed_with_warnings", "partial"}
IsUsable(run) == run.status \in UsableStatuses

(***************************************************************************)
(* The runs and the status of a project.                                   *)
(***************************************************************************)
Newest(runs) == CHOOSE run \in runs : \A other \in runs : other.number <= run.number
CurrentRuns(project, runs) ==
  {run \in runs : IsUsable(run) /\ run.project = project.id /\ run.fp = project.fp}

\* getLatestUsableCurrentSourceRun, for one project.
LatestCurrentRun(project, runs) ==
  IF project.fp = Absent \/ CurrentRuns(project, runs) = {} THEN NoRun ELSE Newest(CurrentRuns(project, runs)).id

StatusOf(project) ==
  CASE project.status = "analyzing" -> "processing"
    [] project.status \in {"completed", "failed"} -> project.status
    [] OTHER -> "pending"

\* Variant for the mutants: the run of any project with that source.
SameSource(run, project, fingerprints) == run.fp \in fingerprints
OwnCurrentSource(run, project, fingerprints) == run.project = project.id /\ run.fp = project.fp

\* getProjectApiAnalysisStatusByProjectId: one query for all projects of a
\* list, then the first match of each in the order of run numbers.
Known(projects) == {project \in projects : project.fp # Absent}
Fingerprints(projects) == {project.fp : project \in Known(projects)}
NewerFirst(left, right) == Before(<< <<-left.number, -right.number>>, <<-left.id, -right.id>> >>, left, right)
CurrentFirst(projects, runs) ==
  Sorted(SetToSeq({run \in runs : /\ IsUsable(run) /\ run.fp \in Fingerprints(projects)
                                  /\ run.project \in {p.id : p \in projects}}), NewerFirst)
Matching(project, projects, runs) ==
  Filtered(CurrentFirst(projects, runs),
           LAMBDA run : project \in Known(projects) /\ OwnCurrentSource(run, project, Fingerprints(projects)))
StatusByProject(projects, runs) ==
  [id \in {p.id : p \in projects} |->
     LET project == CHOOSE p \in projects : p.id = id
         matches == Matching(project, projects, runs)
     IN IF matches # <<>> THEN Head(matches).status ELSE StatusOf(project)]

ToSummary(run, baseline, latest) ==
  [id |-> run.id, number |-> run.number, isBaseline |-> run.id = baseline, isLatestUsable |-> run.id = latest]

UsableRuns(project, runs) ==
  Sorted(SetToSeq({run \in runs : run.project = project.id /\ IsUsable(run)}),
         LAMBDA left, right : left.number > right.number)

ListAnalysisRuns(project, runs, baseline, page, pageSize) ==
  LET usable == UsableRuns(project, runs)
      last == Min({page * pageSize, Len(usable)})
  IN [items |-> SeqMap(SubSeq(usable, (page - 1) * pageSize + 1, last),
                       LAMBDA run : ToSummary(run, baseline, LatestCurrentRun(project, runs))),
      total |-> Len(usable), pageCount |-> (Len(usable) + pageSize - 1) \div pageSize]

(***************************************************************************)
(* The difference of two snapshots.                                        *)
(***************************************************************************)
\* An error of the request, or "ok": a run must be of the project, usable and
\* readable.
Comparable(project, run) ==
  CASE run.project # project.id -> "PROJECT_NOT_FOUND"
    [] ~IsUsable(run) -> "REPORT_NOT_READY"
    [] run.stored \in {"missing", "invalid"} -> "REPORT_NOT_READY"
    [] run.stored = "newer" -> "UNSUPPORTED_SNAPSHOT_VERSION"
    [] OTHER -> "ok"

\* A Map by key: of items with the same key the last one stays.
Keyed(items) ==
  [key \in {item.key : item \in ToSet(items)} |->
     items[Max({i \in DOMAIN items : items[i].key = key})]]

InKeyOrder(keys) == Sorted(SetToSeq(keys), LAMBDA left, right : left < right)
\* Variant for the mutants: a changed entry shows what is new only.
ChangedTo(key, base, compare) == [key |-> key, before |-> compare[key], after |-> compare[key]]
ChangedEntry(key, base, compare) == [key |-> key, before |-> base[key], after |-> compare[key]]

DiffEntries(base, compare) ==
  LET both == DOMAIN base \cap DOMAIN compare
  IN [added   |-> SeqMap(InKeyOrder(DOMAIN compare \ both), LAMBDA key : compare[key]),
      removed |-> SeqMap(InKeyOrder(DOMAIN base \ both), LAMBDA key : base[key]),
      changed |-> SeqMap(InKeyOrder({key \in both : base[key] # compare[key]}),
                         LAMBDA key : ChangedEntry(key, base, compare))]

Bucket(items) ==
  [items |-> SubSeq(items, 1, Min({DiffLimit, Len(items)})), total |-> Len(items),
   displayed |-> Min({DiffLimit, Len(items)}), truncated |-> Len(items) > DiffLimit]

\* Symbols and dependencies have no bucket for what has changed.
Sections == {"files", "symbols", "risks"}
WithoutChanges == {"symbols"}
SectionDiff(section, base, compare) ==
  LET entries == DiffEntries(Keyed(base[section]), Keyed(compare[section]))
  IN [added |-> Bucket(entries.added), removed |-> Bucket(entries.removed),
      changed |-> Bucket(IF section \in WithoutChanges THEN <<>> ELSE entries.changed)]

AnalysisDiff(base, compare) ==
  LET diff == [section \in Sections |-> SectionDiff(section, base, compare)]
  IN [sections |-> diff,
      metricsDelta |-> [section \in Sections |-> Len(compare[section]) - Len(base[section])],
      truncated |-> \/ \E section \in Sections, part \in {"added", "removed", "changed"} :
                         diff[section][part].truncated
                    \/ base.tracesTruncated \/ compare.tracesTruncated]

DiffResult(project, base, compare) ==
  IF base.id = compare.id THEN "REPORT_NOT_READY"
  ELSE IF Comparable(project, base) # "ok" THEN Comparable(project, base) ELSE Comparable(project, compare)

(***************************************************************************)
(* The exported report.                                                    *)
(***************************************************************************)
FileOfSymbol(snapshot, key) ==
  LET same == {i \in DOMAIN snapshot.symbols : snapshot.symbols[i].key = key}
  IN IF same = {} THEN Absent ELSE snapshot.symbols[Max(same)].file
SourceOf(snapshot, dep) == FileOfSymbol(snapshot, dep.from)
TargetOf(snapshot, dep) == FileOfSymbol(snapshot, dep.to)
CountBy(items, path) == Len(Filtered(items, LAMBDA item : item.file = path))

\* Every risk, every rule and both ends of every dependency weigh on a file.
\* Variant for the mutants: only the end a dependency starts at.
SourceSignals(snapshot) ==
  Present(SeqMap(snapshot.risks, LAMBDA risk : risk.file)
            \o SeqMap(snapshot.rules, LAMBDA rule : rule.file)
            \o SeqMap(snapshot.dependencies, LAMBDA dep : SourceOf(snapshot, dep)))
ImpactSignals(snapshot) ==
  Present(SeqMap(snapshot.risks, LAMBDA risk : risk.file)
            \o SeqMap(snapshot.rules, LAMBDA rule : rule.file)
            \o SeqMap(snapshot.dependencies, LAMBDA dep : SourceOf(snapshot, dep))
            \o SeqMap(snapshot.dependencies, LAMBDA dep : TargetOf(snapshot, dep)))

Signal(path) == path
ImpactOn(signals, path) == [path |-> path, count |-> Len(WithKey(signals, Signal, path))]
MostImpactedFirst(left, right) ==
  Before(<< <<-left.count, -right.count>>, <<left.path, right.path>> >>, left, right)
ImpactedFiles(signals) ==
  Sorted(SeqMap(KeysInOrder(signals, Signal), LAMBDA path : ImpactOn(signals, path)), MostImpactedFirst)
TopImpactedFiles(snapshot) ==
  LET sorted == ImpactedFiles(ImpactSignals(snapshot)) IN SubSeq(sorted, 1, Min({MaxFiles, Len(sorted)}))

LanguageOf(fileType) == IF fileType \in {"go", "sql", "delphi-like"} THEN fileType ELSE "unknown"

\* buildSnapshotReportCompletenessArtifacts: the inventory of the files.
FileInventory(snapshot) ==
  SeqMap(snapshot.files, LAMBDA file :
    [path |-> file.key, language |-> LanguageOf(file.type),
     symbols |-> CountBy(snapshot.symbols, file.key),
     dependencies |-> Len(Filtered(snapshot.dependencies, LAMBDA dep : SourceOf(snapshot, dep) = file.key)),
     risks |-> CountBy(snapshot.risks, file.key),
     warnings |-> CountBy(snapshot.warnings, file.key)])
LanguageCounts(snapshot) ==
  [language \in {"go", "sql", "delphi-like", "unknown"} |->
     Len(Filtered(snapshot.files, LAMBDA file : LanguageOf(file.type) = language))]

\* The flow of data from the forms: 50 traces are written out, 20 tables.
FlowSummary(traces) ==
  LET of(status) == Len(Filtered(traces, LAMBDA trace : trace.status = status))
  IN [total |-> Len(traces), complete |-> of("complete"), partial |-> of("partial"),
      unresolved |-> of("unresolved"), written |-> Min({50, Len(traces)}), omitted |-> Max({0, Len(traces) - 50})]

IsReportReady(run) == IsUsable(run) /\ run.documents

\* buildReportArchiveBuffer.  A chosen run is read strictly; the current one is
\* completed first if it comes from an older version, and read once more.
ExportOutcome(run, chosen) ==
  CASE chosen /\ run.stored \in {"missing", "invalid"} -> "REPORT_NOT_READY"
    [] chosen /\ run.stored = "newer" -> "UNSUPPORTED_SNAPSHOT_VERSION"
    [] ~IsReportReady(run) \/ run.stored # "valid" -> "REPORT_NOT_READY"
    [] run.bytes > ArchiveBytes -> "REPORT_TOO_LARGE"
    [] OTHER -> "ok"

(***************************************************************************)
(* What the reports must not get wrong.                                    *)
(***************************************************************************)
\* Keys that two items of a snapshot have, as two risks of one category, title and
\* file do: of these the difference compares the last ones only, and what becomes
\* of the others does not show.
ItemKeys(items) == {item.key : item \in items}
SharedIn(items) == {key \in ItemKeys(ToSet(items)) : \E i, j \in DOMAIN items : i # j /\ items[i].key = key /\ items[j].key = key}

\* What a reader makes of the items of a snapshot with the buckets of a section:
\* what is said to be removed goes, what is changed and what is added is as shown.
AppliedTo(section, items) ==
  LET changed == ToSet(section.changed.items)
      gone == ItemKeys(ToSet(section.removed.items)) \cup ItemKeys(changed)
  IN {item \in items : item.key \notin gone} \cup ToSet(section.added.items) \cup {e.after : e \in changed}

\* Every entry shown is of the snapshots, and the totals count the keys, shown or not.
EntriesAreReal(there, old, new) ==
  /\ ToSet(there.added.items) \subseteq new /\ ToSet(there.removed.items) \subseteq old
  /\ \A e \in ToSet(there.changed.items) : e.before \in old /\ e.after \in new /\ e.before # e.after
  /\ there.added.total = Cardinality(ItemKeys(new) \ ItemKeys(old))
  /\ there.removed.total = Cardinality(ItemKeys(old) \ ItemKeys(new))

\* The difference of two snapshots that shows everything, applied to the first,
\* gives the second, but for the items that share their key: for these no more is
\* told than which keys come and go.  Asked for the other way round it is the same
\* with the sides exchanged.
Turned(entries) == SeqMap(entries, LAMBDA e : [key |-> e.key, before |-> e.after, after |-> e.before])
SectionIsTheChange(section, there, base, compare) ==
  LET old == ToSet(base[section])
      new == ToSet(compare[section])
      shared == SharedIn(base[section]) \cup SharedIn(compare[section])
      Alone(items) == {item \in items : item.key \notin shared}
  IN /\ ItemKeys(AppliedTo(there, old)) = ItemKeys(new)
     /\ section \notin WithoutChanges => Alone(AppliedTo(there, old)) = Alone(new)
DiffIsTheChange(base, compare) ==
  LET diff == AnalysisDiff(base, compare)
      back == AnalysisDiff(compare, base)
  IN \A section \in Sections :
       LET there == diff.sections[section]
           return == back.sections[section]
       IN /\ return.added = there.removed /\ return.removed = there.added
          /\ return.changed.items = Turned(there.changed.items)
          /\ EntriesAreReal(there, ToSet(base[section]), ToSet(compare[section]))
          /\ ~diff.truncated => SectionIsTheChange(section, there, base, compare)

\* The list of runs, the status in the list of projects, the diff and the
\* export speak of the same runs: each usable run of the project is on exactly
\* one page, the one marked as latest gives the project its status, and no
\* other run can be compared or exported.
Listed(project, runs, pageSize) ==
  LET page(n) == ListAnalysisRuns(project, runs, NoRun, n, pageSize)
  IN FlattenSeq([n \in 1..page(1).pageCount |-> page(n).items])

ViewsNameTheSameRuns(projects, runs, pageSize) ==
  \A project \in projects :
    LET listed == Listed(project, runs, pageSize)
        ids    == {item.id : item \in ToSet(listed)}
        latest == {item.id : item \in {i \in ToSet(listed) : i.isLatestUsable}}
    IN /\ Len(listed) = Cardinality(ids)
       /\ \A run \in {r \in runs : r.project = project.id} :
            (ExportOutcome(run, TRUE) = "ok" \/ \E other \in runs : DiffResult(project, run, other) = "ok")
              => run.id \in ids
       /\ IF latest = {} THEN StatusByProject(projects, runs)[project.id] = StatusOf(project)
          ELSE \E run \in runs : /\ latest = {run.id}
                                 /\ StatusByProject(projects, runs)[project.id] = run.status

\* The inventory of the exported report counts each finding in one file, and
\* the files said to be most affected carry every finding that has a file.
InAll(inventory, column) == CountOf(SeqMap(inventory, LAMBDA file : [count |-> file[column]]))

InventoryAddsUp(snapshot) ==
  LET inventory == FileInventory(snapshot)
  IN /\ InAll(inventory, "symbols") = Len(snapshot.symbols)
     /\ InAll(inventory, "risks") = Len(snapshot.risks)
     /\ InAll(inventory, "dependencies")
          = Len(Filtered(snapshot.dependencies, LAMBDA dep : SourceOf(snapshot, dep) # Absent))

SummariesAddUp(snapshot) ==
  LET languages == LanguageCounts(snapshot)
      flow      == FlowSummary(snapshot.traces)
  IN /\ languages["go"] + languages["sql"] + languages["delphi-like"] + languages["unknown"] = Len(snapshot.files)
     /\ flow.complete + flow.partial + flow.unresolved = flow.written + flow.omitted

ImpactAddsUp(snapshot) ==
  LET top == TopImpactedFiles(snapshot)
  IN Len(top) < MaxFiles =>
       CountOf(top) = Len(snapshot.risks) + Len(Filtered(snapshot.rules, LAMBDA rule : rule.file # Absent))
                        + Len(Filtered(snapshot.dependencies, LAMBDA dep : SourceOf(snapshot, dep) # Absent))
                        + Len(Filtered(snapshot.dependencies, LAMBDA dep : TargetOf(snapshot, dep) # Absent))

CountsAddUp(snapshot) == InventoryAddsUp(snapshot) /\ SummariesAddUp(snapshot) /\ ImpactAddsUp(snapshot)
=============================================================================
