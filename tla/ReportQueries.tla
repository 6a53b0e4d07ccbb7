----------------------------- MODULE ReportQueries -----------------------------
(***************************************************************************)
(* The requests that are answered from one thing read: the summaries of    *)
(* findings and warnings, the difference of two snapshots, the list of     *)
(* runs with the status of a project, and the exported report; and the     *)
(* gate that every request passes first.                                   *)
(***************************************************************************)
EXTENDS PagedQueries, RunReports

CONSTANTS Nobody, AppId, Throttle  \* as in RequestGate

Gate == INSTANCE RequestGate

\* Rows and warnings as an analysis finds them, and the items of a snapshot.
FoundRow == [text : Nat, file : [path : Nat, folded : Nat], line : Nat, severity : Nat]
FoundWarning == [code : STRING, message : Nat, path : Nat]
SnapshotItem == [key : Nat, body : Nat]

\* Requests come in the order of the clock, whatever else they hold.
IsRequest(request) ==
  request \in [at : Nat, path : {request.path}, cookie : {request.cookie}, ip : {request.ip}, oauth : {request.oauth}]
InTime(requests) ==
  /\ \A i \in DOMAIN requests : IsRequest(requests[i])
  /\ \A i, j \in DOMAIN requests : i <= j => requests[i].at <= requests[j].at

\* The keys of projects and runs (drizzle/schema.ts).
RunsHaveKeys(projects, runs) ==
  /\ IsFiniteSet(runs) /\ \A run \in runs : run.id \in Nat \ {NoRun} /\ run.number \in Nat
  /\ \A run, other \in runs :
       run.id = other.id \/ (run.project = other.project /\ run.number = other.number) => run = other
  /\ \A project, other \in projects : project.id = other.id => project = other

\* A snapshot lists each file once, and its symbols and risks lie in its files.
IsSnapshot(snapshot) ==
  LET paths == {file.key : file \in ToSet(snapshot.files)}
  IN /\ snapshot.files \in Seq([key : Nat \ {Absent}, type : STRING])
     /\ \A m, n \in DOMAIN snapshot.files : snapshot.files[m].key = snapshot.files[n].key => m = n
     /\ snapshot.symbols \in Seq([key : Nat, file : paths]) /\ snapshot.risks \in Seq([file : paths])
     /\ snapshot.rules \in Seq([file : Nat]) /\ snapshot.dependencies \in Seq([from : Nat, to : Nat])
     /\ snapshot.traces \in Seq([status : {"complete", "partial", "unresolved"}])

ASSUME ReportInputs ==
  \A in \in Inputs :
    /\ in.kind = "summary" => in.rows \in Seq(FoundRow) /\ in.warnings \in Seq(FoundWarning)
    /\ in.kind = "diff" => \A section \in Sections :
                             in.base[section] \in Seq(SnapshotItem) /\ in.compare[section] \in Seq(SnapshotItem)
    /\ in.kind = "runs" => RunsHaveKeys(in.projects, in.runs) /\ in.pageSize \in Nat \ {0}
    /\ in.kind = "export" => IsSnapshot(in.snapshot)
    /\ in.kind = "gate" => in.requests \in Seq(ToSet(in.requests)) /\ InTime(in.requests)

\* Grouping counts every risk, rule and warning once, a group of risks carries its
\* worst severity and the worst group comes first, and the files a group says it
\* affects are files of its rows (analysisPresentation.ts).
GroupsAnswerForTheirRows ==
  input.kind = "summary" =>
    /\ NothingIsLost(input.rows) /\ AllWarningsCounted(input.warnings)
    /\ WorstIsFirst(input.rows) /\ AffectedFilesAreReal(input.rows)

\* The difference of two runs shows entries of these runs with the right totals; if it
\* shows all of them, it makes of the items of the one run those of the other, but for
\* items that share their key, and it is the same turned round (getAnalysisDiff).
DiffTellsTheChange == input.kind = "diff" => DiffIsTheChange(input.base, input.compare)

\* The list, the status, the diff and the export of runs name the same runs, and the
\* counts in the exported report add up to what the snapshot holds
\* (listAnalysisRuns, getAnalysisStatus, projectReportArchive.ts).
ReportsAgreeWithRuns ==
  CASE input.kind = "runs"   -> ViewsNameTheSameRuns(input.projects, input.runs, input.pageSize)
    [] input.kind = "export" -> CountsAddUp(input.snapshot)
    [] OTHER -> TRUE

\* In no window does a user or visitor get through twice the limit of a procedure,
\* nobody within the limit is refused or loses by the requests of others, and who
\* waits as told is served (consumeProcedureRateLimit).
RequestsAreMetered == input.kind = "gate" => Gate!RequestsAreMetered(input.requests, input.users)
=============================================================================
