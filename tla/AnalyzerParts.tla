----------------------------- MODULE AnalyzerParts -----------------------------
(***************************************************************************)
(* The parts of the analyzer that answer from one thing read: the impact   *)
(* of a change among the rows of a project, and what an import keeps of an *)
(* archive or of a repository.                                             *)
(***************************************************************************)
EXTENDS ProjectAnalysis, SourceImport

CONSTANTS ImportLimits, ChunkSize

Impact == INSTANCE ImpactAnalysis WITH Absent <- None

\* What the rows hold (drizzle/schema.ts): a field has a table, whose name has parts.
IsFieldRow(field) == IsList(field.table) /\ field.table # <<>> /\ None \notin ToSet(field.table)

ASSUME IndexRows == \A in \in Inputs : in.kind = "index" => \A field \in in.index.fields : IsFieldRow(field)

\* The impact of a change reads the same from both ends: what reaches a symbol is
\* reached from it, a field and its users name each other, a file answers for its
\* symbols, and a target of unknown type is one of a known type (impactAnalyzer.ts).
ImpactIsMutual ==
  input.kind = "index" =>
    /\ Impact!ReachIsMutual(input.index) /\ Impact!UsesAreMutual(input.index)
    /\ Impact!FilesCoverTheirSymbols(input.index)
    /\ \A target \in input.targets : Impact!AutoIsSomeType(input.index, target)

\* What is read has a path, a size and a claimed size (zipHandler.ts, gitHandler.ts);
\* the limits and the chunk are numbers of the configuration.
ASSUME EntriesAreRead == \A in \in Inputs : in.kind = "import" => in.entries \in Seq(Entries)
ASSUME LimitsAreNumbers ==
  /\ ImportLimits \in [entries : Nat, files : Nat, single : Nat, total : Nat]
  /\ ChunkSize \in Nat \ {0}

\* An archive may name a path twice, a file system does not.
IsTree(entries) == \A i, j \in DOMAIN entries : i # j => entries[i].path # entries[j].path

\* Nothing that could be imported disappears but what is named here: every supported
\* file is kept once or warned of, unless an archive has it in an ignored folder, as a
\* lock file or under a name that holds ".env" anywhere, as MyApp.Environment.pas does,
\* or a clone has it in an ignored folder or under a bare extension.  No two kept files
\* have one name, limits hold whatever the archive declares, and an archive and a clone
\* of one tree without such files are one project (extractFilesFromZipBuffer,
\* scanDirectoryForCodeFiles, saveExtractedFiles).
ImportsAccountForTheirFiles ==
  input.kind = "import" =>
    /\ ZipAccountsForItsEntries(input.entries, ImportLimits)
    /\ IsTree(input.entries) =>
         /\ GitAccountsForItsTree(input.entries, ImportLimits)
         /\ ArchiveAndCloneAgree(input.entries, ImportLimits)
    /\ RowsAreSavedOnce(input.entries, ChunkSize)
=============================================================================
