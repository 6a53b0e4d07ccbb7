----------------------------- MODULE SourceImport -----------------------------
(***************************************************************************)
(* What an import keeps of a ZIP archive or of a cloned repository.  An    *)
(* entry is                                                                *)
(*   [root, path, kind, declared, size, legacy]                            *)
(* root: how the raw path starts, none, here, slash or drive; path: its    *)
(* segments, records [stem, upper, ext], in which upper tells the names    *)
(* that differ from others by their case only; kind: file, directory,      *)
(* link, or outside for what really lies elsewhere; declared: the size     *)
(* that the archive claims; legacy: its text is not UTF-8.  The name of a  *)
(* folder is all stem; ".sql" has the extension sql and an empty stem.     *)
(* Limits are [entries, files, single, total].                             *)
(***************************************************************************)
EXTENDS Integers, Sequences, FiniteSets, SequencesExt

CONSTANTS NoRefusal,
          EnvironmentNames \* the names <<stem, ext>> that hold ".env" anywhere, in any case

RefusalCodes == {"ZIP_INVALID", "ZIP_DUPLICATE_PATH", "ZIP_UNSAFE_PATH", "IMPORT_FAILED", "EMPTY_SOURCE"}

ASSUME NoRefusalIsNoCode == NoRefusal \notin RefusalCodes

Segments == [stem : STRING, upper : BOOLEAN, ext : STRING]
Entries ==
  [root : {"none", "here", "slash", "drive"}, path : Seq(Segments), kind : {"file", "directory", "link", "outside"},
   declared : Nat, size : Nat, legacy : BOOLEAN]

LimitedAnalysisExtensions == {"dfm", "inc", "dpk", "fmx", "dproj", "groupproj", "bdsproj", "cfg", "dof", "rc"}
SupportedSourceExtensions == {"go", "sql", "pas", "dpr", "delphi"} \cup LimitedAnalysisExtensions
UnsupportedCodeExtensions ==
  {"ts", "js", "java", "py", "rb", "php", "cs", "cpp", "c", "h", "hpp", "scala", "kt", "rs", "swift"}

ZipIgnoredDirectories == {"node_modules", ".git", "dist", "build", "target", ".idea", ".vscode"}
GitIgnoredDirectories == ZipIgnoredDirectories \cup {".hg", ".svn", ".next"}

\* getExtension: what follows the last dot.  For path.extname, which reads the
\* files of a repository, a name that begins with its only dot has no extension.
ExtensionOf(path) == path[Len(path)].ext
HasNoExtensionInGit(path) == path[Len(path)].stem = ""
IsSupported(path) == ExtensionOf(path) \in SupportedSourceExtensions
Folders(path) == {path[i] : i \in 1..(Len(path) - 1)}

\* Names are ignored as they are written, in lower case.
LiesUnder(path, names) == \E folder \in Folders(path) : ~folder.upper /\ folder.stem \in names

(***************************************************************************)
(* Variant for the mutants: the case is kept.                              *)
(***************************************************************************)
CaseKept(path) == path

\* normalizeArchivePathCollisionKey: without the trailing slash of a directory,
\* and in lower case.
CollisionKey(path) == [i \in DOMAIN path |-> [path[i] EXCEPT !.upper = FALSE]]

IsAbsolute(entry) == entry.root \in {"slash", "drive"}
IsSafeRelativePath(path) == path # <<>> /\ \A i \in DOMAIN path : path[i].stem \notin {".", ".."}

\* shouldIgnoreFile: the pattern of the environment files is looked for anywhere, so
\* that a unit app.Environment and all that is in a folder .environments match too.
IgnoredByZip(path) ==
  \/ Len(path) > 1 /\ path[1].stem = "__MACOSX" /\ ~path[1].upper
  \/ LiesUnder(path, ZipIgnoredDirectories)
  \/ ExtensionOf(path) = "lock"
  \/ \E i \in DOMAIN path : <<path[i].stem, path[i].ext>> \in EnvironmentNames

Warning(code, entry) == [code |-> code, path |-> entry.path]
Warned(import, code, entry) == [import EXCEPT !.warnings = Append(@, Warning(code, entry))]
WarnedIf(import, condition, code, entry) == IF condition THEN Warned(import, code, entry) ELSE import
Refused(import, code) == [import EXCEPT !.refusal = code]

Unsupported(import, entry) ==
  WarnedIf(import, ExtensionOf(entry.path) \in UnsupportedCodeExtensions, "IMPORT_LANGUAGE_UNSUPPORTED", entry)

Kept(import, entry) ==
  LET limited == WarnedIf(import, ExtensionOf(entry.path) \in LimitedAnalysisExtensions, "IMPORT_LIMITED_ANALYSIS", entry)
      decoded == WarnedIf(limited, entry.legacy, "IMPORT_ENCODING_DETECTED", entry)
  IN  [decoded EXCEPT !.files = Append(@, [path |-> entry.path, size |-> entry.size])]

NothingRead == [refusal |-> NoRefusal, seen |-> {}, candidates |-> 0, declared |-> 0, total |-> 0,
                files |-> <<>>, warnings |-> <<>>]

(***************************************************************************)
(* extractFilesFromZipBuffer.                                              *)
(***************************************************************************)
\* A supported file: it counts toward the limit of files even when it is too
\* large to be kept.
ZipSource(import, entry, limits) ==
  LET counted  == [import EXCEPT !.candidates = @ + 1]
      declared == [counted EXCEPT !.declared = @ + entry.declared]
      read     == [declared EXCEPT !.total = @ + entry.size]
  IN  CASE counted.candidates > limits.files -> Refused(counted, "ZIP_INVALID")
        [] counted.candidates <= limits.files /\ entry.declared > limits.single ->
             Warned(counted, "IMPORT_FILE_TOO_LARGE", entry)
        [] OTHER ->
             CASE declared.declared > limits.total -> Refused(declared, "ZIP_INVALID")
               [] declared.declared <= limits.total /\ entry.size > limits.single ->
                    Warned(declared, "IMPORT_FILE_TOO_LARGE", entry)
               [] OTHER -> IF read.total > limits.total THEN Refused(read, "ZIP_INVALID") ELSE Kept(read, entry)

ZipEntry(import, entry, limits) ==
  LET key  == CollisionKey(entry.path)
      seen == [import EXCEPT !.seen = @ \cup ({key} \ {<<>>})]
  IN  CASE import.refusal # NoRefusal -> import
        [] import.refusal = NoRefusal /\ key \in import.seen -> Refused(import, "ZIP_DUPLICATE_PATH")
        [] OTHER ->
             CASE entry.kind = "directory" -> seen
               [] entry.kind # "directory" /\ (IsAbsolute(entry) \/ ~IsSafeRelativePath(entry.path)) ->
                    Refused(seen, "ZIP_UNSAFE_PATH")
               [] OTHER ->
                    CASE IgnoredByZip(entry.path) -> seen
                      [] ~IgnoredByZip(entry.path) /\ ~IsSupported(entry.path) -> Unsupported(seen, entry)
                      [] OTHER -> ZipSource(seen, entry, limits)

NotEmpty(import) == IF import.refusal = NoRefusal /\ import.files = <<>> THEN Refused(import, "EMPTY_SOURCE") ELSE import

ExtractFilesFromZip(entries, limits) ==
  IF Len(entries) > limits.entries
  THEN Refused(NothingRead, "ZIP_INVALID")
  ELSE NotEmpty(FoldLeft(LAMBDA import, entry : ZipEntry(import, entry, limits), NothingRead, entries))

(***************************************************************************)
(* scanDirectoryForCodeFiles, on the entries in the order of the walk, and *)
(* cloneAndExtractFiles.                                                   *)
(***************************************************************************)
GitSource(import, entry, limits) ==
  LET counted == [import EXCEPT !.candidates = @ + 1]
      read    == [counted EXCEPT !.total = @ + entry.size]
  IN  CASE entry.size > limits.single -> Warned(import, "IMPORT_FILE_TOO_LARGE", entry)
        [] entry.size <= limits.single /\ (counted.candidates > limits.files \/ read.total > limits.total) ->
             Refused(read, "IMPORT_FAILED")
        [] OTHER -> Kept(read, entry)

GitEntry(import, entry, limits) ==
  CASE import.refusal # NoRefusal \/ LiesUnder(entry.path, GitIgnoredDirectories) -> import
    [] entry.kind = "outside" /\ import.refusal = NoRefusal /\ ~LiesUnder(entry.path, GitIgnoredDirectories) ->
         Warned(import, "IMPORT_UNSAFE_PATH", entry)
    [] OTHER ->
         CASE entry.kind \in {"directory", "link"} -> import
           [] entry.kind = "file" /\ ~IsSafeRelativePath(entry.path) -> Warned(import, "IMPORT_UNSAFE_PATH", entry)
           [] OTHER ->
                CASE HasNoExtensionInGit(entry.path) -> import
                  [] ~HasNoExtensionInGit(entry.path) /\ ~IsSupported(entry.path) -> Unsupported(import, entry)
                  [] OTHER -> GitSource(import, entry, limits)

CloneAndExtractFiles(entries, limits) ==
  NotEmpty(FoldLeft(LAMBDA import, entry : GitEntry(import, entry, limits), NothingRead, entries))

(***************************************************************************)
(* saveExtractedFiles: the rows are inserted a chunk at a time, and the    *)
(* file statistics counted over them.                                      *)
(***************************************************************************)
Chunks(rows, size) ==
  [k \in 1..((Len(rows) + size - 1) \div size) |->
     SubSeq(rows, (k - 1) * size + 1, IF k * size < Len(rows) THEN k * size ELSE Len(rows))]

LanguageOf(extension) ==
  CASE extension = "go" -> "go" [] extension = "sql" -> "sql"
    [] extension \in SupportedSourceExtensions \ {"go", "sql"} -> "delphi" [] OTHER -> "unknown"

StatsBy(keys) == [key \in ToSet(keys) |-> Cardinality({i \in DOMAIN keys : keys[i] = key})]

StatsByExtension(rows) == StatsBy([i \in DOMAIN rows |-> ExtensionOf(rows[i].path)])
StatsByLanguage(rows)  == StatsBy([i \in DOMAIN rows |-> LanguageOf(ExtensionOf(rows[i].path))])

-----------------------------------------------------------------------------
SameName(p, q) == Len(p) = Len(q) /\ \A i \in DOMAIN p : p[i].stem = q[i].stem /\ p[i].ext = q[i].ext
About(import, code) == {warning.path : warning \in {w \in ToSet(import.warnings) : w.code = code}}
KeptPaths(import) == {file.path : file \in ToSet(import.files)}
BytesOf(files) == FoldLeft(LAMBDA sum, file : sum + file.size, 0, files)

WithinLimits(import, limits) ==
  /\ Len(import.files) <= limits.files /\ BytesOf(import.files) <= limits.total
  /\ \A file \in ToSet(import.files) : file.size <= limits.single

\* An import that is not refused keeps every supported file that it does not
\* ignore, or warns of it, once and never both; it warns of the code it cannot read,
\* tells of nothing else, and stays within its limits.
AccountsFor(import, considered, limits) ==
  LET tooLarge == About(import, "IMPORT_FILE_TOO_LARGE")
  IN  import.refusal = NoRefusal =>
        /\ \A entry \in considered :
             /\ IsSupported(entry.path) => (entry.path \in KeptPaths(import)) # (entry.path \in tooLarge)
             /\ ExtensionOf(entry.path) \in UnsupportedCodeExtensions
                  => entry.path \in About(import, "IMPORT_LANGUAGE_UNSUPPORTED")
        /\ KeptPaths(import) \cup tooLarge \subseteq {entry.path : entry \in considered}
        /\ Cardinality(KeptPaths(import)) = Len(import.files)
        /\ WithinLimits(import, limits)

ZipAccountsForItsEntries(entries, limits) ==
  LET import == ExtractFilesFromZip(entries, limits)
      files  == {entry \in ToSet(entries) : entry.kind # "directory"}
  IN  /\ AccountsFor(import, {entry \in files : ~IgnoredByZip(entry.path)}, limits)
      /\ \A i, j \in DOMAIN import.files : i # j => ~SameName(import.files[i].path, import.files[j].path)
      /\ import.refusal = NoRefusal => \A entry \in files : ~IsAbsolute(entry) /\ IsSafeRelativePath(entry.path)

GitAccountsForItsTree(entries, limits) ==
  LET walked == {entry \in ToSet(entries) : ~LiesUnder(entry.path, GitIgnoredDirectories)}
      import == CloneAndExtractFiles(entries, limits)
      named  == {entry \in walked : entry.kind = "file" /\ IsSafeRelativePath(entry.path)
                                     /\ ~HasNoExtensionInGit(entry.path)}
  IN  /\ AccountsFor(import, named, limits)
      /\ import.refusal = NoRefusal =>
           \A entry \in walked : entry.kind = "outside" => entry.path \in About(import, "IMPORT_UNSAFE_PATH")

\* Sent as an archive or cloned, a tree of plain files is the same project, unless a
\* name in it holds ".env", which only an archive drops, or is no more than an
\* extension, which only a clone drops.
IsPlain(entries) ==
  \A entry \in ToSet(entries) :
    /\ entry.kind = "file" /\ entry.root = "none" /\ entry.declared = entry.size
    /\ ~IgnoredByZip(entry.path) /\ ~LiesUnder(entry.path, GitIgnoredDirectories)
    /\ ~HasNoExtensionInGit(entry.path)
ArchiveAndCloneAgree(entries, limits) ==
  LET zip == ExtractFilesFromZip(entries, limits)
      git == CloneAndExtractFiles(entries, limits)
  IN  (IsPlain(entries) /\ zip.refusal = NoRefusal) =>
        git.refusal = NoRefusal /\ git.files = zip.files /\ ToSet(git.warnings) = ToSet(zip.warnings)

\* Every kept file is in one chunk of the insert and counted once.
RowsAreSavedOnce(rows, size) ==
  /\ FlattenSeq(Chunks(rows, size)) = rows
  /\ \A stats \in {StatsByExtension(rows), StatsByLanguage(rows)} :
       FoldSet(LAMBDA key, sum : sum + stats[key], 0, DOMAIN stats) = Len(rows)
=============================================================================
