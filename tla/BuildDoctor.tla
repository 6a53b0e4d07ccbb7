----------------------------- MODULE BuildDoctor -----------------------------
(***************************************************************************)
(* The static audit of a Delphi build.  A file is                          *)
(*   [path, stem, ext, unit, uses, explicit, resources, package,           *)
(*    requires, defines, search, include, output, runtime, members,        *)
(*    evidence, readable]                                                  *)
(* with what its text says: the unit or package it declares (or None), the *)
(* units it uses, those it names with a path, the resources and packages   *)
(* it refers to, and, for project metadata, the defines, paths, packages,  *)
(* group members and signs of a compiler, of which nothing is read when    *)
(* the text is no safe XML.  A path is a sequence of segments; a reference *)
(* is [absolute, macro, segments].  A package is [name, stem, path]: for a *)
(* path, name and stem are those of its file; a bare name has the path     *)
(* None and, as its stem, what precedes its last dot.  Letter case does    *)
(* not occur.                                                              *)
(***************************************************************************)
EXTENDS Integers, Sequences, FiniteSets, SequencesExt

CONSTANTS None,
          StandardUnits,   \* units and packages taken to come with Delphi
          StandardPackages

SourceExtensions   == {"pas", "dpr", "dpk", "inc"}
XmlExtensions      == {"dproj", "bdsproj", "groupproj"}
MetadataExtensions == XmlExtensions \cup {"cfg", "dof", "rc"}
DelphiExtensions   == (SourceExtensions \ {"inc"}) \cup MetadataExtensions \cup {"dfm", "fmx"}

WithExtension(files, extensions) == {file \in files : file.ext \in extensions}
PathsOf(files) == {file.path : file \in files}

(***************************************************************************)
(* Paths.                                                                  *)
(***************************************************************************)
CollapsePath(segments) ==
  FoldLeft(LAMBDA kept, segment :
             CASE segment = "." -> kept
               [] segment = ".." /\ kept # <<>> /\ Last(kept) # ".." -> Front(kept)
               [] OTHER -> Append(kept, segment),
           <<>>, segments)

\* Variant for the mutants: paths are taken from the root of the import.
ResolvedFromTheRoot(base, reference) ==
  [path     |-> IF reference.macro THEN None ELSE CollapsePath(reference.segments),
   absolute |-> reference.absolute,
   escaping |-> ~reference.macro /\ ".." \in ToSet(CollapsePath(reference.segments))]

\* From the directory of the file that holds the reference; whether it escapes
\* is told by the reference alone.
ResolveRelativePath(base, reference) ==
  [path     |-> CASE reference.macro -> None
                  [] ~reference.macro /\ reference.absolute -> <<"/">> \o CollapsePath(reference.segments)
                  [] OTHER -> CollapsePath(Front(base) \o reference.segments),
   absolute |-> reference.absolute,
   escaping |-> ~reference.macro /\ ".." \in ToSet(CollapsePath(reference.segments))]

IsMissing(files, base, reference) ==
  LET resolved == ResolveRelativePath(base, reference).path
  IN  resolved # None /\ resolved # <<>> /\ resolved \notin PathsOf(files)

(***************************************************************************)
(* Findings: [code, severity, file, about].                                *)
(***************************************************************************)
Finding(code, severity, file, about) == [code |-> code, severity |-> severity, file |-> file, about |-> about]
Warn(code, file, about) == Finding(code, "warning", file, about)

PathFindings(file, references) ==
  {Warn("DELPHI_ABSOLUTE_SEARCH_PATH", file.path, reference) :
     reference \in {r \in references : ResolveRelativePath(file.path, r).absolute}}
  \cup {Warn("DELPHI_ESCAPING_SEARCH_PATH", file.path, reference) :
          reference \in {r \in references : ResolveRelativePath(file.path, r).escaping}}

\* Metadata that is no safe XML gives one finding and nothing else.
ParseXmlMetadata(file) ==
  IF file.ext \notin XmlExtensions \/ file.readable THEN file
  ELSE [file EXCEPT !.defines = {}, !.search = {}, !.include = {}, !.output = {}, !.requires = {},
                    !.runtime = {}, !.members = {}, !.evidence = {}]

ParseFindings(files) ==
  {Warn("DELPHI_CONFIG_PARSE_LIMITED", file.path, None) :
     file \in {f \in WithExtension(files, XmlExtensions) : ~f.readable}}

\* Units.
UnitNameOf(file) == IF file.unit = None THEN file.stem ELSE file.unit
UnitFiles(files, unit) == {file \in WithExtension(files, SourceExtensions) : UnitNameOf(file) = unit}

MissingExplicit(files, file) == {explicit \in file.explicit : IsMissing(files, file.path, explicit.path)}

ExplicitUnitFindings(files) ==
  UNION {PathFindings(file, {explicit.path : explicit \in file.explicit})
           \cup {Finding("DELPHI_EXPLICIT_UNIT_PATH_MISSING", "blocker", file.path, explicit) :
                   explicit \in MissingExplicit(files, file)} :
         file \in WithExtension(files, SourceExtensions)}

MissingUnits(files) ==
  UNION {{explicit.unit : explicit \in MissingExplicit(files, file)} : file \in WithExtension(files, SourceExtensions)}

RequiredUnits(files) ==
  UNION {file.uses \cup {explicit.unit : explicit \in file.explicit} : file \in WithExtension(files, SourceExtensions)}

UnresolvedUnits(files) ==
  {unit \in RequiredUnits(files) : UnitFiles(files, unit) = {} /\ unit \notin StandardUnits}

UnitFindings(files) ==
  {Warn("DELPHI_UNIT_UNRESOLVED", None, unit) : unit \in UnresolvedUnits(files) \ MissingUnits(files)}
  \cup {Warn("DELPHI_UNIT_AMBIGUOUS", None, unit) :
          unit \in {UnitNameOf(file) : file \in {f \in WithExtension(files, SourceExtensions) :
                                                   Cardinality(UnitFiles(files, UnitNameOf(f))) > 1}}}

\* Search, include and output paths, resources and group members.
DirectoryFindings(files) ==
  UNION {PathFindings(file, file.search \cup file.include \cup file.output) : file \in files}

ResourceFindings(files) ==
  UNION {{Warn("DELPHI_RESOURCE_REFERENCE_MISSING", file.path, resource) :
            resource \in {r \in file.resources : IsMissing(files, file.path, r)}} :
         file \in WithExtension(files, SourceExtensions \cup {"rc"})}

GroupFiles(files) == WithExtension(files, {"groupproj"})
GroupMembers(files) == UNION {{<<file.path, member>> : member \in file.members} : file \in GroupFiles(files)}

MemberFindings(files) ==
  LET Place(listed) == ResolveRelativePath(listed[1], listed[2]).path
      twice == {listed \in GroupMembers(files) :
                  Place(listed) # None /\ \E other \in GroupMembers(files) \ {listed} : Place(other) = Place(listed)}
  IN  {Warn("DELPHI_GROUP_PROJECT_REFERENCE_MISSING", listed[1], listed[2]) :
         listed \in {l \in GroupMembers(files) : IsMissing(files, l[1], l[2])}}
      \cup {Warn("DELPHI_GROUP_PROJECT_REFERENCE_DUPLICATE", listed[1], listed[2]) : listed \in twice}

(***************************************************************************)
(* Packages.  References to one package from several files are one entry.  *)
(***************************************************************************)
PackageReferences(files) == UNION {{<<file.path, package>> : package \in file.requires} : file \in files}

\* A package file is known by its name and by its declaration.
PackageFiles(files, name) ==
  {file \in WithExtension(files, {"dpk"}) : name \in {file.package, file.stem}}

\* A package Core.Data is also taken for a local package Core.
LocalMatches(files, package) ==
  PathsOf(PackageFiles(files, package.name) \cup PackageFiles(files, package.stem))

MissingReferences(files, package) ==
  {listed \in PackageReferences(files) :
     listed[2] = package /\ package.path # None /\ IsMissing(files, listed[1], package.path)}

\* Variant for the mutants: a local package of that name hides a missing path.
ResolutionByName(local, missing, package) ==
  CASE local = 1 -> "project_local"
    [] local > 1 -> "ambiguous"
    [] local = 0 /\ missing -> "missing"
    [] OTHER -> IF package.name \in StandardPackages THEN "delphi_standard" ELSE "external_unverified"

ResolutionOf(local, missing, package) ==
  CASE missing -> "missing"
    [] ~missing /\ local = 1 -> "project_local"
    [] ~missing /\ local > 1 -> "ambiguous"
    [] OTHER -> IF package.path = None /\ package.name \in StandardPackages
                  THEN "delphi_standard" ELSE "external_unverified"

PackageResolution(files, package) ==
  ResolutionOf(Cardinality(LocalMatches(files, package)), MissingReferences(files, package) # {}, package)

PackageFindings(files) ==
  LET Severity(resolution) == IF resolution = "missing" THEN "blocker" ELSE "warning"
      Code == [missing |-> "DELPHI_PACKAGE_MISSING", ambiguous |-> "DELPHI_PACKAGE_AMBIGUOUS",
               external_unverified |-> "DELPHI_PACKAGE_UNRESOLVED"]
      resolved == {<<package, PackageResolution(files, package)>> :
                     package \in {listed[2] : listed \in PackageReferences(files)}}
  IN  {Finding(Code[found[2]], Severity(found[2]), None, found[1]) :
         found \in {pair \in resolved : pair[2] \in DOMAIN Code}}
      \cup {Warn("DELPHI_ABSOLUTE_SEARCH_PATH", listed[1], listed[2]) :
              listed \in {l \in PackageReferences(files) : l[2].path # None /\ l[2].path.absolute}}

(***************************************************************************)
(* The whole audit.                                                        *)
(***************************************************************************)
When(condition, finding) == IF condition THEN {finding} ELSE {}
ValuesOf(files, Of(_)) == UNION {Of(file) : file \in files}

ProjectFindings(files) ==
  LET Defines(file) == file.defines
      Runtime(file) == file.runtime
      Signs(file)   == file.evidence
  IN  When(WithExtension(files, {"dpr", "dpk"}) = {}, Warn("DELPHI_PROJECT_ENTRY_MISSING", None, None))
      \cup When(WithExtension(files, MetadataExtensions) = {}, Warn("DELPHI_PROJECT_METADATA_MISSING", None, None))
      \cup When(ValuesOf(files, Runtime) # {}, Finding("DELPHI_RUNTIME_PACKAGE_DETECTED", "info", None, None))
      \cup When(ValuesOf(files, Defines) # {}, Finding("DELPHI_CONDITIONAL_DEFINE_DETECTED", "info", None, None))
      \cup When(ValuesOf(files, Signs) = {}, Warn("DELPHI_COMPILER_VERSION_UNCERTAIN", None, None))

FindingsOf(imported) ==
  LET files == {ParseXmlMetadata(file) : file \in imported}
  IN  ParseFindings(imported) \cup ExplicitUnitFindings(files) \cup UnitFindings(files)
        \cup DirectoryFindings(files) \cup ResourceFindings(files) \cup MemberFindings(files)
        \cup PackageFindings(files) \cup ProjectFindings(files)

BuildPenalty == [blocker |-> 15, error |-> 8, warning |-> 3, info |-> 0]
ScoreBuildDoctorFindings(findings) ==
  LET score == FoldSet(LAMBDA finding, left : left - BuildPenalty[finding.severity], 100, findings)
  IN  IF score < 0 THEN 0 ELSE score

StatusOf(findings) ==
  LET severities == {finding.severity : finding \in findings}
  IN  CASE "blocker" \in severities -> "blocked"
        [] "blocker" \notin severities /\ severities \cap {"error", "warning"} # {} -> "ready_with_warnings"
        [] OTHER -> "ready"

Audit(findings) == [status |-> StatusOf(findings), score |-> ScoreBuildDoctorFindings(findings),
                    findings |-> findings]
AnalyzeDelphiBuild(files) ==
  IF WithExtension(files, DelphiExtensions) = {}
    THEN [status |-> "not_applicable", score |-> 100, findings |-> {}] ELSE Audit(FindingsOf(files))

(***************************************************************************)
(* What the audit owes the tree it audits.                                 *)
(***************************************************************************)
Verdict(audit) == <<audit.status, audit.score, {finding.code : finding \in audit.findings}>>
BlockersOf(audit) == {finding \in audit.findings : finding.severity = "blocker"}

\* The whole import moved into a directory, references left as they are.
Moved(files) == {[file EXCEPT !.path = <<"dir">> \o @] : file \in files}

\* A source file or package put where a reference looks for it, if that is in the
\* tree.
Imported(files, place, name, ext) ==
  files \cup IF ToSet(place) \cap {"/", ".."} # {} THEN {}
             ELSE {[path |-> place, stem |-> name, ext |-> ext, unit |-> None, uses |-> {}, explicit |-> {},
                    resources |-> {}, package |-> None, requires |-> {}, defines |-> {}, search |-> {},
                    include |-> {}, output |-> {}, runtime |-> {}, members |-> {}, evidence |-> {},
                    readable |-> TRUE]}

\* References mean places, not texts: the audit does not change when the import
\* is moved as a whole.
MovingChangesNothing(files) ==
  Verdict(AnalyzeDelphiBuild(files)) = Verdict(AnalyzeDelphiBuild(Moved(files)))

\* A build is blocked by files that are not imported and by nothing else:
\* importing them takes the blocker away.
BlockersAreMissingFiles(files) ==
  LET read == {ParseXmlMetadata(file) : file \in files}
      Places(blocker) ==
        CASE blocker.code = "DELPHI_EXPLICIT_UNIT_PATH_MISSING" -> {<<blocker.file, blocker.about.path>>}
          [] blocker.code = "DELPHI_PACKAGE_MISSING" ->
               {<<listed[1], listed[2].path>> : listed \in MissingReferences(read, blocker.about)}
      Kind(blocker) == IF blocker.code = "DELPHI_PACKAGE_MISSING" THEN <<blocker.about.name, "dpk">>
                                                                  ELSE <<blocker.about.unit, "pas">>
      Cured(blocker, places) ==
        \/ \E place \in places : ToSet(place) \cap {"/", ".."} # {}
        \/ blocker \notin BlockersOf(AnalyzeDelphiBuild(
             FoldSet(LAMBDA place, tree : Imported(tree, place, Kind(blocker)[1], Kind(blocker)[2]), files, places)))
  IN  \A blocker \in BlockersOf(AnalyzeDelphiBuild(files)) :
        Cured(blocker, {ResolveRelativePath(place[1], place[2]).path : place \in Places(blocker)})

\* A package with a path is local only when every place it is referred from finds it.
LocalPackagesAreThere(files) ==
  LET read == {ParseXmlMetadata(file) : file \in files}
  IN  \A listed \in PackageReferences(read) :
        PackageResolution(read, listed[2]) \in {"project_local", "ambiguous"} /\ listed[2].path # None =>
          ~IsMissing(files, listed[1], listed[2].path)
=============================================================================
