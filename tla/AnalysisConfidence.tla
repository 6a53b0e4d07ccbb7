-------------------------- MODULE AnalysisConfidence --------------------------
(***************************************************************************)
(* The confidence score: a hundred less what is known to be uncertain,     *)
(* each kind of uncertainty up to a limit.  The evidence is                *)
(*   [metrics, imports, warnings, types, risks]                            *)
(* with the counts and maps of the analysis, the import warnings, the      *)
(* analyzer's warnings (records [code, file, level, heuristic, about]),    *)
(* the extensions of the files, in a sequence, and the risks.              *)
(***************************************************************************)
EXTENDS RiskRules

KnownTypes == {"go", "sql", "pas", "dpr", "delphi", "dfm", "inc", "dpk", "fmx"}
DelphiTypes == KnownTypes \ {"go", "sql"}

UpTo(limit, loss) == IF loss > limit THEN limit ELSE loss

\* A share of the limit, rounded up.
ShareOf(limit, part, whole) == IF whole = 0 THEN 0 ELSE UpTo(limit, (part * limit + whole - 1) \div whole)

AllWarnings(evidence) == evidence.imports \cup evidence.warnings
WarningsWith(warnings, Fits(_)) == Cardinality({warning \in warnings : Fits(warning)})
RisksTitled(evidence, titles) == Cardinality({risk \in evidence.risks : risk.title \in titles})

LimitedFiles(evidence) ==
  {warning.file : warning \in {w \in AllWarnings(evidence) :
                                 w.file # None /\ (w.code = "IMPORT_LIMITED_ANALYSIS" \/ w.heuristic)}}

CoverageLoss(metrics) ==
  IF metrics.analyzed > metrics.eligible THEN 0
  ELSE ShareOf(25, metrics.eligible - metrics.analyzed, metrics.eligible)

TypeLoss(types) ==
  ShareOf(12, Cardinality({n \in DOMAIN types : types[n] \notin KnownTypes}), Len(types))

FormLoss(types) ==
  CASE types \cap DelphiTypes = {} -> 0
    [] types \cap DelphiTypes # {} /\ {"pas", "dfm"} \subseteq types -> 0
    [] OTHER -> IF "pas" \in types THEN 3 ELSE 4

EntryLoss(types) ==
  IF types \cap DelphiTypes = {} \/ types \cap {"dpr", "dproj", "dpk"} # {} THEN 0 ELSE 4

UnresolvedBindings(bindings) ==
  {binding \in bindings : binding.confidence # "high" \/ binding.access = "unresolved"}

\* Built from pieces: as the parser or as the risk detector sees it.
DynamicSqlCount(evidence) ==
  LET Dynamic(warning) == warning.code = "SQL_DYNAMIC_STRING"
  IN  WarningsWith(AllWarnings(evidence), Dynamic) + RisksTitled(evidence, {"dynamic sql"})

\* What the score takes for an empty handler.  The detector calls its finding "broad
\* or empty" handling, which is none of these: no handler ever costs anything.
SwallowingTitles == {"empty exception", "empty except", "swallowed exception"}

\* A binding's warning speaks of a runtime assignment when it says no more, or
\* when the source is missing.
NamesRuntime(warning) ==
  warning.code = "DELPHI_DATA_BINDING_UNRESOLVED"
  /\ (warning.about.warnings = {} \/ "NO_SOURCE" \in warning.about.warnings)

Breakdown(evidence) ==
  LET Material(warning) == warning.level # "note"
      types == ToSet(evidence.types)
      metrics == evidence.metrics
  IN  [coverage |-> CoverageLoss(metrics),
       degraded |-> UpTo(20, 2 * (metrics.skipped + metrics.degraded)),
       limited  |-> UpTo(20, 2 * Cardinality(LimitedFiles(evidence))),
       imports  |-> UpTo(15, 2 * Cardinality(evidence.imports)),
       warnings |-> UpTo(20, WarningsWith(evidence.warnings, Material)),
       types    |-> TypeLoss(evidence.types),
       forms    |-> FormLoss(types),
       entry    |-> EntryLoss(types),
       events   |-> UpTo(20, 4 * metrics.unresolvedEvents),
       bindings |-> UpTo(20, 4 * Cardinality(UnresolvedBindings(metrics.bindings))),
       dynamic  |-> UpTo(18, 3 * DynamicSqlCount(evidence)),
       paths    |-> UpTo(12, 2 * RisksTitled(evidence, {"hardcoded path"})),
       handlers |-> UpTo(10, 2 * RisksTitled(evidence, SwallowingTitles)),
       runtime  |-> UpTo(12, 3 * WarningsWith(AllWarnings(evidence), NamesRuntime))]

CalculateAnalysisConfidence(evidence) ==
  LET losses == Breakdown(evidence)
      left   == 100 - FoldSet(LAMBDA kind, sum : sum + losses[kind], 0, DOMAIN losses)
  IN  IF left < 0 THEN 0 ELSE left

ConfidenceLevel(score) == CASE score >= 80 -> "high" [] score \in 60..79 -> "medium" [] score < 60 -> "low"
=============================================================================
