------------------------------- MODULE RiskRules -------------------------------
(***************************************************************************)
(* The risks found in a file's lines and in the field references, and the  *)
(* rules made of them.  A risk is [title, severity, category, file, line,  *)
(* about]; about is what its description names.  Each line of a file has   *)
(* marks, the patterns it matches:                                         *)
(*   date, number, string - literals (blank and commented lines have none) *)
(*   field, param, add, text, component, path - Delphi data access         *)
(*   except, raise, endLine, semicolon, handles - exception handlers       *)
(*   datetime, amount - conversions                                        *)
(*   unguarded - an UPDATE or DELETE without WHERE starts here             *)
(* and blank when there is nothing else on it.                             *)
(***************************************************************************)
EXTENDS SourceParsers

Risk(title, severity, category, file, line, about) ==
  [title |-> title, severity |-> severity, category |-> category, file |-> file.path, line |-> line,
   about |-> about]

\* One risk per line and mark of the table.
RisksOfMarks(file, table) ==
  LET Found(n) == {Risk(table[mark].title, table[mark].severity, table[mark].category, file, n, mark) :
                     mark \in DOMAIN table \cap file.lines[n].marks}
  IN  OnEachLine(file, Found)

TableEntry(title, severity, category) == [title |-> title, severity |-> severity, category |-> category]

DetectMagicValues(file) ==
  RisksOfMarks(file,
    [date   |-> TableEntry("date literal", "medium", "magic_value"),
     number |-> TableEntry("numeric literal", "medium", "magic_value"),
     string |-> TableEntry("string literal", "low", "magic_value")])

DetectMissingConditions(file) ==
  RisksOfMarks(file, [unguarded |-> TableEntry("write without where", "critical", "missing_condition")])

DetectFormatConversionRisks(file) ==
  RisksOfMarks(file,
    [datetime |-> TableEntry("date/time conversion", "medium", "format_conversion"),
     amount   |-> TableEntry("amount conversion", "high", "format_conversion")])

\* The lines after an except, nine at most, up to the first that ends the handler
\* or does something.
IsEmptyHandler(file, n) ==
  LET decisive == {i \in (n + 1)..Len(file.lines) :
                     i <= n + 9 /\ file.lines[i].marks \cap {"endLine", "semicolon", "handles"} # {}}
      first == FirstOr(decisive, 0)
  IN  first # 0 /\ file.lines[first].marks \cap {"endLine", "semicolon"} # {}

EmptyHandlers(file) ==
  LET Found(n) ==
        IF "except" \in file.lines[n].marks /\ "raise" \notin file.lines[n].marks /\ IsEmptyHandler(file, n)
          THEN {Risk("broad or empty handling", "high", "other", file, n, "except")} ELSE {}
  IN  OnEachLine(file, Found)

DetectDelphiPatterns(file) ==
  EmptyHandlers(file) \cup
  RisksOfMarks(file,
    [field     |-> TableEntry("field access", "low", "other"),
     param     |-> TableEntry("query parameter", "low", "other"),
     add       |-> TableEntry("dynamic sql", "high", "other"),
     text      |-> TableEntry("dynamic sql", "high", "other"),
     component |-> TableEntry("database component", "low", "other"),
     path      |-> TableEntry("hardcoded path", "medium", "other")])

RisksOfFile(file) ==
  DetectMagicValues(file) \cup DetectMissingConditions(file) \cup DetectFormatConversionRisks(file)
    \cup (IF IsDelphiLike(file) THEN DetectDelphiPatterns(file) ELSE {})

(***************************************************************************)
(* Fields written in more than one place.  References to one place and     *)
(* field are one; a field is [family, part], and fields of one family      *)
(* share a rule.                                                           *)
(***************************************************************************)
Writes(references) == {reference \in references : reference.type = "write"}
FieldKey(reference) == <<reference.table, reference.field>>

WritesTo(references, key) == {reference \in Writes(references) : FieldKey(reference) = key}

\* Variant for the mutants: a field is suspect only from its third writer on.
WrittenThrice(references) ==
  {key \in {FieldKey(reference) : reference \in Writes(references)} : Cardinality(WritesTo(references, key)) > 2}

WrittenTwice(references) ==
  {key \in {FieldKey(reference) : reference \in Writes(references)} : Cardinality(WritesTo(references, key)) >= 2}

\* The first reference the code meets is some reference of the lowest line.
FirstWrite(references, key) ==
  CHOOSE reference \in WritesTo(references, key) :
    \A other \in WritesTo(references, key) : reference.line <= other.line

DetectMultipleWrites(references) ==
  {[title |-> "multiple writes", severity |-> IF Cardinality(WritesTo(references, key)) >= 3 THEN "high" ELSE "medium",
    category |-> "multiple_writes", file |-> FirstWrite(references, key).file,
    line |-> FirstWrite(references, key).line, about |-> key] : key \in WrittenTwice(references)}

Weights == [critical |-> 40, high |-> 20, medium |-> 8, low |-> 3]
CalculateRiskScore(risks) == FoldSet(LAMBDA risk, score : score + Weights[risk.severity], 0, risks)

(***************************************************************************)
(* Rules: [type, of, count].  A risk's rule is that of its file and title, *)
(* a field's that of its table and family.                                 *)
(***************************************************************************)
Rule(type, of, count) == [type |-> type, of |-> of, count |-> count]

RuleTypeOf(category) ==
  CASE category = "magic_value" -> "magic_value"
    [] category = "format_conversion" -> "format"

GroupedRiskRules(risks) ==
  LET ruled == {risk \in risks : risk.category \in {"magic_value", "format_conversion"}}
      Group(risk) == {other \in ruled : other.category = risk.category /\ other.file = risk.file
                                        /\ other.title = risk.title}
  IN  {Rule(RuleTypeOf(risk.category), <<risk.file, risk.title>>, Cardinality(Group(risk))) : risk \in ruled}

FamilyOf(field) == field[1]
OwnershipRules(references) ==
  LET keys == WrittenTwice(references)
      Group(key) == {other \in keys : other[1] = key[1] /\ FamilyOf(other[2]) = FamilyOf(key[2])}
  IN  {Rule("validation", <<key[1], FamilyOf(key[2])>>, Cardinality(Group(key))) : key \in keys}

CalculationRules(references) ==
  {Rule("calculation", FieldKey(reference), 1) : reference \in {r \in references : r.type = "calculate"}}

BuildRules(references, risks) ==
  CalculationRules(references) \cup OwnershipRules(references) \cup GroupedRiskRules(risks)
=============================================================================
