-------------------------------- MODULE SqlText --------------------------------
(***************************************************************************)
(* How SQL text is cut into lists, names, bodies and statements.  A text   *)
(* is a sequence of characters of which only the marks matter: quotes      *)
(* (single, double, back), brackets, parentheses, the comma and the dot;   *)
(* any other character stands for itself.                                  *)
(***************************************************************************)
EXTENDS Integers, Sequences, FiniteSets, SequencesExt

NoQuote == "none"
QuoteMarks == {"'", "\"", "back"}

(***************************************************************************)
(* The scanner: inside a quote only its end counts, and a doubled quote    *)
(* mark is no end; outside, parentheses nest.                              *)
(***************************************************************************)
ScanStart == [quote |-> NoQuote, depth |-> 0, doubled |-> FALSE]

AfterQuoted(state, char, next) ==
  CASE state.doubled -> [state EXCEPT !.doubled = FALSE]
    [] ~state.doubled /\ state.quote = "[" ->
         IF char = "]" THEN [state EXCEPT !.quote = NoQuote] ELSE state
    [] ~state.doubled /\ state.quote # "[" /\ char = state.quote ->
         IF next = char THEN [state EXCEPT !.doubled = TRUE] ELSE [state EXCEPT !.quote = NoQuote]
    [] OTHER -> state

AfterPlain(state, char) ==
  CASE char \in QuoteMarks \cup {"["} -> [state EXCEPT !.quote = char]
    [] char = "(" -> [state EXCEPT !.depth = @ + 1]
    [] char = ")" -> [state EXCEPT !.depth = IF @ = 0 THEN 0 ELSE @ - 1]
    [] OTHER -> state

\* The state before each position of the text, and after its end.
States(text) ==
  LET Next(i) == IF i < Len(text) THEN text[i + 1] ELSE NoQuote
      After(state, i) == IF state.quote # NoQuote THEN AfterQuoted(state, text[i], Next(i))
                                                 ELSE AfterPlain(state, text[i])
  IN  FoldLeftDomain(LAMBDA states, i : Append(states, After(Last(states), i)), <<ScanStart>>, text)

(***************************************************************************)
(* Lists and dotted names.                                                 *)
(***************************************************************************)
\* Variant for the mutants: a comma in a call's arguments cuts the list.
IsCutAtAnyDepth(state, depth) == state.quote = NoQuote
IsCut(state, depth) == state.quote = NoQuote /\ (depth => state.depth = 0)

CutText(text, mark, depth) ==
  LET states == States(text)
  IN  FoldLeftDomain(LAMBDA parts, i :
                       IF text[i] = mark /\ IsCut(states[i], depth) THEN Append(parts, <<>>)
                       ELSE [parts EXCEPT ![Len(parts)] = Append(@, text[i])],
                     <<<<>>>>, text)
Filled(parts) == SelectSeq(parts, LAMBDA part : part # <<>>)

\* Quote marks are stripped from both ends, then one pair of brackets.
StripMarks(text) ==
  LET kept == {i \in DOMAIN text : text[i] \notin QuoteMarks}
  IN  IF kept = {} THEN <<>>
      ELSE SubSeq(text, CHOOSE i \in kept : \A j \in kept : i <= j,
                        CHOOSE i \in kept : \A j \in kept : i >= j)

NormalizeSqlIdentifier(text) ==
  LET name == StripMarks(text)
  IN  IF Len(name) >= 2 /\ Head(name) = "[" /\ Last(name) = "]"
        THEN SubSeq(name, 2, Len(name) - 1) ELSE name

SplitSqlList(text) == Filled(CutText(text, ",", TRUE))

SplitQualifiedIdentifier(text) ==
  LET parts == CutText(text, ".", FALSE)
  IN  Filled([n \in DOMAIN parts |-> NormalizeSqlIdentifier(parts[n])])

TableParts(text) == SplitQualifiedIdentifier(text)
\* A column's name loses its outer marks before it is split.
FieldParts(text) == SplitQualifiedIdentifier(NormalizeSqlIdentifier(text))

(***************************************************************************)
(* Bodies in parentheses: of CREATE TABLE, minding quotes, and of a common *)
(* table expression, not minding them.  0 stands for no end.               *)
(***************************************************************************)
FirstOf(positions) == IF positions = {} THEN 0 ELSE CHOOSE i \in positions : \A j \in positions : i <= j

TableBodyEnd(text, open) ==
  LET states == States(SubSeq(text, open, Len(text)))
  IN  FirstOf({i \in (open + 1)..Len(text) :
                 states[i - open + 2].depth = 0 /\ states[i - open + 2].quote = NoQuote
                 /\ text[i] = ")"})

CteBodyEnd(text, open) ==
  LET depth[i \in open..Len(text)] ==
        (IF i = open THEN 0 ELSE depth[i - 1])
        + (IF text[i] = "(" THEN 1 ELSE 0) - (IF text[i] = ")" THEN 1 ELSE 0)
  IN  FirstOf({i \in open..Len(text) : depth[i] = 0})

(***************************************************************************)
(* Statements of a file: runs of lines from a keyword to a semicolon, a    *)
(* blank line or the end; and string literals, with what is joined to      *)
(* them.  A line is [blank, starts, ends]; a token is a string literal     *)
(* [kind, starts] or another token [kind].                                 *)
(***************************************************************************)
Gather(open, statements) ==
  IF open = <<>> THEN statements ELSE Append(statements, open)

\* Folded over the line numbers: the numbers of the open statement's lines, and
\* the closed statements.
ParseSqlStatements(lines) ==
  LET Read(state, n) ==
        CASE lines[n].blank -> [open |-> <<>>, closed |-> Gather(state.open, state.closed)]
          [] ~lines[n].blank /\ (state.open # <<>> \/ lines[n].starts) ->
               IF lines[n].ends
                 THEN [open |-> <<>>, closed |-> Append(state.closed, Append(state.open, n))]
                 ELSE [state EXCEPT !.open = Append(@, n)]
          [] OTHER -> state
      end == FoldLeftDomain(Read, [open |-> <<>>, closed |-> <<>>], lines)
  IN  Gather(end.open, end.closed)

IsJoined(tokens, n) == n > 2 /\ tokens[n].kind = "string" /\ tokens[n - 1].kind = "join"
                       /\ tokens[n - 2].kind = "string"

\* The tokens of each fragment: a literal that starts with a keyword and the
\* literals joined after it.
ExtractQuotedSqlFragments(tokens) ==
  LET Read(state, n) ==
        CASE tokens[n].kind = "string" /\ state.open # <<>> /\ IsJoined(tokens, n) ->
               [state EXCEPT !.open = Append(@, n)]
          [] tokens[n].kind = "string" /\ ~(state.open # <<>> /\ IsJoined(tokens, n)) ->
               [open |-> IF tokens[n].starts THEN <<n>> ELSE <<>>,
                closed |-> Gather(state.open, state.closed)]
          [] OTHER -> state
      end == FoldLeftDomain(Read, [open |-> <<>>, closed |-> <<>>], tokens)
  IN  Gather(end.open, end.closed)

(***************************************************************************)
(* What the cuts promise.                                                  *)
(***************************************************************************)
Joined(parts, mark) ==
  FoldLeft(LAMBDA text, part : IF text = <<>> THEN part ELSE text \o <<mark>> \o part, <<>>, parts)

\* A list written from elements is read back as these elements, whatever commas,
\* parentheses and doubled quotes they hold.
ListIsReadBack(elements) == SplitSqlList(Joined(elements, ",")) = elements

\* A table name keeps its parts, however they are quoted.
TableNameIsReadBack(parts) ==
  TableParts(Joined(parts, ".")) = [n \in DOMAIN parts |-> NormalizeSqlIdentifier(parts[n])]

\* A column's name loses the marks at its ends before it is split.  It keeps its parts
\* if these marks are those of one part that has no dot, or of the last part only:
\* [o].[id], with both ends in brackets, and "o".id, with a quote mark in front, are
\* cut elsewhere or not at all.
MarksAreOfOnePart(parts) ==
  LET first == Head(Head(parts))
      last  == Last(Last(parts))
  IN  IF Len(parts) = 1 THEN "." \notin ToSet(NormalizeSqlIdentifier(Head(parts)))
      ELSE first \notin QuoteMarks /\ ~(first = "[" /\ last = "]")
FieldNameIsReadBack(parts) ==
  FieldParts(Joined(parts, ".")) = [n \in DOMAIN parts |-> NormalizeSqlIdentifier(parts[n])]
FieldNamesAreReadBack(parts) == parts # <<>> => (FieldNameIsReadBack(parts) <=> MarksAreOfOnePart(parts))

\* A table's body ends at its own parenthesis.
BodyIsWhole(elements) ==
  LET text == <<"(">> \o Joined(elements, ",") \o <<")">>
  IN  TableBodyEnd(text \o <<",", ")">>, 1) = Len(text)

\* Every line from a keyword on is in one statement, in order, until it ends.
StatementsAreRuns(lines) ==
  LET statements == ParseSqlStatements(lines)
  IN  /\ \A n \in DOMAIN statements :
           /\ lines[Head(statements[n])].starts
           /\ \A k \in 1..(Len(statements[n]) - 1) :
                /\ statements[n][k + 1] = statements[n][k] + 1
                /\ ~lines[statements[n][k]].ends
           /\ \A k \in DOMAIN statements[n] : ~lines[statements[n][k]].blank
      /\ \A m, n \in DOMAIN statements : m < n => Last(statements[m]) < Head(statements[n])
      /\ \A i \in DOMAIN lines :
           lines[i].starts => \E n \in DOMAIN statements : i \in ToSet(statements[n])
=============================================================================
