------------------------------- MODULE DfmForms -------------------------------
(***************************************************************************)
(* What is read from a Delphi form file.  A line of a form is              *)
(*   [kind, name, value, marks]                                            *)
(* an object of a class, an end, the start of a Columns list and its end   *)
(* on a line of its own, an event and its handler, a property and its      *)
(* value, or what is skipped: an item, and an end that also ends the list. *)
(* The marks are those of the risk detector.                               *)
(***************************************************************************)
EXTENDS SourceParsers

CONSTANT DbAwareClasses

(***************************************************************************)
(* Objects, in the order of the text, and the stack of those not ended.    *)
(* While the columns of an object are open an end closes nothing.          *)
(***************************************************************************)
FormStart == [objects |-> <<>>, stack |-> <<>>, columns |-> None]

FormObject(line, n) ==
  [name |-> line.name, class |-> line.value, line |-> n, events |-> <<>>, properties |-> <<>>,
   propertyLines |-> <<>>, columns |-> <<>>]

AddObject(state, line, n) ==
  [state EXCEPT !.objects = Append(@, FormObject(line, n)), !.stack = Append(@, Len(state.objects) + 1)]

EndObject(state) ==
  [state EXCEPT !.stack = IF @ = <<>> THEN @ ELSE Front(@), !.columns = None]

AddEvent(state, top, line, n) ==
  [state EXCEPT !.objects[top].events = Append(@, [name |-> line.name, handler |-> line.value, line |-> n])]

AddProperty(state, top, line, n) ==
  [state EXCEPT !.objects[top].properties = (line.name :> line.value) @@ @,
                !.objects[top].propertyLines = (line.name :> n) @@ @,
                !.objects[top].columns =
                  IF state.columns = top /\ line.name = "FieldName"
                    THEN Append(@, [field |-> line.value, line |-> n]) ELSE @]

\* Variant for the mutants: an end in a list of columns ends its object.
ReadLineEndingColumns(state, line, n) ==
  LET top == IF state.stack = <<>> THEN None ELSE Last(state.stack)
  IN  CASE line.kind = "object" -> AddObject(state, line, n)
        [] line.kind = "columns" /\ top # None -> [state EXCEPT !.columns = top]
        [] line.kind = "close" -> [state EXCEPT !.columns = None]
        [] line.kind = "end" -> EndObject(state)
        [] line.kind = "event" /\ top # None -> AddEvent(state, top, line, n)
        [] line.kind = "property" /\ top # None -> AddProperty(state, top, line, n)
        [] OTHER -> state

ReadLine(state, line, n) ==
  LET top == IF state.stack = <<>> THEN None ELSE Last(state.stack)
  IN  CASE line.kind = "object" -> AddObject(state, line, n)
        [] line.kind = "columns" /\ top # None -> [state EXCEPT !.columns = top]
        [] line.kind = "close" -> [state EXCEPT !.columns = None]
        [] line.kind = "end" -> IF state.columns = None THEN EndObject(state) ELSE state
        [] line.kind = "event" /\ top # None -> AddEvent(state, top, line, n)
        [] line.kind = "property" /\ top # None -> AddProperty(state, top, line, n)
        [] OTHER -> state

ParseDfmContent(file) ==
  LET after[n \in 0..Len(file.lines)] ==
        IF n = 0 THEN FormStart ELSE ReadLine(after[n - 1], file.lines[n], n)
  IN  after[Len(file.lines)]

\* The form is the first object.
FormOf(file) == Head(ParseDfmContent(file).objects)

FormWarnings(file) ==
  LET form == ParseDfmContent(file)
  IN  Flag(form.stack # <<>>, "DFM_OBJECT_UNBALANCED", file)
        \cup Flag(form.objects = <<>>, "DFM_NO_OBJECTS", file)

(***************************************************************************)
(* Events: bindings, symbols and references to the handlers.               *)
(***************************************************************************)
EventsOf(object, Shown(_)) == {Shown(object.events[n]) : n \in DOMAIN object.events}

OnEachObject(file, Found(_)) == UNION {Found(object) : object \in ToSet(ParseDfmContent(file).objects)}

EventBindings(file) ==
  LET Bindings(object) ==
        LET Binding(event) ==
              [name |-> event.name, handler |-> event.handler, component |-> object.name,
               owner |-> <<FormOf(file).class>>, file |-> file.path, line |-> event.line]
        IN  EventsOf(object, Binding)
  IN  OnEachObject(file, Bindings)

FormSymbols(file) ==
  LET objects == ParseDfmContent(file).objects
      form    == FormOf(file)
      Method(object, event) ==
        [Qualified(file, <<form.name, object.name, event.name>>, "method", event.line, event.line)
           EXCEPT !.signature = <<object.name, event.name, event.handler>>]
      Methods(object) == [n \in DOMAIN object.events |-> Method(object, object.events[n])]
  IN  IF objects = <<>> THEN <<>>
      ELSE <<Qualified(file, <<form.name>>, "class", 1, Len(file.lines))>>
             \o FlattenSeq([n \in DOMAIN objects |-> Methods(objects[n])])

\* From the first symbol given that has the event's signature: of two forms alike,
\* that of the first.
FormDependencies(file, symbols) ==
  LET References(object) ==
        LET Handled(event) ==
              LET IsEvent(symbol) == symbol.signature = <<object.name, event.name, event.handler>>
              IN  External(FirstSymbol(symbols, IsEvent).key, <<event.handler>>, event.line)
        IN  EventsOf(object, Handled)
  IN  OnEachObject(file, References)

(***************************************************************************)
(* Data bindings: from a control by its DataSource to the DataSet and its  *)
(* table.                                                                  *)
(***************************************************************************)
Property(object, name) == IF name \in DOMAIN object.properties THEN object.properties[name] ELSE None
PropertyLine(object, name, otherwise) ==
  IF name \in DOMAIN object.propertyLines THEN object.propertyLines[name] ELSE otherwise

\* The last object of a name counts.
LastWith(objects, name, Fits(_)) ==
  LET found == {n \in DOMAIN objects : objects[n].name = name /\ Fits(objects[n])}
  IN  IF found = {} THEN None ELSE objects[CHOOSE n \in found : \A m \in found : m <= n]

DataSetOf(objects, source) ==
  LET IsSource(object) == object.class = "TDataSource" /\ Property(object, "DataSet") # None
      found == LastWith(objects, source, IsSource)
  IN  IF found = None THEN None ELSE Property(found, "DataSet")

TableOf(objects, dataSet) ==
  LET HasTable(object) == Property(object, "TableName") # None
      found == LastWith(objects, dataSet, HasTable)
  IN  IF found = None THEN None ELSE Property(found, "TableName")

AccessHint(object, source, dataSet) ==
  CASE Property(object, "ReadOnly") = "True" \/ Property(object, "Enabled") = "False" -> "read-only"
    [] OTHER -> IF source # None /\ dataSet # None THEN "read-write" ELSE "unresolved"

Confidence(source, dataSet, field) ==
  CASE source # None /\ dataSet # None /\ field # None -> "high"
    [] source # None /\ dataSet = None /\ field # None -> "medium"
    [] OTHER -> "low"

BindingWarnings(object, source, dataSet, table) ==
  {code \in {"NO_SOURCE", "SOURCE_UNRESOLVED", "TABLE_UNKNOWN", "NO_COLUMNS"} :
     \/ code = "NO_SOURCE" /\ source = None
     \/ code = "SOURCE_UNRESOLVED" /\ source # None /\ dataSet = None
     \/ code = "TABLE_UNKNOWN" /\ dataSet # None /\ table = None
     \/ code = "NO_COLUMNS" /\ object.class = "TDBGrid" /\ object.columns = <<>>}

\* A grid is bound once per column, and once without a field if it has none.
BoundFields(object) ==
  LET line == PropertyLine(object, "DataField", PropertyLine(object, "DataSource", object.line))
  IN  IF object.class = "TDBGrid"
        THEN IF object.columns = <<>> THEN {[field |-> None, line |-> line]} ELSE ToSet(object.columns)
        ELSE {[field |-> Property(object, "DataField"), line |-> line]}

DataBindings(file) ==
  LET objects == ParseDfmContent(file).objects
      Bindings(object) ==
        LET source  == Property(object, "DataSource")
            dataSet == IF source = None THEN None ELSE DataSetOf(objects, source)
            table   == IF dataSet = None THEN None ELSE TableOf(objects, dataSet)
        IN  {[component |-> object.name, class |-> object.class, source |-> source, dataSet |-> dataSet,
              table |-> table, field |-> bound.field, access |-> AccessHint(object, source, dataSet),
              confidence |-> Confidence(source, dataSet, bound.field), file |-> file.path, line |-> bound.line,
              warnings |-> BindingWarnings(object, source, dataSet, table)] : bound \in BoundFields(object)}
      Bound(object) == IF object.class \in DbAwareClasses THEN Bindings(object) ELSE {}
  IN  OnEachObject(file, Bound)
=============================================================================
