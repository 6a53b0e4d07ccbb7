----------------------------- MODULE FlowTracer -----------------------------
(***************************************************************************)
(* The static traces from a form's event to the tables it touches.  One    *)
(* trace is built at a time; `todo' is what is left of the depth-first     *)
(* walk over the handler's SQL statements and calls, its items in the      *)
(* order the recursion reaches them.  The walk stops at a cycle, at        *)
(* MaxCallDepth and at MaxStepsPerTrace, and each stop has to show in the  *)
(* trace's status.                                                         *)
(*                                                                         *)
(* An input is [symbols, calls, sql, events, bindings, order]: the calls   *)
(* and statements of each symbol key in source order, and the events and   *)
(* bindings, by index, in the order of their sort keys.  A symbol's key is *)
(* made of its file, name and line.                                        *)
(***************************************************************************)
EXTENDS DelphiSymbols, SequencesExt

CONSTANTS Inputs, PascalFiles, MaxCallDepth, MaxStepsPerTrace, MaxTraces

ASSUME LimitsAssumption ==
  MaxCallDepth \in Nat /\ MaxStepsPerTrace \in Nat \ {0} /\ MaxTraces \in Nat

IsList(list) == list \in Seq(ToSet(list))

ASSUME InputsAssumption == None \notin PascalFiles /\ \A given \in Inputs :
  /\ IsFiniteSet(given.symbols) /\ None \notin given.symbols
  /\ \A one, other \in given.symbols : one.key = other.key => one = other
  /\ \A symbol \in given.symbols :
       /\ IsList(given.calls[symbol.key]) /\ IsList(given.sql[symbol.key])
       /\ \A n \in DOMAIN given.sql[symbol.key] :
            IsList(given.sql[symbol.key][n].tables) /\ IsList(given.sql[symbol.key][n].fields)
  /\ \A routine \in PascalMethods(given.symbols, PascalFiles) :
       routine.qualified # None /\ routine.name = routine.qualified[Len(routine.qualified)]

VARIABLES input, queue, entry, todo, visited, active, builder, affected, traces

walk == <<entry, todo, visited, active, builder, affected>>
vars == <<input, queue, walk, traces>>

(***************************************************************************)
(* The step builder.                                                       *)
(***************************************************************************)
NewBuilder(warnings) ==
  [steps |-> <<>>, warnings |-> warnings, truncated |-> FALSE, unresolved |-> FALSE, told |-> FALSE]

Step(type, of)    == <<type, of>>
Warning(code, of) == <<code, of>>

\* Variant for the mutants: one step too many.
LimitReachedLate(b, step) == Len(b.steps) > MaxStepsPerTrace

LimitReached(b, step) ==
  \/ Len(b.steps) >= MaxStepsPerTrace
  \/ ~b.told /\ step[1] # "warning" /\ Len(b.steps) = MaxStepsPerTrace - 1

\* The last place of a full trace goes to the warning that says so.
StoppedAtLimit(b) ==
  [b EXCEPT !.truncated = TRUE, !.unresolved = TRUE, !.told = TRUE,
            !.warnings = @ \cup {Warning("STEP_LIMIT", None)},
            !.steps = IF ~b.told /\ Len(@) < MaxStepsPerTrace
                        THEN Append(@, Step("warning", Warning("STEP_LIMIT", None))) ELSE @]

\* Variant for the mutants: what does not fit is dropped.
PushQuietly(b, step) ==
  IF LimitReached(b, step) THEN b ELSE [b EXCEPT !.steps = Append(@, step)]

PushStep(b, step) ==
  IF LimitReached(b, step) THEN StoppedAtLimit(b)
  ELSE [b EXCEPT !.steps = Append(@, step)]

\* Variant for the mutants: the step alone.
WarningStepOnly(b, warning) == PushStep([b EXCEPT !.unresolved = TRUE], Step("warning", warning))

AddWarningStep(b, warning) ==
  PushStep([b EXCEPT !.warnings = @ \cup {warning}, !.unresolved = TRUE], Step("warning", warning))

MarkTruncated(b) == [b EXCEPT !.truncated = TRUE, !.unresolved = TRUE]

(***************************************************************************)
(* What one symbol adds to the walk: its statements, then its calls, then  *)
(* the step back to its caller; and what a statement adds: its tables and  *)
(* then its fields.                                                        *)
(***************************************************************************)
Item(kind, symbol, depth, what, statement) ==
  [kind |-> kind, symbol |-> symbol, depth |-> depth, what |-> what, statement |-> statement]

SqlItems(symbol, depth) ==
  LET statements == input.sql[symbol.key]
  IN  [n \in 1..Len(statements) |-> Item("sql", symbol, depth, statements[n], statements[n])]

TargetItems(kind, symbol, depth, targets, statement) ==
  [n \in 1..Len(targets) |-> Item(kind, symbol, depth, targets[n], statement)]

StatementItems(item) ==
  TargetItems("table", item.symbol, item.depth, item.what.tables, item.what)
  \o TargetItems("field", item.symbol, item.depth, item.what.fields, item.what)

CallItems(symbol, depth) ==
  LET calls == input.calls[symbol.key]
  IN  [n \in 1..Len(calls) |-> Item("call", symbol, depth, calls[n], None)]

\* After a refused step its loop is left: what remains of a loop comes first.
Broken(item) ==
  LET loop == {n \in DOMAIN todo : todo[n].kind = item.kind /\ todo[n].symbol = item.symbol}
  IN  SubSeq(todo, Cardinality(loop) + 1, Len(todo))

\* A visited symbol and one below the depth limit end the visit.
IsVisited(symbol) == symbol.key \in visited
IsTooDeep(depth) == depth > MaxCallDepth

Visit(symbol, depth, b, rest) ==
  CASE IsVisited(symbol) -> /\ builder' = b
                            /\ todo' = rest
                            /\ UNCHANGED <<visited, active>>
    [] ~IsVisited(symbol) /\ IsTooDeep(depth) ->
         /\ builder' = AddWarningStep(MarkTruncated(b), Warning("MAX_CALL_DEPTH", symbol.key))
         /\ todo' = rest
         /\ UNCHANGED <<visited, active>>
    [] OTHER -> /\ visited' = visited \cup {symbol.key}
                /\ active' = active \cup {symbol.key}
                /\ builder' = b
                /\ todo' = SqlItems(symbol, depth) \o CallItems(symbol, depth)
                           \o <<Item("leave", symbol, depth, None, None)>> \o rest

(***************************************************************************)
(* One trace.                                                              *)
(***************************************************************************)
HandlerQuery(mapped) ==
  LET event == mapped.event
  IN  IF mapped.method = None THEN EventQuery(event)
      ELSE [EventQuery(event) EXCEPT !.qualified = mapped.method.qualified,
                                     !.file = mapped.method.file]

\* No trace is being built.
Idle == [kind |-> "idle"]

Handler(mapped) == Resolve(input.symbols, HandlerQuery(mapped))

StartEventTrace ==
  /\ entry = Idle /\ queue # <<>> /\ Head(queue).kind = "event"
  /\ LET mapped  == MapEntry(input.events[Head(queue).index], input.symbols, PascalFiles)
         handler == Handler(mapped)
         opened  == PushStep(PushStep(NewBuilder(mapped.warnings), Step("component", None)),
                             Step("event", mapped.event.name))
     IN  /\ entry' = [kind |-> "event", mapped |-> mapped, handler |-> handler.symbol]
         /\ IF handler.symbol # None
              THEN Visit(handler.symbol, 0, PushStep(opened, Step("handler", handler.symbol.key)), <<>>)
              ELSE /\ builder' = AddWarningStep(opened,
                        Warning(IF handler.ambiguous THEN "HANDLER_AMBIGUOUS" ELSE "HANDLER_MISSING", None))
                   /\ UNCHANGED <<todo, visited, active>>
  /\ queue' = Tail(queue)
  /\ UNCHANGED <<input, affected, traces>>

WalkSql ==
  /\ todo # <<>> /\ Head(todo).kind = "sql"
  /\ LET item   == Head(todo)
         step   == Step("sql", item.what.key)
         pushed == PushStep(builder, step)
     IN  IF LimitReached(builder, step)
           THEN todo' = Broken(item) /\ builder' = pushed
           ELSE /\ todo' = StatementItems(item) \o Tail(todo)
                /\ builder' = [pushed EXCEPT !.warnings =
                                 IF item.what.dynamic THEN @ \cup {Warning("DYNAMIC_SQL", None)} ELSE @]
  /\ UNCHANGED <<input, queue, entry, visited, active, affected, traces>>

\* The tables and fields of a statement: noted as affected, then pushed.
WalkTarget ==
  /\ todo # <<>> /\ Head(todo).kind \in {"table", "field"}
  /\ LET item == Head(todo)
         step == Step(item.kind, <<item.statement.key, item.what.name>>)
     IN  /\ affected' = IF item.kind = "table" /\ item.what.operation = "unknown" THEN affected
                        ELSE affected \cup {<<item.kind, item.what.name>>}
         /\ builder' = PushStep(builder, step)
         /\ todo' = IF LimitReached(builder, step) THEN Broken(item) ELSE Tail(todo)
  /\ UNCHANGED <<input, queue, entry, visited, active, traces>>

CallQuery(symbol, call) ==
  [name |-> call.name, qualified |-> call.name, key |-> call.to,
   owner |-> IF Len(PathOf(symbol)) > 1 THEN OwnerOf(symbol) ELSE None,
   file |-> symbol.file, unit |-> UnitOf[symbol.file]]

Target(symbol, call) == Resolve(input.symbols, CallQuery(symbol, call))

WalkCall ==
  /\ todo # <<>> /\ Head(todo).kind = "call"
  /\ LET item   == Head(todo)
         target == Target(item.symbol, item.what)
         step   == Step("call", <<item.symbol.key, target.symbol.key, item.what.line>>)
     IN  CASE target.symbol = None ->
                /\ builder' = AddWarningStep(builder, Warning("CALL_UNRESOLVED", item.what.name))
                /\ todo' = Tail(todo)
                /\ UNCHANGED <<visited, active>>
           [] target.symbol # None /\ LimitReached(builder, step) ->
                /\ builder' = PushStep(builder, step)
                /\ todo' = Broken(item)
                /\ UNCHANGED <<visited, active>>
           [] target.symbol # None /\ ~LimitReached(builder, step) /\ target.symbol.key \in active ->
                /\ builder' = AddWarningStep(PushStep(builder, step), Warning("CALL_CYCLE", target.symbol.key))
                /\ todo' = Tail(todo)
                /\ UNCHANGED <<visited, active>>
           [] OTHER -> Visit(target.symbol, item.depth + 1, PushStep(builder, step), Tail(todo))
  /\ UNCHANGED <<input, queue, entry, affected, traces>>

Leave ==
  /\ todo # <<>> /\ Head(todo).kind = "leave"
  /\ active' = active \ {Head(todo).symbol.key}
  /\ todo' = Tail(todo)
  /\ UNCHANGED <<input, queue, entry, visited, builder, affected, traces>>

(***************************************************************************)
(* The finished traces, and the cut at MaxTraces.                          *)
(***************************************************************************)
EventStatus ==
  CASE entry.mapped.status = "unresolved" -> "unresolved"
    [] entry.mapped.status # "unresolved" /\ (builder.unresolved \/ builder.truncated) -> "partial"
    [] OTHER -> "complete"

Confidence(status) ==
  CASE status = "unresolved" -> "low"
    [] status = "partial" -> "medium"
    [] OTHER -> CASE Cardinality(builder.warnings) = 0 -> "high"
                  [] Cardinality(builder.warnings) = 1 -> "medium"
                  [] OTHER -> "low"

EventTrace ==
  [entry |-> entry, status |-> EventStatus, confidence |-> Confidence(EventStatus),
   steps |-> builder.steps, affected |-> affected, warnings |-> builder.warnings,
   truncated |-> builder.truncated]

\* A binding is [table, field, dataSet, confidence, warnings]: what the form
\* file says about a data-aware control.
PushIf(given, b, step) == IF given = None THEN b ELSE PushStep(b, step)

BindingSteps(binding, b) ==
  LET bound  == PushStep(PushStep(b, Step("component", None)), Step("binding", binding.dataSet))
      tabled == PushIf(binding.table, bound, Step("table", binding.table))
  IN  PushIf(binding.field, tabled, Step("field", <<binding.table, binding.field>>))

BindingStatus(binding) ==
  CASE binding.confidence = "high" /\ binding.table # None -> "complete"
    [] binding.confidence = "low" -> "unresolved"
    [] OTHER -> "partial"

BindingTrace(binding) ==
  LET warned == binding.warnings \cup (IF binding.dataSet # None /\ binding.table = None
                                         THEN {Warning("TABLE_UNKNOWN", None)} ELSE {})
      built  == BindingSteps(binding, NewBuilder(warned))
  IN  [entry |-> [kind |-> "binding", binding |-> binding],
       status |-> BindingStatus(binding),
       confidence |-> IF binding.table = None /\ binding.confidence = "high" THEN "medium"
                      ELSE binding.confidence,
       steps |-> built.steps,
       affected |-> IF binding.table = None THEN {}
                    ELSE {<<"table", binding.table>>}
                         \cup (IF binding.field = None THEN {} ELSE {<<"field", binding.field>>}),
       warnings |-> built.warnings, truncated |-> built.truncated]

IsCut == Len(input.order) > MaxTraces

CutHere(trace) ==
  [trace EXCEPT !.status = IF @ = "unresolved" THEN @ ELSE "partial",
                !.confidence = IF @ = "high" THEN "medium" ELSE @,
                !.warnings = @ \cup {Warning("TRACE_LIMIT", None)}]

\* Variant for the mutants: the cut is not told.
KeptAsIs(trace) == traces' = Append(traces, trace)

\* The last persisted trace tells that the run was cut.
Kept(trace) ==
  traces' = Append(traces, IF IsCut /\ Len(traces) = MaxTraces - 1 THEN CutHere(trace) ELSE trace)

FinishEventTrace ==
  /\ entry # Idle /\ todo = <<>>
  /\ Kept(EventTrace)
  /\ entry' = Idle /\ visited' = {} /\ active' = {} /\ affected' = {} /\ builder' = NewBuilder({})
  /\ UNCHANGED <<input, queue, todo>>

TraceBinding ==
  /\ entry = Idle /\ queue # <<>> /\ Head(queue).kind = "binding"
  /\ Kept(BindingTrace(input.bindings[Head(queue).index]))
  /\ queue' = Tail(queue)
  /\ UNCHANGED <<input, walk>>

Init ==
  /\ input \in Inputs
  /\ queue = SubSeq(input.order, 1, IF IsCut THEN MaxTraces ELSE Len(input.order))
  /\ entry = Idle /\ todo = <<>> /\ visited = {} /\ active = {}
  /\ builder = NewBuilder({}) /\ affected = {} /\ traces = <<>>

Next ==
  \/ StartEventTrace \/ WalkSql \/ WalkTarget \/ WalkCall \/ Leave
  \/ FinishEventTrace \/ TraceBinding

Spec == Init /\ [][Next]_vars
(***************************************************************************)
(* Properties.                                                             *)
(***************************************************************************)
EventTraces == {trace \in ToSet(traces) : trace.entry.kind = "event"}

\* What a trace says it went through.
Routines(trace) ==
  {symbol \in input.symbols : \E step \in ToSet(trace.steps) :
     \/ step = Step("handler", symbol.key)
     \/ step[1] = "call" /\ step[2][2] = symbol.key}

ShowsItsSql(trace, symbol) ==
  \A statement \in ToSet(input.sql[symbol.key]) :
    /\ Step("sql", statement.key) \in ToSet(trace.steps)
    /\ \A table \in ToSet(statement.tables) :
         /\ Step("table", <<statement.key, table.name>>) \in ToSet(trace.steps)
         /\ table.operation # "unknown" => <<"table", table.name>> \in trace.affected
    /\ \A field \in ToSet(statement.fields) :
         /\ Step("field", <<statement.key, field.name>>) \in ToSet(trace.steps)
         /\ <<"field", field.name>> \in trace.affected

ShowsItsCalls(trace, symbol) ==
  \A call \in ToSet(input.calls[symbol.key]) :
    LET target == Target(symbol, call).symbol
    IN  /\ target # None
        /\ Step("call", <<symbol.key, target.key, call.line>>) \in ToSet(trace.steps)

\* A trace reported complete hides nothing: it is not truncated, it shows the
\* handler, and every routine it reaches with all its statements, tables,
\* fields and calls; and an event's trace that is not complete, or a run that is
\* cut, says why in its warnings.  The limits, cycles and unresolved names
\* (flowTracer.ts 95-124, 212-239, 309-346) all have to reach the status (358, 495).
TraceTellsWhetherItIsWhole ==
  /\ \A trace \in EventTraces :
       IF trace.status = "complete"
       THEN /\ ~trace.truncated /\ trace.entry.handler \in Routines(trace)
            /\ \A symbol \in Routines(trace) : ShowsItsSql(trace, symbol) /\ ShowsItsCalls(trace, symbol)
       ELSE trace.warnings # {}
  /\ IsCut /\ Len(traces) = MaxTraces /\ MaxTraces > 0
       => Warning("TRACE_LIMIT", None) \in traces[MaxTraces].warnings /\ traces[MaxTraces].status # "complete"

\* No trace, finished or being built, is longer than the limit, the warning
\* that tells of the limit included (flowTracer.ts 85-110).
StepsWithinLimit ==
  /\ Len(builder.steps) <= MaxStepsPerTrace
  /\ \A n \in DOMAIN traces : Len(traces[n].steps) <= MaxStepsPerTrace

\* The trace of an event starts at the routine the event map shows for it: the
\* two resolve the name over different symbols and with different
\* discriminators (analyzer.ts 177-209, flowTracer.ts 184-192).  The one
\* exception is a symbol of the same file and qualified name that is no routine,
\* as a class: the tracer then has no handler, and its trace is not complete.
TraceFollowsTheEventMap ==
  \A trace \in EventTraces :
    LET method == trace.entry.mapped.method
    IN  \/ method = None \/ trace.entry.handler = method
        \/ /\ trace.entry.handler = None /\ trace.status # "complete"
           /\ \E other \in input.symbols \ PascalMethods(input.symbols, PascalFiles) :
                other.qualified = method.qualified /\ other.file = method.file
=============================================================================
