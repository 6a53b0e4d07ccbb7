-------------------------- MODULE FlowTracer_proofs --------------------------
(***************************************************************************)
(* Proofs about FlowTracer, for all inputs and all limits.                 *)
(***************************************************************************)
EXTENDS FlowTracer, TLAPS, FiniteSetTheorems

Clean(b) == ~b.truncated /\ ~b.unresolved

\* A builder keeps to the limit, and warns of what it does not show.
Shaped(b) ==
  /\ DOMAIN b = {"steps", "warnings", "truncated", "unresolved", "told"}
  /\ IsList(b.steps) /\ Len(b.steps) <= MaxStepsPerTrace
  /\ b.truncated \in BOOLEAN /\ b.unresolved \in BOOLEAN /\ b.told \in BOOLEAN

Telling(b) == Shaped(b) /\ (Clean(b) \/ b.warnings # {})

BuilderOK == Telling(builder)

IdleOK == entry = Idle => todo = <<>> /\ visited = {}

\* The work list holds what the symbols of the project have.
Items(list) ==
  /\ IsList(list)
  /\ \A item \in ToSet(list) :
       /\ item.symbol \in input.symbols
       /\ item.kind = "sql" => item.statement = item.what /\ item.what \in ToSet(input.sql[item.symbol.key])

TodoOK == Items(todo)

\* The handler of a trace, and the event map's method.
Follows(handler, method) ==
  \/ method = None \/ handler = method
  \/ /\ handler = None
     /\ \E other \in input.symbols \ PascalMethods(input.symbols, PascalFiles) :
          other.qualified = method.qualified /\ other.file = method.file

EntryOK == entry # Idle =>
  /\ entry.kind = "event"
  /\ entry.mapped.warnings \subseteq builder.warnings
  /\ entry.mapped.status = "unresolved" => entry.mapped.warnings # {}
  /\ entry.handler \in input.symbols \/ (entry.handler = None /\ ~Clean(builder))
  /\ Follows(entry.handler, entry.mapped.method)

\* What a visited symbol has is shown, or it is still on the work list.
Shown(type, of) == Step(type, of) \in ToSet(builder.steps)

Queued(kind, symbol, what, statement) == \E item \in ToSet(todo) :
  item.kind = kind /\ item.symbol = symbol /\ item.what = what /\ item.statement = statement

TablesOK(symbol, statement) == \A table \in ToSet(statement.tables) :
  \/ Queued("table", symbol, table, statement)
  \/ /\ Shown("table", <<statement.key, table.name>>)
     /\ table.operation # "unknown" => <<"table", table.name>> \in affected

FieldsOK(symbol, statement) == \A field \in ToSet(statement.fields) :
  \/ Queued("field", symbol, field, statement)
  \/ /\ Shown("field", <<statement.key, field.name>>)
     /\ <<"field", field.name>> \in affected

SqlOK(symbol) == \A statement \in ToSet(input.sql[symbol.key]) :
  \/ Queued("sql", symbol, statement, statement)
  \/ Shown("sql", statement.key) /\ TablesOK(symbol, statement) /\ FieldsOK(symbol, statement)

CallsOK(symbol) == \A call \in ToSet(input.calls[symbol.key]) :
  \/ Queued("call", symbol, call, None)
  \/ LET target == Target(symbol, call).symbol
     IN  target # None /\ Shown("call", <<symbol.key, target.key, call.line>>)

WholeOK == entry # Idle /\ Clean(builder) =>
  /\ Shown("handler", entry.handler.key)
  /\ \A symbol \in Routines(builder) : symbol.key \in visited
  /\ \A symbol \in input.symbols : symbol.key \in visited => SqlOK(symbol) /\ CallsOK(symbol)

\* What is said of a finished trace.
TellsWhole(trace) ==
  IF trace.status = "complete"
    THEN /\ ~trace.truncated /\ trace.entry.handler \in Routines(trace)
         /\ \A symbol \in Routines(trace) : ShowsItsSql(trace, symbol) /\ ShowsItsCalls(trace, symbol)
    ELSE trace.warnings # {}

EventTraceOK(trace) == trace.entry.kind = "event" =>
  /\ TellsWhole(trace)
  /\ Follows(trace.entry.handler, trace.entry.mapped.method)
  /\ trace.entry.handler = None => trace.status # "complete"

TracesOK ==
  /\ IsList(traces)
  /\ \A trace \in ToSet(traces) : EventTraceOK(trace) /\ Len(trace.steps) <= MaxStepsPerTrace
  /\ IsCut => \A n \in DOMAIN traces : n = MaxTraces =>
       Warning("TRACE_LIMIT", None) \in traces[n].warnings /\ traces[n].status # "complete"

IInv == input \in Inputs /\ BuilderOK /\ IdleOK /\ TodoOK /\ EntryOK /\ WholeOK /\ TracesOK
-----------------------------------------------------------------------------
(***************************************************************************)
(* Lists.                                                                  *)
(***************************************************************************)
LEMMA ListOfElements == ASSUME NEW set, NEW list \in Seq(set) PROVE IsList(list) /\ ToSet(list) \subseteq set
  BY DEF IsList, ToSet

LEMMA ListEmpty == IsList(<<>>) /\ ToSet(<<>>) = {}
  BY DEF IsList, ToSet

LEMMA ListOne == ASSUME NEW element PROVE IsList(<<element>>) /\ ToSet(<<element>>) = {element}
<1>1. <<element>> \in Seq({element}) /\ Len(<<element>>) = 1 /\ <<element>>[1] = element
  OBVIOUS
<1>2. ToSet(<<element>>) = {element}
  BY <1>1 DEF ToSet
<1> QED BY <1>1, <1>2 DEF IsList

LEMMA ListAppend ==
  ASSUME NEW list, IsList(list), NEW element
  PROVE  /\ IsList(Append(list, element)) /\ Len(Append(list, element)) = Len(list) + 1
         /\ ToSet(Append(list, element)) = ToSet(list) \cup {element}
<1> DEFINE longer == Append(list, element)
           all    == ToSet(list) \cup {element}
<1>1. list \in Seq(all) /\ DOMAIN list = 1..Len(list) /\ Len(list) \in Nat
  BY DEF IsList, ToSet
<1>2. longer \in Seq(all) /\ Len(longer) = Len(list) + 1
  BY <1>1
<1>3. longer[Len(list) + 1] = element /\ \A n \in DOMAIN list : longer[n] = list[n]
  BY <1>1
<1>4. DOMAIN longer = 1..(Len(list) + 1)
  BY <1>1
<1> HIDE DEF longer
<1>5. all \subseteq ToSet(longer)
  BY <1>1, <1>3, <1>4 DEF ToSet
<1>6. ToSet(longer) \subseteq all
  BY <1>2 DEF ToSet
<1>7. IsList(longer)
  BY <1>2, <1>5, <1>6 DEF IsList
<1> QED BY <1>2, <1>5, <1>6, <1>7 DEF longer

LEMMA ListConcat ==
  ASSUME NEW left, NEW right, IsList(left), IsList(right)
  PROVE  IsList(left \o right) /\ ToSet(left \o right) = ToSet(left) \cup ToSet(right)
<1> DEFINE whole == left \o right
           all   == ToSet(left) \cup ToSet(right)
<1>1. /\ left \in Seq(all) /\ DOMAIN left = 1..Len(left) /\ Len(left) \in Nat
      /\ right \in Seq(all) /\ DOMAIN right = 1..Len(right) /\ Len(right) \in Nat
  BY DEF IsList, ToSet
<1>2. whole \in Seq(all) /\ Len(whole) = Len(left) + Len(right) /\ DOMAIN whole = 1..Len(whole)
  BY <1>1
<1>3. /\ \A n \in DOMAIN left : whole[n] = left[n]
      /\ \A n \in DOMAIN right : whole[Len(left) + n] = right[n]
  BY <1>1
<1> HIDE DEF whole
<1>4. all \subseteq ToSet(whole)
  <2>1. ASSUME NEW n \in DOMAIN left PROVE left[n] \in ToSet(whole)
    BY <1>1, <1>2, <1>3 DEF ToSet
  <2>2. ASSUME NEW n \in DOMAIN right PROVE right[n] \in ToSet(whole)
    <3>1. Len(left) + n \in DOMAIN whole /\ whole[Len(left) + n] = right[n]
      BY <1>1, <1>2, <1>3
    <3> QED BY <3>1 DEF ToSet
  <2> QED BY <2>1, <2>2 DEF ToSet
<1>5. ToSet(whole) \subseteq all
  BY <1>2 DEF ToSet
<1>6. IsList(whole)
  BY <1>2, <1>4, <1>5 DEF IsList
<1> QED BY <1>4, <1>5, <1>6 DEF whole

LEMMA ListTail ==
  ASSUME NEW list, IsList(list), list # <<>>
  PROVE  IsList(Tail(list)) /\ ToSet(list) = {Head(list)} \cup ToSet(Tail(list))
<1>1. list \in Seq(ToSet(list)) /\ DOMAIN list = 1..Len(list) /\ Len(list) \in Nat \ {0}
  BY DEF IsList
<1>2. /\ Tail(list) \in Seq(ToSet(list)) /\ Head(list) = list[1]
      /\ Len(Tail(list)) = Len(list) - 1 /\ DOMAIN Tail(list) = 1..(Len(list) - 1)
      /\ \A n \in 1..(Len(list) - 1) : Tail(list)[n] = list[n + 1]
  BY <1>1
<1>3. ASSUME NEW n \in DOMAIN list, n # 1 PROVE list[n] \in ToSet(Tail(list))
  <2>1. n - 1 \in DOMAIN Tail(list) /\ Tail(list)[n - 1] = list[n]
    BY <1>1, <1>2, <1>3
  <2> QED BY <2>1 DEF ToSet
<1>4. 1 \in DOMAIN list
  BY <1>1
<1>5. ToSet(list) \subseteq {Head(list)} \cup ToSet(Tail(list))
  BY <1>2, <1>3 DEF ToSet
<1>6. Head(list) \in ToSet(list)
  BY <1>2, <1>4 DEF ToSet
<1>7. IsList(Tail(list)) /\ ToSet(Tail(list)) \subseteq ToSet(list)
  BY <1>2, ListOfElements
<1> QED BY <1>5, <1>6, <1>7

\* The lists an action writes: what is left of a loop, and new items.
LEMMA ListBroken ==
  ASSUME NEW item, IsList(todo)
  PROVE  IsList(Broken(item)) /\ ToSet(Broken(item)) \subseteq ToSet(todo)
<1> DEFINE loop == {n \in DOMAIN todo : todo[n].kind = item.kind /\ todo[n].symbol = item.symbol}
<1>1. todo \in Seq(ToSet(todo)) /\ DOMAIN todo = 1..Len(todo) /\ Len(todo) \in Nat
  BY DEF IsList
<1>2. loop \in SUBSET (1..Len(todo))
  BY <1>1
<1> HIDE DEF loop
<1>3. Cardinality(loop) \in Nat
  <2>1. IsFiniteSet(1..Len(todo))
    BY <1>1, FS_Interval
  <2>2. IsFiniteSet(loop)
    BY <1>2, <2>1, FS_Subset
  <2> QED BY <2>2, FS_CardinalityType
<1>4. SubSeq(todo, Cardinality(loop) + 1, Len(todo)) \in Seq(ToSet(todo))
  BY <1>1, <1>3
<1>5. Broken(item) \in Seq(ToSet(todo))
  BY <1>4 DEF Broken, loop
<1> QED BY <1>5, ListOfElements

LEMMA ListOfTargets ==
  ASSUME NEW kind, NEW symbol, NEW depth, NEW targets, NEW statement, IsList(targets)
  PROVE  /\ IsList(TargetItems(kind, symbol, depth, targets, statement))
         /\ ToSet(TargetItems(kind, symbol, depth, targets, statement))
            = {Item(kind, symbol, depth, target, statement) : target \in ToSet(targets)}
<1> DEFINE items == TargetItems(kind, symbol, depth, targets, statement)
           all   == {Item(kind, symbol, depth, target, statement) : target \in ToSet(targets)}
<1>1. DOMAIN targets = 1..Len(targets) /\ Len(targets) \in Nat
  BY DEF IsList
<1>2. /\ items \in Seq(all) /\ DOMAIN items = DOMAIN targets
      /\ \A n \in DOMAIN targets : items[n] = Item(kind, symbol, depth, targets[n], statement)
  BY <1>1 DEF TargetItems, ToSet
<1> HIDE DEF items
<1>3. all = ToSet(items)
  BY <1>2 DEF ToSet
<1>4. IsList(items)
  BY <1>2, <1>3 DEF IsList
<1> QED BY <1>3, <1>4 DEF items

LEMMA ListOfSql ==
  ASSUME NEW symbol, NEW depth, IsList(input.sql[symbol.key])
  PROVE  /\ IsList(SqlItems(symbol, depth))
         /\ ToSet(SqlItems(symbol, depth))
            = {Item("sql", symbol, depth, statement, statement) : statement \in ToSet(input.sql[symbol.key])}
<1> DEFINE items == SqlItems(symbol, depth)
           given == input.sql[symbol.key]
           all   == {Item("sql", symbol, depth, statement, statement) : statement \in ToSet(given)}
<1>1. DOMAIN given = 1..Len(given) /\ Len(given) \in Nat
  BY DEF IsList
<1>2. /\ items \in Seq(all) /\ DOMAIN items = DOMAIN given
      /\ \A n \in DOMAIN given : items[n] = Item("sql", symbol, depth, given[n], given[n])
  <2>1. \A n \in DOMAIN given : given[n] \in ToSet(given)
    BY DEF ToSet
  <2> HIDE DEF given
  <2>2. items = [n \in 1..Len(given) |-> Item("sql", symbol, depth, given[n], given[n])]
    BY DEF SqlItems, given
  <2> HIDE DEF items
  <2> QED BY <1>1, <2>1, <2>2
<1> HIDE DEF items
<1>3. all = ToSet(items)
  BY <1>2 DEF ToSet
<1>4. IsList(items)
  BY <1>2, <1>3 DEF IsList
<1> QED BY <1>3, <1>4 DEF items

LEMMA ListOfCalls ==
  ASSUME NEW symbol, NEW depth, IsList(input.calls[symbol.key])
  PROVE  /\ IsList(CallItems(symbol, depth))
         /\ ToSet(CallItems(symbol, depth))
            = {Item("call", symbol, depth, call, None) : call \in ToSet(input.calls[symbol.key])}
<1>1. CallItems(symbol, depth) = TargetItems("call", symbol, depth, input.calls[symbol.key], None)
  BY DEF CallItems, TargetItems
<1> QED BY <1>1, ListOfTargets

-----------------------------------------------------------------------------
(***************************************************************************)
(* The builder.                                                            *)
(***************************************************************************)
LEMMA NewBuilderShape ==
  ASSUME NEW warnings
  PROVE  /\ Shaped(NewBuilder(warnings)) /\ Clean(NewBuilder(warnings))
         /\ NewBuilder(warnings).warnings = warnings /\ ToSet(NewBuilder(warnings).steps) = {}
  BY ListEmpty, LimitsAssumption DEF NewBuilder, Shaped, Clean

\* A refused step leaves a builder that is truncated and says why.
LEMMA Stopped ==
  ASSUME NEW b, Shaped(b)
  PROVE  LET c == StoppedAtLimit(b)
         IN  /\ Shaped(c) /\ ~Clean(c)
             /\ b.warnings \subseteq c.warnings /\ c.warnings # {}
<1> DEFINE full  == Step("warning", Warning("STEP_LIMIT", None))
           steps == IF ~b.told /\ Len(b.steps) < MaxStepsPerTrace THEN Append(b.steps, full) ELSE b.steps
<1>1. IsList(steps) /\ Len(steps) <= MaxStepsPerTrace
  <2>1. Len(b.steps) \in Nat /\ MaxStepsPerTrace \in Nat /\ Len(b.steps) <= MaxStepsPerTrace
    BY LimitsAssumption DEF Shaped, IsList
  <2> QED BY <2>1, ListAppend DEF Shaped
<1>2. LET c == StoppedAtLimit(b)
      IN  /\ DOMAIN c = DOMAIN b
          /\ c.steps = steps /\ c.warnings = b.warnings \cup {Warning("STEP_LIMIT", None)}
          /\ c.truncated = TRUE /\ c.unresolved = TRUE /\ c.told = TRUE
  BY DEF StoppedAtLimit, Shaped
<1> HIDE DEF steps
<1> QED BY <1>1, <1>2 DEF Shaped, Clean

\* A step is accepted, or the builder is no longer clean.
LEMMA Pushed ==
  ASSUME NEW b, Shaped(b), NEW step
  PROVE  LET c == PushStep(b, step)
         IN  /\ Shaped(c) /\ b.warnings \subseteq c.warnings
             /\ Clean(c) => /\ Clean(b) /\ ~LimitReached(b, step)
                            /\ ToSet(c.steps) = ToSet(b.steps) \cup {step}
             /\ ~Clean(c) => ~Clean(b) \/ c.warnings # {}
<1>1. CASE LimitReached(b, step)
  BY <1>1, Stopped DEF PushStep
<1>2. CASE ~LimitReached(b, step)
  <2>1. Len(b.steps) \in Nat /\ Len(b.steps) < MaxStepsPerTrace /\ MaxStepsPerTrace \in Nat
    BY <1>2, LimitsAssumption DEF LimitReached, Shaped, IsList
  <2>2. LET c == PushStep(b, step)
        IN  /\ DOMAIN c = DOMAIN b /\ c.steps = Append(b.steps, step) /\ c.warnings = b.warnings
            /\ c.truncated = b.truncated /\ c.unresolved = b.unresolved /\ c.told = b.told
    BY <1>2 DEF PushStep, Shaped
  <2>3. /\ IsList(Append(b.steps, step)) /\ Len(Append(b.steps, step)) <= MaxStepsPerTrace
        /\ ToSet(Append(b.steps, step)) = ToSet(b.steps) \cup {step}
    BY <2>1, ListAppend DEF Shaped
  <2> QED BY <1>2, <2>2, <2>3 DEF Shaped, Clean
<1> QED BY <1>1, <1>2

LEMMA Warned ==
  ASSUME NEW b, Shaped(b), NEW warning
  PROVE  LET c == AddWarningStep(b, warning)
         IN  /\ Shaped(c) /\ ~Clean(c)
             /\ b.warnings \subseteq c.warnings /\ c.warnings # {}
<1> DEFINE marked == [b EXCEPT !.warnings = @ \cup {warning}, !.unresolved = TRUE]
<1>1. /\ DOMAIN marked = DOMAIN b
      /\ marked.steps = b.steps /\ marked.warnings = b.warnings \cup {warning}
      /\ marked.truncated = b.truncated /\ marked.unresolved = TRUE /\ marked.told = b.told
  BY DEF Shaped
<1> HIDE DEF marked
<1>2. /\ Shaped(marked) /\ ~Clean(marked)
      /\ b.warnings \subseteq marked.warnings /\ warning \in marked.warnings
  BY <1>1 DEF Shaped, Clean
<1>3. AddWarningStep(b, warning) = PushStep(marked, Step("warning", warning))
  BY DEF AddWarningStep, marked
<1> QED BY <1>2, <1>3, Pushed

LEMMA Truncated == ASSUME NEW b, Shaped(b)
                   PROVE  Shaped(MarkTruncated(b)) /\ MarkTruncated(b).warnings = b.warnings
<1>1. LET c == MarkTruncated(b)
      IN  /\ DOMAIN c = DOMAIN b /\ c.steps = b.steps /\ c.warnings = b.warnings
          /\ c.truncated = TRUE /\ c.unresolved = TRUE /\ c.told = b.told
  BY DEF MarkTruncated, Shaped
<1> QED BY <1>1 DEF Shaped

\* The steps of a binding.
LEMMA BindingShape ==
  ASSUME NEW b, Shaped(b), NEW binding PROVE Shaped(BindingSteps(binding, b))
<1> DEFINE bound  == PushStep(PushStep(b, Step("component", None)), Step("binding", binding.dataSet))
           tabled == PushIf(binding.table, bound, Step("table", binding.table))
           built  == PushIf(binding.field, tabled, Step("field", <<binding.table, binding.field>>))
<1>1. Shaped(bound)
  BY Pushed
<1>2. Shaped(tabled)
  <2> HIDE DEF bound
  <2> QED BY <1>1, Pushed DEF PushIf
<1>3. Shaped(built)
  <2> HIDE DEF tabled
  <2> QED BY <1>2, Pushed DEF PushIf
<1> QED BY <1>3 DEF BindingSteps

-----------------------------------------------------------------------------
(***************************************************************************)
(* Resolution.                                                             *)
(***************************************************************************)
LEMMA NarrowedSubset ==
  ASSUME NEW candidates, NEW given, NEW matching
  PROVE  Narrowed(candidates, given, matching) \subseteq candidates
  BY DEF Narrowed

LEMMA ResolvedOne ==
  ASSUME NEW candidates, IsFiniteSet(candidates)
  PROVE  LET found == Resolution(candidates).symbol
         IN  found = None \/ candidates = {found}
<1>1. CASE Cardinality(candidates) = 1
  <2>1. PICK only : candidates = {only}
    BY <1>1, FS_Singleton
  <2>2. TheOne(candidates) = only
    BY <2>1 DEF TheOne
  <2> QED BY <1>1, <2>1, <2>2 DEF Resolution
<1>2. CASE Cardinality(candidates) # 1
  BY <1>2 DEF Resolution
<1> QED BY <1>1, <1>2

LEMMA OneResolved ==
  ASSUME NEW only PROVE Resolution({only}).symbol = only
<1>1. Cardinality({only}) = 1 /\ TheOne({only}) = only
  BY FS_Singleton DEF TheOne
<1> QED BY <1>1 DEF Resolution

\* The candidates a query ends with.
Candidates(symbols, query) == BySource(ByName(Named(symbols, query), query), query)

LEMMA CandidatesOf ==
  ASSUME NEW symbols, NEW query
  PROVE  Candidates(symbols, query) \subseteq symbols
<1>1. Named(symbols, query) \subseteq symbols
  BY DEF Named
<1>2. ByName(Named(symbols, query), query) \subseteq symbols
  BY <1>1, NarrowedSubset DEF ByName
<1> QED BY <1>2, NarrowedSubset DEF BySource, Candidates

\* A name stands for a symbol there is, or for none.
LEMMA ResolvedIsThere ==
  ASSUME NEW symbols, IsFiniteSet(symbols), NEW query
  PROVE  Resolve(symbols, query).symbol \in symbols \cup {None}
<1> DEFINE exact == {symbol \in symbols : query.key # None /\ symbol.key = query.key}
<1>1. exact \subseteq symbols /\ Candidates(symbols, query) \subseteq symbols
  BY CandidatesOf
<1>2. IsFiniteSet(exact) /\ IsFiniteSet(Candidates(symbols, query))
  BY <1>1, FS_Subset
<1>3. Resolve(symbols, query) = Resolution(IF exact # {} THEN exact ELSE Candidates(symbols, query))
  BY DEF Resolve, Candidates
<1> HIDE DEF exact
<1> QED BY <1>1, <1>2, <1>3, ResolvedOne

\* Symbols of one name, qualified name and file are never told apart by names and
\* units.
LEMMA NarrowedAlike ==
  ASSUME NEW candidates, NEW given, NEW matching, NEW one \in candidates, NEW other \in candidates,
         one \in matching <=> other \in matching, one \in Narrowed(candidates, given, matching)
  PROVE  other \in Narrowed(candidates, given, matching)
  BY DEF Narrowed

LEMMA CandidatesAlike ==
  ASSUME NEW symbols, NEW query, NEW one \in Candidates(symbols, query), NEW other \in symbols,
         other.name = one.name, other.qualified = one.qualified, other.file = one.file
  PROVE  other \in Candidates(symbols, query)
<1> DEFINE named == Named(symbols, query)
           sameName  == {symbol \in named : symbol.qualified = query.qualified}
           sameOwner == {symbol \in named : OwnerOf(symbol) = query.owner}
           first  == Narrowed(named, query.qualified, sameName)
           second == Narrowed(first, query.owner, sameOwner)
           sameFile == {symbol \in second : symbol.file = query.file}
           sameUnit == {symbol \in second : UnitOf[symbol.file] = query.unit}
           third  == Narrowed(second, query.file, sameFile)
           fourth == Narrowed(third, query.unit, sameUnit)
<1>1. Candidates(symbols, query) = fourth
  BY DEF Candidates, ByName, BySource
<1>2. one \in fourth /\ one \in third /\ one \in second /\ one \in first /\ one \in named
  BY <1>1, NarrowedSubset
<1>3. other \in named
  BY <1>2 DEF Named
<1>4. other \in first
  <2>1. one \in sameName <=> other \in sameName
    BY <1>2, <1>3
  <2> QED BY <1>2, <1>3, <2>1, NarrowedAlike
<1>5. other \in second
  <2>1. one \in sameOwner <=> other \in sameOwner
    BY <1>2, <1>3 DEF OwnerOf, PathOf
  <2> HIDE DEF first, sameOwner
  <2> QED BY <1>2, <1>4, <2>1, NarrowedAlike DEF second
<1>6. other \in third
  <2>1. one \in sameFile <=> other \in sameFile
    BY <1>2, <1>5
  <2> HIDE DEF second, sameFile
  <2> QED BY <1>2, <1>5, <2>1, NarrowedAlike DEF third
<1>7. other \in fourth
  <2>1. one \in sameUnit <=> other \in sameUnit
    BY <1>2, <1>5
  <2> HIDE DEF third, sameUnit
  <2> QED BY <1>2, <1>6, <2>1, NarrowedAlike DEF fourth
<1> QED BY <1>1, <1>7

\* The tracer's candidates for the method of the event map: all of its name and
\* file.
LEMMA HandlerCandidates ==
  ASSUME NEW symbols, NEW query, NEW method \in symbols,
         query.qualified = method.qualified, query.file = method.file,
         method.qualified # None, method.file # None
  PROVE  /\ method \in Candidates(symbols, query)
         /\ \A other \in Candidates(symbols, query) :
              other.qualified = method.qualified /\ other.file = method.file
<1> DEFINE named == Named(symbols, query)
           sameName  == {symbol \in named : symbol.qualified = query.qualified}
           sameOwner == {symbol \in named : OwnerOf(symbol) = query.owner}
           first  == Narrowed(named, query.qualified, sameName)
           second == Narrowed(first, query.owner, sameOwner)
           sameFile == {symbol \in second : symbol.file = query.file}
           sameUnit == {symbol \in second : UnitOf[symbol.file] = query.unit}
           third  == Narrowed(second, query.file, sameFile)
           fourth == Narrowed(third, query.unit, sameUnit)
<1>1. Candidates(symbols, query) = fourth
  BY DEF Candidates, ByName, BySource
<1>2. method \in named
  BY DEF Named
<1>3. method \in first /\ \A other \in first : other \in named /\ other.qualified = method.qualified
  BY <1>2 DEF Narrowed
<1>4. method \in second /\ \A other \in second : other.qualified = method.qualified
  <2>1. \A other \in first : OwnerOf(other) = OwnerOf(method)
    BY <1>3 DEF OwnerOf, PathOf
  <2>2. \A other \in first : other \in sameOwner <=> method \in sameOwner
    BY <1>2, <1>3, <2>1
  <2> HIDE DEF first, sameOwner
  <2> QED BY <1>3, <2>2 DEF Narrowed
<1>5. method \in third /\ \A other \in third : other.qualified = method.qualified /\ other.file = method.file
  <2> HIDE DEF second
  <2> QED BY <1>4 DEF Narrowed
<1>6. method \in fourth /\ \A other \in fourth : other \in third
  <2>1. \A other \in third : other \in second
    BY DEF Narrowed
  <2>2. \A other \in third : other \in sameUnit <=> method \in sameUnit
    BY <1>4, <1>5, <2>1
  <2> HIDE DEF third, sameUnit
  <2> QED BY <1>5, <2>2 DEF Narrowed
<1> HIDE DEF third, fourth
<1> QED BY <1>1, <1>5, <1>6

LEMMA HandlerFollowsMap ==
  ASSUME input \in Inputs, NEW event
  PROVE  LET mapped == MapEntry(event, input.symbols, PascalFiles)
             found  == Handler(mapped).symbol
         IN  /\ mapped.status = "unresolved" => mapped.warnings # {}
             /\ found \in input.symbols \cup {None}
             /\ Follows(found, mapped.method)
<1> DEFINE symbols  == input.symbols
           routines == PascalMethods(symbols, PascalFiles)
           mapped   == MapEntry(event, symbols, PascalFiles)
           first    == Candidates(routines, EventQuery(event))
           query    == HandlerQuery(mapped)
           second   == Candidates(symbols, query)
           found    == Handler(mapped).symbol
<1>1. /\ IsFiniteSet(symbols) /\ None \notin symbols /\ routines \subseteq symbols
      /\ \A routine \in routines :
           /\ routine.file \in PascalFiles /\ routine.file # None
           /\ routine.qualified # None /\ routine.name = routine.qualified[Len(routine.qualified)]
  BY InputsAssumption DEF PascalMethods
<1>2. IsFiniteSet(routines) /\ IsFiniteSet(first) /\ IsFiniteSet(second)
  BY <1>1, FS_Subset, CandidatesOf
<1>3. mapped.method = Resolution(first).symbol
  BY DEF MapEntry, Resolve, EventQuery, Candidates
<1>4. found = Resolution(second).symbol
  BY DEF Handler, HandlerQuery, EventQuery, Resolve, Candidates
<1>5. found \in symbols \cup {None}
  BY <1>1, ResolvedIsThere DEF Handler
<1>6. mapped.status = "unresolved" => mapped.warnings # {}
  BY DEF MapEntry, EventWarnings
<1>7. ASSUME mapped.method # None PROVE Follows(found, mapped.method)
  <2> DEFINE method == mapped.method
  <2>1. first = {method} /\ first \subseteq routines
    BY <1>2, <1>3, <1>7, ResolvedOne, CandidatesOf
  <2>2. query.qualified = method.qualified /\ query.file = method.file
    BY <1>7 DEF HandlerQuery, EventQuery
  <2>3. /\ method \in second
        /\ \A other \in second : other.qualified = method.qualified /\ other.file = method.file
    <3> HIDE DEF mapped, query, routines
    <3> QED BY <1>1, <2>1, <2>2, HandlerCandidates
  <2>4. \A other \in second \cap routines : other = method
    <3> SUFFICES ASSUME NEW other \in second \cap routines PROVE other = method
      OBVIOUS
    <3>1. other.name = method.name
      BY <1>1, <2>1, <2>3
    <3>2. other \in first
      <4> HIDE DEF mapped, second, routines
      <4> QED BY <2>1, <2>3, <3>1, CandidatesAlike
    <3> QED BY <2>1, <3>2
  <2>5. CASE second \subseteq routines
    <3>1. second = {method}
      BY <2>3, <2>4, <2>5
    <3> HIDE DEF second, mapped, found
    <3> QED BY <1>4, <3>1, OneResolved DEF Follows
  <2>6. CASE ~(second \subseteq routines)
    <3>1. PICK other \in second : other \notin routines
      BY <2>6
    <3>2. other \in symbols /\ other.qualified = method.qualified /\ other.file = method.file
      BY <2>3, <3>1, CandidatesOf
    <3>3. found = None
      <4> HIDE DEF second, mapped, found, routines
      <4> QED BY <1>2, <1>4, <2>1, <2>3, <3>1, ResolvedOne
    <3> HIDE DEF mapped, found
    <3> QED BY <3>1, <3>2, <3>3 DEF Follows
  <2> QED BY <2>5, <2>6
<1> HIDE DEF mapped, found
<1>8. Follows(found, mapped.method)
  BY <1>7 DEF Follows
<1> QED BY <1>5, <1>6, <1>8 DEF mapped, found

-----------------------------------------------------------------------------
(***************************************************************************)
(* What a step does to the builder, the work list and the entry.           *)
(***************************************************************************)
LEMMA PushedTells ==
  ASSUME NEW b, Telling(b), NEW step
  PROVE  LET c == PushStep(b, step)
         IN  /\ Telling(c) /\ b.warnings \subseteq c.warnings
             /\ Clean(c) => /\ Clean(b) /\ ~LimitReached(b, step)
                            /\ ToSet(c.steps) = ToSet(b.steps) \cup {step}
<1> DEFINE c == PushStep(b, step)
<1>1. /\ Shaped(c) /\ b.warnings \subseteq c.warnings
      /\ Clean(c) => /\ Clean(b) /\ ~LimitReached(b, step)
                     /\ ToSet(c.steps) = ToSet(b.steps) \cup {step}
      /\ ~Clean(c) => ~Clean(b) \/ c.warnings # {}
  BY Pushed DEF Telling
<1> HIDE DEF c
<1> QED BY <1>1 DEF c, Telling

LEMMA EntryKept ==
  ASSUME EntryOK, entry' = entry, input' = input, builder.warnings \subseteq builder'.warnings,
         Clean(builder') => Clean(builder)
  PROVE  EntryOK'
  BY DEF EntryOK, Follows

LEMMA SameTrace ==
  ASSUME NEW trace, input' = input
  PROVE  EventTraceOK(trace)' <=> EventTraceOK(trace)
  BY DEF EventTraceOK, TellsWhole, Follows, Routines, ShowsItsSql, ShowsItsCalls, Target

LEMMA TracesKept == ASSUME TracesOK, input' = input, traces' = traces PROVE TracesOK'
<1>1. \A trace \in ToSet(traces) : EventTraceOK(trace)'
  BY SameTrace DEF TracesOK
<1> QED BY <1>1 DEF TracesOK, IsCut

LEMMA SymbolItems ==
  ASSUME input \in Inputs, NEW symbol \in input.symbols
  PROVE  /\ IsList(input.sql[symbol.key]) /\ IsList(input.calls[symbol.key])
         /\ \A statement \in ToSet(input.sql[symbol.key]) :
              IsList(statement.tables) /\ IsList(statement.fields)
<1> DEFINE sql == input.sql[symbol.key]
<1>1. /\ IsList(sql) /\ IsList(input.calls[symbol.key])
      /\ \A n \in DOMAIN sql : IsList(sql[n].tables) /\ IsList(sql[n].fields)
  BY InputsAssumption
<1> HIDE DEF sql
<1>2. \A statement \in ToSet(sql) : IsList(statement.tables) /\ IsList(statement.fields)
  BY <1>1 DEF ToSet
<1> QED BY <1>1, <1>2 DEF sql

LEMMA ItemFields ==
  ASSUME NEW kind, NEW symbol, NEW depth, NEW what, NEW statement
  PROVE  LET item == Item(kind, symbol, depth, what, statement)
         IN  /\ item.kind = kind /\ item.symbol = symbol /\ item.what = what
             /\ item.statement = statement
  BY DEF Item

\* A visit shows nothing yet, and puts all that its symbol has on the work list.
VisitedItems(symbol, depth, rest) ==
  SqlItems(symbol, depth) \o CallItems(symbol, depth)
  \o <<Item("leave", symbol, depth, None, None)>> \o rest

LEMMA VisitLists ==
  ASSUME input \in Inputs, NEW symbol \in input.symbols, NEW depth, NEW rest, Items(rest)
  PROVE  LET list == VisitedItems(symbol, depth, rest)
         IN  /\ Items(list) /\ ToSet(rest) \subseteq ToSet(list)
             /\ \A statement \in ToSet(input.sql[symbol.key]) :
                  Item("sql", symbol, depth, statement, statement) \in ToSet(list)
             /\ \A call \in ToSet(input.calls[symbol.key]) :
                  Item("call", symbol, depth, call, None) \in ToSet(list)
<1> DEFINE sql   == SqlItems(symbol, depth)
           calls == CallItems(symbol, depth)
           back  == Item("leave", symbol, depth, None, None)
           list  == VisitedItems(symbol, depth, rest)
<1>1. IsList(input.sql[symbol.key]) /\ IsList(input.calls[symbol.key])
  BY SymbolItems
<1>2. /\ IsList(sql)
      /\ ToSet(sql) = {Item("sql", symbol, depth, statement, statement) :
                         statement \in ToSet(input.sql[symbol.key])}
  BY <1>1, ListOfSql, Zenon
<1>3. /\ IsList(calls)
      /\ ToSet(calls) = {Item("call", symbol, depth, call, None) : call \in ToSet(input.calls[symbol.key])}
  BY <1>1, ListOfCalls, Zenon
<1>4. IsList(<<back>>) /\ ToSet(<<back>>) = {back}
  BY ListOne
<1> HIDE DEF sql, calls, back
<1>5. IsList(sql \o calls) /\ ToSet(sql \o calls) = ToSet(sql) \cup ToSet(calls)
  BY <1>2, <1>3, ListConcat
<1>6. /\ IsList(sql \o calls \o <<back>>)
      /\ ToSet(sql \o calls \o <<back>>) = ToSet(sql) \cup ToSet(calls) \cup {back}
  BY <1>4, <1>5, ListConcat
<1>7. /\ IsList(list)
      /\ ToSet(list) = ToSet(sql) \cup ToSet(calls) \cup {back} \cup ToSet(rest)
  BY <1>6, ListConcat DEF Items, VisitedItems, sql, calls, back
<1> HIDE DEF list
<1>8. ASSUME NEW item \in ToSet(list)
      PROVE  /\ item.symbol \in input.symbols
             /\ item.kind = "sql" => item.statement = item.what /\ item.what \in ToSet(input.sql[item.symbol.key])
  <2>1. CASE item \in ToSet(sql)
    BY <1>2, <2>1, ItemFields
  <2>2. CASE item \in ToSet(calls) \cup {back}
    BY <1>3, <2>2, ItemFields DEF back
  <2>3. CASE item \in ToSet(rest)
    BY <2>3 DEF Items
  <2> QED BY <1>7, <2>1, <2>2, <2>3
<1>9. Items(list)
  BY <1>7, <1>8 DEF Items
<1> QED BY <1>2, <1>3, <1>7, <1>9 DEF list

LEMMA Visits ==
  ASSUME input \in Inputs, NEW symbol \in input.symbols, NEW depth, NEW b, Telling(b), NEW rest, Items(rest),
         Visit(symbol, depth, b, rest)
  PROVE  /\ Telling(builder') /\ b.warnings \subseteq builder'.warnings
         /\ todo' = rest \/ todo' = VisitedItems(symbol, depth, rest)
         /\ Clean(builder') =>
              /\ builder' = b /\ visited' = visited \cup {symbol.key}
              /\ symbol.key \notin visited => todo' = VisitedItems(symbol, depth, rest)
<1>1. CASE IsVisited(symbol)
  BY <1>1 DEF Visit, IsVisited
<1>2. CASE ~IsVisited(symbol) /\ IsTooDeep(depth)
  <2> DEFINE told == AddWarningStep(MarkTruncated(b), Warning("MAX_CALL_DEPTH", symbol.key))
  <2>1. builder' = told /\ todo' = rest
    BY <1>2 DEF Visit
  <2>2. Shaped(told) /\ ~Clean(told) /\ b.warnings \subseteq told.warnings /\ told.warnings # {}
    BY Truncated, Warned DEF Telling
  <2> HIDE DEF told
  <2> QED BY <2>1, <2>2 DEF Telling
<1>3. CASE ~IsVisited(symbol) /\ ~IsTooDeep(depth)
  <2>1. builder' = b /\ visited' = visited \cup {symbol.key} /\ todo' = VisitedItems(symbol, depth, rest)
    BY <1>3 DEF Visit, VisitedItems
  <2> QED BY <2>1
<1> QED BY <1>1, <1>2, <1>3

\* What is shown or on the work list stays so, if what is taken from the list is
\* shown, and what a statement has is put on it.
Taken(item) ==
  /\ ToSet(todo) \subseteq ToSet(todo') \cup {item}
  /\ ToSet(builder.steps) \subseteq ToSet(builder'.steps)
  /\ affected \subseteq affected'

TakenSql(item) == item.kind = "sql" =>
  /\ Shown("sql", item.what.key)'
  /\ \A table \in ToSet(item.what.tables) : Queued("table", item.symbol, table, item.what)'
  /\ \A field \in ToSet(item.what.fields) : Queued("field", item.symbol, field, item.what)'

TakenTable(item) == item.kind = "table" =>
  /\ Shown("table", <<item.statement.key, item.what.name>>)'
  /\ item.what.operation # "unknown" => <<"table", item.what.name>> \in affected'

TakenField(item) == item.kind = "field" =>
  /\ Shown("field", <<item.statement.key, item.what.name>>)'
  /\ <<"field", item.what.name>> \in affected'

TakenCall(item) == item.kind = "call" =>
  LET target == Target(item.symbol, item.what).symbol
  IN  target # None /\ Shown("call", <<item.symbol.key, target.key, item.what.line>>)'

LEMMA SqlStaysOK ==
  ASSUME input' = input, NEW item, Taken(item), TakenSql(item), TakenTable(item), TakenField(item),
         NEW symbol, SqlOK(symbol)
  PROVE  SqlOK(symbol)'
<1> SUFFICES ASSUME NEW statement \in ToSet(input.sql[symbol.key])
             PROVE  \/ Queued("sql", symbol, statement, statement)'
                    \/ Shown("sql", statement.key)' /\ TablesOK(symbol, statement)' /\ FieldsOK(symbol, statement)'
  BY DEF SqlOK
<1>1. CASE Queued("sql", symbol, statement, statement)
  <2>1. Queued("sql", symbol, statement, statement)' \/ (item.kind = "sql" /\ item.symbol = symbol /\ item.what = statement)
    BY <1>1 DEF Queued, Taken
  <2> QED BY <2>1 DEF TakenSql, TablesOK, FieldsOK
<1>2. CASE Shown("sql", statement.key) /\ TablesOK(symbol, statement) /\ FieldsOK(symbol, statement)
  <2>1. Shown("sql", statement.key)'
    BY <1>2 DEF Shown, Taken
  <2>2. ASSUME NEW table \in ToSet(statement.tables)
        PROVE  \/ Queued("table", symbol, table, statement)'
               \/ /\ Shown("table", <<statement.key, table.name>>)'
                  /\ table.operation # "unknown" => <<"table", table.name>> \in affected'
    <3>1. CASE Queued("table", symbol, table, statement)
      BY <3>1 DEF Queued, Taken, TakenTable
    <3>2. CASE ~Queued("table", symbol, table, statement)
      BY <1>2, <3>2 DEF TablesOK, Shown, Taken
    <3> QED BY <3>1, <3>2
  <2>3. ASSUME NEW field \in ToSet(statement.fields)
        PROVE  \/ Queued("field", symbol, field, statement)'
               \/ Shown("field", <<statement.key, field.name>>)' /\ <<"field", field.name>> \in affected'
    <3>1. CASE Queued("field", symbol, field, statement)
      BY <3>1 DEF Queued, Taken, TakenField
    <3>2. CASE ~Queued("field", symbol, field, statement)
      BY <1>2, <3>2 DEF FieldsOK, Shown, Taken
    <3> QED BY <3>1, <3>2
  <2> QED BY <2>1, <2>2, <2>3 DEF TablesOK, FieldsOK
<1> QED BY <1>1, <1>2 DEF SqlOK

LEMMA CallsStayOK ==
  ASSUME input' = input, NEW item, Taken(item), TakenCall(item), NEW symbol, CallsOK(symbol)
  PROVE  CallsOK(symbol)'
<1> SUFFICES ASSUME NEW call \in ToSet(input.calls[symbol.key])
             PROVE  \/ Queued("call", symbol, call, None)'
                    \/ LET target == Target(symbol, call).symbol
                       IN  target # None /\ Shown("call", <<symbol.key, target.key, call.line>>)'
  BY DEF CallsOK, Target
<1>1. CASE Queued("call", symbol, call, None)
  BY <1>1 DEF Queued, Taken, TakenCall, Target
<1>2. CASE ~Queued("call", symbol, call, None)
  BY <1>2 DEF CallsOK, Shown, Taken, Target
<1> QED BY <1>1, <1>2

-----------------------------------------------------------------------------
(***************************************************************************)
(* The steps of the walk.                                                  *)
(***************************************************************************)
LEMMA HeadItem ==
  ASSUME TodoOK, todo # <<>>
  PROVE  /\ Items(Tail(todo)) /\ ToSet(todo) = {Head(todo)} \cup ToSet(Tail(todo))
         /\ Head(todo).symbol \in input.symbols
         /\ Head(todo).kind = "sql" => /\ Head(todo).statement = Head(todo).what
                                       /\ Head(todo).what \in ToSet(input.sql[Head(todo).symbol.key])
  BY ListTail DEF TodoOK, Items

LEMMA BrokenItems == ASSUME NEW item, TodoOK PROVE Items(Broken(item))
  BY ListBroken DEF TodoOK, Items

\* A step that is no handler and no call shows no routine.
LEMMA NoRoutine ==
  ASSUME NEW b, NEW c, NEW step, ToSet(c.steps) = ToSet(b.steps) \cup {step},
         step[1] \notin {"handler", "call"}
  PROVE  Routines(c) = Routines(b)
  BY DEF Routines, Step

\* The invariant after a step within a trace.
LEMMA WalkKeeps ==
  ASSUME IInv, input' = input, entry' = entry, traces' = traces, entry # Idle,
         Telling(builder'), builder.warnings \subseteq builder'.warnings,
         Items(todo'), Clean(builder') => Clean(builder),
         Clean(builder') =>
           /\ ToSet(builder.steps) \subseteq ToSet(builder'.steps)
           /\ \A symbol \in Routines(builder') : symbol.key \in visited'
           /\ \A symbol \in input.symbols : symbol.key \in visited' => SqlOK(symbol)' /\ CallsOK(symbol)'
  PROVE  IInv'
<1>1. BuilderOK' /\ IdleOK'
  BY DEF BuilderOK, IdleOK
<1>2. TodoOK'
  BY DEF TodoOK, Items
<1>3. EntryOK' /\ TracesOK'
  BY EntryKept, TracesKept DEF IInv
<1>4. WholeOK'
  <2> SUFFICES ASSUME Clean(builder') PROVE WholeOK'
    BY DEF WholeOK
  <2>1. Shown("handler", entry.handler.key)'
    BY DEF IInv, WholeOK, Shown
  <2>2. Routines(builder)' = Routines(builder')
    BY DEF Routines
  <2> QED BY <2>1, <2>2 DEF WholeOK
<1> QED BY <1>1, <1>2, <1>3, <1>4 DEF IInv

LEMMA TargetLists ==
  ASSUME NEW kind, NEW symbol, NEW depth, NEW targets, NEW statement, IsList(targets)
  PROVE  /\ IsList(TargetItems(kind, symbol, depth, targets, statement))
         /\ \A target \in ToSet(targets) : Item(kind, symbol, depth, target, statement)
              \in ToSet(TargetItems(kind, symbol, depth, targets, statement))
         /\ \A other \in ToSet(TargetItems(kind, symbol, depth, targets, statement)) :
              other.symbol = symbol /\ other.kind = kind
<1> DEFINE items == TargetItems(kind, symbol, depth, targets, statement)
<1>1. /\ IsList(items)
      /\ ToSet(items) = {Item(kind, symbol, depth, target, statement) : target \in ToSet(targets)}
  BY ListOfTargets
<1> HIDE DEF items
<1>2. \A other \in ToSet(items) : other.symbol = symbol /\ other.kind = kind
  BY <1>1, ItemFields
<1>3. \A target \in ToSet(targets) : Item(kind, symbol, depth, target, statement) \in ToSet(items)
  BY <1>1
<1> QED BY <1>1, <1>2, <1>3 DEF items

LEMMA StatementLists ==
  ASSUME NEW item, IsList(item.what.tables), IsList(item.what.fields), NEW rest, IsList(rest)
  PROVE  LET list == StatementItems(item) \o rest
         IN  /\ IsList(list) /\ ToSet(rest) \subseteq ToSet(list)
             /\ \A table \in ToSet(item.what.tables) :
                  Item("table", item.symbol, item.depth, table, item.what) \in ToSet(list)
             /\ \A field \in ToSet(item.what.fields) :
                  Item("field", item.symbol, item.depth, field, item.what) \in ToSet(list)
             /\ \A other \in ToSet(list) \ ToSet(rest) : other.symbol = item.symbol /\ other.kind # "sql"
<1> DEFINE tables == TargetItems("table", item.symbol, item.depth, item.what.tables, item.what)
           fields == TargetItems("field", item.symbol, item.depth, item.what.fields, item.what)
<1>1. /\ IsList(tables)
      /\ \A table \in ToSet(item.what.tables) :
           Item("table", item.symbol, item.depth, table, item.what) \in ToSet(tables)
      /\ \A other \in ToSet(tables) : other.symbol = item.symbol /\ other.kind = "table"
  BY TargetLists
<1>2. /\ IsList(fields)
      /\ \A field \in ToSet(item.what.fields) :
           Item("field", item.symbol, item.depth, field, item.what) \in ToSet(fields)
      /\ \A other \in ToSet(fields) : other.symbol = item.symbol /\ other.kind = "field"
  BY TargetLists
<1>3. StatementItems(item) = tables \o fields
  BY DEF StatementItems
<1> HIDE DEF tables, fields
<1>4. IsList(tables \o fields) /\ ToSet(tables \o fields) = ToSet(tables) \cup ToSet(fields)
  BY <1>1, <1>2, ListConcat
<1>5. LET list == StatementItems(item) \o rest
      IN  IsList(list) /\ ToSet(list) = ToSet(tables) \cup ToSet(fields) \cup ToSet(rest)
  BY <1>3, <1>4, ListConcat
<1> QED BY <1>1, <1>2, <1>5

LEMMA WalkSqlKeeps ==
  ASSUME IInv, entry # Idle, NEW item, item = Head(todo), WalkSql PROVE IInv'
<1> DEFINE step   == Step("sql", item.what.key)
           pushed == PushStep(builder, step)
           warned == [pushed EXCEPT !.warnings =
                        IF item.what.dynamic THEN @ \cup {Warning("DYNAMIC_SQL", None)} ELSE @]
<1>1. /\ todo # <<>> /\ item.kind = "sql" /\ input' = input /\ entry' = entry /\ traces' = traces
      /\ visited' = visited /\ affected' = affected
      /\ IF LimitReached(builder, step) THEN todo' = Broken(item) /\ builder' = pushed
         ELSE todo' = StatementItems(item) \o Tail(todo) /\ builder' = warned
  BY DEF WalkSql
<1>2. /\ Items(Tail(todo)) /\ ToSet(todo) = {item} \cup ToSet(Tail(todo))
      /\ item.symbol \in input.symbols
      /\ item.statement = item.what /\ item.what \in ToSet(input.sql[item.symbol.key])
  <2>1. TodoOK
    BY DEF IInv
  <2> HIDE DEF step, pushed, warned
  <2> QED BY <1>1, <2>1, HeadItem
<1>3. /\ Telling(pushed) /\ builder.warnings \subseteq pushed.warnings
      /\ Clean(pushed) => /\ Clean(builder) /\ ~LimitReached(builder, step)
                          /\ ToSet(pushed.steps) = ToSet(builder.steps) \cup {step}
  <2>1. Telling(builder)
    BY DEF IInv, BuilderOK
  <2> HIDE DEF step
  <2> QED BY <2>1, PushedTells
<1>4. /\ Telling(builder') /\ builder.warnings \subseteq builder'.warnings
      /\ Clean(builder') => /\ Clean(builder) /\ ~LimitReached(builder, step)
                            /\ ToSet(builder'.steps) = ToSet(builder.steps) \cup {step}
  <2>1. /\ DOMAIN warned = DOMAIN pushed /\ pushed.warnings \subseteq warned.warnings
        /\ warned.steps = pushed.steps /\ warned.told = pushed.told
        /\ warned.truncated = pushed.truncated /\ warned.unresolved = pushed.unresolved
    <3> HIDE DEF pushed
    <3> QED BY <1>3 DEF Telling, Shaped
  <2> HIDE DEF warned, pushed, step
  <2>2. Telling(warned) /\ (Clean(warned) => Clean(pushed))
    BY <1>3, <2>1 DEF Telling, Shaped, Clean
  <2> QED BY <1>1, <1>3, <2>1, <2>2
<1>5. IsList(item.what.tables) /\ IsList(item.what.fields)
  BY <1>2, SymbolItems DEF IInv
<1>6. /\ IsList(StatementItems(item) \o Tail(todo))
      /\ ToSet(Tail(todo)) \subseteq ToSet(StatementItems(item) \o Tail(todo))
      /\ \A table \in ToSet(item.what.tables) :
           Item("table", item.symbol, item.depth, table, item.what) \in ToSet(StatementItems(item) \o Tail(todo))
      /\ \A field \in ToSet(item.what.fields) :
           Item("field", item.symbol, item.depth, field, item.what) \in ToSet(StatementItems(item) \o Tail(todo))
      /\ \A other \in ToSet(StatementItems(item) \o Tail(todo)) \ ToSet(Tail(todo)) :
           other.symbol = item.symbol /\ other.kind # "sql"
  <2>1. IsList(Tail(todo))
    BY <1>2 DEF Items
  <2> HIDE DEF step, pushed, warned
  <2> QED BY <1>5, <2>1, StatementLists
<1>7. Items(todo')
  <2>1. CASE LimitReached(builder, step)
    BY <1>1, <2>1, BrokenItems DEF IInv
  <2>2. CASE ~LimitReached(builder, step)
    BY <1>1, <1>2, <1>6, <2>2 DEF Items
  <2> QED BY <2>1, <2>2
<1>8. ASSUME Clean(builder')
       PROVE  /\ ToSet(builder.steps) \subseteq ToSet(builder'.steps)
              /\ \A symbol \in Routines(builder') : symbol.key \in visited'
              /\ \A symbol \in input.symbols : symbol.key \in visited' => SqlOK(symbol)' /\ CallsOK(symbol)'
  <2>1. ToSet(builder'.steps) = ToSet(builder.steps) \cup {step} /\ Clean(builder)
    BY <1>4, <1>8
  <2>2. todo' = StatementItems(item) \o Tail(todo)
    BY <1>1, <1>4, <1>8
  <2>3. Taken(item)
    BY <1>1, <1>2, <1>6, <2>1, <2>2 DEF Taken
  <2>4. TakenSql(item)
    <3>1. Shown("sql", item.what.key)'
      BY <2>1 DEF Shown
    <3>2. ASSUME NEW table \in ToSet(item.what.tables) PROVE Queued("table", item.symbol, table, item.what)'
      <4>1. Item("table", item.symbol, item.depth, table, item.what) \in ToSet(todo')
        BY <1>6, <2>2
      <4> QED BY <4>1, ItemFields DEF Queued
    <3>3. ASSUME NEW field \in ToSet(item.what.fields) PROVE Queued("field", item.symbol, field, item.what)'
      <4>1. Item("field", item.symbol, item.depth, field, item.what) \in ToSet(todo')
        BY <1>6, <2>2
      <4> QED BY <4>1, ItemFields DEF Queued
    <3> QED BY <3>1, <3>2, <3>3 DEF TakenSql
  <2>5. TakenTable(item) /\ TakenField(item) /\ TakenCall(item)
    BY <1>1 DEF TakenTable, TakenField, TakenCall
  <2>6. Routines(builder') = Routines(builder)
    <3>1. step[1] = "sql"
      BY DEF Step
    <3> HIDE DEF step
    <3> QED BY <2>1, <3>1, NoRoutine
  <2>7. \A symbol \in input.symbols : symbol.key \in visited' => SqlOK(symbol)' /\ CallsOK(symbol)'
    <3>1. \A symbol \in input.symbols : symbol.key \in visited => SqlOK(symbol) /\ CallsOK(symbol)
      BY <2>1 DEF IInv, WholeOK
    <3> QED BY <1>1, <2>3, <2>4, <2>5, <3>1, SqlStaysOK, CallsStayOK
  <2>8. \A symbol \in Routines(builder) : symbol.key \in visited
    BY <2>1 DEF IInv, WholeOK
  <2> QED BY <1>1, <2>1, <2>6, <2>7, <2>8
<1> HIDE DEF step
<1> QED BY <1>1, <1>4, <1>7, <1>8, WalkKeeps

LEMMA WalkTargetKeeps ==
  ASSUME IInv, entry # Idle, NEW item, item = Head(todo), WalkTarget PROVE IInv'
<1> DEFINE step == Step(item.kind, <<item.statement.key, item.what.name>>)
<1>1. /\ todo # <<>> /\ item.kind \in {"table", "field"}
      /\ input' = input /\ entry' = entry /\ traces' = traces /\ visited' = visited
      /\ affected' = (IF item.kind = "table" /\ item.what.operation = "unknown" THEN affected
                      ELSE affected \cup {<<item.kind, item.what.name>>})
      /\ builder' = PushStep(builder, step)
      /\ todo' = (IF LimitReached(builder, step) THEN Broken(item) ELSE Tail(todo))
  BY DEF WalkTarget
<1> HIDE DEF step
<1>2. /\ Items(Tail(todo)) /\ ToSet(todo) = {item} \cup ToSet(Tail(todo))
      /\ Items(Broken(item))
  BY <1>1, HeadItem, BrokenItems DEF IInv
<1>3. /\ Telling(builder') /\ builder.warnings \subseteq builder'.warnings
      /\ Clean(builder') => /\ Clean(builder) /\ ~LimitReached(builder, step)
                            /\ ToSet(builder'.steps) = ToSet(builder.steps) \cup {step}
  <2>1. Telling(builder)
    BY DEF IInv, BuilderOK
  <2> QED BY <1>1, <2>1, PushedTells
<1>4. Items(todo')
  BY <1>1, <1>2 DEF Items
<1>5. ASSUME Clean(builder')
      PROVE  /\ ToSet(builder.steps) \subseteq ToSet(builder'.steps)
             /\ \A symbol \in Routines(builder') : symbol.key \in visited'
             /\ \A symbol \in input.symbols : symbol.key \in visited' => SqlOK(symbol)' /\ CallsOK(symbol)'
  <2>1. /\ ToSet(builder'.steps) = ToSet(builder.steps) \cup {step} /\ Clean(builder)
        /\ todo' = Tail(todo)
    BY <1>1, <1>3, <1>5
  <2>2. Taken(item)
    BY <1>1, <1>2, <2>1 DEF Taken
  <2>3. step \in ToSet(builder'.steps)
    BY <2>1
  <2>4. TakenTable(item)
    BY <1>1, <2>3 DEF TakenTable, Shown, step
  <2>5. TakenField(item)
    BY <1>1, <2>3 DEF TakenField, Shown, step
  <2>6. TakenSql(item) /\ TakenCall(item)
    BY <1>1 DEF TakenSql, TakenCall
  <2>7. Routines(builder') = Routines(builder)
    <3>1. step[1] \notin {"handler", "call"}
      BY <1>1 DEF Step, step
    <3> QED BY <2>1, <3>1, NoRoutine
  <2>8. \A symbol \in input.symbols : symbol.key \in visited' => SqlOK(symbol)' /\ CallsOK(symbol)'
    <3>1. \A symbol \in input.symbols : symbol.key \in visited => SqlOK(symbol) /\ CallsOK(symbol)
      BY <2>1 DEF IInv, WholeOK
    <3> QED BY <1>1, <2>2, <2>4, <2>5, <2>6, <3>1, SqlStaysOK, CallsStayOK
  <2>9. \A symbol \in Routines(builder) : symbol.key \in visited
    BY <2>1 DEF IInv, WholeOK
  <2> QED BY <1>1, <2>1, <2>7, <2>8, <2>9
<1> QED BY <1>1, <1>3, <1>4, <1>5, WalkKeeps

LEMMA LeaveKeeps ==
  ASSUME IInv, entry # Idle, NEW item, item = Head(todo), Leave PROVE IInv'
<1>1. /\ todo # <<>> /\ item.kind = "leave" /\ todo' = Tail(todo)
      /\ input' = input /\ entry' = entry /\ traces' = traces /\ visited' = visited
      /\ builder' = builder /\ affected' = affected
  BY DEF Leave
<1>2. Items(Tail(todo)) /\ ToSet(todo) = {item} \cup ToSet(Tail(todo))
  BY <1>1, HeadItem DEF IInv
<1>3. Taken(item) /\ TakenSql(item) /\ TakenTable(item) /\ TakenField(item) /\ TakenCall(item)
  BY <1>1, <1>2 DEF Taken, TakenSql, TakenTable, TakenField, TakenCall
<1>4. ASSUME Clean(builder')
      PROVE  /\ \A symbol \in Routines(builder') : symbol.key \in visited'
             /\ \A symbol \in input.symbols : symbol.key \in visited' => SqlOK(symbol)' /\ CallsOK(symbol)'
  <2>1. /\ \A symbol \in Routines(builder) : symbol.key \in visited
        /\ \A symbol \in input.symbols : symbol.key \in visited => SqlOK(symbol) /\ CallsOK(symbol)
    BY <1>1, <1>4 DEF IInv, WholeOK
  <2> QED BY <1>1, <1>3, <2>1, SqlStaysOK, CallsStayOK
<1>5. Telling(builder') /\ Items(todo')
  BY <1>1, <1>2 DEF IInv, BuilderOK, Items
<1> QED BY <1>1, <1>4, <1>5, WalkKeeps

\* The symbol a visit opens is all on the work list.
LEMMA Opened ==
  ASSUME input \in Inputs, input' = input, NEW symbol \in input.symbols, NEW depth, NEW rest, Items(rest),
         todo' = VisitedItems(symbol, depth, rest)
  PROVE  SqlOK(symbol)' /\ CallsOK(symbol)'
<1>1. /\ \A statement \in ToSet(input.sql[symbol.key]) :
           Item("sql", symbol, depth, statement, statement) \in ToSet(todo')
      /\ \A call \in ToSet(input.calls[symbol.key]) :
           Item("call", symbol, depth, call, None) \in ToSet(todo')
  BY VisitLists
<1>2. ASSUME NEW statement \in ToSet(input.sql[symbol.key])
      PROVE  Queued("sql", symbol, statement, statement)'
  BY <1>1, ItemFields DEF Queued
<1>3. ASSUME NEW call \in ToSet(input.calls[symbol.key]) PROVE Queued("call", symbol, call, None)'
  BY <1>1, ItemFields DEF Queued
<1> QED BY <1>2, <1>3 DEF SqlOK, CallsOK

LEMMA WalkCallKeeps ==
  ASSUME IInv, entry # Idle, NEW item, item = Head(todo),
         NEW symbol, symbol = Target(item.symbol, item.what).symbol, WalkCall
  PROVE  IInv'
<1> DEFINE step   == Step("call", <<item.symbol.key, symbol.key, item.what.line>>)
           b      == PushStep(builder, step)
<1>1. /\ todo # <<>> /\ item.kind = "call"
      /\ input' = input /\ entry' = entry /\ traces' = traces /\ affected' = affected
  BY DEF WalkCall
<1>2. \/ /\ builder' = AddWarningStep(builder, Warning("CALL_UNRESOLVED", item.what.name))
         /\ todo' = Tail(todo)
      \/ LimitReached(builder, step) /\ builder' = b /\ todo' = Broken(item)
      \/ /\ builder' = AddWarningStep(b, Warning("CALL_CYCLE", symbol.key))
         /\ todo' = Tail(todo)
      \/ symbol # None /\ Visit(symbol, item.depth + 1, b, Tail(todo))
  BY DEF WalkCall
<1>3. /\ Items(Tail(todo)) /\ ToSet(todo) = {item} \cup ToSet(Tail(todo))
      /\ Items(Broken(item))
  BY <1>1, HeadItem, BrokenItems DEF IInv
<1>4. symbol # None => symbol \in input.symbols
  <2>1. IsFiniteSet(input.symbols)
    BY InputsAssumption DEF IInv
  <2> QED BY <2>1, ResolvedIsThere DEF Target
<1>5. /\ Telling(b) /\ builder.warnings \subseteq b.warnings
      /\ Clean(b) => /\ Clean(builder) /\ ~LimitReached(builder, step)
                     /\ ToSet(b.steps) = ToSet(builder.steps) \cup {step}
  <2>1. Telling(builder)
    BY DEF IInv, BuilderOK
  <2> HIDE DEF step
  <2> QED BY <2>1, PushedTells
<1> DEFINE unresolved == AddWarningStep(builder, Warning("CALL_UNRESOLVED", item.what.name))
           cycle      == AddWarningStep(b, Warning("CALL_CYCLE", symbol.key))
<1>6. Telling(unresolved) /\ builder.warnings \subseteq unresolved.warnings /\ ~Clean(unresolved)
  <2>1. Shaped(builder)
    BY DEF IInv, BuilderOK, Telling
  <2> QED BY <2>1, Warned DEF Telling
<1>7. Telling(cycle) /\ builder.warnings \subseteq cycle.warnings /\ ~Clean(cycle)
  <2> HIDE DEF b
  <2>1. Shaped(b)
    BY <1>5 DEF Telling
  <2>2. Shaped(cycle) /\ ~Clean(cycle) /\ b.warnings \subseteq cycle.warnings /\ cycle.warnings # {}
    BY <2>1, Warned
  <2> HIDE DEF cycle
  <2> QED BY <1>5, <2>2 DEF Telling
<1> HIDE DEF b, step, unresolved, cycle
<1>8. CASE ~Visit(symbol, item.depth + 1, b, Tail(todo)) \/ symbol = None
  <2>1. Telling(builder') /\ builder.warnings \subseteq builder'.warnings /\ ~Clean(builder')
    BY <1>2, <1>5, <1>6, <1>7, <1>8 DEF unresolved, cycle
  <2>2. Items(todo')
    BY <1>2, <1>3, <1>8 DEF Items
  <2> QED BY <1>1, <2>1, <2>2, WalkKeeps
<1>9. CASE Visit(symbol, item.depth + 1, b, Tail(todo)) /\ symbol # None
  <2>1. input \in Inputs /\ symbol \in input.symbols
    BY <1>4, <1>9 DEF IInv
  <2>2. /\ Telling(builder') /\ b.warnings \subseteq builder'.warnings
        /\ todo' = Tail(todo) \/ todo' = VisitedItems(symbol, item.depth + 1, Tail(todo))
        /\ Clean(builder') =>
             /\ builder' = b /\ visited' = visited \cup {symbol.key}
             /\ symbol.key \notin visited => todo' = VisitedItems(symbol, item.depth + 1, Tail(todo))
    BY <1>3, <1>5, <1>9, <2>1, Visits
  <2>3. Items(todo') /\ ToSet(Tail(todo)) \subseteq ToSet(todo')
    <3>1. /\ Items(VisitedItems(symbol, item.depth + 1, Tail(todo)))
          /\ ToSet(Tail(todo)) \subseteq ToSet(VisitedItems(symbol, item.depth + 1, Tail(todo)))
      BY <1>3, <2>1, VisitLists
    <3> QED BY <1>1, <1>3, <2>2, <3>1 DEF Items
  <2>4. ASSUME Clean(builder')
        PROVE  /\ ToSet(builder.steps) \subseteq ToSet(builder'.steps)
               /\ \A other \in Routines(builder') : other.key \in visited'
               /\ \A other \in input.symbols : other.key \in visited' => SqlOK(other)' /\ CallsOK(other)'
    <3>1. /\ ToSet(builder'.steps) = ToSet(builder.steps) \cup {step} /\ Clean(builder)
          /\ visited' = visited \cup {symbol.key}
      BY <1>5, <2>2, <2>4
    <3>2. /\ \A other \in Routines(builder) : other.key \in visited
          /\ \A other \in input.symbols : other.key \in visited => SqlOK(other) /\ CallsOK(other)
      BY <3>1 DEF IInv, WholeOK
    <3>3. ASSUME NEW other \in Routines(builder') PROVE other \in Routines(builder) \/ other.key = symbol.key
      <4>1. other \in input.symbols
        BY DEF Routines
      <4>2. PICK shown \in ToSet(builder'.steps) :
              shown = Step("handler", other.key) \/ (shown[1] = "call" /\ shown[2][2] = other.key)
        BY DEF Routines
      <4>3. CASE shown \in ToSet(builder.steps)
        BY <4>1, <4>2, <4>3 DEF Routines
      <4>4. CASE shown = step
        <5>1. step # Step("handler", other.key) /\ step[2][2] = symbol.key
          BY DEF Step, step
        <5> QED BY <4>2, <4>4, <5>1
      <4> QED BY <3>1, <4>2, <4>3, <4>4
    <3>4. Taken(item)
      BY <1>1, <1>3, <2>3, <3>1 DEF Taken
    <3>5. TakenSql(item) /\ TakenTable(item) /\ TakenField(item)
      BY <1>1 DEF TakenSql, TakenTable, TakenField
    <3>6. TakenCall(item)
      <4>1. Target(item.symbol, item.what)' = Target(item.symbol, item.what)
        BY <1>1 DEF Target
      <4>2. Shown("call", <<item.symbol.key, symbol.key, item.what.line>>)'
        BY <3>1 DEF Shown, step
      <4> QED BY <1>9, <4>1, <4>2 DEF TakenCall
    <3>7. ASSUME NEW other \in input.symbols, other.key \in visited'
          PROVE  SqlOK(other)' /\ CallsOK(other)'
      <4>1. CASE other.key \in visited
        BY <1>1, <3>2, <3>4, <3>5, <3>6, <4>1, SqlStaysOK, CallsStayOK
      <4>2. CASE other.key \notin visited
        <5>1. other.key = symbol.key /\ symbol.key \notin visited
          BY <3>1, <3>7, <4>2
        <5>2. other = symbol
          BY <2>1, <5>1, InputsAssumption
        <5>3. todo' = VisitedItems(symbol, item.depth + 1, Tail(todo))
          BY <2>2, <2>4, <5>1
        <5>4. SqlOK(symbol)' /\ CallsOK(symbol)'
          BY <1>1, <1>3, <2>1, <5>3, Opened
        <5> QED BY <5>2, <5>4
      <4> QED BY <4>1, <4>2
    <3> QED BY <3>1, <3>2, <3>3, <3>7
  <2> QED BY <1>1, <1>5, <2>2, <2>3, <2>4, WalkKeeps
<1> QED BY <1>8, <1>9

\* The invariant once a trace is started.
LEMMA StartKeeps ==
  ASSUME IInv, input' = input, traces' = traces, NEW mapped, NEW found,
         entry' = [kind |-> "event", mapped |-> mapped, handler |-> found],
         Telling(builder'), mapped.warnings \subseteq builder'.warnings,
         mapped.status = "unresolved" => mapped.warnings # {},
         found \in input.symbols \/ (found = None /\ ~Clean(builder')),
         Follows(found, mapped.method), Items(todo'),
         Clean(builder') =>
           /\ Step("handler", found.key) \in ToSet(builder'.steps)
           /\ \A symbol \in Routines(builder') : symbol.key \in visited'
           /\ \A symbol \in input.symbols : symbol.key \in visited' => SqlOK(symbol)' /\ CallsOK(symbol)'
  PROVE  IInv'
<1>1. entry'.kind = "event" /\ entry'.mapped = mapped /\ entry'.handler = found /\ entry' # Idle
  BY DEF Idle
<1>2. BuilderOK' /\ IdleOK'
  BY <1>1 DEF BuilderOK, IdleOK
<1>3. TodoOK'
  BY DEF TodoOK, Items
<1>4. EntryOK'
  BY <1>1 DEF EntryOK, Follows
<1>5. TracesOK'
  BY TracesKept DEF IInv
<1>6. WholeOK'
  <2> SUFFICES ASSUME Clean(builder') PROVE WholeOK'
    BY DEF WholeOK
  <2>1. Shown("handler", entry.handler.key)'
    BY <1>1 DEF Shown
  <2>2. Routines(builder)' = Routines(builder')
    BY DEF Routines
  <2> QED BY <2>1, <2>2 DEF WholeOK
<1> QED BY <1>2, <1>3, <1>4, <1>5, <1>6 DEF IInv

LEMMA StartEventTraceKeeps ==
  ASSUME IInv, NEW mapped, mapped = MapEntry(input.events[Head(queue).index], input.symbols, PascalFiles),
         NEW found, found = Handler(mapped).symbol, StartEventTrace
  PROVE  IInv'
<1> DEFINE component == Step("component", None)
           event     == Step("event", mapped.event.name)
           handler   == Step("handler", found.key)
           fresh     == NewBuilder(mapped.warnings)
           named     == PushStep(fresh, component)
           opened    == PushStep(named, event)
           b         == PushStep(opened, handler)
<1>1. /\ input' = input /\ traces' = traces /\ entry = Idle
      /\ entry' = [kind |-> "event", mapped |-> mapped, handler |-> found]
      /\ IF found # None THEN Visit(found, 0, b, <<>>)
         ELSE /\ \E warning : builder' = AddWarningStep(opened, warning)
              /\ UNCHANGED <<todo, visited, active>>
  BY DEF StartEventTrace
<1>2. input \in Inputs /\ todo = <<>> /\ visited = {}
  BY <1>1 DEF IInv, IdleOK
<1>3. /\ mapped.status = "unresolved" => mapped.warnings # {}
      /\ found \in input.symbols \cup {None} /\ Follows(found, mapped.method)
  BY <1>2, HandlerFollowsMap
<1>4. /\ Telling(named) /\ mapped.warnings \subseteq named.warnings
      /\ Clean(named) => ToSet(named.steps) = {component}
  <2>1. Telling(fresh) /\ fresh.warnings = mapped.warnings /\ ToSet(fresh.steps) = {}
    BY NewBuilderShape DEF Telling
  <2> HIDE DEF fresh, component
  <2> QED BY <2>1, PushedTells
<1>5. /\ Telling(opened) /\ mapped.warnings \subseteq opened.warnings
      /\ Clean(opened) => ToSet(opened.steps) = {component, event}
  <2> HIDE DEF named, component, event
  <2> QED BY <1>4, PushedTells
<1>6. /\ Telling(b) /\ mapped.warnings \subseteq b.warnings
      /\ Clean(b) => ToSet(b.steps) = {component, event, handler}
  <2> HIDE DEF opened, component, event, handler
  <2> QED BY <1>5, PushedTells
<1> HIDE DEF named, opened, b
<1>7. Items(<<>>)
  BY ListEmpty DEF Items
<1>8. CASE found = None
  <2>1. PICK warning : builder' = AddWarningStep(opened, warning)
    BY <1>1, <1>8
  <2>2. Telling(builder') /\ mapped.warnings \subseteq builder'.warnings /\ ~Clean(builder')
    BY <1>5, <2>1, Warned DEF Telling
  <2>3. Items(todo')
    BY <1>1, <1>2, <1>7, <1>8
  <2> HIDE DEF component, event, handler
  <2> QED BY <1>1, <1>3, <1>8, <2>2, <2>3, StartKeeps
<1>9. CASE found # None
  <2>1. found \in input.symbols /\ Visit(found, 0, b, <<>>)
    BY <1>1, <1>3, <1>9
  <2>2. /\ Telling(builder') /\ b.warnings \subseteq builder'.warnings
        /\ todo' = <<>> \/ todo' = VisitedItems(found, 0, <<>>)
        /\ Clean(builder') =>
             /\ builder' = b /\ visited' = visited \cup {found.key}
             /\ found.key \notin visited => todo' = VisitedItems(found, 0, <<>>)
    BY <1>2, <1>6, <1>7, <2>1, Visits
  <2>3. Items(todo')
    <3>1. Items(VisitedItems(found, 0, <<>>))
      BY <1>2, <1>7, <2>1, VisitLists
    <3> QED BY <1>7, <2>2, <3>1
  <2>4. ASSUME Clean(builder')
        PROVE  /\ handler \in ToSet(builder'.steps)
               /\ \A symbol \in Routines(builder') : symbol.key \in visited'
               /\ \A symbol \in input.symbols : symbol.key \in visited' => SqlOK(symbol)' /\ CallsOK(symbol)'
    <3>1. /\ ToSet(builder'.steps) = {component, event, handler} /\ visited' = {found.key}
          /\ todo' = VisitedItems(found, 0, <<>>)
      BY <1>2, <1>6, <2>2, <2>4
    <3>2. ASSUME NEW symbol \in Routines(builder') PROVE symbol.key = found.key
      <4>1. PICK shown \in {component, event, handler} :
              shown = Step("handler", symbol.key) \/ (shown[1] = "call" /\ shown[2][2] = symbol.key)
        BY <3>1 DEF Routines
      <4>2. shown[1] = "component" \/ shown[1] = "event" \/ shown = <<"handler", found.key>>
        BY <4>1 DEF Step
      <4> QED BY <4>1, <4>2 DEF Step
    <3>3. ASSUME NEW symbol \in input.symbols, symbol.key = found.key
          PROVE  SqlOK(symbol)' /\ CallsOK(symbol)'
      <4>1. symbol = found
        BY <1>2, <2>1, <3>3, InputsAssumption
      <4>2. SqlOK(found)' /\ CallsOK(found)'
        BY <1>1, <1>2, <1>7, <2>1, <3>1, Opened
      <4> QED BY <4>1, <4>2
    <3> QED BY <3>1, <3>2, <3>3
  <2>5. mapped.warnings \subseteq builder'.warnings
    BY <1>6, <2>2
  <2> HIDE DEF component, event
  <2> QED BY <1>1, <1>3, <2>1, <2>2, <2>3, <2>4, <2>5, StartKeeps
<1> QED BY <1>8, <1>9

-----------------------------------------------------------------------------
(***************************************************************************)
(* The finished traces.                                                    *)
(***************************************************************************)
LEMMA CutTrace ==
  ASSUME NEW trace, {"status", "confidence", "warnings"} \subseteq DOMAIN trace
  PROVE  LET cut == CutHere(trace)
         IN  /\ cut.steps = trace.steps /\ cut.status # "complete"
             /\ Warning("TRACE_LIMIT", None) \in cut.warnings
             /\ EventTraceOK(trace) => EventTraceOK(cut)
<1>1. LET cut == CutHere(trace)
      IN  /\ cut.steps = trace.steps /\ cut.entry = trace.entry
          /\ cut.status = (IF trace.status = "unresolved" THEN trace.status ELSE "partial")
          /\ cut.warnings = trace.warnings \cup {Warning("TRACE_LIMIT", None)}
  BY DEF CutHere
<1> QED BY <1>1 DEF EventTraceOK, TellsWhole

LEMMA KeptKeeps ==
  ASSUME TracesOK, input' = input, NEW trace, {"status", "confidence", "warnings"} \subseteq DOMAIN trace,
         EventTraceOK(trace), Len(trace.steps) <= MaxStepsPerTrace, Kept(trace)
  PROVE  TracesOK'
<1> DEFINE last == IF IsCut /\ Len(traces) = MaxTraces - 1 THEN CutHere(trace) ELSE trace
<1>1. /\ EventTraceOK(last) /\ Len(last.steps) <= MaxStepsPerTrace
      /\ IsCut /\ Len(traces) = MaxTraces - 1 =>
           Warning("TRACE_LIMIT", None) \in last.warnings /\ last.status # "complete"
  BY CutTrace
<1>2. traces' = Append(traces, last)
  BY DEF Kept
<1> HIDE DEF last
<1>3. IsList(traces)
  BY DEF TracesOK
<1>4. IsList(traces') /\ Len(traces') = Len(traces) + 1 /\ ToSet(traces') = ToSet(traces) \cup {last}
  BY <1>2, <1>3, ListAppend
<1>5. /\ Len(traces) \in Nat /\ DOMAIN traces = 1..Len(traces) /\ DOMAIN traces' = 1..(Len(traces) + 1)
      /\ \A n \in DOMAIN traces : traces'[n] = traces[n]
      /\ traces'[Len(traces) + 1] = last
  BY <1>2, <1>3 DEF IsList
<1>6. \A other \in ToSet(traces') : EventTraceOK(other)
  BY <1>1, <1>4 DEF TracesOK
<1>7. \A other \in ToSet(traces') : EventTraceOK(other)'
  BY <1>6, SameTrace
<1>8. \A other \in ToSet(traces') : Len(other.steps) <= MaxStepsPerTrace
  BY <1>1, <1>4 DEF TracesOK
<1>9. ASSUME IsCut, NEW n \in DOMAIN traces', n = MaxTraces
      PROVE  Warning("TRACE_LIMIT", None) \in traces'[n].warnings /\ traces'[n].status # "complete"
  <2>1. CASE n \in DOMAIN traces
    BY <1>5, <1>9, <2>1 DEF TracesOK
  <2>2. CASE n \notin DOMAIN traces
    <3>1. n = Len(traces) + 1 /\ Len(traces) = MaxTraces - 1
      BY <1>5, <1>9, <2>2
    <3> QED BY <1>1, <1>5, <1>9, <3>1
  <2> QED BY <2>1, <2>2
<1>10. IsCut' <=> IsCut
  BY DEF IsCut
<1> QED BY <1>4, <1>7, <1>8, <1>9, <1>10 DEF TracesOK

\* A trace whose walk is over shows what its routines have, or is not complete.
LEMMA WalkedRoutine ==
  ASSUME IInv, entry # Idle, todo = <<>>, Clean(builder), NEW trace,
         trace.steps = builder.steps, trace.affected = affected, NEW symbol \in Routines(trace)
  PROVE  ShowsItsSql(trace, symbol) /\ ShowsItsCalls(trace, symbol)
<1>1. symbol \in input.symbols /\ symbol.key \in visited
  BY DEF IInv, WholeOK, Routines
<1>2. SqlOK(symbol) /\ CallsOK(symbol)
  BY <1>1 DEF IInv, WholeOK
<1>3. \A kind, what, statement : ~Queued(kind, symbol, what, statement)
  BY ListEmpty DEF Queued
<1>4. ShowsItsSql(trace, symbol)
  BY <1>2, <1>3 DEF SqlOK, TablesOK, FieldsOK, Shown, ShowsItsSql
<1>5. ShowsItsCalls(trace, symbol)
  BY <1>2, <1>3 DEF CallsOK, Shown, ShowsItsCalls
<1> QED BY <1>4, <1>5

LEMMA FinishedTrace ==
  ASSUME IInv, entry # Idle, todo = <<>>, NEW trace, trace = EventTrace
  PROVE  /\ {"status", "confidence", "warnings"} \subseteq DOMAIN trace
         /\ EventTraceOK(trace) /\ Len(trace.steps) <= MaxStepsPerTrace
<1>1. /\ {"status", "confidence", "warnings"} \subseteq DOMAIN trace
      /\ trace.entry = entry /\ trace.status = EventStatus /\ trace.steps = builder.steps
      /\ trace.affected = affected /\ trace.warnings = builder.warnings /\ trace.truncated = builder.truncated
  BY DEF EventTrace
<1>2. Telling(builder) /\ EntryOK /\ WholeOK /\ input \in Inputs
  BY DEF IInv, BuilderOK
<1>3. Len(trace.steps) <= MaxStepsPerTrace
  BY <1>1, <1>2 DEF Telling, Shaped
<1>4. trace.status = "complete" => Clean(builder)
  BY <1>1, <1>2 DEF EventStatus, Clean, Telling, Shaped
<1>5. TellsWhole(trace)
  <2>1. CASE trace.status = "complete"
    <3>1. Clean(builder) /\ entry.handler \in input.symbols
      BY <1>2, <1>4, <2>1 DEF EntryOK
    <3>2. ~trace.truncated
      BY <1>1, <3>1 DEF Clean
    <3>3. trace.entry.handler \in Routines(trace)
      BY <1>1, <1>2, <3>1 DEF WholeOK, Shown, Routines
    <3>4. \A symbol \in Routines(trace) : ShowsItsSql(trace, symbol) /\ ShowsItsCalls(trace, symbol)
      BY <1>1, <3>1, WalkedRoutine
    <3> QED BY <2>1, <3>2, <3>3, <3>4 DEF TellsWhole
  <2>2. CASE trace.status # "complete"
    <3>1. entry.mapped.status = "unresolved" \/ ~Clean(builder)
      BY <1>1, <2>2 DEF EventStatus, Clean
    <3>2. trace.warnings # {}
      BY <1>1, <1>2, <3>1 DEF EntryOK, Telling
    <3> QED BY <2>2, <3>2 DEF TellsWhole
  <2> QED BY <2>1, <2>2
<1>6. trace.entry.handler = None => trace.status # "complete"
  <2>1. None \notin input.symbols
    BY <1>2, InputsAssumption
  <2> QED BY <1>1, <1>2, <1>4, <2>1 DEF EntryOK
<1>7. Follows(trace.entry.handler, trace.entry.mapped.method)
  BY <1>1, <1>2 DEF EntryOK
<1> QED BY <1>1, <1>3, <1>5, <1>6, <1>7 DEF EventTraceOK

LEMMA FinishEventTraceKeeps == ASSUME IInv, FinishEventTrace PROVE IInv'
<1> PICK trace : trace = EventTrace
  OBVIOUS
<1>1. /\ entry # Idle /\ todo = <<>> /\ Kept(trace) /\ input' = input /\ todo' = <<>>
      /\ entry' = Idle /\ visited' = {} /\ builder' = NewBuilder({})
  BY DEF FinishEventTrace
<1>2. TracesOK'
  BY <1>1, FinishedTrace, KeptKeeps DEF IInv
<1>3. BuilderOK'
  BY <1>1, NewBuilderShape DEF BuilderOK, Telling
<1>4. IdleOK' /\ EntryOK' /\ WholeOK'
  BY <1>1 DEF IdleOK, EntryOK, WholeOK
<1>5. TodoOK'
  BY <1>1, ListEmpty DEF TodoOK, Items
<1> QED BY <1>1, <1>2, <1>3, <1>4, <1>5 DEF IInv

LEMMA TraceBindingKeeps == ASSUME IInv, TraceBinding PROVE IInv'
<1> PICK binding : binding = input.bindings[Head(queue).index]
  OBVIOUS
<1> PICK trace : trace = BindingTrace(binding)
  OBVIOUS
<1>1. Kept(trace) /\ input' = input /\ UNCHANGED walk
  BY DEF TraceBinding
<1>2. EventTraceOK(trace) /\ {"status", "confidence", "warnings"} \subseteq DOMAIN trace
  BY DEF BindingTrace, EventTraceOK
<1>3. Len(trace.steps) <= MaxStepsPerTrace
  <2>1. PICK warned : trace.steps = BindingSteps(binding, NewBuilder(warned)).steps
    BY DEF BindingTrace
  <2>2. Shaped(BindingSteps(binding, NewBuilder(warned)))
    BY NewBuilderShape, BindingShape
  <2> QED BY <2>1, <2>2 DEF Shaped
<1>4. TracesOK'
  BY <1>1, <1>2, <1>3, KeptKeeps DEF IInv
<1>5. BuilderOK' /\ IdleOK'
  BY <1>1 DEF IInv, BuilderOK, IdleOK, walk
<1>6. TodoOK' /\ EntryOK'
  BY <1>1 DEF IInv, TodoOK, Items, EntryOK, Follows, walk
<1>7. WholeOK'
  <2>1. WholeOK
    BY DEF IInv
  <2> QED BY <1>1, <2>1 DEF WholeOK, Shown, Routines, SqlOK, TablesOK, FieldsOK, CallsOK, Queued, Target, walk
<1> QED BY <1>1, <1>4, <1>5, <1>6, <1>7 DEF IInv

-----------------------------------------------------------------------------
(***************************************************************************)
(* The invariant and the theorems.                                         *)
(***************************************************************************)
LEMMA InitIInv == Init => IInv
<1> SUFFICES ASSUME Init PROVE IInv
  OBVIOUS
<1>1. BuilderOK
  BY NewBuilderShape DEF Init, BuilderOK, Telling
<1>2. IdleOK /\ EntryOK /\ WholeOK
  BY DEF Init, IdleOK, EntryOK, WholeOK
<1>3. TodoOK /\ TracesOK
  BY ListEmpty DEF Init, TodoOK, Items, TracesOK
<1> QED BY <1>1, <1>2, <1>3 DEF Init, IInv

LEMMA StutterIInv == ASSUME IInv, UNCHANGED vars PROVE IInv'
<1>1. BuilderOK' /\ IdleOK'
  BY DEF IInv, BuilderOK, IdleOK, vars, walk
<1>2. TodoOK' /\ EntryOK'
  BY DEF IInv, TodoOK, Items, EntryOK, Follows, vars, walk
<1>3. WholeOK'
  <2>1. WholeOK
    BY DEF IInv
  <2> QED BY <2>1 DEF WholeOK, Shown, Routines, SqlOK, TablesOK, FieldsOK, CallsOK, Queued, Target, vars, walk
<1>4. TracesOK'
  BY TracesKept DEF IInv, vars
<1> QED BY <1>1, <1>2, <1>3, <1>4 DEF IInv, vars

LEMMA NextIInv == IInv /\ [Next]_vars => IInv'
<1> SUFFICES ASSUME IInv, [Next]_vars PROVE IInv'
  OBVIOUS
<1> PICK item : item = Head(todo)
  OBVIOUS
<1> PICK symbol : symbol = Target(item.symbol, item.what).symbol
  OBVIOUS
<1> PICK mapped : mapped = MapEntry(input.events[Head(queue).index], input.symbols, PascalFiles)
  OBVIOUS
<1> PICK found : found = Handler(mapped).symbol
  OBVIOUS
<1>1. todo # <<>> => entry # Idle
  BY DEF IInv, IdleOK
<1>2. CASE StartEventTrace
  BY <1>2, StartEventTraceKeeps
<1>3. CASE WalkSql
  <2>1. entry # Idle
    BY <1>1, <1>3 DEF WalkSql
  <2> QED BY <1>3, <2>1, WalkSqlKeeps
<1>4. CASE WalkTarget
  <2>1. entry # Idle
    BY <1>1, <1>4 DEF WalkTarget
  <2> QED BY <1>4, <2>1, WalkTargetKeeps
<1>5. CASE WalkCall
  <2>1. entry # Idle
    BY <1>1, <1>5 DEF WalkCall
  <2> QED BY <1>5, <2>1, WalkCallKeeps
<1>6. CASE Leave
  <2>1. entry # Idle
    BY <1>1, <1>6 DEF Leave
  <2> QED BY <1>6, <2>1, LeaveKeeps
<1>7. CASE FinishEventTrace
  BY <1>7, FinishEventTraceKeeps
<1>8. CASE TraceBinding
  BY <1>8, TraceBindingKeeps
<1>9. CASE UNCHANGED vars
  BY <1>9, StutterIInv
<1> QED BY <1>2, <1>3, <1>4, <1>5, <1>6, <1>7, <1>8, <1>9 DEF Next

LEMMA Invariance == Spec => []IInv
  BY InitIInv, NextIInv, PTL DEF Spec

LEMMA InvariantLimit == IInv => StepsWithinLimit
<1> SUFFICES ASSUME IInv PROVE StepsWithinLimit
  OBVIOUS
<1>1. Len(builder.steps) <= MaxStepsPerTrace
  BY DEF IInv, BuilderOK, Telling, Shaped
<1>2. \A n \in DOMAIN traces : Len(traces[n].steps) <= MaxStepsPerTrace
  BY DEF IInv, TracesOK, ToSet
<1> QED BY <1>1, <1>2 DEF StepsWithinLimit

LEMMA InvariantWhole == IInv => TraceTellsWhetherItIsWhole
<1> SUFFICES ASSUME IInv PROVE TraceTellsWhetherItIsWhole
  OBVIOUS
<1>1. \A trace \in EventTraces : TellsWhole(trace)
  BY DEF IInv, TracesOK, EventTraceOK, EventTraces
<1>2. ASSUME IsCut, Len(traces) = MaxTraces, MaxTraces > 0
      PROVE  Warning("TRACE_LIMIT", None) \in traces[MaxTraces].warnings /\ traces[MaxTraces].status # "complete"
  <2>1. MaxTraces \in DOMAIN traces
    BY <1>2, LimitsAssumption DEF IInv, TracesOK, IsList
  <2> QED BY <1>2, <2>1 DEF IInv, TracesOK
<1> QED BY <1>1, <1>2 DEF TraceTellsWhetherItIsWhole, TellsWhole

LEMMA InvariantFollows == IInv => TraceFollowsTheEventMap
  BY DEF IInv, TracesOK, EventTraceOK, Follows, EventTraces, TraceFollowsTheEventMap

\* No trace grows past its limit, whatever the forms, the routines and the two
\* limits are: the last place is kept for the warning (flowTracer.ts 85-110).
THEOREM StepsStayWithinLimit == Spec => []StepsWithinLimit
  BY Invariance, InvariantLimit, PTL

\* A trace reported complete shows its handler and every routine it reaches with
\* all its statements, tables, fields and calls, and one that is not says why,
\* whatever cuts the walk short (flowTracer.ts 177-358, 476-498).
THEOREM TracesTellTheWhole == Spec => []TraceTellsWhetherItIsWhole
  BY Invariance, InvariantWhole, PTL

\* The tracer and the event map agree on the routine of an event, or the trace is
\* not complete, whatever symbols the two resolve over (analyzer.ts 177-209,
\* flowTracer.ts 184-192).
THEOREM TracesFollowTheMap == Spec => []TraceFollowsTheEventMap
  BY Invariance, InvariantFollows, PTL

=============================================================================
