----------------------------- MODULE DelphiSymbols -----------------------------
(***************************************************************************)
(* Which symbol a name or a line of source stands for.  A symbol is a      *)
(* record [key, name, qualified, file, type, first, last]; a symbol of SQL *)
(* and a structure of Go have no qualified name.  Names are sequences of   *)
(* parts, so <<"TForm", "Save">> is TForm.Save; letter case and path       *)
(* spelling, which the code evens out on both sides of every comparison,   *)
(* do not occur.                                                           *)
(***************************************************************************)
EXTENDS Integers, Sequences, FiniteSets

CONSTANTS None,
          UnitOf,   \* the base name, without extension, of each file
          Collation \* the names that occur, in the order of the alphabet

ASSUME NamesAreListed == Collation \in Seq({Collation[i] : i \in DOMAIN Collation})

TheOne(set) == CHOOSE element \in set : TRUE

FirstOr(positions, otherwise) ==
  IF positions = {} THEN otherwise ELSE CHOOSE i \in positions : \A j \in positions : i <= j

(***************************************************************************)
(* The progressive resolver of names.  A query names its symbol by         *)
(* [name, qualified, key, owner, file, unit]; all but the name may be      *)
(* None.                                                                   *)
(***************************************************************************)
PathOf(symbol)  == IF symbol.qualified = None THEN <<symbol.name>> ELSE symbol.qualified
OwnerOf(symbol) == SubSeq(PathOf(symbol), 1, Len(PathOf(symbol)) - 1)

Named(symbols, query) ==
  {symbol \in symbols : {query.name, query.qualified} \cap {<<symbol.name>>, symbol.qualified} # {}}

\* A discriminator that excludes every candidate is skipped.
Narrowed(candidates, given, matching) ==
  IF given = None \/ candidates \cap matching = {} THEN candidates ELSE candidates \cap matching

ByName(candidates, query) ==
  LET sameName  == {symbol \in candidates : symbol.qualified = query.qualified}
      sameOwner == {symbol \in candidates : OwnerOf(symbol) = query.owner}
  IN  Narrowed(Narrowed(candidates, query.qualified, sameName), query.owner, sameOwner)

\* Variant for the mutants: the file is no discriminator.
ByUnitOnly(candidates, query) ==
  Narrowed(candidates, query.unit, {symbol \in candidates : UnitOf[symbol.file] = query.unit})

BySource(candidates, query) ==
  LET sameFile == {symbol \in candidates : symbol.file = query.file}
      sameUnit == {symbol \in candidates : UnitOf[symbol.file] = query.unit}
  IN  Narrowed(Narrowed(candidates, query.file, sameFile), query.unit, sameUnit)

Resolution(candidates) ==
  IF Cardinality(candidates) = 1
    THEN [symbol |-> TheOne(candidates), ambiguous |-> FALSE]
    ELSE [symbol |-> None, ambiguous |-> candidates # {}]

Resolve(symbols, query) ==
  LET exact == {symbol \in symbols : query.key # None /\ symbol.key = query.key}
  IN  Resolution(IF exact # {} THEN exact
                 ELSE BySource(ByName(Named(symbols, query), query), query))

(***************************************************************************)
(* The event map: the Pascal routine each event property of a form names.  *)
(* An event is [name, handler, owner, file], its owner the form's class.   *)
(***************************************************************************)
PascalMethods(symbols, pascalFiles) ==
  {symbol \in symbols : symbol.file \in pascalFiles
                        /\ symbol.type \in {"method", "procedure", "function"}}

EventQuery(event) ==
  [name |-> <<event.handler>>, qualified |-> event.owner \o <<event.handler>>,
   key |-> None, owner |-> event.owner, file |-> None, unit |-> UnitOf[event.file]]

EventWarnings(event, resolution) ==
  CASE resolution.ambiguous -> {<<"HANDLER_AMBIGUOUS", None>>}
    [] resolution.symbol = None -> {<<"HANDLER_UNMATCHED", None>>}
    [] OTHER -> IF UnitOf[resolution.symbol.file] = UnitOf[event.file] THEN {}
                ELSE {<<"HANDLER_IN_OTHER_UNIT", None>>}

MapEntry(event, symbols, pascalFiles) ==
  LET resolution == Resolve(PascalMethods(symbols, pascalFiles), EventQuery(event))
  IN  [event    |-> event,
       method   |-> resolution.symbol,
       status   |-> IF resolution.symbol = None THEN "unresolved" ELSE "resolved",
       warnings |-> EventWarnings(event, resolution)]

(***************************************************************************)
(* The symbol a line belongs to: the one of the smallest range, the most   *)
(* specific type, the latest start, the name that is last in the alphabet, *)
(* and of those, in different files, the one listed first.                 *)
(***************************************************************************)
Specificity == [method |-> 6, function |-> 5, procedure |-> 4, query |-> 3, table |-> 2, class |-> 1]

RangeSize(symbol) == IF symbol.last < symbol.first THEN 0 ELSE symbol.last - symbol.first
PlaceOf(symbol)   == FirstOr({i \in DOMAIN Collation : Collation[i] = PathOf(symbol)}, 0)

MoreSpecific(left, right) ==
  \/ RangeSize(left) < RangeSize(right)
  \/ /\ RangeSize(left) = RangeSize(right)
     /\ \/ Specificity[left.type] > Specificity[right.type]
        \/ /\ Specificity[left.type] = Specificity[right.type]
           /\ \/ left.first > right.first
              \/ left.first = right.first /\ PlaceOf(left) > PlaceOf(right)

\* In a file, or in any file if none is given.
MostSpecific(symbols, line, file) ==
  LET holding == {n \in DOMAIN symbols : /\ file \in {None, symbols[n].file}
                                         /\ symbols[n].first <= line /\ line <= symbols[n].last}
      closest == {n \in holding : \A m \in holding : ~MoreSpecific(symbols[m], symbols[n])}
  IN  IF holding = {} THEN None ELSE symbols[FirstOr(closest, 0)]
=============================================================================
