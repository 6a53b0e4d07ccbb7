------------------------ MODULE ProjectAnalysis_proofs ------------------------
(***************************************************************************)
(* Proofs about ProjectAnalysis, for all files, in any number and order,   *)
(* whichever of them fail: that the stored rows hang together, that        *)
(* nothing is missed silently, and that the score answers to what the      *)
(* result holds.                                                           *)
(*                                                                         *)
(* Two inductive invariants carry them.  RowsInv says what the symbols,    *)
(* references and dependencies found so far are to each other              *)
(* (FoundStands); its lemmas go through the parsers.  SumInv adds what the *)
(* first n files account for (Accounts) and what the summed up result      *)
(* keeps of it (ResultStands).  Sets are counted, so much of this is that  *)
(* they are finite.                                                        *)
(*                                                                         *)
(* At the end, what the parts answer that read one thing: the impact of a  *)
(* change, for any rows of a project; and what an import keeps of any      *)
(* archive or tree: Booked, what the entries read so far account for,      *)
(* stands step by step along the fold that reads them.                     *)
(***************************************************************************)
EXTENDS AnalyzerParts, WellFoundedInduction, FiniteSetTheorems, FunctionTheorems, SequenceTheorems, TLAPS

\* A set of numbers that holds something holds a least one: what takes the
\* place of an induction in the proofs below.
LEMMA LeastNumber ==
  ASSUME NEW T \in SUBSET Nat, T # {}
  PROVE  \E x \in T : \A y \in T : x <= y
<1> DEFINE R == OpToRel(<, Nat)
<1>1. IsWellFoundedOn(R, Nat)
  BY NatLessThanWellFounded
<1>2. \E x \in T : \A y \in T : ~(<<y, x>> \in R)
  <2> HIDE DEF R
  <2> QED BY <1>1, WFMin
<1>3. PICK x \in T : \A y \in T : ~(<<y, x>> \in R)
  BY <1>2
<1>4. ASSUME NEW y \in T, y < x PROVE FALSE
  <2>1. <<y, x>> \in R
    BY <1>4 DEF OpToRel
  <2> QED BY <1>3, <2>1
<1>5. \A y \in T : x <= y
  <2> HIDE DEF R
  <2> SUFFICES ASSUME NEW y \in T PROVE x <= y
    OBVIOUS
  <2>1. ~(y < x) BY <1>4
  <2>2. x \in Nat /\ y \in Nat OBVIOUS
  <2> HIDE <1>3
  <2> QED BY ONLY <2>1, <2>2
<1> QED BY <1>5

\* The first of some positions is one of them.
LEMMA FirstOfThem ==
  ASSUME NEW positions \in SUBSET Nat, positions # {}, NEW otherwise
  PROVE  FirstOr(positions, otherwise) \in positions
BY LeastNumber DEF FirstOr

\* What is made of finitely many things is finitely many.
LEMMA FiniteImage ==
  ASSUME NEW P, IsFiniteSet(P), NEW f
  PROVE  IsFiniteSet({f[x] : x \in P}) /\ Cardinality({f[x] : x \in P}) <= Cardinality(P)
<1> DEFINE g == [x \in P |-> f[x]]
<1>1. g \in [P -> {f[x] : x \in P}] OBVIOUS
<1>2. {f[x] : x \in P} = {g[x] : x \in P} OBVIOUS
<1>3. g \in Surjection(P, {f[x] : x \in P})
  BY <1>1, <1>2 DEF Surjection
<1> HIDE DEF g
<1> QED BY <1>3, FS_Surjection

\* A list, spelled out.
LEMMA Listed ==
  ASSUME NEW list, IsList(list)
  PROVE  /\ Len(list) \in Nat /\ DOMAIN list = 1..Len(list)
         /\ \A i \in 1..Len(list) : list[i] \in ToSet(list)
         /\ IsFiniteSet(DOMAIN list) /\ IsFiniteSet(ToSet(list))
<1>1. Len(list) \in Nat /\ DOMAIN list = 1..Len(list)
  BY DEF IsList
<1>2. IsFiniteSet(1..Len(list))
  BY <1>1, FS_Interval
<1>3. ToSet(list) = {list[i] : i \in 1..Len(list)} /\ \A i \in 1..Len(list) : list[i] \in ToSet(list)
  BY <1>1 DEF ToSet
<1>4. IsFiniteSet({list[i] : i \in 1..Len(list)})
  BY <1>2, FiniteImage
<1> QED BY <1>1, <1>2, <1>3, <1>4

\* Every place of a set of line numbers is taken.
LEMMA NthIsOne ==
  ASSUME NEW N \in Nat, NEW numbers \in SUBSET (1..N), NEW k \in 1..Cardinality(numbers)
  PROVE  NthOf(numbers, k) \in numbers
<1> DEFINE Below(n) == {m \in numbers : m <= n}
           Many == {n \in 0..N : Cardinality(Below(n)) >= k}
<1>1. IsFiniteSet(numbers) /\ Cardinality(numbers) \in Nat
  <2>1. IsFiniteSet(1..N) BY FS_Interval
  <2> QED BY <2>1, FS_Subset, FS_CardinalityType
<1>2. \A n \in 0..N : IsFiniteSet(Below(n)) /\ Cardinality(Below(n)) \in Nat
  <2>1. \A n : Below(n) \subseteq numbers OBVIOUS
  <2> HIDE DEF Below
  <2> QED BY <1>1, <2>1, FS_Subset, FS_CardinalityType
<1>3. Below(N) = numbers /\ Below(0) = {}
  <2>1. \A m \in numbers : m \in 1..N OBVIOUS
  <2>2. \A m \in numbers : m <= N /\ ~(m <= 0) BY <2>1
  <2>3. Below(N) = numbers BY ONLY <2>2
  <2>4. Below(0) = {} BY ONLY <2>2
  <2> QED BY <2>3, <2>4
<1>4. N \in Many /\ 0 \notin Many
  <2>1. Cardinality(Below(0)) = 0 BY <1>3, FS_EmptySet
  <2>2. Cardinality(Below(N)) >= k BY <1>1, <1>3
  <2> HIDE DEF Below
  <2> QED BY <2>1, <2>2
<1>5. PICK n \in Many : \A m \in Many : n <= m
  <2>1. Many \in SUBSET Nat OBVIOUS
  <2> HIDE DEF Many
  <2> QED BY <1>4, <2>1, LeastNumber
<1>6. n \in 1..N /\ n - 1 \in 0..N /\ n - 1 \notin Many /\ Cardinality(Below(n)) >= k
  <2>1. n \in 0..N /\ Cardinality(Below(n)) >= k OBVIOUS
  <2> HIDE DEF Many
  <2>2. n # 0 BY <1>4
  <2> QED BY <1>5, <2>1, <2>2
<1>7. Cardinality(Below(n - 1)) < k
  <2>1. ~(Cardinality(Below(n - 1)) >= k) BY <1>6
  <2> HIDE DEF Below, Many
  <2>2. Cardinality(Below(n - 1)) \in Nat /\ k \in Int BY <1>2, <1>6
  <2> QED BY <2>1, <2>2
<1>8. n \in numbers
  <2> SUFFICES ASSUME n \notin numbers PROVE FALSE OBVIOUS
  <2>1. Below(n) = Below(n - 1)
    <3>1. \A m \in numbers : m <= n <=> m <= n - 1
      <4>1. \A m \in numbers : m \in Int /\ m # n OBVIOUS
      <4>2. n \in Int BY <1>6
      <4> HIDE DEF Many
      <4> QED BY ONLY <4>1, <4>2
    <3> QED BY <3>1
  <2> HIDE DEF Below, Many
  <2>2. Cardinality(Below(n)) \in Nat BY <1>2, <1>6
  <2> QED BY <1>6, <1>7, <2>1, <2>2
<1>9. Below(n) = Below(n - 1) \cup {n}
  <2>1. \A m \in numbers : m <= n <=> m <= n - 1 \/ m = n
    <3>1. \A m \in numbers : m \in Int OBVIOUS
    <3>2. n \in Int BY <1>6
    <3> HIDE DEF Many
    <3> QED BY ONLY <3>1, <3>2
  <2>2. n <= n BY <1>6
  <2> QED BY <1>8, <2>1, <2>2
<1>10. Cardinality(Below(n)) = Cardinality(Below(n - 1)) + 1
  <2>1. n \notin Below(n - 1) BY <1>6
  <2> HIDE DEF Below, Many
  <2> QED BY <1>2, <1>6, <1>9, <2>1, FS_AddElement
<1>11. Cardinality(Below(n)) = k
  <2> HIDE DEF Below, Many
  <2>1. Cardinality(Below(n - 1)) \in Nat /\ k \in Int BY <1>2, <1>6
  <2> QED BY <1>6, <1>7, <1>10, <2>1
<1>12. \E m \in numbers : Cardinality({x \in numbers : x <= m}) = k
  BY <1>8, <1>11
<1> QED BY <1>12 DEF NthOf

(***************************************************************************)
(* Lists.                                                                  *)
(***************************************************************************)
LEMMA ElementsOfBoth ==
  ASSUME NEW S, NEW a \in Seq(S), NEW b \in Seq(S)
  PROVE  a \o b \in Seq(S) /\ ToSet(a \o b) = ToSet(a) \cup ToSet(b)
<1> DEFINE c == a \o b
           k == Len(a)
           l == Len(b)
<1>1. k \in Nat /\ l \in Nat /\ DOMAIN a = 1..k /\ DOMAIN b = 1..l
  OBVIOUS
<1>2. c \in Seq(S) /\ Len(c) = k + l /\ \A i \in 1..(k + l) : c[i] = IF i <= k THEN a[i] ELSE b[i - k]
  OBVIOUS
<1>3. DOMAIN c = 1..(k + l)
  BY <1>2
<1> HIDE DEF c, k, l
<1>4. ToSet(c) \subseteq ToSet(a) \cup ToSet(b)
  <2> SUFFICES ASSUME NEW i \in 1..(k + l) PROVE c[i] \in ToSet(a) \cup ToSet(b)
    BY <1>3 DEF ToSet
  <2>1. CASE i <= k
    <3>1. i \in DOMAIN a BY <1>1, <2>1
    <3>2. c[i] = a[i] BY <1>2, <2>1
    <3> QED BY <3>1, <3>2 DEF ToSet
  <2>2. CASE ~(i <= k)
    <3>1. i - k \in DOMAIN b BY <1>1, <2>2
    <3>2. c[i] = b[i - k] BY <1>2, <2>2
    <3> DEFINE o == i - k
    <3> HIDE DEF o
    <3>3. o \in DOMAIN b /\ c[i] = b[o] BY <3>1, <3>2 DEF o
    <3> QED BY <3>3 DEF ToSet
  <2> QED BY <2>1, <2>2
<1>5. ToSet(a) \subseteq ToSet(c)
  <2> SUFFICES ASSUME NEW i \in 1..k PROVE a[i] \in ToSet(c)
    BY <1>1 DEF ToSet
  <2>1. i \in 1..(k + l) /\ c[i] = a[i] BY <1>1, <1>2
  <2> QED BY <1>3, <2>1 DEF ToSet
<1>6. ToSet(b) \subseteq ToSet(c)
  <2> SUFFICES ASSUME NEW i \in 1..l PROVE b[i] \in ToSet(c)
    BY <1>1 DEF ToSet
  <2>1. k + i \in 1..(k + l) /\ ~(k + i <= k) /\ (k + i) - k = i BY <1>1
  <2>2. c[k + i] = b[i] BY <1>2, <2>1
  <2> QED BY <1>3, <2>1, <2>2 DEF ToSet
<1> QED BY <1>2, <1>4, <1>5, <1>6 DEF c


\* A list written down place by place.
LEMMA ListedByPlace ==
  ASSUME NEW n \in Nat, NEW list, list = [k \in 1..n |-> list[k]]
  PROVE  /\ IsList(list) /\ Len(list) = n /\ DOMAIN list = 1..n
         /\ ToSet(list) = {list[k] : k \in 1..n}
<1>1. DOMAIN list = 1..n
  OBVIOUS
<1>2. ToSet(list) = {list[k] : k \in 1..n}
  BY <1>1 DEF ToSet
<1>3. \A k \in 1..n : list[k] \in ToSet(list)
  BY <1>2
<1>4. list \in Seq(ToSet(list))
  <2>1. list \in [1..n -> ToSet(list)]
    BY <1>3
  <2> QED BY <2>1
<1>5. Len(list) = n
  BY <1>1, <1>4
<1> QED BY <1>1, <1>2, <1>4, <1>5 DEF IsList

\* What two lists give together.
LEMMA ListsJoin ==
  ASSUME NEW one, IsList(one), NEW other, IsList(other)
  PROVE  IsList(one \o other) /\ ToSet(one \o other) = ToSet(one) \cup ToSet(other)
<1> DEFINE S == ToSet(one) \cup ToSet(other)
<1>1. one \in Seq(S) /\ other \in Seq(S)
  BY DEF IsList
<1> HIDE DEF S
<1>2. one \o other \in Seq(S) /\ ToSet(one \o other) = ToSet(one) \cup ToSet(other)
  BY <1>1, ElementsOfBoth
<1> QED BY <1>2 DEF S, IsList

\* The empty list and a list of one.
LEMMA NothingListed == IsList(<<>>) /\ ToSet(<<>>) = {}
BY DEF IsList, ToSet

LEMMA OneListed == \A x : IsList(<<x>>) /\ ToSet(<<x>>) = {x}
<1> SUFFICES ASSUME NEW x PROVE IsList(<<x>>) /\ ToSet(<<x>>) = {x}
  OBVIOUS
<1> DEFINE s == <<x>>
           n == 1
<1>1. n \in Nat /\ s = [k \in 1..n |-> s[k]] /\ \A k \in 1..n : s[k] = x
  OBVIOUS
<1>2. {s[k] : k \in 1..n} = {x}
  BY <1>1
<1> HIDE DEF s, n
<1>3. IsList(s) /\ ToSet(s) = {s[k] : k \in 1..n}
  BY ONLY <1>1, ListedByPlace
<1> QED BY <1>2, <1>3 DEF s

(***************************************************************************)
(* Symbols.                                                                *)
(***************************************************************************)
IsSymbol(symbol) ==
  /\ symbol.first \in Nat /\ symbol.last \in Nat
  /\ symbol.type \in DOMAIN Specificity
  /\ PathOf(symbol) # <<>>

HaveSymbols(symbols) == IsList(symbols) /\ \A symbol \in ToSet(symbols) : IsSymbol(symbol)

\* Symbols of two files, one after the other, are symbols.
LEMMA SymbolsJoin ==
  ASSUME NEW one, HaveSymbols(one), NEW other, HaveSymbols(other)
  PROVE  HaveSymbols(one \o other) /\ ToSet(one \o other) = ToSet(one) \cup ToSet(other)
<1>1. IsList(one \o other) /\ ToSet(one \o other) = ToSet(one) \cup ToSet(other)
  BY ListsJoin DEF HaveSymbols
<1> QED BY <1>1 DEF HaveSymbols

\* A block ends on a line.
LEMMA BlockEnds ==
  ASSUME NEW opens, Len(opens) \in Nat, NEW closes, NEW start \in Nat
  PROVE  FindBlockEnd(opens, closes, start) \in Nat
<1> DEFINE Depth(last) == FoldLeftDomain(LAMBDA depth, i : depth + opens[i + start - 1] - closes[i + start - 1], 0,
                                         SubSeq(opens, start, last))
           ends == {i \in start..Len(opens) : Depth(i) <= 0 /\ (i > start \/ opens[i] > 0)}
<1>1. FindBlockEnd(opens, closes, start) = FirstOr(ends, start)
  BY DEF FindBlockEnd
<1>2. ends \in SUBSET Nat
  <2>1. ends \subseteq start..Len(opens)
    <3> HIDE DEF Depth
    <3> QED OBVIOUS
  <2> HIDE DEF ends
  <2> QED BY <2>1
<1> HIDE DEF ends
<1>3. CASE ends = {}
  BY <1>1, <1>3 DEF FirstOr
<1>4. CASE ends # {}
  BY <1>1, <1>2, <1>4, FirstOfThem
<1> QED BY <1>3, <1>4

\* What CreateSymbol makes of a named line is a symbol.
LEMMA CreatedSymbol ==
  ASSUME NEW file, NEW name, name # <<>>, NEW type \in DOMAIN Specificity, NEW first \in Nat, NEW last \in Nat
  PROVE  IsSymbol(Qualified(file, name, type, first, last)) /\ IsSymbol(Unqualified(file, name, type, first, last))
<1> DEFINE short == Last(name)
<1>1. <<short>> # <<>>
  OBVIOUS
<1> HIDE DEF short
<1>2. IsSymbol(CreateSymbol(file, short, name, type, first, last))
      /\ IsSymbol(CreateSymbol(file, short, None, type, first, last))
  BY <1>1 DEF IsSymbol, CreateSymbol, PathOf
<1> QED BY <1>2 DEF Qualified, Unqualified, short

\* The symbols of the lines of some kinds.
LEMMA LineNumbers ==
  ASSUME NEW file, IsList(file.lines), NEW kinds
  PROVE  /\ Cardinality(LinesOf(file, kinds)) \in Nat
         /\ \A k \in 1..Cardinality(LinesOf(file, kinds)) :
              NthOf(LinesOf(file, kinds), k) \in LinesOf(file, kinds)
         /\ \A n \in LinesOf(file, kinds) :
              n \in Nat /\ n \in DOMAIN file.lines /\ file.lines[n].kind \in kinds
                        /\ file.lines[n] \in ToSet(file.lines)
<1> DEFINE numbers == LinesOf(file, kinds)
           N == Len(file.lines)
<1>1. N \in Nat /\ DOMAIN file.lines = 1..N /\ IsFiniteSet(DOMAIN file.lines)
      /\ \A i \in 1..N : file.lines[i] \in ToSet(file.lines)
  BY Listed
<1>2. numbers \subseteq DOMAIN file.lines /\ \A n \in numbers : file.lines[n].kind \in kinds
  BY DEF LinesOf
<1> HIDE DEF numbers, N
<1>3. Cardinality(numbers) \in Nat
  BY <1>1, <1>2, FS_Subset, FS_CardinalityType
<1>4. \A k \in 1..Cardinality(numbers) : NthOf(numbers, k) \in numbers
  <2>1. numbers \in SUBSET (1..N) BY <1>1, <1>2
  <2> QED BY <1>1, <2>1, NthIsOne
<1>5. \A n \in numbers : n \in Nat /\ n \in DOMAIN file.lines
  <2>1. 1..N \subseteq Nat OBVIOUS
  <2> QED BY <1>1, <1>2, <2>1
<1> QED BY <1>1, <1>2, <1>3, <1>4, <1>5 DEF numbers, N

TextLines(file) == IsList(file.lines) /\ \A line \in ToSet(file.lines) : IsLine(line)

\* A unit has a name.
LEMMA UnitsAreNamed ==
  ASSUME NEW file, TextLines(file)
  PROVE  DelphiUnit(file) # None => DelphiUnit(file) # <<>>
<1> DEFINE units == LinesOf(file, {"unit"})
           n == FirstOr(units, 0)
<1>1. /\ \A m \in units : m \in Nat /\ file.lines[m].kind \in {"unit"} /\ file.lines[m] \in ToSet(file.lines)
  BY LineNumbers DEF TextLines
<1>2. DelphiUnit(file) = IF units = {} THEN None ELSE file.lines[n].name
  BY DEF DelphiUnit
<1> HIDE DEF units
<1>3. units # {} => n \in units
  <2>1. units \in SUBSET Nat BY <1>1
  <2> QED BY <2>1, FirstOfThem
<1> HIDE DEF n
<1>4. \A line \in ToSet(file.lines) : line.kind \in NamedKinds => line.name # <<>>
  BY DEF TextLines, IsLine
<1>5. ASSUME units # {} PROVE file.lines[n].name # <<>>
  <2>1. file.lines[n].kind = "unit" /\ file.lines[n] \in ToSet(file.lines)
    BY <1>1, <1>3, <1>5
  <2>2. "unit" \in NamedKinds BY DEF NamedKinds
  <2> QED BY <1>4, <2>1, <2>2
<1> QED BY <1>2, <1>5

\* The lines and what is counted on each.
LEMMA LineCounts ==
  ASSUME NEW lines, IsList(lines)
  PROVE  Len(Opens(lines)) \in Nat /\ Len(ClassWords(lines)) \in Nat
<1>1. Len(lines) \in Nat /\ DOMAIN lines = 1..Len(lines)
  BY Listed
<1>2. \A n \in Nat : \A f : f = [k \in 1..n |-> f[k]] => Len(f) \in Nat
  <2> SUFFICES ASSUME NEW n \in Nat, NEW f, f = [k \in 1..n |-> f[k]] PROVE Len(f) \in Nat
    OBVIOUS
  <2> QED BY ListedByPlace
<1>3. Len(Opens(lines)) \in Nat
  <2> DEFINE f == Opens(lines)
  <2>1. f = [k \in 1..Len(lines) |-> f[k]] BY <1>1 DEF Opens
  <2> HIDE DEF f
  <2>2. Len(f) \in Nat BY <1>1, <1>2, <2>1
  <2> QED BY <2>2 DEF f
<1>4. Len(ClassWords(lines)) \in Nat
  <2> DEFINE f == ClassWords(lines)
  <2>1. f = [k \in 1..Len(lines) |-> f[k]] BY <1>1 DEF ClassWords
  <2> HIDE DEF f
  <2>2. Len(f) \in Nat BY <1>1, <1>2, <2>1
  <2> QED BY <2>2 DEF f
<1> QED BY <1>3, <1>4

\* What each parser reads are symbols.
LEMMA DelphiSymbolsAre ==
  ASSUME NEW file, TextLines(file),
         \A line \in ToSet(file.lines) : line.kind = "routine" => line.of \in RoutineKinds \/ Len(line.name) > 1
  PROVE  /\ HaveSymbols(DelphiSymbolsOf(file))
         /\ DelphiUnit(file) # None => DelphiSymbolsOf(file) # <<>>
<1> DEFINE kinds == {"routine", "class"}
           numbers == LinesOf(file, kinds)
           SymbolAt(n) ==
             LET line == file.lines[n]
                 opens == IF line.kind = "class" THEN ClassWords(file.lines) ELSE Opens(file.lines)
                 end   == FindBlockEnd(opens, Closes(file.lines), n)
             IN  Qualified(file, line.name, DelphiType(line), n, end)
           unit == DelphiUnit(file)
           head == IF unit = None THEN <<>> ELSE <<Qualified(file, unit, "class", 1, Len(file.lines))>>
           count == Cardinality(numbers)
           tail == [k \in 1..count |-> SymbolAt(NthOf(numbers, k))]
<1>1. DelphiSymbolsOf(file) = head \o tail
  BY DEF DelphiSymbolsOf, SymbolsWhere
<1>2. ASSUME NEW n \in numbers PROVE IsSymbol(SymbolAt(n))
  <2> DEFINE line == file.lines[n]
             opens == IF line.kind = "class" THEN ClassWords(file.lines) ELSE Opens(file.lines)
             end == FindBlockEnd(opens, Closes(file.lines), n)
  <2>1. n \in Nat /\ line.kind \in kinds /\ line \in ToSet(file.lines)
    BY LineNumbers DEF TextLines
  <2>2. end \in Nat
    <3>1. Len(opens) \in Nat BY LineCounts DEF TextLines
    <3> HIDE DEF opens
    <3> QED BY <2>1, <3>1, BlockEnds
  <2>3. line.name # <<>>
    BY <2>1 DEF TextLines, IsLine, NamedKinds
  <2>4. DelphiType(line) \in DOMAIN Specificity
    <3>1. DOMAIN Specificity = {"method", "function", "procedure", "query", "table", "class"}
      BY DEF Specificity
    <3>2. CASE line.kind = "class"
      BY <3>1, <3>2 DEF DelphiType
    <3>3. CASE line.kind = "routine"
      <4>1. line.of \in RoutineKinds \/ Len(line.name) > 1
        BY <2>1, <3>3
      <4>2. DelphiType(line) = IF line.of \in {"constructor", "destructor"} \/ Len(line.name) > 1
                                 THEN "method" ELSE line.of
        BY <3>3 DEF DelphiType
      <4> QED BY <3>1, <4>1, <4>2 DEF RoutineKinds
    <3> QED BY <2>1, <3>2, <3>3
  <2> HIDE DEF line, end
  <2>5. IsSymbol(Qualified(file, line.name, DelphiType(line), n, end))
    BY <2>1, <2>2, <2>3, <2>4, CreatedSymbol
  <2> QED BY <2>5 DEF line, end, opens
<1>3. HaveSymbols(tail)
  <2>1. count \in Nat /\ \A k \in 1..count : NthOf(numbers, k) \in numbers
    BY LineNumbers DEF TextLines
  <2> HIDE DEF SymbolAt, numbers, count
  <2>2. tail = [k \in 1..count |-> tail[k]] /\ \A k \in 1..count : tail[k] = SymbolAt(NthOf(numbers, k))
    OBVIOUS
  <2> HIDE DEF tail
  <2>3. IsList(tail) /\ ToSet(tail) = {tail[k] : k \in 1..count}
    BY <2>1, <2>2, ListedByPlace
  <2>4. \A k \in 1..count : IsSymbol(tail[k])
    BY <1>2, <2>1, <2>2
  <2> QED BY <2>3, <2>4 DEF HaveSymbols
<1>4. HaveSymbols(head) /\ (unit # None => ToSet(head) # {})
  <2>1. CASE unit = None
    BY <2>1, NothingListed DEF HaveSymbols
  <2>2. CASE unit # None
    <3> DEFINE it == Qualified(file, unit, "class", 1, Len(file.lines))
    <3>1. unit # <<>> BY <2>2, UnitsAreNamed
    <3>2. IsSymbol(it)
      <4>1. Len(file.lines) \in Nat BY Listed DEF TextLines
      <4>2. "class" \in DOMAIN Specificity BY DEF Specificity
      <4> HIDE DEF unit
      <4> QED BY <3>1, <4>1, <4>2, CreatedSymbol
    <3> HIDE DEF it
    <3>3. IsList(<<it>>) /\ ToSet(<<it>>) = {it} BY OneListed
    <3>4. head = <<it>> BY <2>2 DEF it
    <3> QED BY <3>2, <3>3, <3>4 DEF HaveSymbols
  <2> QED BY <2>1, <2>2
<1> HIDE DEF head, tail, unit
<1>5. HaveSymbols(head \o tail) /\ ToSet(head \o tail) = ToSet(head) \cup ToSet(tail)
  BY <1>3, <1>4, SymbolsJoin
<1>6. unit # None => head \o tail # <<>>
  BY <1>4, <1>5, NothingListed
<1> QED BY <1>1, <1>5, <1>6 DEF unit

LEMMA GoSymbolsAre ==
  ASSUME NEW file, TextLines(file)
  PROVE  HaveSymbols(GoSymbolsOf(file))
<1> DEFINE kinds == {"routine", "class"}
           numbers == LinesOf(file, kinds)
           SymbolAt(n) ==
             LET line == file.lines[n]
             IN  IF line.kind = "class" THEN Unqualified(file, line.name, "class", n, n)
                 ELSE Qualified(file, line.name, IF Len(line.name) > 1 THEN "method" ELSE "function", n,
                                FindBlockEnd(Opens(file.lines), Closes(file.lines), n))
           count == Cardinality(numbers)
           list == [k \in 1..count |-> SymbolAt(NthOf(numbers, k))]
<1>1. GoSymbolsOf(file) = list
  BY DEF GoSymbolsOf, SymbolsWhere
<1>2. ASSUME NEW n \in numbers PROVE IsSymbol(SymbolAt(n))
  <2> DEFINE line == file.lines[n]
             type == IF Len(line.name) > 1 THEN "method" ELSE "function"
             end == FindBlockEnd(Opens(file.lines), Closes(file.lines), n)
  <2>1. n \in Nat /\ line.kind \in kinds /\ line \in ToSet(file.lines)
    BY LineNumbers DEF TextLines
  <2>2. end \in Nat
    <3>1. Len(Opens(file.lines)) \in Nat BY LineCounts DEF TextLines
    <3> QED BY <2>1, <3>1, BlockEnds
  <2>3. line.name # <<>>
    BY <2>1 DEF TextLines, IsLine, NamedKinds
  <2>4. type \in DOMAIN Specificity /\ "class" \in DOMAIN Specificity
    BY DEF Specificity
  <2> HIDE DEF line, end, type
  <2>5. IsSymbol(Qualified(file, line.name, type, n, end)) /\ IsSymbol(Unqualified(file, line.name, "class", n, n))
    BY <2>1, <2>2, <2>3, <2>4, CreatedSymbol
  <2>6. SymbolAt(n) = IF line.kind = "class" THEN Unqualified(file, line.name, "class", n, n)
                      ELSE Qualified(file, line.name, type, n, end)
    BY DEF line, end, type
  <2> HIDE DEF SymbolAt
  <2> QED BY <2>5, <2>6
<1>3. HaveSymbols(list)
  <2>1. count \in Nat /\ \A k \in 1..count : NthOf(numbers, k) \in numbers
    BY LineNumbers DEF TextLines
  <2> HIDE DEF SymbolAt, numbers, count
  <2>2. list = [k \in 1..count |-> list[k]] /\ \A k \in 1..count : list[k] = SymbolAt(NthOf(numbers, k))
    OBVIOUS
  <2> HIDE DEF list
  <2>3. IsList(list) /\ ToSet(list) = {list[k] : k \in 1..count}
    BY <2>1, <2>2, ListedByPlace
  <2>4. \A k \in 1..count : IsSymbol(list[k])
    BY <1>2, <2>1, <2>2
  <2> QED BY <2>3, <2>4 DEF HaveSymbols
<1> QED BY <1>1, <1>3

LEMMA SqlSymbolsAre ==
  ASSUME NEW file, TextLines(file)
  PROVE  HaveSymbols(SqlSymbolsOf(file))
<1> DEFINE kinds == {"table", "procedure", "function", "query"}
           numbers == LinesOf(file, kinds)
           SymbolAt(n) == Unqualified(file, file.lines[n].name, file.lines[n].kind, n, n)
           count == Cardinality(numbers)
           list == [k \in 1..count |-> SymbolAt(NthOf(numbers, k))]
<1>1. SqlSymbolsOf(file) = list
  BY DEF SqlSymbolsOf, SymbolsWhere
<1>2. ASSUME NEW n \in numbers PROVE IsSymbol(SymbolAt(n))
  <2> DEFINE line == file.lines[n]
  <2>1. n \in Nat /\ line.kind \in kinds /\ line \in ToSet(file.lines)
    BY LineNumbers DEF TextLines
  <2>2. line.name # <<>>
    BY <2>1 DEF TextLines, IsLine, NamedKinds
  <2>3. line.kind \in DOMAIN Specificity
    BY <2>1 DEF Specificity
  <2> HIDE DEF line
  <2>4. IsSymbol(Unqualified(file, line.name, line.kind, n, n))
    BY <2>1, <2>2, <2>3, CreatedSymbol
  <2> QED BY <2>4 DEF line
<1>3. HaveSymbols(list)
  <2>1. count \in Nat /\ \A k \in 1..count : NthOf(numbers, k) \in numbers
    BY LineNumbers DEF TextLines
  <2> HIDE DEF SymbolAt, numbers, count
  <2>2. list = [k \in 1..count |-> list[k]] /\ \A k \in 1..count : list[k] = SymbolAt(NthOf(numbers, k))
    OBVIOUS
  <2> HIDE DEF list
  <2>3. IsList(list) /\ ToSet(list) = {list[k] : k \in 1..count}
    BY <2>1, <2>2, ListedByPlace
  <2>4. \A k \in 1..count : IsSymbol(list[k])
    BY <1>2, <2>1, <2>2
  <2> QED BY <2>3, <2>4 DEF HaveSymbols
<1> QED BY <1>1, <1>3

\* A name has a place in the alphabet, or none.
LEMMA Places ==
  ASSUME NEW symbol
  PROVE  Len(Collation) \in Nat /\ PlaceOf(symbol) \in 0..Len(Collation)
<1> DEFINE places == {i \in DOMAIN Collation : Collation[i] = PathOf(symbol)}
<1>1. Len(Collation) \in Nat /\ DOMAIN Collation = 1..Len(Collation)
  BY NamesAreListed
<1>2. places \in SUBSET (1..Len(Collation)) /\ places \in SUBSET Nat
  BY <1>1
<1>3. PlaceOf(symbol) = FirstOr(places, 0)
  BY DEF PlaceOf
<1> HIDE DEF places
<1>4. CASE places = {}
  BY <1>1, <1>3, <1>4 DEF FirstOr
<1>5. CASE places # {}
  <2>1. FirstOr(places, 0) \in places BY <1>2, <1>5, FirstOfThem
  <2>2. FirstOr(places, 0) \in 1..Len(Collation) BY <1>2, <2>1
  <2> QED BY <1>1, <1>3, <2>2
<1> QED BY <1>4, <1>5

\* The owner of a line is one of the symbols, and of the file if one is given.
LEMMA OwnersAreSymbols ==
  ASSUME NEW symbols, HaveSymbols(symbols), NEW line \in Nat, NEW file,
         MostSpecific(symbols, line, file) # None
  PROVE  /\ MostSpecific(symbols, line, file) \in ToSet(symbols)
         /\ file # None => MostSpecific(symbols, line, file).file = file
<1> DEFINE holding == {n \in DOMAIN symbols : /\ file \in {None, symbols[n].file}
                                              /\ symbols[n].first <= line /\ line <= symbols[n].last}
           closest == {n \in holding : \A m \in holding : ~MoreSpecific(symbols[m], symbols[n])}
           Size(n) == RangeSize(symbols[n])
           Rank(n) == Specificity[symbols[n].type]
           First(n) == symbols[n].first
           Place(n) == PlaceOf(symbols[n])
           N == Len(Collation)
           sizes == {Size(n) : n \in holding}
<1>1. MostSpecific(symbols, line, file) = IF holding = {} THEN None ELSE symbols[FirstOr(closest, 0)]
  BY DEF MostSpecific
<1>2. holding # {}
  BY <1>1
<1>3. \A n \in holding : /\ n \in Nat /\ symbols[n] \in ToSet(symbols) /\ file \in {None, symbols[n].file}
                         /\ Size(n) \in Nat /\ Rank(n) \in 1..6 /\ First(n) \in Nat /\ First(n) <= line
                         /\ N \in Nat /\ Place(n) \in 0..N
  <2> SUFFICES ASSUME NEW n \in holding
               PROVE  /\ n \in Nat /\ symbols[n] \in ToSet(symbols) /\ file \in {None, symbols[n].file}
                      /\ Size(n) \in Nat /\ Rank(n) \in 1..6 /\ First(n) \in Nat /\ First(n) <= line
                      /\ N \in Nat /\ Place(n) \in 0..N
    OBVIOUS
  <2>1. n \in Nat /\ symbols[n] \in ToSet(symbols)
    <3>1. IsList(symbols) /\ n \in DOMAIN symbols BY DEF HaveSymbols
    <3> HIDE DEF holding
    <3>2. Len(symbols) \in Nat /\ DOMAIN symbols = 1..Len(symbols)
          /\ \A i \in 1..Len(symbols) : symbols[i] \in ToSet(symbols)
      BY <3>1, Listed
    <3> QED BY <3>1, <3>2
  <2>2. First(n) \in Nat /\ symbols[n].last \in Nat /\ symbols[n].type \in DOMAIN Specificity
    BY <2>1 DEF HaveSymbols, IsSymbol
  <2>3. Size(n) \in Nat BY <2>2 DEF RangeSize
  <2>4. Rank(n) \in 1..6 BY <2>2 DEF Specificity
  <2>5. N \in Nat /\ Place(n) \in 0..N BY Places
  <2>6. file \in {None, symbols[n].file} /\ First(n) <= line OBVIOUS
  <2> QED BY <2>1, <2>2, <2>3, <2>4, <2>5, <2>6
<1>4. \A m, n : MoreSpecific(symbols[m], symbols[n]) <=>
        \/ Size(m) < Size(n)
        \/ /\ Size(m) = Size(n)
           /\ \/ Rank(m) > Rank(n)
              \/ /\ Rank(m) = Rank(n)
                 /\ \/ First(m) > First(n)
                    \/ First(m) = First(n) /\ Place(m) > Place(n)
  BY DEF MoreSpecific
<1> HIDE DEF holding, Size, Rank, First, Place, N
<1>5. PICK size \in sizes : \A other \in sizes : size <= other
  <2>1. sizes \in SUBSET Nat /\ sizes # {} BY <1>2, <1>3
  <2> HIDE DEF sizes
  <2> QED BY <2>1, LeastNumber
<1> DEFINE smallest == {n \in holding : Size(n) = size}
           distances == {7 - Rank(n) : n \in smallest}
<1>6. PICK distance \in distances : \A other \in distances : distance <= other
  <2>1. smallest # {} OBVIOUS
  <2>2. \A n \in smallest : 7 - Rank(n) \in Nat BY <1>3
  <2>3. distances \in SUBSET Nat /\ distances # {} BY <2>1, <2>2
  <2> HIDE DEF distances
  <2> QED BY <2>3, LeastNumber
<1> DEFINE ranked == {n \in smallest : 7 - Rank(n) = distance}
           starts == {line - First(n) : n \in ranked}
<1>7. PICK start \in starts : \A other \in starts : start <= other
  <2>1. ranked # {} OBVIOUS
  <2>2. \A n \in ranked : line - First(n) \in Nat BY <1>3
  <2>3. starts \in SUBSET Nat /\ starts # {} BY <2>1, <2>2
  <2> HIDE DEF starts
  <2> QED BY <2>3, LeastNumber
<1> DEFINE latest == {n \in ranked : line - First(n) = start}
           rests == {N - Place(n) : n \in latest}
<1>8. PICK rest \in rests : \A other \in rests : rest <= other
  <2>1. latest # {} OBVIOUS
  <2>2. \A n \in latest : N - Place(n) \in Nat
    <3> SUFFICES ASSUME NEW n \in latest PROVE N - Place(n) \in Nat
      OBVIOUS
    <3>1. N \in Nat /\ Place(n) \in 0..N BY <1>3
    <3> HIDE DEF latest
    <3> QED BY <3>1
  <2>3. rests \in SUBSET Nat /\ rests # {} BY <2>1, <2>2
  <2> HIDE DEF rests
  <2> QED BY <2>3, LeastNumber
<1>9. PICK best \in latest : N - Place(best) = rest
  OBVIOUS
<1>10. /\ best \in holding /\ Size(best) = size /\ 7 - Rank(best) = distance /\ line - First(best) = start
       /\ N - Place(best) = rest
  BY <1>9
<1>11. ASSUME NEW other \in holding PROVE ~MoreSpecific(symbols[other], symbols[best])
  <2>1. size <= Size(other) BY <1>5
  <2>2. Size(other) = size => distance <= 7 - Rank(other) BY <1>6
  <2>3. Size(other) = size /\ 7 - Rank(other) = distance => start <= line - First(other)
    BY <1>7
  <2>4. Size(other) = size /\ 7 - Rank(other) = distance /\ line - First(other) = start => rest <= N - Place(other)
    BY <1>8
  <2>5. /\ Size(other) \in Nat /\ Rank(other) \in 1..6 /\ First(other) \in Nat /\ Place(other) \in 0..N
        /\ Size(best) \in Nat /\ Rank(best) \in 1..6 /\ First(best) \in Nat /\ Place(best) \in 0..N
        /\ N \in Nat
    BY <1>3, <1>10
  <2>6. MoreSpecific(symbols[other], symbols[best]) <=>
          \/ Size(other) < Size(best)
          \/ /\ Size(other) = Size(best)
             /\ \/ Rank(other) > Rank(best)
                \/ /\ Rank(other) = Rank(best)
                   /\ \/ First(other) > First(best)
                      \/ First(other) = First(best) /\ Place(other) > Place(best)
    BY <1>4
  <2> HIDE DEF rests, latest, starts, ranked, distances, smallest, sizes
  <2> QED BY ONLY <1>10, <2>1, <2>2, <2>3, <2>4, <2>5, <2>6, line \in Nat
<1>12. closest # {} /\ closest \subseteq holding
  BY <1>10, <1>11
<1>13. closest \in SUBSET Nat
  BY <1>3, <1>12
<1> HIDE DEF closest
<1>14. FirstOr(closest, 0) \in holding
  BY <1>12, <1>13, FirstOfThem
<1> QED BY <1>1, <1>2, <1>3, <1>14

(***************************************************************************)
(* Forms.                                                                  *)
(***************************************************************************)
\* A list of lists, put one behind the other, has the elements of all of them.
LEMMA FlattenedAre ==
  ASSUME NEW n \in Nat \ {0}, NEW S, NEW seqs \in [1..n -> Seq(S)]
  PROVE  /\ FlattenSeq(seqs) \in Seq(S)
         /\ ToSet(FlattenSeq(seqs)) = UNION {ToSet(seqs[i]) : i \in 1..n}
<1> DEFINE Steps(f, m) == f = [i \in 1..m |-> IF i = 1 THEN seqs[i] ELSE f[i - 1] \o seqs[i]]
           Missing == {m \in 1..n : ~\E f : Steps(f, m)}
           it == CHOOSE f : Steps(f, n)
<1>1. \E f : Steps(f, 1)
  <2> DEFINE f == [i \in 1..1 |-> seqs[i]]
  <2>1. \A i \in 1..1 : i = 1 OBVIOUS
  <2>2. Steps(f, 1) BY <2>1
  <2> HIDE DEF f
  <2> QED BY <2>2
<1>2. ASSUME NEW m \in 2..n, \E f : Steps(f, m - 1) PROVE \E f : Steps(f, m)
  <2>1. PICK g : Steps(g, m - 1) BY <1>2
  <2> DEFINE f == [i \in 1..m |-> IF i = m THEN g[m - 1] \o seqs[m] ELSE g[i]]
  <2>2. \A i \in 1..(m - 1) : g[i] = IF i = 1 THEN seqs[i] ELSE g[i - 1] \o seqs[i]
    BY <2>1
  <2>3. \A i \in 1..m : f[i] = IF i = m THEN g[m - 1] \o seqs[m] ELSE g[i]
    OBVIOUS
  <2>4. \A i \in 1..(m - 1) : f[i] = g[i] /\ i \in 1..m /\ i # m
    OBVIOUS
  <2>5. f = [i \in 1..m |-> f[i]] OBVIOUS
  <2> HIDE DEF f
  <2>6. \A i \in 1..m : f[i] = IF i = 1 THEN seqs[i] ELSE f[i - 1] \o seqs[i]
    <3> SUFFICES ASSUME NEW i \in 1..m PROVE f[i] = IF i = 1 THEN seqs[i] ELSE f[i - 1] \o seqs[i]
      OBVIOUS
    <3>1. CASE i = m
      <4>1. m - 1 \in 1..(m - 1) /\ i # 1 BY <3>1
      <4>2. f[m - 1] = g[m - 1] BY <2>4, <4>1
      <4>3. f[m] = g[m - 1] \o seqs[m]
        <5>1. m \in 1..m OBVIOUS
        <5> QED BY <2>3, <5>1
      <4> QED BY <3>1, <4>1, <4>2, <4>3
    <3>2. CASE i # m
      <4>1. i \in 1..(m - 1) BY <3>2
      <4>2. f[i] = IF i = 1 THEN seqs[i] ELSE g[i - 1] \o seqs[i] BY <2>2, <2>4, <4>1
      <4>3. i # 1 => i - 1 \in 1..(m - 1) OBVIOUS
      <4>4. i # 1 => f[i - 1] = g[i - 1] BY <2>4, <4>3
      <4> QED BY <4>2, <4>4
    <3> QED BY <3>1, <3>2
  <2>7. Steps(f, m) BY <2>5, <2>6
  <2> HIDE DEF Steps
  <2> QED BY <2>7
<1> HIDE DEF Steps
<1>3. Missing = {}
  <2> SUFFICES ASSUME Missing # {} PROVE FALSE
    OBVIOUS
  <2>1. Missing \in SUBSET Nat OBVIOUS
  <2>2. PICK m \in Missing : \A k \in Missing : m <= k
    <3> HIDE DEF Missing
    <3> QED BY <2>1, LeastNumber
  <2>3. m \in 1..n /\ ~\E f : Steps(f, m) OBVIOUS
  <2>4. m # 1 BY <1>1, <2>3
  <2>5. m \in 2..n
    <3> HIDE DEF Missing
    <3> QED BY <2>3, <2>4
  <2>6. ~\E f : Steps(f, m - 1)
    <3> HIDE DEF Missing
    <3> QED BY <1>2, <2>3, <2>5
  <2>7. m - 1 \in 1..n
    <3> HIDE DEF Missing
    <3> QED BY <2>5
  <2>8. m - 1 \in Missing BY <2>6, <2>7
  <2> HIDE DEF Missing
  <2> QED BY <2>2, <2>5, <2>8
<1>4. Steps(it, n)
  <2>1. n \in 1..n OBVIOUS
  <2>2. \E f : Steps(f, n) BY <1>3, <2>1
  <2> QED BY <2>2
<1>5. FlattenSeq(seqs) = it[n]
  <2>1. Len(seqs) = n OBVIOUS
  <2> QED BY <2>1 DEF FlattenSeq, Steps
<1> HIDE DEF it
<1>6. \A i \in 1..n : it[i] = IF i = 1 THEN seqs[i] ELSE it[i - 1] \o seqs[i]
  BY <1>4 DEF Steps
<1> DEFINE All(i) == UNION {ToSet(seqs[j]) : j \in 1..i}
           Right(i) == it[i] \in Seq(S) /\ ToSet(it[i]) = All(i)
           Wrong == {i \in 1..n : ~Right(i)}
<1>7. Right(1)
  <2>1. it[1] = seqs[1] /\ 1 \in 1..n BY <1>6
  <2>2. All(1) = ToSet(seqs[1])
    <3>1. \A j : j \in 1..1 <=> j = 1 OBVIOUS
    <3> QED BY <3>1
  <2> QED BY <2>1, <2>2
<1>8. ASSUME NEW i \in 2..n, Right(i - 1) PROVE Right(i)
  <2>1. i \in 1..n /\ i # 1
    OBVIOUS
  <2>2. it[i] = it[i - 1] \o seqs[i] /\ seqs[i] \in Seq(S)
    BY <1>6, <2>1
  <2>3. it[i - 1] \in Seq(S) /\ ToSet(it[i - 1]) = All(i - 1)
    BY <1>8
  <2>4. All(i) = All(i - 1) \cup ToSet(seqs[i])
    <3>1. 1..i = (1..(i - 1)) \cup {i} OBVIOUS
    <3> DEFINE L == 1..(i - 1)
               M == 1..i
    <3>2. M = L \cup {i} BY <3>1
    <3> DEFINE Of(j) == ToSet(seqs[j])
    <3> HIDE DEF L, M, Of
    <3>3. UNION {Of(j) : j \in M} = (UNION {Of(j) : j \in L}) \cup Of(i)
      BY <3>2
    <3>4. UNION {ToSet(seqs[j]) : j \in M} = (UNION {ToSet(seqs[j]) : j \in L}) \cup ToSet(seqs[i])
      BY <3>3 DEF Of
    <3> QED BY <3>4 DEF L, M
  <2> HIDE DEF All
  <2>5. it[i] \in Seq(S) /\ ToSet(it[i]) = ToSet(it[i - 1]) \cup ToSet(seqs[i])
    BY <2>2, <2>3, ElementsOfBoth
  <2> QED BY <2>3, <2>4, <2>5
<1> HIDE DEF Right
<1>9. Wrong = {}
  <2> SUFFICES ASSUME Wrong # {} PROVE FALSE
    OBVIOUS
  <2>1. Wrong \in SUBSET Nat OBVIOUS
  <2>2. PICK m \in Wrong : \A k \in Wrong : m <= k
    <3> HIDE DEF Wrong
    <3> QED BY <2>1, LeastNumber
  <2>3. m \in 1..n /\ ~Right(m) OBVIOUS
  <2>4. m # 1 BY <1>7, <2>3
  <2>5. m \in 2..n /\ m - 1 \in 1..n
    <3> HIDE DEF Wrong
    <3> QED BY <2>3, <2>4
  <2>6. ~Right(m - 1)
    <3> HIDE DEF Wrong
    <3> QED BY <1>8, <2>3, <2>5
  <2>7. m - 1 \in Wrong BY <2>5, <2>6
  <2> HIDE DEF Wrong
  <2> QED BY <2>2, <2>5, <2>7
<1>10. Right(n)
  <2>1. n \in 1..n OBVIOUS
  <2> QED BY <1>9, <2>1
<1> QED BY <1>5, <1>10 DEF Right

ObjectStands(object) ==
  /\ {"events", "columns"} \subseteq DOMAIN object
  /\ IsList(object.events) /\ \A event \in ToSet(object.events) : event.line \in Nat
  /\ IsList(object.columns)

FormStands(state) ==
  /\ {"objects", "stack", "columns"} \subseteq DOMAIN state
  /\ IsList(state.objects) /\ \A object \in ToSet(state.objects) : ObjectStands(object)

\* A list with one more element, or with one changed.
LEMMA Longer ==
  ASSUME NEW list, IsList(list), NEW x
  PROVE  IsList(Append(list, x)) /\ ToSet(Append(list, x)) = ToSet(list) \cup {x}
<1> DEFINE S == ToSet(list) \cup {x}
<1>1. list \in Seq(S) /\ x \in S
  BY DEF IsList
<1> HIDE DEF S
<1>2. <<x>> \in Seq(S) /\ Append(list, x) = list \o <<x>>
  BY <1>1
<1>3. IsList(list \o <<x>>) /\ ToSet(list \o <<x>>) = ToSet(list) \cup ToSet(<<x>>) /\ ToSet(<<x>>) = {x}
  BY OneListed, ListsJoin
<1> QED BY <1>2, <1>3

\* One field of an object of a form changes.
LEMMA Changed ==
  ASSUME NEW list, IsList(list), NEW i, NEW x
  PROVE  /\ IsList([list EXCEPT ![i] = x])
         /\ ToSet([list EXCEPT ![i] = x]) \subseteq ToSet(list) \cup {x}
<1> DEFINE new == [list EXCEPT ![i] = x]
<1>1. Len(list) \in Nat /\ DOMAIN list = 1..Len(list) /\ \A k \in 1..Len(list) : list[k] \in ToSet(list)
  BY Listed
<1>2. new = [k \in 1..Len(list) |-> new[k]]
  BY <1>1
<1>3. \A k \in 1..Len(list) : new[k] \in ToSet(list) \cup {x}
  BY <1>1
<1> HIDE DEF new
<1>4. IsList(new) /\ ToSet(new) = {new[k] : k \in 1..Len(list)}
  BY <1>1, <1>2, ListedByPlace
<1>5. ToSet(new) \subseteq ToSet(list) \cup {x}
  BY <1>3, <1>4
<1> QED BY <1>4, <1>5 DEF new

\* An object as the form opens it.
LEMMA NewObjectsStand ==
  ASSUME NEW line, NEW n
  PROVE  ObjectStands(FormObject(line, n))
<1> DEFINE object == FormObject(line, n)
<1>1. {"events", "columns"} \subseteq DOMAIN object /\ object.events = <<>> /\ object.columns = <<>>
  BY DEF FormObject
<1> HIDE DEF object
<1>2. ObjectStands(object)
  BY <1>1, NothingListed DEF ObjectStands
<1> QED BY <1>2 DEF object

\* Each line of a form leaves its objects in order.
LEMMA LinesKeepForms ==
  ASSUME NEW state, FormStands(state), NEW line, NEW n \in Nat
  PROVE  FormStands(ReadLine(state, line, n))
<1> DEFINE top == IF state.stack = <<>> THEN None ELSE Last(state.stack)
           objects == state.objects
<1>1. {"objects", "stack", "columns"} \subseteq DOMAIN state /\ IsList(objects)
      /\ \A object \in ToSet(objects) : ObjectStands(object)
  BY DEF FormStands
<1>2. ReadLine(state, line, n) \in
        {AddObject(state, line, n), [state EXCEPT !.columns = top], [state EXCEPT !.columns = None],
         EndObject(state), AddEvent(state, top, line, n), AddProperty(state, top, line, n), state}
  BY Zenon DEF ReadLine
<1> HIDE DEF top
<1>3. FormStands(AddObject(state, line, n))
  <2> DEFINE more == Append(objects, FormObject(line, n))
             next == AddObject(state, line, n)
  <2>1. next.objects = more /\ DOMAIN next = DOMAIN state
    BY <1>1 DEF AddObject
  <2>2. IsList(more) /\ ToSet(more) = ToSet(objects) \cup {FormObject(line, n)}
    BY <1>1, Longer
  <2> HIDE DEF next, more
  <2>3. FormStands(next)
    BY <1>1, <2>1, <2>2, NewObjectsStand DEF FormStands
  <2> QED BY <2>3 DEF next
<1>4. FormStands([state EXCEPT !.columns = top]) /\ FormStands([state EXCEPT !.columns = None])
  <2>1. \A c : LET next == [state EXCEPT !.columns = c] IN next.objects = objects /\ DOMAIN next = DOMAIN state
    BY <1>1
  <2> QED BY <1>1, <2>1 DEF FormStands
<1>5. FormStands(EndObject(state))
  <2> DEFINE next == EndObject(state)
  <2>1. next.objects = objects /\ DOMAIN next = DOMAIN state
    BY <1>1 DEF EndObject
  <2> HIDE DEF next
  <2>2. FormStands(next) BY <1>1, <2>1 DEF FormStands
  <2> QED BY <2>2 DEF next
<1>6. FormStands(AddEvent(state, top, line, n))
  <2> DEFINE event == [name |-> line.name, handler |-> line.value, line |-> n]
             object == [objects[top] EXCEPT !.events = Append(@, event)]
             new == [objects EXCEPT ![top] = object]
             next == AddEvent(state, top, line, n)
  <2>1. next.objects = new /\ DOMAIN next = DOMAIN state
    BY <1>1 DEF AddEvent
  <2>2. CASE top \in DOMAIN objects
    <3>1. objects[top] \in ToSet(objects) BY <1>1, <2>2 DEF ToSet
    <3>2. ObjectStands(objects[top]) BY <1>1, <3>1
    <3>3. ObjectStands(object)
      <4>1. DOMAIN object = DOMAIN objects[top] /\ object.events = Append(objects[top].events, event)
            /\ object.columns = objects[top].columns
        BY <3>2 DEF ObjectStands
      <4>2. event.line \in Nat OBVIOUS
      <4> HIDE DEF object, event
      <4>3. /\ IsList(Append(objects[top].events, event))
            /\ ToSet(Append(objects[top].events, event)) = ToSet(objects[top].events) \cup {event}
        BY <3>2, Longer DEF ObjectStands
      <4> QED BY <3>2, <4>1, <4>2, <4>3 DEF ObjectStands
    <3> HIDE DEF object
    <3>4. IsList(new) /\ ToSet(new) \subseteq ToSet(objects) \cup {object}
      BY <1>1, Changed
    <3> HIDE DEF new, next
    <3>5. FormStands(next) BY <1>1, <2>1, <3>3, <3>4 DEF FormStands
    <3> QED BY <3>5 DEF next
  <2>3. CASE top \notin DOMAIN objects
    <3>1. new = objects
      <4>1. Len(objects) \in Nat /\ DOMAIN objects = 1..Len(objects) /\ objects = [k \in DOMAIN objects |-> objects[k]]
        BY <1>1, Listed DEF IsList
      <4>2. DOMAIN new = DOMAIN objects /\ \A k \in DOMAIN objects : new[k] = objects[k]
        BY <2>3
      <4>3. new = [k \in DOMAIN objects |-> new[k]] OBVIOUS
      <4> HIDE DEF new
      <4> QED BY <4>1, <4>2, <4>3
    <3> HIDE DEF new, next
    <3>2. FormStands(next) BY <1>1, <2>1, <3>1 DEF FormStands
    <3> QED BY <3>2 DEF next
  <2> QED BY <2>2, <2>3
<1>7. FormStands(AddProperty(state, top, line, n))
  <2> DEFINE column == [field |-> line.value, line |-> n]
             old == objects[top]
             object == [old EXCEPT !.properties = (line.name :> line.value) @@ @,
                                   !.propertyLines = (line.name :> n) @@ @,
                                   !.columns = IF state.columns = top /\ line.name = "FieldName"
                                                 THEN Append(@, column) ELSE @]
             new == [objects EXCEPT ![top] = object]
             next == AddProperty(state, top, line, n)
  <2>1. DOMAIN next = DOMAIN state /\ DOMAIN next.objects = DOMAIN objects
        /\ \A k \in DOMAIN objects : k # top => next.objects[k] = objects[k]
    BY <1>1 DEF AddProperty
  <2>2. ASSUME top \in DOMAIN objects PROVE ObjectStands(next.objects[top])
    <3>1. objects[top] \in ToSet(objects) BY <1>1, <2>2 DEF ToSet
    <3>2. ObjectStands(objects[top]) BY <1>1, <3>1
    <3> DEFINE it == next.objects[top]
    <3>3. DOMAIN it = DOMAIN old /\ it.events = old.events
          /\ it.columns = IF state.columns = top /\ line.name = "FieldName" THEN Append(old.columns, column) ELSE old.columns
      BY <1>1, <2>2, <3>2 DEF AddProperty, ObjectStands
    <3>4. IsList(Append(old.columns, column))
      <4> HIDE DEF column
      <4> QED BY <3>2, Longer DEF ObjectStands
    <3> HIDE DEF it, next
    <3>5. ObjectStands(it) BY <3>2, <3>3, <3>4 DEF ObjectStands
    <3> QED BY <3>5 DEF it
  <2>3. FormStands(next)
    <3> DEFINE list == next.objects
    <3>1. Len(objects) \in Nat /\ DOMAIN objects = 1..Len(objects)
      BY <1>1, Listed
    <3>2. list = [k \in 1..Len(objects) |-> list[k]]
      BY <1>1, <3>1 DEF AddProperty
    <3> HIDE DEF next, list
    <3>3. IsList(list) /\ ToSet(list) = {list[k] : k \in 1..Len(objects)}
      BY <3>1, <3>2, ListedByPlace
    <3>4. ASSUME NEW k \in 1..Len(objects) PROVE ObjectStands(list[k])
      <4>1. k \in DOMAIN objects BY <3>1
      <4>2. objects[k] \in ToSet(objects) BY <4>1 DEF ToSet
      <4>3. CASE k = top BY <2>2, <4>1, <4>3 DEF list
      <4>4. CASE k # top BY <1>1, <2>1, <4>1, <4>2, <4>4 DEF list
      <4> QED BY <4>3, <4>4
    <3>5. next.objects = list BY DEF list
    <3> QED BY <1>1, <2>1, <3>3, <3>4, <3>5 DEF FormStands
  <2> QED BY <2>3 DEF next
<1> HIDE DEF objects
<1>8. FormStands(state) OBVIOUS
<1> QED BY <1>2, <1>3, <1>4, <1>5, <1>6, <1>7, <1>8

\* A form is read line by line.
LEMMA FormsStand ==
  ASSUME NEW file, IsList(file.lines)
  PROVE  FormStands(ParseDfmContent(file))
<1> DEFINE N == Len(file.lines)
           Line(f, n) == IF n = 0 THEN FormStart ELSE ReadLine(f[n - 1], file.lines[n], n)
           Steps(f, m) == f = [n \in 0..m |-> Line(f, n)]
           Missing == {m \in 0..N : ~\E f : Steps(f, m)}
           it == CHOOSE f : Steps(f, N)
<1>1. N \in Nat
  BY Listed
<1>2. ParseDfmContent(file) = it[N]
  BY DEF ParseDfmContent
<1> HIDE DEF N
<1>3. \E f : Steps(f, 0)
  <2> DEFINE f == [n \in 0..0 |-> FormStart]
  <2>1. \A n \in 0..0 : n = 0 OBVIOUS
  <2>2. f = [n \in 0..0 |-> Line(f, n)] BY <2>1
  <2> HIDE DEF f
  <2> QED BY <2>2
<1>4. ASSUME NEW m \in 1..N, \E f : Steps(f, m - 1) PROVE \E f : Steps(f, m)
  <2>1. PICK g : Steps(g, m - 1) BY <1>4
  <2> DEFINE f == [n \in 0..m |-> IF n = m THEN Line(g, m) ELSE g[n]]
  <2>2. \A n \in 0..(m - 1) : g[n] = Line(g, n)
    BY <2>1
  <2> HIDE DEF Line
  <2>3. \A n \in 0..m : f[n] = IF n = m THEN Line(g, m) ELSE g[n]
    OBVIOUS
  <2>4. f = [n \in 0..m |-> f[n]] OBVIOUS
  <2> HIDE DEF f
  <2>5. m - 1 \in 0..m /\ m - 1 # m /\ m # 0 /\ m \in 0..m BY <1>1
  <2>6. \A n \in 0..m : f[n] = Line(f, n)
    <3> SUFFICES ASSUME NEW n \in 0..m PROVE f[n] = Line(f, n)
      OBVIOUS
    <3>1. CASE n = m
      <4>1. f[m - 1] = g[m - 1] BY <2>3, <2>5
      <4>2. Line(f, m) = Line(g, m) BY <4>1 DEF Line
      <4> QED BY <2>3, <2>5, <3>1, <4>2
    <3>2. CASE n # m
      <4>1. n \in 0..(m - 1) BY <1>1, <3>2
      <4>2. f[n] = g[n] /\ g[n] = Line(g, n) BY <2>2, <2>3, <3>2, <4>1
      <4>3. n # 0 => n - 1 \in 0..m /\ n - 1 # m BY <1>1
      <4>4. n # 0 => f[n - 1] = g[n - 1] BY <2>3, <4>3
      <4>5. Line(f, n) = Line(g, n) BY <4>4 DEF Line
      <4> QED BY <4>2, <4>5
    <3> QED BY <3>1, <3>2
  <2>7. Steps(f, m) BY <2>4, <2>6
  <2> HIDE DEF Steps
  <2> QED BY <2>7
<1> HIDE DEF Steps
<1>5. Missing = {}
  <2> SUFFICES ASSUME Missing # {} PROVE FALSE
    OBVIOUS
  <2>1. Missing \in SUBSET Nat OBVIOUS
  <2>2. PICK m \in Missing : \A k \in Missing : m <= k
    <3> HIDE DEF Missing
    <3> QED BY <2>1, LeastNumber
  <2>3. m \in 0..N /\ ~\E f : Steps(f, m) OBVIOUS
  <2>4. m # 0 BY <1>3, <2>3
  <2>5. m \in 1..N /\ m - 1 \in 0..N
    <3> HIDE DEF Missing
    <3> QED BY <1>1, <2>3, <2>4
  <2>6. ~\E f : Steps(f, m - 1)
    <3> HIDE DEF Missing
    <3> QED BY <1>4, <2>3, <2>5
  <2>7. m - 1 \in Missing BY <2>5, <2>6
  <2> HIDE DEF Missing
  <2> QED BY <2>2, <2>5, <2>7
<1>6. Steps(it, N)
  <2>1. N \in 0..N BY <1>1
  <2>2. \E f : Steps(f, N) BY <1>5, <2>1
  <2> QED BY <2>2
<1> HIDE DEF it
<1>7. \A n \in 0..N : it[n] = Line(it, n)
  BY <1>6 DEF Steps
<1> DEFINE Wrong == {n \in 0..N : ~FormStands(it[n])}
<1>8. Wrong = {}
  <2> SUFFICES ASSUME Wrong # {} PROVE FALSE
    OBVIOUS
  <2>1. Wrong \in SUBSET Nat OBVIOUS
  <2>2. PICK m \in Wrong : \A k \in Wrong : m <= k
    <3> HIDE DEF Wrong
    <3> QED BY <2>1, LeastNumber
  <2>3. m \in 0..N /\ ~FormStands(it[m]) OBVIOUS
  <2>4. m # 0
    <3>1. FormStands(FormStart) BY NothingListed DEF FormStands, FormStart
    <3>2. 0 \in 0..N BY <1>1
    <3>3. it[0] = FormStart BY <1>7, <3>2
    <3> QED BY <2>3, <3>1, <3>3
  <2>5. m \in Nat /\ m - 1 \in 0..N
    <3> HIDE DEF Wrong
    <3> QED BY <1>1, <2>3, <2>4
  <2>6. m - 1 \notin Wrong
    <3> HIDE DEF Wrong
    <3> QED BY <2>2, <2>5
  <2>7. FormStands(it[m - 1]) BY <2>5, <2>6
  <2>8. it[m] = ReadLine(it[m - 1], file.lines[m], m)
    BY <1>7, <2>3, <2>4
  <2> HIDE DEF Wrong
  <2> QED BY <2>3, <2>5, <2>7, <2>8, LinesKeepForms
<1>9. N \in 0..N BY <1>1
<1> QED BY <1>2, <1>8, <1>9

\* What a form declares: itself, and a method for each event of each object.
LEMMA FormSymbolsAre ==
  ASSUME NEW file, IsList(file.lines)
  PROVE  /\ HaveSymbols(FormSymbols(file))
         /\ \A object \in ToSet(ParseDfmContent(file).objects) : \A event \in ToSet(object.events) :
              \E symbol \in ToSet(FormSymbols(file)) :
                symbol.signature = <<object.name, event.name, event.handler>>
<1> DEFINE objects == ParseDfmContent(file).objects
           form == FormOf(file)
           Method(object, event) ==
             [Qualified(file, <<form.name, object.name, event.name>>, "method", event.line, event.line)
                EXCEPT !.signature = <<object.name, event.name, event.handler>>]
           Methods(object) == [n \in DOMAIN object.events |-> Method(object, object.events[n])]
           it == Qualified(file, <<form.name>>, "class", 1, Len(file.lines))
           N == Len(objects)
           lists == [n \in 1..N |-> Methods(objects[n])]
           rest == FlattenSeq(lists)
<1>1. IsList(objects) /\ \A object \in ToSet(objects) : ObjectStands(object)
  BY FormsStand DEF FormStands
<1>2. N \in Nat /\ DOMAIN objects = 1..N /\ \A n \in 1..N : objects[n] \in ToSet(objects)
  BY <1>1, Listed
<1>3. FormSymbols(file) = IF objects = <<>> THEN <<>> ELSE <<it>> \o rest
  BY <1>2 DEF FormSymbols
<1>4. \A object, event : event.line \in Nat =>
        /\ IsSymbol(Method(object, event))
        /\ Method(object, event).signature = <<object.name, event.name, event.handler>>
  <2> SUFFICES ASSUME NEW object, NEW event, event.line \in Nat
               PROVE  /\ IsSymbol(Method(object, event))
                      /\ Method(object, event).signature = <<object.name, event.name, event.handler>>
    OBVIOUS
  <2> DEFINE symbol == Method(object, event)
  <2>1. /\ symbol.first = event.line /\ symbol.last = event.line /\ symbol.type = "method"
        /\ symbol.qualified = <<form.name, object.name, event.name>>
        /\ symbol.signature = <<object.name, event.name, event.handler>>
    BY DEF Qualified, CreateSymbol
  <2>2. "method" \in DOMAIN Specificity BY DEF Specificity
  <2>3. <<form.name, object.name, event.name>> # <<>> OBVIOUS
  <2> HIDE DEF symbol, form
  <2>4. PathOf(symbol) # <<>>
    <3>1. <<symbol.name>> # <<>> OBVIOUS
    <3> QED BY <2>1, <2>3, <3>1 DEF PathOf
  <2>5. IsSymbol(symbol) BY <2>1, <2>2, <2>4 DEF IsSymbol
  <2> QED BY <2>1, <2>5 DEF symbol, form
<1>5. IsSymbol(it)
  <2>1. <<form.name>> # <<>> OBVIOUS
  <2>2. "class" \in DOMAIN Specificity BY DEF Specificity
  <2>3. Len(file.lines) \in Nat BY Listed
  <2> HIDE DEF form
  <2> QED BY <2>1, <2>2, <2>3, CreatedSymbol
<1> HIDE DEF objects, it, Method, N
<1>6. ASSUME NEW object \in ToSet(objects)
      PROVE  /\ IsList(Methods(object)) /\ ToSet(Methods(object)) = {Method(object, event) : event \in ToSet(object.events)}
             /\ \A symbol \in ToSet(Methods(object)) : IsSymbol(symbol)
  <2> DEFINE list == Methods(object)
             n == Len(object.events)
  <2>1. IsList(object.events) /\ \A event \in ToSet(object.events) : event.line \in Nat
    BY <1>1 DEF ObjectStands
  <2>2. n \in Nat /\ DOMAIN object.events = 1..n
    BY <2>1, Listed
  <2>3. ToSet(object.events) = {object.events[k] : k \in 1..n}
    BY <2>2 DEF ToSet
  <2>4. list = [k \in 1..n |-> list[k]] /\ \A k \in 1..n : list[k] = Method(object, object.events[k])
    BY <2>2
  <2> HIDE DEF list, n
  <2>5. IsList(list) /\ ToSet(list) = {list[k] : k \in 1..n}
    BY <2>2, <2>4, ListedByPlace
  <2>6. ToSet(list) = {Method(object, event) : event \in ToSet(object.events)}
    BY <2>3, <2>4, <2>5
  <2>7. \A symbol \in ToSet(list) : IsSymbol(symbol)
    BY <1>4, <2>1, <2>6
  <2> QED BY <2>5, <2>6, <2>7 DEF list
<1> HIDE DEF Methods
<1>7. CASE objects = <<>>
  <2>1. ToSet(objects) = {} BY <1>7, NothingListed
  <2>2. FormSymbols(file) = <<>> BY <1>3, <1>7
  <2>3. HaveSymbols(<<>>) BY NothingListed DEF HaveSymbols
  <2> QED BY <2>1, <2>2, <2>3 DEF objects
<1>8. CASE objects # <<>>
  <2> DEFINE S == UNION {ToSet(Methods(objects[n])) : n \in 1..N}
  <2>1. N \in Nat \ {0}
    <3>1. N # 0
      <4>1. objects \in Seq(ToSet(objects)) BY <1>1 DEF IsList
      <4> QED BY <1>8, <4>1 DEF N
    <3> QED BY <1>2, <3>1
  <2>2. \A n \in 1..N : Methods(objects[n]) \in Seq(S)
    <3> SUFFICES ASSUME NEW n \in 1..N PROVE Methods(objects[n]) \in Seq(S)
      OBVIOUS
    <3>1. Methods(objects[n]) \in Seq(ToSet(Methods(objects[n])))
      BY <1>2, <1>6 DEF IsList
    <3>2. ToSet(Methods(objects[n])) \subseteq S
      OBVIOUS
    <3> HIDE DEF S
    <3> QED BY <3>1, <3>2
  <2>3. lists \in [1..N -> Seq(S)] /\ \A n \in 1..N : lists[n] = Methods(objects[n])
    <3> HIDE DEF S
    <3> QED BY <2>2
  <2>4. rest \in Seq(S) /\ ToSet(rest) = UNION {ToSet(lists[n]) : n \in 1..N}
    <3> HIDE DEF S, lists
    <3> QED BY <2>1, <2>3, FlattenedAre
  <2>5. \A symbol \in ToSet(rest) : \E n \in 1..N : symbol \in ToSet(Methods(objects[n]))
    BY <2>3, <2>4
  <2>6. \A n \in 1..N : ToSet(Methods(objects[n])) \subseteq ToSet(rest)
    BY <2>3, <2>4
  <2> HIDE DEF rest, S, lists
  <2>7. IsList(rest)
    <3>1. rest \in Seq(S) BY <2>4
    <3> QED BY <3>1 DEF IsList, ToSet
  <2>8. HaveSymbols(rest)
    BY <1>2, <1>6, <2>5, <2>7 DEF HaveSymbols
  <2>9. HaveSymbols(<<it>>) /\ ToSet(<<it>>) = {it}
    BY <1>5, OneListed DEF HaveSymbols
  <2>10. HaveSymbols(<<it>> \o rest) /\ ToSet(<<it>> \o rest) = {it} \cup ToSet(rest)
    BY <2>8, <2>9, SymbolsJoin
  <2>11. ASSUME NEW object \in ToSet(objects), NEW event \in ToSet(object.events)
         PROVE  \E symbol \in ToSet(FormSymbols(file)) :
                  symbol.signature = <<object.name, event.name, event.handler>>
    <3>1. PICK n \in 1..N : object = objects[n]
      BY <1>2 DEF ToSet
    <3>2. Method(object, event) \in ToSet(Methods(object))
      BY <1>6
    <3>3. Method(object, event) \in ToSet(FormSymbols(file))
      BY <1>3, <1>8, <2>6, <2>10, <3>1, <3>2
    <3>4. event.line \in Nat
      BY <1>1 DEF ObjectStands
    <3> QED BY <1>4, <3>3, <3>4
  <2> QED BY <1>3, <1>8, <2>10, <2>11 DEF objects
<1> QED BY <1>7, <1>8

(***************************************************************************)
(* Dependencies and references.                                            *)
(***************************************************************************)
IsLinked(dependency, symbols) == dependency.name # <<>> /\ dependency.from \in KeysOf(symbols)

\* A target that is found is a symbol.
LEMMA TargetsAreSymbols ==
  ASSUME NEW symbols, HaveSymbols(symbols), NEW owner, NEW name,
         ResolveDependencyTarget(owner, name, symbols) # None
  PROVE  ResolveDependencyTarget(owner, name, symbols) \in ToSet(symbols)
<1> DEFINE matches == {symbol \in ToSet(symbols) : symbol.name = name}
           near == {symbol \in matches : symbol.file = owner.file}
           target == ResolveDependencyTarget(owner, name, symbols)
<1>1. IsFiniteSet(ToSet(symbols)) BY Listed DEF HaveSymbols
<1>2. matches \subseteq ToSet(symbols) /\ near \subseteq ToSet(symbols)
  OBVIOUS
<1>3. \/ Cardinality(near) = 1 /\ target = TheOne(near)
      \/ Cardinality(matches) = 1 /\ target = TheOne(matches)
      \/ target = None
  BY DEF ResolveDependencyTarget
<1> HIDE DEF matches, near, target
<1>4. ASSUME NEW set, set \subseteq ToSet(symbols), Cardinality(set) = 1 PROVE TheOne(set) \in ToSet(symbols)
  <2>1. IsFiniteSet(set) BY <1>1, <1>4, FS_Subset
  <2>2. \E x : set = {x} BY <1>4, <2>1, FS_Singleton
  <2>3. set # {} BY <2>2
  <2> QED BY <1>4, <2>3 DEF TheOne
<1>5. target # None BY DEF target
<1>6. target \in ToSet(symbols) BY <1>2, <1>3, <1>4, <1>5
<1> QED BY <1>6 DEF target

\* A call links two symbols, if there is an owner and a target.
LEMMA CallsAreLinked ==
  ASSUME NEW symbols, HaveSymbols(symbols), NEW owner \in ToSet(symbols),
         NEW target, target = None \/ target \in ToSet(symbols), NEW type, NEW line,
         NEW d \in Dependency(owner, target, type, line)
  PROVE  IsLinked(d, symbols)
<1>1. target \in ToSet(symbols)
      /\ d = [from |-> owner.key, to |-> target.key, name |-> PathOf(target), type |-> type, line |-> line]
  BY DEF Dependency
<1>2. PathOf(target) # <<>> BY <1>1 DEF HaveSymbols, IsSymbol
<1>3. owner.key \in KeysOf(symbols) BY DEF KeysOf
<1> QED BY <1>1, <1>2, <1>3 DEF IsLinked

\* The lines of a file are those of its list.
LEMMA KnownPlaces ==
  ASSUME NEW file, IsList(file.lines), NEW n \in DOMAIN file.lines
  PROVE  n \in Nat /\ file.lines[n] \in ToSet(file.lines)
BY Listed

\* What each parser links comes from a symbol and has a name.
LEMMA DelphiIsLinked ==
  ASSUME NEW file, TextLines(file), NEW symbols, HaveSymbols(symbols),
         DelphiUnit(file) # None => symbols # <<>>,
         NEW d \in DelphiDependencies(file, symbols)
  PROVE  IsLinked(d, symbols)
<1> DEFINE from == IF symbols = <<>> THEN <<file.path, DelphiUnit(file), 1>> ELSE Head(symbols).key
<1>1. \/ d \in BuildCallDependencies(file, symbols)
      \/ DelphiUnit(file) # None /\ \E unit \in UsesUnits(file) : d = External(from, unit, 1)
  BY DEF DelphiDependencies
<1> HIDE DEF from
<1>2. ASSUME d \in BuildCallDependencies(file, symbols) PROVE IsLinked(d, symbols)
  <2> DEFINE Owner(n) == MostSpecific(symbols, n, None)
             Target(n, name) == ResolveDependencyTarget(Owner(n), Last(name), symbols)
  <2>1. PICK n \in DOMAIN file.lines :
          Owner(n) # None /\ \E name \in ToSet(file.lines[n].names) : d \in Dependency(Owner(n), Target(n, name), "calls", n)
    BY <1>2 DEF BuildCallDependencies, OnEachLine
  <2>2. PICK name \in ToSet(file.lines[n].names) : d \in Dependency(Owner(n), Target(n, name), "calls", n)
    BY <2>1
  <2>3. Owner(n) \in ToSet(symbols)
    <3>1. n \in Nat BY KnownPlaces DEF TextLines
    <3> QED BY <2>1, <3>1, OwnersAreSymbols
  <2>4. Target(n, name) = None \/ Target(n, name) \in ToSet(symbols)
    <3> HIDE DEF Owner
    <3> QED BY TargetsAreSymbols
  <2> HIDE DEF Owner, Target
  <2> QED BY <2>2, <2>3, <2>4, CallsAreLinked
<1>3. ASSUME DelphiUnit(file) # None, NEW unit \in UsesUnits(file), d = External(from, unit, 1)
      PROVE  IsLinked(d, symbols)
  <2>1. from \in KeysOf(symbols)
    <3>1. symbols # <<>> BY <1>3
    <3>2. symbols \in Seq(ToSet(symbols)) BY DEF HaveSymbols, IsList
    <3>3. Head(symbols) \in ToSet(symbols) BY <3>1, <3>2
    <3> QED BY <3>1, <3>3 DEF KeysOf, from
  <2>2. unit # <<>>
    <3>1. PICK n \in LinesOf(file, {"uses", "other"}) : unit \in ToSet(file.lines[n].names)
      BY <1>3 DEF UsesUnits
    <3>2. file.lines[n] \in ToSet(file.lines) BY LineNumbers DEF TextLines
    <3> QED BY <3>1, <3>2 DEF TextLines, IsLine
  <2> QED BY <1>3, <2>1, <2>2 DEF External, IsLinked
<1> QED BY <1>1, <1>2, <1>3

\* The first symbol of a kind is a symbol, and there is one if any is of the kind.
LEMMA FirstsAreSymbols ==
  ASSUME NEW symbols, HaveSymbols(symbols), NEW fitting \in SUBSET DOMAIN symbols, fitting # {}
  PROVE  FirstOr(fitting, 0) \in fitting /\ symbols[FirstOr(fitting, 0)] \in ToSet(symbols)
<1>1. DOMAIN symbols = 1..Len(symbols) /\ \A i \in 1..Len(symbols) : symbols[i] \in ToSet(symbols)
  BY Listed DEF HaveSymbols
<1>2. fitting \in SUBSET Nat
  <2>1. DOMAIN symbols \subseteq Nat BY <1>1
  <2> QED BY <2>1
<1>3. FirstOr(fitting, 0) \in fitting
  BY <1>2, FirstOfThem
<1> QED BY <1>1, <1>3

\* A Go call goes to a symbol, if anywhere.
LEMMA GoTargetsAreSymbols ==
  ASSUME NEW symbols, HaveSymbols(symbols), NEW types, NEW call
  PROVE  /\ GoMethod(types, call, symbols) = None \/ GoMethod(types, call, symbols) \in ToSet(symbols)
         /\ GoFunction(call, symbols) = None \/ GoFunction(call, symbols) \in ToSet(symbols)
<1> DEFINE OfType(symbol) == symbol.type = "method" /\ call[1] \in DOMAIN types
                             /\ symbol.qualified = <<types[call[1]], call[2]>>
           OfName(symbol) == symbol.type = "method" /\ symbol.name = call[2]
           IsCalled(symbol) == symbol.type = "function" /\ symbol.name = call[1]
           ofType == {i \in DOMAIN symbols : OfType(symbols[i])}
           ofName == {i \in DOMAIN symbols : OfName(symbols[i])}
           called == {i \in DOMAIN symbols : IsCalled(symbols[i])}
           First(fitting) == IF fitting = {} THEN None ELSE symbols[FirstOr(fitting, 0)]
<1>1. /\ GoMethod(types, call, symbols) \in {First(ofType), First(ofName)}
      /\ GoFunction(call, symbols) = First(called)
  BY DEF GoMethod, GoFunction, FirstSymbol
<1>2. ofType \subseteq DOMAIN symbols /\ ofName \subseteq DOMAIN symbols /\ called \subseteq DOMAIN symbols
  OBVIOUS
<1> HIDE DEF ofType, ofName, called
<1>3. \A fitting \in SUBSET DOMAIN symbols : First(fitting) = None \/ First(fitting) \in ToSet(symbols)
  BY FirstsAreSymbols
<1> HIDE DEF First
<1> QED BY <1>1, <1>2, <1>3

LEMMA GoIsLinked ==
  ASSUME NEW file, TextLines(file),
         \A line \in ToSet(file.lines) : \A name \in ToSet(line.names) : Len(name) \in {1, 2},
         NEW symbols, HaveSymbols(symbols),
         NEW d \in GoDependencies(file, symbols)
  PROVE  IsLinked(d, symbols)
<1> DEFINE types == CollectGoVariableTypes(file)
           Owner(n) == MostSpecific(symbols, n, file.path)
           Target(n, call) ==
             CASE Len(call) = 2 -> GoMethod(types, call, symbols)
               [] Len(call) = 1 -> IF file.lines[n].kind = "routine" THEN None ELSE GoFunction(call, symbols)
<1> HIDE DEF types
<1>1. \/ \E n \in DOMAIN file.lines : Owner(n) # None
           /\ \E call \in ToSet(file.lines[n].names) : d \in Dependency(Owner(n), Target(n, call), "calls", n)
      \/ symbols # <<>> /\ \E import \in CollectGoImports(file) : d = External(Head(symbols).key, import.name, import.line)
  <2> DEFINE Calls(n) == IF Owner(n) = None THEN {}
                         ELSE UNION {Dependency(Owner(n), Target(n, call), "calls", n) : call \in ToSet(file.lines[n].names)}
             calls == UNION {Calls(n) : n \in DOMAIN file.lines}
             imports == IF symbols = <<>> THEN {}
                        ELSE {External(Head(symbols).key, import.name, import.line) : import \in CollectGoImports(file)}
  <2>1. GoDependencies(file, symbols) = calls \cup imports
    BY Zenon DEF GoDependencies, OnEachLine, types
  <2> HIDE DEF Owner, Target
  <2>2. d \in calls \/ d \in imports
    BY <2>1
  <2>3. ASSUME d \in calls
        PROVE  \E n \in DOMAIN file.lines : Owner(n) # None
                 /\ \E call \in ToSet(file.lines[n].names) : d \in Dependency(Owner(n), Target(n, call), "calls", n)
    <3>1. PICK n \in DOMAIN file.lines : d \in Calls(n) BY <2>3
    <3> QED BY <3>1
  <2>4. ASSUME d \in imports
        PROVE  symbols # <<>> /\ \E import \in CollectGoImports(file) : d = External(Head(symbols).key, import.name, import.line)
    BY <2>4
  <2> QED BY <2>2, <2>3, <2>4
<1>2. ASSUME NEW n \in DOMAIN file.lines, Owner(n) # None, NEW call \in ToSet(file.lines[n].names),
             d \in Dependency(Owner(n), Target(n, call), "calls", n)
      PROVE  IsLinked(d, symbols)
  <2>1. n \in Nat /\ file.lines[n] \in ToSet(file.lines)
    BY KnownPlaces DEF TextLines
  <2>2. Owner(n) \in ToSet(symbols)
    BY <1>2, <2>1, OwnersAreSymbols
  <2>3. Target(n, call) = None \/ Target(n, call) \in ToSet(symbols)
    <3>1. Len(call) \in {1, 2} BY <1>2, <2>1
    <3>2. Target(n, call) \in {GoMethod(types, call, symbols), None, GoFunction(call, symbols)} BY <3>1
    <3> HIDE DEF Target
    <3> QED BY <3>2, GoTargetsAreSymbols
  <2> HIDE DEF Owner, Target
  <2> QED BY <1>2, <2>2, <2>3, CallsAreLinked
<1>3. ASSUME symbols # <<>>, NEW import \in CollectGoImports(file),
             d = External(Head(symbols).key, import.name, import.line)
      PROVE  IsLinked(d, symbols)
  <2>1. Head(symbols).key \in KeysOf(symbols)
    <3>1. symbols \in Seq(ToSet(symbols)) BY DEF HaveSymbols, IsList
    <3>2. Head(symbols) \in ToSet(symbols) BY <1>3, <3>1
    <3> QED BY <3>2 DEF KeysOf
  <2>2. import.name # <<>>
    <3>1. PICK n \in LinesOf(file, {"import", "path"}) : import.name = file.lines[n].name
      BY DEF CollectGoImports
    <3>2. file.lines[n] \in ToSet(file.lines) /\ file.lines[n].kind \in {"import", "path"}
      BY LineNumbers DEF TextLines
    <3> QED BY <3>1, <3>2 DEF TextLines, IsLine, NamedKinds
  <2> QED BY <1>3, <2>1, <2>2 DEF External, IsLinked
<1> QED BY <1>1, <1>2, <1>3

LEMMA SqlIsLinked ==
  ASSUME NEW file, TextLines(file), NEW symbols, HaveSymbols(symbols),
         NEW d \in SqlDependencies(file, symbols)
  PROVE  IsLinked(d, symbols)
<1> DEFINE Owner(n) == MostSpecific(symbols, n, file.path)
           Target(n) == ResolveDependencyTarget(Owner(n), Last(Head(file.lines[n].names)), symbols)
<1>1. PICK n \in DOMAIN file.lines :
        /\ Owner(n) # None /\ Target(n) # None
        /\ d = [from |-> Owner(n).key, to |-> Target(n).key, name |-> PathOf(Target(n)), type |-> "references",
                line |-> n]
  BY DEF SqlDependencies, OnEachLine
<1>2. Owner(n) \in ToSet(symbols)
  <2>1. n \in Nat BY KnownPlaces DEF TextLines
  <2> QED BY <1>1, <2>1, OwnersAreSymbols
<1>3. Target(n) \in ToSet(symbols)
  <2> HIDE DEF Owner
  <2> QED BY <1>1, TargetsAreSymbols
<1> HIDE DEF Owner, Target
<1>4. PathOf(Target(n)) # <<>> BY <1>3 DEF HaveSymbols, IsSymbol
<1>5. Owner(n).key \in KeysOf(symbols) BY <1>2 DEF KeysOf
<1> QED BY <1>1, <1>4, <1>5 DEF IsLinked

LEMMA FormIsLinked ==
  ASSUME NEW file, IsList(file.lines), NEW symbols, HaveSymbols(symbols),
         ToSet(FormSymbols(file)) \subseteq ToSet(symbols),
         NEW d \in FormDependencies(file, symbols)
  PROVE  IsLinked(d, symbols)
<1> DEFINE objects == ParseDfmContent(file).objects
           Signature(object, event) == <<object.name, event.name, event.handler>>
           Fitting(object, event) == {i \in DOMAIN symbols : symbols[i].signature = Signature(object, event)}
           First(fitting) == IF fitting = {} THEN None ELSE symbols[FirstOr(fitting, 0)]
<1>1. PICK object \in ToSet(objects) : \E n \in DOMAIN object.events :
        d = External(First(Fitting(object, object.events[n])).key, <<object.events[n].handler>>, object.events[n].line)
  BY DEF FormDependencies, OnEachObject, EventsOf, FirstSymbol
<1>2. PICK n \in DOMAIN object.events :
        d = External(First(Fitting(object, object.events[n])).key, <<object.events[n].handler>>, object.events[n].line)
  BY <1>1
<1> DEFINE event == object.events[n]
<1>3. event \in ToSet(object.events) BY DEF ToSet
<1> HIDE DEF event
<1>4. PICK symbol \in ToSet(symbols) : symbol.signature = Signature(object, event)
  <2>1. \E symbol \in ToSet(FormSymbols(file)) : symbol.signature = <<object.name, event.name, event.handler>>
    BY <1>1, <1>3, FormSymbolsAre
  <2> QED BY <2>1
<1>5. Fitting(object, event) # {}
  BY <1>4 DEF ToSet
<1>6. Fitting(object, event) \subseteq DOMAIN symbols
  OBVIOUS
<1> DEFINE first == First(Fitting(object, event))
<1>7. first \in ToSet(symbols)
  <2> HIDE DEF Fitting
  <2> QED BY <1>5, <1>6, FirstsAreSymbols
<1>8. d = External(first.key, <<event.handler>>, event.line)
  BY <1>2 DEF event
<1> HIDE DEF first
<1>9. first.key \in KeysOf(symbols) /\ <<event.handler>> # <<>>
  BY <1>7 DEF KeysOf
<1> QED BY <1>8, <1>9 DEF External, IsLinked

\* Every field reference stands on a line, and with a symbol or with none.
LEMMA ReferencesAreOwned ==
  ASSUME NEW file, ParserOf(file) \in {"delphi", "go", "sql"} => TextLines(file),
         NEW symbols, HaveSymbols(symbols), NEW r \in FieldReferencesOf(file, symbols)
  PROVE  r.line \in Nat /\ (r.symbol = None \/ r.symbol \in KeysOf(symbols))
<1> DEFINE Owner(n) == MostSpecific(symbols, n, file.path)
<1>1. ParserOf(file) \in {"delphi", "go", "sql"} /\ \E n \in DOMAIN file.lines :
        r.line = n /\ r.symbol = IF Owner(n) = None THEN None ELSE Owner(n).key
  BY DEF FieldReferencesOf, OnEachLine
<1>2. PICK n \in DOMAIN file.lines : r.line = n /\ r.symbol = IF Owner(n) = None THEN None ELSE Owner(n).key
  BY <1>1
<1>3. n \in Nat BY <1>1, KnownPlaces DEF TextLines
<1>4. Owner(n) # None => Owner(n) \in ToSet(symbols)
  BY <1>3, OwnersAreSymbols
<1> HIDE DEF Owner
<1>5. Owner(n) # None => Owner(n).key \in KeysOf(symbols) BY <1>4 DEF KeysOf
<1> QED BY <1>2, <1>3, <1>5

(***************************************************************************)
(* Rows.                                                                   *)
(***************************************************************************)
LEMMA FilesGiveSymbols ==
  ASSUME NEW file, IsSource(file)
  PROVE  /\ HaveSymbols(SymbolsOf(file))
         /\ ParserOf(file) = "delphi" => SymbolsOf(file) = DelphiSymbolsOf(file)
         /\ ParserOf(file) = "form" => SymbolsOf(file) = FormSymbols(file)
<1>1. IsList(file.lines) BY DEF IsSource
<1>2. ParserOf(file) \in {"delphi", "go", "sql"} => TextLines(file) BY DEF IsSource, TextLines
<1>3. CASE ParserOf(file) = "delphi"
  <2>1. HaveSymbols(DelphiSymbolsOf(file)) BY <1>2, <1>3, DelphiSymbolsAre DEF IsSource
  <2> QED BY <1>3, <2>1 DEF SymbolsOf
<1>4. CASE ParserOf(file) = "go"
  BY <1>2, <1>4, GoSymbolsAre DEF SymbolsOf
<1>5. CASE ParserOf(file) = "sql"
  BY <1>2, <1>5, SqlSymbolsAre DEF SymbolsOf
<1>6. CASE ParserOf(file) = "form"
  BY <1>1, <1>6, FormSymbolsAre DEF SymbolsOf
<1>7. CASE ParserOf(file) \notin {"delphi", "go", "sql", "form"}
  <2>1. SymbolsOf(file) = <<>> BY <1>7 DEF SymbolsOf
  <2> QED BY <1>7, <2>1, NothingListed DEF HaveSymbols
<1> QED BY <1>3, <1>4, <1>5, <1>6, <1>7

\* Whatever the parser of a file.
LEMMA FilesAreLinked ==
  ASSUME NEW file, IsSource(file), NEW symbols, HaveSymbols(symbols),
         ToSet(SymbolsOf(file)) \subseteq ToSet(symbols),
         NEW d \in DependenciesOf(file, symbols)
  PROVE  IsLinked(d, symbols)
<1>1. IsList(file.lines) BY DEF IsSource
<1>2. ParserOf(file) \in {"delphi", "go", "sql"} => TextLines(file) BY DEF IsSource, TextLines
<1>3. CASE ParserOf(file) = "delphi"
  <2>1. d \in DelphiDependencies(file, symbols) BY <1>3 DEF DependenciesOf
  <2>2. DelphiUnit(file) # None => symbols # <<>>
    <3>1. DelphiUnit(file) # None => DelphiSymbolsOf(file) # <<>>
      BY <1>2, <1>3, DelphiSymbolsAre DEF IsSource
    <3>2. SymbolsOf(file) = DelphiSymbolsOf(file) /\ HaveSymbols(SymbolsOf(file)) BY <1>3, FilesGiveSymbols
    <3>3. DelphiSymbolsOf(file) # <<>> => ToSet(DelphiSymbolsOf(file)) # {}
      <4> DEFINE list == DelphiSymbolsOf(file)
      <4>1. list \in Seq(ToSet(list)) BY <3>2 DEF HaveSymbols, IsList
      <4> HIDE DEF list
      <4>2. list # <<>> => Head(list) \in ToSet(list) BY <4>1
      <4> QED BY <4>2 DEF list
    <3> QED BY <3>1, <3>2, <3>3, NothingListed
  <2> QED BY <1>2, <1>3, <2>1, <2>2, DelphiIsLinked
<1>4. CASE ParserOf(file) = "go"
  <2>1. d \in GoDependencies(file, symbols) BY <1>4 DEF DependenciesOf
  <2> QED BY <1>2, <1>4, <2>1, GoIsLinked DEF IsSource
<1>5. CASE ParserOf(file) = "sql"
  <2>1. d \in SqlDependencies(file, symbols) BY <1>5 DEF DependenciesOf
  <2> QED BY <1>2, <1>5, <2>1, SqlIsLinked
<1>6. CASE ParserOf(file) = "form"
  <2>1. d \in FormDependencies(file, symbols) BY <1>6 DEF DependenciesOf
  <2>2. SymbolsOf(file) = FormSymbols(file) BY <1>6, FilesGiveSymbols
  <2> QED BY <1>1, <2>1, <2>2, FormIsLinked
<1>7. CASE ParserOf(file) \notin {"delphi", "go", "sql", "form"}
  BY <1>7 DEF DependenciesOf
<1> QED BY <1>3, <1>4, <1>5, <1>6, <1>7

\* What has been found stands while the symbols grow.
FoundStands(so_far) ==
  /\ DOMAIN so_far = DOMAIN NothingFound
  /\ HaveSymbols(so_far.symbols)
  /\ IsList(so_far.parsed)
  /\ \A file \in ToSet(so_far.parsed) : IsSource(file) /\ ToSet(SymbolsOf(file)) \subseteq ToSet(so_far.symbols)
  /\ \A r \in so_far.references : r.line \in Nat /\ (r.symbol = None \/ r.symbol \in KeysOf(so_far.symbols))
  /\ \A d \in so_far.dependencies : IsLinked(d, so_far.symbols)

LEMMA NothingFoundStands == FoundStands(NothingFound)
<1>1. /\ NothingFound.symbols = <<>> /\ NothingFound.parsed = <<>>
      /\ NothingFound.references = {} /\ NothingFound.dependencies = {}
  BY DEF NothingFound
<1> QED BY <1>1, NothingListed DEF FoundStands, HaveSymbols

\* A file more, read or skipped, and a file linked.
LEMMA FilesKeepFound ==
  ASSUME NEW so_far, FoundStands(so_far), NEW file, IsSource(file)
  PROVE  FoundStands(AnalyzeFile(so_far, file)) /\ FoundStands(SkipFile(so_far, file))
<1> DEFINE own == SymbolsOf(file)
           all == so_far.symbols \o own
           next == AnalyzeFile(so_far, file)
           skipped == SkipFile(so_far, file)
<1>1. HaveSymbols(so_far.symbols) /\ HaveSymbols(own)
  BY FilesGiveSymbols DEF FoundStands
<1>2. HaveSymbols(all) /\ ToSet(all) = ToSet(so_far.symbols) \cup ToSet(own)
  <2> HIDE DEF own
  <2> QED BY <1>1, SymbolsJoin
<1>3. KeysOf(so_far.symbols) \subseteq KeysOf(all) /\ KeysOf(own) \subseteq KeysOf(all)
  <2> HIDE DEF own, all
  <2> QED BY <1>2 DEF KeysOf
<1>4. /\ next.symbols = all
      /\ DOMAIN next = DOMAIN NothingFound
      /\ next.dependencies = {}
      /\ next.references = so_far.references \cup FieldReferencesOf(file, own)
      /\ next.parsed \in {so_far.parsed, Append(so_far.parsed, file)}
  BY DEF AnalyzeFile, NothingFound
<1> HIDE DEF own, all
<1>5. FoundStands(next)
  <2>1. IsList(next.parsed) /\ ToSet(next.parsed) \subseteq ToSet(so_far.parsed) \cup {file}
    <3>1. IsList(so_far.parsed) BY DEF FoundStands
    <3>2. IsList(Append(so_far.parsed, file)) /\ ToSet(Append(so_far.parsed, file)) = ToSet(so_far.parsed) \cup {file}
      BY <3>1, Longer
    <3> HIDE DEF next
    <3> QED BY <1>4, <3>1, <3>2
  <2>2. \A f \in ToSet(next.parsed) : IsSource(f) /\ ToSet(SymbolsOf(f)) \subseteq ToSet(all)
    <3> HIDE DEF next
    <3> QED BY <1>2, <2>1 DEF FoundStands, own
  <2>3. \A r \in next.references : r.line \in Nat /\ (r.symbol = None \/ r.symbol \in KeysOf(all))
    <3> SUFFICES ASSUME NEW r \in next.references PROVE r.line \in Nat /\ (r.symbol = None \/ r.symbol \in KeysOf(all))
      OBVIOUS
    <3>1. r \in so_far.references \/ r \in FieldReferencesOf(file, own)
      BY <1>4
    <3>2. ASSUME r \in FieldReferencesOf(file, own) PROVE r.line \in Nat /\ (r.symbol = None \/ r.symbol \in KeysOf(own))
      <4>1. ParserOf(file) \in {"delphi", "go", "sql"} => TextLines(file) BY DEF IsSource, TextLines
      <4> QED BY <1>1, <3>2, <4>1, ReferencesAreOwned
    <3> QED BY <1>3, <3>1, <3>2 DEF FoundStands
  <2> HIDE DEF next
  <2> QED BY <1>2, <1>4, <2>1, <2>2, <2>3 DEF FoundStands
<1>6. FoundStands(skipped)
  <2>1. DOMAIN so_far = DOMAIN NothingFound BY DEF FoundStands
  <2>2. /\ DOMAIN skipped = DOMAIN so_far /\ skipped.symbols = so_far.symbols /\ skipped.parsed = so_far.parsed
        /\ skipped.references = so_far.references /\ skipped.dependencies = so_far.dependencies
    BY <2>1 DEF SkipFile, NothingFound
  <2> HIDE DEF skipped
  <2> QED BY <2>2 DEF FoundStands
<1> QED BY <1>5, <1>6

LEMMA LinksKeepFound ==
  ASSUME NEW so_far, FoundStands(so_far), NEW file \in ToSet(so_far.parsed)
  PROVE  FoundStands([so_far EXCEPT !.dependencies = @ \cup DependenciesOf(file, so_far.symbols)])
<1> DEFINE more == DependenciesOf(file, so_far.symbols)
           next == [so_far EXCEPT !.dependencies = @ \cup more]
<1>1. DOMAIN so_far = DOMAIN NothingFound BY DEF FoundStands
<1>2. /\ DOMAIN next = DOMAIN so_far /\ next.symbols = so_far.symbols /\ next.parsed = so_far.parsed
      /\ next.references = so_far.references /\ next.dependencies = so_far.dependencies \cup more
  BY <1>1 DEF NothingFound
<1>3. \A d \in more : IsLinked(d, so_far.symbols)
  BY FilesAreLinked DEF FoundStands
<1> HIDE DEF next, more
<1>4. FoundStands(next)
  BY <1>2, <1>3 DEF FoundStands
<1> QED BY <1>4 DEF next, more

\* The part of the state that the rows are made of.
RowsInv ==
  /\ input \in Inputs /\ (input.files = <<>> => phase = "idle")
  /\ read \in Nat
  /\ FoundStands(found)
  /\ phase = "stored" => rows = PersistRows(found)

\* The files of an analysis are sources, in a list.
LEMMA SourcesAreListed ==
  ASSUME NEW in \in Inputs, in.files # <<>>
  PROVE  IsList(in.files) /\ \A file \in ToSet(in.files) : IsSource(file)
BY AnalyzedInputs

LEMMA RowsInit == Init => RowsInv
<1> SUFFICES ASSUME Init PROVE RowsInv
  OBVIOUS
<1>1. input \in Inputs /\ (input.files = <<>> => phase = "idle") /\ phase # "stored" /\ read = 0 /\ found = NothingFound
  BY DEF Init
<1> QED BY <1>1, NothingFoundStands DEF RowsInv

LEMMA RowsNext == RowsInv /\ [Next]_vars => RowsInv'
<1> SUFFICES ASSUME RowsInv, [Next]_vars PROVE RowsInv'
  OBVIOUS
<1>1. input \in Inputs /\ (input.files = <<>> => phase = "idle") /\ read \in Nat /\ FoundStands(found)
      /\ (phase = "stored" => rows = PersistRows(found))
  BY DEF RowsInv
<1>2. input' = input
  BY DEF Next, vars, Read, Skip, AllRead, Link, LinkFails, Summarize, AddImportWarnings, CutDocuments, Persist, PersistFails
<1>3. ASSUME Read \/ Skip PROVE RowsInv'
  <2>1. phase = "files" /\ phase' = phase /\ read' = read + 1 /\ read < Len(input.files)
        /\ (found' = AnalyzeFile(found, NextFile) \/ found' = SkipFile(found, NextFile))
    BY <1>3 DEF Read, Skip
  <2>2. input.files # <<>> BY <1>1, <2>1
  <2>3. IsSource(NextFile)
    <3>1. IsList(input.files) /\ \A file \in ToSet(input.files) : IsSource(file)
      BY <1>1, <2>2, SourcesAreListed
    <3>2. \A i \in 1..Len(input.files) : input.files[i] \in ToSet(input.files) /\ Len(input.files) \in Nat
      BY <3>1, Listed
    <3>3. Len(input.files) \in Nat BY <3>1, Listed
    <3>4. read + 1 \in 1..Len(input.files) BY <1>1, <2>1, <3>3
    <3> QED BY <3>1, <3>2, <3>4 DEF NextFile
  <2>4. FoundStands(found') BY <1>1, <2>1, <2>3, FilesKeepFound
  <2>5. read' \in Nat BY <1>1, <2>1
  <2> QED BY <1>1, <1>2, <2>1, <2>2, <2>4, <2>5 DEF RowsInv
<1>4. ASSUME Link PROVE RowsInv'
  <2>1. phase = "dependencies" /\ phase' = phase /\ read' = read + 1 /\ read < Len(found.parsed)
        /\ found' = [found EXCEPT !.dependencies = @ \cup DependenciesOf(found.parsed[read + 1], found.symbols)]
    BY <1>4 DEF Link
  <2>2. found.parsed[read + 1] \in ToSet(found.parsed)
    <3>1. IsList(found.parsed) BY <1>1 DEF FoundStands
    <3>2. Len(found.parsed) \in Nat /\ \A i \in 1..Len(found.parsed) : found.parsed[i] \in ToSet(found.parsed)
      BY <3>1, Listed
    <3>3. read + 1 \in 1..Len(found.parsed) BY <1>1, <2>1, <3>2
    <3> QED BY <3>2, <3>3
  <2>3. FoundStands(found') BY <1>1, <2>1, <2>2, LinksKeepFound
  <2>4. read' \in Nat BY <1>1, <2>1
  <2> QED BY <1>1, <1>2, <2>1, <2>3, <2>4 DEF RowsInv
<1>5. ASSUME AllRead \/ LinkFails \/ Summarize \/ AddImportWarnings \/ CutDocuments \/ PersistFails PROVE RowsInv'
  <2>1. found' = found /\ phase # "idle" /\ read' \in {read, 0} /\ phase' # "stored"
    BY <1>5 DEF AllRead, LinkFails, Summarize, AddImportWarnings, CutDocuments, PersistFails
  <2>2. input.files # <<>> BY <1>1, <2>1
  <2>3. read' \in Nat BY <1>1, <2>1
  <2> QED BY <1>1, <1>2, <2>1, <2>2, <2>3 DEF RowsInv
<1>6. ASSUME Persist PROVE RowsInv'
  <2>1. found' = found /\ phase = "persist" /\ read' = read /\ rows' = PersistRows(found)
    BY <1>6 DEF Persist
  <2>2. input.files # <<>> BY <1>1, <2>1
  <2>3. rows' = PersistRows(found') BY <2>1
  <2> QED BY <1>1, <1>2, <2>1, <2>2, <2>3 DEF RowsInv
<1>7. ASSUME UNCHANGED vars PROVE RowsInv'
  <2>1. found' = found /\ phase' = phase /\ read' = read /\ rows' = rows BY <1>7 DEF vars
  <2> QED BY <1>1, <1>2, <2>1 DEF RowsInv
<1> QED BY <1>3, <1>4, <1>5, <1>6, <1>7 DEF Next

\* What is made of such a state hangs together.
LEMMA RowsHang ==
  ASSUME NEW so_far, FoundStands(so_far), NEW stored, stored = PersistRows(so_far)
  PROVE  /\ \A row \in stored.dependencies :
              /\ row.source \in stored.symbols /\ row.target \in stored.symbols \cup {None}
              /\ row.target = None => row.external # <<>>
         /\ \A dependency \in so_far.dependencies :
              dependency.to \in stored.symbols =>
                \E row \in stored.dependencies : row.source = dependency.from /\ row.target = dependency.to
                                               /\ row.type = dependency.type /\ row.line = dependency.line
         /\ \A use \in stored.uses : use[1] \in stored.symbols /\ use[2] \in stored.fields
         /\ \A reference \in so_far.references :
              reference.symbol # None =>
                <<reference.symbol, FieldKey(reference), reference.type, reference.line>> \in stored.uses
<1> DEFINE symbols == so_far.symbols
           keys == KeysOf(symbols)
           linked == {d \in so_far.dependencies : d.from \in keys}
<1>1. /\ stored.symbols = keys
      /\ stored.fields = {FieldKey(reference) : reference \in so_far.references}
      /\ stored.uses = UNION {{<<owner.key, FieldKey(reference), reference.type, reference.line>> :
                                 owner \in FieldOwner(reference, symbols)} : reference \in so_far.references}
      /\ stored.dependencies = {DependencyRow(dependency, symbols) : dependency \in linked}
  BY DEF PersistRows
<1>2. HaveSymbols(symbols) /\ (\A d \in so_far.dependencies : d.name # <<>> /\ d.from \in keys)
      /\ \A r \in so_far.references : r.line \in Nat /\ (r.symbol = None \/ r.symbol \in keys)
  BY DEF FoundStands, IsLinked
<1>3. ASSUME NEW d PROVE LET target == ResolveInsertedTargetSymbolId(d, symbols)
                         IN  target \in keys \cup {None} /\ (d.to \in keys => target = d.to)
  <2> DEFINE fitting == {symbol \in ToSet(symbols) : FitsName(symbol, d, symbols)}
             target == ResolveInsertedTargetSymbolId(d, symbols)
  <2>1. CASE d.to \in keys
    <3>1. target = d.to BY <2>1 DEF ResolveInsertedTargetSymbolId
    <3> QED BY <2>1, <3>1
  <2>2. CASE d.to \notin keys
    <3>1. target = IF Cardinality(fitting) = 1 THEN TheOne(fitting).key ELSE None
      BY <2>2 DEF ResolveInsertedTargetSymbolId
    <3>2. fitting \subseteq ToSet(symbols) /\ IsFiniteSet(ToSet(symbols))
      BY <1>2, Listed DEF HaveSymbols
    <3> HIDE DEF fitting, target
    <3>3. ASSUME Cardinality(fitting) = 1 PROVE TheOne(fitting).key \in keys
      <4>1. IsFiniteSet(fitting) BY <3>2, FS_Subset
      <4>2. \E x : fitting = {x} BY <3>3, <4>1, FS_Singleton
      <4>3. TheOne(fitting) \in fitting BY <4>2 DEF TheOne
      <4> QED BY <3>2, <4>3 DEF KeysOf
    <3>4. target \in keys \cup {None} BY <3>1, <3>3
    <3> QED BY <2>2, <3>4 DEF target
  <2> QED BY <2>1, <2>2
<1>4. ASSUME NEW r \in so_far.references
      PROVE  FieldOwner(r, symbols) \subseteq ToSet(symbols)
  <2>1. CASE r.symbol # None
    BY <2>1 DEF FieldOwner
  <2>2. CASE r.symbol = None
    <3> DEFINE owner == MostSpecific(symbols, r.line, r.file)
    <3>1. FieldOwner(r, symbols) = IF owner = None THEN {} ELSE {owner}
      BY <2>2 DEF FieldOwner
    <3>2. owner # None => owner \in ToSet(symbols)
      <4>1. r.line \in Nat BY <1>2
      <4> HIDE DEF symbols
      <4> QED BY <1>2, <4>1, OwnersAreSymbols
    <3> HIDE DEF owner
    <3> QED BY <3>1, <3>2
  <2> QED BY <2>1, <2>2
<1> HIDE DEF symbols
<1>5. \A symbol \in ToSet(symbols) : symbol.key \in keys BY DEF KeysOf
<1>6. ASSUME NEW row \in stored.dependencies
      PROVE  /\ row.source \in stored.symbols /\ row.target \in stored.symbols \cup {None}
             /\ row.target = None => row.external # <<>>
  <2>1. PICK d \in linked : row = DependencyRow(d, symbols) BY <1>1
  <2>2. /\ row.source = d.from /\ row.target = ResolveInsertedTargetSymbolId(d, symbols)
        /\ row.target = None => row.external = d.name
    BY <2>1 DEF DependencyRow
  <2> HIDE DEF keys
  <2> QED BY <1>1, <1>2, <1>3, <2>2
<1>7. ASSUME NEW d \in so_far.dependencies, d.to \in stored.symbols
      PROVE  \E row \in stored.dependencies : row.source = d.from /\ row.target = d.to
                                              /\ row.type = d.type /\ row.line = d.line
  <2> DEFINE row == DependencyRow(d, symbols)
  <2>1. d \in linked BY <1>2
  <2>2. row \in stored.dependencies BY <1>1, <2>1
  <2>3. row.source = d.from /\ row.target = ResolveInsertedTargetSymbolId(d, symbols) /\ row.type = d.type /\ row.line = d.line
    BY DEF DependencyRow
  <2>4. row.target = d.to BY <1>1, <1>3, <1>7, <2>3
  <2> HIDE DEF row
  <2> QED BY <2>2, <2>3, <2>4
<1>8. ASSUME NEW use \in stored.uses PROVE use[1] \in stored.symbols /\ use[2] \in stored.fields
  <2>1. PICK r \in so_far.references : \E owner \in FieldOwner(r, symbols) :
          use = <<owner.key, FieldKey(r), r.type, r.line>>
    BY <1>1
  <2>2. PICK owner \in FieldOwner(r, symbols) : use = <<owner.key, FieldKey(r), r.type, r.line>>
    BY <2>1
  <2>3. use[1] = owner.key /\ use[2] = FieldKey(r) BY <2>2
  <2>4. owner.key \in keys BY <1>4, <1>5, <2>2
  <2> QED BY <1>1, <2>3, <2>4
<1>9. ASSUME NEW r \in so_far.references, r.symbol # None
      PROVE  <<r.symbol, FieldKey(r), r.type, r.line>> \in stored.uses
  <2>1. r.symbol \in keys BY <1>2, <1>9
  <2>2. PICK symbol \in ToSet(symbols) : symbol.key = r.symbol BY <2>1 DEF KeysOf
  <2>3. symbol \in FieldOwner(r, symbols) BY <1>9, <2>2 DEF FieldOwner
  <2> QED BY <1>1, <2>2, <2>3
<1> QED BY <1>6, <1>7, <1>8, <1>9

\* What is stored of an analysis hangs together, whatever the files.
THEOREM RowsHangTogether == Spec => []StoredRowsHangTogether
<1>1. RowsInv => StoredRowsHangTogether
  <2> SUFFICES ASSUME RowsInv, phase = "stored" PROVE StoredRowsHangTogether
    BY DEF StoredRowsHangTogether
  <2>1. FoundStands(found) /\ rows = PersistRows(found) BY DEF RowsInv
  <2> QED BY <2>1, RowsHang DEF StoredRowsHangTogether
<1> QED BY <1>1, RowsInit, RowsNext, PTL DEF Spec

(***************************************************************************)
(* What an analysis finds is finite.                                       *)
(***************************************************************************)
\* Functions of the subsets of a finite set agree on it if they agree on the
\* empty set and on each other one as soon as they do without one of its elements.
LEMMA ElementByElement ==
  ASSUME NEW S, IsFiniteSet(S), NEW f, NEW g, f[{}] = g[{}],
         \A s \in SUBSET S : s # {} => \E x \in s : f[s \ {x}] = g[s \ {x}] => f[s] = g[s]
  PROVE  f[S] = g[S]
<1> DEFINE Differ == {s \in SUBSET S : f[s] # g[s]}
           Sizes == {Cardinality(s) : s \in Differ}
<1>1. ASSUME NEW s \in SUBSET S PROVE IsFiniteSet(s) /\ Cardinality(s) \in Nat
  BY FS_Subset, FS_CardinalityType
<1>2. ASSUME Differ # {} PROVE FALSE
  <2>1. \A s \in Differ : Cardinality(s) \in Nat
    BY <1>1
  <2>2. PICK least \in Sizes : \A size \in Sizes : least <= size
    <3>1. Sizes \in SUBSET Nat /\ Sizes # {}
      <4> HIDE DEF Differ
      <4> QED BY <1>2, <2>1
    <3> HIDE DEF Sizes
    <3> QED BY <3>1, LeastNumber
  <2>3. PICK s \in Differ : Cardinality(s) = least
    OBVIOUS
  <2>4. \A t \in Differ : Cardinality(s) <= Cardinality(t)
    BY <2>2, <2>3
  <2> HIDE DEF Sizes
  <2>5. s \in SUBSET S /\ f[s] # g[s]
    OBVIOUS
  <2> HIDE DEF Differ
  <2>6. s # {}
    BY <2>5
  <2>7. PICK x \in s : f[s \ {x}] = g[s \ {x}] => f[s] = g[s]
    BY <2>5, <2>6
  <2>8. Cardinality(s \ {x}) = Cardinality(s) - 1 /\ Cardinality(s) \in Nat
    BY <1>1, <2>5, FS_RemoveElement
  <2>9. s \ {x} \notin Differ
    BY <2>4, <2>8
  <2>10. s \ {x} \in SUBSET S /\ f[s \ {x}] # g[s \ {x}]
    BY <2>5, <2>7
  <2> QED BY <2>9, <2>10 DEF Differ
<1>3. S \notin Differ
  BY <1>2
<1> QED BY <1>3

\* Finitely many finite sets.
LEMMA FiniteUnion ==
  ASSUME NEW S, IsFiniteSet(S), NEW f, \A x \in S : IsFiniteSet(f[x])
  PROVE  IsFiniteSet(UNION {f[x] : x \in S})
<1> DEFINE All(s) == UNION {f[x] : x \in s}
           g == [s \in SUBSET S |-> IF IsFiniteSet(All(s)) THEN 1 ELSE 0]
           h == [s \in SUBSET S |-> 1]
<1>1. All({}) = {} /\ \A s \in SUBSET S : \A x \in s : All(s) = All(s \ {x}) \cup f[x]
  OBVIOUS
<1> HIDE DEF All
<1>2. g[{}] = h[{}]
  <2>1. IsFiniteSet(All({})) BY <1>1, FS_EmptySet
  <2> QED BY <2>1
<1>3. ASSUME NEW s \in SUBSET S, s # {} PROVE \E x \in s : g[s \ {x}] = h[s \ {x}] => g[s] = h[s]
  <2>1. PICK x \in s : TRUE BY <1>3
  <2>2. x \in S /\ s \ {x} \in SUBSET S OBVIOUS
  <2>3. IsFiniteSet(All(s \ {x})) => IsFiniteSet(All(s))
    <3>1. All(s) = All(s \ {x}) \cup f[x] BY <1>1
    <3>2. IsFiniteSet(f[x]) BY <2>2
    <3> QED BY <3>1, <3>2, FS_Union
  <2>4. /\ g[s \ {x}] = IF IsFiniteSet(All(s \ {x})) THEN 1 ELSE 0
        /\ g[s] = IF IsFiniteSet(All(s)) THEN 1 ELSE 0
        /\ h[s \ {x}] = 1 /\ h[s] = 1
    BY <2>2
  <2> HIDE DEF g, h
  <2> QED BY <2>3, <2>4
<1> HIDE DEF g, h
<1>4. g[S] = h[S] BY <1>2, <1>3, ElementByElement
<1>5. ~IsFiniteSet(All(S)) => g[S] # h[S]
  <2>1. S \in SUBSET S OBVIOUS
  <2> QED BY <2>1 DEF g, h
<1>6. IsFiniteSet(All(S)) BY <1>4, <1>5
<1> QED BY <1>6 DEF All

\* What each line of a file gives, together.
LEMMA LinesTogether ==
  ASSUME NEW file, IsList(file.lines), NEW f, \A n \in DOMAIN file.lines : IsFiniteSet(f[n])
  PROVE  IsFiniteSet(UNION {f[n] : n \in DOMAIN file.lines})
<1>1. IsFiniteSet(DOMAIN file.lines) BY Listed
<1> QED BY <1>1, FiniteUnion

\* The references, marks and risks of a file are finite.
LEMMA FiniteReferences ==
  ASSUME NEW file, ParserOf(file) \in {"delphi", "go", "sql"} => TextLines(file), NEW symbols
  PROVE  IsFiniteSet(FieldReferencesOf(file, symbols))
<1> DEFINE Found(line) == line.sql \cup (IF ParserOf(file) = "delphi" THEN DatasetReferences(line) ELSE {})
           Owner(n) == MostSpecific(symbols, n, file.path)
           Reference(n, given) ==
             [table |-> given.table, field |-> given.field, type |-> given.type, file |-> file.path,
              line |-> n, symbol |-> IF Owner(n) = None THEN None ELSE Owner(n).key]
           f == [n \in DOMAIN file.lines |-> {Reference(n, given) : given \in Found(file.lines[n])}]
<1>1. CASE ParserOf(file) \in {"delphi", "go", "sql"}
  <2>1. TextLines(file) BY <1>1
  <2>2. FieldReferencesOf(file, symbols) = UNION {f[n] : n \in DOMAIN file.lines}
    <3> DEFINE References(n) ==
                 LET owner == MostSpecific(symbols, n, file.path)
                 IN  {[table |-> given.table, field |-> given.field, type |-> given.type, file |-> file.path,
                       line |-> n, symbol |-> IF owner = None THEN None ELSE owner.key] : given \in Found(file.lines[n])}
    <3>1. FieldReferencesOf(file, symbols) = UNION {References(n) : n \in DOMAIN file.lines}
      BY Zenon, <1>1 DEF FieldReferencesOf, OnEachLine
    <3>2. \A n \in DOMAIN file.lines : f[n] = References(n)
      OBVIOUS
    <3> HIDE DEF f, References
    <3> QED BY <3>1, <3>2
  <2>3. ASSUME NEW n \in DOMAIN file.lines PROVE IsFiniteSet(f[n])
    <3> DEFINE line == file.lines[n]
               given == Found(line)
    <3>1. IsLine(line)
      <4>1. line \in ToSet(file.lines) BY <2>1, KnownPlaces DEF TextLines
      <4> QED BY <2>1, <4>1 DEF TextLines
    <3>2. IsFiniteSet(line.sql) /\ IsList(line.fields) BY <3>1 DEF IsLine
    <3>3. IsFiniteSet(DatasetReferences(line))
      <4> DEFINE g == [field \in ToSet(line.fields) |->
                         [table |-> "delphi", field |-> field.name, type |-> IF field.written THEN "write" ELSE "read"]]
      <4>1. DatasetReferences(line) = {g[field] : field \in ToSet(line.fields)} BY DEF DatasetReferences
      <4>2. IsFiniteSet(ToSet(line.fields)) BY <3>2, Listed
      <4> HIDE DEF g
      <4> QED BY <4>1, <4>2, FiniteImage
    <3>4. IsFiniteSet(given) BY <3>2, <3>3, FS_EmptySet, FS_Union
    <3> HIDE DEF given, Reference
    <3> DEFINE g == [x \in given |-> Reference(n, x)]
    <3>5. f[n] = {g[x] : x \in given} BY DEF given
    <3> HIDE DEF g, f
    <3> QED BY <3>4, <3>5, FiniteImage
  <2> HIDE DEF f
  <2> QED BY <2>1, <2>2, <2>3, LinesTogether DEF TextLines
<1>2. CASE ParserOf(file) \notin {"delphi", "go", "sql"}
  BY <1>2, FS_EmptySet DEF FieldReferencesOf
<1> QED BY <1>1, <1>2

LEMMA FiniteMarks ==
  ASSUME NEW file, IsList(file.lines), NEW table, IsFiniteSet(DOMAIN table)
  PROVE  IsFiniteSet(RisksOfMarks(file, table))
<1> DEFINE RiskOf(n, mark) == Risk(table[mark].title, table[mark].severity, table[mark].category, file, n, mark)
           marks(n) == DOMAIN table \cap file.lines[n].marks
           f == [n \in DOMAIN file.lines |-> {RiskOf(n, mark) : mark \in marks(n)}]
<1>1. RisksOfMarks(file, table) = UNION {f[n] : n \in DOMAIN file.lines}
  BY DEF RisksOfMarks, OnEachLine
<1>2. ASSUME NEW n \in DOMAIN file.lines PROVE IsFiniteSet(f[n])
  <2>1. marks(n) \subseteq DOMAIN table OBVIOUS
  <2>2. IsFiniteSet(marks(n)) BY <2>1, FS_Subset
  <2> HIDE DEF RiskOf
  <2> DEFINE g == [x \in marks(n) |-> RiskOf(n, x)]
  <2>3. f[n] = {g[x] : x \in marks(n)} OBVIOUS
  <2> HIDE DEF g, f, marks
  <2> QED BY <2>2, <2>3, FiniteImage
<1> HIDE DEF f
<1> QED BY <1>1, <1>2, LinesTogether

LEMMA FiniteRisks ==
  ASSUME NEW file, IsList(file.lines)
  PROVE  IsFiniteSet(RisksOfFile(file))
<1>1. \A a, b, c, d, e, g : IsFiniteSet({a, b, c, d, e, g})
  <2> SUFFICES ASSUME NEW a, NEW b, NEW c, NEW d, NEW e, NEW g PROVE IsFiniteSet({a, b, c, d, e, g})
    OBVIOUS
  <2>1. IsFiniteSet({a}) BY FS_Singleton
  <2>2. IsFiniteSet({a} \cup {b}) BY <2>1, FS_AddElement
  <2>3. IsFiniteSet(({a} \cup {b}) \cup {c}) BY <2>2, FS_AddElement
  <2>4. IsFiniteSet((({a} \cup {b}) \cup {c}) \cup {d}) BY <2>3, FS_AddElement
  <2>5. IsFiniteSet(((({a} \cup {b}) \cup {c}) \cup {d}) \cup {e}) BY <2>4, FS_AddElement
  <2>6. IsFiniteSet((((({a} \cup {b}) \cup {c}) \cup {d}) \cup {e}) \cup {g}) BY <2>5, FS_AddElement
  <2>7. {a, b, c, d, e, g} = (((({a} \cup {b}) \cup {c}) \cup {d}) \cup {e}) \cup {g} OBVIOUS
  <2> QED BY <2>6, <2>7
<1>2. IsFiniteSet(DetectMagicValues(file))
  <2> DEFINE table == [date   |-> TableEntry("date literal", "medium", "magic_value"),
                       number |-> TableEntry("numeric literal", "medium", "magic_value"),
                       string |-> TableEntry("string literal", "low", "magic_value")]
  <2>1. DetectMagicValues(file) = RisksOfMarks(file, table) BY DEF DetectMagicValues
  <2>2. DOMAIN table = {"date", "number", "string", "string", "string", "string"} OBVIOUS
  <2>3. IsFiniteSet(DOMAIN table) BY <1>1, <2>2
  <2> HIDE DEF table
  <2> QED BY <2>1, <2>3, FiniteMarks
<1>3. IsFiniteSet(DetectMissingConditions(file))
  <2> DEFINE table == [unguarded |-> TableEntry("write without where", "critical", "missing_condition")]
  <2>1. DetectMissingConditions(file) = RisksOfMarks(file, table) BY DEF DetectMissingConditions
  <2>2. DOMAIN table = {"unguarded"} OBVIOUS
  <2>3. IsFiniteSet(DOMAIN table) BY <2>2, FS_Singleton
  <2> HIDE DEF table
  <2> QED BY <2>1, <2>3, FiniteMarks
<1>4. IsFiniteSet(DetectFormatConversionRisks(file))
  <2> DEFINE table == [datetime |-> TableEntry("date/time conversion", "medium", "format_conversion"),
                       amount   |-> TableEntry("amount conversion", "high", "format_conversion")]
  <2>1. DetectFormatConversionRisks(file) = RisksOfMarks(file, table) BY DEF DetectFormatConversionRisks
  <2>2. DOMAIN table = {"datetime", "amount", "amount", "amount", "amount", "amount"} OBVIOUS
  <2>3. IsFiniteSet(DOMAIN table) BY <1>1, <2>2
  <2> HIDE DEF table
  <2> QED BY <2>1, <2>3, FiniteMarks
<1>5. IsFiniteSet(EmptyHandlers(file))
  <2> DEFINE f == [n \in DOMAIN file.lines |->
                     IF "except" \in file.lines[n].marks /\ "raise" \notin file.lines[n].marks /\ IsEmptyHandler(file, n)
                       THEN {Risk("broad or empty handling", "high", "other", file, n, "except")} ELSE {}]
  <2>1. EmptyHandlers(file) = UNION {f[n] : n \in DOMAIN file.lines} BY DEF EmptyHandlers, OnEachLine
  <2>2. \A n \in DOMAIN file.lines : IsFiniteSet(f[n]) BY FS_EmptySet, FS_Singleton
  <2> HIDE DEF f
  <2> QED BY <2>1, <2>2, LinesTogether
<1>6. IsFiniteSet(DetectDelphiPatterns(file))
  <2> DEFINE table == [field     |-> TableEntry("field access", "low", "other"),
                       param     |-> TableEntry("query parameter", "low", "other"),
                       add       |-> TableEntry("dynamic sql", "high", "other"),
                       text      |-> TableEntry("dynamic sql", "high", "other"),
                       component |-> TableEntry("database component", "low", "other"),
                       path      |-> TableEntry("hardcoded path", "medium", "other")]
  <2>1. DetectDelphiPatterns(file) = EmptyHandlers(file) \cup RisksOfMarks(file, table) BY DEF DetectDelphiPatterns
  <2>2. DOMAIN table = {"field", "param", "add", "text", "component", "path"} OBVIOUS
  <2>3. IsFiniteSet(DOMAIN table) BY <1>1, <2>2
  <2> HIDE DEF table
  <2>4. IsFiniteSet(RisksOfMarks(file, table)) BY <2>3, FiniteMarks
  <2> QED BY <1>5, <2>1, <2>4, FS_Union
<1> QED BY <1>2, <1>3, <1>4, <1>6, FS_Union, FS_EmptySet DEF RisksOfFile

\* Warnings about one file, of which those that are no notes count.
AreWarningsOf(warnings, file) == IsFiniteSet(warnings) /\ \A warning \in warnings : warning.file = file.path

\* The warnings of a file name it.
LEMMA WarningsOfFile ==
  ASSUME NEW file
  PROVE  AreWarningsOf(WarningsOf(file), file) /\ AreWarningsOf(FormWarnings(file), file)
<1>1. AreWarningsOf({}, file) BY FS_EmptySet DEF AreWarningsOf
<1>2. \A code, level : AreWarningsOf({FileWarning(code, file, level)}, file)
  <2> SUFFICES ASSUME NEW code, NEW level PROVE AreWarningsOf({FileWarning(code, file, level)}, file)
    OBVIOUS
  <2> DEFINE it == FileWarning(code, file, level)
  <2>1. it.file = file.path BY DEF FileWarning
  <2> HIDE DEF it
  <2>2. AreWarningsOf({it}, file) BY <2>1, FS_Singleton DEF AreWarningsOf
  <2> QED BY <2>2 DEF it
<1>3. \A condition, code : AreWarningsOf(Flag(condition, code, file), file)
  BY <1>1, <1>2 DEF Flag
<1>4. \A one, other : AreWarningsOf(one, file) /\ AreWarningsOf(other, file) => AreWarningsOf(one \cup other, file)
  BY FS_Union DEF AreWarningsOf
<1>5. AreWarningsOf(SqlHeuristicWarnings(file), file) BY <1>3, <1>4 DEF SqlHeuristicWarnings
<1>6. AreWarningsOf(SqlWarnings(file), file) BY <1>3, <1>4, <1>5 DEF SqlWarnings
<1>7. AreWarningsOf(DelphiWarnings(file), file) BY <1>2, <1>3, <1>4, <1>5 DEF DelphiWarnings
<1>8. AreWarningsOf(FormWarnings(file), file) BY <1>3, <1>4 DEF FormWarnings
<1>9. AreWarningsOf(MetadataWarnings(file), file) BY <1>2 DEF MetadataWarnings
<1>10. AreWarningsOf(UnsupportedWarnings(file), file) BY <1>2 DEF UnsupportedWarnings
<1>11. WarningsOf(file) \in {DelphiWarnings(file), SqlHeuristicWarnings(file), SqlWarnings(file), FormWarnings(file),
                             MetadataWarnings(file), UnsupportedWarnings(file)}
  BY Zenon DEF WarningsOf
<1> QED BY <1>5, <1>6, <1>7, <1>8, <1>9, <1>10, <1>11

\* A form has finitely many events and bindings.
LEMMA FiniteForms ==
  ASSUME NEW file, IsList(file.lines)
  PROVE  IsFiniteSet(EventBindings(file)) /\ IsFiniteSet(DataBindings(file))
<1> DEFINE objects == ParseDfmContent(file).objects
<1>1. IsFiniteSet(ToSet(objects)) /\ \A object \in ToSet(objects) : IsList(object.events) /\ IsList(object.columns)
  BY FormsStand, Listed DEF FormStands, ObjectStands
<1>2. IsFiniteSet(EventBindings(file))
  <2> DEFINE Binding(object, event) ==
               [name |-> event.name, handler |-> event.handler, component |-> object.name,
                owner |-> <<FormOf(file).class>>, file |-> file.path, line |-> event.line]
             f == [object \in ToSet(objects) |-> {Binding(object, object.events[n]) : n \in DOMAIN object.events}]
  <2>1. EventBindings(file) = UNION {f[object] : object \in ToSet(objects)}
    BY DEF EventBindings, OnEachObject, EventsOf
  <2>2. ASSUME NEW object \in ToSet(objects) PROVE IsFiniteSet(f[object])
    <3> DEFINE places == DOMAIN object.events
               g == [n \in places |-> Binding(object, object.events[n])]
    <3>1. IsFiniteSet(places) BY <1>1, Listed
    <3> HIDE DEF Binding
    <3>2. f[object] = {g[n] : n \in places} OBVIOUS
    <3> HIDE DEF f, g, places
    <3> QED BY <3>1, <3>2, FiniteImage
  <2> HIDE DEF f, objects
  <2> QED BY <1>1, <2>1, <2>2, FiniteUnion
<1>3. IsFiniteSet(DataBindings(file))
  <2> DEFINE Source(object) == Property(object, "DataSource")
             Set(object) == IF Source(object) = None THEN None ELSE DataSetOf(objects, Source(object))
             Table(object) == IF Set(object) = None THEN None ELSE TableOf(objects, Set(object))
             Binding(object, bound) ==
               [component |-> object.name, class |-> object.class, source |-> Source(object), dataSet |-> Set(object),
                table |-> Table(object), field |-> bound.field, access |-> AccessHint(object, Source(object), Set(object)),
                confidence |-> Confidence(Source(object), Set(object), bound.field), file |-> file.path,
                line |-> bound.line, warnings |-> BindingWarnings(object, Source(object), Set(object), Table(object))]
             f == [object \in ToSet(objects) |-> IF object.class \in DbAwareClasses
                     THEN {Binding(object, bound) : bound \in BoundFields(object)} ELSE {}]
  <2>1. DataBindings(file) = UNION {f[object] : object \in ToSet(objects)}
    BY DEF DataBindings, OnEachObject
  <2>2. ASSUME NEW object \in ToSet(objects) PROVE IsFiniteSet(f[object])
    <3>1. IsFiniteSet(BoundFields(object))
      <4>1. IsFiniteSet(ToSet(object.columns)) BY <1>1, Listed
      <4>2. BoundFields(object) = ToSet(object.columns) \/ \E x : BoundFields(object) = {x}
        BY DEF BoundFields
      <4> QED BY <4>1, <4>2, FS_Singleton
    <3> HIDE DEF Binding
    <3> DEFINE g == [x \in BoundFields(object) |-> Binding(object, x)]
    <3>2. f[object] = {g[x] : x \in BoundFields(object)} \/ f[object] = {} OBVIOUS
    <3> HIDE DEF f, g
    <3> QED BY <3>1, <3>2, FiniteImage, FS_EmptySet
  <2> HIDE DEF f, objects
  <2> QED BY <1>1, <2>1, <2>2, FiniteUnion
<1> QED BY <1>2, <1>3

(***************************************************************************)
(* The score.                                                              *)
(***************************************************************************)
LossKinds == {"coverage", "degraded", "limited", "imports", "warnings", "types", "forms",
              "entry", "events", "bindings", "dynamic", "paths", "handlers", "runtime"}

TotalLoss(losses) ==
  losses.coverage + losses.degraded + losses.limited + losses.imports + losses.warnings
    + losses.types + losses.forms + losses.entry + losses.events + losses.bindings
    + losses.dynamic + losses.paths + losses.handlers + losses.runtime

\* The sum over the kinds of loss, spelled out.
LEMMA LossesAddUp ==
  ASSUME NEW losses, DOMAIN losses = LossKinds, \A kind \in LossKinds : losses[kind] \in Nat
  PROVE  FoldSet(LAMBDA kind, sum : sum + losses[kind], 0, DOMAIN losses) = TotalLoss(losses)
<1> DEFINE Part(kind, s) == IF kind \in s THEN losses[kind] ELSE 0
           Total(s) == Part("coverage", s) + Part("degraded", s) + Part("limited", s) + Part("imports", s) + Part("warnings", s)
             + Part("types", s) + Part("forms", s) + Part("entry", s) + Part("events", s) + Part("bindings", s)
             + Part("dynamic", s) + Part("paths", s) + Part("handlers", s) + Part("runtime", s)
           total == [s \in SUBSET LossKinds |-> Total(s)]
           Iter(f) == [s \in SUBSET LossKinds |-> IF s = {} THEN 0
                         ELSE f[s \ {CHOOSE x \in s : TRUE}] + losses[CHOOSE x \in s : TRUE]]
           it == CHOOSE f : f = Iter(f)
<1>1. ASSUME NEW s \in SUBSET LossKinds
      PROVE  /\ \A kind \in LossKinds : Part(kind, s) \in Nat
             /\ \A x \in s : Part(x, s) = losses[x] /\ Part(x, s \ {x}) = 0
             /\ \A x \in s : \A kind \in LossKinds : kind # x => Part(kind, s \ {x}) = Part(kind, s)
  OBVIOUS
<1>2. \A kind \in LossKinds : Part(kind, {}) = 0 /\ Part(kind, LossKinds) = losses[kind]
  OBVIOUS
<1> HIDE DEF Part
<1>3. Total({}) = 0 /\ Total(LossKinds) = TotalLoss(losses)
  BY <1>2 DEF LossKinds, TotalLoss
<1>4. ASSUME NEW s \in SUBSET LossKinds, NEW x \in s PROVE Total(s) = Total(s \ {x}) + losses[x]
  <2> DEFINE t == s \ {x}
  <2>1. t \in SUBSET LossKinds /\ x \in LossKinds OBVIOUS
  <2>2. /\ \A kind \in LossKinds : Part(kind, s) \in Nat /\ Part(kind, t) \in Nat
        /\ Part(x, s) = losses[x] /\ Part(x, t) = 0
        /\ \A kind \in LossKinds : kind # x => Part(kind, t) = Part(kind, s)
    BY <1>1, <2>1
  <2> HIDE DEF t
  <2> DEFINE Mine(kind) == IF kind = x THEN losses[x] ELSE 0
  <2>3. \A kind \in LossKinds : /\ Part(kind, t) \in Nat /\ Mine(kind) \in Nat
                                /\ Part(kind, s) = Part(kind, t) + Mine(kind)
    BY <1>1, <2>1, <2>2
  <2>4. losses[x] = Mine("coverage") + Mine("degraded") + Mine("limited") + Mine("imports") + Mine("warnings")
        + Mine("types") + Mine("forms") + Mine("entry") + Mine("events") + Mine("bindings")
        + Mine("dynamic") + Mine("paths") + Mine("handlers") + Mine("runtime")
    <3>1. losses[x] \in Nat /\ x \in LossKinds BY <2>1
    <3> QED BY ONLY <3>1 DEF LossKinds, Mine
  <2> HIDE DEF Mine
  <2>5. Total(s) = Total(t) + losses[x]
    <3>1. /\ Part("coverage", t) \in Nat /\ Mine("coverage") \in Nat /\ Part("coverage", s) = Part("coverage", t) + Mine("coverage")
          /\ Part("degraded", t) \in Nat /\ Mine("degraded") \in Nat /\ Part("degraded", s) = Part("degraded", t) + Mine("degraded")
          /\ Part("limited", t) \in Nat /\ Mine("limited") \in Nat /\ Part("limited", s) = Part("limited", t) + Mine("limited")
          /\ Part("imports", t) \in Nat /\ Mine("imports") \in Nat /\ Part("imports", s) = Part("imports", t) + Mine("imports")
          /\ Part("warnings", t) \in Nat /\ Mine("warnings") \in Nat /\ Part("warnings", s) = Part("warnings", t) + Mine("warnings")
          /\ Part("types", t) \in Nat /\ Mine("types") \in Nat /\ Part("types", s) = Part("types", t) + Mine("types")
          /\ Part("forms", t) \in Nat /\ Mine("forms") \in Nat /\ Part("forms", s) = Part("forms", t) + Mine("forms")
          /\ Part("entry", t) \in Nat /\ Mine("entry") \in Nat /\ Part("entry", s) = Part("entry", t) + Mine("entry")
          /\ Part("events", t) \in Nat /\ Mine("events") \in Nat /\ Part("events", s) = Part("events", t) + Mine("events")
          /\ Part("bindings", t) \in Nat /\ Mine("bindings") \in Nat /\ Part("bindings", s) = Part("bindings", t) + Mine("bindings")
          /\ Part("dynamic", t) \in Nat /\ Mine("dynamic") \in Nat /\ Part("dynamic", s) = Part("dynamic", t) + Mine("dynamic")
          /\ Part("paths", t) \in Nat /\ Mine("paths") \in Nat /\ Part("paths", s) = Part("paths", t) + Mine("paths")
          /\ Part("handlers", t) \in Nat /\ Mine("handlers") \in Nat /\ Part("handlers", s) = Part("handlers", t) + Mine("handlers")
          /\ Part("runtime", t) \in Nat /\ Mine("runtime") \in Nat /\ Part("runtime", s) = Part("runtime", t) + Mine("runtime")
      BY <2>3 DEF LossKinds
    <3> QED BY ONLY <2>4, <3>1
  <2> QED BY <2>5 DEF t
<1> HIDE DEF Total
<1>5. /\ \A s \in SUBSET LossKinds : total[s] = Total(s)
      /\ total = [s \in SUBSET LossKinds |-> total[s]]
  OBVIOUS
<1> HIDE DEF total
<1>6. ASSUME NEW f PROVE Iter(f) = [s \in SUBSET LossKinds |-> Iter(f)[s]] /\ Iter(f)[{}] = 0
  OBVIOUS
<1>7. ASSUME NEW f, NEW s \in SUBSET LossKinds, s # {}
      PROVE  \E x \in s : Iter(f)[s] = f[s \ {x}] + losses[x]
  <2> DEFINE one == CHOOSE x \in s : TRUE
  <2>1. Iter(f)[s] = f[s \ {one}] + losses[one]
    BY <1>7
  <2>2. one \in s
    BY <1>7
  <2> HIDE DEF Iter, one
  <2> QED BY <2>1, <2>2
<1> HIDE DEF Iter
<1>8. total = Iter(total)
  <2>1. ASSUME NEW s \in SUBSET LossKinds PROVE total[s] = Iter(total)[s]
    <3>1. CASE s = {}
      BY <1>3, <1>5, <1>6, <3>1
    <3>2. CASE s # {}
      <4>1. PICK x \in s : Iter(total)[s] = total[s \ {x}] + losses[x]
        BY <1>7, <3>2
      <4>2. s \ {x} \in SUBSET LossKinds
        OBVIOUS
      <4> QED BY <1>4, <1>5, <4>1, <4>2
    <3> QED BY <3>1, <3>2
  <2>2. Iter(total) = [s \in SUBSET LossKinds |-> Iter(total)[s]]
    BY <1>6
  <2> QED BY <1>5, <2>1, <2>2
<1>9. it = Iter(it)
  BY <1>8
<1> HIDE DEF it
<1>10. it[LossKinds] = total[LossKinds]
  <2>1. it[{}] = total[{}]
    BY <1>6, <1>8, <1>9
  <2>2. ASSUME NEW s \in SUBSET LossKinds, s # {}
        PROVE  \E x \in s : it[s \ {x}] = total[s \ {x}] => it[s] = total[s]
    <3>1. PICK x \in s : Iter(it)[s] = it[s \ {x}] + losses[x]
      BY <1>7, <2>2
    <3>2. total[s] = total[s \ {x}] + losses[x]
      <4>1. s \ {x} \in SUBSET LossKinds
        OBVIOUS
      <4>2. Total(s) = Total(s \ {x}) + losses[x]
        BY <1>4
      <4> QED BY <1>5, <4>1, <4>2
    <3>3. it[s] = Iter(it)[s]
      BY <1>9
    <3> QED BY <3>1, <3>2, <3>3
  <2>3. IsFiniteSet(LossKinds)
    <3> DEFINE names == <<"coverage", "degraded", "limited", "imports", "warnings", "types", "forms",
                          "entry", "events", "bindings", "dynamic", "paths", "handlers", "runtime">>
    <3>1. PICK many \in Nat : many = 14
      OBVIOUS
    <3>2. IsFiniteSet({names[n] : n \in 1..many})
      <4>1. IsFiniteSet(1..many) BY FS_Interval
      <4> HIDE DEF names
      <4> QED BY <4>1, FiniteImage
    <3>3. LossKinds = {names[n] : n \in 1..many}
      <4>1. names[1] = "coverage" /\ names[2] = "degraded" /\ names[3] = "limited" /\ names[4] = "imports" /\ names[5] = "warnings" /\ names[6] = "types" /\ names[7] = "forms"
            /\ names[8] = "entry" /\ names[9] = "events" /\ names[10] = "bindings" /\ names[11] = "dynamic" /\ names[12] = "paths" /\ names[13] = "handlers" /\ names[14] = "runtime"
        OBVIOUS
      <4> HIDE DEF names
      <4>2. \A n : n \in 1..many <=> n \in {1, 2, 3, 4, 5, 6, 7, 8, 9, 10, 11, 12, 13, 14}
        BY <3>1
      <4>3. {names[n] : n \in 1..many} = {names[n] : n \in {1, 2, 3, 4, 5, 6, 7, 8, 9, 10, 11, 12, 13, 14}}
        BY <4>2
      <4> QED BY <4>1, <4>3 DEF LossKinds
    <3> QED BY <3>2, <3>3
  <2> QED BY <2>1, <2>2, <2>3, ElementByElement
<1>11. FoldSet(LAMBDA kind, sum : sum + losses[kind], 0, LossKinds) = it[LossKinds]
  BY DEF FoldSet, MapThenFoldSet, it, Iter
<1>12. total[LossKinds] = Total(LossKinds)
  BY <1>5
<1> QED BY <1>3, <1>10, <1>11, <1>12

\* What a score is made of.
IsEvidence(evidence) ==
  /\ evidence.metrics.eligible \in Nat /\ evidence.metrics.analyzed \in Nat
  /\ evidence.metrics.skipped \in Nat /\ evidence.metrics.degraded \in Nat
  /\ evidence.metrics.unresolvedEvents \in Nat /\ IsFiniteSet(evidence.metrics.bindings)
  /\ IsFiniteSet(evidence.imports) /\ IsFiniteSet(evidence.warnings) /\ IsFiniteSet(evidence.risks)
  /\ IsList(evidence.types)

\* Less of the same.
IsLess(fewer, evidence) ==
  /\ fewer.metrics = evidence.metrics /\ fewer.types = evidence.types
  /\ fewer.imports \subseteq evidence.imports /\ fewer.warnings \subseteq evidence.warnings
  /\ fewer.risks \subseteq evidence.risks

\* A limited loss grows with the loss, and is none only if there is none.
LEMMA Limits ==
  ASSUME NEW limit \in Nat, NEW loss \in Nat
  PROVE  /\ UpTo(limit, loss) \in Nat /\ \A less \in Nat : less <= loss => UpTo(limit, less) <= UpTo(limit, loss)
         /\ limit # 0 /\ UpTo(limit, loss) = 0 => loss = 0
BY DEF UpTo

LEMMA Shares ==
  ASSUME NEW limit \in Nat, NEW part \in Nat, NEW whole \in Nat
  PROVE  ShareOf(limit, part, whole) \in Nat
<1>1. CASE whole = 0
  BY <1>1 DEF ShareOf
<1>2. CASE whole # 0
  <2> DEFINE loss == part * limit + whole - 1
  <2>1. part * limit \in Nat OBVIOUS
  <2>2. loss \in Nat
    <3> DEFINE product == part * limit
    <3> HIDE DEF product
    <3>1. product \in Nat BY <2>1 DEF product
    <3>2. product + whole - 1 \in Nat BY <1>2, <3>1
    <3> QED BY <3>2 DEF product
  <2> HIDE DEF loss
  <2>3. loss \div whole \in Nat BY <1>2, <2>2
  <2>4. ShareOf(limit, part, whole) = UpTo(limit, loss \div whole) BY <1>2 DEF ShareOf, loss
  <2> QED BY <2>3, <2>4, Limits
<1> QED BY <1>1, <1>2

\* Counting fewer of them gives no more.
LEMMA Fewer ==
  ASSUME NEW S, IsFiniteSet(S), NEW T \in SUBSET S
  PROVE  Cardinality(S) \in Nat /\ Cardinality(T) \in Nat /\ Cardinality(T) <= Cardinality(S)
BY FS_Subset, FS_CardinalityType

WithCode(warnings, code) == {warning \in warnings : warning.code = code}
AtRuntime(warnings) == {warning \in warnings : NamesRuntime(warning)}
Titled(risks, titles) == {risk \in risks : risk.title \in titles}

\* The losses, each as a limit and a count of some set.
LEMMA LossesAre ==
  ASSUME NEW evidence
  PROVE  LET losses == Breakdown(evidence)
             all == AllWarnings(evidence)
             metrics == evidence.metrics
         IN  /\ DOMAIN losses = LossKinds
             /\ losses.coverage = CoverageLoss(metrics)
             /\ losses.degraded = UpTo(20, 2 * (metrics.skipped + metrics.degraded))
             /\ losses.limited = UpTo(20, 2 * Cardinality(LimitedFiles(evidence)))
             /\ losses.imports = UpTo(15, 2 * Cardinality(evidence.imports))
             /\ losses.warnings = UpTo(20, Cardinality(Material(evidence.warnings)))
             /\ losses.types = TypeLoss(evidence.types)
             /\ losses.forms = FormLoss(ToSet(evidence.types))
             /\ losses.entry = EntryLoss(ToSet(evidence.types))
             /\ losses.events = UpTo(20, 4 * metrics.unresolvedEvents)
             /\ losses.bindings = UpTo(20, 4 * Cardinality(UnresolvedBindings(metrics.bindings)))
             /\ losses.dynamic = UpTo(18, 3 * (Cardinality(WithCode(all, "SQL_DYNAMIC_STRING"))
                                               + Cardinality(Titled(evidence.risks, {"dynamic sql"}))))
             /\ losses.paths = UpTo(12, 2 * Cardinality(Titled(evidence.risks, {"hardcoded path"})))
             /\ losses.handlers = UpTo(10, 2 * Cardinality(Titled(evidence.risks, SwallowingTitles)))
             /\ losses.runtime = UpTo(12, 3 * Cardinality(AtRuntime(all)))
<1> DEFINE losses == Breakdown(evidence)
           all == AllWarnings(evidence)
           metrics == evidence.metrics
<1>1. WarningsWith(evidence.warnings, LAMBDA w : w.level # "note") = Cardinality(Material(evidence.warnings))
  BY DEF WarningsWith, Material
<1>2. DynamicSqlCount(evidence) = Cardinality(WithCode(all, "SQL_DYNAMIC_STRING"))
                                  + Cardinality(Titled(evidence.risks, {"dynamic sql"}))
  BY DEF DynamicSqlCount, WarningsWith, WithCode, RisksTitled, Titled
<1>3. \A titles : RisksTitled(evidence, titles) = Cardinality(Titled(evidence.risks, titles))
  BY DEF RisksTitled, Titled
<1>4. WarningsWith(all, NamesRuntime) = Cardinality(AtRuntime(all))
  BY DEF WarningsWith, AtRuntime
<1>5. /\ DOMAIN losses = LossKinds
      /\ losses.coverage = CoverageLoss(metrics)
      /\ losses.degraded = UpTo(20, 2 * (metrics.skipped + metrics.degraded))
      /\ losses.limited = UpTo(20, 2 * Cardinality(LimitedFiles(evidence)))
      /\ losses.imports = UpTo(15, 2 * Cardinality(evidence.imports))
      /\ losses.types = TypeLoss(evidence.types)
      /\ losses.forms = FormLoss(ToSet(evidence.types))
      /\ losses.entry = EntryLoss(ToSet(evidence.types))
      /\ losses.events = UpTo(20, 4 * metrics.unresolvedEvents)
      /\ losses.bindings = UpTo(20, 4 * Cardinality(UnresolvedBindings(metrics.bindings)))
      /\ losses.dynamic = UpTo(18, 3 * DynamicSqlCount(evidence))
      /\ losses.paths = UpTo(12, 2 * RisksTitled(evidence, {"hardcoded path"}))
      /\ losses.handlers = UpTo(10, 2 * RisksTitled(evidence, SwallowingTitles))
  BY DEF Breakdown, LossKinds
<1>6. losses.warnings = UpTo(20, Cardinality(Material(evidence.warnings)))
  BY DEF Breakdown, WarningsWith, Material
<1>7. losses.runtime = UpTo(12, 3 * Cardinality(AtRuntime(all)))
  BY DEF Breakdown, WarningsWith, AtRuntime
<1> HIDE DEF losses, all, metrics
<1> QED BY <1>2, <1>3, <1>5, <1>6, <1>7 DEF losses, all, metrics

NaturalLosses(losses) == \A kind \in LossKinds : losses[kind] \in Nat
FirstLoss(losses) == losses.coverage + losses.degraded + losses.limited + losses.imports + losses.warnings
SecondLoss(losses) == losses.types + losses.forms + losses.entry + losses.events + losses.bindings
ThirdLoss(losses) == losses.dynamic + losses.paths + losses.handlers + losses.runtime

\* The sum in three parts.
LEMMA LossParts ==
  ASSUME NEW losses, NaturalLosses(losses)
  PROVE  /\ FirstLoss(losses) \in Nat /\ SecondLoss(losses) \in Nat /\ ThirdLoss(losses) \in Nat
         /\ TotalLoss(losses) = FirstLoss(losses) + SecondLoss(losses) + ThirdLoss(losses)
<1>1. /\ losses.coverage \in Nat /\ losses.degraded \in Nat /\ losses.limited \in Nat /\ losses.imports \in Nat /\ losses.warnings \in Nat
      /\ losses.types \in Nat /\ losses.forms \in Nat /\ losses.entry \in Nat /\ losses.events \in Nat /\ losses.bindings \in Nat
      /\ losses.dynamic \in Nat /\ losses.paths \in Nat /\ losses.handlers \in Nat /\ losses.runtime \in Nat
  BY DEF NaturalLosses, LossKinds
<1> QED BY ONLY <1>1 DEF TotalLoss, FirstLoss, SecondLoss, ThirdLoss

\* Fewer warnings and risks cost no more, of any kind.
LEMMA LossesShrink ==
  ASSUME NEW evidence, IsEvidence(evidence), NEW fewer, IsLess(fewer, evidence), NEW kind \in LossKinds
  PROVE  /\ Breakdown(evidence)[kind] \in Nat /\ Breakdown(fewer)[kind] \in Nat
         /\ Breakdown(fewer)[kind] <= Breakdown(evidence)[kind]
<1> DEFINE losses == Breakdown(evidence)
           less == Breakdown(fewer)
           metrics == evidence.metrics
           all == AllWarnings(evidence)
           some == AllWarnings(fewer)
           Good(one, other) == one \in Nat /\ other \in Nat /\ other <= one
<1>1. /\ metrics.eligible \in Nat /\ metrics.analyzed \in Nat /\ metrics.skipped \in Nat /\ metrics.degraded \in Nat
      /\ metrics.unresolvedEvents \in Nat /\ IsFiniteSet(metrics.bindings)
      /\ IsFiniteSet(evidence.imports) /\ IsFiniteSet(evidence.warnings) /\ IsFiniteSet(evidence.risks)
      /\ IsList(evidence.types)
  BY DEF IsEvidence
<1>2. /\ fewer.metrics = metrics /\ fewer.types = evidence.types
      /\ fewer.imports \subseteq evidence.imports /\ fewer.warnings \subseteq evidence.warnings
      /\ fewer.risks \subseteq evidence.risks
  BY DEF IsLess
<1> HIDE DEF metrics
<1>3. IsFiniteSet(all) /\ some \subseteq all
  BY <1>1, <1>2, FS_Union DEF AllWarnings
<1> HIDE DEF all, some
<1>4. ASSUME NEW S, IsFiniteSet(S), NEW T \in SUBSET S, NEW factor \in Nat, NEW limit \in Nat
      PROVE  Good(UpTo(limit, factor * Cardinality(S)), UpTo(limit, factor * Cardinality(T)))
  <2> DEFINE m == Cardinality(S)
             n == Cardinality(T)
  <2>1. m \in Nat /\ n \in Nat /\ n <= m BY <1>4, Fewer
  <2> HIDE DEF m, n
  <2>2. factor * m \in Nat /\ factor * n \in Nat BY <2>1
  <2>3. factor * n <= factor * m BY <2>1
  <2>4. Good(UpTo(limit, factor * m), UpTo(limit, factor * n)) BY <2>2, <2>3, Limits
  <2> QED BY <2>4 DEF m, n
<1>5. ASSUME NEW x \in Nat PROVE Good(x, x)
  OBVIOUS
<1> HIDE DEF Good
<1>6. CASE kind = "coverage"
  <2>1. losses[kind] = CoverageLoss(metrics) /\ less[kind] = CoverageLoss(metrics)
    BY <1>2, <1>6, LossesAre DEF metrics
  <2>2. CoverageLoss(metrics) \in Nat
    <3>1. CASE metrics.analyzed > metrics.eligible BY <3>1 DEF CoverageLoss
    <3>2. CASE ~(metrics.analyzed > metrics.eligible)
      <4>1. metrics.eligible - metrics.analyzed \in Nat BY <1>1, <3>2
      <4>2. CoverageLoss(metrics) = ShareOf(25, metrics.eligible - metrics.analyzed, metrics.eligible)
        BY <3>2 DEF CoverageLoss
      <4> DEFINE part == metrics.eligible - metrics.analyzed
                 whole == metrics.eligible
                 limit == 25
      <4>3. part \in Nat /\ whole \in Nat /\ limit \in Nat BY <1>1, <4>1
      <4>4. CoverageLoss(metrics) = ShareOf(limit, part, whole) BY <4>2
      <4> HIDE DEF part, whole, limit
      <4> QED BY <4>3, <4>4, Shares
    <3> QED BY <3>1, <3>2
  <2> QED BY <1>5, <2>1, <2>2 DEF Good
<1>7. CASE kind = "degraded"
  <2> DEFINE loss == UpTo(20, 2 * (metrics.skipped + metrics.degraded))
  <2>1. losses[kind] = loss /\ less[kind] = loss
    BY <1>2, <1>7, LossesAre DEF metrics
  <2>2. loss \in Nat
    <3>1. 2 * (metrics.skipped + metrics.degraded) \in Nat BY <1>1
    <3> QED BY <3>1, Limits
  <2> HIDE DEF loss
  <2> QED BY <1>5, <2>1, <2>2 DEF Good
<1>8. CASE kind = "limited"
  <2> DEFINE Limited(warnings) == {w \in warnings : w.file # None /\ (w.code = "IMPORT_LIMITED_ANALYSIS" \/ w.heuristic)}
             f == [w \in Limited(all) |-> w.file]
  <2>1. IsFiniteSet(LimitedFiles(evidence))
    <3>1. LimitedFiles(evidence) = {f[w] : w \in Limited(all)} BY DEF LimitedFiles, all
    <3>2. Limited(all) \subseteq all OBVIOUS
    <3>3. IsFiniteSet(Limited(all)) BY <1>3, <3>2, FS_Subset
    <3> HIDE DEF f, Limited
    <3> QED BY <3>1, <3>3, FiniteImage
  <2>2. LimitedFiles(fewer) \subseteq LimitedFiles(evidence)
    BY <1>3 DEF LimitedFiles, all, some
  <2>3. losses[kind] = UpTo(20, 2 * Cardinality(LimitedFiles(evidence)))
        /\ less[kind] = UpTo(20, 2 * Cardinality(LimitedFiles(fewer)))
    BY <1>8, LossesAre
  <2> DEFINE S == LimitedFiles(evidence)
             T == LimitedFiles(fewer)
  <2> HIDE DEF S, T
  <2>4. IsFiniteSet(S) /\ T \in SUBSET S BY <2>1, <2>2 DEF S, T
  <2>5. Good(UpTo(20, 2 * Cardinality(S)), UpTo(20, 2 * Cardinality(T))) BY <1>4, <2>4
  <2> QED BY <2>3, <2>5 DEF Good, S, T
<1>9. CASE kind = "imports"
  <2>1. losses[kind] = UpTo(15, 2 * Cardinality(evidence.imports)) /\ less[kind] = UpTo(15, 2 * Cardinality(fewer.imports))
    BY <1>9, LossesAre
  <2> DEFINE S == evidence.imports
             T == fewer.imports
  <2>2. IsFiniteSet(S) /\ T \in SUBSET S BY <1>1, <1>2
  <2> HIDE DEF S, T
  <2>3. Good(UpTo(15, 2 * Cardinality(S)), UpTo(15, 2 * Cardinality(T))) BY <1>4, <2>2
  <2> QED BY <2>1, <2>3 DEF Good, S, T
<1>10. CASE kind = "warnings"
  <2>1. losses[kind] = UpTo(20, Cardinality(Material(evidence.warnings)))
        /\ less[kind] = UpTo(20, Cardinality(Material(fewer.warnings)))
    BY <1>10, LossesAre
  <2>2. Material(evidence.warnings) \subseteq evidence.warnings /\ Material(fewer.warnings) \subseteq Material(evidence.warnings)
    BY <1>2 DEF Material
  <2>3. IsFiniteSet(Material(evidence.warnings)) BY <1>1, <2>2, FS_Subset
  <2>4. Good(UpTo(20, 1 * Cardinality(Material(evidence.warnings))), UpTo(20, 1 * Cardinality(Material(fewer.warnings))))
    BY <1>4, <2>2, <2>3
  <2>5. \A n \in Nat : 1 * n = n OBVIOUS
  <2>6. Cardinality(Material(evidence.warnings)) \in Nat /\ Cardinality(Material(fewer.warnings)) \in Nat
    BY <2>2, <2>3, Fewer
  <2> QED BY <2>1, <2>4, <2>5, <2>6 DEF Good
<1>11. CASE kind = "types"
  <2> DEFINE types == evidence.types
             unknown == {n \in DOMAIN types : types[n] \notin KnownTypes}
  <2>1. losses[kind] = TypeLoss(types) /\ less[kind] = TypeLoss(types)
    BY <1>2, <1>11, LossesAre
  <2>2. Len(types) \in Nat /\ IsFiniteSet(DOMAIN types) BY <1>1, Listed
  <2>3. unknown \subseteq DOMAIN types OBVIOUS
  <2>4. TypeLoss(types) = ShareOf(12, Cardinality(unknown), Len(types)) BY DEF TypeLoss
  <2> HIDE DEF unknown
  <2>5. Cardinality(unknown) \in Nat BY <2>2, <2>3, Fewer
  <2> DEFINE part == Cardinality(unknown)
             whole == Len(types)
             limit == 12
  <2>7. part \in Nat /\ whole \in Nat /\ limit \in Nat BY <2>2, <2>5
  <2>8. TypeLoss(types) = ShareOf(limit, part, whole) BY <2>4
  <2> HIDE DEF part, whole, limit
  <2>6. TypeLoss(types) \in Nat BY <2>7, <2>8, Shares
  <2> QED BY <1>5, <2>1, <2>6 DEF Good
<1>12. CASE kind = "forms"
  <2>1. losses[kind] = FormLoss(ToSet(evidence.types)) /\ less[kind] = FormLoss(ToSet(evidence.types))
    BY <1>2, <1>12, LossesAre
  <2>2. \A types : FormLoss(types) \in {0, 3, 4}
    <3> SUFFICES ASSUME NEW types PROVE FormLoss(types) \in {0, 3, 4} OBVIOUS
    <3>1. CASE types \cap DelphiTypes = {} BY <3>1 DEF FormLoss
    <3>2. CASE types \cap DelphiTypes # {} BY <3>2 DEF FormLoss
    <3> QED BY <3>1, <3>2
  <2>3. FormLoss(ToSet(evidence.types)) \in Nat
    <3>1. FormLoss(ToSet(evidence.types)) \in {0, 3, 4} BY <2>2
    <3> QED BY <3>1
  <2> QED BY <1>5, <2>1, <2>3 DEF Good
<1>13. CASE kind = "entry"
  <2>1. losses[kind] = EntryLoss(ToSet(evidence.types)) /\ less[kind] = EntryLoss(ToSet(evidence.types))
    BY <1>2, <1>13, LossesAre
  <2>2. EntryLoss(ToSet(evidence.types)) \in Nat BY DEF EntryLoss
  <2> QED BY <1>5, <2>1, <2>2 DEF Good
<1>14. CASE kind = "events"
  <2> DEFINE loss == UpTo(20, 4 * metrics.unresolvedEvents)
  <2>1. losses[kind] = loss /\ less[kind] = loss
    BY <1>2, <1>14, LossesAre DEF metrics
  <2>2. loss \in Nat
    <3>1. 4 * metrics.unresolvedEvents \in Nat BY <1>1
    <3> QED BY <3>1, Limits
  <2> HIDE DEF loss
  <2> QED BY <1>5, <2>1, <2>2 DEF Good
<1>15. CASE kind = "bindings"
  <2> DEFINE open == UnresolvedBindings(metrics.bindings)
  <2>1. losses[kind] = UpTo(20, 4 * Cardinality(open)) /\ less[kind] = UpTo(20, 4 * Cardinality(open))
    BY <1>2, <1>15, LossesAre DEF metrics
  <2>2. open \subseteq metrics.bindings BY DEF UnresolvedBindings
  <2> HIDE DEF open
  <2>3. IsFiniteSet(open) BY <1>1, <2>2, FS_Subset
  <2> QED BY <1>4, <2>1, <2>3 DEF Good
<1>16. CASE kind = "dynamic"
  <2> DEFINE W == WithCode(all, "SQL_DYNAMIC_STRING")
             V == WithCode(some, "SQL_DYNAMIC_STRING")
             R == Titled(evidence.risks, {"dynamic sql"})
             Q == Titled(fewer.risks, {"dynamic sql"})
  <2>1. losses[kind] = UpTo(18, 3 * (Cardinality(W) + Cardinality(R)))
        /\ less[kind] = UpTo(18, 3 * (Cardinality(V) + Cardinality(Q)))
    BY <1>16, LossesAre DEF all, some
  <2>2. W \subseteq all /\ V \subseteq W /\ R \subseteq evidence.risks /\ Q \subseteq R
    BY <1>2, <1>3 DEF WithCode, Titled
  <2> HIDE DEF W, V, R, Q
  <2>3. IsFiniteSet(W) /\ IsFiniteSet(R) BY <1>1, <1>3, <2>2, FS_Subset
  <2>4. /\ Cardinality(W) \in Nat /\ Cardinality(V) \in Nat /\ Cardinality(V) <= Cardinality(W)
        /\ Cardinality(R) \in Nat /\ Cardinality(Q) \in Nat /\ Cardinality(Q) <= Cardinality(R)
    BY <2>2, <2>3, Fewer
  <2> DEFINE m == 3 * (Cardinality(W) + Cardinality(R))
             n == 3 * (Cardinality(V) + Cardinality(Q))
  <2>5. m \in Nat /\ n \in Nat /\ n <= m BY <2>4
  <2> HIDE DEF m, n
  <2>6. Good(UpTo(18, m), UpTo(18, n)) BY <2>5, Limits DEF Good
  <2> QED BY <2>1, <2>6 DEF Good, m, n
<1>17. CASE kind \in {"paths", "handlers"}
  <2> DEFINE titles == IF kind = "paths" THEN {"hardcoded path"} ELSE SwallowingTitles
             limit == IF kind = "paths" THEN 12 ELSE 10
  <2>1. losses[kind] = UpTo(limit, 2 * Cardinality(Titled(evidence.risks, titles)))
        /\ less[kind] = UpTo(limit, 2 * Cardinality(Titled(fewer.risks, titles)))
    BY <1>17, LossesAre
  <2>2. /\ Titled(evidence.risks, titles) \subseteq evidence.risks
        /\ Titled(fewer.risks, titles) \subseteq Titled(evidence.risks, titles)
    BY <1>2 DEF Titled
  <2>3. IsFiniteSet(Titled(evidence.risks, titles)) BY <1>1, <2>2, FS_Subset
  <2>4. limit \in Nat OBVIOUS
  <2> HIDE DEF titles, limit
  <2> DEFINE S == Titled(evidence.risks, titles)
             T == Titled(fewer.risks, titles)
  <2> HIDE DEF S, T
  <2>5. IsFiniteSet(S) /\ T \in SUBSET S BY <2>2, <2>3 DEF S, T
  <2>6. Good(UpTo(limit, 2 * Cardinality(S)), UpTo(limit, 2 * Cardinality(T))) BY <1>4, <2>4, <2>5
  <2> QED BY <2>1, <2>6 DEF Good, S, T
<1>18. CASE kind = "runtime"
  <2>1. losses[kind] = UpTo(12, 3 * Cardinality(AtRuntime(all))) /\ less[kind] = UpTo(12, 3 * Cardinality(AtRuntime(some)))
    BY <1>18, LossesAre DEF all, some
  <2>2. AtRuntime(all) \subseteq all /\ AtRuntime(some) \subseteq AtRuntime(all)
    BY <1>3 DEF AtRuntime
  <2>3. IsFiniteSet(AtRuntime(all)) BY <1>3, <2>2, FS_Subset
  <2> DEFINE S == AtRuntime(all)
             T == AtRuntime(some)
  <2> HIDE DEF S, T
  <2>4. IsFiniteSet(S) /\ T \in SUBSET S BY <2>2, <2>3 DEF S, T
  <2>5. Good(UpTo(12, 3 * Cardinality(S)), UpTo(12, 3 * Cardinality(T))) BY <1>4, <2>4
  <2> QED BY <2>1, <2>5 DEF Good, S, T
<1> QED BY <1>6, <1>7, <1>8, <1>9, <1>10, <1>11, <1>12, <1>13, <1>14, <1>15, <1>16, <1>17, <1>18 DEF LossKinds

\* An empty handler has none of the titles that cost something.
LEMMA HandlersCostNothing ==
  ASSUME NEW evidence, NEW fewer, NEW risk, risk.title = "broad or empty handling",
         fewer.metrics = evidence.metrics, fewer.types = evidence.types, fewer.imports = evidence.imports,
         fewer.warnings = evidence.warnings, fewer.risks = evidence.risks \ {risk}
  PROVE  TotalLoss(Breakdown(fewer)) = TotalLoss(Breakdown(evidence))
<1>1. /\ Titled(fewer.risks, {"dynamic sql"}) = Titled(evidence.risks, {"dynamic sql"})
      /\ Titled(fewer.risks, {"hardcoded path"}) = Titled(evidence.risks, {"hardcoded path"})
      /\ Titled(fewer.risks, SwallowingTitles) = Titled(evidence.risks, SwallowingTitles)
  <2>1. ASSUME NEW titles, risk.title \notin titles
        PROVE  Titled(fewer.risks, titles) = Titled(evidence.risks, titles)
    BY <2>1 DEF Titled
  <2>2. risk.title \notin {"dynamic sql"} /\ risk.title \notin {"hardcoded path"} /\ risk.title \notin SwallowingTitles
    BY DEF SwallowingTitles
  <2> QED BY <2>1, <2>2
<1>2. AllWarnings(fewer) = AllWarnings(evidence)
  BY DEF AllWarnings
<1>3. LimitedFiles(fewer) = LimitedFiles(evidence)
  BY <1>2 DEF LimitedFiles
<1> DEFINE less == Breakdown(fewer)
           losses == Breakdown(evidence)
<1>4. less.coverage = losses.coverage /\ less.degraded = losses.degraded /\ less.limited = losses.limited
      /\ less.imports = losses.imports /\ less.warnings = losses.warnings
  <2>1. /\ losses.coverage = CoverageLoss(evidence.metrics)
        /\ losses.degraded = UpTo(20, 2 * (evidence.metrics.skipped + evidence.metrics.degraded))
        /\ losses.limited = UpTo(20, 2 * Cardinality(LimitedFiles(evidence)))
        /\ losses.imports = UpTo(15, 2 * Cardinality(evidence.imports))
        /\ losses.warnings = UpTo(20, Cardinality(Material(evidence.warnings)))
    BY LossesAre
  <2>2. /\ less.coverage = CoverageLoss(fewer.metrics)
        /\ less.degraded = UpTo(20, 2 * (fewer.metrics.skipped + fewer.metrics.degraded))
        /\ less.limited = UpTo(20, 2 * Cardinality(LimitedFiles(fewer)))
        /\ less.imports = UpTo(15, 2 * Cardinality(fewer.imports))
        /\ less.warnings = UpTo(20, Cardinality(Material(fewer.warnings)))
    BY LossesAre
  <2> HIDE DEF less, losses
  <2> QED BY <1>3, <2>1, <2>2
<1>5. less.types = losses.types /\ less.forms = losses.forms /\ less.entry = losses.entry
      /\ less.events = losses.events /\ less.bindings = losses.bindings
  <2>1. /\ losses.types = TypeLoss(evidence.types) /\ losses.forms = FormLoss(ToSet(evidence.types))
        /\ losses.entry = EntryLoss(ToSet(evidence.types))
        /\ losses.events = UpTo(20, 4 * evidence.metrics.unresolvedEvents)
        /\ losses.bindings = UpTo(20, 4 * Cardinality(UnresolvedBindings(evidence.metrics.bindings)))
    BY LossesAre
  <2>2. /\ less.types = TypeLoss(fewer.types) /\ less.forms = FormLoss(ToSet(fewer.types))
        /\ less.entry = EntryLoss(ToSet(fewer.types))
        /\ less.events = UpTo(20, 4 * fewer.metrics.unresolvedEvents)
        /\ less.bindings = UpTo(20, 4 * Cardinality(UnresolvedBindings(fewer.metrics.bindings)))
    BY LossesAre
  <2> HIDE DEF less, losses
  <2> QED BY <2>1, <2>2
<1>6. less.dynamic = losses.dynamic /\ less.paths = losses.paths /\ less.handlers = losses.handlers
      /\ less.runtime = losses.runtime
  <2>1. /\ losses.dynamic = UpTo(18, 3 * (Cardinality(WithCode(AllWarnings(evidence), "SQL_DYNAMIC_STRING"))
                                          + Cardinality(Titled(evidence.risks, {"dynamic sql"}))))
        /\ losses.paths = UpTo(12, 2 * Cardinality(Titled(evidence.risks, {"hardcoded path"})))
        /\ losses.handlers = UpTo(10, 2 * Cardinality(Titled(evidence.risks, SwallowingTitles)))
        /\ losses.runtime = UpTo(12, 3 * Cardinality(AtRuntime(AllWarnings(evidence))))
    BY LossesAre
  <2>2. /\ less.dynamic = UpTo(18, 3 * (Cardinality(WithCode(AllWarnings(fewer), "SQL_DYNAMIC_STRING"))
                                        + Cardinality(Titled(fewer.risks, {"dynamic sql"}))))
        /\ less.paths = UpTo(12, 2 * Cardinality(Titled(fewer.risks, {"hardcoded path"})))
        /\ less.handlers = UpTo(10, 2 * Cardinality(Titled(fewer.risks, SwallowingTitles)))
        /\ less.runtime = UpTo(12, 3 * Cardinality(AtRuntime(AllWarnings(fewer))))
    BY LossesAre
  <2> HIDE DEF less, losses
  <2> QED BY <1>1, <1>2, <2>1, <2>2
<1> HIDE DEF less, losses
<1>7. TotalLoss(less) = TotalLoss(losses)
  BY <1>4, <1>5, <1>6 DEF TotalLoss
<1> QED BY <1>7 DEF less, losses

\* The score is at most a hundred, warnings and risks only lower it, and a full
\* score leaves no warning to look into, no file aside and none degraded.
LEMMA ScoresAnswer ==
  ASSUME NEW evidence, IsEvidence(evidence)
  PROVE  /\ CalculateAnalysisConfidence(evidence) \in 0..100
         /\ \A fewer : IsLess(fewer, evidence) =>
              /\ CalculateAnalysisConfidence(fewer) >= CalculateAnalysisConfidence(evidence)
              /\ TotalLoss(Breakdown(fewer)) = TotalLoss(Breakdown(evidence)) =>
                   CalculateAnalysisConfidence(fewer) = CalculateAnalysisConfidence(evidence)
         /\ CalculateAnalysisConfidence(evidence) = 100 =>
              /\ Material(evidence.warnings) = {}
              /\ evidence.metrics.skipped = 0 /\ evidence.metrics.degraded = 0
<1> DEFINE Sum(losses) == FoldSet(LAMBDA kind, sum : sum + losses[kind], 0, DOMAIN losses)
<1>1. ASSUME NEW e PROVE CalculateAnalysisConfidence(e) =
        IF 100 - Sum(Breakdown(e)) < 0 THEN 0 ELSE 100 - Sum(Breakdown(e))
  BY DEF CalculateAnalysisConfidence
<1>2. IsLess(evidence, evidence) BY DEF IsLess
<1>3. \A fewer : IsLess(fewer, evidence) => DOMAIN Breakdown(fewer) = LossKinds
  BY LossesAre
<1>4. ASSUME NEW fewer, IsLess(fewer, evidence)
      PROVE  Sum(Breakdown(fewer)) = TotalLoss(Breakdown(fewer))
  <2> DEFINE losses == Breakdown(fewer)
  <2>1. DOMAIN losses = LossKinds /\ \A kind \in LossKinds : losses[kind] \in Nat
    BY <1>3, <1>4, LossesShrink
  <2> HIDE DEF losses
  <2>2. Sum(losses) = TotalLoss(losses) BY <2>1, LossesAddUp
  <2> QED BY <2>2 DEF losses
<1> HIDE DEF Sum
<1> DEFINE losses == Breakdown(evidence)
<1>5. ASSUME NEW fewer, IsLess(fewer, evidence)
      PROVE  TotalLoss(Breakdown(fewer)) \in Nat /\ TotalLoss(Breakdown(fewer)) <= TotalLoss(losses)
  <2> DEFINE less == Breakdown(fewer)
  <2>1. \A kind \in LossKinds : less[kind] \in Nat /\ losses[kind] \in Nat /\ less[kind] <= losses[kind]
    BY <1>5, LossesShrink
  <2> HIDE DEF less, losses
  <2>4. FirstLoss(less) <= FirstLoss(losses)
    <3>1. /\ less.coverage \in Nat /\ losses.coverage \in Nat /\ less.coverage <= losses.coverage
          /\ less.degraded \in Nat /\ losses.degraded \in Nat /\ less.degraded <= losses.degraded
          /\ less.limited \in Nat /\ losses.limited \in Nat /\ less.limited <= losses.limited
          /\ less.imports \in Nat /\ losses.imports \in Nat /\ less.imports <= losses.imports
          /\ less.warnings \in Nat /\ losses.warnings \in Nat /\ less.warnings <= losses.warnings
      BY <2>1 DEF LossKinds
    <3> QED BY ONLY <3>1 DEF FirstLoss
  <2>5. SecondLoss(less) <= SecondLoss(losses)
    <3>1. /\ less.types \in Nat /\ losses.types \in Nat /\ less.types <= losses.types
          /\ less.forms \in Nat /\ losses.forms \in Nat /\ less.forms <= losses.forms
          /\ less.entry \in Nat /\ losses.entry \in Nat /\ less.entry <= losses.entry
          /\ less.events \in Nat /\ losses.events \in Nat /\ less.events <= losses.events
          /\ less.bindings \in Nat /\ losses.bindings \in Nat /\ less.bindings <= losses.bindings
      BY <2>1 DEF LossKinds
    <3> QED BY ONLY <3>1 DEF SecondLoss
  <2>6. ThirdLoss(less) <= ThirdLoss(losses)
    <3>1. /\ less.dynamic \in Nat /\ losses.dynamic \in Nat /\ less.dynamic <= losses.dynamic
          /\ less.paths \in Nat /\ losses.paths \in Nat /\ less.paths <= losses.paths
          /\ less.handlers \in Nat /\ losses.handlers \in Nat /\ less.handlers <= losses.handlers
          /\ less.runtime \in Nat /\ losses.runtime \in Nat /\ less.runtime <= losses.runtime
      BY <2>1 DEF LossKinds
    <3> QED BY ONLY <3>1 DEF ThirdLoss
  <2>7. NaturalLosses(less) /\ NaturalLosses(losses) BY <2>1 DEF NaturalLosses
  <2>3. TotalLoss(less) \in Nat /\ TotalLoss(less) <= TotalLoss(losses)
    BY <2>4, <2>5, <2>6, <2>7, LossParts
  <2> QED BY <2>3 DEF less
<1>6. ASSUME TotalLoss(losses) = 0 PROVE losses.warnings = 0 /\ losses.degraded = 0
  <2>1. NaturalLosses(losses)
    BY <1>2, LossesShrink DEF NaturalLosses
  <2> HIDE DEF losses
  <2>2. FirstLoss(losses) = 0 BY <1>6, <2>1, LossParts
  <2>3. /\ losses.coverage \in Nat /\ losses.degraded \in Nat /\ losses.limited \in Nat /\ losses.imports \in Nat
        /\ losses.warnings \in Nat
    BY <2>1 DEF NaturalLosses, LossKinds
  <2>4. losses.coverage + losses.degraded + losses.limited + losses.imports + losses.warnings = 0
    BY <2>2 DEF FirstLoss
  <2> DEFINE a == losses.coverage
             b == losses.degraded
             c == losses.limited
             d == losses.imports
             e == losses.warnings
  <2>5. a \in Nat /\ b \in Nat /\ c \in Nat /\ d \in Nat /\ e \in Nat /\ a + b + c + d + e = 0
    BY ONLY <2>3, <2>4
  <2> HIDE DEF a, b, c, d, e
  <2>6. b = 0 /\ e = 0 BY ONLY <2>5
  <2> QED BY <2>6 DEF b, e
<1>7. losses.warnings = 0 => Material(evidence.warnings) = {}
  <2> DEFINE many == Cardinality(Material(evidence.warnings))
  <2>1. IsFiniteSet(Material(evidence.warnings))
    <3>1. Material(evidence.warnings) \subseteq evidence.warnings BY DEF Material
    <3> QED BY <3>1, FS_Subset DEF IsEvidence
  <2>2. many \in Nat BY <2>1, FS_CardinalityType
  <2>3. losses.warnings = UpTo(20, many) BY LossesAre
  <2> HIDE DEF many
  <2>4. losses.warnings = 0 => many = 0 BY <2>2, <2>3, Limits
  <2> QED BY <2>1, <2>4, FS_EmptySet DEF many
<1>8. losses.degraded = 0 => evidence.metrics.skipped = 0 /\ evidence.metrics.degraded = 0
  <2> DEFINE many == 2 * (evidence.metrics.skipped + evidence.metrics.degraded)
  <2>1. evidence.metrics.skipped \in Nat /\ evidence.metrics.degraded \in Nat BY DEF IsEvidence
  <2>2. many \in Nat BY <2>1
  <2>3. losses.degraded = UpTo(20, many) BY LossesAre
  <2>4. many = 0 => evidence.metrics.skipped = 0 /\ evidence.metrics.degraded = 0 BY <2>1
  <2> HIDE DEF many
  <2>5. losses.degraded = 0 => many = 0 BY <2>2, <2>3, Limits
  <2> QED BY <2>4, <2>5
<1>9. CalculateAnalysisConfidence(evidence) = IF 100 - TotalLoss(losses) < 0 THEN 0 ELSE 100 - TotalLoss(losses)
  BY <1>1, <1>2, <1>4
<1>10. TotalLoss(losses) \in Nat BY <1>2, <1>5
<1>11. ASSUME NEW fewer, IsLess(fewer, evidence)
       PROVE  /\ CalculateAnalysisConfidence(fewer) >= CalculateAnalysisConfidence(evidence)
              /\ TotalLoss(Breakdown(fewer)) = TotalLoss(losses) =>
                   CalculateAnalysisConfidence(fewer) = CalculateAnalysisConfidence(evidence)
  <2> DEFINE less == CalculateAnalysisConfidence(fewer)
             whole == CalculateAnalysisConfidence(evidence)
             m == TotalLoss(losses)
             n == TotalLoss(Breakdown(fewer))
  <2>1. less = IF 100 - n < 0 THEN 0 ELSE 100 - n BY <1>1, <1>4, <1>11
  <2>2. m \in Nat /\ n \in Nat /\ n <= m BY <1>5, <1>10, <1>11
  <2>3. whole = IF 100 - m < 0 THEN 0 ELSE 100 - m BY <1>9
  <2> HIDE DEF m, n, less, whole
  <2>4. less >= whole /\ (n = m => less = whole) BY ONLY <2>1, <2>2, <2>3
  <2> QED BY <2>4 DEF m, n, less, whole
<1> HIDE DEF losses
<1>12. CalculateAnalysisConfidence(evidence) = 100 => TotalLoss(losses) = 0
  BY <1>9, <1>10
<1>13. CalculateAnalysisConfidence(evidence) \in 0..100
  BY <1>9, <1>10
<1> QED BY <1>6, <1>7, <1>8, <1>11, <1>12, <1>13 DEF losses

(***************************************************************************)
(* What the files found so far account for: the first n files.             *)
(***************************************************************************)
Names(warnings, path) == \E warning \in Material(warnings) : warning.file = path

Accounts(so_far, files, n) ==
  /\ so_far.eligible \in Nat /\ so_far.analyzed \in Nat /\ so_far.degraded \in Nat
  /\ IsFiniteSet(so_far.references) /\ IsFiniteSet(so_far.risks) /\ IsFiniteSet(so_far.warnings)
  /\ so_far.analyzed <= n /\ (so_far.analyzed > 0 => so_far.parsed # <<>>)
  /\ \A file \in ToSet(so_far.parsed) : \E i \in 1..n : file = files[i]
  /\ \A i \in 1..n : files[i] \notin ToSet(so_far.parsed) \/ Degraded(files[i]) =>
                       Names(so_far.warnings, files[i].path)
  /\ so_far.analyzed = n => \A i \in 1..n : files[i] \in ToSet(so_far.parsed)
  /\ so_far.analyzed # n => \E i \in 1..n : files[i] \notin ToSet(so_far.parsed)
  /\ so_far.degraded = 0 /\ so_far.analyzed = n => \A i \in 1..n : ~Degraded(files[i])
  /\ so_far.degraded # 0 => \E i \in 1..n : Degraded(files[i])

LEMMA NothingAccounts ==
  ASSUME NEW files
  PROVE  Accounts(NothingFound, files, 0)
<1>1. /\ NothingFound.eligible = 0 /\ NothingFound.analyzed = 0 /\ NothingFound.degraded = 0
      /\ NothingFound.references = {} /\ NothingFound.risks = {} /\ NothingFound.warnings = {}
      /\ NothingFound.parsed = <<>>
  BY DEF NothingFound
<1>2. ToSet(<<>>) = {} BY NothingListed
<1> QED BY <1>1, <1>2, FS_EmptySet DEF Accounts

\* A file of a language that is not supported is named.
LEMMA StrangersAreNamed ==
  ASSUME NEW file, IsSource(file), ~IsLanguageSupported(file.language)
  PROVE  Names(WarningsOf(file), file.path)
<1> DEFINE it == FileWarning("LANGUAGE_UNSUPPORTED", file, "warning")
<1>1. file.language = file.ext /\ file.language \notin DelphiTags \cup {"go", "sql"}
  BY AnalyzedLanguages DEF IsSource, IsLanguageSupported
<1>2. ParserOf(file) = "unsupported"
  <2>1. file.ext \notin Forms \cup BuildMetadata /\ ~IsDelphiLike(file)
    BY <1>1 DEF DelphiTags, IsDelphiLike
  <2> QED BY <1>1, <2>1 DEF ParserOf
<1>3. WarningsOf(file) = {it} BY <1>2 DEF WarningsOf, UnsupportedWarnings
<1>4. it.level = "warning" /\ it.file = file.path BY DEF FileWarning
<1> HIDE DEF it
<1> QED BY <1>3, <1>4 DEF Names, Material

\* A file that is named stays so, and a degraded one is named.
LEMMA NamesGrow ==
  ASSUME NEW warnings, NEW more, NEW path
  PROVE  /\ Names(warnings, path) => Names(warnings \cup more, path)
         /\ Names(more, path) => Names(warnings \cup more, path)
BY DEF Names, Material

LEMMA DegradedAreNamed ==
  ASSUME NEW file, Degraded(file)
  PROVE  Names(WarningsOf(file), file.path)
BY WarningsOfFile DEF Degraded, Names, Material, AreWarningsOf

\* One more file.
LEMMA FilesKeepAccounts ==
  ASSUME NEW files, IsList(files), \A file \in ToSet(files) : IsSource(file),
         \A i, j \in DOMAIN files : files[i].path = files[j].path => i = j,
         NEW n \in Nat, n < Len(files),
         NEW so_far, FoundStands(so_far), Accounts(so_far, files, n)
  PROVE  /\ Accounts(AnalyzeFile(so_far, files[n + 1]), files, n + 1)
         /\ Accounts(SkipFile(so_far, files[n + 1]), files, n + 1)
<1> DEFINE file == files[n + 1]
           next == AnalyzeFile(so_far, file)
           skipped == SkipFile(so_far, file)
           many == n + 1
           refs == FieldReferencesOf(file, SymbolsOf(file))
           risks == RisksOfFile(file)
           skip == {FileWarning("ANALYSIS_FILE_SKIPPED", file, "warning")}
<1>1. Len(files) \in Nat /\ DOMAIN files = 1..Len(files) /\ many \in Nat /\ many \in DOMAIN files
      /\ \A i \in 1..many : i \in DOMAIN files
  BY Listed
<1>2. IsSource(file) /\ \A i \in 1..n : files[i] # file
  <2>1. file \in ToSet(files) BY <1>1, Listed
  <2>2. ASSUME NEW i \in 1..n PROVE files[i] # file
    <3>1. i \in 1..many /\ i # many BY <1>1
    <3> QED BY <1>1, <3>1
  <2> QED BY <2>1, <2>2
<1>3. IsFiniteSet(refs) /\ IsFiniteSet(risks) /\ IsFiniteSet(WarningsOf(file)) /\ IsFiniteSet(skip)
  <2>1. IsList(file.lines) /\ (ParserOf(file) \in {"delphi", "go", "sql"} => TextLines(file))
    BY <1>2 DEF IsSource, TextLines
  <2>2. IsFiniteSet(FieldReferencesOf(file, SymbolsOf(file))) BY <2>1, FiniteReferences
  <2>3. IsFiniteSet(RisksOfFile(file)) BY <2>1, FiniteRisks
  <2>4. IsFiniteSet(WarningsOf(file)) BY WarningsOfFile DEF AreWarningsOf
  <2> QED BY <2>2, <2>3, <2>4, FS_EmptySet, FS_Singleton
<1>4. Names(skip, file.path)
  <2> DEFINE it == FileWarning("ANALYSIS_FILE_SKIPPED", file, "warning")
  <2>1. it.level = "warning" /\ it.file = file.path BY DEF FileWarning
  <2> HIDE DEF it
  <2>2. Names({it}, file.path) BY <2>1 DEF Names, Material
  <2> QED BY <2>2 DEF it
<1>5. \A i \in 1..many : i \in 1..n \/ i = many
  BY <1>1
<1>6. /\ so_far.eligible \in Nat /\ so_far.analyzed \in Nat /\ so_far.degraded \in Nat
      /\ IsFiniteSet(so_far.references) /\ IsFiniteSet(so_far.risks) /\ IsFiniteSet(so_far.warnings)
      /\ so_far.analyzed <= n /\ (so_far.analyzed > 0 => so_far.parsed # <<>>)
  BY DEF Accounts
<1>7. /\ \A f \in ToSet(so_far.parsed) : \E i \in 1..n : f = files[i]
      /\ \A i \in 1..n : files[i] \notin ToSet(so_far.parsed) \/ Degraded(files[i]) =>
                           Names(so_far.warnings, files[i].path)
      /\ so_far.analyzed = n => \A i \in 1..n : files[i] \in ToSet(so_far.parsed)
      /\ so_far.analyzed # n => \E i \in 1..n : files[i] \notin ToSet(so_far.parsed)
      /\ so_far.degraded = 0 /\ so_far.analyzed = n => \A i \in 1..n : ~Degraded(files[i])
      /\ so_far.degraded # 0 => \E i \in 1..n : Degraded(files[i])
  BY DEF Accounts
<1>8. \A i \in 1..n : i \in 1..many BY <1>1
<1>9. file \notin ToSet(so_far.parsed) BY <1>2, <1>7
<1>10. many \in 1..many /\ file = files[many] BY <1>1
<1>11. IsList(so_far.parsed) /\ DOMAIN so_far = DOMAIN NothingFound BY DEF FoundStands
<1>12. /\ next.eligible = so_far.eligible + Count(IsLanguageSupported(file.language))
       /\ next.analyzed = so_far.analyzed + Count(IsLanguageSupported(file.language))
       /\ next.degraded = so_far.degraded + Count(Degraded(file))
       /\ next.references = so_far.references \cup refs /\ next.risks = so_far.risks \cup risks
       /\ next.warnings = so_far.warnings \cup WarningsOf(file)
       /\ next.parsed = IF IsLanguageSupported(file.language) THEN Append(so_far.parsed, file) ELSE so_far.parsed
  BY DEF AnalyzeFile, Degraded
<1>13. /\ skipped.eligible = so_far.eligible + Count(IsLanguageSupported(file.language))
       /\ skipped.analyzed = so_far.analyzed /\ skipped.degraded = so_far.degraded
       /\ skipped.references = so_far.references /\ skipped.risks = so_far.risks
       /\ skipped.warnings = so_far.warnings \cup skip
       /\ skipped.parsed = so_far.parsed
  BY <1>11 DEF SkipFile, NothingFound
<1>14. ToSet(Append(so_far.parsed, file)) = ToSet(so_far.parsed) \cup {file} /\ Append(so_far.parsed, file) # <<>>
  <2> DEFINE longer == Append(so_far.parsed, file)
  <2>1. ToSet(longer) = ToSet(so_far.parsed) \cup {file} BY <1>11, Longer
  <2>2. longer = <<>> => ToSet(longer) = {}
    <3> HIDE DEF longer
    <3> QED BY NothingListed
  <2> QED BY <2>1, <2>2
<1>15. IsLanguageSupported(file.language) \/ Names(WarningsOf(file), file.path)
  BY <1>2, StrangersAreNamed
<1>16. Degraded(file) => Names(WarningsOf(file), file.path)
  BY DegradedAreNamed
<1>17. \A i \in 1..many : files[i] \notin ToSet(so_far.parsed) \/ Degraded(files[i]) =>
         i = many \/ Names(so_far.warnings, files[i].path)
  BY <1>5, <1>7
<1> HIDE DEF file, next, skipped, refs, risks, skip
<1>18. Accounts(skipped, files, many)
  <2>1. skipped.eligible \in Nat BY <1>6, <1>13 DEF Count
  <2>2. skipped.analyzed <= many /\ skipped.analyzed # many BY <1>1, <1>6, <1>13
  <2>3. \A f \in ToSet(skipped.parsed) : \E i \in 1..many : f = files[i] BY <1>7, <1>8, <1>13
  <2>4. \A i \in 1..many : files[i] \notin ToSet(skipped.parsed) \/ Degraded(files[i]) =>
          Names(skipped.warnings, files[i].path)
    BY <1>4, <1>10, <1>13, <1>17, NamesGrow
  <2>5. \E i \in 1..many : files[i] \notin ToSet(skipped.parsed) BY <1>9, <1>10, <1>13
  <2>6. skipped.degraded # 0 => \E i \in 1..many : Degraded(files[i]) BY <1>7, <1>8, <1>13
  <2>7. IsFiniteSet(skipped.warnings)
    <3>1. IsFiniteSet(so_far.warnings) /\ IsFiniteSet(skip) BY <1>3, <1>6
    <3>2. IsFiniteSet(so_far.warnings \cup skip) BY <3>1, FS_Union, Zenon
    <3> QED BY <1>13, <3>2
  <2> HIDE DEF many
  <2> QED BY <1>6, <1>13, <2>1, <2>2, <2>3, <2>4, <2>5, <2>6, <2>7 DEF Accounts
<1>19. Accounts(next, files, many)
  <2>1. next.eligible \in Nat /\ next.analyzed \in Nat /\ next.degraded \in Nat /\ next.analyzed <= many
    BY <1>6, <1>12 DEF Count
  <2>2. IsFiniteSet(next.references) /\ IsFiniteSet(next.risks) /\ IsFiniteSet(next.warnings)
    <3>1. IsFiniteSet(so_far.references \cup refs) BY <1>3, <1>6, FS_Union
    <3>2. IsFiniteSet(so_far.risks \cup risks) BY <1>3, <1>6, FS_Union
    <3>3. IsFiniteSet(so_far.warnings \cup WarningsOf(file)) BY <1>3, <1>6, FS_Union
    <3> QED BY <1>12, <3>1, <3>2, <3>3
  <2>3. next.analyzed > 0 => next.parsed # <<>>
    BY <1>6, <1>12, <1>14 DEF Count
  <2>4. next.degraded # 0 => so_far.degraded # 0 \/ Degraded(file)
    BY <1>6, <1>12 DEF Count
  <2>5. next.degraded = 0 => so_far.degraded = 0 /\ ~Degraded(file)
    BY <1>6, <1>12 DEF Count
  <2>6. next.analyzed = many => so_far.analyzed = n /\ IsLanguageSupported(file.language)
    BY <1>1, <1>6, <1>12 DEF Count
  <2>7. next.analyzed # many => so_far.analyzed # n \/ ~IsLanguageSupported(file.language)
    BY <1>1, <1>6, <1>12 DEF Count
  <2>8. ToSet(next.parsed) = IF IsLanguageSupported(file.language) THEN ToSet(so_far.parsed) \cup {file}
                             ELSE ToSet(so_far.parsed)
    BY <1>12, <1>14
  <2>9. \A f \in ToSet(next.parsed) : \E i \in 1..many : f = files[i]
    BY <1>7, <1>8, <1>10, <2>8
  <2>10. \A i \in 1..many : files[i] \notin ToSet(next.parsed) \/ Degraded(files[i]) =>
           Names(next.warnings, files[i].path)
    BY <1>10, <1>12, <1>15, <1>16, <1>17, <2>8, NamesGrow
  <2>11. next.analyzed = many => \A i \in 1..many : files[i] \in ToSet(next.parsed)
    BY <1>5, <1>7, <1>10, <2>6, <2>8
  <2>12. next.analyzed # many => \E i \in 1..many : files[i] \notin ToSet(next.parsed)
    BY <1>2, <1>7, <1>8, <1>9, <1>10, <2>7, <2>8 DEF file
  <2>13. next.degraded = 0 /\ next.analyzed = many => \A i \in 1..many : ~Degraded(files[i])
    BY <1>5, <1>7, <1>10, <2>5, <2>6
  <2>14. next.degraded # 0 => \E i \in 1..many : Degraded(files[i])
    BY <1>7, <1>8, <1>10, <2>4
  <2> HIDE DEF many
  <2> QED BY <2>1, <2>2, <2>3, <2>9, <2>10, <2>11, <2>12, <2>13, <2>14 DEF Accounts
<1> QED BY <1>18, <1>19 DEF file, next, skipped

(***************************************************************************)
(* The result.                                                             *)
(***************************************************************************)
ResultFields == {"status", "warnings", "metrics", "risks", "rules", "score", "flow", "data", "sections",
                 "confidence", "cut"}

\* What stays of a result once the files were summed up, whatever is added to it.
ResultStands(analysis, so_far, files) ==
  /\ DOMAIN analysis = ResultFields
  /\ analysis.metrics.analyzed = so_far.analyzed /\ analysis.metrics.skipped = Len(files) - so_far.analyzed
  /\ analysis.metrics.degraded = so_far.degraded /\ analysis.metrics.eligible \in Nat
  /\ analysis.metrics.unresolvedEvents \in Nat /\ IsFiniteSet(analysis.metrics.bindings)
  /\ IsFiniteSet(analysis.warnings) /\ so_far.warnings \subseteq analysis.warnings
  /\ analysis.risks = so_far.risks \cup DetectMultipleWrites(so_far.references) /\ IsFiniteSet(analysis.risks)
  /\ analysis.rules = BuildRules(so_far.references, analysis.risks)
  /\ analysis.sections = RisksDocument(analysis.risks)
  /\ analysis.status # "failed" =>
       /\ so_far.analyzed > 0
       /\ (analysis.status = "partial") <=> (analysis.metrics.skipped > 0 \/ analysis.metrics.degraded > 0)
       /\ (analysis.status = "completed") <=> Material(analysis.warnings) = {}

\* A result with more warnings.
IsGrown(grown, analysis, additions) ==
  /\ DOMAIN grown = ResultFields /\ grown.metrics = analysis.metrics /\ grown.risks = analysis.risks
  /\ grown.rules = analysis.rules /\ grown.sections = analysis.sections
  /\ grown.warnings = analysis.warnings \cup additions
  /\ grown.status = IF additions = {} THEN analysis.status ELSE StatusWithMoreWarnings(analysis.status)

\* More warnings, among them one to look into, leave the result sound.
LEMMA GrownStand ==
  ASSUME NEW analysis, NEW so_far, NEW files, ResultStands(analysis, so_far, files),
         NEW additions, IsFiniteSet(additions), additions # {} => Material(additions) # {},
         NEW grown, IsGrown(grown, analysis, additions)
  PROVE  ResultStands(grown, so_far, files)
<1>1. IsFiniteSet(grown.warnings) /\ so_far.warnings \subseteq grown.warnings
  <2>1. IsFiniteSet(analysis.warnings \cup additions) BY FS_Union DEF ResultStands
  <2> QED BY <2>1 DEF IsGrown, ResultStands
<1>2. CASE additions = {}
  <2>1. grown.warnings = analysis.warnings BY <1>2 DEF IsGrown
  <2>2. grown.status = analysis.status BY <1>2 DEF IsGrown
  <2>3. /\ DOMAIN grown = ResultFields /\ grown.metrics = analysis.metrics /\ grown.risks = analysis.risks
        /\ grown.rules = analysis.rules /\ grown.sections = analysis.sections
    BY DEF IsGrown
  <2> QED BY <1>1, <2>1, <2>2, <2>3 DEF ResultStands
<1>3. CASE additions # {}
  <2>1. Material(grown.warnings) # {} BY <1>3 DEF IsGrown, Material
  <2>2. grown.status = IF analysis.status = "completed" THEN "completed_with_warnings" ELSE analysis.status
    BY <1>3 DEF IsGrown, StatusWithMoreWarnings
  <2>3. grown.status # "completed" /\ (grown.status = "failed" <=> analysis.status = "failed")
        /\ (grown.status = "partial" <=> analysis.status = "partial")
    BY <2>2
  <2> QED BY <1>1, <2>1, <2>3 DEF IsGrown, ResultStands
<1> QED BY <1>2, <1>3

\* Counting again changes the score alone.
LEMMA Rescored ==
  ASSUME NEW analysis, DOMAIN analysis = ResultFields, NEW imports
  PROVE  LET again == RecalculateAnalysisResultConfidence(analysis, imports)
         IN  /\ IsGrown(again, analysis, {}) /\ again.cut = analysis.cut
             /\ again.confidence = CalculateAnalysisConfidence(EvidenceOf(again, imports))
<1> DEFINE score == CalculateAnalysisConfidence(EvidenceOf(analysis, imports))
           again == [analysis EXCEPT !.confidence = score]
<1>1. RecalculateAnalysisResultConfidence(analysis, imports) = again
  BY DEF RecalculateAnalysisResultConfidence
<1> HIDE DEF score
<1>2. /\ DOMAIN again = ResultFields /\ again.confidence = score
      /\ again.metrics = analysis.metrics /\ again.risks = analysis.risks /\ again.rules = analysis.rules
      /\ again.sections = analysis.sections /\ again.warnings = analysis.warnings
      /\ again.status = analysis.status /\ again.cut = analysis.cut
  BY DEF ResultFields
<1> HIDE DEF again
<1>3. EvidenceOf(again, imports) = EvidenceOf(analysis, imports)
  BY <1>2 DEF EvidenceOf
<1>4. IsGrown(again, analysis, {}) BY <1>2 DEF IsGrown
<1> QED BY <1>1, <1>2, <1>3, <1>4 DEF score

\* Each addition is of that kind.
LEMMA ImportsAdded ==
  ASSUME NEW analysis, DOMAIN analysis = ResultFields, NEW additions, NEW imports
  PROVE  LET grown == ApplyAdditionalAnalysisWarnings(analysis, additions, imports)
         IN  IsGrown(grown, analysis, additions) /\ grown.cut = analysis.cut
<1>1. CASE additions = {}
  BY <1>1 DEF ApplyAdditionalAnalysisWarnings, IsGrown
<1>2. CASE additions # {}
  <2> DEFINE more == [analysis EXCEPT !.warnings = @ \cup additions, !.status = StatusWithMoreWarnings(@)]
             again == RecalculateAnalysisResultConfidence(more, imports)
  <2>1. ApplyAdditionalAnalysisWarnings(analysis, additions, imports) = again
    BY <1>2 DEF ApplyAdditionalAnalysisWarnings
  <2>2. /\ DOMAIN more = ResultFields
        /\ more.metrics = analysis.metrics /\ more.risks = analysis.risks /\ more.rules = analysis.rules
        /\ more.sections = analysis.sections /\ more.warnings = analysis.warnings \cup additions
        /\ more.status = StatusWithMoreWarnings(analysis.status) /\ more.cut = analysis.cut
    BY DEF ResultFields
  <2> HIDE DEF more
  <2>3. IsGrown(again, more, {}) /\ again.cut = more.cut BY <2>2, Rescored
  <2> HIDE DEF again
  <2> QED BY <1>2, <2>1, <2>2, <2>3 DEF IsGrown
<1> QED BY <1>1, <1>2

CutNotes(long) == {CutWarning(document) : document \in long}

LEMMA DocumentsCut ==
  ASSUME NEW analysis, DOMAIN analysis = ResultFields, NEW long, NEW imports
  PROVE  LET grown == MakePersistable(analysis, long, imports)
             notes == CutNotes(long)
         IN  /\ IsGrown(grown, analysis, notes)
             /\ grown.cut = IF long = {} THEN analysis.cut ELSE long
<1> DEFINE notes == CutNotes(long)
<1>1. CASE long = {}
  <2>1. notes = {} BY <1>1 DEF CutNotes
  <2>2. MakePersistable(analysis, long, imports) = analysis BY <1>1 DEF MakePersistable
  <2> QED BY <1>1, <2>1, <2>2 DEF IsGrown
<1>2. CASE long # {}
  <2> DEFINE more == [analysis EXCEPT !.cut = long, !.warnings = @ \cup notes, !.status = StatusWithMoreWarnings(@)]
             again == RecalculateAnalysisResultConfidence(more, imports)
  <2>1. MakePersistable(analysis, long, imports) = again
    BY <1>2 DEF MakePersistable, CutNotes
  <2>2. notes # {} BY <1>2 DEF CutNotes
  <2> HIDE DEF notes
  <2>3. /\ DOMAIN more = ResultFields
        /\ more.metrics = analysis.metrics /\ more.risks = analysis.risks /\ more.rules = analysis.rules
        /\ more.sections = analysis.sections /\ more.warnings = analysis.warnings \cup notes
        /\ more.status = StatusWithMoreWarnings(analysis.status) /\ more.cut = long
    BY DEF ResultFields
  <2> HIDE DEF more
  <2>4. IsGrown(again, more, {}) /\ again.cut = more.cut BY <2>3, Rescored
  <2> HIDE DEF again
  <2>5. IsGrown(again, analysis, notes) /\ again.cut = long BY <2>2, <2>3, <2>4 DEF IsGrown
  <2> QED BY <1>2, <2>1, <2>5 DEF notes
<1> QED BY <1>1, <1>2

\* As many warnings of a cut document as documents cut.
LEMMA CutsAreNamed ==
  ASSUME NEW long, IsFiniteSet(long)
  PROVE  LET notes == CutNotes(long)
         IN  /\ IsFiniteSet(notes) /\ (long # {} => Material(notes) # {})
             /\ \A warning \in notes : warning.code = "ANALYSIS_DOCUMENT_TRUNCATED"
             /\ Cardinality(long) = Cardinality(notes)
<1> DEFINE f == [document \in long |-> CutWarning(document)]
           notes == {CutWarning(document) : document \in long}
<1>1. notes = {f[document] : document \in long} OBVIOUS
<1>2. \A document : /\ CutWarning(document).code = "ANALYSIS_DOCUMENT_TRUNCATED"
                    /\ CutWarning(document).level = "warning"
                    /\ CutWarning(document).about.component = document
  BY DEF CutWarning, AboutFile
<1>3. Material(notes) = notes BY <1>2 DEF Material
<1>4. f \in Bijection(long, notes)
  <2>1. f \in [long -> notes] OBVIOUS
  <2>2. \A a, b \in long : f[a] = f[b] => a = b BY <1>2
  <2>3. \A note \in notes : \E document \in long : f[document] = note OBVIOUS
  <2> HIDE DEF f, notes
  <2> QED BY <2>1, <2>2, <2>3 DEF Bijection, Injection, Surjection, IsInjective
<1>5. IsFiniteSet(notes) /\ Cardinality(long) = Cardinality(notes)
  <2> HIDE DEF f, notes
  <2>1. ExistsBijection(long, notes) BY <1>4 DEF ExistsBijection
  <2> QED BY <2>1, FS_Bijection
<1> QED BY <1>2, <1>3, <1>5 DEF CutNotes

\* The warnings of the import are all there is to add then.
LEMMA ImportsAreNamed ==
  ASSUME NEW in \in Inputs, in.files # <<>>
  PROVE  LET additions == BuildImportWarningSummaryWarnings(in.imports)
         IN  /\ IsFiniteSet(in.imports) /\ IsFiniteSet(additions) /\ in.imports \subseteq additions
             /\ additions # {} => Material(additions) # {}
<1>1. IsFiniteSet(in.imports) /\ \A warning \in in.imports : warning.level # "note" BY AnalyzedInputs
<1>2. CASE in.imports = {}
  BY <1>1, <1>2, FS_EmptySet DEF BuildImportWarningSummaryWarnings
<1>3. CASE in.imports # {}
  <2>1. BuildImportWarningSummaryWarnings(in.imports) = {InputSummary} \cup in.imports
    BY <1>3 DEF BuildImportWarningSummaryWarnings
  <2>2. IsFiniteSet({InputSummary} \cup in.imports) BY <1>1, FS_Singleton, FS_Union
  <2>3. Material({InputSummary} \cup in.imports) # {} BY <1>1, <1>3 DEF Material
  <2> QED BY <1>1, <2>1, <2>2, <2>3
<1> QED BY <1>2, <1>3

\* What a form gives is finite, and so is what its project makes of it.
LEMMA FormsAreFinite ==
  ASSUME NEW files, IsList(files), \A file \in ToSet(files) : IsSource(file), NEW symbols,
         NEW forms \in SUBSET FormsOf(files)
  PROVE  /\ IsFiniteSet(FormsOf(files)) /\ IsFiniteSet(BindingsOfProject(forms))
         /\ IsFiniteSet(ResolveDelphiEventMap(files, forms, symbols))
         /\ IsFiniteSet(UNION {FormWarnings(form) : form \in forms})
<1> DEFINE binds == [file \in forms |-> DataBindings(file)]
           fired == [file \in forms |-> EventBindings(file)]
           warns == [file \in forms |-> FormWarnings(file)]
<1>1. IsFiniteSet(FormsOf(files)) /\ IsFiniteSet(forms)
  <2>1. FormsOf(files) \subseteq ToSet(files) BY DEF FormsOf
  <2>2. IsFiniteSet(FormsOf(files)) BY <2>1, Listed, FS_Subset
  <2> QED BY <2>2, FS_Subset
<1>2. \A file \in forms : IsList(file.lines)
  BY DEF FormsOf, IsSource
<1>3. /\ BindingsOfProject(forms) = UNION {binds[file] : file \in forms}
      /\ EventsOfProject(forms) = UNION {fired[file] : file \in forms}
      /\ UNION {FormWarnings(form) : form \in forms} = UNION {warns[file] : file \in forms}
  BY DEF BindingsOfProject, EventsOfProject
<1>4. \A file \in forms : IsFiniteSet(binds[file]) /\ IsFiniteSet(fired[file]) /\ IsFiniteSet(warns[file])
  <2> SUFFICES ASSUME NEW file \in forms
               PROVE  IsFiniteSet(binds[file]) /\ IsFiniteSet(fired[file]) /\ IsFiniteSet(warns[file])
    OBVIOUS
  <2>1. IsFiniteSet(DataBindings(file)) /\ IsFiniteSet(EventBindings(file)) BY <1>2, FiniteForms
  <2>2. IsFiniteSet(FormWarnings(file)) BY WarningsOfFile DEF AreWarningsOf
  <2> QED BY <2>1, <2>2
<1> HIDE DEF binds, fired, warns
<1>5. IsFiniteSet(BindingsOfProject(forms)) /\ IsFiniteSet(EventsOfProject(forms))
      /\ IsFiniteSet(UNION {FormWarnings(form) : form \in forms})
  <2>1. IsFiniteSet(UNION {binds[file] : file \in forms}) BY <1>1, <1>4, FiniteUnion
  <2>2. IsFiniteSet(UNION {fired[file] : file \in forms}) BY <1>1, <1>4, FiniteUnion
  <2>3. IsFiniteSet(UNION {warns[file] : file \in forms}) BY <1>1, <1>4, FiniteUnion
  <2> QED BY ONLY <1>3, <2>1, <2>2, <2>3
<1>6. IsFiniteSet(ResolveDelphiEventMap(files, forms, symbols))
  <2> DEFINE pascal == {file.path : file \in {f \in ToSet(files) : f.ext \in {"pas", "dpr", "inc", "dpk"}}}
             events == EventsOfProject(forms)
             g == [event \in events |-> MapEntry(event, ToSet(symbols), pascal)]
  <2>1. ResolveDelphiEventMap(files, forms, symbols) = {g[event] : event \in events}
    BY DEF ResolveDelphiEventMap
  <2> HIDE DEF g, events
  <2>2. IsFiniteSet(events) BY <1>5 DEF events
  <2> QED BY <2>1, <2>2, FiniteImage
<1> QED BY <1>1, <1>5, <1>6

\* The warnings of the whole are finite, and so are its multiple writes.
LEMMA WarningsAreFinite ==
  ASSUME NEW files, IsList(files), \A file \in ToSet(files) : IsSource(file),
         NEW so_far, IsFiniteSet(so_far.warnings), NEW symbols,
         NEW forms \in SUBSET FormsOf(files), NEW limited \in SUBSET FormsOf(files)
  PROVE  LET events == ResolveDelphiEventMap(files, forms, symbols)
         IN  /\ IsFiniteSet(CombinedWarnings(forms, limited, so_far, events, BindingsOfProject(forms)))
             /\ Cardinality(Unresolved(events)) \in Nat
<1> DEFINE events == ResolveDelphiEventMap(files, forms, symbols)
           bindings == BindingsOfProject(forms)
           read_again == UNION {FormWarnings(form) : form \in forms}
           failing == {FileWarning("DFM_LIMITED_ANALYSIS", form, "warning") : form \in limited}
<1>1. IsFiniteSet(events) /\ IsFiniteSet(bindings) /\ IsFiniteSet(read_again) /\ IsFiniteSet(FormsOf(files))
  BY FormsAreFinite
<1>8. IsFiniteSet(failing)
  <2> DEFINE g == [form \in limited |-> FileWarning("DFM_LIMITED_ANALYSIS", form, "warning")]
  <2>1. failing = {g[form] : form \in limited} OBVIOUS
  <2>2. IsFiniteSet(limited) BY <1>1, FS_Subset
  <2> HIDE DEF g, failing
  <2> QED BY <2>1, <2>2, FiniteImage
<1> HIDE DEF events, bindings, read_again, failing
<1>2. IsFiniteSet(Unresolved(events)) BY <1>1, FS_Subset DEF Unresolved
<1>3. IsFiniteSet(EventWarningsOf(events))
  <2> DEFINE g == [entry \in Unresolved(events) |->
                     AboutFile("DELPHI_EVENT_HANDLER_UNRESOLVED", entry.event.file, "warning",
                       [component |-> entry.event.component, warnings |-> {entry.event.name, entry.event.handler}])]
  <2>1. EventWarningsOf(events) = {g[entry] : entry \in Unresolved(events)} BY DEF EventWarningsOf
  <2> HIDE DEF g
  <2> QED BY <1>2, <2>1, FiniteImage
<1>4. IsFiniteSet(BindingWarningsOf(bindings))
  <2> DEFINE weak == {b \in bindings : b.confidence # "high"}
             g == [binding \in weak |->
                     AboutFile("DELPHI_DATA_BINDING_UNRESOLVED", binding.file, "warning",
                       [component |-> binding.component, warnings |-> binding.warnings])]
  <2>1. BindingWarningsOf(bindings) = {g[binding] : binding \in weak} BY DEF BindingWarningsOf
  <2>2. IsFiniteSet(weak) BY <1>1, FS_Subset
  <2> HIDE DEF g, weak
  <2> QED BY <2>1, <2>2, FiniteImage
<1>5. CombinedWarnings(forms, limited, so_far, events, bindings)
        = so_far.warnings \cup read_again \cup failing \cup EventWarningsOf(events) \cup BindingWarningsOf(bindings)
            \cup {HeuristicNote}
  BY DEF CombinedWarnings, read_again, failing
<1>6. IsFiniteSet(CombinedWarnings(forms, limited, so_far, events, bindings))
  <2> DEFINE a == so_far.warnings \cup read_again \cup failing
             b == a \cup EventWarningsOf(events)
             c == b \cup BindingWarningsOf(bindings)
  <2>1. IsFiniteSet(a) BY <1>1, <1>8, FS_Union
  <2> HIDE DEF a
  <2>2. IsFiniteSet(b) BY <1>3, <2>1, FS_Union
  <2> HIDE DEF b
  <2>3. IsFiniteSet(c) BY <1>4, <2>2, FS_Union
  <2> HIDE DEF c
  <2>4. IsFiniteSet(c \cup {HeuristicNote}) BY <2>3, FS_Singleton, FS_Union
  <2> QED BY <1>5, <2>4 DEF a, b, c
<1>7. Cardinality(Unresolved(events)) \in Nat BY <1>2, FS_CardinalityType
<1> QED BY <1>6, <1>7 DEF events, bindings

LEMMA FiniteWrites ==
  ASSUME NEW references, IsFiniteSet(references)
  PROVE  IsFiniteSet(DetectMultipleWrites(references))
<1> DEFINE RiskOf(key) ==
             [title |-> "multiple writes", severity |-> IF Cardinality(WritesTo(references, key)) >= 3 THEN "high" ELSE "medium",
              category |-> "multiple_writes", file |-> FirstWrite(references, key).file,
              line |-> FirstWrite(references, key).line, about |-> key]
           keys == {FieldKey(reference) : reference \in Writes(references)}
           written == WrittenTwice(references)
           g == [key \in written |-> RiskOf(key)]
           h == [reference \in Writes(references) |-> FieldKey(reference)]
<1>1. DetectMultipleWrites(references) = {g[key] : key \in written} BY DEF DetectMultipleWrites
<1>2. keys = {h[reference] : reference \in Writes(references)} OBVIOUS
<1>3. written \subseteq keys BY DEF WrittenTwice
<1> HIDE DEF g, h, keys, written
<1>4. IsFiniteSet(Writes(references)) BY FS_Subset DEF Writes
<1>5. IsFiniteSet(keys) BY <1>2, <1>4, FiniteImage
<1>6. IsFiniteSet(written) BY <1>3, <1>5, FS_Subset
<1> QED BY <1>1, <1>6, FiniteImage

\* The sum of all files accounts for each of them.
LEMMA SumsStand ==
  ASSUME NEW files, IsList(files), \A file \in ToSet(files) : IsSource(file),
         NEW so_far, Accounts(so_far, files, Len(files)), NEW limited \in SUBSET FormsOf(files)
  PROVE  ResultStands(SumUp(files, limited, so_far), so_far, files) /\ SumUp(files, limited, so_far).cut = {}
<1> DEFINE forms == FormsOf(files) \ limited
           events == ResolveDelphiEventMap(files, forms, so_far.symbols)
           bindings == BindingsOfProject(forms)
           warnings == CombinedWarnings(forms, limited, so_far, events, bindings)
           metrics == MetricsOf(files, so_far, events, bindings)
           risks == so_far.risks \cup DetectMultipleWrites(so_far.references)
           status == StatusOf(metrics, warnings)
           whole == [status |-> status, warnings |-> warnings, metrics |-> metrics, risks |-> risks,
                     rules |-> BuildRules(so_far.references, risks), score |-> CalculateRiskScore(risks),
                     flow |-> FlowDocument(so_far.symbols, so_far.dependencies),
                     data |-> DataDependencyDocument(so_far.references), sections |-> RisksDocument(risks),
                     confidence |-> 0, cut |-> {}]
<1>1. SumUp(files, limited, so_far) = RecalculateAnalysisResultConfidence(whole, {})
  BY DEF SumUp
<1>2. /\ so_far.eligible \in Nat /\ so_far.analyzed \in Nat /\ so_far.degraded \in Nat
      /\ IsFiniteSet(so_far.references) /\ IsFiniteSet(so_far.risks) /\ IsFiniteSet(so_far.warnings)
      /\ so_far.analyzed <= Len(files)
  BY DEF Accounts
<1>3. IsFiniteSet(bindings) BY FormsAreFinite
<1>4. IsFiniteSet(warnings) /\ Cardinality(Unresolved(events)) \in Nat BY <1>2, WarningsAreFinite
<1>5. so_far.warnings \subseteq warnings BY DEF CombinedWarnings
<1>6. IsFiniteSet(risks)
  <2>1. IsFiniteSet(DetectMultipleWrites(so_far.references)) BY <1>2, FiniteWrites
  <2> QED BY <1>2, <2>1, FS_Union
<1> HIDE DEF bindings, warnings, events
<1>7. /\ metrics.eligible = so_far.eligible /\ metrics.analyzed = so_far.analyzed
      /\ metrics.skipped = Len(files) - so_far.analyzed /\ metrics.degraded = so_far.degraded
      /\ metrics.unresolvedEvents = Cardinality(Unresolved(events)) /\ metrics.bindings = bindings
  BY DEF MetricsOf
<1> HIDE DEF metrics, risks
<1>8. Len(files) \in Nat BY Listed
<1>9. metrics.skipped > 0 \/ metrics.degraded > 0 => Material(warnings) # {}
  <2>1. metrics.skipped > 0 => so_far.analyzed # Len(files) BY <1>2, <1>7, <1>8
  <2>2. metrics.degraded > 0 => so_far.degraded # 0 BY <1>2, <1>7
  <2>3. metrics.skipped > 0 \/ metrics.degraded > 0 =>
          \E i \in 1..Len(files) : files[i] \notin ToSet(so_far.parsed) \/ Degraded(files[i])
    BY <2>1, <2>2 DEF Accounts
  <2>4. metrics.skipped > 0 \/ metrics.degraded > 0 => \E path : Names(so_far.warnings, path)
    BY <2>3 DEF Accounts
  <2> QED BY <1>5, <2>4 DEF Names, Material
<1>10. status # "failed" =>
         /\ so_far.analyzed > 0
         /\ (status = "partial") <=> (metrics.skipped > 0 \/ metrics.degraded > 0)
         /\ (status = "completed") <=> Material(warnings) = {}
  <2> DEFINE none == metrics.eligible = 0 \/ metrics.analyzed = 0
             part == metrics.skipped > 0 \/ metrics.degraded > 0
  <2>1. CASE none
    <3>1. ~(metrics.eligible > 0 /\ metrics.analyzed > 0 /\ part) BY <1>2, <1>7, <2>1
    <3>2. status = "failed" BY <2>1, <3>1 DEF StatusOf
    <3> QED BY <3>2
  <2>2. CASE ~none /\ part
    <3>1. metrics.eligible > 0 /\ metrics.analyzed > 0 BY <1>2, <1>7, <2>2
    <3>2. status = "partial" BY <2>2, <3>1 DEF StatusOf
    <3> QED BY <1>7, <1>9, <2>2, <3>1, <3>2
  <2>3. CASE ~none /\ ~part
    <3>1. metrics.eligible > 0 /\ metrics.analyzed > 0 BY <1>2, <1>7, <2>3
    <3>2. status = IF Material(warnings) # {} THEN "completed_with_warnings" ELSE "completed"
      BY <2>3, <3>1 DEF StatusOf
    <3> QED BY <1>7, <2>3, <3>1, <3>2
  <2> QED BY <2>1, <2>2, <2>3
<1>11. /\ DOMAIN whole = ResultFields /\ whole.metrics = metrics /\ whole.risks = risks
       /\ whole.rules = BuildRules(so_far.references, risks) /\ whole.sections = RisksDocument(risks)
       /\ whole.warnings = warnings /\ whole.status = status /\ whole.cut = {}
  BY DEF ResultFields
<1> HIDE DEF whole, status
<1>12. ResultStands(whole, so_far, files)
  BY <1>2, <1>3, <1>4, <1>5, <1>6, <1>7, <1>10, <1>11 DEF ResultStands, risks
<1>13. IsGrown(SumUp(files, limited, so_far), whole, {}) /\ SumUp(files, limited, so_far).cut = {}
  BY <1>1, <1>11, Rescored
<1> QED BY <1>12, <1>13, GrownStand, FS_EmptySet

\* What the files found and the result owe each other.
SumInv ==
  /\ RowsInv
  /\ phase = "files" => read <= Len(input.files) /\ Accounts(found, input.files, read)
  /\ phase \notin {"idle", "files"} => Accounts(found, input.files, Len(input.files))
  /\ phase \in {"warnings", "documents", "persist", "stored"} => ResultStands(result, found, input.files)
  /\ phase \in {"warnings", "documents"} => result.cut = {}
  /\ phase \in {"documents", "persist", "stored"} => input.imports \subseteq result.warnings
  /\ phase \in {"persist", "stored"} =>
       /\ result.status # "failed"
       /\ result.confidence = CalculateAnalysisConfidence(EvidenceOf(result, input.imports))
       /\ Cardinality(result.cut) <= Cardinality({w \in result.warnings : w.code = "ANALYSIS_DOCUMENT_TRUNCATED"})

\* The dependencies do not matter for what is accounted for.
LEMMA LinksKeepAccounts ==
  ASSUME NEW so_far, FoundStands(so_far), NEW files, NEW n, Accounts(so_far, files, n), NEW more
  PROVE  Accounts([so_far EXCEPT !.dependencies = @ \cup more], files, n)
<1> DEFINE next == [so_far EXCEPT !.dependencies = @ \cup more]
<1>1. DOMAIN so_far = DOMAIN NothingFound BY DEF FoundStands
<1>2. /\ next.eligible = so_far.eligible /\ next.analyzed = so_far.analyzed /\ next.degraded = so_far.degraded
      /\ next.references = so_far.references /\ next.risks = so_far.risks /\ next.warnings = so_far.warnings
      /\ next.parsed = so_far.parsed
  BY <1>1 DEF NothingFound
<1> HIDE DEF next
<1>3. Accounts(next, files, n) BY <1>2 DEF Accounts
<1> QED BY <1>3 DEF next

\* What the assumption says of one input.
LEMMA InputsAreSound ==
  ASSUME NEW in \in Inputs, in.files # <<>>
  PROVE  /\ IsList(in.files) /\ \A file \in ToSet(in.files) : IsSource(file)
         /\ \A m, n \in DOMAIN in.files : in.files[m].path = in.files[n].path => m = n
         /\ Len(in.files) \in Nat /\ IsFiniteSet(in.imports) /\ IsFiniteSet(in.long)
<1>1. IsList(in.files) BY AnalyzedInputs
<1>2. Len(in.files) \in Nat BY <1>1, Listed
<1> QED BY <1>2, AnalyzedInputs

LEMMA SumInit == Init => SumInv
<1> SUFFICES ASSUME Init PROVE SumInv
  OBVIOUS
<1>1. RowsInv BY RowsInit
<1>2. input \in Inputs /\ phase \in {"idle", "files"} /\ read = 0 /\ found = NothingFound
      /\ (phase = "files" => input.files # <<>>)
  BY DEF Init
<1>3. phase = "files" => Len(input.files) \in Nat BY <1>2, InputsAreSound
<1>4. Accounts(found, input.files, read) BY <1>2, NothingAccounts
<1> QED BY <1>1, <1>2, <1>3, <1>4 DEF SumInv

LEMMA SumNext == SumInv /\ [Next]_vars => SumInv'
<1> SUFFICES ASSUME SumInv, [Next]_vars PROVE SumInv'
  OBVIOUS
<1>1. RowsInv /\ RowsInv' BY RowsNext DEF SumInv
<1>2. /\ phase = "files" => read <= Len(input.files) /\ Accounts(found, input.files, read)
      /\ phase \notin {"idle", "files"} => Accounts(found, input.files, Len(input.files))
      /\ phase \in {"warnings", "documents", "persist", "stored"} => ResultStands(result, found, input.files)
      /\ phase \in {"warnings", "documents"} => result.cut = {}
      /\ phase \in {"documents", "persist", "stored"} => input.imports \subseteq result.warnings
      /\ phase \in {"persist", "stored"} =>
           /\ result.status # "failed"
           /\ result.confidence = CalculateAnalysisConfidence(EvidenceOf(result, input.imports))
           /\ Cardinality(result.cut) <= Cardinality({w \in result.warnings : w.code = "ANALYSIS_DOCUMENT_TRUNCATED"})
  BY DEF SumInv
<1>3. input' = input /\ input \in Inputs /\ FoundStands(found) /\ read \in Nat /\ (input.files = <<>> => phase = "idle")
  BY <1>1 DEF RowsInv, Next, vars, Read, Skip, AllRead, Link, LinkFails, Summarize, AddImportWarnings, CutDocuments,
              Persist, PersistFails
<1>4. phase # "idle" =>
        /\ IsList(input.files) /\ \A file \in ToSet(input.files) : IsSource(file)
        /\ \A m, n \in DOMAIN input.files : input.files[m].path = input.files[n].path => m = n
        /\ Len(input.files) \in Nat /\ IsFiniteSet(input.imports) /\ IsFiniteSet(input.long)
  BY <1>3, InputsAreSound
<1>5. ASSUME Read \/ Skip PROVE SumInv'
  <2>1. phase = "files" /\ phase' = phase /\ read' = read + 1 /\ read < Len(input.files)
        /\ (found' = AnalyzeFile(found, input.files[read + 1]) \/ found' = SkipFile(found, input.files[read + 1]))
    BY <1>5 DEF Read, Skip, NextFile
  <2>2. Accounts(found', input.files, read + 1)
    BY <1>2, <1>3, <1>4, <2>1, FilesKeepAccounts
  <2>3. read' <= Len(input.files) BY <1>3, <1>4, <2>1
  <2> QED BY <1>1, <1>3, <2>1, <2>2, <2>3 DEF SumInv
<1>6. ASSUME AllRead PROVE SumInv'
  <2>1. phase = "files" /\ phase' = "dependencies" /\ read = Len(input.files) /\ found' = found
    BY <1>6 DEF AllRead
  <2>2. Accounts(found', input'.files, Len(input'.files)) BY <1>2, <1>3, <2>1
  <2> QED BY <1>1, <2>1, <2>2 DEF SumInv
<1>7. ASSUME Link PROVE SumInv'
  <2>1. phase = "dependencies" /\ phase' = phase
        /\ found' = [found EXCEPT !.dependencies = @ \cup DependenciesOf(found.parsed[read + 1], found.symbols)]
    BY <1>7 DEF Link
  <2>2. Accounts(found', input.files, Len(input.files))
    BY <1>2, <1>3, <2>1, LinksKeepAccounts
  <2> QED BY <1>1, <1>3, <2>1, <2>2 DEF SumInv
<1>8. ASSUME LinkFails \/ PersistFails PROVE SumInv'
  <2>1. phase \notin {"idle", "files"} /\ phase' = "failed" /\ found' = found
    BY <1>8 DEF LinkFails, PersistFails
  <2> QED BY <1>1, <1>2, <1>3, <2>1 DEF SumInv
<1>9. ASSUME Summarize PROVE SumInv'
  <2>1. phase = "dependencies" /\ phase' = "warnings" /\ found' = found
        /\ \E limited \in SUBSET FormsOf(input.files) : result' = SumUp(input.files, limited, found)
    BY <1>9 DEF Summarize
  <2>2. ResultStands(result', found, input.files) /\ result'.cut = {}
    BY <1>2, <1>4, <2>1, SumsStand
  <2> QED BY <1>1, <1>2, <1>3, <2>1, <2>2 DEF SumInv
<1>10. ASSUME AddImportWarnings PROVE SumInv'
  <2> DEFINE additions == BuildImportWarningSummaryWarnings(input.imports)
  <2>1. phase = "warnings" /\ phase' = "documents" /\ found' = found
        /\ result' = ApplyAdditionalAnalysisWarnings(result, additions, input.imports)
    BY <1>10 DEF AddImportWarnings
  <2>2. input.files # <<>> BY <1>3, <2>1
  <2>3. IsFiniteSet(additions) /\ input.imports \subseteq additions /\ (additions # {} => Material(additions) # {})
    BY <1>3, <2>2, ImportsAreNamed
  <2>4. ResultStands(result, found, input.files) /\ result.cut = {} BY <1>2, <2>1
  <2>5. DOMAIN result = ResultFields BY <2>4 DEF ResultStands
  <2> HIDE DEF additions
  <2>6. IsGrown(result', result, additions) /\ result'.cut = result.cut
    BY <2>1, <2>5, ImportsAdded
  <2>7. ResultStands(result', found, input.files) BY <2>3, <2>4, <2>6, GrownStand
  <2>8. input.imports \subseteq result'.warnings BY <2>3, <2>6 DEF IsGrown
  <2>9. result'.cut = {} BY <2>4, <2>6
  <2> QED BY <1>1, <1>2, <1>3, <2>1, <2>7, <2>8, <2>9 DEF SumInv
<1>11. ASSUME CutDocuments PROVE SumInv'
  <2> DEFINE long == input.long
             notes == CutNotes(long)
             cut == MakePersistable(result, long, input.imports)
             Cuts(warnings) == {w \in warnings : w.code = "ANALYSIS_DOCUMENT_TRUNCATED"}
  <2>1. phase = "documents" /\ found' = found /\ result' = RecalculateAnalysisResultConfidence(cut, input.imports)
        /\ phase' = IF result'.status = "failed" THEN "failed" ELSE "persist"
    BY <1>11 DEF CutDocuments
  <2>2. ResultStands(result, found, input.files) /\ result.cut = {} BY <1>2, <2>1
  <2>3. DOMAIN result = ResultFields BY <2>2 DEF ResultStands
  <2>4. IsFiniteSet(long) BY <1>4, <2>1
  <2> HIDE DEF long
  <2>5. IsGrown(cut, result, notes) /\ cut.cut = IF long = {} THEN result.cut ELSE long
    BY <2>3, DocumentsCut
  <2>6. /\ IsFiniteSet(notes) /\ (long # {} => Material(notes) # {})
        /\ \A warning \in notes : warning.code = "ANALYSIS_DOCUMENT_TRUNCATED"
        /\ Cardinality(long) = Cardinality(notes)
    BY <2>4, CutsAreNamed
  <2>7. long = {} => notes = {} BY DEF CutNotes
  <2> HIDE DEF notes, cut
  <2>8. ResultStands(cut, found, input.files) BY <2>2, <2>5, <2>6, <2>7, GrownStand
  <2>9. DOMAIN cut = ResultFields BY <2>5 DEF IsGrown
  <2>10. IsGrown(result', cut, {}) /\ result'.cut = cut.cut
         /\ result'.confidence = CalculateAnalysisConfidence(EvidenceOf(result', input.imports))
    BY <2>1, <2>9, Rescored
  <2>11. ResultStands(result', found, input.files) BY <2>8, <2>10, GrownStand, FS_EmptySet
  <2>12. result'.warnings = result.warnings \cup notes BY <2>5, <2>10 DEF IsGrown
  <2>13. input.imports \subseteq result'.warnings BY <1>2, <2>1, <2>12
  <2>14. Cardinality(result'.cut) <= Cardinality(Cuts(result'.warnings))
    <3>1. IsFiniteSet(Cuts(result'.warnings)) BY <2>11, FS_Subset DEF ResultStands
    <3>2. notes \subseteq Cuts(result'.warnings) BY <2>6, <2>12
    <3>3. Cardinality(notes) <= Cardinality(Cuts(result'.warnings))
      <4> HIDE DEF Cuts
      <4> QED BY <3>1, <3>2, Fewer
    <3>4. result'.cut = long BY <2>2, <2>5, <2>10
    <3> QED BY <2>6, <3>3, <3>4
  <2>15. result'.confidence = CalculateAnalysisConfidence(EvidenceOf(result, input.imports)')
    BY <1>3, <2>10 DEF EvidenceOf
  <2>16. phase' = "persist" => result'.status # "failed" BY <2>1
  <2>17. phase' \in {"failed", "persist"} BY <2>1
  <2> QED BY <1>1, <1>2, <1>3, <2>1, <2>11, <2>13, <2>14, <2>15, <2>16, <2>17 DEF SumInv
<1>12. ASSUME Persist PROVE SumInv'
  <2>1. phase = "persist" /\ phase' = "stored" /\ found' = found /\ result' = result
    BY <1>12 DEF Persist
  <2>2. EvidenceOf(result, input.imports)' = EvidenceOf(result, input.imports)
    BY <1>3, <2>1 DEF EvidenceOf
  <2> QED BY <1>1, <1>2, <1>3, <2>1, <2>2 DEF SumInv
<1>13. ASSUME UNCHANGED vars PROVE SumInv'
  <2>1. found' = found /\ phase' = phase /\ read' = read /\ result' = result BY <1>13 DEF vars
  <2>2. EvidenceOf(result, input.imports)' = EvidenceOf(result, input.imports)
    BY <1>3, <2>1 DEF EvidenceOf
  <2> QED BY <1>1, <1>2, <1>3, <2>1, <2>2 DEF SumInv
<1> QED BY <1>5, <1>6, <1>7, <1>8, <1>9, <1>10, <1>11, <1>12, <1>13 DEF Next

\* What a stored result says of its files.
LEMMA StoredIsSound ==
  ASSUME SumInv, phase = "stored"
  PROVE  /\ ResultStands(result, found, input.files) /\ Accounts(found, input.files, Len(input.files))
         /\ IsList(input.files) /\ Len(input.files) \in Nat
         /\ \A file \in ToSet(input.files) : \E i \in 1..Len(input.files) : file = input.files[i]
         /\ \A i \in 1..Len(input.files) : input.files[i] \in ToSet(input.files)
         /\ IsEvidence(EvidenceOf(result, input.imports))
<1>1. ResultStands(result, found, input.files) /\ Accounts(found, input.files, Len(input.files))
  BY DEF SumInv
<1>2. input \in Inputs /\ input.files # <<>> BY DEF SumInv, RowsInv
<1>3. IsList(input.files) /\ Len(input.files) \in Nat /\ IsFiniteSet(input.imports) BY <1>2, InputsAreSound
<1>4. \A file \in ToSet(input.files) : \E i \in 1..Len(input.files) : file = input.files[i]
  <2>1. DOMAIN input.files = 1..Len(input.files) BY <1>3, Listed
  <2> QED BY <2>1 DEF ToSet
<1>5. \A i \in 1..Len(input.files) : input.files[i] \in ToSet(input.files)
  BY <1>3, Listed
<1>6. IsEvidence(EvidenceOf(result, input.imports))
  <2> DEFINE evidence == EvidenceOf(result, input.imports)
             types == TypesOf(input.files)
  <2>1. /\ evidence.metrics = result.metrics /\ evidence.imports = input.imports
        /\ evidence.warnings = result.warnings /\ evidence.types = types /\ evidence.risks = result.risks
    BY DEF EvidenceOf
  <2>2. IsList(types)
    <3> DEFINE kinds == {input.files[n].ext : n \in 1..Len(input.files)}
    <3>1. types = [n \in 1..Len(input.files) |-> input.files[n].ext] BY <1>3, Listed DEF TypesOf
    <3>2. types \in Seq(kinds) BY <1>3, <3>1
    <3>3. ToSet(types) = kinds BY <3>1 DEF ToSet
    <3> QED BY <3>2, <3>3 DEF IsList
  <2> HIDE DEF evidence, types
  <2>3. /\ result.metrics.analyzed = found.analyzed /\ result.metrics.skipped = Len(input.files) - found.analyzed
        /\ result.metrics.degraded = found.degraded /\ result.metrics.eligible \in Nat
        /\ result.metrics.unresolvedEvents \in Nat /\ IsFiniteSet(result.metrics.bindings)
        /\ IsFiniteSet(result.warnings) /\ IsFiniteSet(result.risks)
    BY <1>1 DEF ResultStands
  <2>4. found.analyzed \in Nat /\ found.degraded \in Nat /\ found.analyzed <= Len(input.files)
    BY <1>1 DEF Accounts
  <2>5. result.metrics.skipped \in Nat BY <1>3, <2>3, <2>4
  <2>6. IsEvidence(evidence) BY <1>3, <2>1, <2>2, <2>3, <2>4, <2>5 DEF IsEvidence
  <2> QED BY <2>6 DEF evidence
<1> QED BY <1>1, <1>3, <1>4, <1>5, <1>6

LEMMA StoredScores == SumInv => ConfidenceAnswersToEvidence
<1> SUFFICES ASSUME SumInv, phase = "stored" PROVE ConfidenceAnswersToEvidence
  BY DEF ConfidenceAnswersToEvidence
<1> DEFINE evidence == EvidenceOf(result, input.imports)
           Without(w) == [evidence EXCEPT !.warnings = @ \ {w}, !.imports = @ \ {w}]
           Less(r) == [evidence EXCEPT !.risks = @ \ {r}]
<1>1. result.confidence = CalculateAnalysisConfidence(evidence)
  BY DEF SumInv
<1>2. IsEvidence(evidence) BY StoredIsSound
<1>3. evidence.metrics = result.metrics /\ evidence.warnings = result.warnings
      /\ DOMAIN evidence = {"metrics", "imports", "warnings", "types", "risks"}
  BY DEF EvidenceOf
<1> HIDE DEF evidence
<1>4. \A w : IsLess(Without(w), evidence)
  <2> SUFFICES ASSUME NEW w PROVE IsLess(Without(w), evidence) OBVIOUS
  <2> DEFINE less == Without(w)
  <2>1. /\ less.metrics = evidence.metrics /\ less.types = evidence.types
        /\ less.imports = evidence.imports \ {w} /\ less.warnings = evidence.warnings \ {w}
        /\ less.risks = evidence.risks
    BY <1>3
  <2> HIDE DEF less
  <2> QED BY <2>1 DEF IsLess, less
<1>5. \A r : IsLess(Less(r), evidence)
  <2> SUFFICES ASSUME NEW r PROVE IsLess(Less(r), evidence) OBVIOUS
  <2> DEFINE less == Less(r)
  <2>1. /\ less.metrics = evidence.metrics /\ less.types = evidence.types
        /\ less.imports = evidence.imports /\ less.warnings = evidence.warnings
        /\ less.risks = evidence.risks \ {r}
    BY <1>3
  <2> HIDE DEF less
  <2> QED BY <2>1 DEF IsLess, less
<1> HIDE DEF Without, Less
<1>6. /\ CalculateAnalysisConfidence(evidence) \in 0..100
      /\ \A fewer : IsLess(fewer, evidence) =>
           /\ CalculateAnalysisConfidence(fewer) >= CalculateAnalysisConfidence(evidence)
           /\ TotalLoss(Breakdown(fewer)) = TotalLoss(Breakdown(evidence)) =>
                CalculateAnalysisConfidence(fewer) = CalculateAnalysisConfidence(evidence)
      /\ CalculateAnalysisConfidence(evidence) = 100 =>
           /\ Material(evidence.warnings) = {}
           /\ evidence.metrics.skipped = 0 /\ evidence.metrics.degraded = 0
  BY <1>2, ScoresAnswer
<1>7. ASSUME result.metrics.skipped = 0, result.metrics.degraded = 0
      PROVE  \A file \in ToSet(input.files) : Parsed(file) /\ ~Degraded(file)
  <2>1. found.analyzed = Len(input.files) /\ found.degraded = 0
    <3>1. Len(input.files) \in Nat /\ found.analyzed \in Nat /\ Len(input.files) - found.analyzed = 0
      BY <1>7, StoredIsSound DEF ResultStands, Accounts
    <3>2. found.degraded = 0 BY <1>7, StoredIsSound DEF ResultStands
    <3> QED BY <3>1, <3>2
  <2>2. \A i \in 1..Len(input.files) : input.files[i] \in ToSet(found.parsed) /\ ~Degraded(input.files[i])
    BY <2>1, StoredIsSound DEF Accounts
  <2> QED BY <2>2, StoredIsSound DEF Parsed
<1>8. \A w : CalculateAnalysisConfidence(Without(w)) >= result.confidence
  BY <1>1, <1>4, <1>6
<1>9. \A r : /\ CalculateAnalysisConfidence(Less(r)) >= result.confidence
             /\ r.title = "broad or empty handling" => CalculateAnalysisConfidence(Less(r)) = result.confidence
  <2> SUFFICES ASSUME NEW r
               PROVE  /\ CalculateAnalysisConfidence(Less(r)) >= result.confidence
                      /\ r.title = "broad or empty handling" =>
                           CalculateAnalysisConfidence(Less(r)) = result.confidence
    OBVIOUS
  <2>1. IsLess(Less(r), evidence) BY <1>5
  <2>2. /\ Less(r).metrics = evidence.metrics /\ Less(r).types = evidence.types
        /\ Less(r).imports = evidence.imports /\ Less(r).warnings = evidence.warnings
        /\ Less(r).risks = evidence.risks \ {r}
    BY <1>3 DEF Less
  <2>3. r.title = "broad or empty handling" => TotalLoss(Breakdown(Less(r))) = TotalLoss(Breakdown(evidence))
    BY <2>2, HandlersCostNothing
  <2> QED BY <1>1, <1>6, <2>1, <2>3
<1>10. result.confidence = 100 =>
         Material(result.warnings) = {} /\ \A file \in ToSet(input.files) : Parsed(file) /\ ~Degraded(file)
  BY <1>1, <1>3, <1>6, <1>7
<1>11. ASSUME NEW w \in result.warnings
       PROVE  CalculateAnalysisConfidence([evidence EXCEPT !.warnings = @ \ {w}, !.imports = @ \ {w}]) >= result.confidence
  BY <1>8 DEF Without
<1>12. ASSUME NEW r \in result.risks
       PROVE  /\ CalculateAnalysisConfidence([evidence EXCEPT !.risks = @ \ {r}]) >= result.confidence
              /\ r.title = "broad or empty handling" =>
                   CalculateAnalysisConfidence([evidence EXCEPT !.risks = @ \ {r}]) = result.confidence
  BY <1>9 DEF Less
<1> QED BY Zenon, <1>1, <1>6, <1>10, <1>11, <1>12 DEF ConfidenceAnswersToEvidence, evidence

LEMMA StoredNames == SumInv => NothingIsMissedSilently
<1> SUFFICES ASSUME SumInv, phase = "stored" PROVE NothingIsMissedSilently
  BY DEF NothingIsMissedSilently
<1> DEFINE files == input.files
           Known(file) == ~Parsed(file) \/ Degraded(file)
           last == Len(files)
<1>1. /\ result.status # "failed" /\ input.imports \subseteq result.warnings
      /\ Cardinality(result.cut) <= Cardinality({w \in result.warnings : w.code = "ANALYSIS_DOCUMENT_TRUNCATED"})
  BY DEF SumInv
<1>2. /\ ResultStands(result, found, files) /\ Accounts(found, files, last) /\ last \in Nat
      /\ \A file \in ToSet(files) : \E i \in 1..last : file = files[i]
      /\ \A i \in 1..last : files[i] \in ToSet(files)
  BY StoredIsSound
<1>3. /\ result.metrics.skipped = last - found.analyzed /\ result.metrics.degraded = found.degraded
      /\ found.warnings \subseteq result.warnings
      /\ result.risks = found.risks \cup DetectMultipleWrites(found.references)
      /\ result.rules = BuildRules(found.references, result.risks)
      /\ result.sections = RisksDocument(result.risks)
      /\ found.analyzed > 0
      /\ (result.status = "partial") <=> (result.metrics.skipped > 0 \/ result.metrics.degraded > 0)
      /\ (result.status = "completed") <=> Material(result.warnings) = {}
  BY <1>1, <1>2 DEF ResultStands
<1>4. /\ found.analyzed \in Nat /\ found.degraded \in Nat /\ IsFiniteSet(found.references)
      /\ found.analyzed <= last /\ found.parsed # <<>>
      /\ \A i \in 1..last : Known(files[i]) => Names(found.warnings, files[i].path)
      /\ found.analyzed # last => \E i \in 1..last : Known(files[i])
      /\ found.degraded # 0 => \E i \in 1..last : Known(files[i])
      /\ found.analyzed = last /\ found.degraded = 0 => \A i \in 1..last : ~Known(files[i])
  BY <1>2, <1>3 DEF Accounts, Parsed
<1> HIDE DEF files, last, Known
<1>5. \A file \in ToSet(files) : Known(file) => IsNamed(file.path)
  <2>1. \A path : Names(found.warnings, path) => IsNamed(path) BY <1>3 DEF Names, IsNamed, Material
  <2> QED BY <1>2, <1>4, <2>1
<1>6. result.status = "partial" <=> \E file \in ToSet(files) : Known(file)
  <2>1. result.metrics.skipped > 0 <=> found.analyzed # last BY <1>2, <1>3, <1>4
  <2>2. result.metrics.degraded > 0 <=> found.degraded # 0 BY <1>3, <1>4
  <2> QED BY <1>2, <1>3, <1>4, <2>1, <2>2
<1>7. ASSUME NEW one \in Writes(found.references), NEW other \in Writes(found.references),
             one # other, FieldKey(one) = FieldKey(other)
      PROVE  /\ \E risk \in result.sections.high \cup result.sections.medium :
                  risk.title = "multiple writes" /\ risk.about = FieldKey(one)
             /\ \E rule \in result.rules : rule.type = "validation" /\ rule.of[1] = one.table
  <2> DEFINE key == FieldKey(one)
             both == WritesTo(found.references, key)
             risk == [title |-> "multiple writes", severity |-> IF Cardinality(both) >= 3 THEN "high" ELSE "medium",
                      category |-> "multiple_writes", file |-> FirstWrite(found.references, key).file,
                      line |-> FirstWrite(found.references, key).line, about |-> key]
             keys == WrittenTwice(found.references)
             Group(k) == {x \in keys : x[1] = k[1] /\ FamilyOf(x[2]) = FamilyOf(k[2])}
             rule == Rule("validation", <<key[1], FamilyOf(key[2])>>, Cardinality(Group(key)))
  <2>1. key \in keys
    <3>1. {one, other} \subseteq both BY <1>7 DEF WritesTo
    <3>2. both \subseteq found.references BY DEF WritesTo, Writes
    <3> HIDE DEF both
    <3>3. IsFiniteSet(both) BY <1>4, <3>2, FS_Subset
    <3>4. Cardinality({one, other}) = 2
      <4>1. IsFiniteSet({other}) /\ Cardinality({other}) = 1 BY FS_Singleton
      <4>2. one \notin {other} BY <1>7
      <4>3. Cardinality({other} \cup {one}) = Cardinality({other}) + 1 BY <4>1, <4>2, FS_AddElement
      <4>4. {other} \cup {one} = {one, other} OBVIOUS
      <4> QED BY <4>1, <4>3, <4>4
    <3>5. Cardinality(both) \in Nat /\ 2 <= Cardinality(both) BY <3>1, <3>3, <3>4, Fewer
    <3>6. Cardinality(both) >= 2 BY <3>5
    <3> QED BY <3>6 DEF WrittenTwice, both
  <2>2. risk \in result.risks
    <3>1. risk \in DetectMultipleWrites(found.references) BY <2>1 DEF DetectMultipleWrites
    <3> QED BY <1>3, <3>1
  <2>3. risk.title = "multiple writes" /\ risk.about = key /\ risk.severity \in {"high", "medium"}
    OBVIOUS
  <2>4. rule \in OwnershipRules(found.references)
    BY <2>1 DEF OwnershipRules
  <2>5. rule.type = "validation" /\ rule.of[1] = one.table
    BY DEF Rule, FieldKey
  <2>6. rule \in result.rules BY <1>3, <2>4 DEF BuildRules
  <2> HIDE DEF risk, rule, keys
  <2>7. risk \in result.sections.high \cup result.sections.medium
    <3>1. /\ result.sections.high = {r \in result.risks : r.severity = "high"}
          /\ result.sections.medium = {r \in result.risks : r.severity = "medium"}
      BY <1>3 DEF RisksDocument, Weights
    <3> QED BY <2>2, <2>3, <3>1
  <2> QED BY <2>3, <2>5, <2>6, <2>7
<1> QED BY Zenon, <1>1, <1>3, <1>4, <1>5, <1>6, <1>7 DEF NothingIsMissedSilently, files, Known

\* A stored score is that of the stored warnings and risks, none of them raised
\* it, an empty exception handler does not even lower it, and a full score means
\* that every file was read without reservation (calculateAnalysisConfidence,
\* recalculated after each change).
THEOREM ScoresAnswerToEvidence == Spec => []ConfidenceAnswersToEvidence
<1>1. Spec => []SumInv
  BY SumInit, SumNext, PTL DEF Spec
<1> QED BY <1>1, StoredScores, PTL

\* What is stored misses nothing silently: every file that failed or was read
\* with reservations is named, as are the import's warnings and the cut documents,
\* the status says so, and a field written in two places is among the risks and
\* the rules (analyzeProject, applyAdditionalAnalysisWarnings).
THEOREM NothingIsMissed == Spec => []NothingIsMissedSilently
<1>1. Spec => []SumInv
  BY SumInit, SumNext, PTL DEF Spec
<1> QED BY <1>1, StoredNames, PTL

-----------------------------------------------------------------------------
(***************************************************************************)
(* The impact of a change.                                                 *)
(***************************************************************************)
\* The symbols of an impact are those asked about and the ends of their dependencies.
LEMMA SymbolsShown ==
  ASSUME NEW index, NEW symbols
  PROVE  Impact!SymbolImpact(index, symbols).symbols =
           {Impact!Shown(index, s) : s \in Impact!Located(index, symbols \cup
                Impact!EndsOf(index, Impact!DependenciesOf(index, symbols)))}
BY DEF Impact!SymbolImpact, Impact!SymbolsAndFiles, Impact!Shown

\* Asking about a symbol finds it, with all symbols of its name.
LEMMA AskedSymbol ==
  ASSUME NEW index, NEW s \in index.symbols
  PROVE  /\ s \in Impact!MatchingSymbols(index, s.name)
         /\ Impact!AskSymbol(index, s) = Impact!SymbolImpact(index, Impact!MatchingSymbols(index, s.name))
<1>1. s \in Impact!MatchingSymbols(index, s.name)
  BY DEF Impact!MatchingSymbols
<1>2. Impact!Matches(index, s.name, "symbol") = Impact!MatchingSymbols(index, s.name)
  BY DEF Impact!Matches
<1>3. Impact!ResolvedType(index, s.name, "symbol") = "symbol"
  BY <1>1, <1>2 DEF Impact!ResolvedType
<1>4. Impact!AskSymbol(index, s) = Impact!ImpactOf(index, "symbol", Impact!Matches(index, s.name, "symbol"))
  BY <1>3 DEF Impact!AskSymbol, Impact!Analyze
<1> QED BY <1>1, <1>2, <1>4 DEF Impact!ImpactOf

\* What reaches a symbol is reached from it.
LEMMA ReachMutual ==
  ASSUME NEW index PROVE Impact!ReachIsMutual(index)
<1> SUFFICES ASSUME NEW one \in Impact!Located(index, index.symbols),
                    NEW other \in Impact!Located(index, index.symbols),
                    Impact!MatchingSymbols(index, one.name) = {one},
                    Impact!MatchingSymbols(index, other.name) = {other},
                    Impact!Shown(index, other) \in Impact!AskSymbol(index, one).symbols
             PROVE  Impact!Shown(index, one) \in Impact!AskSymbol(index, other).symbols
  BY DEF Impact!ReachIsMutual
<1>0. one \in index.symbols /\ other \in index.symbols
  BY DEF Impact!Located
<1>1. /\ Impact!AskSymbol(index, one) = Impact!SymbolImpact(index, {one})
      /\ Impact!AskSymbol(index, other) = Impact!SymbolImpact(index, {other})
  BY <1>0, AskedSymbol
<1>2. PICK s \in Impact!Located(index, {one} \cup
                Impact!EndsOf(index, Impact!DependenciesOf(index, {one}))) :
        Impact!Shown(index, s) = Impact!Shown(index, other)
  <2>1. Impact!Shown(index, other) \in {Impact!Shown(index, t) : t \in Impact!Located(index, {one} \cup
             Impact!EndsOf(index, Impact!DependenciesOf(index, {one})))}
    BY <1>1, SymbolsShown
  <2> QED BY <2>1
<1>3. s \in index.symbols /\ s.name = other.name
  BY <1>0, <1>2 DEF Impact!Located, Impact!EndsOf, Impact!Shown
<1>4. s = other
  BY <1>3 DEF Impact!MatchingSymbols
<1>5. one \in {other} \cup Impact!EndsOf(index, Impact!DependenciesOf(index, {other}))
  BY <1>0, <1>2, <1>4 DEF Impact!EndsOf, Impact!DependenciesOf, Impact!Located
<1>6. one \in Impact!Located(index, {other} \cup Impact!EndsOf(index, Impact!DependenciesOf(index, {other})))
  BY <1>5 DEF Impact!Located
<1>7. Impact!AskSymbol(index, other).symbols =
        {Impact!Shown(index, t) : t \in Impact!Located(index, {other} \cup
             Impact!EndsOf(index, Impact!DependenciesOf(index, {other})))}
  BY <1>1, SymbolsShown
<1> QED BY <1>6, <1>7

\* A field and its users name each other.
LEMMA UsesMutual ==
  ASSUME NEW index, \A field \in index.fields : IsFieldRow(field)
  PROVE  Impact!UsesAreMutual(index)
<1> SUFFICES ASSUME NEW use \in index.uses, NEW symbol \in Impact!Located(index, index.symbols),
                    NEW field \in index.fields, use.symbol = symbol.id, use.field = field.id
             PROVE  /\ Impact!FieldIdentity(field) \in Impact!AskSymbol(index, symbol).fields
                    /\ Impact!Shown(index, symbol)
                         \in Impact!Analyze(index, Impact!FieldPair(field), "sql_field").impact.symbols
                    /\ Impact!Shown(index, symbol)
                         \in Impact!Analyze(index, field.table, "sql_table").impact.symbols
  BY DEF Impact!UsesAreMutual
<1>0. symbol \in index.symbols
  BY DEF Impact!Located
<1>1. Impact!FieldIdentity(field) \in Impact!AskSymbol(index, symbol).fields
  <2>1. symbol \in Impact!MatchingSymbols(index, symbol.name)
    BY <1>0, AskedSymbol
  <2>2. field \in Impact!UsedFields(index, {u \in index.uses :
            u.symbol \in {s.id : s \in Impact!MatchingSymbols(index, symbol.name)}})
    BY <2>1 DEF Impact!UsedFields
  <2>3. Impact!SymbolImpact(index, Impact!MatchingSymbols(index, symbol.name)).fields =
          Impact!Identities(Impact!UsedFields(index, {u \in index.uses :
            u.symbol \in {s.id : s \in Impact!MatchingSymbols(index, symbol.name)}}))
    BY DEF Impact!SymbolImpact, Impact!SymbolsAndFiles
  <2>4. Impact!AskSymbol(index, symbol) = Impact!SymbolImpact(index, Impact!MatchingSymbols(index, symbol.name))
    BY <1>0, AskedSymbol
  <2> QED BY <2>2, <2>3, <2>4 DEF Impact!Identities
<1>2. ASSUME NEW target, NEW type \in {"sql_field", "sql_table"}, field \in Impact!Matches(index, target, type)
      PROVE  Impact!Shown(index, symbol) \in Impact!Analyze(index, target, type).impact.symbols
  <2> DEFINE fields == Impact!Matches(index, target, type)
  <2>1. Impact!ResolvedType(index, target, type) = type
    BY <1>2 DEF Impact!ResolvedType
  <2>2. Impact!Analyze(index, target, type).impact = Impact!SqlImpact(index, fields)
    BY <2>1 DEF Impact!Analyze, Impact!ImpactOf
  <2> DEFINE uses == {u \in index.uses : u.field \in {f.id : f \in fields}}
             users == {s \in index.symbols : \E u \in uses : u.symbol = s.id}
  <2>3. Impact!SqlImpact(index, fields).symbols = {Impact!Shown(index, s) : s \in Impact!Located(index, users)}
    BY DEF Impact!SqlImpact, Impact!SymbolsAndFiles, Impact!Shown
  <2>4. use \in uses
    BY <1>2
  <2>5. symbol \in Impact!Located(index, users)
    BY <1>0, <2>4 DEF Impact!Located
  <2> QED BY <2>2, <2>3, <2>5
<1> DEFINE table == field.table
<1>3. IsList(table) /\ table # <<>> /\ None \notin ToSet(table)
  BY DEF IsFieldRow
<1>4. table \in Seq(ToSet(table)) /\ Len(table) \in Nat \ {0} /\ table[Len(table)] # None
  <2>1. table \in Seq(ToSet(table))
    BY <1>3 DEF IsList
  <2>2. Len(table) \in Nat /\ Len(table) # 0
    BY <1>3, <2>1, EmptySeq, LenProperties
  <2>3. table[Len(table)] \in ToSet(table)
    BY <2>1, <2>2, LenProperties DEF ToSet
  <2> QED BY <1>3, <2>1, <2>2, <2>3
<1>5. \A last : /\ Append(table, last) \in Seq(ToSet(table) \cup {last})
                /\ Len(Append(table, last)) = Len(table) + 1
                /\ Append(table, last)[Len(table) + 1] = last
                /\ Append(table, last)[Len(table)] = table[Len(table)]
                /\ Len(table) > 1 => Append(table, last)[Len(table) - 1] = table[Len(table) - 1]
  <2> SUFFICES ASSUME NEW last
               PROVE  /\ Append(table, last) \in Seq(ToSet(table) \cup {last})
                      /\ Len(Append(table, last)) = Len(table) + 1
                      /\ Append(table, last)[Len(table) + 1] = last
                      /\ Append(table, last)[Len(table)] = table[Len(table)]
                      /\ Len(table) > 1 => Append(table, last)[Len(table) - 1] = table[Len(table) - 1]
    OBVIOUS
  <2>1. table \in Seq(ToSet(table) \cup {last})
    BY <1>4
  <2> HIDE DEF table
  <2> QED BY <1>4, <2>1, AppendProperties
<1>6. /\ Impact!FieldIdentity(field).table = table[Len(table)]
      /\ \A last : /\ Impact!Identity(Append(table, last)).table = table[Len(table)]
                   /\ Impact!Identity(Append(table, last)).schema = Impact!FieldIdentity(field).schema
  <2> SUFFICES ASSUME NEW last
               PROVE  /\ Impact!FieldIdentity(field).table = table[Len(table)]
                      /\ Impact!Identity(Append(table, last)).table = table[Len(table)]
                      /\ Impact!Identity(Append(table, last)).schema = Impact!FieldIdentity(field).schema
    OBVIOUS
  <2> DEFINE wanted == Append(table, last)
             given == Append(table, field.field)
  <2>1. /\ Len(wanted) = Len(table) + 1 /\ Len(given) = Len(table) + 1
        /\ wanted[Len(table)] = table[Len(table)] /\ given[Len(table)] = table[Len(table)]
        /\ Len(table) > 1 => wanted[Len(table) - 1] = given[Len(table) - 1]
    BY <1>5
  <2> HIDE DEF wanted, given, table
  <2>2. /\ Impact!Identity(wanted).table = table[Len(table)] /\ Impact!Identity(given).table = table[Len(table)]
        /\ Impact!Identity(wanted).schema = Impact!Identity(given).schema
    BY <1>4, <2>1 DEF Impact!Identity
  <2> QED BY <2>2 DEF Impact!FieldIdentity, wanted, given, table
<1>7. field \in Impact!Matches(index, Impact!FieldPair(field), "sql_field")
  <2>1. Impact!FieldIdentity(field) = Impact!Identity(Impact!FieldPair(field))
    BY DEF Impact!FieldIdentity, Impact!FieldPair
  <2>2. Impact!FieldIdentity(field).table # None
    BY <1>4, <1>6
  <2>3. field \in Impact!MatchingSqlFields(index, Impact!FieldPair(field))
    BY <2>1, <2>2 DEF Impact!MatchingSqlFields
  <2> QED BY <2>3 DEF Impact!Matches
<1>8. field \in Impact!Matches(index, table, "sql_table")
  <2>1. field \in Impact!MatchingSqlTable(index, table)
    BY <1>6 DEF Impact!MatchingSqlTable
  <2> QED BY <2>1 DEF Impact!Matches
<1> QED BY <1>1, <1>2, <1>7, <1>8

\* A file answers for what its symbols reach.
LEMMA FilesCover ==
  ASSUME NEW index PROVE Impact!FilesCoverTheirSymbols(index)
<1> SUFFICES ASSUME NEW symbol \in Impact!Located(index, index.symbols)
             PROVE  Impact!SymbolImpact(index, {symbol}).symbols
                      \subseteq Impact!Analyze(index, Impact!PathOf(index, symbol), "file").impact.symbols
  BY DEF Impact!FilesCoverTheirSymbols
<1> DEFINE path == Impact!PathOf(index, symbol)
           files == Impact!MatchingFiles(index, path)
           symbols == UNION {Impact!SymbolsOfFile(index, file.id) : file \in files}
<1>1. PICK file \in index.files : file.id = symbol.file /\ file.path = path
  <2>1. Impact!FileOf(index, symbol) # {}
    BY DEF Impact!Located
  <2> DEFINE chosen == CHOOSE file \in Impact!FileOf(index, symbol) : TRUE
  <2>2. chosen \in Impact!FileOf(index, symbol) /\ path = chosen.path
    BY <2>1 DEF Impact!PathOf
  <2> QED BY <2>2 DEF Impact!FileOf
<1>2. file \in files
  BY <1>1 DEF Impact!MatchingFiles
<1>3. symbol \in symbols
  BY <1>1, <1>2 DEF Impact!SymbolsOfFile, Impact!Located
<1>4. Impact!Analyze(index, path, "file").impact = Impact!FileImpact(index, files)
  <2>1. Impact!Matches(index, path, "file") = files
    BY DEF Impact!Matches
  <2>2. Impact!ResolvedType(index, path, "file") = "file"
    BY <1>2, <2>1 DEF Impact!ResolvedType
  <2> QED BY <2>1, <2>2 DEF Impact!Analyze, Impact!ImpactOf
<1>5. Impact!FileImpact(index, files).symbols =
        {Impact!Shown(index, s) : s \in Impact!Located(index, symbols \cup
             Impact!EndsOf(index, Impact!DependenciesOf(index, symbols)))}
  BY DEF Impact!FileImpact, Impact!SymbolsAndFiles, Impact!Shown
<1> HIDE DEF symbols, files, path
<1>6. Impact!DependenciesOf(index, {symbol}) \subseteq Impact!DependenciesOf(index, symbols)
  BY <1>3 DEF Impact!DependenciesOf
<1>7. Impact!EndsOf(index, Impact!DependenciesOf(index, {symbol}))
        \subseteq Impact!EndsOf(index, Impact!DependenciesOf(index, symbols))
  BY <1>6 DEF Impact!EndsOf
<1>8. Impact!Located(index, {symbol} \cup Impact!EndsOf(index, Impact!DependenciesOf(index, {symbol})))
        \subseteq Impact!Located(index, symbols \cup Impact!EndsOf(index, Impact!DependenciesOf(index, symbols)))
  BY <1>3, <1>7 DEF Impact!Located
<1>9. Impact!SymbolImpact(index, {symbol}).symbols \subseteq Impact!FileImpact(index, files).symbols
  <2>1. Impact!SymbolImpact(index, {symbol}).symbols = {Impact!Shown(index, s) : s \in
          Impact!Located(index, {symbol} \cup Impact!EndsOf(index, Impact!DependenciesOf(index, {symbol})))}
    BY SymbolsShown
  <2> QED BY <1>5, <1>8, <2>1
<1> QED BY <1>4, <1>9 DEF path

\* A target of unknown type is taken for the first type that knows it.
LEMMA AutoSomeType ==
  ASSUME NEW index, NEW target PROVE Impact!AutoIsSomeType(index, target)
<1> DEFINE Hit(n) == Impact!Matches(index, target, Impact!TargetTypes[n]) # {}
           Analyzed(type) == Impact!Analyze(index, target, type)
<1>0. /\ DOMAIN Impact!TargetTypes = 1..6
      /\ \A n \in 1..6 : Impact!TargetTypes[n] # "auto"
  BY DEF Impact!TargetTypes
<1>1. CASE \E n \in 1..6 : Hit(n)
  <2> DEFINE First(n) == Hit(n) /\ \A m \in 1..(n - 1) : ~Hit(m)
             first == CHOOSE n \in 1..6 : First(n)
  <2>1. \E n \in 1..6 : First(n)
    <3> HIDE DEF Hit
    <3> QED BY <1>1
  <2>2. first \in 1..6 /\ Hit(first)
    BY <2>1
  <2>3. Impact!ResolvedType(index, target, "auto") = Impact!TargetTypes[first]
    BY <1>1 DEF Impact!ResolvedType
  <2>4. Impact!ResolvedType(index, target, Impact!TargetTypes[first]) = Impact!TargetTypes[first]
    BY <1>0, <2>2 DEF Impact!ResolvedType
  <2> DEFINE type == Impact!TargetTypes[first]
  <2>5. type # "auto"
    BY <1>0, <2>2
  <2> HIDE DEF type, first
  <2>6. Analyzed("auto") = Analyzed(type) /\ Analyzed("auto").resolved /\ Analyzed("auto").type = type
    BY <2>3, <2>4, <2>5 DEF Impact!Analyze, type
  <2> QED BY <2>6 DEF Impact!AutoIsSomeType
<1>2. CASE ~\E n \in 1..6 : Hit(n)
  <2>1. Impact!ResolvedType(index, target, "auto") = "auto"
    BY <1>2 DEF Impact!ResolvedType
  <2>2. ~Analyzed("auto").resolved
    BY <2>1 DEF Impact!Analyze
  <2>3. ASSUME NEW n \in 1..6 PROVE ~Analyzed(Impact!TargetTypes[n]).resolved
    <3>1. Impact!ResolvedType(index, target, Impact!TargetTypes[n]) = "auto"
      BY <1>0, <1>2, <2>3 DEF Impact!ResolvedType
    <3> QED BY <3>1 DEF Impact!Analyze
  <2> QED BY <1>0, <2>2, <2>3 DEF Impact!AutoIsSomeType
<1> QED BY <1>1, <1>2

\* So an impact reads the same from both ends, whatever the rows of the project.
LEMMA ImpactMutual ==
  ASSUME input \in Inputs PROVE ImpactIsMutual
<1> SUFFICES ASSUME input.kind = "index"
             PROVE  /\ Impact!ReachIsMutual(input.index) /\ Impact!UsesAreMutual(input.index)
                    /\ Impact!FilesCoverTheirSymbols(input.index)
                    /\ \A target \in input.targets : Impact!AutoIsSomeType(input.index, target)
  BY DEF ImpactIsMutual
<1>1. \A field \in input.index.fields : IsFieldRow(field)
  BY IndexRows
<1> QED BY <1>1, ReachMutual, UsesMutual, FilesCover, AutoSomeType

\* The impact of a change reads the same from both ends, for any rows of a project
\* whose fields have tables.
THEOREM ImpactReadsFromBothEnds == Spec => []ImpactIsMutual
<1>1. Init => input \in Inputs
  BY DEF Init
<1>2. input \in Inputs /\ [Next]_vars => (input \in Inputs)'
  BY DEF Next, vars, Read, Skip, AllRead, Link, LinkFails, Summarize, AddImportWarnings, CutDocuments,
         Persist, PersistFails
<1>3. input \in Inputs => ImpactIsMutual
  BY ImpactMutual
<1> QED BY <1>1, <1>2, <1>3, PTL DEF Spec

-----------------------------------------------------------------------------
(***************************************************************************)
(* What an import keeps of an archive and of a repository.                 *)
(***************************************************************************)
\* What holds at first and, once it holds, after one more step, holds after
\* every step.
LEMMA StepByStep ==
  ASSUME NEW n \in Nat, NEW P, 0 \in P, \A k \in 1..n : k - 1 \in P => k \in P
  PROVE  \A k \in 0..n : k \in P
<1> DEFINE Bad == {k \in 0..n : k \notin P}
<1>1. ASSUME Bad # {} PROVE FALSE
  <2>1. Bad \in SUBSET Nat OBVIOUS
  <2>2. PICK k \in Bad : \A m \in Bad : k <= m
    <3> HIDE DEF Bad
    <3> QED BY <1>1, <2>1, LeastNumber
  <2>3. k \in 1..n /\ k - 1 \in 0..n OBVIOUS
  <2>4. k - 1 \in P BY <2>2, <2>3
  <2> QED BY <2>3, <2>4
<1> QED BY <1>1

\* A set of numbers up to a bound that holds something holds a greatest one.
LEMMA GreatestNumber ==
  ASSUME NEW n \in Nat, NEW T \in SUBSET (1..n), T # {}
  PROVE  Max(T) \in T /\ \A x \in T : x <= Max(T)
<1> DEFINE U == {n - x : x \in T}
<1>1. \A x \in T : x \in Int /\ x <= n
  OBVIOUS
<1>2. U \in SUBSET Nat /\ U # {}
  <2>1. \A x \in T : n - x \in Nat
    BY <1>1
  <2> QED BY <2>1
<1>3. PICK y \in U : \A z \in U : y <= z
  <2> HIDE DEF U
  <2> QED BY <1>2, LeastNumber
<1>4. PICK x \in T : y = n - x
  OBVIOUS
<1>5. \A z \in T : x >= z
  <2> SUFFICES ASSUME NEW z \in T PROVE x >= z
    OBVIOUS
  <2>1. n - x <= n - z BY <1>3, <1>4
  <2> QED BY <2>1
<1>6. \E greatest \in T : \A z \in T : greatest >= z
  BY <1>5
<1>7. Max(T) \in T /\ \A z \in T : Max(T) >= z
  BY <1>6 DEF Max
<1> QED BY ONLY <1>1, <1>7

\* What a fold over the first n places is for each set of them.
IsFold(f, n, S, base, step) ==
  /\ f \in [SUBSET (1..n) -> S] /\ f[{}] = base
  /\ \A s \in SUBSET (1..n) : s # {} => f[s] = step[Max(s)][f[s \ {Max(s)}]]

\* There is one, whatever the steps.
LEMMA FoldsExist ==
  ASSUME NEW n \in Nat, NEW S, NEW base \in S, NEW step, \A i \in 1..n : step[i] \in [S -> S]
  PROVE  \E f : IsFold(f, n, S, base, step)
<1> DEFINE P == {k \in 0..n : \E f : IsFold(f, k, S, base, step)}
<1>1. 0 \in P
  <2> DEFINE f == [s \in SUBSET (1..0) |-> base]
  <2>1. 1..0 = {} OBVIOUS
  <2>2. f \in [SUBSET (1..0) -> S] /\ f[{}] = base OBVIOUS
  <2>3. \A s \in SUBSET (1..0) : s = {} BY <2>1
  <2> HIDE DEF f
  <2>4. IsFold(f, 0, S, base, step) BY <2>2, <2>3 DEF IsFold
  <2> QED BY <2>4
<1>2. ASSUME NEW k \in 1..n, k - 1 \in P PROVE k \in P
  <2>1. PICK f : IsFold(f, k - 1, S, base, step) BY <1>2
  <2> DEFINE g == [s \in SUBSET (1..k) |-> IF k \in s THEN step[k][f[s \ {k}]] ELSE f[s]]
  <2>2. /\ f \in [SUBSET (1..(k - 1)) -> S] /\ f[{}] = base
        /\ \A s \in SUBSET (1..(k - 1)) : s # {} => f[s] = step[Max(s)][f[s \ {Max(s)}]]
    BY <2>1 DEF IsFold
  <2>3. \A s \in SUBSET (1..k) : /\ s \ {k} \in SUBSET (1..(k - 1)) /\ s \ {k} \in SUBSET (1..k)
                                 /\ k \notin s => s \in SUBSET (1..(k - 1))
    <3>1. \A x \in 1..k : x # k => x \in 1..(k - 1) OBVIOUS
    <3> QED BY <3>1
  <2>4. \A s \in SUBSET (1..k) : g[s] = IF k \in s THEN step[k][f[s \ {k}]] ELSE f[s]
    OBVIOUS
  <2>5. g \in [SUBSET (1..k) -> S]
    <3>1. ASSUME NEW s \in SUBSET (1..k) PROVE (IF k \in s THEN step[k][f[s \ {k}]] ELSE f[s]) \in S
      <4>1. f[s \ {k}] \in S /\ (k \notin s => f[s] \in S) BY <2>2, <2>3
      <4>2. step[k] \in [S -> S] OBVIOUS
      <4> QED BY ONLY <4>1, <4>2
    <3> QED BY ONLY <3>1
  <2> HIDE DEF g
  <2>6. g[{}] = base BY <2>2, <2>4
  <2>7. ASSUME NEW s \in SUBSET (1..k), s # {} PROVE g[s] = step[Max(s)][g[s \ {Max(s)}]]
    <3>1. k \in Nat OBVIOUS
    <3>2. Max(s) \in s /\ \A x \in s : x <= Max(s)
      BY <2>7, <3>1, GreatestNumber
    <3>3. CASE k \in s
      <4>1. Max(s) = k
        <5>1. k <= Max(s) /\ Max(s) \in 1..k BY <3>2, <3>3
        <5> QED BY <5>1
      <4>2. g[s \ {k}] = f[s \ {k}] BY <2>3, <2>4
      <4> QED BY <2>4, <3>3, <4>1, <4>2
    <3>4. CASE k \notin s
      <4>1. s \in SUBSET (1..(k - 1)) BY <2>3, <3>4
      <4>2. f[s] = step[Max(s)][f[s \ {Max(s)}]] BY <2>2, <2>7, <4>1
      <4>3. g[s] = f[s] BY <2>4, <3>4
      <4>4. s \ {Max(s)} \in SUBSET (1..k) /\ k \notin s \ {Max(s)} BY <3>4
      <4>5. g[s \ {Max(s)}] = f[s \ {Max(s)}] BY <2>4, <4>4
      <4> QED BY <4>2, <4>3, <4>5
    <3> QED BY <3>3, <3>4
  <2>8. IsFold(g, k, S, base, step) BY <2>5, <2>6, <2>7 DEF IsFold
  <2> QED BY <2>8
<1> HIDE DEF P
<1>3. \A k \in 0..n : k \in P BY <1>1, <1>2, StepByStep
<1> QED BY <1>3 DEF P

\* The places up to one, without it and with it.
LEMMA UpToPlace ==
  ASSUME NEW n \in Nat, NEW k \in 1..n
  PROVE  1..k \in SUBSET (1..n) /\ 1..k # {} /\ Max(1..k) = k /\ (1..k) \ {k} = 1..(k - 1)
<1>1. 1..k \in SUBSET (1..n) /\ k \in 1..k /\ (1..k) \ {k} = 1..(k - 1)
  OBVIOUS
<1>2. Max(1..k) \in 1..k /\ \A x \in 1..k : x <= Max(1..k)
  <2> DEFINE T == 1..k
  <2>1. T \in SUBSET (1..n) /\ T # {} BY <1>1
  <2> HIDE DEF T
  <2>2. Max(T) \in T /\ \A x \in T : x <= Max(T) BY <2>1, GreatestNumber
  <2> QED BY <2>2 DEF T
<1> QED BY <1>1, <1>2

Paths  == Seq(Segments)
ImportBounds == [entries : Nat, files : Nat, single : Nat, total : Nat]
KeptFiles == [path : Paths, size : Nat]
WarningCodes ==
  {"IMPORT_LANGUAGE_UNSUPPORTED", "IMPORT_LIMITED_ANALYSIS", "IMPORT_ENCODING_DETECTED", "IMPORT_FILE_TOO_LARGE",
   "IMPORT_UNSAFE_PATH"}
WarningsGiven == [code : WarningCodes, path : Paths]
Imports ==
  [refusal : RefusalCodes \cup {NoRefusal}, seen : SUBSET Paths, candidates : Nat, declared : Nat, total : Nat,
   files : Seq(KeptFiles), warnings : Seq(WarningsGiven)]

TooLarge(import) == About(import, "IMPORT_FILE_TOO_LARGE")
Unread(import)   == About(import, "IMPORT_LANGUAGE_UNSUPPORTED")
Outside(import)  == About(import, "IMPORT_UNSAFE_PATH")

\* What a longer list holds.
LEMMA OneMore ==
  ASSUME NEW S, NEW list \in Seq(S), NEW x \in S
  PROVE  /\ Append(list, x) \in Seq(S) /\ Len(Append(list, x)) = Len(list) + 1
         /\ ToSet(Append(list, x)) = ToSet(list) \cup {x}
<1>1. /\ Append(list, x) \in Seq(S) /\ Len(Append(list, x)) = Len(list) + 1 /\ Len(list) \in Nat
      /\ DOMAIN list = 1..Len(list) /\ DOMAIN Append(list, x) = 1..(Len(list) + 1)
      /\ \A i \in 1..Len(list) : Append(list, x)[i] = list[i]
      /\ Append(list, x)[Len(list) + 1] = x
  OBVIOUS
<1> DEFINE m == Len(list)
           longer == Append(list, x)
<1>2. 1..(m + 1) = 1..m \cup {m + 1}
  BY <1>1
<1>3. {longer[i] : i \in 1..(m + 1)} = {list[i] : i \in 1..m} \cup {x}
  <2>1. m \in Nat /\ longer[m + 1] = x /\ \A i \in 1..m : longer[i] = list[i] BY <1>1
  <2> HIDE DEF m, longer
  <2> QED BY <1>2, <2>1
<1> QED BY <1>1, <1>3 DEF ToSet

\* A warning adds itself and changes nothing else.
OnlyWarns(a, b, code, entry) ==
  /\ b \in Imports /\ b.refusal = a.refusal /\ b.seen = a.seen /\ b.files = a.files
  /\ b.candidates = a.candidates /\ b.total = a.total /\ b.declared = a.declared
  /\ \A c : About(b, c) = About(a, c) \cup (IF c = code THEN {entry.path} ELSE {})
  /\ ToSet(b.warnings) = ToSet(a.warnings) \cup {Warning(code, entry)}
LEMMA WarningAdded ==
  ASSUME NEW a \in Imports, NEW code \in WarningCodes, NEW e \in Entries
  PROVE  OnlyWarns(a, Warned(a, code, e), code, e)
<1> DEFINE b == Warned(a, code, e)
           w == Warning(code, e)
<1>1. w \in WarningsGiven /\ w.code = code /\ w.path = e.path
  BY DEF Warning, Entries, Paths, WarningsGiven
<1>2. a.warnings \in Seq(WarningsGiven)
  BY DEF Imports
<1>3. /\ Append(a.warnings, w) \in Seq(WarningsGiven)
      /\ ToSet(Append(a.warnings, w)) = ToSet(a.warnings) \cup {w}
  <2> HIDE DEF w
  <2> QED BY <1>1, <1>2, OneMore
<1>4. b = [a EXCEPT !.warnings = Append(a.warnings, w)]
  BY DEF Warned
<1> HIDE DEF w
<1>5. /\ b \in Imports /\ b.refusal = a.refusal /\ b.seen = a.seen /\ b.files = a.files /\ b.candidates = a.candidates
      /\ b.total = a.total /\ b.declared = a.declared /\ b.warnings = Append(a.warnings, w)
  <2> HIDE DEF b
  <2> QED BY <1>3, <1>4 DEF Imports
<1> HIDE DEF b
<1>6. ASSUME NEW c PROVE About(b, c) = About(a, c) \cup (IF c = code THEN {e.path} ELSE {})
  <2>1. ToSet(b.warnings) = ToSet(a.warnings) \cup {w} BY <1>3, <1>5
  <2> QED BY <1>1, <2>1 DEF About
<1>7. ToSet(b.warnings) = ToSet(a.warnings) \cup {w} BY <1>3, <1>5
<1>8. OnlyWarns(a, b, code, e) BY <1>5, <1>6, <1>7 DEF OnlyWarns, w
<1> QED BY <1>8 DEF b

\* A warning that depends on a condition.
LEMMA PerhapsWarned ==
  ASSUME NEW a \in Imports, NEW code \in WarningCodes, NEW e \in Entries, NEW condition
  PROVE  LET b == WarnedIf(a, condition, code, e)
         IN  /\ b \in Imports /\ b.refusal = a.refusal /\ b.seen = a.seen /\ b.files = a.files
             /\ b.candidates = a.candidates /\ b.total = a.total /\ b.declared = a.declared
             /\ \A c : About(b, c) = About(a, c) \cup (IF condition /\ c = code THEN {e.path} ELSE {})
             /\ ToSet(b.warnings) = ToSet(a.warnings) \cup (IF condition THEN {Warning(code, e)} ELSE {})
<1>1. CASE condition
  <2> DEFINE b == WarnedIf(a, condition, code, e)
             w == Warned(a, code, e)
  <2>1. b = w BY <1>1 DEF WarnedIf
  <2>2. /\ w \in Imports /\ w.refusal = a.refusal /\ w.seen = a.seen /\ w.files = a.files
        /\ w.candidates = a.candidates /\ w.total = a.total /\ w.declared = a.declared
        /\ \A c : About(w, c) = About(a, c) \cup (IF c = code THEN {e.path} ELSE {})
        /\ ToSet(w.warnings) = ToSet(a.warnings) \cup {Warning(code, e)}
    <3>1. OnlyWarns(a, w, code, e) BY WarningAdded
    <3> HIDE DEF w
    <3> QED BY <3>1 DEF OnlyWarns
  <2> HIDE DEF b, w
  <2>3. \A c : About(b, c) = About(a, c) \cup (IF condition /\ c = code THEN {e.path} ELSE {})
    BY <1>1, <2>1, <2>2
  <2> QED BY <1>1, <2>1, <2>2, <2>3 DEF b
<1>2. CASE ~condition
  <2> DEFINE b == WarnedIf(a, condition, code, e)
  <2>1. b = a BY <1>2 DEF WarnedIf
  <2> HIDE DEF b
  <2>2. \A c : About(b, c) = About(a, c) \cup (IF condition /\ c = code THEN {e.path} ELSE {})
    BY <1>2, <2>1
  <2> QED BY <1>2, <2>1, <2>2 DEF b
<1> QED BY <1>1, <1>2

\* An import is refused.
LEMMA RefusalSet ==
  ASSUME NEW a \in Imports, NEW code \in RefusalCodes
  PROVE  LET b == Refused(a, code)
         IN  /\ b \in Imports /\ b.refusal = code /\ b.seen = a.seen /\ b.files = a.files /\ b.warnings = a.warnings
             /\ b.candidates = a.candidates /\ b.total = a.total /\ b.declared = a.declared
             /\ b.refusal # NoRefusal
             /\ \A c : About(b, c) = About(a, c)
<1> DEFINE b == Refused(a, code)
<1>1. /\ b \in Imports /\ b.refusal = code /\ b.seen = a.seen /\ b.files = a.files /\ b.warnings = a.warnings
      /\ b.candidates = a.candidates /\ b.total = a.total /\ b.declared = a.declared
  BY DEF Refused, Imports
<1>2. code # NoRefusal BY NoRefusalIsNoCode
<1> HIDE DEF b
<1>3. \A c : About(b, c) = About(a, c) BY <1>1 DEF About
<1> QED BY <1>1, <1>2, <1>3 DEF b

\* What is told of a file that is kept.
NotesOf(entry) ==
  (IF ExtensionOf(entry.path) \in LimitedAnalysisExtensions THEN {Warning("IMPORT_LIMITED_ANALYSIS", entry)} ELSE {})
    \cup (IF entry.legacy THEN {Warning("IMPORT_ENCODING_DETECTED", entry)} ELSE {})

\* A file is kept, once it is counted.
FileOf(entry) == [path |-> entry.path, size |-> entry.size]
OnlyKeeps(a, b, entry) ==
  /\ b \in Imports /\ b.refusal = a.refusal /\ b.seen = a.seen
  /\ b.candidates = a.candidates /\ b.total = a.total /\ b.declared = a.declared
  /\ b.files = Append(a.files, FileOf(entry))
  /\ TooLarge(b) = TooLarge(a) /\ Unread(b) = Unread(a) /\ Outside(b) = Outside(a)
  /\ ToSet(b.warnings) = ToSet(a.warnings) \cup NotesOf(entry)
LEMMA FileKept ==
  ASSUME NEW a \in Imports, NEW e \in Entries
  PROVE  OnlyKeeps(a, Kept(a, e), e)
<1> DEFINE limited == WarnedIf(a, ExtensionOf(e.path) \in LimitedAnalysisExtensions, "IMPORT_LIMITED_ANALYSIS", e)
           decoded == WarnedIf(limited, e.legacy, "IMPORT_ENCODING_DETECTED", e)
           file == [path |-> e.path, size |-> e.size]
           b == Kept(a, e)
           Same(x, y) == /\ x.refusal = y.refusal /\ x.seen = y.seen /\ x.candidates = y.candidates
                         /\ x.total = y.total /\ x.declared = y.declared
           limitedNote == IF ExtensionOf(e.path) \in LimitedAnalysisExtensions THEN {Warning("IMPORT_LIMITED_ANALYSIS", e)} ELSE {}
           decodedNote == IF e.legacy THEN {Warning("IMPORT_ENCODING_DETECTED", e)} ELSE {}
           Told(x, y) == TooLarge(x) = TooLarge(y) /\ Unread(x) = Unread(y) /\ Outside(x) = Outside(y)
<1>1. /\ limited \in Imports /\ Same(limited, a) /\ limited.files = a.files /\ Told(limited, a)
      /\ ToSet(limited.warnings) = ToSet(a.warnings) \cup limitedNote
  <2> DEFINE condition == ExtensionOf(e.path) \in LimitedAnalysisExtensions
             code == "IMPORT_LIMITED_ANALYSIS"
  <2>0. code \in WarningCodes BY DEF WarningCodes
  <2>1. code # "IMPORT_FILE_TOO_LARGE" /\ code # "IMPORT_LANGUAGE_UNSUPPORTED" /\ code # "IMPORT_UNSAFE_PATH"
    OBVIOUS
  <2>2. limited = WarnedIf(a, condition, code, e) /\ limitedNote = IF condition THEN {Warning(code, e)} ELSE {}
    OBVIOUS
  <2> HIDE DEF condition, code, limited, limitedNote
  <2>3. /\ limited \in Imports /\ Same(limited, a) /\ limited.files = a.files
        /\ \A c : About(limited, c) = About(a, c) \cup (IF condition /\ c = code THEN {e.path} ELSE {})
        /\ ToSet(limited.warnings) = ToSet(a.warnings) \cup limitedNote
    BY <2>0, <2>2, PerhapsWarned
  <2> QED BY <2>1, <2>3 DEF TooLarge, Unread, Outside
<1> HIDE DEF limited
<1>2. /\ decoded \in Imports /\ Same(decoded, a) /\ decoded.files = a.files /\ Told(decoded, a)
      /\ ToSet(decoded.warnings) = ToSet(a.warnings) \cup limitedNote \cup decodedNote
  <2> DEFINE condition == e.legacy
             code == "IMPORT_ENCODING_DETECTED"
  <2>0. code \in WarningCodes BY DEF WarningCodes
  <2>1. code # "IMPORT_FILE_TOO_LARGE" /\ code # "IMPORT_LANGUAGE_UNSUPPORTED" /\ code # "IMPORT_UNSAFE_PATH"
    OBVIOUS
  <2>2. decoded = WarnedIf(limited, condition, code, e) /\ decodedNote = IF condition THEN {Warning(code, e)} ELSE {}
    OBVIOUS
  <2> HIDE DEF condition, code, decoded, decodedNote, limitedNote
  <2>3. /\ decoded \in Imports /\ Same(decoded, limited) /\ decoded.files = limited.files
        /\ \A c : About(decoded, c) = About(limited, c) \cup (IF condition /\ c = code THEN {e.path} ELSE {})
        /\ ToSet(decoded.warnings) = ToSet(limited.warnings) \cup decodedNote
    BY <1>1, <2>0, <2>2, PerhapsWarned
  <2> QED BY <1>1, <2>1, <2>3 DEF TooLarge, Unread, Outside
<1>3. b = [decoded EXCEPT !.files = Append(decoded.files, file)]
  BY DEF Kept, limited
<1> HIDE DEF decoded
<1>4. file \in KeptFiles BY DEF Entries, KeptFiles, Paths
<1>5. a.files \in Seq(KeptFiles) BY DEF Imports
<1> HIDE DEF file, b
<1>6. Append(a.files, file) \in Seq(KeptFiles) BY <1>4, <1>5, OneMore
<1>7. /\ b \in Imports /\ Same(b, decoded) /\ b.files = Append(decoded.files, file) /\ b.warnings = decoded.warnings
  BY <1>2, <1>3, <1>6 DEF Imports
<1>8. Told(b, decoded)
  BY <1>7 DEF TooLarge, Unread, Outside, About
<1>9. /\ Told(b, a) /\ Same(b, a) /\ b.files = Append(a.files, file)
      /\ ToSet(b.warnings) = ToSet(a.warnings) \cup (limitedNote \cup decodedNote)
  <2> HIDE DEF limitedNote, decodedNote
  <2> QED BY <1>2, <1>7, <1>8
<1>10. limitedNote \cup decodedNote = NotesOf(e)
  BY DEF NotesOf
<1> HIDE DEF limitedNote, decodedNote
<1>11. OnlyKeeps(a, b, e) BY <1>7, <1>9, <1>10 DEF OnlyKeeps, FileOf, file
<1> QED BY <1>11 DEF b

\* What a step of an import does: it keeps a file that fits, or warns of one that
\* does not, or neither; nothing that was told is taken back, what is kept is
\* counted, and counts beyond the limits refuse the import.
Grown(a, b, limits) ==
  /\ b \in Imports /\ Unread(a) \subseteq Unread(b) /\ Outside(a) \subseteq Outside(b) /\ a.seen \subseteq b.seen
  /\ b.refusal = NoRefusal => /\ b.candidates = a.candidates \/ b.candidates <= limits.files
                              /\ b.total = a.total \/ b.total <= limits.total
Keeps(a, b, entry, limits) ==
  /\ b.files = Append(a.files, FileOf(entry)) /\ TooLarge(b) = TooLarge(a)
  /\ b.candidates = a.candidates + 1 /\ b.total = a.total + entry.size /\ entry.size <= limits.single
  /\ b.refusal = a.refusal
Warns(a, b, entry) ==
  /\ b.files = a.files /\ TooLarge(b) = TooLarge(a) \cup {entry.path}
  /\ b.candidates >= a.candidates /\ b.total >= a.total /\ b.refusal = a.refusal
Passes(a, b) ==
  /\ b.files = a.files /\ TooLarge(b) = TooLarge(a) /\ b.candidates >= a.candidates /\ b.total >= a.total
SourceStep(a, b, entry, limits) ==
  /\ Grown(a, b, limits)
  /\ Keeps(a, b, entry, limits) \/ Warns(a, b, entry) \/ (Passes(a, b) /\ b.refusal # NoRefusal)

Recounts(a, b, seen, c, d, t) == b = [a EXCEPT !.seen = seen, !.candidates = c, !.declared = d, !.total = t]

\* Counting changes nothing else.
OnlyRecounts(a, b, seen, c, d, t) ==
  /\ b \in Imports /\ b.refusal = a.refusal /\ b.seen = seen /\ b.files = a.files /\ b.warnings = a.warnings
  /\ b.candidates = c /\ b.total = t /\ b.declared = d
  /\ \A code : About(b, code) = About(a, code)
LEMMA CountsAlone ==
  ASSUME NEW a \in Imports, NEW b, NEW seen \in SUBSET Paths, NEW c \in Nat, NEW d \in Nat, NEW t \in Nat,
         Recounts(a, b, seen, c, d, t)
  PROVE  OnlyRecounts(a, b, seen, c, d, t)
<1>1. /\ b \in Imports /\ b.refusal = a.refusal /\ b.seen = seen /\ b.files = a.files /\ b.warnings = a.warnings
      /\ b.candidates = c /\ b.total = t /\ b.declared = d
  BY DEF Imports, Recounts
<1>2. \A code : About(b, code) = About(a, code)
  BY <1>1 DEF About
<1> QED BY <1>1, <1>2 DEF OnlyRecounts

\* A supported file of an archive is kept, warned of, or refuses the archive.
LEMMA ZipSourceStep ==
  ASSUME NEW a \in Imports, a.refusal = NoRefusal, NEW e \in Entries, NEW limits \in ImportBounds
  PROVE  SourceStep(a, ZipSource(a, e, limits), e, limits) /\ ZipSource(a, e, limits).seen = a.seen
<1> DEFINE counted  == [a EXCEPT !.candidates = @ + 1]
           declared == [counted EXCEPT !.declared = @ + e.declared]
           taken    == [declared EXCEPT !.total = @ + e.size]
           b == ZipSource(a, e, limits)
           Like(x) == /\ x \in Imports /\ x.refusal = NoRefusal /\ x.seen = a.seen /\ x.files = a.files
                      /\ x.candidates = a.candidates + 1
                      /\ TooLarge(x) = TooLarge(a) /\ Unread(x) = Unread(a) /\ Outside(x) = Outside(a)
<1>0. /\ a.candidates \in Nat /\ a.declared \in Nat /\ a.total \in Nat /\ e.size \in Nat /\ e.declared \in Nat
      /\ limits.files \in Nat /\ limits.total \in Nat /\ limits.single \in Nat /\ a.seen \in SUBSET Paths
  BY DEF Imports, Entries, ImportBounds
<1>1. Like(counted) /\ counted.total = a.total /\ counted.declared = a.declared
  <2>1. Recounts(a, counted, a.seen, a.candidates + 1, a.declared, a.total)
    BY DEF Imports, Recounts
  <2>2. a.candidates + 1 \in Nat BY <1>0
  <2> HIDE DEF counted
  <2> QED BY <1>0, <2>1, <2>2, CountsAlone DEF OnlyRecounts, TooLarge, Unread, Outside
<1>2. Like(declared) /\ declared.total = a.total /\ declared.declared = a.declared + e.declared
  <2> HIDE DEF counted
  <2>1. Recounts(counted, declared, a.seen, a.candidates + 1, a.declared + e.declared, a.total)
    BY <1>1 DEF Imports, Recounts
  <2>2. a.declared + e.declared \in Nat /\ a.candidates + 1 \in Nat BY <1>0
  <2> HIDE DEF declared
  <2> QED BY <1>0, <1>1, <2>1, <2>2, CountsAlone DEF OnlyRecounts, TooLarge, Unread, Outside
<1>3. Like(taken) /\ taken.total = a.total + e.size
  <2> HIDE DEF counted, declared
  <2>1. Recounts(declared, taken, a.seen, a.candidates + 1, a.declared + e.declared, a.total + e.size)
    BY <1>2 DEF Imports, Recounts
  <2>2. a.declared + e.declared \in Nat /\ a.candidates + 1 \in Nat /\ a.total + e.size \in Nat BY <1>0
  <2> HIDE DEF taken
  <2>3. /\ taken \in Imports /\ taken.refusal = declared.refusal /\ taken.seen = a.seen /\ taken.files = declared.files
        /\ taken.candidates = a.candidates + 1 /\ taken.total = a.total + e.size
        /\ \A code : About(taken, code) = About(declared, code)
    <3> DEFINE seen == a.seen
               c == a.candidates + 1
               d == a.declared + e.declared
               t == a.total + e.size
    <3>1. /\ seen \in SUBSET Paths /\ c \in Nat /\ d \in Nat /\ t \in Nat
          /\ declared \in Imports /\ Recounts(declared, taken, seen, c, d, t)
      BY <1>0, <1>2, <2>1, <2>2
    <3> HIDE DEF seen, c, d, t
    <3>2. /\ taken \in Imports /\ taken.refusal = declared.refusal /\ taken.seen = seen /\ taken.files = declared.files
          /\ taken.candidates = c /\ taken.total = t /\ \A code : About(taken, code) = About(declared, code)
      <4>1. OnlyRecounts(declared, taken, seen, c, d, t) BY <3>1, CountsAlone
      <4> QED BY <4>1 DEF OnlyRecounts
    <3> QED BY <3>2 DEF seen, c, t
  <2> QED BY <1>2, <2>3 DEF TooLarge, Unread, Outside
<1>4. /\ counted.candidates > limits.files => b = Refused(counted, "ZIP_INVALID")
      /\ counted.candidates <= limits.files /\ e.declared > limits.single => b = Warned(counted, "IMPORT_FILE_TOO_LARGE", e)
      /\ counted.candidates <= limits.files /\ ~(e.declared > limits.single) =>
           /\ declared.declared > limits.total => b = Refused(declared, "ZIP_INVALID")
           /\ declared.declared <= limits.total /\ e.size > limits.single => b = Warned(declared, "IMPORT_FILE_TOO_LARGE", e)
           /\ declared.declared <= limits.total /\ ~(e.size > limits.single) =>
                b = IF taken.total > limits.total THEN Refused(taken, "ZIP_INVALID") ELSE Kept(taken, e)
  <2>1. /\ counted.candidates \in Int /\ declared.declared \in Int /\ limits.files \in Int /\ limits.total \in Int
    <3> HIDE DEF counted, declared
    <3> QED BY <1>0, <1>1, <1>2
  <2> QED BY <2>1 DEF ZipSource
<1> HIDE DEF counted, declared, taken, b
<1>5. ASSUME NEW x \in {counted, declared, taken}, b = Refused(x, "ZIP_INVALID")
      PROVE  SourceStep(a, b, e, limits) /\ b.seen = a.seen
  <2>1. "ZIP_INVALID" \in RefusalCodes BY DEF RefusalCodes
  <2>2. Like(x) /\ x.total \in Nat /\ x.total >= a.total BY <1>0, <1>1, <1>2, <1>3
  <2>3. /\ b \in Imports /\ b.seen = x.seen /\ b.files = x.files /\ b.candidates = x.candidates /\ b.total = x.total
        /\ b.refusal # NoRefusal /\ \A c : About(b, c) = About(x, c)
    BY <1>5, <2>1, <2>2, RefusalSet
  <2>4. TooLarge(b) = TooLarge(x) /\ Unread(b) = Unread(x) /\ Outside(b) = Outside(x)
    BY <2>3 DEF TooLarge, Unread, Outside
  <2>5. Passes(a, b) BY <1>0, <2>2, <2>3, <2>4 DEF Passes
  <2>6. Grown(a, b, limits) BY <2>2, <2>3, <2>4 DEF Grown
  <2> QED BY <2>2, <2>3, <2>5, <2>6 DEF SourceStep
<1>6. ASSUME NEW x \in {counted, declared}, b = Warned(x, "IMPORT_FILE_TOO_LARGE", e), a.candidates + 1 <= limits.files
      PROVE  SourceStep(a, b, e, limits) /\ b.seen = a.seen
  <2>1. "IMPORT_FILE_TOO_LARGE" \in WarningCodes BY DEF WarningCodes
  <2>2. Like(x) /\ x.total = a.total BY <1>0, <1>1, <1>2
  <2>3. /\ b \in Imports /\ b.refusal = x.refusal /\ b.seen = x.seen /\ b.files = x.files
        /\ b.candidates = x.candidates /\ b.total = x.total
        /\ \A c : About(b, c) = About(x, c) \cup (IF c = "IMPORT_FILE_TOO_LARGE" THEN {e.path} ELSE {})
    <3>1. OnlyWarns(x, b, "IMPORT_FILE_TOO_LARGE", e) BY <1>6, <2>1, <2>2, WarningAdded
    <3> QED BY <3>1 DEF OnlyWarns
  <2>4. TooLarge(b) = TooLarge(x) \cup {e.path} /\ Unread(b) = Unread(x) /\ Outside(b) = Outside(x)
    BY <2>3 DEF TooLarge, Unread, Outside
  <2>5. Warns(a, b, e) BY <1>0, <2>2, <2>3, <2>4 DEF Warns
  <2>6. Grown(a, b, limits) BY <1>6, <2>2, <2>3, <2>4 DEF Grown
  <2> QED BY <2>2, <2>3, <2>5, <2>6 DEF SourceStep
<1>7. ASSUME b = Kept(taken, e), a.candidates + 1 <= limits.files, ~(taken.total > limits.total), ~(e.size > limits.single)
      PROVE  SourceStep(a, b, e, limits) /\ b.seen = a.seen
  <2>3. /\ b \in Imports /\ b.refusal = taken.refusal /\ b.seen = taken.seen
        /\ b.candidates = taken.candidates /\ b.total = taken.total
        /\ b.files = Append(taken.files, FileOf(e))
        /\ TooLarge(b) = TooLarge(taken) /\ Unread(b) = Unread(taken) /\ Outside(b) = Outside(taken)
    <3>1. OnlyKeeps(taken, b, e) BY <1>3, <1>7, FileKept
    <3> QED BY <3>1 DEF OnlyKeeps
  <2>4. b.files = Append(a.files, FileOf(e)) BY <1>3, <2>3
  <2>5. Keeps(a, b, e, limits)
    <3>1. e.size <= limits.single BY <1>0, <1>7
    <3> QED BY <1>3, <2>3, <2>4, <3>1 DEF Keeps
  <2>6. Grown(a, b, limits) BY <1>0, <1>3, <1>7, <2>3, <2>4 DEF Grown
  <2> QED BY <1>3, <2>3, <2>5, <2>6 DEF SourceStep
<1>8. counted.candidates \in Int /\ declared.declared \in Int /\ taken.total \in Int /\ counted.candidates = a.candidates + 1
  BY <1>0, <1>1, <1>2, <1>3
<1>9. \/ \E x \in {counted, declared, taken} : b = Refused(x, "ZIP_INVALID")
      \/ /\ \E x \in {counted, declared} : b = Warned(x, "IMPORT_FILE_TOO_LARGE", e)
         /\ a.candidates + 1 <= limits.files
      \/ /\ b = Kept(taken, e) /\ a.candidates + 1 <= limits.files
         /\ ~(taken.total > limits.total) /\ ~(e.size > limits.single)
  BY <1>0, <1>4, <1>8
<1> QED BY <1>5, <1>6, <1>7, <1>9 DEF b

\* The bytes of a list of files are those of its first files and of each one more.
LEMMA BytesRun ==
  ASSUME NEW files \in Seq(KeptFiles)
  PROVE  \E r : /\ r \in [0..Len(files) -> Nat] /\ r[0] = 0
                /\ \A k \in 1..Len(files) : r[k] = r[k - 1] + files[k].size
                /\ BytesOf(files) = r[Len(files)]
<1> DEFINE n == Len(files)
           step == [i \in 1..n |-> [sum \in Nat |-> sum + files[i].size]]
           Iter(f) == [s \in SUBSET DOMAIN files |-> IF s = {} THEN 0 ELSE f[s \ {Max(s)}] + files[Max(s)].size]
           it == CHOOSE f : f = Iter(f)
           r == [k \in 0..n |-> it[1..k]]
<1>1. n \in Nat /\ DOMAIN files = 1..n /\ \A i \in 1..n : files[i].size \in Nat
  <2>1. n \in Nat /\ DOMAIN files = 1..n /\ \A i \in 1..n : files[i] \in KeptFiles OBVIOUS
  <2> HIDE DEF n
  <2> QED BY <2>1 DEF KeptFiles
<1>2. PICK f : IsFold(f, n, Nat, 0, step)
  <2>1. \A i \in 1..n : step[i] \in [Nat -> Nat]
    <3> SUFFICES ASSUME NEW i \in 1..n PROVE step[i] \in [Nat -> Nat] OBVIOUS
    <3>1. step[i] = [sum \in Nat |-> sum + files[i].size] OBVIOUS
    <3> HIDE DEF step, n
    <3>2. \A sum \in Nat : sum + files[i].size \in Nat BY <1>1
    <3> QED BY <3>1, <3>2
  <2> HIDE DEF step, n
  <2> QED BY <1>1, <2>1, FoldsExist
<1>3. f = Iter(f)
  <2>1. /\ f \in [SUBSET (1..n) -> Nat] /\ f[{}] = 0
        /\ \A s \in SUBSET (1..n) : s # {} => f[s] = step[Max(s)][f[s \ {Max(s)}]]
    BY <1>2 DEF IsFold
  <2>2. ASSUME NEW s \in SUBSET (1..n), s # {} PROVE f[s] = f[s \ {Max(s)}] + files[Max(s)].size
    <3> DEFINE x == Max(s)
    <3>1. x \in 1..n
      <4>1. Max(s) \in s BY <1>1, <2>2, GreatestNumber
      <4> QED BY <4>1
    <3>2. f[s] = step[x][f[s \ {x}]] BY <2>1, <2>2
    <3>3. f[s \ {x}] \in Nat
      <4>1. s \ {x} \in SUBSET (1..n) OBVIOUS
      <4> HIDE DEF x, step, n
      <4> QED BY <2>1, <4>1
    <3> HIDE DEF x
    <3>4. step[x] = [sum \in Nat |-> sum + files[x].size] BY <3>1
    <3> HIDE DEF step
    <3>5. f[s] = f[s \ {x}] + files[x].size BY <3>2, <3>3, <3>4
    <3> QED BY <3>5 DEF x
  <2> HIDE DEF step, n
  <2>3. f = [s \in SUBSET (1..n) |-> f[s]] BY <2>1
  <2>4. \A s \in SUBSET (1..n) : f[s] = IF s = {} THEN 0 ELSE f[s \ {Max(s)}] + files[Max(s)].size
    BY <2>1, <2>2
  <2>5. f = [s \in SUBSET (1..n) |-> IF s = {} THEN 0 ELSE f[s \ {Max(s)}] + files[Max(s)].size]
    BY <2>3, <2>4
  <2> QED BY <1>1, <2>5
<1>4. it = Iter(it)
  <2> HIDE DEF Iter
  <2> QED BY <1>3
<1>5. it[{}] = 0 /\ \A s \in SUBSET (1..n) : s # {} => it[s] = it[s \ {Max(s)}] + files[Max(s)].size
  <2>1. \A s \in SUBSET (1..n) : Iter(it)[s] = IF s = {} THEN 0 ELSE it[s \ {Max(s)}] + files[Max(s)].size
    BY <1>1
  <2> HIDE DEF it, Iter
  <2> QED BY <1>4, <2>1
<1>6. BytesOf(files) = it[1..n]
  <2>1. BytesOf(files) = it[DOMAIN files]
    BY DEF BytesOf, FoldLeft, MapThenFoldSet, it, Iter
  <2> QED BY <1>1, <2>1
<1> HIDE DEF it, Iter
<1>7. r[0] = 0 /\ r[n] = it[1..n]
  <2>1. 0 \in 0..n /\ n \in 0..n /\ 1..0 = {} BY <1>1
  <2> HIDE DEF n
  <2> QED BY <1>5, <2>1
<1>8. ASSUME NEW k \in 1..n PROVE r[k] = r[k - 1] + files[k].size
  <2>1. k \in 0..n /\ k - 1 \in 0..n BY <1>1
  <2>2. 1..k \in SUBSET (1..n) /\ 1..k # {} /\ Max(1..k) = k /\ (1..k) \ {k} = 1..(k - 1)
    <3> HIDE DEF n
    <3> QED BY <1>1, UpToPlace
  <2>3. it[1..k] = it[1..(k - 1)] + files[k].size
    BY <1>5, <2>2
  <2> QED BY <2>1, <2>3
<1>9. r \in [0..n -> Nat]
  <2> DEFINE P == {k \in 0..n : r[k] \in Nat}
  <2>1. 0 \in P BY <1>1, <1>7
  <2>2. ASSUME NEW k \in 1..n, k - 1 \in P PROVE k \in P
    <3>1. r[k - 1] \in Nat /\ k \in 0..n /\ files[k].size \in Nat BY <1>1, <2>2
    <3> HIDE DEF r
    <3> QED BY <1>8, <3>1
  <2>3. \A k \in 0..n : k \in P
    <3> HIDE DEF P, n
    <3> QED BY <1>1, <2>1, <2>2, StepByStep
  <2>4. \A k \in 0..n : r[k] \in Nat BY <2>3
  <2>5. r = [k \in 0..n |-> r[k]] OBVIOUS
  <2> HIDE DEF r
  <2> QED BY ONLY <2>4, <2>5
<1>10. /\ r \in [0..Len(files) -> Nat] /\ r[0] = 0
       /\ \A k \in 1..Len(files) : r[k] = r[k - 1] + files[k].size
       /\ BytesOf(files) = r[Len(files)]
  BY <1>6, <1>7, <1>8, <1>9
<1> HIDE DEF r
<1> QED BY <1>10

\* One more file adds its bytes.
LEMMA BytesAdd ==
  /\ BytesOf(<<>>) = 0
  /\ \A files \in Seq(KeptFiles) : \A file \in KeptFiles :
       BytesOf(files) \in Nat /\ BytesOf(Append(files, file)) = BytesOf(files) + file.size
<1>1. BytesOf(<<>>) = 0
  <2>1. <<>> \in Seq(KeptFiles) /\ Len(<<>>) = 0 OBVIOUS
  <2>2. PICK r : r[0] = 0 /\ BytesOf(<<>>) = r[Len(<<>>)] BY <2>1, BytesRun
  <2> QED BY <2>1, <2>2
<1>2. ASSUME NEW files \in Seq(KeptFiles), NEW file \in KeptFiles
      PROVE  BytesOf(files) \in Nat /\ BytesOf(Append(files, file)) = BytesOf(files) + file.size
  <2> DEFINE longer == Append(files, file)
             n == Len(files)
  <2>1. /\ longer \in Seq(KeptFiles) /\ Len(longer) = n + 1 /\ n \in Nat
        /\ \A k \in 1..n : longer[k] = files[k]
        /\ longer[n + 1] = file
    OBVIOUS
  <2>2. PICK r : /\ r \in [0..n -> Nat] /\ r[0] = 0 /\ \A k \in 1..n : r[k] = r[k - 1] + files[k].size
                 /\ BytesOf(files) = r[n]
    BY BytesRun
  <2> HIDE DEF longer
  <2>3. PICK q : /\ q \in [0..Len(longer) -> Nat] /\ q[0] = 0
                 /\ \A k \in 1..Len(longer) : q[k] = q[k - 1] + longer[k].size
                 /\ BytesOf(longer) = q[Len(longer)]
    BY <2>1, BytesRun
  <2> HIDE DEF n
  <2> DEFINE P == {k \in 0..n : q[k] = r[k]}
  <2>4. 0 \in P BY <2>1, <2>2, <2>3
  <2>5. ASSUME NEW k \in 1..n, k - 1 \in P PROVE k \in P
    <3>1. k \in 1..Len(longer) /\ k \in 0..n BY <2>1
    <3>2. q[k - 1] = r[k - 1] BY <2>5
    <3> QED BY <2>1, <2>2, <2>3, <3>1, <3>2
  <2>6. \A k \in 0..n : k \in P
    <3> HIDE DEF P
    <3> QED BY <2>1, <2>4, <2>5, StepByStep
  <2>7. q[n] = r[n] /\ r[n] \in Nat BY <2>1, <2>2, <2>6
  <2>8. q[n + 1] = q[n] + file.size
    <3>1. n + 1 \in 1..Len(longer) /\ (n + 1) - 1 = n BY <2>1
    <3> QED BY <2>1, <2>3, <3>1
  <2> QED BY <2>1, <2>2, <2>3, <2>7, <2>8 DEF longer
<1> QED BY <1>1, <1>2

\* The books of an import over the entries considered so far: a path is kept once,
\* or warned of, and not both; the counts cover what is kept; and while the import
\* is not refused every entry considered is answered and the limits hold.
Answered(import, entry) ==
  /\ IsSupported(entry.path) => entry.path \in KeptPaths(import) \cup TooLarge(import)
  /\ ExtensionOf(entry.path) \in UnsupportedCodeExtensions => entry.path \in Unread(import)
PathsOf(entries) == {entry.path : entry \in entries}
Booked(import, considered, limits) ==
  /\ import \in Imports
  /\ \A i, j \in DOMAIN import.files : i # j => import.files[i].path # import.files[j].path
  /\ KeptPaths(import) \cap TooLarge(import) = {}
  /\ KeptPaths(import) \cup TooLarge(import) \subseteq PathsOf(considered)
  /\ BytesOf(import.files) <= import.total /\ Len(import.files) <= import.candidates
  /\ \A file \in ToSet(import.files) : file.size <= limits.single
  /\ import.refusal = NoRefusal =>
       /\ import.candidates <= limits.files /\ import.total <= limits.total
       /\ \A entry \in considered : Answered(import, entry)

\* Before the first entry nothing is kept and nothing is missing.
LEMMA NothingBooked ==
  ASSUME NEW limits \in ImportBounds
  PROVE  Booked(NothingRead, {}, limits) /\ NothingRead.refusal = NoRefusal
<1>1. NothingRead \in Imports
  BY DEF NothingRead, Imports
<1>2. /\ NothingRead.files = <<>> /\ NothingRead.warnings = <<>> /\ NothingRead.candidates = 0
      /\ NothingRead.total = 0 /\ NothingRead.refusal = NoRefusal
  BY DEF NothingRead
<1>3. ToSet(<<>>) = {} /\ DOMAIN <<>> = {} /\ Len(<<>>) = 0
  BY DEF ToSet
<1>4. KeptPaths(NothingRead) = {} /\ TooLarge(NothingRead) = {}
  BY <1>2, <1>3 DEF KeptPaths, TooLarge, About
<1>5. BytesOf(<<>>) = 0
  BY BytesAdd
<1>6. limits.files \in Nat /\ limits.total \in Nat
  BY DEF ImportBounds
<1> QED BY <1>1, <1>2, <1>3, <1>4, <1>5, <1>6 DEF Booked, PathsOf

\* What a file more makes of the kept paths.
LEMMA KeptPathsGrow ==
  ASSUME NEW a \in Imports, NEW b, NEW e \in Entries, b.files = Append(a.files, FileOf(e))
  PROVE  /\ KeptPaths(b) = KeptPaths(a) \cup {e.path} /\ FileOf(e) \in KeptFiles
         /\ a.files \in Seq(KeptFiles) /\ ToSet(b.files) = ToSet(a.files) \cup {FileOf(e)}
<1>1. FileOf(e) \in KeptFiles /\ FileOf(e).path = e.path
  BY DEF FileOf, KeptFiles, Entries, Paths
<1>2. a.files \in Seq(KeptFiles)
  BY DEF Imports
<1>3. ToSet(b.files) = ToSet(a.files) \cup {FileOf(e)}
  BY <1>1, <1>2, OneMore
<1>4. KeptPaths(b) = KeptPaths(a) \cup {e.path}
  BY <1>1, <1>3 DEF KeptPaths
<1> QED BY <1>1, <1>2, <1>3, <1>4

\* What was answered stays answered.
LEMMA AnswersStay ==
  ASSUME NEW a, NEW b, NEW e, Answered(a, e), KeptPaths(a) \subseteq KeptPaths(b),
         TooLarge(a) \subseteq TooLarge(b), Unread(a) \subseteq Unread(b)
  PROVE  Answered(b, e)
BY DEF Answered

\* A step that passes keeps the books.
LEMMA BooksPass ==
  ASSUME NEW limits \in ImportBounds, NEW considered, NEW more, NEW a, NEW b,
         Booked(a, considered, limits), Grown(a, b, limits), Passes(a, b),
         b.refusal = NoRefusal => a.refusal = NoRefusal /\ \A e \in more : Answered(b, e)
  PROVE  Booked(b, considered \cup more, limits)
<1>1. a \in Imports /\ b \in Imports /\ b.files = a.files /\ TooLarge(b) = TooLarge(a)
  BY DEF Booked, Grown, Passes
<1>2. KeptPaths(b) = KeptPaths(a)
  BY <1>1 DEF KeptPaths
<1>3. /\ a.candidates \in Nat /\ b.candidates \in Nat /\ a.total \in Nat /\ b.total \in Nat
      /\ a.files \in Seq(KeptFiles) /\ limits.files \in Nat /\ limits.total \in Nat
  BY <1>1 DEF Imports, ImportBounds
<1>4. BytesOf(a.files) \in Nat /\ Len(a.files) \in Nat
  <2>1. \E file : file \in KeptFiles
    <3>1. [path |-> <<>>, size |-> 0] \in KeptFiles BY DEF KeptFiles, Paths
    <3> QED BY <3>1
  <2> QED BY <1>3, <2>1, BytesAdd
<1>5. BytesOf(b.files) <= b.total /\ Len(b.files) <= b.candidates
  <2>1. BytesOf(a.files) <= a.total /\ Len(a.files) <= a.candidates BY DEF Booked
  <2>2. b.candidates >= a.candidates /\ b.total >= a.total BY DEF Passes
  <2> QED BY <1>1, <1>3, <1>4, <2>1, <2>2
<1>6. ASSUME b.refusal = NoRefusal
      PROVE  /\ b.candidates <= limits.files /\ b.total <= limits.total
             /\ \A entry \in considered \cup more : Answered(b, entry)
  <2>1. a.refusal = NoRefusal BY <1>6
  <2>2. a.candidates <= limits.files /\ a.total <= limits.total /\ \A entry \in considered : Answered(a, entry)
    BY <2>1 DEF Booked
  <2>3. \A entry \in considered : Answered(b, entry)
    <3>1. Unread(a) \subseteq Unread(b) BY DEF Grown
    <3> QED BY <1>1, <1>2, <2>2, <3>1, AnswersStay
  <2>4. b.candidates <= limits.files /\ b.total <= limits.total
    BY <1>6, <2>2 DEF Grown
  <2> QED BY <1>6, <2>3, <2>4
<1>7. PathsOf(considered) \subseteq PathsOf(considered \cup more)
  BY DEF PathsOf
<1> QED BY <1>1, <1>2, <1>5, <1>6, <1>7 DEF Booked

\* A step that keeps a file or warns of it keeps the books, if its path is new.
LEMMA BooksKeep ==
  ASSUME NEW limits \in ImportBounds, NEW considered, NEW a, NEW b, NEW e \in Entries,
         Booked(a, considered, limits), a.refusal = NoRefusal, SourceStep(a, b, e, limits),
         IsSupported(e.path), e.path \notin PathsOf(considered)
  PROVE  Booked(b, considered \cup {e}, limits)
<1>1. a \in Imports /\ b \in Imports /\ Unread(a) \subseteq Unread(b) /\ Grown(a, b, limits)
  BY DEF Booked, SourceStep, Grown
<1>2. /\ a.candidates \in Nat /\ b.candidates \in Nat /\ a.total \in Nat /\ b.total \in Nat
      /\ a.files \in Seq(KeptFiles) /\ limits.files \in Nat /\ limits.total \in Nat /\ e.size \in Nat
  BY <1>1 DEF Imports, ImportBounds, Entries
<1>3. BytesOf(a.files) \in Nat /\ Len(a.files) \in Nat
  <2>1. FileOf(e) \in KeptFiles BY DEF FileOf, KeptFiles, Entries, Paths
  <2> QED BY <1>2, <2>1, BytesAdd
<1>4. /\ a.candidates <= limits.files /\ a.total <= limits.total /\ \A entry \in considered : Answered(a, entry)
      /\ BytesOf(a.files) <= a.total /\ Len(a.files) <= a.candidates
      /\ KeptPaths(a) \cap TooLarge(a) = {} /\ KeptPaths(a) \cup TooLarge(a) \subseteq PathsOf(considered)
      /\ \A i, j \in DOMAIN a.files : i # j => a.files[i].path # a.files[j].path
      /\ \A file \in ToSet(a.files) : file.size <= limits.single
  BY DEF Booked
<1>5. PathsOf(considered \cup {e}) = PathsOf(considered) \cup {e.path}
  BY DEF PathsOf
<1>6. ExtensionOf(e.path) \notin UnsupportedCodeExtensions
  BY DEF IsSupported, SupportedSourceExtensions, LimitedAnalysisExtensions, UnsupportedCodeExtensions
<1>7. CASE Passes(a, b) /\ b.refusal # NoRefusal
  BY <1>1, <1>7, BooksPass
<1>8. ASSUME Keeps(a, b, e, limits) \/ Warns(a, b, e),
             KeptPaths(a) \subseteq KeptPaths(b), TooLarge(a) \subseteq TooLarge(b),
             e.path \in KeptPaths(b) \cup TooLarge(b)
      PROVE  /\ b.candidates <= limits.files /\ b.total <= limits.total
             /\ \A entry \in considered \cup {e} : Answered(b, entry)
  <2>1. b.refusal = NoRefusal BY <1>8 DEF Keeps, Warns
  <2>2. b.candidates <= limits.files /\ b.total <= limits.total
    BY <1>1, <1>4, <2>1 DEF Grown
  <2>3. \A entry \in considered : Answered(b, entry)
    BY <1>1, <1>4, <1>8, AnswersStay
  <2>4. Answered(b, e) BY <1>6, <1>8 DEF Answered
  <2> QED BY <2>2, <2>3, <2>4
<1>9. CASE Keeps(a, b, e, limits)
  <2>1. /\ b.files = Append(a.files, FileOf(e)) /\ TooLarge(b) = TooLarge(a) /\ b.candidates = a.candidates + 1
        /\ b.total = a.total + e.size /\ e.size <= limits.single
    BY <1>9 DEF Keeps
  <2>2. /\ KeptPaths(b) = KeptPaths(a) \cup {e.path} /\ FileOf(e) \in KeptFiles
        /\ ToSet(b.files) = ToSet(a.files) \cup {FileOf(e)}
    BY <1>1, <2>1, KeptPathsGrow
  <2>3. FileOf(e).size = e.size /\ FileOf(e).path = e.path BY DEF FileOf
  <2>4. BytesOf(b.files) <= b.total /\ Len(b.files) <= b.candidates
    <3>1. BytesOf(b.files) = BytesOf(a.files) + e.size BY <1>2, <2>1, <2>2, <2>3, BytesAdd
    <3>2. Len(b.files) = Len(a.files) + 1 BY <1>2, <2>1, <2>2, OneMore
    <3>3. BytesOf(a.files) + e.size <= b.total /\ Len(a.files) + 1 <= b.candidates
      <4>1. BytesOf(a.files) <= a.total /\ Len(a.files) <= a.candidates BY <1>4
      <4>2. b.total = a.total + e.size /\ b.candidates = a.candidates + 1 BY <2>1
      <4> QED BY ONLY <1>2, <1>3, <4>1, <4>2
    <3> QED BY <3>1, <3>2, <3>3
  <2>5. \A i, j \in DOMAIN b.files : i # j => b.files[i].path # b.files[j].path
    <3> DEFINE n == Len(a.files)
    <3>1. /\ DOMAIN a.files = 1..n /\ DOMAIN b.files = 1..(n + 1) /\ n \in Nat
          /\ \A i \in 1..n : b.files[i] = a.files[i]
          /\ b.files[n + 1] = FileOf(e)
      BY <1>2, <2>1, <2>2
    <3>2. \A i \in 1..n : b.files[i].path \in PathsOf(considered)
      <4>1. \A i \in 1..n : a.files[i].path \in KeptPaths(a)
        BY <3>1 DEF KeptPaths, ToSet
      <4> HIDE DEF n
      <4> QED BY <1>4, <3>1, <4>1
    <3>3. \A i \in 1..(n + 1) : i \in 1..n \/ i = n + 1 BY <3>1
    <3> HIDE DEF n
    <3> QED BY <1>4, <2>3, <3>1, <3>2, <3>3
  <2>6. KeptPaths(b) \cap TooLarge(b) = {} /\ KeptPaths(b) \cup TooLarge(b) \subseteq PathsOf(considered \cup {e})
    BY <1>4, <1>5, <2>1, <2>2
  <2>7. \A file \in ToSet(b.files) : file.size <= limits.single
    BY <1>4, <2>1, <2>2, <2>3
  <2>8. /\ b.candidates <= limits.files /\ b.total <= limits.total
        /\ \A entry \in considered \cup {e} : Answered(b, entry)
    BY <1>8, <1>9, <2>1, <2>2
  <2> QED BY <1>1, <2>4, <2>5, <2>6, <2>7, <2>8 DEF Booked
<1>10. CASE Warns(a, b, e)
  <2>1. /\ b.files = a.files /\ TooLarge(b) = TooLarge(a) \cup {e.path}
        /\ b.candidates >= a.candidates /\ b.total >= a.total
    BY <1>10 DEF Warns
  <2>2. KeptPaths(b) = KeptPaths(a) BY <2>1 DEF KeptPaths
  <2>4. BytesOf(b.files) <= b.total /\ Len(b.files) <= b.candidates
    BY <1>2, <1>3, <1>4, <2>1
  <2>6. KeptPaths(b) \cap TooLarge(b) = {} /\ KeptPaths(b) \cup TooLarge(b) \subseteq PathsOf(considered \cup {e})
    BY <1>4, <1>5, <2>1, <2>2
  <2>8. /\ b.candidates <= limits.files /\ b.total <= limits.total
        /\ \A entry \in considered \cup {e} : Answered(b, entry)
    BY <1>8, <1>10, <2>1, <2>2
  <2> QED BY <1>1, <1>4, <2>1, <2>4, <2>6, <2>8 DEF Booked
<1> QED BY <1>7, <1>9, <1>10 DEF SourceStep

\* Paths that differ in the case of letters alone collide.
LEMMA KeysCollide ==
  /\ \A path \in Paths : CollisionKey(path) \in Paths /\ (path # <<>> => CollisionKey(path) # <<>>)
  /\ \A p, q \in Paths : SameName(p, q) => CollisionKey(p) = CollisionKey(q)
<1>1. ASSUME NEW s \in Segments
      PROVE  /\ [s EXCEPT !.upper = FALSE] \in Segments
             /\ [s EXCEPT !.upper = FALSE].stem = s.stem /\ [s EXCEPT !.upper = FALSE].ext = s.ext
             /\ [s EXCEPT !.upper = FALSE].upper = FALSE
  BY DEF Segments
<1>2. \A s, t \in Segments : s.stem = t.stem /\ s.ext = t.ext /\ s.upper = t.upper => s = t
  BY DEF Segments
<1>3. ASSUME NEW s \in Segments, NEW t \in Segments, s.stem = t.stem, s.ext = t.ext
      PROVE  [s EXCEPT !.upper = FALSE] = [t EXCEPT !.upper = FALSE]
  <2> DEFINE x == [s EXCEPT !.upper = FALSE]
             y == [t EXCEPT !.upper = FALSE]
  <2>1. x \in Segments /\ y \in Segments /\ x.stem = y.stem /\ x.ext = y.ext /\ x.upper = FALSE /\ y.upper = FALSE
    BY <1>1, <1>3
  <2> HIDE DEF x, y
  <2>2. x = y BY <1>2, <2>1
  <2> QED BY <2>2 DEF x, y
<1>4. ASSUME NEW path \in Paths
      PROVE  CollisionKey(path) \in Paths /\ (path # <<>> => CollisionKey(path) # <<>>)
  <2>1. Len(path) \in Nat /\ DOMAIN path = 1..Len(path) /\ \A i \in 1..Len(path) : path[i] \in Segments
    BY DEF Paths
  <2>2. CollisionKey(path) = [i \in 1..Len(path) |-> [path[i] EXCEPT !.upper = FALSE]]
    BY <2>1 DEF CollisionKey
  <2>3. \A i \in 1..Len(path) : [path[i] EXCEPT !.upper = FALSE] \in Segments
    BY <1>1, <2>1
  <2>4. CollisionKey(path) \in [1..Len(path) -> Segments]
    BY <2>2, <2>3
  <2>5. path # <<>> => CollisionKey(path) # <<>>
    <3> SUFFICES ASSUME path # <<>>, CollisionKey(path) = <<>> PROVE FALSE OBVIOUS
    <3>1. Len(path) # 0 BY <2>1 DEF Paths
    <3>2. 1 \in DOMAIN CollisionKey(path) BY <2>1, <2>4, <3>1
    <3> QED BY <3>2
  <2>6. CollisionKey(path) \in Seq(Segments)
    BY <2>1, <2>4, SeqDef
  <2> QED BY <2>5, <2>6 DEF Paths
<1>5. ASSUME NEW p \in Paths, NEW q \in Paths, SameName(p, q) PROVE CollisionKey(p) = CollisionKey(q)
  <2>1. /\ DOMAIN p = 1..Len(p) /\ \A i \in 1..Len(p) : p[i] \in Segments
        /\ DOMAIN q = 1..Len(q) /\ \A i \in 1..Len(q) : q[i] \in Segments
    BY DEF Paths
  <2>2. Len(p) = Len(q) /\ \A i \in 1..Len(p) : p[i].stem = q[i].stem /\ p[i].ext = q[i].ext
    BY <1>5, <2>1 DEF SameName
  <2>3. \A i \in 1..Len(p) : [p[i] EXCEPT !.upper = FALSE] = [q[i] EXCEPT !.upper = FALSE]
    BY <1>3, <2>1, <2>2
  <2>4. /\ CollisionKey(p) = [i \in 1..Len(p) |-> [p[i] EXCEPT !.upper = FALSE]]
        /\ CollisionKey(q) = [i \in 1..Len(p) |-> [q[i] EXCEPT !.upper = FALSE]]
    BY <2>1, <2>2 DEF CollisionKey
  <2> QED BY <2>3, <2>4
<1> QED BY <1>4, <1>5

\* The code in a language that is not read is told.
LEMMA UnsupportedTold ==
  ASSUME NEW a \in Imports, NEW e \in Entries, NEW limits \in ImportBounds
  PROVE  LET b == Unsupported(a, e)
         IN  /\ Grown(a, b, limits) /\ Passes(a, b) /\ b.refusal = a.refusal /\ b.seen = a.seen
             /\ ExtensionOf(e.path) \in UnsupportedCodeExtensions => e.path \in Unread(b)
             /\ b.candidates = a.candidates /\ b.total = a.total
             /\ \A c : c # "IMPORT_LANGUAGE_UNSUPPORTED" => About(b, c) = About(a, c)
<1> DEFINE b == Unsupported(a, e)
           condition == ExtensionOf(e.path) \in UnsupportedCodeExtensions
           code == "IMPORT_LANGUAGE_UNSUPPORTED"
<1>0. code \in WarningCodes BY DEF WarningCodes
<1>1. code # "IMPORT_FILE_TOO_LARGE" /\ code # "IMPORT_UNSAFE_PATH" OBVIOUS
<1>2. b = WarnedIf(a, condition, code, e) BY DEF Unsupported
<1>3. Unread(a) = About(a, code) /\ Unread(b) = About(b, code) BY DEF Unread
<1> HIDE DEF b, condition, code
<1>4. /\ b \in Imports /\ b.refusal = a.refusal /\ b.seen = a.seen /\ b.files = a.files
      /\ b.candidates = a.candidates /\ b.total = a.total
      /\ \A c : About(b, c) = About(a, c) \cup (IF condition /\ c = code THEN {e.path} ELSE {})
  BY <1>0, <1>2, PerhapsWarned
<1>5. TooLarge(b) = TooLarge(a) /\ Outside(b) = Outside(a)
  BY <1>1, <1>4 DEF TooLarge, Outside
<1>6. Unread(a) \subseteq Unread(b) /\ (condition => e.path \in Unread(b))
  BY <1>3, <1>4
<1>7. a.candidates \in Nat /\ a.total \in Nat
  BY DEF Imports
<1>8. Grown(a, b, limits) /\ Passes(a, b)
  BY <1>4, <1>5, <1>6, <1>7 DEF Grown, Passes
<1>9. \A c : c # code => About(b, c) = About(a, c)
  BY <1>4
<1> QED BY <1>4, <1>6, <1>8, <1>9 DEF b, condition, code

\* An entry of an archive that is looked for among the sources.
InZip(entry) == entry.kind # "directory" /\ ~IgnoredByZip(entry.path)

\* What reading an entry of an archive does, if it refuses nothing: its key is new,
\* it is safe if it is no directory, and it is kept or warned of if it is a source.
ZipReads(a, b, e, limits) ==
  /\ a.refusal = NoRefusal /\ b.refusal = NoRefusal
  /\ CollisionKey(e.path) \notin a.seen /\ b.seen = a.seen \cup ({CollisionKey(e.path)} \ {<<>>})
  /\ e.kind # "directory" => ~IsAbsolute(e) /\ IsSafeRelativePath(e.path)
  /\ \/ InZip(e) /\ IsSupported(e.path) /\ SourceStep(a, b, e, limits)
     \/ Grown(a, b, limits) /\ Passes(a, b) /\ (InZip(e) => Answered(b, e))

\* An entry of an archive is read as its kind asks, or refuses the archive; what
\* is refused keeps what it told.
LEMMA ZipStep ==
  ASSUME NEW a \in Imports, NEW e \in Entries, NEW limits \in ImportBounds
  PROVE  LET b == ZipEntry(a, e, limits)
         IN  \/ ZipReads(a, b, e, limits)
             \/ b.refusal # NoRefusal /\ Grown(a, b, limits) /\ Passes(a, b)
<1> DEFINE b == ZipEntry(a, e, limits)
           key == CollisionKey(e.path)
           seen == [a EXCEPT !.seen = @ \cup ({key} \ {<<>>})]
<1>0. /\ a.candidates \in Nat /\ a.declared \in Nat /\ a.total \in Nat /\ a.seen \in SUBSET Paths /\ e.path \in Paths
  BY DEF Imports, Entries, Paths
<1>1. /\ seen \in Imports /\ seen.refusal = a.refusal /\ seen.seen = a.seen \cup ({key} \ {<<>>})
      /\ seen.files = a.files /\ seen.candidates = a.candidates /\ seen.total = a.total
      /\ TooLarge(seen) = TooLarge(a) /\ Unread(seen) = Unread(a) /\ Outside(seen) = Outside(a)
  <2> DEFINE grown == a.seen \cup ({key} \ {<<>>})
  <2>1. Recounts(a, seen, grown, a.candidates, a.declared, a.total)
    BY DEF Recounts, Imports
  <2>2. grown \in SUBSET Paths BY <1>0, KeysCollide
  <2> HIDE DEF grown, seen
  <2>3. /\ seen \in Imports /\ seen.refusal = a.refusal /\ seen.seen = grown /\ seen.files = a.files
        /\ seen.candidates = a.candidates /\ seen.total = a.total /\ \A code : About(seen, code) = About(a, code)
    <3> DEFINE c == a.candidates
               d == a.declared
               t == a.total
    <3>1. c \in Nat /\ d \in Nat /\ t \in Nat /\ grown \in SUBSET Paths /\ Recounts(a, seen, grown, c, d, t)
      BY <1>0, <2>1, <2>2
    <3> HIDE DEF c, d, t
    <3>2. /\ seen \in Imports /\ seen.refusal = a.refusal /\ seen.seen = grown /\ seen.files = a.files
          /\ seen.candidates = c /\ seen.total = t /\ \A code : About(seen, code) = About(a, code)
      <4>1. OnlyRecounts(a, seen, grown, c, d, t) BY <3>1, CountsAlone
      <4> QED BY <4>1 DEF OnlyRecounts
    <3> QED BY <3>2 DEF c, t
  <2> QED BY <2>3 DEF TooLarge, Unread, Outside, grown
<1>2. ASSUME a.refusal # NoRefusal
      PROVE  b.refusal # NoRefusal /\ Grown(a, b, limits) /\ Passes(a, b)
  <2>1. b = a BY <1>2 DEF ZipEntry
  <2> HIDE DEF b
  <2> QED BY <1>0, <1>2, <2>1 DEF Grown, Passes
<1>3. ASSUME NEW x \in {a, seen}, NEW code \in RefusalCodes, b = Refused(x, code)
      PROVE  b.refusal # NoRefusal /\ Grown(a, b, limits) /\ Passes(a, b)
  <2> HIDE DEF b, seen
  <2>1. /\ x \in Imports /\ a.seen \subseteq x.seen /\ x.files = a.files /\ x.candidates = a.candidates /\ x.total = a.total
        /\ TooLarge(x) = TooLarge(a) /\ Unread(x) = Unread(a) /\ Outside(x) = Outside(a)
    BY <1>1, <1>3
  <2>2. /\ b \in Imports /\ b.seen = x.seen /\ b.files = x.files /\ b.refusal # NoRefusal
        /\ b.candidates = x.candidates /\ b.total = x.total /\ \A c : About(b, c) = About(x, c)
    BY <1>3, <2>1, RefusalSet
  <2>3. TooLarge(b) = TooLarge(a) /\ Unread(b) = Unread(a) /\ Outside(b) = Outside(a)
    BY <2>1, <2>2 DEF TooLarge, Unread, Outside
  <2> QED BY <1>0, <2>1, <2>2, <2>3 DEF Grown, Passes
<1>4. CASE a.refusal = NoRefusal /\ key \in a.seen
  <2>1. b = Refused(a, "ZIP_DUPLICATE_PATH") BY <1>4 DEF ZipEntry
  <2>2. "ZIP_DUPLICATE_PATH" \in RefusalCodes BY DEF RefusalCodes
  <2> HIDE DEF b, seen
  <2>3. b.refusal # NoRefusal /\ Grown(a, b, limits) /\ Passes(a, b)
    BY <1>3, <2>1, <2>2
  <2> QED BY <2>3 DEF b
<1>5. CASE a.refusal = NoRefusal /\ key \notin a.seen
  <2>1. b = CASE e.kind = "directory" -> seen
               [] e.kind # "directory" /\ (IsAbsolute(e) \/ ~IsSafeRelativePath(e.path)) -> Refused(seen, "ZIP_UNSAFE_PATH")
               [] OTHER -> CASE IgnoredByZip(e.path) -> seen
                             [] ~IgnoredByZip(e.path) /\ ~IsSupported(e.path) -> Unsupported(seen, e)
                             [] OTHER -> ZipSource(seen, e, limits)
    BY <1>5 DEF ZipEntry
  <2> HIDE DEF seen, b
  <2>2. CASE e.kind # "directory" /\ (IsAbsolute(e) \/ ~IsSafeRelativePath(e.path))
    <3>1. b = Refused(seen, "ZIP_UNSAFE_PATH") BY <2>1, <2>2
    <3>2. "ZIP_UNSAFE_PATH" \in RefusalCodes BY DEF RefusalCodes
    <3>3. b.refusal # NoRefusal /\ Grown(a, b, limits) /\ Passes(a, b)
      BY <1>3, <3>1, <3>2
    <3> QED BY <3>3 DEF b
  <2>3. CASE e.kind = "directory" \/ (~(IsAbsolute(e) \/ ~IsSafeRelativePath(e.path)) /\ IgnoredByZip(e.path))
    <3>1. b = seen BY <2>1, <2>3
    <3>2. Grown(a, b, limits) /\ Passes(a, b) BY <1>0, <1>1, <3>1 DEF Grown, Passes
    <3>3. ~InZip(e) /\ (e.kind # "directory" => ~IsAbsolute(e) /\ IsSafeRelativePath(e.path))
      BY <2>3 DEF InZip
    <3>4. ZipReads(a, b, e, limits) BY <1>1, <1>5, <3>1, <3>2, <3>3 DEF ZipReads, key
    <3> QED BY <3>4 DEF b
  <2>4. CASE /\ e.kind # "directory" /\ ~(IsAbsolute(e) \/ ~IsSafeRelativePath(e.path))
             /\ ~IgnoredByZip(e.path) /\ ~IsSupported(e.path)
    <3>1. b = Unsupported(seen, e) BY <2>1, <2>4
    <3>2. /\ Grown(seen, b, limits) /\ Passes(seen, b) /\ b.refusal = seen.refusal /\ b.seen = seen.seen
          /\ ExtensionOf(e.path) \in UnsupportedCodeExtensions => e.path \in Unread(b)
      BY <1>1, <3>1, UnsupportedTold
    <3>3. Grown(a, b, limits) /\ Passes(a, b)
      BY <1>0, <1>1, <3>2 DEF Grown, Passes
    <3>4. Answered(b, e) BY <2>4, <3>2 DEF Answered
    <3>5. ZipReads(a, b, e, limits) BY <1>1, <1>5, <2>4, <3>2, <3>3, <3>4 DEF ZipReads, key
    <3> QED BY <3>5 DEF b
  <2>5. CASE /\ e.kind # "directory" /\ ~(IsAbsolute(e) \/ ~IsSafeRelativePath(e.path))
             /\ ~IgnoredByZip(e.path) /\ IsSupported(e.path)
    <3>1. b = ZipSource(seen, e, limits) BY <2>1, <2>5
    <3>2. SourceStep(seen, b, e, limits) /\ b.seen = seen.seen
      BY <1>1, <1>5, <3>1, ZipSourceStep
    <3>3. SourceStep(a, b, e, limits)
      <4>1. Grown(a, b, limits) BY <1>0, <1>1, <3>2 DEF Grown, SourceStep
      <4>2. Keeps(seen, b, e, limits) => Keeps(a, b, e, limits) BY <1>1 DEF Keeps
      <4>3. Warns(seen, b, e) => Warns(a, b, e) BY <1>1 DEF Warns
      <4>4. Passes(seen, b) => Passes(a, b) BY <1>1 DEF Passes
      <4> QED BY <3>2, <4>1, <4>2, <4>3, <4>4 DEF SourceStep
    <3>4. CASE b.refusal = NoRefusal
      <4>1. InZip(e) BY <2>5 DEF InZip
      <4>2. ZipReads(a, b, e, limits) BY <1>1, <1>5, <2>5, <3>2, <3>3, <3>4, <4>1 DEF ZipReads, key
      <4> QED BY <4>2 DEF b
    <3>5. CASE b.refusal # NoRefusal
      <4>1. Passes(a, b) BY <1>5, <3>3, <3>5 DEF SourceStep, Keeps, Warns
      <4>2. Grown(a, b, limits) BY <3>3 DEF SourceStep
      <4> QED BY <3>5, <4>1, <4>2 DEF b
    <3> QED BY <3>4, <3>5
  <2> QED BY <2>2, <2>3, <2>4, <2>5
<1> QED BY <1>2, <1>4, <1>5

\* An archive is read entry by entry.
LEMMA ZipRun ==
  ASSUME NEW entries \in Seq(Entries), NEW limits \in ImportBounds
  PROVE  \E r : /\ r[0] = NothingRead
                /\ \A k \in 1..Len(entries) : r[k] = ZipEntry(r[k - 1], entries[k], limits)
                /\ ExtractFilesFromZip(entries, limits) =
                     IF Len(entries) > limits.entries THEN Refused(NothingRead, "ZIP_INVALID")
                     ELSE NotEmpty(r[Len(entries)])
<1> DEFINE n == Len(entries)
           step == [i \in 1..n |-> [import \in Imports |-> ZipEntry(import, entries[i], limits)]]
           Iter(f) == [s \in SUBSET DOMAIN entries |-> IF s = {} THEN NothingRead
                         ELSE ZipEntry(f[s \ {Max(s)}], entries[Max(s)], limits)]
           it == CHOOSE f : f = Iter(f)
           r == [k \in 0..n |-> it[1..k]]
<1>1. n \in Nat /\ DOMAIN entries = 1..n /\ \A i \in 1..n : entries[i] \in Entries
  OBVIOUS
<1>2. PICK f : IsFold(f, n, Imports, NothingRead, step)
  <2>1. \A i \in 1..n : step[i] \in [Imports -> Imports]
    <3> SUFFICES ASSUME NEW i \in 1..n PROVE step[i] \in [Imports -> Imports] OBVIOUS
    <3>1. step[i] = [import \in Imports |-> ZipEntry(import, entries[i], limits)] OBVIOUS
    <3> HIDE DEF step, n
    <3>2. ASSUME NEW import \in Imports PROVE ZipEntry(import, entries[i], limits) \in Imports
      <4> DEFINE e == entries[i]
                 b == ZipEntry(import, e, limits)
      <4>1. e \in Entries BY <1>1
      <4> HIDE DEF e
      <4>2. ZipReads(import, b, e, limits) \/ Grown(import, b, limits) BY <4>1, ZipStep
      <4> HIDE DEF b
      <4>3. b \in Imports BY <4>2 DEF ZipReads, SourceStep, Grown
      <4> QED BY <4>3 DEF e, b
    <3> QED BY <3>1, <3>2
  <2>2. NothingRead \in Imports BY NothingBooked DEF Booked
  <2> HIDE DEF step, n
  <2> QED BY <1>1, <2>1, <2>2, FoldsExist
<1>3. f = Iter(f)
  <2>1. /\ f \in [SUBSET (1..n) -> Imports] /\ f[{}] = NothingRead
        /\ \A s \in SUBSET (1..n) : s # {} => f[s] = step[Max(s)][f[s \ {Max(s)}]]
    BY <1>2 DEF IsFold
  <2>2. ASSUME NEW s \in SUBSET (1..n), s # {} PROVE f[s] = ZipEntry(f[s \ {Max(s)}], entries[Max(s)], limits)
    <3> DEFINE x == Max(s)
    <3>1. x \in 1..n
      <4>1. Max(s) \in s BY <1>1, <2>2, GreatestNumber
      <4> QED BY <4>1
    <3>2. f[s] = step[x][f[s \ {x}]] BY <2>1, <2>2
    <3>3. f[s \ {x}] \in Imports
      <4>1. s \ {x} \in SUBSET (1..n) OBVIOUS
      <4> HIDE DEF x, step, n
      <4> QED BY <2>1, <4>1
    <3> HIDE DEF x
    <3>4. step[x] = [import \in Imports |-> ZipEntry(import, entries[x], limits)] BY <3>1
    <3> HIDE DEF step
    <3>5. f[s] = ZipEntry(f[s \ {x}], entries[x], limits) BY <3>2, <3>3, <3>4
    <3> QED BY <3>5 DEF x
  <2> HIDE DEF step, n
  <2>3. f = [s \in SUBSET (1..n) |-> f[s]] BY <2>1
  <2>4. \A s \in SUBSET (1..n) : f[s] = IF s = {} THEN NothingRead ELSE ZipEntry(f[s \ {Max(s)}], entries[Max(s)], limits)
    BY <2>1, <2>2
  <2>5. f = [s \in SUBSET (1..n) |-> IF s = {} THEN NothingRead ELSE ZipEntry(f[s \ {Max(s)}], entries[Max(s)], limits)]
    BY <2>3, <2>4
  <2> QED BY <1>1, <2>5
<1>4. it = Iter(it)
  <2> HIDE DEF Iter
  <2> QED BY <1>3
<1>5. /\ it[{}] = NothingRead
      /\ \A s \in SUBSET (1..n) : s # {} => it[s] = ZipEntry(it[s \ {Max(s)}], entries[Max(s)], limits)
  <2>1. \A s \in SUBSET (1..n) : Iter(it)[s] = IF s = {} THEN NothingRead
                                               ELSE ZipEntry(it[s \ {Max(s)}], entries[Max(s)], limits)
    BY <1>1
  <2> HIDE DEF it, Iter
  <2> QED BY <1>4, <2>1
<1>6. ExtractFilesFromZip(entries, limits) =
        IF Len(entries) > limits.entries THEN Refused(NothingRead, "ZIP_INVALID") ELSE NotEmpty(it[1..n])
  <2>1. ExtractFilesFromZip(entries, limits) =
          IF Len(entries) > limits.entries THEN Refused(NothingRead, "ZIP_INVALID") ELSE NotEmpty(it[DOMAIN entries])
    BY DEF ExtractFilesFromZip, FoldLeft, MapThenFoldSet, it, Iter
  <2> QED BY <1>1, <2>1
<1> HIDE DEF it, Iter, step
<1>7. r[0] = NothingRead /\ r[n] = it[1..n]
  <2>1. 0 \in 0..n /\ n \in 0..n /\ 1..0 = {} BY <1>1
  <2> HIDE DEF n
  <2> QED BY <1>5, <2>1
<1>8. ASSUME NEW k \in 1..n PROVE r[k] = ZipEntry(r[k - 1], entries[k], limits)
  <2>1. k \in 0..n /\ k - 1 \in 0..n BY <1>1
  <2>2. 1..k \in SUBSET (1..n) /\ 1..k # {} /\ Max(1..k) = k /\ (1..k) \ {k} = 1..(k - 1)
    <3> HIDE DEF n
    <3> QED BY <1>1, UpToPlace
  <2>3. it[1..k] = ZipEntry(it[1..(k - 1)], entries[k], limits)
    BY <1>5, <2>2
  <2> QED BY <2>1, <2>3
<1> HIDE DEF r
<1> QED BY <1>6, <1>7, <1>8

\* What holds after some entries of an archive: the books, and that no two kept
\* files share a key, that the keys of all files are known, and all of them safe.
KeysApart(import) ==
  /\ \A i, j \in DOMAIN import.files :
       i # j => CollisionKey(import.files[i].path) # CollisionKey(import.files[j].path)
  /\ \A i \in DOMAIN import.files : CollisionKey(import.files[i].path) \in import.seen
ZipFiles(entries, k)      == {entries[i] : i \in {j \in 1..k : entries[j].kind # "directory"}}
ZipConsidered(entries, k) == {entry \in ZipFiles(entries, k) : ~IgnoredByZip(entry.path)}
ZipStands(import, entries, k, limits) ==
  /\ Booked(import, ZipConsidered(entries, k), limits) /\ KeysApart(import)
  /\ import.refusal = NoRefusal =>
       \A entry \in ZipFiles(entries, k) :
         ~IsAbsolute(entry) /\ IsSafeRelativePath(entry.path) /\ CollisionKey(entry.path) \in import.seen

\* The files up to an entry are those before it and itself, if it is one.
LEMMA ZipFilesGrow ==
  ASSUME NEW entries, NEW k \in Nat \ {0}
  PROVE  /\ ZipFiles(entries, k) = ZipFiles(entries, k - 1) \cup {e \in {entries[k]} : e.kind # "directory"}
         /\ ZipConsidered(entries, k) = ZipConsidered(entries, k - 1) \cup {e \in {entries[k]} : InZip(e)}
<1>1. 1..k = 1..(k - 1) \cup {k} OBVIOUS
<1>2. ZipFiles(entries, k) = ZipFiles(entries, k - 1) \cup {e \in {entries[k]} : e.kind # "directory"}
  BY <1>1 DEF ZipFiles
<1> QED BY <1>2 DEF ZipConsidered, InZip

\* So what stands of the first entries of an archive stands of one more.
LEMMA ZipStepStands ==
  ASSUME NEW entries \in Seq(Entries), NEW limits \in ImportBounds, NEW k \in 1..Len(entries), NEW a,
         ZipStands(a, entries, k - 1, limits)
  PROVE  ZipStands(ZipEntry(a, entries[k], limits), entries, k, limits)
<1> DEFINE e == entries[k]
           b == ZipEntry(a, e, limits)
           before == ZipConsidered(entries, k - 1)
           more == {x \in {e} : InZip(x)}
<1>1. e \in Entries /\ k \in Nat \ {0} OBVIOUS
<1>2. ZipConsidered(entries, k) = before \cup more
  BY <1>1, ZipFilesGrow
<1>3. ZipFiles(entries, k) = ZipFiles(entries, k - 1) \cup {x \in {e} : x.kind # "directory"}
  BY <1>1, ZipFilesGrow
<1> HIDE DEF e
<1>4. a \in Imports /\ Booked(a, before, limits) /\ KeysApart(a)
  BY DEF ZipStands, Booked
<1>5. \/ ZipReads(a, b, e, limits)
      \/ b.refusal # NoRefusal /\ Grown(a, b, limits) /\ Passes(a, b)
  BY <1>1, <1>4, ZipStep
<1>6. ZipReads(a, b, e, limits) => \/ InZip(e) /\ IsSupported(e.path) /\ SourceStep(a, b, e, limits)
                                   \/ Grown(a, b, limits) /\ Passes(a, b) /\ (InZip(e) => Answered(b, e))
  <2> HIDE DEF b
  <2> QED BY DEF ZipReads
<1> HIDE DEF b, before, more
<1>7. Booked(b, before \cup more, limits)
  <2>1. CASE b.refusal # NoRefusal /\ Grown(a, b, limits) /\ Passes(a, b)
    BY <1>4, <2>1, BooksPass
  <2>2. CASE ZipReads(a, b, e, limits)
    <3>0. a.refusal = NoRefusal /\ b.refusal = NoRefusal BY <2>2 DEF ZipReads
    <3>1. CASE Grown(a, b, limits) /\ Passes(a, b) /\ (InZip(e) => Answered(b, e))
      <4>1. \A x \in more : Answered(b, x) BY <3>1 DEF more
      <4> QED BY <1>4, <3>0, <3>1, <4>1, BooksPass
    <3>2. CASE InZip(e) /\ IsSupported(e.path) /\ SourceStep(a, b, e, limits)
      <4>1. more = {e} BY <3>2 DEF more
      <4>2. e.path \notin PathsOf(before)
        <5>1. CollisionKey(e.path) \notin a.seen BY <2>2 DEF ZipReads
        <5>2. \A x \in before : CollisionKey(x.path) \in a.seen
          BY <3>0 DEF ZipStands, before, ZipConsidered
        <5> QED BY <5>1, <5>2 DEF PathsOf
      <4> QED BY <1>1, <1>4, <3>0, <3>2, <4>1, <4>2, BooksKeep
    <3> QED BY <1>6, <2>2, <3>1, <3>2
  <2> QED BY <1>5, <2>1, <2>2
<1>8. a.seen \subseteq b.seen
  BY <1>5, <1>6 DEF Grown, SourceStep
<1>9. KeysApart(b)
  <2>1. CASE b.files = a.files
    BY <1>4, <1>8, <2>1 DEF KeysApart
  <2>2. CASE b.files # a.files
    <3>1. ZipReads(a, b, e, limits) BY <1>5, <2>2 DEF Passes
    <3>2. InZip(e) /\ SourceStep(a, b, e, limits) BY <1>6, <2>2, <3>1 DEF Passes
    <3>3. b.files = Append(a.files, FileOf(e)) BY <2>2, <3>2 DEF SourceStep, Keeps, Warns, Passes
    <3>4. a.files \in Seq(KeptFiles) /\ FileOf(e) \in KeptFiles
      BY <1>1, <1>4, <3>3, KeptPathsGrow
    <3>5. FileOf(e).path = e.path BY DEF FileOf
    <3>6. CollisionKey(e.path) \notin a.seen /\ CollisionKey(e.path) \in b.seen
      <4>1. e.kind # "directory" BY <3>2 DEF InZip
      <4>2. IsSafeRelativePath(e.path) BY <3>1, <4>1 DEF ZipReads
      <4>3. e.path # <<>> /\ e.path \in Paths BY <1>1, <4>2 DEF IsSafeRelativePath, Entries, Paths
      <4>4. CollisionKey(e.path) # <<>> BY <4>3, KeysCollide
      <4> QED BY <3>1, <4>4 DEF ZipReads
    <3> DEFINE n == Len(a.files)
    <3>7. /\ DOMAIN a.files = 1..n /\ DOMAIN b.files = 1..(n + 1) /\ n \in Nat
          /\ \A i \in 1..n : b.files[i] = a.files[i]
          /\ b.files[n + 1] = FileOf(e)
      BY <3>3, <3>4
    <3>8. \A i \in 1..(n + 1) : i \in 1..n \/ i = n + 1 BY <3>7
    <3> HIDE DEF n
    <3>9. /\ \A i, j \in 1..n : i # j => CollisionKey(a.files[i].path) # CollisionKey(a.files[j].path)
          /\ \A i \in 1..n : CollisionKey(a.files[i].path) \in a.seen
      BY <1>4, <3>7 DEF KeysApart
    <3> QED BY <1>8, <3>5, <3>6, <3>7, <3>8, <3>9 DEF KeysApart
  <2> QED BY <2>1, <2>2
<1>10. ASSUME b.refusal = NoRefusal, NEW entry \in ZipFiles(entries, k)
       PROVE  ~IsAbsolute(entry) /\ IsSafeRelativePath(entry.path) /\ CollisionKey(entry.path) \in b.seen
  <2>1. ZipReads(a, b, e, limits) /\ a.refusal = NoRefusal BY <1>5, <1>10 DEF ZipReads
  <2>2. CASE entry \in ZipFiles(entries, k - 1)
    BY <1>8, <2>1, <2>2 DEF ZipStands
  <2>3. CASE entry = e /\ e.kind # "directory"
    <3>1. ~IsAbsolute(e) /\ IsSafeRelativePath(e.path) BY <2>1, <2>3 DEF ZipReads
    <3>2. e.path # <<>> /\ e.path \in Paths BY <1>1, <3>1 DEF IsSafeRelativePath, Entries, Paths
    <3>3. CollisionKey(e.path) # <<>> BY <3>2, KeysCollide
    <3> QED BY <2>1, <2>3, <3>1, <3>3 DEF ZipReads
  <2> QED BY <1>3, <1>10, <2>2, <2>3
<1>11. ZipStands(b, entries, k, limits)
  BY <1>2, <1>7, <1>9, <1>10 DEF ZipStands
<1> QED BY <1>11 DEF b, e

\* Books that are kept account for what was considered.
LEMMA BooksAccount ==
  ASSUME NEW limits \in ImportBounds, NEW considered, NEW import, Booked(import, considered, limits)
  PROVE  AccountsFor(import, considered, limits)
<1> DEFINE kept  == KeptPaths(import)
           large == TooLarge(import)
           n     == Len(import.files)
           at    == [i \in 1..n |-> import.files[i].path]
<1> SUFFICES ASSUME import.refusal = NoRefusal
             PROVE  /\ \A entry \in considered :
                         /\ IsSupported(entry.path) => (entry.path \in kept) # (entry.path \in large)
                         /\ ExtensionOf(entry.path) \in UnsupportedCodeExtensions => entry.path \in Unread(import)
                    /\ kept \cup large \subseteq {entry.path : entry \in considered}
                    /\ Cardinality(kept) = n
                    /\ WithinLimits(import, limits)
  BY DEF AccountsFor, TooLarge, Unread
<1>1. /\ import \in Imports /\ kept \cap large = {} /\ kept \cup large \subseteq PathsOf(considered)
      /\ BytesOf(import.files) <= import.total /\ n <= import.candidates
      /\ \A file \in ToSet(import.files) : file.size <= limits.single
      /\ import.candidates <= limits.files /\ import.total <= limits.total
      /\ \A entry \in considered : Answered(import, entry)
      /\ \A i, j \in DOMAIN import.files : i # j => import.files[i].path # import.files[j].path
  BY DEF Booked
<1>2. /\ import.files \in Seq(KeptFiles) /\ n \in Nat /\ DOMAIN import.files = 1..n
      /\ import.candidates \in Nat /\ import.total \in Nat /\ limits.files \in Nat /\ limits.total \in Nat
  BY <1>1 DEF Imports, ImportBounds
<1>3. BytesOf(import.files) \in Nat
  <2>1. \E file : file \in KeptFiles
    <3>1. [path |-> <<>>, size |-> 0] \in KeptFiles BY DEF KeptFiles, Paths
    <3> QED BY <3>1
  <2> QED BY <1>2, <2>1, BytesAdd
<1>4. WithinLimits(import, limits)
  <2>1. BytesOf(import.files) <= limits.total /\ n <= limits.files
    BY <1>1, <1>2, <1>3
  <2> QED BY <1>1, <2>1 DEF WithinLimits
<1>5. Cardinality(kept) = n
  <2>1. kept = {import.files[i].path : i \in 1..n}
    BY <1>2 DEF KeptPaths, ToSet
  <2>2. \A i \in 1..n : at[i] = import.files[i].path
    OBVIOUS
  <2>3. at \in [1..n -> {import.files[i].path : i \in 1..n}]
    OBVIOUS
  <2> HIDE DEF at, kept
  <2>4. at \in Bijection(1..n, kept)
    <3>1. at \in [1..n -> kept] BY <2>1, <2>3
    <3>2. \A i, j \in 1..n : at[i] = at[j] => i = j BY <1>1, <1>2, <2>2
    <3>3. \A path \in kept : \E i \in 1..n : at[i] = path BY <2>1, <2>2
    <3> HIDE DEF n
    <3> QED BY ONLY <3>1, <3>2, <3>3 DEF Bijection, Injection, Surjection, IsInjective
  <2>5. IsFiniteSet(1..n) /\ Cardinality(1..n) = n
    <3> HIDE DEF n
    <3> QED BY <1>2, FS_Interval
  <2>6. ExistsBijection(1..n, kept) BY <2>4 DEF ExistsBijection
  <2> QED BY <2>5, <2>6, FS_Bijection
<1>6. ASSUME NEW entry \in considered
      PROVE  /\ IsSupported(entry.path) => (entry.path \in kept) # (entry.path \in large)
             /\ ExtensionOf(entry.path) \in UnsupportedCodeExtensions => entry.path \in Unread(import)
  <2>1. /\ IsSupported(entry.path) => entry.path \in kept \cup large
        /\ ExtensionOf(entry.path) \in UnsupportedCodeExtensions => entry.path \in Unread(import)
    BY <1>1 DEF Answered
  <2>2. ~(entry.path \in kept /\ entry.path \in large) BY <1>1
  <2> HIDE DEF kept, large
  <2> QED BY <2>1, <2>2
<1>7. kept \cup large \subseteq {entry.path : entry \in considered}
  BY <1>1 DEF PathsOf
<1> QED BY <1>4, <1>5, <1>6, <1>7

\* An archive accounts for its entries.
LEMMA ZipAccounts ==
  ASSUME NEW entries \in Seq(Entries), NEW limits \in ImportBounds
  PROVE  ZipAccountsForItsEntries(entries, limits)
<1> DEFINE n == Len(entries)
           import == ExtractFilesFromZip(entries, limits)
           files == {entry \in ToSet(entries) : entry.kind # "directory"}
           considered == {entry \in files : ~IgnoredByZip(entry.path)}
<1>1. n \in Nat /\ DOMAIN entries = 1..n
  OBVIOUS
<1>2. PICK r : /\ r[0] = NothingRead
               /\ \A k \in 1..n : r[k] = ZipEntry(r[k - 1], entries[k], limits)
               /\ import = IF n > limits.entries THEN Refused(NothingRead, "ZIP_INVALID") ELSE NotEmpty(r[n])
  BY ZipRun
<1>3. files = ZipFiles(entries, n) /\ considered = ZipConsidered(entries, n)
  <2>1. files = ZipFiles(entries, n) BY <1>1 DEF ZipFiles, ToSet
  <2> QED BY <2>1 DEF ZipConsidered
<1>4. NothingRead.files = <<>> /\ NothingRead \in Imports
  BY NothingBooked DEF Booked, NothingRead
<1>5. ZipStands(r[n], entries, n, limits)
  <2> DEFINE P == {k \in 0..n : ZipStands(r[k], entries, k, limits)}
  <2>1. 0 \in P
    <3>1. ZipFiles(entries, 0) = {} BY DEF ZipFiles
    <3>2. ZipConsidered(entries, 0) = {} BY <3>1 DEF ZipConsidered
    <3>3. KeysApart(NothingRead)
      <4>1. DOMAIN NothingRead.files = {} BY <1>4
      <4> QED BY <4>1 DEF KeysApart
    <3>4. Booked(NothingRead, {}, limits) BY NothingBooked
    <3>5. ZipStands(NothingRead, entries, 0, limits) BY <3>1, <3>2, <3>3, <3>4 DEF ZipStands
    <3> QED BY <1>1, <1>2, <3>5
  <2>2. ASSUME NEW k \in 1..n, k - 1 \in P PROVE k \in P
    <3>1. ZipStands(r[k - 1], entries, k - 1, limits) BY <2>2
    <3>2. ZipStands(ZipEntry(r[k - 1], entries[k], limits), entries, k, limits)
      BY <3>1, ZipStepStands
    <3>3. r[k] = ZipEntry(r[k - 1], entries[k], limits) BY <1>2
    <3> QED BY <3>2, <3>3
  <2> HIDE DEF P
  <2>3. \A k \in 0..n : k \in P BY <1>1, <2>1, <2>2, StepByStep
  <2>4. n \in P BY <1>1, <2>3
  <2> QED BY <2>4 DEF P
<1> HIDE DEF import, files, considered
<1>6. import.files = r[n].files \/ import.files = <<>>
  <2>1. "ZIP_INVALID" \in RefusalCodes /\ "EMPTY_SOURCE" \in RefusalCodes BY DEF RefusalCodes
  <2>2. r[n] \in Imports BY <1>5 DEF ZipStands, Booked
  <2>3. Refused(NothingRead, "ZIP_INVALID").files = <<>> BY <1>4, <2>1, RefusalSet
  <2>4. NotEmpty(r[n]).files = r[n].files
    <3>1. Refused(r[n], "EMPTY_SOURCE").files = r[n].files BY <2>1, <2>2, RefusalSet
    <3> QED BY <3>1 DEF NotEmpty
  <2> QED BY <1>2, <2>3, <2>4
<1>7. import.refusal = NoRefusal => import = r[n]
  <2>1. "ZIP_INVALID" \in RefusalCodes /\ "EMPTY_SOURCE" \in RefusalCodes BY DEF RefusalCodes
  <2>2. r[n] \in Imports BY <1>5 DEF ZipStands, Booked
  <2>3. Refused(NothingRead, "ZIP_INVALID").refusal # NoRefusal BY <1>4, <2>1, RefusalSet
  <2>4. Refused(r[n], "EMPTY_SOURCE").refusal # NoRefusal BY <2>1, <2>2, RefusalSet
  <2> QED BY <1>2, <2>3, <2>4 DEF NotEmpty
<1>8. AccountsFor(import, considered, limits)
  <2>1. CASE import.refusal # NoRefusal
    BY <2>1 DEF AccountsFor
  <2>2. CASE import.refusal = NoRefusal
    <3>1. Booked(import, considered, limits) BY <1>3, <1>5, <1>7, <2>2 DEF ZipStands
    <3> QED BY <3>1, BooksAccount
  <2> QED BY <2>1, <2>2
<1>9. \A i, j \in DOMAIN import.files : i # j => ~SameName(import.files[i].path, import.files[j].path)
  <2>1. CASE import.files = <<>>
    <3>1. DOMAIN import.files = {} BY <2>1
    <3> QED BY <3>1
  <2>2. CASE import.files = r[n].files
    <3>1. KeysApart(r[n]) /\ r[n] \in Imports BY <1>5 DEF ZipStands, Booked
    <3>2. ASSUME NEW i \in DOMAIN r[n].files PROVE r[n].files[i].path \in Paths
      <4>1. r[n].files \in Seq(KeptFiles) BY <3>1 DEF Imports
      <4>2. r[n].files[i] \in KeptFiles BY <4>1
      <4> QED BY <4>2 DEF KeptFiles
    <3> QED BY <2>2, <3>1, <3>2, KeysCollide DEF KeysApart
  <2> QED BY <1>6, <2>1, <2>2
<1>10. import.refusal = NoRefusal => \A entry \in files : ~IsAbsolute(entry) /\ IsSafeRelativePath(entry.path)
  BY <1>3, <1>5, <1>7 DEF ZipStands
<1> QED BY <1>8, <1>9, <1>10 DEF ZipAccountsForItsEntries, import, files, considered


\* A supported file of a repository is kept, warned of, or refuses the repository.
LEMMA GitSourceStep ==
  ASSUME NEW a \in Imports, a.refusal = NoRefusal, NEW e \in Entries, NEW limits \in ImportBounds
  PROVE  SourceStep(a, GitSource(a, e, limits), e, limits)
<1> DEFINE counted == [a EXCEPT !.candidates = @ + 1]
           taken   == [counted EXCEPT !.total = @ + e.size]
           b == GitSource(a, e, limits)
<1>0. /\ a.candidates \in Nat /\ a.declared \in Nat /\ a.total \in Nat /\ e.size \in Nat
      /\ limits.files \in Nat /\ limits.total \in Nat /\ limits.single \in Nat /\ a.seen \in SUBSET Paths
  BY DEF Imports, Entries, ImportBounds
<1>1. /\ taken \in Imports /\ taken.refusal = NoRefusal /\ taken.seen = a.seen /\ taken.files = a.files
      /\ taken.candidates = a.candidates + 1 /\ taken.total = a.total + e.size
      /\ TooLarge(taken) = TooLarge(a) /\ Unread(taken) = Unread(a) /\ Outside(taken) = Outside(a)
  <2> DEFINE c == a.candidates + 1
             d == a.declared
             t == a.total + e.size
  <2>1. Recounts(a, taken, a.seen, c, d, t)
    BY DEF Recounts, Imports
  <2>2. c \in Nat /\ d \in Nat /\ t \in Nat BY <1>0
  <2> HIDE DEF c, d, t, taken
  <2>3. /\ taken \in Imports /\ taken.refusal = a.refusal /\ taken.seen = a.seen /\ taken.files = a.files
        /\ taken.candidates = c /\ taken.total = t /\ \A code : About(taken, code) = About(a, code)
    BY <1>0, <2>1, <2>2, CountsAlone DEF OnlyRecounts
  <2> QED BY <2>3 DEF TooLarge, Unread, Outside, c, t
<1>2. counted.candidates = a.candidates + 1
  BY DEF Imports
<1>3. /\ e.size > limits.single => b = Warned(a, "IMPORT_FILE_TOO_LARGE", e)
      /\ e.size <= limits.single /\ (counted.candidates > limits.files \/ taken.total > limits.total) =>
           b = Refused(taken, "IMPORT_FAILED")
      /\ e.size <= limits.single /\ ~(counted.candidates > limits.files \/ taken.total > limits.total) =>
           b = Kept(taken, e)
  BY <1>0 DEF GitSource
<1> HIDE DEF counted, taken, b
<1>4. CASE e.size > limits.single
  <2>1. "IMPORT_FILE_TOO_LARGE" \in WarningCodes BY DEF WarningCodes
  <2>2. /\ b \in Imports /\ b.refusal = a.refusal /\ b.seen = a.seen /\ b.files = a.files
        /\ b.candidates = a.candidates /\ b.total = a.total
        /\ \A c : About(b, c) = About(a, c) \cup (IF c = "IMPORT_FILE_TOO_LARGE" THEN {e.path} ELSE {})
    <3>1. OnlyWarns(a, b, "IMPORT_FILE_TOO_LARGE", e) BY <1>3, <1>4, <2>1, WarningAdded
    <3> QED BY <3>1 DEF OnlyWarns
  <2>3. TooLarge(b) = TooLarge(a) \cup {e.path} /\ Unread(b) = Unread(a) /\ Outside(b) = Outside(a)
    BY <2>2 DEF TooLarge, Unread, Outside
  <2>4. Warns(a, b, e) BY <1>0, <2>2, <2>3 DEF Warns
  <2>5. Grown(a, b, limits) BY <2>2, <2>3 DEF Grown
  <2> QED BY <2>4, <2>5 DEF SourceStep, b
<1>5. CASE e.size <= limits.single /\ (counted.candidates > limits.files \/ taken.total > limits.total)
  <2>1. "IMPORT_FAILED" \in RefusalCodes BY DEF RefusalCodes
  <2>2. /\ b \in Imports /\ b.seen = taken.seen /\ b.files = taken.files /\ b.candidates = taken.candidates
        /\ b.total = taken.total /\ b.refusal # NoRefusal /\ \A c : About(b, c) = About(taken, c)
    BY <1>1, <1>3, <1>5, <2>1, RefusalSet
  <2>3. TooLarge(b) = TooLarge(a) /\ Unread(b) = Unread(a) /\ Outside(b) = Outside(a)
    BY <1>1, <2>2 DEF TooLarge, Unread, Outside
  <2>4. Passes(a, b) BY <1>0, <1>1, <2>2, <2>3 DEF Passes
  <2>5. Grown(a, b, limits) BY <1>1, <2>2, <2>3 DEF Grown
  <2> QED BY <2>2, <2>4, <2>5 DEF SourceStep, b
<1>6. CASE e.size <= limits.single /\ ~(counted.candidates > limits.files \/ taken.total > limits.total)
  <2>1. /\ b \in Imports /\ b.refusal = taken.refusal /\ b.seen = taken.seen
        /\ b.candidates = taken.candidates /\ b.total = taken.total
        /\ b.files = Append(taken.files, FileOf(e))
        /\ TooLarge(b) = TooLarge(taken) /\ Unread(b) = Unread(taken) /\ Outside(b) = Outside(taken)
    <3>1. OnlyKeeps(taken, b, e) BY <1>1, <1>3, <1>6, FileKept
    <3> QED BY <3>1 DEF OnlyKeeps
  <2>2. b.files = Append(a.files, FileOf(e)) BY <1>1, <2>1
  <2>3. Keeps(a, b, e, limits) BY <1>1, <1>6, <2>1, <2>2 DEF Keeps
  <2>4. b.candidates <= limits.files /\ b.total <= limits.total BY <1>0, <1>1, <1>2, <1>6, <2>1
  <2>5. Grown(a, b, limits) BY <1>1, <2>1, <2>4 DEF Grown
  <2> QED BY <2>3, <2>5 DEF SourceStep, b
<1> QED BY <1>0, <1>4, <1>5, <1>6

\* An entry of a repository that is walked, and one that is looked for among the sources.
Walked(entry) == ~LiesUnder(entry.path, GitIgnoredDirectories)
InGit(entry)  == Walked(entry) /\ entry.kind = "file" /\ IsSafeRelativePath(entry.path)
                               /\ ~HasNoExtensionInGit(entry.path)

\* What reading an entry of a repository does, if it refuses nothing.
GitReads(a, b, e, limits) ==
  /\ a.refusal = NoRefusal /\ b.refusal = NoRefusal
  /\ \/ InGit(e) /\ IsSupported(e.path) /\ SourceStep(a, b, e, limits)
     \/ Grown(a, b, limits) /\ Passes(a, b) /\ (InGit(e) => Answered(b, e))
  /\ Walked(e) /\ e.kind = "outside" => e.path \in Outside(b)

\* An entry of a tree is read as its kind asks, or refuses the import.
LEMMA GitStep ==
  ASSUME NEW a \in Imports, NEW e \in Entries, NEW limits \in ImportBounds
  PROVE  LET b == GitEntry(a, e, limits)
         IN  \/ GitReads(a, b, e, limits)
             \/ b.refusal # NoRefusal /\ Grown(a, b, limits) /\ Passes(a, b)
<1> DEFINE b == GitEntry(a, e, limits)
<1>0. a.candidates \in Nat /\ a.total \in Nat
  BY DEF Imports
<1>1. b = CASE a.refusal # NoRefusal \/ ~Walked(e) -> a
            [] e.kind = "outside" /\ a.refusal = NoRefusal /\ Walked(e) -> Warned(a, "IMPORT_UNSAFE_PATH", e)
            [] OTHER -> CASE e.kind \in {"directory", "link"} -> a
                          [] e.kind = "file" /\ ~IsSafeRelativePath(e.path) -> Warned(a, "IMPORT_UNSAFE_PATH", e)
                          [] OTHER -> CASE HasNoExtensionInGit(e.path) -> a
                                        [] ~HasNoExtensionInGit(e.path) /\ ~IsSupported(e.path) -> Unsupported(a, e)
                                        [] OTHER -> GitSource(a, e, limits)
  BY DEF GitEntry, Walked
<1>2. e.kind \in {"file", "directory", "link", "outside"}
  BY DEF Entries
<1>3. ASSUME b = a
      PROVE  Grown(a, b, limits) /\ Passes(a, b)
  <2> HIDE DEF b
  <2> QED BY <1>0, <1>3 DEF Grown, Passes
<1> HIDE DEF b
<1>4. CASE a.refusal # NoRefusal
  <2>1. b = a BY <1>1, <1>4
  <2> QED BY <1>3, <1>4, <2>1 DEF b
<1>5. CASE a.refusal = NoRefusal /\ (\/ ~Walked(e)
                                     \/ e.kind \in {"directory", "link"}
                                     \/ e.kind = "file" /\ IsSafeRelativePath(e.path) /\ HasNoExtensionInGit(e.path))
  <2>1. b = a BY <1>1, <1>5
  <2>2. ~InGit(e) /\ ~(Walked(e) /\ e.kind = "outside") BY <1>5 DEF InGit
  <2>3. GitReads(a, b, e, limits) BY <1>3, <1>5, <2>1, <2>2 DEF GitReads
  <2> QED BY <2>3 DEF b
<1>6. CASE a.refusal = NoRefusal /\ Walked(e) /\ (e.kind = "outside" \/ (e.kind = "file" /\ ~IsSafeRelativePath(e.path)))
  <2>0. b = Warned(a, "IMPORT_UNSAFE_PATH", e) BY <1>1, <1>6
  <2>1. "IMPORT_UNSAFE_PATH" \in WarningCodes BY DEF WarningCodes
  <2>2. /\ b \in Imports /\ b.refusal = a.refusal /\ b.seen = a.seen /\ b.files = a.files
        /\ b.candidates = a.candidates /\ b.total = a.total
        /\ \A c : About(b, c) = About(a, c) \cup (IF c = "IMPORT_UNSAFE_PATH" THEN {e.path} ELSE {})
    <3>1. OnlyWarns(a, b, "IMPORT_UNSAFE_PATH", e) BY <2>0, <2>1, WarningAdded
    <3> QED BY <3>1 DEF OnlyWarns
  <2>3. TooLarge(b) = TooLarge(a) /\ Unread(b) = Unread(a) /\ Outside(b) = Outside(a) \cup {e.path}
    BY <2>2 DEF TooLarge, Unread, Outside
  <2>4. Passes(a, b) BY <1>0, <2>2, <2>3 DEF Passes
  <2>5. Grown(a, b, limits) BY <2>2, <2>3 DEF Grown
  <2>6. ~InGit(e) BY <1>6 DEF InGit
  <2>7. GitReads(a, b, e, limits) BY <1>6, <2>2, <2>3, <2>4, <2>5, <2>6 DEF GitReads
  <2> QED BY <2>7 DEF b
<1>7. CASE a.refusal = NoRefusal /\ InGit(e) /\ ~IsSupported(e.path)
  <2>1. b = Unsupported(a, e) BY <1>1, <1>7 DEF InGit
  <2>2. /\ Grown(a, b, limits) /\ Passes(a, b) /\ b.refusal = a.refusal
        /\ ExtensionOf(e.path) \in UnsupportedCodeExtensions => e.path \in Unread(b)
    BY <2>1, UnsupportedTold
  <2>3. Answered(b, e) BY <1>7, <2>2 DEF Answered
  <2>4. e.kind # "outside" BY <1>7 DEF InGit
  <2>5. GitReads(a, b, e, limits) BY <1>7, <2>2, <2>3, <2>4 DEF GitReads
  <2> QED BY <2>5 DEF b
<1>8. CASE a.refusal = NoRefusal /\ InGit(e) /\ IsSupported(e.path)
  <2>1. b = GitSource(a, e, limits) BY <1>1, <1>8 DEF InGit
  <2>2. SourceStep(a, b, e, limits) BY <1>8, <2>1, GitSourceStep
  <2>3. e.kind # "outside" BY <1>8 DEF InGit
  <2>4. CASE b.refusal = NoRefusal
    <3>1. GitReads(a, b, e, limits) BY <1>8, <2>2, <2>3, <2>4 DEF GitReads
    <3> QED BY <3>1 DEF b
  <2>5. CASE b.refusal # NoRefusal
    <3>1. Passes(a, b) BY <1>8, <2>2, <2>5 DEF SourceStep, Keeps, Warns
    <3>2. Grown(a, b, limits) BY <2>2 DEF SourceStep
    <3> QED BY <2>5, <3>1, <3>2 DEF b
  <2> QED BY <2>4, <2>5
<1> QED BY <1>2, <1>4, <1>5, <1>6, <1>7, <1>8 DEF InGit

\* A repository is read entry by entry.
LEMMA GitRun ==
  ASSUME NEW entries \in Seq(Entries), NEW limits \in ImportBounds
  PROVE  \E r : /\ r[0] = NothingRead
                /\ \A k \in 1..Len(entries) : r[k] = GitEntry(r[k - 1], entries[k], limits)
                /\ CloneAndExtractFiles(entries, limits) = NotEmpty(r[Len(entries)])
<1> DEFINE n == Len(entries)
           step == [i \in 1..n |-> [import \in Imports |-> GitEntry(import, entries[i], limits)]]
           Iter(f) == [s \in SUBSET DOMAIN entries |-> IF s = {} THEN NothingRead
                         ELSE GitEntry(f[s \ {Max(s)}], entries[Max(s)], limits)]
           it == CHOOSE f : f = Iter(f)
           r == [k \in 0..n |-> it[1..k]]
<1>1. n \in Nat /\ DOMAIN entries = 1..n /\ \A i \in 1..n : entries[i] \in Entries
  OBVIOUS
<1>2. PICK f : IsFold(f, n, Imports, NothingRead, step)
  <2>1. \A i \in 1..n : step[i] \in [Imports -> Imports]
    <3> SUFFICES ASSUME NEW i \in 1..n PROVE step[i] \in [Imports -> Imports] OBVIOUS
    <3>1. step[i] = [import \in Imports |-> GitEntry(import, entries[i], limits)] OBVIOUS
    <3> HIDE DEF step, n
    <3>2. ASSUME NEW import \in Imports PROVE GitEntry(import, entries[i], limits) \in Imports
      <4> DEFINE e == entries[i]
                 b == GitEntry(import, e, limits)
      <4>1. e \in Entries BY <1>1
      <4> HIDE DEF e
      <4>2. GitReads(import, b, e, limits) \/ Grown(import, b, limits) BY <4>1, GitStep
      <4> HIDE DEF b
      <4>3. b \in Imports BY <4>2 DEF GitReads, SourceStep, Grown
      <4> QED BY <4>3 DEF e, b
    <3> QED BY <3>1, <3>2
  <2>2. NothingRead \in Imports BY NothingBooked DEF Booked
  <2> HIDE DEF step, n
  <2> QED BY <1>1, <2>1, <2>2, FoldsExist
<1>3. f = Iter(f)
  <2>1. /\ f \in [SUBSET (1..n) -> Imports] /\ f[{}] = NothingRead
        /\ \A s \in SUBSET (1..n) : s # {} => f[s] = step[Max(s)][f[s \ {Max(s)}]]
    BY <1>2 DEF IsFold
  <2>2. ASSUME NEW s \in SUBSET (1..n), s # {} PROVE f[s] = GitEntry(f[s \ {Max(s)}], entries[Max(s)], limits)
    <3> DEFINE x == Max(s)
    <3>1. x \in 1..n
      <4>1. Max(s) \in s BY <1>1, <2>2, GreatestNumber
      <4> QED BY <4>1
    <3>2. f[s] = step[x][f[s \ {x}]] BY <2>1, <2>2
    <3>3. f[s \ {x}] \in Imports
      <4>1. s \ {x} \in SUBSET (1..n) OBVIOUS
      <4> HIDE DEF x, step, n
      <4> QED BY <2>1, <4>1
    <3> HIDE DEF x
    <3>4. step[x] = [import \in Imports |-> GitEntry(import, entries[x], limits)] BY <3>1
    <3> HIDE DEF step
    <3>5. f[s] = GitEntry(f[s \ {x}], entries[x], limits) BY <3>2, <3>3, <3>4
    <3> QED BY <3>5 DEF x
  <2> HIDE DEF step, n
  <2>3. f = [s \in SUBSET (1..n) |-> f[s]] BY <2>1
  <2>4. \A s \in SUBSET (1..n) : f[s] = IF s = {} THEN NothingRead ELSE GitEntry(f[s \ {Max(s)}], entries[Max(s)], limits)
    BY <2>1, <2>2
  <2>5. f = [s \in SUBSET (1..n) |-> IF s = {} THEN NothingRead ELSE GitEntry(f[s \ {Max(s)}], entries[Max(s)], limits)]
    BY <2>3, <2>4
  <2> QED BY <1>1, <2>5
<1>4. it = Iter(it)
  <2> HIDE DEF Iter
  <2> QED BY <1>3
<1>5. /\ it[{}] = NothingRead
      /\ \A s \in SUBSET (1..n) : s # {} => it[s] = GitEntry(it[s \ {Max(s)}], entries[Max(s)], limits)
  <2>1. \A s \in SUBSET (1..n) : Iter(it)[s] = IF s = {} THEN NothingRead
                                               ELSE GitEntry(it[s \ {Max(s)}], entries[Max(s)], limits)
    BY <1>1
  <2> HIDE DEF it, Iter
  <2> QED BY <1>4, <2>1
<1>6. CloneAndExtractFiles(entries, limits) = NotEmpty(it[1..n])
  <2>1. CloneAndExtractFiles(entries, limits) = NotEmpty(it[DOMAIN entries])
    BY DEF CloneAndExtractFiles, FoldLeft, MapThenFoldSet, it, Iter
  <2> QED BY <1>1, <2>1
<1> HIDE DEF it, Iter, step
<1>7. r[0] = NothingRead /\ r[n] = it[1..n]
  <2>1. 0 \in 0..n /\ n \in 0..n /\ 1..0 = {} BY <1>1
  <2> HIDE DEF n
  <2> QED BY <1>5, <2>1
<1>8. ASSUME NEW k \in 1..n PROVE r[k] = GitEntry(r[k - 1], entries[k], limits)
  <2>1. k \in 0..n /\ k - 1 \in 0..n BY <1>1
  <2>2. 1..k \in SUBSET (1..n) /\ 1..k # {} /\ Max(1..k) = k /\ (1..k) \ {k} = 1..(k - 1)
    <3> HIDE DEF n
    <3> QED BY <1>1, UpToPlace
  <2>3. it[1..k] = GitEntry(it[1..(k - 1)], entries[k], limits)
    BY <1>5, <2>2
  <2> QED BY <2>1, <2>3
<1> HIDE DEF r
<1> QED BY <1>6, <1>7, <1>8

\* What holds after some entries of a repository.
GitWalked(entries, k)     == {entries[i] : i \in {j \in 1..k : Walked(entries[j])}}
GitConsidered(entries, k) == {entries[i] : i \in {j \in 1..k : InGit(entries[j])}}
GitStands(import, entries, k, limits) ==
  /\ Booked(import, GitConsidered(entries, k), limits)
  /\ import.refusal = NoRefusal =>
       \A entry \in GitWalked(entries, k) : entry.kind = "outside" => entry.path \in Outside(import)

\* So what stands of the first entries of a tree stands of one more.
LEMMA GitStepStands ==
  ASSUME NEW entries \in Seq(Entries), IsTree(entries), NEW limits \in ImportBounds, NEW k \in 1..Len(entries), NEW a,
         GitStands(a, entries, k - 1, limits)
  PROVE  GitStands(GitEntry(a, entries[k], limits), entries, k, limits)
<1> DEFINE e == entries[k]
           b == GitEntry(a, e, limits)
           before == GitConsidered(entries, k - 1)
           more == {x \in {e} : InGit(x)}
<1>0. 1..k = 1..(k - 1) \cup {k} /\ \A i \in 1..(k - 1) : i # k /\ i \in DOMAIN entries
  OBVIOUS
<1>1. e \in Entries /\ k \in DOMAIN entries OBVIOUS
<1>2. GitConsidered(entries, k) = before \cup more
  BY <1>0 DEF GitConsidered
<1>3. GitWalked(entries, k) = GitWalked(entries, k - 1) \cup {x \in {e} : Walked(x)}
  BY <1>0 DEF GitWalked
<1>4. e.path \notin PathsOf(before)
  BY <1>0, <1>1 DEF PathsOf, GitConsidered, IsTree
<1> HIDE DEF e
<1>5. a \in Imports /\ Booked(a, before, limits)
  BY DEF GitStands, Booked
<1>6. \/ GitReads(a, b, e, limits)
      \/ b.refusal # NoRefusal /\ Grown(a, b, limits) /\ Passes(a, b)
  BY <1>1, <1>5, GitStep
<1> HIDE DEF b, before, more
<1>7. Booked(b, before \cup more, limits)
  <2>1. CASE b.refusal # NoRefusal /\ Grown(a, b, limits) /\ Passes(a, b)
    BY <1>5, <2>1, BooksPass
  <2>2. CASE GitReads(a, b, e, limits)
    <3>0. a.refusal = NoRefusal /\ b.refusal = NoRefusal BY <2>2 DEF GitReads
    <3>1. CASE Grown(a, b, limits) /\ Passes(a, b) /\ (InGit(e) => Answered(b, e))
      <4>1. \A x \in more : Answered(b, x) BY <3>1 DEF more
      <4> QED BY <1>5, <3>0, <3>1, <4>1, BooksPass
    <3>2. CASE InGit(e) /\ IsSupported(e.path) /\ SourceStep(a, b, e, limits)
      <4>1. more = {e} BY <3>2 DEF more
      <4> QED BY <1>1, <1>4, <1>5, <3>0, <3>2, <4>1, BooksKeep
    <3> QED BY <2>2, <3>1, <3>2 DEF GitReads
  <2> QED BY <1>6, <2>1, <2>2
<1>8. ASSUME b.refusal = NoRefusal, NEW entry \in GitWalked(entries, k), entry.kind = "outside"
      PROVE  entry.path \in Outside(b)
  <2>1. GitReads(a, b, e, limits) /\ a.refusal = NoRefusal BY <1>6, <1>8 DEF GitReads
  <2>2. Outside(a) \subseteq Outside(b) BY <2>1 DEF GitReads, SourceStep, Grown
  <2>3. CASE entry \in GitWalked(entries, k - 1)
    BY <1>8, <2>1, <2>2, <2>3 DEF GitStands
  <2>4. CASE entry = e /\ Walked(e)
    BY <1>8, <2>1, <2>4 DEF GitReads
  <2> QED BY <1>3, <1>8, <2>3, <2>4
<1>9. GitStands(b, entries, k, limits)
  BY <1>2, <1>7, <1>8 DEF GitStands
<1> QED BY <1>9 DEF b, e

\* A clone accounts for its tree.
LEMMA GitAccounts ==
  ASSUME NEW entries \in Seq(Entries), IsTree(entries), NEW limits \in ImportBounds
  PROVE  GitAccountsForItsTree(entries, limits)
<1> DEFINE n == Len(entries)
           import == CloneAndExtractFiles(entries, limits)
           walked == {entry \in ToSet(entries) : ~LiesUnder(entry.path, GitIgnoredDirectories)}
           considered == {entry \in walked : entry.kind = "file" /\ IsSafeRelativePath(entry.path)
                                             /\ ~HasNoExtensionInGit(entry.path)}
<1>1. n \in Nat /\ DOMAIN entries = 1..n
  OBVIOUS
<1>2. PICK r : /\ r[0] = NothingRead
               /\ \A k \in 1..n : r[k] = GitEntry(r[k - 1], entries[k], limits)
               /\ import = NotEmpty(r[n])
  BY GitRun
<1>3. walked = GitWalked(entries, n) /\ considered = GitConsidered(entries, n)
  BY <1>1 DEF GitWalked, GitConsidered, Walked, InGit, ToSet
<1>4. GitStands(r[n], entries, n, limits)
  <2> DEFINE P == {k \in 0..n : GitStands(r[k], entries, k, limits)}
  <2>1. 0 \in P
    <3>1. GitWalked(entries, 0) = {} BY DEF GitWalked
    <3>2. GitConsidered(entries, 0) = {} BY DEF GitConsidered
    <3>3. Booked(NothingRead, {}, limits) BY NothingBooked
    <3>4. GitStands(NothingRead, entries, 0, limits) BY <3>1, <3>2, <3>3 DEF GitStands
    <3> QED BY <1>1, <1>2, <3>4
  <2>2. ASSUME NEW k \in 1..n, k - 1 \in P PROVE k \in P
    <3>1. GitStands(r[k - 1], entries, k - 1, limits) BY <2>2
    <3>2. GitStands(GitEntry(r[k - 1], entries[k], limits), entries, k, limits)
      BY <3>1, GitStepStands
    <3>3. r[k] = GitEntry(r[k - 1], entries[k], limits) BY <1>2
    <3> QED BY <3>2, <3>3
  <2> HIDE DEF P
  <2>3. \A k \in 0..n : k \in P BY <1>1, <2>1, <2>2, StepByStep
  <2>4. n \in P BY <1>1, <2>3
  <2> QED BY <2>4 DEF P
<1> HIDE DEF import, walked, considered
<1>5. import.refusal = NoRefusal => import = r[n]
  <2>1. "EMPTY_SOURCE" \in RefusalCodes BY DEF RefusalCodes
  <2>2. r[n] \in Imports BY <1>4 DEF GitStands, Booked
  <2>3. Refused(r[n], "EMPTY_SOURCE").refusal # NoRefusal BY <2>1, <2>2, RefusalSet
  <2> QED BY <1>2, <2>3 DEF NotEmpty
<1>6. AccountsFor(import, considered, limits)
  <2>1. CASE import.refusal # NoRefusal
    BY <2>1 DEF AccountsFor
  <2>2. CASE import.refusal = NoRefusal
    <3>1. Booked(import, considered, limits) BY <1>3, <1>4, <1>5, <2>2 DEF GitStands
    <3> QED BY <3>1, BooksAccount
  <2> QED BY <2>1, <2>2
<1>7. import.refusal = NoRefusal =>
        \A entry \in walked : entry.kind = "outside" => entry.path \in About(import, "IMPORT_UNSAFE_PATH")
  BY <1>3, <1>4, <1>5 DEF GitStands, Outside
<1> QED BY <1>6, <1>7 DEF GitAccountsForItsTree, import, walked, considered

\* As far as an archive of plain files is not refused, a clone has kept and told
\* the same, and counted no more.
Alike(zip, git) ==
  /\ zip \in Imports /\ git \in Imports
  /\ zip.refusal = NoRefusal =>
       /\ git.refusal = NoRefusal /\ git.files = zip.files /\ ToSet(git.warnings) = ToSet(zip.warnings)
       /\ git.candidates <= zip.candidates /\ git.total = zip.total

\* The entries of a tree of plain files.
PlainEntry(entry) ==
  /\ entry.kind = "file" /\ entry.root = "none" /\ entry.declared = entry.size
  /\ ~IgnoredByZip(entry.path) /\ ~LiesUnder(entry.path, GitIgnoredDirectories)
  /\ ~HasNoExtensionInGit(entry.path)

\* Both read a source alike.
LEMMA SourcesAlike ==
  ASSUME NEW zip \in Imports, NEW git \in Imports, zip.refusal = NoRefusal, Alike(zip, git),
         NEW e \in Entries, e.declared = e.size, NEW limits \in ImportBounds
  PROVE  Alike(ZipSource(zip, e, limits), GitSource(git, e, limits))
<1> DEFINE counted  == [zip EXCEPT !.candidates = @ + 1]
           declared == [counted EXCEPT !.declared = @ + e.declared]
           taken    == [declared EXCEPT !.total = @ + e.size]
           mine     == [git EXCEPT !.candidates = @ + 1]
           held     == [mine EXCEPT !.total = @ + e.size]
           x == ZipSource(zip, e, limits)
           y == GitSource(git, e, limits)
<1>0. /\ zip.candidates \in Nat /\ zip.declared \in Nat /\ zip.total \in Nat /\ e.size \in Nat
      /\ git.candidates \in Nat /\ git.declared \in Nat /\ git.total \in Nat
      /\ limits.files \in Nat /\ limits.total \in Nat /\ limits.single \in Nat
      /\ zip.seen \in SUBSET Paths /\ git.seen \in SUBSET Paths
  BY DEF Imports, Entries, ImportBounds
<1>1. /\ git.refusal = NoRefusal /\ git.files = zip.files /\ ToSet(git.warnings) = ToSet(zip.warnings)
      /\ git.candidates <= zip.candidates /\ git.total = zip.total
  BY DEF Alike
<1>2. /\ counted \in Imports /\ counted.refusal = NoRefusal /\ counted.files = zip.files /\ counted.warnings = zip.warnings
      /\ counted.candidates = zip.candidates + 1 /\ counted.total = zip.total
  <2> DEFINE c == zip.candidates + 1
             s == zip.seen
             d == zip.declared
             t == zip.total
  <2>1. Recounts(zip, counted, s, c, d, t) BY DEF Recounts, Imports
  <2>2. c \in Nat /\ d \in Nat /\ t \in Nat BY <1>0
  <2> HIDE DEF s, c, d, t, counted
  <2>3. zip \in Imports /\ s \in SUBSET Paths BY <1>0 DEF s
  <2>4. /\ counted \in Imports /\ counted.refusal = zip.refusal /\ counted.files = zip.files
        /\ counted.warnings = zip.warnings /\ counted.candidates = c /\ counted.total = t
    <3>1. OnlyRecounts(zip, counted, s, c, d, t) BY <2>1, <2>2, <2>3, CountsAlone
    <3> QED BY <3>1 DEF OnlyRecounts
  <2> QED BY <2>4 DEF c, t
<1>3. /\ taken \in Imports /\ taken.refusal = NoRefusal /\ taken.files = zip.files /\ taken.warnings = zip.warnings
      /\ taken.candidates = zip.candidates + 1 /\ taken.total = zip.total + e.size
  <2> DEFINE c == zip.candidates + 1
             s == zip.seen
             d == zip.declared + e.declared
             t == zip.total + e.size
  <2>1. Recounts(zip, taken, s, c, d, t) BY DEF Recounts, Imports
  <2>2. c \in Nat /\ d \in Nat /\ t \in Nat BY <1>0
  <2> HIDE DEF s, c, d, t, taken
  <2>3. zip \in Imports /\ s \in SUBSET Paths BY <1>0 DEF s
  <2>4. /\ taken \in Imports /\ taken.refusal = zip.refusal /\ taken.files = zip.files
        /\ taken.warnings = zip.warnings /\ taken.candidates = c /\ taken.total = t
    <3>1. OnlyRecounts(zip, taken, s, c, d, t) BY <2>1, <2>2, <2>3, CountsAlone
    <3> QED BY <3>1 DEF OnlyRecounts
  <2> QED BY <2>4 DEF c, t
<1>4. /\ held \in Imports /\ held.refusal = NoRefusal /\ held.files = git.files /\ held.warnings = git.warnings
      /\ held.candidates = git.candidates + 1 /\ held.total = git.total + e.size
      /\ mine.candidates = git.candidates + 1
  <2> DEFINE c == git.candidates + 1
             s == git.seen
             d == git.declared
             t == git.total + e.size
  <2>1. Recounts(git, held, s, c, d, t) /\ mine.candidates = c BY DEF Recounts, Imports
  <2>2. c \in Nat /\ d \in Nat /\ t \in Nat BY <1>0
  <2> HIDE DEF s, c, d, t, held, mine
  <2>3. git \in Imports /\ s \in SUBSET Paths BY <1>0 DEF s
  <2>4. /\ held \in Imports /\ held.refusal = git.refusal /\ held.files = git.files
        /\ held.warnings = git.warnings /\ held.candidates = c /\ held.total = t
    <3>1. OnlyRecounts(git, held, s, c, d, t) BY <2>1, <2>2, <2>3, CountsAlone
    <3> QED BY <3>1 DEF OnlyRecounts
  <2> QED BY <1>1, <2>1, <2>4 DEF c, t
<1>5. x \in Imports /\ y \in Imports
  BY <1>1, ZipSourceStep, GitSourceStep DEF SourceStep, Grown
<1>6. ASSUME x.refusal = NoRefusal
      PROVE  \/ /\ e.size > limits.single /\ zip.candidates + 1 <= limits.files
                /\ \E z \in {counted, declared} : x = Warned(z, "IMPORT_FILE_TOO_LARGE", e)
             \/ /\ e.size <= limits.single /\ zip.candidates + 1 <= limits.files /\ zip.total + e.size <= limits.total
                /\ x = Kept(taken, e)
  <2>1. "ZIP_INVALID" \in RefusalCodes BY DEF RefusalCodes
  <2>2. declared \in Imports /\ declared.declared = zip.declared + e.size
    <3> DEFINE c == zip.candidates + 1
               s == zip.seen
               d == zip.declared + e.declared
               t == zip.total
    <3>1. Recounts(zip, declared, s, c, d, t) BY DEF Recounts, Imports
    <3>2. c \in Nat /\ d \in Nat /\ t \in Nat BY <1>0
    <3> HIDE DEF s, c, d, t, declared
    <3>3. zip \in Imports /\ s \in SUBSET Paths BY <1>0 DEF s
    <3>6. OnlyRecounts(zip, declared, s, c, d, t) BY <3>1, <3>2, <3>3, CountsAlone
    <3>4. declared \in Imports /\ declared.declared = d BY <3>6 DEF OnlyRecounts
    <3>5. e.declared = e.size OBVIOUS
    <3> QED BY <3>4, <3>5 DEF d
  <2>3. /\ counted.candidates > limits.files => x = Refused(counted, "ZIP_INVALID")
        /\ counted.candidates <= limits.files /\ e.declared > limits.single => x = Warned(counted, "IMPORT_FILE_TOO_LARGE", e)
        /\ counted.candidates <= limits.files /\ ~(e.declared > limits.single) =>
             /\ declared.declared > limits.total => x = Refused(declared, "ZIP_INVALID")
             /\ declared.declared <= limits.total /\ e.size > limits.single => x = Warned(declared, "IMPORT_FILE_TOO_LARGE", e)
             /\ declared.declared <= limits.total /\ ~(e.size > limits.single) =>
                  x = IF taken.total > limits.total THEN Refused(taken, "ZIP_INVALID") ELSE Kept(taken, e)
    <3>1. /\ counted.candidates \in Int /\ declared.declared \in Int /\ limits.files \in Int /\ limits.total \in Int
      <4> HIDE DEF counted, declared
      <4> QED BY <1>0, <1>2, <2>2
    <3> QED BY <3>1 DEF ZipSource
  <2> HIDE DEF counted, declared, taken, x
  <2>4. \A z \in {counted, declared, taken} : Refused(z, "ZIP_INVALID").refusal # NoRefusal
    BY <1>2, <1>3, <2>1, <2>2, RefusalSet
  <2>5. /\ counted.candidates = zip.candidates + 1 /\ taken.total = zip.total + e.size
        /\ declared.declared = zip.declared + e.size
    BY <1>2, <1>3, <2>2
  <2> QED BY <1>0, <1>6, <2>3, <2>4, <2>5
<1>7. ASSUME NEW z \in {counted, declared} PROVE z \in Imports /\ z.refusal = NoRefusal /\ z.files = zip.files
              /\ z.warnings = zip.warnings /\ z.candidates = zip.candidates + 1 /\ z.total = zip.total
  <2>1. CASE z = counted BY <1>2, <2>1
  <2>2. CASE z = declared
    <3> DEFINE c == zip.candidates + 1
               s == zip.seen
               d == zip.declared + e.declared
               t == zip.total
    <3>1. Recounts(zip, declared, s, c, d, t) BY DEF Recounts, Imports
    <3>2. c \in Nat /\ d \in Nat /\ t \in Nat BY <1>0
    <3> HIDE DEF s, c, d, t, declared
    <3>3. /\ declared \in Imports /\ declared.refusal = NoRefusal /\ declared.files = zip.files
          /\ declared.warnings = zip.warnings /\ declared.candidates = c /\ declared.total = t
      <4>1. zip \in Imports /\ s \in SUBSET Paths /\ zip.refusal = NoRefusal BY <1>0 DEF s
      <4>2. OnlyRecounts(zip, declared, s, c, d, t) BY <3>1, <3>2, <4>1, CountsAlone
      <4> QED BY <4>1, <4>2 DEF OnlyRecounts
    <3> QED BY <2>2, <3>3 DEF c, t
  <2> QED BY <2>1, <2>2
<1>8. /\ e.size > limits.single => y = Warned(git, "IMPORT_FILE_TOO_LARGE", e)
      /\ e.size <= limits.single /\ ~(mine.candidates > limits.files \/ held.total > limits.total) => y = Kept(held, e)
  BY <1>0 DEF GitSource
<1> HIDE DEF counted, declared, taken, mine, held, x, y
<1>9. ASSUME x.refusal = NoRefusal
      PROVE  /\ y.refusal = NoRefusal /\ y.files = x.files /\ ToSet(y.warnings) = ToSet(x.warnings)
             /\ y.candidates <= x.candidates /\ y.total = x.total
  <2>1. CASE /\ e.size > limits.single /\ zip.candidates + 1 <= limits.files
             /\ \E z \in {counted, declared} : x = Warned(z, "IMPORT_FILE_TOO_LARGE", e)
    <3>1. PICK z \in {counted, declared} : x = Warned(z, "IMPORT_FILE_TOO_LARGE", e) BY <2>1
    <3>2. "IMPORT_FILE_TOO_LARGE" \in WarningCodes BY DEF WarningCodes
    <3>3. z \in Imports /\ z.refusal = NoRefusal /\ z.files = zip.files
              /\ z.warnings = zip.warnings /\ z.candidates = zip.candidates + 1 /\ z.total = zip.total
      BY <1>7
    <3>4. /\ x.files = z.files /\ x.candidates = z.candidates /\ x.total = z.total
          /\ ToSet(x.warnings) = ToSet(z.warnings) \cup {Warning("IMPORT_FILE_TOO_LARGE", e)}
      <4> DEFINE code == "IMPORT_FILE_TOO_LARGE"
                 w == Warned(z, code, e)
      <4>1. z \in Imports /\ code \in WarningCodes /\ e \in Entries BY <3>2, <3>3
      <4>4. w = Warned(z, code, e) OBVIOUS
      <4> HIDE DEF code, w
      <4>2. /\ w.files = z.files /\ w.candidates = z.candidates /\ w.total = z.total
            /\ ToSet(w.warnings) = ToSet(z.warnings) \cup {Warning(code, e)}
        <5>1. OnlyWarns(z, w, code, e) BY <4>1, <4>4, WarningAdded
        <5> QED BY <5>1 DEF OnlyWarns
      <4>3. x = w BY <3>1, <4>4 DEF code
      <4> QED BY <4>2, <4>3 DEF code
    <3>5. y = Warned(git, "IMPORT_FILE_TOO_LARGE", e) BY <1>8, <2>1
    <3>6. /\ y.files = git.files /\ y.candidates = git.candidates /\ y.total = git.total /\ y.refusal = git.refusal
          /\ ToSet(y.warnings) = ToSet(git.warnings) \cup {Warning("IMPORT_FILE_TOO_LARGE", e)}
      <4>1. OnlyWarns(git, y, "IMPORT_FILE_TOO_LARGE", e) BY <3>2, <3>5, WarningAdded
      <4> QED BY <4>1 DEF OnlyWarns
    <3>7. git.candidates <= zip.candidates + 1 BY <1>0, <1>1
    <3> QED BY <1>1, <3>3, <3>4, <3>6, <3>7
  <2>2. CASE /\ e.size <= limits.single /\ zip.candidates + 1 <= limits.files /\ zip.total + e.size <= limits.total
             /\ x = Kept(taken, e)
    <3>1. /\ x.files = Append(taken.files, FileOf(e))
          /\ x.candidates = taken.candidates /\ x.total = taken.total
          /\ ToSet(x.warnings) = ToSet(taken.warnings) \cup NotesOf(e)
      <4>1. OnlyKeeps(taken, x, e) BY <1>3, <2>2, FileKept
      <4> QED BY <4>1 DEF OnlyKeeps
    <3>2. ~(mine.candidates > limits.files \/ held.total > limits.total)
      <4>1. git.candidates + 1 <= limits.files /\ git.total + e.size <= limits.total BY <1>0, <1>1, <2>2
      <4> QED BY <1>0, <1>4, <4>1
    <3>3. y = Kept(held, e) BY <1>8, <2>2, <3>2
    <3>4. /\ y.files = Append(held.files, FileOf(e)) /\ y.refusal = held.refusal
          /\ y.candidates = held.candidates /\ y.total = held.total
          /\ ToSet(y.warnings) = ToSet(held.warnings) \cup NotesOf(e)
      <4>1. OnlyKeeps(held, y, e) BY <1>4, <3>3, FileKept
      <4> QED BY <4>1 DEF OnlyKeeps
    <3>5. git.candidates + 1 <= zip.candidates + 1 BY <1>0, <1>1
    <3>6. y.files = x.files BY <1>1, <1>3, <1>4, <3>1, <3>4
    <3>7. ToSet(y.warnings) = ToSet(x.warnings) BY <1>1, <1>3, <1>4, <3>1, <3>4
    <3>8. y.candidates <= x.candidates /\ y.total = x.total /\ y.refusal = NoRefusal BY <1>1, <1>3, <1>4, <3>1, <3>4, <3>5
    <3> QED BY <3>6, <3>7, <3>8
  <2> QED BY <1>6, <1>9, <2>1, <2>2
<1> QED BY <1>5, <1>9 DEF Alike, x, y


\* What cannot be read is told alike.
LEMMA UnreadAlike ==
  ASSUME NEW zip, NEW git, Alike(zip, git), NEW e \in Entries
  PROVE  Alike(Unsupported(zip, e), Unsupported(git, e))
<1> DEFINE condition == ExtensionOf(e.path) \in UnsupportedCodeExtensions
           code == "IMPORT_LANGUAGE_UNSUPPORTED"
           more == IF condition THEN {Warning(code, e)} ELSE {}
           x == Unsupported(zip, e)
           y == Unsupported(git, e)
           Told(a, b) == /\ b \in Imports /\ b.refusal = a.refusal /\ b.files = a.files
                         /\ b.candidates = a.candidates /\ b.total = a.total
                         /\ ToSet(b.warnings) = ToSet(a.warnings) \cup more
<1>1. code \in WarningCodes BY DEF WarningCodes
<1>2. x = WarnedIf(zip, condition, code, e) /\ y = WarnedIf(git, condition, code, e) BY DEF Unsupported
<1>3. zip \in Imports /\ git \in Imports BY DEF Alike
<1> HIDE DEF condition, code, x, y
<1>4. Told(zip, x) BY <1>1, <1>2, <1>3, PerhapsWarned
<1>5. Told(git, y) BY <1>1, <1>2, <1>3, PerhapsWarned
<1> HIDE DEF more
<1>6. Alike(x, y) BY <1>4, <1>5 DEF Alike
<1> QED BY <1>6 DEF x, y

\* Both read an entry of a tree of plain files alike.
LEMMA EntriesAlike ==
  ASSUME NEW zip, NEW git, Alike(zip, git), NEW e \in Entries, PlainEntry(e), NEW limits \in ImportBounds
  PROVE  Alike(ZipEntry(zip, e, limits), GitEntry(git, e, limits))
<1> DEFINE key == CollisionKey(e.path)
           seen == [zip EXCEPT !.seen = @ \cup ({key} \ {<<>>})]
           x == ZipEntry(zip, e, limits)
           y == GitEntry(git, e, limits)
<1>1. zip \in Imports /\ git \in Imports BY DEF Alike
<1>2. /\ e.kind = "file" /\ e.root = "none" /\ e.declared = e.size
      /\ ~IgnoredByZip(e.path) /\ ~LiesUnder(e.path, GitIgnoredDirectories) /\ ~HasNoExtensionInGit(e.path)
  BY DEF PlainEntry
<1>3. x \in Imports /\ y \in Imports
  <2>1. Grown(zip, x, limits) BY <1>1, ZipStep DEF ZipReads, SourceStep
  <2>2. Grown(git, y, limits) BY <1>1, GitStep DEF GitReads, SourceStep
  <2> QED BY <2>1, <2>2 DEF Grown
<1>4. CASE zip.refusal # NoRefusal
  <2>1. x = zip BY <1>4 DEF ZipEntry
  <2> HIDE DEF x, y
  <2>2. Alike(x, y) BY <1>3, <1>4, <2>1 DEF Alike
  <2> QED BY <2>2 DEF x, y
<1>5. CASE zip.refusal = NoRefusal /\ (key \in zip.seen \/ ~IsSafeRelativePath(e.path))
  <2>1. x = Refused(zip, "ZIP_DUPLICATE_PATH") \/ x = Refused(seen, "ZIP_UNSAFE_PATH")
    BY <1>2, <1>5 DEF ZipEntry
  <2>2. "ZIP_DUPLICATE_PATH" \in RefusalCodes /\ "ZIP_UNSAFE_PATH" \in RefusalCodes BY DEF RefusalCodes
  <2>3. Refused(zip, "ZIP_DUPLICATE_PATH").refusal # NoRefusal BY <1>1, <2>2, RefusalSet
  <2>4. Refused(seen, "ZIP_UNSAFE_PATH").refusal # NoRefusal
    <3>1. Refused(seen, "ZIP_UNSAFE_PATH").refusal = "ZIP_UNSAFE_PATH" BY <1>1 DEF Refused, Imports
    <3> QED BY <2>2, <3>1, NoRefusalIsNoCode
  <2> HIDE DEF seen, x, y
  <2>5. x.refusal # NoRefusal BY <2>1, <2>3, <2>4
  <2>6. Alike(x, y) BY <1>3, <2>5 DEF Alike
  <2> QED BY <2>6 DEF x, y
<1>6. CASE zip.refusal = NoRefusal /\ key \notin zip.seen /\ IsSafeRelativePath(e.path)
  <2>1. git.refusal = NoRefusal BY <1>6 DEF Alike
  <2>2. ~IsAbsolute(e) BY <1>2 DEF IsAbsolute
  <2>3. x = IF IsSupported(e.path) THEN ZipSource(seen, e, limits) ELSE Unsupported(seen, e)
    BY <1>2, <1>6, <2>2 DEF ZipEntry
  <2>4. y = IF IsSupported(e.path) THEN GitSource(git, e, limits) ELSE Unsupported(git, e)
    BY <1>2, <1>6, <2>1 DEF GitEntry
  <2>5. Alike(seen, git) /\ seen \in Imports /\ seen.refusal = NoRefusal
    <3> DEFINE grown == zip.seen \cup ({key} \ {<<>>})
               c == zip.candidates
               d == zip.declared
               t == zip.total
    <3>1. Recounts(zip, seen, grown, c, d, t) BY <1>1 DEF Recounts, Imports
    <3>2. grown \in SUBSET Paths /\ c \in Nat /\ d \in Nat /\ t \in Nat
      <4>1. e.path \in Paths /\ zip.seen \in SUBSET Paths BY <1>1 DEF Entries, Paths, Imports
      <4>2. key \in Paths BY <4>1, KeysCollide
      <4>3. c \in Nat /\ d \in Nat /\ t \in Nat BY <1>1 DEF Imports
      <4> HIDE DEF key
      <4> QED BY <4>1, <4>2, <4>3
    <3> HIDE DEF grown, c, d, t, seen
    <3>3. /\ seen \in Imports /\ seen.refusal = zip.refusal /\ seen.files = zip.files
          /\ seen.warnings = zip.warnings /\ seen.candidates = c /\ seen.total = t
      <4>1. OnlyRecounts(zip, seen, grown, c, d, t) BY <1>1, <3>1, <3>2, CountsAlone
      <4> QED BY <4>1 DEF OnlyRecounts
    <3> QED BY <1>1, <1>6, <3>3 DEF Alike, c, t
  <2> HIDE DEF x, y, seen
  <2>6. CASE IsSupported(e.path)
    <3>1. Alike(ZipSource(seen, e, limits), GitSource(git, e, limits))
      BY <1>1, <1>2, <2>5, SourcesAlike
    <3> QED BY <2>3, <2>4, <2>6, <3>1 DEF x, y
  <2>7. CASE ~IsSupported(e.path)
    <3>1. Alike(Unsupported(seen, e), Unsupported(git, e)) BY <2>5, UnreadAlike
    <3> QED BY <2>3, <2>4, <2>7, <3>1 DEF x, y
  <2> QED BY <2>6, <2>7
<1> QED BY <1>4, <1>5, <1>6

\* An archive of plain files that is not refused is the project that their clone is.
LEMMA ArchiveAgrees ==
  ASSUME NEW entries \in Seq(Entries), NEW limits \in ImportBounds
  PROVE  ArchiveAndCloneAgree(entries, limits)
<1> DEFINE n == Len(entries)
           zip == ExtractFilesFromZip(entries, limits)
           git == CloneAndExtractFiles(entries, limits)
<1> SUFFICES ASSUME IsPlain(entries), zip.refusal = NoRefusal
             PROVE  git.refusal = NoRefusal /\ git.files = zip.files /\ ToSet(git.warnings) = ToSet(zip.warnings)
  BY DEF ArchiveAndCloneAgree
<1>1. n \in Nat /\ DOMAIN entries = 1..n /\ \A k \in 1..n : entries[k] \in Entries
  OBVIOUS
<1>2. PICK r : /\ r[0] = NothingRead
               /\ \A k \in 1..n : r[k] = ZipEntry(r[k - 1], entries[k], limits)
               /\ zip = IF n > limits.entries THEN Refused(NothingRead, "ZIP_INVALID") ELSE NotEmpty(r[n])
  BY ZipRun
<1>3. PICK q : /\ q[0] = NothingRead
               /\ \A k \in 1..n : q[k] = GitEntry(q[k - 1], entries[k], limits)
               /\ git = NotEmpty(q[n])
  BY GitRun
<1>4. \A k \in 1..n : PlainEntry(entries[k])
  <2>1. \A k \in 1..n : entries[k] \in ToSet(entries) BY <1>1 DEF ToSet
  <2> QED BY <2>1 DEF IsPlain, PlainEntry
<1>5. NothingRead \in Imports
  BY NothingBooked DEF Booked
<1> HIDE DEF zip, git
<1>6. Alike(r[n], q[n])
  <2> DEFINE P == {k \in 0..n : Alike(r[k], q[k])}
  <2>1. 0 \in P
    <3>1. Alike(NothingRead, NothingRead) BY <1>5 DEF Alike, Imports
    <3> QED BY <1>1, <1>2, <1>3, <3>1
  <2>2. ASSUME NEW k \in 1..n, k - 1 \in P PROVE k \in P
    <3>1. Alike(r[k - 1], q[k - 1]) BY <2>2
    <3>2. entries[k] \in Entries /\ PlainEntry(entries[k]) BY <1>1, <1>4
    <3>3. Alike(ZipEntry(r[k - 1], entries[k], limits), GitEntry(q[k - 1], entries[k], limits))
      BY <3>1, <3>2, EntriesAlike
    <3>4. r[k] = ZipEntry(r[k - 1], entries[k], limits) /\ q[k] = GitEntry(q[k - 1], entries[k], limits)
      BY <1>2, <1>3
    <3> QED BY <3>3, <3>4
  <2> HIDE DEF P, n
  <2>3. \A k \in 0..n : k \in P BY <1>1, <2>1, <2>2, StepByStep
  <2>4. n \in P BY <1>1, <2>3
  <2> QED BY <2>4 DEF P
<1>7. zip = r[n] /\ r[n].files # <<>>
  <2>1. "ZIP_INVALID" \in RefusalCodes /\ "EMPTY_SOURCE" \in RefusalCodes BY DEF RefusalCodes
  <2>2. r[n] \in Imports BY <1>6 DEF Alike
  <2>3. Refused(NothingRead, "ZIP_INVALID").refusal # NoRefusal BY <1>5, <2>1, RefusalSet
  <2>4. Refused(r[n], "EMPTY_SOURCE").refusal # NoRefusal BY <2>1, <2>2, RefusalSet
  <2>5. zip = NotEmpty(r[n]) BY <1>2, <2>3
  <2> QED BY <2>4, <2>5 DEF NotEmpty
<1>8. /\ q[n].refusal = NoRefusal /\ q[n].files = r[n].files
      /\ ToSet(q[n].warnings) = ToSet(r[n].warnings)
  BY <1>6, <1>7 DEF Alike
<1>9. git = q[n]
  BY <1>3, <1>7, <1>8 DEF NotEmpty
<1> QED BY <1>7, <1>8, <1>9


(***************************************************************************)
(* The rows that are saved.                                                *)
(***************************************************************************)
\* The chunks hold all the rows, and the last of them one at least.
LEMMA ChunksHoldAll ==
  ASSUME NEW total \in Nat, NEW size \in Nat \ {0}, NEW count, count = (total + size - 1) \div size
  PROVE  count \in Nat /\ total <= count * size /\ (count = 0 <=> total = 0)
<1>1. (total + size - 1) \div size \in Nat
  OBVIOUS
<1>2. total <= ((total + size - 1) \div size) * size
  OBVIOUS
<1>3. (total + size - 1) \div size = 0 <=> total = 0
  OBVIOUS
<1> QED BY <1>1, <1>2, <1>3

\* One after the other the chunks are the list: what is inserted up to a chunk is
\* the list up to its last row.
LEMMA ChunksMakeTheList ==
  ASSUME NEW S, NEW items \in Seq(S), NEW size \in Nat \ {0}
  PROVE  FlattenSeq(Chunks(items, size)) = items
<1> DEFINE total == Len(items)
           count == (total + size - 1) \div size
           pages == Chunks(items, size)
           last(n) == IF n * size < total THEN n * size ELSE total
           upTo == [n \in 1..count |-> SubSeq(items, 1, last(n))]
           Follows(f) == f = [n \in 1..count |-> IF n = 1 THEN pages[n] ELSE f[n - 1] \o pages[n]]
<1>0. pages = [n \in 1..count |-> SubSeq(items, (n - 1) * size + 1, last(n))]
  BY DEF Chunks
<1> HIDE DEF pages
<1>1. total \in Nat /\ count \in Nat /\ total <= count * size /\ (count = 0 <=> total = 0)
  <2>1. total \in Nat OBVIOUS
  <2> QED BY <2>1, ChunksHoldAll
<1>2. Len(pages) = count
  <2>1. pages \in [1..count -> {pages[n] : n \in 1..count}]
    BY <1>0
  <2>2. count \in Nat BY <1>1
  <2> HIDE DEF count
  <2> QED BY ONLY <2>1, <2>2
<1>3. CASE count = 0
  <2>1. items = <<>> BY <1>1, <1>3, EmptySeq
  <2>2. pages = <<>>
    <3>1. pages \in [1..count -> {pages[n] : n \in 1..count}] BY <1>0
    <3> HIDE DEF count
    <3> QED BY ONLY <1>3, <3>1
  <2> QED BY <1>2, <1>3, <2>1, <2>2 DEF FlattenSeq, pages
<1>4. CASE count # 0
  <2>2. ASSUME NEW n \in 1..count
        PROVE  /\ (n - 1) * size \in Nat /\ n * size \in Nat /\ (n - 1) * size + size = n * size
               /\ last(n) \in 0..total /\ last(n) = IF n * size <= total THEN n * size ELSE total
    <3>1. n \in Nat /\ n - 1 \in Nat BY <1>1
    <3>2. (n - 1) * size \in Nat /\ n * size \in Nat /\ (n - 1) * size + size = n * size
      BY <3>1
    <3> DEFINE m == n * size
    <3>3. m \in Nat BY <3>2
    <3>4. last(n) = IF m < total THEN m ELSE total OBVIOUS
    <3> HIDE DEF m, last, total
    <3>5. last(n) \in 0..total /\ last(n) = IF m <= total THEN m ELSE total
      BY <1>1, <3>3, <3>4
    <3> QED BY <3>2, <3>5 DEF m
  <2>3. ASSUME NEW n \in 1..count
        PROVE  pages[n] = SubSeq(items, (n - 1) * size + 1, last(n))
    BY <1>0
  <2>4. last(count) = total
    <3> HIDE DEF count
    <3> QED BY <1>1, <1>4, <2>2
  <2>5. ASSUME NEW n \in 2..count
        PROVE  upTo[n - 1] \o pages[n] = upTo[n]
    <3> DEFINE done == (n - 1) * size
    <3>1. n \in 1..count /\ n - 1 \in 1..count BY <1>1
    <3>2. upTo[n - 1] = SubSeq(items, 1, last(n - 1)) /\ upTo[n] = SubSeq(items, 1, last(n))
      BY <3>1
    <3>3. pages[n] = SubSeq(items, done + 1, last(n))
      BY <2>3, <3>1
    <3>4. done \in Nat /\ last(n - 1) = (IF done <= total THEN done ELSE total)
      BY <2>2, <3>1
    <3>5. last(n) = (IF done + size <= total THEN done + size ELSE total)
      BY <2>2, <3>1
    <3> HIDE DEF last, done, upTo, total
    <3>6. CASE done <= total
      <4>1. last(n - 1) = done /\ done \in 0..total /\ last(n) \in done..total
        BY <1>1, <3>4, <3>5, <3>6
      <4>2. SubSeq(items, 1, done) \o SubSeq(items, done + 1, last(n)) = SubSeq(items, 1, last(n))
        <5>1. 1 \in 1..(Len(items) + 1) /\ done \in (1 - 1)..Len(items) /\ last(n) \in done..Len(items)
          BY <1>1, <4>1 DEF total
        <5> QED BY <5>1, ConcatAdjacentSubSeq
      <4> QED BY <3>2, <3>3, <4>1, <4>2
    <3>7. CASE done > total
      <4>1. last(n - 1) = total /\ last(n) = total
        BY <1>1, <3>4, <3>5, <3>7
      <4>2. SubSeq(items, done + 1, total) = <<>>
        BY <1>1, <3>4, <3>7, SubSeqEmpty
      <4>3. SubSeq(items, 1, total) \in Seq(S)
        BY <1>1, SubSeqFull DEF total
      <4> DEFINE all == SubSeq(items, 1, total)
      <4>4. all \o <<>> = all
        <5> HIDE DEF all
        <5> QED BY <4>3, ConcatEmptySeq DEF all
      <4>5. upTo[n - 1] = all /\ upTo[n] = all /\ pages[n] = <<>>
        BY <3>2, <3>3, <4>1, <4>2
      <4> QED BY ONLY <4>4, <4>5
    <3>8. done <= total \/ done > total
      BY <1>1, <3>4
    <3> QED BY <3>6, <3>7, <3>8
  <2>6. upTo[1] = pages[1] /\ 1 \in 1..count
    <3>1. 1 \in 1..count BY <1>1, <1>4
    <3>2. pages[1] = SubSeq(items, (1 - 1) * size + 1, last(1)) BY <2>3, <3>1
    <3>3. (1 - 1) * size + 1 = 1 OBVIOUS
    <3> HIDE DEF last
    <3> QED BY <3>1, <3>2, <3>3
  <2> HIDE DEF last
  <2>7. Follows(upTo)
    <3>1. ASSUME NEW n \in 1..count
          PROVE  upTo[n] = IF n = 1 THEN pages[n] ELSE upTo[n - 1] \o pages[n]
      <4>1. CASE n = 1 BY <2>6, <4>1
      <4>2. CASE n # 1
        <5>1. n \in 2..count BY <1>1, <4>2
        <5> QED BY <2>5, <4>2, <5>1
      <4> QED BY <4>1, <4>2
    <3>2. upTo \in [1..count -> {upTo[n] : n \in 1..count}]
      OBVIOUS
    <3> HIDE DEF upTo, count
    <3> QED BY ONLY <3>1, <3>2
  <2> DEFINE flat == CHOOSE f : Follows(f)
  <2>8. Follows(flat)
    <3> HIDE DEF Follows
    <3> QED BY <2>7
  <2>9. \A n \in 1..count : flat[n] = upTo[n]
    <3> DEFINE T == {n \in 1..count : flat[n] # upTo[n]}
    <3> SUFFICES ASSUME T # {} PROVE FALSE
      OBVIOUS
    <3>1. T \in SUBSET Nat
      <4> HIDE DEF flat, upTo, count
      <4> QED OBVIOUS
    <3>2. PICK n \in T : \A m \in T : n <= m
      <4> HIDE DEF T
      <4> QED BY <3>1, LeastNumber
    <3>3. n \in 1..count /\ flat[n] # upTo[n] /\ n \in Nat
      BY <3>1
    <3>4. flat = [k \in 1..count |-> IF k = 1 THEN pages[k] ELSE flat[k - 1] \o pages[k]]
      BY <2>8
    <3>5. n # 1
      <4> HIDE DEF flat, upTo, T
      <4> QED BY <2>6, <3>3, <3>4
    <3>6. n \in 2..count /\ n - 1 \in 1..count /\ n - 1 \notin T
      <4> HIDE DEF T, flat, upTo
      <4> QED BY <1>1, <3>2, <3>3, <3>5
    <3>7. flat[n - 1] = upTo[n - 1]
      BY <3>6
    <3> HIDE DEF flat, upTo, T
    <3> QED BY <2>5, <3>3, <3>4, <3>5, <3>6, <3>7
  <2>10. FlattenSeq(pages) = flat[count]
    BY <1>2, <1>4 DEF FlattenSeq, pages
  <2>11. upTo[count] = items
    <3>1. count \in 1..count BY <1>1, <1>4
    <3>2. upTo[count] = SubSeq(items, 1, total) BY <2>4, <3>1
    <3> QED BY <3>2, SubSeqFull
  <2>12. count \in 1..count BY <1>1, <1>4
  <2> HIDE DEF flat, upTo
  <2> QED BY <2>9, <2>10, <2>11, <2>12 DEF pages
<1> QED BY <1>3, <1>4 DEF pages

\* The rows of some keys, as they are counted key by key.
RowsOf(keys, s) == {i \in DOMAIN keys : keys[i] \in s}

SumOf(stats) == FoldSet(LAMBDA key, sum : sum + stats[key], 0, DOMAIN stats)

\* The statistics add up to the rows: each of them has one key.
LEMMA StatsAddUp ==
  ASSUME NEW n \in Nat, NEW keys, DOMAIN keys = 1..n, NEW stats, stats = StatsBy(keys)
  PROVE  SumOf(stats) = n
<1> DEFINE K == ToSet(keys)
           size(s) == Cardinality(RowsOf(keys, s))
           total == [s \in SUBSET K |-> size(s)]
           Iter(f) == [s \in SUBSET K |-> IF s = {} THEN 0
                         ELSE f[s \ {CHOOSE x \in s : TRUE}] + stats[CHOOSE x \in s : TRUE]]
           it == CHOOSE f : f = Iter(f)
<1>1. total = [s \in SUBSET K |-> total[s]] /\ \A s \in SUBSET K : total[s] = size(s)
  OBVIOUS
<1>2. DOMAIN stats = K /\ \A x \in K : stats[x] = Cardinality(RowsOf(keys, {x}))
  <2>1. \A x : RowsOf(keys, {x}) = {i \in DOMAIN keys : keys[i] = x} BY DEF RowsOf
  <2>2. stats = [x \in K |-> Cardinality(RowsOf(keys, {x}))] BY <2>1 DEF StatsBy
  <2> HIDE DEF K
  <2> QED BY <2>2
<1>3. IsFiniteSet(1..n) /\ Cardinality(1..n) = n
  BY FS_Interval
<1>4. size({}) = 0
  <2>1. RowsOf(keys, {}) = {} BY DEF RowsOf
  <2> QED BY <2>1, FS_EmptySet
<1>5. ASSUME NEW s \in SUBSET K, NEW x \in s PROVE size(s) = size(s \ {x}) + stats[x]
  <2> DEFINE rest == RowsOf(keys, s \ {x})
             part == RowsOf(keys, {x})
  <2>1. RowsOf(keys, s) = rest \cup part /\ rest \cap part = {} /\ rest \in SUBSET (1..n) /\ part \in SUBSET (1..n)
    BY DEF RowsOf
  <2>2. x \in K OBVIOUS
  <2> HIDE DEF rest, part
  <2>3. IsFiniteSet(rest) /\ IsFiniteSet(part)
    BY <1>3, <2>1, FS_Subset
  <2>4. Cardinality(rest \cup part) = Cardinality(rest) + Cardinality(part) - Cardinality(rest \cap part)
    BY <2>3, FS_Union
  <2>5. Cardinality(rest \cap part) = 0
    BY <2>1, FS_EmptySet
  <2>6. Cardinality(rest) \in Nat /\ Cardinality(part) \in Nat
    BY <2>3, FS_CardinalityType
  <2>7. Cardinality(rest \cup part) = Cardinality(rest) + Cardinality(part)
    BY <2>4, <2>5, <2>6
  <2>8. stats[x] = Cardinality(part) BY <1>2, <2>2 DEF part
  <2> QED BY <2>1, <2>7, <2>8 DEF rest
<1>6. size(K) = n
  <2>1. RowsOf(keys, K) = 1..n BY DEF RowsOf, ToSet
  <2> QED BY <1>3, <2>1
<1>7. IsFiniteSet(K)
  <2>1. K = {keys[i] : i \in 1..n} BY DEF ToSet
  <2> QED BY <1>3, <2>1, FiniteImage
<1>8. ASSUME NEW f PROVE Iter(f) = [s \in SUBSET K |-> Iter(f)[s]] /\ Iter(f)[{}] = 0
  OBVIOUS
<1>9. ASSUME NEW f, NEW s \in SUBSET K, s # {}
      PROVE  \E x \in s : Iter(f)[s] = f[s \ {x}] + stats[x]
  <2> DEFINE one == CHOOSE x \in s : TRUE
  <2>1. Iter(f)[s] = f[s \ {one}] + stats[one]
    BY <1>9
  <2>2. one \in s
    BY <1>9
  <2> HIDE DEF Iter, one
  <2> QED BY <2>1, <2>2
<1> HIDE DEF size, total, K, Iter
<1>10. total = Iter(total)
  <2>1. ASSUME NEW s \in SUBSET K PROVE total[s] = Iter(total)[s]
    <3>1. CASE s = {}
      BY <1>1, <1>4, <1>8, <3>1
    <3>2. CASE s # {}
      <4>1. PICK x \in s : Iter(total)[s] = total[s \ {x}] + stats[x]
        BY <1>9, <3>2
      <4>2. s \ {x} \in SUBSET K
        OBVIOUS
      <4> QED BY <1>1, <1>5, <4>1, <4>2
    <3> QED BY <3>1, <3>2
  <2>2. Iter(total) = [s \in SUBSET K |-> Iter(total)[s]]
    BY <1>8
  <2> QED BY <1>1, <2>1, <2>2
<1>11. it = Iter(it)
  BY <1>10
<1> HIDE DEF it
<1>12. it[K] = total[K]
  <2>1. it[{}] = total[{}]
    BY <1>8, <1>10, <1>11
  <2>2. ASSUME NEW s \in SUBSET K, s # {}
        PROVE  \E x \in s : it[s \ {x}] = total[s \ {x}] => it[s] = total[s]
    <3>1. PICK x \in s : Iter(it)[s] = it[s \ {x}] + stats[x]
      BY <1>9, <2>2
    <3>2. total[s] = total[s \ {x}] + stats[x]
      <4>1. s \ {x} \in SUBSET K
        OBVIOUS
      <4> QED BY <1>1, <1>5, <4>1
    <3>3. it[s] = Iter(it)[s]
      BY <1>11
    <3> QED BY <3>1, <3>2, <3>3
  <2> QED BY <1>7, <2>1, <2>2, ElementByElement
<1>13. SumOf(stats) = it[DOMAIN stats]
  <2>1. K = DOMAIN stats BY <1>2
  <2> HIDE DEF K
  <2> QED BY <2>1 DEF SumOf, FoldSet, MapThenFoldSet, it, Iter
<1> QED BY <1>1, <1>2, <1>6, <1>12, <1>13

\* Every row is in one chunk and counted once.
LEMMA RowsSaved ==
  ASSUME NEW kept \in Seq(Entries), NEW size \in Nat \ {0}
  PROVE  RowsAreSavedOnce(kept, size)
<1>1. Len(kept) \in Nat /\ DOMAIN kept = 1..Len(kept)
  OBVIOUS
<1>2. FlattenSeq(Chunks(kept, size)) = kept
  BY ChunksMakeTheList
<1>3. ASSUME NEW stats \in {StatsByExtension(kept), StatsByLanguage(kept)}
      PROVE  FoldSet(LAMBDA key, sum : sum + stats[key], 0, DOMAIN stats) = Len(kept)
  <2> DEFINE first == [i \in DOMAIN kept |-> ExtensionOf(kept[i].path)]
             second == [i \in DOMAIN kept |-> LanguageOf(ExtensionOf(kept[i].path))]
  <2>1. DOMAIN first = 1..Len(kept) /\ DOMAIN second = 1..Len(kept)
    BY <1>1
  <2>2. stats = StatsBy(first) \/ stats = StatsBy(second)
    BY <1>3 DEF StatsByExtension, StatsByLanguage
  <2> HIDE DEF first, second
  <2>3. PICK keys : DOMAIN keys = 1..Len(kept) /\ stats = StatsBy(keys)
    BY <2>1, <2>2
  <2>4. SumOf(stats) = Len(kept) BY <1>1, <2>3, StatsAddUp
  <2> QED BY <2>4 DEF SumOf
<1> QED BY <1>2, <1>3 DEF RowsAreSavedOnce


\* So an import accounts for what is read, in any order, with any limits.
LEMMA ImportsAccounted ==
  ASSUME input \in Inputs PROVE ImportsAccountForTheirFiles
<1> SUFFICES ASSUME input.kind = "import"
             PROVE  /\ ZipAccountsForItsEntries(input.entries, ImportLimits)
                    /\ IsTree(input.entries) =>
                         /\ GitAccountsForItsTree(input.entries, ImportLimits)
                         /\ ArchiveAndCloneAgree(input.entries, ImportLimits)
                    /\ RowsAreSavedOnce(input.entries, ChunkSize)
  BY DEF ImportsAccountForTheirFiles
<1> DEFINE entries == input.entries
<1>1. entries \in Seq(Entries)
  BY EntriesAreRead
<1>2. ImportLimits \in ImportBounds /\ ChunkSize \in Nat \ {0}
  BY LimitsAreNumbers DEF ImportBounds
<1> HIDE DEF entries
<1>3. ZipAccountsForItsEntries(entries, ImportLimits)
  BY <1>1, <1>2, ZipAccounts
<1>4. ASSUME IsTree(entries) PROVE GitAccountsForItsTree(entries, ImportLimits)
  BY <1>1, <1>2, <1>4, GitAccounts
<1>5. ArchiveAndCloneAgree(entries, ImportLimits)
  BY <1>1, <1>2, ArchiveAgrees
<1>6. RowsAreSavedOnce(entries, ChunkSize)
  BY <1>1, <1>2, RowsSaved
<1> QED BY <1>3, <1>4, <1>5, <1>6 DEF entries

\* Nothing that could be imported disappears, whatever the archive or the tree and
\* whatever the limits.
THEOREM ImportsAccount == Spec => []ImportsAccountForTheirFiles
<1>1. Init => input \in Inputs
  BY DEF Init
<1>2. input \in Inputs /\ [Next]_vars => (input \in Inputs)'
  BY DEF Next, vars, Read, Skip, AllRead, Link, LinkFails, Summarize, AddImportWarnings, CutDocuments,
         Persist, PersistFails
<1>3. input \in Inputs => ImportsAccountForTheirFiles
  BY ImportsAccounted
<1> QED BY <1>1, <1>2, <1>3, PTL DEF Spec
=============================================================================
