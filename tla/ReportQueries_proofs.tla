------------------------ MODULE ReportQueries_proofs ------------------------
(***************************************************************************)
(* Proofs about the requests that are answered from one thing read: the    *)
(* difference of two snapshots and the summaries, for lists of any length; *)
(* and about the gate, for any number of requests.                         *)
(***************************************************************************)
EXTENDS ReportQueries, PagedQueries_proofs

-----------------------------------------------------------------------------
(***************************************************************************)
(* Sorted puts each row at one place.                                      *)
(***************************************************************************)
PlacesOf(b, n) == [k \in 1..n |-> CHOOSE i \in 1..n : Cardinality(b[i]) = k - 1]

\* Places that are counted from nothing up are taken once each.
LEMMA PlacesTaken ==
  ASSUME NEW n \in Nat, NEW b, \A k \in 1..n : \E i \in 1..n : Cardinality(b[i]) = k - 1
  PROVE  /\ PlacesOf(b, n) \in [1..n -> 1..n]
         /\ \A k \in 1..n : Cardinality(b[PlacesOf(b, n)[k]]) = k - 1
         /\ \A k, l \in 1..n : PlacesOf(b, n)[k] = PlacesOf(b, n)[l] => k = l
         /\ \A i \in 1..n : \E k \in 1..n : PlacesOf(b, n)[k] = i
<1> DEFINE P == 1..n
           at == PlacesOf(b, n)
<1>1. \A k \in P : at[k] \in P /\ Cardinality(b[at[k]]) = k - 1
  BY DEF PlacesOf
<1>2. at \in [P -> P]
  BY <1>1 DEF PlacesOf
<1>3. \A k, l \in P : at[k] = at[l] => k = l
  BY <1>1
<1>4. IsFiniteSet(P)
  BY FS_Interval
<1> HIDE DEF P, at
<1>5. at \in Injection(P, P)
  BY <1>2, <1>3 DEF Injection, IsInjective
<1>6. at \in Surjection(P, P)
  BY <1>4, <1>5, FS_Injection
<1>7. \A i \in P : \E k \in P : at[k] = i
  BY <1>6 DEF Surjection
<1> QED BY <1>1, <1>2, <1>3, <1>7 DEF P, at

\* Keys in their order are the keys, and as many.
LEMMA KeysInPlaces ==
  ASSUME NEW keys \in SUBSET Nat, IsFiniteSet(keys)
  PROVE  /\ Cardinality(keys) \in Nat /\ InKeyOrder(keys) \in [1..Cardinality(keys) -> keys]
         /\ \A key \in keys : \E i \in 1..Cardinality(keys) : InKeyOrder(keys)[i] = key
<1> DEFINE q == SetToSeq(keys)
           n == Cardinality(keys)
           rank == [i \in 1..n |-> <<q[i], 0, 0, 0>>]
           b == [i \in 1..n |-> {j \in 1..n : q[j] < q[i] \/ (j < i /\ ~(q[i] < q[j]))}]
<1>1. n \in Nat /\ q \in [1..n -> keys] /\ \A i, j \in 1..n : q[i] = q[j] => i = j
  BY SetsAreListed
<1> HIDE DEF q, n
<1>2. \A k \in 1..n : \E i \in 1..n : Cardinality(b[i]) = k - 1
  <2>1. rank \in [1..n -> Ranks]
    <3>1. \A key \in keys : key \in Int OBVIOUS
    <3>2. \A i \in 1..n : q[i] \in keys BY <1>1
    <3>3. \A i \in 1..n : q[i] \in Int BY ONLY <3>1, <3>2
    <3>4. \A i \in 1..n : <<q[i], 0, 0, 0>> \in Ranks BY <3>3 DEF Ranks
    <3> HIDE DEF Ranks
    <3> QED BY <3>4
  <2>2. \A i, j \in 1..n : Precedes(rank[i], rank[j]) <=> q[i] < q[j]
    BY <1>1 DEF Precedes
  <2> HIDE DEF rank
  <2>3. \A k \in 1..n : \E i \in 1..n :
           Cardinality({j \in 1..n : \/ Precedes(rank[j], rank[i])
                                     \/ j < i /\ ~Precedes(rank[i], rank[j])}) = k - 1
    BY <1>1, <2>1, SortedLists
  <2>4. \A i \in 1..n : b[i] = {j \in 1..n : \/ Precedes(rank[j], rank[i])
                                             \/ j < i /\ ~Precedes(rank[i], rank[j])}
    BY <2>2
  <2> HIDE DEF b
  <2> QED BY <2>3, <2>4
<1> DEFINE at == PlacesOf(b, n)
<1>3. InKeyOrder(keys) = [k \in 1..n |-> q[at[k]]]
  <2>1. DOMAIN q = 1..n BY <1>1
  <2>2. InKeyOrder(keys) = [k \in 1..n |->
          q[CHOOSE i \in 1..n : Cardinality({j \in 1..n : q[j] < q[i] \/ (j < i /\ ~(q[i] < q[j]))}) = k - 1]]
    BY <2>1 DEF InKeyOrder, Sorted, q
  <2>3. \A k \in 1..n : at[k] = CHOOSE i \in 1..n :
           Cardinality({j \in 1..n : q[j] < q[i] \/ (j < i /\ ~(q[i] < q[j]))}) = k - 1
    BY DEF PlacesOf
  <2> QED BY <2>2, <2>3
<1> HIDE DEF b
<1>4. at \in [1..n -> 1..n] /\ \A i \in 1..n : \E k \in 1..n : at[k] = i
  BY <1>1, <1>2, PlacesTaken
<1> HIDE DEF at
<1>5. InKeyOrder(keys) \in [1..n -> keys]
  BY <1>1, <1>3, <1>4
<1>6. \A key \in keys : \E i \in 1..n : q[i] = key
  <2>1. IsFiniteSet(1..n) /\ Cardinality(1..n) = n
    BY <1>1, FS_Interval
  <2> DEFINE P == 1..n
  <2>2. q \in Injection(P, keys) /\ IsFiniteSet(P) /\ Cardinality(P) = Cardinality(keys)
    BY <1>1, <2>1 DEF Injection, IsInjective, n
  <2> HIDE DEF P
  <2>3. q \in Surjection(P, keys)
    BY <2>2, FS_Injection
  <2> QED BY <2>3 DEF Surjection, P
<1>7. \A key \in keys : \E i \in 1..n : InKeyOrder(keys)[i] = key
  <2> SUFFICES ASSUME NEW key \in keys PROVE \E k \in 1..n : InKeyOrder(keys)[k] = key
    OBVIOUS
  <2>1. PICK i \in 1..n : q[i] = key BY <1>6
  <2>2. PICK k \in 1..n : at[k] = i BY <1>4
  <2>3. InKeyOrder(keys)[k] = q[at[k]] BY <1>3
  <2> QED BY <2>1, <2>2, <2>3
<1> QED BY <1>1, <1>5, <1>7 DEF n

LEMMA KeysAreListed ==
  ASSUME NEW keys \in SUBSET Nat, IsFiniteSet(keys)
  PROVE  \E n \in Nat : /\ InKeyOrder(keys) \in [1..n -> keys]
                        /\ \A key \in keys : \E i \in 1..n : InKeyOrder(keys)[i] = key
BY KeysInPlaces

-----------------------------------------------------------------------------
(***************************************************************************)
(* The difference of two snapshots.                                        *)
(***************************************************************************)
\* A set of numbers up to a bound that holds something holds a greatest one.
LEMMA GreatestNumber ==
  ASSUME NEW n \in Nat, NEW T \in SUBSET (1..n), T # {}
  PROVE  Max(T) \in T /\ \A x \in T : x <= Max(T)
<1> DEFINE U == {n - x : x \in T}
<1>1. \A x \in T : x \in Int /\ x <= n
  OBVIOUS
<1>2. U \in SUBSET Nat /\ U # {}
  <2>1. \A x \in T : n - x \in Nat
    BY <1>1
  <2> QED BY <2>1
<1>3. PICK y \in U : \A z \in U : y <= z
  <2> HIDE DEF U
  <2> QED BY <1>2, LeastNumber
<1>4. PICK x \in T : y = n - x
  OBVIOUS
<1>5. \A z \in T : x >= z
  <2> SUFFICES ASSUME NEW z \in T PROVE x >= z
    OBVIOUS
  <2>1. n - x <= n - z BY <1>3, <1>4
  <2> QED BY <2>1
<1>6. \E greatest \in T : \A z \in T : greatest >= z
  BY <1>5
<1>7. Max(T) \in T /\ \A z \in T : Max(T) >= z
  BY <1>6 DEF Max
<1> QED BY ONLY <1>1, <1>7

\* A map by key has finitely many keys, and at each an item with that key.
IsKeyed(map) ==
  /\ DOMAIN map \in SUBSET Nat /\ IsFiniteSet(DOMAIN map)
  /\ map = [key \in DOMAIN map |-> map[key]]
  /\ \A key \in DOMAIN map : map[key] \in SnapshotItem /\ map[key].key = key

\* It keeps an item of every key of a list, and the one that is alone with its key.
KeyedFrom(map, items) ==
  /\ DOMAIN map = ItemKeys(ToSet(items))
  /\ \A key \in DOMAIN map : map[key] \in ToSet(items)
  /\ \A item \in ToSet(items) : item.key \notin SharedIn(items) => item = map[item.key]

\* Keyed makes such a map of any list of items.
LEMMA KeyedItems ==
  ASSUME NEW items \in Seq(SnapshotItem)
  PROVE  IsKeyed(Keyed(items)) /\ KeyedFrom(Keyed(items), items)
<1> DEFINE n == Len(items)
           keys == {item.key : item \in ToSet(items)}
           at(key) == {i \in DOMAIN items : items[i].key = key}
<1>1. n \in Nat /\ DOMAIN items = 1..n /\ \A i \in 1..n : items[i] \in SnapshotItem
  OBVIOUS
<1>2. keys = {items[i].key : i \in 1..n}
  BY <1>1 DEF ToSet
<1>3. keys \in SUBSET Nat
  BY <1>1, <1>2 DEF SnapshotItem
<1>4. IsFiniteSet(keys)
  <2> DEFINE P == 1..n
             f == [i \in P |-> items[i].key]
  <2>1. IsFiniteSet(P) BY <1>1, FS_Interval
  <2>2. f \in [P -> keys] /\ \A key \in keys : \E i \in P : f[i] = key
    BY <1>2
  <2>3. f \in Surjection(P, keys)
    <3> HIDE DEF f, P, keys
    <3> QED BY <2>2 DEF Surjection
  <2> HIDE DEF f, P, keys
  <2> QED BY <2>1, <2>3, FS_Surjection
<1>5. Keyed(items) = [key \in keys |-> items[Max(at(key))]]
  BY DEF Keyed
<1>6. ASSUME NEW key \in keys
      PROVE  items[Max(at(key))] \in SnapshotItem /\ items[Max(at(key))].key = key
  <2>1. at(key) \in SUBSET (1..n) /\ at(key) # {} /\ \A i \in at(key) : items[i].key = key
    BY <1>1, <1>2
  <2> HIDE DEF at
  <2>2. Max(at(key)) \in at(key)
    BY <1>1, <2>1, GreatestNumber
  <2> QED BY <1>1, <2>1, <2>2
<1> HIDE DEF keys, at
<1>7. DOMAIN Keyed(items) = keys /\ \A key \in keys : Keyed(items)[key] = items[Max(at(key))]
  BY <1>5
<1>8. IsKeyed(Keyed(items))
  BY <1>3, <1>4, <1>5, <1>6, <1>7 DEF IsKeyed
<1>9. \A key \in keys : at(key) \in SUBSET (1..n) /\ at(key) # {}
  BY <1>1, <1>2 DEF at
<1>10. ASSUME NEW key \in keys
       PROVE  Max(at(key)) \in 1..n
  <2>1. Max(at(key)) \in at(key) BY <1>1, <1>9, GreatestNumber
  <2> QED BY <1>9, <2>1
<1>11. ToSet(items) = {items[i] : i \in 1..n}
  BY <1>1 DEF ToSet
<1>12. ItemKeys(ToSet(items)) = keys
  BY <1>2, <1>11 DEF ItemKeys
<1>13. \A key \in keys : Keyed(items)[key] \in ToSet(items)
  BY <1>7, <1>10, <1>11
<1>14. ASSUME NEW item \in ToSet(items), item.key \notin SharedIn(items)
       PROVE  item = Keyed(items)[item.key]
  <2>1. PICK i \in 1..n : items[i] = item
    BY <1>11
  <2>2. item.key \in keys
    BY <1>2, <2>1
  <2> DEFINE m == Max(at(item.key))
  <2>3. m \in 1..n /\ items[m].key = item.key /\ Keyed(items)[item.key] = items[m]
    BY <1>6, <1>7, <1>10, <2>2
  <2> HIDE DEF m
  <2>4. i = m
    BY <1>1, <1>12, <1>14, <2>1, <2>2, <2>3 DEF SharedIn
  <2> QED BY <2>1, <2>3, <2>4
<1>15. KeyedFrom(Keyed(items), items)
  BY <1>7, <1>12, <1>13, <1>14 DEF KeyedFrom
<1> QED BY <1>8, <1>15

\* What a bucket shows of the values of some keys, when it shows them all.
ValuesOf(keys, f) == SeqMap(InKeyOrder(keys), LAMBDA key : f[key])

LEMMA ShownInFull ==
  ASSUME NEW keys \in SUBSET Nat, IsFiniteSet(keys), NEW f, ~Bucket(ValuesOf(keys, f)).truncated
  PROVE  ToSet(Bucket(ValuesOf(keys, f)).items) = {f[key] : key \in keys}
<1> DEFINE list == ValuesOf(keys, f)
<1>1. PICK n \in Nat : /\ InKeyOrder(keys) \in [1..n -> keys]
                       /\ \A key \in keys : \E i \in 1..n : InKeyOrder(keys)[i] = key
  BY KeysAreListed
<1> DEFINE P == 1..n
<1>2. list = [i \in 1..n |-> f[InKeyOrder(keys)[i]]]
  BY <1>1 DEF ValuesOf, SeqMap
<1>3. {list[i] : i \in P} = {f[key] : key \in keys}
  <2>1. \A i \in 1..n : InKeyOrder(keys)[i] \in keys /\ list[i] = f[InKeyOrder(keys)[i]]
    BY <1>1, <1>2
  <2>2. \A key \in keys : \E i \in 1..n : list[i] = f[key]
    <3> SUFFICES ASSUME NEW key \in keys PROVE \E i \in 1..n : list[i] = f[key]
      OBVIOUS
    <3>1. PICK i \in 1..n : InKeyOrder(keys)[i] = key BY <1>1
    <3> QED BY <2>1, <3>1
  <2>3. \A i \in P : \E key \in keys : list[i] = f[key] BY <2>1
  <2>4. \A key \in keys : \E i \in P : list[i] = f[key] BY <2>2
  <2> HIDE DEF list, P
  <2> QED BY ONLY <2>3, <2>4
<1>4. DOMAIN list = 1..n /\ Len(list) = n /\ list \in Seq({f[key] : key \in keys})
  BY <1>1, <1>2
<1> HIDE DEF list
<1>5. Len(list) <= DiffLimit /\ DiffLimit \in Nat
  <2>1. ~Bucket(list).truncated BY DEF list
  <2>2. Bucket(list).truncated = (Len(list) > DiffLimit) BY DEF Bucket
  <2>3. ~(Len(list) > DiffLimit) BY ONLY <2>1, <2>2
  <2>4. DiffLimit \in Nat BY ReportConstants
  <2>5. Len(list) \in Nat BY <1>4
  <2> QED BY ONLY <2>3, <2>4, <2>5
<1>6. Min({DiffLimit, Len(list)}) = Len(list)
  BY <1>4, <1>5, LeastAndGreatest
<1>7. Bucket(list).items = list
  BY <1>4, <1>6, SubSeqFull DEF Bucket
<1>8. ToSet(list) = {list[i] : i \in P}
  BY <1>4 DEF ToSet
<1> HIDE DEF P
<1> QED BY <1>3, <1>7, <1>8 DEF list

\* The two maps of a section, and what its buckets are made of.
Added(old, new)   == DOMAIN new \ (DOMAIN old \cap DOMAIN new)
Removed(old, new) == DOMAIN old \ (DOMAIN old \cap DOMAIN new)
Changed(old, new) == {key \in DOMAIN old \cap DOMAIN new : old[key] # new[key]}
Changes(old, new) == [key \in Changed(old, new) |-> ChangedEntry(key, old, new)]

LEMMA Entries ==
  ASSUME NEW old, IsKeyed(old), NEW new, IsKeyed(new)
  PROVE  /\ DiffEntries(old, new).added = ValuesOf(Added(old, new), new)
         /\ DiffEntries(old, new).removed = ValuesOf(Removed(old, new), old)
         /\ DiffEntries(old, new).changed = ValuesOf(Changed(old, new), Changes(old, new))
         /\ Added(old, new) \in SUBSET Nat /\ IsFiniteSet(Added(old, new))
         /\ Removed(old, new) \in SUBSET Nat /\ IsFiniteSet(Removed(old, new))
         /\ Changed(old, new) \in SUBSET Nat /\ IsFiniteSet(Changed(old, new))
<1>1. DiffEntries(old, new).added = ValuesOf(Added(old, new), new)
  BY DEF DiffEntries, ValuesOf, Added
<1>2. DiffEntries(old, new).removed = ValuesOf(Removed(old, new), old)
  BY DEF DiffEntries, ValuesOf, Removed
<1>3. Added(old, new) \in SUBSET Nat /\ IsFiniteSet(Added(old, new))
  <2>1. Added(old, new) \subseteq DOMAIN new BY DEF Added
  <2> QED BY <2>1, FS_Subset DEF IsKeyed
<1>4. Removed(old, new) \in SUBSET Nat /\ IsFiniteSet(Removed(old, new))
  <2>1. Removed(old, new) \subseteq DOMAIN old BY DEF Removed
  <2> QED BY <2>1, FS_Subset DEF IsKeyed
<1>5. Changed(old, new) \in SUBSET Nat /\ IsFiniteSet(Changed(old, new))
  <2>1. Changed(old, new) \subseteq DOMAIN old BY DEF Changed
  <2> QED BY <2>1, FS_Subset DEF IsKeyed
<1>6. DiffEntries(old, new).changed = ValuesOf(Changed(old, new), Changes(old, new))
  <2> DEFINE keys == Changed(old, new)
             listed == InKeyOrder(keys)
  <2>1. DiffEntries(old, new).changed = [i \in DOMAIN listed |-> ChangedEntry(listed[i], old, new)]
    BY DEF DiffEntries, SeqMap, Changed
  <2>2. PICK n \in Nat : listed \in [1..n -> keys]
    <3> HIDE DEF keys
    <3> QED BY <1>5, KeysAreListed DEF keys
  <2>3. \A i \in DOMAIN listed : Changes(old, new)[listed[i]] = ChangedEntry(listed[i], old, new)
    <3> HIDE DEF listed
    <3> QED BY <2>2 DEF Changes
  <2> HIDE DEF listed, keys
  <2>4. ValuesOf(keys, Changes(old, new)) = [i \in DOMAIN listed |-> Changes(old, new)[listed[i]]]
    BY DEF ValuesOf, SeqMap, listed
  <2> QED BY <2>1, <2>3, <2>4 DEF keys
<1> QED BY <1>1, <1>2, <1>3, <1>4, <1>5, <1>6

\* What is shown of a list is its beginning.
ShownOf(n) == IF DiffLimit <= n THEN DiffLimit ELSE n

LEMMA BucketShows ==
  ASSUME NEW n \in Nat, NEW S, NEW list \in [1..n -> S]
  PROVE  /\ ShownOf(n) \in Nat /\ ShownOf(n) <= n
         /\ Bucket(list).items = [i \in 1..ShownOf(n) |-> list[i]]
<1> DEFINE m == ShownOf(n)
<1>1. DiffLimit \in Nat
  BY ReportConstants
<1>2. list \in Seq(S) /\ Len(list) = n
  OBVIOUS
<1>3. m \in Nat /\ m <= n
  BY <1>1 DEF ShownOf
<1>4. Min({DiffLimit, Len(list)}) = m
  BY <1>1, <1>2, LeastAndGreatest DEF ShownOf
<1> HIDE DEF m
<1>5. SubSeq(list, 1, m) = [i \in 1..m |-> list[i]]
  BY <1>2, <1>3
<1>6. Bucket(list).items = SubSeq(list, 1, m)
  BY <1>4 DEF Bucket
<1> QED BY <1>3, <1>5, <1>6 DEF m

\* What a bucket shows are values of the keys, and its total is their number.
LEMMA BucketsAreReal ==
  ASSUME NEW keys \in SUBSET Nat, IsFiniteSet(keys), NEW f
  PROVE  /\ ToSet(Bucket(ValuesOf(keys, f)).items) \subseteq {f[key] : key \in keys}
         /\ Bucket(ValuesOf(keys, f)).total = Cardinality(keys)
<1> DEFINE n == Cardinality(keys)
           listed == InKeyOrder(keys)
           list == ValuesOf(keys, f)
           values == {f[key] : key \in keys}
           m == ShownOf(n)
<1>1. n \in Nat /\ listed \in [1..n -> keys]
  BY KeysInPlaces
<1>2. list = [i \in DOMAIN listed |-> f[listed[i]]]
  BY DEF ValuesOf, SeqMap
<1> HIDE DEF n, listed, list
<1>3. list \in [1..n -> values]
  BY <1>1, <1>2
<1>4. list \in Seq(values) /\ Len(list) = n
  BY <1>1, <1>3
<1>5. Bucket(list).total = n
  BY <1>4 DEF Bucket
<1> HIDE DEF values
<1>6. m \in Nat /\ m <= n /\ Bucket(list).items = [i \in 1..m |-> list[i]]
  BY <1>1, <1>3, BucketShows
<1> HIDE DEF m
<1>7. ToSet(Bucket(list).items) = {list[i] : i \in 1..m}
  BY <1>6 DEF ToSet
<1>8. \A i \in 1..m : list[i] \in values
  BY <1>1, <1>3, <1>6
<1> QED BY <1>5, <1>7, <1>8 DEF n, list, values

\* Nothing is shown of nothing.
LEMMA NothingIsShown == ToSet(Bucket(<<>>).items) = {}
<1> DEFINE none == <<>>
<1>1. PICK n \in Nat : n = 0
  OBVIOUS
<1>2. none \in [1..n -> {}]
  BY <1>1
<1> HIDE DEF none
<1>3. ShownOf(n) \in Nat /\ ShownOf(n) <= n /\ Bucket(none).items = [i \in 1..ShownOf(n) |-> none[i]]
  BY <1>2, BucketShows
<1>4. DOMAIN Bucket(none).items = {}
  BY <1>1, <1>3
<1>5. ToSet(Bucket(none).items) = {}
  BY <1>4 DEF ToSet
<1> QED BY <1>5 DEF none

\* Lists of entries that are each other's with the sides exchanged are shown so.
TurnedEntry(e) == [key |-> e.key, before |-> e.after, after |-> e.before]

LEMMA TurnedBuckets ==
  ASSUME NEW n \in Nat, NEW S, NEW list \in [1..n -> S], NEW back \in [1..n -> S],
         \A i \in 1..n : back[i] = TurnedEntry(list[i])
  PROVE  Bucket(back).items = Turned(Bucket(list).items)
<1> DEFINE m == ShownOf(n)
<1>1. /\ m \in Nat /\ m <= n
      /\ Bucket(list).items = [i \in 1..m |-> list[i]]
      /\ Bucket(back).items = [i \in 1..m |-> back[i]]
  BY BucketShows
<1> HIDE DEF m
<1>2. \A i \in 1..m : i \in 1..n
  BY <1>1
<1>3. Bucket(back).items = [i \in 1..m |-> TurnedEntry(list[i])]
  BY <1>1, <1>2
<1> DEFINE P == 1..m
           shown == Bucket(list).items
<1>4. DOMAIN shown = P /\ \A i \in P : shown[i] = list[i]
  BY <1>1
<1>5. Turned(shown) = [i \in DOMAIN shown |-> TurnedEntry(shown[i])]
  BY DEF Turned, SeqMap, TurnedEntry
<1> HIDE DEF P, shown
<1>6. Turned(shown) = [i \in P |-> TurnedEntry(list[i])]
  BY <1>4, <1>5
<1> QED BY <1>3, <1>6 DEF P, shown

\* The maps of two lists of items, and the entries that are their difference.
MapsOf(old, new, base, compare) ==
  IsKeyed(old) /\ KeyedFrom(old, base) /\ IsKeyed(new) /\ KeyedFrom(new, compare)
Differ(there, old, new, entries) ==
  /\ ToSet(there.added.items) = {new[key] : key \in Added(old, new)}
  /\ ToSet(there.removed.items) = {old[key] : key \in Removed(old, new)}
  /\ ToSet(there.changed.items) = entries
AllChanges(old, new) == {Changes(old, new)[key] : key \in Changed(old, new)}

\* The keys of the items that a section is applied to: of the entries, none or all.
LEMMA KeysApply ==
  ASSUME NEW old, NEW new, NEW base, NEW compare, MapsOf(old, new, base, compare),
         NEW there, NEW entries, entries \in {{}, AllChanges(old, new)}, Differ(there, old, new, entries)
  PROVE  /\ ItemKeys(ToSet(there.removed.items)) = Removed(old, new)
         /\ ItemKeys(entries) = (IF entries = {} THEN {} ELSE Changed(old, new))
         /\ ItemKeys(AppliedTo(there, ToSet(base))) = ItemKeys(ToSet(compare))
<1>1. /\ DOMAIN old = ItemKeys(ToSet(base)) /\ DOMAIN new = ItemKeys(ToSet(compare))
      /\ \A key \in DOMAIN old : old[key].key = key
      /\ \A key \in DOMAIN new : new[key].key = key
  BY DEF MapsOf, IsKeyed, KeyedFrom
<1>2. \A key \in Changed(old, new) :
        /\ Changes(old, new)[key].key = key
        /\ Changes(old, new)[key].after = new[key] /\ Changes(old, new)[key].before = old[key]
  BY DEF Changes, ChangedEntry
<1>3. ItemKeys(ToSet(there.removed.items)) = Removed(old, new)
  <2>1. ToSet(there.removed.items) = {old[key] : key \in Removed(old, new)}
    BY DEF Differ
  <2>2. \A key \in Removed(old, new) : old[key].key = key
    BY <1>1 DEF Removed
  <2> QED BY <2>1, <2>2 DEF ItemKeys
<1>4. ItemKeys(entries) = IF entries = {} THEN {} ELSE Changed(old, new)
  BY <1>2 DEF ItemKeys, AllChanges
<1> DEFINE gone == Removed(old, new) \cup ItemKeys(entries)
           kept == {item \in ToSet(base) : item.key \notin gone}
           added == {new[key] : key \in Added(old, new)}
           after == {e.after : e \in entries}
<1>5. AppliedTo(there, ToSet(base)) = kept \cup added \cup after
  <2>1. ToSet(there.added.items) = added /\ ToSet(there.changed.items) = entries
    BY DEF Differ
  <2> QED BY <1>3, <2>1 DEF AppliedTo
<1>6. ItemKeys(kept) = DOMAIN old \ gone
  BY <1>1 DEF ItemKeys
<1>7. ItemKeys(added) = Added(old, new)
  <2>1. \A key \in Added(old, new) : new[key].key = key
    BY <1>1 DEF Added
  <2> QED BY <2>1 DEF ItemKeys
<1>8. ItemKeys(after) = ItemKeys(entries)
  <2>1. \A key \in Changed(old, new) : new[key].key = key
    BY <1>1 DEF Changed
  <2>2. \A e \in entries : e.after.key = e.key
    BY <1>2, <2>1 DEF AllChanges
  <2> QED BY <2>2 DEF ItemKeys
<1>9. ItemKeys(kept \cup added \cup after) = ItemKeys(kept) \cup ItemKeys(added) \cup ItemKeys(after)
  <2> HIDE DEF kept, added, after
  <2> QED BY DEF ItemKeys
<1>10. ItemKeys(entries) \subseteq DOMAIN old \cap DOMAIN new
  BY <1>4 DEF Changed
<1> HIDE DEF kept, added, after
<1>11. ItemKeys(AppliedTo(there, ToSet(base))) = DOMAIN new
  BY <1>5, <1>6, <1>7, <1>8, <1>9, <1>10 DEF Added, Removed
<1> QED BY <1>1, <1>3, <1>4, <1>11

\* With every entry shown, the items alone with their keys become the new ones.
LEMMA ChangesApply ==
  ASSUME NEW old, NEW new, NEW base, NEW compare, MapsOf(old, new, base, compare),
         NEW there, Differ(there, old, new, AllChanges(old, new)), NEW item,
         item.key \notin SharedIn(base) \cup SharedIn(compare)
  PROVE  item \in AppliedTo(there, ToSet(base)) <=> item \in ToSet(compare)
<1> DEFINE entries == AllChanges(old, new)
<1>1. /\ ItemKeys(ToSet(there.removed.items)) = Removed(old, new)
      /\ ItemKeys(entries) = (IF entries = {} THEN {} ELSE Changed(old, new))
  <2>1. entries \in {{}, AllChanges(old, new)} /\ Differ(there, old, new, entries) OBVIOUS
  <2> HIDE DEF entries
  <2> QED BY <2>1, KeysApply
<1>2. \A key \in Changed(old, new) : Changes(old, new)[key].after = new[key]
  BY DEF Changes, ChangedEntry
<1>3. ItemKeys(entries) = Changed(old, new)
  BY <1>1 DEF AllChanges
<1>4. {e.after : e \in entries} = {new[key] : key \in Changed(old, new)}
  BY <1>2 DEF AllChanges
<1> HIDE DEF entries
<1>5. AppliedTo(there, ToSet(base))
        = {other \in ToSet(base) : other.key \notin Removed(old, new) \cup Changed(old, new)}
            \cup {new[key] : key \in Added(old, new)} \cup {new[key] : key \in Changed(old, new)}
  BY <1>1, <1>3, <1>4 DEF AppliedTo, Differ, entries
<1>6. /\ \A key \in DOMAIN old : old[key].key = key /\ old[key] \in ToSet(base)
      /\ \A key \in DOMAIN new : new[key].key = key /\ new[key] \in ToSet(compare)
  BY DEF MapsOf, IsKeyed, KeyedFrom
<1>7. /\ item \in ToSet(base) => item = old[item.key] /\ item.key \in DOMAIN old
      /\ item \in ToSet(compare) => item = new[item.key] /\ item.key \in DOMAIN new
  BY DEF MapsOf, KeyedFrom, ItemKeys
<1>8. ASSUME item \in AppliedTo(there, ToSet(base))
      PROVE  item \in ToSet(compare)
  <2>1. CASE item \in ToSet(base) /\ item.key \notin Removed(old, new) \cup Changed(old, new)
    <3>1. item.key \in DOMAIN new /\ old[item.key] = new[item.key]
      BY <1>7, <2>1 DEF Removed, Changed
    <3> QED BY <1>6, <1>7, <2>1, <3>1
  <2>2. CASE \E key \in Added(old, new) \cup Changed(old, new) : item = new[key]
    BY <1>6, <2>2 DEF Added, Changed
  <2> QED BY <1>5, <1>8, <2>1, <2>2
<1>9. ASSUME item \in ToSet(compare)
      PROVE  item \in AppliedTo(there, ToSet(base))
  <2>1. CASE item.key \in Added(old, new) \cup Changed(old, new)
    BY <1>5, <1>7, <1>9, <2>1
  <2>2. CASE item.key \notin Added(old, new) \cup Changed(old, new)
    <3>1. item.key \in DOMAIN old /\ old[item.key] = new[item.key] /\ item.key \notin Removed(old, new)
      BY <1>7, <1>9, <2>2 DEF Added, Changed, Removed
    <3>2. item \in ToSet(base)
      BY <1>6, <1>7, <1>9, <3>1
    <3> QED BY <1>5, <2>2, <3>1, <3>2
  <2> QED BY <2>1, <2>2
<1> QED BY <1>8, <1>9

\* Asked for the other way round, a section has the same entries, exchanged.
LEMMA EntriesTurn ==
  ASSUME NEW old, IsKeyed(old), NEW new, IsKeyed(new)
  PROVE  /\ DiffEntries(new, old).added = DiffEntries(old, new).removed
         /\ DiffEntries(new, old).removed = DiffEntries(old, new).added
         /\ Bucket(DiffEntries(new, old).changed).items
              = Turned(Bucket(DiffEntries(old, new).changed).items)
<1>1. /\ Added(new, old) = Removed(old, new) /\ Removed(new, old) = Added(old, new)
      /\ Changed(new, old) = Changed(old, new)
  BY DEF Added, Removed, Changed
<1> DEFINE keys == Changed(old, new)
           S == {Changes(old, new)[key] : key \in keys} \cup {Changes(new, old)[key] : key \in keys}
<1>2. PICK n \in Nat : InKeyOrder(keys) \in [1..n -> keys]
  <2>1. keys \in SUBSET Nat /\ IsFiniteSet(keys) BY Entries
  <2> HIDE DEF keys
  <2> QED BY <2>1, KeysAreListed
<1>3. DOMAIN InKeyOrder(keys) = 1..n /\ \A i \in 1..n : InKeyOrder(keys)[i] \in keys
  BY <1>2
<1> DEFINE list == ValuesOf(keys, Changes(old, new))
           back == ValuesOf(keys, Changes(new, old))
<1>4. /\ list = [i \in 1..n |-> Changes(old, new)[InKeyOrder(keys)[i]]]
      /\ back = [i \in 1..n |-> Changes(new, old)[InKeyOrder(keys)[i]]]
  BY <1>3 DEF ValuesOf, SeqMap
<1>5. list \in [1..n -> S] /\ back \in [1..n -> S]
  <2> HIDE DEF keys, list, back
  <2> QED BY <1>3, <1>4
<1>6. \A key \in keys : Changes(new, old)[key] = TurnedEntry(Changes(old, new)[key])
  <2>1. \A key \in keys : Changes(new, old)[key] = ChangedEntry(key, new, old)
    BY <1>1 DEF Changes
  <2>2. \A key \in keys : Changes(old, new)[key] = ChangedEntry(key, old, new)
    BY DEF Changes
  <2>3. \A key : ChangedEntry(key, new, old) = TurnedEntry(ChangedEntry(key, old, new))
    BY DEF ChangedEntry, TurnedEntry
  <2> HIDE DEF keys
  <2> QED BY <2>1, <2>2, <2>3
<1>7. \A i \in 1..n : back[i] = TurnedEntry(list[i])
  <2> HIDE DEF keys, list, back
  <2> QED BY <1>3, <1>4, <1>6
<1>8. Bucket(back).items = Turned(Bucket(list).items)
  <2>1. \A some, same \in [1..n -> S] :
           (\A i \in 1..n : same[i] = TurnedEntry(some[i]))
             => Bucket(same).items = Turned(Bucket(some).items)
    <3> HIDE DEF S
    <3> QED BY TurnedBuckets
  <2> HIDE DEF S, list, back
  <2> QED BY <1>5, <1>7, <2>1
<1>9. DiffEntries(new, old).changed = back /\ DiffEntries(old, new).changed = list
  BY <1>1, Entries
<1>10. /\ DiffEntries(new, old).added = DiffEntries(old, new).removed
       /\ DiffEntries(new, old).removed = DiffEntries(old, new).added
  BY <1>1, Entries
<1> HIDE DEF list, back
<1> QED BY <1>8, <1>9, <1>10

\* Nothing shows as nothing.
LEMMA NothingTurns == Bucket(<<>>).items = Turned(Bucket(<<>>).items)
<1> DEFINE none == <<>>
<1>1. none \in [1..0 -> {}] /\ \A i \in 1..0 : none[i] = TurnedEntry(none[i])
  OBVIOUS
<1> HIDE DEF none
<1>2. Bucket(none).items = Turned(Bucket(none).items)
  BY <1>1, TurnedBuckets
<1> QED BY <1>2 DEF none

\* The three lists of a section that its buckets show.
ChangedIn(section, entries) == IF section \in WithoutChanges THEN <<>> ELSE entries.changed

LEMMA SectionsTurn ==
  ASSUME NEW section \in Sections, NEW base, NEW compare,
         IsKeyed(Keyed(base[section])), IsKeyed(Keyed(compare[section]))
  PROVE  LET there == SectionDiff(section, base, compare)
             return == SectionDiff(section, compare, base)
         IN /\ return.added = there.removed /\ return.removed = there.added
            /\ return.changed.items = Turned(there.changed.items)
<1> DEFINE old == Keyed(base[section])
           new == Keyed(compare[section])
           to == DiffEntries(old, new)
           from == DiffEntries(new, old)
           there == SectionDiff(section, base, compare)
           return == SectionDiff(section, compare, base)
<1>1. /\ there.added = Bucket(to.added) /\ there.removed = Bucket(to.removed)
      /\ there.changed = Bucket(ChangedIn(section, to))
      /\ return.added = Bucket(from.added) /\ return.removed = Bucket(from.removed)
      /\ return.changed = Bucket(ChangedIn(section, from))
  BY DEF SectionDiff, ChangedIn
<1>2. /\ from.added = to.removed /\ from.removed = to.added
      /\ Bucket(from.changed).items = Turned(Bucket(to.changed).items)
  <2> HIDE DEF old, new
  <2> QED BY EntriesTurn DEF old, new
<1> HIDE DEF to, from, there, return
<1>3. return.changed.items = Turned(there.changed.items)
  <2>1. CASE section \in WithoutChanges
    BY <1>1, <2>1, NothingTurns DEF ChangedIn
  <2>2. CASE section \notin WithoutChanges
    BY <1>1, <1>2, <2>2 DEF ChangedIn
  <2> QED BY <2>1, <2>2
<1>4. return.added = there.removed /\ return.removed = there.added
  BY <1>1, <1>2
<1> QED BY <1>3, <1>4 DEF there, return

\* A section that shows all its entries tells the new items from the old.
LEMMA SectionTells ==
  ASSUME NEW section \in Sections, NEW base, NEW compare,
         base[section] \in Seq(SnapshotItem), compare[section] \in Seq(SnapshotItem),
         \A part \in {"added", "removed", "changed"} : ~SectionDiff(section, base, compare)[part].truncated
  PROVE  SectionIsTheChange(section, SectionDiff(section, base, compare), base, compare)
<1> DEFINE old == Keyed(base[section])
           new == Keyed(compare[section])
           to == DiffEntries(old, new)
           there == SectionDiff(section, base, compare)
<1>1. /\ there.added = Bucket(to.added) /\ there.removed = Bucket(to.removed)
      /\ there.changed = Bucket(ChangedIn(section, to))
  BY DEF SectionDiff, ChangedIn
<1>2. ~there.added.truncated /\ ~there.removed.truncated /\ ~there.changed.truncated
  <2>1. there["added"] = there.added /\ there["removed"] = there.removed /\ there["changed"] = there.changed
    OBVIOUS
  <2> HIDE DEF there
  <2> QED BY <2>1 DEF there
<1> HIDE DEF old, new, to, there
<1>3. IsKeyed(old) /\ IsKeyed(new) /\ MapsOf(old, new, base[section], compare[section])
  BY KeyedItems DEF MapsOf, old, new
<1>4. /\ to.added = ValuesOf(Added(old, new), new) /\ to.removed = ValuesOf(Removed(old, new), old)
      /\ to.changed = ValuesOf(Changed(old, new), Changes(old, new))
      /\ Added(old, new) \in SUBSET Nat /\ IsFiniteSet(Added(old, new))
      /\ Removed(old, new) \in SUBSET Nat /\ IsFiniteSet(Removed(old, new))
      /\ Changed(old, new) \in SUBSET Nat /\ IsFiniteSet(Changed(old, new))
  BY <1>3, Entries DEF to
<1>5. ToSet(there.added.items) = {new[key] : key \in Added(old, new)}
  <2> DEFINE keys == Added(old, new)
  <2>1. keys \in SUBSET Nat /\ IsFiniteSet(keys) /\ there.added = Bucket(ValuesOf(keys, new))
    BY <1>1, <1>4
  <2>2. ~Bucket(ValuesOf(keys, new)).truncated
    BY <1>2, <2>1
  <2> HIDE DEF keys
  <2>3. ToSet(Bucket(ValuesOf(keys, new)).items) = {new[key] : key \in keys}
    BY <2>1, <2>2, ShownInFull
  <2> QED BY <2>1, <2>3 DEF keys
<1>6. ToSet(there.removed.items) = {old[key] : key \in Removed(old, new)}
  <2> DEFINE keys == Removed(old, new)
  <2>1. keys \in SUBSET Nat /\ IsFiniteSet(keys) /\ there.removed = Bucket(ValuesOf(keys, old))
    BY <1>1, <1>4
  <2>2. ~Bucket(ValuesOf(keys, old)).truncated
    BY <1>2, <2>1
  <2> HIDE DEF keys
  <2>3. ToSet(Bucket(ValuesOf(keys, old)).items) = {old[key] : key \in keys}
    BY <2>1, <2>2, ShownInFull
  <2> QED BY <2>1, <2>3 DEF keys
<1>7. section \notin WithoutChanges
        => ToSet(there.changed.items) = {Changes(old, new)[key] : key \in Changed(old, new)}
  <2> SUFFICES ASSUME section \notin WithoutChanges
               PROVE  ToSet(there.changed.items) = {Changes(old, new)[key] : key \in Changed(old, new)}
    OBVIOUS
  <2>1. there.changed = Bucket(ValuesOf(Changed(old, new), Changes(old, new)))
    BY <1>1, <1>4 DEF ChangedIn
  <2> QED BY <1>2, <1>4, <2>1, ShownInFull
<1>8. section \in WithoutChanges => ToSet(there.changed.items) = {}
  BY <1>1, NothingIsShown DEF ChangedIn
<1>9. PICK entries \in {{}, AllChanges(old, new)} :
        /\ Differ(there, old, new, entries)
        /\ section \notin WithoutChanges => entries = AllChanges(old, new)
  BY <1>5, <1>6, <1>7, <1>8 DEF Differ, AllChanges
<1>10. ItemKeys(AppliedTo(there, ToSet(base[section]))) = ItemKeys(ToSet(compare[section]))
  BY <1>3, <1>9, KeysApply
<1>11. ASSUME section \notin WithoutChanges, NEW item,
              item.key \notin SharedIn(base[section]) \cup SharedIn(compare[section])
       PROVE  item \in AppliedTo(there, ToSet(base[section])) <=> item \in ToSet(compare[section])
  BY <1>3, <1>9, <1>11, ChangesApply
<1>12. SectionIsTheChange(section, there, base, compare)
  BY <1>10, <1>11 DEF SectionIsTheChange
<1> QED BY <1>12 DEF there

\* The entries a section shows are of the snapshots, and its totals are right even
\* when it does not show them all.
LEMMA SectionIsReal ==
  ASSUME NEW section \in Sections, NEW base, NEW compare,
         base[section] \in Seq(SnapshotItem), compare[section] \in Seq(SnapshotItem)
  PROVE  EntriesAreReal(SectionDiff(section, base, compare), ToSet(base[section]), ToSet(compare[section]))
<1> DEFINE old == Keyed(base[section])
           new == Keyed(compare[section])
           to == DiffEntries(old, new)
           there == SectionDiff(section, base, compare)
<1>1. /\ there.added = Bucket(to.added) /\ there.removed = Bucket(to.removed)
      /\ there.changed = Bucket(ChangedIn(section, to))
  BY DEF SectionDiff, ChangedIn
<1>2. IsKeyed(old) /\ IsKeyed(new) /\ KeyedFrom(old, base[section]) /\ KeyedFrom(new, compare[section])
  BY KeyedItems
<1> HIDE DEF old, new, to, there
<1>3. /\ to.added = ValuesOf(Added(old, new), new) /\ to.removed = ValuesOf(Removed(old, new), old)
      /\ to.changed = ValuesOf(Changed(old, new), Changes(old, new))
      /\ Added(old, new) \in SUBSET Nat /\ IsFiniteSet(Added(old, new))
      /\ Removed(old, new) \in SUBSET Nat /\ IsFiniteSet(Removed(old, new))
      /\ Changed(old, new) \in SUBSET Nat /\ IsFiniteSet(Changed(old, new))
  BY <1>2, Entries DEF to
<1>4. /\ ToSet(there.added.items) \subseteq {new[key] : key \in Added(old, new)}
      /\ there.added.total = Cardinality(Added(old, new))
  <2> DEFINE keys == Added(old, new)
  <2>1. keys \in SUBSET Nat /\ IsFiniteSet(keys) /\ there.added = Bucket(ValuesOf(keys, new))
    BY <1>1, <1>3
  <2> HIDE DEF keys
  <2>2. /\ ToSet(Bucket(ValuesOf(keys, new)).items) \subseteq {new[key] : key \in keys}
        /\ Bucket(ValuesOf(keys, new)).total = Cardinality(keys)
    BY <2>1, BucketsAreReal
  <2> QED BY <2>1, <2>2 DEF keys
<1>5. /\ ToSet(there.removed.items) \subseteq {old[key] : key \in Removed(old, new)}
      /\ there.removed.total = Cardinality(Removed(old, new))
  <2> DEFINE keys == Removed(old, new)
  <2>1. keys \in SUBSET Nat /\ IsFiniteSet(keys) /\ there.removed = Bucket(ValuesOf(keys, old))
    BY <1>1, <1>3
  <2> HIDE DEF keys
  <2>2. /\ ToSet(Bucket(ValuesOf(keys, old)).items) \subseteq {old[key] : key \in keys}
        /\ Bucket(ValuesOf(keys, old)).total = Cardinality(keys)
    BY <2>1, BucketsAreReal
  <2> QED BY <2>1, <2>2 DEF keys
<1>6. ToSet(there.changed.items) \subseteq {Changes(old, new)[key] : key \in Changed(old, new)}
  <2>1. CASE section \in WithoutChanges
    BY <1>1, <2>1, NothingIsShown DEF ChangedIn
  <2>2. CASE section \notin WithoutChanges
    BY <1>1, <1>3, <2>2, BucketsAreReal DEF ChangedIn
  <2> QED BY <2>1, <2>2
<1>7. /\ \A key \in DOMAIN old : old[key] \in ToSet(base[section])
      /\ \A key \in DOMAIN new : new[key] \in ToSet(compare[section])
      /\ DOMAIN old = ItemKeys(ToSet(base[section])) /\ DOMAIN new = ItemKeys(ToSet(compare[section]))
  BY <1>2 DEF KeyedFrom
<1>8. /\ Added(old, new) = ItemKeys(ToSet(compare[section])) \ ItemKeys(ToSet(base[section]))
      /\ Removed(old, new) = ItemKeys(ToSet(base[section])) \ ItemKeys(ToSet(compare[section]))
  BY <1>7 DEF Added, Removed
<1>9. /\ ToSet(there.added.items) \subseteq ToSet(compare[section])
      /\ ToSet(there.removed.items) \subseteq ToSet(base[section])
  BY <1>4, <1>5, <1>7 DEF Added, Removed
<1>10. \A key \in Changed(old, new) :
         /\ Changes(old, new)[key].before = old[key] /\ Changes(old, new)[key].after = new[key]
         /\ old[key] \in ToSet(base[section]) /\ new[key] \in ToSet(compare[section]) /\ old[key] # new[key]
  BY <1>7 DEF Changes, ChangedEntry, Changed
<1>11. \A e \in ToSet(there.changed.items) :
         e.before \in ToSet(base[section]) /\ e.after \in ToSet(compare[section]) /\ e.before # e.after
  BY <1>6, <1>10
<1>12. EntriesAreReal(there, ToSet(base[section]), ToSet(compare[section]))
  BY <1>4, <1>5, <1>8, <1>9, <1>11 DEF EntriesAreReal
<1> QED BY <1>12 DEF there

\* The difference of two snapshots shows what is theirs, tells the one from the
\* other where keys are not shared, and turned round it is the difference the
\* other way (analysisHistory.ts).
LEMMA DifferencesTell ==
  ASSUME NEW base, NEW compare,
         \A section \in Sections : /\ base[section] \in Seq(SnapshotItem)
                                   /\ compare[section] \in Seq(SnapshotItem)
  PROVE  DiffIsTheChange(base, compare)
<1> DEFINE diff == AnalysisDiff(base, compare)
           back == AnalysisDiff(compare, base)
<1>1. \A section \in Sections : /\ diff.sections[section] = SectionDiff(section, base, compare)
                                /\ back.sections[section] = SectionDiff(section, compare, base)
  BY DEF AnalysisDiff
<1>2. \A section \in Sections : IsKeyed(Keyed(base[section])) /\ IsKeyed(Keyed(compare[section]))
  BY KeyedItems
<1>3. ~diff.truncated => \A section \in Sections, part \in {"added", "removed", "changed"} :
                           ~SectionDiff(section, base, compare)[part].truncated
  BY DEF AnalysisDiff
<1> HIDE DEF diff, back
<1>4. ASSUME NEW section \in Sections
      PROVE  LET there == diff.sections[section]
                 return == back.sections[section]
             IN /\ return.added = there.removed /\ return.removed = there.added
                /\ return.changed.items = Turned(there.changed.items)
                /\ EntriesAreReal(there, ToSet(base[section]), ToSet(compare[section]))
                /\ ~diff.truncated => SectionIsTheChange(section, there, base, compare)
  <2>1. LET there == SectionDiff(section, base, compare)
            return == SectionDiff(section, compare, base)
        IN /\ return.added = there.removed /\ return.removed = there.added
           /\ return.changed.items = Turned(there.changed.items)
    BY <1>2, SectionsTurn
  <2>2. EntriesAreReal(SectionDiff(section, base, compare), ToSet(base[section]), ToSet(compare[section]))
    BY SectionIsReal
  <2>3. ASSUME ~diff.truncated
        PROVE  SectionIsTheChange(section, SectionDiff(section, base, compare), base, compare)
    BY <1>3, <2>3, SectionTells
  <2> QED BY <1>1, <2>1, <2>2, <2>3
<1> QED BY <1>4 DEF DiffIsTheChange, diff, back

\* For any two snapshots: every entry of their difference is theirs and its totals
\* are right; when it shows all, it makes of the items of one those of the other, but
\* for items that share their key; and it is the same turned round.
THEOREM DiffsTellTheChange == PageSpec => []DiffTellsTheChange
<1>1. PageTypeOK => DiffTellsTheChange
  <2> SUFFICES ASSUME PageTypeOK, input.kind = "diff"
               PROVE  DiffIsTheChange(input.base, input.compare)
    BY DEF DiffTellsTheChange
  <2>1. input \in Inputs
    BY DEF PageTypeOK
  <2>2. \A section \in Sections : /\ input.base[section] \in Seq(SnapshotItem)
                                  /\ input.compare[section] \in Seq(SnapshotItem)
    BY <2>1, ReportInputs
  <2> QED BY <2>2, DifferencesTell
<1>2. PageSpec => []PageTypeOK
  BY PageTypeInit, PageTypeStep, PTL DEF PageSpec
<1> QED BY <1>1, <1>2, PTL

-----------------------------------------------------------------------------
(***************************************************************************)
(* Lists that are made of other lists.                                     *)
(***************************************************************************)
\* A numbering of a set counts each of its elements once.
Numbers(at, m, S) ==
  /\ m \in Nat /\ at \in [1..m -> S]
  /\ \A k, l \in 1..m : at[k] = at[l] => k = l
  /\ \A i \in S : \E k \in 1..m : at[k] = i

\* The kept places of a list, in their order.
KeptPlaces(kept) ==
  [n \in 1..Cardinality(kept) |-> CHOOSE i \in kept : Cardinality({j \in kept : j < i}) = n - 1]

\* Each of them once.
LEMMA KeptOnce ==
  ASSUME NEW n \in Nat, NEW kept \in SUBSET (1..n)
  PROVE  IsFiniteSet(kept) /\ Numbers(KeptPlaces(kept), Cardinality(kept), kept)
<1> DEFINE R == {p \in kept \X kept : p[1] < p[2]}
           before(i) == {j \in kept : j < i}
           m == Cardinality(kept)
           at == KeptPlaces(kept)
           P == 1..n
           K == 1..m
<1>1. IsFiniteSet(kept) /\ m \in Nat
  <2>1. IsFiniteSet(P) /\ kept \in SUBSET P
    BY FS_Interval
  <2> HIDE DEF P
  <2> QED BY <2>1, FS_Subset, FS_CardinalityType
<1>2. \A k \in 1..Cardinality(kept) : \E i \in kept : Cardinality({j \in kept : <<j, i>> \in R}) = k - 1
  <2>1. /\ \A i \in kept : <<i, i>> \notin R
        /\ \A i, j \in kept : i # j => <<i, j>> \in R \/ <<j, i>> \in R
        /\ \A i, j, k \in kept : <<i, j>> \in R /\ <<j, k>> \in R => <<i, k>> \in R
    OBVIOUS
  <2>2. IsFiniteSet(kept) BY <1>1
  <2> HIDE DEF R, before
  <2> QED BY ONLY <2>1, <2>2, Places, ZenonT(20)
<1>3. \A i \in kept : {j \in kept : <<j, i>> \in R} = before(i)
  OBVIOUS
<1>4. \A k \in 1..m : \E i \in kept : Cardinality(before(i)) = k - 1
  <2> HIDE DEF R, before
  <2> QED BY <1>2, <1>3
<1>5. \A k \in 1..m : at[k] = CHOOSE i \in kept : Cardinality(before(i)) = k - 1
  BY DEF KeptPlaces
<1>6. \A k \in 1..m : at[k] \in kept /\ Cardinality(before(at[k])) = k - 1
  <2> HIDE DEF before, at
  <2> QED BY <1>4, <1>5
<1>7. at \in [1..m -> kept]
  <2> DEFINE place(k) == CHOOSE i \in kept : Cardinality(before(i)) = k - 1
  <2>1. at = [k \in 1..m |-> place(k)] BY DEF KeptPlaces
  <2>2. \A k \in 1..m : place(k) \in kept BY <1>5, <1>6
  <2> HIDE DEF at, place, before, m
  <2> QED BY <2>1, <2>2
<1>8. \A k, l \in 1..m : at[k] = at[l] => k = l
  <2> HIDE DEF at, before, m
  <2> QED BY <1>1, <1>6
<1>9. \A i \in kept : \E k \in K : at[k] = i
  <2>1. IsFiniteSet(K) /\ Cardinality(K) = m
    BY <1>1, FS_Interval
  <2>2. at \in Injection(K, kept)
    <3> HIDE DEF at
    <3> QED BY <1>7, <1>8 DEF Injection, IsInjective
  <2> HIDE DEF at, K
  <2>3. at \in Surjection(K, kept)
    BY <1>1, <2>1, <2>2, FS_Injection
  <2> QED BY <2>3 DEF Surjection
<1> QED BY <1>1, <1>7, <1>8, <1>9 DEF Numbers

\* RowsAt takes the rows from there.
LEMMA KeptAre ==
  ASSUME NEW rows, NEW kept
  PROVE  RowsAt(rows, kept) = [k \in 1..Cardinality(kept) |-> rows[KeptPlaces(kept)[k]]]
BY DEF RowsAt, KeptPlaces

\* What is kept of a list, and how long it is.
LEMMA KeptRows ==
  ASSUME NEW n \in Nat, NEW rows, NEW kept \in SUBSET (1..n)
  PROVE  /\ DOMAIN RowsAt(rows, kept) = 1..Cardinality(kept)
         /\ Len(RowsAt(rows, kept)) = Cardinality(kept) /\ Cardinality(kept) \in Nat
         /\ ToSet(RowsAt(rows, kept)) = {rows[i] : i \in kept}
         /\ kept # {} => 1 \in DOMAIN RowsAt(rows, kept)
<1> DEFINE at == KeptPlaces(kept)
           m == Cardinality(kept)
           K == 1..m
           list == RowsAt(rows, kept)
<1>1. m \in Nat /\ (\A k \in K : at[k] \in kept) /\ \A i \in kept : \E k \in K : at[k] = i
  BY KeptOnce DEF Numbers
<1>2. list = [k \in K |-> rows[at[k]]]
  BY KeptAre
<1> HIDE DEF at, list
<1>3. DOMAIN list = K /\ Len(list) = m
  BY <1>1, <1>2
<1>4. \A k \in K : list[k] = rows[at[k]]
  BY <1>2
<1>5. ToSet(list) = {rows[i] : i \in kept}
  <2>1. ToSet(list) = {list[k] : k \in K} BY <1>3 DEF ToSet
  <2>2. \A k \in K : \E i \in kept : list[k] = rows[i] BY <1>1, <1>4
  <2>3. \A i \in kept : \E k \in K : list[k] = rows[i]
    <3> SUFFICES ASSUME NEW i \in kept PROVE \E k \in K : list[k] = rows[i]
      OBVIOUS
    <3>1. PICK k \in K : at[k] = i BY <1>1
    <3> QED BY <1>4, <3>1
  <2> HIDE DEF K
  <2> QED BY <2>1, <2>2, <2>3
<1>6. kept # {} => 1 \in K
  <2> SUFFICES ASSUME NEW i \in kept PROVE 1 \in K
    OBVIOUS
  <2>1. PICK k \in K : at[k] = i BY <1>1
  <2> QED BY <1>1, <2>1
<1> QED BY <1>1, <1>3, <1>5, <1>6 DEF list

\* The keys of a Map in its order of insertion: each key of the rows once.
FirstPlaces(n, kf) == {i \in 1..n : \A j \in 1..(i - 1) : kf[j] # kf[i]}
KeysOf(n, kf) == [k \in 1..Cardinality(FirstPlaces(n, kf)) |-> kf[KeptPlaces(FirstPlaces(n, kf))[k]]]

LEMMA EachKeyOnce ==
  ASSUME NEW n \in Nat, NEW kf
  PROVE  Numbers(KeysOf(n, kf), Cardinality(FirstPlaces(n, kf)), {kf[i] : i \in 1..n})
<1> DEFINE firsts == FirstPlaces(n, kf)
           m == Cardinality(firsts)
           at == KeptPlaces(firsts)
           keys == KeysOf(n, kf)
           K == 1..m
           P == 1..n
<1>1. /\ m \in Nat /\ \A k \in K : at[k] \in firsts
      /\ \A k, l \in K : at[k] = at[l] => k = l
      /\ \A i \in firsts : \E k \in K : at[k] = i
  <2>1. firsts \in SUBSET (1..n) BY DEF FirstPlaces
  <2> HIDE DEF firsts
  <2> QED BY <2>1, KeptOnce DEF Numbers
<1>2. keys = [k \in K |-> kf[at[k]]]
  BY DEF KeysOf
<1>3. \A i \in firsts : i \in P /\ \A j \in P : j < i => kf[j] # kf[i]
  BY DEF FirstPlaces
<1>4. \A i \in P : \E j \in firsts : kf[j] = kf[i]
  <2> SUFFICES ASSUME NEW i \in P PROVE \E j \in firsts : kf[j] = kf[i]
    OBVIOUS
  <2> DEFINE same == {j \in P : kf[j] = kf[i]}
  <2>1. same \in SUBSET Nat /\ same # {}
    OBVIOUS
  <2>2. PICK j \in same : \A l \in same : j <= l
    <3> HIDE DEF same
    <3> QED BY <2>1, LeastNumber
  <2>3. j \in P /\ kf[j] = kf[i] /\ \A l \in 1..(j - 1) : kf[l] # kf[j]
    BY <2>2
  <2> QED BY <2>3 DEF FirstPlaces
<1> HIDE DEF firsts, at, keys, m, K
<1>5. keys \in [K -> {kf[i] : i \in P}]
  <2> HIDE DEF P
  <2> QED BY <1>1, <1>2, <1>3
<1>6. \A k \in K : keys[k] = kf[at[k]]
  BY <1>2
<1>7. ASSUME NEW k \in K, NEW l \in K, keys[k] = keys[l] PROVE k = l
  <2>1. at[k] \in P /\ at[l] \in P /\ kf[at[k]] = kf[at[l]]
    BY <1>1, <1>3, <1>6, <1>7
  <2>2. ~(at[k] < at[l]) /\ ~(at[l] < at[k])
    BY <1>1, <1>3, <2>1
  <2>3. at[k] = at[l]
    BY <2>1, <2>2
  <2> QED BY <1>1, <2>3
<1>8. \A key \in {kf[i] : i \in P} : \E k \in K : keys[k] = key
  <2> SUFFICES ASSUME NEW i \in P PROVE \E k \in K : keys[k] = kf[i]
    OBVIOUS
  <2>1. PICK j \in firsts : kf[j] = kf[i] BY <1>4
  <2>2. PICK k \in K : at[k] = j BY <1>1
  <2> QED BY <1>6, <2>1, <2>2
<1> QED BY <1>1, <1>5, <1>7, <1>8 DEF Numbers, K, m, firsts, keys

\* The rows that parts of a set stand for are as many as the parts together.
Covered(parts, s) == UNION {parts[k] : k \in s}
Disjoint(parts, m) == \A k, l \in 1..m : k # l => parts[k] \cap parts[l] = {}

\* The union of disjoint parts grows by the whole of each.
LEMMA CoversAddUp ==
  ASSUME NEW m \in Nat, NEW W, IsFiniteSet(W), NEW parts \in [1..m -> SUBSET W], Disjoint(parts, m)
  PROVE  /\ Cardinality(Covered(parts, {})) = 0
         /\ \A s \in SUBSET (1..m) : \A x \in s :
              Cardinality(Covered(parts, s)) = Cardinality(Covered(parts, s \ {x})) + Cardinality(parts[x])
<1>1. Cardinality(Covered(parts, {})) = 0
  <2>1. Covered(parts, {}) = {} BY DEF Covered
  <2> QED BY <2>1, FS_EmptySet
<1>2. ASSUME NEW s \in SUBSET (1..m), NEW x \in s
      PROVE  Cardinality(Covered(parts, s)) = Cardinality(Covered(parts, s \ {x})) + Cardinality(parts[x])
  <2> DEFINE rest == Covered(parts, s \ {x})
             part == parts[x]
  <2>1. Covered(parts, s) = rest \cup part
    BY DEF Covered
  <2>2. rest \cap part = {}
    BY DEF Covered, Disjoint
  <2>3. rest \in SUBSET W /\ part \in SUBSET W
    BY DEF Covered
  <2> HIDE DEF rest, part
  <2>4. IsFiniteSet(rest) /\ IsFiniteSet(part)
    BY <2>3, FS_Subset
  <2>5. Cardinality(rest \cup part) = Cardinality(rest) + Cardinality(part) - Cardinality(rest \cap part)
    BY <2>4, FS_Union
  <2>6. Cardinality(rest \cap part) = 0
    BY <2>2, FS_EmptySet
  <2>7. Cardinality(rest) \in Nat /\ Cardinality(part) \in Nat
    BY <2>4, FS_CardinalityType
  <2>8. Cardinality(rest \cup part) = Cardinality(rest) + Cardinality(part)
    BY <2>5, <2>6, <2>7
  <2> QED BY <2>1, <2>8 DEF rest, part
<1> QED BY <1>1, <1>2

\* A fold that adds the counts of a list up counts each row of the parts once.
LEMMA PartsAddUp ==
  ASSUME NEW m \in Nat, NEW W, IsFiniteSet(W), NEW parts \in [1..m -> SUBSET W], Disjoint(parts, m),
         NEW list, DOMAIN list = 1..m, \A k \in 1..m : list[k].count = Cardinality(parts[k])
  PROVE  CountOf(list) = Cardinality(Covered(parts, 1..m))
<1> DEFINE K == 1..m
           size(s) == Cardinality(Covered(parts, s))
           total == [s \in SUBSET K |-> size(s)]
           Iter(f) == [s \in SUBSET K |-> IF s = {} THEN 0 ELSE f[s \ {Max(s)}] + list[Max(s)].count]
           it == CHOOSE f : f = Iter(f)
<1>1. total = [s \in SUBSET K |-> total[s]] /\ \A s \in SUBSET K : total[s] = size(s)
  OBVIOUS
<1>2. /\ size({}) = 0
      /\ \A s \in SUBSET K : \A x \in s : size(s) = size(s \ {x}) + Cardinality(parts[x])
  BY CoversAddUp
<1>3. \A x \in K : list[x].count = Cardinality(parts[x])
  OBVIOUS
<1>4. ASSUME NEW f PROVE Iter(f) = [s \in SUBSET K |-> Iter(f)[s]] /\ Iter(f)[{}] = 0
  OBVIOUS
<1>5. ASSUME NEW f, NEW s \in SUBSET K, s # {}
      PROVE  \E x \in s : Iter(f)[s] = f[s \ {x}] + list[x].count
  <2>1. Iter(f)[s] = f[s \ {Max(s)}] + list[Max(s)].count
    BY <1>5
  <2>2. Max(s) \in s
    BY <1>5, GreatestNumber
  <2> HIDE DEF Iter
  <2> QED BY <2>1, <2>2
<1> HIDE DEF size, total, K
<1>6. total = Iter(total)
  <2>1. ASSUME NEW s \in SUBSET K PROVE total[s] = Iter(total)[s]
    <3>1. CASE s = {}
      BY <1>1, <1>2, <1>4, <3>1
    <3>2. CASE s # {}
      <4>1. PICK x \in s : Iter(total)[s] = total[s \ {x}] + list[x].count
        BY <1>5, <3>2
      <4>2. s \ {x} \in SUBSET K /\ x \in K
        OBVIOUS
      <4> HIDE DEF Iter
      <4> QED BY <1>1, <1>2, <1>3, <4>1, <4>2
    <3> QED BY <3>1, <3>2
  <2>2. Iter(total) = [s \in SUBSET K |-> Iter(total)[s]]
    BY <1>4
  <2> HIDE DEF Iter
  <2> QED BY <1>1, <2>1, <2>2
<1> HIDE DEF Iter
<1>7. it = Iter(it)
  BY <1>6
<1> HIDE DEF it
<1>8. it[K] = total[K]
  <2>1. it[{}] = total[{}]
    BY <1>4, <1>6, <1>7
  <2>2. ASSUME NEW s \in SUBSET K, s # {}
        PROVE  \E x \in s : it[s \ {x}] = total[s \ {x}] => it[s] = total[s]
    <3>1. PICK x \in s : Iter(it)[s] = it[s \ {x}] + list[x].count
      BY <1>5, <2>2
    <3>2. total[s] = total[s \ {x}] + list[x].count
      <4>1. s \ {x} \in SUBSET K /\ x \in K
        OBVIOUS
      <4> QED BY <1>1, <1>2, <1>3, <4>1
    <3>3. it[s] = Iter(it)[s]
      BY <1>7
    <3> QED BY <3>1, <3>2, <3>3
  <2>3. IsFiniteSet(K) BY FS_Interval DEF K
  <2> QED BY <2>1, <2>2, <2>3, ElementByElement
<1>9. CountOf(list) = it[K]
  BY DEF CountOf, Total, Count, FoldLeft, MapThenFoldSet, it, Iter, K
<1> QED BY <1>1, <1>8, <1>9 DEF size, K

\* Of the severities of a list that is not empty one is the worst.
LEMMA WorstOf ==
  ASSUME NEW n \in Nat \ {0}, NEW list, DOMAIN list = 1..n, \A k \in 1..n : list[k].severity \in Nat
  PROVE  /\ WorstSeverity(list) \in Nat
         /\ \E k \in 1..n : WorstSeverity(list) = list[k].severity
         /\ \A k \in 1..n : list[k].severity <= WorstSeverity(list)
<1> DEFINE value(k) == list[k].severity
           IsWorst(m, i) == i \in 1..m /\ \A k \in 1..m : value(k) <= value(i)
           Without == {m \in 1..n : ~\E i \in 1..m : IsWorst(m, i)}
<1>1. Without = {}
  <2> SUFFICES ASSUME Without # {} PROVE FALSE
    OBVIOUS
  <2>1. Without \in SUBSET Nat
    OBVIOUS
  <2>2. PICK m \in Without : \A k \in Without : m <= k
    <3> HIDE DEF Without
    <3> QED BY <2>1, LeastNumber
  <2>3. m \in 1..n /\ ~\E i \in 1..m : IsWorst(m, i)
    OBVIOUS
  <2>4. m # 1
    <3> SUFFICES ASSUME m = 1 PROVE IsWorst(m, 1)
      BY <2>3
    <3>1. \A k \in 1..m : k = 1 /\ value(k) \in Nat OBVIOUS
    <3> QED BY <3>1
  <2>5. m - 1 \in 1..n /\ m - 1 \notin Without
    <3> HIDE DEF Without
    <3>1. m \in Nat /\ m >= 2 /\ m <= n BY <2>3, <2>4
    <3>2. \A k \in Without : m <= k BY <2>2
    <3> QED BY <3>1, <3>2
  <2>6. PICK i \in 1..(m - 1) : IsWorst(m - 1, i)
    <3> DEFINE o == m - 1
    <3>1. o \in 1..n /\ o \notin Without BY <2>5
    <3> HIDE DEF IsWorst, o
    <3>2. \E i \in 1..o : IsWorst(o, i) BY <3>1
    <3> QED BY <3>2 DEF o
  <2>7. i \in 1..m /\ \A k \in 1..m : k \in 1..(m - 1) \/ k = m
    <3> HIDE DEF Without
    <3>1. m \in Nat BY <2>3
    <3> QED BY <3>1
  <2>8. value(i) \in Nat /\ value(m) \in Nat /\ \A k \in 1..m : value(k) \in Nat
    <3>1. \A k \in 1..m : k \in 1..n BY <2>3
    <3>2. \A k \in 1..n : value(k) \in Nat OBVIOUS
    <3> HIDE DEF value
    <3> QED BY <2>3, <2>7, <3>1, <3>2
  <2> HIDE DEF value, Without
  <2>9. CASE value(m) <= value(i)
    <3>1. IsWorst(m, i) BY <2>6, <2>7, <2>9
    <3> HIDE DEF IsWorst
    <3> QED BY <2>3, <2>7, <3>1
  <2>10. CASE ~(value(m) <= value(i))
    <3>1. \A k \in 1..m : value(k) <= value(m)
      BY <2>6, <2>7, <2>8, <2>10
    <3>2. m \in 1..m BY <2>3
    <3>3. IsWorst(m, m) BY <3>1, <3>2
    <3> HIDE DEF IsWorst
    <3> QED BY <2>3, <3>2, <3>3
  <2> QED BY <2>9, <2>10
<1>2. PICK i \in 1..n : \A k \in 1..n : value(k) <= value(i)
  <2>1. n \in 1..n BY <1>1
  <2>2. \E i \in 1..n : IsWorst(n, i)
    <3> HIDE DEF IsWorst
    <3> QED BY <1>1, <2>1
  <2> QED BY <2>2
<1> DEFINE T == {row.severity : row \in ToSet(list)}
<1>3. T = {value(k) : k \in 1..n}
  BY DEF ToSet
<1>4. value(i) \in T /\ (\A x \in T : x \in Nat /\ value(i) >= x) /\ value(i) \in Nat
  BY <1>2, <1>3
<1> HIDE DEF T
<1>5. Max(T) \in T /\ \A x \in T : Max(T) >= x
  BY <1>4 DEF Max
<1>6. WorstSeverity(list) = Max(T)
  BY DEF WorstSeverity, T
<1>7. \A k \in 1..n : value(k) \in T
  BY <1>3
<1>8. \E k \in 1..n : Max(T) = value(k)
  BY <1>3, <1>5
<1> QED BY <1>4, <1>5, <1>6, <1>7, <1>8

\* Before with fewer ranks than four: the others do not differ.
LEMMA TuplesDecide ==
  ASSUME NEW d \in 1..4, NEW t, DOMAIN t = 1..d, NEW a \in Ranks, NEW b \in Ranks,
         \A i \in 1..d : t[i][1] = a[i] /\ t[i][2] = b[i],
         \A i \in 1..4 : i > d => a[i] = b[i],
         NEW x, NEW y, x = y => a = b
  PROVE  Before(t, x, y) <=> Precedes(a, b)
<1> DEFINE r == [i \in 1..4 |-> <<a[i], b[i]>>]
<1>1. \A i \in 1..4 : r[i][1] = a[i] /\ r[i][2] = b[i]
  OBVIOUS
<1>2. /\ a[1] \in Int /\ a[2] \in Int /\ a[3] \in Int /\ a[4] \in Int
      /\ b[1] \in Int /\ b[2] \in Int /\ b[3] \in Int /\ b[4] \in Int
  BY DEF Ranks
<1>3. CASE x = y
  <2>1. ~Before(t, x, y) BY <1>3 DEF Before
  <2>2. ~Precedes(a, b) BY <1>2, <1>3 DEF Precedes
  <2> QED BY <2>1, <2>2
<1>4. CASE x # y
  <2>1. Before(r, x, y) <=> Precedes(a, b)
    BY <1>4, RanksDecide
  <2>2. DOMAIN r = 1..4 OBVIOUS
  <2> HIDE DEF r
  <2>3. ASSUME Before(t, x, y) PROVE Before(r, x, y)
    <3>1. PICK i \in 1..d : t[i][1] # t[i][2] /\ t[i][1] < t[i][2] /\ \A j \in 1..(i - 1) : t[j][1] = t[j][2]
      BY <2>3 DEF Before
    <3>2. i \in 1..4 /\ r[i][1] # r[i][2] /\ r[i][1] < r[i][2]
      BY <1>1, <3>1
    <3>3. \A j \in 1..(i - 1) : j \in 1..d /\ j \in 1..4
      OBVIOUS
    <3>4. \A j \in 1..(i - 1) : r[j][1] = r[j][2]
      BY <1>1, <3>1, <3>3
    <3> QED BY <1>4, <2>2, <3>2, <3>4 DEF Before
  <2>4. ASSUME Before(r, x, y) PROVE Before(t, x, y)
    <3>1. PICK i \in 1..4 : r[i][1] # r[i][2] /\ r[i][1] < r[i][2] /\ \A j \in 1..(i - 1) : r[j][1] = r[j][2]
      BY <2>2, <2>4 DEF Before
    <3>2. i \in 1..d
      BY <1>1, <3>1
    <3>3. \A j \in 1..(i - 1) : j \in 1..d /\ j \in 1..4
      BY <3>2
    <3>4. t[i][1] # t[i][2] /\ t[i][1] < t[i][2] /\ \A j \in 1..(i - 1) : t[j][1] = t[j][2]
      BY <1>1, <3>1, <3>2, <3>3
    <3> QED BY <1>4, <3>2, <3>4 DEF Before
  <2> QED BY <2>1, <2>3, <2>4
<1> QED BY <1>3, <1>4

\* Sorted by ranks a list has each of its rows at one place, and nothing
\* precedes the row at the first.
AheadOf(n, rank) ==
  [i \in 1..n |-> {j \in 1..n : \/ Precedes(rank[j], rank[i])
                                \/ j < i /\ ~Precedes(rank[i], rank[j])}]
SortedPlaces(n, rank) == PlacesOf(AheadOf(n, rank), n)

LEMMA SortingNumbers ==
  ASSUME NEW n \in Nat, NEW rank \in [1..n -> Ranks]
  PROVE  /\ Numbers(SortedPlaces(n, rank), n, 1..n)
         /\ n # 0 => \A j \in 1..n : ~Precedes(rank[j], rank[SortedPlaces(n, rank)[1]])
<1> DEFINE b == AheadOf(n, rank)
           at == SortedPlaces(n, rank)
           P == 1..n
<1>1. \A i \in P : b[i] = {j \in P : \/ Precedes(rank[j], rank[i])
                                     \/ j < i /\ ~Precedes(rank[i], rank[j])}
  BY DEF AheadOf
<1>2. \A k \in P : \E i \in P : Cardinality({j \in P : \/ Precedes(rank[j], rank[i])
                                                       \/ j < i /\ ~Precedes(rank[i], rank[j])}) = k - 1
  BY SortedLists
<1>3. \A k \in P : \E i \in P : Cardinality(b[i]) = k - 1
  <2> HIDE DEF b, P
  <2> QED BY <1>1, <1>2
<1>4. /\ at \in [P -> P] /\ \A k \in P : Cardinality(b[at[k]]) = k - 1
      /\ \A k, l \in P : at[k] = at[l] => k = l
      /\ \A i \in P : \E k \in P : at[k] = i
  <2> HIDE DEF b
  <2> QED BY <1>3, PlacesTaken DEF SortedPlaces, b
<1>5. Numbers(at, n, P)
  BY <1>4 DEF Numbers
<1>6. ASSUME n # 0, NEW j \in P PROVE ~Precedes(rank[j], rank[at[1]])
  <2>1. 1 \in P /\ at[1] \in P /\ Cardinality(b[at[1]]) = 0
    <3>1. 1 \in P BY <1>6
    <3> HIDE DEF at, b, P
    <3>2. at[1] \in P /\ Cardinality(b[at[1]]) = 1 - 1 BY <1>4, <3>1
    <3> QED BY <3>1, <3>2
  <2>2. b[at[1]] \in SUBSET P
    <3> HIDE DEF b, at, P
    <3> QED BY <1>1, <2>1
  <2>3. IsFiniteSet(b[at[1]])
    <3>1. IsFiniteSet(P) BY FS_Interval
    <3> HIDE DEF b, at, P
    <3> QED BY <2>2, <3>1, FS_Subset
  <2>4. b[at[1]] = {}
    <3> HIDE DEF b, at
    <3> QED BY <2>1, <2>3, FS_EmptySet
  <2> HIDE DEF b, at, P
  <2> QED BY <1>1, <2>1, <2>4
<1> QED BY <1>5, <1>6 DEF P

\* The distinct values of a list: as a set they are the values, and a limit
\* that none exceeds leaves them all.
LEMMA FirstDistinctAre ==
  ASSUME NEW n \in Nat, NEW S, NEW values \in [1..n -> S], NEW limit \in Nat
  PROVE  /\ \E m \in Nat : FirstDistinct(values, limit) \in [1..m -> S]
         /\ ToSet(FirstDistinct(values, limit)) \subseteq ToSet(values)
         /\ Cardinality(ToSet(values)) <= limit => ToSet(FirstDistinct(values, limit)) = ToSet(values)
<1> DEFINE V == {values[i] : i \in 1..n}
           keys == KeysOf(n, values)
           m == Cardinality(FirstPlaces(n, values))
           K == 1..m
           distinct == KeysInOrder(values, LAMBDA value : value)
<1>1. Numbers(keys, m, V)
  BY EachKeyOnce
<1>2. ToSet(values) = V
  BY DEF ToSet
<1>3. m \in Nat /\ keys \in [K -> V]
  BY <1>1 DEF Numbers
<1>4. IsFiniteSet(V) /\ Cardinality(V) = m
  <2>1. IsFiniteSet(K) /\ Cardinality(K) = m BY <1>3, FS_Interval
  <2>2. keys \in Bijection(K, V)
    <3> HIDE DEF keys, m, V
    <3> QED BY <1>1 DEF Numbers, Bijection, Injection, Surjection, IsInjective
  <2> HIDE DEF keys, m, V, K
  <2>3. ExistsBijection(K, V) BY <2>2 DEF ExistsBijection
  <2> QED BY <2>1, <2>3, FS_Bijection
<1>5. distinct = keys
  <2>1. FirstPlaces(n, values) = {i \in DOMAIN values : \A j \in 1..(i - 1) : values[j] # values[i]}
    BY DEF FirstPlaces
  <2>2. distinct = SeqMap(RowsAt(values, FirstPlaces(n, values)), LAMBDA value : value)
    BY <2>1 DEF KeysInOrder
  <2> DEFINE list == RowsAt(values, FirstPlaces(n, values))
  <2>3. list = [k \in K |-> values[KeptPlaces(FirstPlaces(n, values))[k]]]
    BY KeptAre
  <2>4. keys = list
    BY <2>3 DEF KeysOf
  <2>5. SeqMap(list, LAMBDA value : value) = [k \in DOMAIN list |-> list[k]]
    BY DEF SeqMap
  <2> HIDE DEF list, keys, distinct, m
  <2>6. [k \in DOMAIN list |-> list[k]] = list
    BY <1>3, <2>4
  <2> QED BY <2>2, <2>4, <2>5, <2>6 DEF list
<1> HIDE DEF keys, distinct, m
<1>6. Len(keys) = m /\ keys \in Seq(V)
  BY <1>3
<1> DEFINE size == IF limit <= m THEN limit ELSE m
           shown == FirstDistinct(values, limit)
<1>7. shown = SubSeq(keys, 1, size)
  <2>1. shown = SubSeq(keys, 1, Min({limit, Len(keys)}))
    BY <1>5 DEF FirstDistinct, distinct
  <2>2. Min({limit, Len(keys)}) = size
    BY <1>3, <1>6, LeastAndGreatest
  <2> QED BY <2>1, <2>2
<1>8. size \in Nat /\ size <= m /\ (m <= limit => size = m)
  BY <1>3
<1> HIDE DEF size, shown, V
<1>9. shown = [k \in 1..size |-> keys[k]]
  BY <1>3, <1>6, <1>7, <1>8
<1>10. DOMAIN shown = 1..size /\ \A k \in 1..size : k \in K /\ shown[k] = keys[k]
  BY <1>3, <1>8, <1>9
<1>11. ToSet(shown) = {keys[k] : k \in 1..size}
  BY <1>10 DEF ToSet
<1> HIDE DEF K
<1>12. ToSet(shown) \subseteq V
  BY <1>3, <1>10, <1>11
<1>13. m <= limit => ToSet(shown) = V
  <2> SUFFICES ASSUME m <= limit PROVE V \subseteq ToSet(shown)
    BY <1>12
  <2>1. \A v \in V : \E k \in 1..m : keys[k] = v
    BY <1>1 DEF Numbers
  <2> QED BY <1>8, <1>11, <2>1
<1>14. shown \in [1..size -> S]
  <2>1. V \subseteq S BY DEF V
  <2>2. \A k \in 1..size : keys[k] \in S BY <1>3, <1>10, <2>1
  <2> QED BY <1>9, <2>2
<1> QED BY <1>2, <1>4, <1>8, <1>12, <1>13, <1>14 DEF shown

\* One list behind another.
LEMMA ElementsOfBoth ==
  ASSUME NEW S, NEW a \in Seq(S), NEW b \in Seq(S)
  PROVE  a \o b \in Seq(S) /\ ToSet(a \o b) = ToSet(a) \cup ToSet(b)
<1> DEFINE c == a \o b
           k == Len(a)
           l == Len(b)
<1>1. k \in Nat /\ l \in Nat /\ DOMAIN a = 1..k /\ DOMAIN b = 1..l
  OBVIOUS
<1>2. c \in Seq(S) /\ Len(c) = k + l /\ \A i \in 1..(k + l) : c[i] = IF i <= k THEN a[i] ELSE b[i - k]
  OBVIOUS
<1>3. DOMAIN c = 1..(k + l)
  BY <1>2
<1> HIDE DEF c, k, l
<1>4. ToSet(c) \subseteq ToSet(a) \cup ToSet(b)
  <2> SUFFICES ASSUME NEW i \in 1..(k + l) PROVE c[i] \in ToSet(a) \cup ToSet(b)
    BY <1>3 DEF ToSet
  <2>1. CASE i <= k
    <3>1. i \in DOMAIN a BY <1>1, <2>1
    <3>2. c[i] = a[i] BY <1>2, <2>1
    <3> QED BY <3>1, <3>2 DEF ToSet
  <2>2. CASE ~(i <= k)
    <3>1. i - k \in DOMAIN b BY <1>1, <2>2
    <3>2. c[i] = b[i - k] BY <1>2, <2>2
    <3> DEFINE o == i - k
    <3> HIDE DEF o
    <3>3. o \in DOMAIN b /\ c[i] = b[o] BY <3>1, <3>2 DEF o
    <3> QED BY <3>3 DEF ToSet
  <2> QED BY <2>1, <2>2
<1>5. ToSet(a) \subseteq ToSet(c)
  <2> SUFFICES ASSUME NEW i \in 1..k PROVE a[i] \in ToSet(c)
    BY <1>1 DEF ToSet
  <2>1. i \in 1..(k + l) /\ c[i] = a[i] BY <1>1, <1>2
  <2> QED BY <1>3, <2>1 DEF ToSet
<1>6. ToSet(b) \subseteq ToSet(c)
  <2> SUFFICES ASSUME NEW i \in 1..l PROVE b[i] \in ToSet(c)
    BY <1>1 DEF ToSet
  <2>1. k + i \in 1..(k + l) /\ ~(k + i <= k) /\ (k + i) - k = i BY <1>1
  <2>2. c[k + i] = b[i] BY <1>2, <2>1
  <2> QED BY <1>3, <2>1, <2>2 DEF ToSet
<1> QED BY <1>2, <1>4, <1>5, <1>6 DEF c

\* A list of lists, put one behind the other, has the elements of all of them.
LEMMA FlattenedAre ==
  ASSUME NEW n \in Nat \ {0}, NEW S, NEW seqs \in [1..n -> Seq(S)]
  PROVE  /\ FlattenSeq(seqs) \in Seq(S)
         /\ ToSet(FlattenSeq(seqs)) = UNION {ToSet(seqs[i]) : i \in 1..n}
<1> DEFINE Steps(f, m) == f = [i \in 1..m |-> IF i = 1 THEN seqs[i] ELSE f[i - 1] \o seqs[i]]
           Missing == {m \in 1..n : ~\E f : Steps(f, m)}
           it == CHOOSE f : Steps(f, n)
<1>1. \E f : Steps(f, 1)
  <2> DEFINE f == [i \in 1..1 |-> seqs[i]]
  <2>1. \A i \in 1..1 : i = 1 OBVIOUS
  <2>2. Steps(f, 1) BY <2>1
  <2> HIDE DEF f
  <2> QED BY <2>2
<1>2. ASSUME NEW m \in 2..n, \E f : Steps(f, m - 1) PROVE \E f : Steps(f, m)
  <2>1. PICK g : Steps(g, m - 1) BY <1>2
  <2> DEFINE f == [i \in 1..m |-> IF i = m THEN g[m - 1] \o seqs[m] ELSE g[i]]
  <2>2. \A i \in 1..(m - 1) : g[i] = IF i = 1 THEN seqs[i] ELSE g[i - 1] \o seqs[i]
    BY <2>1
  <2>3. \A i \in 1..m : f[i] = IF i = m THEN g[m - 1] \o seqs[m] ELSE g[i]
    OBVIOUS
  <2>4. \A i \in 1..(m - 1) : f[i] = g[i] /\ i \in 1..m /\ i # m
    OBVIOUS
  <2>5. f = [i \in 1..m |-> f[i]] OBVIOUS
  <2> HIDE DEF f
  <2>6. \A i \in 1..m : f[i] = IF i = 1 THEN seqs[i] ELSE f[i - 1] \o seqs[i]
    <3> SUFFICES ASSUME NEW i \in 1..m PROVE f[i] = IF i = 1 THEN seqs[i] ELSE f[i - 1] \o seqs[i]
      OBVIOUS
    <3>1. CASE i = m
      <4>1. m - 1 \in 1..(m - 1) /\ i # 1 BY <3>1
      <4>2. f[m - 1] = g[m - 1] BY <2>4, <4>1
      <4>3. f[m] = g[m - 1] \o seqs[m]
        <5>1. m \in 1..m OBVIOUS
        <5> QED BY <2>3, <5>1
      <4> QED BY <3>1, <4>1, <4>2, <4>3
    <3>2. CASE i # m
      <4>1. i \in 1..(m - 1) BY <3>2
      <4>2. f[i] = IF i = 1 THEN seqs[i] ELSE g[i - 1] \o seqs[i] BY <2>2, <2>4, <4>1
      <4>3. i # 1 => i - 1 \in 1..(m - 1) OBVIOUS
      <4>4. i # 1 => f[i - 1] = g[i - 1] BY <2>4, <4>3
      <4> QED BY <4>2, <4>4
    <3> QED BY <3>1, <3>2
  <2>7. Steps(f, m) BY <2>5, <2>6
  <2> HIDE DEF Steps
  <2> QED BY <2>7
<1> HIDE DEF Steps
<1>3. Missing = {}
  <2> SUFFICES ASSUME Missing # {} PROVE FALSE
    OBVIOUS
  <2>1. Missing \in SUBSET Nat OBVIOUS
  <2>2. PICK m \in Missing : \A k \in Missing : m <= k
    <3> HIDE DEF Missing
    <3> QED BY <2>1, LeastNumber
  <2>3. m \in 1..n /\ ~\E f : Steps(f, m) OBVIOUS
  <2>4. m # 1 BY <1>1, <2>3
  <2>5. m \in 2..n
    <3> HIDE DEF Missing
    <3> QED BY <2>3, <2>4
  <2>6. ~\E f : Steps(f, m - 1)
    <3> HIDE DEF Missing
    <3> QED BY <1>2, <2>3, <2>5
  <2>7. m - 1 \in 1..n
    <3> HIDE DEF Missing
    <3> QED BY <2>5
  <2>8. m - 1 \in Missing BY <2>6, <2>7
  <2> HIDE DEF Missing
  <2> QED BY <2>2, <2>5, <2>8
<1>4. Steps(it, n)
  <2>1. n \in 1..n OBVIOUS
  <2>2. \E f : Steps(f, n) BY <1>3, <2>1
  <2> QED BY <2>2
<1>5. FlattenSeq(seqs) = it[n]
  <2>1. Len(seqs) = n OBVIOUS
  <2> QED BY <2>1 DEF FlattenSeq, Steps
<1> HIDE DEF it
<1>6. \A i \in 1..n : it[i] = IF i = 1 THEN seqs[i] ELSE it[i - 1] \o seqs[i]
  BY <1>4 DEF Steps
<1> DEFINE All(i) == UNION {ToSet(seqs[j]) : j \in 1..i}
           Right(i) == it[i] \in Seq(S) /\ ToSet(it[i]) = All(i)
           Wrong == {i \in 1..n : ~Right(i)}
<1>7. Right(1)
  <2>1. it[1] = seqs[1] /\ 1 \in 1..n BY <1>6
  <2>2. All(1) = ToSet(seqs[1])
    <3>1. \A j : j \in 1..1 <=> j = 1 OBVIOUS
    <3> QED BY <3>1
  <2> QED BY <2>1, <2>2
<1>8. ASSUME NEW i \in 2..n, Right(i - 1) PROVE Right(i)
  <2>1. i \in 1..n /\ i # 1
    OBVIOUS
  <2>2. it[i] = it[i - 1] \o seqs[i] /\ seqs[i] \in Seq(S)
    BY <1>6, <2>1
  <2>3. it[i - 1] \in Seq(S) /\ ToSet(it[i - 1]) = All(i - 1)
    BY <1>8
  <2>4. All(i) = All(i - 1) \cup ToSet(seqs[i])
    <3>1. 1..i = (1..(i - 1)) \cup {i} OBVIOUS
    <3> DEFINE L == 1..(i - 1)
               M == 1..i
    <3>2. M = L \cup {i} BY <3>1
    <3> DEFINE Of(j) == ToSet(seqs[j])
    <3> HIDE DEF L, M, Of
    <3>3. UNION {Of(j) : j \in M} = (UNION {Of(j) : j \in L}) \cup Of(i)
      BY <3>2
    <3>4. UNION {ToSet(seqs[j]) : j \in M} = (UNION {ToSet(seqs[j]) : j \in L}) \cup ToSet(seqs[i])
      BY <3>3 DEF Of
    <3> QED BY <3>4 DEF L, M
  <2> HIDE DEF All
  <2>5. it[i] \in Seq(S) /\ ToSet(it[i]) = ToSet(it[i - 1]) \cup ToSet(seqs[i])
    BY <2>2, <2>3, ElementsOfBoth
  <2> QED BY <2>3, <2>4, <2>5
<1> HIDE DEF Right
<1>9. Wrong = {}
  <2> SUFFICES ASSUME Wrong # {} PROVE FALSE
    OBVIOUS
  <2>1. Wrong \in SUBSET Nat OBVIOUS
  <2>2. PICK m \in Wrong : \A k \in Wrong : m <= k
    <3> HIDE DEF Wrong
    <3> QED BY <2>1, LeastNumber
  <2>3. m \in 1..n /\ ~Right(m) OBVIOUS
  <2>4. m # 1 BY <1>7, <2>3
  <2>5. m \in 2..n /\ m - 1 \in 1..n
    <3> HIDE DEF Wrong
    <3> QED BY <2>3, <2>4
  <2>6. ~Right(m - 1)
    <3> HIDE DEF Wrong
    <3> QED BY <1>8, <2>3, <2>5
  <2>7. m - 1 \in Wrong BY <2>5, <2>6
  <2> HIDE DEF Wrong
  <2> QED BY <2>2, <2>5, <2>7
<1>10. Right(n)
  <2>1. n \in 1..n OBVIOUS
  <2> QED BY <1>9, <2>1
<1> QED BY <1>5, <1>10 DEF Right

-----------------------------------------------------------------------------
(***************************************************************************)
(* Groups and the rows they stand for.                                     *)
(***************************************************************************)
\* The rows of each key, in the order of the keys.
ClassesOf(n, kf) ==
  [q \in 1..Cardinality(FirstPlaces(n, kf)) |-> {i \in 1..n : kf[i] = KeysOf(n, kf)[q]}]

AreClasses(parts, m, n, kf, keys) ==
  /\ m \in Nat /\ parts \in [1..m -> SUBSET (1..n)] /\ Disjoint(parts, m)
  /\ Covered(parts, 1..m) = 1..n
  /\ \A q \in 1..m : parts[q] # {}
  /\ \A q \in 1..m : \A i \in 1..n : i \in parts[q] <=> kf[i] = keys[q]

LEMMA ClassesCover ==
  ASSUME NEW n \in Nat, NEW kf
  PROVE  AreClasses(ClassesOf(n, kf), Cardinality(FirstPlaces(n, kf)), n, kf, KeysOf(n, kf))
<1> DEFINE m == Cardinality(FirstPlaces(n, kf))
           parts == ClassesOf(n, kf)
           keys == KeysOf(n, kf)
           K == 1..m
           P == 1..n
<1>1. /\ m \in Nat /\ keys \in [K -> {kf[i] : i \in P}]
      /\ \A k, l \in K : keys[k] = keys[l] => k = l
      /\ \A v \in {kf[i] : i \in P} : \E k \in K : keys[k] = v
  BY EachKeyOnce DEF Numbers
<1>2. parts = [q \in K |-> {i \in P : kf[i] = keys[q]}]
  BY DEF ClassesOf
<1> HIDE DEF m, parts, keys, K, P
<1>3. \A q \in K : parts[q] = {i \in P : kf[i] = keys[q]}
  BY <1>2
<1>4. parts \in [K -> SUBSET P]
  BY <1>2
<1>5. Disjoint(parts, m)
  BY <1>1, <1>3 DEF Disjoint, K
<1>6. Covered(parts, K) = P
  <2>1. Covered(parts, K) \subseteq P BY <1>3 DEF Covered
  <2>2. ASSUME NEW i \in P PROVE i \in Covered(parts, K)
    <3>1. PICK q \in K : keys[q] = kf[i] BY <1>1
    <3> QED BY <1>3, <3>1 DEF Covered
  <2> QED BY <2>1, <2>2
<1>7. \A q \in K : parts[q] # {}
  <2> SUFFICES ASSUME NEW q \in K PROVE parts[q] # {}
    OBVIOUS
  <2>1. PICK i \in P : keys[q] = kf[i] BY <1>1
  <2> QED BY <1>3, <2>1
<1>8. \A q \in K : \A i \in P : i \in parts[q] <=> kf[i] = keys[q]
  BY <1>3
<1>9. AreClasses(parts, m, n, kf, keys)
  BY <1>1, <1>4, <1>5, <1>6, <1>7, <1>8 DEF AreClasses, K, P
<1> QED BY <1>9 DEF m, parts, keys

\* The locations and the paths of some rows.
LocationsOf(rows, c) == {Location(rows[i]) : i \in c}
PathsOf(rows, c) == {rows[i].file.path : i \in c}

\* What a row of a summary says of the rows it stands for.
Answers(o, rows, c) ==
  /\ c # {}
  /\ o.text \in Nat /\ \A i \in c : rows[i].text = o.text
  /\ o.severity \in Nat /\ \E i \in c : o.severity = rows[i].severity
  /\ \A i \in c : rows[i].severity <= o.severity
  /\ o.count = Cardinality(c)
  /\ o.samples \in Seq(LocationsOf(rows, c))
  /\ Cardinality(LocationsOf(rows, c)) <= MaxSamples => ToSet(o.samples) = LocationsOf(rows, c)
  /\ o.file.path \in PathsOf(rows, c)
  /\ o.affected \in Nat /\ o.affected <= Cardinality(PathsOf(rows, c))
  /\ Cardinality(LocationsOf(rows, c)) <= MaxSamples => o.affected = Cardinality(PathsOf(rows, c))

\* A list of summaries that stands for each of n rows once.
Stands(list, m, parts, rows, n) ==
  /\ m \in Nat /\ DOMAIN list = 1..m /\ list = [k \in 1..m |-> list[k]]
  /\ parts \in [1..m -> SUBSET (1..n)] /\ Disjoint(parts, m) /\ Covered(parts, 1..m) = 1..n
  /\ \A k \in 1..m : Answers(list[k], rows, parts[k])

\* As long as five samples can name every location they do, and the files that
\* are said to be affected are those of the rows.
LEMMA SamplesTell ==
  ASSUME NEW n \in Nat, NEW rows \in [1..n -> FoundRow], NEW c \in SUBSET (1..n),
         NEW locations \in Seq(LocationsOf(rows, c)),
         Cardinality(LocationsOf(rows, c)) <= MaxSamples => ToSet(locations) = LocationsOf(rows, c),
         NEW more \in SUBSET PathsOf(rows, c)
  PROVE  LET samples == SampleLocations(locations)
             affected == Cardinality(FilesOf(samples) \cup more)
         IN /\ samples \in Seq(LocationsOf(rows, c))
            /\ Cardinality(LocationsOf(rows, c)) <= MaxSamples => ToSet(samples) = LocationsOf(rows, c)
            /\ affected \in Nat /\ affected <= Cardinality(PathsOf(rows, c))
            /\ Cardinality(LocationsOf(rows, c)) <= MaxSamples => affected = Cardinality(PathsOf(rows, c))
<1> DEFINE V == LocationsOf(rows, c)
           W == PathsOf(rows, c)
           samples == SampleLocations(locations)
           F == FilesOf(samples) \cup more
           l == Len(locations)
<1>1. l \in Nat /\ locations \in [1..l -> V] /\ MaxSamples \in Nat
  BY DEF MaxSamples
<1>2. /\ \E m \in Nat : samples \in [1..m -> V]
      /\ ToSet(samples) \subseteq ToSet(locations)
      /\ Cardinality(ToSet(locations)) <= MaxSamples => ToSet(samples) = ToSet(locations)
  <2> HIDE DEF V, l
  <2> QED BY <1>1, FirstDistinctAre DEF SampleLocations
<1>3. samples \in Seq(V)
  BY <1>2
<1>4. ToSet(samples) \subseteq V
  BY <1>3 DEF ToSet
<1>5. Cardinality(V) <= MaxSamples => ToSet(samples) = V
  BY <1>2
<1>6. \A i \in c : Location(rows[i]).file.path = rows[i].file.path
  BY DEF Location
<1>7. W = {v.file.path : v \in V}
  <2> HIDE DEF V, W
  <2>1. ASSUME NEW i \in c PROVE rows[i].file.path \in {v.file.path : v \in V}
    <3>1. Location(rows[i]) \in V BY DEF V, LocationsOf
    <3> QED BY <1>6, <3>1
  <2>2. ASSUME NEW v \in V PROVE v.file.path \in W
    <3>1. PICK i \in c : v = Location(rows[i]) BY DEF V, LocationsOf
    <3>2. v.file.path = rows[i].file.path BY <1>6, <3>1
    <3> QED BY <3>2 DEF W, PathsOf
  <2>3. \A path \in W : \E i \in c : path = rows[i].file.path BY DEF W, PathsOf
  <2> QED BY <2>1, <2>2, <2>3
<1> HIDE DEF V, W, samples
<1>8. F \in SUBSET W /\ (Cardinality(V) <= MaxSamples => F = W)
  <2>1. FilesOf(samples) = {v.file.path : v \in ToSet(samples)} BY DEF FilesOf
  <2>2. more \in SUBSET W BY DEF W
  <2> QED BY <1>4, <1>5, <1>7, <2>1, <2>2
<1> HIDE DEF F
<1>9. IsFiniteSet(W)
  <2> DEFINE I == 1..n
             P(i) == rows[i].file.path
  <2>1. IsFiniteSet(c)
    <3>1. IsFiniteSet(I) /\ c \in SUBSET I BY FS_Interval
    <3> HIDE DEF I
    <3> QED BY <3>1, FS_Subset
  <2> DEFINE f == [i \in c |-> rows[i].file.path]
  <2>2. f \in Surjection(c, W)
    <3>1. W = {f[i] : i \in c} BY DEF W, PathsOf
    <3>2. f \in [c -> W] BY <3>1
    <3> HIDE DEF f
    <3> QED BY <3>1, <3>2 DEF Surjection
  <2> HIDE DEF f
  <2> QED BY <2>1, <2>2, FS_Surjection
<1>10. Cardinality(F) \in Nat /\ Cardinality(W) \in Nat /\ Cardinality(F) <= Cardinality(W)
  BY <1>8, <1>9, FS_Subset, FS_CardinalityType
<1> QED BY <1>3, <1>5, <1>8, <1>10 DEF V, W, samples, F

\* The rows at some places, as a list.
ArePlaced(same, m, S, rows, at, c) ==
  /\ m \in Nat \ {0} /\ same \in [1..m -> S] /\ DOMAIN same = 1..m /\ Len(same) = m
  /\ same \in Seq(S) /\ same # <<>> /\ Head(same) = same[1] /\ Last(same) = same[m]
  /\ \A k \in 1..m : at[k] \in c /\ same[k] = rows[at[k]]
  /\ \A i \in c : \E k \in 1..m : at[k] = i
  /\ 1 \in 1..m /\ m \in 1..m

LEMMA PlacedRows ==
  ASSUME NEW n \in Nat, NEW S, NEW rows \in [1..n -> S], NEW c \in SUBSET (1..n), c # {}
  PROVE  ArePlaced(RowsAt(rows, c), Cardinality(c), S, rows, KeptPlaces(c), c)
<1> DEFINE same == RowsAt(rows, c)
           m == Cardinality(c)
           at == KeptPlaces(c)
<1>1. /\ m \in Nat /\ \A k \in 1..m : at[k] \in c
      /\ \A i \in c : \E k \in 1..m : at[k] = i
  <2>1. Numbers(at, m, c) BY KeptOnce
  <2> HIDE DEF at, m
  <2> QED BY <2>1 DEF Numbers
<1>2. same = [k \in 1..m |-> rows[at[k]]]
  BY KeptAre
<1> HIDE DEF same, m, at
<1>3. m # 0
  <2>1. PICK i \in c : TRUE OBVIOUS
  <2>2. PICK k \in 1..m : at[k] = i BY <1>1
  <2> QED BY <1>1, <2>2
<1>4. m \in Nat \ {0} /\ 1 \in 1..m /\ m \in 1..m
  BY <1>1, <1>3
<1>5. \A k \in 1..m : at[k] \in c /\ same[k] = rows[at[k]]
  BY <1>1, <1>2
<1>6. \A k \in 1..m : rows[at[k]] \in S
  BY <1>1
<1>7. same \in [1..m -> S] /\ DOMAIN same = 1..m
  BY <1>2, <1>6
<1>8. Len(same) = m /\ same \in Seq(S)
  BY <1>4, <1>7
<1>9. same # <<>> /\ Head(same) = same[1] /\ Last(same) = same[m]
  BY <1>4, <1>8 DEF Last
<1> QED BY <1>1, <1>4, <1>5, <1>7, <1>8, <1>9 DEF same, m, at, ArePlaced

\* What is made of duplicates stands for each of them.
LEMMA DedupedAnswers ==
  ASSUME NEW n \in Nat, NEW rows \in [1..n -> FoundRow], NEW c \in SUBSET (1..n), c # {},
         \A i, j \in c : rows[i].text = rows[j].text
  PROVE  Answers(Deduped(RowsAt(rows, c)), rows, c)
<1> DEFINE same == RowsAt(rows, c)
           m == Cardinality(c)
           at == KeptPlaces(c)
           o == Deduped(same)
           locations == SeqMap(same, Location)
           V == LocationsOf(rows, c)
<1>1. /\ m \in Nat \ {0} /\ DOMAIN same = 1..m /\ Len(same) = m
      /\ Head(same) = same[1] /\ 1 \in 1..m
      /\ \A k \in 1..m : at[k] \in c /\ same[k] = rows[at[k]]
      /\ \A i \in c : \E k \in 1..m : at[k] = i
  <2>1. ArePlaced(same, m, FoundRow, rows, at, c) BY PlacedRows
  <2> HIDE DEF same, m, at
  <2> QED BY <2>1 DEF ArePlaced
<1>2. \A i \in c : rows[i] \in FoundRow
  OBVIOUS
<1>3. /\ o.text = Head(same).text /\ o.file = Head(same).file
      /\ o.severity = WorstSeverity(same) /\ o.count = Len(same)
      /\ o.samples = SampleLocations(locations)
      /\ o.affected = Cardinality(FilesOf(SampleLocations(locations)))
  BY DEF Deduped
<1>4. locations = [k \in 1..m |-> Location(same[k])]
  BY <1>1 DEF SeqMap
<1> HIDE DEF same, m, at, o, locations
<1>5. \A k \in 1..m : Location(same[k]) \in V
  BY <1>1 DEF LocationsOf
<1>6. locations \in Seq(V) /\ ToSet(locations) = {Location(same[k]) : k \in 1..m}
  <2>1. locations \in [1..m -> V] BY <1>4, <1>5
  <2>2. DOMAIN locations = 1..m /\ \A k \in 1..m : locations[k] = Location(same[k]) BY <1>4
  <2> HIDE DEF V
  <2>3. locations \in Seq(V) BY <1>1, <2>1
  <2> QED BY <2>2, <2>3 DEF ToSet
<1>7. ToSet(locations) = V
  <2>1. V \subseteq {Location(same[k]) : k \in 1..m}
    BY <1>1 DEF LocationsOf
  <2> HIDE DEF V
  <2> QED BY <1>5, <1>6, <2>1
<1>8. LET samples == SampleLocations(locations)
          affected == Cardinality(FilesOf(samples) \cup {})
      IN /\ samples \in Seq(V)
         /\ Cardinality(V) <= MaxSamples => ToSet(samples) = V
         /\ affected \in Nat /\ affected <= Cardinality(PathsOf(rows, c))
         /\ Cardinality(V) <= MaxSamples => affected = Cardinality(PathsOf(rows, c))
  BY <1>6, <1>7, SamplesTell
<1>9. FilesOf(SampleLocations(locations)) \cup {} = FilesOf(SampleLocations(locations))
  OBVIOUS
<1>10. /\ \A k \in 1..m : same[k].severity \in Nat
       /\ WorstSeverity(same) \in Nat
       /\ \E k \in 1..m : WorstSeverity(same) = same[k].severity
       /\ \A k \in 1..m : same[k].severity <= WorstSeverity(same)
  <2>1. ASSUME NEW k \in 1..m PROVE same[k].severity \in Nat
    <3>1. same[k] \in FoundRow BY <1>1, <1>2
    <3> QED BY <3>1 DEF FoundRow
  <2> QED BY <1>1, <2>1, WorstOf
<1>11. o.text = rows[at[1]].text /\ o.file = rows[at[1]].file /\ at[1] \in c
  BY <1>1, <1>3
<1>12. \A k \in 1..m : at[k] \in c /\ same[k].severity = rows[at[k]].severity
  BY <1>1
<1>13. /\ o.severity \in Nat /\ \E i \in c : o.severity = rows[i].severity
       /\ \A i \in c : rows[i].severity <= o.severity
  <2>1. o.severity = WorstSeverity(same) BY <1>3
  <2>2. \E i \in c : o.severity = rows[i].severity
    <3>1. PICK k \in 1..m : WorstSeverity(same) = same[k].severity BY <1>10
    <3>2. at[k] \in c /\ same[k].severity = rows[at[k]].severity BY <1>12
    <3> QED BY <2>1, <3>1, <3>2
  <2>3. ASSUME NEW i \in c PROVE rows[i].severity <= o.severity
    <3>1. PICK k \in 1..m : at[k] = i BY <1>1
    <3> QED BY <1>12, <1>10, <2>1, <3>1
  <2> QED BY <1>10, <2>1, <2>2, <2>3
<1>14. o.text \in Nat /\ \A i \in c : rows[i].text = o.text
  <2>1. rows[at[1]].text \in Nat BY <1>2, <1>11 DEF FoundRow
  <2> QED BY <1>11, <2>1
<1>15. o.file.path \in PathsOf(rows, c)
  BY <1>11 DEF PathsOf
<1>16. o.count = Cardinality(c)
  BY <1>1, <1>3 DEF m
<1>17. /\ o.samples \in Seq(V)
       /\ Cardinality(V) <= MaxSamples => ToSet(o.samples) = V
       /\ o.affected \in Nat /\ o.affected <= Cardinality(PathsOf(rows, c))
       /\ Cardinality(V) <= MaxSamples => o.affected = Cardinality(PathsOf(rows, c))
  <2> HIDE DEF V
  <2> QED BY <1>3, <1>8, <1>9
<1> QED BY <1>13, <1>14, <1>15, <1>16, <1>17 DEF Answers, V, o, same

\* Rearranged a list stands for the same rows.
LEMMA RearrangedStands ==
  ASSUME NEW list, NEW m, NEW parts, NEW rows, NEW n \in Nat, Stands(list, m, parts, rows, n),
         NEW at, Numbers(at, m, 1..m)
  PROVE  Stands([k \in 1..m |-> list[at[k]]], m, [k \in 1..m |-> parts[at[k]]], rows, n)
<1> DEFINE K == 1..m
           W == 1..n
           new == [k \in K |-> list[at[k]]]
           moved == [k \in K |-> parts[at[k]]]
<1>1. /\ m \in Nat /\ parts \in [K -> SUBSET W] /\ Disjoint(parts, m) /\ Covered(parts, K) = W
      /\ \A k \in K : Answers(list[k], rows, parts[k])
  BY DEF Stands
<1>2. /\ \A k \in K : at[k] \in K
      /\ \A k, l \in K : at[k] = at[l] => k = l
      /\ \A i \in K : \E k \in K : at[k] = i
  BY DEF Numbers
<1>3. /\ DOMAIN new = K /\ new = [k \in K |-> new[k]] /\ \A k \in K : new[k] = list[at[k]]
      /\ \A k \in K : moved[k] = parts[at[k]]
  OBVIOUS
<1>4. moved \in [K -> SUBSET W]
  <2> HIDE DEF K, W
  <2> QED BY <1>1, <1>2
<1> HIDE DEF new, moved, W
<1>5. Disjoint(moved, m)
  <2> SUFFICES ASSUME NEW k \in K, NEW l \in K, k # l PROVE moved[k] \cap moved[l] = {}
    BY DEF Disjoint
  <2>1. at[k] \in K /\ at[l] \in K /\ at[k] # at[l] BY <1>2
  <2>2. parts[at[k]] \cap parts[at[l]] = {} BY <1>1, <2>1 DEF Disjoint
  <2> QED BY <1>3, <2>2
<1>6. Covered(moved, K) = W
  <2> HIDE DEF K
  <2>1. \A i \in W : \E k \in K : i \in moved[k]
    <3> SUFFICES ASSUME NEW i \in W PROVE \E k \in K : i \in moved[k]
      OBVIOUS
    <3>1. PICK l \in K : i \in parts[l] BY <1>1 DEF Covered
    <3>2. PICK k \in K : at[k] = l BY <1>2
    <3> QED BY <1>3, <3>1, <3>2
  <2>2. \A k \in K : moved[k] \subseteq W BY <1>4
  <2> QED BY <2>1, <2>2 DEF Covered
<1>7. \A k \in K : Answers(new[k], rows, moved[k])
  <2> HIDE DEF K
  <2> QED BY <1>1, <1>2, <1>3
<1> QED BY <1>1, <1>3, <1>4, <1>5, <1>6, <1>7 DEF Stands, K, W, new, moved

\* No two entries of the list without duplicates stand for the same row.
LEMMA DedupeStands ==
  ASSUME NEW n \in Nat, NEW rows \in [1..n -> FoundRow]
  PROVE  \E m, parts : Stands(DedupeOccurrences(rows), m, parts, rows, n)
<1> DEFINE kf == [i \in 1..n |-> DedupeKey(rows[i])]
           firsts == FirstPlaces(n, kf)
           m == Cardinality(firsts)
           parts == ClassesOf(n, kf)
           at == KeptPlaces(firsts)
           keys == KeysOf(n, kf)
           list == DedupeOccurrences(rows)
           K == 1..m
<1>1. DOMAIN rows = 1..n /\ \A i \in 1..n : kf[i] = DedupeKey(rows[i])
  OBVIOUS
<1> HIDE DEF kf
<1>2. /\ m \in Nat /\ parts \in [K -> SUBSET (1..n)] /\ Disjoint(parts, m)
      /\ Covered(parts, K) = 1..n
      /\ \A q \in K : parts[q] # {}
      /\ \A q \in K : \A i \in 1..n : i \in parts[q] <=> kf[i] = keys[q]
  <2>1. AreClasses(parts, m, n, kf, keys) BY ClassesCover
  <2> HIDE DEF parts, m, keys
  <2> QED BY <2>1 DEF AreClasses
<1>3. firsts \in SUBSET (1..n) /\ firsts = {i \in DOMAIN rows : \A j \in 1..(i - 1) : DedupeKey(rows[j]) # DedupeKey(rows[i])}
  <2>1. \A i \in 1..n : \A j \in 1..(i - 1) : kf[j] = DedupeKey(rows[j]) /\ kf[i] = DedupeKey(rows[i])
    BY <1>1
  <2> QED BY <1>1, <2>1 DEF FirstPlaces
<1>4. \A k \in K : at[k] \in firsts
  <2>1. firsts \in SUBSET (1..n) BY <1>3
  <2> HIDE DEF firsts
  <2> QED BY <2>1, KeptOnce DEF Numbers
<1>5. KeysInOrder(rows, DedupeKey) = keys
  <2> DEFINE some == RowsAt(rows, firsts)
  <2>1. KeysInOrder(rows, DedupeKey) = SeqMap(some, DedupeKey)
    BY <1>3 DEF KeysInOrder
  <2>2. some = [k \in K |-> rows[at[k]]]
    BY KeptAre
  <2>3. keys = [k \in K |-> kf[at[k]]]
    BY DEF KeysOf
  <2>4. SeqMap(some, DedupeKey) = [k \in DOMAIN some |-> DedupeKey(some[k])]
    BY DEF SeqMap
  <2> HIDE DEF some, firsts, keys, K, at
  <2>5. \A k \in K : DedupeKey(some[k]) = kf[at[k]]
    BY <1>1, <1>3, <1>4, <2>2
  <2> QED BY <2>1, <2>2, <2>3, <2>4, <2>5
<1> HIDE DEF parts, keys, K, m, at, firsts
<1>6. DOMAIN keys = K
  BY DEF keys, KeysOf, K, m, firsts
<1>7. list = [q \in K |-> Deduped(WithKey(rows, DedupeKey, keys[q]))]
  BY <1>5, <1>6 DEF DedupeOccurrences, SeqMap
<1>8. \A q \in K : WithKey(rows, DedupeKey, keys[q]) = RowsAt(rows, parts[q])
  <2> SUFFICES ASSUME NEW q \in K PROVE WithKey(rows, DedupeKey, keys[q]) = RowsAt(rows, parts[q])
    OBVIOUS
  <2>1. WithKey(rows, DedupeKey, keys[q]) = RowsAt(rows, {i \in DOMAIN rows : DedupeKey(rows[i]) = keys[q]})
    BY DEF WithKey, Filtered
  <2>2. {i \in DOMAIN rows : DedupeKey(rows[i]) = keys[q]} = parts[q]
    <3> HIDE DEF DedupeKey
    <3>1. \A i \in 1..n : i \in parts[q] <=> DedupeKey(rows[i]) = keys[q] BY <1>1, <1>2
    <3>2. parts[q] \subseteq 1..n BY <1>2
    <3> QED BY <1>1, <3>1, <3>2
  <2> QED BY <2>1, <2>2
<1>9. ASSUME NEW q \in K PROVE Answers(list[q], rows, parts[q])
  <2>1. list[q] = Deduped(RowsAt(rows, parts[q])) BY <1>7, <1>8
  <2>2. \A i, j \in parts[q] : rows[i].text = rows[j].text
    <3>1. \A i \in parts[q] : DedupeKey(rows[i]) = keys[q] BY <1>1, <1>2
    <3> QED BY <3>1 DEF DedupeKey
  <2>3. parts[q] \in SUBSET (1..n) /\ parts[q] # {} BY <1>2
  <2> HIDE DEF list
  <2> QED BY <2>1, <2>2, <2>3, DedupedAnswers
<1>10. DOMAIN list = K /\ list = [q \in K |-> list[q]]
  BY <1>7
<1> HIDE DEF list
<1>11. Stands(list, m, parts, rows, n)
  BY <1>2, <1>9, <1>10 DEF Stands, K
<1> QED BY <1>11 DEF list

\* Some of finitely many rows are in finitely many places.
LEMMA LocationsAreFinite ==
  ASSUME NEW n \in Nat, NEW rows, NEW c \in SUBSET (1..n)
  PROVE  IsFiniteSet(c) /\ IsFiniteSet(LocationsOf(rows, c))
<1> DEFINE I == 1..n
           f == [i \in c |-> Location(rows[i])]
           V == LocationsOf(rows, c)
<1>1. IsFiniteSet(c)
  <2>1. IsFiniteSet(I) /\ c \in SUBSET I BY FS_Interval
  <2> HIDE DEF I
  <2> QED BY <2>1, FS_Subset
<1>2. f \in Surjection(c, V)
  <2>1. V = {f[i] : i \in c} BY DEF LocationsOf
  <2>2. f \in [c -> V] BY <2>1
  <2> HIDE DEF f, V
  <2> QED BY <2>1, <2>2 DEF Surjection
<1> HIDE DEF f
<1> QED BY <1>1, <1>2, FS_Surjection DEF V

\* A list of some things is a list of more things.
LEMMA WiderLists ==
  ASSUME NEW A, NEW B, A \subseteq B, NEW x \in Seq(A)
  PROVE  x \in Seq(B)
<1>1. Len(x) \in Nat /\ x \in [1..Len(x) -> A]
  OBVIOUS
<1>2. x \in [1..Len(x) -> B]
  BY <1>1
<1> QED BY <1>1, <1>2

\* A group answers for all rows its members stand for.
LEMMA GroupedAnswers ==
  ASSUME NEW n \in Nat, NEW rows \in [1..n -> FoundRow],
         NEW list, NEW m, NEW parts, Stands(list, m, parts, rows, n),
         NEW s \in SUBSET (1..m), s # {}, \A k, l \in s : list[k].text = list[l].text
  PROVE  Answers(Grouped(RowsAt(list, s)), rows, Covered(parts, s))
<1> DEFINE same == RowsAt(list, s)
           p == Cardinality(s)
           at == KeptPlaces(s)
           S == {list[k] : k \in 1..m}
           c == Covered(parts, s)
           V == LocationsOf(rows, c)
           moved == [k \in 1..p |-> parts[at[k]]]
           seqs == SeqMap(same, LAMBDA row : row.samples)
           locations == FlattenSeq(seqs)
           o == Grouped(same)
           W == 1..n
           more == {Last(same).file.path}
<1>1. /\ m \in Nat /\ list \in [1..m -> S]
      /\ parts \in [1..m -> SUBSET W] /\ Disjoint(parts, m)
      /\ \A k \in 1..m : Answers(list[k], rows, parts[k])
  BY DEF Stands
<1>2. /\ p \in Nat \ {0} /\ DOMAIN same = 1..p /\ Len(same) = p
      /\ Head(same) = same[1] /\ Last(same) = same[p] /\ 1 \in 1..p /\ p \in 1..p
      /\ \A k \in 1..p : at[k] \in s /\ same[k] = list[at[k]]
      /\ \A i \in s : \E k \in 1..p : at[k] = i
  <2> HIDE DEF S
  <2>1. ArePlaced(same, p, S, list, at, s) BY <1>1, PlacedRows
  <2> HIDE DEF same, p, at
  <2> QED BY <2>1 DEF ArePlaced
<1>3. \A k, l \in 1..p : at[k] = at[l] => k = l
  <2> HIDE DEF W
  <2> QED BY <1>1, KeptOnce DEF Numbers
<1>4. /\ o.text = Head(same).text /\ o.file = Head(same).file
      /\ o.severity = WorstSeverity(same) /\ o.count = CountOf(same)
      /\ o.samples = SampleLocations(locations)
      /\ o.affected = Cardinality(FilesOf(SampleLocations(locations)) \cup more)
  BY DEF Grouped
<1>5. seqs = [k \in 1..p |-> same[k].samples]
  BY <1>2 DEF SeqMap
<1>6. moved = [k \in 1..p |-> parts[at[k]]]
  OBVIOUS
<1> HIDE DEF same, p, at, S, o, seqs, locations, moved, more
<1>7. \A k \in 1..p : at[k] \in 1..m /\ Answers(same[k], rows, moved[k]) /\ moved[k] = parts[at[k]]
  BY <1>1, <1>2, <1>6
<1>8. c \in SUBSET W /\ c # {}
  <2>1. c \subseteq W BY <1>1 DEF Covered
  <2>2. PICK k \in s : TRUE OBVIOUS
  <2>3. parts[k] # {} BY <1>1 DEF Answers
  <2> QED BY <2>1, <2>3 DEF Covered
<1>9. \A k \in 1..p : moved[k] \subseteq c
  <2>1. \A j \in s : parts[j] \subseteq c BY DEF Covered
  <2> HIDE DEF c
  <2> QED BY <1>2, <1>7, <2>1
<1>10. Covered(moved, 1..p) = c
  <2>1. \A k \in 1..p : moved[k] \subseteq c BY <1>9
  <2>2. \A k \in s : \E l \in 1..p : moved[l] = parts[k] BY <1>2, <1>7
  <2> DEFINE K == 1..p
  <2> HIDE DEF K
  <2>3. (\A k \in K : moved[k] \subseteq c) /\ \A k \in s : \E l \in K : moved[l] = parts[k]
    BY <2>1, <2>2 DEF K
  <2>4. Covered(moved, K) = c BY <2>3 DEF Covered
  <2> QED BY <2>4 DEF K
<1>11. Disjoint(moved, p) /\ moved \in [1..p -> SUBSET W]
  <2>1. moved \in [1..p -> SUBSET W]
    <3> HIDE DEF W
    <3> QED BY <1>1, <1>6, <1>7
  <2> SUFFICES ASSUME NEW k \in 1..p, NEW l \in 1..p, k # l PROVE moved[k] \cap moved[l] = {}
    BY <2>1 DEF Disjoint
  <2>2. at[k] \in 1..m /\ at[l] \in 1..m /\ at[k] # at[l] BY <1>3, <1>7
  <2>3. parts[at[k]] \cap parts[at[l]] = {} BY <1>1, <2>2 DEF Disjoint
  <2> QED BY <1>7, <2>3
<1>12. o.count = Cardinality(c)
  <2>1. \A k \in 1..p : same[k].count = Cardinality(moved[k]) BY <1>7 DEF Answers
  <2>2. IsFiniteSet(W) BY FS_Interval
  <2> HIDE DEF W, c
  <2> QED BY <1>2, <1>4, <1>10, <1>11, <2>1, <2>2, PartsAddUp
<1>13. /\ \A k \in 1..p : same[k].severity \in Nat
       /\ WorstSeverity(same) \in Nat
       /\ \E k \in 1..p : WorstSeverity(same) = same[k].severity
       /\ \A k \in 1..p : same[k].severity <= WorstSeverity(same)
  <2>1. \A k \in 1..p : same[k].severity \in Nat BY <1>7 DEF Answers
  <2> QED BY <1>2, <2>1, WorstOf
<1>14. \A i \in c : \E k \in 1..p : i \in moved[k]
  BY <1>10 DEF Covered
<1>15. /\ o.severity \in Nat /\ \E i \in c : o.severity = rows[i].severity
       /\ \A i \in c : rows[i].severity <= o.severity
  <2>1. PICK k \in 1..p : o.severity = same[k].severity BY <1>4, <1>13
  <2>2. PICK i \in moved[k] : same[k].severity = rows[i].severity BY <1>7 DEF Answers
  <2>3. i \in c BY <1>9
  <2>4. ASSUME NEW j \in c PROVE rows[j].severity <= o.severity
    <3>1. PICK l \in 1..p : j \in moved[l] BY <1>14
    <3>2. rows[j].severity <= same[l].severity BY <1>7, <3>1 DEF Answers
    <3>3. same[l].severity <= o.severity BY <1>4, <1>13
    <3>4. rows[j].severity \in Nat
      <4>1. j \in W BY <1>8
      <4>2. rows[j] \in FoundRow BY <4>1
      <4> QED BY <4>2 DEF FoundRow
    <3>5. same[l].severity \in Nat /\ o.severity \in Nat BY <1>4, <1>13
    <3> HIDE DEF c, W
    <3> QED BY <3>2, <3>3, <3>4, <3>5
  <2> HIDE DEF c
  <2> QED BY <1>4, <1>13, <2>1, <2>2, <2>3, <2>4
<1>16. o.text \in Nat /\ \A i \in c : rows[i].text = o.text
  <2>1. o.text = same[1].text BY <1>2, <1>4
  <2>2. ASSUME NEW k \in 1..p PROVE same[k].text = o.text
    <3>1. at[k] \in s /\ at[1] \in s /\ same[k] = list[at[k]] /\ same[1] = list[at[1]] BY <1>2
    <3>2. list[at[k]].text = list[at[1]].text BY <3>1
    <3> QED BY <2>1, <3>1, <3>2
  <2>3. o.text \in Nat BY <1>2, <1>7, <2>1 DEF Answers
  <2>4. \A k \in 1..p : \A i \in moved[k] : rows[i].text = same[k].text BY <1>7 DEF Answers
  <2> HIDE DEF c
  <2> QED BY <1>14, <2>2, <2>3, <2>4
<1>17. \A k \in 1..p : /\ PathsOf(rows, moved[k]) \subseteq PathsOf(rows, c)
                       /\ LocationsOf(rows, moved[k]) \subseteq V
  BY <1>9 DEF PathsOf, LocationsOf
<1>18. \A k \in 1..p : same[k].file.path \in PathsOf(rows, c)
  <2> HIDE DEF c
  <2> QED BY <1>7, <1>17 DEF Answers
<1>19. o.file.path \in PathsOf(rows, c) /\ more \in SUBSET PathsOf(rows, c)
  <2>1. o.file = same[1].file BY <1>2, <1>4
  <2>2. more = {same[p].file.path} BY <1>2 DEF more
  <2> HIDE DEF c
  <2> QED BY <1>2, <1>18, <2>1, <2>2
<1>20. ASSUME NEW k \in 1..p PROVE seqs[k] \in Seq(V)
  <2>1. seqs[k] = same[k].samples BY <1>5
  <2>2. same[k].samples \in Seq(LocationsOf(rows, moved[k])) BY <1>7 DEF Answers
  <2>3. LocationsOf(rows, moved[k]) \subseteq V BY <1>17
  <2> HIDE DEF V
  <2> QED BY <2>1, <2>2, <2>3, WiderLists
<1>21. /\ locations \in Seq(V)
       /\ ToSet(locations) = UNION {ToSet(seqs[k]) : k \in 1..p}
  <2>1. seqs \in [1..p -> Seq(V)]
    <3> HIDE DEF V
    <3> QED BY <1>5, <1>20
  <2> HIDE DEF V
  <2> QED BY <1>2, <2>1, FlattenedAre DEF locations
<1>22. Cardinality(V) <= MaxSamples => ToSet(locations) = V
  <2> SUFFICES ASSUME Cardinality(V) <= MaxSamples PROVE ToSet(locations) = V
    OBVIOUS
  <2>1. IsFiniteSet(V)
    <3> HIDE DEF W, c
    <3> QED BY <1>8, LocationsAreFinite DEF W
  <2>2. ASSUME NEW k \in 1..p PROVE ToSet(seqs[k]) = LocationsOf(rows, moved[k])
    <3> DEFINE U == LocationsOf(rows, moved[k])
    <3>1. U \in SUBSET V BY <1>17
    <3>2. Cardinality(U) \in Nat /\ Cardinality(V) \in Nat /\ Cardinality(U) <= Cardinality(V)
      <4> HIDE DEF U, V
      <4> QED BY <2>1, <3>1, FS_Subset, FS_CardinalityType
    <3>3. Cardinality(U) <= MaxSamples
      <4> HIDE DEF U, V
      <4> QED BY <2>2, <3>2 DEF MaxSamples
    <3>4. Cardinality(U) <= MaxSamples => ToSet(same[k].samples) = U
      <4> HIDE DEF V, c
      <4> QED BY <1>7 DEF Answers
    <3> QED BY <1>5, <3>3, <3>4
  <2>3. ToSet(locations) \subseteq V
    <3> HIDE DEF V
    <3> QED BY <1>21 DEF ToSet
  <2>4. ASSUME NEW v \in V PROVE v \in ToSet(locations)
    <3>1. PICK i \in c : v = Location(rows[i]) BY DEF LocationsOf
    <3>2. PICK k \in 1..p : i \in moved[k] BY <1>14
    <3>3. v \in LocationsOf(rows, moved[k]) BY <3>1, <3>2 DEF LocationsOf
    <3>4. v \in ToSet(seqs[k]) BY <2>2, <3>3
    <3> HIDE DEF V
    <3> QED BY <1>21, <3>4
  <2> QED BY <2>3, <2>4
<1>23. LET samples == SampleLocations(locations)
           affected == Cardinality(FilesOf(samples) \cup more)
       IN /\ samples \in Seq(V)
          /\ Cardinality(V) <= MaxSamples => ToSet(samples) = V
          /\ affected \in Nat /\ affected <= Cardinality(PathsOf(rows, c))
          /\ Cardinality(V) <= MaxSamples => affected = Cardinality(PathsOf(rows, c))
  <2> HIDE DEF c
  <2> QED BY <1>8, <1>19, <1>21, <1>22, SamplesTell
<1>24. /\ o.samples \in Seq(V)
       /\ Cardinality(V) <= MaxSamples => ToSet(o.samples) = V
       /\ o.affected \in Nat /\ o.affected <= Cardinality(PathsOf(rows, c))
       /\ Cardinality(V) <= MaxSamples => o.affected = Cardinality(PathsOf(rows, c))
  <2> HIDE DEF V
  <2> QED BY <1>4, <1>23
<1>25. o.count = Cardinality(c) /\ c # {} /\ o.file.path \in PathsOf(rows, c)
  BY <1>8, <1>12, <1>19
<1> HIDE DEF c
<1> QED BY <1>15, <1>16, <1>24, <1>25 DEF Answers, V, o, same, c

\* Without a filter everything is shown.
IsOpen(options) ==
  /\ options.severity = 0 /\ options.types = {} /\ ~options.critical
  /\ options.files = {} /\ options.search = {}

\* What GroupRows shows of the list without duplicates.
AllShown(list, options) == Filtered(list, LAMBDA row : Matches(row, options))

\* What is shown then stands for the same rows.
LEMMA ShownStands ==
  ASSUME NEW n \in Nat, NEW rows \in [1..n -> FoundRow],
         NEW list, NEW m, NEW parts, Stands(list, m, parts, rows, n), NEW options, IsOpen(options)
  PROVE  \E moved : Stands(AllShown(list, options), m, moved, rows, n)
<1> DEFINE K == 1..m
           at == KeptPlaces(K)
           shown == AllShown(list, options)
<1>1. m \in Nat /\ DOMAIN list = K
  BY DEF Stands
<1>2. {k \in DOMAIN list : Matches(list[k], options)} = K
  BY <1>1 DEF Matches, IsOpen
<1>3. shown = RowsAt(list, K)
  BY <1>2 DEF Filtered, AllShown
<1>4. Cardinality(K) = m
  BY <1>1, FS_Interval
<1>5. Numbers(at, m, K)
  <2>1. K \in SUBSET (1..m) OBVIOUS
  <2> HIDE DEF K
  <2>2. Numbers(at, Cardinality(K), K) BY <1>1, <2>1, KeptOnce
  <2> QED BY <1>4, <2>2
<1>6. shown = [k \in 1..m |-> list[at[k]]]
  <2>1. RowsAt(list, K) = [k \in 1..Cardinality(K) |-> list[at[k]]] BY KeptAre
  <2> QED BY <1>3, <1>4, <2>1
<1> HIDE DEF at, shown
<1>7. Stands([k \in 1..m |-> list[at[k]]], m, [k \in 1..m |-> parts[at[k]]], rows, n)
  BY <1>5, RearrangedStands
<1> QED BY <1>6, <1>7 DEF shown

\* Rows without duplicates, brought together by their text.
ByText(list, m, parts, rows, n) ==
  \A k \in 1..m : \A i \in 1..n : rows[i].text = list[k].text => i \in parts[k]
\* What GroupRows makes of it when duplicates are hidden.
GroupsShown(shown) == SeqMap(KeysInOrder(shown, Text), LAMBDA text : Grouped(WithKey(shown, Text, text)))

\* The groups stand for each row once, each of them for all rows of its text.
LEMMA GroupsStand ==
  ASSUME NEW n \in Nat, NEW rows \in [1..n -> FoundRow],
         NEW shown, NEW m, NEW parts, Stands(shown, m, parts, rows, n)
  PROVE  \E p, whole : /\ Stands(GroupsShown(shown), p, whole, rows, n)
                       /\ ByText(GroupsShown(shown), p, whole, rows, n)
<1> DEFINE kf == [k \in 1..m |-> Text(shown[k])]
           firsts == FirstPlaces(m, kf)
           p == Cardinality(firsts)
           classes == ClassesOf(m, kf)
           at == KeptPlaces(firsts)
           keys == KeysOf(m, kf)
           list == GroupsShown(shown)
           Q == 1..p
           K == 1..m
           whole == [q \in Q |-> Covered(parts, classes[q])]
<1>1. /\ m \in Nat /\ DOMAIN shown = K
      /\ parts \in [K -> SUBSET (1..n)] /\ Disjoint(parts, m) /\ Covered(parts, K) = 1..n
      /\ \A k \in K : Answers(shown[k], rows, parts[k])
  BY DEF Stands
<1>2. \A k \in K : kf[k] = Text(shown[k])
  OBVIOUS
<1> HIDE DEF kf
<1>3. /\ p \in Nat /\ classes \in [Q -> SUBSET K] /\ Disjoint(classes, p)
      /\ Covered(classes, Q) = K
      /\ \A q \in Q : classes[q] # {}
      /\ \A q \in Q : \A i \in K : i \in classes[q] <=> kf[i] = keys[q]
  <2>1. AreClasses(classes, p, m, kf, keys) BY <1>1, ClassesCover
  <2> HIDE DEF classes, p, keys
  <2> QED BY <2>1 DEF AreClasses
<1>4. firsts \in SUBSET K /\ firsts = {i \in DOMAIN shown : \A j \in 1..(i - 1) : Text(shown[j]) # Text(shown[i])}
  <2>1. \A i \in K : \A j \in 1..(i - 1) : kf[j] = Text(shown[j]) /\ kf[i] = Text(shown[i])
    BY <1>1, <1>2
  <2> QED BY <1>1, <2>1 DEF FirstPlaces
<1>5. \A k \in Q : at[k] \in firsts
  <2>1. firsts \in SUBSET (1..m) /\ m \in Nat BY <1>1, <1>4
  <2> HIDE DEF firsts
  <2> QED BY <2>1, KeptOnce DEF Numbers
<1>6. KeysInOrder(shown, Text) = keys
  <2> DEFINE some == RowsAt(shown, firsts)
  <2>1. KeysInOrder(shown, Text) = SeqMap(some, Text)
    BY <1>4 DEF KeysInOrder
  <2>2. some = [k \in Q |-> shown[at[k]]]
    BY KeptAre
  <2>3. keys = [k \in Q |-> kf[at[k]]]
    BY DEF KeysOf
  <2>4. SeqMap(some, Text) = [k \in DOMAIN some |-> Text(some[k])]
    BY DEF SeqMap
  <2> HIDE DEF some, firsts, keys, Q, at
  <2>5. \A k \in Q : Text(some[k]) = kf[at[k]]
    BY <1>2, <1>4, <1>5, <2>2
  <2> QED BY <2>1, <2>2, <2>3, <2>4, <2>5
<1> HIDE DEF classes, keys, Q, p, at, firsts
<1>7. DOMAIN keys = Q
  BY DEF keys, KeysOf, Q, p, firsts
<1>8. list = [q \in Q |-> Grouped(WithKey(shown, Text, keys[q]))]
  BY <1>6, <1>7 DEF GroupsShown, SeqMap
<1>9. ASSUME NEW q \in Q PROVE WithKey(shown, Text, keys[q]) = RowsAt(shown, classes[q])
  <2>1. WithKey(shown, Text, keys[q]) = RowsAt(shown, {i \in DOMAIN shown : Text(shown[i]) = keys[q]})
    BY DEF WithKey, Filtered
  <2>2. {i \in DOMAIN shown : Text(shown[i]) = keys[q]} = classes[q]
    <3> HIDE DEF K
    <3>1. \A i \in K : i \in classes[q] <=> Text(shown[i]) = keys[q] BY <1>2, <1>3
    <3>2. classes[q] \subseteq K BY <1>3
    <3> QED BY <1>1, <3>1, <3>2
  <2> QED BY <2>1, <2>2
<1>10. ASSUME NEW q \in Q PROVE Answers(list[q], rows, Covered(parts, classes[q]))
  <2>1. list[q] = Grouped(RowsAt(shown, classes[q])) BY <1>8, <1>9
  <2>2. \A i, j \in classes[q] : shown[i].text = shown[j].text
    <3>1. \A i \in classes[q] : Text(shown[i]) = keys[q]
      <4> HIDE DEF K
      <4> QED BY <1>2, <1>3
    <3> QED BY <3>1 DEF Text
  <2>3. classes[q] \in SUBSET (1..m) /\ classes[q] # {} BY <1>3
  <2> HIDE DEF list
  <2> QED BY <2>1, <2>2, <2>3, GroupedAnswers
<1>11. DOMAIN list = Q /\ list = [q \in Q |-> list[q]] /\ \A q \in Q : whole[q] = Covered(parts, classes[q])
  BY <1>8
<1>12. whole \in [Q -> SUBSET (1..n)]
  <2>1. \A q \in Q : Covered(parts, classes[q]) \subseteq 1..n
    <3> HIDE DEF K
    <3> QED BY <1>1, <1>3 DEF Covered
  <2> QED BY <2>1
<1> HIDE DEF list, whole, K
<1>13. Disjoint(whole, p)
  <2> SUFFICES ASSUME NEW q \in 1..p, NEW r \in 1..p, NEW i \in whole[q], i \in whole[r] PROVE q = r
    BY DEF Disjoint
  <2>1. q \in Q /\ r \in Q BY DEF Q
  <2>2. PICK k \in classes[q] : i \in parts[k] BY <1>11, <2>1 DEF Covered
  <2>3. PICK l \in classes[r] : i \in parts[l] BY <1>11, <2>1 DEF Covered
  <2>4. k \in K /\ l \in K BY <1>3, <2>1
  <2>5. k = l BY <1>1, <2>2, <2>3, <2>4 DEF Disjoint, K
  <2> QED BY <1>3, <2>5 DEF Disjoint
<1>14. Covered(whole, Q) = 1..n
  <2> DEFINE W == 1..n
  <2>1. whole \in [Q -> SUBSET W] /\ Covered(parts, K) = W BY <1>1, <1>12
  <2> HIDE DEF W
  <2>2. ASSUME NEW i \in W PROVE \E q \in Q : i \in whole[q]
    <3>1. PICK k \in K : i \in parts[k] BY <2>1 DEF Covered
    <3>2. PICK q \in Q : k \in classes[q] BY <1>3 DEF Covered
    <3> QED BY <1>11, <3>1, <3>2 DEF Covered
  <2>3. Covered(whole, Q) = W BY <2>1, <2>2 DEF Covered
  <2> QED BY <2>3 DEF W
<1>15. Stands(list, p, whole, rows, n)
  BY <1>3, <1>10, <1>11, <1>12, <1>13, <1>14 DEF Stands, Q
<1>16. ByText(list, p, whole, rows, n)
  <2> SUFFICES ASSUME NEW q \in Q, NEW i \in 1..n, rows[i].text = list[q].text PROVE i \in whole[q]
    BY DEF ByText, Q
  <2>1. PICK k \in K : i \in parts[k] BY <1>1 DEF Covered
  <2>2. shown[k].text = rows[i].text BY <1>1, <2>1 DEF Answers
  <2>3. whole[q] # {} /\ \A j \in whole[q] : rows[j].text = list[q].text BY <1>10, <1>11 DEF Answers
  <2>4. PICK j \in whole[q] : TRUE BY <2>3
  <2>5. PICK l \in classes[q] : j \in parts[l] BY <1>11 DEF Covered
  <2>6. l \in K BY <1>3
  <2>7. shown[l].text = rows[j].text BY <1>1, <2>5, <2>6 DEF Answers
  <2>8. kf[l] = shown[l].text /\ kf[k] = shown[k].text BY <1>2, <2>6 DEF Text
  <2>9. kf[l] = keys[q] BY <1>3, <2>6
  <2>10. kf[k] = keys[q] BY <2>2, <2>3, <2>7, <2>8, <2>9
  <2>11. k \in classes[q] BY <1>3, <2>10
  <2> QED BY <1>11, <2>1, <2>11 DEF Covered
<1> QED BY <1>15, <1>16 DEF list

\* The numbers of a summary are numbers.
LEMMA AnswersAreNumbers ==
  ASSUME NEW n \in Nat, NEW rows, NEW list, NEW m, NEW parts, Stands(list, m, parts, rows, n)
  PROVE  /\ m \in Nat
         /\ \A k \in 1..m : /\ list[k].severity \in Nat /\ list[k].count \in Nat
                            /\ list[k].affected \in Nat /\ list[k].text \in Nat
<1>1. /\ m \in Nat /\ parts \in [1..m -> SUBSET (1..n)]
      /\ \A k \in 1..m : Answers(list[k], rows, parts[k])
  BY DEF Stands
<1>2. ASSUME NEW k \in 1..m PROVE list[k].count \in Nat
  <2>1. parts[k] \in SUBSET (1..n) BY <1>1
  <2>2. IsFiniteSet(parts[k]) BY <2>1, LocationsAreFinite
  <2>3. Cardinality(parts[k]) \in Nat BY <2>2, FS_CardinalityType
  <2>4. list[k].count = Cardinality(parts[k]) BY <1>1 DEF Answers
  <2> QED BY <2>3, <2>4
<1> QED BY <1>1, <1>2 DEF Answers

\* What WorstFirst and WorstGroupFirst compare.
LEMMA TitlesAreNumbers == \A text \in Nat : TitleOf(text) \in Int
BY DEF TitleOf

RowRanks(list, m) == [k \in 1..m |-> <<-list[k].severity, -list[k].count, TitleOf(list[k].text), 0>>]
GroupRanks(list, m) == [k \in 1..m |-> <<-list[k].severity, -list[k].count, -list[k].affected, TitleOf(list[k].text)>>]

\* Sorted by them, a list is rearranged as SortingNumbers says.
LEMMA RowsAreSorted ==
  ASSUME NEW n \in Nat, NEW rows, NEW list, NEW m, NEW parts, Stands(list, m, parts, rows, n)
  PROVE  /\ RowRanks(list, m) \in [1..m -> Ranks]
         /\ Sorted(list, WorstFirst) = [k \in 1..m |-> list[SortedPlaces(m, RowRanks(list, m))[k]]]
<1> DEFINE rank == RowRanks(list, m)
           b == AheadOf(m, rank)
           at == SortedPlaces(m, rank)
           K == 1..m
           ahead(i) == {j \in K : WorstFirst(list[j], list[i]) \/ (j < i /\ ~WorstFirst(list[i], list[j]))}
<1>1. /\ DOMAIN list = K /\ m \in Nat
      /\ \A k \in K : /\ list[k].severity \in Nat /\ list[k].count \in Nat
                      /\ list[k].affected \in Nat /\ list[k].text \in Nat
  BY AnswersAreNumbers DEF Stands
<1>2. \A k \in K : rank[k] = <<-list[k].severity, -list[k].count, TitleOf(list[k].text), 0>>
  BY DEF RowRanks
<1>3. rank \in [K -> Ranks] /\ \A k \in K : rank[k] \in Ranks
  <2>1. \A k \in K : <<-list[k].severity, -list[k].count, TitleOf(list[k].text), 0>> \in Ranks
    <3> SUFFICES ASSUME NEW k \in K PROVE <<-list[k].severity, -list[k].count, TitleOf(list[k].text), 0>> \in Ranks
      OBVIOUS
    <3>1. -list[k].severity \in Int /\ -list[k].count \in Int /\ TitleOf(list[k].text) \in Int
      BY <1>1, TitlesAreNumbers
    <3> QED BY <3>1 DEF Ranks
  <2> HIDE DEF Ranks
  <2> QED BY <2>1 DEF RowRanks
<1> HIDE DEF rank
<1>4. ASSUME NEW i \in K, NEW j \in K PROVE WorstFirst(list[j], list[i]) <=> Precedes(rank[j], rank[i])
  <2> DEFINE x == list[j]
             y == list[i]
             t == << <<-x.severity, -y.severity>>, <<-x.count, -y.count>>, <<TitleOf(x.text), TitleOf(y.text)>> >>
             A == rank[j]
             B == rank[i]
  <2>1. A = <<-x.severity, -x.count, TitleOf(x.text), 0>> /\ B = <<-y.severity, -y.count, TitleOf(y.text), 0>>
    BY <1>2
  <2>2. A \in Ranks /\ B \in Ranks BY <1>3
  <2>3. x = y => A = B BY <2>1
  <2>4. DOMAIN t = 1..3 /\ \A k \in 1..3 : t[k][1] = A[k] /\ t[k][2] = B[k]
    BY <2>1
  <2>5. \A k \in 1..4 : k > 3 => A[k] = B[k]
    BY <2>1
  <2>6. WorstFirst(x, y) <=> Before(t, x, y)
    BY DEF WorstFirst
  <2> HIDE DEF x, y, t, A, B
  <2>7. Before(t, x, y) <=> Precedes(A, B)
    BY <2>2, <2>3, <2>4, <2>5, TuplesDecide
  <2> QED BY <2>6, <2>7 DEF x, y, A, B
<1>5. \A i \in K : b[i] = ahead(i)
  <2>1. \A i \in K : b[i] = {j \in K : Precedes(rank[j], rank[i]) \/ (j < i /\ ~Precedes(rank[i], rank[j]))}
    BY DEF AheadOf
  <2> SUFFICES ASSUME NEW i \in K PROVE b[i] = ahead(i)
    OBVIOUS
  <2> HIDE DEF b, K
  <2> QED BY <1>4, <2>1, Zenon
<1>6. Sorted(list, WorstFirst) =
        [k \in K |-> list[CHOOSE i \in K : Cardinality(ahead(i)) = k - 1]]
  BY <1>1 DEF Sorted
<1>7. \A k \in K : at[k] = CHOOSE i \in K : Cardinality(b[i]) = k - 1
  <2>1. at = PlacesOf(b, m) BY DEF SortedPlaces
  <2> HIDE DEF at, b
  <2>2. at = [k \in K |-> CHOOSE i \in K : Cardinality(b[i]) = k - 1] BY <2>1 DEF PlacesOf
  <2> QED BY <2>2
<1> HIDE DEF ahead, at, b
<1>8. \A k \in K : (CHOOSE i \in K : Cardinality(ahead(i)) = k - 1) = at[k]
  BY <1>5, <1>7
<1>9. Sorted(list, WorstFirst) = [k \in K |-> list[at[k]]]
  BY <1>6, <1>8
<1> QED BY <1>3, <1>9 DEF rank, at

\* The same for groups, which have one more rank.
LEMMA GroupsAreSorted ==
  ASSUME NEW n \in Nat, NEW rows, NEW list, NEW m, NEW parts, Stands(list, m, parts, rows, n)
  PROVE  /\ GroupRanks(list, m) \in [1..m -> Ranks]
         /\ Sorted(list, WorstGroupFirst) = [k \in 1..m |-> list[SortedPlaces(m, GroupRanks(list, m))[k]]]
<1> DEFINE rank == GroupRanks(list, m)
           b == AheadOf(m, rank)
           at == SortedPlaces(m, rank)
           K == 1..m
           ahead(i) == {j \in K : WorstGroupFirst(list[j], list[i]) \/ (j < i /\ ~WorstGroupFirst(list[i], list[j]))}
<1>1. /\ DOMAIN list = K /\ m \in Nat
      /\ \A k \in K : /\ list[k].severity \in Nat /\ list[k].count \in Nat
                      /\ list[k].affected \in Nat /\ list[k].text \in Nat
  BY AnswersAreNumbers DEF Stands
<1>2. \A k \in K : rank[k] = <<-list[k].severity, -list[k].count, -list[k].affected, TitleOf(list[k].text)>>
  BY DEF GroupRanks
<1>3. rank \in [K -> Ranks] /\ \A k \in K : rank[k] \in Ranks
  <2>1. \A k \in K : <<-list[k].severity, -list[k].count, -list[k].affected, TitleOf(list[k].text)>> \in Ranks
    <3> SUFFICES ASSUME NEW k \in K
                 PROVE  <<-list[k].severity, -list[k].count, -list[k].affected, TitleOf(list[k].text)>> \in Ranks
      OBVIOUS
    <3>1. -list[k].severity \in Int /\ -list[k].count \in Int /\ -list[k].affected \in Int
      BY <1>1
    <3>2. TitleOf(list[k].text) \in Int
      BY <1>1, TitlesAreNumbers
    <3> QED BY <3>1, <3>2 DEF Ranks
  <2> DEFINE of(k) == <<-list[k].severity, -list[k].count, -list[k].affected, TitleOf(list[k].text)>>
  <2>2. rank = [k \in K |-> of(k)] BY DEF GroupRanks
  <2>3. \A k \in K : of(k) \in Ranks BY <2>1
  <2> HIDE DEF of, rank
  <2> QED BY <2>2, <2>3
<1> HIDE DEF rank
<1>4. ASSUME NEW i \in K, NEW j \in K PROVE WorstGroupFirst(list[j], list[i]) <=> Precedes(rank[j], rank[i])
  <2> DEFINE x == list[j]
             y == list[i]
             t == << <<-x.severity, -y.severity>>, <<-x.count, -y.count>>,
                     <<-x.affected, -y.affected>>, <<TitleOf(x.text), TitleOf(y.text)>> >>
             A == rank[j]
             B == rank[i]
  <2>1. A = <<-x.severity, -x.count, -x.affected, TitleOf(x.text)>> /\ B = <<-y.severity, -y.count, -y.affected, TitleOf(y.text)>>
    BY <1>2
  <2>2. A \in Ranks /\ B \in Ranks BY <1>3
  <2>3. x = y => A = B BY <2>1
  <2>4. DOMAIN t = 1..4 /\ \A k \in 1..4 : t[k][1] = A[k] /\ t[k][2] = B[k]
    BY <2>1
  <2>5. \A k \in 1..4 : k > 4 => A[k] = B[k]
    OBVIOUS
  <2>6. WorstGroupFirst(x, y) <=> Before(t, x, y)
    BY DEF WorstGroupFirst
  <2> HIDE DEF x, y, t, A, B
  <2>7. Before(t, x, y) <=> Precedes(A, B)
    BY <2>2, <2>3, <2>4, <2>5, TuplesDecide
  <2> QED BY <2>6, <2>7 DEF x, y, A, B
<1>5. \A i \in K : b[i] = ahead(i)
  <2>1. \A i \in K : b[i] = {j \in K : Precedes(rank[j], rank[i]) \/ (j < i /\ ~Precedes(rank[i], rank[j]))}
    BY DEF AheadOf
  <2> SUFFICES ASSUME NEW i \in K PROVE b[i] = ahead(i)
    OBVIOUS
  <2> HIDE DEF b, K
  <2> QED BY <1>4, <2>1, Zenon
<1>6. Sorted(list, WorstGroupFirst) =
        [k \in K |-> list[CHOOSE i \in K : Cardinality(ahead(i)) = k - 1]]
  BY <1>1 DEF Sorted
<1>7. \A k \in K : at[k] = CHOOSE i \in K : Cardinality(b[i]) = k - 1
  <2>1. at = PlacesOf(b, m) BY DEF SortedPlaces
  <2> HIDE DEF at, b
  <2>2. at = [k \in K |-> CHOOSE i \in K : Cardinality(b[i]) = k - 1] BY <2>1 DEF PlacesOf
  <2> QED BY <2>2
<1> HIDE DEF ahead, at, b
<1>8. \A k \in K : (CHOOSE i \in K : Cardinality(ahead(i)) = k - 1) = at[k]
  BY <1>5, <1>7
<1>9. Sorted(list, WorstGroupFirst) = [k \in K |-> list[at[k]]]
  BY <1>6, <1>8
<1> QED BY <1>3, <1>9 DEF rank, at

\* What is shown when duplicates are hidden: groups, the worst of them first.
LEMMA HiddenDuplicates ==
  ASSUME NEW n \in Nat, NEW rows \in [1..n -> FoundRow], NEW options, IsOpen(options), options.hideDuplicates
  PROVE  \E m, parts : /\ Stands(GroupRows(rows, options), m, parts, rows, n)
                       /\ ByText(GroupRows(rows, options), m, parts, rows, n)
                       /\ \A k \in 1..m : GroupRows(rows, options)[k].severity <= GroupRows(rows, options)[1].severity
<1> DEFINE shown == AllShown(DedupeOccurrences(rows), options)
           list == GroupsShown(shown)
           out == GroupRows(rows, options)
<1>1. out = Sorted(list, WorstGroupFirst)
  BY DEF GroupRows, GroupsShown, AllShown
<1>2. PICK l, few : Stands(shown, l, few, rows, n)
  <2>1. PICK k, some : Stands(DedupeOccurrences(rows), k, some, rows, n) BY DedupeStands
  <2> QED BY <2>1, ShownStands
<1> HIDE DEF shown
<1>3. PICK m, parts : Stands(list, m, parts, rows, n) /\ ByText(list, m, parts, rows, n)
  BY <1>2, GroupsStand
<1> HIDE DEF list, out
<1> DEFINE rank == GroupRanks(list, m)
           at == SortedPlaces(m, rank)
           new == [k \in 1..m |-> list[at[k]]]
           moved == [k \in 1..m |-> parts[at[k]]]
<1>4. m \in Nat /\ rank \in [1..m -> Ranks] /\ out = new
      /\ \A k \in 1..m : list[k].severity \in Nat
  <2>1. m \in Nat /\ \A k \in 1..m : list[k].severity \in Nat
    BY <1>3, AnswersAreNumbers
  <2>2. rank \in [1..m -> Ranks] /\ Sorted(list, WorstGroupFirst) = new
    BY <1>3, GroupsAreSorted
  <2> HIDE DEF rank, new
  <2> QED BY <1>1, <2>1, <2>2
<1>5. \A k \in 1..m : rank[k] = <<-list[k].severity, -list[k].count, -list[k].affected, TitleOf(list[k].text)>>
  BY DEF GroupRanks
<1> HIDE DEF rank
<1>6. Numbers(at, m, 1..m) /\ (m # 0 => \A j \in 1..m : ~Precedes(rank[j], rank[at[1]]))
  BY <1>4, SortingNumbers
<1> HIDE DEF at
<1>7. Stands(new, m, moved, rows, n)
  BY <1>3, <1>6, RearrangedStands
<1>8. \A k \in 1..m : at[k] \in 1..m
  BY <1>6 DEF Numbers
<1>9. \A k \in 1..m : new[k] = list[at[k]] /\ moved[k] = parts[at[k]]
  OBVIOUS
<1> HIDE DEF new, moved
<1>10. ByText(new, m, moved, rows, n)
  BY <1>3, <1>8, <1>9 DEF ByText
<1>11. ASSUME NEW k \in 1..m PROVE new[k].severity <= new[1].severity
  <2>1. m # 0 /\ 1 \in 1..m BY <1>4
  <2>2. at[k] \in 1..m /\ at[1] \in 1..m BY <1>8, <2>1
  <2>3. ~Precedes(rank[at[k]], rank[at[1]]) BY <1>6, <2>1, <2>2
  <2> DEFINE x == list[at[k]].severity
             y == list[at[1]].severity
  <2>4. x \in Nat /\ y \in Nat /\ rank[at[k]][1] = -x /\ rank[at[1]][1] = -y BY <1>4, <1>5, <2>2
  <2>5. new[k].severity = x /\ new[1].severity = y BY <1>9, <2>1
  <2> HIDE DEF x, y
  <2>6. ~(-x < -y) BY <2>3, <2>4 DEF Precedes
  <2>7. x <= y BY <2>4, <2>6
  <2> QED BY <2>5, <2>7
<1> QED BY <1>4, <1>7, <1>10, <1>11 DEF out

\* What is shown when they are not: each entry by itself.
LEMMA ShownDuplicates ==
  ASSUME NEW n \in Nat, NEW rows \in [1..n -> FoundRow], NEW options, IsOpen(options), ~options.hideDuplicates
  PROVE  \E m, parts : Stands(GroupRows(rows, options), m, parts, rows, n)
<1> DEFINE list == AllShown(DedupeOccurrences(rows), options)
           out == GroupRows(rows, options)
<1>1. out = Sorted(list, WorstFirst)
  BY DEF GroupRows, AllShown
<1>2. PICK m, parts : Stands(list, m, parts, rows, n)
  <2>1. PICK k, some : Stands(DedupeOccurrences(rows), k, some, rows, n) BY DedupeStands
  <2> QED BY <2>1, ShownStands
<1> HIDE DEF list, out
<1> DEFINE rank == RowRanks(list, m)
           at == SortedPlaces(m, rank)
           new == [k \in 1..m |-> list[at[k]]]
           moved == [k \in 1..m |-> parts[at[k]]]
<1>3. m \in Nat /\ rank \in [1..m -> Ranks] /\ out = new
  <2>1. m \in Nat
    BY <1>2, AnswersAreNumbers
  <2>2. rank \in [1..m -> Ranks] /\ Sorted(list, WorstFirst) = new
    BY <1>2, RowsAreSorted
  <2> HIDE DEF rank, new
  <2> QED BY <1>1, <2>1, <2>2
<1> HIDE DEF rank
<1>4. Numbers(at, m, 1..m)
  BY <1>3, SortingNumbers
<1> HIDE DEF at
<1>5. Stands(new, m, moved, rows, n)
  BY <1>2, <1>4, RearrangedStands
<1> HIDE DEF new, moved
<1> QED BY <1>3, <1>5 DEF out

\* The counts of a list that stands for n rows add up to n.
LEMMA CountsOfRows ==
  ASSUME NEW n \in Nat, NEW rows, NEW list, NEW m, NEW parts, Stands(list, m, parts, rows, n)
  PROVE  CountOf(list) = n
<1> DEFINE W == 1..n
<1>1. /\ m \in Nat /\ DOMAIN list = 1..m /\ parts \in [1..m -> SUBSET W] /\ Disjoint(parts, m)
      /\ Covered(parts, 1..m) = W /\ \A k \in 1..m : list[k].count = Cardinality(parts[k])
  BY DEF Stands, Answers
<1>2. IsFiniteSet(W) /\ Cardinality(W) = n
  BY FS_Interval
<1> HIDE DEF W
<1>3. CountOf(list) = Cardinality(Covered(parts, 1..m))
  BY <1>1, <1>2, PartsAddUp
<1> QED BY <1>1, <1>2, <1>3

\* The parts of GroupsAnswerForTheirRows, one by one.
LEMMA NothingLost ==
  ASSUME NEW rows \in Seq(FoundRow)
  PROVE  NothingIsLost(rows)
<1> DEFINE n == Len(rows)
<1>1. n \in Nat /\ rows \in [1..n -> FoundRow]
  OBVIOUS
<1> HIDE DEF n
<1> SUFFICES ASSUME NEW hide \in BOOLEAN
             PROVE  CountOf(GroupRows(rows, [NoFilter EXCEPT !.hideDuplicates = hide])) = n
  BY DEF NothingIsLost, n
<1> DEFINE options == [NoFilter EXCEPT !.hideDuplicates = hide]
<1>2. IsOpen(options) /\ options.hideDuplicates = hide
  BY DEF NoFilter, IsOpen
<1> HIDE DEF options
<1>3. \E m, parts : Stands(GroupRows(rows, options), m, parts, rows, n)
  BY <1>1, <1>2, HiddenDuplicates, ShownDuplicates
<1>4. CountOf(GroupRows(rows, options)) = n
  BY <1>1, <1>3, CountsOfRows
<1> QED BY <1>4 DEF options

\* The first group has the worst severity there is.
LEMMA WorstComesFirst ==
  ASSUME NEW rows \in Seq(FoundRow)
  PROVE  WorstIsFirst(rows)
<1> DEFINE n == Len(rows)
           out == GroupRows(rows, NoFilter)
           T == {row.severity : row \in ToSet(rows)}
<1>1. n \in Nat /\ rows \in [1..n -> FoundRow] /\ DOMAIN rows = 1..n
  OBVIOUS
<1>2. IsOpen(NoFilter) /\ NoFilter.hideDuplicates
  BY DEF NoFilter, IsOpen
<1> HIDE DEF n
<1>3. PICK m, parts : /\ Stands(out, m, parts, rows, n)
                      /\ \A k \in 1..m : out[k].severity <= out[1].severity
  BY <1>1, <1>2, HiddenDuplicates
<1> HIDE DEF out
<1> SUFFICES ASSUME rows # <<>> PROVE Head(out).severity = Max(T)
  BY DEF WorstIsFirst, out
<1>4. n # 0
  BY DEF n
<1>5. T = {rows[i].severity : i \in 1..n}
  BY <1>1 DEF ToSet
<1> HIDE DEF T
<1>6. /\ m \in Nat /\ DOMAIN out = 1..m /\ out = [k \in 1..m |-> out[k]]
      /\ parts \in [1..m -> SUBSET (1..n)] /\ Covered(parts, 1..m) = 1..n
      /\ \A k \in 1..m : Answers(out[k], rows, parts[k])
  BY <1>3 DEF Stands
<1>7. ASSUME NEW i \in 1..n PROVE rows[i].severity \in Nat /\ rows[i].severity <= out[1].severity /\ m # 0
  <2>1. PICK k \in 1..m : i \in parts[k] BY <1>6 DEF Covered
  <2>2. rows[i] \in FoundRow BY <1>1
  <2>3. rows[i].severity \in Nat BY <2>2 DEF FoundRow
  <2>4. rows[i].severity <= out[k].severity /\ out[k].severity \in Nat BY <1>6, <2>1 DEF Answers
  <2>5. m # 0 /\ 1 \in 1..m BY <1>6
  <2>6. out[1].severity \in Nat BY <1>6, <2>5 DEF Answers
  <2>7. out[k].severity <= out[1].severity BY <1>3
  <2> QED BY <2>3, <2>4, <2>5, <2>6, <2>7
<1>8. m # 0 /\ 1 \in 1..m
  <2>1. 1 \in 1..n BY <1>1, <1>4
  <2>2. m # 0 BY <1>7, <2>1
  <2> QED BY <1>6, <2>2
<1>9. PICK i \in 1..n : out[1].severity = rows[i].severity
  <2>1. parts[1] \subseteq 1..n BY <1>6, <1>8
  <2>2. \E i \in parts[1] : out[1].severity = rows[i].severity BY <1>6, <1>8 DEF Answers
  <2> QED BY <2>1, <2>2
<1>10. out[1].severity \in T /\ (\A x \in T : x \in Nat /\ out[1].severity >= x) /\ out[1].severity \in Nat
  <2>1. out[1].severity \in Nat BY <1>7, <1>9
  <2> QED BY <1>5, <1>7, <1>9, <2>1
<1>11. Max(T) = out[1].severity
  <2> DEFINE v == out[1].severity
  <2> HIDE DEF v
  <2>1. v \in T /\ (\A x \in T : x \in Nat /\ v >= x) /\ v \in Nat BY <1>10 DEF v
  <2>2. Max(T) \in T /\ \A x \in T : Max(T) >= x
    BY <2>1 DEF Max
  <2>3. Max(T) >= v /\ v >= Max(T) /\ Max(T) \in Nat BY <2>1, <2>2
  <2>4. Max(T) = v BY <2>1, <2>3
  <2> QED BY <2>4 DEF v
<1>12. Head(out) = out[1]
  <2> DEFINE S == {out[k] : k \in 1..m}
  <2>1. out \in [1..m -> S] BY <1>6
  <2> HIDE DEF S
  <2>2. out \in Seq(S) /\ Len(out) = m BY <1>6, <2>1
  <2> QED BY <1>8, <2>2
<1> QED BY <1>11, <1>12

\* The files a group affects are those of the rows of its text.
LEMMA FilesAreReal ==
  ASSUME NEW rows \in Seq(FoundRow)
  PROVE  AffectedFilesAreReal(rows)
<1> DEFINE n == Len(rows)
           out == GroupRows(rows, NoFilter)
<1>1. n \in Nat /\ rows \in [1..n -> FoundRow] /\ DOMAIN rows = 1..n
  OBVIOUS
<1>2. IsOpen(NoFilter) /\ NoFilter.hideDuplicates
  BY DEF NoFilter, IsOpen
<1> HIDE DEF n
<1>3. PICK m, parts : Stands(out, m, parts, rows, n) /\ ByText(out, m, parts, rows, n)
  BY <1>1, <1>2, HiddenDuplicates
<1> HIDE DEF out
<1>4. /\ DOMAIN out = 1..m /\ parts \in [1..m -> SUBSET (1..n)]
      /\ \A k \in 1..m : Answers(out[k], rows, parts[k])
  BY <1>3 DEF Stands
<1> DEFINE Group(k) == out[k]
           real(k) == RealFiles(rows, out[k].text)
           locations(k) == {Location(row) : row \in {r \in ToSet(rows) : r.text = out[k].text}}
<1>5. ASSUME NEW k \in 1..m
      PROVE  /\ out[k].affected <= Cardinality(real(k))
             /\ Cardinality(locations(k)) <= MaxSamples => out[k].affected = Cardinality(real(k))
  <2> DEFINE c == parts[k]
             same == {r \in ToSet(rows) : r.text = out[k].text}
  <2>1. \A i \in 1..n : i \in c <=> rows[i].text = out[k].text
    <3>1. \A i \in c : rows[i].text = out[k].text BY <1>4 DEF Answers
    <3>2. \A i \in 1..n : rows[i].text = out[k].text => i \in c BY <1>3 DEF ByText
    <3> HIDE DEF c
    <3> QED BY <3>1, <3>2
  <2>2. c \subseteq 1..n BY <1>4
  <2>3. ToSet(rows) = {rows[i] : i \in 1..n} BY <1>1 DEF ToSet
  <2>4. same = {rows[i] : i \in c}
    <3> HIDE DEF c
    <3> QED BY <2>1, <2>2, <2>3
  <2>5. real(k) = {row.file.path : row \in same}
    BY DEF RealFiles
  <2>6. locations(k) = {Location(row) : row \in same}
    OBVIOUS
  <2> HIDE DEF same, real, locations
  <2>7. real(k) = PathsOf(rows, c)
    <3> HIDE DEF c
    <3> QED BY <2>4, <2>5 DEF PathsOf
  <2>8. locations(k) = LocationsOf(rows, c)
    <3> HIDE DEF c
    <3> QED BY <2>4, <2>6 DEF LocationsOf
  <2>9. Answers(out[k], rows, c) BY <1>4
  <2> HIDE DEF c
  <2> QED BY <2>7, <2>8, <2>9 DEF Answers
<1>6. ToSet(out) = {out[k] : k \in 1..m}
  BY <1>4 DEF ToSet
<1> SUFFICES ASSUME NEW group \in ToSet(out)
             PROVE  /\ group.affected <= Cardinality(RealFiles(rows, group.text))
                    /\ Cardinality({Location(row) : row \in {r \in ToSet(rows) : r.text = group.text}}) <= MaxSamples
                         => group.affected = Cardinality(RealFiles(rows, group.text))
  BY DEF AffectedFilesAreReal, out
<1>7. PICK k \in 1..m : group = out[k]
  BY <1>6
<1> QED BY <1>5, <1>7

\* What MostFirst compares.
CodeRanks(list, m) == [k \in 1..m |-> <<-list[k].count, LabelRank(list[k].code), 0, 0>>]

\* The groups of warnings, sorted by it.
LEMMA CodesAreSorted ==
  ASSUME NEW m \in Nat, NEW list, DOMAIN list = 1..m, \A k \in 1..m : list[k].count \in Nat
  PROVE  /\ CodeRanks(list, m) \in [1..m -> Ranks]
         /\ Sorted(list, MostFirst) = [k \in 1..m |-> list[SortedPlaces(m, CodeRanks(list, m))[k]]]
<1> DEFINE rank == CodeRanks(list, m)
           b == AheadOf(m, rank)
           at == SortedPlaces(m, rank)
           K == 1..m
           ahead(i) == {j \in K : MostFirst(list[j], list[i]) \/ (j < i /\ ~MostFirst(list[i], list[j]))}
<1>1. DOMAIN list = K /\ \A k \in K : list[k].count \in Nat /\ LabelRank(list[k].code) \in Int
  BY DEF LabelRank
<1>2. \A k \in K : rank[k] = <<-list[k].count, LabelRank(list[k].code), 0, 0>>
  BY DEF CodeRanks
<1>3. rank \in [K -> Ranks] /\ \A k \in K : rank[k] \in Ranks
  <2> DEFINE of(k) == <<-list[k].count, LabelRank(list[k].code), 0, 0>>
  <2>1. rank = [k \in K |-> of(k)] BY DEF CodeRanks
  <2>2. ASSUME NEW k \in K PROVE of(k) \in Ranks
    <3>1. -list[k].count \in Int /\ LabelRank(list[k].code) \in Int /\ 0 \in Int BY <1>1
    <3> QED BY <3>1 DEF Ranks
  <2> HIDE DEF of, rank
  <2> QED BY <2>1, <2>2
<1> HIDE DEF rank
<1>4. ASSUME NEW i \in K, NEW j \in K PROVE MostFirst(list[j], list[i]) <=> Precedes(rank[j], rank[i])
  <2> DEFINE x == list[j]
             y == list[i]
             t == << <<-x.count, -y.count>>, <<LabelRank(x.code), LabelRank(y.code)>> >>
             A == rank[j]
             B == rank[i]
  <2>1. A = <<-x.count, LabelRank(x.code), 0, 0>> /\ B = <<-y.count, LabelRank(y.code), 0, 0>>
    BY <1>2
  <2>2. A \in Ranks /\ B \in Ranks BY <1>3
  <2>3. x = y => A = B BY <2>1
  <2>4. DOMAIN t = 1..2 /\ \A k \in 1..2 : t[k][1] = A[k] /\ t[k][2] = B[k]
    BY <2>1
  <2>5. \A k \in 1..4 : k > 2 => A[k] = B[k]
    BY <2>1
  <2>6. MostFirst(x, y) <=> Before(t, x, y)
    BY DEF MostFirst
  <2> HIDE DEF x, y, t, A, B
  <2>7. Before(t, x, y) <=> Precedes(A, B)
    BY <2>2, <2>3, <2>4, <2>5, TuplesDecide
  <2> QED BY <2>6, <2>7 DEF x, y, A, B
<1>5. \A i \in K : b[i] = ahead(i)
  <2>1. \A i \in K : b[i] = {j \in K : Precedes(rank[j], rank[i]) \/ (j < i /\ ~Precedes(rank[i], rank[j]))}
    BY DEF AheadOf
  <2> SUFFICES ASSUME NEW i \in K PROVE b[i] = ahead(i)
    OBVIOUS
  <2> HIDE DEF b, K
  <2> QED BY <1>4, <2>1, Zenon
<1>6. Sorted(list, MostFirst) = [k \in K |-> list[CHOOSE i \in K : Cardinality(ahead(i)) = k - 1]]
  BY <1>1 DEF Sorted
<1>7. \A k \in K : at[k] = CHOOSE i \in K : Cardinality(b[i]) = k - 1
  <2>1. at = PlacesOf(b, m) BY DEF SortedPlaces
  <2> HIDE DEF at, b
  <2>2. at = [k \in K |-> CHOOSE i \in K : Cardinality(b[i]) = k - 1] BY <2>1 DEF PlacesOf
  <2> QED BY <2>2
<1> HIDE DEF ahead, at, b
<1>8. \A k \in K : (CHOOSE i \in K : Cardinality(ahead(i)) = k - 1) = at[k]
  BY <1>5, <1>7
<1>9. Sorted(list, MostFirst) = [k \in K |-> list[at[k]]]
  BY <1>6, <1>8
<1> QED BY <1>3, <1>9 DEF rank, at

\* Each warning is counted under its code.
LEMMA WarningsCounted ==
  ASSUME NEW warnings \in Seq(FoundWarning)
  PROVE  AllWarningsCounted(warnings)
<1> DEFINE n == Len(warnings)
           W == 1..n
           kf == [i \in 1..n |-> CodeOf(warnings[i])]
           firsts == FirstPlaces(n, kf)
           m == Cardinality(firsts)
           parts == ClassesOf(n, kf)
           at == KeptPlaces(firsts)
           keys == KeysOf(n, kf)
           list == SeqMap(KeysInOrder(warnings, CodeOf), LAMBDA code : CodeGroup(warnings, code))
           K == 1..m
           out == SummarizeWarnings(warnings)
<1>1. n \in Nat /\ DOMAIN warnings = 1..n /\ (\A i \in 1..n : kf[i] = CodeOf(warnings[i])) /\ IsFiniteSet(W)
        /\ Cardinality(W) = n
  <2>1. n \in Nat /\ DOMAIN warnings = 1..n OBVIOUS
  <2>2. \A i \in 1..n : kf[i] = CodeOf(warnings[i]) OBVIOUS
  <2> HIDE DEF n, kf
  <2>3. IsFiniteSet(1..n) /\ Cardinality(1..n) = n BY <2>1, FS_Interval
  <2> QED BY <2>1, <2>2, <2>3
<1> HIDE DEF kf, n
<1>2. /\ m \in Nat /\ parts \in [K -> SUBSET W] /\ Disjoint(parts, m)
      /\ Covered(parts, K) = W
      /\ \A q \in K : parts[q] # {}
      /\ \A q \in K : \A i \in 1..n : i \in parts[q] <=> kf[i] = keys[q]
  <2>1. AreClasses(parts, m, n, kf, keys) BY <1>1, ClassesCover
  <2> HIDE DEF parts, m, keys
  <2> QED BY <2>1 DEF AreClasses
<1>3. firsts \in SUBSET W /\ firsts = {i \in DOMAIN warnings : \A j \in 1..(i - 1) : CodeOf(warnings[j]) # CodeOf(warnings[i])}
  <2>1. \A i \in 1..n : \A j \in 1..(i - 1) : kf[j] = CodeOf(warnings[j]) /\ kf[i] = CodeOf(warnings[i])
    BY <1>1
  <2> QED BY <1>1, <2>1 DEF FirstPlaces
<1>4. \A k \in K : at[k] \in firsts
  <2>1. firsts \in SUBSET (1..n) BY <1>3
  <2> HIDE DEF firsts
  <2> QED BY <1>1, <2>1, KeptOnce DEF Numbers
<1>5. KeysInOrder(warnings, CodeOf) = keys
  <2> DEFINE some == RowsAt(warnings, firsts)
  <2>1. KeysInOrder(warnings, CodeOf) = SeqMap(some, CodeOf)
    BY <1>3 DEF KeysInOrder
  <2>2. some = [k \in K |-> warnings[at[k]]]
    BY KeptAre
  <2>3. keys = [k \in K |-> kf[at[k]]]
    BY DEF KeysOf
  <2>4. SeqMap(some, CodeOf) = [k \in DOMAIN some |-> CodeOf(some[k])]
    BY DEF SeqMap
  <2> HIDE DEF some, firsts, keys, K, at
  <2>5. \A k \in K : CodeOf(some[k]) = kf[at[k]]
    BY <1>1, <1>3, <1>4, <2>2
  <2> QED BY <2>1, <2>2, <2>3, <2>4, <2>5
<1> HIDE DEF parts, keys, K, m, at, firsts
<1>6. DOMAIN keys = K
  BY DEF keys, KeysOf, K, m, firsts
<1>7. list = [q \in K |-> CodeGroup(warnings, keys[q])]
  BY <1>5, <1>6 DEF SeqMap
<1>8. ASSUME NEW q \in K PROVE WithKey(warnings, CodeOf, keys[q]) = RowsAt(warnings, parts[q])
  <2>1. WithKey(warnings, CodeOf, keys[q]) = RowsAt(warnings, {i \in DOMAIN warnings : CodeOf(warnings[i]) = keys[q]})
    BY DEF WithKey, Filtered
  <2>2. {i \in DOMAIN warnings : CodeOf(warnings[i]) = keys[q]} = parts[q]
    <3>1. \A i \in W : i \in parts[q] <=> CodeOf(warnings[i]) = keys[q] BY <1>1, <1>2
    <3>2. parts[q] \subseteq W BY <1>2
    <3> HIDE DEF W
    <3> QED BY <1>1, <3>1, <3>2 DEF W
  <2> QED BY <2>1, <2>2
<1>9. ASSUME NEW q \in K PROVE list[q].code = keys[q] /\ list[q].count = Cardinality(parts[q])
  <2>1. list[q] = CodeGroup(warnings, keys[q]) BY <1>7
  <2> HIDE DEF list
  <2>2. list[q].code = keys[q] /\ list[q].count = Len(WithKey(warnings, CodeOf, keys[q]))
    BY <2>1 DEF CodeGroup
  <2>3. Len(RowsAt(warnings, parts[q])) = Cardinality(parts[q])
    <3>1. parts[q] \in SUBSET (1..n) BY <1>2
    <3> QED BY <1>1, <3>1, KeptRows
  <2> QED BY <1>8, <2>2, <2>3
<1>10. DOMAIN list = K /\ out = Sorted(list, MostFirst)
  BY <1>7 DEF SummarizeWarnings
<1> HIDE DEF list, out, W
<1>11. \A q \in K : list[q].count \in Nat
  <2> SUFFICES ASSUME NEW q \in K PROVE list[q].count \in Nat
    OBVIOUS
  <2>1. parts[q] \in SUBSET W BY <1>2
  <2> QED BY <1>1, <1>9, <2>1, FS_Subset, FS_CardinalityType
<1> DEFINE rank == CodeRanks(list, m)
           to == SortedPlaces(m, rank)
           moved == [k \in 1..m |-> parts[to[k]]]
<1>12. rank \in [1..m -> Ranks] /\ out = [k \in 1..m |-> list[to[k]]]
  <2>1. DOMAIN list = 1..m /\ m \in Nat /\ \A k \in 1..m : list[k].count \in Nat
    BY <1>2, <1>10, <1>11 DEF K
  <2> HIDE DEF rank, to
  <2> QED BY <1>10, <2>1, CodesAreSorted DEF rank, to
<1> HIDE DEF rank
<1>13. Numbers(to, m, 1..m)
  BY <1>2, <1>12, SortingNumbers
<1> HIDE DEF to
<1>14. /\ \A k \in K : to[k] \in K
       /\ \A k, l \in K : to[k] = to[l] => k = l
       /\ \A i \in K : \E k \in K : to[k] = i
  BY <1>13 DEF Numbers, K
<1>15. DOMAIN out = K /\ (\A k \in K : out[k] = list[to[k]]) /\ \A k \in K : moved[k] = parts[to[k]]
  BY <1>12 DEF K
<1>16. moved \in [K -> SUBSET W]
  <2>1. moved = [k \in K |-> parts[to[k]]] BY DEF K
  <2> HIDE DEF moved
  <2> QED BY <1>2, <1>14, <2>1
<1> HIDE DEF moved
<1>17. Disjoint(moved, m)
  <2> SUFFICES ASSUME NEW k \in K, NEW l \in K, k # l PROVE moved[k] \cap moved[l] = {}
    BY DEF Disjoint, K
  <2>1. to[k] \in K /\ to[l] \in K /\ to[k] # to[l] BY <1>14
  <2>2. parts[to[k]] \cap parts[to[l]] = {} BY <1>2, <2>1 DEF Disjoint, K
  <2> QED BY <1>15, <2>2
<1>18. Covered(moved, K) = W
  <2>1. \A i \in W : \E k \in K : i \in moved[k]
    <3> SUFFICES ASSUME NEW i \in W PROVE \E k \in K : i \in moved[k]
      OBVIOUS
    <3>1. PICK l \in K : i \in parts[l] BY <1>2 DEF Covered
    <3>2. PICK k \in K : to[k] = l BY <1>14
    <3> QED BY <1>15, <3>1, <3>2
  <2> QED BY <1>16, <2>1 DEF Covered
<1>19. CountOf(out) = n
  <2>1. \A k \in K : out[k].count = Cardinality(moved[k]) BY <1>9, <1>14, <1>15
  <2>2. /\ m \in Nat /\ moved \in [1..m -> SUBSET W] /\ DOMAIN out = 1..m
        /\ \A k \in 1..m : out[k].count = Cardinality(moved[k])
    BY <1>2, <1>15, <1>16, <2>1 DEF K
  <2>3. CountOf(out) = Cardinality(Covered(moved, 1..m))
    BY <1>1, <1>17, <2>2, PartsAddUp
  <2> QED BY <1>1, <1>18, <2>3 DEF K
<1>20. {w.code : w \in ToSet(out)} = {w.code : w \in ToSet(warnings)}
  <2>1. ToSet(out) = {out[k] : k \in K} BY <1>15 DEF ToSet
  <2>2. ToSet(warnings) = {warnings[i] : i \in W} BY <1>1 DEF ToSet, W
  <2>3. \A i \in W : kf[i] = warnings[i].code BY <1>1 DEF CodeOf, W
  <2>4. \A k \in K : out[k].code = keys[to[k]] BY <1>9, <1>14, <1>15
  <2>5. ASSUME NEW k \in K PROVE \E i \in W : warnings[i].code = out[k].code
    <3>1. PICK i \in parts[to[k]] : TRUE BY <1>2, <1>14
    <3>2. i \in W BY <1>2, <1>14
    <3>3. kf[i] = keys[to[k]] BY <1>2, <1>14, <3>2 DEF W
    <3> QED BY <2>3, <2>4, <3>2, <3>3
  <2>6. ASSUME NEW i \in W PROVE \E k \in K : warnings[i].code = out[k].code
    <3>1. PICK l \in K : i \in parts[l] BY <1>2 DEF Covered
    <3>2. PICK k \in K : to[k] = l BY <1>14
    <3>3. kf[i] = keys[to[k]] BY <1>2, <3>1, <3>2 DEF W
    <3> QED BY <2>3, <2>4, <3>3
  <2> QED BY <2>1, <2>2, <2>5, <2>6
<1>21. SummarizePartialReasons(warnings, FALSE) = {w.code : w \in ToSet(warnings)} \cap PartialReasons
  BY DEF SummarizePartialReasons
<1> QED BY <1>19, <1>20, <1>21 DEF AllWarningsCounted, CountOf, out, n

\* The summaries count every risk, rule and warning once, show the worst first
\* and claim no file that is not affected.
THEOREM GroupsTellTheTruth == PageSpec => []GroupsAnswerForTheirRows
<1>1. PageTypeOK => GroupsAnswerForTheirRows
  <2> SUFFICES ASSUME PageTypeOK, input.kind = "summary"
               PROVE  /\ NothingIsLost(input.rows) /\ AllWarningsCounted(input.warnings)
                      /\ WorstIsFirst(input.rows) /\ AffectedFilesAreReal(input.rows)
    BY DEF GroupsAnswerForTheirRows
  <2>1. input \in Inputs
    BY DEF PageTypeOK
  <2>2. input.rows \in Seq(FoundRow) /\ input.warnings \in Seq(FoundWarning)
    BY <2>1, ReportInputs
  <2> QED BY <2>2, NothingLost, WarningsCounted, WorstComesFirst, FilesAreReal
<1>2. PageSpec => []PageTypeOK
  BY PageTypeInit, PageTypeStep, PTL DEF PageSpec
<1> QED BY <1>1, <1>2, PTL

-----------------------------------------------------------------------------
(***************************************************************************)
(* The gate.  The window of a key is seen as the times of the requests     *)
(* that passed with that key: a set P of requests, made at times at[i].    *)
(***************************************************************************)
Within(P, at, from, to) == {i \in P : from <= at[i] /\ at[i] < to}

\* A window that started with a request that passed, and how many passed in it, in
\* the window's length before it, and in any span of that length.
WindowStands(P, at, window, max, start, count) ==
  /\ IsFiniteSet(P) /\ \A i \in P : at[i] \in Int
  /\ start \in Int /\ count \in 1..max
  /\ \A i \in P : at[i] < start + window
  /\ \E i \in P : at[i] = start
  /\ Cardinality(Within(P, at, start, start + window)) = count
  /\ Cardinality(Within(P, at, start - window + 1, start)) < max
  /\ \A t \in Int : Cardinality(Within(P, at, t, t + window)) < 2 * max

\* A part of a finite set of requests is finite.
LEMMA WithinIsFinite ==
  ASSUME NEW P, NEW at, NEW from, NEW to, IsFiniteSet(P)
  PROVE  /\ IsFiniteSet(Within(P, at, from, to)) /\ Cardinality(Within(P, at, from, to)) \in Nat
         /\ Within(P, at, from, to) \subseteq P
<1>1. Within(P, at, from, to) \subseteq P
  BY DEF Within
<1> QED BY <1>1, FS_Subset, FS_CardinalityType

\* The first request of a key opens a window.
LEMMA FirstWindow ==
  ASSUME NEW at, NEW window \in Nat \ {0}, NEW max \in Nat \ {0}, NEW n, at[n] \in Int
  PROVE  WindowStands({n}, at, window, max, at[n], 1)
<1>1. IsFiniteSet({n}) /\ Cardinality({n}) = 1 /\ IsFiniteSet({}) /\ Cardinality({}) = 0
  BY FS_Singleton, FS_EmptySet
<1>2. \A from, to \in Int : Within({n}, at, from, to) \in {{}, {n}}
  BY DEF Within
<1>4. \A t \in Int : Cardinality(Within({n}, at, t, t + window)) < 2 * max
  <2> SUFFICES ASSUME NEW t \in Int PROVE Cardinality(Within({n}, at, t, t + window)) < 2 * max
    OBVIOUS
  <2>1. t + window \in Int OBVIOUS
  <2>2. Cardinality(Within({n}, at, t, t + window)) \in {0, 1}
    BY <1>1, <1>2, <2>1
  <2> QED BY <2>2
<1>5. Within({n}, at, at[n], at[n] + window) = {n}
  BY DEF Within
<1>6. Within({n}, at, at[n] - window + 1, at[n]) = {}
  BY DEF Within
<1> QED BY <1>1, <1>4, <1>5, <1>6 DEF WindowStands

\* A request that passes after the end of a window opens the next one.
LEMMA NextWindow ==
  ASSUME NEW P, NEW at, NEW window \in Nat \ {0}, NEW max \in Nat \ {0}, NEW start, NEW count,
         WindowStands(P, at, window, max, start, count),
         NEW n, n \notin P, at[n] \in Int, start + window <= at[n]
  PROVE  WindowStands(P \cup {n}, at, window, max, at[n], 1)
<1> DEFINE Q == P \cup {n}
           inside == Within(P, at, start, start + window)
<1>1. /\ IsFiniteSet(P) /\ \A i \in P : at[i] \in Int /\ at[i] < start + window
      /\ start \in Int /\ count \in 1..max
      /\ Cardinality(inside) = count
      /\ \A t \in Int : Cardinality(Within(P, at, t, t + window)) < 2 * max
  BY DEF WindowStands
<1>2. PICK e \in P : at[e] = start
  BY DEF WindowStands
<1>3. IsFiniteSet(Q) /\ \A i \in Q : at[i] \in Int
  BY <1>1, FS_AddElement
<1>4. /\ IsFiniteSet(inside \ {e}) /\ Cardinality(inside \ {e}) = count - 1
      /\ IsFiniteSet((inside \ {e}) \cup {n}) /\ Cardinality((inside \ {e}) \cup {n}) = count
  <2>1. e \in inside
    BY <1>1, <1>2 DEF Within
  <2>2. IsFiniteSet(inside)
    BY <1>1, WithinIsFinite
  <2>3. n \notin inside \ {e}
    BY DEF Within
  <2> HIDE DEF inside
  <2>4. IsFiniteSet(inside \ {e}) /\ Cardinality(inside \ {e}) = count - 1
    BY <1>1, <2>1, <2>2, FS_RemoveElement
  <2> DEFINE less == inside \ {e}
  <2>5. IsFiniteSet(less \cup {n}) /\ Cardinality(less \cup {n}) = Cardinality(less) + 1
    <3>1. n \notin less /\ IsFiniteSet(less) BY <2>3, <2>4
    <3> HIDE DEF less
    <3> QED BY <3>1, FS_AddElement
  <2> QED BY <1>1, <2>4, <2>5
<1>5. Within(Q, at, at[n], at[n] + window) = {n}
  BY <1>1 DEF Within
<1>6. Cardinality(Within(Q, at, at[n] - window + 1, at[n])) < max
  <2>1. Within(Q, at, at[n] - window + 1, at[n]) \subseteq inside \ {e}
    BY <1>1, <1>2 DEF Within
  <2>2. Cardinality(Within(Q, at, at[n] - window + 1, at[n])) <= count - 1
    <3> DEFINE less == inside \ {e}
               seen == Within(Q, at, at[n] - window + 1, at[n])
    <3>1. IsFiniteSet(less) /\ Cardinality(less) = count - 1 /\ seen \subseteq less
      BY <1>4, <2>1
    <3> HIDE DEF less, seen
    <3>2. Cardinality(seen) <= Cardinality(less)
      BY <3>1, FS_Subset
    <3> QED BY <3>1, <3>2 DEF seen
  <2>3. Cardinality(Within(Q, at, at[n] - window + 1, at[n])) \in Nat
    BY <1>3, WithinIsFinite
  <2> QED BY <1>1, <2>2, <2>3
<1>7. ASSUME NEW t \in Int PROVE Cardinality(Within(Q, at, t, t + window)) < 2 * max
  <2>1. CASE n \in Within(Q, at, t, t + window)
    <3>1. Within(Q, at, t, t + window) \subseteq (inside \ {e}) \cup {n}
      BY <1>1, <1>2, <2>1 DEF Within
    <3>2. Cardinality(Within(Q, at, t, t + window)) <= count
      BY <1>4, <3>1, FS_Subset
    <3>3. Cardinality(Within(Q, at, t, t + window)) \in Nat
      BY <1>3, WithinIsFinite
    <3> QED BY <1>1, <3>2, <3>3
  <2>2. CASE n \notin Within(Q, at, t, t + window)
    <3>1. Within(Q, at, t, t + window) = Within(P, at, t, t + window)
      BY <2>2 DEF Within
    <3> QED BY <1>1, <3>1
  <2> QED BY <2>1, <2>2
<1>8. \A i \in Q : at[i] < at[n] + window
  BY <1>1
<1>9. Cardinality({n}) = 1 /\ 1 \in 1..max
  <2>1. Cardinality({n}) = 1 BY FS_Singleton
  <2>2. 1 \in 1..max OBVIOUS
  <2> QED BY <2>1, <2>2
<1> QED BY <1>3, <1>5, <1>6, <1>7, <1>8, <1>9 DEF WindowStands

\* Another request in a window that is not full.
LEMMA FullerWindow ==
  ASSUME NEW P, NEW at, NEW window \in Nat \ {0}, NEW max \in Nat \ {0}, NEW start, NEW count,
         WindowStands(P, at, window, max, start, count),
         NEW n, n \notin P, at[n] \in Int, start <= at[n], at[n] < start + window, count < max
  PROVE  WindowStands(P \cup {n}, at, window, max, start, count + 1)
<1> DEFINE Q == P \cup {n}
           inside == Within(P, at, start, start + window)
           before == Within(P, at, start - window + 1, start)
<1>1. /\ IsFiniteSet(P) /\ \A i \in P : at[i] \in Int /\ at[i] < start + window
      /\ start \in Int /\ count \in 1..max
      /\ Cardinality(inside) = count /\ Cardinality(before) < max
      /\ \A t \in Int : Cardinality(Within(P, at, t, t + window)) < 2 * max
      /\ \E i \in P : at[i] = start
  BY DEF WindowStands
<1>2. IsFiniteSet(Q) /\ \A i \in Q : at[i] \in Int
  BY <1>1, FS_AddElement
<1>3. Within(Q, at, start, start + window) = inside \cup {n}
  BY DEF Within
<1>4. IsFiniteSet(inside \cup {n}) /\ Cardinality(inside \cup {n}) = count + 1
  <2>1. n \notin inside
    BY DEF Within
  <2>2. IsFiniteSet(inside)
    BY <1>1, WithinIsFinite
  <2> HIDE DEF inside
  <2> QED BY <1>1, <2>1, <2>2, FS_AddElement
<1>5. Within(Q, at, start - window + 1, start) = before
  BY <1>1 DEF Within
<1>6. ASSUME NEW t \in Int PROVE Cardinality(Within(Q, at, t, t + window)) < 2 * max
  <2>1. CASE n \in Within(Q, at, t, t + window)
    <3> DEFINE both == (inside \cup {n}) \cup before
    <3>1. Within(Q, at, t, t + window) \subseteq both
      BY <1>1, <2>1 DEF Within
    <3>2. IsFiniteSet(before) /\ Cardinality(before) \in Nat
      BY <1>1, WithinIsFinite
    <3>3. IsFiniteSet(both) /\ Cardinality(both) <= (count + 1) + Cardinality(before)
      <4> DEFINE one == inside \cup {n}
      <4>0. IsFiniteSet(one) /\ Cardinality(one) = count + 1
        BY <1>4
      <4> HIDE DEF one, before
      <4>1. IsFiniteSet(one \cap before) /\ Cardinality(one \cap before) \in Nat
        BY <3>2, FS_Intersection, FS_CardinalityType
      <4>2. /\ IsFiniteSet(one \cup before)
            /\ Cardinality(one \cup before) = Cardinality(one) + Cardinality(before) - Cardinality(one \cap before)
        BY <3>2, <4>0, FS_Union
      <4> QED BY <1>1, <3>2, <4>0, <4>1, <4>2 DEF one
    <3>4. Cardinality(Within(Q, at, t, t + window)) <= Cardinality(both) /\ Cardinality(both) \in Nat
      BY <3>1, <3>3, FS_Subset, FS_CardinalityType
    <3>5. Cardinality(Within(Q, at, t, t + window)) \in Nat
      BY <1>2, WithinIsFinite
    <3> QED BY <1>1, <3>2, <3>3, <3>4, <3>5
  <2>2. CASE n \notin Within(Q, at, t, t + window)
    <3>1. Within(Q, at, t, t + window) = Within(P, at, t, t + window)
      BY <2>2 DEF Within
    <3> QED BY <1>1, <3>1
  <2> QED BY <2>1, <2>2
<1>7. /\ \A i \in Q : at[i] < start + window
      /\ \E i \in Q : at[i] = start
      /\ count + 1 \in 1..max
  BY <1>1
<1> HIDE DEF inside, before
<1> QED BY <1>1, <1>2, <1>3, <1>4, <1>5, <1>6, <1>7 DEF WindowStands

\* The gate goes from request to request.
LEMMA GateSteps ==
  ASSUME NEW requests, NEW users, Len(requests) \in Nat
  PROVE  /\ Gate!Gates(requests, users)[0] = Gate!Opened(users)
         /\ \A n \in 1..Len(requests) :
              Gate!Gates(requests, users)[n] = Gate!Handle(Gate!Gates(requests, users)[n - 1], requests[n])
<1> DEFINE N == Len(requests)
           Gate1(f, n) == IF n = 0 THEN Gate!Opened(users) ELSE Gate!Handle(f[n - 1], requests[n])
           Steps(f, m) == f = [n \in 0..m |-> Gate1(f, n)]
           Missing == {m \in 0..N : ~\E f : Steps(f, m)}
           it == CHOOSE f : Steps(f, N)
<1>1. Gate!Gates(requests, users) = it
  BY DEF Gate!Gates
<1>2. N \in Nat OBVIOUS
<1> HIDE DEF N
<1>3. \E f : Steps(f, 0)
  <2> DEFINE f == [n \in 0..0 |-> Gate!Opened(users)]
  <2>1. \A n \in 0..0 : n = 0 OBVIOUS
  <2>2. f = [n \in 0..0 |-> Gate1(f, n)] BY <2>1
  <2> HIDE DEF f
  <2> QED BY <2>2
<1>4. ASSUME NEW m \in 1..N, \E f : Steps(f, m - 1) PROVE \E f : Steps(f, m)
  <2>1. PICK g : Steps(g, m - 1) BY <1>4
  <2> DEFINE f == [n \in 0..m |-> IF n = m THEN Gate1(g, m) ELSE g[n]]
  <2>2. \A n \in 0..(m - 1) : g[n] = Gate1(g, n)
    BY <2>1
  <2> HIDE DEF Gate1
  <2>3. \A n \in 0..m : f[n] = IF n = m THEN Gate1(g, m) ELSE g[n]
    OBVIOUS
  <2>4. f = [n \in 0..m |-> f[n]] OBVIOUS
  <2> HIDE DEF f
  <2>5. m - 1 \in 0..m /\ m - 1 # m /\ m # 0 /\ m \in 0..m BY <1>2
  <2>6. \A n \in 0..m : f[n] = Gate1(f, n)
    <3> SUFFICES ASSUME NEW n \in 0..m PROVE f[n] = Gate1(f, n)
      OBVIOUS
    <3>1. CASE n = m
      <4>1. f[m - 1] = g[m - 1] BY <2>3, <2>5
      <4>2. Gate1(f, m) = Gate1(g, m) BY <4>1 DEF Gate1
      <4> QED BY <2>3, <2>5, <3>1, <4>2
    <3>2. CASE n # m
      <4>1. n \in 0..(m - 1) BY <1>2, <3>2
      <4>2. f[n] = g[n] /\ g[n] = Gate1(g, n) BY <2>2, <2>3, <3>2, <4>1
      <4>3. n # 0 => n - 1 \in 0..m /\ n - 1 # m BY <1>2
      <4>4. n # 0 => f[n - 1] = g[n - 1] BY <2>3, <4>3
      <4>5. Gate1(f, n) = Gate1(g, n) BY <4>4 DEF Gate1
      <4> QED BY <4>2, <4>5
    <3> QED BY <3>1, <3>2
  <2>7. Steps(f, m) BY <2>4, <2>6
  <2> HIDE DEF Steps
  <2> QED BY <2>7
<1> HIDE DEF Steps
<1>5. Missing = {}
  <2> SUFFICES ASSUME Missing # {} PROVE FALSE
    OBVIOUS
  <2>1. Missing \in SUBSET Nat OBVIOUS
  <2>2. PICK m \in Missing : \A k \in Missing : m <= k
    <3> HIDE DEF Missing
    <3> QED BY <2>1, LeastNumber
  <2>3. m \in 0..N /\ ~\E f : Steps(f, m) OBVIOUS
  <2>4. m # 0 BY <1>3, <2>3
  <2>5. m \in 1..N /\ m - 1 \in 0..N
    <3> HIDE DEF Missing
    <3> QED BY <1>2, <2>3, <2>4
  <2>6. ~\E f : Steps(f, m - 1)
    <3> HIDE DEF Missing
    <3> QED BY <1>4, <2>3, <2>5
  <2>7. m - 1 \in Missing BY <2>5, <2>6
  <2> HIDE DEF Missing
  <2> QED BY <2>2, <2>5, <2>7
<1>6. Steps(it, N)
  <2>1. N \in 0..N BY <1>2
  <2>2. \E f : Steps(f, N) BY <1>5, <2>1
  <2> QED BY <2>2
<1> HIDE DEF it
<1>7. \A n \in 0..N : it[n] = Gate1(it, n)
  BY <1>6 DEF Steps
<1>8. 0 \in 0..N /\ \A n \in 1..N : n \in 0..N /\ n # 0
  BY <1>2
<1> QED BY <1>1, <1>7, <1>8 DEF N

\* The store of a key whose requests come alone.
StepsAlone(alone, answers, key) ==
  /\ alone[0] = [allowed |-> TRUE, retryAfter |-> 0, store |-> Gate!EmptyStore]
  /\ \A n \in 1..Len(answers) :
       alone[n] = IF answers[n].key = key THEN Gate!Consume(alone[n - 1].store, key, answers[n].at) ELSE alone[n - 1]

\* The requests of one key, each consumed after the one before.
LEMMA AloneSteps ==
  ASSUME NEW answers, NEW key, Len(answers) \in Nat
  PROVE  StepsAlone(Gate!Alone(answers, key), answers, key)
<1> DEFINE N == Len(answers)
           Alone1(f, n) == 
             CASE n = 0 -> [allowed |-> TRUE, retryAfter |-> 0, store |-> Gate!EmptyStore]
               [] n > 0 /\ answers[n].key = key -> Gate!Consume(f[n - 1].store, key, answers[n].at)
               [] OTHER -> f[n - 1]
           Steps(f, m) == f = [n \in 0..m |-> Alone1(f, n)]
           Missing == {m \in 0..N : ~\E f : Steps(f, m)}
           it == CHOOSE f : Steps(f, N)
<1>1. Gate!Alone(answers, key) = it
  BY DEF Gate!Alone
<1>2. N \in Nat OBVIOUS
<1> HIDE DEF N
<1>3. \E f : Steps(f, 0)
  <2> DEFINE f == [n \in 0..0 |-> [allowed |-> TRUE, retryAfter |-> 0, store |-> Gate!EmptyStore]]
  <2>1. \A n \in 0..0 : n = 0 OBVIOUS
  <2>2. f = [n \in 0..0 |-> Alone1(f, n)] BY <2>1
  <2> HIDE DEF f
  <2> QED BY <2>2
<1>4. ASSUME NEW m \in 1..N, \E f : Steps(f, m - 1) PROVE \E f : Steps(f, m)
  <2>1. PICK g : Steps(g, m - 1) BY <1>4
  <2> DEFINE f == [n \in 0..m |-> IF n = m THEN Alone1(g, m) ELSE g[n]]
  <2>2. \A n \in 0..(m - 1) : g[n] = Alone1(g, n)
    BY <2>1
  <2> HIDE DEF Alone1
  <2>3. \A n \in 0..m : f[n] = IF n = m THEN Alone1(g, m) ELSE g[n]
    OBVIOUS
  <2>4. f = [n \in 0..m |-> f[n]] OBVIOUS
  <2> HIDE DEF f
  <2>5. m - 1 \in 0..m /\ m - 1 # m /\ m # 0 /\ m \in 0..m BY <1>2
  <2>6. \A n \in 0..m : f[n] = Alone1(f, n)
    <3> SUFFICES ASSUME NEW n \in 0..m PROVE f[n] = Alone1(f, n)
      OBVIOUS
    <3>1. CASE n = m
      <4>1. f[m - 1] = g[m - 1] BY <2>3, <2>5
      <4>2. Alone1(f, m) = Alone1(g, m) BY <4>1 DEF Alone1
      <4> QED BY <2>3, <2>5, <3>1, <4>2
    <3>2. CASE n # m
      <4>1. n \in 0..(m - 1) BY <1>2, <3>2
      <4>2. f[n] = g[n] /\ g[n] = Alone1(g, n) BY <2>2, <2>3, <3>2, <4>1
      <4>3. n # 0 => n - 1 \in 0..m /\ n - 1 # m BY <1>2
      <4>4. n # 0 => f[n - 1] = g[n - 1] BY <2>3, <4>3
      <4>5. Alone1(f, n) = Alone1(g, n) BY <4>4 DEF Alone1
      <4> QED BY <4>2, <4>5
    <3> QED BY <3>1, <3>2
  <2>7. Steps(f, m) BY <2>4, <2>6
  <2> HIDE DEF Steps
  <2> QED BY <2>7
<1> HIDE DEF Steps
<1>5. Missing = {}
  <2> SUFFICES ASSUME Missing # {} PROVE FALSE
    OBVIOUS
  <2>1. Missing \in SUBSET Nat OBVIOUS
  <2>2. PICK m \in Missing : \A k \in Missing : m <= k
    <3> HIDE DEF Missing
    <3> QED BY <2>1, LeastNumber
  <2>3. m \in 0..N /\ ~\E f : Steps(f, m) OBVIOUS
  <2>4. m # 0 BY <1>3, <2>3
  <2>5. m \in 1..N /\ m - 1 \in 0..N
    <3> HIDE DEF Missing
    <3> QED BY <1>2, <2>3, <2>4
  <2>6. ~\E f : Steps(f, m - 1)
    <3> HIDE DEF Missing
    <3> QED BY <1>4, <2>3, <2>5
  <2>7. m - 1 \in Missing BY <2>5, <2>6
  <2> HIDE DEF Missing
  <2> QED BY <2>2, <2>5, <2>7
<1>6. Steps(it, N)
  <2>1. N \in 0..N BY <1>2
  <2>2. \E f : Steps(f, N) BY <1>5, <2>1
  <2> QED BY <2>2
<1> HIDE DEF it
<1>7. \A n \in 0..N : it[n] = Alone1(it, n)
  BY <1>6 DEF Steps
<1>8. 0 \in 0..N /\ \A n \in 1..N : n \in 0..N /\ n # 0
  BY <1>2
<1>9. it[0] = [allowed |-> TRUE, retryAfter |-> 0, store |-> Gate!EmptyStore]
  <2>1. it[0] = Alone1(it, 0) BY <1>7, <1>8
  <2> QED BY <2>1
<1>10. ASSUME NEW n \in 1..N
       PROVE  it[n] = IF answers[n].key = key THEN Gate!Consume(it[n - 1].store, key, answers[n].at) ELSE it[n - 1]
  <2>1. n # 0 /\ n > 0 /\ it[n] = Alone1(it, n) BY <1>2, <1>7, <1>8
  <2> QED BY <2>1
<1>11. StepsAlone(it, answers, key)
  BY <1>9, <1>10 DEF N, StepsAlone
<1> QED BY <1>1, <1>11

(***************************************************************************)
(* One request.                                                            *)
(***************************************************************************)
WindowOf(key) == Gate!Config[key[1]].window
LimitOf(key) == Gate!Config[key[1]].max
IsMetered(key) == WindowOf(key) \in Nat \ {0} /\ LimitOf(key) \in Nat \ {0}

\* Every key has a window and a limit.
LEMMA KeysAreMetered == \A user, request : IsMetered(Gate!RateLimitKey(user, request))
<1> SUFFICES ASSUME NEW user, NEW request PROVE IsMetered(Gate!RateLimitKey(user, request))
  OBVIOUS
<1>1. Gate!RateLimitKey(user, request)[1] \in {"api", "upload", "clone", "analysis", "heavyRead"}
  BY DEF Gate!RateLimitKey, Gate!BucketOf
<1>2. \A bucket \in {"api", "upload", "clone", "analysis", "heavyRead"} :
        Gate!Config[bucket].window \in Nat \ {0} /\ Gate!Config[bucket].max \in Nat \ {0}
  BY DEF Gate!Config
<1> QED BY <1>1, <1>2 DEF IsMetered, WindowOf, LimitOf

\* Consuming tells only its key, and leaves the others alone.
LEMMA Consumes ==
  ASSUME NEW store, NEW key, NEW now
  PROVE  LET metered == Gate!Consume(store, key, now)
             isNew == key \notin DOMAIN store \/ store[key].resetAt <= now
         IN  /\ metered.allowed = (isNew \/ ~(store[key].count >= LimitOf(key)))
             /\ metered.retryAfter = IF metered.allowed THEN 0 ELSE store[key].resetAt - now
             /\ ~metered.allowed => metered.store = store
             /\ metered.allowed => /\ DOMAIN metered.store = DOMAIN store \cup {key}
                                   /\ \A k \in DOMAIN store \ {key} : metered.store[k] = store[k]
             /\ isNew => metered.store[key] = [count |-> 1, resetAt |-> now + WindowOf(key)]
             /\ metered.allowed /\ ~isNew => metered.store[key] = [store[key] EXCEPT !.count = @ + 1]
BY DEF Gate!Consume, Gate!IsOver, Gate!IsFull, LimitOf, WindowOf

\* The same, one thing at a time.
LEMMA ConsumeAllows ==
  \A store, key, now :
    Gate!Consume(store, key, now).allowed
      = (key \notin DOMAIN store \/ store[key].resetAt <= now \/ ~(store[key].count >= LimitOf(key)))
BY DEF Gate!Consume, Gate!IsOver, Gate!IsFull, LimitOf

\* A refusal writes nothing and tells how long the window lasts.
LEMMA ConsumeRefuses ==
  ASSUME NEW store, NEW key, NEW now, NEW metered, metered = Gate!Consume(store, key, now), ~metered.allowed
  PROVE  metered.store = store /\ metered.retryAfter = store[key].resetAt - now
BY DEF Gate!Consume, Gate!IsOver, Gate!IsFull, LimitOf

\* A request that passes writes the entry of its key.
LEMMA ConsumeWritesItsKey ==
  ASSUME NEW store, NEW key, NEW now, NEW metered, metered = Gate!Consume(store, key, now), metered.allowed
  PROVE  /\ DOMAIN metered.store = DOMAIN store \cup {key}
         /\ \A k \in DOMAIN store \ {key} : metered.store[k] = store[k]
BY DEF Gate!Consume, Gate!IsOver, Gate!IsFull, LimitOf

\* What stands of a key after the first n requests: the entry of its window, or
\* no request that passed.
PassesTo(answers, n, key) == {i \in 1..n : Gate!Passed(answers[i]) /\ answers[i].key = key}
Times(answers) == [i \in DOMAIN answers |-> answers[i].at]

KeyStands(store, answers, n, key) ==
  IF key \in DOMAIN store
  THEN /\ store[key] \in [count : Nat, resetAt : Int]
       /\ WindowStands(PassesTo(answers, n, key), Times(answers), WindowOf(key), LimitOf(key),
                       store[key].resetAt - WindowOf(key), store[key].count)
  ELSE PassesTo(answers, n, key) = {}

InOrderOfTime(answers) ==
  /\ \A i \in DOMAIN answers : answers[i].at \in Nat
  /\ \A i, j \in DOMAIN answers : i <= j => answers[i].at <= answers[j].at

\* After one more request, of this key or another, the key still stands.
LEMMA RequestStands ==
  ASSUME NEW answers, NEW n \in Nat \ {0}, 1..n \subseteq DOMAIN answers, InOrderOfTime(answers),
         NEW store, NEW next, NEW key, IsMetered(key), KeyStands(store, answers, n - 1, key),
         Gate!Passed(answers[n]) = Gate!Consume(store, answers[n].key, answers[n].at).allowed,
         next = Gate!Consume(store, answers[n].key, answers[n].at).store
  PROVE  KeyStands(next, answers, n, key)
<1> DEFINE P == PassesTo(answers, n - 1, key)
           at == Times(answers)
           window == WindowOf(key)
           max == LimitOf(key)
           now == answers[n].at
           metered == Gate!Consume(store, answers[n].key, now)
           isNew == answers[n].key \notin DOMAIN store \/ store[answers[n].key].resetAt <= now
           start == store[key].resetAt - window
           count == store[key].count
<1>1. n \in DOMAIN answers /\ now \in Nat /\ at[n] = now /\ \A i \in 1..n : at[i] = answers[i].at /\ at[i] <= now
  <2>1. n \in 1..n OBVIOUS
  <2> QED BY <2>1 DEF InOrderOfTime, Times
<1>2. window \in Nat \ {0} /\ max \in Nat \ {0}
  BY DEF IsMetered
<1>3. n \notin P
  BY DEF PassesTo
<1>4. PassesTo(answers, n, key) = IF Gate!Passed(answers[n]) /\ answers[n].key = key THEN P \cup {n} ELSE P
  <2>1. 1..n = 1..(n - 1) \cup {n} /\ n \notin 1..(n - 1) OBVIOUS
  <2> QED BY <2>1 DEF PassesTo
<1>5. /\ metered.allowed = (isNew \/ ~(store[answers[n].key].count >= LimitOf(answers[n].key)))
      /\ ~metered.allowed => metered.store = store
      /\ metered.allowed => /\ DOMAIN metered.store = DOMAIN store \cup {answers[n].key}
                            /\ \A k \in DOMAIN store \ {answers[n].key} : metered.store[k] = store[k]
      /\ isNew => metered.store[answers[n].key] = [count |-> 1, resetAt |-> now + WindowOf(answers[n].key)]
      /\ metered.allowed /\ ~isNew =>
           metered.store[answers[n].key] = [store[answers[n].key] EXCEPT !.count = @ + 1]
  BY Consumes
<1>6. Gate!Passed(answers[n]) = metered.allowed /\ next = metered.store
  OBVIOUS
<1>7. key \in DOMAIN store => /\ store[key] \in [count : Nat, resetAt : Int]
                              /\ WindowStands(P, at, window, max, start, count)
  BY DEF KeyStands
<1>8. key \notin DOMAIN store => P = {}
  BY DEF KeyStands
<1> HIDE DEF metered
<1>9. CASE key # answers[n].key
  <2>1. PassesTo(answers, n, key) = P
    BY <1>4, <1>9
  <2>2. (key \in DOMAIN next <=> key \in DOMAIN store) /\ (key \in DOMAIN store => next[key] = store[key])
    BY <1>5, <1>6, <1>9
  <2> QED BY <1>7, <1>8, <2>1, <2>2 DEF KeyStands
<1>10. CASE key = answers[n].key /\ ~metered.allowed
  <2>1. PassesTo(answers, n, key) = P /\ next = store
    BY <1>4, <1>5, <1>6, <1>10
  <2> QED BY <1>7, <1>8, <2>1 DEF KeyStands
<1>11. CASE key = answers[n].key /\ metered.allowed /\ isNew
  <2>1. PassesTo(answers, n, key) = P \cup {n}
    BY <1>4, <1>6, <1>11
  <2>2. key \in DOMAIN next /\ next[key] = [count |-> 1, resetAt |-> now + window]
    BY <1>5, <1>6, <1>11
  <2>3. next[key].count = 1 /\ next[key].resetAt - window = now /\ next[key] \in [count : Nat, resetAt : Int]
    BY <1>1, <1>2, <2>2
  <2>4. WindowStands(P \cup {n}, at, window, max, now, 1)
    <3>1. CASE key \notin DOMAIN store
      <4>1. P \cup {n} = {n} BY <1>8, <3>1
      <4> HIDE DEF at, window, max, now, P
      <4>2. WindowStands({n}, at, window, max, at[n], 1) BY <1>1, <1>2, FirstWindow
      <4> QED BY <1>1, <4>1, <4>2
    <3>2. CASE key \in DOMAIN store
      <4>1. WindowStands(P, at, window, max, start, count) /\ start + window <= now
        BY <1>1, <1>2, <1>7, <1>11, <3>2
      <4> HIDE DEF at, window, max, now, P, start, count
      <4>2. at[n] \in Int /\ start + window <= at[n] BY <1>1, <4>1
      <4>3. WindowStands(P \cup {n}, at, window, max, at[n], 1) BY <1>2, <1>3, <4>1, <4>2, NextWindow
      <4> QED BY <1>1, <4>3
    <3> QED BY <3>1, <3>2
  <2> QED BY <2>1, <2>2, <2>3, <2>4 DEF KeyStands
<1>12. CASE key = answers[n].key /\ metered.allowed /\ ~isNew
  <2>1. PassesTo(answers, n, key) = P \cup {n}
    BY <1>4, <1>6, <1>12
  <2>2. /\ key \in DOMAIN store /\ store[key].resetAt > now
        /\ key \in DOMAIN next /\ next[key] = [store[key] EXCEPT !.count = @ + 1] /\ ~(count >= max)
        /\ store[key] \in [count : Nat, resetAt : Int]
    <3>1. key \in DOMAIN store /\ ~(store[key].resetAt <= now) BY <1>12
    <3>2. store[key] \in [count : Nat, resetAt : Int] BY <1>7, <3>1
    <3>3. store[key].resetAt > now BY <1>1, <3>1, <3>2
    <3>4. key \in DOMAIN next /\ next[key] = [store[key] EXCEPT !.count = @ + 1] BY <1>5, <1>6, <1>12
    <3>5. ~(count >= max) BY <1>5, <1>12
    <3> QED BY <3>1, <3>2, <3>3, <3>4, <3>5
  <2>3. /\ next[key].count = count + 1 /\ next[key].resetAt = store[key].resetAt
        /\ next[key] \in [count : Nat, resetAt : Int]
    BY <2>2
  <2>4. WindowStands(P, at, window, max, start, count)
    BY <1>7, <2>2
  <2>5. start <= now /\ now < start + window /\ count < max
    <3>1. PICK e \in P : at[e] = start
      BY <2>4 DEF WindowStands
    <3>2. e \in 1..n BY DEF PassesTo
    <3>3. start <= now BY <1>1, <3>1, <3>2
    <3> QED BY <1>1, <1>2, <2>2, <3>3
  <2>6. WindowStands(P \cup {n}, at, window, max, start, count + 1)
    <3>1. at[n] \in Int /\ start <= at[n] /\ at[n] < start + window BY <1>1, <2>5
    <3> HIDE DEF at, window, max, now, P, start, count
    <3> QED BY <1>2, <1>3, <2>4, <2>5, <3>1, FullerWindow
  <2> QED BY <2>1, <2>2, <2>3, <2>6 DEF KeyStands
<1> QED BY <1>9, <1>10, <1>11, <1>12

\* A request is allowed or not.
LEMMA AllowedOrNot == \A store, key, now : Gate!Consume(store, key, now).allowed \in BOOLEAN
BY DEF Gate!Consume

\* What a request leaves and is answered.
LEMMA Handles ==
  ASSUME NEW gate, NEW request
  PROVE  LET signedIn == Gate!AuthenticateRequest(request, gate.users)
             key == Gate!RateLimitKey(signedIn.user, request)
             metered == Gate!Consume(gate.store, key, request.at)
         IN  /\ Gate!Handle(gate, request).users = signedIn.users
             /\ Gate!Handle(gate, request).store = metered.store
             /\ Gate!Handle(gate, request).answer =
                  [at |-> request.at, key |-> key, user |-> signedIn.user,
                   code |-> Gate!Admitted(request.path, signedIn.user, metered), retryAfter |-> metered.retryAfter]
BY DEF Gate!Handle

\* An answer is what consuming its key at its time told.
LEMMA AnswersAre ==
  ASSUME NEW requests, NEW users, requests \in Seq(ToSet(requests)), InTime(requests)
  PROVE  LET gates   == Gate!Gates(requests, users)
             answers == Gate!AnswersOf(requests, users)
         IN  /\ Len(requests) \in Nat /\ DOMAIN requests = 1..Len(requests)
             /\ DOMAIN answers = 1..Len(requests) /\ InOrderOfTime(answers)
             /\ DOMAIN gates[0].store = {}
             /\ \A n \in 1..Len(requests) :
                  LET metered == Gate!Consume(gates[n - 1].store, answers[n].key, answers[n].at)
                  IN  /\ answers[n] = gates[n].answer /\ IsMetered(answers[n].key)
                      /\ Gate!Passed(answers[n]) = metered.allowed
                      /\ answers[n].retryAfter = metered.retryAfter
                      /\ gates[n].store = metered.store
<1> DEFINE gates   == Gate!Gates(requests, users)
           answers == Gate!AnswersOf(requests, users)
           N == Len(requests)
           Metered(n) == Gate!Consume(gates[n - 1].store, answers[n].key, answers[n].at)
<1>1. N \in Nat /\ DOMAIN requests = 1..N
  BY LenProperties
<1>2. DOMAIN answers = 1..N /\ \A n \in 1..N : answers[n] = gates[n].answer
  BY <1>1 DEF Gate!AnswersOf
<1>3. gates[0] = Gate!Opened(users) /\ \A n \in 1..N : gates[n] = Gate!Handle(gates[n - 1], requests[n])
  BY <1>1, GateSteps
<1>4. DOMAIN gates[0].store = {}
  BY <1>3 DEF Gate!Opened, Gate!EmptyStore
<1> HIDE DEF gates, answers, N
<1>5. ASSUME NEW n \in 1..N
      PROVE  /\ answers[n] = gates[n].answer /\ IsMetered(answers[n].key)
             /\ Gate!Passed(answers[n]) = Metered(n).allowed
             /\ answers[n].retryAfter = Metered(n).retryAfter
             /\ gates[n].store = Metered(n).store
             /\ answers[n].at = requests[n].at
  <2> DEFINE gate == gates[n - 1]
             signedIn == Gate!AuthenticateRequest(requests[n], gate.users)
             key == Gate!RateLimitKey(signedIn.user, requests[n])
             metered == Gate!Consume(gate.store, key, requests[n].at)
  <2>1. /\ gates[n].store = metered.store
        /\ gates[n].answer = [at |-> requests[n].at, key |-> key, user |-> signedIn.user,
                              code |-> Gate!Admitted(requests[n].path, signedIn.user, metered),
                              retryAfter |-> metered.retryAfter]
    <3>1. gates[n] = Gate!Handle(gate, requests[n]) BY <1>3, <1>5
    <3> QED BY <3>1, Handles
  <2>2. answers[n] = gates[n].answer
    BY <1>2
  <2>3. IsMetered(key)
    BY KeysAreMetered
  <2>4. metered.allowed \in BOOLEAN
    BY AllowedOrNot
  <2> HIDE DEF metered, key, signedIn
  <2>5. answers[n].key = key /\ answers[n].at = requests[n].at /\ answers[n].retryAfter = metered.retryAfter
        /\ answers[n].code = Gate!Admitted(requests[n].path, signedIn.user, metered)
    BY <2>1, <2>2
  <2>6. Metered(n) = metered
    BY <2>5 DEF metered
  <2>7. Gate!Passed(answers[n]) = metered.allowed
    BY <2>4, <2>5 DEF Gate!Passed, Gate!Admitted
  <2> QED BY <2>1, <2>2, <2>3, <2>5, <2>6, <2>7
<1>6. InOrderOfTime(answers)
  BY <1>1, <1>2, <1>5 DEF InTime, IsRequest, InOrderOfTime
<1> QED BY <1>1, <1>2, <1>4, <1>5, <1>6 DEF gates, answers, N

\* So every key stands after every request.
LEMMA EveryKeyStands ==
  ASSUME NEW requests, NEW users, requests \in Seq(ToSet(requests)), InTime(requests), NEW key, IsMetered(key)
  PROVE  \A n \in 0..Len(requests) :
           KeyStands(Gate!Gates(requests, users)[n].store, Gate!AnswersOf(requests, users), n, key)
<1> DEFINE gates   == Gate!Gates(requests, users)
           answers == Gate!AnswersOf(requests, users)
           N == Len(requests)
           Wrong == {n \in 0..N : ~KeyStands(gates[n].store, answers, n, key)}
<1>1. /\ N \in Nat /\ DOMAIN answers = 1..N /\ InOrderOfTime(answers) /\ DOMAIN gates[0].store = {}
      /\ \A n \in 1..N : /\ Gate!Passed(answers[n]) =
                              Gate!Consume(gates[n - 1].store, answers[n].key, answers[n].at).allowed
                         /\ gates[n].store = Gate!Consume(gates[n - 1].store, answers[n].key, answers[n].at).store
  BY AnswersAre
<1> HIDE DEF gates, answers, N
<1>2. KeyStands(gates[0].store, answers, 0, key)
  <2>1. key \notin DOMAIN gates[0].store
    BY <1>1
  <2>2. PassesTo(answers, 0, key) = {}
    BY DEF PassesTo
  <2> QED BY <2>1, <2>2 DEF KeyStands
<1>3. Wrong = {}
  <2> SUFFICES ASSUME Wrong # {} PROVE FALSE
    OBVIOUS
  <2>1. Wrong \in SUBSET Nat OBVIOUS
  <2>2. PICK n \in Wrong : \A k \in Wrong : n <= k
    <3> HIDE DEF Wrong
    <3> QED BY <2>1, LeastNumber
  <2>3. n \in 0..N /\ ~KeyStands(gates[n].store, answers, n, key) OBVIOUS
  <2>4. n # 0 BY <1>2, <2>3
  <2>5. n \in Nat \ {0} /\ n \in 1..N /\ n - 1 \in 0..N /\ 1..n \subseteq DOMAIN answers
    <3> HIDE DEF Wrong
    <3> QED BY <1>1, <2>3, <2>4
  <2>6. n - 1 \notin Wrong
    <3> HIDE DEF Wrong
    <3> QED BY <2>2, <2>5
  <2>7. KeyStands(gates[n - 1].store, answers, n - 1, key) BY <2>5, <2>6
  <2> HIDE DEF Wrong
  <2> QED BY <1>1, <2>3, <2>5, <2>7, RequestStands
<1> QED BY <1>3 DEF gates, answers, N

\* The gate counts as everywhere else.
LEMMA GateCounts == \A S : Gate!Cardinality(S) = Cardinality(S)
BY DEF Gate!Cardinality, Cardinality, Gate!IsFiniteSet, IsFiniteSet

\* No span of one window lets twice the limit through, and a refusal comes after a
\* full window: the entry of the key, as it stands, counts both.
LEMMA LimitsAreKept ==
  ASSUME NEW requests, NEW users, requests \in Seq(ToSet(requests)), InTime(requests)
  PROVE  Gate!LimitsHold(Gate!AnswersOf(requests, users))
<1> DEFINE gates == Gate!Gates(requests, users)
<1> SUFFICES ASSUME NEW answers, answers = Gate!AnswersOf(requests, users) PROVE Gate!LimitsHold(answers)
  OBVIOUS
<1> DEFINE N == Len(requests)
<1>1. /\ N \in Nat /\ DOMAIN answers = 1..N /\ InOrderOfTime(answers)
      /\ \A n \in 1..N : /\ IsMetered(answers[n].key)
                         /\ Gate!Passed(answers[n]) =
                              Gate!Consume(gates[n - 1].store, answers[n].key, answers[n].at).allowed
  BY AnswersAre
<1>2. \A key : IsMetered(key) => \A n \in 0..N : KeyStands(gates[n].store, answers, n, key)
  BY EveryKeyStands
<1> HIDE DEF N, gates
<1> SUFFICES ASSUME NEW i \in DOMAIN answers
             PROVE  /\ Cardinality(Gate!PassesOf(answers, answers[i].key, answers[i].at,
                                                 answers[i].at + WindowOf(answers[i].key)))
                         < 2 * LimitOf(answers[i].key)
                    /\ ~Gate!Passed(answers[i]) =>
                         Cardinality(Gate!PassesOf(answers, answers[i].key,
                                                   answers[i].at - WindowOf(answers[i].key), answers[i].at + 1))
                           >= LimitOf(answers[i].key)
  BY GateCounts, Zenon DEF Gate!LimitsHold, WindowOf, LimitOf
<1>0. i \in 1..N
  BY <1>1
<1> DEFINE key == answers[i].key
           now == answers[i].at
           window == WindowOf(key)
           max == LimitOf(key)
           P == PassesTo(answers, N, key)
           at == Times(answers)
<1>3. window \in Nat \ {0} /\ max \in Nat \ {0} /\ now \in Nat
  BY <1>0, <1>1 DEF IsMetered, InOrderOfTime
<1>4. IsFiniteSet(P) /\ P \subseteq 1..N
  <2>1. P \subseteq 1..N BY DEF PassesTo
  <2>2. IsFiniteSet(1..N) BY <1>1, FS_Interval
  <2> HIDE DEF P
  <2> QED BY <2>1, <2>2, FS_Subset
<1>5. \A from, to : Gate!PassesOf(answers, key, from, to) = Within(P, at, from, to)
  BY <1>1 DEF Gate!PassesOf, Within, PassesTo, Times
<1>6. Cardinality(Within(P, at, now, now + window)) < 2 * max
  <2>1. KeyStands(gates[N].store, answers, N, key)
    BY <1>0, <1>1, <1>2
  <2>2. CASE key \in DOMAIN gates[N].store
    <3>1. WindowStands(P, at, window, max, gates[N].store[key].resetAt - window, gates[N].store[key].count)
      BY <2>1, <2>2 DEF KeyStands
    <3>2. now \in Int BY <1>3
    <3> DEFINE Span(t) == Cardinality(Within(P, at, t, t + window))
    <3>3. \A t \in Int : Span(t) < 2 * max
      <4> HIDE DEF P, at, window, max
      <4> QED BY <3>1 DEF WindowStands
    <3> HIDE DEF Span, now
    <3>4. Span(now) < 2 * max
      BY <3>2, <3>3
    <3> QED BY <3>4 DEF Span
  <2>3. CASE key \notin DOMAIN gates[N].store
    <3>1. Within(P, at, now, now + window) = {}
      BY <2>1, <2>3 DEF KeyStands, Within
    <3>2. Cardinality({}) = 0 BY FS_EmptySet
    <3> HIDE DEF P, at, window, max, now
    <3>3. Cardinality(Within(P, at, now, now + window)) = 0
      BY <3>1, <3>2, Zenon
    <3> QED BY <1>3, <3>3
  <2> QED BY <2>2, <2>3
<1>7. ASSUME ~Gate!Passed(answers[i]) PROVE Cardinality(Within(P, at, now - window, now + 1)) >= max
  <2> DEFINE store == gates[i - 1].store
             before == PassesTo(answers, i - 1, key)
             start == store[key].resetAt - window
             inside == Within(before, at, start, start + window)
             last == Within(P, at, now - window, now + 1)
  <2>1. i - 1 \in 0..N /\ KeyStands(store, answers, i - 1, key)
    BY <1>0, <1>1, <1>2
  <2>2. key \in DOMAIN store /\ ~(store[key].resetAt <= now) /\ store[key].count >= max
    <3>1. ~Gate!Consume(store, key, now).allowed
      BY <1>0, <1>1, <1>7
    <3> QED BY <3>1, Consumes
  <2>3. /\ store[key].resetAt \in Int /\ store[key].count \in Nat
        /\ WindowStands(before, at, window, max, start, store[key].count)
    BY <2>1, <2>2 DEF KeyStands
  <2>4. Cardinality(inside) >= max
    BY <2>2, <2>3 DEF WindowStands
  <2>5. inside \subseteq last
    <3> SUFFICES ASSUME NEW j \in inside PROVE j \in last
      OBVIOUS
    <3>1. j \in before /\ start <= at[j]
      BY DEF Within
    <3>2. j \in P /\ j \in 1..N /\ j <= i
      BY <1>0, <1>1, <3>1 DEF PassesTo
    <3>3. at[j] = answers[j].at /\ at[j] \in Nat /\ at[j] <= now
      BY <1>1, <3>2 DEF Times, InOrderOfTime
    <3>4. now - window <= at[j] /\ at[j] < now + 1
      <4>1. store[key].resetAt \in Int /\ store[key].resetAt - window <= at[j] /\ ~(store[key].resetAt <= now)
        BY <2>2, <2>3, <3>1
      <4> DEFINE end == store[key].resetAt
                 time == at[j]
      <4>2. end \in Int /\ end - window <= time /\ ~(end <= now) /\ time \in Nat /\ time <= now
        BY <3>3, <4>1
      <4> HIDE DEF end, time, window, now
      <4>3. now - window <= time /\ time < now + 1
        BY <1>3, <4>2
      <4> QED BY <4>3 DEF time
    <3> QED BY <3>2, <3>4 DEF Within
  <2>6. IsFiniteSet(last) /\ Cardinality(last) \in Nat
    BY <1>4, WithinIsFinite
  <2>7. Cardinality(inside) <= Cardinality(last) /\ Cardinality(inside) \in Nat
    <3> HIDE DEF inside, last
    <3> QED BY <2>5, <2>6, FS_Subset, FS_CardinalityType
  <2> HIDE DEF inside, last, max
  <2>8. Cardinality(last) >= max
    BY <1>3, <2>4, <2>6, <2>7
  <2> QED BY <2>8 DEF last
<1> QED BY <1>5, <1>6, <1>7

\* Consuming looks at its own key only.
LEMMA ConsumesItsKey ==
  ASSUME NEW store, NEW other, NEW key, NEW now,
         key \in DOMAIN store <=> key \in DOMAIN other, key \in DOMAIN store => store[key] = other[key]
  PROVE  LET here  == Gate!Consume(store, key, now)
             there == Gate!Consume(other, key, now)
         IN  /\ here.allowed = there.allowed /\ here.retryAfter = there.retryAfter
             /\ key \in DOMAIN here.store <=> key \in DOMAIN there.store
             /\ key \in DOMAIN here.store => here.store[key] = there.store[key]
<1> DEFINE here  == Gate!Consume(store, key, now)
           there == Gate!Consume(other, key, now)
           isNew == key \notin DOMAIN store \/ store[key].resetAt <= now
           Alike == /\ here.allowed = there.allowed /\ here.retryAfter = there.retryAfter
                    /\ key \in DOMAIN here.store <=> key \in DOMAIN there.store
                    /\ key \in DOMAIN here.store => here.store[key] = there.store[key]
<1>1. isNew = (key \notin DOMAIN other \/ other[key].resetAt <= now)
  OBVIOUS
<1>2. /\ here.allowed = (isNew \/ ~(store[key].count >= LimitOf(key)))
      /\ here.retryAfter = IF here.allowed THEN 0 ELSE store[key].resetAt - now
      /\ ~here.allowed => here.store = store
      /\ here.allowed => DOMAIN here.store = DOMAIN store \cup {key}
      /\ isNew => here.store[key] = [count |-> 1, resetAt |-> now + WindowOf(key)]
      /\ here.allowed /\ ~isNew => here.store[key] = [store[key] EXCEPT !.count = @ + 1]
  BY Consumes
<1>3. /\ there.allowed = (isNew \/ ~(other[key].count >= LimitOf(key)))
      /\ there.retryAfter = IF there.allowed THEN 0 ELSE other[key].resetAt - now
      /\ ~there.allowed => there.store = other
      /\ there.allowed => DOMAIN there.store = DOMAIN other \cup {key}
      /\ isNew => there.store[key] = [count |-> 1, resetAt |-> now + WindowOf(key)]
      /\ there.allowed /\ ~isNew => there.store[key] = [other[key] EXCEPT !.count = @ + 1]
  BY <1>1, Consumes
<1> HIDE DEF here, there
<1>4. ASSUME isNew PROVE Alike
  <2>1. here.allowed /\ there.allowed
    BY <1>2, <1>3, <1>4
  <2> HIDE DEF isNew
  <2> QED BY <1>2, <1>3, <1>4, <2>1
<1>5. ASSUME ~isNew PROVE Alike
  <2>1. key \in DOMAIN store /\ key \in DOMAIN other /\ store[key] = other[key]
    BY <1>5
  <2> HIDE DEF isNew
  <2>2. here.allowed = there.allowed /\ here.retryAfter = there.retryAfter
    BY <1>2, <1>3, <1>5, <2>1
  <2>3. CASE here.allowed
    BY <1>2, <1>3, <1>5, <2>1, <2>2, <2>3
  <2>4. CASE ~here.allowed
    BY <1>2, <1>3, <2>1, <2>2, <2>4
  <2> QED BY <2>3, <2>4
<1>6. Alike
  BY <1>4, <1>5
<1> QED BY <1>6 DEF here, there

\* The requests of other keys change nothing for a key: its entry is the same in the
\* store of all keys and in that of its own requests.
LEMMA KeysStayApart ==
  ASSUME NEW requests, NEW users, requests \in Seq(ToSet(requests)), InTime(requests)
  PROVE  Gate!KeysAreApart(Gate!AnswersOf(requests, users))
<1> DEFINE gates == Gate!Gates(requests, users)
           N == Len(requests)
<1> SUFFICES ASSUME NEW answers, answers = Gate!AnswersOf(requests, users) PROVE Gate!KeysAreApart(answers)
  OBVIOUS
<1>1. /\ N \in Nat /\ DOMAIN answers = 1..N /\ DOMAIN gates[0].store = {}
      /\ \A n \in 1..N : LET metered == Gate!Consume(gates[n - 1].store, answers[n].key, answers[n].at)
                         IN  /\ Gate!Passed(answers[n]) = metered.allowed
                             /\ answers[n].retryAfter = metered.retryAfter
                             /\ gates[n].store = metered.store
  BY AnswersAre
<1>2. Len(answers) = N
  <2>1. answers \in Seq(ToSet(answers))
    <3>1. answers = [n \in 1..N |-> answers[n]] BY <1>1 DEF Gate!AnswersOf
    <3>2. \A n \in 1..N : answers[n] \in ToSet(answers) BY <1>1 DEF ToSet
    <3> HIDE DEF N
    <3>3. answers \in [1..N -> ToSet(answers)]
      BY <3>1, <3>2
    <3> QED BY <1>1, <3>3, SeqDef
  <2> QED BY <1>1, <2>1, LenProperties
<1> HIDE DEF N, gates
<1> SUFFICES ASSUME NEW i \in DOMAIN answers
             PROVE  /\ Gate!Alone(answers, answers[i].key)[i].allowed = Gate!Passed(answers[i])
                    /\ Gate!Alone(answers, answers[i].key)[i].retryAfter = answers[i].retryAfter
  BY DEF Gate!KeysAreApart
<1> DEFINE key == answers[i].key
           alone == Gate!Alone(answers, key)
           Same(n) == /\ key \in DOMAIN gates[n].store <=> key \in DOMAIN alone[n].store
                      /\ key \in DOMAIN gates[n].store => gates[n].store[key] = alone[n].store[key]
           Wrong == {n \in 0..N : ~Same(n)}
<1>3. /\ alone[0] = [allowed |-> TRUE, retryAfter |-> 0, store |-> Gate!EmptyStore]
      /\ \A n \in 1..N : alone[n] = IF answers[n].key = key THEN Gate!Consume(alone[n - 1].store, key, answers[n].at)
                                    ELSE alone[n - 1]
  <2> HIDE DEF N, key
  <2>1. Len(answers) \in Nat
    BY <1>1, <1>2
  <2>2. alone = Gate!Alone(answers, key)
    OBVIOUS
  <2> HIDE DEF alone
  <2>3. /\ alone[0] = [allowed |-> TRUE, retryAfter |-> 0, store |-> Gate!EmptyStore]
        /\ \A n \in 1..Len(answers) :
             alone[n] = IF answers[n].key = key THEN Gate!Consume(alone[n - 1].store, key, answers[n].at)
                        ELSE alone[n - 1]
    <3>1. StepsAlone(alone, answers, key)
      BY <2>1, <2>2, AloneSteps
    <3> QED BY <3>1 DEF StepsAlone
  <2> QED BY <1>2, <2>3
<1> HIDE DEF key, alone
<1>4. ASSUME NEW n \in 1..N, Same(n - 1) PROVE Same(n)
  <2> DEFINE store == gates[n - 1].store
             metered == Gate!Consume(store, answers[n].key, answers[n].at)
  <2>1. gates[n].store = metered.store
    BY <1>1
  <2>2. CASE answers[n].key = key
    <3>1. alone[n] = Gate!Consume(alone[n - 1].store, key, answers[n].at)
      BY <1>3, <2>2
    <3>2. gates[n].store = Gate!Consume(store, key, answers[n].at).store
      BY <2>1, <2>2
    <3> QED BY <1>4, <3>1, <3>2, ConsumesItsKey
  <2>3. CASE answers[n].key # key
    <3>1. alone[n] = alone[n - 1]
      BY <1>3, <2>3
    <3>2. (key \in DOMAIN metered.store <=> key \in DOMAIN store)
          /\ (key \in DOMAIN store => metered.store[key] = store[key])
      <4> DEFINE other == answers[n].key
                 now == answers[n].at
      <4>1. metered = Gate!Consume(store, other, now)
        OBVIOUS
      <4> HIDE DEF metered, store, other, now
      <4>2. ~metered.allowed => metered.store = store
        BY <4>1, ConsumeRefuses
      <4>3. metered.allowed => /\ DOMAIN metered.store = DOMAIN store \cup {other}
                               /\ \A k \in DOMAIN store \ {other} : metered.store[k] = store[k]
        BY <4>1, ConsumeWritesItsKey
      <4>4. other # key
        BY <2>3 DEF other
      <4>5. metered.allowed \in BOOLEAN
        BY <4>1, AllowedOrNot
      <4> QED BY <4>2, <4>3, <4>4, <4>5
    <3> HIDE DEF metered
    <3> QED BY <1>4, <2>1, <3>1, <3>2
  <2> QED BY <2>2, <2>3
<1>5. Same(0)
  BY <1>1, <1>3 DEF Gate!EmptyStore
<1> HIDE DEF Same
<1>6. Wrong = {}
  <2> SUFFICES ASSUME Wrong # {} PROVE FALSE
    OBVIOUS
  <2>1. Wrong \in SUBSET Nat OBVIOUS
  <2>2. PICK n \in Wrong : \A k \in Wrong : n <= k
    <3> HIDE DEF Wrong
    <3> QED BY <2>1, LeastNumber
  <2>3. n \in 0..N /\ ~Same(n) OBVIOUS
  <2>4. n # 0 BY <1>5, <2>3
  <2>5. n \in Nat /\ n \in 1..N /\ n - 1 \in 0..N
    <3> HIDE DEF Wrong
    <3> QED BY <1>1, <2>3, <2>4
  <2>6. n - 1 \notin Wrong
    <3> HIDE DEF Wrong
    <3> QED BY <2>2, <2>5
  <2>7. Same(n - 1) BY <2>5, <2>6
  <2> HIDE DEF Wrong
  <2> QED BY <1>4, <2>3, <2>5, <2>7
<1>7. i \in 1..N /\ i - 1 \in 0..N /\ Same(i - 1) /\ answers[i].key = key
  BY <1>1, <1>6 DEF key
<1>8. alone[i] = Gate!Consume(alone[i - 1].store, key, answers[i].at)
  BY <1>3, <1>7
<1>9. /\ Gate!Passed(answers[i]) = Gate!Consume(gates[i - 1].store, key, answers[i].at).allowed
      /\ answers[i].retryAfter = Gate!Consume(gates[i - 1].store, key, answers[i].at).retryAfter
  BY <1>1, <1>7
<1>10. alone[i].allowed = Gate!Passed(answers[i]) /\ alone[i].retryAfter = answers[i].retryAfter
  <2> USE DEF Same
  <2>1. /\ key \in DOMAIN gates[i - 1].store <=> key \in DOMAIN alone[i - 1].store
        /\ key \in DOMAIN gates[i - 1].store => gates[i - 1].store[key] = alone[i - 1].store[key]
    BY <1>7
  <2> QED BY <1>8, <1>9, <2>1, ConsumesItsKey
<1> QED BY <1>10 DEF alone, key

\* A request made again comes from the same user, with the same key.
LEMMA SameUser ==
  ASSUME NEW request, NEW again, again.cookie = request.cookie, again.oauth = request.oauth, NEW users
  PROVE  Gate!AuthenticateRequest(again, Gate!AuthenticateRequest(request, users).users).user
           = Gate!AuthenticateRequest(request, users).user
BY DEF Gate!AuthenticateRequest, Gate!SyncedUser, Gate!SeenAt, Gate!VerifySession

\* A request made again after the time it was told finds its window over.
LEMMA RetriesHelp ==
  ASSUME NEW requests, NEW users, requests \in Seq(ToSet(requests)), InTime(requests)
  PROVE  Gate!RetryHelps(requests, users)
<1> DEFINE gates   == Gate!Gates(requests, users)
           answers == Gate!AnswersOf(requests, users)
           N == Len(requests)
<1>1. /\ N \in Nat /\ DOMAIN requests = 1..N /\ InOrderOfTime(answers) /\ DOMAIN answers = 1..N
      /\ \A n \in 1..N : LET metered == Gate!Consume(gates[n - 1].store, answers[n].key, answers[n].at)
                         IN  /\ answers[n] = gates[n].answer /\ IsMetered(answers[n].key)
                             /\ Gate!Passed(answers[n]) = metered.allowed
                             /\ answers[n].retryAfter = metered.retryAfter
                             /\ gates[n].store = metered.store
  BY AnswersAre
<1>2. \A n \in 1..N : gates[n] = Gate!Handle(gates[n - 1], requests[n])
  BY <1>1, GateSteps
<1>3. \A k : IsMetered(k) => \A n \in 0..N : KeyStands(gates[n].store, answers, n, k)
  BY EveryKeyStands
<1> SUFFICES ASSUME NEW i \in DOMAIN requests, ~Gate!Passed(gates[i].answer)
             PROVE  LET again == [requests[i] EXCEPT !.at = @ + gates[i].answer.retryAfter]
                    IN  gates[i].answer.retryAfter > 0 /\ Gate!Passed(Gate!Handle(gates[i], again).answer)
  BY DEF Gate!RetryHelps
<1> HIDE DEF gates, answers, N
<1> DEFINE request == requests[i]
           told == gates[i].answer
           again == [request EXCEPT !.at = @ + told.retryAfter]
           store == gates[i - 1].store
           signedIn == Gate!AuthenticateRequest(request, gates[i - 1].users)
           key == Gate!RateLimitKey(signedIn.user, request)
           metered == Gate!Consume(store, key, request.at)
<1>4. i \in 1..N /\ i - 1 \in 0..N
  BY <1>1
<1>5. /\ gates[i].users = signedIn.users /\ gates[i].store = metered.store
      /\ told = [at |-> request.at, key |-> key, user |-> signedIn.user,
                 code |-> Gate!Admitted(request.path, signedIn.user, metered), retryAfter |-> metered.retryAfter]
  BY <1>2, <1>4, Handles
<1> HIDE DEF told, metered, key, signedIn
<1>6. answers[i] = told /\ told.key = key /\ told.at = request.at /\ told.retryAfter = metered.retryAfter
  BY <1>1, <1>4, <1>5 DEF told
<1>7. ~metered.allowed
  BY <1>1, <1>4, <1>6 DEF told, metered
<1>8. /\ key \in DOMAIN store /\ ~(store[key].resetAt <= request.at)
      /\ metered.retryAfter = store[key].resetAt - request.at /\ metered.store = store
  <2>1. metered.allowed
          = (key \notin DOMAIN store \/ store[key].resetAt <= request.at \/ ~(store[key].count >= LimitOf(key)))
    BY ConsumeAllows, Zenon DEF metered
  <2>2. metered.store = store /\ metered.retryAfter = store[key].resetAt - request.at
    <3> DEFINE now == request.at
    <3>1. metered = Gate!Consume(store, key, now)
      BY DEF metered
    <3> HIDE DEF store, now
    <3> QED BY <1>7, <3>1, ConsumeRefuses DEF now
  <2> QED BY <1>7, <2>1, <2>2
<1>9. store[key].resetAt \in Int
  BY <1>1, <1>3, <1>4, <1>6, <1>8 DEF KeyStands
<1>10. IsRequest(request) /\ request.at \in Nat
  BY DEF InTime, IsRequest
<1>11. told.retryAfter > 0 /\ request.at + told.retryAfter = store[key].resetAt
  <2> DEFINE end == store[key].resetAt
             now == request.at
             wait == told.retryAfter
  <2>1. end \in Int /\ now \in Nat /\ wait = end - now /\ ~(end <= now)
    BY <1>6, <1>8, <1>9, <1>10
  <2> HIDE DEF end, now, wait
  <2>2. wait > 0 /\ now + wait = end
    BY <2>1
  <2> QED BY <2>2 DEF end, now, wait
<1>12. /\ again.at = store[key].resetAt /\ again.cookie = request.cookie /\ again.oauth = request.oauth
       /\ again.path = request.path /\ again.ip = request.ip
  BY <1>10, <1>11 DEF IsRequest
<1> DEFINE last == Gate!AuthenticateRequest(again, gates[i].users)
           again2 == Gate!Consume(gates[i].store, Gate!RateLimitKey(last.user, again), again.at)
<1> HIDE DEF again
<1>13. last.user = signedIn.user
  <2> DEFINE seen == gates[i - 1].users
  <2>1. Gate!AuthenticateRequest(again, Gate!AuthenticateRequest(request, seen).users).user
          = Gate!AuthenticateRequest(request, seen).user
    BY <1>12, SameUser
  <2>2. gates[i].users = Gate!AuthenticateRequest(request, seen).users
    BY <1>5 DEF signedIn
  <2> QED BY <2>1, <2>2 DEF signedIn
<1>14. Gate!RateLimitKey(last.user, again) = key
  BY <1>12, <1>13 DEF Gate!RateLimitKey, Gate!PartyOf, key
<1>15. again2.allowed
  <2>1. again2 = Gate!Consume(store, key, again.at)
    BY <1>5, <1>8, <1>14
  <2>2. store[key].resetAt <= again.at
    BY <1>9, <1>12
  <2> HIDE DEF again2
  <2>3. Gate!Consume(store, key, again.at).allowed
          = (key \notin DOMAIN store \/ store[key].resetAt <= again.at \/ ~(store[key].count >= LimitOf(key)))
    BY ConsumeAllows, Zenon
  <2> QED BY <2>1, <2>2, <2>3
<1>16. Gate!Handle(gates[i], again).answer =
         [at |-> again.at, key |-> Gate!RateLimitKey(last.user, again), user |-> last.user,
          code |-> Gate!Admitted(again.path, last.user, again2), retryAfter |-> again2.retryAfter]
  BY Handles
<1>17. Gate!Passed(Gate!Handle(gates[i], again).answer)
  <2> HIDE DEF again2, last
  <2>1. Gate!Handle(gates[i], again).answer.code = Gate!Admitted(again.path, last.user, again2)
    BY <1>16
  <2> QED BY <1>15, <2>1 DEF Gate!Passed, Gate!Admitted
<1> QED BY <1>11, <1>17 DEF again, told

\* So the gate meters whatever requests come in the order of the clock.
LEMMA GateMeters ==
  ASSUME input \in Inputs PROVE RequestsAreMetered
<1> SUFFICES ASSUME input.kind = "gate" PROVE Gate!RequestsAreMetered(input.requests, input.users)
  BY DEF RequestsAreMetered
<1>1. input.requests \in Seq(ToSet(input.requests)) /\ InTime(input.requests)
  BY ReportInputs
<1> QED BY <1>1, LimitsAreKept, KeysStayApart, RetriesHelp DEF Gate!RequestsAreMetered

\* In no window does a user or visitor get through twice the limit of a procedure,
\* nobody within the limit is refused or loses by the requests of others, and who
\* waits as told is served, for any number of requests in the order of the clock.
THEOREM GateKeepsItsLimits == PageSpec => []RequestsAreMetered
<1>1. PageTypeOK => RequestsAreMetered
  <2> SUFFICES ASSUME PageTypeOK PROVE RequestsAreMetered
    OBVIOUS
  <2>1. input \in Inputs
    BY DEF PageTypeOK
  <2> QED BY <2>1, GateMeters
<1>2. PageSpec => []PageTypeOK
  BY PageTypeInit, PageTypeStep, PTL DEF PageSpec
<1> QED BY <1>1, <1>2, PTL

-----------------------------------------------------------------------------
(***************************************************************************)
(* The counts of an exported report.                                       *)
(***************************************************************************)
\* The numbers from 1 are as many as the last says.
LEMMA UpTo == \A n \in Nat : IsFiniteSet(1..n) /\ Cardinality(1..n) = n
<1> SUFFICES ASSUME NEW n \in Nat PROVE IsFiniteSet(1..n) /\ Cardinality(1..n) = n
  OBVIOUS
<1> QED BY FS_Interval

\* How many of n items have a value, and one of m values.
HowMany(of, n, value) == Cardinality({i \in 1..n : of[i] = value})
HowManyOf(of, n, key, m) == Cardinality({i \in 1..n : \E k \in 1..m : of[i] = key[k]})

\* What is counted for each of some files, all together.
LEMMA SharedOut ==
  ASSUME NEW n \in Nat, NEW m \in Nat, NEW key, \A k, l \in 1..m : key[k] = key[l] => k = l, NEW of,
         NEW list, DOMAIN list = 1..m, \A k \in 1..m : list[k].count = HowMany(of, n, key[k])
  PROVE  CountOf(list) = HowManyOf(of, n, key, m)
<1> DEFINE W == 1..n
           parts == [k \in 1..m |-> {i \in W : of[i] = key[k]}]
<1>1. IsFiniteSet(W) BY UpTo
<1>2. /\ parts \in [1..m -> SUBSET W] /\ \A k \in 1..m : parts[k] = {i \in W : of[i] = key[k]}
  OBVIOUS
<1>3. Disjoint(parts, m) BY <1>2 DEF Disjoint
<1>4. Covered(parts, 1..m) = {i \in W : \E k \in 1..m : of[i] = key[k]} BY <1>2 DEF Covered
<1>5. \A k \in 1..m : list[k].count = Cardinality(parts[k]) BY <1>2 DEF HowMany
<1> HIDE DEF parts, W
<1>6. CountOf(list) = Cardinality(Covered(parts, 1..m)) BY <1>1, <1>2, <1>3, <1>5, PartsAddUp
<1> QED BY <1>4, <1>6 DEF W, HowManyOf

\* All items are counted when each has one of the values.
LEMMA EveryOne ==
  ASSUME NEW n \in Nat, NEW m, NEW key, NEW of, \A i \in 1..n : \E k \in 1..m : of[i] = key[k]
  PROVE  HowManyOf(of, n, key, m) = n
<1>1. {i \in 1..n : \E k \in 1..m : of[i] = key[k]} = 1..n OBVIOUS
<1> QED BY <1>1, UpTo DEF HowManyOf

\* Filtering keeps as many as there are.
LEMMA CountKept ==
  ASSUME NEW rows, Len(rows) \in Nat, DOMAIN rows = 1..Len(rows), NEW kept \in SUBSET (1..Len(rows))
  PROVE  Len(RowsAt(rows, kept)) = Cardinality(kept)
BY KeptRows

\* CountBy counts the rows of a file.
LEMMA CountsBy ==
  ASSUME NEW rows, Len(rows) \in Nat, DOMAIN rows = 1..Len(rows), NEW path
  PROVE  CountBy(rows, path) = Cardinality({i \in 1..Len(rows) : rows[i].file = path})
<1> DEFINE kept == {i \in 1..Len(rows) : rows[i].file = path}
<1>1. CountBy(rows, path) = Len(RowsAt(rows, {i \in DOMAIN rows : rows[i].file = path}))
  BY DEF CountBy, Filtered
<1>2. kept \in SUBSET (1..Len(rows)) /\ {i \in DOMAIN rows : rows[i].file = path} = kept
  OBVIOUS
<1> HIDE DEF kept
<1>3. CountBy(rows, path) = Cardinality(kept)
  BY <1>1, <1>2, CountKept
<1> QED BY <1>3 DEF kept

\* The lists of a snapshot are lists, and its findings lie in its files.
LEMMA SnapshotLists ==
  ASSUME NEW snapshot, IsSnapshot(snapshot)
  PROVE  /\ \A rows \in {snapshot.files, snapshot.symbols, snapshot.risks, snapshot.rules,
                         snapshot.dependencies, snapshot.traces} :
              Len(rows) \in Nat /\ DOMAIN rows = 1..Len(rows)
         /\ \A k \in 1..Len(snapshot.files) : snapshot.files[k].key \in Nat /\ snapshot.files[k].key # Absent
         /\ \A k, l \in 1..Len(snapshot.files) : snapshot.files[k].key = snapshot.files[l].key => k = l
         /\ \A i \in 1..Len(snapshot.symbols) :
              \E k \in 1..Len(snapshot.files) : snapshot.symbols[i].file = snapshot.files[k].key
         /\ \A i \in 1..Len(snapshot.risks) :
              \E k \in 1..Len(snapshot.files) : snapshot.risks[i].file = snapshot.files[k].key
         /\ \A i \in 1..Len(snapshot.rules) : snapshot.rules[i].file \in Nat
         /\ \A i \in 1..Len(snapshot.traces) : snapshot.traces[i].status \in {"complete", "partial", "unresolved"}
<1> DEFINE files == snapshot.files
           paths == {file.key : file \in ToSet(files)}
<1>1. /\ snapshot.files \in Seq([key : Nat \ {Absent}, type : STRING])
      /\ \A m, n \in DOMAIN snapshot.files : snapshot.files[m].key = snapshot.files[n].key => m = n
      /\ snapshot.symbols \in Seq([key : Nat, file : paths]) /\ snapshot.risks \in Seq([file : paths])
      /\ snapshot.rules \in Seq([file : Nat]) /\ snapshot.dependencies \in Seq([from : Nat, to : Nat])
      /\ snapshot.traces \in Seq([status : {"complete", "partial", "unresolved"}])
  BY DEF IsSnapshot
<1>2. \A rows \in {snapshot.files, snapshot.symbols, snapshot.risks, snapshot.rules,
                    snapshot.dependencies, snapshot.traces} : Len(rows) \in Nat /\ DOMAIN rows = 1..Len(rows)
  <2> HIDE DEF paths
  <2>1. \A S : \A rows \in Seq(S) : Len(rows) \in Nat /\ DOMAIN rows = 1..Len(rows) OBVIOUS
  <2> QED BY <1>1, <2>1, Zenon
<1>3. \A path \in paths : \E k \in 1..Len(files) : path = files[k].key
  <2>1. DOMAIN files = 1..Len(files) BY <1>2
  <2> QED BY <2>1 DEF ToSet
<1> HIDE DEF paths
<1>4. \A S : \A rows \in Seq(S) : \A i \in 1..Len(rows) : rows[i] \in S
  OBVIOUS
<1>5. /\ \A k \in 1..Len(snapshot.files) : snapshot.files[k] \in [key : Nat \ {Absent}, type : STRING]
      /\ \A i \in 1..Len(snapshot.symbols) : snapshot.symbols[i] \in [key : Nat, file : paths]
      /\ \A i \in 1..Len(snapshot.risks) : snapshot.risks[i] \in [file : paths]
      /\ \A i \in 1..Len(snapshot.rules) : snapshot.rules[i] \in [file : Nat]
      /\ \A i \in 1..Len(snapshot.traces) : snapshot.traces[i] \in [status : {"complete", "partial", "unresolved"}]
  BY <1>1, <1>4, Zenon
<1>6. DOMAIN snapshot.files = 1..Len(snapshot.files) BY <1>2
<1>7. \A k, l \in 1..Len(snapshot.files) : snapshot.files[k].key = snapshot.files[l].key => k = l
  BY <1>1, <1>6, Zenon
<1>8. \A k \in 1..Len(snapshot.files) : snapshot.files[k].key \in Nat /\ snapshot.files[k].key # Absent
  BY <1>5
<1>9. \A i \in 1..Len(snapshot.symbols) : \E k \in 1..Len(files) : snapshot.symbols[i].file = files[k].key
  <2>1. \A i \in 1..Len(snapshot.symbols) : snapshot.symbols[i].file \in paths BY <1>5
  <2> QED BY <1>3, <2>1, Zenon
<1>10. \A i \in 1..Len(snapshot.risks) : \E k \in 1..Len(files) : snapshot.risks[i].file = files[k].key
  <2>1. \A i \in 1..Len(snapshot.risks) : snapshot.risks[i].file \in paths BY <1>5
  <2> QED BY <1>3, <2>1, Zenon
<1>11. /\ \A i \in 1..Len(snapshot.rules) : snapshot.rules[i].file \in Nat
       /\ \A i \in 1..Len(snapshot.traces) : snapshot.traces[i].status \in {"complete", "partial", "unresolved"}
  BY <1>5
<1> QED BY <1>2, <1>7, <1>8, <1>9, <1>10, <1>11, Zenon

\* A symbol has one of the files, or is not there.
LEMMA SymbolsHaveFiles ==
  ASSUME NEW snapshot, IsSnapshot(snapshot), NEW key
  PROVE  \/ FileOfSymbol(snapshot, key) = Absent
         \/ \E k \in 1..Len(snapshot.files) : FileOfSymbol(snapshot, key) = snapshot.files[k].key
<1> DEFINE n == Len(snapshot.symbols)
           same == {i \in DOMAIN snapshot.symbols : snapshot.symbols[i].key = key}
<1>1. /\ n \in Nat /\ DOMAIN snapshot.symbols = 1..n
      /\ \A i \in 1..n : \E k \in 1..Len(snapshot.files) : snapshot.symbols[i].file = snapshot.files[k].key
  BY SnapshotLists
<1>2. FileOfSymbol(snapshot, key) = IF same = {} THEN Absent ELSE snapshot.symbols[Max(same)].file
  BY DEF FileOfSymbol
<1>3. same \in SUBSET (1..n) BY <1>1
<1> HIDE DEF same, n
<1>4. same # {} => Max(same) \in 1..n BY <1>1, <1>3, GreatestNumber
<1> QED BY <1>1, <1>2, <1>4

\* Each row of the inventory counts what lies in its file.
LEMMA InventoryRows ==
  ASSUME NEW snapshot, IsSnapshot(snapshot)
  PROVE  LET inventory == FileInventory(snapshot)
             files == snapshot.files
             symbols == snapshot.symbols
             risks == snapshot.risks
             deps == snapshot.dependencies
         IN  /\ DOMAIN inventory = 1..Len(files)
             /\ \A k \in 1..Len(files) :
                  /\ inventory[k]["symbols"] = Cardinality({i \in 1..Len(symbols) : symbols[i].file = files[k].key})
                  /\ inventory[k]["risks"] = Cardinality({i \in 1..Len(risks) : risks[i].file = files[k].key})
                  /\ inventory[k]["dependencies"]
                       = Cardinality({i \in 1..Len(deps) : SourceOf(snapshot, deps[i]) = files[k].key})
<1> DEFINE inventory == FileInventory(snapshot)
           files == snapshot.files
           symbols == snapshot.symbols
           risks == snapshot.risks
           deps == snapshot.dependencies
           FromFile(path) == Filtered(deps, LAMBDA dep : SourceOf(snapshot, dep) = path)
           RowOf(file) == [path |-> file.key, language |-> LanguageOf(file.type),
                           symbols |-> CountBy(symbols, file.key), dependencies |-> Len(FromFile(file.key)),
                           risks |-> CountBy(risks, file.key), warnings |-> CountBy(snapshot.warnings, file.key)]
<1>1. /\ Len(files) \in Nat /\ DOMAIN files = 1..Len(files)
      /\ Len(symbols) \in Nat /\ DOMAIN symbols = 1..Len(symbols)
      /\ Len(risks) \in Nat /\ DOMAIN risks = 1..Len(risks)
      /\ Len(deps) \in Nat /\ DOMAIN deps = 1..Len(deps)
  BY SnapshotLists
<1>2. inventory = [k \in DOMAIN files |-> RowOf(files[k])]
  BY DEF FileInventory, SeqMap
<1>3. ASSUME NEW path
      PROVE  Len(FromFile(path)) = Cardinality({i \in 1..Len(deps) : SourceOf(snapshot, deps[i]) = path})
  <2> DEFINE kept == {i \in 1..Len(deps) : SourceOf(snapshot, deps[i]) = path}
  <2>1. FromFile(path) = RowsAt(deps, {i \in DOMAIN deps : SourceOf(snapshot, deps[i]) = path})
    BY DEF Filtered
  <2>2. {i \in DOMAIN deps : SourceOf(snapshot, deps[i]) = path} = kept /\ kept \in SUBSET (1..Len(deps))
    BY <1>1
  <2> HIDE DEF kept, FromFile, deps
  <2>3. Len(FromFile(path)) = Cardinality(kept) BY <1>1, <2>1, <2>2, CountKept
  <2> QED BY <2>3 DEF kept
<1> HIDE DEF FromFile
<1>4. \A k \in 1..Len(files) :
        /\ inventory[k]["symbols"] = CountBy(symbols, files[k].key)
        /\ inventory[k]["risks"] = CountBy(risks, files[k].key)
        /\ inventory[k]["dependencies"] = Len(FromFile(files[k].key))
  BY <1>1, <1>2
<1>5. DOMAIN inventory = 1..Len(files) BY <1>1, <1>2
<1> HIDE DEF inventory, files, symbols, risks, deps
<1>6. ASSUME NEW path
      PROVE  /\ CountBy(symbols, path) = Cardinality({i \in 1..Len(symbols) : symbols[i].file = path})
             /\ CountBy(risks, path) = Cardinality({i \in 1..Len(risks) : risks[i].file = path})
  BY <1>1, CountsBy
<1> QED BY <1>3, <1>4, <1>5, <1>6 DEF inventory, files, symbols, risks, deps

\* A column of the inventory adds up to the items that lie in some file.
LEMMA ColumnsAddUp ==
  ASSUME NEW inventory, NEW column, NEW m \in Nat, DOMAIN inventory = 1..m, NEW n \in Nat, NEW of, NEW key,
         \A k, l \in 1..m : key[k] = key[l] => k = l,
         \A k \in 1..m : inventory[k][column] = HowMany(of, n, key[k])
  PROVE  InAll(inventory, column) = HowManyOf(of, n, key, m)
<1> DEFINE list == [k \in DOMAIN inventory |-> [count |-> inventory[k][column]]]
<1>1. InAll(inventory, column) = CountOf(list) BY DEF InAll, SeqMap
<1>2. DOMAIN list = 1..m /\ \A k \in 1..m : list[k].count = inventory[k][column]
  OBVIOUS
<1> HIDE DEF list
<1>3. \A k \in 1..m : list[k].count = HowMany(of, n, key[k]) BY <1>2
<1>4. CountOf(list) = HowManyOf(of, n, key, m)
  BY <1>2, <1>3, SharedOut
<1> QED BY <1>1, <1>4

\* The inventory counts every symbol, risk and dependency with a source once.
LEMMA InventoryCounts ==
  ASSUME NEW snapshot, IsSnapshot(snapshot)
  PROVE  InventoryAddsUp(snapshot)
<1> DEFINE inventory == FileInventory(snapshot)
           files == snapshot.files
           m == Len(files)
           key == [k \in 1..m |-> files[k].key]
           symbols == snapshot.symbols
           risks == snapshot.risks
           deps == snapshot.dependencies
           symbolFile == [i \in 1..Len(symbols) |-> symbols[i].file]
           riskFile == [i \in 1..Len(risks) |-> risks[i].file]
           source == [i \in 1..Len(deps) |-> SourceOf(snapshot, deps[i])]
           known == {i \in 1..Len(deps) : source[i] # Absent}
           sourced == Filtered(deps, LAMBDA dep : SourceOf(snapshot, dep) # Absent)
<1>1. /\ m \in Nat /\ Len(symbols) \in Nat /\ Len(risks) \in Nat /\ Len(deps) \in Nat
      /\ DOMAIN deps = 1..Len(deps)
      /\ \A k \in 1..m : key[k] # Absent
      /\ \A k, l \in 1..m : key[k] = key[l] => k = l
      /\ \A i \in 1..Len(symbols) : \E k \in 1..m : symbolFile[i] = key[k]
      /\ \A i \in 1..Len(risks) : \E k \in 1..m : riskFile[i] = key[k]
  BY SnapshotLists
<1>2. \A i \in 1..Len(deps) : source[i] = Absent \/ \E k \in 1..m : source[i] = key[k]
  <2> SUFFICES ASSUME NEW i \in 1..Len(deps) PROVE source[i] = Absent \/ \E k \in 1..m : source[i] = key[k]
    OBVIOUS
  <2>1. source[i] = FileOfSymbol(snapshot, deps[i].from) BY DEF SourceOf
  <2>2. \/ FileOfSymbol(snapshot, deps[i].from) = Absent
        \/ \E k \in 1..Len(snapshot.files) : FileOfSymbol(snapshot, deps[i].from) = snapshot.files[k].key
    BY SymbolsHaveFiles
  <2> QED BY <2>1, <2>2
<1>3. /\ DOMAIN inventory = 1..m
      /\ \A k \in 1..m :
           /\ inventory[k]["symbols"] = HowMany(symbolFile, Len(symbols), key[k])
           /\ inventory[k]["risks"] = HowMany(riskFile, Len(risks), key[k])
           /\ inventory[k]["dependencies"] = HowMany(source, Len(deps), key[k])
  <2>1. \A k \in 1..m :
          /\ {i \in 1..Len(symbols) : symbolFile[i] = key[k]} = {i \in 1..Len(symbols) : symbols[i].file = files[k].key}
          /\ {i \in 1..Len(risks) : riskFile[i] = key[k]} = {i \in 1..Len(risks) : risks[i].file = files[k].key}
          /\ {i \in 1..Len(deps) : source[i] = key[k]}
               = {i \in 1..Len(deps) : SourceOf(snapshot, deps[i]) = files[k].key}
    OBVIOUS
  <2>2. DOMAIN inventory = 1..m
    BY InventoryRows
  <2>3. \A k \in 1..m :
          /\ inventory[k]["symbols"] = Cardinality({i \in 1..Len(symbols) : symbols[i].file = files[k].key})
          /\ inventory[k]["risks"] = Cardinality({i \in 1..Len(risks) : risks[i].file = files[k].key})
          /\ inventory[k]["dependencies"]
               = Cardinality({i \in 1..Len(deps) : SourceOf(snapshot, deps[i]) = files[k].key})
    BY InventoryRows
  <2> HIDE DEF inventory, files, m, key, symbols, risks, deps, symbolFile, riskFile, source
  <2> QED BY <2>1, <2>2, <2>3 DEF HowMany
<1>4. sourced = RowsAt(deps, known) /\ known \in SUBSET (1..Len(deps))
  <2>1. sourced = RowsAt(deps, {i \in DOMAIN deps : SourceOf(snapshot, deps[i]) # Absent}) BY DEF Filtered
  <2>2. {i \in DOMAIN deps : SourceOf(snapshot, deps[i]) # Absent} = known BY <1>1
  <2> QED BY <2>1, <2>2
<1>5. InventoryAddsUp(snapshot) <=> /\ InAll(inventory, "symbols") = Len(symbols)
                                    /\ InAll(inventory, "risks") = Len(risks)
                                    /\ InAll(inventory, "dependencies") = Len(sourced)
  BY DEF InventoryAddsUp
<1> HIDE DEF inventory, files, m, key, symbols, risks, deps, symbolFile, riskFile, source, sourced
<1>6. InAll(inventory, "symbols") = Len(symbols)
  <2>1. InAll(inventory, "symbols") = HowManyOf(symbolFile, Len(symbols), key, m)
    BY <1>1, <1>3, ColumnsAddUp
  <2>2. HowManyOf(symbolFile, Len(symbols), key, m) = Len(symbols)
    BY <1>1, EveryOne
  <2> QED BY <2>1, <2>2
<1>7. InAll(inventory, "risks") = Len(risks)
  <2>1. InAll(inventory, "risks") = HowManyOf(riskFile, Len(risks), key, m)
    BY <1>1, <1>3, ColumnsAddUp
  <2>2. HowManyOf(riskFile, Len(risks), key, m) = Len(risks)
    BY <1>1, EveryOne
  <2> QED BY <2>1, <2>2
<1>8. InAll(inventory, "dependencies") = Len(sourced)
  <2>1. InAll(inventory, "dependencies") = HowManyOf(source, Len(deps), key, m)
    BY <1>1, <1>3, ColumnsAddUp
  <2>2. HowManyOf(source, Len(deps), key, m) = Cardinality(known)
    <3>1. {i \in 1..Len(deps) : \E k \in 1..m : source[i] = key[k]} = known BY <1>1, <1>2
    <3> QED BY <3>1 DEF HowManyOf
  <2> HIDE DEF known
  <2>3. Len(sourced) = Cardinality(known) BY <1>1, <1>4, CountKept
  <2> QED BY <2>1, <2>2, <2>3
<1> QED BY <1>5, <1>6, <1>7, <1>8

\* Two parts that have nothing in common are as many as both together.
LEMMA BothParts ==
  ASSUME NEW n \in Nat, NEW A \in SUBSET (1..n), NEW B \in SUBSET (1..n), A \cap B = {}
  PROVE  /\ Cardinality(A) \in Nat /\ Cardinality(B) \in Nat
         /\ Cardinality(A \cup B) = Cardinality(A) + Cardinality(B)
<1>1. IsFiniteSet(1..n) BY UpTo
<1>2. IsFiniteSet(A) /\ IsFiniteSet(B) /\ Cardinality(A) \in Nat /\ Cardinality(B) \in Nat
  BY <1>1, FS_Subset, FS_CardinalityType
<1>3. Cardinality(A \cap B) = 0 BY FS_EmptySet
<1>4. Cardinality(A \cup B) = Cardinality(A) + Cardinality(B) - Cardinality(A \cap B)
  BY <1>2, FS_Union
<1> QED BY <1>2, <1>3, <1>4

\* Items that each have one of three values.
LEMMA ThreeValues ==
  ASSUME NEW n \in Nat, NEW a, NEW b, NEW c, a # b, a # c, b # c, NEW of, \A i \in 1..n : of[i] \in {a, b, c}
  PROVE  HowMany(of, n, a) + HowMany(of, n, b) + HowMany(of, n, c) = n
<1> DEFINE With(v) == {i \in 1..n : of[i] = v}
<1>1. \A v : With(v) \in SUBSET (1..n) OBVIOUS
<1>2. With(a) \cap With(b) = {} /\ (With(a) \cup With(b)) \cap With(c) = {} OBVIOUS
<1>3. (With(a) \cup With(b)) \cup With(c) = 1..n OBVIOUS
<1>4. HowMany(of, n, a) = Cardinality(With(a)) /\ HowMany(of, n, b) = Cardinality(With(b))
      /\ HowMany(of, n, c) = Cardinality(With(c))
  BY DEF HowMany
<1> HIDE DEF With
<1>5. /\ Cardinality(With(a)) \in Nat /\ Cardinality(With(b)) \in Nat
      /\ Cardinality(With(a) \cup With(b)) = Cardinality(With(a)) + Cardinality(With(b))
  <2>1. With(a) \in SUBSET (1..n) /\ With(b) \in SUBSET (1..n) /\ With(a) \cap With(b) = {} BY <1>1, <1>2
  <2> QED BY <2>1, BothParts
<1>6. /\ Cardinality(With(c)) \in Nat
      /\ Cardinality((With(a) \cup With(b)) \cup With(c)) = Cardinality(With(a) \cup With(b)) + Cardinality(With(c))
  <2>1. With(a) \cup With(b) \in SUBSET (1..n) BY <1>1
  <2> QED BY <1>1, <1>2, <2>1, BothParts
<1>7. Cardinality(1..n) = n BY UpTo
<1> QED BY <1>3, <1>4, <1>5, <1>6, <1>7

\* Or one of four.
LEMMA FourValues ==
  ASSUME NEW n \in Nat, NEW a, NEW b, NEW c, NEW d, a # b, a # c, b # c, a # d, b # d, c # d,
         NEW of, \A i \in 1..n : of[i] \in {a, b, c, d}
  PROVE  HowMany(of, n, a) + HowMany(of, n, b) + HowMany(of, n, c) + HowMany(of, n, d) = n
<1> DEFINE With(v) == {i \in 1..n : of[i] = v}
<1>1. \A v : With(v) \in SUBSET (1..n) OBVIOUS
<1>2. With(a) \cap With(b) = {} /\ With(c) \cap With(d) = {}
      /\ (With(a) \cup With(b)) \cap (With(c) \cup With(d)) = {}
  OBVIOUS
<1>3. (With(a) \cup With(b)) \cup (With(c) \cup With(d)) = 1..n OBVIOUS
<1>4. HowMany(of, n, a) = Cardinality(With(a)) /\ HowMany(of, n, b) = Cardinality(With(b))
      /\ HowMany(of, n, c) = Cardinality(With(c)) /\ HowMany(of, n, d) = Cardinality(With(d))
  BY DEF HowMany
<1> HIDE DEF With
<1>5. /\ Cardinality(With(a)) \in Nat /\ Cardinality(With(b)) \in Nat
      /\ Cardinality(With(a) \cup With(b)) = Cardinality(With(a)) + Cardinality(With(b))
  <2>1. With(a) \in SUBSET (1..n) /\ With(b) \in SUBSET (1..n) /\ With(a) \cap With(b) = {} BY <1>1, <1>2
  <2> QED BY <2>1, BothParts
<1>6. /\ Cardinality(With(c)) \in Nat /\ Cardinality(With(d)) \in Nat
      /\ Cardinality(With(c) \cup With(d)) = Cardinality(With(c)) + Cardinality(With(d))
  <2>1. With(c) \in SUBSET (1..n) /\ With(d) \in SUBSET (1..n) /\ With(c) \cap With(d) = {} BY <1>1, <1>2
  <2> QED BY <2>1, BothParts
<1>7. Cardinality((With(a) \cup With(b)) \cup (With(c) \cup With(d)))
        = Cardinality(With(a) \cup With(b)) + Cardinality(With(c) \cup With(d))
  <2> DEFINE AB == With(a) \cup With(b)
             CD == With(c) \cup With(d)
  <2>1. AB \in SUBSET (1..n) /\ CD \in SUBSET (1..n) /\ AB \cap CD = {} BY <1>1, <1>2
  <2> HIDE DEF AB, CD
  <2>2. Cardinality(AB \cup CD) = Cardinality(AB) + Cardinality(CD) BY <2>1, BothParts
  <2> QED BY <2>2 DEF AB, CD
<1>8. Cardinality(1..n) = n BY UpTo
<1>9. Cardinality(With(a) \cup With(b)) + Cardinality(With(c) \cup With(d)) = n
  BY <1>3, <1>7, <1>8
<1> QED BY <1>4, <1>5, <1>6, <1>9

\* Each file is counted under one language, and each trace under one status.
LEMMA SummariesCount ==
  ASSUME NEW snapshot, IsSnapshot(snapshot)
  PROVE  SummariesAddUp(snapshot)
<1> DEFINE files == snapshot.files
           n == Len(files)
           language == [i \in 1..n |-> LanguageOf(files[i].type)]
           traces == snapshot.traces
           t == Len(traces)
           status == [i \in 1..t |-> traces[i].status]
           counts == LanguageCounts(snapshot)
           flow == FlowSummary(traces)
<1>1. /\ n \in Nat /\ DOMAIN files = 1..n /\ t \in Nat /\ DOMAIN traces = 1..t
      /\ \A i \in 1..t : status[i] \in {"complete", "partial", "unresolved"}
  BY SnapshotLists
<1>2. \A i \in 1..n : language[i] \in {"go", "sql", "delphi-like", "unknown"}
  BY DEF LanguageOf
<1>3. ASSUME NEW l \in {"go", "sql", "delphi-like", "unknown"} PROVE counts[l] = HowMany(language, n, l)
  <2> DEFINE kept == {i \in 1..n : language[i] = l}
  <2>1. counts[l] = Len(RowsAt(files, {i \in DOMAIN files : LanguageOf(files[i].type) = l}))
    BY DEF LanguageCounts, Filtered
  <2>2. {i \in DOMAIN files : LanguageOf(files[i].type) = l} = kept /\ kept \in SUBSET (1..n) BY <1>1
  <2> HIDE DEF kept, files, n, counts, language
  <2>3. counts[l] = Cardinality(kept) BY <1>1, <2>1, <2>2, CountKept DEF n
  <2> QED BY <2>3 DEF kept, HowMany
<1>4. ASSUME NEW s PROVE Len(RowsAt(traces, {i \in DOMAIN traces : traces[i].status = s})) = HowMany(status, t, s)
  <2> DEFINE kept == {i \in 1..t : status[i] = s}
  <2>1. {i \in DOMAIN traces : traces[i].status = s} = kept /\ kept \in SUBSET (1..t) BY <1>1
  <2> HIDE DEF kept, traces, t, status
  <2>2. Len(RowsAt(traces, kept)) = Cardinality(kept) BY <1>1, <2>1, CountKept DEF t
  <2> QED BY <2>1, <2>2 DEF kept, HowMany
<1>5. /\ flow.complete = Len(RowsAt(traces, {i \in DOMAIN traces : traces[i].status = "complete"}))
      /\ flow.partial = Len(RowsAt(traces, {i \in DOMAIN traces : traces[i].status = "partial"}))
      /\ flow.unresolved = Len(RowsAt(traces, {i \in DOMAIN traces : traces[i].status = "unresolved"}))
      /\ flow.written = Min({50, t}) /\ flow.omitted = Max({0, t - 50})
  BY DEF FlowSummary, Filtered
<1>6. SummariesAddUp(snapshot) <=> /\ counts["go"] + counts["sql"] + counts["delphi-like"] + counts["unknown"] = n
                                   /\ flow.complete + flow.partial + flow.unresolved = flow.written + flow.omitted
  BY DEF SummariesAddUp
<1> HIDE DEF files, n, language, traces, t, status, counts, flow
<1>7. counts["go"] + counts["sql"] + counts["delphi-like"] + counts["unknown"] = n
  <2>1. HowMany(language, n, "go") + HowMany(language, n, "sql") + HowMany(language, n, "delphi-like")
          + HowMany(language, n, "unknown") = n
    BY <1>1, <1>2, FourValues
  <2> QED BY <1>3, <2>1
<1>8. flow.complete + flow.partial + flow.unresolved = t
  <2>1. HowMany(status, t, "complete") + HowMany(status, t, "partial") + HowMany(status, t, "unresolved") = t
    BY <1>1, ThreeValues
  <2>2. /\ flow.complete = HowMany(status, t, "complete") /\ flow.partial = HowMany(status, t, "partial")
        /\ flow.unresolved = HowMany(status, t, "unresolved")
    BY <1>4, <1>5
  <2> QED BY <2>1, <2>2
<1>9. flow.written + flow.omitted = t
  <2>1. t - 50 \in Int /\ t \in Int /\ 50 \in Int /\ 0 \in Int BY <1>1
  <2>2. Min({50, t}) = (IF 50 <= t THEN 50 ELSE t) BY <2>1, LeastAndGreatest
  <2>3. Max({0, t - 50}) = (IF 0 >= t - 50 THEN 0 ELSE t - 50) BY <2>1, LeastAndGreatest
  <2> QED BY <1>1, <1>5, <2>2, <2>3
<1> QED BY <1>6, <1>7, <1>8, <1>9

\* What MostImpactedFirst compares.
ImpactRanks(list, m) == [k \in 1..m |-> <<-list[k].count, list[k].path, 0, 0>>]

\* The files, sorted by it.
LEMMA ImpactIsSorted ==
  ASSUME NEW m \in Nat, NEW list, DOMAIN list = 1..m, \A k \in 1..m : list[k].count \in Nat /\ list[k].path \in Nat
  PROVE  /\ ImpactRanks(list, m) \in [1..m -> Ranks]
         /\ Sorted(list, MostImpactedFirst) = [k \in 1..m |-> list[SortedPlaces(m, ImpactRanks(list, m))[k]]]
<1> DEFINE rank == ImpactRanks(list, m)
           b == AheadOf(m, rank)
           at == SortedPlaces(m, rank)
           K == 1..m
           ahead(i) == {j \in K : MostImpactedFirst(list[j], list[i]) \/ (j < i /\ ~MostImpactedFirst(list[i], list[j]))}
<1>1. DOMAIN list = K /\ \A k \in K : list[k].count \in Nat /\ list[k].path \in Nat
  OBVIOUS
<1>2. \A k \in K : rank[k] = <<-list[k].count, list[k].path, 0, 0>>
  BY DEF ImpactRanks
<1>3. rank \in [K -> Ranks] /\ \A k \in K : rank[k] \in Ranks
  <2> DEFINE of(k) == <<-list[k].count, list[k].path, 0, 0>>
  <2>1. rank = [k \in K |-> of(k)] BY DEF ImpactRanks
  <2>2. ASSUME NEW k \in K PROVE of(k) \in Ranks
    <3>1. -list[k].count \in Int /\ list[k].path \in Int /\ 0 \in Int BY <1>1
    <3> QED BY <3>1 DEF Ranks
  <2> HIDE DEF of, rank
  <2> QED BY <2>1, <2>2
<1> HIDE DEF rank
<1>4. ASSUME NEW i \in K, NEW j \in K PROVE MostImpactedFirst(list[j], list[i]) <=> Precedes(rank[j], rank[i])
  <2> DEFINE x == list[j]
             y == list[i]
             t == << <<-x.count, -y.count>>, <<x.path, y.path>> >>
             A == rank[j]
             B == rank[i]
  <2>1. A = <<-x.count, x.path, 0, 0>> /\ B = <<-y.count, y.path, 0, 0>>
    BY <1>2
  <2>2. A \in Ranks /\ B \in Ranks BY <1>3
  <2>3. x = y => A = B BY <2>1
  <2>4. DOMAIN t = 1..2 /\ \A k \in 1..2 : t[k][1] = A[k] /\ t[k][2] = B[k]
    BY <2>1
  <2>5. \A k \in 1..4 : k > 2 => A[k] = B[k]
    BY <2>1
  <2>6. MostImpactedFirst(x, y) <=> Before(t, x, y)
    BY DEF MostImpactedFirst
  <2> HIDE DEF x, y, t, A, B
  <2>7. Before(t, x, y) <=> Precedes(A, B)
    <3>1. 2 \in 1..4 OBVIOUS
    <3> QED BY ONLY <2>2, <2>3, <2>4, <2>5, <3>1, TuplesDecide
  <2> QED BY <2>6, <2>7 DEF x, y, A, B
<1>5. \A i \in K : b[i] = ahead(i)
  <2>1. \A i \in K : b[i] = {j \in K : Precedes(rank[j], rank[i]) \/ (j < i /\ ~Precedes(rank[i], rank[j]))}
    BY DEF AheadOf
  <2> SUFFICES ASSUME NEW i \in K PROVE b[i] = ahead(i)
    OBVIOUS
  <2> HIDE DEF b, K
  <2> QED BY <1>4, <2>1, Zenon
<1>6. Sorted(list, MostImpactedFirst) = [k \in K |-> list[CHOOSE i \in K : Cardinality(ahead(i)) = k - 1]]
  BY <1>1 DEF Sorted
<1>7. \A k \in K : at[k] = CHOOSE i \in K : Cardinality(b[i]) = k - 1
  <2>1. at = PlacesOf(b, m) BY DEF SortedPlaces
  <2> HIDE DEF at, b
  <2>2. at = [k \in K |-> CHOOSE i \in K : Cardinality(b[i]) = k - 1] BY <2>1 DEF PlacesOf
  <2> QED BY <2>2
<1> HIDE DEF ahead, at, b
<1>8. \A k \in K : (CHOOSE i \in K : Cardinality(ahead(i)) = k - 1) = at[k]
  BY <1>5, <1>7
<1>9. Sorted(list, MostImpactedFirst) = [k \in K |-> list[at[k]]]
  BY <1>6, <1>8
<1> QED BY <1>3, <1>9 DEF rank, at


\* What NewerFirst compares.
NewerRanks(list, m) == [k \in 1..m |-> <<-list[k].number, -list[k].id, 0, 0>>]

\* The runs, sorted by it.
LEMMA NewerAreSorted ==
  ASSUME NEW m \in Nat, NEW list, DOMAIN list = 1..m, \A k \in 1..m : list[k].number \in Nat /\ list[k].id \in Nat
  PROVE  /\ NewerRanks(list, m) \in [1..m -> Ranks]
         /\ Sorted(list, NewerFirst) = [k \in 1..m |-> list[SortedPlaces(m, NewerRanks(list, m))[k]]]
<1> DEFINE rank == NewerRanks(list, m)
           b == AheadOf(m, rank)
           at == SortedPlaces(m, rank)
           K == 1..m
           ahead(i) == {j \in K : NewerFirst(list[j], list[i]) \/ (j < i /\ ~NewerFirst(list[i], list[j]))}
<1>1. DOMAIN list = K /\ \A k \in K : list[k].number \in Nat /\ list[k].id \in Nat
  OBVIOUS
<1>2. \A k \in K : rank[k] = <<-list[k].number, -list[k].id, 0, 0>>
  BY DEF NewerRanks
<1>3. rank \in [K -> Ranks] /\ \A k \in K : rank[k] \in Ranks
  <2> DEFINE of(k) == <<-list[k].number, -list[k].id, 0, 0>>
  <2>1. rank = [k \in K |-> of(k)] BY DEF NewerRanks
  <2>2. ASSUME NEW k \in K PROVE of(k) \in Ranks
    <3>1. -list[k].number \in Int /\ -list[k].id \in Int /\ 0 \in Int BY <1>1
    <3> QED BY <3>1 DEF Ranks
  <2> HIDE DEF of, rank
  <2> QED BY <2>1, <2>2
<1> HIDE DEF rank
<1>4. ASSUME NEW i \in K, NEW j \in K PROVE NewerFirst(list[j], list[i]) <=> Precedes(rank[j], rank[i])
  <2> DEFINE x == list[j]
             y == list[i]
             t == << <<-x.number, -y.number>>, <<-x.id, -y.id>> >>
             A == rank[j]
             B == rank[i]
  <2>1. A = <<-x.number, -x.id, 0, 0>> /\ B = <<-y.number, -y.id, 0, 0>>
    BY <1>2
  <2>2. A \in Ranks /\ B \in Ranks BY <1>3
  <2>3. x = y => A = B BY <2>1
  <2>4. DOMAIN t = 1..2 /\ \A k \in 1..2 : t[k][1] = A[k] /\ t[k][2] = B[k]
    BY <2>1
  <2>5. \A k \in 1..4 : k > 2 => A[k] = B[k]
    BY <2>1
  <2>6. NewerFirst(x, y) <=> Before(t, x, y)
    BY DEF NewerFirst
  <2> HIDE DEF x, y, t, A, B
  <2>7. Before(t, x, y) <=> Precedes(A, B)
    <3>1. 2 \in 1..4 OBVIOUS
    <3> QED BY ONLY <2>2, <2>3, <2>4, <2>5, <3>1, TuplesDecide
  <2> QED BY <2>6, <2>7 DEF x, y, A, B
<1>5. \A i \in K : b[i] = ahead(i)
  <2>1. \A i \in K : b[i] = {j \in K : Precedes(rank[j], rank[i]) \/ (j < i /\ ~Precedes(rank[i], rank[j]))}
    BY DEF AheadOf
  <2> SUFFICES ASSUME NEW i \in K PROVE b[i] = ahead(i)
    OBVIOUS
  <2> HIDE DEF b, K
  <2> QED BY <1>4, <2>1, Zenon
<1>6. Sorted(list, NewerFirst) = [k \in K |-> list[CHOOSE i \in K : Cardinality(ahead(i)) = k - 1]]
  BY <1>1 DEF Sorted
<1>7. \A k \in K : at[k] = CHOOSE i \in K : Cardinality(b[i]) = k - 1
  <2>1. at = PlacesOf(b, m) BY DEF SortedPlaces
  <2> HIDE DEF at, b
  <2>2. at = [k \in K |-> CHOOSE i \in K : Cardinality(b[i]) = k - 1] BY <2>1 DEF PlacesOf
  <2> QED BY <2>2
<1> HIDE DEF ahead, at, b
<1>8. \A k \in K : (CHOOSE i \in K : Cardinality(ahead(i)) = k - 1) = at[k]
  BY <1>5, <1>7
<1>9. Sorted(list, NewerFirst) = [k \in K |-> list[at[k]]]
  BY <1>6, <1>8
<1> QED BY <1>3, <1>9 DEF rank, at

\* The usable runs of a project, sorted by what UsableRuns compares.
UsableOf(project, runs) == {run \in runs : run.project = project.id /\ IsUsable(run)}
NumberRanks(list, m) == [k \in 1..m |-> <<-list[k].number, 0, 0, 0>>]

LEMMA UsableAreSorted ==
  ASSUME NEW project, NEW runs, NEW m \in Nat, DOMAIN SetToSeq(UsableOf(project, runs)) = 1..m,
         \A k \in 1..m : SetToSeq(UsableOf(project, runs))[k].number \in Nat
  PROVE  LET list == SetToSeq(UsableOf(project, runs))
         IN  /\ NumberRanks(list, m) \in [1..m -> Ranks]
             /\ UsableRuns(project, runs) = [k \in 1..m |-> list[SortedPlaces(m, NumberRanks(list, m))[k]]]
<1> DEFINE list == SetToSeq(UsableOf(project, runs))
           rank == NumberRanks(list, m)
           b == AheadOf(m, rank)
           at == SortedPlaces(m, rank)
           K == 1..m
           ahead(i) == {j \in K : list[j].number > list[i].number \/ (j < i /\ ~(list[i].number > list[j].number))}
<1>1. DOMAIN list = K /\ \A k \in K : list[k].number \in Nat
  OBVIOUS
<1>2. \A k \in K : rank[k] = <<-list[k].number, 0, 0, 0>>
  BY DEF NumberRanks
<1>3. rank \in [K -> Ranks] /\ \A k \in K : rank[k] \in Ranks
  <2> DEFINE of(k) == <<-list[k].number, 0, 0, 0>>
  <2>1. rank = [k \in K |-> of(k)] BY DEF NumberRanks
  <2>2. ASSUME NEW k \in K PROVE of(k) \in Ranks
    <3>1. -list[k].number \in Int /\ 0 \in Int BY <1>1
    <3> QED BY <3>1 DEF Ranks
  <2> HIDE DEF of, rank
  <2> QED BY <2>1, <2>2
<1> HIDE DEF rank
<1>4. ASSUME NEW i \in K, NEW j \in K PROVE list[j].number > list[i].number <=> Precedes(rank[j], rank[i])
  <2>1. list[i].number \in Nat /\ list[j].number \in Nat BY <1>1
  <2>2. rank[i] = <<-list[i].number, 0, 0, 0>> /\ rank[j] = <<-list[j].number, 0, 0, 0>> BY <1>2
  <2>3. /\ rank[i][1] = -list[i].number /\ rank[i][2] = 0 /\ rank[i][3] = 0 /\ rank[i][4] = 0
        /\ rank[j][1] = -list[j].number /\ rank[j][2] = 0 /\ rank[j][3] = 0 /\ rank[j][4] = 0
    BY <2>2
  <2> QED BY <2>1, <2>3 DEF Precedes
<1>5. \A i \in K : b[i] = ahead(i)
  <2>1. \A i \in K : b[i] = {j \in K : Precedes(rank[j], rank[i]) \/ (j < i /\ ~Precedes(rank[i], rank[j]))}
    BY DEF AheadOf
  <2> SUFFICES ASSUME NEW i \in K PROVE b[i] = ahead(i)
    OBVIOUS
  <2> HIDE DEF b, K
  <2> QED BY <1>4, <2>1, Zenon
<1>6. UsableRuns(project, runs) = [k \in K |-> list[CHOOSE i \in K : Cardinality(ahead(i)) = k - 1]]
  <2>1. UsableRuns(project, runs)
          = [k \in DOMAIN list |->
               list[CHOOSE i \in DOMAIN list :
                      Cardinality({j \in DOMAIN list :
                                     list[j].number > list[i].number \/ (j < i /\ ~(list[i].number > list[j].number))})
                        = k - 1]]
    BY DEF UsableRuns, UsableOf, Sorted
  <2> HIDE DEF list
  <2> QED BY <1>1, <2>1
<1>7. \A k \in K : at[k] = CHOOSE i \in K : Cardinality(b[i]) = k - 1
  <2>1. at = PlacesOf(b, m) BY DEF SortedPlaces
  <2> HIDE DEF at, b
  <2>2. at = [k \in K |-> CHOOSE i \in K : Cardinality(b[i]) = k - 1] BY <2>1 DEF PlacesOf
  <2> QED BY <2>2
<1> HIDE DEF ahead, at, b
<1>8. \A k \in K : (CHOOSE i \in K : Cardinality(ahead(i)) = k - 1) = at[k]
  BY <1>5, <1>7
<1>9. UsableRuns(project, runs) = [k \in K |-> list[at[k]]]
  BY <1>6, <1>8
<1> QED BY <1>3, <1>9 DEF rank, at

\* The files share the signals among them.
LEMMA SignalsAreShared ==
  ASSUME NEW signals, Len(signals) \in Nat, DOMAIN signals = 1..Len(signals),
         \A i \in 1..Len(signals) : signals[i] \in Nat
  PROVE  /\ \E m \in Nat : ImpactedFiles(signals) \in [1..m -> {ImpactedFiles(signals)[k] : k \in 1..m}]
         /\ CountOf(ImpactedFiles(signals)) = Len(signals)
<1> DEFINE n == Len(signals)
           W == 1..n
           kf == [i \in 1..n |-> signals[i]]
           firsts == FirstPlaces(n, kf)
           m == Cardinality(firsts)
           parts == ClassesOf(n, kf)
           at == KeptPlaces(firsts)
           keys == KeysOf(n, kf)
           list == SeqMap(KeysInOrder(signals, Signal), LAMBDA path : ImpactOn(signals, path))
           K == 1..m
           out == ImpactedFiles(signals)
<1>1. /\ n \in Nat /\ DOMAIN signals = 1..n /\ (\A i \in 1..n : kf[i] = signals[i] /\ signals[i] \in Nat)
      /\ IsFiniteSet(W) /\ Cardinality(W) = n
  BY UpTo
<1> HIDE DEF kf, n
<1>2. /\ m \in Nat /\ parts \in [K -> SUBSET W] /\ Disjoint(parts, m)
      /\ Covered(parts, K) = W
      /\ \A q \in K : parts[q] # {}
      /\ \A q \in K : \A i \in 1..n : i \in parts[q] <=> kf[i] = keys[q]
  <2>1. AreClasses(parts, m, n, kf, keys) BY <1>1, ClassesCover
  <2> HIDE DEF parts, m, keys
  <2> QED BY <2>1 DEF AreClasses
<1>3. firsts \in SUBSET W /\ firsts = {i \in DOMAIN signals : \A j \in 1..(i - 1) : Signal(signals[j]) # Signal(signals[i])}
  <2>1. \A i \in 1..n : \A j \in 1..(i - 1) : kf[j] = Signal(signals[j]) /\ kf[i] = Signal(signals[i])
    BY <1>1 DEF Signal
  <2> QED BY <1>1, <2>1 DEF FirstPlaces
<1>4. \A k \in K : at[k] \in firsts
  <2>1. firsts \in SUBSET (1..n) BY <1>3
  <2> HIDE DEF firsts
  <2>2. Numbers(at, m, firsts) BY <1>1, <2>1, KeptOnce
  <2> HIDE DEF at, m
  <2> QED BY <2>2 DEF Numbers
<1>5. KeysInOrder(signals, Signal) = keys
  <2> DEFINE some == RowsAt(signals, firsts)
  <2>1. KeysInOrder(signals, Signal) = SeqMap(some, Signal)
    BY <1>3 DEF KeysInOrder
  <2>2. some = [k \in K |-> signals[at[k]]]
    BY KeptAre
  <2>3. keys = [k \in K |-> kf[at[k]]]
    BY DEF KeysOf
  <2>4. SeqMap(some, Signal) = [k \in DOMAIN some |-> Signal(some[k])]
    BY DEF SeqMap
  <2> HIDE DEF some, firsts, keys, K, at
  <2>5. \A k \in K : Signal(some[k]) = kf[at[k]]
    BY <1>1, <1>3, <1>4, <2>2 DEF Signal
  <2> QED BY <2>1, <2>2, <2>3, <2>4, <2>5
<1> HIDE DEF parts, keys, K, m, at, firsts
<1>6. DOMAIN keys = K
  BY DEF keys, KeysOf, K, m, firsts
<1>7. list = [q \in K |-> ImpactOn(signals, keys[q])]
  BY <1>5, <1>6 DEF SeqMap
<1>8. ASSUME NEW q \in K PROVE WithKey(signals, Signal, keys[q]) = RowsAt(signals, parts[q])
  <2>1. WithKey(signals, Signal, keys[q]) = RowsAt(signals, {i \in DOMAIN signals : Signal(signals[i]) = keys[q]})
    BY DEF WithKey, Filtered
  <2>2. {i \in DOMAIN signals : Signal(signals[i]) = keys[q]} = parts[q]
    <3>1. \A i \in W : i \in parts[q] <=> Signal(signals[i]) = keys[q] BY <1>1, <1>2 DEF Signal
    <3>2. parts[q] \subseteq W BY <1>2
    <3> HIDE DEF W
    <3> QED BY <1>1, <3>1, <3>2 DEF W
  <2> QED BY <2>1, <2>2
<1>9. ASSUME NEW q \in K PROVE list[q].path = keys[q] /\ list[q].count = Cardinality(parts[q])
  <2>1. list[q] = ImpactOn(signals, keys[q]) BY <1>7
  <2> HIDE DEF list
  <2>2. list[q].path = keys[q] /\ list[q].count = Len(WithKey(signals, Signal, keys[q]))
    BY <2>1 DEF ImpactOn
  <2>3. Len(RowsAt(signals, parts[q])) = Cardinality(parts[q])
    <3>1. parts[q] \in SUBSET (1..n) BY <1>2
    <3>2. n \in Nat BY <1>1
    <3> QED BY ONLY <3>1, <3>2, KeptRows
  <2> QED BY <1>8, <2>2, <2>3
<1>10. DOMAIN list = K /\ out = Sorted(list, MostImpactedFirst)
  BY <1>7 DEF ImpactedFiles
<1> HIDE DEF list, out, W
<1>11. \A q \in K : list[q].count \in Nat /\ list[q].path \in Nat
  <2> SUFFICES ASSUME NEW q \in K PROVE list[q].count \in Nat /\ list[q].path \in Nat
    OBVIOUS
  <2>1. parts[q] \in SUBSET W BY <1>2
  <2>2. list[q].count \in Nat BY <1>1, <1>9, <2>1, FS_Subset, FS_CardinalityType
  <2>3. PICK i \in W : i \in parts[q] BY <1>2, <2>1
  <2>4. kf[i] = keys[q] BY <1>2, <2>3 DEF W
  <2> QED BY <1>1, <1>9, <2>2, <2>3, <2>4 DEF W
<1> DEFINE rank == ImpactRanks(list, m)
           to == SortedPlaces(m, rank)
           moved == [k \in 1..m |-> parts[to[k]]]
<1>12. rank \in [1..m -> Ranks] /\ out = [k \in 1..m |-> list[to[k]]]
  <2>1. DOMAIN list = 1..m /\ m \in Nat /\ \A k \in 1..m : list[k].count \in Nat /\ list[k].path \in Nat
    BY <1>2, <1>10, <1>11 DEF K
  <2> HIDE DEF rank, to
  <2> QED BY <1>10, <2>1, ImpactIsSorted DEF rank, to
<1> HIDE DEF rank
<1>13. Numbers(to, m, 1..m)
  BY <1>2, <1>12, SortingNumbers
<1> HIDE DEF to
<1>14. /\ \A k \in K : to[k] \in K
       /\ \A k, l \in K : to[k] = to[l] => k = l
       /\ \A i \in K : \E k \in K : to[k] = i
  BY <1>13 DEF Numbers, K
<1>15. DOMAIN out = K /\ (\A k \in K : out[k] = list[to[k]]) /\ \A k \in K : moved[k] = parts[to[k]]
  BY <1>12 DEF K
<1>16. moved \in [K -> SUBSET W]
  <2>1. moved = [k \in K |-> parts[to[k]]] BY DEF K
  <2> HIDE DEF moved
  <2> QED BY <1>2, <1>14, <2>1
<1> HIDE DEF moved
<1>17. Disjoint(moved, m)
  <2> SUFFICES ASSUME NEW k \in K, NEW l \in K, k # l PROVE moved[k] \cap moved[l] = {}
    BY DEF Disjoint, K
  <2>1. to[k] \in K /\ to[l] \in K /\ to[k] # to[l] BY <1>14
  <2>2. parts[to[k]] \cap parts[to[l]] = {} BY <1>2, <2>1 DEF Disjoint, K
  <2> QED BY <1>15, <2>2
<1>18. Covered(moved, K) = W
  <2>1. \A i \in W : \E k \in K : i \in moved[k]
    <3> SUFFICES ASSUME NEW i \in W PROVE \E k \in K : i \in moved[k]
      OBVIOUS
    <3>1. PICK l \in K : i \in parts[l] BY <1>2 DEF Covered
    <3>2. PICK k \in K : to[k] = l BY <1>14
    <3> QED BY <1>15, <3>1, <3>2
  <2> QED BY <1>16, <2>1 DEF Covered
<1>19. CountOf(out) = n
  <2>1. \A k \in K : out[k].count = Cardinality(moved[k]) BY <1>9, <1>14, <1>15
  <2>2. /\ m \in Nat /\ moved \in [1..m -> SUBSET W] /\ DOMAIN out = 1..m
        /\ \A k \in 1..m : out[k].count = Cardinality(moved[k])
    BY <1>2, <1>15, <1>16, <2>1 DEF K
  <2>3. CountOf(out) = Cardinality(Covered(moved, 1..m))
    BY <1>1, <1>17, <2>2, PartsAddUp
  <2> QED BY <1>1, <1>18, <2>3 DEF K
<1>20. m \in Nat /\ out \in [1..m -> {out[k] : k \in 1..m}]
  BY <1>2, <1>12
<1> QED BY <1>19, <1>20 DEF n, out

\* A list put together from two holds what both do.
Kept(values) == {i \in 1..Len(values) : values[i] # Absent}

LEMMA BothAreKept ==
  ASSUME NEW a \in Seq(Nat), NEW b \in Seq(Nat)
  PROVE  /\ a \o b \in Seq(Nat)
         /\ Cardinality(Kept(a \o b)) = Cardinality(Kept(a)) + Cardinality(Kept(b))
         /\ Cardinality(Kept(a)) \in Nat /\ Cardinality(Kept(b)) \in Nat
<1> DEFINE c == a \o b
           k == Len(a)
           l == Len(b)
           later == {i \in 1..(k + l) : i > k /\ c[i] # Absent}
           shift == [i \in Kept(b) |-> i + k]
<1>1. k \in Nat /\ l \in Nat
  OBVIOUS
<1>2. c \in Seq(Nat) /\ Len(c) = k + l /\ \A i \in 1..(k + l) : c[i] = IF i <= k THEN a[i] ELSE b[i - k]
  OBVIOUS
<1>3. Kept(a) = {i \in 1..k : a[i] # Absent} /\ Kept(b) = {i \in 1..l : b[i] # Absent}
      /\ Kept(c) = {i \in 1..(k + l) : c[i] # Absent}
  BY <1>2 DEF Kept
<1> HIDE DEF c, k, l
<1>4. Kept(a) \in SUBSET (1..(k + l)) /\ later \in SUBSET (1..(k + l)) /\ Kept(a) \cap later = {}
  BY <1>1, <1>3
<1>5. Kept(c) = Kept(a) \cup later
  <2>1. \A i \in 1..(k + l) : i <= k => c[i] = a[i] BY <1>2
  <2>2. \A i \in 1..(k + l) : i <= k <=> i \in 1..k BY <1>1
  <2>3. \A i \in 1..(k + l) : ~(i <= k) <=> i > k BY <1>1
  <2> QED BY <1>1, <1>3, <1>4, <2>1, <2>2, <2>3
<1>6. IsFiniteSet(Kept(b))
  <2>1. Kept(b) \in SUBSET (1..l) BY <1>3
  <2> QED BY <1>1, <2>1, UpTo, FS_Subset
<1>7. shift \in Bijection(Kept(b), later)
  <2>1. \A i \in Kept(b) : i \in Nat /\ i + k \in later
    <3> SUFFICES ASSUME NEW i \in Kept(b) PROVE i \in Nat /\ i + k \in later
      OBVIOUS
    <3>1. i \in 1..l /\ b[i] # Absent BY <1>3
    <3>2. i + k \in 1..(k + l) /\ i + k > k /\ ~(i + k <= k) /\ (i + k) - k = i BY <1>1, <3>1
    <3>3. c[i + k] = b[i] BY <1>2, <3>2
    <3> QED BY <3>1, <3>2, <3>3
  <2>2. shift \in [Kept(b) -> later] /\ \A i \in Kept(b) : shift[i] = i + k BY <2>1
  <2>3. \A i, j \in Kept(b) : shift[i] = shift[j] => i = j BY <1>1, <2>1, <2>2
  <2>4. \A j \in later : \E i \in Kept(b) : shift[i] = j
    <3> SUFFICES ASSUME NEW j \in later PROVE \E i \in Kept(b) : shift[i] = j
      OBVIOUS
    <3> DEFINE i == j - k
    <3>1. j \in 1..(k + l) /\ j > k /\ c[j] # Absent /\ ~(j <= k) BY <1>1
    <3>2. i \in 1..l /\ i + k = j BY <1>1, <3>1
    <3>3. c[j] = b[i] BY <1>2, <3>1
    <3> HIDE DEF i
    <3> QED BY <1>3, <2>2, <3>1, <3>2, <3>3
  <2> HIDE DEF shift, later
  <2> QED BY <2>2, <2>3, <2>4 DEF Bijection, Injection, Surjection, IsInjective
<1> HIDE DEF later, shift
<1>8. Cardinality(later) = Cardinality(Kept(b))
  <2>1. ExistsBijection(Kept(b), later) BY <1>7 DEF ExistsBijection
  <2> QED BY <1>6, <2>1, FS_Bijection
<1>9. /\ Cardinality(Kept(a)) \in Nat /\ Cardinality(later) \in Nat
      /\ Cardinality(Kept(a) \cup later) = Cardinality(Kept(a)) + Cardinality(later)
  <2> DEFINE n == k + l
  <2>1. n \in Nat /\ Kept(a) \in SUBSET (1..n) /\ later \in SUBSET (1..n) /\ Kept(a) \cap later = {} BY <1>1, <1>4
  <2> HIDE DEF n
  <2> QED BY ONLY <2>1, BothParts
<1> QED BY <1>2, <1>5, <1>8, <1>9 DEF c

\* What is counted without the absent ones.
LEMMA CountPresent ==
  ASSUME NEW rows, NEW n \in Nat, DOMAIN rows = 1..n, Len(rows) = n, NEW values \in [1..n -> Nat],
         NEW known \in SUBSET (1..n), \A i \in 1..n : i \in known <=> values[i] # Absent
  PROVE  values \in Seq(Nat) /\ Len(RowsAt(rows, known)) = Cardinality(Kept(values))
<1>1. values \in Seq(Nat) /\ Len(values) = n
  OBVIOUS
<1>2. Kept(values) = known
  BY <1>1 DEF Kept
<1>3. Len(RowsAt(rows, known)) = Cardinality(known)
  BY CountKept
<1> QED BY <1>1, <1>2, <1>3

\* The present ones are numbers, and as many as are kept.
LEMMA PresentOnes ==
  ASSUME NEW values \in Seq(Nat)
  PROVE  /\ Len(Present(values)) = Cardinality(Kept(values)) /\ Len(Present(values)) \in Nat
         /\ DOMAIN Present(values) = 1..Len(Present(values))
         /\ \A i \in 1..Len(Present(values)) : Present(values)[i] \in Nat
<1> DEFINE n == Len(values)
           kept == Kept(values)
           at == KeptPlaces(kept)
           m == Cardinality(kept)
<1>1. n \in Nat /\ DOMAIN values = 1..n /\ \A i \in 1..n : values[i] \in Nat
  OBVIOUS
<1>2. kept \in SUBSET (1..n) /\ kept = {i \in DOMAIN values : values[i] # Absent}
  BY <1>1 DEF Kept
<1>3. Present(values) = RowsAt(values, kept)
  BY <1>2 DEF Present, Filtered
<1> HIDE DEF n, kept
<1>4. RowsAt(values, kept) = [k \in 1..m |-> values[at[k]]]
  BY KeptAre
<1>5. Numbers(at, m, kept)
  BY <1>1, <1>2, KeptOnce
<1>6. DOMAIN RowsAt(values, kept) = 1..m /\ Len(RowsAt(values, kept)) = m /\ m \in Nat
  BY <1>1, <1>2, KeptRows
<1>7. \A k \in 1..m : at[k] \in kept
  <2> HIDE DEF at, m
  <2> QED BY <1>5 DEF Numbers
<1> HIDE DEF at, m
<1>8. \A k \in 1..m : RowsAt(values, kept)[k] \in Nat
  BY <1>1, <1>2, <1>4, <1>7
<1> QED BY <1>3, <1>6, <1>8 DEF m, kept

\* The ten files most affected carry every finding when they are all there are.
LEMMA ImpactCounts ==
  ASSUME NEW snapshot, IsSnapshot(snapshot)
  PROVE  ImpactAddsUp(snapshot)
<1> DEFINE risks == snapshot.risks
           rules == snapshot.rules
           deps == snapshot.dependencies
           r == Len(risks)
           u == Len(rules)
           d == Len(deps)
           a == [i \in 1..r |-> risks[i].file]
           b == [i \in 1..u |-> rules[i].file]
           s == [i \in 1..d |-> SourceOf(snapshot, deps[i])]
           t == [i \in 1..d |-> TargetOf(snapshot, deps[i])]
           signals == ImpactSignals(snapshot)
           sorted == ImpactedFiles(signals)
           top == TopImpactedFiles(snapshot)
           named == Filtered(rules, LAMBDA rule : rule.file # Absent)
           sourced == Filtered(deps, LAMBDA dep : SourceOf(snapshot, dep) # Absent)
           targeted == Filtered(deps, LAMBDA dep : TargetOf(snapshot, dep) # Absent)
<1>1. /\ r \in Nat /\ DOMAIN risks = 1..r /\ u \in Nat /\ DOMAIN rules = 1..u /\ d \in Nat /\ DOMAIN deps = 1..d
      /\ \A i \in 1..r : risks[i].file \in Nat /\ risks[i].file # Absent
      /\ \A i \in 1..u : rules[i].file \in Nat
  <2>1. /\ r \in Nat /\ DOMAIN risks = 1..r /\ u \in Nat /\ DOMAIN rules = 1..u /\ d \in Nat /\ DOMAIN deps = 1..d
        /\ \A i \in 1..u : rules[i].file \in Nat
    BY SnapshotLists
  <2>2. /\ \A k \in 1..Len(snapshot.files) : snapshot.files[k].key \in Nat /\ snapshot.files[k].key # Absent
        /\ \A i \in 1..r : \E k \in 1..Len(snapshot.files) : risks[i].file = snapshot.files[k].key
    BY SnapshotLists
  <2>3. \A i \in 1..r : risks[i].file \in Nat /\ risks[i].file # Absent
    <3> HIDE DEF risks, r
    <3> QED BY <2>2
  <2> QED BY <2>1, <2>3
<1>2. \A key : FileOfSymbol(snapshot, key) \in Nat
  BY SnapshotLists, SymbolsHaveFiles DEF Absent
<1>3. a \in [1..r -> Nat] /\ b \in [1..u -> Nat] /\ s \in [1..d -> Nat] /\ t \in [1..d -> Nat]
  BY <1>1, <1>2 DEF SourceOf, TargetOf
<1>4. signals = Present(((a \o b) \o s) \o t)
  <2>1. /\ SeqMap(risks, LAMBDA risk : risk.file) = a /\ SeqMap(rules, LAMBDA rule : rule.file) = b
        /\ SeqMap(deps, LAMBDA dep : SourceOf(snapshot, dep)) = s
        /\ SeqMap(deps, LAMBDA dep : TargetOf(snapshot, dep)) = t
    BY <1>1 DEF SeqMap
  <2> QED BY <2>1 DEF ImpactSignals
<1>5. r = Cardinality(Kept(a)) /\ a \in Seq(Nat)
  <2> HIDE DEF r, risks
  <2>1. a \in Seq(Nat) /\ Len(a) = r BY <1>1, <1>3
  <2>2. Kept(a) = 1..r BY <1>1, <2>1 DEF Kept
  <2> QED BY <1>1, <2>1, <2>2, UpTo
<1>6. Len(named) = Cardinality(Kept(b)) /\ b \in Seq(Nat)
  <2> DEFINE known == {i \in DOMAIN rules : rules[i].file # Absent}
  <2>1. named = RowsAt(rules, known) BY DEF Filtered
  <2>2. known \in SUBSET (1..u) /\ \A i \in 1..u : i \in known <=> b[i] # Absent BY <1>1
  <2> HIDE DEF known, b, named, rules
  <2>3. Len(RowsAt(rules, known)) = Cardinality(Kept(b)) /\ b \in Seq(Nat)
    BY <1>1, <1>3, <2>2, CountPresent
  <2> QED BY <2>1, <2>3
<1>7. Len(sourced) = Cardinality(Kept(s)) /\ s \in Seq(Nat)
  <2> DEFINE known == {i \in DOMAIN deps : SourceOf(snapshot, deps[i]) # Absent}
  <2>1. sourced = RowsAt(deps, known) BY DEF Filtered
  <2>2. known \in SUBSET (1..d) /\ \A i \in 1..d : i \in known <=> s[i] # Absent BY <1>1
  <2> HIDE DEF known, s, sourced, deps
  <2>3. Len(RowsAt(deps, known)) = Cardinality(Kept(s)) /\ s \in Seq(Nat)
    BY <1>1, <1>3, <2>2, CountPresent
  <2> QED BY <2>1, <2>3
<1>8. Len(targeted) = Cardinality(Kept(t)) /\ t \in Seq(Nat)
  <2> DEFINE known == {i \in DOMAIN deps : TargetOf(snapshot, deps[i]) # Absent}
  <2>1. targeted = RowsAt(deps, known) BY DEF Filtered
  <2>2. known \in SUBSET (1..d) /\ \A i \in 1..d : i \in known <=> t[i] # Absent BY <1>1
  <2> HIDE DEF known, t, targeted, deps
  <2>3. Len(RowsAt(deps, known)) = Cardinality(Kept(t)) /\ t \in Seq(Nat)
    BY <1>1, <1>3, <2>2, CountPresent
  <2> QED BY <2>1, <2>3
<1>9. top = SubSeq(sorted, 1, Min({MaxFiles, Len(sorted)}))
  BY DEF TopImpactedFiles
<1>10. ImpactAddsUp(snapshot) <=> (Len(top) < MaxFiles => CountOf(top) = r + Len(named) + Len(sourced) + Len(targeted))
  BY DEF ImpactAddsUp
<1> HIDE DEF risks, rules, deps, r, u, d, a, b, s, t, signals, sorted, top, named, sourced, targeted
<1>11. /\ ((a \o b) \o s) \o t \in Seq(Nat)
       /\ Cardinality(Kept(((a \o b) \o s) \o t)) = r + Len(named) + Len(sourced) + Len(targeted)
  <2>1. a \o b \in Seq(Nat) /\ Cardinality(Kept(a \o b)) = Cardinality(Kept(a)) + Cardinality(Kept(b))
    BY <1>5, <1>6, BothAreKept
  <2> DEFINE ab == a \o b
  <2> HIDE DEF ab
  <2>2. ab \o s \in Seq(Nat) /\ Cardinality(Kept(ab \o s)) = Cardinality(Kept(ab)) + Cardinality(Kept(s))
    BY <1>7, <2>1, BothAreKept DEF ab
  <2> DEFINE abs == ab \o s
  <2> HIDE DEF abs
  <2>3. abs \o t \in Seq(Nat) /\ Cardinality(Kept(abs \o t)) = Cardinality(Kept(abs)) + Cardinality(Kept(t))
    BY <1>8, <2>2, BothAreKept DEF abs
  <2>4. Cardinality(Kept(abs \o t)) = r + Len(named) + Len(sourced) + Len(targeted)
    BY <1>5, <1>6, <1>7, <1>8, <2>1, <2>2, <2>3 DEF ab, abs
  <2> QED BY <2>3, <2>4 DEF ab, abs
<1>12. /\ Len(signals) = r + Len(named) + Len(sourced) + Len(targeted) /\ Len(signals) \in Nat
       /\ DOMAIN signals = 1..Len(signals) /\ \A i \in 1..Len(signals) : signals[i] \in Nat
  <2> DEFINE all == ((a \o b) \o s) \o t
  <2> HIDE DEF all
  <2>1. all \in Seq(Nat) /\ signals = Present(all) BY <1>4, <1>11 DEF all
  <2>2. /\ Len(signals) = Cardinality(Kept(all)) /\ Len(signals) \in Nat
        /\ DOMAIN signals = 1..Len(signals) /\ \A i \in 1..Len(signals) : signals[i] \in Nat
    BY <2>1, PresentOnes
  <2> QED BY <1>11, <2>2 DEF all
<1>13. CountOf(sorted) = Len(signals) /\ \E m \in Nat : sorted \in [1..m -> {sorted[k] : k \in 1..m}]
  BY <1>12, SignalsAreShared DEF sorted
<1>14. PICK m \in Nat : sorted \in [1..m -> {sorted[k] : k \in 1..m}]
  BY <1>13
<1>15. Len(top) < MaxFiles => top = sorted
  <2> DEFINE S == {sorted[k] : k \in 1..m}
  <2>1. sorted \in [1..m -> S] BY <1>14
  <2> HIDE DEF S
  <2>2. sorted \in Seq(S) /\ Len(sorted) = m BY <2>1
  <2>3. Min({MaxFiles, m}) = IF MaxFiles <= m THEN MaxFiles ELSE m BY LeastAndGreatest DEF MaxFiles
  <2>4. CASE MaxFiles <= m
    <3>1. top = SubSeq(sorted, 1, MaxFiles) BY <1>9, <2>2, <2>3, <2>4
    <3>2. Len(top) = MaxFiles BY <2>2, <2>4, <3>1 DEF MaxFiles
    <3> QED BY <3>2 DEF MaxFiles
  <2>5. CASE ~(MaxFiles <= m)
    <3>1. top = SubSeq(sorted, 1, m) BY <1>9, <2>2, <2>3, <2>5
    <3>2. top = [i \in 1..m |-> sorted[i]] BY <2>2, <3>1
    <3>3. sorted = [i \in 1..m |-> sorted[i]] BY <2>1
    <3> QED BY <3>2, <3>3
  <2> QED BY <2>4, <2>5
<1> QED BY <1>10, <1>12, <1>13, <1>15

\* All the counts of an exported report.
LEMMA ReportsAddUp == \A snapshot : IsSnapshot(snapshot) => CountsAddUp(snapshot)
BY InventoryCounts, SummariesCount, ImpactCounts DEF CountsAddUp

-----------------------------------------------------------------------------
(***************************************************************************)
(* The runs of a project.                                                  *)
(***************************************************************************)
\* SetToSeq numbers the elements of a finite set.
LEMMA SetsAreNumbered ==
  ASSUME NEW S, IsFiniteSet(S)
  PROVE  Numbers(SetToSeq(S), Cardinality(S), S)
<1> DEFINE m == Cardinality(S)
           list == SetToSeq(S)
<1>1. m \in Nat /\ list \in [1..m -> S] /\ \A i, j \in 1..m : list[i] = list[j] => i = j
  BY SetsAreListed
<1>2. IsFiniteSet(1..m) /\ Cardinality(1..m) = m
  BY <1>1, UpTo
<1>3. list \in Injection(1..m, S)
  <2> DEFINE P == 1..m
  <2>1. list \in [P -> S] /\ \A i, j \in P : list[i] = list[j] => i = j BY <1>1
  <2> HIDE DEF P, list
  <2> QED BY <2>1 DEF Injection, IsInjective, P
<1>4. list \in Surjection(1..m, S)
  <2> HIDE DEF list
  <2>1. Cardinality(1..m) = Cardinality(S) BY <1>2
  <2> QED BY <1>3, <2>1, FS_Injection
<1>5. \A i \in S : \E k \in 1..m : list[k] = i
  BY <1>4 DEF Surjection
<1> HIDE DEF m, list
<1>6. Numbers(list, m, S)
  BY <1>1, <1>5 DEF Numbers
<1> QED BY <1>6 DEF m, list

\* What is numbered is as many as its numbers.
LEMMA NumberedAre ==
  ASSUME NEW S, NEW m, NEW at, Numbers(at, m, S)
  PROVE  m \in Nat /\ IsFiniteSet(S) /\ Cardinality(S) = m
<1>1. /\ m \in Nat /\ at \in [1..m -> S] /\ \A k, l \in 1..m : at[k] = at[l] => k = l
      /\ \A i \in S : \E k \in 1..m : at[k] = i
  BY DEF Numbers
<1>2. IsFiniteSet(1..m) /\ Cardinality(1..m) = m
  BY <1>1, UpTo
<1>3. at \in Bijection(1..m, S)
  <2> DEFINE P == 1..m
  <2>1. /\ at \in [P -> S] /\ \A k, l \in P : at[k] = at[l] => k = l
        /\ \A i \in S : \E k \in P : at[k] = i
    BY <1>1
  <2> HIDE DEF P
  <2> QED BY <2>1 DEF Bijection, Injection, Surjection, IsInjective, P
<1>4. ExistsBijection(1..m, S)
  BY <1>3 DEF ExistsBijection
<1> QED BY <1>1, <1>2, <1>4, FS_Bijection

\* Numbered in another order.
LEMMA NumberedAgain ==
  ASSUME NEW S, NEW m, NEW at, Numbers(at, m, S), NEW to, Numbers(to, m, 1..m)
  PROVE  Numbers([k \in 1..m |-> at[to[k]]], m, S)
<1> DEFINE P == 1..m
           moved == [k \in P |-> at[to[k]]]
<1>1. /\ m \in Nat /\ at \in [P -> S] /\ \A k, l \in P : at[k] = at[l] => k = l
      /\ \A i \in S : \E k \in P : at[k] = i
      /\ to \in [P -> P] /\ \A k, l \in P : to[k] = to[l] => k = l
      /\ \A i \in P : \E k \in P : to[k] = i
  BY DEF Numbers
<1> HIDE DEF P
<1>2. moved \in [P -> S] /\ (\A k \in P : moved[k] = at[to[k]])
  BY <1>1
<1> HIDE DEF moved
<1>3. \A k, l \in P : moved[k] = moved[l] => k = l
  BY <1>1, <1>2
<1>4. \A i \in S : \E k \in P : moved[k] = i
  BY <1>1, <1>2
<1>5. Numbers(moved, m, S)
  BY <1>1, <1>2, <1>3, <1>4 DEF Numbers, P
<1> QED BY <1>5 DEF moved, P

\* What is sorted further back does not precede what is sorted further ahead.
LEMMA SortingOrders ==
  ASSUME NEW n \in Nat, NEW rank \in [1..n -> Ranks], NEW k \in 1..n, NEW l \in 1..n, k < l
  PROVE  ~Precedes(rank[SortedPlaces(n, rank)[l]], rank[SortedPlaces(n, rank)[k]])
<1> DEFINE P == 1..n
           b == AheadOf(n, rank)
           at == SortedPlaces(n, rank)
           i == at[l]
           j == at[k]
<1>1. \A x \in P : b[x] = {y \in P : Precedes(rank[y], rank[x]) \/ (y < x /\ ~Precedes(rank[x], rank[y]))}
  BY DEF AheadOf
<1>2. \A q \in P : \E x \in P : Cardinality({y \in P : \/ Precedes(rank[y], rank[x])
                                                       \/ y < x /\ ~Precedes(rank[x], rank[y])}) = q - 1
  BY SortedLists
<1>3. \A q \in P : \E x \in P : Cardinality(b[x]) = q - 1
  <2> HIDE DEF b, P
  <2> QED BY <1>1, <1>2
<1>4. at \in [P -> P] /\ \A q \in P : Cardinality(b[at[q]]) = q - 1
  <2> HIDE DEF b
  <2> QED BY <1>3, PlacesTaken DEF SortedPlaces, b
<1>5. i \in P /\ j \in P /\ Cardinality(b[i]) = l - 1 /\ Cardinality(b[j]) = k - 1
  <2> HIDE DEF at, b
  <2> QED BY <1>4
<1> SUFFICES ASSUME Precedes(rank[i], rank[j]) PROVE FALSE
  OBVIOUS
<1> HIDE DEF i, j, at, b
<1>6. \A x \in P : rank[x] \in Ranks
  OBVIOUS
<1>7. b[i] \subseteq b[j] /\ i \in b[j] /\ i \notin b[i]
  <2>1. ASSUME NEW x \in b[i] PROVE x \in b[j]
    <3>1. x \in P /\ (Precedes(rank[x], rank[i]) \/ ~Precedes(rank[i], rank[x])) BY <1>1, <1>5, <2>1
    <3>2. rank[x] \in Ranks /\ rank[i] \in Ranks /\ rank[j] \in Ranks BY <1>5, <1>6, <3>1
    <3>3. Precedes(rank[x], rank[j]) BY <3>1, <3>2, RanksAreOrdered
    <3> QED BY <1>1, <1>5, <3>1, <3>3
  <2>2. ~Precedes(rank[i], rank[i]) BY <1>5, <1>6, RanksAreOrdered
  <2>3. ~(i < i) BY <1>5
  <2>4. i \in b[j] BY <1>1, <1>5
  <2>5. i \notin b[i] BY <1>1, <1>5, <2>2, <2>3
  <2> QED BY <2>1, <2>4, <2>5
<1>8. IsFiniteSet(b[j])
  <2>1. b[j] \subseteq P BY <1>1, <1>5
  <2> QED BY <2>1, UpTo, FS_Subset
<1>9. Cardinality(b[i]) <= Cardinality(b[j])
  BY <1>7, <1>8, FS_Subset
<1> QED BY <1>5, <1>9

\* The first of the rows that are kept.
LEMMA FirstKept ==
  ASSUME NEW n \in Nat, NEW kept \in SUBSET (1..n), kept # {}
  PROVE  KeptPlaces(kept)[1] \in kept /\ \A j \in kept : KeptPlaces(kept)[1] <= j
<1> DEFINE before(i) == {j \in kept : j < i}
           place(k) == CHOOSE i \in kept : Cardinality(before(i)) = k - 1
           first == place(1)
<1>1. IsFiniteSet(kept) /\ Numbers(KeptPlaces(kept), Cardinality(kept), kept)
  BY KeptOnce
<1>2. 1 \in 1..Cardinality(kept)
  <2>1. Cardinality(kept) \in Nat /\ Cardinality(kept) # 0
    BY <1>1, FS_CardinalityType, FS_EmptySet
  <2> QED BY <2>1
<1>3. KeptPlaces(kept)[1] = first
  <2>1. KeptPlaces(kept) = [k \in 1..Cardinality(kept) |-> place(k)] BY DEF KeptPlaces
  <2> HIDE DEF place
  <2> QED BY <1>2, <2>1
<1>4. \E i \in kept : Cardinality(before(i)) = 1 - 1
  <2>1. PICK i \in kept : \A j \in kept : i <= j BY LeastNumber
  <2>2. before(i) = {}
    <3>1. \A j \in kept : i \in Int /\ j \in Int /\ i <= j BY <2>1
    <3>2. \A j \in kept : ~(j < i) BY <3>1
    <3> QED BY <3>2
  <2> HIDE DEF before
  <2> QED BY <2>2, FS_EmptySet
<1>5. first \in kept /\ Cardinality(before(first)) = 0
  <2> HIDE DEF before
  <2> QED BY <1>4
<1> HIDE DEF first
<1>6. before(first) = {}
  <2>1. before(first) \in SUBSET kept OBVIOUS
  <2> HIDE DEF before
  <2>2. IsFiniteSet(before(first)) BY <1>1, <2>1, FS_Subset
  <2> QED BY <1>5, <2>2, FS_EmptySet
<1>7. \A j \in kept : first <= j
  <2> SUFFICES ASSUME NEW j \in kept PROVE first <= j
    OBVIOUS
  <2>1. ~(j < first) BY <1>6
  <2>2. j \in Int /\ first \in Int BY <1>5
  <2> QED BY <2>1, <2>2
<1> QED BY <1>3, <1>5, <1>7

\* UsableRuns numbers the usable runs of a project.
LEMMA UsableAreNumbered ==
  ASSUME NEW projects, NEW runs, RunsHaveKeys(projects, runs), NEW project
  PROVE  Numbers(UsableRuns(project, runs), Cardinality(UsableOf(project, runs)), UsableOf(project, runs))
<1> DEFINE S == UsableOf(project, runs)
           m == Cardinality(S)
           list == SetToSeq(S)
           to == SortedPlaces(m, NumberRanks(list, m))
<1>1. S \in SUBSET runs /\ IsFiniteSet(runs) /\ \A run \in runs : run.number \in Nat
  BY DEF UsableOf, RunsHaveKeys
<1> HIDE DEF S
<1>2. IsFiniteSet(S)
  BY <1>1, FS_Subset
<1>3. Numbers(list, m, S)
  BY <1>2, SetsAreNumbered
<1>4. m \in Nat /\ list \in [1..m -> S] /\ \A k \in 1..m : list[k].number \in Nat
  <2> HIDE DEF m, list
  <2>1. m \in Nat /\ list \in [1..m -> S] BY <1>3 DEF Numbers
  <2> QED BY <1>1, <2>1
<1>5. NumberRanks(list, m) \in [1..m -> Ranks] /\ UsableRuns(project, runs) = [k \in 1..m |-> list[to[k]]]
  <2> HIDE DEF m
  <2>1. DOMAIN SetToSeq(UsableOf(project, runs)) = 1..m
        /\ \A k \in 1..m : SetToSeq(UsableOf(project, runs))[k].number \in Nat
    BY <1>4 DEF S
  <2> QED BY <1>4, <2>1, UsableAreSorted DEF S
<1>6. Numbers(to, m, 1..m)
  <2> HIDE DEF m, list
  <2> QED BY <1>4, <1>5, SortingNumbers
<1> HIDE DEF m, list, to
<1>7. Numbers([k \in 1..m |-> list[to[k]]], m, S)
  BY <1>3, <1>6, NumberedAgain
<1> QED BY <1>5, <1>7 DEF m, S

\* A stretch of a list, and the same stretch of what is made of it.
SameStretch(some, those, rows, made, o, m) ==
  \E w \in Nat : /\ DOMAIN some = 1..w /\ those = [i \in 1..w |-> those[i]]
                 /\ \A i \in 1..w : o + i \in 1..m /\ some[i] = rows[o + i] /\ those[i] = made[o + i]

LEMMA StretchesAlike ==
  ASSUME NEW m \in Nat, NEW S, NEW rows \in [1..m -> S], NEW T, NEW made \in [1..m -> T],
         NEW o \in Nat, NEW size \in Nat \ {0}, NEW last, last = Min({o + size, m})
  PROVE  SameStretch(SubSeq(rows, o + 1, last), SubSeq(made, o + 1, last), rows, made, o, m)
<1> DEFINE p == [page |-> 0, pageSize |-> size, pageCount |-> 0, offset |-> o]
           some == SubSeq(rows, o + 1, last)
           those == SubSeq(made, o + 1, last)
           w == CutSize(p, m)
<1>1. p \in PageBounds /\ p.offset = o /\ p.pageSize = size
  BY DEF PageBounds
<1>2. Len(rows) = m /\ Len(made) = m
  OBVIOUS
<1> HIDE DEF p
<1>3. Cut(rows, p) = some /\ Cut(made, p) = those
  BY <1>1, <1>2 DEF Cut
<1> HIDE DEF some, those
<1>4. w \in Nat /\ Cut(rows, p) \in [1..w -> S]
  BY <1>1, CutsAreRows
<1>5. Cut(made, p) \in [1..w -> T]
  BY <1>1, CutsAreRows
<1>6. \A i \in 1..w : PlaceIn(p, i) \in 1..m
  BY <1>1, CutsAreRows
<1>7. \A i \in 1..w : Cut(rows, p)[i] = rows[PlaceIn(p, i)]
  BY <1>1, <1>4, CutsAreRows
<1>8. \A i \in 1..w : Cut(made, p)[i] = made[PlaceIn(p, i)]
  BY <1>1, <1>5, CutsAreRows
<1>9. \A i : PlaceIn(p, i) = o + i
  BY <1>1 DEF PlaceIn
<1> HIDE DEF w
<1>10. /\ DOMAIN some = 1..w /\ those = [i \in 1..w |-> those[i]]
       /\ \A i \in 1..w : o + i \in 1..m /\ some[i] = rows[o + i] /\ those[i] = made[o + i]
  BY <1>3, <1>4, <1>5, <1>6, <1>7, <1>8, <1>9
<1>11. SameStretch(some, those, rows, made, o, m)
  BY <1>4, <1>10 DEF SameStretch
<1> QED BY <1>11 DEF some, those

\* All pages together list each usable run of the project once.
SummaryOf(project, runs, run) == ToSummary(run, NoRun, LatestCurrentRun(project, runs))

LEMMA RunsAreListed ==
  ASSUME NEW projects, NEW runs, RunsHaveKeys(projects, runs), NEW project, NEW pageSize \in Nat \ {0}
  PROVE  LET usable == UsableRuns(project, runs)
         IN  Listed(project, runs, pageSize)
               = [k \in 1..Cardinality(UsableOf(project, runs)) |-> SummaryOf(project, runs, usable[k])]
<1> DEFINE S == UsableOf(project, runs)
           m == Cardinality(S)
           usable == UsableRuns(project, runs)
           made == [k \in 1..m |-> SummaryOf(project, runs, usable[k])]
           T == {made[k] : k \in 1..m}
           page(n) == ListAnalysisRuns(project, runs, NoRun, n, pageSize)
           count == PageCountOf(m, pageSize)
           some(n) == SubSeq(usable, (n - 1) * pageSize + 1, Min({(n - 1) * pageSize + pageSize, m}))
           those(n) == SubSeq(made, (n - 1) * pageSize + 1, Min({(n - 1) * pageSize + pageSize, m}))
           pages == [n \in 1..count |-> those(n)]
<1>1. m \in Nat /\ usable \in [1..m -> S]
  <2>1. Numbers(usable, m, S) BY UsableAreNumbered
  <2> HIDE DEF m, S, usable
  <2> QED BY <2>1 DEF Numbers
<1> HIDE DEF m, S, usable
<1>2. Len(usable) = m
  BY <1>1
<1>3. made \in [1..m -> T] /\ made \in Seq(T) /\ Len(made) = m
  <2> DEFINE at(k) == SummaryOf(project, runs, usable[k])
  <2>1. made \in [1..m -> T] OBVIOUS
  <2> HIDE DEF made, T
  <2> QED BY <1>1, <2>1
<1>4. \A n : page(n).pageCount = count
  BY <1>2 DEF ListAnalysisRuns, PageCountOf, usable
<1>5. ASSUME NEW n \in 1..count PROVE page(n).items = those(n)
  <2>0. n \in Nat \ {0}
    <3>1. count \in Nat BY <1>1, PagesHoldAll
    <3> HIDE DEF count
    <3> QED BY <3>1
  <2>1. n * pageSize = (n - 1) * pageSize + pageSize
    BY <2>0
  <2>2. page(n).items
          = SeqMap(SubSeq(usable, (n - 1) * pageSize + 1, Min({n * pageSize, m})),
                   LAMBDA run : SummaryOf(project, runs, run))
    BY <1>2 DEF ListAnalysisRuns, usable, SummaryOf
  <2>3. page(n).items = [i \in DOMAIN some(n) |-> SummaryOf(project, runs, some(n)[i])]
    BY <2>1, <2>2 DEF SeqMap
  <2> DEFINE o == (n - 1) * pageSize
             last == Min({o + pageSize, m})
  <2>4. SameStretch(some(n), those(n), usable, made, o, m)
    <3>1. o \in Nat
      <4>1. n - 1 \in Nat BY <2>0
      <4> QED BY <4>1
    <3>2. some(n) = SubSeq(usable, o + 1, last) /\ those(n) = SubSeq(made, o + 1, last)
      OBVIOUS
    <3> HIDE DEF made, T, o, some, those
    <3>3. last = Min({o + pageSize, m}) OBVIOUS
    <3> HIDE DEF last
    <3>4. SameStretch(SubSeq(usable, o + 1, last), SubSeq(made, o + 1, last), usable, made, o, m)
      BY <1>1, <1>3, <3>1, <3>3, StretchesAlike
    <3> QED BY <3>2, <3>4
  <2> HIDE DEF o
  <2>5. \A k \in 1..m : made[k] = SummaryOf(project, runs, usable[k])
    OBVIOUS
  <2> HIDE DEF some, those, made, page
  <2>6. PICK w \in Nat :
          /\ DOMAIN some(n) = 1..w /\ those(n) = [i \in 1..w |-> those(n)[i]]
          /\ \A i \in 1..w : o + i \in 1..m /\ some(n)[i] = usable[o + i] /\ those(n)[i] = made[o + i]
    BY <2>4 DEF SameStretch
  <2>7. \A i \in 1..w : SummaryOf(project, runs, some(n)[i]) = those(n)[i]
    BY <2>5, <2>6
  <2> QED BY <2>3, <2>6, <2>7
<1>6. [n \in 1..page(1).pageCount |-> page(n).items] = pages
  <2> HIDE DEF page, those, count
  <2> QED BY <1>4, <1>5
<1>7. FlattenSeq(pages) = made
  <2> HIDE DEF made, T
  <2>1. pages = [n \in 1..PageCountOf(Len(made), pageSize) |->
                  SubSeq(made, (n - 1) * pageSize + 1, Min({(n - 1) * pageSize + pageSize, Len(made)}))]
    BY <1>3
  <2> HIDE DEF pages
  <2> QED BY <1>3, <2>1, PagesMakeTheList
<1>8. Listed(project, runs, pageSize) = FlattenSeq([n \in 1..page(1).pageCount |-> page(n).items])
  BY DEF Listed
<1> HIDE DEF page, pages
<1>9. Listed(project, runs, pageSize) = made
  BY <1>6, <1>7, <1>8
<1> QED BY <1>9 DEF m, S, usable

\* The first of the matches of a project is its newest run with the current source.
LEMMA FirstIsNewest ==
  ASSUME NEW projects, NEW runs, RunsHaveKeys(projects, runs), NEW project \in projects
  PROVE  LET matches == Matching(project, projects, runs)
             current == CurrentRuns(project, runs)
         IN  IF project.fp = Absent \/ current = {} THEN matches = <<>>
             ELSE /\ matches # <<>> /\ Head(matches) = Newest(current)
                  /\ Newest(current) \in current
<1> DEFINE Q == {run \in runs : /\ IsUsable(run) /\ run.fp \in Fingerprints(projects)
                                /\ run.project \in {p.id : p \in projects}}
           m == Cardinality(Q)
           list == SetToSeq(Q)
           rank == NewerRanks(list, m)
           to == SortedPlaces(m, rank)
           sorted == CurrentFirst(projects, runs)
           matches == Matching(project, projects, runs)
           current == CurrentRuns(project, runs)
           Test(run) == project \in Known(projects) /\ OwnCurrentSource(run, project, Fingerprints(projects))
           kept == {k \in 1..m : Test(sorted[k])}
<1>1. /\ IsFiniteSet(runs) /\ \A run \in runs : run.id \in Nat /\ run.number \in Nat
      /\ \A run, other \in runs : run.project = other.project /\ run.number = other.number => run = other
  BY DEF RunsHaveKeys
<1>2. Numbers(list, m, Q)
  <2>1. Q \in SUBSET runs OBVIOUS
  <2> HIDE DEF Q
  <2>2. IsFiniteSet(Q) BY <1>1, <2>1, FS_Subset
  <2> QED BY <2>2, SetsAreNumbered
<1>3. sorted = Sorted(list, NewerFirst)
  BY DEF CurrentFirst
<1>4. Q \in SUBSET runs /\ \A run \in Q : IsUsable(run)
  OBVIOUS
<1>5. project \in Known(projects) => \A run : run \in current <=> run \in Q /\ Test(run)
  <2>1. project \in Known(projects) => project.fp \in Fingerprints(projects) BY DEF Fingerprints
  <2> QED BY <2>1 DEF CurrentRuns, OwnCurrentSource
<1>6. project \in Known(projects) <=> project.fp # Absent
  BY DEF Known
<1>7. matches = RowsAt(sorted, {k \in DOMAIN sorted : Test(sorted[k])})
  BY DEF Matching, Filtered
<1> HIDE DEF Q, m, list, sorted, matches
<1>8. /\ m \in Nat /\ list \in [1..m -> Q] /\ DOMAIN list = 1..m
      /\ \A k \in 1..m : list[k].number \in Nat /\ list[k].id \in Nat
  <2>1. m \in Nat /\ list \in [1..m -> Q] BY <1>2 DEF Numbers
  <2> QED BY <1>1, <1>4, <2>1
<1>9. rank \in [1..m -> Ranks] /\ sorted = [k \in 1..m |-> list[to[k]]]
  BY <1>3, <1>8, NewerAreSorted
<1>10. \A k \in 1..m : rank[k][1] = -list[k].number
  BY DEF NewerRanks
<1> HIDE DEF rank
<1>11. Numbers(to, m, 1..m)
  BY <1>8, <1>9, SortingNumbers
<1>12. \A k, l \in 1..m : k < l => ~Precedes(rank[to[l]], rank[to[k]])
  BY <1>8, <1>9, SortingOrders
<1> HIDE DEF to
<1>13. Numbers(sorted, m, Q)
  BY <1>2, <1>9, <1>11, NumberedAgain
<1>14. /\ sorted \in [1..m -> Q] /\ \A run \in Q : \E k \in 1..m : sorted[k] = run
       /\ \A k \in 1..m : to[k] \in 1..m /\ sorted[k] = list[to[k]]
  <2>1. sorted \in [1..m -> Q] /\ \A run \in Q : \E k \in 1..m : sorted[k] = run BY <1>13 DEF Numbers
  <2>2. \A k \in 1..m : to[k] \in 1..m BY <1>11 DEF Numbers
  <2> QED BY <1>9, <2>1, <2>2
<1>15. \A k, l \in 1..m : k < l => sorted[l].number <= sorted[k].number
  <2> SUFFICES ASSUME NEW k \in 1..m, NEW l \in 1..m, k < l PROVE sorted[l].number <= sorted[k].number
    OBVIOUS
  <2> DEFINE i == to[k]
             j == to[l]
  <2>1. i \in 1..m /\ j \in 1..m /\ sorted[k] = list[i] /\ sorted[l] = list[j] BY <1>14
  <2>2. ~Precedes(rank[j], rank[i]) BY <1>12
  <2> HIDE DEF i, j
  <2>3. ~(rank[j][1] < rank[i][1]) BY <2>2 DEF Precedes
  <2>4. list[i].number \in Nat /\ list[j].number \in Nat BY <1>8, <2>1
  <2>5. rank[i][1] = -list[i].number /\ rank[j][1] = -list[j].number BY <1>10, <2>1
  <2> QED BY <2>1, <2>3, <2>4, <2>5
<1>16. matches = RowsAt(sorted, kept) /\ kept \in SUBSET (1..m)
  <2>1. DOMAIN sorted = 1..m BY <1>14
  <2> QED BY <1>7, <2>1
<1>17. \A k \in 1..m : k \in kept <=> Test(sorted[k])
  OBVIOUS
<1>18. project.fp = Absent => kept = {}
  BY <1>6
<1>19. project.fp # Absent => {sorted[k] : k \in kept} = current
  <2> HIDE DEF Test, kept, current
  <2> QED BY <1>5, <1>6, <1>14, <1>16, <1>17
<1> HIDE DEF kept, Test
<1>20. kept = {} => matches = <<>>
  <2>1. ASSUME kept = {} PROVE Cardinality(kept) = 0
    BY <2>1, FS_EmptySet, Zenon
  <2>2. matches = [k \in 1..Cardinality(kept) |-> sorted[KeptPlaces(kept)[k]]] BY <1>16, KeptAre
  <2> QED BY <2>1, <2>2
<1>21. ASSUME project.fp # Absent, current # {}
       PROVE  matches # <<>> /\ Head(matches) = Newest(current) /\ Newest(current) \in current
  <2> DEFINE first == KeptPlaces(kept)[1]
             newest == sorted[first]
  <2>1. kept # {} BY <1>19, <1>21
  <2>2. first \in kept /\ \A k \in kept : first <= k
    BY <1>8, <1>16, <2>1, FirstKept
  <2>3. ArePlaced(matches, Cardinality(kept), Q, sorted, KeptPlaces(kept), kept)
    BY <1>8, <1>14, <1>16, <2>1, PlacedRows
  <2>4. matches # <<>> /\ Head(matches) = newest
    BY <2>3 DEF ArePlaced
  <2> HIDE DEF first
  <2>5. newest \in current BY <1>19, <1>21, <2>2
  <2>6. \A other \in current : other.number <= newest.number
    <3> SUFFICES ASSUME NEW other \in current PROVE other.number <= newest.number
      OBVIOUS
    <3>1. PICK k \in kept : other = sorted[k] BY <1>19, <1>21
    <3>2. first \in 1..m /\ k \in 1..m /\ first <= k BY <1>16, <2>2
    <3>3. CASE first = k
      <4>1. sorted[k].number \in Nat BY <1>1, <1>4, <1>14, <3>2
      <4> QED BY <3>1, <3>3, <4>1
    <3>4. CASE first # k
      <4>1. first < k BY <3>2, <3>4
      <4> QED BY <1>15, <3>1, <3>2, <4>1
    <3> QED BY <3>3, <3>4
  <2> HIDE DEF newest
  <2>7. \A run \in current : run \in runs /\ run.project = project.id BY DEF CurrentRuns
  <2> HIDE DEF current
  <2>8. \A run \in current : (\A other \in current : other.number <= run.number) => run = newest
    <3> SUFFICES ASSUME NEW run \in current, \A other \in current : other.number <= run.number
                 PROVE  run = newest
      OBVIOUS
    <3>1. run.number <= newest.number /\ newest.number <= run.number BY <2>5, <2>6
    <3>2. run \in runs /\ newest \in runs /\ run.project = newest.project BY <2>5, <2>7
    <3>3. run.number \in Nat /\ newest.number \in Nat BY <1>1, <3>2
    <3>4. run.number = newest.number BY <3>1, <3>3
    <3> QED BY <1>1, <3>2, <3>4
  <2>9. Newest(current) = newest
    BY <2>5, <2>6, <2>8 DEF Newest
  <2> QED BY <2>4, <2>5, <2>9
<1>22. kept # {} => current # {} /\ project.fp # Absent
  BY <1>18, <1>19
<1> QED BY <1>20, <1>21, <1>22 DEF matches

\* What ViewsNameTheSameRuns says of a project.
SameRuns(projects, runs, pageSize, project) ==
  LET listed == Listed(project, runs, pageSize)
      ids    == {item.id : item \in ToSet(listed)}
      latest == {item.id : item \in {i \in ToSet(listed) : i.isLatestUsable}}
  IN /\ Len(listed) = Cardinality(ids)
     /\ \A run \in {r \in runs : r.project = project.id} :
          (ExportOutcome(run, TRUE) = "ok" \/ \E other \in runs : DiffResult(project, run, other) = "ok")
            => run.id \in ids
     /\ IF latest = {} THEN StatusByProject(projects, runs)[project.id] = StatusOf(project)
        ELSE \E run \in runs : /\ latest = {run.id}
                               /\ StatusByProject(projects, runs)[project.id] = run.status

\* The list, the status, the diff and the export of a project name the same runs.
LEMMA RunsAreTheSame ==
  ASSUME NEW projects, NEW runs, RunsHaveKeys(projects, runs), NEW pageSize \in Nat \ {0},
         NEW project \in projects
  PROVE  SameRuns(projects, runs, pageSize, project)
<1> DEFINE U == UsableOf(project, runs)
           m == Cardinality(U)
           usable == UsableRuns(project, runs)
           last == LatestCurrentRun(project, runs)
           listed == Listed(project, runs, pageSize)
           ids == {item.id : item \in ToSet(listed)}
           latest == {item.id : item \in {i \in ToSet(listed) : i.isLatestUsable}}
           current == CurrentRuns(project, runs)
           matches == Matching(project, projects, runs)
           status == StatusByProject(projects, runs)[project.id]
<1>1. /\ \A run \in runs : run.id \in Nat /\ run.id # NoRun
      /\ \A run, other \in runs : run.id = other.id => run = other
      /\ \A p \in projects : p.id = project.id => p = project
  BY DEF RunsHaveKeys, NoRun
<1>2. \A run : run \in U <=> run \in runs /\ run.project = project.id /\ IsUsable(run)
  BY DEF UsableOf
<1>3. Numbers(usable, m, U)
  BY UsableAreNumbered
<1>4. listed = [k \in 1..m |-> SummaryOf(project, runs, usable[k])]
  BY RunsAreListed
<1>5. \A run : SummaryOf(project, runs, run).id = run.id
               /\ (SummaryOf(project, runs, run).isLatestUsable <=> run.id = last)
  BY DEF SummaryOf, ToSummary
<1> HIDE DEF U, m, usable, last, listed
<1>6. /\ m \in Nat /\ usable \in [1..m -> U] /\ \A k, l \in 1..m : usable[k] = usable[l] => k = l
      /\ \A run \in U : \E k \in 1..m : usable[k] = run
  BY <1>3 DEF Numbers
<1>7. ToSet(listed) = {SummaryOf(project, runs, run) : run \in U}
  <2>1. ToSet(listed) = {SummaryOf(project, runs, usable[k]) : k \in 1..m} BY <1>4 DEF ToSet
  <2> QED BY <1>6, <2>1
<1>8. ids = {run.id : run \in U}
  BY <1>5, <1>7
<1>9. latest = {run.id : run \in {r \in U : r.id = last}}
  <2>1. {i \in ToSet(listed) : i.isLatestUsable} = {SummaryOf(project, runs, run) : run \in {r \in U : r.id = last}}
    <3>1. \A run : SummaryOf(project, runs, run).isLatestUsable <=> run.id = last BY <1>5
    <3> QED BY <1>7, <3>1
  <2> QED BY <1>5, <2>1
<1>10. Len(listed) = m
  <2> DEFINE S == {listed[k] : k \in 1..m}
  <2>1. listed \in [1..m -> S]
    <3> DEFINE of(k) == SummaryOf(project, runs, usable[k])
    <3>1. listed = [k \in 1..m |-> of(k)] BY <1>4
    <3> HIDE DEF of
    <3> QED BY <3>1
  <2> HIDE DEF S
  <2> QED BY <1>6, <2>1
<1>11. Cardinality(ids) = m
  <2> DEFINE at == [k \in 1..m |-> usable[k].id]
  <2>1. at \in [1..m -> ids] /\ \A k \in 1..m : at[k] = usable[k].id BY <1>6, <1>8
  <2> HIDE DEF at, ids
  <2>2. \A k, l \in 1..m : at[k] = at[l] => k = l BY <1>1, <1>2, <1>6, <2>1
  <2>3. \A i \in ids : \E k \in 1..m : at[k] = i BY <1>6, <1>8, <2>1
  <2>4. Numbers(at, m, ids) BY <1>6, <2>1, <2>2, <2>3 DEF Numbers
  <2> QED BY <2>4, NumberedAre
<1>12. ASSUME NEW run \in runs, run.project = project.id,
              ExportOutcome(run, TRUE) = "ok" \/ \E other \in runs : DiffResult(project, run, other) = "ok"
       PROVE  run.id \in ids
  <2>1. ExportOutcome(run, TRUE) = "ok" => IsUsable(run)
    BY DEF ExportOutcome, IsReportReady
  <2>2. ASSUME NEW other \in runs, DiffResult(project, run, other) = "ok" PROVE IsUsable(run)
    <3>1. Comparable(project, run) = "ok" BY <2>2 DEF DiffResult
    <3> QED BY <3>1 DEF Comparable
  <2>3. IsUsable(run) BY <1>12, <2>1, <2>2
  <2> QED BY <1>2, <1>8, <1>12, <2>3
<1>13. status = IF matches # <<>> THEN Head(matches).status ELSE StatusOf(project)
  <2>1. (CHOOSE p \in projects : p.id = project.id) = project BY <1>1
  <2>2. project.id \in {p.id : p \in projects} OBVIOUS
  <2> QED BY <2>1, <2>2 DEF StatusByProject
<1>14. \A run \in current : run \in U
  BY <1>2 DEF CurrentRuns
<1> HIDE DEF current, matches, status, ids, latest
<1>15. CASE project.fp = Absent \/ current = {}
  <2>1. last = NoRun BY <1>15 DEF LatestCurrentRun, current, last
  <2>2. latest = {} BY <1>1, <1>2, <1>9, <2>1
  <2>3. matches = <<>> BY <1>15, FirstIsNewest DEF current, matches
  <2> QED BY <1>10, <1>11, <1>12, <1>13, <2>2, <2>3 DEF SameRuns, listed, ids, latest, status
<1>16. CASE ~(project.fp = Absent \/ current = {})
  <2> DEFINE newest == Newest(current)
  <2>1. last = newest.id BY <1>16 DEF LatestCurrentRun, current, last
  <2>2. matches # <<>> /\ Head(matches) = newest /\ newest \in current
    BY <1>16, FirstIsNewest DEF current, matches
  <2> HIDE DEF newest
  <2>3. newest \in U /\ newest \in runs BY <1>2, <1>14, <2>2
  <2>4. {r \in U : r.id = last} = {newest} BY <1>1, <1>2, <2>1, <2>3
  <2>5. latest = {newest.id} BY <1>9, <2>4
  <2>6. status = newest.status BY <1>13, <2>2
  <2>7. latest # {} /\ \E run \in runs : latest = {run.id} /\ status = run.status BY <2>3, <2>5, <2>6
  <2> QED BY <1>10, <1>11, <1>12, <2>7 DEF SameRuns, listed, ids, latest, status
<1> QED BY <1>15, <1>16

\* So the reports agree, whichever of them is asked for.
LEMMA ReportsTellOfTheirRuns ==
  ASSUME input \in Inputs PROVE ReportsAgreeWithRuns
<1>1. CASE input.kind = "runs"
  <2>1. RunsHaveKeys(input.projects, input.runs) /\ input.pageSize \in Nat \ {0} BY <1>1, ReportInputs
  <2>2. \A project \in input.projects : SameRuns(input.projects, input.runs, input.pageSize, project)
    BY <2>1, RunsAreTheSame
  <2>3. ViewsNameTheSameRuns(input.projects, input.runs, input.pageSize)
    BY <2>2 DEF ViewsNameTheSameRuns, SameRuns
  <2> QED BY <1>1, <2>3 DEF ReportsAgreeWithRuns
<1>2. CASE input.kind = "export"
  <2>1. IsSnapshot(input.snapshot) BY <1>2, ReportInputs
  <2> QED BY <1>2, <2>1, ReportsAddUp DEF ReportsAgreeWithRuns
<1>3. CASE input.kind \notin {"runs", "export"}
  BY <1>3 DEF ReportsAgreeWithRuns
<1> QED BY <1>1, <1>2, <1>3

\* The list of runs, the status of a project, the diff and the export name the same
\* runs, and what an exported report counts is what the snapshot holds, whatever
\* runs and snapshots there are.
THEOREM ReportsAgree == PageSpec => []ReportsAgreeWithRuns
<1>1. PageTypeOK => ReportsAgreeWithRuns
  BY ReportsTellOfTheirRuns DEF PageTypeOK
<1>2. PageSpec => []PageTypeOK
  BY PageTypeInit, PageTypeStep, PTL DEF PageSpec
<1> QED BY <1>1, <1>2, PTL
=============================================================================
