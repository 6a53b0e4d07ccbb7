------------------------ MODULE AnalysisHistory_proofs ------------------------
(***************************************************************************)
(* Proofs about AnalysisHistory, for any number of workers that overlap,   *)
(* of requests, imports and runs.                                          *)
(*                                                                         *)
(* No property asks for more of a run than its id, its number and its      *)
(* status: its key.  A backfill writes whole rows that were read long      *)
(* before, so the invariant says that keys never change.                   *)
(***************************************************************************)
EXTENDS AnalysisHistory, TLAPS, WellFoundedInduction

Key(run)    == <<run.id, run.number, run.status>>
Keys(rows)  == {Key(run) : run \in rows}
KeySet      == RunIds \X RunIds \X RunStatuses
Pending     == {"pending", "processing"}
Ended(keys) == {k \in keys : k[3] \notin Pending}

WorkPcs    == {"idle", "extract", "replace", "load", "analyze", "persist", "error"}
RequestPcs == {"idle", "tables", "project", "files", "fingerprint", "pointer", "point"}

ProjectType == [exists : BOOLEAN, fp : Sources \cup {None},
                status : {"draft", "importing", "ready", "analyzing", "completed", "failed"}]
CountType   == [imports : Nat, requests : Nat, runs : Nat]
Views       == [project : ProjectType, files : Sources \cup {None}, runs : SUBSET Run,
                projection : SUBSET RunIds]
WorkType    == [pc : WorkPcs, source : Sources \cup {None}, view : Views]
RequestType == [pc : RequestPcs, run : Run \cup {None}, todo : SUBSET {"files", "rows"},
                manifest : Sources \cup {None}, rows : SUBSET RunIds, found : BOOLEAN]

TypeOK ==
  /\ project \in ProjectType
  /\ files \in Sources \cup {None}
  /\ runs \in SUBSET Run
  /\ projection \in SUBSET RunIds
  /\ work \in [Workers -> WorkType]
  /\ request \in [Requests -> RequestType]
  /\ count \in CountType

\* A key has its id to itself, and what is still pending is the first run.
KeysOK ==
  /\ \A k, l \in Keys(runs) : k[1] = l[1] => k = l
  /\ \A k \in Keys(runs) : k[2] <= k[1] /\ k[1] <= count.runs /\ (k[3] \in Pending => k[2] = 1)

\* The run that was seen is still itself, if it still is.
SameRun(seen, keys) ==
  /\ seen[1] <= count.runs
  /\ \A k \in keys : k[1] = seen[1] => k = seen

\* The number a transaction allocates that has seen these keys.
IsNext(n, seen) == /\ n = 1 \/ \E s \in Ended(seen) : s[2] = n - 1
                   /\ \A s \in Ended(seen) : s[2] < n

\* No number is skipped: a number above the one that a transaction is about to
\* allocate has only been given out after that one.
NothingSkipped(seen, keys) ==
  \A n \in Nat : IsNext(n, seen) =>
    \A k \in keys : k[2] > n => \E l \in Ended(keys) : l[2] = n

TransactionPcs == {"replace", "persist"}
ViewsOK ==
  \A w \in Workers : work[w].pc \in TransactionPcs =>
    LET seen == Keys(work[w].view.runs) IN
    /\ \A s \in seen : SameRun(s, Keys(runs))
    /\ \A s, t \in seen : s[1] = t[1] => s = t
    /\ Ended(seen) \subseteq Keys(runs)
    /\ NothingSkipped(seen, Keys(runs))

\* Where a request holds a run it has read.
ReadPcs == {"tables", "pointer", "point"}
RequestsOK ==
  \A r \in Requests : request[r].pc \in ReadPcs =>
    /\ request[r].run \in Run /\ request[r].run.status \in UsableStatuses
    /\ SameRun(Key(request[r].run), Keys(runs))

ProjectionOK ==
  \A id \in projection : \E k \in Keys(runs) :
    /\ k[1] = id /\ k[3] \in UsableStatuses
    /\ \A l \in Ended(Keys(runs)) : l[2] <= k[2]

BaselineOK ==
  baseline # None => \E k \in Keys(runs) : k[1] = baseline /\ k[3] \in UsableStatuses

KeyInv == KeysOK /\ ViewsOK /\ RequestsOK /\ ProjectionOK /\ BaselineOK
IInv == TypeOK /\ KeyInv

-----------------------------------------------------------------------------
(***************************************************************************)
(* Keys of sets of runs.                                                   *)
(***************************************************************************)
LEMMA KeyTypes ==
  ASSUME NEW run \in Run
  PROVE  /\ Key(run) \in KeySet
         /\ Key(run)[1] = run.id /\ Key(run)[2] = run.number /\ Key(run)[3] = run.status
  BY DEF Key, KeySet, Run

LEMMA KeysTyped == ASSUME NEW rows \in SUBSET Run PROVE Keys(rows) \subseteq KeySet
  BY KeyTypes DEF Keys

\* Settled and WithoutPending keep the ended keys.
LEMMA SettledKeys ==
  ASSUME NEW rows \in SUBSET Run
  PROVE  Settled(rows) \in SUBSET Run /\ Keys(Settled(rows)) = Ended(Keys(rows))
  BY KeyTypes DEF Keys, Ended, Settled, Pending

\* A backfill completes a row, and keeps its key.
LEMMA CompletedKey ==
  ASSUME NEW run \in Run, NEW manifest \in Sources \cup {None}, NEW rows \in SUBSET RunIds
  PROVE  Completed(run, manifest, rows) \in Run /\ Key(Completed(run, manifest, rows)) = Key(run)
  BY DEF Completed, Run, Snapshot, Key

LEMMA BackfilledKeys ==
  ASSUME NEW rows \in SUBSET Run, NEW view, view.runs \in SUBSET Run,
         view.files \in Sources \cup {None}, view.projection \in SUBSET RunIds,
         \A run \in rows, seen \in view.runs : run.id = seen.id => Key(run) = Key(seen)
  PROVE  Backfilled(rows, view) \in SUBSET Run /\ Keys(Backfilled(rows, view)) = Keys(rows)
<1> DEFINE fill(run) == IF \E seen \in MissingSnapshot(view.runs) : seen.id = run.id
                          THEN Completed(CHOOSE seen \in view.runs : seen.id = run.id,
                                         view.files, view.projection)
                          ELSE run
<1>1. ASSUME NEW run \in rows PROVE fill(run) \in Run /\ Key(fill(run)) = Key(run)
  <2>1. CASE \E seen \in MissingSnapshot(view.runs) : seen.id = run.id
    <3> DEFINE seen == CHOOSE s \in view.runs : s.id = run.id
    <3>1. seen \in view.runs /\ seen.id = run.id
      BY <2>1 DEF MissingSnapshot, Usable
    <3>2. seen \in Run /\ Key(seen) = Key(run)
      BY <3>1
    <3> HIDE DEF seen
    <3>3. /\ Completed(seen, view.files, view.projection) \in Run
          /\ Key(Completed(seen, view.files, view.projection)) = Key(run)
      BY <3>2, CompletedKey
    <3> QED BY <2>1, <3>3 DEF seen
  <2>2. CASE ~\E seen \in MissingSnapshot(view.runs) : seen.id = run.id
    BY <2>2
  <2> QED BY <2>1, <2>2
<1>2. Backfilled(rows, view) = {fill(run) : run \in rows}
  BY DEF Backfilled
<1> HIDE DEF fill
<1> QED BY <1>1, <1>2 DEF Keys

\* A set of naturals has a least element, because < is well-founded on Nat.
Below == {pair \in Nat \X Nat : pair[1] < pair[2]}

LEMMA LeastExists ==
  ASSUME NEW gaps \in SUBSET Nat, gaps # {}
  PROVE  \E gap \in gaps : \A other \in gaps : gap <= other
<1>1. IsWellFoundedOn(Below, Nat)
  BY NatLessThanWellFounded DEF OpToRel, Below
<1>2. PICK gap \in gaps : \A other \in gaps : <<other, gap>> \notin Below
  BY <1>1, WFMin, Zenon
<1>3. ASSUME NEW other \in gaps PROVE gap <= other
  <2>1. /\ gap \in Nat /\ other \in Nat
        /\ <<other, gap>>[1] = other /\ <<other, gap>>[2] = gap
    OBVIOUS
  <2>2. other < gap => <<other, gap>> \in Below
    BY <2>1 DEF Below
  <2> QED BY <1>2, <2>1, <2>2
<1> QED BY <1>3

\* The numbers of a set of runs have a largest one.
LEMMA MaxExists ==
  ASSUME NEW numbers \in SUBSET (0..MaxRuns), numbers # {}
  PROVE  Max(numbers) \in numbers /\ \A n \in numbers : n <= Max(numbers)
<1> DEFINE gaps == {gap \in Nat : \E n \in numbers : gap = MaxRuns - n}
<1>1. MaxRuns \in Nat
  BY HistoryConstants
<1>2. gaps \in SUBSET Nat
  OBVIOUS
<1>3. \A n \in numbers : n \in Nat /\ MaxRuns - n \in gaps
  BY <1>1
<1>4. gaps # {}
  BY <1>3
<1>5. PICK gap \in gaps : \A other \in gaps : gap <= other
  <2> HIDE DEF gaps
  <2> QED BY <1>2, <1>4, LeastExists
<1>6. PICK top \in numbers : gap = MaxRuns - top
  BY <1>5
<1>7. ASSUME NEW n \in numbers PROVE n <= top
  <2>1. n \in Nat /\ top \in Nat /\ MaxRuns - n \in gaps
    BY <1>3, <1>6
  <2>2. MaxRuns - top <= MaxRuns - n
    BY <1>5, <1>6, <2>1
  <2> QED BY <1>1, <2>1, <2>2
<1>8. \E x \in numbers : \A y \in numbers : x >= y
  <2>1. \A n \in numbers : top >= n
    BY <1>3, <1>7
  <2> QED BY <2>1
<1>9. Max(numbers) \in numbers /\ \A y \in numbers : Max(numbers) >= y
  <2> HIDE DEF gaps
  <2> QED BY <1>8 DEF Max
<1> QED BY <1>3, <1>9

\* AllocateNextRunNumber is one above the largest number, or 1.
LEMMA NextNumber ==
  ASSUME NEW rows \in SUBSET Run, Keys(rows) = Ended(Keys(rows))
  PROVE  /\ AllocateNextRunNumber(rows) \in Nat
         /\ IsNext(AllocateNextRunNumber(rows), Keys(rows))
<1> DEFINE numbers == {0} \cup {run.number : run \in rows}
<1>1. numbers \in SUBSET (0..MaxRuns)
  BY HistoryConstants DEF Run, RunIds
<1> HIDE DEF numbers
<1>2. /\ Max(numbers) \in numbers /\ Max(numbers) \in Nat
      /\ \A n \in numbers : n \in Nat /\ n <= Max(numbers)
  <2>1. numbers # {}
    BY DEF numbers
  <2>2. Max(numbers) \in numbers /\ \A n \in numbers : n <= Max(numbers)
    BY <1>1, <2>1, MaxExists
  <2>3. MaxRuns \in Nat /\ \A n \in 0..MaxRuns : n \in Nat
    BY HistoryConstants
  <2>4. \A n \in numbers : n \in Nat
    BY <1>1, <2>3
  <2> QED BY <2>2, <2>4
<1> DEFINE top == Max(numbers)
<1>3. AllocateNextRunNumber(rows) = top + 1
  BY DEF AllocateNextRunNumber, numbers
<1> HIDE DEF top
<1>4. top \in Nat /\ \A run \in rows : run.number \in Nat /\ run.number <= top
  BY <1>2 DEF top, numbers
<1>5. top = 0 \/ \E run \in rows : run.number = top
  BY <1>2 DEF top, numbers
<1>6. \A s \in Keys(rows) : \E run \in rows : s[2] = run.number
  BY KeyTypes DEF Keys
<1>7. \A run \in rows : Key(run) \in Keys(rows) /\ Key(run)[2] = run.number
  BY KeyTypes DEF Keys
<1> QED BY <1>3, <1>4, <1>5, <1>6, <1>7 DEF IsNext

-----------------------------------------------------------------------------
(***************************************************************************)
(* What a step does, as far as the invariant can tell: four kinds.         *)
(***************************************************************************)
Same == Keys(runs') = Keys(runs) /\ count'.runs = count.runs

KeepsView(w) == work'[w].pc \in TransactionPcs =>
                  work[w].pc \in TransactionPcs /\ work'[w].view = work[w].view
TakesView(w) == work'[w].view.runs = runs
KeepsRead(r) == request'[r].pc \in ReadPcs =>
                  request[r].pc \in ReadPcs /\ request'[r].run = request[r].run
TakesRead(r) == request'[r].run \in Usable(runs)

Holds == (\A w \in Workers : KeepsView(w)) /\ (\A r \in Requests : KeepsRead(r))

Points == \E r \in Requests : /\ request[r].pc = "point"
                              /\ baseline' = request[r].run.id
                              /\ \E run \in runs : run.id = baseline'

\* It reads, or writes no more than fingerprints, snapshots and the baseline.
Reads ==
  /\ Same
  /\ \A w \in Workers : KeepsView(w) \/ TakesView(w)
  /\ \A r \in Requests : KeepsRead(r) \/ TakesRead(r)
  /\ projection' \in {projection, {}}
  /\ baseline' \in {baseline, None} \/ Points

\* It removes the runs that are pending.
Purges ==
  /\ Keys(runs') = Ended(Keys(runs)) /\ count'.runs = count.runs
  /\ Holds /\ UNCHANGED <<projection, baseline>>

\* It commits a run.
Commits(w, k) ==
  /\ work[w].pc = "persist"
  /\ k \in KeySet /\ k[1] = count.runs + 1 /\ count'.runs = k[1] /\ k[3] \in UsableStatuses
  /\ IsNext(k[2], Keys(work[w].view.runs))
  /\ \A l \in Keys(runs) : l[2] # k[2]
  /\ Keys(runs') = Ended(Keys(runs)) \cup {k}
  /\ projection' = {k[1]}
  /\ Holds /\ UNCHANGED baseline

\* It deletes the project.
Erases ==
  /\ runs' = {} /\ projection' = {} /\ baseline' = None /\ count'.runs = count.runs
  /\ \A w \in Workers : work'[w].pc = "idle"
  /\ \A r \in Requests : KeepsRead(r)

HistoryStep == Reads \/ Purges \/ (\E w \in Workers, k \in KeySet : Commits(w, k)) \/ Erases

-----------------------------------------------------------------------------
(***************************************************************************)
(* Each kind of step keeps the invariant.                                  *)
(***************************************************************************)
LEMMA KeyFacts ==
  ASSUME TypeOK
  PROVE  /\ Keys(runs) \subseteq KeySet /\ count.runs \in Nat
         /\ \A w \in Workers : Keys(work[w].view.runs) \subseteq KeySet
         /\ \A k \in KeySet : k[1] \in Nat /\ k[2] \in Nat /\ k[2] > 0 /\ k[3] \in RunStatuses
         /\ \A status \in UsableStatuses : status \notin Pending
<1>1. MaxRuns \in Nat
  BY HistoryConstants
<1>2. /\ runs \in SUBSET Run /\ \A w \in Workers : work[w].view.runs \in SUBSET Run
      /\ count.runs \in Nat
  BY DEF TypeOK, WorkType, Views, CountType
<1> QED BY <1>1, <1>2, KeysTyped DEF KeySet, RunIds, UsableStatuses, Pending

\* A view that is taken now has seen every number.
LEMMA NothingSkippedNow == ASSUME TypeOK, KeysOK PROVE NothingSkipped(Keys(runs), Keys(runs))
<1> SUFFICES ASSUME NEW n \in Nat, IsNext(n, Keys(runs)), NEW k \in Keys(runs), k[2] > n
             PROVE  FALSE
  BY DEF NothingSkipped
<1> USE KeyFacts
<1>1. k[3] \in Pending
  BY DEF IsNext, Ended
<1>2. k[2] = 1
  BY <1>1 DEF KeysOK
<1>3. n = 0
  BY <1>2
<1> QED BY <1>3 DEF IsNext, Ended

LEMMA ReadsKeep == ASSUME IInv, TypeOK', Reads PROVE KeyInv'
<1> USE DEF IInv, KeyInv, Reads, Same
<1>1. KeysOK'
  BY DEF KeysOK
<1>2. ViewsOK'
  <2> SUFFICES ASSUME NEW w \in Workers, work'[w].pc \in TransactionPcs
               PROVE  LET seen == Keys(work'[w].view.runs) IN
                        /\ \A s \in seen : SameRun(s, Keys(runs))
                        /\ \A s, t \in seen : s[1] = t[1] => s = t
                        /\ Ended(seen) \subseteq Keys(runs)
                        /\ NothingSkipped(seen, Keys(runs))
    BY DEF ViewsOK, SameRun, NothingSkipped
  <2>1. CASE KeepsView(w)
    BY <2>1 DEF KeepsView, ViewsOK
  <2>2. CASE TakesView(w)
    BY <2>2, NothingSkippedNow DEF TakesView, KeysOK, SameRun, Ended
  <2> QED BY <2>1, <2>2
<1>3. RequestsOK'
  <2> SUFFICES ASSUME NEW r \in Requests, request'[r].pc \in ReadPcs
               PROVE  /\ request'[r].run \in Run /\ request'[r].run.status \in UsableStatuses
                      /\ SameRun(Key(request'[r].run), Keys(runs))
    BY DEF RequestsOK, SameRun
  <2>1. CASE KeepsRead(r)
    BY <2>1 DEF KeepsRead, RequestsOK
  <2>2. CASE TakesRead(r)
    <3>1. request'[r].run \in runs /\ request'[r].run.status \in UsableStatuses
      BY <2>2 DEF TakesRead, Usable
    <3>2. Key(request'[r].run) \in Keys(runs) /\ request'[r].run \in Run
      BY <3>1 DEF Keys, TypeOK
    <3> QED BY <3>1, <3>2 DEF KeysOK, SameRun
  <2> QED BY <2>1, <2>2
<1>4. ProjectionOK'
  BY DEF ProjectionOK
<1>5. BaselineOK'
  <2>1. CASE baseline' \in {baseline, None}
    BY <2>1 DEF BaselineOK
  <2>2. CASE Points
    <3>1. PICK r \in Requests, run \in runs :
            request[r].pc = "point" /\ baseline' = request[r].run.id /\ run.id = baseline'
      BY <2>2 DEF Points
    <3>2. /\ request[r].run \in Run /\ request[r].run.status \in UsableStatuses
          /\ SameRun(Key(request[r].run), Keys(runs))
      BY <3>1 DEF RequestsOK, ReadPcs
    <3>3. Key(run) \in Keys(runs) /\ Key(run)[1] = run.id /\ Key(run)[3] = run.status
      BY KeyTypes DEF Keys, TypeOK
    <3>4. Key(request[r].run)[1] = baseline' /\ Key(request[r].run)[3] \in UsableStatuses
      BY <3>1, <3>2, KeyTypes
    <3>5. Key(run) = Key(request[r].run)
      BY <3>1, <3>2, <3>3, <3>4 DEF SameRun
    <3> QED BY <3>3, <3>4, <3>5 DEF BaselineOK
  <2> QED BY <2>1, <2>2
<1> QED BY <1>1, <1>2, <1>3, <1>4, <1>5

LEMMA PurgesKeep == ASSUME IInv, TypeOK', Purges PROVE KeyInv'
<1> USE KeyFacts DEF IInv, KeyInv, Purges
<1>0. /\ Ended(Keys(runs)) \subseteq Keys(runs) /\ Ended(Ended(Keys(runs))) = Ended(Keys(runs))
      /\ \A k \in Keys(runs) : k[3] \in UsableStatuses => k \in Ended(Keys(runs))
  BY DEF Ended
<1>1. KeysOK'
  BY <1>0 DEF KeysOK
<1>2. ViewsOK'
  <2> SUFFICES ASSUME NEW w \in Workers, work'[w].pc \in TransactionPcs
               PROVE  LET seen == Keys(work'[w].view.runs) IN
                        /\ \A s \in seen : SameRun(s, Keys(runs))'
                        /\ \A s, t \in seen : s[1] = t[1] => s = t
                        /\ Ended(seen) \subseteq Keys(runs')
                        /\ NothingSkipped(seen, Keys(runs'))
    BY DEF ViewsOK, SameRun
  <2>1. work[w].pc \in TransactionPcs /\ work'[w].view = work[w].view
    BY DEF Holds, KeepsView
  <2>2. /\ \A s \in Keys(work[w].view.runs) : SameRun(s, Keys(runs))
        /\ \A s, t \in Keys(work[w].view.runs) : s[1] = t[1] => s = t
        /\ Ended(Keys(work[w].view.runs)) \subseteq Ended(Keys(runs))
        /\ NothingSkipped(Keys(work[w].view.runs), Keys(runs))
    BY <2>1 DEF ViewsOK, Ended
  <2> QED BY <1>0, <2>1, <2>2 DEF SameRun, NothingSkipped
<1>3. RequestsOK'
  BY <1>0 DEF RequestsOK, Holds, KeepsRead, SameRun
<1>4. ProjectionOK'
  BY <1>0 DEF ProjectionOK
<1>5. BaselineOK'
  BY <1>0 DEF BaselineOK
<1> QED BY <1>1, <1>2, <1>3, <1>4, <1>5

\* A committed run gets a number above all others.
LEMMA CommitsOnTop ==
  ASSUME IInv, NEW w \in Workers, NEW k \in KeySet, Commits(w, k), NEW l \in Keys(runs)
  PROVE  l[2] < k[2]
<1>1. NothingSkipped(Keys(work[w].view.runs), Keys(runs))
  BY DEF IInv, KeyInv, ViewsOK, Commits, TransactionPcs
<1>2. ~(l[2] > k[2])
  BY <1>1, KeyFacts DEF IInv, Commits, NothingSkipped, Ended
<1> QED BY <1>2, KeyFacts DEF IInv, Commits

LEMMA CommitsKeep ==
  ASSUME IInv, TypeOK', NEW w \in Workers, NEW k \in KeySet, Commits(w, k)
  PROVE  KeyInv'
<1> USE KeyFacts DEF IInv, KeyInv
<1> DEFINE K == Keys(runs)
<1>0. /\ Ended(K) \subseteq K /\ Ended(Ended(K) \cup {k}) = Ended(K) \cup {k}
      /\ \A l \in K : l[3] \in UsableStatuses => l \in Ended(K)
      /\ Keys(runs') = Ended(K) \cup {k}
      /\ k[1] = count.runs + 1 /\ count'.runs = k[1] /\ k[3] \in UsableStatuses
  BY DEF Ended, Commits
<1>1. \A l \in K : l[2] < k[2] /\ l[1] < k[1]
  BY <1>0, CommitsOnTop DEF KeysOK
<1>2. KeysOK'
  <2>1. k[2] <= k[1]
    <3>1. k[2] = 1 \/ \E s \in Ended(Keys(work[w].view.runs)) : s[2] = k[2] - 1
      BY DEF Commits, IsNext
    <3>2. Ended(Keys(work[w].view.runs)) \subseteq K
      BY DEF Commits, ViewsOK, TransactionPcs
    <3>3. \A s \in K : s[2] <= count.runs
      BY DEF KeysOK
    <3> QED BY <1>0, <3>1, <3>2, <3>3
  <2> QED BY <1>0, <1>1, <2>1 DEF KeysOK
<1>3. ViewsOK'
  <2> SUFFICES ASSUME NEW v \in Workers, work'[v].pc \in TransactionPcs
               PROVE  LET seen == Keys(work'[v].view.runs) IN
                        /\ \A s \in seen : SameRun(s, Keys(runs))'
                        /\ \A s, t \in seen : s[1] = t[1] => s = t
                        /\ Ended(seen) \subseteq Keys(runs')
                        /\ NothingSkipped(seen, Keys(runs'))
    BY DEF ViewsOK, SameRun
  <2>1. work[v].pc \in TransactionPcs /\ work'[v].view = work[v].view
    BY DEF Commits, Holds, KeepsView
  <2> DEFINE seen == Keys(work[v].view.runs)
  <2>2. /\ \A s \in seen : SameRun(s, K)
        /\ \A s, t \in seen : s[1] = t[1] => s = t
        /\ Ended(seen) \subseteq Ended(K)
        /\ NothingSkipped(seen, K)
    BY <2>1 DEF ViewsOK, Ended
  <2>3. \A s \in seen : SameRun(s, Keys(runs))'
    BY <1>0, <2>1, <2>2 DEF SameRun
  <2>4. NothingSkipped(seen, Keys(runs'))
    <3> SUFFICES ASSUME NEW n \in Nat, IsNext(n, seen), NEW l \in Keys(runs'), l[2] > n
                 PROVE  \E m \in Ended(K) : m[2] = n
      BY <1>0 DEF NothingSkipped
    <3>1. CASE l \in K
      BY <2>2, <3>1 DEF NothingSkipped
    <3>2. CASE l = k
      <4>1. n > 0
        BY <2>2 DEF IsNext, Ended
      <4>2. PICK s \in Ended(Keys(work[w].view.runs)) : s[2] = k[2] - 1
        BY <3>2, <4>1 DEF Commits, IsNext
      <4>3. s \in Ended(K)
        BY DEF Commits, ViewsOK, TransactionPcs, Ended
      <4>4. s[2] = n \/ s[2] > n
        BY <1>0, <3>2, <4>2, <4>3
      <4> QED BY <1>0, <2>2, <4>3, <4>4 DEF NothingSkipped
    <3> QED BY <1>0, <3>1, <3>2
  <2> QED BY <1>0, <2>1, <2>2, <2>3, <2>4
<1>4. RequestsOK'
  <2> SUFFICES ASSUME NEW r \in Requests, request'[r].pc \in ReadPcs
               PROVE  /\ request'[r].run \in Run /\ request'[r].run.status \in UsableStatuses
                      /\ Key(request'[r].run)[1] <= count'.runs
                      /\ \A l \in Keys(runs') : l[1] = Key(request'[r].run)[1] =>
                                                 l = Key(request'[r].run)
    BY DEF RequestsOK, SameRun, Key
  <2>1. /\ request[r].run \in Run /\ request[r].run.status \in UsableStatuses
        /\ SameRun(Key(request[r].run), K) /\ request'[r].run = request[r].run
    BY DEF Commits, Holds, KeepsRead, RequestsOK
  <2>2. Key(request[r].run) \in KeySet
    BY <2>1, KeyTypes
  <2> QED BY <1>0, <2>1, <2>2 DEF SameRun
<1>5. ProjectionOK'
  <2>1. projection' = {k[1]} /\ k \in Keys(runs') /\ Ended(Keys(runs')) = Keys(runs')
    BY <1>0 DEF Commits
  <2>2. \A l \in Keys(runs') : l[2] <= k[2]
    BY <1>0, <1>1
  <2> QED BY <1>0, <2>1, <2>2 DEF ProjectionOK
<1>6. BaselineOK'
  BY <1>0 DEF Commits, BaselineOK
<1> QED BY <1>2, <1>3, <1>4, <1>5, <1>6

LEMMA ErasesKeep == ASSUME IInv, TypeOK', Erases PROVE KeyInv'
<1>1. Keys(runs') = {}
  BY DEF Erases, Keys
<1> QED BY <1>1 DEF Erases, IInv, KeyInv, KeysOK, ViewsOK, TransactionPcs, RequestsOK,
        KeepsRead, SameRun, ProjectionOK, BaselineOK

-----------------------------------------------------------------------------
(***************************************************************************)
(* The actions.                                                            *)
(***************************************************************************)
LEMMA IdleTypes ==
  /\ IdleWork \in WorkType /\ IdleWork.pc = "idle"
  /\ IdleRequest \in RequestType /\ IdleRequest.pc = "idle"
<1>1. NoView \in Views
  BY DEF NoView, Views, ProjectType
<1>2. IdleWork \in WorkType /\ IdleWork.pc = "idle"
  BY <1>1 DEF IdleWork, WorkType, WorkPcs
<1>3. IdleRequest \in RequestType /\ IdleRequest.pc = "idle"
  BY DEF IdleRequest, RequestType, RequestPcs
<1> QED BY <1>2, <1>3

LEMMA ViewType == ASSUME TypeOK PROVE View \in Views /\ View.runs = runs
  BY DEF View, Views, TypeOK

\* The steps of one worker that leave its view alone, or take it now.
LEMMA OneWorker ==
  ASSUME TypeOK, NEW w \in Workers, NEW x \in WorkType, work' = [work EXCEPT ![w] = x],
         UNCHANGED request,
         \/ x.pc \notin TransactionPcs
         \/ work[w].pc \in TransactionPcs /\ x.view = work[w].view
  PROVE  Holds /\ work' \in [Workers -> WorkType]
<1>1. work' \in [Workers -> WorkType]
  BY DEF TypeOK
<1>2. ASSUME NEW v \in Workers PROVE KeepsView(v)
  BY DEF TypeOK, KeepsView
<1> QED BY <1>1, <1>2 DEF Holds, KeepsRead

LEMMA OneView ==
  ASSUME TypeOK, NEW w \in Workers, NEW label \in WorkPcs,
         work' = [work EXCEPT ![w].pc = label, ![w].view = View],
         UNCHANGED <<project, files, runs, projection, baseline, request, count>>
  PROVE  TypeOK' /\ Reads
<1>1. work' \in [Workers -> WorkType]
  BY ViewType DEF TypeOK, WorkType
<1>2. ASSUME NEW v \in Workers PROVE KeepsView(v) \/ TakesView(v)
  <2>1. CASE v = w
    BY <2>1, ViewType DEF TypeOK, WorkType, TakesView
  <2>2. CASE v # w
    BY <2>2 DEF TypeOK, KeepsView
  <2> QED BY <2>1, <2>2
<1> QED BY <1>1, <1>2 DEF TypeOK, Reads, Same, KeepsRead

\* The backfill of a transaction keeps the keys.
LEMMA BackfillKeeps ==
  ASSUME IInv, NEW w \in Workers, work[w].pc \in TransactionPcs
  PROVE  /\ Backfilled(runs, work[w].view) \in SUBSET Run
         /\ Keys(Backfilled(runs, work[w].view)) = Keys(runs)
         /\ Backfilled(work[w].view.runs, work[w].view) \in SUBSET Run
         /\ Keys(Backfilled(work[w].view.runs, work[w].view)) = Keys(work[w].view.runs)
<1> DEFINE view == work[w].view
<1>1. /\ view.runs \in SUBSET Run /\ view.files \in Sources \cup {None}
      /\ view.projection \in SUBSET RunIds /\ runs \in SUBSET Run
  BY DEF IInv, TypeOK, WorkType, Views
<1>2. /\ \A s \in Keys(view.runs) : SameRun(s, Keys(runs))
      /\ \A s, t \in Keys(view.runs) : s[1] = t[1] => s = t
  BY DEF IInv, KeyInv, ViewsOK
<1>3. ASSUME NEW run \in runs, NEW seen \in view.runs, run.id = seen.id
      PROVE  Key(run) = Key(seen)
  <2>1. /\ Key(run) \in Keys(runs) /\ Key(seen) \in Keys(view.runs)
        /\ Key(run)[1] = run.id /\ Key(seen)[1] = seen.id
    BY <1>1, KeyTypes DEF Keys
  <2> QED BY <1>2, <1>3, <2>1 DEF SameRun
<1>4. ASSUME NEW run \in view.runs, NEW seen \in view.runs, run.id = seen.id
      PROVE  Key(run) = Key(seen)
  <2>1. /\ Key(run) \in Keys(view.runs) /\ Key(seen) \in Keys(view.runs)
        /\ Key(run)[1] = run.id /\ Key(seen)[1] = seen.id
    BY <1>1, KeyTypes DEF Keys
  <2> QED BY <1>2, <1>4, <2>1
<1> HIDE DEF view
<1>5. Backfilled(runs, view) \in SUBSET Run /\ Keys(Backfilled(runs, view)) = Keys(runs)
  BY <1>1, <1>3, BackfilledKeys
<1>6. /\ Backfilled(view.runs, view) \in SUBSET Run
      /\ Keys(Backfilled(view.runs, view)) = Keys(view.runs)
  BY <1>1, <1>4, BackfilledKeys
<1> QED BY <1>5, <1>6 DEF view

\* What the project and the counters become.
LEMMA ProjectTypes ==
  ASSUME TypeOK
  PROVE  /\ \A status \in {"importing", "ready", "analyzing", "completed", "failed"} :
              /\ [project EXCEPT !.status = status] \in ProjectType
              /\ \A fp \in Sources \cup {None} :
                   [project EXCEPT !.status = status, !.fp = fp] \in ProjectType
         /\ \A fp \in Sources \cup {None} : [project EXCEPT !.fp = fp] \in ProjectType
         /\ [project EXCEPT !.exists = FALSE] \in ProjectType
  BY DEF TypeOK, ProjectType

LEMMA CountTypes ==
  ASSUME TypeOK
  PROVE  /\ LET next == [count EXCEPT !.imports = @ + 1] IN
              next \in CountType /\ next.runs = count.runs
         /\ LET next == [count EXCEPT !.requests = @ + 1] IN
              next \in CountType /\ next.runs = count.runs
         /\ \A id \in Nat : LET next == [count EXCEPT !.runs = id] IN
              next \in CountType /\ next.runs = id
  BY DEF TypeOK, CountType

LEMMA ImportSteps ==
  ASSUME IInv, NEW w \in Workers,
         \/ \E source \in Sources : ImportStart(w, source)
         \/ ReplaceFilesBegin(w) \/ ReplaceFilesCommit(w) \/ ImportFails(w)
  PROVE  TypeOK' /\ Reads
<1> USE IdleTypes, ProjectTypes DEF IInv
<1>1. ASSUME NEW source \in Sources, ImportStart(w, source) PROVE TypeOK' /\ Reads
  <2> DEFINE x == [IdleWork EXCEPT !.pc = "extract", !.source = source]
  <2>1. x \in WorkType /\ x.pc \notin TransactionPcs
    BY DEF WorkType, WorkPcs, TransactionPcs
  <2>2. work' = [work EXCEPT ![w] = x] /\ UNCHANGED <<files, runs, projection, baseline, request>>
    BY <1>1 DEF ImportStart
  <2> HIDE DEF x
  <2>3. Holds /\ work' \in [Workers -> WorkType]
    BY <2>1, <2>2, OneWorker
  <2>4. project' \in ProjectType
    BY <1>1 DEF ImportStart, BecomesBusy
  <2>5. count' \in CountType /\ count'.runs = count.runs
    BY <1>1, CountTypes DEF ImportStart
  <2> QED BY <2>2, <2>3, <2>4, <2>5 DEF TypeOK, Reads, Same, Holds
<1>2. CASE ReplaceFilesBegin(w)
  BY <1>2, OneView DEF ReplaceFilesBegin, WorkPcs
<1>3. CASE ReplaceFilesCommit(w)
  <2>1. Holds /\ work' \in [Workers -> WorkType]
    BY <1>3, OneWorker DEF ReplaceFilesCommit, TransactionPcs
  <2>2. /\ runs' \in SUBSET Run /\ Keys(runs') = Keys(runs)
        /\ UNCHANGED <<baseline, request, count>> /\ projection' = {}
    BY <1>3, BackfillKeeps DEF ReplaceFilesCommit, TransactionPcs, ClearedProjection
  <2>3. work[w].source \in Sources \cup {None}
    BY DEF TypeOK, WorkType
  <2>4. project' \in ProjectType /\ files' \in Sources \cup {None}
    BY <1>3, <2>3 DEF ReplaceFilesCommit
  <2> QED BY <2>1, <2>2, <2>4 DEF TypeOK, Reads, Same, Holds
<1>4. CASE ImportFails(w)
  <2>1. Holds /\ work' \in [Workers -> WorkType]
    BY <1>4, OneWorker DEF ImportFails, TransactionPcs
  <2>2. project' \in ProjectType
    BY <1>4 DEF ImportFails, TypeOK
  <2> QED BY <1>4, <2>1, <2>2 DEF ImportFails, TypeOK, Reads, Same, Holds
<1> QED BY <1>1, <1>2, <1>3, <1>4

LEMMA AnalysisSteps ==
  ASSUME IInv, NEW w \in Workers,
         \/ AnalysisStart(w) \/ LoadFiles(w) \/ WriteSuccessBegin(w)
         \/ AnalysisError(w) \/ WriteFailedAnalysis(w) \/ Abandoned(w)
  PROVE  TypeOK' /\ (Reads \/ Purges)
<1> USE DEF IInv
<1>0. /\ Settled(runs) \in SUBSET Run /\ Keys(Settled(runs)) = Ended(Keys(runs))
      /\ work[w] \in WorkType
  BY SettledKeys DEF TypeOK
<1>1. CASE AnalysisStart(w)
  <2> DEFINE x == [IdleWork EXCEPT !.pc = "load"]
  <2>1. x \in WorkType /\ x.pc \notin TransactionPcs
    BY IdleTypes DEF WorkType, WorkPcs, TransactionPcs
  <2>2. /\ work' = [work EXCEPT ![w] = x] /\ runs' = Settled(runs)
        /\ UNCHANGED <<files, projection, baseline, request, count>>
    BY <1>1 DEF AnalysisStart, WithoutPending
  <2> HIDE DEF x
  <2>3. Holds /\ work' \in [Workers -> WorkType]
    BY <2>1, <2>2, OneWorker
  <2>4. project' \in ProjectType
    BY <1>1, ProjectTypes DEF AnalysisStart, BecomesBusy
  <2> QED BY <1>0, <2>2, <2>3, <2>4 DEF TypeOK, Purges
<1>2. CASE LoadFiles(w)
  <2> DEFINE x == [work[w] EXCEPT !.pc = IF files = None THEN "error" ELSE "analyze",
                                  !.source = files]
  <2>1. x \in WorkType /\ x.pc \notin TransactionPcs
    BY <1>0 DEF TypeOK, WorkType, WorkPcs, TransactionPcs
  <2>2. /\ work' = [work EXCEPT ![w] = x]
        /\ UNCHANGED <<project, files, runs, projection, baseline, request, count>>
    BY <1>2 DEF LoadFiles, TypeOK
  <2> HIDE DEF x
  <2>3. Holds /\ work' \in [Workers -> WorkType]
    BY <2>1, <2>2, OneWorker
  <2> QED BY <2>2, <2>3 DEF TypeOK, Reads, Same, Holds
<1>3. CASE WriteSuccessBegin(w)
  BY <1>3, OneView DEF WriteSuccessBegin, WorkPcs
<1>4. CASE AnalysisError(w)
  <2> DEFINE x == [work[w] EXCEPT !.pc = "error"]
  <2>1. x \in WorkType /\ x.pc \notin TransactionPcs
    BY <1>0 DEF WorkType, WorkPcs, TransactionPcs
  <2>2. /\ work' = [work EXCEPT ![w] = x]
        /\ UNCHANGED <<project, files, runs, projection, baseline, request, count>>
    BY <1>4 DEF AnalysisError, TypeOK
  <2> HIDE DEF x
  <2>3. Holds /\ work' \in [Workers -> WorkType]
    BY <2>1, <2>2, OneWorker
  <2> QED BY <2>2, <2>3 DEF TypeOK, Reads, Same, Holds
<1>5. CASE WriteFailedAnalysis(w)
  <2>1. /\ work' = [work EXCEPT ![w] = IdleWork] /\ runs' = Settled(runs)
        /\ UNCHANGED <<files, projection, baseline, request, count>>
    BY <1>5 DEF WriteFailedAnalysis, WithoutPending
  <2>2. Holds /\ work' \in [Workers -> WorkType]
    BY <2>1, IdleTypes, OneWorker DEF TransactionPcs
  <2>3. project' \in ProjectType
    BY <1>5, ProjectTypes DEF WriteFailedAnalysis, TypeOK
  <2> QED BY <1>0, <2>1, <2>2, <2>3 DEF TypeOK, Purges
<1>6. CASE Abandoned(w)
  <2>1. /\ work' = [work EXCEPT ![w] = IdleWork]
        /\ UNCHANGED <<project, files, runs, projection, baseline, request, count>>
    BY <1>6 DEF Abandoned
  <2>2. Holds /\ work' \in [Workers -> WorkType]
    BY <2>1, IdleTypes, OneWorker DEF TransactionPcs
  <2> QED BY <2>1, <2>2 DEF TypeOK, Reads, Same, Holds
<1> QED BY <1>1, <1>2, <1>3, <1>4, <1>5, <1>6

\* The commit of an analysis: the number is the next of what was seen.
LEMMA CommitSteps ==
  ASSUME IInv, NEW w \in Workers, NEW status \in {"completed", "partial"},
         WriteSuccessCommit(w, status)
  PROVE  TypeOK' /\ \E k \in KeySet : Commits(w, k)
<1> DEFINE view   == work[w].view
           rows   == Settled(Backfilled(view.runs, view))
           number == AllocateNextRunNumber(rows)
           id     == count.runs + 1
           new    == [id |-> id, number |-> number, status |-> status, legacy |-> FALSE,
                      fp |-> work[w].source,
                      snapshot |-> [manifest |-> work[w].source, rows |-> {id}]]
           k      == <<id, number, status>>
<1>1. /\ work[w].pc = "persist" /\ id \in RunIds /\ ~RunNumberTaken(number)
      /\ runs' = Settled(Backfilled(runs, view)) \cup {new}
      /\ projection' = {id} /\ count' = [count EXCEPT !.runs = id]
      /\ project' = [project EXCEPT !.status = "completed", !.fp = work[w].source]
      /\ work' = [work EXCEPT ![w] = IdleWork]
      /\ UNCHANGED <<files, baseline, request>>
  BY DEF WriteSuccessCommit, WithoutPending, ClearedProjection
<1>2. /\ Backfilled(runs, view) \in SUBSET Run /\ Keys(Backfilled(runs, view)) = Keys(runs)
      /\ Backfilled(view.runs, view) \in SUBSET Run
      /\ Keys(Backfilled(view.runs, view)) = Keys(view.runs)
  BY <1>1, BackfillKeeps DEF TransactionPcs
<1>3. /\ rows \in SUBSET Run /\ Keys(rows) = Ended(Keys(view.runs))
      /\ Settled(Backfilled(runs, view)) \in SUBSET Run
      /\ Keys(Settled(Backfilled(runs, view))) = Ended(Keys(runs))
  BY <1>2, SettledKeys
<1> HIDE DEF rows
<1>4. number \in Nat /\ IsNext(number, Ended(Keys(view.runs)))
  <2>1. Keys(rows) = Ended(Keys(rows))
    BY <1>3 DEF Ended
  <2> QED BY <1>3, <2>1, NextNumber
<1>5. IsNext(number, Keys(view.runs)) /\ number <= id /\ number > 0
  <2>1. Ended(Ended(Keys(view.runs))) = Ended(Keys(view.runs))
    BY DEF Ended
  <2>2. IsNext(number, Keys(view.runs))
    BY <1>4, <2>1 DEF IsNext
  <2>3. \A s \in Ended(Keys(view.runs)) : s[2] \in Nat /\ s[2] > 0 /\ s[2] <= count.runs
    BY <1>1, KeyFacts DEF IInv, KeyInv, ViewsOK, TransactionPcs, KeysOK, Ended
  <2>4. count.runs \in Nat
    BY KeyFacts DEF IInv
  <2> HIDE DEF number
  <2> QED BY <1>4, <2>2, <2>3, <2>4 DEF IsNext
<1> HIDE DEF number
<1>6. number \in RunIds /\ count.runs \in Nat /\ status \in UsableStatuses \cap RunStatuses
  BY <1>1, <1>4, <1>5, KeyFacts, HistoryConstants DEF IInv, RunIds, UsableStatuses, RunStatuses
<1>7. work[w].source \in Sources \cup {None}
  BY DEF IInv, TypeOK, WorkType
<1>8. new \in Run /\ Key(new) = k /\ k \in KeySet
  <2>1. [manifest |-> work[w].source, rows |-> {id}] \in Snapshot
    BY <1>1, <1>7 DEF Snapshot
  <2> QED BY <1>1, <1>6, <1>7, <2>1 DEF Run, Key, KeySet
<1> HIDE DEF new
<1>9. runs' \in SUBSET Run /\ Keys(runs') = Ended(Keys(runs)) \cup {k}
  BY <1>1, <1>3, <1>8 DEF Keys
<1>10. Holds /\ work' \in [Workers -> WorkType]
  BY <1>1, IdleTypes, OneWorker DEF IInv, TransactionPcs
<1>11. project' \in ProjectType
  BY <1>1, <1>7, ProjectTypes DEF IInv
<1>12. count' \in CountType /\ count'.runs = id
  BY <1>1, <1>6, CountTypes DEF IInv
<1>13. TypeOK'
  BY <1>1, <1>9, <1>10, <1>11, <1>12 DEF IInv, TypeOK
<1>14. \A l \in Keys(runs) : l[2] # number
  <2>1. \A run \in runs : run.number # number /\ Key(run)[2] = run.number
    BY <1>1, KeyTypes DEF RunNumberTaken, IInv, TypeOK
  <2> QED BY <2>1 DEF Keys
<1>15. k[1] = id /\ k[2] = number /\ k[3] = status
  OBVIOUS
<1>16. Commits(w, k)
  <2> HIDE DEF k, id
  <2>1. id = count.runs + 1
    BY DEF id
  <2> QED BY <1>1, <1>5, <1>6, <1>8, <1>9, <1>10, <1>12, <1>14, <1>15, <2>1 DEF Commits
<1> QED BY <1>8, <1>13, <1>16

\* The steps of one request that keep the run it holds, or take one now.
LEMMA OneRequest ==
  ASSUME TypeOK, NEW r \in Requests, NEW x \in RequestType,
         request' = [request EXCEPT ![r] = x], UNCHANGED <<work, files, projection>>,
         project' \in ProjectType, count' \in CountType, count'.runs = count.runs,
         runs' \in SUBSET Run, Keys(runs') = Keys(runs), baseline' = baseline \/ Points,
         \/ x.pc \notin ReadPcs
         \/ request[r].pc \in ReadPcs /\ x.run = request[r].run
         \/ x.run \in Usable(runs)
  PROVE  TypeOK' /\ Reads
<1>1. request' \in [Requests -> RequestType]
  BY DEF TypeOK
<1>2. ASSUME NEW q \in Requests PROVE KeepsRead(q) \/ TakesRead(q)
  <2>1. CASE q = r
    BY <2>1 DEF TypeOK, KeepsRead, TakesRead
  <2>2. CASE q # r
    BY <2>2 DEF TypeOK, KeepsRead
  <2> QED BY <2>1, <2>2
<1> QED BY <1>1, <1>2 DEF TypeOK, Reads, Same, KeepsView

\* The fields of a request as its steps set them.
LEMMA RequestTypes ==
  ASSUME TypeOK, NEW r \in Requests
  PROVE  /\ request[r] \in RequestType /\ project \in ProjectType /\ count \in CountType
         /\ runs \in SUBSET Run /\ files \in Sources \cup {None}
         /\ projection \in SUBSET RunIds
  BY DEF TypeOK

LEMMA HistorySteps ==
  ASSUME IInv, NEW r \in Requests,
         \/ HistoryRequest(r) \/ StatusRequest(r) \/ (\E run \in runs : CheckBaseline(r, run))
  PROVE  TypeOK' /\ Reads
<1> USE RequestTypes DEF IInv
<1>1. CASE HistoryRequest(r)
  <2> DEFINE run == CHOOSE run \in MissingSnapshot(runs) : TRUE
             asked == [IdleRequest EXCEPT !.pc = "project"]
             held  == [IdleRequest EXCEPT !.pc = "tables", !.todo = {"files", "rows"}, !.run = run]
             x     == IF MissingSnapshot(runs) = {} THEN asked ELSE held
  <2>1. asked \in RequestType /\ asked.pc \notin ReadPcs
    BY IdleTypes DEF RequestType, RequestPcs, ReadPcs
  <2>2. MissingSnapshot(runs) # {} => run \in Usable(runs) /\ run \in Run
    BY DEF MissingSnapshot, Usable
  <2> HIDE DEF run
  <2>3. MissingSnapshot(runs) # {} => held \in RequestType /\ held.run \in Usable(runs)
    BY <2>2, IdleTypes DEF RequestType, RequestPcs
  <2>4. /\ request' = [request EXCEPT ![r] = x]
        /\ count' = [count EXCEPT !.requests = @ + 1]
        /\ UNCHANGED <<project, files, runs, projection, baseline, work>>
    BY <1>1 DEF HistoryRequest, Requested, run
  <2> HIDE DEF asked, held
  <2>5. x \in RequestType /\ (x.pc \notin ReadPcs \/ x.run \in Usable(runs))
    BY <2>1, <2>3
  <2> HIDE DEF x
  <2>6. count' \in CountType /\ count'.runs = count.runs
    BY <2>4, CountTypes
  <2> QED BY <2>4, <2>5, <2>6, OneRequest
<1>2. CASE StatusRequest(r)
  <2> DEFINE x == [request[r] EXCEPT !.pc = "project"]
  <2>1. x \in RequestType /\ x.pc \notin ReadPcs
    BY DEF RequestType, RequestPcs, ReadPcs
  <2>2. /\ request' = [request EXCEPT ![r] = x]
        /\ count' = [count EXCEPT !.requests = @ + 1]
        /\ UNCHANGED <<project, files, runs, projection, baseline, work>>
    BY <1>2 DEF StatusRequest, Requested, TypeOK
  <2> HIDE DEF x
  <2>3. count' \in CountType /\ count'.runs = count.runs
    BY <2>2, CountTypes
  <2> QED BY <2>1, <2>2, <2>3, OneRequest
<1>3. ASSUME NEW run \in runs, CheckBaseline(r, run) PROVE TypeOK' /\ Reads
  <2> DEFINE x == [request[r] EXCEPT !.pc = "pointer", !.run = run]
  <2>0. run \in Usable(runs) /\ run \in Run
    BY <1>3 DEF CheckBaseline, MayBeBaseline, Usable
  <2>1. x \in RequestType /\ x.run \in Usable(runs)
    <3>1. x.run = run
      BY DEF RequestType
    <3>2. x \in RequestType
      BY <2>0 DEF RequestType, RequestPcs
    <3> QED BY <2>0, <3>1, <3>2
  <2>2. /\ request' = [request EXCEPT ![r] = x]
        /\ count' = [count EXCEPT !.requests = @ + 1]
        /\ UNCHANGED <<project, files, runs, projection, baseline, work>>
    BY <1>3 DEF CheckBaseline, Requested, TypeOK
  <2> HIDE DEF x
  <2>3. count' \in CountType /\ count'.runs = count.runs
    BY <2>2, CountTypes
  <2> QED BY <2>1, <2>2, <2>3, OneRequest
<1> QED BY <1>1, <1>2, <1>3

LEMMA ReadSteps ==
  ASSUME IInv, NEW r \in Requests,
         \/ \E table \in {"files", "rows"} : ReadTable(r, table)
         \/ ReadProject(r) \/ ReadFiles(r) \/ WriteFingerprint(r) \/ ReadBaseline(r)
  PROVE  TypeOK' /\ Reads
<1> USE RequestTypes DEF IInv
<1>0. IdleRequest \in RequestType /\ IdleRequest.pc \notin ReadPcs
  BY IdleTypes DEF ReadPcs
<1>1. ASSUME NEW table \in {"files", "rows"}, ReadTable(r, table) PROVE TypeOK' /\ Reads
  <2> DEFINE x == [request[r] EXCEPT
                     !.todo = @ \ {table},
                     !.manifest = IF table = "files" THEN files ELSE @,
                     !.rows = IF table = "rows" THEN projection ELSE @]
  <2>1. x \in RequestType /\ request[r].pc \in ReadPcs /\ x.run = request[r].run
    BY <1>1 DEF RequestType, ReadTable, ReadPcs
  <2>2. /\ request' = [request EXCEPT ![r] = x]
        /\ UNCHANGED <<project, files, runs, projection, baseline, work, count>>
    BY <1>1 DEF ReadTable, TypeOK
  <2> HIDE DEF x
  <2> QED BY <2>1, <2>2, OneRequest
<1>2. CASE ReadProject(r)
  <2> DEFINE x == IF project.exists /\ project.fp = None
                    THEN [request[r] EXCEPT !.pc = "files"] ELSE IdleRequest
  <2>1. x \in RequestType /\ x.pc \notin ReadPcs
    BY <1>0 DEF RequestType, RequestPcs, ReadPcs
  <2>2. /\ request' = [request EXCEPT ![r] = x]
        /\ UNCHANGED <<project, files, runs, projection, baseline, work, count>>
    BY <1>2 DEF ReadProject, Answered, TypeOK
  <2> HIDE DEF x
  <2> QED BY <2>1, <2>2, OneRequest
<1>3. CASE ReadFiles(r)
  <2> DEFINE x == IF files = None THEN IdleRequest
                    ELSE [request[r] EXCEPT !.pc = "fingerprint", !.manifest = files]
  <2>1. x \in RequestType /\ x.pc \notin ReadPcs
    BY <1>0 DEF RequestType, RequestPcs, ReadPcs
  <2>2. /\ request' = [request EXCEPT ![r] = x]
        /\ UNCHANGED <<project, files, runs, projection, baseline, work, count>>
    BY <1>3 DEF ReadFiles, Answered, TypeOK
  <2> HIDE DEF x
  <2> QED BY <2>1, <2>2, OneRequest
<1>4. CASE WriteFingerprint(r)
  <2>1. request[r].manifest \in Sources \cup {None}
    BY DEF RequestType
  <2>2. project' \in ProjectType
    BY <1>4, <2>1, ProjectTypes DEF WriteFingerprint
  <2>3. /\ request' = [request EXCEPT ![r] = IdleRequest]
        /\ UNCHANGED <<files, runs, projection, baseline, work, count>>
    BY <1>4 DEF WriteFingerprint, Answered
  <2> QED BY <1>0, <2>2, <2>3, OneRequest
<1>5. CASE ReadBaseline(r)
  <2> DEFINE x == [request[r] EXCEPT !.pc = "point", !.found = baseline # None]
  <2>1. x \in RequestType /\ request[r].pc \in ReadPcs /\ x.run = request[r].run
    <3>1. x \in RequestType
      BY DEF RequestType, RequestPcs
    <3>2. request[r].pc \in ReadPcs
      BY <1>5 DEF ReadBaseline, ReadPcs
    <3>3. x.run = request[r].run
      BY DEF RequestType
    <3> QED BY <3>1, <3>2, <3>3
  <2>2. /\ request' = [request EXCEPT ![r] = x]
        /\ UNCHANGED <<project, files, runs, projection, baseline, work, count>>
    BY <1>5 DEF ReadBaseline, TypeOK
  <2> HIDE DEF x
  <2> QED BY <2>1, <2>2, OneRequest
<1> QED BY <1>1, <1>2, <1>3, <1>4, <1>5

\* The two that write runs or the baseline.  A snapshot is written into a row
\* that was read in another statement: the row has kept its key.
LEMMA WriteSteps ==
  ASSUME IInv, NEW r \in Requests, MaterializeSnapshot(r) \/ WriteBaseline(r)
  PROVE  TypeOK' /\ Reads
<1> USE RequestTypes DEF IInv
<1>1. CASE MaterializeSnapshot(r)
  <2> DEFINE done == Completed(request[r].run, request[r].manifest, request[r].rows)
             x    == [IdleRequest EXCEPT !.pc = "project"]
  <2>1. x \in RequestType /\ x.pc \notin ReadPcs
    BY IdleTypes DEF RequestType, RequestPcs, ReadPcs
  <2>2. /\ request[r].run \in Run /\ SameRun(Key(request[r].run), Keys(runs))
        /\ request[r].manifest \in Sources \cup {None} /\ request[r].rows \in SUBSET RunIds
    BY <1>1 DEF MaterializeSnapshot, RequestType, KeyInv, RequestsOK, ReadPcs
  <2>3. done \in Run /\ Key(done) = Key(request[r].run)
    BY <2>2, CompletedKey
  <2> HIDE DEF done
  <2> DEFINE later(run) == IF run.id = request[r].run.id THEN done ELSE run
  <2>4. ASSUME NEW run \in runs PROVE later(run) \in Run /\ Key(later(run)) = Key(run)
    <3>1. run.id = request[r].run.id => Key(run) = Key(request[r].run)
      <4>1. Key(run) \in Keys(runs) /\ Key(run)[1] = run.id
        BY KeyTypes DEF Keys
      <4> QED BY <2>2, <4>1, KeyTypes DEF SameRun
    <3> QED BY <2>3, <3>1
  <2>5. /\ runs' = {later(run) : run \in runs} /\ request' = [request EXCEPT ![r] = x]
        /\ UNCHANGED <<project, files, projection, baseline, work, count>>
    BY <1>1 DEF MaterializeSnapshot, done
  <2> HIDE DEF later, x
  <2>6. runs' \in SUBSET Run /\ Keys(runs') = Keys(runs)
    BY <2>4, <2>5 DEF Keys
  <2> QED BY <2>1, <2>5, <2>6, OneRequest
<1>2. CASE WriteBaseline(r)
  <2>1. IdleRequest \in RequestType /\ IdleRequest.pc \notin ReadPcs
    BY IdleTypes DEF ReadPcs
  <2>2. baseline' = baseline \/ Points
    BY <1>2 DEF WriteBaseline, Points
  <2>3. /\ request' = [request EXCEPT ![r] = IdleRequest]
        /\ UNCHANGED <<project, files, runs, projection, work, count>>
    BY <1>2 DEF WriteBaseline, Answered
  <2> QED BY <2>1, <2>2, <2>3, OneRequest
<1> QED BY <1>1, <1>2

LEMMA DeleteErases == ASSUME IInv, DeleteProject PROVE TypeOK' /\ Erases
<1>1. project' \in ProjectType
  BY ProjectTypes DEF DeleteProject, IInv
<1> QED BY <1>1 DEF DeleteProject, IInv, TypeOK, Erases, KeepsRead

LEMMA NextStep == ASSUME IInv, [Next]_vars PROVE TypeOK' /\ HistoryStep
<1>1. ASSUME NEW w \in Workers, WorkerStep(w) PROVE TypeOK' /\ HistoryStep
  BY <1>1, ImportSteps, AnalysisSteps, CommitSteps DEF WorkerStep, HistoryStep
<1>2. ASSUME NEW r \in Requests, RequestStep(r) PROVE TypeOK' /\ HistoryStep
  BY <1>2, HistorySteps, ReadSteps, WriteSteps DEF RequestStep, HistoryStep
<1>3. CASE DeleteProject
  BY <1>3, DeleteErases DEF HistoryStep
<1>4. CASE ClearBaseline
  <2>1. /\ UNCHANGED <<project, files, runs, projection, work, request>> /\ baseline' = None
        /\ count' \in CountType /\ count'.runs = count.runs
    BY <1>4, CountTypes DEF ClearBaseline, Requested, IInv
  <2> QED BY <2>1 DEF IInv, TypeOK, HistoryStep, Reads, Same, KeepsView, KeepsRead
<1>5. CASE UNCHANGED vars
  BY <1>5 DEF vars, IInv, TypeOK, HistoryStep, Reads, Same, KeepsView, KeepsRead
<1> QED BY <1>1, <1>2, <1>3, <1>4, <1>5 DEF Next

LEMMA InitOK == ASSUME Init PROVE IInv
<1>1. /\ work \in [Workers -> WorkType] /\ \A w \in Workers : work[w].pc = "idle"
      /\ request \in [Requests -> RequestType] /\ \A r \in Requests : request[r].pc = "idle"
      /\ baseline = None
  BY IdleTypes DEF Init
<1>2. ViewsOK /\ RequestsOK /\ BaselineOK
  BY <1>1 DEF ViewsOK, TransactionPcs, RequestsOK, ReadPcs, BaselineOK
<1>3. CASE runs = {}
  <2>1. /\ project = [exists |-> TRUE, status |-> "draft", fp |-> None]
        /\ files = None /\ projection = {}
        /\ count = [imports |-> 0, requests |-> 0, runs |-> 0]
    BY <1>3 DEF Init
  <2>2. Keys(runs) = {} /\ project \in ProjectType /\ count \in CountType
    BY <1>3, <2>1 DEF Keys, ProjectType, CountType
  <2> QED BY <1>1, <1>2, <1>3, <2>1, <2>2 DEF IInv, TypeOK, KeyInv, KeysOK, ProjectionOK
<1>4. CASE runs # {}
  <2>1. PICK status \in UpgradeFrom, source \in Sources :
          /\ project = [exists |-> TRUE, fp |-> None,
                        status |-> IF status = "completed" THEN status ELSE "failed"]
          /\ files = source
          /\ runs = {[id |-> 1, number |-> 1, status |-> status, fp |-> None,
                      snapshot |-> None, legacy |-> TRUE]}
          /\ projection = IF status = "completed" THEN {1} ELSE {}
          /\ count = [imports |-> 0, requests |-> 0, runs |-> 1]
    BY <1>4 DEF Init
  <2> DEFINE first == [id |-> 1, number |-> 1, status |-> status, fp |-> None,
                       snapshot |-> None, legacy |-> TRUE]
             k     == <<1, 1, status>>
  <2>2. 1 \in RunIds /\ status \in {"completed", "failed", "processing"}
    BY HistoryConstants DEF RunIds
  <2>3. first \in Run /\ Key(first) = k
    BY <2>2 DEF Run, RunStatuses, UsableStatuses, Key
  <2>4. runs = {first}
    BY <2>1
  <2> HIDE DEF first
  <2>5. runs \in SUBSET Run /\ Keys(runs) = {k}
    BY <2>3, <2>4 DEF Keys
  <2>6. project \in ProjectType /\ count \in CountType /\ count.runs = 1
    BY <2>1 DEF ProjectType, CountType
  <2>7. TypeOK
    BY <1>1, <2>1, <2>2, <2>5, <2>6 DEF TypeOK
  <2>8. KeysOK
    BY <2>5, <2>6 DEF KeysOK
  <2>9. ProjectionOK
    <3>1. k[1] = 1 /\ k[2] = 1 /\ k[3] = status
      OBVIOUS
    <3>2. CASE status = "completed"
      <4>1. projection = {1} /\ Keys(runs) = {k} /\ Ended(Keys(runs)) \subseteq {k}
        BY <2>1, <2>5, <3>2 DEF Ended
      <4>2. k[3] \in UsableStatuses
        BY <3>1, <3>2 DEF UsableStatuses
      <4> HIDE DEF k
      <4> QED BY <3>1, <4>1, <4>2 DEF ProjectionOK
    <3>3. CASE status # "completed"
      BY <2>1, <3>3 DEF ProjectionOK
    <3> QED BY <3>2, <3>3
  <2> QED BY <1>2, <2>7, <2>8, <2>9 DEF IInv, KeyInv
<1> QED BY <1>3, <1>4

LEMMA StepKeeps == ASSUME IInv, [Next]_vars PROVE IInv'
  BY NextStep, ReadsKeep, PurgesKeep, CommitsKeep, ErasesKeep DEF HistoryStep, IInv

LEMMA Invariance == Spec => []IInv
<1>1. Init => IInv
  BY InitOK
<1>2. IInv /\ [Next]_vars => IInv'
  BY StepKeeps
<1> QED BY <1>1, <1>2, PTL DEF Spec

-----------------------------------------------------------------------------
(***************************************************************************)
(* The theorems.                                                           *)
(***************************************************************************)
\* writeSuccessfulAnalysis and replaceImportedFiles clear the six tables in
\* their transaction: the rows in them are of the newest usable run.
THEOREM ProjectionShowsNewestRun == Spec => []ProjectionIsNewestRun
<1>1. IInv => ProjectionIsNewestRun
  <2> SUFFICES ASSUME IInv, NEW id \in projection PROVE
        \E run \in runs : run.id = id /\ \A other \in Usable(runs) : other.number <= run.number
    BY DEF ProjectionIsNewestRun
  <2>1. PICK k \in Keys(runs) : k[1] = id /\ \A l \in Ended(Keys(runs)) : l[2] <= k[2]
    BY DEF IInv, KeyInv, ProjectionOK
  <2>2. PICK run \in runs : k = Key(run) /\ run.id = id /\ run.number = k[2]
    BY <2>1, KeyTypes DEF Keys, IInv, TypeOK
  <2>3. ASSUME NEW other \in Usable(runs) PROVE other.number <= run.number
    <3>1. Key(other) \in Ended(Keys(runs)) /\ Key(other)[2] = other.number
      BY KeyTypes DEF Usable, UsableStatuses, Keys, Ended, Pending, IInv, TypeOK
    <3> QED BY <2>1, <2>2, <3>1
  <2> QED BY <2>2, <2>3
<1> QED BY <1>1, Invariance, PTL

\* setAnalysisBaseline checks the run and writes the pointer in statements of
\* their own; what is named is a usable run that is still there.
THEOREM BaselineStaysUsable == Spec => []BaselineIsUsable
<1>1. IInv => BaselineIsUsable
  <2> SUFFICES ASSUME IInv, baseline # None PROVE \E run \in Usable(runs) : run.id = baseline
    BY DEF BaselineIsUsable
  <2>1. PICK k \in Keys(runs) : k[1] = baseline /\ k[3] \in UsableStatuses
    BY DEF IInv, KeyInv, BaselineOK
  <2>2. PICK run \in runs : k = Key(run) /\ run.id = baseline /\ run.status = k[3]
    BY <2>1, KeyTypes DEF Keys, IInv, TypeOK
  <2> QED BY <2>1, <2>2 DEF Usable
<1> QED BY <1>1, Invariance, PTL

\* allocateNextRunNumber takes the number from an old view, and only the unique
\* index refuses it: still, a committed run is numbered above all others.
THEOREM CommitsAreNumberedInOrder == Spec => RunNumbersFollowCommits
<1>1. ASSUME IInv, [Next]_vars, NEW run \in runs', NEW older \in runs,
             \A before \in runs : before.id # run.id
      PROVE  older.number < run.number
  <2>1. runs' \in SUBSET Run /\ runs \in SUBSET Run /\ HistoryStep
    BY <1>1, NextStep DEF IInv, TypeOK
  <2>2. /\ Key(run) \in Keys(runs') /\ Key(run)[1] = run.id /\ Key(run)[2] = run.number
        /\ Key(older) \in Keys(runs) /\ Key(older)[2] = older.number
    BY <2>1, KeyTypes DEF Keys
  <2>3. \A l \in Keys(runs) : l[1] # run.id
    BY <1>1, <2>1, KeyTypes DEF Keys
  <2>4. ~Reads /\ ~Purges /\ ~Erases
    BY <2>2, <2>3 DEF Reads, Same, Purges, Erases, Ended
  <2>5. PICK w \in Workers, k \in KeySet : Commits(w, k)
    BY <2>1, <2>4 DEF HistoryStep
  <2>6. Key(run) = k
    BY <2>2, <2>3, <2>5 DEF Commits, Ended
  <2> QED BY <1>1, <2>2, <2>5, <2>6, CommitsOnTop
<1>2. IInv /\ [Next]_vars =>
        [\A run \in runs', older \in runs :
           (\A before \in runs : before.id # run.id) => older.number < run.number]_vars
  BY <1>1
<1> QED BY <1>2, Invariance, PTL DEF Spec, RunNumbersFollowCommits

-----------------------------------------------------------------------------
(***************************************************************************)
(* The history is a log (RunLog).                                          *)
(*                                                                         *)
(* A log entry is a whole row, so keys are not enough here: the invariant  *)
(* says why a backfill, which writes rows read long before, never touches  *)
(* a run of this version.  It has a snapshot from its commit on, and a row *)
(* that is held because it has none is a row of the older version.         *)
(***************************************************************************)
\* A row is known by its id, and by its number.
OneRow(rows) == \A a, b \in rows : a.id = b.id => a = b
OneNumber(keys) == \A k, l \in keys : k[2] = l[2] => k = l

\* What was committed by this version is usable, and has its snapshot.
Complete(rows) == \A run \in rows :
  ~run.legacy => run.snapshot # None /\ run.status \in UsableStatuses

\* Rows that are the same run are of the same version.
SameVersion(rows, others) == \A a \in rows, b \in others : a.id = b.id => a.legacy = b.legacy

RowsOK == OneRow(runs) /\ OneNumber(Keys(runs)) /\ Complete(runs)

SeenRowsOK == \A w \in Workers : work[w].pc \in TransactionPcs =>
  LET seen == work[w].view.runs IN OneRow(seen) /\ Complete(seen) /\ SameVersion(seen, runs)

HeldRowsOK == \A r \in Requests : request[r].pc = "tables" =>
  request[r].run.legacy /\ SameVersion({request[r].run}, runs)

ErasedOK == ~project.exists => runs = {} /\ baseline = None

LogInv == RowsOK /\ SeenRowsOK /\ HeldRowsOK /\ ErasedOK
-----------------------------------------------------------------------------
(***************************************************************************)
(* Tables of runs that follow others: rows of the older version may change *)
(* what they hold, or go; the others stay as they are.                     *)
(***************************************************************************)
Follows(rows, later) ==
  /\ OneRow(later)
  /\ \A run \in rows : ~run.legacy => run \in later
  /\ \A next \in later : \E run \in rows :
       next.id = run.id /\ next.legacy = run.legacy /\ (~run.legacy => next = run)

LEMMA FollowsSelf == ASSUME NEW rows, OneRow(rows) PROVE Follows(rows, rows)
  BY DEF Follows

LEMMA FollowsTwice ==
  ASSUME NEW rows, NEW middle, NEW later, Follows(rows, middle), Follows(middle, later)
  PROVE  Follows(rows, later)
  BY DEF Follows

LEMMA SettledFollows ==
  ASSUME NEW rows, OneRow(rows), Complete(rows)
  PROVE  Follows(rows, Settled(rows))
  BY DEF Follows, Settled, OneRow, Complete, UsableStatuses

\* A backfill finds no row of this version to complete.
LEMMA BackfillFollows ==
  ASSUME NEW rows \in SUBSET Run, OneRow(rows),
         NEW view, view.runs \in SUBSET Run, OneRow(view.runs), Complete(view.runs),
         SameVersion(view.runs, rows)
  PROVE  Follows(rows, Backfilled(rows, view))
<1> DEFINE held(run) == CHOOSE seen \in view.runs : seen.id = run.id
           fill(run) == IF \E seen \in MissingSnapshot(view.runs) : seen.id = run.id
                          THEN Completed(held(run), view.files, view.projection) ELSE run
<1>1. ASSUME NEW run \in rows
      PROVE  /\ fill(run).id = run.id /\ fill(run).legacy = run.legacy
             /\ ~run.legacy => fill(run) = run
  <2>1. CASE \E seen \in MissingSnapshot(view.runs) : seen.id = run.id
    <3>1. PICK seen \in MissingSnapshot(view.runs) : seen.id = run.id
      BY <2>1
    <3>2. seen \in view.runs /\ seen.snapshot = None
      BY <3>1 DEF MissingSnapshot, Usable
    <3>3. held(run) = seen
      BY <3>1, <3>2 DEF OneRow
    <3>4. seen \in Run /\ seen.legacy /\ run.legacy /\ run.legacy \in BOOLEAN
      BY <3>1, <3>2 DEF Complete, SameVersion, Run
    <3>5. /\ Completed(seen, view.files, view.projection).id = seen.id
          /\ Completed(seen, view.files, view.projection).legacy = seen.legacy
      BY <3>4 DEF Completed, Run
    <3> HIDE DEF held
    <3>6. run.legacy = seen.legacy
      BY <3>1, <3>2 DEF SameVersion
    <3> QED BY <2>1, <3>1, <3>3, <3>4, <3>5, <3>6
  <2>2. CASE ~\E seen \in MissingSnapshot(view.runs) : seen.id = run.id
    BY <2>2
  <2> QED BY <2>1, <2>2
<1>2. Backfilled(rows, view) = {fill(run) : run \in rows}
  BY DEF Backfilled
<1> HIDE DEF fill, held
<1> QED BY <1>1, <1>2 DEF Follows, OneRow

-----------------------------------------------------------------------------
(***************************************************************************)
(* What a step does to the rows, the baseline and the project.             *)
(***************************************************************************)
\* It commits a run.
Adds(new, rows) ==
  /\ Follows(runs, rows) /\ runs' = rows \cup {new}
  /\ new \in Run /\ new.id = count.runs + 1
  /\ ~new.legacy /\ new.snapshot # None /\ new.status \in UsableStatuses
  /\ project.exists /\ project'.exists /\ baseline' = baseline

\* It reads, completes rows of the older version, or removes some.
Moves == Follows(runs, runs') /\ project'.exists = project.exists /\ baseline' = baseline

\* It writes the baseline.
Repoints ==
  /\ UNCHANGED <<runs, project>> /\ runs # {}
  /\ baseline' = None \/ \E run \in runs : run.id = baseline'

\* It deletes the project.
Deletes == project.exists /\ ~project'.exists /\ runs' = {} /\ baseline' = None

RowStep == Moves \/ Repoints \/ Deletes \/ \E new \in Run, rows \in SUBSET Run : Adds(new, rows)

\* It goes on with the row a request holds to complete it, or takes one.
TakesMissing(r) == request'[r].pc = "tables" =>
  \/ request[r].pc = "tables" /\ request'[r].run = request[r].run
  \/ request'[r].run \in MissingSnapshot(runs)

LEMMA ViewRows ==
  ASSUME IInv, LogInv, NEW w \in Workers, work[w].pc \in TransactionPcs
  PROVE  /\ work[w].view.runs \in SUBSET Run /\ OneRow(work[w].view.runs)
         /\ Complete(work[w].view.runs) /\ SameVersion(work[w].view.runs, runs)
         /\ Follows(runs, Backfilled(runs, work[w].view))
<1>1. /\ work[w].view.runs \in SUBSET Run /\ OneRow(work[w].view.runs)
      /\ Complete(work[w].view.runs) /\ SameVersion(work[w].view.runs, runs)
      /\ runs \in SUBSET Run /\ OneRow(runs)
  BY DEF IInv, TypeOK, WorkType, Views, LogInv, SeenRowsOK, RowsOK
<1> QED BY <1>1, BackfillFollows

LEMMA WorkerRows ==
  ASSUME IInv, LogInv, NEW w \in Workers, WorkerStep(w)
  PROVE  RowStep /\ request' = request
<1> USE DEF IInv, LogInv, RowsOK
<1>0. Follows(runs, runs)
  BY FollowsSelf
<1>1. /\ project \in ProjectType
      /\ \A status : /\ [project EXCEPT !.status = status].exists = project.exists
                     /\ \A fp : [project EXCEPT !.status = status, !.fp = fp].exists = project.exists
  BY DEF TypeOK, ProjectType
<1>2. ASSUME NEW source \in Sources, ImportStart(w, source) PROVE Moves /\ request' = request
  BY <1>0, <1>1, <1>2 DEF ImportStart, BecomesBusy, Moves
<1>3. CASE ReplaceFilesBegin(w) \/ LoadFiles(w) \/ WriteSuccessBegin(w) \/ AnalysisError(w) \/ Abandoned(w)
  BY <1>0, <1>3 DEF ReplaceFilesBegin, LoadFiles, WriteSuccessBegin, AnalysisError, Abandoned, Moves, RowStep
<1>4. CASE ReplaceFilesCommit(w)
  <2>1. Follows(runs, Backfilled(runs, work[w].view))
    BY <1>4, ViewRows DEF ReplaceFilesCommit, TransactionPcs
  <2> QED BY <1>1, <1>4, <2>1 DEF ReplaceFilesCommit, Moves, RowStep
<1>5. CASE ImportFails(w)
  BY <1>0, <1>1, <1>5 DEF ImportFails, Moves, RowStep
<1>6. CASE AnalysisStart(w) \/ WriteFailedAnalysis(w)
  <2>1. Follows(runs, WithoutPending(runs))
    BY SettledFollows DEF WithoutPending
  <2> QED BY <1>1, <1>6, <2>1 DEF AnalysisStart, WriteFailedAnalysis, BecomesBusy, Moves, RowStep
<1>7. ASSUME NEW status \in {"completed", "partial"}, WriteSuccessCommit(w, status)
      PROVE  RowStep /\ request' = request
  <2> DEFINE view   == work[w].view
             rows   == Settled(Backfilled(runs, view))
             number == AllocateNextRunNumber(Settled(Backfilled(view.runs, view)))
             id     == count.runs + 1
             new    == [id |-> id, number |-> number, status |-> status, legacy |-> FALSE,
                        fp |-> work[w].source,
                        snapshot |-> [manifest |-> work[w].source, rows |-> {id}]]
  <2>1. /\ work[w].pc = "persist" /\ runs' = rows \cup {new}
        /\ project' = [project EXCEPT !.status = "completed", !.fp = work[w].source]
        /\ project.exists /\ UNCHANGED <<baseline, request>>
    BY <1>7 DEF WriteSuccessCommit, WithoutPending
  <2>2. runs' \in SUBSET Run
    BY <1>7, CommitSteps DEF TypeOK
  <2>3. Follows(runs, Backfilled(runs, view))
    BY <2>1, ViewRows DEF TransactionPcs
  <2>4. OneRow(Backfilled(runs, view)) /\ Complete(Backfilled(runs, view))
    BY <2>3 DEF Follows, Complete
  <2>5. Follows(runs, rows)
    BY <2>3, <2>4, SettledFollows, FollowsTwice
  <2>6. /\ new.id = id /\ new.legacy = FALSE /\ new.status \in UsableStatuses
        /\ new.snapshot = [manifest |-> work[w].source, rows |-> {id}]
    BY DEF UsableStatuses
  <2>7. new.snapshot # None
    <3>1. work[w].source \in Sources \cup {None} /\ id \in RunIds
      BY <1>7 DEF WriteSuccessCommit, TypeOK, WorkType
    <3> HIDE DEF id
    <3>2. new.snapshot \in Snapshot
      BY <2>6, <3>1 DEF Snapshot
    <3> QED BY <3>2, HistoryConstants
  <2> HIDE DEF new, rows
  <2>8. new \in Run /\ rows \in SUBSET Run
    BY <2>1, <2>2
  <2>9. Adds(new, rows)
    BY <1>1, <2>1, <2>5, <2>6, <2>7, <2>8 DEF Adds
  <2> QED BY <2>1, <2>8, <2>9 DEF RowStep
<1> QED BY <1>2, <1>3, <1>4, <1>5, <1>6, <1>7 DEF WorkerStep, RowStep

LEMMA RequestRows ==
  ASSUME IInv, LogInv, NEW r \in Requests, RequestStep(r)
  PROVE  RowStep /\ \A q \in Requests : TakesMissing(q)
<1> USE DEF IInv, LogInv, RowsOK
<1>0. Follows(runs, runs) /\ request \in [Requests -> RequestType]
  BY FollowsSelf DEF TypeOK
<1>1. IdleRequest.pc = "idle"
  BY DEF IdleRequest
<1>2. CASE HistoryRequest(r)
  <2> DEFINE run == CHOOSE run \in MissingSnapshot(runs) : TRUE
             x == IF MissingSnapshot(runs) = {}
                    THEN [IdleRequest EXCEPT !.pc = "project"]
                    ELSE [IdleRequest EXCEPT !.pc = "tables", !.todo = {"files", "rows"}, !.run = run]
  <2>1. request' = [request EXCEPT ![r] = x] /\ UNCHANGED <<project, runs, baseline>>
    BY <1>2 DEF HistoryRequest
  <2>2. x.pc = "tables" => x.run \in MissingSnapshot(runs)
    <3>1. CASE MissingSnapshot(runs) = {}
      BY <3>1 DEF IdleRequest
    <3>2. CASE MissingSnapshot(runs) # {}
      <4>1. run \in MissingSnapshot(runs)
        BY <3>2
      <4> HIDE DEF run
      <4> QED BY <3>2, <4>1 DEF IdleRequest
    <3> QED BY <3>1, <3>2
  <2> HIDE DEF x
  <2> QED BY <1>0, <2>1, <2>2 DEF TakesMissing, RowStep, Moves
<1>3. ASSUME NEW table \in {"files", "rows"}, ReadTable(r, table)
      PROVE  RowStep /\ \A q \in Requests : TakesMissing(q)
  <2>1. /\ \A q \in Requests : request'[q].pc = request[q].pc /\ request'[q].run = request[q].run
        /\ UNCHANGED <<project, runs, baseline>>
    BY <1>0, <1>3 DEF ReadTable, RequestType
  <2> QED BY <1>0, <2>1 DEF TakesMissing, RowStep, Moves
<1>4. CASE MaterializeSnapshot(r)
  <2> DEFINE held == request[r].run
             done == Completed(held, request[r].manifest, request[r].rows)
             later(run) == IF run.id = held.id THEN done ELSE run
             x == [IdleRequest EXCEPT !.pc = "project"]
  <2>1. /\ held.legacy /\ SameVersion({held}, runs) /\ held \in Run
        /\ runs' = {later(run) : run \in runs} /\ request' = [request EXCEPT ![r] = x]
        /\ UNCHANGED <<project, baseline>>
    BY <1>4 DEF MaterializeSnapshot, HeldRowsOK, KeyInv, RequestsOK, ReadPcs
  <2>2. done.id = held.id /\ done.legacy = held.legacy
    BY <2>1 DEF Completed, Run
  <2> HIDE DEF held, done
  <2>3. ASSUME NEW run \in runs
        PROVE  /\ later(run).id = run.id /\ later(run).legacy = run.legacy
               /\ ~run.legacy => later(run) = run
    BY <2>1, <2>2 DEF SameVersion
  <2> HIDE DEF later
  <2>4. Follows(runs, runs')
    BY <2>1, <2>3 DEF Follows, OneRow
  <2>5. x.pc = "project"
    BY DEF IdleRequest
  <2> HIDE DEF x
  <2>6. \A q \in Requests : TakesMissing(q)
    BY <1>0, <2>1, <2>5 DEF TakesMissing
  <2> QED BY <2>1, <2>4, <2>6 DEF RowStep, Moves
<1>5. CASE StatusRequest(r) \/ ReadBaseline(r) \/ \E run \in runs : CheckBaseline(r, run)
  <2>1. PICK x : request' = [request EXCEPT ![r] = x] /\ x.pc \in {"project", "point", "pointer"}
    <3>1. CASE StatusRequest(r)
      <4>1. [request[r] EXCEPT !.pc = "project"].pc = "project"
        BY <1>0 DEF RequestType
      <4> QED BY <3>1, <4>1 DEF StatusRequest
    <3>2. CASE ReadBaseline(r)
      <4>1. [request[r] EXCEPT !.pc = "point", !.found = baseline # None].pc = "point"
        BY <1>0 DEF RequestType
      <4> QED BY <1>0, <3>2, <4>1 DEF ReadBaseline
    <3>3. ASSUME NEW run \in runs, CheckBaseline(r, run)
          PROVE  \E x : request' = [request EXCEPT ![r] = x] /\ x.pc \in {"project", "point", "pointer"}
      <4>1. [request[r] EXCEPT !.pc = "pointer", !.run = run].pc = "pointer"
        BY <1>0 DEF RequestType
      <4> QED BY <1>0, <3>3, <4>1 DEF CheckBaseline
    <3> QED BY <1>5, <3>1, <3>2, <3>3
  <2>2. UNCHANGED <<project, runs, baseline>>
    BY <1>5 DEF StatusRequest, ReadBaseline, CheckBaseline
  <2> QED BY <1>0, <2>1, <2>2 DEF TakesMissing, RowStep, Moves
<1>6. CASE ReadProject(r) \/ ReadFiles(r)
  <2>1. PICK x : request' = [request EXCEPT ![r] = x] /\ x.pc \in {"files", "fingerprint", "idle"}
    <3>1. /\ [request[r] EXCEPT !.pc = "files"].pc = "files"
          /\ [request[r] EXCEPT !.pc = "fingerprint", !.manifest = files].pc = "fingerprint"
      BY <1>0 DEF RequestType
    <3>2. \/ request' = [request EXCEPT ![r] = [request[r] EXCEPT !.pc = "files"]]
          \/ request' = [request EXCEPT ![r] = [request[r] EXCEPT !.pc = "fingerprint", !.manifest = files]]
          \/ request' = [request EXCEPT ![r] = IdleRequest]
      BY <1>0, <1>6 DEF ReadProject, ReadFiles, Answered
    <3> QED BY <1>1, <3>1, <3>2
  <2>2. UNCHANGED <<project, runs, baseline>>
    BY <1>6 DEF ReadProject, ReadFiles
  <2> QED BY <1>0, <2>1, <2>2 DEF TakesMissing, RowStep, Moves
<1>7. CASE WriteFingerprint(r)
  <2>1. project'.exists = project.exists
    BY <1>7 DEF WriteFingerprint, TypeOK, ProjectType
  <2> QED BY <1>0, <1>1, <1>7, <2>1 DEF WriteFingerprint, Answered, TakesMissing, RowStep, Moves
<1>8. CASE WriteBaseline(r)
  <2>1. baseline' = baseline \/ \E run \in runs : run.id = baseline'
    BY <1>8 DEF WriteBaseline
  <2>2. /\ request' = [request EXCEPT ![r] = IdleRequest] /\ UNCHANGED <<project, runs>>
    BY <1>8 DEF WriteBaseline, Answered
  <2> QED BY <1>0, <1>1, <2>1, <2>2 DEF TakesMissing, RowStep, Moves, Repoints
<1> QED BY <1>2, <1>3, <1>4, <1>5, <1>6, <1>7, <1>8 DEF RequestStep

LEMMA NextRows ==
  ASSUME IInv, LogInv, [Next]_vars
  PROVE  RowStep /\ \A r \in Requests : TakesMissing(r)
<1> USE DEF IInv, LogInv, RowsOK
<1>1. ASSUME NEW w \in Workers, WorkerStep(w) PROVE RowStep /\ \A r \in Requests : TakesMissing(r)
  BY <1>1, WorkerRows DEF TakesMissing
<1>2. CASE DeleteProject
  <2>1. project'.exists = FALSE
    BY <1>2 DEF DeleteProject, TypeOK, ProjectType
  <2> QED BY <1>2, <2>1 DEF DeleteProject, RowStep, Deletes, TakesMissing
<1>3. CASE ClearBaseline
  <2>1. runs # {}
    BY <1>3 DEF ClearBaseline, KeyInv, BaselineOK, Keys
  <2> QED BY <1>3, <2>1 DEF ClearBaseline, RowStep, Repoints, TakesMissing
<1>4. CASE UNCHANGED vars
  BY <1>4, FollowsSelf DEF vars, RowStep, Moves, TakesMissing
<1> QED BY <1>1, <1>2, <1>3, <1>4, RequestRows DEF Next

-----------------------------------------------------------------------------
(***************************************************************************)
(* The invariant.                                                          *)
(***************************************************************************)
LEMMA RowIds == ASSUME IInv PROVE count.runs \in Nat /\ \A run \in runs : run.id <= count.runs
<1>1. \A run \in runs : Key(run) \in Keys(runs) /\ Key(run)[1] = run.id
  BY KeyTypes DEF IInv, TypeOK, Keys
<1> QED BY <1>1, KeyFacts DEF IInv, KeyInv, KeysOK

\* A row that is committed later is another run.
LEMMA VersionsLast ==
  ASSUME IInv, RowStep, NEW rows \in SUBSET Run, SameVersion(rows, runs),
         \A run \in rows : run.id <= count.runs
  PROVE  SameVersion(rows, runs')
<1>1. ASSUME NEW later, Follows(runs, later) PROVE SameVersion(rows, later)
  BY <1>1 DEF Follows, SameVersion
<1>2. ASSUME NEW new \in Run, NEW later \in SUBSET Run, Adds(new, later) PROVE SameVersion(rows, runs')
  <2>1. SameVersion(rows, later)
    BY <1>1, <1>2 DEF Adds
  <2>2. \A run \in rows : run.id # new.id
    BY <1>2, KeyFacts, HistoryConstants DEF Adds, IInv, Run, RunIds
  <2> QED BY <1>2, <2>1, <2>2 DEF Adds, SameVersion
<1>3. CASE Deletes
  BY <1>3 DEF Deletes, SameVersion
<1>4. CASE Repoints
  BY <1>4 DEF Repoints, SameVersion
<1> QED BY <1>1, <1>2, <1>3, <1>4 DEF RowStep, Moves

LEMMA RowsKeep == ASSUME IInv, LogInv, HistoryStep, RowStep PROVE RowsOK' /\ ErasedOK'
<1>1. OneNumber(Keys(runs'))
  <2>1. OneNumber(Keys(runs))
    BY DEF LogInv, RowsOK
  <2>2. CASE Reads \/ Purges
    BY <2>1, <2>2 DEF Reads, Same, Purges, OneNumber, Ended
  <2>3. CASE Erases
    BY <2>3 DEF Erases, OneNumber, Keys
  <2>4. ASSUME NEW w \in Workers, NEW k \in KeySet, Commits(w, k) PROVE OneNumber(Keys(runs'))
    BY <2>1, <2>4 DEF Commits, OneNumber, Ended
  <2> QED BY <2>2, <2>3, <2>4 DEF HistoryStep
<1>2. ASSUME NEW later, Follows(runs, later) PROVE OneRow(later) /\ Complete(later)
  BY <1>2 DEF Follows, LogInv, RowsOK, Complete
<1>3. CASE Moves
  BY <1>1, <1>2, <1>3 DEF Moves, RowsOK, ErasedOK, LogInv, Follows
<1>4. CASE Repoints
  BY <1>1, <1>4 DEF Repoints, RowsOK, ErasedOK, LogInv
<1>5. CASE Deletes
  BY <1>1, <1>5 DEF Deletes, RowsOK, ErasedOK, OneRow, Complete
<1>6. ASSUME NEW new \in Run, NEW later \in SUBSET Run, Adds(new, later) PROVE RowsOK' /\ ErasedOK'
  <2>1. OneRow(later) /\ Complete(later) /\ runs' = later \cup {new}
    BY <1>2, <1>6 DEF Adds
  <2>2. \A run \in later : run.id # new.id
    <3>1. \A run \in later : run.id <= count.runs
      BY <1>6, RowIds DEF Adds, Follows
    <3> QED BY <1>6, <3>1, RowIds, HistoryConstants DEF Adds, Run, RunIds
  <2> QED BY <1>1, <1>6, <2>1, <2>2 DEF Adds, RowsOK, ErasedOK, OneRow, Complete
<1> QED BY <1>3, <1>4, <1>5, <1>6 DEF RowStep

LEMMA HeldKeep ==
  ASSUME IInv, LogInv, HistoryStep, RowStep, \A r \in Requests : TakesMissing(r)
  PROVE  SeenRowsOK' /\ HeldRowsOK'
<1>1. ASSUME NEW w \in Workers, work'[w].pc \in TransactionPcs
      PROVE  LET seen == work'[w].view.runs IN OneRow(seen) /\ Complete(seen) /\ SameVersion(seen, runs')
  <2>1. KeepsView(w) \/ TakesView(w)
    BY <1>1 DEF HistoryStep, Reads, Purges, Commits, Erases, Holds, TransactionPcs
  <2>2. CASE KeepsView(w)
    <3> DEFINE seen == work[w].view.runs
    <3>1. work[w].pc \in TransactionPcs /\ work'[w].view = work[w].view
      BY <1>1, <2>2 DEF KeepsView
    <3>2. seen \in SUBSET Run /\ OneRow(seen) /\ Complete(seen) /\ SameVersion(seen, runs)
      BY <3>1, ViewRows
    <3>3. \A run \in seen : run.id <= count.runs
      <4>1. \A run \in seen : Key(run) \in Keys(seen) /\ Key(run)[1] = run.id
        BY <3>2, KeyTypes DEF Keys
      <4> QED BY <3>1, <4>1 DEF IInv, KeyInv, ViewsOK, SameRun
    <3> HIDE DEF seen
    <3>4. SameVersion(seen, runs')
      BY <3>2, <3>3, VersionsLast
    <3> QED BY <3>1, <3>2, <3>4 DEF seen
  <2>3. CASE TakesView(w)
    <3>1. OneRow(runs) /\ Complete(runs) /\ SameVersion(runs, runs) /\ runs \in SUBSET Run
      BY DEF LogInv, RowsOK, OneRow, SameVersion, IInv, TypeOK
    <3>2. SameVersion(runs, runs')
      BY <3>1, RowIds, VersionsLast
    <3> QED BY <2>3, <3>1, <3>2 DEF TakesView
  <2> QED BY <2>1, <2>2, <2>3
<1>2. ASSUME NEW r \in Requests, request'[r].pc = "tables"
      PROVE  request'[r].run.legacy /\ SameVersion({request'[r].run}, runs')
  <2> DEFINE held == request'[r].run
  <2>1. held \in Run /\ held.legacy /\ SameVersion({held}, runs) /\ held.id <= count.runs
    <3>1. CASE request[r].pc = "tables" /\ held = request[r].run
      <4>1. held \in Run /\ SameRun(Key(held), Keys(runs))
        BY <3>1 DEF IInv, KeyInv, RequestsOK, ReadPcs
      <4>2. held.legacy /\ SameVersion({held}, runs)
        BY <3>1 DEF LogInv, HeldRowsOK
      <4> QED BY <4>1, <4>2, KeyTypes DEF SameRun
    <3>2. CASE held \in MissingSnapshot(runs)
      <4>1. held \in runs /\ held.snapshot = None
        BY <3>2 DEF MissingSnapshot, Usable
      <4>2. held \in Run /\ held.legacy
        BY <4>1 DEF LogInv, RowsOK, Complete, IInv, TypeOK
      <4>3. SameVersion({held}, runs)
        BY <4>1 DEF LogInv, RowsOK, OneRow, SameVersion
      <4> QED BY <4>1, <4>2, <4>3, RowIds
    <3> QED BY <1>2, <3>1, <3>2 DEF TakesMissing
  <2> HIDE DEF held
  <2>2. SameVersion({held}, runs')
    BY <2>1, VersionsLast
  <2> QED BY <2>1, <2>2 DEF held
<1> QED BY <1>1, <1>2 DEF SeenRowsOK, HeldRowsOK, SameVersion

LEMMA InitLog == ASSUME Init PROVE LogInv
<1>1. /\ \A w \in Workers : work[w].pc = "idle"
      /\ \A r \in Requests : request[r].pc = "idle"
      /\ project.exists /\ OneRow(runs) /\ Complete(runs) /\ OneNumber(Keys(runs))
  <2>1. \E run : runs \subseteq {run} /\ run.legacy = TRUE
    <3>1. CASE runs = {}
      <4>1. [legacy |-> TRUE].legacy = TRUE
        OBVIOUS
      <4> QED BY <3>1, <4>1
    <3>2. CASE runs # {}
      <4>1. PICK status \in UpgradeFrom :
              runs = {[id |-> 1, number |-> 1, status |-> status, fp |-> None,
                       snapshot |-> None, legacy |-> TRUE]}
        BY <3>2 DEF Init
      <4>2. [id |-> 1, number |-> 1, status |-> status, fp |-> None,
             snapshot |-> None, legacy |-> TRUE].legacy = TRUE
        OBVIOUS
      <4> QED BY <4>1, <4>2
    <3> QED BY <3>1, <3>2
  <2>2. OneRow(runs) /\ Complete(runs) /\ OneNumber(Keys(runs))
    BY <2>1 DEF OneRow, Complete, OneNumber, Keys
  <2> QED BY <2>2 DEF Init, IdleWork, IdleRequest
<1> QED BY <1>1 DEF LogInv, RowsOK, SeenRowsOK, TransactionPcs, HeldRowsOK, ErasedOK

LEMMA LogInvariance == Spec => [](IInv /\ LogInv)
<1>1. Init => IInv /\ LogInv
  BY InitOK, InitLog
<1>2. IInv /\ LogInv /\ [Next]_vars => (IInv /\ LogInv)'
  BY StepKeeps, NextStep, NextRows, RowsKeep, HeldKeep DEF LogInv
<1> QED BY <1>1, <1>2, PTL DEF Spec

-----------------------------------------------------------------------------
(***************************************************************************)
(* The refinement.                                                         *)
(***************************************************************************)
Entries == [n \in {run.number : run \in NewRuns} |-> NewRunNumbered(n)]
Pointer == IF \E run \in NewRuns : run.id = baseline
             THEN NumberOf(CHOOSE run \in NewRuns : run.id = baseline) ELSE None

\* The mapping is determined: a number names one row, and so does an id.
EntriesOK ==
  /\ DOMAIN Entries = {run.number : run \in NewRuns}
  /\ \A run \in NewRuns : run \in Run /\ Entries[run.number] = run
PointerOK ==
  /\ \A run \in NewRuns : run.id = baseline => Pointer = run.number
  /\ (\A run \in NewRuns : run.id # baseline) => Pointer = None

LEMMA Mapping == IInv /\ LogInv => EntriesOK /\ PointerOK
<1> SUFFICES ASSUME IInv, LogInv PROVE EntriesOK /\ PointerOK
  OBVIOUS
<1>1. NewRuns \subseteq runs /\ runs \in SUBSET Run
  BY DEF NewRuns, IInv, TypeOK
<1>2. \A a, b \in NewRuns : a.number = b.number => a = b
  <2> SUFFICES ASSUME NEW a \in NewRuns, NEW b \in NewRuns, a.number = b.number PROVE a = b
    OBVIOUS
  <2>1. /\ Key(a) \in Keys(runs) /\ Key(a)[2] = a.number /\ Key(a)[1] = a.id
        /\ Key(b) \in Keys(runs) /\ Key(b)[2] = b.number /\ Key(b)[1] = b.id
    BY <1>1, KeyTypes DEF Keys
  <2>2. Key(a) = Key(b)
    BY <2>1 DEF LogInv, RowsOK, OneNumber
  <2> QED BY <1>1, <2>1, <2>2 DEF LogInv, RowsOK, OneRow
<1>3. \A a, b \in NewRuns : a.id = b.id => a = b
  BY <1>1 DEF LogInv, RowsOK, OneRow
<1>4. ASSUME NEW run \in NewRuns PROVE NewRunNumbered(run.number) = run
  BY <1>2 DEF NewRunNumbered
<1>5. ASSUME NEW run \in NewRuns, run.id = baseline PROVE Pointer = run.number
  <2>1. (CHOOSE r \in NewRuns : r.id = baseline) = run
    BY <1>3, <1>5
  <2> QED BY <1>5, <2>1 DEF Pointer, NumberOf
<1> QED BY <1>1, <1>4, <1>5 DEF EntriesOK, PointerOK, Entries, Pointer

LEMMA SameNewRuns ==
  ASSUME NewRuns' = NewRuns, baseline' = baseline
  PROVE  UNCHANGED <<Entries, Pointer>>
  BY DEF Entries, Pointer, NewRunNumbered

LEMMA FollowsNew ==
  ASSUME NEW rows, NEW later, Follows(rows, later)
  PROVE  {run \in later : ~run.legacy} = {run \in rows : ~run.legacy}
  BY DEF Follows

\* A commit appends: by CommitsOnTop its number is above all others.
LEMMA AddsAppend ==
  ASSUME IInv, LogInv, IInv', LogInv', HistoryStep,
         NEW new \in Run, NEW rows \in SUBSET Run, Adds(new, rows)
  PROVE  Log!Append(new.number)
<1> EntriesOK /\ PointerOK /\ EntriesOK' /\ PointerOK'
  BY Mapping, PTL
<1>1. NewRuns' = NewRuns \cup {new}
  <2>1. {run \in rows : ~run.legacy} = NewRuns
    BY FollowsNew DEF Adds, NewRuns
  <2> QED BY <2>1 DEF Adds, NewRuns
<1>2. \A run \in runs : run.id # new.id
  BY RowIds, HistoryConstants DEF Adds, Run, RunIds
<1>3. \A run \in NewRuns : run.number < new.number
  <2> SUFFICES ASSUME NEW run \in NewRuns PROVE run.number < new.number
    OBVIOUS
  <2>1. run \in runs /\ new \in runs' /\ runs \in SUBSET Run /\ runs' \in SUBSET Run
    BY DEF NewRuns, Adds, IInv, TypeOK
  <2>2. /\ Key(run) \in Keys(runs) /\ Key(run)[2] = run.number
        /\ Key(new) \in Keys(runs') /\ Key(new)[1] = new.id /\ Key(new)[2] = new.number
    BY <2>1, KeyTypes DEF Keys
  <2>3. \A l \in Keys(runs) : l[1] # new.id
    BY <1>2, <2>1, KeyTypes DEF Keys
  <2>4. ~Reads /\ ~Purges /\ ~Erases
    BY <2>2, <2>3 DEF Reads, Same, Purges, Erases, Ended, Keys
  <2>5. PICK w \in Workers, k \in KeySet : Commits(w, k)
    BY <2>4 DEF HistoryStep
  <2>6. Key(new) = k
    BY <2>2, <2>3, <2>5 DEF Commits, Ended
  <2> QED BY <2>2, <2>5, <2>6, CommitsOnTop
<1>4. /\ DOMAIN Entries' = DOMAIN Entries \cup {new.number}
      /\ \A n \in DOMAIN Entries : Entries'[n] = Entries[n]
      /\ Entries'[new.number] = new
  <2>1. /\ DOMAIN Entries = {run.number : run \in NewRuns}
        /\ \A run \in NewRuns : Entries[run.number] = run
    BY DEF EntriesOK
  <2>2. /\ DOMAIN Entries' = {run.number : run \in NewRuns'}
        /\ \A run \in NewRuns' : Entries'[run.number] = run
    BY DEF EntriesOK
  <2> QED BY <1>1, <2>1, <2>2
<1>5. Pointer' = Pointer
  <2>1. baseline # new.id
    <3>1. CASE baseline = None
      BY <3>1, HistoryConstants DEF Run
    <3>2. CASE baseline # None
      BY <1>2, <3>2, KeyTypes DEF IInv, KeyInv, BaselineOK, Keys, TypeOK
    <3> QED BY <3>1, <3>2
  <2>2. baseline' = baseline
    BY DEF Adds
  <2> HIDE DEF Pointer
  <2>3. CASE \E run \in NewRuns : run.id = baseline
    <3>1. PICK run \in NewRuns : run.id = baseline
      BY <2>3
    <3>2. Pointer = run.number
      BY <3>1 DEF PointerOK
    <3>3. Pointer' = run.number
      BY <1>1, <2>2, <3>1 DEF PointerOK
    <3> QED BY <3>2, <3>3
  <2>4. CASE \A run \in NewRuns : run.id # baseline
    BY <1>1, <2>1, <2>2, <2>4 DEF PointerOK
  <2> QED BY <2>3, <2>4
<1>6. \A older \in DOMAIN Entries : older < new.number
  BY <1>3 DEF EntriesOK
<1>7. project.exists /\ project'.exists = project.exists
  BY DEF Adds, IInv, TypeOK, ProjectType
<1> QED BY <1>4, <1>5, <1>6, <1>7 DEF Log!Append, Entries, Pointer

LEMMA LogSteps ==
  ASSUME IInv, LogInv, IInv', LogInv', HistoryStep, RowStep
  PROVE  [Log!LogNext]_(Log!logVars)
<1> EntriesOK /\ PointerOK /\ EntriesOK' /\ PointerOK'
  BY Mapping, PTL
<1>1. CASE Moves
  <2>1. NewRuns' = NewRuns
    BY <1>1, FollowsNew DEF Moves, NewRuns
  <2>2. UNCHANGED <<Entries, Pointer>>
    BY <1>1, <2>1, SameNewRuns DEF Moves
  <2> QED BY <1>1, <2>2 DEF Moves, Log!logVars, Entries, Pointer
<1>2. CASE Repoints
  <2>1. NewRuns' = NewRuns /\ Entries' = Entries
    BY <1>2 DEF Repoints, NewRuns, Entries, NewRunNumbered
  <2>2. project.exists /\ project' = project
    BY <1>2 DEF Repoints, LogInv, ErasedOK
  <2>3. Pointer' \in DOMAIN Entries \cup {None}
    <3>1. CASE \E run \in NewRuns' : run.id = baseline'
      <4>1. PICK run \in NewRuns : run.id = baseline'
        BY <2>1, <3>1
      <4>2. Pointer' = run.number
        BY <2>1, <4>1 DEF PointerOK
      <4> QED BY <4>1, <4>2 DEF EntriesOK
    <3>2. CASE \A run \in NewRuns' : run.id # baseline'
      BY <3>2 DEF PointerOK
    <3> QED BY <3>1, <3>2
  <2>4. PICK number \in RunIds \cup {None} : number = Pointer'
    BY <2>3 DEF EntriesOK, Run
  <2>5. Log!Point(number)
    BY <2>1, <2>2, <2>3, <2>4 DEF Log!Point, Entries, Pointer
  <2> QED BY <2>4, <2>5 DEF Log!LogNext
<1>3. CASE Deletes
  <2>1. NewRuns' = {}
    BY <1>3 DEF Deletes, NewRuns
  <2>2. Entries' = <<>> /\ Pointer' = None
    BY <2>1 DEF Entries, Pointer
  <2>3. Log!Erase
    BY <1>3, <2>2 DEF Deletes, Log!Erase, Entries, Pointer, IInv, TypeOK, ProjectType
  <2> QED BY <2>3 DEF Log!LogNext
<1>4. ASSUME NEW new \in Run, NEW rows \in SUBSET Run, Adds(new, rows) PROVE Log!LogNext
  <2>1. Log!Append(new.number) /\ new.number \in RunIds
    BY <1>4, AddsAppend DEF Run
  <2> QED BY <2>1 DEF Log!LogNext
<1> QED BY <1>1, <1>2, <1>3, <1>4 DEF RowStep

\* Whatever overlaps, the history is a log of immutable runs that grows only at
\* its end, and the baseline points into it (analysisHistory.ts,
\* writeSuccessfulAnalysis and replaceImportedFiles in projectWorkflow.ts).
THEOREM HistoryImplementsLog == Spec => ImplementsLog
<1>1. Init => Log!LogInit
  <2> SUFFICES ASSUME Init PROVE Log!LogInit
    OBVIOUS
  <2>1. NewRuns = {} /\ project.exists = TRUE
    BY DEF Init, NewRuns
  <2>2. Entries = <<>> /\ Pointer = None
    BY <2>1 DEF Entries, Pointer
  <2> QED BY <2>1, <2>2 DEF Log!LogInit, Entries, Pointer
<1>2. IInv /\ LogInv /\ (IInv /\ LogInv)' /\ [Next]_vars => [Log!LogNext]_(Log!logVars)
  BY NextStep, NextRows, LogSteps
<1> QED BY <1>1, <1>2, LogInvariance, PTL DEF Spec, ImplementsLog, Log!LogSpec
=============================================================================
