---------------------------- MODULE MCPagedQueries ----------------------------
(***************************************************************************)
(* Model checking of PagedQueries and ReportQueries.  An analysis leaves   *)
(* one of a few small databases, whose ids no other one uses.  A summary,  *)
(* a difference, a list of runs or an export is computed from the input    *)
(* alone, which is chosen at the start.                                    *)
(***************************************************************************)
EXTENDS ReportQueries

\* Paths and names: files 10..., symbols 20..., tables 30..., fields 40...,
\* contexts 50..., titles 60....
File(n) == [path |-> 10 + n, folded |-> 10 + (n \div 2)]
Row(text, file, line, severity) == [text |-> 60 + text, file |-> File(file), line |-> line, severity |-> severity]

WarningOf(row) == [code |-> IF row.line > 0 THEN "ANALYSIS_FILE_SKIPPED" ELSE "HEURISTIC_ANALYSIS",
                   message |-> row.text, path |-> row.file.path]

Small(k) ==
  [files |-> {[id |-> k + 1, name |-> 10]},
   symbols |-> {[id |-> k + 1, name |-> 20, type |-> "procedure", file |-> k + 1, line |-> 3]},
   fields |-> {[id |-> k + 1, table |-> 30, name |-> 40]},
   fieldDependencies |-> {[id |-> k + 1, field |-> k + 1, symbol |-> k + 1, line |-> 3, op |-> "write", context |-> 50]},
   dependencies |-> {},
   risks |-> <<Row(0, 0, 3, 2)>>, rules |-> <<>>, warnings |-> <<>>]
Large(k) ==
  [files |-> {[id |-> k + n, name |-> 10 + n] : n \in 1..2},
   symbols |-> {[id |-> k + n, name |-> 20 + (n % 3), type |-> IF n < 4 THEN "procedure" ELSE "method",
                 file |-> k + 1 + (n % 2), line |-> n] : n \in 1..5},
   fields |-> {[id |-> k + n, table |-> 30 + (n % 2), name |-> 40 + (n % 3)] : n \in 1..4},
   fieldDependencies |-> {[id |-> k + n, field |-> k + 1 + (n % 3), symbol |-> k + 1 + (n % 4), line |-> n,
                           op |-> IF n % 2 = 0 THEN "read" ELSE IF n = 3 THEN "calculate" ELSE "write",
                           context |-> 50 + (n % 2)] : n \in 1..5},
   dependencies |-> {[id |-> k + n, from |-> k + 1 + (n % 3), type |-> IF n % 2 = 0 THEN "calls" ELSE "imports",
                      line |-> n, external |-> IF n < 3 THEN 20 + n ELSE 0,
                      to |-> IF n < 3 THEN 0 ELSE k + n, kind |-> IF n < 3 THEN "external" ELSE "internal"] : n \in 1..4},
   risks |-> [n \in 1..7 |-> Row((4 - n) % 3, n % 4, n % 3, 1 + ((n * n) % 4))],
   rules |-> [n \in 1..4 |-> Row((n + 1) % 3, 3 - (n % 3), 1, 0)],
   warnings |-> [n \in 1..3 |-> WarningOf(Row(n % 2, n, n, n))]]

\* Lists of rows for the summaries: all short ones, and some with more
\* locations than a group keeps.
ShortLists == UNION {[1..n -> {Row(t, f, l, s) : t \in 0..1, f \in {0, 1, 2}, l \in 0..1, s \in {1, 3}}] : n \in 0..2}
LongLists == {[n \in 1..7 |-> Row(0, n % files, n % lines, severities[1 + (n % 2)])] :
                files \in 1..7, lines \in 1..4, severities \in {<<1, 3>>, <<2, 2>>}}
  \cup {[n \in 1..7 |-> Row(0, IF n = 7 THEN file ELSE 0, 1, 1)] : file \in 0..3}

\* Another analysis of the same files, and one of other files.
Again == [Small(200) EXCEPT !.files = Small(0).files,
                            !.symbols = {[id |-> 201, name |-> 21, type |-> "method", file |-> 1, line |-> 3]}]
MCDatabases == {Small(0), Again, Large(100)}
Searches == {{}, {20}, {11}, {31, 21}, {41, 50}, {60}}

\* Snapshots for the diff: up to three files or risks, some with one key.
Items == {[key |-> k, body |-> b] : k \in 1..2, b \in 1..2}
ItemLists == {<<>>, <<[key |-> 1, body |-> 1], [key |-> 1, body |-> 2], [key |-> 3, body |-> 1]>>,
              [k \in 1..3 |-> [key |-> k, body |-> 1]]}
               \cup {<<x, y>> : x, y \in Items}
Snapshots == {[files |-> items, symbols |-> items, risks |-> SelectSeq(items, LAMBDA item : item.body = 1),
               tracesTruncated |-> FALSE] :
                items \in ItemLists}

\* Two projects, one of them without a fingerprint, and three runs.
Projects == {{[id |-> 1, fp |-> 1, status |-> st], [id |-> 2, fp |-> fp, status |-> "analyzing"]} :
               st \in {"completed", "failed"}, fp \in {Absent, 1, 2}}
RunOf(id, project, fp, status, stored) ==
  [id |-> id, number |-> id, project |-> project, fp |-> fp, status |-> status, stored |-> stored,
   documents |-> status # "partial", bytes |-> id]
RunSets == {{RunOf(1, 1, 1, first, "valid"), RunOf(2, 2, fp2, "completed", stored), RunOf(3, 1, fp3, last, stored)} :
              first \in {"completed", "failed"}, last \in {"partial", "completed_with_warnings"},
              fp2 \in 1..2, fp3 \in 1..2, stored \in {"valid", "missing", "newer"}}

\* Exported snapshots: three files, symbols that share a key, dependencies of
\* known and unknown symbols.
Exported == {[files |-> <<[key |-> 1, type |-> "go"], [key |-> 2, type |-> "delphi-like"], [key |-> 3, type |-> other]>>,
              symbols |-> <<[key |-> 1, file |-> 1], [key |-> 2, file |-> 2], [key |-> 1, file |-> 3]>>,
              dependencies |-> <<[from |-> f, to |-> t], [from |-> 2, to |-> 9]>>,
              risks |-> SubSeq(<<[file |-> 2], [file |-> 3]>>, 1, n), rules |-> <<[file |-> ruleFile]>>,
              warnings |-> <<[file |-> 1, limited |-> FALSE], [file |-> 0, limited |-> TRUE]>>,
              traces |-> [i \in 1..(30 * n) |-> [status |-> IF i % 2 = 0 THEN "partial" ELSE "complete"]]] :
                other \in {"sql", "txt"}, f \in {1, 2, 9}, t \in {1, 2, 9}, n \in 0..2, ruleFile \in 0..1}

\* Bursts of requests of a signed-in user, whom the users table may not know yet,
\* or of a visitor, and in between some of another procedure.
Cookie == [openId |-> "ann", app |-> AppId, signed |-> TRUE, session |-> "s1"]
Request(at, user, path, oauth) ==
  [at |-> at, path |-> path, ip |-> "host", oauth |-> oauth, cookie |-> IF user THEN Cookie ELSE Nobody]
Burst(n, at, user, path) == [i \in 1..n |-> Request(at, user, path, IF at = 0 THEN Nobody ELSE "ann")]
GateUsers == {[user \in {} |-> 0], [user \in {"ann"} |-> 0]}
Bursts ==
  {Burst(n, 0, user, "projects.cloneGit") \o Burst(1, 1, TRUE, "analysis.trigger")
     \o Burst(m, first, TRUE, "projects.cloneGit") \o Burst(k, second, last, "projects.cloneGit") :
     n \in {1, 4, 6}, user \in BOOLEAN, m \in {1, 4, 5}, first \in {1, 14, 15}, k \in {1, 5, 6},
     second \in {15, 16, 29, 30}, last \in BOOLEAN}

\* The pages asked for: every kind with its own filters, the others not given.
AskedFor == [search |-> {}, table |-> 0, only |-> {}, target |-> {}, texts |-> {}, severity |-> 0,
             critical |-> FALSE, files |-> {}, hide |-> FALSE]
With(filters) == {filter @@ page @@ AskedFor : filter \in filters, page \in [page : {1, 2, 9}, pageSize : {0, 2, 3}]}
PageRequests ==
  With([kind : {"symbols"}, search : Searches, only : {{}, {"procedure"}}])
    \cup With([kind : {"fields"}, search : Searches, table : {0, 31, 39}])
    \cup With([kind : {"fieldDependencies"}, search : Searches, table : {0, 31, 39}, only : {{}, {"read"}}])
    \cup With([kind : {"dependencies"}, search : Searches, only : {{}, {"calls"}}, target : {{}, {"external"}},
               hide : BOOLEAN])
    \cup With([kind : GroupedKinds, search : {{}, {60}, {11}}, texts : {{}, {60, 62}}, severity : {0, 2},
               critical : BOOLEAN, files : {{}, {10, 11}}, hide : BOOLEAN])

MCInputs ==
  PageRequests
    \cup {[kind |-> "snapshot"]} \cup {[kind |-> "summary", rows |-> rows, warnings |-> SeqMap(rows, WarningOf)] : rows \in ShortLists \cup LongLists}
    \cup [kind : {"diff"}, base : Snapshots, compare : Snapshots]
    \cup [kind : {"runs"}, projects : Projects, runs : RunSets, pageSize : 1..2]
    \cup [kind : {"export"}, snapshot : Exported]
    \cup [kind : {"gate"}, requests : Bursts, users : GateUsers]
=============================================================================
