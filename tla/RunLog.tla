-------------------------------- MODULE RunLog --------------------------------
(***************************************************************************)
(* What the analysis history promises its readers, whatever imports,       *)
(* analyses and requests do: a log of immutable runs that only grows at    *)
(* its end, a baseline pointer that always names a run of the log, and     *)
(* nothing else, until the project is deleted with all of it.              *)
(***************************************************************************)
EXTENDS Integers

CONSTANTS RunNumbers, Entries, NoRun

VARIABLES log,     \* run number -> the run, for the runs in the log
          pointer, \* the run number the baseline names
          alive    \* the project has not been deleted

logVars == <<log, pointer, alive>>

LogInit == log = <<>> /\ pointer = NoRun /\ alive = TRUE

Append(number) ==
  /\ alive
  /\ \A older \in DOMAIN log : older < number
  /\ DOMAIN log' = DOMAIN log \cup {number}
  /\ \A n \in DOMAIN log : log'[n] = log[n]
  /\ log'[number] \in Entries
  /\ UNCHANGED <<pointer, alive>>

Point(number) ==
  /\ number \in DOMAIN log \cup {NoRun}
  /\ pointer' = number
  /\ alive
  /\ UNCHANGED <<log, alive>>

Erase == alive /\ alive' = FALSE /\ log' = <<>> /\ pointer' = NoRun

LogNext ==
  \/ \E number \in RunNumbers : Append(number)
  \/ \E number \in RunNumbers \cup {NoRun} : Point(number)
  \/ Erase

LogSpec == LogInit /\ [][LogNext]_logVars
=============================================================================
