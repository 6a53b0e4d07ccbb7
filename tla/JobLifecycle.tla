----------------------------- MODULE JobLifecycle -----------------------------
(***************************************************************************)
(* What the job table promises its readers, whatever the workers do: the   *)
(* life of a job as the README's job model tells it.  A job is submitted   *)
(* once, held by one worker at a time, may go back to the queue or change  *)
(* hands only while its retry budget lasts, and ends once, for good, with  *)
(* nobody holding it.  Deleting a project removes all of its jobs.         *)
(***************************************************************************)
EXTENDS Integers

CONSTANTS Ids, Workers, Nobody, Budget

VARIABLES issued,  \* how many jobs have been submitted
          life     \* [state, holder, attempt] of every id

lifeVars == <<issued, life>>

States == {"none", "queued", "running", "completed", "failed"}
Ended  == {"completed", "failed"}

NotSubmitted == [state |-> "none", holder |-> Nobody, attempt |-> 0]

LifeInit ==
  /\ issued = 0
  /\ life = [j \in Ids |-> NotSubmitted]

Submit(j) ==
  /\ j = issued + 1
  /\ issued' = j
  /\ life' = [life EXCEPT ![j] = [state |-> "queued", holder |-> Nobody, attempt |-> 0]]

Hold(j, w) ==
  /\ life[j].state \in {"queued", "running"}
  /\ \E n \in 1..Budget :
       life' = [life EXCEPT ![j] = [state |-> "running", holder |-> w, attempt |-> n]]
  /\ UNCHANGED issued

GiveBack(j) ==
  /\ life[j].state = "running"
  /\ life[j].attempt < Budget
  /\ life' = [life EXCEPT ![j].state = "queued", ![j].holder = Nobody]
  /\ UNCHANGED issued

End(j, outcome) ==
  /\ life[j].state = "running"
  /\ outcome \in Ended
  /\ life' = [life EXCEPT ![j].state = outcome, ![j].holder = Nobody]
  /\ UNCHANGED issued

Remove(gone) ==
  /\ life' = [j \in Ids |-> IF j \in gone THEN NotSubmitted ELSE life[j]]
  /\ UNCHANGED issued

LifeNext ==
  \/ \E j \in Ids :
       \/ Submit(j)
       \/ \E w \in Workers : Hold(j, w)
       \/ GiveBack(j)
       \/ \E outcome \in Ended : End(j, outcome)
  \/ \E gone \in SUBSET Ids : Remove(gone)

LifeSpec == LifeInit /\ [][LifeNext]_lifeVars
=============================================================================
