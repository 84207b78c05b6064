---------------------------- MODULE TaskLifecycle ----------------------------
(***************************************************************************)
(* What one queued command goes through, seen from the pages that queue    *)
(* it: it waits, a worker runs it, it is over.  A worker may vanish and    *)
(* leave the task unsure, to be offered again.  CommandService implements  *)
(* this with its table, its agents and the network between them.           *)
(***************************************************************************)
EXTENDS Naturals

CONSTANTS
  Task,      \* numbers, in the order the tasks are queued
  Worker

VARIABLES
  stage,     \* what each task is going through
  worker     \* who has to run it

Stage == {"none", "queued", "running", "unsure", "over"}

Init ==
  /\ stage = [t \in Task |-> "none"]
  /\ worker \in [Task -> Worker]

(***************************************************************************)
(* The steps of one task.  Nothing leads out of "over", and a task is only *)
(* offered again ("unsure" to "queued") when no worker has it: two         *)
(* executions of a task never overlap and none comes after its end.        *)
(***************************************************************************)
Steps ==
  {<<"none", "queued">>,
   <<"queued", "running">>, <<"queued", "unsure">>, <<"queued", "over">>,
   <<"running", "unsure">>, <<"running", "over">>,
   <<"unsure", "queued">>, <<"unsure", "over">>}

Advances(t) == stage'[t] = stage[t] \/ <<stage[t], stage'[t]>> \in Steps

Taken(t) == stage[t] = "queued" /\ stage'[t] \in {"running", "unsure"}

\* A worker takes what it is offered in the order it was queued.
Next ==
  /\ stage' \in [Task -> Stage]
  /\ \A t \in Task : Advances(t)
  /\ \A t, u \in Task :
       /\ t < u /\ worker[t] = worker[u]
       /\ stage[t] = "queued" /\ Taken(u)
       => stage'[t] # "queued"
  /\ worker' \in [Task -> Worker]
  /\ \A t \in Task : stage[t] # "none" => worker'[t] = worker[t]

Spec == Init /\ [][Next]_<<stage, worker>>

=============================================================================
