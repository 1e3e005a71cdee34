-------------------------------- MODULE Agenda --------------------------------
(***************************************************************************)
(* What a scheduler promises: tasks are put on the agenda for a time and   *)
(* taken off again; while it is served, the task that is due soonest is    *)
(* performed first, a task that asks for another turn gets a later one,    *)
(* and no task that is due is left when the service ends.                  *)
(***************************************************************************)
EXTENDS Naturals

CONSTANTS Task, None

VARIABLES
  due,          \* due[task]: when the task is to be performed, or None
  clock,        \* the time of the current or the last service
  serving,      \* whether the agenda is being served
  performing    \* the task being performed, or None

vars == <<due, clock, serving, performing>>

Init ==
  /\ due = [task \in Task |-> None]
  /\ clock = 0
  /\ serving = FALSE
  /\ performing = None

Listed == { task \in Task : due[task] # None }

(* The task gets a time of these.                                          *)
Put(task, times) == due'[task] \in times /\ due' = [due EXCEPT ![task] = due'[task]]

Add(task) ==
  /\ task \notin Listed
  /\ serving => performing # None
  /\ Put(task, Nat)
  /\ UNCHANGED <<clock, serving, performing>>

Cancel(task) ==
  /\ task \in Listed
  /\ serving => performing # None
  /\ due' = [due EXCEPT ![task] = None]
  /\ UNCHANGED <<clock, serving, performing>>

Begin_Service ==
  /\ ~serving
  /\ serving' = TRUE
  /\ clock' \in Nat
  /\ UNCHANGED <<due, performing>>

Perform(task) ==
  /\ serving /\ performing = None
  /\ task \in Listed
  /\ due[task] <= clock
  /\ \A other \in Listed : due[task] <= due[other]
  /\ due' = [due EXCEPT ![task] = None]
  /\ performing' = task
  /\ UNCHANGED <<clock, serving>>

(* The task has been performed, and may be performed again later.          *)
Performed ==
  /\ performing # None
  /\ \/ UNCHANGED due
     \/ performing \notin Listed /\ Put(performing, { time \in Nat : time > clock })
  /\ performing' = None
  /\ UNCHANGED <<clock, serving>>

End_Service ==
  /\ serving /\ performing = None
  /\ \A task \in Listed : due[task] > clock
  /\ serving' = FALSE
  /\ UNCHANGED <<due, clock, performing>>

Next ==
  \/ \E task \in Task : Add(task) \/ Cancel(task) \/ Perform(task)
  \/ Begin_Service
  \/ Performed
  \/ End_Service

Spec == Init /\ [][Next]_vars
=============================================================================
