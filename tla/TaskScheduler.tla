---------------------------- MODULE TaskScheduler ----------------------------
(***************************************************************************)
(* CTaskScheduler over the priority queue.  Service executes the tasks     *)
(* that are due one after the other; a task that executes may submit and   *)
(* remove tasks itself, and may ask to be executed again.                  *)
(*                                                                         *)
(* Time is counted in ticks.  A tick is more than the fraction of a        *)
(* granule (TIME_GRANULARITY_FRACTION_CUTOFF) that rounding ignores.       *)
(***************************************************************************)
EXTENDS PriorityQueue

CONSTANTS
  TimeGranularity,   \* ticks to the granule; 0 for a scheduler that does not round
  MaxTime,           \* bound: the latest time a task is submitted for or Service called with
  NoTask

ASSUME TimeGranularityAssumption == TimeGranularity \in Nat
ASSUME MaxTimeAssumption == MaxTime \in Nat
ASSUME NoTaskAssumption == NoTask \notin Task /\ NoTask \notin Nat

VARIABLES
  current_time,   \* the argument of the last call of Service
  servicing,      \* whether Service has been called and has not returned
  executing       \* the task whose Execute has been called, or NoTask

schedulerVars == <<current_time, servicing, executing>>
vars == <<queueVars, schedulerVars>>

Times == 0 .. MaxTime

SchedulerTypeOK ==
  /\ current_time \in Times
  /\ servicing \in BOOLEAN
  /\ executing \in Task \cup {NoTask}

Init ==
  /\ QueueInit
  /\ current_time = 0
  /\ servicing = FALSE
  /\ executing = NoTask

(* Submit_Task rounds up to the next granule.                              *)
Granule(time) ==
  IF TimeGranularity > 0 /\ time % TimeGranularity > 0
  THEN (time \div TimeGranularity + 1) * TimeGranularity
  ELSE time

Enqueue(task, time) ==
  /\ ~Is_Scheduled(task)                                       \* FATAL_ASSERT
  /\ ExecuteTime' = [ExecuteTime EXCEPT ![task] = Granule(time)]
  /\ Insert(task)

(* The application can call the scheduler between two calls of Service and *)
(* from the Execute of a task.                                             *)
Callable == heapify = Settled /\ (servicing => executing # NoTask)

(* A task that executes may submit one that is due already: the same call  *)
(* of Service executes it.                                                 *)
Submit_Task(task, time) ==
  /\ Callable
  /\ Enqueue(task, time)
  /\ UNCHANGED schedulerVars

Remove_Task(task) ==
  /\ Callable
  /\ Is_Scheduled(task)
  /\ Remove_By_Index(HeapIndex[task])
  /\ UNCHANGED <<ExecuteTime, schedulerVars>>

Service(time) ==
  /\ heapify = Settled
  /\ ~servicing
  /\ time >= current_time
  /\ servicing' = TRUE
  /\ current_time' = time
  /\ UNCHANGED <<queueVars, executing>>

(* Mutant of the next: a task is due only when its time has passed.        *)
Top_Is_Overdue == Count > 0 /\ ExecuteTime[Elements[1]] < current_time

Top_Is_Due == Count > 0 /\ ExecuteTime[Elements[1]] <= current_time

(* Service pops the top and calls its Execute.                             *)
Pop_And_Execute ==
  /\ servicing /\ executing = NoTask /\ heapify = Settled
  /\ Top_Is_Due
  /\ executing' = Elements[1]
  /\ Pop
  /\ UNCHANGED <<ExecuteTime, current_time, servicing>>

(* Execute returned false.                                                 *)
Executed ==
  /\ executing # NoTask /\ heapify = Settled
  /\ executing' = NoTask
  /\ UNCHANGED <<queueVars, current_time, servicing>>

(* Mutant of the next: the assertion lets the current time pass.           *)
Reschedule_Now(time) ==
  /\ executing # NoTask /\ heapify = Settled
  /\ time >= current_time
  /\ Enqueue(executing, time)
  /\ executing' = NoTask
  /\ UNCHANGED <<current_time, servicing>>

(* Execute returned true, with the time to be executed again.              *)
Reschedule(time) ==
  /\ executing # NoTask /\ heapify = Settled
  /\ time > current_time                                       \* FATAL_ASSERT
  /\ Enqueue(executing, time)
  /\ executing' = NoTask
  /\ UNCHANGED <<current_time, servicing>>

Service_Return ==
  /\ servicing /\ executing = NoTask /\ heapify = Settled
  /\ ~Top_Is_Due
  /\ servicing' = FALSE
  /\ UNCHANGED <<queueVars, current_time, executing>>

Service_Loop ==
  \/ Heapify /\ UNCHANGED schedulerVars
  \/ Pop_And_Execute
  \/ Executed
  \/ \E time \in Times : Reschedule(time)
  \/ Service_Return

Application ==
  \/ \E task \in Task, time \in Times : Submit_Task(task, time)
  \/ \E task \in Task : Remove_Task(task)
  \/ \E time \in Times : Service(time)

Next == Service_Loop \/ Application

Spec == Init /\ [][Next]_vars

(* Service goes on; every Execute returns, however often it calls the      *)
(* scheduler first, which it cannot leave in the middle of a call.         *)
Execute_Returns == Executed \/ \E time \in Times : Reschedule(time)

Fairness ==
  /\ WF_vars(Heapify /\ UNCHANGED schedulerVars)
  /\ WF_vars(Pop_And_Execute) /\ WF_vars(Service_Return)
  /\ SF_vars(Execute_Returns)

FairSpec == Spec /\ Fairness

TypeOK == QueueTypeOK /\ SchedulerTypeOK

(* The inductive invariant behind TracksHeapIndex and HeapOrder, through   *)
(* every turn of the loops and every call that a task makes.               *)
SchedulerInv == TypeOK /\ TracksHeapIndex /\ HeapInv

-----------------------------------------------------------------------------

(* An Execute submits a task that is due. Nothing keeps it from doing so:  *)
(* the assertion is on the time that Execute returns only.                 *)
Due == { task \in Task : Is_Scheduled(task) /\ ExecuteTime[task] <= current_time }
SubmitsDue == servicing /\ UNCHANGED executing /\ ~(Due' \subseteq Due)

(* A call of Service ends, whatever tasks it executes, however they submit, *)
(* remove and reschedule tasks: unless some go on submitting tasks that are *)
(* due for ever. To "prevent potential reschedule loops"                    *)
(* (TaskScheduler.cpp:108) is the purpose of the assertion in Service.      *)
ServiceEnds == <>[][~SubmitsDue]_vars => (servicing ~> ~servicing)

(* Tasks are executed in the order of their times, none before its time,   *)
(* a task that is removed not at all, and none that is due is left over.   *)
AgendaView ==
  INSTANCE Agenda WITH None <- NoTask,
    due <- [task \in Task |-> IF Is_Scheduled(task) THEN ExecuteTime[task] ELSE NoTask],
    clock <- current_time, serving <- servicing, performing <- executing
ImplementsAgenda == AgendaView!Spec
=============================================================================
