--------------------------- MODULE DatabaseTaskBatch ---------------------------
(***************************************************************************)
(* TDatabaseTaskBatch: the tasks of one type are executed as lists of up   *)
(* to InputParameterBatchSize, each in a transaction of its own.  A list   *)
(* that fails is rolled back and tried again without the task to blame,    *)
(* or task by task when nobody can be blamed.                              *)
(*                                                                         *)
(* A task type has a text of its own, and the text stands for its batch.   *)
(* The recursion of Process_Task_List is the list of the lists that it has *)
(* still to execute.                                                       *)
(***************************************************************************)
EXTENDS TaskListExecution

CONSTANTS
  BatchSizes,   \* the batch sizes that the task types may have been given
  NoText        \* no batch

ASSUME BatchSizesAssumption == BatchSizes \subseteq [Text -> Nat \ {0}]
ASSUME NoTextAssumption == NoText \notin Text

VARIABLES
  InputParameterBatchSize,   \* InputParameterBatchSize[text]: most calls in a list; never changes
  PendingTasks,       \* PendingTasks[text]: tasks added to the batch
  executing,          \* the batch in Execute_Tasks, or NoText
  work,               \* the lists that Process_Task_List has still to execute
  successful_tasks,   \* the tasks in the list
  failed_tasks

batchVars == <<PendingTasks, executing, work, successful_tasks, failed_tasks>>

BatchTypeOK ==
  /\ InputParameterBatchSize \in BatchSizes
  /\ PendingTasks \in [Text -> Seq(Task)]
  /\ executing \in Text \cup {NoText}
  /\ work \in Seq(Seq(Task) \ {<<>>})
  /\ successful_tasks \in SUBSET Task
  /\ failed_tasks \in SUBSET Task

BatchInit ==
  /\ InputParameterBatchSize \in BatchSizes
  /\ PendingTasks = [text \in Text |-> <<>>]
  /\ executing = NoText /\ work = <<>>
  /\ successful_tasks = {} /\ failed_tasks = {}

Execute_Tasks(text) ==
  /\ executing = NoText
  /\ PendingTasks[text] # <<>>
  /\ Allocate_Statement(text)
  /\ executing' = text
  /\ UNCHANGED <<connection, transaction, committed, sub_list, calls, stream, CurrentResultSet,
                 result, first_failed_task, tried, received>>
  /\ UNCHANGED <<PendingTasks, work, successful_tasks, failed_tasks>>

Smaller(m, n) == IF m < n THEN m ELSE n

Splice_Sub_List ==
  LET pending == PendingTasks[executing]
      amount  == Smaller(Len(pending), InputParameterBatchSize[executing])
  IN /\ executing # NoText /\ work = <<>> /\ pending # <<>>
     /\ work' = <<SubSeq(pending, 1, amount)>>
     /\ PendingTasks' = [PendingTasks EXCEPT ![executing] = SubSeq(pending, amount + 1, Len(pending))]
     /\ UNCHANGED executionVars
     /\ UNCHANGED <<executing, successful_tasks, failed_tasks>>

Execute_Task_List ==
  /\ work # <<>>
  /\ Execute(Head(work))
  /\ UNCHANGED batchVars

(* Mutant of the next: the statement stays as the error has left it.       *)
Return_To_Nothing == UNCHANGED Statements

Return_To_Ready == Statements' = [Statements EXCEPT ![executing] = "READY"]

(* Mutant of the next: nobody is told of the rollback.                     *)
Rolled_Back_Silently(list, bad_task) == {}

(* The tasks whose On_Rollback is called: they start anew.                 *)
Rolled_Back(list, bad_task) == Members(list) \ bad_task

Process_Success ==
  /\ result = "SUCCESS"
  /\ End_Transaction(TRUE)
  /\ Return_To_Ready
  /\ successful_tasks' = successful_tasks \cup Members(sub_list)
  /\ work' = Tail(work)
  /\ Forget_Results(Members(sub_list))
  /\ Forget_List
  /\ UNCHANGED <<PendingTasks, executing, failed_tasks>>

Process_Failure ==
  LET specific == result = "FAILED_SPECIFIC_TASK"
      bad_task == IF specific THEN {sub_list[first_failed_task]} ELSE {}
      rest     == RemoveAt(sub_list, first_failed_task)
  IN /\ result \in {"FAILED_SPECIFIC_TASK", "FAILED_UNKNOWN_TASK"}
     /\ End_Transaction(FALSE)
     /\ Return_To_Ready
     /\ Forget_Results(Rolled_Back(sub_list, bad_task) \cup bad_task)
     /\ IF specific
        THEN /\ failed_tasks' = failed_tasks \cup bad_task
             /\ work' = IF rest = <<>> THEN Tail(work) ELSE <<rest>> \o Tail(work)
        ELSE /\ work' = Singles(sub_list) \o Tail(work)
             /\ UNCHANGED failed_tasks
     /\ Forget_List
     /\ UNCHANGED <<PendingTasks, executing, successful_tasks>>

Process_Task_List == Execute_Task_List \/ Process_Success \/ Process_Failure

(* All the tasks have been executed: the statement is given back.          *)
Tasks_Executed ==
  /\ executing # NoText /\ work = <<>> /\ PendingTasks[executing] = <<>>
  /\ Statements[executing] = "READY"                           \* FATAL_ASSERT
  /\ Release_Statement(executing)
  /\ executing' = NoText
  /\ UNCHANGED <<connection, transaction, committed, sub_list, calls, stream, CurrentResultSet,
                 result, first_failed_task, tried, received>>
  /\ UNCHANGED <<PendingTasks, work, successful_tasks, failed_tasks>>

Batch_Step ==
  \/ Splice_Sub_List
  \/ Process_Task_List
  \/ Fetch_Results /\ UNCHANGED batchVars
  \/ Tasks_Executed
=============================================================================
