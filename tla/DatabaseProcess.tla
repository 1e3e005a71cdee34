---------------------------- MODULE DatabaseProcess ----------------------------
(***************************************************************************)
(* CDatabaseProcessBase: a process that is sent tasks by other processes,  *)
(* executes them batch after batch at the end of its iteration and answers *)
(* every requester.  Requests arrive whenever they like; the iterations    *)
(* are those of ConcurrencyRuntime, where the answers travel too.          *)
(***************************************************************************)
EXTENDS DatabaseTaskBatch

CONSTANTS
  CompoundBatch,   \* a batch of compound tasks, of which there are never any
  BatchOrdering    \* the batches in the order in which they were added

ASSUME OrderingAssumption ==
  /\ CompoundBatch \notin Text
  /\ BatchOrdering \in Seq(Text \cup {CompoundBatch})
  /\ Text \subseteq Members(BatchOrdering)

VARIABLES
  mailbox,           \* tasks that have been sent and not been handled
  PendingRequests,   \* tasks whose requesters wait for an answer
  answer,            \* answer[task]: "none", "success" or "failure"
  next_batch         \* the place in BatchOrdering of the next batch, or 0

processVars == <<mailbox, PendingRequests, answer, next_batch>>
vars == <<InputParameterBatchSize, executionVars, batchVars, processVars>>

TypeOK ==
  /\ ExecutionTypeOK
  /\ BatchTypeOK
  /\ mailbox \in SUBSET Task
  /\ PendingRequests \in SUBSET Task
  /\ answer \in [Task -> {"none", "success", "failure"}]
  /\ next_batch \in 0 .. Len(BatchOrdering) + 1

Init ==
  /\ ExecutionInit
  /\ BatchInit
  /\ mailbox = {} /\ PendingRequests = {}
  /\ answer = [task \in Task |-> "none"]
  /\ next_batch = 0

asked == mailbox \cup PendingRequests \cup { task \in Task : answer[task] # "none" }

(* Another process sends its request.                                      *)
Send_Request(task) ==
  /\ task \notin asked
  /\ mailbox' = mailbox \cup {task}
  /\ UNCHANGED <<PendingRequests, answer, next_batch>>
  /\ UNCHANGED <<InputParameterBatchSize, executionVars, batchVars>>

(* Handle_Run_Database_Task_Request for every request that has arrived, in *)
(* the order in which their frames came from the other processes.          *)
Service_Message_Frames ==
  /\ next_batch = 0
  /\ next_batch' = 1
  /\ \E arrived \in SetToSeqs(mailbox) :
       PendingTasks' = [text \in Text |->
                          PendingTasks[text] \o Sublist(arrived, { task \in Task : TextOf[task] = text })]
  /\ PendingRequests' = PendingRequests \cup mailbox
  /\ mailbox' = {}
  /\ UNCHANGED answer
  /\ UNCHANGED <<executionVars, executing, work, successful_tasks, failed_tasks>>

(* Mutant of the next: every batch begins with empty lists.                *)
Skip_And_Clear ==
  /\ successful_tasks' = {} /\ failed_tasks' = {}
  /\ UNCHANGED <<executionVars, PendingTasks, executing, work>>

(* A batch with nothing to execute; a compound one clears the lists that   *)
(* all the batches share before it looks.                                  *)
Skip_Batch ==
  LET batch == BatchOrdering[next_batch]
  IN /\ \/ batch = CompoundBatch /\ successful_tasks' = {} /\ failed_tasks' = {}
        \/ batch \in Text /\ PendingTasks[batch] = <<>> /\ UNCHANGED <<successful_tasks, failed_tasks>>
     /\ UNCHANGED <<executionVars, PendingTasks, executing, work>>

Next_Batch ==
  /\ executing = NoText
  /\ next_batch \in DOMAIN BatchOrdering
  /\ next_batch' = next_batch + 1
  /\ Skip_Batch \/ \E text \in {BatchOrdering[next_batch]} \cap Text : Execute_Tasks(text)
  /\ UNCHANGED <<mailbox, PendingRequests, answer>>

(* The end of Per_Frame_Logic_End.                                         *)
Answer_Requests ==
  /\ executing = NoText /\ next_batch = Len(BatchOrdering) + 1
  /\ successful_tasks \cup failed_tasks \subseteq PendingRequests    \* FATAL_ASSERTs
  /\ successful_tasks \cap failed_tasks = {}
  /\ answer' = [task \in Task |-> IF task \in successful_tasks THEN "success"
                                  ELSE IF task \in failed_tasks THEN "failure" ELSE answer[task]]
  /\ PendingRequests' = PendingRequests \ (successful_tasks \cup failed_tasks)
  /\ successful_tasks' = {} /\ failed_tasks' = {}
  /\ next_batch' = 0
  /\ UNCHANGED <<mailbox, executionVars, PendingTasks, executing, work>>

Process_Step ==
  /\ \/ Service_Message_Frames
     \/ Next_Batch
     \/ Batch_Step /\ UNCHANGED processVars
     \/ Answer_Requests
  /\ UNCHANGED InputParameterBatchSize

Next == Process_Step \/ \E task \in Task : Send_Request(task)

Spec     == Init /\ [][Next]_vars
FairSpec == Spec /\ WF_vars(Process_Step)

-----------------------------------------------------------------------------

(* The process keeps the promise to its requesters: a task is told to have *)
(* succeeded when its effects were committed, to have failed when they     *)
(* were not, and nothing is committed of a task after its answer.          *)
Service == INSTANCE DatabaseService
             WITH Request <- Task, applied <- committed, broken <- ~Connected
ImplementsDatabaseService == Service!Spec

(* However often the list of a task is tried again, no effect of it is     *)
(* ever part of a transaction once one has been committed.                 *)
AppliedOnce == committed \cap transaction = {}

(* A task is not blamed for another's error: it fails because its own call *)
(* went wrong, unless a call of its list did not select exactly once and   *)
(* so shifted the count of result sets by which Fetch_Results names it.    *)
OnlyFaultyFail ==
  result = "FAILED_SPECIFIC_TASK" =>
    Faulty(first_failed_task) \/ Some_Call("missing") \/ Some_Call("extra")

(* A list succeeds only with every task having its own results and nobody  *)
(* else's, not even left over from a time when it was rolled back; but for *)
(* a call that selects nothing made up for by one that selects twice,      *)
(* which Execute_Task_List says it cannot see.                             *)
ResultsAreOwn ==
  result = "SUCCESS" /\ ~(Some_Call("missing") /\ Some_Call("extra")) =>
    \A task \in Members(sub_list) :
      received[task] = IF TextOf[task] \in WithResults THEN {task} ELSE {}

(* A task is rolled back between two executions, as every test of a        *)
(* failure counts: it is initialised once more often than rolled back.     *)
RolledBackBeforeRetry ==
  sub_list = <<>> => \A i \in DOMAIN work : Members(work[i]) \cap tried = {}

(* However a list has failed, the statement is ready for the next one and, *)
(* as it is cached, for the next time its batch is executed: the assertion *)
(* in Allocate_Statement holds.                                            *)
StatementReady ==
  \A text \in Text : Statements[text] \in {"none", "READY"} \/ (executing = text /\ sub_list # <<>>)

(* Every request is answered, however the calls fail, unless the end of a  *)
(* transaction does: then the next FATAL_ASSERT ends the process.          *)
EveryRequestAnswered ==
  \A task \in Task : task \in asked ~> (answer[task] # "none" \/ ~Connected)
=============================================================================
