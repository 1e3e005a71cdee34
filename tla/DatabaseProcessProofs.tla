------------------------- MODULE DatabaseProcessProofs -------------------------
(***************************************************************************)
(* The safety properties of a database process hold however many tasks,    *)
(* texts and batches there are, whatever the sizes of the lists, whatever  *)
(* the calls do and whenever the connection breaks; and every step of it   *)
(* is one of DatabaseService.                                              *)
(***************************************************************************)
EXTENDS DatabaseProcess, TaskListExecutionProofs, FiniteSetTheorems

(* The tasks that wait in a batch, and those in the list that is executed  *)
(* or in a list that is still to be.                                       *)
Pending == UNION { Members(PendingTasks[text]) : text \in Text }
Working == AllOf(work)

OfText(text) == { task \in Task : TextOf[task] = text }

(* A task waits once, in the batch of its text.  The lists to be executed  *)
(* have nothing in common, and the first of them is the one in execution.  *)
BatchInv ==
  /\ \A text \in Text : Distinct(PendingTasks[text]) /\ Members(PendingTasks[text]) \subseteq OfText(text)
  /\ Apart(work) /\ Working \subseteq OfText(executing)
  /\ work # <<>> => executing # NoText
  /\ sub_list # <<>> => work # <<>> /\ sub_list = work[1]

(* What the attempt at a list has done, and nothing else, is in the open   *)
(* transaction and with the tasks.                                         *)
AttemptInv ==
  /\ tried = Members(sub_list)
  /\ transaction = { sub_list[i] : i \in { j \in DOMAIN sub_list : calls[j] # "raises" } }
  /\ \A task \in Task : task \notin Members(sub_list) \/ TextOf[task] \notin WithResults => received[task] = {}
  /\ sub_list # <<>> /\ TextOf[sub_list[1]] \in WithResults =>
       \A i \in DOMAIN sub_list :
         received[sub_list[i]] = IF i <= CurrentResultSet THEN {stream[i].task} ELSE {}

(* A task is in one place at a time, and where it is tells whether it may  *)
(* have been committed.                                                    *)
PlacesInv ==
  /\ IsFiniteSet(mailbox)
  /\ mailbox \cap PendingRequests = {}
  /\ \A task \in mailbox \cup PendingRequests : answer[task] = "none"
  /\ Pending \cup Working \cup successful_tasks \cup failed_tasks \subseteq PendingRequests
  /\ Pending \cap Working = {} /\ successful_tasks \cap failed_tasks = {}
  /\ (Pending \cup Working) \cap (successful_tasks \cup failed_tasks) = {}
  /\ committed \subseteq asked
  /\ committed \cap (mailbox \cup Pending \cup Working \cup failed_tasks) = {}
  /\ Connected => successful_tasks \subseteq committed

DatabaseInv == TypeOK /\ ListInv /\ BatchInv /\ AttemptInv /\ PlacesInv /\ StatementReady

-----------------------------------------------------------------------------
(* What an action leaves alone.                                            *)

(* The conjuncts whose variables do not change are preserved.              *)
LEMMA Unchanged ==
  ASSUME DatabaseInv
  PROVE  /\ UNCHANGED <<PendingTasks, executing, work, sub_list>> => BatchInv'
         /\ UNCHANGED <<tried, transaction, sub_list, calls, stream, CurrentResultSet, received>> => AttemptInv'
         /\ UNCHANGED <<mailbox, PendingRequests, answer, PendingTasks, work, successful_tasks, failed_tasks,
                        committed, connection>> => PlacesInv'
         /\ UNCHANGED <<Statements, executing, sub_list>> => StatementReady'
<1>1. UNCHANGED <<PendingTasks, executing, work, sub_list>> => BatchInv'
  BY DEF DatabaseInv, BatchInv, Working, Apart, AllOf
<1>2. UNCHANGED <<tried, transaction, sub_list, calls, stream, CurrentResultSet, received>> => AttemptInv'
  BY DEF DatabaseInv, AttemptInv
<1>3. UNCHANGED <<mailbox, PendingRequests, answer, PendingTasks, work, successful_tasks, failed_tasks,
                  committed, connection>> => PlacesInv'
  BY DEF DatabaseInv, PlacesInv, Pending, Working, AllOf, Connected, asked
<1>4. UNCHANGED <<Statements, executing, sub_list>> => StatementReady'
  BY DEF DatabaseInv, StatementReady
<1> QED BY <1>1, <1>2, <1>3, <1>4

(* What has been said in terms of lists, said in terms of sets.            *)
LEMMA Places ==
  ASSUME DatabaseInv
  PROVE  /\ Pending \subseteq Task /\ Working \subseteq Task
         /\ \A text \in Text : /\ PendingTasks[text] \in Seq(Task)
                               /\ Members(PendingTasks[text]) \subseteq Pending
         /\ work = <<>> => Working = {}
         /\ sub_list # <<>> => /\ sub_list = work[1] /\ work # <<>>
                               /\ Members(sub_list) \subseteq Working /\ Distinct(sub_list)
                               /\ executing \in Text
                               /\ \A i \in DOMAIN sub_list : TextOf[sub_list[i]] = executing
<1>1. \A text \in Text : PendingTasks[text] \in Seq(Task) /\ Members(PendingTasks[text]) \subseteq Pending
  BY DEF DatabaseInv, TypeOK, BatchTypeOK, Pending
<1>2. Pending \subseteq Task /\ Working \subseteq Task
  BY DEF DatabaseInv, BatchInv, OfText, Pending
<1>3. work = <<>> => Working = {}
  <2>1. DOMAIN <<>> = {}
    OBVIOUS
  <2> QED BY <2>1 DEF Working, AllOf
<1>4. ASSUME sub_list # <<>>
      PROVE  /\ sub_list = work[1] /\ work # <<>>
             /\ Members(sub_list) \subseteq Working /\ Distinct(sub_list)
             /\ executing \in Text
             /\ \A i \in DOMAIN sub_list : TextOf[sub_list[i]] = executing
  <2>1. sub_list = work[1] /\ work # <<>> /\ executing \in Text /\ Working \subseteq OfText(executing)
    BY <1>4 DEF DatabaseInv, BatchInv, TypeOK, BatchTypeOK
  <2>2. work \in Seq(Seq(Task) \ {<<>>}) /\ Apart(work)
    BY DEF DatabaseInv, BatchInv, TypeOK, BatchTypeOK
  <2>3. Members(sub_list) \subseteq Working /\ Distinct(sub_list)
    BY <2>1, <2>2, ApartTail DEF Working
  <2>4. \A i \in DOMAIN sub_list : sub_list[i] \in Members(sub_list)
    BY DEF Members
  <2> QED BY <2>1, <2>3, <2>4 DEF OfText
<1> QED BY <1>1, <1>2, <1>3, <1>4

-----------------------------------------------------------------------------
(* The invariant is preserved, action by action.                           *)

(* The process starts in the invariant.                                    *)
LEMMA InitInv == Init => DatabaseInv
<1> SUFFICES ASSUME Init PROVE DatabaseInv
  OBVIOUS
<1>0. DOMAIN <<>> = {} /\ <<>> \in Seq(Task) /\ <<>> \in Seq(Seq(Task) \ {<<>>}) /\ Len(BatchOrdering) \in Nat
  BY OrderingAssumption
<1>1. ListInv
  BY ListInit DEF Init
<1>2. TypeOK
  <2>1. 0 \in 0 .. Len(BatchOrdering) + 1
    BY <1>0
  <2> QED BY <1>0, <1>1, <2>1 DEF Init, BatchInit, TypeOK, BatchTypeOK, ListInv
<1>3. Pending = {} /\ Working = {} /\ Members(<<>>) = {}
  BY <1>0 DEF Init, BatchInit, Pending, Working, AllOf, Members
<1>4. BatchInv
  BY <1>0, <1>3 DEF Init, BatchInit, ExecutionInit, BatchInv, Apart, Distinct
<1>5. AttemptInv
  BY <1>0, <1>3 DEF Init, ExecutionInit, AttemptInv
<1>6. PlacesInv
  BY <1>3, FS_EmptySet DEF Init, BatchInit, ExecutionInit, PlacesInv
<1>7. StatementReady
  BY DEF Init, ExecutionInit, StatementReady
<1> QED BY <1>1, <1>2, <1>4, <1>5, <1>6, <1>7 DEF DatabaseInv

(* Another process sends a request.                                        *)
LEMMA SendRequestInv ==
  ASSUME DatabaseInv, NEW task \in Task, Send_Request(task)
  PROVE  DatabaseInv'
<1>1. /\ task \notin asked /\ mailbox' = mailbox \cup {task}
      /\ UNCHANGED <<PendingRequests, answer, next_batch, InputParameterBatchSize, executionVars, batchVars>>
  BY DEF Send_Request
<1>2. TypeOK'
  BY <1>1 DEF DatabaseInv, TypeOK, ExecutionTypeOK, BatchTypeOK, executionVars, batchVars
<1>3. ListInv'
  BY <1>1, <1>2, ListUnchanged DEF DatabaseInv, TypeOK, executionVars, listVars
<1>4. BatchInv' /\ AttemptInv' /\ StatementReady'
  BY <1>1, Unchanged DEF executionVars, batchVars
<1>5. PlacesInv'
  <2>1. Pending' = Pending /\ Working' = Working /\ UNCHANGED <<successful_tasks, failed_tasks, committed, connection>>
    BY <1>1 DEF Pending, Working, AllOf, executionVars, batchVars
  <2>2. IsFiniteSet(mailbox')
    BY <1>1, FS_AddElement DEF DatabaseInv, PlacesInv
  <2>3. asked' = asked \cup {task} /\ task \notin PendingRequests /\ answer[task] = "none"
    BY <1>1 DEF asked
  <2> QED BY <1>1, <2>1, <2>2, <2>3 DEF DatabaseInv, PlacesInv, Connected
<1> QED BY <1>2, <1>3, <1>4, <1>5 DEF DatabaseInv

(* The requests that have arrived are handled.                             *)
LEMMA ServiceMessageFramesInv ==
  ASSUME DatabaseInv, Service_Message_Frames, UNCHANGED InputParameterBatchSize
  PROVE  DatabaseInv'
<1>1. PICK arrived \in SetToSeqs(mailbox) :
        PendingTasks' = [text \in Text |->
                           PendingTasks[text] \o Sublist(arrived, { task \in Task : TextOf[task] = text })]
  BY DEF Service_Message_Frames
<1>2. /\ PendingRequests' = PendingRequests \cup mailbox /\ mailbox' = {} /\ next_batch' = 1
      /\ UNCHANGED <<answer, executionVars, executing, work, successful_tasks, failed_tasks>>
  BY DEF Service_Message_Frames
<1>3. mailbox \subseteq Task /\ IsFiniteSet(mailbox)
  BY DEF DatabaseInv, TypeOK, PlacesInv
<1>4. arrived \in Seq(Task) /\ Distinct(arrived) /\ Members(arrived) \subseteq mailbox
  <2>1. Cardinality(mailbox) \in Nat
    BY <1>3, FS_CardinalityType
  <2>2. arrived \in [1 .. Cardinality(mailbox) -> mailbox] /\ Distinct(arrived)
    BY DEF SetToSeqs, Distinct
  <2>3. arrived \in Seq(Task)
    BY <2>1, <2>2, <1>3, SeqDef
  <2> QED BY <2>2, <2>3 DEF Members
<1>5. ASSUME NEW text \in Text
      PROVE  /\ PendingTasks'[text] \in Seq(Task) /\ Distinct(PendingTasks'[text])
             /\ Members(PendingTasks'[text]) = Members(PendingTasks[text]) \cup (Members(arrived) \cap OfText(text))
             /\ Members(PendingTasks'[text]) \subseteq OfText(text)
  <2> DEFINE new == Sublist(arrived, OfText(text))
  <2>1. new \in Seq(Task) /\ Members(new) = Members(arrived) \cap OfText(text) /\ Distinct(new)
    BY <1>4, MembersSublist
  <2>2. PendingTasks'[text] = PendingTasks[text] \o new
    BY <1>1 DEF OfText
  <2>3. /\ PendingTasks[text] \in Seq(Task) /\ Distinct(PendingTasks[text])
        /\ Members(PendingTasks[text]) \subseteq OfText(text)
        /\ Members(PendingTasks[text]) \subseteq PendingRequests
    BY Places DEF DatabaseInv, BatchInv, PlacesInv
  <2>4. Members(PendingTasks[text]) \cap Members(new) = {}
    BY <2>1, <2>3, <1>4 DEF DatabaseInv, PlacesInv
  <2> HIDE DEF new
  <2>5. /\ PendingTasks[text] \o new \in Seq(Task) /\ Distinct(PendingTasks[text] \o new)
        /\ Members(PendingTasks[text] \o new) = Members(PendingTasks[text]) \cup Members(new)
    BY <2>1, <2>3, <2>4, MembersConcat
  <2> QED BY <2>1, <2>2, <2>3, <2>5
<1>6. TypeOK'
  <2>1. next_batch' \in 0 .. Len(BatchOrdering) + 1
    BY <1>2, OrderingAssumption
  <2>2. PendingTasks' \in [Text -> Seq(Task)]
    BY <1>1, <1>5
  <2> QED BY <1>2, <1>3, <2>1, <2>2 DEF DatabaseInv, TypeOK, ExecutionTypeOK, BatchTypeOK, executionVars
<1>7. ListInv'
  BY <1>2, <1>6, ListUnchanged DEF DatabaseInv, TypeOK, executionVars, listVars
<1>8. BatchInv'
  <2>1. Working' = Working /\ Apart(work)'
    BY <1>2 DEF Working, AllOf, DatabaseInv, BatchInv, Apart
  <2> QED BY <2>1, <1>2, <1>5 DEF DatabaseInv, BatchInv, executionVars
<1>9. AttemptInv' /\ StatementReady'
  BY <1>2, Unchanged DEF executionVars
<1>10. PlacesInv'
  <2>1. Pending' \subseteq Pending \cup mailbox
    BY <1>4, <1>5 DEF Pending
  <2>2. Working' = Working /\ UNCHANGED <<successful_tasks, failed_tasks, committed, connection, answer>>
    BY <1>2 DEF Working, AllOf, executionVars
  <2>3. asked' = asked
    BY <1>2 DEF asked
  <2>4. IsFiniteSet(mailbox')
    BY <1>2, FS_EmptySet
  <2> QED BY <1>2, <2>1, <2>2, <2>3, <2>4 DEF DatabaseInv, PlacesInv, Connected
<1> QED BY <1>6, <1>7, <1>8, <1>9, <1>10 DEF DatabaseInv

(* A batch has nothing to execute.                                         *)
LEMMA SkipBatchInv ==
  ASSUME DatabaseInv, Skip_Batch, next_batch \in DOMAIN BatchOrdering, next_batch' = next_batch + 1,
         UNCHANGED <<mailbox, PendingRequests, answer, InputParameterBatchSize>>
  PROVE  DatabaseInv'
<1>1. /\ \/ successful_tasks' = {} /\ failed_tasks' = {}
         \/ UNCHANGED <<successful_tasks, failed_tasks>>
      /\ UNCHANGED <<executionVars, PendingTasks, executing, work>>
  BY DEF Skip_Batch
<1>2. TypeOK'
  <2>1. next_batch' \in 0 .. Len(BatchOrdering) + 1
    BY OrderingAssumption
  <2> QED BY <1>1, <2>1 DEF DatabaseInv, TypeOK, ExecutionTypeOK, BatchTypeOK, executionVars
<1>3. ListInv'
  BY <1>1, <1>2, ListUnchanged DEF DatabaseInv, TypeOK, executionVars, listVars
<1>4. BatchInv' /\ AttemptInv' /\ StatementReady'
  BY <1>1, Unchanged DEF executionVars
<1>5. PlacesInv'
  <2>1. Pending' = Pending /\ Working' = Working /\ UNCHANGED <<committed, connection>> /\ asked' = asked
    BY <1>1 DEF Pending, Working, AllOf, executionVars, asked
  <2> QED BY <1>1, <2>1 DEF DatabaseInv, PlacesInv, Connected
<1> QED BY <1>2, <1>3, <1>4, <1>5 DEF DatabaseInv

(* A batch is begun.                                                       *)
LEMMA ExecuteTasksInv ==
  ASSUME DatabaseInv, NEW text \in Text, Execute_Tasks(text),
         next_batch \in DOMAIN BatchOrdering, next_batch' = next_batch + 1,
         UNCHANGED <<mailbox, PendingRequests, answer, InputParameterBatchSize>>
  PROVE  DatabaseInv'
<1>1. /\ executing = NoText /\ executing' = text
      /\ Statements' = [Statements EXCEPT ![text] = "READY"]
      /\ UNCHANGED <<connection, transaction, committed, sub_list, calls, stream, CurrentResultSet,
                     result, first_failed_task, tried, received, PendingTasks, work, successful_tasks, failed_tasks>>
  BY DEF Execute_Tasks, Allocate_Statement
<1>2. TypeOK'
  <2>1. next_batch' \in 0 .. Len(BatchOrdering) + 1
    BY OrderingAssumption
  <2> QED BY <1>1, <2>1 DEF DatabaseInv, TypeOK, ExecutionTypeOK, BatchTypeOK, StatementStates
<1>3. ListInv'
  BY <1>1, <1>2, ListUnchanged DEF DatabaseInv, TypeOK, listVars
<1>4. work = <<>> /\ sub_list = <<>>
  BY <1>1 DEF DatabaseInv, BatchInv
<1>5. BatchInv'
  <2>1. Working' = {} /\ Apart(work)'
    BY <1>1, <1>4, Places DEF Working, AllOf, DatabaseInv, BatchInv, Apart
  <2> QED BY <2>1, <1>1, <1>4 DEF DatabaseInv, BatchInv
<1>6. AttemptInv' /\ PlacesInv'
  BY <1>1, Unchanged
<1>7. StatementReady'
  BY <1>1, <1>4 DEF DatabaseInv, StatementReady, TypeOK, ExecutionTypeOK
<1> QED BY <1>2, <1>3, <1>5, <1>6, <1>7 DEF DatabaseInv

(* A list is taken from the batch.                                         *)
LEMMA SpliceSubListInv ==
  ASSUME DatabaseInv, Splice_Sub_List, UNCHANGED <<processVars, InputParameterBatchSize>>
  PROVE  DatabaseInv'
<1> DEFINE pending == PendingTasks[executing]
           amount  == Smaller(Len(pending), InputParameterBatchSize[executing])
           list    == SubSeq(pending, 1, amount)
           rest    == SubSeq(pending, amount + 1, Len(pending))
<1>1. /\ executing # NoText /\ work = <<>> /\ pending # <<>>
      /\ work' = <<list>> /\ PendingTasks' = [PendingTasks EXCEPT ![executing] = rest]
      /\ UNCHANGED <<executionVars, executing, successful_tasks, failed_tasks, processVars>>
  BY DEF Splice_Sub_List
<1>2. executing \in Text /\ pending \in Seq(Task) /\ Distinct(pending) /\ Members(pending) \subseteq OfText(executing)
  BY <1>1 DEF DatabaseInv, TypeOK, BatchTypeOK, BatchInv
<1>3. amount \in 1 .. Len(pending)
  <2>1. InputParameterBatchSize[executing] \in Nat \ {0}
    BY <1>2, BatchSizesAssumption DEF DatabaseInv, TypeOK, BatchTypeOK
  <2>2. Len(pending) \in Nat \ {0}
    BY <1>1, <1>2, EmptySeq
  <2> DEFINE k == Len(pending)
             size == InputParameterBatchSize[executing]
  <2> HIDE DEF k, size
  <2>3. Smaller(k, size) \in 1 .. k
    <3>1. k \in Nat /\ k # 0 /\ size \in Nat /\ size # 0
      BY <2>1, <2>2 DEF k, size
    <3> QED BY <3>1 DEF Smaller
  <2> QED BY <2>3 DEF k, size
<1> HIDE DEF amount, pending
<1>4. /\ list \in Seq(Task) /\ rest \in Seq(Task) /\ Len(list) = amount
      /\ Members(pending) = Members(list) \cup Members(rest)
      /\ Distinct(list) /\ Distinct(rest) /\ Members(list) \cap Members(rest) = {}
  <2>1. amount \in 0 .. Len(pending)
    BY <1>2, <1>3
  <2> QED BY <2>1, <1>2, MembersSplit
<1> HIDE DEF list, rest
<1>5. list # <<>>
  <2>1. Len(list) # 0 /\ Len(<<>>) = 0
    BY <1>2, <1>3, <1>4
  <2> QED BY <2>1
<1>6. TypeOK'
  <2>1. work' \in Seq(Seq(Task) \ {<<>>})
    BY <1>1, <1>4, <1>5
  <2>2. PendingTasks' \in [Text -> Seq(Task)]
    BY <1>1, <1>2, <1>4 DEF DatabaseInv, TypeOK, BatchTypeOK
  <2> QED BY <1>1, <2>1, <2>2 DEF DatabaseInv, TypeOK, ExecutionTypeOK, BatchTypeOK, executionVars, processVars
<1>7. ListInv'
  BY <1>1, <1>6, ListUnchanged DEF DatabaseInv, TypeOK, executionVars, listVars
<1>8. Apart(work') /\ Working' = Members(list)
  BY <1>1, <1>4, ApartOne DEF Working, AllOf
<1>9. /\ PendingTasks'[executing] = rest
      /\ \A text \in Text : text # executing => PendingTasks'[text] = PendingTasks[text]
  BY <1>1, <1>2 DEF DatabaseInv, TypeOK, BatchTypeOK
<1>10. sub_list = <<>>
  BY <1>1 DEF DatabaseInv, BatchInv
<1>11. BatchInv'
  <2>1. \A text \in Text : Distinct(PendingTasks'[text]) /\ Members(PendingTasks'[text]) \subseteq OfText(text)
    BY <1>2, <1>4, <1>9 DEF DatabaseInv, BatchInv
  <2>2. Apart(work)'
    BY <1>8 DEF Apart
  <2>3. Working' \subseteq OfText(executing')
    BY <1>1, <1>2, <1>4, <1>8
  <2>4. sub_list' = <<>>
    BY <1>1, <1>10 DEF executionVars
  <2> QED BY <1>1, <2>1, <2>2, <2>3, <2>4 DEF BatchInv
<1>12. AttemptInv' /\ StatementReady'
  BY <1>1, Unchanged DEF executionVars
<1>13. PlacesInv'
  <2>1. Members(pending) \subseteq Pending
    BY <1>2, Places DEF pending
  <2>2. Pending' \subseteq Pending
    BY <1>4, <1>9, Places, <1>2, <2>1 DEF Pending
  <2>3. Members(list) \cap Pending' = {}
    <3> SUFFICES ASSUME NEW text \in Text PROVE Members(list) \cap Members(PendingTasks'[text]) = {}
      BY DEF Pending
    <3>1. CASE text = executing
      BY <3>1, <1>4, <1>9
    <3>2. CASE text # executing
      <4>1. Members(PendingTasks'[text]) \subseteq OfText(text) /\ Members(list) \subseteq OfText(executing)
        BY <3>2, <1>2, <1>4, <1>9 DEF DatabaseInv, BatchInv
      <4> QED BY <4>1, <3>2 DEF OfText
    <3> QED BY <3>1, <3>2
  <2>4. asked' = asked /\ UNCHANGED <<mailbox, PendingRequests, answer, successful_tasks, failed_tasks, committed, connection>>
    BY <1>1 DEF asked, executionVars, processVars
  <2> QED BY <1>4, <1>8, <2>1, <2>2, <2>3, <2>4 DEF DatabaseInv, PlacesInv, Connected
<1> QED BY <1>6, <1>7, <1>11, <1>12, <1>13 DEF DatabaseInv

(* Before a list is executed nothing has been tried.                       *)
LEMMA NoAttempt ==
  ASSUME DatabaseInv, sub_list = <<>>
  PROVE  tried = {} /\ transaction = {} /\ \A task \in Task : received[task] = {}
<1>1. DOMAIN sub_list = {} /\ Members(sub_list) = {}
  <2>1. DOMAIN <<>> = {}
    OBVIOUS
  <2> QED BY <2>1 DEF Members
<1> QED BY <1>1 DEF DatabaseInv, AttemptInv

(* The first of the lists is executed.                                     *)
LEMMA ExecuteTaskListInv ==
  ASSUME DatabaseInv, Execute_Task_List, UNCHANGED <<processVars, InputParameterBatchSize>>
  PROVE  DatabaseInv'
<1> DEFINE list == Head(work)
<1>1. work # <<>> /\ Execute(list) /\ UNCHANGED <<batchVars, processVars, InputParameterBatchSize>>
  BY DEF Execute_Task_List
<1>2. /\ list = work[1] /\ list \in Seq(Task) /\ list # <<>>
      /\ Members(list) \subseteq Working /\ executing \in Text /\ Working \subseteq OfText(executing)
  <2>1. work \in Seq(Seq(Task) \ {<<>>}) /\ Apart(work)
    BY DEF DatabaseInv, TypeOK, BatchTypeOK, BatchInv
  <2>2. Members(work[1]) \subseteq AllOf(work) /\ work[1] \in Seq(Task) \ {<<>>} /\ list = work[1]
    BY <1>1, <2>1, ApartTail
  <2> QED BY <1>1, <2>2 DEF DatabaseInv, TypeOK, BatchTypeOK, BatchInv, Working
<1> HIDE DEF list
<1>3. 1 \in DOMAIN list /\ \A i \in DOMAIN list : TextOf[list[i]] = executing /\ list[i] \in Task
  <2>1. \A i \in DOMAIN list : list[i] \in Members(list)
    BY DEF Members
  <2>2. 1 \in DOMAIN list
    BY <1>2
  <2> QED BY <1>2, <2>1, <2>2 DEF OfText
<1>4. /\ sub_list = <<>> /\ sub_list' = list
      /\ tried' = tried \cup Members(list) /\ CurrentResultSet' = 0
      /\ transaction' = transaction \cup { list[i] : i \in { j \in DOMAIN list : calls'[j] # "raises" } }
      /\ \E state \in StatementStates : Statements' = [Statements EXCEPT ![executing] = state]
      /\ UNCHANGED <<connection, committed, received>>
  BY <1>1, <1>3 DEF Execute, StatementStates
<1>5. ListInv'
  BY <1>1, <1>2, <1>3, ListExecute DEF DatabaseInv
<1>6. TypeOK'
  BY <1>1, <1>5 DEF DatabaseInv, ListInv, TypeOK, BatchTypeOK, batchVars, processVars
<1>7. BatchInv'
  <2>1. Working' = Working /\ Apart(work)'
    BY <1>1 DEF Working, AllOf, Apart, DatabaseInv, BatchInv, batchVars
  <2> QED BY <1>1, <1>2, <1>4, <2>1 DEF DatabaseInv, BatchInv, batchVars
<1>8. AttemptInv'
  <2>1. tried' = Members(list) /\ \A task \in Task : received'[task] = {}
    BY <1>4, NoAttempt
  <2>2. transaction' = { list[i] : i \in { j \in DOMAIN list : calls'[j] # "raises" } }
    BY <1>4, NoAttempt
  <2>3. \A i \in DOMAIN list : received'[list[i]] = IF i <= CurrentResultSet' THEN {stream'[i].task} ELSE {}
    <3>1. \A i \in DOMAIN list : ~(i <= CurrentResultSet')
      BY <1>2, <1>4
    <3> QED BY <1>3, <2>1, <3>1
  <2>4. tried' = Members(sub_list')
    BY <1>4, <2>1
  <2>5. transaction' = { sub_list'[i] : i \in { j \in DOMAIN sub_list' : calls'[j] # "raises" } }
    BY <1>4, <2>2
  <2>6. \A i \in DOMAIN sub_list' : received'[sub_list'[i]] = IF i <= CurrentResultSet' THEN {stream'[i].task} ELSE {}
    BY <1>4, <2>3
  <2> QED BY <2>1, <2>4, <2>5, <2>6 DEF AttemptInv
<1>9. PlacesInv'
  BY <1>1, <1>4, Unchanged DEF batchVars, processVars
<1>10. StatementReady'
  BY <1>1, <1>2, <1>4 DEF DatabaseInv, StatementReady, TypeOK, ExecutionTypeOK, batchVars
<1> QED BY <1>5, <1>6, <1>7, <1>8, <1>9, <1>10 DEF DatabaseInv

(* After a list has been executed nothing is left of the attempt.          *)
LEMMA AttemptForgotten ==
  ASSUME DatabaseInv, Forget_List, Forget_Results(Members(sub_list)), transaction' = {}
  PROVE  /\ AttemptInv'
         /\ tried' \in SUBSET Task /\ received' \in [Task -> SUBSET Task]
<1>1. /\ sub_list' = <<>> /\ DOMAIN <<>> = {} /\ Members(<<>>) = {}
  BY MembersType, OrderingAssumption DEF Forget_List
<1>2. tried' = {} /\ \A task \in Task : received'[task] = {}
  BY DEF Forget_Results, DatabaseInv, AttemptInv
<1>3. tried' \in SUBSET Task /\ received' \in [Task -> SUBSET Task]
  BY DEF Forget_Results, DatabaseInv, TypeOK, ExecutionTypeOK
<1>4. { sub_list'[i] : i \in { j \in DOMAIN sub_list' : calls'[j] # "raises" } } = {}
  BY <1>1
<1> QED BY <1>1, <1>2, <1>3, <1>4 DEF AttemptInv

(* What a list leaves in the transaction when it has succeeded: all of it. *)
LEMMA SuccessfulTransaction ==
  ASSUME DatabaseInv, result = "SUCCESS"
  PROVE  sub_list # <<>> /\ transaction = Members(sub_list)
<1>1. sub_list # <<>> /\ \A i \in DOMAIN calls : calls[i] # "raises"
  BY SuccessfulList DEF DatabaseInv
<1>2. DOMAIN calls = DOMAIN sub_list
  BY <1>1 DEF DatabaseInv, ListInv, ExecutionTypeOK, CallsInv
<1>3. transaction = { sub_list[i] : i \in { j \in DOMAIN sub_list : calls[j] # "raises" } }
  BY DEF DatabaseInv, AttemptInv
<1> QED BY <1>1, <1>2, <1>3 DEF Members

(* The lists that are left when the first is done.                         *)
LEMMA FirstListDone ==
  ASSUME DatabaseInv, sub_list # <<>>
  PROVE  /\ Tail(work) \in Seq(Seq(Task) \ {<<>>}) /\ Apart(Tail(work))
         /\ AllOf(Tail(work)) = Working \ Members(sub_list)
<1>1. work \in Seq(Seq(Task) \ {<<>>}) /\ Apart(work) /\ work # <<>> /\ sub_list = work[1]
  BY Places DEF DatabaseInv, TypeOK, BatchTypeOK, BatchInv
<1> QED BY <1>1, ApartTail DEF Working

(* A list has succeeded.                                                   *)
LEMMA ProcessSuccessInv ==
  ASSUME DatabaseInv, Process_Success, UNCHANGED <<processVars, InputParameterBatchSize>>
  PROVE  DatabaseInv'
<1>1. /\ result = "SUCCESS" /\ connection = "CONNECTED" /\ transaction' = {}
      /\ connection' \in {"CONNECTED", "FATAL_ERROR"}
      /\ committed' \in {committed, committed \cup transaction}
      /\ connection' = "CONNECTED" => committed' = committed \cup transaction
      /\ Statements' = [Statements EXCEPT ![executing] = "READY"]
      /\ successful_tasks' = successful_tasks \cup Members(sub_list)
      /\ work' = Tail(work)
      /\ Forget_Results(Members(sub_list)) /\ Forget_List
      /\ UNCHANGED <<PendingTasks, executing, failed_tasks, processVars, InputParameterBatchSize>>
  BY DEF Process_Success, End_Transaction, Return_To_Ready
<1>2. /\ sub_list # <<>> /\ transaction = Members(sub_list)
      /\ Members(sub_list) \subseteq Working /\ Working \subseteq Task /\ executing \in Text
  BY <1>1, SuccessfulTransaction, Places
<1>3. /\ Tail(work) \in Seq(Seq(Task) \ {<<>>}) /\ Apart(Tail(work))
      /\ AllOf(Tail(work)) = Working \ Members(sub_list)
  BY <1>2, FirstListDone
<1>4. AttemptInv' /\ tried' \in SUBSET Task /\ received' \in [Task -> SUBSET Task]
  BY <1>1, AttemptForgotten
<1>5. /\ sub_list' = <<>> /\ calls' = <<>> /\ stream' = <<>> /\ CurrentResultSet' = 0
      /\ result' = "none" /\ first_failed_task' = 0
  BY <1>1 DEF Forget_List
<1>6. ExecutionTypeOK'
  BY <1>1, <1>2, <1>4, <1>5 DEF DatabaseInv, TypeOK, ExecutionTypeOK, StatementStates
<1>7. TypeOK'
  BY <1>1, <1>2, <1>3, <1>6 DEF DatabaseInv, TypeOK, BatchTypeOK, processVars
<1>8. ListInv'
  BY <1>1, <1>6, ListForgotten
<1>9. Working' = Working \ Members(sub_list) /\ Apart(work)'
  BY <1>1, <1>3 DEF Working, AllOf, Apart
<1>10. BatchInv'
  BY <1>1, <1>2, <1>5, <1>9, NoTextAssumption DEF DatabaseInv, BatchInv
<1>11. StatementReady'
  BY <1>1, <1>2 DEF DatabaseInv, StatementReady, TypeOK, ExecutionTypeOK
<1>12. PlacesInv'
  <2>1. Pending' = Pending /\ asked' = asked /\ UNCHANGED <<mailbox, PendingRequests, answer>>
    BY <1>1 DEF Pending, asked, processVars
  <2>2. committed' \subseteq committed \cup Members(sub_list)
    BY <1>1, <1>2
  <2>3. Connected' => Connected /\ committed' = committed \cup Members(sub_list)
    BY <1>1, <1>2 DEF Connected
  <2>4. Members(sub_list) \subseteq asked
    BY <1>2 DEF DatabaseInv, PlacesInv, asked
  <2> QED BY <1>1, <1>2, <1>9, <2>1, <2>2, <2>3, <2>4 DEF DatabaseInv, PlacesInv
<1> QED BY <1>4, <1>7, <1>8, <1>10, <1>11, <1>12 DEF DatabaseInv

(* The lists to be executed when the first has failed, and the tasks that  *)
(* are in none of them any more.                                           *)
FailedWork(bad) ==
  /\ bad \subseteq Members(sub_list)
  /\ failed_tasks' = failed_tasks \cup bad
  /\ work' \in Seq(Seq(Task) \ {<<>>}) /\ Apart(work') /\ AllOf(work') = Working \ bad
  /\ Forget_Results(Members(sub_list))

(* Lists of tasks of the first list are put before those that are left.    *)
LEMMA MoreLists ==
  ASSUME DatabaseInv, sub_list # <<>>, NEW lists \in Seq(Seq(Task) \ {<<>>}),
         Apart(lists), AllOf(lists) \subseteq Members(sub_list)
  PROVE  /\ lists \o Tail(work) \in Seq(Seq(Task) \ {<<>>})
         /\ Apart(lists \o Tail(work))
         /\ AllOf(lists \o Tail(work)) = AllOf(lists) \cup (Working \ Members(sub_list))
<1> DEFINE rest == Tail(work)
           S    == Seq(Task) \ {<<>>}
<1>1. rest \in Seq(S) /\ Apart(rest) /\ AllOf(rest) = Working \ Members(sub_list)
  BY FirstListDone
<1>2. lists \in Seq(S) /\ AllOf(lists) \cap AllOf(rest) = {}
  BY <1>1
<1> HIDE DEF rest, S
<1>3. lists \o rest \in Seq(S) /\ Apart(lists \o rest) /\ AllOf(lists \o rest) = AllOf(lists) \cup AllOf(rest)
  BY <1>1, <1>2, ApartConcat
<1> QED BY <1>1, <1>3 DEF rest, S

(* Only the task to blame is given up, if there is one.                    *)
LEMMA FailedList ==
  ASSUME DatabaseInv, Process_Failure
  PROVE  sub_list # <<>> /\ \E bad \in SUBSET Task : FailedWork(bad)
<1>1. sub_list # <<>>
  BY DEF Process_Failure, DatabaseInv, ListInv, NoListInv
<1>2. sub_list \in Seq(Task) /\ Distinct(sub_list) /\ Members(sub_list) \subseteq Working /\ Members(sub_list) \subseteq Task
  BY <1>1, Places DEF DatabaseInv, TypeOK, ExecutionTypeOK
<1>3. /\ Tail(work) \in Seq(Seq(Task) \ {<<>>}) /\ Apart(Tail(work))
      /\ AllOf(Tail(work)) = Working \ Members(sub_list)
  BY <1>1, FirstListDone
<1>4. CASE result = "FAILED_SPECIFIC_TASK"
  <2> DEFINE bad  == {sub_list[first_failed_task]}
             rest == RemoveAt(sub_list, first_failed_task)
  <2>1. /\ first_failed_task \in DOMAIN sub_list
        /\ Forget_Results((Members(sub_list) \ bad) \cup bad)
        /\ failed_tasks' = failed_tasks \cup bad
        /\ work' = IF rest = <<>> THEN Tail(work) ELSE <<rest>> \o Tail(work)
    BY <1>4 DEF Process_Failure, Rolled_Back, DatabaseInv, ListInv, ResultInv
  <2>2. rest \in Seq(Task) /\ Members(rest) = Members(sub_list) \ bad /\ Distinct(rest)
    <3>1. first_failed_task \in 1 .. Len(sub_list)
      BY <2>1, <1>2
    <3> QED BY <3>1, <1>2, MembersRemoveAt
  <2>3. bad \subseteq Members(sub_list)
    BY <2>1 DEF Members
  <2> HIDE DEF bad, rest
  <2>4. (Members(sub_list) \ bad) \cup bad = Members(sub_list)
    BY <2>3
  <2>5. CASE rest = <<>>
    <3>1. Members(sub_list) = bad
      BY <2>2, <2>3, <2>5, MembersType
    <3> QED BY <1>1, <1>2, <1>3, <2>1, <2>3, <2>4, <2>5, <3>1 DEF FailedWork
  <2>6. CASE rest # <<>>
    <3>1. <<rest>> \in Seq(Seq(Task) \ {<<>>}) /\ Apart(<<rest>>) /\ AllOf(<<rest>>) = Members(rest)
      BY <2>2, <2>6, ApartOne
    <3> DEFINE lists == <<rest>>
    <3> HIDE DEF lists
    <3>2. lists \in Seq(Seq(Task) \ {<<>>}) /\ Apart(lists) /\ AllOf(lists) \subseteq Members(sub_list)
      BY <3>1, <2>2 DEF lists
    <3>3. /\ lists \o Tail(work) \in Seq(Seq(Task) \ {<<>>}) /\ Apart(lists \o Tail(work))
          /\ AllOf(lists \o Tail(work)) = AllOf(lists) \cup (Working \ Members(sub_list))
      BY <1>1, <3>2, MoreLists
    <3>4. AllOf(lists) = Members(sub_list) \ bad
      BY <3>1, <2>2 DEF lists
    <3>5. AllOf(lists \o Tail(work)) = Working \ bad
      BY <3>3, <3>4, <1>2, <2>3
    <3>6. work' = lists \o Tail(work)
      BY <2>1, <2>6 DEF lists
    <3>7. FailedWork(bad)
      BY <2>1, <2>3, <2>4, <3>3, <3>5, <3>6 DEF FailedWork
    <3> QED BY <1>1, <1>2, <2>3, <3>7
  <2> QED BY <2>5, <2>6
<1>5. CASE result # "FAILED_SPECIFIC_TASK"
  <2>1. /\ Forget_Results((Members(sub_list) \ {}) \cup {})
        /\ work' = Singles(sub_list) \o Tail(work)
        /\ failed_tasks' = failed_tasks
    BY <1>5 DEF Process_Failure, Rolled_Back
  <2>2. /\ Singles(sub_list) \in Seq(Seq(Task) \ {<<>>}) /\ Apart(Singles(sub_list))
        /\ AllOf(Singles(sub_list)) = Members(sub_list)
    BY <1>2, ApartSingles
  <2> DEFINE lists == Singles(sub_list)
  <2> HIDE DEF lists
  <2>3. lists \in Seq(Seq(Task) \ {<<>>}) /\ Apart(lists) /\ AllOf(lists) = Members(sub_list)
    BY <2>2 DEF lists
  <2>4. /\ lists \o Tail(work) \in Seq(Seq(Task) \ {<<>>}) /\ Apart(lists \o Tail(work))
        /\ AllOf(lists \o Tail(work)) = AllOf(lists) \cup (Working \ Members(sub_list))
    BY <1>1, <2>3, MoreLists
  <2>5. AllOf(lists \o Tail(work)) = Working \ {} /\ work' = lists \o Tail(work)
    BY <2>1, <2>3, <2>4, <1>2 DEF lists
  <2>6. (Members(sub_list) \ {}) \cup {} = Members(sub_list)
    OBVIOUS
  <2>7. FailedWork({})
    BY <2>1, <2>4, <2>5, <2>6 DEF FailedWork
  <2> QED BY <1>1, <2>7
<1> QED BY <1>4, <1>5

(* A list has failed.                                                      *)
LEMMA ProcessFailureInv ==
  ASSUME DatabaseInv, Process_Failure, UNCHANGED <<processVars, InputParameterBatchSize>>
  PROVE  DatabaseInv'
<1>1. /\ connection = "CONNECTED" /\ transaction' = {} /\ committed' = committed
      /\ connection' \in {"CONNECTED", "FATAL_ERROR"}
      /\ Statements' = [Statements EXCEPT ![executing] = "READY"]
      /\ Forget_List
      /\ UNCHANGED <<PendingTasks, executing, successful_tasks, processVars, InputParameterBatchSize>>
  BY DEF Process_Failure, End_Transaction, Return_To_Ready
<1>2. sub_list # <<>> /\ Members(sub_list) \subseteq Working /\ Working \subseteq Task /\ executing \in Text
  BY FailedList, Places
<1>3. PICK bad \in SUBSET Task : FailedWork(bad)
  BY FailedList
<1>4. /\ bad \subseteq Members(sub_list) /\ failed_tasks' = failed_tasks \cup bad
      /\ work' \in Seq(Seq(Task) \ {<<>>}) /\ Apart(work)' /\ Working' = Working \ bad
      /\ Forget_Results(Members(sub_list))
  BY <1>3 DEF FailedWork, Working, AllOf, Apart
<1>5. AttemptInv' /\ tried' \in SUBSET Task /\ received' \in [Task -> SUBSET Task]
  BY <1>1, <1>4, AttemptForgotten
<1>6. /\ sub_list' = <<>> /\ calls' = <<>> /\ stream' = <<>> /\ CurrentResultSet' = 0
      /\ result' = "none" /\ first_failed_task' = 0
  BY <1>1 DEF Forget_List
<1>7. ExecutionTypeOK'
  BY <1>1, <1>2, <1>5, <1>6 DEF DatabaseInv, TypeOK, ExecutionTypeOK, StatementStates
<1>8. TypeOK'
  BY <1>1, <1>4, <1>7 DEF DatabaseInv, TypeOK, BatchTypeOK, processVars
<1>9. ListInv'
  BY <1>1, <1>7, ListForgotten
<1>10. BatchInv'
  BY <1>1, <1>2, <1>4, <1>6, NoTextAssumption DEF DatabaseInv, BatchInv
<1>11. StatementReady'
  BY <1>1, <1>2 DEF DatabaseInv, StatementReady, TypeOK, ExecutionTypeOK
<1>12. PlacesInv'
  <2>1. Pending' = Pending /\ asked' = asked /\ UNCHANGED <<mailbox, PendingRequests, answer>>
    BY <1>1 DEF Pending, asked, processVars
  <2>2. Connected' => Connected
    BY <1>1 DEF Connected
  <2> QED BY <1>1, <1>2, <1>4, <2>1, <2>2 DEF DatabaseInv, PlacesInv
<1> QED BY <1>5, <1>8, <1>9, <1>10, <1>11, <1>12 DEF DatabaseInv

(* A result set goes to the task whose turn it is.                         *)
LEMMA ReceivedInOrder ==
  ASSUME DatabaseInv, Finish_Result_Set
  PROVE  AttemptInv'
<1> DEFINE text == TextOf[sub_list[1]]
           k    == CurrentResultSet
<1>1. /\ sub_list # <<>> /\ k < Len(sub_list) /\ CurrentResultSet' = k + 1
      /\ received' = IF text \in WithResults
                     THEN [received EXCEPT ![sub_list[k + 1]] = @ \cup {stream[k + 1].task}] ELSE received
      /\ UNCHANGED <<transaction, sub_list, calls, stream, tried>>
  BY DEF Finish_Result_Set, Executing, At
<1>2. /\ sub_list \in Seq(Task) /\ Distinct(sub_list) /\ k \in Nat
      /\ \A i \in DOMAIN sub_list : TextOf[sub_list[i]] = executing
      /\ received \in [Task -> SUBSET Task]
  BY <1>1, Places DEF DatabaseInv, TypeOK, ExecutionTypeOK
<1>3. k + 1 \in DOMAIN sub_list /\ 1 \in DOMAIN sub_list
  BY <1>1, <1>2
<1>4. tried' = Members(sub_list') /\ transaction' = { sub_list'[i] : i \in { j \in DOMAIN sub_list' : calls'[j] # "raises" } }
  BY <1>1 DEF DatabaseInv, AttemptInv
<1>5. CASE text \notin WithResults
  <2>1. received' = received /\ sub_list' = sub_list /\ TextOf[sub_list'[1]] \notin WithResults
    BY <1>1, <1>5
  <2> QED BY <1>4, <2>1 DEF DatabaseInv, AttemptInv
<1>6. CASE text \in WithResults
  <2>1. received' = [received EXCEPT ![sub_list[k + 1]] = @ \cup {stream[k + 1].task}]
    BY <1>1, <1>6
  <2>2. sub_list[k + 1] \in Members(sub_list) /\ sub_list[k + 1] \in Task
    BY <1>2, <1>3 DEF Members
  <2>3. \A task \in Task : task \notin Members(sub_list) => received'[task] = {}
    BY <1>2, <2>1, <2>2 DEF DatabaseInv, AttemptInv
  <2>4. \A task \in Members(sub_list) : TextOf[task] \in WithResults
    BY <1>2, <1>3, <1>6 DEF Members
  <2>5. \A i \in DOMAIN sub_list : received[sub_list[i]] = IF i <= k THEN {stream[i].task} ELSE {}
    BY <1>1, <1>6 DEF DatabaseInv, AttemptInv
  <2>6. ASSUME NEW i \in DOMAIN sub_list
        PROVE  received'[sub_list[i]] = IF i <= k + 1 THEN {stream[i].task} ELSE {}
    <3>1. i \in Nat /\ sub_list[i] \in Task
      BY <1>2
    <3>2. CASE i = k + 1
      <4>1. ~(k + 1 <= k) /\ k + 1 <= k + 1
        BY <1>2
      <4>2. received[sub_list[k + 1]] = {}
        BY <1>3, <2>5, <4>1
      <4> QED BY <1>2, <2>1, <2>2, <3>2, <4>1, <4>2
    <3>3. CASE i # k + 1
      <4>1. i <= k + 1 <=> i <= k
        BY <1>2, <3>1, <3>3
      <4>2. sub_list[i] # sub_list[k + 1]
        BY <1>2, <1>3, <3>3 DEF Distinct
      <4>3. received'[sub_list[i]] = received[sub_list[i]]
        BY <1>2, <2>1, <3>1, <4>2
      <4> QED BY <2>5, <4>1, <4>3
    <3> QED BY <3>2, <3>3
  <2>7. \A i \in DOMAIN sub_list' : received'[sub_list'[i]] = IF i <= CurrentResultSet' THEN {stream'[i].task} ELSE {}
    BY <1>1, <2>6
  <2>8. \A task \in Task : task \notin Members(sub_list') \/ TextOf[task] \notin WithResults => received'[task] = {}
    BY <1>1, <2>3, <2>4
  <2> QED BY <1>4, <2>7, <2>8 DEF AttemptInv
<1> QED BY <1>5, <1>6

(* A result set is fetched.                                                *)
LEMMA FetchResultsInv ==
  ASSUME DatabaseInv, Fetch_Results, UNCHANGED <<batchVars, processVars, InputParameterBatchSize>>
  PROVE  DatabaseInv'
<1>1. /\ sub_list # <<>>
      /\ UNCHANGED <<connection, transaction, committed, sub_list, calls, stream, tried>>
      /\ \/ Statements' = Statements
         \/ \E state \in StatementStates : Statements' = [Statements EXCEPT ![TextOf[sub_list[1]]] = state]
      /\ Finish_Result_Set \/ UNCHANGED <<CurrentResultSet, received>>
  BY DEF Fetch_Results, More_Result_Sets, Bad_Result_Set, Finish_Result_Set, Fails, Executing, StatementStates
<1>2. executing \in Text /\ TextOf[sub_list[1]] = executing
  <2>1. 1 \in DOMAIN sub_list
    BY <1>1 DEF DatabaseInv, TypeOK, ExecutionTypeOK
  <2> QED BY <1>1, <2>1, Places
<1>3. ListInv'
  BY ListFetch DEF DatabaseInv
<1>4. TypeOK'
  BY <1>3 DEF DatabaseInv, ListInv, TypeOK, BatchTypeOK, batchVars, processVars
<1>5. BatchInv' /\ PlacesInv'
  BY <1>1, Unchanged DEF batchVars, processVars
<1>6. AttemptInv'
  BY <1>1, ReceivedInOrder, Unchanged
<1>7. StatementReady'
  BY <1>1, <1>2 DEF DatabaseInv, StatementReady, TypeOK, ExecutionTypeOK, batchVars
<1> QED BY <1>3, <1>4, <1>5, <1>6, <1>7 DEF DatabaseInv

(* A batch ends.                                                           *)
LEMMA TasksExecutedInv ==
  ASSUME DatabaseInv, Tasks_Executed, UNCHANGED <<processVars, InputParameterBatchSize>>
  PROVE  DatabaseInv'
<1>1. /\ executing \in Text /\ work = <<>> /\ Statements[executing] = "READY" /\ executing' = NoText
      /\ \/ Statements' = Statements
         \/ Statements' = [Statements EXCEPT ![executing] = "none"]
      /\ UNCHANGED <<connection, transaction, committed, sub_list, calls, stream, CurrentResultSet,
                     result, first_failed_task, tried, received>>
      /\ UNCHANGED <<PendingTasks, work, successful_tasks, failed_tasks, processVars, InputParameterBatchSize>>
  BY DEF Tasks_Executed, Release_Statement, DatabaseInv, TypeOK, BatchTypeOK
<1>2. TypeOK'
  BY <1>1 DEF DatabaseInv, TypeOK, ExecutionTypeOK, BatchTypeOK, processVars
<1>3. ListInv'
  BY <1>1, <1>2, ListUnchanged DEF DatabaseInv, TypeOK, listVars
<1>4. sub_list = <<>>
  BY <1>1 DEF DatabaseInv, BatchInv
<1>5. BatchInv'
  <2>1. Working' = {} /\ Apart(work)'
    BY <1>1, Places DEF Working, AllOf, DatabaseInv, BatchInv, Apart
  <2> QED BY <2>1, <1>1, <1>4 DEF DatabaseInv, BatchInv
<1>6. AttemptInv' /\ PlacesInv'
  BY <1>1, Unchanged DEF processVars
<1>7. StatementReady'
  BY <1>1, <1>4 DEF DatabaseInv, StatementReady, TypeOK, ExecutionTypeOK
<1> QED BY <1>2, <1>3, <1>5, <1>6, <1>7 DEF DatabaseInv

(* The requesters are answered.                                            *)
LEMMA AnswerRequestsInv ==
  ASSUME DatabaseInv, Answer_Requests, UNCHANGED InputParameterBatchSize
  PROVE  DatabaseInv'
<1> DEFINE done == successful_tasks \cup failed_tasks
<1>1. /\ executing = NoText /\ done \subseteq PendingRequests
      /\ answer' = [task \in Task |-> IF task \in successful_tasks THEN "success"
                                      ELSE IF task \in failed_tasks THEN "failure" ELSE answer[task]]
      /\ PendingRequests' = PendingRequests \ done
      /\ successful_tasks' = {} /\ failed_tasks' = {} /\ next_batch' = 0
      /\ UNCHANGED <<mailbox, executionVars, PendingTasks, executing, work, InputParameterBatchSize>>
  BY DEF Answer_Requests
<1>2. TypeOK'
  <2>1. next_batch' \in 0 .. Len(BatchOrdering) + 1
    BY <1>1, OrderingAssumption
  <2>2. answer' \in [Task -> {"none", "success", "failure"}]
    BY <1>1 DEF DatabaseInv, TypeOK
  <2> QED BY <1>1, <2>1, <2>2 DEF DatabaseInv, TypeOK, ExecutionTypeOK, BatchTypeOK, executionVars
<1>3. ListInv'
  BY <1>1, <1>2, ListUnchanged DEF DatabaseInv, TypeOK, executionVars, listVars
<1>4. BatchInv' /\ AttemptInv' /\ StatementReady'
  BY <1>1, Unchanged DEF executionVars
<1>5. PlacesInv'
  <2>1. Pending' = Pending /\ Working' = Working /\ UNCHANGED <<committed, connection>>
    BY <1>1 DEF Pending, Working, AllOf, executionVars
  <2>2. mailbox \subseteq Task /\ PendingRequests \subseteq Task
    BY DEF DatabaseInv, TypeOK
  <2>3. \A task \in Task : answer'[task] # "none" <=> answer[task] # "none" \/ task \in done
    BY <1>1
  <2>4. asked' = asked
    BY <1>1, <2>2, <2>3 DEF asked
  <2>5. mailbox \cap done = {} /\ (Pending \cup Working) \cap done = {}
    BY <1>1 DEF DatabaseInv, PlacesInv
  <2>6. \A task \in mailbox' \cup PendingRequests' : answer'[task] = "none"
    BY <1>1, <2>2, <2>3, <2>5 DEF DatabaseInv, PlacesInv
  <2> HIDE DEF done
  <2>7. Pending \cup Working \subseteq PendingRequests
    BY DEF DatabaseInv, PlacesInv
  <2> QED BY <1>1, <2>1, <2>4, <2>5, <2>6, <2>7 DEF DatabaseInv, PlacesInv, Connected
<1> QED BY <1>2, <1>3, <1>4, <1>5 DEF DatabaseInv

(* Whatever a database process does, it stays in the invariant.            *)
LEMMA StepInv == DatabaseInv /\ [Next]_vars => DatabaseInv'
<1> SUFFICES ASSUME DatabaseInv, [Next]_vars PROVE DatabaseInv'
  OBVIOUS
<1>1. CASE Process_Step
  <2>0. UNCHANGED InputParameterBatchSize
    BY <1>1 DEF Process_Step
  <2>1. CASE Service_Message_Frames
    BY <2>0, <2>1, ServiceMessageFramesInv
  <2>2. CASE Next_Batch
    <3>1. /\ next_batch \in DOMAIN BatchOrdering /\ next_batch' = next_batch + 1
          /\ UNCHANGED <<mailbox, PendingRequests, answer>>
      BY <2>2 DEF Next_Batch
    <3>2. CASE Skip_Batch
      BY <2>0, <3>1, <3>2, SkipBatchInv
    <3>3. ASSUME NEW text \in Text, Execute_Tasks(text) PROVE DatabaseInv'
      BY <2>0, <3>1, <3>3, ExecuteTasksInv
    <3> QED BY <2>2, <3>2, <3>3 DEF Next_Batch
  <2>3. CASE Batch_Step /\ UNCHANGED processVars
    <3>1. CASE Splice_Sub_List
      BY <2>0, <2>3, <3>1, SpliceSubListInv
    <3>2. CASE Execute_Task_List
      BY <2>0, <2>3, <3>2, ExecuteTaskListInv
    <3>3. CASE Process_Success
      BY <2>0, <2>3, <3>3, ProcessSuccessInv
    <3>4. CASE Process_Failure
      BY <2>0, <2>3, <3>4, ProcessFailureInv
    <3>5. CASE Fetch_Results /\ UNCHANGED batchVars
      BY <2>0, <2>3, <3>5, FetchResultsInv
    <3>6. CASE Tasks_Executed
      BY <2>0, <2>3, <3>6, TasksExecutedInv
    <3> QED BY <2>3, <3>1, <3>2, <3>3, <3>4, <3>5, <3>6 DEF Batch_Step, Process_Task_List
  <2>4. CASE Answer_Requests
    BY <2>0, <2>4, AnswerRequestsInv
  <2> QED BY <1>1, <2>1, <2>2, <2>3, <2>4 DEF Process_Step
<1>2. ASSUME NEW task \in Task, Send_Request(task) PROVE DatabaseInv'
  BY <1>2, SendRequestInv
<1>3. CASE UNCHANGED vars
  <2>1. UNCHANGED <<InputParameterBatchSize, executionVars, batchVars, processVars>>
    BY <1>3 DEF vars
  <2>2. TypeOK'
    BY <2>1 DEF DatabaseInv, TypeOK, ExecutionTypeOK, BatchTypeOK, executionVars, batchVars, processVars
  <2>3. ListInv'
    BY <2>1, <2>2, ListUnchanged DEF DatabaseInv, TypeOK, executionVars, listVars
  <2>4. BatchInv' /\ AttemptInv' /\ PlacesInv' /\ StatementReady'
    BY <2>1, Unchanged DEF executionVars, batchVars, processVars
  <2> QED BY <2>2, <2>3, <2>4 DEF DatabaseInv
<1> QED BY <1>1, <1>2, <1>3 DEF Next

(* The invariant always holds.                                             *)
THEOREM Invariant == Spec => []DatabaseInv
BY InitInv, StepInv, PTL DEF Spec

-----------------------------------------------------------------------------
(* What follows from the invariant.                                        *)

(* Every variable of the process keeps its type.                           *)
THEOREM TypeCorrect == Spec => []TypeOK
<1>1. DatabaseInv => TypeOK
  BY DEF DatabaseInv
<1> QED BY <1>1, Invariant, PTL

(* No effect of a task that has been committed is ever in a transaction    *)
(* again, however often its list has been tried.                           *)
THEOREM TasksAppliedOnce == Spec => []AppliedOnce
<1>1. DatabaseInv => AppliedOnce
  <2> SUFFICES ASSUME DatabaseInv PROVE committed \cap transaction = {}
    BY DEF AppliedOnce
  <2>1. transaction \subseteq Members(sub_list)
    BY DEF DatabaseInv, AttemptInv, Members
  <2>2. CASE sub_list = <<>>
    BY <2>2, NoAttempt
  <2>3. CASE sub_list # <<>>
    <3>1. Members(sub_list) \subseteq Working
      BY <2>3, Places
    <3>2. committed \cap Working = {}
      BY DEF DatabaseInv, PlacesInv
    <3> QED BY <2>1, <3>1, <3>2
  <2> QED BY <2>2, <2>3
<1> QED BY <1>1, Invariant, PTL

(* A task is only blamed for an error when its own call went wrong, or a   *)
(* call of its list did not select exactly once.                           *)
THEOREM NoInnocentFails == Spec => []OnlyFaultyFail
<1>1. DatabaseInv => OnlyFaultyFail
  BY DEF DatabaseInv, ListInv, ResultInv, OnlyFaultyFail
<1> QED BY <1>1, Invariant, PTL

(* The tasks of a list that has succeeded have their own results and       *)
(* nobody else's.                                                          *)
THEOREM OwnResults == Spec => []ResultsAreOwn
<1>1. ASSUME DatabaseInv, result = "SUCCESS", ~(Some_Call("missing") /\ Some_Call("extra")),
             NEW task \in Members(sub_list)
      PROVE  received[task] = IF TextOf[task] \in WithResults THEN {task} ELSE {}
  <2>1. /\ sub_list # <<>>
        /\ TextOf[sub_list[1]] \in WithResults =>
             CurrentResultSet = Len(sub_list) /\ Matched(sub_list, calls, stream)
    BY <1>1, SuccessfulList DEF DatabaseInv
  <2>2. /\ sub_list \in Seq(Task) /\ \A i \in DOMAIN sub_list : TextOf[sub_list[i]] = executing
        /\ 1 \in DOMAIN sub_list
    BY <1>1, <2>1, Places DEF DatabaseInv, TypeOK, ExecutionTypeOK
  <2>3. PICK i \in DOMAIN sub_list : task = sub_list[i]
    BY <1>1 DEF Members
  <2>4. task \in Task /\ TextOf[task] = TextOf[sub_list[1]] /\ i \in 1 .. Len(sub_list)
    BY <2>2, <2>3
  <2>5. CASE TextOf[task] \in WithResults
    <3>1. received[task] = IF i <= CurrentResultSet THEN {stream[i].task} ELSE {}
      BY <1>1, <2>1, <2>3, <2>4, <2>5 DEF DatabaseInv, AttemptInv
    <3>2. CurrentResultSet = Len(sub_list) /\ stream[i].task = task
      <4>1. CurrentResultSet = Len(sub_list) /\ Matched(sub_list, calls, stream)
        BY <2>1, <2>4, <2>5
      <4>2. stream[i] = [task |-> sub_list[i], kind |-> Kinds[calls[i]][1]]
        BY <2>4, <4>1 DEF Matched
      <4> QED BY <2>3, <4>1, <4>2
    <3>3. i <= CurrentResultSet
      BY <2>2, <2>4, <3>2
    <3> QED BY <2>5, <3>1, <3>2, <3>3
  <2>6. CASE TextOf[task] \notin WithResults
    BY <1>1, <2>4, <2>6 DEF DatabaseInv, AttemptInv
  <2> QED BY <2>5, <2>6
<1>2. DatabaseInv => ResultsAreOwn
  BY <1>1 DEF ResultsAreOwn
<1> QED BY <1>2, Invariant, PTL

(* A task is rolled back, and so forgets what it was given, before it is   *)
(* executed again.                                                         *)
THEOREM RolledBack == Spec => []RolledBackBeforeRetry
<1>1. DatabaseInv => RolledBackBeforeRetry
  BY NoAttempt DEF RolledBackBeforeRetry
<1> QED BY <1>1, Invariant, PTL

(* The statement of a batch can be allocated whenever it is needed.        *)
THEOREM StatementsReady == Spec => []StatementReady
<1>1. DatabaseInv => StatementReady
  BY DEF DatabaseInv
<1> QED BY <1>1, Invariant, PTL

-----------------------------------------------------------------------------
(* The process implements DatabaseService: its initial state is one of the *)
(* service, and each of its steps is one of the service or changes nothing *)
(* that the service speaks of.                                             *)

(* A request that is being worked on has been sent and not been answered.  *)
LEMMA WorkUnanswered ==
  ASSUME DatabaseInv
  PROVE  PendingRequests \subseteq Service!Unanswered
BY DEF DatabaseInv, TypeOK, PlacesInv, Service!Unanswered, asked

(* The end of a transaction applies the requests of its list, all or none. *)
LEMMA EndOfTransaction ==
  ASSUME DatabaseInv, Process_Success \/ Process_Failure, UNCHANGED processVars
  PROVE  Service!Apply
<1>1. UNCHANGED <<mailbox, PendingRequests, answer>> /\ asked' = asked
  BY DEF processVars, asked
<1>2. Connected /\ (~Connected)' \in {~Connected, TRUE}
  BY DEF Process_Success, Process_Failure, End_Transaction, Connected
<1>3. \E tasks \in SUBSET (Service!Unanswered \ committed) : committed' = committed \cup tasks
  <2>1. CASE Process_Failure
    <3>1. committed' = committed \cup {}
      BY <2>1 DEF Process_Failure, End_Transaction
    <3> QED BY <3>1
  <2>2. CASE Process_Success
    <3>1. committed' = committed \/ committed' = committed \cup transaction
      BY <2>2 DEF Process_Success, End_Transaction
    <3>2. transaction = Members(sub_list) /\ Members(sub_list) \subseteq Working
      BY <2>2, SuccessfulTransaction, Places DEF Process_Success
    <3>3. Working \subseteq PendingRequests /\ committed \cap Working = {}
      BY DEF DatabaseInv, PlacesInv
    <3>4. transaction \in SUBSET (Service!Unanswered \ committed) /\ {} \in SUBSET (Service!Unanswered \ committed)
      BY <3>2, <3>3, WorkUnanswered
    <3>5. CASE committed' = committed
      <4>1. committed' = committed \cup {}
        BY <3>5
      <4> QED BY <3>4, <4>1
    <3>6. CASE committed' = committed \cup transaction
      BY <3>4, <3>6
    <3> QED BY <3>1, <3>5, <3>6
  <2> QED BY <2>1, <2>2
<1> QED BY <1>1, <1>2, <1>3 DEF Service!Apply

(* Answers are true.                                                       *)
LEMMA TrueAnswers ==
  ASSUME DatabaseInv, Answer_Requests
  PROVE  Service!Answer
<1>1. /\ successful_tasks \cup failed_tasks \subseteq PendingRequests
      /\ answer' = [task \in Task |-> IF task \in successful_tasks THEN "success"
                                      ELSE IF task \in failed_tasks THEN "failure" ELSE answer[task]]
      /\ PendingRequests' = PendingRequests \ (successful_tasks \cup failed_tasks)
      /\ UNCHANGED <<mailbox, executionVars>>
  BY DEF Answer_Requests
<1>2. successful_tasks \in SUBSET Service!Unanswered
  BY <1>1, WorkUnanswered
<1>3. failed_tasks \in SUBSET (Service!Unanswered \ (committed \cup successful_tasks))
  BY <1>1, WorkUnanswered DEF DatabaseInv, PlacesInv
<1>4. successful_tasks \subseteq committed \/ ~Connected
  BY DEF DatabaseInv, PlacesInv
<1>5. asked' = asked
  BY <1>1 DEF asked, DatabaseInv, TypeOK
<1>6. committed' = committed /\ (~Connected)' = ~Connected
  BY <1>1 DEF executionVars, Connected
<1> QED BY <1>1, <1>2, <1>3, <1>4, <1>5, <1>6 DEF Service!Answer

(* All other steps of the process are none of the service.                 *)
LEMMA Unseen ==
  ASSUME DatabaseInv,
         \/ Service_Message_Frames
         \/ Next_Batch
         \/ /\ Splice_Sub_List \/ Execute_Task_List \/ Fetch_Results \/ Tasks_Executed
            /\ UNCHANGED processVars
         \/ UNCHANGED vars
  PROVE  UNCHANGED <<asked, committed, answer, ~Connected>>
<1>1. UNCHANGED <<committed, connection>>
  BY DEF Service_Message_Frames, Next_Batch, Skip_Batch, Execute_Tasks, Splice_Sub_List, Execute_Task_List, Execute,
         Fetch_Results, More_Result_Sets, Bad_Result_Set, Finish_Result_Set, Fails, Tasks_Executed, executionVars, vars
<1>2. answer' = answer
  BY DEF Service_Message_Frames, Next_Batch, processVars, vars
<1>3. mailbox' \cup PendingRequests' = mailbox \cup PendingRequests
  BY DEF Service_Message_Frames, Next_Batch, processVars, vars
<1>4. asked' = asked
  BY <1>2, <1>3 DEF asked
<1> QED BY <1>1, <1>2, <1>4 DEF Connected

(* What the process tells its requesters is true: what it commits is       *)
(* committed before the answer, as a whole and never after.                *)
THEOREM Refinement == Spec => ImplementsDatabaseService
<1>1. Init => Service!Init
  BY DEF Init, ExecutionInit, Service!Init, asked, Connected
<1>2. DatabaseInv /\ [Next]_vars => [Service!Next]_Service!serviceVars
  <2> SUFFICES ASSUME DatabaseInv, [Next]_vars PROVE [Service!Next]_Service!serviceVars
    OBVIOUS
  <2>1. ASSUME NEW task \in Task, Send_Request(task) PROVE Service!Ask
    <3>1. asked' = asked \cup {task} /\ task \notin asked
      BY <2>1 DEF Send_Request, asked
    <3>2. UNCHANGED <<committed, answer, ~Connected>>
      BY <2>1 DEF Send_Request, executionVars, Connected
    <3> QED BY <2>1, <3>1, <3>2 DEF Service!Ask
  <2>2. CASE Process_Step /\ (Process_Success \/ Process_Failure) /\ UNCHANGED processVars
    BY <2>2, EndOfTransaction DEF Service!Next
  <2>3. CASE Answer_Requests
    BY <2>3, TrueAnswers DEF Service!Next
  <2>4. CASE \/ Service_Message_Frames
             \/ Next_Batch
             \/ /\ Splice_Sub_List \/ Execute_Task_List \/ Fetch_Results \/ Tasks_Executed
                /\ UNCHANGED processVars
             \/ UNCHANGED vars
    BY <2>4, Unseen DEF Service!serviceVars
  <2> QED BY <2>1, <2>2, <2>3, <2>4 DEF Next, Process_Step, Batch_Step, Process_Task_List, Service!Next
<1> QED BY <1>1, <1>2, Invariant, PTL DEF Spec, ImplementsDatabaseService, Service!Spec

=============================================================================
