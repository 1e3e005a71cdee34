--------------------------- MODULE CompoundTaskBatch ---------------------------
(***************************************************************************)
(* TCompoundDatabaseTaskBatch: compound tasks, the parents, are executed   *)
(* in lists of up to CompoundTaskBatchSize, each in one transaction.  A    *)
(* parent is no more than its children, which it adds when it is seeded or *)
(* when children of an earlier type have succeeded.  The children of all   *)
(* the parents of a list are executed type by type.  A list that fails is  *)
(* tried again, from the seeding on, without the parent to blame, or       *)
(* parent by parent.                                                       *)
(***************************************************************************)
EXTENDS TaskListExecution

CONSTANTS
  Parent,                  \* the compound tasks
  ChildrenOf,              \* ChildrenOf[parent]: its children, in the order in which it adds them
  AddedAfter,              \* AddedAfter[task]: the type whose success adds it, or Seeding
  Seeding,                 \* Seed_Child_Tasks
  ChildOrdering,           \* the types of children, in the order in which they were registered
  ParamRowCount,           \* ParamRowCount[text]: most calls in a list
  CompoundTaskBatchSize,   \* most parents in a list
  NoText                   \* no statement

ASSUME ChildrenAssumption ==
  /\ ChildrenOf \in [Parent -> Seq(Task)]
  /\ \A task \in Task : \E parent \in Parent : task \in Members(ChildrenOf[parent])
  /\ \A p, q \in Parent : p # q => Members(ChildrenOf[p]) \cap Members(ChildrenOf[q]) = {}
  /\ AddedAfter \in [Task -> Text \cup {Seeding}]
ASSUME OrderingAssumption ==       \* a type is not registered twice: FATAL_ASSERT
  /\ ChildOrdering \in Seq(Text) /\ Text = Members(ChildOrdering)
  /\ \A k, l \in DOMAIN ChildOrdering : k # l => ChildOrdering[k] # ChildOrdering[l]
ASSUME SizesAssumption ==
  /\ ParamRowCount \in [Text -> Nat \ {0}]
  /\ CompoundTaskBatchSize \in Nat \ {0}

(* What the batch expects of compound tasks and does not check: they have  *)
(* children, and add a child on the success of children of their own, of a *)
(* type that was registered before the child's.  A child that is added     *)
(* later would never be executed, and nobody would be told.                *)
ASSUME AddedInTimeAssumption ==
  \A parent \in Parent :
    /\ ChildrenOf[parent] # <<>>
    /\ \A task \in Members(ChildrenOf[parent]) :
         \/ AddedAfter[task] = Seeding
         \/ /\ \E k, l \in DOMAIN ChildOrdering :
                 k < l /\ ChildOrdering[k] = AddedAfter[task] /\ ChildOrdering[l] = TextOf[task]
            /\ \E child \in Members(ChildrenOf[parent]) : TextOf[child] = AddedAfter[task]
ASSUME NoneAssumption == NoText \notin Text /\ Seeding \notin Text

VARIABLES
  added,              \* parents that have been added to the batch
  PendingTasks,       \* those that have not been executed
  executing,          \* whether Execute_Tasks runs
  work,               \* the lists of parents that Process_Parent_Task_List has still to execute
  Children,           \* the children that parents have now
  child_type,         \* the place in ChildOrdering of the type being executed, or 0
  statement,          \* the text of the statement in use, or NoText
  child_list,         \* children of the type that have still to be executed
  successful_tasks,   \* the parents in the list
  failed_tasks,
  outcome             \* outcome[parent]: "none", "success" or "failure", read from the lists

batchVars == <<added, PendingTasks, executing, work, Children, child_type, statement, child_list,
               successful_tasks, failed_tasks, outcome>>
vars == <<executionVars, batchVars>>

TypeOK ==
  /\ ExecutionTypeOK
  /\ added \in SUBSET Parent
  /\ PendingTasks \in Seq(Parent)
  /\ executing \in BOOLEAN
  /\ work \in Seq(Seq(Parent) \ {<<>>})
  /\ Children \in SUBSET Task
  /\ child_type \in 0 .. Len(ChildOrdering) + 1
  /\ statement \in Text \cup {NoText}
  /\ child_list \in Seq(Task)
  /\ successful_tasks \in SUBSET Parent
  /\ failed_tasks \in SUBSET Parent
  /\ outcome \in [Parent -> {"none", "success", "failure"}]

Init ==
  /\ ExecutionInit
  /\ added = {} /\ PendingTasks = <<>>
  /\ executing = FALSE /\ work = <<>>
  /\ Children = {}
  /\ child_type = 0 /\ statement = NoText /\ child_list = <<>>
  /\ successful_tasks = {} /\ failed_tasks = {}
  /\ outcome = [parent \in Parent |-> "none"]

Add_Task(parent) ==
  /\ ~executing /\ parent \notin added
  /\ added' = added \cup {parent}
  /\ PendingTasks' = Append(PendingTasks, parent)
  /\ UNCHANGED <<executing, work, Children, child_type, statement, child_list,
                 successful_tasks, failed_tasks, outcome>>
  /\ UNCHANGED executionVars

Execute_Tasks ==
  /\ ~executing /\ PendingTasks # <<>>
  /\ executing' = TRUE
  /\ successful_tasks' = {} /\ failed_tasks' = {}
  /\ UNCHANGED <<added, PendingTasks, work, Children, child_type, statement, child_list, outcome>>
  /\ UNCHANGED executionVars

Splice_Sub_List ==
  LET amount == IF Len(PendingTasks) < CompoundTaskBatchSize THEN Len(PendingTasks)
                ELSE CompoundTaskBatchSize
  IN /\ executing /\ work = <<>> /\ PendingTasks # <<>>
     /\ work' = <<SubSeq(PendingTasks, 1, amount)>>
     /\ PendingTasks' = SubSeq(PendingTasks, amount + 1, Len(PendingTasks))
     /\ UNCHANGED <<added, executing, Children, child_type, statement, child_list,
                    successful_tasks, failed_tasks, outcome>>
     /\ UNCHANGED executionVars

(* Whoever called Execute_Tasks reads the lists.                           *)
Tasks_Executed ==
  /\ executing /\ work = <<>> /\ PendingTasks = <<>>
  /\ executing' = FALSE
  /\ outcome' = [parent \in Parent |-> IF parent \in successful_tasks THEN "success"
                                       ELSE IF parent \in failed_tasks THEN "failure" ELSE outcome[parent]]
  /\ UNCHANGED <<added, PendingTasks, work, Children, child_type, statement, child_list,
                 successful_tasks, failed_tasks>>
  /\ UNCHANGED executionVars

-----------------------------------------------------------------------------
(* Process_Parent_Task_List for the first of the lists.                    *)

Parents == Members(work[1])

(* The children of the parents of a list, one parent after the other.      *)
All_Children(list) == FlattenSeq([i \in DOMAIN list |-> ChildrenOf[list[i]]])

Get_Child_Tasks_Of_Type(text) ==
  Sublist(All_Children(work[1]), { task \in Children : TextOf[task] = text })

Added_After(when) == { task \in Members(All_Children(work[1])) : AddedAfter[task] = when }

(* Every attempt has children of its own.                                  *)
Seed_Child_Tasks ==
  LET old == Members(All_Children(work[1]))
  IN /\ work # <<>> /\ child_type = 0
     /\ Children' = (Children \ old) \cup Added_After(Seeding)
     /\ child_type' = 1
     /\ Forget_Results(old)
     /\ UNCHANGED <<added, PendingTasks, executing, work, statement, child_list,
                    successful_tasks, failed_tasks, outcome>>
     /\ UNCHANGED <<connection, Statements, transaction, committed, sub_list, calls, stream,
                    CurrentResultSet, result, first_failed_task>>

(* A type of which there are no children is passed over.                   *)
Next_Child_Type ==
  LET text == ChildOrdering[child_type]
      list == Get_Child_Tasks_Of_Type(text)
  IN /\ child_type \in DOMAIN ChildOrdering /\ statement = NoText
     /\ IF list = <<>>
        THEN /\ child_type' = child_type + 1
             /\ UNCHANGED <<statement, child_list, Statements>>
        ELSE /\ Allocate_Statement(text)
             /\ statement' = text
             /\ child_list' = list
             /\ UNCHANGED child_type
     /\ UNCHANGED <<added, PendingTasks, executing, work, Children, successful_tasks, failed_tasks, outcome>>
     /\ UNCHANGED <<connection, transaction, committed, sub_list, calls, stream, CurrentResultSet,
                    result, first_failed_task, tried, received>>

Execute_Child_Sub_List ==
  LET amount == IF Len(child_list) < ParamRowCount[statement] THEN Len(child_list)
                ELSE ParamRowCount[statement]
  IN /\ statement # NoText /\ child_list # <<>>
     /\ Execute(SubSeq(child_list, 1, amount))
     /\ child_list' = SubSeq(child_list, amount + 1, Len(child_list))
     /\ UNCHANGED <<added, PendingTasks, executing, work, Children, child_type, statement,
                    successful_tasks, failed_tasks, outcome>>

Child_Sub_List_Success ==
  /\ result = "SUCCESS"
  /\ Forget_List
  /\ UNCHANGED batchVars
  /\ UNCHANGED <<connection, Statements, transaction, committed, tried, received>>

(* Mutant of the next: the children fit in one list.                       *)
Sub_List_Executed == sub_list = <<>>

Children_Executed == child_list = <<>> /\ sub_list = <<>>

On_Child_Task_Success ==
  /\ statement # NoText /\ Children_Executed
  /\ Statements[statement] = "READY"                           \* FATAL_ASSERT
  /\ Release_Statement(statement)
  /\ Children' = Children \cup Added_After(statement)
  /\ child_type' = child_type + 1
  /\ statement' = NoText
  /\ UNCHANGED <<added, PendingTasks, executing, work, child_list, successful_tasks, failed_tasks, outcome>>
  /\ UNCHANGED <<connection, transaction, committed, sub_list, calls, stream, CurrentResultSet,
                 result, first_failed_task, tried, received>>

Parent_List_Success ==
  /\ child_type = Len(ChildOrdering) + 1
  /\ End_Transaction(TRUE)
  /\ successful_tasks' = successful_tasks \cup Parents
  /\ work' = Tail(work)
  /\ child_type' = 0
  /\ UNCHANGED <<added, PendingTasks, executing, Children, statement, child_list, failed_tasks, outcome>>
  /\ UNCHANGED <<Statements, sub_list, calls, stream, CurrentResultSet, result, first_failed_task, tried, received>>

(* A child carries the ID of its parent.                                   *)
Get_ID(task) == CHOOSE parent \in Parent : task \in Members(ChildrenOf[parent])

(* Mutant of the next: a list of one parent is like any other.             *)
Bad_Parents_By_ID ==
  IF result = "FAILED_SPECIFIC_TASK" THEN {Get_ID(sub_list[first_failed_task])} ELSE {}

(* The parents to blame: the one parent of the list, or that of the child. *)
Bad_Parents ==
  IF Cardinality(Parents) = 1 THEN Parents
  ELSE IF result = "FAILED_SPECIFIC_TASK" THEN {Get_ID(sub_list[first_failed_task])} ELSE {}

(* Process_Child_Task_List returns at once, and keeps its statement.       *)
Parent_List_Failure ==
  LET rest == Sublist(work[1], Parents \ Bad_Parents)
  IN /\ result \in {"FAILED_SPECIFIC_TASK", "FAILED_UNKNOWN_TASK"}
     /\ End_Transaction(FALSE)
     /\ failed_tasks' = failed_tasks \cup Bad_Parents
     /\ work' = (IF Bad_Parents = {} THEN Singles(work[1]) ELSE IF rest = <<>> THEN <<>> ELSE <<rest>>)
                \o Tail(work)
     /\ child_type' = 0 /\ statement' = NoText /\ child_list' = <<>>
     /\ Forget_List
     /\ UNCHANGED <<added, PendingTasks, executing, Children, successful_tasks, outcome>>
     /\ UNCHANGED <<Statements, tried, received>>

Batch_Step ==
  \/ Execute_Tasks
  \/ Splice_Sub_List
  \/ Seed_Child_Tasks
  \/ Next_Child_Type
  \/ Execute_Child_Sub_List
  \/ Fetch_Results /\ UNCHANGED batchVars
  \/ Child_Sub_List_Success
  \/ On_Child_Task_Success
  \/ Parent_List_Success
  \/ Parent_List_Failure
  \/ Tasks_Executed

Next == Batch_Step \/ \E parent \in Parent : Add_Task(parent)

Spec     == Init /\ [][Next]_vars
FairSpec == Spec /\ WF_vars(Batch_Step)

-----------------------------------------------------------------------------

Committed(parent) == Members(ChildrenOf[parent]) \cap committed

(* A parent is an atomic request: it is told to have succeeded when it was *)
(* committed, to have failed when it was not, and nothing is committed of  *)
(* it after its outcome.                                                   *)
Service == INSTANCE DatabaseService
             WITH Request <- Parent, asked <- added, answer <- outcome, broken <- ~Connected,
                  applied <- { parent \in Parent : Committed(parent) # {} }
ImplementsDatabaseService == Service!Spec

(* However the children of a list of parents fail, and whichever of them   *)
(* are tried again, all of the children of a parent are committed or none. *)
AllOrNothing == \A parent \in Parent : Committed(parent) \in {{}, Members(ChildrenOf[parent])}

(* The children of a type find the effects of all the children of earlier  *)
(* types of all the parents of the list in their own transaction, which a  *)
(* retry begins again from the first type.                                 *)
ChildrenInOrder ==
  sub_list # <<>> =>
    \A k \in 1 .. child_type - 1 : Members(Get_Child_Tasks_Of_Type(ChildOrdering[k])) \subseteq transaction

(* A parent is not blamed for another's error: one of its own calls went   *)
(* wrong, unless a call did not select exactly once.                       *)
OnlyFaultyParentsFail ==
  result \in {"FAILED_SPECIFIC_TASK", "FAILED_UNKNOWN_TASK"} =>
    \/ Some_Call("missing") \/ Some_Call("extra")
    \/ \A parent \in Bad_Parents : \E i \in DOMAIN calls : Get_ID(sub_list[i]) = parent /\ Faulty(i)

(* A cached statement is ready to be used whenever a list of children      *)
(* needs one: the FATAL_ASSERT of Allocate_Statement holds.                *)
CachedStatementReady ==
  child_type \in DOMAIN ChildOrdering /\ statement = NoText =>
    LET text == ChildOrdering[child_type]
    IN Get_Child_Tasks_Of_Type(text) # <<>> => Statements[text] \in {"none", "READY"}

(* Every parent succeeds or fails, however its children fail, unless the   *)
(* end of a transaction does.                                              *)
EveryParentAnswered ==
  \A parent \in Parent : parent \in added ~> (outcome[parent] # "none" \/ ~Connected)
=============================================================================
