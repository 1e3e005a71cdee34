------------------------ MODULE CompoundTaskBatchProofs ------------------------
(***************************************************************************)
(* Compound tasks are atomic and their children are executed in order,     *)
(* however many there are, whatever the sizes of the lists and whatever    *)
(* the calls do; and every step of a batch of them is one of               *)
(* DatabaseService.                                                        *)
(***************************************************************************)
EXTENDS CompoundTaskBatch, TaskListExecutionProofs, FiniteSetTheorems

(* The children of the parents in execution, and those of them that have   *)
(* been added and are of a type.                                           *)
OfFirst      == Members(All_Children(work[1]))
OfType(text) == { task \in OfFirst \cap Children : TextOf[task] = text }

(* The parents that are still to be executed.                              *)
Waiting == Members(PendingTasks) \cup AllOf(work)

(* A parent is in one place at a time, and where it is tells whether it    *)
(* may have been committed.                                                *)
ParentsInv ==
  /\ Distinct(PendingTasks) /\ Apart(work) /\ Members(PendingTasks) \cap AllOf(work) = {}
  /\ ~executing => work = <<>>
  /\ Waiting \cap (successful_tasks \cup failed_tasks) = {} /\ successful_tasks \cap failed_tasks = {}
  /\ Waiting \cup successful_tasks \cup failed_tasks \subseteq added
  /\ \A parent \in Waiting \cup (Parent \ added) : outcome[parent] = "none"
  /\ executing => \A parent \in successful_tasks \cup failed_tasks : outcome[parent] = "none"
  /\ \A parent \in Waiting \cup failed_tasks \cup (Parent \ added) : Committed(parent) = {}
  /\ Connected => \A parent \in successful_tasks : Committed(parent) # {}
  /\ AllOrNothing

(* The types before child_type have been executed: their effects are in    *)
(* the transaction, and the children that their success adds are there.    *)
(* Of the type being executed, what is not in the transaction is in one of *)
(* the lists.                                                              *)
AttemptInv ==
  /\ work = <<>> => child_type = 0
  /\ child_type = 0 => transaction = {} /\ statement = NoText
  /\ statement = NoText => child_list = <<>> /\ sub_list = <<>>
  /\ work # <<>> => transaction \subseteq OfFirst
  /\ statement # NoText =>
       /\ child_type \in DOMAIN ChildOrdering /\ statement = ChildOrdering[child_type]
       /\ Members(child_list) \cup Members(sub_list) \subseteq OfType(statement)
       /\ OfType(statement) \subseteq transaction \cup Members(child_list) \cup Members(sub_list)
  /\ \A i \in DOMAIN sub_list : calls[i] # "raises" => sub_list[i] \in transaction
  /\ \A k \in 1 .. child_type - 1 : OfType(ChildOrdering[k]) \subseteq transaction
  /\ child_type # 0 =>
       \A task \in OfFirst :
         \/ AddedAfter[task] = Seeding
         \/ \E k \in 1 .. child_type - 1 : ChildOrdering[k] = AddedAfter[task]
         => task \in Children

CompoundInv == TypeOK /\ ListInv /\ ParentsInv /\ AttemptInv

-----------------------------------------------------------------------------
(* Parents and children.                                                   *)

(* The children of a list of parents are those of its members.             *)
LEMMA ChildrenOfList ==
  ASSUME NEW list \in Seq(Parent)
  PROVE  /\ All_Children(list) \in Seq(Task)
         /\ Members(All_Children(list)) = UNION { Members(ChildrenOf[parent]) : parent \in Members(list) }
<1> DEFINE lists == [i \in DOMAIN list |-> ChildrenOf[list[i]]]
<1>1. DOMAIN list = 1 .. Len(list) /\ Len(list) \in Nat /\ \A i \in DOMAIN list : list[i] \in Parent
  OBVIOUS
<1>2. lists \in Seq(Seq(Task)) /\ DOMAIN lists = DOMAIN list /\ \A i \in DOMAIN list : lists[i] = ChildrenOf[list[i]]
  <2>1. \A i \in DOMAIN list : ChildrenOf[list[i]] \in Seq(Task)
    BY <1>1, ChildrenAssumption
  <2> QED BY <1>1, <2>1, SeqDef
<1> HIDE DEF lists
<1>3. /\ FlattenSeq(lists) \in Seq(Task)
      /\ Members(FlattenSeq(lists)) = UNION { Members(lists[i]) : i \in DOMAIN lists }
  BY <1>2, MembersFlatten
<1>4. All_Children(list) = FlattenSeq(lists)
  BY DEF All_Children, lists
<1>5. UNION { Members(lists[i]) : i \in DOMAIN lists } = UNION { Members(ChildrenOf[parent]) : parent \in Members(list) }
  <2>1. \A i \in DOMAIN list : list[i] \in Members(list)
    BY DEF Members
  <2>2. \A parent \in Members(list) : \E i \in DOMAIN list : parent = list[i]
    BY DEF Members
  <2> QED BY <1>2, <2>1, <2>2
<1> QED BY <1>3, <1>4, <1>5

(* An empty list has no members.                                           *)
LEMMA NoMembers == Members(<<>>) = {} /\ DOMAIN <<>> = {}
<1>1. DOMAIN <<>> = {}
  OBVIOUS
<1> QED BY <1>1 DEF Members

(* A child has one parent, whose ID it carries.                            *)
LEMMA OneParent ==
  ASSUME NEW parent \in Parent, NEW task \in Members(ChildrenOf[parent])
  PROVE  /\ task \in Task /\ Get_ID(task) = parent
         /\ \A p \in Parent : task \in Members(ChildrenOf[p]) => p = parent
<1>1. task \in Task
  BY ChildrenAssumption, MembersType
<1>2. \A p \in Parent : task \in Members(ChildrenOf[p]) => p = parent
  BY ChildrenAssumption
<1> QED BY <1>1, <1>2 DEF Get_ID

(* The first list is one of parents that wait, and the rest is as good.    *)
LEMMA FirstList ==
  ASSUME CompoundInv, work # <<>>
  PROVE  /\ work[1] \in Seq(Parent) \ {<<>>} /\ Parents \subseteq AllOf(work) /\ Distinct(work[1])
         /\ Parents \subseteq Parent /\ Parents \subseteq Waiting
         /\ Tail(work) \in Seq(Seq(Parent) \ {<<>>}) /\ Apart(Tail(work))
         /\ AllOf(Tail(work)) = AllOf(work) \ Parents
         /\ OfFirst = UNION { Members(ChildrenOf[parent]) : parent \in Parents }
         /\ OfFirst \subseteq Task
         /\ \A text : /\ Get_Child_Tasks_Of_Type(text) \in Seq(Task)
                      /\ Members(Get_Child_Tasks_Of_Type(text)) = OfType(text)
<1>1. work \in Seq(Seq(Parent) \ {<<>>}) /\ Apart(work)
  BY DEF CompoundInv, TypeOK, ParentsInv
<1>2. /\ Tail(work) \in Seq(Seq(Parent) \ {<<>>}) /\ Apart(Tail(work))
      /\ AllOf(Tail(work)) = AllOf(work) \ Parents /\ Parents \subseteq AllOf(work)
      /\ Distinct(work[1]) /\ work[1] \in Seq(Parent) \ {<<>>}
  BY <1>1, ApartTail DEF Parents
<1>3. /\ All_Children(work[1]) \in Seq(Task)
      /\ OfFirst = UNION { Members(ChildrenOf[parent]) : parent \in Parents }
  BY <1>2, ChildrenOfList DEF OfFirst, Parents
<1>4. OfFirst \subseteq Task /\ Parents \subseteq Parent
  BY <1>2, <1>3, MembersType DEF OfFirst, Parents
<1>5. ASSUME NEW text
      PROVE  /\ Get_Child_Tasks_Of_Type(text) \in Seq(Task)
             /\ Members(Get_Child_Tasks_Of_Type(text)) = OfType(text)
  <2> DEFINE typed == { task \in Children : TextOf[task] = text }
  <2>1. /\ Sublist(All_Children(work[1]), typed) \in Seq(Task)
        /\ Members(Sublist(All_Children(work[1]), typed)) = OfFirst \cap typed
    BY <1>3, MembersSublist DEF OfFirst
  <2> QED BY <2>1 DEF Get_Child_Tasks_Of_Type, OfType
<1> QED BY <1>2, <1>3, <1>4, <1>5 DEF Waiting

(* The conjuncts whose variables do not change are preserved.              *)
LEMMA Unchanged ==
  ASSUME CompoundInv
  PROVE  /\ UNCHANGED <<added, PendingTasks, executing, work, successful_tasks, failed_tasks, outcome,
                        committed, connection>> => ParentsInv'
         /\ UNCHANGED <<work, Children, child_type, statement, child_list, transaction, sub_list, calls>> => AttemptInv'
<1>1. UNCHANGED <<added, PendingTasks, executing, work, successful_tasks, failed_tasks, outcome,
                  committed, connection>> => ParentsInv'
  BY DEF CompoundInv, ParentsInv, Waiting, AllOf, Apart, Connected, AllOrNothing, Committed
<1>2. UNCHANGED <<work, Children, child_type, statement, child_list, transaction, sub_list, calls>> => AttemptInv'
  BY DEF CompoundInv, AttemptInv, OfFirst, OfType
<1> QED BY <1>1, <1>2

-----------------------------------------------------------------------------
(* The invariant is preserved, action by action.                           *)

(* A batch starts in the invariant.                                        *)
LEMMA InitInv == Init => CompoundInv
<1> SUFFICES ASSUME Init PROVE CompoundInv
  OBVIOUS
<1>0. DOMAIN <<>> = {} /\ <<>> \in Seq(Parent) /\ <<>> \in Seq(Seq(Parent) \ {<<>>}) /\ <<>> \in Seq(Task)
  OBVIOUS
<1>1. ListInv
  BY ListInit DEF Init
<1>2. TypeOK
  <2>1. 0 \in 0 .. Len(ChildOrdering) + 1
    BY OrderingAssumption
  <2> QED BY <1>0, <1>1, <2>1 DEF Init, TypeOK, ListInv
<1>3. Members(<<>>) = {} /\ Waiting = {} /\ AllOf(work) = {}
  BY <1>0 DEF Init, Waiting, AllOf, Members
<1>4. \A parent \in Parent : Committed(parent) = {}
  BY DEF Init, ExecutionInit, Committed
<1>5. ParentsInv
  BY <1>0, <1>3, <1>4 DEF Init, ParentsInv, Apart, Distinct, AllOrNothing
<1>6. AttemptInv
  <2>1. \A k \in 1 .. 0 - 1 : FALSE
    OBVIOUS
  <2> QED BY <1>0, <2>1 DEF Init, ExecutionInit, AttemptInv
<1> QED BY <1>1, <1>2, <1>5, <1>6 DEF CompoundInv

(* A parent is added to the batch.                                         *)
LEMMA AddTaskInv ==
  ASSUME CompoundInv, NEW parent \in Parent, Add_Task(parent)
  PROVE  CompoundInv'
<1>1. /\ ~executing /\ parent \notin added
      /\ added' = added \cup {parent} /\ PendingTasks' = Append(PendingTasks, parent)
      /\ UNCHANGED <<executing, work, Children, child_type, statement, child_list,
                     successful_tasks, failed_tasks, outcome, executionVars>>
  BY DEF Add_Task
<1>2. /\ PendingTasks' \in Seq(Parent) /\ Distinct(PendingTasks)'
      /\ Members(PendingTasks') = Members(PendingTasks) \cup {parent}
  <2> DEFINE one == <<parent>>
  <2>1. PendingTasks \in Seq(Parent) /\ Distinct(PendingTasks)
    BY DEF CompoundInv, TypeOK, ParentsInv
  <2>2. one \in Seq(Parent) /\ Members(one) = {parent} /\ Distinct(one)
    BY DEF Members, Distinct
  <2>3. Members(PendingTasks) \cap {parent} = {}
    BY <1>1 DEF CompoundInv, ParentsInv, Waiting
  <2>4. PendingTasks' = PendingTasks \o one
    BY <1>1, <2>1
  <2> HIDE DEF one
  <2>5. /\ PendingTasks \o one \in Seq(Parent) /\ Distinct(PendingTasks \o one)
        /\ Members(PendingTasks \o one) = Members(PendingTasks) \cup Members(one)
    BY <2>1, <2>2, <2>3, MembersConcat
  <2> QED BY <2>2, <2>4, <2>5 DEF Distinct
<1>3. TypeOK'
  BY <1>1, <1>2 DEF CompoundInv, TypeOK, ExecutionTypeOK, executionVars
<1>4. ListInv'
  BY <1>1, <1>3, ListUnchanged DEF CompoundInv, TypeOK, executionVars, listVars
<1>5. AttemptInv'
  BY <1>1, Unchanged DEF executionVars
<1>6. ParentsInv'
  <2>1. AllOf(work)' = AllOf(work) /\ Apart(work)'
    BY <1>1 DEF AllOf, Apart, CompoundInv, ParentsInv
  <2>2. Waiting' = Waiting \cup {parent}
    BY <1>2, <2>1 DEF Waiting
  <2>3. /\ UNCHANGED <<successful_tasks, failed_tasks, outcome, connection, executing, work>>
        /\ \A p \in Parent : Committed(p)' = Committed(p)
    BY <1>1 DEF executionVars, Committed
  <2>4. parent \notin AllOf(work) \cup successful_tasks \cup failed_tasks
    BY <1>1 DEF CompoundInv, ParentsInv, Waiting
  <2>5. AllOrNothing'
    BY <2>3 DEF CompoundInv, ParentsInv, AllOrNothing
  <2>6. Waiting \cup successful_tasks \cup failed_tasks \subseteq Parent
    BY DEF CompoundInv, ParentsInv, TypeOK
  <2> QED BY <1>1, <1>2, <2>1, <2>2, <2>3, <2>4, <2>5, <2>6 DEF CompoundInv, ParentsInv, Connected
<1> QED BY <1>3, <1>4, <1>5, <1>6 DEF CompoundInv

(* The batch begins, with empty lists.                                     *)
LEMMA ExecuteTasksInv ==
  ASSUME CompoundInv, Execute_Tasks
  PROVE  CompoundInv'
<1>1. /\ ~executing /\ executing' = TRUE /\ successful_tasks' = {} /\ failed_tasks' = {}
      /\ UNCHANGED <<added, PendingTasks, work, Children, child_type, statement, child_list, outcome, executionVars>>
  BY DEF Execute_Tasks
<1>2. TypeOK'
  BY <1>1 DEF CompoundInv, TypeOK, ExecutionTypeOK, executionVars
<1>3. ListInv'
  BY <1>1, <1>2, ListUnchanged DEF CompoundInv, TypeOK, executionVars, listVars
<1>4. AttemptInv'
  BY <1>1, Unchanged DEF executionVars
<1>5. ParentsInv'
  <2>1. Waiting' = Waiting /\ AllOf(work)' = AllOf(work) /\ Apart(work)' /\ Distinct(PendingTasks)'
    BY <1>1 DEF Waiting, AllOf, Apart, Distinct, CompoundInv, ParentsInv
  <2>2. \A p \in Parent : Committed(p)' = Committed(p)
    BY <1>1 DEF executionVars, Committed
  <2>3. AllOrNothing'
    BY <2>2 DEF CompoundInv, ParentsInv, AllOrNothing
  <2>4. Waiting \subseteq Parent
    BY DEF CompoundInv, ParentsInv, TypeOK
  <2> QED BY <1>1, <2>1, <2>2, <2>3, <2>4 DEF CompoundInv, ParentsInv, Connected
<1> QED BY <1>2, <1>3, <1>4, <1>5 DEF CompoundInv

(* The outcomes are read.                                                  *)
LEMMA TasksExecutedInv ==
  ASSUME CompoundInv, Tasks_Executed
  PROVE  CompoundInv'
<1>1. /\ work = <<>> /\ PendingTasks = <<>> /\ executing' = FALSE
      /\ outcome' = [parent \in Parent |-> IF parent \in successful_tasks THEN "success"
                                           ELSE IF parent \in failed_tasks THEN "failure" ELSE outcome[parent]]
      /\ UNCHANGED <<added, PendingTasks, work, Children, child_type, statement, child_list,
                     successful_tasks, failed_tasks, executionVars>>
  BY DEF Tasks_Executed
<1>2. TypeOK'
  BY <1>1 DEF CompoundInv, TypeOK, ExecutionTypeOK, executionVars
<1>3. ListInv'
  BY <1>1, <1>2, ListUnchanged DEF CompoundInv, TypeOK, executionVars, listVars
<1>4. AttemptInv'
  BY <1>1, Unchanged DEF executionVars
<1>5. ParentsInv'
  <2>1. Waiting' = Waiting /\ AllOf(work)' = AllOf(work) /\ Apart(work)' /\ Distinct(PendingTasks)'
    BY <1>1 DEF Waiting, AllOf, Apart, Distinct, CompoundInv, ParentsInv
  <2>2. \A p \in Parent : Committed(p)' = Committed(p)
    BY <1>1 DEF executionVars, Committed
  <2>3. AllOrNothing'
    BY <2>2 DEF CompoundInv, ParentsInv, AllOrNothing
  <2>4. Waiting \cup successful_tasks \cup failed_tasks \subseteq added /\ added \subseteq Parent
    BY DEF CompoundInv, ParentsInv, TypeOK
  <2>5. \A p \in Waiting \cup (Parent \ added) : p \in Parent /\ p \notin successful_tasks \cup failed_tasks
    BY <2>4 DEF CompoundInv, ParentsInv
  <2>6. \A p \in Waiting \cup (Parent \ added) : outcome'[p] = "none"
    BY <1>1, <2>5 DEF CompoundInv, ParentsInv
  <2>7. UNCHANGED connection
    BY <1>1 DEF executionVars
  <2>8. \A p \in Waiting \cup failed_tasks \cup (Parent \ added) : Committed(p)' = {}
    BY <2>2, <2>4 DEF CompoundInv, ParentsInv
  <2> QED BY <1>1, <2>1, <2>2, <2>3, <2>4, <2>6, <2>7, <2>8 DEF CompoundInv, ParentsInv, Connected
<1> QED BY <1>2, <1>3, <1>4, <1>5 DEF CompoundInv

(* A list is taken from the batch.                                         *)
LEMMA SpliceSubListInv ==
  ASSUME CompoundInv, Splice_Sub_List
  PROVE  CompoundInv'
<1> DEFINE size   == Len(PendingTasks)
           amount == IF size < CompoundTaskBatchSize THEN size ELSE CompoundTaskBatchSize
           list   == SubSeq(PendingTasks, 1, amount)
           rest   == SubSeq(PendingTasks, amount + 1, size)
<1>1. /\ executing /\ work = <<>> /\ PendingTasks # <<>>
      /\ work' = <<list>> /\ PendingTasks' = rest
      /\ UNCHANGED <<added, executing, Children, child_type, statement, child_list,
                     successful_tasks, failed_tasks, outcome, executionVars>>
  BY DEF Splice_Sub_List
<1>2. PendingTasks \in Seq(Parent) /\ Distinct(PendingTasks)
  BY DEF CompoundInv, TypeOK, ParentsInv
<1>3. amount \in 1 .. size /\ amount \in 0 .. size
  <2>1. size \in Nat /\ size # 0
    BY <1>1, <1>2, EmptySeq
  <2>2. CompoundTaskBatchSize \in Nat /\ CompoundTaskBatchSize # 0
    BY SizesAssumption
  <2> HIDE DEF size
  <2> QED BY <2>1, <2>2
<1> HIDE DEF amount
<1>4. /\ list \in Seq(Parent) /\ rest \in Seq(Parent) /\ Len(list) = amount
      /\ Members(PendingTasks) = Members(list) \cup Members(rest)
      /\ Distinct(list) /\ Distinct(rest) /\ Members(list) \cap Members(rest) = {}
  BY <1>2, <1>3, MembersSplit
<1> HIDE DEF list, rest
<1>5. list # <<>>
  <2>1. Len(list) # 0 /\ Len(<<>>) = 0
    BY <1>3, <1>4
  <2> QED BY <2>1
<1>6. Apart(work)' /\ AllOf(work') = Members(list) /\ AllOf(work) = {}
  <2>1. Apart(<<list>>) /\ AllOf(<<list>>) = Members(list) /\ AllOf(<<>>) = {}
    BY <1>4, ApartOne
  <2> QED BY <1>1, <2>1 DEF Apart
<1>7. TypeOK'
  <2>1. work' \in Seq(Seq(Parent) \ {<<>>})
    BY <1>1, <1>4, <1>5
  <2> QED BY <1>1, <1>4, <2>1 DEF CompoundInv, TypeOK, ExecutionTypeOK, executionVars
<1>8. ListInv'
  BY <1>1, <1>7, ListUnchanged DEF CompoundInv, TypeOK, executionVars, listVars
<1>9. ParentsInv'
  <2>1. Waiting' = Waiting
    BY <1>1, <1>4, <1>6 DEF Waiting
  <2>2. UNCHANGED connection /\ \A p \in Parent : Committed(p)' = Committed(p)
    BY <1>1 DEF executionVars, Committed
  <2>3. AllOrNothing'
    BY <2>2 DEF CompoundInv, ParentsInv, AllOrNothing
  <2>4. Members(PendingTasks') \cap AllOf(work') = {} /\ Distinct(PendingTasks)'
    BY <1>1, <1>4, <1>6 DEF Distinct
  <2>5. Waiting \cup successful_tasks \cup failed_tasks \subseteq Parent
    BY DEF CompoundInv, ParentsInv, TypeOK
  <2> QED BY <1>1, <1>6, <2>1, <2>2, <2>3, <2>4, <2>5 DEF CompoundInv, ParentsInv, Connected
<1>10. AttemptInv'
  <2>1. child_type' = 0 /\ transaction' = {} /\ statement' = NoText /\ child_list' = <<>> /\ sub_list' = <<>>
    BY <1>1 DEF CompoundInv, AttemptInv, executionVars
  <2>2. DOMAIN <<>> = {} /\ 1 .. 0 - 1 = {}
    OBVIOUS
  <2> QED BY <2>1, <2>2 DEF AttemptInv
<1> QED BY <1>7, <1>8, <1>9, <1>10 DEF CompoundInv

(* An attempt at a list of parents begins.                                 *)
LEMMA SeedChildTasksInv ==
  ASSUME CompoundInv, Seed_Child_Tasks
  PROVE  CompoundInv'
<1>1. /\ work # <<>> /\ child_type = 0 /\ child_type' = 1
      /\ Children' = (Children \ OfFirst) \cup { task \in OfFirst : AddedAfter[task] = Seeding }
      /\ Forget_Results(OfFirst)
      /\ UNCHANGED <<added, PendingTasks, executing, work, statement, child_list,
                     successful_tasks, failed_tasks, outcome>>
      /\ UNCHANGED <<connection, Statements, transaction, committed, sub_list, calls, stream,
                     CurrentResultSet, result, first_failed_task>>
  BY DEF Seed_Child_Tasks, Added_After, OfFirst
<1>2. OfFirst \subseteq Task /\ OfFirst' = OfFirst
  BY <1>1, FirstList DEF OfFirst
<1>3. TypeOK'
  <2>1. child_type' \in 0 .. Len(ChildOrdering) + 1
    BY <1>1, OrderingAssumption
  <2>2. tried' \in SUBSET Task /\ received' \in [Task -> SUBSET Task]
    BY <1>1 DEF Forget_Results, CompoundInv, TypeOK, ExecutionTypeOK
  <2> QED BY <1>1, <1>2, <2>1, <2>2 DEF CompoundInv, TypeOK, ExecutionTypeOK
<1>4. ListInv'
  BY <1>1, <1>3, ListUnchanged DEF CompoundInv, TypeOK, listVars
<1>5. ParentsInv'
  BY <1>1, Unchanged
<1>6. AttemptInv'
  <2>1. transaction' = {} /\ statement' = NoText /\ child_list' = <<>> /\ sub_list' = <<>>
    BY <1>1 DEF CompoundInv, AttemptInv
  <2>2. DOMAIN <<>> = {} /\ 1 .. 1 - 1 = {}
    OBVIOUS
  <2>3. \A task \in OfFirst' : AddedAfter[task] = Seeding => task \in Children'
    BY <1>1, <1>2
  <2> QED BY <1>1, <2>1, <2>2, <2>3 DEF AttemptInv
<1> QED BY <1>3, <1>4, <1>5, <1>6 DEF CompoundInv

(* A child is added by the success of a type that is registered before its *)
(* own, of which its parent has children.                                  *)
LEMMA AddedInTime ==
  ASSUME CompoundInv, work # <<>>, NEW task \in OfFirst, NEW k \in DOMAIN ChildOrdering,
         AddedAfter[task] = ChildOrdering[k]
  PROVE  /\ \A l \in DOMAIN ChildOrdering : TextOf[task] = ChildOrdering[l] => k < l
         /\ \E child \in OfFirst : TextOf[child] = ChildOrdering[k]
<1>1. PICK parent \in Parents : task \in Members(ChildrenOf[parent])
  BY FirstList
<1>2. parent \in Parent
  BY FirstList
<1>3. ChildOrdering[k] # Seeding
  BY NoneAssumption, OrderingAssumption
<1>4. /\ \E i, l \in DOMAIN ChildOrdering : i < l /\ ChildOrdering[i] = AddedAfter[task] /\ ChildOrdering[l] = TextOf[task]
      /\ \E child \in Members(ChildrenOf[parent]) : TextOf[child] = AddedAfter[task]
  BY <1>1, <1>2, <1>3, AddedInTimeAssumption
<1>5. Members(ChildrenOf[parent]) \subseteq OfFirst
  BY <1>1, FirstList
<1> QED BY <1>4, <1>5, OrderingAssumption

(* The next type is begun, or passed over.                                 *)
LEMMA NextChildTypeInv ==
  ASSUME CompoundInv, Next_Child_Type
  PROVE  CompoundInv'
<1> DEFINE text == ChildOrdering[child_type]
           list == Get_Child_Tasks_Of_Type(text)
<1>1. /\ child_type \in DOMAIN ChildOrdering /\ statement = NoText
      /\ UNCHANGED <<added, PendingTasks, executing, work, Children, successful_tasks, failed_tasks, outcome>>
      /\ UNCHANGED <<connection, transaction, committed, sub_list, calls, stream, CurrentResultSet,
                     result, first_failed_task, tried, received>>
  BY DEF Next_Child_Type
<1>2. /\ work # <<>> /\ text \in Text /\ text # NoText /\ child_type # 0
      /\ list \in Seq(Task) /\ Members(list) = OfType(text)
  <2>1. child_type # 0 /\ text \in Text
    BY <1>1, OrderingAssumption
  <2>2. work # <<>>
    BY <2>1 DEF CompoundInv, AttemptInv
  <2> QED BY <2>1, <2>2, FirstList, NoneAssumption
<1>3. \/ list = <<>> /\ child_type' = child_type + 1 /\ UNCHANGED <<statement, child_list, Statements>>
      \/ /\ statement' = text /\ child_list' = list /\ UNCHANGED child_type
         /\ Statements' = [Statements EXCEPT ![text] = "READY"]
  BY DEF Next_Child_Type, Allocate_Statement
<1> HIDE DEF text, list
<1>4. TypeOK'
  <2>1. child_type + 1 \in 0 .. Len(ChildOrdering) + 1
    BY <1>1, OrderingAssumption
  <2> QED BY <1>1, <1>2, <1>3, <2>1 DEF CompoundInv, TypeOK, ExecutionTypeOK, StatementStates
<1>5. ListInv'
  BY <1>1, <1>4, ListUnchanged DEF CompoundInv, TypeOK, listVars
<1>6. ParentsInv'
  BY <1>1, Unchanged
<1>7. OfFirst' = OfFirst /\ \A t : OfType(t)' = OfType(t)
  BY <1>1 DEF OfFirst, OfType
<1>8. sub_list = <<>> /\ child_list = <<>>
  BY <1>1 DEF CompoundInv, AttemptInv
<1>9. ASSUME statement' = text /\ child_list' = list /\ UNCHANGED child_type
      PROVE  AttemptInv'
  <2>1. Members(sub_list) = {} /\ DOMAIN sub_list = {}
    <3>1. Members(<<>>) = {} /\ DOMAIN <<>> = {}
      BY MembersType, <1>2
    <3> QED BY <1>8, <3>1
  <2>2. statement' # NoText /\ statement' = ChildOrdering[child_type']
    BY <1>2, <1>9 DEF text
  <2>3. OfType(statement)' = OfType(text)
    BY <1>1, <1>7, <1>9 DEF OfType
  <2>7. /\ Members(child_list') = OfType(text) /\ Members(sub_list') = {}
        /\ sub_list' = sub_list /\ child_type' = child_type
    BY <1>1, <1>2, <1>9, <2>1
  <2>4. \A k \in 1 .. child_type' - 1 : OfType(ChildOrdering[k])' \subseteq transaction'
    BY <1>1, <1>7, <1>9 DEF CompoundInv, AttemptInv
  <2>5. \A task \in OfFirst' :
          \/ AddedAfter[task] = Seeding
          \/ \E k \in 1 .. child_type' - 1 : ChildOrdering[k] = AddedAfter[task]
          => task \in Children'
    BY <1>1, <1>2, <1>7, <1>9 DEF CompoundInv, AttemptInv
  <2>6. transaction' \subseteq OfFirst'
    BY <1>1, <1>2, <1>7 DEF CompoundInv, AttemptInv
  <2> QED BY <1>1, <1>2, <2>1, <2>2, <2>3, <2>4, <2>5, <2>6, <2>7 DEF AttemptInv
<1>10. ASSUME list = <<>> /\ child_type' = child_type + 1 /\ UNCHANGED <<statement, child_list>>
       PROVE  AttemptInv'
  <2>1. OfType(text) = {}
    BY <1>2, <1>10, MembersType
  <2>2. \A k \in 1 .. child_type' - 1 : k \in 1 .. child_type - 1 \/ k = child_type
    BY <1>1, <1>10, OrderingAssumption
  <2>3. \A k \in 1 .. child_type' - 1 : OfType(ChildOrdering[k])' \subseteq transaction'
    <3>1. \A k \in 1 .. child_type - 1 : OfType(ChildOrdering[k]) \subseteq transaction
      BY DEF CompoundInv, AttemptInv
    <3> QED BY <1>1, <1>7, <2>1, <2>2, <3>1 DEF text
  <2>4. \A task \in OfFirst : AddedAfter[task] # text
    <3> SUFFICES ASSUME NEW task \in OfFirst, AddedAfter[task] = text PROVE FALSE
      OBVIOUS
    <3>1. PICK child \in OfFirst : TextOf[child] = text
      BY <1>1, <1>2, AddedInTime DEF text
    <3>2. child \in Children
      <4>1. CASE AddedAfter[child] = Seeding
        BY <1>2, <3>1, <4>1 DEF CompoundInv, AttemptInv
      <4>2. CASE AddedAfter[child] # Seeding
        <5>1. AddedAfter[child] \in Text
          BY <1>2, <3>1, <4>2, ChildrenAssumption, FirstList
        <5>2. PICK k \in DOMAIN ChildOrdering : ChildOrdering[k] = AddedAfter[child]
          BY <5>1, OrderingAssumption DEF Members
        <5>3. k < child_type
          BY <1>1, <1>2, <3>1, <5>2, AddedInTime DEF text
        <5>4. k \in 1 .. child_type - 1
          BY <1>1, <5>2, <5>3, OrderingAssumption
        <5> QED BY <1>2, <3>1, <5>2, <5>4 DEF CompoundInv, AttemptInv
      <4> QED BY <4>1, <4>2
    <3> QED BY <2>1, <3>1, <3>2 DEF OfType
  <2>5. \A task \in OfFirst' :
          \/ AddedAfter[task] = Seeding
          \/ \E k \in 1 .. child_type' - 1 : ChildOrdering[k] = AddedAfter[task]
          => task \in Children'
    <3>1. \A task \in OfFirst :
            \/ AddedAfter[task] = Seeding
            \/ \E k \in 1 .. child_type - 1 : ChildOrdering[k] = AddedAfter[task]
            => task \in Children
      BY <1>2 DEF CompoundInv, AttemptInv
    <3> QED BY <1>1, <1>7, <2>2, <2>4, <3>1 DEF text
  <2>6. child_type' # 0 /\ transaction' \subseteq OfFirst' /\ statement' = NoText /\ child_list' = <<>> /\ sub_list' = <<>>
    <3>1. child_type + 1 # 0
      BY <1>1, OrderingAssumption
    <3> QED BY <1>1, <1>2, <1>7, <1>8, <1>10, <3>1 DEF CompoundInv, AttemptInv
  <2>7. DOMAIN <<>> = {}
    OBVIOUS
  <2> QED BY <1>1, <1>2, <2>3, <2>5, <2>6, <2>7 DEF AttemptInv
<1> QED BY <1>3, <1>4, <1>5, <1>6, <1>9, <1>10 DEF CompoundInv

(* While a type is executed there is a list of parents whose children they *)
(* are.                                                                    *)
LEMMA ChildrenInExecution ==
  ASSUME CompoundInv, statement # NoText \/ sub_list # <<>> \/ child_list # <<>>
  PROVE  /\ statement \in Text /\ work # <<>> /\ child_type # 0
         /\ child_type \in DOMAIN ChildOrdering /\ statement = ChildOrdering[child_type]
         /\ \A task \in Members(child_list) \cup Members(sub_list) :
              task \in OfFirst /\ TextOf[task] = statement
<1>1. statement # NoText
  BY DEF CompoundInv, AttemptInv
<1>2. /\ child_type \in DOMAIN ChildOrdering /\ statement = ChildOrdering[child_type]
      /\ Members(child_list) \cup Members(sub_list) \subseteq OfType(statement)
  BY <1>1 DEF CompoundInv, AttemptInv
<1>3. child_type # 0 /\ statement \in Text
  BY <1>2, OrderingAssumption
<1>4. work # <<>>
  BY <1>3 DEF CompoundInv, AttemptInv
<1> QED BY <1>2, <1>3, <1>4 DEF OfType

(* A list of children is executed.                                         *)
LEMMA ExecuteChildSubListInv ==
  ASSUME CompoundInv, Execute_Child_Sub_List
  PROVE  CompoundInv'
<1> DEFINE size   == Len(child_list)
           most   == ParamRowCount[statement]
           amount == IF size < most THEN size ELSE most
           list   == SubSeq(child_list, 1, amount)
           rest   == SubSeq(child_list, amount + 1, size)
<1>1. /\ statement # NoText /\ child_list # <<>> /\ Execute(list) /\ child_list' = rest
      /\ UNCHANGED <<added, PendingTasks, executing, work, Children, child_type, statement,
                     successful_tasks, failed_tasks, outcome>>
  BY DEF Execute_Child_Sub_List
<1>2. /\ child_list \in Seq(Task) /\ statement \in Text /\ work # <<>> /\ child_type # 0
      /\ \A task \in Members(child_list) : task \in OfFirst /\ TextOf[task] = statement
  BY <1>1, ChildrenInExecution DEF CompoundInv, TypeOK
<1>3. amount \in 1 .. size /\ amount \in 0 .. size
  <2>1. size \in Nat /\ size # 0
    BY <1>1, <1>2, EmptySeq
  <2>2. most \in Nat /\ most # 0
    BY <1>2, SizesAssumption
  <2> HIDE DEF size, most
  <2> QED BY <2>1, <2>2
<1> HIDE DEF amount
<1>4. /\ list \in Seq(Task) /\ rest \in Seq(Task) /\ Len(list) = amount
      /\ Members(child_list) = Members(list) \cup Members(rest)
  BY <1>2, <1>3, MembersSplit
<1> HIDE DEF list, rest
<1>5. 1 \in DOMAIN list /\ \A i \in DOMAIN list : TextOf[list[i]] = statement /\ list[i] \in OfFirst /\ list[i] \in Members(list)
  <2>1. 1 \in DOMAIN list
    BY <1>3, <1>4
  <2>2. \A i \in DOMAIN list : list[i] \in Members(list)
    BY DEF Members
  <2> QED BY <1>2, <1>4, <2>1, <2>2
<1>6. /\ sub_list = <<>> /\ sub_list' = list
      /\ transaction' = transaction \cup { list[i] : i \in { j \in DOMAIN list : calls'[j] # "raises" } }
      /\ UNCHANGED <<connection, committed>>
  BY <1>1 DEF Execute
<1>7. ListInv'
  BY <1>1, <1>4, <1>5, ListExecute DEF CompoundInv
<1>8. TypeOK'
  BY <1>1, <1>4, <1>7 DEF CompoundInv, ListInv, TypeOK
<1>9. ParentsInv'
  BY <1>1, <1>6, Unchanged
<1>10. AttemptInv'
  <2>1. OfFirst' = OfFirst /\ OfType(statement)' = OfType(statement) /\ \A t : OfType(t)' = OfType(t)
    BY <1>1 DEF OfFirst, OfType
  <2>2. transaction \subseteq transaction' /\ transaction' \subseteq OfFirst'
    BY <1>2, <1>5, <1>6, <2>1 DEF CompoundInv, AttemptInv
  <2>3. Members(sub_list) = {}
    BY <1>2, <1>6, MembersType
  <2>4. /\ Members(child_list') \cup Members(sub_list') \subseteq OfType(statement)'
        /\ OfType(statement)' \subseteq transaction' \cup Members(child_list') \cup Members(sub_list')
    BY <1>1, <1>4, <1>6, <2>1, <2>2, <2>3 DEF CompoundInv, AttemptInv
  <2>5. \A i \in DOMAIN sub_list' : calls'[i] # "raises" => sub_list'[i] \in transaction'
    BY <1>6
  <2>6. \A k \in 1 .. child_type' - 1 : OfType(ChildOrdering[k])' \subseteq transaction'
    BY <1>1, <2>1, <2>2 DEF CompoundInv, AttemptInv
  <2>7. \A task \in OfFirst' :
          \/ AddedAfter[task] = Seeding
          \/ \E k \in 1 .. child_type' - 1 : ChildOrdering[k] = AddedAfter[task]
          => task \in Children'
    BY <1>1, <1>2, <2>1 DEF CompoundInv, AttemptInv
  <2>8. child_type' \in DOMAIN ChildOrdering /\ statement' = ChildOrdering[child_type'] /\ child_type' # 0
    BY <1>1, ChildrenInExecution
  <2> QED BY <1>1, <1>2, <2>2, <2>4, <2>5, <2>6, <2>7, <2>8 DEF AttemptInv
<1> QED BY <1>7, <1>8, <1>9, <1>10 DEF CompoundInv

(* A result set is fetched.                                                *)
LEMMA FetchResultsInv ==
  ASSUME CompoundInv, Fetch_Results, UNCHANGED batchVars
  PROVE  CompoundInv'
<1>1. UNCHANGED <<connection, transaction, committed, sub_list, calls>>
  BY DEF Fetch_Results, More_Result_Sets, Bad_Result_Set, Finish_Result_Set, Fails
<1>2. ListInv'
  BY ListFetch DEF CompoundInv
<1>3. TypeOK'
  BY <1>2 DEF CompoundInv, ListInv, TypeOK, batchVars
<1>4. ParentsInv' /\ AttemptInv'
  BY <1>1, Unchanged DEF batchVars
<1> QED BY <1>2, <1>3, <1>4 DEF CompoundInv

(* A list of children has succeeded: it is in the transaction.             *)
LEMMA ChildSubListSuccessInv ==
  ASSUME CompoundInv, Child_Sub_List_Success
  PROVE  CompoundInv'
<1>1. /\ result = "SUCCESS" /\ Forget_List
      /\ UNCHANGED <<added, PendingTasks, executing, work, Children, child_type, statement, child_list,
                     successful_tasks, failed_tasks, outcome>>
      /\ UNCHANGED <<connection, Statements, transaction, committed, tried, received>>
  BY DEF Child_Sub_List_Success, batchVars
<1>2. /\ sub_list' = <<>> /\ calls' = <<>> /\ stream' = <<>> /\ CurrentResultSet' = 0
      /\ result' = "none" /\ first_failed_task' = 0
  BY <1>1 DEF Forget_List
<1>3. TypeOK'
  BY <1>1, <1>2 DEF CompoundInv, TypeOK, ExecutionTypeOK
<1>4. ListInv'
  BY <1>1, <1>3, ListForgotten DEF TypeOK
<1>5. ParentsInv'
  BY <1>1, Unchanged
<1>6. AttemptInv'
  <2>1. sub_list # <<>> /\ \A i \in DOMAIN calls : calls[i] # "raises"
    BY <1>1, SuccessfulList DEF CompoundInv
  <2>2. DOMAIN calls = DOMAIN sub_list
    BY <2>1 DEF CompoundInv, ListInv, ExecutionTypeOK, CallsInv
  <2>3. Members(sub_list) \subseteq transaction
    BY <2>1, <2>2 DEF CompoundInv, AttemptInv, Members
  <2>4. Members(<<>>) = {} /\ DOMAIN <<>> = {}
    BY NoMembers
  <2>5. OfFirst' = OfFirst /\ OfType(statement)' = OfType(statement) /\ \A t : OfType(t)' = OfType(t)
    BY <1>1 DEF OfFirst, OfType
  <2> QED BY <1>1, <1>2, <2>3, <2>4, <2>5 DEF CompoundInv, AttemptInv
<1> QED BY <1>3, <1>4, <1>5, <1>6 DEF CompoundInv

(* A type has been executed, and the parents add what comes after it.      *)
LEMMA OnChildTaskSuccessInv ==
  ASSUME CompoundInv, On_Child_Task_Success
  PROVE  CompoundInv'
<1>1. /\ statement # NoText /\ child_list = <<>> /\ sub_list = <<>>
      /\ \/ Statements' = Statements
         \/ Statements' = [Statements EXCEPT ![statement] = "none"]
      /\ Children' = Children \cup { task \in OfFirst : AddedAfter[task] = statement }
      /\ child_type' = child_type + 1 /\ statement' = NoText
      /\ UNCHANGED <<added, PendingTasks, executing, work, child_list, successful_tasks, failed_tasks, outcome>>
      /\ UNCHANGED <<connection, transaction, committed, sub_list, calls, stream, CurrentResultSet,
                     result, first_failed_task, tried, received>>
  BY DEF On_Child_Task_Success, Children_Executed, Release_Statement, Added_After, OfFirst
<1>2. /\ statement \in Text /\ work # <<>> /\ child_type # 0
      /\ child_type \in DOMAIN ChildOrdering /\ statement = ChildOrdering[child_type]
  BY <1>1, ChildrenInExecution
<1>3. OfFirst \subseteq Task /\ OfFirst' = OfFirst
  BY <1>1, <1>2, FirstList DEF OfFirst
<1>4. child_type \in Nat /\ child_type + 1 \in 0 .. Len(ChildOrdering) + 1 /\ child_type + 1 # 0
  BY <1>2, OrderingAssumption
<1>5. TypeOK'
  BY <1>1, <1>2, <1>3, <1>4 DEF CompoundInv, TypeOK, ExecutionTypeOK
<1>6. ListInv'
  BY <1>1, <1>5, ListUnchanged DEF CompoundInv, TypeOK, listVars
<1>7. ParentsInv'
  BY <1>1, Unchanged
<1>8. \A k \in 1 .. child_type' - 1 : k \in DOMAIN ChildOrdering /\ (k \in 1 .. child_type - 1 \/ k = child_type)
                                      /\ ~(child_type < k)
  BY <1>1, <1>2, <1>4, OrderingAssumption
<1>9. \A k \in 1 .. child_type' - 1 : OfType(ChildOrdering[k])' \subseteq transaction'
  <2> SUFFICES ASSUME NEW k \in 1 .. child_type' - 1, NEW task \in OfType(ChildOrdering[k])'
               PROVE  task \in transaction
    BY <1>1
  <2>1. task \in OfFirst /\ task \in Children' /\ TextOf[task] = ChildOrdering[k]
    BY <1>3 DEF OfType
  <2>2. AddedAfter[task] # statement
    BY <1>2, <1>8, <2>1, AddedInTime
  <2>3. task \in OfType(ChildOrdering[k])
    BY <1>1, <2>1, <2>2 DEF OfType
  <2>4. OfType(statement) \subseteq transaction
    <3>1. Members(<<>>) = {}
      BY NoMembers
    <3> QED BY <1>1, <3>1 DEF CompoundInv, AttemptInv
  <2> QED BY <1>2, <1>8, <2>3, <2>4 DEF CompoundInv, AttemptInv
<1>10. AttemptInv'
  <2>1. \A task \in OfFirst' :
          \/ AddedAfter[task] = Seeding
          \/ \E k \in 1 .. child_type' - 1 : ChildOrdering[k] = AddedAfter[task]
          => task \in Children'
    <3>1. \A task \in OfFirst :
            \/ AddedAfter[task] = Seeding
            \/ \E k \in 1 .. child_type - 1 : ChildOrdering[k] = AddedAfter[task]
            => task \in Children
      BY <1>2 DEF CompoundInv, AttemptInv
    <3> QED BY <1>1, <1>2, <1>3, <1>8, <3>1
  <2>2. transaction' \subseteq OfFirst' /\ child_list' = <<>> /\ sub_list' = <<>> /\ DOMAIN <<>> = {}
    BY <1>1, <1>2, <1>3 DEF CompoundInv, AttemptInv
  <2> QED BY <1>1, <1>2, <1>4, <1>9, <2>1, <2>2 DEF AttemptInv
<1> QED BY <1>5, <1>6, <1>7, <1>10 DEF CompoundInv

(* When every type has been executed, all the children of the parents of   *)
(* the list are in the transaction, and nothing else is.                   *)
LEMMA WholeTransaction ==
  ASSUME CompoundInv, child_type = Len(ChildOrdering) + 1
  PROVE  work # <<>> /\ statement = NoText /\ transaction = OfFirst
<1>1. child_type # 0 /\ child_type \notin DOMAIN ChildOrdering /\ 1 .. child_type - 1 = DOMAIN ChildOrdering
  BY OrderingAssumption
<1>2. work # <<>> /\ statement = NoText
  BY <1>1 DEF CompoundInv, AttemptInv
<1>3. transaction \subseteq OfFirst
  BY <1>2 DEF CompoundInv, AttemptInv
<1>4. ASSUME NEW task \in OfFirst PROVE task \in transaction
  <2>1. task \in Task
    BY <1>2, FirstList
  <2>2. AddedAfter[task] = Seeding \/ \E k \in DOMAIN ChildOrdering : ChildOrdering[k] = AddedAfter[task]
    BY <2>1, ChildrenAssumption, OrderingAssumption DEF Members
  <2>3. task \in Children
    BY <1>1, <2>2 DEF CompoundInv, AttemptInv
  <2>4. PICK k \in DOMAIN ChildOrdering : TextOf[task] = ChildOrdering[k]
    BY <2>1, TextAssumption, OrderingAssumption DEF Members
  <2>5. task \in OfType(ChildOrdering[k])
    BY <2>3, <2>4 DEF OfType
  <2> QED BY <1>1, <2>5 DEF CompoundInv, AttemptInv
<1> QED BY <1>2, <1>3, <1>4

(* Between two attempts nothing is left of the first.                      *)
LEMMA AttemptOver ==
  ASSUME transaction' = {}, child_type' = 0, statement' = NoText, child_list' = <<>>, sub_list' = <<>>
  PROVE  AttemptInv'
<1>1. DOMAIN <<>> = {} /\ 1 .. 0 - 1 = {}
  OBVIOUS
<1> QED BY <1>1 DEF AttemptInv

(* The end of the transaction commits all the children of the parents of   *)
(* the list, or none, and none of any other parent.                        *)
LEMMA CommittedByList ==
  ASSUME CompoundInv, child_type = Len(ChildOrdering) + 1, NEW parent \in Parent,
         committed' \in {committed, committed \cup transaction}
  PROVE  /\ parent \notin Parents => Committed(parent)' = Committed(parent)
         /\ parent \in Parents => /\ committed' = committed => Committed(parent)' = {}
                                  /\ committed' = committed \cup transaction =>
                                       Committed(parent)' = Members(ChildrenOf[parent])
<1>1. /\ work # <<>> /\ transaction = OfFirst /\ Parents \subseteq Waiting /\ Parents \subseteq Parent
      /\ OfFirst = UNION { Members(ChildrenOf[p]) : p \in Parents }
  BY WholeTransaction, FirstList
<1>2. ASSUME parent \notin Parents PROVE Members(ChildrenOf[parent]) \cap transaction = {}
  BY <1>1, <1>2, OneParent
<1>3. ASSUME parent \in Parents
      PROVE  Committed(parent) = {} /\ Members(ChildrenOf[parent]) \subseteq transaction
  BY <1>1, <1>3 DEF CompoundInv, ParentsInv
<1> QED BY <1>2, <1>3 DEF Committed

(* A list of parents has succeeded.                                        *)
LEMMA ParentListSuccessInv ==
  ASSUME CompoundInv, Parent_List_Success
  PROVE  CompoundInv'
<1>1. /\ child_type = Len(ChildOrdering) + 1 /\ connection = "CONNECTED" /\ transaction' = {}
      /\ connection' \in {"CONNECTED", "FATAL_ERROR"}
      /\ committed' \in {committed, committed \cup transaction}
      /\ connection' = "CONNECTED" => committed' = committed \cup transaction
      /\ successful_tasks' = successful_tasks \cup Parents
      /\ work' = Tail(work) /\ child_type' = 0
      /\ UNCHANGED <<added, PendingTasks, executing, Children, statement, child_list, failed_tasks, outcome>>
      /\ UNCHANGED <<Statements, sub_list, calls, stream, CurrentResultSet, result, first_failed_task, tried, received>>
  BY DEF Parent_List_Success, End_Transaction
<1>2. /\ work # <<>> /\ statement = NoText /\ sub_list = <<>> /\ child_list = <<>> /\ executing
      /\ transaction \subseteq Task
  BY <1>1, WholeTransaction DEF CompoundInv, AttemptInv, ParentsInv, TypeOK, ExecutionTypeOK
<1>3. /\ Parents \subseteq Waiting /\ Parents \subseteq Parent /\ Parents \subseteq AllOf(work)
      /\ Tail(work) \in Seq(Seq(Parent) \ {<<>>}) /\ Apart(Tail(work))
      /\ AllOf(Tail(work)) = AllOf(work) \ Parents
  BY <1>2, FirstList
<1>4. TypeOK'
  <2>1. child_type' \in 0 .. Len(ChildOrdering) + 1
    BY <1>1, OrderingAssumption
  <2> QED BY <1>1, <1>2, <1>3, <2>1 DEF CompoundInv, TypeOK, ExecutionTypeOK
<1>5. ListInv'
  BY <1>1, <1>4, ListUnchanged DEF CompoundInv, TypeOK, listVars
<1>6. AttemptInv'
  BY <1>1, <1>2, AttemptOver
<1>7. /\ \A p \in Parent \ Parents : Committed(p)' = Committed(p)
      /\ \A p \in Parents : /\ Committed(p)' \in {{}, Members(ChildrenOf[p])}
                            /\ connection' = "CONNECTED" => Committed(p)' = Members(ChildrenOf[p])
  BY <1>1, <1>3, CommittedByList
<1>8. \A p \in Parent : Members(ChildrenOf[p]) # {}
  BY AddedInTimeAssumption, ChildrenAssumption, MembersType
<1>9. ParentsInv'
  <2>1. Apart(work)' /\ AllOf(work)' = AllOf(work) \ Parents /\ Distinct(PendingTasks)'
    <3>1. AllOf(work)' = AllOf(Tail(work)) /\ Apart(work)'
      BY <1>1, <1>3 DEF Apart, AllOf
    <3>2. Distinct(PendingTasks)'
      BY <1>1 DEF Distinct, CompoundInv, ParentsInv
    <3> QED BY <1>3, <3>1, <3>2
  <2>2. Members(PendingTasks)' \cap AllOf(work)' = {} /\ Waiting' = Waiting \ Parents
    BY <1>1, <1>3, <2>1 DEF Waiting, CompoundInv, ParentsInv
  <2>3. Waiting \cup successful_tasks \cup failed_tasks \subseteq Parent
    BY DEF CompoundInv, ParentsInv, TypeOK
  <2>4. Parents \cap (failed_tasks \cup successful_tasks) = {} /\ Parents \cap (Parent \ added) = {}
    BY <1>3 DEF CompoundInv, ParentsInv
  <2>5. \A p \in Waiting' \cup failed_tasks \cup (Parent \ added) : Committed(p)' = {}
    BY <1>7, <2>2, <2>3, <2>4 DEF CompoundInv, ParentsInv
  <2>6. Connected' => \A p \in successful_tasks' : Committed(p)' # {}
    <3>1. ASSUME connection' = "CONNECTED", NEW p \in successful_tasks' PROVE Committed(p)' # {}
      <4>1. CASE p \in Parents
        BY <1>3, <1>7, <1>8, <3>1, <4>1
      <4>2. CASE p \notin Parents
        <5>1. p \in successful_tasks /\ p \in Parent
          BY <1>1, <2>3, <4>2
        <5> QED BY <1>1, <1>7, <4>2, <5>1 DEF CompoundInv, ParentsInv, Connected
      <4> QED BY <4>1, <4>2
    <3> QED BY <3>1 DEF Connected
  <2>7. AllOrNothing'
    BY <1>7 DEF CompoundInv, ParentsInv, AllOrNothing
  <2>8. \A p \in Parents : outcome[p] = "none"
    BY <1>3 DEF CompoundInv, ParentsInv
  <2> QED BY <1>1, <1>2, <1>3, <2>1, <2>2, <2>4, <2>5, <2>6, <2>7, <2>8 DEF CompoundInv, ParentsInv
<1> QED BY <1>4, <1>5, <1>6, <1>9 DEF CompoundInv

(* The parents to blame are of the list.                                   *)
LEMMA BlamedParents ==
  ASSUME CompoundInv, result \in {"FAILED_SPECIFIC_TASK", "FAILED_UNKNOWN_TASK"}
  PROVE  /\ sub_list # <<>> /\ work # <<>>
         /\ \A i \in DOMAIN sub_list : Get_ID(sub_list[i]) \in Parents
         /\ Bad_Parents \subseteq Parents
<1>1. sub_list # <<>>
  BY DEF CompoundInv, ListInv, NoListInv
<1>2. work # <<>> /\ \A task \in Members(sub_list) : task \in OfFirst
  BY <1>1, ChildrenInExecution
<1>3. ASSUME NEW i \in DOMAIN sub_list PROVE Get_ID(sub_list[i]) \in Parents
  <2>1. sub_list[i] \in OfFirst
    BY <1>2 DEF Members
  <2>2. PICK parent \in Parents : sub_list[i] \in Members(ChildrenOf[parent])
    BY <1>2, <2>1, FirstList
  <2>3. parent \in Parent
    BY <1>2, FirstList
  <2> QED BY <2>2, <2>3, OneParent
<1>4. result = "FAILED_SPECIFIC_TASK" => first_failed_task \in DOMAIN sub_list
  BY DEF CompoundInv, ListInv, ResultInv
<1> QED BY <1>1, <1>2, <1>3, <1>4 DEF Bad_Parents

(* The lists of parents when the first has failed.                         *)
LEMMA FailedParents ==
  ASSUME CompoundInv, Parent_List_Failure
  PROVE  work' \in Seq(Seq(Parent) \ {<<>>}) /\ Apart(work') /\ AllOf(work') = AllOf(work) \ Bad_Parents
<1> DEFINE rest == Sublist(work[1], Parents \ Bad_Parents)
           new  == IF Bad_Parents = {} THEN Singles(work[1]) ELSE IF rest = <<>> THEN <<>> ELSE <<rest>>
           old  == Tail(work)
           S    == Seq(Parent) \ {<<>>}
<1>1. work' = new \o old /\ work # <<>> /\ Bad_Parents \subseteq Parents
  BY BlamedParents DEF Parent_List_Failure
<1>2. /\ work[1] \in Seq(Parent) /\ Distinct(work[1]) /\ Parents \subseteq AllOf(work)
      /\ old \in Seq(S) /\ Apart(old) /\ AllOf(old) = AllOf(work) \ Parents
  BY <1>1, FirstList
<1>3. rest \in Seq(Parent) /\ Members(rest) = Parents \ Bad_Parents /\ Distinct(rest)
  <2>1. /\ rest \in Seq(Parent) /\ Members(rest) = Members(work[1]) \cap (Parents \ Bad_Parents)
        /\ Distinct(rest)
    BY <1>2, MembersSublist
  <2> QED BY <2>1 DEF Parents
<1> HIDE DEF rest
<1>4. new \in Seq(S) /\ Apart(new) /\ AllOf(new) = Parents \ Bad_Parents
  <2>1. CASE Bad_Parents = {}
    <3>1. Singles(work[1]) \in Seq(S) /\ Apart(Singles(work[1])) /\ AllOf(Singles(work[1])) = Members(work[1])
      BY <1>2, ApartSingles
    <3> QED BY <2>1, <3>1 DEF Parents
  <2>2. CASE Bad_Parents # {} /\ rest = <<>>
    <3>1. new = <<>>
      BY <2>2
    <3>2. <<>> \in Seq(S) /\ Apart(<<>>) /\ AllOf(<<>>) = {}
      <4>1. Apart(<<>>) /\ AllOf(<<>>) = {}
        BY <1>3, ApartOne
      <4>2. <<>> \in Seq(S)
        OBVIOUS
      <4> QED BY <4>1, <4>2
    <3>3. Members(rest) = {}
      BY <2>2, NoMembers
    <3> HIDE DEF S, new
    <3> QED BY <1>3, <3>1, <3>2, <3>3
  <2>3. CASE Bad_Parents # {} /\ rest # <<>>
    <3>1. new = <<rest>>
      BY <2>3
    <3>2. Apart(<<rest>>) /\ AllOf(<<rest>>) = Members(rest)
      BY <1>3, ApartOne
    <3>3. <<rest>> \in Seq(S)
      BY <1>3, <2>3
    <3> HIDE DEF S, new
    <3> QED BY <1>3, <3>1, <3>2, <3>3
  <2> QED BY <2>1, <2>2, <2>3
<1>5. AllOf(new) \cap AllOf(old) = {}
  BY <1>2, <1>4
<1> HIDE DEF new, old, S
<1>6. new \o old \in Seq(S) /\ Apart(new \o old) /\ AllOf(new \o old) = AllOf(new) \cup AllOf(old)
  BY <1>2, <1>4, <1>5, ApartConcat
<1>7. AllOf(new \o old) = AllOf(work) \ Bad_Parents
  BY <1>1, <1>2, <1>4, <1>6
<1> QED BY <1>1, <1>6, <1>7 DEF S

(* A list of parents has failed.                                           *)
LEMMA ParentListFailureInv ==
  ASSUME CompoundInv, Parent_List_Failure
  PROVE  CompoundInv'
<1>1. /\ result \in {"FAILED_SPECIFIC_TASK", "FAILED_UNKNOWN_TASK"}
      /\ connection = "CONNECTED" /\ transaction' = {} /\ committed' = committed
      /\ connection' \in {"CONNECTED", "FATAL_ERROR"}
      /\ failed_tasks' = failed_tasks \cup Bad_Parents
      /\ child_type' = 0 /\ statement' = NoText /\ child_list' = <<>>
      /\ Forget_List
      /\ UNCHANGED <<added, PendingTasks, executing, Children, successful_tasks, outcome>>
      /\ UNCHANGED <<Statements, tried, received>>
  BY DEF Parent_List_Failure, End_Transaction
<1>2. work # <<>> /\ Bad_Parents \subseteq Parents /\ executing
  BY <1>1, BlamedParents DEF CompoundInv, ParentsInv
<1>3. /\ Parents \subseteq Waiting /\ Parents \subseteq Parent /\ Parents \subseteq AllOf(work)
  BY <1>2, FirstList
<1>4. work' \in Seq(Seq(Parent) \ {<<>>}) /\ Apart(work') /\ AllOf(work') = AllOf(work) \ Bad_Parents
  BY FailedParents
<1>5. /\ sub_list' = <<>> /\ calls' = <<>> /\ stream' = <<>> /\ CurrentResultSet' = 0
      /\ result' = "none" /\ first_failed_task' = 0
  BY <1>1 DEF Forget_List
<1>6. TypeOK'
  <2>1. child_type' \in 0 .. Len(ChildOrdering) + 1
    BY <1>1, OrderingAssumption
  <2> QED BY <1>1, <1>2, <1>3, <1>4, <1>5, <2>1 DEF CompoundInv, TypeOK, ExecutionTypeOK
<1>7. ListInv'
  BY <1>1, <1>6, ListForgotten DEF TypeOK
<1>8. AttemptInv'
  BY <1>1, <1>5, AttemptOver
<1>9. ParentsInv'
  <2>1. Apart(work)' /\ AllOf(work)' = AllOf(work) \ Bad_Parents /\ Distinct(PendingTasks)'
    BY <1>1, <1>4 DEF Apart, AllOf, Distinct, CompoundInv, ParentsInv
  <2>2. Members(PendingTasks)' \cap AllOf(work)' = {} /\ Waiting' = Waiting \ Bad_Parents
    BY <1>1, <1>2, <1>3, <2>1 DEF Waiting, CompoundInv, ParentsInv
  <2>3. \A p \in Parent : Committed(p)' = Committed(p)
    BY <1>1 DEF Committed
  <2>4. AllOrNothing'
    BY <2>3 DEF CompoundInv, ParentsInv, AllOrNothing
  <2>5. /\ Waiting \cup successful_tasks \cup failed_tasks \subseteq Parent
        /\ Bad_Parents \subseteq Waiting
    BY <1>2, <1>3 DEF CompoundInv, ParentsInv, TypeOK
  <2>6. Connected' => Connected
    BY <1>1 DEF Connected
  <2>7. Connected' => \A p \in successful_tasks' : Committed(p)' # {}
    BY <1>1, <2>3, <2>5, <2>6 DEF CompoundInv, ParentsInv
  <2>8. \A p \in Waiting' \cup failed_tasks' \cup (Parent \ added)' : Committed(p)' = {}
    BY <1>1, <2>2, <2>3, <2>5 DEF CompoundInv, ParentsInv
  <2> QED BY <1>1, <1>2, <2>1, <2>2, <2>4, <2>5, <2>7, <2>8 DEF CompoundInv, ParentsInv
<1> QED BY <1>6, <1>7, <1>8, <1>9 DEF CompoundInv

(* Whatever a batch does, it stays in the invariant.                       *)
LEMMA StepInv == CompoundInv /\ [Next]_vars => CompoundInv'
<1> SUFFICES ASSUME CompoundInv, [Next]_vars PROVE CompoundInv'
  OBVIOUS
<1>1. CASE Execute_Tasks
  BY <1>1, ExecuteTasksInv
<1>2. CASE Splice_Sub_List
  BY <1>2, SpliceSubListInv
<1>3. CASE Seed_Child_Tasks
  BY <1>3, SeedChildTasksInv
<1>4. CASE Next_Child_Type
  BY <1>4, NextChildTypeInv
<1>5. CASE Execute_Child_Sub_List
  BY <1>5, ExecuteChildSubListInv
<1>6. CASE Fetch_Results /\ UNCHANGED batchVars
  BY <1>6, FetchResultsInv
<1>7. CASE Child_Sub_List_Success
  BY <1>7, ChildSubListSuccessInv
<1>8. CASE On_Child_Task_Success
  BY <1>8, OnChildTaskSuccessInv
<1>9. CASE Parent_List_Success
  BY <1>9, ParentListSuccessInv
<1>10. CASE Parent_List_Failure
  BY <1>10, ParentListFailureInv
<1>11. CASE Tasks_Executed
  BY <1>11, TasksExecutedInv
<1>12. ASSUME NEW parent \in Parent, Add_Task(parent) PROVE CompoundInv'
  BY <1>12, AddTaskInv
<1>13. CASE UNCHANGED vars
  <2>1. UNCHANGED <<executionVars, batchVars>>
    BY <1>13 DEF vars
  <2>2. TypeOK'
    BY <2>1 DEF CompoundInv, TypeOK, ExecutionTypeOK, executionVars, batchVars
  <2>3. ListInv'
    BY <2>1, <2>2, ListUnchanged DEF CompoundInv, TypeOK, executionVars, listVars
  <2>4. ParentsInv' /\ AttemptInv'
    BY <2>1, Unchanged DEF executionVars, batchVars
  <2> QED BY <2>2, <2>3, <2>4 DEF CompoundInv
<1> QED BY <1>1, <1>2, <1>3, <1>4, <1>5, <1>6, <1>7, <1>8, <1>9, <1>10, <1>11, <1>12, <1>13 DEF Next, Batch_Step

(* The invariant always holds.                                             *)
THEOREM Invariant == Spec => []CompoundInv
BY InitInv, StepInv, PTL DEF Spec

-----------------------------------------------------------------------------
(* What follows from the invariant.                                        *)

(* Every variable of the batch keeps its type.                             *)
THEOREM TypeCorrect == Spec => []TypeOK
<1>1. CompoundInv => TypeOK
  BY DEF CompoundInv
<1> QED BY <1>1, Invariant, PTL

(* All of the children of a compound task are committed or none is.        *)
THEOREM ParentsAtomic == Spec => []AllOrNothing
<1>1. CompoundInv => AllOrNothing
  BY DEF CompoundInv, ParentsInv
<1> QED BY <1>1, Invariant, PTL

(* When children are executed, all the children of earlier types of all    *)
(* the parents of the list are in the same transaction.                    *)
THEOREM TypesInOrder == Spec => []ChildrenInOrder
<1>1. CompoundInv => ChildrenInOrder
  <2> SUFFICES ASSUME CompoundInv, sub_list # <<>>, NEW k \in 1 .. child_type - 1
               PROVE  Members(Get_Child_Tasks_Of_Type(ChildOrdering[k])) \subseteq transaction
    BY DEF ChildrenInOrder
  <2>1. work # <<>>
    BY ChildrenInExecution
  <2>2. Members(Get_Child_Tasks_Of_Type(ChildOrdering[k])) = OfType(ChildOrdering[k])
    BY <2>1, FirstList
  <2> QED BY <2>2 DEF CompoundInv, AttemptInv
<1> QED BY <1>1, Invariant, PTL

(* A compound task is blamed only when a call of a child of its own went   *)
(* wrong, or some call of the list did not select exactly once.            *)
THEOREM NoInnocentParentFails == Spec => []OnlyFaultyParentsFail
<1>1. CompoundInv => OnlyFaultyParentsFail
  <2> SUFFICES ASSUME CompoundInv, result \in {"FAILED_SPECIFIC_TASK", "FAILED_UNKNOWN_TASK"},
                      ~(Some_Call("missing") \/ Some_Call("extra")), NEW parent \in Bad_Parents
               PROVE  \E i \in DOMAIN calls : Get_ID(sub_list[i]) = parent /\ Faulty(i)
    BY DEF OnlyFaultyParentsFail
  <2>1. /\ work # <<>> /\ Bad_Parents \subseteq Parents
        /\ \A i \in DOMAIN sub_list : Get_ID(sub_list[i]) \in Parents
        /\ DOMAIN calls = DOMAIN sub_list
    BY BlamedParents DEF CompoundInv, ListInv, ExecutionTypeOK, CallsInv
  <2>2. CASE Cardinality(Parents) = 1
    <3>1. IsFiniteSet(Parents)
      <4>1. work[1] \in Seq(Parent)
        BY <2>1, FirstList
      <4>2. work[1] \in Surjection(1 .. Len(work[1]), Parents)
        BY <4>1 DEF Surjection, Parents, Members
      <4>3. IsFiniteSet(1 .. Len(work[1]))
        BY <4>1, FS_Interval
      <4> QED BY <4>2, <4>3, FS_Surjection
    <3>2. PICK only : Parents = {only}
      BY <2>2, <3>1, FS_Singleton
    <3>3. PICK i \in DOMAIN calls : Faulty(i)
      BY DEF CompoundInv, ListInv, ResultInv
    <3> QED BY <2>1, <3>2, <3>3
  <2>3. CASE Cardinality(Parents) # 1
    <3>1. result = "FAILED_SPECIFIC_TASK" /\ parent = Get_ID(sub_list[first_failed_task])
      BY <2>3 DEF Bad_Parents
    <3>2. first_failed_task \in DOMAIN sub_list /\ Faulty(first_failed_task)
      BY <3>1 DEF CompoundInv, ListInv, ResultInv
    <3> QED BY <2>1, <3>1, <3>2
  <2> QED BY <2>2, <2>3
<1> QED BY <1>1, Invariant, PTL

-----------------------------------------------------------------------------
(* The batch implements DatabaseService.                                   *)

Applied == { parent \in Parent : Committed(parent) # {} }

(* The end of a transaction applies all the parents of its list or none.   *)
LEMMA ParentsApplied ==
  ASSUME CompoundInv, Parent_List_Success
  PROVE  Service!Apply
<1>1. /\ child_type = Len(ChildOrdering) + 1 /\ connection = "CONNECTED"
      /\ connection' \in {"CONNECTED", "FATAL_ERROR"}
      /\ committed' \in {committed, committed \cup transaction}
      /\ UNCHANGED <<added, outcome>>
  BY DEF Parent_List_Success, End_Transaction
<1>2. work # <<>> /\ Parents \subseteq Waiting /\ Parents \subseteq Parent
  BY <1>1, WholeTransaction, FirstList
<1>3. Parents \in SUBSET (Service!Unanswered \ Applied) /\ {} \in SUBSET (Service!Unanswered \ Applied)
  BY <1>2 DEF Service!Unanswered, Applied, CompoundInv, ParentsInv
<1>4. \A p \in Parent : Members(ChildrenOf[p]) # {}
  BY AddedInTimeAssumption, ChildrenAssumption, MembersType
<1>5. Applied' = Applied \cup {} \/ Applied' = Applied \cup Parents
  <2>1. CASE committed' = committed
    BY <2>1 DEF Applied, Committed
  <2>2. CASE committed' = committed \cup transaction
    <3>1. \A p \in Parent : IF p \in Parents THEN Committed(p)' # {} ELSE Committed(p)' = Committed(p)
      BY <1>1, <1>4, <2>2, CommittedByList
    <3> QED BY <1>2, <3>1 DEF Applied
  <2> QED BY <1>1, <2>1, <2>2
<1>6. \E parents \in SUBSET (Service!Unanswered \ Applied) : Applied' = Applied \cup parents
  BY <1>3, <1>5
<1>7. Connected /\ (~Connected)' \in {~Connected, TRUE}
  BY <1>1 DEF Connected
<1> QED BY <1>1, <1>6, <1>7 DEF Service!Apply, Applied

(* Outcomes are true.                                                      *)
LEMMA TrueOutcomes ==
  ASSUME CompoundInv, Tasks_Executed
  PROVE  Service!Answer
<1>1. /\ executing
      /\ outcome' = [parent \in Parent |-> IF parent \in successful_tasks THEN "success"
                                           ELSE IF parent \in failed_tasks THEN "failure" ELSE outcome[parent]]
      /\ UNCHANGED <<added, executionVars>>
  BY DEF Tasks_Executed
<1>2. successful_tasks \in SUBSET Service!Unanswered
  BY <1>1 DEF Service!Unanswered, CompoundInv, ParentsInv
<1>3. failed_tasks \in SUBSET (Service!Unanswered \ (Applied \cup successful_tasks))
  BY <1>1 DEF Service!Unanswered, CompoundInv, ParentsInv, Applied
<1>4. successful_tasks \subseteq Applied \/ ~Connected
  BY DEF CompoundInv, TypeOK, ParentsInv, Applied
<1>5. Applied' = Applied /\ (~Connected)' = ~Connected
  BY <1>1 DEF executionVars, Connected, Applied, Committed
<1> QED BY <1>1, <1>2, <1>3, <1>4, <1>5 DEF Service!Answer, Applied

(* What compound tasks are told is true: what is committed of them is      *)
(* committed before the outcome is known, and never after.                 *)
THEOREM Refinement == Spec => ImplementsDatabaseService
<1>1. Init => Service!Init
  BY DEF Init, ExecutionInit, Service!Init, Connected, Committed
<1>2. CompoundInv /\ [Next]_vars => [Service!Next]_Service!serviceVars
  <2> SUFFICES ASSUME CompoundInv, [Next]_vars PROVE [Service!Next]_Service!serviceVars
    OBVIOUS
  <2>1. ASSUME NEW parent \in Parent, Add_Task(parent) PROVE Service!Ask
    <3>1. parent \in Parent \ added /\ added' = added \cup {parent} /\ UNCHANGED <<outcome, executionVars>>
      BY <2>1 DEF Add_Task
    <3>2. Applied' = Applied /\ (~Connected)' = ~Connected
      BY <3>1 DEF executionVars, Connected, Applied, Committed
    <3> QED BY <3>1, <3>2 DEF Service!Ask, Applied
  <2>2. CASE Parent_List_Success
    BY <2>2, ParentsApplied DEF Service!Next
  <2>3. CASE Parent_List_Failure
    <3>1. /\ Connected /\ (~Connected)' \in {~Connected, TRUE} /\ UNCHANGED <<added, outcome, committed>>
      BY <2>3 DEF Parent_List_Failure, End_Transaction, Connected
    <3>2. Applied' = Applied \cup {}
      BY <3>1 DEF Applied, Committed
    <3>3. Service!Apply
      BY <3>1, <3>2 DEF Service!Apply, Applied
    <3> QED BY <3>3 DEF Service!Next
  <2>4. CASE Tasks_Executed
    BY <2>4, TrueOutcomes DEF Service!Next
  <2>5. CASE \/ Execute_Tasks \/ Splice_Sub_List \/ Seed_Child_Tasks \/ Next_Child_Type \/ Execute_Child_Sub_List
             \/ Fetch_Results /\ UNCHANGED batchVars
             \/ Child_Sub_List_Success \/ On_Child_Task_Success \/ UNCHANGED vars
    <3>1. UNCHANGED <<committed, connection>>
      BY <2>5 DEF Execute_Tasks, Splice_Sub_List, Seed_Child_Tasks, Next_Child_Type, Execute_Child_Sub_List, Execute,
                  Fetch_Results, More_Result_Sets, Bad_Result_Set, Finish_Result_Set, Fails, Child_Sub_List_Success,
                  On_Child_Task_Success, executionVars, vars
    <3>2. UNCHANGED <<added, outcome>>
      BY <2>5 DEF Execute_Tasks, Splice_Sub_List, Seed_Child_Tasks, Next_Child_Type, Execute_Child_Sub_List,
                  Child_Sub_List_Success, On_Child_Task_Success, batchVars, vars
    <3>3. Applied' = Applied /\ (~Connected)' = ~Connected
      BY <3>1 DEF Connected, Applied, Committed
    <3> QED BY <3>2, <3>3 DEF Service!serviceVars, Applied
  <2> QED BY <2>1, <2>2, <2>3, <2>4, <2>5 DEF Next, Batch_Step, Service!Next
<1> QED BY <1>1, <1>2, Invariant, PTL DEF Spec, ImplementsDatabaseService, Service!Spec

=============================================================================
