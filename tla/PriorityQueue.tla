---------------------------- MODULE PriorityQueue ----------------------------
(***************************************************************************)
(* TPriorityQueue with CScheduledTaskMovementPolicy: a binary heap of      *)
(* scheduled tasks, ordered by execute time, in which every task tracks    *)
(* its own index so that it can be removed from the middle.                *)
(*                                                                         *)
(* An operation is its own step up to the loops that restore the order of  *)
(* the heap; every turn of Heapify_Push_Up and Heapify_Push_Down is a step *)
(* of its own, and heapify says which loop runs and where.                 *)
(***************************************************************************)
EXTENDS Integers, Sequences

CONSTANT Task

VARIABLES
  Elements,      \* the heap from index 1 on; the zeroth element is not used
  HeapIndex,     \* HeapIndex[task]: CScheduledTask::HeapIndex, 0 when not in the heap
  ExecuteTime,   \* ExecuteTime[task]: CScheduledTask::ExecuteTimeSeconds
  heapify        \* the loop under way: its direction, its current_index, and the index
                 \* from which Heapify_Push_Down follows, or 0

queueVars == <<Elements, HeapIndex, ExecuteTime, heapify>>

Loop(dir, at, next) == [dir |-> dir, at |-> at, next |-> next]
Settled             == Loop("none", 0, 0)

QueueTypeOK ==
  /\ Elements \in Seq(Task)
  /\ HeapIndex \in [Task -> Nat]
  /\ ExecuteTime \in [Task -> Nat]
  /\ heapify \in [dir : {"none", "up", "down"}, at : Nat, next : Nat]

QueueInit ==
  /\ Elements = <<>>
  /\ HeapIndex = [task \in Task |-> 0]
  /\ ExecuteTime = [task \in Task |-> 0]
  /\ heapify = Settled

Count              == Len(Elements)
Is_Scheduled(task) == HeapIndex[task] > 0

(* Comparator( Elements[ i ], Elements[ j ] ).                             *)
Sooner(i, j) == ExecuteTime[Elements[i]] < ExecuteTime[Elements[j]]

(* Mutant of the next: the elements change places, their indexes do not.   *)
Swap_Elements_Only(i, j) ==
  /\ Elements' = [Elements EXCEPT ![i] = Elements[j], ![j] = Elements[i]]
  /\ UNCHANGED HeapIndex

(* MovementPolicy::Swap: the elements and their indexes change places.     *)
Swap(i, j) ==
  /\ Elements' = [Elements EXCEPT ![i] = Elements[j], ![j] = Elements[i]]
  /\ HeapIndex' = [HeapIndex EXCEPT ![Elements[i]] = HeapIndex[Elements[j]],
                                    ![Elements[j]] = HeapIndex[Elements[i]]]

(* Swap with the last element, which then leaves the heap with index 0.    *)
Take_Out(index) ==
  LET last == Elements[Count]
  IN /\ Elements' = [i \in 1 .. Count - 1 |-> IF i = index THEN last ELSE Elements[i]]
     /\ HeapIndex' = [HeapIndex EXCEPT ![last] = HeapIndex[Elements[index]], ![Elements[index]] = 0]

Insert(task) ==
  /\ Elements' = Append(Elements, task)
  /\ HeapIndex' = [HeapIndex EXCEPT ![task] = Count + 1]
  /\ heapify' = Loop("up", Count + 1, 0)

Pop ==
  /\ Take_Out(1)
  /\ heapify' = Loop("down", 1, 0)

(* Mutant of the next: what fills the gap can only be too late for it.     *)
Remove_Push_Down_Only(index) ==
  /\ index \in 1 .. Count
  /\ Take_Out(index)
  /\ heapify' = IF index # Count THEN Loop("down", index, 0) ELSE Settled

Remove_By_Index(index) ==
  /\ index \in 1 .. Count                                     \* FATAL_ASSERT
  /\ Take_Out(index)
  /\ heapify' = IF index # Count THEN Loop("up", index, index) ELSE Settled

-----------------------------------------------------------------------------

Get_Parent_Index(index)      == index \div 2
Get_Left_Child_Index(index)  == 2 * index
Get_Right_Child_Index(index) == 2 * index + 1

(* Mutant of the next: the right child is compared with the element only.  *)
Right_If_Sooner(index) ==
  LET left  == Get_Left_Child_Index(index)
      right == Get_Right_Child_Index(index)
      swap  == IF left <= Count /\ Sooner(left, index) THEN left ELSE index
  IN IF right <= Count /\ Sooner(right, index) THEN right ELSE swap

(* The smaller child, if it is smaller than the element itself.            *)
Swap_Index(index) ==
  LET left  == Get_Left_Child_Index(index)
      right == Get_Right_Child_Index(index)
      swap  == IF left <= Count /\ Sooner(left, index) THEN left ELSE index
  IN IF right <= Count /\ Sooner(right, swap) THEN right ELSE swap

Heapify_Push_Up ==
  LET at == heapify.at
      parent == Get_Parent_Index(at)
  IN /\ heapify.dir = "up"
     /\ IF at > 1 /\ Sooner(at, parent)
        THEN Swap(at, parent) /\ heapify' = [heapify EXCEPT !.at = parent]
        ELSE /\ heapify' = IF heapify.next = 0 THEN Settled ELSE Loop("down", heapify.next, 0)
             /\ UNCHANGED <<Elements, HeapIndex>>
     /\ UNCHANGED ExecuteTime

Heapify_Push_Down ==
  LET at == heapify.at
  IN /\ heapify.dir = "down"
     /\ IF Swap_Index(at) # at
        THEN Swap(at, Swap_Index(at)) /\ heapify' = [heapify EXCEPT !.at = Swap_Index(at)]
        ELSE heapify' = Settled /\ UNCHANGED <<Elements, HeapIndex>>
     /\ UNCHANGED ExecuteTime

Heapify == Heapify_Push_Up \/ Heapify_Push_Down

-----------------------------------------------------------------------------

(* Every task knows its own place: what Remove_Task hands to the queue is  *)
(* the index of that task and of no other.                                 *)
TracksHeapIndex ==
  /\ \A i \in DOMAIN Elements : HeapIndex[Elements[i]] = i
  /\ \A task \in Task : Is_Scheduled(task) => HeapIndex[task] \in DOMAIN Elements /\ Elements[HeapIndex[task]] = task

(* No element is to execute before its parent, once the loops have ended.  *)
HeapOrder ==
  heapify = Settled =>
    \A i \in DOMAIN Elements : i > 1 => ~Sooner(i, Get_Parent_Index(i))

(* The element that a loop is moving may be too soon for its parent while  *)
(* it goes up, too late for its children while it goes down, and either    *)
(* before Remove_By_Index has moved it at all.                             *)
Out_Of_Place(i) ==
  \/ heapify.dir = "up" /\ i = heapify.at
  \/ heapify.dir = "up" /\ heapify.at = heapify.next /\ Get_Parent_Index(i) = heapify.at
  \/ heapify.dir = "down" /\ Get_Parent_Index(i) = heapify.at

(* Why the heap is in order again when the loops end: all but the element  *)
(* that moves are in order, and those below it are no sooner than the one  *)
(* above it.                                                               *)
HeapInv ==
  /\ heapify.dir = "none" => heapify = Settled
  /\ heapify.dir = "up" => heapify.at \in DOMAIN Elements
  /\ heapify.dir = "down" => heapify.at >= 1
  /\ \A i \in DOMAIN Elements : i > 1 /\ ~Out_Of_Place(i) => ~Sooner(i, Get_Parent_Index(i))
  /\ \A i \in DOMAIN Elements :
       heapify.at > 1 /\ Get_Parent_Index(i) = heapify.at => ~Sooner(i, Get_Parent_Index(heapify.at))
=============================================================================
