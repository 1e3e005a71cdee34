-------------------------- MODULE TaskSchedulerProofs --------------------------
(***************************************************************************)
(* The task scheduler, for any number of tasks and any granularity: every  *)
(* task tracks its own index, the heap is in order whenever its loops have *)
(* ended, and the scheduler implements Agenda.                             *)
(***************************************************************************)
EXTENDS TaskScheduler, SequenceTheorems, WellFoundedInduction, TLAPS

(* The shape of the implicit tree.                                         *)
LEMMA Parent ==
  ASSUME NEW i \in Nat, i > 1
  PROVE  Get_Parent_Index(i) \in Nat /\ Get_Parent_Index(i) >= 1 /\ Get_Parent_Index(i) < i
BY SMT DEF Get_Parent_Index

LEMMA Children ==
  ASSUME NEW i \in Nat, NEW c \in Nat, Get_Parent_Index(c) = i
  PROVE  c = Get_Left_Child_Index(i) \/ c = Get_Right_Child_Index(i)
BY SMT DEF Get_Parent_Index, Get_Left_Child_Index, Get_Right_Child_Index

(* What Swap does to two places of the heap and the indexes of the tasks.  *)
LEMMA Swapped ==
  ASSUME QueueTypeOK, TracksHeapIndex,
         NEW i \in DOMAIN Elements, NEW j \in DOMAIN Elements, Swap(i, j)
  PROVE  /\ Elements' \in Seq(Task)
         /\ Len(Elements') = Len(Elements)
         /\ HeapIndex' \in [Task -> Nat]
         /\ TracksHeapIndex'
         /\ \A task \in Task : Is_Scheduled(task)' <=> Is_Scheduled(task)
         /\ \A k \in DOMAIN Elements :
              Elements'[k] = IF k = i THEN Elements[j] ELSE IF k = j THEN Elements[i] ELSE Elements[k]
<1>1. Elements' \in Seq(Task) /\ Len(Elements') = Len(Elements) /\ DOMAIN Elements' = DOMAIN Elements
  BY DEF QueueTypeOK, Swap
<1>2. /\ Len(Elements) \in Nat /\ DOMAIN Elements = 1 .. Len(Elements)
      /\ \A k \in DOMAIN Elements : Elements[k] \in Task /\ HeapIndex[Elements[k]] = k
  BY DEF QueueTypeOK, TracksHeapIndex
<1>3. \A k \in DOMAIN Elements :
        Elements'[k] = IF k = i THEN Elements[j] ELSE IF k = j THEN Elements[i] ELSE Elements[k]
  BY <1>2 DEF QueueTypeOK, Swap
<1>4. HeapIndex' \in [Task -> Nat]
  BY <1>2 DEF QueueTypeOK, Swap
<1>5. \A task \in Task : HeapIndex'[task] = IF task = Elements[j] THEN i
                                            ELSE IF task = Elements[i] THEN j ELSE HeapIndex[task]
  BY <1>2 DEF QueueTypeOK, Swap
<1>6. TracksHeapIndex'
  <2>1. ASSUME NEW k \in DOMAIN Elements'
        PROVE  HeapIndex'[Elements'[k]] = k
    <3>1. Elements'[k] \in Task
      BY <1>1, <1>2, <1>3
    <3>2. CASE k = i
      BY <1>1, <1>2, <1>3, <1>5, <3>1, <3>2
    <3>3. CASE k = j /\ k # i
      BY <1>1, <1>2, <1>3, <1>5, <3>1, <3>3
    <3>4. CASE k # i /\ k # j
      BY <1>1, <1>2, <1>3, <1>5, <3>1, <3>4
    <3> QED BY <3>2, <3>3, <3>4
  <2>2. ASSUME NEW task \in Task, HeapIndex'[task] > 0
        PROVE  HeapIndex'[task] \in DOMAIN Elements' /\ Elements'[HeapIndex'[task]] = task
    <3>1. CASE task = Elements[j]
      BY <1>1, <1>2, <1>3, <1>5, <3>1
    <3>2. CASE task = Elements[i] /\ task # Elements[j]
      BY <1>1, <1>2, <1>3, <1>5, <3>2
    <3>3. CASE task # Elements[i] /\ task # Elements[j]
      <4>1. HeapIndex'[task] = HeapIndex[task]
        BY <1>5, <3>3
      <4>2. HeapIndex[task] \in DOMAIN Elements /\ Elements[HeapIndex[task]] = task
        BY <2>2, <4>1 DEF TracksHeapIndex, Is_Scheduled
      <4>3. HeapIndex[task] # i /\ HeapIndex[task] # j
        BY <3>3, <4>2
      <4> QED BY <1>1, <1>3, <4>1, <4>2, <4>3
    <3> QED BY <3>1, <3>2, <3>3
  <2> QED BY <2>1, <2>2 DEF TracksHeapIndex, Is_Scheduled
<1>7. \A task \in Task : Is_Scheduled(task)' <=> Is_Scheduled(task)
  BY <1>2, <1>5 DEF Is_Scheduled
<1> QED BY <1>1, <1>3, <1>4, <1>6, <1>7

(* What Take_Out leaves of the heap.                                       *)
LEMMA TakenOut ==
  ASSUME QueueTypeOK, TracksHeapIndex, NEW index \in DOMAIN Elements, Take_Out(index)
  PROVE  /\ Elements' \in Seq(Task)
         /\ Len(Elements') = Len(Elements) - 1 /\ DOMAIN Elements' = 1 .. Len(Elements) - 1
         /\ HeapIndex' \in [Task -> Nat]
         /\ TracksHeapIndex'
         /\ \A k \in DOMAIN Elements' : Elements'[k] = IF k = index THEN Elements[Len(Elements)] ELSE Elements[k]
         /\ \A task \in Task : Is_Scheduled(task)' <=> Is_Scheduled(task) /\ task # Elements[index]
<1> DEFINE n == Len(Elements)
<1>1. n \in Nat /\ n >= 1 /\ DOMAIN Elements = 1 .. n /\ index \in 1 .. n
  BY DEF QueueTypeOK
<1>2. Elements' = [k \in 1 .. n - 1 |-> IF k = index THEN Elements[n] ELSE Elements[k]]
  BY DEF Take_Out, Count
<1>3. Elements' \in Seq(Task) /\ Len(Elements') = n - 1 /\ DOMAIN Elements' = 1 .. n - 1
  <2>1. \A k \in 1 .. n : Elements[k] \in Task
    BY <1>1 DEF QueueTypeOK
  <2>2. Elements' \in [1 .. n - 1 -> Task]
    BY <1>1, <1>2, <2>1
  <2>3. n - 1 \in Nat
    BY <1>1
  <2>4. Elements' \in Seq(Task)
    BY <2>2, <2>3, SeqDef
  <2>5. DOMAIN Elements' = 1 .. n - 1 /\ DOMAIN Elements' = 1 .. Len(Elements') /\ Len(Elements') \in Nat
    BY <2>2, <2>4, LenProperties
  <2> QED BY <2>3, <2>4, <2>5
<1>4. \A k \in DOMAIN Elements' : Elements'[k] = IF k = index THEN Elements[n] ELSE Elements[k]
  BY <1>2, <1>3
<1>5. HeapIndex[Elements[index]] = index /\ HeapIndex[Elements[n]] = n
      /\ Elements[index] \in Task /\ Elements[n] \in Task
  BY <1>1 DEF TracksHeapIndex, QueueTypeOK
<1>6. HeapIndex' \in [Task -> Nat]
  BY <1>5 DEF QueueTypeOK, Take_Out, Count
<1>7. \A task \in Task : HeapIndex'[task] = IF task = Elements[index] THEN 0
                                            ELSE IF task = Elements[n] THEN index ELSE HeapIndex[task]
  BY <1>5 DEF QueueTypeOK, Take_Out, Count
<1>8. TracksHeapIndex'
  <2>1. ASSUME NEW k \in DOMAIN Elements'
        PROVE  HeapIndex'[Elements'[k]] = k
    <3>1. k \in 1 .. n - 1 /\ k \in DOMAIN Elements
      BY <1>1, <1>3
    <3>2. Elements[k] \in Task /\ HeapIndex[Elements[k]] = k
      BY <3>1 DEF TracksHeapIndex, QueueTypeOK
    <3> QED BY <1>1, <1>4, <1>5, <1>7, <3>1, <3>2
  <2>2. ASSUME NEW task \in Task, HeapIndex'[task] > 0
        PROVE  HeapIndex'[task] \in DOMAIN Elements' /\ Elements'[HeapIndex'[task]] = task
    <3>1. task # Elements[index]
      BY <1>7, <2>2
    <3>2. CASE task = Elements[n]
      BY <1>1, <1>3, <1>4, <1>5, <1>7, <3>1, <3>2
    <3>3. CASE task # Elements[n]
      <4>1. HeapIndex'[task] = HeapIndex[task] /\ HeapIndex[task] \in 1 .. n /\ Elements[HeapIndex[task]] = task
        BY <1>1, <1>7, <2>2, <3>1, <3>3 DEF TracksHeapIndex, Is_Scheduled
      <4> QED BY <1>1, <1>3, <1>4, <3>1, <3>3, <4>1
    <3> QED BY <3>2, <3>3
  <2> QED BY <2>1, <2>2 DEF TracksHeapIndex, Is_Scheduled
<1>9. \A task \in Task : Is_Scheduled(task)' <=> Is_Scheduled(task) /\ task # Elements[index]
  BY <1>1, <1>5, <1>7 DEF Is_Scheduled
<1> QED BY <1>3, <1>4, <1>5, <1>6, <1>7, <1>8, <1>9

(* The empty heap is in order.                                             *)
LEMMA QueueInitially == QueueInit => QueueTypeOK /\ TracksHeapIndex /\ HeapInv
<1> SUFFICES ASSUME QueueInit PROVE QueueTypeOK /\ TracksHeapIndex /\ HeapInv
  OBVIOUS
<1> QED BY DEF QueueInit, QueueTypeOK, TracksHeapIndex, HeapInv, Is_Scheduled, Settled, Loop

(* A task that is not in the heap may get another time, and be inserted.   *)
LEMMA Inserted ==
  ASSUME QueueTypeOK, TracksHeapIndex, HeapInv, heapify = Settled,
         NEW task \in Task, ~Is_Scheduled(task), NEW time \in Nat,
         ExecuteTime' = [ExecuteTime EXCEPT ![task] = time], Insert(task)
  PROVE  QueueTypeOK' /\ TracksHeapIndex' /\ HeapInv'
<1> DEFINE n == Len(Elements)
<1>1. /\ n \in Nat /\ DOMAIN Elements = 1 .. n
      /\ \A k \in 1 .. n : Elements[k] \in Task /\ HeapIndex[Elements[k]] = k /\ Elements[k] # task
      /\ HeapIndex[task] = 0
  BY DEF QueueTypeOK, TracksHeapIndex, Is_Scheduled
<1>2. /\ Elements' \in Seq(Task) /\ Len(Elements') = n + 1 /\ DOMAIN Elements' = 1 .. n + 1
      /\ \A k \in 1 .. n + 1 : Elements'[k] = IF k = n + 1 THEN task ELSE Elements[k]
  BY <1>1 DEF QueueTypeOK, Insert
<1>3. QueueTypeOK'
  BY <1>1, <1>2 DEF QueueTypeOK, Insert, Loop, Count
<1>4. TracksHeapIndex'
  <2>1. \A t \in Task : HeapIndex'[t] = IF t = task THEN n + 1 ELSE HeapIndex[t]
    BY DEF QueueTypeOK, Insert, Count
  <2>2. ASSUME NEW k \in DOMAIN Elements'
        PROVE  HeapIndex'[Elements'[k]] = k
    BY <1>1, <1>2, <2>1
  <2>3. ASSUME NEW t \in Task, HeapIndex'[t] > 0
        PROVE  HeapIndex'[t] \in DOMAIN Elements' /\ Elements'[HeapIndex'[t]] = t
    <3>1. CASE t = task
      BY <1>1, <1>2, <2>1, <3>1
    <3>2. CASE t # task
      <4>1. HeapIndex[t] \in 1 .. n /\ Elements[HeapIndex[t]] = t
        BY <1>1, <2>1, <2>3, <3>2 DEF TracksHeapIndex, Is_Scheduled
      <4> QED BY <1>1, <1>2, <2>1, <3>2, <4>1
    <3> QED BY <3>1, <3>2
  <2> QED BY <2>2, <2>3 DEF TracksHeapIndex, Is_Scheduled
<1>5. HeapInv'
  <2>1. heapify' = [dir |-> "up", at |-> n + 1, next |-> 0]
    BY DEF Insert, Loop, Count
  <2>2. ASSUME NEW k \in 1 .. n
        PROVE  ExecuteTime'[Elements'[k]] = ExecuteTime[Elements[k]]
    <3>1. Elements'[k] = Elements[k]
      <4>1. k \in 1 .. n + 1 /\ k # n + 1
        BY <1>1
      <4> QED BY <1>2, <4>1
    <3>2. Elements[k] \in Task /\ Elements[k] # task
      BY <1>1
    <3>3. ExecuteTime \in [Task -> Nat]
      BY DEF QueueTypeOK
    <3>4. ExecuteTime'[Elements[k]] = ExecuteTime[Elements[k]]
      BY <3>2, <3>3
    <3> QED BY <3>1, <3>4
  <2>3. ASSUME NEW i \in 1 .. n, i > 1
        PROVE  ~(ExecuteTime[Elements[i]] < ExecuteTime[Elements[Get_Parent_Index(i)]])
    BY <1>1, <2>3 DEF HeapInv, Out_Of_Place, Settled, Loop, Sooner
  <2>4. ASSUME NEW i \in DOMAIN Elements', i > 1, i # n + 1
        PROVE  ~Sooner(i, Get_Parent_Index(i))'
    <3>1. i \in 1 .. n /\ Get_Parent_Index(i) \in 1 .. n
      BY <1>1, <1>2, <2>4, Parent
    <3> QED BY <2>2, <2>3, <2>4, <3>1 DEF Sooner, Get_Parent_Index
  <2>5. \A i \in DOMAIN Elements' : i > 1 => Get_Parent_Index(i) # n + 1
    BY <1>1, <1>2, Parent
  <2>6. \A i \in DOMAIN Elements' : ~(n + 1 > 1 /\ Get_Parent_Index(i) = n + 1)
    BY <1>1, <1>2 DEF Get_Parent_Index
  <2> QED BY <1>1, <1>2, <2>1, <2>4, <2>5, <2>6 DEF HeapInv, Out_Of_Place, Settled, Loop, Get_Parent_Index
<1> QED BY <1>3, <1>4, <1>5

(* Every element of a heap in order is no sooner than its parent.          *)
LEMMA InOrder ==
  ASSUME HeapInv, heapify = Settled, NEW i \in DOMAIN Elements, i > 1
  PROVE  ~Sooner(i, Get_Parent_Index(i))
BY DEF HeapInv, Out_Of_Place, Settled, Loop

(* Taking an element out of a heap in order disturbs its place only, and   *)
(* what was below it stays no sooner than what was above it.               *)
LEMMA TakenOutOrder ==
  ASSUME QueueTypeOK, TracksHeapIndex, HeapInv, heapify = Settled, UNCHANGED ExecuteTime,
         NEW index \in DOMAIN Elements, Take_Out(index)
  PROVE  /\ \A i \in DOMAIN Elements' :
              i > 1 /\ i # index /\ Get_Parent_Index(i) # index => ~Sooner(i, Get_Parent_Index(i))'
         /\ \A i \in DOMAIN Elements' :
              index > 1 /\ Get_Parent_Index(i) = index => ~Sooner(i, Get_Parent_Index(index))'
<1> DEFINE n == Len(Elements)
           Key(k) == ExecuteTime[Elements[k]]
<1>1. /\ n \in Nat /\ DOMAIN Elements = 1 .. n /\ index \in 1 .. n
      /\ \A k \in 1 .. n : Elements[k] \in Task /\ Key(k) \in Nat
  BY DEF QueueTypeOK
<1>2. Len(Elements') = n - 1 /\ DOMAIN Elements' = 1 .. n - 1
  BY <1>1, TakenOut
<1>3. \A k \in 1 .. n - 1 : k # index => ExecuteTime'[Elements'[k]] = Key(k)
  BY <1>2, TakenOut, SMTT(40)
<1>4. \A k \in 1 .. n : k > 1 => Key(k) >= Key(Get_Parent_Index(k)) /\ Get_Parent_Index(k) \in 1 .. n - 1
                                 /\ Get_Parent_Index(k) < k
  <2> SUFFICES ASSUME NEW k \in 1 .. n, k > 1
               PROVE  Key(k) >= Key(Get_Parent_Index(k)) /\ Get_Parent_Index(k) \in 1 .. n - 1
                      /\ Get_Parent_Index(k) < k
    OBVIOUS
  <2>1. Get_Parent_Index(k) \in 1 .. n - 1 /\ Get_Parent_Index(k) < k
    BY <1>1, Parent
  <2>2. ~(Key(k) < Key(Get_Parent_Index(k)))
    BY <1>1, InOrder DEF Sooner
  <2> QED BY <1>1, <2>1, <2>2
<1>5. ASSUME NEW i \in DOMAIN Elements', i > 1, i # index, Get_Parent_Index(i) # index
      PROVE  ~Sooner(i, Get_Parent_Index(i))'
  <2>1. Key(i) >= Key(Get_Parent_Index(i)) /\ Get_Parent_Index(i) \in 1 .. n - 1
    BY <1>1, <1>2, <1>4, <1>5
  <2>2. ~(ExecuteTime'[Elements'[i]] < ExecuteTime'[Elements'[Get_Parent_Index(i)]])
    BY <1>1, <1>2, <1>3, <1>5, <2>1, SMTT(40)
  <2> QED BY <2>2 DEF Sooner, Get_Parent_Index
<1>6. ASSUME NEW i \in DOMAIN Elements', index > 1, Get_Parent_Index(i) = index
      PROVE  ~Sooner(i, Get_Parent_Index(index))'
  <2>1. i \in 1 .. n - 1 /\ i > 1
    BY <1>1, <1>2, <1>6 DEF Get_Parent_Index
  <2>2. Key(i) >= Key(index) /\ i # index
    BY <1>1, <1>4, <1>6, <2>1
  <2>3. Key(index) >= Key(Get_Parent_Index(index)) /\ Get_Parent_Index(index) \in 1 .. n - 1
        /\ Get_Parent_Index(index) # index
    BY <1>1, <1>4, <1>6
  <2>4. Key(i) \in Nat /\ Key(index) \in Nat /\ Key(Get_Parent_Index(index)) \in Nat
    BY <1>1, <2>1, <2>3
  <2>5. ~(ExecuteTime'[Elements'[i]] < ExecuteTime'[Elements'[Get_Parent_Index(index)]])
    BY <1>3, <2>1, <2>2, <2>3, <2>4, SMTT(40)
  <2> QED BY <2>5 DEF Sooner, Get_Parent_Index
<1> QED BY <1>5, <1>6

(* Pop and Remove_By_Index.                                                *)
LEMMA Popped ==
  ASSUME QueueTypeOK, TracksHeapIndex, HeapInv, heapify = Settled, UNCHANGED ExecuteTime,
         Elements # <<>>, Pop
  PROVE  QueueTypeOK' /\ TracksHeapIndex' /\ HeapInv'
<1>1. 1 \in DOMAIN Elements /\ Take_Out(1)
  BY DEF QueueTypeOK, Pop
<1>2. heapify' = [dir |-> "down", at |-> 1, next |-> 0]
  BY DEF Pop, Loop
<1>3. QueueTypeOK' /\ TracksHeapIndex'
  <2>1. Elements' \in Seq(Task) /\ HeapIndex' \in [Task -> Nat] /\ TracksHeapIndex'
    BY <1>1, TakenOut
  <2> QED BY <1>2, <2>1 DEF QueueTypeOK
<1>4. HeapInv'
  <2>1. ASSUME NEW i \in DOMAIN Elements', i > 1, Get_Parent_Index(i) # 1
        PROVE  ~Sooner(i, Get_Parent_Index(i))'
    BY <1>1, <2>1, TakenOutOrder
  <2> QED BY <1>2, <2>1 DEF HeapInv, Out_Of_Place, Settled, Loop, Get_Parent_Index
<1> QED BY <1>3, <1>4

LEMMA Removed ==
  ASSUME QueueTypeOK, TracksHeapIndex, HeapInv, heapify = Settled, UNCHANGED ExecuteTime,
         NEW index \in Nat, Remove_By_Index(index)
  PROVE  QueueTypeOK' /\ TracksHeapIndex' /\ HeapInv'
<1>1. index \in DOMAIN Elements /\ Take_Out(index) /\ Len(Elements) \in Nat /\ DOMAIN Elements = 1 .. Len(Elements)
  BY DEF QueueTypeOK, Remove_By_Index, Count
<1>2. Elements' \in Seq(Task) /\ Len(Elements') = Len(Elements) - 1 /\ TracksHeapIndex'
      /\ HeapIndex' \in [Task -> Nat] /\ DOMAIN Elements' = 1 .. Len(Elements) - 1
  BY <1>1, TakenOut
<1>3. QueueTypeOK'
  BY <1>2 DEF QueueTypeOK, Remove_By_Index, Loop, Settled
<1>4. HeapInv'
  <2>1. CASE index = Len(Elements)
    <3>1. heapify' = [dir |-> "none", at |-> 0, next |-> 0]
      BY <2>1 DEF Remove_By_Index, Settled, Loop, Count
    <3>2. ASSUME NEW i \in DOMAIN Elements', i > 1
          PROVE  ~Sooner(i, Get_Parent_Index(i))'
      <4>1. i # index /\ Get_Parent_Index(i) # index
        BY <1>1, <1>2, <2>1, <3>2, Parent
      <4> QED BY <1>1, <3>2, <4>1, TakenOutOrder
    <3> QED BY <3>1, <3>2 DEF HeapInv, Settled, Loop
  <2>2. CASE index # Len(Elements)
    <3>1. heapify' = [dir |-> "up", at |-> index, next |-> index]
      BY <2>2 DEF Remove_By_Index, Loop, Count
    <3>4. index \in DOMAIN Elements'
      <4>1. index \in 1 .. Len(Elements) /\ Len(Elements) \in Nat
        BY <1>1
      <4>2. index \in 1 .. Len(Elements) - 1
        BY <2>2, <4>1
      <4> QED BY <1>2, <4>2
    <3>2. ASSUME NEW i \in DOMAIN Elements', i > 1, i # index, Get_Parent_Index(i) # index
          PROVE  ~Sooner(i, Get_Parent_Index(i))'
      BY <1>1, <3>2, TakenOutOrder
    <3>3. ASSUME NEW i \in DOMAIN Elements', index > 1, Get_Parent_Index(i) = index
          PROVE  ~Sooner(i, Get_Parent_Index(index))'
      BY <1>1, <3>3, TakenOutOrder
    <3> QED BY <3>1, <3>2, <3>3, <3>4 DEF HeapInv, Out_Of_Place, Settled, Loop, Get_Parent_Index
  <2> QED BY <2>1, <2>2
<1> QED BY <1>2, <1>3, <1>4

(* A turn of Heapify_Push_Up: the element goes up a place, or stays where  *)
(* it belongs and Heapify_Push_Down follows.                               *)
LEMMA PushedUp ==
  ASSUME QueueTypeOK, TracksHeapIndex, HeapInv, Heapify_Push_Up
  PROVE  QueueTypeOK' /\ TracksHeapIndex' /\ HeapInv'
<1> DEFINE n      == Len(Elements)
           k      == heapify.at
           parent == Get_Parent_Index(k)
           Key(i) == ExecuteTime[Elements[i]]
<1>1. /\ n \in Nat /\ DOMAIN Elements = 1 .. n /\ k \in 1 .. n /\ heapify.dir = "up" /\ heapify.next \in Nat
      /\ \A i \in 1 .. n : Elements[i] \in Task /\ Key(i) \in Nat
  BY DEF QueueTypeOK, HeapInv, Heapify_Push_Up
<1>2. \A i \in 1 .. n : i > 1 => Get_Parent_Index(i) \in 1 .. n /\ Get_Parent_Index(i) < i
  BY <1>1, Parent
<1>3. \A i \in 1 .. n : i > 1 /\ i # k /\ ~(k = heapify.next /\ Get_Parent_Index(i) = k)
                        => Key(i) >= Key(Get_Parent_Index(i))
  <2> SUFFICES ASSUME NEW i \in 1 .. n, i > 1, i # k, ~(k = heapify.next /\ Get_Parent_Index(i) = k)
               PROVE  Key(i) >= Key(Get_Parent_Index(i))
    OBVIOUS
  <2>1. ~(Key(i) < Key(Get_Parent_Index(i)))
    BY <1>1 DEF HeapInv, Out_Of_Place, Sooner
  <2> QED BY <1>1, <1>2, <2>1
<1>4. \A i \in 1 .. n : k > 1 /\ Get_Parent_Index(i) = k => Key(i) >= Key(parent)
  <2> SUFFICES ASSUME NEW i \in 1 .. n, k > 1, Get_Parent_Index(i) = k
               PROVE  Key(i) >= Key(parent)
    OBVIOUS
  <2>1. ~(Key(i) < Key(parent))
    BY <1>1 DEF HeapInv, Sooner
  <2> QED BY <1>1, <1>2, <2>1
<1>5. CASE k > 1 /\ Sooner(k, parent)
  <2>1. Swap(k, parent) /\ heapify' = [heapify EXCEPT !.at = parent] /\ UNCHANGED ExecuteTime
    BY <1>5 DEF Heapify_Push_Up
  <2>2. /\ parent \in 1 .. n /\ parent < k /\ Key(k) < Key(parent)
    BY <1>1, <1>2, <1>5 DEF Sooner
  <2>3. /\ Elements' \in Seq(Task) /\ Len(Elements') = n /\ HeapIndex' \in [Task -> Nat] /\ TracksHeapIndex'
        /\ \A i \in 1 .. n : Elements'[i] = IF i = k THEN Elements[parent]
                                            ELSE IF i = parent THEN Elements[k] ELSE Elements[i]
    BY <1>1, <2>1, <2>2, Swapped
  <2>4. heapify' = [dir |-> "up", at |-> parent, next |-> heapify.next] /\ DOMAIN Elements' = 1 .. n
    <3>1. heapify' = [dir |-> "up", at |-> parent, next |-> heapify.next]
      BY <1>1, <2>1 DEF QueueTypeOK
    <3>2. DOMAIN Elements' = 1 .. n
      BY <1>1, <2>3
    <3> QED BY <3>1, <3>2
  <2>5. QueueTypeOK'
    <3>1. parent \in Nat /\ heapify.next \in Nat
      BY <1>1, <2>2
    <3>2. heapify' \in [dir : {"none", "up", "down"}, at : Nat, next : Nat]
      BY <2>4, <3>1
    <3> QED BY <2>1, <2>3, <3>2 DEF QueueTypeOK
  <2> DEFINE NewKey(i) == ExecuteTime'[Elements'[i]]
  <2>6. \A i \in 1 .. n : NewKey(i) = IF i = k THEN Key(parent) ELSE IF i = parent THEN Key(k) ELSE Key(i)
    BY <2>1, <2>3
  <2>7. ASSUME NEW i \in 1 .. n, i > 1, i # parent
        PROVE  NewKey(i) >= NewKey(Get_Parent_Index(i))
    <3>1. CASE i = k
      BY <1>1, <2>2, <2>6, <3>1
    <3>2. CASE i # k /\ Get_Parent_Index(i) = k
      BY <1>1, <1>4, <1>5, <2>6, <2>7, <3>2
    <3>3. CASE i # k /\ Get_Parent_Index(i) = parent
      <4>1. Key(i) >= Key(parent)
        BY <1>1, <1>3, <2>2, <2>7, <3>3
      <4> QED BY <1>1, <2>2, <2>6, <2>7, <3>3, <4>1, SMTT(40)
    <3>4. CASE i # k /\ Get_Parent_Index(i) # k /\ Get_Parent_Index(i) # parent
      BY <1>1, <1>2, <1>3, <2>6, <2>7, <3>4
    <3> QED BY <3>1, <3>2, <3>3, <3>4
  <2>8. ASSUME NEW i \in 1 .. n, parent > 1, Get_Parent_Index(i) = parent
        PROVE  NewKey(i) >= NewKey(Get_Parent_Index(parent))
    <3> DEFINE above == Get_Parent_Index(parent)
    <3>1. above \in 1 .. n /\ above < parent /\ Key(parent) >= Key(above)
      BY <1>1, <1>2, <1>3, <2>2, <2>8
    <3>2. NewKey(above) = Key(above)
      BY <1>1, <2>2, <2>6, <3>1
    <3>3. i # parent /\ i > 1
      BY <1>1, <2>2, <2>8 DEF Get_Parent_Index
    <3>4. CASE i = k
      BY <1>1, <2>2, <2>6, <3>1, <3>2, <3>4
    <3>5. CASE i # k
      <4>1. Key(i) >= Key(parent)
        BY <1>1, <1>3, <2>2, <2>8, <3>3, <3>5
      <4>2. NewKey(i) = Key(i)
        BY <2>6, <3>3, <3>5
      <4>3. Key(i) \in Nat /\ Key(parent) \in Nat /\ Key(above) \in Nat
        BY <1>1, <2>2, <3>1
      <4> QED BY <3>1, <3>2, <4>1, <4>2, <4>3
    <3> QED BY <3>4, <3>5
  <2>9. \A i \in 1 .. n : NewKey(i) \in Nat
    BY <1>1, <2>2, <2>6
  <2>10. HeapInv'
    <3>1. ASSUME NEW i \in 1 .. n, i > 1, i # parent
          PROVE  ~Sooner(i, Get_Parent_Index(i))'
      <4>1. Get_Parent_Index(i) \in 1 .. n
        BY <1>2, <3>1
      <4>2. ~(NewKey(i) < NewKey(Get_Parent_Index(i)))
        BY <2>7, <2>9, <3>1, <4>1
      <4> QED BY <4>2 DEF Sooner, Get_Parent_Index
    <3>2. ASSUME NEW i \in 1 .. n, parent > 1, Get_Parent_Index(i) = parent
          PROVE  ~(NewKey(i) < NewKey(Get_Parent_Index(parent)))
      <4>1. Get_Parent_Index(parent) \in 1 .. n
        BY <1>2, <2>2, <3>2
      <4> QED BY <2>8, <2>9, <3>2, <4>1
    <3>3. /\ heapify'.dir = "up" /\ heapify'.at = parent /\ heapify'.next = heapify.next
          /\ DOMAIN Elements' = 1 .. n /\ parent \in 1 .. n
      BY <2>2, <2>4
    <3> QED BY <3>1, <3>2, <3>3 DEF HeapInv, Out_Of_Place, Settled, Loop, Get_Parent_Index, Sooner
  <2> QED BY <2>3, <2>5, <2>10
<1>6. CASE ~(k > 1 /\ Sooner(k, parent))
  <2>1. /\ heapify' = IF heapify.next = 0 THEN [dir |-> "none", at |-> 0, next |-> 0]
                      ELSE [dir |-> "down", at |-> heapify.next, next |-> 0]
        /\ UNCHANGED <<Elements, HeapIndex, ExecuteTime>>
    BY <1>6 DEF Heapify_Push_Up, Settled, Loop
  <2>2. QueueTypeOK' /\ TracksHeapIndex'
    BY <1>1, <2>1 DEF QueueTypeOK, TracksHeapIndex, Is_Scheduled
  <2>3. k > 1 => Key(k) >= Key(parent)
    BY <1>1, <1>2, <1>6 DEF Sooner
  <2>4. \A i \in 1 .. n : i > 1 /\ ~(k = heapify.next /\ Get_Parent_Index(i) = k) => Key(i) >= Key(Get_Parent_Index(i))
    BY <1>3, <2>3
  <2>5. CASE heapify.next = 0
    <3>1. \A i \in 1 .. n : i > 1 => ~(Key(i) < Key(Get_Parent_Index(i)))
      BY <1>1, <1>2, <2>4, <2>5
    <3> QED BY <1>1, <2>1, <2>2, <2>5, <3>1 DEF HeapInv, Out_Of_Place, Settled, Loop, Sooner, Get_Parent_Index
  <2>6. CASE heapify.next # 0
    <3> DEFINE next == heapify.next
    <3>1. \A i \in 1 .. n : i > 1 /\ Get_Parent_Index(i) # next => ~(Key(i) < Key(Get_Parent_Index(i)))
      BY <1>1, <1>2, <2>4
    <3>2. ASSUME NEW i \in 1 .. n, next > 1, Get_Parent_Index(i) = next
          PROVE  ~(Key(i) < Key(Get_Parent_Index(next)))
      <4>1. next \in 1 .. n /\ i > 1 /\ Get_Parent_Index(next) \in 1 .. n
        BY <1>1, <1>2, <3>2 DEF Get_Parent_Index
      <4>2. CASE next = k
        BY <1>1, <1>4, <3>2, <4>1, <4>2
      <4>3. CASE next # k
        <5>1. Key(i) >= Key(next) /\ Key(next) >= Key(Get_Parent_Index(next))
          BY <2>4, <3>2, <4>1, <4>3
        <5>2. Key(i) \in Nat /\ Key(next) \in Nat /\ Key(Get_Parent_Index(next)) \in Nat
          BY <1>1, <4>1
        <5> QED BY <5>1, <5>2
      <4> QED BY <4>2, <4>3
    <3>3. heapify' = [dir |-> "down", at |-> next, next |-> 0] /\ next >= 1
      BY <1>1, <2>1, <2>6
    <3> QED BY <1>1, <2>1, <2>2, <3>1, <3>2, <3>3, SMTT(40) DEF HeapInv, Out_Of_Place, Settled, Loop, Sooner, Get_Parent_Index
  <2> QED BY <2>5, <2>6
<1> QED BY <1>5, <1>6

(* Swap_Index is the smaller child, or the element itself when neither     *)
(* child is smaller.                                                       *)
LEMMA SwapIndex ==
  ASSUME QueueTypeOK, NEW at \in Nat, at >= 1
  PROVE  /\ Swap_Index(at) # at => /\ Swap_Index(at) \in DOMAIN Elements
                                   /\ Get_Parent_Index(Swap_Index(at)) = at
                                   /\ at \in DOMAIN Elements /\ at < Swap_Index(at)
                                   /\ Sooner(Swap_Index(at), at)
         /\ \A i \in DOMAIN Elements : Get_Parent_Index(i) = at => ~Sooner(i, Swap_Index(at))
<1> DEFINE n == Len(Elements)
           Key(i) == ExecuteTime[Elements[i]]
<1>1. /\ n \in Nat /\ DOMAIN Elements = 1 .. n
      /\ \A i \in 1 .. n : Key(i) \in Nat
  BY DEF QueueTypeOK
<1>2. /\ Get_Left_Child_Index(at) = 2 * at /\ Get_Right_Child_Index(at) = 2 * at + 1
      /\ Get_Parent_Index(2 * at) = at /\ Get_Parent_Index(2 * at + 1) = at
  BY DEF Get_Left_Child_Index, Get_Right_Child_Index, Get_Parent_Index
<1> DEFINE swap == IF 2 * at <= n /\ Key(2 * at) < Key(at) THEN 2 * at ELSE at
<1>3. Swap_Index(at) = IF 2 * at + 1 <= n /\ Key(2 * at + 1) < Key(swap) THEN 2 * at + 1 ELSE swap
  BY <1>2 DEF Swap_Index, Sooner, Count
<1>4. Swap_Index(at) # at => /\ Swap_Index(at) \in 1 .. n /\ at \in 1 .. n /\ at < Swap_Index(at)
                             /\ Get_Parent_Index(Swap_Index(at)) = at
                             /\ Key(Swap_Index(at)) < Key(at)
  <2>1. CASE 2 * at + 1 <= n /\ Key(2 * at + 1) < Key(swap)
    <3>1. 2 * at + 1 \in 1 .. n /\ 2 * at \in 1 .. n /\ at \in 1 .. n /\ at < 2 * at + 1
      BY <1>1, <2>1
    <3>2. Key(at) \in Nat /\ Key(2 * at) \in Nat /\ Key(2 * at + 1) \in Nat
      BY <1>1, <3>1
    <3>3. Key(2 * at + 1) < Key(at)
      BY <2>1, <3>2
    <3> QED BY <1>2, <1>3, <2>1, <3>1, <3>3
  <2>2. CASE ~(2 * at + 1 <= n /\ Key(2 * at + 1) < Key(swap))
    <3>1. Swap_Index(at) = swap
      BY <1>3, <2>2
    <3>2. CASE swap = at
      BY <3>1, <3>2
    <3>3. CASE swap # at
      <4>1. swap = 2 * at /\ 2 * at <= n /\ Key(2 * at) < Key(at)
        BY <1>2, <3>3
      <4>2. 2 * at \in 1 .. n /\ at \in 1 .. n /\ at < 2 * at /\ Get_Parent_Index(2 * at) = at
        BY <1>1, <4>1 DEF Get_Parent_Index
      <4> QED BY <3>1, <4>1, <4>2
    <3> QED BY <3>2, <3>3
  <2> QED BY <2>1, <2>2
<1>5. ASSUME NEW i \in 1 .. n, Get_Parent_Index(i) = at
      PROVE  ~(Key(i) < Key(Swap_Index(at)))
  <2>1. i = 2 * at \/ i = 2 * at + 1
    BY <1>2, <1>5, Children
  <2>2. at \in 1 .. n /\ 2 * at \in 1 .. n
    BY <1>1, <2>1
  <2>3. Key(i) \in Nat /\ Key(at) \in Nat /\ Key(2 * at) \in Nat
    BY <1>1, <2>2
  <2>4. CASE i = 2 * at
    <3>1. Key(swap) \in Nat /\ ~(Key(i) < Key(swap))
      BY <2>2, <2>3, <2>4
    <3>2. 2 * at + 1 <= n => Key(2 * at + 1) \in Nat
      BY <1>1
    <3> QED BY <1>3, <2>3, <3>1, <3>2
  <2>5. CASE i = 2 * at + 1
    BY <1>1, <1>3, <2>3, <2>5, SMTT(40)
  <2> QED BY <2>1, <2>4, <2>5
<1> QED BY <1>1, <1>4, <1>5 DEF Sooner

(* A turn of Heapify_Push_Down: the element and the smaller of its         *)
(* children change places, or the heap is in order.                        *)
LEMMA PushedDown ==
  ASSUME QueueTypeOK, TracksHeapIndex, HeapInv, Heapify_Push_Down
  PROVE  QueueTypeOK' /\ TracksHeapIndex' /\ HeapInv'
<1> DEFINE n      == Len(Elements)
           k      == heapify.at
           s      == Swap_Index(k)
           Key(i) == ExecuteTime[Elements[i]]
<1>1. /\ n \in Nat /\ DOMAIN Elements = 1 .. n /\ k \in Nat /\ k >= 1 /\ heapify.dir = "down" /\ heapify.next \in Nat
      /\ \A i \in 1 .. n : Elements[i] \in Task /\ Key(i) \in Nat
  BY DEF QueueTypeOK, HeapInv, Heapify_Push_Down
<1>2. \A i \in 1 .. n : i > 1 => Get_Parent_Index(i) \in 1 .. n /\ Get_Parent_Index(i) < i
  BY <1>1, Parent
<1>3. \A i \in 1 .. n : i > 1 /\ Get_Parent_Index(i) # k => Key(i) >= Key(Get_Parent_Index(i))
  <2> SUFFICES ASSUME NEW i \in 1 .. n, i > 1, Get_Parent_Index(i) # k
               PROVE  Key(i) >= Key(Get_Parent_Index(i))
    OBVIOUS
  <2>1. ~(Key(i) < Key(Get_Parent_Index(i)))
    BY <1>1 DEF HeapInv, Out_Of_Place, Sooner
  <2> QED BY <1>1, <1>2, <2>1
<1>4. CASE s # k
  <2>1. Swap(k, s) /\ heapify' = [heapify EXCEPT !.at = s] /\ UNCHANGED ExecuteTime
    BY <1>1, <1>4 DEF Heapify_Push_Down
  <2>2. s \in 1 .. n /\ k \in 1 .. n /\ k < s /\ Get_Parent_Index(s) = k /\ Key(s) < Key(k) /\ s > 1
    BY <1>1, <1>4, SwapIndex DEF Sooner
  <2>3. \A i \in 1 .. n : Get_Parent_Index(i) = k => Key(i) >= Key(s)
    BY <1>1, <2>2, SwapIndex, SMTT(40) DEF Sooner
  <2>4. k > 1 => Key(s) >= Key(Get_Parent_Index(k)) /\ Get_Parent_Index(k) \in 1 .. n
    <3> SUFFICES ASSUME k > 1 PROVE Key(s) >= Key(Get_Parent_Index(k)) /\ Get_Parent_Index(k) \in 1 .. n
      OBVIOUS
    <3>1. ~(Key(s) < Key(Get_Parent_Index(k)))
      BY <1>1, <2>2 DEF HeapInv, Sooner
    <3> QED BY <1>1, <1>2, <2>2, <3>1
  <2>5. /\ Elements' \in Seq(Task) /\ Len(Elements') = n /\ HeapIndex' \in [Task -> Nat] /\ TracksHeapIndex'
        /\ \A i \in 1 .. n : Elements'[i] = IF i = k THEN Elements[s]
                                            ELSE IF i = s THEN Elements[k] ELSE Elements[i]
    BY <1>1, <2>1, <2>2, Swapped
  <2>6. heapify' = [dir |-> "down", at |-> s, next |-> heapify.next]
    BY <1>1, <2>1 DEF QueueTypeOK
  <2>7. QueueTypeOK' /\ DOMAIN Elements' = 1 .. n
    <3>1. s \in Nat /\ heapify.next \in Nat
      BY <1>1, <2>2
    <3>2. heapify' \in [dir : {"none", "up", "down"}, at : Nat, next : Nat]
      BY <2>6, <3>1
    <3>3. DOMAIN Elements' = 1 .. n
      BY <1>1, <2>5
    <3> QED BY <2>1, <2>5, <3>2, <3>3 DEF QueueTypeOK
  <2> DEFINE NewKey(i) == ExecuteTime'[Elements'[i]]
  <2>8. \A i \in 1 .. n : /\ NewKey(i) = IF i = k THEN Key(s) ELSE IF i = s THEN Key(k) ELSE Key(i)
                          /\ NewKey(i) \in Nat
    BY <1>1, <2>1, <2>2, <2>5
  <2>9. ASSUME NEW i \in 1 .. n, i > 1, Get_Parent_Index(i) # s
        PROVE  ~(NewKey(i) < NewKey(Get_Parent_Index(i)))
    <3>1. Get_Parent_Index(i) \in 1 .. n /\ Get_Parent_Index(i) < i
      BY <1>2, <2>9
    <3>2. CASE i = s
      BY <1>1, <2>2, <2>8, <3>2
    <3>3. CASE i = k
      BY <1>1, <2>2, <2>4, <2>8, <2>9, <3>1, <3>3
    <3>4. CASE i # s /\ i # k /\ Get_Parent_Index(i) = k
      BY <1>1, <2>2, <2>3, <2>8, <3>4
    <3>5. CASE i # s /\ i # k /\ Get_Parent_Index(i) # k
      BY <1>1, <1>3, <2>8, <2>9, <3>1, <3>5
    <3> QED BY <3>2, <3>3, <3>4, <3>5
  <2>10. ASSUME NEW i \in 1 .. n, Get_Parent_Index(i) = s
         PROVE  ~(NewKey(i) < NewKey(k))
    <3>1. i > 1 /\ i # k /\ i # s
      <4>1. i > s
        BY <1>1, <2>2, <2>10 DEF Get_Parent_Index
      <4> QED BY <2>2, <4>1
    <3>2. Key(i) >= Key(s) /\ Key(i) \in Nat /\ Key(s) \in Nat
      BY <1>1, <1>3, <2>2, <2>10, <3>1
    <3> QED BY <2>2, <2>8, <3>1, <3>2
  <2>11. HeapInv'
    BY <2>2, <2>6, <2>7, <2>9, <2>10 DEF HeapInv, Out_Of_Place, Settled, Loop, Sooner, Get_Parent_Index
  <2> QED BY <2>5, <2>7, <2>11
<1>5. CASE s = k
  <2>1. heapify' = [dir |-> "none", at |-> 0, next |-> 0] /\ UNCHANGED <<Elements, HeapIndex, ExecuteTime>>
    BY <1>1, <1>5 DEF Heapify_Push_Down, Settled, Loop
  <2>2. QueueTypeOK' /\ TracksHeapIndex'
    BY <2>1 DEF QueueTypeOK, TracksHeapIndex, Is_Scheduled
  <2>3. ASSUME NEW i \in 1 .. n, i > 1
        PROVE  ~(Key(i) < Key(Get_Parent_Index(i)))
    <3>1. CASE Get_Parent_Index(i) = k
      BY <1>1, <1>5, <3>1, SwapIndex DEF Sooner
    <3>2. CASE Get_Parent_Index(i) # k
      BY <1>1, <1>2, <1>3, <2>3, <3>2
    <3> QED BY <3>1, <3>2
  <2> QED BY <1>1, <2>1, <2>2, <2>3 DEF HeapInv, Out_Of_Place, Settled, Loop, Sooner, Get_Parent_Index
<1> QED BY <1>4, <1>5

-----------------------------------------------------------------------------

(* Every call that the application makes and every turn of a loop keeps    *)
(* the inductive invariant.                                                *)
LEMMA SchedulerStep == SchedulerInv /\ [Next]_vars => SchedulerInv'
<1> SUFFICES ASSUME SchedulerInv, [Next]_vars PROVE SchedulerInv'
  OBVIOUS
<1> USE DEF SchedulerInv, TypeOK, SchedulerTypeOK
<1>1. \A time \in Times : Granule(time) \in Nat
  BY TimeGranularityAssumption, MaxTimeAssumption DEF Times, Granule
<1>2. ASSUME NEW task \in Task, NEW time \in Times, heapify = Settled, Enqueue(task, time)
      PROVE  QueueTypeOK' /\ TracksHeapIndex' /\ HeapInv'
  BY <1>1, <1>2, Inserted DEF Enqueue
<1>3. ASSUME NEW task \in Task, NEW time \in Times, Submit_Task(task, time)
      PROVE  SchedulerInv'
  BY <1>2, <1>3 DEF Submit_Task, Callable, schedulerVars
<1>4. ASSUME NEW task \in Task, Remove_Task(task)
      PROVE  SchedulerInv'
  <2>1. HeapIndex[task] \in Nat
    BY DEF QueueTypeOK
  <2> QED BY <1>4, <2>1, Removed DEF Remove_Task, Callable, schedulerVars
<1>5. ASSUME NEW time \in Times, Service(time)
      PROVE  SchedulerInv'
  BY <1>5 DEF Service, queueVars, QueueTypeOK, TracksHeapIndex, HeapInv, Is_Scheduled, Sooner, Out_Of_Place
<1>6. CASE Heapify /\ UNCHANGED schedulerVars
  BY <1>6, PushedUp, PushedDown DEF Heapify, schedulerVars
<1>7. CASE Pop_And_Execute
  <2>1. Elements # <<>> /\ Elements[1] \in Task
    BY <1>7 DEF Pop_And_Execute, Top_Is_Due, Count, QueueTypeOK
  <2> QED BY <1>7, <2>1, Popped DEF Pop_And_Execute
<1>8. CASE Executed
  BY <1>8 DEF Executed, queueVars, QueueTypeOK, TracksHeapIndex, HeapInv, Is_Scheduled, Sooner, Out_Of_Place
<1>9. ASSUME NEW time \in Times, Reschedule(time)
      PROVE  SchedulerInv'
  <2>1. executing \in Task /\ heapify = Settled /\ Enqueue(executing, time)
    BY <1>9 DEF Reschedule
  <2> QED BY <1>2, <1>9, <2>1 DEF Reschedule
<1>10. CASE Service_Return
  BY <1>10 DEF Service_Return, queueVars, QueueTypeOK, TracksHeapIndex, HeapInv, Is_Scheduled, Sooner, Out_Of_Place
<1>11. CASE UNCHANGED vars
  BY <1>11 DEF vars, schedulerVars, queueVars, QueueTypeOK, TracksHeapIndex, HeapInv, Is_Scheduled, Sooner, Out_Of_Place
<1> QED BY <1>3, <1>4, <1>5, <1>6, <1>7, <1>8, <1>9, <1>10, <1>11 DEF Next, Service_Loop, Application

(* The invariant behind the next two theorems: SchedulerInv holds in every *)
(* state of the scheduler.                                                 *)
THEOREM SchedulerCorrect == Spec => []SchedulerInv
<1>1. Init => SchedulerInv
  <2> SUFFICES ASSUME Init PROVE SchedulerInv
    OBVIOUS
  <2>1. QueueTypeOK /\ TracksHeapIndex /\ HeapInv
    BY QueueInitially DEF Init
  <2>2. SchedulerTypeOK
    <3>1. 0 \in Times
      BY MaxTimeAssumption DEF Times
    <3> QED BY <3>1 DEF Init, SchedulerTypeOK
  <2> QED BY <2>1, <2>2 DEF SchedulerInv, TypeOK
<1> QED BY <1>1, SchedulerStep, PTL DEF Spec

(* Remove_Task removes the task it is called with, however the heap has    *)
(* moved it: every task tracks its own index.                              *)
THEOREM IndexTracked == Spec => []TracksHeapIndex
<1>1. SchedulerInv => TracksHeapIndex
  BY DEF SchedulerInv
<1> QED BY <1>1, SchedulerCorrect, PTL

(* The heap is in order whenever an operation of the queue returns, after  *)
(* Remove_By_Index in the middle as well.                                  *)
THEOREM HeapOrdered == Spec => []HeapOrder
<1>1. SchedulerInv => HeapOrder
  BY InOrder DEF SchedulerInv, HeapOrder
<1> QED BY <1>1, SchedulerCorrect, PTL

-----------------------------------------------------------------------------
(* The scheduler implements Agenda.                                        *)

(* Every set of numbers that is not empty has a least one.                 *)
LEMMA Least ==
  ASSUME NEW T, T \subseteq Nat, T # {}
  PROVE  \E x \in T : \A y \in T : x <= y
<1> DEFINE R == { ss \in Nat \X Nat : ss[1] < ss[2] }
<1>1. IsWellFoundedOn(R, Nat)
  BY NatLessThanWellFounded DEF OpToRel
<1> HIDE DEF R
<1>2. \E x \in T : \A y \in T : <<y, x>> \notin R
  BY <1>1, WFMin
<1>3. \A x, y \in Nat : <<y, x>> \notin R => x <= y
  BY DEF R
<1> QED BY <1>2, <1>3

(* The top of a heap in order is its earliest task: a task that is earlier *)
(* has a parent that is earlier, and there is no least such place.         *)
LEMMA TopIsEarliest ==
  ASSUME SchedulerInv, heapify = Settled, NEW task \in Task, Is_Scheduled(task)
  PROVE  Elements # <<>> /\ ExecuteTime[Elements[1]] <= ExecuteTime[task]
<1> DEFINE n == Len(Elements)
           Key(i) == ExecuteTime[Elements[i]]
           earlier == { i \in 1 .. n : Key(i) < Key(1) }
<1>1. /\ n \in Nat /\ DOMAIN Elements = 1 .. n
      /\ \A i \in 1 .. n : Key(i) \in Nat
  BY DEF SchedulerInv, TypeOK, QueueTypeOK
<1>2. HeapIndex[task] \in 1 .. n /\ Elements[HeapIndex[task]] = task
  BY <1>1 DEF SchedulerInv, TracksHeapIndex
<1>3. earlier = {}
  <2> SUFFICES ASSUME earlier # {} PROVE FALSE
    OBVIOUS
  <2>0. earlier \subseteq Nat
    BY <1>1
  <2>1. PICK i \in earlier : \A j \in earlier : i <= j
    <3> HIDE DEF earlier
    <3> QED BY <2>0, Least
  <2>2. i \in 1 .. n /\ 1 \in 1 .. n /\ Key(i) < Key(1) /\ Key(i) \in Nat /\ Key(1) \in Nat
    BY <1>1
  <2>3. i > 1 /\ Get_Parent_Index(i) \in 1 .. n /\ Get_Parent_Index(i) < i
    BY <1>1, <2>2, Parent
  <2>4. ~(Key(i) < Key(Get_Parent_Index(i)))
    BY <1>1, <2>2, <2>3, InOrder DEF SchedulerInv, Sooner
  <2>5. Get_Parent_Index(i) \in earlier
    BY <1>1, <2>2, <2>3, <2>4
  <2> QED BY <1>1, <2>1, <2>2, <2>3, <2>5
<1>4. ~(Key(HeapIndex[task]) < Key(1)) /\ 1 \in 1 .. n
  BY <1>1, <1>2, <1>3
<1> QED BY <1>1, <1>2, <1>4

(* Rounding only ever makes a task later.                                  *)
LEMMA Rounded ==
  ASSUME NEW time \in Nat
  PROVE  Granule(time) \in Nat /\ Granule(time) >= time
<1>1. CASE TimeGranularity > 0 /\ time % TimeGranularity > 0
  <2>1. time \div TimeGranularity \in Nat /\ (time \div TimeGranularity + 1) * TimeGranularity >= time
    BY <1>1, TimeGranularityAssumption
  <2> QED BY <1>1, <2>1, TimeGranularityAssumption DEF Granule
<1>2. CASE ~(TimeGranularity > 0 /\ time % TimeGranularity > 0)
  BY <1>2 DEF Granule
<1> QED BY <1>1, <1>2

(* What the calls of the application and the turns of the loops do to the  *)
(* tasks that are scheduled and to their times.                            *)
LEMMA Enqueued ==
  ASSUME SchedulerInv, NEW task \in Task, NEW time \in Times, Enqueue(task, time)
  PROVE  /\ \A other \in Task : Is_Scheduled(other)' <=> Is_Scheduled(other) \/ other = task
         /\ ~Is_Scheduled(task)
         /\ ExecuteTime' = [ExecuteTime EXCEPT ![task] = Granule(time)]
BY DEF SchedulerInv, TypeOK, QueueTypeOK, Enqueue, Insert, Is_Scheduled, Count

LEMMA Unqueued ==
  ASSUME SchedulerInv, NEW index \in DOMAIN Elements, Take_Out(index)
  PROVE  \A other \in Task : Is_Scheduled(other)' <=> Is_Scheduled(other) /\ other # Elements[index]
BY TakenOut DEF SchedulerInv, TypeOK

LEMMA Heapified ==
  ASSUME SchedulerInv, Heapify
  PROVE  (\A other \in Task : Is_Scheduled(other)' <=> Is_Scheduled(other)) /\ UNCHANGED ExecuteTime
<1> USE DEF SchedulerInv, TypeOK
<1>1. CASE Heapify_Push_Up
  <2> DEFINE k == heapify.at
  <2>1. CASE k > 1 /\ Sooner(k, Get_Parent_Index(k))
    <3>1. k \in DOMAIN Elements /\ Get_Parent_Index(k) \in DOMAIN Elements
      <4>1. k \in DOMAIN Elements /\ DOMAIN Elements = 1 .. Len(Elements) /\ Len(Elements) \in Nat
        BY <1>1 DEF HeapInv, QueueTypeOK, Heapify_Push_Up
      <4>2. Get_Parent_Index(k) \in Nat /\ Get_Parent_Index(k) >= 1 /\ Get_Parent_Index(k) < k
        BY <2>1, <4>1, Parent
      <4> QED BY <4>1, <4>2
    <3> QED BY <1>1, <2>1, <3>1, Swapped DEF Heapify_Push_Up
  <2>2. CASE ~(k > 1 /\ Sooner(k, Get_Parent_Index(k)))
    BY <1>1, <2>2 DEF Heapify_Push_Up, Is_Scheduled
  <2> QED BY <2>1, <2>2
<1>2. CASE Heapify_Push_Down
  <2> DEFINE k == heapify.at
  <2>1. k \in Nat /\ k >= 1
    BY <1>2 DEF HeapInv, QueueTypeOK, Heapify_Push_Down
  <2>2. CASE Swap_Index(k) # k
    <3>1. k \in DOMAIN Elements /\ Swap_Index(k) \in DOMAIN Elements
      BY <2>1, <2>2, SwapIndex
    <3> QED BY <1>2, <2>2, <3>1, Swapped DEF Heapify_Push_Down
  <2>3. CASE Swap_Index(k) = k
    BY <1>2, <2>3 DEF Heapify_Push_Down, Is_Scheduled
  <2> QED BY <2>2, <2>3
<1> QED BY <1>1, <1>2 DEF Heapify

(* Every step of the scheduler is a step of the agenda, or changes nothing *)
(* that the agenda shows.                                                  *)
LEMMA AgendaStep == SchedulerInv /\ SchedulerInv' /\ [Next]_vars => [AgendaView!Next]_(AgendaView!vars)
<1> SUFFICES ASSUME SchedulerInv, SchedulerInv', [Next]_vars
             PROVE  [AgendaView!Next]_(AgendaView!vars)
  OBVIOUS
<1> DEFINE due == [task \in Task |-> IF Is_Scheduled(task) THEN ExecuteTime[task] ELSE NoTask]
<1>1. /\ ExecuteTime \in [Task -> Nat] /\ ExecuteTime' \in [Task -> Nat]
      /\ current_time \in Nat /\ executing \in Task \cup {NoTask}
  BY MaxTimeAssumption DEF SchedulerInv, TypeOK, QueueTypeOK, SchedulerTypeOK, Times
<1>2. AgendaView!Listed = { task \in Task : Is_Scheduled(task) }
  BY <1>1, NoTaskAssumption DEF AgendaView!Listed
<1>3. ASSUME NEW task \in Task, NEW time \in Times, Enqueue(task, time)
      PROVE  /\ task \notin AgendaView!Listed
             /\ due' = [due EXCEPT ![task] = Granule(time)] /\ due'[task] = Granule(time)
             /\ Granule(time) \in Nat /\ Granule(time) >= time /\ time \in Nat
  <2>1. Granule(time) \in Nat /\ Granule(time) >= time /\ time \in Nat
    BY Rounded, MaxTimeAssumption DEF Times
  <2>2. /\ \A other \in Task : Is_Scheduled(other)' <=> Is_Scheduled(other) \/ other = task
        /\ ~Is_Scheduled(task)
        /\ ExecuteTime' = [ExecuteTime EXCEPT ![task] = Granule(time)]
    BY <1>3, Enqueued
  <2>3. \A other \in Task : due'[other] = IF other = task THEN Granule(time) ELSE due[other]
    BY <1>1, <2>1, <2>2
  <2> QED BY <1>2, <2>1, <2>2, <2>3
<1>4. ASSUME NEW index \in DOMAIN Elements, Take_Out(index), UNCHANGED ExecuteTime
      PROVE  due' = [due EXCEPT ![Elements[index]] = NoTask]
  <2>1. \A other \in Task : Is_Scheduled(other)' <=> Is_Scheduled(other) /\ other # Elements[index]
    BY <1>4, Unqueued
  <2> QED BY <1>4, <2>1
<1>5. ASSUME NEW task \in Task, NEW time \in Times, Submit_Task(task, time)
      PROVE  AgendaView!Add(task)
  <2>1. Enqueue(task, time) /\ UNCHANGED schedulerVars /\ (servicing => executing # NoTask)
    BY <1>5 DEF Submit_Task, Callable
  <2>2. AgendaView!Put(task, Nat)
    BY <1>3, <2>1 DEF AgendaView!Put
  <2> QED BY <1>3, <2>1, <2>2 DEF AgendaView!Add, schedulerVars
<1>6. ASSUME NEW task \in Task, Remove_Task(task)
      PROVE  AgendaView!Cancel(task)
  <2>1. /\ Is_Scheduled(task) /\ Take_Out(HeapIndex[task]) /\ UNCHANGED <<ExecuteTime, schedulerVars>>
        /\ servicing => executing # NoTask
    BY <1>6 DEF Remove_Task, Remove_By_Index, Callable
  <2>2. HeapIndex[task] \in DOMAIN Elements /\ Elements[HeapIndex[task]] = task
    BY <2>1 DEF SchedulerInv, TracksHeapIndex
  <2>3. due' = [due EXCEPT ![task] = NoTask]
    BY <1>4, <2>1, <2>2
  <2> QED BY <1>2, <2>1, <2>3 DEF AgendaView!Cancel, schedulerVars
<1>7. ASSUME NEW time \in Times, Service(time)
      PROVE  AgendaView!Begin_Service
  <2>1. due' = due
    BY <1>7 DEF Service, queueVars, Is_Scheduled
  <2> QED BY <1>7, <2>1, MaxTimeAssumption DEF Service, Times, AgendaView!Begin_Service
<1>8. CASE Heapify /\ UNCHANGED schedulerVars
  <2>1. due' = due
    BY <1>8, Heapified
  <2> QED BY <1>8, <2>1 DEF AgendaView!vars, schedulerVars
<1>9. ASSUME Pop_And_Execute
      PROVE  \E task \in Task : AgendaView!Perform(task)
  <2>1. /\ servicing /\ executing = NoTask /\ heapify = Settled /\ executing' = Elements[1] /\ Take_Out(1)
        /\ UNCHANGED <<ExecuteTime, current_time, servicing>>
        /\ ExecuteTime[Elements[1]] <= current_time
    BY <1>9 DEF Pop_And_Execute, Pop, Top_Is_Due
  <2>2. 1 \in DOMAIN Elements /\ Elements[1] \in Task /\ Is_Scheduled(Elements[1])
    BY <1>9 DEF Pop_And_Execute, Top_Is_Due, Count, SchedulerInv, TypeOK, QueueTypeOK, TracksHeapIndex, Is_Scheduled
  <2>3. PICK task \in Task : task = Elements[1]
    BY <2>2
  <2>4. due' = [due EXCEPT ![task] = NoTask]
    BY <1>4, <2>1, <2>2, <2>3
  <2>5. Is_Scheduled(task) /\ \A other \in AgendaView!Listed : due[task] <= due[other]
    BY <1>2, <2>1, <2>2, <2>3, TopIsEarliest
  <2>6. AgendaView!Perform(task)
    BY <1>2, <2>1, <2>3, <2>4, <2>5 DEF AgendaView!Perform
  <2> QED BY <2>6
<1>10. ASSUME Executed
       PROVE  AgendaView!Performed
  <2>1. due' = due
    BY <1>10 DEF Executed, queueVars, Is_Scheduled
  <2> QED BY <1>10, <2>1 DEF Executed, AgendaView!Performed
<1>11. ASSUME NEW time \in Times, Reschedule(time)
       PROVE  AgendaView!Performed
  <2>1. /\ executing \in Task /\ executing # NoTask /\ time > current_time /\ Enqueue(executing, time)
        /\ executing' = NoTask /\ UNCHANGED <<current_time, servicing>>
    BY <1>1, <1>11 DEF Reschedule
  <2>2. PICK task \in Task : task = executing
    BY <2>1
  <2>3. Enqueue(task, time)
    BY <2>1, <2>2 DEF Enqueue, Insert, Is_Scheduled
  <2>4. /\ executing \notin AgendaView!Listed
        /\ due' = [due EXCEPT ![executing] = due'[executing]]
        /\ due'[executing] \in Nat /\ due'[executing] > current_time
    <3>1. /\ task \notin AgendaView!Listed
          /\ due' = [due EXCEPT ![task] = Granule(time)] /\ due'[task] = Granule(time)
          /\ Granule(time) \in Nat /\ Granule(time) >= time /\ time \in Nat
      BY <1>3, <2>3
    <3>2. Granule(time) > current_time
      BY <1>1, <2>1, <3>1
    <3> HIDE DEF due
    <3> QED BY <2>2, <3>1, <3>2
  <2> QED BY <2>1, <2>4 DEF AgendaView!Performed, AgendaView!Put
<1>12. ASSUME Service_Return
       PROVE  AgendaView!End_Service
  <2>1. /\ servicing /\ executing = NoTask /\ heapify = Settled /\ servicing' = FALSE
        /\ UNCHANGED <<queueVars, current_time, executing>>
        /\ ~(Len(Elements) > 0 /\ ExecuteTime[Elements[1]] <= current_time)
    BY <1>12 DEF Service_Return, Top_Is_Due, Count
  <2>2. ASSUME NEW task \in Task, Is_Scheduled(task)
        PROVE  ExecuteTime[task] > current_time
    <3>1. Elements # <<>> /\ ExecuteTime[Elements[1]] <= ExecuteTime[task]
      BY <2>1, <2>2, TopIsEarliest
    <3>2. Len(Elements) > 0 /\ Elements[1] \in Task
      BY <3>1, SMTT(40) DEF SchedulerInv, TypeOK, QueueTypeOK
    <3>3. ExecuteTime[Elements[1]] \in Nat /\ ExecuteTime[task] \in Nat
      BY <1>1, <3>2
    <3> QED BY <1>1, <2>1, <3>1, <3>2, <3>3
  <2>3. due' = due
    BY <2>1 DEF queueVars, Is_Scheduled
  <2> QED BY <1>2, <2>1, <2>2, <2>3 DEF AgendaView!End_Service
<1>13. CASE UNCHANGED vars
  <2>1. due' = due
    BY <1>13 DEF vars, queueVars, Is_Scheduled
  <2> QED BY <1>13, <2>1 DEF vars, schedulerVars, AgendaView!vars
<1> QED
  BY <1>5, <1>6, <1>7, <1>8, <1>9, <1>10, <1>11, <1>12, <1>13 DEF Next, Service_Loop, Application, AgendaView!Next

(* Tasks are executed in the order of their times, none early, none after  *)
(* it has been removed, and when Service returns none is overdue: the      *)
(* scheduler does what Agenda promises.                                    *)
THEOREM AgendaImplemented == Spec => ImplementsAgenda
<1>1. Init => AgendaView!Init
  BY DEF Init, QueueInit, Is_Scheduled, AgendaView!Init
<1> QED BY <1>1, AgendaStep, SchedulerCorrect, PTL DEF Spec, ImplementsAgenda, AgendaView!Spec
=============================================================================
