-------------------------- MODULE ConcurrencyManager --------------------------
(***************************************************************************)
(* CConcurrencyManager: the thread that owns the table of process records, *)
(* hands out mailboxes, schedules executions and runs the shutdown         *)
(* protocol.  One iteration of its service loop takes every frame in its   *)
(* mailbox, handles the messages one by one, flushes its outbound frames,  *)
(* executes the processes that are due and looks whether it may end.       *)
(***************************************************************************)
EXTENDS Execution

CONSTANT
  BaseTimeIsSet   \* FALSE: the program.  The CTimeKeeper still has the clock's epoch as
                  \* base time when Setup_For_Run schedules the first processes, for it
                  \* sets the base after (ConcurrencyManager.cpp:397-401).  TRUE: the
                  \* harness of the tests, whose time keeper has a base before
                  \* (ConcurrencyManagerTests.cpp:126-127); all that lies behind the
                  \* first execution can be looked at only there

ASSUME BaseTimeIsSetAssumption == BaseTimeIsSet \in BOOLEAN

VARIABLES
  State,                   \* EConcurrencyManagerState
  phase,                   \* where the service loop is
  NextID,                  \* the next id to allocate
  ProcessRecords,          \* ProcessRecords[id]: the record's state, or NO_RECORD
  PendingShutdownIDs,      \* PendingShutdownIDs[id]: who has yet to give up id's mailbox
  ExecuteTask,             \* ExecuteTask[id]: whether and when an execution is scheduled
  PersistentGetRequests,   \* pairs of a requester and the ids its pattern matches
  FramesToSend,            \* PendingOutboundFrames
  control_frames           \* the frames taken from the mailbox, not yet handled

managerVars == <<State, phase, NextID, ProcessRecords, PendingShutdownIDs, ExecuteTask,
                 PersistentGetRequests, FramesToSend, control_frames>>

EConcurrencyManagerState == {"RUNNING", "SHUTTING_DOWN_PHASE1", "SHUTTING_DOWN_PHASE2"}

EInternalProcessState == {"INITIALIZING", "RUNNING", "SHUTTING_DOWN_PHASE1", "SHUTTING_DOWN_PHASE2"}

(* "now": due by the time the scheduler next looks.  "distant": due when   *)
(* the time since the base time reaches the time since the clock's epoch,  *)
(* which no run of the program reaches.                                    *)
ScheduleStates == {"none", "now", "distant"}

ManagerTypeOK ==
  /\ State \in EConcurrencyManagerState
  /\ phase \in {"incoming", "handle", "scheduler", "done"}
  /\ NextID \in FIRST_FREE_ID .. MaxProcessID + 1
  /\ ProcessRecords \in [EProcessID -> EInternalProcessState \cup {"NO_RECORD"}]
  /\ PendingShutdownIDs \in [EProcessID -> SUBSET EProcessID]
  /\ ExecuteTask \in [ManagedIDs -> ScheduleStates]
  /\ PersistentGetRequests \in SUBSET (EProcessID \X SUBSET (EProcessID \cup {INVALID}))
  /\ FramesToSend \in [EProcessID -> Seq(Message)]
  /\ control_frames \in Seq(Message)

(* Setup_For_Run: the manager's proxy record, the logging process and the  *)
(* first process, both scheduled for the time that has passed since the    *)
(* base time, and only then a new base time.                               *)
Setup_For_Run ==
  /\ State = "RUNNING"
  /\ phase = "incoming"
  /\ NextID = FIRST_FREE_ID + 1
  /\ ProcessRecords = [id \in EProcessID |-> IF id <= FIRST_FREE_ID THEN "INITIALIZING" ELSE "NO_RECORD"]
  /\ PendingShutdownIDs = [id \in EProcessID |-> {}]
  /\ ExecuteTask = [id \in ManagedIDs |-> IF id > FIRST_FREE_ID THEN "none"
                                          ELSE IF BaseTimeIsSet THEN "now" ELSE "distant"]
  /\ PersistentGetRequests = {}
  /\ FramesToSend = [id \in EProcessID |-> <<>>]
  /\ control_frames = <<>>

-----------------------------------------------------------------------------

Has_Record(id) == ProcessRecords[id] # "NO_RECORD"
Records        == { id \in EProcessID : Has_Record(id) }

(* Mutant of the next: the second phase only counts as shutting down.      *)
Shutting_Down_Late(id) == ProcessRecords[id] = "SHUTTING_DOWN_PHASE2"

(* FALSE of a process that has no record, as Is_Process_Shutting_Down is.  *)
Is_Process_Shutting_Down(id) ==
  ProcessRecords[id] \in {"SHUTTING_DOWN_PHASE1", "SHUTTING_DOWN_PHASE2"}

Is_Manager_Shutting_Down == State \in {"SHUTTING_DOWN_PHASE1", "SHUTTING_DOWN_PHASE2"}

(* Get_Mailbox: null, here INVALID, for a process without a record.        *)
Get_Mailbox(id) == IF Has_Record(id) THEN id ELSE INVALID

(* FramesToSend after message has been sent to every process of ids.       *)
Send_Process_Message(ids, message) ==
  [id \in EProcessID |-> IF id \in ids THEN Append(FramesToSend[id], message) ELSE FramesToSend[id]]

-----------------------------------------------------------------------------
(* Service_Incoming_Frames.                                                *)

Service_Incoming_Frames ==
  /\ phase = "incoming"
  /\ control_frames' = mailbox[CONCURRENCY_MANAGER]
  /\ Remove_Frames(CONCURRENCY_MANAGER)
  /\ phase' = "handle"
  /\ UNCHANGED <<State, NextID, ProcessRecords, PendingShutdownIDs, ExecuteTask,
                 PersistentGetRequests, FramesToSend, tbbQueue, threads, failure>>

(* The next message of the batch is of this type; the handler consumes it. *)
Handling(type) ==
  /\ phase = "handle"
  /\ control_frames # <<>>
  /\ Head(control_frames).type = type
  /\ control_frames' = Tail(control_frames)
  /\ UNCHANGED <<phase, mailbox, tbbQueue, threads, failure>>

message == Head(control_frames)

(* Both requests are dropped while the manager or the requester shuts down.*)
Handle_Get_Mailbox_By_ID_Request ==
  /\ Handling("GetMailboxByID")
  /\ LET fulfilled == /\ ~Is_Manager_Shutting_Down
                      /\ ~Is_Process_Shutting_Down(message.source)
                      /\ Has_Record(message.id)
                      /\ ~Is_Process_Shutting_Down(message.id)
                      /\ message.source # message.id
     IN FramesToSend' = IF fulfilled
                        THEN Send_Process_Message({message.source}, CAddMailboxMessage({message.id}))
                        ELSE FramesToSend
  /\ UNCHANGED <<State, NextID, ProcessRecords, PendingShutdownIDs, ExecuteTask, PersistentGetRequests>>

(* Whose mailboxes a requester is given that asks for the pattern ids.     *)
Matching(ids, requester) ==
  { id \in Records \cap ids : ~Is_Process_Shutting_Down(id) /\ id # requester }

Handle_Get_Mailbox_By_Properties_Request ==
  /\ Handling("GetMailboxByProperties")
  /\ IF Is_Manager_Shutting_Down \/ Is_Process_Shutting_Down(message.source)
     THEN UNCHANGED <<FramesToSend, PersistentGetRequests>>
     ELSE LET matched == Matching(message.ids, message.source)
          IN /\ FramesToSend' = IF matched = {} THEN FramesToSend
                                ELSE Send_Process_Message({message.source}, CAddMailboxMessage(matched))
             /\ PersistentGetRequests' = PersistentGetRequests \cup {<<message.source, message.ids>>}
  /\ UNCHANGED <<State, NextID, ProcessRecords, PendingShutdownIDs, ExecuteTask>>

(* Handle_Ongoing_Mailbox_Requests: who is told of the new process.        *)
Ongoing_Requesters(new_id) ==
  { id \in EProcessID : /\ \E request \in PersistentGetRequests : request[1] = id /\ new_id \in request[2]
                        /\ id # new_id
                        /\ ~Is_Process_Shutting_Down(id) }

(* AddMailbox(ids), when it is to be sent, as the frame's next messages.   *)
Mailboxes_If(sent, ids) == IF sent THEN <<CAddMailboxMessage(ids)>> ELSE <<>>

Frames_For_New_Process(new_id, source, flags) ==
  LET answer == ~Is_Process_Shutting_Down(source)
  IN [id \in EProcessID |->
        FramesToSend[id]
          \o Mailboxes_If(id \in Ongoing_Requesters(new_id), {new_id})
          \o Mailboxes_If(answer /\ "return" \in flags /\ id = source, {new_id})
          \o Mailboxes_If(answer /\ "forward" \in flags /\ id = new_id, {Get_Mailbox(source)})]

Handle_Add_New_Process_Message ==
  /\ Handling("AddNewProcess")
  /\ \/ /\ Is_Manager_Shutting_Down
        /\ UNCHANGED <<NextID, ProcessRecords, ExecuteTask, FramesToSend>>
     \/ /\ ~Is_Manager_Shutting_Down
        /\ NextID <= MaxProcessID
        /\ NextID' = NextID + 1
        /\ ProcessRecords' = [ProcessRecords EXCEPT ![NextID] = "INITIALIZING"]
        /\ ExecuteTask' = [ExecuteTask EXCEPT ![NextID] = "now"]
        /\ FramesToSend' = Frames_For_New_Process(NextID, message.source, message.opts)
  /\ UNCHANGED <<State, PendingShutdownIDs, PersistentGetRequests>>

(* Mutant of the next: the first process is never asked.                   *)
Others_But_First(process) == Records \ {process, CONCURRENCY_MANAGER, LOGGING, FIRST_FREE_ID}

(* Initiate_Process_Shutdown: everyone else is asked to give up process'   *)
(* mailbox; with no one to ask, the process is told to shut down at once.  *)
Others(process) == Records \ {process, CONCURRENCY_MANAGER, LOGGING}

Initiate_Process_Shutdown(process) ==
  /\ PersistentGetRequests' = { request \in PersistentGetRequests : request[1] # process }
  /\ PendingShutdownIDs' = [PendingShutdownIDs EXCEPT ![process] = Others(process)]
  /\ IF Others(process) = {}
     THEN /\ ProcessRecords' = [ProcessRecords EXCEPT ![process] = "SHUTTING_DOWN_PHASE2"]
          /\ FramesToSend' = Send_Process_Message({process}, CShutdownSelfRequest(FALSE))
     ELSE /\ ProcessRecords' = [ProcessRecords EXCEPT ![process] = "SHUTTING_DOWN_PHASE1"]
          /\ FramesToSend' = Send_Process_Message(Others(process), CReleaseMailboxRequest(process))

Handle_Shutdown_Process_Message ==
  /\ Handling("ShutdownProcess")
  /\ IF Is_Manager_Shutting_Down \/ ~Has_Record(message.id) \/ Is_Process_Shutting_Down(message.id)
     THEN UNCHANGED <<ProcessRecords, PendingShutdownIDs, PersistentGetRequests, FramesToSend>>
     ELSE Initiate_Process_Shutdown(message.id)
  /\ UNCHANGED <<State, NextID, ExecuteTask>>

(* The execute time is the smaller of the requested time and now: the      *)
(* process is due whatever it asked for.                                   *)
Handle_Reschedule_Process_Message ==
  /\ Handling("RescheduleProcess")
  /\ IF Has_Record(message.source)
     THEN /\ ExecuteTask[message.source] = "none"     \* FATAL_ASSERT in Add_Execute_Task
          /\ ExecuteTask' = [ExecuteTask EXCEPT ![message.source] = "now"]
     ELSE UNCHANGED ExecuteTask
  /\ UNCHANGED <<State, NextID, ProcessRecords, PendingShutdownIDs, PersistentGetRequests, FramesToSend>>

(* The processes source gives the mailboxes of back, and those of them     *)
(* that have now heard back from everyone.                                 *)
Released(ids) == { id \in ids \ {INVALID} : Has_Record(id) }
(* Mutant of the next: the last answer is not yet counted. *)
Finished_Too_Late(source, ids) == { id \in Released(ids) : PendingShutdownIDs[id] = {} }

Finished(source, ids) == { id \in Released(ids) : PendingShutdownIDs[id] \subseteq {source} }

Handle_Release_Mailbox_Response ==
  /\ Handling("ReleaseMailboxResponse")
  /\ IF Is_Manager_Shutting_Down
     THEN UNCHANGED <<ProcessRecords, PendingShutdownIDs, FramesToSend>>
     ELSE /\ \A id \in Released(message.ids) : ProcessRecords[id] = "SHUTTING_DOWN_PHASE1"   \* FATAL_ASSERT
          /\ PendingShutdownIDs' =
               [id \in EProcessID |-> IF id \in Released(message.ids)
                                      THEN PendingShutdownIDs[id] \ {message.source} ELSE PendingShutdownIDs[id]]
          /\ ProcessRecords' =
               [id \in EProcessID |-> IF id \in Finished(message.source, message.ids)
                                      THEN "SHUTTING_DOWN_PHASE2" ELSE ProcessRecords[id]]
          /\ FramesToSend' =
               Send_Process_Message(Finished(message.source, message.ids), CShutdownSelfRequest(FALSE))
  /\ UNCHANGED <<State, NextID, ExecuteTask, PersistentGetRequests>>

(* Finalize joins the thread of a thread process before the record goes:   *)
(* the manager waits here until the thread has left its loop.              *)
Handle_Shutdown_Self_Response ==
  /\ Handling("ShutdownSelfResponse")
  /\ ProcessRecords[message.source] = "SHUTTING_DOWN_PHASE2"
       \/ (Has_Record(message.source) /\ Is_Manager_Shutting_Down)                 \* FATAL_ASSERTs
  /\ threads[message.source] # "running"
  /\ ExecuteTask[message.source] = "none"                                          \* ~CProcessRecord
  /\ ProcessRecords' = [ProcessRecords EXCEPT ![message.source] = "NO_RECORD"]
  /\ PendingShutdownIDs' = [PendingShutdownIDs EXCEPT ![message.source] = {}]
  /\ UNCHANGED <<State, NextID, ExecuteTask, PersistentGetRequests, FramesToSend>>

Handle_Shutdown_Manager_Message ==
  /\ Handling("ShutdownManager")
  /\ IF Is_Manager_Shutting_Down
     THEN UNCHANGED <<State, FramesToSend>>
     ELSE /\ State' = "SHUTTING_DOWN_PHASE1"
          /\ FramesToSend' = Send_Process_Message(Records \ {CONCURRENCY_MANAGER, LOGGING},
                                                  CShutdownSelfRequest(TRUE))
  /\ UNCHANGED <<NextID, ProcessRecords, PendingShutdownIDs, ExecuteTask, PersistentGetRequests>>

Handle_Message ==
  \/ Handle_Get_Mailbox_By_ID_Request
  \/ Handle_Get_Mailbox_By_Properties_Request
  \/ Handle_Add_New_Process_Message
  \/ Handle_Shutdown_Process_Message
  \/ Handle_Reschedule_Process_Message
  \/ Handle_Release_Mailbox_Response
  \/ Handle_Shutdown_Self_Response
  \/ Handle_Shutdown_Manager_Message

-----------------------------------------------------------------------------
(* Flush_Frames adds one frame at a time: a process may be at work on its  *)
(* frame before another gets its own.                                      *)

Unsent == { id \in EProcessID : FramesToSend[id] # <<>> }

Flush_Frame(id) ==
  /\ phase = "handle"
  /\ control_frames = <<>>
  /\ id \in Unsent
  /\ Has_Record(id)
  /\ Add_Frame(id, FramesToSend[id])
  /\ FramesToSend' = [FramesToSend EXCEPT ![id] = <<>>]
  /\ UNCHANGED <<State, phase, NextID, ProcessRecords, PendingShutdownIDs, ExecuteTask,
                 PersistentGetRequests, control_frames, tbbQueue, threads, failure>>

Flush_Frames_Done ==
  /\ phase = "handle"
  /\ control_frames = <<>>
  /\ Unsent = {}                                                                    \* FATAL_ASSERT
  /\ phase' = "scheduler"
  /\ UNCHANGED <<State, NextID, ProcessRecords, PendingShutdownIDs, ExecuteTask,
                 PersistentGetRequests, FramesToSend, control_frames, sharedVars>>

(* TaskScheduler->Service executes every task that is due.                 *)
Execute_Process(id) ==
  /\ phase = "scheduler"
  /\ ExecuteTask[id] = "now"
  /\ ExecuteTask' = [ExecuteTask EXCEPT ![id] = "none"]
  /\ IF ~Has_Record(id)
     THEN UNCHANGED <<ProcessRecords, tbbQueue, threads>>
     ELSE /\ ProcessRecords' = IF ProcessRecords[id] = "INITIALIZING"
                               THEN [ProcessRecords EXCEPT ![id] = "RUNNING"]
                               ELSE ProcessRecords
          /\ IF id \in ThreadProcesses
             THEN /\ threads' = [threads EXCEPT ![id] = IF @ = "none" THEN "running" ELSE @]
                  /\ UNCHANGED tbbQueue
             ELSE /\ tbbQueue' = [tbbQueue EXCEPT ![id] = @ + 1]
                  /\ UNCHANGED threads
  /\ UNCHANGED <<State, phase, NextID, PendingShutdownIDs, PersistentGetRequests, FramesToSend,
                 control_frames, mailbox, failure>>

(* With only its own and the logging record left the manager shuts logging *)
(* down; with only its own left, Service returns.                          *)
Service_Shutdown ==
  /\ phase = "scheduler"
  /\ \A id \in ManagedIDs : ExecuteTask[id] # "now"
  /\ LET loggingOnly == Cardinality(Records) = 2 /\ State # "SHUTTING_DOWN_PHASE2"
         alone       == ~loggingOnly /\ Cardinality(Records) = 1
     IN /\ State' = IF loggingOnly THEN "SHUTTING_DOWN_PHASE2" ELSE State
        /\ FramesToSend' = IF loggingOnly THEN Send_Process_Message({LOGGING}, CShutdownSelfRequest(TRUE))
                                          ELSE FramesToSend
        /\ ProcessRecords' = IF alone THEN [id \in EProcessID |-> "NO_RECORD"] ELSE ProcessRecords
        /\ phase' = IF alone THEN "done" ELSE "incoming"
  /\ UNCHANGED <<NextID, PendingShutdownIDs, ExecuteTask, PersistentGetRequests, control_frames, sharedVars>>

Manager_Next ==
  \/ Service_Incoming_Frames
  \/ Handle_Message
  \/ \E id \in EProcessID : Flush_Frame(id)
  \/ Flush_Frames_Done
  \/ \E id \in ManagedIDs : Execute_Process(id)
  \/ Service_Shutdown

-----------------------------------------------------------------------------
(* The assertions that the manager's next step would fail.                 *)

Next_Is(type) == phase = "handle" /\ control_frames # <<>> /\ message.type = type

ManagerFailures ==
  { f \in Failures :
      \/ /\ f = "Add_Execute_Task"
         /\ Next_Is("RescheduleProcess")
         /\ Has_Record(message.source)
         /\ ExecuteTask[message.source] # "none"
      \/ /\ f = "Handle_Release_Mailbox_Response"
         /\ Next_Is("ReleaseMailboxResponse")
         /\ ~Is_Manager_Shutting_Down
         /\ \E id \in message.ids \ {INVALID} :
              ProcessRecords[id] \notin {"NO_RECORD", "SHUTTING_DOWN_PHASE1"}
      \/ /\ f = "Handle_Shutdown_Self_Response"
         /\ Next_Is("ShutdownSelfResponse")
         /\ ProcessRecords[message.source] # "SHUTTING_DOWN_PHASE2"
         /\ ~(Has_Record(message.source) /\ Is_Manager_Shutting_Down)
      \/ /\ f = "~CProcessRecord"
         /\ Next_Is("ShutdownSelfResponse")
         /\ ProcessRecords[message.source] = "SHUTTING_DOWN_PHASE2"
              \/ (Has_Record(message.source) /\ Is_Manager_Shutting_Down)
         /\ ExecuteTask[message.source] # "none"
      \/ /\ f = "Flush_Frames"
         /\ phase = "handle" /\ control_frames = <<>>
         /\ Unsent # {}
         /\ \A id \in Unsent : ~Has_Record(id) }
=============================================================================
