-------------------------- MODULE ConcurrencyRuntime --------------------------
(***************************************************************************)
(* The concurrency runtime: the manager's thread, the TBB workers and the  *)
(* process threads, interleaved.                                           *)
(***************************************************************************)
EXTENDS ConcurrencyManager, ProcessBase

vars == <<sharedVars, managerVars, processVars>>

Init == SharedInit /\ Setup_For_Run /\ ProcessInit

Running == failure = "none"

Manager_Step    == Running /\ Manager_Next /\ UNCHANGED processVars
Process_Step(id) == Running /\ Process_Next(id) /\ UNCHANGED managerVars

(* A FATAL_ASSERT that fails brings the program down.                      *)
Fatal_Assert ==
  /\ Running
  /\ failure' \in ManagerFailures \cup UNION { ProcessFailures(id) : id \in ManagedIDs }
  /\ UNCHANGED <<mailbox, tbbQueue, threads, managerVars, processVars>>

(* The program has ended: Service returned, or an assertion failed.        *)
Ended == (phase = "done" \/ ~Running) /\ UNCHANGED vars

Next == Manager_Step \/ (\E id \in ManagedIDs : Process_Step(id)) \/ Fatal_Assert \/ Ended

Spec == Init /\ [][Next]_vars

(* The operating system keeps running the manager's thread and the process *)
(* threads, and TBB begins every enqueued task and lets it finish; a step  *)
(* that fails an assertion is taken like any other.                        *)
Fairness ==
  /\ WF_vars(Manager_Step)
  /\ WF_vars(Fatal_Assert)
  /\ \A id \in ManagedIDs : WF_vars(Process_Step(id))

FairSpec == Spec /\ Fairness

TypeOK == SharedTypeOK /\ ManagerTypeOK /\ ProcessTypeOK

-----------------------------------------------------------------------------
(* Where messages are on their way.                                        *)

(* A frame for a process that has no record is never sent.                 *)
To_Process(id) ==
  Contents(mailbox[id]) \cup (IF Has_Record(id) THEN Contents(FramesToSend[id]) ELSE {})

To_Manager == Contents(mailbox[CONCURRENCY_MANAGER]) \cup Contents(control_frames)

From_Process(id) == { m \in To_Manager \cup Contents(ManagerFrame[id]) : m.source = id }

(* Whoever has process' mailbox, or has been sent it.                      *)
Holders(process) ==
  { id \in ProcessIDs : \/ process \in Mailboxes[id]
                        \/ \E m \in To_Process(id) : m.type = "AddMailbox" /\ process \in m.ids }

(* The requests for another execution: id asks the manager to reschedule   *)
(* it.  ToHandle is what the manager has yet to handle, oldest first.      *)
Asks(id, m)         == m.type = "RescheduleProcess" /\ m.source = id
Asked(id, queue)    == \E i \in DOMAIN queue : Asks(id, queue[i])
AskedOnce(id, queue) == \A i, j \in DOMAIN queue : Asks(id, queue[i]) /\ Asks(id, queue[j]) => i = j

ToHandle == control_frames \o mailbox[CONCURRENCY_MANAGER]

TaskProcesses == ManagedIDs \ ThreadProcesses

-----------------------------------------------------------------------------
(* Safety.                                                                 *)

(* No assertion of the manager or the processes fails.                     *)
NoFatalAssert == failure = "none"

(* A task process is never executed by two workers at once: while a TBB    *)
(* task for it waits, no worker is in its Run, and there are never two     *)
(* waiting.  Everything CProcessBase does without a lock rests on this.    *)
OneWorkerAtATime ==
  \A id \in TaskProcesses :
    /\ tbbQueue[id] <= 1
    /\ tbbQueue[id] = 1 => pc[id] = "idle"

(* When a process is told to shut itself down by the shutdown protocol, no *)
(* one has a handle to it anymore or will get one (the comment in          *)
(* Handle_Release_Mailbox_Response), and this stays so once it is gone.    *)
NoHandleLeft ==
  \A process \in ProcessIDs :
    \/ ProcessRecords[process] = "SHUTTING_DOWN_PHASE2"
    \/ State = "RUNNING" /\ ProcessRecords[process] = "NO_RECORD"
    => Holders(process) = {}

(* A soft shutdown loses no message: what a process had sent to another    *)
(* before it gave up the other's mailbox is handled by the other's last    *)
(* execution, after which nothing arrives.                                 *)
SoftShutdownLosesNothing ==
  \A id \in ProcessIDs :
    processState[id] = "EPS_SHUTTING_DOWN_SOFT" => \A m \in Contents(mailbox[id]) : m.type # "User"

(* Every process the manager still waits for in someone's shutdown has the *)
(* request or its answer on its way: no shutdown waits for an answer that  *)
(* no one will give.                                                       *)
AcknowledgementsOnTheirWay ==
  State = "RUNNING" =>
    \A process \in ProcessIDs : \A id \in PendingShutdownIDs[process] :
      \/ \E m \in To_Process(id) : m.type = "ReleaseMailboxRequest" /\ m.id = process
      \/ process \in ShutdownMailboxes[id]
      \/ \E m \in From_Process(id) : m.type = "ReleaseMailboxResponse" /\ process \in m.ids

(* Why there is never a second worker: a task process has at most one      *)
(* execution, which is scheduled, enqueued, under way or asked for, and it *)
(* asks for the next one only at the end of the one under way.             *)
OneExecution ==
  \A id \in TaskProcesses :
    /\ tbbQueue[id] <= 1
    /\ AskedOnce(id, ToHandle) /\ AskedOnce(id, ManagerFrame[id])
    /\ ExecuteTask[id] # "none" => tbbQueue[id] = 0 /\ pc[id] = "idle" /\ ~Asked(id, ToHandle)
    /\ tbbQueue[id] # 0 => pc[id] = "idle" /\ ~Asked(id, ToHandle)
    /\ pc[id] # "idle" => ~Asked(id, ToHandle)

(* "A thread should not be rescheduled if it's in the shut down stage"     *)
(* (ProcessBase.cpp:459): no execution of a process that has shut down is  *)
(* waiting, or will be.                                                    *)
NotRunAfterShutdown ==
  \A id \in TaskProcesses :
    Is_Shutting_Down(id) => /\ ExecuteTask[id] = "none"
                            /\ tbbQueue[id] = 0
                            /\ ~Asked(id, ToHandle)
                            /\ ~Asked(id, ManagerFrame[id])

Unused(id) ==
  /\ ExecuteTask[id] = "none" /\ tbbQueue[id] = 0 /\ pc[id] = "idle"
  /\ ~Asked(id, ToHandle) /\ ~Is_Shutting_Down(id)

(* The messages that only processes send, about themselves.                *)
OfProcesses(m) == m.type \in {"RescheduleProcess", "ShutdownSelfResponse"}

(* What OneExecution and NotRunAfterShutdown rest on, step by step: frames *)
(* carry the id of the process that fills them, an idle process has sent   *)
(* its frame, the manager's mailbox is given up only after the last        *)
(* execution, ids that have not been given out are unused, the manager     *)
(* takes new frames only when it has handled the last ones, and it does    *)
(* not send what only processes send.                                      *)
ExecutionInv ==
  /\ OneExecution
  /\ NotRunAfterShutdown
  /\ \A id \in ManagedIDs : \A m \in Contents(ManagerFrame[id]) : m.source = id
  /\ \A id \in TaskProcesses : pc[id] = "idle" => ManagerFrame[id] = <<>>
  /\ \A id \in TaskProcesses : ~ManagerMailbox[id] => Is_Shutting_Down(id) /\ pc[id] = "idle"
  /\ \A id \in TaskProcesses : id >= NextID => Unused(id)
  /\ phase # "handle" => control_frames = <<>>
  /\ \A id \in EProcessID : \A m \in Contents(FramesToSend[id]) : ~OfProcesses(m)

(* A task process that has not shut down will be executed again: the flush *)
(* of the manager frame is ordered so that no request to reschedule is     *)
(* lost (ProcessBase.cpp:122, "in order to avoid race conditions related   *)
(* to rescheduling").                                                      *)
AlwaysRescheduled ==
  \A id \in TaskProcesses :
    Has_Record(id) /\ ~Is_Shutting_Down(id) =>
      \/ ExecuteTask[id] # "none"
      \/ tbbQueue[id] # 0
      \/ pc[id] # "idle" /\ Asked(id, ManagerFrame[id])
      \/ Asked(id, ToHandle)

(* The manager never keeps a frame it cannot send: "we should never have   *)
(* leftover frames" (ConcurrencyManager.cpp:521).                          *)
NoLeftoverFrames == failure # "Flush_Frames"

(* A process is told to shut itself down once: FATAL_ASSERT( !Is_Shutting_ *)
(* Down() ) (ProcessBase.cpp:409).  Refuted: its own shutdown and the      *)
(* manager's may each send it the request before it has seen either.       *)
NotToldAgain == failure # "Handle_Shutdown_Self_Request"

(* A mailbox that is handed over is there (ProcessBase.cpp:381-382, which  *)
(* asserts whose it is).  Refuted: the creator of a new process may be     *)
(* gone by the time its mailbox is forwarded (ConcurrencyManager.cpp:699). *)
MailboxAtHand == failure # "null mailbox"

-----------------------------------------------------------------------------
(* Liveness.                                                               *)

(* A process whose shutdown has begun is gone in the end, unless the whole *)
(* program is brought down before.                                         *)
ShutdownCompletes ==
  \A process \in ProcessIDs :
    Is_Process_Shutting_Down(process)
      ~> ~Has_Record(process) \/ Is_Manager_Shutting_Down \/ ~Running

(* Once told to shut down, the manager's service loop ends.                *)
ManagerTerminates == Is_Manager_Shutting_Down ~> phase = "done"

(* "Schedule first execution if necessary" (ConcurrencyManager.cpp:436): a *)
(* process that is started is executed.  Refuted: Setup_For_Run schedules  *)
(* the first processes by a base time that it replaces right after.        *)
StartedIsExecuted ==
  \A id \in ManagedIDs : Has_Record(id) ~> processState[id] # "EPS_INITIALIZING"

-----------------------------------------------------------------------------
(* The runtime implements MailboxHandles.                                  *)

HandleStatus ==
  [p \in ProcessIDs |->
     CASE ProcessRecords[p] \in {"INITIALIZING", "RUNNING"} -> "running"
       [] ProcessRecords[p] = "SHUTTING_DOWN_PHASE1"        -> "closing"
       [] ProcessRecords[p] = "SHUTTING_DOWN_PHASE2"        -> "closed"
       [] ProcessRecords[p] = "NO_RECORD" /\ p >= NextID    -> "unborn"
       [] ProcessRecords[p] = "NO_RECORD" /\ p < NextID     -> "gone"]

Handles == INSTANCE MailboxHandles
  WITH Process <- ProcessIDs, First <- FIRST_FREE_ID, status <- HandleStatus,
       holders <- [p \in ProcessIDs |-> Holders(p)], ending <- State # "RUNNING"

(* Handles to mailboxes are given out, released and gone as MailboxHandles *)
(* has it, whatever the shutdowns that overlap.                            *)
ImplementsMailboxHandles == Handles!Spec
=============================================================================
