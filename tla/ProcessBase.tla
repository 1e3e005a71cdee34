----------------------------- MODULE ProcessBase -----------------------------
(***************************************************************************)
(* CProcessBase, CTaskProcessBase and CThreadProcessBase: a virtual        *)
(* process, run by a TBB task at a time or by a thread of its own.  One    *)
(* execution takes every frame in the mailbox, handles the messages, lets  *)
(* the application act, sends the outbound frames, gives up the mailboxes  *)
(* it was asked to release, and last of all sends what it has for the      *)
(* manager, the request to be scheduled again among it.                    *)
(*                                                                         *)
(* What the application does with the messages is left to choice: it may   *)
(* send one request to the manager and one message to another process in   *)
(* an execution, within the bounds of Budgets.                              *)
(***************************************************************************)
EXTENDS Execution

CONSTANTS
  Budgets,             \* bounds: how many messages of each kind the application sends in a run
  Patterns,            \* the property patterns it asks for, each the set of ids it matches
  RequestableIDs,      \* the ids it asks the mailbox of
  NewProcessFlags,     \* the flags it asks for new processes with
  LateRequests,        \* whether it asks for anything once it has been told to shut down
  InterruptibleFlush   \* FALSE: the manager never has a process executed again between the
                       \* two statements of Flush_System_Messages that send and reset the
                       \* manager frame; TRUE: it may, as nothing in the code prevents

RequestTypes == { "GetMailboxByID", "GetMailboxByProperties", "AddNewProcess",
                  "ShutdownProcess", "ShutdownManager" }

ASSUME BudgetAssumption == Budgets \subseteq [RequestTypes \cup {"User"} -> Nat]
ASSUME AddBudgetAssumption == \A b \in Budgets : b["AddNewProcess"] + FIRST_FREE_ID <= MaxProcessID
ASSUME PatternsAssumption == Patterns \subseteq SUBSET EProcessID
ASSUME RequestableIDsAssumption == RequestableIDs \subseteq EProcessID
ASSUME NewProcessFlagsAssumption == NewProcessFlags \subseteq SUBSET {"return", "forward"}
ASSUME LateRequestsAssumption == LateRequests \in BOOLEAN
ASSUME InterruptibleFlushAssumption == InterruptibleFlush \in BOOLEAN

VARIABLES
  processState,            \* processState[id]: EProcessState of the process object
  pc,                      \* pc[id]: how far the execution of id has come
  Mailboxes,               \* Mailboxes[id]: whose mailboxes id can write to
  ShutdownMailboxes,       \* ShutdownMailboxes[id]: whose it has been asked to release
  PendingOutboundFrames,   \* PendingOutboundFrames[id][dest]: messages in the frame to dest
  ManagerFrame,            \* ManagerFrame[id]: the frame to the manager
  ManagerMailbox,          \* ManagerMailbox[id]: whether id still has the manager's mailbox
  resetting,               \* processes with a worker about to reset the frame it has sent
  budget                   \* what is left of it

processVars == <<processState, pc, Mailboxes, ShutdownMailboxes, PendingOutboundFrames,
                 ManagerFrame, ManagerMailbox, resetting, budget>>

EProcessState == { "EPS_INITIALIZING", "EPS_RUNNING",
                   "EPS_SHUTTING_DOWN_SOFT", "EPS_SHUTTING_DOWN_HARD" }

ProcessTypeOK ==
  /\ processState \in [ManagedIDs -> EProcessState]
  /\ pc \in [ManagedIDs -> {"idle", "flush", "system"}]
  /\ Mailboxes \in [ManagedIDs -> SUBSET EProcessID]
  /\ ShutdownMailboxes \in [ManagedIDs -> SUBSET EProcessID]
  /\ PendingOutboundFrames \in [ManagedIDs -> [ProcessIDs -> Nat]]
  /\ ManagerFrame \in [ManagedIDs -> Seq(Message)]
  /\ ManagerMailbox \in [ManagedIDs -> BOOLEAN]
  /\ resetting \in SUBSET ManagedIDs
  /\ budget \in [RequestTypes \cup {"User"} -> Nat]

ProcessInit ==
  /\ processState = [id \in ManagedIDs |-> "EPS_INITIALIZING"]
  /\ pc = [id \in ManagedIDs |-> "idle"]
  /\ Mailboxes = [id \in ManagedIDs |-> {}]
  /\ ShutdownMailboxes = [id \in ManagedIDs |-> {}]
  /\ PendingOutboundFrames = [id \in ManagedIDs |-> [dest \in ProcessIDs |-> 0]]
  /\ ManagerFrame = [id \in ManagedIDs |-> <<>>]
  /\ ManagerMailbox = [id \in ManagedIDs |-> TRUE]
  /\ resetting = {}
  /\ budget \in Budgets

Shutting_Down(state) == state \in {"EPS_SHUTTING_DOWN_SOFT", "EPS_SHUTTING_DOWN_HARD"}
Is_Shutting_Down(id) == Shutting_Down(processState[id])

-----------------------------------------------------------------------------
(* What the messages in the mailbox ask for.                               *)

Incoming(id, type) == { m \in Contents(mailbox[id]) : m.type = type }

Added_Mailboxes(id) == UNION { m.ids : m \in Incoming(id, "AddMailbox") }

(* Mutant of the next: a mailbox the process does not have is not released.*)
Released_If_Held(id) == { m.id : m \in Incoming(id, "ReleaseMailboxRequest") } \cap Mailboxes[id]

Released_Mailboxes(id) == { m.id : m \in Incoming(id, "ReleaseMailboxRequest") }

State_After_Messages(id) ==
  IF Incoming(id, "ShutdownSelfRequest") = {} THEN "EPS_RUNNING"
  ELSE IF \E m \in Incoming(id, "ShutdownSelfRequest") : "hard" \in m.opts
       THEN "EPS_SHUTTING_DOWN_HARD" ELSE "EPS_SHUTTING_DOWN_SOFT"

(* What the application of process id may ask of the manager.              *)
Requests(id) ==
  { m \in [type : {"GetMailboxByID"}, source : {id}, id : RequestableIDs, ids : {{}}, opts : {{}}]
     \cup [type : {"GetMailboxByProperties"}, source : {id}, id : {INVALID}, ids : Patterns, opts : {{}}]
     \cup [type : {"AddNewProcess"}, source : {id}, id : {INVALID}, ids : {{}}, opts : NewProcessFlags]
     \cup [type : {"ShutdownProcess"}, source : {id}, id : ProcessIDs, ids : {{}}, opts : {{}}]
     \cup [type : {"ShutdownManager"}, source : {id}, id : {INVALID}, ids : {{}}, opts : {{}}]
      : id # LOGGING /\ budget[m.type] > 0 }

Recipients(id) == { dest \in ProcessIDs \ {id} : id # LOGGING /\ budget["User"] > 0 }

(* A TBB task is waiting, or the thread is at the top of its loop and goes *)
(* round again.                                                            *)
Can_Begin(id) ==
  IF id \in ThreadProcesses THEN threads[id] = "running" /\ pc[id] = "idle" /\ ~Is_Shutting_Down(id)
                            ELSE tbbQueue[id] > 0

(* Mutant of the next: an execution that no one has scheduled.             *)
Begin_Unasked(id) == tbbQueue' = [tbbQueue EXCEPT ![id] = @ - 1]

Begin(id) ==
  /\ Can_Begin(id)
  /\ tbbQueue' = IF id \in ThreadProcesses THEN tbbQueue ELSE [tbbQueue EXCEPT ![id] = @ - 1]

-----------------------------------------------------------------------------
(* The assertions and null dereferences that id's next step would meet.    *)

ProcessFailures(id) ==
  { f \in Failures :
      /\ Can_Begin(id)
      /\ ~Is_Shutting_Down(id)
      /\ \/ /\ f = "Handle_Shutdown_Self_Request"
            /\ \E i, j \in DOMAIN mailbox[id] :
                 /\ i # j
                 /\ mailbox[id][i].type = "ShutdownSelfRequest"
                 /\ mailbox[id][j].type = "ShutdownSelfRequest"
         \/ /\ f = "Handle_Add_Mailbox_Message"
            /\ Added_Mailboxes(id) \cap {CONCURRENCY_MANAGER, LOGGING} # {}
         \/ /\ f = "null mailbox"
            /\ INVALID \in Added_Mailboxes(id) }

(* Mutants of Frame_After_Messages: rescheduled before the messages are    *)
(* looked at; rescheduled only from the second execution on; no response.  *)
Frame_Reschedule_First(id, asked, early) ==
  LET reply == IF Shutting_Down(State_After_Messages(id)) THEN <<CShutdownSelfResponse(id)>> ELSE <<>>
  IN <<CRescheduleProcessMessage(id)>> \o asked \o reply

Frame_First_Not_Rescheduled(id, asked, early) ==
  LET told == Shutting_Down(State_After_Messages(id))
  IN asked \o IF told THEN <<CShutdownSelfResponse(id)>>
              ELSE IF processState[id] = "EPS_INITIALIZING" THEN <<>> ELSE <<CRescheduleProcessMessage(id)>>

Frame_No_Response(id, asked, early) ==
  asked \o IF Shutting_Down(State_After_Messages(id)) \/ id \in ThreadProcesses
           THEN <<>> ELSE <<CRescheduleProcessMessage(id)>>

(* What an execution adds to the manager frame before the mailboxes are    *)
(* released: the response to a request to shut down, or else the request   *)
(* to be scheduled again, and what the application asks for.               *)
Frame_After_Messages(id, asked, early) ==
  LET told       == Shutting_Down(State_After_Messages(id))
      reply      == IF told THEN <<CShutdownSelfResponse(id)>> ELSE <<>>
      reschedule == IF told \/ id \in ThreadProcesses THEN <<>> ELSE <<CRescheduleProcessMessage(id)>>
  IN (IF early THEN asked \o reply ELSE reply \o asked) \o reschedule

(* Service_Message_Frames, the application, Service_Reschedule.  The        *)
(* application asks before the process learns that it is to shut down or,  *)
(* with LateRequests, after.                                               *)
Service_Message_Frames(id) ==
  /\ ProcessFailures(id) = {}
  /\ Remove_Frames(id)
  /\ processState' = [processState EXCEPT ![id] = State_After_Messages(id)]
  /\ Mailboxes' = [Mailboxes EXCEPT ![id] = @ \cup (Added_Mailboxes(id) \ {INVALID})]
  /\ ShutdownMailboxes' = [ShutdownMailboxes EXCEPT ![id] = @ \cup (Released_Mailboxes(id) \ {INVALID})]
  /\ \E asked \in {<<>>} \cup { <<m>> : m \in Requests(id) }, early \in {TRUE, ~LateRequests},
        sentTo \in {{}} \cup { {dest} : dest \in Recipients(id) } :
       /\ ManagerFrame' = [ManagerFrame EXCEPT ![id] = @ \o Frame_After_Messages(id, asked, early)]
       /\ PendingOutboundFrames' =
            [PendingOutboundFrames EXCEPT ![id] =
               [dest \in ProcessIDs |-> IF dest \in sentTo THEN @[dest] + 1 ELSE @[dest]]]
       /\ budget' = [op \in RequestTypes \cup {"User"} |->
                       IF (op = "User" /\ sentTo # {}) \/ (\E m \in Contents(asked) : m.type = op)
                       THEN budget[op] - 1 ELSE budget[op]]
  /\ pc' = [pc EXCEPT ![id] = "flush"]

(* Run returns before it does anything once the process has shut down.     *)
Run(id) ==
  /\ Begin(id)
  /\ IF Is_Shutting_Down(id)
     THEN /\ pc' = [pc EXCEPT ![id] = "system"]
          /\ UNCHANGED <<mailbox, processState, Mailboxes, ShutdownMailboxes,
                         PendingOutboundFrames, ManagerFrame, budget>>
     ELSE Service_Message_Frames(id)
  /\ UNCHANGED <<threads, failure, ManagerMailbox, resetting>>

(* The processes Flush_Regular_Messages can send a frame to: those whose   *)
(* mailbox is at hand, unless the shutdown is a hard one.                  *)
Sendable(id) ==
  { dest \in Mailboxes[id] \cap ProcessIDs :
      PendingOutboundFrames[id][dest] > 0 /\ processState[id] # "EPS_SHUTTING_DOWN_HARD" }

Flush_Regular_Message(id, dest) ==
  /\ pc[id] = "flush"
  /\ dest \in Sendable(id)
  /\ Add_Frame(dest, [i \in 1 .. PendingOutboundFrames[id][dest] |-> UserMessage(id)])
  /\ PendingOutboundFrames' = [PendingOutboundFrames EXCEPT ![id][dest] = 0]
  /\ UNCHANGED <<tbbQueue, threads, failure, processState, pc, Mailboxes, ShutdownMailboxes,
                 ManagerFrame, ManagerMailbox, resetting, budget>>

(* Handle_Shutdown_Mailboxes and the end of Run.  The second flush finds   *)
(* nothing to send: what had a mailbox went out in the first.  A process   *)
(* that shuts down drops every frame and mailbox it still has.             *)
Handle_Shutdown_Mailboxes(id) ==
  /\ pc[id] = "flush"
  /\ Sendable(id) = {}
  /\ Mailboxes' = [Mailboxes EXCEPT ![id] = IF Is_Shutting_Down(id) THEN {} ELSE @ \ ShutdownMailboxes[id]]
  /\ PendingOutboundFrames' =
       [PendingOutboundFrames EXCEPT ![id] =
          [dest \in ProcessIDs |-> IF Is_Shutting_Down(id) \/ dest \in ShutdownMailboxes[id] THEN 0 ELSE @[dest]]]
  /\ ManagerFrame' =
       [ManagerFrame EXCEPT ![id] =
          IF ShutdownMailboxes[id] = {} THEN @ ELSE Append(@, CReleaseMailboxResponse(id, ShutdownMailboxes[id]))]
  /\ ShutdownMailboxes' = [ShutdownMailboxes EXCEPT ![id] = {}]
  /\ pc' = [pc EXCEPT ![id] = "system"]
  /\ UNCHANGED <<sharedVars, processState, ManagerMailbox, resetting, budget>>

(* Mutant of the next: the manager frame goes out with the other frames.   *)
Flush_System_Messages_Early(id) ==
  /\ pc[id] = "flush" /\ ManagerFrame[id] # <<>>
  /\ Add_Frame(CONCURRENCY_MANAGER, ManagerFrame[id])
  /\ ManagerFrame' = [ManagerFrame EXCEPT ![id] = <<>>]
  /\ UNCHANGED <<tbbQueue, threads, failure, processState, pc, Mailboxes, ShutdownMailboxes,
                 PendingOutboundFrames, ManagerMailbox, resetting, budget>>

(* Flush_System_Messages, up to the reset of the manager frame that has    *)
(* been moved into the mailbox.  The logging process flushes under LogLock *)
(* and a thread is the only one to execute its process: there the reset is *)
(* part of the step.                                                       *)
Flush_System_Messages(id) ==
  LET sends == ManagerMailbox[id] /\ ManagerFrame[id] # <<>>
  IN /\ pc[id] = "system"
     /\ sends => id \notin resetting      \* bound: one interrupted worker for each process
     /\ IF sends
        THEN /\ Add_Frame(CONCURRENCY_MANAGER, ManagerFrame[id])
             /\ ManagerFrame' = [ManagerFrame EXCEPT ![id] = <<>>]
        ELSE UNCHANGED <<mailbox, ManagerFrame>>
     /\ resetting' = IF sends /\ InterruptibleFlush /\ id \notin ThreadProcesses \cup {LOGGING}
                     THEN resetting \cup {id} ELSE resetting
     /\ ManagerMailbox' = [ManagerMailbox EXCEPT ![id] = @ /\ ~Is_Shutting_Down(id)]
     /\ pc' = [pc EXCEPT ![id] = "idle"]
     /\ UNCHANGED <<tbbQueue, threads, failure, processState, Mailboxes, ShutdownMailboxes,
                    PendingOutboundFrames, budget>>

(* ManagerFrame.reset(): whatever the frame holds by now is destroyed.     *)
Reset_Manager_Frame(id) ==
  /\ id \in resetting
  /\ resetting' = resetting \ {id}
  /\ ManagerFrame' = [ManagerFrame EXCEPT ![id] = <<>>]
  /\ UNCHANGED <<sharedVars, processState, pc, Mailboxes, ShutdownMailboxes,
                 PendingOutboundFrames, ManagerMailbox, budget>>

(* The thread of a process that has shut down sleeps once more, leaves the *)
(* loop of Thread_Function and ends.  The manager may have its response,   *)
(* and be waiting in Finalize, long before.                                *)
Leave_Loop(id) ==
  /\ id \in ThreadProcesses
  /\ threads[id] = "running"
  /\ pc[id] = "idle"
  /\ Is_Shutting_Down(id)
  /\ threads' = [threads EXCEPT ![id] = "exited"]
  /\ UNCHANGED <<mailbox, tbbQueue, failure, processVars>>

Process_Next(id) ==
  \/ Run(id)
  \/ \E dest \in ProcessIDs : Flush_Regular_Message(id, dest)
  \/ Handle_Shutdown_Mailboxes(id)
  \/ Flush_System_Messages(id)
  \/ Reset_Manager_Frame(id)
  \/ Leave_Loop(id)
=============================================================================
