------------------------------ MODULE Execution ------------------------------
(***************************************************************************)
(* What the concurrency manager and the virtual processes share: process   *)
(* ids, the messages they exchange, the mailboxes the messages travel      *)
(* through, the queue of TBB tasks and the FATAL_ASSERT that ends the      *)
(* program.                                                                *)
(*                                                                         *)
(* A frame (CProcessMessageFrame) is a sequence of messages of one source. *)
(* Frames are added to a mailbox and removed from it under its lock        *)
(* (CLockingConcurrentQueue), and a reader takes everything there is and   *)
(* handles frame after frame, message after message: a mailbox is          *)
(* therefore one sequence of messages, each with its source.               *)
(*                                                                         *)
(* AddMailbox and ReleaseMailboxResponse messages are sent in runs, one    *)
(* per process id, into the same frame; one message of the model stands    *)
(* for such a run and carries the set of ids in ids.                       *)
(***************************************************************************)
EXTENDS Integers, Sequences, FiniteSets

CONSTANTS
  MaxProcessID,      \* bound: the highest process id that is allocated
  ThreadProcesses    \* the processes in execution mode THREAD; the others are TBB_TASK

INVALID             == 0
CONCURRENCY_MANAGER == 1
LOGGING             == 2
FIRST_FREE_ID       == 3

EProcessID == CONCURRENCY_MANAGER .. MaxProcessID
ManagedIDs == LOGGING .. MaxProcessID          \* every id with an IManagedProcess
ProcessIDs == FIRST_FREE_ID .. MaxProcessID    \* ids given out by Allocate_Process_ID

ASSUME MaxProcessIDAssumption == MaxProcessID \in Nat /\ MaxProcessID >= FIRST_FREE_ID
ASSUME ThreadProcessesAssumption == ThreadProcesses \subseteq ProcessIDs

MessageTypes == { "GetMailboxByID", "GetMailboxByProperties", "AddNewProcess",
                  "ShutdownProcess", "ShutdownManager", "RescheduleProcess",
                  "ReleaseMailboxResponse", "ShutdownSelfResponse",
                  "AddMailbox", "ReleaseMailboxRequest", "ShutdownSelfRequest",
                  "User" }

(* id: the process the message is about.  ids: the mailboxes it hands over *)
(* or gives back, or the processes a property pattern matches.  opts: the  *)
(* flags of its constructor.                                               *)
Message == [ type   : MessageTypes,
             source : EProcessID,
             id     : EProcessID \cup {INVALID},
             ids    : SUBSET (EProcessID \cup {INVALID}),
             opts   : SUBSET {"return", "forward", "hard"} ]

About(type, source, id) ==
  [type |-> type, source |-> source, id |-> id, ids |-> {}, opts |-> {}]

CAddMailboxMessage(ids) ==
  [type |-> "AddMailbox", source |-> CONCURRENCY_MANAGER, id |-> INVALID, ids |-> ids, opts |-> {}]

CReleaseMailboxRequest(id) == About("ReleaseMailboxRequest", CONCURRENCY_MANAGER, id)

CShutdownSelfRequest(hard) ==
  [type |-> "ShutdownSelfRequest", source |-> CONCURRENCY_MANAGER, id |-> INVALID, ids |-> {},
   opts |-> IF hard THEN {"hard"} ELSE {}]

CReleaseMailboxResponse(source, ids) ==
  [type |-> "ReleaseMailboxResponse", source |-> source, id |-> INVALID, ids |-> ids, opts |-> {}]

CShutdownSelfResponse(source)     == About("ShutdownSelfResponse", source, INVALID)
CRescheduleProcessMessage(source) == About("RescheduleProcess", source, INVALID)
UserMessage(source)               == About("User", source, INVALID)

Contents(queue) == { queue[i] : i \in DOMAIN queue }

-----------------------------------------------------------------------------

VARIABLES
  mailbox,     \* mailbox[id]: the messages in id's CProcessMailbox, oldest first
  tbbQueue,    \* tbbQueue[id]: TBB tasks enqueued for id and not yet begun
  threads,     \* threads[id]: CThreadProcessBase::ExecutionThread
  failure      \* the FATAL_ASSERT that has ended the program, or "none"

sharedVars == <<mailbox, tbbQueue, threads, failure>>

Failures == { "Handle_Shutdown_Self_Request",   \* ProcessBase.cpp:409
              "Handle_Add_Mailbox_Message",     \* ProcessBase.cpp:382
              "null mailbox",                   \* ProcessBase.cpp:381, a null pointer
              "Flush_Frames",                   \* ConcurrencyManager.cpp:522
              "Add_Execute_Task",               \* ConcurrencyManager.cpp:261
              "Handle_Release_Mailbox_Response",\* ConcurrencyManager.cpp:744
              "Handle_Shutdown_Self_Response",  \* ConcurrencyManager.cpp:761-762
              "~CProcessRecord" }               \* ConcurrencyManager.cpp:249

SharedTypeOK ==
  /\ mailbox \in [EProcessID -> Seq(Message)]
  /\ tbbQueue \in [ManagedIDs -> Nat]
  /\ threads \in [ManagedIDs -> {"none", "running", "exited"}]
  /\ failure \in Failures \cup {"none"}

SharedInit ==
  /\ mailbox = [id \in EProcessID |-> <<>>]
  /\ tbbQueue = [id \in ManagedIDs |-> 0]
  /\ threads = [id \in ManagedIDs |-> "none"]
  /\ failure = "none"

(* CWriteOnlyMailbox::Add_Frame and CReadOnlyMailbox::Remove_Frames.       *)
Add_Frame(id, frame) == mailbox' = [mailbox EXCEPT ![id] = @ \o frame]
Remove_Frames(id)    == mailbox' = [mailbox EXCEPT ![id] = <<>>]
=============================================================================
