----------------------- MODULE ConcurrencyRuntimeProofs -----------------------
(***************************************************************************)
(* Every variable of the runtime keeps its type (TypeCorrect).             *)
(*                                                                         *)
(* No task process is ever executed by two workers at once, and none is    *)
(* executed again once it has shut down, for every number of processes,    *)
(* every budget and either reading of Flush_System_Messages.  Until then   *)
(* it is executed again, where no worker is interrupted there.             *)
(*                                                                         *)
(* The argument follows the one token each task process has: its execution *)
(* is scheduled, enqueued with TBB, under way, or asked for in a message   *)
(* that the manager has yet to handle.  ExecutionInv says that it is in at *)
(* most one of these places, and what keeps it so; Keeps, that it is in    *)
(* one of them.  Two assertions of the manager, about executions that are  *)
(* scheduled already, then never fail (AssertionInv).                      *)
(*                                                                         *)
(* The runtime implements MailboxHandles, no one has a handle to a process *)
(* that is told to shut itself down, and a soft shutdown loses no message, *)
(* for every number of processes, every budget, shutdowns that overlap and *)
(* either reading of Flush_System_Messages.                                *)
(*                                                                         *)
(* The argument follows a handle to the mailbox of p that process q has:   *)
(* it travels in a message AddMailbox, is kept in Mailboxes, and then the  *)
(* request to release it, what q notes of that and q's answer travel one   *)
(* after the other through queues that keep their order.  HandleInv says   *)
(* what may still be behind each of them.                                  *)
(***************************************************************************)
EXTENDS ConcurrencyRuntime, SequenceTheorems, FiniteSetTheorems, TLAPS

-----------------------------------------------------------------------------
(* Facts about the constants and the messages.                             *)

USE MaxProcessIDAssumption DEF INVALID, CONCURRENCY_MANAGER, LOGGING, FIRST_FREE_ID

(* The ids of the three families are among each other as the code has them.*)
LEMMA IDs ==
  /\ ProcessIDs \subseteq ManagedIDs /\ ManagedIDs \subseteq EProcessID
  /\ CONCURRENCY_MANAGER \in EProcessID /\ CONCURRENCY_MANAGER \notin ManagedIDs
  /\ LOGGING \in ManagedIDs /\ LOGGING \notin ProcessIDs
  /\ EProcessID \subseteq Int /\ INVALID \notin EProcessID
BY DEF EProcessID, ManagedIDs, ProcessIDs

(* Every constructor builds a message.                                     *)
LEMMA Constructors ==
  /\ \A ids \in SUBSET (EProcessID \cup {INVALID}) : CAddMailboxMessage(ids) \in Message
  /\ \A id \in EProcessID : CReleaseMailboxRequest(id) \in Message
  /\ \A hard \in BOOLEAN : CShutdownSelfRequest(hard) \in Message
  /\ \A source \in EProcessID :
       /\ \A ids \in SUBSET EProcessID : CReleaseMailboxResponse(source, ids) \in Message
       /\ CShutdownSelfResponse(source) \in Message
       /\ CRescheduleProcessMessage(source) \in Message
       /\ UserMessage(source) \in Message
BY DEF CAddMailboxMessage, CReleaseMailboxRequest, CShutdownSelfRequest, CReleaseMailboxResponse,
       CShutdownSelfResponse, CRescheduleProcessMessage, UserMessage, About, Message, MessageTypes,
       EProcessID

(* Sending a message leaves FramesToSend a table of frames.                *)
LEMMA SendType ==
  ASSUME FramesToSend \in [EProcessID -> Seq(Message)], NEW ids, NEW m \in Message
  PROVE  Send_Process_Message(ids, m) \in [EProcessID -> Seq(Message)]
BY DEF Send_Process_Message

(* What the application asks for is a message of its own, of a type that   *)
(* a budget counts.                                                        *)
LEMMA RequestsType ==
  ASSUME NEW id \in ManagedIDs, NEW m \in Requests(id)
  PROVE  m \in Message /\ m.type \in RequestTypes /\ m.source = id /\ budget[m.type] > 0
BY PatternsAssumption, RequestableIDsAssumption, NewProcessFlagsAssumption, IDs, ZenonT(40)
DEF Requests, Message, MessageTypes, RequestTypes

(* What is in a sequence of messages is a message.                         *)
LEMMA ContentsType ==
  ASSUME NEW queue \in Seq(Message)
  PROVE  Contents(queue) \subseteq Message
BY DEF Contents

(* The contents of queues.                                               *)
LEMMA ContentsConcat ==
  ASSUME NEW s \in Seq(Message), NEW t \in Seq(Message)
  PROVE  s \o t \in Seq(Message) /\ Contents(s \o t) = Contents(s) \cup Contents(t)
<1> DEFINE st == s \o t
<1>1. /\ Len(st) = Len(s) + Len(t)
      /\ DOMAIN s = 1 .. Len(s) /\ DOMAIN t = 1 .. Len(t) /\ DOMAIN st = 1 .. Len(st)
      /\ Len(s) \in Nat /\ Len(t) \in Nat /\ st \in Seq(Message)
  OBVIOUS
<1>2. \A i \in DOMAIN s : i \in DOMAIN st /\ st[i] = s[i]
  BY <1>1
<1>3. \A i \in DOMAIN t : i + Len(s) \in DOMAIN st /\ st[i + Len(s)] = t[i]
  BY <1>1
<1>4. \A i \in DOMAIN st : \/ i \in DOMAIN s /\ st[i] = s[i]
                           \/ i - Len(s) \in DOMAIN t /\ st[i] = t[i - Len(s)]
  BY <1>1
<1> HIDE DEF st
<1>5. Contents(st) = Contents(s) \cup Contents(t)
  BY <1>2, <1>3, <1>4 DEF Contents
<1> QED BY <1>1, <1>5 DEF st

(* No message, and one.                                                  *)
LEMMA ContentsFew ==
  /\ Contents(<<>>) = {}
  /\ \A m : Contents(<<m>>) = {m}
BY DEF Contents

(* The first message of a queue, and the rest.                           *)
LEMMA ContentsTail ==
  ASSUME NEW s \in Seq(Message), s # <<>>
  PROVE  Head(s) \in Contents(s) /\ Contents(Tail(s)) \subseteq Contents(s) /\ Tail(s) \in Seq(Message)
<1> DEFINE t == Tail(s)
<1>1. /\ DOMAIN s = 1 .. Len(s) /\ DOMAIN t = 1 .. Len(s) - 1 /\ Len(s) \in Nat /\ Len(s) > 0
      /\ Head(s) = s[1] /\ t \in Seq(Message)
  OBVIOUS
<1>2. \A i \in DOMAIN t : i + 1 \in DOMAIN s /\ t[i] = s[i + 1]
  BY <1>1
<1>3. 1 \in DOMAIN s
  BY <1>1
<1> HIDE DEF t
<1>4. Contents(t) \subseteq Contents(s) /\ s[1] \in Contents(s)
  BY <1>2, <1>3 DEF Contents
<1> QED BY <1>1, <1>4 DEF t

(* A queue to which a message is added.                                  *)
LEMMA ContentsAppend ==
  ASSUME NEW s \in Seq(Message), NEW m \in Message
  PROVE  Append(s, m) \in Seq(Message) /\ Contents(Append(s, m)) = Contents(s) \cup {m}
<1>1. Append(s, m) = s \o <<m>> /\ <<m>> \in Seq(Message)
  OBVIOUS
<1> QED BY <1>1, ContentsConcat, ContentsFew

(* The message the manager handles next.                                   *)
LEMMA HeadType ==
  ASSUME control_frames \in Seq(Message), control_frames # <<>>
  PROVE  message \in Message /\ Tail(control_frames) \in Seq(Message)
BY DEF message

-----------------------------------------------------------------------------
(* Type correctness.                                                       *)

(* The initial state has its types.                                        *)
LEMMA TypeInit == Init => TypeOK
<1>1. Init => budget \in [RequestTypes \cup {"User"} -> Nat]
  BY BudgetAssumption, Zenon DEF Init, ProcessInit
<1>2. ASSUME Init PROVE SharedTypeOK /\ ManagerTypeOK
  BY <1>2, BaseTimeIsSetAssumption, IDs
  DEF Init, SharedInit, Setup_For_Run, SharedTypeOK, ManagerTypeOK,
      EConcurrencyManagerState, EInternalProcessState, ScheduleStates, EProcessID
<1>3. ASSUME Init PROVE ProcessTypeOK
  BY <1>1, <1>3, IDs DEF Init, ProcessInit, ProcessTypeOK, EProcessState
<1> QED BY <1>2, <1>3 DEF TypeOK

(* A step of the manager keeps the types.                                  *)
LEMMA TypeManager == TypeOK /\ Manager_Step => TypeOK'
<1> SUFFICES ASSUME TypeOK, Running, Manager_Next, UNCHANGED processVars PROVE TypeOK'
  BY DEF Manager_Step
<1> USE IDs DEF TypeOK
<1>1. ProcessTypeOK'
  BY DEF ProcessTypeOK, processVars
<1>2. CASE Service_Incoming_Frames
  BY <1>1, <1>2, SMTT(40) DEF Service_Incoming_Frames, SharedTypeOK, ManagerTypeOK, Remove_Frames
<1>3. CASE Handle_Message
  <2>0. SharedTypeOK' /\ message \in Message /\ Tail(control_frames) \in Seq(Message) /\ phase' = phase
        /\ control_frames' = Tail(control_frames)
    <3>1. control_frames # <<>> /\ control_frames' = Tail(control_frames)
          /\ UNCHANGED <<phase, mailbox, tbbQueue, threads, failure>>
      BY <1>3 DEF Handle_Message, Handle_Get_Mailbox_By_ID_Request, Handle_Get_Mailbox_By_Properties_Request,
            Handle_Add_New_Process_Message, Handle_Shutdown_Process_Message, Handle_Reschedule_Process_Message,
            Handle_Release_Mailbox_Response, Handle_Shutdown_Self_Response, Handle_Shutdown_Manager_Message,
            Handling
    <3> QED BY <3>1, HeadType DEF SharedTypeOK, ManagerTypeOK
  <2>1. message.source \in EProcessID /\ message.id \in EProcessID \cup {INVALID}
        /\ message.ids \in SUBSET (EProcessID \cup {INVALID})
    BY <2>0 DEF Message
  <2>2. CASE Handle_Get_Mailbox_By_ID_Request
    <3>1. FramesToSend' \in [EProcessID -> Seq(Message)]
      BY <2>1, <2>2, SendType, Constructors DEF Handle_Get_Mailbox_By_ID_Request, ManagerTypeOK
    <3> QED BY <1>1, <2>0, <2>2, <3>1 DEF Handle_Get_Mailbox_By_ID_Request, ManagerTypeOK
  <2>3. CASE Handle_Get_Mailbox_By_Properties_Request
    <3> DEFINE matched == Matching(message.ids, message.source)
    <3>1. CAddMailboxMessage(matched) \in Message
      BY <2>1, Constructors DEF Matching, Records
    <3>2. Send_Process_Message({message.source}, CAddMailboxMessage(matched)) \in [EProcessID -> Seq(Message)]
      BY <3>1, SendType DEF ManagerTypeOK
    <3>3. FramesToSend' \in [EProcessID -> Seq(Message)]
      BY <3>2, <2>3 DEF Handle_Get_Mailbox_By_Properties_Request, ManagerTypeOK
    <3>4. PersistentGetRequests' \in SUBSET (EProcessID \X SUBSET (EProcessID \cup {INVALID}))
      BY <2>1, <2>3 DEF Handle_Get_Mailbox_By_Properties_Request, ManagerTypeOK
    <3> QED BY <1>1, <2>0, <2>3, <3>3, <3>4 DEF Handle_Get_Mailbox_By_Properties_Request, ManagerTypeOK
  <2>4. CASE Handle_Add_New_Process_Message
    <3>1. CASE Is_Manager_Shutting_Down
      BY <1>1, <2>0, <2>4, <3>1 DEF Handle_Add_New_Process_Message, ManagerTypeOK
    <3>2. CASE ~Is_Manager_Shutting_Down
      <4>1. NextID \in ProcessIDs
        BY <2>4, <3>2 DEF Handle_Add_New_Process_Message, ManagerTypeOK, ProcessIDs
      <4>2. Get_Mailbox(message.source) \in EProcessID \cup {INVALID}
        BY <2>1 DEF Get_Mailbox
      <4>3. \A sent : /\ Mailboxes_If(sent, {NextID}) \in Seq(Message)
                   /\ Mailboxes_If(sent, {Get_Mailbox(message.source)}) \in Seq(Message)
        BY <4>1, <4>2, Constructors DEF Mailboxes_If
      <4>4. Frames_For_New_Process(NextID, message.source, message.opts) \in [EProcessID -> Seq(Message)]
        <5> DEFINE new(id)     == Mailboxes_If(id \in Ongoing_Requesters(NextID), {NextID})
                   return(id)  == Mailboxes_If(~Is_Process_Shutting_Down(message.source) /\ "return" \in message.opts
                                                 /\ id = message.source, {NextID})
                   forward(id) == Mailboxes_If(~Is_Process_Shutting_Down(message.source) /\ "forward" \in message.opts
                                                 /\ id = NextID, {Get_Mailbox(message.source)})
        <5>1. \A id \in EProcessID : new(id) \in Seq(Message) /\ return(id) \in Seq(Message) /\ forward(id) \in Seq(Message)
          BY <4>3
        <5>2. Frames_For_New_Process(NextID, message.source, message.opts)
                = [id \in EProcessID |-> FramesToSend[id] \o new(id) \o return(id) \o forward(id)]
          BY DEF Frames_For_New_Process
        <5> HIDE DEF new, return, forward
        <5> QED BY <5>1, <5>2 DEF ManagerTypeOK
      <4>5. NextID' \in FIRST_FREE_ID .. MaxProcessID + 1
        BY <2>4, <3>2, <4>1 DEF Handle_Add_New_Process_Message, ManagerTypeOK, ProcessIDs
      <4>6. ProcessRecords' \in [EProcessID -> EInternalProcessState \cup {"NO_RECORD"}]
        BY <2>4, <3>2 DEF Handle_Add_New_Process_Message, ManagerTypeOK, EInternalProcessState
      <4>7. ExecuteTask' \in [ManagedIDs -> ScheduleStates]
        BY <2>4, <3>2 DEF Handle_Add_New_Process_Message, ManagerTypeOK, ScheduleStates
      <4> QED BY <1>1, <2>0, <2>4, <3>2, <4>4, <4>5, <4>6, <4>7 DEF Handle_Add_New_Process_Message, ManagerTypeOK
    <3> QED BY <3>1, <3>2
  <2>5. CASE Handle_Shutdown_Process_Message
    <3>1. CASE Is_Manager_Shutting_Down \/ ~Has_Record(message.id) \/ Is_Process_Shutting_Down(message.id)
      BY <1>1, <2>0, <2>5, <3>1 DEF Handle_Shutdown_Process_Message, ManagerTypeOK
    <3>2. CASE ~(Is_Manager_Shutting_Down \/ ~Has_Record(message.id) \/ Is_Process_Shutting_Down(message.id))
      <4>1. Initiate_Process_Shutdown(message.id)
        BY <2>5, <3>2 DEF Handle_Shutdown_Process_Message
      <4>2. CReleaseMailboxRequest(message.id) \in Message /\ CShutdownSelfRequest(FALSE) \in Message
        BY <2>1, Constructors DEF CReleaseMailboxRequest, About, Message, MessageTypes
      <4>3. /\ Send_Process_Message(Others(message.id), CReleaseMailboxRequest(message.id))
                 \in [EProcessID -> Seq(Message)]
            /\ Send_Process_Message({message.id}, CShutdownSelfRequest(FALSE)) \in [EProcessID -> Seq(Message)]
        BY <4>2, SendType DEF ManagerTypeOK
      <4>4. Others(message.id) \in SUBSET EProcessID
        BY DEF Others, Records
      <4>5. FramesToSend' \in [EProcessID -> Seq(Message)]
        BY <4>1, <4>3 DEF Initiate_Process_Shutdown
      <4>6. /\ PendingShutdownIDs' \in [EProcessID -> SUBSET EProcessID]
            /\ ProcessRecords' \in [EProcessID -> EInternalProcessState \cup {"NO_RECORD"}]
            /\ PersistentGetRequests' \in SUBSET (EProcessID \X SUBSET (EProcessID \cup {INVALID}))
        BY <4>1, <4>4 DEF Initiate_Process_Shutdown, ManagerTypeOK, EInternalProcessState
      <4> QED BY <1>1, <2>0, <2>5, <4>5, <4>6 DEF Handle_Shutdown_Process_Message, ManagerTypeOK
    <3> QED BY <3>1, <3>2
  <2>6. CASE Handle_Reschedule_Process_Message
    BY <1>1, <2>0, <2>6 DEF Handle_Reschedule_Process_Message, ManagerTypeOK, ScheduleStates
  <2>7. CASE Handle_Release_Mailbox_Response
    <3> DEFINE released == Released(message.ids)
               finished == Finished(message.source, message.ids)
    <3>1. Send_Process_Message(finished, CShutdownSelfRequest(FALSE)) \in [EProcessID -> Seq(Message)]
      BY SendType, Constructors DEF ManagerTypeOK
    <3>2. FramesToSend' \in [EProcessID -> Seq(Message)]
      BY <2>7, <3>1 DEF Handle_Release_Mailbox_Response, ManagerTypeOK
    <3>3. PendingShutdownIDs' \in [EProcessID -> SUBSET EProcessID]
      <4> HIDE DEF released
      <4>1. [id \in EProcessID |-> IF id \in released THEN PendingShutdownIDs[id] \ {message.source}
                                                     ELSE PendingShutdownIDs[id]]
              \in [EProcessID -> SUBSET EProcessID]
        BY DEF ManagerTypeOK
      <4> QED BY <2>7, <4>1 DEF Handle_Release_Mailbox_Response, ManagerTypeOK, released
    <3>4. ProcessRecords' \in [EProcessID -> EInternalProcessState \cup {"NO_RECORD"}]
      <4> HIDE DEF finished
      <4>1. [id \in EProcessID |-> IF id \in finished THEN "SHUTTING_DOWN_PHASE2" ELSE ProcessRecords[id]]
              \in [EProcessID -> EInternalProcessState \cup {"NO_RECORD"}]
        BY DEF ManagerTypeOK, EInternalProcessState
      <4> QED BY <2>7, <4>1 DEF Handle_Release_Mailbox_Response, ManagerTypeOK, finished
    <3> QED BY <1>1, <2>0, <2>7, <3>2, <3>3, <3>4 DEF Handle_Release_Mailbox_Response, ManagerTypeOK
  <2>8. CASE Handle_Shutdown_Self_Response
    BY <1>1, <2>0, <2>8 DEF Handle_Shutdown_Self_Response, ManagerTypeOK
  <2>9. CASE Handle_Shutdown_Manager_Message
    <3>1. Send_Process_Message(Records \ {CONCURRENCY_MANAGER, LOGGING}, CShutdownSelfRequest(TRUE))
            \in [EProcessID -> Seq(Message)]
      BY SendType, Constructors DEF ManagerTypeOK
    <3> QED BY <1>1, <2>0, <2>9, <3>1 DEF Handle_Shutdown_Manager_Message, ManagerTypeOK, EConcurrencyManagerState
  <2> QED BY <1>3, <2>2, <2>3, <2>4, <2>5, <2>6, <2>7, <2>8, <2>9 DEF Handle_Message
<1>4. CASE \E id \in EProcessID : Flush_Frame(id)
  BY <1>1, <1>4, SMTT(40) DEF Flush_Frame, Add_Frame, SharedTypeOK, ManagerTypeOK
<1>5. CASE Flush_Frames_Done
  BY <1>1, <1>5 DEF Flush_Frames_Done, sharedVars, SharedTypeOK, ManagerTypeOK
<1>6. CASE \E id \in ManagedIDs : Execute_Process(id)
  <2> PICK id \in ManagedIDs : Execute_Process(id)
    BY <1>6
  <2>1. SharedTypeOK'
    <3>1. tbbQueue' \in [ManagedIDs -> Nat]
      BY DEF Execute_Process, SharedTypeOK
    <3>2. threads' \in [ManagedIDs -> {"none", "running", "exited"}]
      BY DEF Execute_Process, SharedTypeOK
    <3> QED BY <3>1, <3>2 DEF Execute_Process, SharedTypeOK
  <2>2. /\ ExecuteTask' \in [ManagedIDs -> ScheduleStates]
        /\ ProcessRecords' \in [EProcessID -> EInternalProcessState \cup {"NO_RECORD"}]
    BY DEF Execute_Process, ManagerTypeOK, ScheduleStates, EInternalProcessState
  <2> QED BY <1>1, <2>1, <2>2 DEF Execute_Process, ManagerTypeOK
<1>7. CASE Service_Shutdown
  <2>1. Send_Process_Message({LOGGING}, CShutdownSelfRequest(TRUE)) \in [EProcessID -> Seq(Message)]
    BY SendType, Constructors DEF ManagerTypeOK
  <2> QED BY <1>1, <1>7, <2>1
          DEF Service_Shutdown, sharedVars, SharedTypeOK, ManagerTypeOK, EConcurrencyManagerState
<1> QED BY <1>2, <1>3, <1>4, <1>5, <1>6, <1>7 DEF Manager_Next

(* What a process adds to its manager frame is a sequence of messages.     *)
LEMMA FrameType ==
  ASSUME NEW id \in ManagedIDs, NEW asked \in Seq(Message), NEW early \in BOOLEAN
  PROVE  Frame_After_Messages(id, asked, early) \in Seq(Message)
<1>1. CShutdownSelfResponse(id) \in Message /\ CRescheduleProcessMessage(id) \in Message
  BY Constructors, IDs
<1> QED BY <1>1 DEF Frame_After_Messages

(* A step of a process keeps the types.                                    *)
LEMMA TypeProcess == \A id \in ManagedIDs : TypeOK /\ Process_Step(id) => TypeOK'
<1> SUFFICES ASSUME NEW id \in ManagedIDs, TypeOK, Process_Next(id), UNCHANGED managerVars PROVE TypeOK'
  BY DEF Process_Step
<1> USE IDs DEF TypeOK
<1>1. ManagerTypeOK'
  BY DEF ManagerTypeOK, managerVars
<1>2. Begin(id) => tbbQueue' \in [ManagedIDs -> Nat]
  BY DEF Begin, Can_Begin, SharedTypeOK
<1>3. CASE Run(id)
  <2>1. CASE Is_Shutting_Down(id)
    BY <1>1, <1>2, <1>3, <2>1 DEF Run, SharedTypeOK, ProcessTypeOK
  <2>2. CASE ~Is_Shutting_Down(id)
    <3>0. Service_Message_Frames(id) /\ Begin(id) /\ UNCHANGED <<threads, failure, ManagerMailbox, resetting>>
      BY <1>3, <2>2 DEF Run
    <3>1. SharedTypeOK'
      BY <1>2, <3>0 DEF Service_Message_Frames, Remove_Frames, SharedTypeOK
    <3>2. Contents(mailbox[id]) \subseteq Message
      BY ContentsType DEF SharedTypeOK
    <3>3. Added_Mailboxes(id) \ {INVALID} \in SUBSET EProcessID /\ Released_Mailboxes(id) \ {INVALID} \in SUBSET EProcessID
      BY <3>2 DEF Added_Mailboxes, Released_Mailboxes, Incoming, Message
    <3>4. /\ Mailboxes' \in [ManagedIDs -> SUBSET EProcessID]
          /\ ShutdownMailboxes' \in [ManagedIDs -> SUBSET EProcessID]
      BY <3>0, <3>3 DEF Service_Message_Frames, ProcessTypeOK
    <3>5. processState' \in [ManagedIDs -> EProcessState] /\ pc' \in [ManagedIDs -> {"idle", "flush", "system"}]
      BY <3>0 DEF Service_Message_Frames, ProcessTypeOK, State_After_Messages, EProcessState
    <3>6. PICK asked \in {<<>>} \cup { <<m>> : m \in Requests(id) }, early \in {TRUE, ~LateRequests},
               sentTo \in {{}} \cup { {dest} : dest \in Recipients(id) } :
             /\ ManagerFrame' = [ManagerFrame EXCEPT ![id] = @ \o Frame_After_Messages(id, asked, early)]
             /\ PendingOutboundFrames' =
                  [PendingOutboundFrames EXCEPT ![id] =
                     [dest \in ProcessIDs |-> IF dest \in sentTo THEN @[dest] + 1 ELSE @[dest]]]
             /\ budget' = [op \in RequestTypes \cup {"User"} |->
                             IF (op = "User" /\ sentTo # {}) \/ (\E m \in Contents(asked) : m.type = op)
                             THEN budget[op] - 1 ELSE budget[op]]
      BY <3>0 DEF Service_Message_Frames
    <3>7. asked \in Seq(Message) /\ \A m \in Contents(asked) : m \in Requests(id)
      <4>1. CASE asked = <<>>
        BY <4>1 DEF Contents
      <4>2. CASE \E m \in Requests(id) : asked = <<m>>
        <5> PICK m \in Requests(id) : asked = <<m>>
          BY <4>2
        <5>1. Contents(asked) = {m}
          BY DEF Contents
        <5> QED BY <5>1, RequestsType
      <4> QED BY <4>1, <4>2
    <3>8. ManagerFrame' \in [ManagedIDs -> Seq(Message)]
      <4>1. Frame_After_Messages(id, asked, early) \in Seq(Message)
        BY <3>7, FrameType, LateRequestsAssumption
      <4> HIDE DEF Message
      <4> QED BY <3>6, <4>1 DEF ProcessTypeOK
    <3>9. PendingOutboundFrames' \in [ManagedIDs -> [ProcessIDs -> Nat]]
      BY <3>6, SMTT(40) DEF ProcessTypeOK
    <3>10. budget' \in [RequestTypes \cup {"User"} -> Nat]
      <4> DEFINE spent(op) == (op = "User" /\ sentTo # {}) \/ (\E m \in Contents(asked) : m.type = op)
      <4>1. \A op \in RequestTypes \cup {"User"} : spent(op) => budget[op] > 0
        BY <3>7, RequestsType DEF Recipients
      <4>2. budget' = [op \in RequestTypes \cup {"User"} |-> IF spent(op) THEN budget[op] - 1 ELSE budget[op]]
        BY <3>6
      <4>3. budget \in [RequestTypes \cup {"User"} -> Nat]
        BY DEF ProcessTypeOK
      <4> HIDE DEF spent
      <4> QED BY <4>1, <4>2, <4>3
    <3> QED BY <1>1, <3>0, <3>1, <3>4, <3>5, <3>8, <3>9, <3>10 DEF Service_Message_Frames, ProcessTypeOK
  <2> QED BY <2>1, <2>2
<1>4. CASE \E dest \in ProcessIDs : Flush_Regular_Message(id, dest)
  <2> PICK dest \in ProcessIDs : Flush_Regular_Message(id, dest)
    BY <1>4
  <2>1. [i \in 1 .. PendingOutboundFrames[id][dest] |-> UserMessage(id)] \in Seq(Message)
    <3>1. PendingOutboundFrames[id][dest] \in Nat
      BY DEF ProcessTypeOK
    <3>2. UserMessage(id) \in Message
      BY Constructors
    <3> QED BY <3>1, <3>2, IsASeq
  <2>2. mailbox' \in [EProcessID -> Seq(Message)]
    BY <2>1 DEF Flush_Regular_Message, Add_Frame, SharedTypeOK
  <2>3. PendingOutboundFrames' \in [ManagedIDs -> [ProcessIDs -> Nat]]
    BY DEF Flush_Regular_Message, ProcessTypeOK
  <2> QED BY <1>1, <2>2, <2>3 DEF Flush_Regular_Message, SharedTypeOK, ProcessTypeOK
<1>5. CASE Handle_Shutdown_Mailboxes(id)
  <2>1. CReleaseMailboxResponse(id, ShutdownMailboxes[id]) \in Message
    BY Constructors DEF ProcessTypeOK
  <2>2. ManagerFrame' \in [ManagedIDs -> Seq(Message)]
    BY <1>5, <2>1 DEF Handle_Shutdown_Mailboxes, ProcessTypeOK
  <2>3. PendingOutboundFrames' \in [ManagedIDs -> [ProcessIDs -> Nat]]
    BY <1>5 DEF Handle_Shutdown_Mailboxes, ProcessTypeOK
  <2> QED BY <1>1, <1>5, <2>2, <2>3 DEF Handle_Shutdown_Mailboxes, sharedVars, SharedTypeOK, ProcessTypeOK
<1>6. CASE Flush_System_Messages(id)
  <2>1. mailbox' \in [EProcessID -> Seq(Message)]
    <3>1. mailbox[CONCURRENCY_MANAGER] \o ManagerFrame[id] \in Seq(Message)
      BY DEF SharedTypeOK, ProcessTypeOK
    <3> QED BY <1>6, <3>1 DEF Flush_System_Messages, Add_Frame, SharedTypeOK
  <2>2. ManagerFrame' \in [ManagedIDs -> Seq(Message)]
    <3>1. [ManagerFrame EXCEPT ![id] = <<>>] \in [ManagedIDs -> Seq(Message)] /\ ManagerFrame \in [ManagedIDs -> Seq(Message)]
      BY DEF ProcessTypeOK
    <3> QED BY <1>6, <3>1 DEF Flush_System_Messages
  <2>3. SharedTypeOK'
    BY <1>6, <2>1 DEF Flush_System_Messages, SharedTypeOK
  <2>4. ProcessTypeOK'
    BY <1>6, <2>2 DEF Flush_System_Messages, ProcessTypeOK
  <2> QED BY <1>1, <2>3, <2>4
<1>7. CASE Reset_Manager_Frame(id)
  <2>1. SharedTypeOK'
    BY <1>7 DEF Reset_Manager_Frame, sharedVars, SharedTypeOK
  <2>2. ProcessTypeOK'
    BY <1>7 DEF Reset_Manager_Frame, ProcessTypeOK
  <2> QED BY <1>1, <2>1, <2>2
<1>8. CASE Leave_Loop(id)
  <2>1. SharedTypeOK'
    BY <1>8 DEF Leave_Loop, SharedTypeOK
  <2>2. ProcessTypeOK'
    BY <1>8 DEF Leave_Loop, processVars, ProcessTypeOK
  <2> QED BY <1>1, <2>1, <2>2
<1> QED BY <1>3, <1>4, <1>5, <1>6, <1>7, <1>8 DEF Process_Next

(* Every step keeps the types.                                             *)
LEMMA TypeNext == TypeOK /\ [Next]_vars => TypeOK'
<1> SUFFICES ASSUME TypeOK, [Next]_vars PROVE TypeOK'
  OBVIOUS
<1>1. CASE Fatal_Assert
  <2>1. failure' \in Failures
    BY <1>1 DEF Fatal_Assert, ManagerFailures, ProcessFailures
  <2>2. SharedTypeOK'
    BY <1>1, <2>1 DEF Fatal_Assert, TypeOK, SharedTypeOK
  <2>3. ManagerTypeOK' /\ ProcessTypeOK'
    BY <1>1 DEF Fatal_Assert, TypeOK, ManagerTypeOK, ProcessTypeOK, managerVars, processVars
  <2> QED BY <2>2, <2>3 DEF TypeOK
<1>2. CASE UNCHANGED vars
  BY <1>2 DEF vars, TypeOK, SharedTypeOK, ManagerTypeOK, ProcessTypeOK, sharedVars, managerVars, processVars
<1> QED BY <1>1, <1>2, TypeManager, TypeProcess DEF Next, Ended

(* Every variable of the runtime keeps its type.                           *)
THEOREM TypeCorrect == Spec => []TypeOK
<1> QED BY TypeInit, TypeNext, PTL DEF Spec
-----------------------------------------------------------------------------
(* Requests to be rescheduled in sequences of messages.                    *)

(* A request is in a concatenation when it is in one of its parts.         *)
LEMMA AskedConcat ==
  ASSUME NEW id, NEW s \in Seq(Message), NEW t \in Seq(Message)
  PROVE  Asked(id, s \o t) <=> Asked(id, s) \/ Asked(id, t)
<1> DEFINE st == s \o t
<1>1. /\ Len(st) = Len(s) + Len(t)
      /\ DOMAIN s = 1 .. Len(s) /\ DOMAIN t = 1 .. Len(t) /\ DOMAIN st = 1 .. Len(st)
      /\ Len(s) \in Nat /\ Len(t) \in Nat
  OBVIOUS
<1>2. \A i \in DOMAIN s : i \in DOMAIN st /\ st[i] = s[i]
  BY <1>1
<1>3. \A i \in DOMAIN t : i + Len(s) \in DOMAIN st /\ st[i + Len(s)] = t[i]
  BY <1>1
<1>4. \A i \in DOMAIN st : \/ i \in DOMAIN s /\ st[i] = s[i]
                           \/ i - Len(s) \in DOMAIN t /\ st[i] = t[i - Len(s)]
  BY <1>1
<1>5. ASSUME Asked(id, st) PROVE Asked(id, s) \/ Asked(id, t)
  <2> PICK i \in DOMAIN st : Asks(id, st[i])
    BY <1>5 DEF Asked
  <2> HIDE DEF st
  <2> QED BY <1>2, <1>4 DEF Asked
<1>6. ASSUME Asked(id, s) \/ Asked(id, t) PROVE Asked(id, st)
  <2> HIDE DEF st
  <2> QED BY <1>2, <1>3, <1>6 DEF Asked
<1> QED BY <1>5, <1>6

(* Two parts that hold a request once at most, and not both, hold it once  *)
(* at most together.                                                       *)
LEMMA OnceConcat ==
  ASSUME NEW id, NEW s \in Seq(Message), NEW t \in Seq(Message),
         AskedOnce(id, s), AskedOnce(id, t), ~Asked(id, s) \/ ~Asked(id, t)
  PROVE  AskedOnce(id, s \o t)
<1> DEFINE st == s \o t
<1>1. /\ Len(st) = Len(s) + Len(t)
      /\ DOMAIN s = 1 .. Len(s) /\ DOMAIN t = 1 .. Len(t) /\ DOMAIN st = 1 .. Len(st)
      /\ Len(s) \in Nat /\ Len(t) \in Nat
  OBVIOUS
<1>2. \A i \in DOMAIN st : \/ i \in DOMAIN s /\ st[i] = s[i]
                           \/ i - Len(s) \in DOMAIN t /\ st[i] = t[i - Len(s)]
  BY <1>1
<1> SUFFICES ASSUME NEW i \in DOMAIN st, NEW j \in DOMAIN st, Asks(id, st[i]), Asks(id, st[j])
             PROVE  i = j
  BY DEF AskedOnce
<1>3. i \in Int /\ j \in Int
  BY <1>1
<1> HIDE DEF st
<1>4. CASE ~Asked(id, s)
  <2>1. i - Len(s) \in DOMAIN t /\ j - Len(s) \in DOMAIN t /\ Asks(id, t[i - Len(s)]) /\ Asks(id, t[j - Len(s)])
    BY <1>2, <1>4 DEF Asked
  <2>2. i - Len(s) = j - Len(s)
    BY <2>1 DEF AskedOnce
  <2> QED BY <1>1, <1>3, <2>2
<1>5. CASE ~Asked(id, t)
  BY <1>2, <1>5 DEF Asked, AskedOnce
<1> QED BY <1>4, <1>5

(* What taking the first message of a queue leaves of the requests in it.  *)
LEMMA AskedTail ==
  ASSUME NEW id, NEW s \in Seq(Message), s # <<>>
  PROVE  /\ Asked(id, Tail(s)) => Asked(id, s)
         /\ Asks(id, Head(s)) => Asked(id, s)
         /\ AskedOnce(id, s) => AskedOnce(id, Tail(s))
         /\ AskedOnce(id, s) /\ Asks(id, Head(s)) => ~Asked(id, Tail(s))
<1> DEFINE t == Tail(s)
<1>1. /\ DOMAIN s = 1 .. Len(s) /\ DOMAIN t = 1 .. Len(s) - 1 /\ Len(s) \in Nat /\ Len(s) > 0
      /\ Head(s) = s[1]
  OBVIOUS
<1>2. \A i \in DOMAIN t : i \in Int /\ i + 1 \in DOMAIN s /\ t[i] = s[i + 1] /\ i + 1 # 1
  BY <1>1
<1>3. 1 \in DOMAIN s
  BY <1>1
<1> HIDE DEF t
<1>4. /\ Asked(id, t) => Asked(id, s)
      /\ Asks(id, Head(s)) => Asked(id, s)
  BY <1>1, <1>2, <1>3 DEF Asked
<1>5. AskedOnce(id, s) => AskedOnce(id, t)
  <2> SUFFICES ASSUME AskedOnce(id, s), NEW i \in DOMAIN t, NEW j \in DOMAIN t, Asks(id, t[i]), Asks(id, t[j])
               PROVE  i = j
    BY DEF AskedOnce
  <2>1. i + 1 = j + 1
    BY <1>2 DEF AskedOnce
  <2> QED BY <1>2, <2>1
<1>6. AskedOnce(id, s) /\ Asks(id, Head(s)) => ~Asked(id, t)
  BY <1>1, <1>2, <1>3 DEF Asked, AskedOnce
<1> QED BY <1>4, <1>5, <1>6 DEF t

(* Concatenation of queues is associative.                                 *)
LEMMA Associative ==
  ASSUME NEW s \in Seq(Message), NEW t \in Seq(Message), NEW u \in Seq(Message)
  PROVE  (s \o t) \o u = s \o (t \o u)
<1> HIDE DEF Message
<1> DEFINE left == (s \o t) \o u  right == s \o (t \o u)
<1>1. left \in Seq(Message) /\ right \in Seq(Message)
  OBVIOUS
<1>2. Len(left) = Len(right) /\ Len(left) \in Nat
  OBVIOUS
<1>3. \A i \in 1 .. Len(left) : left[i] = right[i]
  OBVIOUS
<1> HIDE DEF left, right
<1>4. left = right
  BY <1>1, <1>2, <1>3, SeqEqual
<1> QED BY <1>4 DEF left, right

(* A queue of messages that are not requests holds none.                   *)
LEMMA NotAsked ==
  ASSUME NEW id, NEW s, \A m \in Contents(s) : m.type # "RescheduleProcess" \/ m.source # id
  PROVE  ~Asked(id, s) /\ AskedOnce(id, s)
BY DEF Contents, Asked, AskedOnce, Asks

-----------------------------------------------------------------------------
(* The invariant.                                                          *)

(* It holds initially.                                                     *)
LEMMA ExecutionInit == Init => ExecutionInv
<1> SUFFICES ASSUME Init PROVE ExecutionInv
  OBVIOUS
<1> USE IDs
<1>1. ToHandle = <<>>
  BY DEF Init, SharedInit, Setup_For_Run, ToHandle
<1>2. \A id : ~Asked(id, <<>>) /\ AskedOnce(id, <<>>)
  BY DEF Asked, AskedOnce
<1>3. \A id \in ManagedIDs : ManagerFrame[id] = <<>> /\ ManagerMailbox[id] /\ pc[id] = "idle" /\ tbbQueue[id] = 0
                             /\ processState[id] = "EPS_INITIALIZING"
  BY DEF Init, ProcessInit, SharedInit
<1>4. OneExecution
  BY <1>1, <1>2, <1>3 DEF OneExecution, TaskProcesses
<1>5. NotRunAfterShutdown
  BY <1>3 DEF NotRunAfterShutdown, Is_Shutting_Down, Shutting_Down, TaskProcesses
<1>6. \A id \in TaskProcesses : id >= NextID => ExecuteTask[id] = "none"
  BY DEF Init, Setup_For_Run, TaskProcesses, ManagedIDs
<1>7. control_frames = <<>> /\ \A id \in EProcessID : FramesToSend[id] = <<>>
  BY DEF Init, Setup_For_Run
<1> QED BY <1>1, <1>2, <1>3, <1>4, <1>5, <1>6, <1>7 DEF ExecutionInv, TaskProcesses, Contents, Unused,
       Is_Shutting_Down, Shutting_Down

(* Sending what only the manager sends leaves FramesToSend without         *)
(* messages that only processes send.                                      *)
LEMMA SendsNoRequest ==
  ASSUME TypeOK, ExecutionInv, NEW ids, NEW m \in Message, ~OfProcesses(m),
         FramesToSend' = Send_Process_Message(ids, m)
  PROVE  \A id \in EProcessID : \A n \in Contents(FramesToSend'[id]) : ~OfProcesses(n)
<1> SUFFICES ASSUME NEW id \in EProcessID, NEW n \in Contents(FramesToSend'[id])
             PROVE  ~OfProcesses(n)
  OBVIOUS
<1>1. FramesToSend[id] \in Seq(Message)
  BY DEF TypeOK, ManagerTypeOK
<1>2. FramesToSend'[id] = Append(FramesToSend[id], m) \/ FramesToSend'[id] = FramesToSend[id]
  BY DEF Send_Process_Message
<1>3. n = m \/ n \in Contents(FramesToSend[id])
  BY <1>1, <1>2, SMTT(40) DEF Contents
<1> QED BY <1>3 DEF ExecutionInv

(* The messages the manager sends are not among those.                     *)
LEMMA ManagerMessages ==
  /\ \A ids : ~OfProcesses(CAddMailboxMessage(ids))
  /\ \A id : ~OfProcesses(CReleaseMailboxRequest(id))
  /\ \A hard : ~OfProcesses(CShutdownSelfRequest(hard))
BY DEF OfProcesses, CAddMailboxMessage, CReleaseMailboxRequest, CShutdownSelfRequest, About

(* Nor is there one of them in what is sent on account of a new process.   *)
LEMMA NewFramesAreSilent ==
  ASSUME TypeOK, ExecutionInv, NEW new_id \in EProcessID, NEW source \in EProcessID, NEW flags,
         FramesToSend' = Frames_For_New_Process(new_id, source, flags)
  PROVE  \A id \in EProcessID : \A m \in Contents(FramesToSend'[id]) : ~OfProcesses(m)
<1> DEFINE Silent(s) == s \in Seq(Message) /\ \A m \in Contents(s) : ~OfProcesses(m)
<1>1. \A s, t : Silent(s) /\ Silent(t) => Silent(s \o t)
  <2> SUFFICES ASSUME NEW s \in Seq(Message), NEW t \in Seq(Message), Silent(s), Silent(t) PROVE Silent(s \o t)
    OBVIOUS
  <2>1. s \o t \in Seq(Message)
    OBVIOUS
  <2>2. \A i \in DOMAIN (s \o t) : (s \o t)[i] \in Contents(s) \cup Contents(t)
    BY DEF Contents
  <2>3. Contents(s \o t) \subseteq Contents(s) \cup Contents(t)
    BY <2>2 DEF Contents
  <2> QED BY <2>1, <2>3
<1>2. \A sent : \A ids \in SUBSET (EProcessID \cup {INVALID}) : Silent(Mailboxes_If(sent, ids))
  <2> SUFFICES ASSUME NEW sent, NEW ids \in SUBSET (EProcessID \cup {INVALID}) PROVE Silent(Mailboxes_If(sent, ids))
    OBVIOUS
  <2>1. CAddMailboxMessage(ids) \in Message
    BY Constructors
  <2>2. Silent(<<CAddMailboxMessage(ids)>>)
    BY <2>1, ManagerMessages DEF Contents
  <2>3. Silent(<<>>)
    BY DEF Contents
  <2> QED BY <2>2, <2>3 DEF Mailboxes_If
<1> SUFFICES ASSUME NEW id \in EProcessID PROVE Silent(FramesToSend'[id])
  OBVIOUS
<1>3. Silent(FramesToSend[id])
  BY DEF TypeOK, ManagerTypeOK, ExecutionInv
<1>4. Get_Mailbox(source) \in EProcessID \cup {INVALID}
  BY DEF Get_Mailbox
<1> DEFINE
      answer  == ~Is_Process_Shutting_Down(source)
      ongoing == Mailboxes_If(id \in Ongoing_Requesters(new_id), {new_id})
      back    == Mailboxes_If(answer /\ "return" \in flags /\ id = source, {new_id})
      onward  == Mailboxes_If(answer /\ "forward" \in flags /\ id = new_id, {Get_Mailbox(source)})
<1>5. Silent(ongoing) /\ Silent(back) /\ Silent(onward)
  BY <1>2, <1>4
<1>6. FramesToSend'[id] = FramesToSend[id] \o ongoing \o back \o onward
  BY DEF Frames_For_New_Process
<1> HIDE DEF ongoing, back, onward, Silent
<1> QED BY <1>1, <1>3, <1>5, <1>6

(* The manager's step that neither schedules an execution nor begins one,  *)
(* nor takes on a request, keeps the invariant.                            *)
LEMMA Undisturbed ==
  ASSUME TypeOK, ExecutionInv, UNCHANGED processVars, UNCHANGED <<ExecuteTask, tbbQueue, NextID>>,
         \A id \in TaskProcesses : AskedOnce(id, ToHandle') /\ (Asked(id, ToHandle') => Asked(id, ToHandle)),
         phase' # "handle" => control_frames' = <<>>,
         \A id \in EProcessID : \A m \in Contents(FramesToSend'[id]) : ~OfProcesses(m)
  PROVE  ExecutionInv'
<1> USE DEF processVars
<1>1. OneExecution'
  BY DEF ExecutionInv, OneExecution
<1>2. NotRunAfterShutdown'
  BY DEF ExecutionInv, NotRunAfterShutdown, Is_Shutting_Down
<1>3. \A id \in TaskProcesses : ~ManagerMailbox'[id] => Is_Shutting_Down(id)' /\ pc'[id] = "idle"
  BY DEF ExecutionInv, Is_Shutting_Down
<1>4. \A id \in TaskProcesses : id >= NextID' => Unused(id)'
  BY DEF ExecutionInv, Unused, Is_Shutting_Down
<1> QED BY <1>1, <1>2, <1>3, <1>4 DEF ExecutionInv

(* When the manager handles a message it is gone from what is to be        *)
(* handled, and a request does not remain there.                           *)
LEMMA Handled ==
  ASSUME TypeOK, ExecutionInv, phase = "handle", control_frames # <<>>,
         control_frames' = Tail(control_frames), UNCHANGED mailbox, NEW id \in TaskProcesses
  PROVE  /\ AskedOnce(id, ToHandle')
         /\ Asked(id, ToHandle') => Asked(id, ToHandle)
         /\ Asks(id, message) => Asked(id, ToHandle) /\ ~Asked(id, ToHandle')
<1>1. control_frames \in Seq(Message) /\ mailbox[CONCURRENCY_MANAGER] \in Seq(Message)
  BY IDs DEF TypeOK, ManagerTypeOK, SharedTypeOK
<1>2. \A t \in Seq(Message) : /\ control_frames \o t \in Seq(Message)
                              /\ control_frames \o t # <<>>
                              /\ Head(control_frames \o t) = Head(control_frames)
                              /\ Tail(control_frames \o t) = Tail(control_frames) \o t
  BY <1>1
<1>3. ToHandle \in Seq(Message) /\ ToHandle # <<>> /\ Head(ToHandle) = message /\ ToHandle' = Tail(ToHandle)
  BY <1>1, <1>2 DEF ToHandle, message
<1>4. AskedOnce(id, ToHandle)
  BY DEF ExecutionInv, OneExecution
<1> QED BY <1>3, <1>4, AskedTail

(* A step of the manager keeps the invariant.                              *)
LEMMA ExecutionManager == TypeOK /\ ExecutionInv /\ Manager_Step => ExecutionInv'
<1> SUFFICES ASSUME TypeOK, ExecutionInv, Running, Manager_Next, UNCHANGED processVars PROVE ExecutionInv'
  BY DEF Manager_Step
<1> USE IDs
<1>0. /\ control_frames \in Seq(Message) /\ mailbox \in [EProcessID -> Seq(Message)]
      /\ ExecuteTask \in [ManagedIDs -> ScheduleStates] /\ tbbQueue \in [ManagedIDs -> Nat]
      /\ NextID \in FIRST_FREE_ID .. MaxProcessID + 1
      /\ TaskProcesses \subseteq ManagedIDs
      /\ \A id \in EProcessID : FramesToSend[id] \in Seq(Message)
  BY DEF TypeOK, SharedTypeOK, ManagerTypeOK, TaskProcesses
<1>1. \A id \in TaskProcesses : AskedOnce(id, ToHandle)
  BY DEF ExecutionInv, OneExecution
<1>2. \A id \in EProcessID : \A m \in Contents(FramesToSend[id]) : ~OfProcesses(m)
  BY DEF ExecutionInv
<1>3. CASE Service_Incoming_Frames
  <2>1. ToHandle = mailbox[CONCURRENCY_MANAGER]
    BY <1>0, <1>3 DEF Service_Incoming_Frames, ExecutionInv, ToHandle
  <2>2. ToHandle' = mailbox[CONCURRENCY_MANAGER]
    BY <1>0, <1>3 DEF Service_Incoming_Frames, ToHandle, Remove_Frames
  <2> QED BY <1>1, <1>2, <1>3, <2>1, <2>2, Undisturbed DEF Service_Incoming_Frames
<1>4. CASE Handle_Message
  <2>0. /\ phase = "handle" /\ control_frames # <<>> /\ control_frames' = Tail(control_frames)
        /\ UNCHANGED <<phase, mailbox, tbbQueue, threads, failure>>
    BY <1>4 DEF Handle_Message, Handle_Get_Mailbox_By_ID_Request, Handle_Get_Mailbox_By_Properties_Request,
          Handle_Add_New_Process_Message, Handle_Shutdown_Process_Message, Handle_Reschedule_Process_Message,
          Handle_Release_Mailbox_Response, Handle_Shutdown_Self_Response, Handle_Shutdown_Manager_Message,
          Handling
  <2>1. /\ message \in Message /\ message.source \in EProcessID /\ message.id \in EProcessID \cup {INVALID}
        /\ message.ids \in SUBSET (EProcessID \cup {INVALID})
    BY <1>0, <2>0, HeadType DEF Message
  <2>2. \A id \in TaskProcesses : /\ AskedOnce(id, ToHandle')
                                  /\ Asked(id, ToHandle') => Asked(id, ToHandle)
                                  /\ Asks(id, message) => Asked(id, ToHandle) /\ ~Asked(id, ToHandle')
    BY <2>0, Handled
  <2> DEFINE Silent == \A id \in EProcessID : \A m \in Contents(FramesToSend'[id]) : ~OfProcesses(m)
  <2>3. ASSUME Silent, UNCHANGED <<ExecuteTask, NextID>> PROVE ExecutionInv'
    BY <2>0, <2>2, <2>3, Undisturbed
  <2>4. ASSUME NEW ids, NEW m \in Message, ~OfProcesses(m), FramesToSend' = Send_Process_Message(ids, m)
        PROVE  Silent
    BY <2>4, SendsNoRequest
  <2>5. FramesToSend' = FramesToSend => Silent
    BY <1>2
  <2> HIDE DEF Silent
  <2>6. CASE Handle_Get_Mailbox_By_ID_Request
    <3>1. CASE FramesToSend' = Send_Process_Message({message.source}, CAddMailboxMessage({message.id}))
      <4>1. CAddMailboxMessage({message.id}) \in Message
        BY <2>1, Constructors
      <4>2. Silent
        BY <2>4, <3>1, <4>1, ManagerMessages
      <4> QED BY <2>3, <2>6, <4>2 DEF Handle_Get_Mailbox_By_ID_Request
    <3>2. CASE FramesToSend' = FramesToSend
      BY <2>3, <2>5, <2>6, <3>2 DEF Handle_Get_Mailbox_By_ID_Request
    <3> QED BY <2>6, <3>1, <3>2 DEF Handle_Get_Mailbox_By_ID_Request
  <2>7. CASE Handle_Get_Mailbox_By_Properties_Request
    <3> DEFINE matched == Matching(message.ids, message.source)
    <3>1. CASE FramesToSend' = Send_Process_Message({message.source}, CAddMailboxMessage(matched))
      <4>1. CAddMailboxMessage(matched) \in Message
        BY <2>1, Constructors DEF Matching, Records
      <4>2. Silent
        BY <2>4, <3>1, <4>1, ManagerMessages
      <4> QED BY <2>3, <2>7, <4>2 DEF Handle_Get_Mailbox_By_Properties_Request
    <3>2. CASE FramesToSend' = FramesToSend
      BY <2>3, <2>5, <2>7, <3>2 DEF Handle_Get_Mailbox_By_Properties_Request
    <3> QED BY <2>7, <3>1, <3>2 DEF Handle_Get_Mailbox_By_Properties_Request
  <2>8. CASE Handle_Shutdown_Process_Message
    <3>1. CASE UNCHANGED FramesToSend
      BY <2>3, <2>5, <2>8, <3>1 DEF Handle_Shutdown_Process_Message
    <3>2. CASE Has_Record(message.id) /\ Initiate_Process_Shutdown(message.id)
      <4>1. CShutdownSelfRequest(FALSE) \in Message
        BY Constructors
      <4>2. CReleaseMailboxRequest(message.id) \in Message
        BY <2>1 DEF CReleaseMailboxRequest, About, Message, MessageTypes, EProcessID
      <4>3. Silent
        BY <2>4, <3>2, <4>1, <4>2, ManagerMessages DEF Initiate_Process_Shutdown
      <4> QED BY <2>3, <2>8, <4>3 DEF Handle_Shutdown_Process_Message
    <3> QED BY <2>8, <3>1, <3>2 DEF Handle_Shutdown_Process_Message
  <2>9. CASE Handle_Release_Mailbox_Response
    <3>1. CASE UNCHANGED FramesToSend
      BY <2>3, <2>5, <2>9, <3>1 DEF Handle_Release_Mailbox_Response
    <3>2. CASE FramesToSend' =
                 Send_Process_Message(Finished(message.source, message.ids), CShutdownSelfRequest(FALSE))
      <4>1. Silent
        BY <2>4, <3>2, Constructors, ManagerMessages
      <4> QED BY <2>3, <2>9, <4>1 DEF Handle_Release_Mailbox_Response
    <3> QED BY <2>9, <3>1, <3>2 DEF Handle_Release_Mailbox_Response
  <2>10. CASE Handle_Shutdown_Self_Response
    BY <2>3, <2>5, <2>10 DEF Handle_Shutdown_Self_Response
  <2>11. CASE Handle_Shutdown_Manager_Message
    <3>1. CASE UNCHANGED FramesToSend
      BY <2>3, <2>5, <2>11, <3>1 DEF Handle_Shutdown_Manager_Message
    <3>2. CASE FramesToSend' = Send_Process_Message(Records \ {CONCURRENCY_MANAGER, LOGGING},
                                                    CShutdownSelfRequest(TRUE))
      <4>1. Silent
        BY <2>4, <3>2, Constructors, ManagerMessages
      <4> QED BY <2>3, <2>11, <4>1 DEF Handle_Shutdown_Manager_Message
    <3> QED BY <2>11, <3>1, <3>2 DEF Handle_Shutdown_Manager_Message
  <2>12. CASE Handle_Add_New_Process_Message
    <3>1. CASE Is_Manager_Shutting_Down /\ UNCHANGED <<NextID, ProcessRecords, ExecuteTask, FramesToSend>>
      BY <2>3, <2>5, <3>1
    <3>2. CASE /\ NextID <= MaxProcessID /\ NextID' = NextID + 1
               /\ ExecuteTask' = [ExecuteTask EXCEPT ![NextID] = "now"]
               /\ FramesToSend' = Frames_For_New_Process(NextID, message.source, message.opts)
      <4>1. NextID \in ProcessIDs
        BY <1>0, <3>2 DEF ProcessIDs
      <4>2. \A id \in EProcessID : \A m \in Contents(FramesToSend'[id]) : ~OfProcesses(m)
        BY <2>1, <3>2, <4>1, NewFramesAreSilent
      <4>3. \A id \in TaskProcesses : id # NextID => ExecuteTask'[id] = ExecuteTask[id]
        BY <1>0, <3>2
      <4>4. NextID \in TaskProcesses =>
              tbbQueue[NextID] = 0 /\ pc[NextID] = "idle" /\ ~Asked(NextID, ToHandle) /\ ~Is_Shutting_Down(NextID)
        BY <1>0, <4>1 DEF ExecutionInv, Unused
      <4>5. OneExecution'
        BY <1>0, <2>0, <2>2, <4>3, <4>4 DEF ExecutionInv, OneExecution, processVars
      <4>6. NotRunAfterShutdown'
        BY <1>0, <2>0, <2>2, <4>3, <4>4 DEF ExecutionInv, NotRunAfterShutdown, processVars, Is_Shutting_Down
      <4>7. \A id \in TaskProcesses : id >= NextID' => Unused(id)'
        <5> SUFFICES ASSUME NEW id \in TaskProcesses, id >= NextID'
                     PROVE  Unused(id)'
          OBVIOUS
        <5>1. id >= NextID /\ id # NextID
          BY <1>0, <3>2 DEF TaskProcesses
        <5> QED BY <2>0, <2>2, <4>3, <5>1 DEF ExecutionInv, processVars, Unused, Is_Shutting_Down
      <4>8. \A id \in TaskProcesses : ~ManagerMailbox'[id] => Is_Shutting_Down(id)' /\ pc'[id] = "idle"
        BY DEF ExecutionInv, Is_Shutting_Down, processVars
      <4> QED BY <2>0, <4>2, <4>5, <4>6, <4>7, <4>8 DEF ExecutionInv, processVars
    <3> QED BY <2>12, <3>1, <3>2 DEF Handle_Add_New_Process_Message
  <2>13. CASE Handle_Reschedule_Process_Message
    <3>0. UNCHANGED <<NextID, FramesToSend>>
      BY <2>13 DEF Handle_Reschedule_Process_Message
    <3>1. CASE UNCHANGED ExecuteTask
      BY <2>3, <2>5, <3>0, <3>1
    <3>2. CASE ExecuteTask' = [ExecuteTask EXCEPT ![message.source] = "now"]
      <4>1. Asks(message.source, message)
        BY <2>13 DEF Handle_Reschedule_Process_Message, Handling, message, Asks
      <4>2. \A id \in TaskProcesses : id # message.source => ExecuteTask'[id] = ExecuteTask[id]
        BY <1>0, <3>2
      <4>3. message.source \in TaskProcesses =>
              /\ Asked(message.source, ToHandle) /\ ~Asked(message.source, ToHandle')
              /\ tbbQueue[message.source] = 0 /\ pc[message.source] = "idle" /\ ~Is_Shutting_Down(message.source)
              /\ ~(message.source >= NextID)
        BY <2>2, <4>1 DEF ExecutionInv, OneExecution, NotRunAfterShutdown, Unused
      <4>4. OneExecution'
        BY <1>0, <2>0, <2>2, <4>2, <4>3 DEF ExecutionInv, OneExecution, processVars
      <4>5. NotRunAfterShutdown'
        BY <1>0, <2>0, <2>2, <4>2, <4>3 DEF ExecutionInv, NotRunAfterShutdown, processVars, Is_Shutting_Down
      <4>6. \A id \in TaskProcesses : id >= NextID' => Unused(id)'
        BY <2>0, <2>2, <3>0, <4>2, <4>3 DEF ExecutionInv, processVars, Unused, Is_Shutting_Down
      <4>7. \A id \in TaskProcesses : ~ManagerMailbox'[id] => Is_Shutting_Down(id)' /\ pc'[id] = "idle"
        BY DEF ExecutionInv, Is_Shutting_Down, processVars
      <4> QED BY <1>2, <2>0, <3>0, <4>4, <4>5, <4>6, <4>7 DEF ExecutionInv, processVars
    <3> QED BY <2>13, <3>1, <3>2 DEF Handle_Reschedule_Process_Message
  <2> QED BY <1>4, <2>6, <2>7, <2>8, <2>9, <2>10, <2>11, <2>12, <2>13 DEF Handle_Message
<1>5. CASE \E id \in EProcessID : Flush_Frame(id)
  <2> PICK id \in EProcessID : Flush_Frame(id)
    BY <1>5
  <2> DEFINE frame == FramesToSend[id]
  <2>1. control_frames = <<>> /\ control_frames' = <<>>
    BY DEF Flush_Frame
  <2>2. ToHandle = mailbox[CONCURRENCY_MANAGER] /\ ToHandle' = mailbox'[CONCURRENCY_MANAGER]
    <3>1. mailbox'[CONCURRENCY_MANAGER] \in Seq(Message)
      BY <1>0 DEF Flush_Frame, Add_Frame
    <3> QED BY <1>0, <2>1, <3>1 DEF ToHandle
  <2>3. ToHandle' = ToHandle \/ ToHandle' = ToHandle \o frame
    BY <1>0, <2>2 DEF Flush_Frame, Add_Frame
  <2>4. \A j \in TaskProcesses : AskedOnce(j, ToHandle') /\ (Asked(j, ToHandle') => Asked(j, ToHandle))
    <3> SUFFICES ASSUME NEW j \in TaskProcesses
                 PROVE  AskedOnce(j, ToHandle') /\ (Asked(j, ToHandle') => Asked(j, ToHandle))
      OBVIOUS
    <3>1. ~Asked(j, frame) /\ AskedOnce(j, frame)
      BY <1>2, NotAsked DEF OfProcesses
    <3>2. AskedOnce(j, ToHandle \o frame) /\ (Asked(j, ToHandle \o frame) => Asked(j, ToHandle))
      BY <1>0, <1>1, <2>2, <3>1, AskedConcat, OnceConcat
    <3> QED BY <1>1, <2>3, <3>2
  <2>5. \A j \in EProcessID : \A m \in Contents(FramesToSend'[j]) : ~OfProcesses(m)
    <3>1. Contents(<<>>) = {}
      BY DEF Contents
    <3>2. \A j \in EProcessID : FramesToSend'[j] = FramesToSend[j] \/ FramesToSend'[j] = <<>>
      BY DEF Flush_Frame, TypeOK, ManagerTypeOK
    <3> QED BY <1>2, <3>1, <3>2
  <2> QED BY <2>1, <2>4, <2>5, Undisturbed DEF Flush_Frame
<1>6. CASE Flush_Frames_Done
  <2>1. ToHandle' = ToHandle /\ FramesToSend' = FramesToSend
    BY <1>6 DEF Flush_Frames_Done, ToHandle, sharedVars
  <2> QED BY <1>1, <1>2, <1>6, <2>1, Undisturbed DEF Flush_Frames_Done, sharedVars
<1>7. CASE \E id \in ManagedIDs : Execute_Process(id)
  <2> PICK id \in ManagedIDs : Execute_Process(id)
    BY <1>7
  <2>1. ToHandle' = ToHandle
    BY DEF Execute_Process, ToHandle
  <2>2. \A j \in TaskProcesses : j # id => ExecuteTask'[j] = ExecuteTask[j] /\ tbbQueue'[j] = tbbQueue[j]
    BY <1>0 DEF Execute_Process
  <2>3. id \in TaskProcesses =>
          /\ tbbQueue[id] = 0 /\ pc[id] = "idle" /\ ~Asked(id, ToHandle) /\ ~Is_Shutting_Down(id) /\ ~(id >= NextID)
          /\ ExecuteTask'[id] = "none" /\ tbbQueue'[id] \in {0, 1}
    <3>1. ExecuteTask[id] = "now"
      BY DEF Execute_Process
    <3>2. ExecuteTask'[id] = "none" /\ (tbbQueue'[id] = tbbQueue[id] \/ tbbQueue'[id] = tbbQueue[id] + 1)
      BY <1>0 DEF Execute_Process
    <3> QED BY <3>1, <3>2 DEF ExecutionInv, OneExecution, NotRunAfterShutdown, Unused
  <2>4. OneExecution'
    BY <2>1, <2>2, <2>3 DEF ExecutionInv, OneExecution, processVars
  <2>5. NotRunAfterShutdown'
    BY <2>1, <2>2, <2>3 DEF ExecutionInv, NotRunAfterShutdown, processVars, Is_Shutting_Down
  <2>6. \A j \in TaskProcesses : j >= NextID' => Unused(j)'
    <3>1. NextID' = NextID
      BY DEF Execute_Process
    <3> QED BY <2>1, <2>2, <2>3, <3>1 DEF ExecutionInv, processVars, Unused, Is_Shutting_Down
  <2>7. \A j \in TaskProcesses : ~ManagerMailbox'[j] => Is_Shutting_Down(j)' /\ pc'[j] = "idle"
    BY DEF ExecutionInv, Is_Shutting_Down, processVars
  <2>8. (phase' # "handle" => control_frames' = <<>>) /\ FramesToSend' = FramesToSend
    BY DEF Execute_Process, ExecutionInv
  <2> QED BY <1>2, <2>4, <2>5, <2>6, <2>7, <2>8 DEF ExecutionInv, processVars
<1>8. CASE Service_Shutdown
  <2>1. ToHandle' = ToHandle
    BY <1>8 DEF Service_Shutdown, ToHandle, sharedVars
  <2>2. \A id \in EProcessID : \A m \in Contents(FramesToSend'[id]) : ~OfProcesses(m)
    <3>1. FramesToSend' = FramesToSend \/ FramesToSend' = Send_Process_Message({LOGGING}, CShutdownSelfRequest(TRUE))
      BY <1>8 DEF Service_Shutdown
    <3>2. CShutdownSelfRequest(TRUE) \in Message
      BY Constructors
    <3> QED BY <1>2, <3>1, <3>2, SendsNoRequest, ManagerMessages
  <2>3. control_frames' = <<>>
    BY <1>8 DEF Service_Shutdown, ExecutionInv
  <2> QED BY <1>1, <1>8, <2>1, <2>2, <2>3, Undisturbed DEF Service_Shutdown, sharedVars
<1> QED BY <1>3, <1>4, <1>5, <1>6, <1>7, <1>8 DEF Manager_Next

-----------------------------------------------------------------------------
(* Steps of processes.                                                     *)

(* What ExecutionInv says of one task process.                             *)
Sound(id) ==
  /\ tbbQueue[id] <= 1
  /\ AskedOnce(id, ToHandle) /\ AskedOnce(id, ManagerFrame[id])
  /\ ExecuteTask[id] # "none" => tbbQueue[id] = 0 /\ pc[id] = "idle" /\ ~Asked(id, ToHandle)
  /\ tbbQueue[id] # 0 => pc[id] = "idle" /\ ~Asked(id, ToHandle)
  /\ pc[id] # "idle" => ~Asked(id, ToHandle)
  /\ Is_Shutting_Down(id) => /\ ExecuteTask[id] = "none" /\ tbbQueue[id] = 0
                             /\ ~Asked(id, ToHandle) /\ ~Asked(id, ManagerFrame[id])
  /\ pc[id] = "idle" => ManagerFrame[id] = <<>>
  /\ ~ManagerMailbox[id] => Is_Shutting_Down(id) /\ pc[id] = "idle"
  /\ id >= NextID => Unused(id)

(* The invariant, process by process.                                      *)
LEMMA ExecutionParts ==
  ExecutionInv <=>
    /\ \A id \in TaskProcesses : Sound(id)
    /\ \A id \in ManagedIDs : \A m \in Contents(ManagerFrame[id]) : m.source = id
    /\ phase # "handle" => control_frames = <<>>
    /\ \A id \in EProcessID : \A m \in Contents(FramesToSend[id]) : ~OfProcesses(m)
BY DEF ExecutionInv, OneExecution, NotRunAfterShutdown, Sound

(* A step of process id changes nothing of the others but what the manager *)
(* has to handle, and adds none of their requests there.                   *)
LEMMA StepOfOne ==
  ASSUME ExecutionInv, NEW id \in ManagedIDs, UNCHANGED managerVars,
         \A j \in ManagedIDs \ {id} :
           /\ tbbQueue'[j] = tbbQueue[j] /\ pc'[j] = pc[j] /\ processState'[j] = processState[j]
           /\ ManagerFrame'[j] = ManagerFrame[j] /\ ManagerMailbox'[j] = ManagerMailbox[j],
         \A j \in TaskProcesses \ {id} :
           AskedOnce(j, ToHandle') /\ (Asked(j, ToHandle') => Asked(j, ToHandle)),
         \A m \in Contents(ManagerFrame'[id]) : m.source = id,
         id \in TaskProcesses => Sound(id)'
  PROVE  ExecutionInv'
<1>1. ASSUME NEW j \in TaskProcesses PROVE Sound(j)'
  <2>1. CASE j = id
    BY <2>1
  <2>2. CASE j # id
    <3>1. j \in ManagedIDs \ {id}
      BY <2>2 DEF TaskProcesses
    <3>2. Sound(j)
      BY ExecutionParts
    <3> QED BY <2>2, <3>1, <3>2 DEF Sound, Unused, Is_Shutting_Down, managerVars
  <2> QED BY <2>1, <2>2
<1>2. \A j \in ManagedIDs : \A m \in Contents(ManagerFrame'[j]) : m.source = j
  BY ExecutionParts
<1>3. /\ phase' # "handle" => control_frames' = <<>>
      /\ \A j \in EProcessID : \A m \in Contents(FramesToSend'[j]) : ~OfProcesses(m)
  BY ExecutionParts DEF managerVars
<1>4. ExecutionInv' <=>
        /\ \A j \in TaskProcesses : Sound(j)'
        /\ \A j \in ManagedIDs : \A m \in Contents(ManagerFrame'[j]) : m.source = j
        /\ phase' # "handle" => control_frames' = <<>>
        /\ \A j \in EProcessID : \A m \in Contents(FramesToSend'[j]) : ~OfProcesses(m)
  BY DEF ExecutionInv, OneExecution, NotRunAfterShutdown, Sound
<1> QED BY <1>1, <1>2, <1>3, <1>4

(* What an execution adds to the manager frame: messages of the process    *)
(* itself, the request for the next execution once at most, and not when   *)
(* the process has been told to shut down.                                 *)
LEMMA FrameRequests ==
  ASSUME NEW id \in ManagedIDs, NEW asked \in {<<>>} \cup { <<m>> : m \in Requests(id) }, NEW early \in BOOLEAN
  PROVE  LET frame == Frame_After_Messages(id, asked, early)
         IN /\ frame \in Seq(Message)
            /\ \A m \in Contents(frame) : m.source = id
            /\ AskedOnce(id, frame)
            /\ Shutting_Down(State_After_Messages(id)) => ~Asked(id, frame)
<1> DEFINE told       == Shutting_Down(State_After_Messages(id))
           reply      == IF told THEN <<CShutdownSelfResponse(id)>> ELSE <<>>
           reschedule == IF told \/ id \in ThreadProcesses THEN <<>> ELSE <<CRescheduleProcessMessage(id)>>
           first      == IF early THEN asked \o reply ELSE reply \o asked
           Quiet(s)   == s \in Seq(Message) /\ \A i \in DOMAIN s : s[i].source = id /\ s[i].type # "RescheduleProcess"
<1>1. Quiet(asked)
  <2>1. \A m \in Requests(id) : m \in Message /\ m.source = id /\ m.type # "RescheduleProcess"
    BY RequestsType DEF RequestTypes
  <2>2. CASE asked = <<>>
    BY <2>2
  <2>3. CASE \E m \in Requests(id) : asked = <<m>>
    BY <2>1, <2>3
  <2> QED BY <2>2, <2>3
<1>2. Quiet(reply)
  <2>1. CShutdownSelfResponse(id) \in Message
    BY Constructors, IDs
  <2>2. CShutdownSelfResponse(id).source = id /\ CShutdownSelfResponse(id).type = "ShutdownSelfResponse"
    BY DEF CShutdownSelfResponse, About
  <2> QED BY <2>1, <2>2
<1>3. reschedule \in Seq(Message) /\ (\A i, j \in DOMAIN reschedule : i = j)
      /\ (\A i \in DOMAIN reschedule : reschedule[i].source = id)
      /\ (told => reschedule = <<>>)
  <2>1. CRescheduleProcessMessage(id) \in Message /\ CRescheduleProcessMessage(id).source = id
    BY Constructors, IDs DEF CRescheduleProcessMessage, About
  <2> QED BY <2>1
<1> HIDE DEF told, reply, reschedule
<1>4. Quiet(first)
  <2>1. \A s, t : Quiet(s) /\ Quiet(t) => Quiet(s \o t)
    OBVIOUS
  <2> QED BY <1>1, <1>2, <2>1
<1>5. Frame_After_Messages(id, asked, early) = first \o reschedule
  BY DEF Frame_After_Messages, told, reply, reschedule
<1> HIDE DEF first
<1>6. ~Asked(id, first) /\ AskedOnce(id, first) /\ AskedOnce(id, reschedule) /\ (told => ~Asked(id, reschedule))
  BY <1>3, <1>4 DEF Asked, AskedOnce, Asks
<1>7. first \o reschedule \in Seq(Message) /\ \A m \in Contents(first \o reschedule) : m.source = id
  BY <1>3, <1>4 DEF Contents
<1>8. AskedOnce(id, first \o reschedule) /\ (told => ~Asked(id, first \o reschedule))
  BY <1>3, <1>4, <1>6, AskedConcat, OnceConcat
<1> QED BY <1>5, <1>7, <1>8 DEF told

(* A step of a process keeps the invariant.                                *)
LEMMA ExecutionProcess == \A id \in ManagedIDs : TypeOK /\ ExecutionInv /\ Process_Step(id) => ExecutionInv'
<1> SUFFICES ASSUME NEW id \in ManagedIDs, TypeOK, ExecutionInv, Process_Next(id), UNCHANGED managerVars
             PROVE  ExecutionInv'
  BY DEF Process_Step
<1> USE IDs
<1>0. /\ mailbox \in [EProcessID -> Seq(Message)] /\ control_frames \in Seq(Message)
      /\ tbbQueue \in [ManagedIDs -> Nat] /\ pc \in [ManagedIDs -> {"idle", "flush", "system"}]
      /\ processState \in [ManagedIDs -> EProcessState]
      /\ ManagerFrame \in [ManagedIDs -> Seq(Message)] /\ ManagerMailbox \in [ManagedIDs -> BOOLEAN]
      /\ TaskProcesses \subseteq ManagedIDs
  BY DEF TypeOK, SharedTypeOK, ManagerTypeOK, ProcessTypeOK, TaskProcesses
<1>1. \A j \in TaskProcesses : Sound(j)
  BY ExecutionParts
<1>2. \A m \in Contents(ManagerFrame[id]) : m.source = id
  BY ExecutionParts
<1>3. \A j \in TaskProcesses : AskedOnce(j, ToHandle)
  BY <1>1 DEF Sound
<1>4. CASE Run(id)
  <2>1. ToHandle' = ToHandle
    BY <1>0, <1>4, ZenonT(40) DEF Run, Service_Message_Frames, Remove_Frames, ToHandle, managerVars
  <2>2. id \in TaskProcesses => /\ tbbQueue[id] = 1 /\ pc[id] = "idle" /\ ManagerFrame[id] = <<>>
                                /\ ~Asked(id, ToHandle) /\ ExecuteTask[id] = "none"
                                /\ ~Is_Shutting_Down(id) /\ ManagerMailbox[id] /\ ~(id >= NextID)
                                /\ tbbQueue'[id] = 0
    <3>1. id \in TaskProcesses => tbbQueue[id] > 0 /\ tbbQueue'[id] = tbbQueue[id] - 1
      BY <1>0, <1>4 DEF Run, Begin, Can_Begin, TaskProcesses
    <3> QED BY <1>0, <1>1, <3>1 DEF Sound, Unused
  <2>3. \A j \in ManagedIDs \ {id} :
          /\ tbbQueue'[j] = tbbQueue[j] /\ pc'[j] = pc[j] /\ processState'[j] = processState[j]
          /\ ManagerFrame'[j] = ManagerFrame[j] /\ ManagerMailbox'[j] = ManagerMailbox[j]
    BY <1>0, <1>4, ZenonT(40) DEF Run, Begin, Service_Message_Frames
  <2>4. CASE Is_Shutting_Down(id)
    <3>1. id \notin TaskProcesses /\ ManagerFrame' = ManagerFrame
      BY <1>4, <2>2, <2>4 DEF Run
    <3> QED BY <1>2, <1>3, <2>1, <2>3, <3>1, StepOfOne
  <2>5. CASE ~Is_Shutting_Down(id)
    <3>0. Service_Message_Frames(id) /\ UNCHANGED ManagerMailbox
      BY <1>4, <2>5 DEF Run
    <3>1. PICK asked \in {<<>>} \cup { <<m>> : m \in Requests(id) }, early \in {TRUE, ~LateRequests} :
            ManagerFrame' = [ManagerFrame EXCEPT ![id] = @ \o Frame_After_Messages(id, asked, early)]
      BY <3>0 DEF Service_Message_Frames
    <3> DEFINE frame == Frame_After_Messages(id, asked, early)
    <3>2. /\ frame \in Seq(Message)
          /\ \A m \in Contents(frame) : m.source = id
          /\ AskedOnce(id, frame)
          /\ Shutting_Down(State_After_Messages(id)) => ~Asked(id, frame)
      BY FrameRequests, LateRequestsAssumption
    <3> HIDE DEF frame
    <3>3. ManagerFrame'[id] = ManagerFrame[id] \o frame
      BY <1>0, <3>1 DEF frame
    <3>4. \A m \in Contents(ManagerFrame'[id]) : m.source = id
      <4>1. Contents(ManagerFrame[id] \o frame) \subseteq Contents(ManagerFrame[id]) \cup Contents(frame)
        BY <1>0, <3>2, SMTT(40) DEF Contents
      <4> QED BY <1>2, <3>2, <3>3, <4>1
    <3>5. id \in TaskProcesses => Sound(id)'
      <4> SUFFICES ASSUME id \in TaskProcesses PROVE Sound(id)'
        OBVIOUS
      <4>1. ManagerFrame'[id] = frame
        BY <2>2, <3>2, <3>3
      <4>2. pc'[id] = "flush" /\ processState'[id] = State_After_Messages(id)
        BY <1>0, <3>0 DEF Service_Message_Frames
      <4>3. UNCHANGED <<ExecuteTask, NextID, ManagerMailbox>>
        BY <3>0 DEF managerVars
      <4> QED BY <1>3, <2>1, <2>2, <3>2, <4>1, <4>2, <4>3 DEF Sound, Unused, Is_Shutting_Down
    <3> QED BY <1>3, <2>1, <2>3, <3>4, <3>5, StepOfOne
  <2> QED BY <2>4, <2>5
<1>5. CASE \E dest \in ProcessIDs : Flush_Regular_Message(id, dest)
  <2> PICK dest \in ProcessIDs : Flush_Regular_Message(id, dest)
    BY <1>5
  <2>1. ToHandle' = ToHandle
    BY <1>0 DEF Flush_Regular_Message, Add_Frame, ToHandle, managerVars
  <2>2. UNCHANGED <<tbbQueue, pc, processState, ManagerFrame, ManagerMailbox>>
    BY DEF Flush_Regular_Message
  <2>3. id \in TaskProcesses => Sound(id)'
    BY <1>1, <2>1, <2>2 DEF Sound, Unused, Is_Shutting_Down, managerVars
  <2> QED BY <1>2, <1>3, <2>1, <2>2, <2>3, StepOfOne
<1>6. CASE Handle_Shutdown_Mailboxes(id)
  <2>1. ToHandle' = ToHandle
    BY <1>6 DEF Handle_Shutdown_Mailboxes, ToHandle, managerVars, sharedVars
  <2> DEFINE response == <<CReleaseMailboxResponse(id, ShutdownMailboxes[id])>>
  <2>2. response \in Seq(Message) /\ Contents(response) = {CReleaseMailboxResponse(id, ShutdownMailboxes[id])}
    BY Constructors DEF TypeOK, ProcessTypeOK, Contents
  <2> HIDE DEF response
  <2>3. ~Asked(id, response) /\ AskedOnce(id, response) /\ \A m \in Contents(response) : m.source = id
    <3>1. \A m \in Contents(response) : m.source = id /\ m.type # "RescheduleProcess"
      BY <2>2 DEF CReleaseMailboxResponse
    <3> QED BY <3>1, NotAsked
  <2>4. ManagerFrame'[id] = ManagerFrame[id] \/ ManagerFrame'[id] = ManagerFrame[id] \o response
    BY <1>0, <1>6 DEF Handle_Shutdown_Mailboxes, response
  <2>5. \A m \in Contents(ManagerFrame'[id]) : m.source = id
    <3>1. Contents(ManagerFrame[id] \o response) \subseteq Contents(ManagerFrame[id]) \cup Contents(response)
      BY <1>0, <2>2, SMTT(40) DEF Contents
    <3> QED BY <1>2, <2>3, <2>4, <3>1
  <2>6. id \in TaskProcesses => Sound(id)'
    <3>0. ManagerFrame[id] \in Seq(Message)
      BY <1>0
    <3>1. Asked(id, ManagerFrame'[id]) <=> Asked(id, ManagerFrame[id])
      <4>1. Asked(id, ManagerFrame[id] \o response) <=> Asked(id, ManagerFrame[id]) \/ Asked(id, response)
        BY <2>2, <3>0, AskedConcat
      <4> QED BY <2>3, <2>4, <4>1
    <3>2. AskedOnce(id, ManagerFrame[id]) => AskedOnce(id, ManagerFrame'[id])
      <4>1. AskedOnce(id, ManagerFrame[id]) => AskedOnce(id, ManagerFrame[id] \o response)
        BY <2>2, <2>3, <3>0, OnceConcat
      <4> QED BY <2>4, <4>1
    <3>3. pc[id] = "flush" /\ pc'[id] = "system"
          /\ UNCHANGED <<tbbQueue, processState, ManagerMailbox, ExecuteTask, NextID>>
      BY <1>0, <1>6 DEF Handle_Shutdown_Mailboxes, sharedVars, managerVars
    <3> QED BY <1>1, <2>1, <3>1, <3>2, <3>3 DEF Sound, Unused, Is_Shutting_Down
  <2>7. \A j \in ManagedIDs \ {id} :
          /\ tbbQueue'[j] = tbbQueue[j] /\ pc'[j] = pc[j] /\ processState'[j] = processState[j]
          /\ ManagerFrame'[j] = ManagerFrame[j] /\ ManagerMailbox'[j] = ManagerMailbox[j]
    BY <1>0, <1>6 DEF Handle_Shutdown_Mailboxes, sharedVars
  <2> QED BY <1>3, <2>1, <2>5, <2>6, <2>7, StepOfOne
<1>7. CASE Flush_System_Messages(id)
  <2> DEFINE sends == ManagerMailbox[id] /\ ManagerFrame[id] # <<>>
             frame == ManagerFrame[id]
  <2>0. frame \in Seq(Message) /\ ToHandle \in Seq(Message) /\ frame = ManagerFrame[id]
    BY <1>0 DEF ToHandle
  <2>1. /\ sends => ToHandle' = ToHandle \o frame /\ ManagerFrame'[id] = <<>>
        /\ ~sends => ToHandle' = ToHandle /\ ManagerFrame'[id] = frame
    <3>1. sends => mailbox'[CONCURRENCY_MANAGER] = mailbox[CONCURRENCY_MANAGER] \o frame
      BY <1>0, <1>7 DEF Flush_System_Messages, Add_Frame
    <3>2. control_frames \o (mailbox[CONCURRENCY_MANAGER] \o frame) = ToHandle \o frame
      <4> HIDE DEF frame
      <4>1. control_frames \in Seq(Message) /\ mailbox[CONCURRENCY_MANAGER] \in Seq(Message) /\ frame \in Seq(Message)
        BY <1>0, <2>0
      <4>2. (control_frames \o mailbox[CONCURRENCY_MANAGER]) \o frame
              = control_frames \o (mailbox[CONCURRENCY_MANAGER] \o frame)
        BY <4>1, Associative, ZenonT(40)
      <4> QED BY <4>2 DEF ToHandle
    <3>3. sends => ToHandle' = ToHandle \o frame
      BY <3>1, <3>2 DEF ToHandle, managerVars
    <3>4. ~sends => ToHandle' = ToHandle
      BY <1>7 DEF Flush_System_Messages, ToHandle, managerVars
    <3> QED BY <1>0, <1>7, <3>3, <3>4 DEF Flush_System_Messages
  <2> HIDE DEF frame
  <2>2. \A j \in TaskProcesses \ {id} : AskedOnce(j, ToHandle') /\ (Asked(j, ToHandle') => Asked(j, ToHandle))
    <3> SUFFICES ASSUME NEW j \in TaskProcesses \ {id}
                 PROVE  AskedOnce(j, ToHandle') /\ (Asked(j, ToHandle') => Asked(j, ToHandle))
      OBVIOUS
    <3>1. ~Asked(j, frame) /\ AskedOnce(j, frame)
      <4>1. \A m \in Contents(frame) : m.type # "RescheduleProcess" \/ m.source # j
        BY <1>2 DEF frame
      <4> QED BY <4>1, NotAsked
    <3>2. AskedOnce(j, ToHandle \o frame) /\ (Asked(j, ToHandle \o frame) => Asked(j, ToHandle))
      BY <1>3, <2>0, <3>1, AskedConcat, OnceConcat
    <3> QED BY <1>3, <2>1, <3>2
  <2>3. \A m \in Contents(ManagerFrame'[id]) : m.source = id
    BY <1>2, <2>1 DEF frame, Contents
  <2>4. \A j \in ManagedIDs \ {id} :
          /\ tbbQueue'[j] = tbbQueue[j] /\ pc'[j] = pc[j] /\ processState'[j] = processState[j]
          /\ ManagerFrame'[j] = ManagerFrame[j] /\ ManagerMailbox'[j] = ManagerMailbox[j]
    BY <1>0, <1>7 DEF Flush_System_Messages
  <2>5. id \in TaskProcesses => Sound(id)'
    <3> SUFFICES ASSUME id \in TaskProcesses PROVE Sound(id)'
      OBVIOUS
    <3>1. pc[id] = "system" /\ pc'[id] = "idle" /\ UNCHANGED <<tbbQueue, processState, ExecuteTask, NextID>>
      BY <1>0, <1>7 DEF Flush_System_Messages, managerVars
    <3>2. /\ ~Asked(id, ToHandle) /\ AskedOnce(id, frame) /\ ManagerMailbox[id] /\ tbbQueue[id] = 0
          /\ ExecuteTask[id] = "none" /\ ~(id >= NextID) /\ (Is_Shutting_Down(id) => ~Asked(id, frame))
      BY <1>0, <1>1, <3>1 DEF Sound, Unused, frame
    <3>3. ManagerFrame'[id] = <<>>
      BY <2>1, <3>2 DEF frame
    <3>4. ~Asked(id, <<>>) /\ AskedOnce(id, <<>>)
      BY DEF Asked, AskedOnce
    <3>5. AskedOnce(id, ToHandle') /\ (Asked(id, ToHandle') => Asked(id, frame))
      <4>1. AskedOnce(id, ToHandle \o frame) /\ (Asked(id, ToHandle \o frame) => Asked(id, frame))
        BY <1>3, <2>0, <3>2, AskedConcat, OnceConcat
      <4> QED BY <1>3, <2>1, <3>2, <4>1
    <3>6. ~ManagerMailbox'[id] => Is_Shutting_Down(id)
      BY <1>0, <1>7, <3>2 DEF Flush_System_Messages
    <3> QED BY <1>0, <3>1, <3>2, <3>3, <3>4, <3>5, <3>6 DEF Sound, Unused, Is_Shutting_Down
  <2> QED BY <2>2, <2>3, <2>4, <2>5, StepOfOne
<1>8. CASE Reset_Manager_Frame(id)
  <2>1. ToHandle' = ToHandle
    BY <1>8 DEF Reset_Manager_Frame, ToHandle, managerVars, sharedVars
  <2>2. ManagerFrame'[id] = <<>> /\ Contents(<<>>) = {}
    BY <1>0, <1>8 DEF Reset_Manager_Frame, Contents
  <2>3. ~Asked(id, <<>>) /\ AskedOnce(id, <<>>)
    BY DEF Asked, AskedOnce
  <2>4. UNCHANGED <<tbbQueue, pc, processState, ManagerMailbox, ExecuteTask, NextID>>
    BY <1>8 DEF Reset_Manager_Frame, sharedVars, managerVars
  <2>5. id \in TaskProcesses => Sound(id)'
    BY <1>1, <2>1, <2>2, <2>3, <2>4 DEF Sound, Unused, Is_Shutting_Down
  <2>6. \A j \in ManagedIDs \ {id} : ManagerFrame'[j] = ManagerFrame[j]
    BY <1>0, <1>8 DEF Reset_Manager_Frame
  <2> QED BY <1>3, <2>1, <2>2, <2>4, <2>5, <2>6, StepOfOne
<1>9. CASE Leave_Loop(id)
  <2>1. ToHandle' = ToHandle
    BY <1>9 DEF Leave_Loop, ToHandle, managerVars
  <2>2. UNCHANGED <<tbbQueue, pc, processState, ManagerFrame, ManagerMailbox, ExecuteTask, NextID>>
    BY <1>9 DEF Leave_Loop, processVars, managerVars
  <2>3. id \in TaskProcesses => Sound(id)'
    BY <1>9 DEF Leave_Loop, TaskProcesses
  <2>4. \A m \in Contents(ManagerFrame'[id]) : m.source = id
    BY <2>2 DEF ExecutionInv
  <2> QED BY <1>3, <2>1, <2>2, <2>3, <2>4, StepOfOne
<1> QED BY <1>4, <1>5, <1>6, <1>7, <1>8, <1>9 DEF Process_Next

(* Every step keeps the invariant.                                         *)
LEMMA ExecutionNext == TypeOK /\ ExecutionInv /\ [Next]_vars => ExecutionInv'
<1> SUFFICES ASSUME TypeOK, ExecutionInv, [Next]_vars PROVE ExecutionInv'
  OBVIOUS
<1>1. CASE UNCHANGED <<mailbox, tbbQueue, threads, managerVars, processVars>>
  BY <1>1 DEF ExecutionInv, OneExecution, NotRunAfterShutdown, Unused, Is_Shutting_Down, ToHandle,
              managerVars, processVars
<1>2. CASE UNCHANGED vars
  BY <1>1, <1>2 DEF vars, sharedVars
<1>3. CASE Fatal_Assert
  BY <1>1, <1>3 DEF Fatal_Assert
<1> QED BY <1>2, <1>3, ExecutionManager, ExecutionProcess DEF Next, Ended

-----------------------------------------------------------------------------

(* A task process has one execution at most, and is not executed again     *)
(* once it has shut down; with what this rests on.                         *)
THEOREM ExecutionCorrect == Spec => []ExecutionInv
<1>1. Init => TypeOK /\ ExecutionInv
  BY TypeInit, ExecutionInit
<1>2. (TypeOK /\ ExecutionInv) /\ [Next]_vars => (TypeOK /\ ExecutionInv)'
  BY TypeNext, ExecutionNext
<1> QED BY <1>1, <1>2, PTL DEF Spec

(* No two workers are ever in the Run of one task process, nor will be: a  *)
(* TBB task for it waits only while none is at work, and only one waits.   *)
THEOREM OneWorker == Spec => []OneWorkerAtATime
<1>1. ExecutionInv => OneWorkerAtATime
  BY DEF ExecutionInv, OneExecution, OneWorkerAtATime
<1> QED BY <1>1, ExecutionCorrect, PTL

(* "A thread should not be rescheduled if it's in the shut down stage": no *)
(* task process is.                                                        *)
THEOREM NotRunAgain == Spec => []NotRunAfterShutdown
<1>1. ExecutionInv => NotRunAfterShutdown
  BY DEF ExecutionInv
<1> QED BY <1>1, ExecutionCorrect, PTL

-----------------------------------------------------------------------------
(* No request to be rescheduled is lost where the worker that sends the    *)
(* manager frame is not interrupted before it resets it: in the logging    *)
(* process, which flushes under a lock, and in all of them if the manager  *)
(* never is that quick.                                                    *)

(* The task processes in which a frame is sent and reset in one step.      *)
Uninterrupted == { id \in TaskProcesses : id = LOGGING \/ ~InterruptibleFlush }

(* The execution of id that is scheduled, enqueued, under way with its     *)
(* request for the next, or asked for.                                     *)
Scheduled(id) ==
  \/ ExecuteTask[id] # "none"
  \/ tbbQueue[id] # 0
  \/ pc[id] # "idle" /\ Asked(id, ManagerFrame[id])
  \/ Asked(id, ToHandle)

(* Until it has shut down a process has one, and no worker is about to     *)
(* destroy a frame that it has begun to fill.                              *)
Keeps(id) == id \notin resetting /\ (Has_Record(id) /\ ~Is_Shutting_Down(id) => Scheduled(id))

(* A request remains in a queue until it is the first message, and taken. *)
LEMMA AskedUntilTaken ==
  ASSUME NEW id, NEW s \in Seq(Message), s # <<>>, Asked(id, s), ~Asks(id, Head(s))
  PROVE  Asked(id, Tail(s))
<1> DEFINE t == Tail(s)
<1>1. /\ DOMAIN s = 1 .. Len(s) /\ DOMAIN t = 1 .. Len(s) - 1 /\ Len(s) \in Nat /\ Len(s) > 0
      /\ Head(s) = s[1]
  OBVIOUS
<1>2. \A i \in DOMAIN s : i # 1 => i - 1 \in DOMAIN t /\ t[i - 1] = s[i]
  BY <1>1
<1> HIDE DEF t
<1>3. Asked(id, t)
  BY <1>1, <1>2 DEF Asked
<1> QED BY <1>3 DEF t

(* A process that executes asks for the next execution unless it is told   *)
(* to shut down.                                                           *)
LEMMA AsksAgain ==
  ASSUME NEW id \in TaskProcesses, NEW asked \in {<<>>} \cup { <<m>> : m \in Requests(id) },
         NEW early \in BOOLEAN, ~Shutting_Down(State_After_Messages(id))
  PROVE  Asked(id, Frame_After_Messages(id, asked, early))
<1> USE IDs
<1>1. id \in ManagedIDs /\ id \notin ThreadProcesses
  BY DEF TaskProcesses
<1>2. asked \in Seq(Message) /\ <<CRescheduleProcessMessage(id)>> \in Seq(Message)
  <2>1. CRescheduleProcessMessage(id) \in Message
    BY <1>1, Constructors
  <2>2. \A m \in Requests(id) : m \in Message
    BY <1>1, RequestsType
  <2>3. CASE asked = <<>>
    BY <2>1, <2>3
  <2>4. CASE \E m \in Requests(id) : asked = <<m>>
    BY <2>1, <2>2, <2>4
  <2> QED BY <2>3, <2>4
<1> DEFINE first == IF early THEN asked \o <<>> ELSE <<>> \o asked
<1>3. Frame_After_Messages(id, asked, early) = first \o <<CRescheduleProcessMessage(id)>>
  BY <1>1 DEF Frame_After_Messages
<1>4. first \in Seq(Message)
  BY <1>2
<1> HIDE DEF first
<1>5. Asked(id, <<CRescheduleProcessMessage(id)>>)
  BY DEF Asked, Asks, CRescheduleProcessMessage, About
<1>6. Asked(id, first \o <<CRescheduleProcessMessage(id)>>)
  BY <1>2, <1>4, <1>5, AskedConcat
<1> QED BY <1>3, <1>6

(* A step of the manager: what it takes from its mailbox it schedules.     *)
LEMMA KeepsManager ==
  ASSUME TypeOK, ExecutionInv, Manager_Step, NEW id \in TaskProcesses, Keeps(id)
  PROVE  Keeps(id)'
<1> USE IDs
<1>0. /\ control_frames \in Seq(Message) /\ mailbox \in [EProcessID -> Seq(Message)]
      /\ ExecuteTask \in [ManagedIDs -> ScheduleStates] /\ tbbQueue \in [ManagedIDs -> Nat]
      /\ ProcessRecords \in [EProcessID -> EInternalProcessState \cup {"NO_RECORD"}]
      /\ \A j \in EProcessID : FramesToSend[j] \in Seq(Message)
      /\ id \in ManagedIDs /\ id \in EProcessID /\ id \notin ThreadProcesses
  BY DEF TypeOK, SharedTypeOK, ManagerTypeOK, TaskProcesses
<1>1. ToHandle \in Seq(Message)
  BY <1>0 DEF ToHandle
<1>2. /\ Manager_Next /\ UNCHANGED processVars
      /\ id \notin resetting' /\ pc'[id] = pc[id] /\ ManagerFrame'[id] = ManagerFrame[id]
      /\ Is_Shutting_Down(id)' <=> Is_Shutting_Down(id)
  BY DEF Manager_Step, processVars, Is_Shutting_Down, Keeps
<1>3. ASSUME Has_Record(id)' => Has_Record(id), ExecuteTask'[id] = ExecuteTask[id], tbbQueue'[id] = tbbQueue[id],
             Asked(id, ToHandle) => Asked(id, ToHandle')
      PROVE  Keeps(id)'
  BY <1>2, <1>3 DEF Keeps, Scheduled
<1>4. ASSUME ExecuteTask'[id] # "none" \/ tbbQueue'[id] # 0
      PROVE  Keeps(id)'
  BY <1>2, <1>4 DEF Keeps, Scheduled
<1>5. CASE Service_Incoming_Frames
  <2>1. ToHandle = mailbox[CONCURRENCY_MANAGER] /\ ToHandle' = mailbox[CONCURRENCY_MANAGER]
    BY <1>0, <1>5 DEF Service_Incoming_Frames, ExecutionInv, ToHandle, Remove_Frames
  <2> QED BY <1>3, <1>5, <2>1 DEF Service_Incoming_Frames, Has_Record
<1>6. CASE Handle_Message
  <2>0. /\ phase = "handle" /\ control_frames # <<>> /\ control_frames' = Tail(control_frames)
        /\ UNCHANGED <<mailbox, tbbQueue>>
    BY <1>6 DEF Handle_Message, Handle_Get_Mailbox_By_ID_Request, Handle_Get_Mailbox_By_Properties_Request,
          Handle_Add_New_Process_Message, Handle_Shutdown_Process_Message, Handle_Reschedule_Process_Message,
          Handle_Release_Mailbox_Response, Handle_Shutdown_Self_Response, Handle_Shutdown_Manager_Message,
          Handling
  <2>1. message \in Message /\ message.source \in EProcessID
    BY <1>0, <2>0, HeadType DEF Message
  <2>2. Asked(id, ToHandle) => Asks(id, message) \/ Asked(id, ToHandle')
    <3>1. control_frames \in Seq(Message) /\ mailbox[CONCURRENCY_MANAGER] \in Seq(Message)
      BY <1>0
    <3>2. \A t \in Seq(Message) : /\ control_frames \o t # <<>>
                                  /\ Head(control_frames \o t) = Head(control_frames)
                                  /\ Tail(control_frames \o t) = Tail(control_frames) \o t
      BY <2>0, <3>1
    <3>3. ToHandle # <<>> /\ Head(ToHandle) = message /\ ToHandle' = Tail(ToHandle)
      BY <2>0, <3>1, <3>2 DEF ToHandle, message
    <3> QED BY <1>1, <3>3, AskedUntilTaken
  <2>3. CASE Handle_Reschedule_Process_Message
    <3>1. CASE Asks(id, message) /\ Has_Record(id)
      <4>1. ExecuteTask'[id] = "now"
        BY <1>0, <2>3, <3>1 DEF Handle_Reschedule_Process_Message, Asks
      <4> QED BY <1>4, <4>1
    <3>2. CASE Asks(id, message) /\ ~Has_Record(id)
      BY <1>2, <2>3, <3>2 DEF Handle_Reschedule_Process_Message, Keeps, Has_Record
    <3>3. CASE ~Asks(id, message)
      <4>1. message.type = "RescheduleProcess" /\ message.source # id
        BY <2>3, <3>3 DEF Handle_Reschedule_Process_Message, Handling, Asks, message
      <4>2. ExecuteTask'[id] = ExecuteTask[id] /\ ProcessRecords' = ProcessRecords
        BY <1>0, <2>1, <2>3, <4>1 DEF Handle_Reschedule_Process_Message
      <4> QED BY <1>3, <2>0, <2>2, <3>3, <4>2 DEF Has_Record
    <3> QED BY <3>1, <3>2, <3>3
  <2>4. ASSUME message.type # "RescheduleProcess", Has_Record(id)' => Has_Record(id), ExecuteTask'[id] = ExecuteTask[id]
        PROVE  Keeps(id)'
    BY <1>3, <2>0, <2>2, <2>4 DEF Asks
  <2>5. CASE Handle_Get_Mailbox_By_ID_Request
    BY <2>4, <2>5 DEF Handle_Get_Mailbox_By_ID_Request, Handling, message, Has_Record
  <2>6. CASE Handle_Get_Mailbox_By_Properties_Request
    BY <2>4, <2>6 DEF Handle_Get_Mailbox_By_Properties_Request, Handling, message, Has_Record
  <2>7. CASE Handle_Add_New_Process_Message
    <3>1. message.type = "AddNewProcess"
      BY <2>7 DEF Handle_Add_New_Process_Message, Handling, message
    <3>2. CASE UNCHANGED <<ProcessRecords, ExecuteTask>>
      BY <2>4, <3>1, <3>2 DEF Has_Record
    <3>3. CASE /\ ProcessRecords' = [ProcessRecords EXCEPT ![NextID] = "INITIALIZING"]
               /\ ExecuteTask' = [ExecuteTask EXCEPT ![NextID] = "now"]
      <4>1. id = NextID => ExecuteTask'[id] = "now"
        BY <1>0, <3>3
      <4>2. id # NextID => ExecuteTask'[id] = ExecuteTask[id] /\ ProcessRecords'[id] = ProcessRecords[id]
        BY <1>0, <3>3
      <4> QED BY <1>4, <2>4, <3>1, <4>1, <4>2 DEF Has_Record
    <3> QED BY <2>7, <3>2, <3>3 DEF Handle_Add_New_Process_Message
  <2>8. CASE Handle_Shutdown_Process_Message
    <3>1. message.type = "ShutdownProcess" /\ ExecuteTask' = ExecuteTask
      BY <2>8 DEF Handle_Shutdown_Process_Message, Handling, message
    <3>2. CASE UNCHANGED ProcessRecords
      BY <2>4, <3>1, <3>2 DEF Has_Record
    <3>3. CASE Has_Record(message.id) /\ Initiate_Process_Shutdown(message.id)
      <4>1. ProcessRecords'[id] = ProcessRecords[id] \/ id = message.id
        BY <1>0, <3>3 DEF Initiate_Process_Shutdown
      <4> QED BY <2>4, <3>1, <3>3, <4>1 DEF Has_Record
    <3> QED BY <2>8, <3>2, <3>3 DEF Handle_Shutdown_Process_Message
  <2>9. CASE Handle_Release_Mailbox_Response
    <3>1. message.type = "ReleaseMailboxResponse" /\ ExecuteTask' = ExecuteTask
      BY <2>9 DEF Handle_Release_Mailbox_Response, Handling, message
    <3>2. ProcessRecords'[id] = ProcessRecords[id] \/ Has_Record(id)
      BY <1>0, <2>9 DEF Handle_Release_Mailbox_Response, Finished, Released
    <3> QED BY <2>4, <3>1, <3>2 DEF Has_Record
  <2>10. CASE Handle_Shutdown_Self_Response
    <3>1. message.type = "ShutdownSelfResponse" /\ ExecuteTask' = ExecuteTask
      BY <2>10 DEF Handle_Shutdown_Self_Response, Handling, message
    <3>2. ProcessRecords'[id] \in {ProcessRecords[id], "NO_RECORD"}
      BY <1>0, <2>10 DEF Handle_Shutdown_Self_Response
    <3> QED BY <2>4, <3>1, <3>2 DEF Has_Record
  <2>11. CASE Handle_Shutdown_Manager_Message
    BY <2>4, <2>11 DEF Handle_Shutdown_Manager_Message, Handling, message, Has_Record
  <2> QED BY <1>6, <2>3, <2>5, <2>6, <2>7, <2>8, <2>9, <2>10, <2>11 DEF Handle_Message
<1>7. CASE \E j \in EProcessID : Flush_Frame(j)
  <2> PICK j \in EProcessID : Flush_Frame(j)
    BY <1>7
  <2>1. CASE j = CONCURRENCY_MANAGER
    <3> DEFINE frame == FramesToSend[j]
    <3>1. /\ control_frames \in Seq(Message) /\ mailbox[CONCURRENCY_MANAGER] \in Seq(Message) /\ frame \in Seq(Message)
          /\ mailbox[CONCURRENCY_MANAGER] \o frame \in Seq(Message)
      BY <1>0
    <3>2. control_frames' = control_frames /\ mailbox'[CONCURRENCY_MANAGER] = mailbox[CONCURRENCY_MANAGER] \o frame
      BY <1>0, <2>1 DEF Flush_Frame, Add_Frame
    <3> HIDE DEF frame
    <3>3. Asked(id, ToHandle) => Asked(id, ToHandle')
      BY <3>1, <3>2, AskedConcat DEF ToHandle
    <3> QED BY <1>3, <3>3 DEF Flush_Frame, Has_Record
  <2>2. CASE j # CONCURRENCY_MANAGER
    <3>1. ToHandle' = ToHandle
      BY <1>0, <2>2 DEF Flush_Frame, Add_Frame, ToHandle
    <3> QED BY <1>3, <3>1 DEF Flush_Frame, Has_Record
  <2> QED BY <2>1, <2>2
<1>8. CASE Flush_Frames_Done
  BY <1>3, <1>8 DEF Flush_Frames_Done, sharedVars, ToHandle, Has_Record
<1>9. CASE \E j \in ManagedIDs : Execute_Process(j)
  <2> PICK j \in ManagedIDs : Execute_Process(j)
    BY <1>9
  <2>1. ToHandle' = ToHandle
    BY DEF Execute_Process, ToHandle
  <2>2. Has_Record(id)' <=> Has_Record(id)
    BY <1>0 DEF Execute_Process, Has_Record
  <2>3. CASE j # id
    BY <1>0, <1>3, <2>1, <2>2, <2>3 DEF Execute_Process
  <2>4. CASE j = id /\ Has_Record(id)
    <3>1. tbbQueue'[id] = tbbQueue[id] + 1 /\ tbbQueue[id] \in Nat
      BY <1>0, <2>4 DEF Execute_Process
    <3> QED BY <1>4, <3>1
  <2>5. CASE ~Has_Record(id)
    BY <1>2, <2>2, <2>5 DEF Keeps
  <2> QED BY <2>3, <2>4, <2>5
<1>10. CASE Service_Shutdown
  <2>1. ToHandle' = ToHandle /\ UNCHANGED <<ExecuteTask, tbbQueue>>
    BY <1>10 DEF Service_Shutdown, sharedVars, ToHandle
  <2>2. ProcessRecords'[id] \in {ProcessRecords[id], "NO_RECORD"}
    BY <1>0, <1>10 DEF Service_Shutdown
  <2> QED BY <1>3, <2>1, <2>2 DEF Has_Record
<1> QED BY <1>2, <1>5, <1>6, <1>7, <1>8, <1>9, <1>10 DEF Manager_Next

(* A step of a process: it asks before it is idle again.                   *)
LEMMA KeepsProcess ==
  ASSUME TypeOK, ExecutionInv, NEW j \in ManagedIDs, Process_Step(j), NEW id \in Uninterrupted, Keeps(id)
  PROVE  Keeps(id)'
<1> USE IDs
<1>0. /\ mailbox \in [EProcessID -> Seq(Message)] /\ control_frames \in Seq(Message)
      /\ tbbQueue \in [ManagedIDs -> Nat] /\ pc \in [ManagedIDs -> {"idle", "flush", "system"}]
      /\ processState \in [ManagedIDs -> EProcessState]
      /\ ManagerFrame \in [ManagedIDs -> Seq(Message)] /\ ManagerMailbox \in [ManagedIDs -> BOOLEAN]
      /\ id \in TaskProcesses /\ id \in ManagedIDs /\ id \notin ThreadProcesses /\ id \in EProcessID
      /\ ToHandle \in Seq(Message) /\ ManagerFrame[id] \in Seq(Message)
  BY DEF TypeOK, SharedTypeOK, ManagerTypeOK, ProcessTypeOK, TaskProcesses, Uninterrupted, ToHandle
<1>1. Process_Next(j) /\ UNCHANGED managerVars
  BY DEF Process_Step
<1>2. Has_Record(id)' = Has_Record(id) /\ ExecuteTask' = ExecuteTask /\ control_frames' = control_frames
  BY <1>1 DEF managerVars, Has_Record
<1>3. Sound(id)
  BY <1>0, ExecutionParts
<1>4. ASSUME ~Is_Shutting_Down(id)' => ~Is_Shutting_Down(id), id \notin resetting', tbbQueue'[id] = tbbQueue[id],
             Asked(id, ToHandle) => Asked(id, ToHandle'),
             pc[id] # "idle" /\ Asked(id, ManagerFrame[id]) /\ ~Is_Shutting_Down(id) =>
               Asked(id, ToHandle') \/ (pc'[id] # "idle" /\ Asked(id, ManagerFrame'[id]))
      PROVE  Keeps(id)'
  BY <1>2, <1>4 DEF Keeps, Scheduled
<1>5. CASE Run(j)
  <2>1. ToHandle' = ToHandle
    BY <1>0, <1>1, <1>5, ZenonT(40) DEF Run, Service_Message_Frames, Remove_Frames, ToHandle, managerVars
  <2>2. resetting' = resetting
    BY <1>5 DEF Run
  <2>3. CASE j # id
    <3>1. /\ tbbQueue'[id] = tbbQueue[id] /\ pc'[id] = pc[id] /\ processState'[id] = processState[id]
          /\ ManagerFrame'[id] = ManagerFrame[id]
      BY <1>0, <1>5, <2>3, ZenonT(40) DEF Run, Begin, Service_Message_Frames
    <3> QED BY <1>4, <2>1, <2>2, <3>1 DEF Is_Shutting_Down, Keeps
  <2>4. CASE j = id
    <3>1. tbbQueue[id] > 0
      BY <1>0, <1>5, <2>4 DEF Run, Begin, Can_Begin
    <3>2. ~Is_Shutting_Down(id) /\ ManagerFrame[id] = <<>>
      BY <1>0, <1>3, <3>1 DEF Sound
    <3>3. Service_Message_Frames(id)
      BY <1>5, <2>4, <3>2 DEF Run
    <3>4. PICK asked \in {<<>>} \cup { <<m>> : m \in Requests(id) }, early \in {TRUE, ~LateRequests} :
            ManagerFrame' = [ManagerFrame EXCEPT ![id] = @ \o Frame_After_Messages(id, asked, early)]
      BY <3>3 DEF Service_Message_Frames
    <3> DEFINE frame == Frame_After_Messages(id, asked, early)
    <3>5. frame \in Seq(Message)
      BY <1>0, FrameRequests, LateRequestsAssumption
    <3>6. ~Shutting_Down(State_After_Messages(id)) => Asked(id, frame)
      BY <1>0, AsksAgain, LateRequestsAssumption
    <3>7. ManagerFrame'[id] = frame
      BY <1>0, <3>2, <3>4, <3>5
    <3> HIDE DEF frame
    <3>8. pc'[id] = "flush" /\ processState'[id] = State_After_Messages(id)
      BY <1>0, <3>3 DEF Service_Message_Frames
    <3> QED BY <2>2, <3>6, <3>7, <3>8 DEF Keeps, Scheduled, Is_Shutting_Down
  <2> QED BY <2>3, <2>4
<1>6. CASE \E dest \in ProcessIDs : Flush_Regular_Message(j, dest)
  <2> PICK dest \in ProcessIDs : Flush_Regular_Message(j, dest)
    BY <1>6
  <2>1. ToHandle' = ToHandle
    BY <1>0, <1>1 DEF Flush_Regular_Message, Add_Frame, ToHandle, managerVars
  <2>2. UNCHANGED <<tbbQueue, pc, processState, ManagerFrame, resetting>>
    BY DEF Flush_Regular_Message
  <2> QED BY <1>4, <2>1, <2>2 DEF Is_Shutting_Down, Keeps
<1>7. CASE Handle_Shutdown_Mailboxes(j)
  <2>1. ToHandle' = ToHandle /\ UNCHANGED <<tbbQueue, processState, resetting>>
    BY <1>1, <1>7 DEF Handle_Shutdown_Mailboxes, ToHandle, managerVars, sharedVars
  <2>2. pc[id] # "idle" /\ Asked(id, ManagerFrame[id]) => pc'[id] # "idle" /\ Asked(id, ManagerFrame'[id])
    <3> DEFINE response == <<CReleaseMailboxResponse(j, ShutdownMailboxes[j])>>
               frame    == ManagerFrame[id]
    <3>1. response \in Seq(Message) /\ frame \in Seq(Message)
      BY <1>0, Constructors DEF TypeOK, ProcessTypeOK
    <3>2. ManagerFrame'[id] = frame \/ ManagerFrame'[id] = frame \o response
      <4>1. CASE j = id
        BY <1>0, <1>7, <4>1 DEF Handle_Shutdown_Mailboxes
      <4>2. CASE j # id
        BY <1>0, <1>7, <4>2 DEF Handle_Shutdown_Mailboxes
      <4> QED BY <4>1, <4>2
    <3> HIDE DEF response, frame
    <3>3. Asked(id, frame) => Asked(id, frame \o response)
      BY <3>1, AskedConcat
    <3>4. Asked(id, ManagerFrame[id]) => Asked(id, ManagerFrame'[id])
      BY <3>2, <3>3 DEF frame
    <3>5. pc'[id] \in {pc[id], "system"}
      BY <1>0, <1>7 DEF Handle_Shutdown_Mailboxes
    <3> QED BY <3>4, <3>5
  <2> QED BY <1>4, <2>1, <2>2 DEF Is_Shutting_Down, Keeps
<1>8. CASE Flush_System_Messages(j)
  <2>1. UNCHANGED <<tbbQueue, processState>>
    BY <1>8 DEF Flush_System_Messages
  <2>2. id \notin resetting'
    BY <1>0, <1>8 DEF Flush_System_Messages, Keeps, Uninterrupted
  <2>3. ToHandle' = ToHandle \/ ToHandle' = ToHandle \o ManagerFrame[j]
    <3> DEFINE frame == ManagerFrame[j]
    <3>1. mailbox'[CONCURRENCY_MANAGER] \in {mailbox[CONCURRENCY_MANAGER], mailbox[CONCURRENCY_MANAGER] \o frame}
      BY <1>0, <1>8 DEF Flush_System_Messages, Add_Frame
    <3>2. control_frames \in Seq(Message) /\ mailbox[CONCURRENCY_MANAGER] \in Seq(Message) /\ frame \in Seq(Message)
      BY <1>0
    <3> HIDE DEF frame
    <3>3. control_frames \o (mailbox[CONCURRENCY_MANAGER] \o frame) = ToHandle \o frame
      <4>1. (control_frames \o mailbox[CONCURRENCY_MANAGER]) \o frame
              = control_frames \o (mailbox[CONCURRENCY_MANAGER] \o frame)
        BY <3>2, Associative, ZenonT(40)
      <4> QED BY <4>1 DEF ToHandle
    <3>4. ToHandle' = ToHandle \/ ToHandle' = ToHandle \o frame
      BY <1>2, <3>1, <3>3 DEF ToHandle
    <3> QED BY <3>4 DEF frame
  <2>4. Asked(id, ToHandle) => Asked(id, ToHandle \o ManagerFrame[j])
    <3>1. ToHandle \in Seq(Message) /\ ManagerFrame[j] \in Seq(Message)
      BY <1>0
    <3> QED BY <3>1, AskedConcat
  <2>5. Asked(id, ToHandle) => Asked(id, ToHandle')
    BY <2>3, <2>4
  <2>6. CASE j # id
    <3>1. pc'[id] = pc[id] /\ ManagerFrame'[id] = ManagerFrame[id]
      BY <1>0, <1>8, <2>6 DEF Flush_System_Messages
    <3> QED BY <1>4, <2>1, <2>2, <2>5, <3>1 DEF Is_Shutting_Down
  <2>7. CASE j = id
    <3>1. ASSUME ~Is_Shutting_Down(id), Asked(id, ManagerFrame[id]) PROVE Asked(id, ToHandle')
      <4>1. ManagerMailbox[id] /\ ManagerFrame[id] # <<>>
        BY <1>0, <1>3, <3>1 DEF Sound, Asked
      <4>2. mailbox'[CONCURRENCY_MANAGER] = mailbox[CONCURRENCY_MANAGER] \o ManagerFrame[id]
        BY <1>0, <1>8, <2>7, <4>1 DEF Flush_System_Messages, Add_Frame
      <4>3. /\ control_frames \in Seq(Message) /\ mailbox[CONCURRENCY_MANAGER] \in Seq(Message)
            /\ mailbox[CONCURRENCY_MANAGER] \o ManagerFrame[id] \in Seq(Message)
        BY <1>0
      <4>4. Asked(id, mailbox[CONCURRENCY_MANAGER] \o ManagerFrame[id])
        BY <1>0, <3>1, <4>3, AskedConcat
      <4>5. Asked(id, control_frames \o (mailbox[CONCURRENCY_MANAGER] \o ManagerFrame[id]))
        BY <4>3, <4>4, AskedConcat
      <4> QED BY <1>2, <4>2, <4>5 DEF ToHandle
    <3> QED BY <1>4, <2>1, <2>2, <2>5, <3>1 DEF Is_Shutting_Down
  <2> QED BY <2>6, <2>7
<1>9. CASE Reset_Manager_Frame(j)
  <2>1. ToHandle' = ToHandle /\ UNCHANGED <<tbbQueue, pc, processState>>
    BY <1>1, <1>9 DEF Reset_Manager_Frame, ToHandle, managerVars, sharedVars
  <2>2. j # id /\ ManagerFrame'[id] = ManagerFrame[id] /\ id \notin resetting'
    BY <1>0, <1>9 DEF Reset_Manager_Frame, Keeps
  <2> QED BY <1>4, <2>1, <2>2 DEF Is_Shutting_Down
<1>10. CASE Leave_Loop(j)
  <2>1. ToHandle' = ToHandle /\ UNCHANGED <<tbbQueue, pc, processState, ManagerFrame, resetting>>
    BY <1>1, <1>10 DEF Leave_Loop, ToHandle, managerVars, processVars
  <2> QED BY <1>4, <2>1 DEF Is_Shutting_Down, Keeps
<1> QED BY <1>1, <1>5, <1>6, <1>7, <1>8, <1>9, <1>10 DEF Process_Next

(* Every step keeps the executions of these processes coming.              *)
LEMMA KeepsNext ==
  ASSUME TypeOK, ExecutionInv, [Next]_vars, NEW id \in Uninterrupted, Keeps(id)
  PROVE  Keeps(id)'
<1>1. CASE UNCHANGED <<mailbox, tbbQueue, threads, managerVars, processVars>>
  BY <1>1 DEF Keeps, Scheduled, Has_Record, Is_Shutting_Down, ToHandle, managerVars, processVars
<1>2. CASE UNCHANGED vars
  BY <1>1, <1>2 DEF vars, sharedVars
<1>3. CASE Fatal_Assert
  BY <1>1, <1>3 DEF Fatal_Assert
<1>4. id \in TaskProcesses
  BY DEF Uninterrupted
<1> QED BY <1>2, <1>3, <1>4, KeepsManager, KeepsProcess DEF Next, Ended

(* A process in which a frame is sent and reset in one step, the logging   *)
(* process among them, is executed again until it has shut down.           *)
THEOREM UninterruptedAreRescheduled == Spec => [](\A id \in Uninterrupted : Keeps(id))
<1> DEFINE All == TypeOK /\ ExecutionInv /\ \A id \in Uninterrupted : Keeps(id)
<1>1. Init => \A id \in Uninterrupted : Keeps(id)
  <2> SUFFICES ASSUME Init, NEW id \in Uninterrupted PROVE Keeps(id)
    OBVIOUS
  <2>1. id \in ManagedIDs /\ id \in EProcessID
    BY IDs DEF Uninterrupted, TaskProcesses
  <2>2. resetting = {}
    BY DEF Init, ProcessInit
  <2>3. Has_Record(id) => ExecuteTask[id] # "none"
    BY <2>1, IDs DEF Init, Setup_For_Run, Has_Record
  <2> QED BY <2>2, <2>3 DEF Keeps, Scheduled
<1>2. Init => All
  BY <1>1, TypeInit, ExecutionInit
<1>3. All /\ [Next]_vars => All'
  <2> SUFFICES ASSUME All, [Next]_vars PROVE All'
    OBVIOUS
  <2>1. \A id \in Uninterrupted : Keeps(id)'
    BY KeepsNext
  <2>2. Uninterrupted' = Uninterrupted
    BY DEF Uninterrupted, TaskProcesses
  <2> QED BY <2>1, <2>2, TypeNext, ExecutionNext
<1> QED BY <1>2, <1>3, PTL DEF Spec

(* AlwaysRescheduled, if no worker is interrupted between sending and      *)
(* resetting the manager frame: that interruption, which the run           *)
(* LostReschedule shows, is all that loses a request (ProcessBase.cpp:122).*)
THEOREM RescheduledUnlessInterrupted ==
  ASSUME InterruptibleFlush = FALSE
  PROVE  Spec => []AlwaysRescheduled
<1>1. (\A id \in Uninterrupted : Keeps(id)) => AlwaysRescheduled
  BY DEF Uninterrupted, Keeps, Scheduled, AlwaysRescheduled
<1> QED BY <1>1, UninterruptedAreRescheduled, PTL
-----------------------------------------------------------------------------
(* Two assertions of the manager never fail: no process is scheduled while *)
(* it is scheduled already (ConcurrencyManager.cpp:261), and no record     *)
(* goes while its execution is scheduled (ConcurrencyManager.cpp:249).     *)

(* Threads do not ask to be rescheduled, and who says that it has shut     *)
(* down has.                                                               *)
Fits(m) ==
  /\ m.type = "RescheduleProcess" => m.source \in TaskProcesses
  /\ m.type = "ShutdownSelfResponse" => m.source \in ManagedIDs /\ Is_Shutting_Down(m.source)

(* The one execution of a thread process starts its thread.                *)
StartsOnce(id) ==
  /\ ExecuteTask[id] # "none" => threads[id] = "none"
  /\ id >= NextID => ExecuteTask[id] = "none" /\ threads[id] = "none"
  /\ Is_Shutting_Down(id) => threads[id] # "none"

(* What the two assertions rest on, besides ExecutionInv.                  *)
AssertionInv ==
  /\ \A id \in ManagedIDs : \A m \in Contents(ManagerFrame[id]) : Fits(m)
  /\ \A m \in Contents(ToHandle) : Fits(m)
  /\ \A id \in ThreadProcesses : StartsOnce(id)
  /\ failure \notin {"Add_Execute_Task", "~CProcessRecord"}

(* It holds initially.                                                     *)
LEMMA AssertionInit == Init => AssertionInv
<1> SUFFICES ASSUME Init PROVE AssertionInv
  OBVIOUS
<1> USE IDs
<1>1. ToHandle = <<>> /\ \A id \in ManagedIDs : ManagerFrame[id] = <<>>
  BY DEF Init, SharedInit, Setup_For_Run, ProcessInit, ToHandle
<1>2. ASSUME NEW id \in ThreadProcesses PROVE StartsOnce(id)
  <2>1. id \in ManagedIDs
    BY ThreadProcessesAssumption
  <2>2. threads[id] = "none" /\ ~Is_Shutting_Down(id)
    BY <2>1 DEF Init, SharedInit, ProcessInit, Is_Shutting_Down, Shutting_Down
  <2>3. id >= NextID => ExecuteTask[id] = "none"
    BY <2>1 DEF Init, Setup_For_Run
  <2> QED BY <2>2, <2>3 DEF StartsOnce
<1> QED BY <1>1, <1>2, ContentsFew DEF AssertionInv, Init, SharedInit

(* Messages remain fitting, as no process that has shut down runs again.   *)
LEMMA FitsOn ==
  ASSUME NEW m, Fits(m), \A id \in ManagedIDs : Is_Shutting_Down(id) => Is_Shutting_Down(id)'
  PROVE  Fits(m)'
<1>1. Fits(m)' <=> /\ m.type = "RescheduleProcess" => m.source \in TaskProcesses
                   /\ m.type = "ShutdownSelfResponse" => m.source \in ManagedIDs /\ Is_Shutting_Down(m.source)'
  BY DEF Fits, TaskProcesses, Is_Shutting_Down
<1> QED BY <1>1 DEF Fits

(* What an execution adds to the manager frame is fitting after it.        *)
LEMMA FrameFits ==
  ASSUME NEW id \in ManagedIDs, NEW asked \in {<<>>} \cup { <<m>> : m \in Requests(id) }, NEW early \in BOOLEAN,
         NEW m \in Contents(Frame_After_Messages(id, asked, early))
  PROVE  /\ m.type = "RescheduleProcess" => m.source \in TaskProcesses
         /\ m.type = "ShutdownSelfResponse" => m.source = id /\ Shutting_Down(State_After_Messages(id))
<1> DEFINE told       == Shutting_Down(State_After_Messages(id))
           reply      == IF told THEN <<CShutdownSelfResponse(id)>> ELSE <<>>
           reschedule == IF told \/ id \in ThreadProcesses THEN <<>> ELSE <<CRescheduleProcessMessage(id)>>
           first      == IF early THEN asked \o reply ELSE reply \o asked
<1>0. CShutdownSelfResponse(id) \in Message /\ CRescheduleProcessMessage(id) \in Message
  BY Constructors, IDs
<1>1. asked \in Seq(Message) /\ \A n \in Contents(asked) : ~OfProcesses(n)
  <2>1. \A n \in Requests(id) : n \in Message /\ ~OfProcesses(n)
    BY RequestsType DEF RequestTypes, OfProcesses
  <2>2. CASE asked = <<>>
    BY <2>2, ContentsFew
  <2>3. CASE \E n \in Requests(id) : asked = <<n>>
    BY <2>1, <2>3, ContentsFew
  <2> QED BY <2>2, <2>3
<1>2. reply \in Seq(Message) /\ \A n \in Contents(reply) : told /\ n = CShutdownSelfResponse(id)
  BY <1>0, ContentsFew
<1>3. reschedule \in Seq(Message) /\ \A n \in Contents(reschedule) : id \notin ThreadProcesses
        /\ n = CRescheduleProcessMessage(id)
  BY <1>0, ContentsFew
<1>4. Frame_After_Messages(id, asked, early) = first \o reschedule
  BY DEF Frame_After_Messages
<1> HIDE DEF told, reply, reschedule
<1>5. first \in Seq(Message) /\ Contents(first) = Contents(asked) \cup Contents(reply)
  BY <1>1, <1>2, ContentsConcat
<1> HIDE DEF first
<1>6. Contents(first \o reschedule) = Contents(first) \cup Contents(reschedule)
  BY <1>3, <1>5, ContentsConcat
<1>7. m \in Contents(asked) \cup Contents(reply) \cup Contents(reschedule)
  BY <1>4, <1>5, <1>6
<1>8. CASE m \in Contents(asked)
  BY <1>1, <1>8 DEF OfProcesses
<1>9. CASE m \in Contents(reply)
  BY <1>2, <1>9 DEF told, CShutdownSelfResponse, About
<1>10. CASE m \in Contents(reschedule)
  BY <1>3, <1>10 DEF CRescheduleProcessMessage, About, TaskProcesses
<1> QED BY <1>7, <1>8, <1>9, <1>10

(* A step of the manager: what it sends itself is of other kinds, and only *)
(* new processes are scheduled but for what asks to be.                    *)
LEMMA AssertionManager ==
  ASSUME TypeOK, ExecutionInv, AssertionInv, Manager_Step
  PROVE  AssertionInv'
<1> USE IDs, ThreadProcessesAssumption
<1>0. /\ control_frames \in Seq(Message) /\ mailbox \in [EProcessID -> Seq(Message)]
      /\ ExecuteTask \in [ManagedIDs -> ScheduleStates]
      /\ threads \in [ManagedIDs -> {"none", "running", "exited"}]
      /\ FramesToSend \in [EProcessID -> Seq(Message)]
      /\ NextID \in Int
  BY DEF TypeOK, SharedTypeOK, ManagerTypeOK
<1>1. Manager_Next /\ UNCHANGED processVars
  BY DEF Manager_Step
<1>2. \A id \in ManagedIDs : Is_Shutting_Down(id)' <=> Is_Shutting_Down(id)
  BY <1>1 DEF processVars, Is_Shutting_Down
<1>3. failure' = failure
  BY <1>1 DEF Manager_Next, Service_Incoming_Frames, Handle_Message, Handle_Get_Mailbox_By_ID_Request,
        Handle_Get_Mailbox_By_Properties_Request, Handle_Add_New_Process_Message, Handle_Shutdown_Process_Message,
        Handle_Reschedule_Process_Message, Handle_Release_Mailbox_Response, Handle_Shutdown_Self_Response,
        Handle_Shutdown_Manager_Message, Handling, Flush_Frame, Flush_Frames_Done, Execute_Process,
        Service_Shutdown, sharedVars, Remove_Frames, Add_Frame
<1>4. ASSUME Contents(ToHandle') \subseteq Contents(ToHandle) \cup Contents(FramesToSend[CONCURRENCY_MANAGER]),
             \A id \in ThreadProcesses : StartsOnce(id)'
      PROVE  AssertionInv'
  <2>1. ASSUME NEW id \in ManagedIDs, NEW m \in Contents(ManagerFrame'[id]) PROVE Fits(m)'
    BY <1>1, <1>2, <2>1, FitsOn DEF AssertionInv, processVars
  <2>2. ASSUME NEW m \in Contents(ToHandle') PROVE Fits(m)'
    <3>1. CASE m \in Contents(ToHandle)
      BY <1>2, <3>1, FitsOn DEF AssertionInv
    <3>2. CASE m \in Contents(FramesToSend[CONCURRENCY_MANAGER])
      <4>1. ~OfProcesses(m)
        BY <3>2 DEF ExecutionInv
      <4> QED BY <4>1 DEF Fits, OfProcesses
    <3> QED BY <1>4, <2>2, <3>1, <3>2
  <2> QED BY <1>3, <1>4, <2>1, <2>2 DEF AssertionInv
<1>5. ASSUME NEW id \in ThreadProcesses, ExecuteTask'[id] = ExecuteTask[id], threads'[id] = threads[id], NextID' = NextID
      PROVE  StartsOnce(id)'
  BY <1>2, <1>5 DEF StartsOnce, AssertionInv
<1>6. CASE Service_Incoming_Frames
  <2>1. ToHandle = mailbox[CONCURRENCY_MANAGER] /\ ToHandle' = mailbox[CONCURRENCY_MANAGER]
    BY <1>0, <1>6 DEF Service_Incoming_Frames, ExecutionInv, ToHandle, Remove_Frames
  <2>2. UNCHANGED <<ExecuteTask, threads, NextID>>
    BY <1>6 DEF Service_Incoming_Frames
  <2> QED BY <1>4, <1>5, <2>1, <2>2
<1>7. CASE Handle_Message
  <2>0. /\ phase = "handle" /\ control_frames # <<>> /\ control_frames' = Tail(control_frames)
        /\ UNCHANGED <<mailbox, threads>>
    BY <1>7 DEF Handle_Message, Handle_Get_Mailbox_By_ID_Request, Handle_Get_Mailbox_By_Properties_Request,
          Handle_Add_New_Process_Message, Handle_Shutdown_Process_Message, Handle_Reschedule_Process_Message,
          Handle_Release_Mailbox_Response, Handle_Shutdown_Self_Response, Handle_Shutdown_Manager_Message,
          Handling
  <2>1. message \in Contents(ToHandle) /\ Contents(ToHandle') \subseteq Contents(ToHandle)
    <3> DEFINE rest == Tail(control_frames)
               new  == mailbox[CONCURRENCY_MANAGER]
    <3>1. /\ control_frames \in Seq(Message) /\ rest \in Seq(Message) /\ new \in Seq(Message)
          /\ message \in Contents(control_frames) /\ Contents(rest) \subseteq Contents(control_frames)
      BY <1>0, <2>0, ContentsTail DEF message
    <3>2. ToHandle = control_frames \o new /\ ToHandle' = rest \o new
      BY <2>0 DEF ToHandle
    <3> HIDE DEF rest, new
    <3> QED BY <3>1, <3>2, ContentsConcat
  <2>2. ASSUME ExecuteTask' = ExecuteTask, NextID' = NextID PROVE AssertionInv'
    BY <1>4, <1>5, <2>0, <2>1, <2>2
  <2>3. CASE Handle_Reschedule_Process_Message
    <3>1. message.type = "RescheduleProcess"
      BY <2>3 DEF Handle_Reschedule_Process_Message, Handling, message
    <3>2. message.source \in TaskProcesses
      BY <2>1, <3>1 DEF AssertionInv, Fits
    <3>3. \A id \in ThreadProcesses : ExecuteTask'[id] = ExecuteTask[id]
      BY <1>0, <2>3, <3>2 DEF Handle_Reschedule_Process_Message, TaskProcesses
    <3> QED BY <1>4, <1>5, <2>0, <2>1, <2>3, <3>3 DEF Handle_Reschedule_Process_Message
  <2>4. CASE Handle_Add_New_Process_Message
    <3>1. CASE UNCHANGED <<NextID, ExecuteTask>>
      BY <2>2, <3>1
    <3>2. CASE NextID' = NextID + 1 /\ ExecuteTask' = [ExecuteTask EXCEPT ![NextID] = "now"]
      <4>1. ASSUME NEW id \in ThreadProcesses PROVE StartsOnce(id)'
        <5>1. StartsOnce(id) /\ id \in Int /\ threads'[id] = threads[id]
          BY <2>0 DEF AssertionInv
        <5>2. id # NextID => ExecuteTask'[id] = ExecuteTask[id]
          BY <1>0, <3>2
        <5> QED BY <1>0, <1>2, <3>2, <5>1, <5>2 DEF StartsOnce
      <4> QED BY <1>4, <2>1, <4>1
    <3> QED BY <2>4, <3>1, <3>2 DEF Handle_Add_New_Process_Message
  <2> QED BY <1>7, <2>2, <2>3, <2>4 DEF Handle_Message, Handle_Get_Mailbox_By_ID_Request,
          Handle_Get_Mailbox_By_Properties_Request, Handle_Shutdown_Process_Message,
          Handle_Release_Mailbox_Response, Handle_Shutdown_Self_Response, Handle_Shutdown_Manager_Message
<1>8. CASE \E j \in EProcessID : Flush_Frame(j)
  <2> PICK j \in EProcessID : Flush_Frame(j)
    BY <1>8
  <2> DEFINE frame == FramesToSend[CONCURRENCY_MANAGER]
             new   == mailbox[CONCURRENCY_MANAGER]
  <2>1. /\ control_frames \in Seq(Message) /\ new \in Seq(Message) /\ frame \in Seq(Message)
        /\ control_frames' = control_frames
    BY <1>0 DEF Flush_Frame
  <2>2. mailbox'[CONCURRENCY_MANAGER] = new \/ mailbox'[CONCURRENCY_MANAGER] = new \o frame
    BY <1>0 DEF Flush_Frame, Add_Frame
  <2>3. Contents(new \o frame) = Contents(new) \cup Contents(frame) /\ new \o frame \in Seq(Message)
    BY <2>1, ContentsConcat
  <2>4. mailbox'[CONCURRENCY_MANAGER] \in Seq(Message) /\ Contents(mailbox'[CONCURRENCY_MANAGER])
          \subseteq Contents(new) \cup Contents(frame)
    BY <2>1, <2>2, <2>3
  <2> HIDE DEF new, frame
  <2>5. Contents(control_frames \o new) = Contents(control_frames) \cup Contents(new)
    BY <2>1, ContentsConcat
  <2>6. Contents(control_frames \o mailbox'[CONCURRENCY_MANAGER]) = Contents(control_frames)
          \cup Contents(mailbox'[CONCURRENCY_MANAGER])
    BY <2>1, <2>4, ContentsConcat
  <2>7. Contents(ToHandle') \subseteq Contents(ToHandle) \cup Contents(frame)
    BY <2>1, <2>4, <2>5, <2>6 DEF ToHandle, new
  <2> QED BY <1>4, <1>5, <2>7 DEF Flush_Frame, frame
<1>9. CASE Flush_Frames_Done
  BY <1>4, <1>5, <1>9 DEF Flush_Frames_Done, sharedVars, ToHandle
<1>10. CASE \E j \in ManagedIDs : Execute_Process(j)
  <2> PICK j \in ManagedIDs : Execute_Process(j)
    BY <1>10
  <2>1. ToHandle' = ToHandle /\ NextID' = NextID
    BY DEF Execute_Process, ToHandle
  <2>2. ASSUME NEW id \in ThreadProcesses PROVE StartsOnce(id)'
    <3>1. CASE j # id
      <4>1. ExecuteTask'[id] = ExecuteTask[id] /\ threads'[id] = threads[id]
        BY <1>0, <3>1 DEF Execute_Process
      <4> QED BY <1>5, <2>1, <4>1
    <3>2. CASE j = id
      <4>1. ExecuteTask[id] # "none" /\ ExecuteTask'[id] = "none" /\ (threads'[id] = threads[id] \/ threads'[id] # "none")
        BY <1>0, <3>2 DEF Execute_Process
      <4> QED BY <1>2, <2>1, <4>1 DEF StartsOnce, AssertionInv
    <3> QED BY <3>1, <3>2
  <2> QED BY <1>4, <2>1, <2>2
<1>11. CASE Service_Shutdown
  BY <1>4, <1>5, <1>11 DEF Service_Shutdown, sharedVars, ToHandle
<1> QED BY <1>1, <1>6, <1>7, <1>8, <1>9, <1>10, <1>11 DEF Manager_Next

(* A step of a process: what it sends the manager is fitting.              *)
LEMMA AssertionProcess ==
  ASSUME TypeOK, ExecutionInv, AssertionInv, NEW j \in ManagedIDs, Process_Step(j)
  PROVE  AssertionInv'
<1> USE IDs, ThreadProcessesAssumption
<1>0. /\ mailbox \in [EProcessID -> Seq(Message)] /\ control_frames \in Seq(Message)
      /\ threads \in [ManagedIDs -> {"none", "running", "exited"}]
      /\ processState \in [ManagedIDs -> EProcessState]
      /\ ManagerFrame \in [ManagedIDs -> Seq(Message)]
  BY DEF TypeOK, SharedTypeOK, ManagerTypeOK, ProcessTypeOK
<1>1. Process_Next(j) /\ UNCHANGED managerVars
  BY DEF Process_Step
<1>2. ExecuteTask' = ExecuteTask /\ NextID' = NextID /\ control_frames' = control_frames
  BY <1>1 DEF managerVars
<1>3. failure' = failure
  BY <1>1 DEF Process_Next, Run, Flush_Regular_Message, Handle_Shutdown_Mailboxes, Flush_System_Messages,
        Reset_Manager_Frame, Leave_Loop, sharedVars
<1>4. ASSUME \A id \in ManagedIDs : Is_Shutting_Down(id) => Is_Shutting_Down(id)',
             \A id \in ManagedIDs : \A m \in Contents(ManagerFrame'[id]) : m \in Contents(ManagerFrame[id]) \/ Fits(m)',
             Contents(ToHandle') \subseteq Contents(ToHandle) \cup Contents(ManagerFrame[j]),
             \A id \in ThreadProcesses : /\ threads'[id] = "none" <=> threads[id] = "none"
                                         /\ Is_Shutting_Down(id)' => Is_Shutting_Down(id) \/ threads[id] # "none"
      PROVE  AssertionInv'
  <2>1. ASSUME NEW id \in ManagedIDs, NEW m \in Contents(ManagerFrame'[id]) PROVE Fits(m)'
    <3>1. CASE m \in Contents(ManagerFrame[id])
      BY <1>4, <3>1, FitsOn DEF AssertionInv
    <3> QED BY <1>4, <2>1, <3>1
  <2>2. ASSUME NEW m \in Contents(ToHandle') PROVE Fits(m)'
    <3>1. Fits(m)
      BY <1>4, <2>2 DEF AssertionInv
    <3> QED BY <1>4, <3>1, FitsOn
  <2>3. ASSUME NEW id \in ThreadProcesses PROVE StartsOnce(id)'
    BY <1>2, <1>4 DEF StartsOnce, AssertionInv
  <2> QED BY <1>3, <2>1, <2>2, <2>3 DEF AssertionInv
<1>5. CASE Run(j)
  <2>1. ToHandle' = ToHandle /\ threads' = threads
    <3>1. mailbox'[CONCURRENCY_MANAGER] = mailbox[CONCURRENCY_MANAGER] /\ threads' = threads
      BY <1>0, <1>5 DEF Run, Service_Message_Frames, Remove_Frames
    <3> QED BY <1>2, <3>1 DEF ToHandle
  <2>2. CASE Is_Shutting_Down(j)
    BY <1>4, <1>5, <2>1, <2>2 DEF Run, Is_Shutting_Down
  <2>3. CASE ~Is_Shutting_Down(j)
    <3>1. Service_Message_Frames(j) /\ Can_Begin(j)
      BY <1>5, <2>3 DEF Run, Begin
    <3>2. PICK asked \in {<<>>} \cup { <<m>> : m \in Requests(j) }, early \in {TRUE, ~LateRequests} :
            ManagerFrame' = [ManagerFrame EXCEPT ![j] = @ \o Frame_After_Messages(j, asked, early)]
      BY <3>1 DEF Service_Message_Frames
    <3> DEFINE frame == Frame_After_Messages(j, asked, early)
    <3>3. early \in BOOLEAN
      BY LateRequestsAssumption
    <3>4. frame \in Seq(Message)
      BY <3>3, FrameRequests
    <3>5. \A m \in Contents(frame) : /\ m.type = "RescheduleProcess" => m.source \in TaskProcesses
                                     /\ m.type = "ShutdownSelfResponse" => m.source = j
                                          /\ Shutting_Down(State_After_Messages(j))
      BY <3>3, FrameFits
    <3>6. /\ \A id \in ManagedIDs \ {j} : ManagerFrame'[id] = ManagerFrame[id]
          /\ ManagerFrame'[j] = ManagerFrame[j] \o frame
      BY <1>0, <3>2
    <3> HIDE DEF frame
    <3>7. Contents(ManagerFrame'[j]) = Contents(ManagerFrame[j]) \cup Contents(frame)
      <4>1. ManagerFrame[j] \in Seq(Message)
        BY <1>0
      <4> QED BY <3>4, <3>6, <4>1, ContentsConcat
    <3>8. /\ \A id \in ManagedIDs \ {j} : processState'[id] = processState[id]
          /\ processState'[j] = State_After_Messages(j)
      BY <1>0, <3>1 DEF Service_Message_Frames
    <3>9. ASSUME NEW m \in Contents(frame) PROVE Fits(m)'
      <4>1. m.type = "RescheduleProcess" => m.source \in TaskProcesses
        BY <3>5
      <4>2. m.type = "ShutdownSelfResponse" => m.source \in ManagedIDs /\ Is_Shutting_Down(m.source)'
        BY <3>5, <3>8 DEF Is_Shutting_Down
      <4>3. Fits(m)' <=> /\ m.type = "RescheduleProcess" => m.source \in TaskProcesses
                         /\ m.type = "ShutdownSelfResponse" => m.source \in ManagedIDs /\ Is_Shutting_Down(m.source)'
        BY DEF Fits, TaskProcesses, Is_Shutting_Down
      <4> QED BY <4>1, <4>2, <4>3
    <3>10. \A id \in ManagedIDs \ {j} : Is_Shutting_Down(id)' <=> Is_Shutting_Down(id)
      BY <3>8 DEF Is_Shutting_Down
    <3>11. j \in ThreadProcesses => threads[j] # "none"
      BY <3>1 DEF Can_Begin
    <3> QED BY <1>4, <2>1, <2>3, <3>6, <3>7, <3>9, <3>10, <3>11
  <2> QED BY <2>2, <2>3
<1>6. CASE \E dest \in ProcessIDs : Flush_Regular_Message(j, dest)
  <2> PICK dest \in ProcessIDs : Flush_Regular_Message(j, dest)
    BY <1>6
  <2>1. ToHandle' = ToHandle
    BY <1>0, <1>2 DEF Flush_Regular_Message, Add_Frame, ToHandle
  <2> QED BY <1>4, <2>1 DEF Flush_Regular_Message, Is_Shutting_Down
<1>7. CASE Handle_Shutdown_Mailboxes(j)
  <2>1. ToHandle' = ToHandle /\ UNCHANGED <<threads, processState>>
    BY <1>2, <1>7 DEF Handle_Shutdown_Mailboxes, ToHandle, sharedVars
  <2> DEFINE response == CReleaseMailboxResponse(j, ShutdownMailboxes[j])
             frame    == ManagerFrame[j]
  <2>2. response \in Message /\ frame \in Seq(Message)
    BY <1>0, Constructors DEF TypeOK, ProcessTypeOK
  <2>3. /\ \A id \in ManagedIDs \ {j} : ManagerFrame'[id] = ManagerFrame[id]
        /\ ManagerFrame'[j] = frame \/ ManagerFrame'[j] = Append(frame, response)
    BY <1>0, <1>7 DEF Handle_Shutdown_Mailboxes
  <2>4. response.type = "ReleaseMailboxResponse"
    BY DEF CReleaseMailboxResponse
  <2> HIDE DEF response, frame
  <2>5. Contents(Append(frame, response)) = Contents(frame) \cup {response}
    BY <2>2, ContentsAppend
  <2>6. \A m \in Contents(ManagerFrame'[j]) : m \in Contents(frame) \/ m = response
    BY <2>3, <2>5
  <2>7. \A id \in ManagedIDs : \A m \in Contents(ManagerFrame'[id]) : m \in Contents(ManagerFrame[id]) \/ Fits(m)'
    <3> SUFFICES ASSUME NEW id \in ManagedIDs, NEW m \in Contents(ManagerFrame'[id]), m \notin Contents(ManagerFrame[id])
                 PROVE  Fits(m)'
      OBVIOUS
    <3>1. m.type = "ReleaseMailboxResponse"
      BY <2>3, <2>4, <2>6 DEF frame
    <3> QED BY <3>1 DEF Fits
  <2> QED BY <1>4, <2>1, <2>7 DEF Is_Shutting_Down
<1>8. CASE Flush_System_Messages(j)
  <2> DEFINE frame == ManagerFrame[j]
             new   == mailbox[CONCURRENCY_MANAGER]
  <2>1. control_frames \in Seq(Message) /\ new \in Seq(Message) /\ frame \in Seq(Message)
    BY <1>0
  <2>2. mailbox'[CONCURRENCY_MANAGER] = new \/ mailbox'[CONCURRENCY_MANAGER] = new \o frame
    BY <1>0, <1>8 DEF Flush_System_Messages, Add_Frame
  <2>3. Contents(new \o frame) = Contents(new) \cup Contents(frame) /\ new \o frame \in Seq(Message)
    BY <2>1, ContentsConcat
  <2>4. mailbox'[CONCURRENCY_MANAGER] \in Seq(Message) /\ Contents(mailbox'[CONCURRENCY_MANAGER])
          \subseteq Contents(new) \cup Contents(frame)
    BY <2>1, <2>2, <2>3
  <2> HIDE DEF new, frame
  <2>5. Contents(control_frames \o new) = Contents(control_frames) \cup Contents(new)
    BY <2>1, ContentsConcat
  <2>6. Contents(control_frames \o mailbox'[CONCURRENCY_MANAGER]) = Contents(control_frames)
          \cup Contents(mailbox'[CONCURRENCY_MANAGER])
    BY <2>1, <2>4, ContentsConcat
  <2>7. Contents(ToHandle') \subseteq Contents(ToHandle) \cup Contents(frame)
    BY <1>2, <2>4, <2>5, <2>6 DEF ToHandle, new
  <2>8. \A id \in ManagedIDs : Contents(ManagerFrame'[id]) \subseteq Contents(ManagerFrame[id])
    BY <1>0, <1>8, ContentsFew DEF Flush_System_Messages
  <2>9. UNCHANGED <<processState, threads>>
    BY <1>8 DEF Flush_System_Messages
  <2> QED BY <1>4, <2>7, <2>8, <2>9 DEF frame, Is_Shutting_Down
<1>9. CASE Reset_Manager_Frame(j)
  <2>1. ToHandle' = ToHandle /\ UNCHANGED <<threads, processState>>
    BY <1>2, <1>9 DEF Reset_Manager_Frame, ToHandle, sharedVars
  <2>2. \A id \in ManagedIDs : Contents(ManagerFrame'[id]) \subseteq Contents(ManagerFrame[id])
    BY <1>0, <1>9, ContentsFew DEF Reset_Manager_Frame
  <2> QED BY <1>4, <2>1, <2>2 DEF Is_Shutting_Down
<1>10. CASE Leave_Loop(j)
  <2>1. ToHandle' = ToHandle /\ UNCHANGED <<ManagerFrame, processState>>
    BY <1>2, <1>10 DEF Leave_Loop, ToHandle, processVars
  <2>2. \A id \in ThreadProcesses : threads'[id] = "none" <=> threads[id] = "none"
    BY <1>0, <1>10 DEF Leave_Loop
  <2> QED BY <1>4, <2>1, <2>2 DEF Is_Shutting_Down
<1> QED BY <1>1, <1>5, <1>6, <1>7, <1>8, <1>9, <1>10 DEF Process_Next

(* The assertions that can fail are others.                                *)
LEMMA AssertionsFailing ==
  ASSUME TypeOK, ExecutionInv, AssertionInv, NEW f \in ManagerFailures \cup UNION { ProcessFailures(id) : id \in ManagedIDs }
  PROVE  f \notin {"Add_Execute_Task", "~CProcessRecord"}
<1> USE IDs
<1>1. f \in ManagerFailures \/ f \in {"Handle_Shutdown_Self_Request", "Handle_Add_Mailbox_Message", "null mailbox"}
  BY DEF ProcessFailures
<1> SUFFICES ASSUME f \in ManagerFailures, f \in {"Add_Execute_Task", "~CProcessRecord"} PROVE FALSE
  BY <1>1
<1>2. /\ phase = "handle" /\ control_frames # <<>> /\ ExecuteTask[message.source] # "none"
      /\ \/ message.type = "RescheduleProcess"
         \/ message.type = "ShutdownSelfResponse"
  BY DEF ManagerFailures, Next_Is
<1>3. message \in Contents(ToHandle)
  <2>1. control_frames \in Seq(Message) /\ mailbox[CONCURRENCY_MANAGER] \in Seq(Message)
    BY DEF TypeOK, SharedTypeOK, ManagerTypeOK
  <2>2. message \in Contents(control_frames)
    BY <1>2, <2>1, ContentsTail DEF message
  <2> QED BY <2>1, <2>2, ContentsConcat DEF ToHandle
<1>4. CASE message.type = "RescheduleProcess"
  <2>1. message.source \in TaskProcesses
    BY <1>3, <1>4 DEF AssertionInv, Fits
  <2>2. Asked(message.source, ToHandle)
    BY <1>3, <1>4 DEF Asked, Asks, Contents
  <2> QED BY <1>2, <2>1, <2>2 DEF ExecutionInv, OneExecution
<1>5. CASE message.type = "ShutdownSelfResponse"
  <2>1. message.source \in ManagedIDs /\ Is_Shutting_Down(message.source)
    BY <1>3, <1>5 DEF AssertionInv, Fits
  <2>2. CASE message.source \in ThreadProcesses
    BY <1>2, <2>1, <2>2 DEF AssertionInv, StartsOnce
  <2>3. CASE message.source \in TaskProcesses
    BY <1>2, <2>1, <2>3 DEF ExecutionInv, NotRunAfterShutdown
  <2> QED BY <2>1, <2>2, <2>3 DEF TaskProcesses
<1> QED BY <1>2, <1>4, <1>5

(* Every step keeps it.                                                    *)
LEMMA AssertionNext == TypeOK /\ ExecutionInv /\ AssertionInv /\ [Next]_vars => AssertionInv'
<1> SUFFICES ASSUME TypeOK, ExecutionInv, AssertionInv, [Next]_vars PROVE AssertionInv'
  OBVIOUS
<1>1. ASSUME UNCHANGED <<mailbox, tbbQueue, threads, managerVars, processVars>>,
             failure' \notin {"Add_Execute_Task", "~CProcessRecord"}
      PROVE  AssertionInv'
  <2>1. ToHandle' = ToHandle /\ UNCHANGED <<ManagerFrame, processState, ExecuteTask, threads, NextID>>
    BY <1>1 DEF ToHandle, managerVars, processVars
  <2>2. \A m : Fits(m)' <=> Fits(m)
    BY <2>1 DEF Fits, TaskProcesses, Is_Shutting_Down
  <2>3. \A id \in ThreadProcesses : StartsOnce(id)' <=> StartsOnce(id)
    BY <2>1 DEF StartsOnce, Is_Shutting_Down
  <2> QED BY <1>1, <2>1, <2>2, <2>3 DEF AssertionInv
<1>2. CASE UNCHANGED vars
  BY <1>1, <1>2 DEF vars, sharedVars, AssertionInv
<1>3. CASE Fatal_Assert
  BY <1>1, <1>3, AssertionsFailing DEF Fatal_Assert
<1> QED BY <1>2, <1>3, AssertionManager, AssertionProcess DEF Next, Ended

(* No budget of the application, no overlap of shutdowns and no            *)
(* interruption makes the assertions about scheduled executions fail: not  *)
(* that of Add_Execute_Task, nor that of ~CProcessRecord.                  *)
THEOREM SchedulingAssertionsHold == Spec => [](failure \notin {"Add_Execute_Task", "~CProcessRecord"})
<1> DEFINE All == TypeOK /\ ExecutionInv /\ AssertionInv
<1>1. Init => All
  BY TypeInit, ExecutionInit, AssertionInit
<1>2. All /\ [Next]_vars => All'
  BY TypeNext, ExecutionNext, AssertionNext
<1>3. All => failure \notin {"Add_Execute_Task", "~CProcessRecord"}
  BY DEF AssertionInv
<1> QED BY <1>1, <1>2, <1>3, PTL DEF Spec

-----------------------------------------------------------------------------
(* Handles to mailboxes: the invariant of the shutdown protocol.         *)

(* What a queue of messages says: that the mailbox of p is handed over, that *)
(* it is to be released, that q gives it back, that the receiver is to shut  *)
(* itself down, that it is to do so softly, and that q has done so.          *)
Hands(queue, p)    == \E m \in Contents(queue) : m.type = "AddMailbox" /\ p \in m.ids
Wants(queue, p)    == \E m \in Contents(queue) : m.type = "ReleaseMailboxRequest" /\ m.id = p
Gives(queue, q, p) == \E m \in Contents(queue) : m.type = "ReleaseMailboxResponse" /\ m.source = q /\ p \in m.ids
Tells(queue)       == \E m \in Contents(queue) : m.type = "ShutdownSelfRequest"
TellsSoftly(queue) == \E m \in Contents(queue) : m.type = "ShutdownSelfRequest" /\ "hard" \notin m.opts
Ends(queue, q)     == \E m \in Contents(queue) : m.type = "ShutdownSelfResponse" /\ m.source = q

(* What the manager's record says of p.                                  *)
Alive(p)   == ProcessRecords[p] \in {"INITIALIZING", "RUNNING"}
Closing(p) == ProcessRecords[p] = "SHUTTING_DOWN_PHASE1"
Closed(p)  == ProcessRecords[p] = "SHUTTING_DOWN_PHASE2"
Gone(p)    == ProcessRecords[p] = "NO_RECORD" /\ p < NextID

(* Once the shutdown of p has begun, p is on its way to be gone.         *)
Leaving(p) == Closing(p) \/ Closed(p) \/ Gone(p)

(* q can write to the mailbox of p, or has been sent it.                 *)
Holds(q, p) ==
  \/ p \in Mailboxes[q]
  \/ Hands(mailbox[q], p)
  \/ Has_Record(q) /\ Hands(FramesToSend[q], p)

(* The request to release the mailbox of p, or its answer, is on its way to *)
(* or from q.                                                               *)
Releasing(q, p) ==
  \/ Wants(mailbox[q], p) \/ Wants(FramesToSend[q], p)
  \/ p \in ShutdownMailboxes[q]
  \/ Gives(ManagerFrame[q], q, p) \/ Gives(ToHandle, q, p)

(* p has been told by the protocol to shut itself down.                  *)
Softly(p) ==
  \/ TellsSoftly(mailbox[p]) \/ TellsSoftly(FramesToSend[p])
  \/ processState[p] = "EPS_SHUTTING_DOWN_SOFT"

(* The manager's own records are not shut down while it runs, it sends      *)
(* nothing to itself, and what it is asked comes from processes that exist. *)
ServiceInv ==
  /\ Alive(CONCURRENCY_MANAGER) /\ Alive(LOGGING)
  /\ FramesToSend[CONCURRENCY_MANAGER] = <<>>
  /\ \A m \in Contents(ToHandle) : /\ m.source \in ManagedIDs /\ m.source < NextID
                                   /\ m.type = "ShutdownProcess" => m.id \in ProcessIDs
  /\ \A id \in ManagedIDs : \A m \in Contents(ManagerFrame[id]) :
       m.type = "ShutdownProcess" => m.id \in ProcessIDs
  /\ \A request \in PersistentGetRequests : request[1] \in ManagedIDs /\ request[1] < NextID

(* An id that has not been given out is that of no process.              *)
Unborn(id) ==
  /\ ~Has_Record(id)
  /\ ExecuteTask[id] = "none" /\ tbbQueue[id] = 0 /\ threads[id] = "none"
  /\ pc[id] = "idle" /\ ~Is_Shutting_Down(id) /\ id \notin resetting
  /\ Mailboxes[id] = {} /\ ShutdownMailboxes[id] = {}
  /\ ManagerFrame[id] = <<>> /\ FramesToSend[id] = <<>>
  /\ \A m \in Contents(mailbox[id]) : m.type = "User"

(* No one has a handle to its own mailbox.                               *)
Own(q) == q \notin Mailboxes[q] /\ ~Hands(mailbox[q], q) /\ ~Hands(FramesToSend[q], q)

(* A mailbox is asked for only once no one is given it any more, and then it *)
(* goes through the places one after the other in which it may still be.     *)
Release(q, p) ==
  /\ Releasing(q, p) => Closing(p) \/ Closed(p) \/ Gone(p)
  /\ Wants(mailbox[q], p) => ~Hands(FramesToSend[q], p)
  /\ p \in ShutdownMailboxes[q] => ~Hands(mailbox[q], p) /\ ~Hands(FramesToSend[q], p)
  /\ Gives(ManagerFrame[q], q, p) \/ Gives(ToHandle, q, p) =>
       p \notin Mailboxes[q] /\ ~Hands(mailbox[q], p) /\ ~Hands(FramesToSend[q], p)

(* Who is told to shut itself down has been cut off by the manager: it is  *)
(* handed nothing more, and has no mailboxes by the time the manager hears *)
(* of it.                                                                  *)
Told(q) ==
  /\ Tells(mailbox[q]) \/ Tells(FramesToSend[q]) \/ Is_Shutting_Down(q) => Closed(q) \/ Gone(q)
  /\ Tells(mailbox[q]) /\ Has_Record(q) => \A p \in ProcessIDs : ~Hands(FramesToSend[q], p)
  /\ Is_Shutting_Down(q) =>
       /\ pc[q] # "flush" => Mailboxes[q] = {}
       /\ \A p \in ProcessIDs : ~Hands(mailbox[q], p) /\ (Has_Record(q) => ~Hands(FramesToSend[q], p))
  /\ Ends(ManagerFrame[q], q) => Is_Shutting_Down(q)
  /\ Ends(ToHandle, q) \/ Gone(q) => Is_Shutting_Down(q) /\ pc[q] # "flush"

(* Who is held has a record, and in its first phase waits for the holder. *)
Held(q, p) == Holds(q, p) => Has_Record(p) /\ (Closing(p) => q \in PendingShutdownIDs[p])

(* Who is told to shut itself down softly no longer runs, and no one can *)
(* write to it.                                                          *)
Soft(p) ==
  /\ Softly(p) => ~Alive(p) /\ p < NextID
  /\ \A q \in ProcessIDs : Holds(q, p) => ~Closed(p) /\ ~Softly(p)

(* All of it, while the manager runs.                                    *)
RunningInv ==
  /\ ServiceInv
  /\ \A q \in ProcessIDs : /\ q >= NextID => Unborn(q)
                           /\ Own(q) /\ Told(q)
                           /\ \A p \in ProcessIDs : Release(q, p) /\ Held(q, p)

(* The invariant: the last part outlives the manager.                    *)
HandleInv ==
  /\ State = "RUNNING" => RunningInv
  /\ \A p \in ProcessIDs : Soft(p)

-----------------------------------------------------------------------------
(* What queues say.                                                      *)

(* u says nothing that neither s nor t says.                             *)
NoMore(u, s, t) ==
  \A p, q :
    /\ Hands(u, p) => Hands(s, p) \/ Hands(t, p)
    /\ Wants(u, p) => Wants(s, p) \/ Wants(t, p)
    /\ Gives(u, q, p) => Gives(s, q, p) \/ Gives(t, q, p)
    /\ Tells(u) => Tells(s) \/ Tells(t)
    /\ TellsSoftly(u) => TellsSoftly(s) \/ TellsSoftly(t)
    /\ Ends(u, q) => Ends(s, q) \/ Ends(t, q)

(* A queue of s and t's messages says no more than the two.              *)
LEMMA SaysNoMore ==
  ASSUME NEW u, NEW s, NEW t, Contents(u) \subseteq Contents(s) \cup Contents(t)
  PROVE  NoMore(u, s, t)
BY DEF NoMore, Hands, Wants, Gives, Tells, TellsSoftly, Ends

(* Nothing is said by a queue without messages, and none of this by one of *)
(* messages of other kinds.                                                *)
LEMMA SaysNothing ==
  ASSUME NEW s,
         \A m \in Contents(s) : m.type \notin {"AddMailbox", "ReleaseMailboxRequest", "ReleaseMailboxResponse",
                                               "ShutdownSelfRequest", "ShutdownSelfResponse"}
  PROVE  \A p, q : /\ ~Hands(s, p) /\ ~Wants(s, p) /\ ~Gives(s, q, p)
                   /\ ~Tells(s) /\ ~TellsSoftly(s) /\ ~Ends(s, q)
BY DEF Hands, Wants, Gives, Tells, TellsSoftly, Ends

(* The empty queue in particular.                                        *)
LEMMA EmptySaysNothing ==
  \A p, q : /\ ~Hands(<<>>, p) /\ ~Wants(<<>>, p) /\ ~Gives(<<>>, q, p)
            /\ ~Tells(<<>>) /\ ~TellsSoftly(<<>>) /\ ~Ends(<<>>, q)
<1>1. Contents(<<>>) = {}
  BY DEF Contents
<1> QED BY <1>1, SaysNothing

(* Softly is one way of telling.                                         *)
LEMMA SoftlyTells == \A s : TellsSoftly(s) => Tells(s)
BY DEF TellsSoftly, Tells

(* Whom HandleInv calls a holder is one of Holders.                      *)
LEMMA HoldersHold ==
  /\ \A p : Holders(p) = { q \in ProcessIDs : Holds(q, p) }
  /\ \A p : Holders(p)' = { q \in ProcessIDs : Holds(q, p)' }
<1>1. ASSUME NEW p, NEW q PROVE (\E m \in To_Process(q) : m.type = "AddMailbox" /\ p \in m.ids)
                    <=> Hands(mailbox[q], p) \/ (Has_Record(q) /\ Hands(FramesToSend[q], p))
  BY DEF To_Process, Hands
<1>2. ASSUME NEW p, NEW q PROVE (\E m \in To_Process(q)' : m.type = "AddMailbox" /\ p \in m.ids)
                    <=> Hands(mailbox'[q], p) \/ (Has_Record(q)' /\ Hands(FramesToSend'[q], p))
  BY DEF To_Process, Hands
<1>3. ASSUME NEW p PROVE Holders(p) = { q \in ProcessIDs : Holds(q, p) }
  BY <1>1 DEF Holders, Holds
<1>4. ASSUME NEW p PROVE Holders(p)' = { q \in ProcessIDs : Holds(q, p)' }
  BY <1>2 DEF Holders, Holds
<1> QED BY <1>3, <1>4

(* A queue to which only messages of the application have been added.    *)
LEMMA UsersSayNothing ==
  ASSUME NEW u, NEW s, \A m \in Contents(u) : m.type = "User" \/ m \in Contents(s)
  PROVE  NoMore(u, s, s)
BY DEF NoMore, Hands, Wants, Gives, Tells, TellsSoftly, Ends

-----------------------------------------------------------------------------
(* The initial state.                                                    *)

(* No one has a handle, and nothing is under way.                        *)
LEMMA HandleInit == Init => HandleInv
<1> SUFFICES ASSUME Init PROVE HandleInv
  OBVIOUS
<1> USE IDs, EmptySaysNothing, ContentsFew
<1>1. ToHandle = <<>>
  BY DEF Init, SharedInit, Setup_For_Run, ToHandle
<1>2. \A q \in ProcessIDs :
        /\ mailbox[q] = <<>> /\ FramesToSend[q] = <<>> /\ ManagerFrame[q] = <<>>
        /\ Mailboxes[q] = {} /\ ShutdownMailboxes[q] = {} /\ pc[q] = "idle"
        /\ processState[q] = "EPS_INITIALIZING" /\ tbbQueue[q] = 0 /\ threads[q] = "none"
        /\ q \notin resetting
  BY DEF Init, SharedInit, Setup_For_Run, ProcessInit
<1>3. /\ NextID = FIRST_FREE_ID + 1
      /\ \A q \in EProcessID : ProcessRecords[q] = IF q <= FIRST_FREE_ID THEN "INITIALIZING" ELSE "NO_RECORD"
      /\ \A q \in ManagedIDs : q > FIRST_FREE_ID => ExecuteTask[q] = "none"
  BY DEF Init, Setup_For_Run
<1>4. \A q, p \in ProcessIDs : ~Holds(q, p) /\ ~Softly(p)
  BY <1>2 DEF Holds, Softly
<1>5. \A q \in ProcessIDs : ~Gone(q) /\ ~Is_Shutting_Down(q)
  BY <1>2, <1>3 DEF Gone, Is_Shutting_Down, Shutting_Down, ProcessIDs
<1>6. ServiceInv
  BY <1>1, <1>3 DEF ServiceInv, Alive, Init, Setup_For_Run, ProcessInit, EProcessID
<1>7. ASSUME NEW q \in ProcessIDs, q >= NextID PROVE Unborn(q)
  <2>1. q \in EProcessID /\ q \in ManagedIDs /\ ~(q <= FIRST_FREE_ID) /\ q > FIRST_FREE_ID
    BY <1>3, <1>7 DEF ProcessIDs
  <2> QED BY <1>2, <1>3, <1>5, <2>1 DEF Unborn, Has_Record
<1>8. \A q \in ProcessIDs : Own(q) /\ Told(q)
  BY <1>1, <1>2, <1>5 DEF Own, Told
<1>9. \A q, p \in ProcessIDs : Release(q, p) /\ Held(q, p)
  BY <1>1, <1>2, <1>4 DEF Release, Releasing, Held
<1> QED BY <1>4, <1>6, <1>7, <1>8, <1>9 DEF HandleInv, RunningInv, Soft

-----------------------------------------------------------------------------
(* Steps of processes.                                                   *)

(* A handle is given out only while the manager runs, to the mailbox of a *)
(* process that runs as well.                                             *)
Grants ==
  \A q, p \in ProcessIDs : Holds(q, p)' => Holds(q, p) \/ (State' = "RUNNING" /\ Alive(p)' /\ ~Leaving(p))

(* None is by a process.                                                 *)
NoNewHolders == \A q, p \in ProcessIDs : Holds(q, p)' => Holds(q, p)

(* A step of process id that gives no one a handle, tells no one to shut *)
(* down and keeps what the invariant says of id keeps the invariant.     *)
LEMMA StepKeepsHandles ==
  ASSUME HandleInv, NEW id \in ManagedIDs, UNCHANGED managerVars, NextID \in Int, State = "RUNNING" => id < NextID,
         \A j \in ManagedIDs \ {id} :
           /\ tbbQueue'[j] = tbbQueue[j] /\ threads'[j] = threads[j] /\ pc'[j] = pc[j]
           /\ processState'[j] = processState[j] /\ Mailboxes'[j] = Mailboxes[j]
           /\ ShutdownMailboxes'[j] = ShutdownMailboxes[j] /\ ManagerFrame'[j] = ManagerFrame[j],
         resetting' \subseteq resetting \cup {id},
         \A j \in ProcessIDs : \A m \in Contents(mailbox'[j]) : m.type = "User" \/ m \in Contents(mailbox[j]),
         \A q \in ProcessIDs \ {id}, p \in ProcessIDs :
           /\ Gives(ToHandle', q, p) => Gives(ToHandle, q, p)
           /\ Ends(ToHandle', q) => Ends(ToHandle, q),
         id \in ProcessIDs => /\ \A p \in ProcessIDs : Holds(id, p)' => Holds(id, p)
                              /\ Softly(id)' => Softly(id),
         State = "RUNNING" =>
           /\ ServiceInv'
           /\ id \in ProcessIDs => Own(id)' /\ Told(id)' /\ \A p \in ProcessIDs : Release(id, p)'
  PROVE  HandleInv' /\ NoNewHolders
<1> USE IDs
<1>1. \A j \in ProcessIDs : \A p :
        /\ Hands(mailbox'[j], p) => Hands(mailbox[j], p)
        /\ Wants(mailbox'[j], p) => Wants(mailbox[j], p)
        /\ Tells(mailbox'[j]) => Tells(mailbox[j])
        /\ TellsSoftly(mailbox'[j]) => TellsSoftly(mailbox[j])
  BY UsersSayNothing DEF NoMore
<1>2. UNCHANGED <<State, NextID, ProcessRecords, PendingShutdownIDs, ExecuteTask, FramesToSend>>
  BY DEF managerVars
<1>3. \A p : /\ Has_Record(p)' <=> Has_Record(p)
             /\ Alive(p)' <=> Alive(p)
             /\ Closing(p)' <=> Closing(p)
             /\ Closed(p)' <=> Closed(p)
             /\ Gone(p)' <=> Gone(p)
  BY <1>2 DEF Has_Record, Alive, Closing, Closed, Gone
<1>4. \A q, p \in ProcessIDs : Holds(q, p)' => Holds(q, p)
  BY <1>1, <1>2, <1>3 DEF Holds
<1>5. \A p \in ProcessIDs : Softly(p)' => Softly(p)
  BY <1>1, <1>2 DEF Softly
<1>6. \A p \in ProcessIDs : Soft(p)'
  BY <1>2, <1>3, <1>4, <1>5 DEF HandleInv, Soft
<1>7. ASSUME State = "RUNNING" PROVE RunningInv'
  <2> USE <1>7
  <2>0. RunningInv
    BY DEF HandleInv
  <2>1. \A q, p \in ProcessIDs : Held(q, p)'
    BY <1>2, <1>3, <1>4, <2>0 DEF Held, RunningInv
  <2>2. ASSUME NEW q \in ProcessIDs, q # id PROVE Own(q)' /\ Told(q)' /\ \A p \in ProcessIDs : Release(q, p)'
    <3>0. q \in ManagedIDs \ {id}
      BY <2>2
    <3>1. /\ UNCHANGED <<Mailboxes[q], ShutdownMailboxes[q], pc[q], processState[q], ManagerFrame[q], FramesToSend[q]>>
          /\ Is_Shutting_Down(q)' <=> Is_Shutting_Down(q)
      BY <1>2, <3>0 DEF Is_Shutting_Down
    <3>2. Own(q) /\ Told(q) /\ \A p \in ProcessIDs : Release(q, p)
      BY <2>0, <2>2 DEF RunningInv
    <3>3. Own(q)'
      BY <1>1, <2>2, <3>1, <3>2 DEF Own
    <3>4. Told(q)'
      BY <1>1, <1>3, <2>2, <3>1, <3>2 DEF Told
    <3>5. ASSUME NEW p \in ProcessIDs PROVE Release(q, p)'
      <4>1. Release(q, p)
        BY <3>2
      <4>2. Releasing(q, p)' => Releasing(q, p)
        BY <1>1, <2>2, <3>1 DEF Releasing
      <4> QED BY <1>1, <1>3, <2>2, <3>1, <4>1, <4>2 DEF Release
    <3> QED BY <3>3, <3>4, <3>5
  <2>3. ASSUME NEW q \in ProcessIDs, q >= NextID' PROVE Unborn(q)'
    <3>0. q \in ManagedIDs \ {id}
      BY <1>2, <2>3, MaxProcessIDAssumption DEF ProcessIDs, ManagedIDs
    <3>1. Unborn(q)
      BY <1>2, <2>0, <2>3 DEF RunningInv
    <3> QED BY <1>2, <1>3, <2>3, <3>0, <3>1 DEF Unborn, Is_Shutting_Down
  <2> QED BY <2>1, <2>2, <2>3 DEF RunningInv
<1> QED BY <1>2, <1>4, <1>6, <1>7 DEF HandleInv, NoNewHolders

(* Whoever takes a step exists.                                          *)
LEMMA ActorsExist ==
  ASSUME TypeOK, HandleInv, State = "RUNNING", NEW id \in ManagedIDs,
         pc[id] # "idle" \/ Can_Begin(id) \/ id \in resetting \/ threads[id] = "running"
  PROVE  id < NextID
<1>1. NextID \in Int /\ NextID >= FIRST_FREE_ID /\ id \in Int
  <2>1. NextID \in FIRST_FREE_ID .. MaxProcessID + 1
    BY DEF TypeOK, ManagerTypeOK
  <2>2. id \in Int
    BY DEF ManagedIDs
  <2> QED BY <2>1, <2>2, MaxProcessIDAssumption
<1>2. CASE id \in ProcessIDs
  <2>1. id >= NextID => Unborn(id)
    BY <1>2 DEF HandleInv, RunningInv
  <2>2. Unborn(id) => ~(pc[id] # "idle" \/ Can_Begin(id) \/ id \in resetting \/ threads[id] = "running")
    BY DEF Unborn, Can_Begin
  <2> QED BY <1>1, <2>1, <2>2
<1>3. CASE id \notin ProcessIDs
  BY <1>1, <1>3 DEF ManagedIDs, ProcessIDs
<1> QED BY <1>2, <1>3

(* An execution begins only when none is under way.                      *)
LEMMA BeginsIdle ==
  ASSUME TypeOK, ExecutionInv, NEW id \in ManagedIDs, Can_Begin(id)
  PROVE  pc[id] = "idle"
<1>1. tbbQueue[id] \in Nat
  BY DEF TypeOK, SharedTypeOK
<1> QED BY <1>1 DEF Can_Begin, ExecutionInv, OneExecution, TaskProcesses

(* What an execution adds to the manager frame.                          *)
LEMMA FrameSays ==
  ASSUME NEW id \in ManagedIDs, NEW asked \in {<<>>} \cup { <<m>> : m \in Requests(id) }, NEW early \in BOOLEAN
  PROVE  LET frame == Frame_After_Messages(id, asked, early)
         IN /\ frame \in Seq(Message)
            /\ \A q, p : ~Gives(frame, q, p)
            /\ \A q : Ends(frame, q) => Shutting_Down(State_After_Messages(id))
            /\ \A m \in Contents(frame) : m.type = "ShutdownProcess" => m.id \in ProcessIDs
<1> DEFINE told       == Shutting_Down(State_After_Messages(id))
           reply      == IF told THEN <<CShutdownSelfResponse(id)>> ELSE <<>>
           reschedule == IF told \/ id \in ThreadProcesses THEN <<>> ELSE <<CRescheduleProcessMessage(id)>>
           first      == IF early THEN asked \o reply ELSE reply \o asked
           Fine(m)    == /\ m.type # "ReleaseMailboxResponse"
                         /\ m.type = "ShutdownSelfResponse" => told
                         /\ m.type = "ShutdownProcess" => m.id \in ProcessIDs
           Good(s)    == s \in Seq(Message) /\ \A m \in Contents(s) : Fine(m)
<1>1. Good(asked)
  <2>1. \A m \in Requests(id) : m \in Message /\ Fine(m)
    <3> SUFFICES ASSUME NEW m \in Requests(id) PROVE m \in Message /\ Fine(m)
      OBVIOUS
    <3>1. m \in Message /\ m.type \in RequestTypes
      BY RequestsType
    <3>2. m.type = "ShutdownProcess" => m.id \in ProcessIDs
      BY DEF Requests
    <3> QED BY <3>1, <3>2 DEF RequestTypes
  <2>2. CASE asked = <<>>
    BY <2>2, ContentsFew
  <2>3. CASE \E m \in Requests(id) : asked = <<m>>
    <3> PICK m \in Requests(id) : asked = <<m>>
      BY <2>3
    <3> HIDE DEF Fine
    <3>1. m \in Message /\ Fine(m) /\ Contents(asked) = {m}
      BY <2>1, ContentsFew
    <3> QED BY <3>1
  <2> QED BY <2>2, <2>3
<1>2. Good(reply)
  <2>1. CShutdownSelfResponse(id) \in Message
    BY Constructors, IDs
  <2>2. told => Fine(CShutdownSelfResponse(id))
    BY DEF CShutdownSelfResponse, About
  <2> HIDE DEF Fine
  <2> QED BY <2>1, <2>2, ContentsFew
<1>3. Good(reschedule)
  <2>1. CRescheduleProcessMessage(id) \in Message
    BY Constructors, IDs
  <2>2. Fine(CRescheduleProcessMessage(id))
    BY DEF CRescheduleProcessMessage, About
  <2> HIDE DEF Fine, told
  <2> QED BY <2>1, <2>2, ContentsFew
<1>4. \A s, t : Good(s) /\ Good(t) => Good(s \o t)
  <2> HIDE DEF Fine
  <2> QED BY ContentsConcat
<1>5. Frame_After_Messages(id, asked, early) = first \o reschedule
  BY DEF Frame_After_Messages
<1>6. Good(first \o reschedule)
  <2> HIDE DEF Good, reply, reschedule
  <2>1. Good(first)
    BY <1>1, <1>2, <1>4
  <2> HIDE DEF first
  <2> QED BY <1>3, <1>4, <2>1
<1> DEFINE frame == first \o reschedule
<1> HIDE DEF first, reschedule, frame
<1>7. Good(frame)
  BY <1>6 DEF frame
<1>8. (\A q, p : ~Gives(frame, q, p)) /\ (\A q : Ends(frame, q) => told)
  BY <1>7 DEF Gives, Ends
<1> QED BY <1>5, <1>7, <1>8 DEF frame

(* The step of process id in which it takes its messages.                *)
LEMMA MessagesKeepHandles ==
  ASSUME TypeOK, ExecutionInv, HandleInv, NEW id \in ManagedIDs, Run(id), ~Is_Shutting_Down(id), UNCHANGED managerVars
  PROVE  HandleInv' /\ NoNewHolders
<1> USE IDs, EmptySaysNothing, ContentsFew
<1>0. /\ mailbox \in [EProcessID -> Seq(Message)] /\ tbbQueue \in [ManagedIDs -> Nat]
      /\ pc \in [ManagedIDs -> {"idle", "flush", "system"}] /\ processState \in [ManagedIDs -> EProcessState]
      /\ Mailboxes \in [ManagedIDs -> SUBSET EProcessID] /\ ShutdownMailboxes \in [ManagedIDs -> SUBSET EProcessID]
      /\ ManagerFrame \in [ManagedIDs -> Seq(Message)] /\ NextID \in Int
  BY DEF TypeOK, SharedTypeOK, ManagerTypeOK, ProcessTypeOK
<1>1. Service_Message_Frames(id) /\ Begin(id) /\ UNCHANGED <<threads, resetting>>
  BY DEF Run
<1>2. State = "RUNNING" => id < NextID
  BY <1>1, ActorsExist DEF Begin
<1>3. PICK asked \in {<<>>} \cup { <<m>> : m \in Requests(id) }, early \in {TRUE, ~LateRequests} :
        ManagerFrame' = [ManagerFrame EXCEPT ![id] = @ \o Frame_After_Messages(id, asked, early)]
  BY <1>1 DEF Service_Message_Frames
<1> DEFINE frame == Frame_After_Messages(id, asked, early)
<1>4. /\ frame \in Seq(Message)
      /\ \A q, p : ~Gives(frame, q, p)
      /\ \A q : Ends(frame, q) => Shutting_Down(State_After_Messages(id))
      /\ \A m \in Contents(frame) : m.type = "ShutdownProcess" => m.id \in ProcessIDs
  BY FrameSays, LateRequestsAssumption
<1> HIDE DEF frame
<1>5. /\ ManagerFrame'[id] = ManagerFrame[id] \o frame
      /\ Contents(ManagerFrame'[id]) = Contents(ManagerFrame[id]) \cup Contents(frame)
  BY <1>0, <1>3, <1>4, ContentsConcat DEF frame
<1>6. /\ mailbox'[id] = <<>> /\ pc'[id] = "flush" /\ processState'[id] = State_After_Messages(id)
      /\ Mailboxes'[id] = Mailboxes[id] \cup (Added_Mailboxes(id) \ {INVALID})
      /\ ShutdownMailboxes'[id] = ShutdownMailboxes[id] \cup (Released_Mailboxes(id) \ {INVALID})
  BY <1>0, <1>1 DEF Service_Message_Frames, Remove_Frames
<1>7. \A j \in ManagedIDs \ {id} :
        /\ tbbQueue'[j] = tbbQueue[j] /\ threads'[j] = threads[j] /\ pc'[j] = pc[j]
        /\ processState'[j] = processState[j] /\ Mailboxes'[j] = Mailboxes[j]
        /\ ShutdownMailboxes'[j] = ShutdownMailboxes[j] /\ ManagerFrame'[j] = ManagerFrame[j]
  BY <1>0, <1>1, <1>3 DEF Service_Message_Frames, Begin
<1>8. \A j \in EProcessID : j # id => mailbox'[j] = mailbox[j]
  BY <1>0, <1>1 DEF Service_Message_Frames, Remove_Frames
<1>9. ToHandle' = ToHandle
  BY <1>8 DEF ToHandle, managerVars
<1>10. \A p : /\ p \in Mailboxes'[id] => p \in Mailboxes[id] \/ Hands(mailbox[id], p)
              /\ p \in ShutdownMailboxes'[id] => p \in ShutdownMailboxes[id] \/ Wants(mailbox[id], p)
  BY <1>6 DEF Added_Mailboxes, Released_Mailboxes, Incoming, Hands, Wants
<1>11. /\ Is_Shutting_Down(id)' => Tells(mailbox[id])
       /\ processState'[id] = "EPS_SHUTTING_DOWN_SOFT" => TellsSoftly(mailbox[id])
  BY <1>6 DEF Is_Shutting_Down, Shutting_Down, State_After_Messages, Incoming, Tells, TellsSoftly
<1>12. \A q, p : /\ Gives(ManagerFrame'[id], q, p) => Gives(ManagerFrame[id], q, p)
                 /\ Ends(ManagerFrame'[id], q) => Ends(ManagerFrame[id], q) \/ Is_Shutting_Down(id)'
  <2>1. NoMore(ManagerFrame'[id], ManagerFrame[id], frame)
    BY <1>5, SaysNoMore
  <2> QED BY <1>4, <1>6, <2>1 DEF NoMore, Is_Shutting_Down
<1>13. UNCHANGED <<State, NextID, ProcessRecords, PendingShutdownIDs, FramesToSend, PersistentGetRequests>>
  BY DEF managerVars
<1>14. \A p : Holds(id, p)' => Holds(id, p)
  BY <1>6, <1>10, <1>13 DEF Holds, Has_Record
<1>15. Softly(id)' => Softly(id)
  BY <1>6, <1>11, <1>13 DEF Softly
<1>16. ASSUME State = "RUNNING", id \in ProcessIDs
       PROVE  Own(id)' /\ Told(id)' /\ \A p \in ProcessIDs : Release(id, p)'
  <2>1. Own(id) /\ Told(id) /\ \A p \in ProcessIDs : Release(id, p)
    BY <1>16 DEF HandleInv, RunningInv
  <2>2. Own(id)'
    BY <1>6, <1>10, <1>13, <2>1 DEF Own
  <2>3. ~Ends(ManagerFrame[id], id) /\ ~Ends(ToHandle, id) /\ ~Gone(id)
    BY <2>1 DEF Told
  <2>4. \A p : (Closed(p)' <=> Closed(p)) /\ (Gone(p)' <=> Gone(p)) /\ (Closing(p)' <=> Closing(p))
    BY <1>13 DEF Closed, Gone, Closing
  <2>5. Told(id)'
    <3>1. ~Tells(mailbox'[id]) /\ \A p : ~Hands(mailbox'[id], p)
      BY <1>6
    <3>2. Tells(FramesToSend'[id]) \/ Is_Shutting_Down(id)' => Closed(id)' \/ Gone(id)'
      BY <1>11, <1>13, <2>1, <2>4 DEF Told
    <3>3. Is_Shutting_Down(id)' /\ Has_Record(id)' => \A p \in ProcessIDs : ~Hands(FramesToSend'[id], p)
      BY <1>11, <1>13, <2>1 DEF Told, Has_Record
    <3>4. ~Ends(ToHandle', id) /\ ~Gone(id)'
      BY <1>9, <2>3, <2>4
    <3>5. Ends(ManagerFrame'[id], id) => Is_Shutting_Down(id)'
      BY <1>12, <2>3
    <3> QED BY <1>6, <3>1, <3>2, <3>3, <3>4, <3>5 DEF Told
  <2>6. ASSUME NEW p \in ProcessIDs PROVE Release(id, p)'
    <3>1. Release(id, p)
      BY <2>1
    <3>2. Releasing(id, p)' => Releasing(id, p)
      BY <1>6, <1>9, <1>10, <1>12, <1>13 DEF Releasing
    <3> QED BY <1>6, <1>9, <1>10, <1>12, <1>13, <2>4, <3>1, <3>2 DEF Release
  <2> QED BY <2>2, <2>5, <2>6
<1>17. ASSUME State = "RUNNING" PROVE ServiceInv'
  <2>1. ServiceInv
    BY <1>17 DEF HandleInv, RunningInv
  <2>2. \A j \in ManagedIDs : \A m \in Contents(ManagerFrame'[j]) : m.type = "ShutdownProcess" => m.id \in ProcessIDs
    <3> SUFFICES ASSUME NEW j \in ManagedIDs, NEW m \in Contents(ManagerFrame'[j]), m.type = "ShutdownProcess"
                 PROVE  m.id \in ProcessIDs
      OBVIOUS
    <3>1. j = id => m \in Contents(ManagerFrame[id]) \cup Contents(frame)
      BY <1>5
    <3>2. j # id => m \in Contents(ManagerFrame[j])
      BY <1>7
    <3> QED BY <1>4, <2>1, <3>1, <3>2 DEF ServiceInv
  <2> QED BY <1>9, <1>13, <2>1, <2>2 DEF ServiceInv, Alive
<1>18. \A j \in ProcessIDs : \A m \in Contents(mailbox'[j]) : m.type = "User" \/ m \in Contents(mailbox[j])
  BY <1>6, <1>8
<1> QED BY <1>0, <1>1, <1>2, <1>7, <1>9, <1>14, <1>15, <1>16, <1>17, <1>18, StepKeepsHandles

(* The other steps of a process.                                         *)
LEMMA HandleProcess ==
  \A id \in ManagedIDs : TypeOK /\ ExecutionInv /\ HandleInv /\ Process_Step(id) => HandleInv' /\ NoNewHolders
<1> SUFFICES ASSUME NEW id \in ManagedIDs, TypeOK, ExecutionInv, HandleInv, Process_Next(id), UNCHANGED managerVars
             PROVE  HandleInv' /\ NoNewHolders
  BY DEF Process_Step
<1>0. /\ mailbox \in [EProcessID -> Seq(Message)] /\ tbbQueue \in [ManagedIDs -> Nat] /\ control_frames \in Seq(Message)
      /\ pc \in [ManagedIDs -> {"idle", "flush", "system"}] /\ processState \in [ManagedIDs -> EProcessState]
      /\ Mailboxes \in [ManagedIDs -> SUBSET EProcessID] /\ ShutdownMailboxes \in [ManagedIDs -> SUBSET EProcessID]
      /\ threads \in [ManagedIDs -> {"none", "running", "exited"}]
      /\ ManagerFrame \in [ManagedIDs -> Seq(Message)] /\ NextID \in Int
  BY DEF TypeOK, SharedTypeOK, ManagerTypeOK, ProcessTypeOK
<1> USE IDs, EmptySaysNothing, ContentsFew
<1>1. UNCHANGED <<State, NextID, ProcessRecords, PendingShutdownIDs, FramesToSend, PersistentGetRequests, control_frames>>
  BY DEF managerVars
<1>2. \A p : /\ Closed(p)' <=> Closed(p)
             /\ Gone(p)' <=> Gone(p)
             /\ Closing(p)' <=> Closing(p)
             /\ Has_Record(p)' <=> Has_Record(p)
             /\ Alive(p)' <=> Alive(p)
  BY <1>1 DEF Closed, Gone, Closing, Has_Record, Alive
<1> DEFINE Others_Same ==
             \A j \in ManagedIDs \ {id} :
               /\ tbbQueue'[j] = tbbQueue[j] /\ threads'[j] = threads[j] /\ pc'[j] = pc[j]
               /\ processState'[j] = processState[j] /\ Mailboxes'[j] = Mailboxes[j]
               /\ ShutdownMailboxes'[j] = ShutdownMailboxes[j] /\ ManagerFrame'[j] = ManagerFrame[j]
           Users == \A j \in ProcessIDs : \A m \in Contents(mailbox'[j]) : m.type = "User" \/ m \in Contents(mailbox[j])
           Mine  == id \in ProcessIDs => Own(id) /\ Told(id) /\ \A p \in ProcessIDs : Release(id, p)
           MyNew == id \in ProcessIDs => Own(id)' /\ Told(id)' /\ \A p \in ProcessIDs : Release(id, p)'
<1>3. State = "RUNNING" => ServiceInv /\ Mine
  BY DEF HandleInv, RunningInv
<1>4. CASE Run(id) /\ ~Is_Shutting_Down(id)
  BY <1>4, MessagesKeepHandles
<1>5. CASE Run(id) /\ Is_Shutting_Down(id)
  <2>1. Begin(id) /\ pc' = [pc EXCEPT ![id] = "system"]
        /\ UNCHANGED <<mailbox, processState, Mailboxes, ShutdownMailboxes, ManagerFrame, threads, resetting>>
    BY <1>5 DEF Run
  <2>2. pc[id] = "idle" /\ pc'[id] = "system" /\ (State = "RUNNING" => id < NextID)
    BY <1>0, <2>1, ActorsExist, BeginsIdle DEF Begin
  <2>3. Others_Same
    BY <1>0, <2>1 DEF Begin
  <2>4. ToHandle' = ToHandle
    BY <1>1, <2>1 DEF ToHandle
  <2>5. State = "RUNNING" => ServiceInv'
    BY <1>1, <1>3, <2>1, <2>4 DEF ServiceInv, Alive
  <2>6. ASSUME State = "RUNNING" PROVE MyNew
    <3> SUFFICES ASSUME id \in ProcessIDs PROVE Own(id)' /\ Told(id)' /\ \A p \in ProcessIDs : Release(id, p)'
      OBVIOUS
    <3>1. Own(id)'
      BY <1>1, <1>3, <2>1, <2>6 DEF Own
    <3>2. Told(id)'
      BY <1>1, <1>2, <1>3, <2>1, <2>2, <2>4, <2>6 DEF Told, Is_Shutting_Down
    <3>3. \A p \in ProcessIDs : Release(id, p)'
      BY <1>1, <1>2, <1>3, <2>1, <2>4, <2>6 DEF Release, Releasing
    <3> QED BY <3>1, <3>2, <3>3
  <2>7. (\A p \in ProcessIDs : Holds(id, p)' => Holds(id, p)) /\ (Softly(id)' => Softly(id))
    BY <1>1, <1>2, <2>1 DEF Holds, Softly
  <2>8. Users
    BY <2>1
  <2> QED BY <1>0, <2>1, <2>2, <2>3, <2>4, <2>5, <2>6, <2>7, <2>8, StepKeepsHandles
<1>6. CASE \E dest \in ProcessIDs : Flush_Regular_Message(id, dest)
  <2> PICK dest \in ProcessIDs : Flush_Regular_Message(id, dest)
    BY <1>6
  <2>0. pc[id] = "flush" /\ UNCHANGED <<tbbQueue, threads, processState, pc, Mailboxes, ShutdownMailboxes, ManagerFrame, resetting>>
    BY DEF Flush_Regular_Message
  <2>1. (State = "RUNNING" => id < NextID)
    BY <2>0, ActorsExist
  <2> DEFINE frame == [i \in 1 .. PendingOutboundFrames[id][dest] |-> UserMessage(id)]
  <2>2. frame \in Seq(Message) /\ \A m \in Contents(frame) : m.type = "User"
    <3>1. PendingOutboundFrames[id][dest] \in Nat
      BY DEF TypeOK, ProcessTypeOK
    <3>2. UserMessage(id) \in Message /\ UserMessage(id).type = "User"
      BY Constructors DEF UserMessage, About
    <3> QED BY <3>1, <3>2, IsASeq DEF Contents
  <2>3. mailbox' = [mailbox EXCEPT ![dest] = @ \o frame]
    BY DEF Flush_Regular_Message, Add_Frame
  <2> HIDE DEF frame
  <2>4. Users
    <3>1. Contents(mailbox'[dest]) = Contents(mailbox[dest]) \cup Contents(frame)
      BY <1>0, <2>2, <2>3, ContentsConcat
    <3>2. \A j \in ProcessIDs : j # dest => mailbox'[j] = mailbox[j]
      BY <1>0, <2>3
    <3> QED BY <2>2, <3>1, <3>2
  <2>5. ToHandle' = ToHandle
    <3>1. mailbox'[CONCURRENCY_MANAGER] = mailbox[CONCURRENCY_MANAGER]
      BY <1>0, <2>3
    <3> QED BY <1>1, <3>1 DEF ToHandle
  <2>6. State = "RUNNING" => ServiceInv'
    BY <1>1, <1>3, <2>0, <2>5 DEF ServiceInv, Alive
  <2>7. id \in ProcessIDs => \A p, q : /\ Hands(mailbox'[id], p) => Hands(mailbox[id], p)
                                       /\ Wants(mailbox'[id], p) => Wants(mailbox[id], p)
                                       /\ Tells(mailbox'[id]) => Tells(mailbox[id])
                                       /\ TellsSoftly(mailbox'[id]) => TellsSoftly(mailbox[id])
    BY <2>4, UsersSayNothing DEF NoMore
  <2>8. ASSUME State = "RUNNING" PROVE MyNew
    <3> SUFFICES ASSUME id \in ProcessIDs PROVE Own(id)' /\ Told(id)' /\ \A p \in ProcessIDs : Release(id, p)'
      OBVIOUS
    <3>1. Own(id)'
      BY <1>1, <1>3, <2>0, <2>7, <2>8 DEF Own
    <3>2. Told(id)'
      BY <1>1, <1>2, <1>3, <2>0, <2>5, <2>7, <2>8 DEF Told, Is_Shutting_Down
    <3>3. \A p \in ProcessIDs : Release(id, p)'
      <4> SUFFICES ASSUME NEW p \in ProcessIDs PROVE Release(id, p)'
        OBVIOUS
      <4>1. Release(id, p)
        BY <1>3, <2>8
      <4>2. Releasing(id, p)' => Releasing(id, p)
        BY <1>1, <2>0, <2>5, <2>7 DEF Releasing
      <4> QED BY <1>1, <1>2, <2>0, <2>5, <2>7, <4>1, <4>2 DEF Release
    <3> QED BY <3>1, <3>2, <3>3
  <2>9. id \in ProcessIDs => (\A p \in ProcessIDs : Holds(id, p)' => Holds(id, p)) /\ (Softly(id)' => Softly(id))
    BY <1>1, <1>2, <2>0, <2>7 DEF Holds, Softly
  <2> QED BY <1>0, <2>0, <2>1, <2>4, <2>5, <2>6, <2>8, <2>9, StepKeepsHandles
<1>7. CASE Handle_Shutdown_Mailboxes(id)
  <2>0. pc[id] = "flush" /\ UNCHANGED <<mailbox, tbbQueue, threads, processState, resetting>>
    BY <1>7 DEF Handle_Shutdown_Mailboxes, sharedVars
  <2>1. State = "RUNNING" => id < NextID
    BY <2>0, ActorsExist
  <2>2. /\ Mailboxes'[id] = IF Is_Shutting_Down(id) THEN {} ELSE Mailboxes[id] \ ShutdownMailboxes[id]
        /\ ShutdownMailboxes'[id] = {} /\ pc'[id] = "system"
        /\ ManagerFrame'[id] = IF ShutdownMailboxes[id] = {} THEN ManagerFrame[id]
                               ELSE Append(ManagerFrame[id], CReleaseMailboxResponse(id, ShutdownMailboxes[id]))
    BY <1>0, <1>7 DEF Handle_Shutdown_Mailboxes
  <2>3. Others_Same
    BY <1>0, <1>7, <2>0 DEF Handle_Shutdown_Mailboxes
  <2>4. ToHandle' = ToHandle
    BY <1>1, <2>0 DEF ToHandle
  <2> DEFINE response == CReleaseMailboxResponse(id, ShutdownMailboxes[id])
  <2>5. Contents(ManagerFrame'[id]) \subseteq Contents(ManagerFrame[id]) \cup Contents(<<response>>)
    <3>1. response \in Message
      BY Constructors DEF TypeOK, ProcessTypeOK
    <3> HIDE DEF response
    <3>2. Contents(Append(ManagerFrame[id], response)) = Contents(ManagerFrame[id]) \cup {response}
      BY <1>0, <3>1, ContentsAppend
    <3> QED BY <2>2, <3>2 DEF response
  <2>6. \A q, p : ~Ends(<<response>>, q) /\ (Gives(<<response>>, q, p) => p \in ShutdownMailboxes[id])
    BY DEF Ends, Gives, CReleaseMailboxResponse
  <2>7. response.type = "ReleaseMailboxResponse"
    BY DEF CReleaseMailboxResponse
  <2> HIDE DEF response
  <2>8. \A q, p : /\ Ends(ManagerFrame'[id], q) => Ends(ManagerFrame[id], q)
                  /\ Gives(ManagerFrame'[id], q, p) => Gives(ManagerFrame[id], q, p) \/ p \in ShutdownMailboxes[id]
    BY <2>5, <2>6, SaysNoMore DEF NoMore
  <2>9. ASSUME State = "RUNNING" PROVE ServiceInv'
    <3>1. \A j \in ManagedIDs : \A m \in Contents(ManagerFrame'[j]) : m.type = "ShutdownProcess" => m.id \in ProcessIDs
      <4> SUFFICES ASSUME NEW j \in ManagedIDs, NEW m \in Contents(ManagerFrame'[j]), m.type = "ShutdownProcess"
                   PROVE  m.id \in ProcessIDs
        OBVIOUS
      <4>1. j = id => m \in Contents(ManagerFrame[id]) \cup {response}
        BY <2>5
      <4>2. j # id => m \in Contents(ManagerFrame[j])
        BY <2>3
      <4> QED BY <1>3, <2>7, <2>9, <4>1, <4>2 DEF ServiceInv
    <3> QED BY <1>1, <1>3, <2>4, <2>9, <3>1 DEF ServiceInv, Alive
  <2>10. ASSUME State = "RUNNING" PROVE MyNew
    <3> SUFFICES ASSUME id \in ProcessIDs PROVE Own(id)' /\ Told(id)' /\ \A p \in ProcessIDs : Release(id, p)'
      OBVIOUS
    <3>1. Own(id)'
      BY <1>1, <1>3, <2>0, <2>2, <2>10 DEF Own
    <3>2. Told(id)'
      BY <1>1, <1>2, <1>3, <2>0, <2>2, <2>4, <2>8, <2>10 DEF Told, Is_Shutting_Down
    <3>3. \A p \in ProcessIDs : Release(id, p)'
      <4> SUFFICES ASSUME NEW p \in ProcessIDs PROVE Release(id, p)'
        OBVIOUS
      <4>1. Release(id, p)
        BY <1>3, <2>10
      <4>2. Releasing(id, p)' => Releasing(id, p)
        BY <1>1, <2>0, <2>2, <2>4, <2>8 DEF Releasing
      <4> QED BY <1>1, <1>2, <2>0, <2>2, <2>4, <2>8, <4>1, <4>2 DEF Release
    <3> QED BY <3>1, <3>2, <3>3
  <2>11. (\A p \in ProcessIDs : Holds(id, p)' => Holds(id, p)) /\ (Softly(id)' => Softly(id))
    BY <1>1, <1>2, <2>0, <2>2 DEF Holds, Softly
  <2> QED BY <1>0, <2>0, <2>1, <2>3, <2>4, <2>9, <2>10, <2>11, StepKeepsHandles
<1>8. CASE Flush_System_Messages(id)
  <2>0. pc[id] = "system" /\ UNCHANGED <<tbbQueue, processState, Mailboxes, ShutdownMailboxes>>
          /\ pc' = [pc EXCEPT ![id] = "idle"]
        /\ resetting' \subseteq resetting \cup {id}
    BY <1>8 DEF Flush_System_Messages
  <2>1. State = "RUNNING" => id < NextID
    BY <2>0, ActorsExist
  <2>2. \/ /\ mailbox' = [mailbox EXCEPT ![CONCURRENCY_MANAGER] = @ \o ManagerFrame[id]]
           /\ ManagerFrame' = [ManagerFrame EXCEPT ![id] = <<>>]
        \/ UNCHANGED <<mailbox, ManagerFrame>>
    BY <1>8 DEF Flush_System_Messages, Add_Frame
  <2>3. Others_Same
    BY <1>0, <1>8, <2>0, <2>2 DEF Flush_System_Messages
  <2>4. Users /\ \A j \in ProcessIDs : mailbox'[j] = mailbox[j]
    <3>1. \A j \in ProcessIDs : j # CONCURRENCY_MANAGER
      BY <1>0
    <3>2. \A j \in ProcessIDs : mailbox'[j] = mailbox[j]
      BY <1>0, <2>2, <3>1
    <3> QED BY <1>0, <3>2
  <2>5. /\ Contents(ManagerFrame'[id]) \subseteq Contents(ManagerFrame[id])
        /\ Contents(ToHandle') \subseteq Contents(ToHandle) \cup Contents(ManagerFrame[id])
    <3>1. CASE mailbox' = [mailbox EXCEPT ![CONCURRENCY_MANAGER] = @ \o ManagerFrame[id]]
                 /\ ManagerFrame' = [ManagerFrame EXCEPT ![id] = <<>>]
      <4> DEFINE old == mailbox[CONCURRENCY_MANAGER]  frame == ManagerFrame[id]
      <4>1. old \in Seq(Message) /\ frame \in Seq(Message) /\ mailbox'[CONCURRENCY_MANAGER] = old \o frame
            /\ ManagerFrame'[id] = <<>>
        BY <1>0, <3>1
      <4>2. ToHandle = control_frames \o old /\ ToHandle' = control_frames \o (old \o frame)
        BY <1>1, <4>1 DEF ToHandle
      <4> HIDE DEF old, frame
      <4>3. Contents(ToHandle) = Contents(control_frames) \cup Contents(old)
        BY <1>0, <4>1, <4>2, ContentsConcat
      <4>4. old \o frame \in Seq(Message) /\ Contents(old \o frame) = Contents(old) \cup Contents(frame)
        BY <4>1, ContentsConcat
      <4>5. Contents(ToHandle') = Contents(control_frames) \cup Contents(old \o frame)
        BY <1>0, <4>2, <4>4, ContentsConcat
      <4> QED BY <4>1, <4>3, <4>4, <4>5 DEF frame
    <3>2. CASE UNCHANGED <<mailbox, ManagerFrame>>
      BY <1>1, <3>2 DEF ToHandle
    <3> QED BY <2>2, <3>1, <3>2
  <2>6. \A m \in Contents(ManagerFrame[id]) : m.source = id
    BY DEF ExecutionInv
  <2>7. \A q, p : /\ Gives(ToHandle', q, p) => Gives(ToHandle, q, p) \/ Gives(ManagerFrame[id], q, p)
                  /\ Ends(ToHandle', q) => Ends(ToHandle, q) \/ Ends(ManagerFrame[id], q)
                  /\ Gives(ManagerFrame'[id], q, p) => Gives(ManagerFrame[id], q, p)
                  /\ Ends(ManagerFrame'[id], q) => Ends(ManagerFrame[id], q)
    <3>1. NoMore(ToHandle', ToHandle, ManagerFrame[id])
      BY <2>5, SaysNoMore
    <3>2. NoMore(ManagerFrame'[id], ManagerFrame[id], ManagerFrame[id])
      BY <2>5, SaysNoMore
    <3> QED BY <3>1, <3>2 DEF NoMore
  <2>8. \A q, p : q # id => ~Gives(ManagerFrame[id], q, p) /\ ~Ends(ManagerFrame[id], q)
    BY <2>6 DEF Gives, Ends
  <2>9. ASSUME State = "RUNNING" PROVE ServiceInv'
    <3>1. ServiceInv /\ id < NextID
      BY <1>3, <2>1, <2>9
    <3>2. \A j \in ManagedIDs : Contents(ManagerFrame'[j]) \subseteq Contents(ManagerFrame[j])
      BY <2>3, <2>5
    <3>3. \A j \in ManagedIDs : \A m \in Contents(ManagerFrame'[j]) : m.type = "ShutdownProcess" => m.id \in ProcessIDs
      BY <3>1, <3>2 DEF ServiceInv
    <3>4. \A m \in Contents(ToHandle') : /\ m.source \in ManagedIDs /\ m.source < NextID
                                         /\ m.type = "ShutdownProcess" => m.id \in ProcessIDs
      <4> SUFFICES ASSUME NEW m \in Contents(ToHandle')
                   PROVE  /\ m.source \in ManagedIDs /\ m.source < NextID
                          /\ m.type = "ShutdownProcess" => m.id \in ProcessIDs
        OBVIOUS
      <4>1. CASE m \in Contents(ToHandle)
        BY <3>1, <4>1 DEF ServiceInv
      <4>2. CASE m \in Contents(ManagerFrame[id])
        BY <2>6, <3>1, <4>2 DEF ServiceInv
      <4> QED BY <2>5, <4>1, <4>2
    <3> QED BY <1>1, <3>1, <3>3, <3>4 DEF ServiceInv, Alive
  <2>10. ASSUME State = "RUNNING" PROVE MyNew
    <3> SUFFICES ASSUME id \in ProcessIDs PROVE Own(id)' /\ Told(id)' /\ \A p \in ProcessIDs : Release(id, p)'
      OBVIOUS
    <3>0. pc'[id] = "idle"
      BY <1>0, <2>0
    <3>1. Own(id)'
      BY <1>1, <1>3, <2>0, <2>4, <2>10 DEF Own
    <3>2. Told(id)'
      BY <1>1, <1>2, <1>3, <2>0, <2>4, <2>7, <2>10, <3>0 DEF Told, Is_Shutting_Down
    <3>3. \A p \in ProcessIDs : Release(id, p)'
      <4> SUFFICES ASSUME NEW p \in ProcessIDs PROVE Release(id, p)'
        OBVIOUS
      <4>1. Release(id, p)
        BY <1>3, <2>10
      <4>2. Releasing(id, p)' => Releasing(id, p)
        BY <1>1, <2>0, <2>4, <2>7 DEF Releasing
      <4> QED BY <1>1, <1>2, <2>0, <2>4, <2>7, <4>1, <4>2 DEF Release
    <3> QED BY <3>1, <3>2, <3>3
  <2>11. id \in ProcessIDs => (\A p \in ProcessIDs : Holds(id, p)' => Holds(id, p)) /\ (Softly(id)' => Softly(id))
    BY <1>1, <1>2, <2>0, <2>4 DEF Holds, Softly
  <2> QED BY <1>0, <2>0, <2>1, <2>3, <2>4, <2>7, <2>8, <2>9, <2>10, <2>11, StepKeepsHandles
<1>9. CASE Reset_Manager_Frame(id)
  <2>0. /\ id \in resetting /\ resetting' \subseteq resetting /\ ManagerFrame' = [ManagerFrame EXCEPT ![id] = <<>>]
        /\ UNCHANGED <<mailbox, tbbQueue, threads, processState, pc, Mailboxes, ShutdownMailboxes>>
    BY <1>9 DEF Reset_Manager_Frame, sharedVars
  <2>1. State = "RUNNING" => id < NextID
    BY <2>0, ActorsExist
  <2>2. Others_Same /\ ManagerFrame'[id] = <<>>
    BY <1>0, <2>0
  <2>3. ToHandle' = ToHandle /\ Users
    BY <1>1, <2>0 DEF ToHandle
  <2>4. State = "RUNNING" => ServiceInv'
    BY <1>1, <1>3, <2>2, <2>3 DEF ServiceInv, Alive
  <2>5. ASSUME State = "RUNNING" PROVE MyNew
    <3> SUFFICES ASSUME id \in ProcessIDs PROVE Own(id)' /\ Told(id)' /\ \A p \in ProcessIDs : Release(id, p)'
      OBVIOUS
    <3>1. Own(id)'
      BY <1>1, <1>3, <2>0, <2>5 DEF Own
    <3>2. Told(id)'
      BY <1>1, <1>2, <1>3, <2>0, <2>2, <2>3, <2>5 DEF Told, Is_Shutting_Down
    <3>3. \A p \in ProcessIDs : Release(id, p)'
      <4> SUFFICES ASSUME NEW p \in ProcessIDs PROVE Release(id, p)'
        OBVIOUS
      <4>1. Release(id, p)
        BY <1>3, <2>5
      <4>2. Releasing(id, p)' => Releasing(id, p)
        BY <1>1, <2>0, <2>2, <2>3 DEF Releasing
      <4> QED BY <1>1, <1>2, <2>0, <2>2, <2>3, <4>1, <4>2 DEF Release
    <3> QED BY <3>1, <3>2, <3>3
  <2>6. (\A p \in ProcessIDs : Holds(id, p)' => Holds(id, p)) /\ (Softly(id)' => Softly(id))
    BY <1>1, <1>2, <2>0 DEF Holds, Softly
  <2> QED BY <1>0, <2>0, <2>1, <2>2, <2>3, <2>4, <2>5, <2>6, StepKeepsHandles
<1>10. CASE Leave_Loop(id)
  <2>0. /\ threads[id] = "running" /\ threads' = [threads EXCEPT ![id] = "exited"]
        /\ UNCHANGED <<mailbox, tbbQueue, processState, pc, Mailboxes, ShutdownMailboxes, ManagerFrame, resetting>>
    BY <1>10 DEF Leave_Loop, processVars
  <2>1. State = "RUNNING" => id < NextID
    BY <2>0, ActorsExist
  <2>2. Others_Same
    BY <1>0, <2>0
  <2>3. ToHandle' = ToHandle /\ Users
    BY <1>1, <2>0 DEF ToHandle
  <2>4. State = "RUNNING" => ServiceInv'
    BY <1>1, <1>3, <2>0, <2>3 DEF ServiceInv, Alive
  <2>5. ASSUME State = "RUNNING" PROVE MyNew
    <3> SUFFICES ASSUME id \in ProcessIDs PROVE Own(id)' /\ Told(id)' /\ \A p \in ProcessIDs : Release(id, p)'
      OBVIOUS
    <3>1. Own(id)'
      BY <1>1, <1>3, <2>0, <2>5 DEF Own
    <3>2. Told(id)'
      BY <1>1, <1>2, <1>3, <2>0, <2>3, <2>5 DEF Told, Is_Shutting_Down
    <3>3. \A p \in ProcessIDs : Release(id, p)'
      <4> SUFFICES ASSUME NEW p \in ProcessIDs PROVE Release(id, p)'
        OBVIOUS
      <4>1. Release(id, p)
        BY <1>3, <2>5
      <4>2. Releasing(id, p)' => Releasing(id, p)
        BY <1>1, <2>0, <2>3 DEF Releasing
      <4> QED BY <1>1, <1>2, <2>0, <2>3, <4>1, <4>2 DEF Release
    <3> QED BY <3>1, <3>2, <3>3
  <2>6. (\A p \in ProcessIDs : Holds(id, p)' => Holds(id, p)) /\ (Softly(id)' => Softly(id))
    BY <1>1, <1>2, <2>0 DEF Holds, Softly
  <2> QED BY <1>0, <2>0, <2>1, <2>2, <2>3, <2>4, <2>5, <2>6, StepKeepsHandles
<1> QED BY <1>4, <1>5, <1>6, <1>7, <1>8, <1>9, <1>10 DEF Process_Next

-----------------------------------------------------------------------------
(* Steps of the manager.                                                 *)

(* A step of the manager, as long as it runs, in which it sends sent[q] to *)
(* q: it hands over only the mailboxes of processes that run, to others    *)
(* that run, has a mailbox released only when its owner no longer runs,    *)
(* and tells to shut down, and removes, only whom no one holds.            *)
SendsTo(q, sent) == mailbox'[q] = mailbox[q] /\ NoMore(FramesToSend'[q], FramesToSend[q], sent)

(* What is sent to q about p is in order.                                *)
SendsFairly(q, p, sent) ==
  /\ Hands(sent, p) => ~Leaving(p) /\ ~Softly(p) /\ Alive(p)' /\ ~Is_Process_Shutting_Down(q)' /\ p # q
  /\ Wants(sent, p) => Closing(p)'
  /\ Tells(sent) => Closed(q)'

(* Who holds a handle to p is waited for, and p is not told to shut down. *)
WaitsFor(q, p) ==
  Holds(q, p) => Has_Record(p)' /\ (Closing(p)' => q \in PendingShutdownIDs'[p]) /\ ~Closed(p)'

(* The shutdown of p only advances, and the record of p goes once p has shut *)
(* down.                                                                     *)
Proceeds(p) ==
  /\ Leaving(p) => Leaving(p)'
  /\ Closed(p) \/ Gone(p) => Closed(p)' \/ Gone(p)'
  /\ Gone(p)' => Is_Shutting_Down(p) /\ pc[p] # "flush"
  /\ Has_Record(p)' => Has_Record(p) \/ FramesToSend[p] = <<>>
  /\ Softly(p) => ~Alive(p)' /\ p < NextID'
  /\ Closed(p)' => p < NextID'

(* An id that is still not given out stays as it was.                    *)
StaysUnborn(q) ==
  q >= NextID' => /\ q >= NextID /\ ~Has_Record(q)' /\ ExecuteTask'[q] = "none"
                  /\ tbbQueue'[q] = tbbQueue[q] /\ threads'[q] = threads[q] /\ FramesToSend'[q] = FramesToSend[q]

(* A step of the manager in which all of this is so keeps the invariant. *)
LEMMA ManagerKeepsHandles ==
  ASSUME HandleInv, State = "RUNNING", State' = "RUNNING", UNCHANGED processVars, ServiceInv',
         Contents(ToHandle') \subseteq Contents(ToHandle), NEW sent,
         \A q \in ProcessIDs : SendsTo(q, sent[q]),
         \A q, p \in ProcessIDs : SendsFairly(q, p, sent[q]),
         \A q, p \in ProcessIDs : WaitsFor(q, p),
         \A p \in ProcessIDs : Proceeds(p),
         \A q \in ProcessIDs : StaysUnborn(q)
  PROVE  HandleInv' /\ Grants
<1>0. \A q \in ProcessIDs : \A p : Has_Record(q)' /\ Hands(FramesToSend[q], p) => Has_Record(q)
  <2>1. \A q \in ProcessIDs : Has_Record(q)' => Has_Record(q) \/ FramesToSend[q] = <<>>
    BY DEF Proceeds
  <2> QED BY <2>1, EmptySaysNothing
<1> USE DEF processVars, SendsTo, SendsFairly, WaitsFor, Proceeds, StaysUnborn
<1>1. RunningInv
  BY DEF HandleInv
<1>2. \A q, p \in ProcessIDs : /\ Hands(FramesToSend'[q], p) => Hands(FramesToSend[q], p) \/ Hands(sent[q], p)
                               /\ Wants(FramesToSend'[q], p) => Wants(FramesToSend[q], p) \/ Wants(sent[q], p)
                               /\ Tells(FramesToSend'[q]) => Tells(FramesToSend[q]) \/ Tells(sent[q])
                               /\ TellsSoftly(FramesToSend'[q]) => TellsSoftly(FramesToSend[q]) \/ Tells(sent[q])
  BY SoftlyTells DEF NoMore
<1>3. \A q, p : /\ Gives(ToHandle', q, p) => Gives(ToHandle, q, p)
                /\ Ends(ToHandle', q) => Ends(ToHandle, q)
  <2>1. NoMore(ToHandle', ToHandle, ToHandle)
    BY SaysNoMore
  <2> QED BY <2>1 DEF NoMore
<1>4. \A q \in ProcessIDs : mailbox'[q] = mailbox[q] /\ (Is_Shutting_Down(q)' <=> Is_Shutting_Down(q))
  BY DEF Is_Shutting_Down
<1>5. \A p : /\ Alive(p)' => ~Closed(p)' /\ ~Closing(p)'
             /\ Closed(p)' => ~Alive(p)' /\ Is_Process_Shutting_Down(p)'
             /\ Alive(p)' => Has_Record(p)'
             /\ Gone(p)' => ~Has_Record(p)'
  BY DEF Alive, Closed, Closing, Has_Record, Is_Process_Shutting_Down, Gone
<1>6. \A p : /\ Closed(p) \/ Gone(p) => Leaving(p)
             /\ Closed(p)' \/ Gone(p)' => Leaving(p)'
  BY DEF Leaving
<1>7. ASSUME NEW q \in ProcessIDs, NEW p \in ProcessIDs PROVE Holds(q, p)' => Holds(q, p) \/ Hands(sent[q], p)
  BY <1>0, <1>2, <1>4 DEF Holds
<1>8. \A p \in ProcessIDs : Softly(p)' => Softly(p) \/ Closed(p)'
  BY <1>2, <1>4 DEF Softly
<1>9. \A p \in ProcessIDs : Soft(p)'
  <2> SUFFICES ASSUME NEW p \in ProcessIDs PROVE Soft(p)'
    OBVIOUS
  <2>1. Soft(p)
    BY DEF HandleInv
  <2>2. Softly(p)' => ~Alive(p)' /\ p < NextID'
    BY <1>5, <1>8
  <2>3. ASSUME NEW q \in ProcessIDs, Holds(q, p)' PROVE ~Closed(p)' /\ ~Softly(p)'
    <3>1. CASE Hands(sent[q], p)
      BY <1>5, <1>8, <3>1
    <3>2. CASE Holds(q, p)
      BY <1>8, <2>1, <3>2 DEF Soft
    <3> QED BY <1>7, <2>3, <3>1, <3>2
  <2> QED BY <2>2, <2>3 DEF Soft
<1>10. ASSUME NEW q \in ProcessIDs, NEW p \in ProcessIDs PROVE Held(q, p)'
  BY <1>5, <1>7 DEF Held
<1>11. ASSUME NEW q \in ProcessIDs PROVE Own(q)'
  <2>1. Own(q)
    BY <1>1 DEF RunningInv
  <2> QED BY <1>2, <1>4, <2>1 DEF Own
<1>12. ASSUME NEW q \in ProcessIDs, NEW p \in ProcessIDs PROVE Release(q, p)'
  <2>1. Release(q, p)
    BY <1>1 DEF RunningInv
  <2>2. Releasing(q, p)' => Releasing(q, p) \/ Wants(sent[q], p)
    BY <1>2, <1>3, <1>4 DEF Releasing
  <2>3. Releasing(q, p) => Leaving(p)
    BY <2>1 DEF Release, Leaving
  <2>4. Leaving(p) => (Hands(FramesToSend'[q], p) => Hands(FramesToSend[q], p))
    BY <1>2
  <2>5. Releasing(q, p)' => Leaving(p)'
    BY <2>2, <2>3 DEF Leaving
  <2>6. Gives(ManagerFrame[q], q, p) \/ Gives(ToHandle, q, p) \/ Wants(mailbox[q], p) \/ p \in ShutdownMailboxes[q]
          => Leaving(p)
    BY <2>3 DEF Releasing
  <2> QED BY <1>3, <1>4, <2>1, <2>4, <2>5, <2>6 DEF Release, Leaving
<1>13. ASSUME NEW q \in ProcessIDs PROVE Told(q)'
  <2>1. Told(q)
    BY <1>1 DEF RunningInv
  <2>2. Tells(mailbox'[q]) \/ Tells(FramesToSend'[q]) \/ Is_Shutting_Down(q)' => Closed(q)' \/ Gone(q)'
    BY <1>2, <1>4, <2>1 DEF Told
  <2>3. ASSUME Tells(mailbox[q]) \/ Is_Shutting_Down(q), Has_Record(q)', NEW p \in ProcessIDs
        PROVE  ~Hands(FramesToSend'[q], p)
    <3>1. Is_Process_Shutting_Down(q)'
      BY <1>4, <1>5, <2>2, <2>3
    <3>2. ~Hands(FramesToSend[q], p)
      <4>1. Hands(FramesToSend[q], p) => Has_Record(q)
        BY <1>0, <2>3
      <4>2. Has_Record(q) => ~Hands(FramesToSend[q], p)
        BY <2>1, <2>3 DEF Told
      <4> QED BY <4>1, <4>2
    <3> QED BY <1>2, <3>1, <3>2
  <2>4. Ends(ToHandle', q) \/ Gone(q)' => Is_Shutting_Down(q) /\ pc[q] # "flush"
    BY <1>3, <2>1 DEF Told
  <2> QED BY <1>4, <2>1, <2>2, <2>3, <2>4 DEF Told
<1>14. ASSUME NEW q \in ProcessIDs, q >= NextID' PROVE Unborn(q)'
  <2>1. q >= NextID /\ Unborn(q)
    BY <1>1, <1>14 DEF RunningInv
  <2> QED BY <1>4, <1>14, <2>1 DEF Unborn
<1>15. Grants
  BY <1>7 DEF Grants
<1> QED BY <1>9, <1>10, <1>11, <1>12, <1>13, <1>14, <1>15 DEF HandleInv, RunningInv

(* When the whole program ends it is enough that no one is given a handle *)
(* or softly told to shut down.                                           *)
LEMMA EndKeepsHandles ==
  ASSUME HandleInv, State' # "RUNNING", UNCHANGED <<processVars, NextID>>,
         \A q, p \in ProcessIDs : Holds(q, p)' => Holds(q, p),
         \A p \in ProcessIDs : /\ Softly(p)' => Softly(p)
                               /\ Closed(p)' => Closed(p)
                               /\ Alive(p)' => Alive(p)
  PROVE  HandleInv' /\ Grants
BY DEF HandleInv, Soft, Grants

(* What is sent.                                                         *)
LEMMA SentToSome ==
  ASSUME TypeOK, NEW ids, NEW m \in Message, FramesToSend' = Send_Process_Message(ids, m)
  PROVE  \A q \in EProcessID : /\ NoMore(FramesToSend'[q], FramesToSend[q], IF q \in ids THEN <<m>> ELSE <<>>)
                               /\ q \notin ids => FramesToSend'[q] = FramesToSend[q]
<1> SUFFICES ASSUME NEW q \in EProcessID
             PROVE  /\ NoMore(FramesToSend'[q], FramesToSend[q], IF q \in ids THEN <<m>> ELSE <<>>)
                    /\ q \notin ids => FramesToSend'[q] = FramesToSend[q]
  OBVIOUS
<1>1. FramesToSend[q] \in Seq(Message)
  BY DEF TypeOK, ManagerTypeOK
<1>2. FramesToSend'[q] = IF q \in ids THEN Append(FramesToSend[q], m) ELSE FramesToSend[q]
  BY DEF Send_Process_Message
<1>3. Contents(Append(FramesToSend[q], m)) = Contents(FramesToSend[q]) \cup Contents(<<m>>)
  BY <1>1, ContentsAppend, ContentsFew
<1> QED BY <1>2, <1>3, ContentsFew, SaysNoMore

(* What the invariant and the types say of what the manager handles.     *)
LEMMA Handles_Message ==
  ASSUME TypeOK, phase = "handle", control_frames # <<>>, control_frames' = Tail(control_frames), UNCHANGED mailbox
  PROVE  /\ message \in Message /\ message \in Contents(ToHandle)
         /\ Contents(ToHandle') \subseteq Contents(ToHandle)
<1> DEFINE rest == mailbox[CONCURRENCY_MANAGER]
<1>1. control_frames \in Seq(Message) /\ rest \in Seq(Message)
  BY IDs DEF TypeOK, ManagerTypeOK, SharedTypeOK
<1>2. /\ message \in Contents(control_frames) /\ message \in Message
      /\ Contents(Tail(control_frames)) \subseteq Contents(control_frames) /\ Tail(control_frames) \in Seq(Message)
  BY <1>1, ContentsTail, HeadType DEF message
<1>3. ToHandle = control_frames \o rest /\ ToHandle' = Tail(control_frames) \o rest
  BY DEF ToHandle
<1> HIDE DEF rest
<1>4. /\ Contents(ToHandle) = Contents(control_frames) \cup Contents(rest)
      /\ Contents(ToHandle') = Contents(Tail(control_frames)) \cup Contents(rest)
  BY <1>1, <1>2, <1>3, ContentsConcat
<1> QED BY <1>2, <1>4

(* The common part of the handlers.                                      *)
LEMMA HandlerFrame ==
  ASSUME Handle_Message
  PROVE  /\ phase = "handle" /\ control_frames # <<>> /\ control_frames' = Tail(control_frames)
         /\ UNCHANGED <<phase, mailbox, tbbQueue, threads, failure>>
BY DEF Handle_Message, Handle_Get_Mailbox_By_ID_Request, Handle_Get_Mailbox_By_Properties_Request,
       Handle_Add_New_Process_Message, Handle_Shutdown_Process_Message, Handle_Reschedule_Process_Message,
       Handle_Release_Mailbox_Response, Handle_Shutdown_Self_Response, Handle_Shutdown_Manager_Message,
       Handling

(* Only ids that have been given out have records.                       *)
LEMMA RecordsExist ==
  ASSUME TypeOK, HandleInv, State = "RUNNING", NEW p \in ProcessIDs, Has_Record(p)
  PROVE  p < NextID
<1>1. ~(p >= NextID)
  BY DEF HandleInv, RunningInv, Unborn
<1>2. NextID \in Int
  BY DEF TypeOK, ManagerTypeOK
<1>3. p \in Int
  BY DEF ProcessIDs
<1> QED BY <1>1, <1>2, <1>3

(* A step of the manager that changes neither the records nor the handles, *)
(* whether the program ends or not.                                        *)
LEMMA QuietKeepsHandles ==
  ASSUME TypeOK, HandleInv, UNCHANGED processVars, UNCHANGED <<NextID, PendingShutdownIDs, State>>,
         \A request \in PersistentGetRequests' :
           request \in PersistentGetRequests \/ (request[1] \in ManagedIDs /\ request[1] < NextID),
         \A q \in ProcessIDs : mailbox'[q] = mailbox[q],
         \A q \in EProcessID : /\ FramesToSend'[q] = FramesToSend[q]
                               /\ Has_Record(q)' <=> Has_Record(q)
                               /\ Alive(q)' <=> Alive(q)
                               /\ Closing(q)' <=> Closing(q)
                               /\ Closed(q)' <=> Closed(q),
         Contents(ToHandle') \subseteq Contents(ToHandle),
         \A q \in ProcessIDs : Unborn(q) =>
           ExecuteTask'[q] = "none" /\ tbbQueue'[q] = tbbQueue[q] /\ threads'[q] = threads[q]
  PROVE  HandleInv' /\ Grants
<1> USE IDs
<1>1. \A p \in ProcessIDs : Gone(p)' <=> Gone(p)
  BY DEF Gone, Has_Record
<1>2. \A p \in ProcessIDs : Softly(p)' <=> Softly(p)
  BY DEF Softly, processVars
<1>3. \A q, p \in ProcessIDs : Holds(q, p)' <=> Holds(q, p)
  BY DEF Holds, processVars
<1>4. CASE State # "RUNNING"
  BY <1>2, <1>3, <1>4, EndKeepsHandles
<1>5. CASE State = "RUNNING"
  <2>1. RunningInv
    BY <1>5 DEF HandleInv
  <2>2. ServiceInv'
    BY <2>1 DEF RunningInv, ServiceInv, processVars
  <2> DEFINE sent == [q \in ProcessIDs |-> <<>>]
  <2>3. \A q \in ProcessIDs : SendsTo(q, sent[q])
    BY DEF SendsTo, NoMore
  <2>4. \A q, p \in ProcessIDs : SendsFairly(q, p, sent[q])
    BY EmptySaysNothing DEF SendsFairly
  <2> HIDE DEF sent
  <2>5. \A q \in ProcessIDs : StaysUnborn(q)
    BY <2>1 DEF RunningInv, Unborn, StaysUnborn
  <2>6. \A q, p \in ProcessIDs : WaitsFor(q, p)
    BY <2>1 DEF RunningInv, HandleInv, Held, Soft, WaitsFor
  <2>7. \A p \in ProcessIDs : Closed(p) => p < NextID
    BY <1>5, RecordsExist DEF Has_Record, Closed
  <2>8. \A p \in ProcessIDs : Proceeds(p)
    BY <1>1, <2>1, <2>7 DEF Leaving, RunningInv, Told, HandleInv, Soft, Proceeds
  <2>9. State' = "RUNNING"
    BY <1>5
  <2> QED BY <1>5, <2>2, <2>3, <2>4, <2>5, <2>6, <2>8, <2>9, ManagerKeepsHandles
<1> QED BY <1>4, <1>5

(* What a step has to show of ServiceInv.                                *)
LEMMA ServiceKept ==
  ASSUME TypeOK, ServiceInv, UNCHANGED processVars, Contents(ToHandle') \subseteq Contents(ToHandle),
         NextID' \in Int, NextID' >= NextID, Alive(CONCURRENCY_MANAGER)', Alive(LOGGING)',
         FramesToSend'[CONCURRENCY_MANAGER] = FramesToSend[CONCURRENCY_MANAGER],
         \A request \in PersistentGetRequests' :
           request \in PersistentGetRequests \/ (request[1] \in ManagedIDs /\ request[1] < NextID)
  PROVE  ServiceInv'
<1>1. NextID \in Int
  BY DEF TypeOK, ManagerTypeOK
<1>2. \A i \in ManagedIDs : i < NextID => i < NextID'
  BY <1>1, IDs
<1>3. \A m \in Contents(ToHandle') : /\ m.source \in ManagedIDs /\ m.source < NextID'
                                     /\ m.type = "ShutdownProcess" => m.id \in ProcessIDs
  BY <1>2 DEF ServiceInv
<1>4. \A request \in PersistentGetRequests' : request[1] \in ManagedIDs /\ request[1] < NextID'
  BY <1>2 DEF ServiceInv
<1> QED BY <1>3, <1>4 DEF ServiceInv, processVars

(* What the manager knows of the sender of the message it handles.       *)
LEMMA SendersExist ==
  ASSUME TypeOK, HandleInv, State = "RUNNING", message \in Contents(ToHandle)
  PROVE  /\ ServiceInv /\ RunningInv
         /\ message.source \in ManagedIDs /\ message.source < NextID
         /\ message.type = "ShutdownProcess" => message.id \in ProcessIDs
BY DEF HandleInv, RunningInv, ServiceInv

(* Who has a record and is not being shut down runs, and is neither told *)
(* to shut down nor is its mailbox to be released.                       *)
LEMMA AliveRuns ==
  ASSUME TypeOK, HandleInv, NEW p \in EProcessID, Has_Record(p), ~Is_Process_Shutting_Down(p)
  PROVE  Alive(p) /\ ~Leaving(p) /\ (p \in ProcessIDs => ~Softly(p))
<1>1. ProcessRecords[p] \in EInternalProcessState \cup {"NO_RECORD"}
  BY DEF TypeOK, ManagerTypeOK
<1>2. Alive(p) /\ ~Leaving(p)
  BY <1>1 DEF Alive, Leaving, Closing, Closed, Gone, Has_Record, Is_Process_Shutting_Down, EInternalProcessState
<1> QED BY <1>2 DEF HandleInv, Soft

(* Whoever holds keeps its claim as long as no record changes.           *)
LEMMA RecordsKept ==
  ASSUME TypeOK, HandleInv, State = "RUNNING", UNCHANGED <<ProcessRecords, NextID>>
  PROVE  /\ PendingShutdownIDs' = PendingShutdownIDs => \A q, p \in ProcessIDs : WaitsFor(q, p)
         /\ \A p \in ProcessIDs : Proceeds(p)
         /\ \A p : /\ Alive(p)' <=> Alive(p)
                   /\ Is_Process_Shutting_Down(p)' <=> Is_Process_Shutting_Down(p)
                   /\ Has_Record(p)' <=> Has_Record(p)
<1>1. \A p : /\ Alive(p)' <=> Alive(p)
             /\ Is_Process_Shutting_Down(p)' <=> Is_Process_Shutting_Down(p)
             /\ Has_Record(p)' <=> Has_Record(p)
             /\ Closing(p)' <=> Closing(p)
             /\ Closed(p)' <=> Closed(p)
             /\ Gone(p)' <=> Gone(p)
  BY DEF Alive, Is_Process_Shutting_Down, Has_Record, Closing, Closed, Gone
<1>2. RunningInv
  BY DEF HandleInv
<1>3. PendingShutdownIDs' = PendingShutdownIDs => \A q, p \in ProcessIDs : WaitsFor(q, p)
  BY <1>1, <1>2 DEF RunningInv, HandleInv, Held, Soft, WaitsFor
<1>4. \A p \in ProcessIDs : Closed(p) => p < NextID
  BY RecordsExist DEF Has_Record, Closed
<1>5. \A p \in ProcessIDs : Proceeds(p)
  BY <1>1, <1>2, <1>4 DEF Leaving, RunningInv, Told, HandleInv, Soft, Proceeds
<1> QED BY <1>1, <1>3, <1>5

(* source is handed the mailboxes of ids.                                *)
LEMMA GrantKeepsHandles ==
  ASSUME TypeOK, HandleInv, State = "RUNNING", UNCHANGED processVars, UNCHANGED <<mailbox, tbbQueue, threads>>,
         UNCHANGED <<State, NextID, ProcessRecords, PendingShutdownIDs, ExecuteTask>>,
         Contents(ToHandle') \subseteq Contents(ToHandle),
         NEW source \in ManagedIDs, source < NextID, ~Is_Process_Shutting_Down(source),
         NEW ids \in SUBSET (EProcessID \cup {INVALID}),
         \A p \in ids : Has_Record(p) /\ ~Is_Process_Shutting_Down(p) /\ p # source,
         FramesToSend' = Send_Process_Message({source}, CAddMailboxMessage(ids)),
         \A request \in PersistentGetRequests' : request \in PersistentGetRequests \/ request[1] = source
  PROVE  HandleInv' /\ Grants
<1> USE IDs
<1>1. CAddMailboxMessage(ids) \in Message
  BY Constructors
<1> DEFINE sent == [q \in ProcessIDs |-> IF q = source THEN <<CAddMailboxMessage(ids)>> ELSE <<>>]
<1>2. \A q \in EProcessID :
        /\ NoMore(FramesToSend'[q], FramesToSend[q], IF q \in {source} THEN <<CAddMailboxMessage(ids)>> ELSE <<>>)
        /\ q \notin {source} => FramesToSend'[q] = FramesToSend[q]
  BY <1>1, SentToSome
<1>3. \A q \in ProcessIDs : SendsTo(q, sent[q])
  BY <1>2 DEF SendsTo
<1>4. \A p : /\ Hands(<<CAddMailboxMessage(ids)>>, p) => p \in ids
             /\ ~Wants(<<CAddMailboxMessage(ids)>>, p) /\ ~Tells(<<CAddMailboxMessage(ids)>>)
  BY ContentsFew DEF Hands, Wants, Tells, CAddMailboxMessage
<1>5. \A q, p \in ProcessIDs : /\ Hands(sent[q], p) => p \in ids /\ q = source
                               /\ ~Wants(sent[q], p) /\ ~Tells(sent[q])
  BY <1>4, EmptySaysNothing
<1> HIDE DEF sent
<1>6. \A q, p \in ProcessIDs : SendsFairly(q, p, sent[q])
  <2>1. \A p \in ids \cap ProcessIDs : Alive(p) /\ ~Leaving(p) /\ ~Softly(p) /\ p # source
    BY AliveRuns
  <2> QED BY <1>5, <2>1, RecordsKept DEF SendsFairly
<1>7. (\A q, p \in ProcessIDs : WaitsFor(q, p)) /\ \A p \in ProcessIDs : Proceeds(p)
  BY RecordsKept
<1>8. \A q \in ProcessIDs : StaysUnborn(q)
  <2> SUFFICES ASSUME NEW q \in ProcessIDs, q >= NextID' PROVE StaysUnborn(q)
    BY DEF StaysUnborn
  <2>1. Unborn(q) /\ q # source
    <3>1. NextID \in Int
      BY DEF TypeOK, ManagerTypeOK
    <3> QED BY <3>1 DEF HandleInv, RunningInv
  <2> QED BY <1>2, <2>1, RecordsKept DEF Unborn, StaysUnborn
<1>9. ServiceInv'
  <2>1. ServiceInv /\ source # CONCURRENCY_MANAGER
    BY DEF HandleInv, RunningInv
  <2>2. FramesToSend'[CONCURRENCY_MANAGER] = FramesToSend[CONCURRENCY_MANAGER]
    BY <1>2, <2>1
  <2>3. Alive(CONCURRENCY_MANAGER)' /\ Alive(LOGGING)'
    BY <2>1, RecordsKept DEF ServiceInv
  <2>4. NextID' \in Int /\ NextID' >= NextID
    BY DEF TypeOK, ManagerTypeOK
  <2> QED BY <2>1, <2>2, <2>3, <2>4, ServiceKept
<1>10. State' = "RUNNING"
  OBVIOUS
<1> QED BY <1>3, <1>6, <1>7, <1>8, <1>9, <1>10, ManagerKeepsHandles

(* A process is created; its mailbox is handed to whoever asked for it,  *)
(* and that of its creator to it.                                        *)
LEMMA AddKeepsHandles ==
  ASSUME TypeOK, HandleInv, State = "RUNNING", UNCHANGED processVars, UNCHANGED <<mailbox, tbbQueue, threads>>,
         UNCHANGED <<State, PendingShutdownIDs, PersistentGetRequests>>,
         Contents(ToHandle') \subseteq Contents(ToHandle),
         NEW source \in ManagedIDs, source < NextID, NEW flags,
         NEW new \in ProcessIDs, NextID = new, NextID' = new + 1,
         ProcessRecords' = [ProcessRecords EXCEPT ![new] = "INITIALIZING"],
         ExecuteTask' = [ExecuteTask EXCEPT ![new] = "now"],
         FramesToSend' = Frames_For_New_Process(new, source, flags)
  PROVE  HandleInv' /\ Grants
<1>0. /\ new \in Int /\ NextID = new /\ NextID' = new + 1
      /\ ProcessRecords \in [EProcessID -> EInternalProcessState \cup {"NO_RECORD"}]
      /\ ExecuteTask \in [ManagedIDs -> ScheduleStates]
      /\ \A q \in EProcessID : FramesToSend[q] \in Seq(Message)
  BY DEF TypeOK, ManagerTypeOK, ProcessIDs
<1> USE IDs
<1>1. RunningInv /\ ServiceInv /\ Unborn(new) /\ source # new /\ source # CONCURRENCY_MANAGER
  BY <1>0 DEF HandleInv, RunningInv
<1> DEFINE answer  == ~Is_Process_Shutting_Down(source)
           ongoing(q) == Mailboxes_If(q \in Ongoing_Requesters(new), {new})
           back(q)    == Mailboxes_If(answer /\ "return" \in flags /\ q = source, {new})
           onward(q)  == Mailboxes_If(answer /\ "forward" \in flags /\ q = new, {Get_Mailbox(source)})
           sent    == [q \in ProcessIDs |-> (ongoing(q) \o back(q)) \o onward(q)]
<1>2. \A id \in Ongoing_Requesters(new) :
        id \in ManagedIDs /\ id < new /\ id # new /\ id # CONCURRENCY_MANAGER /\ ~Is_Process_Shutting_Down(id)
  BY <1>1 DEF ServiceInv, Ongoing_Requesters
<1>3. \A ids : /\ \A p : Hands(<<CAddMailboxMessage(ids)>>, p) => p \in ids
               /\ \A p : ~Wants(<<CAddMailboxMessage(ids)>>, p)
               /\ ~Tells(<<CAddMailboxMessage(ids)>>)
  BY ContentsFew DEF Hands, Wants, Tells, CAddMailboxMessage
<1>4. \A given, ids : /\ \A p : Hands(Mailboxes_If(given, ids), p) => given /\ p \in ids
                      /\ \A p : ~Wants(Mailboxes_If(given, ids), p)
                      /\ ~Tells(Mailboxes_If(given, ids))
                      /\ ~given => Mailboxes_If(given, ids) = <<>>
  BY <1>3, EmptySaysNothing DEF Mailboxes_If
<1>5. \A given : \A ids \in SUBSET (EProcessID \cup {INVALID}) : Mailboxes_If(given, ids) \in Seq(Message)
  <2> SUFFICES ASSUME NEW given, NEW ids \in SUBSET (EProcessID \cup {INVALID})
        PROVE Mailboxes_If(given, ids) \in Seq(Message)
    OBVIOUS
  <2>1. CAddMailboxMessage(ids) \in Message
    BY Constructors
  <2> QED BY <2>1 DEF Mailboxes_If
<1>6. Get_Mailbox(source) \in EProcessID \cup {INVALID}
      /\ (Get_Mailbox(source) \in ProcessIDs => Has_Record(source) /\ Get_Mailbox(source) = source)
  BY DEF Get_Mailbox, ProcessIDs
<1>7. \A q : ongoing(q) \in Seq(Message) /\ back(q) \in Seq(Message) /\ onward(q) \in Seq(Message)
  BY <1>0, <1>5, <1>6
<1>8. \A q \in EProcessID : FramesToSend'[q] = ((FramesToSend[q] \o ongoing(q)) \o back(q)) \o onward(q)
  BY DEF Frames_For_New_Process
<1>9. \A q, p : /\ Hands(ongoing(q), p) => p = new /\ q \in Ongoing_Requesters(new)
                /\ Hands(back(q), p) => p = new /\ q = source /\ answer
                /\ Hands(onward(q), p) => p = Get_Mailbox(source) /\ q = new /\ answer
                /\ ~Wants(ongoing(q), p) /\ ~Wants(back(q), p) /\ ~Wants(onward(q), p)
                /\ ~Tells(ongoing(q)) /\ ~Tells(back(q)) /\ ~Tells(onward(q))
  BY <1>4
<1>10. \A q : q \notin Ongoing_Requesters(new) /\ q # source /\ q # new => ongoing(q) = <<>> /\ back(q) = <<>>
         /\ onward(q) = <<>>
  BY <1>4
<1> HIDE DEF ongoing, back, onward
<1>11. ASSUME NEW q \in ProcessIDs
       PROVE  /\ SendsTo(q, sent[q])
              /\ \A p : /\ Hands(sent[q], p) => Hands(ongoing(q), p) \/ Hands(back(q), p) \/ Hands(onward(q), p)
                        /\ ~Wants(sent[q], p) /\ ~Tells(sent[q])
  <2> DEFINE f == FramesToSend[q]  a == ongoing(q)  b == back(q)  c == onward(q)
  <2>0. sent[q] = (a \o b) \o c /\ FramesToSend'[q] = ((f \o a) \o b) \o c
    BY <1>8
  <2>1. f \in Seq(Message) /\ a \in Seq(Message) /\ b \in Seq(Message) /\ c \in Seq(Message)
    BY <1>0, <1>7
  <2>2. \A p : ~Wants(a, p) /\ ~Wants(b, p) /\ ~Wants(c, p) /\ ~Tells(a) /\ ~Tells(b) /\ ~Tells(c)
    BY <1>9
  <2> HIDE DEF f, a, b, c
  <2>3. a \o b \in Seq(Message) /\ Contents(a \o b) = Contents(a) \cup Contents(b)
    BY <2>1, ContentsConcat
  <2>4. Contents((a \o b) \o c) = Contents(a \o b) \cup Contents(c)
    BY <2>1, <2>3, ContentsConcat
  <2>5. f \o a \in Seq(Message) /\ Contents(f \o a) = Contents(f) \cup Contents(a)
    BY <2>1, ContentsConcat
  <2>6. (f \o a) \o b \in Seq(Message) /\ Contents((f \o a) \o b) = Contents(f \o a) \cup Contents(b)
    BY <2>1, <2>5, ContentsConcat
  <2>7. Contents(((f \o a) \o b) \o c) = Contents((f \o a) \o b) \cup Contents(c)
    BY <2>1, <2>6, ContentsConcat
  <2>8. NoMore(((f \o a) \o b) \o c, f, (a \o b) \o c)
    BY <2>3, <2>4, <2>5, <2>6, <2>7, SaysNoMore
  <2>9. NoMore((a \o b) \o c, a \o b, c) /\ NoMore(a \o b, a, b)
    BY <2>3, <2>4, SaysNoMore
  <2>10. \A p : /\ Hands((a \o b) \o c, p) => Hands(a, p) \/ Hands(b, p) \/ Hands(c, p)
                /\ ~Wants((a \o b) \o c, p) /\ ~Tells((a \o b) \o c)
    BY <2>2, <2>9 DEF NoMore
  <2>11. SendsTo(q, sent[q])
    BY <2>0, <2>8 DEF SendsTo, f
  <2> QED BY <2>0, <2>10, <2>11 DEF a, b, c
<1>12. \A q \in EProcessID : q \notin Ongoing_Requesters(new) /\ q # source /\ q # new => FramesToSend'[q] = FramesToSend[q]
  <2>1. \A s \in Seq(Message) : ((s \o <<>>) \o <<>>) \o <<>> = s
    OBVIOUS
  <2> QED BY <1>0, <1>8, <1>10, <2>1
<1> HIDE DEF sent
<1>13. \A q \in EProcessID : /\ q # new => ProcessRecords'[q] = ProcessRecords[q]
                             /\ ProcessRecords'[new] = "INITIALIZING"
  BY <1>0
<1>14. \A q \in EProcessID \ {new} : /\ Alive(q)' <=> Alive(q)
                                     /\ Is_Process_Shutting_Down(q)' <=> Is_Process_Shutting_Down(q)
                                     /\ Has_Record(q)' <=> Has_Record(q)
                                     /\ Closing(q)' <=> Closing(q)
                                     /\ Closed(q)' <=> Closed(q)
                                     /\ Gone(q)' <=> Gone(q)
  BY <1>0, <1>13 DEF Alive, Is_Process_Shutting_Down, Has_Record, Closing, Closed, Gone
<1>15. Alive(new)' /\ ~Is_Process_Shutting_Down(new)' /\ ~Closing(new)' /\ ~Closed(new)' /\ ~Gone(new)' /\ Has_Record(new)'
  BY <1>0, <1>13 DEF Alive, Is_Process_Shutting_Down, Has_Record, Closing, Closed, Gone
<1>16. ~Leaving(new) /\ ~Softly(new) /\ ~Has_Record(new) /\ FramesToSend[new] = <<>>
  <2>1. ~Has_Record(new) /\ ~(new < NextID) /\ FramesToSend[new] = <<>>
    BY <1>0, <1>1 DEF Unborn
  <2> QED BY <1>0, <2>1 DEF Leaving, Closing, Closed, Gone, Has_Record, HandleInv, Soft
<1>17. \A q, p \in ProcessIDs : SendsFairly(q, p, sent[q])
  <2> SUFFICES ASSUME NEW q \in ProcessIDs, NEW p \in ProcessIDs, Hands(sent[q], p)
               PROVE  ~Leaving(p) /\ ~Softly(p) /\ Alive(p)' /\ ~Is_Process_Shutting_Down(q)' /\ p # q
    BY <1>11 DEF SendsFairly
  <2>1. CASE p = new /\ q \in Ongoing_Requesters(new)
    BY <1>2, <1>14, <1>15, <1>16, <2>1
  <2>2. CASE p = new /\ q = source /\ answer
    BY <1>1, <1>14, <1>15, <1>16, <2>2
  <2>3. CASE p = Get_Mailbox(source) /\ q = new /\ answer
    <3>1. p = source /\ Has_Record(source)
      BY <1>6, <2>3
    <3>2. Alive(source) /\ ~Leaving(source) /\ ~Softly(source)
      BY <2>3, <3>1, AliveRuns
    <3> QED BY <1>1, <1>14, <1>15, <2>3, <3>1, <3>2
  <2> QED BY <1>9, <1>11, <2>1, <2>2, <2>3
<1>18. \A q, p \in ProcessIDs : WaitsFor(q, p)
  BY <1>1, <1>14, <1>16 DEF RunningInv, HandleInv, Held, Soft, WaitsFor
<1>19. \A p \in ProcessIDs : Proceeds(p)
  <2> SUFFICES ASSUME NEW p \in ProcessIDs PROVE Proceeds(p)
    OBVIOUS
  <2>1. CASE p = new
    BY <1>15, <1>16, <2>1 DEF Proceeds, Leaving
  <2>2. CASE p # new
    <3>1. p < NextID => p < NextID'
      BY <1>0
    <3>2. Closed(p) => p < NextID
      BY RecordsExist DEF Has_Record, Closed
    <3> QED BY <1>1, <1>14, <2>2, <3>1, <3>2 DEF Proceeds, Leaving, RunningInv, Told, HandleInv, Soft
  <2> QED BY <2>1, <2>2
<1>20. \A q \in ProcessIDs : StaysUnborn(q)
  <2> SUFFICES ASSUME NEW q \in ProcessIDs, q >= NextID' PROVE StaysUnborn(q)
    BY DEF StaysUnborn
  <2>1. q >= NextID /\ q # new /\ ~(q < new) /\ q # source
    BY <1>0
  <2>2. Unborn(q) /\ q \notin Ongoing_Requesters(new)
    BY <1>1, <1>2, <2>1 DEF RunningInv
  <2>3. ExecuteTask'[q] = ExecuteTask[q]
    BY <1>0, <2>1
  <2> QED BY <1>12, <1>14, <2>1, <2>2, <2>3 DEF Unborn, StaysUnborn
<1>21. ServiceInv'
  <2>1. FramesToSend'[CONCURRENCY_MANAGER] = FramesToSend[CONCURRENCY_MANAGER]
    BY <1>0, <1>1, <1>2, <1>12
  <2>2. Alive(CONCURRENCY_MANAGER)' /\ Alive(LOGGING)'
    BY <1>0, <1>1, <1>14 DEF ServiceInv
  <2>3. NextID' \in Int /\ NextID' >= NextID
    BY <1>0
  <2> QED BY <1>1, <2>1, <2>2, <2>3, ServiceKept
<1>22. \A q \in ProcessIDs : SendsTo(q, sent[q])
  BY <1>11
<1>23. State' = "RUNNING"
  OBVIOUS
<1> QED BY <1>17, <1>18, <1>19, <1>20, <1>21, <1>22, <1>23, ManagerKeepsHandles

(* Whoever has a handle has a record, and so is asked when the shutdown of *)
(* a process begins.                                                       *)
LEMMA HoldersAreOthers ==
  ASSUME TypeOK, HandleInv, State = "RUNNING", NEW q \in ProcessIDs, NEW p \in ProcessIDs, Holds(q, p)
  PROVE  q \in Others(p)
<1>1. Own(q) /\ Told(q) /\ (q >= NextID => Unborn(q))
  BY DEF HandleInv, RunningInv
<1>2. q # p
  BY <1>1 DEF Holds, Own
<1>3. NextID \in Int /\ q \in Int /\ q \in EProcessID
  BY IDs DEF TypeOK, ManagerTypeOK
<1>4. Has_Record(q)
  <2> SUFFICES ASSUME ~Has_Record(q) PROVE FALSE
    OBVIOUS
  <2>1. CASE q >= NextID
    <3>1. Mailboxes[q] = {} /\ ~Hands(mailbox[q], p)
      BY <1>1, <2>1 DEF Unborn, Hands
    <3> QED BY <3>1 DEF Holds
  <2>2. CASE q < NextID
    <3>1. Gone(q)
      BY <2>2 DEF Gone, Has_Record
    <3>2. Mailboxes[q] = {} /\ ~Hands(mailbox[q], p)
      BY <1>1, <3>1 DEF Told
    <3> QED BY <3>2 DEF Holds
  <2> QED BY <1>3, <2>1, <2>2
<1> QED BY <1>2, <1>3, <1>4 DEF Others, Records, ProcessIDs

(* The shutdown of process begins.                                       *)
LEMMA InitiateKeepsHandles ==
  ASSUME TypeOK, HandleInv, State = "RUNNING", UNCHANGED processVars, UNCHANGED <<mailbox, tbbQueue, threads>>,
         UNCHANGED <<State, NextID, ExecuteTask>>,
         Contents(ToHandle') \subseteq Contents(ToHandle),
         NEW process \in ProcessIDs, Has_Record(process), ~Is_Process_Shutting_Down(process),
         Initiate_Process_Shutdown(process)
  PROVE  HandleInv' /\ Grants
<1> USE IDs
<1>0. /\ ProcessRecords \in [EProcessID -> EInternalProcessState \cup {"NO_RECORD"}]
      /\ PendingShutdownIDs \in [EProcessID -> SUBSET EProcessID] /\ NextID \in Int
  BY DEF TypeOK, ManagerTypeOK
<1>1. RunningInv /\ ServiceInv /\ process < NextID /\ Alive(process) /\ ~Leaving(process) /\ ~Softly(process)
  BY RecordsExist, AliveRuns DEF HandleInv, RunningInv
<1> DEFINE alone == Others(process) = {}
           ids   == IF alone THEN {process} ELSE Others(process)
           m     == IF alone THEN CShutdownSelfRequest(FALSE) ELSE CReleaseMailboxRequest(process)
           sent  == [q \in ProcessIDs |-> IF q \in ids THEN <<m>> ELSE <<>>]
<1>2. m \in Message
  BY Constructors
<1>3. /\ FramesToSend' = Send_Process_Message(ids, m)
      /\ ProcessRecords'[process] = IF alone THEN "SHUTTING_DOWN_PHASE2" ELSE "SHUTTING_DOWN_PHASE1"
      /\ \A q \in EProcessID : q # process => ProcessRecords'[q] = ProcessRecords[q]
      /\ PendingShutdownIDs'[process] = Others(process)
      /\ \A q \in EProcessID : q # process => PendingShutdownIDs'[q] = PendingShutdownIDs[q]
      /\ PersistentGetRequests' \subseteq PersistentGetRequests
  BY <1>0 DEF Initiate_Process_Shutdown
<1>4. \A p : /\ ~Hands(<<m>>, p)
             /\ Wants(<<m>>, p) => p = process /\ ~alone
             /\ Tells(<<m>>) => alone
  <2>1. \/ alone /\ m.type = "ShutdownSelfRequest"
        \/ ~alone /\ m.type = "ReleaseMailboxRequest" /\ m.id = process
    BY DEF CShutdownSelfRequest, CReleaseMailboxRequest, About
  <2>2. Contents(<<m>>) = {m}
    BY ContentsFew
  <2> HIDE DEF m, alone
  <2> QED BY <2>1, <2>2 DEF Hands, Wants, Tells
<1>5. \A q \in Others(process) : Has_Record(q) /\ q # CONCURRENCY_MANAGER
  BY DEF Others, Records
<1> HIDE DEF m
<1>6. \A q \in ProcessIDs : SendsTo(q, sent[q])
  BY <1>2, <1>3, SentToSome DEF SendsTo
<1>7. \A q, p \in ProcessIDs : /\ ~Hands(sent[q], p)
                               /\ Wants(sent[q], p) => p = process /\ ~alone
                               /\ Tells(sent[q]) => q = process /\ alone
  BY <1>4, EmptySaysNothing
<1>8. \A q \in EProcessID : q \notin ids => FramesToSend'[q] = FramesToSend[q]
  BY <1>2, <1>3, SentToSome
<1> HIDE DEF sent
<1>9. \A q \in EProcessID \ {process} : /\ Alive(q)' <=> Alive(q)
                                        /\ Has_Record(q)' <=> Has_Record(q)
                                        /\ Closing(q)' <=> Closing(q)
                                        /\ Closed(q)' <=> Closed(q)
                                        /\ Gone(q)' <=> Gone(q)
  BY <1>3 DEF Alive, Has_Record, Closing, Closed, Gone
<1>10. /\ Closing(process)' <=> ~alone
       /\ Closed(process)' <=> alone
       /\ Has_Record(process)' /\ ~Alive(process)' /\ ~Gone(process)'
  BY <1>3 DEF Alive, Has_Record, Closing, Closed, Gone
<1>11. \A q, p \in ProcessIDs : SendsFairly(q, p, sent[q])
  BY <1>7, <1>10 DEF SendsFairly
<1>12. \A q \in ProcessIDs : Holds(q, process) => q \in Others(process)
  BY HoldersAreOthers
<1>13. \A q, p \in ProcessIDs : WaitsFor(q, p)
  <2> SUFFICES ASSUME NEW q \in ProcessIDs, NEW p \in ProcessIDs PROVE WaitsFor(q, p)
    OBVIOUS
  <2>1. CASE p = process
    BY <1>3, <1>10, <1>12, <2>1 DEF WaitsFor
  <2>2. CASE p # process
    BY <1>1, <1>3, <1>9, <2>2 DEF RunningInv, HandleInv, Held, Soft, WaitsFor
  <2> QED BY <2>1, <2>2
<1>14. \A p \in ProcessIDs : Proceeds(p)
  <2> SUFFICES ASSUME NEW p \in ProcessIDs PROVE Proceeds(p)
    OBVIOUS
  <2>1. CASE p = process
    BY <1>1, <1>10, <2>1 DEF Proceeds, Leaving
  <2>2. CASE p # process
    <3>1. Closed(p) => p < NextID
      BY RecordsExist DEF Has_Record, Closed
    <3> QED BY <1>1, <1>9, <2>2, <3>1 DEF Proceeds, Leaving, RunningInv, Told, HandleInv, Soft
  <2> QED BY <2>1, <2>2
<1>15. \A q \in ProcessIDs : StaysUnborn(q)
  <2> SUFFICES ASSUME NEW q \in ProcessIDs, q >= NextID' PROVE StaysUnborn(q)
    BY DEF StaysUnborn
  <2>1. Unborn(q) /\ q # process
    BY <1>0, <1>1 DEF RunningInv
  <2>2. ~Has_Record(q) /\ q \notin ids
    BY <1>5, <2>1 DEF Unborn
  <2> QED BY <1>8, <1>9, <2>1, <2>2 DEF Unborn, StaysUnborn
<1>16. ServiceInv'
  <2>1. FramesToSend'[CONCURRENCY_MANAGER] = FramesToSend[CONCURRENCY_MANAGER]
    BY <1>5, <1>8
  <2>2. Alive(CONCURRENCY_MANAGER)' /\ Alive(LOGGING)'
    BY <1>1, <1>9 DEF ServiceInv
  <2> QED BY <1>0, <1>1, <1>3, <2>1, <2>2, ServiceKept
<1>17. State' = "RUNNING"
  OBVIOUS
<1> QED BY <1>6, <1>11, <1>13, <1>14, <1>15, <1>16, <1>17, ManagerKeepsHandles

(* source gives the mailboxes of ids back.                               *)
LEMMA ReleaseKeepsHandles ==
  ASSUME TypeOK, HandleInv, State = "RUNNING", UNCHANGED processVars, Handle_Release_Mailbox_Response,
         message \in Contents(ToHandle), Contents(ToHandle') \subseteq Contents(ToHandle)
  PROVE  HandleInv' /\ Grants
<1> USE IDs
<1> DEFINE source == message.source
           ids    == Released(message.ids)
           done   == Finished(message.source, message.ids)
<1>0. /\ ProcessRecords \in [EProcessID -> EInternalProcessState \cup {"NO_RECORD"}]
      /\ PendingShutdownIDs \in [EProcessID -> SUBSET EProcessID] /\ NextID \in Int
      /\ UNCHANGED <<mailbox, tbbQueue, threads, State, NextID, ExecuteTask, PersistentGetRequests>>
      /\ message.type = "ReleaseMailboxResponse"
  BY DEF TypeOK, ManagerTypeOK, Handle_Release_Mailbox_Response, Handling, message
<1>1. RunningInv /\ ServiceInv
  BY DEF HandleInv, RunningInv
<1>2. ~Is_Manager_Shutting_Down
  BY DEF Is_Manager_Shutting_Down
<1>3. /\ \A id \in ids : ProcessRecords[id] = "SHUTTING_DOWN_PHASE1"
      /\ PendingShutdownIDs' = [id \in EProcessID |-> IF id \in ids THEN PendingShutdownIDs[id] \ {source}
                                                                    ELSE PendingShutdownIDs[id]]
      /\ ProcessRecords' = [id \in EProcessID |-> IF id \in done THEN "SHUTTING_DOWN_PHASE2" ELSE ProcessRecords[id]]
      /\ FramesToSend' = Send_Process_Message(done, CShutdownSelfRequest(FALSE))
  BY <1>2 DEF Handle_Release_Mailbox_Response
<1>4. \A p \in ids : p \in message.ids
  BY DEF Released
<1>5. done \subseteq ids /\ \A id \in done : PendingShutdownIDs[id] \subseteq {source}
  BY DEF Finished
<1>6. \A p \in ids : Closing(p) /\ Has_Record(p) /\ ~Alive(p)
  BY <1>3 DEF Closing, Has_Record, Alive
<1>7. \A p \in ids : Gives(ToHandle, source, p)
  BY <1>0, <1>4 DEF Gives
<1> HIDE DEF source, ids, done
<1> DEFINE m    == CShutdownSelfRequest(FALSE)
           sent == [q \in ProcessIDs |-> IF q \in done THEN <<m>> ELSE <<>>]
<1>8. m \in Message
  BY Constructors
<1>9. \A q, p : ~Hands(<<m>>, p) /\ ~Wants(<<m>>, p)
  BY ContentsFew DEF Hands, Wants, CShutdownSelfRequest
<1> HIDE DEF m
<1>10. \A q \in ProcessIDs : SendsTo(q, sent[q])
  BY <1>0, <1>3, <1>8, SentToSome DEF SendsTo, m
<1>11. \A q, p \in ProcessIDs : ~Hands(sent[q], p) /\ ~Wants(sent[q], p) /\ (Tells(sent[q]) => q \in done)
  BY <1>9, EmptySaysNothing
<1>12. \A q \in EProcessID : q \notin done => FramesToSend'[q] = FramesToSend[q]
  BY <1>3, <1>8, SentToSome DEF m
<1> HIDE DEF sent
<1>13. \A q \in EProcessID :
         /\ q \notin done => /\ Alive(q)' <=> Alive(q)
                             /\ Has_Record(q)' <=> Has_Record(q)
                             /\ Closing(q)' <=> Closing(q)
                             /\ Closed(q)' <=> Closed(q)
                             /\ Gone(q)' <=> Gone(q)
         /\ q \in done => Closed(q)' /\ ~Closing(q)' /\ ~Alive(q)' /\ Has_Record(q)' /\ ~Gone(q)'
  BY <1>0, <1>3 DEF Alive, Has_Record, Closing, Closed, Gone
<1>14. \A q, p \in ProcessIDs : SendsFairly(q, p, sent[q])
  BY <1>11, <1>13 DEF SendsFairly
<1>15. \A q, p \in ProcessIDs : WaitsFor(q, p)
  <2> SUFFICES ASSUME NEW q \in ProcessIDs, NEW p \in ProcessIDs, Holds(q, p)
               PROVE  Has_Record(p)' /\ (Closing(p)' => q \in PendingShutdownIDs'[p]) /\ ~Closed(p)'
    BY DEF WaitsFor
  <2>1. Has_Record(p) /\ (Closing(p) => q \in PendingShutdownIDs[p]) /\ ~Closed(p)
    BY <1>1 DEF RunningInv, HandleInv, Held, Soft
  <2>2. p \in ids => q # source
    <3> SUFFICES ASSUME p \in ids, q = source PROVE FALSE
      OBVIOUS
    <3>1. Release(q, p) /\ Gives(ToHandle, q, p)
      BY <1>1, <1>7 DEF RunningInv
    <3> QED BY <3>1 DEF Release, Holds
  <2>3. p \notin done
    BY <1>5, <1>6, <2>1, <2>2
  <2>4. PendingShutdownIDs'[p] = IF p \in ids THEN PendingShutdownIDs[p] \ {source} ELSE PendingShutdownIDs[p]
    BY <1>3
  <2> QED BY <1>13, <2>1, <2>2, <2>3, <2>4
<1>16. \A p \in ProcessIDs : Has_Record(p) => p < NextID
  BY RecordsExist
<1>17. \A p \in ProcessIDs : Proceeds(p)
  <2> SUFFICES ASSUME NEW p \in ProcessIDs PROVE Proceeds(p)
    OBVIOUS
  <2>1. CASE p \in done
    BY <1>0, <1>5, <1>6, <1>13, <1>16, <2>1 DEF Proceeds, Leaving, HandleInv, Soft
  <2>2. CASE p \notin done
    <3>1. Closed(p) => p < NextID
      BY <1>16 DEF Has_Record, Closed
    <3> QED BY <1>0, <1>1, <1>13, <2>2, <3>1 DEF Proceeds, Leaving, RunningInv, Told, HandleInv, Soft
  <2> QED BY <2>1, <2>2
<1>18. \A q \in ProcessIDs : StaysUnborn(q)
  <2> SUFFICES ASSUME NEW q \in ProcessIDs, q >= NextID' PROVE StaysUnborn(q)
    BY DEF StaysUnborn
  <2>1. Unborn(q) /\ q >= NextID
    BY <1>0, <1>1 DEF RunningInv
  <2>2. q \notin done
    BY <1>5, <1>6, <2>1 DEF Unborn
  <2> QED BY <1>0, <1>12, <1>13, <2>1, <2>2 DEF Unborn, StaysUnborn
<1>19. ServiceInv'
  <2>1. CONCURRENCY_MANAGER \notin done /\ LOGGING \notin done
    BY <1>1, <1>5, <1>6 DEF ServiceInv
  <2>2. FramesToSend'[CONCURRENCY_MANAGER] = FramesToSend[CONCURRENCY_MANAGER]
    BY <1>12, <2>1
  <2>3. Alive(CONCURRENCY_MANAGER)' /\ Alive(LOGGING)'
    BY <1>1, <1>13, <2>1 DEF ServiceInv
  <2> QED BY <1>0, <1>1, <2>2, <2>3, ServiceKept
<1>20. State' = "RUNNING" /\ Contents(ToHandle') \subseteq Contents(ToHandle)
  BY <1>0
<1> QED BY <1>10, <1>14, <1>15, <1>17, <1>18, <1>19, <1>20, ManagerKeepsHandles

(* source says that it has shut itself down, and its record goes.        *)
LEMMA RemoveKeepsHandles ==
  ASSUME TypeOK, HandleInv, State = "RUNNING", UNCHANGED processVars, Handle_Shutdown_Self_Response,
         message \in Contents(ToHandle), Contents(ToHandle') \subseteq Contents(ToHandle),
         NEW source, source = message.source
  PROVE  HandleInv' /\ Grants
<1> USE IDs
<1>0. /\ ProcessRecords \in [EProcessID -> EInternalProcessState \cup {"NO_RECORD"}]
      /\ PendingShutdownIDs \in [EProcessID -> SUBSET EProcessID] /\ NextID \in Int
      /\ UNCHANGED <<mailbox, tbbQueue, threads, State, NextID, ExecuteTask, PersistentGetRequests, FramesToSend>>
      /\ message.type = "ShutdownSelfResponse"
      /\ Closed(source)
      /\ ProcessRecords' = [ProcessRecords EXCEPT ![source] = "NO_RECORD"]
      /\ PendingShutdownIDs' = [PendingShutdownIDs EXCEPT ![source] = {}]
  BY DEF TypeOK, ManagerTypeOK, Handle_Shutdown_Self_Response, Handling, message, Is_Manager_Shutting_Down, Closed
<1>1. RunningInv /\ ServiceInv /\ source \in ManagedIDs /\ source < NextID
  BY SendersExist
<1>2. Ends(ToHandle, source)
  BY <1>0 DEF Ends
<1>3. source \in ProcessIDs
  <2>1. source # LOGGING
    BY <1>0, <1>1 DEF ServiceInv, Alive, Closed
  <2> QED BY <1>1, <2>1 DEF ManagedIDs, ProcessIDs
<1>4. Is_Shutting_Down(source) /\ pc[source] # "flush"
  BY <1>1, <1>2, <1>3 DEF RunningInv, Told
<1>5. /\ ProcessRecords'[source] = "NO_RECORD"
      /\ \A q \in EProcessID : q # source => ProcessRecords'[q] = ProcessRecords[q]
                                             /\ PendingShutdownIDs'[q] = PendingShutdownIDs[q]
  BY <1>0, <1>1
<1>6. \A q \in EProcessID \ {source} : /\ Alive(q)' <=> Alive(q)
                                       /\ Has_Record(q)' <=> Has_Record(q)
                                       /\ Closing(q)' <=> Closing(q)
                                       /\ Closed(q)' <=> Closed(q)
                                       /\ Gone(q)' <=> Gone(q)
  BY <1>0, <1>5 DEF Alive, Has_Record, Closing, Closed, Gone
<1>7. Gone(source)' /\ ~Alive(source)' /\ ~Has_Record(source)' /\ ~Closing(source)' /\ ~Closed(source)'
  BY <1>0, <1>1, <1>5 DEF Alive, Has_Record, Closing, Closed, Gone
<1> DEFINE sent == [q \in ProcessIDs |-> <<>>]
<1>8. \A q \in ProcessIDs : SendsTo(q, sent[q])
  BY <1>0 DEF SendsTo, NoMore
<1>9. \A q, p \in ProcessIDs : SendsFairly(q, p, sent[q])
  BY EmptySaysNothing DEF SendsFairly
<1> HIDE DEF sent
<1>10. \A q, p \in ProcessIDs : WaitsFor(q, p)
  <2> SUFFICES ASSUME NEW q \in ProcessIDs, NEW p \in ProcessIDs PROVE WaitsFor(q, p)
    OBVIOUS
  <2>1. CASE p = source
    BY <1>0, <2>1 DEF WaitsFor, HandleInv, Soft
  <2>2. CASE p # source
    BY <1>1, <1>5, <1>6, <2>2 DEF RunningInv, HandleInv, Held, Soft, WaitsFor
  <2> QED BY <2>1, <2>2
<1>11. \A p \in ProcessIDs : Proceeds(p)
  <2> SUFFICES ASSUME NEW p \in ProcessIDs PROVE Proceeds(p)
    OBVIOUS
  <2>1. CASE p = source
    BY <1>0, <1>1, <1>4, <1>7, <2>1 DEF Proceeds, Leaving
  <2>2. CASE p # source
    <3>1. Closed(p) => p < NextID
      BY RecordsExist DEF Has_Record, Closed
    <3> QED BY <1>0, <1>1, <1>6, <2>2, <3>1 DEF Proceeds, Leaving, RunningInv, Told, HandleInv, Soft
  <2> QED BY <2>1, <2>2
<1>12. \A q \in ProcessIDs : StaysUnborn(q)
  <2> SUFFICES ASSUME NEW q \in ProcessIDs, q >= NextID' PROVE StaysUnborn(q)
    BY DEF StaysUnborn
  <2>1. Unborn(q) /\ q >= NextID
    BY <1>0, <1>1 DEF RunningInv
  <2> QED BY <1>0, <1>6, <1>7, <2>1 DEF Unborn, StaysUnborn
<1>13. ServiceInv'
  <2>1. Alive(CONCURRENCY_MANAGER)' /\ Alive(LOGGING)'
    BY <1>1, <1>3, <1>6 DEF ServiceInv
  <2> QED BY <1>0, <1>1, <2>1, ServiceKept
<1>14. State' = "RUNNING"
  BY <1>0
<1> QED BY <1>8, <1>9, <1>10, <1>11, <1>12, <1>13, <1>14, ManagerKeepsHandles

(* The manager sends id its frame.                                       *)
LEMMA FlushKeepsHandles ==
  ASSUME TypeOK, HandleInv, UNCHANGED processVars, NEW id \in EProcessID, Flush_Frame(id)
  PROVE  HandleInv' /\ Grants
<1> USE IDs
<1>0. /\ UNCHANGED <<State, NextID, ProcessRecords, PendingShutdownIDs, ExecuteTask, PersistentGetRequests,
                     control_frames, tbbQueue, threads>>
      /\ Has_Record(id) /\ id \in Unsent
  BY DEF Flush_Frame
<1>1. \A q \in EProcessID :
        /\ q # id => mailbox'[q] = mailbox[q] /\ FramesToSend'[q] = FramesToSend[q]
        /\ q = id => mailbox'[q] = mailbox[q] \o FramesToSend[q] /\ FramesToSend'[q] = <<>>
        /\ mailbox[q] \in Seq(Message) /\ FramesToSend[q] \in Seq(Message)
  BY DEF Flush_Frame, Add_Frame, TypeOK, SharedTypeOK, ManagerTypeOK
<1>2. \A q \in EProcessID : NoMore(mailbox'[q], mailbox[q], FramesToSend[q])
  <2> SUFFICES ASSUME NEW q \in EProcessID PROVE NoMore(mailbox'[q], mailbox[q], FramesToSend[q])
    OBVIOUS
  <2>1. Contents(mailbox'[q]) \subseteq Contents(mailbox[q]) \cup Contents(FramesToSend[q])
    <3>1. Contents(mailbox[q] \o FramesToSend[q]) = Contents(mailbox[q]) \cup Contents(FramesToSend[q])
      BY <1>1, ContentsConcat
    <3>2. mailbox'[q] \in {mailbox[q], mailbox[q] \o FramesToSend[q]}
      BY <1>1
    <3> QED BY <3>1, <3>2
  <2> QED BY <2>1, SaysNoMore
<1>3. \A q, p \in ProcessIDs :
        /\ Hands(mailbox'[q], p) => Hands(mailbox[q], p) \/ (q = id /\ Hands(FramesToSend[q], p))
        /\ Wants(mailbox'[q], p) => Wants(mailbox[q], p) \/ (q = id /\ Wants(FramesToSend[q], p))
        /\ Tells(mailbox'[q]) => Tells(mailbox[q]) \/ (q = id /\ Tells(FramesToSend[q]))
        /\ TellsSoftly(mailbox'[q]) => TellsSoftly(mailbox[q]) \/ (q = id /\ TellsSoftly(FramesToSend[q]))
  BY <1>1, <1>2 DEF NoMore
<1>4. \A q, p \in ProcessIDs :
        /\ Hands(FramesToSend'[q], p) => q # id /\ Hands(FramesToSend[q], p)
        /\ Wants(FramesToSend'[q], p) => q # id /\ Wants(FramesToSend[q], p)
        /\ Tells(FramesToSend'[q]) => q # id /\ Tells(FramesToSend[q])
        /\ TellsSoftly(FramesToSend'[q]) => q # id /\ TellsSoftly(FramesToSend[q])
  BY <1>1, EmptySaysNothing
<1>5. \A p : /\ Alive(p)' <=> Alive(p)
             /\ Has_Record(p)' <=> Has_Record(p)
             /\ Closing(p)' <=> Closing(p)
             /\ Closed(p)' <=> Closed(p)
             /\ Gone(p)' <=> Gone(p)
             /\ Is_Shutting_Down(p)' <=> Is_Shutting_Down(p)
  BY <1>0 DEF Alive, Has_Record, Closing, Closed, Gone, Is_Shutting_Down, processVars
<1>6. \A q, p \in ProcessIDs : Holds(q, p)' => Holds(q, p)
  BY <1>0, <1>3, <1>4, <1>5 DEF Holds, processVars
<1>7. \A p \in ProcessIDs : Softly(p)' => Softly(p)
  BY <1>3, <1>4 DEF Softly, processVars
<1>8. \A p \in ProcessIDs : Soft(p)'
  BY <1>0, <1>5, <1>6, <1>7 DEF HandleInv, Soft
<1>9. ASSUME State = "RUNNING" PROVE RunningInv'
  <2>1. RunningInv /\ ServiceInv
    BY <1>9 DEF HandleInv, RunningInv
  <2>2. id # CONCURRENCY_MANAGER
    BY <1>0, <2>1 DEF ServiceInv, Unsent
  <2>3. ToHandle' = ToHandle
    BY <1>0, <1>1, <2>2 DEF ToHandle
  <2>4. ServiceInv'
    BY <1>0, <1>1, <1>5, <2>1, <2>2, <2>3 DEF ServiceInv, processVars
  <2>5. ASSUME NEW q \in ProcessIDs, q >= NextID' PROVE Unborn(q)'
    <3>1. Unborn(q) /\ q # id
      BY <1>0, <2>1, <2>5 DEF RunningInv, Unborn
    <3> QED BY <1>0, <1>1, <1>5, <3>1 DEF Unborn, processVars
  <2>6. ASSUME NEW q \in ProcessIDs PROVE Own(q)'
    BY <1>3, <1>4, <2>1 DEF RunningInv, Own, processVars
  <2>7. ASSUME NEW q \in ProcessIDs PROVE Told(q)'
    <3>1. Told(q)
      BY <2>1 DEF RunningInv
    <3>2. UNCHANGED <<pc, Mailboxes, ManagerFrame>>
      BY DEF processVars
    <3>3. Tells(mailbox'[q]) \/ Tells(FramesToSend'[q]) => Tells(mailbox[q]) \/ Tells(FramesToSend[q])
      BY <1>3, <1>4
    <3>4. Tells(mailbox'[q]) /\ Has_Record(q) => \A p \in ProcessIDs : ~Hands(FramesToSend'[q], p)
      BY <1>3, <1>4, <3>1 DEF Told
    <3>5. Is_Shutting_Down(q) => \A p \in ProcessIDs : /\ ~Hands(mailbox'[q], p)
                                                       /\ Has_Record(q) => ~Hands(FramesToSend'[q], p)
      BY <1>0, <1>3, <1>4, <3>1 DEF Told
    <3> QED BY <1>5, <2>3, <3>1, <3>2, <3>3, <3>4, <3>5 DEF Told
  <2>8. ASSUME NEW q \in ProcessIDs, NEW p \in ProcessIDs PROVE Release(q, p)'
    <3>1. Release(q, p)
      BY <2>1 DEF RunningInv
    <3>2. UNCHANGED <<ShutdownMailboxes, Mailboxes, ManagerFrame>>
      BY DEF processVars
    <3>3. Releasing(q, p)' => Releasing(q, p)
      BY <1>3, <1>4, <2>3, <3>2 DEF Releasing
    <3>4. /\ Wants(mailbox'[q], p) => ~Hands(FramesToSend'[q], p)
          /\ ~Hands(mailbox[q], p) /\ ~Hands(FramesToSend[q], p) => ~Hands(mailbox'[q], p) /\ ~Hands(FramesToSend'[q], p)
      BY <1>3, <1>4, <3>1 DEF Release
    <3> QED BY <1>5, <2>3, <3>1, <3>2, <3>3, <3>4 DEF Release
  <2>9. ASSUME NEW q \in ProcessIDs, NEW p \in ProcessIDs PROVE Held(q, p)'
    BY <1>0, <1>5, <1>6, <2>1 DEF RunningInv, Held
  <2> QED BY <2>4, <2>5, <2>6, <2>7, <2>8, <2>9 DEF RunningInv
<1> QED BY <1>0, <1>6, <1>8, <1>9 DEF HandleInv, Grants

(* While the program ends the manager's handlers send nothing, and only  *)
(* remove records.                                                       *)
LEMMA HandlersAtTheEnd ==
  ASSUME TypeOK, State # "RUNNING", Handle_Message
  PROVE  /\ UNCHANGED <<State, NextID, FramesToSend>>
         /\ \A p \in EProcessID : ProcessRecords'[p] \in {ProcessRecords[p], "NO_RECORD"}
<1>1. Is_Manager_Shutting_Down
  BY DEF TypeOK, ManagerTypeOK, EConcurrencyManagerState, Is_Manager_Shutting_Down
<1>2. ProcessRecords \in [EProcessID -> EInternalProcessState \cup {"NO_RECORD"}]
  BY DEF TypeOK, ManagerTypeOK
<1>3. CASE Handle_Get_Mailbox_By_ID_Request
  BY <1>1, <1>3 DEF Handle_Get_Mailbox_By_ID_Request
<1>4. CASE Handle_Get_Mailbox_By_Properties_Request
  BY <1>1, <1>4 DEF Handle_Get_Mailbox_By_Properties_Request
<1>5. CASE Handle_Add_New_Process_Message
  BY <1>1, <1>5 DEF Handle_Add_New_Process_Message
<1>6. CASE Handle_Shutdown_Process_Message
  BY <1>1, <1>6 DEF Handle_Shutdown_Process_Message
<1>7. CASE Handle_Reschedule_Process_Message
  BY <1>7 DEF Handle_Reschedule_Process_Message
<1>8. CASE Handle_Release_Mailbox_Response
  BY <1>1, <1>8 DEF Handle_Release_Mailbox_Response
<1>9. CASE Handle_Shutdown_Self_Response
  BY <1>2, <1>9 DEF Handle_Shutdown_Self_Response
<1>10. CASE Handle_Shutdown_Manager_Message
  BY <1>1, <1>10 DEF Handle_Shutdown_Manager_Message
<1> QED BY <1>3, <1>4, <1>5, <1>6, <1>7, <1>8, <1>9, <1>10 DEF Handle_Message

(* Those of ids are told to shut themselves down at once, if any.        *)
EndsAll(ids) == FramesToSend' = FramesToSend \/ FramesToSend' = Send_Process_Message(ids, CShutdownSelfRequest(TRUE))

(* A step that removes records, and sends nothing or tells to shut down at *)
(* once, when the whole program ends.                                      *)
LEMMA EndingKeepsHandles ==
  ASSUME TypeOK, HandleInv, UNCHANGED processVars, State' # "RUNNING", UNCHANGED <<mailbox, NextID>>,
         \A p \in EProcessID : ProcessRecords'[p] \in {ProcessRecords[p], "NO_RECORD"},
         NEW ids, EndsAll(ids)
  PROVE  HandleInv' /\ Grants
<1> USE IDs
<1> DEFINE m == CShutdownSelfRequest(TRUE)
<1>1. m \in Message /\ m.type = "ShutdownSelfRequest" /\ "hard" \in m.opts
  BY Constructors DEF CShutdownSelfRequest
<1> HIDE DEF m
<1>2. \A p : ~Hands(<<m>>, p) /\ ~TellsSoftly(<<m>>)
  BY <1>1, ContentsFew DEF Hands, TellsSoftly
<1>3. \A q \in EProcessID : /\ \A p : Hands(FramesToSend'[q], p) => Hands(FramesToSend[q], p)
                            /\ TellsSoftly(FramesToSend'[q]) => TellsSoftly(FramesToSend[q])
  <2>1. CASE FramesToSend' = Send_Process_Message(ids, m)
    BY <1>1, <1>2, <2>1, SentToSome, EmptySaysNothing DEF NoMore
  <2>2. CASE FramesToSend' = FramesToSend
    BY <2>2
  <2> QED BY <2>1, <2>2 DEF m, EndsAll
<1>4. \A p \in ProcessIDs : /\ Has_Record(p)' => Has_Record(p)
                            /\ Alive(p)' => Alive(p)
                            /\ Closed(p)' => Closed(p)
  BY DEF Has_Record, Alive, Closed
<1>5. \A q, p \in ProcessIDs : Holds(q, p)' => Holds(q, p)
  BY <1>3, <1>4 DEF Holds, processVars
<1>6. \A p \in ProcessIDs : Softly(p)' => Softly(p)
  BY <1>3 DEF Softly, processVars
<1>7. UNCHANGED <<processVars, NextID>>
  OBVIOUS
<1> QED BY <1>4, <1>5, <1>6, <1>7, EndKeepsHandles

(* Every handler of the manager.                                         *)
LEMMA HandlersKeepHandles ==
  ASSUME TypeOK, HandleInv, UNCHANGED processVars, Handle_Message
  PROVE  HandleInv' /\ Grants
<1>1. /\ message \in Message /\ message \in Contents(ToHandle)
      /\ Contents(ToHandle') \subseteq Contents(ToHandle)
      /\ UNCHANGED <<phase, mailbox, tbbQueue, threads>>
  BY HandlerFrame, Handles_Message
<1>2. CASE State # "RUNNING"
  BY <1>1, <1>2, HandlersAtTheEnd, EndingKeepsHandles DEF EndsAll
<1>3. CASE State = "RUNNING"
  <2> USE IDs
  <2>1. /\ ServiceInv /\ RunningInv
        /\ message.source \in ManagedIDs /\ message.source < NextID
        /\ message.type = "ShutdownProcess" => message.id \in ProcessIDs
    BY <1>1, <1>3, SendersExist
  <2>2. ~Is_Manager_Shutting_Down
    BY <1>3 DEF Is_Manager_Shutting_Down
  <2>3. message.id \in EProcessID \cup {INVALID}
    BY <1>1 DEF Message
  <2> DEFINE Silent == /\ UNCHANGED <<State, NextID, ProcessRecords, PendingShutdownIDs, FramesToSend>>
                       /\ \A q \in ProcessIDs : Unborn(q) => ExecuteTask'[q] = "none"
                       /\ \A request \in PersistentGetRequests' :
                            request \in PersistentGetRequests \/ request[1] = message.source
  <2>4. Silent => HandleInv' /\ Grants
    <3> SUFFICES ASSUME Silent PROVE HandleInv' /\ Grants
      OBVIOUS
    <3>1. \A q \in EProcessID : /\ FramesToSend'[q] = FramesToSend[q]
                                /\ Has_Record(q)' <=> Has_Record(q)
                                /\ Alive(q)' <=> Alive(q)
                                /\ Closing(q)' <=> Closing(q)
                                /\ Closed(q)' <=> Closed(q)
      BY DEF Has_Record, Alive, Closing, Closed
    <3>2. \A request \in PersistentGetRequests' :
            request \in PersistentGetRequests \/ (request[1] \in ManagedIDs /\ request[1] < NextID)
      BY <2>1
    <3>3. \A q \in ProcessIDs : Unborn(q) =>
            ExecuteTask'[q] = "none" /\ tbbQueue'[q] = tbbQueue[q] /\ threads'[q] = threads[q]
      BY <1>1
    <3>4. \A q \in ProcessIDs : mailbox'[q] = mailbox[q]
      BY <1>1
    <3> QED BY <1>1, <3>1, <3>2, <3>3, <3>4, QuietKeepsHandles
  <2>5. CASE Handle_Get_Mailbox_By_ID_Request
    <3>1. UNCHANGED <<State, NextID, ProcessRecords, PendingShutdownIDs, ExecuteTask, PersistentGetRequests>>
      BY <2>5 DEF Handle_Get_Mailbox_By_ID_Request
    <3>2. CASE FramesToSend' = FramesToSend
      BY <2>4, <3>1, <3>2 DEF Unborn
    <3>3. CASE FramesToSend' # FramesToSend
      <4>1. /\ ~Is_Process_Shutting_Down(message.source) /\ Has_Record(message.id)
            /\ ~Is_Process_Shutting_Down(message.id) /\ message.source # message.id
            /\ FramesToSend' = Send_Process_Message({message.source}, CAddMailboxMessage({message.id}))
        BY <2>5, <3>3 DEF Handle_Get_Mailbox_By_ID_Request
      <4>2. PICK source \in ManagedIDs, ids \in SUBSET (EProcessID \cup {INVALID}) :
                   source = message.source /\ ids = {message.id}
        BY <2>1, <2>3
      <4>3. /\ source < NextID /\ ~Is_Process_Shutting_Down(source)
            /\ \A p \in ids : Has_Record(p) /\ ~Is_Process_Shutting_Down(p) /\ p # source
            /\ FramesToSend' = Send_Process_Message({source}, CAddMailboxMessage(ids))
            /\ \A request \in PersistentGetRequests' : request \in PersistentGetRequests \/ request[1] = source
        BY <2>1, <3>1, <4>1, <4>2
      <4> QED BY <1>1, <1>3, <3>1, <4>3, GrantKeepsHandles
    <3> QED BY <3>2, <3>3
  <2>6. CASE Handle_Get_Mailbox_By_Properties_Request
    <3>1. /\ UNCHANGED <<State, NextID, ProcessRecords, PendingShutdownIDs, ExecuteTask>>
          /\ \A request \in PersistentGetRequests' : request \in PersistentGetRequests \/ request[1] = message.source
      BY <2>6 DEF Handle_Get_Mailbox_By_Properties_Request
    <3>2. CASE FramesToSend' = FramesToSend
      BY <2>4, <3>1, <3>2 DEF Unborn
    <3>3. CASE FramesToSend' # FramesToSend
      <4> DEFINE matched == Matching(message.ids, message.source)
      <4>1. /\ ~Is_Process_Shutting_Down(message.source)
            /\ FramesToSend' = Send_Process_Message({message.source}, CAddMailboxMessage(matched))
        BY <2>6, <3>3 DEF Handle_Get_Mailbox_By_Properties_Request
      <4>2. /\ matched \in SUBSET (EProcessID \cup {INVALID})
            /\ \A p \in matched : Has_Record(p) /\ ~Is_Process_Shutting_Down(p) /\ p # message.source
        BY DEF Matching, Records
      <4> HIDE DEF matched
      <4>3. PICK source \in ManagedIDs, ids \in SUBSET (EProcessID \cup {INVALID}) :
                   source = message.source /\ ids = matched
        BY <2>1, <4>2
      <4>4. /\ source < NextID /\ ~Is_Process_Shutting_Down(source)
            /\ \A p \in ids : Has_Record(p) /\ ~Is_Process_Shutting_Down(p) /\ p # source
            /\ FramesToSend' = Send_Process_Message({source}, CAddMailboxMessage(ids))
            /\ \A request \in PersistentGetRequests' : request \in PersistentGetRequests \/ request[1] = source
        BY <2>1, <3>1, <4>1, <4>2, <4>3
      <4> QED BY <1>1, <1>3, <3>1, <4>4, GrantKeepsHandles
    <3> QED BY <3>2, <3>3
  <2>7. CASE Handle_Add_New_Process_Message
    <3>1. /\ NextID <= MaxProcessID /\ NextID' = NextID + 1
          /\ ProcessRecords' = [ProcessRecords EXCEPT ![NextID] = "INITIALIZING"]
          /\ ExecuteTask' = [ExecuteTask EXCEPT ![NextID] = "now"]
          /\ FramesToSend' = Frames_For_New_Process(NextID, message.source, message.opts)
          /\ UNCHANGED <<State, PendingShutdownIDs, PersistentGetRequests>>
      BY <2>2, <2>7 DEF Handle_Add_New_Process_Message
    <3>2. NextID \in ProcessIDs
      BY <3>1 DEF TypeOK, ManagerTypeOK, ProcessIDs
    <3>3. PICK new \in ProcessIDs : new = NextID
      BY <3>2
    <3> QED BY <1>1, <1>3, <2>1, <3>1, <3>3, AddKeepsHandles
  <2>8. CASE Handle_Shutdown_Process_Message
    <3>1. UNCHANGED <<State, NextID, ExecuteTask>> /\ message.id \in ProcessIDs
      BY <2>1, <2>8 DEF Handle_Shutdown_Process_Message, Handling, message
    <3>2. CASE ~Has_Record(message.id) \/ Is_Process_Shutting_Down(message.id)
      BY <2>4, <2>8, <3>1, <3>2 DEF Handle_Shutdown_Process_Message, Unborn
    <3>3. CASE Has_Record(message.id) /\ ~Is_Process_Shutting_Down(message.id)
      <4>1. Initiate_Process_Shutdown(message.id)
        BY <2>2, <2>8, <3>3 DEF Handle_Shutdown_Process_Message
      <4>2. PICK process \in ProcessIDs : process = message.id
        BY <3>1
      <4>3. Initiate_Process_Shutdown(process) /\ Has_Record(process) /\ ~Is_Process_Shutting_Down(process)
        BY <3>3, <4>1, <4>2
      <4> QED BY <1>1, <1>3, <3>1, <4>3, InitiateKeepsHandles
    <3> QED BY <3>2, <3>3
  <2>9. CASE Handle_Reschedule_Process_Message
    <3>1. UNCHANGED <<State, NextID, ProcessRecords, PendingShutdownIDs, PersistentGetRequests, FramesToSend>>
      BY <2>9 DEF Handle_Reschedule_Process_Message
    <3>2. \A q \in ProcessIDs : Unborn(q) => ExecuteTask'[q] = "none"
      <4>1. ExecuteTask \in [ManagedIDs -> ScheduleStates]
        BY DEF TypeOK, ManagerTypeOK
      <4>2. \/ ExecuteTask' = ExecuteTask
            \/ Has_Record(message.source) /\ ExecuteTask' = [ExecuteTask EXCEPT ![message.source] = "now"]
        BY <2>9 DEF Handle_Reschedule_Process_Message
      <4> QED BY <4>1, <4>2 DEF Unborn
    <3> QED BY <2>4, <3>1, <3>2
  <2>10. CASE Handle_Release_Mailbox_Response
    BY <1>1, <1>3, <2>10, ReleaseKeepsHandles
  <2>11. CASE Handle_Shutdown_Self_Response
    BY <1>1, <1>3, <2>11, RemoveKeepsHandles
  <2>12. CASE Handle_Shutdown_Manager_Message
    <3>1. /\ State' = "SHUTTING_DOWN_PHASE1"
          /\ FramesToSend' = Send_Process_Message(Records \ {CONCURRENCY_MANAGER, LOGGING}, CShutdownSelfRequest(TRUE))
          /\ UNCHANGED <<NextID, ProcessRecords>>
      BY <2>2, <2>12 DEF Handle_Shutdown_Manager_Message
    <3>2. PICK ids : FramesToSend' = Send_Process_Message(ids, CShutdownSelfRequest(TRUE))
      BY <3>1
    <3>3. /\ EndsAll(ids)
          /\ \A p \in EProcessID : ProcessRecords'[p] \in {ProcessRecords[p], "NO_RECORD"}
          /\ UNCHANGED <<mailbox, NextID>> /\ State' # "RUNNING"
      BY <1>1, <3>1, <3>2 DEF EndsAll
    <3> QED BY <3>3, EndingKeepsHandles
  <2> QED BY <2>5, <2>6, <2>7, <2>8, <2>9, <2>10, <2>11, <2>12 DEF Handle_Message
<1> QED BY <1>2, <1>3

(* The manager and the logging process have records while the manager    *)
(* runs: it is not alone.                                                *)
LEMMA NotAlone ==
  ASSUME ServiceInv
  PROVE  Cardinality(Records) # 1
<1>1. CONCURRENCY_MANAGER \in Records /\ LOGGING \in Records
  BY IDs DEF ServiceInv, Alive, Records, Has_Record
<1> SUFFICES ASSUME Cardinality(Records) = 1 PROVE FALSE
  OBVIOUS
<1>2. IsFiniteSet(Records)
  <2>1. IsFiniteSet(EProcessID)
    BY FS_Interval DEF EProcessID
  <2> QED BY <2>1, FS_Subset DEF Records
<1>3. PICK x : Records = {x}
  BY <1>2, FS_Singleton
<1> QED BY <1>1, <1>3

(* A step of the manager keeps the invariant, and what it hands out, it  *)
(* hands out while it runs.                                              *)
LEMMA HandleManager == TypeOK /\ HandleInv /\ Manager_Step => HandleInv' /\ Grants
<1> SUFFICES ASSUME TypeOK, HandleInv, Manager_Next, UNCHANGED processVars PROVE HandleInv' /\ Grants
  BY DEF Manager_Step
<1> USE IDs
<1>0. /\ mailbox \in [EProcessID -> Seq(Message)] /\ control_frames \in Seq(Message)
      /\ ExecuteTask \in [ManagedIDs -> ScheduleStates] /\ tbbQueue \in [ManagedIDs -> Nat]
      /\ threads \in [ManagedIDs -> {"none", "running", "exited"}]
      /\ ProcessRecords \in [EProcessID -> EInternalProcessState \cup {"NO_RECORD"}]
  BY DEF TypeOK, SharedTypeOK, ManagerTypeOK
<1>1. CASE Service_Incoming_Frames
  <2>1. UNCHANGED <<State, NextID, ProcessRecords, PendingShutdownIDs, ExecuteTask, PersistentGetRequests,
                    FramesToSend, tbbQueue, threads>>
    BY <1>1 DEF Service_Incoming_Frames
  <2>2. Contents(ToHandle') \subseteq Contents(ToHandle)
    <3> DEFINE rest == mailbox[CONCURRENCY_MANAGER]
    <3>1. control_frames' = rest /\ mailbox'[CONCURRENCY_MANAGER] = <<>> /\ rest \in Seq(Message) /\ <<>> \in Seq(Message)
      BY <1>0, <1>1 DEF Service_Incoming_Frames, Remove_Frames
    <3>2. ToHandle = control_frames \o rest /\ ToHandle' = rest \o <<>>
      BY <3>1 DEF ToHandle
    <3> HIDE DEF rest
    <3>3. /\ Contents(ToHandle) = Contents(control_frames) \cup Contents(rest)
          /\ Contents(ToHandle') = Contents(rest) \cup Contents(<<>>)
      BY <1>0, <3>1, <3>2, ContentsConcat
    <3> QED BY <3>3, ContentsFew
  <2>3. \A q \in ProcessIDs : mailbox'[q] = mailbox[q]
    BY <1>0, <1>1 DEF Service_Incoming_Frames, Remove_Frames, ProcessIDs
  <2>4. \A q \in EProcessID : /\ FramesToSend'[q] = FramesToSend[q]
                              /\ Has_Record(q)' <=> Has_Record(q)
                              /\ Alive(q)' <=> Alive(q)
                              /\ Closing(q)' <=> Closing(q)
                              /\ Closed(q)' <=> Closed(q)
    BY <2>1 DEF Has_Record, Alive, Closing, Closed
  <2>5. \A q \in ProcessIDs : Unborn(q) =>
          ExecuteTask'[q] = "none" /\ tbbQueue'[q] = tbbQueue[q] /\ threads'[q] = threads[q]
    BY <2>1 DEF Unborn
  <2> QED BY <2>1, <2>2, <2>3, <2>4, <2>5, QuietKeepsHandles
<1>2. CASE Handle_Message
  BY <1>2, HandlersKeepHandles
<1>3. CASE \E id \in EProcessID : Flush_Frame(id)
  BY <1>3, FlushKeepsHandles
<1>4. CASE Flush_Frames_Done
  <2>1. UNCHANGED <<State, NextID, ProcessRecords, PendingShutdownIDs, ExecuteTask, PersistentGetRequests,
                    FramesToSend, control_frames, mailbox, tbbQueue, threads>>
    BY <1>4 DEF Flush_Frames_Done, sharedVars
  <2>2. ToHandle' = ToHandle
    BY <2>1 DEF ToHandle
  <2>3. \A q \in EProcessID : /\ FramesToSend'[q] = FramesToSend[q]
                              /\ Has_Record(q)' <=> Has_Record(q)
                              /\ Alive(q)' <=> Alive(q)
                              /\ Closing(q)' <=> Closing(q)
                              /\ Closed(q)' <=> Closed(q)
    BY <2>1 DEF Has_Record, Alive, Closing, Closed
  <2>4. \A q \in ProcessIDs : Unborn(q) =>
          ExecuteTask'[q] = "none" /\ tbbQueue'[q] = tbbQueue[q] /\ threads'[q] = threads[q]
    BY <2>1 DEF Unborn
  <2> QED BY <2>1, <2>2, <2>3, <2>4, QuietKeepsHandles
<1>5. CASE \E id \in ManagedIDs : Execute_Process(id)
  <2>1. PICK id \in ManagedIDs : Execute_Process(id)
    BY <1>5
  <2>2. /\ UNCHANGED <<State, NextID, PendingShutdownIDs, PersistentGetRequests, FramesToSend, control_frames, mailbox>>
        /\ ExecuteTask' = [ExecuteTask EXCEPT ![id] = "none"]
    BY <2>1 DEF Execute_Process
  <2>3. ToHandle' = ToHandle
    BY <2>2 DEF ToHandle
  <2>4. \A q \in EProcessID : ProcessRecords'[q] = ProcessRecords[q]
                              \/ (ProcessRecords[q] = "INITIALIZING" /\ ProcessRecords'[q] = "RUNNING")
    BY <1>0, <2>1 DEF Execute_Process
  <2>5. \A q \in EProcessID : /\ FramesToSend'[q] = FramesToSend[q]
                              /\ Has_Record(q)' <=> Has_Record(q)
                              /\ Alive(q)' <=> Alive(q)
                              /\ Closing(q)' <=> Closing(q)
                              /\ Closed(q)' <=> Closed(q)
    BY <2>2, <2>4 DEF Has_Record, Alive, Closing, Closed
  <2>6. \A q \in ProcessIDs : ~Has_Record(q) => tbbQueue'[q] = tbbQueue[q] /\ threads'[q] = threads[q]
    BY <1>0, <2>1 DEF Execute_Process
  <2>7. \A q \in ProcessIDs : Unborn(q) =>
          ExecuteTask'[q] = "none" /\ tbbQueue'[q] = tbbQueue[q] /\ threads'[q] = threads[q]
    BY <1>0, <2>2, <2>6 DEF Unborn
  <2> QED BY <2>2, <2>3, <2>5, <2>7, QuietKeepsHandles
<1>6. CASE Service_Shutdown
  <2> DEFINE loggingOnly == Cardinality(Records) = 2 /\ State # "SHUTTING_DOWN_PHASE2"
             alone       == ~loggingOnly /\ Cardinality(Records) = 1
  <2>1. /\ State' = IF loggingOnly THEN "SHUTTING_DOWN_PHASE2" ELSE State
        /\ FramesToSend' = IF loggingOnly THEN Send_Process_Message({LOGGING}, CShutdownSelfRequest(TRUE)) ELSE FramesToSend
        /\ ProcessRecords' = IF alone THEN [id \in EProcessID |-> "NO_RECORD"] ELSE ProcessRecords
        /\ UNCHANGED <<NextID, PendingShutdownIDs, ExecuteTask, PersistentGetRequests, control_frames,
                       mailbox, tbbQueue, threads>>
    BY <1>6 DEF Service_Shutdown, sharedVars
  <2>2. State = "RUNNING" => ~alone
    BY NotAlone DEF HandleInv, RunningInv
  <2> HIDE DEF loggingOnly, alone
  <2>3. CASE State' # "RUNNING"
    <3>1. /\ \A p \in EProcessID : ProcessRecords'[p] \in {ProcessRecords[p], "NO_RECORD"}
          /\ EndsAll({LOGGING})
          /\ UNCHANGED <<mailbox, NextID>>
      BY <2>1 DEF EndsAll
    <3> QED BY <2>3, <3>1, EndingKeepsHandles
  <2>4. CASE State' = "RUNNING"
    <3>1. UNCHANGED <<State, FramesToSend, ProcessRecords>>
      BY <2>1, <2>2, <2>4
    <3>2. ToHandle' = ToHandle
      BY <2>1 DEF ToHandle
    <3>3. \A q \in EProcessID : /\ FramesToSend'[q] = FramesToSend[q]
                                /\ Has_Record(q)' <=> Has_Record(q)
                                /\ Alive(q)' <=> Alive(q)
                                /\ Closing(q)' <=> Closing(q)
                                /\ Closed(q)' <=> Closed(q)
      BY <3>1 DEF Has_Record, Alive, Closing, Closed
    <3>4. \A q \in ProcessIDs : Unborn(q) =>
            ExecuteTask'[q] = "none" /\ tbbQueue'[q] = tbbQueue[q] /\ threads'[q] = threads[q]
      BY <2>1 DEF Unborn
    <3> QED BY <2>1, <3>1, <3>2, <3>3, <3>4, QuietKeepsHandles
  <2> QED BY <2>3, <2>4
<1> QED BY <1>1, <1>2, <1>3, <1>4, <1>5, <1>6 DEF Manager_Next

(* So does every step.                                                   *)
LEMMA HandleNext == TypeOK /\ ExecutionInv /\ HandleInv /\ [Next]_vars => HandleInv' /\ Grants
<1> SUFFICES ASSUME TypeOK, ExecutionInv, HandleInv, [Next]_vars PROVE HandleInv' /\ Grants
  OBVIOUS
<1>1. CASE UNCHANGED <<mailbox, tbbQueue, threads, managerVars, processVars>>
  <2>1. UNCHANGED <<mailbox, tbbQueue, threads, State, NextID, ProcessRecords, PendingShutdownIDs, ExecuteTask,
                    PersistentGetRequests, FramesToSend, control_frames, processVars>>
    BY <1>1 DEF managerVars
  <2>2. ToHandle' = ToHandle
    BY <2>1 DEF ToHandle
  <2>3. \A q \in EProcessID : /\ FramesToSend'[q] = FramesToSend[q]
                              /\ Has_Record(q)' <=> Has_Record(q)
                              /\ Alive(q)' <=> Alive(q)
                              /\ Closing(q)' <=> Closing(q)
                              /\ Closed(q)' <=> Closed(q)
    BY <2>1 DEF Has_Record, Alive, Closing, Closed
  <2>4. \A q \in ProcessIDs : Unborn(q) =>
          ExecuteTask'[q] = "none" /\ tbbQueue'[q] = tbbQueue[q] /\ threads'[q] = threads[q]
    BY <2>1 DEF Unborn
  <2> QED BY <2>1, <2>2, <2>3, <2>4, QuietKeepsHandles
<1>2. CASE UNCHANGED vars
  BY <1>1, <1>2 DEF vars, sharedVars
<1>3. CASE Manager_Step
  BY <1>3, HandleManager
<1>4. CASE \E id \in ManagedIDs : Process_Step(id)
  BY <1>4, HandleProcess DEF Grants, NoNewHolders
<1>5. CASE Fatal_Assert
  BY <1>1, <1>5 DEF Fatal_Assert
<1>6. CASE Ended
  BY <1>2, <1>6 DEF Ended
<1> QED BY <1>2, <1>3, <1>4, <1>5, <1>6 DEF Next

(* The invariant holds whatever the processes ask for: AddMailbox,         *)
(* ReleaseMailboxRequest and ShutdownSelfRequest messages, the mailboxes a *)
(* process keeps and what it gives back are ordered as HandleInv says      *)
(* (ConcurrencyManager.cpp:690-771, ProcessBase.cpp:110-175 and 376-411).  *)
THEOREM HandlesCorrect == Spec => []HandleInv
<1>1. Init => TypeOK /\ ExecutionInv /\ HandleInv
  BY TypeInit, ExecutionInit, HandleInit
<1>2. (TypeOK /\ ExecutionInv /\ HandleInv) /\ [Next]_vars => (TypeOK /\ ExecutionInv /\ HandleInv)'
  BY TypeNext, ExecutionNext, HandleNext
<1> QED BY <1>1, <1>2, PTL DEF Spec

(* NoHandleLeft: who is told to shut itself down, or is gone, has no     *)
(* holders left (the comment in Handle_Release_Mailbox_Response).        *)
THEOREM NoOneHasAHandle == Spec => []NoHandleLeft
<1>1. HandleInv => NoHandleLeft
  <2> SUFFICES ASSUME HandleInv, NEW process \in ProcessIDs,
                      \/ ProcessRecords[process] = "SHUTTING_DOWN_PHASE2"
                      \/ State = "RUNNING" /\ ProcessRecords[process] = "NO_RECORD",
                      NEW q \in ProcessIDs, Holds(q, process)
               PROVE  FALSE
    BY HoldersHold DEF NoHandleLeft
  <2> QED BY DEF HandleInv, RunningInv, Soft, Held, Closed, Has_Record
<1> QED BY <1>1, HandlesCorrect, PTL

-----------------------------------------------------------------------------
(* The runtime implements MailboxHandles.                                *)

(* Only ids that have been given out have records, at the end too.       *)
Begun == \A p \in ProcessIDs : Has_Record(p) => p < NextID

(* What may become of a process in a step of the manager.                *)
Unchanging(p) == /\ Alive(p)' <=> Alive(p)
                 /\ Closing(p)' <=> Closing(p)
                 /\ Closed(p)' <=> Closed(p)
                 /\ Gone(p)' <=> Gone(p)

(* Or its record is that of the next stage of its life.                  *)
Life(p) ==
  \/ Unchanging(p)
  \/ /\ State = "RUNNING" /\ State' = "RUNNING"
     /\ \/ ~Has_Record(p) /\ ~Gone(p) /\ Alive(p)'
        \/ Alive(p) /\ Closing(p)'
        \/ (Alive(p) \/ Closing(p)) /\ Closed(p)'
  \/ Closed(p) /\ Gone(p)'
  \/ State # "RUNNING" /\ Has_Record(p) /\ Gone(p)'

(* In a step of the manager nothing else happens to a record, and the    *)
(* manager does not start to run again.                                  *)
LEMMA RecordsLive ==
  ASSUME TypeOK, HandleInv, Begun, Manager_Next
  PROVE  Begun' /\ (State' = State \/ State' # "RUNNING") /\ \A p \in ProcessIDs : Life(p)
<1> USE IDs
<1>0. /\ ProcessRecords \in [EProcessID -> EInternalProcessState \cup {"NO_RECORD"}]
      /\ NextID \in Int /\ ProcessIDs \subseteq Int
  BY DEF TypeOK, ManagerTypeOK
<1>1. ASSUME UNCHANGED <<NextID, ProcessRecords>>
      PROVE  Begun' /\ \A p \in ProcessIDs : Life(p)
  BY <1>1 DEF Begun, Has_Record, Life, Unchanging, Alive, Closing, Closed, Gone
<1>2. CASE Service_Incoming_Frames
  BY <1>1, <1>2 DEF Service_Incoming_Frames
<1>3. CASE Handle_Get_Mailbox_By_ID_Request
  BY <1>1, <1>3 DEF Handle_Get_Mailbox_By_ID_Request
<1>4. CASE Handle_Get_Mailbox_By_Properties_Request
  BY <1>1, <1>4 DEF Handle_Get_Mailbox_By_Properties_Request
<1>5. CASE Handle_Add_New_Process_Message
  <2>1. State' = State
    BY <1>5 DEF Handle_Add_New_Process_Message
  <2>2. CASE Is_Manager_Shutting_Down
    BY <1>1, <1>5, <2>2 DEF Handle_Add_New_Process_Message
  <2>3. CASE ~Is_Manager_Shutting_Down
    <3>1. /\ NextID' = NextID + 1
          /\ ProcessRecords' = [ProcessRecords EXCEPT ![NextID] = "INITIALIZING"]
          /\ State = "RUNNING"
      BY <1>5, <2>3 DEF Handle_Add_New_Process_Message, Is_Manager_Shutting_Down, TypeOK, ManagerTypeOK,
                        EConcurrencyManagerState
    <3>2. Begun'
      BY <1>0, <3>1 DEF Begun, Has_Record
    <3>3. ASSUME NEW p \in ProcessIDs PROVE Life(p)
      <4>1. CASE p = NextID
        <5>1. ~Has_Record(p) /\ ~Gone(p) /\ Alive(p)'
          BY <1>0, <3>1, <4>1 DEF Begun, Has_Record, Gone, Alive
        <5> QED BY <2>1, <3>1, <5>1 DEF Life
      <4>2. CASE p # NextID
        <5>1. ProcessRecords'[p] = ProcessRecords[p] /\ (p < NextID' <=> p < NextID)
          BY <1>0, <3>1, <4>2
        <5> QED BY <5>1 DEF Life, Unchanging, Alive, Closing, Closed, Gone
      <4> QED BY <4>1, <4>2
    <3> QED BY <2>1, <3>2, <3>3
  <2> QED BY <2>2, <2>3
<1>6. CASE Handle_Shutdown_Process_Message
  <2>1. State' = State /\ NextID' = NextID
    BY <1>6 DEF Handle_Shutdown_Process_Message
  <2>2. CASE UNCHANGED ProcessRecords
    BY <1>1, <2>1, <2>2
  <2>3. CASE ~UNCHANGED ProcessRecords
    <3>1. /\ State = "RUNNING" /\ Has_Record(message.id) /\ ~Is_Process_Shutting_Down(message.id)
          /\ Initiate_Process_Shutdown(message.id)
      BY <1>6, <2>3 DEF Handle_Shutdown_Process_Message, Is_Manager_Shutting_Down, TypeOK, ManagerTypeOK,
                        EConcurrencyManagerState
    <3>2. PICK process : process = message.id
      OBVIOUS
    <3>3. \E s \in {"SHUTTING_DOWN_PHASE1", "SHUTTING_DOWN_PHASE2"} : ProcessRecords' = [ProcessRecords EXCEPT ![process] = s]
      BY <3>1, <3>2 DEF Initiate_Process_Shutdown
    <3>4. \A p \in ProcessIDs : Has_Record(p)' => Has_Record(p)
      BY <1>0, <3>1, <3>2, <3>3 DEF Has_Record
    <3>5. ASSUME NEW p \in ProcessIDs PROVE Life(p)
      <4>1. CASE p = process
        <5>1. Alive(p)
          BY <3>1, <3>2, <4>1, AliveRuns
        <5>2. Closing(p)' \/ Closed(p)'
          BY <1>0, <3>3, <4>1 DEF Closing, Closed
        <5> QED BY <2>1, <3>1, <5>1, <5>2 DEF Life
      <4>2. CASE p # process
        BY <1>0, <2>1, <3>3, <4>2 DEF Life, Unchanging, Alive, Closing, Closed, Gone
      <4> QED BY <4>1, <4>2
    <3> QED BY <2>1, <3>4, <3>5 DEF Begun
  <2> QED BY <2>2, <2>3
<1>7. CASE Handle_Reschedule_Process_Message
  BY <1>1, <1>7 DEF Handle_Reschedule_Process_Message
<1>8. CASE Handle_Release_Mailbox_Response
  <2>1. State' = State /\ NextID' = NextID
    BY <1>8 DEF Handle_Release_Mailbox_Response
  <2>2. CASE UNCHANGED ProcessRecords
    BY <1>1, <2>1, <2>2
  <2>3. CASE ~UNCHANGED ProcessRecords
    <3>1. /\ State = "RUNNING"
          /\ \A id \in Released(message.ids) : ProcessRecords[id] = "SHUTTING_DOWN_PHASE1"
          /\ ProcessRecords' = [id \in EProcessID |-> IF id \in Finished(message.source, message.ids)
                                                      THEN "SHUTTING_DOWN_PHASE2" ELSE ProcessRecords[id]]
      BY <1>8, <2>3 DEF Handle_Release_Mailbox_Response, Is_Manager_Shutting_Down, TypeOK, ManagerTypeOK,
                        EConcurrencyManagerState
    <3>2. \A p \in ProcessIDs : \/ ProcessRecords'[p] = ProcessRecords[p]
                                \/ Closing(p) /\ Closed(p)' /\ Has_Record(p)
      BY <1>0, <3>1 DEF Finished, Closing, Closed, Has_Record
    <3>3. \A p \in ProcessIDs : (Has_Record(p)' => Has_Record(p)) /\ Life(p)
      BY <2>1, <3>1, <3>2 DEF Has_Record, Life, Unchanging, Alive, Closing, Closed, Gone
    <3> QED BY <2>1, <3>3 DEF Begun
  <2> QED BY <2>2, <2>3
<1>9. CASE Handle_Shutdown_Self_Response
  <2>1. /\ State' = State /\ NextID' = NextID
        /\ ProcessRecords[message.source] = "SHUTTING_DOWN_PHASE2"
             \/ (Has_Record(message.source) /\ Is_Manager_Shutting_Down)
        /\ ProcessRecords' = [ProcessRecords EXCEPT ![message.source] = "NO_RECORD"]
    BY <1>9 DEF Handle_Shutdown_Self_Response
  <2>2. \A p \in ProcessIDs : \/ ProcessRecords'[p] = ProcessRecords[p]
                              \/ /\ Closed(p) \/ (Has_Record(p) /\ State # "RUNNING")
                                 /\ ProcessRecords'[p] = "NO_RECORD" /\ Has_Record(p)
    BY <1>0, <2>1 DEF Closed, Has_Record, Is_Manager_Shutting_Down
  <2>3. \A p \in ProcessIDs : Has_Record(p)' => Has_Record(p)
    BY <2>2 DEF Has_Record
  <2>4. ASSUME NEW p \in ProcessIDs PROVE Life(p)
    <3>1. CASE ProcessRecords'[p] = ProcessRecords[p]
      BY <2>1, <3>1 DEF Life, Unchanging, Alive, Closing, Closed, Gone
    <3>2. CASE ProcessRecords'[p] = "NO_RECORD" /\ Has_Record(p) /\ (Closed(p) \/ (Has_Record(p) /\ State # "RUNNING"))
      <4>1. Gone(p)'
        BY <2>1, <3>2 DEF Gone, Begun
      <4> QED BY <3>2, <4>1 DEF Life
    <3> QED BY <2>2, <3>1, <3>2
  <2> QED BY <2>1, <2>3, <2>4 DEF Begun
<1>10. CASE Handle_Shutdown_Manager_Message
  BY <1>1, <1>10 DEF Handle_Shutdown_Manager_Message
<1>11. CASE \E id \in EProcessID : Flush_Frame(id)
  BY <1>1, <1>11 DEF Flush_Frame
<1>12. CASE Flush_Frames_Done
  BY <1>1, <1>12 DEF Flush_Frames_Done
<1>13. CASE \E id \in ManagedIDs : Execute_Process(id)
  <2>1. State' = State /\ NextID' = NextID
    BY <1>13 DEF Execute_Process
  <2>2. \A p \in ProcessIDs : ProcessRecords'[p] = ProcessRecords[p]
                              \/ (ProcessRecords[p] = "INITIALIZING" /\ ProcessRecords'[p] = "RUNNING")
    BY <1>0, <1>13 DEF Execute_Process
  <2> QED BY <2>1, <2>2 DEF Begun, Has_Record, Life, Unchanging, Alive, Closing, Closed, Gone
<1>14. CASE Service_Shutdown
  <2> DEFINE loggingOnly == Cardinality(Records) = 2 /\ State # "SHUTTING_DOWN_PHASE2"
             alone       == ~loggingOnly /\ Cardinality(Records) = 1
  <2>1. /\ State' = IF loggingOnly THEN "SHUTTING_DOWN_PHASE2" ELSE State
        /\ ProcessRecords' = IF alone THEN [id \in EProcessID |-> "NO_RECORD"] ELSE ProcessRecords
        /\ NextID' = NextID
    BY <1>14 DEF Service_Shutdown
  <2>2. State = "RUNNING" => ~alone
    BY NotAlone DEF HandleInv, RunningInv
  <2> HIDE DEF loggingOnly, alone
  <2>3. CASE UNCHANGED ProcessRecords
    BY <1>1, <2>1, <2>3
  <2>4. CASE ~UNCHANGED ProcessRecords
    <3>1. State # "RUNNING" /\ \A p \in ProcessIDs : ProcessRecords'[p] = "NO_RECORD"
      BY <2>1, <2>2, <2>4
    <3>2. \A p \in ProcessIDs : /\ ~Has_Record(p)' /\ ~Alive(p)' /\ ~Closing(p)' /\ ~Closed(p)'
                                /\ Gone(p)' <=> p < NextID
                                /\ Has_Record(p) => p < NextID
                                /\ ~Has_Record(p) => ~Alive(p) /\ ~Closing(p) /\ ~Closed(p) /\ (Gone(p) <=> p < NextID)
      BY <2>1, <3>1 DEF Has_Record, Alive, Closing, Closed, Gone, Begun
    <3> QED BY <2>1, <3>1, <3>2 DEF Begun, Life, Unchanging
  <2> QED BY <2>1, <2>3, <2>4
<1> QED BY <1>2, <1>3, <1>4, <1>5, <1>6, <1>7, <1>8, <1>9, <1>10, <1>11, <1>12, <1>13, <1>14 DEF Manager_Next, Handle_Message

(* What the manager has in hand for a process stays there until it is in  *)
(* the mailbox of the process, and nothing the manager sends is of a type *)
(* of the application's own.                                              *)
Sending(q) ==
  /\ Contents(FramesToSend[q]) \subseteq Contents(FramesToSend'[q])
  /\ \A m \in Contents(FramesToSend'[q]) : m.type # "User" \/ m \in Contents(FramesToSend[q])

(* The same, of the step as a whole.                                     *)
Arriving(q) ==
  /\ Contents(mailbox[q]) \subseteq Contents(mailbox'[q])
  /\ \/ Contents(FramesToSend[q]) \subseteq Contents(FramesToSend'[q])
     \/ Contents(FramesToSend[q]) \subseteq Contents(mailbox'[q])
  /\ \A m \in Contents(FramesToSend'[q]) : m.type # "User" \/ m \in Contents(FramesToSend[q])

(* A step of the manager loses no message to a process.                  *)
LEMMA FramesArrive ==
  ASSUME TypeOK, Manager_Next
  PROVE  \A q \in ProcessIDs : Arriving(q)
<1> USE IDs
<1>0. /\ \A q \in EProcessID : FramesToSend[q] \in Seq(Message) /\ mailbox[q] \in Seq(Message)
      /\ mailbox \in [EProcessID -> Seq(Message)]
  BY DEF TypeOK, ManagerTypeOK, SharedTypeOK
<1>1. ASSUME \A q \in ProcessIDs : mailbox'[q] = mailbox[q] /\ Sending(q)
      PROVE  \A q \in ProcessIDs : Arriving(q)
  BY <1>1 DEF Arriving, Sending
<1>2. ASSUME NEW ids, NEW m \in Message, m.type # "User", FramesToSend' = Send_Process_Message(ids, m)
      PROVE  \A q \in ProcessIDs : Sending(q)
  <2> SUFFICES ASSUME NEW q \in ProcessIDs PROVE Sending(q)
    OBVIOUS
  <2>1. FramesToSend'[q] = IF q \in ids THEN Append(FramesToSend[q], m) ELSE FramesToSend[q]
    BY <1>2 DEF Send_Process_Message
  <2>2. Contents(Append(FramesToSend[q], m)) = Contents(FramesToSend[q]) \cup {m}
    BY <1>0, ContentsAppend
  <2> QED BY <1>2, <2>1, <2>2 DEF Sending
<1>3. CASE Service_Incoming_Frames
  <2>1. FramesToSend' = FramesToSend /\ \A q \in ProcessIDs : mailbox'[q] = mailbox[q]
    BY <1>0, <1>3 DEF Service_Incoming_Frames, Remove_Frames, ProcessIDs
  <2> QED BY <1>1, <2>1 DEF Sending
<1>4. CASE Handle_Message
  <2>0. /\ mailbox' = mailbox /\ message \in Message /\ message.id \in EProcessID \cup {INVALID}
        /\ message.source \in EProcessID
    BY <1>4, HandlerFrame, Handles_Message DEF Message
  <2>1. CASE FramesToSend' = FramesToSend
    BY <1>1, <2>0, <2>1 DEF Sending
  <2>2. CASE FramesToSend' # FramesToSend
    <3>1. CASE \E ids : \E m \in Message : m.type # "User" /\ FramesToSend' = Send_Process_Message(ids, m)
      BY <1>1, <1>2, <2>0, <3>1
    <3>2. CASE Handle_Get_Mailbox_By_ID_Request
      <4>1. CAddMailboxMessage({message.id}) \in Message /\ CAddMailboxMessage({message.id}).type # "User"
        BY <2>0, Constructors DEF CAddMailboxMessage
      <4> QED BY <2>2, <3>1, <3>2, <4>1 DEF Handle_Get_Mailbox_By_ID_Request
    <3>3. CASE Handle_Get_Mailbox_By_Properties_Request
      <4> DEFINE matched == Matching(message.ids, message.source)
      <4>1. matched \in SUBSET (EProcessID \cup {INVALID})
        BY DEF Matching, Records
      <4>2. FramesToSend' = Send_Process_Message({message.source}, CAddMailboxMessage(matched))
        BY <2>2, <3>3 DEF Handle_Get_Mailbox_By_Properties_Request
      <4> HIDE DEF matched
      <4>3. CAddMailboxMessage(matched) \in Message /\ CAddMailboxMessage(matched).type # "User"
        BY <4>1, Constructors DEF CAddMailboxMessage
      <4> QED BY <3>1, <4>2, <4>3
    <3>4. CASE Handle_Add_New_Process_Message
      <4>1. FramesToSend' = Frames_For_New_Process(NextID, message.source, message.opts)
        BY <2>2, <3>4 DEF Handle_Add_New_Process_Message
      <4>2. NextID \in EProcessID
        BY <2>2, <3>4 DEF Handle_Add_New_Process_Message, TypeOK, ManagerTypeOK, EProcessID
      <4>3. ASSUME NEW q \in ProcessIDs PROVE Sending(q)
        <5> DEFINE Plain == { s \in Seq(Message) : \A m \in Contents(s) : m.type # "User" }
        <5>1. \A given : \A ids \in SUBSET (EProcessID \cup {INVALID}) : Mailboxes_If(given, ids) \in Plain
          <6> SUFFICES ASSUME NEW given, NEW ids \in SUBSET (EProcessID \cup {INVALID})
                       PROVE  Mailboxes_If(given, ids) \in Plain
            OBVIOUS
          <6>1. CAddMailboxMessage(ids) \in Message /\ CAddMailboxMessage(ids).type # "User"
            BY Constructors DEF CAddMailboxMessage
          <6> QED BY <6>1, ContentsFew DEF Mailboxes_If
        <5>2. {NextID} \in SUBSET (EProcessID \cup {INVALID})
                /\ {Get_Mailbox(message.source)} \in SUBSET (EProcessID \cup {INVALID})
          BY <2>0, <4>2 DEF Get_Mailbox
        <5>3. PICK a \in Plain, b \in Plain, c \in Plain :
                FramesToSend'[q] = ((FramesToSend[q] \o a) \o b) \o c
          BY <4>1, <5>1, <5>2 DEF Frames_For_New_Process
        <5> DEFINE f == FramesToSend[q]
        <5>4. f \in Seq(Message)
          BY <1>0
        <5> HIDE DEF f
        <5>5. f \o a \in Seq(Message) /\ Contents(f \o a) = Contents(f) \cup Contents(a)
          BY <5>4, ContentsConcat
        <5>6. (f \o a) \o b \in Seq(Message) /\ Contents((f \o a) \o b) = Contents(f \o a) \cup Contents(b)
          BY <5>5, ContentsConcat
        <5>7. Contents(((f \o a) \o b) \o c) = Contents((f \o a) \o b) \cup Contents(c)
          BY <5>6, ContentsConcat
        <5> QED BY <5>3, <5>5, <5>6, <5>7 DEF f, Sending
      <4> QED BY <1>1, <2>0, <4>3
    <3>5. CASE Handle_Shutdown_Process_Message
      <4>1. Initiate_Process_Shutdown(message.id) /\ Has_Record(message.id)
        BY <2>2, <3>5 DEF Handle_Shutdown_Process_Message
      <4>2. CASE Others(message.id) = {}
        <5>1. CShutdownSelfRequest(FALSE) \in Message /\ CShutdownSelfRequest(FALSE).type # "User"
          BY Constructors DEF CShutdownSelfRequest
        <5> QED BY <3>1, <4>1, <4>2, <5>1 DEF Initiate_Process_Shutdown
      <4>3. CASE Others(message.id) # {}
        <5>1. FramesToSend' = Send_Process_Message(Others(message.id), CReleaseMailboxRequest(message.id))
          BY <4>1, <4>3 DEF Initiate_Process_Shutdown
        <5>2. CReleaseMailboxRequest(message.id) \in Message /\ CReleaseMailboxRequest(message.id).type # "User"
          BY <2>0 DEF CReleaseMailboxRequest, About, Message, MessageTypes
        <5> QED BY <3>1, <5>1, <5>2
      <4> QED BY <4>2, <4>3
    <3>6. CASE Handle_Reschedule_Process_Message
      BY <2>2, <3>6 DEF Handle_Reschedule_Process_Message
    <3>7. CASE Handle_Release_Mailbox_Response
      <4>1. CShutdownSelfRequest(FALSE) \in Message /\ CShutdownSelfRequest(FALSE).type # "User"
        BY Constructors DEF CShutdownSelfRequest
      <4> QED BY <2>2, <3>1, <3>7, <4>1 DEF Handle_Release_Mailbox_Response
    <3>8. CASE Handle_Shutdown_Self_Response
      BY <2>2, <3>8 DEF Handle_Shutdown_Self_Response
    <3>9. CASE Handle_Shutdown_Manager_Message
      <4>1. CShutdownSelfRequest(TRUE) \in Message /\ CShutdownSelfRequest(TRUE).type # "User"
        BY Constructors DEF CShutdownSelfRequest
      <4> QED BY <2>2, <3>1, <3>9, <4>1 DEF Handle_Shutdown_Manager_Message
    <3> QED BY <1>4, <3>2, <3>3, <3>4, <3>5, <3>6, <3>7, <3>8, <3>9 DEF Handle_Message
  <2> QED BY <2>1, <2>2
<1>5. CASE \E id \in EProcessID : Flush_Frame(id)
  <2>1. PICK id \in EProcessID : Flush_Frame(id)
    BY <1>5
  <2>2. ASSUME NEW q \in ProcessIDs PROVE Arriving(q)
    <3>1. CASE q = id
      <4>1. mailbox'[q] = mailbox[q] \o FramesToSend[q]
        BY <1>0, <2>1, <3>1 DEF Flush_Frame, Add_Frame
      <4>2. Contents(mailbox[q] \o FramesToSend[q]) = Contents(mailbox[q]) \cup Contents(FramesToSend[q])
        BY <1>0, ContentsConcat
      <4>3. FramesToSend'[q] = <<>>
        BY <2>1, <3>1 DEF Flush_Frame, TypeOK, ManagerTypeOK
      <4> QED BY <4>1, <4>2, <4>3, ContentsFew DEF Arriving
    <3>2. CASE q # id
      <4>1. mailbox'[q] = mailbox[q] /\ FramesToSend'[q] = FramesToSend[q]
        BY <1>0, <2>1, <3>2 DEF Flush_Frame, Add_Frame, TypeOK, ManagerTypeOK
      <4> QED BY <4>1 DEF Arriving
    <3> QED BY <3>1, <3>2
  <2> QED BY <2>2
<1>6. CASE Flush_Frames_Done
  BY <1>1, <1>6 DEF Flush_Frames_Done, sharedVars, Sending
<1>7. CASE \E id \in ManagedIDs : Execute_Process(id)
  BY <1>1, <1>7 DEF Execute_Process, Sending
<1>8. CASE Service_Shutdown
  <2>1. mailbox' = mailbox
    BY <1>8 DEF Service_Shutdown, sharedVars
  <2>2. FramesToSend' = FramesToSend \/ FramesToSend' = Send_Process_Message({LOGGING}, CShutdownSelfRequest(TRUE))
    BY <1>8 DEF Service_Shutdown
  <2>3. CShutdownSelfRequest(TRUE) \in Message /\ CShutdownSelfRequest(TRUE).type # "User"
    BY Constructors DEF CShutdownSelfRequest
  <2>4. FramesToSend' = FramesToSend => \A q \in ProcessIDs : Sending(q)
    BY DEF Sending
  <2> QED BY <1>1, <1>2, <2>1, <2>2, <2>3, <2>4
<1> QED BY <1>3, <1>4, <1>5, <1>6, <1>7, <1>8 DEF Manager_Next

(* HandleStatus, of one process and in terms of the records.             *)
LEMMA StatusIs ==
  ASSUME NEW p \in ProcessIDs
  PROVE  /\ TypeOK => /\ HandleStatus[p] \in Handles!Status
                      /\ HandleStatus[p] = "running" <=> Alive(p)
                      /\ HandleStatus[p] = "closing" <=> Closing(p)
                      /\ HandleStatus[p] = "closed" <=> Closed(p)
                      /\ HandleStatus[p] = "gone" <=> Gone(p)
                      /\ HandleStatus[p] = "unborn" <=> ~Has_Record(p) /\ ~Gone(p)
         /\ TypeOK' => /\ HandleStatus'[p] \in Handles!Status
                       /\ HandleStatus'[p] = "running" <=> Alive(p)'
                       /\ HandleStatus'[p] = "closing" <=> Closing(p)'
                       /\ HandleStatus'[p] = "closed" <=> Closed(p)'
                       /\ HandleStatus'[p] = "gone" <=> Gone(p)'
                       /\ HandleStatus'[p] = "unborn" <=> ~Has_Record(p)' /\ ~Gone(p)'
<1>0. p \in EProcessID /\ p \in Int
  BY IDs
<1>1. ASSUME TypeOK
      PROVE  /\ HandleStatus[p] \in Handles!Status
             /\ HandleStatus[p] = "running" <=> Alive(p)
             /\ HandleStatus[p] = "closing" <=> Closing(p)
             /\ HandleStatus[p] = "closed" <=> Closed(p)
             /\ HandleStatus[p] = "gone" <=> Gone(p)
             /\ HandleStatus[p] = "unborn" <=> ~Has_Record(p) /\ ~Gone(p)
  <2>1. ProcessRecords[p] \in EInternalProcessState \cup {"NO_RECORD"} /\ NextID \in Int
    BY <1>0, <1>1 DEF TypeOK, ManagerTypeOK
  <2> QED BY <1>0, <2>1 DEF HandleStatus, Handles!Status, Alive, Closing, Closed, Gone, Has_Record, EInternalProcessState
<1>2. ASSUME TypeOK'
      PROVE  /\ HandleStatus'[p] \in Handles!Status
             /\ HandleStatus'[p] = "running" <=> Alive(p)'
             /\ HandleStatus'[p] = "closing" <=> Closing(p)'
             /\ HandleStatus'[p] = "closed" <=> Closed(p)'
             /\ HandleStatus'[p] = "gone" <=> Gone(p)'
             /\ HandleStatus'[p] = "unborn" <=> ~Has_Record(p)' /\ ~Gone(p)'
  <2>1. ProcessRecords'[p] \in EInternalProcessState \cup {"NO_RECORD"} /\ NextID' \in Int
    BY <1>0, <1>2 DEF TypeOK, ManagerTypeOK
  <2> QED BY <1>0, <2>1 DEF HandleStatus, Handles!Status, Alive, Closing, Closed, Gone, Has_Record, EInternalProcessState
<1> QED BY <1>1, <1>2

(* What happens to one process in a step.                                *)
LEMMA OneHandleStep ==
  ASSUME TypeOK, TypeOK', HandleInv, HandleInv', Grants, State' = "RUNNING" => State = "RUNNING",
         NEW p \in ProcessIDs, Life(p),
         \/ Unchanging(p) /\ NoNewHolders
         \/ State' = "RUNNING" => \A q \in ProcessIDs : Holds(q, p) => Holds(q, p)'
  PROVE  Handles!Step(p)
<1> DEFINE h == Holders(p)
<1>1. /\ h = { q \in ProcessIDs : Holds(q, p) }
      /\ h' = { q \in ProcessIDs : Holds(q, p)' }
      /\ [x \in ProcessIDs |-> Holders(x)][p] = h
      /\ [x \in ProcessIDs |-> Holders(x)'][p] = h'
  BY HoldersHold
<1> HIDE DEF h
<1>2. /\ HandleStatus[p] = "running" <=> Alive(p)
      /\ HandleStatus[p] = "closing" <=> Closing(p)
      /\ HandleStatus[p] = "closed" <=> Closed(p)
      /\ HandleStatus[p] = "gone" <=> Gone(p)
      /\ HandleStatus[p] = "unborn" <=> ~Has_Record(p) /\ ~Gone(p)
      /\ HandleStatus'[p] = "running" <=> Alive(p)'
      /\ HandleStatus'[p] = "closing" <=> Closing(p)'
      /\ HandleStatus'[p] = "closed" <=> Closed(p)'
      /\ HandleStatus'[p] = "gone" <=> Gone(p)'
      /\ HandleStatus[p] \in Handles!Status /\ HandleStatus'[p] \in Handles!Status
  BY StatusIs
<1>3. /\ Alive(p)' => ~Closing(p)' /\ ~Closed(p)' /\ ~Gone(p)'
      /\ Alive(p) => Has_Record(p)
      /\ Has_Record(p) => ~Gone(p)
  BY DEF Alive, Closing, Closed, Gone, Has_Record
<1>4. ~Alive(p)' \/ State' # "RUNNING" \/ Leaving(p) => h' \subseteq h
  BY <1>1 DEF Grants
<1>5. CASE Unchanging(p)
  <2>1. HandleStatus'[p] = HandleStatus[p]
    BY <1>2, <1>5 DEF Unchanging, Handles!Status
  <2>2. CASE h' \subseteq h
    BY <1>1, <2>1, <2>2 DEF Handles!Step, Handles!Release
  <2>3. CASE ~(h' \subseteq h)
    <3>1. Alive(p)' /\ Alive(p) /\ State' = "RUNNING"
      BY <1>4, <1>5, <2>3 DEF Unchanging
    <3>2. ~NoNewHolders
      BY <1>1, <2>3 DEF NoNewHolders
    <3>3. h \subseteq h'
      BY <1>1, <3>1, <3>2
    <3> QED BY <1>1, <1>2, <3>1, <3>3 DEF Handles!Step, Handles!Grant
  <2> QED BY <2>2, <2>3
<1>6. CASE /\ State = "RUNNING" /\ State' = "RUNNING"
           /\ ~Has_Record(p) /\ ~Gone(p) /\ Alive(p)'
  <2>1. h = {}
    BY <1>1, <1>6 DEF HandleInv, RunningInv, Held
  <2> QED BY <1>1, <1>2, <1>6, <2>1 DEF Handles!Step, Handles!Create
<1>7. CASE ~Unchanging(p) /\ State' = "RUNNING" /\ Alive(p) /\ Closing(p)'
  <2>1. h = h'
    BY <1>1, <1>3, <1>4, <1>7
  <2> QED BY <1>1, <1>2, <1>7, <2>1 DEF Handles!Step, Handles!Begin_Shutdown
<1>8. CASE ~Unchanging(p) /\ State' = "RUNNING" /\ (Alive(p) \/ Closing(p)) /\ Closed(p)'
  <2>1. h' = {}
    BY <1>1, <1>8 DEF HandleInv, Soft
  <2>2. h = {}
    BY <1>1, <1>8, <2>1
  <2> QED BY <1>1, <1>2, <1>8, <2>1, <2>2 DEF Handles!Step, Handles!Close
<1>9. CASE Gone(p)' /\ (Closed(p) \/ (State # "RUNNING" /\ Has_Record(p)))
  BY <1>1, <1>2, <1>3, <1>4, <1>9 DEF Handles!Step, Handles!Remove
<1> QED BY <1>5, <1>6, <1>7, <1>8, <1>9 DEF Life

(* A step of the runtime is one of MailboxHandles.                       *)
LEMMA HandlesNext ==
  ASSUME TypeOK, TypeOK', ExecutionInv, HandleInv, Begun, [Next]_vars
  PROVE  Begun' /\ Handles!Next
<1>1. HandleInv' /\ Grants
  BY HandleNext
<1>2. Begun' /\ (State' = State \/ State' # "RUNNING") /\ \A p \in ProcessIDs : Handles!Step(p)
  <2>1. CASE Manager_Step
    <3>1. Manager_Next /\ UNCHANGED processVars
      BY <2>1 DEF Manager_Step
    <3>2. Begun' /\ (State' = State \/ State' # "RUNNING") /\ \A p \in ProcessIDs : Life(p)
      BY <3>1, RecordsLive
    <3>3. ASSUME State' = "RUNNING", NEW q \in ProcessIDs, NEW p \in ProcessIDs, Holds(q, p) PROVE Holds(q, p)'
      <4>1. Arriving(q) /\ UNCHANGED Mailboxes
        BY <3>1, FramesArrive DEF processVars
      <4>2. /\ Hands(mailbox[q], p) => Hands(mailbox'[q], p)
            /\ Hands(FramesToSend[q], p) => Hands(mailbox'[q], p) \/ Hands(FramesToSend'[q], p)
        BY <4>1 DEF Arriving, Hands
      <4>3. Hands(FramesToSend[q], p) /\ Has_Record(q) => Has_Record(q)'
        <5> SUFFICES ASSUME Hands(FramesToSend[q], p), Has_Record(q), ~Has_Record(q)' PROVE FALSE
          OBVIOUS
        <5>1. Gone(q)'
          <6>1. ProcessRecords[q] \in EInternalProcessState \cup {"NO_RECORD"}
            BY IDs DEF TypeOK, ManagerTypeOK
          <6>2. Has_Record(q) <=> Alive(q) \/ Closing(q) \/ Closed(q)
            BY <6>1 DEF Has_Record, Alive, Closing, Closed, EInternalProcessState
          <6>3. Alive(q)' \/ Closing(q)' \/ Closed(q)' => Has_Record(q)'
            BY DEF Has_Record, Alive, Closing, Closed
          <6> QED BY <3>2, <6>2, <6>3 DEF Life, Unchanging
        <5>2. Told(q) /\ Told(q)'
          BY <1>1, <3>2, <3>3 DEF HandleInv, RunningInv
        <5>3. Is_Shutting_Down(q)
          BY <3>1, <5>1, <5>2 DEF Told, Is_Shutting_Down, processVars
        <5> QED BY <5>2, <5>3 DEF Told
      <4> QED BY <3>3, <4>1, <4>2, <4>3 DEF Holds
    <3> QED BY <1>1, <3>2, <3>3, OneHandleStep
  <2>2. CASE UNCHANGED managerVars /\ NoNewHolders
    <3>1. UNCHANGED <<State, NextID, ProcessRecords>>
      BY <2>2 DEF managerVars
    <3>2. \A p \in ProcessIDs : Unchanging(p) /\ Life(p)
      BY <3>1 DEF Life, Unchanging, Alive, Closing, Closed, Gone
    <3>3. \A p \in ProcessIDs : Handles!Step(p)
      BY <1>1, <2>2, <3>1, <3>2, OneHandleStep
    <3> QED BY <3>1, <3>3 DEF Begun, Has_Record
  <2>3. CASE \E id \in ManagedIDs : Process_Step(id)
    BY <2>2, <2>3, HandleProcess DEF Process_Step
  <2>4. CASE UNCHANGED <<mailbox, managerVars, processVars>>
    <3>1. NoNewHolders
      BY <2>4 DEF NoNewHolders, Holds, Has_Record, managerVars, processVars
    <3> QED BY <2>2, <2>4, <3>1
  <2> QED BY <2>1, <2>3, <2>4 DEF Next, Fatal_Assert, Ended, vars, sharedVars
<1>3. HandleStatus' \in [ProcessIDs -> Handles!Status]
  <2>1. \A p \in ProcessIDs : /\ p \in Int
                              /\ ProcessRecords'[p] \in EInternalProcessState \cup {"NO_RECORD"}
    BY IDs DEF TypeOK, ManagerTypeOK
  <2>2. NextID' \in Int
    BY DEF TypeOK, ManagerTypeOK
  <2> QED BY <2>1, <2>2 DEF HandleStatus, Handles!Status, EInternalProcessState
<1>4. [p \in ProcessIDs |-> Holders(p)]' \in [ProcessIDs -> SUBSET ProcessIDs]
  BY DEF Holders
<1>5. (State # "RUNNING")' \in {State # "RUNNING", TRUE}
  BY <1>2
<1> QED BY <1>2, <1>3, <1>4, <1>5 DEF Handles!Next

(* The initial states are those of MailboxHandles.                       *)
LEMMA HandlesInit == Init => Handles!Init /\ Begun
<1> SUFFICES ASSUME Init PROVE Handles!Init /\ Begun
  OBVIOUS
<1> USE IDs
<1>1. /\ State = "RUNNING" /\ NextID = FIRST_FREE_ID + 1
      /\ ProcessRecords = [id \in EProcessID |-> IF id <= FIRST_FREE_ID THEN "INITIALIZING" ELSE "NO_RECORD"]
  BY DEF Init, Setup_For_Run
<1>2. \A q \in ProcessIDs : mailbox[q] = <<>> /\ FramesToSend[q] = <<>> /\ Mailboxes[q] = {}
  BY DEF Init, SharedInit, Setup_For_Run, ProcessInit
<1>3. \A p \in ProcessIDs : Holders(p) = {}
  <2>1. \A q, p \in ProcessIDs : ~Holds(q, p)
    BY <1>2, EmptySaysNothing DEF Holds
  <2> QED BY <2>1, HoldersHold
<1>4. \A p \in ProcessIDs : p \in Int /\ p >= FIRST_FREE_ID
  BY DEF ProcessIDs
<1>5. HandleStatus = [p \in ProcessIDs |-> IF p = FIRST_FREE_ID THEN "running" ELSE "unborn"]
  <2>1. \A p \in ProcessIDs : ProcessRecords[p] = IF p = FIRST_FREE_ID THEN "INITIALIZING" ELSE "NO_RECORD"
    BY <1>1, <1>4
  <2>2. \A p \in ProcessIDs : p # FIRST_FREE_ID => p >= NextID /\ ~(p < NextID)
    BY <1>1, <1>4
  <2> QED BY <2>1, <2>2 DEF HandleStatus
<1>6. Begun
  BY <1>1, <1>4 DEF Begun, Has_Record
<1> QED BY <1>1, <1>3, <1>5, <1>6 DEF Handles!Init

(* ImplementsMailboxHandles: handles are given out, released and gone as *)
(* MailboxHandles has it, whatever the shutdowns that overlap.           *)
THEOREM RuntimeImplementsHandles == Spec => ImplementsMailboxHandles
<1>1. Init => TypeOK /\ ExecutionInv /\ HandleInv /\ Begun /\ Handles!Init
  BY TypeInit, ExecutionInit, HandleInit, HandlesInit
<1>2. TypeOK /\ ExecutionInv /\ HandleInv /\ Begun /\ [Next]_vars
        => (TypeOK /\ ExecutionInv /\ HandleInv /\ Begun)' /\ [Handles!Next]_(Handles!vars)
  BY TypeNext, ExecutionNext, HandleNext, HandlesNext
<1> QED BY <1>1, <1>2, PTL DEF Spec, ImplementsMailboxHandles, Handles!Spec

-----------------------------------------------------------------------------
(* A soft shutdown loses no message.                                     *)

(* The manager sends no message of the application's own types, and the  *)
(* logging process none but to the manager.                              *)
QuietInv ==
  /\ SoftShutdownLosesNothing
  /\ \A q \in ProcessIDs : \A m \in Contents(FramesToSend[q]) : m.type # "User"
  /\ \A dest \in ProcessIDs : PendingOutboundFrames[LOGGING][dest] = 0

(* The invariant is kept: who has shut down softly has an empty mailbox  *)
(* then, and no one has a handle to it to send it more.                  *)
LEMMA QuietNext ==
  ASSUME TypeOK, ExecutionInv, HandleInv, QuietInv, [Next]_vars
  PROVE  QuietInv'
<1> USE IDs
<1>0. /\ mailbox \in [EProcessID -> Seq(Message)] /\ processState \in [ManagedIDs -> EProcessState]
      /\ PendingOutboundFrames \in [ManagedIDs -> [ProcessIDs -> Nat]]
      /\ ManagerFrame \in [ManagedIDs -> Seq(Message)]
  BY DEF TypeOK, SharedTypeOK, ProcessTypeOK
<1>1. ASSUME UNCHANGED <<FramesToSend, processState, PendingOutboundFrames>>,
             \A q \in ProcessIDs : mailbox'[q] = mailbox[q]
      PROVE  QuietInv'
  BY <1>1 DEF QuietInv, SoftShutdownLosesNothing
<1>2. CASE Manager_Step
  <2>1. Manager_Next /\ UNCHANGED processVars
    BY <1>2 DEF Manager_Step
  <2>2. ASSUME NEW q \in ProcessIDs
        PROVE  /\ \A m \in Contents(FramesToSend'[q]) : m.type # "User"
               /\ processState'[q] = "EPS_SHUTTING_DOWN_SOFT" => \A m \in Contents(mailbox'[q]) : m.type # "User"
    <3>1. \A m \in Contents(FramesToSend'[q]) : m.type # "User"
      BY <2>1, FramesArrive DEF Arriving, QuietInv
    <3>2. Contents(mailbox'[q]) \subseteq Contents(mailbox[q]) \cup Contents(FramesToSend[q])
      <4>1. CASE \E id \in EProcessID : Flush_Frame(id)
        <5>1. mailbox'[q] \in {mailbox[q], mailbox[q] \o FramesToSend[q]}
          BY <1>0, <4>1 DEF Flush_Frame, Add_Frame
        <5>2. Contents(mailbox[q] \o FramesToSend[q]) = Contents(mailbox[q]) \cup Contents(FramesToSend[q])
          BY <1>0, ContentsConcat DEF TypeOK, ManagerTypeOK
        <5> QED BY <5>1, <5>2
      <4>2. CASE Service_Incoming_Frames
        BY <1>0, <4>2 DEF Service_Incoming_Frames, Remove_Frames, ProcessIDs
      <4>3. CASE Handle_Message
        BY <4>3, HandlerFrame
      <4>4. CASE Flush_Frames_Done \/ Service_Shutdown \/ \E id \in ManagedIDs : Execute_Process(id)
        BY <4>4 DEF Flush_Frames_Done, Service_Shutdown, Execute_Process, sharedVars
      <4> QED BY <2>1, <4>1, <4>2, <4>3, <4>4 DEF Manager_Next
    <3> QED BY <2>1, <3>1, <3>2 DEF QuietInv, SoftShutdownLosesNothing, processVars
  <2> QED BY <2>1, <2>2 DEF QuietInv, SoftShutdownLosesNothing, processVars
<1>3. ASSUME NEW id \in ManagedIDs, Process_Step(id) PROVE QuietInv'
  <2>0. Process_Next(id) /\ UNCHANGED FramesToSend
    BY <1>3 DEF Process_Step, managerVars
  <2>1. CASE Run(id) /\ ~Is_Shutting_Down(id)
    <3>1. Service_Message_Frames(id)
      BY <2>1 DEF Run
    <3>2. mailbox' = [mailbox EXCEPT ![id] = <<>>] /\ processState' = [processState EXCEPT ![id] = State_After_Messages(id)]
      BY <3>1 DEF Service_Message_Frames, Remove_Frames
    <3>3. SoftShutdownLosesNothing'
      BY <1>0, <3>2, ContentsFew DEF QuietInv, SoftShutdownLosesNothing
    <3>4. \A dest \in ProcessIDs : PendingOutboundFrames'[LOGGING][dest] = 0
      <4>1. PICK sentTo \in {{}} \cup { {dest} : dest \in Recipients(id) } :
              PendingOutboundFrames' =
                [PendingOutboundFrames EXCEPT ![id] =
                   [dest \in ProcessIDs |-> IF dest \in sentTo THEN @[dest] + 1 ELSE @[dest]]]
        BY <3>1 DEF Service_Message_Frames
      <4>2. CASE id = LOGGING
        <5>1. sentTo = {}
          BY <4>2 DEF Recipients
        <5> QED BY <1>0, <4>1, <4>2, <5>1 DEF QuietInv
      <4>3. CASE id # LOGGING
        BY <1>0, <4>1, <4>3 DEF QuietInv
      <4> QED BY <4>2, <4>3
    <3> QED BY <2>0, <3>3, <3>4 DEF QuietInv
  <2>2. CASE Run(id) /\ Is_Shutting_Down(id)
    BY <1>1, <2>0, <2>2 DEF Run
  <2>3. CASE \E dest \in ProcessIDs : Flush_Regular_Message(id, dest)
    <3>1. PICK dest \in ProcessIDs : Flush_Regular_Message(id, dest)
      BY <2>3
    <3>2. /\ dest \in Mailboxes[id] /\ PendingOutboundFrames[id][dest] > 0
          /\ processState' = processState
          /\ PendingOutboundFrames' = [PendingOutboundFrames EXCEPT ![id][dest] = 0]
      BY <3>1 DEF Flush_Regular_Message, Sendable
    <3>3. id # LOGGING /\ id \in ProcessIDs
      BY <3>2 DEF QuietInv, ManagedIDs, ProcessIDs
    <3>4. processState[dest] # "EPS_SHUTTING_DOWN_SOFT"
      BY <3>2, <3>3 DEF HandleInv, Soft, Softly, Holds
    <3>5. \A q \in ProcessIDs : q # dest => mailbox'[q] = mailbox[q]
      BY <1>0, <3>1 DEF Flush_Regular_Message, Add_Frame
    <3>6. PendingOutboundFrames'[LOGGING] = PendingOutboundFrames[LOGGING]
      BY <1>0, <3>2, <3>3
    <3> QED BY <2>0, <3>2, <3>4, <3>5, <3>6 DEF QuietInv, SoftShutdownLosesNothing
  <2>4. CASE Handle_Shutdown_Mailboxes(id)
    <3>1. /\ UNCHANGED <<mailbox, processState>>
          /\ PendingOutboundFrames' =
               [PendingOutboundFrames EXCEPT ![id] =
                  [dest \in ProcessIDs |-> IF Is_Shutting_Down(id) \/ dest \in ShutdownMailboxes[id] THEN 0 ELSE @[dest]]]
      BY <2>4 DEF Handle_Shutdown_Mailboxes, sharedVars
    <3>2. \A dest \in ProcessIDs : PendingOutboundFrames'[LOGGING][dest] = 0
      BY <1>0, <3>1 DEF QuietInv
    <3> QED BY <2>0, <3>1, <3>2 DEF QuietInv, SoftShutdownLosesNothing
  <2>5. CASE Flush_System_Messages(id)
    <3>1. UNCHANGED <<processState, PendingOutboundFrames>> /\ \A q \in ProcessIDs : mailbox'[q] = mailbox[q]
      BY <1>0, <2>5 DEF Flush_System_Messages, Add_Frame
    <3> QED BY <1>1, <2>0, <3>1
  <2>6. CASE Reset_Manager_Frame(id)
    BY <1>1, <2>0, <2>6 DEF Reset_Manager_Frame, sharedVars
  <2>7. CASE Leave_Loop(id)
    BY <1>1, <2>0, <2>7 DEF Leave_Loop, processVars
  <2> QED BY <2>0, <2>1, <2>2, <2>3, <2>4, <2>5, <2>6, <2>7 DEF Process_Next
<1>4. CASE UNCHANGED <<mailbox, managerVars, processVars>>
  BY <1>1, <1>4 DEF managerVars, processVars
<1> QED BY <1>2, <1>3, <1>4 DEF Next, Fatal_Assert, Ended, vars, sharedVars

(* SoftShutdownLosesNothing: what was sent to a process before its mailbox *)
(* was given up is handled by its last execution, and nothing arrives      *)
(* after (ProcessBase.cpp:110-175, Handle_Release_Mailbox_Response).       *)
THEOREM SoftShutdownIsClean == Spec => []SoftShutdownLosesNothing
<1> DEFINE All == TypeOK /\ ExecutionInv /\ HandleInv /\ QuietInv
<1>1. Init => QuietInv
  BY IDs, ContentsFew
  DEF Init, SharedInit, Setup_For_Run, ProcessInit, QuietInv, SoftShutdownLosesNothing
<1>2. Init => All
  BY <1>1, TypeInit, ExecutionInit, HandleInit
<1>3. All /\ [Next]_vars => All'
  BY TypeNext, ExecutionNext, HandleNext, QuietNext
<1>4. All => SoftShutdownLosesNothing
  BY DEF QuietInv
<1> QED BY <1>2, <1>3, <1>4, PTL DEF Spec
=============================================================================
