---------------------------- MODULE ShutdownProofs ----------------------------
(***************************************************************************)
(* What the shutdown protocol keeps beyond the handles: no answer that the *)
(* manager waits for is lost (AcknowledgementsOnTheirWay), none comes that *)
(* it does not wait for, and no assertion fails (NoFatalAssert).           *)
(*                                                                         *)
(* The second holds whatever is asked of the runtime.  The others do not   *)
(* when shutdowns overlap, so they are stated for the budgets of one       *)
(* shutdown: the first with no worker interrupted in its flush, the third  *)
(* for the requests of FairUse.                                            *)
(*                                                                         *)
(* The argument follows what is said through the queues, which keep their  *)
(* order: that a process is to give a mailbox back, and does (ReleaseInv); *)
(* that it is told to shut down, and once only (ToldInv); and that it has  *)
(* done so, which is the last it says but for its answers (WordInv).       *)
(***************************************************************************)
EXTENDS ConcurrencyRuntimeProofs

USE MaxProcessIDAssumption DEF INVALID, CONCURRENCY_MANAGER, LOGGING, FIRST_FREE_ID

-----------------------------------------------------------------------------
(* With no more than one shutdown of a process no acknowledgement is lost. *)

(* Someone's shutdown is asked for in the queue.                         *)
Shuts(queue, p) == \E m \in Contents(queue) : m.type = "ShutdownProcess" /\ m.id = p

(* The shutdown of p is asked for, or has begun.                         *)
Target(p) == \/ Leaving(p) \/ Shuts(ToHandle, p)
             \/ \E id \in ManagedIDs : Shuts(ManagerFrame[id], p)

(* It is the only one there is and will be.                              *)
OnlyTarget(p) ==
  Target(p) => budget["ShutdownProcess"] = 0 /\ \A q \in ProcessIDs : Target(q) => q = p

(* Who is waited for in the shutdown of p still has to give back its      *)
(* mailbox: it is asked to, is about to, or has done so.                  *)
Awaited(q, p) ==
  q \in PendingShutdownIDs[p] => q \in ProcessIDs /\ q # p /\ q < NextID /\ Closing(p) /\ Releasing(q, p)

(* No more than one process is shut down while the manager runs.         *)
TargetInv ==
  /\ budget["ShutdownProcess"] <= 1
  /\ State = "RUNNING" => \A p \in ProcessIDs : OnlyTarget(p)

(* No answer is lost, if no worker is interrupted in its flush.          *)
AcknowledgementInv ==
  /\ resetting = {}
  /\ State = "RUNNING" => \A p \in ProcessIDs : \A q \in EProcessID : Awaited(q, p)

(* The initial state: nothing is asked for yet.                          *)
LEMMA AcknowledgementInit ==
  ASSUME \A b \in Budgets : b["ShutdownProcess"] <= 1, Init
  PROVE  TargetInv /\ AcknowledgementInv
<1> USE IDs
<1>1. resetting = {} /\ budget["ShutdownProcess"] <= 1
  BY DEF Init, ProcessInit
<1>2. ToHandle = <<>> /\ \A id \in ManagedIDs : ManagerFrame[id] = <<>>
  BY DEF Init, SharedInit, Setup_For_Run, ProcessInit, ToHandle
<1>3. ASSUME NEW p \in ProcessIDs PROVE ~Target(p)
  <2>1. ~Shuts(<<>>, p)
    BY ContentsFew DEF Shuts
  <2>2. ~Leaving(p)
    BY DEF Init, Setup_For_Run, Leaving, Closing, Closed, Gone, ProcessIDs
  <2> QED BY <1>2, <2>1, <2>2 DEF Target
<1>4. \A p \in ProcessIDs : PendingShutdownIDs[p] = {}
  BY DEF Init, Setup_For_Run
<1> QED BY <1>1, <1>3, <1>4 DEF TargetInv, AcknowledgementInv, OnlyTarget, Awaited

(* What is in both parts of what the manager has to handle.              *)
LEMMA ToHandleContents ==
  /\ TypeOK => Contents(ToHandle) = Contents(control_frames) \cup Contents(mailbox[CONCURRENCY_MANAGER])
  /\ TypeOK' => Contents(ToHandle') = Contents(control_frames') \cup Contents(mailbox'[CONCURRENCY_MANAGER])
<1> USE IDs
<1>1. ASSUME TypeOK
      PROVE  Contents(ToHandle) = Contents(control_frames) \cup Contents(mailbox[CONCURRENCY_MANAGER])
  <2> DEFINE new == mailbox[CONCURRENCY_MANAGER]
  <2>1. control_frames \in Seq(Message) /\ new \in Seq(Message)
    BY <1>1 DEF TypeOK, SharedTypeOK, ManagerTypeOK
  <2>2. ToHandle = control_frames \o new
    BY DEF ToHandle
  <2> HIDE DEF new
  <2>3. Contents(ToHandle) = Contents(control_frames) \cup Contents(new)
    BY <2>1, <2>2, ContentsConcat
  <2> QED BY <2>3 DEF new
<1>2. ASSUME TypeOK'
      PROVE  Contents(ToHandle') = Contents(control_frames') \cup Contents(mailbox'[CONCURRENCY_MANAGER])
  <2>1. PICK old, new : old = control_frames' /\ new = mailbox'[CONCURRENCY_MANAGER]
    OBVIOUS
  <2>2. old \in Seq(Message) /\ new \in Seq(Message)
    BY <1>2, <2>1 DEF TypeOK, SharedTypeOK, ManagerTypeOK
  <2>3. ToHandle' = old \o new
    BY <2>1 DEF ToHandle
  <2>4. Contents(ToHandle') = Contents(old) \cup Contents(new)
    BY <2>2, <2>3, ContentsConcat
  <2> QED BY <2>1, <2>4
<1> QED BY <1>1, <1>2

(* A step of the manager takes the message it handles from what it has to *)
(* handle, and adds nothing.                                              *)
LEMMA ManagerTakes ==
  ASSUME TypeOK, ExecutionInv, HandleInv, State = "RUNNING", Manager_Step
  PROVE  /\ Contents(ToHandle') \subseteq Contents(ToHandle)
         /\ Handle_Message => Contents(ToHandle) \subseteq Contents(ToHandle') \cup {message}
         /\ ~Handle_Message => Contents(ToHandle') = Contents(ToHandle)
<1> USE IDs
<1>0. /\ control_frames \in Seq(Message) /\ mailbox \in [EProcessID -> Seq(Message)]
      /\ FramesToSend[CONCURRENCY_MANAGER] = <<>>
  BY DEF TypeOK, SharedTypeOK, ManagerTypeOK, HandleInv, RunningInv, ServiceInv
<1>1. Manager_Next
  BY DEF Manager_Step
<1>2. TypeOK'
  BY TypeManager
<1>3. CASE Handle_Message
  <2>1. /\ phase = "handle" /\ control_frames # <<>> /\ control_frames' = Tail(control_frames) /\ UNCHANGED mailbox
    BY <1>3, HandlerFrame
  <2>2. Contents(control_frames) \subseteq Contents(control_frames') \cup {message}
    <3> DEFINE t == Tail(control_frames)
    <3>1. /\ DOMAIN control_frames = 1 .. Len(control_frames) /\ DOMAIN t = 1 .. Len(control_frames) - 1
          /\ Len(control_frames) \in Nat /\ message = control_frames[1]
      BY <1>0, <2>1 DEF message
    <3>2. \A i \in DOMAIN control_frames : i # 1 => i - 1 \in DOMAIN t /\ t[i - 1] = control_frames[i]
      BY <1>0, <2>1, <3>1
    <3> HIDE DEF t
    <3>3. \A i \in DOMAIN control_frames : control_frames[i] \in Contents(t) \cup {message}
      BY <3>1, <3>2 DEF Contents
    <3>4. Contents(control_frames) \subseteq Contents(t) \cup {message}
      BY <3>3 DEF Contents
    <3> QED BY <2>1, <3>4 DEF t
  <2> QED BY <1>2, <1>3, <2>1, <2>2, ToHandleContents, Handles_Message
<1>4. CASE Service_Incoming_Frames
  <2>1. ToHandle = mailbox[CONCURRENCY_MANAGER] /\ ToHandle' = mailbox[CONCURRENCY_MANAGER]
    BY <1>0, <1>4 DEF Service_Incoming_Frames, ExecutionInv, ToHandle, Remove_Frames
  <2>2. ~Handle_Message
    BY <1>4, HandlerFrame DEF Service_Incoming_Frames
  <2> QED BY <2>1, <2>2
<1>5. CASE \E id \in EProcessID : Flush_Frame(id)
  <2>1. PICK id \in EProcessID : Flush_Frame(id)
    BY <1>5
  <2>2. id # CONCURRENCY_MANAGER
    BY <1>0, <2>1 DEF Flush_Frame, Unsent
  <2>3. ToHandle' = ToHandle
    BY <1>0, <2>1, <2>2 DEF Flush_Frame, Add_Frame, ToHandle
  <2>4. ~Handle_Message
    BY <2>1, HandlerFrame DEF Flush_Frame
  <2> QED BY <2>3, <2>4
<1>6. CASE Flush_Frames_Done \/ Service_Shutdown \/ \E id \in ManagedIDs : Execute_Process(id)
  <2>1. ToHandle' = ToHandle
    BY <1>6 DEF Flush_Frames_Done, Service_Shutdown, Execute_Process, sharedVars, ToHandle
  <2>2. ~Handle_Message
    BY <1>6, HandlerFrame DEF Flush_Frames_Done, Service_Shutdown, Execute_Process
  <2> QED BY <2>1, <2>2
<1> QED BY <1>1, <1>3, <1>4, <1>5, <1>6 DEF Manager_Next

(* A shutdown begins only because it is asked for.                       *)
LEMMA AskedToLeave ==
  ASSUME TypeOK, HandleInv, Begun, Manager_Next, State' = "RUNNING", NEW p \in ProcessIDs, Leaving(p)', ~Leaving(p)
  PROVE  Handle_Shutdown_Process_Message /\ p = message.id
<1> USE IDs
<1>0. ProcessRecords \in [EProcessID -> EInternalProcessState \cup {"NO_RECORD"}]
  BY DEF TypeOK, ManagerTypeOK
<1>1. State = "RUNNING" /\ Alive(p) /\ (Closing(p)' \/ Closed(p)')
  <2>1. State = "RUNNING" /\ Life(p)
    BY RecordsLive
  <2>2. ~Alive(p)'
    BY DEF Leaving, Alive, Closing, Closed, Gone
  <2> QED BY <2>1, <2>2 DEF Life, Unchanging, Leaving
<1> SUFFICES ASSUME ~(Handle_Shutdown_Process_Message /\ p = message.id) PROVE Alive(p)'
  BY <1>1 DEF Alive, Closing, Closed
<1>2. CASE Service_Incoming_Frames
  BY <1>1, <1>2 DEF Service_Incoming_Frames, Alive
<1>3. CASE Handle_Get_Mailbox_By_ID_Request
  BY <1>1, <1>3 DEF Handle_Get_Mailbox_By_ID_Request, Alive
<1>4. CASE Handle_Get_Mailbox_By_Properties_Request
  BY <1>1, <1>4 DEF Handle_Get_Mailbox_By_Properties_Request, Alive
<1>5. CASE Handle_Add_New_Process_Message
  BY <1>0, <1>1, <1>5 DEF Handle_Add_New_Process_Message, Alive
<1>6. CASE Handle_Shutdown_Process_Message
  <2>1. p # message.id
    BY <1>6
  <2>2. CASE UNCHANGED ProcessRecords
    BY <1>1, <2>2 DEF Alive
  <2>3. CASE Initiate_Process_Shutdown(message.id)
    BY <1>0, <1>1, <2>1, <2>3 DEF Initiate_Process_Shutdown, Alive
  <2> QED BY <1>6, <2>2, <2>3 DEF Handle_Shutdown_Process_Message
<1>7. CASE Handle_Reschedule_Process_Message
  BY <1>1, <1>7 DEF Handle_Reschedule_Process_Message, Alive
<1>8. CASE Handle_Release_Mailbox_Response
  BY <1>0, <1>1, <1>8 DEF Handle_Release_Mailbox_Response, Finished, Alive
<1>9. CASE Handle_Shutdown_Self_Response
  <2>1. message.source # p
    BY <1>1, <1>9 DEF Handle_Shutdown_Self_Response, Is_Manager_Shutting_Down, Alive
  <2> QED BY <1>0, <1>1, <1>9, <2>1 DEF Handle_Shutdown_Self_Response, Alive
<1>10. CASE Handle_Shutdown_Manager_Message
  BY <1>1, <1>10 DEF Handle_Shutdown_Manager_Message, Alive
<1>11. CASE \E id \in EProcessID : Flush_Frame(id)
  BY <1>1, <1>11 DEF Flush_Frame, Alive
<1>12. CASE Flush_Frames_Done
  BY <1>1, <1>12 DEF Flush_Frames_Done, Alive
<1>13. CASE \E id \in ManagedIDs : Execute_Process(id)
  BY <1>0, <1>1, <1>13 DEF Execute_Process, Alive
<1>14. CASE Service_Shutdown
  <2>1. Cardinality(Records) # 1
    BY <1>1, NotAlone DEF HandleInv, RunningInv
  <2> QED BY <1>1, <1>14, <2>1 DEF Service_Shutdown, Alive
<1> QED BY <1>2, <1>3, <1>4, <1>5, <1>6, <1>7, <1>8, <1>9, <1>10, <1>11, <1>12, <1>13, <1>14
     DEF Manager_Next, Handle_Message

(* So the manager makes no one a target.                                 *)
LEMMA NoNewTargets ==
  ASSUME TypeOK, ExecutionInv, HandleInv, Begun, Manager_Step, State' = "RUNNING", NEW p \in ProcessIDs, Target(p)'
  PROVE  Target(p)
<1>1. Manager_Next /\ ManagerFrame' = ManagerFrame /\ State = "RUNNING"
  BY RecordsLive DEF Manager_Step, processVars
<1>2. CASE Leaving(p)' /\ ~Leaving(p)
  <2>1. Handle_Shutdown_Process_Message /\ p = message.id
    BY <1>1, <1>2, AskedToLeave
  <2>2. message.type = "ShutdownProcess" /\ message \in Contents(ToHandle)
    <3>1. Handle_Message
      BY <2>1 DEF Handle_Message
    <3>2. message \in Contents(ToHandle)
      BY <3>1, HandlerFrame, Handles_Message
    <3> QED BY <2>1, <3>2 DEF Handle_Shutdown_Process_Message, Handling, message
  <2> QED BY <2>1, <2>2 DEF Target, Shuts
<1>3. CASE Shuts(ToHandle', p)
  BY <1>1, <1>3, ManagerTakes DEF Target, Shuts
<1>4. CASE \E id \in ManagedIDs : Shuts(ManagerFrame'[id], p)
  BY <1>1, <1>4 DEF Target
<1> QED BY <1>2, <1>3, <1>4 DEF Target

(* What q has to give back remains to be given back until the manager    *)
(* handles the answer.                                                   *)
LEMMA ReleasingUntilHandled ==
  ASSUME TypeOK, ExecutionInv, HandleInv, State = "RUNNING", Manager_Step,
         NEW q \in ProcessIDs, NEW p \in ProcessIDs, Releasing(q, p),
         ~(Handle_Release_Mailbox_Response /\ message.source = q /\ p \in message.ids)
  PROVE  Releasing(q, p)'
<1>1. Manager_Next /\ ManagerFrame' = ManagerFrame /\ ShutdownMailboxes' = ShutdownMailboxes
  BY DEF Manager_Step, processVars
<1>2. Arriving(q)
  BY <1>1, FramesArrive
<1>3. CASE Wants(mailbox[q], p) \/ Wants(FramesToSend[q], p)
  BY <1>2, <1>3 DEF Arriving, Wants, Releasing
<1>4. CASE p \in ShutdownMailboxes[q] \/ Gives(ManagerFrame[q], q, p)
  BY <1>1, <1>4 DEF Releasing
<1>5. CASE Gives(ToHandle, q, p)
  <2>1. PICK m \in Contents(ToHandle) : m.type = "ReleaseMailboxResponse" /\ m.source = q /\ p \in m.ids
    BY <1>5 DEF Gives
  <2>2. CASE m \in Contents(ToHandle')
    BY <2>1, <2>2 DEF Gives, Releasing
  <2>3. CASE m \notin Contents(ToHandle')
    <3>1. Handle_Message /\ m = message
      BY <2>1, <2>3, ManagerTakes
    <3>2. Handle_Release_Mailbox_Response
      BY <2>1, <3>1 DEF Handle_Message, Handling, message, Handle_Get_Mailbox_By_ID_Request,
          Handle_Get_Mailbox_By_Properties_Request, Handle_Add_New_Process_Message, Handle_Shutdown_Process_Message,
          Handle_Reschedule_Process_Message, Handle_Shutdown_Self_Response, Handle_Shutdown_Manager_Message
    <3> QED BY <2>1, <3>1, <3>2
  <2> QED BY <2>2, <2>3
<1> QED BY <1>3, <1>4, <1>5 DEF Releasing

(* Who is waited for after a step of the manager was before, but for the *)
(* step that begins the shutdown.                                        *)
LEMMA AwaitedManager ==
  ASSUME TypeOK, ExecutionInv, HandleInv, Begun, Manager_Step, State' = "RUNNING",
         NEW p \in ProcessIDs, NEW q \in EProcessID, Awaited(q, p)
  PROVE  Awaited(q, p)'
<1> USE IDs
<1>0. /\ ProcessRecords \in [EProcessID -> EInternalProcessState \cup {"NO_RECORD"}]
      /\ PendingShutdownIDs \in [EProcessID -> SUBSET EProcessID]
      /\ FramesToSend \in [EProcessID -> Seq(Message)]
      /\ NextID \in Int /\ p \in Int /\ q \in Int
  BY DEF TypeOK, ManagerTypeOK
<1>1. Manager_Next /\ State = "RUNNING"
  BY RecordsLive DEF Manager_Step
<1>2. NextID' = NextID \/ NextID' = NextID + 1
  BY <1>1 DEF Manager_Next, Service_Incoming_Frames, Handle_Message, Handle_Get_Mailbox_By_ID_Request,
        Handle_Get_Mailbox_By_Properties_Request, Handle_Add_New_Process_Message, Handle_Shutdown_Process_Message,
        Handle_Reschedule_Process_Message, Handle_Release_Mailbox_Response, Handle_Shutdown_Self_Response,
        Handle_Shutdown_Manager_Message, Flush_Frame, Flush_Frames_Done, Execute_Process, Service_Shutdown
<1> SUFFICES ASSUME q \in PendingShutdownIDs'[p]
             PROVE  q \in ProcessIDs /\ q # p /\ q < NextID' /\ Closing(p)' /\ Releasing(q, p)'
  BY DEF Awaited
<1>3. ASSUME q \in PendingShutdownIDs[p], Closing(p) => Closing(p)',
             ~(Handle_Release_Mailbox_Response /\ message.source = q /\ p \in message.ids)
      PROVE  q \in ProcessIDs /\ q # p /\ q < NextID' /\ Closing(p)' /\ Releasing(q, p)'
  BY <1>0, <1>1, <1>2, <1>3, ReleasingUntilHandled DEF Awaited
<1>4. ASSUME PendingShutdownIDs' = PendingShutdownIDs, ProcessRecords'[p] = ProcessRecords[p] \/ Alive(p)',
             ~Closing(p) \/ ProcessRecords'[p] = ProcessRecords[p], ~Handle_Release_Mailbox_Response
      PROVE  q \in ProcessIDs /\ q # p /\ q < NextID' /\ Closing(p)' /\ Releasing(q, p)'
  BY <1>3, <1>4 DEF Closing
<1>5. CASE ~Handle_Message
  <2>1. PendingShutdownIDs' = PendingShutdownIDs /\ ~Handle_Release_Mailbox_Response
    BY <1>1, <1>5 DEF Handle_Message, Manager_Next, Service_Incoming_Frames, Flush_Frame, Flush_Frames_Done,
                      Execute_Process, Service_Shutdown
  <2>2. Closing(p) => ProcessRecords'[p] = ProcessRecords[p]
    <3>1. CASE Service_Shutdown
      <4>1. Cardinality(Records) # 1
        BY <1>1, NotAlone DEF HandleInv, RunningInv
      <4> QED BY <3>1, <4>1 DEF Service_Shutdown
    <3>2. CASE \E id \in ManagedIDs : Execute_Process(id)
      BY <1>0, <3>2 DEF Execute_Process, Closing
    <3> QED BY <1>1, <1>5, <3>1, <3>2 DEF Manager_Next, Service_Incoming_Frames, Flush_Frame, Flush_Frames_Done
  <2> QED BY <1>3, <2>1, <2>2 DEF Closing
<1>6. CASE Handle_Get_Mailbox_By_ID_Request
  BY <1>4, <1>6 DEF Handle_Get_Mailbox_By_ID_Request, Handle_Release_Mailbox_Response, Handling
<1>7. CASE Handle_Get_Mailbox_By_Properties_Request
  BY <1>4, <1>7 DEF Handle_Get_Mailbox_By_Properties_Request, Handle_Release_Mailbox_Response, Handling
<1>8. CASE Handle_Add_New_Process_Message
  <2>1. ~Handle_Release_Mailbox_Response /\ PendingShutdownIDs' = PendingShutdownIDs
    BY <1>8 DEF Handle_Add_New_Process_Message, Handle_Release_Mailbox_Response, Handling
  <2>2. Closing(p) => p < NextID
    BY <1>1, RecordsExist DEF Closing, Has_Record
  <2>3. Closing(p) => ProcessRecords'[p] = ProcessRecords[p]
    BY <1>0, <1>8, <2>2 DEF Handle_Add_New_Process_Message
  <2> QED BY <1>3, <2>1, <2>3 DEF Closing
<1>9. CASE Handle_Shutdown_Process_Message
  <2>0. ~Handle_Release_Mailbox_Response /\ NextID' = NextID
    BY <1>9 DEF Handle_Shutdown_Process_Message, Handle_Release_Mailbox_Response, Handling
  <2>1. CASE UNCHANGED <<ProcessRecords, PendingShutdownIDs>>
    BY <1>4, <2>0, <2>1
  <2>2. CASE Initiate_Process_Shutdown(message.id) /\ message.id # p
    <3>1. ProcessRecords'[p] = ProcessRecords[p] /\ PendingShutdownIDs'[p] = PendingShutdownIDs[p]
      BY <1>0, <2>2 DEF Initiate_Process_Shutdown
    <3> QED BY <1>3, <2>0, <3>1 DEF Closing
  <2>3. CASE Initiate_Process_Shutdown(message.id) /\ message.id = p
    <3>1. q \in Others(p)
      BY <1>0, <2>3 DEF Initiate_Process_Shutdown
    <3>2. q \in ProcessIDs /\ q # p /\ Has_Record(q)
      BY <3>1 DEF Others, Records, ProcessIDs, EProcessID
    <3>3. /\ ProcessRecords'[p] = "SHUTTING_DOWN_PHASE1"
          /\ FramesToSend' = Send_Process_Message(Others(p), CReleaseMailboxRequest(p))
      BY <1>0, <2>3, <3>1 DEF Initiate_Process_Shutdown
    <3>4. FramesToSend'[q] = Append(FramesToSend[q], CReleaseMailboxRequest(p))
      BY <3>1, <3>3 DEF Send_Process_Message
    <3>5. CReleaseMailboxRequest(p) \in Message /\ CReleaseMailboxRequest(p).type = "ReleaseMailboxRequest"
          /\ CReleaseMailboxRequest(p).id = p
      BY Constructors DEF CReleaseMailboxRequest, About
    <3>6. CReleaseMailboxRequest(p) \in Contents(FramesToSend'[q])
      BY <1>0, <3>4, <3>5, ContentsAppend
    <3>7. Wants(FramesToSend'[q], p)
      BY <3>5, <3>6 DEF Wants
    <3>8. q < NextID
      BY <1>1, <3>2, RecordsExist
    <3> QED BY <2>0, <3>2, <3>3, <3>7, <3>8 DEF Closing, Releasing
  <2> QED BY <1>9, <2>1, <2>2, <2>3 DEF Handle_Shutdown_Process_Message
<1>10. CASE Handle_Reschedule_Process_Message
  BY <1>4, <1>10 DEF Handle_Reschedule_Process_Message, Handle_Release_Mailbox_Response, Handling
<1>11. CASE Handle_Release_Mailbox_Response
  <2>1. PendingShutdownIDs' = [id \in EProcessID |-> IF id \in Released(message.ids)
                                 THEN PendingShutdownIDs[id] \ {message.source} ELSE PendingShutdownIDs[id]]
    BY <1>1, <1>11 DEF Handle_Release_Mailbox_Response, Is_Manager_Shutting_Down
  <2>2. ProcessRecords' = [id \in EProcessID |-> IF id \in Finished(message.source, message.ids)
                             THEN "SHUTTING_DOWN_PHASE2" ELSE ProcessRecords[id]]
    BY <1>1, <1>11 DEF Handle_Release_Mailbox_Response, Is_Manager_Shutting_Down
  <2>3. q \in PendingShutdownIDs[p] /\ (p \in Released(message.ids) => q # message.source)
    BY <2>1
  <2>4. Closing(p)
    BY <2>3 DEF Awaited
  <2>5. p \in message.ids => p \in Released(message.ids)
    BY <2>4 DEF Released, Has_Record, Closing
  <2>6. p \notin Finished(message.source, message.ids)
    BY <2>3 DEF Finished
  <2>7. Closing(p)'
    BY <2>2, <2>4, <2>6 DEF Closing
  <2> QED BY <1>3, <2>3, <2>5, <2>7
<1>12. CASE Handle_Shutdown_Self_Response
  <2>0. ~Handle_Release_Mailbox_Response
    BY <1>12 DEF Handle_Shutdown_Self_Response, Handle_Release_Mailbox_Response, Handling
  <2>1. p # message.source /\ PendingShutdownIDs'[p] = PendingShutdownIDs[p]
    BY <1>0, <1>12 DEF Handle_Shutdown_Self_Response
  <2>2. ProcessRecords'[p] = ProcessRecords[p]
    BY <1>0, <1>12, <2>1 DEF Handle_Shutdown_Self_Response
  <2> QED BY <1>3, <2>0, <2>1, <2>2 DEF Closing
<1>13. CASE Handle_Shutdown_Manager_Message
  BY <1>4, <1>13 DEF Handle_Shutdown_Manager_Message, Handle_Release_Mailbox_Response, Handling
<1> QED BY <1>5, <1>6, <1>7, <1>8, <1>9, <1>10, <1>11, <1>12, <1>13 DEF Handle_Message

(* A step of the manager keeps both.                                     *)
LEMMA TargetManager ==
  ASSUME TypeOK, ExecutionInv, HandleInv, Begun, TargetInv, Manager_Step
  PROVE  TargetInv'
<1>1. Manager_Next /\ budget' = budget
  BY DEF Manager_Step, processVars
<1>2. ASSUME State' = "RUNNING", NEW p \in ProcessIDs PROVE OnlyTarget(p)'
  <2>1. State = "RUNNING"
    BY <1>1, <1>2, RecordsLive
  <2>2. OnlyTarget(p)
    BY <2>1 DEF TargetInv
  <2>3. \A q \in ProcessIDs : Target(q)' => Target(q)
    BY <1>2, NoNewTargets
  <2> QED BY <1>1, <2>2, <2>3 DEF OnlyTarget
<1> QED BY <1>1, <1>2 DEF TargetInv

(* No answer that is awaited is lost by it.                              *)
LEMMA AcknowledgementManager ==
  ASSUME TypeOK, ExecutionInv, HandleInv, Begun, AcknowledgementInv, Manager_Step
  PROVE  AcknowledgementInv'
<1>1. Manager_Next /\ resetting' = resetting
  BY DEF Manager_Step, processVars
<1>2. ASSUME State' = "RUNNING", NEW p \in ProcessIDs, NEW q \in EProcessID PROVE Awaited(q, p)'
  <2>1. State = "RUNNING"
    BY <1>1, <1>2, RecordsLive
  <2>2. Awaited(q, p)
    BY <2>1 DEF AcknowledgementInv
  <2> QED BY <1>2, <2>2, AwaitedManager
<1> QED BY <1>1, <1>2 DEF AcknowledgementInv

(* What a step of process id adds to its frame to the manager, or sends. *)
Says(id, said) ==
  /\ \A j \in ManagedIDs : j # id => ManagerFrame'[j] = ManagerFrame[j]
  /\ \/ ToHandle' = ToHandle /\ ManagerFrame'[id] = ManagerFrame[id] \o said
     \/ /\ ToHandle' \in {ToHandle, ToHandle \o ManagerFrame[id]}
        /\ ManagerFrame'[id] = <<>> /\ said = <<>>

(* It takes its messages and lets the application act.                   *)
Executes(id) == Service_Message_Frames(id) /\ Can_Begin(id) /\ ~Is_Shutting_Down(id)

(* Where it comes from: from the application, from the process itself    *)
(* before it shuts down, or from what others have asked it to release.   *)
Speech(id, said, asked) ==
  \/ said = <<>> /\ asked = <<>> /\ processState' = processState
  \/ /\ Executes(id)
     /\ \E early \in {TRUE, ~LateRequests} : said = Frame_After_Messages(id, asked, early)
  \/ /\ Handle_Shutdown_Mailboxes(id) /\ asked = <<>> /\ processState' = processState
     /\ said = <<CReleaseMailboxResponse(id, ShutdownMailboxes[id])>>

(* The budget pays for what the application asks for.                    *)
Pays(asked) ==
  \A op \in RequestTypes :
    budget'[op] = IF \E m \in Contents(asked) : m.type = op THEN budget[op] - 1 ELSE budget[op]

(* To append a message is to add a frame of it.                          *)
LEMMA AppendIsAdd ==
  ASSUME NEW s \in Seq(Message), NEW m \in Message
  PROVE  Append(s, m) = s \o <<m>>
<1> HIDE DEF Message
<1> DEFINE left == Append(s, m)  right == s \o <<m>>
<1>1. left \in Seq(Message) /\ right \in Seq(Message) /\ Len(left) = Len(right) /\ Len(left) \in Nat
  OBVIOUS
<1>2. \A i \in 1 .. Len(left) : left[i] = right[i]
  OBVIOUS
<1> HIDE DEF left, right
<1>3. left = right
  BY <1>1, <1>2, SeqEqual
<1> QED BY <1>3 DEF left, right

(* Every step of a process is of this kind.                              *)
LEMMA ProcessSays ==
  ASSUME TypeOK, NEW id \in ManagedIDs, Process_Step(id)
  PROVE  \E said \in Seq(Message), asked \in {<<>>} \cup { <<m>> : m \in Requests(id) } :
           Says(id, said) /\ Speech(id, said, asked) /\ Pays(asked)
<1> USE IDs
<1>0. /\ mailbox \in [EProcessID -> Seq(Message)] /\ control_frames \in Seq(Message)
      /\ ManagerFrame \in [ManagedIDs -> Seq(Message)]
      /\ ShutdownMailboxes \in [ManagedIDs -> SUBSET EProcessID]
      /\ budget \in [RequestTypes \cup {"User"} -> Nat]
  BY DEF TypeOK, SharedTypeOK, ManagerTypeOK, ProcessTypeOK
<1>1. Process_Next(id) /\ control_frames' = control_frames
  BY DEF Process_Step, managerVars
<1>2. \A s \in Seq(Message) : s \o <<>> = s
  OBVIOUS
<1>3. Contents(<<>>) = {}
  BY ContentsFew
<1> DEFINE Nothing == <<>>
           Goal    == \E said \in Seq(Message), asked \in {<<>>} \cup { <<m>> : m \in Requests(id) } :
                        Says(id, said) /\ Speech(id, said, asked) /\ Pays(asked)
<1>11. ASSUME Says(id, <<>>), UNCHANGED <<processState, budget>>
       PROVE  Goal
  <2>1. Nothing \in Seq(Message) /\ Nothing \in {<<>>} \cup { <<m>> : m \in Requests(id) }
    OBVIOUS
  <2>2. Says(id, Nothing) /\ Speech(id, Nothing, Nothing) /\ Pays(Nothing)
    BY <1>3, <1>11 DEF Speech, Pays
  <2> HIDE DEF Nothing
  <2> QED BY <2>1, <2>2
<1>4. ASSUME UNCHANGED <<processState, ManagerFrame, budget>>, ToHandle' = ToHandle
      PROVE  Goal
  <2>1. ManagerFrame'[id] = ManagerFrame[id] \o <<>>
    BY <1>0, <1>2, <1>4
  <2>2. Says(id, <<>>)
    BY <1>4, <2>1 DEF Says
  <2> QED BY <1>4, <1>11, <2>2
<1> HIDE DEF Goal
<1> SUFFICES Goal
  BY DEF Goal
<1>5. CASE Run(id) /\ Is_Shutting_Down(id)
  <2>1. UNCHANGED <<processState, ManagerFrame, budget>> /\ ToHandle' = ToHandle
    BY <1>1, <1>5 DEF Run, ToHandle
  <2> QED BY <1>4, <2>1
<1>6. CASE Run(id) /\ ~Is_Shutting_Down(id)
  <2>1. Service_Message_Frames(id) /\ Can_Begin(id)
    BY <1>6 DEF Run, Begin
  <2>2. PICK asked \in {<<>>} \cup { <<m>> : m \in Requests(id) }, early \in {TRUE, ~LateRequests},
             sentTo \in {{}} \cup { {dest} : dest \in Recipients(id) } :
          /\ ManagerFrame' = [ManagerFrame EXCEPT ![id] = @ \o Frame_After_Messages(id, asked, early)]
          /\ PendingOutboundFrames' =
               [PendingOutboundFrames EXCEPT ![id] =
                  [dest \in ProcessIDs |-> IF dest \in sentTo THEN @[dest] + 1 ELSE @[dest]]]
          /\ budget' = [op \in RequestTypes \cup {"User"} |->
                          IF (op = "User" /\ sentTo # {}) \/ (\E m \in Contents(asked) : m.type = op)
                          THEN budget[op] - 1 ELSE budget[op]]
    BY <2>1 DEF Service_Message_Frames
  <2> DEFINE frame == Frame_After_Messages(id, asked, early)
  <2>3. early \in BOOLEAN
    BY LateRequestsAssumption
  <2>4. frame \in Seq(Message)
    BY <2>3, FrameSays
  <2>5. mailbox'[CONCURRENCY_MANAGER] = mailbox[CONCURRENCY_MANAGER]
    BY <1>0, <2>1 DEF Service_Message_Frames, Remove_Frames
  <2>6. Says(id, frame)
    BY <1>0, <1>1, <2>2, <2>5 DEF Says, ToHandle
  <2>7. Pays(asked)
    <3>1. "User" \notin RequestTypes
      BY DEF RequestTypes
    <3> QED BY <2>2, <3>1 DEF Pays
  <2>8. Speech(id, frame, asked)
    BY <1>6, <2>1 DEF Speech, Executes
  <2> HIDE DEF frame
  <2> QED BY <2>4, <2>6, <2>7, <2>8 DEF Goal
<1>7. CASE \E dest \in ProcessIDs : Flush_Regular_Message(id, dest)
  <2>1. UNCHANGED <<processState, ManagerFrame, budget>>
    BY <1>7 DEF Flush_Regular_Message
  <2>2. mailbox'[CONCURRENCY_MANAGER] = mailbox[CONCURRENCY_MANAGER]
    BY <1>0, <1>7 DEF Flush_Regular_Message, Add_Frame
  <2>3. ToHandle' = ToHandle
    BY <1>1, <2>2 DEF ToHandle
  <2> QED BY <1>4, <2>1, <2>3
<1>8. CASE Handle_Shutdown_Mailboxes(id)
  <2>1. UNCHANGED <<mailbox, processState, budget>>
    BY <1>8 DEF Handle_Shutdown_Mailboxes, sharedVars
  <2>2. ToHandle' = ToHandle
    BY <1>1, <2>1 DEF ToHandle
  <2>3. CASE ShutdownMailboxes[id] = {}
    <3>1. ManagerFrame' = [ManagerFrame EXCEPT ![id] = @]
      BY <1>8, <2>3 DEF Handle_Shutdown_Mailboxes
    <3>2. ManagerFrame' = ManagerFrame
      BY <1>0, <3>1
    <3> QED BY <1>4, <2>1, <2>2, <3>2
  <2>4. CASE ShutdownMailboxes[id] # {}
    <3> DEFINE response == CReleaseMailboxResponse(id, ShutdownMailboxes[id])
    <3>1. response \in Message
      BY <1>0, Constructors
    <3>2. ManagerFrame' = [ManagerFrame EXCEPT ![id] = Append(@, response)]
      BY <1>8, <2>4 DEF Handle_Shutdown_Mailboxes
    <3>3. Speech(id, <<response>>, <<>>)
      BY <1>8, <2>1 DEF Speech
    <3> HIDE DEF response
    <3>4. ManagerFrame'[id] = ManagerFrame[id] \o <<response>>
      BY <1>0, <3>1, <3>2, AppendIsAdd
    <3>5. Says(id, <<response>>)
      BY <1>0, <2>2, <3>2, <3>4 DEF Says
    <3>6. <<response>> \in Seq(Message)
      BY <3>1
    <3>7. Pays(<<>>)
      BY <1>3, <2>1 DEF Pays
    <3>8. PICK none : none = <<>>
      OBVIOUS
    <3>9. Speech(id, <<response>>, none) /\ Pays(none) /\ none \in {<<>>} \cup { <<m>> : m \in Requests(id) }
      BY <3>3, <3>7, <3>8
    <3> QED BY <3>5, <3>6, <3>9 DEF Goal
  <2> QED BY <2>3, <2>4
<1>9. CASE Flush_System_Messages(id)
  <2> DEFINE new == mailbox[CONCURRENCY_MANAGER]  frame == ManagerFrame[id]
  <2>1. UNCHANGED <<processState, budget>>
    BY <1>9 DEF Flush_System_Messages
  <2>2. CASE UNCHANGED <<mailbox, ManagerFrame>>
    <3>1. ToHandle' = ToHandle
      BY <1>1, <2>2 DEF ToHandle
    <3> QED BY <1>4, <2>1, <2>2, <3>1
  <2>3. CASE mailbox' = [mailbox EXCEPT ![CONCURRENCY_MANAGER] = @ \o frame]
               /\ ManagerFrame' = [ManagerFrame EXCEPT ![id] = <<>>]
    <3>1. new \in Seq(Message) /\ frame \in Seq(Message) /\ mailbox'[CONCURRENCY_MANAGER] = new \o frame
          /\ ManagerFrame'[id] = <<>>
      BY <1>0, <2>3
    <3>2. ToHandle = control_frames \o new /\ ToHandle' = control_frames \o (new \o frame)
      BY <1>1, <3>1 DEF ToHandle
    <3>3. \A j \in ManagedIDs : j # id => ManagerFrame'[j] = ManagerFrame[j]
      BY <1>0, <2>3
    <3> HIDE DEF new, frame
    <3>4. ToHandle' = ToHandle \o frame
      <4>1. control_frames \in Seq(Message) /\ new \in Seq(Message) /\ frame \in Seq(Message)
        BY <1>0, <3>1
      <4>2. (control_frames \o new) \o frame = control_frames \o (new \o frame)
        BY <4>1, Associative
      <4> QED BY <3>2, <4>2
    <3>5. Says(id, <<>>)
      BY <3>1, <3>3, <3>4 DEF Says, frame
    <3> QED BY <1>11, <2>1, <3>5
  <2> QED BY <1>9, <2>2, <2>3 DEF Flush_System_Messages, Add_Frame
<1>10. CASE Reset_Manager_Frame(id)
  <2>1. UNCHANGED <<processState, budget>> /\ ToHandle' = ToHandle
    BY <1>1, <1>10 DEF Reset_Manager_Frame, sharedVars, ToHandle
  <2>2. Says(id, <<>>)
    BY <1>0, <1>10, <2>1 DEF Reset_Manager_Frame, Says
  <2> QED BY <1>11, <2>1, <2>2
<1>12. CASE Leave_Loop(id)
  <2>1. UNCHANGED <<processState, ManagerFrame, budget>> /\ ToHandle' = ToHandle
    BY <1>1, <1>12 DEF Leave_Loop, processVars, ToHandle
  <2> QED BY <1>4, <2>1
<1> QED BY <1>1, <1>4, <1>5, <1>6, <1>7, <1>8, <1>9, <1>10, <1>12 DEF Process_Next

(* What an execution adds to the frame: what the application asks for,    *)
(* and what the process has to say itself.                                *)
LEMMA FrameParts ==
  ASSUME NEW id \in ManagedIDs, NEW asked \in {<<>>} \cup { <<m>> : m \in Requests(id) }, NEW early \in BOOLEAN,
         NEW m \in Contents(Frame_After_Messages(id, asked, early))
  PROVE  \/ m \in Contents(asked) /\ m \in Requests(id) /\ asked = <<m>>
         \/ m = CShutdownSelfResponse(id) /\ Shutting_Down(State_After_Messages(id))
         \/ m = CRescheduleProcessMessage(id) /\ ~Shutting_Down(State_After_Messages(id))
<1> DEFINE told       == Shutting_Down(State_After_Messages(id))
           reply      == IF told THEN <<CShutdownSelfResponse(id)>> ELSE <<>>
           reschedule == IF told \/ id \in ThreadProcesses THEN <<>> ELSE <<CRescheduleProcessMessage(id)>>
           first      == IF early THEN asked \o reply ELSE reply \o asked
<1>0. CShutdownSelfResponse(id) \in Message /\ CRescheduleProcessMessage(id) \in Message
  BY Constructors, IDs
<1>1. asked \in Seq(Message)
  <2>1. \A n \in Requests(id) : n \in Message
    BY RequestsType
  <2>2. CASE asked = <<>>
    BY <2>2
  <2>3. CASE \E n \in Requests(id) : asked = <<n>>
    BY <2>1, <2>3
  <2> QED BY <2>2, <2>3
<1>2. reply \in Seq(Message) /\ \A n \in Contents(reply) : n = CShutdownSelfResponse(id) /\ told
  BY <1>0, ContentsFew
<1>3. reschedule \in Seq(Message) /\ \A n \in Contents(reschedule) : n = CRescheduleProcessMessage(id) /\ ~told
  BY <1>0, ContentsFew
<1>4. Frame_After_Messages(id, asked, early) = first \o reschedule
  BY DEF Frame_After_Messages
<1> HIDE DEF reply, reschedule
<1>5. first \in Seq(Message) /\ Contents(first) = Contents(asked) \cup Contents(reply)
  BY <1>1, <1>2, ContentsConcat
<1> HIDE DEF first
<1>6. Contents(first \o reschedule) = Contents(first) \cup Contents(reschedule)
  BY <1>3, <1>5, ContentsConcat
<1>7. m \in Contents(asked) => m \in Requests(id) /\ asked = <<m>>
  BY ContentsFew
<1> QED BY <1>2, <1>3, <1>4, <1>5, <1>6, <1>7

(* Messages of the other types are what the application asks for.        *)
LEMMA FrameAsks ==
  ASSUME NEW id \in ManagedIDs, NEW asked \in {<<>>} \cup { <<m>> : m \in Requests(id) }, NEW early \in BOOLEAN,
         NEW m \in Contents(Frame_After_Messages(id, asked, early)), ~OfProcesses(m)
  PROVE  m \in Contents(asked) /\ m \in Requests(id) /\ asked = <<m>>
BY FrameParts DEF OfProcesses, CShutdownSelfResponse, CRescheduleProcessMessage, About

(* A step of a process asks for no shutdown but when there is no target  *)
(* yet.                                                                  *)
LEMMA TargetProcess ==
  ASSUME TypeOK, TargetInv, NEW id \in ManagedIDs, Process_Step(id)
  PROVE  TargetInv'
<1> USE IDs
<1>0. /\ \A j \in ManagedIDs : ManagerFrame[j] \in Seq(Message)
      /\ budget["ShutdownProcess"] \in Nat /\ "ShutdownProcess" \in RequestTypes
      /\ ToHandle \in Seq(Message)
  <2>1. control_frames \in Seq(Message) /\ mailbox[CONCURRENCY_MANAGER] \in Seq(Message)
    BY DEF TypeOK, SharedTypeOK, ManagerTypeOK
  <2>2. ToHandle \in Seq(Message)
    BY <2>1, ContentsConcat DEF ToHandle
  <2> QED BY <2>2 DEF TypeOK, ProcessTypeOK, RequestTypes
<1>1. PICK said \in Seq(Message), asked \in {<<>>} \cup { <<m>> : m \in Requests(id) } :
        Says(id, said) /\ Speech(id, said, asked) /\ Pays(asked)
  BY ProcessSays
<1>2. UNCHANGED <<State, NextID, ProcessRecords>>
  BY DEF Process_Step, managerVars
<1>3. ASSUME NEW p \in ProcessIDs, Shuts(said, p) PROVE Shuts(asked, p)
  <2>1. CASE said = <<>>
    BY <1>3, <2>1, ContentsFew DEF Shuts
  <2>2. CASE \E early \in {TRUE, ~LateRequests} : said = Frame_After_Messages(id, asked, early)
    <3>1. PICK early \in BOOLEAN : said = Frame_After_Messages(id, asked, early)
      BY <2>2, LateRequestsAssumption
    <3> QED BY <1>3, <3>1, FrameAsks DEF Shuts, OfProcesses
  <2>3. CASE said = <<CReleaseMailboxResponse(id, ShutdownMailboxes[id])>>
    BY <1>3, <2>3, ContentsFew DEF Shuts, CReleaseMailboxResponse
  <2> QED BY <1>1, <2>1, <2>2, <2>3 DEF Speech
<1>4. /\ Contents(ToHandle') \subseteq Contents(ToHandle) \cup Contents(ManagerFrame[id])
      /\ Contents(ManagerFrame'[id]) \subseteq Contents(ManagerFrame[id]) \cup Contents(said)
  <2> DEFINE frame == ManagerFrame[id]
  <2>1. frame \in Seq(Message)
    BY <1>0
  <2> HIDE DEF frame
  <2>2. /\ Contents(ToHandle \o frame) = Contents(ToHandle) \cup Contents(frame)
        /\ Contents(frame \o said) = Contents(frame) \cup Contents(said)
    BY <1>0, <2>1, ContentsConcat
  <2> QED BY <1>1, <2>2, ContentsFew DEF Says, frame
<1>5. ASSUME NEW p \in ProcessIDs, Target(p)' PROVE Target(p) \/ Shuts(asked, p)
  <2>1. Leaving(p)' <=> Leaving(p)
    BY <1>2 DEF Leaving, Closing, Closed, Gone
  <2>2. CASE Shuts(ToHandle', p)
    BY <1>4, <2>2 DEF Target, Shuts
  <2>3. CASE \E j \in ManagedIDs : Shuts(ManagerFrame'[j], p)
    <3>1. PICK j \in ManagedIDs : Shuts(ManagerFrame'[j], p)
      BY <2>3
    <3>2. CASE j # id
      BY <1>1, <3>1, <3>2 DEF Says, Target
    <3>3. CASE j = id
      <4>1. Shuts(ManagerFrame[id], p) \/ Shuts(said, p)
        BY <1>4, <3>1, <3>3 DEF Shuts
      <4> QED BY <1>3, <4>1 DEF Target
    <3> QED BY <3>2, <3>3
  <2> QED BY <1>5, <2>1, <2>2, <2>3 DEF Target
<1>6. budget'["ShutdownProcess"] = IF \E m \in Contents(asked) : m.type = "ShutdownProcess"
                                   THEN budget["ShutdownProcess"] - 1 ELSE budget["ShutdownProcess"]
  BY <1>0, <1>1 DEF Pays
<1>7. ASSUME NEW p \in ProcessIDs, Shuts(asked, p)
      PROVE  /\ budget["ShutdownProcess"] > 0 /\ budget'["ShutdownProcess"] = budget["ShutdownProcess"] - 1
             /\ \A q \in ProcessIDs : Shuts(asked, q) => q = p
  <2>1. PICK m \in Requests(id) : asked = <<m>> /\ m.type = "ShutdownProcess" /\ m.id = p
    BY <1>7, ContentsFew DEF Shuts
  <2>2. budget["ShutdownProcess"] > 0
    BY <2>1, RequestsType
  <2> QED BY <1>6, <2>1, <2>2, ContentsFew DEF Shuts
<1>8. budget'["ShutdownProcess"] <= 1
  BY <1>0, <1>6 DEF TargetInv
<1>9. ASSUME State = "RUNNING", NEW p \in ProcessIDs PROVE OnlyTarget(p)'
  <2> SUFFICES ASSUME Target(p)'
               PROVE  budget'["ShutdownProcess"] = 0 /\ \A q \in ProcessIDs : Target(q)' => q = p
    BY DEF OnlyTarget
  <2>1. \A q \in ProcessIDs : Target(q) => budget["ShutdownProcess"] = 0 /\ \A r \in ProcessIDs : Target(r) => r = q
    BY <1>9 DEF TargetInv, OnlyTarget
  <2>2. CASE Shuts(asked, p)
    <3>1. budget["ShutdownProcess"] = 1 /\ budget'["ShutdownProcess"] = 0
      BY <1>0, <1>7, <2>2 DEF TargetInv
    <3>2. \A q \in ProcessIDs : ~Target(q)
      BY <2>1, <3>1
    <3> QED BY <1>5, <1>7, <2>2, <3>1, <3>2
  <2>3. CASE ~Shuts(asked, p)
    <3>1. Target(p) /\ budget["ShutdownProcess"] = 0
      BY <1>5, <2>1, <2>3
    <3>2. \A q \in ProcessIDs : ~Shuts(asked, q)
      BY <1>7, <3>1
    <3>3. ~ \E m \in Contents(asked) : m.type = "ShutdownProcess"
      <4> SUFFICES ASSUME NEW m \in Contents(asked), m.type = "ShutdownProcess" PROVE FALSE
        OBVIOUS
      <4>1. m \in Requests(id)
        BY ContentsFew
      <4> QED BY <3>1, <4>1, RequestsType
    <3> QED BY <1>5, <1>6, <2>1, <3>1, <3>2, <3>3
  <2> QED BY <2>2, <2>3
<1> QED BY <1>2, <1>8, <1>9 DEF TargetInv

(* A step of a process: what the process is asked to release it notes,   *)
(* gives back and sends.                                                 *)
LEMMA AcknowledgementProcess ==
  ASSUME InterruptibleFlush = FALSE, TypeOK, AcknowledgementInv, NEW id \in ManagedIDs, Process_Step(id)
  PROVE  AcknowledgementInv'
<1> USE IDs
<1>0. /\ mailbox \in [EProcessID -> Seq(Message)] /\ control_frames \in Seq(Message)
      /\ ManagerFrame \in [ManagedIDs -> Seq(Message)]
      /\ ShutdownMailboxes \in [ManagedIDs -> SUBSET EProcessID]
  BY DEF TypeOK, SharedTypeOK, ManagerTypeOK, ProcessTypeOK
<1>1. Process_Next(id) /\ UNCHANGED managerVars /\ control_frames' = control_frames /\ FramesToSend' = FramesToSend
  BY DEF Process_Step, managerVars
<1>2. TypeOK'
  BY TypeProcess
<1>3. resetting = {}
  BY DEF AcknowledgementInv
<1>4. resetting' = {}
  BY <1>1, <1>3 DEF Process_Next, Run, Flush_Regular_Message, Handle_Shutdown_Mailboxes, Flush_System_Messages,
                    Reset_Manager_Frame, Leave_Loop, processVars
<1>5. ASSUME \A q, p \in ProcessIDs : Releasing(q, p) => Releasing(q, p)'
      PROVE  AcknowledgementInv'
  <2>1. UNCHANGED <<State, NextID, ProcessRecords, PendingShutdownIDs>>
    BY <1>1 DEF managerVars
  <2>2. \A p : Closing(p)' <=> Closing(p)
    BY <2>1 DEF Closing
  <2> QED BY <1>4, <1>5, <2>1, <2>2 DEF AcknowledgementInv, Awaited
<1>6. CASE Run(id) /\ Is_Shutting_Down(id)
  <2>1. UNCHANGED <<mailbox, ShutdownMailboxes, ManagerFrame>>
    BY <1>6 DEF Run
  <2> QED BY <1>1, <1>5, <2>1 DEF ToHandle, Releasing
<1>7. CASE Run(id) /\ ~Is_Shutting_Down(id)
  <2>0. Service_Message_Frames(id)
    BY <1>7 DEF Run
  <2>1. PICK asked \in {<<>>} \cup { <<m>> : m \in Requests(id) }, early \in {TRUE, ~LateRequests} :
          ManagerFrame' = [ManagerFrame EXCEPT ![id] = @ \o Frame_After_Messages(id, asked, early)]
    BY <2>0 DEF Service_Message_Frames
  <2>2. /\ mailbox' = [mailbox EXCEPT ![id] = <<>>]
        /\ ShutdownMailboxes' = [ShutdownMailboxes EXCEPT ![id] = @ \cup (Released_Mailboxes(id) \ {INVALID})]
    BY <2>0 DEF Service_Message_Frames, Remove_Frames
  <2>3. early \in BOOLEAN
    BY LateRequestsAssumption
  <2> DEFINE frame == Frame_After_Messages(id, asked, early)
  <2>4. frame \in Seq(Message)
    BY <2>3, FrameSays
  <2>5. ManagerFrame'[id] = ManagerFrame[id] \o frame /\ \A j \in ManagedIDs : j # id => ManagerFrame'[j] = ManagerFrame[j]
    BY <1>0, <2>1
  <2> HIDE DEF frame
  <2>6. Contents(ManagerFrame'[id]) = Contents(ManagerFrame[id]) \cup Contents(frame)
    <3>1. ManagerFrame[id] \in Seq(Message)
      BY <1>0
    <3> QED BY <2>4, <2>5, <3>1, ContentsConcat
  <2>7. ToHandle' = ToHandle
    BY <1>0, <1>1, <2>2 DEF ToHandle
  <2>8. ASSUME NEW q \in ProcessIDs, NEW p \in ProcessIDs, Releasing(q, p) PROVE Releasing(q, p)'
    <3>1. CASE q # id
      <4>1. mailbox'[q] = mailbox[q] /\ ShutdownMailboxes'[q] = ShutdownMailboxes[q] /\ ManagerFrame'[q] = ManagerFrame[q]
        BY <1>0, <2>2, <2>5, <3>1
      <4> QED BY <1>1, <2>7, <2>8, <4>1 DEF Releasing
    <3>2. CASE q = id
      <4>1. Gives(ManagerFrame[q], q, p) => Gives(ManagerFrame'[q], q, p)
        BY <2>6, <3>2 DEF Gives
      <4>2. p \in ShutdownMailboxes[q] \/ Wants(mailbox[q], p) => p \in ShutdownMailboxes'[q]
        BY <1>0, <2>2, <3>2 DEF Wants, Released_Mailboxes, Incoming
      <4> QED BY <1>1, <2>7, <2>8, <4>1, <4>2 DEF Releasing
    <3> QED BY <3>1, <3>2
  <2> QED BY <1>5, <2>8
<1>8. CASE \E dest \in ProcessIDs : Flush_Regular_Message(id, dest)
  <2>1. PICK dest \in ProcessIDs : Flush_Regular_Message(id, dest)
    BY <1>8
  <2> DEFINE frame == [i \in 1 .. PendingOutboundFrames[id][dest] |-> UserMessage(id)]
  <2>2. mailbox' = [mailbox EXCEPT ![dest] = @ \o frame] /\ UNCHANGED <<ShutdownMailboxes, ManagerFrame>>
    BY <2>1 DEF Flush_Regular_Message, Add_Frame
  <2>3. frame \in Seq(Message)
    <3>1. PendingOutboundFrames[id][dest] \in Nat
      BY DEF TypeOK, ProcessTypeOK
    <3>2. UserMessage(id) \in Message
      BY Constructors
    <3> QED BY <3>1, <3>2
  <2> HIDE DEF frame
  <2>4. ToHandle' = ToHandle
    BY <1>0, <1>1, <2>2 DEF ToHandle
  <2>5. \A q \in ProcessIDs : Contents(mailbox[q]) \subseteq Contents(mailbox'[q])
    <3> SUFFICES ASSUME NEW q \in ProcessIDs PROVE Contents(mailbox[q]) \subseteq Contents(mailbox'[q])
      OBVIOUS
    <3>1. mailbox'[q] = mailbox[q] \/ mailbox'[q] = mailbox[q] \o frame
      BY <1>0, <2>2
    <3>2. mailbox[q] \in Seq(Message)
      BY <1>0
    <3> QED BY <2>3, <3>1, <3>2, ContentsConcat
  <2>6. \A q, p \in ProcessIDs : Releasing(q, p) => Releasing(q, p)'
    BY <1>1, <2>2, <2>4, <2>5 DEF Releasing, Wants
  <2> QED BY <1>5, <2>6
<1>9. CASE Handle_Shutdown_Mailboxes(id)
  <2>1. /\ UNCHANGED mailbox
        /\ ManagerFrame' = [ManagerFrame EXCEPT ![id] =
             IF ShutdownMailboxes[id] = {} THEN @ ELSE Append(@, CReleaseMailboxResponse(id, ShutdownMailboxes[id]))]
        /\ ShutdownMailboxes' = [ShutdownMailboxes EXCEPT ![id] = {}]
    BY <1>9 DEF Handle_Shutdown_Mailboxes, sharedVars
  <2>2. ToHandle' = ToHandle
    BY <1>1, <2>1 DEF ToHandle
  <2>3. PICK ids \in SUBSET EProcessID : ids = ShutdownMailboxes[id]
    BY <1>0
  <2>4. PICK response \in Message : /\ response = CReleaseMailboxResponse(id, ids)
                                    /\ response.type = "ReleaseMailboxResponse" /\ response.source = id
                                    /\ response.ids = ids
    BY <2>3, Constructors DEF CReleaseMailboxResponse
  <2>5. \A j \in ManagedIDs : ManagerFrame'[j] = IF j
          = id /\ ids # {} THEN Append(ManagerFrame[j], response) ELSE ManagerFrame[j]
    BY <1>0, <2>1, <2>3, <2>4
  <2>6. \A j \in ManagedIDs : Contents(Append(ManagerFrame[j], response)) = Contents(ManagerFrame[j]) \cup {response}
    BY <1>0, ContentsAppend
  <2>7. ASSUME NEW q \in ProcessIDs, NEW p \in ProcessIDs, Releasing(q, p) PROVE Releasing(q, p)'
    <3>1. Gives(ManagerFrame[q], q, p) => Gives(ManagerFrame'[q], q, p)
      BY <2>5, <2>6 DEF Gives
    <3>2. CASE p \in ShutdownMailboxes[q] /\ q = id
      <4>1. response \in Contents(ManagerFrame'[q]) /\ p \in response.ids /\ response.source = q
        BY <2>3, <2>4, <2>5, <2>6, <3>2
      <4>2. Gives(ManagerFrame'[q], q, p)
        BY <2>4, <4>1 DEF Gives
      <4> QED BY <4>2 DEF Releasing
    <3>3. CASE p \in ShutdownMailboxes[q] /\ q # id
      BY <1>0, <2>1, <3>3 DEF Releasing
    <3> QED BY <1>1, <2>1, <2>2, <2>7, <3>1, <3>2, <3>3 DEF Releasing
  <2> QED BY <1>5, <2>7
<1>10. CASE Flush_System_Messages(id)
  <2>1. PICK frame \in Seq(Message) : frame = ManagerFrame[id]
    BY <1>0
  <2>2. \/ /\ mailbox' = [mailbox EXCEPT ![CONCURRENCY_MANAGER] = @ \o frame]
           /\ ManagerFrame' = [ManagerFrame EXCEPT ![id] = <<>>]
        \/ UNCHANGED <<mailbox, ManagerFrame>>
    BY <1>10, <2>1 DEF Flush_System_Messages, Add_Frame
  <2>3. UNCHANGED ShutdownMailboxes /\ \A q \in ProcessIDs : mailbox'[q] = mailbox[q]
    BY <1>0, <1>10, <2>2 DEF Flush_System_Messages
  <2>4. CASE UNCHANGED <<mailbox, ManagerFrame>>
    BY <1>1, <1>5, <2>3, <2>4 DEF ToHandle, Releasing
  <2>5. CASE /\ mailbox' = [mailbox EXCEPT ![CONCURRENCY_MANAGER] = @ \o frame]
             /\ ManagerFrame' = [ManagerFrame EXCEPT ![id] = <<>>]
    <3>1. Contents(mailbox'[CONCURRENCY_MANAGER]) = Contents(mailbox[CONCURRENCY_MANAGER]) \cup Contents(frame)
      <4>1. mailbox'[CONCURRENCY_MANAGER] = mailbox[CONCURRENCY_MANAGER] \o frame
              /\ mailbox[CONCURRENCY_MANAGER] \in Seq(Message)
        BY <1>0, <2>5
      <4> QED BY <2>1, <4>1, ContentsConcat
    <3>2. Contents(ToHandle') = Contents(ToHandle) \cup Contents(ManagerFrame[id])
      BY <1>1, <1>2, <2>1, <3>1, ToHandleContents
    <3>3. \A j \in ManagedIDs : ManagerFrame'[j] = IF j = id THEN <<>> ELSE ManagerFrame[j]
      BY <1>0, <2>5
    <3>4. \A q, p \in ProcessIDs : Gives(ManagerFrame[q], q, p) => Gives(ManagerFrame'[q], q, p) \/ Gives(ToHandle', q, p)
      BY <3>2, <3>3 DEF Gives
    <3>5. \A q, p \in ProcessIDs : Gives(ToHandle, q, p) => Gives(ToHandle', q, p)
      BY <3>2 DEF Gives
    <3>6. \A q, p \in ProcessIDs : Releasing(q, p) => Releasing(q, p)'
      BY <1>1, <2>3, <3>4, <3>5 DEF Releasing
    <3> QED BY <1>5, <3>6
  <2> QED BY <2>2, <2>4, <2>5
<1>11. CASE Reset_Manager_Frame(id)
  BY <1>3, <1>11 DEF Reset_Manager_Frame
<1>12. CASE Leave_Loop(id)
  <2>1. UNCHANGED <<mailbox, ShutdownMailboxes, ManagerFrame>>
    BY <1>12 DEF Leave_Loop, processVars
  <2> QED BY <1>1, <1>5, <2>1 DEF ToHandle, Releasing
<1> QED BY <1>1, <1>6, <1>7, <1>8, <1>9, <1>10, <1>11, <1>12 DEF Process_Next

(* Every step keeps both.                                                *)
LEMMA TargetNext ==
  TypeOK /\ ExecutionInv /\ HandleInv /\ Begun /\ TargetInv /\ [Next]_vars => Begun' /\ TargetInv'
<1> SUFFICES ASSUME TypeOK, ExecutionInv, HandleInv, Begun, TargetInv, [Next]_vars
             PROVE  Begun' /\ TargetInv'
  OBVIOUS
<1>1. CASE UNCHANGED <<mailbox, managerVars, processVars>>
  <2>1. UNCHANGED <<State, NextID, ProcessRecords, control_frames, mailbox, budget, ManagerFrame>>
    BY <1>1 DEF managerVars, processVars
  <2>2. ToHandle' = ToHandle
    BY <2>1 DEF ToHandle
  <2>3. \A p : (Leaving(p)' <=> Leaving(p)) /\ (Has_Record(p)' <=> Has_Record(p))
    BY <2>1 DEF Leaving, Closing, Closed, Gone, Has_Record
  <2>4. \A p : Target(p)' <=> Target(p)
    BY <2>1, <2>2, <2>3 DEF Target
  <2>5. \A p \in ProcessIDs : OnlyTarget(p)' <=> OnlyTarget(p)
    BY <2>1, <2>4 DEF OnlyTarget
  <2> QED BY <2>1, <2>3, <2>5 DEF TargetInv, Begun
<1>2. CASE Manager_Step
  BY <1>2, TargetManager, RecordsLive DEF Manager_Step
<1>3. CASE \E id \in ManagedIDs : Process_Step(id)
  <2>1. UNCHANGED managerVars
    BY <1>3 DEF Process_Step
  <2>2. Begun'
    BY <2>1 DEF Begun, Has_Record, managerVars
  <2> QED BY <1>3, <2>2, TargetProcess
<1> QED BY <1>1, <1>2, <1>3 DEF Next, Fatal_Assert, Ended, vars, sharedVars

(* The second needs that no worker is interrupted in its flush.          *)
LEMMA AcknowledgementNext ==
  ASSUME InterruptibleFlush = FALSE
  PROVE  TypeOK /\ ExecutionInv /\ HandleInv /\ Begun /\ AcknowledgementInv /\ [Next]_vars => AcknowledgementInv'
<1> SUFFICES ASSUME TypeOK, ExecutionInv, HandleInv, Begun, AcknowledgementInv, [Next]_vars
             PROVE  AcknowledgementInv'
  OBVIOUS
<1>1. CASE UNCHANGED <<mailbox, managerVars, processVars>>
  <2>1. UNCHANGED <<State, NextID, ProcessRecords, PendingShutdownIDs, FramesToSend, control_frames, mailbox,
                    resetting, ManagerFrame, ShutdownMailboxes>>
    BY <1>1 DEF managerVars, processVars
  <2>2. ToHandle' = ToHandle
    BY <2>1 DEF ToHandle
  <2>3. \A p : Closing(p)' <=> Closing(p)
    BY <2>1 DEF Closing
  <2>4. \A q, p : Releasing(q, p)' <=> Releasing(q, p)
    BY <2>1, <2>2 DEF Releasing
  <2>5. \A q, p : Awaited(q, p)' <=> Awaited(q, p)
    BY <2>1, <2>3, <2>4 DEF Awaited
  <2> QED BY <2>1, <2>5 DEF AcknowledgementInv
<1>2. CASE Manager_Step
  BY <1>2, AcknowledgementManager
<1>3. CASE \E id \in ManagedIDs : Process_Step(id)
  BY <1>3, AcknowledgementProcess
<1> QED BY <1>1, <1>2, <1>3 DEF Next, Fatal_Assert, Ended, vars, sharedVars

(* AcknowledgementsOnTheirWay: with one shutdown of a process, and no     *)
(* worker interrupted while it flushes, no answer that the manager waits  *)
(* for is lost.  Either condition is needed: a process that is shut down  *)
(* itself does not answer, and a frame that is reset is not sent.         *)
THEOREM OneShutdownIsAnswered ==
  ASSUME \A b \in Budgets : b["ShutdownProcess"] <= 1, InterruptibleFlush = FALSE
  PROVE  Spec => []AcknowledgementsOnTheirWay
<1> DEFINE All == TypeOK /\ ExecutionInv /\ HandleInv /\ Begun /\ TargetInv /\ AcknowledgementInv
<1>1. Init => All
  BY TypeInit, ExecutionInit, HandleInit, HandlesInit, AcknowledgementInit
<1>2. All /\ [Next]_vars => All'
  BY TypeNext, ExecutionNext, HandleNext, TargetNext, AcknowledgementNext
<1>3. All => AcknowledgementsOnTheirWay
  <2> SUFFICES ASSUME TypeOK, TargetInv, AcknowledgementInv, State = "RUNNING",
                      NEW p \in ProcessIDs, NEW q \in PendingShutdownIDs[p]
               PROVE  \/ \E m \in To_Process(q) : m.type = "ReleaseMailboxRequest" /\ m.id = p
                      \/ p \in ShutdownMailboxes[q]
                      \/ \E m \in From_Process(q) : m.type = "ReleaseMailboxResponse" /\ p \in m.ids
    BY DEF AcknowledgementsOnTheirWay
  <2>1. q \in EProcessID /\ NextID \in Int
    BY IDs DEF TypeOK, ManagerTypeOK
  <2>2. q \in ProcessIDs /\ q # p /\ q < NextID /\ Closing(p) /\ Releasing(q, p)
    BY <2>1 DEF AcknowledgementInv, Awaited
  <2>3. Has_Record(q)
    <3>1. ~Target(q)
      BY <2>2 DEF TargetInv, OnlyTarget, Target, Leaving
    <3> QED BY <2>2, <3>1 DEF Target, Leaving, Gone, Has_Record
  <2>4. Contents(ToHandle) = To_Manager
    BY ToHandleContents DEF To_Manager
  <2>5. CASE Wants(mailbox[q], p) \/ Wants(FramesToSend[q], p)
    BY <2>3, <2>5 DEF Wants, To_Process
  <2>6. CASE Gives(ManagerFrame[q], q, p) \/ Gives(ToHandle, q, p)
    BY <2>4, <2>6 DEF Gives, From_Process
  <2> QED BY <2>2, <2>5, <2>6 DEF Releasing
<1> QED BY <1>1, <1>2, <1>3, PTL DEF Spec
-----------------------------------------------------------------------------
(* What follows what in a queue.                                         *)

(* After a message of E there are only messages of F.                    *)
Followed(queue, E, F) == \A i, j \in DOMAIN queue : i < j /\ queue[i] \in E => queue[j] \in F

(* There is no message of E in a queue, or but one.                      *)
LEMMA FollowedFew ==
  /\ \A E, F : Followed(<<>>, E, F)
  /\ \A E, F : \A m : Followed(<<m>>, E, F)
  /\ \A s, E, F : (\A m \in Contents(s) : m \notin E) => Followed(s, E, F)
  /\ \A s, E, F : (\A m \in Contents(s) : m \in F) => Followed(s, E, F)
BY DEF Followed, Contents

(* A queue to which another is added.                                    *)
LEMMA FollowedConcat ==
  ASSUME NEW s \in Seq(Message), NEW t \in Seq(Message), NEW E, NEW F, Followed(s, E, F), Followed(t, E, F),
         (\E m \in Contents(s) : m \in E) => \A m \in Contents(t) : m \in F
  PROVE  Followed(s \o t, E, F)
<1> DEFINE st == s \o t
<1>1. /\ Len(st) = Len(s) + Len(t)
      /\ DOMAIN s = 1 .. Len(s) /\ DOMAIN t = 1 .. Len(t) /\ DOMAIN st = 1 .. Len(st)
      /\ Len(s) \in Nat /\ Len(t) \in Nat
  OBVIOUS
<1>2. \A i \in DOMAIN st : \/ i \in DOMAIN s /\ st[i] = s[i]
                           \/ i - Len(s) \in DOMAIN t /\ st[i] = t[i - Len(s)] /\ i \notin DOMAIN s
  BY <1>1
<1> HIDE DEF st
<1> SUFFICES ASSUME NEW i \in DOMAIN st, NEW j \in DOMAIN st, i < j, st[i] \in E PROVE st[j] \in F
  BY DEF Followed, st
<1>3. CASE j \in DOMAIN s
  <2>1. i \in DOMAIN s
    BY <1>1, <1>3
  <2>2. st[i] = s[i] /\ st[j] = s[j]
    BY <1>2, <1>3, <2>1
  <2> QED BY <1>3, <2>1, <2>2 DEF Followed
<1>4. CASE j \notin DOMAIN s
  <2>1. j - Len(s) \in DOMAIN t /\ st[j] = t[j - Len(s)]
    BY <1>2, <1>4
  <2>2. CASE i \in DOMAIN s
    <3>1. st[i] = s[i]
      BY <1>2, <2>2
    <3>2. \E m \in Contents(s) : m \in E
      BY <2>2, <3>1 DEF Contents
    <3> QED BY <2>1, <3>2 DEF Contents
  <2>3. CASE i \notin DOMAIN s
    <3>1. i - Len(s) \in DOMAIN t /\ st[i] = t[i - Len(s)]
      BY <1>2, <2>3
    <3>2. i - Len(s) < j - Len(s)
      BY <1>1
    <3> QED BY <2>1, <3>1, <3>2 DEF Followed
  <2> QED BY <2>2, <2>3
<1> QED BY <1>3, <1>4

(* A queue from which the first message is taken.                        *)
LEMMA FollowedTail ==
  ASSUME NEW s \in Seq(Message), s # <<>>, NEW E, NEW F, Followed(s, E, F)
  PROVE  /\ Followed(Tail(s), E, F)
         /\ Head(s) \in E => \A m \in Contents(Tail(s)) : m \in F
<1> DEFINE t == Tail(s)
<1>1. /\ DOMAIN s = 1 .. Len(s) /\ DOMAIN t = 1 .. Len(s) - 1 /\ Len(s) \in Nat /\ Len(s) > 0 /\ Head(s) = s[1]
  OBVIOUS
<1>2. \A i \in DOMAIN t : i + 1 \in DOMAIN s /\ t[i] = s[i + 1] /\ 1 < i + 1
  BY <1>1
<1>3. 1 \in DOMAIN s /\ \A i, j \in DOMAIN t : i < j => i + 1 < j + 1
  BY <1>1
<1> HIDE DEF t
<1>4. Followed(t, E, F)
  BY <1>2, <1>3 DEF Followed
<1>5. Head(s) \in E => \A m \in Contents(t) : m \in F
  BY <1>1, <1>2, <1>3 DEF Followed, Contents
<1> QED BY <1>4, <1>5 DEF t

(* What the manager does to what it has to handle: if anything, it takes *)
(* the first message.                                                    *)
LEMMA ManagerTakesFirst ==
  ASSUME TypeOK, ExecutionInv, FramesToSend[CONCURRENCY_MANAGER] = <<>>, Manager_Next
  PROVE  /\ ToHandle \in Seq(Message)
         /\ \/ ~Handle_Message /\ ToHandle' = ToHandle
            \/ Handle_Message /\ ToHandle # <<>> /\ message = Head(ToHandle) /\ ToHandle' = Tail(ToHandle)
<1> USE IDs
<1> DEFINE new == mailbox[CONCURRENCY_MANAGER]
<1>0. control_frames \in Seq(Message) /\ new \in Seq(Message) /\ mailbox \in [EProcessID -> Seq(Message)]
  BY DEF TypeOK, SharedTypeOK, ManagerTypeOK
<1>1. ToHandle = control_frames \o new /\ ToHandle \in Seq(Message)
  BY <1>0, ContentsConcat DEF ToHandle
<1>2. CASE Handle_Message
  <2>1. control_frames # <<>> /\ control_frames' = Tail(control_frames) /\ mailbox' = mailbox
    BY <1>2, HandlerFrame
  <2>2. ToHandle' = Tail(control_frames) \o new
    BY <2>1 DEF ToHandle
  <2> HIDE DEF new
  <2>3. /\ control_frames \o new # <<>> /\ Head(control_frames) = Head(control_frames \o new)
        /\ Tail(control_frames) \o new = Tail(control_frames \o new)
    BY <1>0, <2>1
  <2> QED BY <1>1, <1>2, <2>2, <2>3 DEF message
<1>3. CASE Service_Incoming_Frames
  <2>1. control_frames = <<>> /\ control_frames' = new /\ mailbox'[CONCURRENCY_MANAGER] = <<>>
    BY <1>0, <1>3 DEF Service_Incoming_Frames, ExecutionInv, Remove_Frames
  <2>2. ~Handle_Message
    BY <1>3, HandlerFrame DEF Service_Incoming_Frames
  <2>3. <<>> \o new = new /\ new \o <<>> = new
    BY <1>0
  <2> QED BY <1>1, <2>1, <2>2, <2>3 DEF ToHandle
<1>4. CASE \E id \in EProcessID : Flush_Frame(id)
  <2>1. PICK id \in EProcessID : Flush_Frame(id)
    BY <1>4
  <2>2. id # CONCURRENCY_MANAGER
    BY <2>1 DEF Flush_Frame, Unsent
  <2>3. ToHandle' = ToHandle
    BY <1>0, <2>1, <2>2 DEF Flush_Frame, Add_Frame, ToHandle
  <2>4. ~Handle_Message
    BY <2>1, HandlerFrame DEF Flush_Frame
  <2> QED BY <1>1, <2>3, <2>4
<1>5. CASE Flush_Frames_Done \/ Service_Shutdown \/ \E id \in ManagedIDs : Execute_Process(id)
  <2>1. ToHandle' = ToHandle
    BY <1>5 DEF Flush_Frames_Done, Service_Shutdown, Execute_Process, sharedVars, ToHandle
  <2>2. ~Handle_Message
    BY <1>5, HandlerFrame DEF Flush_Frames_Done, Service_Shutdown, Execute_Process
  <2> QED BY <1>1, <2>1, <2>2
<1> QED BY <1>2, <1>3, <1>4, <1>5 DEF Manager_Next

(* What is sent to a process, and to whom, when a new process is added.  *)
OfNew(new, source, q, sent) ==
  /\ \A m \in Contents(sent) :
       /\ m.type = "AddMailbox"
       /\ m.ids = {new} \/ (m.ids = {Get_Mailbox(source)} /\ ~Is_Process_Shutting_Down(source))
  /\ sent # <<>> => \/ q \in Ongoing_Requesters(new)
                    \/ q = source /\ ~Is_Process_Shutting_Down(source)
                    \/ q = new

(* Frames_For_New_Process adds this to the frame for q.                  *)
LEMMA NewFrames ==
  ASSUME TypeOK, NEW new \in EProcessID, NEW source \in EProcessID, NEW flags, NEW q \in EProcessID
  PROVE  \E sent \in Seq(Message) : /\ Frames_For_New_Process(new, source, flags)[q] = FramesToSend[q] \o sent
                                    /\ OfNew(new, source, q, sent)
<1> USE IDs
<1> DEFINE answer == ~Is_Process_Shutting_Down(source)
           a == Mailboxes_If(q \in Ongoing_Requesters(new), {new})
           b == Mailboxes_If(answer /\ "return" \in flags /\ q = source, {new})
           c == Mailboxes_If(answer /\ "forward" \in flags /\ q = new, {Get_Mailbox(source)})
           f == FramesToSend[q]
           Fine(m) == /\ m.type = "AddMailbox"
                      /\ m.ids = {new} \/ (m.ids = {Get_Mailbox(source)} /\ ~Is_Process_Shutting_Down(source))
           Good(s) == s \in Seq(Message) /\ \A m \in Contents(s) : Fine(m)
<1>1. Get_Mailbox(source) \in EProcessID \cup {INVALID}
  BY DEF Get_Mailbox
<1>2. \A ids \in SUBSET (EProcessID \cup {INVALID}) :
        CAddMailboxMessage(ids) \in Message /\ CAddMailboxMessage(ids).type = "AddMailbox"
            /\ CAddMailboxMessage(ids).ids = ids
  BY Constructors DEF CAddMailboxMessage
<1>3. f \in Seq(Message)
  BY DEF TypeOK, ManagerTypeOK
<1>4. Good(<<>>)
  BY ContentsFew
<1>5. {new} \in SUBSET (EProcessID \cup {INVALID}) /\ {Get_Mailbox(source)} \in SUBSET (EProcessID \cup {INVALID})
  BY <1>1
<1>6. Good(<<CAddMailboxMessage({new})>>) /\ (answer => Good(<<CAddMailboxMessage({Get_Mailbox(source)})>>))
  BY <1>2, <1>5, ContentsFew
<1>7. Frames_For_New_Process(new, source, flags)[q] = ((f \o a) \o b) \o c
  BY DEF Frames_For_New_Process
<1> HIDE DEF Good, f
<1>8. Good(a) /\ Good(b) /\ Good(c)
  BY <1>4, <1>6 DEF Mailboxes_If
<1>9. \/ a = <<>> /\ b = <<>> /\ c = <<>>
      \/ q \in Ongoing_Requesters(new) \/ (q = source /\ answer) \/ q = new
  BY DEF Mailboxes_If
<1> HIDE DEF a, b, c, answer, Fine
<1>10. \A s, t : Good(s) /\ Good(t) => Good(s \o t)
  BY ContentsConcat DEF Good
<1> DEFINE sent == (a \o b) \o c
<1>11. Good(sent)
  <2>1. Good(a \o b)
    BY <1>8, <1>10
  <2> QED BY <1>8, <1>10, <2>1
<1>12. ((f \o a) \o b) \o c = f \o sent
  <2>1. a \in Seq(Message) /\ b \in Seq(Message) /\ c \in Seq(Message)
    BY <1>8 DEF Good
  <2>2. (f \o a) \o b = f \o (a \o b)
    BY <1>3, <2>1, Associative
  <2>3. a \o b \in Seq(Message)
    BY <2>1, ContentsConcat
  <2>4. (f \o (a \o b)) \o c = f \o ((a \o b) \o c)
    BY <1>3, <2>1, <2>3, Associative
  <2> QED BY <2>2, <2>4
<1>13. sent # <<>> => q \in Ongoing_Requesters(new) \/ (q = source /\ answer) \/ q = new
  <2>1. (<<>> \o <<>>) \o <<>> = <<>>
    OBVIOUS
  <2> QED BY <1>9, <2>1
<1> HIDE DEF sent
<1> QED BY <1>7, <1>11, <1>12, <1>13 DEF Good, Fine, f, answer, OfNew

(* What a step of process id does to a mailbox: its own it may take, to  *)
(* others it may add messages of the application.                        *)
LEMMA ProcessMail ==
  ASSUME TypeOK, NEW id \in ManagedIDs, Process_Step(id), NEW q \in ManagedIDs
  PROVE  /\ q = id /\ Executes(id) => mailbox'[q] = <<>> /\ processState'[q] = State_After_Messages(q)
         /\ ~(q = id /\ Executes(id)) =>
              /\ processState'[q] = processState[q]
              /\ \E users \in Seq(Message) : /\ mailbox'[q] = mailbox[q] \o users
                                             /\ \A m \in Contents(users) : m.type = "User"
<1> USE IDs
<1>0. mailbox \in [EProcessID -> Seq(Message)] /\ processState \in [ManagedIDs -> EProcessState]
  BY DEF TypeOK, SharedTypeOK, ProcessTypeOK
<1>1. Process_Next(id)
  BY DEF Process_Step
<1>2. q = id /\ Executes(id) => mailbox'[q] = <<>> /\ processState'[q] = State_After_Messages(q)
  BY <1>0 DEF Executes, Service_Message_Frames, Remove_Frames
<1> SUFFICES ASSUME ~(q = id /\ Executes(id))
             PROVE  /\ processState'[q] = processState[q]
                    /\ \E users \in Seq(Message) : /\ mailbox'[q] = mailbox[q] \o users
                                                   /\ \A m \in Contents(users) : m.type = "User"
  BY <1>2
<1> DEFINE Goal == \E users \in Seq(Message) : /\ mailbox'[q] = mailbox[q] \o users
                                               /\ \A m \in Contents(users) : m.type = "User"
<1>3. mailbox'[q] = mailbox[q] => Goal
  <2> SUFFICES ASSUME mailbox'[q] = mailbox[q] PROVE Goal
    OBVIOUS
  <2>1. mailbox[q] = mailbox[q] \o <<>>
    BY <1>0
  <2>2. PICK none : none = <<>>
    OBVIOUS
  <2>4. none \in Seq(Message)
    BY <2>2
  <2>3. mailbox'[q] = mailbox[q] \o none /\ \A m \in Contents(none) : m.type = "User"
    BY <2>1, <2>2, ContentsFew
  <2> QED BY <2>3, <2>4
<1> HIDE DEF Goal
<1> SUFFICES processState'[q] = processState[q] /\ Goal
  BY DEF Goal
<1>4. CASE Run(id) /\ Is_Shutting_Down(id)
  BY <1>3, <1>4 DEF Run
<1>5. CASE Run(id) /\ ~Is_Shutting_Down(id)
  <2>1. q # id /\ Service_Message_Frames(id)
    BY <1>5 DEF Run, Begin, Executes
  <2> QED BY <1>0, <1>3, <2>1 DEF Service_Message_Frames, Remove_Frames
<1>6. CASE \E dest \in ProcessIDs : Flush_Regular_Message(id, dest)
  <2>1. PICK dest \in ProcessIDs : Flush_Regular_Message(id, dest)
    BY <1>6
  <2> DEFINE frame == [i \in 1 .. PendingOutboundFrames[id][dest] |-> UserMessage(id)]
  <2>2. mailbox' = [mailbox EXCEPT ![dest] = @ \o frame] /\ processState' = processState
    BY <2>1 DEF Flush_Regular_Message, Add_Frame
  <2>3. frame \in Seq(Message) /\ \A m \in Contents(frame) : m.type = "User"
    <3>1. PendingOutboundFrames[id][dest] \in Nat
      BY DEF TypeOK, ProcessTypeOK
    <3>2. UserMessage(id) \in Message /\ UserMessage(id).type = "User"
      BY Constructors DEF UserMessage, About
    <3> QED BY <3>1, <3>2 DEF Contents
  <2> HIDE DEF frame
  <2>4. mailbox'[q] = mailbox[q] \/ mailbox'[q] = mailbox[q] \o frame
    BY <1>0, <2>2
  <2> QED BY <1>3, <2>2, <2>3, <2>4 DEF Goal
<1>7. CASE Handle_Shutdown_Mailboxes(id)
  BY <1>3, <1>7 DEF Handle_Shutdown_Mailboxes, sharedVars
<1>8. CASE Flush_System_Messages(id)
  <2>1. mailbox'[q] = mailbox[q]
    BY <1>0, <1>8 DEF Flush_System_Messages, Add_Frame
  <2> QED BY <1>3, <1>8, <2>1 DEF Flush_System_Messages
<1>9. CASE Reset_Manager_Frame(id)
  BY <1>3, <1>9 DEF Reset_Manager_Frame, sharedVars
<1>10. CASE Leave_Loop(id)
  BY <1>3, <1>10 DEF Leave_Loop, processVars
<1> QED BY <1>1, <1>4, <1>5, <1>6, <1>7, <1>8, <1>9, <1>10 DEF Process_Next

-----------------------------------------------------------------------------
(* A mailbox is given back once (ConcurrencyManager.cpp:744).            *)

Givings(q, p) == { m \in Message : m.type = "ReleaseMailboxResponse" /\ m.source = q /\ p \in m.ids }
GivesOnce(queue, q, p) == Followed(queue, Givings(q, p), Message \ Givings(q, p))

(* Only of those who are waited for a mailbox is asked back, and the      *)
(* request or the answer is in one place.                                 *)
OneAnswer(q, p) ==
  /\ Releasing(q, p) => q \in PendingShutdownIDs[p]
  /\ GivesOnce(ManagerFrame[q], q, p) /\ GivesOnce(ToHandle, q, p)
  /\ Wants(FramesToSend[q], p) =>
       ~Wants(mailbox[q], p) /\ p \notin ShutdownMailboxes[q] /\ ~Gives(ManagerFrame[q], q, p) /\ ~Gives(ToHandle, q, p)
  /\ Wants(mailbox[q], p) =>
       p \notin ShutdownMailboxes[q] /\ ~Gives(ManagerFrame[q], q, p) /\ ~Gives(ToHandle, q, p)
  /\ p \in ShutdownMailboxes[q] => ~Gives(ManagerFrame[q], q, p) /\ ~Gives(ToHandle, q, p)
  /\ Gives(ManagerFrame[q], q, p) => ~Gives(ToHandle, q, p)

(* It is the mailbox of a process.                                       *)
Proper(m) == /\ m.type = "ReleaseMailboxRequest" => m.id \in ProcessIDs
             /\ m.type = "ReleaseMailboxResponse" => m.ids \subseteq ProcessIDs

(* The manager waits for others only while the record of p is in its     *)
(* first phase.                                                          *)
ReleaseInv ==
  State = "RUNNING" =>
    /\ \A p \in ProcessIDs : PendingShutdownIDs[p] # {} => Closing(p)
    /\ \A q \in ManagedIDs, p \in ProcessIDs : OneAnswer(q, p)
    /\ \A q \in ManagedIDs : /\ \A m \in Contents(FramesToSend[q]) : Proper(m)
                             /\ \A m \in Contents(mailbox[q]) : Proper(m)
                             /\ \A m \in Contents(ManagerFrame[q]) : Proper(m)
                             /\ ShutdownMailboxes[q] \subseteq ProcessIDs
    /\ \A m \in Contents(ToHandle) : Proper(m)

(* The initial state.                                                    *)
LEMMA ReleaseInit == Init => ReleaseInv
<1> SUFFICES ASSUME Init PROVE ReleaseInv
  OBVIOUS
<1> USE IDs
<1>1. ToHandle = <<>> /\ \A q \in ManagedIDs : /\ FramesToSend[q] = <<>> /\ mailbox[q] = <<>>
                                               /\ ManagerFrame[q] = <<>> /\ ShutdownMailboxes[q] = {}
  BY DEF Init, SharedInit, Setup_For_Run, ProcessInit, ToHandle
<1>2. \A p \in ProcessIDs : PendingShutdownIDs[p] = {}
  BY DEF Init, Setup_For_Run
<1>3. \A q \in ManagedIDs, p \in ProcessIDs : OneAnswer(q, p)
  BY <1>1, EmptySaysNothing, FollowedFew DEF OneAnswer, Releasing, GivesOnce
<1> QED BY <1>1, <1>2, <1>3, ContentsFew DEF ReleaseInv

(* A message that gives back is one of Givings.                          *)
LEMMA GivingsAre ==
  ASSUME NEW s \in Seq(Message), NEW q, NEW p
  PROVE  /\ (\E m \in Contents(s) : m \in Givings(q, p)) <=> Gives(s, q, p)
         /\ (\A m \in Contents(s) : m \in Message \ Givings(q, p)) <=> ~Gives(s, q, p)
BY ContentsType DEF Givings, Gives
(* What process id adds to its frame in a step: what it gives back it     *)
(* has been asked to release, and then has no longer to.                  *)
LEMMA ProcessGives ==
  ASSUME TypeOK, ExecutionInv, NEW id \in ManagedIDs, Process_Step(id)
  PROVE  \E said \in Seq(Message) :
           /\ Says(id, said)
           /\ \A p : Gives(said, id, p) => p \in ShutdownMailboxes[id] /\ ShutdownMailboxes'[id] = {}
           /\ \A p : GivesOnce(said, id, p)
           /\ \A m \in Contents(said) : m.type # "ReleaseMailboxRequest" /\ (m.type = "ReleaseMailboxResponse"
                => m.ids \subseteq ShutdownMailboxes[id])
           /\ \A q \in ManagedIDs : q # id => ShutdownMailboxes'[q] = ShutdownMailboxes[q]
           /\ \/ ShutdownMailboxes'[id] \subseteq ShutdownMailboxes[id]
              \/ Executes(id) /\ ShutdownMailboxes'[id] \subseteq ShutdownMailboxes[id] \cup Released_Mailboxes(id)
<1> USE IDs
<1>0. ShutdownMailboxes \in [ManagedIDs -> SUBSET EProcessID]
  BY DEF TypeOK, ProcessTypeOK
<1>1. Process_Next(id)
  BY DEF Process_Step
<1>2. /\ \A q \in ManagedIDs : q # id => ShutdownMailboxes'[q] = ShutdownMailboxes[q]
      /\ \/ ShutdownMailboxes'[id] \subseteq ShutdownMailboxes[id]
         \/ Executes(id) /\ ShutdownMailboxes'[id] \subseteq ShutdownMailboxes[id] \cup Released_Mailboxes(id)
  <2>1. CASE Run(id) /\ Is_Shutting_Down(id)
    BY <2>1 DEF Run
  <2>2. CASE Run(id) /\ ~Is_Shutting_Down(id)
    <3>1. Executes(id)
      BY <2>2 DEF Run, Begin, Executes
    <3> QED BY <1>0, <3>1 DEF Executes, Service_Message_Frames
  <2>3. CASE \E dest \in ProcessIDs : Flush_Regular_Message(id, dest)
    BY <2>3 DEF Flush_Regular_Message
  <2>4. CASE Handle_Shutdown_Mailboxes(id)
    BY <1>0, <2>4 DEF Handle_Shutdown_Mailboxes
  <2>5. CASE Flush_System_Messages(id) \/ Reset_Manager_Frame(id) \/ Leave_Loop(id)
    BY <2>5 DEF Flush_System_Messages, Reset_Manager_Frame, Leave_Loop, processVars
  <2> QED BY <1>1, <2>1, <2>2, <2>3, <2>4, <2>5 DEF Process_Next
<1>3. PICK said \in Seq(Message), asked \in {<<>>} \cup { <<m>> : m \in Requests(id) } :
        Says(id, said) /\ Speech(id, said, asked)
  BY ProcessSays
<1> DEFINE Fine == /\ \A p : Gives(said, id, p) => p \in ShutdownMailboxes[id] /\ ShutdownMailboxes'[id] = {}
                   /\ \A p : GivesOnce(said, id, p)
                   /\ \A m \in Contents(said) : m.type # "ReleaseMailboxRequest"
                        /\ (m.type = "ReleaseMailboxResponse" => m.ids \subseteq ShutdownMailboxes[id])
<1>4. ASSUME \A p : ~Gives(said, id, p), \A m \in Contents(said) : m.type \notin {"ReleaseMailboxResponse", "ReleaseMailboxRequest"}
      PROVE  Fine
  <2>1. \A p : \A m \in Contents(said) : m \notin Givings(id, p)
    BY <1>4 DEF Givings
  <2> QED BY <1>4, <2>1, FollowedFew DEF GivesOnce
<1> SUFFICES Fine
  BY <1>2, <1>3
<1>5. CASE said = <<>>
  BY <1>4, <1>5, ContentsFew, EmptySaysNothing
<1>6. CASE \E early \in {TRUE, ~LateRequests} : said = Frame_After_Messages(id, asked, early)
  <2>1. PICK early \in BOOLEAN : said = Frame_After_Messages(id, asked, early)
    BY <1>6, LateRequestsAssumption
  <2>2. \A p : ~Gives(said, id, p)
    BY <2>1, FrameSays
  <2>3. \A m \in Contents(said) : m.type \notin {"ReleaseMailboxResponse", "ReleaseMailboxRequest"}
    <3> SUFFICES ASSUME NEW m \in Contents(said), m.type \in {"ReleaseMailboxResponse", "ReleaseMailboxRequest"} PROVE FALSE
      OBVIOUS
    <3>1. m.type \in RequestTypes
      BY <2>1, FrameAsks, RequestsType DEF OfProcesses
    <3> QED BY <3>1 DEF RequestTypes
  <2> QED BY <1>4, <2>2, <2>3
<1>7. CASE Handle_Shutdown_Mailboxes(id) /\ said = <<CReleaseMailboxResponse(id, ShutdownMailboxes[id])>>
  <2>1. ShutdownMailboxes'[id] = {}
    BY <1>0, <1>7 DEF Handle_Shutdown_Mailboxes
  <2>2. PICK response : /\ said = <<response>> /\ response.ids = ShutdownMailboxes[id]
                        /\ response.type = "ReleaseMailboxResponse"
    BY <1>7 DEF CReleaseMailboxResponse
  <2>3. Contents(said) = {response} /\ \A p : GivesOnce(said, id, p)
    BY <2>2, ContentsFew, FollowedFew DEF GivesOnce
  <2> QED BY <2>1, <2>2, <2>3 DEF Gives
<1> QED BY <1>3, <1>5, <1>6, <1>7 DEF Speech
(* A queue with another one after it gives a mailbox back once, if only   *)
(* one of them does.                                                      *)
LEMMA GivesOnceConcat ==
  ASSUME NEW s \in Seq(Message), NEW t \in Seq(Message), NEW q, NEW p,
         GivesOnce(s, q, p), GivesOnce(t, q, p), ~Gives(s, q, p) \/ ~Gives(t, q, p)
  PROVE  /\ s \o t \in Seq(Message)
         /\ GivesOnce(s \o t, q, p)
         /\ Gives(s \o t, q, p) <=> Gives(s, q, p) \/ Gives(t, q, p)
<1>1. GivesOnce(s \o t, q, p)
  BY GivingsAre, FollowedConcat DEF GivesOnce
<1> QED BY <1>1, ContentsConcat DEF Gives

(* A step of a process: what it is asked to release it gives back once.  *)
LEMMA ReleaseProcess ==
  ASSUME TypeOK, ExecutionInv, ReleaseInv, NEW id \in ManagedIDs, Process_Step(id)
  PROVE  ReleaseInv'
<1> USE IDs
<1>0. /\ mailbox \in [EProcessID -> Seq(Message)] /\ control_frames \in Seq(Message)
      /\ \A j \in ManagedIDs : ManagerFrame[j] \in Seq(Message)
      /\ \A j \in ManagedIDs : ShutdownMailboxes[j] \in SUBSET EProcessID
  BY DEF TypeOK, SharedTypeOK, ManagerTypeOK, ProcessTypeOK
<1>1. UNCHANGED <<State, NextID, ProcessRecords, PendingShutdownIDs, FramesToSend>>
  BY DEF Process_Step, managerVars
<1> SUFFICES ASSUME State = "RUNNING" PROVE ReleaseInv'
  BY <1>1 DEF ReleaseInv
<1>2. ToHandle \in Seq(Message)
  <2>1. mailbox[CONCURRENCY_MANAGER] \in Seq(Message)
    BY <1>0
  <2> QED BY <1>0, <2>1, ContentsConcat DEF ToHandle
<1>3. PICK said \in Seq(Message) :
        /\ Says(id, said)
        /\ \A p : Gives(said, id, p) => p \in ShutdownMailboxes[id] /\ ShutdownMailboxes'[id] = {}
        /\ \A p : GivesOnce(said, id, p)
        /\ \A m \in Contents(said) : m.type # "ReleaseMailboxRequest" /\ (m.type = "ReleaseMailboxResponse"
             => m.ids \subseteq ShutdownMailboxes[id])
        /\ \A q \in ManagedIDs : q # id => ShutdownMailboxes'[q] = ShutdownMailboxes[q]
        /\ \/ ShutdownMailboxes'[id] \subseteq ShutdownMailboxes[id]
           \/ Executes(id) /\ ShutdownMailboxes'[id] \subseteq ShutdownMailboxes[id] \cup Released_Mailboxes(id)
  BY ProcessGives
<1>4. PICK frame \in Seq(Message) : frame = ManagerFrame[id]
  BY <1>0
<1>5. \/ ToHandle' = ToHandle /\ ManagerFrame'[id] = frame \o said
      \/ ToHandle' \in {ToHandle, ToHandle \o frame} /\ ManagerFrame'[id] = <<>> /\ said = <<>>
  BY <1>3, <1>4 DEF Says
<1>6. \A m \in Contents(frame) : m.source = id
  BY <1>4 DEF ExecutionInv
<1>7. /\ Contents(ToHandle \o frame) = Contents(ToHandle) \cup Contents(frame)
      /\ Contents(frame \o said) = Contents(frame) \cup Contents(said)
      /\ Contents(<<>>) = {}
  BY <1>2, <1>3, <1>4, ContentsConcat, ContentsFew
<1>8. ASSUME NEW q \in ManagedIDs
      PROVE  /\ \A p : Wants(mailbox'[q], p) => Wants(mailbox[q], p)
             /\ q = id /\ Executes(id) => \A p : ~Wants(mailbox'[q], p)
             /\ \A m \in Contents(mailbox'[q]) : m.type = "User" \/ m \in Contents(mailbox[q])
  <2>1. mailbox[q] \in Seq(Message)
    BY <1>0
  <2>2. CASE q = id /\ Executes(id)
    <3>1. mailbox'[q] = <<>>
      BY <2>2, ProcessMail
    <3> QED BY <1>7, <3>1 DEF Wants
  <2>3. CASE ~(q = id /\ Executes(id))
    <3>1. PICK users \in Seq(Message) : mailbox'[q] = mailbox[q] \o users /\ \A m \in Contents(users) : m.type = "User"
      BY <2>3, ProcessMail
    <3>2. Contents(mailbox[q] \o users) = Contents(mailbox[q]) \cup Contents(users)
      BY <2>1, ContentsConcat
    <3>3. \A m \in Contents(mailbox'[q]) : m.type = "User" \/ m \in Contents(mailbox[q])
      BY <3>1, <3>2
    <3> QED BY <2>3, <3>3 DEF Wants
  <2> QED BY <2>2, <2>3
<1>9. ASSUME NEW q \in ManagedIDs, NEW p \in ProcessIDs PROVE OneAnswer(q, p)'
  <2>1. OneAnswer(q, p) /\ FramesToSend'[q] = FramesToSend[q] /\ PendingShutdownIDs'[p] = PendingShutdownIDs[p]
    BY <1>1, <1>9 DEF ReleaseInv
  <2>2. CASE q # id
    <3>1. ManagerFrame'[q] = ManagerFrame[q] /\ ShutdownMailboxes'[q] = ShutdownMailboxes[q]
      BY <1>3, <2>2 DEF Says
    <3>2. ~Gives(frame, q, p) /\ GivesOnce(frame, q, p)
      <4>1. \A m \in Contents(frame) : m \notin Givings(q, p)
        BY <1>6, <2>2 DEF Givings
      <4> QED BY <1>6, <2>2, <4>1, FollowedFew DEF Gives, GivesOnce
    <3>3. GivesOnce(ToHandle', q, p) /\ (Gives(ToHandle', q, p) => Gives(ToHandle, q, p))
      <4>1. GivesOnce(ToHandle, q, p)
        BY <2>1 DEF OneAnswer
      <4>2. GivesOnce(ToHandle \o frame, q, p) /\ (Gives(ToHandle \o frame, q, p) => Gives(ToHandle, q, p))
        BY <1>2, <1>4, <3>2, <4>1, GivesOnceConcat
      <4>3. ToHandle' = ToHandle \/ ToHandle' = ToHandle \o frame
        BY <1>5
      <4> QED BY <4>1, <4>2, <4>3
    <3> QED BY <1>8, <2>1, <3>1, <3>3 DEF OneAnswer, Releasing
  <2>3. CASE q = id
    <3>0. GivesOnce(frame, q, p) /\ (Gives(frame, q, p) <=> Gives(ManagerFrame[q], q, p))
      BY <1>4, <2>1, <2>3 DEF OneAnswer
    <3>1. CASE ToHandle' = ToHandle /\ ManagerFrame'[id] = frame \o said
      <4>1. Gives(said, q, p) => p \in ShutdownMailboxes[q] /\ p \notin ShutdownMailboxes'[q] /\ ~Gives(frame, q, p)
        BY <1>3, <2>1, <2>3, <3>0 DEF OneAnswer
      <4>2. /\ GivesOnce(ManagerFrame'[q], q, p)
            /\ Gives(ManagerFrame'[q], q, p) <=> Gives(frame, q, p) \/ Gives(said, q, p)
        BY <1>3, <2>3, <3>0, <3>1, <4>1, GivesOnceConcat
      <4>3. CASE p \in ShutdownMailboxes'[q] => p \in ShutdownMailboxes[q]
        BY <1>8, <2>1, <3>0, <3>1, <4>1, <4>2, <4>3 DEF OneAnswer, Releasing
      <4>4. CASE p \in ShutdownMailboxes'[q] /\ p \notin ShutdownMailboxes[q]
        <5>1. Wants(mailbox[q], p) /\ ~Wants(mailbox'[q], p)
          BY <1>3, <1>8, <2>3, <4>4 DEF Released_Mailboxes, Incoming, Wants
        <5> QED BY <2>1, <3>0, <3>1, <4>1, <4>2, <4>4, <5>1 DEF OneAnswer, Releasing
      <4> QED BY <4>3, <4>4
    <3>2. CASE ToHandle' \in {ToHandle, ToHandle \o frame} /\ ManagerFrame'[id] = <<>> /\ said = <<>>
      <4>1. ~Gives(ManagerFrame'[q], q, p) /\ GivesOnce(ManagerFrame'[q], q, p)
        BY <2>3, <3>2, EmptySaysNothing, FollowedFew DEF GivesOnce
      <4>2. /\ GivesOnce(ToHandle', q, p)
            /\ Gives(ToHandle', q, p) => Gives(ToHandle, q, p) \/ Gives(frame, q, p)
        <5>1. GivesOnce(ToHandle, q, p) /\ (Gives(frame, q, p) => ~Gives(ToHandle, q, p))
          BY <2>1, <3>0 DEF OneAnswer
        <5>2. /\ GivesOnce(ToHandle \o frame, q, p)
              /\ Gives(ToHandle \o frame, q, p) => Gives(ToHandle, q, p) \/ Gives(frame, q, p)
          BY <1>2, <1>4, <3>0, <5>1, GivesOnceConcat
        <5>3. ToHandle' = ToHandle \/ ToHandle' = ToHandle \o frame
          BY <3>2
        <5> QED BY <5>1, <5>2, <5>3
      <4>3. CASE p \in ShutdownMailboxes'[q] => p \in ShutdownMailboxes[q]
        <5>1. p \in ShutdownMailboxes'[q] => ~Gives(ToHandle', q, p)
          BY <2>1, <3>0, <4>2, <4>3 DEF OneAnswer
        <5> QED BY <1>8, <2>1, <3>0, <4>1, <4>2, <4>3, <5>1 DEF OneAnswer, Releasing
      <4>4. CASE p \in ShutdownMailboxes'[q] /\ p \notin ShutdownMailboxes[q]
        <5>1. Wants(mailbox[q], p) /\ ~Wants(mailbox'[q], p)
          BY <1>3, <1>8, <2>3, <4>4 DEF Released_Mailboxes, Incoming, Wants
        <5> QED BY <2>1, <3>0, <4>1, <4>2, <4>4, <5>1 DEF OneAnswer, Releasing
      <4> QED BY <4>3, <4>4
    <3> QED BY <1>5, <3>1, <3>2
  <2> QED BY <2>2, <2>3
<1>10. \A p \in ProcessIDs : PendingShutdownIDs'[p] # {} => Closing(p)'
  BY <1>1 DEF ReleaseInv, Closing
<1>11. /\ \A m \in Contents(frame) \cup Contents(ToHandle) : Proper(m)
       /\ \A q \in ManagedIDs : /\ ShutdownMailboxes[q] \subseteq ProcessIDs
                                 /\ \A m \in Contents(ManagerFrame[q]) \cup Contents(mailbox[q]) : Proper(m)
  BY <1>4 DEF ReleaseInv
<1>12. ASSUME NEW q \in ManagedIDs
       PROVE  /\ \A m \in Contents(FramesToSend'[q]) : Proper(m)
              /\ \A m \in Contents(mailbox'[q]) : Proper(m)
              /\ \A m \in Contents(ManagerFrame'[q]) : Proper(m)
              /\ ShutdownMailboxes'[q] \subseteq ProcessIDs
  <2>1. \A m \in Contents(FramesToSend'[q]) : Proper(m)
    BY <1>1 DEF ReleaseInv
  <2>2. \A m \in Contents(mailbox'[q]) : Proper(m)
    BY <1>8, <1>11 DEF Proper
  <2>3. \A m \in Contents(said) : Proper(m)
    <3> SUFFICES ASSUME NEW m \in Contents(said) PROVE Proper(m)
      OBVIOUS
    <3>1. m.type = "ReleaseMailboxResponse" => m.ids \subseteq ProcessIDs
      BY <1>3, <1>11
    <3>2. m.type # "ReleaseMailboxRequest"
      BY <1>3
    <3> QED BY <3>1, <3>2 DEF Proper
  <2>4. \A m \in Contents(ManagerFrame'[q]) : Proper(m)
    <3>1. CASE q = id
      BY <1>5, <1>7, <1>11, <2>3, <3>1
    <3>2. CASE q # id
      BY <1>3, <1>11, <3>2 DEF Says
    <3> QED BY <3>1, <3>2
  <2>5. ShutdownMailboxes'[q] \subseteq ProcessIDs
    <3>1. Released_Mailboxes(id) \subseteq ProcessIDs
      BY <1>11 DEF Released_Mailboxes, Incoming, Proper
    <3> QED BY <1>3, <1>11, <3>1
  <2> QED BY <2>1, <2>2, <2>4, <2>5
<1>13. \A m \in Contents(ToHandle') : Proper(m)
  BY <1>5, <1>7, <1>11
<1> QED BY <1>9, <1>10, <1>12, <1>13 DEF ReleaseInv
(* What a handler of the manager sends to process q: mailboxes it has     *)
(* asked for; those of a new process, or of who started it; the request   *)
(* to give a mailbox back; or one of the requests to shut down.           *)
Introduced(q, sent) ==
  /\ UNCHANGED <<State, ProcessRecords>>
  /\ q = message.source /\ ~Is_Process_Shutting_Down(q)
  /\ \E ids \in SUBSET (EProcessID \cup {INVALID}) :
       /\ sent = <<CAddMailboxMessage(ids)>>
       /\ \/ message.type = "GetMailboxByID" /\ ids = {message.id}
          \/ message.type = "GetMailboxByProperties" /\ ids \subseteq message.ids

Announced(q, sent) ==
  /\ Handle_Add_New_Process_Message /\ NextID \in EProcessID
  /\ ProcessRecords' = [ProcessRecords EXCEPT ![NextID] = "INITIALIZING"]
  /\ \A m \in Contents(sent) :
       /\ m.type = "AddMailbox"
       /\ m.ids = {NextID} \/ (m.ids = {Get_Mailbox(message.source)} /\ ~Is_Process_Shutting_Down(message.source))
  /\ \/ q \in Ongoing_Requesters(NextID)
     \/ q = message.source /\ ~Is_Process_Shutting_Down(q)
     \/ q = NextID

(* The shutdown of p begins.                                             *)
Begins(p) ==
  /\ Handle_Shutdown_Process_Message /\ p = message.id /\ Initiate_Process_Shutdown(p)
  /\ Has_Record(p) /\ ~Is_Process_Shutting_Down(p)

AskedBack(q, sent) ==
  \E p \in ProcessIDs : Begins(p) /\ q \in Others(p) /\ sent = <<CReleaseMailboxRequest(p)>>

Dismissed(q, sent) ==
  /\ q \in ProcessIDs /\ (Closing(q) \/ Begins(q)) /\ Closed(q)' /\ State' = State
  /\ sent = <<CShutdownSelfRequest(FALSE)>>

Halted(q, sent) ==
  /\ Handle_Shutdown_Manager_Message /\ State' # "RUNNING"
  /\ q \in Records \ {CONCURRENCY_MANAGER, LOGGING}
  /\ sent = <<CShutdownSelfRequest(TRUE)>>

Sends(q, sent) ==
  /\ FramesToSend'[q] = FramesToSend[q] \o sent
  /\ \/ sent = <<>>
     \/ Introduced(q, sent) \/ Announced(q, sent) \/ AskedBack(q, sent)
     \/ Dismissed(q, sent) \/ Halted(q, sent)

(* A message that is sent to some is a frame of its own.                 *)
LEMMA SentIsAdded ==
  ASSUME TypeOK, NEW ids, NEW m \in Message, NEW q \in EProcessID, FramesToSend' = Send_Process_Message(ids, m)
  PROVE  /\ q \in ids => FramesToSend'[q] = FramesToSend[q] \o <<m>>
         /\ q \notin ids => FramesToSend'[q] = FramesToSend[q]
<1>1. FramesToSend[q] \in Seq(Message)
  BY DEF TypeOK, ManagerTypeOK
<1> QED BY <1>1, AppendIsAdd DEF Send_Process_Message

(* Every handler sends each process something of this kind, or nothing.  *)
LEMMA HandlerSends ==
  ASSUME TypeOK, HandleInv, State = "RUNNING", Handle_Message, NEW q \in EProcessID
  PROVE  \E sent \in Seq(Message) : Sends(q, sent)
<1> USE IDs
<1>0. /\ FramesToSend[q] \in Seq(Message) /\ NextID \in Int
      /\ ProcessRecords \in [EProcessID -> EInternalProcessState \cup {"NO_RECORD"}]
  BY DEF TypeOK, ManagerTypeOK
<1>1. /\ message \in Message /\ message.source \in ManagedIDs /\ ServiceInv
      /\ message.type = "ShutdownProcess" => message.id \in ProcessIDs
  BY HandlerFrame, Handles_Message, SendersExist
<1> DEFINE Goal == \E sent \in Seq(Message) : Sends(q, sent)
<1>2. ASSUME FramesToSend'[q] = FramesToSend[q] PROVE Goal
  <2>1. PICK none : none = <<>>
    OBVIOUS
  <2>2. none \in Seq(Message) /\ FramesToSend[q] = FramesToSend[q] \o none
    BY <1>0, <2>1
  <2> QED BY <1>2, <2>1, <2>2 DEF Sends
<1>3. ASSUME NEW ids, NEW m \in Message, FramesToSend' = Send_Process_Message(ids, m),
             q \in ids => \/ Introduced(q, <<m>>) \/ AskedBack(q, <<m>>) \/ Dismissed(q, <<m>>) \/ Halted(q, <<m>>)
      PROVE  Goal
  <2>1. PICK one : one = <<m>>
    OBVIOUS
  <2>2. one \in Seq(Message)
    BY <2>1
  <2>3. CASE q \in ids
    <3>1. Sends(q, one)
      BY <1>3, <2>1, <2>3, SentIsAdded DEF Sends
    <3> QED BY <2>2, <3>1
  <2>4. CASE q \notin ids
    BY <1>2, <1>3, <2>4, SentIsAdded
  <2> QED BY <2>3, <2>4
<1> HIDE DEF Goal
<1> SUFFICES Goal
  BY DEF Goal
<1>4. CASE Handle_Get_Mailbox_By_ID_Request
  <2>1. CASE FramesToSend' = FramesToSend
    BY <1>2, <2>1
  <2>2. CASE /\ FramesToSend' = Send_Process_Message({message.source}, CAddMailboxMessage({message.id}))
             /\ ~Is_Process_Shutting_Down(message.source)
    <3>1. PICK ids : ids = {message.id}
      OBVIOUS
    <3>2. ids \in SUBSET (EProcessID \cup {INVALID}) /\ ids = {message.id}
      BY <1>1, <3>1 DEF Message
    <3>3. PICK m \in Message : m = CAddMailboxMessage(ids)
      BY <3>2, Constructors
    <3>4. message.type = "GetMailboxByID" /\ UNCHANGED <<State, ProcessRecords>>
      BY <1>4 DEF Handle_Get_Mailbox_By_ID_Request, Handling, message
    <3>5. Introduced(message.source, <<m>>)
      BY <2>2, <3>2, <3>3, <3>4 DEF Introduced
    <3> QED BY <1>3, <2>2, <3>1, <3>3, <3>5
  <2> QED BY <1>4, <2>1, <2>2 DEF Handle_Get_Mailbox_By_ID_Request
<1>5. CASE Handle_Get_Mailbox_By_Properties_Request
  <2>1. CASE FramesToSend' = FramesToSend
    BY <1>2, <2>1
  <2>2. CASE /\ FramesToSend' = Send_Process_Message({message.source},
                                  CAddMailboxMessage(Matching(message.ids, message.source)))
             /\ ~Is_Process_Shutting_Down(message.source)
    <3>1. PICK ids : ids = Matching(message.ids, message.source)
      OBVIOUS
    <3>2. ids \in SUBSET (EProcessID \cup {INVALID}) /\ ids \subseteq message.ids
      BY <3>1 DEF Matching, Records
    <3>3. PICK m \in Message : m = CAddMailboxMessage(ids)
      BY <3>2, Constructors
    <3>4. message.type = "GetMailboxByProperties" /\ UNCHANGED <<State, ProcessRecords>>
      BY <1>5 DEF Handle_Get_Mailbox_By_Properties_Request, Handling, message
    <3>5. Introduced(message.source, <<m>>)
      BY <2>2, <3>2, <3>3, <3>4 DEF Introduced
    <3> QED BY <1>3, <2>2, <3>1, <3>3, <3>5
  <2> QED BY <1>5, <2>1, <2>2 DEF Handle_Get_Mailbox_By_Properties_Request
<1>6. CASE Handle_Add_New_Process_Message
  <2>1. CASE FramesToSend' = FramesToSend
    BY <1>2, <2>1
  <2>2. CASE /\ NextID <= MaxProcessID
             /\ ProcessRecords' = [ProcessRecords EXCEPT ![NextID] = "INITIALIZING"]
             /\ FramesToSend' = Frames_For_New_Process(NextID, message.source, message.opts)
    <3>1. NextID \in ProcessIDs
      BY <2>2 DEF TypeOK, ManagerTypeOK, ProcessIDs
    <3>2. PICK sent \in Seq(Message) :
            /\ Frames_For_New_Process(NextID, message.source, message.opts)[q] = FramesToSend[q] \o sent
            /\ OfNew(NextID, message.source, q, sent)
      BY <1>1, <3>1, NewFrames
    <3>3. sent = <<>> \/ Announced(q, sent)
      BY <1>6, <2>2, <3>1, <3>2 DEF Announced, OfNew
    <3>4. Sends(q, sent)
      BY <2>2, <3>2, <3>3 DEF Sends
    <3> QED BY <3>4 DEF Goal
  <2> QED BY <1>6, <2>1, <2>2 DEF Handle_Add_New_Process_Message
<1>7. CASE Handle_Shutdown_Process_Message
  <2>1. message.id \in ProcessIDs
    BY <1>1, <1>7 DEF Handle_Shutdown_Process_Message, Handling, message
  <2>2. CASE FramesToSend' = FramesToSend
    BY <1>2, <2>2
  <2>3. CASE /\ Has_Record(message.id) /\ ~Is_Process_Shutting_Down(message.id)
             /\ Initiate_Process_Shutdown(message.id)
    <3>1. Begins(message.id)
      BY <1>7, <2>3 DEF Begins
    <3>2. CASE Others(message.id) = {}
      <4>1. PICK m \in Message : m = CShutdownSelfRequest(FALSE)
        BY Constructors
      <4>2. PICK p \in ProcessIDs : p = message.id
        BY <2>1
      <4>3. /\ ProcessRecords' = [ProcessRecords EXCEPT ![p] = "SHUTTING_DOWN_PHASE2"]
            /\ FramesToSend' = Send_Process_Message({p}, m)
        BY <2>3, <3>2, <4>1, <4>2 DEF Initiate_Process_Shutdown
      <4>4. Closed(p)'
        BY <1>0, <4>3 DEF Closed
      <4>5. Dismissed(p, <<m>>)
        BY <1>7, <3>1, <4>1, <4>2, <4>4 DEF Dismissed, Handle_Shutdown_Process_Message
      <4> QED BY <1>3, <4>3, <4>5
    <3>3. CASE Others(message.id) # {}
      <4>1. PICK m \in Message : m = CReleaseMailboxRequest(message.id)
        BY <2>1, Constructors
      <4>2. FramesToSend' = Send_Process_Message(Others(message.id), m)
        BY <2>3, <3>3, <4>1 DEF Initiate_Process_Shutdown
      <4>3. q \in Others(message.id) => AskedBack(q, <<m>>)
        BY <2>1, <3>1, <4>1 DEF AskedBack
      <4> QED BY <1>3, <4>2, <4>3
    <3> QED BY <3>2, <3>3
  <2> QED BY <1>7, <2>2, <2>3 DEF Handle_Shutdown_Process_Message
<1>8. CASE Handle_Reschedule_Process_Message
  BY <1>2, <1>8 DEF Handle_Reschedule_Process_Message
<1>9. CASE Handle_Release_Mailbox_Response
  <2>1. CASE FramesToSend' = FramesToSend
    BY <1>2, <2>1
  <2> DEFINE finished == Finished(message.source, message.ids)
  <2>2. CASE FramesToSend' # FramesToSend
    <3>1. PICK m \in Message : m = CShutdownSelfRequest(FALSE)
      BY Constructors
    <3>2. /\ FramesToSend' = Send_Process_Message(finished, m)
          /\ \A id \in Released(message.ids) : ProcessRecords[id] = "SHUTTING_DOWN_PHASE1"
          /\ ProcessRecords' = [id \in EProcessID |-> IF id \in finished THEN "SHUTTING_DOWN_PHASE2" ELSE ProcessRecords[id]]
          /\ State' = State
      BY <1>9, <2>2, <3>1 DEF Handle_Release_Mailbox_Response
    <3>3. finished \subseteq Released(message.ids)
      BY DEF Finished
    <3> HIDE DEF finished
    <3>4. ASSUME q \in finished PROVE Dismissed(q, <<m>>)
      <4>1. Closing(q) /\ Closed(q)'
        BY <3>2, <3>3, <3>4 DEF Closing, Closed
      <4>2. q \in ProcessIDs
        <5>1. q # CONCURRENCY_MANAGER /\ q # LOGGING
          BY <1>1, <4>1 DEF ServiceInv, Alive, Closing
        <5> QED BY <5>1 DEF EProcessID, ProcessIDs
      <4> QED BY <3>1, <3>2, <4>1, <4>2 DEF Dismissed
    <3> QED BY <1>3, <3>2, <3>4
  <2> QED BY <2>1, <2>2
<1>10. CASE Handle_Shutdown_Self_Response
  BY <1>2, <1>10 DEF Handle_Shutdown_Self_Response
<1>11. CASE Handle_Shutdown_Manager_Message
  <2>1. CASE FramesToSend' = FramesToSend
    BY <1>2, <2>1
  <2> DEFINE told == Records \ {CONCURRENCY_MANAGER, LOGGING}
  <2>2. CASE State' = "SHUTTING_DOWN_PHASE1" /\ FramesToSend' = Send_Process_Message(told, CShutdownSelfRequest(TRUE))
    <3>1. PICK m \in Message : m = CShutdownSelfRequest(TRUE)
      BY Constructors
    <3>2. q \in told => Halted(q, <<m>>)
      BY <1>11, <2>2, <3>1 DEF Halted
    <3> HIDE DEF told
    <3> QED BY <1>3, <2>2, <3>1, <3>2
  <2> QED BY <1>11, <2>1, <2>2 DEF Handle_Shutdown_Manager_Message
<1> QED BY <1>4, <1>5, <1>6, <1>7, <1>8, <1>9, <1>10, <1>11 DEF Handle_Message
(* What of it is a request to give a mailbox back.                       *)
LEMMA SendsProper ==
  ASSUME TypeOK, NEW q \in EProcessID, NEW sent \in Seq(Message), Sends(q, sent)
  PROVE  /\ \A m \in Contents(sent) : Proper(m)
         /\ \A p : Wants(sent, p) => p \in ProcessIDs /\ Begins(p) /\ q \in Others(p)
<1> SUFFICES ASSUME NEW m \in Contents(sent)
             PROVE  /\ m.type # "ReleaseMailboxResponse"
                    /\ m.type = "ReleaseMailboxRequest" =>
                         m.id \in ProcessIDs /\ Begins(m.id) /\ q \in Others(m.id)
  BY DEF Proper, Wants
<1>1. sent # <<>>
  BY ContentsFew
<1>2. CASE Introduced(q, sent)
  BY <1>2, ContentsFew DEF Introduced, CAddMailboxMessage
<1>3. CASE Announced(q, sent)
  BY <1>3 DEF Announced
<1>4. CASE AskedBack(q, sent)
  <2>1. PICK p \in ProcessIDs : Begins(p) /\ q \in Others(p) /\ m = CReleaseMailboxRequest(p)
    BY <1>4, ContentsFew DEF AskedBack
  <2> QED BY <2>1 DEF CReleaseMailboxRequest, About
<1>5. CASE Dismissed(q, sent) \/ Halted(q, sent)
  BY <1>5, ContentsFew DEF Dismissed, Halted, CShutdownSelfRequest
<1> QED BY <1>1, <1>2, <1>3, <1>4, <1>5 DEF Sends

(* Whom the manager waits for after a step.                              *)
LEMMA PendingManager ==
  ASSUME TypeOK, HandleInv, State = "RUNNING", Manager_Next, State' = "RUNNING", NEW p \in ProcessIDs,
         PendingShutdownIDs[p] # {} => Closing(p)
  PROVE  /\ PendingShutdownIDs'[p] # {} => Closing(p)'
         /\ Begins(p) => PendingShutdownIDs[p] = {} /\ PendingShutdownIDs'[p] = Others(p)
         /\ \A q : q \in PendingShutdownIDs[p] =>
              \/ q \in PendingShutdownIDs'[p]
              \/ Handle_Release_Mailbox_Response /\ message.source = q /\ p \in message.ids
<1> USE IDs
<1>0. /\ ProcessRecords \in [EProcessID -> EInternalProcessState \cup {"NO_RECORD"}]
      /\ PendingShutdownIDs \in [EProcessID -> SUBSET EProcessID] /\ RunningInv /\ NextID \in Int
  BY DEF TypeOK, ManagerTypeOK, HandleInv
<1>1. ASSUME PendingShutdownIDs'[p] = PendingShutdownIDs[p], Closing(p) => Closing(p)', ~Begins(p)
      PROVE  /\ PendingShutdownIDs'[p] # {} => Closing(p)'
             /\ Begins(p) => PendingShutdownIDs[p] = {} /\ PendingShutdownIDs'[p] = Others(p)
             /\ \A q : q \in PendingShutdownIDs[p] =>
                  \/ q \in PendingShutdownIDs'[p]
                  \/ Handle_Release_Mailbox_Response /\ message.source = q /\ p \in message.ids
  BY <1>1
<1>2. CASE ~Handle_Message
  <2>1. PendingShutdownIDs' = PendingShutdownIDs /\ ~Begins(p)
    BY <1>2 DEF Handle_Message, Begins, Manager_Next, Service_Incoming_Frames, Flush_Frame, Flush_Frames_Done,
                Execute_Process, Service_Shutdown
  <2>2. Closing(p) => Closing(p)'
    <3>1. CASE Service_Shutdown
      <4>1. Cardinality(Records) # 1
        BY <1>0, NotAlone DEF RunningInv
      <4> QED BY <3>1, <4>1 DEF Service_Shutdown, Closing
    <3>2. CASE \E id \in ManagedIDs : Execute_Process(id)
      BY <1>0, <3>2 DEF Execute_Process, Closing
    <3> QED BY <1>2, <3>1, <3>2 DEF Manager_Next, Service_Incoming_Frames, Flush_Frame, Flush_Frames_Done, Closing
  <2> QED BY <1>1, <2>1, <2>2
<1>3. CASE Handle_Get_Mailbox_By_ID_Request
  BY <1>1, <1>3 DEF Handle_Get_Mailbox_By_ID_Request, Handle_Shutdown_Process_Message, Begins, Handling, Closing
<1>4. CASE Handle_Get_Mailbox_By_Properties_Request
  BY <1>1, <1>4 DEF Handle_Get_Mailbox_By_Properties_Request, Handle_Shutdown_Process_Message, Begins, Handling, Closing
<1>5. CASE Handle_Add_New_Process_Message
  <2>1. PendingShutdownIDs' = PendingShutdownIDs /\ ~Begins(p)
    BY <1>5 DEF Handle_Add_New_Process_Message, Handle_Shutdown_Process_Message, Begins, Handling
  <2>2. Closing(p) => p # NextID
    BY <1>0 DEF RunningInv, Unborn, Has_Record, Closing
  <2>3. Closing(p) => Closing(p)'
    BY <1>0, <1>5, <2>2 DEF Handle_Add_New_Process_Message, Closing
  <2> QED BY <1>1, <2>1, <2>3
<1>6. CASE Handle_Shutdown_Process_Message
  <2>1. CASE UNCHANGED <<ProcessRecords, PendingShutdownIDs>> /\ ~Begins(p)
    BY <1>1, <2>1 DEF Closing
  <2>2. CASE /\ Initiate_Process_Shutdown(message.id)
             /\ Has_Record(message.id) /\ ~Is_Process_Shutting_Down(message.id)
    <3>1. PendingShutdownIDs' = [PendingShutdownIDs EXCEPT ![message.id] = Others(message.id)]
      BY <2>2 DEF Initiate_Process_Shutdown
    <3>2. CASE p = message.id
      <4>1. PendingShutdownIDs[p] = {}
        BY <2>2, <3>2 DEF Is_Process_Shutting_Down, Closing
      <4>2. PendingShutdownIDs'[p] = Others(p)
        BY <1>0, <3>1, <3>2
      <4>3. Others(p) # {} => Closing(p)'
        BY <1>0, <2>2, <3>2 DEF Initiate_Process_Shutdown, Closing
      <4> QED BY <4>1, <4>2, <4>3
    <3>3. CASE p # message.id
      <4>1. PendingShutdownIDs'[p] = PendingShutdownIDs[p] /\ ~Begins(p)
        BY <1>0, <3>1, <3>3 DEF Begins
      <4>2. Closing(p) => Closing(p)'
        BY <1>0, <2>2, <3>3 DEF Initiate_Process_Shutdown, Closing
      <4> QED BY <1>1, <4>1, <4>2
    <3> QED BY <3>2, <3>3
  <2> QED BY <1>6, <2>1, <2>2 DEF Handle_Shutdown_Process_Message, Begins
<1>7. CASE Handle_Reschedule_Process_Message
  BY <1>1, <1>7 DEF Handle_Reschedule_Process_Message, Handle_Shutdown_Process_Message, Begins, Handling, Closing
<1>8. CASE Handle_Release_Mailbox_Response
  <2>0. ~Begins(p)
    BY <1>8 DEF Handle_Release_Mailbox_Response, Handle_Shutdown_Process_Message, Begins, Handling
  <2>1. CASE UNCHANGED <<ProcessRecords, PendingShutdownIDs>>
    BY <1>1, <2>0, <2>1 DEF Closing
  <2>2. CASE /\ PendingShutdownIDs' =
                 [id \in EProcessID |-> IF id \in Released(message.ids)
                                        THEN PendingShutdownIDs[id] \ {message.source} ELSE PendingShutdownIDs[id]]
             /\ ProcessRecords' =
                 [id \in EProcessID |-> IF id \in Finished(message.source, message.ids)
                                        THEN "SHUTTING_DOWN_PHASE2" ELSE ProcessRecords[id]]
    <3>1. CASE p \notin Released(message.ids)
      <4>1. PendingShutdownIDs'[p] = PendingShutdownIDs[p] /\ ProcessRecords'[p] = ProcessRecords[p]
        BY <2>2, <3>1 DEF Finished
      <4> QED BY <1>1, <2>0, <4>1 DEF Closing
    <3>2. CASE p \in Released(message.ids)
      <4>1. PendingShutdownIDs'[p] = PendingShutdownIDs[p] \ {message.source} /\ p \in message.ids
        BY <2>2, <3>2 DEF Released
      <4>2. p \notin Finished(message.source, message.ids) => ProcessRecords'[p] = ProcessRecords[p]
        BY <2>2
      <4>3. p \in Finished(message.source, message.ids) => PendingShutdownIDs'[p] = {}
        BY <4>1 DEF Finished
      <4> QED BY <1>8, <2>0, <4>1, <4>2, <4>3 DEF Closing
    <3> QED BY <3>1, <3>2
  <2> QED BY <1>8, <2>1, <2>2 DEF Handle_Release_Mailbox_Response
<1>9. CASE Handle_Shutdown_Self_Response
  <2>0. ~Begins(p)
    BY <1>9 DEF Handle_Shutdown_Self_Response, Handle_Shutdown_Process_Message, Begins, Handling
  <2>1. PICK source : source = message.source
    OBVIOUS
  <2>2. /\ ProcessRecords' = [ProcessRecords EXCEPT ![source] = "NO_RECORD"]
        /\ PendingShutdownIDs' = [PendingShutdownIDs EXCEPT ![source] = {}]
        /\ Closed(source)
    BY <1>9, <2>1 DEF Handle_Shutdown_Self_Response, Is_Manager_Shutting_Down, Closed
  <2>3. CASE p = source
    <3>1. PendingShutdownIDs[p] = {} /\ PendingShutdownIDs'[p] = {}
      BY <1>0, <2>2, <2>3 DEF Closed, Closing
    <3> QED BY <2>0, <3>1
  <2>4. CASE p # source
    <3>1. PendingShutdownIDs'[p] = PendingShutdownIDs[p] /\ ProcessRecords'[p] = ProcessRecords[p]
      BY <1>0, <2>2, <2>4
    <3> QED BY <1>1, <2>0, <3>1 DEF Closing
  <2> QED BY <2>3, <2>4
<1>10. CASE Handle_Shutdown_Manager_Message
  BY <1>1, <1>10 DEF Handle_Shutdown_Manager_Message, Handle_Shutdown_Process_Message, Begins, Handling, Closing
<1> QED BY <1>2, <1>3, <1>4, <1>5, <1>6, <1>7, <1>8, <1>9, <1>10 DEF Handle_Message
(* What a step of the manager does to the frame for a process and to the  *)
(* mailbox of the process: it adds to the frame, or sends it.             *)
LEMMA ManagerMail ==
  ASSUME TypeOK, HandleInv, Manager_Next, NEW q \in EProcessID
  PROVE  \/ /\ State = "RUNNING" /\ Handle_Message /\ mailbox'[q] = mailbox[q]
            /\ \E sent \in Seq(Message) : Sends(q, sent)
         \/ /\ Flush_Frame(q) /\ FramesToSend'[q] = <<>>
            /\ mailbox'[q] = mailbox[q] \o FramesToSend[q]
         \/ /\ q # CONCURRENCY_MANAGER => mailbox'[q] = mailbox[q]
            /\ FramesToSend'[q] = FramesToSend[q]
         \/ /\ Service_Shutdown /\ State' = "SHUTTING_DOWN_PHASE2" /\ State # State' /\ mailbox'[q] = mailbox[q]
            /\ FramesToSend' = Send_Process_Message({LOGGING}, CShutdownSelfRequest(TRUE))
<1> USE IDs
<1>0. mailbox \in [EProcessID -> Seq(Message)] /\ FramesToSend \in [EProcessID -> Seq(Message)]
  BY DEF TypeOK, SharedTypeOK, ManagerTypeOK
<1>1. CASE Handle_Message
  <2>1. mailbox'[q] = mailbox[q]
    BY <1>1, HandlerFrame
  <2>2. State # "RUNNING" => FramesToSend' = FramesToSend
    BY <1>1, HandlersAtTheEnd
  <2> QED BY <1>1, <2>1, <2>2, HandlerSends
<1>2. CASE Service_Incoming_Frames
  BY <1>0, <1>2 DEF Service_Incoming_Frames, Remove_Frames
<1>3. CASE \E id \in EProcessID : Flush_Frame(id)
  <2>1. PICK id \in EProcessID : Flush_Frame(id)
    BY <1>3
  <2>2. CASE id = q
    BY <1>0, <2>1, <2>2 DEF Flush_Frame, Add_Frame
  <2>3. CASE id # q
    BY <1>0, <2>1, <2>3 DEF Flush_Frame, Add_Frame
  <2> QED BY <2>2, <2>3
<1>4. CASE Flush_Frames_Done \/ \E id \in ManagedIDs : Execute_Process(id)
  BY <1>4 DEF Flush_Frames_Done, Execute_Process, sharedVars
<1>5. CASE Service_Shutdown
  BY <1>5 DEF Service_Shutdown, sharedVars
<1> QED BY <1>1, <1>2, <1>3, <1>4, <1>5 DEF Manager_Next

(* A step of the manager: an answer it has handled was the only one.     *)
LEMMA ReleaseManager ==
  ASSUME TypeOK, ExecutionInv, HandleInv, Begun, ReleaseInv, Manager_Step
  PROVE  ReleaseInv'
<1> USE IDs
<1>0. /\ \A q \in EProcessID : mailbox[q] \in Seq(Message) /\ FramesToSend[q] \in Seq(Message)
      /\ ManagerFrame' = ManagerFrame /\ ShutdownMailboxes' = ShutdownMailboxes
      /\ Manager_Next
  BY DEF TypeOK, SharedTypeOK, ManagerTypeOK, Manager_Step, processVars
<1> SUFFICES ASSUME State' = "RUNNING" PROVE ReleaseInv'
  BY DEF ReleaseInv
<1>1. State = "RUNNING" /\ FramesToSend[CONCURRENCY_MANAGER] = <<>>
  <2>1. State = "RUNNING"
    BY <1>0, RecordsLive
  <2> QED BY <2>1 DEF HandleInv, RunningInv, ServiceInv
<1>2. /\ ToHandle \in Seq(Message)
      /\ \/ ~Handle_Message /\ ToHandle' = ToHandle
         \/ Handle_Message /\ ToHandle # <<>> /\ message = Head(ToHandle) /\ ToHandle' = Tail(ToHandle)
  BY <1>0, <1>1, ManagerTakesFirst
<1>3. \A p \in ProcessIDs : PendingShutdownIDs[p] # {} => Closing(p)
  BY <1>1 DEF ReleaseInv
<1>4. ASSUME NEW q \in ManagedIDs, NEW p \in ProcessIDs
      PROVE  /\ Wants(FramesToSend'[q], p) => Wants(FramesToSend[q], p) \/ (Begins(p) /\ q \in Others(p))
             /\ Wants(mailbox'[q], p) => \/ Wants(mailbox[q], p)
                                         \/ Wants(FramesToSend[q], p) /\ ~Wants(FramesToSend'[q], p)
  <2> DEFINE f == FramesToSend[q]  m == mailbox[q]
  <2>1. f \in Seq(Message) /\ m \in Seq(Message)
    BY <1>0
  <2>2. \/ mailbox'[q] = m /\ \E sent \in Seq(Message) : Sends(q, sent)
        \/ FramesToSend'[q] = <<>> /\ mailbox'[q] = m \o f
        \/ mailbox'[q] = m /\ FramesToSend'[q] = f
    BY <1>0, <1>1, ManagerMail
  <2> SUFFICES /\ Wants(FramesToSend'[q], p) => Wants(f, p) \/ (Begins(p) /\ q \in Others(p))
               /\ Wants(mailbox'[q], p) => Wants(m, p) \/ (Wants(f, p) /\ ~Wants(FramesToSend'[q], p))
    OBVIOUS
  <2> HIDE DEF f, m
  <2>3. CASE mailbox'[q] = m /\ \E sent \in Seq(Message) : Sends(q, sent)
    <3>1. PICK sent \in Seq(Message) : Sends(q, sent)
      BY <2>3
    <3>2. FramesToSend'[q] = f \o sent
      BY <3>1 DEF Sends, f
    <3>3. Wants(f \o sent, p) => Wants(f, p) \/ Wants(sent, p)
      BY <2>1, ContentsConcat DEF Wants
    <3> QED BY <2>3, <3>1, <3>2, <3>3, SendsProper
  <2>4. CASE FramesToSend'[q] = <<>> /\ mailbox'[q] = m \o f
    <3>1. Wants(m \o f, p) => Wants(m, p) \/ Wants(f, p)
      BY <2>1, ContentsConcat DEF Wants
    <3> QED BY <2>4, <3>1, EmptySaysNothing
  <2> QED BY <2>2, <2>3, <2>4
<1>5. ASSUME NEW q \in ManagedIDs, NEW p \in ProcessIDs
      PROVE  /\ GivesOnce(ToHandle', q, p)
             /\ Gives(ToHandle', q, p) => Gives(ToHandle, q, p)
             /\ Handle_Release_Mailbox_Response /\ message.source = q /\ p \in message.ids =>
                  Gives(ToHandle, q, p) /\ ~Gives(ToHandle', q, p)
  <2>1. GivesOnce(ToHandle, q, p)
    BY <1>1, <1>5 DEF ReleaseInv, OneAnswer
  <2>2. CASE ~Handle_Message /\ ToHandle' = ToHandle
    BY <2>1, <2>2 DEF Handle_Message
  <2>3. CASE Handle_Message /\ ToHandle # <<>> /\ message = Head(ToHandle) /\ ToHandle' = Tail(ToHandle)
    <3>1. /\ Tail(ToHandle) \in Seq(Message) /\ Head(ToHandle) \in Contents(ToHandle)
          /\ Contents(Tail(ToHandle)) \subseteq Contents(ToHandle) /\ message \in Message
      BY <1>2, <2>3, ContentsTail, ContentsType
    <3>2. /\ GivesOnce(Tail(ToHandle), q, p)
          /\ message \in Givings(q, p) => \A m \in Contents(Tail(ToHandle)) : m \in Message \ Givings(q, p)
      BY <1>2, <2>1, <2>3, FollowedTail DEF GivesOnce
    <3>3. Handle_Release_Mailbox_Response /\ message.source = q /\ p \in message.ids => message \in Givings(q, p)
      BY <3>1 DEF Givings, Handle_Release_Mailbox_Response, Handling, message
    <3>4. message \in Givings(q, p) => Gives(ToHandle, q, p) /\ ~Gives(Tail(ToHandle), q, p)
      <4>1. message \in Givings(q, p) => Gives(ToHandle, q, p)
        BY <2>3, <3>1 DEF Givings, Gives
      <4> QED BY <3>1, <3>2, <4>1, GivingsAre
    <3>5. Gives(Tail(ToHandle), q, p) => Gives(ToHandle, q, p)
      BY <3>1 DEF Gives
    <3> QED BY <2>3, <3>2, <3>3, <3>4, <3>5
  <2> QED BY <1>2, <2>2, <2>3
<1>6. \A p \in ProcessIDs :
        /\ PendingShutdownIDs'[p] # {} => Closing(p)'
        /\ Begins(p) => PendingShutdownIDs[p] = {} /\ PendingShutdownIDs'[p] = Others(p)
        /\ \A q : q \in PendingShutdownIDs[p] =>
             \/ q \in PendingShutdownIDs'[p]
             \/ Handle_Release_Mailbox_Response /\ message.source = q /\ p \in message.ids
  BY <1>0, <1>1, <1>3, PendingManager
<1>7. ASSUME NEW q \in ManagedIDs, NEW p \in ProcessIDs PROVE OneAnswer(q, p)'
  <2>1. OneAnswer(q, p)
    BY <1>1, <1>7 DEF ReleaseInv
  <2>2. CASE Begins(p)
    <3>1. ~Releasing(q, p)
      BY <1>6, <2>1, <2>2 DEF OneAnswer
    <3> QED BY <1>0, <1>4, <1>5, <1>6, <2>1, <2>2, <3>1 DEF OneAnswer, Releasing
  <2>3. CASE ~Begins(p)
    <3>1. Releasing(q, p)' => Releasing(q, p)
      BY <1>0, <1>4, <1>5, <2>3 DEF Releasing
    <3>2. Handle_Release_Mailbox_Response /\ message.source = q /\ p \in message.ids => ~Releasing(q, p)'
      BY <1>0, <1>4, <1>5, <2>1, <2>3 DEF Releasing, OneAnswer
    <3>3. Releasing(q, p)' => q \in PendingShutdownIDs'[p]
      BY <1>6, <2>1, <3>1, <3>2 DEF OneAnswer
    <3> QED BY <1>0, <1>4, <1>5, <2>1, <2>3, <3>3 DEF OneAnswer
  <2> QED BY <2>2, <2>3
<1>8. ASSUME NEW q \in ManagedIDs
      PROVE  /\ \A m \in Contents(FramesToSend'[q]) : Proper(m)
             /\ \A m \in Contents(mailbox'[q]) : Proper(m)
             /\ \A m \in Contents(ManagerFrame'[q]) : Proper(m)
             /\ ShutdownMailboxes'[q] \subseteq ProcessIDs
  <2> DEFINE f == FramesToSend[q]  b == mailbox[q]
  <2>1. f \in Seq(Message) /\ b \in Seq(Message) /\ \A m \in Contents(f) \cup Contents(b) : Proper(m)
    BY <1>0, <1>1, <1>8 DEF ReleaseInv
  <2>2. \/ mailbox'[q] = b /\ \E sent \in Seq(Message) : Sends(q, sent)
        \/ FramesToSend'[q] = <<>> /\ mailbox'[q] = b \o f
        \/ mailbox'[q] = b /\ FramesToSend'[q] = f
    BY <1>0, <1>1, ManagerMail
  <2>3. /\ \A m \in Contents(ManagerFrame'[q]) : Proper(m)
        /\ ShutdownMailboxes'[q] \subseteq ProcessIDs
    BY <1>0, <1>1, <1>8 DEF ReleaseInv
  <2>4. \A sent : Sends(q, sent) => FramesToSend'[q] = f \o sent
    BY DEF Sends
  <2> HIDE DEF f, b
  <2>5. \A m \in Contents(FramesToSend'[q]) \cup Contents(mailbox'[q]) : Proper(m)
    <3>1. CASE mailbox'[q] = b /\ \E sent \in Seq(Message) : Sends(q, sent)
      <4>1. PICK sent \in Seq(Message) : Sends(q, sent)
        BY <3>1
      <4>2. \A m \in Contents(sent) : Proper(m)
        BY <4>1, SendsProper
      <4>3. Contents(f \o sent) = Contents(f) \cup Contents(sent)
        BY <2>1, ContentsConcat
      <4> QED BY <2>1, <2>4, <3>1, <4>1, <4>2, <4>3
    <3>2. CASE FramesToSend'[q] = <<>> /\ mailbox'[q] = b \o f
      <4>1. Contents(b \o f) = Contents(b) \cup Contents(f)
        BY <2>1, ContentsConcat
      <4> QED BY <2>1, <3>2, <4>1, ContentsFew
    <3> QED BY <2>1, <2>2, <3>1, <3>2
  <2> QED BY <2>3, <2>5
<1>9. \A m \in Contents(ToHandle') : Proper(m)
  <2>1. Contents(ToHandle') \subseteq Contents(ToHandle)
    BY <1>2, ContentsTail
  <2> QED BY <1>1, <2>1 DEF ReleaseInv
<1> QED BY <1>6, <1>7, <1>8, <1>9 DEF ReleaseInv

(* The assertion in Handle_Release_Mailbox_Response: no process gives a   *)
(* mailbox back that it has not been asked for, or a second time          *)
(* (ConcurrencyManager.cpp:744).                                          *)
LEMMA ReleaseFailing ==
  ASSUME TypeOK, HandleInv, ReleaseInv,
         NEW f \in ManagerFailures \cup UNION { ProcessFailures(id) : id \in ManagedIDs }
  PROVE  f # "Handle_Release_Mailbox_Response"
<1> USE IDs
<1> SUFFICES ASSUME f = "Handle_Release_Mailbox_Response" PROVE FALSE
  OBVIOUS
<1>1. \A id \in ManagedIDs : f \notin ProcessFailures(id)
  BY DEF ProcessFailures
<1>2. /\ phase = "handle" /\ control_frames # <<>> /\ message.type = "ReleaseMailboxResponse"
      /\ State = "RUNNING"
      /\ \E id \in message.ids \ {INVALID} : ProcessRecords[id] \notin {"NO_RECORD", "SHUTTING_DOWN_PHASE1"}
  <2>1. f \in ManagerFailures
    BY <1>1
  <2> QED BY <2>1 DEF ManagerFailures, Next_Is, Is_Manager_Shutting_Down, TypeOK, ManagerTypeOK, EConcurrencyManagerState
<1>3. message \in Contents(ToHandle)
  <2>1. control_frames \in Seq(Message)
    BY DEF TypeOK, ManagerTypeOK
  <2>2. message \in Contents(control_frames)
    BY <1>2, <2>1, ContentsTail DEF message
  <2> QED BY <2>2, ToHandleContents
<1>4. message.source \in ManagedIDs /\ message.ids \subseteq ProcessIDs
  BY <1>2, <1>3, SendersExist DEF ReleaseInv, Proper
<1>5. PICK p \in ProcessIDs : p \in message.ids /\ ProcessRecords[p] \notin {"NO_RECORD", "SHUTTING_DOWN_PHASE1"}
  BY <1>2, <1>4
<1>6. Gives(ToHandle, message.source, p)
  BY <1>2, <1>3, <1>5 DEF Gives
<1>7. Releasing(message.source, p)
  BY <1>6 DEF Releasing
<1>8. PendingShutdownIDs[p] # {} /\ (PendingShutdownIDs[p] # {} => Closing(p))
  BY <1>2, <1>4, <1>7 DEF ReleaseInv, OneAnswer
<1> QED BY <1>5, <1>8 DEF Closing

(* Every step keeps it.                                                  *)
LEMMA ReleaseNext ==
  TypeOK /\ ExecutionInv /\ HandleInv /\ Begun /\ ReleaseInv /\ [Next]_vars => Begun' /\ ReleaseInv'
<1> SUFFICES ASSUME TypeOK, ExecutionInv, HandleInv, Begun, ReleaseInv, [Next]_vars
             PROVE  Begun' /\ ReleaseInv'
  OBVIOUS
<1>1. CASE UNCHANGED <<mailbox, managerVars, processVars>>
  <2>1. UNCHANGED <<State, NextID, ProcessRecords, PendingShutdownIDs, FramesToSend, control_frames, mailbox,
                    ManagerFrame, ShutdownMailboxes>>
    BY <1>1 DEF managerVars, processVars
  <2>2. ToHandle' = ToHandle /\ Begun'
    BY <2>1 DEF ToHandle, Begun, Has_Record
  <2>3. \A p : Closing(p)' <=> Closing(p)
    BY <2>1 DEF Closing
  <2>4. \A q, p : OneAnswer(q, p)' <=> OneAnswer(q, p)
    BY <2>1, <2>2 DEF OneAnswer, Releasing
  <2> QED BY <2>1, <2>2, <2>3, <2>4 DEF ReleaseInv
<1>2. CASE Manager_Step
  BY <1>2, ReleaseManager, RecordsLive DEF Manager_Step
<1>3. CASE \E id \in ManagedIDs : Process_Step(id)
  <2>1. UNCHANGED managerVars
    BY <1>3 DEF Process_Step
  <2>2. Begun'
    BY <2>1 DEF Begun, Has_Record, managerVars
  <2> QED BY <1>3, <2>2, ReleaseProcess
<1> QED BY <1>1, <1>2, <1>3 DEF Next, Fatal_Assert, Ended, vars, sharedVars

(* Only the failure of an assertion changes failure.                     *)
LEMMA FailureStays == [Next]_vars => Fatal_Assert \/ failure' = failure
<1> SUFFICES ASSUME [Next]_vars, ~Fatal_Assert PROVE failure' = failure
  OBVIOUS
<1>1. CASE Manager_Step
  <2>1. CASE Handle_Message
    BY <2>1, HandlerFrame
  <2> QED BY <1>1, <2>1 DEF Manager_Step, Manager_Next, Service_Incoming_Frames, Flush_Frame, Flush_Frames_Done,
                            Execute_Process, Service_Shutdown, sharedVars
<1>2. CASE \E id \in ManagedIDs : Process_Step(id)
  BY <1>2 DEF Process_Step, Process_Next, Run, Flush_Regular_Message, Handle_Shutdown_Mailboxes, Flush_System_Messages,
              Reset_Manager_Frame, Leave_Loop, sharedVars
<1> QED BY <1>1, <1>2 DEF Next, Ended, vars, sharedVars

(* Whatever the shutdowns that overlap, no acknowledgement surprises the  *)
(* manager: the FATAL_ASSERT of Handle_Release_Mailbox_Response holds.    *)
THEOREM AcknowledgementsAreAwaited == Spec => [](failure # "Handle_Release_Mailbox_Response")
<1> DEFINE All == TypeOK /\ ExecutionInv /\ HandleInv /\ Begun /\ ReleaseInv
           Safe == failure # "Handle_Release_Mailbox_Response"
<1>1. Init => All /\ Safe
  BY TypeInit, ExecutionInit, HandleInit, HandlesInit, ReleaseInit DEF Init, SharedInit
<1>2. All /\ [Next]_vars => All'
  BY TypeNext, ExecutionNext, HandleNext, ReleaseNext
<1>3. All /\ Safe /\ [Next]_vars => Safe'
  <2> SUFFICES ASSUME All, Safe, [Next]_vars PROVE Safe'
    OBVIOUS
  <2>1. CASE Fatal_Assert
    BY <2>1, ReleaseFailing DEF Fatal_Assert
  <2>2. CASE failure' = failure
    BY <2>2
  <2>3. Fatal_Assert \/ failure' = failure
    BY FailureStays
  <2> QED BY <2>1, <2>2, <2>3
<1> QED BY <1>1, <1>2, <1>3, PTL DEF Spec

-----------------------------------------------------------------------------
(* The other assertions, when the application keeps to what they rest on. *)

(* What the application may ask: only of processes, and for processes.   *)
Sayable(m) ==
  /\ m.type \in RequestTypes => m.source \in ProcessIDs
  /\ m.type = "GetMailboxByID" => m.id \in ProcessIDs
  /\ m.type = "GetMailboxByProperties" => m.ids \subseteq ProcessIDs

(* A message that hands over the mailboxes of processes, and no other.   *)
Handable(m) == m.type = "AddMailbox" => m.ids \subseteq ProcessIDs

(* No process is told to shut down twice, and nothing is sent to it once  *)
(* it has been told.                                                      *)
Tellings == { m \in Message : m.type = "ShutdownSelfRequest" }
TellsOnce(queue) == Followed(queue, Tellings, Message \ Tellings)

ToldOnce(q) ==
  /\ TellsOnce(mailbox[q]) /\ TellsOnce(FramesToSend[q])
  /\ Tells(mailbox[q]) => ~Is_Shutting_Down(q)
  /\ Tells(mailbox[q]) \/ Is_Shutting_Down(q) => FramesToSend[q] = <<>>

(* Once a process has said that it shuts down it only gives mailboxes     *)
(* back.                                                                  *)
Endings(q) == { m \in Message : m.type = "ShutdownSelfResponse" /\ m.source = q }
Answers(q) == { m \in Message : m.source = q => m.type = "ReleaseMailboxResponse" }
EndsLast(queue, q)    == Followed(queue, Endings(q), Answers(q))
OnlyAnswers(queue, q) == \A m \in Contents(queue) : m \in Answers(q)
Dismantled(q) == ~Has_Record(q) /\ q < NextID

LastWord(q) ==
  /\ EndsLast(ToHandle, q) /\ EndsLast(ManagerFrame[q], q)
  /\ Ends(ToHandle, q) => OnlyAnswers(ManagerFrame[q], q)
  /\ Dismantled(q) => Is_Shutting_Down(q) /\ OnlyAnswers(ManagerFrame[q], q) /\ OnlyAnswers(ToHandle, q)

(* The shutdown of the manager is not asked for, nor that of a process.  *)
Halts(queue) == \E m \in Contents(queue) : m.type = "ShutdownManager"
NoHalt   == budget["ShutdownManager"] = 0 /\ ~Halts(ToHandle) /\ \A id \in ManagedIDs : ~Halts(ManagerFrame[id])
NoTarget == budget["ShutdownProcess"] = 0 /\ \A p \in ProcessIDs : ~Target(p)

RequestsInv ==
  /\ \A q \in ManagedIDs : \A m \in Contents(ManagerFrame[q]) : Sayable(m)
  /\ \A m \in Contents(ToHandle) : Sayable(m)

ToldInv ==
  /\ \A q \in ManagedIDs :
       ToldOnce(q) /\ \A m \in Contents(mailbox[q]) \cup Contents(FramesToSend[q]) : Handable(m)
  /\ State # "SHUTTING_DOWN_PHASE2" =>
       ~Tells(mailbox[LOGGING]) /\ ~Is_Shutting_Down(LOGGING) /\ FramesToSend[LOGGING] = <<>>

WordInv ==
  phase # "done" =>
    /\ \A q \in ManagedIDs : LastWord(q)
    /\ \A q \in EProcessID : FramesToSend[q] # <<>> => q \in ManagedIDs /\ Has_Record(q)

HaltInv ==
  State = "RUNNING" =>
    /\ NoHalt \/ NoTarget
    /\ \A request \in PersistentGetRequests : request[1] \in ProcessIDs /\ ~Leaving(request[1])

OrderInv == RequestsInv /\ ToldInv /\ WordInv /\ HaltInv

(* What the application asks of the runtime, where the assertions need it: *)
(* there is one shutdown, of a process or of the manager, so that no frame *)
(* is left for a record that is gone (ConcurrencyManager.cpp:522) and no   *)
(* process is told twice (ProcessBase.cpp:409); it asks nothing once it    *)
(* has been told to shut down, which would leave such a frame as well; and *)
(* it asks for the mailboxes of processes, not for those of the manager or *)
(* the logging process (ProcessBase.cpp:382).                              *)
FairUse ==
  /\ \A b \in Budgets : /\ b["ShutdownProcess"] <= 1
                        /\ b["ShutdownProcess"] = 0 \/ b["ShutdownManager"] = 0
  /\ LateRequests = FALSE
  /\ RequestableIDs \subseteq ProcessIDs /\ \A ids \in Patterns : ids \subseteq ProcessIDs

(* The initial state.                                                    *)
LEMMA OrderInit == FairUse /\ Init => OrderInv
<1> SUFFICES ASSUME FairUse, Init PROVE OrderInv
  OBVIOUS
<1> USE IDs
<1>1. /\ ToHandle = <<>> /\ \A q \in EProcessID : FramesToSend[q] = <<>> /\ mailbox[q] = <<>>
      /\ \A q \in ManagedIDs : ManagerFrame[q] = <<>> /\ ~Is_Shutting_Down(q)
  BY DEF Init, SharedInit, Setup_For_Run, ProcessInit, ToHandle, Is_Shutting_Down, Shutting_Down
<1>2. RequestsInv
  BY <1>1, ContentsFew DEF RequestsInv
<1>3. ToldInv
  BY <1>1, ContentsFew, FollowedFew, EmptySaysNothing DEF ToldInv, ToldOnce, TellsOnce
<1>4. WordInv
  <2>1. \A q \in ManagedIDs : ~Dismantled(q)
    BY DEF Init, Setup_For_Run, Dismantled, Has_Record, ManagedIDs, EProcessID
  <2>2. \A q : ~Ends(<<>>, q) /\ EndsLast(<<>>, q) /\ OnlyAnswers(<<>>, q)
    BY FollowedFew, EmptySaysNothing, ContentsFew DEF EndsLast, OnlyAnswers
  <2>3. \A q \in ManagedIDs : LastWord(q)
    BY <1>1, <2>1, <2>2 DEF LastWord
  <2> QED BY <1>1, <2>3 DEF WordInv
<1>5. HaltInv
  <2>1. \A p \in ProcessIDs : ~Target(p)
    <3>1. ASSUME NEW p \in ProcessIDs PROVE ~Leaving(p)
      BY DEF Init, Setup_For_Run, Leaving, Closing, Closed, Gone, ProcessIDs
    <3> QED BY <1>1, <3>1, ContentsFew DEF Target, Shuts
  <2>2. ~Halts(<<>>)
    BY ContentsFew DEF Halts
  <2>3. PersistentGetRequests = {} /\ budget \in Budgets
    BY DEF Init, Setup_For_Run, ProcessInit
  <2>4. budget["ShutdownProcess"] = 0 \/ budget["ShutdownManager"] = 0
    BY <2>3 DEF FairUse
  <2> QED BY <1>1, <2>1, <2>2, <2>3, <2>4 DEF HaltInv, NoHalt, NoTarget
<1> QED BY <1>2, <1>3, <1>4, <1>5 DEF OrderInv

(* Who sends a request exists.                                           *)
LEMMA RequestersExist ==
  ASSUME TypeOK, HandleInv, RequestsInv, WordInv, State = "RUNNING", Handle_Message, message.type \in RequestTypes
  PROVE  /\ message.source \in ProcessIDs /\ message.source < NextID /\ Has_Record(message.source)
         /\ Sayable(message)
<1>1. /\ message \in Message /\ message \in Contents(ToHandle)
      /\ message.source \in ManagedIDs /\ message.source < NextID /\ phase = "handle"
  BY HandlerFrame, Handles_Message, SendersExist
<1>2. Sayable(message) /\ LastWord(message.source)
  BY <1>1 DEF RequestsInv, WordInv
<1>3. message \notin Answers(message.source)
  BY <1>1 DEF Answers, RequestTypes
<1>4. ~Dismantled(message.source)
  BY <1>1, <1>2, <1>3 DEF LastWord, OnlyAnswers
<1> QED BY <1>1, <1>2, <1>4 DEF Sayable, Dismantled

(* Who is sent something is there to receive it, and has not been told to *)
(* shut down.                                                             *)
Fit(q, new) ==
  /\ \A m \in Contents(new) : Handable(m)
  /\ TellsOnce(new)
  /\ new # <<>> =>
       /\ q \in ManagedIDs /\ Has_Record(q)' /\ (q = LOGGING => State' = "SHUTTING_DOWN_PHASE2")
       /\ ~Tells(mailbox[q]) /\ ~Tells(FramesToSend[q]) /\ ~Is_Shutting_Down(q)

(* Whose shutdown has not come to its second phase has not been told.    *)
LEMMA Untold ==
  ASSUME HandleInv, State = "RUNNING", NEW q \in ProcessIDs, ~Closed(q), ~Gone(q)
  PROVE  ~Tells(mailbox[q]) /\ ~Tells(FramesToSend[q]) /\ ~Is_Shutting_Down(q)
BY DEF HandleInv, RunningInv, Told

(* What a handler sends is fit to be sent.                               *)
LEMMA HandlerFits ==
  ASSUME TypeOK, HandleInv, TargetInv, RequestsInv, WordInv, HaltInv, State = "RUNNING", Handle_Message,
         NEW q \in EProcessID, NEW new \in Seq(Message), Sends(q, new)
  PROVE  Fit(q, new)
<1> USE IDs
<1>0. /\ ProcessRecords \in [EProcessID -> EInternalProcessState \cup {"NO_RECORD"}] /\ NextID \in Int
      /\ message \in Message /\ message \in Contents(ToHandle) /\ message.source \in ManagedIDs
      /\ message.type = "ShutdownProcess" => message.id \in ProcessIDs
  BY HandlerFrame, Handles_Message, SendersExist DEF TypeOK, ManagerTypeOK
<1>1. ASSUME q \in ProcessIDs, Has_Record(q)', ~Closed(q), ~Gone(q)
      PROVE  /\ q \in ManagedIDs /\ Has_Record(q)' /\ (q = LOGGING => State' = "SHUTTING_DOWN_PHASE2")
             /\ ~Tells(mailbox[q]) /\ ~Tells(FramesToSend[q]) /\ ~Is_Shutting_Down(q)
  BY <1>1, Untold
<1>2. ASSUME NEW p \in EProcessID, Has_Record(p) PROVE ~Gone(p)
  BY <1>2 DEF Has_Record, Gone
<1>3. ASSUME NEW p \in EProcessID, ~Is_Process_Shutting_Down(p) PROVE ~Closed(p)
  BY <1>3 DEF Is_Process_Shutting_Down, Closed
<1>4. CASE new = <<>>
  BY <1>4, ContentsFew, FollowedFew DEF Fit, TellsOnce
<1>5. CASE Introduced(q, new)
  <2>1. message.type \in RequestTypes
    BY <1>5 DEF Introduced, RequestTypes
  <2>2. q \in ProcessIDs /\ Has_Record(q) /\ Sayable(message)
    BY <1>5, <2>1, RequestersExist DEF Introduced
  <2>3. Has_Record(q)' /\ ~Closed(q) /\ ~Gone(q)
    BY <1>2, <1>3, <1>5, <2>2 DEF Introduced, Has_Record
  <2>4. PICK ids \in SUBSET (EProcessID \cup {INVALID}) :
          /\ new = <<CAddMailboxMessage(ids)>>
          /\ \/ message.type = "GetMailboxByID" /\ ids = {message.id}
             \/ message.type = "GetMailboxByProperties" /\ ids \subseteq message.ids
    BY <1>5 DEF Introduced
  <2>5. ids \subseteq ProcessIDs
    BY <2>2, <2>4 DEF Sayable
  <2>6. \A m \in Contents(new) : Handable(m)
    <3>1. Contents(new) = {CAddMailboxMessage(ids)}
      BY <2>4, ContentsFew
    <3>2. Handable(CAddMailboxMessage(ids))
      BY <2>5 DEF Handable, CAddMailboxMessage
    <3> QED BY <3>1, <3>2
  <2>7. TellsOnce(new)
    BY <2>4, FollowedFew DEF TellsOnce
  <2> QED BY <1>1, <2>2, <2>3, <2>6, <2>7 DEF Fit
<1>6. CASE Announced(q, new) /\ new # <<>>
  <2>0. PICK source \in ProcessIDs : source = message.source /\ source < NextID /\ Has_Record(source)
    <3>1. message.type \in RequestTypes
      BY <1>6 DEF Announced, Handle_Add_New_Process_Message, Handling, message, RequestTypes
    <3> QED BY <3>1, RequestersExist
  <2>1. NextID \in ProcessIDs
    BY <1>6 DEF Announced, TypeOK, ManagerTypeOK, ProcessIDs, EProcessID
  <2>2. \A m \in Contents(new) : m.type = "AddMailbox" /\ m.ids \subseteq ProcessIDs
    BY <1>6, <2>0, <2>1 DEF Announced, Get_Mailbox
  <2>3. TellsOnce(new)
    <3>1. \A m \in Contents(new) : m \notin Tellings
      BY <2>2 DEF Tellings
    <3> QED BY <3>1, FollowedFew DEF TellsOnce
  <2>4. ASSUME NEW p \in ProcessIDs, Has_Record(p) PROVE Has_Record(p)'
    BY <1>0, <1>6, <2>4 DEF Announced, Has_Record
  <2>5. q \in ProcessIDs /\ Has_Record(q)' /\ ~Closed(q) /\ ~Gone(q)
    <3>1. CASE q \in Ongoing_Requesters(NextID)
      <4>1. PICK request \in PersistentGetRequests : request[1] = q /\ ~Is_Process_Shutting_Down(q)
        BY <3>1 DEF Ongoing_Requesters
      <4>2. q \in ProcessIDs /\ ~Leaving(q) /\ q < NextID
        BY <4>1 DEF HaltInv, HandleInv, RunningInv, ServiceInv
      <4>3. Has_Record(q)
        BY <4>2 DEF Leaving, Gone, Has_Record
      <4> QED BY <2>4, <4>2, <4>3 DEF Leaving
    <3>2. CASE q = message.source /\ ~Is_Process_Shutting_Down(q)
      BY <1>2, <1>3, <2>0, <2>4, <3>2
    <3>3. CASE q = NextID
      <4>1. ~Closed(q)
        BY <2>1, <3>3 DEF HandleInv, RunningInv, Unborn, Has_Record, Closed
      <4>2. ~Gone(q)
        BY <1>0, <3>3 DEF Gone
      <4>3. Has_Record(q)'
        BY <1>0, <1>6, <3>3 DEF Announced, Has_Record
      <4> QED BY <2>1, <3>3, <4>1, <4>2, <4>3
    <3> QED BY <1>6, <3>1, <3>2, <3>3 DEF Announced
  <2> QED BY <1>1, <2>2, <2>3, <2>5 DEF Fit, Handable
<1>7. CASE AskedBack(q, new)
  <2>1. PICK p \in ProcessIDs : Begins(p) /\ q \in Others(p) /\ new = <<CReleaseMailboxRequest(p)>>
    BY <1>7 DEF AskedBack
  <2>2. q \in ProcessIDs /\ q # p /\ Has_Record(q) /\ ~Gone(q)
    BY <1>2, <2>1 DEF Others, Records, EProcessID, ProcessIDs
  <2>3. Target(p)
    <3>1. message.type = "ShutdownProcess" /\ message.id = p
      BY <2>1 DEF Begins, Handle_Shutdown_Process_Message, Handling, message
    <3> QED BY <1>0, <3>1 DEF Target, Shuts
  <2>4. ~Closed(q)
    BY <2>2, <2>3 DEF TargetInv, OnlyTarget, Target, Leaving
  <2>5. Has_Record(q)'
    BY <1>0, <2>1, <2>2 DEF Begins, Initiate_Process_Shutdown, Has_Record
  <2>6. \A m \in Contents(new) : Handable(m)
    BY <2>1, ContentsFew DEF Handable, CReleaseMailboxRequest, About
  <2>7. TellsOnce(new)
    BY <2>1, FollowedFew DEF TellsOnce
  <2> QED BY <1>1, <2>2, <2>4, <2>5, <2>6, <2>7 DEF Fit
<1>8. CASE Dismissed(q, new)
  <2>1. q \in ProcessIDs /\ ~Closed(q) /\ ~Gone(q)
    BY <1>2, <1>3, <1>8 DEF Dismissed, Begins, Closing, Closed, Gone
  <2>2. Has_Record(q)'
    BY <1>8 DEF Dismissed, Closed, Has_Record
  <2>3. \A m \in Contents(new) : Handable(m)
    BY <1>8, ContentsFew DEF Dismissed, Handable, CShutdownSelfRequest
  <2>4. TellsOnce(new)
    BY <1>8, FollowedFew DEF Dismissed, TellsOnce
  <2> QED BY <1>1, <2>1, <2>2, <2>3, <2>4 DEF Fit
<1>9. CASE Halted(q, new)
  <2>1. q \in ProcessIDs /\ Has_Record(q) /\ ~Gone(q)
    BY <1>2, <1>9 DEF Halted, Records, EProcessID, ProcessIDs
  <2>2. Halts(ToHandle)
    <3>1. message.type = "ShutdownManager"
      BY <1>9 DEF Halted, Handle_Shutdown_Manager_Message, Handling, message
    <3> QED BY <1>0, <3>1 DEF Halts
  <2>3. ~Closed(q)
    BY <2>1, <2>2 DEF HaltInv, NoHalt, NoTarget, Target, Leaving
  <2>4. Has_Record(q)'
    BY <1>9, <2>1 DEF Halted, Handle_Shutdown_Manager_Message, Has_Record
  <2>5. \A m \in Contents(new) : Handable(m)
    BY <1>9, ContentsFew DEF Halted, Handable, CShutdownSelfRequest
  <2>6. TellsOnce(new)
    BY <1>9, FollowedFew DEF Halted, TellsOnce
  <2> QED BY <1>1, <2>1, <2>3, <2>4, <2>5, <2>6 DEF Fit
<1> QED BY <1>4, <1>5, <1>6, <1>7, <1>8, <1>9 DEF Sends

-----------------------------------------------------------------------------
(* Steps of processes.                                                   *)

(* What a process says is what the application asks for, one of its own  *)
(* answers, or the request to be rescheduled.                            *)
LEMMA SpeechParts ==
  ASSUME NEW id \in ManagedIDs, NEW asked \in {<<>>} \cup { <<m>> : m \in Requests(id) }, NEW said,
         Speech(id, said, asked), NEW m \in Contents(said)
  PROVE  \/ m \in Requests(id) /\ asked = <<m>>
         \/ m = CShutdownSelfResponse(id) /\ Executes(id)
         \/ m = CRescheduleProcessMessage(id) /\ Executes(id)
         \/ m = CReleaseMailboxResponse(id, ShutdownMailboxes[id])
<1>1. CASE said = <<>>
  BY <1>1, ContentsFew
<1>2. CASE Executes(id) /\ \E early \in {TRUE, ~LateRequests} : said = Frame_After_Messages(id, asked, early)
  <2>1. PICK early \in BOOLEAN : said = Frame_After_Messages(id, asked, early)
    BY <1>2, LateRequestsAssumption
  <2> QED BY <1>2, <2>1, FrameParts
<1>3. CASE said = <<CReleaseMailboxResponse(id, ShutdownMailboxes[id])>>
  BY <1>3, ContentsFew
<1> QED BY <1>1, <1>2, <1>3 DEF Speech

(* Where what it says, and has said, gets to.                            *)
LEMMA SaidContents ==
  ASSUME TypeOK, NEW id \in ManagedIDs, NEW said \in Seq(Message), Says(id, said)
  PROVE  /\ ToHandle \in Seq(Message) /\ \A j \in ManagedIDs : ManagerFrame[j] \in Seq(Message)
         /\ Contents(ToHandle') \subseteq Contents(ToHandle) \cup Contents(ManagerFrame[id])
         /\ \A j \in ManagedIDs : Contents(ManagerFrame'[j]) \subseteq Contents(ManagerFrame[j]) \cup Contents(said)
<1> USE IDs
<1>1. \A j \in ManagedIDs : ManagerFrame[j] \in Seq(Message)
  BY DEF TypeOK, ProcessTypeOK
<1>2. ToHandle \in Seq(Message)
  <2>1. control_frames \in Seq(Message) /\ mailbox[CONCURRENCY_MANAGER] \in Seq(Message)
    BY DEF TypeOK, SharedTypeOK, ManagerTypeOK
  <2> QED BY <2>1, ContentsConcat DEF ToHandle
<1> DEFINE frame == ManagerFrame[id]
<1>3. frame \in Seq(Message)
  BY <1>1
<1> HIDE DEF frame
<1>4. /\ Contents(ToHandle \o frame) = Contents(ToHandle) \cup Contents(frame)
      /\ Contents(frame \o said) = Contents(frame) \cup Contents(said)
  BY <1>2, <1>3, ContentsConcat
<1>5. Contents(ToHandle') \subseteq Contents(ToHandle) \cup Contents(frame)
  BY <1>4 DEF Says, frame
<1>6. Contents(ManagerFrame'[id]) \subseteq Contents(frame) \cup Contents(said)
  BY <1>4, ContentsFew DEF Says, frame
<1>7. \A j \in ManagedIDs : j # id => ManagerFrame'[j] = ManagerFrame[j]
  BY DEF Says
<1> QED BY <1>1, <1>2, <1>5, <1>6, <1>7 DEF frame

(* What the application asks is within FairUse.                          *)
LEMMA RequestsProcess ==
  ASSUME FairUse, TypeOK, RequestsInv, NEW id \in ManagedIDs, Process_Step(id)
  PROVE  RequestsInv'
<1>1. PICK said \in Seq(Message), asked \in {<<>>} \cup { <<m>> : m \in Requests(id) } :
        Says(id, said) /\ Speech(id, said, asked) /\ Pays(asked)
  BY ProcessSays
<1>2. ASSUME NEW m \in Contents(said) PROVE Sayable(m)
  <2>1. CASE m \in Requests(id)
    <3>1. id \in ProcessIDs /\ m.source = id
      BY <2>1, RequestsType DEF Requests, ManagedIDs, ProcessIDs
    <3>2. m.type = "GetMailboxByID" => m.id \in RequestableIDs
      BY <2>1 DEF Requests
    <3>3. m.type = "GetMailboxByProperties" => m.ids \in Patterns
      BY <2>1 DEF Requests
    <3> QED BY <3>1, <3>2, <3>3 DEF Sayable, FairUse
  <2>2. m = CShutdownSelfResponse(id) \/ m = CRescheduleProcessMessage(id) => Sayable(m)
    BY DEF Sayable, RequestTypes, CShutdownSelfResponse, CRescheduleProcessMessage, About
  <2>3. m = CReleaseMailboxResponse(id, ShutdownMailboxes[id]) => Sayable(m)
    BY DEF Sayable, RequestTypes, CReleaseMailboxResponse
  <2> QED BY <1>1, <2>1, <2>2, <2>3, SpeechParts
<1>3. \A m : Sayable(m)' <=> Sayable(m)
  BY DEF Sayable
<1> QED BY <1>1, <1>2, <1>3, SaidContents DEF RequestsInv

(* A step of a process tells no one anything but what its application    *)
(* has to say; it shuts down only when it is told to.                    *)
LEMMA ToldProcess ==
  ASSUME TypeOK, ToldInv, NEW id \in ManagedIDs, Process_Step(id)
  PROVE  ToldInv'
<1> USE IDs
<1>0. /\ mailbox \in [EProcessID -> Seq(Message)] /\ FramesToSend' = FramesToSend /\ State' = State
  BY DEF Process_Step, managerVars, TypeOK, SharedTypeOK
<1>1. ASSUME NEW q \in ManagedIDs
      PROVE  /\ Tells(mailbox'[q]) => Tells(mailbox[q])
             /\ Is_Shutting_Down(q)' => Is_Shutting_Down(q) \/ Tells(mailbox[q])
             /\ TellsOnce(mailbox'[q])
             /\ Tells(mailbox'[q]) => ~Is_Shutting_Down(q)'
             /\ \A m \in Contents(mailbox'[q]) : Handable(m)
  <2>0. TellsOnce(mailbox[q]) /\ (Tells(mailbox[q]) => ~Is_Shutting_Down(q)) /\ \A m \in Contents(mailbox[q]) : Handable(m)
    BY DEF ToldInv, ToldOnce
  <2>1. CASE q = id /\ Executes(id)
    <3>1. mailbox'[q] = <<>> /\ processState'[q] = State_After_Messages(q)
      BY <2>1, ProcessMail
    <3>2. ~Tells(mailbox'[q]) /\ TellsOnce(mailbox'[q]) /\ \A m \in Contents(mailbox'[q]) : Handable(m)
      BY <3>1, ContentsFew, FollowedFew, EmptySaysNothing DEF TellsOnce
    <3>3. Shutting_Down(State_After_Messages(q)) => Tells(mailbox[q])
      BY DEF Shutting_Down, State_After_Messages, Incoming, Tells
    <3> QED BY <3>1, <3>2, <3>3 DEF Is_Shutting_Down
  <2>2. CASE ~(q = id /\ Executes(id))
    <3>1. PICK users \in Seq(Message) : /\ processState'[q] = processState[q] /\ mailbox'[q] = mailbox[q] \o users
                                        /\ \A m \in Contents(users) : m.type = "User"
      BY <2>2, ProcessMail
    <3>2. Contents(mailbox'[q]) = Contents(mailbox[q]) \cup Contents(users)
      BY <1>0, <3>1, ContentsConcat
    <3>3. \A m \in Contents(users) : m \notin Tellings /\ m \in Message \ Tellings /\ Handable(m)
      BY <3>1, ContentsType DEF Tellings, Handable
    <3>4. TellsOnce(mailbox'[q])
      <4>1. Followed(users, Tellings, Message \ Tellings)
        BY <3>3, FollowedFew
      <4>2. mailbox[q] \in Seq(Message)
        BY <1>0
      <4> QED BY <2>0, <3>1, <3>3, <4>1, <4>2, FollowedConcat DEF TellsOnce
    <3>5. Tells(mailbox'[q]) => Tells(mailbox[q])
      BY <3>1, <3>2 DEF Tells
    <3>6. Is_Shutting_Down(q)' <=> Is_Shutting_Down(q)
      BY <3>1 DEF Is_Shutting_Down
    <3> QED BY <2>0, <3>2, <3>3, <3>4, <3>5, <3>6
  <2> QED BY <2>1, <2>2
<1>2. \A m : Handable(m)' <=> Handable(m)
  BY DEF Handable
<1>3. ASSUME NEW q \in ManagedIDs PROVE ToldOnce(q)'
  BY <1>0, <1>1 DEF ToldInv, ToldOnce, TellsOnce
<1>4. \A q \in ManagedIDs : \A m \in Contents(mailbox'[q]) \cup Contents(FramesToSend'[q]) : Handable(m)
  BY <1>0, <1>1 DEF ToldInv
<1>5. State # "SHUTTING_DOWN_PHASE2" =>
        ~Tells(mailbox'[LOGGING]) /\ ~Is_Shutting_Down(LOGGING)' /\ FramesToSend'[LOGGING] = <<>>
  BY <1>0, <1>1 DEF ToldInv
<1> QED BY <1>0, <1>2, <1>3, <1>4, <1>5 DEF ToldInv

(* In an execution the process speaks last of its end.                   *)
LEMMA FrameEnds ==
  ASSUME NEW id \in ManagedIDs, NEW asked \in {<<>>} \cup { <<m>> : m \in Requests(id) }
  PROVE  EndsLast(Frame_After_Messages(id, asked, TRUE), id)
<1> DEFINE frame == Frame_After_Messages(id, asked, TRUE)
           reply == <<CShutdownSelfResponse(id)>>
<1>1. CASE ~Shutting_Down(State_After_Messages(id))
  <2>1. ASSUME NEW m \in Contents(frame) PROVE m \notin Endings(id)
    <3>1. m \in Requests(id) \/ m = CRescheduleProcessMessage(id)
      BY <1>1, FrameParts
    <3> QED BY <3>1, RequestsType DEF Endings, RequestTypes, CRescheduleProcessMessage, About
  <2> QED BY <2>1, FollowedFew DEF EndsLast
<1>2. CASE Shutting_Down(State_After_Messages(id))
  <2>1. reply \in Seq(Message) /\ asked \in Seq(Message)
    <3>1. CShutdownSelfResponse(id) \in Message /\ \A m \in Requests(id) : m \in Message
      BY Constructors, IDs, RequestsType
    <3>2. reply \in Seq(Message)
      BY <3>1
    <3>3. CASE asked = <<>>
      BY <3>2, <3>3
    <3>4. CASE \E m \in Requests(id) : asked = <<m>>
      BY <3>1, <3>2, <3>4
    <3> QED BY <3>3, <3>4
  <2>2. frame = asked \o reply
    <3>1. frame = (asked \o reply) \o <<>>
      BY <1>2 DEF Frame_After_Messages
    <3> HIDE DEF reply, frame
    <3>2. asked \o reply \in Seq(Message)
      BY <2>1
    <3> QED BY <3>1, <3>2
  <2>3. \A m \in Contents(asked) : m \notin Endings(id)
    BY ContentsFew, RequestsType DEF Endings, RequestTypes
  <2>4. Followed(asked, Endings(id), Answers(id)) /\ Followed(reply, Endings(id), Answers(id))
    BY <2>3, FollowedFew
  <2> HIDE DEF reply, frame
  <2> QED BY <2>1, <2>2, <2>3, <2>4, FollowedConcat DEF EndsLast, frame
<1> QED BY <1>1, <1>2

(* A queue whose messages are of E says that q has shut down.            *)
LEMMA EndingsAre ==
  ASSUME NEW s \in Seq(Message), NEW q
  PROVE  (\E m \in Contents(s) : m \in Endings(q)) <=> Ends(s, q)
BY ContentsType DEF Ends, Endings

(* A queue with another one after it ends well if both do, and only       *)
(* answers follow.                                                        *)
LEMMA EndsLastConcat ==
  ASSUME NEW s \in Seq(Message), NEW t \in Seq(Message), NEW q,
         EndsLast(s, q), EndsLast(t, q), Ends(s, q) => OnlyAnswers(t, q)
  PROVE  /\ s \o t \in Seq(Message) /\ EndsLast(s \o t, q)
         /\ Ends(s \o t, q) <=> Ends(s, q) \/ Ends(t, q)
         /\ OnlyAnswers(s \o t, q) <=> OnlyAnswers(s, q) /\ OnlyAnswers(t, q)
<1>1. s \o t \in Seq(Message) /\ Contents(s \o t) = Contents(s) \cup Contents(t)
  BY ContentsConcat
<1>2. EndsLast(s \o t, q)
  BY EndingsAre, FollowedConcat DEF EndsLast, OnlyAnswers
<1> QED BY <1>1, <1>2 DEF Ends, OnlyAnswers

(* In a step of a process: the last thing the process says, but for its   *)
(* answers, is that it shuts down.                                        *)
LEMMA WordProcess ==
  ASSUME LateRequests = FALSE, TypeOK, ExecutionInv, AssertionInv, WordInv, NEW id \in ManagedIDs, Process_Step(id)
  PROVE  WordInv'
<1> USE IDs
<1>0. UNCHANGED <<phase, NextID, ProcessRecords, FramesToSend>>
  BY DEF Process_Step, managerVars
<1> SUFFICES ASSUME phase # "done", NEW q \in ManagedIDs PROVE LastWord(q)'
  <2>1. \A j \in EProcessID : (FramesToSend[j] # <<>> => j \in ManagedIDs /\ Has_Record(j)) =>
                              (FramesToSend'[j] # <<>> => j \in ManagedIDs /\ Has_Record(j)')
    BY <1>0 DEF Has_Record
  <2> QED BY <1>0, <2>1 DEF WordInv
<1>1. PICK said \in Seq(Message), asked \in {<<>>} \cup { <<m>> : m \in Requests(id) } :
        Says(id, said) /\ Speech(id, said, asked) /\ Pays(asked)
  BY ProcessSays
<1>2. ToHandle \in Seq(Message) /\ \A j \in ManagedIDs : ManagerFrame[j] \in Seq(Message)
  BY <1>1, SaidContents
<1>3. LastWord(q)
  BY DEF WordInv
<1>4. Dismantled(q)' <=> Dismantled(q)
  BY <1>0 DEF Dismantled, Has_Record
<1>5. Is_Shutting_Down(q) => Is_Shutting_Down(q)'
  <2> SUFFICES ASSUME Is_Shutting_Down(q) PROVE Is_Shutting_Down(q)'
    OBVIOUS
  <2>1. ~(q = id /\ Executes(id))
    BY DEF Executes
  <2>2. processState'[q] = processState[q]
    BY <2>1, ProcessMail
  <2> QED BY <2>2 DEF Is_Shutting_Down
<1> DEFINE Properly(handled, frame) ==
             /\ EndsLast(handled, q) /\ EndsLast(frame, q)
             /\ Ends(handled, q) => OnlyAnswers(frame, q)
             /\ Dismantled(q) => OnlyAnswers(frame, q) /\ OnlyAnswers(handled, q)
<1>6. \A handled, frame : ToHandle' = handled /\ ManagerFrame'[q] = frame /\ Properly(handled, frame) => LastWord(q)'
  BY <1>3, <1>4, <1>5 DEF LastWord
<1> DEFINE old == ManagerFrame[id]
<1>7. old \in Seq(Message) /\ old = ManagerFrame[id]
  BY <1>2
<1> HIDE DEF old
<1>8. CASE q # id
  <2>1. ManagerFrame'[q] = ManagerFrame[q]
    BY <1>1, <1>8 DEF Says
  <2>2. \A m \in Contents(old) : m \in Answers(q) /\ m \notin Endings(q)
    <3>1. \A m \in Contents(old) : m \in Message /\ m.source = id
      BY <1>7, ContentsType DEF ExecutionInv
    <3> QED BY <1>8, <3>1 DEF Answers, Endings
  <2>3. EndsLast(old, q) /\ OnlyAnswers(old, q) /\ ~Ends(old, q)
    BY <1>7, <2>2, FollowedFew, EndingsAre DEF EndsLast, OnlyAnswers
  <2>4. Properly(ToHandle, ManagerFrame[q])
    BY <1>3 DEF LastWord
  <2>5. Properly(ToHandle \o old, ManagerFrame[q])
    <3>1. /\ EndsLast(ToHandle \o old, q) /\ (Ends(ToHandle \o old, q) <=> Ends(ToHandle, q))
          /\ OnlyAnswers(ToHandle \o old, q) <=> OnlyAnswers(ToHandle, q)
      BY <1>2, <1>7, <2>3, <2>4, EndsLastConcat
    <3> QED BY <2>4, <3>1
  <2>6. ToHandle' = ToHandle \/ ToHandle' = ToHandle \o old
    BY <1>1, <1>7 DEF Says
  <2> HIDE DEF Properly
  <2> QED BY <1>6, <2>1, <2>4, <2>5, <2>6
<1>9. CASE q = id
  <2>0. Properly(ToHandle, old)
    BY <1>3, <1>7, <1>9 DEF LastWord
  <2>1. CASE ToHandle' = ToHandle /\ ManagerFrame'[id] = old \o said
    <3>1. CASE Executes(id)
      <4>1. ~Is_Shutting_Down(q) /\ ~Dismantled(q)
        BY <1>3, <1>9, <3>1 DEF Executes, LastWord
      <4>2. ~Ends(ToHandle, q) /\ ~Ends(old, q)
        BY <1>7, <1>9, <4>1 DEF AssertionInv, Fits, Ends
      <4>3. EndsLast(said, q)
        <5>1. CASE said = <<>>
          BY <5>1, FollowedFew DEF EndsLast
        <5>2. CASE said = Frame_After_Messages(id, asked, TRUE)
          BY <1>9, <5>2, FrameEnds
        <5>3. CASE said = <<CReleaseMailboxResponse(id, ShutdownMailboxes[id])>>
          BY <5>3, FollowedFew DEF EndsLast
        <5> QED BY <1>1, <5>1, <5>2, <5>3 DEF Speech
      <4>4. EndsLast(old \o said, q)
        BY <1>7, <2>0, <4>2, <4>3, EndsLastConcat
      <4>5. Properly(ToHandle, old \o said)
        BY <2>0, <4>1, <4>2, <4>4
      <4> HIDE DEF Properly
      <4> QED BY <1>6, <1>9, <2>1, <4>5
    <3>2. CASE ~Executes(id)
      <4>1. \A m \in Contents(said) : m \in Answers(q)
        <5>1. said = <<>> \/ said = <<CReleaseMailboxResponse(id, ShutdownMailboxes[id])>>
          BY <1>1, <3>2 DEF Speech
        <5>2. \A m \in Contents(said) : m \in Message
          BY ContentsType
        <5> QED BY <5>1, <5>2, ContentsFew DEF Answers, CReleaseMailboxResponse
      <4>2. EndsLast(said, q) /\ OnlyAnswers(said, q)
        BY <4>1, FollowedFew DEF EndsLast, OnlyAnswers
      <4>3. EndsLast(old \o said, q) /\ (OnlyAnswers(old \o said, q) <=> OnlyAnswers(old, q))
        BY <1>7, <2>0, <4>2, EndsLastConcat
      <4>4. Properly(ToHandle, old \o said)
        BY <2>0, <4>3
      <4> HIDE DEF Properly
      <4> QED BY <1>6, <1>9, <2>1, <4>4
    <3> QED BY <3>1, <3>2
  <2>2. CASE ToHandle' \in {ToHandle, ToHandle \o old} /\ ManagerFrame'[id] = <<>>
    <3>1. PICK none : none = <<>> /\ EndsLast(none, q) /\ OnlyAnswers(none, q)
      BY ContentsFew, FollowedFew DEF EndsLast, OnlyAnswers
    <3>2. Properly(ToHandle, none)
      BY <2>0, <3>1
    <3>3. EndsLast(ToHandle \o old, q) /\ (OnlyAnswers(ToHandle \o old, q) <=> OnlyAnswers(ToHandle, q)
            /\ OnlyAnswers(old, q))
      BY <1>2, <1>7, <2>0, EndsLastConcat
    <3>4. Properly(ToHandle \o old, none)
      BY <2>0, <3>1, <3>3
    <3> HIDE DEF Properly
    <3> QED BY <1>6, <1>9, <2>2, <3>1, <3>2, <3>4
  <2> QED BY <1>1, <1>7, <2>1, <2>2 DEF Says
<1> QED BY <1>8, <1>9

(* What is not in the budget any more is not asked for.                  *)
LEMMA Unpaid ==
  ASSUME NEW id \in ManagedIDs, NEW asked \in {<<>>} \cup { <<m>> : m \in Requests(id) }, NEW said,
         Speech(id, said, asked), Pays(asked), NEW op \in RequestTypes, budget[op] = 0
  PROVE  budget'[op] = 0 /\ \A m \in Contents(said) : m.type # op
<1>1. ASSUME NEW m \in Requests(id) PROVE m.type # op
  BY <1>1, RequestsType
<1>2. \A m \in Contents(asked) : m.type # op
  BY <1>1, ContentsFew
<1>3. ASSUME NEW m \in Contents(said), m.type = op PROVE FALSE
  <2>1. m.type \notin {"ShutdownSelfResponse", "RescheduleProcess", "ReleaseMailboxResponse"}
    BY <1>3 DEF RequestTypes
  <2>2. m \in Requests(id)
    BY <2>1, SpeechParts DEF CShutdownSelfResponse, CRescheduleProcessMessage, About, CReleaseMailboxResponse
  <2> QED BY <1>1, <1>3, <2>2
<1> QED BY <1>2, <1>3 DEF Pays

(* A step of a process asks for no shutdown that is not in the budget.   *)
LEMMA HaltProcess ==
  ASSUME TypeOK, HaltInv, NEW id \in ManagedIDs, Process_Step(id)
  PROVE  HaltInv'
<1>0. UNCHANGED <<State, NextID, ProcessRecords, PersistentGetRequests>>
  BY DEF Process_Step, managerVars
<1>1. \A p : Leaving(p)' <=> Leaving(p)
  BY <1>0 DEF Leaving, Closing, Closed, Gone
<1>2. PICK said \in Seq(Message), asked \in {<<>>} \cup { <<m>> : m \in Requests(id) } :
        Says(id, said) /\ Speech(id, said, asked) /\ Pays(asked)
  BY ProcessSays
<1>3. /\ Contents(ToHandle') \subseteq Contents(ToHandle) \cup Contents(ManagerFrame[id])
      /\ \A j \in ManagedIDs : Contents(ManagerFrame'[j]) \subseteq Contents(ManagerFrame[j]) \cup Contents(said)
  BY <1>2, SaidContents
<1>4. ASSUME NoHalt PROVE NoHalt'
  <2>1. budget'["ShutdownManager"] = 0 /\ ~Halts(said)
    BY <1>2, <1>4, Unpaid DEF NoHalt, Halts, RequestTypes
  <2>2. ~Halts(ToHandle') /\ \A j \in ManagedIDs : ~Halts(ManagerFrame'[j])
    BY <1>3, <1>4, <2>1 DEF NoHalt, Halts
  <2> QED BY <2>1, <2>2 DEF NoHalt, Halts
<1>5. ASSUME NoTarget PROVE NoTarget'
  <2>1. budget'["ShutdownProcess"] = 0 /\ \A p : ~Shuts(said, p)
    BY <1>2, <1>5, Unpaid DEF NoTarget, Shuts, RequestTypes
  <2>2. ASSUME NEW p \in ProcessIDs PROVE ~Shuts(ToHandle', p) /\ \A j \in ManagedIDs : ~Shuts(ManagerFrame'[j], p)
    BY <1>3, <1>5, <2>1 DEF NoTarget, Target, Shuts
  <2>3. \A p \in ProcessIDs : ~Leaving(p)'
    BY <1>1, <1>5 DEF NoTarget, Target
  <2> QED BY <2>1, <2>2, <2>3 DEF NoTarget, Target, Shuts
<1>6. ASSUME State = "RUNNING" PROVE NoHalt' \/ NoTarget'
  BY <1>4, <1>5, <1>6 DEF HaltInv
<1>7. ASSUME State = "RUNNING", NEW request \in PersistentGetRequests
      PROVE request[1] \in ProcessIDs /\ ~Leaving(request[1])'
  BY <1>1, <1>7 DEF HaltInv
<1> QED BY <1>0, <1>6, <1>7 DEF HaltInv

-----------------------------------------------------------------------------
(* Steps of the manager.                                                 *)

(* Until the manager is done it takes what it has to handle in order.    *)
LEMMA InOrder ==
  ASSUME TypeOK, ExecutionInv, WordInv, Manager_Step
  PROVE  /\ phase # "done" /\ UNCHANGED processVars /\ ToHandle \in Seq(Message)
         /\ \/ ~Handle_Message /\ ToHandle' = ToHandle
            \/ Handle_Message /\ ToHandle # <<>> /\ message = Head(ToHandle) /\ ToHandle' = Tail(ToHandle)
         /\ Contents(ToHandle') \subseteq Contents(ToHandle)
<1> USE IDs
<1>1. Manager_Next /\ UNCHANGED processVars
  BY DEF Manager_Step
<1>2. phase # "done"
  BY <1>1 DEF Manager_Next, Service_Incoming_Frames, Handle_Message, Handle_Get_Mailbox_By_ID_Request,
         Handle_Get_Mailbox_By_Properties_Request, Handle_Add_New_Process_Message, Handle_Shutdown_Process_Message,
         Handle_Reschedule_Process_Message, Handle_Release_Mailbox_Response, Handle_Shutdown_Self_Response,
         Handle_Shutdown_Manager_Message, Handling, Flush_Frame, Flush_Frames_Done, Execute_Process, Service_Shutdown
<1>3. FramesToSend[CONCURRENCY_MANAGER] = <<>>
  BY <1>2 DEF WordInv
<1>4. /\ ToHandle \in Seq(Message)
      /\ \/ ~Handle_Message /\ ToHandle' = ToHandle
         \/ Handle_Message /\ ToHandle # <<>> /\ message = Head(ToHandle) /\ ToHandle' = Tail(ToHandle)
  BY <1>1, <1>3, ManagerTakesFirst
<1>5. Contents(ToHandle') \subseteq Contents(ToHandle)
  BY <1>4, ContentsTail
<1> QED BY <1>1, <1>2, <1>4, <1>5

(* A record goes only because the process says that it has shut down.    *)
LEMMA RecordStays ==
  ASSUME TypeOK, Manager_Next, phase' # "done", NEW q \in EProcessID,
         ~(Handle_Shutdown_Self_Response /\ message.source = q)
  PROVE  (Has_Record(q) => Has_Record(q)') /\ (Dismantled(q)' => Dismantled(q))
<1>0. ProcessRecords \in [EProcessID -> EInternalProcessState \cup {"NO_RECORD"}] /\ NextID \in Int /\ q \in Int
  BY IDs DEF TypeOK, ManagerTypeOK
<1>1. CASE UNCHANGED <<ProcessRecords, NextID>>
  BY <1>1 DEF Has_Record, Dismantled
<1>2. CASE Handle_Add_New_Process_Message /\ ~UNCHANGED <<ProcessRecords, NextID>>
  <2>1. NextID' = NextID + 1 /\ ProcessRecords' = [ProcessRecords EXCEPT ![NextID] = "INITIALIZING"]
    BY <1>2 DEF Handle_Add_New_Process_Message
  <2> QED BY <1>0, <2>1 DEF Has_Record, Dismantled
<1>3. CASE Handle_Shutdown_Process_Message
  <2>1. NextID' = NextID /\ (Has_Record(q) <=> Has_Record(q)')
    BY <1>0, <1>3 DEF Handle_Shutdown_Process_Message, Initiate_Process_Shutdown, Has_Record
  <2> QED BY <2>1 DEF Dismantled
<1>4. CASE Handle_Release_Mailbox_Response
  <2>1. NextID' = NextID /\ (Has_Record(q) <=> Has_Record(q)')
    BY <1>0, <1>4 DEF Handle_Release_Mailbox_Response, Finished, Released, Has_Record
  <2> QED BY <2>1 DEF Dismantled
<1>5. CASE Handle_Shutdown_Self_Response
  <2>1. NextID' = NextID /\ (Has_Record(q) <=> Has_Record(q)')
    BY <1>0, <1>5 DEF Handle_Shutdown_Self_Response, Has_Record
  <2> QED BY <2>1 DEF Dismantled
<1>6. CASE \E id \in ManagedIDs : Execute_Process(id)
  <2>1. PICK id \in ManagedIDs : Execute_Process(id)
    BY <1>6
  <2>2. NextID' = NextID /\ (Has_Record(q) <=> Has_Record(q)')
    BY <1>0, <2>1 DEF Execute_Process, Has_Record
  <2> QED BY <2>2 DEF Dismantled
<1>7. CASE Service_Shutdown
  BY <1>1, <1>7 DEF Service_Shutdown
<1>8. CASE \/ Service_Incoming_Frames \/ Handle_Get_Mailbox_By_ID_Request
           \/ Handle_Get_Mailbox_By_Properties_Request \/ Handle_Reschedule_Process_Message
           \/ Handle_Shutdown_Manager_Message \/ (\E id \in EProcessID : Flush_Frame(id)) \/ Flush_Frames_Done
  BY <1>1, <1>8 DEF Service_Incoming_Frames, Handle_Get_Mailbox_By_ID_Request,
     Handle_Get_Mailbox_By_Properties_Request, Handle_Reschedule_Process_Message,
     Handle_Shutdown_Manager_Message, Flush_Frame, Flush_Frames_Done
<1> QED BY <1>1, <1>2, <1>3, <1>4, <1>5, <1>6, <1>7, <1>8 DEF Manager_Next, Handle_Message

(* The manager handles only what it is asked within FairUse.             *)
LEMMA RequestsManager ==
  ASSUME TypeOK, ExecutionInv, WordInv, RequestsInv, Manager_Step
  PROVE  RequestsInv'
<1>1. Contents(ToHandle') \subseteq Contents(ToHandle) /\ ManagerFrame' = ManagerFrame
  BY InOrder DEF processVars
<1>2. \A m : Sayable(m)' <=> Sayable(m)
  BY DEF Sayable
<1> QED BY <1>1, <1>2 DEF RequestsInv

(* What a step of the manager does to the frame for a process, and that  *)
(* what it adds to it is fit to be sent.                                 *)
LEMMA ManagerFits ==
  ASSUME TypeOK, HandleInv, TargetInv, OrderInv, Manager_Next, phase # "done", NEW q \in EProcessID
  PROVE  \/ /\ Flush_Frame(q) /\ FramesToSend'[q] = <<>>
            /\ mailbox'[q] = mailbox[q] \o FramesToSend[q]
         \/ /\ q # CONCURRENCY_MANAGER => mailbox'[q] = mailbox[q]
            /\ \E new \in Seq(Message) : FramesToSend'[q] = FramesToSend[q] \o new /\ Fit(q, new)
<1> USE IDs
<1>0. FramesToSend \in [EProcessID -> Seq(Message)]
  BY DEF TypeOK, ManagerTypeOK
<1> DEFINE Added == \E new \in Seq(Message) : FramesToSend'[q] = FramesToSend[q] \o new /\ Fit(q, new)
<1>1. ASSUME State = "RUNNING" /\ Handle_Message, NEW sent \in Seq(Message), Sends(q, sent) PROVE Added
  <2>1. FramesToSend'[q] = FramesToSend[q] \o sent
    BY <1>1 DEF Sends
  <2>2. Fit(q, sent)
    BY <1>1, HandlerFits DEF OrderInv
  <2> QED BY <2>1, <2>2
<1>2. ASSUME FramesToSend'[q] = FramesToSend[q] PROVE Added
  <2> DEFINE frame == FramesToSend[q]  none == <<>>
  <2>1. frame \in Seq(Message) /\ none \in Seq(Message)
    BY <1>0
  <2>2. Fit(q, none)
    BY ContentsFew, FollowedFew DEF Fit, TellsOnce
  <2>3. FramesToSend'[q] = frame
    BY <1>2
  <2>4. frame \o none = frame
    BY <2>1
  <2> HIDE DEF none, frame
  <2>5. \E new \in Seq(Message) : FramesToSend'[q] = frame \o new /\ Fit(q, new)
    BY <2>1, <2>2, <2>3, <2>4
  <2> QED BY <2>5 DEF frame
<1>3. ASSUME Service_Shutdown, State' = "SHUTTING_DOWN_PHASE2", State # State',
             FramesToSend' = Send_Process_Message({LOGGING}, CShutdownSelfRequest(TRUE))
      PROVE  Added
  <2> DEFINE told == CShutdownSelfRequest(TRUE)  new == <<told>>
  <2>1. told \in Message
    BY Constructors
  <2>2. new \in Seq(Message)
    <3> HIDE DEF told
    <3> QED BY <2>1
  <2>3. /\ q # LOGGING => FramesToSend'[q] = FramesToSend[q]
        /\ q = LOGGING => FramesToSend'[q] = FramesToSend[q] \o new
    <3> HIDE DEF told
    <3>1. FramesToSend' = Send_Process_Message({LOGGING}, told)
      BY <1>3 DEF told
    <3> QED BY <2>1, <3>1, SentIsAdded
  <2>4. CASE q # LOGGING
    BY <1>2, <2>3, <2>4
  <2>5. CASE q = LOGGING
    <3>1. ~Tells(mailbox[LOGGING]) /\ ~Is_Shutting_Down(LOGGING) /\ FramesToSend[LOGGING] = <<>>
      BY <1>3 DEF OrderInv, ToldInv
    <3>2. Has_Record(LOGGING)
      <4>1. LOGGING < NextID
        BY DEF TypeOK, ManagerTypeOK
      <4> QED BY <3>1, <4>1 DEF OrderInv, WordInv, LastWord, Dismantled
    <3>3. Has_Record(LOGGING)'
      BY <1>3, <3>2 DEF Service_Shutdown, Has_Record
    <3>4. TellsOnce(new) /\ \A m \in Contents(new) : Handable(m)
      BY ContentsFew, FollowedFew DEF TellsOnce, Handable, CShutdownSelfRequest
    <3>5. Fit(q, new)
      BY <1>3, <2>5, <3>1, <3>3, <3>4, EmptySaysNothing DEF Fit
    <3> HIDE DEF new
    <3> QED BY <2>2, <2>3, <2>5, <3>5
  <2> QED BY <2>4, <2>5
<1> HIDE DEF Added
<1>4. CASE Flush_Frame(q) /\ FramesToSend'[q] = <<>> /\ mailbox'[q] = mailbox[q] \o FramesToSend[q]
  BY <1>4
<1> QED BY <1>1, <1>2, <1>3, <1>4, ManagerMail DEF Added

(* In a step of the manager no one is told to shut down twice.           *)
LEMMA ToldManager ==
  ASSUME TypeOK, ExecutionInv, HandleInv, Begun, TargetInv, OrderInv, Manager_Step
  PROVE  ToldInv'
<1> USE IDs
<1>0. /\ mailbox \in [EProcessID -> Seq(Message)] /\ FramesToSend \in [EProcessID -> Seq(Message)]
      /\ Manager_Next /\ UNCHANGED processVars /\ phase # "done"
  BY InOrder DEF OrderInv, Manager_Step, TypeOK, SharedTypeOK, ManagerTypeOK
<1>1. ASSUME NEW q \in ManagedIDs
      PROVE  ToldOnce(q)' /\ \A m \in Contents(mailbox'[q]) \cup Contents(FramesToSend'[q]) : Handable(m)
  <2>0. /\ ToldOnce(q) /\ \A m \in Contents(mailbox[q]) \cup Contents(FramesToSend[q]) : Handable(m)
        /\ Is_Shutting_Down(q)' <=> Is_Shutting_Down(q)
    BY <1>0 DEF OrderInv, ToldInv, Is_Shutting_Down, processVars
  <2> DEFINE frame == FramesToSend[q]  mail == mailbox[q]
  <2>1. frame \in Seq(Message) /\ mail \in Seq(Message)
    BY <1>0
  <2>2. /\ TellsOnce(mail) /\ TellsOnce(frame) /\ (Tells(mail) => ~Is_Shutting_Down(q))
        /\ Tells(mail) \/ Is_Shutting_Down(q) => frame = <<>>
        /\ \A m \in Contents(mail) \cup Contents(frame) : Handable(m)
    BY <2>0 DEF ToldOnce
  <2> HIDE DEF frame, mail
  <2>3. CASE Flush_Frame(q) /\ FramesToSend'[q] = <<>> /\ mailbox'[q] = mail \o frame
    <3>1. frame # <<>>
      BY <2>3 DEF Flush_Frame, Unsent, frame
    <3>2. Contents(mail \o frame) = Contents(mail) \cup Contents(frame)
      BY <2>1, ContentsConcat
    <3>3. ~Tells(mail) /\ ~Is_Shutting_Down(q)
      BY <2>2, <3>1
    <3>4. \A m \in Contents(mail) : m \notin Tellings
      BY <3>3 DEF Tells, Tellings
    <3>5. TellsOnce(mail \o frame)
      BY <2>1, <2>2, <3>4, FollowedConcat DEF TellsOnce
    <3>6. TellsOnce(<<>>) /\ \A m \in Contents(<<>>) : Handable(m)
      BY FollowedFew, ContentsFew DEF TellsOnce
    <3>7. ToldOnce(q)'
      BY <2>0, <2>3, <3>3, <3>5, <3>6 DEF ToldOnce, TellsOnce
    <3> QED BY <2>2, <2>3, <3>2, <3>6, <3>7
  <2>4. ASSUME NEW new \in Seq(Message), mailbox'[q] = mail, FramesToSend'[q] = frame \o new, Fit(q, new)
        PROVE  ToldOnce(q)' /\ \A m \in Contents(mailbox'[q]) \cup Contents(FramesToSend'[q]) : Handable(m)
    <3>1. Contents(frame \o new) = Contents(frame) \cup Contents(new)
      BY <2>1, ContentsConcat
    <3>2. CASE new = <<>>
      <4>1. FramesToSend'[q] = frame
        BY <2>1, <2>4, <3>2
      <4> QED BY <2>0, <2>2, <2>4, <4>1 DEF ToldOnce, TellsOnce
    <3>3. CASE new # <<>>
      <4>1. ~Tells(mail) /\ ~Tells(frame) /\ ~Is_Shutting_Down(q) /\ TellsOnce(new) /\ \A m \in Contents(new) : Handable(m)
        BY <2>4, <3>3 DEF Fit, mail, frame
      <4>2. \A m \in Contents(frame) : m \notin Tellings
        BY <4>1 DEF Tells, Tellings
      <4>3. TellsOnce(frame \o new)
        BY <2>1, <2>2, <4>1, <4>2, FollowedConcat DEF TellsOnce
      <4> QED BY <2>0, <2>2, <2>4, <3>1, <4>1, <4>3 DEF ToldOnce, TellsOnce
    <3> QED BY <3>2, <3>3
  <2> QED BY <1>0, <2>3, <2>4, ManagerFits DEF OrderInv, frame, mail
<1>2. ASSUME State' # "SHUTTING_DOWN_PHASE2"
      PROVE  ~Tells(mailbox'[LOGGING]) /\ ~Is_Shutting_Down(LOGGING)' /\ FramesToSend'[LOGGING] = <<>>
  <2>1. State # "SHUTTING_DOWN_PHASE2"
    <3>1. CASE Handle_Shutdown_Manager_Message
      BY <1>2, <3>1 DEF Handle_Shutdown_Manager_Message, Is_Manager_Shutting_Down
    <3>2. CASE Service_Shutdown
      BY <1>2, <3>2 DEF Service_Shutdown
    <3>3. CASE ~Handle_Shutdown_Manager_Message /\ ~Service_Shutdown
      <4>1. State' = State
        BY <1>0, <3>3 DEF Manager_Next, Service_Incoming_Frames, Handle_Message, Handle_Get_Mailbox_By_ID_Request,
           Handle_Get_Mailbox_By_Properties_Request, Handle_Add_New_Process_Message, Handle_Shutdown_Process_Message,
           Handle_Reschedule_Process_Message, Handle_Release_Mailbox_Response, Handle_Shutdown_Self_Response,
           Flush_Frame, Flush_Frames_Done, Execute_Process
      <4> QED BY <1>2, <4>1
    <3> QED BY <3>1, <3>2, <3>3
  <2>2. ~Tells(mailbox[LOGGING]) /\ ~Is_Shutting_Down(LOGGING) /\ FramesToSend[LOGGING] = <<>>
    BY <2>1 DEF OrderInv, ToldInv
  <2>3. ~Flush_Frame(LOGGING)
    BY <2>2 DEF Flush_Frame, Unsent
  <2>4. PICK new \in Seq(Message) : mailbox'[LOGGING] = mailbox[LOGGING] /\ Fit(LOGGING, new)
                                    /\ FramesToSend'[LOGGING] = FramesToSend[LOGGING] \o new
    BY <1>0, <2>3, ManagerFits
  <2>5. new = <<>>
    BY <1>2, <2>4 DEF Fit
  <2>6. FramesToSend'[LOGGING] = <<>>
    BY <2>2, <2>4, <2>5
  <2> QED BY <1>0, <2>2, <2>4, <2>6 DEF Is_Shutting_Down, processVars
<1>3. \A m : Handable(m)' <=> Handable(m)
  BY DEF Handable
<1> QED BY <1>1, <1>2, <1>3 DEF ToldInv

(* In a step of the manager: a record goes when its process has said its  *)
(* last but for its answers, and what is to be sent to it has been.       *)
LEMMA WordManager ==
  ASSUME TypeOK, ExecutionInv, AssertionInv, HandleInv, TargetInv, OrderInv, Manager_Step
  PROVE  WordInv'
<1> USE IDs
<1>0. Manager_Next /\ UNCHANGED processVars /\ phase # "done" /\ ToHandle \in Seq(Message)
  BY InOrder DEF OrderInv, Manager_Step
<1> SUFFICES ASSUME phase' # "done"
             PROVE  /\ \A q \in ManagedIDs : LastWord(q)'
                    /\ \A q \in EProcessID : FramesToSend'[q] # <<>> => q \in ManagedIDs /\ Has_Record(q)'
  BY DEF WordInv
<1>1. /\ \/ ~Handle_Message /\ ToHandle' = ToHandle
         \/ Handle_Message /\ ToHandle # <<>> /\ message = Head(ToHandle) /\ ToHandle' = Tail(ToHandle)
      /\ Contents(ToHandle') \subseteq Contents(ToHandle)
  BY InOrder DEF OrderInv
<1>2. ASSUME NEW q \in ManagedIDs PROVE LastWord(q)'
  <2>0. /\ LastWord(q) /\ ManagerFrame'[q] = ManagerFrame[q]
        /\ Is_Shutting_Down(q)' <=> Is_Shutting_Down(q)
    BY <1>0 DEF OrderInv, WordInv, Is_Shutting_Down, processVars
  <2>1. EndsLast(ToHandle', q)
    <3>1. EndsLast(ToHandle, q)
      BY <2>0 DEF LastWord
    <3>2. ToHandle # <<>> => EndsLast(Tail(ToHandle), q)
      BY <1>0, <3>1, FollowedTail DEF EndsLast
    <3> QED BY <1>1, <3>1, <3>2
  <2>2. /\ Ends(ToHandle', q) => Ends(ToHandle, q)
        /\ OnlyAnswers(ToHandle, q) => OnlyAnswers(ToHandle', q)
    BY <1>1 DEF Ends, OnlyAnswers
  <2>3. ASSUME Dismantled(q)'
        PROVE  Is_Shutting_Down(q) /\ OnlyAnswers(ManagerFrame[q], q) /\ OnlyAnswers(ToHandle', q)
    <3>1. CASE Dismantled(q)
      BY <2>0, <2>2, <3>1 DEF LastWord
    <3>2. CASE ~Dismantled(q)
      <4>1. Handle_Shutdown_Self_Response /\ message.source = q
        BY <1>0, <2>3, <3>2, RecordStays
      <4>2. message = Head(ToHandle) /\ ToHandle' = Tail(ToHandle) /\ ToHandle # <<>>
        BY <1>1, <4>1 DEF Handle_Message
      <4>3. message \in Contents(ToHandle) /\ message \in Endings(q)
        <5>1. message \in Contents(ToHandle)
          BY <1>0, <4>2, ContentsTail
        <5>2. message \in Message
          BY <1>0, <5>1, ContentsType
        <5>3. message.type = "ShutdownSelfResponse"
          BY <4>1 DEF Handle_Shutdown_Self_Response, Handling, message
        <5> QED BY <4>1, <5>1, <5>2, <5>3 DEF Endings
      <4>4. Ends(ToHandle, q) /\ OnlyAnswers(ManagerFrame[q], q)
        BY <2>0, <4>3 DEF Ends, Endings, LastWord
      <4>5. OnlyAnswers(ToHandle', q)
        BY <1>0, <2>0, <4>2, <4>3, FollowedTail DEF LastWord, EndsLast, OnlyAnswers
      <4>6. Is_Shutting_Down(q)
        BY <4>4 DEF AssertionInv, Fits, Ends
      <4> QED BY <4>4, <4>5, <4>6
    <3> QED BY <3>1, <3>2
  <2> QED BY <2>0, <2>1, <2>2, <2>3 DEF LastWord
<1>3. ASSUME NEW q \in EProcessID, FramesToSend'[q] # <<>> PROVE q \in ManagedIDs /\ Has_Record(q)'
  <2>1. PICK new \in Seq(Message) : FramesToSend'[q] = FramesToSend[q] \o new /\ Fit(q, new)
    BY <1>0, <1>3, ManagerFits
  <2>2. CASE new # <<>>
    BY <2>1, <2>2 DEF Fit
  <2>3. CASE new = <<>>
    <3>1. FramesToSend[q] # <<>>
      BY <1>3, <2>1, <2>3
    <3>2. q \in ManagedIDs /\ Has_Record(q)
      BY <1>0, <3>1 DEF OrderInv, WordInv
    <3>3. ~Is_Shutting_Down(q)
      BY <3>1, <3>2 DEF OrderInv, ToldInv, ToldOnce
    <3>4. ASSUME Handle_Shutdown_Self_Response, message.source = q PROVE FALSE
      <4>1. message = Head(ToHandle) /\ ToHandle # <<>>
        BY <1>1, <3>4 DEF Handle_Message
      <4>2. message \in Contents(ToHandle)
        BY <1>0, <4>1, ContentsTail
      <4>3. message.type = "ShutdownSelfResponse"
        BY <3>4 DEF Handle_Shutdown_Self_Response, Handling, message
      <4> QED BY <3>3, <3>4, <4>2, <4>3 DEF AssertionInv, Fits
    <3> QED BY <1>0, <3>2, <3>4, RecordStays
  <2> QED BY <2>2, <2>3
<1> QED BY <1>2, <1>3

(* In a step of the manager no one asks for a shutdown, and who leaves no *)
(* longer asks for mailboxes.                                            *)
LEMMA HaltManager ==
  ASSUME TypeOK, ExecutionInv, HandleInv, Begun, OrderInv, Manager_Step
  PROVE  HaltInv'
<1> SUFFICES ASSUME State' = "RUNNING"
             PROVE  /\ NoHalt' \/ NoTarget'
                    /\ \A request \in PersistentGetRequests' : request[1] \in ProcessIDs /\ ~Leaving(request[1])'
  BY DEF HaltInv
<1>0. Manager_Next /\ UNCHANGED processVars /\ Contents(ToHandle') \subseteq Contents(ToHandle)
  BY InOrder DEF OrderInv, Manager_Step
<1>1. State = "RUNNING"
  BY <1>0, RecordsLive
<1>2. ManagerFrame' = ManagerFrame /\ budget' = budget
  BY <1>0 DEF processVars
<1>3. NoHalt' \/ NoTarget'
  <2>1. CASE NoHalt
    BY <1>0, <1>2, <2>1 DEF NoHalt, Halts
  <2>2. CASE NoTarget
    <3>1. \A p \in ProcessIDs : ~Target(p)'
      BY <2>2, NoNewTargets DEF NoTarget
    <3> QED BY <1>2, <2>2, <3>1 DEF NoTarget
  <2> QED BY <1>1, <2>1, <2>2 DEF OrderInv, HaltInv
<1>4. ASSUME NEW request \in PersistentGetRequests', request \in PersistentGetRequests
      PROVE  request[1] \in ProcessIDs /\ ~Leaving(request[1])'
  <2>1. PICK p \in ProcessIDs : p = request[1] /\ ~Leaving(p)
    BY <1>1, <1>4 DEF OrderInv, HaltInv
  <2>2. ASSUME Leaving(p)' PROVE FALSE
    <3>1. Handle_Shutdown_Process_Message /\ p = message.id
      BY <1>0, <2>1, <2>2, AskedToLeave
    <3>2. CASE Initiate_Process_Shutdown(message.id)
      BY <1>4, <2>1, <3>1, <3>2 DEF Initiate_Process_Shutdown
    <3>3. CASE ~Initiate_Process_Shutdown(message.id)
      <4>1. UNCHANGED <<ProcessRecords, NextID>>
        BY <3>1, <3>3 DEF Handle_Shutdown_Process_Message
      <4> QED BY <2>1, <2>2, <4>1 DEF Leaving, Closing, Closed, Gone
    <3> QED BY <3>2, <3>3
  <2> QED BY <2>1, <2>2
<1>5. ASSUME NEW request \in PersistentGetRequests', request \notin PersistentGetRequests
      PROVE  request[1] \in ProcessIDs /\ ~Leaving(request[1])'
  <2>1. Handle_Get_Mailbox_By_Properties_Request
    BY <1>0, <1>5 DEF Manager_Next, Service_Incoming_Frames, Handle_Message, Handle_Get_Mailbox_By_ID_Request,
       Handle_Add_New_Process_Message, Handle_Shutdown_Process_Message, Initiate_Process_Shutdown,
       Handle_Reschedule_Process_Message, Handle_Release_Mailbox_Response, Handle_Shutdown_Self_Response,
       Handle_Shutdown_Manager_Message, Flush_Frame, Flush_Frames_Done, Execute_Process, Service_Shutdown
  <2>2. PICK p : p = message.source
    OBVIOUS
  <2>3. /\ request[1] = p /\ ~Is_Process_Shutting_Down(p) /\ UNCHANGED <<ProcessRecords, NextID>>
    BY <1>5, <2>1, <2>2 DEF Handle_Get_Mailbox_By_Properties_Request
  <2>4. p \in ProcessIDs /\ Has_Record(p)
    <3>1. Handle_Message /\ message.type \in RequestTypes
      BY <2>1 DEF Handle_Message, Handle_Get_Mailbox_By_Properties_Request, Handling, message, RequestTypes
    <3> QED BY <1>1, <2>2, <3>1, RequestersExist DEF OrderInv
  <2>5. ~Leaving(p)'
    BY <2>3, <2>4 DEF Leaving, Closing, Closed, Gone, Is_Process_Shutting_Down, Has_Record
  <2> QED BY <2>3, <2>4, <2>5
<1> QED BY <1>3, <1>4, <1>5

(* Every step keeps the order.                                           *)
LEMMA OrderNext ==
  ASSUME FairUse
  PROVE  TypeOK /\ ExecutionInv /\ AssertionInv /\ HandleInv /\ Begun /\ TargetInv /\ OrderInv /\ [Next]_vars
           => OrderInv'
<1> SUFFICES ASSUME TypeOK, ExecutionInv, AssertionInv, HandleInv, Begun, TargetInv, OrderInv, [Next]_vars
             PROVE  OrderInv'
  OBVIOUS
<1>0. RequestsInv /\ ToldInv /\ WordInv /\ HaltInv /\ LateRequests = FALSE
  BY DEF OrderInv, FairUse
<1>1. CASE Manager_Step
  BY <1>0, <1>1, RequestsManager, ToldManager, WordManager, HaltManager DEF OrderInv
<1>2. CASE \E id \in ManagedIDs : Process_Step(id)
  BY <1>0, <1>2, RequestsProcess, ToldProcess, WordProcess, HaltProcess DEF OrderInv
<1>3. CASE UNCHANGED <<mailbox, tbbQueue, threads, managerVars, processVars>>
  <2>1. UNCHANGED <<State, phase, NextID, ProcessRecords, PersistentGetRequests, FramesToSend, control_frames, mailbox,
                    ManagerFrame, processState, budget>>
    BY <1>3 DEF managerVars, processVars
  <2>2. ToHandle' = ToHandle
    BY <2>1 DEF ToHandle
  <2>3. /\ \A q : (Is_Shutting_Down(q)' <=> Is_Shutting_Down(q)) /\ (Dismantled(q)' <=> Dismantled(q))
        /\ \A q : (Has_Record(q)' <=> Has_Record(q)) /\ (Leaving(q)' <=> Leaving(q))
    BY <2>1 DEF Is_Shutting_Down, Dismantled, Has_Record, Leaving, Closing, Closed, Gone
  <2>4. \A q : Target(q)' <=> Target(q)
    BY <2>1, <2>2, <2>3 DEF Target, Shuts
  <2>5. RequestsInv'
    BY <1>0, <2>1, <2>2 DEF RequestsInv, Sayable
  <2>6. ToldInv'
    <3>1. \A q : ToldOnce(q)' <=> ToldOnce(q)
      BY <2>1, <2>3 DEF ToldOnce, Tells, TellsOnce
    <3> QED BY <1>0, <2>1, <2>3, <3>1 DEF ToldInv, Handable, Tells
  <2>7. WordInv'
    <3>1. \A q : LastWord(q)' <=> LastWord(q)
      BY <2>1, <2>2, <2>3 DEF LastWord, EndsLast, OnlyAnswers, Ends
    <3> QED BY <1>0, <2>1, <2>3, <3>1 DEF WordInv
  <2>8. HaltInv'
    BY <1>0, <2>1, <2>2, <2>3, <2>4 DEF HaltInv, NoHalt, NoTarget, Halts
  <2> QED BY <2>5, <2>6, <2>7, <2>8 DEF OrderInv
<1> QED BY <1>1, <1>2, <1>3 DEF Next, Fatal_Assert, Ended, vars, sharedVars

(* No assertion can fail.                                                *)
LEMMA NothingFails ==
  ASSUME TypeOK, ExecutionInv, AssertionInv, HandleInv, ReleaseInv, OrderInv
  PROVE  ManagerFailures \cup UNION { ProcessFailures(id) : id \in ManagedIDs } = {}
<1> USE IDs
<1> SUFFICES ASSUME NEW f \in ManagerFailures \cup UNION { ProcessFailures(id) : id \in ManagedIDs } PROVE FALSE
  OBVIOUS
<1>1. f \notin {"Add_Execute_Task", "~CProcessRecord", "Handle_Release_Mailbox_Response"}
  BY AssertionsFailing, ReleaseFailing
<1>2. \A id \in ManagedIDs : mailbox[id] \in Seq(Message) /\ \A m \in Contents(mailbox[id]) : Handable(m)
  BY DEF TypeOK, SharedTypeOK, OrderInv, ToldInv
<1>3. ASSUME NEW id \in ManagedIDs, f \in ProcessFailures(id) PROVE FALSE
  <2>1. CASE f = "Handle_Shutdown_Self_Request"
    <3>1. PICK i, j \in DOMAIN mailbox[id] : /\ i # j
                                             /\ mailbox[id][i].type = "ShutdownSelfRequest"
                                             /\ mailbox[id][j].type = "ShutdownSelfRequest"
      BY <1>3, <2>1 DEF ProcessFailures
    <3>2. i \in Int /\ j \in Int /\ mailbox[id][i] \in Tellings /\ mailbox[id][j] \in Tellings
      <4>1. mailbox[id][i] \in Message /\ mailbox[id][j] \in Message
        BY <1>2, <3>1, ContentsType DEF Contents
      <4>2. i \in Int /\ j \in Int
        BY <1>2, <3>1
      <4> QED BY <3>1, <4>1, <4>2 DEF Tellings
    <3>3. TellsOnce(mailbox[id])
      BY DEF OrderInv, ToldInv, ToldOnce
    <3> QED BY <3>1, <3>2, <3>3 DEF TellsOnce, Followed
  <2>2. CASE f \in {"Handle_Add_Mailbox_Message", "null mailbox"}
    <3>1. PICK p \in {INVALID, CONCURRENCY_MANAGER, LOGGING} : p \in Added_Mailboxes(id)
      BY <1>3, <2>2 DEF ProcessFailures
    <3>2. PICK m \in Contents(mailbox[id]) : m.type = "AddMailbox" /\ p \in m.ids
      BY <3>1 DEF Added_Mailboxes, Incoming
    <3>3. p \in ProcessIDs
      BY <1>2, <3>2 DEF Handable
    <3> QED BY <3>1, <3>3 DEF ProcessIDs
  <2> QED BY <1>3, <2>1, <2>2 DEF ProcessFailures
<1>4. ASSUME f \in ManagerFailures PROVE FALSE
  <2>1. CASE f = "Flush_Frames"
    <3>1. phase = "handle" /\ \E q \in Unsent : ~Has_Record(q)
      BY <1>4, <2>1 DEF ManagerFailures
    <3> QED BY <3>1 DEF OrderInv, WordInv, Unsent
  <2>2. CASE f = "Handle_Shutdown_Self_Response"
    <3>0. PICK m : m = message
      OBVIOUS
    <3>1. /\ phase = "handle" /\ control_frames # <<>> /\ m.type = "ShutdownSelfResponse"
          /\ ProcessRecords[m.source] # "SHUTTING_DOWN_PHASE2"
          /\ ~(Has_Record(m.source) /\ Is_Manager_Shutting_Down)
      BY <1>4, <2>2, <3>0 DEF ManagerFailures, Next_Is
    <3>2. m \in Contents(ToHandle)
      <4>1. control_frames \in Seq(Message)
        BY DEF TypeOK, ManagerTypeOK
      <4>2. m \in Contents(control_frames)
        BY <3>0, <3>1, <4>1, ContentsTail DEF message
      <4> QED BY <4>2, ToHandleContents
    <3>3. PICK q \in ManagedIDs : q = m.source /\ Is_Shutting_Down(q)
      BY <3>1, <3>2 DEF AssertionInv, Fits
    <3>4. ~Dismantled(q)
      <4>1. m \notin Answers(q)
        BY <3>1, <3>3 DEF Answers
      <4> QED BY <3>1, <3>2, <4>1 DEF OrderInv, WordInv, LastWord, OnlyAnswers
    <3>5. CASE State = "RUNNING"
      <4>1. q \in ProcessIDs
        <5>1. q # LOGGING
          BY <3>3, <3>5 DEF OrderInv, ToldInv
        <5> QED BY <5>1 DEF ManagedIDs, ProcessIDs
      <4>2. Closed(q) \/ Gone(q)
        BY <3>3, <3>5, <4>1 DEF HandleInv, RunningInv, Told
      <4> QED BY <3>1, <3>3, <3>4, <4>2 DEF Closed, Gone, Dismantled, Has_Record
    <3>6. CASE State # "RUNNING"
      <4>1. Is_Manager_Shutting_Down
        BY <3>6 DEF TypeOK, ManagerTypeOK, EConcurrencyManagerState, Is_Manager_Shutting_Down
      <4>2. q >= NextID
        <5>1. NextID \in Int /\ q \in Int
          BY DEF TypeOK, ManagerTypeOK
        <5> QED BY <3>1, <3>3, <3>4, <4>1, <5>1 DEF Dismantled
      <4>3. CASE q \in TaskProcesses
        BY <3>3, <4>2, <4>3 DEF ExecutionInv, Unused
      <4>4. CASE q \in ThreadProcesses
        BY <3>3, <4>2, <4>4 DEF AssertionInv, StartsOnce
      <4> QED BY <4>3, <4>4 DEF TaskProcesses
    <3> QED BY <3>5, <3>6
  <2> QED BY <1>1, <1>4, <2>1, <2>2 DEF ManagerFailures
<1> QED BY <1>3, <1>4

(* NoFatalAssert: no assertion of the manager or of a process fails, if   *)
(* the application asks only processes that it has started for mailboxes, *)
(* asks for nothing once it has been told to shut down, and shuts down    *)
(* one process, or the manager, but not both.                             *)
THEOREM NoAssertionFails ==
  ASSUME FairUse
  PROVE  Spec => []NoFatalAssert
<1> DEFINE All == /\ TypeOK /\ ExecutionInv /\ AssertionInv /\ HandleInv /\ Begun
                  /\ TargetInv /\ ReleaseInv /\ OrderInv
<1>1. Init => All /\ NoFatalAssert
  <2>1. Init => TargetInv
    BY AcknowledgementInit DEF FairUse
  <2>2. Init => NoFatalAssert
    BY DEF Init, SharedInit, NoFatalAssert
  <2> QED BY <2>1, <2>2, TypeInit, ExecutionInit, AssertionInit, HandleInit, HandlesInit, ReleaseInit, OrderInit
<1>2. All /\ [Next]_vars => All'
  BY TypeNext, ExecutionNext, AssertionNext, HandleNext, TargetNext, ReleaseNext, OrderNext
<1>3. All /\ NoFatalAssert /\ [Next]_vars => NoFatalAssert'
  <2> SUFFICES ASSUME All, NoFatalAssert, [Next]_vars PROVE NoFatalAssert'
    OBVIOUS
  <2>1. ~Fatal_Assert
    BY NothingFails DEF Fatal_Assert
  <2> QED BY <2>1, FailureStays DEF NoFatalAssert
<1> QED BY <1>1, <1>2, <1>3, PTL DEF Spec
=============================================================================
