--------------------------- MODULE TaskListExecution ---------------------------
(***************************************************************************)
(* Execute_Task_List over a CODBCStatement and its CODBCConnection, with   *)
(* the driver and the database behind them.  A list of tasks is executed   *)
(* as one array of calls; the result sets come back one after the other    *)
(* and are handed to the tasks in order, on the promise that every call    *)
(* selects exactly one.  An error is laid to a task, where that can be     *)
(* told, or to the whole list.                                             *)
(*                                                                         *)
(* The calls are the application's: what each of them does is a choice,    *)
(* made anew whenever it is executed.  Statements are bound without error, *)
(* and no error but that of a transaction breaks the connection.           *)
(***************************************************************************)
EXTENDS Integers, SequencesExt

CONSTANTS
  Task,                  \* the tasks that call procedures
  Text,                  \* the texts of their statements
  TextOf,                \* the text of the statement that executes a task
  WithResults,           \* texts with result sets; the others expect a width of 0
  Behaviours,            \* what calls may do
  UseStatementCaching,   \* whether a connection keeps its statements
  ConnectionBreaks       \* whether the end of a transaction may fail

AllBehaviours == { "good",      \* selects one result set of the expected width
                   "missing",   \* selects none
                   "extra",     \* selects two
                   "wrong",     \* selects one of another width
                   "garbled",   \* selects one whose rows cannot be fetched
                   "raises" }   \* raises an error and has no effect

ASSUME TextAssumption == TextOf \in [Task -> Text] /\ WithResults \subseteq Text
ASSUME BehavioursAssumption == Behaviours \subseteq AllBehaviours /\ Behaviours # {}
ASSUME CachingAssumption == UseStatementCaching \in BOOLEAN /\ ConnectionBreaks \in BOOLEAN

VARIABLES
  connection,         \* CODBCConnection::State
  Statements,         \* Statements[text]: the state of the statement of that text, or "none"
  transaction,        \* the tasks whose effects are in the open transaction
  committed,          \* the tasks whose effects are in the database
  sub_list,           \* the list being executed, or <<>>
  calls,              \* calls[i]: what the call of sub_list[i] does
  stream,             \* what the driver reports of the calls, in order
  CurrentResultSet,   \* how many result sets have been finished
  result,             \* EExecuteDBTaskListResult, or "none" while the list is executed
  first_failed_task,  \* the place in sub_list of the task to blame, or 0
  tried,              \* tasks given parameters since they were last rolled back
  received            \* received[task]: the tasks whose result sets it has been given

executionVars == <<connection, Statements, transaction, committed, sub_list, calls, stream,
                   CurrentResultSet, result, first_failed_task, tried, received>>

Members(list) == { list[i] : i \in DOMAIN list }

(* The elements of a list that are in a set, in the order of the list.     *)
Sublist(list, set) ==
  FlattenSeq([i \in DOMAIN list |-> IF list[i] \in set THEN <<list[i]>> ELSE <<>>])

StatementStates == {"READY", "PROCESS_RESULTS", "RECOVERABLE_ERROR"}
Results == {"SUCCESS", "FAILED_SPECIFIC_TASK", "FAILED_UNKNOWN_TASK"}
Report  == [task : Task, kind : {"ok", "wrong", "garbled", "error"}]

ExecutionTypeOK ==
  /\ connection \in {"CONNECTED", "FATAL_ERROR"}
  /\ Statements \in [Text -> StatementStates \cup {"none"}]
  /\ transaction \in SUBSET Task
  /\ committed \in SUBSET Task
  /\ sub_list \in Seq(Task)
  /\ calls \in Seq(Behaviours)
  /\ stream \in Seq(Report)
  /\ CurrentResultSet \in Nat
  /\ result \in Results \cup {"none"}
  /\ first_failed_task \in Nat
  /\ tried \in SUBSET Task
  /\ received \in [Task -> SUBSET Task]

ExecutionInit ==
  /\ connection = "CONNECTED"
  /\ Statements = [text \in Text |-> "none"]
  /\ transaction = {} /\ committed = {}
  /\ sub_list = <<>> /\ calls = <<>> /\ stream = <<>>
  /\ CurrentResultSet = 0
  /\ result = "none" /\ first_failed_task = 0
  /\ tried = {}
  /\ received = [task \in Task |-> {}]

-----------------------------------------------------------------------------
(* The connection.                                                         *)

(* A cached statement must be ready; without a cache there is always a new *)
(* one.  A new statement is bound, which makes it ready.                   *)
Can_Allocate(text) ==
  connection = "CONNECTED" /\ (UseStatementCaching => Statements[text] \in {"none", "READY"})

Allocate_Statement(text) ==
  /\ Can_Allocate(text)                                        \* FATAL_ASSERTs
  /\ Statements' = [Statements EXCEPT ![text] = "READY"]

Release_Statement(text) ==
  Statements' = IF UseStatementCaching THEN Statements ELSE [Statements EXCEPT ![text] = "none"]

(* Mutants of the next: a rollback commits; a rollback does nothing; that  *)
(* a commit has failed is not noticed.                                     *)
End_Transaction_Commits(commit) ==
  /\ transaction' = {}
  /\ committed' = committed \cup transaction
  /\ UNCHANGED connection
End_Transaction_If_Commit(commit) ==
  /\ transaction' = IF commit THEN {} ELSE transaction
  /\ committed' = IF commit THEN committed \cup transaction ELSE committed
  /\ UNCHANGED connection
End_Transaction_Unchecked(commit) ==
  /\ transaction' = {}
  /\ committed' \in {committed, IF commit THEN committed \cup transaction ELSE committed}
  /\ UNCHANGED connection

(* The end of a transaction may fail.  Then the connection is of no more   *)
(* use, and a commit may or may not have happened; no caller looks.        *)
End_Transaction(commit) ==
  LET done == IF commit THEN committed \cup transaction ELSE committed
  IN /\ connection = "CONNECTED"                               \* FATAL_ASSERT
     /\ transaction' = {}
     /\ \/ committed' = done /\ UNCHANGED connection
        \/ ConnectionBreaks /\ connection' = "FATAL_ERROR" /\ committed' \in {committed, done}

-----------------------------------------------------------------------------
(* What the driver reports of a call.  A call that is to have no result    *)
(* sets selects none or one too many; where it selects none, the driver    *)
(* may report the number of rows it changed, or nothing at all.            *)

Possible(text) == IF text \in WithResults THEN Behaviours ELSE Behaviours \cap {"good", "wrong", "raises"}

Kinds == [good |-> <<"ok">>, missing |-> <<>>, extra |-> <<"ok", "ok">>,
          wrong |-> <<"wrong">>, garbled |-> <<"garbled">>, raises |-> <<"error">>]

Reported(text, behaviour, counted) ==
  IF behaviour = "good" /\ text \notin WithResults /\ ~counted THEN <<>> ELSE Kinds[behaviour]

Reports(list, behaviours, counted) ==
  FlattenSeq([i \in DOMAIN list |->
    LET kinds == Reported(TextOf[list[i]], behaviours[i], counted)
    IN [k \in DOMAIN kinds |-> [task |-> list[i], kind |-> kinds[k]]]])

-----------------------------------------------------------------------------
(* Execute_Task_List.                                                      *)

(* Mutants of the next: rows are counted from 1 on, and the range is, or   *)
(* is not, checked.                                                        *)
Blamed_From_One(list, bad_row) ==
  IF Len(list) = 1 THEN 1 ELSE IF bad_row \in 1 .. Len(list) THEN bad_row ELSE 0
Blamed_Unchecked(list, bad_row) == IF Len(list) = 1 THEN 1 ELSE bad_row

(* The place of the task to blame: the only one, or the one in the row     *)
(* that the statement takes for the bad one, from 0 on; 0 if there is none.*)
Blamed(list, bad_row) ==
  IF Len(list) = 1 THEN 1 ELSE IF bad_row \in 0 .. Len(list) - 1 THEN bad_row + 1 ELSE 0

Extract_Batch_Error(list, bad_row) ==
  /\ first_failed_task' = Blamed(list, bad_row)
  /\ result' = IF Blamed(list, bad_row) = 0 THEN "FAILED_UNKNOWN_TASK" ELSE "FAILED_SPECIFIC_TASK"

UNKNOWN_ROW == -1

(* The driver may report an error of any call at once, with or without its *)
(* row; an error of the first call that it has to report it does.          *)
Execute(list) ==
  LET text == TextOf[list[1]]
  IN /\ sub_list = <<>> /\ list # <<>>
     /\ Statements[text] = "READY"                             \* FATAL_ASSERT
     /\ sub_list' = list
     /\ tried' = tried \cup Members(list)
     /\ CurrentResultSet' = 0
     /\ \E counted \in BOOLEAN :
          /\ calls' \in [DOMAIN list -> Possible(text)]
          /\ text \in WithResults => ~counted
          /\ stream' = Reports(list, calls', counted)
     /\ transaction' = transaction \cup { list[i] : i \in { j \in DOMAIN list : calls'[j] # "raises" } }
     /\ \/ \E i \in DOMAIN list :
             /\ calls'[i] = "raises"
             /\ \A j \in 1 .. i - 1 : calls'[j] # "raises"
             /\ \E bad_row \in {UNKNOWN_ROW, i - 1} : Extract_Batch_Error(list, bad_row)
             /\ Statements' = [Statements EXCEPT ![text] = "RECOVERABLE_ERROR"]
        \/ /\ ~(stream' # <<>> /\ stream'[1].kind = "error")
           /\ Statements' = [Statements EXCEPT ![text] = "PROCESS_RESULTS"]
           /\ UNCHANGED <<result, first_failed_task>>
     /\ UNCHANGED <<connection, committed, received>>

Executing == sub_list # <<>> /\ result = "none"
At        == CurrentResultSet + 1

(* The list has failed; the statement is in state.                         *)
Fails(state, bad_row) ==
  /\ Extract_Batch_Error(sub_list, bad_row)
  /\ Statements' = [Statements EXCEPT ![TextOf[sub_list[1]]] = state]
  /\ UNCHANGED <<connection, transaction, committed, sub_list, calls, stream, CurrentResultSet, tried, received>>

(* More result sets than calls.                                            *)
More_Result_Sets ==
  /\ Executing
  /\ CurrentResultSet = Len(sub_list)
  /\ Fails("PROCESS_RESULTS", UNKNOWN_ROW)

(* The width of the next result set is not the one expected, 0 if there is *)
(* none; or its rows cannot be fetched, which is laid to its number.       *)
Bad_Result_Set ==
  /\ Executing
  /\ CurrentResultSet < Len(sub_list)
  /\ \/ /\ stream = <<>> /\ TextOf[sub_list[1]] \in WithResults
        /\ Fails("RECOVERABLE_ERROR", UNKNOWN_ROW)
     \/ /\ stream # <<>> /\ stream[At].kind = "wrong"
        /\ Fails("RECOVERABLE_ERROR", UNKNOWN_ROW)
     \/ /\ stream # <<>> /\ stream[At].kind = "garbled"
        /\ Fails("RECOVERABLE_ERROR", CurrentResultSet)

(* Mutant of the next: the end of the results is the end of the list.      *)
Every_Set_Is_In(text) == TRUE

(* The last result set there is was that of the last call.                 *)
All_Sets_Are_In(text) == text \notin WithResults \/ At = Len(sub_list)

(* Fetch_Results until the result set is finished, and SQLMoreResults,     *)
(* which may report the error of a call, finish the list or go on.         *)
Finish_Result_Set ==
  LET text  == TextOf[sub_list[1]]
      last  == At >= Len(stream)
      ended(state) == Statements' = [Statements EXCEPT ![text] = state]
  IN /\ Executing
     /\ CurrentResultSet < Len(sub_list)
     /\ stream = <<>> => text \notin WithResults
     /\ stream # <<>> => stream[At].kind = "ok"
     /\ CurrentResultSet' = At
     /\ received' = IF text \in WithResults
                    THEN [received EXCEPT ![sub_list[At]] = @ \cup {stream[At].task}] ELSE received
     /\ \/ /\ last /\ All_Sets_Are_In(text)
           /\ ended("READY")
           /\ result' = "SUCCESS" /\ UNCHANGED first_failed_task
        \/ /\ last /\ ~All_Sets_Are_In(text)               \* fewer result sets than calls
           /\ ended("READY")
           /\ Extract_Batch_Error(sub_list, UNKNOWN_ROW)
        \/ /\ ~last /\ stream[At + 1].kind = "error"
           /\ ended("RECOVERABLE_ERROR")
           /\ Extract_Batch_Error(sub_list, At)
        \/ /\ ~last /\ stream[At + 1].kind # "error"
           /\ UNCHANGED <<Statements, result, first_failed_task>>
     /\ UNCHANGED <<connection, transaction, committed, sub_list, calls, stream, tried>>

Fetch_Results == More_Result_Sets \/ Bad_Result_Set \/ Finish_Result_Set

(* Whoever called Execute_Task_List has what it needs.                     *)
Forget_List ==
  /\ sub_list' = <<>> /\ calls' = <<>> /\ stream' = <<>>
  /\ CurrentResultSet' = 0
  /\ result' = "none" /\ first_failed_task' = 0

(* What tasks received is of interest until they start anew or are done.   *)
Forget_Results(tasks) ==
  /\ tried' = tried \ tasks
  /\ received' = [task \in Task |-> IF task \in tasks THEN {} ELSE received[task]]

(* Lists of one task each, to be tried when nobody can be blamed.          *)
Singles(list) == [i \in DOMAIN list |-> <<list[i]>>]

-----------------------------------------------------------------------------
(* For the properties of those who execute lists.                          *)

Connected            == connection = "CONNECTED"
Faulty(i)            == calls[i] # "good"
Some_Call(behaviour) == \E i \in DOMAIN calls : calls[i] = behaviour
=============================================================================
