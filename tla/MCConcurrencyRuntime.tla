------------------------ MODULE MCConcurrencyRuntime ------------------------
(* Budgets and patterns for the runs of ConcurrencyRuntime. *)
EXTENDS ConcurrencyRuntime

UserProcesses == ProcessIDs
UserPatterns  == {ProcessIDs}

AllFlags  == SUBSET {"return", "forward"}
BothFlags == {{"return", "forward"}}

(* Budgets, named for what the application may do in the run. *)
Nothing    == [op \in RequestTypes \cup {"User"} |-> 0]
NewProcess == [Nothing EXCEPT !["AddNewProcess"] = 1]

Shutdown        == [NewProcess EXCEPT !["ShutdownProcess"] = 1]
ManagerShutdown == [NewProcess EXCEPT !["ShutdownManager"] = 1, !["GetMailboxByID"] = 1]

NoBudget      == {Nothing}
JustShutdown  == {Shutdown}
JustTwo       == {[Shutdown EXCEPT !["ShutdownProcess"] = 2]}
ShutdownTwice == {[Shutdown EXCEPT !["ShutdownManager"] = 1]}
EveryShutdown == {[Shutdown EXCEPT !["ShutdownProcess"] = 2, !["ShutdownManager"] = 1]}

(* One shutdown, of a process, with a request or a message beside it, or of *)
(* the manager.                                                             *)
OneShutdown == {[Shutdown EXCEPT !["GetMailboxByProperties"] = 1],
                [Shutdown EXCEPT !["User"] = 1],
                ManagerShutdown}
=============================================================================
