# Verification of CCGOnline

TLA+ models, model-checking runs and machine-checked proofs about the parts of
`src/CCGOnline/CCGOnline` that carry its logic: the concurrency runtime and the
task scheduler of `IPShared`, the database layer of `IPDatabase`, and two build
tools that keep state in files from run to run, the package manager and the enum
reflector. All paths below are relative to `src/CCGOnline/CCGOnline`.

## The system

The program is a server (and client) built from *virtual processes*. One thread
runs the **concurrency manager** (`IPShared/Concurrency/ConcurrencyManager.cpp`).
It keeps a record for every process: the process object, its mailbox, its state,
and the task that executes it. **Processes** (`ProcessBase.cpp`) come in two
execution modes: a *task process* is executed once by a TBB task and asks to be
executed again (`TaskProcessBase.cpp`); a *thread process* loops on a thread of
its own (`ThreadProcessBase.cpp`). Manager and processes share nothing but
**mailboxes** (`ProcessMailbox.cpp`, `MailboxInterfaces.cpp`), each a locked
queue of *frames*, a frame being the messages one process has for another.

| part | state it keeps | operations | what is hard |
|---|---|---|---|
| concurrency manager | process records, outbound frames, ongoing requests for mailboxes, its own state | eight message handlers, `Flush_Frames`, `Execute_Process`, `Service_Shutdown` | it answers messages of processes that go on running; two shutdown protocols that overlap |
| processes | the mailboxes they hold, those to release, outbound frames, the manager frame, their state | `Run` with three handlers, three flushes | run by TBB workers without a lock; only the protocol of rescheduling keeps two workers apart |
| mailboxes, queues | frames | add, take all | none of their own: every operation is under one lock |
| task scheduler | a heap of tasks by time | submit, remove, service | tasks that execute call the scheduler themselves |
| priority queue | the heap, and each task's index in it | insert, pop, remove by index | the index must follow every swap; removal from the middle |
| time keeper | base time | elapsed seconds | read before it is set |
| logging process | a file | log frames | the last process to end |
| database process | batches in order, pending requests | `Handle_Run_Database_Task_Request`, `Per_Frame_Logic_End` | answers to requesters |
| task batches, simple and compound | pending tasks | `Execute_Tasks` | one failing call spoils a batch: roll back, blame, retry |
| ODBC statement and connection | state machine, cache of statements | execute, fetch, end transaction | errors that leave states the next caller asserts on |
| package manager (`PackageManager/Source`) | a configuration and a manifest file, the installed files; in a run the states of packages and outputs | download, verify, unpack, copy, save | workers in the background; a run that fails or is killed leaves files that the next one trusts |
| enum reflector (`EnumReflector/Source`) | an XML database of headers and enums, a generated source file per project | scan, parse what is newer, bind derived enums, write what differs, save | the incremental result must be that of a clean run, whatever was edited, moved or killed in between |
| enum conversion (`IPShared/EnumConversion.cpp`) | a registry of enums and their entries | register, look up | asserts on what the reflector has generated, when the program starts |
| serialization, slash commands, CRC | tables | parse, format | sequential, tested |
| platform, executables, other tools | | | wrappers, entry points, code generation |

How they interact: an application's process sends the manager requests (new
process, mailbox by id or by properties, shutdown of a process or of the whole
manager, reschedule); the manager answers with `AddMailbox`,
`ReleaseMailboxRequest` and `ShutdownSelfRequest`; processes acknowledge with
`ReleaseMailboxResponse` and `ShutdownSelfResponse`. The manager's scheduler
executes a process by enqueueing a TBB task or starting a thread.

The two build tools run before the compiler does. The package manager brings the
third-party libraries the projects link with. The enum reflector reads the enums
marked in all headers and generates `Register_*_Enums` for every project; the
program calls these when it starts (`IPShared/IPShared.cpp`:52).

## Modules

| module | models | kind |
|---|---|---|
| `Execution` | ids, messages, mailboxes, TBB queue, the failed assertion | shared state |
| `ConcurrencyManager` | `CConcurrencyManager`, one action per handler and per step of the service loop | component |
| `ProcessBase` | `CProcessBase`, `CTaskProcessBase`, `CThreadProcessBase` | component |
| `ConcurrencyRuntime` | manager and processes interleaved; all properties | composition |
| `MailboxHandles` | what the runtime promises of handles to mailboxes | abstract specification |
| `PriorityQueue` | `TPriorityQueue` with the scheduled-task policy, each turn of its loops a step | component |
| `TaskScheduler` | `CTaskScheduler` over the queue | component |
| `Agenda` | what a scheduler promises | abstract specification |
| `TaskListExecution` | `Execute_Task_List`, `CODBCStatement`, `CODBCConnection`, the driver and the database | shared by both batches |
| `DatabaseTaskBatch` | `TDatabaseTaskBatch` | component |
| `DatabaseProcess` | `CDatabaseProcessBase` over its batches; their properties | composition |
| `CompoundTaskBatch` | `TCompoundDatabaseTaskBatch`, `CCompoundDatabaseTaskBase` | component |
| `DatabaseService` | what is promised to those who send requests; implemented by both | abstract specification |
| `PackageManager` | `CPackageManager`, `CPackageInputState`, `CPackageOutputState`, the manifest, the configuration, the workers | component |
| `EnumConverter` | `CEnumConverter`, `CConvertibleEnum`: registration, as operators | component |
| `EnumReflector` | `CEnumReflector` and its three trackers, the XML database, the generated files; the start of a program built from them, with `EnumConverter` | composition |
| `ConcurrencyRuntimeProofs`, `ShutdownProofs` | theorems about the runtime; the second, on top of the first, is about acknowledgements and assertions | proofs |
| `TaskSchedulerProofs` | theorems about the scheduler and its queue | proofs |
| `TaskListExecutionProofs` | lemmas about lists and the execution of one, for both batches | proofs |
| `DatabaseProcessProofs`, `CompoundTaskBatchProofs` | theorems about the database layer | proofs |
| `PackageManagerProofs` | theorems about the package manager | proofs |
| `EnumReflectorProofs` | theorems about the enum reflector | proofs |
| `MCConcurrencyRuntime`, `MCTaskScheduler`, `MCDatabaseProcess`, `MCCompoundTaskBatch`, `MCPackageManager`, `MCEnumReflector` | budgets, tasks, configurations and headers for the runs | instances |

### State and actions against the code

`mailbox[id]` is the process mailbox; frames keep their order and are taken
all at once, so a mailbox is one sequence of messages. A run of `AddMailbox` or
`ReleaseMailboxResponse` messages that goes into one frame is one message with a
set of ids. `FramesToSend` is the manager's `PendingOutboundFrames`;
`control_frames` what it has taken and not handled; `phase` the place in the
service loop. Every message handler is one action; between two of them the
processes run. `Flush_Frame` adds one frame, because a process may be at work
on its frame before the next process has its own.

A process' execution is four steps: `Run` up to the point where the messages
have been handled and the application has acted; one `Flush_Regular_Message`
for each frame; `Handle_Shutdown_Mailboxes`; `Flush_System_Messages`. Each adds
at most one frame to another's mailbox, so no interleaving is lost.
`Reset_Manager_Frame` is the second statement of `Flush_System_Messages` taken
apart, when `InterruptibleFlush` allows it. The thread of a thread process leaves
its loop some time after it has sent its last message (`Leave_Loop`);
`Handle_Shutdown_Self_Response`, which joins it, waits till then.

What the application does is a choice, limited by one of `Budgets`: how many messages of
each kind are sent in a run. A failing `FATAL_ASSERT` sets `failure` and ends
the program (`IPPlatform/DebugAssert` raises); null dereferences count as well.

`heapify` in `PriorityQueue` is the loop under way: `Heapify_Push_Up` and
`Heapify_Push_Down` make one swap a step, so that invariants are stated inside
the loops, where the heap is out of order at one place.

The database layer is sequential inside an iteration of its process; what is
hard are the failures. `Execute` is the execution of a whole list: it chooses
what every call does (`AllBehaviours`) and from it what the driver will report,
`stream`. Each turn of the loop in `Execute_Task_List` is then a step
(`Fetch_Results`), so the state between two result sets is visible. The result
and the task to blame stay in `result` and `first_failed_task` until
`Process_Task_List` (or `Process_Child_Task_List`) acts on them. The recursion of
`Process_Task_List` is `work`, the lists it has still to execute. `transaction`
and `committed` are the database; `received` says whose result sets a task was
given, `tried` which tasks have parameters and were not rolled back.

The build tools are modelled over many runs: `phase` is where the run is,
"stopped" between runs, and what is in files outlives it. `Crash` ends the
process at any step; a file that is being written is `Torn` then.

In `PackageManager` a hash is the version of the content it was computed from,
and the outputs of a package have the version of the package. `Initialize` is
all that the main thread does before it cleans the first destination;
`Clean_Directory` deletes one file a step, and may be given up with files left. Then
every package and every output is serviced in any order, each worker makes one step
per file it copies, and `Download_Worker` gets whatever version the mirror serves. A
file has a version and a length: copied over a longer one it keeps the longer one's
length, with its end. A run that throws
waits for a key with its workers still at work (phase "failed"). `Update_Output_Hashes`
changes the manifest and the configuration in memory; the first is saved at the
end of a run that succeeds, the second in the mode that generates a
configuration. A file that cannot be opened for writing is left as it is, and the
run ends as if it had been ("unsaved"). Two variables are history: `left_over`, the destinations
whose last cleaning was given up, and `put_back`, the outputs that an edit has made
up to date, or moved, and that no run has built since.

In `EnumReflector` a header's text is the sequence of its enum definitions, and a
definition is a name, a base enum, the entry of the base that its first entry is bound
to, and entry names (`Unnamed` for an entry that has no string); parsing turns one into
a record. A base enum without that entry is an error of the run. `headers`, `enums` and `to_write` are dictionaries in the code, which
enumerate in the order of insertion, the database's first: they are sequences,
since the order of the generated calls depends on it. Each header parsed and each
file written is a step, between which the user edits. `newer` is the comparison
of a header's time with the time in the database. `written` and `unsaved` are history.

## Runs

| run | question | bounds |
|---|---|---|
| `Shutdown` | does one shutdown, of a process or of the manager, lose a message, leave a handle, fail an assertion, or stop a process being rescheduled? Does it end, with a thread to join? | 2 processes, one a thread, logging and manager; with the shutdown one new process and one request or message |
| `Overlap` | what survives two shutdowns and that of the manager, late requests and interrupted flushes, up to the failing assertion | 2 processes |
| `LeftoverFrames` | violation: see the findings | 2 processes |
| `LostReschedule` | violation | 1 process and logging |
| `NeverStarted` | violation: with the program's own time keeper | 2 processes |
| `Scheduler` | is the heap in order and indexed at every turn; does the scheduler implement the agenda | 6 tasks, times 0 to 4, granule 2 |
| `ServiceLive` | does a call of `Service` end? | 3 tasks, times 0 to 3, granule 2 |
| `Database` | whatever the calls do: is a request applied once, answered, and answered with the truth? Is the right task blamed, does each task get its own results, is the statement ready again? | 4 tasks of 2 types, lists of 2 or 3 |
| `Compound` | are compound tasks atomic, in order and answered through retries together and one by one? | 3 parents with 7 children of 2 types, lists of 2 parents |
| `PackageSync` | whatever runs failed or were killed before, and whatever version the configuration was set to: is what a run skips really installed, what it reports built really there, what it copies verified? Does a run end? | 2 packages with an output each, 1 destination, 2 versions, 1 download at a time |
| `EnumReflection` | does the incremental run leave the database and the files that a clean run would? Is a run without changes quiet? Does the program start? | 2 headers in 2 projects, 3 enums, 3 texts of the base: two lengths, and without the entry the derived enum is bound to |
| `LateBase` | violation: a base enum that is newer than the enum derived from it | 1 header |

The bounds are `MaxProcessID` (how many ids are given out), `Budgets`, one
interrupted worker for each process, and for the scheduler `MaxTime`. Two
processes, with logging, are enough for every pairwise race of the protocol. Six tasks are the smallest heap in
which the element that fills a gap comes from another branch and belongs
further up. The six tasks are interchangeable and no liveness is checked with
them, so they are symmetric. Three tasks in a list are the fewest for which a
list without its culprit has still more than one, and two sizes are chosen
between because a list of the last tasks is shorter than the batch size; the
type that selects nothing has a batch of its own because what the driver counts
is different. Of three parents two are in one list and the third is alone in
the next; children are added by seeding and by the success of an earlier type.
Two outputs in one destination are enough for an output
that is up to date to be dirtied by one that is not; two versions of different lengths for a file that is copied
over a longer one; two packages with one download at a time for one to wait for
the other. The number of runs is not bounded. An output of several files, and outputs that
move between destinations, need other constants: with `Input = {p}`,
`Destination = {shared, own}`, `PackageOf <- OnePackage`, `FilesOf <- TwoFiles`, `Edits <- AnyEdit` and
`Spec` the invariants hold too (2.5 million states), and the theorems hold for all of them. Two
headers are enough for an enum to move between projects and for a derived enum
in a header that does not change when its base does.

Fairness (`FairSpec`): the operating system goes on running the manager's thread
and the process threads, and TBB begins every enqueued task and lets it finish;
a step that fails an assertion is taken like any other. The database process
goes on with its iteration (`WF_vars(Process_Step)`, `WF_vars(Batch_Step)`), which
is a loop on its own thread or task. In `ServiceLive` the scheduler goes
on with its loops, and every `Execute` returns: strongly fair, because an `Execute` that
calls the scheduler is, in the middle of each such call, not about to return. Nothing
else is assumed of what tasks do there. The main loop of the package manager goes on,
and the operating system runs each of its workers. The enum reflector has no
liveness: a run is one sequence of statements. Nothing is assumed of what the application
asks for, and of the driver only that a call returns.

## Findings

- `LeftoverFrames`: `Flush_Frames` asserts that no frame is left over. A
  shutdown that begins in the batch of messages in which another process'
  `ShutdownSelfResponse` is handled leaves a frame for the erased record.
- `LostReschedule`: `Flush_System_Messages` sends the manager frame before it
  resets its own pointer to it; a worker interrupted in between destroys the
  next execution's request to be rescheduled.
- `LateBase`: a project's file registers its enums in the order in which the
  database came to know them. A base enum that is added, in one edit, for an enum
  already there is registered after it, and the entries of the derived enum are
  registered on a base that is not: `FATAL_ASSERT( enum_object != nullptr )`
  (`EnumConversion.cpp`:269) when the program starts. A clean run is right.
- `NeverStarted`: the first processes are added, and scheduled, before the base time
  is set (`ConcurrencyManager.cpp`:397-401). A time keeper begins with the epoch as its base
  time (`TimeKeeper.cpp`:30), so they are scheduled for the seconds since 1970, and the
  time by which the scheduler is serviced, the seconds since the start, never comes to
  that. The tests set the base time before the manager does
  (`IPSharedTest/ConcurrencyManagerTests.cpp`:126).

Questions that a configuration answers when it is changed:

- `Budgets <- ShutdownTwice` in `Shutdown`: `NotToldAgain` fails. A process whose own shutdown and that of
  the manager both send it a `ShutdownSelfRequest` fails the assertion that it is not
  shutting down yet (`ProcessBase.cpp`:409).
- `Budgets <- JustTwo` in `Shutdown`: `ShutdownCompletes` fails. A process that is shut down may
  handle its `ShutdownSelfRequest` before it takes the request to release the mailbox of
  another that is being shut down. It ends without answering, and the other's shutdown
  waits for the answer for ever (`ConcurrencyManager.cpp`:746).
- `LateRequests = TRUE`, `Budgets <- JustShutdown` and `NewProcessFlags <- AllFlags` in `Shutdown`: `MailboxAtHand`
  fails. A process that asks for a new process while it shuts down may be gone
  when the manager forwards its mailbox to the new one (`ConcurrencyManager.cpp`:699); the new
  process dereferences a null mailbox (`ProcessBase.cpp`:381).
- `DirtyIsCleared` in `PackageSync`: fails. A destination that cannot be emptied in twenty attempts
  is left as it is without an error (`FileUtils.cs`:43), though dirty destinations are to be
  cleared (`PackageManager.cs`:208), and copies are written over files
  without truncating them (`CopyAndHashWorker.cs`:109). A run that reports success may leave a file
  that is the new version with the end of the old one.
- `EditedIsInstalled` in `PackageSync`: fails. What is dirty is found by comparing hashes
  (`PackageManager.cs`:184). An output whose destination was emptied by
  a run that was killed (`PackageManager.cs`:208) is not built if the configuration gets its old hash
  back before the next run, or the output it shared the destination with moves away; nor is one that moves to another
  destination.
- `UseStatementCaching = TRUE` and `CachedStatementReady` in `Compound`: a list of
  children that fails leaves its statement in the cache as the error left it
  (`CompoundDatabaseTaskBatch.h`:241), and the next list asserts.
- `Texts <- Renaming` in `EnumReflection`, with all registered conversions compared:
  an entry of a base enum is renamed, the derived enum is unchanged by value, and its project
  keeps the conversions of the old name (`EnumTracker.cs`:199).

The passing runs are bounded so as not to step into these: one shutdown at a
time, `InterruptibleFlush = FALSE` and `LateRequests = FALSE` in `Shutdown`, `BaseTimeIsSet = TRUE` there and in `Overlap`,
which is the tests' time keeper and not the program's (that is `NeverStarted`),
`UseStatementCaching = FALSE` in `Compound`; and in `EnumReflection` no header gains a base enum for
an enum it already has (`AnyTexts`). `Overlap` has neither the limits on shutdowns and requests nor that on
flushes, and checks
what holds nevertheless. `PackageSync` has failing cleanings and configurations that return to an older version:
its properties leave out the destinations in `left_over` and the outputs in `put_back`.

## Proofs

The runtime, for every number of processes, every budget and pattern, shutdowns
that overlap, and with `InterruptibleFlush = TRUE`:

- `ConcurrencyRuntimeProofs!TypeCorrect`: `TypeOK` is an invariant.
- `ConcurrencyRuntimeProofs`: `OneWorkerAtATime` and `NotRunAfterShutdown`, from the
  inductive `ExecutionInv`. `OneWorkerAtATime` is not inductive: it needs that a
  task process has at most one *execution*, which is scheduled, enqueued, under
  way or asked for, wherever the message that asks for it is (`OneExecution`);
  that a process that shuts down asks no more; and that ids not yet given out
  are unused. The lost request of `LostReschedule` stops a process, it never
  doubles it.
- `SchedulingAssertionsHold`: the assertions of `Add_Execute_Task` and of
  `~CProcessRecord` hold for every budget. `AssertionInv` adds to `ExecutionInv`
  that only a task process asks to be rescheduled, and that a thread process
  is started once.
- `UninterruptedAreRescheduled`: a process in which the frame is sent and reset in
  one step has such an execution until it has shut down. The logging process is
  one, whatever the others do. `RescheduledUnlessInterrupted` is
  `AlwaysRescheduled` for `InterruptibleFlush = FALSE`: the interruption that
  `LostReschedule` shows is the only thing that loses a request.
- `ConcurrencyRuntimeProofs`: `NoHandleLeft`, `SoftShutdownLosesNothing` and the
  refinement of `MailboxHandles`, from the inductive `HandleInv`. A handle to the
  mailbox of `p` that `q` has travels in an `AddMailbox` message, is kept in
  `Mailboxes`, and then the request to release it, what `q` notes of that
  (`ShutdownMailboxes`) and `q`'s answer follow one another through queues that
  keep their order. `HandleInv` says of each of these places what may still be
  behind it: a request to release is behind the last `AddMailbox` (`Release`), who
  is asked for is in its first phase only as long as every holder is waited for
  (`Held`), who is told to shut itself down is handed nothing more (`Told`). It
  was checked with the constants of `Shutdown` and `Overlap`
  (1,354,000 states) before it was proved. For the refinement, `Grants` says who is
  given a handle in a step, and `Life` what may become of a record; for the soft
  shutdown, `QuietInv` adds that neither the manager nor the logging process
  sends messages of the application.
- `ShutdownProofs!AcknowledgementsAreAwaited`: no `ReleaseMailboxResponse` reaches
  a manager that does not wait for it. By `ReleaseInv` a process that is still
  waited for has one place at most where its answer, or the request for it, can be,
  and one that is not has none.
- `OneShutdownIsAnswered` is `AcknowledgementsOnTheirWay`, if at most one process is shut
  down and no flush is interrupted. `AcknowledgementInv` is the mirror of `Held`: who is
  waited for is asked, is about to answer or has answered. Both conditions are
  needed, the property fails without either: a process that is shut down itself
  leaves its answer behind, and an interrupted worker destroys it.
- `NoAssertionFails` is `NoFatalAssert` under `FairUse`: one shutdown, of a
  process or of the manager; nothing asked by a process that has been told to shut
  down (`LateRequests = FALSE`); mailboxes of processes only, not of the manager or
  the logging process. Flushes may be interrupted. `OrderInv` follows what is
  said through the queues: what may be in them (`RequestsInv`), that a process is
  told to shut down once (`ToldInv`), that what it says of it comes last but for its answers
  (`WordInv`), and that the two shutdowns do not meet (`HaltInv`). Each part of `FairUse`
  is needed: TLC finds a failing assertion when one is given up, in `Flush_Frames` for
  two shutdowns of either kind and for late requests, and in
  `Handle_Add_Mailbox_Message` for the other mailboxes. The constants of
  `Shutdown` satisfy it. `OrderInv` and the invariants it
  rests on were checked with them, with interrupted flushes, and with a thread process before
  they were proved.

The scheduler, for every set of tasks, time bound and granule:

- `TaskSchedulerProofs`: `SchedulerInv` is inductive through every turn of the
  heap's loops; `TracksHeapIndex` and `HeapOrder` follow. `HeapInv` says what
  holds in the middle of a loop: all but the moving element are in order, and its
  children are no sooner than its parent.
- `AgendaImplemented`: the scheduler implements `Agenda`. That the root is the
  soonest is shown by a minimal counterexample along parents.

The database layer, for every set of tasks, texts and batch sizes, whatever the calls do,
with or without cached statements, and with connections that break:

- `TaskListExecutionProofs` follows one list from `Execute` to its result
  (`ListInv`): what the driver still has to report is the tail of what it was
  going to report of the calls, the tasks before `CurrentResultSet` have their results,
  and the task that is blamed is one whose call failed or after one whose call
  reported too few or too many.
- `DatabaseProcessProofs`: `DatabaseInv` is inductive. It is `TypeOK`, `ListInv`,
  `StatementReady` and three parts: the lists of the batches and of `work` are
  apart and of one text (`BatchInv`); of what has been tried, only `sub_list` is in
  the transaction (`AttemptInv`); a task is in one place, and where it is tells
  whether it may have been committed (`PlacesInv`). `AppliedOnce`,
  `OnlyFaultyFail`, `ResultsAreOwn`, `RolledBackBeforeRetry` and `StatementReady`
  follow; `Refinement` is `ImplementsDatabaseService`.
  `AppliedOnce` says that what is committed is not in a transaction again;
  what a requester is told is the refinement's matter. `OnlyFaultyFail` says nothing of a list in
  which a call did not select exactly once, as the count by which tasks are blamed is wrong then.
- `CompoundTaskBatchProofs`: the same for parents and children, with
  `ParentsInv` for the places and an `AttemptInv` that says that the types before
  `child_type` have been executed and what their success adds has been added.
  `AllOrNothing`, `ChildrenInOrder`, `OnlyFaultyParentsFail` and the
  refinement follow.

The package manager, for any packages, outputs, contents, configurations and edits of them:

- `PackageManagerProofs!TypesCorrect`: `TypeOK`; in particular the Error states of
  packages and outputs, which the code declares, are never entered.
- `CopiedIsVerifiedAlways`: `OnlyVerifiedIsCopied`, for runs that crash, fail and
  follow each other. The property is about one step of a copying worker; that
  the package it copies from was verified lies several states back. `PackageInv`
  carries it forward: an output is copied only from a finished package
  (`OutputInv`), a package is unpacked only with what was downloaded
  (`InputInv`), and the hash it was compared with is still that of the
  configuration file (`VerifiedInv`), which nobody edits while a run is on
  and which the configuration in memory equals until the download is verified.
- `SkippedIsAlwaysInstalled`, `SuccessAlwaysInstalls`: `SkippedIsInstalled` and
  `SuccessInstalls`, without a condition on edits or runs. What they leave out is in their statements:
  a destination whose last cleaning was given up (`left_over`), and an output that an edit made up to
  date, or moved, and that was not built since (`put_back`); `DirtyIsCleared` and `EditedIsInstalled` are, without these
  exceptions, violated. Neither is inductive. `BuildInv` says what
  destinations, manifest and files have to do with each other during a run: destinations
  are cleaned before anything is copied to them (`CleanInv`); at one that was cleaned, what an output lacks is
  still to be copied, and what it has is whole (`CopyInv`); the manifest in
  memory is right about what is built or skipped (`BuiltInv`); what is touched is
  dirty by the files a later run would read, too, so that it may be killed at any point
  (`DirtyInv`, `SavingInv`).

The enum reflector, for any headers, projects and texts, base enums of any depth, and edits
before, during and after runs that fail, are killed or cannot save:

- `EnumReflectorProofs!TypeCorrect`: `TypeOK`. It is not inductive: that no header is
  twice in `headers` rests on what was saved before.
- `DatabaseCorrect`: `DatabaseIsCurrent`, the incremental result is the clean one. The
  inductive invariant is `ReflectorInv`. `DatabaseInv` says it header by header: a header of
  the database that is not newer defines just the records that the database has of it, and
  those of all headers are `Bound`: names are unique, every base enum is known, no circle
  exists, and values follow from base enums. While a run parses, `ParsingInv` says
  this of the old records of unchanged headers and of the new ones of parsed headers, but for
  those edited since the scan; `WritingInv` says it of what will be saved. An enum that
  moves from a header to another needs `OneDefinitionEach`: the header it has left is newer, or it
  would be defined twice.
- `OwnRegistered`: `OwnEnumsAreRegistered`. `LoadedInv` and `WritingInv` relate a project's file
  to its old records until it is written and to its new ones from then on; a
  project that is not dirty has the same of both (`DirtyProjects`).
- `RunsAreQuiet`: `QuietRun`. Nothing parsed, every new record is an old one, and as
  those are `Bound`, binding gives them the values they have (`BoundKeepsValues`).

The recursive functions of this model are proved to exist and to be what their definitions
say: `Keep` and `Reparse_Enums` place by place (`Iterated`), `StartingValue` by
iteration up to the highest rank of an enum, where `RankExists` takes for the rank of an enum the number of
enums it extends directly or not, and `Values` by comparison with the database
(`ValuesOfBound`). `ReflectorInv` was checked with the constants of `EnumReflection`
before it was proved.

The proofs assume what the ASSUMEs of the models say. Most are types of the
constants. Others the code checks or ensures: the budget of new processes fits
the ids; packages and outputs are different things; no header
defines an enum twice, which the compiler refuses (`ReflectorAssumption`); no type of a task is
registered twice (`OrderingAssumption` in `DatabaseProcess` and
`CompoundTaskBatch`, an assertion in the code). One the code does not check and
expects of the application: a child of a compound task is added on the success of
children of a type that was registered before its own (`AddedInTimeAssumption`);
one added later would never be executed, and nobody would be told. The other
hypotheses are in the theorems themselves: `InterruptibleFlush = FALSE`, one shutdown,
and `FairUse`.

Induction over the natural numbers, where a list or a heap needs it, is the
choice of a least counterexample (`WFMin` of the library), as the induction rules
themselves take an operator, which the provers cannot instantiate.

Only model-checked:

- `ProgramStarts`. It is not true of all texts, as `LateBase` shows: it depends on the order
  in which the database came to know the enums, and so on which edits there can
  be. The run takes edits that give no enum a base later (`AnyTexts`).
- All liveness, which is outside the prover's reach with fairness and ENABLED.

## Not modelled

Log frames and what logging writes; matching of process properties (a pattern is
the set of ids it matches); `Cleanup` after `Service` has returned; the
priority queue's `Clear`; in the database layer the texts and signatures of
statements, statements that cannot be bound or whose attributes cannot be set,
fatal errors but those of `End_Transaction`, a driver that names a wrong row,
`Cleanup`, the wrap of task ids, statements never freed without a cache, and
compound tasks sent in a request, which no message can carry
(`DatabaseProcessBase.cpp`:183): they are added to the batch directly, as the
tests do. A commit that fails may or may not have happened. In the package
manager: the cleaning of the two temporary directories (`PackageManager.cs`:110), and files left in them
that a package unpacked later does not replace; the sub-workers of one hash; the partly written file
that a copy leaves when it is interrupted, which the next run deletes or copies over like any other;
tags that differ in case, a configuration edited during a
run. In the enum reflector: the ANTLR lexer and parser, bitfields and explicit
values, headers with an older time than the database has, generated
files deleted by hand, projects deleted, two headers that define one enum, and
the mutex. In enum conversion: lookups and bitfields. Also left out:
serialization, slash commands, CRC, platform, executables and the other
tools, for the reasons PROJECT.json gives.

Most lines of the repository are in none of these: the vendored pugixml and gtest, the
tests of the projects, `FastDelegate.h`, Loki's type information and the lexer and parser
ANTLR generates are three quarters of it and no part of the program's own logic.

## Plan

The runtime, the scheduler, the database layer and the two build tools are
modelled, and the safety properties of their runs proved, but for `ProgramStarts`. What is left:

1. `ProgramStarts` for edits that keep a base enum before the enums derived from it: an
   invariant about the order of `enums` and of the files.
2. Process properties and the ongoing requests by pattern.
