--------------------------- MODULE PackageManager ---------------------------
(* The package manager (PackageManager/Source): downloads the packages of   *)
(* its configuration, checks and unpacks them, and copies the parts that the *)
(* outputs name to their destinations. A manifest file remembers the hash of *)
(* every output that was built, so that the next run only builds what is    *)
(* dirty. The main thread polls background workers; a run may fail or be    *)
(* killed at any point, and what it leaves in the files is what the next    *)
(* run begins with.                                                         *)
EXTENDS Naturals, FiniteSets

CONSTANTS
  Input,                   \* packages
  Output,                  \* outputs, by tag
  Destination,             \* directories outputs are copied to
  Version,                 \* contents a mirror may serve
  PackageOf,               \* CPackageOutputEntry.PackageName
  FilesOf,                 \* files an output consists of
  LengthOf,                \* of a file, in each version
  MaxConcurrentDownloads,
  Edits(_),                \* configurations the user may turn one into
  InitialConfigs,
  NoHash,                  \* an invalid CHash; also: no content
  Torn                     \* a file whose writing was cut short

(* A hash stands for the content it was computed from. *)
Hash == Version \cup {NoHash}

Config == [destination   : [Output -> Destination],
           download_hash : [Input -> Hash],
           hash          : [Output -> Hash]]

Manifest == [Output -> Hash]

ASSUME PackageAssumption ==
  /\ PackageOf \in [Output -> Input]
  /\ Input \cap Output = {}
  /\ NoHash \notin Version
  /\ LengthOf \in [Version -> Nat]
  /\ Torn \notin Manifest \cup Config
  /\ InitialConfigs \subseteq Config
  /\ \A c \in Config : Edits(c) \subseteq Config
  /\ MaxConcurrentDownloads \in Nat \ {0}

VARIABLES
  (* files: they outlive the run *)
  configFile, manifestFile,
  installed,               \* per destination: the copied files, with version and length
  (* the run *)
  phase, mode,
  config, manifest,        \* as loaded, and changed in memory
  input_state, output_state,
  to_clean,                \* dirty outputs whose destination is still to be cleaned
  (* the workers *)
  status,                  \* CWorker.m_CompletionStatus of the task of an input or output
  downloaded, unpacked,
  to_copy,                 \* CCopyAndHashWorker.m_PendingFiles
  outcome,                 \* how the last run ended, until an edit
  (* history, which no step reads *)
  left_over,               \* destinations whose last cleaning was given up
  put_back                 \* outputs not built since an edit made them up to date

files     == <<configFile, manifestFile, installed>>
settings  == <<mode, config, manifest>>
states    == <<input_state, output_state, to_clean>>
workers   == <<status, downloaded, unpacked, to_copy>>
history   == <<left_over, put_back>>
vars      == <<files, phase, settings, states, workers, outcome, history>>

NoManifest == [o \in Output |-> NoHash]

(* What the configuration is while no process runs: any value. *)
NoConfig == CHOOSE c \in Config : TRUE

Modes == {"Normal", "Clean", "GenConfig"}

EInputPackageState == {"Start", "PendingDownload", "Downloading", "HashingDownload",
                       "Decompressing", "Finished"}

EOutputPackageState == {"WaitingOnInput", "CopyAndHash", "Finished"}

EWorkStatus == {"None", "InProgress", "CompletionSuccess", "CompletionFailure"}

File == UNION {FilesOf[o] : o \in Output}

TypeOK ==
  /\ configFile \in Config \cup {Torn}
  /\ manifestFile \in Manifest \cup {Torn}
  /\ installed \in [Destination -> SUBSET (Output \X File \X Version \X Nat)]
  /\ phase \in {"stopped", "running", "saving manifest", "saving config", "failed"}
  /\ mode \in Modes
  /\ config \in Config
  /\ manifest \in Manifest
  /\ input_state \in [Input -> EInputPackageState]
  /\ output_state \in [Output -> EOutputPackageState]
  /\ to_clean \in SUBSET Output
  /\ status \in [Input \cup Output -> EWorkStatus]
  /\ downloaded \in [Input -> Hash]
  /\ unpacked \in [Input -> Hash]
  /\ to_copy \in [Output -> SUBSET File]
  /\ outcome \in {"none", "success", "unsaved", "failure"}
  /\ left_over \in SUBSET Destination
  /\ put_back \in SUBSET Output

-----------------------------------------------------------------------------
(* The beginning of a run. *)

(* The outputs whose manifest entry has the hash of the configuration. *)
Up_To_Date(c, m) == {o \in Output : c.hash[o] = m[o] /\ m[o] # NoHash}

(* Mutant of the next: only outputs that differ are dirty. *)
Dirty_But_Not_Sharing(c, m) == Output \ Up_To_Date(c, m)

(* An output that shares its destination with a dirty one is dirty too. *)
Dirty(c, m) ==
  {o \in Output : \E other \in Output \ Up_To_Date(c, m) :
                     c.destination[o] = c.destination[other]}

Discard_Hashes(c) == [c EXCEPT !.download_hash = [i \in Input |-> NoHash],
                               !.hash          = [o \in Output |-> NoHash]]

Load_Config(m)   == IF m = "GenConfig" THEN Discard_Hashes(configFile) ELSE configFile
Load_Manifest(m) == IF m = "Normal" THEN manifestFile ELSE NoManifest

(* The files a run reads first, and throws if they cannot be read. *)
Readable(m) == configFile # Torn /\ (m = "Normal" => manifestFile # Torn)

NoStatus   == [x \in Input \cup Output |-> "None"]
NoContent  == [i \in Input |-> NoHash]
NoFiles    == [o \in Output |-> {}]
AllInputs(state)  == [i \in Input |-> state]
AllOutputs(state) == [o \in Output |-> state]

(* Up to where destinations are cleaned. A missing manifest file is an empty *)
(* manifest; CLEAN and GENCONFIG delete it.                                  *)
Initialize(m) ==
  LET dirty == Dirty(Load_Config(m), Load_Manifest(m)) IN
  /\ phase = "stopped"
  /\ Readable(m)
  /\ phase' = "running"
  /\ mode' = m
  /\ config' = Load_Config(m)
  /\ manifest' = Load_Manifest(m)
  /\ manifestFile' = Load_Manifest(m)
  /\ output_state' = [o \in Output |-> IF o \in dirty THEN "WaitingOnInput" ELSE "Finished"]
  /\ input_state' = [i \in Input |->
       IF \E o \in dirty : PackageOf[o] = i THEN "Start" ELSE "Finished"]
  /\ to_clean' = dirty
  /\ outcome' = "none"
  /\ put_back' = put_back \ dirty
  /\ UNCHANGED <<configFile, installed, workers, left_over>>

(* The main thread catches the exception and waits for a key; its workers go on. *)
Throw == phase' = "failed" /\ outcome' = "failure"

Initialize_Throws(m) ==
  /\ phase = "stopped"
  /\ ~Readable(m)
  /\ Throw
  /\ mode' = m
  /\ UNCHANGED <<files, config, manifest, states, workers, history>>

Delete_File(d) ==
  /\ \E file \in installed[d] : installed' = [installed EXCEPT ![d] = @ \ {file}]
  /\ UNCHANGED <<to_clean, left_over>>

End_Cleaning(o, left) ==
  /\ to_clean' = to_clean \ {o}
  /\ left_over' = left
  /\ UNCHANGED installed

(* Files are deleted one by one. After twenty attempts that failed the       *)
(* directory is left as it is, and the run goes on as if it were empty.      *)
Clean_Directory(o) ==
  LET d == config.destination[o] IN
  /\ phase = "running"
  /\ o \in to_clean
  /\ \/ Delete_File(d)
     \/ installed[d] = {} /\ End_Cleaning(o, left_over \ {d})
     \/ installed[d] # {} /\ End_Cleaning(o, left_over \cup {d})
  /\ UNCHANGED <<configFile, manifestFile, phase, settings, input_state, output_state,
                 workers, outcome, put_back>>

-----------------------------------------------------------------------------
(* Service_Packages: the main thread moves inputs and outputs from state to *)
(* state. Its loop goes over all of them again and again; here they are     *)
(* serviced in any order, which leaves more interleavings.                  *)

Servicing == phase = "running" /\ to_clean = {}

Service_Start(i) ==
  /\ input_state[i] = "Start"
  /\ input_state' = [input_state EXCEPT ![i] = "PendingDownload"]
  /\ UNCHANGED <<status, phase, config, outcome>>

(* What follows a task: the next state with a new task, or none. *)
Enter(i, state, new_status) ==
  /\ input_state' = [input_state EXCEPT ![i] = state]
  /\ status' = [status EXCEPT ![i] = new_status]

(* Mutant of the next: packages that wait count as downloads. *)
Service_Pending_Download_Counting_Itself(i) ==
  /\ input_state[i] = "PendingDownload"
  /\ Cardinality({j \in Input : input_state[j] = "PendingDownload"}) < MaxConcurrentDownloads
  /\ Enter(i, "Downloading", "InProgress")
  /\ UNCHANGED <<phase, config, outcome>>

Service_Pending_Download(i) ==
  /\ input_state[i] = "PendingDownload"
  /\ Cardinality({j \in Input : input_state[j] = "Downloading"}) < MaxConcurrentDownloads
  /\ Enter(i, "Downloading", "InProgress")
  /\ UNCHANGED <<phase, config, outcome>>

Service_Downloading(i) ==
  /\ input_state[i] = "Downloading"
  /\ status[i] = "CompletionSuccess"
  /\ Enter(i, "HashingDownload", "InProgress")
  /\ UNCHANGED <<phase, config, outcome>>

(* Mutant of the next: any download is taken. *)
Verify_No_Download_Hash(i) == TRUE

(* Without a hash in the configuration any download is taken and its hash kept. *)
Verify_Download_Hash(i) == config.download_hash[i] \in {NoHash, downloaded[i]}

Service_Hashing_Download(i) ==
  /\ input_state[i] = "HashingDownload"
  /\ status[i] = "CompletionSuccess"
  /\ IF Verify_Download_Hash(i)
     THEN /\ config' = [config EXCEPT !.download_hash[i] = downloaded[i]]
          /\ Enter(i, "Decompressing", "InProgress")
          /\ UNCHANGED <<phase, outcome>>
     ELSE Throw /\ UNCHANGED <<input_state, status, config>>

Service_Decompressing(i) ==
  /\ input_state[i] = "Decompressing"
  /\ status[i] = "CompletionSuccess"
  /\ Enter(i, "Finished", "None")
  /\ UNCHANGED <<phase, config, outcome>>

(* Mutant of the next: the Error state there is for it. *)
Service_Failed_Input_Into_Error(i) ==
  /\ status[i] = "CompletionFailure"
  /\ Enter(i, "Error", "None")
  /\ UNCHANGED <<phase, config, outcome>>

Service_Failed_Input(i) ==
  /\ status[i] = "CompletionFailure"
  /\ Throw
  /\ UNCHANGED <<input_state, status, config>>

Service_Input(i) ==
  /\ Servicing
  /\ \/ Service_Start(i)
     \/ Service_Pending_Download(i)
     \/ Service_Downloading(i)
     \/ Service_Hashing_Download(i)
     \/ Service_Decompressing(i)
     \/ Service_Failed_Input(i)
  /\ UNCHANGED <<files, mode, manifest, output_state, to_clean,
                 downloaded, unpacked, to_copy, history>>

Service_Waiting_On_Input(o) ==
  /\ output_state[o] = "WaitingOnInput"
  /\ input_state[PackageOf[o]] = "Finished"
  /\ output_state' = [output_state EXCEPT ![o] = "CopyAndHash"]
  /\ status' = [status EXCEPT ![o] = "InProgress"]
  /\ to_copy' = [to_copy EXCEPT ![o] = FilesOf[o]]
  /\ UNCHANGED <<phase, config, manifest, outcome>>

(* Mutant of the next: the manifest is not told. *)
Update_Configured_Hashes(o) ==
  /\ config' = [config EXCEPT !.hash[o] = unpacked[PackageOf[o]]]
  /\ UNCHANGED manifest

(* The hash of the copied files goes into the manifest and the configuration *)
(* in memory, whatever hash the configuration had.                           *)
Update_Output_Hashes(o) ==
  /\ manifest' = [manifest EXCEPT ![o] = unpacked[PackageOf[o]]]
  /\ config' = [config EXCEPT !.hash[o] = unpacked[PackageOf[o]]]

Service_Copy_And_Hash(o) ==
  /\ output_state[o] = "CopyAndHash"
  /\ \/ /\ status[o] = "CompletionSuccess"
        /\ Update_Output_Hashes(o)
        /\ output_state' = [output_state EXCEPT ![o] = "Finished"]
        /\ status' = [status EXCEPT ![o] = "None"]
        /\ UNCHANGED <<phase, outcome>>
     \/ /\ status[o] = "CompletionFailure"
        /\ Throw
        /\ UNCHANGED <<config, manifest, output_state, status>>
  /\ UNCHANGED to_copy

Service_Output(o) ==
  /\ Servicing
  /\ Service_Waiting_On_Input(o) \/ Service_Copy_And_Hash(o)
  /\ UNCHANGED <<files, mode, input_state, to_clean, downloaded, unpacked, history>>

-----------------------------------------------------------------------------
(* The workers, each on a thread of its own. They run as long as the process *)
(* does, also after the main thread has failed.                              *)

Working(x) == phase # "stopped" /\ status[x] = "InProgress"

Complete(x, result) == status' = [status EXCEPT ![x] = result]

(* One mirror after the other is tried; what it serves is not up to us. *)
Download_Worker(i) ==
  /\ Working(i) /\ input_state[i] = "Downloading"
  /\ \/ /\ \E v \in Version : downloaded' = [downloaded EXCEPT ![i] = v]
        /\ Complete(i, "CompletionSuccess")
     \/ Complete(i, "CompletionFailure") /\ UNCHANGED downloaded
  /\ UNCHANGED <<unpacked, to_copy, installed>>

Hash_Worker(i) ==
  /\ Working(i) /\ input_state[i] = "HashingDownload"
  /\ \E result \in {"CompletionSuccess", "CompletionFailure"} : Complete(i, result)
  /\ UNCHANGED <<downloaded, unpacked, to_copy, installed>>

Decompress_Worker(i) ==
  /\ Working(i) /\ input_state[i] = "Decompressing"
  /\ \/ /\ unpacked' = [unpacked EXCEPT ![i] = downloaded[i]]
        /\ Complete(i, "CompletionSuccess")
     \/ Complete(i, "CompletionFailure") /\ UNCHANGED unpacked
  /\ UNCHANGED <<downloaded, to_copy, installed>>

(* Copies one file over whatever file has its name, which is opened but not *)
(* truncated: the end of a longer one stays behind.                         *)
Copy_And_Hash_File(o, f) ==
  LET d       == config.destination[o]
      v       == unpacked[PackageOf[o]]
      old     == {file \in installed[d] : file[1] = o /\ file[2] = f}
      lengths == {LengthOf[v]} \cup {file[4] : file \in old} IN
  /\ \E length \in lengths :
       /\ \A other \in lengths : other <= length
       /\ installed' = [installed EXCEPT ![d] = (@ \ old) \cup {<<o, f, v, length>>}]
  /\ to_copy' = [to_copy EXCEPT ![o] = @ \ {f}]

Copy_And_Hash_Worker(o) ==
  /\ Working(o)
  /\ \/ \E f \in to_copy[o] : Copy_And_Hash_File(o, f) /\ UNCHANGED status
     \/ to_copy[o] = {} /\ Complete(o, "CompletionSuccess") /\ UNCHANGED <<installed, to_copy>>
     \/ Complete(o, "CompletionFailure") /\ UNCHANGED <<installed, to_copy>>
  /\ UNCHANGED <<downloaded, unpacked>>

Worker(x) ==
  /\ \/ x \in Input /\ (Download_Worker(x) \/ Hash_Worker(x) \/ Decompress_Worker(x))
     \/ x \in Output /\ Copy_And_Hash_Worker(x)
  /\ UNCHANGED <<configFile, manifestFile, phase, settings, states, outcome, history>>

-----------------------------------------------------------------------------
(* The end of a run. *)

(* The process is gone, and with it what it had in memory. *)
Stop ==
  /\ phase' = "stopped"
  /\ mode' = "Normal"
  /\ config' = NoConfig
  /\ manifest' = NoManifest
  /\ input_state' = AllInputs("Finished")
  /\ output_state' = AllOutputs("Finished")
  /\ to_clean' = {}
  /\ status' = NoStatus
  /\ downloaded' = NoContent
  /\ unpacked' = NoContent
  /\ to_copy' = NoFiles

(* Everything is built: the manifest file is opened, which truncates it. A  *)
(* file that cannot be opened is no error.                                  *)
Begin_Save_Manifest ==
  /\ Servicing
  /\ \A o \in Output : output_state[o] = "Finished"
  /\ phase' = "saving manifest"
  /\ \/ manifestFile' = Torn /\ UNCHANGED outcome
     \/ outcome' = "unsaved" /\ UNCHANGED manifestFile
  /\ UNCHANGED <<configFile, installed, settings, states, workers, history>>

Saved == IF outcome = "unsaved" THEN "unsaved" ELSE "success"

(* With GENCONFIG the configuration file is opened next, which truncates it *)
(* too; if it cannot be opened, that is swallowed and the run is over.      *)
Save_Manifest ==
  /\ phase = "saving manifest"
  /\ manifestFile' = IF outcome = "unsaved" THEN manifestFile ELSE manifest
  /\ \/ mode # "GenConfig" /\ Stop /\ outcome' = Saved /\ UNCHANGED configFile
     \/ mode = "GenConfig" /\ Stop /\ outcome' = "unsaved" /\ UNCHANGED configFile
     \/ /\ mode = "GenConfig"
        /\ phase' = "saving config"
        /\ outcome' = Saved
        /\ configFile' = Torn
        /\ UNCHANGED <<settings, states, workers>>
  /\ UNCHANGED <<installed, history>>

Save_Config ==
  /\ phase = "saving config"
  /\ configFile' = config
  /\ Stop
  /\ UNCHANGED <<manifestFile, installed, outcome, history>>

(* The key that the message of a failed run waits for. *)
Acknowledge_Error ==
  /\ phase = "failed"
  /\ Stop
  /\ UNCHANGED <<files, outcome, history>>

Crash ==
  /\ phase # "stopped"
  /\ Stop
  /\ outcome' = "failure"
  /\ UNCHANGED <<files, history>>

(* The outputs that the next run would not build. *)
Skipped(c, m) == IF Torn \in {c, m} THEN {} ELSE Output \ Dirty(c, m)

(* Outputs that become up to date, or move, without being built. *)
Put_Back(c, d, m) ==
  {o \in Skipped(d, m) : o \in Skipped(c, m) => d.destination[o] # c.destination[o]}

(* The user edits the configuration, or restores it. *)
Edit_Config ==
  /\ phase = "stopped"
  /\ IF configFile = Torn THEN configFile' \in InitialConfigs ELSE configFile' \in Edits(configFile)
  /\ put_back' = put_back \cup Put_Back(configFile, configFile', manifestFile)
  /\ outcome' = "none"
  /\ UNCHANGED <<manifestFile, installed, phase, settings, states, workers, left_over>>

-----------------------------------------------------------------------------
Init ==
  /\ configFile \in InitialConfigs
  /\ manifestFile = NoManifest
  /\ installed = [d \in Destination |-> {}]
  /\ phase = "stopped"
  /\ mode = "Normal"
  /\ config = NoConfig
  /\ manifest = NoManifest
  /\ input_state = AllInputs("Finished")
  /\ output_state = AllOutputs("Finished")
  /\ to_clean = {}
  /\ status = NoStatus
  /\ downloaded = NoContent
  /\ unpacked = NoContent
  /\ to_copy = NoFiles
  /\ outcome = "none"
  /\ left_over = {}
  /\ put_back = {}

Run ==
  \/ \E o \in Output : Clean_Directory(o)
  \/ \E i \in Input : Service_Input(i)
  \/ \E o \in Output : Service_Output(o)
  \/ \E x \in Input \cup Output : Worker(x)
  \/ Begin_Save_Manifest
  \/ Save_Manifest
  \/ Save_Config

Next ==
  \/ \E m \in Modes : Initialize(m) \/ Initialize_Throws(m)
  \/ Run
  \/ Acknowledge_Error
  \/ Crash
  \/ Edit_Config

Spec == Init /\ [][Next]_vars

(* The main loop goes on, and the operating system runs every worker. *)
Fairness ==
  /\ \A o \in Output : WF_vars(Clean_Directory(o)) /\ WF_vars(Service_Output(o))
  /\ \A i \in Input : WF_vars(Service_Input(i))
  /\ \A x \in Input \cup Output : WF_vars(Worker(x))
  /\ WF_vars(Begin_Save_Manifest) /\ WF_vars(Save_Manifest) /\ WF_vars(Save_Config)

FairSpec == Spec /\ Fairness

-----------------------------------------------------------------------------
(* Properties. *)

(* The destination holds all files of the output, whole and in one version, *)
(* and no other of it.                                                      *)
Installed(c, o, v) ==
  /\ v \in Version
  /\ {file \in installed[c.destination[o]] : file[1] = o} = {o} \X FilesOf[o] \X {v} \X {LengthOf[v]}

Cleaned(c, o) == c.destination[o] \notin left_over

(* The configuration has a hash for the output, the one of its package. *)
Consistent(c, o) == c.hash[o] # NoHash /\ c.hash[o] = c.download_hash[PackageOf[o]]

(* An output the next run would not build is at its destination, complete,  *)
(* in the version the configuration asks for: whatever runs have failed or  *)
(* were killed before (Initialize_Output_States trusts the manifest). Only   *)
(* where cleaning was given up, and for outputs that an edit moved or gave   *)
(* the hash of the manifest, nothing is promised.                           *)
SkippedIsInstalled ==
  phase = "stopped" =>
    \A o \in Skipped(configFile, manifestFile) \ put_back :
      Cleaned(configFile, o) => Installed(configFile, o, configFile.hash[o])

(* After a run that ends well every output is at its destination, complete, *)
(* in the version the manifest file says, with the exceptions of            *)
(* SkippedIsInstalled; and that is the hash of the configuration file, where *)
(* this gives the output the hash of its package: the next run, if nothing  *)
(* is edited, will not build it again.                                      *)
SuccessInstalls ==
  outcome = "success" /\ phase = "stopped" =>
    \A o \in Output :
      /\ o \notin put_back /\ Cleaned(configFile, o) => Installed(configFile, o, manifestFile[o])
      /\ Consistent(configFile, o) => manifestFile[o] = configFile.hash[o]

(* Refuted: Initialize_Output_States says "create and clear all dirty         *)
(* destination directories" (PackageManager.cs:208), so a run that ends well *)
(* would leave nothing of what was there before.                             *)
DirtyIsCleared ==
  outcome = "success" /\ phase = "stopped" =>
    \A o \in Output \ put_back : Installed(configFile, o, manifestFile[o])

(* Refuted: it also says "figure out which outputs are dirty"               *)
(* (PackageManager.cs:168), but compares hashes only: an output that an edit *)
(* moved, or whose hash was put back after a failed run, is not found dirty. *)
EditedIsInstalled ==
  phase = "stopped" =>
    \A o \in Skipped(configFile, manifestFile) :
      Cleaned(configFile, o) => Installed(configFile, o, configFile.hash[o])

(* Nothing is copied to a destination but from a package whose download had *)
(* the hash of the configuration, where that has one.                       *)
OnlyVerifiedIsCopied ==
  [][\A o \in Output : \A d \in Destination :
       \A file \in installed'[d] \ installed[d] :
         file[1] = o /\ mode # "GenConfig" =>
           configFile.download_hash[PackageOf[o]] \in {NoHash, file[3]}]_vars

(* Every run ends, in success or with its error message. *)
EveryRunEnds == phase = "running" ~> phase \in {"stopped", "failed"}
=============================================================================
