------------------------- MODULE PackageManagerProofs -------------------------
(* The types of the package manager, that only verified packages are       *)
(* copied, and that what the next run skips, or a run that succeeds leaves, *)
(* is installed, for any packages, outputs, contents and configurations.    *)
EXTENDS PackageManager, TLAPS

(* What a package has gone through by the time it is in a state. *)
InputInv ==
  \A i \in Input :
    /\ input_state[i] = "Downloading" /\ status[i] = "CompletionSuccess" => downloaded[i] \in Version
    /\ input_state[i] \in {"HashingDownload", "Decompressing"} => downloaded[i] \in Version
    /\ input_state[i] = "Decompressing" /\ status[i] = "CompletionSuccess" => unpacked[i] \in Version
    /\ unpacked[i] # NoHash => /\ unpacked[i] = downloaded[i]
                               /\ input_state[i] \in {"Decompressing", "Finished"}

(* An output is copied from a package that this run has unpacked. *)
OutputInv ==
  \A o \in Output :
    /\ status[o] # "None" => output_state[o] = "CopyAndHash"
    /\ output_state[o] = "CopyAndHash" => input_state[PackageOf[o]] = "Finished"
    /\ output_state[o] # "Finished" /\ input_state[PackageOf[o]] = "Finished"
         => unpacked[PackageOf[o]] \in Version

(* The hash a download is compared with is that of the configuration file. *)
VerifiedInv ==
  mode # "GenConfig" /\ phase # "stopped" =>
    \A i \in Input :
      /\ input_state[i] \notin {"Decompressing", "Finished"} =>
           config.download_hash[i] = configFile.download_hash[i]
      /\ input_state[i] = "Decompressing" \/ unpacked[i] # NoHash =>
           configFile.download_hash[i] \in {NoHash, downloaded[i]}

(* No run leaves anything in memory. *)
StoppedInv ==
  phase = "stopped" => /\ input_state = AllInputs("Finished")
                       /\ output_state = AllOutputs("Finished")
                       /\ status = NoStatus
                       /\ unpacked = NoContent

PackageInv == TypeOK /\ InputInv /\ OutputInv /\ VerifiedInv /\ StoppedInv

-----------------------------------------------------------------------------

(* What the assumptions say of the constants, spelled out for the provers.  *)
LEMMA Types ==
  /\ PackageOf \in [Output -> Input]
  /\ Input \cap Output = {}
  /\ Version \subseteq Hash /\ NoHash \in Hash /\ NoHash \notin Version
  /\ \A o \in Output : FilesOf[o] \subseteq File
  /\ NoManifest \in Manifest
  /\ InitialConfigs \subseteq Config
  /\ \A c \in Config : Edits(c) \subseteq Config
  /\ LengthOf \in [Version -> Nat]
BY PackageAssumption DEF Hash, File, NoManifest, Manifest

(* The parts of a configuration.                                            *)
LEMMA ConfigType ==
  ASSUME NEW c \in Config
  PROVE  /\ c.destination \in [Output -> Destination]
         /\ c.download_hash \in [Input -> Hash]
         /\ c.hash \in [Output -> Hash]
         /\ Discard_Hashes(c) \in Config
<1> USE DEF Config
<1>1. /\ c.destination \in [Output -> Destination]
      /\ c.download_hash \in [Input -> Hash]
      /\ c.hash \in [Output -> Hash]
  OBVIOUS
<1>2. Discard_Hashes(c) \in Config
  BY Types DEF Discard_Hashes
<1> QED
  BY <1>1, <1>2

(* With any configuration there is one that stands for none. *)
LEMMA NoConfigType == ASSUME NEW c \in Config PROVE NoConfig \in Config
BY DEF NoConfig

(* What Set_Download_Hash does to a configuration.                          *)
LEMMA DownloadHashKept ==
  ASSUME NEW c \in Config, NEW i \in Input, NEW h \in Hash
  PROVE  /\ [c EXCEPT !.download_hash[i] = h] \in Config
         /\ [c EXCEPT !.download_hash[i] = h].download_hash = [c.download_hash EXCEPT ![i] = h]
BY ConfigType DEF Config

(* What setting the hash of an output does to a configuration.              *)
LEMMA OutputHashKept ==
  ASSUME NEW c \in Config, NEW o \in Output, NEW h \in Hash,
         NEW d, d = [c EXCEPT !.hash[o] = h]
  PROVE  d \in Config /\ d.download_hash = c.download_hash
BY ConfigType DEF Config

(* The invariant holds before the first run.                                *)
LEMMA InitInv == Init => PackageInv
<1> SUFFICES ASSUME Init PROVE PackageInv
  OBVIOUS
<1> USE Types DEF Init
<1>1. TypeOK
  BY NoConfigType DEF TypeOK, AllInputs, AllOutputs, NoStatus, NoContent, NoFiles, Modes,
         EInputPackageState, EOutputPackageState, EWorkStatus
<1>2. InputInv
  BY DEF InputInv, AllInputs, NoContent
<1>3. OutputInv
  BY DEF OutputInv, AllOutputs, AllInputs, NoStatus
<1>4. VerifiedInv
  BY DEF VerifiedInv
<1>5. StoppedInv
  BY DEF StoppedInv
<1> QED
  BY <1>1, <1>2, <1>3, <1>4, <1>5 DEF PackageInv

(* The beginning of a run: nothing is left in memory from an earlier one.   *)
LEMMA StartPreserves ==
  ASSUME PackageInv, NEW m \in Modes, Initialize(m) \/ Initialize_Throws(m)
  PROVE  PackageInv'
<1>1. CASE Initialize(m)
  <2> DEFINE dirty == Dirty(Load_Config(m), Load_Manifest(m))
  <2>1. /\ Load_Config(m) \in Config
        /\ Load_Manifest(m) \in Manifest
        /\ m # "GenConfig" => Load_Config(m) = configFile
    BY <1>1, Types, ConfigType DEF Initialize, Readable, Load_Config, Load_Manifest, PackageInv, TypeOK
  <2>2. dirty \in SUBSET Output
    BY DEF Dirty
  <2>3. /\ phase' = "running" /\ mode' = m /\ config' = Load_Config(m)
        /\ manifest' = Load_Manifest(m) /\ manifestFile' = Load_Manifest(m)
        /\ output_state' = [o \in Output |-> IF o \in dirty THEN "WaitingOnInput" ELSE "Finished"]
        /\ input_state' = [i \in Input |->
             IF \E o \in dirty : PackageOf[o] = i THEN "Start" ELSE "Finished"]
        /\ to_clean' = dirty /\ outcome' = "none"
        /\ put_back' = put_back \ dirty
        /\ UNCHANGED <<configFile, installed, status, downloaded, unpacked, to_copy, left_over>>
    BY <1>1 DEF Initialize, workers
  <2>4. /\ status = NoStatus /\ unpacked = NoContent
    BY <1>1 DEF Initialize, PackageInv, StoppedInv
  <2> HIDE DEF dirty
  <2>5. TypeOK'
    <3>1. input_state' \in [Input -> EInputPackageState]
      BY <2>3 DEF EInputPackageState
    <3>2. output_state' \in [Output -> EOutputPackageState]
      BY <2>3 DEF EOutputPackageState
    <3> QED
      BY <2>1, <2>2, <2>3, <3>1, <3>2 DEF PackageInv, TypeOK
  <2>6. InputInv'
    BY <2>3, <2>4, Types DEF InputInv, NoContent
  <2>7. OutputInv'
    BY <2>2, <2>3, <2>4, Types DEF OutputInv, NoStatus
  <2>8. VerifiedInv'
    BY <2>1, <2>3, <2>4 DEF VerifiedInv, NoContent
  <2>9. StoppedInv'
    BY <2>3 DEF StoppedInv
  <2> QED
    BY <2>5, <2>6, <2>7, <2>8, <2>9 DEF PackageInv
<1>2. CASE Initialize_Throws(m)
  <2> USE <1>2 DEF Initialize_Throws, Throw, files, states, workers, history, PackageInv
  <2>1. TypeOK'
    BY DEF TypeOK
  <2>2. InputInv'
    BY DEF InputInv
  <2>3. OutputInv'
    BY DEF OutputInv
  <2>4. VerifiedInv'
    BY DEF VerifiedInv, StoppedInv, AllInputs, NoContent
  <2>5. StoppedInv'
    BY DEF StoppedInv
  <2> QED
    BY <2>1, <2>2, <2>3, <2>4, <2>5
<1> QED
  BY <1>1, <1>2

(* The end of a run, however it ends.                                       *)
LEMMA StopPreserves ==
  ASSUME PackageInv, Stop, UNCHANGED <<installed, history>>,
         configFile' \in Config \cup {Torn}, manifestFile' \in Manifest \cup {Torn},
         outcome' \in {"none", "success", "unsaved", "failure"}
  PROVE  PackageInv'
<1> USE DEF Stop, PackageInv
<1>0. NoConfig \in Config
  BY NoConfigType DEF TypeOK
<1>1. TypeOK'
  BY <1>0, Types DEF TypeOK, AllInputs, AllOutputs, NoStatus, NoContent, NoFiles, EInputPackageState,
         EOutputPackageState, EWorkStatus, Modes, history
<1>2. InputInv'
  BY DEF InputInv, AllInputs, NoContent
<1>3. OutputInv'
  BY Types DEF OutputInv, AllOutputs, AllInputs, NoStatus
<1>4. VerifiedInv'
  BY DEF VerifiedInv
<1>5. StoppedInv'
  BY DEF StoppedInv
<1> QED
  BY <1>1, <1>2, <1>3, <1>4, <1>5

(* Steps of the main thread that touch neither packages nor outputs. *)
LEMMA FilesPreserve ==
  ASSUME PackageInv,
         \/ \E o \in Output : Clean_Directory(o)
         \/ Begin_Save_Manifest \/ Save_Manifest \/ Save_Config
         \/ Acknowledge_Error \/ Crash \/ Edit_Config
  PROVE  PackageInv'
<1> USE DEF PackageInv
<1>1. ASSUME NEW o \in Output, Clean_Directory(o)
      PROVE  PackageInv'
  <2> USE <1>1 DEF Clean_Directory, settings, workers
  <2>1. config.destination[o] \in Destination
    BY ConfigType DEF TypeOK
  <2>2. TypeOK'
    BY <2>1 DEF TypeOK, Delete_File, End_Cleaning
  <2>3. InputInv' /\ OutputInv' /\ VerifiedInv' /\ StoppedInv'
    BY DEF InputInv, OutputInv, VerifiedInv, StoppedInv
  <2> QED
    BY <2>2, <2>3
<1>2. CASE Begin_Save_Manifest
  <2> USE <1>2 DEF Begin_Save_Manifest, Servicing, settings, states, workers, history
  <2>1. TypeOK'
    BY DEF TypeOK
  <2>2. InputInv' /\ OutputInv' /\ VerifiedInv' /\ StoppedInv'
    BY DEF InputInv, OutputInv, VerifiedInv, StoppedInv
  <2> QED
    BY <2>1, <2>2
<1>3. CASE Save_Manifest
  <2>1. /\ manifestFile' \in Manifest \cup {Torn}
        /\ outcome' \in {"none", "success", "unsaved", "failure"}
        /\ phase = "saving manifest"
        /\ UNCHANGED <<installed, history>>
    BY <1>3 DEF Save_Manifest, Saved, TypeOK
  <2>2. CASE Stop /\ UNCHANGED configFile
    BY <2>1, <2>2, StopPreserves DEF TypeOK
  <2>3. CASE /\ mode = "GenConfig" /\ phase' = "saving config" /\ configFile' = Torn
             /\ UNCHANGED <<settings, states, workers>>
    <3> USE <2>1, <2>3 DEF settings, states, workers, history
    <3>1. TypeOK'
      BY DEF TypeOK
    <3>2. InputInv' /\ OutputInv' /\ VerifiedInv' /\ StoppedInv'
      BY DEF InputInv, OutputInv, VerifiedInv, StoppedInv
    <3> QED
      BY <3>1, <3>2
  <2> QED
    BY <1>3, <2>2, <2>3 DEF Save_Manifest
<1>4. CASE Save_Config
  BY <1>4, StopPreserves DEF Save_Config, TypeOK
<1>5. CASE Acknowledge_Error
  BY <1>5, StopPreserves DEF Acknowledge_Error, files, TypeOK
<1>6. CASE Crash
  BY <1>6, StopPreserves DEF Crash, files, TypeOK
<1>7. CASE Edit_Config
  <2> USE <1>7 DEF Edit_Config, settings, states, workers
  <2>1. configFile' \in Config
    BY Types DEF TypeOK
  <2>2. put_back' \in SUBSET Output
    BY DEF Put_Back, Skipped, TypeOK
  <2>3. TypeOK'
    BY <2>1, <2>2 DEF TypeOK
  <2>4. InputInv' /\ OutputInv' /\ VerifiedInv' /\ StoppedInv'
    BY DEF InputInv, OutputInv, VerifiedInv, StoppedInv
  <2> QED
    BY <2>3, <2>4
<1> QED
  BY <1>1, <1>2, <1>3, <1>4, <1>5, <1>6, <1>7

(* Service of a package: only a verified download is unpacked.              *)
LEMMA InputPreserves ==
  ASSUME PackageInv, NEW i \in Input, Service_Input(i)
  PROVE  PackageInv'
<1> USE Types DEF PackageInv
<1>1. /\ phase = "running"
      /\ UNCHANGED <<configFile, manifestFile, installed, mode, manifest, output_state, to_clean,
                     downloaded, unpacked, to_copy, left_over, put_back>>
  BY DEF Service_Input, Servicing, files, history
<1>2. \A o \in Output : o # i
  OBVIOUS
<1>3. PICK state \in EInputPackageState, work \in EWorkStatus :
        Enter(i, state, work) \/ UNCHANGED <<input_state, status>> \/ Service_Start(i)
  BY DEF Service_Input, Service_Pending_Download, Service_Downloading, Service_Hashing_Download,
         Service_Decompressing, Service_Failed_Input, EInputPackageState, EWorkStatus
<1>4. /\ input_state' \in [Input -> EInputPackageState]
      /\ status' \in [Input \cup Output -> EWorkStatus]
      /\ \A o \in Output : status'[o] = status[o]
  <2>1. CASE Enter(i, state, work)
    BY <1>2, <2>1 DEF Enter, TypeOK
  <2>2. CASE UNCHANGED <<input_state, status>>
    BY <2>2 DEF TypeOK
  <2>3. CASE Service_Start(i)
    BY <2>3 DEF Service_Start, TypeOK, EInputPackageState
  <2> QED
    BY <1>3, <2>1, <2>2, <2>3
<1>5. /\ config' \in Config
      /\ \/ UNCHANGED config /\ ~(Service_Hashing_Download(i) /\ Verify_Download_Hash(i))
         \/ /\ Service_Hashing_Download(i) /\ Verify_Download_Hash(i)
            /\ config'.download_hash = [config.download_hash EXCEPT ![i] = downloaded[i]]
  <2>1. CASE Service_Hashing_Download(i) /\ Verify_Download_Hash(i)
    <3>1. /\ config \in Config /\ downloaded[i] \in Hash
          /\ config' = [config EXCEPT !.download_hash[i] = downloaded[i]]
      BY <2>1 DEF Service_Hashing_Download, TypeOK
    <3> HIDE DEF PackageInv
    <3>2. /\ [config EXCEPT !.download_hash[i] = downloaded[i]] \in Config
          /\ [config EXCEPT !.download_hash[i] = downloaded[i]].download_hash
               = [config.download_hash EXCEPT ![i] = downloaded[i]]
      BY ONLY <3>1, DownloadHashKept, i \in Input
    <3> QED
      BY ONLY <2>1, <3>1, <3>2
  <2>2. CASE UNCHANGED config /\ ~(Service_Hashing_Download(i) /\ Verify_Download_Hash(i))
    BY <2>2 DEF TypeOK
  <2> QED
    BY <2>1, <2>2 DEF Service_Input, Service_Start, Service_Pending_Download, Service_Downloading,
       Service_Hashing_Download, Service_Decompressing, Service_Failed_Input
<1>6. /\ phase' \in {"running", "failed"}
      /\ outcome' \in {"none", "success", "unsaved", "failure"}
  BY <1>1 DEF Service_Input, Service_Start, Service_Pending_Download, Service_Downloading,
     Service_Hashing_Download, Service_Decompressing, Service_Failed_Input, Throw, TypeOK
<1>7. TypeOK'
  BY <1>1, <1>4, <1>5, <1>6 DEF TypeOK
<1>8. InputInv'
  BY <1>1 DEF InputInv, Service_Input, Service_Start, Service_Pending_Download, Service_Downloading,
     Service_Hashing_Download, Service_Decompressing, Service_Failed_Input, Enter, TypeOK
<1>9. OutputInv'
  <2>1. input_state'[i] = "Finished" => input_state[i] = "Finished" \/ unpacked[i] \in Version
    BY DEF InputInv, Service_Input, Service_Start, Service_Pending_Download, Service_Downloading,
       Service_Hashing_Download, Service_Decompressing, Service_Failed_Input, Enter, TypeOK
  <2>2. input_state[i] = "Finished" => input_state'[i] = "Finished"
    BY DEF Service_Input, Service_Start, Service_Pending_Download, Service_Downloading,
       Service_Hashing_Download, Service_Decompressing, Service_Failed_Input, Enter, TypeOK
  <2>3. \A j \in Input \ {i} : input_state'[j] = input_state[j]
    BY <1>3 DEF Enter, Service_Start, TypeOK
  <2> QED
    BY <1>1, <1>4, <2>1, <2>2, <2>3 DEF OutputInv
<1>10. VerifiedInv'
  <2>1. CASE /\ Service_Hashing_Download(i) /\ Verify_Download_Hash(i)
             /\ config'.download_hash = [config.download_hash EXCEPT ![i] = downloaded[i]]
    <3>0. config.download_hash \in [Input -> Hash]
      BY ConfigType DEF TypeOK
    <3>1. /\ input_state[i] = "HashingDownload" /\ input_state' = [input_state EXCEPT ![i] = "Decompressing"]
          /\ downloaded[i] \in Version
      BY <2>1 DEF Service_Hashing_Download, Enter, InputInv
    <3>2. mode # "GenConfig" => configFile.download_hash[i] \in {NoHash, downloaded[i]}
      BY <1>1, <2>1, <3>1 DEF VerifiedInv, Verify_Download_Hash
    <3> QED
      BY <1>1, <2>1, <3>0, <3>1, <3>2 DEF VerifiedInv, TypeOK
  <2>2. CASE UNCHANGED config /\ ~(Service_Hashing_Download(i) /\ Verify_Download_Hash(i))
    <3>1. \/ UNCHANGED input_state
          \/ /\ input_state[i] = "Decompressing"
             /\ input_state' = [input_state EXCEPT ![i] = "Finished"]
             /\ unpacked[i] \in Version
          \/ \E st \in {"PendingDownload", "Downloading", "HashingDownload"} :
               /\ input_state[i] \notin {"Decompressing", "Finished"}
               /\ input_state' = [input_state EXCEPT ![i] = st]
      BY <2>2 DEF Service_Input, Service_Start, Service_Pending_Download, Service_Downloading, InputInv,
         Service_Hashing_Download, Service_Decompressing, Service_Failed_Input, Enter
    <3> QED
      BY <1>1, <2>2, <3>1 DEF VerifiedInv, TypeOK
  <2> QED
    BY <1>5, <2>1, <2>2
<1>11. StoppedInv'
  BY <1>6 DEF StoppedInv
<1> QED
  BY <1>7, <1>8, <1>9, <1>10, <1>11

(* Service of an output: its package is finished before it is copied.       *)
LEMMA OutputPreserves ==
  ASSUME PackageInv, NEW o \in Output, Service_Output(o)
  PROVE  PackageInv'
<1> USE Types DEF PackageInv
<1>1. /\ phase = "running"
      /\ UNCHANGED <<configFile, manifestFile, installed, mode, input_state, to_clean,
                     downloaded, unpacked, left_over, put_back>>
  BY DEF Service_Output, Servicing, files, history
<1>2. \A i \in Input : o # i
  OBVIOUS
<1>3. CASE Service_Waiting_On_Input(o)
  <2> USE <1>1, <1>2, <1>3 DEF Service_Waiting_On_Input
  <2>1. TypeOK'
    BY DEF TypeOK, EOutputPackageState, EWorkStatus
  <2>2. InputInv'
    BY DEF InputInv, TypeOK
  <2>3. OutputInv'
    BY DEF OutputInv, TypeOK
  <2>4. VerifiedInv' /\ StoppedInv'
    BY DEF VerifiedInv, StoppedInv
  <2> QED
    BY <2>1, <2>2, <2>3, <2>4
<1>4. CASE Service_Copy_And_Hash(o)
  <2>1. /\ config' \in Config /\ config'.download_hash = config.download_hash
        /\ manifest' \in Manifest
    <3>1. CASE Update_Output_Hashes(o)
      <4>1. unpacked[PackageOf[o]] \in Hash /\ config \in Config /\ manifest \in [Output -> Hash]
        BY DEF TypeOK, Manifest
      <4> QED
        BY <3>1, <4>1, OutputHashKept DEF Update_Output_Hashes, Manifest
    <3>2. CASE UNCHANGED <<config, manifest>>
      BY <3>2 DEF TypeOK
    <3> QED
      BY <1>4, <3>1, <3>2 DEF Service_Copy_And_Hash
  <2>2. /\ \/ UNCHANGED <<output_state, status>>
           \/ /\ output_state' = [output_state EXCEPT ![o] = "Finished"]
              /\ status' = [status EXCEPT ![o] = "None"]
        /\ phase' \in {"running", "failed"}
        /\ outcome' \in {"none", "success", "unsaved", "failure"}
        /\ UNCHANGED to_copy
    BY <1>1, <1>4 DEF Service_Copy_And_Hash, Throw, TypeOK
  <2> USE <1>1, <1>2, <2>1, <2>2
  <2>3. TypeOK'
    BY DEF TypeOK, EOutputPackageState, EWorkStatus
  <2>4. InputInv'
    BY DEF InputInv, TypeOK
  <2>5. OutputInv'
    BY DEF OutputInv, TypeOK
  <2>6. VerifiedInv' /\ StoppedInv'
    BY DEF VerifiedInv, StoppedInv
  <2> QED
    BY <2>3, <2>4, <2>5, <2>6
<1> QED
  BY <1>3, <1>4 DEF Service_Output

(* What a worker that copies finds, and adds to a destination. *)
LEMMA CopiedIsVerified ==
  ASSUME PackageInv, NEW o \in Output, Working(o)
  PROVE  /\ unpacked[PackageOf[o]] \in Version
         /\ mode # "GenConfig" =>
              configFile.download_hash[PackageOf[o]] \in {NoHash, unpacked[PackageOf[o]]}
<1>1. /\ PackageOf[o] \in Input
      /\ output_state[o] = "CopyAndHash"
      /\ input_state[PackageOf[o]] = "Finished"
      /\ phase # "stopped"
  BY Types DEF PackageInv, OutputInv, Working
<1>2. unpacked[PackageOf[o]] \in Version
  BY <1>1 DEF PackageInv, OutputInv
<1> QED
  BY <1>1, <1>2, Types DEF PackageInv, InputInv, VerifiedInv

(* A file that is copied replaces those of its name, and has at least the   *)
(* length it should have: just that, if there was none.                     *)
LEMMA CopyEffect ==
  ASSUME NEW o \in Output, NEW f \in File, Copy_And_Hash_File(o, f),
         installed \in [Destination -> SUBSET (Output \X File \X Version \X Nat)],
         NEW d, d = config.destination[o], d \in Destination,
         NEW v, v = unpacked[PackageOf[o]], v \in Version
  PROVE  \E length \in Nat :
           /\ installed' = [installed EXCEPT ![d] =
                (@ \ {file \in installed[d] : file[1] = o /\ file[2] = f}) \cup {<<o, f, v, length>>}]
           /\ (\A file \in installed[d] : ~(file[1] = o /\ file[2] = f)) => length = LengthOf[v]
           /\ installed' \in [Destination -> SUBSET (Output \X File \X Version \X Nat)]
<1> DEFINE old == {file \in installed[d] : file[1] = o /\ file[2] = f}
           lengths == {LengthOf[v]} \cup {file[4] : file \in old}
<1>1. PICK length \in lengths :
        installed' = [installed EXCEPT ![d] = (@ \ old) \cup {<<o, f, v, length>>}]
  BY DEF Copy_And_Hash_File
<1>2. \A file \in old : file[4] \in Nat
  OBVIOUS
<1>3. length \in Nat
  BY <1>2, Types
<1>4. old = {} => length = LengthOf[v]
  OBVIOUS
<1>5. <<o, f, v, length>> \in Output \X File \X Version \X Nat
  BY <1>3
<1>6. installed' \in [Destination -> SUBSET (Output \X File \X Version \X Nat)]
  BY <1>1, <1>5
<1> QED
  BY <1>1, <1>3, <1>4, <1>6

(* The work of the background threads.                                      *)
LEMMA WorkerPreserves ==
  ASSUME PackageInv, NEW x \in Input \cup Output, Worker(x)
  PROVE  PackageInv'
<1> USE Types DEF PackageInv
<1>1. /\ phase # "stopped"
      /\ UNCHANGED <<configFile, manifestFile, phase, mode, config, manifest, input_state,
                     output_state, to_clean, outcome, left_over, put_back>>
  BY DEF Worker, Download_Worker, Hash_Worker, Decompress_Worker, Copy_And_Hash_Worker, Working,
         settings, states, history
<1>2. StoppedInv'
  BY <1>1 DEF StoppedInv
<1>3. CASE x \in Input /\ Download_Worker(x)
  <2> USE <1>1, <1>3 DEF Download_Worker, Working, Complete
  <2>1. TypeOK'
    BY DEF TypeOK, EWorkStatus
  <2>2. InputInv'
    BY DEF InputInv, TypeOK
  <2>3. OutputInv'
    BY DEF OutputInv, TypeOK
  <2>4. VerifiedInv'
    BY DEF VerifiedInv, InputInv, TypeOK
  <2> QED
    BY <1>2, <2>1, <2>2, <2>3, <2>4
<1>4. CASE x \in Input /\ Hash_Worker(x)
  <2> USE <1>1, <1>4 DEF Hash_Worker, Working, Complete
  <2>1. TypeOK'
    BY DEF TypeOK, EWorkStatus
  <2>2. InputInv'
    BY DEF InputInv, TypeOK
  <2>3. OutputInv'
    BY DEF OutputInv, TypeOK
  <2>4. VerifiedInv'
    BY DEF VerifiedInv
  <2> QED
    BY <1>2, <2>1, <2>2, <2>3, <2>4
<1>5. CASE x \in Input /\ Decompress_Worker(x)
  <2> USE <1>1, <1>5 DEF Decompress_Worker, Working, Complete
  <2>1. TypeOK'
    BY DEF TypeOK, EWorkStatus
  <2>2. InputInv'
    <3>1. downloaded[x] \in Version /\ input_state[x] = "Decompressing"
      BY DEF InputInv
    <3>2. \/ /\ status' = [status EXCEPT ![x] = "CompletionSuccess"]
             /\ unpacked' = [unpacked EXCEPT ![x] = downloaded[x]]
          \/ /\ status' = [status EXCEPT ![x] = "CompletionFailure"]
             /\ UNCHANGED unpacked
      OBVIOUS
    <3>3. unpacked' = [unpacked EXCEPT ![x] = downloaded[x]] \/ UNCHANGED unpacked
      BY <3>2
    <3>4. unpacked \in [Input -> Hash] /\ status \in [Input \cup Output -> EWorkStatus]
      BY DEF TypeOK
    <3>5. ASSUME NEW j \in Input, j # x
          PROVE  unpacked'[j] = unpacked[j] /\ status'[j] = status[j]
      BY <3>2, <3>3, <3>4, <3>5
    <3>6. status'[x] = "CompletionSuccess" => unpacked'[x] = downloaded[x]
      BY <3>1, <3>2, <3>4
    <3>7. unpacked'[x] = downloaded[x] \/ unpacked'[x] = unpacked[x]
      BY <3>3, <3>4
    <3> QED
      BY <3>1, <3>5, <3>6, <3>7 DEF InputInv
  <2>3. OutputInv'
    BY DEF OutputInv, TypeOK
  <2>4. VerifiedInv'
    BY DEF VerifiedInv, TypeOK
  <2> QED
    BY <1>2, <2>1, <2>2, <2>3, <2>4
<1>6. CASE x \in Output /\ Copy_And_Hash_Worker(x)
  <2>1. /\ Working(x)
        /\ UNCHANGED <<downloaded, unpacked>>
        /\ \/ UNCHANGED status
           \/ \E result \in {"CompletionSuccess", "CompletionFailure"} : Complete(x, result)
    BY <1>6 DEF Copy_And_Hash_Worker
  <2>2. installed' \in [Destination -> SUBSET (Output \X File \X Version \X Nat)]
    <3>1. CASE UNCHANGED installed
      BY <3>1 DEF TypeOK
    <3>2. CASE \E f \in to_copy[x] : Copy_And_Hash_File(x, f)
      <4>1. PICK f \in to_copy[x] : Copy_And_Hash_File(x, f)
        BY <3>2
      <4>2. config.destination[x] \in Destination /\ unpacked[PackageOf[x]] \in Version
        <5>1. config \in Config
          BY DEF TypeOK
        <5>2. config.destination[x] \in Destination
          BY <1>6, <5>1, ConfigType
        <5> QED
          BY <1>6, <2>1, <5>2, CopiedIsVerified
      <4>3. f \in File
        BY <1>6, <4>1 DEF TypeOK
      <4> QED
        BY <1>6, <4>1, <4>2, <4>3, CopyEffect DEF TypeOK
    <3> QED
      BY <1>6, <3>1, <3>2 DEF Copy_And_Hash_Worker
  <2>3. to_copy' \in [Output -> SUBSET File]
    <3>1. to_copy \in [Output -> SUBSET File]
      BY DEF TypeOK
    <3>2. UNCHANGED to_copy \/ \E f \in File : to_copy' = [to_copy EXCEPT ![x] = @ \ {f}]
      <4>1. UNCHANGED to_copy \/ \E f \in to_copy[x] : Copy_And_Hash_File(x, f)
        BY <1>6 DEF Copy_And_Hash_Worker
      <4>2. \A f : Copy_And_Hash_File(x, f) => to_copy' = [to_copy EXCEPT ![x] = @ \ {f}]
        BY DEF Copy_And_Hash_File
      <4> QED
        BY <1>6, <3>1, <4>1, <4>2
    <3> QED
      BY <1>6, <3>1, <3>2
  <2> USE <1>1, <1>6, <2>1 DEF Complete
  <2>4. TypeOK'
    BY <2>2, <2>3 DEF TypeOK, EWorkStatus
  <2>5. InputInv'
    <3>1. \A i \in Input : status'[i] = status[i]
      BY DEF TypeOK
    <3> QED
      BY ONLY <1>1, <2>1, <3>1, InputInv DEF InputInv
  <2>6. OutputInv'
    BY DEF OutputInv, TypeOK, Working
  <2>7. VerifiedInv'
    BY DEF VerifiedInv
  <2> QED
    BY <1>2, <2>4, <2>5, <2>6, <2>7
<1> QED
  BY <1>3, <1>4, <1>5, <1>6 DEF Worker

(* Every step preserves the invariant. *)
LEMMA NextPreserves == PackageInv /\ [Next]_vars => PackageInv'
<1> SUFFICES ASSUME PackageInv, [Next]_vars PROVE PackageInv'
  OBVIOUS
<1>1. CASE \E m \in Modes : Initialize(m) \/ Initialize_Throws(m)
  BY <1>1, StartPreserves
<1>2. CASE \E i \in Input : Service_Input(i)
  BY <1>2, InputPreserves
<1>3. CASE \E o \in Output : Service_Output(o)
  BY <1>3, OutputPreserves
<1>4. CASE \E x \in Input \cup Output : Worker(x)
  BY <1>4, WorkerPreserves
<1>5. CASE \/ \E o \in Output : Clean_Directory(o)
           \/ Begin_Save_Manifest \/ Save_Manifest \/ Save_Config
           \/ Acknowledge_Error \/ Crash \/ Edit_Config
  BY <1>5, FilesPreserve
<1>6. CASE UNCHANGED vars
  BY <1>6 DEF vars, files, settings, states, workers, history, PackageInv, TypeOK, InputInv, OutputInv,
     VerifiedInv, StoppedInv
<1> QED
  BY <1>1, <1>2, <1>3, <1>4, <1>5, <1>6 DEF Next, Run

(* Every state and every worker's status is one that the code has: in       *)
(* particular no package and no output is ever in its Error state.          *)
THEOREM TypesCorrect == Spec => []TypeOK
<1>1. PackageInv => TypeOK
  BY DEF PackageInv
<1> QED
  BY InitInv, NextPreserves, <1>1, PTL DEF Spec

(* A step that adds a file to a destination copies it from a package whose  *)
(* download had the hash of the configuration file.                         *)
LEMMA StepVerified ==
  ASSUME PackageInv, [Next]_vars, NEW o \in Output, NEW d \in Destination,
         NEW file \in installed'[d] \ installed[d], file[1] = o, mode # "GenConfig"
  PROVE  configFile.download_hash[PackageOf[o]] \in {NoHash, file[3]}
<1>1. installed \in [Destination -> SUBSET (Output \X File \X Version \X Nat)]
  BY DEF PackageInv, TypeOK
<1>2. ~UNCHANGED installed
  OBVIOUS
<1>3. ASSUME NEW other \in Output
      PROVE  ~Clean_Directory(other)
  BY <1>1 DEF Clean_Directory, Delete_File, End_Cleaning
<1>4. PICK other \in Output : Copy_And_Hash_Worker(other)
  BY <1>2, <1>3 DEF Next, Run, Initialize, Initialize_Throws, Service_Input, Service_Output, Worker,
     Download_Worker, Hash_Worker, Decompress_Worker, Begin_Save_Manifest, Save_Manifest,
     Save_Config, Acknowledge_Error, Crash, Edit_Config, vars, files
<1>5. PICK f \in to_copy[other] : Copy_And_Hash_File(other, f)
  BY <1>2, <1>4 DEF Copy_And_Hash_Worker
<1>6. /\ config.destination[other] \in Destination
      /\ unpacked[PackageOf[other]] \in Version
      /\ f \in File
  BY <1>4, <1>5, ConfigType, CopiedIsVerified DEF PackageInv, TypeOK, Copy_And_Hash_Worker
<1>7. \E length \in Nat : file = <<other, f, unpacked[PackageOf[other]], length>>
  BY <1>1, <1>5, <1>6, CopyEffect
<1>8. other = o /\ file[3] = unpacked[PackageOf[o]]
  BY <1>7
<1>9. Working(o)
  BY <1>4, <1>8 DEF Copy_And_Hash_Worker
<1> QED
  BY <1>8, <1>9, CopiedIsVerified

(* Nothing is copied to a destination but from a package whose download had *)
(* the hash of the configuration, where that has one.                       *)
THEOREM CopiedIsVerifiedAlways == Spec => OnlyVerifiedIsCopied
<1>1. PackageInv /\ [Next]_vars =>
        [\A o \in Output : \A d \in Destination :
           \A file \in installed'[d] \ installed[d] :
             file[1] = o /\ mode # "GenConfig" =>
               configFile.download_hash[PackageOf[o]] \in {NoHash, file[3]}]_vars
  BY StepVerified
<1> QED
  BY InitInv, NextPreserves, <1>1, PTL DEF Spec, OnlyVerifiedIsCopied

-----------------------------------------------------------------------------
(* What is at the destinations: the invariants that SkippedIsInstalled and  *)
(* SuccessInstalls rest on.                                                 *)

(* The files of an output at its destination. *)
OwnFiles(o) == {file \in installed[config.destination[o]] : file[1] = o}

(* Destinations are cleaned before anything is copied to them. *)
CleanInv ==
  \A o \in to_clean, other \in Output :
    config.destination[other] = config.destination[o] => output_state[other] = "WaitingOnInput"

(* Files of an output in one version, none with anything behind its end. *)
Whole(o, fs, v) == {o} \X fs \X {v} \X {LengthOf[v]}

(* Copying: what is missing at a destination that was cleaned is still to be *)
(* copied.                                                                   *)
CopyInv ==
  \A o \in Output :
    /\ to_copy[o] \subseteq FilesOf[o]
    /\ status[o] = "CompletionSuccess" => to_copy[o] = {}
    /\ output_state[o] = "WaitingOnInput" /\ o \notin to_clean /\ Cleaned(config, o) =>
         OwnFiles(o) = {}
    /\ output_state[o] = "CopyAndHash" /\ Cleaned(config, o) =>
         OwnFiles(o) = Whole(o, FilesOf[o] \ to_copy[o], unpacked[PackageOf[o]])

(* The manifest in memory is right about an output that is built or skipped. *)
Recorded(o) ==
  /\ manifest[o] # NoHash
  /\ config.hash[o] = manifest[o]
  /\ o \notin put_back /\ Cleaned(config, o) => OwnFiles(o) = Whole(o, FilesOf[o], manifest[o])

BuiltInv ==
  phase \in {"running", "saving manifest", "saving config"} =>
    \A o \in Output : output_state[o] = "Finished" =>
      /\ Recorded(o)
      /\ mode # "GenConfig" /\ Consistent(configFile, o) => manifest[o] = configFile.hash[o]

(* What is built goes where the configuration file says, and the manifest   *)
(* file does not yet know of it.                                            *)
DirtyInv ==
  \A o \in Output : output_state[o] # "Finished" =>
    /\ phase \in {"running", "failed"}
    /\ configFile # Torn
    /\ config.destination = configFile.destination
    /\ manifestFile # Torn => o \in Dirty(configFile, manifestFile)

(* The files in the course of a run. *)
SavingInv ==
  /\ phase = "stopped" => to_clean = {}
  /\ phase \in {"running", "saving manifest"} =>
       configFile # Torn /\ config.destination = configFile.destination
  /\ phase = "running" => outcome = "none" /\ (mode = "GenConfig" => manifestFile = NoManifest)
  /\ phase = "failed" => outcome = "failure"
  /\ phase = "saving manifest" =>
       /\ outcome \in {"none", "unsaved"}
       /\ outcome = "unsaved" /\ mode = "GenConfig" => manifestFile = NoManifest
  /\ phase = "saving config" =>
       /\ configFile = Torn
       /\ mode = "GenConfig"
       /\ outcome \in {"success", "unsaved"}
       /\ manifestFile = IF outcome = "success" THEN manifest ELSE NoManifest
  /\ outcome = "success" => phase \in {"stopped", "saving config"}

(* SkippedIsInstalled, while a run is under way too. *)
SkippedInv ==
  configFile # Torn /\ manifestFile # Torn =>
    \A o \in Output \ (Dirty(configFile, manifestFile) \cup put_back) :
      Cleaned(configFile, o) => Installed(configFile, o, configFile.hash[o])

BuildInv ==
  CleanInv /\ CopyInv /\ BuiltInv /\ DirtyInv /\ SavingInv /\ SkippedInv /\ SuccessInstalls

Build == PackageInv /\ BuildInv

-----------------------------------------------------------------------------

(* With no manifest every output is dirty. *)
LEMMA AllDirty ==
  ASSUME NEW c
  PROVE  Dirty(c, NoManifest) = Output
BY DEF Dirty, Up_To_Date, NoManifest

(* An output that is not dirty has the hash of the configuration, and shares *)
(* its destination with no dirty one.                                       *)
LEMMA NotDirty ==
  ASSUME NEW c, NEW m, NEW o \in Output, o \notin Dirty(c, m)
  PROVE  /\ c.hash[o] = m[o] /\ m[o] # NoHash
         /\ \A other \in Dirty(c, m) : c.destination[other] # c.destination[o]
BY DEF Dirty, Up_To_Date

(* Before the first run nothing is installed and everything is dirty. *)
LEMMA InitBuild == Init => Build
<1> SUFFICES ASSUME Init PROVE Build
  OBVIOUS
<1>1. PackageInv
  BY InitInv
<1>2. CleanInv /\ BuiltInv /\ SavingInv /\ SuccessInstalls
  BY DEF Init, CleanInv, BuiltInv, SavingInv, SuccessInstalls
<1>3. CopyInv
  BY Types DEF Init, CopyInv, NoFiles, NoStatus, AllOutputs
<1>4. DirtyInv
  BY DEF Init, DirtyInv, AllOutputs
<1>5. SkippedInv
  BY AllDirty DEF Init, SkippedInv
<1> QED
  BY <1>1, <1>2, <1>3, <1>4, <1>5 DEF Build, BuildInv

(* The files of an output, and what the manifest in memory must say of them, *)
(* depend on its destination, what is there, and what was left over.         *)
LEMMA SameFiles ==
  ASSUME UNCHANGED installed, config'.destination = config.destination
  PROVE  \A o \in Output : OwnFiles(o)' = OwnFiles(o)
BY DEF OwnFiles

LEMMA SameRecord ==
  ASSUME UNCHANGED <<manifest, history>>, config'.destination = config.destination,
         NEW o \in Output, config'.hash[o] = config.hash[o], OwnFiles(o)' = OwnFiles(o)
  PROVE  Recorded(o)' = Recorded(o)
BY DEF Recorded, Cleaned, Whole, history

(* What SkippedInv says stays true while files and history do. *)
LEMMA SameSkipped ==
  ASSUME Build, UNCHANGED <<configFile, manifestFile, installed, history>>
  PROVE  SkippedInv'
BY DEF Build, BuildInv, SkippedInv, Cleaned, Installed, history

(* Installed is what OwnFiles says, of the configuration in memory. *)
LEMMA InstalledOwn ==
  ASSUME Build, NEW o \in Output, NEW v \in Hash, v # NoHash,
         NEW c, c.destination = config.destination
  PROVE  Installed(c, o, v) <=> OwnFiles(o) = Whole(o, FilesOf[o], v)
BY DEF Installed, OwnFiles, Whole, Hash

(* The beginning of a run, which trusts the manifest for what it skips. *)
LEMMA StartBuild ==
  ASSUME Build, NEW m \in Modes, Initialize(m)
  PROVE  BuildInv'
<1> DEFINE dirty == Dirty(Load_Config(m), Load_Manifest(m))
<1>1. /\ phase = "stopped" /\ phase' = "running" /\ mode' = m
      /\ config' = Load_Config(m)
      /\ manifest' = Load_Manifest(m) /\ manifestFile' = Load_Manifest(m)
      /\ output_state' = [o \in Output |-> IF o \in dirty THEN "WaitingOnInput" ELSE "Finished"]
      /\ to_clean' = dirty /\ outcome' = "none" /\ put_back' = put_back \ dirty
      /\ UNCHANGED <<configFile, installed, status, unpacked, to_copy, left_over>>
      /\ configFile # Torn /\ (m = "Normal" => manifestFile # Torn)
  BY DEF Initialize, workers, Readable
<1>2. configFile \in Config
  BY <1>1 DEF Build, PackageInv, TypeOK
<1>3. Load_Config(m).destination = configFile.destination
  BY <1>2 DEF Load_Config, Discard_Hashes, Config
<1>4. m = "Normal" => Load_Config(m) = configFile /\ Load_Manifest(m) = manifestFile
  BY DEF Load_Config, Load_Manifest
<1>5. m # "Normal" => Load_Manifest(m) = NoManifest
  BY DEF Load_Manifest
<1>6. dirty \subseteq Output /\ (m # "Normal" => dirty = Output)
  BY <1>5, AllDirty DEF Dirty
<1>7. dirty = Dirty(configFile, Load_Manifest(m))
  BY <1>4, <1>5, AllDirty
<1>8. \A o \in Output \ dirty :
        /\ m = "Normal"
        /\ config'.hash[o] = manifest'[o] /\ manifest'[o] # NoHash
        /\ o \notin put_back /\ Cleaned(configFile, o) => Installed(configFile, o, manifest'[o])
  BY <1>1, <1>4, <1>6, <1>7, NotDirty DEF Build, BuildInv, SkippedInv
<1>9. \A o \in dirty, other \in Output :
        configFile.destination[other] = configFile.destination[o] => other \in dirty
  BY <1>7 DEF Dirty
<1>10. status = NoStatus
  BY <1>1 DEF Build, PackageInv, StoppedInv
<1> HIDE DEF dirty
<1>11. CleanInv'
  BY <1>1, <1>3, <1>9 DEF CleanInv
<1>12. CopyInv'
  <2>1. ASSUME NEW o \in Output
        PROVE  /\ status'[o] = "None" /\ output_state'[o] # "CopyAndHash"
               /\ output_state'[o] = "WaitingOnInput" => o \in to_clean'
               /\ to_copy'[o] \subseteq FilesOf[o]
    BY <1>1, <1>10 DEF CopyInv, Build, BuildInv, NoStatus
  <2> QED
    BY <2>1 DEF CopyInv
<1>13. BuiltInv'
  <2> SUFFICES ASSUME NEW o \in Output, output_state'[o] = "Finished"
               PROVE  Recorded(o)' /\ manifest'[o] = configFile.hash[o]
    BY <1>1 DEF BuiltInv
  <2>1. o \notin dirty
    BY <1>1
  <2>2. manifest'[o] = configFile.hash[o]
    BY <1>1, <1>4, <1>8, <2>1
  <2>3. Recorded(o)'
    BY <1>1, <1>3, <1>8, <2>1 DEF Recorded, Cleaned, OwnFiles, Whole, Installed
  <2> QED
    BY <2>2, <2>3
<1>14. DirtyInv'
  BY <1>1, <1>3, <1>7 DEF DirtyInv
<1>15. SavingInv'
  BY <1>1, <1>3, <1>5 DEF SavingInv
<1>16. SkippedInv'
  <2> SUFFICES ASSUME NEW o \in Output \ dirty, o \notin put_back, Cleaned(configFile, o)
               PROVE  Installed(configFile, o, configFile.hash[o])'
    BY <1>1, <1>7 DEF SkippedInv, Cleaned
  <2> QED
    BY <1>1, <1>4, <1>8 DEF Installed
<1>17. SuccessInstalls'
  BY <1>1 DEF SuccessInstalls
<1> QED
  BY <1>11, <1>12, <1>13, <1>14, <1>15, <1>16, <1>17 DEF BuildInv

(* A run that cannot read its files leaves them as they are. *)
LEMMA ThrowBuild ==
  ASSUME Build, NEW m \in Modes, Initialize_Throws(m)
  PROVE  BuildInv'
<1>1. /\ phase = "stopped" /\ phase' = "failed" /\ outcome' = "failure"
      /\ UNCHANGED <<configFile, manifestFile, installed, config, manifest, input_state, output_state,
                     to_clean, status, unpacked, to_copy, history>>
  BY DEF Initialize_Throws, Throw, files, states, workers
<1>2. output_state = AllOutputs("Finished") /\ to_clean = {}
  BY <1>1 DEF Build, PackageInv, StoppedInv, BuildInv, SavingInv
<1>3. CleanInv' /\ BuiltInv' /\ SavingInv' /\ SuccessInstalls'
  BY <1>1, <1>2 DEF CleanInv, BuiltInv, SavingInv, SuccessInstalls
<1>4. CopyInv'
  BY <1>1, <1>2 DEF CopyInv, AllOutputs, Build, BuildInv
<1>5. DirtyInv'
  BY <1>1, <1>2 DEF DirtyInv, AllOutputs
<1>6. SkippedInv'
  BY <1>1, SameSkipped
<1> QED
  BY <1>3, <1>4, <1>5, <1>6 DEF BuildInv

(* The process ends, having saved nothing, or all it had to save. *)
LEMMA StopBuild ==
  ASSUME Build, Stop, outcome' = "success" => SuccessInstalls', SkippedInv'
  PROVE  BuildInv'
<1>1. CleanInv' /\ BuiltInv' /\ SavingInv'
  BY DEF Stop, CleanInv, BuiltInv, SavingInv
<1>2. CopyInv' /\ DirtyInv'
  BY Types DEF Stop, CopyInv, DirtyInv, NoFiles, NoStatus, AllOutputs
<1>3. SuccessInstalls'
  BY DEF SuccessInstalls
<1> QED
  BY <1>1, <1>2, <1>3 DEF BuildInv

(* Cleaning a destination, which only outputs to be built are in. When it is *)
(* given up, nothing is claimed of the destination any more; when it is      *)
(* empty, what was left over is gone.                                        *)
LEMMA CleanBuild ==
  ASSUME Build, NEW o \in Output, Clean_Directory(o)
  PROVE  BuildInv'
<1> DEFINE d == config.destination[o]
<1>1. /\ phase = "running" /\ o \in to_clean
      /\ UNCHANGED <<configFile, manifestFile, phase, mode, config, manifest, input_state, output_state,
                     status, unpacked, to_copy, outcome, put_back>>
  BY DEF Clean_Directory, settings, workers
<1>2. /\ to_clean \subseteq Output
      /\ installed \in [Destination -> SUBSET (Output \X File \X Version \X Nat)]
      /\ \A other \in Output : config.destination[other] \in Destination
  BY ConfigType DEF Build, PackageInv, TypeOK
<1>3. \/ /\ to_clean' = to_clean \ {o} /\ UNCHANGED installed
         /\ \/ installed[d] = {} /\ left_over' = left_over \ {d}
            \/ left_over' = left_over \cup {d}
      \/ /\ UNCHANGED <<to_clean, left_over>>
         /\ \E file \in installed[d] : installed' = [installed EXCEPT ![d] = @ \ {file}]
  BY DEF Clean_Directory, Delete_File, End_Cleaning
<1>4. /\ \A e \in Destination \ {d} : installed'[e] = installed[e]
      /\ \A e \in Destination : installed'[e] \subseteq installed[e]
  BY <1>2, <1>3
<1>5. \A other \in Output :
        /\ OwnFiles(other)' \subseteq OwnFiles(other)
        /\ config.destination[other] # d =>
             /\ OwnFiles(other)' = OwnFiles(other)
             /\ Cleaned(config, other)' = Cleaned(config, other)
  BY <1>1, <1>2, <1>3, <1>4 DEF OwnFiles, Cleaned
<1>6. \A other \in Output : config.destination[other] = d => output_state[other] = "WaitingOnInput"
  BY <1>1 DEF Build, BuildInv, CleanInv
<1>7. configFile # Torn /\ config.destination = configFile.destination
  BY <1>1 DEF Build, BuildInv, SavingInv
<1>8. CleanInv'
  BY <1>1, <1>3 DEF Build, BuildInv, CleanInv
<1>9. CopyInv'
  <2> SUFFICES ASSUME NEW other \in Output, Cleaned(config, other)'
               PROVE  /\ output_state[other] = "WaitingOnInput" /\ other \notin to_clean'
                           => OwnFiles(other)' = {}
                      /\ output_state[other] = "CopyAndHash" =>
                           OwnFiles(other)' = OwnFiles(other) /\ Cleaned(config, other)
    BY <1>1 DEF CopyInv, Build, BuildInv
  <2>1. CASE config.destination[other] = d
    <3>1. output_state[other] = "WaitingOnInput"
      BY <1>6, <2>1
    <3>2. CASE installed[d] = {} /\ UNCHANGED installed
      BY <1>1, <2>1, <3>1, <3>2 DEF OwnFiles
    <3>3. CASE UNCHANGED <<to_clean, left_over>>
      <4>1. Cleaned(config, other)
        BY <1>1, <3>3 DEF Cleaned
      <4> QED
        BY <1>5, <3>1, <3>3, <4>1 DEF CopyInv, Build, BuildInv
    <3>4. CASE left_over' = left_over \cup {d}
      BY <1>1, <2>1, <3>4 DEF Cleaned
    <3> QED
      BY <1>3, <3>2, <3>3, <3>4
  <2>2. CASE config.destination[other] # d
    <3>1. other # o /\ (other \notin to_clean' => other \notin to_clean)
      BY <1>3, <2>2
    <3> QED
      BY <1>5, <2>2, <3>1 DEF CopyInv, Build, BuildInv
  <2> QED
    BY <2>1, <2>2
<1>10. BuiltInv'
  <2> SUFFICES ASSUME NEW other \in Output, output_state[other] = "Finished"
               PROVE  /\ Recorded(other)'
                      /\ mode # "GenConfig" /\ Consistent(configFile, other) =>
                           manifest[other] = configFile.hash[other]
    BY <1>1 DEF BuiltInv, Consistent
  <2>1. config.destination[other] # d
    BY <1>6
  <2> QED
    BY <1>1, <1>5, <2>1 DEF BuiltInv, Recorded, Whole, Build, BuildInv
<1>11. DirtyInv' /\ SavingInv' /\ SuccessInstalls'
  BY <1>1 DEF DirtyInv, SavingInv, SuccessInstalls, Build, BuildInv
<1>12. SkippedInv'
  <2> SUFFICES ASSUME manifestFile # Torn, NEW other \in Output \ Dirty(configFile, manifestFile)
               PROVE  /\ installed'[configFile.destination[other]] = installed[configFile.destination[other]]
                      /\ Cleaned(configFile, other)' = Cleaned(configFile, other)
    BY <1>1, <1>7 DEF SkippedInv, Installed, Build, BuildInv
  <2>1. o \in Dirty(configFile, manifestFile)
    BY <1>1, <1>6, <1>2 DEF DirtyInv, Build, BuildInv
  <2>2. configFile.destination[other] # d
    BY <1>7, <2>1, NotDirty
  <2> QED
    BY <1>1, <1>2, <1>4, <1>5, <1>7, <2>2 DEF Cleaned
<1> QED
  BY <1>8, <1>9, <1>10, <1>11, <1>12 DEF BuildInv

(* Steps that change nothing at the destinations, nor any output. *)
LEMMA QuietBuild ==
  ASSUME Build,
         UNCHANGED <<configFile, manifestFile, installed, mode, manifest, output_state, to_clean,
                     to_copy, history>>,
         config'.destination = config.destination, config'.hash = config.hash,
         \/ UNCHANGED <<phase, outcome>>
         \/ phase = "running" /\ phase' = "failed" /\ outcome' = "failure",
         \A o \in Output : /\ status'[o] = status[o]
                           /\ output_state[o] = "CopyAndHash" =>
                                unpacked'[PackageOf[o]] = unpacked[PackageOf[o]]
  PROVE  BuildInv'
<1> USE DEF Build, BuildInv
<1>1. \A o \in Output : /\ OwnFiles(o)' = OwnFiles(o)
                        /\ Cleaned(config, o)' = Cleaned(config, o)
                        /\ Recorded(o)' = Recorded(o)
  BY SameFiles, SameRecord DEF Cleaned, history
<1>2. CleanInv'
  BY DEF CleanInv
<1>3. CopyInv'
  BY <1>1 DEF CopyInv, Whole
<1>4. BuiltInv'
  BY <1>1 DEF BuiltInv, Consistent
<1>5. DirtyInv'
  BY DEF DirtyInv
<1>6. SavingInv'
  BY DEF SavingInv
<1>7. SkippedInv'
  BY SameSkipped
<1>8. SuccessInstalls'
  BY DEF SuccessInstalls, SavingInv, Cleaned, Installed, Consistent, history
<1> QED
  BY <1>2, <1>3, <1>4, <1>5, <1>6, <1>7, <1>8

(* Service of a package. *)
LEMMA InputBuild ==
  ASSUME Build, NEW i \in Input, Service_Input(i)
  PROVE  BuildInv'
<1>1. /\ phase = "running"
      /\ UNCHANGED <<configFile, manifestFile, installed, mode, manifest, output_state, to_clean,
                     unpacked, to_copy, history>>
  BY DEF Service_Input, Servicing, files
<1>2. \/ UNCHANGED <<phase, outcome>>
      \/ phase' = "failed" /\ outcome' = "failure"
  BY DEF Service_Input, Service_Start, Service_Pending_Download, Service_Downloading, Throw,
     Service_Hashing_Download, Service_Decompressing, Service_Failed_Input
<1>3. config'.destination = config.destination /\ config'.hash = config.hash
  <2>1. config \in Config
    BY DEF Build, PackageInv, TypeOK
  <2>2. UNCHANGED config \/ config' = [config EXCEPT !.download_hash[i] = downloaded[i]]
    BY DEF Service_Input, Service_Start, Service_Pending_Download, Service_Downloading,
       Service_Hashing_Download, Service_Decompressing, Service_Failed_Input
  <2> QED
    BY <2>1, <2>2 DEF Config
<1>4. \A o \in Output : status'[o] = status[o]
  <2>1. UNCHANGED status \/ \E new \in {"InProgress", "None"} : status' = [status EXCEPT ![i] = new]
    BY DEF Service_Input, Service_Start, Service_Pending_Download, Service_Downloading, Enter,
       Service_Hashing_Download, Service_Decompressing, Service_Failed_Input
  <2>2. status \in [Input \cup Output -> EWorkStatus] /\ \A o \in Output : o # i
    BY Types DEF Build, PackageInv, TypeOK
  <2> QED
    BY <2>1, <2>2
<1> QED
  BY <1>1, <1>2, <1>3, <1>4, QuietBuild

(* Service of an output. *)
LEMMA OutputBuild ==
  ASSUME Build, NEW o \in Output, Service_Output(o)
  PROVE  BuildInv'
<1>1. /\ phase = "running" /\ to_clean = {}
      /\ UNCHANGED <<configFile, manifestFile, installed, mode, input_state, to_clean, unpacked,
                     left_over, put_back>>
  BY DEF Service_Output, Servicing, files, history
<1>2. /\ output_state \in [Output -> EOutputPackageState]
      /\ status \in [Input \cup Output -> EWorkStatus]
      /\ to_copy \in [Output -> SUBSET File]
      /\ config \in Config /\ manifest \in [Output -> Hash]
  BY DEF Build, PackageInv, TypeOK, Manifest
<1>3. configFile # Torn /\ config.destination = configFile.destination
  BY <1>1 DEF Build, BuildInv, SavingInv
<1>4. CASE Service_Waiting_On_Input(o)
  <2>1. /\ output_state[o] = "WaitingOnInput"
        /\ output_state' = [output_state EXCEPT ![o] = "CopyAndHash"]
        /\ status' = [status EXCEPT ![o] = "InProgress"]
        /\ to_copy' = [to_copy EXCEPT ![o] = FilesOf[o]]
        /\ UNCHANGED <<phase, config, manifest, outcome>>
    BY <1>4 DEF Service_Waiting_On_Input
  <2>2. \A other \in Output : /\ OwnFiles(other)' = OwnFiles(other)
                              /\ Cleaned(config, other)' = Cleaned(config, other)
                              /\ Recorded(other)' = Recorded(other)
    BY <1>1, <2>1, SameFiles, SameRecord DEF Cleaned, history
  <2>3. CleanInv'
    BY <1>1 DEF CleanInv
  <2>4. CopyInv'
    <3>1. /\ to_copy'[o] = FilesOf[o] /\ output_state'[o] = "CopyAndHash" /\ status'[o] = "InProgress"
          /\ \A other \in Output \ {o} : /\ to_copy'[other] = to_copy[other]
                                         /\ output_state'[other] = output_state[other]
                                         /\ status'[other] = status[other]
      BY <1>2, <2>1
    <3>2. Cleaned(config, o) => OwnFiles(o)' = {}
      BY <1>1, <2>1, <2>2 DEF CopyInv, Build, BuildInv
    <3>3. Whole(o, {}, unpacked[PackageOf[o]]) = {}
      BY DEF Whole
    <3> QED
      BY <1>1, <2>2, <3>1, <3>2, <3>3 DEF CopyInv, Whole, Build, BuildInv
  <2>5. BuiltInv'
    BY <1>1, <1>2, <2>1, <2>2 DEF BuiltInv, Consistent, Build, BuildInv
  <2>6. DirtyInv'
    BY <1>1, <1>2, <2>1 DEF DirtyInv, Build, BuildInv
  <2>7. SavingInv' /\ SuccessInstalls'
    BY <1>1, <2>1 DEF SavingInv, SuccessInstalls, Build, BuildInv
  <2>8. SkippedInv'
    BY <1>1, SameSkipped DEF history
  <2> QED
    BY <2>3, <2>4, <2>5, <2>6, <2>7, <2>8 DEF BuildInv
<1>5. CASE Service_Copy_And_Hash(o) /\ status[o] = "CompletionFailure"
  <2>1. /\ phase' = "failed" /\ outcome' = "failure"
        /\ UNCHANGED <<config, manifest, output_state, status, to_copy>>
    BY <1>5 DEF Service_Copy_And_Hash, Throw
  <2> QED
    BY <1>1, <2>1, QuietBuild DEF history
<1>6. CASE Service_Copy_And_Hash(o) /\ status[o] = "CompletionSuccess"
  <2> DEFINE v == unpacked[PackageOf[o]]
  <2>1. /\ output_state[o] = "CopyAndHash"
        /\ Update_Output_Hashes(o)
        /\ output_state' = [output_state EXCEPT ![o] = "Finished"]
        /\ status' = [status EXCEPT ![o] = "None"]
        /\ UNCHANGED <<phase, outcome, to_copy>>
    BY <1>6 DEF Service_Copy_And_Hash
  <2>2. /\ manifest' = [manifest EXCEPT ![o] = v]
        /\ config'.destination = config.destination
        /\ config'.hash = [config.hash EXCEPT ![o] = v]
        /\ config.hash \in [Output -> Hash]
    BY <1>2, <2>1, ConfigType DEF Update_Output_Hashes, Config
  <2>3. v # NoHash
    BY <2>1, Types DEF Build, PackageInv, OutputInv
  <2>4. \A other \in Output : /\ OwnFiles(other)' = OwnFiles(other)
                              /\ Cleaned(config, other)' = Cleaned(config, other)
    BY <1>1, <2>2, SameFiles DEF Cleaned
  <2>5. Cleaned(config, o) => OwnFiles(o) = Whole(o, FilesOf[o], v)
    BY <1>6, <2>1 DEF CopyInv, Build, BuildInv
  <2>6. mode # "GenConfig" /\ Consistent(configFile, o) => v = configFile.hash[o]
    BY <1>1, <2>3, Types DEF Build, PackageInv, InputInv, VerifiedInv, Consistent
  <2> HIDE DEF v
  <2>7. CleanInv'
    BY <1>1 DEF CleanInv
  <2>8. CopyInv'
    BY <1>1, <1>2, <2>1, <2>4 DEF CopyInv, Whole, Build, BuildInv
  <2>9. BuiltInv'
    <3>1. Recorded(o)'
      BY <1>1, <1>2, <2>2, <2>3, <2>4, <2>5 DEF Recorded, Whole
    <3>2. ASSUME NEW other \in Output \ {o}
          PROVE  /\ output_state'[other] = output_state[other]
                 /\ manifest'[other] = manifest[other]
                 /\ Recorded(other) => Recorded(other)'
      BY <1>1, <1>2, <2>1, <2>2, <2>4 DEF Recorded, Whole
    <3>3. manifest'[o] = v
      BY <1>2, <2>2
    <3>4. \A other \in Output : Consistent(configFile, other)' = Consistent(configFile, other)
      BY <1>1 DEF Consistent
    <3> QED
      BY <1>1, <2>1, <2>6, <3>1, <3>2, <3>3, <3>4 DEF BuiltInv, Build, BuildInv
  <2>10. DirtyInv'
    BY <1>1, <1>2, <2>1, <2>2 DEF DirtyInv, Build, BuildInv
  <2>11. SavingInv' /\ SuccessInstalls'
    BY <1>1, <2>1, <2>2 DEF SavingInv, SuccessInstalls, Build, BuildInv
  <2>12. SkippedInv'
    BY <1>1, SameSkipped DEF history
  <2> QED
    BY <2>7, <2>8, <2>9, <2>10, <2>11, <2>12 DEF BuildInv
<1> QED
  BY <1>4, <1>5, <1>6 DEF Service_Output, Service_Copy_And_Hash

(* One file more at the destination of an output, none of another output. *)
LEMMA OneFileMore ==
  ASSUME Build, NEW o \in Output, Working(o), NEW f \in to_copy[o],
         Copy_And_Hash_File(o, f), UNCHANGED config
  PROVE  /\ Cleaned(config, o) =>
              OwnFiles(o)' = Whole(o, FilesOf[o] \ to_copy'[o], unpacked[PackageOf[o]])
         /\ to_copy' = [to_copy EXCEPT ![o] = @ \ {f}]
         /\ \A d \in Destination : d # config.destination[o] => installed'[d] = installed[d]
         /\ \A d \in Destination, other \in Output \ {o} :
              {file \in installed'[d] : file[1] = other} = {file \in installed[d] : file[1] = other}
<1> DEFINE d == config.destination[o]
           v == unpacked[PackageOf[o]]
           old == {file \in installed[d] : file[1] = o /\ file[2] = f}
<1>1. /\ installed \in [Destination -> SUBSET (Output \X File \X Version \X Nat)]
      /\ to_copy \in [Output -> SUBSET File]
      /\ d \in Destination /\ f \in File
  BY ConfigType DEF Build, PackageInv, TypeOK
<1>2. v \in Version /\ output_state[o] = "CopyAndHash"
  BY CopiedIsVerified DEF Build, PackageInv, OutputInv, Working
<1>3. PICK length \in Nat :
        /\ installed' = [installed EXCEPT ![d] = (@ \ old) \cup {<<o, f, v, length>>}]
        /\ old = {} => length = LengthOf[v]
  <2>1. ASSUME NEW e, e = d, NEW w, w = v
        PROVE  \E length \in Nat :
                 /\ installed' = [installed EXCEPT ![e] =
                      (@ \ {file \in installed[e] : file[1] = o /\ file[2] = f}) \cup {<<o, f, w, length>>}]
                 /\ (\A file \in installed[e] : ~(file[1] = o /\ file[2] = f)) => length = LengthOf[w]
    <3>1. e = config.destination[o] /\ w = unpacked[PackageOf[o]]
      BY <2>1
    <3>2. e \in Destination /\ w \in Version
      BY <1>1, <1>2, <2>1
    <3> HIDE DEF d, v
    <3> QED
      BY <1>1, <3>1, <3>2, CopyEffect
  <2> QED
    BY <2>1
<1>4. to_copy' = [to_copy EXCEPT ![o] = @ \ {f}]
  BY DEF Copy_And_Hash_File
<1>5. f \in FilesOf[o]
  BY DEF Build, BuildInv, CopyInv
<1>6. installed'[d] = (installed[d] \ old) \cup {<<o, f, v, length>>}
  BY <1>1, <1>3
<1>7. to_copy'[o] = to_copy[o] \ {f}
  BY <1>1, <1>4
<1>8. ASSUME Cleaned(config, o)
      PROVE  OwnFiles(o)' = Whole(o, FilesOf[o] \ to_copy'[o], v)
  <2>1. OwnFiles(o) = Whole(o, FilesOf[o] \ to_copy[o], v)
    BY <1>2, <1>8 DEF Build, BuildInv, CopyInv
  <2> HIDE DEF v
  <2>2. ASSUME NEW file \in installed[d], file[1] = o
        PROVE  file[2] # f
    <3>1. file \in {o} \X (FilesOf[o] \ to_copy[o]) \X {v} \X {LengthOf[v]}
      BY <2>1, <2>2 DEF OwnFiles, Whole
    <3> QED
      BY <3>1
  <2>3. old = {} /\ length = LengthOf[v]
    BY <1>3, <2>2
  <2>4. {file \in installed'[d] : file[1] = o} =
          {file \in installed[d] : file[1] = o} \cup {<<o, f, v, LengthOf[v]>>}
    BY <1>6, <2>3
  <2>5. OwnFiles(o)' = Whole(o, FilesOf[o] \ to_copy[o], v) \cup {<<o, f, v, LengthOf[v]>>}
    BY <2>1, <2>4 DEF OwnFiles
  <2>6. FilesOf[o] \ to_copy'[o] = (FilesOf[o] \ to_copy[o]) \cup {f}
    BY <1>5, <1>7
  <2> QED
    BY <2>5, <2>6 DEF Whole
<1>9. ASSUME NEW e \in Destination, e # d
      PROVE  installed'[e] = installed[e]
  BY <1>1, <1>3, <1>9
<1>10. ASSUME NEW e \in Destination, NEW other \in Output \ {o}
       PROVE  {file \in installed'[e] : file[1] = other} = {file \in installed[e] : file[1] = other}
  <2>1. CASE e = d
    <3>1. \A file \in installed[d] : file[1] = other => file \in installed'[d]
      BY <1>6
    <3>2. \A file \in installed'[d] : file[1] = other => file \in installed[d]
      BY <1>6
    <3> QED
      BY <2>1, <3>1, <3>2
  <2> QED
    BY <1>9, <2>1
<1> QED
  BY <1>4, <1>8, <1>9, <1>10

(* A worker that copies a file. *)
LEMMA CopyBuild ==
  ASSUME Build, NEW o \in Output, Working(o), NEW f \in to_copy[o], Copy_And_Hash_File(o, f),
         UNCHANGED <<configFile, manifestFile, phase, mode, config, manifest, output_state, to_clean,
                     status, unpacked, outcome, history>>
  PROVE  BuildInv'
<1>1. output_state[o] = "CopyAndHash" /\ status[o] = "InProgress"
  BY DEF Working, Build, PackageInv, OutputInv
<1>2. /\ Cleaned(config, o) =>
           OwnFiles(o)' = Whole(o, FilesOf[o] \ to_copy'[o], unpacked[PackageOf[o]])
      /\ to_copy' = [to_copy EXCEPT ![o] = @ \ {f}]
      /\ \A d \in Destination : d # config.destination[o] => installed'[d] = installed[d]
      /\ \A d \in Destination, other \in Output \ {o} :
           {file \in installed'[d] : file[1] = other} = {file \in installed[d] : file[1] = other}
  BY OneFileMore
<1>3. to_copy \in [Output -> SUBSET File] /\ \A other \in Output : config.destination[other] \in Destination
  BY ConfigType DEF Build, PackageInv, TypeOK
<1>4. \A other \in Output : Cleaned(config, other)' = Cleaned(config, other)
  BY DEF Cleaned, history
<1>5. \A other \in Output \ {o} : OwnFiles(other)' = OwnFiles(other) /\ Recorded(other)' = Recorded(other)
  <2>1. \A other \in Output \ {o} : OwnFiles(other)' = OwnFiles(other)
    BY <1>2, <1>3 DEF OwnFiles
  <2> QED
    BY <2>1, SameRecord
<1>6. CleanInv' /\ DirtyInv'
  BY DEF CleanInv, DirtyInv, Build, BuildInv
<1>7. CopyInv'
  <2>1. ASSUME NEW other \in Output \ {o}
        PROVE  to_copy'[other] = to_copy[other]
    BY <1>2, <1>3
  <2>2. to_copy'[o] \subseteq FilesOf[o]
    BY <1>2, <1>3 DEF CopyInv, Build, BuildInv
  <2> QED
    BY <1>1, <1>2, <1>4, <1>5, <2>1, <2>2 DEF CopyInv, Whole, Build, BuildInv
<1>8. BuiltInv'
  <2> SUFFICES ASSUME NEW other \in Output, output_state[other] = "Finished",
                      phase \in {"running", "saving manifest", "saving config"}
               PROVE  /\ Recorded(other)'
                      /\ mode # "GenConfig" /\ Consistent(configFile, other) =>
                           manifest[other] = configFile.hash[other]
    BY DEF BuiltInv, Consistent
  <2>1. other # o
    BY <1>1
  <2> QED
    BY <1>5, <2>1 DEF BuiltInv, Build, BuildInv
<1>9. phase \in {"running", "failed"} /\ configFile # Torn /\ config.destination = configFile.destination
      /\ (manifestFile # Torn => o \in Dirty(configFile, manifestFile))
  BY <1>1 DEF DirtyInv, Build, BuildInv
<1>10. SavingInv' /\ SuccessInstalls'
  BY <1>9 DEF SavingInv, SuccessInstalls, Build, BuildInv
<1>11. SkippedInv'
  <2> SUFFICES ASSUME manifestFile # Torn, NEW other \in Output \ Dirty(configFile, manifestFile)
               PROVE  installed'[configFile.destination[other]] = installed[configFile.destination[other]]
    BY <1>9 DEF SkippedInv, Installed, Cleaned, Build, BuildInv, history
  <2> QED
    BY <1>2, <1>3, <1>9, NotDirty
<1> QED
  BY <1>6, <1>7, <1>8, <1>10, <1>11 DEF BuildInv

(* The work of the background threads. *)
LEMMA WorkerBuild ==
  ASSUME Build, NEW x \in Input \cup Output, Worker(x)
  PROVE  BuildInv'
<1>1. UNCHANGED <<configFile, manifestFile, phase, mode, config, manifest, input_state,
                  output_state, to_clean, outcome, left_over, put_back>>
  BY DEF Worker, settings, states, history
<1>2. status \in [Input \cup Output -> EWorkStatus] /\ unpacked \in [Input -> Hash]
  BY DEF Build, PackageInv, TypeOK
<1>3. CASE x \in Input /\ (Download_Worker(x) \/ Hash_Worker(x) \/ Decompress_Worker(x))
  <2>1. UNCHANGED <<installed, to_copy>>
    BY <1>3 DEF Download_Worker, Hash_Worker, Decompress_Worker
  <2>2. \A o \in Output : status'[o] = status[o]
    BY <1>2, <1>3, Types DEF Download_Worker, Hash_Worker, Decompress_Worker, Complete
  <2>3. ASSUME NEW o \in Output, output_state[o] = "CopyAndHash"
        PROVE  unpacked'[PackageOf[o]] = unpacked[PackageOf[o]]
    <3>1. input_state[PackageOf[o]] = "Finished" /\ PackageOf[o] \in Input
      BY <2>3, Types DEF Build, PackageInv, OutputInv
    <3>2. \/ UNCHANGED unpacked
          \/ /\ input_state[x] = "Decompressing"
             /\ unpacked' = [unpacked EXCEPT ![x] = downloaded[x]]
      BY <1>3 DEF Download_Worker, Hash_Worker, Decompress_Worker
    <3> QED
      BY <1>2, <3>1, <3>2
  <2> QED
    BY <1>1, <2>1, <2>2, <2>3, QuietBuild DEF history
<1>4. CASE x \in Output /\ \E f \in to_copy[x] : Copy_And_Hash_File(x, f) /\ Copy_And_Hash_Worker(x)
                                                 /\ UNCHANGED status
  <2>1. UNCHANGED unpacked /\ Working(x)
    BY <1>4 DEF Copy_And_Hash_Worker
  <2> QED
    BY <1>1, <1>4, <2>1, CopyBuild DEF history
<1>5. CASE /\ x \in Output /\ Copy_And_Hash_Worker(x)
           /\ UNCHANGED <<installed, to_copy>>
           /\ \/ to_copy[x] = {} /\ Complete(x, "CompletionSuccess")
              \/ Complete(x, "CompletionFailure")
  <2>1. \A o \in Output : /\ OwnFiles(o)' = OwnFiles(o)
                          /\ Cleaned(config, o)' = Cleaned(config, o)
                          /\ Recorded(o)' = Recorded(o)
    BY <1>1, <1>5, SameFiles, SameRecord DEF Cleaned, history
  <2>2. UNCHANGED unpacked
    BY <1>5 DEF Copy_And_Hash_Worker
  <2>3. CopyInv'
    BY <1>1, <1>2, <1>5, <2>1, <2>2 DEF CopyInv, Whole, Complete, Build, BuildInv
  <2>4. CleanInv' /\ DirtyInv' /\ SavingInv'
    BY <1>1 DEF CleanInv, DirtyInv, SavingInv, Build, BuildInv
  <2>5. BuiltInv'
    BY <1>1, <2>1 DEF BuiltInv, Consistent, Build, BuildInv
  <2>6. SuccessInstalls'
    BY <1>1, <1>5 DEF SuccessInstalls, Cleaned, Consistent, Installed, Build, BuildInv
  <2>7. SkippedInv'
    BY <1>1, <1>5, SameSkipped DEF history
  <2> QED
    BY <2>3, <2>4, <2>5, <2>6, <2>7 DEF BuildInv
<1> QED
  BY <1>3, <1>4, <1>5 DEF Worker, Copy_And_Hash_Worker

(* The manifest file is opened when every output is built or was skipped. *)
LEMMA BeginSaveBuild ==
  ASSUME Build, Begin_Save_Manifest
  PROVE  BuildInv'
<1>1. /\ phase = "running" /\ phase' = "saving manifest" /\ to_clean = {}
      /\ \A o \in Output : output_state[o] = "Finished"
      /\ \/ manifestFile' = Torn /\ UNCHANGED outcome
         \/ outcome' = "unsaved" /\ UNCHANGED manifestFile
      /\ UNCHANGED <<configFile, installed, mode, config, manifest, output_state, to_clean, status,
                     unpacked, to_copy, history>>
  BY DEF Begin_Save_Manifest, Servicing, settings, states, workers
<1>2. \A o \in Output : /\ OwnFiles(o)' = OwnFiles(o)
                        /\ Recorded(o)' = Recorded(o)
  BY <1>1, SameFiles, SameRecord
<1>3. CleanInv' /\ DirtyInv' /\ SuccessInstalls'
  BY <1>1 DEF CleanInv, DirtyInv, SuccessInstalls
<1>4. CopyInv'
  BY <1>1, <1>2 DEF CopyInv, Whole, Build, BuildInv
<1>5. BuiltInv'
  BY <1>1, <1>2 DEF BuiltInv, Consistent, Build, BuildInv
<1>6. SavingInv'
  BY <1>1 DEF SavingInv, Build, BuildInv
<1>7. SkippedInv'
  <2>1. CASE manifestFile' = Torn
    BY <2>1 DEF SkippedInv
  <2>2. CASE UNCHANGED manifestFile
    BY <1>1, <2>2, SameSkipped
  <2> QED
    BY <1>1, <2>1, <2>2
<1> QED
  BY <1>3, <1>4, <1>5, <1>6, <1>7 DEF BuildInv

(* While files are saved all outputs are as the manifest in memory says. *)
LEMMA AllBuilt ==
  ASSUME Build, phase \in {"saving manifest", "saving config"}, NEW o \in Output
  PROVE  /\ Recorded(o)
         /\ mode # "GenConfig" /\ Consistent(configFile, o) => manifest[o] = configFile.hash[o]
         /\ \A c : c.destination = config.destination /\ o \notin put_back /\ Cleaned(c, o)
                     => Installed(c, o, manifest[o])
<1>1. /\ Recorded(o)
      /\ mode # "GenConfig" /\ Consistent(configFile, o) => manifest[o] = configFile.hash[o]
  BY DEF BuiltInv, DirtyInv, Build, BuildInv
<1>2. manifest[o] \in Hash
  BY DEF Build, PackageInv, TypeOK, Manifest
<1> QED
  BY <1>1, <1>2, InstalledOwn DEF Recorded, Cleaned

(* The manifest file agrees with what is at the destinations. *)
LEMMA SaveManifestBuild ==
  ASSUME Build, Save_Manifest
  PROVE  BuildInv'
<1>1. /\ phase = "saving manifest"
      /\ manifestFile' = IF outcome = "unsaved" THEN manifestFile ELSE manifest
      /\ outcome' \in {Saved, "unsaved"}
      /\ UNCHANGED <<installed, history>>
  BY DEF Save_Manifest, Saved
<1>2. /\ configFile # Torn /\ config.destination = configFile.destination
      /\ outcome \in {"none", "unsaved"}
      /\ outcome = "unsaved" /\ mode = "GenConfig" => manifestFile = NoManifest
  BY <1>1 DEF Build, BuildInv, SavingInv
<1>3. CASE /\ mode = "GenConfig" /\ phase' = "saving config" /\ outcome' = Saved /\ configFile' = Torn
           /\ UNCHANGED <<settings, states, workers>>
  <2>1. UNCHANGED <<mode, config, manifest, output_state, to_clean, status, unpacked, to_copy>>
    BY <1>3 DEF settings, states, workers
  <2>2. \A o \in Output : OwnFiles(o)' = OwnFiles(o) /\ Recorded(o)' = Recorded(o)
    BY <1>1, <2>1, SameFiles, SameRecord
  <2>3. CleanInv'
    BY <1>1, <2>1 DEF CleanInv, Build, BuildInv
  <2>4. CopyInv'
    BY <1>1, <2>1, <2>2 DEF CopyInv, Whole, Cleaned, Build, BuildInv, history
  <2>5. BuiltInv'
    BY <1>1, <1>3, <2>1, <2>2, AllBuilt DEF BuiltInv
  <2>6. DirtyInv'
    BY <1>1, <2>1 DEF DirtyInv, Build, BuildInv
  <2>7. SavingInv'
    BY <1>1, <1>2, <1>3, <2>1 DEF SavingInv, Saved
  <2>8. SkippedInv' /\ SuccessInstalls'
    BY <1>3 DEF SkippedInv, SuccessInstalls
  <2> QED
    BY <2>3, <2>4, <2>5, <2>6, <2>7, <2>8 DEF BuildInv
<1>4. CASE Stop /\ UNCHANGED configFile /\ (mode = "GenConfig" => outcome' = "unsaved")
  <2>1. outcome' = "success" => SuccessInstalls'
    <3> SUFFICES ASSUME outcome' = "success", NEW o \in Output
                 PROVE  /\ o \notin put_back /\ Cleaned(configFile, o) =>
                             Installed(configFile, o, manifest[o])
                        /\ Consistent(configFile, o) => manifest[o] = configFile.hash[o]
      BY <1>1, <1>4 DEF SuccessInstalls, Installed, Cleaned, Consistent, Saved, history
    <3> QED
      BY <1>1, <1>2, <1>4, AllBuilt
  <2>2. SkippedInv'
    <3>1. CASE outcome = "unsaved"
      BY <1>1, <1>4, <3>1, SameSkipped
    <3>2. CASE outcome # "unsaved"
      <4> SUFFICES ASSUME NEW o \in Output \ (Dirty(configFile, manifest) \cup put_back),
                          Cleaned(configFile, o)
                   PROVE  Installed(configFile, o, configFile.hash[o])
        BY <1>1, <1>4, <3>2 DEF SkippedInv, Installed, Cleaned, history
      <4>1. configFile.hash[o] = manifest[o]
        BY NotDirty
      <4> QED
        BY <1>1, <1>2, <4>1, AllBuilt
    <3> QED
      BY <3>1, <3>2
  <2> QED
    BY <1>4, <2>1, <2>2, StopBuild
<1> QED
  BY <1>3, <1>4 DEF Save_Manifest

(* The configuration file that is generated agrees with both. *)
LEMMA SaveConfigBuild ==
  ASSUME Build, Save_Config
  PROVE  BuildInv'
<1>1. /\ phase = "saving config" /\ configFile' = config /\ Stop
      /\ UNCHANGED <<manifestFile, installed, outcome, history>>
  BY DEF Save_Config
<1>2. manifestFile = IF outcome = "success" THEN manifest ELSE NoManifest
  BY <1>1 DEF Build, BuildInv, SavingInv
<1>3. \A o \in Output : /\ config.hash[o] = manifest[o]
                        /\ o \notin put_back /\ Cleaned(config, o) => Installed(config, o, manifest[o])
  BY <1>1, AllBuilt DEF Recorded
<1>4. outcome' = "success" => SuccessInstalls'
  <2> SUFFICES ASSUME outcome = "success"
               PROVE  \A o \in Output :
                        /\ o \notin put_back /\ Cleaned(config, o) => Installed(config, o, manifest[o])
                        /\ manifest[o] = config.hash[o]
    BY <1>1, <1>2 DEF SuccessInstalls, Installed, Cleaned, Consistent, history
  <2> QED
    BY <1>3
<1>5. SkippedInv'
  <2> SUFFICES ASSUME NEW o \in Output \ (Dirty(config, manifestFile) \cup put_back), Cleaned(config, o)
               PROVE  Installed(config, o, config.hash[o])
    BY <1>1 DEF SkippedInv, Installed, Cleaned, history
  <2> QED
    BY <1>3
<1> QED
  BY <1>1, <1>4, <1>5, StopBuild

(* A run that ends without saving leaves the files as they are. *)
LEMMA EndBuild ==
  ASSUME Build, Acknowledge_Error \/ Crash
  PROVE  BuildInv'
<1>1. /\ Stop /\ outcome' # "success"
      /\ UNCHANGED <<configFile, manifestFile, installed, history>>
  BY DEF Acknowledge_Error, Crash, files, Build, BuildInv, SavingInv
<1>2. SkippedInv'
  BY <1>1, SameSkipped
<1> QED
  BY <1>1, <1>2, StopBuild

(* An edit: what it makes one that is skipped counts as put back, and so     *)
(* does what it moves.                                                       *)
LEMMA EditBuild ==
  ASSUME Build, Edit_Config
  PROVE  BuildInv'
<1>1. /\ phase = "stopped" /\ outcome' = "none"
      /\ put_back' = put_back \cup Put_Back(configFile, configFile', manifestFile)
      /\ UNCHANGED <<manifestFile, installed, phase, mode, config, manifest, output_state, to_clean,
                     status, unpacked, to_copy, left_over>>
  BY DEF Edit_Config, settings, states, workers
<1>2. output_state = AllOutputs("Finished") /\ to_clean = {} /\ status = NoStatus
  BY <1>1 DEF Build, PackageInv, StoppedInv, BuildInv, SavingInv
<1>3. CleanInv' /\ DirtyInv' /\ SavingInv' /\ BuiltInv' /\ SuccessInstalls'
  BY <1>1, <1>2 DEF CleanInv, DirtyInv, SavingInv, BuiltInv, AllOutputs, SuccessInstalls, Build, BuildInv
<1>4. CopyInv'
  BY <1>1, <1>2 DEF CopyInv, AllOutputs, Build, BuildInv
<1>5. SkippedInv'
  <2> SUFFICES ASSUME configFile' # Torn, manifestFile # Torn,
                      NEW o \in Output \ (Dirty(configFile', manifestFile) \cup put_back'),
                      Cleaned(configFile, o)'
               PROVE  Installed(configFile, o, configFile.hash[o])'
    BY <1>1 DEF SkippedInv
  <2>1. o \notin put_back /\ o \notin Put_Back(configFile, configFile', manifestFile)
    BY <1>1
  <2>2. o \in Skipped(configFile', manifestFile)
    BY DEF Skipped
  <2>3. /\ o \in Skipped(configFile, manifestFile)
        /\ configFile'.destination[o] = configFile.destination[o]
    BY <2>1, <2>2 DEF Put_Back
  <2>4. configFile # Torn /\ o \notin Dirty(configFile, manifestFile)
    BY <2>3 DEF Skipped
  <2>5. configFile'.hash[o] = configFile.hash[o]
    BY <2>4, NotDirty
  <2>6. Installed(configFile, o, configFile.hash[o])
    BY <1>1, <2>1, <2>3, <2>4 DEF SkippedInv, Cleaned, Build, BuildInv
  <2> QED
    BY <1>1, <2>3, <2>5, <2>6 DEF Installed
<1> QED
  BY <1>3, <1>4, <1>5 DEF BuildInv

(* Every step preserves the invariants. *)
LEMMA NextBuild == Build /\ [Next]_vars => Build'
<1> SUFFICES ASSUME Build, [Next]_vars PROVE Build'
  OBVIOUS
<1>1. PackageInv'
  BY NextPreserves DEF Build
<1>2. BuildInv'
  <2>1. CASE \E m \in Modes : Initialize(m) \/ Initialize_Throws(m)
    BY <2>1, StartBuild, ThrowBuild
  <2>2. CASE \E o \in Output : Clean_Directory(o)
    BY <2>2, CleanBuild
  <2>3. CASE \E i \in Input : Service_Input(i)
    BY <2>3, InputBuild
  <2>4. CASE \E o \in Output : Service_Output(o)
    BY <2>4, OutputBuild
  <2>5. CASE \E x \in Input \cup Output : Worker(x)
    BY <2>5, WorkerBuild
  <2>6. CASE Begin_Save_Manifest \/ Save_Manifest \/ Save_Config \/ Acknowledge_Error \/ Crash
    BY <2>6, BeginSaveBuild, SaveManifestBuild, SaveConfigBuild, EndBuild
  <2>7. CASE Edit_Config
    BY <2>7, EditBuild
  <2>8. CASE UNCHANGED vars
    BY <2>8, QuietBuild DEF vars, files, settings, states, workers
  <2> QED
    BY <2>1, <2>2, <2>3, <2>4, <2>5, <2>6, <2>7, <2>8 DEF Next, Run
<1> QED
  BY <1>1, <1>2 DEF Build

(* What the next run skips is installed, whatever runs have failed or were  *)
(* killed before and however the configuration was edited: but where the    *)
(* cleaning of its destination was given up, and but for outputs that an    *)
(* edit moved or gave the hash of the manifest.                             *)
THEOREM SkippedIsAlwaysInstalled == Spec => []SkippedIsInstalled
<1>1. Build => SkippedIsInstalled
  BY DEF Build, BuildInv, SkippedInv, SkippedIsInstalled, Skipped
<1> QED
  BY InitBuild, NextBuild, <1>1, PTL DEF Spec

(* What a run that ends well says it has built, it has, with the same two    *)
(* exceptions; and it leaves the hashes of a consistent configuration in the *)
(* manifest.                                                                 *)
THEOREM SuccessAlwaysInstalls == Spec => []SuccessInstalls
<1>1. Build => SuccessInstalls
  BY DEF Build, BuildInv
<1> QED
  BY InitBuild, NextBuild, <1>1, PTL DEF Spec
=============================================================================
